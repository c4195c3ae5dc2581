------------------------------- MODULE Temporal -------------------------------
(***************************************************************************)
(* Temporal cognition (cognitive/temporal.rs): the time cells that follow  *)
(* an event, the interval timer, and the patterns of three actions that    *)
(* repeat in the sequence of recorded events.  It is updated once per      *)
(* network step from the metabolic clock, which may not have moved, or     *)
(* have moved by more than one; the rest is called by whoever likes.       *)
(*                                                                         *)
(* The sequence buffer is longer than the search ever looks back, so the   *)
(* whole log stands for it; before its first entry it is blank.  Of a time *)
(* cell only whether it is on, fading or off is kept.                      *)
(***************************************************************************)
EXTENDS Integers, Sequences, FiniteSets, FiniteSetsExt

CONSTANTS Acts,             \* actions; a blank entry has action 0
          Hashes,           \* state hashes; a blank entry has hash 0
          Reach,            \* how far back patterns are looked for: 100
          MaxPatterns,      \* MAX_PATTERNS: 32
          Offsets,          \* TIME_CELL_OFFSETS
          Targets,          \* intervals asked for
          MaxMs, MaxEvents  \* bounds

VARIABLES ms,               \* the metabolic clock
          seen,             \* last_update_ms
          log,              \* seq_buffer
          patterns,         \* those in use, oldest first
          cells, since,     \* time cells, cell_start_time
          timer,            \* interval_target, _start, _fired
          asked             \* (history) when the timer was started, or -1

temporalVars == <<ms, seen, log, patterns, cells, since, timer, asked>>

Blank == [hash |-> 0, action |-> 0, at |-> 0]
\* The entry i events ago.
Ago(l, i) == IF i < Len(l) THEN l[Len(l) - i] ELSE Blank

TemporalInit ==
  /\ ms = 0 /\ seen = 0 /\ log = <<>> /\ patterns = <<>>
  /\ cells = [o \in Offsets |-> "off"] /\ since = 0
  /\ timer = [target |-> 1000, start |-> 0, fired |-> FALSE] /\ asked = -1

Clock == /\ ms < MaxMs /\ ms' = ms + 1
         /\ UNCHANGED <<seen, log, patterns, cells, since, timer, asked>>

\* update_time_cells: on within a tenth of the offset, then it fades.
Lit(o, elapsed) == elapsed >= (IF o > o \div 10 THEN o - (o \div 10) ELSE 1)
                   /\ elapsed <= o + (o \div 10)
Faded(c) == IF c = "off" THEN {"off"} ELSE {"fading", "off"}
Cell(o, c, elapsed) ==
  IF Lit(o, elapsed) THEN {"on", "off"}     \* at the edge the level is zero
  ELSE IF elapsed > o THEN Faded(c) ELSE IF c = "off" THEN {"off"} ELSE {"fading"}

\* update_interval: has the timer reached its target.
Fires(now) == now - timer.start >= timer.target

\* update: nothing, unless the clock has moved.
Update ==
  /\ seen # ms /\ seen' = ms
  /\ IF since = 0 THEN UNCHANGED cells
     ELSE \E f \in [Offsets -> {"on", "fading", "off"}] :
            cells' = f /\ \A o \in Offsets : f[o] \in Cell(o, cells[o], ms - since)
  /\ timer' = [timer EXCEPT !.fired = IF timer.start = 0 THEN FALSE
                                      ELSE @ \/ Fires(ms)]
  /\ UNCHANGED <<ms, log, patterns, since, asked>>

\* trigger_time_cells and reset_time_cells
TriggerCells ==
  /\ \/ since' = seen /\ UNCHANGED cells
     \/ since' = 0 /\ cells' = [o \in Offsets |-> "off"]
  /\ UNCHANGED <<ms, seen, log, patterns, timer, asked>>

\* start_interval and check_interval
StartInterval ==
  /\ \E d \in Targets : timer' = [target |-> d, start |-> seen, fired |-> FALSE]
  /\ asked' = seen
  /\ UNCHANGED <<ms, seen, log, patterns, cells, since>>
CheckInterval ==
  /\ timer.fired /\ timer' = [timer EXCEPT !.fired = FALSE, !.start = 0]
  /\ asked' = -1
  /\ UNCHANGED <<ms, seen, log, patterns, cells, since>>

Same(l, i, j) == Ago(l, i).action = Ago(l, j).action
\* Mutated form of First: the search begins at the newest event itself.
FirstFromNow == 0
\* The nearest earlier triple that detect_patterns compares with.
First == 3
\* detect_patterns: do the last three actions repeat three earlier ones.
Repeats(l) ==
  Len(l) >= 3 /\ \E i \in First .. Min({Len(l), Reach}) - 1 :
    Same(l, i, 0) /\ Same(l, i + 1, 1) /\ Same(l, i + 2, 2)

\* What learn_pattern is asked to learn.
Found(l) == [trigger |-> Ago(l, 2).hash,
             actions |-> <<Ago(l, 1).action, Ago(l, 0).action>>,
             wait |-> Ago(l, 1).at - Ago(l, 2).at]

\* The first interval moves a fifth of the way to the new one, rounded.
Merged(p, f) == [p EXCEPT !.wait = (8 * @ + 2 * f.wait + 5) \div 10,
                          !.count = @ + 1, !.last = seen]
Matches(f) == {k \in DOMAIN patterns : patterns[k].trigger = f.trigger
                                       /\ patterns[k].actions = f.actions}

\* learn_pattern: an old one is strengthened, a new one needs a free place.
Learn(f) ==
  IF Matches(f) # {}
  THEN LET k == Min(Matches(f)) IN
       patterns' = [patterns EXCEPT ![k] = Merged(@, f)]
  ELSE IF Len(patterns) < MaxPatterns
  THEN patterns' = Append(patterns,
         [trigger |-> f.trigger, actions |-> f.actions, wait |-> f.wait,
          count |-> 1, last |-> seen])
  ELSE UNCHANGED patterns

\* record_event
Record ==
  /\ Len(log) < MaxEvents
  /\ \E a \in Acts, h \in Hashes :
       LET l == Append(log, [hash |-> h, action |-> a, at |-> seen]) IN
       /\ log' = l
       /\ IF Repeats(l) THEN Learn(Found(l)) ELSE UNCHANGED patterns
  /\ UNCHANGED <<ms, seen, cells, since, timer, asked>>

TemporalNext ==
  \/ Clock \/ Update \/ TriggerCells \/ StartInterval \/ CheckInterval \/ Record
-----------------------------------------------------------------------------
\* How often the end of a pattern stands in the log, one that runs off its
\* beginning included.
Occurrences(p) ==
  Cardinality({i \in 0 .. Len(log) - 1 :
    <<Ago(log, i + 1).action, Ago(log, i).action>> = p.actions})

\* A pattern is nothing but what was seen again: it counts at most one less
\* than the times its actions occurred, where the blanks before the first
\* event pass for actions 0, and its trigger is a state that was recorded.
PatternsWereSeen ==
  \A k \in DOMAIN patterns : LET p == patterns[k] IN
    /\ p.count < Occurrences(p)
    /\ \E i \in DOMAIN log : log[i].hash = p.trigger
    /\ \A j \in DOMAIN patterns \ {k} : <<p.trigger, p.actions>>
                           # <<patterns[j].trigger, patterns[j].actions>>

\* The timer fires once its interval has passed by the last update, neither
\* before nor only at the exact millisecond, unless it was started in the
\* very first one, which is taken for not at all.
TimerIsHonest ==
  timer.fired <=> asked > 0 /\ seen > asked /\ seen - asked >= timer.target
=============================================================================
