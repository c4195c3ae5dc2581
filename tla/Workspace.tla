------------------------------- MODULE Workspace -------------------------------
(***************************************************************************)
(* The global workspace and what its broadcasts do to the reflexes:        *)
(* ignition (cognitive/global_workspace.rs), attention                     *)
(* (cognitive/attention.rs), the reflex override                           *)
(* (cognitive/reflex_override.rs) and the spinal reflexes                  *)
(* (safety/reflexes.rs), in the order in which a network step and the      *)
(* emergency check after it run them.                                      *)
(*                                                                         *)
(* Levels are percents and scores ten-thousandths.  The derived cognitive  *)
(* mode is always Stable: the weight histogram it is made from is never    *)
(* fed.  Of the noradrenaline only whether it passes 0.6 is kept; the rest *)
(* of a step may move it either way, and a crisis raises it to one.        *)
(***************************************************************************)
EXTENDS Integers, FiniteSets

CONSTANTS Levels,           \* percents that inputs take, multiples of 20
          Pressure,         \* integration_pressure, in percent
          AttnPeriod,       \* steps between two attention updates: 5
          ShiftInterval,    \* updates between two shifts of focus: 200
          MinDwell,         \* the dwell an override needs: 5
          MaxDwell,         \* dwell_target: 100
          Rules,            \* reflex rules
          Soft              \* those that allow a cognitive override

ASSUME LevelAssumption == Levels \subseteq 0 .. 100 /\ Pressure \subseteq 0 .. 100
ASSUME PeriodAssumption ==
  {AttnPeriod, ShiftInterval, MinDwell, MaxDwell} \subseteq Nat \ {0}

VARIABLES at,               \* attend, act, ignite or check
          time,             \* steps, modulo AttnPeriod
          updates,          \* attention updates, modulo ShiftInterval
          focused, dwell,   \* is there a focus, dwell_counter
          na,               \* does noradrenaline pass 0.6
          override, active, \* cognitive_override, active_reflexes
          frame,            \* last_broadcast, with the risk it was made at
          quiet             \* (history) steps since the last ignition

workVars == <<at, time, updates, focused, dwell, na, override, active, frame, quiet>>

Enough == (MinDwell - 1) * AttnPeriod
Silence == [who |-> "Nobody", mode |-> "Quiescent", risk |-> 0]

WorkInit ==
  /\ at = "attend" /\ time = 0 /\ updates = 0 /\ focused = FALSE /\ dwell = 0
  /\ na = FALSE /\ override = FALSE /\ active = {} /\ frame = Silence
  /\ quiet = 0

\* Clamped to lo .. hi.
Clamp(x, lo, hi) == IF x < lo THEN lo ELSE IF x > hi THEN hi ELSE x

\* The candidates of submit_network_state, in the order of submission.
Candidates(pe, newness, conf, risk) ==
  {[ord |-> 1, who |-> "Predictor", sal |-> pe, conf |-> 100 - pe,
    nov |-> newness, rew |-> Clamp(40 - pe, -100, 100), risk |-> 0, cost |-> 8]}
  \cup {c \in {[ord |-> 2, who |-> "Actor", sal |-> conf, conf |-> conf,
                nov |-> (newness * 35) \div 100, rew |-> conf \div 2, risk |-> 0,
                cost |-> 12]} : conf >= 0}
  \cup {c \in {[ord |-> 3, who |-> "Safety", sal |-> risk, conf |-> 85,
                nov |-> 0, rew |-> 20, risk |-> risk, cost |-> 3]} : risk > 35}
  \cup {c \in {[ord |-> 4, who |-> "Sensory", sal |-> newness, conf |-> 55,
                nov |-> newness, rew |-> (newness * 30) \div 100, risk |-> 0,
                cost |-> 5]} : newness > 25}

\* Mutated form of Bias: the safety specialist competes like any other.
BiasNone(c) == -28 * c.risk
Bias(c) == IF c.who = "Safety" THEN 2500 + 30 * c.risk ELSE -28 * c.risk

Score(c, pressure) ==
  30 * c.sal + 20 * c.conf + 18 * c.nov + 17 * c.rew - 10 * c.cost
    + Bias(c) + 5 * pressure

\* ignite takes the first of the best.
Winner(cs, p) ==
  CHOOSE c \in cs : \A d \in cs : \/ Score(d, p) < Score(c, p)
                                  \/ Score(d, p) = Score(c, p) /\ c.ord <= d.ord

\* derive_mode
ModeOf(c, score) ==
  CASE c.who = "Safety" /\ c.risk > 75 -> "Crisis"
    [] c.who = "Safety" /\ c.risk <= 75 -> "Guarded"
    [] c.who # "Safety" /\ c.nov > 55 -> "Exploring"
    [] c.who # "Safety" /\ c.nov <= 55 /\ score > 5500 -> "Focused"
    [] OTHER -> "Quiescent"

\* The frame that ignites, if the best candidate passes the threshold.
Ignited(pe, newness, conf, energy, p) ==
  LET risk == Clamp(pe + 100 - energy, 0, 100)
      c == Winner(Candidates(pe, newness, conf, risk), p)
  IN IF Score(c, p) < 3200 THEN [Silence EXCEPT !.risk = risk]
     ELSE [who |-> c.who, mode |-> ModeOf(c, Score(c, p)), risk |-> risk]

\* All that a step can broadcast; a quiet actor (-1) submits nothing.
Frames == {Ignited(pe, newness, conf, energy, p) :
             pe \in Levels, newness \in Levels, conf \in Levels \cup {-1},
             energy \in Levels, p \in Pressure}

\* Mutated form of Refocused: the dwell counter goes on.
RefocusedKeeps == dwell
\* set_focus
Refocused == 0

\* AttentionRouter::update, when it is due: a first focus, or a shift of it
\* every ShiftInterval updates, and then one more step of dwelling.
Attend ==
  /\ at = "attend" /\ at' = "act"
  /\ LET now == (time + 1) % AttnPeriod
         n == (updates + 1) % ShiftInterval
         base == IF n = 0 \/ ~focused THEN 0 ELSE dwell
     IN /\ time' = now
        /\ IF now = 0
           THEN /\ updates' = n /\ focused' = TRUE
                /\ dwell' = IF base < MaxDwell THEN base + 1 ELSE base
           ELSE UNCHANGED <<updates, focused, dwell>>
  /\ UNCHANGED <<na, override, active, frame, quiet>>

\* evaluate_override
Granted == ~na /\ dwell >= MinDwell

\* check_all with override o: the rules that fire, and noradrenaline up.
CheckAll(o) ==
  \E triggered \in SUBSET Rules :
    LET fired == {r \in triggered : ~(o /\ r \in Soft)} IN
    /\ active' = fired /\ na' = (na \/ (fired # {} /\ ~o))

\* ActorNetwork::step: nothing while a simulation inhibits it, else the
\* override is evaluated and the reflexes are checked.
Act ==
  /\ at = "act" /\ at' = "ignite"
  /\ \/ UNCHANGED <<override, active, na>>
     \/ override' = Granted /\ CheckAll(Granted)
  /\ UNCHANGED <<time, updates, focused, dwell, frame, quiet>>

\* update_neuromodulators moves the level; process_global_workspace ignites
\* and, with a frame, sets the focus anew; a crisis raises the level itself.
Ignite ==
  /\ at = "ignite" /\ at' = "check"
  /\ frame' \in Frames
  /\ na' \in IF frame'.mode = "Crisis" THEN {TRUE} ELSE BOOLEAN
  /\ IF frame'.who = "Nobody"
     THEN /\ quiet' = IF quiet < Enough THEN quiet + 1 ELSE quiet
          /\ UNCHANGED <<focused, dwell>>
     ELSE quiet' = 0 /\ focused' = TRUE /\ dwell' = Refocused
  /\ UNCHANGED <<time, updates, override, active>>

\* check_emergencies: the reflexes again, with the override as it was
\* evaluated before this step's ignition.  A simulated step skips it.
Check ==
  /\ at = "check" /\ at' = "attend"
  /\ UNCHANGED <<active, na>> \/ CheckAll(override)
  /\ UNCHANGED <<time, updates, focused, dwell, override, frame, quiet>>

WorkNext == Attend \/ Act \/ Ignite \/ Check
WorkSpec == WorkInit /\ [][WorkNext]_workVars
-----------------------------------------------------------------------------
\* A risk that submits the safety specialist makes it win, against any
\* confident actor or novel sensation, and past 0.75 the frame is a crisis.
SafetyPrevails ==
  /\ frame.risk > 35 => frame.who = "Safety"
  /\ frame.risk > 75 => frame.mode = "Crisis"

\* An override is granted only after a stretch without any broadcast: each
\* ignition sets the focus anew, so nothing that the last (MinDwell - 1)
\* attention periods broadcast can be overruled, a crisis included, even if
\* its noradrenaline is gone by then.
OverrideNeedsQuiet == [][override' /\ ~override => quiet >= Enough]_workVars
=============================================================================
