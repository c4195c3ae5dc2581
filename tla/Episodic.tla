------------------------------- MODULE Episodic -------------------------------
(***************************************************************************)
(* The episodic memory of cognitive/episodic.rs and the two places that    *)
(* drive it: predictive_cycle records one experience, and once a second    *)
(* metabolic_maintenance forgets and consolidates (snn/network.rs).  Every *)
(* 50 ms the hippocampus of bio/hippocampus.rs (dentate gyrus with k       *)
(* winners, recurrent CA3, CA1) may detect a sharp-wave ripple, which is   *)
(* to start a replay.                                                      *)
(*                                                                         *)
(* Time is counted in metabolic cycles and kept as the age of a trace's    *)
(* last access.  Significance is in twentieths; an experience is the       *)
(* number of its recording.  The significance of a long-term trace is left *)
(* out: nothing the program runs reads it.  Activities and weights are in  *)
(* twentieths of FixedPoint::ONE too: the mossy weight 0.05 is 1, the      *)
(* thresholds 0.15 and 0.2 are 3 and 4, 0.1 is 2.                          *)
(***************************************************************************)
EXTENDS Naturals, FiniteSets, FiniteSetsExt, Sequences, SequencesExt

CONSTANTS Cells,            \* CA3_NEURONS, also CA1_NEURONS: 128
          Winners,          \* K_WTA: 16
          SwrDuration,      \* SWR_DURATION, in calls
          Short, Long,      \* ST_CAPACITY, LT_CAPACITY: 256, 512
          HalfLife,         \* st_half_life in metabolic cycles: 10
          MaxConsolidations,
          Significance,     \* what compute_significance may give
          Hash,             \* state hashes, by the bits that differ from 0
          MaxDist,          \* MAX_DIST: 16 bits
          MaxRecorded       \* bound: experiences recorded

VARIABLES ca3,              \* activity of every CA3 cell
          schaffer,         \* weights, shared by index as in the code
          swr,              \* swr_active
          timer,            \* swr_timer
          trigger,          \* consolidation_trigger
          short,            \* short_term: a ring of traces
          recorded,         \* st_idx
          long              \* long_term[0 .. lt_count)

hippocampus == <<ca3, schaffer, swr, timer, trigger>>

One == 20
Cell == 0 .. Cells - 1
Granule == 0 .. 2 * Cells - 1               \* DG_NEURONS = 2 * CA3_NEURONS
Clamped(x) == Min({x, One})
Times(a, b) == (a * b) \div One

\* Index of the collateral between CA3 cell j and cell i.
Collateral(i, j) == (i * Cells + j) % (2 * Cells)

HippocampusInit ==
  /\ ca3 = [i \in Cell |-> 0] /\ schaffer = [s \in Granule |-> 2]
  /\ swr = FALSE /\ timer = 0 /\ trigger = FALSE

\* dg_processing: the first Winners of the driven cells; input is the set of
\* granule cells driven to full activity, the others being silent.
Winning(input) ==
  {g \in input : Cardinality({h \in input : h < g}) < Winners}

\* The input CA3 cell i has from its granule cell, at MossyFiber::new's weight.
Mossy(won, i) == IF 2 * i \in won THEN Times(1, One) ELSE 0

Active(a) == a > 2

\* ca3_recurrent: one pass in the order of the cells, each seeing the new
\* activity of those before it.
CA3(won, novelty) ==
  LET threshold == IF novelty > 4 THEN 3 ELSE 4
      new[i \in Cell] ==
        LET act(j) == IF j < i THEN new[j] ELSE ca3[j]
            from == {j \in Cell \ {i} : Active(act(j))}
            in == Mossy(won, i) + MapThenSumSet(
                    LAMBDA j : Times(schaffer[Collateral(i, j)], act(j)), from)
        IN  IF in > threshold THEN Clamped(in - threshold) ELSE 0
  IN  new

\* Weights after the Hebbian passes of ca3_recurrent and ca1_output.
Learnt(act, novelty, reward) ==
  LET live == {i \in Cell : Active(act[i])}
      pairs(s) == {p \in live \X live :
                     p[1] # p[2] /\ Collateral(p[1], p[2]) = s}
      ltp(s) == IF novelty > 4
                THEN Clamped(schaffer[s]
                             + Cardinality(pairs(s)) * Times(2, novelty))
                ELSE schaffer[s]
      ca1(i) == Clamped(Times(ltp(Collateral(i, i)), act[i]) + 2)
      gain(s) == MapThenSumSet(
                   LAMBDA i : Times(Times(2, reward), ca1(i)),
                   {i \in live : Collateral(i, i) = s /\ Active(ca1(i))})
  IN  [s \in Granule |-> Clamped(ltp(s) + gain(s))]

\* swr_check: a ripple begins when more than a quarter of CA3 is active in
\* the right theta phase, and lasts SwrDuration calls.
Ripples(act, theta) ==
  swr \/ (Cardinality({i \in Cell : Active(act[i])}) > Cells \div 4 /\ theta)

HippocampusStep(input, novelty, reward, theta) ==
  LET act == CA3(Winning(input), novelty)
      on == Ripples(act, theta)
      tick == (IF swr THEN timer ELSE 0) + 1
      wave == IF on THEN Times(1, One) ELSE 0
  IN  /\ ca3' = [i \in Cell |-> IF Active(act[i]) THEN Clamped(act[i] + wave)
                                                  ELSE act[i]]
      /\ schaffer' = Learnt(act, novelty, reward)
      /\ swr' = (on /\ tick < SwrDuration)
      /\ timer' = IF on /\ tick < SwrDuration THEN tick ELSE 0
      /\ trigger' = on /\ (swr => trigger)
-----------------------------------------------------------------------------
episodic == <<short, recorded, long>>
vars == <<hippocampus, episodic>>

Place == 0 .. Short - 1
Empty == [exp |-> 0, hash |-> 0, sig |-> 0, age |-> 0, moved |-> 0,
          valid |-> FALSE]
Valid == {i \in Place : short[i].valid}

Init ==
  /\ HippocampusInit
  /\ short = [i \in Place |-> Empty] /\ recorded = 0 /\ long = <<>>

\* MemoryTrace::retention of x after age cycles: linear below the half-life;
\* above it half_life / elapsed, in integers, is 1 at the half-life and 0
\* later, which the floor of 0.001 turns into nothing at this scale.
Retained(x, age) ==
  IF age < HalfLife THEN (x * (2 * HalfLife - age)) \div (2 * HalfLife)
  ELSE IF age = HalfLife THEN x ELSE 0

\* recall_by_state(0) over both stores: the nearest hash, if near enough.
Known == {short[i].hash : i \in Valid} \cup {t.hash : t \in Range(long)}
Recalled == {h \in Known : h <= MaxDist /\ \A g \in Known : h <= g}

\* predictive_cycle: the hash recalled for 0, or 0 when nothing is.
StateHash(next) == IF Recalled = {} THEN 0 ELSE Min(Recalled)

\* record: the ring overwrites its oldest trace, consolidated or not.
Record ==
  /\ recorded < MaxRecorded
  /\ \E s \in Significance, next \in Hash :
       short' = [short EXCEPT ![recorded % Short] =
                   [exp |-> recorded + 1, hash |-> StateHash(next), sig |-> s,
                    age |-> 0, moved |-> 0, valid |-> TRUE]]
  /\ recorded' = recorded + 1
  /\ UNCHANGED <<long, hippocampus>>

Older(a) == Min({a + 1, HalfLife + 1})

\* apply_forgetting, a second after the last one: what is left of a trace.
\* last_access stays, so the next second decays by the whole age again.
Faded(t) ==
  LET sig == Retained(t.sig, Older(t.age))
  IN  IF ~t.valid THEN t
      ELSE [t EXCEPT !.age = Older(@), !.sig = sig, !.valid = sig > 0]

\* consolidate: a trace's score must pass min_significance, 0.3.
Score(t) == Retained(t.sig, t.age)
Worthy(st) == {i \in Place : st[i].valid /\ Score(st[i]) > 6}

\* lt_free: what of the long-term store is free.
Room == Long - Len(long)

\* The transfer itself.  Its branch for a full store, which replaces a trace
\* (the least significant; here the oldest), is dead code: Room is 0 then.
Stored(traces) ==
  LET all == long \o traces
  IN  IF Len(all) <= Long THEN all
      ELSE SubSeq(all, Len(all) - Long + 1, Len(all))

\* The better half of them, at least one, by score and then place.
Moved(st) ==
  LET worthy == Worthy(st)
      before(i, j) == \/ Score(st[i]) > Score(st[j])
                      \/ Score(st[i]) = Score(st[j]) /\ i < j
      rank(i) == Cardinality({j \in worthy : before(j, i)})
      half == Max({Cardinality(worthy) \div 2, 1})
  IN  [k \in 1 .. Min({half, Room, Cardinality(worthy)}) |->
         CHOOSE i \in worthy : rank(i) = k - 1]

\* Mutated form of Spent: the transfer is not counted.
SpentUncounted(t) == t
\* The short-term side of a transfer: at max_consolidations it is invalid.
Spent(t) == [t EXCEPT !.moved = @ + 1,
                      !.valid = t.moved + 1 < MaxConsolidations]

\* metabolic_maintenance: apply_forgetting, then consolidate.
Metabolic ==
  LET st == [i \in Place |-> Faded(short[i])]
      moved == Moved(st)
      traces == [k \in DOMAIN moved |->
                   [exp |-> st[moved[k]].exp, hash |-> st[moved[k]].hash]]
  IN  /\ short' = [i \in Place |-> IF i \in Range(moved) THEN Spent(st[i])
                                                         ELSE st[i]]
      /\ long' = Stored(traces)
      /\ UNCHANGED <<recorded, hippocampus>>

\* mark_replayed: the first valid trace of that hash, boosted n times by 0.05.
Boosted(h, n) ==
  LET alike == {i \in Valid : short[i].hash = h}
  IN  IF n = 0 \/ alike = {} THEN short
      ELSE [short EXCEPT ![Min(alike)].age = 0,
                         ![Min(alike)].sig = Clamped(@ + n)]

\* trigger_ripple_replay: short-term traces above 0.4, then the long-term
\* ones; each replay finds its trace by hash, and all have hash 0.
Replayed ==
  Boosted(0, Cardinality({i \in Valid : short[i].sig > 8}) + Len(long))

\* process_bio_modules, every 50 ms: a hippocampus step and its bridge.
BioStep ==
  \E driven \in {{}, {g \in Granule : g % 2 = 0}, Granule},
     novelty, reward \in {0, One}, theta \in BOOLEAN :
    /\ HippocampusStep(driven, novelty, reward, theta)
    /\ short' = IF swr' /\ trigger' THEN Replayed ELSE short
    /\ UNCHANGED <<recorded, long>>

Next == Record \/ Metabolic \/ BioStep
Spec == Init /\ [][Next]_vars
-----------------------------------------------------------------------------
Experience == 1 .. MaxRecorded

TypeOK ==
  /\ short \in [Place -> [exp : 0 .. MaxRecorded, hash : Hash,
                          sig : 0 .. One, age : 0 .. HalfLife + 1,
                          moved : 0 .. MaxConsolidations, valid : BOOLEAN]]
  /\ recorded \in 0 .. MaxRecorded
  /\ Len(long) <= Long

\* No experience takes more of the long-term store than MaxConsolidations
\* places, however long it stays significant.
LongTermShare ==
  \A e \in Experience :
    Cardinality({k \in DOMAIN long : long[k].exp = e}) <= MaxConsolidations

\* What has been consolidated stays, in its order, as long as the long-term
\* store has room: a transfer of more than there is room for displaces nothing.
LongTermIsKept == [][Len(long) < Long => IsPrefix(long, long')]_vars

(* What findings rest on: true of this code, and not what it should do.    *)

\* Every trace carries the hash 0, because the hash recorded is the one that
\* was looked up: recall by state cannot tell two experiences apart.
StatesAreAlike ==
  /\ \A i \in Valid : short[i].hash = 0
  /\ \A k \in DOMAIN long : long[k].hash = 0

\* CA3 never becomes active whatever the input, because one mossy fibre, the
\* only drive of a silent CA3, stays below the threshold: no ripple is ever
\* detected and the replay that Episodic keeps for it never runs.
CA3StaysSilent == ~swr /\ \A i \in Cell : ca3[i] = 0
=============================================================================
