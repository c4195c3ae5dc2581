------------------------------ MODULE Mind_proofs ------------------------------
(***************************************************************************)
(* Proofs about the cognitive modules MCMind puts side by side, for all    *)
(* levels, periods, layers, voltages, actions and bounds.                  *)
(*                                                                         *)
(* Workspace.  SafetyPrevails: the safety candidate scores more than any   *)
(* other, so whatever ignite's order of candidates is, it wins.            *)
(* OverrideNeedsQuiet: every unit of dwell but the first took a whole      *)
(* attention period without a broadcast, because a broadcast sets the      *)
(* dwell counter to zero; QuietInv counts the steps.                       *)
(*                                                                         *)
(* Attention.  FocusInv: the layer a bottom-up focus was chosen from had a *)
(* neuron that was active, and the recorded peak is the strongest.         *)
(*                                                                         *)
(* Temporal cognition.  TimerInv ties the timer to the history variable;   *)
(* PatternInv counts the places of the log where a pattern's two actions   *)
(* stand: an event moves them all one place back and may add one.          *)
(*                                                                         *)
(* Hormones.  HormoneInv follows the levels through their periods: what a  *)
(* step sets is what a level goes back to before the mode is read again.   *)
(*                                                                         *)
(* Bio-inspired modules.  BioInv orders the cells of each module: they are *)
(* fed one number, so the first is never passed.                           *)
(*                                                                         *)
(* Foresight.  ForesightInv says of every bank that it holds at most one   *)
(* prototype, of no change: what is learned was read after the simulation  *)
(* had been undone.  Sums, and the confidence, are recursive functions;    *)
(* Counting is the induction by which they are known.                      *)
(***************************************************************************)
EXTENDS MCMind, FiniteSetTheorems, WellFoundedInduction, TLAPS

(* The workspace.                                                        *)

\* Whatever part a step drives, the workspace takes one of its own or rests.
LEMMA WorkStarts == MindInit => WorkInit
BY DEF MindInit

\* A step of the whole is one of the workspace or leaves it alone.
LEMMA WorkSteps == [MindNext]_mindVars => [WorkNext]_workVars
BY DEF MindNext, Still, mindVars

Percent == 0 .. 100

\* What a candidate of the other specialists scores at most.
LEMMA OthersScoreLess ==
  ASSUME NEW pe \in Percent, NEW newness \in Percent, NEW conf \in -1 .. 100,
         NEW risk \in Percent, risk > 35, NEW p \in Percent,
         NEW c \in Candidates(pe, newness, conf, risk), c.ord # 3
  PROVE  Score(c, p) \in Int /\ Score(c, p) < 4510 + 60 * risk + 5 * p
<1>1. CASE c = [ord |-> 1, who |-> "Predictor", sal |-> pe, conf |-> 100 - pe,
                nov |-> newness, rew |-> Clamp(40 - pe, -100, 100),
                risk |-> 0, cost |-> 8]
  BY <1>1 DEF Score, Bias, Clamp, Percent
<1>2. CASE /\ conf >= 0
           /\ c = [ord |-> 2, who |-> "Actor", sal |-> conf, conf |-> conf,
                   nov |-> (newness * 35) \div 100, rew |-> conf \div 2,
                   risk |-> 0, cost |-> 12]
  <2>1. (newness * 35) \div 100 \in 0 .. 35 /\ conf \div 2 \in 0 .. 50
    BY <1>2 DEF Percent
  <2> QED  BY <1>2, <2>1 DEF Score, Bias, Percent
<1>3. CASE c = [ord |-> 4, who |-> "Sensory", sal |-> newness, conf |-> 55,
                nov |-> newness, rew |-> (newness * 30) \div 100,
                risk |-> 0, cost |-> 5]
  <2>1. (newness * 30) \div 100 \in 0 .. 30
    BY DEF Percent
  <2> QED  BY <1>3, <2>1 DEF Score, Bias, Percent
<1> QED  BY <1>1, <1>2, <1>3 DEF Candidates

\* A candidate that beats all others is the winner.
LEMMA BestWins ==
  ASSUME NEW S, NEW p \in Percent, NEW s \in S, s.ord \in Int,
         \A c \in S : Score(c, p) \in Int,
         \A c \in S : c # s => Score(c, p) < Score(s, p)
  PROVE  Winner(S, p) = s
<1> DEFINE Best(c) == \A d \in S : \/ Score(d, p) < Score(c, p)
                                   \/ Score(d, p) = Score(c, p) /\ c.ord <= d.ord
<1>1. Best(s)
  OBVIOUS
<1>2. ASSUME NEW c \in S, Best(c), c # s PROVE FALSE
  <2>1. Score(s, p) < Score(c, p) \/ Score(s, p) = Score(c, p)
    BY <1>2
  <2> QED  BY <1>2, <2>1
<1>3. \A c \in S : Best(c) => c = s
  BY <1>2
<1> QED  BY <1>1, <1>3 DEF Winner

\* With a risk above 0.35 the safety candidate is submitted, and it wins.
LEMMA SafetyIgnites ==
  ASSUME NEW pe \in Percent, NEW newness \in Percent, NEW conf \in -1 .. 100,
         NEW energy \in Percent, NEW p \in Percent,
         NEW f, f = Ignited(pe, newness, conf, energy, p)
  PROVE  /\ f.risk \in Percent
         /\ f.risk > 35 => f.who = "Safety"
         /\ f.risk > 75 => f.mode = "Crisis"
<1> DEFINE risk == Clamp(pe + 100 - energy, 0, 100)
           S == Candidates(pe, newness, conf, risk)
           s == [ord |-> 3, who |-> "Safety", sal |-> risk, conf |-> 85,
                 nov |-> 0, rew |-> 20, risk |-> risk, cost |-> 3]
           w == Winner(S, p)
<1>1. risk \in Percent
  BY DEF Clamp, Percent
<1>2. f = IF Score(w, p) < 3200 THEN [Silence EXCEPT !.risk = risk]
          ELSE [who |-> w.who, mode |-> ModeOf(w, Score(w, p)), risk |-> risk]
  BY DEF Ignited
<1>3. f.risk = risk
  BY <1>2 DEF Silence
<1> HIDE DEF risk
<1>4. CASE risk > 35
  <2>1. s \in S
    BY <1>4 DEF Candidates
  <2>2. Score(s, p) = 4510 + 60 * risk + 5 * p
    BY <1>1 DEF Score, Bias, Percent
  <2>3. \A c \in S : c.ord = 3 => c = s
    BY DEF Candidates
  <2>4. \A c \in S : c # s => Score(c, p) \in Int /\ Score(c, p) < Score(s, p)
    BY <1>1, <1>4, <2>2, <2>3, OthersScoreLess
  <2>5. Score(s, p) \in Int
    BY <1>1, <2>2 DEF Percent
  <2>6. w = s
    <3> HIDE DEF S
    <3>1. s.ord \in Int
      OBVIOUS
    <3> HIDE DEF s
    <3> QED  BY <2>1, <2>4, <2>5, <3>1, BestWins
  <2>7. ~(Score(w, p) < 3200)
    BY <1>1, <1>4, <2>2, <2>6 DEF Percent
  <2>8. f = [who |-> "Safety", mode |-> ModeOf(s, Score(s, p)), risk |-> risk]
    BY <1>2, <2>6, <2>7
  <2>9. risk > 75 => ModeOf(s, Score(s, p)) = "Crisis"
    BY <1>1 DEF ModeOf, Percent
  <2> QED  BY <1>1, <2>8, <2>9
<1> QED  BY <1>1, <1>3, <1>4 DEF Percent

\* Whatever a step ignites, the safety specialist has prevailed.
THEOREM SafetyWins == MindSpec => []SafetyPrevails
<1>1. WorkInit => SafetyPrevails
  BY DEF WorkInit, Silence, SafetyPrevails
<1>2. SafetyPrevails /\ [WorkNext]_workVars => SafetyPrevails'
  <2> SUFFICES ASSUME SafetyPrevails, [WorkNext]_workVars
               PROVE  SafetyPrevails'
    OBVIOUS
  <2>1. CASE Ignite
    <3>1. frame' \in Frames
      BY <2>1 DEF Ignite
    <3>2. PICK pe \in Levels, newness \in Levels, conf \in Levels \cup {-1},
               energy \in Levels, p \in Pressure :
             frame' = Ignited(pe, newness, conf, energy, p)
      BY <3>1 DEF Frames
    <3>3. /\ {pe, newness, energy, p} \subseteq Percent
          /\ conf \in -1 .. 100
      <4>1. Levels \subseteq 0 .. 100 /\ Pressure \subseteq 0 .. 100
        BY LevelAssumption
      <4> QED  BY <3>2, <4>1 DEF Percent
    <3>4. /\ frame'.risk > 35 => frame'.who = "Safety"
          /\ frame'.risk > 75 => frame'.mode = "Crisis"
      BY <3>2, <3>3, SafetyIgnites
    <3> QED  BY <3>4 DEF SafetyPrevails
  <2>2. CASE Attend \/ Act \/ Check \/ UNCHANGED workVars
    <3>1. frame' = frame
      BY <2>2 DEF Attend, Act, Check, workVars
    <3> QED  BY <3>1 DEF SafetyPrevails
  <2> QED  BY <2>1, <2>2 DEF WorkNext
<1> QED  BY <1>1, <1>2, WorkStarts, WorkSteps, PTL DEF MindSpec

\* The steps without a broadcast that the dwell counter stands for: a full
\* attention period for every unit but the first, and the running period.
Elapsed == (dwell - 1) * AttnPeriod + time
             + (IF at \in {"check", "attend"} THEN 1 ELSE 0)
QuietInv ==
  /\ at \in {"attend", "act", "ignite", "check"}
  /\ time \in 0 .. AttnPeriod - 1
  /\ dwell \in Nat
  /\ quiet \in Nat
  /\ dwell >= 1 => quiet >= Enough \/ quiet >= Elapsed

\* What an attention period adds to the product.
LEMMA OnePeriodMore ==
  ASSUME NEW d \in Nat, NEW n \in Nat
  PROVE  (d - 1) * n + n = d * n /\ (d - 1) * n \in Int /\ d * n \in Int
OBVIOUS

\* More units of dwell are at least as many steps.
LEMMA MoreIsLonger ==
  ASSUME NEW d \in Nat, NEW m \in Nat, NEW n \in Nat, d >= m
  PROVE  (d - 1) * n >= (m - 1) * n
<1>1. (d - 1) * n = (m - 1) * n + (d - m) * n
  OBVIOUS
<1>2. (d - m) * n >= 0
  <2>1. d - m \in Nat
    OBVIOUS
  <2> QED  BY <2>1
<1>3. (m - 1) * n \in Int /\ (d - m) * n \in Int
  OBVIOUS
<1> QED  BY <1>1, <1>2, <1>3

\* The attention update, by whether it is due.
LEMMA AttendKeepsQuiet ==
  ASSUME QuietInv, Attend
  PROVE  QuietInv'
<1> DEFINE now == (time + 1) % AttnPeriod
           n == (updates + 1) % ShiftInterval
           base == IF n = 0 \/ ~focused THEN 0 ELSE dwell
<1>1. AttnPeriod \in Nat \ {0} /\ MaxDwell \in Nat /\ MinDwell \in Nat \ {0}
  BY PeriodAssumption
<1>2. at = "attend" /\ at' = "act" /\ time' = now /\ quiet' = quiet
  BY DEF Attend
<1>3. time \in 0 .. AttnPeriod - 1 /\ dwell \in Nat /\ quiet \in Nat
  BY DEF QuietInv
<1>4. dwell >= 1 => quiet >= Enough
                      \/ quiet >= (dwell - 1) * AttnPeriod + time + 1
  BY <1>2 DEF QuietInv, Elapsed
<1>5. (dwell - 1) * AttnPeriod + AttnPeriod = dwell * AttnPeriod
      /\ (dwell - 1) * AttnPeriod \in Int /\ dwell * AttnPeriod \in Int
  BY <1>1, <1>3, OnePeriodMore
<1>6. Enough \in Int /\ Enough' = Enough
  BY <1>1 DEF Enough
<1>7. CASE time + 1 = AttnPeriod
  <2>1. now = 0
    BY <1>1, <1>7
  <2>2. dwell' = IF base < MaxDwell THEN base + 1 ELSE base
    BY <2>1 DEF Attend
  <2>3. CASE dwell' = dwell + 1
    <3>1. dwell' - 1 = dwell
      BY <1>3, <2>3
    <3>2. (dwell' - 1) * AttnPeriod = dwell * AttnPeriod
      BY <3>1
    <3>3. dwell = 0 => dwell * AttnPeriod = 0
      BY <1>1
    <3>4. quiet >= Enough \/ quiet >= dwell * AttnPeriod
      BY <1>1, <1>3, <1>4, <1>5, <1>7, <3>3
    <3>5. Elapsed' = dwell * AttnPeriod
      BY <1>2, <1>5, <2>1, <3>2 DEF Elapsed
    <3> QED  BY <1>1, <1>2, <1>3, <1>6, <2>1, <2>3, <3>4, <3>5 DEF QuietInv
  <2>4. CASE dwell' = dwell
    <3>1. Elapsed' = (dwell - 1) * AttnPeriod
      BY <1>2, <1>5, <2>1, <2>4 DEF Elapsed
    <3> QED
      BY <1>1, <1>2, <1>3, <1>4, <1>5, <1>6, <2>1, <2>4, <3>1 DEF QuietInv
  <2>5. CASE dwell' = 0
    BY <1>1, <1>2, <1>3, <2>1, <2>5 DEF QuietInv
  <2>6. CASE dwell' = 1
    <3>1. Elapsed' = 0
      BY <1>1, <1>2, <2>1, <2>6 DEF Elapsed
    <3> QED  BY <1>1, <1>2, <1>3, <1>6, <2>1, <2>6, <3>1 DEF QuietInv
  <2> QED  BY <1>3, <2>2, <2>3, <2>4, <2>5, <2>6
<1>8. CASE time + 1 < AttnPeriod
  <2>1. now = time + 1 /\ now # 0
    BY <1>1, <1>3, <1>8
  <2>2. dwell' = dwell
    BY <2>1 DEF Attend
  <2>3. Elapsed' = (dwell - 1) * AttnPeriod + time + 1
    BY <1>2, <1>3, <1>5, <2>1, <2>2 DEF Elapsed
  <2> QED
    BY <1>1, <1>2, <1>3, <1>4, <1>5, <1>6, <1>8, <2>1, <2>2, <2>3 DEF QuietInv
<1> QED  BY <1>1, <1>3, <1>7, <1>8

\* An ignition: either a step more without a broadcast, or a new start.
LEMMA IgniteKeepsQuiet ==
  ASSUME QuietInv, Ignite
  PROVE  QuietInv'
<1>1. at = "ignite" /\ at' = "check" /\ time' = time
  BY DEF Ignite
<1>2. AttnPeriod \in Nat /\ Enough \in Int /\ Enough' = Enough
  BY PeriodAssumption DEF Enough
<1>3. CASE frame'.who = "Nobody"
  <2>1. dwell' = dwell
        /\ quiet' = IF quiet < Enough THEN quiet + 1 ELSE quiet
    BY <1>3 DEF Ignite
  <2>2. (dwell - 1) * AttnPeriod \in Int
    BY <1>2, OnePeriodMore DEF QuietInv
  <2>3. Elapsed = (dwell - 1) * AttnPeriod + time
    BY <1>1, <1>2, <2>2 DEF Elapsed, QuietInv
  <2>4. Elapsed' = (dwell - 1) * AttnPeriod + time + 1
    BY <1>1, <2>1 DEF Elapsed
  <2> QED  BY <1>1, <1>2, <2>1, <2>2, <2>3, <2>4 DEF QuietInv
<1>4. CASE frame'.who # "Nobody"
  BY <1>1, <1>4 DEF Ignite, Refocused, QuietInv
<1> QED  BY <1>3, <1>4

\* QuietInv is an invariant.
LEMMA QuietCounts == MindSpec => []QuietInv
<1>1. WorkInit => QuietInv
  BY PeriodAssumption DEF WorkInit, QuietInv
<1>2. QuietInv /\ [WorkNext]_workVars => QuietInv'
  <2> SUFFICES ASSUME QuietInv, [WorkNext]_workVars PROVE QuietInv'
    OBVIOUS
  <2>1. CASE Attend
    BY <2>1, AttendKeepsQuiet
  <2>2. CASE Act
    BY <2>2 DEF Act, QuietInv, Elapsed, Enough
  <2>3. CASE Ignite
    BY <2>3, IgniteKeepsQuiet
  <2>4. CASE Check
    BY <2>4 DEF Check, QuietInv, Elapsed, Enough
  <2>5. CASE UNCHANGED workVars
    BY <2>5 DEF workVars, QuietInv, Elapsed, Enough
  <2> QED  BY <2>1, <2>2, <2>3, <2>4, <2>5 DEF WorkNext
<1> QED  BY <1>1, <1>2, WorkStarts, WorkSteps, PTL DEF MindSpec

\* No override is granted until the last (MinDwell - 1) attention periods
\* have passed without a broadcast.
THEOREM OverridesAreLate == MindSpec => OverrideNeedsQuiet
<1>1. QuietInv /\ [WorkNext]_workVars
        => [override' /\ ~override => quiet >= Enough]_workVars
  <2> SUFFICES ASSUME QuietInv, WorkNext, override', ~override
               PROVE  quiet >= Enough
    BY DEF workVars
  <2>1. Act
    BY DEF WorkNext, Attend, Ignite, Check
  <2>2. dwell >= MinDwell /\ at = "act"
    BY <2>1 DEF Act, Granted
  <2>3. MinDwell \in Nat \ {0} /\ AttnPeriod \in Nat
    BY PeriodAssumption
  <2>4. dwell \in Nat /\ quiet \in Nat /\ time \in Nat
    BY DEF QuietInv
  <2>5. (dwell - 1) * AttnPeriod >= Enough
    BY <2>2, <2>3, <2>4, MoreIsLonger DEF Enough
  <2>6. Elapsed = (dwell - 1) * AttnPeriod + time
        /\ (dwell - 1) * AttnPeriod \in Int /\ Enough \in Int
    BY <2>2, <2>3, <2>4, OnePeriodMore DEF Elapsed, Enough
  <2> QED  BY <2>2, <2>3, <2>4, <2>5, <2>6 DEF QuietInv
<1> QED  BY <1>1, QuietCounts, WorkSteps, PTL DEF MindSpec, OverrideNeedsQuiet

------------------------------------------------------------------------------
\* A set of naturals that is not empty has a least one.
LEMMA Least ==
  ASSUME NEW S \in SUBSET Nat, S # {}
  PROVE  \E x \in S : \A y \in S : x <= y
<1> DEFINE R == OpToRel(<, Nat)
<1>1. IsWellFoundedOn(R, Nat)
  BY NatLessThanWellFounded
<1> HIDE DEF R
<1>2. PICK x \in S : \A y \in S : ~(<<y, x>> \in R)
  BY <1>1, WFMin
<1> USE DEF R
<1>3. \A y \in S : ~(y < x)
  BY <1>2 DEF OpToRel
<1> QED
  BY <1>3

------------------------------------------------------------------------------
(* Attention.                                                              *)

\* The assumptions on the layers, one by one.
LEMMA AttentionSizes ==
  /\ DOMAIN LayerIn \subseteq Nat /\ TopLayer \in Nat /\ Half \in Nat
  /\ Voltages \subseteq Int /\ \E top \in Voltages : \A x \in Voltages : x <= top
  /\ BottomUp \in Int /\ TopDown \in Int /\ TopDown <= BottomUp
BY AttentionAssumption

\* The strongest neuron of a layer with any activity is one of its own.
LEMMA PeakIsMember ==
  ASSUME NEW pot \in [A!Cell -> Voltages], NEW l,
         \E n \in A!Members(l) : pot[n] > 0
  PROVE  A!Peak(pot, l) \in A!Members(l)
<1> DEFINE up == {n \in A!Members(l) : pot[n] > 0}
           tops == {n \in up : \A m \in up : pot[m] <= pot[n]}
<1>1. PICK top \in Int : \A x \in Voltages : x \in Int /\ x <= top
  BY AttentionSizes
<1>2. up \subseteq A!Cell /\ A!Cell \subseteq Nat /\ up # {}
  <2>1. up \subseteq A!Cell /\ A!Cell \subseteq Nat
    BY AttentionSizes DEF A!Members, A!Cell
  <2>2. PICK n \in A!Members(l) : pot[n] > 0
    OBVIOUS
  <2>3. n \in up
    BY <2>2
  <2> QED
    BY <2>1, <2>3
<1> HIDE DEF up
<1>3. ASSUME NEW n \in up PROVE pot[n] \in Int /\ top - pot[n] \in Nat
  <2>1. pot[n] \in Voltages
    BY <1>2
  <2>2. pot[n] \in Int /\ pot[n] <= top
    BY <1>1, <2>1
  <2> QED
    BY <2>2
<1> DEFINE below == {top - pot[n] : n \in up}
<1>4. PICK x \in below : \A y \in below : x <= y
  <2>1. below \subseteq Nat /\ below # {}
    BY <1>2, <1>3
  <2> QED
    BY <2>1, Least
<1>5. PICK n \in up : x = top - pot[n]
  OBVIOUS
<1>6. n \in tops
  <2>1. ASSUME NEW m \in up PROVE pot[m] <= pot[n]
    <3>1. x <= top - pot[m]
      BY <1>4
    <3> QED
      BY <1>3, <1>5, <3>1
  <2> QED
    BY <2>1
<1>7. A!Min(tops) \in tops
  <2>1. tops \in SUBSET Nat /\ tops # {}
    BY <1>2, <1>6
  <2> HIDE DEF tops
  <2>2. \E k \in tops : \A j \in tops : k <= j
    BY <2>1, Least
  <2> QED
    BY <2>2 DEF A!Min
<1>8. A!Peak(pot, l) = A!Min(tops)
  BY <1>2 DEF A!Peak, up
<1>9. up \subseteq A!Members(l)
  BY DEF up
<1> QED
  BY <1>7, <1>8, <1>9

\* The peaks of layers that were loud, and of the focus on one.
FocusInv ==
  /\ loud \subseteq A!Layer
  /\ \A l \in loud : peak[l] \in A!Members(l)
  /\ focus.type = "BottomUpSalient" /\ focus.heard
       => focus.neuron \in A!Members(focus.layer)

\* AttentionController::new has attended nothing.
LEMMA FocusStarts == A!AttInit => FocusInv
BY DEF A!AttInit, FocusInv, A!NoFocus

\* update_saliency: what is heard is what the layer's peak says now.
LEMMA RecomputeKeeps ==
  FocusInv /\ A!Recompute =>
    /\ loud' \subseteq A!Layer
    /\ \A l \in loud' : peak'[l] \in A!Members(l)
<1> SUFFICES ASSUME FocusInv, A!Recompute
             PROVE  /\ loud' \subseteq A!Layer
                    /\ \A l \in loud' : peak'[l] \in A!Members(l)
  OBVIOUS
<1>1. PICK pot \in [A!Cell -> Voltages] :
        /\ peak' = [l \in A!Layer |-> A!Peak(pot, l)]
        /\ loud' = {l \in A!Layer : \E n \in A!Members(l) : pot[n] > 0}
  BY DEF A!Recompute
<1>2. ASSUME NEW l \in loud' PROVE peak'[l] \in A!Members(l)
  <2>1. l \in A!Layer /\ \E n \in A!Members(l) : pot[n] > 0
    BY <1>1
  <2> QED
    BY <1>1, <2>1, PeakIsMember
<1> QED
  BY <1>1, <1>2

\* Every step of the attention controller.
LEMMA AttentionKeeps == FocusInv /\ A!AttNext => FocusInv'
<1> SUFFICES ASSUME FocusInv, A!AttNext PROVE FocusInv'
  OBVIOUS
<1>1. CASE A!Attend
  <2>1. /\ loud' \subseteq A!Layer
        /\ \A l \in loud' : peak'[l] \in A!Members(l)
    <3>1. A!Recompute \/ UNCHANGED <<peak, loud, salient>>
      BY <1>1 DEF A!Attend
    <3> QED
      BY <3>1, RecomputeKeeps DEF FocusInv
  <2>2. PICK goal \in {{}} \cup {{l} : l \in 0 .. TopLayer - 1} :
          \/ focus' = A!Focused(A!FocusLayer(goal))
          \/ focus' = A!Focused(salient')
          \/ focus' = focus
    BY <1>1 DEF A!Attend
  <2>3. A!FocusLayer(goal) = salient'
    BY AttentionSizes DEF A!FocusLayer
  <2>4. CASE focus' = A!Focused(salient')
    BY <2>1, <2>4 DEF A!Focused, FocusInv
  <2>5. CASE focus' = focus
    BY <2>1, <2>5 DEF FocusInv
  <2> QED
    BY <2>2, <2>3, <2>4, <2>5
<1>2. CASE A!Broadcast
  BY <1>2 DEF A!Broadcast, FocusInv
<1>3. CASE A!Explore
  BY <1>3 DEF A!Explore, FocusInv
<1> QED
  BY <1>1, <1>2, <1>3 DEF A!AttNext

\* For all layers, voltages and weights: a focus that was chosen for its
\* activity attends the neuron it names (update_saliency, attend).
THEOREM FocusIsAttended == MindSpec => []FocusIsInhabited
<1>1. MindInit => FocusInv
  BY FocusStarts DEF MindInit
<1>2. FocusInv /\ [MindNext]_mindVars => FocusInv'
  <2>1. FocusInv /\ UNCHANGED attention => FocusInv'
    BY DEF attention, FocusInv
  <2> QED
    BY <2>1, AttentionKeeps DEF MindNext, Still, mindVars, attention
<1>3. FocusInv => FocusIsInhabited
  <2> SUFFICES ASSUME FocusInv, focus.type = "BottomUpSalient", focus.heard
               PROVE  focus.neuron \in A!Attended
    BY DEF FocusIsInhabited, A!FocusIsInhabited
  <2>1. focus.neuron \in A!Members(focus.layer) /\ focus.neuron \in Nat
    BY AttentionSizes DEF FocusInv, A!Members, A!Cell
  <2>2. A!Near(focus.neuron, focus.neuron)
    BY <2>1, AttentionSizes DEF A!Near
  <2> QED
    BY <2>1, <2>2 DEF A!Attended
<1> QED
  BY <1>1, <1>2, <1>3, PTL DEF MindSpec

------------------------------------------------------------------------------
(* Temporal cognition.                                                     *)

\* The assumptions on time, one by one.
LEMMA TemporalSizes == Reach \in Nat /\ MaxMs \in Nat /\ Targets \subseteq Nat
BY TemporalAssumption

\* The timer, with what the history variable stands for.
TimerInv ==
  /\ ms \in Nat /\ seen \in 0 .. ms
  /\ timer \in [target : Nat, start : Nat, fired : BOOLEAN]
  /\ timer.start <= seen /\ asked \in Int
  /\ IF timer.start = 0 THEN asked <= 0 ELSE asked = timer.start
  /\ T!TimerIsHonest

\* No interval is timed before one is asked for.
LEMMA TimerStarts == T!TemporalInit => TimerInv
<1> SUFFICES ASSUME T!TemporalInit PROVE TimerInv
  OBVIOUS
<1>1. /\ ms = 0 /\ seen = 0 /\ asked = -1
      /\ timer = [target |-> 1000, start |-> 0, fired |-> FALSE]
  BY DEF T!TemporalInit
<1> QED
  BY <1>1 DEF TimerInv, T!TimerIsHonest

\* Every call of temporal.rs: what the timer's start stands for.
LEMMA TimerKeeps == TimerInv /\ T!TemporalNext => TimerInv'
<1> SUFFICES ASSUME TimerInv, T!TemporalNext PROVE TimerInv'
  OBVIOUS
<1>0. /\ ms \in Nat /\ seen \in 0 .. ms
      /\ timer \in [target : Nat, start : Nat, fired : BOOLEAN]
      /\ timer.start <= seen /\ asked \in Int
      /\ IF timer.start = 0 THEN asked <= 0 ELSE asked = timer.start
      /\ timer.fired <=> asked > 0 /\ seen > asked /\ seen - asked >= timer.target
  BY DEF TimerInv, T!TimerIsHonest
<1>1. CASE T!Clock
  BY <1>0, <1>1 DEF T!Clock, TimerInv, T!TimerIsHonest
<1>2. CASE T!Update
  <2> DEFINE rings == IF timer.start = 0 THEN FALSE
                      ELSE timer.fired \/ ms - timer.start >= timer.target
  <2>1. /\ seen # ms /\ seen' = ms /\ UNCHANGED <<ms, asked>>
        /\ timer' = [timer EXCEPT !.fired = rings]
    BY <1>2 DEF T!Update, T!Fires
  <2>2. timer.target \in Nat /\ timer.start \in Nat /\ timer.fired \in BOOLEAN
    BY <1>0
  <2>3. /\ timer' \in [target : Nat, start : Nat, fired : BOOLEAN]
        /\ timer'.start = timer.start /\ timer'.target = timer.target
        /\ timer'.fired = IF timer.start = 0 THEN FALSE
                          ELSE timer.fired \/ ms - timer.start >= timer.target
    <3>1. rings \in BOOLEAN
      BY <2>2
    <3> HIDE DEF rings
    <3>2. /\ timer' \in [target : Nat, start : Nat, fired : BOOLEAN]
          /\ timer'.start = timer.start /\ timer'.target = timer.target
          /\ timer'.fired = rings
      BY <1>0, <2>1, <3>1
    <3> QED
      BY <3>2 DEF rings
  <2>4. timer'.fired <=> asked > 0 /\ ms > asked /\ ms - asked >= timer.target
    <3>1. ms \in Nat /\ seen \in Nat /\ asked \in Int /\ seen <= ms
      BY <1>0
    <3>2. CASE timer.start = 0
      BY <1>0, <2>3, <3>1, <3>2
    <3>3. CASE timer.start # 0
      <4>1. asked = timer.start /\ asked > 0 /\ asked <= seen /\ seen < ms
        BY <1>0, <2>1, <2>2, <3>1, <3>3
      <4>2. timer.fired => ms - timer.start >= timer.target
        BY <1>0, <2>2, <3>1, <4>1
      <4>3. timer'.fired <=> ms - timer.start >= timer.target
        BY <2>2, <2>3, <3>3, <4>2
      <4> HIDE DEF rings
      <4> QED
        BY <3>1, <4>1, <4>3
    <3> QED
      BY <3>2, <3>3
  <2>5. T!TimerIsHonest'
    BY <2>1, <2>3, <2>4 DEF T!TimerIsHonest
  <2> QED
    BY <1>0, <2>1, <2>2, <2>3, <2>5 DEF TimerInv
<1>3. CASE T!StartInterval
  <2>1. PICK d \in Nat :
          /\ timer' = [target |-> d, start |-> seen, fired |-> FALSE]
          /\ asked' = seen /\ UNCHANGED <<ms, seen>>
    BY <1>3, TemporalSizes DEF T!StartInterval
  <2> QED
    BY <1>0, <2>1 DEF TimerInv, T!TimerIsHonest
<1>4. CASE T!CheckInterval
  <2>1. /\ timer' = [timer EXCEPT !.fired = FALSE, !.start = 0]
        /\ asked' = -1 /\ UNCHANGED <<ms, seen>>
    BY <1>4 DEF T!CheckInterval
  <2>2. /\ timer' \in [target : Nat, start : Nat, fired : BOOLEAN]
        /\ timer'.start = 0 /\ timer'.fired = FALSE
    BY <1>0, <2>1
  <2>3. T!TimerIsHonest'
    BY <2>1, <2>2 DEF T!TimerIsHonest
  <2> QED
    BY <1>0, <2>1, <2>2, <2>3 DEF TimerInv
<1>5. CASE UNCHANGED <<ms, seen, timer, asked>>
  BY <1>0, <1>5 DEF TimerInv, T!TimerIsHonest
<1> QED
  BY <1>1, <1>2, <1>3, <1>4, <1>5
     DEF T!TemporalNext, T!TriggerCells, T!Record

Entry == [hash : Hashes, action : Acts, at : Nat]
Pattern == [trigger : Hashes, actions : (Acts \cup {0}) \X (Acts \cup {0}),
            wait : Int, count : Nat, last : Nat]

\* Where the actions a stand in the log l.
Places(l, a) ==
  {i \in 0 .. Len(l) - 1 : <<T!Ago(l, i + 1).action, T!Ago(l, i).action>> = a}

\* Both modules take cardinality from FiniteSets.
LEMMA TemporalSize == \A X : T!Cardinality(X) = Cardinality(X)
BY DEF Cardinality, T!Cardinality

\* One more event moves all others one place back.
LEMMA LaterAgo ==
  ASSUME NEW l \in Seq(Entry), NEW e \in Entry
  PROVE  /\ Append(l, e) \in Seq(Entry) /\ Len(Append(l, e)) = Len(l) + 1
         /\ T!Ago(Append(l, e), 0) = e
         /\ \A i \in Nat : T!Ago(Append(l, e), i + 1) = T!Ago(l, i)
         /\ \A i \in 1 .. Len(l) : Append(l, e)[i] = l[i]
<1>1. /\ Len(l) \in Nat /\ Append(l, e) \in Seq(Entry)
      /\ Len(Append(l, e)) = Len(l) + 1
      /\ \A i \in 1 .. Len(l) : Append(l, e)[i] = l[i]
      /\ Append(l, e)[Len(l) + 1] = e
  OBVIOUS
<1>2. T!Ago(Append(l, e), 0) = e
  BY <1>1 DEF T!Ago
<1>3. ASSUME NEW i \in Nat PROVE T!Ago(Append(l, e), i + 1) = T!Ago(l, i)
  <2>1. CASE i < Len(l)
    <3>1. Len(l) - i \in 1 .. Len(l) /\ (Len(l) + 1) - (i + 1) = Len(l) - i
      BY <1>1, <2>1
    <3> QED
      BY <1>1, <2>1, <3>1 DEF T!Ago
  <2>2. CASE ~(i < Len(l))
    BY <1>1, <2>2 DEF T!Ago
  <2> QED
    BY <2>1, <2>2
<1> QED
  BY <1>1, <1>2, <1>3

\* There are only as many places as events.
LEMMA PlacesFinite ==
  ASSUME NEW l \in Seq(Entry), NEW a
  PROVE  IsFiniteSet(Places(l, a)) /\ Cardinality(Places(l, a)) \in Nat
<1>1. 0 \in Int /\ Len(l) - 1 \in Int
  OBVIOUS
<1>2. IsFiniteSet(0 .. Len(l) - 1)
  BY <1>1, FS_Interval
<1>3. Places(l, a) \in SUBSET (0 .. Len(l) - 1)
  BY DEF Places
<1> QED
  BY <1>2, <1>3, FS_Subset, FS_CardinalityType

\* An event leaves no place out, and may add the newest.
LEMMA PlacesGrow ==
  ASSUME NEW l \in Seq(Entry), NEW e \in Entry, NEW a
  PROVE  /\ Cardinality(Places(Append(l, e), a)) >= Cardinality(Places(l, a))
         /\ 0 \in Places(Append(l, e), a)
              => Cardinality(Places(Append(l, e), a)) > Cardinality(Places(l, a))
<1> DEFINE P == Places(l, a)
           Q == Places(Append(l, e), a)
           moved == {i + 1 : i \in P}
           f == [i \in P |-> i + 1]
<1>1. P \subseteq Nat /\ Len(l) \in Nat
  BY DEF Places
<1>2. moved \subseteq Q
  <2> SUFFICES ASSUME NEW i \in P PROVE i + 1 \in Q
    OBVIOUS
  <2>1. /\ i \in 0 .. Len(l) - 1
        /\ <<T!Ago(l, i + 1).action, T!Ago(l, i).action>> = a
    BY DEF Places
  <2>2. i + 1 \in 0 .. Len(Append(l, e)) - 1 /\ i \in Nat /\ i + 1 \in Nat
    BY <1>1, <2>1, LaterAgo
  <2>3. /\ T!Ago(Append(l, e), i + 1) = T!Ago(l, i)
        /\ T!Ago(Append(l, e), (i + 1) + 1) = T!Ago(l, i + 1)
    BY <2>2, LaterAgo
  <2> QED
    BY <2>1, <2>2, <2>3 DEF Places
<1>3. /\ IsFiniteSet(P) /\ IsFiniteSet(Q)
      /\ Cardinality(P) \in Nat /\ Cardinality(Q) \in Nat
  <2>1. Append(l, e) \in Seq(Entry)
    OBVIOUS
  <2> QED
    BY <2>1, PlacesFinite
<1> HIDE DEF P, Q
<1>4. f \in Bijection(P, moved)
  <2>1. f \in [P -> moved] /\ \A j \in moved : \E i \in P : f[i] = j
    OBVIOUS
  <2>2. \A i, j \in P : f[i] = f[j] => i = j
    BY <1>1
  <2> QED
    BY <2>1, <2>2 DEF Bijection, Injection, IsInjective, Surjection
<1>5. IsFiniteSet(moved) /\ Cardinality(moved) = Cardinality(P)
  BY <1>3, <1>4, FS_Bijection DEF ExistsBijection
<1>6. 0 \notin moved
  BY <1>1
<1> HIDE DEF moved, f
<1>7. Cardinality(moved) <= Cardinality(Q)
  <2>1. moved \in SUBSET Q
    BY <1>2
  <2> QED
    BY <1>3, <2>1, FS_Subset
<1>8. ASSUME 0 \in Q PROVE Cardinality(Q) > Cardinality(P)
  <2>1. Cardinality(moved \cup {0}) = Cardinality(P) + 1
    BY <1>5, <1>6, FS_AddElement
  <2>2. moved \cup {0} \in SUBSET Q
    BY <1>2, <1>8
  <2>3. Cardinality(moved \cup {0}) <= Cardinality(Q)
    BY <1>3, <2>2, FS_Subset
  <2> QED
    BY <1>3, <2>1, <2>3
<1> QED
  BY <1>3, <1>5, <1>7, <1>8 DEF P, Q

\* What detect_patterns finds stands in the log twice, once at its end.
LEMMA FoundTwice ==
  ASSUME NEW l \in Seq(Entry), T!Repeats(l)
  PROVE  /\ 0 \in Places(l, T!Found(l).actions)
         /\ Cardinality(Places(l, T!Found(l).actions)) > 1
         /\ T!Found(l) \in [trigger : Hashes, wait : Int,
                             actions : (Acts \cup {0}) \X (Acts \cup {0})]
         /\ \E i \in 1 .. Len(l) : l[i].hash = T!Found(l).trigger
<1> DEFINE a == T!Found(l).actions
           P == Places(l, a)
<1>1. Len(l) \in Nat /\ Len(l) >= 3
  BY DEF T!Repeats
<1>2. T!Min({Len(l), Reach}) \in {Len(l), Reach} /\ T!Min({Len(l), Reach}) <= Len(l)
  <2>1. \E x \in {Len(l), Reach} : \A y \in {Len(l), Reach} : x <= y
    BY <1>1, TemporalSizes
  <2> QED
    BY <2>1 DEF T!Min
<1>3. PICK i \in 3 .. T!Min({Len(l), Reach}) - 1 :
        /\ T!Ago(l, i).action = T!Ago(l, 0).action
        /\ T!Ago(l, i + 1).action = T!Ago(l, 1).action
  BY DEF T!Repeats, T!First, T!Same
<1>4. i \in 3 .. Len(l) - 1
  BY <1>1, <1>2, TemporalSizes
<1>5. a = <<T!Ago(l, 1).action, T!Ago(l, 0).action>>
  BY DEF T!Found
<1>6. 0 \in P /\ i \in P
  <2> HIDE DEF a
  <2>1. 0 \in 0 .. Len(l) - 1 /\ i \in 0 .. Len(l) - 1 /\ 0 + 1 = 1
    BY <1>1, <1>4
  <2> QED
    BY <1>3, <1>5, <2>1 DEF Places
<1>7. Cardinality(P) > 1
  <2> HIDE DEF P
  <2>1. IsFiniteSet({0}) /\ Cardinality({0}) = 1
    BY FS_Singleton
  <2>2. Cardinality({0} \cup {i}) = 2
    <3>1. i \notin {0}
      BY <1>4
    <3>2. Cardinality({0} \cup {i}) = Cardinality({0}) + 1
      BY <2>1, <3>1, FS_AddElement
    <3> QED
      BY <2>1, <3>2
  <2>3. {0} \cup {i} \in SUBSET P
    BY <1>6
  <2>4. IsFiniteSet(P) /\ Cardinality(P) \in Nat
    BY PlacesFinite DEF P
  <2>5. Cardinality({0} \cup {i}) <= Cardinality(P)
    BY <2>3, <2>4, FS_Subset
  <2>6. 2 <= Cardinality(P)
    BY <2>2, <2>5
  <2> QED
    BY <2>4, <2>6
<1>8. \A k \in 0 .. 2 : T!Ago(l, k) = l[Len(l) - k] /\ l[Len(l) - k] \in Entry
  <2> SUFFICES ASSUME NEW k \in 0 .. 2
               PROVE  T!Ago(l, k) = l[Len(l) - k] /\ l[Len(l) - k] \in Entry
    OBVIOUS
  <2>1. Len(l) - k \in 1 .. Len(l) /\ k < Len(l)
    BY <1>1
  <2> QED
    BY <2>1 DEF T!Ago
<1>9. /\ T!Ago(l, 0) \in Entry /\ T!Ago(l, 1) \in Entry /\ T!Ago(l, 2) \in Entry
      /\ T!Ago(l, 2) = l[Len(l) - 2] /\ Len(l) - 2 \in 1 .. Len(l)
  BY <1>1, <1>8
<1>10. T!Found(l) \in [trigger : Hashes, wait : Int,
                       actions : (Acts \cup {0}) \X (Acts \cup {0})]
  BY <1>9 DEF T!Found, Entry
<1>11. l[Len(l) - 2].hash = T!Found(l).trigger
  BY <1>9 DEF T!Found
<1> QED
  BY <1>6, <1>7, <1>9, <1>10, <1>11

\* Every pattern stood in the log more often than it counts.
PatternInv ==
  /\ log \in Seq(Entry) /\ patterns \in Seq(Pattern)
  /\ T!PatternsWereSeen

\* PatternsWereSeen, one pattern at a time.
Apart == \A j, k \in DOMAIN patterns :
           j # k => <<patterns[j].trigger, patterns[j].actions>>
                      # <<patterns[k].trigger, patterns[k].actions>>
Met(p, l) == /\ p.count < Cardinality(Places(l, p.actions))
             /\ \E i \in 1 .. Len(l) : l[i].hash = p.trigger

\* PatternsWereSeen, by what it says of one pattern and of two.
LEMMA PatternParts ==
  log \in Seq(Entry) =>
    (T!PatternsWereSeen <=> Apart /\ \A k \in DOMAIN patterns : Met(patterns[k], log))
<1> SUFFICES ASSUME log \in Seq(Entry)
             PROVE  T!PatternsWereSeen <=>
                      Apart /\ \A k \in DOMAIN patterns : Met(patterns[k], log)
  OBVIOUS
<1>1. DOMAIN log = 1 .. Len(log)
  OBVIOUS
<1>2. \A p : T!Occurrences(p) = Cardinality(Places(log, p.actions))
  BY TemporalSize DEF T!Occurrences, Places
<1> QED
  BY <1>1, <1>2 DEF T!PatternsWereSeen, Apart, Met

\* The same of the next state.
LEMMA NextParts ==
  log' \in Seq(Entry) =>
    (T!PatternsWereSeen' <=>
       Apart' /\ \A k \in DOMAIN patterns' : Met(patterns'[k], log'))
<1> SUFFICES ASSUME log' \in Seq(Entry)
             PROVE  T!PatternsWereSeen' <=>
                      Apart' /\ \A k \in DOMAIN patterns' : Met(patterns'[k], log')
  OBVIOUS
<1>1. DOMAIN log' = 1 .. Len(log')
  OBVIOUS
<1>2. \A p : T!Occurrences(p)' = Cardinality(Places(log', p.actions))
  BY TemporalSize DEF T!Occurrences, Places
<1> QED
  BY <1>1, <1>2 DEF T!PatternsWereSeen, Apart, Met

\* TemporalCognition::new knows no pattern.
LEMMA PatternsStart == T!TemporalInit => PatternInv
<1> SUFFICES ASSUME T!TemporalInit PROVE PatternInv
  OBVIOUS
<1>1. log = <<>> /\ patterns = <<>>
  BY DEF T!TemporalInit
<1>2. DOMAIN patterns = {}
  BY <1>1
<1> QED
  BY <1>1, <1>2 DEF PatternInv, T!PatternsWereSeen

\* A pattern that is not touched stays what it was.
LEMMA MetStays ==
  ASSUME NEW l \in Seq(Entry), NEW e \in Entry, NEW p \in Pattern, Met(p, l)
  PROVE  /\ Met(p, Append(l, e))
         /\ 0 \in Places(Append(l, e), p.actions)
              => p.count + 1 < Cardinality(Places(Append(l, e), p.actions))
<1> DEFINE m == Append(l, e)
<1>1. /\ p.count \in Nat /\ p.count < Cardinality(Places(l, p.actions))
      /\ Cardinality(Places(l, p.actions)) \in Nat
  <2>1. p.count \in Nat
    BY DEF Pattern
  <2>2. p.count < Cardinality(Places(l, p.actions))
    BY DEF Met
  <2>3. Cardinality(Places(l, p.actions)) \in Nat
    BY PlacesFinite
  <2> QED
    BY <2>1, <2>2, <2>3
<1>2. m \in Seq(Entry) /\ Cardinality(Places(m, p.actions)) \in Nat
  <2>1. m \in Seq(Entry)
    OBVIOUS
  <2> HIDE DEF m
  <2> QED
    BY <2>1, PlacesFinite
<1>3. /\ Cardinality(Places(m, p.actions)) >= Cardinality(Places(l, p.actions))
      /\ 0 \in Places(m, p.actions)
           => Cardinality(Places(m, p.actions)) > Cardinality(Places(l, p.actions))
  BY PlacesGrow
<1>4. PICK i \in 1 .. Len(l) : l[i].hash = p.trigger
  BY DEF Met
<1>5. i \in 1 .. Len(m) /\ m[i].hash = p.trigger
  BY <1>4, LaterAgo
<1> HIDE DEF m
<1> QED
  BY <1>1, <1>2, <1>3, <1>5 DEF Met, m

\* What learn_pattern changes of an old pattern.
LEMMA StrongerPattern ==
  ASSUME NEW p \in Pattern, NEW w \in Int, NEW u \in Nat
  PROVE  [p EXCEPT !.wait = w, !.count = @ + 1, !.last = u] \in Pattern
<1> DEFINE AA == (Acts \cup {0}) \X (Acts \cup {0})
<1>1. Pattern = [trigger : Hashes, actions : AA, wait : Int, count : Nat, last : Nat]
  BY DEF Pattern
<1> HIDE DEF AA
<1>2. p.count + 1 \in Nat
  BY <1>1
<1> QED
  BY <1>1, <1>2

\* record_event: what it finds was seen twice, so a new pattern may count one,
\* and an old one may count one more than before.
LEMMA RecordKeeps == PatternInv /\ seen \in Nat /\ T!Record => PatternInv'
<1> SUFFICES ASSUME PatternInv, seen \in Nat, T!Record PROVE PatternInv'
  OBVIOUS
<1>1. PICK e \in Entry :
        /\ log' = Append(log, e)
        /\ IF T!Repeats(log') THEN T!Learn(T!Found(log')) ELSE UNCHANGED patterns
  <2>1. PICK a \in Acts, x \in Hashes :
          LET l == Append(log, [hash |-> x, action |-> a, at |-> seen]) IN
          /\ log' = l
          /\ IF T!Repeats(l) THEN T!Learn(T!Found(l)) ELSE UNCHANGED patterns
    BY DEF T!Record
  <2>2. [hash |-> x, action |-> a, at |-> seen] \in Entry
    BY DEF Entry
  <2> QED
    BY <2>1, <2>2
<1>2. /\ log \in Seq(Entry) /\ patterns \in Seq(Pattern) /\ log' \in Seq(Entry)
      /\ Apart /\ \A k \in DOMAIN patterns : Met(patterns[k], log)
  BY <1>1, PatternParts DEF PatternInv
<1>3. \A k \in DOMAIN patterns :
        /\ patterns[k] \in Pattern /\ Met(patterns[k], log')
        /\ 0 \in Places(log', patterns[k].actions)
             => patterns[k].count + 1 < Cardinality(Places(log', patterns[k].actions))
  <2> SUFFICES ASSUME NEW k \in DOMAIN patterns
               PROVE  /\ patterns[k] \in Pattern /\ Met(patterns[k], log')
                      /\ 0 \in Places(log', patterns[k].actions)
                           => patterns[k].count + 1
                                < Cardinality(Places(log', patterns[k].actions))
    OBVIOUS
  <2>1. patterns[k] \in Pattern
    BY <1>2
  <2> QED
    BY <1>1, <1>2, <2>1, MetStays
<1> DEFINE f == T!Found(log')
<1>4. SUFFICES patterns' \in Seq(Pattern) /\ Apart'
               /\ \A k \in DOMAIN patterns' : Met(patterns'[k], log')
  BY <1>2, NextParts DEF PatternInv
<1>5. CASE UNCHANGED patterns
  BY <1>2, <1>3, <1>5 DEF Apart
<1>6. CASE T!Repeats(log') /\ T!Matches(f) # {} /\ T!Learn(f)
  <2>1. PICK k \in DOMAIN patterns :
          /\ patterns[k].trigger = f.trigger /\ patterns[k].actions = f.actions
          /\ patterns' = [patterns EXCEPT ![k] = T!Merged(@, f)]
    <3>1. T!Matches(f) \in SUBSET Nat
      BY <1>2 DEF T!Matches
    <3>2. \E x \in T!Matches(f) : \A y \in T!Matches(f) : x <= y
      BY <1>6, <3>1, Least
    <3>3. T!Min(T!Matches(f)) \in T!Matches(f)
      BY <3>2 DEF T!Min
    <3> HIDE DEF f
    <3>4. patterns' = [patterns EXCEPT ![T!Min(T!Matches(f))] = T!Merged(@, f)]
      BY <1>6 DEF T!Learn
    <3> QED
      BY <3>3, <3>4 DEF T!Matches
  <2>2. /\ 0 \in Places(log', patterns[k].actions) /\ f.wait \in Int
    BY <1>2, <1>6, <2>1, FoundTwice
  <2> DEFINE q == T!Merged(patterns[k], f)
  <2>3. /\ q \in Pattern /\ q.trigger = patterns[k].trigger
        /\ q.actions = patterns[k].actions /\ q.count = patterns[k].count + 1
    <3> HIDE DEF f
    <3>1. patterns[k] \in Pattern /\ patterns[k].wait \in Int
      BY <1>3 DEF Pattern
    <3>2. PICK x \in Int : x = 8 * patterns[k].wait + 2 * f.wait + 5
      BY <2>2, <3>1
    <3>3. x \div 10 \in Int
      OBVIOUS
    <3>4. q = [patterns[k] EXCEPT !.wait = x \div 10, !.count = @ + 1, !.last = seen]
      BY <3>2 DEF T!Merged
    <3> HIDE DEF q
    <3>5. q \in Pattern
      BY <3>1, <3>3, <3>4, StrongerPattern
    <3>6. /\ q.trigger = patterns[k].trigger /\ q.actions = patterns[k].actions
          /\ q.count = patterns[k].count + 1
      BY <3>1, <3>4 DEF Pattern
    <3> QED
      BY <3>5, <3>6
  <2> HIDE DEF q, f
  <2>4. /\ patterns' \in Seq(Pattern) /\ DOMAIN patterns' = DOMAIN patterns
        /\ \A j \in DOMAIN patterns :
             patterns'[j] = IF j = k THEN q ELSE patterns[j]
    BY <1>2, <2>1, <2>3 DEF q
  <2>5. Met(q, log')
    BY <1>3, <2>2, <2>3 DEF Met
  <2>6. \A j \in DOMAIN patterns' :
          /\ patterns'[j].trigger = patterns[j].trigger
          /\ patterns'[j].actions = patterns[j].actions
    BY <2>3, <2>4
  <2>7. Apart'
    BY <1>2, <2>4, <2>6 DEF Apart
  <2> QED
    BY <1>3, <2>4, <2>5, <2>7
<1>7. CASE /\ T!Repeats(log') /\ T!Matches(f) = {}
           /\ patterns' = Append(patterns,
                [trigger |-> f.trigger, actions |-> f.actions, wait |-> f.wait,
                 count |-> 1, last |-> seen])
  <2> DEFINE q == [trigger |-> f.trigger, actions |-> f.actions, wait |-> f.wait,
                   count |-> 1, last |-> seen]
             n == Len(patterns)
  <2>1. f \in [trigger : Hashes, wait : Int,
               actions : (Acts \cup {0}) \X (Acts \cup {0})]
        /\ Cardinality(Places(log', f.actions)) > 1
        /\ \E i \in 1 .. Len(log') : log'[i].hash = f.trigger
    BY <1>2, <1>7, FoundTwice
  <2>2. \A j \in DOMAIN patterns :
          <<patterns[j].trigger, patterns[j].actions>> # <<f.trigger, f.actions>>
    BY <1>7 DEF T!Matches
  <2> HIDE DEF f
  <2>3. q \in Pattern /\ Met(q, log')
    BY <2>1 DEF Pattern, Met
  <2>4. q.trigger = f.trigger /\ q.actions = f.actions
    OBVIOUS
  <2>5. patterns' = Append(patterns, q)
    BY <1>7
  <2> HIDE DEF q
  <2>6. /\ patterns' \in Seq(Pattern) /\ n \in Nat /\ DOMAIN patterns = 1 .. n
        /\ DOMAIN patterns' = 1 .. n + 1 /\ patterns'[n + 1] = q
        /\ \A j \in 1 .. n : patterns'[j] = patterns[j]
    BY <1>2, <2>3, <2>5
  <2> HIDE DEF n
  <2>7. \A j \in 1 .. n + 1 : j \in 1 .. n \/ j = n + 1
    BY <2>6
  <2>8. \A j \in DOMAIN patterns' : Met(patterns'[j], log')
    BY <1>3, <2>3, <2>6, <2>7
  <2>9. Apart'
    <3> SUFFICES ASSUME NEW j \in 1 .. n + 1, NEW k \in 1 .. n + 1, j # k
                 PROVE  <<patterns'[j].trigger, patterns'[j].actions>>
                          # <<patterns'[k].trigger, patterns'[k].actions>>
      BY <2>6 DEF Apart
    <3>1. CASE j \in 1 .. n /\ k \in 1 .. n
      BY <1>2, <2>6, <3>1 DEF Apart
    <3>2. CASE j = n + 1 /\ k \in 1 .. n
      BY <2>2, <2>4, <2>6, <3>2
    <3>3. CASE j \in 1 .. n /\ k = n + 1
      BY <2>2, <2>4, <2>6, <3>3
    <3> QED
      BY <2>7, <3>1, <3>2, <3>3
  <2> QED
    BY <2>6, <2>8, <2>9
<1> QED
  <2> HIDE DEF f
  <2>1. (T!Repeats(log') /\ T!Learn(f)) \/ UNCHANGED patterns
    BY <1>1 DEF f
  <2> QED
    BY <1>5, <1>6, <1>7, <2>1 DEF T!Learn

\* For all actions, hashes and bounds: a pattern counts less than its actions
\* were recorded, no two patterns are the same, and the timer fires exactly
\* once its interval has passed by the last update (temporal.rs).
THEOREM TimeIsAsRecorded == MindSpec => []TimeIsKept
<1> DEFINE Inv == TimerInv /\ PatternInv
<1>1. MindInit => Inv
  BY TimerStarts, PatternsStart DEF MindInit
<1>2. Inv /\ [MindNext]_mindVars => Inv'
  <2> SUFFICES ASSUME Inv, [MindNext]_mindVars PROVE Inv'
    OBVIOUS
  <2>1. CASE T!TemporalNext
    <3>1. TimerInv'
      BY <2>1, TimerKeeps
    <3>2. CASE T!Record
      <4>1. seen \in Nat
        BY DEF TimerInv
      <4> QED
        BY <3>1, <3>2, <4>1, RecordKeeps
    <3>3. CASE UNCHANGED <<log, patterns>>
      <4>1. /\ log' \in Seq(Entry) /\ patterns' \in Seq(Pattern)
            /\ Apart /\ \A k \in DOMAIN patterns : Met(patterns[k], log)
        BY <3>3, PatternParts DEF PatternInv
      <4>2. T!PatternsWereSeen'
        BY <3>3, <4>1, NextParts DEF Apart
      <4> QED
        BY <3>1, <4>1, <4>2 DEF PatternInv
    <3> QED
      BY <2>1, <3>2, <3>3 DEF T!TemporalNext, T!Clock, T!Update,
         T!TriggerCells, T!StartInterval, T!CheckInterval
  <2>2. CASE UNCHANGED temporal
    BY <2>2 DEF temporal, TimerInv, T!TimerIsHonest, PatternInv,
       T!PatternsWereSeen, T!Occurrences
  <2> QED
    BY <2>1, <2>2 DEF MindNext, Still, mindVars, temporal
<1>3. Inv => TimeIsKept
  BY DEF TimerInv, PatternInv, TimeIsKept
<1> QED
  BY <1>1, <1>2, <1>3, PTL DEF MindSpec

(* The hormones.                                                          *)

\* The assumptions on the hormones, one by one.
LEMMA HormoneSizes ==
  /\ \A p \in Percents : p \in Percents /\ p \in 0 .. 100
  /\ MaxError \in Nat /\ \A e \in PredErrors : e \in 0 .. MaxError
  /\ \A d \in Rates : d \in 0 .. 100
  /\ AdaptTerm \in Nat /\ ModePeriod \in Nat \ {0} /\ CalPeriod \in Nat \ {0}
  /\ CalPeriod % ModePeriod = 0
BY HormoneAssumption

\* Division with remainder.
LEMMA Division ==
  ASSUME NEW w \in Nat \ {0}, NEW n \in Nat
  PROVE  \E q \in Int, r \in 0 .. w - 1 : n = w * q + r /\ n % w = r
<1> DEFINE q == n \div w
           r == n % w
<1>1. q \in Int /\ r \in 0 .. w - 1
  OBVIOUS
<1>2. r = n - w * q
  OBVIOUS
<1> HIDE DEF q, r
<1>3. w * q \in Int
  BY <1>1
<1>4. n = w * q + r
  BY <1>1, <1>2, <1>3
<1> QED
  BY <1>1, <1>4 DEF r

\* The remainder is the only one.
LEMMA Remainder ==
  ASSUME NEW w \in Nat \ {0}, NEW n \in Nat, NEW r \in 0 .. w - 1,
         \E q \in Int : n = w * q + r
  PROVE  n % w = r
<1>0. PICK q \in Int : n = w * q + r
  OBVIOUS
<1>1. PICK p \in Int, s \in 0 .. w - 1 : n = w * p + s /\ n % w = s
  BY Division
<1>2. PICK d \in Int : d = q - p
  OBVIOUS
<1>3. w * q = w * p + w * d /\ w * q \in Int /\ w * p \in Int /\ w * d \in Int
  BY <1>2
<1>4. w * d = s - r
  BY <1>0, <1>1, <1>3
<1>5. (d > 0 => w * d >= w) /\ (d < 0 => w * d <= -w)
  OBVIOUS
<1>6. d = 0
  BY <1>4, <1>5
<1> QED
  BY <1>0, <1>1, <1>3, <1>4, <1>6

\* One more.
LEMMA Successor ==
  ASSUME NEW w \in Nat \ {0}, NEW n \in Nat
  PROVE  (n + 1) % w = IF (n % w) + 1 = w THEN 0 ELSE (n % w) + 1
<1>1. PICK p \in Int, s \in 0 .. w - 1 : n = w * p + s /\ n % w = s
  BY Division
<1>2. w * (p + 1) = w * p + w /\ w * p \in Int
  BY <1>1
<1>3. PICK m \in Nat : m = n + 1
  OBVIOUS
<1> DEFINE r == IF s + 1 = w THEN 0 ELSE s + 1
<1>4. r \in 0 .. w - 1
  OBVIOUS
<1>5. \E q \in Int : m = w * q + r
  <2>1. CASE s + 1 = w
    <3>1. m = w * (p + 1) + r
      BY <1>1, <1>2, <1>3, <2>1
    <3> WITNESS p + 1 \in Int
    <3> QED
      BY <3>1
  <2>2. CASE s + 1 # w
    <3>1. m = w * p + r
      BY <1>1, <1>2, <1>3, <2>2
    <3> QED
      BY <3>1
  <2> QED
    BY <2>1, <2>2
<1> HIDE DEF r
<1>6. m % w = r
  BY <1>4, <1>5, Remainder
<1> QED
  BY <1>1, <1>3, <1>6 DEF r

\* The phase of a period, one step on.
LEMMA NextPhase ==
  ASSUME NEW n \in Nat, NEW w \in Nat \ {0}, (n + 1) % w # 0
  PROVE  (n + 1) % w = (n % w) + 1
BY Successor

\* A step that calibrates also updates the cognitive mode.
LEMMA CalibratesInUpdate ==
  ASSUME NEW now \in Nat, now % CalPeriod = 0
  PROVE  now % ModePeriod = 0
<1>1. PICK q : q = now \div CalPeriod
  OBVIOUS
<1>2. PICK c : c = CalPeriod \div ModePeriod
  OBVIOUS
<1>3. q \in Nat /\ now = q * CalPeriod
  BY <1>1, HormoneSizes
<1>4. c \in Nat /\ CalPeriod = c * ModePeriod
  BY <1>2, HormoneSizes
<1>5. PICK p \in Nat : p = q * c
  BY <1>3, <1>4
<1>6. now = p * ModePeriod
  BY <1>3, <1>4, <1>5, HormoneSizes
<1>7. (p * ModePeriod) % ModePeriod = 0
  BY <1>5, HormoneSizes
<1> QED
  BY <1>6, <1>7

\* Levels that a percent bounds, but for noradrenaline.
Hormonal(x) ==
  /\ x \in [na : Nat, ht : 0 .. 100, da : 0 .. 100, ach : 0 .. 100]

\* What noradrenaline may be k steps after a calibration.
Room(k) == 100 + H!Surge * (k + 1)

\* Each step adds a surge to it at most,
LEMMA RoomGrows ==
  /\ H!Surge \in Nat /\ Room(0) = 100 + H!Surge
  /\ \A k \in Nat : /\ Room(k) \in Nat /\ Room(k) >= 100
                    /\ Room(k + 1) = Room(k) + H!Surge
<1>1. H!Surge \in Nat
  BY HormoneSizes DEF H!Surge
<1>2. PICK s \in Nat : s = H!Surge
  BY <1>1
<1>3. ASSUME NEW k \in Nat
      PROVE  /\ s * (k + 1) \in Nat /\ s * ((k + 1) + 1) = s * (k + 1) + s
  OBVIOUS
<1>4. s * (0 + 1) = s
  OBVIOUS
<1> QED
  BY <1>2, <1>3, <1>4 DEF Room

\* and there are as many steps as the period has.
LEMMA RoomEnds ==
  ASSUME NEW k \in 0 .. CalPeriod - 1
  PROVE  Room(k) <= 100 + H!Surge * CalPeriod
<1>1. PICK s \in Nat, c \in Nat : s = H!Surge /\ c = CalPeriod
  BY RoomGrows, HormoneSizes
<1>2. PICK rest \in Nat : c = (k + 1) + rest
  <2>1. c - (k + 1) \in Nat /\ c = (k + 1) + (c - (k + 1))
    BY <1>1
  <2> QED
    BY <2>1
<1>3. s * c = s * (k + 1) + s * rest /\ s * rest \in Nat /\ s * (k + 1) \in Nat
  BY <1>2
<1>4. s * (k + 1) <= s * c
  <2>1. PICK x \in Nat, y \in Nat : x = s * (k + 1) /\ y = s * rest
    BY <1>3
  <2> QED
    BY <1>3, <2>1
<1> QED
  BY <1>1, <1>4 DEF Room


\* The strengthening: noradrenaline is bounded by the steps since the last
\* calibration, and the thresholds of the mode stay where they can adapt to.
HormoneInv ==
  /\ t \in Nat /\ wired \in BOOLEAN /\ Hormonal(h)
  /\ low \in 10 .. 60 /\ high \in 40 .. 75
  /\ samples \in 0 .. 2 /\ calm \in Nat
  /\ samples = 0 => calm = 0
  /\ samples > 0 => wired
  /\ mode \in {"Balanced", "Stable"}
  /\ samples > 0 => mode = "Stable" /\ h.ht >= 80
  /\ ~fresh => h.da >= 89 /\ h.ach >= 89
  /\ h.na <= Room(t % CalPeriod)

\* Nothing is wrong at the start.
LEMMA HormonesStart == H!HormoneInit => HormoneInv
<1> SUFFICES ASSUME H!HormoneInit PROVE HormoneInv
  OBVIOUS
<1>1. 0 % CalPeriod = 0
  BY HormoneSizes
<1> QED
  BY <1>1, RoomGrows DEF H!HormoneInit, HormoneInv, Hormonal

\* Thresholds stay in their ranges as they adapt, and the entropy of nothing
\* is below the lower one: the mode is Stable.
LEMMA AdaptsToStable ==
  ASSUME HormoneInv, NEW n \in 1 .. 3
  PROVE  /\ H!NewLow(n) \in 10 .. 60 /\ H!NewHigh(n) \in 40 .. 75
         /\ H!ModeFor(H!NewLow(n), H!NewHigh(n)) = "Stable"
<1>1. H!Mean(n) = 0 /\ H!TwoSigma(n) = 0
  BY DEF H!Mean, H!TwoSigma, H!Entropy
<1>2. low \in 10 .. 60 /\ high \in 40 .. 75
  BY DEF HormoneInv
<1>3. H!NewLow(n) = (7 * low + 30) \div 10
  BY <1>1 DEF H!NewLow, H!Lowest, H!Between
<1>4. H!NewHigh(n) = (7 * high + 120) \div 10
  BY <1>1 DEF H!NewHigh, H!Between
<1>5. H!NewLow(n) \in 10 .. 60 /\ H!NewHigh(n) \in 40 .. 75
  BY <1>2, <1>3, <1>4
<1>6. H!ModeFor(H!NewLow(n), H!NewHigh(n)) = "Stable"
  BY <1>5 DEF H!ModeFor, H!Entropy
<1> QED
  BY <1>5, <1>6

\* Decay keeps a percent a percent and takes at most a hundredth of it.
LEMMA DecayedLevel ==
  ASSUME NEW a \in Nat, NEW d \in 0 .. 100
  PROVE  /\ (a * (10000 - d)) \div 10000 \in 0 .. a
         /\ a = 100 => (a * (10000 - d)) \div 10000 >= 99
         /\ a <= 100 => (a * (10000 - d) + 100 * d) \div 10000 \in a .. 100
<1>1. PICK b : b = a * d
  OBVIOUS
<1>2. b \in Nat /\ a * (10000 - d) = 10000 * a - b
  BY <1>1
<1>3. b <= 100 * a
  BY <1>1
<1>4. a <= 100 => b <= 100 * d
  BY <1>1
<1>5. a = 100 => b <= 10000
  BY <1>3
<1>6. a <= 100 => 100 * d - b <= 10000 * (100 - a)
  <2>1. 100 * d - b = (100 - a) * d
    BY <1>1
  <2>2. a <= 100 => (100 - a) * d <= 10000 * (100 - a)
    OBVIOUS
  <2> QED
    BY <2>1, <2>2
<1>7. (a * (10000 - d)) \div 10000 \in 0 .. a
  BY <1>2, <1>3
<1>8. a = 100 => (a * (10000 - d)) \div 10000 >= 99
  BY <1>2, <1>5
<1>9. a <= 100 => (a * (10000 - d) + 100 * d) \div 10000 \in a .. 100
  BY <1>2, <1>4, <1>6
<1> QED
  BY <1>7, <1>8, <1>9

\* The noise sets two levels.
LEMMA NoisyLevels ==
  ASSUME NEW a, NEW b, NEW c, NEW e
  PROVE  H!Noisy([na |-> a, ht |-> b, da |-> c, ach |-> e])
           = [na |-> a, ht |-> b, da |-> 100, ach |-> 100]
<1>1. [[na |-> a, ht |-> b, da |-> c, ach |-> e] EXCEPT !.da = 100]
        = [na |-> a, ht |-> b, da |-> 100, ach |-> e]
  OBVIOUS
<1>2. [[na |-> a, ht |-> b, da |-> 100, ach |-> e] EXCEPT !.ach = 100]
        = [na |-> a, ht |-> b, da |-> 100, ach |-> 100]
  OBVIOUS
<1> QED
  BY <1>1, <1>2 DEF H!Noisy

\* Calibration leaves a percent, and of a level near one nine tenths.
LEMMA BlendBounds ==
  ASSUME NEW a \in Int, NEW b \in Int
  PROVE  /\ H!Blend(a, b) \in 0 .. 100
         /\ a >= 99 /\ b \in {0, 100} => H!Blend(a, b) >= 89
BY DEF H!Blend, H!Unit, H!Between

\* What the step has made of the levels when the mode is asked: dopamine and
\* acetylcholine are near one, noradrenaline has gained a tenth at most.
LEMMA LevelsBefore ==
  ASSUME HormoneInv, NEW d \in Rates, NEW pe \in PredErrors, NEW nov \in PredErrors,
         NEW x \in H!Before(t + 1, d, pe, nov)
  PROVE  /\ Hormonal(x) /\ x.da >= 89 /\ x.ach >= 89
         /\ x.na <= Room((t + 1) % CalPeriod)
         /\ (t + 1) % CalPeriod # 0 => x.ht >= h.ht
<1> DEFINE y == H!Decay(H!Noisy(h), d)
<1>0. /\ d \in 0 .. 100 /\ pe \in 0 .. MaxError /\ nov \in 0 .. MaxError
      /\ MaxError \in Nat
      /\ t \in Nat /\ Hormonal(h) /\ h.na <= Room(t % CalPeriod)
      /\ CalPeriod \in Nat \ {0}
  BY HormoneSizes DEF HormoneInv
<1>1. /\ y \in [na : 0 .. h.na, ht : h.ht .. 100, da : 99 .. 100, ach : 99 .. 100]
      /\ Hormonal(y) /\ y.na <= h.na /\ y.ht >= h.ht /\ y.da >= 99 /\ y.ach >= 99
  <2>1. /\ h.na \in Nat /\ h.ht \in 0 .. 100
        /\ H!Noisy(h) = [na |-> h.na, ht |-> h.ht, da |-> 100, ach |-> 100]
    <3>1. /\ h = [na |-> h.na, ht |-> h.ht, da |-> h.da, ach |-> h.ach]
          /\ h.na \in Nat /\ h.ht \in 0 .. 100
      BY <1>0 DEF Hormonal
    <3> QED
      <4>1. H!Noisy([na |-> h.na, ht |-> h.ht, da |-> h.da, ach |-> h.ach])
              = [na |-> h.na, ht |-> h.ht, da |-> 100, ach |-> 100]
        BY NoisyLevels
      <4> QED
        BY <3>1, <4>1
  <2>2. d \in 0 .. 100
    BY <1>0
  <2>3. /\ (h.na * (10000 - d)) \div 10000 \in 0 .. h.na
        /\ (h.ht * (10000 - d) + 100 * d) \div 10000 \in h.ht .. 100
        /\ (100 * (10000 - d)) \div 10000 \in 99 .. 100
    <3>1. (h.na * (10000 - d)) \div 10000 \in 0 .. h.na
      <4>1. PICK a \in Nat : a = h.na
        BY <2>1
      <4>2. (a * (10000 - d)) \div 10000 \in 0 .. a
        BY <2>2, DecayedLevel
      <4> QED
        BY <4>1, <4>2
    <3>2. (h.ht * (10000 - d) + 100 * d) \div 10000 \in h.ht .. 100
      BY <2>1, <2>2, DecayedLevel
    <3>3. (100 * (10000 - d)) \div 10000 \in 99 .. 100
      BY <2>2, DecayedLevel
    <3> QED
      BY <3>1, <3>2, <3>3
  <2>4. y \in [na : 0 .. h.na, ht : h.ht .. 100, da : 99 .. 100, ach : 99 .. 100]
    BY <2>1, <2>3 DEF H!Decay
  <2> QED
    BY <2>1, <2>4 DEF Hormonal
<1> HIDE DEF y
<1>2. PICK z : /\ z \in IF (t + 1) % CalPeriod = 0 THEN H!Calibrated(y) ELSE {y}
               /\ x = H!Driven(z, pe, nov)
  BY DEF H!Before, y
<1>3. /\ Hormonal(z) /\ z.da >= 89 /\ z.ach >= 89
      /\ (t + 1) % CalPeriod = 0 => z.na <= 100
      /\ (t + 1) % CalPeriod # 0 => z = y
  <2>1. CASE (t + 1) % CalPeriod = 0
    <3>1. PICK g \in H!TargetLevels :
            z = [f \in DOMAIN y |-> H!Blend(y[f], g[f])]
      BY <1>2, <2>1 DEF H!Calibrated
    <3>2. /\ g.na \in Int /\ g.ht \in Int
          /\ g.da \in {0, 100} /\ g.ach \in {0, 100}
          /\ g.da \in Int /\ g.ach \in Int
      BY <3>1 DEF H!TargetLevels, H!Between
    <3>3. DOMAIN y = {"na", "ht", "da", "ach"}
      BY <1>1
    <3>4. z = [na |-> H!Blend(y.na, g.na), ht |-> H!Blend(y.ht, g.ht),
               da |-> H!Blend(y.da, g.da), ach |-> H!Blend(y.ach, g.ach)]
      BY <3>1, <3>3
    <3>7. /\ y.na \in Int /\ y.ht \in Int
          /\ y.da \in Int /\ y.da >= 99 /\ y.ach \in Int /\ y.ach >= 99
      BY <1>0, <1>1 DEF Hormonal
    <3>8. /\ z.na \in 0 .. 100 /\ z.ht \in 0 .. 100
          /\ z.da \in 0 .. 100 /\ z.ach \in 0 .. 100
          /\ z.da >= 89 /\ z.ach >= 89
      <4>1. /\ z.na = H!Blend(y.na, g.na) /\ z.ht = H!Blend(y.ht, g.ht)
            /\ z.da = H!Blend(y.da, g.da) /\ z.ach = H!Blend(y.ach, g.ach)
        BY <3>4
      <4>2. H!Blend(y.na, g.na) \in 0 .. 100 /\ H!Blend(y.ht, g.ht) \in 0 .. 100
        BY <3>2, <3>7, BlendBounds
      <4>3. H!Blend(y.da, g.da) \in 0 .. 100 /\ H!Blend(y.da, g.da) >= 89
        BY <3>2, <3>7, BlendBounds
      <4>4. H!Blend(y.ach, g.ach) \in 0 .. 100 /\ H!Blend(y.ach, g.ach) >= 89
        BY <3>2, <3>7, BlendBounds
      <4> QED
        BY <4>1, <4>2, <4>3, <4>4
    <3> QED
      BY <2>1, <3>4, <3>8 DEF Hormonal
  <2> QED
    BY <1>1, <1>2, <2>1
<1>4. /\ z.na \in Nat /\ z.ht \in 0 .. 100 /\ z.da \in 0 .. 100 /\ z.ach \in 0 .. 100
      /\ z = [na |-> z.na, ht |-> z.ht, da |-> z.da, ach |-> z.ach]
  BY <1>3 DEF Hormonal
<1>5. /\ x = [na |-> z.na + (pe \div 10), ht |-> z.ht, da |-> z.da,
              ach |-> H!Unit(z.ach + (nov \div 10))]
      /\ H!Unit(z.ach + (nov \div 10)) \in z.ach .. 100
      /\ pe \div 10 \in 0 .. H!Surge
  <2>1. /\ H!Unit(z.ach + (nov \div 10)) \in z.ach .. 100
        /\ H!Unit(z.ht) = z.ht /\ H!Unit(z.da) = z.da
    BY <1>0, <1>4 DEF H!Unit, H!Between
  <2>2. pe \div 10 \in 0 .. H!Surge
    BY <1>0 DEF H!Surge
  <2> QED
    <3>1. x = [na |-> z.na + (pe \div 10), ht |-> H!Unit(z.ht),
               da |-> H!Unit(z.da), ach |-> H!Unit(z.ach + (nov \div 10))]
      BY <1>2, <1>4 DEF H!Driven
    <3> QED
      BY <2>1, <2>2, <3>1
<1>6. z.na + (pe \div 10) <= Room((t + 1) % CalPeriod)
  <2>1. CASE (t + 1) % CalPeriod = 0
    BY <1>3, <1>4, <1>5, <2>1, RoomGrows
  <2>2. CASE (t + 1) % CalPeriod # 0
    <3>1. (t + 1) % CalPeriod = (t % CalPeriod) + 1
      BY <1>0, <2>2, NextPhase
    <3>2. t % CalPeriod \in Nat
      BY <1>0
    <3>3. z.na <= Room(t % CalPeriod)
      <4>1. Room(t % CalPeriod) \in Nat
        BY <3>2, RoomGrows
      <4>2. h.na \in Nat /\ z.na <= h.na
        BY <1>0, <1>1, <1>3, <2>2 DEF Hormonal
      <4> QED
        BY <1>0, <1>4, <4>1, <4>2
    <3> QED
      BY <1>4, <1>5, <3>1, <3>2, <3>3, RoomGrows
  <2> QED
    BY <2>1, <2>2
<1>7. /\ Hormonal(x) /\ x.da >= 89 /\ x.ach >= 89
  BY <1>3, <1>4, <1>5 DEF Hormonal
<1>8. (t + 1) % CalPeriod # 0 => x.ht >= h.ht
  BY <1>1, <1>3, <1>4, <1>5
<1> QED
  BY <1>5, <1>6, <1>7, <1>8

\* What the cognitive mode leaves of the levels, in a mode that is not Crisis
\* nor Explore.
LEMMA MoodyLevels ==
  ASSUME NEW y, Hormonal(y), NEW m \in {"Balanced", "Stable"}
  PROVE  /\ Hormonal(H!Moody(y, m)) /\ H!Moody(y, m).na = y.na
         /\ H!Moody(y, m).da = y.da /\ H!Moody(y, m).ach = y.ach
         /\ m = "Stable" => H!Moody(y, m).ht = 80
<1>1. CASE m = "Stable"
  <2>1. H!Moody(y, m) = [y EXCEPT !.ht = 80]
    BY <1>1 DEF H!Moody
  <2> QED
    BY <1>1, <2>1 DEF Hormonal
<1>2. CASE m = "Balanced"
  BY <1>2 DEF H!Moody
<1> QED
  BY <1>1, <1>2

\* Survival mode.
LEMMA SavedLevels ==
  ASSUME NEW y, Hormonal(y), NEW starving \in BOOLEAN
  PROVE  /\ Hormonal(H!Saved(y, starving)) /\ H!Saved(y, starving).na <= y.na
         /\ H!Saved(y, starving).ht >= y.ht
         /\ H!Saved(y, starving).da = y.da /\ H!Saved(y, starving).ach = y.ach
<1>1. PICK r : r = [y EXCEPT !.ht = 100]
  OBVIOUS
<1>2. PICK s : s = [r EXCEPT !.na = 0]
  OBVIOUS
<1>3. /\ Hormonal(r) /\ r.na = y.na /\ r.ht = 100 /\ r.da = y.da /\ r.ach = y.ach
  BY <1>1 DEF Hormonal
<1>4. /\ Hormonal(s) /\ s.na = 0 /\ s.ht = 100 /\ s.da = y.da /\ s.ach = y.ach
  BY <1>2, <1>3 DEF Hormonal
<1>5. H!Saved(y, starving) = s \/ H!Saved(y, starving) = y
  BY <1>1, <1>2 DEF H!Saved
<1> QED
  BY <1>4, <1>5 DEF Hormonal

\* A broadcast raises what it changes, to a percent.
LEMMA ToldLevels ==
  ASSUME NEW y, Hormonal(y), NEW u \in H!Told(y)
  PROVE  /\ Hormonal(u) /\ (u.na <= y.na \/ u.na <= 100)
         /\ u.ht >= y.ht \/ u.ht = 90
         /\ u.da >= y.da /\ u.ach >= y.ach
<1>0. /\ y.na \in Nat /\ y.ht \in 0 .. 100 /\ y.da \in 0 .. 100 /\ y.ach \in 0 .. 100
  BY DEF Hormonal
<1>1. CASE u = y
  BY <1>0, <1>1
<1>2. CASE u = [y EXCEPT !.na = 100, !.ht = 90]
  <2>1. PICK r : r = [y EXCEPT !.na = 100]
    OBVIOUS
  <2>2. Hormonal(r) /\ r.na = 100 /\ r.ht = y.ht /\ r.da = y.da /\ r.ach = y.ach
    BY <2>1 DEF Hormonal
  <2>3. u = [r EXCEPT !.ht = 90]
    BY <1>2, <2>1
  <2>4. Hormonal(u) /\ u.na = 100 /\ u.ht = 90 /\ u.da = r.da /\ u.ach = r.ach
    BY <2>2, <2>3 DEF Hormonal
  <2> QED
    BY <1>0, <2>2, <2>4
<1>3. CASE u = [y EXCEPT !.na = H!Unit(@ + 8)]
  <2>1. H!Unit(y.na + 8) \in 0 .. 100
    BY <1>0 DEF H!Unit, H!Between
  <2>2. Hormonal(u) /\ u.na = H!Unit(y.na + 8) /\ u.ht = y.ht /\ u.da = y.da
        /\ u.ach = y.ach
    BY <1>3, <2>1 DEF Hormonal
  <2> QED
    BY <1>0, <2>1, <2>2
<1>4. CASE u = [y EXCEPT !.ach = H!Unit(@ + 8), !.da = H!Unit(@ + 4)]
  <2>1. H!Unit(y.ach + 8) \in y.ach .. 100 /\ H!Unit(y.da + 4) \in y.da .. 100
    BY <1>0 DEF H!Unit, H!Between
  <2>2. PICK r : r = [y EXCEPT !.ach = H!Unit(@ + 8)]
    OBVIOUS
  <2>3. Hormonal(r) /\ r.na = y.na /\ r.ht = y.ht /\ r.da = y.da
        /\ r.ach = H!Unit(y.ach + 8)
    BY <1>0, <2>1, <2>2 DEF Hormonal
  <2>4. u = [r EXCEPT !.da = H!Unit(@ + 4)]
    BY <1>4, <2>2
  <2>5. Hormonal(u) /\ u.na = r.na /\ u.ht = r.ht /\ u.ach = r.ach
        /\ u.da = H!Unit(y.da + 4)
    BY <1>0, <2>1, <2>3, <2>4 DEF Hormonal
  <2> QED
    BY <1>0, <2>1, <2>3, <2>5
<1>5. CASE u = [y EXCEPT !.ht = H!Unit(@ + 3)]
  <2>1. H!Unit(y.ht + 3) \in y.ht .. 100
    BY <1>0 DEF H!Unit, H!Between
  <2>2. Hormonal(u) /\ u.na = y.na /\ u.ht = H!Unit(y.ht + 3) /\ u.da = y.da
        /\ u.ach = y.ach
    BY <1>5, <2>1 DEF Hormonal
  <2> QED
    BY <1>0, <2>1, <2>2
<1> QED
  BY <1>1, <1>2, <1>3, <1>4, <1>5 DEF H!Told

\* A predictive cycle sets dopamine and nothing else.
LEMMA CycledLevels ==
  ASSUME NEW u, Hormonal(u), NEW w \in H!Cycled(u)
  PROVE  Hormonal(w) /\ w.na = u.na /\ w.ht = u.ht /\ w.ach = u.ach
<1>1. CASE w = u
  BY <1>1
<1>2. ASSUME NEW e \in Percents, w = [u EXCEPT !.da = e] PROVE Hormonal(w) /\ w.na = u.na /\ w.ht = u.ht /\ w.ach = u.ach
  <2>1. e \in 0 .. 100
    BY HormoneSizes
  <2> QED
    BY <1>2, <2>1 DEF Hormonal
<1> QED
  BY <1>1, <1>2 DEF H!Cycled

\* One network step after another keeps the levels where they are driven to.
LEMMA HormonesKeep == HormoneInv /\ H!HormoneStep => HormoneInv'
<1> SUFFICES ASSUME HormoneInv, H!HormoneStep PROVE HormoneInv'
  OBVIOUS
<1> DEFINE now == t + 1
           asks == wired /\ now % ModePeriod = 0
           adapts == asks /\ calm = 0
           n == samples + 1
           m == IF adapts THEN H!ModeFor(H!NewLow(n), H!NewHigh(n)) ELSE mode
<1>1. /\ t' = now /\ mode' = m /\ wired' = wired
      /\ samples' = IF asks /\ samples < 2 THEN n ELSE samples
      /\ calm' = CASE adapts -> AdaptTerm
                   [] asks /\ ~adapts -> calm - 1
                   [] OTHER -> calm
      /\ low' = IF adapts THEN H!NewLow(n) ELSE low
      /\ high' = IF adapts THEN H!NewHigh(n) ELSE high
  BY DEF H!HormoneStep
<1>2. PICK d \in Rates, pe \in PredErrors, nov \in PredErrors, starving \in BOOLEAN :
        \E x \in H!Before(now, d, pe, nov) :
        LET y == IF adapts THEN H!Preset(m) ELSE x
            z == H!Saved(IF asks THEN H!Moody(y, m) ELSE y, starving)
        IN \E u \in H!Told(z) : \E w \in H!Cycled(u) :
             h' = w /\ fresh' = (adapts \/ w # u)
  BY Zenon DEF H!HormoneStep
<1>24. PICK x \in H!Before(now, d, pe, nov) :
        LET y == IF adapts THEN H!Preset(m) ELSE x
            z == H!Saved(IF asks THEN H!Moody(y, m) ELSE y, starving)
        IN \E u \in H!Told(z) : \E w \in H!Cycled(u) :
             h' = w /\ fresh' = (adapts \/ w # u)
  BY <1>2
<1>3. PICK y : y = IF adapts THEN H!Preset(m) ELSE x
  OBVIOUS
<1>4. PICK z0 : z0 = IF asks THEN H!Moody(y, m) ELSE y
  OBVIOUS
<1>5. PICK z : z = H!Saved(z0, starving)
  OBVIOUS
<1>25. PICK u \in H!Told(z) :
         \E w \in H!Cycled(u) : h' = w /\ fresh' = (adapts \/ w # u)
  BY <1>24, <1>3, <1>4, <1>5
<1>26. PICK w \in H!Cycled(u) : h' = w /\ fresh' = (adapts \/ w # u)
  BY <1>25
<1>6. h' = w /\ (fresh' <=> adapts \/ w # u)
  BY <1>26
<1>7. /\ t \in Nat /\ wired \in BOOLEAN /\ Hormonal(h)
      /\ low \in 10 .. 60 /\ high \in 40 .. 75
      /\ samples \in 0 .. 2 /\ calm \in Nat 
      /\ samples = 0 => calm = 0
      /\ samples > 0 => wired
      /\ mode \in {"Balanced", "Stable"}
      /\ samples > 0 => mode = "Stable" /\ h.ht >= 80
      /\ h.na <= Room(t % CalPeriod)
  BY DEF HormoneInv
<1>8. n \in 1 .. 3
  BY <1>7
<1>9. /\ adapts => m = "Stable"
      /\ m \in {"Balanced", "Stable"}
      /\ low' \in 10 .. 60 /\ high' \in 40 .. 75
  BY <1>1, <1>7, <1>8, AdaptsToStable
<1> DEFINE sampled == samples' > 0
<1>10. /\ t' \in Nat /\ wired' \in BOOLEAN
       /\ samples' \in 0 .. 2 /\ calm' \in Nat
       /\ samples' = 0 => calm' = 0
       /\ sampled => wired'
       /\ sampled => m = "Stable"
       /\ sampled /\ ~asks => samples > 0
  BY <1>1, <1>7, <1>9, HormoneSizes
<1>11. /\ Hormonal(x) /\ x.da >= 89 /\ x.ach >= 89
       /\ x.na <= Room(now % CalPeriod)
       /\ now % CalPeriod # 0 => x.ht >= h.ht
  BY <1>24, LevelsBefore
<1>12. Room(now % CalPeriod) \in Nat /\ Room(now % CalPeriod) >= 100
  <2>1. now % CalPeriod \in Nat
    BY <1>7, HormoneSizes
  <2> QED
    BY <2>1, RoomGrows
<1>13. /\ Hormonal(y) /\ (adapts \/ (y.da >= 89 /\ y.ach >= 89))
       /\ y.na <= Room(now % CalPeriod)
       /\ ~adapts => y = x
  <2>1. CASE adapts
    <3>1. y = [na |-> 0, ht |-> 100, da |-> 20, ach |-> 30]
      BY <1>3, <1>9, <2>1 DEF H!Preset
    <3> QED
      BY <1>12, <2>1, <3>1 DEF Hormonal
  <2> QED
    BY <1>3, <1>11, <2>1
<1>14. /\ Hormonal(z0) /\ z0.na = y.na /\ z0.da = y.da /\ z0.ach = y.ach
       /\ asks /\ m = "Stable" => z0.ht = 80
       /\ ~asks => z0 = y
  BY <1>4, <1>9, <1>13, MoodyLevels
<1>15. /\ Hormonal(z) /\ z.na <= z0.na /\ z.ht >= z0.ht
       /\ z.da = z0.da /\ z.ach = z0.ach
  BY <1>5, <1>14, SavedLevels
<1>16. /\ Hormonal(u) /\ (u.na <= z.na \/ u.na <= 100)
       /\ u.ht >= z.ht \/ u.ht = 90
       /\ u.da >= z.da /\ u.ach >= z.ach
  BY <1>25, <1>15, ToldLevels
<1>17. Hormonal(w) /\ w.na = u.na /\ w.ht = u.ht /\ w.ach = u.ach
  BY <1>26, <1>16, CycledLevels
<1>18. /\ z0.na \in Nat /\ z.na \in Nat /\ u.na \in Nat /\ y.na \in Nat
       /\ z0.ht \in Nat /\ z.ht \in Nat /\ u.ht \in Nat /\ y.ht \in Nat /\ h.ht \in Nat
       /\ z0.da \in Nat /\ z.da \in Nat /\ u.da \in Nat /\ y.da \in Nat
       /\ z0.ach \in Nat /\ z.ach \in Nat /\ u.ach \in Nat /\ y.ach \in Nat
       /\ w.ach \in Nat /\ w.da \in Nat
  BY <1>7, <1>13, <1>14, <1>15, <1>16, <1>17 DEF Hormonal
<1>19. h'.na <= Room(t' % CalPeriod)
  BY <1>1, <1>6, <1>12, <1>13, <1>14, <1>15, <1>16, <1>17, <1>18
<1>20. sampled => h'.ht >= 80
  <2> SUFFICES ASSUME sampled PROVE u.ht >= 80
    BY <1>6, <1>17
  <2>1. z0.ht >= 80
    <3>1. CASE asks
      BY <1>10, <1>14, <3>1
    <3>2. CASE ~asks
      <4>1. samples > 0 /\ wired /\ h.ht >= 80 /\ y = x /\ z0 = y
        BY <1>7, <1>10, <1>13, <1>14, <3>2
      <4>2. now % CalPeriod # 0
        BY <1>7, <3>2, <4>1, CalibratesInUpdate
      <4> QED
        BY <1>11, <1>18, <4>1, <4>2
    <3> QED
      BY <3>1, <3>2
  <2> QED
    BY <1>15, <1>16, <1>18, <2>1
<1>21. ~fresh' => h'.da >= 89 /\ h'.ach >= 89
  <2> SUFFICES ASSUME ~fresh' PROVE u.da >= 89 /\ u.ach >= 89 /\ w = u
    BY <1>6
  <2>1. ~adapts /\ w = u
    BY <1>6
  <2>2. y.da >= 89 /\ y.ach >= 89
    BY <1>13, <2>1
  <2> QED
    BY <1>14, <1>15, <1>16, <1>18, <2>1, <2>2
<1>23. mode' \in {"Balanced", "Stable"} /\ (sampled => mode' = "Stable") /\ Hormonal(h')
  BY <1>1, <1>6, <1>9, <1>10, <1>17
<1> QED
  BY <1>9, <1>10, <1>19, <1>20, <1>21, <1>23 DEF HormoneInv, Hormonal

(* Sums and counting.                                                     *)

\* What holds of 0, and of k + 1 whenever it holds of k, holds of all.
LEMMA Counting ==
  ASSUME NEW S \in SUBSET Nat, 0 \in S, \A k \in S : k + 1 \in S
  PROVE  \A k \in Nat : k \in S
<1> SUFFICES ASSUME Nat \ S # {} PROVE FALSE
  OBVIOUS
<1>1. PICK e \in Nat \ S : \A f \in Nat \ S : e <= f
  <2>1. Nat \ S \in SUBSET Nat
    OBVIOUS
  <2> QED
    BY <2>1, Least
<1>2. e # 0 /\ e - 1 \in Nat /\ (e - 1) + 1 = e
  BY <1>1
<1>3. e - 1 \in S
  BY <1>1, <1>2
<1> QED
  BY <1>1, <1>2, <1>3

\* A function that a start and a step determine exists, up to any n.
LEMMA Iterates ==
  ASSUME NEW n \in Nat, NEW a \in Int, NEW G \in [1 .. n -> [Int -> Int]]
  PROVE  \E u \in [0 .. n -> Int] :
           u[0] = a /\ \A k \in 1 .. n : u[k] = G[k][u[k - 1]]
<1> DEFINE Good(u, m) == /\ u \in [0 .. m -> Int] /\ u[0] = a
                         /\ \A k \in 1 .. m : u[k] = G[k][u[k - 1]]
           S == {m \in Nat : m <= n => \E u : Good(u, m)}
<1>0. \A k \in 1 .. n, i \in Int : G[k][i] \in Int
  OBVIOUS
<1>1. 0 \in S
  <2>1. Good([i \in 0 .. 0 |-> a], 0)
    OBVIOUS
  <2> QED
    BY <2>1
<1>2. ASSUME NEW m \in S PROVE m + 1 \in S
  <2>0. m \in Nat /\ (m <= n => \E u : Good(u, m))
    OBVIOUS
  <2> SUFFICES ASSUME m + 1 <= n PROVE \E u : Good(u, m + 1)
    <3> HIDE DEF Good
    <3>1. m + 1 \in Nat
      BY <2>0
    <3> QED
      BY <3>1
  <2>1. m \in Nat /\ m <= n /\ m + 1 \in 1 .. n
    BY <2>0
  <2>2. PICK u : Good(u, m)
    BY <2>0, <2>1
  <2> DEFINE w == [i \in 0 .. m + 1 |-> IF i = m + 1 THEN G[m + 1][u[m]] ELSE u[i]]
  <2>3. \A i \in 0 .. m : u[i] \in Int /\ w[i] = u[i]
    BY <2>1, <2>2
  <2>4. w[m + 1] = G[m + 1][u[m]] /\ w[m + 1] \in Int
    <3>1. w[m + 1] = G[m + 1][u[m]]
      BY <2>1
    <3>2. u[m] \in Int
      <4>1. m \in 0 .. m
        BY <2>1
      <4> HIDE DEF w, S, Good
      <4> QED
        BY <2>3, <4>1
    <3> HIDE DEF w, S, Good
    <3> QED
      BY <1>0, <2>1, <3>1, <3>2
  <2>5. DOMAIN w = 0 .. m + 1
    OBVIOUS
  <2>6. \A i \in 0 .. m + 1 : w[i] \in Int
    <3>1. \A i \in 0 .. m + 1 : i \in 0 .. m \/ i = m + 1
      BY <2>1
    <3>2. \A i \in 0 .. m : w[i] \in Int
      BY <2>3
    <3> HIDE DEF w, Good, S
    <3> QED
      BY <2>4, <3>1, <3>2
  <2>7. w \in [0 .. m + 1 -> Int]
    BY <2>6
  <2>8. \A k \in 1 .. m + 1 : w[k] = G[k][w[k - 1]]
    <3> TAKE k \in 1 .. m + 1
    <3>1. CASE k = m + 1
      <4>1. w[k - 1] = u[m]
        BY <2>1, <2>3, <3>1
      <4> HIDE DEF w, S, Good
      <4> QED
        BY <2>4, <3>1, <4>1
    <3>2. CASE k # m + 1
      <4>1. k \in 1 .. m /\ k - 1 \in 0 .. m /\ k \in 0 .. m
        BY <2>1, <3>2
      <4>2. u[k] = G[k][u[k - 1]]
        BY <2>2, <4>1
      <4> HIDE DEF w, S, Good
      <4> QED
        BY <2>3, <4>1, <4>2
    <3> QED
      BY <3>1, <3>2
  <2>9. w[0] = a
    BY <2>1, <2>2
  <2> HIDE DEF w
  <2> QED
    BY <2>7, <2>8, <2>9
<1>3. n \in S
  <2>1. S \in SUBSET Nat
    OBVIOUS
  <2> HIDE DEF S
  <2> QED
    BY <1>1, <1>2, <2>1, Counting
<1>4. \E u : Good(u, n)
  <2>1. n <= n
    OBVIOUS
  <2> HIDE DEF Good
  <2> QED
    BY <1>3, <2>1
<1> QED
  BY <1>4

\* The sums of both models, as one definition.
SumOf(f, n) ==
  LET sum[k \in 0 .. n] == IF k = 0 THEN 0 ELSE sum[k - 1] + f[k - 1]
  IN  sum[n]

\* The recursive function SumOf is built on.
LEMMA SumParts ==
  ASSUME NEW n \in Nat, NEW f, \A i \in 0 .. n - 1 : f[i] \in Int
  PROVE  \E u \in [0 .. n -> Int] :
           /\ u[0] = 0 /\ \A k \in 1 .. n : u[k] = u[k - 1] + f[k - 1]
           /\ SumOf(f, n) = u[n]
<1> DEFINE Rec(u) == [k \in 0 .. n |-> IF k = 0 THEN 0 ELSE u[k - 1] + f[k - 1]]
           G == [k \in 1 .. n |-> [i \in Int |-> i + f[k - 1]]]
<1>1. \A k \in 1 .. n : k - 1 \in 0 .. n - 1 /\ k - 1 \in 0 .. n /\ k \in 0 .. n /\ k # 0
  OBVIOUS
<1>2. /\ \A k \in 1 .. n, i \in Int : G[k][i] = i + f[k - 1]
      /\ G \in [1 .. n -> [Int -> Int]]
  BY <1>1
<1> HIDE DEF G
<1>3. PICK w \in [0 .. n -> Int] :
        w[0] = 0 /\ \A k \in 1 .. n : w[k] = G[k][w[k - 1]]
  <2>1. PICK a \in Int : a = 0
    OBVIOUS
  <2>2. \E w \in [0 .. n -> Int] :
          w[0] = a /\ \A k \in 1 .. n : w[k] = G[k][w[k - 1]]
    <3> HIDE DEF Rec
    <3> QED
      BY <1>2, Iterates
  <2> QED
    BY <2>1, <2>2
<1>4. w = Rec(w)
  <2>1. \A k \in 0 .. n : w[k] = Rec(w)[k]
    <3> TAKE k \in 0 .. n
    <3>1. CASE k = 0
      BY <1>3, <3>1
    <3>2. CASE k \in 1 .. n
      <4>1. w[k - 1] \in Int
        BY <1>1, <1>3, <3>2
      <4>2. w[k] = w[k - 1] + f[k - 1]
        BY <1>2, <1>3, <3>2, <4>1
      <4> QED
        BY <3>2, <4>2
    <3> QED
      BY <3>1, <3>2
  <2> QED
    BY <1>3, <2>1
<1> DEFINE u == CHOOSE g : g = Rec(g)
<1>5. u = Rec(u)
  <2> HIDE DEF Rec
  <2> QED
    BY <1>4
<1>6. SumOf(f, n) = u[n]
  BY DEF SumOf
<1> HIDE DEF u
<1>7. u[0] = 0 /\ \A k \in 1 .. n : u[k] = u[k - 1] + f[k - 1]
  BY <1>1, <1>5
<1>8. \A k \in Nat : k <= n => u[k] \in Int
  <2> DEFINE Q == {k \in Nat : k <= n => u[k] \in Int}
  <2>1. 0 \in Q
    BY <1>7
  <2>2. ASSUME NEW k \in Q PROVE k + 1 \in Q
    <3> SUFFICES ASSUME k + 1 <= n PROVE u[k + 1] \in Int
      OBVIOUS
    <3>1. /\ k \in Nat /\ u[k] \in Int /\ k + 1 \in 1 .. n /\ (k + 1) - 1 = k
          /\ k \in 0 .. n - 1
      OBVIOUS
    <3>2. u[k + 1] = u[k] + f[k] /\ f[k] \in Int
      BY <1>7, <3>1
    <3> QED
      BY <3>1, <3>2
  <2>3. Q \in SUBSET Nat
    OBVIOUS
  <2> HIDE DEF Q
  <2>4. \A k \in Nat : k \in Q
    BY <2>1, <2>2, <2>3, Counting
  <2> QED
    BY <2>4 DEF Q
<1>9. u \in [0 .. n -> Int]
  <2>1. u = [k \in 0 .. n |-> u[k]]
    BY <1>5
  <2>2. \A k \in 0 .. n : u[k] \in Int
    BY <1>8
  <2> QED
    BY <2>1, <2>2
<1> QED
  BY <1>6, <1>7, <1>9

\* A sum of integers is one, a sum of zeros is zero, and a sum of naturals is
\* at least the first of them.
LEMMA SumFacts ==
  ASSUME NEW n \in Nat, NEW f, \A i \in 0 .. n - 1 : f[i] \in Int
  PROVE  /\ SumOf(f, n) \in Int
         /\ (\A i \in 0 .. n - 1 : f[i] = 0) => SumOf(f, n) = 0
         /\ n > 0 /\ (\A i \in 0 .. n - 1 : f[i] >= 0) => SumOf(f, n) >= f[0]
<1>1. PICK u \in [0 .. n -> Int] :
        /\ u[0] = 0 /\ \A k \in 1 .. n : u[k] = u[k - 1] + f[k - 1]
        /\ SumOf(f, n) = u[n]
  BY SumParts
<1>2. \A k \in 1 .. n : k - 1 \in 0 .. n - 1 /\ k \in 0 .. n /\ k - 1 \in 0 .. n
  OBVIOUS
<1>3. ASSUME \A i \in 0 .. n - 1 : f[i] = 0 PROVE u[n] = 0
  <2> DEFINE Q == {k \in Nat : k <= n => u[k] = 0}
  <2>1. 0 \in Q
    BY <1>1
  <2>2. ASSUME NEW k \in Q PROVE k + 1 \in Q
    <3> SUFFICES ASSUME k + 1 <= n PROVE u[k + 1] = 0
      OBVIOUS
    <3>1. k \in Nat /\ u[k] = 0 /\ k + 1 \in 1 .. n /\ (k + 1) - 1 = k /\ k \in 0 .. n - 1
      OBVIOUS
    <3>2. u[k + 1] = u[k] + f[k] /\ f[k] = 0
      BY <1>1, <1>3, <3>1
    <3> QED
      BY <3>1, <3>2
  <2>3. Q \in SUBSET Nat
    OBVIOUS
  <2> HIDE DEF Q
  <2>4. \A k \in Nat : k \in Q
    BY <2>1, <2>2, <2>3, Counting
  <2> QED
    BY <2>4 DEF Q
<1>4. ASSUME n > 0, \A i \in 0 .. n - 1 : f[i] >= 0 PROVE u[n] >= f[0]
  <2> DEFINE Q == {k \in Nat : k + 1 <= n => u[k + 1] >= f[0]}
  <2>1. 0 \in Q
    <3>1. 1 \in 1 .. n /\ 0 \in 0 .. n - 1 /\ 1 - 1 = 0
      BY <1>4
    <3>2. u[1] = u[0] + f[0] /\ f[0] \in Int
      BY <1>1, <3>1
    <3> QED
      BY <1>1, <3>2
  <2>2. ASSUME NEW k \in Q PROVE k + 1 \in Q
    <3> SUFFICES ASSUME k + 2 <= n PROVE u[k + 2] >= f[0]
      OBVIOUS
    <3>1. /\ k \in Nat /\ u[k + 1] >= f[0] /\ k + 2 \in 1 .. n
          /\ (k + 2) - 1 = k + 1 /\ k + 1 \in 0 .. n - 1 /\ k + 1 \in 0 .. n
          /\ 0 \in 0 .. n - 1
      OBVIOUS
    <3>2. u[k + 2] = u[k + 1] + f[k + 1] /\ u[k + 1] \in Int
          /\ f[k + 1] \in Int /\ f[k + 1] >= 0 /\ f[0] \in Int
      BY <1>1, <1>4, <3>1
    <3> QED
      BY <3>1, <3>2
  <2>3. Q \in SUBSET Nat
    OBVIOUS
  <2> HIDE DEF Q
  <2>4. \A k \in Nat : k \in Q
    BY <2>1, <2>2, <2>3, Counting
  <2>5. PICK p \in Nat : p + 1 = n
    <3>1. n - 1 \in Nat /\ (n - 1) + 1 = n
      BY <1>4
    <3> QED
      BY <3>1
  <2>6. p \in Q
    BY <2>4
  <2>7. p + 1 <= n => u[p + 1] >= f[0]
    BY <2>6 DEF Q
  <2>8. p + 1 <= n
    BY <2>5
  <2> QED
    BY <2>5, <2>7, <2>8
<1>5. u[n] \in Int
  BY <1>1
<1> QED
  BY <1>1, <1>3, <1>4, <1>5

(* The bio-inspired modules.                                              *)

\* The assumptions on the bio-inspired modules, one by one.
LEMMA BioSizes ==
  /\ Relays \in Nat /\ Relays > 1 /\ Striosomes \in Nat \ {0}
  /\ Slices \in Nat \ {0} /\ Cols \in Nat \ {0} /\ Purkinje \in Nat \ {0}
  /\ Rise \in Nat /\ Rhythm \in Nat \ {0} /\ Precision \in Nat \ {0}
  /\ Pulse \in Nat /\ Dt \in 0 .. 100
  /\ \A a \in Attentions : a \in Nat
  /\ \A e \in Errors : e \in Nat
  /\ \A d \in Dopamines : d \in Int
BY BioAssumption

\* Every neuron that a module reads is there.
LEMMA NeuronsRead ==
  /\ \A i \in 0 .. Relays - 1 : i \in B!Neurons
  /\ \A i \in 0 .. Striosomes - 1 : B!Slice(i) \in B!Neurons
  /\ \A c \in B!Cells : c \in B!Neurons /\ c \in Nat
  /\ 0 \in B!Cells
<1>1. PICK q \in Nat \ {0} : q = Cols * Cols
  BY BioSizes
<1>2. PICK S : S = {Relays, Slices, Cols * Cols}
  OBVIOUS
<1>3. \E g \in S : \A i \in S : g >= i
  BY <1>1, <1>2, BioSizes
<1>4. B!Max(S) \in S /\ \A i \in S : B!Max(S) >= i
  BY <1>3 DEF B!Max
<1>5. B!Neurons = 0 .. B!Max(S) - 1
  BY <1>2 DEF B!Neurons
<1>6. PICK g : g = B!Max(S)
  OBVIOUS
<1>7. g \in Nat /\ g >= Relays /\ g >= Slices /\ g >= q
  BY <1>1, <1>2, <1>4, <1>6, BioSizes
<1>8. \A i \in Nat : i < Relays \/ i < Slices \/ i < q => i \in B!Neurons
  BY <1>1, <1>5, <1>6, <1>7, BioSizes
<1>9. \A i \in 0 .. Striosomes - 1 : B!Slice(i) \in Nat /\ B!Slice(i) < Slices
  BY BioSizes DEF B!Slice
<1>10. B!Cells = 0 .. q - 1
  BY <1>1 DEF B!Cells
<1>11. \A i \in 0 .. Relays - 1 : i \in Nat /\ i < Relays
  BY BioSizes
<1>12. \A c \in B!Cells : c \in Nat /\ c < q
  BY <1>1, <1>10
<1> QED
  BY <1>1, <1>8, <1>9, <1>10, <1>11, <1>12

\* The first wins that nobody exceeds.
LEMMA FirstWins ==
  ASSUME NEW K \in Nat \ {0}, NEW act,
         DOMAIN act = 0 .. K - 1,
         \A i \in 0 .. K - 1 : act[i] \in Int /\ act[i] <= act[0]
  PROVE  B!Winner(act) = 0
<1>1. 0 \in 0 .. K - 1
  OBVIOUS
<1>2. PICK S : S = B!Range(act)
  OBVIOUS
<1>3. act[0] \in S /\ \A i \in S : i \in Int /\ act[0] >= i
  BY <1>1, <1>2 DEF B!Range
<1>4. B!Max(S) = act[0]
  <2>1. B!Max(S) \in S /\ \A i \in S : B!Max(S) >= i
    BY <1>3 DEF B!Max
  <2> QED
    BY <1>3, <2>1
<1>5. PICK M : M = {i \in DOMAIN act : act[i] = act[0]}
  OBVIOUS
<1>6. 0 \in M /\ \A i \in M : i \in Nat
  BY <1>1, <1>5
<1>7. B!Min(M) = 0
  <2>1. B!Min(M) \in M /\ \A i \in M : B!Min(M) <= i
    BY <1>6 DEF B!Min
  <2> QED
    BY <1>6, <2>1
<1> QED
  BY <1>2, <1>4, <1>5, <1>7 DEF B!Winner

\* A percent.

\* Unit brings any number to a percent and keeps the order.
LEMMA UnitLevels ==
  /\ \A i \in Int : B!Unit(i) \in Percent
  /\ \A i, j \in Int : i <= j => B!Unit(i) <= B!Unit(j)
  /\ \A i \in Percent : B!Unit(i) = i
  /\ \A i \in Int, j \in Percent : i <= j => B!Unit(i) <= j
  /\ \A i \in Int, j \in Percent : j <= i => j <= B!Unit(i)
BY DEF B!Unit, B!ONE, Percent

\* A product of levels is one.
LEMMA TimesNat ==
  ASSUME NEW i \in Nat, NEW k \in Nat
  PROVE  B!Times(i, k) \in Nat /\ B!Times(k, i) = B!Times(i, k)
<1>1. PICK p \in Nat : p = i * k
  OBVIOUS
<1>2. p = k * i /\ p \div 100 \in Nat
  BY <1>1
<1> QED
  BY <1>1, <1>2 DEF B!Times, B!ONE

\* Products keep the order.
LEMMA TimesOrder ==
  ASSUME NEW i \in Nat, NEW j \in Nat, NEW k \in Nat, i <= j
  PROVE  B!Times(i, k) <= B!Times(j, k)
<1>1. PICK p \in Nat : p = i * k
  OBVIOUS
<1>2. PICK q \in Nat : q = j * k
  OBVIOUS
<1>3. p <= q
  <2>1. PICK d \in Nat : j = i + d
    <3>1. j - i \in Nat /\ j = i + (j - i)
      OBVIOUS
    <3> QED
      BY <3>1
  <2>2. d * k \in Nat /\ j * k = i * k + d * k
    BY <2>1
  <2> QED
    BY <1>1, <1>2, <2>2
<1>4. p \div 100 <= q \div 100
  BY <1>3
<1> QED
  BY <1>1, <1>2, <1>4 DEF B!Times, B!ONE

\* What the modules are at any time.
Relay == [mode : {"Silent", "Tonic", "Burst"}, mp : Percent, gain : Percent, gate : Percent]

\* Rates are alike.
RateInv ==
  /\ rate \in [B!Neurons -> Percent]
  /\ \A i, j \in B!Neurons : rate[i] = rate[j]

\* What a relay has, the first has as much of.
RelayInv ==
  /\ relay \in [0 .. Relays - 1 -> Relay]
  /\ \A r \in 0 .. Relays - 1 :
       /\ relay[r].mp <= relay[0].mp /\ relay[r].gain <= relay[0].gain
       /\ relay[r].gate <= relay[0].gate
       /\ (relay[r].mode = "Burst") <=> (relay[0].mode = "Burst")
  /\ calcium \in Percent /\ selected = 0 /\ winner = 0

\* Striosomes are copies of each other.
StrioInv ==
  /\ strio \in [0 .. Striosomes - 1 -> [w : Percent, act : Percent]]
  /\ \A i \in 0 .. Striosomes - 1 : strio[i] = strio[0]
  /\ best = 0 /\ action = 0

\* Astrocytes charge together.
AstroInv ==
  /\ astro \in [B!Cells -> [ip3 : Percent, ca : Percent]]
  /\ \A c \in B!Cells : astro[c].ip3 = astro[0].ip3 /\ astro[c].ca >= astro[0].ca

\* Purkinje cells but the first only strengthen.
WeightInv ==
  /\ weight \in [0 .. Purkinje - 1 -> Percent]
  /\ \A p \in 0 .. Purkinje - 1 : p > 0 => weight[p] >= 30 /\ weight[p] >= weight[0]

\* The strengthening: no module has anything to tell its inputs apart by.
BioInv ==
  /\ tick \in Nat /\ runs \in Nat /\ runs <= tick
  /\ RateInv /\ RelayInv /\ StrioInv /\ AstroInv /\ WeightInv

\* Everything is alike at the start.
LEMMA BioStarts == B!BioInit => BioInv
<1> SUFFICES ASSUME B!BioInit PROVE BioInv
  OBVIOUS
<1>1. /\ tick = 0 /\ rate = [i \in B!Neurons |-> 0]
      /\ relay = [r \in 0 .. Relays - 1 |->
           [mode |-> "Silent", mp |-> 0, gain |-> 50, gate |-> 100]]
      /\ calcium = 0 /\ winner = 0 /\ selected = 0
      /\ strio = [i \in 0 .. Striosomes - 1 |-> [w |-> 50, act |-> 0]]
      /\ best = 0 /\ action = 0
      /\ astro = [c \in B!Cells |-> [ip3 |-> 0, ca |-> 0]]
      /\ weight = [p \in 0 .. Purkinje - 1 |-> 30] /\ runs = 0
  BY DEF B!BioInit, B!ONE
<1>2. /\ 0 \in 0 .. Relays - 1 /\ 0 \in 0 .. Striosomes - 1
      /\ 0 \in 0 .. Purkinje - 1 /\ 0 \in B!Cells
  BY BioSizes, NeuronsRead
<1>3. RateInv
  BY <1>1 DEF RateInv, Percent
<1>4. RelayInv
  <2>1. relay \in [0 .. Relays - 1 -> Relay]
    BY <1>1 DEF Percent, Relay
  <2> QED
    BY <1>1, <1>2, <2>1 DEF RelayInv, Percent
<1>5. StrioInv
  BY <1>1, <1>2 DEF StrioInv, Percent
<1>6. AstroInv
  BY <1>1, <1>2 DEF AstroInv, Percent
<1>7. WeightInv
  BY <1>1, <1>2 DEF WeightInv, Percent
<1> QED
  BY <1>1, <1>3, <1>4, <1>5, <1>6, <1>7 DEF BioInv

\* What a step makes of a relay, field by field.
Gain(r, a) == B!Unit(r.gain + B!Times(a - r.gain, 5))
Gated(r, in, a) == B!Times(B!Times(in, r.gate), 50 + Gain(r, a) \div 2)
Drive(r, in, a, ca) ==
  IF r.mode = "Burst" THEN B!Times(Gated(r, in, a), 2 * ca) ELSE Gated(r, in, a) \div 10
Firing(r, in, a, ca) ==
  IF ca > 29 /\ in > 0 THEN "Burst" ELSE IF Gain(r, a) > 20 THEN "Tonic" ELSE "Silent"

\* Those are the fields of the relay it leaves.
LEMMA RelayedFields ==
  ASSUME NEW r \in Relay, NEW in, NEW a, NEW ca,
         Gain(r, a) \in Percent,
         B!Unit(r.mp + Drive(r, in, a, ca) - (r.mp \div 10)) \in Percent
  PROVE  /\ B!Relayed(r, in, a, ca) \in Relay
         /\ B!Relayed(r, in, a, ca).gain = Gain(r, a)
         /\ B!Relayed(r, in, a, ca).mp
              = B!Unit(r.mp + Drive(r, in, a, ca) - (r.mp \div 10))
         /\ B!Relayed(r, in, a, ca).mode = Firing(r, in, a, ca)
<1>1. PICK g : g = Gain(r, a)
  OBVIOUS
<1>2. PICK m : m = B!Unit(r.mp + Drive(r, in, a, ca) - (r.mp \div 10))
  OBVIOUS
<1>3. PICK o : o = Firing(r, in, a, ca)
  OBVIOUS
<1>4. B!Relayed(r, in, a, ca) = [[[r EXCEPT !.gain = g] EXCEPT !.mp = m] EXCEPT !.mode = o]
  <2>1. [r EXCEPT !.gain = g].mp = r.mp
    BY DEF Relay
  <2> QED
    BY <1>1, <1>2, <1>3, <2>1 DEF B!Relayed, Gain, Drive, Gated, Firing
<1>5. PICK s : s = [r EXCEPT !.gain = g]
  OBVIOUS
<1>6. PICK u : u = [s EXCEPT !.mp = m]
  OBVIOUS
<1>7. PICK w : w = [u EXCEPT !.mode = o]
  OBVIOUS
<1>8. s \in Relay /\ s.gain = g
  BY <1>1, <1>5 DEF Relay
<1>9. u \in Relay /\ u.gain = g /\ u.mp = m
  BY <1>2, <1>6, <1>8 DEF Relay
<1>10. w \in Relay /\ w.gain = g /\ w.mp = m /\ w.mode = o
  BY <1>3, <1>7, <1>9 DEF Relay, Firing
<1> QED
  BY <1>1, <1>2, <1>3, <1>4, <1>5, <1>6, <1>7, <1>10

\* What drives a relay is a natural number.
LEMMA DriveIsNat ==
  ASSUME NEW r \in Relay, NEW in \in Percent, NEW a \in Nat, NEW ca \in Percent
  PROVE  /\ Gain(r, a) \in Percent /\ Gated(r, in, a) \in Nat
         /\ Drive(r, in, a, ca) \in Nat
         /\ B!Unit(r.mp + Drive(r, in, a, ca) - (r.mp \div 10)) \in Percent
<1>1. r.gain \in Percent /\ r.gate \in Percent /\ r.mp \in Percent
  BY DEF Relay
<1>2. r.gain + B!Times(a - r.gain, 5) \in Int
  BY <1>1 DEF B!Times, B!ONE, Percent
<1>3. Gain(r, a) \in Percent
  BY <1>2, UnitLevels DEF Gain
<1>4. in \in Nat /\ r.gate \in Nat /\ 50 + Gain(r, a) \div 2 \in Nat /\ 2 * ca \in Nat
  <2>1. in \in Nat /\ r.gate \in Nat /\ 2 * ca \in Nat
    BY <1>1 DEF Percent
  <2>2. PICK g \in 0 .. 100 : g = Gain(r, a)
    BY <1>3 DEF Percent
  <2> QED
    BY <2>1, <2>2
<1>5. B!Times(in, r.gate) \in Nat
  BY <1>4, TimesNat
<1>6. Gated(r, in, a) \in Nat
  <2>1. PICK k \in Nat : k = 50 + Gain(r, a) \div 2
    BY <1>4
  <2> QED
    BY <1>5, <2>1, TimesNat DEF Gated
<1>7. Drive(r, in, a, ca) \in Nat
  <2>1. PICK k \in Nat : k = 2 * ca
    BY <1>4
  <2>2. B!Times(Gated(r, in, a), k) \in Nat
    BY <1>6, <2>1, TimesNat
  <2> QED
    BY <1>6, <2>1, <2>2 DEF Drive
<1>8. r.mp + Drive(r, in, a, ca) - (r.mp \div 10) \in Int
  BY <1>1, <1>7 DEF Percent
<1> QED
  BY <1>3, <1>6, <1>7, <1>8, UnitLevels

\* Of two relays the one that has more, and more attention, keeps more.
LEMMA RelayedOrder ==
  ASSUME NEW r \in Relay, NEW s \in Relay, NEW in \in Percent, NEW ca \in Percent,
         NEW a \in Nat, NEW b \in Nat, a <= b,
         r.mp <= s.mp, r.gain <= s.gain, r.gate <= s.gate,
         (r.mode = "Burst") <=> (s.mode = "Burst")
  PROVE  /\ B!Relayed(r, in, a, ca) \in Relay
         /\ B!Relayed(s, in, b, ca) \in Relay
         /\ B!Relayed(r, in, a, ca).mp <= B!Relayed(s, in, b, ca).mp
         /\ B!Relayed(r, in, a, ca).gain <= B!Relayed(s, in, b, ca).gain
         /\ (B!Relayed(r, in, a, ca).mode = "Burst")
              <=> (B!Relayed(s, in, b, ca).mode = "Burst")
<1>1. /\ r.gain \in Percent /\ r.gate \in Percent /\ r.mp \in Percent
      /\ s.gain \in Percent /\ s.gate \in Percent /\ s.mp \in Percent
  BY DEF Relay
<1>2. Gain(r, a) <= Gain(s, b)
  <2>0. PICK g \in Nat, k \in Nat : g = r.gain /\ k = s.gain
    BY <1>1 DEF Percent
  <2>1. PICK i \in Int : i = g + ((a - g) * 5) \div 100
    OBVIOUS
  <2>2. PICK j \in Int : j = k + ((b - k) * 5) \div 100
    OBVIOUS
  <2>3. i <= j
    <3>1. (a - g) * 5 + 100 * g <= (b - k) * 5 + 100 * k
      BY <2>0
    <3>2. PICK c \in Int : c = (a - g) * 5 + 100 * g
      OBVIOUS
    <3>3. PICK d \in Int : d = (b - k) * 5 + 100 * k
      OBVIOUS
    <3>4. i = c \div 100 /\ j = d \div 100
      BY <2>1, <2>2, <3>2, <3>3
    <3> QED
      BY <3>1, <3>2, <3>3, <3>4
  <2>4. i = r.gain + B!Times(a - r.gain, 5) /\ j = s.gain + B!Times(b - s.gain, 5)
    BY <2>0, <2>1, <2>2 DEF B!Times, B!ONE
  <2> QED
    BY <2>3, <2>4, UnitLevels DEF Gain
<1>3. /\ Gain(r, a) \in Percent /\ Gated(r, in, a) \in Nat /\ Drive(r, in, a, ca) \in Nat
      /\ Gain(s, b) \in Percent /\ Gated(s, in, b) \in Nat /\ Drive(s, in, b, ca) \in Nat
      /\ B!Unit(r.mp + Drive(r, in, a, ca) - (r.mp \div 10)) \in Percent
      /\ B!Unit(s.mp + Drive(s, in, b, ca) - (s.mp \div 10)) \in Percent
  BY DriveIsNat
<1>4. Gated(r, in, a) <= Gated(s, in, b)
  <2>1. PICK k \in Nat : k = 50 + Gain(r, a) \div 2
    BY <1>3 DEF Percent
  <2>2. PICK l \in Nat : l = 50 + Gain(s, b) \div 2
    BY <1>3 DEF Percent
  <2>3. k <= l
    BY <1>2, <1>3, <2>1, <2>2 DEF Percent
  <2>4. /\ in \in Nat /\ r.gate \in Nat /\ s.gate \in Nat
    BY <1>1 DEF Percent
  <2>5. /\ B!Times(in, r.gate) \in Nat /\ B!Times(in, s.gate) \in Nat
        /\ B!Times(in, r.gate) <= B!Times(in, s.gate)
    <3>1. B!Times(r.gate, in) <= B!Times(s.gate, in)
      BY <2>4, TimesOrder
    <3>2. /\ B!Times(in, r.gate) \in Nat /\ B!Times(in, r.gate) = B!Times(r.gate, in)
      BY <2>4, TimesNat
    <3>3. /\ B!Times(in, s.gate) \in Nat /\ B!Times(in, s.gate) = B!Times(s.gate, in)
      BY <2>4, TimesNat
    <3> QED
      BY <3>1, <3>2, <3>3
  <2>6. PICK c \in Nat, d \in Nat : c = B!Times(in, r.gate) /\ d = B!Times(in, s.gate)
    BY <2>5
  <2>7. B!Times(c, k) <= B!Times(d, k) /\ B!Times(c, k) \in Nat /\ B!Times(d, k) \in Nat
    <3>1. B!Times(c, k) <= B!Times(d, k)
      BY <2>5, <2>6, TimesOrder
    <3>2. B!Times(c, k) \in Nat
      BY TimesNat
    <3>3. B!Times(d, k) \in Nat
      BY TimesNat
    <3> QED
      BY <3>1, <3>2, <3>3
  <2>8. B!Times(d, k) <= B!Times(d, l) /\ B!Times(d, l) \in Nat
    <3>1. B!Times(k, d) <= B!Times(l, d)
      BY <2>3, TimesOrder
    <3>2. B!Times(d, l) \in Nat /\ B!Times(d, l) = B!Times(l, d)
      BY TimesNat
    <3>3. B!Times(d, k) = B!Times(k, d)
      BY TimesNat
    <3> QED
      BY <3>1, <3>2, <3>3
  <2>9. Gated(r, in, a) = B!Times(c, k) /\ Gated(s, in, b) = B!Times(d, l)
    BY <2>1, <2>2, <2>6 DEF Gated
  <2> QED
    BY <2>7, <2>8, <2>9
<1>5. Drive(r, in, a, ca) <= Drive(s, in, b, ca)
  <2>1. CASE r.mode = "Burst"
    <3>1. PICK k \in Nat : k = 2 * ca
      BY DEF Percent
    <3>2. B!Times(Gated(r, in, a), k) <= B!Times(Gated(s, in, b), k)
      BY <1>3, <1>4, <3>1, TimesOrder
    <3> QED
      BY <2>1, <3>1, <3>2 DEF Drive
  <2>2. CASE r.mode # "Burst"
    BY <1>3, <1>4, <2>2 DEF Drive
  <2> QED
    BY <2>1, <2>2
<1>6. B!Unit(r.mp + Drive(r, in, a, ca) - (r.mp \div 10))
        <= B!Unit(s.mp + Drive(s, in, b, ca) - (s.mp \div 10))
  <2>1. PICK c \in Nat, d \in Nat : c = Drive(r, in, a, ca) /\ d = Drive(s, in, b, ca)
    BY <1>3
  <2>2. PICK i \in Int : i = r.mp + c - (r.mp \div 10)
    BY <1>1, <2>1 DEF Percent
  <2>3. PICK j \in Int : j = s.mp + d - (s.mp \div 10)
    BY <1>1, <2>1 DEF Percent
  <2>4. i <= j
    <3>1. PICK m \in Nat, o \in Nat : m = r.mp /\ o = s.mp
      BY <1>1 DEF Percent
    <3>2. m <= o /\ c <= d
      BY <1>5, <2>1, <3>1
    <3>3. i = m + c - (m \div 10) /\ j = o + d - (o \div 10)
      BY <2>2, <2>3, <3>1
    <3>4. m - (m \div 10) <= o - (o \div 10)
      BY <3>2
    <3> QED
      BY <3>2, <3>3, <3>4
  <2> QED
    BY <2>1, <2>2, <2>3, <2>4, UnitLevels
<1>7. (Firing(r, in, a, ca) = "Burst") <=> (Firing(s, in, b, ca) = "Burst")
  BY DEF Firing
<1> QED
  BY <1>2, <1>3, <1>6, <1>7, RelayedFields

\* The reticular nucleus inhibits by a percent.
LEMMA InhibitionLevel ==
  ASSUME NEW out, DOMAIN out = 0 .. Relays - 1,
         \A i \in 0 .. Relays - 1 : out[i] \in Percent,
         NEW w, NEW e \in Nat
  PROVE  B!Inhibition(out, w, e) \in Percent
<1> DEFINE f == [i \in DOMAIN out |-> IF i = w THEN 0 ELSE out[i]]
<1>1. \A i \in 0 .. Relays - 1 : f[i] \in Int
  <2> TAKE i \in 0 .. Relays - 1
  <2>1. f[i] = 0 \/ f[i] = out[i]
    OBVIOUS
  <2>2. out[i] \in Int
    <3>1. PICK o \in Percent : o = out[i]
      OBVIOUS
    <3>2. o \in Int
      BY DEF Percent
    <3> QED
      BY <3>1, <3>2
  <2> QED
    BY <2>1, <2>2
<1> HIDE DEF f
<1>2. SumOf(f, Relays) \in Int
  BY <1>1, BioSizes, SumFacts
<1>3. B!Sum(f, Relays) = SumOf(f, Relays)
  BY DEF B!Sum, SumOf
<1>4. PICK k \in Int : k = B!Sum(f, Relays)
  BY <1>2, <1>3
<1>5. PICK m \in Nat : m = Relays - 1 /\ m > 0
  BY BioSizes
<1>6. k \div m \in Int
  BY <1>4, <1>5
<1>7. PICK u \in Percent : u = B!Unit(k \div m)
  BY <1>6, UnitLevels
<1>8. u + e \div 10 \in Int
  BY DEF Percent
<1>9. B!Inhibition(out, w, e) = B!Unit(u + e \div 10)
  BY <1>4, <1>5, <1>7 DEF B!Inhibition, f
<1> QED
  BY <1>8, <1>9, UnitLevels

\* The first relay stays ahead, and attention with it.
LEMMA ThalamusKeeps ==
  ASSUME BioInv, NEW now \in Nat, NEW a \in Nat, NEW e \in Nat,
         B!Thalamus(now, a, e)
  PROVE  RelayInv'
<1> DEFINE ca == B!Pulsed(calcium, now)
           att(i) == IF i = selected THEN a ELSE a \div 10
           stepped == [i \in DOMAIN relay |-> B!Relayed(relay[i], rate[i], att(i), ca)]
           out == [i \in DOMAIN relay |-> B!Output(stepped[i])]
           w == B!Winner(out)
           inh == B!Inhibition(out, w, e)
<1>1. /\ calcium' = ca /\ winner' = w
      /\ relay' = [i \in DOMAIN relay |-> [stepped[i] EXCEPT
           !.gate = 100 - (IF i = w THEN inh \div 10 ELSE inh)]]
      /\ selected' = w \/ selected' = selected
  BY DEF B!Thalamus, B!ONE
<1>2. ca \in Percent
  <2>1. calcium \in Percent
    BY DEF BioInv, RelayInv
  <2> QED
    BY <2>1, BioSizes DEF B!Pulsed, B!Unit, B!Times, B!ONE, Percent
<1>3. /\ relay \in [0 .. Relays - 1 -> Relay] /\ 0 \in 0 .. Relays - 1
      /\ DOMAIN relay = 0 .. Relays - 1 /\ selected = 0
  BY BioSizes DEF BioInv, RelayInv
<1>4. \A i \in 0 .. Relays - 1 : /\ relay[i] \in Relay /\ rate[i] = rate[0]
                                 /\ rate[i] \in Percent
  BY <1>3, NeuronsRead DEF BioInv, RateInv, RelayInv
<1>5. \A i \in 0 .. Relays - 1 : att(i) \in Nat /\ att(i) <= att(0)
  BY <1>3
<1> HIDE DEF ca, att, inh, w
<1>6. ASSUME NEW i \in 0 .. Relays - 1
      PROVE  /\ stepped[i] \in Relay /\ stepped[0] \in Relay
             /\ stepped[i].mp <= stepped[0].mp /\ stepped[i].gain <= stepped[0].gain
             /\ (stepped[i].mode = "Burst") <=> (stepped[0].mode = "Burst")
  <2>1. stepped[i] = B!Relayed(relay[i], rate[0], att(i), ca)
    BY <1>3, <1>4
  <2>2. stepped[0] = B!Relayed(relay[0], rate[0], att(0), ca)
    BY <1>3
  <2>3. /\ relay[i].mp <= relay[0].mp /\ relay[i].gain <= relay[0].gain
        /\ relay[i].gate <= relay[0].gate
        /\ (relay[i].mode = "Burst") <=> (relay[0].mode = "Burst")
    BY DEF BioInv, RelayInv
  <2>4. relay[i] \in Relay /\ relay[0] \in Relay /\ rate[0] \in Percent
        /\ att(i) \in Nat /\ att(0) \in Nat /\ att(i) <= att(0)
    BY <1>3, <1>4, <1>5
  <2> HIDE DEF stepped
  <2> QED
    <3>1. PICK r \in Relay, s \in Relay : r = relay[i] /\ s = relay[0]
      BY <2>4
    <3>2. PICK in \in Percent : in = rate[0]
      BY <2>4
    <3>3. PICK c \in Nat, d \in Nat : c = att(i) /\ d = att(0) /\ c <= d
      BY <2>4
    <3>5. /\ r.mp <= s.mp /\ r.gain <= s.gain /\ r.gate <= s.gate
          /\ (r.mode = "Burst") <=> (s.mode = "Burst")
      BY <2>3, <3>1
    <3>4. /\ B!Relayed(r, in, c, ca) \in Relay
          /\ B!Relayed(s, in, d, ca) \in Relay
          /\ B!Relayed(r, in, c, ca).mp <= B!Relayed(s, in, d, ca).mp
          /\ B!Relayed(r, in, c, ca).gain <= B!Relayed(s, in, d, ca).gain
          /\ (B!Relayed(r, in, c, ca).mode = "Burst")
               <=> (B!Relayed(s, in, d, ca).mode = "Burst")
      BY <1>2, <3>3, <3>5, RelayedOrder
    <3> QED
      BY <2>1, <2>2, <3>1, <3>2, <3>3, <3>4
<1>7. DOMAIN out = 0 .. Relays - 1
  BY <1>3
<1>8. \A i \in 0 .. Relays - 1 : out[i] \in Percent /\ out[i] <= out[0]
  <2> TAKE i \in 0 .. Relays - 1
  <2>1. out[i] = B!Output(stepped[i]) /\ out[0] = B!Output(stepped[0])
    BY <1>3
  <2>2. stepped[i].mp \in Percent /\ stepped[0].mp \in Percent
    BY <1>6 DEF Relay
  <2>3. stepped[i].mp <= stepped[0].mp
    BY <1>6
  <2> HIDE DEF out, stepped
  <2> QED
    BY <2>1, <2>2, <2>3 DEF B!Output, Percent
<1> HIDE DEF out
<1>9. w = 0
  <2>1. Relays \in Nat \ {0} /\ \A i \in 0 .. Relays - 1 : out[i] \in Int
    BY <1>8, BioSizes DEF Percent
  <2> QED
    BY <1>7, <1>8, <2>1, FirstWins DEF w
<1>10. inh \in Percent
  BY <1>7, <1>8, InhibitionLevel DEF inh
<1>11. ASSUME NEW i \in 0 .. Relays - 1
       PROVE  /\ relay'[i] \in Relay
              /\ relay'[i].mp = stepped[i].mp /\ relay'[i].gain = stepped[i].gain
              /\ relay'[i].mode = stepped[i].mode
              /\ relay'[i].gate = 100 - (IF i = 0 THEN inh \div 10 ELSE inh)
  <2>1. stepped[i] \in Relay
    BY <1>6
  <2>2. PICK g \in Percent : g = 100 - (IF i = 0 THEN inh \div 10 ELSE inh)
    BY <1>10 DEF Percent
  <2>3. relay'[i] = [stepped[i] EXCEPT !.gate = g]
    BY <1>1, <1>3, <1>9, <2>2
  <2> HIDE DEF stepped
  <2> QED
    BY <2>1, <2>2, <2>3 DEF Relay
<1>12. relay' \in [0 .. Relays - 1 -> Relay]
  <2>1. relay' = [i \in 0 .. Relays - 1 |-> relay'[i]]
    BY <1>1, <1>3
  <2> QED
    BY <1>11, <2>1
<1> HIDE DEF stepped
<1>13. ASSUME NEW r \in 0 .. Relays - 1
       PROVE  /\ relay'[r].mp <= relay'[0].mp /\ relay'[r].gain <= relay'[0].gain
              /\ relay'[r].gate <= relay'[0].gate
              /\ (relay'[r].mode = "Burst") <=> (relay'[0].mode = "Burst")
  <2>1. relay'[r].gate <= relay'[0].gate
    BY <1>3, <1>10, <1>11 DEF Percent
  <2>2. /\ relay'[r].mp = stepped[r].mp /\ relay'[r].gain = stepped[r].gain
        /\ relay'[r].mode = stepped[r].mode
        /\ relay'[0].mp = stepped[0].mp /\ relay'[0].gain = stepped[0].gain
        /\ relay'[0].mode = stepped[0].mode
    BY <1>3, <1>11
  <2> QED
    BY <1>6, <2>1, <2>2
<1> QED
  BY <1>1, <1>2, <1>3, <1>9, <1>12, <1>13 DEF RelayInv

\* Striosomes of one weight that read one rate learn alike, and the first wins.
LEMMA StriatumKeeps ==
  ASSUME BioInv, NEW d \in Int, NEW e \in Nat, B!Striatum(d, e)
  PROVE  StrioInv'
<1> DEFINE act == [i \in DOMAIN strio |-> B!Unit(B!Times(strio[i].w, rate[B!Slice(i)]))]
           learns == B!Gate(d) > 0 /\ e > 0
           new(i) == [w |-> IF learns /\ rate[B!Slice(i)] > 0 THEN B!Unit(strio[i].w + 25)
                            ELSE strio[i].w,
                      act |-> act[i]]
<1>1. /\ strio' = [i \in DOMAIN strio |-> new(i)]
      /\ best' = B!Winner(act)
      /\ action' = B!Winner(act) \/ action' = action
  BY DEF B!Striatum
<1>2. /\ strio \in [0 .. Striosomes - 1 -> [w : Percent, act : Percent]]
      /\ DOMAIN strio = 0 .. Striosomes - 1 /\ 0 \in 0 .. Striosomes - 1
      /\ action = 0
  BY BioSizes DEF BioInv, RateInv, StrioInv
<1>3. PICK s : s = strio[0]
  OBVIOUS
<1>4. PICK r : r = rate[0]
  OBVIOUS
<1>5. s.w \in Percent /\ r \in Percent
  BY <1>2, <1>3, <1>4, NeuronsRead DEF BioInv, RateInv, StrioInv
<1>6. \A i \in 0 .. Striosomes - 1 : strio[i] = s /\ rate[B!Slice(i)] = r
  BY <1>2, <1>3, <1>4, NeuronsRead DEF BioInv, RateInv, StrioInv
<1>7. PICK a : a = B!Unit(B!Times(s.w, r))
  OBVIOUS
<1>8. a \in Percent
  <2>1. s.w \in Nat /\ r \in Nat
    BY <1>5 DEF Percent
  <2>2. B!Times(s.w, r) \in Nat
    BY <2>1, TimesNat
  <2> QED
    BY <1>7, <2>2, UnitLevels
<1>9. \A i \in 0 .. Striosomes - 1 : act[i] = a
  BY <1>2, <1>6, <1>7
<1>10. DOMAIN act = 0 .. Striosomes - 1
  BY <1>2
<1> HIDE DEF act
<1>11. B!Winner(act) = 0
  <2>1. a \in Int
    BY <1>8 DEF Percent
  <2>2. \A i \in 0 .. Striosomes - 1 : act[i] \in Int /\ act[i] <= act[0]
    BY <1>2, <1>9, <2>1
  <2> QED
    BY <1>10, <2>2, BioSizes, FirstWins
<1>12. PICK n : n = [w |-> IF learns /\ r > 0 THEN B!Unit(s.w + 25) ELSE s.w, act |-> a]
  OBVIOUS
<1>13. n \in [w : Percent, act : Percent]
  <2>1. B!Unit(s.w + 25) \in Percent
    BY <1>5, UnitLevels DEF Percent
  <2> QED
    BY <1>5, <1>8, <1>12, <2>1
<1>14. \A i \in 0 .. Striosomes - 1 : new(i) = n
  BY <1>6, <1>9, <1>12
<1> HIDE DEF new
<1>15. strio' = [i \in 0 .. Striosomes - 1 |-> n]
  BY <1>1, <1>2, <1>14
<1> QED
  BY <1>1, <1>2, <1>11, <1>13, <1>15 DEF StrioInv

\* An astrocyte that has more keeps more.
LEMMA GliaOrder ==
  ASSUME NEW a \in [ip3 : Percent, ca : Percent], NEW b \in [ip3 : Percent, ca : Percent],
         NEW in \in Nat, a.ip3 = b.ip3, a.ca <= b.ca
  PROVE  /\ B!Glia(a, in) \in [ip3 : Percent, ca : Percent]
         /\ B!Glia(b, in) \in [ip3 : Percent, ca : Percent]
         /\ B!Glia(a, in).ip3 = B!Glia(b, in).ip3
         /\ B!Glia(a, in).ca <= B!Glia(b, in).ca
<1>1. PICK c \in Nat, d \in Nat : c = a.ca /\ d = b.ca /\ c <= d
  BY DEF Percent
<1>2. PICK p \in Percent : p = B!Unit(a.ip3 + in \div 10)
  <2>1. a.ip3 + in \div 10 \in Int
    BY DEF Percent
  <2> QED
    BY <2>1, UnitLevels
<1>3. PICK f \in Nat : f = IF p > 25 THEN (p - 25) \div 5 ELSE 0
  BY DEF Percent
<1>4. PICK h1 \in Int : h1 = f - c \div 10
  OBVIOUS
<1>5. PICK h2 \in Int : h2 = f - d \div 10
  OBVIOUS
<1>6. PICK k \in Nat : d \div 10 - c \div 10 = k /\ 10 * k <= (d - c) + 9
                        /\ k <= d - c
  <2>1. d \div 10 - c \div 10 \in Nat
    BY <1>1
  <2>2. 10 * (d \div 10 - c \div 10) <= (d - c) + 9
    BY <1>1
  <2>3. d \div 10 - c \div 10 <= d - c
    BY <1>1
  <2> QED
    BY <2>1, <2>2, <2>3
<1>7. h1 = h2 + k
  BY <1>4, <1>5, <1>6
<1>8. Dt \in 0 .. 100
  BY BioSizes
<1>9. PICK x1 \in Int : x1 = h1 * Dt
  BY <1>8
<1>10. PICK x2 \in Int : x2 = h2 * Dt
  BY <1>8
<1>11. PICK y \in Nat : y = k * Dt /\ y <= 100 * k
  <2>1. k * Dt \in Nat
    BY <1>8
  <2>2. k * Dt <= 100 * k
    BY <1>8
  <2> QED
    BY <2>1, <2>2
<1>12. x1 = x2 + y
  <2>1. (h2 + k) * Dt = h2 * Dt + k * Dt
    BY <1>8
  <2> QED
    BY <1>7, <1>9, <1>10, <1>11, <2>1
<1>13. x1 \div 100 <= x2 \div 100 + k
  BY <1>11, <1>12
<1>14. c + x1 \div 100 <= d + x2 \div 100
  BY <1>1, <1>6, <1>13
<1>15. B!Glia(a, in) = [ip3 |-> p, ca |-> B!Unit(c + x1 \div 100)]
  BY <1>1, <1>2, <1>3, <1>4, <1>9 DEF B!Glia, B!Times, B!ONE
<1>16. B!Glia(b, in) = [ip3 |-> p, ca |-> B!Unit(d + x2 \div 100)]
  BY <1>1, <1>2, <1>3, <1>5, <1>10 DEF B!Glia, B!Times, B!ONE
<1>17. PICK i \in Int, j \in Int : i = c + x1 \div 100 /\ j = d + x2 \div 100
  OBVIOUS
<1>18. B!Unit(i) \in Percent /\ B!Unit(j) \in Percent /\ B!Unit(i) <= B!Unit(j)
  BY <1>14, <1>17, UnitLevels
<1> QED
  BY <1>15, <1>16, <1>17, <1>18

\* Astrocytes charge together, and waves only come to others than the first.
LEMMA AstrocytesKeep ==
  ASSUME BioInv, NEW slow \in {0, 100}, B!Astrocytes(slow)
  PROVE  AstroInv'
<1> DEFINE lit == [c \in B!Cells |-> B!Glia(astro[c], rate[c] + slow \div 20)]
           from(c) == {d \in B!Upstream(c) : lit[d].ca > 10}
<1>1. astro' = [c \in B!Cells |->
        [lit[c] EXCEPT !.ca = B!Unit(@ + 5 * B!Cardinality(from(c)))]]
  BY DEF B!Astrocytes
<1>2. PICK in \in Nat : in = rate[0] + slow \div 20
  <2>1. PICK r \in Percent : r = rate[0]
    BY NeuronsRead DEF BioInv, RateInv, AstroInv
  <2>2. slow \div 20 \in Nat
    OBVIOUS
  <2> QED
    BY <2>1, <2>2 DEF Percent
<1>3. \A c \in B!Cells : rate[c] + slow \div 20 = in
  BY <1>2, NeuronsRead DEF BioInv, RateInv, AstroInv
<1>4. ASSUME NEW c \in B!Cells
      PROVE  /\ lit[c] \in [ip3 : Percent, ca : Percent]
             /\ lit[0] \in [ip3 : Percent, ca : Percent]
             /\ lit[c].ip3 = lit[0].ip3 /\ lit[0].ca <= lit[c].ca
  <2>1. lit[c] = B!Glia(astro[c], in) /\ lit[0] = B!Glia(astro[0], in)
    BY <1>3, NeuronsRead
  <2>2. PICK a \in [ip3 : Percent, ca : Percent], b \in [ip3 : Percent, ca : Percent] :
          a = astro[0] /\ b = astro[c] /\ a.ip3 = b.ip3 /\ a.ca <= b.ca
    <3>1. /\ astro[0] \in [ip3 : Percent, ca : Percent]
          /\ astro[c] \in [ip3 : Percent, ca : Percent]
          /\ astro[0].ip3 = astro[c].ip3 /\ astro[c].ca >= astro[0].ca
      BY NeuronsRead DEF BioInv, RateInv, AstroInv
    <3>2. astro[0].ca \in Int /\ astro[c].ca \in Int
      BY <3>1 DEF Percent
    <3> QED
      BY <3>1, <3>2
  <2> HIDE DEF lit
  <2> QED
    BY <2>1, <2>2, GliaOrder
<1>5. \A c \in B!Cells : B!Cardinality(from(c)) \in Nat
  <2> TAKE c \in B!Cells
  <2>1. IsFiniteSet(B!Cells)
    <3>1. PICK q \in Nat : q = Cols * Cols
      BY BioSizes
    <3>2. B!Cells = 0 .. q - 1 /\ q - 1 \in Int /\ 0 \in Int
      BY <3>1 DEF B!Cells
    <3>3. IsFiniteSet(0 .. q - 1)
      BY <3>2, FS_Interval
    <3> QED
      BY <3>2, <3>3
  <2>2. from(c) \subseteq B!Cells
    BY DEF B!Upstream
  <2> HIDE DEF from
  <2>3. IsFiniteSet(from(c))
    BY <2>1, <2>2, FS_Subset
  <2>4. Cardinality(from(c)) \in Nat
    BY <2>3, FS_CardinalityType
  <2>5. B!Cardinality(from(c)) = Cardinality(from(c))
    BY DEF B!Cardinality, Cardinality
  <2> QED
    BY <2>4, <2>5
<1>6. B!Cardinality(from(0)) = 0
  <2>1. B!Upstream(0) = {}
    <3> SUFFICES ASSUME NEW d \in B!Cells \ {0},
                        (0 \div Cols) - (d \div Cols) \in 0 .. 2,
                        (0 % Cols) - (d % Cols) \in 0 .. 2
                 PROVE  FALSE
      BY DEF B!Upstream
    <3>1. d \in Nat /\ d # 0 /\ Cols \in Nat \ {0}
      BY BioSizes, NeuronsRead
    <3>2. 0 \div Cols = 0 /\ 0 % Cols = 0
      BY <3>1
    <3>3. PICK p \in Int, o \in 0 .. Cols - 1 : d = Cols * p + o /\ d % Cols = o /\ d \div Cols = p
      BY <3>1
    <3>4. p <= 0 /\ o <= 0
      BY <3>2, <3>3
    <3>5. d \div Cols \in Nat
      BY <3>1
    <3> QED
      BY <3>1, <3>3, <3>4, <3>5
  <2>2. from(0) = {}
    BY <2>1
  <2>3. Cardinality({}) = 0
    BY FS_EmptySet
  <2>4. B!Cardinality({}) = Cardinality({})
    BY DEF B!Cardinality, Cardinality
  <2> HIDE DEF from
  <2> QED
    BY <2>2, <2>3, <2>4
<1>7. ASSUME NEW c \in B!Cells
      PROVE  /\ astro'[c] \in [ip3 : Percent, ca : Percent]
             /\ astro'[c].ip3 = lit[c].ip3
             /\ astro'[c].ca = B!Unit(lit[c].ca + 5 * B!Cardinality(from(c)))
             /\ astro'[c].ca >= lit[c].ca
  <2>1. PICK l \in [ip3 : Percent, ca : Percent] : l = lit[c]
    BY <1>4
  <2>2. PICK n \in Nat : n = B!Cardinality(from(c))
    BY <1>5
  <2>3. astro'[c] = [l EXCEPT !.ca = B!Unit(@ + 5 * n)]
    BY <1>1, <2>1, <2>2
  <2> HIDE DEF lit, from
  <2>4. l.ca \in 0 .. 100
    BY DEF Percent
  <2>5. PICK i \in Int : i = l.ca + 5 * n /\ l.ca <= i
    BY <2>4
  <2>6. B!Unit(i) \in Percent /\ l.ca <= B!Unit(i)
    BY <2>4, <2>5, UnitLevels DEF Percent
  <2>7. astro'[c] = [l EXCEPT !.ca = B!Unit(i)]
    BY <2>3, <2>5
  <2>8. /\ astro'[c] \in [ip3 : Percent, ca : Percent] /\ astro'[c].ip3 = l.ip3
        /\ astro'[c].ca = B!Unit(i)
    BY <2>6, <2>7
  <2>9. B!Unit(i) \in Int
    BY <2>6 DEF Percent
  <2> QED
    BY <2>1, <2>2, <2>4, <2>5, <2>6, <2>8, <2>9
<1>8. 0 \in B!Cells
  BY NeuronsRead
<1>9. astro'[0].ca = lit[0].ca
  <2>1. lit[0].ca \in Percent
    BY <1>4, <1>8
  <2>2. astro'[0].ca = B!Unit(lit[0].ca + 5 * B!Cardinality(from(0)))
    BY <1>7, <1>8
  <2> HIDE DEF lit, from
  <2>3. lit[0].ca + 5 * B!Cardinality(from(0)) = lit[0].ca
    BY <1>6, <2>1 DEF Percent
  <2> QED
    BY <2>1, <2>2, <2>3, UnitLevels
<1>10. astro' = [c \in B!Cells |-> astro'[c]]
  BY <1>1
<1>11. ASSUME NEW c \in B!Cells
       PROVE  astro'[c].ip3 = astro'[0].ip3 /\ astro'[c].ca >= astro'[0].ca
  <2>1. astro'[c].ip3 = lit[c].ip3 /\ astro'[0].ip3 = lit[0].ip3
    BY <1>7, <1>8
  <2>2. lit[c].ip3 = lit[0].ip3 /\ lit[0].ca <= lit[c].ca
    BY <1>4
  <2>3. lit[c].ca \in Int /\ lit[0].ca \in Int /\ astro'[c].ca \in Int
    <3>1. lit[c].ca \in Percent /\ lit[0].ca \in Percent /\ astro'[c].ca \in Percent
      <4>1. /\ lit[c] \in [ip3 : Percent, ca : Percent]
            /\ lit[0] \in [ip3 : Percent, ca : Percent]
            /\ astro'[c] \in [ip3 : Percent, ca : Percent]
        BY <1>4, <1>7
      <4> HIDE DEF lit, from
      <4> QED
        BY <4>1
    <3>2. \A l \in Percent : l \in Int
      BY DEF Percent
    <3> QED
      BY <3>1, <3>2
  <2>4. astro'[c].ca >= lit[c].ca
    BY <1>7
  <2> HIDE DEF lit, from
  <2> QED
    BY <1>9, <2>1, <2>2, <2>3, <2>4
<1> HIDE DEF lit, from
<1> QED
  BY <1>7, <1>10, <1>11 DEF AstroInv

\* What a Purkinje cell keeps of its weight: without a climbing fibre it never
\* loses, and with one it never gains more than the others.
LEMMA CellOrder ==
  ASSUME NEW w \in Percent, NEW e \in Nat
  PROVE  /\ B!Trained(w, 0, e) \in Percent /\ B!Trained(w, e, e) \in Percent
         /\ w <= B!Trained(w, 0, e)
         /\ B!Trained(w, e, e) <= B!Trained(w, 0, e)
<1>1. PICK k \in Nat : k = B!Times(B!Times(20, e), e)
  <2>1. PICK m \in Nat : m = B!Times(20, e)
    BY TimesNat
  <2> QED
    BY <2>1, TimesNat
<1>2. w \in Int /\ w <= w
  BY DEF Percent
<1>3. B!Unit(w - k) \in Percent /\ B!Unit(w - k) <= w
  BY <1>2, UnitLevels
<1>4. e < 10 => (100 - e) \div 10 \in Nat
  OBVIOUS
<1>5. e < 10 => /\ B!Unit(w + (100 - e) \div 10) \in Percent
                /\ w <= B!Unit(w + (100 - e) \div 10)
  BY <1>2, <1>4, UnitLevels
<1>6. B!Trained(w, 0, e) = IF e > 0 /\ e < 10 THEN B!Unit(w + (100 - e) \div 10) ELSE w
  BY DEF B!Trained, B!ONE
<1>7. B!Trained(w, e, e) = IF e > 30 THEN B!Unit(w - k) ELSE B!Trained(w, 0, e)
  BY <1>1, <1>6 DEF B!Trained, B!ONE
<1>8. \A i \in Percent : i \in Int
  BY DEF Percent
<1>9. CASE e > 0 /\ e < 10
  BY <1>5, <1>6, <1>7, <1>8, <1>9
<1>10. CASE ~(e > 0 /\ e < 10)
  BY <1>2, <1>3, <1>6, <1>7, <1>8, <1>10
<1> QED
  BY <1>9, <1>10

\* More weight stays more weight without a climbing fibre.
LEMMA TrainedOrder ==
  ASSUME NEW w \in Percent, NEW x1 \in Percent, NEW e \in Nat, w <= x1
  PROVE  B!Trained(w, 0, e) <= B!Trained(x1, 0, e)
<1>1. e < 10 => (100 - e) \div 10 \in Nat
  OBVIOUS
<1>2. w \in Int /\ x1 \in Int
  BY DEF Percent
<1>3. e < 10 => B!Unit(w + (100 - e) \div 10) <= B!Unit(x1 + (100 - e) \div 10)
  <2> SUFFICES ASSUME e < 10
               PROVE  B!Unit(w + (100 - e) \div 10) <= B!Unit(x1 + (100 - e) \div 10)
    OBVIOUS
  <2>1. PICK i \in Int, j \in Int :
          i = w + (100 - e) \div 10 /\ j = x1 + (100 - e) \div 10 /\ i <= j
    BY <1>1, <1>2
  <2> QED
    BY <2>1, UnitLevels
<1> QED
  BY <1>2, <1>3 DEF B!Trained, B!ONE

\* The timing rule weakens, for the cerebellum runs no more often than the
\* network steps.
LEMMA TimedLoses ==
  ASSUME NEW w \in Percent, NEW e \in Nat, NEW now \in Nat, runs \in Nat, runs + 1 <= now
  PROVE  B!Timed(w, e, now) \in Percent /\ B!Timed(w, e, now) <= w
<1>1. PICK a \in Nat : a = 100 * (now - (runs + 1))
  OBVIOUS
<1>2. PICK late \in Nat : late = a \div Precision
  BY BioSizes
<1>3. PICK c \in Nat : c = e + late \div 10
  OBVIOUS
<1>4. PICK k \in Nat : k = B!Times(20, c) \div 10
  <2>1. PICK m \in Nat : m = B!Times(20, c)
    BY TimesNat
  <2> QED
    BY <2>1
<1>5. B!Timed(w, e, now) = B!Unit(w - k)
  BY <1>1, <1>2, <1>3, <1>4 DEF B!Timed, B!ONE
<1>6. w \in Int /\ w - k \in Int /\ w - k <= w
  BY DEF Percent
<1> QED
  BY <1>5, <1>6, UnitLevels

\* All Purkinje cells but the first only ever strengthen.
LEMMA CerebellumKeeps ==
  ASSUME BioInv, NEW e \in Nat, B!Cerebellum(tick + 1, e)
  PROVE  WeightInv' /\ runs' = runs + 1
<1> DEFINE w(p) == B!Trained(weight[p], B!Climbing(p, e), e)
           n(p) == IF e > 20 /\ B!Climbing(p, e) > 0
                   THEN B!Timed(w(p), B!Climbing(p, e), tick + 1) ELSE w(p)
<1>1. weight' = [p \in DOMAIN weight |-> n(p)] /\ runs' = runs + 1
  BY DEF B!Cerebellum
<1>2. /\ weight \in [0 .. Purkinje - 1 -> Percent] /\ DOMAIN weight = 0 .. Purkinje - 1
      /\ 0 \in 0 .. Purkinje - 1 /\ tick + 1 \in Nat /\ runs \in Nat /\ runs + 1 <= tick + 1
  BY BioSizes DEF BioInv, RateInv, WeightInv
<1>3. \A p \in 0 .. Purkinje - 1 : p > 0 => B!Climbing(p, e) = 0
  BY DEF B!Climbing
<1>4. B!Climbing(0, e) = e
  BY DEF B!Climbing
<1>5. \A p \in 0 .. Purkinje - 1 : p > 0 => n(p) = B!Trained(weight[p], 0, e)
  BY <1>3
<1>6. /\ n(0) \in Percent /\ n(0) <= B!Trained(weight[0], 0, e)
      /\ B!Trained(weight[0], 0, e) \in Percent
  <2>1. PICK u \in Percent : u = weight[0]
    BY <1>2
  <2>2. /\ B!Trained(u, 0, e) \in Percent /\ B!Trained(u, e, e) \in Percent
        /\ B!Trained(u, e, e) <= B!Trained(u, 0, e)
    BY CellOrder
  <2>3. PICK x1 \in Percent, x2 \in Percent : x1 = B!Trained(u, e, e) /\ x2 = B!Trained(u, 0, e)
                                          /\ x1 <= x2
    BY <2>2
  <2>4. B!Timed(x1, e, tick + 1) \in Percent /\ B!Timed(x1, e, tick + 1) <= x1
    BY <1>2, TimedLoses
  <2>5. n(0) = x1 \/ n(0) = B!Timed(x1, e, tick + 1)
    BY <1>4, <2>1, <2>3
  <2> HIDE DEF n
  <2>6. \A i \in Percent : i \in Int
    BY DEF Percent
  <2> QED
    BY <2>1, <2>3, <2>4, <2>5, <2>6
<1>7. ASSUME NEW p \in 0 .. Purkinje - 1, p > 0
      PROVE  n(p) \in Percent /\ n(p) >= 30 /\ n(p) >= n(0)
  <2>1. PICK u \in Percent, x1 \in Percent : u = weight[0] /\ x1 = weight[p] /\ u <= x1 /\ x1 >= 30
    <3>1. weight[0] \in Percent /\ weight[p] \in Percent /\ weight[p] >= 30 /\ weight[p] >= weight[0]
      BY <1>2, <1>7 DEF BioInv, RateInv, WeightInv
    <3>2. \A i \in Percent : i \in Int
      BY DEF Percent
    <3> QED
      BY <3>1, <3>2
  <2>2. B!Trained(x1, 0, e) \in Percent /\ x1 <= B!Trained(x1, 0, e)
    BY CellOrder
  <2>3. B!Trained(u, 0, e) <= B!Trained(x1, 0, e)
    BY <2>1, TrainedOrder
  <2>4. n(p) = B!Trained(x1, 0, e)
    BY <1>5, <1>7, <2>1
  <2>5. n(0) \in Percent /\ n(0) <= B!Trained(u, 0, e) /\ B!Trained(u, 0, e) \in Percent
    BY <1>6, <2>1
  <2>6. \A i \in Percent : i \in Int
    BY DEF Percent
  <2> HIDE DEF n
  <2> QED
    BY <2>1, <2>2, <2>3, <2>4, <2>5, <2>6
<1>8. \A p \in 0 .. Purkinje - 1 : n(p) \in Percent
  <2> HIDE DEF n
  <2>1. \A p \in 0 .. Purkinje - 1 : p = 0 \/ p > 0
    OBVIOUS
  <2> QED
    BY <1>6, <1>7, <2>1
<1>9. \A p \in 0 .. Purkinje - 1 : weight'[p] = n(p)
  BY <1>1, <1>2
<1> HIDE DEF n
<1>10. weight' \in [0 .. Purkinje - 1 -> Percent]
  BY <1>1, <1>2, <1>8
<1> QED
  BY <1>1, <1>2, <1>7, <1>9, <1>10 DEF WeightInv

\* Statistics move all rates alike.
LEMMA StatisticsKeep ==
  ASSUME BioInv, B!Statistics
  PROVE  RateInv'
<1>1. rate' = [i \in DOMAIN rate |-> IF rate[i] + Rise > 100 THEN 100 ELSE rate[i] + Rise]
  BY DEF B!Statistics, B!ONE
<1>2. rate \in [B!Neurons -> Percent] /\ \A i, j \in B!Neurons : rate[i] = rate[j]
  BY DEF BioInv, RateInv
<1>3. PICK r \in Percent : r = rate[0]
  BY <1>2, NeuronsRead
<1>4. \A i \in B!Neurons : rate[i] = r
  BY <1>2, <1>3, NeuronsRead
<1>5. PICK s : s = IF r + Rise > 100 THEN 100 ELSE r + Rise
  OBVIOUS
<1>6. s \in Percent
  BY <1>5, BioSizes DEF Percent
<1>7. DOMAIN rate = B!Neurons
  BY <1>2
<1>8. rate' = [i \in B!Neurons |-> s]
  BY <1>1, <1>4, <1>5, <1>7
<1> QED
  BY <1>6, <1>8 DEF RateInv

\* Every network step keeps the modules from telling anything apart.
LEMMA BioKeeps == BioInv /\ B!BioNext => BioInv'
<1> SUFFICES ASSUME BioInv, B!BioNext PROVE BioInv'
  OBVIOUS
<1>1. tick \in Nat /\ tick + 1 \in Nat /\ runs \in Nat /\ runs <= tick
  BY DEF BioInv
<1>2. tick' = tick + 1
  BY DEF B!BioNext, B!BioStep, B!ParallelStep
<1>3. B!Statistics \/ rate' = rate
  BY DEF B!BioNext, B!BioStep, B!ParallelStep
<1>4. RateInv'
  <2>1. rate' = rate => RateInv'
    BY DEF BioInv, RateInv
  <2> QED
    BY <1>3, <2>1, StatisticsKeep
<1>5. \/ UNCHANGED <<relay, calcium, winner, selected>>
      \/ \E a \in Attentions, e \in Errors : B!Thalamus(tick + 1, a, e)
  BY DEF B!BioNext, B!BioStep, B!ParallelStep
<1>6. RelayInv'
  <2>1. UNCHANGED <<relay, calcium, winner, selected>> => RelayInv'
    BY DEF BioInv, RelayInv
  <2> QED
    BY <1>1, <1>5, <2>1, BioSizes, ThalamusKeeps
<1>7. \/ UNCHANGED <<strio, best, action>>
      \/ \E d \in Dopamines, e \in Errors : B!Striatum(d, e)
  BY DEF B!BioNext, B!BioStep, B!ParallelStep
<1>8. StrioInv'
  <2>1. UNCHANGED <<strio, best, action>> => StrioInv'
    BY DEF BioInv, StrioInv
  <2> QED
    BY <1>7, <2>1, BioSizes, StriatumKeeps
<1>9. \/ UNCHANGED astro
      \/ \E slow \in {0, 100} : B!Astrocytes(slow)
  BY DEF B!BioNext, B!BioStep, B!ParallelStep, B!ONE
<1>10. AstroInv'
  <2>1. UNCHANGED astro => AstroInv'
    BY DEF BioInv, AstroInv
  <2> QED
    BY <1>9, <2>1, AstrocytesKeep
<1>11. \/ UNCHANGED <<weight, runs>>
       \/ \E e \in Errors : B!Cerebellum(tick + 1, e)
  BY DEF B!BioNext, B!BioStep, B!ParallelStep
<1>12. WeightInv' /\ (runs' = runs \/ runs' = runs + 1)
  <2>1. UNCHANGED <<weight, runs>> => WeightInv'
    BY DEF BioInv, WeightInv
  <2> QED
    BY <1>11, <2>1, BioSizes, CerebellumKeeps
<1>13. runs' \in Nat /\ tick' \in Nat /\ runs' <= tick'
  BY <1>1, <1>2, <1>12
<1> QED
  BY <1>4, <1>6, <1>8, <1>10, <1>12, <1>13 DEF BioInv

\* The strengthening says what the hormones do.
LEMMA HormonesSaturate == HormoneInv => H!HormonesAreSaturated
<1> SUFFICES ASSUME HormoneInv PROVE H!HormonesAreSaturated
  OBVIOUS
<1>1. /\ mode \in {"Balanced", "Stable"}
      /\ samples > 0 => mode = "Stable" /\ h.ht >= 80
      /\ ~fresh => h.da >= 89 /\ h.ach >= 89
  BY DEF HormoneInv
<1>2. h.na <= 100 + H!Surge * CalPeriod
  <2>1. t % CalPeriod \in 0 .. CalPeriod - 1 /\ CalPeriod \in Nat \ {0}
    BY HormoneSizes DEF HormoneInv
  <2>2. h.na \in Nat /\ h.na <= Room(t % CalPeriod)
    BY DEF HormoneInv, Hormonal
  <2> QED
    BY <2>1, <2>2, RoomGrows, RoomEnds
<1> QED
  BY <1>1, <1>2 DEF H!HormonesAreSaturated

\* The strengthening says that the modules tell nothing apart.
LEMMA ModulesAreFlat == BioInv => B!NothingIsToldApart
<1> SUFFICES ASSUME BioInv PROVE B!NothingIsToldApart
  OBVIOUS
<1>1. selected = 0 /\ winner = 0 /\ best = 0 /\ action = 0
  BY DEF BioInv, RelayInv, StrioInv
<1>2. /\ DOMAIN relay = 0 .. Relays - 1 /\ DOMAIN strio = 0 .. Striosomes - 1
      /\ DOMAIN weight = 0 .. Purkinje - 1
  BY DEF BioInv, RelayInv, StrioInv, WeightInv
<1>3. ASSUME NEW r \in 0 .. Relays - 1
      PROVE  B!Output(relay[r]) <= B!Output(relay[0])
  <2>1. 0 \in 0 .. Relays - 1
    BY BioSizes
  <2>2. relay[r].mp \in Percent /\ relay[0].mp \in Percent /\ relay[r].mp <= relay[0].mp
    BY <2>1 DEF BioInv, RelayInv, Relay
  <2> QED
    BY <2>2 DEF B!Output, Percent
<1>4. \A i \in 0 .. Striosomes - 1 : strio[i] = strio[0]
  BY DEF BioInv, StrioInv
<1>5. \A c \in B!Cells : astro[c].ip3 = astro[0].ip3 /\ astro[c].ca >= astro[0].ca
  BY DEF BioInv, AstroInv
<1>6. \A p \in 0 .. Purkinje - 1 : p > 0 => weight[p] >= 30 /\ weight[p] >= weight[0]
  BY DEF BioInv, WeightInv
<1> QED
  BY <1>1, <1>2, <1>3, <1>4, <1>5, <1>6 DEF B!NothingIsToldApart

\* For all periods, rates, errors and sizes: the hormones are driven to what
\* the steps set, and the bio modules, fed one number, tell nothing apart.
THEOREM SignalsStayFlat == MindSpec => []SignalsAreFlat
<1> DEFINE I == HormoneInv /\ BioInv
<1>1. MindInit => I
  BY HormonesStart, BioStarts DEF MindInit
<1>2. I /\ [MindNext]_mindVars => I'
  <2>1. HormoneInv /\ UNCHANGED hormones => HormoneInv'
    BY DEF hormones, HormoneInv, Hormonal
  <2>2. BioInv /\ UNCHANGED bio => BioInv'
    BY DEF bio, BioInv, RateInv, RelayInv, StrioInv, AstroInv, WeightInv
  <2>3. [MindNext]_mindVars => H!HormoneStep \/ UNCHANGED hormones
    BY DEF MindNext, Still, mindVars
  <2>4. [MindNext]_mindVars => B!BioNext \/ UNCHANGED bio
    BY DEF MindNext, Still, mindVars
  <2> QED
    BY <2>1, <2>2, <2>3, <2>4, HormonesKeep, BioKeeps
<1>3. I => SignalsAreFlat
  BY HormonesSaturate, ModulesAreFlat DEF SignalsAreFlat
<1> HIDE DEF I
<1> QED
  BY <1>1, <1>2, <1>3, PTL DEF MindSpec

(* Foresight.                                                             *)

\* The assumptions on foresight, one by one.
LEMMA ForesightSizes ==
  /\ Layers \in Seq(Nat) /\ Len(Layers) \in Nat \ {0} /\ Layers[1] \in Nat
  /\ Looks \in Nat \ {0} /\ Looks <= Layers[1]
  /\ Actions \in Nat \ {0} /\ Hypotheses \in Nat \ {0} /\ Banks \in Nat \ {0}
  /\ Prototypes \in Nat \ {0} /\ HashSpan \in Nat \ {0}
  /\ \A p \in Potentials : p \in Int
  /\ 0 \in Potentials
<1>1. Layers \in Seq(Nat) /\ Layers # <<>>
  BY ForesightAssumption
<1>2. Len(Layers) \in Nat \ {0}
  BY <1>1
<1>3. Layers[1] \in Nat
  BY <1>1, <1>2
<1> QED
  BY <1>1, <1>2, <1>3, ForesightAssumption

\* Every layer ends where the first one does, or later.
LEMMA LayersEnd ==
  ASSUME NEW k \in 1 .. Len(Layers)
  PROVE  F!EndOf(k) \in Int /\ F!EndOf(k) >= Layers[1]
<1> DEFINE f == [j \in 0 .. k - 1 |-> Layers[j + 1]]
<1>1. k \in Nat /\ k > 0
  BY ForesightSizes
<1>2. \A i \in 0 .. k - 1 : f[i] \in Int /\ f[i] >= 0
  <2> TAKE i \in 0 .. k - 1
  <2>1. i + 1 \in 1 .. Len(Layers)
    BY <1>1, ForesightSizes
  <2>2. Layers[i + 1] \in Nat
    BY <2>1, ForesightSizes
  <2> QED
    BY <2>2
<1>3. f[0] = Layers[1]
  BY <1>1
<1>4. F!EndOf(k) = SumOf(f, k)
  BY DEF F!EndOf, F!Sum, SumOf
<1> HIDE DEF f
<1>5. SumOf(f, k) \in Int /\ SumOf(f, k) >= f[0]
  BY <1>1, <1>2, SumFacts
<1> QED
  BY <1>3, <1>4, <1>5

\* What the networks look at is in the first layer.
LEMMA LookedAtFirst ==
  /\ \A i \in F!Looked : F!LayerOf(i) = 0 /\ i \in F!Neuron
  /\ 0 \in F!Looked
<1>1. F!Looked = 0 .. Looks - 1 /\ Looks \in Nat \ {0}
  BY ForesightSizes DEF F!Looked
<1>2. F!Total \in Int /\ F!Total >= Looks
  <2>1. Len(Layers) \in 1 .. Len(Layers)
    BY ForesightSizes
  <2>2. F!EndOf(Len(Layers)) \in Int /\ F!EndOf(Len(Layers)) >= Layers[1]
    BY <2>1, LayersEnd
  <2> QED
    BY <2>2, ForesightSizes DEF F!Total
<1>3. ASSUME NEW i \in F!Looked PROVE F!LayerOf(i) = 0
  <2>1. i \in Int /\ i < Looks
    BY <1>1
  <2>2. \A k \in 1 .. Len(Layers) : ~(F!EndOf(k) <= i)
    BY <2>1, LayersEnd, ForesightSizes
  <2>3. {k \in 1 .. Len(Layers) : F!EndOf(k) <= i} = {}
    BY <2>2
  <2>4. Cardinality({}) = 0
    BY FS_EmptySet
  <2>5. F!Cardinality({}) = Cardinality({})
    BY DEF F!Cardinality, Cardinality
  <2> QED
    BY <2>3, <2>4, <2>5 DEF F!LayerOf
<1>4. \A i \in F!Looked : i \in F!Neuron
  BY <1>1, <1>2 DEF F!Neuron
<1> QED
  BY <1>1, <1>3, <1>4

\* What n merges make of a confidence, as Confidence computes it.
Surety(n) ==
  LET sure[k \in 0 .. n] ==
        IF k = 0 THEN 0 ELSE sure[k - 1] + (1000 - sure[k - 1]) \div 10
  IN  sure[n]

\* It is a number.
LEMMA SuretyIsInt ==
  ASSUME NEW n \in Nat
  PROVE  Surety(n) \in Int
<1> DEFINE F1(u) == [k \in 0 .. n |-> IF k = 0 THEN 0
                                      ELSE u[k - 1] + (1000 - u[k - 1]) \div 10]
           g == [i \in Int |-> i + (1000 - i) \div 10]
           G == [k \in 1 .. n |-> g]
<1>1. \A k \in 1 .. n : k - 1 \in 0 .. n /\ k \in 0 .. n /\ k # 0
  OBVIOUS
<1>2. g \in [Int -> Int] /\ \A i \in Int : g[i] = i + (1000 - i) \div 10
  OBVIOUS
<1>10. Surety(n) = (CHOOSE u : u = F1(u))[n]
  BY DEF Surety
<1> HIDE DEF g
<1>11. G \in [1 .. n -> [Int -> Int]] /\ \A k \in 1 .. n : G[k] = g
  BY <1>2
<1> HIDE DEF G
<1>3. PICK w \in [0 .. n -> Int] :
        w[0] = 0 /\ \A k \in 1 .. n : w[k] = G[k][w[k - 1]]
  <2>1. PICK a \in Int : a = 0
    OBVIOUS
  <2>2. \E w \in [0 .. n -> Int] :
          w[0] = a /\ \A k \in 1 .. n : w[k] = G[k][w[k - 1]]
    <3> HIDE DEF F1
    <3> QED
      BY <1>11, Iterates
  <2> QED
    BY <2>1, <2>2
<1>4. w = F1(w)
  <2>1. \A k \in 0 .. n : w[k] = F1(w)[k]
    <3> TAKE k \in 0 .. n
    <3>1. CASE k = 0
      BY <1>3, <3>1
    <3>2. CASE k \in 1 .. n
      <4>1. PICK i \in Int : i = w[k - 1]
        BY <1>1, <1>3, <3>2
      <4>2. w[k] = g[i]
        BY <1>3, <1>11, <3>2, <4>1
      <4>3. w[k] = i + (1000 - i) \div 10
        BY <1>2, <4>2
      <4>4. F1(w)[k] = i + (1000 - i) \div 10
        BY <1>1, <3>2, <4>1
      <4> QED
        BY <4>3, <4>4
    <3> QED
      BY <3>1, <3>2
  <2> QED
    BY <1>3, <2>1
<1> DEFINE u == CHOOSE f : f = F1(f)
<1>5. u = F1(u)
  <2> HIDE DEF F1
  <2> QED
    BY <1>4
<1>6. Surety(n) = u[n]
  BY <1>10
<1> HIDE DEF u
<1>7. u[0] = 0 /\ \A k \in 1 .. n : u[k] = u[k - 1] + (1000 - u[k - 1]) \div 10
  BY <1>1, <1>5
<1>8. n \in {k \in Nat : k <= n => u[k] \in Int}
  <2> DEFINE Q == {k \in Nat : k <= n => u[k] \in Int}
  <2>1. 0 \in Q
    BY <1>7
  <2>2. ASSUME NEW k \in Q PROVE k + 1 \in Q
    <3> SUFFICES ASSUME k + 1 <= n PROVE u[k + 1] \in Int
      OBVIOUS
    <3>1. k \in Nat /\ u[k] \in Int /\ k + 1 \in 1 .. n /\ (k + 1) - 1 = k
      OBVIOUS
    <3>2. u[k + 1] = u[k] + (1000 - u[k]) \div 10
      BY <1>7, <3>1
    <3> QED
      BY <3>1, <3>2
  <2>3. Q \in SUBSET Nat
    OBVIOUS
  <2> HIDE DEF Q
  <2>4. \A k \in Nat : k \in Q
    BY <2>1, <2>2, <2>3, Counting
  <2>5. n \in Q
    BY <2>4
  <2> QED
    BY <2>5 DEF Q
<1> QED
  BY <1>6, <1>8

\* A confidence is a number.
LEMMA ConfidenceIsInt ==
  ASSUME NEW p, p.count \in Nat
  PROVE  F!Confidence(p) \in Int
<1>1. F!Confidence(p) = Surety(p.count)
  BY DEF F!Confidence, Surety
<1>2. \A n \in Nat : Surety(n) \in Int
  BY SuretyIsInt
<1> QED
  BY <1>1, <1>2

\* A prototype that predicts no change, and a list of at most one.
NoChange == [k \in F!Looked |-> 0]
Proto == [delta : {NoChange}, hash : 0 .. HashSpan, count : Nat \ {0}]
AtMostOne(ps) == ps = <<>> \/ \E p \in Proto : ps = <<p>>

\* Banks that hold such lists.
Banked(ps) ==
  /\ ps \in [0 .. Banks - 1 -> Seq(Proto)]
  /\ \A b \in 0 .. Banks - 1 : AtMostOne(ps[b])

\* The strengthening: every bank holds such a list.
ForesightInv ==
  /\ v \in [F!Neuron -> Potentials]
  /\ predictions = NoChange /\ motors = NoChange
  /\ Banked(protos)
  /\ mean_error = 0
  /\ hyps # <<>> => chosen = hyps[1]

\* Nothing is foreseen at the start.
LEMMA ForesightStarts == F!Init => ForesightInv
<1> SUFFICES ASSUME F!Init PROVE ForesightInv
  OBVIOUS
<1>1. /\ v = [i \in F!Neuron |-> 0]
      /\ predictions = [i \in F!Looked |-> 0] /\ motors = [i \in F!Looked |-> 0]
      /\ protos = [b \in 0 .. Banks - 1 |-> <<>>] /\ mean_error = 0
      /\ hyps = <<>>
  BY DEF F!Init
<1>2. v \in [F!Neuron -> Potentials]
  BY <1>1, ForesightSizes
<1>3. protos \in [0 .. Banks - 1 -> Seq(Proto)]
  BY <1>1
<1>4. \A b \in 0 .. Banks - 1 : protos[b] = <<>>
  BY <1>1
<1> QED
  BY <1>1, <1>2, <1>3, <1>4 DEF ForesightInv, Banked, NoChange, AtMostOne

\* The sum over what is looked at, of nothing.
LEMMA SumZero ==
  ASSUME NEW f, \A k \in F!Looked : f[k] = 0
  PROVE  F!Sum(f, Looks) = 0
<1>1. \A i \in 0 .. Looks - 1 : f[i] \in Int /\ f[i] = 0
  BY DEF F!Looked
<1>2. SumOf(f, Looks) = 0
  BY <1>1, ForesightSizes, SumFacts
<1> QED
  BY <1>2 DEF F!Sum, SumOf

\* A state hash, and the distance of two.
LEMMA HashBounds ==
  ASSUME NEW p \in Proto, NEW w \in [F!Neuron -> Potentials]
  PROVE  F!Hash(w) \in 0 .. HashSpan /\ F!HashDist(p, w) \in 0 .. HashSpan
<1>1. PICK i \in Int : i = w[0]
  BY LookedAtFirst, ForesightSizes
<1>2. PICK s \in Nat \ {0} : s = HashSpan + 1
  BY ForesightSizes
<1>3. (i \div 100) % s \in 0 .. s - 1
  OBVIOUS
<1>4. F!Hash(w) \in 0 .. HashSpan
  BY <1>1, <1>2, <1>3, ForesightSizes DEF F!Hash
<1>5. p.hash \in 0 .. HashSpan
  BY DEF Proto
<1> QED
  BY <1>4, <1>5, ForesightSizes DEF F!HashDist, F!AbsOf

\* The least of the numbers from 1 on.
LEMMA MinIsOne ==
  ASSUME NEW n \in Nat \ {0}
  PROVE  F!Min(1 .. n) = 1
<1>1. 1 \in 1 .. n /\ \A y \in 1 .. n : 1 <= y
  OBVIOUS
<1>2. \A x \in 1 .. n : (\A y \in 1 .. n : x <= y) => x = 1
  OBVIOUS
<1> QED
  BY <1>1, <1>2 DEF F!Min

\* With one prototype that predicts no change the prediction is no change.
LEMMA DeltaZero ==
  ASSUME NEW banks, Banked(banks), NEW w \in [F!Neuron -> Potentials],
         NEW a \in 0 .. Actions - 1
  PROVE  F!Delta(banks, w, a) = NoChange
<1>0. a % Banks \in 0 .. Banks - 1
  BY ForesightSizes
<1>1. CASE banks[a % Banks] = <<>>
  BY <1>1 DEF F!Delta, NoChange
<1>2. CASE \E p \in Proto : banks[a % Banks] = <<p>>
  <2>1. PICK p \in Proto : banks[a % Banks] = <<p>>
    BY <1>2
  <2>2. p.count \in Nat /\ p.delta = NoChange
    BY DEF Proto
  <2>3. PICK x \in Int : x = F!HashDist(p, w)
    BY HashBounds, ForesightSizes
  <2>4. PICK y \in Int : y = F!Confidence(p)
    BY <2>2, ConfidenceIsInt
  <2>5. ~(F!HashDist(p, w) * F!Confidence(p) < F!HashDist(p, w) * F!Confidence(p))
    <3>1. x * y \in Int
      OBVIOUS
    <3>2. PICK z \in Int : z = x * y
      BY <3>1
    <3>3. ~(z < z)
      OBVIOUS
    <3> QED
      BY <2>3, <2>4, <3>2, <3>3
  <2> DEFINE ps == banks[a % Banks]
             nearer(i, j) == F!HashDist(ps[i], w) * F!Confidence(ps[j])
                               < F!HashDist(ps[j], w) * F!Confidence(ps[i])
             nearest == {i \in DOMAIN ps : /\ \A j \in DOMAIN ps : ~nearer(j, i)
                                        /\ \A j \in 1 .. i - 1 : nearer(i, j)}
  <2>6. DOMAIN ps = 1 .. 1 /\ ps[1] = p /\ ps # <<>>
    BY <2>1
  <2>7. ~nearer(1, 1)
    BY <2>5, <2>6
  <2>8. nearest = 1 .. 1
    <3> HIDE DEF ps, nearer
    <3> QED
      BY <2>6, <2>7
  <2>9. F!Min(1 .. 1) = 1
    <3>1. PICK n \in Nat \ {0} : n = 1
      OBVIOUS
    <3> QED
      BY <3>1, MinIsOne
  <2>10. F!Delta(banks, w, a) = [k \in F!Looked |-> IF ps = <<>> THEN 0
                            ELSE (ps[F!Min(nearest)].delta[k]
                                    * F!Confidence(ps[F!Min(nearest)])) \div 1000]
    BY DEF F!Delta
  <2>11. F!Delta(banks, w, a) = [k \in F!Looked |-> (p.delta[k] * F!Confidence(p)) \div 1000]
    <3> HIDE DEF ps, nearest
    <3> QED
      BY <2>6, <2>8, <2>9, <2>10
  <2>12. \A k \in F!Looked : (p.delta[k] * F!Confidence(p)) \div 1000 = 0
    <3>1. \A k \in F!Looked : p.delta[k] = 0
      BY <2>2 DEF NoChange
    <3>2. (0 * y) \div 1000 = 0
      OBVIOUS
    <3> QED
      BY <3>1, <3>2, <2>4
  <2> QED
    BY <2>11, <2>12 DEF NoChange
<1> QED
  BY <1>0, <1>1, <1>2 DEF Banked, AtMostOne

\* So no action changes anything,
LEMMA ChangeZero ==
  ASSUME ForesightInv, NEW w \in [F!Neuron -> Potentials],
         NEW a \in 0 .. Actions - 1
  PROVE  F!Change(w, a) = 0
<1> DEFINE f == [k \in F!Looked |-> F!AbsOf(F!Delta(protos, w, a)[k])]
<1>1. F!Delta(protos, w, a) = NoChange
  BY DeltaZero DEF ForesightInv
<1>2. \A k \in F!Looked : f[k] = 0
  BY <1>1 DEF NoChange, F!AbsOf
<1>3. F!Change(w, a) = F!Sum(f, Looks)
  BY DEF F!Change
<1> HIDE DEF f
<1> QED
  BY <1>2, <1>3, SumZero

\* and the first hypothesis is as good as any.
LEMMA BestIsFirst ==
  ASSUME ForesightInv, NEW hs \in [1 .. Hypotheses -> 0 .. Actions - 1]
  PROVE  F!Best(v, hs) = 1
<1>1. v \in [F!Neuron -> Potentials] /\ DOMAIN hs = 1 .. Hypotheses
  BY DEF ForesightInv
<1>2. \A i \in DOMAIN hs : F!Change(v, hs[i]) = 0
  BY <1>1, ChangeZero
<1>3. {i \in DOMAIN hs : \A j \in DOMAIN hs : F!Change(v, hs[i]) <= F!Change(v, hs[j])}
        = 1 .. Hypotheses
  BY <1>1, <1>2
<1>4. F!Min(1 .. Hypotheses) = 1
  BY MinIsOne, ForesightSizes
<1> QED
  BY <1>3, <1>4 DEF F!Best

\* The mistake is what was seen less what was there, and that is nothing.
LEMMA MistakeZero ==
  ASSUME ForesightInv, NEW banks, Banked(banks)
  PROVE  F!MeanError(F!Mistake(banks, v, v)) = 0
<1>1. v \in [F!Neuron -> Potentials] /\ F!Delta(banks, v, 0) = NoChange
  <2>1. 0 \in 0 .. Actions - 1
    BY ForesightSizes
  <2>2. v \in [F!Neuron -> Potentials]
    BY DEF ForesightInv
  <2> QED
    BY <2>1, <2>2, DeltaZero
<1>2. \A k \in F!Looked : v[k] \in Int
  BY <1>1, LookedAtFirst, ForesightSizes
<1>3. \A k \in F!Looked : F!Mistake(banks, v, v)[k] = 0
  BY <1>1, <1>2 DEF F!Mistake, NoChange
<1> DEFINE f == [k \in F!Looked |-> F!AbsOf(F!Mistake(banks, v, v)[k])]
<1>4. \A k \in F!Looked : f[k] = 0
  BY <1>3 DEF F!AbsOf
<1>5. F!MeanError(F!Mistake(banks, v, v)) = F!Sum(f, Looks) \div Looks
  BY DEF F!MeanError
<1> HIDE DEF f
<1>6. F!Sum(f, Looks) = 0
  BY <1>4, SumZero
<1>7. 0 \div Looks = 0
  BY ForesightSizes
<1> QED
  BY <1>5, <1>6, <1>7

\* What is learned from no change is that nothing changes.
LEMMA LearnedOne ==
  ASSUME NEW ps, AtMostOne(ps), NEW w \in [F!Neuron -> Potentials]
  PROVE  \E p \in Proto : F!Learned(ps, w, NoChange) = <<p>>
<1> DEFINE near == F!Near(ps, w, NoChange)
           new == F!New(w, NoChange)
<1>1. F!Learned(ps, w, NoChange) =
        IF near # {} THEN [ps EXCEPT ![F!Nearest(ps, w, NoChange)] =
                             F!Merged(@, w, NoChange)]
        ELSE IF Len(ps) < Prototypes THEN Append(ps, new) ELSE ps
  BY DEF F!Learned
<1>2. F!Hash(w) \in 0 .. HashSpan
  <2>1. PICK p : p = [delta |-> NoChange, hash |-> 0, count |-> 1]
    OBVIOUS
  <2>2. p \in Proto
    BY <2>1, ForesightSizes DEF Proto
  <2> QED
    BY <2>2, HashBounds
<1>3. CASE ps = <<>>
  <2>1. near = {} /\ Len(ps) < Prototypes
    BY <1>3, ForesightSizes DEF F!Near
  <2>2. F!Learned(ps, w, NoChange) = <<new>>
    <3>1. F!Learned(ps, w, NoChange) = Append(<<>>, new)
      <4> HIDE DEF near, new
      <4> QED
        BY <1>1, <1>3, <2>1
    <3> QED
      BY <3>1
  <2>3. new \in Proto
    BY <1>2 DEF Proto, F!New
  <2> QED
    BY <2>2, <2>3
<1>4. CASE \E p \in Proto : ps = <<p>>
  <2>1. PICK p \in Proto : ps = <<p>>
    BY <1>4
  <2>2. p.delta = NoChange /\ p.count \in Nat \ {0}
    BY DEF Proto
  <2>3. DOMAIN ps = 1 .. 1 /\ ps[1] = p
    BY <2>1
  <2>4. F!Distance(p, NoChange) = 0
    <3> DEFINE f == [k \in F!Looked |-> (p.delta[k] - NoChange[k]) * (p.delta[k] - NoChange[k])]
    <3>1. \A k \in F!Looked : f[k] = 0
      BY <2>2 DEF NoChange
    <3>2. F!Distance(p, NoChange) = F!Sum(f, Looks) \div 100
      BY DEF F!Distance
    <3> HIDE DEF f
    <3> QED
      BY <3>1, <3>2, SumZero
  <2>5. (30 * F!HashDist(p, w)) \div HashSpan \in 0 .. 30
    <3>1. PICK x \in Nat : x = F!HashDist(p, w) /\ x <= HashSpan
      BY HashBounds, ForesightSizes
    <3>2. PICK s \in Nat \ {0} : s = HashSpan
      BY ForesightSizes
    <3>3. PICK q \in Int : q = (30 * x) \div s
      OBVIOUS
    <3>4. PICK m \in Int : m = s * q
      BY <3>2
    <3>5. m <= 30 * x /\ 30 * x < m + s
      BY <3>2, <3>3, <3>4
    <3>6. q >= 0
      <4> SUFFICES ASSUME q <= -1 PROVE FALSE
        OBVIOUS
      <4>1. PICK d \in Nat : q = -1 - d
        <5>1. -1 - q \in Nat /\ q = -1 - (-1 - q)
          OBVIOUS
        <5> QED
          BY <5>1
      <4>2. PICK y \in Nat : y = s * d
        OBVIOUS
      <4>3. m = -s - y
        BY <3>4, <4>1, <4>2
      <4> QED
        BY <3>1, <3>5, <4>3
    <3>7. q <= 30
      <4> SUFFICES ASSUME q >= 31 PROVE FALSE
        OBVIOUS
      <4>1. PICK d \in Nat : q = 31 + d
        <5>1. q - 31 \in Nat /\ q = 31 + (q - 31)
          OBVIOUS
        <5> QED
          BY <5>1
      <4>2. PICK y \in Nat : y = s * d
        OBVIOUS
      <4>3. m = 31 * s + y
        BY <3>4, <4>1, <4>2
      <4> QED
        BY <3>1, <3>2, <3>5, <4>3
    <3>8. q \in 0 .. 30
      BY <3>6, <3>7
    <3> QED
      BY <3>1, <3>2, <3>3, <3>8
  <2>6. F!Apart(p, w, NoChange) \in 0 .. 30
    BY <2>4, <2>5 DEF F!Apart
  <2>7. near = 1 .. 1
    <3> HIDE DEF F!Apart
    <3> QED
      BY <2>3, <2>6 DEF F!Near
  <2>8. {i \in near : \A j \in near :
           F!Apart(ps[i], w, NoChange) <= F!Apart(ps[j], w, NoChange)} = 1 .. 1
    <3> HIDE DEF near
    <3> QED
      BY <2>3, <2>6, <2>7
  <2>9. F!Nearest(ps, w, NoChange) = 1
    <3>1. PICK n \in Nat \ {0} : n = 1
      OBVIOUS
    <3>2. F!Min(1 .. n) = 1
      BY MinIsOne
    <3> QED
      BY <2>8, <3>1, <3>2 DEF F!Nearest
  <2>10. F!Learned(ps, w, NoChange) = <<F!Merged(p, w, NoChange)>>
    <3>1. near # {}
      BY <2>7
    <3>2. F!Learned(ps, w, NoChange) = [ps EXCEPT ![1] = F!Merged(ps[1], w, NoChange)]
      <4> HIDE DEF near
      <4> QED
        BY <1>1, <2>9, <3>1
    <3> QED
      BY <2>1, <3>2
  <2>11. F!Merged(p, w, NoChange) \in Proto
    <3>1. [k \in F!Looked |-> (9 * p.delta[k] + NoChange[k]) \div 10] = NoChange
      <4>1. \A k \in F!Looked : p.delta[k] = 0 /\ NoChange[k] = 0
        BY <2>2 DEF NoChange
      <4>2. (9 * 0 + 0) \div 10 = 0
        OBVIOUS
      <4> QED
        BY <4>1, <4>2 DEF NoChange
    <3> QED
      BY <1>2, <2>2, <3>1 DEF Proto, F!Merged
  <2> QED
    BY <2>10, <2>11
<1> QED
  BY <1>3, <1>4 DEF AtMostOne

\* The networks predict and drive nothing: what they look at is sensory.
LEMMA NothingPredicted ==
  ASSUME ForesightInv, NEW w, F!NetStep(w)
  PROVE  predictions' = NoChange /\ motors' = NoChange
<1>1. /\ predictions' = F!Predicted(w)
      /\ motors' = [i \in F!Looked |-> IF F!LayerOf(i) = 4 THEN w[i] ELSE motors[i]]
  BY DEF F!NetStep
<1>2. \A i \in F!Looked : F!LayerOf(i) = 0
  BY LookedAtFirst
<1>3. \A i \in F!Looked : predictions[i] = 0 /\ motors[i] = 0
  BY DEF ForesightInv, NoChange
<1>4. F!Predicted(w) = [i \in F!Looked |-> IF F!LayerOf(i) = 3 THEN w[i]
                                           ELSE predictions[i]]
  BY DEF F!Predicted
<1> HIDE DEF F!Predicted, F!LayerOf, F!Looked
<1> QED
  BY <1>1, <1>2, <1>3, <1>4 DEF NoChange

\* A step of the network, and a cycle.
LEMMA ForesightKeeps ==
  ASSUME ForesightInv, F!Next
  PROVE  ForesightInv'
<1>1. ASSUME F!Step PROVE ForesightInv'
  <2>1. /\ v' \in F!Driven /\ F!NetStep(v')
        /\ UNCHANGED <<protos, mean_error, hyps, chosen>>
    BY <1>1 DEF F!Step
  <2>2. v' \in [F!Neuron -> Potentials]
    BY <2>1 DEF F!Driven
  <2>3. predictions' = NoChange /\ motors' = NoChange
    BY <2>1, NothingPredicted
  <2> QED
    BY <2>1, <2>2, <2>3 DEF ForesightInv
<1>2. ASSUME F!Cycle PROVE ForesightInv'
  <2>1. /\ hyps' \in F!Guesses /\ chosen' = hyps'[F!Best(v, hyps')]
        /\ UNCHANGED v
    BY <1>2 DEF F!Cycle
  <2>2. PICK learnt :
          learnt = [protos EXCEPT ![chosen' % Banks] =
                      F!Learned(@, v, [k \in F!Looked |-> v[k] - v[k]])]
    OBVIOUS
  <2>3. PICK sim \in F!Driven :
          /\ F!NetStep(sim)
          /\ protos' = F!Corrected(learnt, v, v)
          /\ mean_error' = F!MeanError(F!Mistake(learnt, v, v))
    BY <1>2, <2>2 DEF F!Cycle, F!Reached
  <2>4. hyps' \in [1 .. Hypotheses -> 0 .. Actions - 1]
    BY <2>1 DEF F!Guesses
  <2>5. chosen' = hyps'[1]
    <3>1. PICK hs \in [1 .. Hypotheses -> 0 .. Actions - 1] : hs = hyps'
      BY <2>4
    <3>2. F!Best(v, hs) = 1
      BY BestIsFirst
    <3> QED
      BY <2>1, <3>1, <3>2
  <2>6. PICK b \in 0 .. Banks - 1 : b = chosen' % Banks
    <3>1. PICK c \in 0 .. Actions - 1 : c = chosen'
      BY <2>4, <2>5, ForesightSizes
    <3>2. c % Banks \in 0 .. Banks - 1
      BY ForesightSizes
    <3> QED
      BY <3>1, <3>2
  <2>7. predictions' = NoChange /\ motors' = NoChange
    BY <2>3, NothingPredicted
  <2>8. [k \in F!Looked |-> v[k] - v[k]] = NoChange
    <3>1. \A k \in F!Looked : v[k] \in Int
      BY LookedAtFirst, ForesightSizes DEF ForesightInv
    <3> QED
      BY <3>1 DEF NoChange
  <2>9. Banked(protos) /\ v \in [F!Neuron -> Potentials]
    BY DEF ForesightInv
  <2>10. PICK p \in Proto : F!Learned(protos[b], v, NoChange) = <<p>>
    <3>1. AtMostOne(protos[b])
      BY <2>9 DEF Banked
    <3>2. PICK ps : ps = protos[b]
      OBVIOUS
    <3>3. \E p \in Proto : F!Learned(ps, v, NoChange) = <<p>>
      BY <2>9, <3>1, <3>2, LearnedOne
    <3> QED
      BY <3>2, <3>3
  <2>11. learnt = [protos EXCEPT ![b] = <<p>>]
    <3>1. learnt = [protos EXCEPT ![b] = F!Learned(@, v, NoChange)]
      BY <2>2, <2>6, <2>8
    <3> HIDE DEF F!Learned
    <3> QED
      BY <2>10, <3>1
  <2>12. Banked(learnt)
    <3>1. learnt \in [0 .. Banks - 1 -> Seq(Proto)]
      <4>1. <<p>> \in Seq(Proto)
        OBVIOUS
      <4> QED
        BY <2>9, <2>11, <4>1 DEF Banked
    <3>2. \A c \in 0 .. Banks - 1 : AtMostOne(learnt[c])
      <4> TAKE c \in 0 .. Banks - 1
      <4>1. CASE c = b
        BY <2>9, <2>11, <4>1 DEF Banked, AtMostOne
      <4>2. CASE c # b
        <5>1. learnt[c] = protos[c]
          BY <2>9, <2>11, <4>2 DEF Banked
        <5> QED
          BY <2>9, <5>1 DEF Banked
      <4> QED
        BY <4>1, <4>2
    <3> QED
      BY <3>1, <3>2 DEF Banked
  <2>13. F!MeanError(F!Mistake(learnt, v, v)) = 0
    BY <2>12, MistakeZero
  <2>14. F!Corrected(learnt, v, v) = learnt
    <3>1. F!MeanError(F!Mistake(learnt, v, v)) <= 5
      BY <2>13
    <3> QED
      BY <3>1 DEF F!Corrected
  <2>15. Banked(protos') /\ mean_error' = 0
    BY <2>3, <2>12, <2>13, <2>14
  <2>16. v' \in [F!Neuron -> Potentials]
    BY <2>1 DEF ForesightInv
  <2> QED
    BY <2>5, <2>7, <2>15, <2>16 DEF ForesightInv
<1> QED
  BY <1>1, <1>2 DEF F!Next

\* The strengthening says that nothing is foreseen.
LEMMA NothingForeseen == ForesightInv => F!ForesightIsBlind /\ F!WindowIsSensory
<1> SUFFICES ASSUME ForesightInv PROVE F!ForesightIsBlind /\ F!WindowIsSensory
  OBVIOUS
<1>1. ASSUME NEW a \in DOMAIN protos
      PROVE  /\ Len(protos[a]) <= 1
             /\ \A i \in DOMAIN protos[a], k \in F!Looked : protos[a][i].delta[k] = 0
  <2>1. AtMostOne(protos[a])
    BY DEF ForesightInv, Banked
  <2>2. CASE protos[a] = <<>>
    BY <2>2
  <2>3. CASE \E p \in Proto : protos[a] = <<p>>
    <3>1. PICK p \in Proto : protos[a] = <<p>>
      BY <2>3
    <3>2. \A k \in F!Looked : p.delta[k] = 0
      BY DEF Proto, NoChange
    <3>3. Len(protos[a]) = 1 /\ DOMAIN protos[a] = {1} /\ protos[a][1] = p
      BY <3>1
    <3> QED
      BY <3>2, <3>3
  <2> QED
    BY <2>1, <2>2, <2>3 DEF AtMostOne
<1>2. mean_error = 0 /\ (hyps # <<>> => chosen = hyps[1])
  BY DEF ForesightInv
<1>3. \A i \in F!Looked : predictions[i] = 0 /\ motors[i] = 0
  BY DEF ForesightInv, NoChange
<1> QED
  BY <1>1, <1>2, <1>3 DEF F!ForesightIsBlind, F!WindowIsSensory

\* For all layers of which the first is as wide as what the networks look at,
\* all potentials and any number of hypotheses and prototypes: what has been
\* reached is read after the simulation was undone, so no cycle learns from it.
THEOREM ForesightStaysBlind ==
  MindSpec => [](F!ForesightIsBlind /\ F!WindowIsSensory)
<1>1. MindInit => ForesightInv
  BY ForesightStarts DEF MindInit
<1>2. ForesightInv /\ [MindNext]_mindVars => ForesightInv'
  <2>1. ForesightInv /\ UNCHANGED foresight => ForesightInv'
    BY DEF foresight, ForesightInv
  <2>2. [MindNext]_mindVars => F!Next \/ UNCHANGED foresight
    BY DEF MindNext, Still, mindVars
  <2> QED
    BY <2>1, <2>2, ForesightKeeps
<1>3. ForesightInv => F!ForesightIsBlind /\ F!WindowIsSensory
  BY NothingForeseen
<1> QED
  BY <1>1, <1>2, <1>3, PTL DEF MindSpec
===============================================================================
