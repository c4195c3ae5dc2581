--------------------------- MODULE Episode_proofs ---------------------------
(***************************************************************************)
(* What the supervision ledger of an episode guarantees for every budget,  *)
(* every recovery streak policy and every width of the counters: the       *)
(* quarantine flag says exactly that the longest run of recovery cycles    *)
(* reached the limit, and advice to stop is never withdrawn.  And what     *)
(* each cycle goes through before it trains: a guard that passed the       *)
(* sample, a plan cut to its budget, a suite that showed every scenario.   *)
(***************************************************************************)
EXTENDS Episode, FiniteSetTheorems, SequenceTheorems, WellFoundedInduction, TLAPS

Quarantined(l) == "RECOVERY_STREAK_LIMIT" \in l.flags

\* The flag mirrors the maximum, and the maximum covers the running streak.
LedgerInv ==
  /\ ledger.recovery_streak <= ledger.max_streak_seen
  /\ Quarantined(ledger) <=> ledger.max_streak_seen >= limit

\* A stop was recommended for one of two reasons, neither of which goes away.
StopInv == advice = "Stop" => ~ready \/ Quarantined(ledger)

IInv == TypeOK /\ LedgerInv /\ StopInv
-----------------------------------------------------------------------------
\* A recorded decision keeps the ledger's types, never clears the quarantine
\* flag and keeps it equivalent to the maximum having reached the limit
\* (SupervisionLedger::record).
LEMMA RecordKeeps ==
  ASSUME NEW l \in Ledger, NEW d, limit \in 1 .. CounterMax,
         l.recovery_streak <= l.max_streak_seen,
         Quarantined(l) <=> l.max_streak_seen >= limit
  PROVE  /\ Record(l, d) \in Ledger
         /\ Record(l, d).recovery_streak <= Record(l, d).max_streak_seen
         /\ Quarantined(Record(l, d)) <=> Record(l, d).max_streak_seen >= limit
         /\ Quarantined(l) => Quarantined(Record(l, d))
<1> DEFINE streak == NextStreak(l, d)
           flags  == l.flags \cup SetFlags(streak, d)
           most   == Larger(l.max_streak_seen, streak)
<1>0. CounterMax \in Nat \ {0}
  BY EpisodeAssumption
<1>1. /\ l.recovery_streak \in 0 .. CounterMax
      /\ l.max_streak_seen \in 0 .. CounterMax
      /\ l.flags \in SUBSET LedgerFlag
  BY DEF Ledger
<1>2. streak \in 0 .. CounterMax
  BY <1>0, <1>1 DEF NextStreak
<1>3. most \in 0 .. CounterMax /\ streak <= most
      /\ (most >= limit <=> l.max_streak_seen >= limit \/ streak >= limit)
  BY <1>0, <1>1, <1>2 DEF Larger
<1>4. flags \in SUBSET LedgerFlag
  BY <1>1 DEF SetFlags
<1>5. "RECOVERY_STREAK_LIMIT" \in flags <=> Quarantined(l) \/ streak >= limit
  BY DEF SetFlags, LedgerFlag, Quarantined
<1>6. Record(l, d) = [recovery_streak |-> streak, max_streak_seen |-> most,
                      flags |-> flags]
  BY DEF Record
<1> HIDE DEF streak, flags, most
<1>7. Record(l, d) \in Ledger
  BY <1>2, <1>3, <1>4, <1>6 DEF Ledger
<1>8. /\ Record(l, d).recovery_streak = streak
      /\ Record(l, d).max_streak_seen = most
      /\ Record(l, d).flags = flags
  BY <1>6
<1> QED
  BY <1>3, <1>5, <1>7, <1>8 DEF Quarantined

\* What a stop is recommended for (recommend in episode.rs).
LEMMA StopReasons ==
  ASSUME NEW x \in BOOLEAN, NEW a, NEW l
  PROVE  /\ ~x \/ Quarantined(l) => Recommend(Gate(x, a), l) = "Stop"
         /\ Recommend(Gate(x, a), l) = "Stop" => ~x \/ Quarantined(l)
         /\ Recommend(Gate(x, a), l) \in
              {"Stop", "Recover", "ApplyLearning", "Probe", "Observe"}
<1>1. Gate(x, a).mode = "Blocked" <=> ~x
  BY DEF Gate
<1>2. Status(l) = "Quarantined" <=> Quarantined(l)
  BY DEF Status, Quarantined
<1> QED
  BY <1>1, <1>2 DEF Recommend

\* The ledger starts empty, below the normalised limit.
LEMMA Initially == Init => IInv
<1> SUFFICES ASSUME Init PROVE IInv
  OBVIOUS
<1>1. limit \in 1 .. CounterMax
  BY EpisodeAssumption DEF Init
<1>2. ledger \in Ledger /\ LedgerInv
  BY <1>1, EpisodeAssumption DEF Init, NewLedger, Ledger, LedgerInv, Quarantined
<1>3. ready \in BOOLEAN
  BY DEF Init, PermitsAgenticLoop
<1>4. TypeOK /\ StopInv
  BY <1>1, <1>2, <1>3 DEF Init, TypeOK, StopInv
<1> QED
  BY <1>2, <1>4 DEF IInv

\* The only step that touches the ledger: an advice to stop follows from the
\* gate or the ledger, and the one before it is repeated.
LEMMA PreviewStep ==
  ASSUME IInv, PreviewCycle
  PROVE  IInv' /\ (advice = "Stop" => advice' = "Stop")
<1>1. PICK c, a : /\ ledger' = Record(ledger, Gate(ready, a))
                  /\ advice' = Recommend(Gate(ready, a), ledger')
                  /\ last' = [cycle |-> c, gate |-> Gate(ready, a)]
                  /\ phase' \in {"training", "skipping"}
  BY DEF PreviewCycle
<1>2. UNCHANGED <<ready, budget, limit, sample>> /\ phase = "sampled"
  BY DEF PreviewCycle
<1>3. /\ ledger' \in Ledger
      /\ LedgerInv'
      /\ Quarantined(ledger) => Quarantined(ledger')
  BY <1>1, <1>2, RecordKeeps DEF IInv, TypeOK, LedgerInv, Quarantined
<1>4. /\ ~ready \/ Quarantined(ledger') <=> advice' = "Stop"
      /\ advice' \in {"Stop", "Recover", "ApplyLearning", "Probe", "Observe"}
  BY <1>1, StopReasons DEF IInv, TypeOK
<1>5. TypeOK'
  BY <1>1, <1>2, <1>3, <1>4 DEF IInv, TypeOK
<1>6. StopInv'
  BY <1>2, <1>4 DEF StopInv, Quarantined
<1> QED
  BY <1>3, <1>4, <1>5, <1>6 DEF IInv, StopInv

\* Only PreviewCycle touches what the invariant speaks of.
LEMMA Stepwise == IInv /\ [Next]_vars => IInv' /\ (advice = "Stop" => advice' = "Stop")
<1> SUFFICES ASSUME IInv, [Next]_vars
             PROVE  IInv' /\ (advice = "Stop" => advice' = "Stop")
  OBVIOUS
<1>1. CASE TakeSample
  BY <1>1 DEF TakeSample, IInv, TypeOK, LedgerInv, StopInv, Quarantined
<1>2. CASE PreviewCycle
  BY <1>2, PreviewStep
<1>3. CASE NextSample
  BY <1>3 DEF NextSample, IInv, TypeOK, LedgerInv, StopInv, Quarantined
<1>4. CASE UNCHANGED vars
  BY <1>4 DEF vars, IInv, TypeOK, LedgerInv, StopInv, Quarantined
<1> QED
  BY <1>1, <1>2, <1>3, <1>4 DEF Next
-----------------------------------------------------------------------------
\* The invariant holds in every reachable state.
LEMMA Inductive == Spec => []IInv
BY Initially, Stepwise, PTL DEF Spec

\* The counters of the ledger stay in their u16, the recommendation and the
\* loop in their domains, for every policy (TypeOK of run episode).
THEOREM TypeCorrect == Spec => []TypeOK
<1>1. IInv => TypeOK
  BY DEF IInv
<1> QED
  BY <1>1, Inductive, PTL

\* An episode is quarantined exactly when its longest run of recovery cycles
\* reached the limit: the sticky flag and the maximum never disagree.
THEOREM QuarantineIsTheStreak == Spec => []QuarantineMatchesStreak
<1>1. IInv => QuarantineMatchesStreak
  BY DEF IInv, LedgerInv, QuarantineMatchesStreak, Status, Quarantined
<1> QED
  BY <1>1, Inductive, PTL

\* The runner never takes back a recommendation to stop.
THEOREM StopStays == Spec => StopIsFinal
<1>1. IInv /\ [Next]_vars => [advice = "Stop" => advice' = "Stop"]_vars
  BY Stepwise
<1> QED
  BY <1>1, Inductive, PTL DEF Spec, StopIsFinal
-----------------------------------------------------------------------------
\* The whole pipeline on one sample: what the gate lets learn was complete,
\* within every limit and free of safety pressure, and its plan still holds a
\* learning step (each stage asks only the one before it).
LEMMA GateKeepsPromises ==
  ASSUME NEW x \in BOOLEAN, NEW r \in Report, NEW s \in Signals, NEW p,
         NEW l,
         AllowsModelUpdate(Gate(x, Audit(Cycle(r, Guard(r), Decide(r, Guard(r), s), p))), l)
  PROVE  /\ x /\ ~s.pressure /\ r.status = "Complete"
         /\ r.invalid < 2 /\ r.saturated < 2 /\ r.loss < 2
         /\ BudgetOf(p, "ApplyLearning") > 0 /\ Status(l) # "Quarantined"
<1> DEFINE g == Guard(r)
           d == Decide(r, g, s)
           c == Cycle(r, g, d, p)
           a == Audit(c)
           v == Gate(x, a)
<1>1. /\ r.status \in {"Empty", "Truncated", "Complete"}
      /\ r.invalid \in 0 .. 2 /\ r.saturated \in 0 .. 2 /\ r.loss \in {1, 2}
      /\ s.pressure \in BOOLEAN
  BY DEF Report, Signals, Graded
<1>2. PermitsLearning(v) /\ Status(l) # "Quarantined"
  BY DEF AllowsModelUpdate
<1>3. v.mode = "LearningAllowed"
  BY <1>2 DEF PermitsLearning
<1>4. x /\ a.action = "Learn" /\ AllowsEffects(a)
  <2> HIDE DEF a
  <2> QED
    BY <1>3 DEF Gate
<1>5. c.may_apply_learning /\ a.action = c.decision.action
  <2> HIDE DEF c
  <2> QED
    BY <1>4 DEF AllowsEffects, Audit
<1>6. d.action = "Learn" /\ BudgetOf(p, "ApplyLearning") > 0
  <2> HIDE DEF d, g
  <2> QED
    BY <1>4, <1>5 DEF Cycle
<1>7. r.status # "Empty" /\ ~s.pressure /\ g.action \notin {"Halt", "Throttle"}
  <2> HIDE DEF g
  <2> QED
    BY <1>1, <1>6 DEF Decide, Decision
<1>8. r.status = "Complete" /\ r.invalid < 2 /\ r.saturated < 2 /\ r.loss < 2
  BY <1>1, <1>7 DEF Guard
<1> QED
  BY <1>2, <1>4, <1>6, <1>7, <1>8

\* Only PreviewCycle starts a training.
LEMMA HealthyStep == IInv /\ OnlyHealthyUpdates /\ [Next]_vars => OnlyHealthyUpdates'
<1> SUFFICES ASSUME IInv, OnlyHealthyUpdates, [Next]_vars, phase' = "training"
             PROVE  /\ ready' /\ ~sample'.signals.pressure
                    /\ sample'.report.status = "Complete" /\ sample'.report.invalid < 2
                    /\ sample'.report.saturated < 2 /\ sample'.report.loss < 2
                    /\ BudgetOf(last'.cycle.plan, "ApplyLearning") > 0
                    /\ Status(ledger') # "Quarantined"
  BY DEF OnlyHealthyUpdates
<1>1. CASE PreviewCycle
  <2> DEFINE r == sample.report
             s == sample.signals
             d == Decide(r, Guard(r), s)
             p == Plan(d, budget)
             c == Cycle(r, Guard(r), d, p)
             v == Gate(ready, Audit(c))
  <2>1. /\ last' = [cycle |-> c, gate |-> v]
        /\ ledger' = Record(ledger, v)
        /\ phase' = IF AllowsModelUpdate(v, ledger') THEN "training" ELSE "skipping"
        /\ UNCHANGED <<ready, sample>> /\ phase = "sampled"
    BY <1>1 DEF PreviewCycle
  <2>2. ready \in BOOLEAN /\ r \in Report /\ s \in Signals
    BY <2>1 DEF IInv, TypeOK
  <2>3. AllowsModelUpdate(v, ledger')
    BY <2>1
  <2>4. last'.cycle.plan = p
    BY <2>1 DEF Cycle
  <2> HIDE DEF p
  <2>5. /\ ready /\ ~s.pressure /\ r.status = "Complete"
        /\ r.invalid < 2 /\ r.saturated < 2 /\ r.loss < 2
        /\ BudgetOf(p, "ApplyLearning") > 0 /\ Status(ledger') # "Quarantined"
    BY <2>2, <2>3, GateKeepsPromises
  <2> QED
    BY <2>1, <2>4, <2>5
<1>2. CASE TakeSample \/ NextSample
  BY <1>2 DEF TakeSample, NextSample
<1>3. CASE UNCHANGED vars
  BY <1>3 DEF vars, OnlyHealthyUpdates
<1> QED
  BY <1>1, <1>2, <1>3 DEF Next

\* No sample changes a weight that was throttled, halted, pressed by safety or
\* cut from the plan, whatever the readiness, the budget and the streak limit
\* (a conjunct of CyclesAreGuarded).
THEOREM UpdatesAreHealthy == Spec => []OnlyHealthyUpdates
<1>1. Init => OnlyHealthyUpdates
  BY DEF Init, OnlyHealthyUpdates
<1> QED
  BY <1>1, HealthyStep, Inductive, PTL DEF Spec
-----------------------------------------------------------------------------
(* What a budget leaves of a plan.                                         *)

\* Steps as the planner pushes them: none without ticks.
StepKind == {"Idle", "SafetyCheck", "PreviewTraining", "ApplyLearning",
             "ExploreProbe", "ConsolidateMemory", "RecoverState", "EmitTelemetry"}
Pushed == {x \in [kind : StepKind, ticks : Nat \ {0}, checkpoint : BOOLEAN] :
             x.kind = "ApplyLearning" => x.checkpoint}
\* Steps once the clamp has cut their ticks, some of them to none.
Cut == [kind : StepKind, ticks : Nat, checkpoint : BOOLEAN]

\* A set of naturals that is not empty has a least one.
LEMMA Least ==
  ASSUME NEW S \in SUBSET Nat, S # {}
  PROVE  \E x \in S : \A y \in S : x <= y
<1> DEFINE R == OpToRel(<, Nat)
<1>1. IsWellFoundedOn(R, Nat)
  BY NatLessThanWellFounded
<1> HIDE DEF R
<1>2. PICK x \in S : \A y \in S : ~(<<y, x>> \in R)
  BY <1>1, WFMin
<1> USE DEF R
<1>3. \A y \in S : ~(y < x)
  BY <1>2 DEF OpToRel
<1> QED
  BY <1>3

\* What holds of 0, and of k + 1 whenever it holds of k, holds of all.
LEMMA Counting ==
  ASSUME NEW S \in SUBSET Nat, 0 \in S, \A k \in S : k + 1 \in S
  PROVE  \A k \in Nat : k \in S
<1> SUFFICES ASSUME Nat \ S # {} PROVE FALSE
  OBVIOUS
<1>1. PICK x \in Nat \ S : \A y \in Nat \ S : x <= y
  <2>1. Nat \ S \in SUBSET Nat
    OBVIOUS
  <2> QED
    BY <2>1, Least
<1>2. x # 0 /\ x - 1 \in Nat /\ (x - 1) + 1 = x
  BY <1>1
<1>3. x - 1 \in S
  BY <1>1, <1>2
<1> QED
  BY <1>1, <1>2, <1>3

\* The ticks used grow step by step.
LEMMA UsedGrow ==
  ASSUME NEW s \in Seq(Cut)
  PROVE  /\ Used(s) \in [0 .. Len(s) -> Nat]
         /\ Used(s)[0] = 0
         /\ \A i \in 1 .. Len(s) : Used(s)[i] = Used(s)[i - 1] + s[i].ticks
<1> DEFINE n == Len(s)
           F(u) == [i \in 0 .. n |-> IF i = 0 THEN 0 ELSE u[i - 1] + s[i].ticks]
           Sums(u, k) == /\ u \in [0 .. k -> Nat] /\ u[0] = 0
                         /\ \A i \in 1 .. k : u[i] = u[i - 1] + s[i].ticks
           S == {k \in Nat : k <= n => \E u : Sums(u, k)}
<1>1. n \in Nat /\ \A i \in 1 .. n : s[i].ticks \in Nat
  <2>1. n \in Nat /\ \A i \in 1 .. n : s[i] \in Cut
    OBVIOUS
  <2> QED
    BY <2>1 DEF Cut
<1> HIDE DEF n
<1>2. 0 \in S
  <2>1. Sums([i \in 0 .. 0 |-> 0], 0)
    OBVIOUS
  <2> QED
    BY <2>1
<1>3. ASSUME NEW k \in S PROVE k + 1 \in S
  <2>0. k \in Nat /\ (k <= n => \E u : Sums(u, k))
    OBVIOUS
  <2> SUFFICES ASSUME k + 1 <= n PROVE \E u : Sums(u, k + 1)
    <3> HIDE DEF Sums
    <3>1. k + 1 \in Nat
      BY <2>0
    <3> QED
      BY <3>1
  <2>1. k \in Nat /\ k <= n /\ k + 1 \in 1 .. n
    BY <1>1, <2>0
  <2>2. PICK u : Sums(u, k)
    BY <2>0, <2>1
  <2> DEFINE v == [i \in 0 .. k + 1 |-> IF i = k + 1 THEN u[k] + s[k + 1].ticks ELSE u[i]]
  <2>3. \A i \in 0 .. k : u[i] \in Nat /\ v[i] = u[i]
    BY <2>1, <2>2
  <2>4. v[k + 1] = u[k] + s[k + 1].ticks /\ v[k + 1] \in Nat
    <3>1. v[k + 1] = u[k] + s[k + 1].ticks
      BY <2>1
    <3> HIDE DEF v, S
    <3>2. u[k] \in Nat /\ s[k + 1].ticks \in Nat
      <4>1. k \in 0 .. k
        BY <2>1
      <4> QED
        BY <1>1, <2>1, <2>3, <4>1
    <3> QED
      BY <3>1, <3>2
  <2>5. DOMAIN v = 0 .. k + 1
    OBVIOUS
  <2>6. \A i \in 0 .. k + 1 : v[i] \in Nat
    <3> HIDE DEF v, Sums, S
    <3> QED
      BY <2>1, <2>3, <2>4
  <2>7. v \in [0 .. k + 1 -> Nat]
    BY <2>6
  <2>8. \A i \in 1 .. k + 1 : v[i] = v[i - 1] + s[i].ticks
    <3> TAKE i \in 1 .. k + 1
    <3>1. CASE i = k + 1
      <4>1. v[i - 1] = u[k]
        BY <2>1, <2>3, <3>1
      <4> HIDE DEF v, S
      <4> QED
        BY <2>4, <3>1, <4>1
    <3>2. CASE i # k + 1
      <4>1. i \in 1 .. k /\ i - 1 \in 0 .. k /\ i \in 0 .. k
        BY <2>1, <3>2
      <4> HIDE DEF v, S
      <4> QED
        BY <2>2, <2>3, <4>1
    <3> QED
      BY <3>1, <3>2
  <2>9. v[0] = 0
    BY <2>1, <2>2
  <2> HIDE DEF v
  <2> QED
    BY <2>7, <2>8, <2>9
<1>4. n \in S
  <2> HIDE DEF S
  <2>1. S \in SUBSET Nat
    BY DEF S
  <2> QED
    BY <1>1, <1>2, <1>3, <2>1, Counting
<1>5. PICK w : Sums(w, n)
  BY <1>1, <1>4
<1>6. w = F(w)
  <2>1. \A i \in 0 .. n : w[i] = F(w)[i]
    <3> TAKE i \in 0 .. n
    <3>1. i = 0 \/ i \in 1 .. n
      BY <1>1
    <3> QED
      BY <1>5, <3>1
  <2> QED
    BY <1>5, <2>1
<1>7. Used(s) = CHOOSE u : u = F(u)
  BY DEF Used, n
<1>8. Used(s) = F(Used(s))
  <2> HIDE DEF F
  <2> QED
    BY <1>6, <1>7
<1> DEFINE u == Used(s)
<1> HIDE DEF u
<1>9. u = F(u)
  BY <1>8 DEF u
<1>10. u[0] = 0 /\ \A i \in 1 .. n : u[i] = u[i - 1] + s[i].ticks
  <2>1. 0 \in 0 .. n /\ \A i \in 1 .. n : i \in 0 .. n /\ i # 0
    BY <1>1
  <2> QED
    BY <1>9, <2>1
<1>11. \A k \in Nat : k <= n => u[k] \in Nat
  <2> DEFINE Q == {k \in Nat : k <= n => u[k] \in Nat}
  <2>1. 0 \in Q
    BY <1>10
  <2>2. ASSUME NEW k \in Q PROVE k + 1 \in Q
    <3> SUFFICES ASSUME k + 1 <= n PROVE u[k + 1] \in Nat
      OBVIOUS
    <3>1. k \in Nat /\ u[k] \in Nat /\ k + 1 \in 1 .. n /\ (k + 1) - 1 = k
      BY <1>1
    <3> QED
      BY <1>1, <1>10, <3>1
  <2>3. Q \in SUBSET Nat
    OBVIOUS
  <2> HIDE DEF Q
  <2>4. \A k \in Nat : k \in Q
    BY <2>1, <2>2, <2>3, Counting
  <2> QED
    BY <2>4 DEF Q
<1>12. u \in [0 .. n -> Nat]
  <2>1. u = [i \in 0 .. n |-> u[i]]
    BY <1>9
  <2>2. \A i \in 0 .. n : u[i] \in Nat
    BY <1>1, <1>11
  <2> QED
    BY <2>1, <2>2
<1> QED
  BY <1>10, <1>12 DEF u, n

\* Up to where a plan is kept: the steps before which ticks are left.
LEMMA KeptIsPrefix ==
  ASSUME NEW n \in Nat, NEW u \in [0 .. n -> Nat], NEW b \in Nat,
         \A i \in 1 .. n : u[i - 1] <= u[i]
  PROVE  \E m \in 0 .. n : \A i \in 1 .. n : u[i - 1] < b <=> i <= m
<1> DEFINE S == {i \in 0 .. n : i = n \/ ~(u[i] < b)}
           Q == {k \in Nat : \A i \in 0 .. n : i + k <= n => u[i] <= u[i + k]}
<1>1. \A i \in 0 .. n : u[i] \in Nat
  OBVIOUS
<1>2. \A i, j \in 0 .. n : i <= j => u[i] <= u[j]
  <2>1. 0 \in Q
    BY <1>1
  <2>2. ASSUME NEW k \in Q PROVE k + 1 \in Q
    <3> SUFFICES ASSUME NEW i \in 0 .. n, i + (k + 1) <= n PROVE u[i] <= u[i + (k + 1)]
      OBVIOUS
    <3>1. /\ i + k \in 0 .. n /\ i + (k + 1) \in 1 .. n /\ i + (k + 1) \in 0 .. n
          /\ (i + (k + 1)) - 1 = i + k
      OBVIOUS
    <3>2. u[i] <= u[i + k]
      BY <3>1
    <3>3. u[i + k] <= u[i + (k + 1)]
      BY <3>1
    <3> QED
      BY <1>1, <3>1, <3>2, <3>3
  <2>3. Q \in SUBSET Nat
    OBVIOUS
  <2> HIDE DEF Q
  <2>4. \A k \in Nat : k \in Q
    BY <2>1, <2>2, <2>3, Counting
  <2> USE DEF Q
  <2> TAKE i, j \in 0 .. n
  <2> HAVE i <= j
  <2>5. j - i \in Nat /\ i + (j - i) = j
    OBVIOUS
  <2>6. j - i \in Q
    BY <2>4, <2>5
  <2> QED
    BY <2>5, <2>6
<1>3. PICK m \in S : \A y \in S : m <= y
  <2>1. S \in SUBSET Nat /\ n \in S
    OBVIOUS
  <2> HIDE DEF S
  <2> QED
    BY <2>1, Least
<1>4. m \in 0 .. n /\ (m = 0 \/ u[m - 1] < b) /\ (m = n \/ ~(u[m] < b))
  <2>1. m # 0 => m - 1 \in 0 .. n /\ ~(m - 1 \in S) /\ m - 1 # n
    BY <1>3
  <2> QED
    BY <1>3, <2>1
<1> HIDE DEF S
<1>5. ASSUME NEW i \in 1 .. n PROVE u[i - 1] < b <=> i <= m
  <2>1. CASE i <= m
    <3>1. m - 1 \in 0 .. n /\ i - 1 \in 0 .. n /\ i - 1 <= m - 1 /\ m # 0
      BY <1>4, <2>1
    <3>2. u[i - 1] <= u[m - 1] /\ u[m - 1] < b
      BY <1>2, <1>4, <3>1
    <3> QED
      BY <1>1, <2>1, <3>1, <3>2
  <2>2. CASE i > m
    <3>1. i - 1 \in 0 .. n /\ m <= i - 1 /\ m # n
      BY <1>4, <2>2
    <3>2. u[m] <= u[i - 1] /\ ~(u[m] < b)
      BY <1>2, <1>4, <3>1
    <3> QED
      BY <1>1, <1>4, <2>2, <3>1, <3>2
  <2> QED
    BY <1>4, <2>1, <2>2
<1> QED
  BY <1>4, <1>5

\* The k-th of a stretch of numbers from 1 is k.
LEMMA KthIsK ==
  ASSUME NEW m \in Nat, NEW k \in 1 .. m
  PROVE  (CHOOSE i \in 1 .. m : Cardinality({j \in 1 .. m : j <= i}) = k) = k
<1>1. \A i \in 1 .. m : {j \in 1 .. m : j <= i} = 1 .. i
  OBVIOUS
<1>2. \A i \in 1 .. m : Cardinality(1 .. i) = i
  <2> TAKE i \in 1 .. m
  <2>1. 1 \in Int /\ i \in Int /\ 1 <= i
    OBVIOUS
  <2>2. Cardinality(1 .. i) = IF 1 > i THEN 0 ELSE i - 1 + 1
    BY <2>1, FS_Interval
  <2> QED
    BY <2>1, <2>2
<1>3. \A i \in 1 .. m : Cardinality({j \in 1 .. m : j <= i}) = i
  BY <1>1, <1>2
<1> QED
  BY <1>3

\* clamp_budget on a plan: what is kept is a prefix, all
\* of it untouched but the last step, and within the budget.
LEMMA ClampFits ==
  ASSUME NEW s \in Seq(Pushed), NEW b \in Nat
  PROVE  LET p == ClampBudget(s, b)
         IN  /\ p \in Seq(Cut) /\ Len(p) <= Len(s) /\ Ticks(p) <= b
             /\ \A i \in DOMAIN p : /\ p[i].kind = s[i].kind
                                    /\ p[i].checkpoint = s[i].checkpoint
                                    /\ i < Len(p) => p[i] = s[i]
             /\ \A i \in DOMAIN p : p[i].ticks > 0
<1> DEFINE n == Len(s)
           u == Used(s)
           left(i) == Left(s, i, b)
           cut == [i \in DOMAIN s |->
                     [s[i] EXCEPT !.ticks = IF @ > left(i) THEN left(i) ELSE @]]
           kept == {i \in DOMAIN cut : cut[i].ticks > 0}
           p == ClampBudget(s, b)
<1>1. n \in Nat /\ DOMAIN s = 1 .. n
  OBVIOUS
<1>2. \A i \in 1 .. n : s[i] \in Pushed /\ s[i] \in Cut
  <2>1. \A i \in 1 .. n : s[i] \in Pushed
    OBVIOUS
  <2> QED
    BY <2>1 DEF Pushed, Cut
<1>3. s \in Seq(Cut)
  <2>1. s = [i \in 1 .. n |-> s[i]]
    OBVIOUS
  <2> QED
    BY <1>1, <1>2, <2>1, SeqDef
<1>4. /\ \A i \in 0 .. n : u[i] \in Nat
      /\ u \in [0 .. n -> Nat] /\ u[0] = 0
      /\ \A i \in 1 .. n : u[i] = u[i - 1] + s[i].ticks
  <2>1. /\ u \in [0 .. n -> Nat] /\ u[0] = 0
        /\ \A i \in 1 .. n : u[i] = u[i - 1] + s[i].ticks
    BY <1>3, UsedGrow
  <2> HIDE DEF u
  <2> QED
    BY <2>1
<1>5. \A i \in 1 .. n : left(i) = IF u[i - 1] > b THEN 0 ELSE b - u[i - 1]
  BY DEF Left
<1> HIDE DEF u
<1>6. \A i \in 1 .. n : /\ left(i) \in Nat /\ i - 1 \in 0 .. n
                        /\ left(i) > 0 <=> u[i - 1] < b
  <2> TAKE i \in 1 .. n
  <2>1. i - 1 \in 0 .. n
    BY <1>1
  <2>2. u[i - 1] \in Nat
    BY <2>1, <1>4
  <2>3. left(i) = IF u[i - 1] > b THEN 0 ELSE b - u[i - 1]
    BY <1>5
  <2> HIDE DEF left
  <2> QED
    BY <2>1, <2>2, <2>3
<1> HIDE DEF left
<1>7. /\ DOMAIN cut = 1 .. n
      /\ \A i \in 1 .. n :
           /\ cut[i].kind = s[i].kind /\ cut[i].checkpoint = s[i].checkpoint
           /\ cut[i].ticks = IF s[i].ticks > left(i) THEN left(i) ELSE s[i].ticks
           /\ s[i].ticks <= left(i) => cut[i] = s[i]
  <2>1. DOMAIN cut = 1 .. n
    BY <1>1
  <2> SUFFICES ASSUME NEW i \in 1 .. n
               PROVE  /\ cut[i].kind = s[i].kind /\ cut[i].checkpoint = s[i].checkpoint
                      /\ cut[i].ticks = IF s[i].ticks > left(i) THEN left(i) ELSE s[i].ticks
                      /\ s[i].ticks <= left(i) => cut[i] = s[i]
    BY <2>1
  <2>2. cut[i] = [s[i] EXCEPT !.ticks = IF @ > left(i) THEN left(i) ELSE @]
    BY <1>1
  <2>3. s[i] \in Pushed
    BY <1>2
  <2> HIDE DEF cut
  <2>4. cut[i] = [s[i] EXCEPT
                    !.ticks = IF s[i].ticks > left(i) THEN left(i) ELSE s[i].ticks]
    BY <2>2
  <2>5. PICK r : r = s[i]
    OBVIOUS
  <2>6. PICK x : x = IF s[i].ticks > left(i) THEN left(i) ELSE s[i].ticks
    OBVIOUS
  <2>7. r \in [kind : StepKind, ticks : Nat \ {0}, checkpoint : BOOLEAN]
    BY <2>3, <2>5 DEF Pushed
  <2>8. cut[i] = [r EXCEPT !.ticks = x]
    BY <2>4, <2>5, <2>6
  <2>9. cut[i].kind = r.kind /\ cut[i].checkpoint = r.checkpoint /\ cut[i].ticks = x
    BY <2>7, <2>8
  <2>10. x = r.ticks => cut[i] = r
    BY <2>7, <2>8
  <2>11. s[i].ticks <= left(i) => x = s[i].ticks
    <3>1. s[i].ticks \in Nat /\ left(i) \in Nat
      BY <2>5, <2>7, <1>6
    <3> QED
      BY <3>1, <2>6
  <2> QED
    BY <2>5, <2>6, <2>9, <2>10, <2>11
<1>8. \A i \in 1 .. n : s[i].ticks \in Nat /\ s[i].ticks > 0
  BY <1>2 DEF Pushed
<1>9. \A i \in 1 .. n : cut[i].ticks > 0 <=> u[i - 1] < b
  <2> TAKE i \in 1 .. n
  <2>1. cut[i].ticks = IF s[i].ticks > left(i) THEN left(i) ELSE s[i].ticks
    BY <1>7
  <2> HIDE DEF cut
  <2> QED
    BY <2>1, <1>6, <1>8
<1>10. PICK m \in 0 .. n : \A i \in 1 .. n : u[i - 1] < b <=> i <= m
  <2>2. \A i \in 1 .. n : u[i - 1] <= u[i]
    <3> TAKE i \in 1 .. n
    <3>1. u[i] = u[i - 1] + s[i].ticks /\ u[i - 1] \in Nat /\ s[i].ticks \in Nat
      BY <1>4, <1>6, <1>8
    <3> QED
      BY <3>1
  <2> QED
    BY <1>1, <1>4, <2>2, KeptIsPrefix
<1>11. kept = 1 .. m
  <2>1. \A i \in 1 .. n : cut[i].ticks > 0 <=> i <= m
    BY <1>9, <1>10
  <2>2. 1 .. m \subseteq 1 .. n
    BY <1>1
  <2>3. kept = {i \in 1 .. n : cut[i].ticks > 0}
    BY <1>7
  <2> HIDE DEF cut, kept
  <2> QED
    BY <2>1, <2>2, <2>3
<1>12. Cardinality(1 .. m) = m
  <2>1. 1 \in Int /\ m \in Int /\ m \in Nat
    BY <1>1
  <2>2. Cardinality(1 .. m) = IF 1 > m THEN 0 ELSE m - 1 + 1
    BY <2>1, FS_Interval
  <2> QED
    BY <2>1, <2>2
<1>13. p = [k \in 1 .. Cardinality(kept) |->
              cut[CHOOSE i \in kept : Cardinality({j \in kept : j <= i}) = k]]
  BY DEF ClampBudget, Compacted, left
<1>14. p = [k \in 1 .. m |-> cut[k]]
  <2> DEFINE kth(k) == CHOOSE i \in 1 .. m : Cardinality({j \in 1 .. m : j <= i}) = k
  <2>0. m \in Nat
    BY <1>1
  <2>1. \A k \in 1 .. m : kth(k) = k
    BY <2>0, KthIsK
  <2>2. p = [k \in 1 .. m |-> cut[kth(k)]]
    <3> HIDE DEF cut, kept, p
    <3> QED
      BY <1>11, <1>12, <1>13
  <2> HIDE DEF cut, kept, p, kth
  <2> QED
    BY <2>1, <2>2
<1>15. \A i \in 1 .. m : i \in 1 .. n /\ p[i] = cut[i]
  <2> HIDE DEF p, cut
  <2> QED
    BY <1>1, <1>14
<1>16. \A i \in 1 .. m : i < m => cut[i] = s[i]
  <2> TAKE i \in 1 .. m
  <2> HAVE i < m
  <2>1. i \in 1 .. n /\ i + 1 \in 1 .. n /\ (i + 1) - 1 = i /\ i + 1 <= m
    BY <1>1
  <2>2. u[i] < b
    BY <2>1, <1>10
  <2>3. u[i - 1] \in Nat /\ u[i] \in Nat /\ u[i] = u[i - 1] + s[i].ticks
    BY <2>1, <1>4, <1>6
  <2>4. s[i].ticks <= b - u[i - 1] /\ ~(u[i - 1] > b)
    BY <2>1, <2>2, <2>3, <1>8
  <2>5. left(i) = b - u[i - 1]
    BY <2>1, <2>4, <1>5
  <2> QED
    BY <2>1, <2>4, <2>5, <1>7
<1>17. \A i \in 1 .. n : cut[i] \in Cut
  <2> TAKE i \in 1 .. n
  <2>1. cut[i] = [s[i] EXCEPT
                    !.ticks = IF s[i].ticks > left(i) THEN left(i) ELSE s[i].ticks]
    BY <1>1
  <2>2. s[i] \in Cut
    BY <1>2
  <2>3. PICK x \in Nat : x = IF s[i].ticks > left(i) THEN left(i) ELSE s[i].ticks
    BY <1>6, <1>8
  <2> HIDE DEF cut
  <2>4. cut[i] = [s[i] EXCEPT !.ticks = x]
    BY <2>1, <2>3
  <2> QED
    BY <2>2, <2>4 DEF Cut
<1> HIDE DEF cut, kept, p
<1>18. p \in Seq(Cut) /\ Len(p) = m /\ DOMAIN p = 1 .. m
  <2>1. p \in [1 .. m -> Cut]
    BY <1>14, <1>15, <1>17
  <2>2. m \in Nat
    BY <1>1
  <2>3. p \in Seq(Cut)
    BY <2>1, <2>2, SeqDef
  <2> QED
    BY <2>1, <2>2, <2>3
<1>19. Ticks(p) <= b
  <2> DEFINE q == Used(p)
  <2>1. /\ q[0] = 0
        /\ \A i \in 1 .. m : q[i] = q[i - 1] + p[i].ticks
    <3> QED
      BY <1>18, UsedGrow
  <2>2. Ticks(p) = q[m]
    BY <1>18 DEF Ticks
  <2> HIDE DEF q
  <2>3. \A i \in 1 .. m : i < m => (q[i - 1] = u[i - 1] => q[i] = u[i])
    BY <1>4, <1>15, <1>16, <2>1
  <2>4. CASE m = 0
    BY <2>1, <2>2, <2>4
  <2>5. CASE m > 0
    <3>1. q[m - 1] = u[m - 1]
      <4> DEFINE Q == {k \in Nat : k < m => q[k] = u[k]}
      <4>1. 0 \in Q
        BY <1>4, <2>1
      <4>2. ASSUME NEW k \in Q PROVE k + 1 \in Q
        <5> SUFFICES ASSUME k + 1 < m PROVE q[k + 1] = u[k + 1]
          OBVIOUS
        <5>1. k \in Nat /\ q[k] = u[k] /\ k + 1 \in 1 .. m /\ (k + 1) - 1 = k
          BY <1>1
        <5> QED
          BY <2>3, <5>1
      <4>3. Q \in SUBSET Nat
        OBVIOUS
      <4> HIDE DEF Q
      <4>4. m - 1 \in Q
        <5>1. m - 1 \in Nat
          BY <1>1, <2>5
        <5> QED
          BY <4>1, <4>2, <4>3, <5>1, Counting
      <4> QED
        BY <1>1, <2>5, <4>4 DEF Q
    <3>2. m \in 1 .. m /\ m \in 1 .. n
      BY <1>1, <2>5
    <3>3. q[m] = u[m - 1] + cut[m].ticks
      BY <2>1, <3>1, <3>2, <1>15
    <3>4. u[m - 1] < b /\ u[m - 1] \in Nat
      BY <3>2, <1>4, <1>6, <1>10
    <3>5. left(m) = b - u[m - 1]
      BY <3>2, <3>4, <1>5
    <3>6. cut[m].ticks <= left(m)
      <4>1. cut[m].ticks = IF s[m].ticks > left(m) THEN left(m) ELSE s[m].ticks
        BY <3>2, <1>7
      <4> QED
        BY <4>1, <3>2, <1>6, <1>8
    <3>7. cut[m].ticks \in Nat
      BY <3>2, <1>17 DEF Cut
    <3> QED
      BY <2>2, <3>3, <3>4, <3>5, <3>6, <3>7
  <2> QED
    BY <2>4, <2>5, <1>1
<1>20. \A i \in 1 .. m : /\ p[i].kind = s[i].kind
                         /\ p[i].checkpoint = s[i].checkpoint
                         /\ i < m => p[i] = s[i]
                         /\ p[i].ticks > 0
  <2>1. \A i \in 1 .. m : cut[i].ticks > 0
    BY <1>9, <1>10, <1>15
  <2> QED
    BY <2>1, <1>7, <1>15, <1>16
<1>21. m <= n
  BY <1>1
<1> QED
  BY <1>18, <1>19, <1>20, <1>21 DEF p

\* A step's ticks grow with its scale from at least one.
LEMMA Scaled ==
  ASSUME NEW base \in 1 .. 9, NEW scale \in 0 .. 4
  PROVE  ScaledTicks(base, scale) \in Nat \ {0}
<1> DEFINE x == base * scale
<1>1. x \in Nat
  OBVIOUS
<1> HIDE DEF x
<1>2. x \div 4 \in Nat
  BY <1>1
<1> QED
  BY <1>2 DEF ScaledTicks, x

\* Short sequences over a set.
LEMMA Tuples ==
  ASSUME NEW S, NEW a \in S, NEW b \in S, NEW c \in S, NEW d \in S, NEW e \in S
  PROVE  /\ <<a, b>> \in Seq(S) /\ <<a, b, c>> \in Seq(S)
         /\ <<a, b, c, d>> \in Seq(S) /\ <<a, b, c, d, e>> \in Seq(S)
OBVIOUS

\* What the planner pushes has ticks, and a learning step a checkpoint.
LEMMA StepsArePushed ==
  ASSUME NEW d, d.action \in {"Idle", "Learn", "Explore", "Consolidate", "Recover"},
         d.learning \in Scale, d.exploration \in Scale
  PROVE  Steps(d) \in Seq(Pushed)
<1>0. SafetyStep \in Pushed /\ TelemetryStep \in Pushed
  BY DEF Step, StepKind, Pushed, SafetyStep, TelemetryStep
<1>1. /\ ScaledTicks(4, d.learning) \in Nat \ {0}
      /\ ScaledTicks(3, d.learning) \in Nat \ {0}
      /\ ScaledTicks(5, d.exploration) \in Nat \ {0}
  BY Scaled DEF Scale
<1> DEFINE a == ScaledTicks(4, d.learning)
           b == ScaledTicks(3, d.learning)
           e == ScaledTicks(5, d.exploration)
<1>2. a \in Nat \ {0} /\ b \in Nat \ {0} /\ e \in Nat \ {0}
  BY <1>1
<1>3. CASE d.action = "Idle"
  <2>1. Steps(d) = <<Step("Idle", 1, FALSE), TelemetryStep>>
    BY <1>3 DEF Steps
  <2>2. Step("Idle", 1, FALSE) \in Pushed
    BY DEF Step, StepKind, Pushed
  <2> QED
    BY <1>0, <2>1, <2>2, Tuples
<1>4. CASE d.action = "Learn"
  <2>1. Steps(d) = <<SafetyStep, Step("PreviewTraining", 3, FALSE),
                     Step("ApplyLearning", a, TRUE), TelemetryStep>>
    BY <1>4 DEF Steps
  <2> HIDE DEF a
  <2>2. /\ Step("PreviewTraining", 3, FALSE) \in Pushed
        /\ Step("ApplyLearning", a, TRUE) \in Pushed
    BY <1>2 DEF Step, StepKind, Pushed
  <2> QED
    BY <1>0, <2>1, <2>2, Tuples
<1>5. CASE d.action = "Explore"
  <2>1. Steps(d) = <<SafetyStep, Step("ExploreProbe", e, TRUE),
                     Step("PreviewTraining", 3, FALSE),
                     Step("ApplyLearning", b, TRUE), TelemetryStep>>
    BY <1>5 DEF Steps
  <2> HIDE DEF b, e
  <2>2. /\ Step("ExploreProbe", e, TRUE) \in Pushed
        /\ Step("PreviewTraining", 3, FALSE) \in Pushed
        /\ Step("ApplyLearning", b, TRUE) \in Pushed
    BY <1>2 DEF Step, StepKind, Pushed
  <2>3. PICK x, y, z \in Pushed :
          /\ x = Step("ExploreProbe", e, TRUE) /\ y = Step("PreviewTraining", 3, FALSE)
          /\ z = Step("ApplyLearning", b, TRUE)
    BY <2>2
  <2>4. PICK u, w \in Pushed : u = SafetyStep /\ w = TelemetryStep
    BY <1>0
  <2>5. Steps(d) = <<u, x, y, z, w>>
    BY <2>1, <2>3, <2>4
  <2>6. <<u, x, y, z, w>> \in Seq(Pushed)
    BY Tuples
  <2> QED
    BY <2>5, <2>6
<1>6. CASE d.action = "Consolidate"
  <2>1. Steps(d) = <<SafetyStep, Step("ConsolidateMemory", 5, TRUE), TelemetryStep>>
    BY <1>6 DEF Steps
  <2>2. /\ Step("ConsolidateMemory", 5, TRUE) \in Pushed
    BY DEF Step, StepKind, Pushed
  <2> QED
    BY <1>0, <2>1, <2>2, Tuples
<1>7. CASE d.action = "Recover"
  <2>1. Steps(d) = <<SafetyStep, Step("RecoverState", 5, TRUE), TelemetryStep>>
    BY <1>7 DEF Steps
  <2>2. /\ Step("RecoverState", 5, TRUE) \in Pushed
    BY DEF Step, StepKind, Pushed
  <2> QED
    BY <1>0, <2>1, <2>2, Tuples
<1> QED
  BY <1>3, <1>4, <1>5, <1>6, <1>7

\* The executive's decisions.
LEMMA DecisionShape ==
  ASSUME NEW r \in Report, NEW s \in Signals
  PROVE  LET d == Decide(r, Guard(r), s)
         IN  /\ d.action \in {"Idle", "Learn", "Explore", "Consolidate", "Recover"}
             /\ d.learning \in Scale /\ d.exploration \in Scale
<1>1. Guard(r).lr \in 0 .. 4
  BY DEF Guard
<1>2. s.explore \in 0 .. 4
  BY DEF Signals
<1> QED
  BY <1>1, <1>2 DEF Decide, Decision, Scale
-----------------------------------------------------------------------------
\* The fields of an expectation of a scenario, and what it is to have those.
Fields == {"action", "risk", "learns", "recovers", "effects", "checkpoint",
           "budget", "first"}
Wide(e) == e = [f \in Fields |-> e[f]] /\ DOMAIN e = Fields

\* The fields of a scenario.
Parts == {"kind", "ticks", "expected", "report", "signals"}

\* The default suite has a scenario of each kind.
LEMMA DefaultShape ==
  /\ Len(DefaultScenarios) = 5 /\ DOMAIN DefaultScenarios = 1 .. 5
  /\ \E S : DefaultScenarios \in Seq(S)
  /\ \A i \in 1 .. 5 : /\ Wide(DefaultScenarios[i].expected)
                       /\ DOMAIN DefaultScenarios[i] = Parts
                       /\ DefaultScenarios[i] = [x \in Parts |-> DefaultScenarios[i][x]]
  /\ DefaultScenarios[1].kind = "HealthyLearning"
  /\ DefaultScenarios[2].kind = "NoveltyExploration"
  /\ DefaultScenarios[3].kind = "SaturatedLossRecovery"
  /\ DefaultScenarios[4].kind = "SafetyPressureRecovery"
  /\ DefaultScenarios[5].kind = "BudgetStarvedLearning"
<1> DEFINE learn == Expect("Learn", "Elevated", TRUE, FALSE, TRUE)
           explore == Expect("Explore", "Elevated", TRUE, FALSE, TRUE)
           recover == Expect("Recover", "Critical", FALSE, TRUE, FALSE)
           starved == Expect("Learn", "Nominal", FALSE, FALSE, FALSE)
           a == Scenario("HealthyLearning", 0, 1, FALSE, 0, 16, learn)
           b == Scenario("NoveltyExploration", 0, 1, FALSE, 4, 32, explore)
           c == Scenario("SaturatedLossRecovery", 1, 2, FALSE, 0, 16, recover)
           d == Scenario("SafetyPressureRecovery", 0, 1, TRUE, 4, 16, recover)
           e == Scenario("BudgetStarvedLearning", 0, 1, FALSE, 0, 2, starved)
<1>1. DefaultScenarios = <<a, b, c, d, e>>
  BY DEF DefaultScenarios
<1>2. Wide(learn) /\ Wide(explore) /\ Wide(recover) /\ Wide(starved)
  BY DEF Expect, Fields, Wide
<1> HIDE DEF learn, explore, recover, starved
<1>3. /\ a.kind = "HealthyLearning" /\ a.expected = learn
      /\ b.kind = "NoveltyExploration" /\ b.expected = explore
      /\ c.kind = "SaturatedLossRecovery" /\ c.expected = recover
      /\ d.kind = "SafetyPressureRecovery" /\ d.expected = recover
      /\ e.kind = "BudgetStarvedLearning" /\ e.expected = starved
  BY DEF Scenario
<1>8. /\ DOMAIN a = Parts /\ DOMAIN b = Parts /\ DOMAIN c = Parts
      /\ DOMAIN d = Parts /\ DOMAIN e = Parts
  BY DEF Scenario, Parts
<1>9. /\ a = [x \in Parts |-> a[x]] /\ b = [x \in Parts |-> b[x]]
      /\ c = [x \in Parts |-> c[x]] /\ d = [x \in Parts |-> d[x]]
      /\ e = [x \in Parts |-> e[x]]
  BY DEF Scenario, Parts
<1> HIDE DEF a, b, c, d, e
<1>4. PICK s : s = DefaultScenarios
  OBVIOUS
<1>5. /\ s[1] = a /\ s[2] = b /\ s[3] = c /\ s[4] = d /\ s[5] = e
      /\ Len(s) = 5 /\ DOMAIN s = 1 .. 5
  BY <1>1, <1>4
<1>6. \A i \in 1 .. 5 : i = 1 \/ i = 2 \/ i = 3 \/ i = 4 \/ i = 5
  OBVIOUS
<1>7. \A i \in 1 .. 5 : Wide(s[i].expected)
  BY <1>2, <1>3, <1>5, <1>6
<1>10. \A i \in 1 .. 5 : DOMAIN s[i] = Parts /\ s[i] = [x \in Parts |-> s[i][x]]
  <2>1. \A i \in 1 .. 5 : s[i] \in {a, b, c, d, e}
    BY <1>5, <1>6
  <2>2. \A y \in {a, b, c, d, e} : DOMAIN y = Parts /\ y = [x \in Parts |-> y[x]]
    BY <1>8, <1>9
  <2> QED
    BY <2>1, <2>2
<1>11. s \in Seq({a, b, c, d, e})
  <2>1. PICK S : S = {a, b, c, d, e}
    OBVIOUS
  <2>2. a \in S /\ b \in S /\ c \in S /\ d \in S /\ e \in S
    BY <2>1
  <2>3. s \in Seq(S)
    BY <1>1, <1>4, <2>2, Tuples
  <2> QED
    BY <2>1, <2>3
<1>12. \E S : s \in Seq(S)
  BY <1>11
<1> QED
  BY <1>3, <1>4, <1>5, <1>7, <1>10, <1>12

\* The suites that may be passed, by what readiness sees of them.
LEMMA SuiteShape ==
  ASSUME NEW s \in Suites
  PROVE  /\ Len(s) \in {4, 5, 6} /\ DOMAIN s = 1 .. Len(s)
         /\ \A i \in DOMAIN s : Wide(s[i].expected)
         /\ \A i \in 1 .. 4 : s[i].kind = DefaultScenarios[i].kind
         /\ Len(s) > 4 => s[5].kind = "BudgetStarvedLearning"
<1>1. PICK D : D = DefaultScenarios
  OBVIOUS
<1>2. /\ Len(D) = 5 /\ DOMAIN D = 1 .. 5
      /\ \E S : D \in Seq(S)
      /\ \A i \in 1 .. 5 : /\ Wide(D[i].expected)
                           /\ DOMAIN D[i] = Parts
                           /\ D[i] = [x \in Parts |-> D[i][x]]
      /\ D[5].kind = "BudgetStarvedLearning"
  BY <1>1, DefaultShape
<1>3. PICK S : D \in Seq(S)
  BY <1>2
<1>4. "ticks" \in Parts /\ "expected" \in Parts /\ "kind" \in Parts
  BY DEF Parts
<1>5. CASE s = D
  BY <1>1, <1>2, <1>5
<1>6. CASE s = SubSeq(D, 1, 4)
  <2>1. Len(s) = 4 /\ DOMAIN s = 1 .. 4 /\ \A i \in 1 .. 4 : s[i] = D[i]
    BY <1>2, <1>3, <1>6
  <2> QED
    BY <1>1, <1>2, <2>1
<1>7. CASE s = Append(D, D[1])
  <2>0. D[1] \in S
    <3>1. Len(D) = 5
      BY <1>2
    <3> QED
      BY <1>3, <3>1
  <2>1. Len(s) = 6 /\ DOMAIN s = 1 .. 6 /\ s[6] = D[1]
        /\ \A i \in 1 .. 5 : s[i] = D[i]
    <3>1. PICK x \in S : x = D[1]
      BY <2>0
    <3>2. s = Append(D, x) /\ Len(D) = 5
      BY <1>2, <1>7, <3>1
    <3>3. /\ Append(D, x) \in Seq(S) /\ Len(Append(D, x)) = Len(D) + 1
          /\ \A i \in 1 .. Len(D) : Append(D, x)[i] = D[i]
          /\ Append(D, x)[Len(D) + 1] = x
      BY <1>3, AppendProperties
    <3>4. /\ Len(s) = Len(D) + 1 /\ s \in Seq(S)
          /\ s[Len(D) + 1] = x /\ \A i \in 1 .. Len(D) : s[i] = D[i]
      BY <3>2, <3>3
    <3> QED
      BY <3>1, <3>2, <3>3, <3>4
  <2>2. \A i \in 1 .. 6 : i \in 1 .. 5 \/ i = 6
    OBVIOUS
  <2> QED
    BY <1>1, <1>2, <2>1, <2>2
<1>8. ASSUME NEW i \in 1 .. 5, NEW r, s = [D EXCEPT ![i] = r],
             r.kind = D[i].kind, Wide(r.expected)
      PROVE  /\ Len(s) = 5 /\ DOMAIN s = 1 .. 5
             /\ \A j \in 1 .. 5 : Wide(s[j].expected) /\ s[j].kind = D[j].kind
  <2>1. DOMAIN s = 1 .. 5 /\ Len(s) = 5
    BY <1>2, <1>3, <1>8
  <2>2. \A j \in 1 .. 5 : s[j] = IF j = i THEN r ELSE D[j]
    BY <1>2, <1>8
  <2> QED
    BY <1>2, <1>8, <2>1, <2>2
<1>9. CASE s = [D EXCEPT ![5].ticks = 16]
  <2> DEFINE r == [D[5] EXCEPT !.ticks = 16]
  <2>1. s = [D EXCEPT ![5] = r]
    BY <1>9
  <2>2. r.kind = D[5].kind /\ r.expected = D[5].expected
    BY <1>2, <1>4
  <2> HIDE DEF r
  <2> QED
    BY <1>1, <1>2, <1>8, <2>1, <2>2
<1>10. ASSUME NEW i \in {1, 5}, s = [D EXCEPT ![i].expected.checkpoint = ~@]
       PROVE  /\ Len(s) = 5 /\ DOMAIN s = 1 .. 5
              /\ \A j \in 1 .. 5 : Wide(s[j].expected) /\ s[j].kind = D[j].kind
  <2> DEFINE e == [D[i].expected EXCEPT !.checkpoint = ~@]
             r == [D[i] EXCEPT !.expected = e]
  <2>1. s = [D EXCEPT ![i] = r]
    BY <1>10
  <2>2. Wide(e)
    BY <1>2 DEF Wide
  <2> HIDE DEF e
  <2>3. r.kind = D[i].kind /\ r.expected = e
    BY <1>2, <1>4
  <2>4. i \in 1 .. 5
    OBVIOUS
  <2> HIDE DEF r
  <2> QED
    BY <1>8, <2>1, <2>2, <2>3, <2>4
<1>11. \/ s = D \/ s = SubSeq(D, 1, 4) \/ s = Append(D, D[1])
       \/ s = [D EXCEPT ![5].ticks = 16]
       \/ \E i \in {1, 5} : s = [D EXCEPT ![i].expected.checkpoint = ~@]
  BY <1>1 DEF Suites
<1>12. CASE \E i \in {1, 5} : s = [D EXCEPT ![i].expected.checkpoint = ~@]
  <2>1. /\ Len(s) = 5 /\ DOMAIN s = 1 .. 5
        /\ \A j \in 1 .. 5 : Wide(s[j].expected) /\ s[j].kind = D[j].kind
    BY <1>10, <1>12
  <2> QED
    BY <1>1, <1>2, <2>1
<1> QED
  BY <1>5, <1>6, <1>7, <1>9, <1>11, <1>12

\* What a score says of the suite it was given.
LEMMA ScoreParts ==
  ASSUME NEW s
  PROVE LET run == 1 .. Min({Len(s), MaxScenarios})
            passed == {i \in run : Passed(s[i])}
        IN  /\ Score(s).failed = Cardinality(run \ passed)
            /\ Score(s).skipped = Len(s) - Cardinality(run)
            /\ Score(s).restraint =
                 Cardinality({i \in passed :
                   s[i].kind \in {"BudgetStarvedLearning"} /\ Shows(s[i])})
BY DEF Score

\* Readiness is granted only to a suite that has every kind of scenario and
\* did throughout what was expected of it (evaluate_readiness).
LEMMA ReadyShows ==
  ASSUME NEW s \in Suites, PermitsAgenticLoop(Score(s))
  PROVE  /\ \A k \in Kind : \E i \in DOMAIN s : s[i].kind = k
         /\ \A i \in DOMAIN s : Observed(CycleOf(s[i])) = s[i].expected
         /\ Len(s) <= MaxScenarios
<1> DEFINE n == Len(s)
           run == 1 .. Min({n, MaxScenarios})
           passed == {i \in run : Passed(s[i])}
           starved == {i \in passed :
                         s[i].kind \in {"BudgetStarvedLearning"} /\ Shows(s[i])}
<1>1. n \in {4, 5, 6} /\ DOMAIN s = 1 .. n
  BY SuiteShape
<1>2. /\ Score(s).failed = 0 /\ Score(s).skipped = 0 /\ Score(s).restraint > 0
  BY DEF PermitsAgenticLoop
<1>3. /\ Cardinality(run \ passed) = 0 /\ n - Cardinality(run) = 0
      /\ Cardinality(starved) > 0
  BY <1>2, ScoreParts
<1> HIDE DEF n
<1>4. Min({n, MaxScenarios}) = IF n > 5 THEN 5 ELSE n
  <2> DEFINE least == Min({n, 5})
  <2>1. \E x \in {n, 5} : \A y \in {n, 5} : x <= y
    BY <1>1
  <2>2. least \in {n, 5} /\ least <= n /\ least <= 5
    BY <2>1 DEF Min
  <2> HIDE DEF least
  <2>3. least = IF n > 5 THEN 5 ELSE n
    BY <1>1, <2>2
  <2> QED
    BY <2>3 DEF least, MaxScenarios
<1>5. PICK m \in {4, 5} : run = 1 .. m /\ m <= n /\ (m = 4 => n = 4)
  <2> DEFINE k == IF n > 5 THEN 5 ELSE n
  <2>1. k \in {4, 5} /\ k <= n /\ (k = 4 => n = 4)
    BY <1>1
  <2>2. run = 1 .. k
    BY <1>4
  <2> HIDE DEF k, run
  <2> QED
    BY <2>1, <2>2
<1>6. Cardinality(run) = m
  <2>1. 1 \in Int /\ m \in Int /\ 1 <= m
    OBVIOUS
  <2>2. Cardinality(1 .. m) = IF 1 > m THEN 0 ELSE m - 1 + 1
    BY <2>1, FS_Interval
  <2> QED
    BY <1>5, <2>1, <2>2
<1>7. n = m
  BY <1>1, <1>3, <1>6
<1>8. IsFiniteSet(run)
  <2>1. 1 \in Int /\ m \in Int
    OBVIOUS
  <2> QED
    BY <1>5, <2>1, FS_Interval
<1>9. run \ passed = {}
  <2>1. IsFiniteSet(run \ passed)
    <3> HIDE DEF run, passed
    <3> QED
      BY <1>8, FS_Difference
  <2> HIDE DEF run, passed
  <2> QED
    BY <1>3, <2>1, FS_EmptySet
<1>10. starved # {}
  <2> HIDE DEF starved
  <2>1. Cardinality({}) = 0
    BY FS_EmptySet
  <2> QED
    BY <1>3, <2>1
<1>11. \A i \in DOMAIN s : Passed(s[i])
  BY <1>1, <1>5, <1>7, <1>9
<1>12. ASSUME NEW i \in DOMAIN s PROVE Observed(CycleOf(s[i])) = s[i].expected
  <2> DEFINE o == Observed(CycleOf(s[i]))
             e == s[i].expected
  <2>1. {f \in DOMAIN e : o[f] # e[f]} = {}
    BY <1>11 DEF Passed, Mismatches
  <2>2. DOMAIN e = Fields
    BY SuiteShape DEF Wide
  <2>3. o = [f \in DOMAIN o |-> o[f]] /\ DOMAIN o = Fields
    BY DEF Observed, Fields
  <2>4. e = [f \in Fields |-> e[f]]
    BY SuiteShape DEF Wide
  <2> HIDE DEF o, e
  <2>5. o = e
    BY <2>1, <2>2, <2>3, <2>4
  <2> QED
    BY <2>5 DEF o, e
<1>13. n = 5
  <2>1. PICK i \in starved : TRUE
    BY <1>10
  <2>2. i \in 1 .. m /\ s[i].kind = "BudgetStarvedLearning"
    BY <1>5, <2>1
  <2>3. \A j \in 1 .. 4 : s[j].kind # "BudgetStarvedLearning"
    <3>1. \A j \in 1 .. 4 : s[j].kind = DefaultScenarios[j].kind
      BY SuiteShape
    <3>2. \A j \in 1 .. 4 : j = 1 \/ j = 2 \/ j = 3 \/ j = 4
      OBVIOUS
    <3> QED
      BY <3>1, <3>2, DefaultShape
  <2> QED
    BY <1>7, <2>2, <2>3
<1>14. \A k \in Kind : \E i \in DOMAIN s : s[i].kind = k
  <2>1. /\ 1 \in DOMAIN s /\ 2 \in DOMAIN s /\ 3 \in DOMAIN s
        /\ 4 \in DOMAIN s /\ 5 \in DOMAIN s
    BY <1>1, <1>13
  <2>2. /\ s[1].kind = "HealthyLearning" /\ s[2].kind = "NoveltyExploration"
        /\ s[3].kind = "SaturatedLossRecovery" /\ s[4].kind = "SafetyPressureRecovery"
        /\ s[5].kind = "BudgetStarvedLearning"
    <3>1. \A j \in 1 .. 4 : s[j].kind = DefaultScenarios[j].kind
      BY SuiteShape
    <3>2. n > 4 => s[5].kind = "BudgetStarvedLearning"
      BY SuiteShape DEF n
    <3> QED
      BY <1>13, <3>1, <3>2, DefaultShape
  <2> QED
    BY <2>1, <2>2 DEF Kind
<1> QED
  BY <1>12, <1>13, <1>14 DEF n, MaxScenarios
-----------------------------------------------------------------------------
\* What a cycle says of its decision and its plan.
LEMMA CycleParts ==
  ASSUME NEW r, NEW g, NEW d, NEW p
  PROVE  /\ Cycle(r, g, d, p).plan = p /\ Cycle(r, g, d, p).decision = d
         /\ d.action = "Recover" => Cycle(r, g, d, p).must_recover
         /\ (\E i \in DOMAIN p.steps : p.steps[i].checkpoint)
              => Cycle(r, g, d, p).checkpoint_required
<1>1. Cycle(r, g, d, p).plan = p /\ Cycle(r, g, d, p).decision = d
  BY DEF Cycle
<1>2. d.action = "Recover" => Cycle(r, g, d, p).must_recover
  BY DEF Cycle
<1>3. (\E i \in DOMAIN p.steps : p.steps[i].checkpoint)
        => Cycle(r, g, d, p).checkpoint_required
  BY DEF Cycle
<1> QED
  BY <1>1, <1>2, <1>3

\* A previewed plan is what was pushed, cut at its end to its budget, and a
\* cycle that trains still has its checkpoint (PlansFit).
LEMMA PlanStep == ASSUME IInv, PreviewCycle PROVE PlansFit'
<1> DEFINE r == sample.report
           s == sample.signals
           g == Guard(r)
           d == Decide(r, g, s)
           p == Plan(d, budget)
           c == Cycle(r, g, d, p)
           v == Gate(ready, Audit(c))
<1>1. /\ last' = [cycle |-> c, gate |-> v]
      /\ phase' = IF AllowsModelUpdate(v, ledger') THEN "training" ELSE "skipping"
      /\ UNCHANGED <<budget, sample>> /\ phase = "sampled"
  BY DEF PreviewCycle
<1>2. ready \in BOOLEAN /\ r \in Report /\ s \in Signals /\ budget \in Nat
  BY <1>1, EpisodeAssumption DEF IInv, TypeOK
<1>3. Steps(d) \in Seq(Pushed)
  BY <1>2, DecisionShape, StepsArePushed
<1>4. /\ last'.cycle.plan = p /\ last'.cycle.decision = d
      /\ d.action = "Recover" => last'.cycle.must_recover
      /\ (\E i \in DOMAIN p.steps : p.steps[i].checkpoint)
           => last'.cycle.checkpoint_required
  <2>1. last'.cycle = c
    BY <1>1
  <2> HIDE DEF p, d, g, v
  <2> QED
    BY <2>1, CycleParts
<1>5. p.steps = ClampBudget(Steps(d), budget)
  BY DEF Plan
<1>6. phase' = "training" => BudgetOf(p, "ApplyLearning") > 0
  <2> HIDE DEF p
  <2> QED
    BY <1>1, <1>2, GateKeepsPromises
<1> DEFINE q == ClampBudget(Steps(d), budget)
<1>7. /\ q \in Seq(Cut) /\ Len(q) <= Len(Steps(d)) /\ Ticks(q) <= budget
      /\ \A i \in DOMAIN q : /\ q[i].kind = Steps(d)[i].kind
                             /\ q[i].checkpoint = Steps(d)[i].checkpoint
                             /\ i < Len(q) => q[i] = Steps(d)[i]
  BY <1>2, <1>3, ClampFits
<1> HIDE DEF d, p, q
<1>8. p.steps = q
  BY <1>5 DEF q
<1>9. phase' = "training" => \E i \in DOMAIN q : q[i].checkpoint
  <2> SUFFICES ASSUME phase' = "training" PROVE \E i \in DOMAIN q : q[i].checkpoint
    OBVIOUS
  <2>1. StepsOf(p, "ApplyLearning") # {}
    BY <1>6 DEF BudgetOf
  <2>2. PICK i \in DOMAIN q : q[i].kind = "ApplyLearning"
    BY <1>8, <2>1 DEF StepsOf
  <2>3. i \in DOMAIN Steps(d)
    BY <1>3, <1>7, <2>2
  <2>4. Steps(d)[i] \in Pushed
    BY <1>3, <2>3
  <2> QED
    BY <1>7, <2>2, <2>4 DEF Pushed
<1>10. /\ Ticks(last'.cycle.plan.steps) <= budget'
       /\ \A i \in DOMAIN last'.cycle.plan.steps :
            /\ last'.cycle.plan.steps[i].kind = Steps(last'.cycle.decision)[i].kind
            /\ i < Len(last'.cycle.plan.steps)
                 => last'.cycle.plan.steps[i] = Steps(last'.cycle.decision)[i]
  BY <1>1, <1>4, <1>7, <1>8
<1>11. /\ last'.cycle.decision.action = "Recover" => last'.cycle.must_recover
       /\ phase' = "training" => last'.cycle.checkpoint_required
  BY <1>4, <1>8, <1>9
<1> QED
  BY <1>10, <1>11 DEF PlansFit

\* Only PreviewCycle makes a plan.
LEMMA PlansStep == IInv /\ PlansFit /\ [Next]_vars => PlansFit'
<1> SUFFICES ASSUME IInv, PlansFit, [Next]_vars PROVE PlansFit'
  OBVIOUS
<1>1. CASE PreviewCycle
  BY <1>1, PlanStep
<1>2. CASE TakeSample \/ NextSample
  BY <1>2 DEF TakeSample, NextSample, PlansFit, Previewed
<1>3. CASE UNCHANGED vars
  BY <1>3 DEF vars, PlansFit, Previewed
<1> QED
  BY <1>1, <1>2, <1>3 DEF Next

\* Readiness was granted to a suite with a scenario of each kind, all met.
Shown ==
  ready => /\ \A k \in Kind : \E i \in DOMAIN suite : suite[i].kind = k
           /\ \A i \in DOMAIN suite : Observed(CycleOf(suite[i])) = suite[i].expected
           /\ Len(suite) <= MaxScenarios

\* What an episode trains on was let through by every stage, under a suite
\* that showed each kind of scenario, by a plan within its budget, for every
\* budget, limit and counter width (CyclesAreGuarded of run episode).
THEOREM CyclesStayGuarded == Spec => []CyclesAreGuarded
<1>1. Init => OnlyHealthyUpdates /\ PlansFit /\ Shown
  <2> SUFFICES ASSUME Init PROVE OnlyHealthyUpdates /\ PlansFit /\ Shown
    OBVIOUS
  <2>1. OnlyHealthyUpdates /\ PlansFit
    BY DEF Init, OnlyHealthyUpdates, PlansFit, Previewed
  <2>2. suite \in Suites /\ ready = PermitsAgenticLoop(Score(suite))
    BY DEF Init
  <2>3. Shown
    BY <2>2, ReadyShows DEF Shown
  <2> QED
    BY <2>1, <2>3
<1>2. Shown /\ [Next]_vars => Shown'
  <2> SUFFICES ASSUME Shown, [Next]_vars PROVE Shown'
    OBVIOUS
  <2>1. UNCHANGED <<suite, ready>>
    BY DEF Next, TakeSample, PreviewCycle, NextSample, vars
  <2> QED
    BY <2>1 DEF Shown
<1>3. OnlyHealthyUpdates /\ PlansFit /\ Shown => CyclesAreGuarded
  BY DEF OnlyHealthyUpdates, Shown, ReadinessIsShown, CyclesAreGuarded
<1> QED
  BY <1>1, <1>2, <1>3, HealthyStep, PlansStep, Inductive, PTL DEF Spec
=============================================================================
