------------------------------ MODULE Episode ------------------------------
(***************************************************************************)
(* CognitiveEpisodeRunner (cognition/episode.rs) with the supervision      *)
(* ledger (cognition/supervisor.rs) it keeps over the cycles of an         *)
(* episode, and the training loop of examples/hkl2_training_loop.rs that   *)
(* previews every sample with it before it trains on it.                   *)
(*                                                                         *)
(* The ledger's telemetry (counters, flags no status reads, the summary    *)
(* hash, the learning scale summed up) decides nothing and is left out.    *)
(* The example loop breaks off on Stop; the runner itself may be asked     *)
(* again, and here it is.  CounterMax is the largest value of a u16.       *)
(***************************************************************************)
EXTENDS Cognition

CONSTANTS Budgets,      \* values of max_plan_budget_ticks
          Streaks,      \* values of SupervisionPolicy::max_recovery_streak
          CounterMax

ASSUME EpisodeAssumption ==
  /\ CounterMax \in Nat \ {0}
  /\ Budgets \subseteq Nat
  /\ Streaks \subseteq 0 .. CounterMax

VARIABLES suite,     \* the scenarios the readiness was evaluated on
          ready,     \* readiness.permits_agentic_loop()
          budget,    \* the planner's max_budget_ticks
          limit,     \* the ledger's policy, normalised
          ledger,    \* SupervisionLedger
          sample,    \* the loop's previewed report and signals, << >> between samples
          last,      \* the runner's cycle and gate decision on it, << >> before
          advice,    \* the last recommendation
          phase      \* where the training loop is

vars == <<suite, ready, budget, limit, ledger, sample, last, advice, phase>>

LedgerFlag == {"HAS_BLOCKED", "CRITICAL_SEEN", "RECOVERY_STREAK_LIMIT"}
Ledger == [recovery_streak : 0 .. CounterMax, max_streak_seen : 0 .. CounterMax,
           flags : SUBSET LedgerFlag]

NewLedger == [recovery_streak |-> 0, max_streak_seen |-> 0, flags |-> {}]

\* The default suite, and suites a caller may pass instead: one scenario
\* short, one too many, one with more budget than its kind is about, and ones
\* with an expectation the pipeline does not meet.
Suites ==
  {DefaultScenarios, SubSeq(DefaultScenarios, 1, 4),
   Append(DefaultScenarios, DefaultScenarios[1]),
   [DefaultScenarios EXCEPT ![5].ticks = 16]}
  \cup {[DefaultScenarios EXCEPT ![i].expected.checkpoint = ~@] : i \in {1, 5}}

Init ==
  /\ suite \in Suites
  /\ ready = PermitsAgenticLoop(Score(suite))
  /\ budget \in Budgets
  /\ \E p \in Streaks : limit = IF p = 0 THEN 1 ELSE p
  /\ ledger = NewLedger
  /\ sample = << >> /\ last = << >>
  /\ advice = "None"
  /\ phase = "head"
-----------------------------------------------------------------------------
(* SupervisionLedger                                                       *)

\* The mode a gate decision's own evidence supports.
EffectiveMode(d) ==
  IF RequiresRecovery(d) THEN "RecoveryOnly"
  ELSE IF d.mode = "Blocked" /\ "READINESS_BLOCKED" \in d.flags THEN "Blocked"
  ELSE IF PermitsLearning(d) THEN "LearningAllowed"
  ELSE IF PermitsExploration(d) THEN "ExplorationAllowed"
  ELSE "ObserveOnly"

Larger(m, n) == IF m < n THEN n ELSE m

\* A recovery prolongs the streak (saturating), anything else ends it.
NextStreak(l, d) ==
  IF EffectiveMode(d) # "RecoveryOnly" THEN 0
  ELSE IF l.recovery_streak = CounterMax THEN CounterMax
  ELSE l.recovery_streak + 1

\* Mutated form of SetFlags: the limit must be exceeded.
SetFlagsLate(streak, d) ==
  {f \in LedgerFlag :
     \/ f = "HAS_BLOCKED" /\ EffectiveMode(d) = "Blocked"
     \/ f = "CRITICAL_SEEN" /\ d.risk = "Critical"
     \/ f = "RECOVERY_STREAK_LIMIT" /\ streak > limit}

\* The flags a decision sets.
SetFlags(streak, d) ==
  {f \in LedgerFlag :
     \/ f = "HAS_BLOCKED" /\ EffectiveMode(d) = "Blocked"
     \/ f = "CRITICAL_SEEN" /\ d.risk = "Critical"
     \/ f = "RECOVERY_STREAK_LIMIT" /\ streak >= limit}

\* Mutated forms of Record: the flags describe the last cycle only; the
\* maximum is taken before the streak is prolonged.
RecordForgets(l, d) ==
  LET streak == NextStreak(l, d)
  IN [recovery_streak |-> streak,
      max_streak_seen |-> Larger(l.max_streak_seen, streak),
      flags |-> SetFlags(streak, d)]

RecordMaxFirst(l, d) ==
  LET streak == NextStreak(l, d)
  IN [recovery_streak |-> streak,
      max_streak_seen |-> Larger(l.max_streak_seen, l.recovery_streak),
      flags |-> l.flags \cup SetFlags(streak, d)]

\* record
Record(l, d) ==
  LET streak == NextStreak(l, d)
  IN [recovery_streak |-> streak,
      max_streak_seen |-> Larger(l.max_streak_seen, streak),
      flags |-> l.flags \cup SetFlags(streak, d)]

Status(l) ==
  IF "RECOVERY_STREAK_LIMIT" \in l.flags THEN "Quarantined"
  ELSE IF l.recovery_streak > 0 THEN "Recovering"
  ELSE IF l.flags \cap {"CRITICAL_SEEN", "HAS_BLOCKED"} # {} THEN "Watching"
  ELSE "Stable"
-----------------------------------------------------------------------------
(* CognitiveEpisodeRunner                                                  *)

Recommend(d, l) ==
  IF d.mode = "Blocked" \/ Status(l) = "Quarantined" THEN "Stop"
  ELSE IF RequiresRecovery(d) THEN "Recover"
  ELSE IF PermitsLearning(d) THEN "ApplyLearning"
  ELSE IF PermitsExploration(d) THEN "Probe"
  ELSE "Observe"

AllowsModelUpdate(d, l) ==
  Recommend(d, l) = "ApplyLearning" /\ PermitsLearning(d) /\ Status(l) # "Quarantined"

\* The loop previews a sample with the trainer and reads the signals.
TakeSample ==
  /\ phase = "head"
  /\ sample' \in [report : Report, signals : Signals]
  /\ phase' = "sampled"
  /\ UNCHANGED <<suite, ready, budget, limit, ledger, last, advice>>

\* preview_cycle, and what the loop then does with the sample.  (The
\* one-element sets bind each stage's result once.)
PreviewCycle ==
  /\ phase = "sampled"
  /\ \E g \in {Guard(sample.report)} :
     \E d \in {Decide(sample.report, g, sample.signals)} :
     \E p \in {Plan(d, budget)} :
     \E c \in {Cycle(sample.report, g, d, p)} :
     \E a \in {Audit(c)} :
     \E gate \in {Gate(ready, a)} :
     \E l \in {Record(ledger, gate)} :
       /\ last' = [cycle |-> c, gate |-> gate]
       /\ ledger' = l
       /\ advice' = Recommend(gate, l)
       /\ phase' = IF AllowsModelUpdate(gate, l) THEN "training" ELSE "skipping"
  /\ UNCHANGED <<suite, ready, budget, limit, sample>>

\* The sample is done with: trained on (train_step_report_scaled) or skipped.
NextSample ==
  /\ phase \in {"training", "skipping"}
  /\ phase' = "head"
  /\ sample' = << >> /\ last' = << >>
  /\ UNCHANGED <<suite, ready, budget, limit, ledger, advice>>

Next == TakeSample \/ PreviewCycle \/ NextSample

\* The loop goes on as long as there are samples.
Spec == Init /\ [][Next]_vars /\ WF_vars(Next)
-----------------------------------------------------------------------------
Previewed == phase \in {"training", "skipping"}

\* Inputs, ledger and loop stay in their domains (the streaks are u16).
TypeOK ==
  /\ ready \in BOOLEAN /\ budget \in Budgets /\ limit \in 1 .. CounterMax
  /\ ledger \in Ledger
  /\ advice \in {"None", "Stop", "Recover", "ApplyLearning", "Probe", "Observe"}
  /\ phase \in {"head", "sampled", "training", "skipping"}
  /\ phase # "head" => sample \in [report : Report, signals : Signals]

\* The model is trained only on a sample the guard let through unthrottled,
\* with no safety pressure, a mature scenario suite, a learning step left in
\* the plan's budget and no quarantine: what controller, audit, gate and
\* ledger together promise before any caller mutates model weights.
OnlyHealthyUpdates ==
  phase = "training" =>
    /\ ready /\ ~sample.signals.pressure
    /\ sample.report.status = "Complete" /\ sample.report.invalid < 2
    /\ sample.report.saturated < 2 /\ sample.report.loss < 2
    /\ BudgetOf(last.cycle.plan, "ApplyLearning") > 0
    /\ Status(ledger) # "Quarantined"

\* A model is trained only under a suite that had every kind of scenario and
\* whose every scenario did exactly what was expected of it, none skipped.
ReadinessIsShown ==
  phase = "training" =>
    /\ \A k \in Kind : \E i \in DOMAIN suite : suite[i].kind = k
    /\ \A i \in DOMAIN suite : Observed(CycleOf(suite[i])) = suite[i].expected
    /\ Len(suite) <= MaxScenarios

\* clamp_budget keeps a plan within its ticks and in its order, cuts it only
\* at the end, and never cuts away the duty to recover, nor the checkpoint
\* before a training.
PlansFit ==
  Previewed =>
    LET plan == last.cycle.plan
        wanted == Steps(last.cycle.decision)
    IN /\ Ticks(plan.steps) <= budget
       /\ \A i \in DOMAIN plan.steps :
            /\ plan.steps[i].kind = wanted[i].kind
            /\ i < Len(plan.steps) => plan.steps[i] = wanted[i]
       /\ last.cycle.decision.action = "Recover" => last.cycle.must_recover
       /\ phase = "training" => last.cycle.checkpoint_required

\* An episode is quarantined exactly when its longest run of recovery cycles
\* has reached the policy's limit, whatever happened since.
QuarantineMatchesStreak ==
  Status(ledger) = "Quarantined" <=> ledger.max_streak_seen >= limit

\* Stop is final: no later cycle, however healthy, is recommended anything else.
StopIsFinal == [][advice = "Stop" => advice' = "Stop"]_vars

\* When every cycle from some time on calls for recovery, the episode is
\* stopped for good (the recovery streak saturates at, not below, the limit).
TroubleStops ==
  <>[](Previewed => last.cycle.must_recover) => <>[](advice = "Stop")

\* A cycle that trains, and the plan of every cycle, are what they promise.
CyclesAreGuarded == OnlyHealthyUpdates /\ ReadinessIsShown /\ PlansFit
=============================================================================
