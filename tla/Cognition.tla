------------------------------ MODULE Cognition ------------------------------
(***************************************************************************)
(* The dry-run pipeline of HKL-2 (src/cognition, feature hkl2): from the   *)
(* report of a previewed training step and the signals of the moment to    *)
(* the runtime gate's decision.  Every stage is a function of the one      *)
(* before; Episode holds the state.                                        *)
(*                                                                         *)
(* Magnitudes are graded by the thresholds they are compared with: 0 none, *)
(* 1 within the policy's limit, 2 beyond it.  Scales are quarters of ONE,  *)
(* so 4 is a full scale.  Priorities, reasons, trace ids and the causal    *)
(* trace are left out: nothing is decided on them.                         *)
(***************************************************************************)
EXTENDS Integers, Sequences, FiniteSets, FiniteSetsExt

Graded == 0 .. 2
Scale == 0 .. 4

\* TrainStepReport.  A trainer's empty report carries no counts.
Report ==
  {r \in [status : {"Empty", "Truncated", "Complete"}, invalid : Graded,
          saturated : Graded, loss : {1, 2}] :
     r.status = "Empty" => r.invalid = 0 /\ r.saturated = 0 /\ r.loss = 1}

\* CycleSignals: safety pressure beyond the policy, and the exploration scale
\* (zero when curiosity or novelty is below its threshold; it counts in an
\* Explore decision only).
Signals == [pressure : BOOLEAN, explore : {0, 4}]
-----------------------------------------------------------------------------
(* TrainingGuard::decide (training/monitor.rs)                             *)

\* Mutated form of Guard: invalid tokens are not looked at.
GuardSkipsInvalid(r) ==
  IF r.status = "Empty" \/ r.loss = 2 THEN [action |-> "Halt", lr |-> 0]
  ELSE IF r.saturated = 2 THEN [action |-> "Throttle", lr |-> 1]
  ELSE IF r.status = "Truncated" THEN [action |-> "Throttle", lr |-> 2]
  ELSE [action |-> "Continue", lr |-> 4]

Guard(r) ==
  IF r.status = "Empty" \/ r.invalid = 2 \/ r.loss = 2
  THEN [action |-> "Halt", lr |-> 0]
  ELSE IF r.saturated = 2 THEN [action |-> "Throttle", lr |-> 1]
  ELSE IF r.status = "Truncated" THEN [action |-> "Throttle", lr |-> 2]
  ELSE [action |-> "Continue", lr |-> 4]

(* ExecutiveLoop::decide: the first case that applies                      *)

Decision(action, learning, exploration) ==
  [action |-> action, learning |-> learning, exploration |-> exploration]

Decide(r, g, s) ==
  IF r.status = "Empty" THEN Decision("Idle", 0, 0)
  ELSE IF s.pressure \/ g.action = "Halt" THEN Decision("Recover", 0, 0)
  ELSE IF g.action = "Throttle" THEN Decision("Consolidate", g.lr, 0)
  ELSE IF s.explore > 0 THEN Decision("Explore", 2, s.explore)
  ELSE Decision("Learn", g.lr, 0)
-----------------------------------------------------------------------------
(* CognitivePlanner::plan                                                  *)

Step(kind, ticks, checkpoint) ==
  [kind |-> kind, ticks |-> ticks, checkpoint |-> checkpoint]

\* scaled_ticks
ScaledTicks(base, scale) == base + (base * scale) \div 4

SafetyStep == Step("SafetyCheck", 2, FALSE)
TelemetryStep == Step("EmitTelemetry", 1, FALSE)

\* The steps pushed for a decision, at most five of the six a plan can hold.
Steps(d) ==
  CASE d.action = "Idle" -> <<Step("Idle", 1, FALSE), TelemetryStep>>
    [] d.action = "Learn" ->
         <<SafetyStep, Step("PreviewTraining", 3, FALSE),
           Step("ApplyLearning", ScaledTicks(4, d.learning), TRUE), TelemetryStep>>
    [] d.action = "Explore" ->
         <<SafetyStep, Step("ExploreProbe", ScaledTicks(5, d.exploration), TRUE),
           Step("PreviewTraining", 3, FALSE),
           Step("ApplyLearning", ScaledTicks(3, d.learning), TRUE), TelemetryStep>>
    [] d.action = "Consolidate" ->
         <<SafetyStep, Step("ConsolidateMemory", 5, TRUE), TelemetryStep>>
    [] d.action = "Recover" ->
         <<SafetyStep, Step("RecoverState", 5, TRUE), TelemetryStep>>

\* The ticks of the first i steps, for each i.
Used(steps) ==
  LET used[i \in 0 .. Len(steps)] == IF i = 0 THEN 0 ELSE used[i - 1] + steps[i].ticks
  IN used

Ticks(steps) == Used(steps)[Len(steps)]

\* What is left of the budget for step i.
Left(steps, i, budget) ==
  LET used == Used(steps)[i - 1] IN IF used > budget THEN 0 ELSE budget - used

\* The steps that still have ticks, moved up over those that have none.
Compacted(steps) ==
  LET kept == {i \in DOMAIN steps : steps[i].ticks > 0}
  IN  [k \in 1 .. Cardinality(kept) |->
         steps[CHOOSE i \in kept : Cardinality({j \in kept : j <= i}) = k]]

\* clamp_budget: steps are cut to what is left and dropped at zero ticks.  A
\* plan within its budget is untouched, since no step is pushed with none.
ClampBudget(steps, budget) ==
  Compacted([i \in DOMAIN steps |->
               LET left == Left(steps, i, budget)
               IN [steps[i] EXCEPT !.ticks = IF @ > left THEN left ELSE @]])

\* The plan keeps rollback_required when RecoverState itself is cut away.
Plan(d, budget) ==
  [steps |-> ClampBudget(Steps(d), budget), rollback |-> d.action = "Recover"]
-----------------------------------------------------------------------------
(* CognitiveController::preview_cycle and CycleAuditRecord::from_cycle     *)

StepsOf(plan, kind) == {i \in DOMAIN plan.steps : plan.steps[i].kind = kind}

\* find_step's budget, zero when the plan has no such step.
BudgetOf(plan, kind) ==
  IF StepsOf(plan, kind) = {} THEN 0
  ELSE plan.steps[CHOOSE i \in StepsOf(plan, kind) :
                    \A j \in StepsOf(plan, kind) : i <= j].ticks

\* The report on a cycle with guard g's, the executive's d and the plan p.
Cycle(r, g, d, p) ==
  LET learning == BudgetOf(p, "ApplyLearning")
      may  == g.action # "Halt" /\ d.action # "Recover" /\ d.learning > 0 /\ learning > 0
      must == g.action = "Halt" \/ d.action = "Recover" \/ p.rollback
  IN [report |-> r, decision |-> d, plan |-> p,
      may_apply_learning |-> may, must_recover |-> must,
      checkpoint_required |->
        must \/ \E i \in DOMAIN p.steps : p.steps[i].checkpoint,
      learning_budget |-> learning, scale |-> IF may THEN d.learning ELSE 0]

Audit(c) ==
  LET learning == c.may_apply_learning /\ ~c.must_recover
      flags == {f \in {"APPLY_LEARNING", "RECOVERY_REQUIRED", "CHECKPOINT_REQUIRED",
                       "LOSS_SATURATED", "INVALID_TOKENS", "PLAN_EMPTY"} :
                  \/ f = "APPLY_LEARNING" /\ learning
                  \/ f = "RECOVERY_REQUIRED" /\ c.must_recover
                  \/ f = "CHECKPOINT_REQUIRED" /\ c.checkpoint_required
                  \/ f = "LOSS_SATURATED" /\ c.report.saturated > 0
                  \/ f = "INVALID_TOKENS" /\ c.report.invalid > 0
                  \/ f = "PLAN_EMPTY" /\ c.plan.steps = << >>}
  IN [action |-> c.decision.action, flags |-> flags,
      learning_budget |-> c.learning_budget, scale |-> c.scale,
      risk |-> IF c.must_recover THEN "Critical"
               ELSE IF flags \ {"APPLY_LEARNING"} # {} THEN "Elevated" ELSE "Nominal"]

\* allows_external_effects
AllowsEffects(a) ==
  "APPLY_LEARNING" \in a.flags /\ "RECOVERY_REQUIRED" \notin a.flags /\ a.risk # "Critical"
-----------------------------------------------------------------------------
(* evaluate_runtime_gate and the permissions of its decision; ready is     *)
(* ReadinessReport::permits_agentic_loop                                   *)

Gate(ready, a) ==
  LET recovery == "RECOVERY_REQUIRED" \in a.flags \/ a.action = "Recover"
      critical == a.risk = "Critical"
      empty == "PLAN_EMPTY" \in a.flags
      mode == IF ~ready THEN "Blocked"
              ELSE IF recovery \/ critical THEN "RecoveryOnly"
              ELSE IF empty THEN "ObserveOnly"
              ELSE IF a.action = "Explore" THEN "ExplorationAllowed"
              ELSE IF a.action = "Learn" /\ AllowsEffects(a) THEN "LearningAllowed"
              ELSE "ObserveOnly"
  IN [mode |-> mode,
      flags |-> {f \in {"READINESS_BLOCKED", "LIVE_RECOVERY", "LIVE_CRITICAL",
                        "NO_EFFECT_AUTH", "CHECKPOINT_REQUIRED",
                        "LEARNING_BUDGET_EMPTY", "PLAN_EMPTY"} :
                   \/ f = "READINESS_BLOCKED" /\ ~ready
                   \/ f = "LIVE_RECOVERY" /\ recovery
                   \/ f = "LIVE_CRITICAL" /\ critical
                   \/ f = "NO_EFFECT_AUTH" /\ a.action = "Learn" /\ ~AllowsEffects(a)
                   \/ f = "CHECKPOINT_REQUIRED" /\ "CHECKPOINT_REQUIRED" \in a.flags
                   \/ f = "LEARNING_BUDGET_EMPTY" /\ a.learning_budget = 0
                   \/ f = "PLAN_EMPTY" /\ empty},
      risk |-> a.risk, learning_budget |-> a.learning_budget,
      scale |-> IF mode = "LearningAllowed" THEN a.scale ELSE 0]

PermitsLearning(g) ==
  /\ g.mode = "LearningAllowed" /\ g.risk # "Critical"
  /\ g.flags \cap {"READINESS_BLOCKED", "LIVE_RECOVERY", "LIVE_CRITICAL",
                   "NO_EFFECT_AUTH", "LEARNING_BUDGET_EMPTY", "PLAN_EMPTY"} = {}
  /\ g.learning_budget > 0 /\ g.scale > 0

PermitsExploration(g) ==
  \/ PermitsLearning(g)
  \/ /\ g.mode = "ExplorationAllowed" /\ g.risk # "Critical"
     /\ g.flags \cap {"READINESS_BLOCKED", "LIVE_RECOVERY", "LIVE_CRITICAL",
                      "PLAN_EMPTY"} = {}

RequiresRecovery(g) ==
  /\ g.mode = "RecoveryOnly"
  /\ g.flags \cap {"LIVE_RECOVERY", "LIVE_CRITICAL"} # {} \/ g.risk = "Critical"
-----------------------------------------------------------------------------
(* Readiness: what an agent-like loop must show before it may start, a     *)
(* suite of scenarios run through the pipeline (cognition/scenario.rs) and *)
(* the maturity its score proves (cognition/readiness.rs, conservative     *)
(* policy).  Summary hashes are left out: nothing is decided on them.      *)
Kind == {"HealthyLearning", "NoveltyExploration", "SaturatedLossRecovery",
         "SafetyPressureRecovery", "BudgetStarvedLearning"}
MaxScenarios == 5
ExpectationPoints == 8

\* ScenarioExpectation; budget stands for has_learning_budget.
Expect(action, risk, learns, recovers, budget) ==
  [action |-> action, risk |-> risk, learns |-> learns, recovers |-> recovers,
   effects |-> learns, checkpoint |-> risk # "Nominal", budget |-> budget,
   first |-> "SafetyCheck"]

Scenario(kind, saturated, loss, pressure, explore, ticks, expected) ==
  [kind |-> kind, ticks |-> ticks, expected |-> expected,
   report |-> [status |-> "Complete", invalid |-> 0, saturated |-> saturated,
               loss |-> loss],
   signals |-> [pressure |-> pressure, explore |-> explore]]

\* default_scenarios
DefaultScenarios ==
  LET learn == Expect("Learn", "Elevated", TRUE, FALSE, TRUE)
      explore == Expect("Explore", "Elevated", TRUE, FALSE, TRUE)
      recover == Expect("Recover", "Critical", FALSE, TRUE, FALSE)
      starved == Expect("Learn", "Nominal", FALSE, FALSE, FALSE)
  IN  <<Scenario("HealthyLearning", 0, 1, FALSE, 0, 16, learn),
        Scenario("NoveltyExploration", 0, 1, FALSE, 4, 32, explore),
        Scenario("SaturatedLossRecovery", 1, 2, FALSE, 0, 16, recover),
        Scenario("SafetyPressureRecovery", 0, 1, TRUE, 4, 16, recover),
        Scenario("BudgetStarvedLearning", 0, 1, FALSE, 0, 2, starved)>>
-----------------------------------------------------------------------------
\* The cycle a scenario runs, in a controller of its own.
CycleOf(s) ==
  LET g == Guard(s.report)
      d == Decide(s.report, g, s.signals)
  IN  Cycle(s.report, g, d, Plan(d, s.ticks))

\* What a cycle did, in the terms of an expectation.
Observed(c) ==
  [action |-> Audit(c).action, risk |-> Audit(c).risk,
   learns |-> c.may_apply_learning, recovers |-> c.must_recover,
   effects |-> AllowsEffects(Audit(c)),
   checkpoint |-> "CHECKPOINT_REQUIRED" \in Audit(c).flags,
   budget |-> Audit(c).learning_budget > 0,
   first |-> IF c.plan.steps = << >> THEN "Idle" ELSE c.plan.steps[1].kind]

\* evaluate_scenario: the expectations a scenario fails.
Mismatches(s) ==
  {f \in DOMAIN s.expected : Observed(CycleOf(s))[f] # s.expected[f]}

Passed(s) == Mismatches(s) = {}

\* Whether a passed scenario is evidence of what its kind is to show.
Shows(s) ==
  LET a == Audit(CycleOf(s))
      learns == "APPLY_LEARNING" \in a.flags
      recovers == "RECOVERY_REQUIRED" \in a.flags
  IN  CASE s.kind = "HealthyLearning" -> learns /\ a.learning_budget > 0
        [] s.kind = "NoveltyExploration" -> learns /\ a.action = "Explore"
        [] s.kind \in {"SaturatedLossRecovery", "SafetyPressureRecovery"} ->
             recovers /\ a.risk = "Critical" /\ ~AllowsEffects(a)
        [] s.kind = "BudgetStarvedLearning" ->
             ~learns /\ ~recovers /\ a.learning_budget = 0

\* evaluate_scenarios and score_outcomes: at most MaxScenarios are run, the
\* others count as possible points.
Score(suite) ==
  LET run == 1 .. Min({Len(suite), MaxScenarios})
      passed == {i \in run : Passed(suite[i])}
      points(kinds) ==
        Cardinality({i \in passed : suite[i].kind \in kinds /\ Shows(suite[i])})
      earned == MapThenSumSet(
        LAMBDA i : ExpectationPoints - Cardinality(Mismatches(suite[i])), run)
      possible == ExpectationPoints * Len(suite)
  IN  [requested |-> Len(suite), len |-> Cardinality(run),
       failed |-> Cardinality(run \ passed),
       skipped |-> Len(suite) - Cardinality(run),
       capability |-> IF possible = 0 THEN 0 ELSE (earned * 1000) \div possible,
       learning |-> points({"HealthyLearning"}),
       exploration |-> points({"NoveltyExploration"}),
       recovery |-> points({"SaturatedLossRecovery", "SafetyPressureRecovery"}),
       restraint |-> points({"BudgetStarvedLearning"})]

\* ReadinessPolicy::conservative, already normalised.
Policy == [learning |-> 600, adaptive |-> 800, agentic |-> 1000, recovery |-> 2]

\* The flags of evaluate_readiness.
Flags(score) ==
  {f \in {"NO_SCENARIOS", "SKIPPED_SCENARIOS", "FAILED_SCENARIOS", "LOW_SCORE",
          "MISSING_LEARNING", "MISSING_EXPLORATION", "MISSING_RECOVERY",
          "MISSING_RESTRAINT"} :
     \/ f = "NO_SCENARIOS" /\ score.len = 0
     \/ f = "SKIPPED_SCENARIOS" /\ score.skipped > 0
     \/ f = "FAILED_SCENARIOS" /\ score.failed > 0
     \/ f = "LOW_SCORE" /\ score.capability < Policy.learning
     \/ f = "MISSING_LEARNING" /\ score.learning = 0
     \/ f = "MISSING_EXPLORATION" /\ score.exploration = 0
     \/ f = "MISSING_RECOVERY" /\ score.recovery < Policy.recovery
     \/ f = "MISSING_RESTRAINT" /\ score.restraint = 0}

\* Its level.
Level(score) ==
  IF score.len = 0 \/ score.failed > 0 \/ score.skipped > 0 THEN "Blocked"
  ELSE IF /\ score.capability >= Policy.agentic /\ score.learning > 0
          /\ score.exploration > 0 /\ score.recovery >= Policy.recovery
          /\ score.restraint > 0
       THEN "AgenticCandidate"
  ELSE IF score.capability >= Policy.adaptive /\ score.learning > 0
          /\ score.recovery > 0
       THEN "AdaptiveReady"
  ELSE IF score.capability >= Policy.learning /\ score.learning > 0
       THEN "LearningReady"
  ELSE "ObserveOnly"

\* permits_agentic_loop of the report on a suite.
PermitsAgenticLoop(score) ==
  /\ Level(score) = "AgenticCandidate" /\ Flags(score) = {}
  /\ score.len > 0 /\ score.requested = score.len
  /\ score.failed = 0 /\ score.skipped = 0 /\ score.capability = 1000
  /\ score.learning > 0 /\ score.exploration > 0
  /\ score.recovery > 0 /\ score.restraint > 0
=============================================================================
