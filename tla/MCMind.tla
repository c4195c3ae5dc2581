-------------------------------- MODULE MCMind -------------------------------
(* What the cognitive modules make of a step: the workspace with its       *)
(* override, attention, foresight, hormones, the bio modules and the sense *)
(* of time; and the service through which clients talk to the model that   *)
(* runs beside them.  They share no variable, so a behaviour drives one.   *)
(*                                                                         *)
(* Periods are divided down to a few steps in the order the code has them, *)
(* levels to the ends of their range and the thresholds between.           *)
EXTENDS Workspace, Service, TLC

CONSTANTS LayerIn, TopLayer, Voltages, Common, Biases, SalPeriod, Shift, Half,
          BottomUp, TopDown,                    \* of Attention
          Acts, Hashes, Reach, MaxPatterns, Offsets, Targets, MaxMs,
          MaxEvents,                            \* of Temporal
          Layers, Looks, History, Actions, Hypotheses, Banks, Prototypes,
          Buckets, HashSpan, Potentials, Energy, MaxTime, MaxCycles,   \* of Foresight
          PredErrors, MaxError, Percents, Rates, ModePeriod, CalPeriod,
          AdaptTerm, MaxSteps,                                \* of Hormones
          Relays, Striosomes, Slices, Matrix, Cols, Purkinje, Rise, Rhythm,
          Pulse, Beat, StrioPeriod, AstroPeriod, CerebPeriod, Attentions,
          Errors, Dopamines, Precision, Dt, MaxTick           \* of BioModules

\* A model of two dimensions and three tokens, with weights for which the
\* neurons come to a dozen states and predict each of the tokens; two
\* connections, three packets.
ClientSymmetry == Permutations(Client)

MCVocab == 0 .. 2
ByToken(s) == [t \in MCVocab |-> s[t + 1]]
MCCurrent == ByToken(<<<<8, -7>>, <<0, -7>>, <<-4, 10>>>>)
MCHead == ByToken(<<<<-1, -1>>, <<3, 0>>, <<0, 3>>>>)
MCQ == <<<<2, -2>>, <<5, 3>>>>
MCK == <<<<-2, 2>>, <<3, 0>>>>
MCV == <<<<4, 3>>, <<6, 5>>>>
MCO == <<<<-1, 3>>, <<6, 4>>>>
MC1 == <<<<-2, 6>>, <<-2, 6>>>>
MC2 == <<<<5, 5>>, <<0, 1>>>>
MCHello == <<1>>
MCWorld == <<2>>
MCStream == <<1, 2, 1>>
MCPrompt == <<2>>
MCTokens == <<1, 2>>

\* Two neurons in the first layer, one in the second, none in the third.
Layout == [n \in 0 .. 2 |-> IF n = 2 THEN 1 ELSE 0]

\* Two sensory neurons and one of the predictor's layer.
FourLayers == <<2, 0, 0, 1>>

\* Potentials have a greatest value, that of their type; the two weights of
\* the router are equal.
ASSUME AttentionAssumption ==
  /\ DOMAIN LayerIn \subseteq Nat /\ TopLayer \in Nat /\ Half \in Nat
  /\ Voltages \subseteq Int /\ \E top \in Voltages : \A x \in Voltages : x <= top
  /\ {BottomUp, TopDown} \subseteq Int /\ TopDown <= BottomUp
ASSUME TemporalAssumption ==
  /\ Reach \in Nat /\ MaxMs \in Nat /\ MaxPatterns \in Nat /\ Targets \subseteq Nat
\* What the networks look at are the first neurons, all of the first layer.
ASSUME ForesightAssumption ==
  /\ Layers \in Seq(Nat) /\ Looks \in Nat \ {0} /\ Layers # <<>>
  /\ Looks <= Layers[1]
  /\ {History, Actions, Hypotheses, Banks, Prototypes, HashSpan}
       \subseteq Nat \ {0}
  /\ Potentials \subseteq Int /\ 0 \in Potentials
\* Whoever calibrates also updates the cognitive mode.  A prediction error is
\* of any size, but there is a greatest.
ASSUME HormoneAssumption ==
  /\ MaxError \in Nat /\ PredErrors \subseteq 0 .. MaxError
  /\ Percents \subseteq 0 .. 100 /\ Rates \subseteq 0 .. 100 /\ AdaptTerm \in Nat
  /\ {ModePeriod, CalPeriod} \subseteq Nat \ {0} /\ CalPeriod % ModePeriod = 0
ASSUME BioAssumption ==
  /\ {Relays, Striosomes, Slices, Cols, Purkinje} \subseteq Nat \ {0}
  /\ Relays > 1 /\ Rise \in Nat
  /\ Attentions \subseteq Nat /\ Errors \subseteq Nat /\ Dopamines \subseteq Int
  /\ {Rhythm, Beat, StrioPeriod, AstroPeriod, CerebPeriod, Precision}
       \subseteq Nat \ {0}
  /\ Pulse \in Nat /\ Matrix \in Nat /\ Dt \in 0 .. 100

VARIABLES part,
          shifts, bias, peak, loud, salient, focus,
          v, step, simulated, predictions, motors, recent, error, novelty,
          protos, mean_error, hyps, chosen, value, td,
          t, wired, h, mode, low, high, samples, calm, fresh,
          tick, rate, relay, calcium, winner, selected, strio, best, action,
          astro, weight, runs,
          ms, seen, log, patterns, cells, since, timer, asked

A == INSTANCE Attention WITH Levels <- Voltages, updates <- shifts
F == INSTANCE Foresight WITH
       Window <- Looks, time <- step, cycles <- simulated, history <- recent
H == INSTANCE Hormones WITH cooldown <- calm
B == INSTANCE BioModules WITH Cycle <- Rhythm
T == INSTANCE Temporal

attention == <<shifts, bias, peak, loud, salient, focus>>
foresight == <<v, step, simulated, predictions, motors, recent, error,
               novelty, protos, mean_error, hyps, chosen, value, td>>
hormones == <<t, wired, h, mode, low, high, samples, calm, fresh>>
bio == <<tick, rate, relay, calcium, winner, selected, strio, best, action,
         astro, weight, runs>>
temporal == <<ms, seen, log, patterns, cells, since, timer, asked>>
mindVars == <<part, workVars, vars, attention, foresight, hormones, bio, temporal>>

MindInit ==
  /\ part \in {"workspace", "service", "attention", "foresight", "hormones",
               "bio", "temporal"}
  /\ WorkInit
  /\ Init /\ (part # "service" => cortex = NewCortex)
  /\ A!AttInit
  /\ F!Init
  /\ H!HormoneInit /\ (part # "hormones" => wired)
  /\ B!BioInit
  /\ T!TemporalInit

\* Only the part a behaviour drives moves.
Still ==
  /\ UNCHANGED part
  /\ part = "workspace" \/ UNCHANGED workVars
  /\ part = "service" \/ UNCHANGED vars
  /\ part = "attention" \/ UNCHANGED attention
  /\ part = "foresight" \/ UNCHANGED foresight
  /\ part = "hormones" \/ UNCHANGED hormones
  /\ part = "bio" \/ UNCHANGED bio
  /\ part = "temporal" \/ UNCHANGED temporal

MindNext ==
  \/ part = "workspace" /\ WorkNext /\ Still
  \/ part = "service" /\ Next /\ Still
  \/ part = "attention" /\ A!AttNext /\ Still
  \/ part = "foresight" /\ F!Next /\ Still
  \/ part = "hormones" /\ H!HormoneStep /\ Still
  \/ part = "bio" /\ B!BioNext /\ Still
  \/ part = "temporal" /\ T!TemporalNext /\ Still

MindSpec == MindInit /\ [][MindNext]_mindVars

\* SafetyPrevails and OverrideNeedsQuiet are Workspace's own; StepsAreCounted,
\* EvalIsIsolated and WholeIsAnswered Service's.
\* See Attention: a focus chosen for its activity attends its neuron.
FocusIsInhabited == part = "attention" => A!FocusIsInhabited
\* See Foresight: a cycle is learnt once.
CyclesAreLearnt == part = "foresight" => F!CyclesAreLearnt
\* See Hormones and BioModules: what the levels are driven to, and the one
\* number every module sees.
SignalsAreFlat ==
  /\ part = "hormones" => H!HormonesAreSaturated
  /\ part = "bio" => B!NothingIsToldApart
\* See Temporal: patterns and timers.
TimeIsKept == part = "temporal" => T!PatternsWereSeen /\ T!TimerIsHonest
==============================================================================
