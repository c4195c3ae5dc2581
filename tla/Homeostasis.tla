------------------------------ MODULE Homeostasis ------------------------------
(***************************************************************************)
(* What should keep the network in balance and keep what it has learnt:    *)
(* homeostatic scaling (snn/homeostasis.rs) and the continual learning     *)
(* engine (cognitive/continual.rs).  Both are libraries: the network reads *)
(* the scaling error, and nothing but tests calls what changes it.         *)
(*                                                                         *)
(* Rates are fractions of one spike per step, scaled by ONE; thresholds    *)
(* are numbers of raises by a factor of 1.2; learning parameters are       *)
(* thousandths.                                                            *)
(***************************************************************************)
EXTENDS Integers, Sequences, FiniteSets

CONSTANTS Cells,            \* neurons, as numbers
          LayerOf,          \* neuron -> layer
          ONE,              \* the fixed-point one
          Window,           \* updates a rate is taken over: 1000
          TargetRate,       \* 10 * ONE
          MaxFactor,        \* 10 * ONE, MinFactor a tenth of ONE
          MinFactor,
          Pairs,            \* pairs of neurons
          Optima,           \* weights they may be protected at
          MaxProtected,     \* 256
          Eta, Theta,       \* learning rate and dopamine threshold: 10, 200
          Rate,             \* adaptation_rate: 5
          MinEta, MaxTheta, \* 1 and 800
          MaxRaises, MaxWindows, MaxTunings \* bounds on the runs

VARIABLES counts,           \* spike_counts
          window,           \* time_window
          factor,           \* scaling_factor
          error,            \* the error plasticity reads
          raised,           \* threshold raises of each neuron
          windows,          \* (bound) windows ended
          protected,        \* EWC's table, in order of protection
          eta, theta,       \* current_eta_stdp, current_theta_da
          tunings           \* (bound) calls of adapt_hyperparameters

scaleVars == <<counts, window, factor, error, raised, windows>>
learnVars == <<protected, eta, theta, tunings>>
homeVars == <<counts, window, factor, error, raised, windows, protected, eta,
              theta, tunings>>

HomeInit ==
  /\ counts = [n \in Cells |-> 0] /\ window = 0 /\ factor = ONE /\ error = 0
  /\ raised = [n \in Cells |-> 0] /\ windows = 0
  /\ protected = <<>> /\ eta = Eta /\ theta = Theta /\ tunings = 0

Clamp(x, lo, hi) == IF x < lo THEN lo ELSE IF x > hi THEN hi ELSE x

\* record_spike, for the neurons of one step: none fires twice in it.
Recorded(fired) == [n \in Cells |-> counts[n] + IF n \in fired THEN 1 ELSE 0]

\* A neuron's rate, in spikes per update.
RateOf(spikes) == (spikes * ONE) \div Window

\* The mean rate of the neurons that fired at all; their rates add up to the
\* number of points below them (none passes Window * ONE).
MeanRate(c) ==
  LET active == {n \in Cells : c[n] > 0}
      below == {p \in active \X (1 .. Window * ONE) : p[2] <= RateOf(c[p[1]])}
  IN IF active = {} THEN 0 ELSE Cardinality(below) \div Cardinality(active)

\* update, after the spikes of its step: at the end of a window the error and,
\* by a thousandth of it (here a tenth), the factor follow the mean rate.
Step ==
  \E fired \in SUBSET Cells :
    LET c == Recorded(fired)
        rate == MeanRate(c)
    IN IF window + 1 < Window
       THEN /\ counts' = c /\ window' = window + 1
            /\ UNCHANGED <<factor, error, raised, windows>>
       ELSE /\ windows < MaxWindows /\ windows' = windows + 1
            /\ counts' = [n \in Cells |-> 0] /\ window' = 0
            /\ IF rate = 0 THEN UNCHANGED <<factor, error>>
               ELSE /\ error' = TargetRate - rate
                    /\ factor' = Clamp(factor + (TargetRate - rate) \div 10,
                                       MinFactor, MaxFactor)
            /\ UNCHANGED raised

\* compensatory_scaling: every other neuron of a damaged one's layer, the other
\* damaged ones included, has its threshold raised once per damaged neuron.
Compensate ==
  \E damaged \in SUBSET Cells :
    LET hits(n) == {d \in damaged \ {n} : LayerOf[d] = LayerOf[n]}
    IN /\ raised' = [n \in Cells |-> raised[n] + Cardinality(hits(n))]
       /\ \A n \in Cells : raised'[n] <= MaxRaises
       /\ UNCHANGED <<counts, window, factor, error, windows>>

\* protect_synapse: a full table drops the pair, a known pair is added again.
Protect ==
  /\ \E p \in Pairs, w \in Optima :
       protected' = IF Len(protected) < MaxProtected
                    THEN Append(protected, [pair |-> p, weight |-> w])
                    ELSE protected
  /\ UNCHANGED <<eta, theta, tunings>>

\* Mutated form of Entry: the entry that was added last.
EntryLast(t, p) == LET is == {i \in DOMAIN t : t[i].pair = p}
                   IN CHOOSE i \in is : \A j \in is : j <= i
\* compute_ewc_penalty_delta uses the first entry of a pair.
Entry(t, p) == LET is == {i \in DOMAIN t : t[i].pair = p}
               IN CHOOSE i \in is : \A j \in is : i <= j
Guarded(t) == {t[i].pair : i \in DOMAIN t}
Optimum(t, p) == t[Entry(t, p)].weight

\* adapt_hyperparameters: each of the two is bounded on one side only.
Tune ==
  /\ tunings < MaxTunings /\ tunings' = tunings + 1
  /\ \/ eta' = eta + Rate /\ theta' = theta - Rate
     \/ /\ eta' = IF eta - Rate < MinEta THEN MinEta ELSE eta - Rate
        /\ theta' = IF theta + Rate > MaxTheta THEN MaxTheta ELSE theta + Rate
  /\ UNCHANGED protected

HomeNext == \/ (Step \/ Compensate) /\ UNCHANGED learnVars
            \/ (Protect \/ Tune) /\ UNCHANGED scaleVars
-----------------------------------------------------------------------------
\* The spikes of one window are never counted in the next: a neuron has fired
\* at most once in each of the window's updates.
CountsFitWindow == window < Window /\ \A n \in Cells : counts[n] <= window

\* The optimum a protected pair is pulled to never changes, also when the pair
\* is protected again at the weight a later task found.
FirstOptimumStays ==
  \A p \in Guarded(protected) : Optimum(protected', p) = Optimum(protected, p)

BalanceHolds == []CountsFitWindow /\ [][FirstOptimumStays]_homeVars

(* What a finding rests on: true of this code, and not what it should do.  *)

\* The scaling factor never falls, however much the network fires: a rate in
\* spikes per update cannot reach a target written in spikes per second.
ScalingOnlyGrows == factor' >= factor /\ error' >= 0
=============================================================================
