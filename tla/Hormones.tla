------------------------------- MODULE Hormones -------------------------------
(***************************************************************************)
(* The neuromodulators over one network step after another, in the order   *)
(* in which the step moves them: the safety entropy monitor                *)
(* (safety/entropy_monitor.rs), decay and calibration                      *)
(* (cognitive/networks.rs), prediction error and novelty (snn/network.rs), *)
(* the cognitive mode of the core entropy monitor (core/entropy.rs), which *)
(* overwrites them from its own copy (cognitive/neuromodulation.rs), the   *)
(* energy level, the broadcast of the workspace, and the predictive cycle. *)
(*                                                                         *)
(* Levels are percents, entropies tenths.  Network::neuromodulators is the *)
(* global copy.  The reward it adds is never set by anyone: zero.          *)
(***************************************************************************)
EXTENDS Integers

CONSTANTS PredErrors,       \* what prediction error and novelty take
          MaxError,         \* the greatest of them
          Percents,         \* what the temporal difference takes
          Rates,            \* adaptive_decay_rate, ten-thousandths: 5 .. 100
          ModePeriod,       \* steps between two cognitive updates: 10
          CalPeriod,        \* steps between two calibrations: 50
          AdaptTerm,        \* adapt_cooldown: 10
          MaxSteps          \* bound: steps

VARIABLES t,                \* Network::time
          wired,            \* is there any synapse
          h,                \* GLOBAL_NEUROMODULATORS
          mode, low, high, samples, cooldown,   \* the core entropy monitor
          fresh             \* (history) set by sync or a cycle in this step

hormoneVars == <<t, wired, h, mode, low, high, samples, cooldown, fresh>>

Between(x, lo, hi) == IF x < lo THEN lo ELSE IF x > hi THEN hi ELSE x
Unit(x) == Between(x, 0, 100)

HormoneInit ==
  /\ t = 0 /\ wired \in BOOLEAN /\ h = [na |-> 0, ht |-> 100, da |-> 0, ach |-> 50]
  /\ mode = "Balanced" /\ low = 30 /\ high = 70 /\ samples = 0 /\ cooldown = 0
  /\ fresh = TRUE

\* apply_plasticity asks the safety monitor, whose entropy stays at zero:
\* LowEntropy, hence inject_stochastic_noise.
Noisy(x) == [x EXCEPT !.da = 100, !.ach = 100]

\* Neuromodulators::decay at a rate of d ten-thousandths.
Decay(x, d) ==
  [na |-> (x.na * (10000 - d)) \div 10000,
   ht |-> (x.ht * (10000 - d) + 100 * d) \div 10000,
   da |-> (x.da * (10000 - d)) \div 10000,
   ach |-> (x.ach * (10000 - d)) \div 10000]

\* Mutated form of Blend: the target counts nine tenths.
BlendNew(old, target) == Unit((old + 9 * target) \div 10)
Blend(old, target) == Unit((9 * old + target) \div 10)
\* calibrate_neuromodulators, for any running statistics.
TargetLevels ==
  {[na |-> vol - (vol \div 10), ht |-> Between(100 - vol, 0, 80),
    da |-> s, ach |-> s] : vol \in {0, 100}, s \in {0, 100}}
Calibrated(x) ==
  {[f \in DOMAIN x |-> Blend(x[f], g[f])] : g \in TargetLevels}

\* Prediction error and novelty drive three of them; one is not clamped.  The
\* prediction error is a mean of potentials, which nothing clamps either.
Driven(x, pe, nov) ==
  [x EXCEPT !.na = @ + (pe \div 10), !.ht = Unit(@), !.da = Unit(@),
            !.ach = Unit(@ + (nov \div 10))]

\* compute_entropy: the histogram is never fed.
Entropy == 0

\* adapt_thresholds keeps the lower target between 1 and 6.
Lowest(x) == Between(x, 10, 60)

\* record_entropy and adapt_thresholds: the mean over at least two entries
\* of the history, and two standard deviations around it.
Mean(n) == IF n = 1 THEN Entropy \div 2 ELSE Entropy
TwoSigma(n) == IF n = 1 THEN Entropy ELSE 0
NewLow(n) == (7 * low + 3 * Lowest(Mean(n) - TwoSigma(n))) \div 10
NewHigh(n) == (7 * high + 3 * Between(Mean(n) + TwoSigma(n), 40, 75)) \div 10

\* derive_mode
ModeFor(lo, hi) ==
  CASE Entropy > hi -> "Crisis"
    [] Entropy < lo -> "Stable"
    [] Entropy >= lo /\ Entropy <= hi ->
         IF 2 * Entropy > lo + hi THEN "Explore" ELSE "Balanced"

\* apply_cognitive_mode and sync_to_snn; in balance the copy is what the
\* last mode left, or, before any, what it was initialised to.
Preset(m) ==
  CASE m = "Crisis" -> [na |-> 100, ht |-> 0, da |-> 50, ach |-> 100]
    [] m = "Explore" -> [na |-> 30, ht |-> 30, da |-> 100, ach |-> 100]
    [] m = "Stable" -> [na |-> 0, ht |-> 100, da |-> 20, ach |-> 30]
    [] OTHER -> [na |-> 0, ht |-> 50, da |-> 30, ach |-> 50]

\* The mode's effect on the levels, in every cognitive update.
Moody(x, m) ==
  CASE m = "Crisis" -> [x EXCEPT !.ht = 100, !.na = 0]
    [] m = "Explore" -> [x EXCEPT !.ach = 80, !.da = 70]
    [] m = "Stable" -> [x EXCEPT !.ht = 80]
    [] OTHER -> x

\* Survival mode.
Saved(x, starving) == IF starving THEN [x EXCEPT !.ht = 100, !.na = 0] ELSE x

\* process_global_workspace
Told(x) ==
  {x, [x EXCEPT !.na = 100, !.ht = 90], [x EXCEPT !.na = Unit(@ + 8)],
   [x EXCEPT !.ach = Unit(@ + 8), !.da = Unit(@ + 4)],
   [x EXCEPT !.ht = Unit(@ + 3)]}

\* cycle_trigger: in a cycle dopamine becomes the temporal difference.
Cycled(x) == {x} \cup {[x EXCEPT !.da = td] : td \in Percents}

\* update_neuromodulators up to the cognitive mode.
Before(now, d, pe, nov) ==
  LET x == Decay(Noisy(h), d)
  IN {Driven(y, pe, nov) : y \in IF now % CalPeriod = 0 THEN Calibrated(x) ELSE {x}}

HormoneStep ==
  LET now == t + 1
      asks == wired /\ now % ModePeriod = 0
      adapts == asks /\ cooldown = 0
      n == samples + 1
      m == IF adapts THEN ModeFor(NewLow(n), NewHigh(n)) ELSE mode
  IN
  /\ t < MaxSteps /\ t' = now /\ mode' = m
  /\ samples' = IF asks /\ samples < 2 THEN n ELSE samples
  /\ cooldown' = CASE adapts -> AdaptTerm
                   [] asks /\ ~adapts -> cooldown - 1
                   [] OTHER -> cooldown
  /\ low' = IF adapts THEN NewLow(n) ELSE low
  /\ high' = IF adapts THEN NewHigh(n) ELSE high
  /\ \E d \in Rates, pe \in PredErrors, nov \in PredErrors, starving \in BOOLEAN :
       \E x \in Before(now, d, pe, nov) :
         LET y == IF adapts THEN Preset(m) ELSE x
             z == Saved(IF asks THEN Moody(y, m) ELSE y, starving)
         IN \E u \in Told(z) : \E v \in Cycled(u) :
              h' = v /\ fresh' = (adapts \/ v # u)
  /\ UNCHANGED wired
-----------------------------------------------------------------------------
\* The hormones tell the network next to nothing.  Once there are synapses to
\* ask about, the cognitive mode settles on Stable, for no weight is ever
\* sampled, and serotonin never falls below 0.8 again; unless this very step
\* overwrote them, dopamine and acetylcholine are near one whatever the
\* reward and the novelty; and noradrenaline, unclamped between calibrations,
\* may pass its range only by what the prediction error of the steps between
\* two of them adds up to.
Surge == MaxError \div 10
HormonesAreSaturated ==
  /\ mode \in {"Balanced", "Stable"}
  /\ samples > 0 => mode = "Stable" /\ h.ht >= 80
  /\ ~fresh => h.da >= 89 /\ h.ach >= 89
  /\ h.na <= 100 + Surge * CalPeriod
=============================================================================
