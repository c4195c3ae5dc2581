------------------------------ MODULE WeightLife ------------------------------
(***************************************************************************)
(* The life of one synapse (snn/synapse.rs) under the network step         *)
(* (snn/network.rs): modulation and decay of its traces in every step,     *)
(* senescence, pruning and homeostatic scaling in every metabolic          *)
(* maintenance.  The R-STDP methods are there for whoever reports spikes;  *)
(* the program itself never calls them, so driven says which world it is.  *)
(* Below, the other set of rules (snn/plasticity.rs), a machine apart.     *)
(*                                                                         *)
(* A weight counts its last bit, a FixedPoint number counts 1 / ONE.       *)
(***************************************************************************)
EXTENDS Integers

CONSTANTS ONE,              \* FixedPoint::ONE
          TopTrace,         \* FixedPoint::MAX, where a trace saturates
          Fine,             \* FixedPoint bits below a weight's last: 256
          TopW,             \* i16::MAX, where from_f32 saturates
          ClampW,           \* MAX_W: 30000
          MinW,             \* min_weight_threshold: 2
          MaxSilence,       \* inactivity_cycles_before_prune: 100
          Beat,             \* steps between two maintenances: 1000
          MaxAge,           \* max_age, in maintenances
          Tau,              \* tau_plus, tau_minus
          Amps,             \* a_plus and a_minus that modulation can set
          Rewards,          \* reward times reward_sensitivity
          Newborn,          \* weights neurogenesis gives
          MaxTime           \* bound: steps

VARIABLES driven,           \* does a caller report spikes
          time, s,          \* Network::time, the synapse
          rate              \* the average firing rate

lifeVars == <<driven, time, s, rate>>

Magnitude(w) == IF w < 0 THEN -w ELSE w
Bounded(x, lo, hi) == IF x < lo THEN lo ELSE IF x > hi THEN hi ELSE x
\* Mutated form of ToWeight: the cast wraps around instead.
ToWeightWraps(x) ==
  LET w == IF x < 0 THEN -((-x) \div Fine) ELSE x \div Fine
  IN  ((w + TopW + 1) % (2 * TopW + 2)) - TopW - 1
\* Weight::from_f32 of a FixedPoint number: towards zero, and saturating.
ToWeight(x) ==
  Bounded(IF x < 0 THEN -((-x) \div Fine) ELSE x \div Fine, -TopW - 1, TopW)
\* Mul for FixedPoint, of a weight and a factor.
Times(w, f) == (w * Fine * f) \div ONE

Fresh(w) == [w |-> w, plastic |-> TRUE, pre |-> 0, post |-> 0, amp |-> 1,
             silence |-> 0, age |-> 0]
Dead == [Fresh(0) EXCEPT !.plastic = FALSE]

LifeInit ==
  /\ driven \in BOOLEAN /\ time = 0 /\ rate = 0
  /\ s \in {Fresh(w) : w \in Newborn}

\* modulate_plasticity and apply_plasticity_modulation, then decay_traces.
Stepped(x, amp) ==
  IF ~x.plastic THEN x
  ELSE [x EXCEPT !.amp = amp, !.silence = @ + 1,
                 !.pre = (@ * (ONE - ONE \div Tau)) \div ONE,
                 !.post = (@ * (ONE - ONE \div Tau)) \div ONE]

\* apply_senescence: the older it is the more of its weight it loses, each
\* time.
Aged(x) ==
  LET age == x.age + 1
      progress == (age * ONE) \div MaxAge
  IN IF ~x.plastic THEN x
     ELSE IF age >= MaxAge THEN Dead
     ELSE [x EXCEPT !.age = age,
                    !.w = ToWeight(Times(@, ONE - (progress \div 2))),
                    !.amp = Bounded((@ * (ONE - ((4 * progress) \div 5))) \div ONE, 1, @)]

\* prune_silent_synapses of the neurogenesis engine.
Pruned(x) == IF x.plastic /\ Magnitude(x.w) < MinW /\ x.silence > MaxSilence
             THEN Dead ELSE x

\* homeostatic_scaling's factor, for a target rate of ten.
Scale(r) == Bounded((10 * ONE * ONE) \div (IF r = 0 THEN 1 ELSE r),
                    ONE \div 2, 2 * ONE)
Scaled(x, f) == IF x.plastic /\ x.w # 0
                THEN [x EXCEPT !.w = ToWeight(Times(@, f))] ELSE x

\* neurogenesis may make the connection anew.
Reborn(x) == {x} \cup (IF x = Dead THEN {Fresh(w) : w \in Newborn} ELSE {})

\* A network step and, when it is due, metabolic_maintenance and then
\* update_statistics, which draws every firing rate towards one.
LifeStep ==
  LET next == time + 1 IN
  /\ time < MaxTime /\ time' = next
  /\ \E amp \in Amps :
       LET x == Stepped(s, amp) IN
       IF next % Beat # 0 THEN s' = x /\ UNCHANGED rate
       ELSE /\ \E y \in Reborn(Pruned(Aged(x))) : s' = Scaled(y, Scale(rate))
            /\ rate' = IF rate < ONE THEN rate + 1 ELSE rate
  /\ UNCHANGED driven

Clamped(w) == Bounded(w, -ClampW, ClampW)

\* Synapse::on_pre_spike.  Its decay never shows: last_active is the new
\* time already when the interval is taken.
OnPre ==
  \E r \in Rewards :
    s' = IF ~s.plastic THEN [s EXCEPT !.silence = 0]
         ELSE [s EXCEPT !.silence = 0, !.pre = Bounded(@ + ONE, 0, TopTrace),
                        !.w = Clamped(@ - (s.post * s.amp * r) \div ONE)]

\* Synapse::on_post_spike
OnPost ==
  \E r \in Rewards :
    s' = IF ~s.plastic THEN [s EXCEPT !.silence = 0]
         ELSE [s EXCEPT !.silence = 0, !.post = Bounded(@ + ONE, 0, TopTrace),
                        !.w = Clamped(@ + (s.pre * s.amp * r) \div ONE)]

Spike == driven /\ (OnPre \/ OnPost) /\ UNCHANGED <<driven, time, rate>>

LifeNext == LifeStep \/ Spike
-----------------------------------------------------------------------------
\* With spikes reported, a presynaptic one never strengthens a synapse and a
\* postsynaptic one never weakens it, save for a weight that scaling has
\* carried past the clamp of the learning rule and that any spike pulls back.
PairingHasSign ==
  [][time' = time /\ Magnitude(s.w) <= ClampW =>
       /\ s'.pre > s.pre => s'.w <= s.w
       /\ s'.post > s.post => s'.w >= s.w]_lifeVars

\* Only learning turns an exciting synapse into an inhibiting one, or back:
\* however often it is scaled up and however old it gets, a weight that
\* leaves its type saturates, and no maintenance carries it past zero.
MaintenanceKeepsSign ==
  [][s'.age > s.age => /\ s.w > 0 => s'.w >= 0
                       /\ s.w < 0 => s'.w <= 0]_lifeVars

(* What a finding rests on: true of this code, and not what it should do.  *)

\* Doubled once in each maintenance since it was worth pruning, as far as the
\* last bit but one of its type.
Doubled[a \in 0 .. MaxAge] ==
  IF a = 0 THEN MinW ELSE Bounded(2 * Doubled[a - 1], 0, TopW - 1)

\* Homeostatic scaling never calms a synapse: rates lie between zero and one
\* and their target is ten, so every maintenance doubles a plastic weight,
\* and one that nobody drives has, unless pruned at once, run to the end of
\* its type, to within a bit, within a few of them, and stays there to its
\* last: what senescence takes is less than what doubling gives back.
WeightsRunAway ==
  ~driven /\ s.plastic /\ s.age > 0 => Magnitude(s.w) >= Doubled[s.age]
-----------------------------------------------------------------------------
(* The other set of learning rules (snn/plasticity.rs): spike-timing       *)
(* eligibility traces with calcium and plateau potentials, and the reward  *)
(* that turns traces into weights.  Nothing in the program calls them;     *)
(* here any caller does, in any order, at a time that only grows.          *)
(*                                                                         *)
(* A trace, a weight and a concentration are small integers: what a pair   *)
(* of spikes adds only has to fall with the delay and to vanish outside    *)
(* the Window, and every decay to bring a value nearer to zero.            *)
CONSTANTS Cells,            \* neurons
          Links,            \* synapses, a set of pairs of neurons
          Window,           \* the delay from which a pair adds nothing: 50
          LtdLevel, LtpLevel,   \* calcium thresholds: 0.05 and 0.15
          TopCalcium,       \* bound: concentration
          PlateauTerm,      \* duration_ms: 100
          ClampE,           \* bound: traces
          MaxWeight,        \* 30000
          MaxNow            \* bound: time, which starts at one

VARIABLES now,
          trace, upd,       \* ELIGIBILITY_TRACES: trace, last_update
          lastPre, lastPost,    \* LAST_PRE_TIME, LAST_POST_TIME
          calcium,          \* CALCIUM_MODELS
          plateau,          \* PLATEAU_POTENTIALS: start of an active one, or 0
          weight            \* of the synapses

stdpVars == <<now, trace, upd, lastPre, lastPost, calcium, plateau, weight>>

StdpInit ==
  /\ now = 1
  /\ trace = [l \in Links |-> 0] /\ upd = [l \in Links |-> 0]
  /\ lastPre = [c \in Cells |-> 0] /\ lastPost = [c \in Cells |-> 0]
  /\ calcium = [c \in Cells |-> 0] /\ plateau = [c \in Cells |-> 0]
  /\ weight = [l \in Links |-> 0]

Into(x, lo, hi) == IF x < lo THEN lo ELSE IF x > hi THEN hi ELSE x
Decayed(x, dt) == IF x < 0 THEN Into(x + dt, x, 0) ELSE Into(x - dt, 0, x)

\* CalciumModel::on_spike, always with the time before this one as the last.
Influx(c) == Into(Decayed(c, 1) + 2, 0, TopCalcium)
\* on_plateau, from the beginning of time.
Flood(c) == Into(Decayed(c, now) + 6, 0, TopCalcium)
\* plasticity_direction: does calcium favour LTP, or LTD.
Strong(c) == c >= LtpLevel
Weak(c) == c >= LtdLevel /\ c < LtpLevel

\* Nothing to pair with is time zero, as if it had never fired.
Paired(last) == last > 0 /\ now - last < Window
Amount(last, more) == (Window - (now - last)) * (IF more THEN 2 ELSE 1)

\* Whose last spike a spike at one side of l is paired with: that of the same
\* neuron in the other role.
Partner(l, side) == IF side = "pre" THEN lastPost[l[1]] ELSE lastPre[l[2]]

Faded(l) == Decayed(trace[l], now - upd[l])

\* on_pre_spike
PreSpike(c) ==
  /\ lastPre' = [lastPre EXCEPT ![c] = now]
  /\ calcium' = [calcium EXCEPT ![c] = Influx(@)]
  /\ trace' = [l \in Links |->
       IF l[1] # c THEN trace[l]
       ELSE Into(Faded(l) + (IF Paired(Partner(l, "pre"))
                 THEN Amount(Partner(l, "pre"), Strong(calcium'[c])) ELSE 0),
                 -ClampE, ClampE)]
  /\ upd' = [l \in Links |-> IF l[1] = c THEN now ELSE upd[l]]
  /\ UNCHANGED <<now, lastPost, plateau, weight>>

\* PlateauPotential::update
Still(c) == plateau[c] > 0 /\ now - plateau[c] < PlateauTerm

\* on_post_spike
PostSpike(c) ==
  /\ lastPost' = [lastPost EXCEPT ![c] = now]
  /\ calcium' = [calcium EXCEPT ![c] = Influx(@)]
  /\ plateau' = [plateau EXCEPT ![c] = IF Still(c) THEN @ ELSE 0]
  /\ trace' = [l \in Links |->
       IF l[2] # c THEN trace[l]
       ELSE Into(Faded(l) - (IF Paired(Partner(l, "post"))
                 THEN Amount(Partner(l, "post"), Still(c) \/ Weak(calcium'[c]))
                 ELSE 0), -ClampE, ClampE)]
  /\ upd' = [l \in Links |-> IF l[2] = c THEN now ELSE upd[l]]
  /\ UNCHANGED <<now, lastPre, weight>>

\* trigger_plateau
Plateau(c) ==
  /\ plateau' = [plateau EXCEPT ![c] = now]
  /\ calcium' = [calcium EXCEPT ![c] = Flood(@)]
  /\ UNCHANGED <<now, trace, upd, lastPre, lastPost, weight>>

\* apply_reward_modulation, with learning_enabled: traces stay as they are.
Reward ==
  /\ \E r \in {0, 1} :
       weight' = [l \in Links |->
                    Into(weight[l] + r * Faded(l), -MaxWeight, MaxWeight)]
  /\ UNCHANGED <<now, trace, upd, lastPre, lastPost, calcium, plateau>>

\* decay_all_traces: the factor of each trace is memory that nothing ever
\* initialised, and that the loader has cleared.  reset_traces clears too.
Clear ==
  /\ trace' = [l \in Links |-> 0]
  /\ \/ UNCHANGED upd
     \/ upd' = [l \in Links |-> 0]
  /\ UNCHANGED <<now, lastPre, lastPost, calcium, plateau, weight>>

Tick == now < MaxNow /\ now' = now + 1
        /\ UNCHANGED <<trace, upd, lastPre, lastPost, calcium, plateau, weight>>

StdpNext ==
  \/ \E c \in Cells : PreSpike(c) \/ PostSpike(c) \/ Plateau(c)
  \/ Reward \/ Clear \/ Tick
-----------------------------------------------------------------------------
\* A synapse learns from pairs: it gains only by a spike of its presynaptic
\* neuron that a postsynaptic one preceded, and loses only by one of its
\* postsynaptic neuron that a presynaptic one preceded.  Time zero, which
\* stands for never, is no spike.
PairsOnly ==
  \A l \in Links :
    LET ends == {l[1], l[2]} IN
    /\ trace[l] > 0 \/ weight[l] > 0 =>
         lastPre[l[1]] > 0 /\ \E c \in ends : lastPost[c] > 0
    /\ trace[l] < 0 \/ weight[l] < 0 =>
         lastPost[l[2]] > 0 /\ \E c \in ends : lastPre[c] > 0

(* What a finding rests on: true of this code, and not what it should do.  *)

\* The rule cannot see the pair it is named for: whatever the neuron at the
\* other end does, and whichever of the two fires first, a synapse gains only
\* once its presynaptic neuron has been reported as postsynaptic too, and
\* loses only once its postsynaptic neuron has been reported as presynaptic.
PartnerIsIgnored ==
  \A l \in Links : /\ lastPost[l[1]] = 0 => trace[l] <= 0 /\ weight[l] <= 0
                   /\ lastPre[l[2]] = 0 => trace[l] >= 0 /\ weight[l] >= 0
=============================================================================
