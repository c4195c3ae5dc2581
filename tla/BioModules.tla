------------------------------- MODULE BioModules -------------------------------
(***************************************************************************)
(* The bio-inspired modules that the network steps at their own periods    *)
(* (snn/network.rs, process_bio_modules): thalamus, striosomes, astrocytes *)
(* and cerebellum (bio/); the hippocampus has a module of its own.  All of *)
(* them are fed the firing rates of the first neurons, which metabolic     *)
(* maintenance moves and nothing else does: no spike is counted there.     *)
(*                                                                         *)
(* Levels are percents: ONE is 100.  The sixteen weights of a Purkinje     *)
(* cell start alike and move alike, and so do the thirty-two of a          *)
(* striosome under inputs that are alike: each is one number.              *)
(***************************************************************************)
EXTENDS Integers, SequencesExt

CONSTANTS Relays,           \* RELAY_NUCLEI: 4
          Striosomes,       \* STRIOSOME_COUNT: 16
          Slices,           \* inputs over MODULE_NEURONS: 2
          Matrix,           \* MATRIX_COMPARTMENTS: 16
          Cols,             \* GRID_COLS: 8
          Purkinje,         \* PURKINJE_CELLS: 64
          Rise,             \* what a maintenance adds to a firing rate
          Cycle, Pulse,     \* the thalamic rhythm: 5 ticks in 100
          Beat,             \* steps between two maintenances: 1000
          StrioPeriod, AstroPeriod, CerebPeriod,    \* 10, 100, 20
          Attentions, Errors, Dopamines,    \* what the rest of the mind feeds
          Precision,        \* TIMING_PRECISION_US: 1000
          Dt,               \* the astrocytes' time step, 10
          MaxTick           \* bound: steps

VARIABLES tick,             \* Network::time
          rate,             \* firing_rates of the neurons read here
          relay, calcium,   \* the relays, and the calcium that is alike in all
          winner, selected, \* winner_idx, selected_modality
          strio,            \* the striosomes: weight, activity
          best, action,     \* competition_winner, selected_action
          astro,            \* the astrocytes: ip3, calcium
          weight, runs      \* parallel fibre weights, Cerebellum::tick

bioVars == <<tick, rate, relay, calcium, winner, selected, strio, best, action,
             astro, weight, runs>>

ONE == 100
Unit(x) == IF x < 0 THEN 0 ELSE IF x > ONE THEN ONE ELSE x
Times(x, y) == (x * y) \div ONE
\* The sum of f[0], ..., f[n - 1].
Sum(f, n) ==
  LET sum[k \in 0 .. n] == IF k = 0 THEN 0 ELSE sum[k - 1] + f[k - 1]
  IN sum[n]
Neurons == 0 .. Max({Relays, Slices, Cols * Cols}) - 1
Cells == 0 .. Cols * Cols - 1

BioInit ==
  /\ tick = 0 /\ rate = [i \in Neurons |-> 0]
  /\ relay = [r \in 0 .. Relays - 1 |->
       [mode |-> "Silent", mp |-> 0, gain |-> 50, gate |-> ONE]]
  /\ calcium = 0 /\ winner = 0 /\ selected = 0
  /\ strio = [i \in 0 .. Striosomes - 1 |-> [w |-> 50, act |-> 0]]
  /\ best = 0 /\ action = 0
  /\ astro = [c \in Cells |-> [ip3 |-> 0, ca |-> 0]]
  /\ weight = [p \in 0 .. Purkinje - 1 |-> 30] /\ runs = 0

\* The first of the greatest, and index zero when all are at rest.
Winner(act) ==
  LET top == Max(Range(act))
  IN IF top <= 0 THEN 0 ELSE Min({i \in DOMAIN act : act[i] = top})

-----------------------------------------------------------------------------
(* Thalamus::step *)

\* The burst calcium follows the tick alone.
Pulsed(c, now) == IF now % Cycle < Pulse THEN Unit(c + 10) ELSE Times(c, 95)

\* ThalamicRelay::step, for an input and its share of attention.
Relayed(r, in, attention, ca) ==
  LET gain == Unit(r.gain + Times(attention - r.gain, 5))
      gated == Times(Times(in, r.gate), 50 + gain \div 2)
      drive == IF r.mode = "Burst" THEN Times(gated, 2 * ca) ELSE gated \div 10
  IN [r EXCEPT !.gain = gain, !.mp = Unit(@ + drive - (@ \div 10)),
               !.mode = IF ca > 29 /\ in > 0 THEN "Burst"
                        ELSE IF gain > 20 THEN "Tonic" ELSE "Silent"]

Output(r) == IF r.mp > 30 THEN r.mp ELSE 0

\* ThalamicReticularNucleus::step: the mean of all but the winner, and a
\* tenth of the cortical feedback.
Inhibition(out, w, feedback) ==
  LET others == Sum([i \in DOMAIN out |-> IF i = w THEN 0 ELSE out[i]], Relays)
  IN Unit(Unit(others \div (Relays - 1)) + feedback \div 10)

Thalamus(now, attention, feedback) ==
  LET ca == Pulsed(calcium, now)
      stepped == [i \in DOMAIN relay |->
        Relayed(relay[i], rate[i],
                IF i = selected THEN attention ELSE attention \div 10, ca)]
      out == [i \in DOMAIN relay |-> Output(stepped[i])]
      w == Winner(out)
      inh == Inhibition(out, w, feedback)
  IN /\ calcium' = ca /\ winner' = w
     /\ relay' = [i \in DOMAIN relay |-> [stepped[i] EXCEPT
          !.gate = ONE - (IF i = w THEN inh \div 10 ELSE inh)]]
     /\ selected' = IF Max(Range(out)) > 0 THEN w ELSE selected

-----------------------------------------------------------------------------
(* StriosomeMatrixSystem::step_all, learn_all and competition *)

\* The inputs are fewer than the striosomes could read: they share.
Slice(i) == i % Slices
Gate(dopamine) == IF dopamine > 20 THEN Unit((dopamine - 20) \div 2) ELSE 0

\* The matrix takes its part of the winner's activity, unit after unit; each
\* is fully active whatever the striosomes do.
Left(top) ==
  FoldLeft(LAMBDA m, k : IF ONE > m THEN m - (8 * (ONE - m)) \div 10 ELSE m,
           top, [k \in 1 .. Matrix |-> k])

Striatum(dopamine, error) ==
  LET act == [i \in DOMAIN strio |-> Unit(Times(strio[i].w, rate[Slice(i)]))]
      b == Winner(act)
      learns == Gate(dopamine) > 0 /\ error > 0
  IN /\ strio' = [i \in DOMAIN strio |->
          [w |-> IF learns /\ rate[Slice(i)] > 0 THEN Unit(strio[i].w + 25)
                 ELSE strio[i].w,
           act |-> act[i]]]
     /\ best' = b
     /\ action' = IF Left(act[b]) > 10 THEN b ELSE action

-----------------------------------------------------------------------------
(* AstrocyteNetwork::step_all and propagate_waves *)

\* Astrocyte::step: ip3 has no way down.
Glia(a, in) ==
  LET ip3 == Unit(a.ip3 + in \div 10)
      influx == IF ip3 > 25 THEN (ip3 - 25) \div 5 ELSE 0
  IN [ip3 |-> ip3, ca |-> Unit(a.ca + Times(influx - a.ca \div 10, Dt))]

\* The cells from which a wave reaches c: up and to the left, two away at most.
Upstream(c) ==
  {d \in Cells \ {c} : /\ (c \div Cols) - (d \div Cols) \in 0 .. 2
                       /\ (c % Cols) - (d % Cols) \in 0 .. 2}

\* slow is the phase of the slow oscillation, one value for all the cells.
Astrocytes(slow) ==
  LET lit == [c \in Cells |-> Glia(astro[c], rate[c] + slow \div 20)]
      from(c) == {d \in Upstream(c) : lit[d].ca > 10}
  IN astro' = [c \in Cells |->
       [lit[c] EXCEPT !.ca = Unit(@ + 5 * Cardinality(from(c)))]]

-----------------------------------------------------------------------------
(* Cerebellum::set_error_signal and step *)

\* The first climbing fibre has the error, the others never have any.
Climbing(p, error) == IF p = 0 THEN error ELSE 0

\* PurkinjeCell::step
Trained(w, climbing, error) ==
  IF climbing > 30 THEN Unit(w - Times(Times(20, climbing), error))
  ELSE IF error > 0 /\ error < 10 THEN Unit(w + (ONE - error) \div 10) ELSE w

\* PurkinjeCell::learn_timing: the time of the network is held against the
\* number of the cerebellum's own steps.
Timed(w, climbing, now) ==
  LET late == (ONE * (now - (runs + 1))) \div Precision
  IN Unit(w - Times(20, climbing + late \div 10) \div 10)

Cerebellum(now, error) ==
  /\ runs' = runs + 1
  /\ weight' = [p \in DOMAIN weight |->
       LET w == Trained(weight[p], Climbing(p, error), error)
       IN IF error > 20 /\ Climbing(p, error) > 0
          THEN Timed(w, Climbing(p, error), now) ELSE w]

-----------------------------------------------------------------------------
\* update_statistics: every neuron alike, whether it fired or not.
Statistics ==
  rate' = [i \in DOMAIN rate |-> IF rate[i] + Rise > ONE THEN ONE ELSE rate[i] + Rise]

\* Network::step: process_bio_modules, and maintenance at its beat.
BioStep ==
  LET now == tick + 1 IN
  /\ tick < MaxTick /\ tick' = now
  /\ \E a \in Attentions, e \in Errors, d \in Dopamines :
       /\ Thalamus(now, a, e)
       /\ IF now % StrioPeriod = 0 THEN Striatum(d, e)
          ELSE UNCHANGED <<strio, best, action>>
       /\ IF now % CerebPeriod = 0 THEN Cerebellum(now, e)
          ELSE UNCHANGED <<weight, runs>>
  /\ IF now % AstroPeriod = 0 THEN \E slow \in {0, ONE} : Astrocytes(slow)
     ELSE UNCHANGED astro
  /\ IF now % Beat = 0 THEN Statistics ELSE UNCHANGED rate

\* Network::step_parallel does all that step does, but for these modules.
ParallelStep ==
  /\ tick < MaxTick /\ tick' = tick + 1
  /\ IF tick' % Beat = 0 THEN Statistics ELSE UNCHANGED rate
  /\ UNCHANGED <<relay, calcium, winner, selected, strio, best, action, astro,
                 weight, runs>>

BioNext == BioStep \/ ParallelStep
-----------------------------------------------------------------------------
\* However the mind and the world behave, the modules tell nothing apart.
\* Their inputs are one number, so attention stays with the first modality,
\* the first striosome wins, no action but the first is ever selected, and
\* striosomes stay copies of each other; astrocytes charge together; and of
\* the Purkinje cells all but the first only ever strengthen.
NothingIsToldApart ==
  /\ selected = 0 /\ winner = 0 /\ best = 0 /\ action = 0
  /\ \A r \in DOMAIN relay : Output(relay[r]) <= Output(relay[0])
  /\ \A i \in DOMAIN strio : strio[i] = strio[0]
  /\ \A c \in Cells : astro[c].ip3 = astro[0].ip3 /\ astro[c].ca >= astro[0].ca
  /\ \A p \in DOMAIN weight : p > 0 => weight[p] >= 30 /\ weight[p] >= weight[0]
=============================================================================
