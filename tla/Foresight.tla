------------------------------ MODULE Foresight ------------------------------
(***************************************************************************)
(* The network's two predictors and the cycle that uses them:              *)
(* PredictorNetwork::step and ActorNetwork::step at every step,            *)
(* predictive_cycle (snn/network.rs) with the learned prototypes           *)
(* (cognitive/predictor.rs) and the actor's hypotheses and values          *)
(* (cognitive/actor.rs).                                                   *)
(*                                                                         *)
(* Potentials, errors, rewards and values are in hundredths.  Neurons are  *)
(* numbered in the order init_population creates them, layer by layer.     *)
(* Input, noise, reflexes and attention raise and lower the potentials: a  *)
(* step may leave any.                                                     *)
(***************************************************************************)
EXTENDS Integers, Sequences, FiniteSetsExt

CONSTANTS Layers,           \* neurons of each layer, from layer 0 on
          Window,           \* neurons the two networks look at: 256
          History,          \* prediction_history: 1024
          Actions,          \* actions, from 0: 256
          Hypotheses,       \* MAX_HYPOTHESES: 8
          Banks,            \* actions the predictor tells apart: 8
          Prototypes,       \* PROTOTYPES_PER_ACTION: 8
          Buckets,          \* VALUE_BUCKETS: 64
          HashSpan,         \* u32::MAX
          Potentials,       \* bound: what a potential may be
          Energy,           \* energy levels
          MaxTime, MaxCycles  \* bounds

VARIABLES v,                \* membrane potentials
          time, cycles,
          predictions, motors, history, error, novelty,
          protos, mean_error, \* of the learned predictor
          hyps, chosen, value, td

netVars == <<time, predictions, motors, history, error, novelty>>
vars == <<v, cycles, netVars, protos, mean_error, hyps, chosen, value, td>>

\* The sum of f[0], ..., f[n - 1].
Sum(f, n) ==
  LET sum[k \in 0 .. n] == IF k = 0 THEN 0 ELSE sum[k - 1] + f[k - 1]
  IN  sum[n]

\* How many neurons there are up to the end of layer k.
EndOf(k) == Sum([j \in 0 .. k - 1 |-> Layers[j + 1]], k)
Total == EndOf(Len(Layers))
Neuron == 0 .. Total - 1
Looked == 0 .. Window - 1

\* The layer of a neuron: how many layers end before it.
LayerOf(i) == Cardinality({k \in 1 .. Len(Layers) : EndOf(k) <= i})

AbsOf(x) == IF x < 0 THEN -x ELSE x

Init ==
  /\ v = [i \in Neuron |-> 0] /\ time = 0 /\ cycles = 0
  /\ predictions = [i \in Looked |-> 0] /\ motors = [i \in Looked |-> 0]
  /\ history = [k \in 0 .. History - 1 |-> 0] /\ error = 0 /\ novelty = 0
  /\ protos = [b \in 0 .. Banks - 1 |-> <<>>] /\ mean_error = 0
  /\ hyps = <<>> /\ chosen = 0
  /\ value = [b \in 0 .. Buckets - 1 |-> 0] /\ td = 0

\* What input, noise, reflexes and attention may leave.
Driven == [Neuron -> Potentials]

\* PredictorNetwork::step: only layer 3 has PREDICTOR_MODE.  Each step writes
\* the errors of the neurons it looks at from its own place in the ring on.
Predicted(w) == [i \in Looked |-> IF LayerOf(i) = 3 THEN w[i] ELSE predictions[i]]
Kept(w, now) ==
  [k \in 0 .. History - 1 |->
     IF \E i \in Looked : (now + i) % History = k
     THEN LET i == CHOOSE i \in Looked : (now + i) % History = k
          IN  AbsOf(Predicted(w)[i] - w[i])
     ELSE history[k]]

NetStep(w) ==
  /\ time' = time + 1
  /\ predictions' = Predicted(w) /\ history' = Kept(w, time + 1)
  /\ error' = Sum(history', History) \div History
  /\ novelty' = AbsOf(error' - error)
  /\ motors' = [i \in Looked |-> IF LayerOf(i) = 4 THEN w[i] ELSE motors[i]]

Step ==
  /\ time < MaxTime
  /\ v' \in Driven /\ NetStep(v')
  /\ UNCHANGED <<cycles, protos, mean_error, hyps, chosen, value, td>>

-----------------------------------------------------------------------------
\* The learned predictor.  Confidence follows from the count: 0.1, and a
\* tenth of the rest with each merge; in thousandths.
Confidence(p) ==
  LET sure[k \in 0 .. p.count] ==
        IF k = 0 THEN 0 ELSE sure[k - 1] + (1000 - sure[k - 1]) \div 10
  IN  sure[p.count]

\* compute_hash samples every 64th potential, wrapping around.
Hash(w) == (w[0] \div 100) % (HashSpan + 1)
HashDist(p, w) == AbsOf(p.hash - Hash(w))

\* predict_next: the delta of the nearest prototype, the sure ones nearer,
\* scaled by its confidence.
Delta(banks, w, a) ==
  LET ps == banks[a % Banks]
      nearer(i, j) == HashDist(ps[i], w) * Confidence(ps[j])
                        < HashDist(ps[j], w) * Confidence(ps[i])
      best == {i \in DOMAIN ps : /\ \A j \in DOMAIN ps : ~nearer(j, i)
                                 /\ \A j \in 1 .. i - 1 : nearer(i, j)}
  IN  [k \in Looked |-> IF ps = <<>> THEN 0
                        ELSE LET p == ps[Min(best)]
                             IN  (p.delta[k] * Confidence(p)) \div 1000]
Change(w, a) == Sum([k \in Looked |-> AbsOf(Delta(protos, w, a)[k])], Window)

\* What learn_prototype compares: the changes, hashes counting little.
Distance(p, d) ==
  Sum([k \in Looked |-> (p.delta[k] - d[k]) * (p.delta[k] - d[k])], Window) \div 100
Apart(p, w, d) == Distance(p, d) + (30 * HashDist(p, w)) \div HashSpan
Near(ps, w, d) == {i \in DOMAIN ps : Apart(ps[i], w, d) < 50}
Nearest(ps, w, d) ==
  Min({i \in Near(ps, w, d) :
         \A j \in Near(ps, w, d) : Apart(ps[i], w, d) <= Apart(ps[j], w, d)})
New(w, d) == [delta |-> d, hash |-> Hash(w), count |-> 1]
Merged(p, w, d) ==
  [delta |-> [k \in Looked |-> (9 * p.delta[k] + d[k]) \div 10],
   hash |-> Hash(w), count |-> p.count + 1]

\* Mutated form of Learned: a new prototype beside the one it merged into.
LearnedTwice(ps, w, d) ==
  LET old == IF Near(ps, w, d) = {} THEN ps
             ELSE [ps EXCEPT ![Nearest(ps, w, d)] = Merged(@, w, d)]
  IN  IF Len(ps) < Prototypes THEN Append(old, New(w, d)) ELSE old
\* learn_prototype: merge with the nearest, if that is within 0.5; else a new
\* one, while there is room.
Learned(ps, w, d) ==
  IF Near(ps, w, d) # {} THEN [ps EXCEPT ![Nearest(ps, w, d)] = Merged(@, w, d)]
  ELSE IF Len(ps) < Prototypes THEN Append(ps, New(w, d)) ELSE ps

\* predict and update_from_prediction_error: the prediction is made for the
\* predictor's own last_action, which stays 0, and with what has just been
\* learnt.
Mistake(banks, w, seen) ==
  [k \in Looked |-> w[k] + Delta(banks, w, 0)[k] - seen[k]]
MeanError(m) == Sum([k \in Looked |-> AbsOf(m[k])], Window) \div Window
Corrected(banks, w, seen) ==
  LET e == MeanError(Mistake(banks, w, seen))
      pull(p, k) == ((seen[k] - (w[k] + Delta(banks, w, 0)[k] + p.delta[k]))
                      * e * Confidence(p)) \div 1000000
  IN  IF e <= 5 THEN banks
      ELSE [b \in DOMAIN banks |-> [i \in DOMAIN banks[b] |->
              [banks[b][i] EXCEPT
                 !.delta = [k \in Looked |-> @[k] + pull(banks[b][i], k)]]]]

-----------------------------------------------------------------------------
\* generate_hypotheses: the actor's base action, which a broadcast may have
\* set, and its neighbours are likelier than others, but epsilon never falls
\* below 0.01, so all of them may be random.
Guesses == [1 .. Hypotheses -> 0 .. Actions - 1]

\* select_best_hypothesis: confidence is 1 / (1 + change); the first best.
Best(w, hs) ==
  Min({i \in DOMAIN hs : \A j \in DOMAIN hs : Change(w, hs[i]) <= Change(w, hs[j])})

\* compute_reward
Reward(e) == (3 * novelty) \div 10 - error \div 2 - (100 - e) \div 5

\* compute_td_error and then update_value_from_next: twice a tenth of the
\* difference, the next state's value the second time.
Once(vs, at, next, r) ==
  LET d == r + (95 * vs[next]) \div 100 - vs[at]
  IN  [value |-> [vs EXCEPT ![at] = @ + d \div 10], td |-> d]

\* PRED_NEXT_BUF is filled after run_simulation, which has put the potentials
\* back by then.
Reached == v

\* predictive_cycle, its simulation taken as one step.  What the simulation
\* writes to the network's own history and errors stays.
Cycle ==
  /\ cycles < MaxCycles /\ cycles' = cycles + 1
  /\ hyps' \in Guesses /\ chosen' = hyps'[Best(v, hyps')]
  /\ \E sim \in Driven, e \in Energy :
       LET next == Reached
           d == [k \in Looked |-> next[k] - v[k]]
           learned == [protos EXCEPT ![chosen' % Banks] = Learned(@, v, d)]
           first == Once(value, Hash(v) % Buckets, Hash(v) % Buckets, Reward(e))
           second == Once(first.value, Hash(v) % Buckets, Hash(next) % Buckets,
                          Reward(e))
       IN  /\ NetStep(sim)
           /\ protos' = Corrected(learned, v, next)
           /\ mean_error' = MeanError(Mistake(learned, v, next))
           /\ value' = second.value /\ td' = second.td
  /\ UNCHANGED v

Next == Step \/ Cycle
-----------------------------------------------------------------------------
\* Every cycle is learnt, and once: the counts of all prototypes add up to the
\* number of cycles, of which some may be missing once a bank is full.
Counts(ps) ==
  LET sum[n \in 0 .. Len(ps)] == IF n = 0 THEN 0 ELSE sum[n - 1] + ps[n].count
  IN  sum[Len(ps)]
Learnt == Sum([b \in 0 .. Banks - 1 |-> Counts(protos[b])], Banks)
CyclesAreLearnt ==
  /\ Learnt <= cycles
  /\ (\A b \in DOMAIN protos : Len(protos[b]) < Prototypes) => Learnt = cycles

(* What a finding rests on: true of this code, and not what it should do.  *)

\* The cycle learns nothing from its simulation: every prototype predicts no
\* change at all (and so there is one per bank at most), the mean error is
\* zero, and the first hypothesis is taken every time.
ForesightIsBlind ==
  /\ \A b \in DOMAIN protos :
       /\ Len(protos[b]) <= 1
       /\ \A i \in DOMAIN protos[b], k \in Looked : protos[b][i].delta[k] = 0
  /\ mean_error = 0
  /\ hyps # <<>> => chosen = hyps[1]

\* The first Window neurons are all sensory, so no motor output is ever read
\* and nothing is ever predicted: what counts as the prediction error is the
\* strength of the potentials.
WindowIsSensory ==
  \A i \in Looked : predictions[i] = 0 /\ motors[i] = 0
=============================================================================
