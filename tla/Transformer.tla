----------------------------- MODULE Transformer -----------------------------
(***************************************************************************)
(* The spiking language model (src/transformer, src/embedding) and the     *)
(* trainer's step and evaluation over it (training/trainer.rs), with one   *)
(* block and one head.  Its neurons keep their potentials from one call to *)
(* the next: a call is a function from potentials and weights to logits    *)
(* and new potentials.                                                     *)
(*                                                                         *)
(* Numbers are in quarters of FixedPoint::ONE.  A vector has Width         *)
(* components; with two, LayerNorm gives the sign of each one's deviation  *)
(* from their mean.  The rate floor of 0.001 is nothing at this scale.     *)
(***************************************************************************)
EXTENDS Integers, SequencesExt

CONSTANTS Width,            \* EMBED_DIM, also FFN_DIM
          Vocab,            \* tokens 0 .. VOCAB_SIZE - 1
          MaxSeqLen,        \* MAX_SEQ_LEN
          TimeSteps,        \* TIME_STEPS of an embedding
          Current,          \* weights: of the embedding, in hundredths
          Wq, Wk, Wv, Wo,   \* of the attention
          W1, W2,           \* of the feed-forward layer
          WHead             \* of the output head, by token

One == 4                                    \* FixedPoint::ONE; thresholds
Times(a, b) == (a * b) \div One
Dim == 1 .. Width
\* A vector; SubSeq makes TLC compute its components once.
Vector(f) == SubSeq(f, 1, Width)
Zero == Vector([d \in Dim |-> 0])
Plus(x, y) == Vector([d \in Dim |-> x[d] + y[d]])
Dot(x, y) == SumFunction([d \in Dim |-> Times(x[d], y[d])])
Linear(W, x) == Vector([r \in Dim |-> Dot(W[r], x)])
Shorter(a, b) == IF a < b THEN a ELSE b

Population == {"q", "k", "v", "o", "hidden", "out"}
\* What reset_state leaves, in attention, feed-forward and so in the model.
Rested == [p \in Population |-> Zero]

\* lif_step with its soft reset, of a layer; decay is one half.
SoftReset(up) ==
  [m |-> Vector([d \in Dim |-> IF up[d] >= One THEN up[d] - One ELSE up[d]]),
   s |-> Vector([d \in Dim |-> IF up[d] >= One THEN One ELSE 0])]
Fired(m, x) == SoftReset(Vector([d \in Dim |-> m[d] \div 2 + x[d]]))

\* A layer over the positions of a sequence, in order.
Fed(now, spikes) == [m |-> now.m, s |-> Append(spikes, now.s)]
Layer(m, W, xs) ==
  FoldLeft(LAMBDA so, x : Fed(Fired(so.m, Linear(W, x)), so.s),
           [m |-> m, s |-> <<>>], xs)

\* SpikeEmbeddingLayer::encode: neurons that start from rest and reset hard
\* (LIFNeuronLight; in hundredths: threshold 0.15, decay 0.9), of which the
\* blocks see the rate over TimeSteps.
HardReset(up, n) ==
  [m |-> Vector([d \in Dim |-> IF up[d] >= 15 THEN 0 ELSE up[d]]),
   n |-> Vector([d \in Dim |-> n[d] + IF up[d] >= 15 THEN 1 ELSE 0])]
Embedded(token) ==
  LET after[t \in 0 .. TimeSteps] ==
        IF t = 0 THEN [m |-> Zero, n |-> Zero]
        ELSE LET before == after[t - 1]
             IN  HardReset([d \in Dim |-> (before.m[d] * 9) \div 10
                                          + Current[token][d]], before.n)
      spikes == after[TimeSteps].n
  IN  IF token \notin Vocab THEN Zero
      ELSE Vector([d \in Dim |-> (spikes[d] * One) \div TimeSteps])

\* LayerNorm::forward
Sign(n) == IF n > 0 THEN One ELSE IF n < 0 THEN -One ELSE 0
Normed(x) ==
  LET sum == SumFunction(x)
  IN  Vector([d \in Dim |-> Sign(Width * x[d] - sum)])

\* SpikingSelfAttention::forward: every position attends to every other one,
\* also to later ones, where the query and the key spike together.
Context(q, k, v) ==
  [i \in DOMAIN q |->
     LET attended == {j \in DOMAIN k : Dot(q[i], k[j]) >= One}
     IN  Vector([d \in Dim |->
                   SumFunction([j \in attended |-> v[j][d]])])]

Attention(pot, xs) ==
  LET q == Layer(pot["q"], Wq, xs)
      k == Layer(pot["k"], Wk, xs)
      v == Layer(pot["v"], Wv, xs)
      o == Layer(pot["o"], Wo, Context(q.s, k.s, v.s))
  IN  [out |-> o.s,
       pot |-> [pot EXCEPT !["q"] = q.m, !["k"] = k.m, !["v"] = v.m,
                           !["o"] = o.m]]

FeedForward(pot, xs) ==
  LET hidden == Layer(pot["hidden"], W1, xs)
      out == Layer(pot["out"], W2, hidden.s)
  IN  [out |-> out.s,
       pot |-> [pot EXCEPT !["hidden"] = hidden.m, !["out"] = out.m]]

\* SpikingTransformerBlock::forward: a residual and a norm after each part.
Residual(xs, ys) == [i \in DOMAIN xs |-> Normed(Plus(xs[i], ys[i]))]
SecondHalf(pot, ys) ==
  LET ffn == FeedForward(pot, ys)
  IN  [out |-> Residual(ys, ffn.out), pot |-> ffn.pot]
Block(pot, xs) ==
  LET attn == Attention(pot, xs)
  IN  SecondHalf(attn.pot, Residual(xs, attn.out))

Bounded(tokens) == SubSeq(tokens, 1, Shorter(Len(tokens), MaxSeqLen))

\* SpikingTransformer::forward: logits of every position.
Headed(block, bias) ==
  [logits |-> [i \in DOMAIN block.out |->
                 [v \in Vocab |->
                    Max({bias[v] + Dot(WHead[v], block.out[i]), 0})]],
   pot |-> block.pot]
Forward(pot, bias, tokens) ==
  IF tokens = <<>> THEN [logits |-> <<>>, pot |-> pot]
  ELSE LET seq == Bounded(tokens)
       IN  Headed(Block(pot, [i \in DOMAIN seq |-> Embedded(seq[i])]), bias)

\* The first of the largest logits.
Predicted(logits) ==
  Min({v \in Vocab : \A w \in Vocab : logits[w] <= logits[v]})

\* Trainer::run_step with its update of the head's biases by the learning
\* signals of each position (learning rate one quarter); the positions share
\* the logits of one forward pass.
Learned(run, bias, inputs, targets) ==
  LET valid == {i \in DOMAIN run.logits :
                  inputs[i] \in Vocab /\ targets[i] \in Vocab}
      signal(i, v) == run.logits[i][v] - IF v = targets[i] THEN One ELSE 0
  IN  [pot |-> run.pot,
       bias |-> [v \in Vocab |->
                   bias[v] - SumFunction([i \in valid |-> Times(1, signal(i, v))])],
       counted |-> run.logits # <<>>]
TrainStep(pot, bias, inputs, targets) ==
  LET n == Shorter(Len(inputs), Len(targets))
  IN  Learned(Forward(pot, bias, SubSeq(inputs, 1, n)), bias, inputs, targets)

\* Trainer::eval_sample between its two resets; the loss is what the logits
\* and the targets give.
Marked(logits, targets) ==
  [i \in DOMAIN logits |->
     [logits |-> logits[i],
      right |-> targets[i] \in Vocab /\ Predicted(logits[i]) = targets[i]]]
EvalSample(pot, bias, inputs, targets) ==
  LET n == Shorter(Len(inputs), Len(targets))
  IN  Marked(Forward(pot, bias, SubSeq(inputs, 1, n)).logits, targets)
=============================================================================
