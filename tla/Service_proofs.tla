---------------------------- MODULE Service_proofs ----------------------------
(***************************************************************************)
(* What the connections of the server may rely on, for every number of     *)
(* clients, every size of the read buffer and every model: the mutex makes *)
(* each command act on the service as it is (Locked), so the step numbers  *)
(* told are distinct; an evaluation is a function of weights and data; and *)
(* the units of a connection stay in order, without a gap (Chain), so a    *)
(* packet that lies whole in the buffer is answered or its client left.    *)
(***************************************************************************)
EXTENDS Service, TLAPS

\* The unit that follows u in what a client that sent cmds writes.
After(cmds, u) ==
  IF u[2] < Size(cmds[u[1]]) THEN <<u[1], u[2] + 1>> ELSE <<u[1] + 1, 1>>

\* A gapless piece of what a client writes.
Chain(cmds, s) ==
  /\ s \in Seq(Nat \X Nat)
  /\ \A k \in 1 .. Len(s) :
       /\ s[k][1] \in 1 .. Len(cmds) /\ s[k][2] \in 1 .. Size(cmds[s[k][1]])
       /\ k < Len(s) => s[k + 1] = After(cmds, s[k])

\* The piece ends with the last thing sent.
Latest(cmds, s) ==
  s # <<>> => s[Len(s)] = <<Len(cmds), Size(cmds[Len(cmds)])>>

\* A connection: what its client sent, the way to it, its buffer, and where
\* its thread is.
Tidy(cmds, way, held, at) ==
  /\ Chain(cmds, held) /\ Chain(cmds, way) /\ Latest(cmds, way)
  /\ at = "read" => held = <<>>
  /\ at \in {"wait", "work", "write"} =>
       held # <<>> /\ held[1][2] = 1 /\ Len(held) >= Size(cmds[held[1][1]])

Ordered ==
  /\ sent \in [Client -> Seq(Command)]
  /\ wire = [c \in Client |-> wire[c]] /\ buf = [c \in Client |-> buf[c]]
  /\ pc = [c \in Client |-> pc[c]] /\ answered = [c \in Client |-> answered[c]]
  /\ \A c \in Client : Tidy(sent[c], wire[c], buf[c], pc[c])

\* One thread has the service, and works on it as it is.
Locked ==
  /\ DOMAIN pc = Client /\ DOMAIN local = Client
  /\ DOMAIN cortex = {"pot", "bias", "steps", "data"} /\ cortex.steps \in Nat
  /\ \A c \in Client : pc[c] = "work" => lock = c /\ local[c] = cortex

\* The step numbers told are steps made, each for one request.
Told ==
  /\ \A a \in told : a[3] \in Nat /\ a[3] <= cortex.steps
  /\ StepsAreCounted

\* The grades of a dataset by a head.
GradeOf(bias, data) ==
  [k \in Samples(data) |->
     LET a == (k - 1) * SeqLen
     IN  EvalSample(Rested, bias, SubSeq(data, a + 1, a + SeqLen),
                    SubSeq(data, a + 2, a + SeqLen + 1))]
Judged == \A g \in grades : g[3] = GradeOf(g[1], g[2])
-----------------------------------------------------------------------------
LEMMA Sizes ==
  /\ Cap \in Nat /\ Cap > 0 /\ MaxRequests \in Nat /\ None \notin Client
  /\ Hello \in Seq(Nat) /\ Len(Hello) > 0 /\ World \in Seq(Nat)
  /\ Len(World) > 0 /\ MaxSeqLen \in Nat /\ MaxSeqLen > 0
<1>1. \A s \in Seq(Nat) \ {<<>>} : Len(s) > 0
  OBVIOUS
<1> QED
  BY <1>1, ServiceAssumption

\* A step on the two texts of the server always counts (Trainer::train_step).
LEMMA TrainingCounts ==
  ASSUME NEW pot, NEW bias
  PROVE  TrainStep(pot, bias, Hello, World).counted = TRUE
<1> DEFINE n == Shorter(Len(Hello), Len(World))
           given == SubSeq(Hello, 1, n)
           seq == Bounded(given)
           xs == [i \in DOMAIN seq |-> Embedded(seq[i])]
           attn == Attention(pot, xs)
           ys == Residual(xs, attn.out)
           ffn == FeedForward(attn.pot, ys)
           block == Block(pot, xs)
           run == Forward(pot, bias, given)
<1>0. TrainStep(pot, bias, Hello, World) = Learned(run, bias, Hello, World)
  BY DEF TrainStep
<1>1. n \in Nat /\ n > 0 /\ n <= Len(Hello)
  BY Sizes DEF Shorter
<1>2. given \in Seq(Nat) /\ Len(given) = n
  BY <1>1, Sizes
<1> HIDE DEF given, n
<1>3. given # <<>>
  BY <1>1, <1>2
<1>4. Shorter(Len(given), MaxSeqLen) \in 1 .. Len(given)
  BY <1>1, <1>2, Sizes DEF Shorter
<1>5. seq \in Seq(Nat) /\ DOMAIN seq # {}
  BY <1>2, <1>4 DEF Bounded
<1> HIDE DEF seq
<1>6. DOMAIN ys = DOMAIN seq
  BY DEF Residual
<1>7. DOMAIN block.out = DOMAIN seq
  <2> HIDE DEF attn, xs
  <2>1. block = SecondHalf(attn.pot, ys)
    BY DEF Block, attn
  <2> HIDE DEF ys, block
  <2>2. block.out = Residual(ys, ffn.out)
    BY <2>1 DEF SecondHalf
  <2> QED
    BY <1>6, <2>2 DEF Residual
<1>8. run = Headed(block, bias)
  BY <1>3 DEF Forward, seq
<1> HIDE DEF block, run
<1>9. DOMAIN run.logits # {}
  BY <1>5, <1>7, <1>8 DEF Headed
<1>10. run.logits # <<>>
  BY <1>9
<1>11. Learned(run, bias, Hello, World).counted = (run.logits # <<>>)
  BY DEF Learned
<1> QED
  BY <1>0, <1>10, <1>11
-----------------------------------------------------------------------------
\* What a client goes on to send changes nothing of what it has sent.
LEMMA ChainStays ==
  ASSUME NEW cmds \in Seq(Command), NEW cmd \in Command, NEW s,
         Chain(cmds, s)
  PROVE  Chain(Append(cmds, cmd), s)
<1> DEFINE more == Append(cmds, cmd)
<1>1. /\ Len(more) = Len(cmds) + 1 /\ Len(cmds) \in Nat
      /\ \A i \in 1 .. Len(cmds) : more[i] = cmds[i]
  OBVIOUS
<1> HIDE DEF more
<1>2. ASSUME NEW k \in 1 .. Len(s)
      PROVE  /\ s[k][1] \in 1 .. Len(more) /\ s[k][2] \in 1 .. Size(more[s[k][1]])
             /\ k < Len(s) => s[k + 1] = After(more, s[k])
  <2>1. s[k][1] \in 1 .. Len(cmds) /\ s[k][2] \in 1 .. Size(cmds[s[k][1]])
    BY DEF Chain
  <2>2. more[s[k][1]] = cmds[s[k][1]] /\ s[k][1] \in 1 .. Len(more)
    BY <1>1, <2>1
  <2> QED
    BY <2>1, <2>2 DEF Chain, After
<1> QED
  BY <1>2 DEF Chain, more

\* A part of a gapless piece.
LEMMA ChainPart ==
  ASSUME NEW cmds, NEW s, NEW m \in Nat \ {0}, NEW n \in 0 .. Len(s),
         Chain(cmds, s)
  PROVE  Chain(cmds, SubSeq(s, m, n))
<1>1. s \in Seq(Nat \X Nat)
  BY DEF Chain
<1> DEFINE t == SubSeq(s, m, n)
<1>2. t \in Seq(Nat \X Nat)
  BY <1>1
<1>3. Len(t) = (IF m <= n THEN n - m + 1 ELSE 0)
  BY <1>1
<1>4. \A k \in 1 .. Len(t) : t[k] = s[k + m - 1] /\ k + m - 1 \in 1 .. Len(s)
  BY <1>1, <1>3
<1> HIDE DEF t
<1>5. ASSUME NEW k \in 1 .. Len(t)
      PROVE  /\ t[k][1] \in 1 .. Len(cmds) /\ t[k][2] \in 1 .. Size(cmds[t[k][1]])
             /\ k < Len(t) => t[k + 1] = After(cmds, t[k])
  <2> DEFINE i == k + m - 1
  <2>1. t[k] = s[i] /\ i \in 1 .. Len(s)
    BY <1>4
  <2>2. k < Len(t) => t[k + 1] = s[i + 1] /\ i < Len(s)
    <3> SUFFICES ASSUME k < Len(t) PROVE t[k + 1] = s[i + 1] /\ i < Len(s)
      OBVIOUS
    <3>1. k + 1 \in 1 .. Len(t) /\ Len(t) \in Nat
      BY <1>2
    <3>2. t[k + 1] = s[(k + 1) + m - 1] /\ (k + 1) + m - 1 \in 1 .. Len(s)
      BY <1>4, <3>1
    <3>3. (k + 1) + m - 1 = i + 1 /\ Len(s) \in Nat
      BY <1>1, <3>1
    <3> QED
      BY <3>2, <3>3
  <2> HIDE DEF i
  <2> QED
    BY <2>1, <2>2 DEF Chain
<1> QED
  BY <1>2, <1>5 DEF Chain, t

LEMMA SizeIsOneOrTwo == \A cmd : Size(cmd) \in {1, 2}
BY DEF Size

\* A new packet goes on where the last one ended.
LEMMA ChainGrows ==
  ASSUME NEW cmds \in Seq(Command), NEW cmd \in Command, NEW s,
         Chain(cmds, s), Latest(cmds, s)
  PROVE  LET more == Append(cmds, cmd)
             t == s \o [k \in 1 .. Size(cmd) |-> <<Len(cmds) + 1, k>>]
         IN  Chain(more, t) /\ Latest(more, t)
<1> DEFINE more == Append(cmds, cmd)
           new == [k \in 1 .. Size(cmd) |-> <<Len(cmds) + 1, k>>]
           t == s \o new
           z == Size(cmd)
<1>0. z \in {1, 2}
  BY SizeIsOneOrTwo
<1>1. /\ Len(more) = Len(cmds) + 1 /\ Len(cmds) \in Nat
      /\ \A i \in 1 .. Len(cmds) : more[i] = cmds[i]
      /\ more[Len(cmds) + 1] = cmd
  OBVIOUS
<1> HIDE DEF more, z
<1>2. s \in Seq(Nat \X Nat) /\ Len(s) \in Nat
  BY DEF Chain
<1>3. new \in Seq(Nat \X Nat) /\ Len(new) = z
  BY <1>0, <1>1 DEF z
<1>4. \A k \in 1 .. z : new[k] = <<Len(cmds) + 1, k>>
  BY DEF z
<1> HIDE DEF new
<1>5. t \in Seq(Nat \X Nat) /\ Len(t) = Len(s) + z
  BY <1>0, <1>2, <1>3
<1>6. /\ \A k \in 1 .. Len(s) : t[k] = s[k]
      /\ \A k \in 1 .. z : t[Len(s) + k] = <<Len(cmds) + 1, k>>
  <2>1. \A k \in 1 .. Len(s) : t[k] = s[k]
    BY <1>2, <1>3
  <2>2. \A k \in 1 .. z : t[Len(s) + k] = new[k]
    BY <1>0, <1>2, <1>3
  <2> QED
    BY <1>4, <2>1, <2>2
<1> HIDE DEF t
<1>7. ASSUME NEW k \in 1 .. Len(t)
      PROVE  /\ t[k][1] \in 1 .. Len(more) /\ t[k][2] \in 1 .. Size(more[t[k][1]])
             /\ k < Len(t) => t[k + 1] = After(more, t[k])
  <2>1. CASE k < Len(s)
    <3>1. k \in 1 .. Len(s) /\ k + 1 \in 1 .. Len(s) /\ Chain(more, s)
      BY <1>2, <2>1, ChainStays DEF more
    <3>2. t[k] = s[k] /\ t[k + 1] = s[k + 1]
      BY <1>6, <3>1
    <3> QED
      BY <2>1, <3>1, <3>2 DEF Chain
  <2>2. CASE k = Len(s)
    <3>1. k \in 1 .. Len(s) /\ Chain(more, s)
      BY <1>2, <2>2, ChainStays DEF more
    <3>2. t[k] = s[k] /\ s[k] = <<Len(cmds), Size(cmds[Len(cmds)])>>
      BY <1>2, <1>6, <2>2, <3>1 DEF Latest
    <3>3. Len(cmds) \in 1 .. Len(cmds)
      BY <1>1, <3>1, <3>2 DEF Chain
    <3>4. t[k + 1] = <<Len(cmds) + 1, 1>>
      BY <1>0, <1>2, <1>6, <2>2
    <3>5. more[Len(cmds)] = cmds[Len(cmds)]
      BY <1>1, <3>3
    <3>6. ~(Size(cmds[Len(cmds)]) < Size(cmds[Len(cmds)]))
      BY SizeIsOneOrTwo
    <3>7. After(more, s[k]) = <<Len(cmds) + 1, 1>>
      BY <3>2, <3>5, <3>6 DEF After
    <3> QED
      BY <3>1, <3>2, <3>4, <3>7 DEF Chain
  <2>3. CASE k > Len(s)
    <3>1. PICK j \in 1 .. z : k = Len(s) + j
      <4>1. k - Len(s) \in 1 .. z /\ k = Len(s) + (k - Len(s))
        BY <1>0, <1>2, <1>5, <2>3
      <4> QED
        BY <4>1
    <3>2. t[k] = <<Len(cmds) + 1, j>>
      BY <1>6, <3>1
    <3>3. more[Len(cmds) + 1] = cmd /\ Len(cmds) + 1 \in 1 .. Len(more)
      BY <1>1
    <3>4. k < Len(t) => t[k + 1] = <<Len(cmds) + 1, j + 1>> /\ j < z
      <4>1. k < Len(t) => j + 1 \in 1 .. z /\ k + 1 = Len(s) + (j + 1)
        BY <1>0, <1>2, <1>5, <3>1
      <4> QED
        BY <1>0, <1>6, <4>1
    <3> QED
      BY <3>2, <3>3, <3>4, <3>1 DEF After, z
  <2> QED
    BY <1>2, <1>5, <2>1, <2>2, <2>3
<1>8. Chain(more, t)
  BY <1>5, <1>7 DEF Chain
<1>9. Latest(more, t)
  <2>1. z \in 1 .. z /\ Len(t) = Len(s) + z
    BY <1>0, <1>5
  <2>2. t[Len(t)] = <<Len(cmds) + 1, z>>
    BY <1>6, <2>1
  <2> QED
    BY <1>1, <2>2 DEF Latest, z
<1> QED
  BY <1>8, <1>9 DEF more, t, new, z

\* A piece that begins with a packet and holds the whole of packet n holds
\* the whole of its first packet, and the rest begins with the next.
LEMMA WholeLeavesRest ==
  ASSUME NEW cmds \in Seq(Command), NEW s, Chain(cmds, s), s # <<>>,
         s[1][2] = 1, NEW n \in 1 .. Len(cmds),
         <<n, Size(cmds[n])>> \in Range(s)
  PROVE  LET m == s[1][1]
             t == SubSeq(s, Size(cmds[m]) + 1, Len(s))
         IN  /\ Len(s) >= Size(cmds[m])
             /\ n # m => /\ t # <<>> /\ t[1][2] = 1
                         /\ <<n, Size(cmds[n])>> \in Range(t)
<1> DEFINE m == s[1][1]
           z == Size(cmds[m])
           t == SubSeq(s, z + 1, Len(s))
<1>1. s \in Seq(Nat \X Nat) /\ Len(s) \in Nat \ {0}
  BY DEF Chain
<1>2. z \in {1, 2} /\ Size(cmds[n]) \in {1, 2} /\ m \in 1 .. Len(cmds)
  BY <1>1, SizeIsOneOrTwo DEF Chain
<1>3. s[1] = <<m, 1>>
  BY <1>1
<1>4. PICK j \in 1 .. Len(s) : s[j] = <<n, Size(cmds[n])>>
  <2>1. DOMAIN s = 1 .. Len(s)
    BY <1>1
  <2>2. PICK j \in DOMAIN s : s[j] = <<n, Size(cmds[n])>>
    BY Zenon DEF Range
  <2> QED
    BY <2>1, <2>2
<1>5. \A k \in 1 .. Len(s) : k < Len(s) => s[k + 1] = After(cmds, s[k])
  BY DEF Chain
<1>6. n # m => j > z /\ s[z + 1][2] = 1
  <2> SUFFICES ASSUME n # m PROVE j > z /\ s[z + 1][2] = 1
    OBVIOUS
  <2>1. j > 1
    BY <1>1, <1>3, <1>4
  <2>2. s[2] = After(cmds, s[1])
    <3>1. 1 \in 1 .. Len(s) /\ 1 < Len(s) /\ 1 + 1 = 2
      BY <1>1, <2>1
    <3> QED
      BY <1>5, <3>1
  <2>3. CASE z = 1
    <3>1. s[2] = <<m + 1, 1>>
      BY <1>3, <2>2, <2>3 DEF After
    <3> QED
      BY <2>1, <2>3, <3>1
  <2>4. CASE z = 2
    <3>1. s[2] = <<m, 2>>
      BY <1>3, <2>2, <2>4 DEF After
    <3>2. j > 2
      BY <1>1, <1>4, <2>1, <3>1
    <3>3. s[3] = After(cmds, s[2])
      <4>1. 2 \in 1 .. Len(s) /\ 2 < Len(s)
        BY <1>1, <3>2
      <4> QED
        BY <1>5, <4>1
    <3>4. s[3] = <<m + 1, 1>>
      BY <2>4, <3>1, <3>3 DEF After
    <3> QED
      BY <2>4, <3>2, <3>4
  <2> QED
    BY <1>2, <2>3, <2>4
<1>7. Len(s) >= z
  <2>1. CASE n # m
    BY <1>1, <1>2, <1>4, <1>6, <2>1
  <2>2. CASE n = m
    <3>1. z = 2 => j # 1
      BY <1>3, <1>4, <2>2
    <3> QED
      BY <1>1, <1>2, <1>4, <3>1
  <2> QED
    BY <2>1, <2>2
<1>8. n # m => t # <<>> /\ t[1] = s[z + 1] /\ s[j] \in Range(t)
  <2> SUFFICES ASSUME n # m PROVE t # <<>> /\ t[1] = s[z + 1] /\ s[j] \in Range(t)
    OBVIOUS
  <2> HIDE DEF z
  <2>1. j > z /\ z \in Nat
    BY <1>2, <1>6
  <2>2. /\ t \in Seq(Nat \X Nat) /\ Len(t) = Len(s) - z
        /\ \A k \in 1 .. Len(t) : t[k] = s[k + z]
    <3>1. z + 1 \in 1 .. Len(s) /\ Len(s) \in Nat
      BY <1>1, <1>4, <2>1
    <3>2. t \in Seq(Nat \X Nat)
      BY <1>1, <3>1
    <3>3. Len(t) = Len(s) - z
      BY <1>1, <2>1, <3>1
    <3>4. \A k \in 1 .. Len(s) - z : t[k] = s[k + z]
      BY <1>1, <2>1, <3>1
    <3> QED
      BY <3>2, <3>3, <3>4
  <2>3. 1 \in 1 .. Len(t) /\ j - z \in 1 .. Len(t)
    BY <1>1, <1>4, <2>1, <2>2
  <2>4. t[1] = s[1 + z] /\ t[j - z] = s[(j - z) + z]
    BY <2>2, <2>3
  <2>5. (j - z) + z = j /\ 1 + z = z + 1 /\ DOMAIN t = 1 .. Len(t)
    BY <2>1, <2>2
  <2>6. t # <<>>
    BY <2>2, <2>3
  <2> HIDE DEF t
  <2>7. s[j] \in Range(t)
    BY <2>3, <2>4, <2>5, Zenon DEF Range
  <2> QED
    BY <2>4, <2>5, <2>6, <2>7
<1> QED
  BY <1>4, <1>6, <1>7, <1>8
-----------------------------------------------------------------------------
LEMMA Initially == Init => Ordered /\ Locked /\ Told /\ Judged
<1> SUFFICES ASSUME Init PROVE Ordered /\ Locked /\ Told /\ Judged
  OBVIOUS
<1>1. Ordered
  <2>1. \A cmds : Tidy(cmds, <<>>, <<>>, "read")
    BY DEF Tidy, Chain, Latest
  <2>2. /\ sent = [c \in Client |-> <<>>] /\ wire = [c \in Client |-> <<>>]
        /\ buf = [c \in Client |-> <<>>] /\ pc = [c \in Client |-> "read"]
        /\ answered = [c \in Client |-> {}]
    BY DEF Init
  <2> QED
    BY <2>1, <2>2 DEF Ordered
<1>2. Locked
  <2>1. PICK data : cortex = [NewCortex EXCEPT !.data = data]
    BY DEF Init
  <2>2. /\ DOMAIN cortex = {"pot", "bias", "steps", "data"}
        /\ cortex.steps = 0
    BY <2>1 DEF NewCortex
  <2> QED
    BY <2>2 DEF Init, Locked
<1> QED
  BY <1>1, <1>2 DEF Init, Told, StepsAreCounted, Judged

\* A command leaves a service, a training step with one more step.
LEMMA ServiceKept ==
  ASSUME NEW cmd, NEW s, DOMAIN s = {"pot", "bias", "steps", "data"},
         s.steps \in Nat
  PROVE  /\ DOMAIN Served(cmd, s) = {"pot", "bias", "steps", "data"}
         /\ Served(cmd, s).steps \in Nat /\ Served(cmd, s).steps >= s.steps
         /\ cmd = "train" => Served(cmd, s).steps = s.steps + 1
<1>1. CASE cmd = "train"
  <2> DEFINE train == TrainStep(s.pot, s.bias, Hello, World)
  <2>1. Served(cmd, s) = Trained(s, train)
    BY <1>1 DEF Served
  <2>2. train.counted = TRUE
    BY TrainingCounts
  <2> HIDE DEF train
  <2>3. /\ DOMAIN Trained(s, train) = DOMAIN s
        /\ Trained(s, train).steps = s.steps + 1
    BY <2>2 DEF Trained
  <2> QED
    BY <2>1, <2>3
<1>2. CASE cmd # "train"
  <2>1. Served(cmd, s) = s \/ \E f \in {"pot", "data"} : \E x :
                               Served(cmd, s) = [s EXCEPT ![f] = x]
    BY <1>2, Zenon DEF Served
  <2>2. \A f \in {"pot", "data"} : \A x :
          /\ DOMAIN [s EXCEPT ![f] = x] = DOMAIN s
          /\ [s EXCEPT ![f] = x].steps = s.steps
    OBVIOUS
  <2> QED
    BY <1>2, <2>1, <2>2
<1> QED
  BY <1>1, <1>2

\* The mutex: what Finish writes back was read since it was locked.
LEMMA LockedStep == Locked /\ [Next]_vars => Locked'
<1> SUFFICES ASSUME Locked, [Next]_vars PROVE Locked'
  OBVIOUS
<1>0. \A c \in Client : c # None
  BY Sizes
<1>1. ASSUME NEW c \in Client, Read(c) \/ Decode(c) \/ Write(c) PROVE Locked'
  <2>1. /\ UNCHANGED <<lock, local, cortex>> /\ DOMAIN pc' = Client
        /\ pc' = [pc EXCEPT ![c] = pc'[c]] /\ pc'[c] # "work"
    BY <1>1 DEF Read, Decode, Write, Locked
  <2> QED
    BY <2>1 DEF Locked
<1>2. ASSUME NEW c \in Client, Enter(c) PROVE Locked'
  <2>1. /\ lock = None /\ lock' = c /\ local' = [local EXCEPT ![c] = cortex]
        /\ pc' = [pc EXCEPT ![c] = "work"] /\ UNCHANGED cortex
    BY <1>2 DEF Enter, Free
  <2>2. \A d \in Client : pc[d] # "work"
    BY <1>0, <2>1 DEF Locked
  <2> QED
    BY <2>1, <2>2 DEF Locked
<1>3. ASSUME NEW c \in Client, Finish(c) PROVE Locked'
  <2>1. /\ pc[c] = "work" /\ pc' = [pc EXCEPT ![c] = "write"]
        /\ local' = [local EXCEPT ![c] = NewCortex]
        /\ cortex' = Served(CommandOf(c), local[c])
    BY <1>3 DEF Finish
  <2>2. \A d \in Client : d # c => pc[d] # "work"
    BY <2>1 DEF Locked
  <2>3. /\ DOMAIN cortex' = {"pot", "bias", "steps", "data"}
        /\ cortex'.steps \in Nat
    BY <2>1, ServiceKept DEF Locked
  <2> QED
    BY <2>1, <2>2, <2>3 DEF Locked
<1>4. ASSUME NEW c \in Client, Close(c) \/ \E cmd \in Command : Send(c, cmd)
      PROVE  Locked'
  <2>1. UNCHANGED <<pc, lock, local, cortex>>
    BY <1>4 DEF Close, Send
  <2> QED
    BY <2>1 DEF Locked
<1>5. CASE UNCHANGED vars
  BY <1>5 DEF vars, Locked
<1> QED
  BY <1>1, <1>2, <1>3, <1>4, <1>5 DEF Next, Thread

\* A step number is told when the service has just made it.
LEMMA ToldStep == Locked /\ Told /\ [Next]_vars => Told'
<1> SUFFICES ASSUME Locked, Told, [Next]_vars PROVE Told'
  OBVIOUS
<1>1. ASSUME NEW c \in Client, Finish(c) PROVE Told'
  <2> DEFINE cmd == CommandOf(c)
             new == <<c, First(c), cortex'.steps>>
  <2>1. /\ pc[c] = "work" /\ cortex' = Served(cmd, local[c])
        /\ told' = IF cmd = "train" THEN told \cup {new} ELSE told
    BY <1>1 DEF Finish
  <2>2. /\ cortex'.steps \in Nat /\ cortex'.steps >= cortex.steps
        /\ cmd = "train" => cortex'.steps = cortex.steps + 1
        /\ cortex.steps \in Nat
    BY <2>1, ServiceKept DEF Locked
  <2> HIDE DEF cmd
  <2>3. CASE cmd = "train"
    <3>1. told' = told \cup {new} /\ new[3] = cortex.steps + 1
      BY <2>1, <2>2, <2>3
    <3>2. \A a \in told : a[3] \in Nat /\ a[3] < new[3] /\ a[3] # new[3]
      BY <2>2, <3>1 DEF Told
    <3>3. \A a \in told' : a[3] \in Nat /\ a[3] <= cortex'.steps
      BY <2>2, <2>3, <3>1, <3>2
    <3>4. \A a, b \in told' : (a[1] # b[1] \/ a[2] # b[2]) => a[3] # b[3]
      <4> HIDE DEF new
      <4> QED
        BY <3>1, <3>2 DEF Told, StepsAreCounted
    <3> QED
      BY <3>3, <3>4 DEF Told, StepsAreCounted
  <2>4. CASE cmd # "train"
    <3>1. told' = told
      BY <2>1, <2>4
    <3> QED
      BY <2>2, <3>1 DEF Told, StepsAreCounted
  <2> QED
    BY <2>3, <2>4
<1>2. CASE UNCHANGED <<told, cortex>>
  BY <1>2 DEF Told, StepsAreCounted
<1>3. ASSUME NEW c \in Client,
             Read(c) \/ Decode(c) \/ Enter(c) \/ Write(c) \/ Close(c)
               \/ \E cmd \in Command : Send(c, cmd)
      PROVE  UNCHANGED <<told, cortex>>
  BY <1>3 DEF Read, Decode, Enter, Write, Close, Send
<1>4. CASE UNCHANGED vars
  BY <1>4, <1>2 DEF vars
<1> QED
  BY <1>1, <1>2, <1>3, <1>4 DEF Next, Thread

\* An evaluation begins by resetting what other calls left behind.
LEMMA JudgedStep == Judged /\ [Next]_vars => Judged'
<1> SUFFICES ASSUME Judged, [Next]_vars PROVE Judged'
  OBVIOUS
<1>1. ASSUME NEW c \in Client, Finish(c) PROVE Judged'
  <2>1. \A s : Graded(s) = GradeOf(s.bias, s.data)
    BY DEF Graded, GradeOf, Fresh
  <2>2. PICK s : grades' \subseteq grades \cup {<<s.bias, s.data, Graded(s)>>}
    BY <1>1 DEF Finish
  <2> QED
    BY <2>1, <2>2 DEF Judged
<1>2. CASE UNCHANGED grades
  BY <1>2 DEF Judged
<1>3. ASSUME NEW c \in Client,
             Read(c) \/ Decode(c) \/ Enter(c) \/ Write(c) \/ Close(c)
               \/ \E cmd \in Command : Send(c, cmd)
      PROVE  UNCHANGED grades
  BY <1>3 DEF Read, Decode, Enter, Write, Close, Send
<1>4. CASE UNCHANGED vars
  BY <1>4, <1>2 DEF vars
<1> QED
  BY <1>1, <1>2, <1>3, <1>4 DEF Next, Thread

\* Whatever requests the connections interleave, and whatever the model, the
\* step numbers they are told are distinct (StepsAreCounted of run service).
THEOREM StepsAreTheirOwn == Spec => []StepsAreCounted
<1>1. Told => StepsAreCounted
  BY DEF Told
<1> QED
  BY <1>1, Initially, LockedStep, ToldStep, PTL DEF Spec

\* Two evaluations of the same weights and data answer the same, whatever ran
\* in between (EvalIsIsolated of run service).
THEOREM EvaluationsRepeat == Spec => []EvalIsIsolated
<1>1. Judged => EvalIsIsolated
  BY DEF Judged, EvalIsIsolated
<1> QED
  BY <1>1, Initially, JudgedStep, PTL DEF Spec
-----------------------------------------------------------------------------
\* Only the connection of c has moved.
Alone(c) ==
  /\ sent' = [sent EXCEPT ![c] = sent'[c]] /\ wire' = [wire EXCEPT ![c] = wire'[c]]
  /\ buf' = [buf EXCEPT ![c] = buf'[c]] /\ pc' = [pc EXCEPT ![c] = pc'[c]]
  /\ answered' = [answered EXCEPT ![c] = answered'[c]]

LEMMA OneMoves ==
  ASSUME Ordered, NEW c \in Client, Alone(c), sent'[c] \in Seq(Command),
         Tidy(sent'[c], wire'[c], buf'[c], pc'[c])
  PROVE  Ordered'
BY DEF Ordered, Alone

LEMMA ReadKeeps ==
  ASSUME Ordered, NEW c \in Client, Read(c)
  PROVE  Ordered' /\ ~\E n \in Nat : Whole(c, n)
<1>1. buf[c] = <<>>
  BY DEF Ordered, Tidy, Read
<1>2. Alone(c) /\ sent' = sent
  BY DEF Alone, Ordered, Read
<1>3. Tidy(sent[c], wire'[c], buf'[c], pc'[c])
  <2>1. CASE /\ wire[c] = <<>> /\ closed[c]
             /\ pc' = [pc EXCEPT ![c] = "gone"] /\ UNCHANGED <<buf, wire>>
    BY <2>1 DEF Ordered, Tidy
  <2>2. CASE /\ wire[c] # <<>>
             /\ \E n \in 1 .. Shorter(Cap, Len(wire[c])) :
                  /\ buf' = [buf EXCEPT ![c] = SubSeq(wire[c], 1, n)]
                  /\ wire' = [wire EXCEPT ![c] = SubSeq(@, n + 1, Len(@))]
             /\ pc' = [pc EXCEPT ![c] = "decode"]
    <3> DEFINE w == wire[c]
    <3>1. PICK n \in 1 .. Shorter(Cap, Len(w)) :
                 /\ buf' = [buf EXCEPT ![c] = SubSeq(w, 1, n)]
                 /\ wire' = [wire EXCEPT ![c] = SubSeq(w, n + 1, Len(w))]
      BY <2>2
    <3>2. w \in Seq(Nat \X Nat) /\ Chain(sent[c], w) /\ Latest(sent[c], w)
      BY DEF Ordered, Tidy, Chain
    <3>3. /\ buf'[c] = SubSeq(w, 1, n) /\ wire'[c] = SubSeq(w, n + 1, Len(w))
          /\ pc'[c] = "decode"
      BY <2>2, <3>1 DEF Ordered
    <3> HIDE DEF w
    <3>4. n \in 1 .. Len(w) /\ Len(w) \in Nat
      BY <3>2, Sizes DEF Shorter
    <3>5. Chain(sent[c], SubSeq(w, 1, n))
      BY <3>2, <3>4, ChainPart
    <3>6. Chain(sent[c], SubSeq(w, n + 1, Len(w)))
      BY <3>2, <3>4, ChainPart
    <3>7. Latest(sent[c], SubSeq(w, n + 1, Len(w)))
      <4> DEFINE t == SubSeq(w, n + 1, Len(w))
      <4>1. /\ Len(t) = Len(w) - n /\ \A k \in 1 .. Len(t) : t[k] = w[k + n]
            /\ t # <<>> => Len(t) > 0
        BY <3>2, <3>4
      <4>2. t # <<>> => t[Len(t)] = w[Len(w)] /\ w # <<>>
        <5>1. (Len(w) - n) + n = Len(w)
          BY <3>4
        <5>2. t # <<>> => Len(t) \in 1 .. Len(t)
          BY <3>4, <4>1
        <5> HIDE DEF t
        <5> QED
          BY <3>4, <4>1, <5>1, <5>2
      <4> QED
        BY <3>2, <4>2 DEF Latest
    <3> QED
      BY <3>3, <3>5, <3>6, <3>7 DEF Tidy
  <2> QED
    BY <2>1, <2>2 DEF Read
<1>4. sent'[c] \in Seq(Command)
  BY <1>2 DEF Ordered
<1> QED
  BY <1>1, <1>2, <1>3, <1>4, OneMoves DEF Whole

LEMMA DecodeKeeps ==
  ASSUME Ordered, NEW c \in Client, Decode(c)
  PROVE  Ordered' /\ \A n \in Nat : Whole(c, n) => Whole(c, n)'
<1>1. Alone(c) /\ sent' = sent
  BY DEF Alone, Ordered, Decode
<1>2. sent[c] \in Seq(Command) /\ Tidy(sent[c], wire[c], buf[c], pc[c])
  BY DEF Ordered
<1>3. CASE Decodes(c)
  <2>1. pc'[c] = "wait" /\ buf' = buf /\ wire' = wire
    BY <1>3 DEF Decode, Ordered
  <2>2. Tidy(sent'[c], wire'[c], buf'[c], pc'[c])
    BY <1>1, <1>2, <1>3, <2>1 DEF Tidy, Decodes, CommandOf, First
  <2>3. Ordered'
    BY <1>1, <1>2, <2>2, OneMoves
  <2> QED
    BY <1>1, <2>1, <2>3 DEF Whole
<1>4. CASE ~Decodes(c)
  <2>1. pc'[c] = "read" /\ buf'[c] = <<>> /\ wire' = wire
    BY <1>4 DEF Decode, Ordered
  <2>2. Tidy(sent'[c], wire'[c], buf'[c], pc'[c])
    BY <1>1, <1>2, <2>1 DEF Tidy, Chain
  <2>3. Ordered'
    BY <1>1, <1>2, <2>2, OneMoves
  <2>4. \A n \in Nat : ~Whole(c, n)
    <3> SUFFICES ASSUME NEW n \in Nat, Whole(c, n) PROVE FALSE
      OBVIOUS
    <3>1. Len(buf[c]) >= Size(sent[c][buf[c][1][1]])
      BY <1>2, WholeLeavesRest DEF Whole, Tidy
    <3> QED
      BY <1>4, <3>1 DEF Whole, Decodes, CommandOf, First
  <2> QED
    BY <2>3, <2>4
<1> QED
  BY <1>3, <1>4

LEMMA WriteKeeps ==
  ASSUME Ordered, NEW c \in Client, Write(c)
  PROVE  /\ Ordered'
         /\ \A n \in Nat : Whole(c, n) => Whole(c, n)' \/ n \in answered'[c] \/ closed[c]
<1>1. Alone(c) /\ sent' = sent /\ wire' = wire
  BY DEF Alone, Ordered, Write
<1>2. sent[c] \in Seq(Command) /\ Tidy(sent[c], wire[c], buf[c], pc[c])
  BY DEF Ordered
<1>3. /\ pc[c] = "write" /\ Chain(sent[c], buf[c]) /\ buf[c] \in Seq(Nat \X Nat)
      /\ buf[c] # <<>> /\ buf[c][1][2] = 1
  BY <1>2 DEF Write, Tidy, Chain
<1>4. CASE closed[c] /\ pc' = [pc EXCEPT ![c] = "gone"] /\ UNCHANGED buf
  <2>1. Tidy(sent'[c], wire'[c], buf'[c], pc'[c])
    BY <1>1, <1>2, <1>4 DEF Tidy, Ordered
  <2> QED
    BY <1>1, <1>2, <1>4, <2>1, OneMoves
<1>5. CASE /\ answered' = [answered EXCEPT ![c] = @ \cup {First(c)}]
           /\ pc' = [pc EXCEPT ![c] = "decode"]
           /\ buf' = [buf EXCEPT ![c] = Rest(c)]
  <2> DEFINE m == buf[c][1][1]
             z == Size(sent[c][m])
  <2>1. /\ buf'[c] = SubSeq(buf[c], z + 1, Len(buf[c]))
        /\ pc'[c] = "decode" /\ m \in answered'[c]
    BY <1>5 DEF Ordered, Rest, First, CommandOf
  <2>2. z + 1 \in Nat \ {0} /\ Len(buf[c]) \in 0 .. Len(buf[c])
    BY <1>3, SizeIsOneOrTwo
  <2>3. Chain(sent[c], buf'[c])
    BY <1>3, <2>1, <2>2, ChainPart
  <2>4. Tidy(sent'[c], wire'[c], buf'[c], pc'[c])
    BY <1>1, <1>2, <2>1, <2>3 DEF Tidy
  <2>5. Ordered'
    BY <1>1, <1>2, <2>4, OneMoves
  <2>6. ASSUME NEW n \in Nat, Whole(c, n) PROVE Whole(c, n)' \/ n \in answered'[c]
    <3>1. n \in 1 .. Len(sent[c]) /\ <<n, Size(sent[c][n])>> \in Range(buf[c])
      BY <2>6 DEF Whole
    <3>2. n # m => /\ buf'[c] # <<>> /\ buf'[c][1][2] = 1
                   /\ <<n, Size(sent[c][n])>> \in Range(buf'[c])
      BY <1>2, <1>3, <2>1, <3>1, WholeLeavesRest
    <3> QED
      BY <1>1, <2>1, <3>1, <3>2 DEF Whole
  <2> QED
    BY <2>5, <2>6
<1> QED
  BY <1>4, <1>5 DEF Write

LEMMA SendKeeps ==
  ASSUME Ordered, NEW c \in Client, NEW cmd \in Command, Send(c, cmd)
  PROVE  Ordered' /\ \A n \in Nat : Whole(c, n) => Whole(c, n)'
<1> DEFINE cmds == sent[c]
           more == Append(cmds, cmd)
<1>1. /\ sent' = [sent EXCEPT ![c] = Append(@, cmd)] /\ UNCHANGED <<buf, pc, answered>>
      /\ wire' = [wire EXCEPT ![c] =
                    @ \o [k \in 1 .. Size(cmd) |-> <<Len(cmds) + 1, k>>]]
  BY DEF Send
<1>2. cmds \in Seq(Command) /\ Tidy(cmds, wire[c], buf[c], pc[c])
  BY DEF Ordered
<1>3. Alone(c) /\ sent'[c] = more /\ buf'[c] = buf[c] /\ pc'[c] = pc[c]
      /\ wire'[c] = wire[c] \o [k \in 1 .. Size(cmd) |-> <<Len(cmds) + 1, k>>]
  BY <1>1 DEF Alone, Ordered
<1> HIDE DEF cmds
<1>4. more \in Seq(Command) /\ Len(more) = Len(cmds) + 1 /\ Len(cmds) \in Nat
      /\ \A i \in 1 .. Len(cmds) : more[i] = cmds[i]
  BY <1>2
<1>5. Chain(more, buf[c]) /\ Chain(more, wire'[c]) /\ Latest(more, wire'[c])
  BY <1>2, <1>3, ChainStays, ChainGrows DEF Tidy
<1> HIDE DEF more
<1>6. buf[c] # <<>> => more[buf[c][1][1]] = cmds[buf[c][1][1]]
  <2> SUFFICES ASSUME buf[c] # <<>> PROVE buf[c][1][1] \in 1 .. Len(cmds)
    BY <1>4
  <2>1. 1 \in 1 .. Len(buf[c])
    BY <1>2 DEF Tidy, Chain
  <2> QED
    BY <1>2, <2>1 DEF Tidy, Chain
<1>7. Tidy(sent'[c], wire'[c], buf'[c], pc'[c])
  BY <1>2, <1>3, <1>5, <1>6 DEF Tidy
<1>8. Ordered'
  BY <1>3, <1>4, <1>7, OneMoves
<1>9. ASSUME NEW n \in Nat, Whole(c, n) PROVE Whole(c, n)'
  <2>1. n \in 1 .. Len(cmds)
    BY <1>9 DEF Whole, cmds
  <2>2. n \in 1 .. Len(more) /\ more[n] = cmds[n]
    BY <1>4, <2>1
  <2> QED
    BY <1>1, <1>3, <1>9, <2>2 DEF Whole, cmds
<1> QED
  BY <1>8, <1>9

\* A step and the client that takes it; the others stay as they are.
LEMMA OrderedStep ==
  ASSUME Ordered, [Next]_vars
  PROVE  /\ Ordered'
         /\ \A c \in Client, n \in Nat :
              Whole(c, n) => Whole(c, n)' \/ n \in answered'[c] \/ closed[c]
<1>1. ASSUME NEW d \in Client, sent'[d] = sent[d], buf'[d] = buf[d]
      PROVE  \A n \in Nat : Whole(d, n) => Whole(d, n)'
  BY <1>1 DEF Whole
<1>2. ASSUME NEW c \in Client, Enter(c) \/ Finish(c)
      PROVE  Ordered' /\ UNCHANGED <<sent, buf>>
  <2>1. /\ UNCHANGED <<sent, buf, wire, answered>>
        /\ pc' = [pc EXCEPT ![c] = pc'[c]]
        /\ pc[c] \in {"wait", "work"} /\ pc'[c] \in {"work", "write"}
    BY <1>2 DEF Enter, Finish, Ordered
  <2>2. Alone(c)
    BY <2>1 DEF Alone, Ordered
  <2>3. sent'[c] \in Seq(Command) /\ Tidy(sent'[c], wire'[c], buf'[c], pc'[c])
    BY <2>1 DEF Ordered, Tidy
  <2> QED
    BY <2>1, <2>2, <2>3, OneMoves
<1>3. CASE UNCHANGED <<sent, wire, buf, pc, answered>>
  BY <1>3, <1>1 DEF Ordered
<1>4. ASSUME NEW c \in Client, Close(c)
      PROVE  UNCHANGED <<sent, wire, buf, pc, answered>>
  BY <1>4 DEF Close
<1>5. ASSUME NEW c \in Client, NEW d \in Client, d # c,
             Read(c) \/ Decode(c) \/ Write(c) \/ \E cmd \in Command : Send(c, cmd)
      PROVE  sent'[d] = sent[d] /\ buf'[d] = buf[d]
  BY <1>5 DEF Read, Decode, Write, Send, Ordered
<1>6. CASE UNCHANGED vars
  BY <1>3, <1>6 DEF vars
<1>7. CASE \E c \in Client : Read(c) \/ Decode(c) \/ Write(c)
                               \/ \E cmd \in Command : Send(c, cmd)
  <2>1. PICK c \in Client : Read(c) \/ Decode(c) \/ Write(c)
                               \/ \E cmd \in Command : Send(c, cmd)
    BY <1>7
  <2>2. /\ Ordered'
        /\ \A n \in Nat : Whole(c, n) => Whole(c, n)' \/ n \in answered'[c] \/ closed[c]
    BY <2>1, ReadKeeps, DecodeKeeps, WriteKeeps, SendKeeps
  <2>3. ASSUME NEW d \in Client, NEW n \in Nat, Whole(d, n)
        PROVE  Whole(d, n)' \/ n \in answered'[d] \/ closed[d]
    <3>1. CASE d = c
      BY <2>2, <2>3, <3>1
    <3>2. CASE d # c
      BY <1>1, <1>5, <2>1, <2>3, <3>2
    <3> QED
      BY <3>1, <3>2
  <2> QED
    BY <2>2, <2>3
<1>8. CASE \E c \in Client : Enter(c) \/ Finish(c)
  BY <1>1, <1>2, <1>8
<1> QED
  BY <1>3, <1>4, <1>6, <1>7, <1>8 DEF Next, Thread

\* No step lets go of a packet that is whole in the buffer, unless it answers
\* it or its client left, whatever else a read brought and however many
\* clients there are (WholeIsAnswered of run service).
THEOREM WholePacketsAreAnswered == Spec => WholeIsAnswered
<1>1. 1 .. MaxRequests \subseteq Nat
  BY Sizes
<1>2. Ordered /\ [Next]_vars =>
        Ordered' /\ [\A c \in Client, n \in 1 .. MaxRequests :
                       Whole(c, n) => Whole(c, n)' \/ n \in answered'[c]
                                                   \/ closed[c]]_vars
  BY <1>1, OrderedStep
<1> QED
  BY <1>2, Initially, PTL DEF Spec, WholeIsAnswered
=============================================================================
