------------------------------- MODULE Service -------------------------------
(***************************************************************************)
(* HklNativeServer (api/server.rs): a thread per connection reads packets  *)
(* of HKL-NP (api/protocol.rs) and serves them from one CortexService      *)
(* (api/cortex_service.rs) behind a mutex.                                 *)
(*                                                                         *)
(* A client writes whole packets of one or more units (a header, then the  *)
(* rest), and may write the next before the answer to the last.  TCP       *)
(* delivers the units in order, in pieces of its own choosing.             *)
(***************************************************************************)
EXTENDS Transformer

CONSTANTS Client,
          Command,          \* commands in play, of the names Size knows
          Cap,              \* units the read buffer holds
          MaxRequests,      \* bound: packets the clients send
          Hello, World,     \* what the texts of train_eprop encode to
          Stream,           \* what the text of PerceiveFrame encodes to
          Prompt,           \* payload of SynthesizeResponse
          MaxNew,           \* tokens synthesize adds at most: 4
          End,              \* tokens that end a text: 0 and 10
          Tokens,           \* payload of DatasetStream
          SeqLen            \* tokens of an evaluated sample: 8

None == "none"
ASSUME ServiceAssumption ==
  /\ Cap \in Nat \ {0} /\ MaxRequests \in Nat /\ None \notin Client
  /\ {Hello, World} \subseteq Seq(Nat) \ {<<>>} /\ MaxSeqLen \in Nat \ {0}

VARIABLES sent,             \* commands a client has sent
          wire,             \* units on their way to the server
          closed,           \* the client has closed its end
          pc, buf,          \* of the thread: where it is, its read buffer
          local,            \* the service as the thread saw it
          lock,             \* the mutex: a client's thread or None
          cortex,           \* CortexService: pot, bias, steps, data
          answered,         \* requests answered, per client
          told,             \* (history) step numbers told, and to whom
          grades            \* (history) evaluations: of what, and the result

vars == <<sent, wire, closed, pc, buf, local, lock, cortex, answered, told,
          grades>>

\* The units of a packet; a dataset or a prompt is its payload.
Size(cmd) == IF cmd \in {"dataset", "synthesize"} THEN 2 ELSE 1

NewCortex == [pot |-> Rested, bias |-> [v \in Vocab |-> 0], steps |-> 0,
              data |-> <<>>]

\* A server just started, or up for long enough to have received a dataset.
Init ==
  /\ sent = [c \in Client |-> <<>>] /\ wire = [c \in Client |-> <<>>]
  /\ closed = [c \in Client |-> FALSE]
  /\ pc = [c \in Client |-> "read"] /\ buf = [c \in Client |-> <<>>]
  /\ local = [c \in Client |-> NewCortex] /\ lock = None
  /\ \E data \in {<<>>, Tokens} : cortex = [NewCortex EXCEPT !.data = data]
  /\ answered = [c \in Client |-> {}] /\ told = {} /\ grades = {}

Send(c, cmd) ==
  /\ ~closed[c] /\ MapThenSumSet(LAMBDA d : Len(sent[d]), Client) < MaxRequests
  /\ LET n == Len(sent[c]) + 1
     IN  /\ sent' = [sent EXCEPT ![c] = Append(@, cmd)]
         /\ wire' = [wire EXCEPT ![c] =
                       @ \o [k \in 1 .. Size(cmd) |-> <<n, k>>]]
  /\ UNCHANGED <<closed, pc, buf, local, lock, cortex, answered, told, grades>>

Close(c) ==
  /\ ~closed[c] /\ closed' = [closed EXCEPT ![c] = TRUE]
  /\ UNCHANGED <<sent, wire, pc, buf, local, lock, cortex, answered, told,
                 grades>>

\* stream.read: some of what has arrived, or 0 once the client has gone.
Read(c) ==
  /\ pc[c] = "read"
  /\ \/ /\ wire[c] # <<>>
        /\ \E n \in 1 .. Shorter(Cap, Len(wire[c])) :
             /\ buf' = [buf EXCEPT ![c] = SubSeq(wire[c], 1, n)]
             /\ wire' = [wire EXCEPT ![c] = SubSeq(@, n + 1, Len(@))]
        /\ pc' = [pc EXCEPT ![c] = "decode"]
     \/ /\ wire[c] = <<>> /\ closed[c]
        /\ pc' = [pc EXCEPT ![c] = "gone"] /\ UNCHANGED <<buf, wire>>
  /\ UNCHANGED <<sent, closed, local, lock, cortex, answered, told, grades>>

First(c) == buf[c][1][1]                    \* the request the buffer begins
CommandOf(c) == sent[c][First(c)]

\* HklBinaryPacket::decode: a header at the front and all of its payload.
Decodes(c) ==
  buf[c] # <<>> /\ buf[c][1][2] = 1 /\ Len(buf[c]) >= Size(CommandOf(c))

\* The decode loop goes on to lock the service, or drops what does not
\* decode, an incomplete packet too, and reads again.
Decode(c) ==
  /\ pc[c] = "decode"
  /\ IF Decodes(c)
     THEN pc' = [pc EXCEPT ![c] = "wait"] /\ UNCHANGED buf
     ELSE pc' = [pc EXCEPT ![c] = "read"] /\ buf' = [buf EXCEPT ![c] = <<>>]
  /\ UNCHANGED <<sent, wire, closed, local, lock, cortex, answered, told,
                 grades>>

\* Mutated form of Free: the service is not behind a mutex.
FreeAlways == TRUE
Free == lock = None

\* handle_packet: service.lock(), and the command's reads.
Enter(c) ==
  /\ pc[c] = "wait" /\ Free
  /\ lock' = c /\ local' = [local EXCEPT ![c] = cortex]
  /\ pc' = [pc EXCEPT ![c] = "work"]
  /\ UNCHANGED <<sent, wire, closed, buf, cortex, answered, told, grades>>

\* CortexService::synthesize: forward over all there is, again and again.
Extended(seq, run) ==
  LET next == Predicted(Last(run.logits))
  IN  [pot |-> run.pot, seq |-> Append(seq, next), stop |-> next \in End]
Synthesized(s) ==
  LET after[n \in 0 .. MaxNew] ==
        IF n = 0 THEN [pot |-> s.pot, seq |-> Prompt, stop |-> FALSE]
        ELSE LET before == after[n - 1]
             IN  IF before.stop THEN before
                 ELSE Extended(before.seq,
                               Forward(before.pot, s.bias, before.seq))
  IN  after[MaxNew]

\* Mutated form of Fresh: an evaluation starts from the potentials it finds.
FreshNever(s) == s.pot
\* eval_sample: reset_model_state before the sample.
Fresh(s) == Rested

\* eval_dataset: the whole samples of the buffer, each followed by one token.
Samples(data) == 1 .. (IF data = <<>> THEN 0 ELSE (Len(data) - 1) \div SeqLen)
Graded(s) ==
  [k \in Samples(s.data) |->
     LET a == (k - 1) * SeqLen
     IN  EvalSample(Fresh(s), s.bias, SubSeq(s.data, a + 1, a + SeqLen),
                    SubSeq(s.data, a + 2, a + SeqLen + 1))]

\* The service after a command; an unlisted command changes nothing.
Trained(s, train) ==
  [s EXCEPT !.pot = train.pot, !.bias = train.bias,
            !.steps = @ + IF train.counted THEN 1 ELSE 0]
Served(cmd, s) ==
  CASE cmd = "perceive" ->
         [s EXCEPT !.pot = Forward(s.pot, s.bias, Stream).pot]
    [] cmd = "synthesize" -> [s EXCEPT !.pot = Synthesized(s).pot]
    [] cmd = "train" ->
         Trained(s, TrainStep(s.pot, s.bias, Hello, World))
    [] cmd = "dataset" -> [s EXCEPT !.data = @ \o Tokens]
    [] cmd = "eval" ->
         [s EXCEPT !.pot = IF Samples(s.data) = {} THEN @ ELSE Rested]
    [] OTHER -> s

\* The command's writes and its answer; the guard is dropped.
Finish(c) ==
  LET cmd == CommandOf(c)
      s == local[c]
  IN  /\ pc[c] = "work" /\ pc' = [pc EXCEPT ![c] = "write"]
      /\ lock' = None /\ cortex' = Served(cmd, s)
      /\ local' = [local EXCEPT ![c] = NewCortex]
      /\ told' = IF cmd = "train" THEN told \cup {<<c, First(c), cortex'.steps>>}
                                  ELSE told
      /\ grades' = IF cmd = "eval"
                   THEN grades \cup {<<s.bias, s.data, Graded(s)>>}
                   ELSE grades
      /\ UNCHANGED <<sent, wire, closed, buf, answered>>

\* Mutated form of Rest: one packet is served of each read.
RestDropped(c) == <<>>
\* cursor += consumed
Rest(c) == SubSeq(buf[c], Size(CommandOf(c)) + 1, Len(buf[c]))

\* stream.write_all, which fails only when the client has closed.
Write(c) ==
  /\ pc[c] = "write"
  /\ \/ /\ answered' = [answered EXCEPT ![c] = @ \cup {First(c)}]
        /\ pc' = [pc EXCEPT ![c] = "decode"]
        /\ buf' = [buf EXCEPT ![c] = Rest(c)]
     \/ /\ closed[c] /\ pc' = [pc EXCEPT ![c] = "gone"]
        /\ UNCHANGED <<buf, answered>>
  /\ UNCHANGED <<sent, wire, closed, local, lock, cortex, told, grades>>

Thread(c) == Read(c) \/ Decode(c) \/ Enter(c) \/ Finish(c) \/ Write(c)
Next == \E c \in Client :
          Thread(c) \/ Close(c) \/ \E cmd \in Command : Send(c, cmd)

Spec == Init /\ [][Next]_vars
-----------------------------------------------------------------------------
\* However requests of several connections interleave, the step numbers told
\* to the clients that train are the steps made, one each.
StepsAreCounted ==
  \A a, b \in told :
    (a[1] # b[1] \/ a[2] # b[2]) => a[3] # b[3]

\* What an evaluation answers depends on the weights and the data alone: not
\* on what other clients have made the neurons do before.
EvalIsIsolated ==
  \A a, b \in grades : (a[1] = b[1] /\ a[2] = b[2]) => a[3] = b[3]

\* The whole of request n is in the buffer, after whole packets only.
Whole(c, n) ==
  /\ buf[c] # <<>> /\ buf[c][1][2] = 1 /\ n \in 1 .. Len(sent[c])
  /\ <<n, Size(sent[c][n])>> \in Range(buf[c])

\* A packet that arrives in one read, alone or behind others, is answered
\* unless its client leaves: no step lets go of it unanswered.  One that is
\* split over two reads never is: its first half is dropped.
WholeIsAnswered ==
  [][\A c \in Client, n \in 1 .. MaxRequests :
       Whole(c, n) => Whole(c, n)' \/ n \in answered'[c] \/ closed[c]]_vars
=============================================================================
