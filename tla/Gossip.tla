------------------------------- MODULE Gossip -------------------------------
(***************************************************************************)
(* The gossip queue of MeshNetwork (swarm/mesh.rs) and its buffer of       *)
(* spikes from other nodes, between the messages peers send and the        *)
(* periodic swarm_tick of the service (api/cortex_service.rs).             *)
(*                                                                         *)
(* A message keeps the timestamp its originator gave it, by a clock that   *)
(* may be ahead of ours: ages run from -Skew to Life, and a negative age   *)
(* wraps to a huge one.  Peers may echo a message back for ever.           *)
(***************************************************************************)
EXTENDS Integers, Sequences, FiniteSets

CONSTANTS Msg,
          MaxGossip,     \* capacity of gossip_queue
          Fanout,        \* GOSSIP_FANOUT
          MaxTargets,    \* bound: connected peers other than the sender
          Life, Skew,    \* age at which a message is dropped; clocks' lead
          MaxSpikes,     \* capacity of remote_spikes
          MaxHops        \* hops from which a remote spike has no effect

VARIABLES stamp,     \* age of each message by the timestamp it carries
          queue,     \* gossip_queue: messages with their age
          spikes,    \* remote_spikes: their hop counts
          reached    \* spikes that changed a membrane in the last call

vars == <<stamp, queue, spikes, reached>>

Age == -Skew .. Life
Spike == [hops : 0 .. MaxHops, positive : BOOLEAN]

Init ==
  /\ stamp \in [Msg -> Age] /\ queue = <<>> /\ spikes = <<>> /\ reached = 0

\* now.wrapping_sub(timestamp) < 1000
Fresh(age) == age >= 0 /\ age < Life
Older(age) == IF age < Life THEN age + 1 ELSE Life
Copies(x, n) == [i \in 1 .. n |-> x]
Least(a, b) == IF a < b THEN a ELSE b

\* Mutated form of Forwarded: every hop stamps the message anew.
ForwardedRestamped(m) == [msg |-> m, age |-> 0]
\* The sender and the hop count change, the timestamp does not.
Forwarded(m) == [msg |-> m, age |-> stamp[m]]

\* gossip_propagate and enqueue_gossip: one copy for each of Fanout targets,
\* as far as there is room.
Propagate(m) ==
  \E targets \in 0 .. MaxTargets :
    /\ queue' = queue \o Copies(Forwarded(m),
                  Least(Least(Fanout, targets), MaxGossip - Len(queue)))
    /\ UNCHANGED <<stamp, spikes, reached>>

\* What is kept moves up, in its order: to each of the places left belongs the
\* place it was filled from.
Young == {i \in DOMAIN queue : Fresh(queue[i].age)}
Kept == {f \in [1 .. Cardinality(Young) -> Young] :
          \A i, j \in DOMAIN f : i < j => f[i] < f[j]}

\* process_gossip_queue, called by swarm_tick; nothing else takes a message
\* out of the queue.
ProcessGossip ==
  /\ \E f \in Kept : queue' = [i \in DOMAIN f |-> queue[f[i]]]
  /\ UNCHANGED <<stamp, spikes, reached>>

ReceiveSpike ==
  /\ \E s \in Spike :
       spikes' = IF Len(spikes) < MaxSpikes THEN Append(spikes, s) ELSE spikes
  /\ UNCHANGED <<stamp, queue, reached>>

\* apply_remote_spikes
ApplySpikes ==
  /\ reached' = Cardinality({i \in DOMAIN spikes :
                               spikes[i].positive /\ spikes[i].hops < MaxHops})
  /\ spikes' = <<>> /\ UNCHANGED <<stamp, queue>>

Clock ==
  /\ stamp' = [m \in Msg |-> Older(stamp[m])]
  /\ queue' = [i \in DOMAIN queue |->
                 [queue[i] EXCEPT !.age = Older(queue[i].age)]]
  /\ UNCHANGED <<spikes, reached>>

Next ==
  \/ \E m \in Msg : Propagate(m)
  \/ ProcessGossip
  \/ ReceiveSpike
  \/ ApplySpikes
  \/ Clock
-----------------------------------------------------------------------------
TypeOK ==
  /\ stamp \in [Msg -> Age] /\ reached \in 0 .. MaxSpikes
  /\ queue \in Seq([msg : Msg, age : Age]) /\ Len(queue) <= MaxGossip
  /\ spikes \in Seq(Spike) /\ Len(spikes) <= MaxSpikes

Holds(m) == \E i \in DOMAIN queue : queue[i].msg = m

\* However often peers echo a message, and although nothing ever takes one
\* out to send it, the queue is rid of every message again and again
\* (process_gossip_queue; the timestamp survives each hop).
EveryRumourDies == \A m \in Msg : []<>~Holds(m)
=============================================================================
