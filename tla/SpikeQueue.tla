----------------------------- MODULE SpikeQueue -----------------------------
(***************************************************************************)
(* GLOBAL_SPIKE_QUEUE (io/buffers.rs, LockFreeRingBuffer), its producers   *)
(* (the interrupt handlers of io/isr.rs through isr_push_spike, and the    *)
(* encoders of the main loop through ingest_spike) and its consumer        *)
(* (Network::process_sensory_input), one load or store of a shared index   *)
(* per step.                                                               *)
(*                                                                         *)
(* HKL-1 runs on one core.  A context is the main loop or one interrupt    *)
(* handler; a handler preempts whatever has a lower urgency and runs to    *)
(* its end before what it preempted continues.                             *)
(*                                                                         *)
(* A slot is Stale until a spike is written into it, and again once that   *)
(* spike has been delivered: the code leaves the bytes (MaybeUninit or an  *)
(* old spike) there, and reading them would be reading no queued spike.    *)
(***************************************************************************)
EXTENDS Integers, Sequences

CONSTANTS N,         \* the const generic N: number of slots
          Event,     \* spike events
          Stale,     \* contents of a slot that holds no queued spike
          Main,      \* the main loop
          Isr,       \* the interrupt handlers that push spikes
          Urgency,   \* preemption level of each context, larger preempts
          Producer   \* the contexts that push spikes in this build

Context == Isr \cup {Main}

ASSUME SlotsAssumption == N \in Nat /\ N >= 2
ASSUME StaleAssumption == Stale \notin Event
ASSUME ContextAssumption ==
  /\ Main \notin Isr
  /\ Urgency \in [Context -> Nat]
  /\ \A c \in Isr : Urgency[c] > Urgency[Main]
  /\ Producer \subseteq Context

VARIABLES slot,           \* buffer
          write_idx, read_idx, committed_idx,
          at,             \* where each context is inside a push or a pop
          item,           \* the event each context is pushing or has popped
          ptr,            \* the slot reserve_write picked
          loaded,         \* commit_write's own load of write_idx
          injected        \* the spike the network injected last

queueVars == <<slot, write_idx, read_idx, committed_idx, at, item, ptr, loaded,
              injected>>

Slot == 0 .. N - 1

\* (i + 1) % (N as u32), for an index i of the ring.
Succ(i) == IF i + 1 = N THEN 0 ELSE i + 1

\* The slots from r up to and excluding w, around the ring.
Between(r, w) ==
  {i \in Slot : IF r <= w THEN r <= i /\ i < w ELSE r <= i \/ i < w}

Published == Between(read_idx, write_idx)

PushStage == {"begun", "reserved", "filled", "committing", "retiring"}
Stages == {"idle", "taken"} \cup PushStage

\* c may execute: everything else in progress is something it preempted.
Runs(c) == \A d \in Context \ {c} : at[d] # "idle" => Urgency[d] < Urgency[c]

\* c returns, and its local variables with it.
Leave(c) ==
  /\ at' = [at EXCEPT ![c] = "idle"]
  /\ item' = [item EXCEPT ![c] = Stale]
  /\ ptr' = [ptr EXCEPT ![c] = 0]
  /\ loaded' = [loaded EXCEPT ![c] = 0]

\* init_buffers: GLOBAL_SPIKE_QUEUE.clear() on the zeroed statics, before
\* init_isr_system lets an interrupt in.
QueueInit ==
  /\ slot = [i \in Slot |-> Stale]
  /\ write_idx = 0 /\ read_idx = 0 /\ committed_idx = 0
  /\ at = [c \in Context |-> "idle"]
  /\ item = [c \in Context |-> Stale]
  /\ ptr = [c \in Context |-> 0]
  /\ loaded = [c \in Context |-> 0]
  /\ injected = Stale
-----------------------------------------------------------------------------
(* A push: reserve_write, the write through the pointer, commit_write.     *)

\* A handler or an encoder enters with a new event; reserve_write loads
\* write_idx.
BeginPush(c) ==
  /\ c \in Producer /\ at[c] = "idle" /\ Runs(c)
  /\ \E e \in Event : item' = [item EXCEPT ![c] = e]
  /\ ptr' = [ptr EXCEPT ![c] = write_idx]
  /\ at' = [at EXCEPT ![c] = "begun"]
  /\ UNCHANGED <<slot, write_idx, read_idx, committed_idx, loaded, injected>>

\* Mutated forms of Reserve: the successor is not wrapped before it is
\* compared with read_idx; the slot is committed without being written.
ReserveOverrun(c) ==
  /\ at[c] = "begun" /\ Runs(c)
  /\ IF ptr[c] + 1 = read_idx
     THEN Leave(c)
     ELSE /\ at' = [at EXCEPT ![c] = "reserved"]
          /\ UNCHANGED <<item, ptr, loaded>>
  /\ UNCHANGED <<slot, write_idx, read_idx, committed_idx, injected>>

ReserveUnfilled(c) ==
  /\ at[c] = "begun" /\ Runs(c)
  /\ IF Succ(ptr[c]) = read_idx
     THEN Leave(c)
     ELSE /\ at' = [at EXCEPT ![c] = "filled"]
          /\ UNCHANGED <<item, ptr, loaded>>
  /\ UNCHANGED <<slot, write_idx, read_idx, committed_idx, injected>>

\* reserve_write loads read_idx and refuses the spike when the ring is full;
\* the caller then drops it.
Reserve(c) ==
  /\ at[c] = "begun" /\ Runs(c)
  /\ IF Succ(ptr[c]) = read_idx
     THEN Leave(c)
     ELSE /\ at' = [at EXCEPT ![c] = "reserved"]
          /\ UNCHANGED <<item, ptr, loaded>>
  /\ UNCHANGED <<slot, write_idx, read_idx, committed_idx, injected>>

\* core::ptr::write through the reserved pointer.
Fill(c) ==
  /\ at[c] = "reserved" /\ Runs(c)
  /\ slot' = [slot EXCEPT ![ptr[c]] = item[c]]
  /\ at' = [at EXCEPT ![c] = "filled"]
  /\ UNCHANGED <<write_idx, read_idx, committed_idx, item, ptr, loaded, injected>>

\* commit_write loads write_idx again,
BeginCommit(c) ==
  /\ at[c] = "filled" /\ Runs(c)
  /\ loaded' = [loaded EXCEPT ![c] = write_idx]
  /\ at' = [at EXCEPT ![c] = "committing"]
  /\ UNCHANGED <<slot, write_idx, read_idx, committed_idx, item, ptr, injected>>

\* stores its successor,
Publish(c) ==
  /\ at[c] = "committing" /\ Runs(c)
  /\ write_idx' = Succ(loaded[c])
  /\ at' = [at EXCEPT ![c] = "retiring"]
  /\ UNCHANGED <<slot, read_idx, committed_idx, item, ptr, loaded, injected>>

\* and records the slot in committed_idx, which nothing ever loads.
Retire(c) ==
  /\ at[c] = "retiring" /\ Runs(c)
  /\ committed_idx' = loaded[c]
  /\ Leave(c)
  /\ UNCHANGED <<slot, write_idx, read_idx, injected>>

Push(c) == \/ BeginPush(c) \/ Reserve(c) \/ Fill(c)
           \/ BeginCommit(c) \/ Publish(c) \/ Retire(c)
-----------------------------------------------------------------------------
(* The pop of the main loop.                                               *)

\* Mutated form: the end of the queue is taken from committed_idx.
TakeToCommitted ==
  /\ at[Main] = "idle" /\ Runs(Main)
  /\ read_idx # committed_idx
  /\ item' = [item EXCEPT ![Main] = slot[read_idx]]
  /\ at' = [at EXCEPT ![Main] = "taken"]
  /\ UNCHANGED <<slot, write_idx, read_idx, committed_idx, ptr, loaded, injected>>

\* pop_front sees a published slot and copies it out.
Take ==
  /\ at[Main] = "idle" /\ Runs(Main)
  /\ read_idx # write_idx
  /\ item' = [item EXCEPT ![Main] = slot[read_idx]]
  /\ at' = [at EXCEPT ![Main] = "taken"]
  /\ UNCHANGED <<slot, write_idx, read_idx, committed_idx, ptr, loaded, injected>>

\* pop_front releases the slot; process_sensory_input injects the spike.
Release ==
  /\ at[Main] = "taken" /\ Runs(Main)
  /\ read_idx' = Succ(read_idx)
  /\ slot' = [slot EXCEPT ![read_idx] = Stale]
  /\ injected' = item[Main]
  /\ Leave(Main)
  /\ UNCHANGED <<write_idx, committed_idx>>

QueueNext == Take \/ Release \/ \E c \in Context : Push(c)

\* Interrupt handlers are finite and rarer than instructions: the main loop
\* runs between them, and what has been started goes on.
QueueFairness ==
  /\ SF_queueVars(Take) /\ SF_queueVars(Release)
  /\ \A c \in Context : SF_queueVars(Reserve(c) \/ Fill(c) \/ BeginCommit(c)
                                \/ Publish(c) \/ Retire(c))

QueueSpec == QueueInit /\ [][QueueNext]_queueVars /\ QueueFairness
-----------------------------------------------------------------------------
\* The indices stay inside the buffer and every context at a known step.
QueueTypeOK ==
  /\ slot \in [Slot -> Event \cup {Stale}]
  /\ write_idx \in Slot /\ read_idx \in Slot /\ committed_idx \in Slot
  /\ at \in [Context -> Stages]
  /\ item \in [Context -> Event \cup {Stale}]
  /\ ptr \in [Context -> Slot]
  /\ loaded \in [Context -> Slot]
  /\ injected \in Event \cup {Stale}

\* No slot the consumer may read is one nobody wrote: whatever the order in
\* which handlers, encoders and the drain loop interleave, pop_front's
\* assume_init meets a spike that was written and not yet delivered.
NoStalePublished == \A i \in Published : slot[i] # Stale

\* The spikes in buffer s from slot r up to and excluding w, as a sequence:
\* their number, the slot of each, and the spikes themselves.
Count(r, w) == IF r <= w THEN w - r ELSE N + w - r
Place(r, i) == IF r + i <= N THEN r + i - 1 ELSE r + i - 1 - N
Queue(s, r, w) == [i \in 1 .. Count(r, w) |-> s[Place(r, i)]]

\* The ring implements the FIFO: accepted spikes leave in order, once each,
\* and a refused spike disturbs none of them.
Fifo == INSTANCE SpikeFifo WITH
  Room  <- N - 1,
  queue <- Queue(slot, read_idx, write_idx)
ImplementsFifo == Fifo!Spec

\* The single-producer condition of the ring, in terms of interrupt levels:
\* handlers of one level never preempt each other, so together they are one
\* producer.
OneLevel == \A p, q \in Producer : Urgency[p] = Urgency[q]

\* Every published spike reaches the network: process_sensory_input drains
\* the last slot too, even while handlers keep pushing behind it.
PublishedIsDelivered ==
  \A i \in Slot : []<>(i \notin Published)
=============================================================================
