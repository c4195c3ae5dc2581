-------------------------- MODULE SpikeQueue_proofs --------------------------
(***************************************************************************)
(* Why the spike queue is safe when its producers share one interrupt      *)
(* level, for every ring size, every set of handlers and every set of      *)
(* spikes.  The argument: of the producers at most one is ever inside a    *)
(* push (Exclusive), so the slot it reserved stays the one write_idx       *)
(* names until it publishes it (Reservation), and what it publishes has    *)
(* been written.  Publishing then appends one spike to what waits and      *)
(* releasing removes the oldest, so the ring implements SpikeFifo.         *)
(***************************************************************************)
EXTENDS SpikeQueue, TLAPS

\* Only producers push, only the main loop pops, and no two producers are
\* busy at once.
Exclusive ==
  /\ \A c \in Context : at[c] \in PushStage => c \in Producer
  /\ \A c \in Context : at[c] = "taken" => c = Main
  /\ \A p, q \in Producer : at[p] # "idle" /\ at[q] # "idle" => p = q

\* What a context inside a push knows about the slot it reserved.
Reservation ==
  \A c \in Context :
    /\ at[c] \in {"begun", "reserved", "filled", "committing"} => ptr[c] = write_idx
    /\ at[c] \in {"begun", "reserved"} => item[c] \in Event
    /\ at[c] \in {"reserved", "filled", "committing"} => Succ(write_idx) # read_idx
    /\ at[c] \in {"filled", "committing"} => slot[write_idx] # Stale
    /\ at[c] = "committing" => loaded[c] = write_idx

\* The slot the main loop is about to release is still queued.
Popping == at[Main] = "taken" => read_idx # write_idx

IInv == QueueTypeOK /\ Exclusive /\ Reservation /\ Popping /\ NoStalePublished
-----------------------------------------------------------------------------
\* The successor of a slot is a slot, and different slots have different ones.
LEMMA SuccLemma ==
  ASSUME NEW i \in Slot, NEW j \in Slot
  PROVE  Succ(i) \in Slot /\ (Succ(i) = Succ(j) => i = j)
BY SlotsAssumption DEF Slot, Succ

\* Publishing adds the written slot and no other.
LEMMA BetweenPublish ==
  ASSUME NEW r \in Slot, NEW w \in Slot, Succ(w) # r
  PROVE  \A i \in Between(r, Succ(w)) : i = w \/ i \in Between(r, w)
BY SlotsAssumption DEF Slot, Succ, Between

\* Releasing removes the oldest slot and adds none.
LEMMA BetweenRelease ==
  ASSUME NEW r \in Slot, NEW w \in Slot, r # w
  PROVE  \A i \in Between(Succ(r), w) : i # r /\ i \in Between(r, w)
BY SlotsAssumption DEF Slot, Succ, Between

\* The slot write_idx names is not published, the oldest queued slot is.
LEMMA BetweenEnds ==
  ASSUME NEW r \in Slot, NEW w \in Slot
  PROVE  w \notin Between(r, w) /\ (r # w => r \in Between(r, w))
BY SlotsAssumption DEF Slot, Between
-----------------------------------------------------------------------------
\* The queue after boot is empty and nothing is in progress.
LEMMA InitIInv == QueueInit => IInv
<1> SUFFICES ASSUME QueueInit PROVE IInv
  OBVIOUS
<1>1. QueueTypeOK
  BY SlotsAssumption DEF QueueInit, QueueTypeOK, Slot, Stages, PushStage
<1>2. Exclusive /\ Reservation /\ Popping
  BY ContextAssumption DEF QueueInit, Exclusive, Reservation, Popping, PushStage, Context
<1>3. NoStalePublished
  BY SlotsAssumption DEF QueueInit, NoStalePublished, Published, Between, Slot
<1> QED BY <1>1, <1>2, <1>3 DEF IInv

\* A producer that may run finds every other producer idle.
LEMMA RunsAlone ==
  ASSUME OneLevel, ContextAssumption, NEW p \in Producer, Runs(p)
  PROVE  \A q \in Producer : q # p => at[q] = "idle"
<1> SUFFICES ASSUME NEW q \in Producer, q # p, at[q] # "idle" PROVE FALSE
  OBVIOUS
<1>1. q \in Context \ {p} /\ p \in Context
  BY DEF ContextAssumption
<1>2. Urgency[q] < Urgency[p]
  BY <1>1 DEF Runs
<1>3. Urgency[q] = Urgency[p] /\ Urgency[p] \in Nat
  BY <1>1 DEF OneLevel, ContextAssumption
<1> QED BY <1>2, <1>3

\* Every step of every context keeps the invariant.
LEMMA NextIInv == ASSUME OneLevel PROVE IInv /\ [QueueNext]_queueVars => IInv'
<1> SUFFICES ASSUME IInv, [QueueNext]_queueVars PROVE IInv'
  OBVIOUS
<1> USE SlotsAssumption, StaleAssumption, ContextAssumption
<1>a. QueueTypeOK /\ Exclusive /\ Reservation /\ Popping /\ NoStalePublished
  BY DEF IInv
<1>b. Main \in Context
  BY DEF Context
<1>c. write_idx \in Slot /\ read_idx \in Slot
  BY <1>a DEF QueueTypeOK
<1>d. 0 \in Slot
  BY DEF Slot
<1>1. ASSUME NEW c \in Context, BeginPush(c) PROVE IInv'
  <2>1. QueueTypeOK'
    BY <1>1, <1>a DEF QueueTypeOK, BeginPush, Stages, PushStage
  <2>2. Exclusive'
    <3>1. c \in Producer /\ \A q \in Producer : q # c => at[q] = "idle"
      BY <1>1, RunsAlone DEF BeginPush
    <3> QED BY <3>1, <1>1, <1>a DEF QueueTypeOK, Exclusive, BeginPush, PushStage
  <2>3. Reservation'
    BY <1>1, <1>a DEF QueueTypeOK, Reservation, BeginPush
  <2>4. Popping' /\ NoStalePublished'
    BY <1>1, <1>a DEF QueueTypeOK, Popping, NoStalePublished, Published, BeginPush
  <2> QED BY <2>1, <2>2, <2>3, <2>4 DEF IInv
<1>2. ASSUME NEW c \in Context, Reserve(c) PROVE IInv'
  <2>0. UNCHANGED <<slot, write_idx, read_idx, committed_idx, injected>>
    BY <1>2 DEF Reserve
  <2>1. CASE Leave(c)
    <3>1. QueueTypeOK'
      BY <2>0, <2>1, <1>a, <1>d DEF QueueTypeOK, Leave, Stages, PushStage
    <3>2. Exclusive'
      BY <2>0, <2>1, <1>a DEF QueueTypeOK, Exclusive, Leave, PushStage
    <3>3. Reservation'
      BY <2>0, <2>1, <1>a DEF QueueTypeOK, Reservation, Leave
    <3>4. Popping' /\ NoStalePublished'
      BY <2>0, <2>1, <1>a DEF QueueTypeOK, Popping, NoStalePublished, Published, Leave
    <3> QED BY <3>1, <3>2, <3>3, <3>4 DEF IInv
  <2>2. CASE /\ Succ(ptr[c]) # read_idx
             /\ at' = [at EXCEPT ![c] = "reserved"]
             /\ UNCHANGED <<item, ptr, loaded>>
    <3>1. QueueTypeOK'
      BY <2>0, <2>2, <1>a DEF QueueTypeOK, Stages, PushStage
    <3>2. Exclusive'
      BY <2>0, <2>2, <1>2, <1>a DEF QueueTypeOK, Exclusive, Reserve, PushStage
    <3>3. Reservation'
      BY <2>0, <2>2, <1>2, <1>a DEF QueueTypeOK, Reservation, Reserve
    <3>4. Popping' /\ NoStalePublished'
      BY <2>0, <2>2, <1>a DEF QueueTypeOK, Popping, NoStalePublished, Published
    <3> QED BY <3>1, <3>2, <3>3, <3>4 DEF IInv
  <2> QED BY <2>1, <2>2, <1>2 DEF Reserve
<1>3. ASSUME NEW c \in Context, Fill(c) PROVE IInv'
  <2>1. QueueTypeOK'
    BY <1>3, <1>a DEF QueueTypeOK, Fill, Stages, PushStage
  <2>2. Exclusive'
    BY <1>3, <1>a DEF QueueTypeOK, Exclusive, Fill, PushStage
  <2>3. ptr[c] = write_idx /\ item[c] \in Event
    BY <1>3, <1>a DEF Reservation, Fill
  <2>4. Reservation'
    BY <1>3, <1>a, <2>3 DEF QueueTypeOK, Reservation, Fill
  <2>5. Popping'
    BY <1>3, <1>a DEF QueueTypeOK, Popping, Fill
  <2>6. NoStalePublished'
    BY <1>3, <1>a, <1>c, <2>3, BetweenEnds DEF QueueTypeOK, NoStalePublished, Published, Fill
  <2> QED BY <2>1, <2>2, <2>4, <2>5, <2>6 DEF IInv
<1>4. ASSUME NEW c \in Context, BeginCommit(c) PROVE IInv'
  <2>1. QueueTypeOK'
    BY <1>4, <1>a DEF QueueTypeOK, BeginCommit, Stages, PushStage
  <2>2. Exclusive'
    BY <1>4, <1>a DEF QueueTypeOK, Exclusive, BeginCommit, PushStage
  <2>3. Reservation'
    BY <1>4, <1>a DEF QueueTypeOK, Reservation, BeginCommit
  <2>4. Popping' /\ NoStalePublished'
    BY <1>4, <1>a DEF QueueTypeOK, Popping, NoStalePublished, Published, BeginCommit
  <2> QED BY <2>1, <2>2, <2>3, <2>4 DEF IInv
<1>5. ASSUME NEW c \in Context, Publish(c) PROVE IInv'
  <2>1. write_idx' = Succ(write_idx) /\ Succ(write_idx) # read_idx /\ slot[write_idx] # Stale
    BY <1>5, <1>a DEF Reservation, Publish
  <2>2. QueueTypeOK'
    BY <1>5, <1>a, <1>c, <2>1, SuccLemma DEF QueueTypeOK, Publish, Stages, PushStage
  <2>3. Exclusive'
    BY <1>5, <1>a DEF QueueTypeOK, Exclusive, Publish, PushStage
  <2>4. \A d \in Context : d # c => at[d] \in {"idle", "taken"}
    BY <1>5, <1>a DEF QueueTypeOK, Exclusive, Publish, Stages, PushStage
  <2>5. Reservation'
    BY <1>5, <1>a, <2>4 DEF QueueTypeOK, Reservation, Publish
  <2>6. Popping'
    BY <1>5, <1>a, <2>1 DEF QueueTypeOK, Popping, Publish
  <2>7. NoStalePublished'
    <3>1. read_idx' = read_idx /\ slot' = slot
      BY <1>5 DEF Publish
    <3>2. \A i \in Between(read_idx, Succ(write_idx)) :
             i = write_idx \/ i \in Between(read_idx, write_idx)
      BY <1>c, <2>1, BetweenPublish
    <3> QED BY <3>1, <3>2, <2>1, <1>a DEF NoStalePublished, Published
  <2> QED BY <2>2, <2>3, <2>5, <2>6, <2>7 DEF IInv
<1>6. ASSUME NEW c \in Context, Retire(c) PROVE IInv'
  <2>1. QueueTypeOK'
    BY <1>6, <1>a DEF QueueTypeOK, Retire, Leave, Stages, PushStage, Slot
  <2>2. Exclusive'
    BY <1>6, <1>a DEF QueueTypeOK, Exclusive, Retire, Leave, PushStage
  <2>3. Reservation'
    BY <1>6, <1>a DEF QueueTypeOK, Reservation, Retire, Leave
  <2>4. Popping' /\ NoStalePublished'
    BY <1>6, <1>a DEF QueueTypeOK, Popping, NoStalePublished, Published, Retire, Leave
  <2> QED BY <2>1, <2>2, <2>3, <2>4 DEF IInv
<1>7. ASSUME Take PROVE IInv'
  <2>1. QueueTypeOK'
    BY <1>7, <1>a, <1>b DEF QueueTypeOK, Take, Stages, PushStage
  <2>2. Exclusive'
    <3>1. Main \in Producer => \A q \in Producer : q # Main => at[q] = "idle"
      BY <1>7, RunsAlone DEF Take
    <3> QED BY <3>1, <1>7, <1>a, <1>b DEF QueueTypeOK, Exclusive, Take, PushStage
  <2>3. Reservation'
    BY <1>7, <1>a DEF QueueTypeOK, Reservation, Take
  <2>4. Popping' /\ NoStalePublished'
    BY <1>7, <1>a DEF QueueTypeOK, Popping, NoStalePublished, Published, Take
  <2> QED BY <2>1, <2>2, <2>3, <2>4 DEF IInv
<1>8. ASSUME Release PROVE IInv'
  <2>1. read_idx' = Succ(read_idx) /\ read_idx # write_idx /\ write_idx' = write_idx
    BY <1>8, <1>a DEF Popping, Release
  <2>2. QueueTypeOK'
    BY <1>8, <1>a, <1>b, <1>c, <2>1, SuccLemma DEF QueueTypeOK, Release, Leave, Stages, PushStage, Slot
  <2>3. Exclusive'
    BY <1>8, <1>a, <1>b DEF QueueTypeOK, Exclusive, Release, Leave, PushStage
  <2>4. Succ(write_idx) # Succ(read_idx)
    BY <1>c, <2>1, SuccLemma
  <2>5. Reservation'
    BY <1>8, <1>a, <1>b, <2>1, <2>4 DEF QueueTypeOK, Reservation, Release, Leave
  <2>6. Popping'
    BY <1>8, <1>a, <1>b DEF QueueTypeOK, Popping, Release, Leave
  <2>7. NoStalePublished'
    <3>1. slot' = [slot EXCEPT ![read_idx] = Stale]
      BY <1>8 DEF Release
    <3>2. \A i \in Between(Succ(read_idx), write_idx) :
             i # read_idx /\ i \in Between(read_idx, write_idx)
      BY <1>c, <2>1, BetweenRelease
    <3> QED BY <3>1, <3>2, <2>1, <1>a DEF QueueTypeOK, NoStalePublished, Published, Between
  <2> QED BY <2>2, <2>3, <2>5, <2>6, <2>7 DEF IInv
<1>9. CASE UNCHANGED queueVars
  BY <1>9, <1>a DEF queueVars, IInv, QueueTypeOK, Exclusive, Reservation, Popping,
                    NoStalePublished, Published
<1> QED BY <1>1, <1>2, <1>3, <1>4, <1>5, <1>6, <1>7, <1>8, <1>9 DEF QueueNext, Push

\* For every ring size and every set of handlers of one interrupt level, the
\* state of reserve_write, commit_write and pop_front stays well typed.
THEOREM TypeCorrect == OneLevel => (QueueSpec => []QueueTypeOK)
<1> SUFFICES ASSUME OneLevel PROVE QueueSpec => []QueueTypeOK
  OBVIOUS
<1>1. IInv /\ [QueueNext]_queueVars => IInv'
  BY NextIInv
<1>2. IInv => QueueTypeOK
  BY DEF IInv
<1> QED BY <1>1, <1>2, InitIInv, PTL DEF QueueSpec

\* ... and pop_front never reads a slot that holds no queued spike.
THEOREM NoStaleRead == OneLevel => (QueueSpec => []NoStalePublished)
<1> SUFFICES ASSUME OneLevel PROVE QueueSpec => []NoStalePublished
  OBVIOUS
<1>1. IInv /\ [QueueNext]_queueVars => IInv'
  BY NextIInv
<1>2. IInv => NoStalePublished
  BY DEF IInv
<1> QED BY <1>1, <1>2, InitIInv, PTL DEF QueueSpec
-----------------------------------------------------------------------------
\* The spike the main loop has copied out is the oldest one.
Carried == at[Main] = "taken" => item[Main] = slot[read_idx]

\* A step other than Release leaves the buffer's oldest spike alone, because
\* a push writes the slot behind the newest.
LEMMA CarriedStep ==
  ASSUME OneLevel PROVE IInv /\ IInv' /\ Carried /\ [QueueNext]_queueVars => Carried'
<1> SUFFICES ASSUME IInv, IInv', Carried, [QueueNext]_queueVars PROVE Carried'
  OBVIOUS
<1> USE SlotsAssumption, ContextAssumption
<1>a. /\ QueueTypeOK /\ Exclusive /\ Reservation /\ Popping /\ Main \in Context
      /\ \A c \in Context : at[c] \in PushStage => at[c] # "taken"
  BY DEF IInv, Context, PushStage
<1>1. ASSUME NEW c \in Context, Push(c), at'[Main] = "taken"
      PROVE  /\ c # Main /\ at[Main] = "taken" /\ item'[Main] = item[Main]
             /\ read_idx' = read_idx
  BY <1>1, <1>a
  DEF QueueTypeOK, Push, BeginPush, Reserve, Fill, BeginCommit, Publish, Retire, Leave
<1>2. ASSUME NEW c \in Context, Push(c) PROVE Carried'
  <2> SUFFICES ASSUME at'[Main] = "taken" PROVE item'[Main] = slot'[read_idx']
    BY DEF Carried
  <2>1. at[Main] = "taken" /\ item'[Main] = slot[read_idx] /\ read_idx' = read_idx
    BY <1>1, <1>2 DEF Carried
  <2>2. CASE Fill(c)
    <3>1. ptr[c] = write_idx /\ write_idx # read_idx
      BY <1>a, <2>1, <2>2 DEF Reservation, Popping, Fill
    <3> QED
      BY <1>a, <2>1, <2>2, <3>1 DEF QueueTypeOK, Fill
  <2>3. CASE ~Fill(c)
    <3>1. slot' = slot
      BY <1>2, <2>3 DEF Push, BeginPush, Reserve, BeginCommit, Publish, Retire
    <3> QED
      BY <2>1, <3>1
  <2> QED
    BY <2>2, <2>3
<1>3. CASE Take
  BY <1>3, <1>a DEF QueueTypeOK, Take, Carried
<1>4. CASE Release
  BY <1>4, <1>a DEF QueueTypeOK, Release, Leave, Carried
<1>5. CASE UNCHANGED queueVars
  BY <1>5 DEF queueVars, Carried
<1> QED
  BY <1>2, <1>3, <1>4, <1>5 DEF QueueNext

\* What waits in the ring is a sequence that leaves one slot free.
LEMMA QueueIsSequence ==
  ASSUME NEW V, NEW s \in [Slot -> V], NEW r \in Slot, NEW w \in Slot
  PROVE  /\ Count(r, w) \in 0 .. N - 1
         /\ Queue(s, r, w) \in Seq(V)
         /\ Len(Queue(s, r, w)) = Count(r, w)
<1>1. Count(r, w) \in 0 .. N - 1
  BY SlotsAssumption DEF Slot, Count
<1>2. \A i \in 1 .. Count(r, w) : Place(r, i) \in Slot
  BY SlotsAssumption, <1>1 DEF Slot, Place
<1>3. Queue(s, r, w) \in [1 .. Count(r, w) -> V]
  BY <1>2 DEF Queue
<1> QED
  BY <1>1, <1>3

\* Writing the slot behind the newest spike changes nothing that waits.
LEMMA QueueFill ==
  ASSUME NEW V, NEW s \in [Slot -> V], NEW r \in Slot, NEW w \in Slot, NEW e
  PROVE  Queue([s EXCEPT ![w] = e], r, w) = Queue(s, r, w)
<1>1. \A i \in 1 .. Count(r, w) : Place(r, i) \in Slot /\ Place(r, i) # w
  BY SlotsAssumption DEF Slot, Place, Count
<1> QED
  BY <1>1 DEF Queue

\* Publishing that slot appends its spike.
LEMMA QueuePublish ==
  ASSUME NEW V, NEW s \in [Slot -> V], NEW r \in Slot, NEW w \in Slot,
         Succ(w) # r
  PROVE  /\ Count(r, w) < N - 1
         /\ Queue(s, r, Succ(w)) = Append(Queue(s, r, w), s[w])
<1>1. /\ Count(r, Succ(w)) = Count(r, w) + 1 /\ Count(r, w) \in 0 .. N - 2
      /\ Place(r, Count(r, w) + 1) = w
  BY SlotsAssumption DEF Slot, Place, Count, Succ
<1>2. /\ Queue(s, r, w) \in Seq(V) /\ Len(Queue(s, r, w)) = Count(r, w)
      /\ s[w] \in V
  BY QueueIsSequence
<1>3. Succ(w) \in Slot
  BY SuccLemma
<1>4. /\ Queue(s, r, Succ(w)) \in Seq(V)
      /\ Len(Queue(s, r, Succ(w))) = Count(r, w) + 1
  BY <1>1, <1>3, QueueIsSequence
<1> DEFINE a == Append(Queue(s, r, w), s[w])
<1>5. a \in Seq(V) /\ Len(a) = Count(r, w) + 1
  BY <1>1, <1>2
<1>6. ASSUME NEW i \in 1 .. Count(r, w) + 1 PROVE Queue(s, r, Succ(w))[i] = a[i]
  <2>1. Queue(s, r, Succ(w))[i] = s[Place(r, i)]
    BY <1>1 DEF Queue
  <2>2. CASE i = Count(r, w) + 1
    BY <1>1, <1>2, <2>1, <2>2
  <2>3. CASE i # Count(r, w) + 1
    <3>1. i \in 1 .. Count(r, w)
      BY <1>1, <2>3
    <3>2. a[i] = Queue(s, r, w)[i]
      BY <1>2, <3>1
    <3> QED
      BY <2>1, <3>1, <3>2 DEF Queue
  <2> QED
    BY <2>2, <2>3
<1> HIDE DEF a
<1>7. Queue(s, r, Succ(w)) = a
  BY <1>1, <1>4, <1>5, <1>6
<1> QED
  BY SlotsAssumption, <1>1, <1>7 DEF a

\* Releasing the oldest slot removes the first spike.
LEMMA QueueRelease ==
  ASSUME NEW V, NEW s \in [Slot -> V], NEW r \in Slot, NEW w \in Slot,
         r # w, NEW z \in [Slot -> V], \A i \in Slot : i # r => z[i] = s[i]
  PROVE  /\ Queue(s, r, w) # << >>
         /\ Head(Queue(s, r, w)) = s[r]
         /\ Queue(z, Succ(r), w) = Tail(Queue(s, r, w))
<1> DEFINE q == Queue(s, r, w)
           n == Queue(z, Succ(r), w)
<1>1. /\ Count(r, w) \in 1 .. N - 1 /\ Count(Succ(r), w) = Count(r, w) - 1
      /\ Place(r, 1) = r
      /\ \A i \in 1 .. Count(r, w) - 1 :
           /\ Place(Succ(r), i) = Place(r, i + 1)
           /\ Place(r, i + 1) # r /\ Place(r, i + 1) \in Slot
  BY SlotsAssumption DEF Slot, Place, Count, Succ
<1>2. q \in Seq(V) /\ Len(q) = Count(r, w)
  BY QueueIsSequence
<1>3. Succ(r) \in Slot
  BY SuccLemma
<1>4. n \in Seq(V) /\ Len(n) = Count(r, w) - 1
  <2>1. n \in Seq(V) /\ Len(n) = Count(Succ(r), w)
    BY <1>3, QueueIsSequence
  <2> QED
    BY <1>1, <2>1
<1>5. q # << >> /\ Head(q) = s[r]
  <2>1. q[1] = s[r]
    BY <1>1 DEF Queue
  <2> HIDE DEF q
  <2> QED
    BY <1>1, <1>2, <2>1
<1>6. \A i \in 1 .. Count(r, w) - 1 : n[i] = q[i + 1]
  BY <1>1 DEF Queue
<1> HIDE DEF q, n
<1>7. n = Tail(q)
  BY <1>1, <1>2, <1>4, <1>5, <1>6
<1> QED
  BY <1>5, <1>7 DEF q, n

\* Publishing accepts the spike that was written, releasing delivers the
\* oldest, and every other step leaves the FIFO as it was.
LEMMA FifoStep ==
  ASSUME OneLevel
  PROVE  IInv /\ Carried /\ [QueueNext]_queueVars
           => [Fifo!Next]_<<Queue(slot, read_idx, write_idx), injected>>
<1> SUFFICES ASSUME IInv, Carried, [QueueNext]_queueVars
             PROVE  \/ Fifo!Next
                    \/ UNCHANGED <<Queue(slot, read_idx, write_idx), injected>>
  OBVIOUS
<1> DEFINE V == Event \cup {Stale}
           q == Queue(slot, read_idx, write_idx)
<1>a. /\ slot \in [Slot -> V] /\ read_idx \in Slot /\ write_idx \in Slot
      /\ Stale \in V /\ QueueTypeOK
  BY DEF IInv, QueueTypeOK
<1> HIDE DEF V
<1>1. ASSUME NEW c \in Context, Fill(c) PROVE UNCHANGED <<q, injected>>
  <2>1. /\ slot' = [slot EXCEPT ![write_idx] = item[c]]
        /\ UNCHANGED <<read_idx, write_idx, injected>>
    BY <1>1 DEF IInv, Reservation, Fill
  <2> QED
    BY <1>a, <2>1, QueueFill
<1>2. ASSUME NEW c \in Context, Publish(c) PROVE Fifo!Accept
  <2>1. /\ write_idx' = Succ(write_idx) /\ Succ(write_idx) # read_idx
        /\ slot[write_idx] # Stale /\ UNCHANGED <<slot, read_idx, injected>>
    BY <1>2 DEF IInv, Reservation, Publish
  <2>2. slot[write_idx] \in Event
    BY <1>a, <2>1 DEF V
  <2>3. Count(read_idx, write_idx) < N - 1 /\ q' = Append(q, slot[write_idx])
    BY <1>a, <2>1, QueuePublish
  <2>4. Len(q) = Count(read_idx, write_idx)
    BY <1>a, QueueIsSequence
  <2> QED
    BY <2>1, <2>2, <2>3, <2>4 DEF Fifo!Accept
<1>3. CASE Release
  <2>1. /\ read_idx' = Succ(read_idx) /\ slot' = [slot EXCEPT ![read_idx] = Stale]
        /\ injected' = slot[read_idx] /\ write_idx' = write_idx
        /\ read_idx # write_idx
    BY <1>3 DEF IInv, Popping, Carried, Release
  <2>2. /\ slot' \in [Slot -> V]
        /\ \A i \in Slot : i # read_idx => slot'[i] = slot[i]
    BY <1>a, <2>1
  <2>3. read_idx # write_idx
    BY <2>1
  <2>4. q # << >> /\ Head(q) = slot[read_idx]
    BY <1>a, <2>2, <2>3, QueueRelease
  <2>5. Queue(slot', Succ(read_idx), write_idx) = Tail(q)
    BY <1>a, <2>2, <2>3, QueueRelease, Zenon
  <2>6. q' = Tail(q)
    BY <2>1, <2>5
  <2> QED
    BY <2>1, <2>4, <2>6 DEF Fifo!Next, Fifo!Deliver
<1>4. ASSUME NEW c \in Context,
             BeginPush(c) \/ Reserve(c) \/ BeginCommit(c) \/ Retire(c)
      PROVE  UNCHANGED <<q, injected>>
  BY <1>4 DEF BeginPush, Reserve, BeginCommit, Retire
<1>5. CASE Take \/ UNCHANGED queueVars
  BY <1>5 DEF Take, queueVars
<1> QED
  BY <1>1, <1>2, <1>3, <1>4, <1>5 DEF QueueNext, Push, Fifo!Next

\* The FIFO begins empty.
LEMMA FifoInit == QueueInit => Fifo!Init
<1> SUFFICES ASSUME QueueInit PROVE Fifo!Init
  OBVIOUS
<1>1. 1 .. Count(read_idx, write_idx) = {}
  BY DEF QueueInit, Count
<1>2. Queue(slot, read_idx, write_idx) = << >>
  BY <1>1 DEF Queue
<1> QED
  BY <1>2, StaleAssumption DEF QueueInit, Fifo!Init

\* For every ring size and every set of handlers of one interrupt level, the
\* load-by-load ring implements the FIFO: accepted spikes are delivered once
\* each and in order, and a refused one disturbs none of them.
THEOREM RingIsAFifo == OneLevel => (QueueSpec => ImplementsFifo)
<1> SUFFICES ASSUME OneLevel PROVE QueueSpec => ImplementsFifo
  OBVIOUS
<1>1. IInv /\ [QueueNext]_queueVars => IInv'
  BY NextIInv
<1>2. IInv /\ IInv' /\ Carried /\ [QueueNext]_queueVars => Carried'
  BY CarriedStep
<1>3. QueueInit => Carried
  BY ContextAssumption DEF QueueInit, Carried, Context
<1>4. IInv /\ Carried /\ [QueueNext]_queueVars
        => [Fifo!Next]_<<Queue(slot, read_idx, write_idx), injected>>
  BY FifoStep
<1> QED
  BY <1>1, <1>2, <1>3, <1>4, InitIInv, FifoInit, PTL
  DEF QueueSpec, ImplementsFifo, Fifo!Spec
=============================================================================
