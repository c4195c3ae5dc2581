---------------------------- MODULE Learning_proofs ----------------------------
(***************************************************************************)
(* Proofs about what is learnt and kept, of the module that composes it.   *)
(*                                                                         *)
(* The synapse array: why a synapse made by neurogenesis spares the live   *)
(* ones, for every pool size, while the free pool can express what is      *)
(* free: at most one freed id waits, no simulation has touched the pool    *)
(* and the array is not full (doubt).  All live slots lie below the count, *)
(* the waiting id names a dead slot among them, and the snapshot of a      *)
(* simulation says the same of the state that will come back (Sound).      *)
(*                                                                         *)
(* The pool of core/memory.rs: a slot is in use exactly when the free list *)
(* does not name it (Apart), which makes the numbers agree.                *)
(*                                                                         *)
(* Homeostasis: no count passes the window's updates so far, so no rate    *)
(* passes one, the target is never reached and the factor only grows.      *)
(*                                                                         *)
(* The training run: the cursor stands between two samples, and what lies  *)
(* before it has been trained on or waits in the pool (Underway).          *)
(*                                                                         *)
(* The learning rules: traces and amplitudes are never negative (LifeInv), *)
(* a synapse nobody drives has been silent when it is first looked at for  *)
(* pruning and later doubles faster than senescence takes (Growing), and   *)
(* what one side of a synapse stands for before it was ever reported in    *)
(* the other role has one sign (RuleInv).                                  *)
(*                                                                         *)
(* Episodic memory: the recursion of ca3_recurrent gives zero for the      *)
(* first cell that would not be silent, so there is none.  The valid       *)
(* traces are of different experiences and each counts at least the copies *)
(* the long-term store has of it (MemoryInv); why a transfer keeps that is *)
(* that the ranks of the worthy places are all different (RanksAreUsed).   *)
(***************************************************************************)
EXTENDS MCLearning, Sequences, FiniteSetTheorems, WellFoundedInduction, TLAPS

(* The synapse array.                                                      *)

\* Plastic synapses of an array join different pairs.
Distinct(a, f) ==
  \A s, t \in {u \in Slot : a[u] \in Pair /\ u \notin f} : a[s] = a[t] => s = t

\* The array as it is, and the array a simulation will put back.
Present ==
  /\ count < Slots
  /\ \A s \in Slot : syn[s] \in Pair => s < count
  /\ free \in {0, 1}
  /\ free = 1 => syn[head] \notin Pair /\ head < count
  /\ Distinct(syn, fixed)

Kept ==
  /\ snapshot.count <= count
  /\ \A s \in Slot : snapshot.syn[s] \in Pair => s < snapshot.count
  /\ dreaming => Distinct(snapshot.syn, snapshot.fixed)
  /\ dreaming /\ ~freed /\ free = 1
       => snapshot.syn[head] \notin Pair /\ head < snapshot.count

Sound == doubt = {} => Present /\ Kept

IInv == TypeOK /\ Sound
-----------------------------------------------------------------------------
\* The assumptions one by one.
LEMMA Sizes ==
  /\ Slots \in Nat /\ Slots > 0 /\ Neurons \in Nat /\ GrowthBatch \in Nat
  /\ Overrun \in Nat /\ MaxFree \in Nat
  /\ "blank" \notin Pair /\ "dead" \notin Pair
BY PoolAssumption

\* What a loop to `count as u16' reaches: slots, and all of the count's while
\* the count has not wrapped.
LEMMA SeenLemma ==
  ASSUME TypeOK
  PROVE  /\ count % Slots \in 0 .. Slots - 1 /\ Seen \subseteq Slot
         /\ count < Slots => count % Slots = count /\ Seen = 0 .. count - 1
<1>1. Slots \in Nat \ {0} /\ count \in Nat
  BY Sizes DEF TypeOK
<1>2. count % Slots \in 0 .. Slots - 1
  BY <1>1
<1>3. count < Slots => count % Slots = count
  BY <1>1
<1> QED
  BY <1>1, <1>2, <1>3 DEF Seen, Slot

\* A set of naturals that is not empty has a least one.
LEMMA Least ==
  ASSUME NEW A \in SUBSET Nat, A # {}
  PROVE  \E x \in A : \A y \in A : x <= y
<1> DEFINE R == OpToRel(<, Nat)
<1>1. IsWellFoundedOn(R, Nat)
  BY NatLessThanWellFounded
<1> HIDE DEF R
<1>2. PICK x \in A : \A y \in A : ~(<<y, x>> \in R)
  BY <1>1, WFMin
<1> USE DEF R
<1>3. \A y \in A : ~(y < x)
  BY <1>2 DEF OpToRel
<1> QED
  BY <1>3

\* A finite set of slots that is not empty has a greatest one.
LEMMA GreatestSlot ==
  ASSUME NEW A \in SUBSET Slot, A # {}
  PROVE  \E s \in A : \A t \in A : t <= s
<1> DEFINE B == {Slots - s : s \in A}
<1>1. \A s \in A : s \in Int /\ Slots - s \in Nat
  BY Sizes DEF Slot
<1>2. B \subseteq Nat /\ B # {}
  BY <1>1
<1>3. PICK x \in B : \A y \in B : x <= y
  BY <1>2, Least
<1>4. PICK s \in A : x = Slots - s
  OBVIOUS
<1>5. ASSUME NEW t \in A PROVE t <= s
  <2>1. Slots - s <= Slots - t
    BY <1>3, <1>4
  <2> QED
    BY <1>1, <2>1, Sizes
<1> QED
  BY <1>5

\* init_connectivity leaves the pool empty and the pairs distinct.
LEMMA Initially == Init => IInv
<1> SUFFICES ASSUME Init PROVE IInv
  OBVIOUS
<1> USE Sizes
<1>1. PICK n \in 0 .. Slots, arcs \in 0 .. 1 :
        /\ n + arcs <= Slots /\ count = n + arcs /\ fixed = n .. n + arcs - 1
        /\ syn \in [Slot -> Pair \cup {"blank"}]
        /\ \A s \in Slot : syn[s] = "blank" <=> s >= n + arcs
        /\ \A s, t \in 0 .. n - 1 : syn[s] = syn[t] => s = t
  BY DEF Init
<1>2. TypeOK
  <2>1. /\ syn \in [Slot -> Pair \cup {"blank", "dead"}] /\ fixed \subseteq Slot
        /\ count \in 0 .. Slots + Overrun
    BY <1>1 DEF Slot
  <2>2. snapshot \in Snapshot
    BY DEF Init, Snapshot
  <2>3. /\ pc \in {"idle", "grow", "panicked"} /\ head \in Slot /\ free \in 0 .. MaxFree
        /\ scan \in 0 .. Slots - 1 /\ left \in 0 .. GrowthBatch
        /\ dreaming \in BOOLEAN /\ freed \in BOOLEAN
    <3>1. 0 \in 0 .. Slots - 1 /\ 0 \in 0 .. MaxFree /\ 0 \in 0 .. GrowthBatch
      OBVIOUS
    <3>2. /\ pc = "idle" /\ head = 0 /\ free = 0 /\ scan = 0 /\ left = 0
          /\ dreaming = FALSE /\ freed = FALSE
      BY DEF Init
    <3> QED
      BY <3>1, <3>2 DEF Slot
  <2>4. doubt \subseteq Doubt
    BY DEF Init, Doubt
  <2> QED
    BY <2>1, <2>2, <2>3, <2>4 DEF TypeOK
<1>3. doubt = {} => Present
  <2> SUFFICES ASSUME doubt = {} PROVE Present
    OBVIOUS
  <2>1. count < Slots /\ free = 0
    BY <1>1 DEF Init
  <2>2. \A s \in Slot : syn[s] \in Pair => s < count
    BY <1>1 DEF Slot
  <2>3. Distinct(syn, fixed)
    <3>1. ASSUME NEW s \in Slot, NEW t \in Slot, syn[s] \in Pair, s \notin fixed,
                 syn[t] \in Pair, t \notin fixed, syn[s] = syn[t]
          PROVE  s = t
      <4>1. s < n + arcs /\ t < n + arcs
        BY <1>1, <2>2, <3>1
      <4>2. s \in 0 .. n - 1 /\ t \in 0 .. n - 1
        BY <1>1, <3>1, <4>1 DEF Slot
      <4> QED
        BY <1>1, <3>1, <4>2
    <3> QED
      BY <3>1 DEF Distinct
  <2> QED
    BY <2>1, <2>2, <2>3 DEF Present
<1>4. Kept
  BY <1>1 DEF Init, Kept, Slot
<1> QED
  BY <1>2, <1>3, <1>4 DEF IInv, Sound

\* Pruning: at most one silent synapse can have been freed without doubt.
LEMMA PruneStep == IInv /\ Prune => IInv'
<1> SUFFICES ASSUME IInv, Prune PROVE IInv'
  OBVIOUS
<1> USE Sizes
<1>0. TypeOK /\ Sound
  BY DEF IInv
<1>1. PICK old, silent \in SUBSET {s \in Seen : Live(s) /\ s \notin fixed} :
        /\ old \cap silent = {} /\ free + Cardinality(silent) <= MaxFree
        /\ syn' = [s \in Slot |-> IF s \in old \cup silent THEN "dead" ELSE syn[s]]
        /\ head' = IF silent = {} THEN head
                   ELSE CHOOSE s \in silent : \A t \in silent : t <= s
        /\ free' = free + Cardinality(silent)
        /\ freed' = (freed \/ (dreaming /\ silent # {}))
  BY DEF Prune
<1>2. /\ doubt' = doubt \cup (IF free' > 1 THEN {"burst"} ELSE {})
      /\ pc' = "grow" /\ scan' = count % Slots /\ left' = GrowthBatch
      /\ UNCHANGED <<fixed, count, dreaming, snapshot>>
  BY DEF Prune
<1>3. silent \subseteq Slot /\ silent \subseteq Seen
  BY <1>0, SeenLemma
<1>4. IsFiniteSet(silent) /\ Cardinality(silent) \in Nat
  <2>1. IsFiniteSet(Slot)
    BY FS_Interval DEF Slot
  <2> QED
    BY <1>3, <2>1, FS_Subset, FS_CardinalityType
<1>5. silent # {} => head' \in silent
  BY <1>1, <1>3, GreatestSlot
<1>6. TypeOK'
  <2>1. head' \in Slot /\ free' \in 0 .. MaxFree /\ scan' \in 0 .. Slots - 1
    BY <1>0, <1>1, <1>2, <1>3, <1>4, <1>5, SeenLemma DEF TypeOK
  <2>2. syn' \in [Slot -> Pair \cup {"blank", "dead"}]
    BY <1>0, <1>1 DEF TypeOK
  <2>3. freed' \in BOOLEAN
    BY <1>0, <1>1 DEF TypeOK
  <2>4. doubt' \subseteq Doubt
    BY <1>0, <1>2 DEF TypeOK, Doubt
  <2> QED
    BY <1>0, <1>2, <2>1, <2>2, <2>3, <2>4 DEF TypeOK
<1>7. ASSUME doubt' = {} PROVE Present' /\ Kept'
  <2>0. doubt = {} /\ ~(free' > 1)
    BY <1>2, <1>7
  <2>1. doubt = {} /\ free' <= 1 /\ Present /\ Kept
    BY <1>0, <1>1, <1>4, <2>0 DEF Sound, TypeOK
  <2>2. Cardinality(silent) = 0 <=> silent = {}
    BY <1>4, FS_EmptySet
  <2>3. /\ free \in {0, 1}
        /\ silent = {} => free' = free
        /\ silent # {} => free = 0 /\ free' = 1
    BY <1>1, <1>4, <2>1, <2>2 DEF Present
  <2>4. \A s \in Slot : syn'[s] \in Pair => syn[s] \in Pair /\ syn'[s] = syn[s]
    BY <1>1 DEF Live
  <2>5. free' = 1 => syn'[head'] \notin Pair /\ head' < count
    <3>1. CASE silent = {}
      BY <1>0, <1>1, <2>1, <2>3, <2>4, <3>1 DEF Present, TypeOK
    <3>2. CASE silent # {}
      <4>1. head' \in silent /\ head' \in Slot /\ syn'[head'] = "dead"
        BY <1>1, <1>3, <1>5, <3>2
      <4>2. head' < count
        BY <1>0, <1>3, <2>1, <4>1, SeenLemma DEF Present, TypeOK
      <4> QED
        BY <4>1, <4>2
    <3> QED
      BY <3>1, <3>2
  <2>6. Present'
    <3>1. Distinct(syn', fixed)
      BY <2>1, <2>4 DEF Present, Distinct
    <3>2. \A s \in Slot : syn'[s] \in Pair => s < count
      BY <2>1, <2>4 DEF Present
    <3>3. free' \in {0, 1} /\ count < Slots
      BY <2>1, <2>3 DEF Present
    <3> QED
      BY <1>2, <2>5, <3>1, <3>2, <3>3 DEF Present
  <2>7. Kept'
    <3>1. dreaming' /\ ~freed' /\ free' = 1 => silent = {} /\ ~freed /\ free = 1
      BY <1>0, <1>1, <1>2, <2>3 DEF TypeOK
    <3> QED
      BY <1>1, <1>2, <2>1, <3>1 DEF Kept
  <2> QED
    BY <2>6, <2>7
<1> QED
  BY <1>6, <1>7 DEF IInv, Sound

\* Making a synapse on the waiting id or on a new one.
LEMMA GrowStep == IInv /\ Grow => IInv'
<1> SUFFICES ASSUME IInv, Grow PROVE IInv'
  OBVIOUS
<1> USE Sizes
<1>0. TypeOK /\ Sound /\ Slots \in Nat \ {0}
  BY DEF IInv
<1>1. PICK p \in Pair : Wanted(p) /\ (PopFree(p) \/ NewId(p))
  BY DEF Grow
<1>2. /\ left' = IF free = 0 /\ count >= Slots THEN left ELSE left - 1
      /\ freed' = (freed \/ (dreaming /\ free > 0)) /\ left > 0
      /\ doubt' = doubt \cup (IF count' >= Slots THEN {"full"} ELSE {})
      /\ UNCHANGED <<pc, scan, dreaming, snapshot>>
  BY DEF Grow
<1>3. TypeOK'
  <2>1. CASE PopFree(p)
    <3>1. /\ syn' \in [Slot -> Pair \cup {"blank", "dead"}] /\ fixed' \subseteq Slot
          /\ free' \in 0 .. MaxFree /\ count' \in 0 .. Slots + Overrun
      BY <1>0, <2>1 DEF PopFree, TypeOK
    <3>2. head' \in Slot
      <4>1. head + 1 \in Nat
        BY <1>0 DEF TypeOK, Slot
      <4>2. (head + 1) % Slots \in 0 .. Slots - 1
        BY <1>0, <4>1
      <4> QED
        BY <2>1, <4>2 DEF PopFree, Slot
    <3> QED
      BY <1>0, <1>2, <3>1, <3>2 DEF TypeOK, Doubt
  <2>2. CASE NewId(p)
    <3>1. /\ syn' \in [Slot -> Pair \cup {"blank", "dead"}] /\ fixed' \subseteq Slot
          /\ free' \in 0 .. MaxFree /\ count' \in 0 .. Slots + Overrun
          /\ head' \in Slot
      <4>1. count \in 0 .. Slots + Overrun /\ count < Slots + Overrun
            /\ count' = count + 1 /\ UNCHANGED <<head, free>>
        BY <1>0, <2>2 DEF NewId, TypeOK
      <4>2. /\ syn' \in [Slot -> Pair \cup {"blank", "dead"}] /\ fixed' \subseteq Slot
        BY <1>0, <2>2 DEF NewId, TypeOK
      <4> QED
        BY <1>0, <4>1, <4>2 DEF TypeOK
    <3> QED
      BY <1>0, <1>2, <3>1 DEF TypeOK, Doubt
  <2> QED
    BY <1>1, <2>1, <2>2
<1>4. ASSUME doubt' = {} PROVE Present' /\ Kept'
  <2>1. doubt = {} /\ Present /\ Kept /\ ~(count' >= Slots)
    BY <1>0, <1>2, <1>4 DEF Sound
  <2>2. \A s \in Slot : syn[s] \in Pair => syn[s] # p
    BY <1>0, <1>1, <2>1, SeenLemma DEF Wanted, Exists, Present, Slot, TypeOK
  <2>3. CASE PopFree(p)
    <3>1. /\ syn' = [syn EXCEPT ![head] = p] /\ fixed' = fixed \ {head}
          /\ free' = 0 /\ count' = count /\ syn[head] \notin Pair /\ head < count
          /\ head \in Slot
      BY <1>0, <2>1, <2>3 DEF PopFree, Present, TypeOK
    <3>2. Present'
      BY <1>0, <2>1, <2>2, <3>1 DEF Present, Distinct, TypeOK
    <3>3. Kept'
      BY <1>2, <2>1, <3>1 DEF Kept
    <3> QED
      BY <3>2, <3>3
  <2>4. CASE NewId(p)
    <3>1. /\ count' = count + 1 /\ count < Slots /\ count \in Slot
          /\ UNCHANGED <<head, free>> /\ free = 0
          /\ syn' = [syn EXCEPT ![count] = p] /\ fixed' = fixed \ {count}
          /\ count' < Slots
      BY <1>0, <1>2, <2>1, <2>4 DEF NewId, TypeOK, Slot
    <3>2. syn[count] \notin Pair
      BY <2>1, <3>1 DEF Present, Slot
    <3>3. Present'
      BY <1>0, <2>1, <2>2, <3>1, <3>2 DEF Present, Distinct, TypeOK, Slot
    <3>4. Kept'
      BY <1>0, <1>2, <2>1, <3>1 DEF Kept, TypeOK, Snapshot
    <3> QED
      BY <3>3, <3>4
  <2> QED
    BY <1>1, <2>3, <2>4
<1> QED
  BY <1>3, <1>4 DEF IInv, Sound

\* A snapshot takes the slots below the count, and the others as they were.
LEMMA CaptureStep == IInv /\ Capture => IInv'
<1> SUFFICES ASSUME IInv, Capture PROVE IInv'
  OBVIOUS
<1> USE Sizes
<1>0. TypeOK /\ Sound /\ snapshot \in Snapshot
  BY DEF IInv, TypeOK
<1>1. /\ dreaming' = TRUE /\ freed' = FALSE
      /\ snapshot'.syn = [s \in Slot |-> IF s < count THEN syn[s] ELSE snapshot.syn[s]]
      /\ snapshot'.fixed = {s \in Slot : IF s < count THEN s \in fixed
                                          ELSE s \in snapshot.fixed}
      /\ snapshot'.count = count
      /\ UNCHANGED <<pc, syn, fixed, count, head, free, scan, left, doubt>>
  BY DEF Capture
<1>2. TypeOK'
  <2>1. snapshot' \in Snapshot
    BY <1>0, <1>1 DEF Capture, TypeOK, Snapshot
  <2> QED
    BY <1>0, <1>1, <2>1 DEF TypeOK
<1>3. ASSUME doubt' = {} PROVE Present' /\ Kept'
  <2>1. doubt = {} /\ Present /\ Kept
    BY <1>0, <1>1, <1>3 DEF Sound
  <2>2. \A s \in Slot : snapshot'.syn[s] \in Pair => s < count /\ syn[s] = snapshot'.syn[s]
    BY <1>0, <1>1, <2>1 DEF Kept, TypeOK, Snapshot, Slot
  <2>3. Distinct(snapshot'.syn, snapshot'.fixed)
    BY <1>1, <2>1, <2>2 DEF Present, Distinct
  <2>4. free' = 1 => snapshot'.syn[head] \notin Pair /\ head < count
    BY <1>0, <1>1, <2>1 DEF Present, TypeOK
  <2>5. Present'
    BY <1>1, <2>1 DEF Present
  <2>6. Kept'
    BY <1>0, <1>1, <2>1, <2>2, <2>3, <2>4 DEF Kept, TypeOK
  <2> QED
    BY <2>5, <2>6
<1> QED
  BY <1>2, <1>3 DEF IInv, Sound

\* Putting it back, the free pool is as it was then, unless it was touched.
LEMMA RestoreStep == IInv /\ Restore => IInv'
<1> SUFFICES ASSUME IInv, Restore PROVE IInv'
  OBVIOUS
<1> USE Sizes
<1>0. TypeOK /\ Sound /\ snapshot \in Snapshot
  BY DEF IInv, TypeOK
<1>1. /\ dreaming /\ dreaming' = FALSE /\ freed' = FALSE
      /\ syn' = snapshot.syn /\ fixed' = snapshot.fixed /\ count' = snapshot.count
      /\ doubt' = doubt \cup (IF freed THEN {"dream"} ELSE {})
      /\ UNCHANGED <<pc, head, free, scan, left, snapshot>>
  BY DEF Restore
<1>2. TypeOK'
  <2>1. doubt' \subseteq Doubt
    BY <1>0, <1>1 DEF TypeOK, Doubt
  <2> QED
    BY <1>0, <1>1, <2>1 DEF TypeOK, Snapshot
<1>3. ASSUME doubt' = {} PROVE Present' /\ Kept'
  <2>1. doubt = {} /\ ~freed /\ Present /\ Kept
    BY <1>0, <1>1, <1>3 DEF Sound
  <2>2. Present'
    BY <1>0, <1>1, <2>1 DEF Present, Kept, TypeOK, Snapshot
  <2>3. Kept'
    BY <1>0, <1>1, <2>1 DEF Kept, TypeOK, Snapshot
  <2> QED
    BY <2>2, <2>3
<1> QED
  BY <1>2, <1>3 DEF IInv, Sound

\* The invariant holds in every reachable state.
LEMMA Inductive == LearnSpec => []IInv
<1>1. IInv /\ [Next]_vars => IInv'
  <2> SUFFICES ASSUME IInv, [Next]_vars PROVE IInv'
    OBVIOUS
  <2>1. CASE EndGrowth
    BY <2>1, Sizes
    DEF EndGrowth, IInv, TypeOK, Sound, Present, Kept, Distinct
  <2>2. CASE Overindex
    BY <2>2 DEF Overindex, IInv, TypeOK, Sound, Present, Kept, Distinct
  <2>3. CASE UNCHANGED vars
    BY <2>3 DEF vars, IInv, TypeOK, Sound, Present, Kept, Distinct
  <2> QED
    BY <2>1, <2>2, <2>3, PruneStep, GrowStep, CaptureStep, RestoreStep
    DEF Next, Panicked
<1>2. LearnInit => Init
  BY DEF LearnInit
<1>3. [LearnNext]_learnVars => [Next]_vars
  BY DEF LearnNext, Still, learnVars
<1> QED
  BY Initially, <1>1, <1>2, <1>3, PTL DEF LearnSpec

\* A step of neurogenesis writes no live slot, and only where loops look.
LEMMA SparingStep ==
  IInv /\ [Next]_vars =>
    (doubt = {} /\ pc = "grow" =>
       \A s \in Slot : syn'[s] # syn[s] => ~Live(s) /\ s < count')
<1> SUFFICES ASSUME IInv, [Next]_vars, doubt = {}, pc = "grow",
                    NEW s \in Slot, syn'[s] # syn[s]
             PROVE  ~Live(s) /\ s < count'
  OBVIOUS
<1>0. TypeOK /\ Present
  BY DEF IInv, Sound
<1>1. Grow
  BY DEF Next, vars, Prune, EndGrowth, Overindex, Capture, Restore, Panicked
<1>2. PICK p \in Pair : PopFree(p) \/ NewId(p)
  BY <1>1 DEF Grow
<1>3. CASE PopFree(p)
  BY <1>0, <1>3 DEF PopFree, Present, TypeOK, Live
<1>4. CASE NewId(p)
  <2>1. s = count /\ count' = count + 1 /\ count \in Nat
    BY <1>0, <1>4, Sizes DEF NewId, TypeOK
  <2> QED
    BY <1>0, <2>1 DEF Present, Live
<1> QED
  BY <1>2, <1>3, <1>4

\* For every pool, batch and set of pairs: while the free pool expresses what
\* is free, making a synapse spares the live ones, reflex arcs included, and
\* never joins a pair twice (create_synapse and neurogenesis).
THEOREM CreationIsSound == LearnSpec => PoolIsSound
<1>1. IInv => TypeOK /\ PairsAreDistinct
  BY DEF IInv, Sound, Present, Distinct, PairsAreDistinct, Live
<1>2. IInv /\ [Next]_vars =>
        [doubt = {} /\ pc = "grow" =>
           \A s \in Slot : syn'[s] # syn[s] => ~Live(s) /\ s < count']_vars
  BY SparingStep
<1>3. [LearnNext]_learnVars => [Next]_vars
  BY DEF LearnNext, Still, learnVars
<1> QED
  BY Inductive, <1>1, <1>2, <1>3, PTL DEF LearnSpec, PoolIsSound, CreationSparesLive
------------------------------------------------------------------------------
(* The synapse store.                                                      *)

Place == 0 .. StoreSlots - 1
Written == [pre : Ends \cup {"invalid", "garbage"},
            post : Ends \cup {"invalid", "garbage"}, weak : BOOLEAN,
            next : 0 .. StoreSlots]
StoreType ==
  /\ freeList \in Seq(Place) /\ slot \in [Place -> Written]
  /\ lists \in [S!Lists -> 0 .. StoreSlots] /\ DOMAIN counted = S!Lists
  /\ early \in BOOLEAN

\* A slot is free or in use, and listed as free once.
Once(q) == \A j, k \in 1 .. Len(q) : q[j] = q[k] => j = k
Listed(x, q) == \E k \in 1 .. Len(q) : q[k] = x
Apart ==
  /\ Once(freeList)
  /\ \A i \in Place : slot[i].pre \in Ends <=> ~Listed(i, freeList)

StoreInv == StoreType /\ (~early => Apart)

\* The assumptions on the pool, one by one.
LEMMA StoreSizes ==
  /\ StoreSlots \in Nat /\ StoreSlots > 0
  /\ "invalid" \notin Ends /\ "garbage" \notin Ends
BY StoreAssumption

\* What a list that is put behind another one lists.
LEMMA Joined ==
  ASSUME NEW P, NEW q \in Seq(P), NEW t \in Seq(P)
  PROVE  /\ q \o t \in Seq(P)
         /\ \A x : Listed(x, q \o t) <=> Listed(x, q) \/ Listed(x, t)
         /\ Once(q) /\ Once(t) /\ (\A x : ~(Listed(x, q) /\ Listed(x, t)))
              => Once(q \o t)
<1>1. /\ Len(q) \in Nat /\ Len(t) \in Nat /\ Len(q \o t) = Len(q) + Len(t)
      /\ q \o t \in Seq(P)
      /\ \A k \in 1 .. Len(q) + Len(t) :
           (q \o t)[k] = IF k <= Len(q) THEN q[k] ELSE t[k - Len(q)]
  OBVIOUS
<1> DEFINE n == Len(q)
           m == Len(t)
           r == q \o t
<1>2. n \in Nat /\ m \in Nat /\ Len(r) = n + m /\ r \in Seq(P)
  BY <1>1
<1>3. \A k \in 1 .. n : k \in 1 .. n + m /\ r[k] = q[k]
  BY <1>1
<1>4. \A k \in 1 .. m : n + k \in 1 .. n + m /\ r[n + k] = t[k]
  BY <1>1
<1>5. \A k \in 1 .. n + m : k \in 1 .. n \/ (k - n \in 1 .. m /\ r[k] = t[k - n])
  BY <1>1
<1>6. ASSUME NEW x PROVE Listed(x, r) <=> Listed(x, q) \/ Listed(x, t)
  <2> HIDE DEF n, m, r
  <2>1. ASSUME NEW k \in 1 .. n + m, r[k] = x PROVE Listed(x, q) \/ Listed(x, t)
    BY <1>3, <1>5, <2>1 DEF Listed, n, m
  <2>2. Listed(x, q) => Listed(x, r)
    BY <1>2, <1>3 DEF Listed, n
  <2>3. Listed(x, t) => Listed(x, r)
    BY <1>2, <1>4 DEF Listed, m
  <2> QED
    BY <1>2, <2>1, <2>2, <2>3 DEF Listed
<1>7. ASSUME Once(q), Once(t), \A x : ~(Listed(x, q) /\ Listed(x, t)),
             NEW j \in 1 .. n + m, NEW k \in 1 .. n + m, r[j] = r[k]
      PROVE  j = k
  <2> HIDE DEF n, m, r
  <2>1. CASE j \in 1 .. n /\ k \in 1 .. n
    BY <1>3, <1>7, <2>1 DEF Once, n
  <2>2. CASE j \in 1 .. n /\ k \notin 1 .. n
    <3>1. Listed(r[j], q)
      BY <1>3, <2>2 DEF Listed, n
    <3>2. Listed(r[k], t)
      BY <1>5, <2>2 DEF Listed, m
    <3> QED
      BY <1>7, <3>1, <3>2
  <2>3. CASE j \notin 1 .. n /\ k \in 1 .. n
    <3>1. Listed(r[k], q)
      BY <1>3, <2>3 DEF Listed, n
    <3>2. Listed(r[j], t)
      BY <1>5, <2>3 DEF Listed, m
    <3> QED
      BY <1>7, <3>1, <3>2
  <2>4. CASE j \notin 1 .. n /\ k \notin 1 .. n
    <3>1. t[j - n] = t[k - n] /\ j - n \in 1 .. m /\ k - n \in 1 .. m
      BY <1>5, <1>7, <2>4
    <3>2. j - n = k - n
      BY <1>7, <3>1 DEF m, Once
    <3> QED
      BY <1>2, <3>2
  <2> QED
    BY <2>1, <2>2, <2>3, <2>4
<1> QED
  BY <1>2, <1>6, <1>7 DEF Once

\* StaticPool::init lists every slot, and no slot is in use.
LEMMA StoreStarts == S!Init => StoreInv
<1> SUFFICES ASSUME S!Init PROVE StoreInv
  OBVIOUS
<1> USE StoreSizes
<1>1. /\ freeList = [i \in 1 .. StoreSlots |-> i - 1] /\ early = FALSE
      /\ slot \in [Place -> S!Unwritten \cup {S!Empty}]
      /\ lists = [l \in S!Lists |-> StoreSlots] /\ counted = [l \in S!Lists |-> 0]
  BY DEF S!Init, S!Ids, Place, S!None
<1>2. freeList \in Seq(Place) /\ Len(freeList) = StoreSlots
  <2>1. freeList \in [1 .. StoreSlots -> Place]
    BY <1>1 DEF Place
  <2> QED
    BY <2>1
<1>3. S!Unwritten \cup {S!Empty} \subseteq Written
  <2>1. S!Empty \in Written
    BY DEF S!Empty, Written, S!None
  <2>2. \A w \in BOOLEAN :
          [S!Empty EXCEPT !.pre = "garbage", !.post = "garbage", !.weak = w] \in Written
    BY <2>1 DEF Written
  <2>3. S!Unwritten \subseteq Written
    <3>1. ASSUME NEW r \in S!Unwritten PROVE r \in Written
      <4>1. PICK w \in BOOLEAN :
              r = [S!Empty EXCEPT !.pre = "garbage", !.post = "garbage", !.weak = w]
        BY DEF S!Unwritten
      <4> QED
        BY <2>2, <4>1
    <3> QED
      BY <3>1
  <2> QED
    BY <2>1, <2>3
<1>4. \A r \in S!Unwritten \cup {S!Empty} : r.pre \notin Ends
  <2>1. S!Empty.pre = "invalid"
    BY DEF S!Empty
  <2>2. ASSUME NEW r \in S!Unwritten PROVE r.pre = "garbage"
    <3>1. PICK w \in BOOLEAN :
            r = [S!Empty EXCEPT !.pre = "garbage", !.post = "garbage", !.weak = w]
      BY DEF S!Unwritten
    <3> QED
      BY <3>1 DEF S!Empty
  <2> QED
    BY <2>1, <2>2
<1>5. StoreType
  <2>1. slot \in [Place -> Written]
    BY <1>1, <1>3
  <2>2. lists \in [S!Lists -> 0 .. StoreSlots]
    BY <1>1
  <2> QED
    BY <1>1, <1>2, <2>1, <2>2 DEF StoreType
<1>6. Apart
  <2>1. \A j \in 1 .. StoreSlots : freeList[j] = j - 1
    BY <1>1
  <2>2. Once(freeList)
    BY <1>2, <2>1 DEF Once
  <2>3. ASSUME NEW i \in Place PROVE Listed(i, freeList)
    <3>1. i + 1 \in 1 .. StoreSlots /\ freeList[i + 1] = i
      BY <2>1 DEF Place
    <3> QED
      BY <1>2, <3>1 DEF Listed
  <2>4. \A i \in Place : slot[i].pre \notin Ends
    BY <1>1, <1>4
  <2> QED
    BY <2>2, <2>3, <2>4 DEF Apart
<1> QED
  BY <1>5, <1>6 DEF StoreInv

\* create_synapse takes the slot on top of the free list.
LEMMA CreateKeeps == StoreInv /\ S!Create => StoreInv'
<1> SUFFICES ASSUME StoreInv, S!Create PROVE StoreInv'
  OBVIOUS
<1> USE StoreSizes
<1> DEFINE n == Len(freeList)
           id == freeList[n]
<1>1. PICK pre, post \in Ends, weak \in BOOLEAN :
        /\ freeList # <<>>
        /\ freeList' = SubSeq(freeList, 1, n - 1)
        /\ slot' = [slot EXCEPT ![id] =
                      [pre |-> pre, post |-> post, weak |-> weak,
                       next |-> lists[<<"post", post>>]]]
        /\ lists' = [lists EXCEPT ![<<"pre", pre>>] = id, ![<<"post", post>>] = id]
        /\ counted' = [counted EXCEPT ![<<"pre", pre>>] = @ + 1,
                                      ![<<"post", post>>] = @ + 1]
        /\ early' = early
  BY DEF S!Create, S!Allocated
<1>2. StoreType
  BY DEF StoreInv
<1>3. n \in Nat \ {0} /\ id \in Place /\ freeList \in Seq(Place)
  BY <1>1, <1>2 DEF StoreType
<1>4. /\ freeList' \in Seq(Place) /\ Len(freeList') = n - 1
      /\ \A k \in 1 .. n - 1 : freeList'[k] = freeList[k]
  <2>1. \A k \in 1 .. n : freeList[k] \in Place
    BY <1>3
  <2>2. freeList' = [k \in 1 .. n - 1 |-> freeList[k]]
    BY <1>1, <1>3
  <2> QED
    BY <1>3, <2>1, <2>2
<1> HIDE DEF n, id
<1>5. <<"post", post>> \in S!Lists /\ <<"pre", pre>> \in S!Lists
  BY DEF S!Lists
<1>6. slot' \in [Place -> Written]
  <2>1. lists[<<"post", post>>] \in 0 .. StoreSlots
    BY <1>2, <1>5 DEF StoreType
  <2>2. [pre |-> pre, post |-> post, weak |-> weak,
         next |-> lists[<<"post", post>>]] \in Written
    BY <2>1 DEF Written
  <2> QED
    BY <1>1, <1>2, <1>3, <2>2 DEF StoreType
<1>7. lists' \in [S!Lists -> 0 .. StoreSlots]
  <2>1. id \in 0 .. StoreSlots
    BY <1>3 DEF Place
  <2> QED
    BY <1>1, <1>2, <1>5, <2>1 DEF StoreType
<1>8. StoreType'
  BY <1>1, <1>2, <1>4, <1>6, <1>7 DEF StoreType
<1>9. ASSUME Apart PROVE Apart'
  <2>1. \A i \in Place : slot'[i].pre \in Ends <=> slot[i].pre \in Ends \/ i = id
    BY <1>1, <1>2 DEF StoreType
  <2>2. ASSUME NEW i \in Place, Listed(i, freeList')
        PROVE  Listed(i, freeList) /\ i # id
    <3>1. PICK k \in 1 .. n - 1 : freeList[k] = i
      BY <1>4, <2>2 DEF Listed
    <3>2. k \in 1 .. n /\ k # n
      BY <1>3
    <3> QED
      BY <1>3, <1>9, <3>1, <3>2 DEF Apart, Once, Listed, n, id
  <2>3. ASSUME NEW i \in Place, Listed(i, freeList), i # id
        PROVE  Listed(i, freeList')
    <3>1. PICK k \in 1 .. n : freeList[k] = i
      BY <2>3 DEF Listed, n
    <3>2. k \in 1 .. n - 1
      BY <1>3, <2>3, <3>1 DEF id
    <3> QED
      BY <1>4, <3>1, <3>2 DEF Listed
  <2>4. Once(freeList')
    <3>1. \A k \in 1 .. n - 1 : k \in 1 .. n
      BY <1>3
    <3> QED
      BY <1>4, <1>9, <3>1 DEF Apart, Once, n
  <2> QED
    BY <1>9, <2>1, <2>2, <2>3, <2>4 DEF Apart
<1> QED
  BY <1>1, <1>8, <1>9 DEF StoreInv

\* Slots that are emptied go to the free list, each once.
LEMMA Returned ==
  ASSUME StoreInv, NEW D \in SUBSET Place, NEW t \in Seq(D),
         Once(t), \A i \in D : Listed(i, t),
         freeList' = freeList \o t,
         slot' = [i \in Place |-> IF i \in D THEN S!Emptied(slot[i]) ELSE slot[i]],
         UNCHANGED <<lists, counted>>, early' \in BOOLEAN,
         ~early' => ~early /\ \A i \in D : slot[i].pre \in Ends
  PROVE  StoreInv'
<1> USE StoreSizes
<1>1. freeList \in Seq(Place) /\ t \in Seq(Place)
  BY DEF StoreInv, StoreType
<1>2. \A i \in Place : S!Emptied(slot[i]) \in Written /\ S!Emptied(slot[i]).pre \notin Ends
  BY DEF StoreInv, StoreType, S!Emptied, Written
<1>3. slot' \in [Place -> Written]
  BY <1>2 DEF StoreInv, StoreType
<1>4. freeList' \in Seq(Place)
  BY <1>1, Joined
<1>5. StoreType'
  BY <1>3, <1>4 DEF StoreInv, StoreType
<1>6. ASSUME Apart, \A i \in D : slot[i].pre \in Ends PROVE Apart'
  <2>1. \A i \in Place : slot'[i].pre \in Ends <=> slot[i].pre \in Ends /\ i \notin D
    BY <1>2
  <2>2. \A x : Listed(x, t) => x \in D
    <3>1. \A k \in 1 .. Len(t) : t[k] \in D
      OBVIOUS
    <3> QED
      BY <3>1 DEF Listed
  <2>3. \A i \in D : ~Listed(i, freeList)
    BY <1>6 DEF Apart
  <2>4. /\ \A x : Listed(x, freeList \o t) <=> Listed(x, freeList) \/ Listed(x, t)
        /\ Once(freeList \o t)
    BY <1>1, <1>6, <2>2, <2>3, Joined DEF Apart
  <2> QED
    BY <1>6, <2>1, <2>2, <2>4 DEF Apart
<1> QED
  BY <1>5, <1>6 DEF StoreInv

\* destroy_synapse gives one slot back.
LEMMA DestroyKeeps == StoreInv /\ S!Destroy => StoreInv'
<1> SUFFICES ASSUME StoreInv, S!Destroy PROVE StoreInv'
  OBVIOUS
<1>1. PICK i \in Place :
        /\ slot[i].pre \in Ends
        /\ slot' = [slot EXCEPT ![i] = S!Emptied(@)]
        /\ freeList' = Append(freeList, i)
        /\ UNCHANGED <<lists, counted, early>>
  BY DEF S!Destroy, S!Ids, S!InUse, Place
<1>2. StoreType
  BY DEF StoreInv
<1>3. slot' = [j \in Place |-> IF j \in {i} THEN S!Emptied(slot[j]) ELSE slot[j]]
  BY <1>1, <1>2 DEF StoreType
<1>4. freeList' = freeList \o <<i>> /\ <<i>> \in Seq({i})
  BY <1>1, <1>2 DEF StoreType
<1>5. Once(<<i>>) /\ Listed(i, <<i>>)
  BY DEF Once, Listed
<1>6. early' \in BOOLEAN /\ early' = early
  BY <1>1, <1>2 DEF StoreType
<1> QED
  <2> DEFINE D == {i}
             t == <<i>>
  <2>1. D \in SUBSET Place /\ t \in Seq(D) /\ Once(t) /\ freeList' = freeList \o t
    BY <1>1, <1>4, <1>5
  <2>2. (\A j \in D : Listed(j, t)) /\ (\A j \in D : slot[j].pre \in Ends)
    BY <1>1, <1>5
  <2> HIDE DEF D, t
  <2>4. UNCHANGED <<lists, counted>> /\ early' \in BOOLEAN
        /\ (~early' => ~early /\ \A j \in D : slot[j].pre \in Ends)
    BY <1>1, <1>6, <2>2
  <2>3. slot' = [j \in Place |-> IF j \in D THEN S!Emptied(slot[j]) ELSE slot[j]]
    BY <1>3 DEF D
  <2> QED
    BY <2>1, <2>2, <2>3, <2>4, Returned

\* Both modules take cardinality from FiniteSets.
LEMMA SameSize == \A X : S!Cardinality(X) = Cardinality(X)
BY DEF Cardinality, S!Cardinality

\* prune_below_threshold gives back the weak slots, from the lowest to the
\* highest; each is listed, and once.
LEMMA PruneKeeps == StoreInv /\ S!Prune => StoreInv'
<1> SUFFICES ASSUME StoreInv, S!Prune PROVE StoreInv'
  OBVIOUS
<1> DEFINE D == {i \in Place : S!Doomed(i)}
<1>1. PICK t \in S!InOrder(D) :
        /\ early' = (early \/ \E i \in D : slot[i].pre = "garbage")
        /\ slot' = [i \in Place |-> IF i \in D THEN S!Emptied(slot[i]) ELSE slot[i]]
        /\ freeList' = freeList \o t
        /\ UNCHANGED <<lists, counted>>
  BY DEF S!Prune, S!Ids, Place
<1>2. StoreType
  BY DEF StoreInv
<1>3. IsFiniteSet(D) /\ Cardinality(D) \in Nat
  <2>1. IsFiniteSet(Place)
    BY StoreSizes, FS_Interval DEF Place
  <2>2. D \in SUBSET Place
    OBVIOUS
  <2> QED
    BY <2>1, <2>2, FS_Subset, FS_CardinalityType
<1> HIDE DEF D
<1> DEFINE m == Cardinality(D)
<1>4. /\ t \in [1 .. m -> D] /\ DOMAIN t = 1 .. m
      /\ \A j, k \in 1 .. m : j < k => t[j] < t[k]
  <2>1. t \in [1 .. m -> D] /\ \A j, k \in DOMAIN t : j < k => t[j] < t[k]
    BY <1>1, SameSize DEF S!InOrder
  <2> QED
    BY <2>1
<1>5. t \in Seq(D) /\ Len(t) = m
  BY <1>3, <1>4
<1>6. D \subseteq Nat
  BY StoreSizes DEF D, Place
<1>7. ASSUME NEW j \in 1 .. m, NEW k \in 1 .. m, t[j] = t[k] PROVE j = k
  <2> HIDE DEF m
  <2>1. t[j] \in D /\ t[k] \in D
    BY <1>4
  <2>2. t[j] \in Nat /\ t[k] \in Nat
    BY <1>6, <2>1
  <2>3. (j < k => t[j] < t[k]) /\ (k < j => t[k] < t[j])
    BY <1>4
  <2> QED
    BY <1>3, <1>7, <2>2, <2>3 DEF m
<1>8. t \in Injection(1 .. m, D)
  BY <1>4, <1>7 DEF Injection, IsInjective
<1>9. t \in Surjection(1 .. m, D)
  <2>1. Cardinality(1 .. m) = m
    BY <1>3, FS_Interval
  <2> QED
    BY <1>3, <1>8, <2>1, FS_Injection
<1>10. Once(t) /\ \A i \in D : Listed(i, t)
  BY <1>5, <1>7, <1>9 DEF Once, Listed, Surjection
<1>11. early' \in BOOLEAN
  BY <1>1, <1>2 DEF StoreType
<1>12. ~early' => ~early /\ \A i \in D : slot[i].pre \in Ends
  <2>1. \A i \in D : slot[i].pre # "invalid" /\ slot[i] \in Written
    BY <1>2 DEF D, S!Doomed, StoreType
  <2>2. \A r \in Written : r.pre \in Ends \cup {"invalid", "garbage"}
    BY DEF Written
  <2> QED
    BY <1>1, <2>1, <2>2
<1>13. D \in SUBSET Place
  BY DEF D
<1> QED
  BY <1>1, <1>5, <1>10, <1>11, <1>12, <1>13, Returned

\* The numbers agree with the lists.
LEMMA ApartCounts == StoreInv => S!SlotsAreExclusive
<1> SUFFICES ASSUME StoreInv, ~early PROVE S!SlotsAreExclusive
  BY DEF S!SlotsAreExclusive
<1> DEFINE used == {i \in Place : slot[i].pre \in Ends}
           idle == {freeList[k] : k \in DOMAIN freeList}
           n == Len(freeList)
<1>1. StoreType /\ Apart
  BY DEF StoreInv
<1>2. n \in Nat /\ DOMAIN freeList = 1 .. n /\ freeList \in [1 .. n -> Place]
  BY <1>1 DEF StoreType
<1>3. idle = {freeList[k] : k \in 1 .. n}
  BY <1>2
<1> HIDE DEF n
<1>4. \A i \in Place : i \in idle <=> Listed(i, freeList)
  BY <1>3 DEF Listed, n
<1>5. idle \subseteq Place
  BY <1>2, <1>3
<1>6. idle \cup used = Place /\ used \cap idle = {}
  BY <1>1, <1>4, <1>5 DEF Apart
<1>7. /\ IsFiniteSet(Place) /\ Cardinality(Place) = StoreSlots
      /\ IsFiniteSet(1 .. n) /\ Cardinality(1 .. n) = n
  <2>1. 0 \in Int /\ 1 \in Int /\ StoreSlots - 1 \in Int /\ n \in Int
    BY <1>2, StoreSizes
  <2>2. IsFiniteSet(Place) /\ Cardinality(Place) = StoreSlots
    BY <2>1, StoreSizes, FS_Interval DEF Place
  <2>3. IsFiniteSet(1 .. n) /\ Cardinality(1 .. n) = n
    BY <1>2, <2>1, FS_Interval
  <2> QED
    BY <2>2, <2>3
<1>8. freeList \in Bijection(1 .. n, idle)
  <2>1. freeList \in [1 .. n -> idle]
    BY <1>2, <1>3
  <2>2. \A j, k \in 1 .. n : freeList[j] = freeList[k] => j = k
    BY <1>1 DEF Apart, Once, n
  <2>3. \A i \in idle : \E k \in 1 .. n : freeList[k] = i
    BY <1>3
  <2> QED
    BY <2>1, <2>2, <2>3 DEF Bijection, Injection, IsInjective, Surjection
<1>9. IsFiniteSet(idle) /\ Cardinality(idle) = n
  BY <1>7, <1>8, FS_Bijection DEF ExistsBijection
<1>10. IsFiniteSet(used) /\ Cardinality(used) \in Nat
  <2>1. used \in SUBSET Place
    OBVIOUS
  <2> QED
    BY <1>7, <2>1, FS_Subset, FS_CardinalityType
<1>11. n + Cardinality(used) = StoreSlots
  <2> HIDE DEF used, idle
  <2>1. Cardinality(idle \cup used)
          = Cardinality(idle) + Cardinality(used) - Cardinality(idle \cap used)
    BY <1>9, <1>10, FS_Union
  <2>2. Cardinality(idle \cap used) = 0
    <3>1. idle \cap used = {}
      BY <1>6
    <3> QED
      BY <3>1, FS_EmptySet
  <2>3. Cardinality(idle \cup used) = StoreSlots
    BY <1>6, <1>7
  <2> QED
    BY <1>2, <1>9, <1>10, <2>1, <2>2, <2>3, StoreSizes
<1>12. used = {i \in S!Ids : S!InUse(i)}
  BY DEF S!Ids, S!InUse, Place
<1> HIDE DEF used, idle
<1> QED
  <2>1. Len(freeList) + Cardinality({i \in S!Ids : S!InUse(i)}) = StoreSlots
    BY <1>11, <1>12 DEF n
  <2>2. Cardinality(idle) = Len(freeList)
    BY <1>9 DEF n
  <2> QED
    BY <1>6, <1>12, <2>1, <2>2, SameSize DEF S!SlotsAreExclusive, idle

\* For every pool and every set of neurons: until a slot that was never
\* written is pruned, no two synapses share a slot (StaticPool::allocate).
THEOREM SlotsAreApart == LearnSpec => []SlotsAreExclusive
<1>1. LearnInit => StoreInv
  BY StoreStarts DEF LearnInit
<1>2. StoreInv /\ [LearnNext]_learnVars => StoreInv'
  <2>1. CASE part = "store" /\ S!Next
    BY <2>1, CreateKeeps, DestroyKeeps, PruneKeeps DEF S!Next
  <2>2. CASE UNCHANGED store
    BY <2>2 DEF store, StoreInv, StoreType, Apart, Listed, Once
  <2> QED
    BY <2>1, <2>2 DEF LearnNext, Still, learnVars, store
<1>3. StoreInv => SlotsAreExclusive
  BY ApartCounts DEF SlotsAreExclusive
<1> QED
  BY <1>1, <1>2, <1>3, PTL DEF LearnSpec
------------------------------------------------------------------------------
(* Homeostasis and the protected optima.                                   *)

\* The assumptions on the network, one by one.
LEMMA HomeSizes ==
  /\ IsFiniteSet(Cells) /\ ONE \in Nat \ {0} /\ Window \in Nat \ {0}
  /\ TargetRate \in Int /\ ONE <= TargetRate
  /\ MinFactor \in Int /\ MaxFactor \in Int
  /\ MinFactor <= ONE /\ ONE <= MaxFactor
BY HomeAssumption

\* At most k for each of n gives a mean of at most k.
LEMMA MeanBound ==
  ASSUME NEW k \in Nat, NEW n \in Nat \ {0}, NEW x \in Nat, x <= n * k
  PROVE  x \div n \in 0 .. k
<1> DEFINE q == x \div n
<1>1. q \in Nat /\ x % n \in 0 .. n - 1
  OBVIOUS
<1>2. x % n = x - n * q
  OBVIOUS
<1> HIDE DEF q
<1>3. PICK d \in Int : d = q - k
  BY <1>1
<1>4. n * q = n * k + n * d /\ n * q \in Int /\ n * k \in Int /\ n * d \in Int
  BY <1>1, <1>3
<1>5. n * q <= x
  BY <1>1, <1>2, <1>4
<1>6. n * d <= 0
  BY <1>4, <1>5
<1>7. d >= 1 => n * d >= n
  OBVIOUS
<1>8. q <= k
  BY <1>1, <1>3, <1>6, <1>7
<1> QED
  BY <1>1, <1>8 DEF q

\* Both modules take cardinality from FiniteSets.
LEMMA HSize == \A X : H!Cardinality(X) = Cardinality(X)
BY DEF Cardinality, H!Cardinality

\* No neuron fires twice in a step, so no mean rate passes one.
LEMMA RatesAreSlow ==
  ASSUME NEW c \in [Cells -> 0 .. Window]
  PROVE  H!MeanRate(c) \in 0 .. ONE
<1> DEFINE active == {n \in Cells : c[n] > 0}
           below == {p \in active \X (1 .. Window * ONE) : p[2] <= H!RateOf(c[p[1]])}
           n == Cardinality(active)
<1>1. ONE \in Nat /\ Window \in Nat /\ Window > 0
  BY HomeSizes
<1>2. IsFiniteSet(active) /\ n \in Nat
  <2>1. active \in SUBSET Cells
    OBVIOUS
  <2> QED
    BY <2>1, HomeSizes, FS_Subset, FS_CardinalityType
<1>3. \A m \in Cells : H!RateOf(c[m]) \in 0 .. ONE
  <2> SUFFICES ASSUME NEW m \in Cells PROVE H!RateOf(c[m]) \in 0 .. ONE
    OBVIOUS
  <2>1. PICK s \in 0 .. Window : s = c[m]
    OBVIOUS
  <2>2. s * ONE \in Nat /\ s * ONE <= Window * ONE
    <3>1. PICK d \in Nat : Window = s + d
      BY <1>1
    <3>2. Window * ONE = s * ONE + d * ONE /\ s * ONE \in Nat /\ d * ONE \in Nat
      BY <1>1, <3>1
    <3> QED
      BY <3>2
  <2>3. PICK x \in Nat : x = s * ONE
    BY <2>2
  <2>4. x \div Window \in 0 .. ONE
    BY <1>1, <2>2, <2>3, MeanBound
  <2> QED
    BY <2>1, <2>3, <2>4 DEF H!RateOf
<1>4. below \subseteq active \X (1 .. ONE)
  <2> SUFFICES ASSUME NEW p \in below PROVE p \in active \X (1 .. ONE)
    OBVIOUS
  <2>1. p[1] \in active /\ p[2] \in 1 .. Window * ONE /\ p = <<p[1], p[2]>>
    OBVIOUS
  <2>2. p[2] <= H!RateOf(c[p[1]]) /\ H!RateOf(c[p[1]]) \in 0 .. ONE
    BY <1>3, <2>1
  <2>3. p[2] \in 1 .. ONE
    BY <1>1, <2>1, <2>2
  <2> QED
    BY <2>1, <2>3
<1> HIDE DEF active, below, n
<1>5. /\ IsFiniteSet(active \X (1 .. ONE))
      /\ Cardinality(active \X (1 .. ONE)) = n * ONE
  <2>1. IsFiniteSet(1 .. ONE) /\ Cardinality(1 .. ONE) = ONE
    <3>1. 1 \in Int /\ ONE \in Int
      BY <1>1
    <3> QED
      BY <1>1, <3>1, FS_Interval
  <2> QED
    BY <1>2, <2>1, FS_Product DEF n
<1>6. Cardinality(below) \in Nat /\ Cardinality(below) <= n * ONE
  <2>1. below \in SUBSET (active \X (1 .. ONE))
    BY <1>4
  <2> QED
    BY <1>5, <2>1, FS_Subset, FS_CardinalityType
<1>7. active # {} => Cardinality(below) \div n \in 0 .. ONE
  <2> SUFFICES ASSUME active # {} PROVE Cardinality(below) \div n \in 0 .. ONE
    OBVIOUS
  <2>1. n # 0
    BY <1>2, FS_EmptySet DEF n
  <2> QED
    BY <1>1, <1>2, <1>6, <2>1, MeanBound
<1>8. H!MeanRate(c) = IF active = {} THEN 0
                      ELSE Cardinality(below) \div n
  BY HSize DEF H!MeanRate, active, below, n
<1> QED
  BY <1>1, <1>7, <1>8

HomeInv ==
  /\ window \in 0 .. Window - 1 /\ counts \in [Cells -> 0 .. window]
  /\ factor \in Int /\ factor <= MaxFactor /\ error \in Nat
  /\ protected \in Seq([pair : Pairs, weight : Optima])

\* HomeostaticScaling::new_const starts at a factor of one.
LEMMA HomeStarts == H!HomeInit => HomeInv
<1> SUFFICES ASSUME H!HomeInit PROVE HomeInv
  OBVIOUS
<1>1. /\ counts = [n \in Cells |-> 0] /\ window = 0 /\ factor = ONE /\ error = 0
      /\ protected = <<>>
  BY DEF H!HomeInit
<1>2. counts \in [Cells -> 0 .. 0]
  BY <1>1
<1> QED
  BY <1>1, <1>2, HomeSizes DEF HomeInv

\* update, in a window and at its end.
LEMMA StepGrows == HomeInv /\ H!Step /\ UNCHANGED protected
                     => HomeInv' /\ H!ScalingOnlyGrows
<1> SUFFICES ASSUME HomeInv, H!Step, UNCHANGED protected
             PROVE  HomeInv' /\ H!ScalingOnlyGrows
  OBVIOUS
<1> USE HomeSizes
<1>1. PICK fired \in SUBSET Cells :
        LET c == H!Recorded(fired)
            r == H!MeanRate(c)
        IN IF window + 1 < Window
           THEN /\ counts' = c /\ window' = window + 1
                /\ UNCHANGED <<factor, error, raised, windows>>
           ELSE /\ counts' = [n \in Cells |-> 0] /\ window' = 0
                /\ IF r = 0 THEN UNCHANGED <<factor, error>>
                   ELSE /\ error' = TargetRate - r
                        /\ factor' = H!Clamp(factor + (TargetRate - r) \div 10,
                                             MinFactor, MaxFactor)
  BY DEF H!Step
<1> DEFINE c == H!Recorded(fired)
           r == H!MeanRate(c)
<1>2. /\ window \in 0 .. Window - 1 /\ counts \in [Cells -> 0 .. window]
      /\ factor \in Int /\ factor <= MaxFactor /\ error \in Nat
      /\ protected' \in Seq([pair : Pairs, weight : Optima])
  BY DEF HomeInv
<1>3. window + 1 \in 1 .. Window /\ c \in [Cells -> 0 .. window + 1]
  BY <1>2 DEF H!Recorded
<1>4. c \in [Cells -> 0 .. Window]
  <2>1. \A n \in Cells : c[n] \in 0 .. Window
    BY <1>2, <1>3
  <2>2. c = [n \in Cells |-> c[n]]
    BY <1>3
  <2> HIDE DEF c
  <2> QED
    BY <2>1, <2>2
<1>5. r \in 0 .. ONE
  BY <1>4, RatesAreSlow
<1> HIDE DEF c, r
<1>6. CASE window + 1 < Window
  <2>1. counts' = c /\ window' = window + 1 /\ factor' = factor /\ error' = error
    BY <1>1, <1>6 DEF c
  <2> QED
    BY <1>2, <1>3, <1>6, <2>1 DEF HomeInv, H!ScalingOnlyGrows
<1>7. CASE ~(window + 1 < Window)
  <2>1. counts' = [n \in Cells |-> 0] /\ window' = 0
    BY <1>1, <1>7
  <2>2. counts' \in [Cells -> 0 .. 0]
    BY <2>1
  <2>3. \/ factor' = factor /\ error' = error
        \/ /\ error' = TargetRate - r
           /\ factor' = H!Clamp(factor + (TargetRate - r) \div 10,
                                MinFactor, MaxFactor)
    BY <1>1, <1>7 DEF c, r
  <2>4. PICK g \in Nat : g = (TargetRate - r) \div 10
    <3>1. PICK x \in Nat : x = TargetRate - r
      BY <1>5
    <3> QED
      BY <3>1
  <2>5. TargetRate - r \in Nat
    BY <1>5
  <2>6. /\ factor' \in Int /\ factor' <= MaxFactor /\ factor' >= factor
        /\ error' \in Nat
    BY <1>2, <2>3, <2>4, <2>5 DEF H!Clamp
  <2> QED
    BY <1>2, <2>1, <2>2, <2>6 DEF HomeInv, H!ScalingOnlyGrows
<1> QED
  BY <1>6, <1>7

\* The first entry of a pair stays the first.
LEMMA FirstStays ==
  ASSUME NEW t \in Seq([pair : Pairs, weight : Optima]),
         NEW r \in [pair : Pairs, weight : Optima], NEW p \in H!Guarded(t)
  PROVE  H!Optimum(Append(t, r), p) = H!Optimum(t, p)
<1> DEFINE is == {i \in DOMAIN t : t[i].pair = p}
           u == Append(t, r)
           js == {i \in DOMAIN u : u[i].pair = p}
           n == Len(t)
<1>1. /\ n \in Nat /\ DOMAIN t = 1 .. n /\ DOMAIN u = 1 .. n + 1
      /\ \A i \in 1 .. n : u[i] = t[i]
  OBVIOUS
<1>2. is \subseteq js /\ is \subseteq Nat /\ js \subseteq Nat /\ is # {}
  BY <1>1 DEF H!Guarded
<1>3. \A j \in js : j \in is \/ j = n + 1
  BY <1>1
<1>4. PICK k \in is : \A i \in is : k <= i
  BY <1>2, Least
<1>5. k \in Nat /\ k <= n
  BY <1>1
<1>6. H!Entry(t, p) = k
  <2> HIDE DEF is
  <2>1. \A i \in is : (\A j \in is : i <= j) <=> i = k
    BY <1>2, <1>4
  <2>2. H!Entry(t, p) = CHOOSE i \in is : \A j \in is : i <= j
    BY DEF H!Entry, is
  <2> QED
    BY <2>1, <2>2
<1>7. H!Entry(u, p) = k
  <2> HIDE DEF is, js, u, n
  <2>0. n \in Nat
    BY <1>1
  <2>1. ASSUME NEW j \in js PROVE k <= j
    <3>1. CASE j \in is
      BY <1>4, <3>1
    <3>2. CASE j = n + 1
      BY <1>5, <2>0, <3>2
    <3> QED
      BY <1>3, <3>1, <3>2
  <2>2. \A i \in js : (\A j \in js : i <= j) <=> i = k
    BY <1>2, <1>4, <2>1
  <2>3. H!Entry(u, p) = CHOOSE i \in js : \A j \in js : i <= j
    BY DEF H!Entry, js
  <2>4. k \in js
    BY <1>2, <1>4
  <2> QED
    BY <2>2, <2>3, <2>4
<1>8. u[k] = t[k]
  BY <1>1
<1> QED
  BY <1>6, <1>7, <1>8 DEF H!Optimum

\* Every call of homeostasis.rs and continual.rs.
LEMMA HomeKeeps ==
  HomeInv /\ H!HomeNext => HomeInv' /\ H!ScalingOnlyGrows /\ H!FirstOptimumStays
<1> SUFFICES ASSUME HomeInv, H!HomeNext
             PROVE  HomeInv' /\ H!ScalingOnlyGrows /\ H!FirstOptimumStays
  OBVIOUS
<1>1. UNCHANGED protected => H!FirstOptimumStays
  BY DEF H!FirstOptimumStays
<1>2. CASE H!Step /\ UNCHANGED protected
  BY <1>1, <1>2, StepGrows
<1>3. CASE UNCHANGED <<counts, window, factor, error>> /\ UNCHANGED protected
  BY <1>1, <1>3 DEF HomeInv, H!ScalingOnlyGrows
<1>4. CASE H!Protect /\ UNCHANGED <<counts, window, factor, error>>
  <2>1. H!ScalingOnlyGrows
    BY <1>4 DEF HomeInv, H!ScalingOnlyGrows
  <2>2. CASE UNCHANGED protected
    BY <1>1, <1>3, <1>4, <2>2
  <2>3. CASE ~UNCHANGED protected
    <3>1. PICK p \in Pairs, w \in Optima :
            protected' = Append(protected, [pair |-> p, weight |-> w])
      BY <1>4, <2>3 DEF H!Protect
    <3>2. PICK r \in [pair : Pairs, weight : Optima] :
            protected' = Append(protected, r)
      BY <3>1
    <3>3. protected \in Seq([pair : Pairs, weight : Optima])
      BY DEF HomeInv
    <3>4. HomeInv'
      BY <1>4, <3>2, <3>3 DEF HomeInv
    <3>5. H!FirstOptimumStays
      BY <3>2, <3>3, FirstStays DEF H!FirstOptimumStays
    <3> QED
      BY <2>1, <3>4, <3>5
  <2> QED
    BY <2>2, <2>3
<1> QED
  BY <1>2, <1>3, <1>4
     DEF H!HomeNext, H!Compensate, H!Tune, H!learnVars, H!scaleVars

\* Whatever the size of the network, the window and the table.
LEMMA HomeInvariant ==
  LearnSpec => []HomeInv
               /\ [][H!ScalingOnlyGrows /\ H!FirstOptimumStays]_balance
<1>1. LearnInit => HomeInv
  BY HomeStarts DEF LearnInit
<1>2. HomeInv /\ [LearnNext]_learnVars
        => HomeInv' /\ [H!ScalingOnlyGrows /\ H!FirstOptimumStays]_balance
  <2>1. HomeInv /\ UNCHANGED balance => HomeInv'
    BY DEF balance, HomeInv
  <2> QED
    BY <2>1, HomeKeeps DEF LearnNext, Still, learnVars, balance
<1> QED
  BY <1>1, <1>2, PTL DEF LearnSpec

\* For every size of the network, window and table: a window counts no more
\* spikes of a neuron than it has had steps, so no count outlives its window,
\* and the optimum a protected pair is pulled to never moves.
THEOREM BalanceIsKept == LearnSpec => BalanceHolds
<1>1. HomeInv => H!CountsFitWindow
  BY HomeSizes DEF HomeInv, H!CountsFitWindow
<1> QED
  BY <1>1, HomeInvariant, PTL
     DEF BalanceHolds, H!BalanceHolds, H!homeVars, balance

\* A finding, for every target of at least one spike a step: the factor never
\* falls, because a rate in spikes per update is compared with one in spikes
\* per second.
THEOREM ScalingNeverCalms == LearnSpec => [][H!ScalingOnlyGrows]_balance
BY HomeInvariant, PTL
------------------------------------------------------------------------------
(* The training run.                                                       *)

\* The assumptions on the stream, one by one.
LEMMA TrainingSizes ==
  /\ Tokens \in Nat /\ SeqLen \in Nat \ {0} /\ PoolSize \in Nat \ {0}
  /\ MaxEpoch \in Nat /\ Levels \in Nat
BY TrainingAssumption

\* The samples are the multiples of their length below a bound.
LEMMA SamplesInOrder ==
  \E K \in Nat : /\ K * SeqLen \in 0 .. Tokens
                 /\ \A k \in Nat : k < K => k * SeqLen \in T!Sample
                 /\ \A s \in T!Sample : \E k \in 0 .. K - 1 : s = k * SeqLen
<1> DEFINE L == SeqLen
           N == IF Tokens = 0 THEN 0 ELSE Tokens - 1
           K == N \div L
<1>1. L \in Nat /\ L > 0 /\ Tokens \in Nat /\ N \in Nat /\ N <= Tokens
  BY TrainingSizes
<1> HIDE DEF N, L
<1>2. K \in Nat /\ K * L <= N /\ N < K * L + L /\ K * L \in Nat
  <2>1. K \in Nat /\ N % L \in 0 .. L - 1 /\ N % L = N - L * K
    BY <1>1
  <2> HIDE DEF K
  <2>2. L * K = K * L /\ K * L \in Nat
    BY <1>1, <2>1
  <2> QED
    BY <1>1, <2>1, <2>2
<1> HIDE DEF K
<1>3. ASSUME NEW k \in Nat
      PROVE  /\ k * L \in Nat
             /\ k < K => k * L + L <= K * L
             /\ k >= K => k * L >= K * L
  <2>1. PICK d \in Int : d = K - k
    BY <1>2
  <2>2. K * L = k * L + d * L /\ k * L \in Nat /\ d * L \in Int
    BY <1>1, <1>2, <2>1
  <2>3. (d >= 1 => d * L >= L) /\ (d <= 0 => d * L <= 0)
    BY <1>1
  <2> QED
    BY <1>1, <1>2, <2>1, <2>2, <2>3
<1>4. ASSUME NEW k \in Nat, k < K PROVE k * L \in T!Sample
  <2>1. k * L + L + 1 <= Tokens /\ k * L \in 0 .. Tokens
    BY <1>1, <1>2, <1>3, <1>4 DEF N
  <2>2. (k * L) % L = 0
    BY <1>1
  <2> QED
    BY <2>1, <2>2 DEF T!Sample, L
<1>5. ASSUME NEW s \in T!Sample PROVE \E k \in 0 .. K - 1 : s = k * L
  <2>1. s \in Nat /\ s % L = 0 /\ s + L + 1 <= Tokens
    BY <1>1 DEF T!Sample, L
  <2>2. PICK k \in Nat : k = s \div L
    BY <1>1, <2>1
  <2>3. s = k * L
    BY <1>1, <2>1, <2>2
  <2>4. k < K
    <3>1. s + L <= N
      BY <1>1, <2>1 DEF N
    <3> QED
      BY <1>1, <1>2, <1>3, <2>1, <2>3, <3>1
  <2> QED
    BY <1>2, <2>2, <2>3, <2>4
<1>6. K * L \in 0 .. Tokens
  BY <1>1, <1>2
<1> QED
  BY <1>2, <1>4, <1>5, <1>6 DEF L

\* The starts of samples, by their number.
LEMMA SamplesApart ==
  ASSUME NEW i \in Nat, NEW j \in Nat
  PROVE  /\ i * SeqLen \in Nat
         /\ i < j <=> i * SeqLen < j * SeqLen
         /\ i <= j => i * SeqLen <= j * SeqLen
         /\ (i + j) * SeqLen = i * SeqLen + j * SeqLen
<1>1. SeqLen \in Nat /\ SeqLen > 0
  BY TrainingSizes
<1>2. PICK d \in Int : d = j - i
  OBVIOUS
<1>3. j * SeqLen = i * SeqLen + d * SeqLen /\ i * SeqLen \in Nat /\ d * SeqLen \in Int
  BY <1>1, <1>2
<1>4. (d >= 1 => d * SeqLen >= SeqLen) /\ (d <= 0 => d * SeqLen <= 0)
  BY <1>1
<1>5. (i + j) * SeqLen = i * SeqLen + j * SeqLen
  BY <1>1
<1> QED
  BY <1>1, <1>2, <1>3, <1>4, <1>5

\* Both modules take cardinality from FiniteSets.
LEMMA TSize == \A X : T!Cardinality(X) = Cardinality(X)
BY DEF Cardinality, T!Cardinality

\* What a refill takes, and where it leaves the cursor.
LEMMA RefillTakes ==
  ASSUME NEW c \in Nat, cursor = c * SeqLen, cursor <= Tokens
  PROVE  \E d \in Nat :
           LET end == d * SeqLen IN
           /\ end \in cursor .. Tokens
           /\ T!Refill = {s \in T!Sample : cursor <= s /\ s < end}
           /\ cursor + T!Cardinality(T!Refill) * SeqLen = end
           /\ T!Refill = {} => \A s \in T!Sample : s < cursor
<1> DEFINE L == SeqLen
           P == PoolSize
<1>1. L \in Nat /\ L > 0 /\ Tokens \in Nat /\ P \in Nat /\ P > 0
  BY TrainingSizes
<1>2. PICK K \in Nat : /\ K * L \in 0 .. Tokens
                       /\ \A k \in Nat : k < K => k * L \in T!Sample
                       /\ \A s \in T!Sample : \E k \in 0 .. K - 1 : s = k * L
  BY SamplesInOrder
<1>3. PICK d \in Nat : d = IF c >= K THEN c ELSE IF c + P <= K THEN c + P ELSE K
  BY <1>1
<1> DEFINE taken == c .. d - 1
           R == {s \in T!Sample : cursor <= s /\ s < d * L}
<1>4. c <= d /\ d * L \in cursor .. Tokens
  <2>1. c <= d /\ (d = c \/ d <= K)
    BY <1>1, <1>3
  <2>2. c * L <= d * L /\ (d <= K => d * L <= K * L) /\ d * L \in Nat /\ c * L \in Nat
    <3>1. c * L <= d * L
      BY <2>1, SamplesApart
    <3>2. d <= K => d * L <= K * L
      BY SamplesApart
    <3>3. d * L \in Nat /\ c * L \in Nat
      BY SamplesApart
    <3> QED
      BY <3>1, <3>2, <3>3
  <2> QED
    BY <1>1, <1>2, <2>1, <2>2
<1>5. cursor + P * L = (c + P) * L
  BY <1>1, SamplesApart
<1>6. T!Refill = R
  <2>1. ASSUME NEW s \in T!Sample, cursor <= s
        PROVE  s < cursor + P * L <=> s < d * L
    <3>1. PICK k \in 0 .. K - 1 : s = k * L
      BY <1>2
    <3>2. k \in Nat /\ c + P \in Nat
      BY <1>1, <1>2
    <3>3. ~(k < c)
      <4>1. k < c => k * L < c * L
        BY <3>2, SamplesApart
      <4>2. k * L \in Nat /\ c * L \in Nat
        BY <3>2, SamplesApart
      <4> QED
        BY <2>1, <3>1, <4>1, <4>2
    <3>4. k < c + P <=> k < d
      BY <1>1, <1>3, <3>2, <3>3
    <3>5. (s < (c + P) * L <=> k < c + P) /\ (s < d * L <=> k < d)
      BY <3>1, <3>2, SamplesApart
    <3> QED
      BY <1>5, <3>4, <3>5
  <2> QED
    BY <2>1 DEF T!Refill
<1>7. \A k \in taken : k \in Nat /\ k * L \in R
  <2> SUFFICES ASSUME NEW k \in taken PROVE k \in Nat /\ k * L \in R
    OBVIOUS
  <2>1. k \in Nat /\ c <= k /\ k < d /\ k < K
    BY <1>1, <1>3
  <2>2. k * L \in T!Sample /\ k * L < d * L
    BY <1>2, <2>1, SamplesApart
  <2>3. cursor <= k * L
    BY <2>1, SamplesApart
  <2> QED
    BY <2>1, <2>2, <2>3
<1>8. \A s \in R : \E k \in taken : s = k * L
  <2> SUFFICES ASSUME NEW s \in R PROVE \E k \in taken : s = k * L
    OBVIOUS
  <2>1. PICK k \in 0 .. K - 1 : s = k * L
    BY <1>2
  <2>2. k \in Nat
    BY <1>2
  <2>3. k < d /\ ~(k < c)
    <3>1. (k < d <=> k * L < d * L) /\ (k < c <=> k * L < c * L)
      BY <2>2, SamplesApart
    <3>2. k * L < d * L /\ c * L <= k * L /\ k * L \in Nat /\ c * L \in Nat
      BY <2>1, <2>2, SamplesApart
    <3> QED
      BY <3>1, <3>2
  <2> QED
    BY <2>1, <2>2, <2>3
<1>9. T!Cardinality(T!Refill) = d - c
  <2> DEFINE f == [k \in taken |-> k * L]
  <2>1. f \in [taken -> R]
    BY <1>7
  <2>2. ASSUME NEW j \in taken, NEW k \in taken, f[j] = f[k] PROVE j = k
    <3>1. j \in Nat /\ k \in Nat /\ j * L = k * L
      BY <1>7, <2>2
    <3>2. (j < k <=> j * L < k * L) /\ (k < j <=> k * L < j * L)
      BY <3>1, SamplesApart
    <3>3. j * L \in Nat /\ k * L \in Nat
      BY <3>1, SamplesApart
    <3> QED
      BY <3>1, <3>2, <3>3
  <2>3. \A s \in R : \E k \in taken : f[k] = s
    BY <1>8
  <2> HIDE DEF f, taken, R
  <2>4. f \in Bijection(taken, R)
    <3>1. DOMAIN f = taken
      BY <2>1
    <3> QED
      BY <2>1, <2>2, <2>3, <3>1 DEF Bijection, Injection, IsInjective, Surjection
  <2>5. IsFiniteSet(taken) /\ Cardinality(taken) = d - c
    <3>1. c \in Int /\ d - 1 \in Int
      OBVIOUS
    <3>2. /\ IsFiniteSet(c .. d - 1)
          /\ Cardinality(c .. d - 1) = IF c > d - 1 THEN 0 ELSE (d - 1) - c + 1
      BY <3>1, FS_Interval
    <3> QED
      BY <1>4, <3>2 DEF taken
  <2> QED
    BY <1>6, <2>4, <2>5, FS_Bijection, TSize DEF ExistsBijection
<1>10. cursor + T!Cardinality(T!Refill) * L = d * L
  <2>1. PICK e \in Nat : e = d - c
    BY <1>4
  <2>2. (c + e) * L = c * L + e * L
    BY <2>1, SamplesApart
  <2>3. c + e = d
    BY <2>1
  <2> QED
    BY <1>9, <2>1, <2>2, <2>3
<1>11. T!Refill = {} => \A s \in T!Sample : s < cursor
  <2> SUFFICES ASSUME T!Refill = {}, NEW s \in T!Sample PROVE s < cursor
    OBVIOUS
  <2>1. d <= c
    <3>1. c \notin taken
      BY <1>6, <1>7
    <3> QED
      BY <3>1
  <2>2. c >= K
    BY <1>1, <1>3, <2>1
  <2>3. PICK k \in 0 .. K - 1 : s = k * L
    BY <1>2
  <2>4. k \in Nat /\ k < c
    BY <1>2, <2>2
  <2> QED
    BY <2>3, <2>4, SamplesApart
<1> QED
  BY <1>4, <1>6, <1>10, <1>11 DEF L, R

\* The cursor stands between two samples; the samples before it have been
\* trained on or wait in the pool.
Underway ==
  /\ \E c \in Nat : cursor = c * SeqLen
  /\ \A s \in pool : s < cursor
  /\ stage = "train" =>
       \A s \in T!Sample : passes[s] = IF s < cursor /\ s \notin pool THEN 1 ELSE 0

\* A model is saved in its epoch's last step, and what is saved is the best.
Saves ==
  /\ \A h \in held : h.at <= epoch /\ (stage # "idle" => h.at < epoch)
  /\ stage = "save" => \E l \in Loss : eval = {l} /\ best = {l}
  /\ stage # "idle" => epoch >= 1

TrainInv ==
  /\ T!TypeOK /\ Underway /\ T!PassIsExact /\ T!BestIsKept /\ Saves

\* A new run has trained on nothing and saved nothing.
LEMMA TrainingStarts == T!Init => TrainInv
<1> SUFFICES ASSUME T!Init PROVE TrainInv
  OBVIOUS
<1>1. /\ stage = "idle" /\ epoch = 0 /\ best = {} /\ cursor = 0 /\ pool = {}
      /\ scale = 0 /\ eval = {} /\ passes = [s \in T!Sample |-> 0] /\ held = {}
      /\ file = [s \in T!FileSlot |-> {}]
  BY DEF T!Init
<1>2. 0 \in Nat /\ 0 = 0 * SeqLen
  BY TrainingSizes
<1>3. T!TypeOK
  <2>1. passes \in [T!Sample -> Nat] /\ file \in [T!FileSlot -> SUBSET Loss]
    BY <1>1
  <2>2. 0 \in 0 .. MaxEpoch /\ 0 \in 0 .. Tokens /\ 0 \in 0 .. Levels
    BY TrainingSizes
  <2> QED
    BY <1>1, <2>1, <2>2 DEF T!TypeOK
<1>4. Underway /\ T!PassIsExact /\ T!BestIsKept /\ Saves
  BY <1>1, <1>2 DEF Underway, T!PassIsExact, T!BestIsKept, Saves
<1> QED
  BY <1>1, <1>3, <1>4 DEF TrainInv

\* run_epoch resets the source.
LEMMA BeginKeeps == TrainInv /\ T!BeginEpoch => TrainInv'
<1> SUFFICES ASSUME TrainInv, T!BeginEpoch PROVE TrainInv'
  OBVIOUS
<1>1. /\ epoch < MaxEpoch /\ stage' = "train" /\ epoch' = epoch + 1 /\ cursor' = 0
      /\ pool' = {} /\ passes' = [s \in T!Sample |-> 0]
      /\ UNCHANGED <<best, scale, eval, file, held>>
  BY DEF T!BeginEpoch
<1>2. T!TypeOK /\ T!BestIsKept /\ Saves
  BY DEF TrainInv
<1>3. T!TypeOK'
  BY <1>1, <1>2, TrainingSizes DEF T!TypeOK
<1>4. T!BestIsKept' /\ Saves'
  <2>1. epoch \in Nat /\ \A h \in held : h.at \in Nat
    BY <1>2, TrainingSizes DEF T!TypeOK
  <2> QED
    BY <1>1, <1>2, <2>1 DEF T!BestIsKept, Saves
<1>5. 0 \in Nat /\ 0 = 0 * SeqLen
  BY TrainingSizes
<1>6. Underway' /\ T!PassIsExact'
  <2>1. \A s \in T!Sample : s >= 0 /\ s \in Nat
    BY TrainingSizes DEF T!Sample
  <2> QED
    BY <1>1, <1>5, <2>1 DEF Underway, T!PassIsExact
<1> QED
  BY <1>1, <1>3, <1>4, <1>6 DEF TrainInv

\* next_batch: what leaves the pool is trained on once more.
LEMMA BatchKeeps == TrainInv /\ T!Batch => TrainInv'
<1> SUFFICES ASSUME TrainInv, T!Batch PROVE TrainInv'
  OBVIOUS
<1> DEFINE D == T!Drawn(pool)
<1>1. PICK b \in SUBSET D, noisy \in BOOLEAN :
        /\ stage = "train" /\ pool' = D \ b
        /\ passes' = [s \in T!Sample |-> IF s \in b THEN passes[s] + 1
                                                    ELSE passes[s]]
        /\ scale' = T!Tuned(noisy)
        /\ cursor' = IF pool = {} THEN cursor + T!Cardinality(T!Refill) * SeqLen
                                  ELSE cursor
        /\ UNCHANGED <<stage, epoch, best, eval, file, held>>
  BY DEF T!Batch
<1>2. /\ T!TypeOK /\ Underway /\ T!BestIsKept /\ Saves
  BY DEF TrainInv
<1>3. /\ cursor \in Nat /\ cursor <= Tokens /\ Tokens \in Nat
      /\ \A s \in T!Sample : s \in Nat
  BY <1>2, TrainingSizes DEF T!TypeOK, T!Sample
<1>4. PICK c \in Nat : cursor = c * SeqLen
  BY <1>2 DEF Underway
<1>5. PICK d \in Nat :
        /\ d * SeqLen \in cursor .. Tokens
        /\ T!Refill = {s \in T!Sample : cursor <= s /\ s < d * SeqLen}
        /\ cursor + T!Cardinality(T!Refill) * SeqLen = d * SeqLen
  BY <1>3, <1>4, RefillTakes
<1> DEFINE end == IF pool = {} THEN d * SeqLen ELSE cursor
<1>6. end \in cursor .. Tokens /\ \E e \in Nat : end = e * SeqLen
  BY <1>3, <1>4, <1>5
<1>7. cursor' = end
  BY <1>1, <1>5
<1>8. /\ D \subseteq T!Sample
      /\ \A s \in D : s < end
      /\ \A s \in T!Sample : s < end /\ s \notin D <=> s < cursor /\ s \notin pool
  <2>1. CASE pool = {}
    <3>1. D = {s \in T!Sample : cursor <= s /\ s < end} /\ end = d * SeqLen
      BY <1>5, <2>1 DEF T!Drawn
    <3> HIDE DEF D, end
    <3> QED
      BY <1>3, <1>6, <2>1, <3>1
  <2>2. CASE pool # {}
    <3>1. D = pool /\ end = cursor
      BY <2>2 DEF T!Drawn
    <3> QED
      BY <1>2, <3>1 DEF Underway, T!TypeOK
  <2> QED
    BY <2>1, <2>2
<1> HIDE DEF D, end
<1>9. passes \in [T!Sample -> Nat] /\ end \in Nat
  BY <1>2, <1>6, <1>3 DEF T!TypeOK
<1>10. \A s \in T!Sample :
         passes[s] = IF s < end /\ s \notin D THEN 1 ELSE 0
  BY <1>1, <1>2, <1>8 DEF Underway
<1>11. \A s \in T!Sample :
         passes'[s] = IF s < end /\ s \notin pool' THEN 1 ELSE 0
  <2> SUFFICES ASSUME NEW s \in T!Sample
               PROVE  passes'[s] = IF s < end /\ s \notin pool' THEN 1 ELSE 0
    OBVIOUS
  <2>1. CASE s \in b
    BY <1>1, <1>8, <1>10, <2>1
  <2>2. CASE s \notin b
    <3>1. passes'[s] = passes[s] /\ (s \in D <=> s \in pool')
      BY <1>1, <2>2
    <3> QED
      BY <1>10, <3>1
  <2> QED
    BY <2>1, <2>2
<1>12. Underway'
  BY <1>1, <1>6, <1>7, <1>8, <1>11 DEF Underway
<1>13. T!PassIsExact'
  BY <1>1, <1>11 DEF T!PassIsExact
<1>14. T!TypeOK'
  <2>1. passes' \in [T!Sample -> Nat]
    BY <1>1, <1>9
  <2>2. pool' \subseteq T!Sample
    BY <1>1, <1>8
  <2>3. scale' \in 0 .. Levels
    BY <1>1, <1>2, TrainingSizes DEF T!Tuned, T!TypeOK
  <2>4. cursor' \in 0 .. Tokens
    BY <1>3, <1>6, <1>7
  <2> QED
    BY <1>1, <1>2, <2>1, <2>2, <2>3, <2>4 DEF T!TypeOK
<1>15. T!BestIsKept' /\ Saves'
  BY <1>1, <1>2 DEF T!BestIsKept, Saves
<1> QED
  BY <1>1, <1>12, <1>13, <1>14, <1>15 DEF TrainInv

\* The pass ends when a refill finds no sample.
LEMMA EndPassKeeps == TrainInv /\ T!EndPass => TrainInv'
<1> SUFFICES ASSUME TrainInv, T!EndPass PROVE TrainInv'
  OBVIOUS
<1>1. /\ stage = "train" /\ T!Drawn(pool) = {} /\ stage' = "evaluate"
      /\ UNCHANGED <<epoch, best, cursor, pool, scale, eval, file, passes, held>>
  BY DEF T!EndPass
<1>2. T!TypeOK /\ Underway /\ T!BestIsKept /\ T!PassIsExact /\ Saves
  BY DEF TrainInv
<1>3. pool = {} /\ T!Refill = {}
  BY <1>1 DEF T!Drawn
<1>4. cursor <= Tokens /\ \E c \in Nat : cursor = c * SeqLen
  BY <1>2, TrainingSizes DEF T!TypeOK, Underway
<1>5. \A s \in T!Sample : s < cursor
  BY <1>3, <1>4, RefillTakes
<1>6. \A s \in T!Sample : passes[s] = 1
  BY <1>1, <1>2, <1>3, <1>5 DEF Underway
<1>7. T!TypeOK'
  BY <1>1, <1>2 DEF T!TypeOK
<1>8. Underway' /\ T!BestIsKept' /\ T!PassIsExact' /\ Saves'
  BY <1>1, <1>2, <1>6 DEF Underway, T!BestIsKept, T!PassIsExact, Saves
<1> QED
  BY <1>1, <1>7, <1>8 DEF TrainInv

\* A model that is better than the best is the one to be saved.
LEMMA EvaluateKeeps == TrainInv /\ T!Evaluate => TrainInv'
<1> SUFFICES ASSUME TrainInv, T!Evaluate PROVE TrainInv'
  OBVIOUS
<1>1. /\ stage = "evaluate"
      /\ UNCHANGED <<epoch, cursor, pool, scale, file, passes, held>>
  BY DEF T!Evaluate
<1>2. T!TypeOK /\ Underway /\ T!BestIsKept /\ T!PassIsExact /\ Saves
  BY DEF TrainInv
<1>3. \/ stage' = "idle" /\ best' \subseteq Loss /\ UNCHANGED eval
      \/ stage' = "save" /\ \E l \in Loss : eval' = {l} /\ best' = {l}
  BY <1>2 DEF T!Evaluate, T!Saved, T!TypeOK
<1>4. T!TypeOK'
  BY <1>1, <1>2, <1>3 DEF T!TypeOK
<1>5. Underway' /\ T!PassIsExact'
  BY <1>1, <1>2, <1>3 DEF Underway, T!PassIsExact
<1>6. T!BestIsKept' /\ Saves'
  BY <1>1, <1>2, <1>3 DEF T!BestIsKept, Saves
<1> QED
  BY <1>4, <1>5, <1>6 DEF TrainInv

\* save_checkpoint, to its end or not, overwrites the file of its epoch, which
\* is also that of the third epoch before.
LEMMA SaveKeeps == TrainInv /\ (T!Save \/ T!SaveFails) => TrainInv'
<1> SUFFICES ASSUME TrainInv, T!Save \/ T!SaveFails PROVE TrainInv'
  OBVIOUS
<1>1. T!TypeOK /\ Underway /\ T!BestIsKept /\ T!PassIsExact /\ Saves
  BY DEF TrainInv
<1>2. /\ stage = "save" /\ stage' = "idle" /\ eval' = {}
      /\ UNCHANGED <<epoch, best, cursor, pool, scale, passes>>
  BY DEF T!Save, T!SaveFails
<1>3. /\ T!Slot = epoch % 3 /\ T!Slot \in T!FileSlot
      /\ epoch \in Nat /\ epoch <= MaxEpoch /\ MaxEpoch \in Nat
      /\ file \in [T!FileSlot -> SUBSET Loss]
  BY <1>1, TrainingSizes DEF T!Slot, T!FileSlot, T!TypeOK
<1>4. ASSUME NEW h \in held
      PROVE  /\ h.at \in 1 .. MaxEpoch /\ h.at < epoch /\ h.at % 3 \in T!FileSlot
             /\ h.at % 3 = epoch % 3 => h.at + 3 <= epoch
  <2>1. h.at \in 1 .. MaxEpoch /\ h.at < epoch
    BY <1>1, <1>2 DEF T!TypeOK, Saves
  <2>2. PICK a \in Nat : a = h.at
    BY <2>1, <1>3
  <2>3. a < epoch /\ (a % 3 = epoch % 3 => a + 3 <= epoch)
    BY <1>3, <2>1, <2>2
  <2> QED
    BY <2>1, <2>2, <2>3 DEF T!FileSlot
<1>5. CASE T!SaveFails
  <2>1. PICK rest \in {file[T!Slot], {}} : file' = [file EXCEPT ![T!Slot] = rest]
    BY <1>5 DEF T!SaveFails
  <2>2. held' = held
    BY <1>5 DEF T!SaveFails
  <2>3. T!TypeOK'
    BY <1>1, <1>2, <1>3, <2>1, <2>2 DEF T!TypeOK
  <2>4. Underway' /\ T!PassIsExact' /\ Saves'
    BY <1>1, <1>2, <2>2 DEF Underway, T!PassIsExact, Saves
  <2>5. T!BestIsKept'
    <3> SUFFICES ASSUME NEW h \in held
                 PROVE  \/ file'[h.at % 3] = {h.loss}
                        \/ file'[h.at % 3] = {} /\ h.at + 3 <= epoch
      BY <1>2, <2>2 DEF T!BestIsKept
    <3>1. \/ file[h.at % 3] = {h.loss}
          \/ file[h.at % 3] = {} /\ h.at + 3 <= epoch
      BY <1>1 DEF T!BestIsKept
    <3>2. CASE h.at % 3 = epoch % 3
      BY <1>3, <1>4, <2>1, <3>1, <3>2
    <3>3. CASE h.at % 3 # epoch % 3
      BY <1>3, <1>4, <2>1, <3>1, <3>3
    <3> QED
      BY <3>2, <3>3
  <2> QED
    BY <2>3, <2>4, <2>5 DEF TrainInv
<1>6. CASE T!Save
  <2>1. PICK l \in Loss : eval = {l} /\ best = {l}
    BY <1>1, <1>2 DEF Saves
  <2>2. /\ file' = [file EXCEPT ![T!Slot] = {l}]
        /\ held' = [loss : {l}, at : {epoch}]
    BY <1>6, <2>1 DEF T!Save
  <2>3. \A h \in held' : h.loss = l /\ h.at = epoch
    BY <2>2
  <2>4. epoch \in 1 .. MaxEpoch
    BY <1>1, <1>2, <1>3 DEF Saves
  <2>5. T!TypeOK'
    <3>1. file' \in [T!FileSlot -> SUBSET Loss]
      BY <1>3, <2>2
    <3>2. held' \subseteq [loss : Loss, at : 1 .. MaxEpoch]
      BY <2>2, <2>4
    <3> QED
      BY <1>1, <1>2, <3>1, <3>2 DEF T!TypeOK
  <2>6. Underway' /\ T!PassIsExact' /\ Saves'
    BY <1>1, <1>2, <1>3, <2>3 DEF Underway, T!PassIsExact, Saves
  <2>7. T!BestIsKept'
    BY <1>2, <1>3, <2>2, <2>3 DEF T!BestIsKept
  <2> QED
    BY <2>5, <2>6, <2>7 DEF TrainInv
<1> QED
  BY <1>5, <1>6

\* A new process knows of no best model.
LEMMA CrashKeeps == TrainInv /\ T!Crash => TrainInv'
<1> SUFFICES ASSUME TrainInv, T!Crash PROVE TrainInv'
  OBVIOUS
<1>1. /\ stage' = "idle" /\ epoch' = 0 /\ best' = {} /\ cursor' = 0 /\ pool' = {}
      /\ scale' = 0 /\ eval' = {} /\ passes' = [s \in T!Sample |-> 0] /\ held' = {}
      /\ file' \in {file, [file EXCEPT ![T!Slot] = {}]}
  BY DEF T!Crash
<1>2. T!TypeOK
  BY DEF TrainInv
<1>3. T!Slot \in T!FileSlot
  BY <1>2, TrainingSizes DEF T!Slot, T!FileSlot, T!TypeOK
<1>4. file' \in [T!FileSlot -> SUBSET Loss]
  BY <1>1, <1>2, <1>3 DEF T!TypeOK
<1>5. 0 \in Nat /\ 0 = 0 * SeqLen
  BY TrainingSizes
<1>6. T!TypeOK'
  <2>1. passes' \in [T!Sample -> Nat]
    BY <1>1
  <2>2. 0 \in 0 .. MaxEpoch /\ 0 \in 0 .. Tokens /\ 0 \in 0 .. Levels
    BY TrainingSizes
  <2> QED
    BY <1>1, <1>4, <2>1, <2>2 DEF T!TypeOK
<1>7. Underway' /\ T!PassIsExact' /\ T!BestIsKept' /\ Saves'
  BY <1>1, <1>5 DEF Underway, T!PassIsExact, T!BestIsKept, Saves
<1> QED
  BY <1>1, <1>6, <1>7 DEF TrainInv

\* For every stream, length of sample and pool: an epoch trains on each sample
\* exactly once, and a saved best model is in its file for two more epochs
\* whatever saves come to, and never replaced there by a worse one (run_epoch,
\* save_checkpoint).
THEOREM TrainingIsExact == LearnSpec => []TrainingHolds
<1>1. LearnInit => TrainInv
  BY TrainingStarts DEF LearnInit
<1>2. TrainInv /\ [LearnNext]_learnVars => TrainInv'
  <2> SUFFICES ASSUME TrainInv, [LearnNext]_learnVars PROVE TrainInv'
    OBVIOUS
  <2>1. CASE T!Next
    BY <2>1, BeginKeeps, BatchKeeps, EndPassKeeps, EvaluateKeeps, SaveKeeps,
       CrashKeeps DEF T!Next
  <2>2. CASE UNCHANGED training
    BY <2>2 DEF training, TrainInv, T!TypeOK, Underway, T!PassIsExact, T!BestIsKept,
       Saves
  <2> QED
    BY <2>1, <2>2 DEF LearnNext, Still, learnVars, training
<1>3. TrainInv => TrainingHolds
  BY DEF TrainInv, TrainingHolds
<1> QED
  BY <1>1, <1>2, <1>3, PTL DEF LearnSpec

(* The two sets of learning rules.                                         *)

\* The assumptions on the rules, one by one.
LEMMA RuleSizes ==
  /\ Unit \in Nat \ {0} /\ Fine \in Nat \ {0} /\ Tau \in Nat \ {0} /\ MaxAge \in Nat \ {0}
  /\ TopTrace \in Nat /\ ClampW \in Nat /\ TopW \in Nat
  /\ \A a \in Amps : a \in Nat
  /\ \A r \in Rewards : r \in Nat
  /\ \A w \in Newborn : w \in Int
  /\ \A l \in Links : l[1] \in Spiking /\ l[2] \in Spiking
  /\ Delay \in Nat /\ ClampE \in Nat /\ MaxWeight \in Nat /\ TopCalcium \in Nat
BY WeightAssumption, RuleAssumption

\* A fraction of a product of naturals is one.
LEMMA FractionNat ==
  ASSUME NEW a \in Nat, NEW b \in Nat, NEW d \in Nat \ {0}
  PROVE  (a * b) \div d \in Nat
<1>1. PICK p \in Nat : p = a * b
  OBVIOUS
<1>2. p \div d \in Nat
  OBVIOUS
<1> QED
  BY <1>1, <1>2

\* A synapse: traces and amplitudes are not negative.
SoundSynapse(x) ==
  /\ x = [w |-> x.w, plastic |-> x.plastic, pre |-> x.pre, post |-> x.post,
          amp |-> x.amp, silence |-> x.silence, age |-> x.age]
  /\ x.w \in Int /\ x.pre \in Nat /\ x.post \in Nat /\ x.amp \in Nat
  /\ x.age \in Nat
LifeInv == SoundSynapse(synapse) /\ time \in Nat /\ rate \in Nat

\* A new synapse and a dead one.
LEMMA FreshSound ==
  /\ \A w \in Int : SoundSynapse(W!Fresh(w))
  /\ SoundSynapse(W!Dead)
<1>1. \A w \in Int : SoundSynapse(W!Fresh(w))
  <2> TAKE w \in Int
  <2>1. PICK r : r = W!Fresh(w)
    OBVIOUS
  <2>2. r = [w |-> w, plastic |-> TRUE, pre |-> 0, post |-> 0, amp |-> 1,
             silence |-> 0, age |-> 0]
    BY <2>1 DEF W!Fresh
  <2>3. SoundSynapse(r)
    BY <2>2 DEF SoundSynapse
  <2> QED
    BY <2>1, <2>3
<1>2. W!Dead = [w |-> 0, plastic |-> FALSE, pre |-> 0, post |-> 0, amp |-> 1,
                silence |-> 0, age |-> 0]
  <2>1. PICK r : r = W!Fresh(0)
    OBVIOUS
  <2>2. r = [w |-> 0, plastic |-> TRUE, pre |-> 0, post |-> 0, amp |-> 1,
             silence |-> 0, age |-> 0]
    BY <2>1 DEF W!Fresh
  <2>3. W!Dead = [r EXCEPT !.plastic = FALSE]
    BY <2>1 DEF W!Dead
  <2> QED
    BY <2>2, <2>3
<1>3. SoundSynapse(W!Dead)
  BY <1>2 DEF SoundSynapse
<1> QED
  BY <1>1, <1>3

\* So is what a step makes of a synapse,
LEMMA SteppedSound ==
  ASSUME NEW x, SoundSynapse(x), NEW amp \in Amps
  PROVE  SoundSynapse(W!Stepped(x, amp))
<1>1. PICK f \in Nat : f = Unit - Unit \div Tau
  <2>1. PICK u \in Nat \ {0}, d \in Nat \ {0} : u = Unit /\ d = Tau
    BY RuleSizes
  <2>2. u - u \div d \in Nat
    <3>1. PICK q \in Int : q = u \div d
      OBVIOUS
    <3>2. PICK m \in Int : m = d * q
      OBVIOUS
    <3>3. m <= u /\ q >= 0
      BY <3>1, <3>2
    <3>4. PICK e \in Nat : d = 1 + e
      <4>1. d - 1 \in Nat /\ d = 1 + (d - 1)
        OBVIOUS
      <4> QED
        BY <4>1
    <3>5. PICK y \in Nat : y = e * q
      BY <3>3
    <3>6. m = q + y
      BY <3>2, <3>4, <3>5
    <3> QED
      BY <3>1, <3>3, <3>6
  <2> QED
    BY <2>1, <2>2
<1>2. /\ x.pre \in Nat /\ x.post \in Nat /\ amp \in Nat
      /\ (x.pre * f) \div Unit \in Nat /\ (x.post * f) \div Unit \in Nat
  BY RuleSizes, FractionNat DEF SoundSynapse
<1>3. CASE ~x.plastic
  BY <1>3 DEF W!Stepped
<1>4. CASE x.plastic
  <2>1. W!Stepped(x, amp) =
          [w |-> x.w, plastic |-> x.plastic, pre |-> (x.pre * f) \div Unit,
           post |-> (x.post * f) \div Unit, amp |-> amp,
           silence |-> x.silence + 1, age |-> x.age]
    BY <1>1, <1>4 DEF W!Stepped, SoundSynapse
  <2> QED
    BY <1>2, <2>1 DEF SoundSynapse
<1> QED
  BY <1>3, <1>4

\* A weight is a number of its type.
LEMMA ToWeightInt ==
  ASSUME NEW x \in Int
  PROVE  W!ToWeight(x) \in Int
BY RuleSizes DEF W!ToWeight, W!Bounded

\* a maintenance,
LEMMA AgedSound ==
  ASSUME NEW x, SoundSynapse(x)
  PROVE  SoundSynapse(W!Aged(x))
<1>1. PICK age \in Nat : age = x.age + 1
  BY DEF SoundSynapse
<1>2. PICK progress \in Int : progress = (age * Unit) \div MaxAge
  BY <1>1, RuleSizes, FractionNat
<1>3. PICK f \in Int, g \in Int :
        f = Unit - (progress \div 2) /\ g = Unit - ((4 * progress) \div 5)
  BY RuleSizes
<1>4. PICK n \in Int : n = W!ToWeight(W!Times(x.w, f))
  <2>1. PICK y \in Int : y = x.w * Fine
    BY RuleSizes DEF SoundSynapse
  <2>2. PICK z \in Int : z = y * f
    OBVIOUS
  <2>3. W!Times(x.w, f) = z \div Unit /\ z \div Unit \in Int
    BY <2>1, <2>2, RuleSizes DEF W!Times
  <2> QED
    BY <2>3, ToWeightInt
<1>5. PICK m \in Nat : m = W!Bounded((x.amp * g) \div Unit, 1, x.amp)
  <2>1. PICK y \in Int : y = x.amp * g
    BY DEF SoundSynapse
  <2>2. PICK a \in Nat : a = x.amp
    BY DEF SoundSynapse
  <2>3. y \div Unit \in Int
    BY RuleSizes
  <2>4. W!Bounded(y \div Unit, 1, a) \in Nat
    BY <2>3 DEF W!Bounded
  <2> QED
    BY <2>1, <2>2, <2>4
<1>6. CASE ~x.plastic
  BY <1>6 DEF W!Aged
<1>7. CASE x.plastic /\ age >= MaxAge
  BY <1>1, <1>7, FreshSound DEF W!Aged
<1>8. CASE x.plastic /\ ~(age >= MaxAge)
  <2>1. W!Aged(x) = [x EXCEPT !.age = age, !.w = n, !.amp = m]
    BY <1>1, <1>2, <1>3, <1>4, <1>5, <1>8 DEF W!Aged
  <2>2. W!Aged(x) =
          [w |-> n, plastic |-> x.plastic, pre |-> x.pre,
           post |-> x.post, amp |-> m,
           silence |-> x.silence, age |-> age]
    BY <2>1 DEF SoundSynapse
  <2> QED
    BY <2>2 DEF SoundSynapse
<1> QED
  BY <1>6, <1>7, <1>8

\* and scaling.
LEMMA ScaledSound ==
  ASSUME NEW x, SoundSynapse(x), NEW f \in Int
  PROVE  SoundSynapse(W!Scaled(x, f))
<1>1. CASE x.plastic /\ x.w # 0
  <2>1. PICK y \in Int : y = x.w * Fine
    BY RuleSizes DEF SoundSynapse
  <2>2. PICK z \in Int : z = y * f
    OBVIOUS
  <2>3. W!Times(x.w, f) = z \div Unit /\ z \div Unit \in Int
    BY <2>1, <2>2, RuleSizes DEF W!Times
  <2>4. PICK n \in Int : n = W!ToWeight(W!Times(x.w, f))
    BY <2>3, ToWeightInt
  <2>5. W!Scaled(x, f) =
          [w |-> n, plastic |-> x.plastic, pre |-> x.pre,
           post |-> x.post, amp |-> x.amp,
           silence |-> x.silence, age |-> x.age]
    BY <1>1, <2>4 DEF W!Scaled, SoundSynapse
  <2> QED
    BY <2>5 DEF SoundSynapse
<1>2. CASE ~(x.plastic /\ x.w # 0)
  BY <1>2 DEF W!Scaled
<1> QED
  BY <1>1, <1>2

\* A step keeps it so, and never takes place without time going on.
LEMMA LifeStepKeeps ==
  ASSUME LifeInv, W!LifeStep
  PROVE  LifeInv' /\ time' # time
<1>1. PICK amp \in Amps :
        LET x == W!Stepped(synapse, amp) IN
        IF (time + 1) % Beat # 0 THEN synapse' = x
        ELSE \E y \in W!Reborn(W!Pruned(W!Aged(x))) :
               synapse' = W!Scaled(y, W!Scale(rate))
  BY DEF W!LifeStep
<1>2. PICK x : x = W!Stepped(synapse, amp)
  OBVIOUS
<1>3. SoundSynapse(x)
  BY <1>2, SteppedSound DEF LifeInv
<1>4. time' = time + 1 /\ time \in Nat /\ rate' \in Nat
  BY DEF W!LifeStep, LifeInv
<1>5. CASE synapse' = x
  BY <1>3, <1>4, <1>5 DEF LifeInv
<1>6. CASE \E y \in W!Reborn(W!Pruned(W!Aged(x))) :
             synapse' = W!Scaled(y, W!Scale(rate))
  <2>1. PICK y \in W!Reborn(W!Pruned(W!Aged(x))) :
          synapse' = W!Scaled(y, W!Scale(rate))
    BY <1>6
  <2>2. SoundSynapse(W!Pruned(W!Aged(x)))
    BY <1>3, AgedSound, FreshSound DEF W!Pruned
  <2>3. SoundSynapse(y)
    BY <2>1, <2>2, FreshSound, RuleSizes DEF W!Reborn
  <2>4. W!Scale(rate) \in Int
    <3>1. PICK r \in Nat \ {0} : r = IF rate = 0 THEN 1 ELSE rate
      BY DEF LifeInv
    <3>2. PICK n \in Int : n = (10 * Unit) * Unit
      BY RuleSizes
    <3>3. PICK q \in Int : q = n \div r
      OBVIOUS
    <3>4. PICK lo \in Int, hi \in Int : lo = Unit \div 2 /\ hi = 2 * Unit
      BY RuleSizes
    <3>5. W!Scale(rate) = W!Bounded(q, lo, hi)
      BY <3>1, <3>2, <3>3, <3>4 DEF W!Scale
    <3> QED
      BY <3>5 DEF W!Bounded
  <2>5. SoundSynapse(synapse')
    BY <2>1, <2>3, <2>4, ScaledSound
  <2> QED
    BY <1>4, <2>5 DEF LifeInv
<1> QED
  BY <1>1, <1>2, <1>5, <1>6


\* So is a clamped one.
LEMMA ClampedInt ==
  ASSUME NEW x \in Int
  PROVE  W!Clamped(x) \in Int
BY RuleSizes DEF W!Clamped, W!Bounded

\* A report keeps it so, and moves the weight the way of the rule.
LEMMA ReportKeeps ==
  ASSUME LifeInv, W!Spike
  PROVE  /\ LifeInv'
         /\ W!Magnitude(synapse.w) <= ClampW =>
              /\ synapse'.pre > synapse.pre => synapse'.w <= synapse.w
              /\ synapse'.post > synapse.post => synapse'.w >= synapse.w
<1>0. UNCHANGED <<driven, time, rate>>
  BY DEF W!Spike
<1> DEFINE Goal == /\ LifeInv'
                   /\ W!Magnitude(synapse.w) <= ClampW =>
                        /\ synapse'.pre > synapse.pre => synapse'.w <= synapse.w
                        /\ synapse'.post > synapse.post => synapse'.w >= synapse.w
<1>1. PICK w \in Int, a \in Nat, b \in Nat, m \in Nat :
        /\ w = synapse.w /\ a = synapse.pre /\ b = synapse.post /\ m = synapse.amp
        /\ synapse = [w |-> w, plastic |-> synapse.plastic, pre |-> a, post |-> b,
                      amp |-> m, silence |-> synapse.silence, age |-> synapse.age]
  BY DEF LifeInv, SoundSynapse
<1>2. ASSUME NEW y \in Nat, NEW r \in Rewards
      PROVE  (y * m * r) \div Unit \in Nat
  <2>1. PICK z \in Nat : z = y * m
    OBVIOUS
  <2>2. PICK e \in Nat : e = r
    BY RuleSizes
  <2> QED
    BY <2>1, <2>2, FractionNat, RuleSizes
<1>3. CASE W!OnPre
  <2>1. PICK r \in Rewards :
          synapse' = IF ~synapse.plastic THEN [synapse EXCEPT !.silence = 0]
             ELSE [synapse EXCEPT !.silence = 0,
                     !.pre = W!Bounded(@ + Unit, 0, TopTrace),
                     !.w = W!Clamped(@ - (synapse.post * synapse.amp * r) \div Unit)]
    BY <1>3 DEF W!OnPre
  <2>2. PICK d \in Nat : d = (b * m * r) \div Unit
    BY <1>2
  <2>3. PICK n \in Int : n = W!Clamped(w - d)
    BY ClampedInt
  <2>4. PICK p \in Nat : p = W!Bounded(a + Unit, 0, TopTrace)
    BY RuleSizes DEF W!Bounded
  <2>5. W!Magnitude(w) <= ClampW => n <= w
    BY <2>3, RuleSizes DEF W!Clamped, W!Bounded, W!Magnitude
  <2>6. CASE ~synapse.plastic
    <3>1. synapse' = [w |-> w, plastic |-> synapse.plastic, pre |-> a, post |-> b,
                      amp |-> m, silence |-> 0, age |-> synapse.age]
      BY <1>1, <2>1, <2>6
    <3>2. LifeInv'
      BY <1>0, <3>1 DEF LifeInv, SoundSynapse
    <3> QED
      BY <1>1, <3>1, <3>2
  <2>7. CASE synapse.plastic
    <3>1. synapse' = [w |-> n, plastic |-> synapse.plastic, pre |-> p, post |-> b,
                      amp |-> m, silence |-> 0, age |-> synapse.age]
      BY <1>1, <2>1, <2>2, <2>3, <2>4, <2>7
    <3>2. LifeInv'
      BY <1>0, <3>1 DEF LifeInv, SoundSynapse
    <3>3. synapse'.w = n /\ synapse'.post = b
      BY <3>1
    <3> QED
      BY <1>1, <2>5, <3>2, <3>3
  <2> QED
    BY <2>6, <2>7
<1>4. CASE W!OnPost
  <2>1. PICK r \in Rewards :
          synapse' = IF ~synapse.plastic THEN [synapse EXCEPT !.silence = 0]
             ELSE [synapse EXCEPT !.silence = 0,
                     !.post = W!Bounded(@ + Unit, 0, TopTrace),
                     !.w = W!Clamped(@ + (synapse.pre * synapse.amp * r) \div Unit)]
    BY <1>4 DEF W!OnPost
  <2>2. PICK d \in Nat : d = (a * m * r) \div Unit
    BY <1>2
  <2>3. PICK n \in Int : n = W!Clamped(w + d)
    BY ClampedInt
  <2>4. PICK p \in Nat : p = W!Bounded(b + Unit, 0, TopTrace)
    BY RuleSizes DEF W!Bounded
  <2>5. W!Magnitude(w) <= ClampW => n >= w
    BY <2>3, RuleSizes DEF W!Clamped, W!Bounded, W!Magnitude
  <2>6. CASE ~synapse.plastic
    <3>1. synapse' = [w |-> w, plastic |-> synapse.plastic, pre |-> a, post |-> b,
                      amp |-> m, silence |-> 0, age |-> synapse.age]
      BY <1>1, <2>1, <2>6
    <3>2. LifeInv'
      BY <1>0, <3>1 DEF LifeInv, SoundSynapse
    <3> QED
      BY <1>1, <3>1, <3>2
  <2>7. CASE synapse.plastic
    <3>1. synapse' = [w |-> n, plastic |-> synapse.plastic, pre |-> a, post |-> p,
                      amp |-> m, silence |-> 0, age |-> synapse.age]
      BY <1>1, <2>1, <2>2, <2>3, <2>4, <2>7
    <3>2. LifeInv'
      BY <1>0, <3>1 DEF LifeInv, SoundSynapse
    <3>3. synapse'.w = n /\ synapse'.pre = a
      BY <3>1
    <3> QED
      BY <1>1, <2>5, <3>2, <3>3
  <2> QED
    BY <2>6, <2>7
<1> QED
  BY <1>3, <1>4 DEF W!Spike

\* For all amplitudes, rewards, weights and time constants: a report of a
\* presynaptic spike never strengthens a synapse within the rule's clamp, one
\* of a postsynaptic spike never weakens it.
THEOREM PairingKeepsSign == LearnSpec => W!PairingHasSign
<1>1. LearnInit => LifeInv
  <2> SUFFICES ASSUME LearnInit PROVE LifeInv
    OBVIOUS
  <2>1. time = 0 /\ rate = 0 /\ \E w \in Newborn : synapse = W!Fresh(w)
    BY DEF LearnInit, W!LifeInit
  <2> QED
    BY <2>1, FreshSound, RuleSizes DEF LifeInv
<1> DEFINE Signed == time' = time /\ W!Magnitude(synapse.w) <= ClampW =>
                       /\ synapse'.pre > synapse.pre => synapse'.w <= synapse.w
                       /\ synapse'.post > synapse.post => synapse'.w >= synapse.w
<1>2. LifeInv /\ [LearnNext]_learnVars => LifeInv' /\ [Signed]_(W!lifeVars)
  <2> SUFFICES ASSUME LifeInv, [LearnNext]_learnVars
               PROVE  LifeInv' /\ [Signed]_(W!lifeVars)
    OBVIOUS
  <2>1. W!LifeNext \/ UNCHANGED weight
    BY DEF LearnNext, Still, learnVars
  <2>2. CASE UNCHANGED weight
    BY <2>2 DEF weight, LifeInv, W!lifeVars
  <2>3. CASE W!LifeStep
    BY <2>3, LifeStepKeeps
  <2>4. CASE W!Spike
    BY <2>4, ReportKeeps
  <2> QED
    BY <2>1, <2>2, <2>3, <2>4 DEF W!LifeNext
<1> QED
  BY <1>1, <1>2, PTL DEF LearnSpec, W!PairingHasSign

\* The assumptions on age, one by one.
LEMMA AgeSizes ==
  /\ Unit \in Nat \ {0} /\ Fine \in Nat \ {0} /\ MaxAge \in Nat \ {0}
  /\ MinW \in Nat /\ TopW \in Nat /\ MinW <= TopW - 1
  /\ Beat \in Nat \ {0} /\ MaxSilence \in Nat /\ MaxSilence < Beat
  /\ \E m \in Nat : TopW = 2 * m + 1
<1>1. /\ Unit \in Nat \ {0} /\ Fine \in Nat \ {0} /\ MaxAge \in Nat \ {0}
      /\ MinW \in Nat /\ TopW \in Nat
  BY WeightAssumption
<1>2. /\ Beat \in Nat /\ MaxSilence \in Nat /\ MaxSilence < Beat
      /\ MinW < TopW /\ TopW % 2 = 1
  BY AgeAssumption
<1>3. TopW = 2 * (TopW \div 2) + 1 /\ TopW \div 2 \in Nat
  BY <1>1, <1>2
<1> QED
  BY <1>1, <1>2, <1>3

\* What doubling makes of a magnitude.
Twice(x) == W!Bounded(2 * x, 0, TopW - 1)

\* u is doubled from the least weight on, n times.
Doubles(u, n) ==
  /\ u \in [0 .. n -> 0 .. TopW - 1] /\ u[0] = MinW
  /\ \A k \in 1 .. n : u[k] = Twice(u[k - 1])

\* Doubled is such a function, and the only thing known of it.
LEMMA DoubledIsDoubled == Doubles(W!Doubled, MaxAge)
<1> DEFINE Lacking == {n \in 0 .. MaxAge : ~ \E u : Doubles(u, n)}
<1>1. 0 \notin Lacking
  <2>1. [k \in 0 .. 0 |-> MinW] \in [0 .. 0 -> 0 .. TopW - 1]
    BY AgeSizes
  <2>2. Doubles([k \in 0 .. 0 |-> MinW], 0)
    BY <2>1 DEF Doubles
  <2> QED
    BY <2>2
<1>2. \A x \in 0 .. TopW - 1 : Twice(x) \in 0 .. TopW - 1
  BY AgeSizes DEF Twice, W!Bounded
<1>3. ASSUME NEW m \in Nat, NEW u, Doubles(u, m) PROVE \E v : Doubles(v, m + 1)
  <2> DEFINE v == [k \in 0 .. m + 1 |-> IF k = m + 1 THEN Twice(u[m]) ELSE u[k]]
  <2>1. /\ \A k \in 0 .. m : v[k] = u[k] /\ u[k] \in 0 .. TopW - 1
        /\ v[m + 1] = Twice(u[m]) /\ u[m] \in 0 .. TopW - 1
    BY <1>3 DEF Doubles
  <2>2. \A k \in 0 .. m + 1 : k \in 0 .. m \/ k = m + 1
    OBVIOUS
  <2>3. v \in [0 .. m + 1 -> 0 .. TopW - 1]
    <3>1. \A k \in 0 .. m + 1 : v[k] \in 0 .. TopW - 1
      <4> HIDE DEF v
      <4> QED
        BY <1>2, <2>1, <2>2
    <3> QED
      BY <3>1
  <2> HIDE DEF v
  <2>4. ASSUME NEW k \in 1 .. m + 1 PROVE v[k] = Twice(v[k - 1])
    <3>1. CASE k = m + 1
      BY <2>1, <3>1
    <3>2. CASE k # m + 1
      <4>1. k \in 1 .. m /\ k \in 0 .. m /\ k - 1 \in 0 .. m
        BY <3>2
      <4> QED
        BY <1>3, <2>1, <4>1 DEF Doubles
    <3> QED
      BY <3>1, <3>2
  <2>5. v[0] = MinW
    BY <1>3, <2>1 DEF Doubles
  <2> QED
    BY <2>3, <2>4, <2>5 DEF Doubles
<1>4. Lacking = {}
  <2>1. SUFFICES ASSUME Lacking # {} PROVE FALSE
    OBVIOUS
  <2>2. Lacking \in SUBSET Nat
    BY AgeSizes
  <2>3. PICK n \in Lacking : \A k \in Lacking : n <= k
    BY <2>1, <2>2, Least
  <2>4. n # 0 /\ n \in 0 .. MaxAge /\ n - 1 \in 0 .. MaxAge /\ ~(n <= n - 1)
    BY <1>1, <2>3, AgeSizes
  <2>5. n - 1 \notin Lacking
    BY <2>3, <2>4
  <2>6. PICK u : Doubles(u, n - 1)
    BY <2>4, <2>5
  <2>7. n - 1 \in Nat /\ (n - 1) + 1 = n
    BY <2>4, AgeSizes
  <2>8. \E v : Doubles(v, n)
    BY <1>3, <2>6, <2>7
  <2> QED
    BY <2>3, <2>8
<1>5. PICK u : Doubles(u, MaxAge)
  <2>1. MaxAge \in 0 .. MaxAge
    BY AgeSizes
  <2> QED
    BY <1>4, <2>1
<1> DEFINE Rec(f) == [a \in 0 .. MaxAge |->
             IF a = 0 THEN MinW ELSE W!Bounded(2 * f[a - 1], 0, TopW - 1)]
<1>6. u = Rec(u)
  <2>1. \A a \in 0 .. MaxAge : a = 0 \/ a \in 1 .. MaxAge
    BY AgeSizes
  <2>2. \A a \in 0 .. MaxAge : u[a] = Rec(u)[a]
    BY <1>5, <2>1 DEF Doubles, Twice
  <2>3. u = [a \in 0 .. MaxAge |-> u[a]]
    BY <1>5 DEF Doubles
  <2> QED
    BY <2>2, <2>3
<1>7. W!Doubled = CHOOSE f : f = Rec(f)
  BY DEF W!Doubled
<1>8. W!Doubled = Rec(W!Doubled)
  <2> HIDE DEF Rec
  <2> QED
    BY <1>6, <1>7
<1>9. ASSUME NEW f, f = Rec(f) PROVE Doubles(f, MaxAge)
  <2>1. /\ f[0] = MinW /\ DOMAIN f = 0 .. MaxAge
        /\ \A a \in 1 .. MaxAge : f[a] = Twice(f[a - 1])
    <3>1. 0 \in 0 .. MaxAge
      BY AgeSizes
    <3>2. \A a \in 1 .. MaxAge : a \in 0 .. MaxAge /\ a # 0
      BY AgeSizes
    <3> QED
      BY <1>9, <3>1, <3>2 DEF Twice
  <2> DEFINE B == {a \in 0 .. MaxAge : f[a] \notin 0 .. TopW - 1}
  <2>2. B = {}
    <3>1. SUFFICES ASSUME B # {} PROVE FALSE
      OBVIOUS
    <3>2. B \in SUBSET Nat
      BY AgeSizes
    <3>3. PICK n \in B : \A k \in B : n <= k
      BY <3>1, <3>2, Least
    <3>4. n # 0
      BY <2>1, <3>3, AgeSizes
    <3>5. n \in 1 .. MaxAge /\ n - 1 \in 0 .. MaxAge /\ ~(n <= n - 1)
      BY <3>3, <3>4, AgeSizes
    <3>6. f[n - 1] \in 0 .. TopW - 1
      BY <3>3, <3>5
    <3> QED
      BY <1>2, <2>1, <3>3, <3>5, <3>6
  <2>3. f = [a \in 0 .. MaxAge |-> f[a]]
    BY <1>9
  <2>4. f \in [0 .. MaxAge -> 0 .. TopW - 1]
    BY <2>2, <2>3
  <2> QED
    BY <2>1, <2>4 DEF Doubles
<1> QED
  BY <1>8, <1>9

\* Quotients, from both sides.
LEMMA QuotientSides ==
  ASSUME NEW d \in Nat \ {0}, NEW m \in Int, NEW x \in Int
  PROVE  /\ x \div d \in Int
         /\ m * d <= x => m <= x \div d
         /\ x <= m * d => x \div d <= m
         /\ x < m * d => x \div d < m
<1>1. PICK q \in Int : q = x \div d
  OBVIOUS
<1>2. PICK p \in Int : p = d * q
  OBVIOUS
<1>3. p <= x /\ x < p + d
  BY <1>1, <1>2
<1>4. PICK e \in Int : e = m - q
  OBVIOUS
<1>5. m * d = p + d * e /\ d * e \in Int /\ m * d \in Int
  BY <1>2, <1>4
<1>6. (e >= 1 => d * e >= d) /\ (e <= 0 => d * e <= 0) /\ (e <= -1 => d * e <= -d)
  <2>1. e >= 1 => d * e >= d
    OBVIOUS
  <2>2. e <= 0 => d * e <= 0
    OBVIOUS
  <2>3. e <= -1 => d * e <= -d
    OBVIOUS
  <2> QED
    BY <2>1, <2>2, <2>3
<1>7. m * d <= x => e <= 0
  BY <1>3, <1>5, <1>6
<1>8. x <= m * d => e >= 0
  BY <1>3, <1>5, <1>6
<1>9. x < m * d => e >= 1
  BY <1>3, <1>5, <1>6
<1> QED
  BY <1>1, <1>4, <1>7, <1>8, <1>9

\* A weight as large as m, counted in bits of FixedPoint, is one of m or more,
\* unless it saturates.
LEMMA WeightReaches ==
  ASSUME NEW q \in Int, NEW m \in Nat, m * Fine <= q \/ q <= -(m * Fine)
  PROVE  W!Magnitude(W!ToWeight(q)) >= m \/ W!Magnitude(W!ToWeight(q)) >= TopW
<1>1. PICK d \in Nat \ {0}, t \in Nat, p \in Nat : d = Fine /\ t = TopW /\ p = m * d
  BY AgeSizes
<1>2. CASE q >= 0
  <2>1. p <= q
    BY <1>1, <1>2
  <2>2. PICK k \in Int : k = q \div d
    BY QuotientSides
  <2>3. m <= k
    BY <1>1, <2>1, <2>2, QuotientSides
  <2>4. W!ToWeight(q) = W!Bounded(k, -t - 1, t)
    BY <1>1, <1>2, <2>2 DEF W!ToWeight
  <2> QED
    BY <1>1, <2>3, <2>4 DEF W!Bounded, W!Magnitude
<1>3. CASE q < 0
  <2>1. p <= -q /\ -q \in Int
    BY <1>1, <1>3
  <2>2. PICK k \in Int : k = (-q) \div d
    BY <2>1, QuotientSides
  <2>3. m <= k
    BY <1>1, <2>1, <2>2, QuotientSides
  <2>4. PICK j \in Int, b \in Int : j = -k /\ b = -t - 1
    OBVIOUS
  <2>5. W!ToWeight(q) = W!Bounded(j, b, t)
    <3>1. W!ToWeight(q) = W!Bounded(-((-q) \div d), -t - 1, t)
      BY <1>1, <1>3 DEF W!ToWeight
    <3> QED
      BY <2>2, <2>4, <3>1
  <2>6. PICK v \in Int : v = W!Bounded(j, b, t)
    BY DEF W!Bounded
  <2>7. v = j \/ v <= -t \/ v >= t
    BY <2>4, <2>6 DEF W!Bounded
  <2>8. W!Magnitude(v) >= m \/ W!Magnitude(v) >= t
    BY <2>3, <2>4, <2>7 DEF W!Magnitude
  <2> QED
    BY <1>1, <2>5, <2>6, <2>8
<1> QED
  BY <1>2, <1>3

\* Scaling by two doubles a weight, unless it saturates.
LEMMA ScalingDoubles ==
  ASSUME NEW w \in Int
  PROVE  LET v == W!ToWeight(W!Times(w, 2 * Unit)) IN
           W!Magnitude(v) >= 2 * W!Magnitude(w) \/ W!Magnitude(v) >= TopW
<1>1. PICK u \in Nat \ {0}, d \in Nat \ {0} : u = Unit /\ d = Fine
  BY AgeSizes
<1>2. PICK y \in Int : y = w * d
  OBVIOUS
<1>3. PICK z \in Int : z = 2 * y
  OBVIOUS
<1>4. W!Times(w, 2 * Unit) = z
  <2>1. y * (2 * u) = z * u /\ z * u \in Int
    BY <1>3
  <2>2. (z * u) \div u = z
    <3>1. PICK x \in Int : x = z * u
      OBVIOUS
    <3>2. x \div u \in Int /\ z <= x \div u /\ x \div u <= z
      BY <3>1, QuotientSides
    <3> QED
      BY <3>1, <3>2
  <2> QED
    BY <1>1, <1>2, <2>1, <2>2 DEF W!Times
<1>5. PICK m \in Nat : m = 2 * W!Magnitude(w)
  BY DEF W!Magnitude
<1>6. m * d <= z \/ z <= -(m * d)
  <2>1. CASE w < 0
    <3>1. m = -(2 * w)
      BY <1>5, <2>1 DEF W!Magnitude
    <3> QED
      BY <1>2, <1>3, <3>1
  <2>2. CASE ~(w < 0)
    <3>1. m = 2 * w
      BY <1>5, <2>2 DEF W!Magnitude
    <3> QED
      BY <1>2, <1>3, <3>1
  <2> QED
    BY <2>1, <2>2
<1> QED
  BY <1>1, <1>4, <1>5, <1>6, WeightReaches

\* What senescence leaves of a weight at age n.
Left(w, n) == W!ToWeight(W!Times(w, Unit - (((n * Unit) \div MaxAge) \div 2)))

\* At first all of it,
LEMMA YoungKeepAll ==
  ASSUME NEW w \in Int, NEW n \in Nat, n * Unit < 2 * MaxAge
  PROVE  W!Magnitude(Left(w, n)) >= W!Magnitude(w) \/ W!Magnitude(Left(w, n)) >= TopW
<1>1. PICK u \in Nat \ {0}, d \in Nat \ {0}, a \in Nat \ {0} :
        u = Unit /\ d = Fine /\ a = MaxAge
  BY AgeSizes
<1>2. PICK x \in Nat : x = n * u
  OBVIOUS
<1>3. x < 2 * a /\ 0 * a <= x
  BY <1>1, <1>2
<1>4. PICK p \in Int : p = x \div a
  BY QuotientSides
<1>5. 0 <= p /\ p < 2
  BY <1>3, <1>4, QuotientSides
<1>6. p \div 2 = 0
  BY <1>5
<1>7. PICK y \in Int : y = w * d
  OBVIOUS
<1>8. (y * u) \div u = y
  <2>1. PICK z \in Int : z = y * u
    OBVIOUS
  <2>2. z \div u \in Int /\ y <= z \div u /\ z \div u <= y
    BY <2>1, QuotientSides
  <2> QED
    BY <2>1, <2>2
<1>9. Left(w, n) = W!ToWeight(y)
  <2>1. Unit - (((n * Unit) \div MaxAge) \div 2) = u
    BY <1>1, <1>2, <1>4, <1>6
  <2>2. W!Times(w, u) = y
    BY <1>1, <1>7, <1>8 DEF W!Times
  <2> QED
    BY <2>1, <2>2 DEF Left
<1>10. PICK m \in Nat : m = W!Magnitude(w)
  BY DEF W!Magnitude
<1>11. m * d <= y \/ y <= -(m * d)
  <2>1. CASE w < 0
    <3>1. m = -w
      BY <1>10, <2>1 DEF W!Magnitude
    <3> QED
      BY <1>7, <3>1
  <2>2. CASE ~(w < 0)
    <3>1. m = w
      BY <1>10, <2>2 DEF W!Magnitude
    <3> QED
      BY <1>7, <3>1
  <2> QED
    BY <2>1, <2>2
<1> QED
  BY <1>1, <1>9, <1>10, <1>11, WeightReaches

\* and at no age so much that doubling would not give it back, but for a bit.
LEMMA OldKeepHalf ==
  ASSUME NEW w \in Int, NEW n \in 1 .. MaxAge - 1, W!Magnitude(w) >= TopW - 1
  PROVE  2 * W!Magnitude(Left(w, n)) >= TopW - 1
<1>1. PICK u \in Nat \ {0}, d \in Nat \ {0}, a \in Nat \ {0}, t \in Nat :
        u = Unit /\ d = Fine /\ a = MaxAge /\ t = TopW
  BY AgeSizes
<1>2. PICK m \in Nat : t = 2 * m + 1
  BY <1>1, AgeSizes
<1>3. PICK x \in Nat : x = n * u
  BY <1>1
<1>4. x < u * a /\ 0 * a <= x
  <2>1. PICK e \in Nat \ {0} : e = a - n
    BY <1>1
  <2>2. u * a = x + u * e /\ u * e \in Nat /\ u * a \in Nat
    BY <1>1, <1>3, <2>1
  <2>3. u * e >= 1
    OBVIOUS
  <2> QED
    BY <2>2, <2>3
<1>5. PICK p \in Int : p = x \div a
  BY QuotientSides
<1>6. 0 <= p /\ p < u
  BY <1>4, <1>5, QuotientSides
<1>7. PICK f \in Nat : f = u - (p \div 2) /\ u <= 2 * f
  <2>1. p \div 2 \in Int /\ 2 * (p \div 2) <= p /\ 0 <= p \div 2
    BY <1>6
  <2> QED
    BY <1>6, <2>1
<1>8. PICK y \in Int : y = w * d
  OBVIOUS
<1>9. PICK b \in Nat : b = m * d
  OBVIOUS
<1>10. PICK z \in Int : z = y * f
  OBVIOUS
<1>11. b * u <= b * (2 * f) /\ b * u \in Nat /\ b * (2 * f) \in Nat
  BY <1>7
<1>12. b * u <= z \/ z <= (-b) * u
  <2>1. w >= 2 * m \/ w <= -(2 * m)
    BY <1>1, <1>2 DEF W!Magnitude
  <2>2. CASE w >= 2 * m
    <3>1. y >= 2 * b
      <4>1. PICK r \in Nat : w = 2 * m + r
        <5>1. w - 2 * m \in Nat /\ w = 2 * m + (w - 2 * m)
          BY <2>2
        <5> QED
          BY <5>1
      <4>2. y = 2 * b + r * d /\ r * d \in Nat
        BY <1>8, <1>9, <4>1
      <4> QED
        BY <4>2
    <3>2. PICK s \in Nat : y = 2 * b + s
      <4>1. y - 2 * b \in Nat /\ y = 2 * b + (y - 2 * b)
        BY <3>1
      <4> QED
        BY <4>1
    <3>3. z = b * (2 * f) + s * f /\ s * f \in Nat
      BY <1>10, <3>2
    <3> QED
      BY <1>11, <3>3
  <2>3. CASE w <= -(2 * m)
    <3>1. y <= -(2 * b)
      <4>1. PICK r \in Nat : w = -(2 * m) - r
        <5>1. -(2 * m) - w \in Nat /\ w = -(2 * m) - (-(2 * m) - w)
          BY <2>3
        <5> QED
          BY <5>1
      <4>2. y = -(2 * b) - r * d /\ r * d \in Nat
        BY <1>8, <1>9, <4>1
      <4> QED
        BY <4>2
    <3>2. PICK s \in Nat : y = -(2 * b) - s
      <4>1. -(2 * b) - y \in Nat /\ y = -(2 * b) - (-(2 * b) - y)
        BY <3>1
      <4> QED
        BY <4>1
    <3>3. z = -(b * (2 * f)) - s * f /\ s * f \in Nat
      BY <1>10, <3>2
    <3>4. (-b) * u = -(b * u)
      OBVIOUS
    <3> QED
      BY <1>11, <3>3, <3>4
  <2> QED
    BY <2>1, <2>2, <2>3
<1>13. PICK q \in Int : q = z \div u
  BY QuotientSides
<1>14. b <= q \/ q <= -b
  <2>1. -b \in Int
    OBVIOUS
  <2> QED
    BY <1>12, <1>13, <2>1, QuotientSides
<1>15. Left(w, n) = W!ToWeight(q)
  <2>1. Unit - (((n * Unit) \div MaxAge) \div 2) = f
    BY <1>1, <1>3, <1>5, <1>7
  <2>2. W!Times(w, f) = q
    BY <1>1, <1>8, <1>10, <1>13 DEF W!Times
  <2> QED
    BY <2>1, <2>2 DEF Left
<1>16. PICK v \in Int : v = W!Magnitude(W!ToWeight(q))
  <2>1. W!ToWeight(q) \in Int
    BY ToWeightInt
  <2> QED
    BY <2>1 DEF W!Magnitude
<1>17. v >= m \/ v >= t
  BY <1>1, <1>9, <1>14, <1>16, WeightReaches
<1> QED
  BY <1>1, <1>2, <1>15, <1>16, <1>17

\* What is true of a synapse nobody drives, k steps after the last maintenance:
\* new, it has been silent in all of them, and older, it has grown.
Growing(x, k) ==
  /\ SoundSynapse(x) /\ x.plastic \in BOOLEAN /\ x.silence \in Nat
  /\ x.plastic => x.age < MaxAge
  /\ x.plastic /\ x.age = 0 => x.silence >= k
  /\ x.plastic /\ x.age > 0 => W!Magnitude(x.w) >= W!Doubled[x.age]

\* A new one, and a dead one.
LEMMA NewGrow ==
  /\ \A w \in Int : Growing(W!Fresh(w), 0)
  /\ Growing(W!Dead, 0)
<1>1. \A w \in Int : SoundSynapse(W!Fresh(w))
  BY FreshSound
<1>2. \A w \in Int : Growing(W!Fresh(w), 0)
  <2> TAKE w \in Int
  <2>1. PICK r : r = W!Fresh(w)
    OBVIOUS
  <2>2. r.plastic = TRUE /\ r.silence = 0 /\ r.age = 0 /\ SoundSynapse(r)
    BY <1>1, <2>1 DEF W!Fresh
  <2>3. r.plastic \in BOOLEAN
    BY <2>2
  <2>4. 0 >= 0 /\ 0 < MaxAge /\ 0 \in Nat /\ ~(0 > 0)
    BY AgeSizes
  <2>5. Growing(r, 0)
    BY <2>2, <2>3, <2>4, Zenon DEF Growing
  <2> QED
    BY <2>1, <2>5
<1>3. Growing(W!Dead, 0)
  <2>1. PICK r : r = W!Dead
    OBVIOUS
  <2>2. r.plastic = FALSE /\ r.silence = 0
    BY <2>1 DEF W!Dead, W!Fresh
  <2>3. r.plastic \in BOOLEAN /\ ~r.plastic /\ 0 \in Nat
    BY <2>2
  <2>4. SoundSynapse(r)
    BY <2>1, FreshSound
  <2>5. Growing(r, 0)
    BY <2>2, <2>3, <2>4, Zenon DEF Growing
  <2> QED
    BY <2>1, <2>5
<1> QED
  BY <1>2, <1>3

\* The remainder grows by one or goes back to zero.
LEMMA NextBeat ==
  ASSUME NEW t \in Nat
  PROVE  /\ t % Beat \in Nat
         /\ (t + 1) % Beat # 0 => (t + 1) % Beat = (t % Beat) + 1
         /\ (t + 1) % Beat = 0 => (t % Beat) + 1 = Beat
<1>1. PICK b \in Nat \ {0} : b = Beat
  BY AgeSizes
<1>2. PICK q \in Int, r \in 0 .. b - 1 : q = t \div b /\ r = t % b
  OBVIOUS
<1>3. PICK p \in Int : p = b * q
  OBVIOUS
<1>4. t = p + r
  BY <1>2, <1>3
<1>5. PICK q1 \in Int, r1 \in 0 .. b - 1 : q1 = (t + 1) \div b /\ r1 = (t + 1) % b
  OBVIOUS
<1>6. PICK p1 \in Int : p1 = b * q1
  OBVIOUS
<1>7. t + 1 = p1 + r1
  BY <1>5, <1>6
<1>8. PICK e \in Int : e = q1 - q
  OBVIOUS
<1>9. p1 = p + b * e /\ b * e \in Int
  BY <1>3, <1>6, <1>8
<1>10. r + 1 = b * e + r1
  BY <1>4, <1>7, <1>9
<1>11. (e >= 1 => b * e >= b) /\ (e >= 2 => b * e >= 2 * b) /\ (e <= -1 => b * e <= -b)
       /\ (e = 0 => b * e = 0) /\ (e = 1 => b * e = b)
  <2>1. e >= 1 => b * e >= b
    OBVIOUS
  <2>2. e >= 2 => b * e >= 2 * b
    OBVIOUS
  <2>3. e <= -1 => b * e <= -b
    OBVIOUS
  <2>4. (e = 0 => b * e = 0) /\ (e = 1 => b * e = b)
    OBVIOUS
  <2> QED
    BY <2>1, <2>2, <2>3, <2>4
<1>12. e = 0 \/ e = 1
  BY <1>10, <1>11
<1>13. (r1 = r + 1) \/ (r1 = 0 /\ r + 1 = b)
  BY <1>10, <1>11, <1>12
<1> QED
  BY <1>1, <1>2, <1>5, <1>13

\* A step is one more of silence.
LEMMA SteppedGrows ==
  ASSUME NEW k \in Nat, NEW x, Growing(x, k), NEW amp \in Amps
  PROVE  Growing(W!Stepped(x, amp), k + 1)
<1>1. PICK y : y = W!Stepped(x, amp)
  OBVIOUS
<1>2. SoundSynapse(x) /\ SoundSynapse(y)
  BY <1>1, SteppedSound DEF Growing
<1>3. CASE ~x.plastic
  <2>1. y = x
    BY <1>1, <1>3 DEF W!Stepped
  <2> QED
    BY <1>1, <1>2, <1>3, <2>1 DEF Growing
<1>4. CASE x.plastic
  <2>1. y.w = x.w /\ y.plastic = x.plastic /\ y.silence = x.silence + 1 /\ y.age = x.age
    BY <1>1, <1>2, <1>4 DEF W!Stepped, SoundSynapse
  <2>2. x.silence \in Nat
    BY DEF Growing
  <2>3. x.age = 0 => x.silence >= k
    BY <1>4 DEF Growing
  <2>4. y.age = 0 => y.silence >= k + 1
    BY <2>1, <2>2, <2>3
  <2> QED
    BY <1>1, <1>2, <2>1, <2>2, <2>4 DEF Growing
<1> QED
  BY <1>3, <1>4

\* Scaling by two leaves age and silence, and makes a magnitude twice as large,
\* or as large as it can be.
LEMMA ScaledGrows ==
  ASSUME NEW y, SoundSynapse(y)
  PROVE  LET v == W!Scaled(y, 2 * Unit) IN
           /\ SoundSynapse(v)
           /\ v.plastic = y.plastic /\ v.silence = y.silence /\ v.age = y.age
           /\ y.plastic => \/ W!Magnitude(v.w) >= 2 * W!Magnitude(y.w)
                           \/ W!Magnitude(v.w) >= TopW
<1>1. PICK v : v = W!Scaled(y, 2 * Unit)
  OBVIOUS
<1>2. SoundSynapse(v)
  <2>1. 2 * Unit \in Int
    BY AgeSizes
  <2> QED
    BY <1>1, <2>1, ScaledSound
<1>3. CASE y.plastic /\ y.w # 0
  <2>1. /\ v.plastic = y.plastic /\ v.silence = y.silence /\ v.age = y.age
        /\ v.w = W!ToWeight(W!Times(y.w, 2 * Unit))
    BY <1>1, <1>3 DEF W!Scaled, SoundSynapse
  <2>2. y.w \in Int
    BY DEF SoundSynapse
  <2>3. \/ W!Magnitude(v.w) >= 2 * W!Magnitude(y.w)
        \/ W!Magnitude(v.w) >= TopW
    BY <2>1, <2>2, ScalingDoubles
  <2> QED
    BY <1>1, <1>2, <2>1, <2>3
<1>4. CASE ~(y.plastic /\ y.w # 0)
  <2>1. v = y
    BY <1>1, <1>4 DEF W!Scaled
  <2>2. y.plastic => W!Magnitude(y.w) >= 2 * W!Magnitude(y.w)
    <3>1. y.plastic => y.w = 0
      BY <1>4
    <3>2. W!Magnitude(0) >= 2 * W!Magnitude(0)
      BY DEF W!Magnitude
    <3> QED
      BY <3>1, <3>2
  <2> QED
    BY <1>1, <1>2, <2>1, <2>2
<1> QED
  BY <1>3, <1>4

\* What a maintenance makes of a synapse before it scales it: nothing or
\* something new, what it was, or a year older and not worth pruning.
Older(x, z) ==
  /\ SoundSynapse(z) /\ z.plastic = x.plastic
  /\ z.silence = x.silence /\ z.age = x.age + 1 /\ z.age < MaxAge
  /\ z.w = Left(x.w, z.age)

(* A maintenance pass leaves no weight above its bound. *)
LEMMA Maintained ==
  ASSUME NEW x, SoundSynapse(x), NEW y \in W!Reborn(W!Pruned(W!Aged(x)))
  PROVE  \/ y = W!Dead
         \/ \E w \in Int : y = W!Fresh(w)
         \/ y = x /\ ~x.plastic
         \/ /\ x.plastic /\ Older(x, y)
            /\ ~(W!Magnitude(y.w) < MinW /\ y.silence > MaxSilence)
<1>1. PICK z : z = W!Aged(x)
  OBVIOUS
<1>2. SoundSynapse(z)
  BY <1>1, AgedSound
<1>3. z = W!Dead \/ (z = x /\ ~x.plastic) \/ (x.plastic /\ Older(x, z))
  <2>1. CASE ~x.plastic
    BY <1>1, <2>1 DEF W!Aged
  <2>2. CASE x.plastic /\ x.age + 1 >= MaxAge
    BY <1>1, <2>2 DEF W!Aged
  <2>3. CASE x.plastic /\ ~(x.age + 1 >= MaxAge)
    <3>1. /\ z.plastic = x.plastic /\ z.silence = x.silence /\ z.age = x.age + 1
          /\ z.w = Left(x.w, x.age + 1)
      BY <1>1, <2>3 DEF W!Aged, SoundSynapse, Left
    <3>2. z.age < MaxAge
      BY <2>3, <3>1, AgeSizes DEF SoundSynapse
    <3> QED
      BY <1>2, <2>3, <3>1, <3>2 DEF Older
  <2> QED
    BY <2>1, <2>2, <2>3
<1>4. \/ W!Pruned(z) = W!Dead
      \/ /\ W!Pruned(z) = z
         /\ ~(z.plastic /\ W!Magnitude(z.w) < MinW /\ z.silence > MaxSilence)
  BY DEF W!Pruned
<1>5. y = W!Pruned(z) \/ \E w \in Int : y = W!Fresh(w)
  BY <1>1, RuleSizes DEF W!Reborn
<1>6. x.plastic /\ Older(x, z) => z.plastic
  BY DEF Older
<1> QED
  BY <1>3, <1>4, <1>5, <1>6

\* So a maintenance keeps it growing.
LEMMA MaintainedGrows ==
  ASSUME NEW x, Growing(x, Beat), NEW y \in W!Reborn(W!Pruned(W!Aged(x)))
  PROVE  Growing(W!Scaled(y, 2 * Unit), 0)
<1>1. PICK v : v = W!Scaled(y, 2 * Unit)
  OBVIOUS
<1>2. SoundSynapse(x)
  BY DEF Growing
<1>3. ASSUME Growing(y, 0), ~y.plastic \/ y.age = 0
      PROVE  Growing(v, 0)
  <2>1. /\ SoundSynapse(v)
        /\ v.plastic = y.plastic /\ v.silence = y.silence /\ v.age = y.age
    BY <1>1, <1>3, ScaledGrows DEF Growing
  <2> QED
    BY <1>3, <2>1 DEF Growing
<1>4. CASE y = W!Dead
  <2>1. ~y.plastic
    BY <1>4 DEF W!Dead, W!Fresh
  <2> QED
    BY <1>1, <1>3, <1>4, <2>1, NewGrow
<1>5. CASE \E w \in Int : y = W!Fresh(w)
  <2>1. PICK w \in Int : y = W!Fresh(w)
    BY <1>5
  <2>2. y.age = 0
    BY <2>1 DEF W!Fresh
  <2> QED
    BY <1>1, <1>3, <2>1, <2>2, NewGrow
<1>6. CASE y = x /\ ~x.plastic
  <2>1. Growing(y, 0)
    BY <1>6 DEF Growing
  <2> QED
    BY <1>1, <1>3, <1>6, <2>1
<1>7. CASE /\ x.plastic /\ Older(x, y)
           /\ ~(W!Magnitude(y.w) < MinW /\ y.silence > MaxSilence)
  <2>1. PICK n \in Nat : n = x.age + 1 /\ n = y.age /\ n < MaxAge /\ n >= 1
    BY <1>2, <1>7 DEF Older, SoundSynapse
  <2>2. n \in 1 .. MaxAge - 1 /\ n \in 1 .. MaxAge /\ n - 1 \in 0 .. MaxAge
        /\ n \in 0 .. MaxAge /\ 0 \in 0 .. MaxAge /\ n - 1 = x.age
    BY <2>1, <1>2, AgeSizes DEF SoundSynapse
  <2>3. PICK old \in Int, new \in Int : old = x.w /\ new = y.w
    BY <1>2, <1>7 DEF Older, SoundSynapse
  <2>4. new = Left(old, n)
    BY <1>7, <2>1, <2>3 DEF Older
  <2>5. PICK a \in Nat, b \in Nat : a = W!Magnitude(old) /\ b = W!Magnitude(new)
    BY DEF W!Magnitude
  <2>6. PICK c \in 0 .. TopW - 1, d \in 0 .. TopW - 1 :
          c = W!Doubled[n - 1] /\ d = W!Doubled[n]
    BY <2>2, DoubledIsDoubled DEF Doubles
  <2>7. d = Twice(c)
    BY <2>2, <2>6, DoubledIsDoubled DEF Doubles
  <2>8. c \in Nat /\ d \in Nat /\ d <= 2 * c /\ d <= TopW - 1 /\ TopW \in Nat
    BY <2>6, <2>7, AgeSizes DEF Twice, W!Bounded
  <2>9. 2 * b >= d
    <3>1. CASE n = 1
      <4>1. x.age = 0 /\ x.silence >= Beat /\ x.silence \in Nat
        BY <1>2, <1>7, <2>1, <3>1 DEF Growing, SoundSynapse
      <4>2. y.silence > MaxSilence
        BY <1>7, <4>1, AgeSizes DEF Older
      <4>3. b >= MinW
        BY <1>7, <2>3, <2>5, <4>2, AgeSizes
      <4>4. c = MinW
        BY <2>6, <3>1, DoubledIsDoubled DEF Doubles
      <4> QED
        BY <2>8, <4>3, <4>4
    <3>2. CASE n # 1
      <4>1. a >= c
        <5>1. x.age > 0
          BY <1>2, <2>1, <3>2 DEF SoundSynapse
        <5> QED
          BY <1>7, <2>2, <2>3, <2>5, <2>6, <5>1 DEF Growing
      <4>2. n * Unit < 2 * MaxAge \/ c >= TopW - 1
        BY <2>2, <2>6, AgeAssumption
      <4>3. CASE n * Unit < 2 * MaxAge
        <5>1. b >= a \/ b >= TopW
          BY <2>4, <2>5, <4>3, YoungKeepAll
        <5> QED
          BY <2>8, <4>1, <5>1
      <4>4. CASE c >= TopW - 1
        <5>1. a >= TopW - 1
          BY <2>8, <4>1, <4>4
        <5>2. 2 * b >= TopW - 1
          BY <2>2, <2>4, <2>5, <5>1, OldKeepHalf
        <5> QED
          BY <2>8, <5>2
      <4> QED
        BY <4>2, <4>3, <4>4
    <3> QED
      BY <3>1, <3>2
  <2>10. SoundSynapse(y) /\ y.plastic = x.plastic /\ y.silence = x.silence
    BY <1>7 DEF Older
  <2>11. /\ SoundSynapse(v)
         /\ v.plastic = y.plastic /\ v.silence = y.silence /\ v.age = y.age
         /\ y.plastic => \/ W!Magnitude(v.w) >= 2 * W!Magnitude(y.w)
                         \/ W!Magnitude(v.w) >= TopW
    BY <1>1, <2>10, ScaledGrows
  <2>12. PICK e \in Nat : e = W!Magnitude(v.w)
    <3>1. v.w \in Int
      BY <2>11 DEF SoundSynapse
    <3> QED
      BY <3>1 DEF W!Magnitude
  <2>13. e >= d
    <3>1. e >= 2 * b \/ e >= TopW
      BY <1>7, <2>3, <2>5, <2>10, <2>11, <2>12
    <3> QED
      BY <2>8, <2>9, <3>1
  <2>14. v.age = n /\ n > 0 /\ n # 0
    BY <2>1, <2>11
  <2>15. v.plastic \in BOOLEAN /\ v.silence \in Nat
    BY <2>10, <2>11 DEF Growing
  <2>16. W!Magnitude(v.w) >= W!Doubled[v.age]
    BY <2>6, <2>12, <2>13, <2>14
  <2>17. Growing(v, 0)
    BY <2>1, <2>11, <2>14, <2>15, <2>16, Zenon DEF Growing
  <2> QED
    BY <1>1, <2>17
<1> QED
  BY <1>1, <1>2, <1>4, <1>5, <1>6, <1>7, Maintained

\* As long as rates are at most one, the scale is two.
LEMMA ScaleIsTwo ==
  ASSUME NEW r \in 0 .. Unit
  PROVE  W!Scale(r) = 2 * Unit
<1>1. PICK u \in Nat \ {0} : u = Unit
  BY AgeSizes
<1>2. PICK d \in 1 .. u : d = IF r = 0 THEN 1 ELSE r
  BY <1>1
<1>3. PICK n \in Nat, v \in Nat : n = 10 * u * u /\ v = 2 * u
  OBVIOUS
<1>4. v * d <= n
  <2>1. PICK e \in Nat : e = u - d
    <3>1. d \in Nat /\ d <= u
      BY <1>2
    <3> QED
      BY <3>1
  <2>2. d \in Nat /\ u = d + e
    BY <1>2, <2>1
  <2>3. v * u = v * d + v * e /\ v * e \in Nat /\ v * d \in Nat
    BY <2>2
  <2>4. PICK w \in Nat : w = u * u
    OBVIOUS
  <2>5. v * u = 2 * w /\ n = 10 * w
    BY <1>3, <2>4
  <2> QED
    BY <2>3, <2>4, <2>5
<1>5. PICK q \in Int : q = n \div d /\ v <= q
  <2>1. d \in Nat \ {0} /\ v \in Int /\ n \in Int
    BY <1>2
  <2> QED
    BY <1>4, <2>1, QuotientSides
<1>6. PICK h \in Int : h = u \div 2 /\ h <= v
  BY <1>3
<1>7. W!Scale(r) = W!Bounded(q, h, v)
  BY <1>1, <1>2, <1>3, <1>5, <1>6 DEF W!Scale
<1>8. W!Bounded(q, h, v) = v
  BY <1>5, <1>6 DEF W!Bounded
<1> QED
  BY <1>1, <1>3, <1>7, <1>8

\* The strengthening: of a synapse nobody drives, that it grows, and that no
\* rate passes one.
RunInv ==
  /\ LifeInv
  /\ ~driven => rate \in 0 .. Unit /\ Growing(synapse, time % Beat)

\* It holds at the start,
LEMMA RunStarts == W!LifeInit => RunInv
<1> SUFFICES ASSUME W!LifeInit PROVE RunInv
  OBVIOUS
<1>1. time = 0 /\ rate = 0 /\ \E w \in Newborn : synapse = W!Fresh(w)
  BY DEF W!LifeInit
<1>2. LifeInv
  BY <1>1, FreshSound, RuleSizes DEF LifeInv
<1>3. Growing(synapse, 0)
  BY <1>1, NewGrow, RuleSizes
<1>4. time % Beat = 0 /\ rate \in 0 .. Unit
  BY <1>1, AgeSizes
<1> QED
  BY <1>2, <1>3, <1>4 DEF RunInv

\* a step keeps it,
LEMMA RunKeeps ==
  ASSUME RunInv, W!LifeStep
  PROVE  RunInv'
<1>1. LifeInv'
  BY LifeStepKeeps DEF RunInv
<1>2. ASSUME ~driven
      PROVE  rate' \in 0 .. Unit /\ Growing(synapse', time' % Beat)
  <2>1. rate \in 0 .. Unit /\ Growing(synapse, time % Beat) /\ time \in Nat
    BY <1>2 DEF RunInv, LifeInv
  <2>2. PICK amp \in Amps :
          LET x == W!Stepped(synapse, amp) IN
          IF (time + 1) % Beat # 0 THEN synapse' = x /\ rate' = rate
          ELSE /\ \E y \in W!Reborn(W!Pruned(W!Aged(x))) :
                    synapse' = W!Scaled(y, W!Scale(rate))
               /\ rate' = IF rate < Unit THEN rate + 1 ELSE rate
    BY DEF W!LifeStep
  <2>3. time' = time + 1
    BY DEF W!LifeStep
  <2>4. rate' \in 0 .. Unit
    BY <2>1, <2>2, AgeSizes
  <2>5. PICK x : x = W!Stepped(synapse, amp)
    OBVIOUS
  <2>6. PICK k \in Nat : k = time % Beat
    BY <2>1, NextBeat
  <2>7. Growing(x, k + 1)
    BY <2>1, <2>5, <2>6, SteppedGrows
  <2>8. CASE (time + 1) % Beat # 0
    <3>1. (time + 1) % Beat = k + 1
      BY <2>1, <2>6, <2>8, NextBeat
    <3>2. synapse' = x
      BY <2>2, <2>5, <2>8
    <3> QED
      BY <2>3, <2>4, <2>7, <3>1, <3>2
  <2>9. CASE (time + 1) % Beat = 0
    <3>1. k + 1 = Beat
      BY <2>1, <2>6, <2>9, NextBeat
    <3>2. PICK y \in W!Reborn(W!Pruned(W!Aged(x))) :
            synapse' = W!Scaled(y, W!Scale(rate))
      BY <2>2, <2>5, <2>9
    <3>3. W!Scale(rate) = 2 * Unit
      BY <2>1, ScaleIsTwo
    <3>4. Growing(synapse', 0)
      BY <2>7, <3>1, <3>2, <3>3, MaintainedGrows
    <3> QED
      BY <2>3, <2>4, <2>9, <3>4
  <2> QED
    BY <2>8, <2>9
<1>3. driven' = driven
  BY DEF W!LifeStep
<1> QED
  BY <1>1, <1>2, <1>3 DEF RunInv

\* For all the parameters for which doubling comes to the end of the type
\* before senescence takes anything: a synapse nobody drives and that was not
\* pruned has doubled in every maintenance, and what is at the end stays there.
THEOREM WeightsOnlyGrow == LearnSpec => [](part = "weight" => W!WeightsRunAway)
<1>1. LearnInit => RunInv
  BY RunStarts DEF LearnInit
<1>2. RunInv /\ [LearnNext]_learnVars => RunInv'
  <2> SUFFICES ASSUME RunInv, [LearnNext]_learnVars
               PROVE  RunInv'
    OBVIOUS
  <2>1. W!LifeNext \/ UNCHANGED weight
    BY DEF LearnNext, Still, learnVars
  <2>2. CASE UNCHANGED weight
    BY <2>2 DEF weight, RunInv, LifeInv
  <2>3. CASE W!LifeStep
    BY <2>3, RunKeeps
  <2>4. CASE W!Spike
    <3>1. LifeInv'
      BY <2>4, ReportKeeps DEF RunInv
    <3>2. driven /\ driven' = driven
      BY <2>4 DEF W!Spike
    <3> QED
      BY <3>1, <3>2 DEF RunInv
  <2> QED
    BY <2>1, <2>2, <2>3, <2>4 DEF W!LifeNext
<1>3. RunInv => (part = "weight" => W!WeightsRunAway)
  BY DEF RunInv, Growing, W!WeightsRunAway
<1> QED
  BY <1>1, <1>2, <1>3, PTL DEF LearnSpec

\* What fades is not more, and of no other sign.
LEMMA DecayedSign ==
  ASSUME NEW x \in Int, NEW dt \in Nat
  PROVE  /\ W!Decayed(x, dt) \in Int
         /\ x <= 0 => W!Decayed(x, dt) <= 0
         /\ x >= 0 => W!Decayed(x, dt) >= 0
BY DEF W!Decayed, W!Into

\* Clamped to either side of zero, neither is what is clamped.
LEMMA IntoSign ==
  ASSUME NEW x \in Int, NEW c \in Nat
  PROVE  /\ W!Into(x, -c, c) \in Int
         /\ x <= 0 => W!Into(x, -c, c) <= 0
         /\ x >= 0 => W!Into(x, -c, c) >= 0
BY DEF W!Into

\* The strengthening: times are not ahead of now, and the traces and weights
\* of a synapse have the sign its own neurons' other roles allow.
RuleInv ==
  /\ now \in Nat \ {0}
  /\ trace \in [Links -> Int] /\ strength \in [Links -> Int]
  /\ upd \in [Links -> 0 .. now]
  /\ lastPre \in [Spiking -> 0 .. now] /\ lastPost \in [Spiking -> 0 .. now]
  /\ W!PartnerIsIgnored

\* It holds at the start.
LEMMA RuleStarts == W!StdpInit => RuleInv
<1> SUFFICES ASSUME W!StdpInit PROVE RuleInv
  OBVIOUS
<1>1. /\ now = 1 /\ trace = [l \in Links |-> 0] /\ upd = [l \in Links |-> 0]
      /\ lastPre = [c \in Spiking |-> 0] /\ lastPost = [c \in Spiking |-> 0]
      /\ strength = [l \in Links |-> 0]
  BY DEF W!StdpInit
<1>2. W!PartnerIsIgnored
  BY <1>1 DEF W!PartnerIsIgnored
<1> QED
  BY <1>1, <1>2 DEF RuleInv

\* What is left of a trace now.
LEMMA FadedSign ==
  ASSUME RuleInv, NEW l \in Links
  PROVE  /\ W!Faded(l) \in Int
         /\ trace[l] <= 0 => W!Faded(l) <= 0
         /\ trace[l] >= 0 => W!Faded(l) >= 0
<1>1. PICK x \in Int, dt \in Nat : x = trace[l] /\ dt = now - upd[l]
  BY DEF RuleInv
<1>2. W!Faded(l) = W!Decayed(x, dt)
  BY <1>1 DEF W!Faded
<1> QED
  BY <1>1, <1>2, DecayedSign

\* What a pair adds is more than nothing.
LEMMA AmountNat ==
  ASSUME RuleInv, NEW last \in 0 .. now, W!Paired(last)
  PROVE  /\ (Delay - (now - last)) * 2 \in Nat
         /\ (Delay - (now - last)) * 1 \in Nat
<1>1. PICK n \in Nat : n = Delay - (now - last)
  BY RuleSizes DEF W!Paired, RuleInv
<1>2. n * 1 \in Nat /\ n * 2 \in Nat
  OBVIOUS
<1> QED
  BY <1>1, <1>2

\* A presynaptic spike.
LEMMA PreKeeps ==
  ASSUME RuleInv, NEW c \in Spiking, W!PreSpike(c)
  PROVE  RuleInv'
<1> DEFINE More(l) == IF W!Paired(W!Partner(l, "pre"))
                      THEN W!Amount(W!Partner(l, "pre"), W!Strong(calcium'[c]))
                      ELSE 0
<1>1. /\ lastPre' = [lastPre EXCEPT ![c] = now]
      /\ trace' = [l \in Links |-> IF l[1] # c THEN trace[l]
                     ELSE W!Into(W!Faded(l) + More(l), -ClampE, ClampE)]
      /\ upd' = [l \in Links |-> IF l[1] = c THEN now ELSE upd[l]]
      /\ UNCHANGED <<now, lastPost, strength>>
  BY DEF W!PreSpike
<1>2. ASSUME NEW l \in Links
      PROVE  More(l) \in Nat /\ (lastPost[l[1]] = 0 => More(l) = 0)
  <2>1. W!Partner(l, "pre") = lastPost[l[1]] /\ lastPost[l[1]] \in 0 .. now
    BY RuleSizes DEF W!Partner, RuleInv
  <2>2. PICK last \in 0 .. now : last = lastPost[l[1]]
    BY <2>1
  <2>4. CASE W!Paired(last)
    <3>1. /\ (Delay - (now - last)) * 2 \in Nat
          /\ (Delay - (now - last)) * 1 \in Nat
      BY <2>4, AmountNat
    <3> QED
      BY <2>1, <2>2, <2>4, <3>1 DEF W!Paired, W!Amount
  <2>5. CASE ~W!Paired(last)
    BY <2>1, <2>2, <2>5
  <2> QED
    BY <2>4, <2>5
<1> HIDE DEF More
<1>3. ASSUME NEW l \in Links
      PROVE  /\ trace'[l] \in Int
             /\ lastPost'[l[1]] = 0 => trace'[l] <= 0
             /\ lastPre'[l[2]] = 0 => trace'[l] >= 0
  <2>1. /\ trace[l] \in Int
        /\ lastPost[l[1]] = 0 => trace[l] <= 0
        /\ lastPre[l[2]] = 0 => trace[l] >= 0
    BY DEF RuleInv, W!PartnerIsIgnored
  <2>2. lastPre'[l[2]] = 0 => lastPre[l[2]] = 0
    BY <1>1, RuleSizes DEF RuleInv
  <2>3. CASE l[1] # c
    BY <1>1, <2>1, <2>2, <2>3
  <2>4. CASE l[1] = c
    <3>1. PICK f \in Int, n \in Nat : f = W!Faded(l) /\ n = More(l)
      BY <1>2, FadedSign
    <3>2. trace'[l] = W!Into(f + n, -ClampE, ClampE)
      BY <1>1, <2>4, <3>1
    <3>3. PICK e \in Int : e = f + n
      OBVIOUS
    <3>4. /\ W!Into(e, -ClampE, ClampE) \in Int
          /\ e <= 0 => W!Into(e, -ClampE, ClampE) <= 0
          /\ e >= 0 => W!Into(e, -ClampE, ClampE) >= 0
      BY IntoSign, RuleSizes
    <3> QED
      BY <1>1, <1>2, <2>1, <2>2, <3>1, <3>2, <3>3, <3>4, FadedSign
  <2> QED
    BY <2>3, <2>4
<1>4. W!PartnerIsIgnored'
  <2>1. \A l \in Links : /\ lastPost[l[1]] = 0 => strength[l] <= 0
                         /\ lastPre[l[2]] = 0 => strength[l] >= 0
    BY DEF RuleInv, W!PartnerIsIgnored
  <2>2. \A l \in Links : lastPre'[l[2]] = 0 => lastPre[l[2]] = 0
    BY <1>1, RuleSizes DEF RuleInv
  <2> QED
    BY <1>1, <1>3, <2>1, <2>2 DEF W!PartnerIsIgnored
<1>5. /\ upd' \in [Links -> 0 .. now] /\ lastPre' \in [Spiking -> 0 .. now]
      /\ lastPost' \in [Spiking -> 0 .. now] /\ now' = now
  BY <1>1 DEF RuleInv
<1>6. trace' \in [Links -> Int]
  BY <1>1, <1>3
<1> QED
  BY <1>1, <1>4, <1>5, <1>6 DEF RuleInv

\* A postsynaptic one.
LEMMA PostKeeps ==
  ASSUME RuleInv, NEW c \in Spiking, W!PostSpike(c)
  PROVE  RuleInv'
<1> DEFINE Less(l) == IF W!Paired(W!Partner(l, "post"))
                      THEN W!Amount(W!Partner(l, "post"),
                                    W!Still(c) \/ W!Weak(calcium'[c]))
                      ELSE 0
<1>1. /\ lastPost' = [lastPost EXCEPT ![c] = now]
      /\ trace' = [l \in Links |-> IF l[2] # c THEN trace[l]
                     ELSE W!Into(W!Faded(l) - Less(l), -ClampE, ClampE)]
      /\ upd' = [l \in Links |-> IF l[2] = c THEN now ELSE upd[l]]
      /\ UNCHANGED <<now, lastPre, strength>>
  BY DEF W!PostSpike
<1>2. ASSUME NEW l \in Links
      PROVE  Less(l) \in Nat /\ (lastPre[l[2]] = 0 => Less(l) = 0)
  <2>1. W!Partner(l, "post") = lastPre[l[2]] /\ lastPre[l[2]] \in 0 .. now
    BY RuleSizes DEF W!Partner, RuleInv
  <2>2. PICK last \in 0 .. now : last = lastPre[l[2]]
    BY <2>1
  <2>4. CASE W!Paired(last)
    <3>1. /\ (Delay - (now - last)) * 2 \in Nat
          /\ (Delay - (now - last)) * 1 \in Nat
      BY <2>4, AmountNat
    <3> QED
      BY <2>1, <2>2, <2>4, <3>1 DEF W!Paired, W!Amount
  <2>5. CASE ~W!Paired(last)
    BY <2>1, <2>2, <2>5
  <2> QED
    BY <2>4, <2>5
<1> HIDE DEF Less
<1>3. ASSUME NEW l \in Links
      PROVE  /\ trace'[l] \in Int
             /\ lastPost'[l[1]] = 0 => trace'[l] <= 0
             /\ lastPre'[l[2]] = 0 => trace'[l] >= 0
  <2>1. /\ trace[l] \in Int
        /\ lastPost[l[1]] = 0 => trace[l] <= 0
        /\ lastPre[l[2]] = 0 => trace[l] >= 0
    BY DEF RuleInv, W!PartnerIsIgnored
  <2>2. lastPost'[l[1]] = 0 => lastPost[l[1]] = 0
    BY <1>1, RuleSizes DEF RuleInv
  <2>3. CASE l[2] # c
    BY <1>1, <2>1, <2>2, <2>3
  <2>4. CASE l[2] = c
    <3>1. PICK f \in Int, n \in Nat : f = W!Faded(l) /\ n = Less(l)
      BY <1>2, FadedSign
    <3>2. trace'[l] = W!Into(f - n, -ClampE, ClampE)
      BY <1>1, <2>4, <3>1
    <3>3. PICK e \in Int : e = f - n
      OBVIOUS
    <3>4. /\ W!Into(e, -ClampE, ClampE) \in Int
          /\ e <= 0 => W!Into(e, -ClampE, ClampE) <= 0
          /\ e >= 0 => W!Into(e, -ClampE, ClampE) >= 0
      BY IntoSign, RuleSizes
    <3> QED
      BY <1>1, <1>2, <2>1, <2>2, <3>1, <3>2, <3>3, <3>4, FadedSign
  <2> QED
    BY <2>3, <2>4
<1>4. W!PartnerIsIgnored'
  <2>1. \A l \in Links : /\ lastPost[l[1]] = 0 => strength[l] <= 0
                         /\ lastPre[l[2]] = 0 => strength[l] >= 0
    BY DEF RuleInv, W!PartnerIsIgnored
  <2>2. \A l \in Links : lastPost'[l[1]] = 0 => lastPost[l[1]] = 0
    BY <1>1, RuleSizes DEF RuleInv
  <2> QED
    BY <1>1, <1>3, <2>1, <2>2 DEF W!PartnerIsIgnored
<1>5. /\ upd' \in [Links -> 0 .. now] /\ lastPost' \in [Spiking -> 0 .. now]
      /\ lastPre' \in [Spiking -> 0 .. now] /\ now' = now
  BY <1>1 DEF RuleInv
<1>6. trace' \in [Links -> Int]
  BY <1>1, <1>3
<1> QED
  BY <1>1, <1>4, <1>5, <1>6 DEF RuleInv

\* A reward gives a weight what is left of its trace, or nothing.
LEMMA RewardKeeps ==
  ASSUME RuleInv, W!Reward
  PROVE  RuleInv'
<1>1. PICK r \in {0, 1} :
        strength' = [l \in Links |-> W!Into(strength[l] + r * W!Faded(l),
                                            -MaxWeight, MaxWeight)]
  BY DEF W!Reward
<1>2. UNCHANGED <<now, trace, upd, lastPre, lastPost>>
  BY DEF W!Reward
<1>3. ASSUME NEW l \in Links
      PROVE  /\ strength'[l] \in Int
             /\ lastPost[l[1]] = 0 => strength'[l] <= 0
             /\ lastPre[l[2]] = 0 => strength'[l] >= 0
  <2>1. /\ trace[l] \in Int /\ strength[l] \in Int
        /\ lastPost[l[1]] = 0 => trace[l] <= 0 /\ strength[l] <= 0
        /\ lastPre[l[2]] = 0 => trace[l] >= 0 /\ strength[l] >= 0
    BY DEF RuleInv, W!PartnerIsIgnored
  <2>2. PICK f \in Int : f = W!Faded(l)
    BY FadedSign
  <2>3. PICK g \in Int : g = r * f /\ (g = 0 \/ g = f)
    <3>1. 0 * f = 0 /\ 1 * f = f
      OBVIOUS
    <3> QED
      BY <3>1
  <2>4. PICK e \in Int : e = strength[l] + g
    BY <2>1
  <2>5. /\ W!Into(e, -MaxWeight, MaxWeight) \in Int
        /\ e <= 0 => W!Into(e, -MaxWeight, MaxWeight) <= 0
        /\ e >= 0 => W!Into(e, -MaxWeight, MaxWeight) >= 0
    BY IntoSign, RuleSizes
  <2>6. strength'[l] = W!Into(e, -MaxWeight, MaxWeight)
    BY <1>1, <2>2, <2>3, <2>4
  <2> QED
    BY <2>1, <2>2, <2>3, <2>4, <2>5, <2>6, FadedSign
<1>4. W!PartnerIsIgnored'
  <2>1. \A l \in Links : /\ lastPost[l[1]] = 0 => trace[l] <= 0
                         /\ lastPre[l[2]] = 0 => trace[l] >= 0
    BY DEF RuleInv, W!PartnerIsIgnored
  <2> QED
    BY <1>2, <1>3, <2>1 DEF W!PartnerIsIgnored
<1>5. strength' \in [Links -> Int]
  BY <1>1, <1>3
<1> QED
  BY <1>2, <1>4, <1>5 DEF RuleInv

\* Forgotten traces have no sign.
LEMMA ClearKeeps ==
  ASSUME RuleInv, W!Clear
  PROVE  RuleInv'
<1>1. /\ trace' = [l \in Links |-> 0]
      /\ UNCHANGED upd \/ upd' = [l \in Links |-> 0]
      /\ UNCHANGED <<now, lastPre, lastPost, strength>>
  BY DEF W!Clear
<1>2. W!PartnerIsIgnored'
  BY <1>1 DEF RuleInv, W!PartnerIsIgnored
<1>3. upd' \in [Links -> 0 .. now]
  BY <1>1 DEF RuleInv
<1> QED
  BY <1>1, <1>2, <1>3 DEF RuleInv

\* Time goes on.
LEMMA TickKeeps ==
  ASSUME RuleInv, W!Tick
  PROVE  RuleInv'
<1>1. now' = now + 1 /\ UNCHANGED <<trace, upd, lastPre, lastPost, strength>>
  BY DEF W!Tick
<1>2. \A i \in 0 .. now : i \in 0 .. now'
  BY <1>1 DEF RuleInv
<1>3. W!PartnerIsIgnored'
  BY <1>1 DEF RuleInv, W!PartnerIsIgnored
<1>4. /\ upd' \in [Links -> 0 .. now'] /\ lastPost' \in [Spiking -> 0 .. now']
      /\ lastPre' \in [Spiking -> 0 .. now']
  BY <1>1, <1>2 DEF RuleInv
<1> QED
  BY <1>1, <1>3, <1>4 DEF RuleInv

\* Every step keeps the strengthening.
LEMMA RulesKeep == RuleInv /\ [LearnNext]_learnVars => RuleInv'
<1> SUFFICES ASSUME RuleInv, [LearnNext]_learnVars PROVE RuleInv'
  OBVIOUS
<1>1. W!StdpNext \/ UNCHANGED stdp
  BY DEF LearnNext, Still, learnVars
<1>2. CASE UNCHANGED stdp
  BY <1>2 DEF stdp, RuleInv, W!PartnerIsIgnored
<1>3. ASSUME NEW c \in Spiking, W!Plateau(c) PROVE RuleInv'
  BY <1>3 DEF W!Plateau, RuleInv, W!PartnerIsIgnored
<1>4. CASE W!StdpNext
  BY <1>3, <1>4, PreKeeps, PostKeeps, RewardKeeps, ClearKeeps, TickKeeps
     DEF W!StdpNext
<1> QED
  BY <1>1, <1>2, <1>4

\* A synapse gains only after its presynaptic neuron has fired, and loses only
\* after its postsynaptic one has.
SideInv ==
  \A l \in Links : /\ lastPre[l[1]] = 0 => trace[l] <= 0 /\ strength[l] <= 0
                   /\ lastPost[l[2]] = 0 => trace[l] >= 0 /\ strength[l] >= 0

\* What a paired spike changes a trace by has one sign, whatever the partner
\* and whether calcium favours it or not.
LEMMA AmountSign ==
  ASSUME RuleInv, NEW last \in 0 .. now, NEW more
  PROVE  (IF W!Paired(last) THEN W!Amount(last, more) ELSE 0) \in Nat
<1>1. CASE W!Paired(last)
  BY <1>1, AmountNat DEF W!Amount
<1>2. CASE ~W!Paired(last)
  BY <1>2
<1> QED
  BY <1>1, <1>2

\* A presynaptic spike only raises the traces of its neuron.
LEMMA PreSide ==
  ASSUME RuleInv, SideInv, NEW c \in Spiking, W!PreSpike(c)
  PROVE  SideInv'
<1>1. /\ lastPre' = [lastPre EXCEPT ![c] = now]
      /\ UNCHANGED <<now, lastPost, strength>>
      /\ now # 0
  BY DEF W!PreSpike, RuleInv
<1>2. ASSUME NEW l \in Links, lastPre'[l[1]] = 0 \/ lastPost'[l[2]] = 0
      PROVE  /\ lastPre'[l[1]] = 0 => lastPre[l[1]] = 0 /\ l[1] # c
             /\ l[1] # c => trace'[l] = trace[l]
             /\ l[1] = c /\ lastPost'[l[2]] = 0 => trace'[l] >= 0
  <2>1. lastPre'[l[1]] = 0 => lastPre[l[1]] = 0 /\ l[1] # c
    BY <1>1, RuleSizes DEF RuleInv
  <2>2. l[1] # c => trace'[l] = trace[l]
    BY DEF W!PreSpike
  <2>3. ASSUME l[1] = c, lastPost'[l[2]] = 0 PROVE trace'[l] >= 0
    <3>1. PICK last \in 0 .. now : last = W!Partner(l, "pre")
      BY RuleSizes DEF W!Partner, RuleInv
    <3>2. PICK n \in Nat :
            n = IF W!Paired(last) THEN W!Amount(last, W!Strong(calcium'[c])) ELSE 0
      BY <3>1, AmountSign
    <3>3. PICK f \in Int : f = W!Faded(l) /\ f >= 0
      BY <1>1, <2>3, FadedSign DEF SideInv
    <3>4. trace'[l] = W!Into(f + n, -ClampE, ClampE)
      BY <2>3, <3>1, <3>2, <3>3 DEF W!PreSpike
    <3>5. PICK e \in Int : e = f + n /\ e >= 0
      BY <3>3
    <3> QED
      BY <3>4, <3>5, IntoSign, RuleSizes
  <2> QED
    BY <2>1, <2>2, <2>3
<1> QED
  BY <1>1, <1>2 DEF SideInv

\* A postsynaptic spike only lowers those of its neuron.
LEMMA PostSide ==
  ASSUME RuleInv, SideInv, NEW c \in Spiking, W!PostSpike(c)
  PROVE  SideInv'
<1>1. /\ lastPost' = [lastPost EXCEPT ![c] = now]
      /\ UNCHANGED <<now, lastPre, strength>>
      /\ now # 0
  BY DEF W!PostSpike, RuleInv
<1>2. ASSUME NEW l \in Links, lastPre'[l[1]] = 0 \/ lastPost'[l[2]] = 0
      PROVE  /\ lastPost'[l[2]] = 0 => lastPost[l[2]] = 0 /\ l[2] # c
             /\ l[2] # c => trace'[l] = trace[l]
             /\ l[2] = c /\ lastPre'[l[1]] = 0 => trace'[l] <= 0
  <2>1. lastPost'[l[2]] = 0 => lastPost[l[2]] = 0 /\ l[2] # c
    BY <1>1, RuleSizes DEF RuleInv
  <2>2. l[2] # c => trace'[l] = trace[l]
    BY DEF W!PostSpike
  <2>3. ASSUME l[2] = c, lastPre'[l[1]] = 0 PROVE trace'[l] <= 0
    <3>1. PICK last \in 0 .. now : last = W!Partner(l, "post")
      BY RuleSizes DEF W!Partner, RuleInv
    <3>2. PICK n \in Nat :
            n = IF W!Paired(last)
                THEN W!Amount(last, W!Still(c) \/ W!Weak(calcium'[c])) ELSE 0
      BY <3>1, AmountSign
    <3>3. PICK f \in Int : f = W!Faded(l) /\ f <= 0
      BY <1>1, <2>3, FadedSign DEF SideInv
    <3>4. trace'[l] = W!Into(f - n, -ClampE, ClampE)
      BY <2>3, <3>1, <3>2, <3>3 DEF W!PostSpike
    <3>5. PICK e \in Int : e = f - n /\ e <= 0
      BY <3>3
    <3> QED
      BY <3>4, <3>5, IntoSign, RuleSizes
  <2> QED
    BY <2>1, <2>2, <2>3
<1> QED
  BY <1>1, <1>2 DEF SideInv

\* A reward moves a weight the way its trace points.
LEMMA RewardSide ==
  ASSUME RuleInv, SideInv, W!Reward
  PROVE  SideInv'
<1>1. PICK r \in {0, 1} :
        strength' = [l \in Links |-> W!Into(strength[l] + r * W!Faded(l),
                                            -MaxWeight, MaxWeight)]
  BY DEF W!Reward
<1>2. UNCHANGED <<trace, lastPre, lastPost>>
  BY DEF W!Reward
<1>3. ASSUME NEW l \in Links
      PROVE  /\ lastPre[l[1]] = 0 => strength'[l] <= 0
             /\ lastPost[l[2]] = 0 => strength'[l] >= 0
  <2>1. PICK f \in Int : f = W!Faded(l)
    BY FadedSign
  <2>2. PICK g \in Int : g = r * f /\ (g = 0 \/ g = f)
    <3>1. 0 * f = 0 /\ 1 * f = f
      OBVIOUS
    <3> QED
      BY <3>1
  <2>3. PICK e \in Int : e = strength[l] + g /\ strength[l] \in Int
    BY DEF RuleInv
  <2>4. strength'[l] = W!Into(e, -MaxWeight, MaxWeight)
    BY <1>1, <2>1, <2>2, <2>3
  <2>5. /\ e <= 0 => W!Into(e, -MaxWeight, MaxWeight) <= 0
        /\ e >= 0 => W!Into(e, -MaxWeight, MaxWeight) >= 0
    BY IntoSign, RuleSizes
  <2> QED
    BY <2>1, <2>2, <2>3, <2>4, <2>5, FadedSign DEF SideInv
<1> QED
  BY <1>2, <1>3 DEF SideInv

\* Every step keeps it.
LEMMA SidesKeep == RuleInv /\ SideInv /\ [LearnNext]_learnVars => SideInv'
<1> SUFFICES ASSUME RuleInv, SideInv, [LearnNext]_learnVars PROVE SideInv'
  OBVIOUS
<1>1. W!StdpNext \/ UNCHANGED stdp
  BY DEF LearnNext, Still, learnVars
<1>2. CASE UNCHANGED stdp
  BY <1>2 DEF stdp, SideInv
<1>3. CASE W!Clear
  BY <1>3 DEF W!Clear, SideInv
<1>4. CASE W!Tick
  BY <1>4 DEF W!Tick, SideInv
<1>5. ASSUME NEW c \in Spiking, W!Plateau(c) PROVE SideInv'
  BY <1>5 DEF W!Plateau, SideInv
<1> QED
  BY <1>1, <1>2, <1>3, <1>4, <1>5, PreSide, PostSide, RewardSide DEF W!StdpNext

\* The strengthening is an invariant.
LEMMA RuleInvariant == LearnSpec => [](RuleInv /\ SideInv)
<1>1. LearnInit => RuleInv /\ SideInv
  <2>1. W!StdpInit => SideInv
    BY RuleSizes DEF W!StdpInit, SideInv
  <2> QED
    BY <2>1, RuleStarts DEF LearnInit
<1>2. RuleInv /\ SideInv /\ [LearnNext]_learnVars => (RuleInv /\ SideInv)'
  BY RulesKeep, SidesKeep
<1> QED
  BY <1>1, <1>2, PTL DEF LearnSpec

\* A finding, for all synapses, windows, thresholds and clamps: a trace and a
\* weight gain only once the presynaptic neuron itself was reported as
\* postsynaptic, and lose only once the postsynaptic one was reported as
\* presynaptic; the pair the rule is named for is never seen.
THEOREM PartnerStaysIgnored == LearnSpec => [](part = "stdp" => W!PartnerIsIgnored)
<1>1. RuleInv => (part = "stdp" => W!PartnerIsIgnored)
  BY DEF RuleInv
<1> QED
  BY <1>1, RuleInvariant, PTL

\* Nothing is learnt without a pair of spikes of the synapse's own neurons.
LEMMA OnlyPairsTeach == RuleInv /\ SideInv => W!PairsOnly
<1> SUFFICES ASSUME RuleInv, SideInv, NEW l \in Links
             PROVE  /\ trace[l] > 0 \/ strength[l] > 0 =>
                         lastPre[l[1]] > 0 /\ lastPost[l[1]] > 0
                    /\ trace[l] < 0 \/ strength[l] < 0 =>
                         lastPost[l[2]] > 0 /\ lastPre[l[2]] > 0
  BY DEF W!PairsOnly
<1>1. /\ trace[l] \in Int /\ strength[l] \in Int
      /\ lastPre[l[1]] \in Nat /\ lastPost[l[1]] \in Nat
      /\ lastPre[l[2]] \in Nat /\ lastPost[l[2]] \in Nat
  BY RuleSizes DEF RuleInv
<1> QED
  BY <1>1 DEF RuleInv, SideInv, W!PartnerIsIgnored

\* A weight multiplied by what is not negative keeps its sign, saturated or not.
LEMMA ProductSign ==
  ASSUME NEW w \in Int, NEW f \in Nat
  PROVE  LET n == W!ToWeight(W!Times(w, f)) IN
         n \in Int /\ (w >= 0 => n >= 0) /\ (w <= 0 => n <= 0)
<1>1. PICK a \in Int : a = w * Fine /\ (w >= 0 => a >= 0) /\ (w <= 0 => a <= 0)
  BY RuleSizes
<1>2. PICK b \in Int : b = a * f /\ (a >= 0 => b >= 0) /\ (a <= 0 => b <= 0)
  OBVIOUS
<1>3. PICK q \in Int : /\ q = b \div Unit
                       /\ b >= 0 => q >= 0
                       /\ b <= 0 => q <= 0
  BY RuleSizes
<1>4. W!ToWeight(q) \in Int /\ (q >= 0 => W!ToWeight(q) >= 0)
                            /\ (q <= 0 => W!ToWeight(q) <= 0)
  <2>1. \A x \in Nat : x \div Fine \in Nat
    BY RuleSizes
  <2>2. CASE q < 0
    <3>1. PICK d \in Nat : d = (-q) \div Fine
      BY <2>1, <2>2
    <3> QED
      BY <2>2, <3>1, RuleSizes DEF W!ToWeight, W!Bounded
  <2>3. CASE q >= 0
    <3>1. PICK d \in Nat : d = q \div Fine
      BY <2>1, <2>3
    <3>2. q = 0 => d = 0
      BY <3>1, RuleSizes
    <3> QED
      BY <2>3, <3>1, <3>2, RuleSizes DEF W!ToWeight, W!Bounded
  <2> QED
    BY <2>2, <2>3
<1>5. W!Times(w, f) = q
  BY <1>1, <1>2, <1>3 DEF W!Times
<1> QED
  BY <1>1, <1>2, <1>3, <1>4, <1>5

\* Two weights that are not of opposite signs, in the order of maintenance.
Sided(v, w) == (v >= 0 => w >= 0) /\ (v <= 0 => w <= 0)

\* Senescence takes what is not more than all of a living synapse's weight.
LEMMA AgedSided ==
  ASSUME NEW x, SoundSynapse(x), W!Aged(x).age > x.age
  PROVE  Sided(x.w, W!Aged(x).w)
<1>1. PICK age \in Nat : age = x.age + 1
  BY DEF SoundSynapse
<1>2. x.plastic /\ age < MaxAge
  <2>1. CASE ~x.plastic
    <3>1. W!Aged(x) = x
      BY <2>1 DEF W!Aged
    <3> QED
      BY <3>1 DEF SoundSynapse
  <2>2. CASE x.plastic /\ age >= MaxAge
    <3>1. W!Aged(x) = W!Dead
      BY <1>1, <2>2 DEF W!Aged
    <3>2. W!Dead.age = 0
      BY DEF W!Dead, W!Fresh
    <3> QED
      BY <3>1, <3>2 DEF SoundSynapse
  <2> QED
    BY <1>1, <2>1, <2>2, RuleSizes
<1>3. PICK progress \in 0 .. Unit : progress = (age * Unit) \div MaxAge
  <2>1. PICK m \in Nat \ {0}, u \in Nat \ {0} : m = MaxAge /\ u = Unit
    BY RuleSizes
  <2>2. PICK e \in Nat : m = age + e
    <3>1. m - age \in Nat /\ m = age + (m - age)
      BY <1>2, <2>1
    <3> QED
      BY <3>1
  <2>3. PICK p \in Nat, r \in Nat : p = age * u /\ r = e * u
    OBVIOUS
  <2>4. m * u = p + r /\ m * u \in Nat
    BY <2>2, <2>3
  <2>5. PICK q \in Nat : q = p \div m
    BY <2>3
  <2>6. q <= u
    <3>1. PICK y \in Int : y = m * q /\ y <= p
      BY <2>5
    <3>2. ASSUME q >= u + 1 PROVE FALSE
      <4>1. PICK d \in Nat : q = u + 1 + d
        <5>1. q - (u + 1) \in Nat /\ q = u + 1 + (q - (u + 1))
          BY <3>2
        <5> QED
          BY <5>1
      <4>2. PICK z \in Nat : z = m * d
        OBVIOUS
      <4>3. y = m * u + m + z
        BY <3>1, <4>1, <4>2
      <4> QED
        BY <2>3, <2>4, <3>1, <4>2, <4>3
    <3> QED
      BY <3>2
  <2> QED
    BY <2>1, <2>3, <2>5, <2>6
<1>4. PICK f \in Nat : f = Unit - (progress \div 2)
  BY <1>3, RuleSizes
<1>5. W!Aged(x).w = W!ToWeight(W!Times(x.w, f))
  <2>0. PICK m, n :
          /\ m = W!Bounded((x.amp * (Unit - ((4 * progress) \div 5))) \div Unit,
                           1, x.amp)
          /\ n = W!ToWeight(W!Times(x.w, f))
    OBVIOUS
  <2>1. W!Aged(x) = [x EXCEPT !.age = age, !.w = n, !.amp = m]
    <3>1. ~(age >= MaxAge)
      BY <1>2, RuleSizes
    <3> QED
      BY <1>1, <1>2, <1>3, <1>4, <2>0, <3>1 DEF W!Aged
  <2>2. W!Aged(x) = [w |-> n, plastic |-> x.plastic, pre |-> x.pre,
                     post |-> x.post, amp |-> m, silence |-> x.silence, age |-> age]
    BY <2>1 DEF SoundSynapse
  <2> QED
    BY <2>0, <2>2
<1>6. x.w \in Int
  BY DEF SoundSynapse
<1> QED
  BY <1>4, <1>5, <1>6, ProductSign DEF Sided

\* Scaling multiplies, by at least a half.
LEMMA ScaledSided ==
  ASSUME NEW y, SoundSynapse(y), NEW f \in Nat
  PROVE  Sided(y.w, W!Scaled(y, f).w) /\ W!Scaled(y, f).age = y.age
<1>1. CASE y.plastic /\ y.w # 0
  <2>1. /\ W!Scaled(y, f).w = W!ToWeight(W!Times(y.w, f))
        /\ W!Scaled(y, f).age = y.age
    BY <1>1 DEF W!Scaled, SoundSynapse
  <2>2. y.w \in Int
    BY DEF SoundSynapse
  <2> QED
    BY <2>1, <2>2, ProductSign DEF Sided
<1>2. CASE ~(y.plastic /\ y.w # 0)
  BY <1>2 DEF W!Scaled, Sided
<1> QED
  BY <1>1, <1>2

\* The factor of scaling lies between a half and two.
LEMMA ScaleNat ==
  ASSUME LifeInv
  PROVE  W!Scale(rate) \in Nat
<1>1. PICK r \in Nat \ {0} : r = IF rate = 0 THEN 1 ELSE rate
  BY DEF LifeInv
<1>2. PICK n \in Int : n = (10 * Unit) * Unit
  BY RuleSizes
<1>3. PICK q \in Int : q = n \div r
  OBVIOUS
<1>4. PICK lo \in Nat, hi \in Nat : lo = Unit \div 2 /\ hi = 2 * Unit
  BY RuleSizes
<1>5. W!Scale(rate) = W!Bounded(q, lo, hi)
  BY <1>1, <1>2, <1>3, <1>4 DEF W!Scale
<1> QED
  BY <1>4, <1>5 DEF W!Bounded

\* A maintenance after which the synapse is older.
LEMMA MaintenanceSided ==
  ASSUME LifeInv, W!LifeStep, synapse'.age > synapse.age
  PROVE  Sided(synapse.w, synapse'.w)
<1>1. PICK amp \in Amps :
        LET x == W!Stepped(synapse, amp) IN
        IF (time + 1) % Beat # 0 THEN synapse' = x
        ELSE \E y \in W!Reborn(W!Pruned(W!Aged(x))) :
               synapse' = W!Scaled(y, W!Scale(rate))
  BY DEF W!LifeStep
<1>2. PICK x : x = W!Stepped(synapse, amp)
  OBVIOUS
<1>3. SoundSynapse(x) /\ x.w = synapse.w /\ x.age = synapse.age
  <2>1. x.w = synapse.w /\ x.age = synapse.age
    BY <1>2 DEF W!Stepped, LifeInv, SoundSynapse
  <2> QED
    BY <1>2, <2>1, SteppedSound DEF LifeInv
<1>4. PICK a : a = W!Aged(x) /\ SoundSynapse(a)
  BY <1>3, AgedSound
<1>5. PICK y \in W!Reborn(W!Pruned(a)) : synapse' = W!Scaled(y, W!Scale(rate))
  <2>1. synapse' # x
    BY <1>3 DEF SoundSynapse
  <2> QED
    BY <1>1, <1>2, <1>4, <2>1
<1>6. SoundSynapse(y) /\ (y = a \/ y.age = 0)
  <2>1. W!Pruned(a) = a \/ W!Pruned(a) = W!Dead
    BY DEF W!Pruned
  <2>2. y = a \/ y = W!Dead \/ y \in {W!Fresh(w) : w \in Newborn}
    BY <1>5, <2>1 DEF W!Reborn
  <2>3. \A w : W!Fresh(w).age = 0
    BY DEF W!Fresh
  <2>4. W!Dead.age = 0
    BY DEF W!Dead, W!Fresh
  <2> QED
    BY <1>4, <2>2, <2>3, <2>4, FreshSound, RuleSizes
<1>7. PICK f \in Nat : f = W!Scale(rate)
  BY ScaleNat
<1>8. Sided(y.w, synapse'.w) /\ synapse'.age = y.age
  BY <1>5, <1>6, <1>7, ScaledSided
<1>9. y = a /\ a.age > x.age
  BY <1>3, <1>6, <1>8 DEF SoundSynapse
<1>10. Sided(x.w, a.w)
  BY <1>3, <1>4, <1>9, AgedSided
<1> QED
  BY <1>3, <1>8, <1>9, <1>10 DEF Sided

\* For every range of the weights, age and beat of the maintenance: a weight
\* that leaves its type saturates, so no maintenance turns a synapse round.
THEOREM MaintenanceTurnsNone == LearnSpec => W!MaintenanceKeepsSign
<1> DEFINE Turned == synapse'.age > synapse.age =>
                       /\ synapse.w > 0 => synapse'.w >= 0
                       /\ synapse.w < 0 => synapse'.w <= 0
<1>1. LearnInit => LifeInv
  <2> SUFFICES ASSUME LearnInit PROVE LifeInv
    OBVIOUS
  <2>1. time = 0 /\ rate = 0 /\ \E w \in Newborn : synapse = W!Fresh(w)
    BY DEF LearnInit, W!LifeInit
  <2> QED
    BY <2>1, FreshSound, RuleSizes DEF LifeInv
<1>2. LifeInv /\ [LearnNext]_learnVars => LifeInv' /\ [Turned]_(W!lifeVars)
  <2> SUFFICES ASSUME LifeInv, [LearnNext]_learnVars
               PROVE  LifeInv' /\ [Turned]_(W!lifeVars)
    OBVIOUS
  <2>1. W!LifeNext \/ UNCHANGED weight
    BY DEF LearnNext, Still, learnVars
  <2>2. CASE UNCHANGED weight
    BY <2>2 DEF weight, LifeInv, W!lifeVars
  <2>3. CASE W!LifeStep
    <3>1. synapse.w \in Int
      BY DEF LifeInv, SoundSynapse
    <3>2. Sided(synapse.w, synapse'.w) => Turned
      BY <3>1 DEF Sided
    <3> QED
      BY <2>3, <3>2, LifeStepKeeps, MaintenanceSided
  <2>4. CASE W!Spike
    <3>1. synapse'.age = synapse.age
      BY <2>4 DEF W!Spike, W!OnPre, W!OnPost, LifeInv, SoundSynapse
    <3>2. LifeInv' /\ ~(synapse'.age > synapse.age)
      BY <2>4, <3>1, ReportKeeps DEF LifeInv, SoundSynapse
    <3> QED
      BY <3>2
  <2> QED
    BY <2>1, <2>2, <2>3, <2>4 DEF W!LifeNext
<1> QED
  BY <1>1, <1>2, PTL DEF LearnSpec, W!MaintenanceKeepsSign

\* The learning rules, for all their parameters: a pairing has its sign, no
\* maintenance turns a synapse round, and the rules of plasticity.rs learn
\* from pairs of spikes alone.
THEOREM WeightsStayRuled == LearnSpec => WeightsFollowRules
<1>1. RuleInv /\ SideInv => (part = "stdp" => W!PairsOnly)
  BY OnlyPairsTeach
<1> QED
  BY <1>1, PairingKeepsSign, MaintenanceTurnsNone, RuleInvariant, PTL
     DEF WeightsFollowRules

(* The episodic memory and the hippocampus.                                *)

\* The assumptions on the memory, one by one.
LEMMA MemorySizes ==
  /\ Pyramids \in Nat \ {0} /\ Short \in Nat \ {0} /\ HalfLife \in Nat \ {0}
  /\ MaxConsolidations \in Nat \ {0} /\ Long \in Nat /\ MaxDist \in Nat
  /\ MaxRecorded \in Nat /\ SwrDuration \in Nat /\ Winners \in Nat
  /\ \A s \in Significance : s \in 0 .. 20
  /\ \A k \in Hash : k \in Nat
  /\ 0 \in Hash
BY MemoryAssumption

\* The module's cardinality is the cardinality.
LEMMA ESize == \A X : E!Cardinality(X) = Cardinality(X)
BY DEF E!Cardinality, Cardinality

\* What one fibre and no collateral carry does not reach a threshold.
LEMMA FibreIsWeak ==
  ASSUME NEW won, NEW i
  PROVE  E!Mossy(won, i) \in Nat /\ E!Mossy(won, i) <= 1
BY DEF E!Mossy, E!Times, E!One

\* One pass of ca3_recurrent over cells of which none is active.
Recurrent(u, won, novelty) ==
  [i \in E!Cell |->
     LET act(j) == IF j < i THEN u[j] ELSE ca3[j]
         from == {j \in E!Cell \ {i} : E!Active(act(j))}
         in == E!Mossy(won, i) + E!MapThenSumSet(
                 LAMBDA j : E!Times(schaffer[E!Collateral(i, j)], act(j)), from)
         threshold == IF novelty > 4 THEN 3 ELSE 4
     IN  IF in > threshold THEN E!Clamped(in - threshold) ELSE 0]

\* A cell stays silent if those before it do.
LEMMA QuietCell ==
  ASSUME NEW u, NEW won, NEW novelty, NEW i \in E!Cell,
         \A j \in E!Cell : ca3[j] = 0 /\ (j < i => u[j] = 0)
  PROVE  Recurrent(u, won, novelty)[i] = 0
<1> DEFINE act(j) == IF j < i THEN u[j] ELSE ca3[j]
           from == {j \in E!Cell \ {i} : E!Active(act(j))}
           in == E!Mossy(won, i) + E!MapThenSumSet(
                   LAMBDA j : E!Times(schaffer[E!Collateral(i, j)], act(j)), from)
           threshold == IF novelty > 4 THEN 3 ELSE 4
<1>1. \A j \in E!Cell : act(j) = 0
  OBVIOUS
<1>2. from = {}
  <2>1. ~(0 > 2)
    OBVIOUS
  <2> HIDE DEF act
  <2> QED
    BY <1>1, <2>1 DEF E!Active
<1>3. E!MapThenSumSet(
        LAMBDA j : E!Times(schaffer[E!Collateral(i, j)], act(j)), from) = 0
  <2> HIDE DEF act, from
  <2> QED
    BY <1>2 DEF E!MapThenSumSet, E!MapThenFoldSet
<1> HIDE DEF act, from
<1>4. in = E!Mossy(won, i) + 0
  BY <1>3
<1>5. ~(in > threshold)
  BY <1>4, FibreIsWeak
<1> USE DEF act, from
<1>6. Recurrent(u, won, novelty)[i] =
        IF in > threshold THEN E!Clamped(in - threshold) ELSE 0
  BY DEF Recurrent
<1> HIDE DEF in, threshold
<1> QED
  BY <1>5, <1>6

\* So a silent CA3 stays silent.
LEMMA QuietPass ==
  ASSUME E!CA3StaysSilent, NEW won, NEW novelty
  PROVE  \A i \in E!Cell : E!CA3(won, novelty)[i] = 0
<1> DEFINE Rec(u) == Recurrent(u, won, novelty)
           zero == [i \in E!Cell |-> 0]
           w == CHOOSE u : u = Rec(u)
<1>0. \A j \in E!Cell : ca3[j] = 0
  BY DEF E!CA3StaysSilent
<1>1. E!CA3(won, novelty) = w
  BY DEF E!CA3, Recurrent
<1>2. zero = Rec(zero)
  <2>1. \A i \in E!Cell : Rec(zero)[i] = 0
    <3> TAKE i \in E!Cell
    <3>1. \A j \in E!Cell : ca3[j] = 0 /\ (j < i => zero[j] = 0)
      BY <1>0
    <3> HIDE DEF zero
    <3> QED
      BY <3>1, QuietCell
  <2>2. Rec(zero) = [i \in E!Cell |-> Rec(zero)[i]]
    BY DEF Recurrent
  <2> HIDE DEF Rec
  <2> QED
    BY <2>1, <2>2
<1>3. w = Rec(w)
  <2> HIDE DEF Rec, zero
  <2> QED
    BY <1>2
<1> HIDE DEF w
<1>4. ASSUME {i \in E!Cell : w[i] # 0} # {} PROVE FALSE
  <2>1. {i \in E!Cell : w[i] # 0} \in SUBSET Nat
    BY MemorySizes DEF E!Cell
  <2>2. PICK i \in {j \in E!Cell : w[j] # 0} :
          \A f \in {j \in E!Cell : w[j] # 0} : i <= f
    BY <1>4, <2>1, Least
  <2>3. i \in Nat /\ \A j \in E!Cell : j \in Nat
    BY <2>2, MemorySizes DEF E!Cell
  <2>4. \A j \in E!Cell : ca3[j] = 0 /\ (j < i => w[j] = 0)
    BY <1>0, <2>2, <2>3
  <2>5. Rec(w)[i] = 0
    BY <2>2, <2>4, QuietCell
  <2> HIDE DEF Rec
  <2> QED
    BY <1>3, <2>2, <2>5
<1> QED
  BY <1>1, <1>4

\* A hippocampus step leaves it silent and finds no ripple.
LEMMA HippocampusSilent ==
  ASSUME E!CA3StaysSilent, NEW input, NEW novelty, NEW reward, NEW theta0,
         E!HippocampusStep(input, novelty, reward, theta0)
  PROVE  E!CA3StaysSilent'
<1> DEFINE act == E!CA3(E!Winning(input), novelty)
<1>1. \A i \in E!Cell : act[i] = 0
  BY QuietPass
<1>2. \A i \in E!Cell : ~E!Active(act[i])
  <2>1. ~(0 > 2)
    OBVIOUS
  <2> HIDE DEF act
  <2> QED
    BY <1>1, <2>1 DEF E!Active
<1>3. /\ ca3' = [i \in E!Cell |-> IF E!Active(act[i])
                    THEN E!Clamped(act[i] + (IF E!Ripples(act, theta0)
                                             THEN E!Times(1, E!One) ELSE 0))
                    ELSE act[i]]
      /\ swr' = (/\ E!Ripples(act, theta0)
                 /\ (IF swr THEN timer ELSE 0) + 1 < SwrDuration)
  BY DEF E!HippocampusStep
<1> HIDE DEF act
<1>4. \A i \in E!Cell : ca3'[i] = 0
  BY <1>1, <1>2, <1>3
<1>5. ~E!Ripples(act, theta0)
  <2>1. {i \in E!Cell : E!Active(act[i])} = {}
    BY <1>2
  <2>2. E!Cardinality({}) = 0
    BY ESize, FS_EmptySet
  <2>3. ~(0 > Pyramids \div 4)
    BY MemorySizes
  <2>4. ~swr
    BY DEF E!CA3StaysSilent
  <2> QED
    BY <2>1, <2>2, <2>3, <2>4 DEF E!Ripples
<1>6. ~swr'
  BY <1>3, <1>5
<1> QED
  BY <1>4, <1>6 DEF E!CA3StaysSilent

\* The lesser of two numbers.
LEMMA LesserOfTwo ==
  ASSUME NEW a \in Int, NEW b \in Int
  PROVE  E!Min({a, b}) = IF a <= b THEN a ELSE b
<1>1. PICK m \in {a, b} : m = IF a <= b THEN a ELSE b
  OBVIOUS
<1>2. \A y \in {a, b} : m <= y
  BY <1>1
<1>3. \A x \in {a, b} : (\A y \in {a, b} : x <= y) => x = m
  BY <1>1
<1> QED
  BY <1>1, <1>2, <1>3 DEF E!Min

\* What is kept of a significance is no more than it.
LEMMA RetainedLess ==
  ASSUME NEW x \in 0 .. 20, NEW age \in Nat
  PROVE  E!Retained(x, age) \in 0 .. 20
<1>1. CASE age >= HalfLife
  BY <1>1, MemorySizes DEF E!Retained
<1>2. CASE ~(age >= HalfLife)
  <2>0. PICK h \in Nat \ {0} : h = HalfLife
    BY MemorySizes
  <2>1. PICK d \in Nat \ {0} : d = 2 * h
    BY <2>0
  <2>2. PICK k \in Nat : k = d - age /\ k <= d
    <3>1. d - age \in Nat /\ d - age <= d
      BY <1>2, <2>0, <2>1
    <3> QED
      BY <3>1
  <2>3. PICK p \in Nat : p = x * k
    BY <2>2
  <2>4. p <= 20 * d
    <3>1. PICK e \in Nat : 20 = x + e
      <4>1. 20 - x \in Nat /\ 20 = x + (20 - x)
        OBVIOUS
      <4> QED
        BY <4>1
    <3>2. PICK f \in Nat : d = k + f
      <4>1. d - k \in Nat /\ d = k + (d - k)
        BY <2>2
      <4> QED
        BY <4>1
    <3>3. PICK q \in Nat, r \in Nat : q = x * f /\ r = e * d
      OBVIOUS
    <3>4. x * d = p + q
      BY <2>3, <3>2, <3>3
    <3>5. 20 * d = x * d + r
      BY <3>1, <3>3
    <3>6. x * d \in Int
      OBVIOUS
    <3> QED
      BY <3>3, <3>4, <3>5, <3>6
  <2>5. PICK q \in Int : q = p \div d
    OBVIOUS
  <2>6. PICK m \in Int : m = d * q
    OBVIOUS
  <2>7. m <= p /\ p < m + d
    BY <2>5, <2>6
  <2>8. q >= 0
    BY <2>3, <2>5
  <2>9. q <= 20
    <3> SUFFICES ASSUME q >= 21 PROVE FALSE
      OBVIOUS
    <3>1. PICK e \in Nat : q = 21 + e
      <4>1. q - 21 \in Nat /\ q = 21 + (q - 21)
        OBVIOUS
      <4> QED
        BY <4>1
    <3>2. PICK y \in Nat : y = d * e
      OBVIOUS
    <3>3. m = 21 * d + y
      BY <2>6, <3>1, <3>2
    <3> QED
      BY <2>4, <2>7, <3>3
  <2>10. E!Retained(x, age) = q
    <3>1. age < HalfLife
      BY <1>2, <2>0
    <3>2. E!Retained(x, age) = (x * (2 * HalfLife - age)) \div (2 * HalfLife)
      BY <3>1 DEF E!Retained
    <3>3. 2 * HalfLife = d /\ 2 * HalfLife - age = k
      BY <2>0, <2>1, <2>2
    <3> QED
      BY <2>3, <2>5, <3>2, <3>3
  <2> QED
    BY <2>8, <2>9, <2>10
<1> QED
  BY <1>1, <1>2

\* One place before another: the higher score, or the same and the lower place.
Ahead(score, i, j) == score[i] > score[j] \/ (score[i] = score[j] /\ i < j)
Rank(score, Q, i) == Cardinality({j \in Q : Ahead(score, j, i)})

\* Of the places of a finite set each has a rank of its own, and every rank
\* below their number is one's.
LEMMA RanksAreUsed ==
  ASSUME NEW Q \in SUBSET Nat, IsFiniteSet(Q), NEW score \in [Q -> Int]
  PROVE  /\ \A i, j \in Q : Rank(score, Q, i) = Rank(score, Q, j) => i = j
         /\ \A k \in 1 .. Cardinality(Q) : \E i \in Q : Rank(score, Q, i) = k - 1
<1> DEFINE A(i) == {j \in Q : Ahead(score, j, i)}
           n == Cardinality(Q)
           r == [i \in Q |-> Cardinality(A(i))]
<1>0. n \in Nat
  BY FS_CardinalityType
<1>1. ASSUME NEW i \in Q
      PROVE  IsFiniteSet(A(i)) /\ Cardinality(A(i)) \in 0 .. n - 1
  <2>1. i \notin A(i) /\ A(i) \in SUBSET (Q \ {i})
    BY DEF Ahead
  <2>2. IsFiniteSet(Q \ {i}) /\ Cardinality(Q \ {i}) = n - 1
    BY FS_RemoveElement
  <2> HIDE DEF A, n
  <2>3. IsFiniteSet(A(i)) /\ Cardinality(A(i)) <= n - 1
    BY <2>1, <2>2, FS_Subset
  <2>4. Cardinality(A(i)) \in Nat
    BY <2>3, FS_CardinalityType
  <2> QED
    BY <1>0, <2>3, <2>4
<1>2. ASSUME NEW i \in Q, NEW j \in Q, Ahead(score, i, j)
      PROVE  Cardinality(A(i)) < Cardinality(A(j))
  <2>0. \A m \in Q : score[m] \in Int /\ m \in Int
    OBVIOUS
  <2>1. A(i) \in SUBSET A(j)
    <3>1. \A m \in Q : Ahead(score, m, i) => Ahead(score, m, j)
      BY <1>2, <2>0 DEF Ahead
    <3> QED
      BY <3>1
  <2>2. i \in A(j) /\ i \notin A(i)
    BY <1>2, <2>0 DEF Ahead
  <2>3. IsFiniteSet(A(j)) /\ Cardinality(A(i)) \in Nat /\ Cardinality(A(j)) \in Nat
    BY <1>1
  <2> HIDE DEF A
  <2>4. /\ Cardinality(A(i)) <= Cardinality(A(j))
        /\ Cardinality(A(j)) = Cardinality(A(i)) => A(j) = A(i)
    BY <2>1, <2>3, FS_Subset
  <2> QED
    BY <2>2, <2>3, <2>4
<1>3. \A i, j \in Q : i = j \/ Ahead(score, i, j) \/ Ahead(score, j, i)
  BY DEF Ahead
<1>4. \A i, j \in Q : r[i] = r[j] => i = j
  <2> TAKE i \in Q, j \in Q
  <2>1. r[i] = Cardinality(A(i)) /\ r[j] = Cardinality(A(j))
    OBVIOUS
  <2>2. r[i] \in Int /\ r[j] \in Int
    BY <1>1, <2>1
  <2> HIDE DEF r
  <2>3. Ahead(score, i, j) => r[i] < r[j]
    BY <1>2, <2>1
  <2>4. Ahead(score, j, i) => r[j] < r[i]
    BY <1>2, <2>1
  <2> HIDE DEF A
  <2> QED
    BY <1>3, <2>2, <2>3, <2>4
<1>5. r \in [Q -> 0 .. n - 1]
  <2> HIDE DEF A, n
  <2> QED
    BY <1>1
<1>6. IsFiniteSet(0 .. n - 1) /\ Cardinality(0 .. n - 1) = n
  <2> HIDE DEF n
  <2> QED
    BY <1>0, FS_Interval
<1>7. r \in Surjection(Q, 0 .. n - 1)
  <2>1. r \in Injection(Q, 0 .. n - 1)
    <3> HIDE DEF r, n
    <3> QED
      BY <1>4, <1>5 DEF Injection, IsInjective
  <2> HIDE DEF r
  <2> QED
    BY <1>6, <2>1, FS_Injection
<1>8. \A i \in Q : Rank(score, Q, i) = r[i]
  BY DEF Rank
<1>9. ASSUME NEW k \in 1 .. n PROVE \E i \in Q : r[i] = k - 1
  <2>1. k - 1 \in 0 .. n - 1
    <3> HIDE DEF n
    <3> QED
      BY <1>0
  <2> HIDE DEF r, n
  <2> QED
    BY <1>7, <2>1 DEF Surjection
<1> HIDE DEF r, n
<1>10. \A k \in 1 .. n : \E i \in Q : Rank(score, Q, i) = k - 1
  BY <1>8, <1>9
<1>11. \A i, j \in Q : Rank(score, Q, i) = Rank(score, Q, j) => i = j
  BY <1>4, <1>8
<1> QED
  BY <1>10, <1>11 DEF n

\* A trace, and what is known of the places.
Trace == [exp : 0 .. MaxRecorded, hash : Hash, sig : 0 .. 20,
          age : 0 .. HalfLife + 1, moved : 0 .. MaxConsolidations, valid : BOOLEAN]

\* The places of Q that are better scored than i.
Better(st, Q, i) ==
  {j \in Q : \/ E!Score(st[j]) > E!Score(st[i])
             \/ E!Score(st[j]) = E!Score(st[i]) /\ j < i}

\* What is moved are worthy places, each once, and no more than there is room.
LEMMA MovedFacts ==
  ASSUME NEW st \in [E!Place -> Trace], Len(long) \in Nat, Len(long) <= Long
  PROVE  \E n \in Nat :
           /\ n <= Long - Len(long) /\ DOMAIN E!Moved(st) = 1 .. n
           /\ E!Moved(st) = [k \in 1 .. n |-> E!Moved(st)[k]]
           /\ \A k \in 1 .. n : E!Moved(st)[k] \in E!Worthy(st)
           /\ \A j, k \in 1 .. n : E!Moved(st)[j] = E!Moved(st)[k] => j = k
<1> DEFINE Q == E!Worthy(st)
           score == [i \in Q |-> E!Score(st[i])]
           n == E!Min({E!Max({E!Cardinality(Q) \div 2, 1}), E!Room, E!Cardinality(Q)})
<1>1. Q \in SUBSET Nat /\ IsFiniteSet(Q) /\ Q \in SUBSET E!Place
  <2>1. Q \in SUBSET (0 .. Short - 1)
    BY DEF E!Worthy, E!Place
  <2>2. IsFiniteSet(0 .. Short - 1) /\ 0 .. Short - 1 \in SUBSET Nat
    BY FS_Interval, MemorySizes
  <2>3. IsFiniteSet(Q)
    <3> HIDE DEF Q
    <3> QED
      BY <2>1, <2>2, FS_Subset
  <2> HIDE DEF Q
  <2> QED
    BY <2>1, <2>2, <2>3 DEF E!Place
<1>2. score \in [Q -> Int]
  <2>1. \A i \in Q : E!Score(st[i]) \in Int
    <3> TAKE i \in Q
    <3>1. PICK x \in 0 .. 20, age \in Nat : x = st[i].sig /\ age = st[i].age
      BY <1>1, MemorySizes DEF Trace
    <3>2. E!Retained(x, age) \in 0 .. 20
      BY RetainedLess
    <3> QED
      BY <3>1, <3>2 DEF E!Score
  <2> HIDE DEF Q
  <2> QED
    BY <2>1
<1>3. PICK c \in Nat : c = Cardinality(Q) /\ c = E!Cardinality(Q)
  <2> HIDE DEF Q
  <2> QED
    BY <1>1, FS_CardinalityType, ESize
<1>4. n \in Nat /\ n <= Long - Len(long) /\ n <= c
  <2>1. PICK half \in Nat : half = E!Max({c \div 2, 1})
    <3>1. PICK d \in Nat : d = c \div 2
      OBVIOUS
    <3>2. PICK m \in {d, 1} : m = IF d >= 1 THEN d ELSE 1
      OBVIOUS
    <3>3. \A y \in {d, 1} : m >= y
      BY <3>2
    <3>4. E!Max({d, 1}) \in {d, 1}
      BY <3>3 DEF E!Max
    <3> QED
      BY <3>1, <3>4
  <2>2. PICK room \in Nat : room = Long - Len(long)
    BY MemorySizes
  <2>3. E!Room = room
    BY <2>2 DEF E!Room
  <2>4. PICK m \in {half, room, c} : \A y \in {half, room, c} : m <= y
    <3>1. CASE half <= room /\ half <= c
      BY <3>1
    <3>2. CASE room <= half /\ room <= c
      BY <3>2
    <3>3. CASE c <= half /\ c <= room
      BY <3>3
    <3> QED
      BY <3>1, <3>2, <3>3
  <2>5. PICK x : x = E!Min({half, room, c})
    OBVIOUS
  <2>6. x \in {half, room, c} /\ \A y \in {half, room, c} : x <= y
    BY <2>4, <2>5 DEF E!Min
  <2>7. n = x
    BY <1>3, <2>1, <2>3, <2>5
  <2> HIDE DEF n
  <2> QED
    BY <2>2, <2>6, <2>7
<1>5. E!Moved(st) = [k \in 1 .. n |-> CHOOSE i \in Q :
        E!Cardinality(Better(st, Q, i)) = k - 1]
  BY DEF E!Moved, Better
<1>6. \A i \in Q : E!Cardinality(Better(st, Q, i))
                     = Rank(score, Q, i)
  <2> TAKE i \in Q
  <2>1. \A j \in Q : score[j] = E!Score(st[j])
    OBVIOUS
  <2> HIDE DEF score, Q
  <2>2. Better(st, Q, i) = {j \in Q : Ahead(score, j, i)}
    BY <2>1 DEF Better, Ahead
  <2> QED
    BY <2>2, ESize DEF Rank
<1> HIDE DEF Q, score, n
<1>7. \A k \in 1 .. n : /\ E!Moved(st)[k] \in Q
                        /\ Rank(score, Q, E!Moved(st)[k]) = k - 1
  <2> TAKE k \in 1 .. n
  <2>1. E!Moved(st)[k] = CHOOSE i \in Q :
        E!Cardinality(Better(st, Q, i)) = k - 1
    BY <1>5
  <2>2. k \in 1 .. Cardinality(Q)
    BY <1>3, <1>4
  <2>3. PICK i \in Q : Rank(score, Q, i) = k - 1
    BY <1>1, <1>2, <2>2, RanksAreUsed
  <2>4. E!Cardinality(Better(st, Q, i)) = k - 1
    BY <1>6, <2>3
  <2>5. /\ E!Moved(st)[k] \in Q
        /\ E!Cardinality(Better(st, Q, E!Moved(st)[k])) = k - 1
    BY <2>1, <2>4
  <2> QED
    BY <1>6, <2>5
<1>8. \A j, k \in 1 .. n : E!Moved(st)[j] = E!Moved(st)[k] => j = k
  <2> TAKE j \in 1 .. n, k \in 1 .. n
  <2>1. j \in Int /\ k \in Int
    BY <1>4
  <2> QED
    BY <1>7, <2>1
<1>9. DOMAIN E!Moved(st) = 1 .. n
  BY <1>5
<1>10. E!Moved(st) = [k \in 1 .. n |-> E!Moved(st)[k]]
  BY <1>5
<1> QED
  BY <1>4, <1>7, <1>8, <1>9, <1>10 DEF Q

\* What the long-term store keeps of a trace, and where it has one's copies.
Memory == [exp : 0 .. MaxRecorded, hash : {0}]
Copies(l, e) == {k \in DOMAIN l : l[k].exp = e}

\* The strengthening: the valid traces are of different experiences, and each
\* counts at least the copies there are of it.
MemoryInv ==
  /\ short \in [E!Place -> Trace] /\ recorded \in 0 .. MaxRecorded
  /\ long \in Seq(Memory) /\ Len(long) <= Long
  /\ E!CA3StaysSilent
  /\ \A i \in E!Place : short[i].valid =>
       /\ short[i].hash = 0 /\ short[i].exp \in 1 .. recorded
       /\ short[i].moved < MaxConsolidations
       /\ Cardinality(Copies(long, short[i].exp)) <= short[i].moved
       /\ \A j \in E!Place : short[j].valid /\ short[j].exp = short[i].exp => i = j
  /\ \A k \in DOMAIN long : long[k].exp \in 1 .. recorded
  /\ \A e \in Nat : Cardinality(Copies(long, e)) <= MaxConsolidations

\* Copies are finitely many, of what is not in the store none.
LEMMA CopiesFinite ==
  ASSUME NEW l \in Seq(Memory), NEW e
  PROVE  /\ IsFiniteSet(Copies(l, e)) /\ Cardinality(Copies(l, e)) \in Nat
         /\ (\A k \in DOMAIN l : l[k].exp # e) => Cardinality(Copies(l, e)) = 0
<1>1. Copies(l, e) \in SUBSET (1 .. Len(l)) /\ IsFiniteSet(1 .. Len(l))
  BY FS_Interval DEF Copies
<1>2. IsFiniteSet(Copies(l, e)) /\ Cardinality(Copies(l, e)) \in Nat
  BY <1>1, FS_Subset, FS_CardinalityType
<1>3. ASSUME \A k \in DOMAIN l : l[k].exp # e PROVE Cardinality(Copies(l, e)) = 0
  <2>1. Copies(l, e) = {}
    BY <1>3 DEF Copies
  <2> QED
    BY <2>1, FS_EmptySet
<1> QED
  BY <1>2, <1>3

\* The appended sequence, place by place.
LEMMA Appended ==
  ASSUME NEW l \in Seq(Memory), NEW t \in Seq(Memory)
  PROVE  /\ l \o t \in Seq(Memory) /\ Len(l \o t) = Len(l) + Len(t)
         /\ DOMAIN (l \o t) = 1 .. Len(l) + Len(t) /\ DOMAIN l = 1 .. Len(l)
         /\ \A k \in 1 .. Len(l) : (l \o t)[k] = l[k]
         /\ \A k \in 1 .. Len(t) : (l \o t)[Len(l) + k] = t[k]
OBVIOUS

\* Appended traces add at most one copy, if no two are of one experience.
LEMMA CopiesGrow ==
  ASSUME NEW l \in Seq(Memory), NEW t \in Seq(Memory), NEW e,
         \A j, k \in DOMAIN t : t[j].exp = t[k].exp => j = k
  PROVE  /\ Cardinality(Copies(l \o t, e)) <= Cardinality(Copies(l, e)) + 1
         /\ (\A k \in DOMAIN t : t[k].exp # e) => Copies(l \o t, e) = Copies(l, e)
<1>1. /\ l \o t \in Seq(Memory) /\ DOMAIN l = 1 .. Len(l) /\ DOMAIN t = 1 .. Len(t)
      /\ DOMAIN (l \o t) = 1 .. Len(l) + Len(t) /\ Len(l) \in Nat /\ Len(t) \in Nat
      /\ \A k \in 1 .. Len(l) : (l \o t)[k] = l[k]
      /\ \A k \in 1 .. Len(t) : (l \o t)[Len(l) + k] = t[k]
  BY Appended
<1>2. PICK m : m = l \o t
  OBVIOUS
<1>3. PICK a \in Nat, b \in Nat : a = Len(l) /\ b = Len(t)
  BY <1>1
<1>4. /\ DOMAIN m = 1 .. a + b /\ DOMAIN l = 1 .. a /\ DOMAIN t = 1 .. b
      /\ \A k \in 1 .. a : m[k] = l[k]
      /\ \A k \in 1 .. b : m[a + k] = t[k]
  BY <1>1, <1>2, <1>3
<1>5. \A k \in 1 .. a + b : k \in 1 .. a \/ (k - a \in 1 .. b /\ a + (k - a) = k)
  OBVIOUS
<1>6. CASE \A k \in DOMAIN t : t[k].exp # e
  <2>1. ASSUME NEW k \in 1 .. a + b, m[k].exp = e, k \notin 1 .. a PROVE FALSE
    <3>1. k - a \in 1 .. b /\ a + (k - a) = k
      BY <1>5, <2>1
    <3>2. m[k] = t[k - a]
      BY <1>4, <3>1
    <3> QED
      BY <1>4, <1>6, <2>1, <3>1, <3>2
  <2>2. Copies(m, e) = Copies(l, e)
    BY <1>4, <2>1 DEF Copies
  <2>3. Cardinality(Copies(l, e)) \in Nat
    BY CopiesFinite
  <2> QED
    BY <1>2, <2>2, <2>3
<1>7. CASE \E k \in DOMAIN t : t[k].exp = e
  <2>1. PICK k \in 1 .. b : t[k].exp = e
    BY <1>4, <1>7
  <2>2. \A j \in 1 .. b : t[j].exp = e => j = k
    BY <1>4, <2>1
  <2>3. Copies(m, e) \in SUBSET (Copies(l, e) \cup {a + k})
    <3> SUFFICES ASSUME NEW j \in 1 .. a + b, m[j].exp = e, j \notin 1 .. a
                 PROVE  j = a + k
      BY <1>4 DEF Copies
    <3>1. j - a \in 1 .. b /\ a + (j - a) = j
      BY <1>5
    <3>2. t[j - a].exp = e
      BY <1>4, <3>1
    <3> QED
      BY <2>2, <3>1, <3>2
  <2>4. IsFiniteSet(Copies(l, e)) /\ Cardinality(Copies(l, e)) \in Nat
    BY CopiesFinite
  <2>5. /\ IsFiniteSet(Copies(l, e) \cup {a + k})
        /\ Cardinality(Copies(l, e) \cup {a + k}) <= Cardinality(Copies(l, e)) + 1
    <3>1. PICK C : C = Copies(l, e)
      OBVIOUS
    <3>2. PICK x : x = a + k
      OBVIOUS
    <3>3. /\ IsFiniteSet(C \cup {x})
          /\ Cardinality(C \cup {x}) =
               IF x \in C THEN Cardinality(C) ELSE Cardinality(C) + 1
      BY <2>4, <3>1, FS_AddElement
    <3> QED
      BY <2>4, <3>1, <3>2, <3>3
  <2>6. IsFiniteSet(Copies(m, e)) /\ Cardinality(Copies(m, e)) \in Nat
    BY <1>1, <1>2, CopiesFinite
  <2>7. Cardinality(Copies(m, e)) <= Cardinality(Copies(l, e) \cup {a + k})
    BY <2>3, <2>5, FS_Subset
  <2>8. Cardinality(Copies(l, e) \cup {a + k}) \in Nat
    BY <2>5, FS_CardinalityType
  <2> QED
    BY <1>2, <1>7, <2>4, <2>5, <2>6, <2>7, <2>8
<1> QED
  BY <1>6, <1>7

\* Nothing is remembered at first.
LEMMA MemoryStarts == E!Init => MemoryInv
<1> SUFFICES ASSUME E!Init PROVE MemoryInv
  OBVIOUS
<1>1. /\ short = [i \in E!Place |-> E!Empty] /\ recorded = 0 /\ long = <<>>
      /\ ca3 = [i \in E!Cell |-> 0] /\ swr = FALSE
  BY DEF E!Init, E!HippocampusInit
<1>2. E!Empty \in Trace /\ ~E!Empty.valid
  BY MemorySizes DEF E!Empty, Trace
<1>3. E!CA3StaysSilent
  BY <1>1 DEF E!CA3StaysSilent
<1>4. long \in Seq(Memory) /\ Len(long) = 0 /\ DOMAIN long = {}
  BY <1>1
<1>5. \A e \in Nat : Cardinality(Copies(long, e)) = 0
  BY <1>4, CopiesFinite
<1>6. recorded \in 0 .. MaxRecorded /\ 0 <= Long /\ 0 <= MaxConsolidations
  BY <1>1, MemorySizes
<1> QED
  BY <1>1, <1>2, <1>3, <1>4, <1>5, <1>6 DEF MemoryInv

\* What is recorded has the hash zero, and is not in the store yet.
LEMMA RecordKeepsMemory ==
  ASSUME MemoryInv, E!Record
  PROVE  MemoryInv' /\ UNCHANGED long
<1>1. PICK s \in Significance, next \in Hash :
        short' = [short EXCEPT ![recorded % Short] =
                    [exp |-> recorded + 1, hash |-> E!StateHash(next), sig |-> s,
                     age |-> 0, moved |-> 0, valid |-> TRUE]]
  BY DEF E!Record
<1>2. /\ recorded < MaxRecorded /\ recorded' = recorded + 1
      /\ UNCHANGED <<long, ca3, swr>>
  BY DEF E!Record, E!hippocampus
<1>3. E!StateHash(next) = 0
  <2>1. \A e \in E!Known : e = 0
    <3>1. \A i \in E!Valid : short[i].hash = 0
      BY DEF MemoryInv, E!Valid
    <3>2. \A k \in DOMAIN long : long[k] \in Memory
      BY DEF MemoryInv
    <3>3. \A x \in E!Range(long) : x.hash = 0
      BY <3>2 DEF E!Range, Memory
    <3> QED
      BY <3>1, <3>3 DEF E!Known
  <2>2. \A e \in E!Recalled : e = 0
    BY <2>1 DEF E!Recalled
  <2>3. CASE E!Recalled = {}
    BY <2>3 DEF E!StateHash
  <2>4. CASE E!Recalled # {}
    <3>1. \E x \in E!Recalled : \A y \in E!Recalled : x <= y
      BY <2>2, <2>4
    <3>2. E!Min(E!Recalled) \in E!Recalled
      BY <3>1 DEF E!Min
    <3> QED
      BY <2>2, <2>4, <3>2 DEF E!StateHash
  <2> QED
    BY <2>3, <2>4
<1>4. PICK p \in E!Place : p = recorded % Short
  <2>1. PICK n \in Nat, d \in Nat \ {0} : n = recorded /\ d = Short
    BY MemorySizes DEF MemoryInv
  <2>2. n % d \in 0 .. d - 1
    OBVIOUS
  <2> QED
    BY <2>1, <2>2 DEF E!Place
<1>5. PICK x \in Trace : x = [exp |-> recorded + 1, hash |-> 0, sig |-> s,
                              age |-> 0, moved |-> 0, valid |-> TRUE]
  <2>1. recorded + 1 \in 0 .. MaxRecorded
    BY <1>2, MemorySizes DEF MemoryInv
  <2>2. s \in 0 .. 20 /\ 0 \in Hash /\ 0 \in 0 .. HalfLife + 1
        /\ 0 \in 0 .. MaxConsolidations
    BY MemorySizes
  <2> QED
    BY <2>1, <2>2 DEF Trace
<1>6. /\ short' = [short EXCEPT ![p] = x] /\ short \in [E!Place -> Trace]
      /\ x.valid /\ x.hash = 0 /\ x.moved = 0 /\ x.exp = recorded + 1
  BY <1>1, <1>3, <1>4, <1>5 DEF MemoryInv
<1>7. /\ recorded \in Nat /\ MaxConsolidations \in Nat \ {0} /\ MaxRecorded \in Nat
      /\ \A i \in 1 .. recorded : i \in 1 .. recorded' /\ i # recorded + 1
      /\ recorded' \in 0 .. MaxRecorded /\ recorded + 1 \in 1 .. recorded'
  BY <1>2, MemorySizes DEF MemoryInv
<1>8. Cardinality(Copies(long, recorded + 1)) = 0
  <2>1. \A k \in DOMAIN long : long[k].exp # recorded + 1
    BY <1>7 DEF MemoryInv
  <2> QED
    BY <2>1, CopiesFinite DEF MemoryInv
<1>9. ASSUME NEW i \in E!Place, short'[i].valid
      PROVE  /\ short'[i].hash = 0 /\ short'[i].exp \in 1 .. recorded'
             /\ short'[i].moved < MaxConsolidations
             /\ Cardinality(Copies(long, short'[i].exp)) <= short'[i].moved
             /\ \A j \in E!Place :
                  short'[j].valid /\ short'[j].exp = short'[i].exp => i = j
  <2>1. CASE i = p
    <3>1. short'[i] = x
      BY <1>6, <2>1
    <3>2. \A j \in E!Place : j # p => short'[j] = short[j]
      BY <1>6
    <3>3. \A j \in E!Place : short[j].valid => short[j].exp # recorded + 1
      BY <1>7 DEF MemoryInv
    <3> QED
      BY <1>6, <1>7, <1>8, <2>1, <3>1, <3>2, <3>3
  <2>2. CASE i # p
    <3>1. short'[i] = short[i] /\ short'[p] = x
      BY <1>6, <2>2
    <3>2. \A j \in E!Place : j # p => short'[j] = short[j]
      BY <1>6
    <3>3. /\ short[i].hash = 0 /\ short[i].exp \in 1 .. recorded
          /\ short[i].moved < MaxConsolidations
          /\ Cardinality(Copies(long, short[i].exp)) <= short[i].moved
          /\ \A j \in E!Place : short[j].valid /\ short[j].exp = short[i].exp => i = j
      BY <1>9, <3>1 DEF MemoryInv
    <3>4. short[i].exp # recorded + 1
      BY <1>7, <3>3
    <3> QED
      BY <1>6, <1>7, <3>1, <3>2, <3>3, <3>4
  <2> QED
    BY <2>1, <2>2
<1>10. short' \in [E!Place -> Trace]
  BY <1>6
<1>11. E!CA3StaysSilent'
  BY <1>2 DEF MemoryInv, E!CA3StaysSilent
<1>12. /\ long \in Seq(Memory) /\ Len(long) <= Long
       /\ \A k \in DOMAIN long : long[k].exp \in 1 .. recorded'
       /\ \A e \in Nat : Cardinality(Copies(long, e)) <= MaxConsolidations
  BY <1>7 DEF MemoryInv
<1>13. long' = long
  BY <1>2
<1> QED
  BY <1>7, <1>9, <1>10, <1>11, <1>12, <1>13 DEF MemoryInv

\* Forgetting ages a trace, and may take it away: nothing else.
LEMMA FadedKeeps ==
  ASSUME NEW t \in Trace
  PROVE  /\ E!Faded(t) \in Trace
         /\ E!Faded(t).exp = t.exp /\ E!Faded(t).hash = t.hash
         /\ E!Faded(t).moved = t.moved
         /\ E!Faded(t).valid => t.valid
<1>1. PICK older \in 0 .. HalfLife + 1 : older = E!Older(t.age)
  <2>1. PICK a \in Nat, c \in Nat : a = t.age + 1 /\ c = HalfLife + 1
    BY MemorySizes DEF Trace
  <2>2. E!Min({a, c}) = IF a <= c THEN a ELSE c
    BY LesserOfTwo
  <2>3. E!Older(t.age) = E!Min({a, c})
    BY <2>1 DEF E!Older
  <2> QED
    BY <2>1, <2>2, <2>3
<1>2. PICK rest \in 0 .. 20 : rest = E!Retained(t.sig, older)
  <2>1. t.sig \in 0 .. 20 /\ older \in Nat
    BY MemorySizes DEF Trace
  <2> QED
    BY <2>1, RetainedLess
<1>3. CASE ~t.valid
  BY <1>3 DEF E!Faded
<1>4. CASE t.valid
  <2>1. PICK o, l : o = E!Older(t.age) /\ l = E!Retained(t.sig, o)
    OBVIOUS
  <2>2. o = older /\ l = rest
    BY <1>1, <1>2, <2>1
  <2>3. PICK v \in BOOLEAN :
          E!Faded(t) = [exp |-> t.exp, hash |-> t.hash, sig |-> rest,
                        age |-> older, moved |-> t.moved, valid |-> v]
    <3>1. t = [exp |-> t.exp, hash |-> t.hash, sig |-> t.sig, age |-> t.age,
               moved |-> t.moved, valid |-> t.valid]
      BY DEF Trace
    <3>2. CASE l > 0
      <4>1. E!Faded(t) = [t EXCEPT !.age = o, !.sig = l, !.valid = TRUE]
        BY <1>4, <2>1, <3>2 DEF E!Faded
      <4> QED
        BY <2>2, <3>1, <4>1
    <3>3. CASE ~(l > 0)
      <4>1. E!Faded(t) = [t EXCEPT !.age = o, !.sig = l, !.valid = FALSE]
        <5>1. E!Faded(t) = [t EXCEPT !.age = o, !.sig = l, !.valid = l > 0]
          BY <1>4, <2>1, Zenon DEF E!Faded
        <5>2. (rest > 0) = FALSE
          BY <2>2, <3>3
        <5> QED
          BY <2>2, <5>1, <5>2, Zenon
      <4> QED
        BY <2>2, <3>1, <4>1
    <3> QED
      BY <3>2, <3>3
  <2>4. PICK r : r = E!Faded(t)
    OBVIOUS
  <2>5. r = [exp |-> t.exp, hash |-> t.hash, sig |-> rest, age |-> older,
             moved |-> t.moved, valid |-> v]
    BY <2>3, <2>4
  <2>6. /\ r \in Trace /\ r.exp = t.exp /\ r.hash = t.hash /\ r.moved = t.moved
    BY <2>5 DEF Trace
  <2> QED
    BY <1>4, <2>4, <2>6
<1> QED
  BY <1>3, <1>4

\* A transfer spends one of the trace's consolidations.
LEMMA SpentKeeps ==
  ASSUME NEW t \in Trace, t.moved < MaxConsolidations
  PROVE  /\ E!Spent(t) \in Trace
         /\ E!Spent(t).exp = t.exp /\ E!Spent(t).hash = t.hash
         /\ E!Spent(t).moved = t.moved + 1
         /\ E!Spent(t).valid => t.moved + 1 < MaxConsolidations
<1>1. PICK m \in 0 .. MaxConsolidations : m = t.moved + 1
  BY MemorySizes DEF Trace
<1>2. PICK v \in BOOLEAN :
        /\ v => m < MaxConsolidations
        /\ E!Spent(t) = [exp |-> t.exp, hash |-> t.hash, sig |-> t.sig,
                         age |-> t.age, moved |-> m, valid |-> v]
  <2>1. t = [exp |-> t.exp, hash |-> t.hash, sig |-> t.sig, age |-> t.age,
             moved |-> t.moved, valid |-> t.valid]
    BY DEF Trace
  <2>2. CASE t.moved + 1 < MaxConsolidations
    <3>1. E!Spent(t) = [t EXCEPT !.moved = t.moved + 1, !.valid = TRUE]
      BY <2>2 DEF E!Spent
    <3> QED
      BY <1>1, <2>1, <2>2, <3>1
  <2>3. CASE ~(t.moved + 1 < MaxConsolidations)
    <3>1. E!Spent(t) = [t EXCEPT !.moved = t.moved + 1, !.valid = FALSE]
      <4>1. PICK c \in Nat : c = MaxConsolidations
        BY MemorySizes
      <4>2. (m < c) = FALSE
        BY <1>1, <2>3, <4>1
      <4>3. E!Spent(t) = [t EXCEPT !.moved = t.moved + 1,
                                   !.valid = t.moved + 1 < MaxConsolidations]
        BY DEF E!Spent
      <4> QED
        BY <1>1, <4>1, <4>2, <4>3, Zenon
    <3> QED
      BY <1>1, <2>1, <3>1
  <2> QED
    BY <2>2, <2>3
<1>3. PICK r : r = E!Spent(t)
  OBVIOUS
<1>4. r \in Trace /\ r.exp = t.exp /\ r.hash = t.hash /\ r.moved = m
      /\ r.valid = v
  BY <1>2, <1>3 DEF Trace
<1> QED
  BY <1>1, <1>2, <1>3, <1>4

\* What is appended to a store leaves what was in it.
LEMMA AppendKeepsPrefix ==
  ASSUME NEW l \in Seq(Memory), NEW t \in Seq(Memory)
  PROVE  E!IsPrefix(l, l \o t)
<1>1. Len(l \o t) = Len(l) + Len(t) /\ Len(l) \in Nat /\ Len(t) \in Nat
  OBVIOUS
<1>2. \A k \in 1 .. Len(l) : (l \o t)[k] = l[k]
  OBVIOUS
<1>3. SubSeq(l, 1, Len(l)) = [k \in 1 .. Len(l) |-> l[k]]
  BY <1>1
<1>4. SubSeq(l \o t, 1, Len(l)) = [k \in 1 .. Len(l) |-> (l \o t)[k]]
  BY <1>1
<1> QED
  BY <1>1, <1>2, <1>3, <1>4 DEF E!IsPrefix

\* A second of forgetting and consolidation: what is moved are valid traces of
\* different experiences, and each counts its transfer.
LEMMA MetabolicKeepsMemory ==
  ASSUME MemoryInv, E!Metabolic
  PROVE  MemoryInv' /\ E!IsPrefix(long, long')
<1> DEFINE st == [i \in E!Place |-> E!Faded(short[i])]
           mv == E!Moved(st)
           tr == [k \in DOMAIN mv |-> [exp |-> st[mv[k]].exp, hash |-> st[mv[k]].hash]]
<1>0. /\ short \in [E!Place -> Trace] /\ recorded \in 0 .. MaxRecorded
      /\ long \in Seq(Memory) /\ Len(long) <= Long /\ Len(long) \in Nat
      /\ \A k \in DOMAIN long : long[k].exp \in 1 .. recorded
      /\ \A e \in Nat : Cardinality(Copies(long, e)) <= MaxConsolidations
  BY DEF MemoryInv
<1>1. /\ short' = [i \in E!Place |-> IF i \in E!Range(mv) THEN E!Spent(st[i])
                                                          ELSE st[i]]
      /\ long' = E!Stored(tr)
      /\ recorded' = recorded /\ ca3' = ca3 /\ swr' = swr
  BY DEF E!Metabolic, E!hippocampus
<1>2. /\ st \in [E!Place -> Trace]
      /\ \A i \in E!Place : /\ st[i].exp = short[i].exp /\ st[i].hash = short[i].hash
                            /\ st[i].moved = short[i].moved
                            /\ st[i].valid => short[i].valid
  BY <1>0, FadedKeeps
<1>3. \A i \in E!Place : st[i].valid =>
        /\ st[i].hash = 0 /\ st[i].exp \in 1 .. recorded
        /\ st[i].moved < MaxConsolidations
        /\ Cardinality(Copies(long, st[i].exp)) <= st[i].moved
        /\ \A j \in E!Place : st[j].valid /\ st[j].exp = st[i].exp => i = j
  <2> HIDE DEF st
  <2> QED
    BY <1>2 DEF MemoryInv
<1> HIDE DEF st
<1>4. PICK n \in Nat :
           /\ n <= Long - Len(long) /\ DOMAIN mv = 1 .. n
           /\ \A k \in 1 .. n : mv[k] \in E!Worthy(st)
           /\ \A j, k \in 1 .. n : mv[j] = mv[k] => j = k
  BY <1>0, <1>2, MovedFacts
<1> HIDE DEF mv
<1>5. \A k \in 1 .. n : mv[k] \in E!Place /\ st[mv[k]].valid
  BY <1>4 DEF E!Worthy
<1>6. tr = [k \in 1 .. n |-> [exp |-> st[mv[k]].exp, hash |-> st[mv[k]].hash]]
  BY <1>4
<1> HIDE DEF tr
<1>7. \A k \in 1 .. n : /\ tr[k] \in Memory /\ tr[k].exp = st[mv[k]].exp
                        /\ tr[k].exp \in 1 .. recorded
  <2> TAKE k \in 1 .. n
  <2>1. tr[k] = [exp |-> st[mv[k]].exp, hash |-> st[mv[k]].hash]
    BY <1>6
  <2>2. st[mv[k]].hash = 0 /\ st[mv[k]].exp \in 1 .. recorded
    BY <1>3, <1>5
  <2>3. st[mv[k]].exp \in 0 .. MaxRecorded
    BY <1>0, <2>2, MemorySizes
  <2> QED
    BY <2>1, <2>2, <2>3 DEF Memory
<1>8. tr \in Seq(Memory) /\ Len(tr) = n /\ DOMAIN tr = 1 .. n
  <2>1. tr \in [1 .. n -> Memory]
    BY <1>6, <1>7
  <2> QED
    BY <1>4, <2>1
<1>9. long' = long \o tr
  <2>1. Len(long \o tr) <= Long
    <3>1. PICK a \in Nat, c \in Nat : a = Len(long) /\ c = Long
      BY <1>0, MemorySizes
    <3>2. Len(long \o tr) = a + n
      BY <1>0, <1>8, <3>1, Appended
    <3> QED
      BY <1>4, <3>1, <3>2
  <2> QED
    BY <1>1, <2>1 DEF E!Stored
<1>10. \A j, k \in DOMAIN tr : tr[j].exp = tr[k].exp => j = k
  <2> SUFFICES ASSUME NEW j \in 1 .. n, NEW k \in 1 .. n, tr[j].exp = tr[k].exp
               PROVE  j = k
    BY <1>8
  <2>1. mv[j] = mv[k]
    BY <1>3, <1>5, <1>7
  <2> QED
    BY <1>4, <2>1
<1>11. \A e : /\ Cardinality(Copies(long', e)) <= Cardinality(Copies(long, e)) + 1
              /\ (\A k \in 1 .. n : tr[k].exp # e) => Copies(long', e) = Copies(long, e)
  BY <1>0, <1>8, <1>9, <1>10, CopiesGrow
<1>12. /\ long' \in Seq(Memory) /\ Len(long') <= Long
       /\ \A k \in DOMAIN long' : long'[k].exp \in 1 .. recorded
  <2>1. PICK a \in Nat, c \in Nat : a = Len(long) /\ c = Long
    BY <1>0, MemorySizes
  <2>2. /\ long \o tr \in Seq(Memory) /\ Len(long \o tr) = a + n
        /\ DOMAIN (long \o tr) = 1 .. a + n /\ DOMAIN long = 1 .. a
        /\ \A k \in 1 .. a : (long \o tr)[k] = long[k]
        /\ \A k \in 1 .. n : (long \o tr)[a + k] = tr[k]
    BY <1>0, <1>8, <2>1, Appended
  <2>3. \A k \in 1 .. a + n : (long \o tr)[k].exp \in 1 .. recorded
    <3> TAKE k \in 1 .. a + n
    <3>1. CASE k \in 1 .. a
      BY <1>0, <2>2, <3>1
    <3>2. CASE k \notin 1 .. a
      <4>1. k - a \in 1 .. n /\ a + (k - a) = k
        BY <3>2
      <4>2. (long \o tr)[k] = tr[k - a]
        BY <2>2, <4>1
      <4> QED
        BY <1>7, <4>1, <4>2
    <3> QED
      BY <3>1, <3>2
  <2>4. a + n <= Long
    BY <1>4, <2>1
  <2> QED
    BY <1>9, <2>2, <2>3, <2>4
<1>13. \A e : Cardinality(Copies(long, e)) \in Nat /\ Cardinality(Copies(long', e)) \in Nat
  BY <1>0, <1>12, CopiesFinite
<1>14. \A k \in 1 .. n : /\ st[mv[k]].moved \in Nat
                         /\ st[mv[k]].moved < MaxConsolidations
                         /\ Cardinality(Copies(long, st[mv[k]].exp)) <= st[mv[k]].moved
  <2> TAKE k \in 1 .. n
  <2>1. st[mv[k]].moved \in Nat
    BY <1>2, <1>5, MemorySizes DEF Trace
  <2> QED
    BY <1>3, <1>5, <2>1
<1>15. \A e \in Nat : Cardinality(Copies(long', e)) <= MaxConsolidations
  <2> TAKE e \in Nat
  <2>1. CASE \A k \in 1 .. n : tr[k].exp # e
    BY <1>0, <1>11, <2>1
  <2>2. CASE \E k \in 1 .. n : tr[k].exp = e
    <3>1. PICK k \in 1 .. n : tr[k].exp = e
      BY <2>2
    <3>2. PICK q \in Nat, q2 \in Nat, m \in Nat :
            /\ q = Cardinality(Copies(long, e)) /\ q2 = Cardinality(Copies(long', e))
            /\ m = st[mv[k]].moved
      BY <1>13, <1>14
    <3>3. q <= m /\ m < MaxConsolidations /\ q2 <= q + 1
      BY <1>7, <1>11, <1>14, <3>1, <3>2
    <3> QED
      BY <3>2, <3>3, MemorySizes
  <2> QED
    BY <2>1, <2>2
<1>16. ASSUME NEW i \in E!Place
       PROVE  /\ short'[i] \in Trace /\ short'[i].exp = st[i].exp
              /\ short'[i].hash = st[i].hash
              /\ short'[i].valid =>
                   /\ st[i].valid /\ short'[i].moved < MaxConsolidations
                   /\ Cardinality(Copies(long', short'[i].exp)) <= short'[i].moved
  <2>0. st[i] \in Trace
    BY <1>2
  <2>1. CASE i \in E!Range(mv)
    <3>1. PICK k \in 1 .. n : mv[k] = i
      BY <1>4, <2>1 DEF E!Range
    <3>2. short'[i] = E!Spent(st[i])
      BY <1>1, <2>1
    <3>3. /\ st[i].valid /\ st[i].moved \in Nat /\ st[i].moved < MaxConsolidations
          /\ Cardinality(Copies(long, st[i].exp)) <= st[i].moved
      BY <1>5, <1>14, <3>1
    <3>4. /\ E!Spent(st[i]) \in Trace
          /\ E!Spent(st[i]).exp = st[i].exp /\ E!Spent(st[i]).hash = st[i].hash
          /\ E!Spent(st[i]).moved = st[i].moved + 1
          /\ E!Spent(st[i]).valid => st[i].moved + 1 < MaxConsolidations
      BY <2>0, <3>3, SpentKeeps
    <3>5. PICK q \in Nat, q2 \in Nat : /\ q = Cardinality(Copies(long, st[i].exp))
                                       /\ q2 = Cardinality(Copies(long', st[i].exp))
      BY <1>13
    <3>6. q <= st[i].moved /\ q2 <= q + 1
      BY <1>11, <3>3, <3>5
    <3>7. q2 <= st[i].moved + 1
      BY <3>3, <3>6
    <3> QED
      BY <3>2, <3>3, <3>4, <3>5, <3>7
  <2>2. CASE i \notin E!Range(mv)
    <3>1. short'[i] = st[i]
      BY <1>1, <2>2
    <3>2. ASSUME st[i].valid PROVE Copies(long', st[i].exp) = Copies(long, st[i].exp)
      <4>1. \A k \in 1 .. n : mv[k] # i
        BY <1>4, <2>2 DEF E!Range
      <4>2. \A k \in 1 .. n : tr[k].exp # st[i].exp
        BY <1>3, <1>5, <1>7, <3>2, <4>1
      <4> QED
        BY <1>11, <4>2
    <3> QED
      BY <1>3, <2>0, <3>1, <3>2
  <2> QED
    BY <2>1, <2>2
<1>17. short' \in [E!Place -> Trace]
  <2>1. short' = [i \in E!Place |-> short'[i]]
    BY <1>1
  <2> QED
    BY <1>16, <2>1
<1>18. \A i \in E!Place : short'[i].valid =>
       /\ short'[i].hash = 0 /\ short'[i].exp \in 1 .. recorded
       /\ short'[i].moved < MaxConsolidations
       /\ Cardinality(Copies(long', short'[i].exp)) <= short'[i].moved
       /\ \A j \in E!Place : short'[j].valid /\ short'[j].exp = short'[i].exp => i = j
  BY <1>3, <1>16
<1>19. E!CA3StaysSilent'
  BY <1>1 DEF MemoryInv, E!CA3StaysSilent
<1>20. E!IsPrefix(long, long')
  BY <1>0, <1>8, <1>9, AppendKeepsPrefix
<1> QED
  BY <1>0, <1>1, <1>12, <1>15, <1>17, <1>18, <1>19, <1>20 DEF MemoryInv

\* A call of the bio modules finds no ripple, and so touches no trace.
LEMMA BioStepKeepsMemory ==
  ASSUME MemoryInv, E!BioStep
  PROVE  MemoryInv' /\ UNCHANGED <<short, recorded, long>>
<1>1. PICK in0 \in {{}, {g \in E!Granule : g % 2 = 0}, E!Granule},
           nov, rew \in {0, E!One}, phase \in BOOLEAN :
        /\ E!HippocampusStep(in0, nov, rew, phase)
        /\ short' = IF swr' /\ trigger' THEN E!Replayed ELSE short
        /\ UNCHANGED <<recorded, long>>
  BY DEF E!BioStep
<1>2. E!CA3StaysSilent'
  BY <1>1, HippocampusSilent DEF MemoryInv
<1>3. short' = short /\ recorded' = recorded /\ long' = long
  BY <1>1, <1>2 DEF E!CA3StaysSilent
<1> QED
  BY <1>2, <1>3 DEF MemoryInv

\* No step of another part touches the memory.
LEMMA MemoryStep ==
  ASSUME MemoryInv, [LearnNext]_learnVars
  PROVE  MemoryInv' /\ (E!IsPrefix(long, long') \/ UNCHANGED E!vars)
<1>1. CASE E!Record
  <2>1. MemoryInv' /\ long' = long
    BY <1>1, RecordKeepsMemory
  <2>2. E!IsPrefix(long, long)
    BY DEF MemoryInv, E!IsPrefix
  <2> QED
    BY <2>1, <2>2
<1>2. CASE E!Metabolic
  BY <1>2, MetabolicKeepsMemory
<1>3. CASE E!BioStep
  <2>1. MemoryInv' /\ long' = long
    BY <1>3, BioStepKeepsMemory
  <2>2. E!IsPrefix(long, long)
    BY DEF MemoryInv, E!IsPrefix
  <2> QED
    BY <2>1, <2>2
<1>4. CASE UNCHANGED memory
  <2>1. UNCHANGED E!vars
    BY <1>4 DEF memory, E!vars, E!hippocampus, E!episodic
  <2>2. MemoryInv'
    BY <1>4 DEF memory, MemoryInv, E!CA3StaysSilent
  <2> QED
    BY <2>1, <2>2
<1>5. E!Record \/ E!Metabolic \/ E!BioStep \/ UNCHANGED memory
  BY DEF LearnNext, Still, learnVars, E!Next
<1> QED
  BY <1>1, <1>2, <1>3, <1>4, <1>5

\* What the strengthening says of the memory.
LEMMA MemoryIsSound ==
  ASSUME MemoryInv
  PROVE  E!TypeOK /\ E!CA3StaysSilent /\ E!StatesAreAlike /\ E!LongTermShare
<1>1. E!TypeOK
  <2>1. E!One = 20
    BY DEF E!One
  <2> QED
    BY <2>1 DEF MemoryInv, E!TypeOK, Trace
<1>2. E!StatesAreAlike
  <2>1. \A k \in DOMAIN long : long[k] \in Memory
    BY DEF MemoryInv
  <2>2. \A k \in DOMAIN long : long[k].hash = 0
    BY <2>1 DEF Memory
  <2>3. \A i \in E!Valid : short[i].hash = 0
    BY DEF MemoryInv, E!Valid
  <2> QED
    BY <2>2, <2>3 DEF E!StatesAreAlike
<1>3. E!LongTermShare
  <2> SUFFICES ASSUME NEW e \in E!Experience
               PROVE  E!Cardinality({k \in DOMAIN long : long[k].exp = e})
                        <= MaxConsolidations
    BY DEF E!LongTermShare
  <2>1. e \in Nat
    BY MemorySizes DEF E!Experience
  <2>2. Cardinality(Copies(long, e)) <= MaxConsolidations
    BY <2>1 DEF MemoryInv
  <2> QED
    BY <2>2, ESize DEF Copies
<1> QED
  BY <1>1, <1>2, <1>3 DEF MemoryInv

\* In every step: what the strengthening says, and the store only grows.
LEMMA MemoryInvariant ==
  LearnSpec => []MemoryInv /\ [][E!IsPrefix(long, long')]_E!vars
<1>1. LearnInit => MemoryInv
  BY MemoryStarts DEF LearnInit
<1>2. MemoryInv /\ [LearnNext]_learnVars
        => MemoryInv' /\ [E!IsPrefix(long, long')]_E!vars
  BY MemoryStep
<1> QED
  BY <1>1, <1>2, PTL DEF LearnSpec

\* For every size of the two stores: no experience takes more of the long-term
\* store than its share, however often it is found worth a transfer, and what
\* has been consolidated stays, in its order.
THEOREM MemoryKeepsItsTraces == LearnSpec => MemoryHolds
<1>1. MemoryInv => (part = "memory" => E!TypeOK /\ E!LongTermShare)
  BY MemoryIsSound
<1>2. E!IsPrefix(long, long') => (Len(long) < Long => E!IsPrefix(long, long'))
  OBVIOUS
<1> QED
  BY <1>1, <1>2, MemoryInvariant, PTL DEF MemoryHolds, E!LongTermIsKept

\* Two findings, for every number of cells and capacity: no input makes CA3
\* active, and every trace carries the hash zero.
THEOREM MemoryStaysBlind ==
  LearnSpec => [](E!CA3StaysSilent /\ E!StatesAreAlike)
<1>1. MemoryInv => E!CA3StaysSilent /\ E!StatesAreAlike
  BY MemoryIsSound
<1> QED
  BY <1>1, MemoryInvariant, PTL
================================================================================
