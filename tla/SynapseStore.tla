----------------------------- MODULE SynapseStore -----------------------------
(***************************************************************************)
(* The NeurogenesisPool of core/memory.rs: a StaticPool of synapse slots   *)
(* with its stack of free indices, and for every neuron the lists of the   *)
(* synapses it begins and ends.  (The network keeps its synapses in the    *)
(* array of snn/synapse.rs instead: module SynapsePool.)                   *)
(*                                                                         *)
(* The pool is used through &mut, one call at a time.  Callers destroy     *)
(* only what they created.  A weight is weak or strong, which pruning      *)
(* tells apart.                                                            *)
(***************************************************************************)
EXTENDS Integers, Sequences, FiniteSets

CONSTANTS Slots,            \* MAX_SYNAPSES
          Neurons,
          MaxCount          \* bound: creations

VARIABLES free,             \* free_list[0 .. free_head)
          slot,             \* the slots' pre, post, weak and next_pre
          head, count,      \* by list: its head, its count
          early             \* (history) did prune free an unwritten slot

vars == <<free, slot, head, count, early>>

None == Slots               \* SynapseId::INVALID
Ids == 0 .. Slots - 1
Lists == {"pre", "post"} \X Neurons
Empty == [pre |-> "invalid", post |-> "invalid", weak |-> TRUE, next |-> None]

\* StaticPool::init, and the pool's init, which takes the top slot and puts
\* it back as many times as there are slots: only that slot is written, and
\* the others hold what the memory held.
Unwritten == {[Empty EXCEPT !.pre = "garbage", !.post = "garbage", !.weak = w] :
                w \in BOOLEAN}
Init ==
  /\ free = [i \in 1 .. Slots |-> i - 1] /\ early = FALSE
  /\ slot \in [Ids -> Unwritten \cup {Empty}]
  /\ \A i \in Ids : slot[i] = Empty <=> i = Slots - 1
  /\ head = [l \in Lists |-> None] /\ count = [l \in Lists |-> 0]

InUse(i) == slot[i].pre \in Neurons

\* StaticPool::allocate: the top of the stack.
Allocated == free[Len(free)]

\* create_synapse: both lists link through next_pre, the second push last.
Create ==
  \E pre, post \in Neurons, weak \in BOOLEAN :
    LET id == Allocated IN
    /\ free # <<>> /\ count[<<"pre", pre>>] < MaxCount
    /\ free' = SubSeq(free, 1, Len(free) - 1)
    /\ slot' = [slot EXCEPT ![id] = [pre |-> pre, post |-> post, weak |-> weak,
                                     next |-> head[<<"post", post>>]]]
    /\ head' = [head EXCEPT ![<<"pre", pre>>] = id, ![<<"post", post>>] = id]
    /\ count' = [count EXCEPT ![<<"pre", pre>>] = @ + 1,
                              ![<<"post", post>>] = @ + 1]
    /\ UNCHANGED early

\* Mutated form of Emptied: the slot keeps its neurons.
EmptiedKeeps(s) == [s EXCEPT !.weak = TRUE]
Emptied(s) == [s EXCEPT !.pre = "invalid", !.post = "invalid", !.weak = TRUE]

\* destroy_synapse: the lists keep the slot.
Destroy ==
  \E i \in Ids :
    /\ InUse(i)
    /\ slot' = [slot EXCEPT ![i] = Emptied(@)] /\ free' = Append(free, i)
    /\ UNCHANGED <<head, count, early>>

\* prune_below_threshold: every slot whose pre is not the invalid one, also
\* a slot that was never written, whose bytes may pass for a weak synapse.
\* (Past its end free_list is overwritten: the model stops there.)
Doomed(i) == slot[i].pre # "invalid" /\ slot[i].weak
\* The one way to list S from its lowest slot to its highest.
InOrder(S) == {t \in [1 .. Cardinality(S) -> S] :
                 \A j, k \in DOMAIN t : j < k => t[j] < t[k]}
Prune ==
  LET S == {i \in Ids : Doomed(i)} IN
  /\ S # {} /\ Len(free) <= Slots
  /\ early' = (early \/ \E i \in S : slot[i].pre = "garbage")
  /\ slot' = [i \in Ids |-> IF i \in S THEN Emptied(slot[i]) ELSE slot[i]]
  /\ \E t \in InOrder(S) : free' = free \o t
  /\ UNCHANGED <<head, count>>

Next == Create \/ Destroy \/ Prune
-----------------------------------------------------------------------------
\* A slot is in use or free, and free once: two synapses never share one.
\* This holds until prune_below_threshold meets a slot that init should have
\* written and did not, and frees it a second time.
SlotsAreExclusive ==
  LET used == {i \in Ids : InUse(i)}
      idle == {free[k] : k \in DOMAIN free}
  IN ~early => /\ Len(free) + Cardinality(used) = Slots
               /\ used \cap idle = {} /\ Cardinality(idle) = Len(free)
=============================================================================
