------------------------------ MODULE SynapsePool ------------------------------
(***************************************************************************)
(* The synapse array (snn/synapse.rs) and the neurogenesis engine that     *)
(* ages, prunes and grows it (snn/neurogenesis.rs), with the snapshot a    *)
(* simulation takes and puts back (system/persistence.rs).                 *)
(*                                                                         *)
(* A slot is blank until it is written, holds the pair of neurons it       *)
(* connects while it is live, and is dead once it is pruned.  Weights,     *)
(* ages and activity only decide which synapses are pruned: a choice.      *)
(* Loops run to `count as u16': the count modulo the number of slots.      *)
(***************************************************************************)
EXTENDS Naturals, FiniteSets

CONSTANTS Pair,             \* the connections that may be made
          Slots,            \* MAX_SYNAPSES, as many as a u16 can tell apart
          Neurons,          \* MAX_NEURONS, the size of the adjacency counts
          GrowthBatch,      \* synapses one maintenance may grow: 64
          Overrun,          \* bound: how far past Slots the count goes
          MaxFree           \* bound: free_count

ASSUME PoolAssumption ==
  /\ Pair # {} /\ Slots \in Nat \ {0}
  /\ {Neurons, GrowthBatch, Overrun, MaxFree} \subseteq Nat
  /\ {"blank", "dead"} \cap Pair = {}

VARIABLES pc,               \* idle, grow or panicked
          syn,              \* SYNAPSE_ARRAY
          fixed,            \* slots without plasticity_enabled, reflex arcs
          count,            \* SYNAPSE_COUNT
          head, free,       \* free_pool_head, free_count
          scan, left,       \* neurogenesis: its count, synapses it may make
          dreaming, snapshot,   \* a simulation runs, SIMULATION_SAVE_SLOT
          freed,            \* (history) did the simulation touch the pool
          doubt             \* (history) what the free pool cannot express

vars == <<pc, syn, fixed, count, head, free, scan, left, dreaming, snapshot,
          freed, doubt>>

Slot == 0 .. Slots - 1
Snapshot == [syn : [Slot -> Pair \cup {"blank", "dead"}],
             fixed : SUBSET Slot, count : 0 .. Slots + Overrun]
Doubt == {"burst", "dream", "full"}

Live(s) == syn[s] \in Pair
\* The slots a loop to `count as u16' visits.
Seen == 0 .. (count % Slots) - 1
Exists(p) == \E s \in Seen : syn[s] = p

\* init_connectivity makes every plastic pair at most once, then the arcs.
Init ==
  /\ pc = "idle" /\ head = 0 /\ free = 0 /\ scan = 0 /\ left = 0
  /\ \E n \in 0 .. Slots, arcs \in 0 .. 1 :
       /\ n + arcs <= Slots /\ count = n + arcs /\ fixed = n .. n + arcs - 1
       /\ syn \in [Slot -> Pair \cup {"blank"}]
       /\ \A s \in Slot : syn[s] = "blank" <=> s >= n + arcs
       /\ \A s, t \in 0 .. n - 1 : syn[s] = syn[t] => s = t
  /\ dreaming = FALSE /\ freed = FALSE
  /\ snapshot = [syn |-> [s \in Slot |-> "blank"], fixed |-> {}, count |-> 0]
  /\ doubt = IF count = Slots THEN {"full"} ELSE {}

\* apply_senescence and prune_silent_synapses; only the latter frees a slot,
\* and the pool keeps nothing but the last id and how many there are.
Prune ==
  /\ pc = "idle"
  /\ \E old, silent \in SUBSET {s \in Seen : Live(s) /\ s \notin fixed} :
       /\ old \cap silent = {} /\ free + Cardinality(silent) <= MaxFree
       /\ syn' = [s \in Slot |-> IF s \in old \cup silent THEN "dead"
                                                          ELSE syn[s]]
       /\ head' = IF silent = {} THEN head
                  ELSE CHOOSE s \in silent : \A t \in silent : t <= s
       /\ free' = free + Cardinality(silent)
       /\ freed' = (freed \/ (dreaming /\ silent # {}))
  /\ doubt' = doubt \cup (IF free' > 1 THEN {"burst"} ELSE {})
  /\ pc' = "grow" /\ scan' = count % Slots /\ left' = GrowthBatch
  /\ UNCHANGED <<fixed, count, dreaming, snapshot>>

\* create_synapse on a free id: free_pool_pop goes on to the next id.
PopFree(p) ==
  /\ free > 0
  /\ syn' = [syn EXCEPT ![head] = p] /\ fixed' = fixed \ {head}
  /\ head' = (head + 1) % Slots /\ free' = free - 1
  /\ UNCHANGED count

\* create_synapse on a new id: the count grows also when there is none left.
NewId(p) ==
  /\ free = 0 /\ count < Slots + Overrun /\ count' = count + 1
  /\ IF count < Slots
     THEN syn' = [syn EXCEPT ![count] = p] /\ fixed' = fixed \ {count}
     ELSE UNCHANGED <<syn, fixed>>
  /\ UNCHANGED <<head, free>>

\* Mutated form of Wanted: the existing synapses are not looked at.
WantedAlways(p) == scan > 0
\* neurogenesis makes a connection between two neurons that have none.
Wanted(p) == scan > 0 /\ ~Exists(p)

Grow ==
  /\ pc = "grow" /\ left > 0
  /\ \E p \in Pair : Wanted(p) /\ (PopFree(p) \/ NewId(p))
  /\ left' = IF free = 0 /\ count >= Slots THEN left ELSE left - 1
  /\ freed' = (freed \/ (dreaming /\ free > 0))
  /\ doubt' = doubt \cup (IF count' >= Slots THEN {"full"} ELSE {})
  /\ UNCHANGED <<pc, scan, dreaming, snapshot>>

\* neurogenesis ends with its batch made or every neuron tried.
EndGrowth ==
  /\ pc = "grow" /\ (left = 0 \/ scan <= Neurons) /\ pc' = "idle"
  /\ scan' = 0 /\ left' = 0
  /\ UNCHANGED <<syn, fixed, count, head, free, dreaming, snapshot, freed,
                 doubt>>

\* It takes the number of synapses for that of neurons: past the last neuron
\* it looks up an adjacency count that is not there.
Overindex ==
  /\ pc = "grow" /\ scan > Neurons /\ pc' = "panicked"
  /\ UNCHANGED <<syn, fixed, count, head, free, scan, left, dreaming, snapshot,
                 freed, doubt>>

\* capture_simulation_snapshot
Capture ==
  /\ pc = "idle" /\ ~dreaming /\ dreaming' = TRUE
  /\ snapshot' = [syn |-> [s \in Slot |-> IF s < count THEN syn[s]
                                          ELSE snapshot.syn[s]],
                  fixed |-> {s \in Slot : IF s < count THEN s \in fixed
                                          ELSE s \in snapshot.fixed},
                  count |-> count]
  /\ freed' = FALSE
  /\ UNCHANGED <<pc, syn, fixed, count, head, free, scan, left, doubt>>

\* restore_simulation_snapshot: the arrays and the counts, not the free pool.
Restore ==
  /\ pc = "idle" /\ dreaming /\ dreaming' = FALSE
  /\ syn' = snapshot.syn /\ fixed' = snapshot.fixed
  /\ count' = snapshot.count
  /\ freed' = FALSE
  /\ doubt' = doubt \cup (IF freed THEN {"dream"} ELSE {})
  /\ UNCHANGED <<pc, head, free, scan, left, snapshot>>

\* The panic handler stops.
Panicked == pc = "panicked" /\ UNCHANGED vars

Next == Prune \/ Grow \/ EndGrowth \/ Overindex \/ Capture \/ Restore \/ Panicked
Spec == Init /\ [][Next]_vars
-----------------------------------------------------------------------------
TypeOK ==
  /\ pc \in {"idle", "grow", "panicked"}
  /\ syn \in [Slot -> Pair \cup {"blank", "dead"}] /\ fixed \subseteq Slot
  /\ count \in 0 .. Slots + Overrun /\ head \in Slot /\ free \in 0 .. MaxFree
  /\ scan \in 0 .. Slots - 1 /\ left \in 0 .. GrowthBatch
  /\ dreaming \in BOOLEAN /\ snapshot \in Snapshot
  /\ freed \in BOOLEAN /\ doubt \subseteq Doubt

\* While no two freed ids have waited together, no simulation has touched the
\* free pool and the array has not been filled, making a synapse never takes
\* the slot of a live one, reflex arcs included, and writes where the loops
\* look (create_synapse: from pruned synapses, then a new id).
CreationSparesLive ==
  [][doubt = {} /\ pc = "grow" =>
       \A s \in Slot : syn'[s] # syn[s] => ~Live(s) /\ s < count']_vars

\* Under the same conditions two plastic synapses never join the same pair.
PairsAreDistinct ==
  doubt = {} => \A s, t \in {u \in Slot : Live(u) /\ u \notin fixed} :
                  syn[s] = syn[t] => s = t

\* Within what the free pool can express, making a synapse spares the live
\* ones and never joins a pair twice.
PoolIsSound == [](TypeOK /\ PairsAreDistinct) /\ CreationSparesLive

\* What a test demands of metabolic_maintenance: it does not panic.
MaintenanceReturns == pc # "panicked"
=============================================================================
