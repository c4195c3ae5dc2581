------------------------------ MODULE MCLearning -----------------------------
(* What is learnt and kept: the synapse array that grows and is pruned, the *)
(* pool of core/memory.rs, the rules that move a weight, homeostasis, the  *)
(* training run with its checkpoints, and the episodic memory with the     *)
(* hippocampus.  They share no variable, so a behaviour drives one.        *)
(*                                                                         *)
(* Five samples in pools of three and batches of two: both kinds of short  *)
(* batch occur.  The synapse array has more slots than neurons, as in the  *)
(* code.                                                                   *)
EXTENDS SynapsePool, Integers

CONSTANTS StoreSlots, Ends, MaxCount,     \* of SynapseStore
          Tokens, SeqLen, PoolSize, BatchSize, Loss, Levels, MaxEpoch, \* of Training
          Cells, LayerOf, ONE, Window, TargetRate, MaxFactor, MinFactor,
          Pairs, Optima, MaxProtected, Eta, Theta, Rate, MinEta, MaxTheta,
          MaxRaises, MaxWindows, MaxTunings,       \* of Homeostasis
          Unit, Fine, TopTrace, TopW, ClampW, MinW, MaxSilence, Beat, MaxAge,
          Tau, Amps, Rewards, Newborn, MaxTime,    \* of WeightLife,
          Spiking, Links, Delay, LtdLevel, LtpLevel, TopCalcium, PlateauTerm,
          ClampE, MaxWeight, MaxNow,               \* and its other rules
          Pyramids, Winners, SwrDuration, Short, Long, HalfLife,
          MaxConsolidations, Significance, Hash, MaxDist,
          MaxRecorded                              \* of Episodic

ASSUME StoreAssumption ==
  /\ StoreSlots \in Nat \ {0} /\ MaxCount \in Nat
  /\ {"invalid", "garbage"} \cap Ends = {}
ASSUME TrainingAssumption ==
  /\ Tokens \in Nat /\ {SeqLen, PoolSize} \subseteq Nat \ {0}
  /\ MaxEpoch \in Nat /\ Levels \in Nat
\* The target is ten spikes a second where a rate is at most one a step, and
\* the factor, at first 1, is kept between a tenth and ten.
ASSUME HomeAssumption ==
  /\ IsFiniteSet(Cells) /\ ONE \in Nat \ {0} /\ Window \in Nat \ {0}
  /\ TargetRate \in Int /\ ONE <= TargetRate
  /\ MinFactor \in Int /\ MaxFactor \in Int
  /\ MinFactor <= ONE /\ ONE <= MaxFactor
\* Rewards do not punish, and no amplitude is negative.
ASSUME WeightAssumption ==
  /\ {Unit, Fine, Tau, MaxAge} \subseteq Nat \ {0} /\ {TopTrace, ClampW} \subseteq Nat
  /\ Amps \subseteq Nat /\ Rewards \subseteq Nat /\ Newborn \subseteq Int
  /\ MinW \in Nat /\ TopW \in Nat
ASSUME RuleAssumption ==
  /\ Links \subseteq Spiking \X Spiking
  /\ Delay \in Nat /\ {ClampE, MaxWeight} \subseteq Nat
  /\ {LtdLevel, LtpLevel, TopCalcium, PlateauTerm} \subseteq Nat
\* A significance is at most one, twenty twentieths; a hash of zero exists.
ASSUME MemoryAssumption ==
  /\ {Pyramids, Short, HalfLife, MaxConsolidations} \subseteq Nat \ {0}
  /\ {Winners, SwrDuration, Long, MaxDist, MaxRecorded} \subseteq Nat
  /\ Significance \subseteq 0 .. 20 /\ Hash \subseteq Nat /\ 0 \in Hash

\* All neurons in one layer: each compensates for every other.
OneLayer == [n \in Cells |-> 0]

\* One synapse, and what neurogenesis gives.
OneLink == {<<"a", "b">>}
NewWeights == {-3, 1, 2}

VARIABLES part,
          freeList, slot, lists, counted, early,
          driven, time, synapse, rate,
          now, trace, upd, lastPre, lastPost, calcium, plateau, strength,
          counts, window, factor, error, raised, windows, protected, eta,
          theta, tunings,
          stage, epoch, best, cursor, pool, scale, eval, file, passes, held,
          ca3, schaffer, swr, timer, trigger, short, recorded, long

S == INSTANCE SynapseStore WITH
       Slots <- StoreSlots, Neurons <- Ends, free <- freeList, head <- lists,
       count <- counted
W == INSTANCE WeightLife WITH
       ONE <- Unit, s <- synapse,
       Cells <- Spiking, Window <- Delay, weight <- strength
H == INSTANCE Homeostasis
T == INSTANCE Training WITH pc <- stage
E == INSTANCE Episodic WITH Cells <- Pyramids

\* A maintenance comes after more silence than pruning asks for, the largest
\* weight is odd, and senescence starts to take anything only when doubling
\* has come to the end: in the code at age 31, of a million.
ASSUME AgeAssumption ==
  /\ {Beat, MaxSilence} \subseteq Nat /\ MaxSilence < Beat
  /\ MinW < TopW /\ TopW % 2 = 1
  /\ \A a \in 1 .. MaxAge - 1 :
       a * Unit < 2 * MaxAge \/ W!Doubled[a - 1] >= TopW - 1

store == <<freeList, slot, lists, counted, early>>
weight == <<driven, time, synapse, rate>>
stdp == <<now, trace, upd, lastPre, lastPost, calcium, plateau, strength>>
balance == <<counts, window, factor, error, raised, windows, protected, eta,
             theta, tunings>>
training == <<stage, epoch, best, cursor, pool, scale, eval, file, passes,
              held>>
memory == <<ca3, schaffer, swr, timer, trigger, short, recorded, long>>
learnVars == <<part, vars, store, weight, stdp, balance, training, memory>>

LearnInit ==
  /\ part \in {"pool", "store", "weight", "stdp", "balance", "training",
               "memory"}
  /\ Init /\ (part # "pool" => count = 0)
  /\ S!Init /\ (part # "store" => ~(\E i \in 0 .. StoreSlots - 2 : slot[i].weak))
  /\ W!LifeInit /\ (part # "weight" => ~driven /\ synapse = W!Fresh(1))
  /\ W!StdpInit
  /\ H!HomeInit
  /\ T!Init
  /\ E!Init

\* Only the part a behaviour drives moves.
Still ==
  /\ UNCHANGED part
  /\ part = "pool" \/ UNCHANGED vars
  /\ part = "store" \/ UNCHANGED store
  /\ part = "weight" \/ UNCHANGED weight
  /\ part = "stdp" \/ UNCHANGED stdp
  /\ part = "balance" \/ UNCHANGED balance
  /\ part = "training" \/ UNCHANGED training
  /\ part = "memory" \/ UNCHANGED memory

LearnNext ==
  \/ part = "pool" /\ Next /\ Still
  \/ part = "store" /\ S!Next /\ Still
  \/ part = "weight" /\ W!LifeNext /\ Still
  \/ part = "stdp" /\ W!StdpNext /\ Still
  \/ part = "balance" /\ H!HomeNext /\ Still
  \/ part = "training" /\ T!Next /\ Still
  \/ part = "memory" /\ E!Next /\ Still

LearnSpec == LearnInit /\ [][LearnNext]_learnVars

\* PoolIsSound is SynapsePool's own.
\* See SynapseStore: a slot is in use or free, and free once.
SlotsAreExclusive == part = "store" => S!SlotsAreExclusive
\* See WeightLife: what maintenance and a pairing may do to a weight, under
\* the rules of synapse.rs and under those of plasticity.rs.
WeightsFollowRules ==
  /\ W!PairingHasSign /\ W!MaintenanceKeepsSign
  /\ [](part = "stdp" => W!PairsOnly)
\* See Homeostasis: the windows of the rate and the protected optima.
BalanceHolds == H!BalanceHolds
\* See Training: an epoch uses every sample once, and no worse model takes
\* the place of the best.
TrainingHolds == part = "training" => T!TypeOK /\ T!PassIsExact /\ T!BestIsKept
\* See Episodic: how much of the long-term store an experience takes, and
\* that nothing in it is displaced while there is room.
MemoryHolds ==
  /\ [](part = "memory" => E!TypeOK /\ E!LongTermShare)
  /\ E!LongTermIsKept
==============================================================================
