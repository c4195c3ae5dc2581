------------------------------- MODULE Resilience -------------------------------
(***************************************************************************)
(* The monitors of a failing machine that are ready to be called and that  *)
(* nothing in the program calls: error-correcting blocks, region checksums *)
(* and memory diagnostics (safety/hardware_resilience.rs), and the         *)
(* neurological watchdog (system/watchdog.rs).  Here any caller calls them *)
(* in any order, while memory may flip a bit of a block at any time; only  *)
(* migrate_synapse is taken to be given a synapse and a free place for it. *)
(*                                                                         *)
(* A word is the set of its bits that are set, and xor the symmetric       *)
(* difference; a region is its byte sum; a synapse is whether it is        *)
(* linked at either end, weighs anything and learns.                       *)
(***************************************************************************)
EXTENDS Integers, Sequences, FiniteSets, FiniteSetsExt

CONSTANTS Words,            \* ECC_BLOCK_SIZE: 8
          Bits,             \* bits of a word: 32
          Contents,         \* what a block may be given: functions to words
          Sums,             \* byte sums of a region
          Slots,            \* synapses
          MaxBad,           \* bad_sectors: 16
          MaxMoves,         \* migration_map: 256
          RollbackAfter,    \* readings too high before RollbackJ1: 3
          ResetAt,          \* max_high_count_before_reset: 10
          MaxFlips, MaxCalls    \* bounds: upsets of memory, calls

VARIABLES data, parity,     \* EccBlock
          corrected,        \* errors_corrected
          checksum, soft,   \* memory_region_checksums[r], soft_errors_detected
          bad, failing,     \* bad_sectors, failing_blocks
          moves, synapse,   \* migration_map, the synapses
          high, action,     \* firing_rate_high_count, what check_health answers
          given, flips,     \* (history) last content written, upsets since
          run,              \* (history) readings too high in a row
          calls             \* (bound)

resVars == <<data, parity, corrected, checksum, soft, bad, failing, moves, synapse,
             high, action, given, flips, run, calls>>

W == 0 .. Words - 1
Xor(x, y) == (x \ y) \cup (y \ x)
Parity(d) == {b \in 0 .. Bits - 1 : Cardinality({w \in W : b \in d[w]}) % 2 = 1}
Blank == [w \in W |-> {}]
Linked == [pre |-> TRUE, post |-> TRUE, heavy |-> TRUE, plastic |-> TRUE]
FreeSlot == [pre |-> FALSE, post |-> FALSE, heavy |-> FALSE, plastic |-> FALSE]

ResInit ==
  /\ data = Blank /\ parity = {} /\ corrected = 0 /\ given = Blank /\ flips = <<>>
  /\ checksum = 0 /\ soft = 0 /\ bad = <<>> /\ failing = 0 /\ moves = <<>>
  /\ synapse = [s \in 1 .. Slots |-> IF s = 1 THEN Linked ELSE FreeSlot]
  /\ high = 0 /\ action = "None" /\ run = 0 /\ calls = 0

Called == calls < MaxCalls /\ calls' = calls + 1

\* repair_neuron_state is write_block: whatever the neuron holds is right.
WriteBlock ==
  /\ Called /\ \E d \in Contents : data' = d /\ given' = d /\ parity' = Parity(d)
  /\ flips' = <<>>
  /\ UNCHANGED <<corrected, checksum, soft, bad, failing, moves, synapse, high,
                 action, run>>

\* The environment: an upset of one bit.
Flip ==
  /\ Len(flips) < MaxFlips
  /\ \E w \in W, b \in 0 .. Bits - 1 :
       /\ data' = [data EXCEPT ![w] = Xor(@, {b})]
       /\ flips' = Append(flips, <<w, b>>)
  /\ UNCHANGED <<parity, corrected, checksum, soft, bad, failing, moves, synapse,
                 high, action, given, run, calls>>

Syndrome == Xor(parity, Parity(data))
\* The number of the flipped bit is taken for that of a word, whose lowest
\* bit is turned.
Corrected(b) == [data EXCEPT ![b] = Xor(@, {0})]

\* verify_and_correct, of the one block of verify_all_ecc.
Verify ==
  /\ Called
  /\ IF Syndrome = {} THEN UNCHANGED <<data, parity, corrected, soft>>
     ELSE LET b == Min(Syndrome) IN
          IF b < Words
          THEN /\ data' = Corrected(b) /\ parity' = Parity(data')
               /\ corrected' = corrected + 1 /\ UNCHANGED soft
          ELSE soft' = soft + 1 /\ UNCHANGED <<data, parity, corrected>>
  /\ UNCHANGED <<checksum, bad, failing, moves, synapse, high, action, given,
                 flips, run>>

\* check_parity: zero is no checksum yet, and a differing sum is an error for
\* good, for it never becomes the checksum.
CheckParity ==
  /\ Called
  /\ \E s \in Sums :
       IF checksum # 0 /\ checksum # s
       THEN soft' = soft + 1 /\ UNCHANGED checksum
       ELSE checksum' = s /\ UNCHANGED soft
  /\ UNCHANGED <<data, parity, corrected, bad, failing, moves, synapse, high,
                 action, given, flips, run>>

\* mark_bad_sector: the same sector may be marked again, and when the list is
\* full only the count goes on.
MarkBadSector ==
  /\ Called /\ failing' = failing + 1
  /\ \E s \in {1, 2} : bad' = IF Len(bad) < MaxBad THEN Append(bad, s) ELSE bad
  /\ UNCHANGED <<data, parity, corrected, checksum, soft, moves, synapse, high,
                 action, given, flips, run>>

\* migrate_synapse: the map keeps no new place, no list of a neuron is told,
\* and the old slot keeps its other end and goes on learning.  The code checks
\* neither id: that the caller names a synapse in use and a slot that is not is
\* assumed here, and a caller that names one slot twice loses the weight.
Migrate ==
  /\ Called
  /\ \E o, n \in 1 .. Slots :
       /\ o # n /\ synapse[o].pre /\ ~synapse[n].pre
       /\ moves' = IF Len(moves) < MaxMoves THEN Append(moves, o) ELSE moves
       /\ synapse' = [synapse EXCEPT ![n] = synapse[o],
                        ![o].pre = FALSE, ![o].heavy = FALSE]
  /\ UNCHANGED <<data, parity, corrected, checksum, soft, bad, failing, high,
                 action, given, flips, run>>

\* Mutated form of Answer: a rollback is due again after a reset.
AnswerKeeping(h) ==
  IF h >= ResetAt THEN [do |-> "EmergencyReset", high |-> h]
  ELSE [do |-> IF h > RollbackAfter THEN "RollbackJ1" ELSE "None", high |-> h]
\* What a count of h readings too high in a row leads to.
Answer(h) ==
  IF h >= ResetAt THEN [do |-> "EmergencyReset", high |-> 0]
  ELSE [do |-> IF h > RollbackAfter THEN "RollbackJ1" ELSE "None", high |-> h]

\* NeurologicalWatchdog::check_health
CheckHealth ==
  /\ Called
  /\ \E tooHigh \in BOOLEAN :
       LET a == Answer(IF tooHigh THEN high + 1 ELSE 0) IN
       /\ action' = a.do /\ high' = a.high
       /\ run' = (IF tooHigh THEN run + 1 ELSE 0)
  /\ UNCHANGED <<data, parity, corrected, checksum, soft, bad, failing, moves,
                 synapse, given, flips>>

ResNext ==
  \/ WriteBlock \/ Flip \/ Verify \/ CheckParity \/ MarkBadSector \/ Migrate
  \/ CheckHealth
-----------------------------------------------------------------------------
\* What a correction is worth: after a single upset it restores the block
\* only if that was in the lowest bit of the first word, and in any other
\* case the wrong block verifies from then on.
OnlyTheFirstBitHeals ==
  corrected' > corrected /\ Len(flips) = 1 =>
    /\ data' = given <=> flips[1] = <<0, 0>>
    /\ parity' = Parity(data')

\* A run of readings too high is answered by rollbacks once it is long
\* enough, by one reset each time it is ResetAt longer, and the watchdog
\* then waits as it did at first.
WatchdogEscalates ==
  /\ action = "EmergencyReset" <=> run > 0 /\ run % ResetAt = 0
  /\ action = "RollbackJ1" <=> run % ResetAt > RollbackAfter

\* Moving a synapse neither loses its weight nor doubles it, but every slot
\* it left, if nothing has moved in since, still learns for one end.
MovedOnce ==
  /\ Cardinality({s \in 1 .. Slots : synapse[s].heavy}) = 1
  /\ \A i \in DOMAIN moves : synapse[moves[i]].plastic /\ synapse[moves[i]].post

\* The three monitors, over every call and upset.
MonitorsHold == [][OnlyTheFirstBitHeals /\ WatchdogEscalates' /\ MovedOnce']_resVars
=============================================================================
