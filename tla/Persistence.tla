----------------------------- MODULE Persistence -----------------------------
(***************************************************************************)
(* PersistenceManager (system/persistence.rs): three dumps in RAM, J-0,    *)
(* J-1 and J-2, rotated at every save, and the copy of slot 0 that builds  *)
(* with the flash feature commit and read back at boot.                    *)
(*                                                                         *)
(* A network state stands for the synapse weights learning has produced.   *)
(* The neuron parameters that factory_reset re-draws are left out, so a    *)
(* factory reset leaves the state as it is.  Power may be lost anywhere; a *)
(* commit is an erase, the header words and then the payload words, and    *)
(* each of the three can be the last one that happened.                    *)
(*                                                                         *)
(* Flash is programmed as NOR flash is: an erase sets the bits of a sector *)
(* and programming clears bits, so a word programmed twice without an      *)
(* erase reads back as the bits both values have in common.  A commit      *)
(* erases one sector of 64 KB, which holds the header, and programs a dump *)
(* of about 3 MB.  Only slot 0 is ever committed.  Whether the chip has    *)
(* room for a dump is not modelled.                                        *)
(***************************************************************************)
EXTENDS Naturals

CONSTANTS State,      \* network states learning can reach
          Fresh,      \* the state init_population and init_connectivity draw
          Junk,       \* bytes no capture wrote: erased, torn, wrongly decrypted
          MaxSaves,   \* bound: captures in a behaviour
          MaxEpoch    \* bound: clock values told apart in a session

ASSUME StateAssumption == Fresh \notin State /\ Junk \notin State \cup {Fresh}
ASSUME BoundAssumption == MaxSaves \in Nat /\ MaxEpoch \in Nat

SlotId == 0 .. 2                       \* crate::PERSISTENCE_SLOTS
Feature == {"flash", "encryption"}
Plain == MaxEpoch + 1                  \* the key of a dump that is not encrypted

VARIABLES features,   \* the cargo features of the build
          live,       \* the running network
          slots,      \* PERSISTENCE_SLOTS in RAM
          flash,      \* the flash copies
          epoch,      \* METABOLIC_CLOCK, from which key and nonce are made
          phase,      \* where the program is
          saves,      \* captures so far; the stamp of the newest dump
          programmed, \* the words of a payload have been programmed before
          committed,  \* (history) the state the last commit was begun with
          torn        \* (history) that commit has not finished

history == <<committed, torn>>
vars == <<features, live, slots, flash, epoch, phase, saves, programmed, history>>

Net == State \cup {Fresh}
Dump == [magic : BOOLEAN, body : Net \cup {Junk}, checksum : Net \cup {Junk},
         key : 0 .. Plain, stamp : 0 .. MaxSaves]
Phase == {"off", "restored", "run", "erase", "header", "payload"}

\* A dump whose header init_persistence cleared, or an erased flash slot.
Blank == [magic |-> FALSE, body |-> Junk, checksum |-> Junk, key |-> Plain, stamp |-> 0]

Init ==
  /\ features \in SUBSET Feature
  /\ live = Fresh /\ epoch = 0 /\ phase = "off" /\ saves = 0
  /\ programmed = FALSE /\ committed = Junk /\ torn = FALSE
  /\ slots = [s \in SlotId |-> Blank]
  /\ flash = [s \in SlotId |-> Blank]
-----------------------------------------------------------------------------
(* Dumps                                                                   *)

\* capture_into_slot: the checksum is taken over the plain payload.
Capture(n, stamp) ==
  [magic |-> TRUE, body |-> n, checksum |-> n, key |-> Plain, stamp |-> stamp]

\* encrypt_dump: key and nonce come from the clock's present value.
Encrypt(d) == IF "encryption" \in features THEN [d EXCEPT !.key = epoch] ELSE d

\* decrypt_dump: under any other clock value the payload becomes noise.
Decrypt(d) ==
  IF d.key = Plain \/ "encryption" \notin features THEN d
  ELSE [d EXCEPT !.key = Plain, !.body = IF d.key = epoch THEN @ ELSE Junk]

\* verify_dump
Verify(d) == d.magic /\ d.body = d.checksum /\ d.key = Plain

\* Mutated form of Rotated: ascending, so slot 0 is copied into both.
RotatedUpwards(sl, d) == [s \in SlotId |-> IF s = 0 THEN d ELSE sl[0]]

\* The rotation of save_unlocked: 2 <- 1 <- 0 <- d.
Rotated(sl, d) == [s \in SlotId |-> IF s = 0 THEN d ELSE sl[s - 1]]

\* Mutated form of Loaded: the flash copy is not read.
LoadedFromRam(sl, s) == [sl EXCEPT ![s] = Decrypt(@)]

\* The slots after load_slot has read and decrypted slot s.
Loaded(sl, s) ==
  [sl EXCEPT ![s] = Decrypt(IF "flash" \in features THEN flash[s] ELSE @)]
-----------------------------------------------------------------------------
(* Operations                                                              *)

\* save_unlocked of network state n over the slots sl; with flash, the
\* commit of slot 0 follows.
Save(sl, n) ==
  /\ saves < MaxSaves
  /\ saves' = saves + 1
  /\ slots' = Rotated(sl, Encrypt(Capture(n, saves + 1)))
  /\ live' = n
  /\ phase' = IF "flash" \in features THEN "erase" ELSE "run"

\* rollback_unlocked: J-1, else J-2, else a factory reset; always a save.
RollbackFrom(sl) ==
  LET one == Loaded(sl, 1)
      two == Loaded(one, 2)
  IN CASE Verify(one[1]) -> Save(one, one[1].body)
       [] ~Verify(one[1]) /\ Verify(two[2]) -> Save(two, two[2].body)
       [] OTHER -> Save(two, live)

\* init_hardware: a fresh population, cleared slots, load_slot(0), which
\* rolls back when the dump does not verify.
Boot ==
  LET cleared == [s \in SlotId |-> [slots[s] EXCEPT !.magic = FALSE, !.key = Plain,
                                                    !.checksum = Junk, !.stamp = 0]]
      zero == Loaded(cleared, 0)
  IN /\ phase = "off"
     /\ IF Verify(zero[0])
        THEN /\ live' = zero[0].body /\ slots' = zero /\ phase' = "restored"
             /\ UNCHANGED saves
        ELSE RollbackFrom(zero)
     /\ UNCHANGED <<features, flash, epoch, programmed, history>>

\* The main loop starts.
Start ==
  /\ phase = "restored"
  /\ phase' = "run"
  /\ UNCHANGED <<features, live, slots, flash, epoch, saves, programmed, history>>

\* Network::step: weights change, and time passes.
Learn ==
  /\ phase = "run"
  /\ live' \in State
  /\ epoch' \in epoch .. MaxEpoch
  /\ UNCHANGED <<features, slots, flash, phase, saves, programmed, history>>

\* The periodic save of metabolic_maintenance, and apply_update's.
PeriodicSave ==
  /\ phase = "run"
  /\ Save(slots, live)
  /\ UNCHANGED <<features, flash, epoch, programmed, history>>

\* emergency_rollback
EmergencyRollback ==
  /\ phase = "run"
  /\ RollbackFrom(slots)
  /\ UNCHANGED <<features, flash, epoch, programmed, history>>

\* What a dump may read back as: beyond the erased sector its payload has lost
\* the bits that those programmed before it had not.
ReadsBack(d) == IF programmed THEN {d, [d EXCEPT !.body = Junk]} ELSE {d}

\* commit_to_flash(0), in the order of its register writes.
Commit ==
  /\ \/ /\ phase = "erase" /\ phase' = "header"
        /\ flash' = [flash EXCEPT ![0] = Blank]
        /\ committed' = live /\ torn' = TRUE /\ UNCHANGED programmed
     \/ /\ phase = "header" /\ phase' = "payload"
        /\ flash' = [flash EXCEPT ![0] = [slots[0] EXCEPT !.body = Junk]]
        /\ UNCHANGED <<programmed, history>>
     \/ /\ phase = "payload" /\ phase' = "run"
        /\ \E d \in ReadsBack(slots[0]) : flash' = [flash EXCEPT ![0] = d]
        /\ programmed' = TRUE /\ torn' = FALSE /\ UNCHANGED committed
  /\ UNCHANGED <<features, live, slots, epoch, saves>>

\* RAM is lost; boot draws a new population and starts the clock again.
\* Some words of a payload under way have been programmed.  (The bound on
\* captures leaves boot the one it may need.)
PowerLoss ==
  /\ phase # "off" /\ saves < MaxSaves
  /\ phase' = "off" /\ live' = Fresh /\ epoch' = 0
  /\ slots' = [s \in SlotId |-> Blank]
  /\ programmed' = (programmed \/ phase = "payload")
  /\ UNCHANGED <<features, flash, saves, history>>

\* Cells of the committed payload decay.
Decay ==
  /\ phase = "run" /\ flash[0].magic
  /\ flash' = [flash EXCEPT ![0].body = Junk]
  /\ committed' = Junk
  /\ UNCHANGED <<features, live, slots, epoch, phase, saves, programmed, torn>>

Next == \/ Boot \/ Start \/ Learn \/ PeriodicSave \/ EmergencyRollback
        \/ Commit \/ PowerLoss \/ Decay

Spec == Init /\ [][Next]_vars
-----------------------------------------------------------------------------
\* Every variable keeps to its domain.
TypeOK ==
  /\ features \in SUBSET Feature
  /\ live \in Net \cup {Junk} /\ committed \in Net \cup {Junk}
  /\ slots \in [SlotId -> Dump] /\ flash \in [SlotId -> Dump]
  /\ epoch \in 0 .. MaxEpoch /\ saves \in 0 .. MaxSaves
  /\ phase \in Phase /\ programmed \in BOOLEAN /\ torn \in BOOLEAN

\* The network is never overwritten with bytes no capture wrote, whatever
\* was torn, decayed or decrypted under another clock value before it: what
\* verify_dump stands between load_slot and restore_from_slot for.
NeverRestoresJunk == live # Junk

\* J-0, J-1 and J-2 are three different captures, the newest first, through
\* rollbacks that save in their turn and loads that overwrite a slot: a rollback
\* that finds a whole dump finds an older one (save_unlocked's rotation).
GenerationsDiffer ==
  \A i, j \in SlotId : i < j /\ slots[i].magic /\ slots[j].magic
                         => slots[i].stamp > slots[j].stamp

BootStep == phase = "off" /\ phase' # "off"

\* "Flash commit" and "On boot, restore from latest valid slot": a build with
\* flash and without encryption comes up in the state of the last commit that
\* finished, however often power was lost in between (load_slot(0) in
\* init_hardware).
CommittedIsRestored ==
  [][BootStep /\ features = {"flash"} /\ ~torn /\ committed # Junk
       => live' = committed]_vars

\* A boot never brings an older state back in place of a newer one: through
\* torn and overwritten commits, decay and moved clocks the network is what the
\* last commit was begun with or a fresh one, in every build.  And whatever of a
\* commit reads back is restored, if the build does not encrypt.
RestoredIsNewest ==
  [][BootStep =>
       /\ live' \in {committed, Fresh}
       /\ features = {"flash"} /\ flash[0].body = committed /\ committed # Junk
            => live' = committed]_vars

\* The slots keep their types and tell apart, newest first, what was captured,
\* and no junk gets past them.
SlotsAreSound == TypeOK /\ NeverRestoresJunk /\ GenerationsDiffer
=============================================================================
