---------------------------- MODULE Machine_proofs ----------------------------
(***************************************************************************)
(* What surrounds the network, for every value of the constants: the slots *)
(* it is saved in, the clock and its dreams, devices and encoders, the     *)
(* body model and the monitors of a failing machine.                       *)
(*                                                                         *)
(* The slots: whatever the states, captures and clock values, the dumps    *)
(* are different captures, newest first, and no junk is restored.  Neither *)
(* is inductive by itself: a load may replace a slot by its flash copy,    *)
(* and a rollback saves in its turn.  So no stamp is ahead of the count of *)
(* captures, only slot 0 ever reaches flash, and no header vouches for     *)
(* junk, in RAM or in flash.                                               *)
(*                                                                         *)
(* The spike trace: its length and what stands in it follow from what was  *)
(* logged since it was last emptied (RingInv), and an edge stands for one  *)
(* pair (Graph).  What is read off them is computed by recursion: such a   *)
(* function exists, step by step (Iterates), and each of its steps keeps   *)
(* what is said of the prefix it has seen (Chains, Tops, Fair).            *)
(*                                                                         *)
(* The curves: one, ln 2 and the widest word are measured in thirty-       *)
(* seconds of one (Scaled); each operation that neither overflows nor is   *)
(* cut returns the exact number (SumHolds, ProductHolds), and the bounds   *)
(* of a curve are those of its pieces.                                     *)
(***************************************************************************)
EXTENDS MCMachine, FiniteSetTheorems, SequenceTheorems, WellFoundedInduction, TLAPS

\* What every dump satisfies, in RAM or in flash.
DumpInv(d, n) ==
  /\ d \in Dump /\ d.stamp <= n
  /\ d.magic => d.checksum # Junk

\* All slots are dumps, and those with a header newest first.
SlotsInv(sl, n) ==
  /\ sl \in [SlotId -> Dump] /\ \A s \in SlotId : DumpInv(sl[s], n)
  /\ \A i, j \in SlotId : i < j /\ sl[i].magic /\ sl[j].magic
                            => sl[i].stamp > sl[j].stamp

\* What is kept of the slots, in RAM and in flash.
IInv ==
  /\ TypeOK /\ SlotsInv(slots, saves) /\ live # Junk
  /\ \A s \in SlotId : DumpInv(flash[s], saves) /\ (s # 0 => ~flash[s].magic)

\* The three slots, and the key of a dump that is not encrypted.
LEMMA Slots3 == SlotId = {0, 1, 2} /\ Plain \in 0 .. Plain /\ MaxEpoch + 1 = Plain
BY BoundAssumption DEF SlotId, Plain

\* An erased slot is a dump without a header.
LEMMA BlankIsDump == Blank \in Dump /\ ~Blank.magic /\ Blank.stamp = 0
BY Slots3, BoundAssumption DEF Blank, Dump

\* Decrypting changes neither header nor stamp (decrypt_dump).
LEMMA DecryptKeeps ==
  ASSUME IInv, NEW d, DumpInv(d, saves)
  PROVE  /\ DumpInv(Decrypt(d), saves) /\ Decrypt(d).magic = d.magic
         /\ Decrypt(d).stamp = d.stamp
<1>1. d \in Dump /\ Junk \in Net \cup {Junk} /\ Plain \in 0 .. Plain
  BY Slots3 DEF DumpInv
<1> QED
  BY <1>1 DEF Decrypt, DumpInv, Dump

\* A dump that verifies holds a state some capture wrote (verify_dump).
LEMMA VerifiedIsNet ==
  ASSUME NEW d, DumpInv(d, saves), Verify(d)
  PROVE  d.body \in Net
BY DEF DumpInv, Dump, Verify

\* Loading an older slot, or any slot when no header is valid, leaves the
\* slots newest first (load_slot).
LEMMA LoadKeeps ==
  ASSUME IInv, NEW sl, SlotsInv(sl, saves), NEW s \in SlotId,
         s # 0 \/ \A t \in SlotId : ~sl[t].magic
  PROVE  SlotsInv(Loaded(sl, s), saves)
<1> DEFINE d == Decrypt(IF "flash" \in features THEN flash[s] ELSE sl[s])
<1>1. Loaded(sl, s) = [sl EXCEPT ![s] = d]
  BY DEF Loaded, SlotsInv
<1>2. DumpInv(d, saves) /\ (d.magic => s = 0 \/ (d.stamp = sl[s].stamp /\ sl[s].magic))
  BY DecryptKeeps DEF IInv, SlotsInv
<1> HIDE DEF d
<1>3. Loaded(sl, s) \in [SlotId -> Dump]
  BY <1>1, <1>2 DEF SlotsInv, DumpInv
<1>4. \A t \in SlotId : DumpInv(Loaded(sl, s)[t], saves)
  BY <1>1, <1>2 DEF SlotsInv
<1>5. ASSUME NEW i \in SlotId, NEW j \in SlotId, i < j,
             Loaded(sl, s)[i].magic, Loaded(sl, s)[j].magic
      PROVE  Loaded(sl, s)[i].stamp > Loaded(sl, s)[j].stamp
  <2>1. CASE s # 0
    BY <1>1, <1>2, <1>5, <2>1 DEF SlotsInv
  <2>2. CASE \A t \in SlotId : ~sl[t].magic
    BY <1>1, <1>2, <1>5, <2>2, Slots3 DEF SlotsInv
  <2> QED
    BY <2>1, <2>2
<1> QED
  BY <1>3, <1>4, <1>5 DEF SlotsInv

\* A save puts the newest stamp in front (save_unlocked).
LEMMA SaveKeeps ==
  ASSUME IInv, NEW sl, SlotsInv(sl, saves), NEW n \in Net, Save(sl, n),
         UNCHANGED <<features, flash, epoch, programmed, history>>
  PROVE  IInv'
<1> DEFINE d == Encrypt(Capture(n, saves + 1))
<1>1. /\ saves \in Nat /\ saves' \in 0 .. MaxSaves /\ saves' = saves + 1
      /\ epoch \in 0 .. Plain /\ n # Junk /\ n \in Net \cup {Junk}
  BY StateAssumption, BoundAssumption DEF IInv, TypeOK, Save, Net, Plain
<1>2. d \in Dump /\ d.magic /\ d.checksum # Junk /\ d.stamp = saves'
  BY <1>1, Slots3 DEF Encrypt, Capture, Dump
<1>3. slots' = [s \in SlotId |-> IF s = 0 THEN d ELSE sl[s - 1]]
  BY DEF Save, Rotated
<1> HIDE DEF d
<1>4. /\ slots' \in [SlotId -> Dump]
      /\ slots'[0] = d /\ slots'[1] = sl[0] /\ slots'[2] = sl[1]
  BY <1>2, <1>3, Slots3 DEF SlotsInv
<1>5. DumpInv(d, saves') /\ \A s \in SlotId : DumpInv(sl[s], saves')
  <2>1. d.stamp <= saves'
    BY <1>1, <1>2
  <2>2. \A s \in SlotId : sl[s].stamp \in 0 .. MaxSaves /\ sl[s].stamp <= saves'
    BY <1>1, BoundAssumption DEF SlotsInv, DumpInv, Dump
  <2> QED
    BY <1>2, <2>1, <2>2 DEF SlotsInv, DumpInv, Dump
<1>6. \A s \in SlotId : DumpInv(slots'[s], saves')
  BY <1>4, <1>5, Slots3
<1>7. ASSUME NEW i \in SlotId, NEW j \in SlotId, i < j, slots'[i].magic, slots'[j].magic
      PROVE  slots'[i].stamp > slots'[j].stamp
  <2>1. \A s \in SlotId : sl[s].stamp \in Nat /\ sl[s].stamp <= saves
    BY BoundAssumption DEF SlotsInv, DumpInv, Dump
  <2>2. CASE i = 0
    BY <1>1, <1>2, <1>4, <1>7, <2>1, <2>2, Slots3
  <2>3. CASE i = 1 /\ j = 2
    BY <1>4, <1>7, <2>3, Slots3 DEF SlotsInv
  <2> QED
    BY <1>7, <2>2, <2>3, Slots3
<1>8. SlotsInv(slots', saves')
  BY <1>4, <1>6, <1>7 DEF SlotsInv
<1>9. TypeOK' /\ (live # Junk)'
  BY <1>1, <1>4 DEF IInv, TypeOK, Save, Phase, history
<1>10. \A s \in SlotId : DumpInv(flash'[s], saves') /\ (s # 0 => ~flash'[s].magic)
  BY <1>1, BoundAssumption DEF IInv, DumpInv, Dump
<1> QED
  BY <1>8, <1>9, <1>10 DEF IInv

\* A rollback saves the newest of the two older dumps that verifies, or the
\* network as it is (rollback_unlocked).
LEMMA RollbackKeeps ==
  ASSUME IInv, NEW sl, SlotsInv(sl, saves), RollbackFrom(sl),
         UNCHANGED <<features, flash, epoch, programmed, history>>
  PROVE  IInv'
<1> DEFINE one == Loaded(sl, 1)
           two == Loaded(one, 2)
<1>1. SlotsInv(one, saves)
  BY LoadKeeps, Slots3
<1>2. SlotsInv(two, saves)
  BY <1>1, LoadKeeps, Slots3
<1>3. \/ Verify(one[1]) /\ Save(one, one[1].body)
      \/ Verify(two[2]) /\ Save(two, two[2].body)
      \/ Save(two, live)
  BY DEF RollbackFrom
<1> HIDE DEF one, two
<1>4. CASE Verify(one[1]) /\ Save(one, one[1].body)
  BY <1>1, <1>4, SaveKeeps, VerifiedIsNet, Slots3 DEF SlotsInv
<1>5. CASE Verify(two[2]) /\ Save(two, two[2].body)
  BY <1>2, <1>5, SaveKeeps, VerifiedIsNet, Slots3 DEF SlotsInv
<1>6. CASE Save(two, live)
  BY <1>2, <1>6, SaveKeeps DEF IInv, TypeOK
<1> QED
  BY <1>3, <1>4, <1>5, <1>6

\* Boot clears the headers, so what slot 0 then holds is the only dump
\* (init_persistence and load_slot in init_hardware).
LEMMA BootKeeps == ASSUME IInv, Boot PROVE IInv'
<1> DEFINE cleared == [s \in SlotId |-> [slots[s] EXCEPT !.magic = FALSE, !.key = Plain,
                                                         !.checksum = Junk, !.stamp = 0]]
           zero == Loaded(cleared, 0)
<1>1. SlotsInv(cleared, saves) /\ \A s \in SlotId : ~cleared[s].magic
  <2>1. \A s \in SlotId : /\ cleared[s] \in Dump /\ ~cleared[s].magic
                          /\ cleared[s].stamp = 0
    <3> SUFFICES ASSUME NEW s \in SlotId
                 PROVE  /\ cleared[s] \in Dump /\ ~cleared[s].magic
                        /\ cleared[s].stamp = 0
      OBVIOUS
    <3>1. slots[s] \in Dump /\ Plain \in 0 .. Plain /\ 0 \in 0 .. MaxSaves
      BY Slots3, BoundAssumption DEF IInv, TypeOK
    <3>2. cleared[s] = [slots[s] EXCEPT !.magic = FALSE, !.key = Plain,
                                        !.checksum = Junk, !.stamp = 0]
      OBVIOUS
    <3> HIDE DEF cleared
    <3> QED
      BY <3>1, <3>2 DEF Dump
  <2>2. DOMAIN cleared = SlotId /\ cleared = [s \in SlotId |-> cleared[s]]
    OBVIOUS
  <2> HIDE DEF cleared
  <2>3. cleared \in [SlotId -> Dump]
    BY <2>1, <2>2
  <2>4. 0 <= saves
    BY BoundAssumption DEF IInv, TypeOK
  <2> QED
    BY <2>1, <2>3, <2>4 DEF SlotsInv, DumpInv
<1> HIDE DEF cleared
<1>2. SlotsInv(zero, saves)
  BY <1>1, LoadKeeps, Slots3
<1>3. /\ UNCHANGED <<features, flash, epoch, programmed, history>>
      /\ IF Verify(zero[0])
         THEN /\ live' = zero[0].body /\ slots' = zero /\ phase' = "restored"
              /\ UNCHANGED saves
         ELSE RollbackFrom(zero)
  BY DEF Boot, cleared
<1> HIDE DEF zero
<1>4. CASE Verify(zero[0])
  <2>1. zero[0].body \in Net /\ zero[0].body # Junk
    BY <1>2, <1>4, VerifiedIsNet, Slots3, StateAssumption DEF SlotsInv, Net
  <2>2. TypeOK' /\ live' # Junk
    BY <1>2, <1>3, <1>4, <2>1 DEF IInv, TypeOK, SlotsInv, Phase, history
  <2> QED
    BY <1>2, <1>3, <1>4, <2>2 DEF IInv, SlotsInv, DumpInv
<1>5. CASE ~Verify(zero[0])
  BY <1>2, <1>3, <1>5, RollbackKeeps
<1> QED
  BY <1>4, <1>5

\* Only slot 0 is committed, and a torn header vouches for a checksum that
\* was captured (commit_to_flash).
LEMMA CommitKeeps == ASSUME IInv, Commit PROVE IInv'
<1>1. UNCHANGED <<features, live, slots, epoch, saves>> /\ live \in Net
  BY DEF Commit, IInv, TypeOK
<1>2. PICK d : /\ flash' = [flash EXCEPT ![0] = d]
               /\ d \in {Blank, [slots[0] EXCEPT !.body = Junk], slots[0]}
  BY DEF Commit, ReadsBack
<1>3. DumpInv(d, saves)
  <2>1. CASE d = Blank
    BY <2>1, BlankIsDump, BoundAssumption DEF IInv, TypeOK, DumpInv
  <2>2. DumpInv(slots[0], saves)
    BY Slots3 DEF IInv, SlotsInv
  <2>3. CASE d = [slots[0] EXCEPT !.body = Junk]
    BY <2>2, <2>3 DEF DumpInv, Dump
  <2> QED
    BY <1>2, <2>1, <2>2, <2>3
<1>4. flash' \in [SlotId -> Dump]
  BY <1>2, <1>3 DEF IInv, TypeOK, DumpInv
<1>5. TypeOK'
  <2>1. committed' \in Net \cup {Junk} /\ torn' \in BOOLEAN /\ phase' \in Phase
    BY <1>1 DEF Commit, IInv, TypeOK, Phase, history
  <2>2. programmed' \in BOOLEAN
    BY DEF Commit, IInv, TypeOK
  <2> QED
    BY <1>1, <1>4, <2>1, <2>2 DEF IInv, TypeOK
<1>6. \A s \in SlotId : DumpInv(flash'[s], saves) /\ (s # 0 => ~flash'[s].magic)
  BY <1>2, <1>3 DEF IInv, TypeOK
<1> QED
  BY <1>1, <1>5, <1>6 DEF IInv, SlotsInv, DumpInv

\* Erasing RAM and decaying a payload leave no valid header over junk.
LEMMA LossKeeps == ASSUME IInv, PowerLoss \/ Decay PROVE IInv'
<1>1. CASE PowerLoss
  <2>1. /\ slots' = [s \in SlotId |-> Blank] /\ live' = Fresh /\ epoch' = 0
        /\ phase' = "off" /\ UNCHANGED <<features, flash, saves, history>>
        /\ programmed' = (programmed \/ phase = "payload")
    BY <1>1 DEF PowerLoss
  <2>3. TypeOK' /\ live' # Junk
    BY <2>1, BlankIsDump, StateAssumption, BoundAssumption
    DEF IInv, TypeOK, Net, Phase, history
  <2>4. SlotsInv(slots', saves')
    BY <2>1, BlankIsDump, BoundAssumption DEF IInv, TypeOK, SlotsInv, DumpInv
  <2> QED
    BY <2>1, <2>3, <2>4 DEF IInv, DumpInv
<1>2. CASE Decay
  <2>1. /\ flash' = [flash EXCEPT ![0] = [@ EXCEPT !.body = Junk]]
        /\ committed' = Junk
        /\ UNCHANGED <<features, live, slots, epoch, phase, saves, programmed, torn>>
    BY <1>2, Slots3 DEF Decay, IInv, TypeOK
  <2>2. DumpInv([flash[0] EXCEPT !.body = Junk], saves)
    BY Slots3 DEF IInv, DumpInv, Dump
  <2>3. flash' \in [SlotId -> Dump]
    BY <2>1, <2>2 DEF IInv, TypeOK, DumpInv
  <2>4. \A s \in SlotId : DumpInv(flash'[s], saves) /\ (s # 0 => ~flash'[s].magic)
    BY <2>1, <2>2 DEF IInv, TypeOK
  <2>5. TypeOK'
    BY <2>1, <2>3 DEF IInv, TypeOK
  <2> QED
    BY <2>1, <2>4, <2>5 DEF IInv, SlotsInv, DumpInv
<1> QED
  BY <1>1, <1>2

\* At first every slot is blank.
LEMMA Initially == Init => IInv
<1> SUFFICES ASSUME Init PROVE IInv
  OBVIOUS
<1>1. slots \in [SlotId -> Dump] /\ flash \in [SlotId -> Dump]
  BY BlankIsDump DEF Init
<1>2. TypeOK
  <2>1. 0 \in 0 .. MaxEpoch /\ 0 \in 0 .. MaxSaves
    BY BoundAssumption
  <2>2. Fresh \in Net /\ "off" \in Phase
    BY DEF Net, Phase
  <2>3. features \in SUBSET Feature /\ torn \in BOOLEAN
    BY DEF Init
  <2>4. programmed \in BOOLEAN
    BY DEF Init
  <2> QED
    BY <1>1, <2>1, <2>2, <2>3, <2>4 DEF Init, TypeOK
<1>3. live # Junk
  BY StateAssumption DEF Init
<1>4. \A s \in SlotId : DumpInv(slots[s], saves) /\ DumpInv(flash[s], saves)
                        /\ ~slots[s].magic /\ ~flash[s].magic
  BY BlankIsDump DEF Init, DumpInv
<1> QED
  BY <1>1, <1>2, <1>3, <1>4 DEF IInv, SlotsInv

\* Every action keeps the slots sound.
LEMMA Stepwise == IInv /\ [Next]_vars => IInv'
<1> SUFFICES ASSUME IInv, [Next]_vars PROVE IInv'
  OBVIOUS
<1>1. CASE Boot \/ Commit \/ PowerLoss \/ Decay
  BY <1>1, BootKeeps, CommitKeeps, LossKeeps
<1>2. CASE Start
  BY <1>2 DEF Start, IInv, TypeOK, SlotsInv, DumpInv, Phase, history
<1>3. CASE Learn
  <2>1. live' \in State /\ epoch' \in 0 .. MaxEpoch
        /\ UNCHANGED <<features, slots, flash, phase, saves, programmed, history>>
    BY <1>3, BoundAssumption DEF Learn, IInv, TypeOK
  <2> QED
    BY <2>1, StateAssumption DEF IInv, TypeOK, SlotsInv, DumpInv, Net, history
<1>4. CASE PeriodicSave
  BY <1>4, SaveKeeps DEF PeriodicSave, IInv, TypeOK
<1>5. CASE EmergencyRollback
  BY <1>5, RollbackKeeps DEF EmergencyRollback, IInv
<1>6. CASE UNCHANGED vars
  BY <1>6 DEF vars, history, IInv, TypeOK, SlotsInv, DumpInv
<1> QED
  BY <1>1, <1>2, <1>3, <1>4, <1>5, <1>6 DEF Next

\* For any learned states, number of captures and clock values, and through
\* every torn commit, decay and power loss: the three dumps are different
\* captures with the newest first, and junk is never restored.
THEOREM SlotsStaySound == Spec => []SlotsAreSound
<1>1. IInv => SlotsAreSound
  BY DEF IInv, SlotsInv, SlotsAreSound, NeverRestoresJunk, GenerationsDiffer
<1> QED
  BY <1>1, Initially, Stepwise, PTL DEF Spec
-----------------------------------------------------------------------------
\* What is being committed is the capture of the running network, and what the
\* flash copy holds, if it is not junk, is what the last commit was begun with.
\* In a build with flash and without encryption a payload that reads back makes
\* a valid dump.  Before a boot RAM is empty.
Valid(d, n) == d.magic /\ d.body = n /\ d.checksum = n /\ d.key = Plain

CommitInv ==
  /\ phase = "off" => live = Fresh
  /\ phase \in {"erase", "header", "payload"} => slots[0].body = live
  /\ phase \in {"header", "payload"} => torn /\ committed = live
  /\ flash[0].magic => flash[0].body \in {committed, Junk}
  /\ "flash" \notin features => ~flash[0].magic /\ phase \notin {"erase", "header", "payload"}
  /\ features = {"flash"} =>
       /\ phase \in {"erase", "header", "payload"} => Valid(slots[0], live)
       /\ flash[0].body = committed /\ committed # Junk => Valid(flash[0], committed)

\* A save leaves in slot 0 the dump of the network it leaves running, in the
\* clear if the build does not encrypt (save_unlocked).
LEMMA SaveIsValid ==
  ASSUME NEW sl, NEW n, Save(sl, n)
  PROVE  /\ slots'[0].body = live' /\ live' = n
         /\ phase' = IF "flash" \in features THEN "erase" ELSE "run"
         /\ features = {"flash"} => Valid(slots'[0], live')
<1>1. slots'[0] = Encrypt(Capture(n, saves + 1)) /\ live' = n
  BY Slots3 DEF Save, Rotated
<1>2. phase' = IF "flash" \in features THEN "erase" ELSE "run"
  BY DEF Save
<1> QED
  BY <1>1, <1>2 DEF Capture, Encrypt, Valid

\* A rollback ends in a save, whichever dump it found.
LEMMA RollbackIsValid ==
  ASSUME NEW sl, RollbackFrom(sl)
  PROVE  /\ slots'[0].body = live'
         /\ phase' = IF "flash" \in features THEN "erase" ELSE "run"
         /\ features = {"flash"} => Valid(slots'[0], live')
BY SaveIsValid DEF RollbackFrom

\* A decrypted dump is one, with the header it had and its body or noise
\* (decrypt_dump).
LEMMA DecryptIsDump ==
  ASSUME NEW d \in Dump
  PROVE  /\ Decrypt(d) \in Dump /\ Decrypt(d).magic = d.magic
         /\ Decrypt(d).body \in {d.body, Junk} /\ Decrypt(d).checksum = d.checksum
<1>1. Junk \in Net \cup {Junk} /\ Plain \in 0 .. Plain
  BY Slots3
<1>2. CASE Decrypt(d) = d
  BY <1>2
<1>3. CASE Decrypt(d) = [d EXCEPT !.key = Plain, !.body = IF d.key = epoch THEN @ ELSE Junk]
  BY <1>1, <1>3 DEF Dump
<1> QED
  BY <1>2, <1>3 DEF Decrypt

\* A slot without a header is loaded as a dump that does not verify, unless
\* flash has one for it (load_slot).
LEMMA LoadedBlank ==
  ASSUME NEW sl \in [SlotId -> Dump], NEW s \in SlotId, ~sl[s].magic,
         flash \in [SlotId -> Dump], ~flash[s].magic
  PROVE  Loaded(sl, s) \in [SlotId -> Dump] /\ ~Verify(Loaded(sl, s)[s])
         /\ \A t \in SlotId : t # s => Loaded(sl, s)[t] = sl[t]
<1> DEFINE d == Decrypt(IF "flash" \in features THEN flash[s] ELSE sl[s])
<1>1. d \in Dump /\ ~d.magic
  BY DecryptIsDump
<1> HIDE DEF d
<1>2. Loaded(sl, s) = [sl EXCEPT ![s] = d]
  BY DEF Loaded, d
<1> QED
  BY <1>1, <1>2 DEF Verify

\* Boot restores the flash copy when it verifies, and nothing else: the slots
\* in RAM have no header any more, and the older copies are never in flash.
LEMMA BootRestores ==
  ASSUME IInv, CommitInv, Boot
  PROVE  /\ live' \in {committed, Fresh}
         /\ features = {"flash"} /\ Valid(flash[0], committed) => live' = committed
         /\ \/ phase' = "restored"
            \/ /\ slots'[0].body = live'
               /\ phase' = IF "flash" \in features THEN "erase" ELSE "run"
               /\ features = {"flash"} => Valid(slots'[0], live')
<1> DEFINE cleared == [s \in SlotId |-> [slots[s] EXCEPT !.magic = FALSE, !.key = Plain,
                                                         !.checksum = Junk, !.stamp = 0]]
           zero == Loaded(cleared, 0)
           one == Loaded(zero, 1)
           two == Loaded(one, 2)
<1>0. /\ flash \in [SlotId -> Dump] /\ slots \in [SlotId -> Dump]
      /\ ~flash[1].magic /\ ~flash[2].magic /\ live = Fresh /\ phase = "off"
  BY Slots3 DEF Boot, IInv, CommitInv, TypeOK
<1>1. cleared \in [SlotId -> Dump] /\ ~cleared[0].magic /\ ~cleared[1].magic /\ ~cleared[2].magic
  <2>1. \A s \in SlotId : cleared[s] \in Dump /\ ~cleared[s].magic
    <3> SUFFICES ASSUME NEW s \in SlotId PROVE cleared[s] \in Dump /\ ~cleared[s].magic
      OBVIOUS
    <3>1. slots[s] \in Dump /\ Plain \in 0 .. Plain /\ 0 \in 0 .. MaxSaves
      BY <1>0, Slots3, BoundAssumption
    <3>2. cleared[s] = [slots[s] EXCEPT !.magic = FALSE, !.key = Plain,
                                        !.checksum = Junk, !.stamp = 0]
      OBVIOUS
    <3> HIDE DEF cleared
    <3> QED
      BY <3>1, <3>2 DEF Dump
  <2>2. DOMAIN cleared = SlotId /\ cleared = [s \in SlotId |-> cleared[s]]
    OBVIOUS
  <2> HIDE DEF cleared
  <2> QED
    BY <2>1, <2>2, Slots3
<1>2. zero = [cleared EXCEPT ![0] = Decrypt(IF "flash" \in features THEN flash[0] ELSE @)]
  BY DEF Loaded
<1>3. /\ zero \in [SlotId -> Dump] /\ ~zero[1].magic /\ ~zero[2].magic
      /\ zero[0] = Decrypt(IF "flash" \in features THEN flash[0] ELSE cleared[0])
  <2> HIDE DEF cleared, zero
  <2>1. Decrypt(IF "flash" \in features THEN flash[0] ELSE cleared[0]) \in Dump
    BY <1>0, <1>1, Slots3, DecryptIsDump
  <2> QED
    BY <1>1, <1>2, <2>1, Slots3
<1>4. IF Verify(zero[0])
      THEN live' = zero[0].body /\ phase' = "restored"
      ELSE RollbackFrom(zero)
  BY DEF Boot
<1> HIDE DEF cleared, zero
<1>5. ~Verify(one[1]) /\ ~Verify(two[2])
  <2>1. /\ one \in [SlotId -> Dump] /\ ~Verify(one[1]) /\ one[2] = zero[2]
    BY <1>0, <1>3, LoadedBlank, Slots3
  <2> HIDE DEF one
  <2> QED
    BY <1>0, <1>3, <2>1, LoadedBlank, Slots3
<1>6. CASE Verify(zero[0])
  <2>1. "flash" \in features /\ zero[0] = Decrypt(flash[0])
    <3>1. cleared[0] \in Dump /\ ~Decrypt(cleared[0]).magic
      BY <1>1, DecryptIsDump, Slots3
    <3> QED
      BY <1>3, <1>6, <3>1 DEF Verify
  <2>2. flash[0].magic /\ zero[0].body \in {flash[0].body, Junk}
    BY <1>0, <1>6, <2>1, DecryptIsDump, Slots3 DEF Verify
  <2>3. zero[0].body # Junk
    BY <1>0, <1>6, <2>1, <2>2, DecryptIsDump, Slots3 DEF Verify, IInv, DumpInv
  <2>4. flash[0].body = committed /\ live' = committed
    BY <1>4, <1>6, <2>2, <2>3 DEF CommitInv
  <2> QED
    BY <1>4, <1>6, <2>4
<1>7. CASE ~Verify(zero[0])
  <2>1. Save(two, Fresh)
    BY <1>0, <1>4, <1>5, <1>7 DEF RollbackFrom
  <2>2. ~(features = {"flash"} /\ Valid(flash[0], committed))
    BY <1>3, <1>7 DEF Valid, Verify, Decrypt
  <2> QED
    BY <2>1, <2>2, SaveIsValid
<1> QED
  BY <1>6, <1>7

\* What a boot may bring back, and what a commit that reads back does.
Comes ==
  BootStep =>
    /\ live' \in {committed, Fresh}
    /\ features = {"flash"} /\ flash[0].body = committed /\ committed # Junk
         => live' = committed

\* What a step does to the last commit.
LEMMA CommitStep ==
  ASSUME IInv, CommitInv, [Next]_vars
  PROVE  CommitInv' /\ Comes
<1>0. /\ features' = features /\ flash \in [SlotId -> Dump] /\ slots \in [SlotId -> Dump]
      /\ torn \in BOOLEAN /\ 0 \in SlotId
  BY Slots3 DEF Next, Boot, Start, Learn, PeriodicSave, EmergencyRollback, Commit, PowerLoss,
         Decay, vars, IInv, TypeOK
<1>1. CASE Boot
  <2>1. UNCHANGED <<flash, programmed, history>> /\ phase = "off"
    BY <1>1 DEF Boot
  <2>2. /\ live' \in {committed, Fresh}
        /\ features = {"flash"} /\ Valid(flash[0], committed) => live' = committed
        /\ \/ phase' = "restored"
           \/ /\ slots'[0].body = live'
              /\ phase' = IF "flash" \in features THEN "erase" ELSE "run"
              /\ features = {"flash"} => Valid(slots'[0], live')
    BY <1>1, BootRestores
  <2> QED
    BY <1>0, <2>1, <2>2 DEF CommitInv, Comes, history
<1>2. CASE Start \/ Learn
  BY <1>0, <1>2 DEF Start, Learn, CommitInv, Comes, BootStep, history
<1>3. CASE PeriodicSave \/ EmergencyRollback
  <2>1. /\ slots'[0].body = live'
        /\ phase' = IF "flash" \in features THEN "erase" ELSE "run"
        /\ features = {"flash"} => Valid(slots'[0], live')
        /\ phase = "run" /\ UNCHANGED <<flash, programmed, history>>
    BY <1>3, SaveIsValid, RollbackIsValid DEF PeriodicSave, EmergencyRollback
  <2> QED
    BY <1>0, <2>1 DEF CommitInv, Comes, BootStep, history
<1>4. CASE Commit
  <2>1. UNCHANGED <<features, live, slots>> /\ "flash" \in features /\ phase # "off"
    BY <1>4 DEF Commit, CommitInv
  <2>2. CASE phase = "erase"
    <3>1. /\ phase' = "header" /\ flash'[0] = Blank /\ committed' = live /\ torn'
      BY <1>0, <1>4, <2>2 DEF Commit
    <3>2. flash'[0].body = Junk
      BY <3>1 DEF Blank
    <3> QED
      BY <1>0, <2>1, <2>2, <3>1, <3>2, BlankIsDump DEF CommitInv, Comes, BootStep, Valid
  <2>3. CASE phase = "header"
    <3>1. /\ phase' = "payload" /\ flash'[0] = [slots[0] EXCEPT !.body = Junk]
          /\ UNCHANGED <<programmed, committed, torn>>
      BY <1>0, <1>4, <2>3 DEF Commit, history
    <3>2. flash'[0].body = Junk
      BY <1>0, <3>1 DEF Dump
    <3> QED
      BY <1>0, <2>1, <2>3, <3>1, <3>2 DEF CommitInv, Comes, BootStep, Valid
  <2>4. CASE phase = "payload"
    <3>1. /\ phase' = "run" /\ flash'[0] \in {slots[0], [slots[0] EXCEPT !.body = Junk]}
          /\ ~torn' /\ committed' = committed
      BY <1>0, <1>4, <2>4 DEF Commit, ReadsBack
    <3>2. flash'[0].body \in {slots[0].body, Junk} /\ slots[0].body = committed
      BY <1>0, <2>4, <3>1 DEF Dump, CommitInv
    <3>3. ASSUME flash'[0].body = committed, committed # Junk
          PROVE  flash'[0] = slots[0]
      BY <1>0, <3>1, <3>3 DEF Dump
    <3> QED
      BY <1>0, <2>1, <2>4, <3>1, <3>2, <3>3 DEF CommitInv, Comes, BootStep
  <2> QED
    BY <1>4, <2>2, <2>3, <2>4 DEF Commit
<1>5. CASE PowerLoss
  <2>1. /\ phase' = "off" /\ live' = Fresh /\ UNCHANGED <<flash, committed, torn>>
    BY <1>5 DEF PowerLoss, history
  <2> QED
    BY <1>0, <2>1 DEF CommitInv, Comes, BootStep
<1>6. CASE Decay
  <2>1. /\ phase = "run" /\ phase' = "run" /\ flash'[0] = [flash[0] EXCEPT !.body = Junk]
        /\ flash[0].magic /\ committed' = Junk /\ UNCHANGED <<live, slots, programmed, torn>>
    BY <1>0, <1>6 DEF Decay
  <2>2. flash'[0].body = Junk
    BY <1>0, <2>1 DEF Dump
  <2> QED
    BY <1>0, <2>1, <2>2 DEF CommitInv, Comes, BootStep
<1>7. CASE UNCHANGED vars
  BY <1>7 DEF vars, CommitInv, Comes, BootStep, history
<1> QED
  BY <1>1, <1>2, <1>3, <1>4, <1>5, <1>6, <1>7 DEF Next

\* A boot never brings an older state back in place of a newer one, through
\* power losses in a commit, payloads that read back as something else, decay
\* and moved clocks, in each of the four builds; and with flash and without
\* encryption whatever of a commit reads back is restored (load_slot(0) in
\* init_hardware).
THEOREM OnlyTheNewestComesBack == Spec => RestoredIsNewest
<1>1. Init => CommitInv
  BY BlankIsDump, Slots3 DEF Init, CommitInv, Blank
<1>2. IInv /\ CommitInv /\ [Next]_vars => CommitInv'
  BY CommitStep
<1>3. IInv /\ CommitInv /\ [Next]_vars => [Comes]_vars
  BY CommitStep
<1>4. [][Comes]_vars => RestoredIsNewest
  BY PTL DEF Comes, RestoredIsNewest
<1> QED
  BY <1>1, <1>2, <1>3, <1>4, Initially, Stepwise, PTL DEF Spec
-----------------------------------------------------------------------------
(* Numbers                                                                 *)

\* One more than t, divided by m.
LEMMA NextQuotient ==
  ASSUME NEW t \in Nat, NEW m \in Nat \ {0}
  PROVE  (t + 1) \div m = IF (t + 1) % m = 0 THEN t \div m + 1 ELSE t \div m
<1>1. PICK q : q = t \div m
  OBVIOUS
<1>2. PICK r : r = t % m
  OBVIOUS
<1>3. q \in Int /\ r \in 0 .. m - 1 /\ t = m * q + r
  BY <1>1, <1>2
<1>4. CASE r + 1 = m
  <2>1. t + 1 = m * (q + 1)
    BY <1>3, <1>4
  <2>2. (t + 1) \div m = q + 1 /\ (t + 1) % m = 0
    BY <2>1, <1>3
  <2> QED
    BY <2>2, <1>1
<1>5. CASE r + 1 # m
  <2>1. t + 1 = m * q + (r + 1) /\ r + 1 \in 1 .. m - 1
    BY <1>3, <1>5
  <2>2. (t + 1) \div m = q /\ (t + 1) % m = r + 1
    BY <2>1, <1>3
  <2> QED
    BY <2>2, <2>1, <1>1
<1> QED
  BY <1>4, <1>5

\* The remainder of one more than t.
LEMMA NextRemainder ==
  ASSUME NEW t \in Nat, NEW m \in Nat \ {0}
  PROVE  /\ (t + 1) % m = ((t % m) + 1) % m
         /\ (t + 1) % m = IF (t % m) + 1 = m THEN 0 ELSE (t % m) + 1
<1>1. PICK q : q = t \div m
  OBVIOUS
<1>2. PICK r : r = t % m
  OBVIOUS
<1>3. q \in Int /\ r \in 0 .. m - 1 /\ t = m * q + r
  BY <1>1, <1>2
<1>4. CASE r + 1 = m
  <2>1. t + 1 = m * (q + 1)
    BY <1>3, <1>4
  <2>2. (t + 1) % m = 0
    BY <2>1, <1>3
  <2>3. m % m = 0
    OBVIOUS
  <2> QED
    BY <2>2, <2>3, <1>2, <1>4
<1>5. CASE r + 1 # m
  <2>1. t + 1 = m * q + (r + 1) /\ r + 1 \in 1 .. m - 1
    BY <1>3, <1>5
  <2>2. (t + 1) % m = r + 1
    BY <2>1, <1>3
  <2>3. (r + 1) % m = r + 1
    BY <2>1
  <2> QED
    BY <2>2, <2>3, <1>2, <1>5
<1> QED
  BY <1>4, <1>5

\* A set of naturals that is not empty has a least one.
LEMMA Least ==
  ASSUME NEW S \in SUBSET Nat, S # {}
  PROVE  \E k \in S : \A l \in S : k <= l
<1> DEFINE Smaller == OpToRel(<, Nat)
<1>1. IsWellFoundedOn(Smaller, Nat)
  BY NatLessThanWellFounded
<1> HIDE DEF Smaller
<1>2. PICK k \in S : \A l \in S : ~(<<l, k>> \in Smaller)
  BY <1>1, WFMin
<1> USE DEF Smaller
<1>3. \A l \in S : ~(l < k)
  BY <1>2 DEF OpToRel
<1> QED
  BY <1>3
-----------------------------------------------------------------------------
(* The clock and the dreams (Clock)                                        *)

\* The counters of the clock.
Rates == {"khz", "hz100", "hz10", "hz1"}

\* What the loop has done for the clock: ticks are at most the interrupts, and
\* at most one ahead of the network's steps, so no dream began in the future.
ClockInv ==
  /\ irqs \in Nat /\ ticks \in [Rates -> Nat] /\ clockTime \in Nat
  /\ clockAt \in {"turn", "step", "dream", "check"}
  /\ warp \in [factor : Nat, active : BOOLEAN, base : Nat]
  /\ C!TimeIsCounted
  /\ clockAt = "dream" => warp.active /\ warp.base = ticks["khz"]
  /\ clockAt = "turn" /\ clockAsked => dreaming
  /\ clockCooldown = 0 /\ last \in Nat /\ last <= clockTime
  /\ ticks["khz"] <= clockTime + (IF clockAt = "step" THEN 1 ELSE 0)

\* The slower counters move at multiples of their periods.
LEMMA Periods ==
  /\ C!Rate = Rates /\ DOMAIN C!Period = {"hz100", "hz10", "hz1"}
  /\ \A r \in {"hz100", "hz10", "hz1"} : C!Period[r] \in Nat \ {0}
<1>1. PICK f \in Nat \ {0} : f = Fold
  BY ClockAssumption
<1>2. f * f \in Nat \ {0}
  OBVIOUS
<1>3. f * f * f \in Nat \ {0}
  BY <1>2
<1>4. DOMAIN C!Period = {"hz100", "hz10", "hz1"}
  BY DEF C!Period, C!Rate
<1>5. \A r \in {"hz100", "hz10", "hz1"} :
         C!Period[r] = (CASE r = "hz100" -> f [] r = "hz10" -> f * f
                          [] OTHER -> f * f * f)
  BY <1>1 DEF C!Period, C!Rate
<1>6. C!Period["hz100"] = f /\ C!Period["hz10"] = f * f /\ C!Period["hz1"] = f * f * f
  BY <1>5
<1> QED
  BY <1>2, <1>3, <1>4, <1>6 DEF C!Rate, Rates

\* One tick keeps every counter at its multiple (isr_tick_1khz).
LEMMA TickCounts ==
  ASSUME ClockInv, C!Tick
  PROVE  /\ ticks' \in [Rates -> Nat] /\ ticks'["khz"] = ticks["khz"] + 1
         /\ \A r \in DOMAIN C!Period : ticks'[r] = ticks'["khz"] \div C!Period[r]
         /\ boosts' = ticks'["hz1"] /\ clockCycles' = ticks'["khz"] % ClockWrap
<1> DEFINE t == ticks["khz"]
           moved == C!Derived(t + 1)
           slow == {"hz100", "hz10", "hz1"}
<1>1. /\ ticks' = [r \in Rates |-> IF r \in moved \cup {"khz"} THEN ticks[r] + 1
                                                              ELSE ticks[r]]
      /\ clockCycles' = (clockCycles + 1) % ClockWrap
      /\ boosts' = IF "hz1" \in moved THEN boosts + 1 ELSE boosts
  BY Periods DEF C!Tick
<1>2. /\ t \in Nat /\ ticks \in [Rates -> Nat] /\ ClockWrap \in Nat \ {0}
      /\ \A r \in slow : ticks[r] = t \div C!Period[r]
      /\ boosts = ticks["hz1"] /\ clockCycles = t % ClockWrap
  BY Periods, ClockAssumption DEF ClockInv, Rates, C!TimeIsCounted
<1>3. moved = {r \in slow : (t + 1) % C!Period[r] = 0}
  BY Periods DEF C!Derived, Rates
<1>4. "khz" \notin slow /\ slow \subseteq Rates /\ "khz" \in Rates
  BY DEF Rates
<1>5. ASSUME NEW r \in slow
      PROVE  /\ (t + 1) \div C!Period[r] = IF r \in moved THEN ticks[r] + 1 ELSE ticks[r]
             /\ ticks[r] \in Nat /\ r # "khz" /\ r \in Rates
  <2>1. C!Period[r] \in Nat \ {0} /\ t \in Nat
    BY Periods, <1>2
  <2>2. (t + 1) \div C!Period[r]
          = IF (t + 1) % C!Period[r] = 0 THEN t \div C!Period[r] + 1 ELSE t \div C!Period[r]
    BY <2>1, NextQuotient
  <2>3. r \in moved <=> (t + 1) % C!Period[r] = 0
    BY <1>3
  <2>4. ticks[r] = t \div C!Period[r]
    BY <1>2
  <2> HIDE DEF t, moved
  <2> QED
    BY <2>2, <2>3, <2>4, <1>4, <1>2
<1>6. (t + 1) % ClockWrap = (clockCycles + 1) % ClockWrap
  BY <1>2, NextRemainder
<1> HIDE DEF t, moved, slow
<1>7. ticks'["khz"] = t + 1
  BY <1>1, <1>4 DEF t
<1>8. \A r \in slow : ticks'[r] = (t + 1) \div C!Period[r]
  BY <1>1, <1>5
<1>9. \A r \in Rates : ticks'[r] \in Nat
  BY <1>1, <1>2
<1>10. DOMAIN C!Period = slow /\ "hz1" \in slow
  BY Periods DEF slow
<1> QED
  BY <1>1, <1>2, <1>5, <1>6, <1>7, <1>8, <1>9, <1>10 DEF t

\* At first no tick is counted and nobody dreams.
LEMMA ClockInit == C!DreamInit => ClockInv
<1> SUFFICES ASSUME C!DreamInit PROVE ClockInv
  OBVIOUS
<1>1. /\ clockAt = "turn" /\ irqs = 0 /\ flags = {} /\ clockCycles = 0 /\ boosts = 0
      /\ ticks = [r \in Rates |-> 0] /\ warp = [factor |-> 1, active |-> FALSE, base |-> 0]
      /\ clockTime = 0 /\ dreaming = FALSE /\ last = 0 /\ clockCooldown = 0
      /\ clockAsked = FALSE
  BY Periods DEF C!DreamInit, C!Init, C!Real
<1>2. \A m \in Nat \ {0} : 0 \div m = 0 /\ 0 % m = 0
  OBVIOUS
<1>3. \A r \in DOMAIN C!Period : r \in Rates /\ C!Period[r] \in Nat \ {0}
  BY Periods DEF Rates
<1>4. ClockWrap \in Nat \ {0} /\ "khz" \in Rates /\ "hz1" \in Rates
  BY ClockAssumption DEF Rates
<1>5. C!TimeIsCounted
  BY <1>1, <1>2, <1>3, <1>4 DEF C!TimeIsCounted
<1> QED
  BY <1>1, <1>4, <1>5 DEF ClockInv

\* Taking the flags counts one tick at most (handle_pending_isrs).
LEMMA HandleKeeps == ASSUME ClockInv, C!HandlePending, C!Quiet PROVE ClockInv'
<1>1. /\ clockAt = "turn" /\ clockAt' = "step" /\ flags' = {}
      /\ UNCHANGED <<irqs, warp>>
      /\ UNCHANGED <<clockTime, dreaming, last, clockCooldown, clockAsked>>
  BY DEF C!HandlePending, C!Taken, C!Quiet
<1>2. CASE "SysTick" \in flags
  <2>1. C!Tick
    BY <1>2 DEF C!HandlePending
  <2>2. /\ ticks' \in [Rates -> Nat] /\ ticks'["khz"] = ticks["khz"] + 1
        /\ \A r \in DOMAIN C!Period : ticks'[r] = ticks'["khz"] \div C!Period[r]
        /\ boosts' = ticks'["hz1"] /\ clockCycles' = ticks'["khz"] % ClockWrap
    BY <2>1, TickCounts
  <2>3. ticks["khz"] \in Nat /\ ticks["khz"] + 1 <= irqs /\ ticks["khz"] <= clockTime
    BY <1>1, <1>2 DEF ClockInv, C!TimeIsCounted, Rates
  <2>4. C!TimeIsCounted'
    BY <1>1, <2>2, <2>3 DEF C!TimeIsCounted, ClockInv, C!Period, C!Rate
  <2> QED
    BY <1>1, <2>2, <2>3, <2>4 DEF ClockInv
<1>3. CASE "SysTick" \notin flags
  <2>1. UNCHANGED <<ticks, clockCycles, boosts>>
    BY <1>3 DEF C!HandlePending
  <2>2. C!TimeIsCounted'
    BY <1>1, <1>3, <2>1 DEF C!TimeIsCounted, ClockInv
  <2>3. ticks["khz"] \in Nat
    BY DEF ClockInv, Rates
  <2> QED
    BY <1>1, <2>1, <2>2, <2>3 DEF ClockInv
<1> QED
  BY <1>2, <1>3

\* An interrupt only raises its flag (SysTick_Handler).
LEMMA InterruptKeeps == ASSUME ClockInv, C!Interrupt, C!Quiet PROVE ClockInv'
<1>1. PICK f \in C!Flag :
         /\ flags' = flags \cup {f}
         /\ irqs' = IF f = "SysTick" THEN irqs + 1 ELSE irqs
  BY DEF C!Interrupt
<1>2. /\ UNCHANGED <<clockAt, ticks, clockCycles, boosts, warp>>
      /\ UNCHANGED <<clockTime, dreaming, last, clockCooldown, clockAsked>>
  BY DEF C!Interrupt, C!Quiet
<1>3. ticks["khz"] \in Nat /\ irqs \in Nat
  BY DEF ClockInv, Rates
<1>4. C!TimeIsCounted'
  BY <1>1, <1>2, <1>3 DEF ClockInv, C!TimeIsCounted
<1> QED
  BY <1>1, <1>2, <1>3, <1>4 DEF ClockInv

\* The monitor finds low entropy whenever it is asked, so a step leaves the
\* network dreaming unless the dream's term is over, and nothing else begins.
LEMMA NetStepDreams ==
  ASSUME ClockInv, C!NetStep, ticks["khz"] <= clockTime + 1
  PROVE  /\ clockTime' = clockTime + 1 /\ clockAsked' = TRUE
         /\ clockCooldown' = 0 /\ last' \in Nat /\ last' <= clockTime'
<1> DEFINE step == clockTime + 1
           due == step % UpdatePeriod = 0
           d == C!Asked(C!Dream)
           over == due /\ C!Over(d, step)
<1>1. d = [on |-> TRUE, last |-> ticks["khz"]]
  BY DEF C!Asked, C!Health, C!Activated
<1>2. clockTime \in Nat /\ ticks["khz"] \in Nat /\ clockCooldown = 0
  BY DEF ClockInv, Rates
<1>3. \A bored : ~C!Bored(d, bored)
  BY <1>1 DEF C!Bored
<1>4. /\ clockTime' = step /\ clockAsked' = TRUE
      /\ \E bored \in BOOLEAN :
           /\ last' = IF over THEN step ELSE d.last
           /\ clockCooldown' = CASE due /\ clockCooldown > 0 -> clockCooldown - 1
                                 [] OTHER -> clockCooldown
  <2>1. PICK bored \in BOOLEAN :
       LET start == due /\ C!Bored(d, bored)
           e == IF start THEN C!Activated ELSE d
           ends == due /\ C!Over(e, step)
       IN
       /\ last' = IF ends THEN step ELSE e.last
       /\ clockCooldown' = CASE start -> DreamPause
                        [] due /\ ~start /\ clockCooldown > 0 -> clockCooldown - 1
                        [] OTHER -> clockCooldown
    BY DEF C!NetStep
  <2>2. ~C!Bored(d, bored)
    BY <1>3
  <2> HIDE DEF d
  <2>3. clockTime' = step /\ clockAsked' = TRUE
    BY DEF C!NetStep
  <2> QED
    BY <2>1, <2>2, <2>3, <1>2
<1>5. last' = step \/ last' = ticks["khz"]
  BY <1>1, <1>4
<1>6. clockCooldown' = 0
  BY <1>2, <1>4
<1> QED
  BY <1>2, <1>4, <1>5, <1>6

\* Every step of the loop, and of a simulation, keeps the clock.
LEMMA ClockKeeps == ASSUME ClockInv, C!DreamNext PROVE ClockInv'
<1>1. CASE C!Interrupt /\ C!Quiet
  BY <1>1, InterruptKeeps
<1>2. CASE C!HandlePending /\ C!Quiet
  BY <1>2, HandleKeeps
<1>3. CASE C!Deactivate /\ C!Quiet
  <2>1. /\ clockAt' = "check" /\ clockAt = "dream"
        /\ warp' = [warp EXCEPT !.active = FALSE, !.factor = 1]
        /\ UNCHANGED <<irqs, flags, ticks, clockCycles, boosts>>
        /\ UNCHANGED <<clockTime, dreaming, last, clockCooldown, clockAsked>>
    BY <1>3 DEF C!Deactivate, C!Quiet
  <2>2. C!TimeIsCounted'
    BY <2>1 DEF ClockInv, C!TimeIsCounted
  <2> QED
    BY <2>1, <2>2 DEF ClockInv
<1>4. CASE C!Step /\ C!NetStep
  <2>1. clockAt = "step" /\ UNCHANGED <<irqs, flags, ticks, clockCycles, boosts>>
    BY <1>4 DEF C!Step
  <2>2. \/ clockAt' = "check" /\ warp' = warp
        \/ /\ clockAt' = "dream"
           /\ \E f \in Factors :
                warp' = [factor |-> IF f = 0 THEN 1 ELSE f, active |-> TRUE,
                         base |-> ticks["khz"]]
    BY <1>4 DEF C!Step
  <2>3. ticks["khz"] \in Nat /\ ticks["khz"] <= clockTime + 1 /\ clockTime \in Nat
    BY <2>1 DEF ClockInv, Rates
  <2>4. /\ clockTime' = clockTime + 1 /\ clockAsked' = TRUE
        /\ clockCooldown' = 0 /\ last' \in Nat /\ last' <= clockTime'
    BY <1>4, <2>3, NetStepDreams
  <2>5. C!TimeIsCounted'
    BY <2>1 DEF ClockInv, C!TimeIsCounted
  <2>6. warp' \in [factor : Nat, active : BOOLEAN, base : Nat]
        /\ (clockAt' = "dream" => warp'.active /\ warp'.base = ticks["khz"])
    <3>1. CASE clockAt' = "check" /\ warp' = warp
      BY <3>1 DEF ClockInv
    <3>2. CASE clockAt' = "dream" /\ \E f \in Factors :
                 warp' = [factor |-> IF f = 0 THEN 1 ELSE f, active |-> TRUE,
                          base |-> ticks["khz"]]
      <4>1. PICK f \in Factors :
              warp' = [factor |-> IF f = 0 THEN 1 ELSE f, active |-> TRUE,
                       base |-> ticks["khz"]]
        BY <3>2
      <4>2. (IF f = 0 THEN 1 ELSE f) \in Nat
        BY ClockAssumption
      <4> QED
        BY <4>1, <4>2, <2>3
    <3> QED
      BY <2>2, <3>1, <3>2
  <2> QED
    BY <2>1, <2>2, <2>3, <2>4, <2>5, <2>6 DEF ClockInv
<1>5. CASE clockAt = "dream" /\ C!NetStep /\ UNCHANGED C!clockVars
  <2>1. UNCHANGED <<clockAt, irqs, flags, ticks, clockCycles, boosts, warp>>
    BY <1>5 DEF C!clockVars
  <2>2. /\ ticks["khz"] \in Nat /\ clockTime \in Nat
        /\ ticks["khz"] <= clockTime /\ ticks["khz"] <= clockTime + 1
    BY <1>5 DEF ClockInv, Rates
  <2>3. /\ clockTime' = clockTime + 1 /\ clockAsked' = TRUE
        /\ clockCooldown' = 0 /\ last' \in Nat /\ last' <= clockTime'
    BY <1>5, <2>2, NetStepDreams
  <2>4. C!TimeIsCounted'
    BY <2>1 DEF ClockInv, C!TimeIsCounted
  <2> QED
    BY <1>5, <2>1, <2>2, <2>3, <2>4 DEF ClockInv
<1>6. CASE C!EndTurn /\ C!Emergencies
  <2>1. /\ clockAt = "check" /\ clockAt' = "turn"
        /\ UNCHANGED <<irqs, flags, ticks, clockCycles, boosts, warp>>
    BY <1>6 DEF C!EndTurn
  <2>2. /\ dreaming' = TRUE /\ last' = ticks["khz"]
        /\ UNCHANGED <<clockTime, clockCooldown, clockAsked>>
    BY <1>6 DEF C!Emergencies, C!Asked, C!Health, C!Activated
  <2>3. ticks["khz"] \in Nat /\ ticks["khz"] <= clockTime /\ clockTime \in Nat
    BY <2>1 DEF ClockInv, Rates
  <2>4. C!TimeIsCounted'
    BY <2>1 DEF ClockInv, C!TimeIsCounted
  <2> QED
    BY <2>1, <2>2, <2>3, <2>4 DEF ClockInv
<1> QED
  BY <1>1, <1>2, <1>3, <1>4, <1>5, <1>6 DEF C!DreamNext

\* For every rate between the counters, every warp and every term of a dream,
\* ticks are counted once, a simulation sees the time at which it began, and
\* no turn ends awake (TimeHolds of run machine).
THEOREM TimeIsKept == MachineSpec => []TimeHolds
<1>1. MachineInit => ClockInv
  BY ClockInit DEF MachineInit
<1>2. ClockInv /\ [MachineNext]_machineVars => ClockInv'
  <2> SUFFICES ASSUME ClockInv, [MachineNext]_machineVars PROVE ClockInv'
    OBVIOUS
  <2>1. CASE C!DreamNext
    BY <2>1, ClockKeeps
  <2>2. CASE UNCHANGED clock
    BY <2>2 DEF clock, ClockInv, C!TimeIsCounted
  <2> QED
    BY <2>1, <2>2 DEF MachineNext, Still, machineVars
<1>3. ClockInv => TimeHolds
  <2> SUFFICES ASSUME ClockInv PROVE C!TimeIsCounted /\ C!DreamStandsStill /\ C!NeverAwake
    BY DEF TimeHolds
  <2>1. C!DreamStandsStill
    <3> SUFFICES ASSUME clockAt = "dream" PROVE C!SimulatedMs = warp.base /\ warp.active
      BY DEF C!DreamStandsStill
    <3>1. /\ warp.active /\ warp.base = ticks["khz"] /\ warp.base \in Nat
          /\ warp.factor \in Nat
      BY DEF ClockInv
    <3>2. PICK f \in Nat : f = warp.factor
      BY <3>1
    <3>3. (ticks["khz"] - warp.base) * warp.factor = 0
      BY <3>1, <3>2
    <3> QED
      BY <3>1, <3>3 DEF C!SimulatedMs
  <2> QED
    BY <2>1 DEF ClockInv, C!NeverAwake
<1> QED
  BY <1>1, <1>2, <1>3, PTL DEF MachineSpec
-----------------------------------------------------------------------------
(* Sensors and actuators (Devices)                                         *)

\* What a register holds while no datum is in it.
NoDatum == "none"

\* Until a wait gives up, a bus is held, and a datum on its way, only for the
\* entry being read.
Calm ==
  /\ turn = 0 => ~held /\ byte = NoDatum /\ eoc = NoDatum /\ busy = NoDatum
  /\ turn > 0 /\ Plan[turn][1] = "i2c" =>
       /\ held <=> wait < 6
       /\ eoc = NoDatum /\ busy = NoDatum
       /\ byte # NoDatum => wait = 6 /\ byte = Plan[turn][2]
  /\ turn > 0 /\ Plan[turn][1] = "adc" =>
       /\ ~held /\ byte = NoDatum
       /\ \/ busy = Plan[turn][2] /\ eoc = NoDatum
          \/ busy = NoDatum /\ eoc = Plan[turn][2]

DeviceInv ==
  /\ turn \in 0 .. Len(Plan) /\ wait \in 0 .. 6
  /\ errors = losses
  /\ ~late => Calm /\ sensor = [s \in D!Source |-> s]

\* Each entry of the plan has a bus, and a source that is not None.
LEMMA Entries ==
  /\ D!None = NoDatum /\ Len(Plan) \in Nat
  /\ \A k \in 1 .. Len(Plan) : /\ Plan[k][1] \in {"i2c", "adc"}
                               /\ Plan[k][2] # NoDatum /\ Plan[k][2] \in D!Source
<1>1. \A k \in 1 .. Len(Plan) : Plan[k][2] \in D!Source
  BY DeviceAssumption DEF D!Source
<1> QED
  BY <1>1, DeviceAssumption DEF D!None, NoDatum

\* Taking up an entry with the bus and the registers free (read_all).
LEMMA BeginKeeps ==
  ASSUME NEW k \in 1 .. Len(Plan) + 1, D!Begin(k)
  PROVE  /\ turn' \in 0 .. Len(Plan) /\ wait' \in 0 .. 6
         /\ ~held /\ busy = NoDatum /\ byte' = NoDatum /\ eoc' = NoDatum => Calm'
<1>1. CASE k > Len(Plan)
  <2>1. turn' = 0 /\ wait' = 0 /\ held' = held /\ busy' = busy
    BY <1>1 DEF D!Begin
  <2> QED
    BY <2>1, Entries DEF Calm
<1>2. CASE ~(k > Len(Plan))
  <2>1. /\ turn' = k /\ wait' = 1 /\ k \in 1 .. Len(Plan)
        /\ IF Plan[k][1] = "i2c" THEN held' = TRUE /\ busy' = busy
                                 ELSE busy' = Plan[k][2] /\ held' = held
    BY <1>2, Entries DEF D!Begin
  <2>2. Plan[k][1] \in {"i2c", "adc"}
    BY <2>1, Entries
  <2>3. CASE Plan[k][1] = "i2c"
    BY <2>1, <2>3, Entries DEF Calm
  <2>4. CASE Plan[k][1] = "adc"
    BY <2>1, <2>4, Entries DEF Calm
  <2> QED
    BY <2>2, <2>3, <2>4
<1> QED
  BY <1>1, <1>2

\* At first the bus is free and every reading its own.
LEMMA DevicesBegin == D!DeviceInit => DeviceInv
<1> SUFFICES ASSUME D!DeviceInit PROVE DeviceInv
  OBVIOUS
<1>1. /\ turn = 0 /\ wait = 0 /\ held = FALSE /\ byte = NoDatum /\ busy = NoDatum
      /\ eoc = NoDatum /\ sensor = [s \in D!Source |-> s] /\ errors = losses
  BY Entries DEF D!DeviceInit
<1>2. Calm
  BY <1>1 DEF Calm
<1>4. Len(Plan) \in Nat
  BY Entries
<1>5. turn \in 0 .. Len(Plan) /\ wait \in 0 .. 6
  BY <1>1, <1>4
<1> QED
  BY <1>1, <1>2, <1>5 DEF DeviceInv

\* A datum read while nothing has been given up is that of the entry.
LEMMA TakeKeeps ==
  ASSUME DeviceInv, D!TakeByte \/ D!TakeSample PROVE DeviceInv'
<1>1. /\ turn \in 1 .. Len(Plan) /\ D!Begin(turn + 1)
      /\ UNCHANGED <<errors, losses, late, motion>>
      /\ \/ /\ Plan[turn][1] = "i2c" /\ wait = 6 /\ byte # NoDatum /\ byte' = NoDatum
            /\ UNCHANGED eoc /\ sensor' = [sensor EXCEPT ![Plan[turn][2]] = byte]
         \/ /\ Plan[turn][1] = "adc" /\ eoc # NoDatum /\ eoc' = NoDatum
            /\ UNCHANGED byte /\ sensor' = [sensor EXCEPT ![Plan[turn][2]] = eoc]
  BY Entries DEF D!TakeByte, D!TakeSample, D!Bus, D!From, DeviceInv
<1>2. turn + 1 \in 1 .. Len(Plan) + 1
  BY <1>1, Entries DEF DeviceInv
<1>3. /\ turn' \in 0 .. Len(Plan) /\ wait' \in 0 .. 6
      /\ ~held /\ busy = NoDatum /\ byte' = NoDatum /\ eoc' = NoDatum => Calm'
  BY <1>1, <1>2, BeginKeeps
<1>4. ASSUME ~late
      PROVE  Calm' /\ sensor' = [s \in D!Source |-> s]
  <2>1. Calm /\ sensor = [s \in D!Source |-> s]
    BY <1>4 DEF DeviceInv
  <2>2. Plan[turn][2] \in D!Source
    BY <1>1, Entries
  <2>3. CASE /\ Plan[turn][1] = "i2c" /\ wait = 6 /\ byte # NoDatum /\ byte' = NoDatum
             /\ UNCHANGED eoc /\ sensor' = [sensor EXCEPT ![Plan[turn][2]] = byte]
    <3>1. ~held /\ busy = NoDatum /\ eoc = NoDatum /\ byte = Plan[turn][2]
      BY <2>1, <2>3, <1>1 DEF Calm
    <3> QED
      BY <3>1, <2>1, <2>2, <2>3, <1>3
  <2>4. CASE /\ Plan[turn][1] = "adc" /\ eoc # NoDatum /\ eoc' = NoDatum
             /\ UNCHANGED byte /\ sensor' = [sensor EXCEPT ![Plan[turn][2]] = eoc]
    <3>1. ~held /\ busy = NoDatum /\ byte = NoDatum /\ eoc = Plan[turn][2]
      BY <2>1, <2>4, <1>1 DEF Calm
    <3> QED
      BY <3>1, <2>1, <2>2, <2>4, <1>3
  <2> QED
    BY <1>1, <2>3, <2>4
<1> QED
  BY <1>1, <1>3, <1>4 DEF DeviceInv

\* Every event of a device, and every wait, keeps the devices.
LEMMA DevicesKeep == ASSUME DeviceInv, D!DeviceNext PROVE DeviceInv'
<1>1. CASE D!ReadAll
  <2>1. /\ turn = 0 /\ D!Begin(1)
        /\ UNCHANGED <<byte, eoc, sensor, errors, losses, late, motion>>
    BY <1>1 DEF D!ReadAll
  <2>2. 1 \in 1 .. Len(Plan) + 1
    BY Entries DEF DeviceInv
  <2>3. /\ turn' \in 0 .. Len(Plan) /\ wait' \in 0 .. 6
        /\ ~held /\ busy = NoDatum /\ byte' = NoDatum /\ eoc' = NoDatum => Calm'
    BY <2>1, <2>2, BeginKeeps
  <2>4. ~late => Calm'
    BY <2>1, <2>3 DEF DeviceInv, Calm
  <2> QED
    BY <2>1, <2>3, <2>4 DEF DeviceInv
<1>2. CASE D!Advance
  <2>1. /\ turn > 0 /\ Plan[turn][1] = "i2c" /\ wait < 6
        /\ wait' = wait + 1 /\ held' = (wait < 5)
        /\ UNCHANGED <<turn, byte, busy, eoc, sensor, errors, losses, late, motion>>
    BY <1>2 DEF D!Advance, D!Bus
  <2>2. wait' \in 0 .. 6 /\ (held' <=> wait' < 6)
    <3>1. wait \in 0 .. 5 /\ wait' \in 0 .. 6
      BY <2>1 DEF DeviceInv
    <3>2. CASE wait < 5
      <4>1. held' = TRUE
        BY <2>1, <3>2, Zenon
      <4>2. wait' < 6
        BY <2>1, <3>1, <3>2
      <4> QED
        BY <3>1, <4>1, <4>2
    <3>3. CASE ~(wait < 5)
      <4>1. held' <=> wait < 5
        BY <2>1, Zenon
      <4>3. wait' = 6
        BY <2>1, <3>1, <3>3
      <4> QED
        BY <3>1, <3>3, <4>1, <4>3
    <3> QED
      BY <3>2, <3>3
  <2>3. Calm => Calm'
    BY <2>1, <2>2 DEF Calm, DeviceInv
  <2> QED
    BY <2>1, <2>2, <2>3 DEF DeviceInv
<1>3. CASE D!Answer
  <2>1. /\ turn > 0 /\ Plan[turn][1] = "i2c" /\ wait = 6 /\ byte' = Plan[turn][2]
        /\ UNCHANGED <<turn, wait, held, busy, eoc, sensor, errors, losses, late, motion>>
    BY <1>3 DEF D!Answer, D!Bus, D!From
  <2> QED
    BY <2>1 DEF DeviceInv, Calm
<1>4. CASE D!LateAnswer
  BY <1>4 DEF D!LateAnswer, DeviceInv
<1>5. CASE D!Convert
  <2>1. /\ busy # NoDatum /\ eoc' = busy /\ busy' = NoDatum
        /\ UNCHANGED <<turn, wait, held, byte, sensor, errors, losses, late, motion>>
    BY <1>5, Entries DEF D!Convert
  <2>2. ASSUME Calm PROVE Calm'
    <3>1. turn \in 1 .. Len(Plan)
      BY <2>1, <2>2, Entries DEF Calm, DeviceInv
    <3>2. Plan[turn][1] \in {"i2c", "adc"}
      BY <3>1, Entries
    <3> QED
      BY <2>1, <2>2, <3>1, <3>2 DEF Calm
  <2> QED
    BY <2>1, <2>2 DEF DeviceInv
<1>6. CASE D!TakeByte \/ D!TakeSample
  BY <1>6, TakeKeeps
<1>7. CASE D!GiveUp
  <2>1. /\ turn \in 1 .. Len(Plan) /\ late' = TRUE /\ D!Begin(turn + 1) /\ UNCHANGED motion
        /\ errors' = losses'
    BY <1>7 DEF D!GiveUp, D!Counted, DeviceInv
  <2>2. turn + 1 \in 1 .. Len(Plan) + 1
    BY <2>1, Entries DEF DeviceInv
  <2>3. turn' \in 0 .. Len(Plan) /\ wait' \in 0 .. 6
    BY <2>1, <2>2, BeginKeeps
  <2> QED
    BY <2>1, <2>3 DEF DeviceInv
<1>8. CASE D!ReadMotorOutputs
  BY <1>8 DEF D!ReadMotorOutputs, DeviceInv, Calm
<1> QED
  BY <1>1, <1>2, <1>3, <1>4, <1>5, <1>6, <1>7, <1>8 DEF D!DeviceNext

\* What the invariant says of readings.
LEMMA DeviceSafe == DeviceInv => D!ReadingsAreTheirOwn
BY Entries DEF DeviceInv, D!ReadingsAreTheirOwn, Calm
-----------------------------------------------------------------------------
(* Encoders (Devices)                                                      *)

\* What a spike's neuron says of its source.
Told(e) ==
  \/ e.from = "text" /\ e.n \in 0 .. Mask - 1
  \/ e.from = "sensor" /\ e.n \in SensorBase .. ProprioBase - 1
  \/ e.from = "proprio" /\ e.n >= ProprioBase
  \/ e.from = "internal" /\ e.n = InternalBase
  \/ e.from = "rate" /\ e.n = -1

\* The sources, and the spikes they send and the events the queue takes.
Kinds == {"text", "sensor", "proprio", "internal", "rate"}
Spikes == [from : Kinds, n : Int, v : Int]
Events == [from : Kinds, n : Int]

\* The last value of a field is the last one it announced.
EncInv ==
  /\ now \in Nat /\ lastChar \in Nat /\ lastChar <= now /\ idx \in Nat
  /\ rhythm \in [0 .. Ring - 1 -> Int] /\ D!RhythmHolds
  /\ lastValue \in [0 .. Fields - 1 -> Int]
  /\ sent \in Seq(Spikes) /\ heard \in Seq(Events)
  /\ \A i \in DOMAIN heard : Told(heard[i])
  /\ \A f \in 0 .. Fields - 1 : \A i \in D!OfField(f) :
       (\A k \in D!OfField(f) : k <= i) => lastValue[f] = sent[i].v
  /\ D!AnnouncementsDiffer

\* A spike that is not a sensor's changes no announcement.
LEMMA IngestKeeps ==
  ASSUME EncInv, NEW src \in Kinds, NEW n \in Int, NEW v \in Int,
         Told([from |-> src, n |-> n]), D!Ingest(src, n, v)
  PROVE  /\ sent' = Append(sent, [from |-> src, n |-> n, v |-> v])
         /\ sent' \in Seq(Spikes) /\ Len(sent) \in Nat /\ DOMAIN sent = 1 .. Len(sent)
         /\ DOMAIN sent' = 1 .. Len(sent) + 1
         /\ \A i \in 1 .. Len(sent) : sent'[i] = sent[i]
         /\ sent'[Len(sent) + 1] = [from |-> src, n |-> n, v |-> v]
         /\ heard' \in Seq(Events)
         /\ \A i \in DOMAIN heard' : Told(heard'[i])
<1> DEFINE e == [from |-> src, n |-> n, v |-> v]
           h == [from |-> src, n |-> n]
<1>1. sent' = Append(sent, e) /\ (heard' = Append(heard, h) \/ heard' = heard)
  BY DEF D!Ingest
<1>2. e \in Spikes /\ h \in Events /\ Told(h)
  BY DEF Spikes, Events
<1>3. /\ sent \in Seq(Spikes) /\ heard \in Seq(Events)
      /\ \A i \in DOMAIN heard : Told(heard[i])
  BY DEF EncInv
<1> HIDE DEF e, h
<1>4. /\ sent' \in Seq(Spikes) /\ Len(sent') = Len(sent) + 1 /\ Len(sent) \in Nat
      /\ \A i \in 1 .. Len(sent) : sent'[i] = sent[i]
      /\ sent'[Len(sent) + 1] = e
  BY <1>1, <1>2, <1>3, AppendProperties
<1>5. DOMAIN sent = 1 .. Len(sent) /\ DOMAIN sent' = 1 .. Len(sent) + 1
  BY <1>3, <1>4
<1>6. CASE heard' = heard
  BY <1>1, <1>3, <1>4, <1>5, <1>6 DEF e
<1>7. CASE heard' = Append(heard, h)
  <2>1. /\ heard' \in Seq(Events) /\ Len(heard') = Len(heard) + 1 /\ Len(heard) \in Nat
        /\ \A i \in 1 .. Len(heard) : heard'[i] = heard[i]
        /\ heard'[Len(heard) + 1] = h
    BY <1>2, <1>3, <1>7, AppendProperties
  <2>2. DOMAIN heard = 1 .. Len(heard) /\ DOMAIN heard' = 1 .. Len(heard) + 1
    BY <2>1, <1>3
  <2>3. \A i \in DOMAIN heard' : Told(heard'[i])
    <3> TAKE i \in DOMAIN heard'
    <3>1. CASE i = Len(heard) + 1
      BY <2>1, <3>1, <1>2
    <3>2. CASE i \in 1 .. Len(heard)
      BY <2>1, <2>2, <3>2, <1>3
    <3> QED
      BY <2>1, <2>2, <3>1, <3>2
  <2> QED
    BY <1>1, <1>4, <1>5, <2>1, <2>3 DEF e
<1> QED
  BY <1>1, <1>6, <1>7

\* So it leaves the announcements as they are.
LEMMA OthersKeep ==
  ASSUME EncInv, NEW src \in Kinds \ {"sensor"}, NEW n \in Int, NEW v \in Int,
         Told([from |-> src, n |-> n]), D!Ingest(src, n, v), lastValue' = lastValue
  PROVE  /\ \A f \in 0 .. Fields - 1 : \A i \in D!OfField(f)' :
              (\A k \in D!OfField(f)' : k <= i) => lastValue'[f] = sent'[i].v
         /\ D!AnnouncementsDiffer'
<1>0. src \in Kinds /\ src # "sensor"
  OBVIOUS
<1>1. /\ DOMAIN sent = 1 .. Len(sent) /\ DOMAIN sent' = 1 .. Len(sent) + 1
      /\ Len(sent) \in Nat
      /\ \A i \in 1 .. Len(sent) : sent'[i] = sent[i]
      /\ sent'[Len(sent) + 1].from # "sensor"
  <2>1. /\ DOMAIN sent = 1 .. Len(sent) /\ DOMAIN sent' = 1 .. Len(sent) + 1
        /\ Len(sent) \in Nat
        /\ \A i \in 1 .. Len(sent) : sent'[i] = sent[i]
        /\ sent'[Len(sent) + 1] = [from |-> src, n |-> n, v |-> v]
    BY <1>0, IngestKeeps
  <2> QED
    BY <1>0, <2>1
<1>2. \A f : D!OfField(f)' = D!OfField(f)
  BY <1>1 DEF D!OfField
<1>3. \A f : \A i \in D!OfField(f) : sent'[i] = sent[i]
  BY <1>1 DEF D!OfField
<1>4. D!AnnouncementsDiffer'
  <2>1. D!AnnouncementsDiffer
    BY DEF EncInv
  <2> QED
    BY <2>1, <1>2, <1>3 DEF D!AnnouncementsDiffer
<1> QED
  BY <1>2, <1>3, <1>4 DEF EncInv

\* A sensor's spike differs from the last one of its field (encode_sensor).
LEMMA AnnouncesChange ==
  ASSUME EncInv, NEW s \in Sensors, NEW v \in Readings,
         D!Distance(v, lastValue[s % Fields]) >= MinDelta,
         lastValue' = [lastValue EXCEPT ![s % Fields] = v],
         D!Ingest("sensor", SensorBase + s, v)
  PROVE  /\ sent' \in Seq(Spikes) /\ heard' \in Seq(Events)
         /\ \A i \in DOMAIN heard' : Told(heard'[i])
         /\ \A f \in 0 .. Fields - 1 : \A i \in D!OfField(f)' :
              (\A k \in D!OfField(f)' : k <= i) => lastValue'[f] = sent'[i].v
         /\ D!AnnouncementsDiffer'
<1> DEFINE g == s % Fields
           n == SensorBase + s
           new == Len(sent) + 1
<1>1. /\ s \in Nat /\ v \in Int /\ n \in Int /\ n \in SensorBase .. ProprioBase - 1
      /\ n - SensorBase = s /\ Fields \in Nat \ {0}
  BY EncoderAssumption
<1>2. g \in 0 .. Fields - 1
  BY <1>1
<1>3. Told([from |-> "sensor", n |-> n])
  BY <1>1 DEF Told
<1>4. /\ DOMAIN sent = 1 .. Len(sent) /\ DOMAIN sent' = 1 .. new
      /\ Len(sent) \in Nat /\ sent \in Seq(Spikes) /\ sent' \in Seq(Spikes)
      /\ \A i \in 1 .. Len(sent) : sent'[i] = sent[i]
      /\ sent'[new] = [from |-> "sensor", n |-> n, v |-> v]
      /\ heard' \in Seq(Events)
      /\ \A i \in DOMAIN heard' : Told(heard'[i])
  <2>1. "sensor" \in Kinds
    BY DEF Kinds
  <2>2. D!Ingest("sensor", n, v)
    OBVIOUS
  <2> HIDE DEF n
  <2> QED
    BY <1>1, <1>3, <2>1, <2>2, IngestKeeps DEF EncInv
<1>5. \A f : \A i \in D!OfField(f) : i \in 1 .. Len(sent) /\ sent'[i] = sent[i] /\ i < new
  BY <1>4 DEF D!OfField
<1>6. /\ sent'[new].from = "sensor" /\ sent'[new].v = v
      /\ (sent'[new].n - SensorBase) % Fields = g
  BY <1>1, <1>4
<1> HIDE DEF g, n, new
<1>7. D!OfField(g)' = D!OfField(g) \cup {new}
  BY <1>4, <1>6 DEF D!OfField, new
<1>8. \A f : f # g => D!OfField(f)' = D!OfField(f)
  BY <1>4, <1>6 DEF D!OfField, new
<1>9. new \in Nat /\ lastValue \in [0 .. Fields - 1 -> Int]
      /\ lastValue' = [lastValue EXCEPT ![g] = v]
  BY <1>4 DEF new, g, EncInv
<1>10. ASSUME NEW f \in 0 .. Fields - 1, NEW i \in D!OfField(f)',
              \A k \in D!OfField(f)' : k <= i
       PROVE  lastValue'[f] = sent'[i].v
  <2>1. CASE f # g
    <3>1. D!OfField(f)' = D!OfField(f) /\ lastValue'[f] = lastValue[f]
      BY <1>8, <1>9, <2>1
    <3> QED
      BY <3>1, <1>5, <1>10 DEF EncInv
  <2>2. CASE f = g
    <3>1. new <= i
      BY <1>10, <1>7, <2>2
    <3>2. i = new
      BY <3>1, <1>7, <2>2, <1>5, <1>9
    <3> QED
      BY <3>2, <2>2, <1>6, <1>9, <1>2
  <2> QED
    BY <2>1, <2>2
<1>11. D!AnnouncementsDiffer'
  <2> SUFFICES ASSUME NEW f \in 0 .. Fields - 1,
                      NEW i \in D!OfField(f)', NEW j \in D!OfField(f)', i < j,
                      \A k \in D!OfField(f)' : k <= i \/ j <= k
               PROVE  D!Distance(sent'[i].v, sent'[j].v) >= MinDelta
    BY DEF D!AnnouncementsDiffer, D!Distance
  <2>1. CASE i \in D!OfField(f) /\ j \in D!OfField(f)
    <3>1. \A k \in D!OfField(f) : k <= i \/ j <= k
      BY <1>7, <1>8
    <3>2. D!Distance(sent[i].v, sent[j].v) >= MinDelta
      BY <2>1, <3>1 DEF EncInv, D!AnnouncementsDiffer
    <3> QED
      BY <2>1, <3>2, <1>5
  <2>2. CASE ~(i \in D!OfField(f) /\ j \in D!OfField(f))
    <3>1. f = g /\ (i = new \/ j = new)
      BY <2>2, <1>7, <1>8
    <3>2. j = new /\ i \in D!OfField(g)
      BY <3>1, <1>7, <1>5, <1>9
    <3>3. \A k \in D!OfField(g) : k <= i
      BY <3>1, <3>2, <1>7, <1>5, <1>9
    <3>4. lastValue[g] = sent[i].v
      BY <3>2, <3>3, <1>2 DEF EncInv
    <3>5. D!Distance(v, sent[i].v) >= MinDelta
      BY <3>4 DEF g
    <3>6. sent[i].v \in Int
      <4>1. i \in DOMAIN sent
        BY <3>2, <1>5, <1>4
      <4>2. sent[i] \in Spikes
        BY <4>1, <1>4
      <4> QED
        BY <4>2 DEF Spikes
    <3>7. D!Distance(sent[i].v, v) = D!Distance(v, sent[i].v)
      BY <3>6, <1>1 DEF D!Distance
    <3>8. sent'[i] = sent[i] /\ sent'[j].v = v
      BY <3>2, <1>5, <1>6
    <3> QED
      BY <3>5, <3>7, <3>8
  <2> QED
    BY <2>1, <2>2
<1> QED
  BY <1>4, <1>10, <1>11

\* At first nothing is announced.
LEMMA EncodersBegin == D!EncInit => EncInv
<1> SUFFICES ASSUME D!EncInit PROVE EncInv
  OBVIOUS
<1>1. /\ now = 0 /\ lastChar = 0 /\ idx = 0 /\ rhythm = [i \in 0 .. Ring - 1 |-> 0]
      /\ lastValue = [f \in 0 .. Fields - 1 |-> 0] /\ sent = <<>> /\ heard = <<>>
  BY DEF D!EncInit
<1>2. \A f : D!OfField(f) = {}
  BY <1>1 DEF D!OfField
<1>3. D!AnnouncementsDiffer
  BY <1>2 DEF D!AnnouncementsDiffer
<1>4. D!RhythmHolds
  BY <1>1 DEF D!RhythmHolds
<1> QED
  BY <1>1, <1>2, <1>3, <1>4 DEF EncInv

\* An interval is not above the time of the character that ends it.
LEMMA RhythmKeeps ==
  ASSUME EncInv, lastChar' = now,
         rhythm' = IF idx = 0 THEN [rhythm EXCEPT ![0] = now]
                   ELSE [rhythm EXCEPT ![idx % Ring] = now - rhythm[(idx - 1) % Ring]]
  PROVE  rhythm' \in [0 .. Ring - 1 -> Int] /\ D!RhythmHolds'
<1>1. /\ Ring \in Nat \ {0} /\ now \in Nat /\ lastChar \in Nat /\ lastChar <= now
      /\ idx \in Nat /\ rhythm \in [0 .. Ring - 1 -> Int]
      /\ \A i \in 0 .. Ring - 1 : rhythm[i] \in 0 .. lastChar
  <2>1. Ring \in Nat \ {0}
    BY EncoderAssumption
  <2>2. /\ now \in Nat /\ lastChar \in Nat /\ lastChar <= now
        /\ idx \in Nat /\ rhythm \in [0 .. Ring - 1 -> Int] /\ D!RhythmHolds
    BY DEF EncInv
  <2>3. \A i \in 0 .. Ring - 1 :
          rhythm[i] \in Int /\ rhythm[i] >= 0 /\ rhythm[i] <= lastChar
    BY <2>2 DEF D!RhythmHolds
  <2>4. \A i \in 0 .. Ring - 1 : rhythm[i] \in 0 .. lastChar
    BY <2>2, <2>3
  <2> QED
    BY <2>1, <2>2, <2>4
<1>2. CASE idx = 0
  BY <1>1, <1>2 DEF D!RhythmHolds
<1>3. CASE idx # 0
  <2>1. PICK a : a = idx % Ring
    OBVIOUS
  <2>2. PICK b : b = (idx - 1) % Ring
    OBVIOUS
  <2>3. a \in 0 .. Ring - 1 /\ b \in 0 .. Ring - 1
    BY <1>1, <1>3, <2>1, <2>2
  <2>4. rhythm' = [rhythm EXCEPT ![a] = now - rhythm[b]]
    BY <1>3, <2>1, <2>2
  <2>5. PICK r : r = now - rhythm[b]
    OBVIOUS
  <2>6. r \in 0 .. now
    BY <1>1, <2>3, <2>5
  <2>7. rhythm' = [rhythm EXCEPT ![a] = r]
    BY <2>4, <2>5
  <2>8. \A i \in 0 .. Ring - 1 : rhythm'[i] \in 0 .. now
    BY <1>1, <2>6, <2>7
  <2>9. rhythm' \in [0 .. Ring - 1 -> Int]
    BY <1>1, <2>6, <2>7
  <2> QED
    BY <2>8, <2>9, <1>1 DEF D!RhythmHolds
<1> QED
  BY <1>2, <1>3

\* Every encoder keeps announcements, neurons and rhythm.
LEMMA EncodersKeep == ASSUME EncInv, D!EncNext PROVE EncInv'
<1>0. 100 \in Int /\ -1 \in Int
  OBVIOUS
<1>1. CASE D!Tick
  <2>1. /\ now' = now + 1
        /\ UNCHANGED <<lastChar, rhythm, idx, lastValue, lastRate, sent, heard>>
    BY <1>1 DEF D!Tick
  <2>2. now' \in Nat /\ lastChar' <= now'
    BY <2>1 DEF EncInv
  <2> QED
    BY <2>1, <2>2 DEF EncInv, D!OfField, D!AnnouncementsDiffer, D!RhythmHolds
<1>2. CASE D!EncodeChar
  <2>1. PICK c \in Chars : D!Ingest("text", c % Mask, 100)
    BY <1>2 DEF D!EncodeChar
  <2>2. /\ lastChar' = now /\ idx' = (idx + 1) % RhythmWrap /\ now' = now
        /\ lastValue' = lastValue
        /\ rhythm' = IF idx = 0 THEN [rhythm EXCEPT ![0] = now]
                   ELSE [rhythm EXCEPT ![idx % Ring] = now - rhythm[(idx - 1) % Ring]]
    BY <1>2 DEF D!EncodeChar
  <2>3. c % Mask \in 0 .. Mask - 1 /\ idx' \in Nat
    <3>1. /\ Mask \in Nat \ {0} /\ RhythmWrap \in Nat \ {0} /\ c \in Nat
          /\ idx \in Nat
      BY EncoderAssumption DEF EncInv
    <3>2. c % Mask \in 0 .. Mask - 1
      BY <3>1
    <3>3. (idx + 1) % RhythmWrap \in Nat
      BY <3>1
    <3> QED
      BY <3>2, <3>3, <2>2
  <2>4. PICK n \in Int : n = c % Mask /\ n \in 0 .. Mask - 1
    BY <2>3
  <2>5. Told([from |-> "text", n |-> n]) /\ D!Ingest("text", n, 100)
    BY <2>1, <2>4 DEF Told
  <2>6. "text" \in Kinds \ {"sensor"} /\ "text" \in Kinds
    BY DEF Kinds
  <2>7. sent' \in Seq(Spikes) /\ heard' \in Seq(Events)
        /\ \A i \in DOMAIN heard' : Told(heard'[i])
    BY <2>5, <2>6, <1>0, IngestKeeps
  <2>8. /\ \A f \in 0 .. Fields - 1 : \A i \in D!OfField(f)' :
              (\A k \in D!OfField(f)' : k <= i) => lastValue'[f] = sent'[i].v
        /\ D!AnnouncementsDiffer'
    BY <2>2, <2>5, <2>6, <1>0, OthersKeep
  <2>9. rhythm' \in [0 .. Ring - 1 -> Int] /\ D!RhythmHolds'
    BY <2>2, RhythmKeeps
  <2> QED
    BY <2>2, <2>3, <2>7, <2>8, <2>9 DEF EncInv
<1>3. CASE D!EncodeSensor
  <2>1. PICK s \in Sensors, v \in Readings :
         /\ D!Distance(v, lastValue[s % Fields]) >= MinDelta
         /\ IF D!Distance(v, lastValue[s % Fields]) >= MinDelta /\ v > Threshold
            THEN /\ lastValue' = [lastValue EXCEPT ![s % Fields] = v]
                 /\ D!Ingest("sensor", SensorBase + s, v)
            ELSE lastValue' = lastValue /\ UNCHANGED <<sent, heard>>
    BY <1>3 DEF D!EncodeSensor, D!Remembered
  <2>2. UNCHANGED <<now, lastChar, rhythm, idx>> /\ v \in Int
    BY <1>3, EncoderAssumption DEF D!EncodeSensor
  <2>3. CASE v > Threshold
    <3>1. /\ sent' \in Seq(Spikes) /\ heard' \in Seq(Events)
          /\ \A i \in DOMAIN heard' : Told(heard'[i])
          /\ \A f \in 0 .. Fields - 1 : \A i \in D!OfField(f)' :
              (\A k \in D!OfField(f)' : k <= i) => lastValue'[f] = sent'[i].v
          /\ D!AnnouncementsDiffer'
      BY <2>1, <2>3, AnnouncesChange
    <3>2. s % Fields \in 0 .. Fields - 1
      BY EncoderAssumption
    <3>3. lastValue' \in [0 .. Fields - 1 -> Int]
      BY <2>1, <2>2, <2>3, <3>2 DEF EncInv
    <3> QED
      BY <2>2, <3>1, <3>3 DEF EncInv, D!RhythmHolds
  <2>4. CASE ~(v > Threshold)
    BY <2>1, <2>2, <2>4 DEF EncInv, D!OfField, D!AnnouncementsDiffer, D!RhythmHolds
  <2> QED
    BY <2>3, <2>4
<1>4. CASE D!EncodeAnalog \/ D!EncodeSelf
  <2>1. PICK src \in Kinds \ {"sensor"}, n \in Int, v \in Int :
          Told([from |-> src, n |-> n]) /\ D!Ingest(src, n, v)
    <3>1. CASE D!EncodeAnalog
      <4>1. PICK v \in Readings : D!Ingest("rate", -1, v)
        BY <3>1 DEF D!EncodeAnalog
      <4>2. "rate" \in Kinds \ {"sensor"} /\ v \in Int /\ Told([from |-> "rate", n |-> -1])
        BY EncoderAssumption DEF Kinds, Told
      <4> QED
        BY <4>1, <4>2, <1>0
    <3>2. CASE D!EncodeSelf
      <4>1. CASE D!Ingest("internal", InternalBase, 100)
        <5>1. /\ "internal" \in Kinds \ {"sensor"} /\ InternalBase \in Int
              /\ Told([from |-> "internal", n |-> InternalBase])
          BY EncoderAssumption DEF Kinds, Told
        <5> QED
          BY <4>1, <5>1, <1>0
      <4>2. CASE \E c \in Commands : D!Ingest("proprio", ProprioBase + c, 100)
        <5>1. PICK c \in Commands : D!Ingest("proprio", ProprioBase + c, 100)
          BY <4>2
        <5>2. /\ "proprio" \in Kinds \ {"sensor"} /\ ProprioBase + c \in Int
              /\ ProprioBase + c >= ProprioBase
          BY EncoderAssumption DEF Kinds
        <5>3. Told([from |-> "proprio", n |-> ProprioBase + c])
          BY <5>2 DEF Told
        <5> QED
          BY <5>1, <5>2, <5>3, <1>0
      <4> QED
        BY <3>2, <4>1, <4>2 DEF D!EncodeSelf
    <3> QED
      BY <1>4, <3>1, <3>2
  <2>2. UNCHANGED <<now, lastChar, rhythm, idx, lastValue>>
    BY <1>4 DEF D!EncodeAnalog, D!EncodeSelf
  <2>3. sent' \in Seq(Spikes) /\ heard' \in Seq(Events)
        /\ \A i \in DOMAIN heard' : Told(heard'[i])
    BY <2>1, IngestKeeps
  <2>4. /\ \A f \in 0 .. Fields - 1 : \A i \in D!OfField(f)' :
              (\A k \in D!OfField(f)' : k <= i) => lastValue'[f] = sent'[i].v
        /\ D!AnnouncementsDiffer'
    BY <2>1, <2>2, OthersKeep
  <2> QED
    BY <2>2, <2>3, <2>4 DEF EncInv, D!RhythmHolds
<1> QED
  BY <1>1, <1>2, <1>3, <1>4 DEF D!EncNext

\* The ranges of neurons tell the sources apart.
LEMMA EncodersSafe == EncInv => D!EncodersHold
<1> SUFFICES ASSUME EncInv PROVE D!NeuronsTellSources
  BY DEF EncInv, D!EncodersHold
<1> SUFFICES ASSUME NEW i \in DOMAIN heard, NEW j \in DOMAIN heard,
                    heard[i].n = heard[j].n, heard[i].from # heard[j].from
             PROVE  /\ heard[i].n = InternalBase
                    /\ {heard[i].from, heard[j].from} = {"proprio", "internal"}
  BY DEF D!NeuronsTellSources
<1>1. Told(heard[i]) /\ Told(heard[j]) /\ heard[i] \in Events /\ heard[j] \in Events
  BY DEF EncInv
<1>2. /\ Mask \in Nat /\ SensorBase \in Nat /\ ProprioBase \in Nat
      /\ InternalBase \in Nat /\ Mask <= SensorBase
      /\ SensorBase <= ProprioBase /\ ProprioBase <= InternalBase
  BY EncoderAssumption
<1>4. heard[i].n \in Int
  BY <1>1 DEF Events
<1>5. PICK a : a = heard[i].from
  OBVIOUS
<1>6. PICK b : b = heard[j].from
  OBVIOUS
<1>7. PICK n \in Int : n = heard[i].n /\ n = heard[j].n
  BY <1>4
<1>8. /\ \/ a = "text" /\ n < Mask /\ 0 <= n
         \/ a = "sensor" /\ SensorBase <= n /\ n < ProprioBase
         \/ a = "proprio" /\ n >= ProprioBase
         \/ a = "internal" /\ n = InternalBase
         \/ a = "rate" /\ n = -1
      /\ \/ b = "text" /\ n < Mask /\ 0 <= n
         \/ b = "sensor" /\ SensorBase <= n /\ n < ProprioBase
         \/ b = "proprio" /\ n >= ProprioBase
         \/ b = "internal" /\ n = InternalBase
         \/ b = "rate" /\ n = -1
  BY <1>1, <1>2, <1>5, <1>6, <1>7 DEF Told
<1>9. a # b
  BY <1>5, <1>6
<1>3. /\ heard[i].n = InternalBase
      /\ \/ heard[i].from = "proprio" /\ heard[j].from = "internal"
         \/ heard[i].from = "internal" /\ heard[j].from = "proprio"
  BY <1>2, <1>5, <1>6, <1>7, <1>8, <1>9
<1> QED
  BY <1>3
-----------------------------------------------------------------------------
(* The body model (Proprioception)                                         *)

\* What the body model keeps of a motor.
Learnt == [motor : Motors, n : Nat, err : Int]

\* While nothing is left of the cooldown no correction has been counted.
BodyInv ==
  /\ predicted \in [Motors -> Int] /\ model \in Seq(Learnt)
  /\ P!OneSlotPerMotor /\ P!OneCorrection
  /\ pause \in Nat /\ corrections \in Nat /\ (pause = 0 => corrections = 0)

\* The slots of a body model.
LEMMA ModelDomain ==
  ASSUME NEW s \in Seq(Learnt)
  PROVE  /\ Len(s) \in Nat /\ DOMAIN s = 1 .. Len(s)
         /\ \A i \in DOMAIN s : /\ s[i] \in Learnt /\ s[i].motor \in Motors
                                /\ s[i].n \in Nat /\ s[i].err \in Int
<1>1. Len(s) \in Nat /\ DOMAIN s = 1 .. Len(s)
  OBVIOUS
<1>2. \A i \in DOMAIN s : s[i] \in Learnt
  OBVIOUS
<1> QED
  BY <1>1, <1>2 DEF Learnt

\* A motor is found in its own slot (record_actual_feedback).
LEMMA FoundSlot ==
  ASSUME BodyInv, NEW m \in Motors
  PROVE  P!Known(m) # {} =>
           P!SlotFor(m) \in DOMAIN model /\ model[P!SlotFor(m)].motor = m
<1> SUFFICES ASSUME P!Known(m) # {}
             PROVE  P!SlotFor(m) \in DOMAIN model /\ model[P!SlotFor(m)].motor = m
  OBVIOUS
<1>1. PICK k \in P!Known(m) : TRUE
  OBVIOUS
<1>2. \A j \in P!Known(m) : j = k /\ k <= j
  <2> TAKE j \in P!Known(m)
  <2>1. j = k
    BY DEF BodyInv, P!Known, P!OneSlotPerMotor
  <2>2. k \in Int
    BY ModelDomain DEF BodyInv, P!Known
  <2> QED
    BY <2>1, <2>2
<1>3. P!SlotFor(m) \in P!Known(m)
  BY <1>1, <1>2 DEF P!SlotFor
<1> QED
  BY <1>3 DEF P!Known

\* A sample keeps motors apart.
LEMMA SampledKeeps ==
  ASSUME BodyInv, NEW m \in Motors, NEW err \in Int, model' = P!Sampled(m, err)
  PROVE  model' \in Seq(Learnt) /\ P!OneSlotPerMotor'
<1> DEFINE i == P!SlotFor(m)
           old == IF i \in DOMAIN model /\ model[i].motor = m THEN model[i]
                  ELSE [motor |-> m, n |-> 0, err |-> 0]
           new == [motor |-> m, n |-> old.n + 1, err |-> err]
<1>1. model' = IF i \in DOMAIN model THEN [model EXCEPT ![i] = new] ELSE Append(model, new)
  BY DEF P!Sampled
<1>2. model \in Seq(Learnt) /\ P!OneSlotPerMotor
  BY DEF BodyInv
<1>3. /\ Len(model) \in Nat /\ DOMAIN model = 1 .. Len(model)
      /\ \A k \in DOMAIN model : model[k] \in Learnt /\ model[k].n \in Nat
  BY <1>2, ModelDomain
<1>4. old.n \in Nat
  BY <1>3
<1>5. new \in Learnt /\ new.motor = m
  BY <1>4 DEF Learnt
<1>6. CASE i \in DOMAIN model
  <2>1. P!Known(m) \subseteq {i}
    <3>1. CASE P!Known(m) = {}
      BY <3>1
    <3>2. CASE P!Known(m) # {}
      <4>1. i \in DOMAIN model /\ model[i].motor = m
        BY <3>2, FoundSlot
      <4> QED
        BY <4>1, <1>2 DEF P!Known, P!OneSlotPerMotor
    <3> QED
      BY <3>1, <3>2
  <2> HIDE DEF i, new
  <2>2. model' = [model EXCEPT ![i] = new]
    BY <1>1, <1>6
  <2>3. model' \in Seq(Learnt) /\ DOMAIN model' = DOMAIN model
    BY <2>2, <1>5, <1>2, <1>6
  <2>4. \A k \in DOMAIN model : model'[k] = IF k = i THEN new ELSE model[k]
    BY <2>2, <1>3
  <2>5. \A k \in DOMAIN model \ {i} : model[k].motor # m
    BY <2>1 DEF P!Known
  <2>6. P!OneSlotPerMotor'
    BY <2>3, <2>4, <2>5, <1>5, <1>2 DEF P!OneSlotPerMotor
  <2> QED
    BY <2>3, <2>6
<1>7. CASE i \notin DOMAIN model
  <2>1. P!Known(m) = {}
    BY <1>7, FoundSlot
  <2> HIDE DEF i, new
  <2>2. model' = Append(model, new)
    BY <1>1, <1>7
  <2>3. /\ model' \in Seq(Learnt) /\ Len(model') = Len(model) + 1
        /\ \A k \in 1 .. Len(model) : model'[k] = model[k]
        /\ model'[Len(model) + 1] = new
    BY <2>2, <1>5, <1>2, AppendProperties
  <2>4. DOMAIN model' = 1 .. Len(model) + 1
    BY <2>3
  <2>5. \A k \in DOMAIN model : model[k].motor # m
    BY <2>1 DEF P!Known
  <2>6. P!OneSlotPerMotor'
    BY <2>3, <2>4, <2>5, <1>5, <1>2, <1>3 DEF P!OneSlotPerMotor
  <2> QED
    BY <2>3, <2>6
<1> QED
  BY <1>6, <1>7

\* At first nothing is learnt or corrected.
LEMMA BodyBegins == P!BodyInit => BodyInv
<1> SUFFICES ASSUME P!BodyInit PROVE BodyInv
  OBVIOUS
<1>1. /\ predicted = [m \in Motors |-> 0] /\ model = <<>>
      /\ correcting = FALSE /\ pause = 0 /\ corrections = 0
  BY DEF P!BodyInit
<1> QED
  BY <1>1 DEF BodyInv, P!OneSlotPerMotor, P!OneCorrection

\* Predictions, feelings, updates and resets keep the body model.
LEMMA BodyKeeps == ASSUME BodyInv, P!BodyNext PROVE BodyInv'
<1>0. /\ Feelings \subseteq Int /\ Cooldown \in Nat \ {0} /\ FewSamples \in Nat
  BY BodyAssumption
<1>1. CASE P!Predict
  <2>1. PICK m \in Motors, f \in Feelings : predicted' = [predicted EXCEPT ![m] = f]
    BY <1>1 DEF P!Predict
  <2>2. UNCHANGED <<model, correcting, pause, corrections>>
    BY <1>1 DEF P!Predict
  <2>3. predicted' \in [Motors -> Int]
    BY <2>1, <1>0 DEF BodyInv
  <2> QED
    BY <2>2, <2>3 DEF BodyInv, P!OneSlotPerMotor, P!OneCorrection
<1>2. CASE P!Feel
  <2>1. PICK m \in Motors, f \in Feelings :
          LET err == P!Dist(predicted[m], f) IN
          /\ model' = P!Sampled(m, err)
          /\ IF err > Surprise /\ pause = 0
             THEN correcting' = TRUE /\ pause' = Cooldown /\ corrections' = corrections + 1
             ELSE UNCHANGED <<correcting, pause, corrections>>
    BY <1>2 DEF P!Feel
  <2>2. P!Dist(predicted[m], f) \in Int
    BY <1>0 DEF P!Dist, BodyInv
  <2>3. model' \in Seq(Learnt) /\ P!OneSlotPerMotor'
    BY <2>1, <2>2, SampledKeeps
  <2>4. predicted' = predicted
    BY <1>2 DEF P!Feel
  <2>5. /\ pause' \in Nat /\ corrections' \in Nat /\ (pause' = 0 => corrections' = 0)
        /\ P!OneCorrection'
    <3>1. CASE pause = 0 /\ correcting' = TRUE /\ pause' = Cooldown
               /\ corrections' = corrections + 1
      BY <3>1, <1>0 DEF BodyInv, P!OneCorrection
    <3>2. CASE UNCHANGED <<correcting, pause, corrections>>
      BY <3>2 DEF BodyInv, P!OneCorrection
    <3> QED
      BY <2>1, <3>1, <3>2
  <2> QED
    BY <2>3, <2>4, <2>5 DEF BodyInv
<1>3. CASE P!BodyUpdate
  <2> DEFINE left == IF pause > 0 THEN pause - 1 ELSE 0
  <2>1. /\ pause' = left /\ (correcting' <=> correcting /\ left > 0)
        /\ corrections' = IF left = 0 THEN 0 ELSE corrections
        /\ model' = [i \in DOMAIN model |-> P!Forgotten(model[i])]
        /\ UNCHANGED predicted
    BY <1>3 DEF P!BodyUpdate
  <2>2. left \in Nat
    BY DEF BodyInv
  <2>3. \A e \in Learnt : P!Forgotten(e) \in Learnt /\ P!Forgotten(e).motor = e.motor
    BY <1>0 DEF P!Forgotten, Learnt
  <2>4. Len(model) \in Nat /\ DOMAIN model = 1 .. Len(model)
        /\ \A i \in DOMAIN model : model[i] \in Learnt
    BY ModelDomain DEF BodyInv
  <2>5. /\ model' \in [1 .. Len(model) -> Learnt] /\ DOMAIN model' = DOMAIN model
        /\ \A i \in DOMAIN model : model'[i].motor = model[i].motor
    BY <2>1, <2>3, <2>4
  <2>6. model' \in Seq(Learnt)
    BY <2>4, <2>5
  <2>7. P!OneSlotPerMotor'
    BY <2>5 DEF BodyInv, P!OneSlotPerMotor
  <2>8. /\ pause' \in Nat /\ corrections' \in Nat /\ (pause' = 0 => corrections' = 0)
        /\ P!OneCorrection'
    BY <2>1, <2>2 DEF BodyInv, P!OneCorrection
  <2> QED
    BY <2>1, <2>6, <2>7, <2>8 DEF BodyInv
<1>4. CASE P!BodyReset
  <2>2. /\ predicted' = [m \in Motors |-> 0] /\ model' = <<>>
        /\ correcting' = FALSE /\ pause' = 0 /\ corrections' = 0
    BY <1>4 DEF P!BodyReset
  <2> QED
    BY <2>2 DEF BodyInv, P!OneSlotPerMotor, P!OneCorrection
<1> QED
  BY <1>1, <1>2, <1>3, <1>4 DEF P!BodyNext

\* For every plan of readings, range of neurons and body: until a wait gives
\* up each reading is that of its own source, encoders announce
\* changes under neurons that tell their source, and the body model keeps one
\* slot a motor and one correction at a time (SensingHolds of run machine).
THEOREM SensingIsSound == MachineSpec => []SensingHolds
<1>1. MachineInit => DeviceInv /\ EncInv /\ BodyInv
  BY DevicesBegin, EncodersBegin, BodyBegins DEF MachineInit
<1>2. DeviceInv /\ [MachineNext]_machineVars => DeviceInv'
  <2> SUFFICES ASSUME DeviceInv, [MachineNext]_machineVars PROVE DeviceInv'
    OBVIOUS
  <2>1. CASE D!DeviceNext
    BY <2>1, DevicesKeep
  <2>2. CASE UNCHANGED devices
    BY <2>2 DEF devices, DeviceInv, Calm
  <2> QED
    BY <2>1, <2>2 DEF MachineNext, Still, machineVars
<1>3. EncInv /\ [MachineNext]_machineVars => EncInv'
  <2> SUFFICES ASSUME EncInv, [MachineNext]_machineVars PROVE EncInv'
    OBVIOUS
  <2>1. CASE D!EncNext
    BY <2>1, EncodersKeep
  <2>2. CASE UNCHANGED encoders
    BY <2>2 DEF encoders, EncInv, D!OfField, D!AnnouncementsDiffer, D!RhythmHolds
  <2> QED
    BY <2>1, <2>2 DEF MachineNext, Still, machineVars
<1>4. BodyInv /\ [MachineNext]_machineVars => BodyInv'
  <2> SUFFICES ASSUME BodyInv, [MachineNext]_machineVars PROVE BodyInv'
    OBVIOUS
  <2>1. CASE P!BodyNext
    BY <2>1, BodyKeeps
  <2>2. CASE UNCHANGED body
    BY <2>2 DEF body, BodyInv, P!OneSlotPerMotor, P!OneCorrection
  <2> QED
    BY <2>1, <2>2 DEF MachineNext, Still, machineVars
<1>5. DeviceInv /\ EncInv /\ BodyInv => SensingHolds
  BY DeviceSafe, EncodersSafe DEF SensingHolds, BodyInv, P!BodyHolds
<1> QED
  BY <1>1, <1>2, <1>3, <1>4, <1>5, PTL DEF MachineSpec
-----------------------------------------------------------------------------
(* Monitors (Resilience)                                                   *)

\* Words, bits, blocks, and a block with one bit turned.
Wd == 0 .. Words - 1
Bt == 0 .. Bits - 1
Block == [Wd -> SUBSET Bt]
Turned(d, w, b) == [d EXCEPT ![w] = R!Xor(d[w], {b})]

\* A slot of a synapse, as far as moving it matters.
Link == [pre : BOOLEAN, post : BOOLEAN, heavy : BOOLEAN, plastic : BOOLEAN]

\* After one upset a block is either wrong by that bit under the parity it was
\* written with, or was corrected and verifies.
EccInv ==
  /\ data \in Block /\ given \in Block /\ parity \in SUBSET Bt /\ corrected \in Nat
  /\ flips \in Seq(Wd \X Bt)
  /\ Len(flips) = 0 => data = given /\ parity = R!Parity(given)
  /\ Len(flips) = 1 =>
       \/ parity = R!Parity(data)
       \/ /\ data = Turned(given, flips[1][1], flips[1][2])
          /\ parity = R!Parity(given)

\* The watchdog counts the run of readings too high up to its reset.
WatchInv ==
  run \in Nat /\ alarm \in Nat /\ alarm = run % ResetAt /\ R!WatchdogEscalates

\* One slot has the weight, the one that is linked.
MoveInv ==
  /\ synapse \in [1 .. Slots -> Link] /\ moves \in Seq(1 .. Slots)
  /\ \E s \in 1 .. Slots : \A t \in 1 .. Slots : synapse[t].heavy <=> t = s
  /\ \A s \in 1 .. Slots : /\ synapse[s].heavy <=> synapse[s].pre
                           /\ synapse[s].pre => synapse[s].plastic /\ synapse[s].post
  /\ \A i \in DOMAIN moves : synapse[moves[i]].plastic /\ synapse[moves[i]].post

\* What is assumed of the sizes, one by one.
LEMMA Sizes ==
  /\ Words \in Nat \ {0} /\ Bits \in Nat \ {0} /\ Slots \in Nat \ {0}
  /\ ResetAt \in Nat \ {0} /\ RollbackAfter \in Nat /\ RollbackAfter < ResetAt
  /\ R!W = Wd /\ 0 \in Wd /\ 0 \in Bt
<1>1. /\ Words \in Nat \ {0} /\ Bits \in Nat \ {0} /\ Slots \in Nat \ {0}
      /\ ResetAt \in Nat \ {0} /\ RollbackAfter \in Nat /\ RollbackAfter < ResetAt
  BY ResilienceAssumption
<1>2. 0 \in 0 .. Words - 1 /\ 0 \in 0 .. Bits - 1
  BY <1>1
<1> QED
  BY <1>1, <1>2 DEF R!W, Wd, Bt

\* The monitors count as everybody does.
LEMMA Counted == \A S : R!Cardinality(S) = Cardinality(S)
BY DEF Cardinality, R!Cardinality

\* Turning a bit of a word turns that bit of the parity.
LEMMA TurnedParity ==
  ASSUME NEW d \in Block, NEW w \in Wd, NEW b \in Bt
  PROVE  /\ Turned(d, w, b) \in Block /\ R!Parity(d) \in SUBSET Bt
         /\ R!Parity(Turned(d, w, b)) = R!Xor(R!Parity(d), {b})
<1> DEFINE e == Turned(d, w, b)
           S(f, c) == {u \in Wd : c \in f[u]}
<1>1. \A f : R!Parity(f) = {c \in Bt : Cardinality(S(f, c)) % 2 = 1}
  BY Counted, Sizes DEF R!Parity, Bt
<1>2. /\ e \in Block /\ \A u \in Wd : e[u] = IF u = w THEN R!Xor(d[w], {b}) ELSE d[u]
  BY DEF Turned, Block, R!Xor
<1>3. \A c \in Bt \ {b} : S(e, c) = S(d, c)
  BY <1>2 DEF R!Xor
<1>4. S(e, b) = IF w \in S(d, b) THEN S(d, b) \ {w} ELSE S(d, b) \cup {w}
  BY <1>2 DEF R!Xor
<1>5. IsFiniteSet(S(d, b)) /\ Cardinality(S(d, b)) \in Nat
  <2>1. IsFiniteSet(Wd)
    BY Sizes, FS_Interval DEF Wd
  <2>2. S(d, b) \in SUBSET Wd
    OBVIOUS
  <2> HIDE DEF S
  <2>3. IsFiniteSet(S(d, b))
    BY <2>1, <2>2, FS_Subset
  <2> QED
    BY <2>3, FS_CardinalityType
<1> HIDE DEF e, S
<1>6. Cardinality(S(e, b)) % 2 = 1 <=> ~(Cardinality(S(d, b)) % 2 = 1)
  <2>1. \A n \in Nat : (n + 1) % 2 = 1 <=> ~(n % 2 = 1)
    OBVIOUS
  <2>2. CASE w \in S(d, b)
    <3>1. Cardinality(S(d, b) \ {w}) = Cardinality(S(d, b)) - 1
      BY <1>5, <2>2, FS_RemoveElement
    <3>2. IsFiniteSet(S(d, b) \ {w})
      BY <1>5, FS_RemoveElement
    <3>3. Cardinality(S(d, b) \ {w}) \in Nat
      BY <3>2, FS_CardinalityType
    <3>4. Cardinality(S(d, b)) = Cardinality(S(e, b)) + 1 /\ Cardinality(S(e, b)) \in Nat
      BY <3>1, <3>3, <1>4, <1>5, <2>2
    <3> QED
      BY <3>4, <2>1
  <2>3. CASE w \notin S(d, b)
    <3>1. Cardinality(S(d, b) \cup {w}) = Cardinality(S(d, b)) + 1
      BY <1>5, <2>3, FS_AddElement
    <3>2. Cardinality(S(e, b)) = Cardinality(S(d, b)) + 1
      BY <3>1, <1>4, <2>3
    <3> QED
      BY <3>2, <2>1, <1>5
  <2> QED
    BY <2>2, <2>3
<1>7. \A c \in Bt : c \in R!Parity(e) <=> (IF c = b THEN ~(c \in R!Parity(d))
                                                   ELSE c \in R!Parity(d))
  BY <1>1, <1>3, <1>6
<1>8. R!Parity(e) = R!Xor(R!Parity(d), {b})
  BY <1>7, <1>1 DEF R!Xor
<1> QED
  BY <1>1, <1>2, <1>8 DEF e

\* At first the block verifies and the first slot is the linked one.
LEMMA EccBegins == R!ResInit => EccInv /\ WatchInv /\ MoveInv
<1> SUFFICES ASSUME R!ResInit PROVE EccInv /\ WatchInv /\ MoveInv
  OBVIOUS
<1>1. /\ data = [w \in Wd |-> {}] /\ parity = {} /\ corrected = 0
      /\ given = [w \in Wd |-> {}] /\ flips = <<>> /\ moves = <<>>
      /\ synapse = [s \in 1 .. Slots |-> IF s = 1 THEN R!Linked ELSE R!FreeSlot]
      /\ alarm = 0 /\ answer = "None" /\ run = 0
  BY Sizes DEF R!ResInit, R!Blank
<1>2. R!Parity(given) = {}
  <2>1. \A b : {w \in Wd : b \in given[w]} = {}
    BY <1>1
  <2>2. Cardinality({}) = 0
    BY FS_EmptySet
  <2>3. ~(0 % 2 = 1)
    OBVIOUS
  <2>4. \A b : ~(R!Cardinality({w \in R!W : b \in given[w]}) % 2 = 1)
    BY <2>1, <2>2, <2>3, Counted, Sizes
  <2> QED
    BY <2>4 DEF R!Parity
<1>3. EccInv
  <2>1. data \in Block /\ parity \in SUBSET Bt /\ flips \in Seq(Wd \X Bt) /\ Len(flips) = 0
    BY <1>1 DEF Block
  <2> QED
    BY <1>1, <1>2, <2>1 DEF EccInv
<1>4. WatchInv
  <2>1. 0 % ResetAt = 0 /\ ~(0 > RollbackAfter)
    BY Sizes
  <2> QED
    BY <1>1, <2>1 DEF WatchInv, R!WatchdogEscalates
<1>5. MoveInv
  <2>1. 1 \in 1 .. Slots
    BY Sizes
  <2>2. R!Linked \in Link /\ R!FreeSlot \in Link
    BY DEF R!Linked, R!FreeSlot, Link
  <2>3. \A s \in 1 .. Slots : /\ synapse[s].heavy <=> s = 1
                              /\ synapse[s].pre <=> s = 1
                              /\ s = 1 => synapse[s].plastic /\ synapse[s].post
    BY <1>1 DEF R!Linked, R!FreeSlot
  <2>4. synapse \in [1 .. Slots -> Link] /\ moves \in Seq(1 .. Slots) /\ DOMAIN moves = {}
    BY <1>1, <2>2
  <2> QED
    BY <2>1, <2>3, <2>4 DEF MoveInv
<1> QED
  BY <1>3, <1>4, <1>5

\* What verifying does to a block after one upset (verify_and_correct).
LEMMA OneUpset ==
  ASSUME EccInv, Len(flips) = 1, R!Verify, corrected' > corrected
  PROVE  /\ data' = given <=> flips[1] = <<0, 0>>
         /\ parity' = R!Parity(data')
<1> DEFINE w == flips[1][1]
           b == flips[1][2]
<1>1. flips[1] \in Wd \X Bt
  BY DEF EccInv
<1>2. w \in Wd /\ b \in Bt /\ flips[1] = <<w, b>>
  BY <1>1
<1>3. /\ R!Syndrome # {}
      /\ R!Min(R!Syndrome) < Words
      /\ data' = R!Corrected(R!Min(R!Syndrome)) /\ parity' = R!Parity(data')
  BY DEF R!Verify, EccInv
<1>4. parity # R!Parity(data)
  BY <1>3 DEF R!Syndrome, R!Xor
<1> HIDE DEF w, b
<1>5. data = Turned(given, w, b) /\ parity = R!Parity(given)
  BY <1>4 DEF EccInv, w, b
<1>6. /\ given \in Block /\ R!Parity(given) \in SUBSET Bt
      /\ R!Parity(data) = R!Xor(R!Parity(given), {b})
  BY <1>2, <1>5, TurnedParity DEF EccInv
<1>7. R!Syndrome = {b}
  BY <1>5, <1>6 DEF R!Syndrome, R!Xor
<1>8. R!Min({b}) = b
  <2>1. b \in Int
    BY <1>2 DEF Bt
  <2>2. \E k \in {b} : \A l \in {b} : k <= l
    BY <2>1
  <2> QED
    BY <2>2 DEF R!Min
<1>9. b \in Wd /\ data' = [data EXCEPT ![b] = R!Xor(data[b], {0})]
  <2>1. R!Min(R!Syndrome) = b
    BY <1>7, <1>8
  <2>2. b < Words /\ data' = R!Corrected(b)
    BY <1>3, <2>1
  <2>3. b \in Wd
    BY <2>2, <1>2, Sizes DEF Wd, Bt
  <2> QED
    BY <2>2, <2>3 DEF R!Corrected
<1>10. /\ data \in Block
       /\ \A u \in Wd : data[u] = IF u = w THEN R!Xor(given[w], {b}) ELSE given[u]
  BY <1>2, <1>5, <1>6, TurnedParity DEF Turned, Block
<1>11. \A u \in Wd : data'[u] = IF u = b THEN R!Xor(data[b], {0}) ELSE data[u]
  BY <1>9, <1>10 DEF Block
<1>12. \A d : \A c : R!Xor(d, {c}) # d
  BY DEF R!Xor
<1>13. ASSUME data' = given PROVE w = 0 /\ b = 0
  <2>1. w = b
    <3> SUFFICES ASSUME w # b PROVE FALSE
      OBVIOUS
    <3>1. data'[w] = R!Xor(given[w], {b})
      BY <1>2, <1>10, <1>11
    <3> QED
      BY <3>1, <1>12, <1>13
  <2>2. given[b] = R!Xor(R!Xor(given[b], {b}), {0})
    BY <2>1, <1>9, <1>10, <1>11, <1>13
  <2>3. b = 0
    BY <2>2 DEF R!Xor
  <2> QED
    BY <2>1, <2>3
<1>14. ASSUME w = 0, b = 0 PROVE data' = given
  <2>1. \A d : R!Xor(R!Xor(d, {0}), {0}) = d
    BY DEF R!Xor
  <2>2. \A u \in Wd : data'[u] = given[u]
    BY <1>10, <1>11, <1>14, <2>1
  <2>3. data' = [u \in Wd |-> data'[u]]
    BY <1>9, <1>10 DEF Block
  <2>4. given = [u \in Wd |-> given[u]]
    BY <1>6 DEF Block
  <2> QED
    BY <2>2, <2>3, <2>4
<1> QED
  BY <1>2, <1>3, <1>13, <1>14

\* Writes, upsets and corrections keep block and parity related.
LEMMA EccKeeps == ASSUME EccInv, R!ResNext PROVE EccInv' /\ R!OnlyTheFirstBitHeals
<1>1. CASE R!WriteBlock
  <2>1. PICK d \in Contents : data' = d /\ given' = d /\ parity' = R!Parity(d)
    BY <1>1 DEF R!WriteBlock
  <2>2. flips' = <<>> /\ corrected' = corrected
    BY <1>1 DEF R!WriteBlock
  <2>3. d \in Block
    BY ResilienceAssumption DEF Block, Wd, Bt
  <2>4. R!Parity(d) \in SUBSET Bt
    BY <2>3, Sizes, TurnedParity
  <2>5. flips' \in Seq(Wd \X Bt) /\ Len(flips') = 0
    BY <2>2
  <2>6. EccInv'
    BY <2>1, <2>2, <2>3, <2>4, <2>5 DEF EccInv
  <2> QED
    BY <2>2, <2>6 DEF R!OnlyTheFirstBitHeals, EccInv
<1>2. CASE R!Flip
  <2>1. PICK w \in Wd, b \in Bt :
          /\ data' = [data EXCEPT ![w] = R!Xor(data[w], {b})]
          /\ flips' = Append(flips, <<w, b>>)
    BY <1>2, Sizes DEF R!Flip, Bt
  <2>2. UNCHANGED <<parity, corrected, given>>
    BY <1>2 DEF R!Flip
  <2>3. data' = Turned(data, w, b)
    BY <2>1 DEF Turned
  <2>4. data' \in Block
    BY <2>3, TurnedParity DEF EccInv
  <2>5. /\ flips' \in Seq(Wd \X Bt) /\ Len(flips') = Len(flips) + 1 /\ Len(flips) \in Nat
        /\ flips'[Len(flips) + 1] = <<w, b>>
    BY <2>1, AppendProperties DEF EccInv
  <2>6. Len(flips') = 1 => /\ data' = Turned(given', flips'[1][1], flips'[1][2])
                           /\ parity' = R!Parity(given')
    BY <2>2, <2>3, <2>5 DEF EccInv
  <2>7. EccInv'
    BY <2>2, <2>4, <2>5, <2>6 DEF EccInv
  <2> QED
    BY <2>2, <2>7 DEF R!OnlyTheFirstBitHeals, EccInv
<1>3. CASE R!Verify
  <2>1. UNCHANGED <<given, flips>>
    BY <1>3 DEF R!Verify
  <2>2. CASE UNCHANGED <<data, parity, corrected>>
    BY <2>1, <2>2 DEF EccInv, R!OnlyTheFirstBitHeals
  <2>3. CASE ~UNCHANGED <<data, parity, corrected>>
    <3> DEFINE b == R!Min(R!Syndrome)
    <3>1. /\ R!Syndrome # {} /\ b < Words
          /\ data' = R!Corrected(b) /\ parity' = R!Parity(data')
          /\ corrected' = corrected + 1
      BY <1>3, <2>3 DEF R!Verify
    <3>2. R!Syndrome \in SUBSET Bt
      <4>1. R!Parity(data) \in SUBSET Bt
        BY Sizes, TurnedParity DEF EccInv
      <4> QED
        BY <4>1 DEF R!Syndrome, R!Xor, EccInv
    <3>3. b \in Bt
      <4>1. R!Syndrome \in SUBSET Nat
        BY <3>2, Sizes DEF Bt
      <4>2. \E k \in R!Syndrome : \A l \in R!Syndrome : k <= l
        BY <3>1, <4>1, Least
      <4> QED
        BY <4>2, <3>2 DEF R!Min
    <3>4. b \in Wd
      BY <3>1, <3>3, Sizes DEF Bt, Wd
    <3> HIDE DEF b
    <3>5. data' = Turned(data, b, 0)
      BY <3>1 DEF R!Corrected, Turned
    <3>6. data' \in Block /\ R!Parity(data') \in SUBSET Bt
      BY <3>4, <3>5, Sizes, TurnedParity DEF EccInv
    <3>7. Len(flips) # 0
      <4> SUFFICES ASSUME Len(flips) = 0 PROVE FALSE
        OBVIOUS
      <4>1. R!Syndrome = {}
        BY DEF EccInv, R!Syndrome, R!Xor
      <4> QED
        BY <4>1, <3>1
    <3>8. EccInv'
      BY <2>1, <3>1, <3>6, <3>7 DEF EccInv
    <3>9. R!OnlyTheFirstBitHeals
      <4>1. corrected' > corrected
        BY <3>1 DEF EccInv
      <4> QED
        BY <4>1, <1>3, OneUpset DEF R!OnlyTheFirstBitHeals
    <3> QED
      BY <3>8, <3>9
  <2> QED
    BY <2>2, <2>3
<1>4. CASE R!CheckParity \/ R!MarkBadSector \/ R!Migrate \/ R!CheckHealth
  <2>1. UNCHANGED <<data, parity, corrected, given, flips>>
    BY <1>4 DEF R!CheckParity, R!MarkBadSector, R!Migrate, R!CheckHealth
  <2> QED
    BY <2>1 DEF EccInv, R!OnlyTheFirstBitHeals
<1> QED
  BY <1>1, <1>2, <1>3, <1>4 DEF R!ResNext

\* The count of the watchdog is the length of the run, modulo ResetAt.
LEMMA WatchKeeps == ASSUME WatchInv, R!ResNext PROVE WatchInv'
<1>1. CASE R!CheckHealth
  <2>1. PICK tooHigh \in BOOLEAN :
          LET a == R!Answer(IF tooHigh THEN alarm + 1 ELSE 0) IN
          /\ answer' = a.do /\ alarm' = a.high
          /\ run' = (IF tooHigh THEN run + 1 ELSE 0)
    BY <1>1 DEF R!CheckHealth
  <2>2. /\ run \in Nat /\ alarm = run % ResetAt /\ alarm \in 0 .. ResetAt - 1
        /\ ResetAt \in Nat \ {0} /\ RollbackAfter \in Nat /\ RollbackAfter < ResetAt
    BY Sizes DEF WatchInv
  <2>3. CASE tooHigh
    <3>1. /\ answer' = R!Answer(alarm + 1).do /\ alarm' = R!Answer(alarm + 1).high
          /\ run' = run + 1
      BY <2>1, <2>3
    <3>2. (run + 1) % ResetAt = IF alarm + 1 = ResetAt THEN 0 ELSE alarm + 1
      BY <2>2, NextRemainder
    <3>3. CASE alarm + 1 = ResetAt
      <4>1. answer' = "EmergencyReset" /\ alarm' = 0
        BY <2>2, <3>1, <3>3 DEF R!Answer
      <4> QED
        BY <2>2, <3>1, <3>2, <3>3, <4>1 DEF WatchInv, R!WatchdogEscalates
    <3>4. CASE alarm + 1 # ResetAt
      <4>1. /\ answer' = IF alarm + 1 > RollbackAfter THEN "RollbackJ1" ELSE "None"
            /\ alarm' = alarm + 1
        BY <2>2, <3>1, <3>4 DEF R!Answer
      <4> QED
        BY <2>2, <3>1, <3>2, <3>4, <4>1 DEF WatchInv, R!WatchdogEscalates
    <3> QED
      BY <3>3, <3>4
  <2>4. CASE ~tooHigh
    <3>1. /\ answer' = "None" /\ alarm' = 0 /\ run' = 0
      BY <2>1, <2>2, <2>4 DEF R!Answer
    <3>2. 0 % ResetAt = 0
      BY <2>2
    <3> QED
      BY <2>2, <3>1, <3>2 DEF WatchInv, R!WatchdogEscalates
  <2> QED
    BY <2>3, <2>4
<1>2. CASE R!WriteBlock \/ R!Flip \/ R!Verify \/ R!CheckParity \/ R!MarkBadSector
           \/ R!Migrate
  <2>1. UNCHANGED <<answer, alarm, run>>
    BY <1>2 DEF R!CheckParity, R!MarkBadSector, R!Migrate, R!WriteBlock, R!Flip, R!Verify
  <2> QED
    BY <2>1 DEF WatchInv, R!WatchdogEscalates
<1> QED
  BY <1>1, <1>2 DEF R!ResNext

\* A synapse that moves takes its link and weight along (migrate_synapse).
LEMMA MoveKeeps == ASSUME MoveInv, R!ResNext PROVE MoveInv'
<1>1. CASE R!Migrate
  <2>1. PICK o \in 1 .. Slots, n \in 1 .. Slots :
          /\ o # n /\ synapse[o].pre /\ ~synapse[n].pre
          /\ moves' = IF Len(moves) < MaxMoves THEN Append(moves, o) ELSE moves
          /\ synapse' = [synapse EXCEPT ![n] = synapse[o],
                           ![o].pre = FALSE, ![o].heavy = FALSE]
    BY <1>1 DEF R!Migrate
  <2>2. /\ synapse \in [1 .. Slots -> Link] /\ moves \in Seq(1 .. Slots)
        /\ \A s \in 1 .. Slots : /\ synapse[s].heavy <=> synapse[s].pre
                                 /\ synapse[s].pre => synapse[s].plastic /\ synapse[s].post
        /\ \A i \in DOMAIN moves : synapse[moves[i]].plastic /\ synapse[moves[i]].post
    BY DEF MoveInv
  <2>3. \A t \in 1 .. Slots : synapse[t].heavy <=> t = o
    BY <2>1, <2>2 DEF MoveInv
  <2>4. /\ synapse' \in [1 .. Slots -> Link]
        /\ synapse'[n] = synapse[o]
        /\ synapse'[o] = [synapse[o] EXCEPT !.pre = FALSE, !.heavy = FALSE]
        /\ \A t \in 1 .. Slots \ {o, n} : synapse'[t] = synapse[t]
    BY <2>1, <2>2 DEF Link
  <2>5. /\ synapse[o] \in Link /\ synapse[o].plastic /\ synapse[o].post
        /\ synapse[o].heavy /\ synapse[o].pre
    BY <2>1, <2>2
  <2>6. /\ ~synapse'[o].pre /\ ~synapse'[o].heavy /\ synapse'[o].plastic /\ synapse'[o].post
    BY <2>4, <2>5 DEF Link
  <2>7. \A t \in 1 .. Slots : /\ synapse'[t].heavy <=> t = n
                              /\ synapse'[t].heavy <=> synapse'[t].pre
                              /\ synapse'[t].pre => synapse'[t].plastic /\ synapse'[t].post
    <3> TAKE t \in 1 .. Slots
    <3>1. CASE t = o
      BY <2>1, <2>6, <3>1
    <3>2. CASE t = n
      BY <2>4, <2>5, <3>2
    <3>3. CASE t \in 1 .. Slots \ {o, n}
      BY <2>2, <2>3, <2>4, <3>3
    <3> QED
      BY <3>1, <3>2, <3>3
  <2>8. \A t \in 1 .. Slots : synapse[t].plastic /\ synapse[t].post =>
                                synapse'[t].plastic /\ synapse'[t].post
    <3> TAKE t \in 1 .. Slots
    <3>1. CASE t = o
      BY <2>6, <3>1
    <3>2. CASE t = n
      BY <2>4, <2>5, <3>2
    <3>3. CASE t \in 1 .. Slots \ {o, n}
      BY <2>4, <3>3
    <3> QED
      BY <3>1, <3>2, <3>3
  <2>9. /\ moves' \in Seq(1 .. Slots)
        /\ \A i \in DOMAIN moves' : synapse'[moves'[i]].plastic /\ synapse'[moves'[i]].post
    <3>0. moves \in Seq(1 .. Slots)
      BY <2>2
    <3>1. \A i \in DOMAIN moves : moves[i] \in 1 .. Slots
      <4>1. DOMAIN moves = 1 .. Len(moves)
        BY <3>0
      <4> QED
        BY <3>0, <4>1, ElementOfSeq
    <3>2. CASE moves' = moves
      BY <2>2, <2>8, <3>1, <3>2
    <3>3. CASE moves' = Append(moves, o)
      <4>1. /\ moves' \in Seq(1 .. Slots) /\ Len(moves') = Len(moves) + 1
            /\ Len(moves) \in Nat
            /\ \A i \in 1 .. Len(moves) : moves'[i] = moves[i]
            /\ moves'[Len(moves) + 1] = o
        BY <2>2, <3>3, AppendProperties
      <4>2. DOMAIN moves = 1 .. Len(moves) /\ DOMAIN moves' = 1 .. Len(moves) + 1
        BY <2>2, <4>1
      <4>3. \A i \in DOMAIN moves' : i \in DOMAIN moves \/ i = Len(moves) + 1
        BY <4>1, <4>2
      <4> QED
        BY <2>2, <2>6, <2>8, <3>1, <4>1, <4>2, <4>3
    <3> QED
      BY <2>1, <3>2, <3>3
  <2> QED
    BY <2>4, <2>7, <2>9 DEF MoveInv
<1>2. CASE R!WriteBlock \/ R!Flip \/ R!Verify \/ R!CheckParity \/ R!MarkBadSector
           \/ R!CheckHealth
  <2>1. UNCHANGED <<synapse, moves>>
    BY <1>2
    DEF R!CheckParity, R!MarkBadSector, R!CheckHealth, R!WriteBlock, R!Flip, R!Verify
  <2> QED
    BY <2>1 DEF MoveInv
<1> QED
  BY <1>1, <1>2 DEF R!ResNext

\* So the weight is in one slot.
LEMMA MovedSafe == MoveInv => R!MovedOnce
<1> SUFFICES ASSUME MoveInv PROVE R!MovedOnce
  OBVIOUS
<1>1. PICK s \in 1 .. Slots : \A t \in 1 .. Slots : synapse[t].heavy <=> t = s
  BY DEF MoveInv
<1>2. {t \in 1 .. Slots : synapse[t].heavy} = {s}
  BY <1>1
<1>3. Cardinality({s}) = 1
  BY FS_Singleton
<1> QED
  BY <1>2, <1>3, Counted DEF R!MovedOnce, MoveInv

\* For every block, any number of slots and every patience: one upset is healed
\* only if it hit the first bit, the watchdog escalates by the length of the
\* run, and a moved synapse is in one place (MonitorsHold of run machine).
THEOREM MonitorsStayTrue == MachineSpec => MonitorsHold
<1> DEFINE ResInv == EccInv /\ WatchInv /\ MoveInv
<1>1. MachineInit => ResInv
  BY EccBegins DEF MachineInit
<1>2. /\ ResInv /\ [MachineNext]_machineVars => ResInv'
      /\ ResInv /\ [MachineNext]_machineVars
           => R!OnlyTheFirstBitHeals \/ UNCHANGED R!resVars
  <2> SUFFICES ASSUME ResInv, [MachineNext]_machineVars
               PROVE  ResInv' /\ (R!OnlyTheFirstBitHeals \/ UNCHANGED R!resVars)
    OBVIOUS
  <2>1. CASE R!ResNext
    BY <2>1, EccKeeps, WatchKeeps, MoveKeeps
  <2>2. CASE UNCHANGED resilience
    BY <2>2 DEF resilience, R!resVars, EccInv, WatchInv, MoveInv, R!WatchdogEscalates
  <2> QED
    BY <2>1, <2>2 DEF MachineNext, Still, machineVars
<1>3. ResInv => R!WatchdogEscalates /\ R!MovedOnce
  BY MovedSafe DEF WatchInv
<1> HIDE DEF ResInv
<1> QED
  BY <1>1, <1>2, <1>3, PTL DEF MachineSpec, MonitorsHold, R!MonitorsHold

-----------------------------------------------------------------------------
(* Telemetry.                                                              *)

\* What holds at zero and is handed on holds up to n.
LEMMA Upwards ==
  ASSUME NEW n \in Nat, NEW S \in SUBSET Nat,
         0 \in S, \A k \in 1 .. n : k - 1 \in S => k \in S
  PROVE  \A k \in 0 .. n : k \in S
<1> DEFINE Bad == {k \in 0 .. n : k \notin S}
<1> SUFFICES ASSUME Bad # {} PROVE FALSE
  OBVIOUS
<1>1. Bad \in SUBSET Nat
  OBVIOUS
<1> HIDE DEF Bad
<1>2. PICK e \in Bad : \A f \in Bad : e <= f
  BY <1>1, Least
<1> USE DEF Bad
<1>3. e \in 1 .. n /\ e - 1 \in 0 .. n
  BY <1>2
<1>4. e - 1 \in S
  BY <1>2, <1>3
<1> QED
  BY <1>2, <1>3, <1>4

\* u starts with a, stays within V and takes the steps of G.
Iterate(u, n, V, a, G) ==
  /\ u \in [0 .. n -> V] /\ u[0] = a
  /\ \A k \in 1 .. n : u[k] = G[k][u[k - 1]]

\* A function that a start and steps within V determine exists.
LEMMA Iterates ==
  ASSUME NEW n \in Nat, NEW V, NEW a \in V, NEW G \in [1 .. n -> [V -> V]]
  PROVE  \E u : Iterate(u, n, V, a, G)
<1> DEFINE Good(u, m) == /\ u \in [0 .. m -> V] /\ u[0] = a
                         /\ \A k \in 1 .. m : u[k] = G[k][u[k - 1]]
           S == {m \in Nat : \E u : Good(u, m)}
<1>0. \A k \in 1 .. n, i \in V : G[k][i] \in V
  OBVIOUS
<1>1. 0 \in S
  <2>1. Good([i \in 0 .. 0 |-> a], 0)
    OBVIOUS
  <2> QED
    BY <2>1
<1>2. ASSUME NEW k \in 1 .. n, k - 1 \in S PROVE k \in S
  <2>1. PICK m \in Nat : m = k - 1 /\ k = m + 1
    OBVIOUS
  <2>2. PICK u : Good(u, m)
    BY <1>2, <2>1
  <2> DEFINE w == [i \in 0 .. m + 1 |-> IF i = m + 1 THEN G[m + 1][u[m]] ELSE u[i]]
  <2>3. \A i \in 0 .. m : u[i] \in V /\ w[i] = u[i]
    BY <2>1, <2>2
  <2>4. w[m + 1] = G[m + 1][u[m]] /\ w[m + 1] \in V
    <3>1. w[m + 1] = G[m + 1][u[m]]
      BY <2>1
    <3>2. u[m] \in V
      <4>1. m \in 0 .. m
        BY <2>1
      <4> HIDE DEF w, S, Good
      <4> QED
        BY <2>3, <4>1
    <3> HIDE DEF w, S, Good
    <3> QED
      BY <1>0, <2>1, <3>1, <3>2
  <2>5. DOMAIN w = 0 .. m + 1
    OBVIOUS
  <2>6. \A i \in 0 .. m + 1 : w[i] \in V
    <3>1. \A i \in 0 .. m + 1 : i \in 0 .. m \/ i = m + 1
      BY <2>1
    <3>2. \A i \in 0 .. m : w[i] \in V
      BY <2>3
    <3> HIDE DEF w, Good, S
    <3> QED
      BY <2>4, <3>1, <3>2
  <2>7. w \in [0 .. m + 1 -> V]
    BY <2>6
  <2>8. \A j \in 1 .. m + 1 : w[j] = G[j][w[j - 1]]
    <3> TAKE j \in 1 .. m + 1
    <3>1. CASE j = m + 1
      <4>1. w[j - 1] = u[m]
        BY <2>1, <2>3, <3>1
      <4> HIDE DEF w, S, Good
      <4> QED
        BY <2>4, <3>1, <4>1
    <3>2. CASE j # m + 1
      <4>1. j \in 1 .. m /\ j - 1 \in 0 .. m /\ j \in 0 .. m
        BY <2>1, <3>2
      <4>2. u[j] = G[j][u[j - 1]]
        BY <2>2, <4>1
      <4> HIDE DEF w, S, Good
      <4> QED
        BY <2>3, <4>1, <4>2
    <3> QED
      BY <3>1, <3>2
  <2>9. w[0] = a
    BY <2>1, <2>2, <2>3
  <2>10. Good(w, m + 1)
    <3> HIDE DEF w
    <3> QED
      BY <2>7, <2>8, <2>9
  <2> HIDE DEF w, Good
  <2> QED
    BY <2>1, <2>10
<1> HIDE DEF Good
<1>3. \A k \in 0 .. n : k \in S
  <2>1. S \in SUBSET Nat
    OBVIOUS
  <2> HIDE DEF S
  <2> QED
    BY <1>1, <1>2, <2>1, Upwards
<1>4. PICK u : Good(u, n)
  BY <1>3
<1> QED
  BY <1>4 DEF Good, Iterate

\* The assumptions on the record, one by one.
LEMMA RecordSizes ==
  /\ TraceSize \in Nat \ {0} /\ MaxEdges \in Nat \ {0} /\ Tracks \in Nat
  /\ IsFiniteSet(Neurons) /\ Neurons # {} /\ \A d \in Pauses : d \in Nat
BY TelemetryAssumption

\* The lesser of two numbers.
LEMMA LesserOfTwo ==
  ASSUME NEW a \in Int, NEW b \in Int
  PROVE  L!Min({a, b}) = IF a <= b THEN a ELSE b
<1>1. PICK m \in {a, b} : m = IF a <= b THEN a ELSE b
  OBVIOUS
<1>2. \A y \in {a, b} : m <= y
  BY <1>1
<1>3. \A k \in {a, b} : (\A y \in {a, b} : k <= y) => k = m
  BY <1>1
<1> QED
  BY <1>1, <1>2, <1>3 DEF L!Min

\* The greater of two numbers.
LEMMA GreaterOfTwo ==
  ASSUME NEW a \in Int, NEW b \in Int
  PROVE  L!Max({a, b}) = IF a >= b THEN a ELSE b
<1>1. PICK m \in {a, b} : m = IF a >= b THEN a ELSE b
  OBVIOUS
<1>2. \A y \in {a, b} : m >= y
  BY <1>1
<1>3. \A k \in {a, b} : (\A y \in {a, b} : k >= y) => k = m
  BY <1>1
<1> QED
  BY <1>1, <1>2, <1>3 DEF L!Max

\* Once round the ring.
Wrapped(k, N) == IF k < N THEN k ELSE k - N
\* Less than twice round, the remainder is that.
LEMMA WrappedOnce ==
  ASSUME NEW N \in Nat \ {0}, NEW k \in 0 .. 2 * N - 1
  PROVE  k % N = Wrapped(k, N) /\ Wrapped(k, N) \in 0 .. N - 1
<1>1. CASE k < N
  BY <1>1 DEF Wrapped
<1>2. CASE ~(k < N)
  <2>1. PICK r \in 0 .. N - 1 : r = k - N
    BY <1>2
  <2>2. k = N * 1 + r
    BY <2>1
  <2>3. k % N = r
    BY <2>1, <2>2
  <2> QED
    BY <1>2, <2>1, <2>3 DEF Wrapped
<1> QED
  BY <1>1, <1>2

\* How many places lie from t up to h.
Span(h, t, N) == IF h >= t THEN h - t ELSE N - t + h

\* One entry more at the head: the ring grows by it or drops the oldest.
LEMMA RingStep ==
  ASSUME NEW N \in Nat \ {0}, NEW h \in 0 .. N - 1, NEW t \in 0 .. N - 1,
         NEW h2, h2 = Wrapped(h + 1, N),
         NEW t2, t2 = IF h2 = t THEN Wrapped(t + 1, N) ELSE t,
         NEW m, m = Span(h, t, N), NEW m2, m2 = Span(h2, t2, N)
  PROVE  /\ h2 \in 0 .. N - 1 /\ t2 \in 0 .. N - 1
         /\ m \in 0 .. N - 1 /\ m2 = IF m = N - 1 THEN m ELSE m + 1
         /\ \A i \in 1 .. m2 :
              IF i = m2 THEN Wrapped(t2 + i - 1, N) = h
              ELSE LET j == i + (m + 1 - m2)
                   IN  /\ j \in 1 .. m
                       /\ Wrapped(t2 + i - 1, N) = Wrapped(t + j - 1, N)
                       /\ Wrapped(t + j - 1, N) # h
BY DEF Wrapped, Span

\* What fired, and when.
Event == [n : Neurons, t : Nat]

\* The ring holds the newest of what was recorded since it was last emptied,
\* and time does not run backwards.
RingInv ==
  /\ buffer \in [0 .. TraceSize - 1 -> Event]
  /\ head \in 0 .. TraceSize - 1 /\ tail \in 0 .. TraceSize - 1
  /\ fired \in Seq(Event) /\ traceSince \in 0 .. Len(fired) /\ traceNow \in Nat
  /\ \A i \in 1 .. Len(fired) : fired[i].t <= traceNow
  /\ \A i, j \in 1 .. Len(fired) : i <= j => fired[i].t <= fired[j].t
  /\ L!Length = IF Len(fired) - traceSince < TraceSize
                THEN Len(fired) - traceSince ELSE TraceSize - 1
  /\ \A i \in 1 .. L!Length :
       buffer[Wrapped(tail + i - 1, TraceSize)] = fired[Len(fired) - L!Length + i]

\* The ring is empty at first.
LEMMA RingStarts == L!Init => RingInv
<1> SUFFICES ASSUME L!Init PROVE RingInv
  OBVIOUS
<1>1. L!NoEvent \in Event
  <2>1. (CHOOSE n \in Neurons : TRUE) \in Neurons
    BY RecordSizes
  <2> QED
    BY <2>1 DEF L!NoEvent, Event
<1>2. /\ buffer = [i \in 0 .. TraceSize - 1 |-> L!NoEvent] /\ head = 0 /\ tail = 0
      /\ traceNow = 0 /\ fired = <<>> /\ traceSince = 0
  BY DEF L!Init
<1>3. L!Length = 0 /\ Len(fired) = 0 /\ fired \in Seq(Event)
  BY <1>2 DEF L!Length
<1>4. 0 \in 0 .. TraceSize - 1 /\ 0 < TraceSize
  BY RecordSizes
<1> QED
  BY <1>1, <1>2, <1>3, <1>4 DEF RingInv

\* Emptied, by start_recording or clear, the ring holds what follows.
LEMMA RingEmptied ==
  ASSUME RingInv, head' = 0, tail' = 0, traceSince' = Len(fired),
         UNCHANGED <<buffer, traceNow, fired>>
  PROVE  RingInv'
<1>1. L!Length' = 0
  BY DEF L!Length
<1>2. 0 \in 0 .. TraceSize - 1 /\ 0 < TraceSize
  BY RecordSizes
<1>3. Len(fired) \in Nat
  BY DEF RingInv
<1>4. 1 .. 0 = {}
  OBVIOUS
<1> QED
  BY <1>1, <1>2, <1>3, <1>4 DEF RingInv

\* A logged spike is the newest, and a full ring drops its oldest for it.
LEMMA LogKeepsRing ==
  ASSUME RingInv, NEW neuron \in Neurons, L!LogSpike(neuron)
  PROVE  RingInv'
<1>1. PICK d \in Pauses : traceNow' = traceNow + d
  BY DEF L!LogSpike
<1>2. PICK N \in Nat \ {0} : N = TraceSize
  BY RecordSizes
<1>3. PICK h \in 0 .. N - 1, t \in 0 .. N - 1 : h = head /\ t = tail
  BY <1>2 DEF RingInv
<1>4. PICK ev \in Event : ev = [n |-> neuron, t |-> traceNow']
  <2>1. traceNow' \in Nat
    BY <1>1, RecordSizes DEF RingInv
  <2> QED
    BY <2>1 DEF Event
<1>5. PICK h2 : h2 = Wrapped(h + 1, N)
  OBVIOUS
<1>6. PICK t2 : t2 = IF h2 = t THEN Wrapped(t + 1, N) ELSE t
  OBVIOUS
<1>7. (h + 1) % N = h2 /\ (t + 1) % N = Wrapped(t + 1, N)
  BY <1>5, WrappedOnce
<1>8. /\ buffer' = [buffer EXCEPT ![h] = ev] /\ head' = h2 /\ tail' = t2
      /\ fired' = Append(fired, ev) /\ traceSince' = traceSince
  BY <1>2, <1>3, <1>4, <1>6, <1>7 DEF L!LogSpike, L!Oldest
<1>9. PICK m, m2 : m = Span(h, t, N) /\ m2 = Span(h2, t2, N)
  OBVIOUS
<1>10. L!Length = m /\ L!Length' = m2
  BY <1>2, <1>3, <1>8, <1>9 DEF L!Length, Span
<1>11. /\ h2 \in 0 .. N - 1 /\ t2 \in 0 .. N - 1
       /\ m \in 0 .. N - 1 /\ m2 = IF m = N - 1 THEN m ELSE m + 1
       /\ \A i \in 1 .. m2 :
            IF i = m2 THEN Wrapped(t2 + i - 1, N) = h
            ELSE LET j == i + (m + 1 - m2)
                 IN  /\ j \in 1 .. m
                     /\ Wrapped(t2 + i - 1, N) = Wrapped(t + j - 1, N)
                     /\ Wrapped(t + j - 1, N) # h
  BY <1>5, <1>6, <1>9, RingStep
<1>12. PICK c \in Nat, s \in Nat : c = Len(fired) /\ s = traceSince /\ s <= c
  BY DEF RingInv
<1>13. /\ fired' \in Seq(Event) /\ Len(fired') = c + 1 /\ fired'[c + 1] = ev
       /\ \A i \in 1 .. c : fired'[i] = fired[i]
  BY <1>8, <1>12 DEF RingInv
<1>14. m = IF c - s < N THEN c - s ELSE N - 1
  BY <1>2, <1>10, <1>12 DEF RingInv
<1>15. m2 = IF c + 1 - s < N THEN c + 1 - s ELSE N - 1
  BY <1>11, <1>14
<1>16. \A i \in 1 .. m : buffer[Wrapped(t + i - 1, N)] = fired[c - m + i]
  BY <1>2, <1>3, <1>10, <1>12 DEF RingInv
<1>17. \A i \in 1 .. m2 :
         buffer'[Wrapped(t2 + i - 1, N)] = fired'[c + 1 - m2 + i]
  <2> TAKE i \in 1 .. m2
  <2>0. buffer \in [0 .. N - 1 -> Event]
    BY <1>2 DEF RingInv
  <2>1. CASE i = m2
    <3>1. buffer'[h] = ev
      BY <1>8, <2>0
    <3>2. c + 1 - m2 + i = c + 1
      BY <1>11, <2>1
    <3> QED
      BY <1>11, <1>13, <2>1, <3>1, <3>2
  <2>2. CASE i # m2
    <3>1. PICK j \in 1 .. m : /\ j = i + (m + 1 - m2)
                              /\ Wrapped(t2 + i - 1, N) = Wrapped(t + j - 1, N)
                              /\ Wrapped(t + j - 1, N) # h
      BY <1>11, <2>2
    <3>2. t + j - 1 \in 0 .. 2 * N - 1
      BY <1>11
    <3>3. Wrapped(t + j - 1, N) \in 0 .. N - 1
      BY <3>2, WrappedOnce
    <3>4. buffer'[Wrapped(t + j - 1, N)] = buffer[Wrapped(t + j - 1, N)]
      BY <1>8, <2>0, <3>1, <3>3
    <3>5. c - m + j = c + 1 - m2 + i /\ c - m + j \in 1 .. c
      BY <1>11, <1>14, <3>1
    <3> QED
      BY <1>13, <1>16, <3>1, <3>4, <3>5
  <2> QED
    BY <2>1, <2>2
<1>18. /\ ev.t = traceNow' /\ traceNow \in Nat /\ traceNow' \in Nat
       /\ traceNow <= traceNow'
  BY <1>1, <1>4, RecordSizes DEF RingInv
<1>19. \A i \in 1 .. c : fired[i].t \in Nat /\ fired[i].t <= traceNow
  <2>1. \A i \in 1 .. c : fired[i] \in Event
    BY <1>12 DEF RingInv
  <2> QED
    BY <1>12, <2>1 DEF RingInv, Event
<1>20. \A i \in 1 .. c + 1 : fired'[i].t <= traceNow'
  <2> TAKE i \in 1 .. c + 1
  <2>1. CASE i = c + 1
    BY <1>13, <1>18, <2>1
  <2>2. CASE i \in 1 .. c
    BY <1>13, <1>18, <1>19, <2>2
  <2> QED
    BY <2>1, <2>2
<1>21. \A i, j \in 1 .. c + 1 : i <= j => fired'[i].t <= fired'[j].t
  <2> SUFFICES ASSUME NEW i \in 1 .. c + 1, NEW j \in 1 .. c + 1, i <= j
               PROVE  fired'[i].t <= fired'[j].t
    OBVIOUS
  <2>1. CASE j = c + 1
    BY <1>13, <1>18, <1>20, <2>1
  <2>2. CASE j \in 1 .. c
    <3>1. i \in 1 .. c
      BY <2>2
    <3> QED
      BY <1>12, <1>13, <2>2, <3>1 DEF RingInv
  <2> QED
    BY <2>1, <2>2
<1>22. buffer' \in [0 .. N - 1 -> Event]
  BY <1>2, <1>8 DEF RingInv
<1>23. s \in 0 .. c + 1
  BY <1>12
<1>24. /\ buffer' \in [0 .. TraceSize - 1 -> Event]
       /\ head' \in 0 .. TraceSize - 1 /\ tail' \in 0 .. TraceSize - 1
  BY <1>2, <1>8, <1>11, <1>22
<1>25. /\ fired' \in Seq(Event) /\ traceSince' \in 0 .. Len(fired')
       /\ traceNow' \in Nat
  BY <1>8, <1>12, <1>13, <1>18, <1>23
<1>26. /\ \A i \in 1 .. Len(fired') : fired'[i].t <= traceNow'
       /\ \A i, j \in 1 .. Len(fired') : i <= j => fired'[i].t <= fired'[j].t
  BY <1>13, <1>20, <1>21
<1>27. L!Length' = IF Len(fired') - traceSince' < TraceSize
                   THEN Len(fired') - traceSince' ELSE TraceSize - 1
  BY <1>2, <1>8, <1>10, <1>12, <1>13, <1>15
<1>28. \A i \in 1 .. L!Length' :
         buffer'[Wrapped(tail' + i - 1, TraceSize)] = fired'[Len(fired') - L!Length' + i]
  <2> SUFFICES ASSUME NEW i \in 1 .. L!Length'
               PROVE  buffer'[Wrapped(tail' + i - 1, TraceSize)]
                        = fired'[Len(fired') - L!Length' + i]
    OBVIOUS
  <2>1. i \in 1 .. m2
    BY <1>10
  <2>2. buffer'[Wrapped(t2 + i - 1, N)] = fired'[c + 1 - m2 + i]
    BY <1>17, <2>1
  <2>3. Len(fired') - L!Length' + i = c + 1 - m2 + i
    BY <1>10, <1>11, <1>13
  <2>4. Wrapped(tail' + i - 1, TraceSize) = Wrapped(t2 + i - 1, N)
    BY <1>2, <1>8
  <2> QED
    BY <2>2, <2>3, <2>4
<1> QED
  BY <1>24, <1>25, <1>26, <1>27, <1>28 DEF RingInv

\* What iter gives are the newest spikes, in the order they fired.
LEMMA IterIsNewest ==
  ASSUME RingInv
  PROVE  /\ L!Length \in Nat /\ L!Length < TraceSize /\ L!Length <= Len(fired)
         /\ L!Iter = [i \in 1 .. L!Length |-> fired[Len(fired) - L!Length + i]]
         /\ L!Iter \in Seq(Event) /\ Len(L!Iter) = L!Length
         /\ \A i, j \in 1 .. L!Length : i <= j => L!Iter[i].t <= L!Iter[j].t
<1>1. PICK N \in Nat \ {0} : N = TraceSize
  BY RecordSizes
<1>2. PICK c \in Nat, s \in Nat : c = Len(fired) /\ s = traceSince /\ s <= c
  BY DEF RingInv
<1>3. PICK m \in Nat : m = L!Length /\ m < N /\ m <= c
  BY <1>1, <1>2 DEF RingInv
<1>4. ASSUME NEW i \in 1 .. m
      PROVE  /\ buffer[(tail + i - 1) % TraceSize] = fired[(c - m) + i]
             /\ (c - m) + i \in 1 .. c
  <2>1. PICK t \in 0 .. N - 1 : t = tail
    BY <1>1 DEF RingInv
  <2>2. t + i - 1 \in 0 .. 2 * N - 1
    BY <1>3
  <2>3. (t + i - 1) % N = Wrapped(t + i - 1, N)
    BY <2>2, WrappedOnce
  <2>4. buffer[Wrapped(tail + i - 1, TraceSize)] = fired[Len(fired) - L!Length + i]
    BY <1>3 DEF RingInv
  <2>5. (c - m) + i \in 1 .. c
    BY <1>3
  <2> QED
    BY <1>1, <1>2, <1>3, <2>1, <2>3, <2>4, <2>5
<1>5. L!Iter = [i \in 1 .. m |-> fired[(c - m) + i]]
  BY <1>3, <1>4 DEF L!Iter
<1>6. \A i \in 1 .. c : fired[i] \in Event
  BY <1>2 DEF RingInv
<1>7. L!Iter \in [1 .. m -> Event]
  BY <1>4, <1>5, <1>6
<1>8. L!Iter \in Seq(Event) /\ Len(L!Iter) = m
  BY <1>3, <1>7
<1>9. \A i, j \in 1 .. m : i <= j => L!Iter[i].t <= L!Iter[j].t
  <2> SUFFICES ASSUME NEW i \in 1 .. m, NEW j \in 1 .. m, i <= j
               PROVE  fired[(c - m) + i].t <= fired[(c - m) + j].t
    BY <1>5
  <2>1. (c - m) + i \in 1 .. c /\ (c - m) + j \in 1 .. c /\ (c - m) + i <= (c - m) + j
    BY <1>3, <1>4
  <2> QED
    BY <1>2, <2>1 DEF RingInv
<1> QED
  BY <1>1, <1>2, <1>3, <1>5, <1>8, <1>9

\* The ring holds the newest spikes, and an export is a first part of them.
LEMMA NewestKept ==
  ASSUME RingInv
  PROVE  L!NewestAreKept
<1>1. PICK N \in Nat \ {0} : N = TraceSize
  BY RecordSizes
<1>2. PICK c \in Nat, s \in Nat : c = Len(fired) /\ s = traceSince /\ s <= c
  BY DEF RingInv
<1>3. PICK m \in Nat : m = L!Length /\ m <= c
  BY <1>2, IterIsNewest
<1>4. L!Min({Len(fired) - traceSince, TraceSize - 1}) = m
  <2>1. PICK a \in Int, b \in Int : a = c - s /\ b = N - 1
    OBVIOUS
  <2>2. L!Min({a, b}) = IF a <= b THEN a ELSE b
    BY LesserOfTwo
  <2>3. m = IF a <= b THEN a ELSE b
    BY <1>1, <1>2, <1>3, <2>1 DEF RingInv
  <2> QED
    BY <1>1, <1>2, <2>1, <2>2, <2>3
<1>5. L!Iter = SubSeq(fired, (c - m) + 1, c)
  <2>1. L!Iter = [i \in 1 .. m |-> fired[(c - m) + i]]
    BY <1>2, <1>3, IterIsNewest
  <2>2. PICK f \in Seq(Event) : f = fired /\ Len(f) = c
    BY <1>2 DEF RingInv
  <2>3. PICK a \in Nat : a = c - m /\ a + m = c /\ a + 1 \in 1 .. c + 1
    BY <1>3
  <2>4. SubSeq(f, a + 1, c) \in Seq(Event) /\ Len(SubSeq(f, a + 1, c)) = m
        /\ \A i \in 1 .. m : SubSeq(f, a + 1, c)[i] = f[a + i]
    BY <2>2, <2>3
  <2>5. PICK q : q = SubSeq(f, a + 1, c)
    OBVIOUS
  <2>6. q = [i \in 1 .. m |-> q[i]]
    <3>1. q \in Seq(Event) /\ Len(q) = m
      BY <2>4, <2>5
    <3>2. q \in [1 .. Len(q) -> Event]
      BY <3>1
    <3> QED
      BY <3>1, <3>2
  <2>7. q = [i \in 1 .. m |-> f[a + i]]
    BY <2>4, <2>5, <2>6
  <2> QED
    BY <2>1, <2>2, <2>3, <2>5, <2>7
<1>6. L!IsPrefix(L!Exported, L!Iter)
  <2>1. PICK it \in Seq(Event) : it = L!Iter /\ Len(it) = m
    BY <1>3, IterIsNewest
  <2>2. PICK e \in 0 .. m :
          e = IF L!Length = 0 \/ head > tail THEN L!Length ELSE TraceSize - tail
    <3>1. PICK h \in 0 .. N - 1, t \in 0 .. N - 1 : h = head /\ t = tail
      BY <1>1 DEF RingInv
    <3>2. m = IF h >= t THEN h - t ELSE N - t + h
      BY <1>1, <1>3, <3>1 DEF L!Length
    <3>3. CASE m = 0 \/ h > t
      BY <1>3, <3>1, <3>3
    <3>4. CASE ~(m = 0 \/ h > t)
      <4>1. N - t \in 0 .. m
        BY <3>1, <3>2, <3>4
      <4> QED
        BY <1>1, <1>3, <3>1, <3>4, <4>1
    <3> QED
      BY <3>3, <3>4
  <2>3. L!Exported = SubSeq(it, 1, e)
    BY <2>1, <2>2 DEF L!Exported
  <2>4. /\ Len(SubSeq(it, 1, e)) = e
        /\ SubSeq(it, 1, e) = [i \in 1 .. e |-> it[i]]
    BY <2>1, <2>2
  <2>5. PICK p : p = [i \in 1 .. e |-> it[i]]
    OBVIOUS
  <2>6. p \in Seq(Event) /\ Len(p) = e
    BY <2>1, <2>2, <2>5
  <2>7. SubSeq(p, 1, e) = [i \in 1 .. e |-> p[i]]
    BY <2>6
  <2>8. SubSeq(p, 1, e) = SubSeq(it, 1, e)
    BY <2>4, <2>5, <2>7
  <2>9. L!IsPrefix(p, it)
    BY <2>1, <2>2, <2>6, <2>8 DEF L!IsPrefix
  <2> QED
    BY <2>1, <2>3, <2>4, <2>5, <2>9
<1>7. SubSeq(fired, Len(fired) - m + 1, Len(fired)) = SubSeq(fired, (c - m) + 1, c)
  BY <1>2
<1> QED
  BY <1>4, <1>5, <1>6, <1>7 DEF L!NewestAreKept

\* The edges of a causal graph: one for a pair, and labelled with the layers
\* of its neurons but for the last of a full graph.
Label == {<<0, 0>>} \cup {L!Labels(a, b) : a \in Neurons, b \in Neurons}
Edge == [pre : Neurons, post : Neurons, count : Nat \ {0}, lat : Int, layers : Label]
Graph ==
  {es \in Seq(Edge) :
     /\ Len(es) <= MaxEdges
     /\ \A i, j \in 1 .. Len(es) :
          es[i].pre = es[j].pre /\ es[i].post = es[j].post => i = j
     /\ \A i \in 1 .. Len(es) :
          i < MaxEdges => es[i].layers = L!Labels(es[i].pre, es[i].post)}

\* An element of a set of naturals that is not empty.
LEMMA LeastIsIn ==
  ASSUME NEW S \in SUBSET Nat, S # {}
  PROVE  L!Min(S) \in S /\ \A k \in S : L!Min(S) <= k
<1>1. \E k \in S : \A l \in S : k <= l
  BY Least
<1> QED
  BY <1>1 DEF L!Min

\* update_edge counts a known pair again, or appends the pair, or relabels the
\* last edge of a full graph.
LEMMA UpdatedKeeps ==
  ASSUME NEW es \in Graph, NEW a \in Event, NEW b \in Event
  PROVE  L!Updated(es, <<a, b>>) \in Graph
<1> DEFINE known == {i \in 1 .. Len(es) : es[i].pre = a.n /\ es[i].post = b.n}
           new == [pre |-> a.n, post |-> b.n, count |-> 1, lat |-> b.t - a.t,
                   layers |-> <<0, 0>>]
           grown == IF Len(es) < MaxEdges THEN Append(es, new) ELSE es
<1>0. /\ a.n \in Neurons /\ b.n \in Neurons /\ a.t \in Nat /\ b.t \in Nat
      /\ L!Labels(a.n, b.n) \in Label
  BY DEF Event, Label
<1>1. /\ es \in Seq(Edge) /\ Len(es) \in Nat /\ Len(es) <= MaxEdges
      /\ \A i, j \in 1 .. Len(es) :
           es[i].pre = es[j].pre /\ es[i].post = es[j].post => i = j
      /\ \A i \in 1 .. Len(es) :
           i < MaxEdges => es[i].layers = L!Labels(es[i].pre, es[i].post)
  BY DEF Graph
<1>2. L!Updated(es, <<a, b>>) =
        IF known # {}
        THEN [es EXCEPT ![L!Min(known)] = L!Again(@, b.t - a.t)]
        ELSE [grown EXCEPT ![Len(grown)].layers = L!Labels(a.n, b.n)]
  BY DEF L!Updated
<1>3. CASE known # {}
  <2>1. PICK k \in 1 .. Len(es) : k = L!Min(known)
    <3>1. known \in SUBSET Nat
      OBVIOUS
    <3> HIDE DEF known
    <3>2. L!Min(known) \in known
      BY <1>3, <3>1, LeastIsIn
    <3> USE DEF known
    <3> QED
      BY <3>2
  <2>2. PICK e \in Edge : e = es[k]
    BY <1>1
  <2>3. PICK e2 \in Edge :
          /\ e2 = L!Again(e, b.t - a.t)
          /\ e2.pre = e.pre /\ e2.post = e.post /\ e2.layers = e.layers
    <3>1. PICK lat \in Int : lat = (9 * e.lat + (b.t - a.t)) \div 10
      <4>1. PICK u \in Int : u = 9 * e.lat + (b.t - a.t)
        BY <1>0 DEF Edge
      <4> QED
        BY <4>1
    <3>2. PICK r : r = L!Again(e, b.t - a.t)
      OBVIOUS
    <3>3. e.count + 1 \in Nat \ {0}
      BY DEF Edge
    <3>4. r = [e EXCEPT !.count = e.count + 1, !.lat = lat]
      BY <3>1, <3>2 DEF L!Again
    <3>5. r = [pre |-> e.pre, post |-> e.post, count |-> e.count + 1, lat |-> lat,
               layers |-> e.layers]
      BY <3>4 DEF Edge
    <3>6. r \in Edge /\ r.pre = e.pre /\ r.post = e.post /\ r.layers = e.layers
      BY <3>3, <3>5 DEF Edge
    <3> QED
      BY <3>2, <3>6
  <2>5. L!Updated(es, <<a, b>>) = [es EXCEPT ![k] = e2]
    <3> HIDE DEF known
    <3> QED
      BY <1>2, <1>3, <2>1, <2>2, <2>3
  <2>6. PICK es2 : es2 = [es EXCEPT ![k] = e2]
    OBVIOUS
  <2>7. es2 \in Seq(Edge) /\ Len(es2) = Len(es)
    BY <1>1, <2>6
  <2>8. \A i \in 1 .. Len(es) : /\ es2[i].pre = es[i].pre /\ es2[i].post = es[i].post
                                /\ es2[i].layers = es[i].layers
    BY <1>1, <2>2, <2>3, <2>6
  <2>9. es2 \in Graph
    BY <1>1, <2>7, <2>8 DEF Graph
  <2> QED
    BY <2>5, <2>6, <2>9
<1>4. CASE known = {} /\ Len(es) < MaxEdges
  <2>1. new \in Edge
    BY <1>0 DEF Edge, Label
  <2>2. PICK c \in Nat : c = Len(es)
    BY <1>1
  <2>3. PICK g \in Seq(Edge) :
          /\ grown = g /\ Len(g) = c + 1 /\ g \in [1 .. c + 1 -> Edge]
          /\ g[c + 1] = new /\ \A i \in 1 .. c : g[i] = es[i]
    <3> HIDE DEF new
    <3>1. PICK e0 \in Edge : e0 = new
      BY <2>1
    <3>2. PICK g : g = Append(es, e0)
      OBVIOUS
    <3>3. /\ g \in Seq(Edge) /\ Len(g) = c + 1 /\ g[c + 1] = e0
          /\ \A i \in 1 .. c : g[i] = es[i]
      BY <1>1, <2>2, <3>2, AppendProperties
    <3>4. g \in [1 .. Len(g) -> Edge]
      BY <3>3
    <3>5. grown = g
      BY <1>4, <3>1, <3>2
    <3> HIDE DEF grown
    <3> QED
      BY <3>1, <3>3, <3>4, <3>5
  <2>4. c + 1 \in 1 .. c + 1
    OBVIOUS
  <2> HIDE DEF grown
  <2>5. PICK e2 \in Edge :
          /\ e2 = [new EXCEPT !.layers = L!Labels(a.n, b.n)]
          /\ e2.pre = a.n /\ e2.post = b.n /\ e2.layers = L!Labels(a.n, b.n)
    <3>1. PICK r : r = [new EXCEPT !.layers = L!Labels(a.n, b.n)]
      OBVIOUS
    <3>2. r = [pre |-> a.n, post |-> b.n, count |-> 1, lat |-> b.t - a.t,
               layers |-> L!Labels(a.n, b.n)]
      BY <3>1
    <3>3. /\ r \in Edge /\ r.pre = a.n /\ r.post = b.n
          /\ r.layers = L!Labels(a.n, b.n)
      BY <1>0, <3>2 DEF Edge
    <3> QED
      BY <3>1, <3>3
  <2>6. PICK es2 : es2 = [g EXCEPT ![c + 1] = e2]
    OBVIOUS
  <2>7. L!Updated(es, <<a, b>>) = es2
    <3>1. [g EXCEPT ![c + 1].layers = L!Labels(a.n, b.n)]
            = [g EXCEPT ![c + 1] = [new EXCEPT !.layers = L!Labels(a.n, b.n)]]
      <4> HIDE DEF new
      <4> QED
        BY <2>3
    <3> HIDE DEF new, grown, known
    <3> QED
      BY <1>2, <1>4, <2>3, <2>4, <2>5, <2>6, <3>1
  <2> HIDE DEF new, grown
  <2>8. es2 \in Seq(Edge) /\ Len(es2) = c + 1
    <3>2. es2 \in [1 .. c + 1 -> Edge]
      BY <2>3, <2>4, <2>6
    <3> QED
      BY <3>2
  <2>9. es2[c + 1] = e2 /\ \A i \in 1 .. c : es2[i] = es[i]
    BY <2>3, <2>4, <2>6
  <2>10. \A i \in 1 .. c : ~(es[i].pre = a.n /\ es[i].post = b.n)
    BY <1>4, <2>2
  <2>11. \A i \in 1 .. c + 1 : i \in 1 .. c \/ i = c + 1
    OBVIOUS
  <2> HIDE DEF known
  <2>12. \A i, j \in 1 .. c + 1 :
           es2[i].pre = es2[j].pre /\ es2[i].post = es2[j].post => i = j
    <3> SUFFICES ASSUME NEW i \in 1 .. c + 1, NEW j \in 1 .. c + 1,
                        es2[i].pre = es2[j].pre, es2[i].post = es2[j].post
                 PROVE  i = j
      OBVIOUS
    <3>1. CASE i \in 1 .. c /\ j \in 1 .. c
      BY <1>1, <2>2, <2>9, <3>1
    <3>2. CASE i = c + 1 /\ j \in 1 .. c
      BY <2>5, <2>9, <2>10, <3>2
    <3>3. CASE j = c + 1 /\ i \in 1 .. c
      BY <2>5, <2>9, <2>10, <3>3
    <3> QED
      BY <2>11, <3>1, <3>2, <3>3
  <2>13. \A i \in 1 .. c + 1 :
           i < MaxEdges => es2[i].layers = L!Labels(es2[i].pre, es2[i].post)
    BY <1>1, <2>2, <2>5, <2>9, <2>11
  <2>14. c + 1 <= MaxEdges
    BY <1>4, <2>2, RecordSizes
  <2>15. es2 \in Graph
    BY <2>8, <2>12, <2>13, <2>14 DEF Graph
  <2> QED
    BY <2>7, <2>15
<1>5. CASE known = {} /\ ~(Len(es) < MaxEdges)
  <2>1. PICK c \in Nat \ {0} : c = Len(es) /\ c = MaxEdges
    BY <1>1, <1>5, RecordSizes
  <2>2. grown = es
    BY <1>5
  <2>3. PICK e \in Edge : e = es[c]
    <3>1. c \in 1 .. Len(es)
      BY <2>1
    <3>2. es[c] \in Edge
      BY <1>1, <3>1
    <3> QED
      BY <3>2
  <2>4. PICK e2 \in Edge : /\ e2 = [e EXCEPT !.layers = L!Labels(a.n, b.n)]
                           /\ e2.pre = e.pre /\ e2.post = e.post
    <3>1. PICK r : r = [e EXCEPT !.layers = L!Labels(a.n, b.n)]
      OBVIOUS
    <3>2. r = [pre |-> e.pre, post |-> e.post, count |-> e.count, lat |-> e.lat,
               layers |-> L!Labels(a.n, b.n)]
      BY <3>1 DEF Edge
    <3>3. r \in Edge /\ r.pre = e.pre /\ r.post = e.post
      BY <1>0, <3>2 DEF Edge
    <3> QED
      BY <3>1, <3>3
  <2>5. PICK es2 : es2 = [es EXCEPT ![c] = e2]
    OBVIOUS
  <2>6. L!Updated(es, <<a, b>>) = es2
    <3>1. [es EXCEPT ![c].layers = L!Labels(a.n, b.n)]
            = [es EXCEPT ![c] = [e EXCEPT !.layers = L!Labels(a.n, b.n)]]
      BY <2>3
    <3>2. known = {}
      BY <1>5
    <3> HIDE DEF grown, known
    <3>3. L!Updated(es, <<a, b>>) = [grown EXCEPT ![Len(grown)].layers = L!Labels(a.n, b.n)]
      BY <1>2, <3>2
    <3>4. L!Updated(es, <<a, b>>) = [es EXCEPT ![c].layers = L!Labels(a.n, b.n)]
      BY <2>1, <2>2, <3>3
    <3> QED
      BY <2>4, <2>5, <3>1, <3>4
  <2>7. es2 \in Seq(Edge) /\ Len(es2) = c
    <3>0. es \in [1 .. Len(es) -> Edge]
      BY <1>1
    <3>1. es \in [1 .. c -> Edge] /\ c \in 1 .. c
      BY <2>1, <3>0
    <3>2. es2 \in [1 .. c -> Edge]
      BY <2>5, <3>1
    <3> QED
      BY <3>2
  <2>8. \A i \in 1 .. c : es2[i].pre = es[i].pre /\ es2[i].post = es[i].post
    BY <1>1, <2>1, <2>3, <2>4, <2>5
  <2>9. \A i \in 1 .. c : i < c => es2[i] = es[i]
    BY <1>1, <2>1, <2>5
  <2>10. es2 \in Graph
    BY <1>1, <2>1, <2>7, <2>8, <2>9 DEF Graph
  <2> QED
    BY <2>6, <2>10
<1> QED
  BY <1>3, <1>4, <1>5

\* So do the pairs of a whole trace, one after the other.
LEMMA LearnedKeeps ==
  ASSUME NEW es \in Graph, NEW pairs \in Seq(Event \X Event)
  PROVE  L!Learned(es, pairs) \in Graph
<1> DEFINE F(k, g) == IF L!Near(pairs[k]) THEN L!Updated(g, pairs[k]) ELSE g
           n == Len(pairs)
           w == CHOOSE u : u = [k \in 0 .. n |-> IF k = 0 THEN es ELSE F(k, u[k - 1])]
<1>1. L!Learned(es, pairs) = w[n]
  BY DEF L!Learned
<1>2. n \in Nat
  OBVIOUS
<1>3. \A k \in 1 .. n, g \in Graph : F(k, g) \in Graph
  <2> TAKE k \in 1 .. n, g \in Graph
  <2>1. PICK a \in Event, b \in Event : pairs[k] = <<a, b>>
    OBVIOUS
  <2>2. L!Updated(g, <<a, b>>) \in Graph
    BY UpdatedKeeps
  <2> QED
    BY <2>1, <2>2
<1> HIDE DEF F, n
<1>4. PICK G \in [1 .. n -> [Graph -> Graph]] : \A k \in 1 .. n, g \in Graph : G[k][g] = F(k, g)
  <2>1. [k \in 1 .. n |-> [g \in Graph |-> F(k, g)]] \in [1 .. n -> [Graph -> Graph]]
    BY <1>3
  <2> QED
    BY <2>1
<1>5. PICK u : Iterate(u, n, Graph, es, G)
  BY <1>2, Iterates
<1>6. u = [k \in 0 .. n |-> IF k = 0 THEN es ELSE F(k, u[k - 1])]
  <2>1. \A k \in 0 .. n : u[k] = IF k = 0 THEN es ELSE F(k, u[k - 1])
    <3> TAKE k \in 0 .. n
    <3>0. /\ u \in [0 .. n -> Graph] /\ u[0] = es
          /\ \A j \in 1 .. n : u[j] = G[j][u[j - 1]]
      BY <1>5 DEF Iterate
    <3>1. CASE k = 0
      BY <3>0, <3>1
    <3>2. CASE k # 0
      <4>1. k \in 1 .. n /\ k - 1 \in 0 .. n
        BY <1>2, <3>2
      <4>2. u[k - 1] \in Graph
        BY <3>0, <4>1
      <4> QED
        BY <1>4, <3>0, <3>2, <4>1, <4>2
    <3> QED
      BY <3>1, <3>2
  <2> QED
    BY <1>5, <2>1 DEF Iterate
<1>7. w = [k \in 0 .. n |-> IF k = 0 THEN es ELSE F(k, w[k - 1])]
  BY <1>6
<1> HIDE DEF w
<1>8. \A k \in 0 .. n : k \in {j \in Nat : j <= n => w[j] \in Graph}
  <2> DEFINE S == {j \in Nat : j <= n => w[j] \in Graph}
  <2>1. 0 \in S
    BY <1>2, <1>7
  <2>2. ASSUME NEW k \in 1 .. n, k - 1 \in S PROVE k \in S
    <3>1. w[k - 1] \in Graph
      BY <1>2, <2>2
    <3>2. w[k] = F(k, w[k - 1])
      BY <1>2, <1>7
    <3> QED
      BY <1>2, <1>3, <3>1, <3>2
  <2>3. S \in SUBSET Nat
    OBVIOUS
  <2> HIDE DEF S
  <2>4. \A k \in 0 .. n : k \in S
    BY <1>2, <2>1, <2>2, <2>3, Upwards
  <2> USE DEF S
  <2> QED
    BY <2>4
<1> QED
  BY <1>1, <1>2, <1>8

\* A graph is true to its events.
LEMMA GraphIsTrue ==
  ASSUME edges \in Graph
  PROVE  L!EdgesAreTrue
<1>1. /\ edges \in Seq(Edge) /\ DOMAIN edges = 1 .. Len(edges)
      /\ \A i, j \in 1 .. Len(edges) :
           edges[i].pre = edges[j].pre /\ edges[i].post = edges[j].post => i = j
      /\ \A i \in 1 .. Len(edges) :
           i < MaxEdges => edges[i].layers = L!Labels(edges[i].pre, edges[i].post)
  BY DEF Graph
<1> QED
  BY <1>1 DEF L!EdgesAreTrue, L!Labels

\* What the record is at every moment.
RecordInv == RingInv /\ edges \in Graph

\* It is so at first.
LEMMA RecordStarts == L!Init => RecordInv
<1>1. <<>> \in Graph
  <2>1. <<>> \in Seq(Edge) /\ Len(<<>>) = 0
    OBVIOUS
  <2>2. 0 <= MaxEdges
    BY RecordSizes
  <2> QED
    BY <2>1, <2>2 DEF Graph
<1>2. L!Init => edges = <<>>
  BY DEF L!Init
<1> QED
  BY <1>1, <1>2, RingStarts DEF RecordInv

\* No call of the recorder or of the analysis changes it.
LEMMA RecordKeeps ==
  ASSUME RecordInv, L!Next
  PROVE  RecordInv'
<1>1. CASE L!StartRecording
  <2>1. RingInv'
    BY <1>1, RingEmptied DEF RecordInv, L!StartRecording
  <2> QED
    BY <1>1, <2>1 DEF RecordInv, L!StartRecording
<1>2. CASE L!StopRecording
  BY <1>2 DEF RecordInv, RingInv, L!StopRecording, L!Length
<1>3. CASE L!Clear
  <2>1. RingInv'
    BY <1>3, RingEmptied DEF RecordInv, L!Clear
  <2> QED
    BY <1>3, <2>1 DEF RecordInv, L!Clear
<1>4. CASE L!Analyze
  <2>1. L!Pairs \in Seq(Event \X Event)
    <3>1. PICK m \in Nat : m = L!Length
      BY IterIsNewest DEF RecordInv
    <3>2. PICK q \in Nat : q = L!Max({2, m}) - 2 /\ (q > 0 => q = m - 2)
      BY GreaterOfTwo
    <3>3. PICK it \in Seq(Event) : it = L!Iter /\ Len(it) = m
      BY <3>1, IterIsNewest DEF RecordInv
    <3>4. \A i \in 1 .. q : it[i] \in Event /\ it[i + 2] \in Event
      <4> TAKE i \in 1 .. q
      <4>1. i \in 1 .. Len(it) /\ i + 2 \in 1 .. Len(it)
        BY <3>2, <3>3
      <4> QED
        BY <4>1
    <3>5. L!Pairs = [i \in 1 .. q |-> <<it[i], it[i + 2]>>]
      BY <3>1, <3>2, <3>3 DEF L!Pairs
    <3>6. L!Pairs \in [1 .. q -> Event \X Event]
      BY <3>4, <3>5
    <3> QED
      BY <3>6
  <2>2. edges' \in Graph
    BY <1>4, <2>1, LearnedKeeps DEF L!Analyze, RecordInv
  <2>3. RingInv'
    BY <1>4 DEF L!Analyze, RecordInv, RingInv, L!Length
  <2> QED
    BY <2>2, <2>3 DEF RecordInv
<1>5. ASSUME NEW neuron \in Neurons, L!LogSpike(neuron) PROVE RecordInv'
  BY <1>5, LogKeepsRing DEF RecordInv, L!LogSpike
<1> QED
  BY <1>1, <1>2, <1>3, <1>4, <1>5 DEF L!Next

\* One place before another: the higher score, or the same and the lower place.
Ahead(score, i, j) == score[i] > score[j] \/ (score[i] = score[j] /\ i < j)
Rank(score, Q, i) == Cardinality({j \in Q : Ahead(score, j, i)})

\* Of the places of a finite set each has a rank of its own, and every rank
\* below their number is one's.
LEMMA RanksAreUsed ==
  ASSUME NEW Q \in SUBSET Nat, IsFiniteSet(Q), NEW score \in [Q -> Int]
  PROVE  /\ \A i, j \in Q : Rank(score, Q, i) = Rank(score, Q, j) => i = j
         /\ \A k \in 1 .. Cardinality(Q) : \E i \in Q : Rank(score, Q, i) = k - 1
<1> DEFINE A(i) == {j \in Q : Ahead(score, j, i)}
           n == Cardinality(Q)
           r == [i \in Q |-> Cardinality(A(i))]
<1>0. n \in Nat
  BY FS_CardinalityType
<1>1. ASSUME NEW i \in Q
      PROVE  IsFiniteSet(A(i)) /\ Cardinality(A(i)) \in 0 .. n - 1
  <2>1. i \notin A(i) /\ A(i) \in SUBSET (Q \ {i})
    BY DEF Ahead
  <2>2. IsFiniteSet(Q \ {i}) /\ Cardinality(Q \ {i}) = n - 1
    BY FS_RemoveElement
  <2> HIDE DEF A, n
  <2>3. IsFiniteSet(A(i)) /\ Cardinality(A(i)) <= n - 1
    BY <2>1, <2>2, FS_Subset
  <2>4. Cardinality(A(i)) \in Nat
    BY <2>3, FS_CardinalityType
  <2> QED
    BY <1>0, <2>3, <2>4
<1>2. ASSUME NEW i \in Q, NEW j \in Q, Ahead(score, i, j)
      PROVE  Cardinality(A(i)) < Cardinality(A(j))
  <2>0. \A m \in Q : score[m] \in Int /\ m \in Int
    OBVIOUS
  <2>1. A(i) \in SUBSET A(j)
    <3>1. \A m \in Q : Ahead(score, m, i) => Ahead(score, m, j)
      BY <1>2, <2>0 DEF Ahead
    <3> QED
      BY <3>1
  <2>2. i \in A(j) /\ i \notin A(i)
    BY <1>2, <2>0 DEF Ahead
  <2>3. IsFiniteSet(A(j)) /\ Cardinality(A(i)) \in Nat /\ Cardinality(A(j)) \in Nat
    BY <1>1
  <2> HIDE DEF A
  <2>4. /\ Cardinality(A(i)) <= Cardinality(A(j))
        /\ Cardinality(A(j)) = Cardinality(A(i)) => A(j) = A(i)
    BY <2>1, <2>3, FS_Subset
  <2> QED
    BY <2>2, <2>3, <2>4
<1>3. \A i, j \in Q : i = j \/ Ahead(score, i, j) \/ Ahead(score, j, i)
  BY DEF Ahead
<1>4. \A i, j \in Q : r[i] = r[j] => i = j
  <2> TAKE i \in Q, j \in Q
  <2>1. r[i] = Cardinality(A(i)) /\ r[j] = Cardinality(A(j))
    OBVIOUS
  <2>2. r[i] \in Int /\ r[j] \in Int
    BY <1>1, <2>1
  <2> HIDE DEF r
  <2>3. Ahead(score, i, j) => r[i] < r[j]
    BY <1>2, <2>1
  <2>4. Ahead(score, j, i) => r[j] < r[i]
    BY <1>2, <2>1
  <2> HIDE DEF A
  <2> QED
    BY <1>3, <2>2, <2>3, <2>4
<1>5. r \in [Q -> 0 .. n - 1]
  <2> HIDE DEF A, n
  <2> QED
    BY <1>1
<1>6. IsFiniteSet(0 .. n - 1) /\ Cardinality(0 .. n - 1) = n
  <2> HIDE DEF n
  <2> QED
    BY <1>0, FS_Interval
<1>7. r \in Surjection(Q, 0 .. n - 1)
  <2>1. r \in Injection(Q, 0 .. n - 1)
    <3> HIDE DEF r, n
    <3> QED
      BY <1>4, <1>5 DEF Injection, IsInjective
  <2> HIDE DEF r
  <2> QED
    BY <1>6, <2>1, FS_Injection
<1>8. \A i \in Q : Rank(score, Q, i) = r[i]
  BY DEF Rank
<1>9. ASSUME NEW k \in 1 .. n PROVE \E i \in Q : r[i] = k - 1
  <2>1. k - 1 \in 0 .. n - 1
    <3> HIDE DEF n
    <3> QED
      BY <1>0
  <2> HIDE DEF r, n
  <2> QED
    BY <1>7, <2>1 DEF Surjection
<1> HIDE DEF r, n
<1>10. \A k \in 1 .. n : \E i \in Q : Rank(score, Q, i) = k - 1
  BY <1>8, <1>9
<1>11. \A i, j \in Q : Rank(score, Q, i) = Rank(score, Q, j) => i = j
  BY <1>4, <1>8
<1> QED
  BY <1>10, <1>11 DEF n


\* The module's cardinality is the cardinality.
LEMMA LSize == \A S : L!Cardinality(S) = Cardinality(S)
BY DEF L!Cardinality, Cardinality

\* The edges of a graph, and how sure each is.
Sure == [i \in DOMAIN edges |-> L!Confidence(edges[i])]
\* So "surer" is an order by numbers, ties broken by the place.
LEMMA SureIsNumber ==
  ASSUME edges \in Graph
  PROVE  /\ Sure \in [DOMAIN edges -> Int] /\ DOMAIN edges = 1 .. Len(edges)
         /\ Len(edges) \in Nat /\ \A i \in DOMAIN edges : edges[i] \in Edge
         /\ \A i, j \in DOMAIN edges : L!Before(i, j) <=> Ahead(Sure, i, j)
<1>1. /\ edges \in Seq(Edge) /\ DOMAIN edges = 1 .. Len(edges) /\ Len(edges) \in Nat
      /\ \A i \in DOMAIN edges : edges[i] \in Edge
  BY DEF Graph
<1>2. ASSUME NEW i \in DOMAIN edges PROVE L!Confidence(edges[i]) \in Int
  <2>1. PICK c \in Nat \ {0} : c = edges[i].count
    BY <1>1 DEF Edge
  <2>2. PICK u \in Int, d \in Nat \ {0} : u = 1000 * c /\ d = c + 10
    OBVIOUS
  <2>3. u \div d \in Int
    OBVIOUS
  <2>4. L!Confidence(edges[i]) = IF c = 1 THEN 500 ELSE u \div d
    BY <2>1, <2>2 DEF L!Confidence
  <2> QED
    BY <2>3, <2>4
<1>3. Sure \in [DOMAIN edges -> Int]
  BY <1>2 DEF Sure
<1>4. \A i, j \in DOMAIN edges : L!Before(i, j) <=> Ahead(Sure, i, j)
  BY DEF L!Before, Ahead, Sure
<1> QED
  BY <1>1, <1>3, <1>4

\* Of some edges one is the surest.
LEMMA Surest ==
  ASSUME edges \in Graph, NEW I \in SUBSET DOMAIN edges, I # {}
  PROVE  \E i \in I : \A j \in I \ {i} : L!Before(i, j)
<1>1. I \in SUBSET (1 .. Len(edges)) /\ IsFiniteSet(1 .. Len(edges))
  BY SureIsNumber, FS_Interval
<1>2. I \in SUBSET Nat /\ IsFiniteSet(I)
  BY <1>1, FS_Subset
<1>3. PICK score \in [I -> Int] : score = [i \in I |-> Sure[i]]
  BY SureIsNumber
<1>4. Cardinality(I) \in Nat /\ Cardinality(I) # 0
  BY <1>2, FS_CardinalityType, FS_EmptySet
<1>5. 1 \in 1 .. Cardinality(I)
  BY <1>4
<1>6. PICK i \in I : Rank(score, I, i) = 0
  <2>1. \E i \in I : Rank(score, I, i) = 1 - 1
    BY <1>2, <1>5, RanksAreUsed
  <2> QED
    BY <2>1
<1>7. {j \in I : Ahead(score, j, i)} = {}
  <2>1. {j \in I : Ahead(score, j, i)} \in SUBSET I
    OBVIOUS
  <2>2. IsFiniteSet({j \in I : Ahead(score, j, i)})
    BY <1>2, <2>1, FS_Subset
  <2> QED
    BY <1>6, <2>2, FS_EmptySet DEF Rank
<1>8. ASSUME NEW j \in I \ {i} PROVE L!Before(i, j)
  <2>1. ~Ahead(score, j, i) /\ i \in Int /\ j \in Int /\ score[i] \in Int /\ score[j] \in Int
    BY <1>2, <1>7
  <2>2. Ahead(score, i, j)
    BY <2>1 DEF Ahead
  <2>3. Ahead(Sure, i, j)
    BY <1>3, <2>2 DEF Ahead
  <2> QED
    BY <2>3, SureIsNumber
<1> QED
  BY <1>8

\* Paths of edges back from o: each edge leads where the one before came from,
\* and from a neuron none of those before it led to.
Chains(o) ==
  {p \in Seq(DOMAIN edges) :
     /\ p # <<>> => edges[p[1]].post = o
     /\ \A k \in 2 .. Len(p) : edges[p[k]].post = edges[p[k - 1]].pre
     /\ \A j, k \in 1 .. Len(p) : j < k => edges[p[k]].pre # edges[p[j]].post}

\* What an edge of a path leads to has been left.
LEMMA LeftHas ==
  ASSUME NEW p, NEW j \in DOMAIN p
  PROVE  edges[p[j]].post \in L!Left(p)
<1>1. p[j] \in L!Range(p)
  BY DEF L!Range
<1>2. PICK r : r = L!Range(p)
  OBVIOUS
<1>3. PICK m : m = p[j]
  OBVIOUS
<1>4. L!Left(p) = {edges[k].post : k \in r}
  BY <1>2 DEF L!Left
<1>5. m \in r
  BY <1>1, <1>2, <1>3
<1>6. edges[m].post \in {edges[k].post : k \in r}
  BY <1>5
<1> QED
  BY <1>3, <1>4, <1>6

\* reconstruct_path_to makes such paths, a step at a time.
LEMMA BackKeeps ==
  ASSUME edges \in Graph, NEW o \in Neurons, NEW p \in Chains(o)
  PROVE  L!Back(o, p) \in Chains(o)
<1> DEFINE at0 == IF p = <<>> THEN o ELSE edges[p[Len(p)]].pre
           into == {i \in DOMAIN edges : edges[i].post = at0 /\ edges[i].pre \notin L!Left(p)}
           surest == {i \in into : \A j \in into \ {i} : L!Before(i, j)}
<1>1. L!Back(o, p) = IF into = {} THEN p ELSE Append(p, CHOOSE i \in surest : TRUE)
  BY DEF L!Back
<1>2. CASE into = {}
  BY <1>1, <1>2
<1>3. CASE into # {}
  <2>1. PICK i \in DOMAIN edges : /\ i = (CHOOSE j \in surest : TRUE)
                                  /\ edges[i].post = at0 /\ edges[i].pre \notin L!Left(p)
    <3>1. into \in SUBSET DOMAIN edges
      OBVIOUS
    <3> HIDE DEF into
    <3>2. \E j \in into : \A k \in into \ {j} : L!Before(j, k)
      BY <1>3, <3>1, Surest
    <3>3. (CHOOSE j \in surest : TRUE) \in into
      BY <3>2
    <3> HIDE DEF surest
    <3> USE DEF into
    <3> QED
      BY <3>3
  <2> HIDE DEF into, surest
  <2>2. PICK c \in Nat : c = Len(p)
    BY DEF Chains
  <2>3. PICK q : q = Append(p, i)
    OBVIOUS
  <2>4. /\ p \in Seq(DOMAIN edges) /\ q \in Seq(DOMAIN edges) /\ Len(q) = c + 1
        /\ q[c + 1] = i /\ (\A k \in 1 .. c : q[k] = p[k]) /\ q # <<>>
    <3>1. p \in Seq(DOMAIN edges)
      BY DEF Chains
    <3> QED
      BY <2>2, <2>3, <3>1, AppendProperties
  <2>5. (p = <<>> <=> c = 0) /\ DOMAIN p = 1 .. c
    BY <2>2, <2>4
  <2>6. \A j \in 1 .. c : edges[i].pre # edges[p[j]].post
    <3> TAKE j \in 1 .. c
    <3>1. j \in DOMAIN p
      BY <2>5
    <3>2. edges[p[j]].post \in L!Left(p)
      BY <3>1, LeftHas
    <3> QED
      BY <2>1, <3>2
  <2>7. edges[q[1]].post = o
    <3>1. CASE c = 0
      <4>1. at0 = o
        BY <2>5, <3>1
      <4>2. c + 1 = 1
        BY <3>1
      <4>3. q[1] = i
        BY <2>4, <4>2
      <4> QED
        BY <2>1, <4>1, <4>3
    <3>2. CASE c # 0
      <4>1. q[1] = p[1]
        BY <2>4, <3>2
      <4> QED
        BY <2>5, <3>2, <4>1 DEF Chains
    <3> QED
      BY <3>1, <3>2
  <2>8. \A k \in 2 .. c + 1 : edges[q[k]].post = edges[q[k - 1]].pre
    <3> TAKE k \in 2 .. c + 1
    <3>1. CASE k = c + 1
      <4>1. p # <<>> /\ k - 1 = c /\ q[k - 1] = p[c]
        BY <2>4, <2>5, <3>1
      <4>2. at0 = edges[p[c]].pre
        BY <2>2, <4>1
      <4> QED
        BY <2>1, <2>4, <3>1, <4>1, <4>2
    <3>2. CASE k \in 2 .. c
      <4>1. q[k] = p[k] /\ q[k - 1] = p[k - 1]
        BY <2>4, <3>2
      <4> QED
        BY <2>2, <3>2, <4>1 DEF Chains
    <3> QED
      BY <3>1, <3>2
  <2>9. \A j, k \in 1 .. c + 1 : j < k => edges[q[k]].pre # edges[q[j]].post
    <3> SUFFICES ASSUME NEW j \in 1 .. c + 1, NEW k \in 1 .. c + 1, j < k
                 PROVE  edges[q[k]].pre # edges[q[j]].post
      OBVIOUS
    <3>1. j \in 1 .. c /\ q[j] = p[j]
      BY <2>4
    <3>2. CASE k = c + 1
      BY <2>4, <2>6, <3>1, <3>2
    <3>3. CASE k \in 1 .. c
      BY <2>2, <2>4, <3>1, <3>3 DEF Chains
    <3> QED
      BY <3>2, <3>3
  <2>10. q \in Chains(o)
    BY <2>4, <2>7, <2>8, <2>9 DEF Chains
  <2> QED
    BY <1>1, <1>3, <2>1, <2>3, <2>10
<1> QED
  BY <1>2, <1>3

\* Any number of steps back makes such a path.
LEMMA PathIsChain ==
  ASSUME edges \in Graph, NEW o \in Neurons, NEW n \in Nat
  PROVE  L!PathTo(o, n) \in Chains(o)
<1> DEFINE w == CHOOSE u : u = [k \in 0 .. n |-> IF k = 0 THEN <<>> ELSE L!Back(o, u[k - 1])]
           V == Chains(o)
<1>1. L!PathTo(o, n) = w[n]
  BY DEF L!PathTo
<1>2. <<>> \in V
  BY DEF Chains
<1>3. \A p \in V : L!Back(o, p) \in V
  BY BackKeeps
<1> HIDE DEF V
<1>4. PICK G \in [1 .. n -> [V -> V]] : \A k \in 1 .. n, p \in V : G[k][p] = L!Back(o, p)
  <2>1. [k \in 1 .. n |-> [p \in V |-> L!Back(o, p)]] \in [1 .. n -> [V -> V]]
    BY <1>3
  <2> QED
    BY <2>1
<1>5. PICK u : Iterate(u, n, V, <<>>, G)
  BY <1>2, Iterates
<1>6. u = [k \in 0 .. n |-> IF k = 0 THEN <<>> ELSE L!Back(o, u[k - 1])]
  <2>1. \A k \in 0 .. n : u[k] = IF k = 0 THEN <<>> ELSE L!Back(o, u[k - 1])
    <3> TAKE k \in 0 .. n
    <3>0. /\ u \in [0 .. n -> V] /\ u[0] = <<>>
          /\ \A j \in 1 .. n : u[j] = G[j][u[j - 1]]
      BY <1>5 DEF Iterate
    <3>1. CASE k = 0
      BY <3>0, <3>1
    <3>2. CASE k # 0
      <4>1. k \in 1 .. n /\ k - 1 \in 0 .. n
        BY <3>2
      <4>2. u[k - 1] \in V
        BY <3>0, <4>1
      <4> QED
        BY <1>4, <3>0, <3>2, <4>1, <4>2
    <3> QED
      BY <3>1, <3>2
  <2> QED
    BY <1>5, <2>1 DEF Iterate
<1>7. w = [k \in 0 .. n |-> IF k = 0 THEN <<>> ELSE L!Back(o, w[k - 1])]
  BY <1>6
<1> HIDE DEF w
<1>8. \A k \in 0 .. n : k \in {j \in Nat : j <= n => w[j] \in V}
  <2> DEFINE S == {j \in Nat : j <= n => w[j] \in V}
  <2>1. 0 \in S
    BY <1>2, <1>7
  <2>2. ASSUME NEW k \in 1 .. n, k - 1 \in S PROVE k \in S
    <3>1. w[k - 1] \in V
      BY <2>2
    <3>2. w[k] = L!Back(o, w[k - 1])
      BY <1>7
    <3> QED
      BY <1>3, <3>1, <3>2
  <2>3. S \in SUBSET Nat
    OBVIOUS
  <2> HIDE DEF S
  <2>4. \A k \in 0 .. n : k \in S
    BY <2>1, <2>2, <2>3, Upwards
  <2> USE DEF S
  <2> QED
    BY <2>4
<1> QED
  BY <1>1, <1>8 DEF V

\* Such a path takes no edge twice and, but for loops, comes to no neuron twice.
LEMMA ChainsDoNotCross ==
  ASSUME edges \in Graph, NEW o \in Neurons, NEW p \in Chains(o),
         NEW j \in 1 .. Len(p), NEW k \in 1 .. Len(p), j < k
  PROVE  /\ p[j] # p[k]
         /\ edges[p[k]].pre # edges[p[k]].post => edges[p[k]].pre # edges[p[j]].pre
<1>1. /\ \A i \in 2 .. Len(p) : edges[p[i]].post = edges[p[i - 1]].pre
      /\ \A i, l \in 1 .. Len(p) : i < l => edges[p[l]].pre # edges[p[i]].post
  BY DEF Chains
<1>2. PICK c \in Nat : c = Len(p)
  BY DEF Chains
<1>3. edges[p[j + 1]].post = edges[p[j]].pre /\ j + 1 \in 2 .. c /\ j + 1 \in 1 .. c
  <2>1. j + 1 \in 2 .. c /\ j + 1 \in 1 .. c /\ (j + 1) - 1 = j
    BY <1>2
  <2> QED
    BY <1>1, <1>2, <2>1
<1>4. p[j] # p[k]
  <2> SUFFICES ASSUME p[j] = p[k] PROVE FALSE
    OBVIOUS
  <2>1. edges[p[k]].post = edges[p[k - 1]].pre /\ k - 1 \in 1 .. c
    BY <1>1, <1>2
  <2>2. CASE k - 1 = j
    BY <1>1, <2>1, <2>2
  <2>3. CASE j < k - 1
    BY <1>1, <1>2, <2>1, <2>3
  <2> QED
    BY <1>2, <2>2, <2>3
<1>5. edges[p[k]].pre # edges[p[k]].post => edges[p[k]].pre # edges[p[j]].pre
  <2>1. CASE j + 1 = k
    BY <1>3, <2>1
  <2>2. CASE j + 1 < k
    BY <1>1, <1>2, <1>3, <2>2
  <2> QED
    BY <1>2, <2>1, <2>2
<1> QED
  BY <1>4, <1>5

\* The reconstructed paths are chains.
LEMMA PathsHold ==
  ASSUME edges \in Graph
  PROVE  L!PathsAreChains
<1> SUFFICES ASSUME NEW o \in Neurons, NEW p, p = L!PathTo(o, L!Cardinality(Neurons) + 2),
                    p # <<>>,
                    NEW steps, steps = {i \in L!Range(p) : edges[i].pre # edges[i].post}
             PROVE  /\ edges[p[1]].post = o
                    /\ \A k \in 2 .. Len(p) : edges[p[k]].post = edges[p[k - 1]].pre
                    /\ L!IsInjective(p)
                    /\ L!Cardinality({o} \cup {edges[i].pre : i \in steps})
                         = L!Cardinality(steps) + 1
  BY DEF L!PathsAreChains
<1>1. p \in Chains(o)
  <2>1. Cardinality(Neurons) \in Nat
    BY RecordSizes, FS_CardinalityType
  <2>2. PICK n \in Nat : n = L!Cardinality(Neurons) + 2
    BY <2>1, LSize
  <2> QED
    BY <2>2, PathIsChain
<1>2. PICK c \in Nat : c = Len(p) /\ DOMAIN p = 1 .. c /\ c >= 1
  <2>1. p \in Seq(DOMAIN edges)
    BY <1>1 DEF Chains
  <2> QED
    BY <2>1
<1>3. /\ edges[p[1]].post = o
      /\ \A k \in 2 .. c : edges[p[k]].post = edges[p[k - 1]].pre
      /\ \A j, k \in 1 .. c : j < k => edges[p[k]].pre # edges[p[j]].post
  BY <1>1, <1>2 DEF Chains
<1>4. \A j, k \in 1 .. c : j < k =>
        /\ p[j] # p[k]
        /\ edges[p[k]].pre # edges[p[k]].post => edges[p[k]].pre # edges[p[j]].pre
  BY <1>1, <1>2, ChainsDoNotCross
<1>5. L!IsInjective(p)
  <2>1. \A j, k \in 1 .. c : p[j] = p[k] => j = k
    <3> TAKE j \in 1 .. c, k \in 1 .. c
    <3>1. j < k \/ k < j \/ j = k
      OBVIOUS
    <3> QED
      BY <1>4, <3>1
  <2> QED
    BY <1>2, <2>1 DEF L!IsInjective
<1>6. steps = {i \in {p[k] : k \in 1 .. c} : edges[i].pre # edges[i].post}
  BY <1>2 DEF L!Range
<1>7. IsFiniteSet(steps)
  <2>1. steps \in SUBSET (1 .. Len(edges))
    <3>1. \A k \in 1 .. c : p[k] \in DOMAIN edges
      BY <1>1, <1>2 DEF Chains
    <3> QED
      BY <1>6, <3>1, SureIsNumber
  <2>2. IsFiniteSet(1 .. Len(edges))
    BY SureIsNumber, FS_Interval
  <2> QED
    BY <2>1, <2>2, FS_Subset
<1> DEFINE from == {edges[i].pre : i \in steps}
<1>8. PICK f : f = [i \in steps |-> edges[i].pre]
  OBVIOUS
<1>9. f \in Bijection(steps, from)
  <2>1. \A i, l \in steps : f[i] = f[l] => i = l
    <3> SUFFICES ASSUME NEW i \in steps, NEW l \in steps, edges[i].pre = edges[l].pre
                 PROVE  i = l
      BY <1>8
    <3>1. PICK j \in 1 .. c, k \in 1 .. c : i = p[j] /\ l = p[k]
      BY <1>6
    <3>2. edges[i].pre # edges[i].post /\ edges[l].pre # edges[l].post
      BY <1>6
    <3>3. j < k \/ k < j \/ j = k
      OBVIOUS
    <3> QED
      BY <1>4, <3>1, <3>2, <3>3
  <2>2. f \in [steps -> from]
    BY <1>8
  <2>3. \A a \in from : \E i \in steps : f[i] = a
    BY <1>8
  <2> HIDE DEF from
  <2> QED
    BY <2>1, <2>2, <2>3 DEF Bijection, Injection, Surjection, IsInjective
<1>10. IsFiniteSet(from) /\ Cardinality(from) = Cardinality(steps)
  <2>1. ExistsBijection(steps, from)
    <3> HIDE DEF from
    <3> QED
      BY <1>9 DEF ExistsBijection
  <2> HIDE DEF from
  <2> QED
    BY <1>7, <2>1, FS_Bijection
<1>11. o \notin from
  <2> SUFFICES ASSUME NEW i \in steps, edges[i].pre = o PROVE FALSE
    OBVIOUS
  <2>1. PICK k \in 1 .. c : i = p[k]
    BY <1>6
  <2>2. edges[i].pre # edges[i].post
    BY <1>6
  <2>3. CASE k = 1
    BY <1>3, <2>1, <2>2, <2>3
  <2>4. CASE 1 < k
    BY <1>2, <1>3, <2>1, <2>4
  <2> QED
    BY <2>3, <2>4
<1>12. Cardinality({o} \cup from) = Cardinality(steps) + 1
  <2> HIDE DEF from
  <2>1. Cardinality(from \cup {o}) = Cardinality(from) + 1
    BY <1>10, <1>11, FS_AddElement
  <2>2. from \cup {o} = {o} \cup from
    OBVIOUS
  <2> QED
    BY <1>10, <2>1, <2>2
<1>13. L!Cardinality({o} \cup from) = L!Cardinality(steps) + 1
  <2> HIDE DEF from
  <2> QED
    BY <1>12, LSize
<1> QED
  BY <1>2, <1>3, <1>5, <1>13

\* The ranking of the first edges as the explanation keeps it: at most three,
\* the surest first, and each of the others is in it or behind all three.
Tops(k) ==
  {t \in Seq(DOMAIN edges) :
     /\ Len(t) = IF k < 3 THEN k ELSE 3
     /\ \A a \in 1 .. Len(t) : t[a] <= k
     /\ \A a, b \in 1 .. Len(t) : a < b => Ahead(Sure, t[a], t[b])
     /\ \A i \in 1 .. k : \/ \E a \in 1 .. Len(t) : t[a] = i
                          \/ Len(t) = 3 /\ \A a \in 1 .. 3 : Ahead(Sure, t[a], i)}

\* A sequence with one more at place r.
Spliced(t, i, r) == SubSeq(t, 1, r - 1) \o <<i>> \o SubSeq(t, r, Len(t))
Inserted(q, V, t, i, r) ==
  /\ q \in Seq(V) /\ Len(q) = Len(t) + 1
  /\ \A a \in 1 .. Len(t) + 1 :
       q[a] = IF a < r THEN t[a] ELSE IF a = r THEN i ELSE t[a - 1]
\* Splicing in inserts.
LEMMA Insertion ==
  ASSUME NEW V, NEW t \in Seq(V), NEW i \in V, NEW r \in 1 .. Len(t) + 1
  PROVE  Inserted(Spliced(t, i, r), V, t, i, r)
<1>0. PICK c \in Nat : c = Len(t)
  OBVIOUS
<1>00. r \in 1 .. c + 1 /\ t \in Seq(V)
  BY <1>0
<1>1. PICK e \in Nat : e = r - 1 /\ r = e + 1 /\ e <= c
  BY <1>00
<1>2. PICK d \in Nat : d = c - e /\ c = e + d /\ d = c + 1 - r
  BY <1>1
<1>3. PICK lo, mid, hi : lo = SubSeq(t, 1, r - 1) /\ mid = <<i>> /\ hi = SubSeq(t, r, c)
  OBVIOUS
<1>4. \A a \in 1 .. c : t[a] \in V
  BY <1>0
<1>5. /\ lo \in Seq(V) /\ Len(lo) = e
      /\ \A a \in 1 .. e : lo[a] = t[a]
  <2>1. \A a \in 1 .. e : t[a] \in V
    BY <1>1, <1>4
  <2>2. PICK k \in Int : k = 1
    OBVIOUS
  <2>3. PICK s : s = SubSeq(t, k, e)
    OBVIOUS
  <2>4. /\ s \in Seq(V) /\ Len(s) = IF k <= e THEN e - k + 1 ELSE 0
        /\ \A a \in 1 .. e - k + 1 : s[a] = t[k + a - 1]
    BY <2>1, <2>2, <2>3, SubSeqProperties
  <2>5. s = lo
    BY <1>1, <1>3, <2>2, <2>3
  <2>6. Len(s) = e /\ \A a \in 1 .. e : s[a] = t[a]
    BY <1>1, <2>2, <2>4
  <2> QED
    BY <2>4, <2>5, <2>6
<1>6. /\ hi \in Seq(V) /\ Len(hi) = d
      /\ \A a \in 1 .. d : hi[a] = t[e + a]
  <2>1. \A a \in r .. c : t[a] \in V
    BY <1>4
  <2>2. /\ hi \in Seq(V) /\ Len(hi) = IF r <= c THEN c - r + 1 ELSE 0
        /\ \A a \in 1 .. c - r + 1 : hi[a] = t[r + a - 1]
    BY <1>3, <2>1, SubSeqProperties
  <2>3. c - r + 1 = d /\ \A a \in 1 .. d : r + a - 1 = e + a
    BY <1>1, <1>2
  <2> QED
    BY <1>1, <1>2, <2>2, <2>3
<1>7. mid \in Seq(V) /\ Len(mid) = 1 /\ mid[1] = i
  BY <1>3
<1>8. PICK lo2 : lo2 = lo \o mid
  OBVIOUS
<1>9. /\ lo2 \in Seq(V) /\ Len(lo2) = e + 1
      /\ \A a \in 1 .. e + 1 : lo2[a] = IF a <= e THEN lo[a] ELSE mid[a - e]
  <2>1. lo \in Seq(V) /\ mid \in Seq(V)
    BY <1>5, <1>7
  <2>2. /\ lo2 \in Seq(V) /\ Len(lo2) = Len(lo) + Len(mid)
        /\ \A a \in 1 .. Len(lo) + Len(mid) :
             lo2[a] = IF a <= Len(lo) THEN lo[a] ELSE mid[a - Len(lo)]
    BY <1>8, <2>1, ConcatProperties
  <2> QED
    BY <1>5, <1>7, <2>2
<1>10. PICK q : q = lo2 \o hi
  OBVIOUS
<1>11. /\ q \in Seq(V) /\ Len(q) = e + 1 + d
       /\ \A a \in 1 .. e + 1 + d : q[a] = IF a <= e + 1 THEN lo2[a] ELSE hi[a - (e + 1)]
  <2>1. lo2 \in Seq(V) /\ hi \in Seq(V)
    BY <1>6, <1>9
  <2>2. /\ q \in Seq(V) /\ Len(q) = Len(lo2) + Len(hi)
        /\ \A a \in 1 .. Len(lo2) + Len(hi) :
             q[a] = IF a <= Len(lo2) THEN lo2[a] ELSE hi[a - Len(lo2)]
    BY <1>10, <2>1, ConcatProperties
  <2> QED
    BY <1>6, <1>9, <2>2
<1>12. q = Spliced(t, i, r)
  <2>1. Len(t) = c
    BY <1>0
  <2>2. Spliced(t, i, r) = SubSeq(t, 1, r - 1) \o <<i>> \o SubSeq(t, r, c)
    BY ZenonT(20), <2>1 DEF Spliced
  <2> QED
    BY ZenonT(20), <1>3, <1>8, <1>10, <2>2
<1>13. ASSUME NEW a \in 1 .. c + 1
       PROVE  q[a] = IF a < r THEN t[a] ELSE IF a = r THEN i ELSE t[a - 1]
  <2>1. CASE a < r
    BY <1>1, <1>2, <1>5, <1>9, <1>11, <2>1
  <2>2. CASE a = r
    <3>1. a = e + 1 /\ a - e = 1 /\ a \in 1 .. e + 1 /\ ~(a <= e)
      BY <1>1, <2>2
    <3> QED
      BY <1>2, <1>7, <1>9, <1>11, <2>2, <3>1
  <2>3. CASE a > r
    <3>1. PICK b \in 1 .. d : b = a - (e + 1) /\ a - 1 = e + b
      BY <1>1, <1>2, <2>3
    <3>2. ~(a <= e + 1) /\ a \in 1 .. e + 1 + d /\ ~(a < r) /\ a # r
      BY <1>1, <1>2, <2>3
    <3> QED
      BY <1>6, <1>11, <3>1, <3>2
  <2> QED
    BY <2>1, <2>2, <2>3
<1>14. Spliced(t, i, r) \in Seq(V) /\ Len(Spliced(t, i, r)) = c + 1
  BY <1>1, <1>2, <1>11, <1>12
<1> QED
  BY <1>0, <1>12, <1>13, <1>14 DEF Inserted

\* q is t with i in front of the first less sure one, cut to three.
InsertedAt(q, t, i) ==
  \E r \in 1 .. Len(t) + 1 :
    /\ \A a \in 1 .. r - 1 : ~(Sure[i] > Sure[t[a]])
    /\ r <= Len(t) => Sure[i] > Sure[t[r]]
    /\ q \in Seq(DOMAIN edges) /\ Len(q) = IF Len(t) < 3 THEN Len(t) + 1 ELSE 3
    /\ \A a \in 1 .. Len(q) :
         q[a] = IF a < r THEN t[a] ELSE IF a = r THEN i ELSE t[a - 1]
\* The explanation inserts each edge in front of the first less sure one.
LEMMA RankedPlaces ==
  ASSUME edges \in Graph, NEW t \in Seq(DOMAIN edges), NEW i \in DOMAIN edges
  PROVE  InsertedAt(L!Ranked(t, i), t, i)
<1>a. PICK c \in Nat : c = Len(t)
  OBVIOUS
<1>b. PICK q : q = L!Ranked(t, i)
  OBVIOUS
<1> DEFINE later == {a \in 1 .. c : Sure[i] > Sure[t[a]]}
<1>0. \A a \in 1 .. c : t[a] \in DOMAIN edges
  BY <1>a
<1>1. PICK r \in 1 .. c + 1 : /\ r = L!Min(later \cup {c + 1})
                              /\ \A a \in 1 .. r - 1 : ~(Sure[i] > Sure[t[a]])
                              /\ r <= c => Sure[i] > Sure[t[r]]
  <2>1. /\ later \cup {c + 1} \in SUBSET Nat /\ later \cup {c + 1} # {}
        /\ later \cup {c + 1} \in SUBSET (1 .. c + 1)
    OBVIOUS
  <2>2. PICK r : r = L!Min(later \cup {c + 1})
    OBVIOUS
  <2>3. r \in later \cup {c + 1} /\ \A a \in later \cup {c + 1} : r <= a
    <3> HIDE DEF later
    <3> QED
      BY <2>1, <2>2, LeastIsIn
  <2>4. r \in 1 .. c + 1
    BY <2>1, <2>3
  <2>5. \A a \in 1 .. r - 1 : ~(Sure[i] > Sure[t[a]])
    <3> SUFFICES ASSUME NEW a \in 1 .. r - 1, Sure[i] > Sure[t[a]] PROVE FALSE
      OBVIOUS
    <3>1. a \in later
      BY <2>4
    <3>2. r <= a
      BY <2>3, <3>1
    <3> QED
      BY <2>4, <3>2
  <2>6. r <= c => Sure[i] > Sure[t[r]]
    BY <2>3, <2>4
  <2> QED
    BY <2>2, <2>4, <2>5, <2>6
<1>2. PICK all : all = Spliced(t, i, r)
  OBVIOUS
<1>3. /\ all \in Seq(DOMAIN edges) /\ Len(all) = c + 1
      /\ \A a \in 1 .. c + 1 :
           all[a] = IF a < r THEN t[a] ELSE IF a = r THEN i ELSE t[a - 1]
  <2>1. PICK V : V = DOMAIN edges
    OBVIOUS
  <2>2. t \in Seq(V) /\ i \in V /\ r \in 1 .. Len(t) + 1
    BY <1>a, <2>1
  <2>3. Inserted(all, V, t, i, r)
    BY <1>2, <2>2, Insertion
  <2>4. Len(t) = c
    BY <1>a
  <2> QED
    BY <2>1, <2>3, <2>4 DEF Inserted
<1>4. PICK m \in Nat : m = L!Min({3, c + 1}) /\ m = IF c < 3 THEN c + 1 ELSE 3
  <2>1. PICK a \in Int, b \in Int : a = 3 /\ b = c + 1
    OBVIOUS
  <2>2. L!Min({a, b}) = IF a <= b THEN a ELSE b
    BY LesserOfTwo
  <2>3. PICK m \in Nat : m = IF c < 3 THEN c + 1 ELSE 3
    OBVIOUS
  <2>4. m = IF a <= b THEN a ELSE b
    BY <2>1, <2>3
  <2> QED
    BY <2>1, <2>2, <2>3, <2>4
<1>5. q = SubSeq(all, 1, m)
  <2>1. later = {a \in 1 .. Len(t) : L!Confidence(edges[i]) > L!Confidence(edges[t[a]])}
    BY <1>a, <1>0 DEF Sure
  <2> HIDE DEF later
  <2>2. Len(all) = c + 1
    BY <1>3
  <2> QED
    BY <1>a, <1>b, <1>1, <1>2, <1>4, <2>1, <2>2 DEF L!Ranked, Spliced
<1>6. /\ q \in Seq(DOMAIN edges) /\ Len(q) = m
      /\ \A a \in 1 .. m : q[a] = all[a]
  <2>1. PICK e \in Nat : e = c + 1 /\ m <= e
    BY <1>4
  <2>2. PICK f \in Seq(DOMAIN edges) : f = all /\ Len(f) = e
    BY <1>3, <2>1
  <2>3. /\ SubSeq(f, 1, m) \in Seq(DOMAIN edges) /\ Len(SubSeq(f, 1, m)) = m
        /\ \A a \in 1 .. m : SubSeq(f, 1, m)[a] = f[a]
    BY <2>1, <2>2
  <2> QED
    BY <1>5, <2>2, <2>3
<1>7. \A a \in 1 .. Len(q) :
        q[a] = IF a < r THEN t[a] ELSE IF a = r THEN i ELSE t[a - 1]
  <2>1. m <= c + 1
    BY <1>4
  <2> TAKE a \in 1 .. Len(q)
  <2>2. a \in 1 .. m /\ a \in 1 .. c + 1
    BY <1>4, <1>6, <2>1
  <2>3. q[a] = all[a]
    BY <1>6, <2>2
  <2> QED
    BY <1>3, <2>2, <2>3
<1>8. Len(q) = IF c < 3 THEN c + 1 ELSE 3
  BY <1>4, <1>6
<1>9. q \in Seq(DOMAIN edges)
  BY <1>6
<1> HIDE DEF later
<1> QED
  BY <1>a, <1>b, <1>1, <1>7, <1>8, <1>9 DEF InsertedAt

\* Of two edges one is ahead, and being ahead is an order.
LEMMA AheadOrders ==
  ASSUME edges \in Graph
  PROVE  /\ \A i, j \in DOMAIN edges : i # j => Ahead(Sure, i, j) \/ Ahead(Sure, j, i)
         /\ \A i, j \in DOMAIN edges : Ahead(Sure, i, j) => ~Ahead(Sure, j, i)
         /\ \A i, j, k \in DOMAIN edges :
              Ahead(Sure, i, j) /\ Ahead(Sure, j, k) => Ahead(Sure, i, k)
<1>1. \A i \in DOMAIN edges : i \in Int /\ Sure[i] \in Int
  BY SureIsNumber
<1>2. \A i, j \in DOMAIN edges : i # j => Ahead(Sure, i, j) \/ Ahead(Sure, j, i)
  BY <1>1 DEF Ahead
<1>3. \A i, j \in DOMAIN edges : Ahead(Sure, i, j) => ~Ahead(Sure, j, i)
  BY <1>1 DEF Ahead
<1>4. \A i, j, k \in DOMAIN edges :
        Ahead(Sure, i, j) /\ Ahead(Sure, j, k) => Ahead(Sure, i, k)
  BY <1>1 DEF Ahead
<1> QED
  BY <1>2, <1>3, <1>4

\* The next edge, inserted, leaves the ranking of the edges up to it.
LEMMA RankedKeeps ==
  ASSUME edges \in Graph, NEW i \in DOMAIN edges, NEW t \in Tops(i - 1)
  PROVE  L!Ranked(t, i) \in Tops(i)
<1>1. PICK q : q = L!Ranked(t, i)
  OBVIOUS
<1>2. /\ t \in Seq(DOMAIN edges) /\ Len(t) \in Nat
      /\ Len(t) = IF i - 1 < 3 THEN i - 1 ELSE 3
      /\ \A a \in 1 .. Len(t) : t[a] <= i - 1
      /\ \A a, b \in 1 .. Len(t) : a < b => Ahead(Sure, t[a], t[b])
      /\ \A l \in 1 .. i - 1 : \/ \E a \in 1 .. Len(t) : t[a] = l
                               \/ Len(t) = 3 /\ \A a \in 1 .. 3 : Ahead(Sure, t[a], l)
  BY DEF Tops
<1>3. PICK n \in Nat : n = i /\ n >= 1 /\ DOMAIN edges = 1 .. Len(edges) /\ n <= Len(edges)
                       /\ Len(edges) \in Nat
  BY SureIsNumber
<1>4. PICK c \in Nat : c = Len(t) /\ c = IF n - 1 < 3 THEN n - 1 ELSE 3
  BY <1>2, <1>3
<1>5. PICK r \in 1 .. c + 1 :
        /\ \A a \in 1 .. r - 1 : ~(Sure[i] > Sure[t[a]])
        /\ r <= c => Sure[i] > Sure[t[r]]
        /\ q \in Seq(DOMAIN edges) /\ Len(q) = IF c < 3 THEN c + 1 ELSE 3
        /\ \A a \in 1 .. Len(q) :
             q[a] = IF a < r THEN t[a] ELSE IF a = r THEN i ELSE t[a - 1]
  <2>1. InsertedAt(q, t, i)
    BY <1>1, <1>2, RankedPlaces
  <2> QED
    BY <1>4, <2>1 DEF InsertedAt
<1>6. PICK m \in Nat : m = Len(q) /\ m = IF c < 3 THEN c + 1 ELSE 3
  BY <1>4, <1>5
<1>7. \A a \in 1 .. c : /\ t[a] \in DOMAIN edges /\ t[a] < n /\ t[a] \in Int
                        /\ Sure[t[a]] \in Int
  <2> TAKE a \in 1 .. c
  <2>1. t[a] \in DOMAIN edges /\ t[a] <= n - 1
    <3>1. t \in Seq(DOMAIN edges) /\ a \in 1 .. Len(t)
      BY <1>2, <1>4
    <3>2. t[a] \in DOMAIN edges
      BY <3>1
    <3>3. t[a] <= i - 1
      BY <1>2, <3>1
    <3> QED
      BY <1>3, <3>2, <3>3
  <2>2. t[a] \in Int
    BY <1>3, <2>1
  <2> QED
    BY <1>3, <2>1, <2>2, SureIsNumber
<1>8. Sure[i] \in Int
  BY SureIsNumber
<1>9. \A a, b \in 1 .. c : a < b => Ahead(Sure, t[a], t[b])
  BY <1>2, <1>4
\* Before place r are those ahead of the edge, from there on those behind it.
<1>10. \A a \in 1 .. c : IF a < r THEN Ahead(Sure, t[a], i) ELSE Ahead(Sure, i, t[a])
  <2> TAKE a \in 1 .. c
  <2>1. CASE a < r
    <3>1. ~(Sure[i] > Sure[t[a]])
      BY <1>5, <2>1
    <3>2. Sure[t[a]] >= Sure[i] /\ t[a] < i
      BY <1>3, <1>7, <1>8, <3>1
    <3> QED
      BY <1>7, <1>8, <2>1, <3>2 DEF Ahead
  <2>2. CASE ~(a < r)
    <3>1. r \in 1 .. c /\ Sure[i] > Sure[t[r]]
      BY <1>5, <2>2
    <3>2. a = r \/ Ahead(Sure, t[r], t[a])
      BY <1>9, <2>2, <3>1
    <3>3. Sure[t[r]] >= Sure[t[a]]
      BY <1>7, <3>1, <3>2 DEF Ahead
    <3>4. Sure[i] > Sure[t[a]]
      BY <1>7, <1>8, <3>1, <3>3
    <3> QED
      BY <2>2, <3>4 DEF Ahead
  <2> QED
    BY <2>1, <2>2
<1>11. \A a \in 1 .. m : q[a] = IF a < r THEN t[a] ELSE IF a = r THEN i ELSE t[a - 1]
  BY <1>5, <1>6
<1>12. m <= c + 1 /\ m >= c
  BY <1>4, <1>6
<1>13. \A a \in 1 .. m : q[a] <= i
  <2> TAKE a \in 1 .. m
  <2>1. CASE a < r
    BY <1>3, <1>7, <1>11, <2>1
  <2>2. CASE a = r
    BY <1>3, <1>11, <2>2
  <2>3. CASE a > r
    <3>1. a - 1 \in 1 .. c
      BY <1>12, <2>3
    <3> QED
      BY <1>3, <1>7, <1>11, <2>3, <3>1
  <2> QED
    BY <2>1, <2>2, <2>3
<1>14. \A a, b \in 1 .. m : a < b => Ahead(Sure, q[a], q[b])
  <2> SUFFICES ASSUME NEW a \in 1 .. m, NEW b \in 1 .. m, a < b
               PROVE  Ahead(Sure, q[a], q[b])
    OBVIOUS
  <2>1. CASE b < r
    BY <1>9, <1>11, <2>1
  <2>2. CASE b = r
    BY <1>10, <1>11, <2>2
  <2>3. CASE b > r
    <3>1. b - 1 \in 1 .. c /\ q[b] = t[b - 1] /\ ~(b - 1 < r)
      BY <1>11, <1>12, <2>3
    <3>2. CASE a < r
      <4>1. a \in 1 .. c /\ a < b - 1 /\ q[a] = t[a]
        BY <1>11, <2>3, <3>2
      <4> QED
        BY <1>9, <3>1, <4>1
    <3>3. CASE a = r
      BY <1>10, <1>11, <3>1, <3>3
    <3>4. CASE a > r
      <4>1. a - 1 \in 1 .. c /\ a - 1 < b - 1 /\ q[a] = t[a - 1]
        BY <1>11, <1>12, <3>4
      <4> QED
        BY <1>9, <3>1, <4>1
    <3> QED
      BY <3>2, <3>3, <3>4
  <2> QED
    BY <2>1, <2>2, <2>3
<1>15. \A l \in 1 .. n : \/ \E a \in 1 .. m : q[a] = l
                         \/ m = 3 /\ \A a \in 1 .. 3 : Ahead(Sure, q[a], l)
  <2> SUFFICES ASSUME NEW l \in 1 .. n, \A a \in 1 .. m : q[a] # l
               PROVE  m = 3 /\ \A a \in 1 .. 3 : Ahead(Sure, q[a], l)
    OBVIOUS
  <2>0. l \in DOMAIN edges
    BY <1>3
  <2>1. CASE l = i
    <3>1. r > m
      BY <1>5, <1>11, <2>1
    <3>2. m = 3 /\ c = 3
      BY <1>4, <1>6, <3>1
    <3> QED
      BY <1>10, <1>11, <2>1, <3>1, <3>2
  <2>2. CASE \E a \in 1 .. c : t[a] = l
    <3>1. PICK d \in 1 .. c : t[d] = l
      BY <2>2
    <3>2. ~(d < r)
      <4> SUFFICES ASSUME d < r PROVE FALSE
        OBVIOUS
      <4>1. d \in 1 .. m /\ q[d] = t[d]
        BY <1>11, <1>12
      <4> QED
        BY <3>1, <4>1
    <3>3. d + 1 > m
      <4> SUFFICES ASSUME d + 1 <= m PROVE FALSE
        OBVIOUS
      <4>1. d + 1 \in 1 .. m /\ ~(d + 1 < r) /\ d + 1 # r /\ (d + 1) - 1 = d
        BY <3>2
      <4>2. q[d + 1] = t[d]
        BY <1>11, <4>1
      <4> QED
        BY <3>1, <4>1, <4>2
    <3>4. m = 3 /\ c = 3 /\ d = 3
      BY <1>4, <1>6, <3>3
    <3> SUFFICES ASSUME NEW a \in 1 .. 3 PROVE Ahead(Sure, q[a], l)
      BY <3>4
    <3>5. CASE a < r
      <4>1. q[a] = t[a] /\ a < 3
        BY <1>11, <3>2, <3>4, <3>5
      <4> QED
        BY <1>9, <3>1, <3>4, <4>1
    <3>6. CASE a = r
      BY <1>10, <1>11, <3>1, <3>2, <3>4, <3>6
    <3>7. CASE a > r
      <4>1. q[a] = t[a - 1] /\ a - 1 \in 1 .. 3 /\ a - 1 < 3
        BY <1>11, <3>4, <3>7
      <4> QED
        BY <1>9, <3>1, <3>4, <4>1
    <3> QED
      BY <3>5, <3>6, <3>7
  <2>3. CASE l # i /\ ~(\E a \in 1 .. c : t[a] = l)
    <3>1. c = 3 /\ \A a \in 1 .. 3 : Ahead(Sure, t[a], l)
      <4>1. l \in 1 .. i - 1
        BY <1>3, <2>3
      <4> QED
        BY <1>2, <1>4, <2>3, <4>1
    <3>2. m = 3
      BY <1>6, <3>1
    <3> SUFFICES ASSUME NEW a \in 1 .. 3 PROVE Ahead(Sure, q[a], l)
      BY <3>2
    <3>3. CASE a < r
      BY <1>11, <3>1, <3>2, <3>3
    <3>4. CASE a = r
      <4>1. q[a] = i /\ Ahead(Sure, i, t[a]) /\ Ahead(Sure, t[a], l)
        BY <1>10, <1>11, <3>1, <3>2, <3>4
      <4>2. t[a] \in DOMAIN edges
        BY <1>7, <3>1
      <4> QED
        BY <2>0, <4>1, <4>2, AheadOrders
    <3>5. CASE a > r
      <4>1. q[a] = t[a - 1] /\ a - 1 \in 1 .. 3
        BY <1>11, <3>2, <3>5
      <4> QED
        BY <3>1, <4>1
    <3> QED
      BY <3>3, <3>4, <3>5
  <2> QED
    BY <2>1, <2>2, <2>3
<1>16. m = IF i < 3 THEN i ELSE 3
  BY <1>3, <1>4, <1>6
<1>17. q \in Seq(DOMAIN edges)
  BY <1>5
<1> QED
  BY <1>1, <1>3, <1>6, <1>13, <1>14, <1>15, <1>16, <1>17 DEF Tops

\* The explanation's ranking is that of all edges.
LEMMA TopThreeIsTop ==
  ASSUME edges \in Graph
  PROVE  L!TopThree \in Tops(Len(edges))
<1> DEFINE n == Len(edges)
           w == CHOOSE u : u = [k \in 0 .. n |-> IF k = 0 THEN <<>> ELSE L!Ranked(u[k - 1], k)]
           V == Seq(DOMAIN edges)
<1>1. L!TopThree = w[n]
  BY DEF L!TopThree
<1>2. n \in Nat /\ DOMAIN edges = 1 .. n
  BY SureIsNumber
<1>3. \A k \in 1 .. n, p \in V : L!Ranked(p, k) \in V
  <2> TAKE k \in 1 .. n, p \in V
  <2>1. InsertedAt(L!Ranked(p, k), p, k)
    BY <1>2, RankedPlaces
  <2> QED
    BY <2>1 DEF InsertedAt
<1>a. <<>> \in V
  OBVIOUS
<1> HIDE DEF V, n
<1>4. PICK G \in [1 .. n -> [V -> V]] : \A k \in 1 .. n, p \in V : G[k][p] = L!Ranked(p, k)
  <2>1. [k \in 1 .. n |-> [p \in V |-> L!Ranked(p, k)]] \in [1 .. n -> [V -> V]]
    BY <1>3
  <2> QED
    BY <2>1
<1>5. PICK u : Iterate(u, n, V, <<>>, G)
  BY <1>a, <1>2, Iterates
<1>6. u = [k \in 0 .. n |-> IF k = 0 THEN <<>> ELSE L!Ranked(u[k - 1], k)]
  <2>1. \A k \in 0 .. n : u[k] = IF k = 0 THEN <<>> ELSE L!Ranked(u[k - 1], k)
    <3> TAKE k \in 0 .. n
    <3>0. /\ u \in [0 .. n -> V] /\ u[0] = <<>>
          /\ \A j \in 1 .. n : u[j] = G[j][u[j - 1]]
      BY <1>5 DEF Iterate
    <3>1. CASE k = 0
      BY <3>0, <3>1
    <3>2. CASE k # 0
      <4>1. k \in 1 .. n /\ k - 1 \in 0 .. n
        BY <1>2, <3>2
      <4>2. u[k - 1] \in V
        BY <3>0, <4>1
      <4> QED
        BY <1>4, <3>0, <3>2, <4>1, <4>2
    <3> QED
      BY <3>1, <3>2
  <2> QED
    BY <1>5, <2>1 DEF Iterate
<1>7. w = [k \in 0 .. n |-> IF k = 0 THEN <<>> ELSE L!Ranked(w[k - 1], k)]
  BY <1>6
<1> HIDE DEF w
<1>8. \A k \in 0 .. n : k \in {j \in Nat : j <= n => w[j] \in Tops(j)}
  <2> DEFINE S == {j \in Nat : j <= n => w[j] \in Tops(j)}
  <2>1. 0 \in S
    <3>1. <<>> \in Tops(0)
      BY DEF Tops
    <3>2. w[0] = <<>>
      BY <1>2, <1>7
    <3> QED
      BY <3>1, <3>2
  <2>2. ASSUME NEW k \in 1 .. n, k - 1 \in S PROVE k \in S
    <3>1. w[k - 1] \in Tops(k - 1)
      BY <1>2, <2>2
    <3>2. w[k] = L!Ranked(w[k - 1], k)
      BY <1>2, <1>7
    <3>3. k \in DOMAIN edges
      BY <1>2
    <3>4. L!Ranked(w[k - 1], k) \in Tops(k)
      BY <3>1, <3>3, RankedKeeps
    <3> QED
      BY <1>2, <3>2, <3>4
  <2>3. S \in SUBSET Nat
    OBVIOUS
  <2> HIDE DEF S
  <2>4. \A k \in 0 .. n : k \in S
    BY <1>2, <2>1, <2>2, <2>3, Upwards
  <2> USE DEF S
  <2> QED
    BY <2>4
<1>9. w[n] \in Tops(n)
  BY <1>2, <1>8
<1> QED
  BY <1>1, <1>9 DEF n

\* Both rankings name the same edges.
LEMMA RankingsHold ==
  ASSUME edges \in Graph
  PROVE  L!RankingsAgree
<1>1. PICK n \in Nat : n = Len(edges) /\ DOMAIN edges = 1 .. n
  BY SureIsNumber
<1>2. PICK q : q = L!TopThree
  OBVIOUS
<1>3. PICK m \in Nat : m = IF n < 3 THEN n ELSE 3
  OBVIOUS
<1>4. /\ q \in Seq(DOMAIN edges) /\ Len(q) = m
      /\ \A a, b \in 1 .. m : a < b => Ahead(Sure, q[a], q[b])
      /\ \A i \in 1 .. n : \/ \E a \in 1 .. m : q[a] = i
                           \/ m = 3 /\ \A a \in 1 .. 3 : Ahead(Sure, q[a], i)
  <2>1. q \in Tops(n)
    BY <1>1, <1>2, TopThreeIsTop
  <2> QED
    BY <1>3, <2>1 DEF Tops
<1>5. \A a \in 1 .. m : q[a] \in DOMAIN edges
  BY <1>4
<1>6. ASSUME NEW k \in 1 .. m PROVE Rank(Sure, DOMAIN edges, q[k]) = k - 1
  <2> DEFINE A == {j \in DOMAIN edges : Ahead(Sure, j, q[k])}
             B == {q[a] : a \in 1 .. k - 1}
  <2>1. \A j \in A : j \in B
    <3> TAKE j \in A
    <3>0. j \in DOMAIN edges /\ Ahead(Sure, j, q[k]) /\ ~Ahead(Sure, q[k], j)
      BY <1>5, AheadOrders
    <3>1. PICK a \in 1 .. m : q[a] = j
      BY <1>1, <1>4, <3>0
    <3>2. a < k
      <4>1. ~(k < a) /\ k # a
        BY <1>4, <3>0, <3>1
      <4> QED
        BY <1>3, <4>1
    <3> QED
      BY <3>1, <3>2
  <2>2. \A j \in B : j \in A
    <3> TAKE j \in B
    <3>1. PICK a \in 1 .. k - 1 : j = q[a]
      OBVIOUS
    <3>2. a \in 1 .. m /\ a < k
      BY <1>3
    <3> QED
      BY <1>4, <1>5, <3>1, <3>2
  <2>3. PICK f : f = [a \in 1 .. k - 1 |-> q[a]]
    OBVIOUS
  <2>4. \A a, b \in 1 .. k - 1 : f[a] = f[b] => a = b
    <3> SUFFICES ASSUME NEW a \in 1 .. k - 1, NEW b \in 1 .. k - 1, q[a] = q[b], a # b
                 PROVE  FALSE
      BY <2>3
    <3>0. a \in 1 .. m /\ b \in 1 .. m
      BY <1>3
    <3>1. Ahead(Sure, q[a], q[a])
      BY <1>4, <3>0
    <3>2. ~Ahead(Sure, q[a], q[a])
      BY <1>5, <3>0, AheadOrders
    <3> QED
      BY <3>1, <3>2
  <2>5. f \in Bijection(1 .. k - 1, B)
    <3>1. f \in [1 .. k - 1 -> B] /\ \A j \in B : \E a \in 1 .. k - 1 : f[a] = j
      BY <2>3
    <3> HIDE DEF B
    <3> QED
      BY <2>4, <3>1 DEF Bijection, Injection, Surjection, IsInjective
  <2>6. IsFiniteSet(1 .. k - 1) /\ Cardinality(1 .. k - 1) = k - 1
    <3>1. PICK e \in Nat : e = k - 1
      OBVIOUS
    <3>2. PICK z \in Int : z = 1
      OBVIOUS
    <3>3. IsFiniteSet(z .. e) /\ Cardinality(z .. e) = IF z > e THEN 0 ELSE e - z + 1
      BY FS_Interval
    <3> QED
      BY <3>1, <3>2, <3>3
  <2>7. Cardinality(B) = k - 1
    <3>1. ExistsBijection(1 .. k - 1, B)
      <4> HIDE DEF B
      <4> QED
        BY <2>5 DEF ExistsBijection
    <3> HIDE DEF B
    <3> QED
      BY <2>6, <3>1, FS_Bijection
  <2>8. A = B
    <3> HIDE DEF A, B
    <3> QED
      BY <2>1, <2>2
  <2> QED
    BY <2>7, <2>8 DEF Rank
<1>7. ASSUME NEW k \in 1 .. m
      PROVE  q[k] = CHOOSE i \in DOMAIN edges :
                      L!Cardinality({j \in DOMAIN edges : L!Before(j, i)}) = k - 1
  <2>1. \A i \in DOMAIN edges :
          L!Cardinality({j \in DOMAIN edges : L!Before(j, i)}) = Rank(Sure, DOMAIN edges, i)
    <3> TAKE i \in DOMAIN edges
    <3>1. {j \in DOMAIN edges : L!Before(j, i)} = {j \in DOMAIN edges : Ahead(Sure, j, i)}
      BY SureIsNumber
    <3> QED
      BY <3>1, LSize DEF Rank
  <2>2. \A i \in DOMAIN edges : Rank(Sure, DOMAIN edges, i) = k - 1 => i = q[k]
    <3>1. PICK Q : Q = DOMAIN edges
      OBVIOUS
    <3>2. Q \in SUBSET Nat /\ IsFiniteSet(Q) /\ Sure \in [Q -> Int]
      <4>1. PICK z \in Int : z = 1
        OBVIOUS
      <4>2. IsFiniteSet(z .. n)
        BY FS_Interval
      <4>3. Q = z .. n
        BY <1>1, <3>1, <4>1
      <4>4. Sure \in [Q -> Int]
        BY <3>1, SureIsNumber
      <4> QED
        BY <4>1, <4>2, <4>3, <4>4
    <3>3. \A i, j \in Q : Rank(Sure, Q, i) = Rank(Sure, Q, j) => i = j
      BY <3>2, RanksAreUsed
    <3> QED
      BY <1>5, <1>6, <3>1, <3>3
  <2> QED
    BY <1>5, <1>6, <2>1, <2>2
<1>8. L!Min({3, Len(edges)}) = m
  <2>1. PICK a \in Int, b \in Int : a = 3 /\ b = n
    OBVIOUS
  <2>2. L!Min({a, b}) = IF a <= b THEN a ELSE b
    BY LesserOfTwo
  <2>3. m = IF a <= b THEN a ELSE b
    BY <1>3, <2>1
  <2> QED
    BY <1>1, <2>1, <2>2, <2>3
<1>9. q = L!TopPaths(m)
  <2>1. q = [k \in 1 .. m |-> q[k]]
    BY <1>4
  <2> QED
    BY <1>7, <2>1 DEF L!TopPaths
<1> QED
  BY <1>2, <1>8, <1>9 DEF L!RankingsAgree

\* What becomes of a track: begun by a spike, counted on, ended.
Begun(s) == [n |-> s.n, start |-> s.t, count |-> 1, done |-> FALSE]
CountedOn(b) == [b EXCEPT !.count = @ + 1]
Ended(b) == [b EXCEPT !.done = TRUE]

\* One spike leaves the tracks in V in W if it begins one in W, and those it
\* counts on and ends are in W.
LEMMA TrackedStays ==
  ASSUME NEW V, NEW W, V \subseteq W, NEW ts \in Seq(V), NEW s, Begun(s) \in W,
         \A b \in V : b.n = s.n /\ s.t - b.start < 5 => CountedOn(b) \in W,
         \A b \in V : Ended(b) \in W
  PROVE  L!Tracked(ts, s) \in Seq(W)
<1> DEFINE open == {a \in 1 .. Len(ts) : ts[a].n = s.n /\ ~ts[a].done}
           add(seq) == IF Len(seq) < Tracks THEN Append(seq, Begun(s)) ELSE seq
<1>1. L!Tracked(ts, s) =
        IF open = {} THEN add(ts)
        ELSE IF s.t - ts[L!Min(open)].start < 5
             THEN [ts EXCEPT ![L!Min(open)].count = @ + 1]
        ELSE IF ts[L!Min(open)].count < 3 THEN [ts EXCEPT ![L!Min(open)] = Begun(s)]
        ELSE add([ts EXCEPT ![L!Min(open)].done = TRUE])
  BY DEF L!Tracked, Begun
<1>2. PICK c \in Nat : c = Len(ts)
  OBVIOUS
<1>3. ts \in [1 .. c -> V] /\ ts \in [1 .. c -> W] /\ ts \in Seq(W)
  <2>1. ts \in [1 .. c -> V]
    BY <1>2
  <2>2. ts \in [1 .. c -> W]
    BY <2>1
  <2> QED
    BY <2>1, <2>2
<1>4. \A q \in Seq(W) : add(q) \in Seq(W)
  <2> SUFFICES ASSUME NEW q \in Seq(W) PROVE add(q) \in Seq(W)
    OBVIOUS
  <2>1. Append(q, Begun(s)) \in Seq(W)
    BY AppendProperties
  <2> QED
    BY <2>1
<1>5. CASE open = {}
  <2> HIDE DEF open, add
  <2> QED
    BY <1>1, <1>3, <1>4, <1>5
<1>6. CASE open # {}
  <2>1. PICK i \in 1 .. c : i = L!Min(open) /\ ts[i].n = s.n
    <3>1. open \in SUBSET Nat
      OBVIOUS
    <3>2. L!Min(open) \in open
      <4> HIDE DEF open
      <4> QED
        BY <1>6, <3>1, LeastIsIn
    <3> QED
      BY <1>2, <3>2
  <2>2. PICK b \in V : b = ts[i]
    BY <1>3
  <2>3. /\ [ts EXCEPT ![i].count = @ + 1] = [ts EXCEPT ![i] = CountedOn(b)]
        /\ [ts EXCEPT ![i].done = TRUE] = [ts EXCEPT ![i] = Ended(b)]
    BY <2>2 DEF CountedOn, Ended
  <2>4. \A w \in W : [ts EXCEPT ![i] = w] \in Seq(W)
    <3> SUFFICES ASSUME NEW w \in W PROVE [ts EXCEPT ![i] = w] \in Seq(W)
      OBVIOUS
    <3>1. [ts EXCEPT ![i] = w] \in [1 .. c -> W]
      BY <1>3
    <3> QED
      BY <3>1
  <2> HIDE DEF open, add
  <2>5. CASE s.t - b.start < 5
    <3>1. L!Tracked(ts, s) = [ts EXCEPT ![i] = CountedOn(b)]
      BY <1>1, <1>6, <2>1, <2>2, <2>3, <2>5
    <3>2. CountedOn(b) \in W
      BY <2>1, <2>2, <2>5
    <3> QED
      BY <2>4, <3>1, <3>2
  <2>6. CASE ~(s.t - b.start < 5) /\ b.count < 3
    <3>1. L!Tracked(ts, s) = [ts EXCEPT ![i] = Begun(s)]
      BY <1>1, <1>6, <2>1, <2>2, <2>6
    <3> QED
      BY <2>4, <3>1
  <2>7. CASE ~(s.t - b.start < 5) /\ ~(b.count < 3)
    <3>1. L!Tracked(ts, s) = add([ts EXCEPT ![i] = Ended(b)])
      BY <1>1, <1>6, <2>1, <2>2, <2>3, <2>7
    <3>2. [ts EXCEPT ![i] = Ended(b)] \in Seq(W)
      BY <2>2, <2>4
    <3> QED
      BY <1>4, <3>1, <3>2
  <2> QED
    BY <2>5, <2>6, <2>7
<1> QED
  BY <1>5, <1>6

\* Of the first k spikes those a track from t on stands for.
SeenBy(n, t, k) == {i \in 1 .. k : L!Iter[i].n = n /\ L!Iter[i].t - t \in 0 .. 4}
Track == [n : Neurons, start : Nat, count : Nat, done : BOOLEAN]
\* The tracks that count no spike too many, and start before the next.
Fair(k) ==
  {b \in Track :
     /\ b.count <= Cardinality(SeenBy(b.n, b.start, k))
     /\ \A i \in k + 1 .. L!Length : b.start <= L!Iter[i].t}

\* One spike more.
LEMMA SeenGrows ==
  ASSUME NEW n, NEW t \in Nat, NEW k \in Nat
  PROVE  /\ IsFiniteSet(SeenBy(n, t, k)) /\ Cardinality(SeenBy(n, t, k)) \in Nat
         /\ Cardinality(SeenBy(n, t, k)) <= Cardinality(SeenBy(n, t, k + 1))
         /\ L!Iter[k + 1].n = n /\ L!Iter[k + 1].t - t \in 0 .. 4
              => Cardinality(SeenBy(n, t, k + 1)) = Cardinality(SeenBy(n, t, k)) + 1
<1>1. PICK A : A = SeenBy(n, t, k)
  OBVIOUS
<1>2. A \in SUBSET (1 .. k)
  BY <1>1 DEF SeenBy
<1>3. IsFiniteSet(1 .. k)
  BY FS_Interval
<1>4. IsFiniteSet(A) /\ Cardinality(A) \in Nat
  <2>1. IsFiniteSet(A)
    BY <1>2, <1>3, FS_Subset
  <2> QED
    BY <2>1, FS_CardinalityType
<1>5. k + 1 \notin A
  BY <1>2
<1>6. CASE L!Iter[k + 1].n = n /\ L!Iter[k + 1].t - t \in 0 .. 4
  <2>1. \A i : i \in 1 .. k + 1 <=> i \in 1 .. k \/ i = k + 1
    OBVIOUS
  <2>2. SeenBy(n, t, k + 1) = A \cup {k + 1}
    BY <1>1, <1>6, <2>1 DEF SeenBy
  <2>3. Cardinality(A \cup {k + 1}) = Cardinality(A) + 1
    BY <1>4, <1>5, FS_AddElement
  <2>4. PICK e \in Nat : e = Cardinality(A)
    BY <1>4
  <2>5. Cardinality(SeenBy(n, t, k + 1)) = e + 1 /\ e <= e + 1
    BY <2>2, <2>3, <2>4
  <2>6. Cardinality(SeenBy(n, t, k)) = e /\ IsFiniteSet(SeenBy(n, t, k))
    BY <1>1, <1>4, <2>4
  <2> QED
    BY <2>5, <2>6
<1>7. CASE ~(L!Iter[k + 1].n = n /\ L!Iter[k + 1].t - t \in 0 .. 4)
  <2>1. \A i : i \in 1 .. k + 1 <=> i \in 1 .. k \/ i = k + 1
    OBVIOUS
  <2>2. SeenBy(n, t, k + 1) = A
    BY <1>1, <1>7, <2>1 DEF SeenBy
  <2> QED
    BY <1>1, <1>4, <1>7, <2>2
<1> QED
  BY <1>6, <1>7

\* The next spike leaves the tracks fair.
LEMMA TrackedKeeps ==
  ASSUME RingInv, NEW k \in Nat, k + 1 <= L!Length, NEW ts \in Seq(Fair(k))
  PROVE  L!Tracked(ts, L!Iter[k + 1]) \in Seq(Fair(k + 1))
<1>1. PICK m \in Nat : m = L!Length
  BY IterIsNewest
<1>2. k + 1 \in 1 .. m
  BY <1>1
<1>3. \A i \in 1 .. m : L!Iter[i] \in Event /\ L!Iter[i].t \in Nat
  <2>1. L!Iter \in Seq(Event) /\ Len(L!Iter) = m
    BY <1>1, IterIsNewest
  <2>2. \A i \in 1 .. m : L!Iter[i] \in Event
    BY <2>1
  <2> QED
    BY <2>2 DEF Event
<1>4. \A i \in 1 .. m : k + 1 <= i => L!Iter[k + 1].t <= L!Iter[i].t
  BY <1>1, <1>2, IterIsNewest
<1>5. PICK s \in Event : s = L!Iter[k + 1] /\ s.t \in Nat /\ s.n \in Neurons
  BY <1>2, <1>3 DEF Event
<1>6. ASSUME NEW b \in Fair(k)
      PROVE  /\ b \in Track /\ b.start \in Nat /\ b.count \in Nat
             /\ b.count <= Cardinality(SeenBy(b.n, b.start, k)) /\ b.start <= s.t
             /\ \A i \in k + 2 .. m : b.start <= L!Iter[i].t
             /\ Cardinality(SeenBy(b.n, b.start, k)) \in Nat
             /\ Cardinality(SeenBy(b.n, b.start, k + 1)) \in Nat
             /\ Cardinality(SeenBy(b.n, b.start, k)) <= Cardinality(SeenBy(b.n, b.start, k + 1))
  <2>1. b \in Track /\ b.start \in Nat /\ b.count \in Nat
    BY DEF Fair, Track
  <2>2. /\ b.count <= Cardinality(SeenBy(b.n, b.start, k))
        /\ \A i \in k + 1 .. m : b.start <= L!Iter[i].t
    BY <1>1 DEF Fair
  <2>3. b.start <= s.t /\ \A i \in k + 2 .. m : b.start <= L!Iter[i].t
    BY <1>2, <1>5, <2>2
  <2>4. /\ Cardinality(SeenBy(b.n, b.start, k)) \in Nat
        /\ Cardinality(SeenBy(b.n, b.start, k)) <= Cardinality(SeenBy(b.n, b.start, k + 1))
    BY <2>1, SeenGrows
  <2>5. Cardinality(SeenBy(b.n, b.start, k + 1)) \in Nat
    <3>1. k + 1 \in Nat
      OBVIOUS
    <3> QED
      BY <2>1, <3>1, SeenGrows
  <2> QED
    BY <2>1, <2>2, <2>3, <2>4, <2>5
<1>7. ASSUME NEW b, b \in Track, b.count <= Cardinality(SeenBy(b.n, b.start, k + 1)),
             \A i \in k + 2 .. m : b.start <= L!Iter[i].t
      PROVE  b \in Fair(k + 1)
  <2>1. (k + 1) + 1 = k + 2
    OBVIOUS
  <2> QED
    BY <1>1, <1>7, <2>1 DEF Fair
<1>8. Fair(k) \subseteq Fair(k + 1)
  <2> SUFFICES ASSUME NEW b \in Fair(k) PROVE b \in Fair(k + 1)
    OBVIOUS
  <2>1. b.count <= Cardinality(SeenBy(b.n, b.start, k + 1))
    BY <1>6
  <2> QED
    BY <1>6, <1>7, <2>1
<1>9. Begun(s) \in Fair(k + 1)
  <2>1. PICK b : b = Begun(s)
    OBVIOUS
  <2>2. b \in Track /\ b.n = s.n /\ b.start = s.t /\ b.count = 1
    BY <1>5, <2>1 DEF Begun, Track
  <2>3. s.t - s.t = 0
    BY <1>5
  <2>4. /\ Cardinality(SeenBy(s.n, s.t, k)) \in Nat
        /\ Cardinality(SeenBy(s.n, s.t, k + 1)) = Cardinality(SeenBy(s.n, s.t, k)) + 1
    BY <1>5, <2>3, SeenGrows
  <2>5. b.count <= Cardinality(SeenBy(b.n, b.start, k + 1))
    BY <2>2, <2>4
  <2>6. \A i \in k + 2 .. m : b.start <= L!Iter[i].t
    BY <1>4, <1>5, <2>2
  <2> QED
    BY <1>7, <2>1, <2>2, <2>5, <2>6
<1>10. ASSUME NEW b \in Fair(k), b.n = s.n, s.t - b.start < 5
       PROVE  CountedOn(b) \in Fair(k + 1)
  <2>1. PICK d : d = CountedOn(b)
    OBVIOUS
  <2>2. b \in Track
    BY <1>6
  <2>3. d = [n |-> b.n, start |-> b.start, count |-> b.count + 1, done |-> b.done]
    BY <2>1, <2>2 DEF CountedOn, Track
  <2>4. d \in Track /\ d.n = b.n /\ d.start = b.start /\ d.count = b.count + 1
    BY <2>2, <2>3 DEF Track
  <2>5. s.t - b.start \in 0 .. 4
    <3>1. b.start \in Nat /\ b.start <= s.t
      BY <1>6
    <3>2. PICK e \in Int, f \in Int : e = s.t /\ f = b.start
      BY <1>5, <3>1
    <3>3. e - f < 5 /\ f <= e
      BY <1>10, <3>1, <3>2
    <3>4. e - f \in 0 .. 4
      BY <3>3
    <3> QED
      BY <3>2, <3>4
  <2>6. Cardinality(SeenBy(b.n, b.start, k + 1)) = Cardinality(SeenBy(b.n, b.start, k)) + 1
    BY <1>5, <1>6, <1>10, <2>5, SeenGrows
  <2>7. d.count <= Cardinality(SeenBy(d.n, d.start, k + 1))
    BY <1>6, <2>4, <2>6
  <2>8. \A i \in k + 2 .. m : d.start <= L!Iter[i].t
    BY <1>6, <2>4
  <2> QED
    BY <1>7, <2>1, <2>4, <2>7, <2>8
<1>11. ASSUME NEW b \in Fair(k) PROVE Ended(b) \in Fair(k + 1)
  <2>1. PICK d : d = Ended(b)
    OBVIOUS
  <2>2. b \in Track
    BY <1>6
  <2>3. d = [n |-> b.n, start |-> b.start, count |-> b.count, done |-> TRUE]
    BY <2>1, <2>2 DEF Ended, Track
  <2>4. d \in Track /\ d.n = b.n /\ d.start = b.start /\ d.count = b.count
    BY <2>2, <2>3 DEF Track
  <2>5. d.count <= Cardinality(SeenBy(d.n, d.start, k + 1))
    BY <1>6, <2>4
  <2>6. \A i \in k + 2 .. m : d.start <= L!Iter[i].t
    BY <1>6, <2>4
  <2> QED
    BY <1>7, <2>1, <2>4, <2>5, <2>6
<1>12. PICK V, W : V = Fair(k) /\ W = Fair(k + 1)
  OBVIOUS
<1>13. /\ V \subseteq W /\ ts \in Seq(V) /\ Begun(s) \in W
       /\ \A b \in V : b.n = s.n /\ s.t - b.start < 5 => CountedOn(b) \in W
       /\ \A b \in V : Ended(b) \in W
  BY <1>8, <1>9, <1>10, <1>11, <1>12
<1>14. L!Tracked(ts, s) \in Seq(W)
  BY <1>13, TrackedStays
<1> QED
  BY <1>5, <1>12, <1>14

\* A burst stands for the spikes it counts.
LEMMA BurstsHold ==
  ASSUME RingInv
  PROVE  L!BurstsAreReal
<1> DEFINE n == L!Length
           w == CHOOSE u : u = [k \in 0 .. n |-> IF k = 0 THEN <<>>
                                                 ELSE L!Tracked(u[k - 1], L!Iter[k])]
           V == Seq(Track)
<1>1. L!Bursts = {b \in L!Range(w[n]) : b.count >= 3}
  BY DEF L!Bursts
<1>2. n \in Nat
  BY IterIsNewest
<1>3. \A k \in 1 .. n, p \in V : L!Tracked(p, L!Iter[k]) \in V
  <2> TAKE k \in 1 .. n, p \in V
  <2>1. PICK s \in Event : s = L!Iter[k]
    <3>1. L!Iter \in Seq(Event) /\ Len(L!Iter) = n
      BY IterIsNewest
    <3> QED
      BY <1>2, <3>1
  <2>2. Begun(s) \in Track
    BY DEF Begun, Track, Event
  <2>3. \A b \in Track : CountedOn(b) \in Track
    <3> TAKE b \in Track
    <3>1. CountedOn(b)
            = [n |-> b.n, start |-> b.start, count |-> b.count + 1, done |-> b.done]
      BY DEF CountedOn, Track
    <3> QED
      BY <3>1 DEF Track
  <2>4. \A b \in Track : Ended(b) \in Track
    <3> TAKE b \in Track
    <3>1. PICK d : d = Ended(b)
      OBVIOUS
    <3>2. d = [n |-> b.n, start |-> b.start, count |-> b.count, done |-> TRUE]
      BY <3>1 DEF Ended, Track
    <3>3. d \in Track
      BY <3>2 DEF Track
    <3> QED
      BY <3>1, <3>3
  <2>5. PICK W : W = Track
    OBVIOUS
  <2>6. /\ W \subseteq W /\ p \in Seq(W) /\ Begun(s) \in W
        /\ \A b \in W : b.n = s.n /\ s.t - b.start < 5 => CountedOn(b) \in W
        /\ \A b \in W : Ended(b) \in W
    BY <2>2, <2>3, <2>4, <2>5
  <2>7. L!Tracked(p, s) \in Seq(W)
    BY <2>6, TrackedStays
  <2> QED
    BY <2>1, <2>5, <2>7
<1>a. <<>> \in V
  OBVIOUS
<1> HIDE DEF V, n
<1>4. PICK G \in [1 .. n -> [V -> V]] :
        \A k \in 1 .. n, p \in V : G[k][p] = L!Tracked(p, L!Iter[k])
  <2>1. [k \in 1 .. n |-> [p \in V |-> L!Tracked(p, L!Iter[k])]] \in [1 .. n -> [V -> V]]
    BY <1>3
  <2> QED
    BY <2>1
<1>5. PICK u : Iterate(u, n, V, <<>>, G)
  BY <1>a, <1>2, Iterates
<1>6. u = [k \in 0 .. n |-> IF k = 0 THEN <<>> ELSE L!Tracked(u[k - 1], L!Iter[k])]
  <2>1. \A k \in 0 .. n : u[k] = IF k = 0 THEN <<>> ELSE L!Tracked(u[k - 1], L!Iter[k])
    <3> TAKE k \in 0 .. n
    <3>0. /\ u \in [0 .. n -> V] /\ u[0] = <<>>
          /\ \A j \in 1 .. n : u[j] = G[j][u[j - 1]]
      BY <1>5 DEF Iterate
    <3>1. CASE k = 0
      BY <3>0, <3>1
    <3>2. CASE k # 0
      <4>1. k \in 1 .. n /\ k - 1 \in 0 .. n
        BY <1>2, <3>2
      <4>2. u[k - 1] \in V
        BY <3>0, <4>1
      <4> QED
        BY <1>4, <3>0, <3>2, <4>1, <4>2
    <3> QED
      BY <3>1, <3>2
  <2> QED
    BY <1>5, <2>1 DEF Iterate
<1>7. w = [k \in 0 .. n |-> IF k = 0 THEN <<>> ELSE L!Tracked(w[k - 1], L!Iter[k])]
  BY <1>6
<1> HIDE DEF w
<1>8. \A k \in 0 .. n : k \in {j \in Nat : j <= n => w[j] \in Seq(Fair(j))}
  <2> DEFINE S == {j \in Nat : j <= n => w[j] \in Seq(Fair(j))}
  <2>1. 0 \in S
    <3>1. w[0] = <<>>
      BY <1>2, <1>7
    <3>2. <<>> \in Seq(Fair(0))
      OBVIOUS
    <3> QED
      BY <3>1, <3>2
  <2>2. ASSUME NEW k \in 1 .. n, k - 1 \in S PROVE k \in S
    <3>0. PICK l \in Nat : l = k - 1 /\ k = l + 1 /\ l + 1 <= n
      BY <1>2
    <3>1. w[l] \in Seq(Fair(l))
      BY <1>2, <2>2, <3>0
    <3>2. w[k] = L!Tracked(w[l], L!Iter[l + 1])
      BY <1>2, <1>7, <3>0
    <3>3. L!Tracked(w[l], L!Iter[l + 1]) \in Seq(Fair(l + 1))
      BY <3>0, <3>1, TrackedKeeps DEF n
    <3> QED
      BY <1>2, <3>0, <3>2, <3>3
  <2>3. S \in SUBSET Nat
    OBVIOUS
  <2> HIDE DEF S
  <2>4. \A k \in 0 .. n : k \in S
    BY <1>2, <2>1, <2>2, <2>3, Upwards
  <2> USE DEF S
  <2> QED
    BY <2>4
<1>9. w[n] \in Seq(Fair(n))
  BY <1>2, <1>8
<1>10. ASSUME NEW b \in L!Bursts
       PROVE  b.count <= L!Cardinality({i \in 1 .. L!Length :
                L!Iter[i].n = b.n /\ L!Iter[i].t - b.start \in 0 .. 4
                /\ L!Iter[i].t >= b.start})
  <2>1. b \in Fair(n)
    <3>1. b \in L!Range(w[n])
      BY <1>1
    <3>2. \E a \in DOMAIN w[n] : b = w[n][a]
      BY <3>1 DEF L!Range
    <3> QED
      BY <1>9, <3>2
  <2>2. b.count <= Cardinality(SeenBy(b.n, b.start, n)) /\ b.start \in Nat
    BY <2>1 DEF Fair, Track
  <2>3. \A i \in 1 .. n : L!Iter[i].t \in Int
    <3>1. L!Iter \in Seq(Event) /\ Len(L!Iter) = n
      BY IterIsNewest DEF n
    <3>2. \A i \in 1 .. n : L!Iter[i] \in Event
      BY <1>2, <3>1
    <3> QED
      BY <3>2 DEF Event
  <2>4. SeenBy(b.n, b.start, n)
          = {i \in 1 .. n : L!Iter[i].n = b.n /\ L!Iter[i].t - b.start \in 0 .. 4
                            /\ L!Iter[i].t >= b.start}
    <3>1. \A i \in 1 .. n : L!Iter[i].t - b.start \in 0 .. 4 => L!Iter[i].t >= b.start
      BY <2>2, <2>3
    <3> QED
      BY <3>1 DEF SeenBy
  <2> QED
    BY <2>2, <2>4, LSize DEF n
<1> QED
  BY <1>10 DEF L!BurstsAreReal

\* What the record is makes it true.
LEMMA RecordHolds ==
  ASSUME RecordInv
  PROVE  L!RecordIsTrue
BY NewestKept, BurstsHold, PathsHold, RankingsHold, GraphIsTrue
   DEF RecordInv, L!RecordIsTrue

\* For every size of the trace, of the graph and of the neurons, and any
\* spikes at any pauses: the ring holds the newest spikes in their order,
\* bursts, edges and paths are real, and both rankings agree (RecordIsTrue of
\* run machine).
THEOREM RecordStaysTrue == MachineSpec => []RecordIsTrue
<1>1. MachineInit => RecordInv
  BY RecordStarts DEF MachineInit
<1>2. RecordInv /\ [MachineNext]_machineVars => RecordInv'
  <2> SUFFICES ASSUME RecordInv, [MachineNext]_machineVars PROVE RecordInv'
    OBVIOUS
  <2>1. CASE L!Next
    BY <2>1, RecordKeeps
  <2>2. CASE UNCHANGED telemetry
    BY <2>2 DEF telemetry, RecordInv, RingInv, L!Length
  <2> QED
    BY <2>1, <2>2 DEF MachineNext, Still, machineVars
<1>3. RecordInv => RecordIsTrue
  BY RecordHolds DEF RecordIsTrue
<1> QED
  BY <1>1, <1>2, <1>3, PTL DEF MachineSpec
-----------------------------------------------------------------------------
(* Arithmetic                                                              *)

\* t adds up the first n places of g.
Adds(g, n, t) ==
  /\ t \in [0 .. n -> Int] /\ t[0] = 0
  /\ \A k \in 1 .. n : t[k] = t[k - 1] + g[k]

\* The magnitudes of the first n places.
Absolute(g, n) == [k \in 1 .. n |-> X!Abs(g[k])]

\* Sums exist.
LEMMA TotalExists ==
  ASSUME NEW n \in Nat, NEW g, \A k \in 1 .. n : g[k] \in Int
  PROVE  \E t : Adds(g, n, t)
<1>1. PICK G \in [1 .. n -> [Int -> Int]] : \A k \in 1 .. n, i \in Int : G[k][i] = i + g[k]
  <2>1. [k \in 1 .. n |-> [i \in Int |-> i + g[k]]] \in [1 .. n -> [Int -> Int]]
    OBVIOUS
  <2> QED
    BY <2>1
<1>2. 0 \in Int
  OBVIOUS
<1>3. PICK u : Iterate(u, n, Int, 0, G)
  BY <1>2, Iterates
<1>4. /\ u \in [0 .. n -> Int] /\ u[0] = 0
      /\ \A k \in 1 .. n : u[k] = G[k][u[k - 1]]
  BY <1>3 DEF Iterate
<1>5. ASSUME NEW k \in 1 .. n PROVE u[k] = u[k - 1] + g[k]
  <2>1. k - 1 \in 0 .. n
    OBVIOUS
  <2>2. u[k - 1] \in Int
    BY <1>4, <2>1
  <2> QED
    BY <1>1, <1>4, <2>2
<1> QED
  BY <1>4, <1>5 DEF Adds

\* Sums of magnitudes only grow.
LEMMA MagnitudesRise ==
  ASSUME NEW n \in Nat, NEW g, \A k \in 1 .. n : g[k] \in Int,
         NEW t, Adds(Absolute(g, n), n, t)
  PROVE  \A k \in 0 .. n : t[k] \in Nat /\ t[k] <= t[n]
<1>1. /\ t \in [0 .. n -> Int] /\ t[0] = 0
      /\ \A k \in 1 .. n : t[k] = t[k - 1] + X!Abs(g[k])
  BY DEF Adds, Absolute
<1>2. \A k \in 1 .. n : X!Abs(g[k]) \in Nat
  BY DEF X!Abs
<1> DEFINE S == {k \in Nat : k <= n => \A i \in 0 .. k : t[i] \in Nat /\ t[i] <= t[k]}
<1>3. 0 \in S
  BY <1>1
<1>4. ASSUME NEW k \in 1 .. n, k - 1 \in S PROVE k \in S
  <2>1. k - 1 \in 0 .. k - 1 /\ \A i \in 0 .. k - 1 : t[i] \in Nat /\ t[i] <= t[k - 1]
    BY <1>4
  <2>2. PICK a \in Nat, b \in Nat : a = t[k - 1] /\ b = X!Abs(g[k]) /\ t[k] = a + b
    BY <1>1, <1>2, <2>1
  <2>3. \A i \in 0 .. k : i \in 0 .. k - 1 \/ i = k
    OBVIOUS
  <2>4. \A i \in 0 .. k : t[i] \in Nat /\ t[i] <= t[k]
    BY <2>1, <2>2, <2>3
  <2> QED
    BY <2>4
<1>5. S \in SUBSET Nat
  OBVIOUS
<1> HIDE DEF S
<1>6. n \in S
  <2>1. \A k \in 0 .. n : k \in S
    BY <1>3, <1>4, <1>5, Upwards
  <2> QED
    BY <2>1
<1> USE DEF S
<1> QED
  BY <1>6

\* The size of a vector is such a sum.
LEMMA SizeAddsUp ==
  ASSUME NEW q, NEW n \in Nat, n = Len(q), \A k \in 1 .. n : q[k] \in Int,
         NEW t, Adds(Absolute(q, n), n, t)
  PROVE  X!Size(q) = t[n]
<1> DEFINE w == CHOOSE u : u = [k \in 0 .. n |->
                                  IF k = 0 THEN 0 ELSE u[k - 1] + X!Abs(q[k])]
<1>1. X!Size(q) = w[n]
  BY DEF X!Size
<1>2. /\ t \in [0 .. n -> Int] /\ t[0] = 0
      /\ \A k \in 1 .. n : t[k] = t[k - 1] + X!Abs(q[k])
  BY DEF Adds, Absolute
<1>3. t = [k \in 0 .. n |-> IF k = 0 THEN 0 ELSE t[k - 1] + X!Abs(q[k])]
  <2>1. \A k \in 0 .. n : t[k] = IF k = 0 THEN 0 ELSE t[k - 1] + X!Abs(q[k])
    BY <1>2
  <2> QED
    BY <1>2, <2>1
<1>4. w = [k \in 0 .. n |-> IF k = 0 THEN 0 ELSE w[k - 1] + X!Abs(q[k])]
  BY <1>3
<1> HIDE DEF w
<1>5. w[0] = 0 /\ \A k \in 1 .. n : w[k] = w[k - 1] + X!Abs(q[k])
  BY <1>4
<1> DEFINE S == {k \in Nat : k <= n => w[k] = t[k]}
<1>6. 0 \in S
  BY <1>2, <1>5
<1>7. ASSUME NEW k \in 1 .. n, k - 1 \in S PROVE k \in S
  <2>1. w[k - 1] = t[k - 1]
    BY <1>7
  <2> QED
    BY <1>2, <1>5, <2>1
<1>8. S \in SUBSET Nat
  OBVIOUS
<1> HIDE DEF S
<1>9. n \in S
  <2>1. \A k \in 0 .. n : k \in S
    BY <1>6, <1>7, <1>8, Upwards
  <2> QED
    BY <2>1
<1> USE DEF S
<1> QED
  BY <1>1, <1>9

\* An accumulator that magnitudes cannot saturate holds the sum (saturating_add).
LEMMA FoldedIsSum ==
  ASSUME NEW n \in Nat, NEW g, \A k \in 1 .. n : g[k] \in Int, NEW a \in Int,
         NEW s, Adds(g, n, s), NEW t, Adds(Absolute(g, n), n, t),
         X!Abs(a) + t[n] <= X!MAX
  PROVE  X!Folded(a, g, n) = a + s[n] /\ X!Abs(a + s[n]) <= X!Abs(a) + t[n]
<1> DEFINE w == CHOOSE u : u = [k \in 0 .. n |->
                                  IF k = 0 THEN a ELSE X!Add(u[k - 1], g[k])]
           z == [k \in 0 .. n |-> a + s[k]]
<1>1. X!Folded(a, g, n) = w[n]
  BY DEF X!Folded
<1>2. /\ s \in [0 .. n -> Int] /\ s[0] = 0
      /\ \A k \in 1 .. n : s[k] = s[k - 1] + g[k]
  BY DEF Adds
<1>3. /\ t \in [0 .. n -> Int] /\ t[0] = 0
      /\ \A k \in 1 .. n : t[k] = t[k - 1] + X!Abs(g[k])
  BY DEF Adds, Absolute
<1>4. \A k \in 0 .. n : t[k] \in Nat /\ t[k] <= t[n]
  BY MagnitudesRise
<1> DEFINE S == {k \in Nat : k <= n => /\ a + s[k] <= X!Abs(a) + t[k]
                                       /\ -(X!Abs(a) + t[k]) <= a + s[k]}
<1>5. 0 \in S
  BY <1>2, <1>3 DEF X!Abs
<1>6. ASSUME NEW k \in 1 .. n, k - 1 \in S PROVE k \in S
  <2>1. PICK b \in Int, c \in Int, d \in Int, e \in Int :
          /\ b = s[k - 1] /\ c = t[k - 1] /\ d = g[k] /\ e = X!Abs(a)
    <3>1. k - 1 \in 0 .. n
      OBVIOUS
    <3>2. s[k - 1] \in Int /\ t[k - 1] \in Int
      BY <1>2, <1>3, <3>1
    <3>3. g[k] \in Int /\ X!Abs(a) \in Int
      BY DEF X!Abs
    <3> QED
      BY <3>2, <3>3
  <2>2. a + b <= e + c /\ -(e + c) <= a + b
    BY <1>6, <2>1
  <2>3. s[k] = b + d /\ t[k] = c + X!Abs(d)
    BY <1>2, <1>3, <2>1
  <2>4. X!Abs(d) \in Int /\ d <= X!Abs(d) /\ -X!Abs(d) <= d
    BY DEF X!Abs
  <2>5. a + (b + d) <= e + (c + X!Abs(d)) /\ -(e + (c + X!Abs(d))) <= a + (b + d)
    BY <2>2, <2>4
  <2> QED
    BY <2>1, <2>3, <2>5
<1>7. S \in SUBSET Nat
  OBVIOUS
<1> HIDE DEF S
<1>8. \A k \in 0 .. n : k \in S
  BY <1>5, <1>6, <1>7, Upwards
<1>9. \A k \in 0 .. n : /\ a + s[k] <= X!Abs(a) + t[k]
                        /\ -(X!Abs(a) + t[k]) <= a + s[k]
  BY <1>8 DEF S
<1>10. X!Abs(a) \in Nat /\ X!MAX \in Nat /\ X!MIN = -X!MAX - 1
  BY WordAssumption DEF X!Abs, X!MIN
<1>11. \A k \in 0 .. n : a + s[k] <= X!MAX /\ X!MIN <= a + s[k]
  <2> TAKE k \in 0 .. n
  <2>1. PICK b \in Int, c \in Int, d \in Int, e \in Int :
          b = s[k] /\ c = t[k] /\ d = t[n] /\ e = X!Abs(a)
    <3>1. s[k] \in Int /\ t[k] \in Int
      BY <1>2, <1>3
    <3>2. t[n] \in Int /\ X!Abs(a) \in Int
      BY <1>3, <1>10
    <3> QED
      BY <3>1, <3>2
  <2>2. e + c <= X!MAX
    BY <1>4, <1>10, <2>1
  <2>3. a + b <= e + c /\ -(e + c) <= a + b
    BY <1>9, <2>1
  <2> QED
    BY <1>10, <2>1, <2>2, <2>3
<1>12. ASSUME NEW k \in 1 .. n PROVE X!Add(z[k - 1], g[k]) = z[k]
  <2>1. k - 1 \in 0 .. n /\ k \in 0 .. n
    OBVIOUS
  <2>2. z[k - 1] = a + s[k - 1] /\ z[k] = a + s[k]
    BY <2>1
  <2>3. z[k - 1] + g[k] = a + s[k] /\ a + s[k] \in Int
    BY <1>2, <2>1, <2>2
  <2>4. ~(a + s[k] > X!MAX) /\ ~(a + s[k] < X!MIN)
    BY <1>10, <1>11, <2>1, <2>3
  <2> HIDE DEF z
  <2> QED
    BY <2>2, <2>3, <2>4 DEF X!Add, X!Sat
<1>13. z[0] = a
  BY <1>2
<1>14. z = [k \in 0 .. n |-> IF k = 0 THEN a ELSE X!Add(z[k - 1], g[k])]
  <2>1. \A k \in 0 .. n : z[k] = IF k = 0 THEN a ELSE X!Add(z[k - 1], g[k])
    <3> TAKE k \in 0 .. n
    <3>1. k = 0 \/ k \in 1 .. n
      OBVIOUS
    <3> HIDE DEF z
    <3> QED
      BY <1>12, <1>13, <3>1
  <2>2. z = [k \in 0 .. n |-> z[k]]
    OBVIOUS
  <2> HIDE DEF z
  <2> QED
    BY <2>1, <2>2
<1>15. w = [k \in 0 .. n |-> IF k = 0 THEN a ELSE X!Add(w[k - 1], g[k])]
  <2> HIDE DEF z
  <2> QED
    BY <1>14
<1>16. z[n] = a + s[n]
  OBVIOUS
<1> HIDE DEF w, z
<1>17. w[0] = a /\ \A k \in 1 .. n : w[k] = X!Add(w[k - 1], g[k])
  BY <1>15
<1> DEFINE E == {k \in Nat : k <= n => w[k] = z[k]}
<1>18. 0 \in E
  BY <1>13, <1>17
<1>19. ASSUME NEW k \in 1 .. n, k - 1 \in E PROVE k \in E
  <2>1. w[k - 1] = z[k - 1]
    BY <1>19
  <2> QED
    BY <1>12, <1>17, <2>1
<1>20. E \in SUBSET Nat
  OBVIOUS
<1> HIDE DEF E
<1>21. n \in E
  <2>1. \A k \in 0 .. n : k \in E
    BY <1>18, <1>19, <1>20, Upwards
  <2> QED
    BY <2>1
<1>22. w[n] = a + s[n]
  BY <1>16, <1>21 DEF E
<1>23. X!Abs(a + s[n]) <= X!Abs(a) + t[n]
  <2>1. PICK b \in Int, c \in Int : b = a + s[n] /\ c = X!Abs(a) + t[n]
    BY <1>2, <1>3, <1>10
  <2>2. b <= c /\ -c <= b
    BY <1>9, <2>1
  <2>3. X!Abs(b) <= c
    BY <2>2 DEF X!Abs
  <2> QED
    BY <2>1, <2>3
<1> QED
  BY <1>1, <1>22, <1>23

\* What the i-th of four accumulators and what comes after them are given.
LaneOf(h, m, i) == [c \in 1 .. m |-> h[4 * (c - 1) + i]]
RestOf(h, m, r) == [c \in 1 .. r |-> h[4 * m + c]]

\* s adds up the places of h, and a, b, c and d its four lanes.
LaneSums(h, n, s, m, a, b, c, d) ==
  /\ 4 * m <= n /\ (\A k \in 1 .. n : h[k] \in Int) /\ Adds(h, n, s)
  /\ Adds(LaneOf(h, m, 1), m, a) /\ Adds(LaneOf(h, m, 2), m, b)
  /\ Adds(LaneOf(h, m, 3), m, c) /\ Adds(LaneOf(h, m, 4), m, d)

\* The four lanes add up to the places they share out.
LEMMA LanesAddUp ==
  ASSUME NEW n \in Nat, NEW m \in Nat, NEW h, NEW s,
         NEW a, NEW b, NEW c, NEW d, LaneSums(h, n, s, m, a, b, c, d)
  PROVE  s[4 * m] = a[m] + b[m] + c[m] + d[m]
<1>0. 4 * m <= n /\ \A k \in 1 .. n : h[k] \in Int
  BY DEF LaneSums
<1>1. /\ s \in [0 .. n -> Int] /\ s[0] = 0
      /\ \A k \in 1 .. n : s[k] = s[k - 1] + h[k]
  BY DEF LaneSums, Adds
<1>2. /\ a \in [0 .. m -> Int] /\ a[0] = 0
      /\ \A k \in 1 .. m : a[k] = a[k - 1] + h[4 * (k - 1) + 1]
  BY DEF LaneSums, Adds, LaneOf
<1>3. /\ b \in [0 .. m -> Int] /\ b[0] = 0
      /\ \A k \in 1 .. m : b[k] = b[k - 1] + h[4 * (k - 1) + 2]
  BY DEF LaneSums, Adds, LaneOf
<1>4. /\ c \in [0 .. m -> Int] /\ c[0] = 0
      /\ \A k \in 1 .. m : c[k] = c[k - 1] + h[4 * (k - 1) + 3]
  BY DEF LaneSums, Adds, LaneOf
<1>5. /\ d \in [0 .. m -> Int] /\ d[0] = 0
      /\ \A k \in 1 .. m : d[k] = d[k - 1] + h[4 * (k - 1) + 4]
  BY DEF LaneSums, Adds, LaneOf
<1> DEFINE S == {k \in Nat : k <= m => s[4 * k] = a[k] + b[k] + c[k] + d[k]}
<1>6. 0 \in S
  BY <1>1, <1>2, <1>3, <1>4, <1>5
<1>7. ASSUME NEW k \in 1 .. m, k - 1 \in S PROVE k \in S
  <2>1. PICK j \in Nat : j = 4 * (k - 1) /\ 4 * k = j + 4 /\ j + 4 <= n
    BY <1>0
  <2>2. /\ j + 1 \in 1 .. n /\ j + 2 \in 1 .. n /\ j + 3 \in 1 .. n /\ j + 4 \in 1 .. n
        /\ (j + 1) - 1 = j /\ (j + 2) - 1 = j + 1 /\ (j + 3) - 1 = j + 2
        /\ (j + 4) - 1 = j + 3
    BY <2>1
  <2>3. /\ s[j + 1] = s[j] + h[j + 1] /\ s[j + 2] = s[j + 1] + h[j + 2]
        /\ s[j + 3] = s[j + 2] + h[j + 3] /\ s[j + 4] = s[j + 3] + h[j + 4]
    BY <1>1, <2>2
  <2>4. /\ a[k] = a[k - 1] + h[j + 1] /\ b[k] = b[k - 1] + h[j + 2]
        /\ c[k] = c[k - 1] + h[j + 3] /\ d[k] = d[k - 1] + h[j + 4]
    BY <1>2, <1>3, <1>4, <1>5, <2>1
  <2>5. s[j] = a[k - 1] + b[k - 1] + c[k - 1] + d[k - 1]
    BY <1>7, <2>1
  <2>6. PICK e1 \in Int, e2 \in Int, e3 \in Int, e4 \in Int,
             f1 \in Int, f2 \in Int, f3 \in Int, f4 \in Int :
          /\ e1 = h[j + 1] /\ e2 = h[j + 2] /\ e3 = h[j + 3] /\ e4 = h[j + 4]
          /\ f1 = a[k - 1] /\ f2 = b[k - 1] /\ f3 = c[k - 1] /\ f4 = d[k - 1]
    <3>1. k - 1 \in 0 .. m
      OBVIOUS
    <3>2. h[j + 1] \in Int /\ h[j + 2] \in Int /\ h[j + 3] \in Int /\ h[j + 4] \in Int
      BY <1>0, <2>2
    <3>3. a[k - 1] \in Int /\ b[k - 1] \in Int /\ c[k - 1] \in Int /\ d[k - 1] \in Int
      BY <1>2, <1>3, <1>4, <1>5, <3>1
    <3> QED
      BY <3>2, <3>3
  <2>7. s[j + 4] = f1 + f2 + f3 + f4 + e1 + e2 + e3 + e4
    <3>1. s[j] = f1 + f2 + f3 + f4
      BY <2>5, <2>6
    <3>2. s[j + 1] = s[j] + e1 /\ s[j + 2] = s[j + 1] + e2
          /\ s[j + 3] = s[j + 2] + e3 /\ s[j + 4] = s[j + 3] + e4
      BY <2>3, <2>6
    <3> QED
      BY <3>1, <3>2
  <2>8. a[k] = f1 + e1 /\ b[k] = f2 + e2 /\ c[k] = f3 + e3 /\ d[k] = f4 + e4
    BY <2>4, <2>6
  <2>9. s[4 * k] = a[k] + b[k] + c[k] + d[k]
    BY <2>1, <2>7, <2>8
  <2> QED
    BY <2>9
<1>8. S \in SUBSET Nat
  OBVIOUS
<1> HIDE DEF S
<1>9. m \in S
  <2>1. \A k \in 0 .. m : k \in S
    BY <1>6, <1>7, <1>8, Upwards
  <2> QED
    BY <2>1
<1> USE DEF S
<1> QED
  BY <1>9

\* What the lanes leave adds up to what is missing.
LEMMA RestAddsUp ==
  ASSUME NEW n \in Nat, NEW m \in Nat, NEW r \in Nat, n = 4 * m + r,
         NEW h, \A k \in 1 .. n : h[k] \in Int, NEW s, Adds(h, n, s),
         NEW a, Adds(RestOf(h, m, r), r, a)
  PROVE  s[n] = s[4 * m] + a[r]
<1>1. /\ s \in [0 .. n -> Int]
      /\ \A k \in 1 .. n : s[k] = s[k - 1] + h[k]
  BY DEF Adds
<1>2. /\ a \in [0 .. r -> Int] /\ a[0] = 0
      /\ \A k \in 1 .. r : a[k] = a[k - 1] + h[4 * m + k]
  BY DEF Adds, RestOf
<1> DEFINE S == {k \in Nat : k <= r => s[4 * m + k] = s[4 * m] + a[k]}
<1>3. s[4 * m] \in Int
  <2>1. 4 * m \in 0 .. n
    OBVIOUS
  <2> QED
    BY <1>1, <2>1
<1>4. 0 \in S
  BY <1>2, <1>3
<1>5. ASSUME NEW k \in 1 .. r, k - 1 \in S PROVE k \in S
  <2>1. PICK j \in Nat : j = 4 * m + k /\ j \in 1 .. n /\ j - 1 = 4 * m + (k - 1)
    OBVIOUS
  <2>2. k - 1 \in 0 .. r
    OBVIOUS
  <2>3. PICK e \in Int, f \in Int, g \in Int : e = s[4 * m] /\ f = a[k - 1] /\ g = h[j]
    BY <1>2, <1>3, <2>1, <2>2
  <2>4. s[j - 1] = e + f
    BY <1>5, <2>1, <2>3
  <2>5. s[j] = (e + f) + g /\ a[k] = f + g
    BY <1>1, <1>2, <2>1, <2>3, <2>4
  <2> QED
    BY <2>1, <2>3, <2>5
<1>6. S \in SUBSET Nat
  OBVIOUS
<1> HIDE DEF S
<1>7. r \in S
  <2>1. \A k \in 0 .. r : k \in S
    BY <1>4, <1>5, <1>6, Upwards
  <2> QED
    BY <2>1
<1> USE DEF S
<1> QED
  BY <1>7

\* One lane holds its sum, within its magnitudes.
LEMMA LaneIsSum ==
  ASSUME NEW n \in Nat, NEW m \in Nat, 4 * m <= n, NEW i \in 1 .. 4,
         NEW q, \A k \in 1 .. n : q[k] \in Int,
         NEW a, Adds(LaneOf(q, m, i), m, a),
         NEW b, Adds(LaneOf(Absolute(q, n), m, i), m, b), b[m] <= X!MAX
  PROVE  /\ X!Folded(0, LaneOf(q, m, i), m) = a[m]
         /\ a[m] \in Int /\ b[m] \in Nat /\ X!Abs(a[m]) <= b[m]
<1>1. \A c \in 1 .. m : 4 * (c - 1) + i \in 1 .. n
  OBVIOUS
<1>2. \A c \in 1 .. m : LaneOf(q, m, i)[c] \in Int
  BY <1>1 DEF LaneOf
<1>3. LaneOf(Absolute(q, n), m, i) = Absolute(LaneOf(q, m, i), m)
  BY <1>1 DEF LaneOf, Absolute
<1>4. a[m] \in Int /\ b[m] \in Int
  BY DEF Adds
<1>5. b[m] \in Nat
  BY <1>2, <1>3, MagnitudesRise
<1>6. X!Abs(0) = 0 /\ 0 \in Int
  BY DEF X!Abs
<1>7. X!Abs(0) + b[m] <= X!MAX
  BY <1>4, <1>6
<1>8. /\ X!Folded(0, LaneOf(q, m, i), m) = 0 + a[m]
      /\ X!Abs(0 + a[m]) <= X!Abs(0) + b[m]
  BY <1>2, <1>3, <1>6, <1>7, FoldedIsSum
<1> QED
  BY <1>4, <1>5, <1>6, <1>8

\* An addition of which the magnitudes fit is exact.
LEMMA AddIsExact ==
  ASSUME NEW a \in Int, NEW b \in Int, NEW c \in Int, NEW d \in Int,
         X!Abs(a) <= c, X!Abs(b) <= d, c + d <= X!MAX
  PROVE  X!Add(a, b) = a + b /\ X!Abs(a + b) <= c + d
<1>1. X!MAX \in Nat /\ X!MIN = -X!MAX - 1
  BY WordAssumption DEF X!MIN
<1>2. a <= c /\ -c <= a /\ b <= d /\ -d <= b
  BY DEF X!Abs
<1>3. a + b <= c + d /\ -(c + d) <= a + b
  BY <1>2
<1>4. ~(a + b > X!MAX) /\ ~(a + b < X!MIN)
  BY <1>1, <1>3
<1>5. X!Add(a, b) = a + b
  BY <1>4 DEF X!Add, X!Sat
<1>6. X!Abs(a + b) <= c + d
  <2>1. PICK e \in Int, f \in Int : e = a + b /\ f = c + d /\ e <= f /\ -f <= e
    BY <1>3
  <2>2. X!Abs(e) <= f
    BY <2>1 DEF X!Abs
  <2> QED
    BY <2>1, <2>2
<1> QED
  BY <1>5, <1>6

\* Accumulators within magnitudes that fit together.
Fitting(a1, a2, a3, a4, b1, b2, b3, b4) ==
  /\ {a1, a2, a3, a4} \subseteq Int /\ {b1, b2, b3, b4} \subseteq Nat
  /\ X!Abs(a1) <= b1 /\ X!Abs(a2) <= b2 /\ X!Abs(a3) <= b3 /\ X!Abs(a4) <= b4
  /\ ((b1 + b2) + b3) + b4 <= X!MAX

\* The additions of such accumulators are exact.
LEMMA FourAreExact ==
  ASSUME NEW a1, NEW a2, NEW a3, NEW a4, NEW b1, NEW b2, NEW b3, NEW b4,
         Fitting(a1, a2, a3, a4, b1, b2, b3, b4)
  PROVE  /\ X!Add(X!Add(X!Add(a1, a2), a3), a4) = ((a1 + a2) + a3) + a4
         /\ X!Abs(((a1 + a2) + a3) + a4) <= ((b1 + b2) + b3) + b4
<1>1. X!MAX \in Nat
  BY WordAssumption
<1>i. a1 \in Int /\ a2 \in Int /\ a3 \in Int /\ a4 \in Int
  BY DEF Fitting
<1>n. b1 \in Nat /\ b2 \in Nat /\ b3 \in Nat /\ b4 \in Nat
  BY DEF Fitting
<1>f. /\ X!Abs(a1) <= b1 /\ X!Abs(a2) <= b2 /\ X!Abs(a3) <= b3 /\ X!Abs(a4) <= b4
      /\ ((b1 + b2) + b3) + b4 <= X!MAX
  BY DEF Fitting
<1>2. b1 + b2 <= X!MAX /\ (b1 + b2) + b3 <= X!MAX
  BY <1>1, <1>n, <1>f
<1>3. X!Add(a1, a2) = a1 + a2 /\ X!Abs(a1 + a2) <= b1 + b2
  BY <1>i, <1>n, <1>f, <1>2, AddIsExact
<1>4. a1 + a2 \in Int /\ b1 + b2 \in Int /\ (a1 + a2) + a3 \in Int /\ (b1 + b2) + b3 \in Int
  BY <1>i, <1>n
<1>5. X!Add(a1 + a2, a3) = (a1 + a2) + a3 /\ X!Abs((a1 + a2) + a3) <= (b1 + b2) + b3
  BY <1>i, <1>n, <1>f, <1>2, <1>3, <1>4, AddIsExact
<1>6. /\ X!Add((a1 + a2) + a3, a4) = ((a1 + a2) + a3) + a4
      /\ X!Abs(((a1 + a2) + a3) + a4) <= ((b1 + b2) + b3) + b4
  <2>1. PICK e \in Int, f \in Int : e = (a1 + a2) + a3 /\ f = (b1 + b2) + b3
    BY <1>4
  <2>2. X!Abs(e) <= f /\ f + b4 <= X!MAX
    BY <1>f, <1>5, <2>1
  <2>3. X!Add(e, a4) = e + a4 /\ X!Abs(e + a4) <= f + b4
    BY <1>i, <1>n, <1>f, <2>2, AddIsExact
  <2> QED
    BY <2>1, <2>3
<1> QED
  BY <1>3, <1>5, <1>6

\* Magnitudes of four accumulators and of what comes after them that fit.
Together(d1, d2, d3, d4, d5) == (((d1 + d2) + d3) + d4) + d5 <= X!MAX

\* Of magnitudes that fit together, each fits.
LEMMA PartsFit ==
  ASSUME NEW d1 \in Nat, NEW d2 \in Nat, NEW d3 \in Nat, NEW d4 \in Nat, NEW d5 \in Nat,
         Together(d1, d2, d3, d4, d5)
  PROVE  /\ d1 <= X!MAX /\ d2 <= X!MAX /\ d3 <= X!MAX /\ d4 <= X!MAX
         /\ ((d1 + d2) + d3) + d4 <= X!MAX
<1>1. PICK e \in Nat : e = X!MAX
  BY WordAssumption
<1>2. /\ d1 <= e /\ d2 <= e /\ d3 <= e /\ d4 <= e
      /\ ((d1 + d2) + d3) + d4 <= e
  BY <1>1 DEF Together
<1> QED
  BY <1>1, <1>2

\* Accumulators within their magnitudes, which fit with what u and v add up of
\* the r places of g that come after them.
Within(g, r, u, v, c1, c2, c3, c4, d1, d2, d3, d4) ==
  /\ \A c \in 1 .. r : g[c] \in Int
  /\ Adds(g, r, u) /\ Adds(Absolute(g, r), r, v)
  /\ {c1, c2, c3, c4} \subseteq Int /\ {d1, d2, d3, d4, v[r]} \subseteq Nat
  /\ X!Abs(c1) <= d1 /\ X!Abs(c2) <= d2 /\ X!Abs(c3) <= d3 /\ X!Abs(c4) <= d4
  /\ Together(d1, d2, d3, d4, v[r])

\* Four accumulators, then the rest, hold the sum of all the places.
LEMMA FourHoldTheSum ==
  ASSUME NEW g, NEW r \in Nat, NEW u, NEW v, NEW c1, NEW c2, NEW c3, NEW c4,
         NEW d1, NEW d2, NEW d3, NEW d4,
         Within(g, r, u, v, c1, c2, c3, c4, d1, d2, d3, d4)
  PROVE  X!Folded(X!Add(X!Add(X!Add(c1, c2), c3), c4), g, r)
           = (((c1 + c2) + c3) + c4) + u[r]
<1>i. c1 \in Int /\ c2 \in Int /\ c3 \in Int /\ c4 \in Int
  BY DEF Within
<1>d. /\ d1 \in Nat /\ d2 \in Nat /\ d3 \in Nat /\ d4 \in Nat /\ v[r] \in Nat
      /\ Together(d1, d2, d3, d4, v[r])
  BY DEF Within
<1>5. PICK d5 \in Nat : d5 = v[r] /\ Together(d1, d2, d3, d4, d5)
  BY <1>d
<1>1. /\ X!Add(X!Add(X!Add(c1, c2), c3), c4) = ((c1 + c2) + c3) + c4
      /\ X!Abs(((c1 + c2) + c3) + c4) <= ((d1 + d2) + d3) + d4
  <2>1. ((d1 + d2) + d3) + d4 <= X!MAX
    BY <1>d, <1>5, PartsFit
  <2>2. Fitting(c1, c2, c3, c4, d1, d2, d3, d4)
    BY <2>1 DEF Within, Fitting
  <2> QED
    BY <2>2, FourAreExact
<1>2. PICK a \in Int : a = ((c1 + c2) + c3) + c4
  BY <1>i
<1>3. PICK f \in Int : f = ((d1 + d2) + d3) + d4
  BY <1>d
<1>6. PICK z \in Int : z = X!MAX
  BY WordAssumption
<1>7. PICK e \in Int : e = X!Abs(a)
  BY DEF X!Abs
<1>8. e + d5 <= z
  <2>1. e <= f
    BY <1>1, <1>2, <1>3, <1>7
  <2>2. f + d5 <= z
    BY <1>3, <1>5, <1>6 DEF Together
  <2> QED
    BY <2>1, <2>2
<1>9. X!Abs(a) + v[r] <= X!MAX
  BY <1>5, <1>6, <1>7, <1>8
<1>10. X!Folded(a, g, r) = a + u[r]
  BY <1>9, FoldedIsSum DEF Within
<1> QED
  BY <1>1, <1>2, <1>10

\* On a vector that fits, four accumulators and one give the same sum.
LEMMA SumsAgree ==
  ASSUME NEW n \in Nat, NEW q \in [1 .. n -> Int], X!Fits(q)
  PROVE  X!SumSimd(q) = X!SumPlain(q)
<1> DEFINE m == n \div 4
           r == n % 4
<1>0. q \in Seq(Int) /\ Len(q) = n
  OBVIOUS
<1>1. m \in Nat /\ r \in Nat /\ n = 4 * m + r /\ 4 * m <= n
  OBVIOUS
<1>2. \A k \in 1 .. n : q[k] \in Int
  OBVIOUS
<1>3. /\ X!SumPlain(q) = X!Folded(0, q, n)
      /\ X!Lane(q, 1) = X!Folded(0, LaneOf(q, m, 1), m)
      /\ X!Lane(q, 2) = X!Folded(0, LaneOf(q, m, 2), m)
      /\ X!Lane(q, 3) = X!Folded(0, LaneOf(q, m, 3), m)
      /\ X!Lane(q, 4) = X!Folded(0, LaneOf(q, m, 4), m)
      /\ X!SumSimd(q) = X!Folded(X!Add(X!Add(X!Add(X!Lane(q, 1), X!Lane(q, 2)),
                                              X!Lane(q, 3)), X!Lane(q, 4)),
                                 RestOf(q, m, r), r)
  BY <1>0 DEF X!SumPlain, X!Lane, X!SumSimd, X!Rest, X!Chunks, LaneOf, RestOf
<1> HIDE DEF m, r
<1>h. PICK h : h = Absolute(q, n)
  OBVIOUS
<1>4. \A k \in 1 .. n : h[k] \in Int
  BY <1>h, <1>2 DEF Absolute, X!Abs
<1>5. \A i \in 1 .. 4 : \A c \in 1 .. m : 4 * (c - 1) + i \in 1 .. n
  BY <1>1
<1>6. \A c \in 1 .. r : 4 * m + c \in 1 .. n
  BY <1>1
<1>7. \A i \in 1 .. 4 : \A c \in 1 .. m :
        LaneOf(q, m, i)[c] \in Int /\ LaneOf(h, m, i)[c] \in Int
  BY <1>2, <1>4, <1>5 DEF LaneOf
<1>8. \A c \in 1 .. r : RestOf(q, m, r)[c] \in Int /\ RestOf(h, m, r)[c] \in Int
  BY <1>2, <1>4, <1>6 DEF RestOf
<1>9. PICK s : Adds(q, n, s)
  BY <1>2, TotalExists
<1>10. PICK t : Adds(h, n, t)
  BY <1>4, TotalExists
<1> DEFINE Lanes(i, a, b) == Adds(LaneOf(q, m, i), m, a) /\ Adds(LaneOf(h, m, i), m, b)
<1>11. ASSUME NEW i \in 1 .. 4 PROVE \E a, b : Lanes(i, a, b)
  <2>1. /\ \A c \in 1 .. m : LaneOf(q, m, i)[c] \in Int
        /\ \A c \in 1 .. m : LaneOf(h, m, i)[c] \in Int
    BY <1>7
  <2>2. PICK a : Adds(LaneOf(q, m, i), m, a)
    BY <1>1, <2>1, TotalExists
  <2>3. PICK b : Adds(LaneOf(h, m, i), m, b)
    BY <1>1, <2>1, TotalExists
  <2> QED
    BY <2>2, <2>3
<1>12. /\ 1 \in 1 .. 4 /\ 2 \in 1 .. 4 /\ 3 \in 1 .. 4 /\ 4 \in 1 .. 4
  OBVIOUS
<1>13. PICK a1, b1 : Lanes(1, a1, b1)
  BY <1>11, <1>12
<1>14. PICK a2, b2 : Lanes(2, a2, b2)
  BY <1>11, <1>12
<1>15. PICK a3, b3 : Lanes(3, a3, b3)
  BY <1>11, <1>12
<1>16. PICK a4, b4 : Lanes(4, a4, b4)
  BY <1>11, <1>12
<1>17. PICK u : Adds(RestOf(q, m, r), r, u)
  BY <1>1, <1>8, TotalExists
<1>18. PICK v : Adds(RestOf(h, m, r), r, v)
  BY <1>1, <1>8, TotalExists
<1>19. s[4 * m] = a1[m] + a2[m] + a3[m] + a4[m] /\ s[n] = s[4 * m] + u[r]
  <2>1. s[4 * m] = a1[m] + a2[m] + a3[m] + a4[m]
    <3>1. LaneSums(q, n, s, m, a1, a2, a3, a4)
      BY <1>1, <1>2, <1>9, <1>13, <1>14, <1>15, <1>16 DEF LaneSums
    <3> HIDE DEF Lanes
    <3> QED
      BY <1>1, <3>1, LanesAddUp
  <2>2. s[n] = s[4 * m] + u[r]
    BY <1>1, <1>2, <1>9, <1>17, RestAddsUp
  <2> QED
    BY <2>1, <2>2
<1>20. t[4 * m] = b1[m] + b2[m] + b3[m] + b4[m] /\ t[n] = t[4 * m] + v[r]
  <2>1. t[4 * m] = b1[m] + b2[m] + b3[m] + b4[m]
    <3>1. LaneSums(h, n, t, m, b1, b2, b3, b4)
      BY <1>1, <1>4, <1>10, <1>13, <1>14, <1>15, <1>16 DEF LaneSums
    <3> HIDE DEF Lanes
    <3> QED
      BY <1>1, <3>1, LanesAddUp
  <2>2. t[n] = t[4 * m] + v[r]
    BY <1>1, <1>4, <1>10, <1>18, RestAddsUp
  <2> QED
    BY <2>1, <2>2
<1>21. t[n] <= X!MAX /\ X!MAX \in Nat
  <2>1. X!Size(q) = t[n]
    BY <1>h, <1>0, <1>2, <1>10, SizeAddsUp
  <2> QED
    BY <2>1, WordAssumption DEF X!Fits
<1>22. /\ a1[m] \in Int /\ a2[m] \in Int /\ a3[m] \in Int /\ a4[m] \in Int
       /\ b1[m] \in Nat /\ b2[m] \in Nat /\ b3[m] \in Nat /\ b4[m] \in Nat
       /\ u[r] \in Int /\ v[r] \in Nat
  <2>1. /\ m \in 0 .. m /\ r \in 0 .. r
    BY <1>1
  <2>2. /\ a1[m] \in Int /\ a2[m] \in Int /\ a3[m] \in Int /\ a4[m] \in Int
        /\ u[r] \in Int
    BY <1>13, <1>14, <1>15, <1>16, <1>17, <2>1 DEF Adds
  <2>3. \A i \in 1 .. 4 : LaneOf(h, m, i) = Absolute(LaneOf(q, m, i), m)
    BY <1>h, <1>5 DEF LaneOf, Absolute
  <2>4. RestOf(h, m, r) = Absolute(RestOf(q, m, r), r)
    BY <1>h, <1>6 DEF RestOf, Absolute
  <2>5. ASSUME NEW i \in 1 .. 4, NEW a, NEW b, Lanes(i, a, b) PROVE b[m] \in Nat
    <3>1. Adds(Absolute(LaneOf(q, m, i), m), m, b)
      BY <2>3, <2>5
    <3>2. \A c \in 1 .. m : LaneOf(q, m, i)[c] \in Int
      BY <1>7
    <3> QED
      BY <1>1, <2>1, <3>1, <3>2, MagnitudesRise
  <2>6. v[r] \in Nat
    <3>1. Adds(Absolute(RestOf(q, m, r), r), r, v)
      BY <1>18, <2>4
    <3>2. \A c \in 1 .. r : RestOf(q, m, r)[c] \in Int
      BY <1>8
    <3> QED
      BY <1>1, <2>1, <3>1, <3>2, MagnitudesRise
  <2> HIDE DEF Lanes
  <2> QED
    BY <1>12, <1>13, <1>14, <1>15, <1>16, <2>2, <2>5, <2>6
<1>23. PICK c1 \in Int : c1 = a1[m]
  BY <1>22
<1>24. PICK c2 \in Int : c2 = a2[m]
  BY <1>22
<1>25. PICK c3 \in Int : c3 = a3[m]
  BY <1>22
<1>26. PICK c4 \in Int : c4 = a4[m]
  BY <1>22
<1>27. PICK c5 \in Int : c5 = u[r]
  BY <1>22
<1>28. PICK d1 \in Nat : d1 = b1[m]
  BY <1>22
<1>29. PICK d2 \in Nat : d2 = b2[m]
  BY <1>22
<1>30. PICK d3 \in Nat : d3 = b3[m]
  BY <1>22
<1>31. PICK d4 \in Nat : d4 = b4[m]
  BY <1>22
<1>32. PICK d5 \in Nat : d5 = v[r]
  BY <1>22
<1>33. Together(d1, d2, d3, d4, d5)
  <2>1. t[n] = (((d1 + d2) + d3) + d4) + d5
    BY <1>20, <1>28, <1>29, <1>30, <1>31, <1>32
  <2> QED
    BY <1>21, <2>1 DEF Together
<1>34. s[n] = (((c1 + c2) + c3) + c4) + c5
  BY <1>19, <1>23, <1>24, <1>25, <1>26, <1>27
<1>35. d1 <= X!MAX /\ d2 <= X!MAX /\ d3 <= X!MAX /\ d4 <= X!MAX
  BY <1>33, PartsFit
<1>36. ASSUME NEW i \in 1 .. 4, NEW a, NEW b, Lanes(i, a, b), b[m] <= X!MAX
       PROVE  X!Folded(0, LaneOf(q, m, i), m) = a[m] /\ X!Abs(a[m]) <= b[m]
  <2>1. Adds(LaneOf(q, m, i), m, a) /\ Adds(LaneOf(Absolute(q, n), m, i), m, b)
    BY <1>h, <1>36
  <2>2. n \in Nat /\ m \in Nat /\ 4 * m <= n
    BY <1>1
  <2> QED
    BY <1>2, <1>36, <2>1, <2>2, LaneIsSum
<1> HIDE DEF Lanes
<1>37. X!Lane(q, 1) = c1 /\ X!Abs(c1) <= d1
  BY <1>3, <1>12, <1>13, <1>23, <1>28, <1>35, <1>36
<1>38. X!Lane(q, 2) = c2 /\ X!Abs(c2) <= d2
  BY <1>3, <1>12, <1>14, <1>24, <1>29, <1>35, <1>36
<1>39. X!Lane(q, 3) = c3 /\ X!Abs(c3) <= d3
  BY <1>3, <1>12, <1>15, <1>25, <1>30, <1>35, <1>36
<1>40. X!Lane(q, 4) = c4 /\ X!Abs(c4) <= d4
  BY <1>3, <1>12, <1>16, <1>26, <1>31, <1>35, <1>36
<1>41. X!SumSimd(q) = s[n]
  <2>1. RestOf(h, m, r) = Absolute(RestOf(q, m, r), r)
    BY <1>h, <1>6 DEF RestOf, Absolute
  <2>2. Adds(Absolute(RestOf(q, m, r), r), r, v)
    BY <1>18, <2>1
  <2>3. \A c \in 1 .. r : RestOf(q, m, r)[c] \in Int
    BY <1>8
  <2>4. m \in Nat /\ r \in Nat
    BY <1>1
  <2>5. Within(RestOf(q, m, r), r, u, v, c1, c2, c3, c4, d1, d2, d3, d4)
    BY <1>17, <1>32, <1>33, <1>37, <1>38, <1>39, <1>40, <2>2, <2>3 DEF Within
  <2>6. X!Folded(X!Add(X!Add(X!Add(c1, c2), c3), c4), RestOf(q, m, r), r)
          = (((c1 + c2) + c3) + c4) + c5
    BY <1>27, <2>4, <2>5, FourHoldTheSum
  <2> QED
    BY <1>3, <1>34, <1>37, <1>38, <1>39, <1>40, <2>6
<1>42. X!Folded(0, q, n) = s[n]
  <2>1. X!Abs(0) = 0 /\ 0 \in Int
    BY DEF X!Abs
  <2>2. s[n] \in Int /\ t[n] \in Int
    BY <1>9, <1>10 DEF Adds
  <2>3. X!Abs(0) + t[n] <= X!MAX
    BY <1>21, <2>1, <2>2
  <2>4. Adds(Absolute(q, n), n, t)
    BY <1>h, <1>10
  <2>5. X!Folded(0, q, n) = 0 + s[n]
    BY <1>2, <1>9, <2>1, <2>3, <2>4, FoldedIsSum
  <2> QED
    BY <2>2, <2>5
<1> QED
  BY <1>3, <1>41, <1>42

\* The vector looked at has whole numbers in its places.
VectorInv == vector \in [1 .. Dim -> Int]

\* For every width of a word and every vector: the plain build and the one
\* with four accumulators give the same sums and products wherever no order of
\* adding can saturate (Vector::sum, Vector::dot).
THEOREM BuildsStayAlike == MachineSpec => [](part = "arithmetic" => X!BuildsAgree)
<1>1. MachineInit => VectorInv
  BY WordAssumption DEF MachineInit, X!Init, X!Zero, VectorInv
<1>2. VectorInv /\ [MachineNext]_machineVars => VectorInv'
  <2>1. VectorInv /\ UNCHANGED arithmetic => VectorInv'
    BY DEF arithmetic, VectorInv
  <2>2. VectorInv /\ X!Next => VectorInv'
    <3>1. X!Zero \in [1 .. Dim -> Int]
      BY DEF X!Zero
    <3>2. \A w \in [1 .. Dim -> Loads] : w \in [1 .. Dim -> Int]
      BY WordAssumption
    <3> QED
      BY <3>1, <3>2 DEF VectorInv, X!Next, X!Walk, X!Pick
  <2> QED
    BY <2>1, <2>2 DEF MachineNext, Still, machineVars
<1>3. VectorInv => X!BuildsAgree
  <2> SUFFICES ASSUME VectorInv, NEW q \in {vector, X!Times(vector, vector)}, X!Fits(q)
               PROVE  X!SumSimd(q) = X!SumPlain(q)
    BY DEF X!BuildsAgree
  <2>1. Dim \in Nat /\ vector \in [1 .. Dim -> Int]
    BY WordAssumption DEF VectorInv
  <2>2. Len(vector) = Dim
    BY <2>1
  <2>3. \A a, b \in Int : X!Mul(a, b) \in Int
    <3> SUFFICES ASSUME NEW a \in Int, NEW b \in Int PROVE X!Mul(a, b) \in Int
      OBVIOUS
    <3>1. PICK c \in Int : c = a * b
      OBVIOUS
    <3>2. PICK d \in Int : d = c \div X!ONE
      BY WordAssumption
    <3>3. X!MAX \in Nat /\ X!MIN = -X!MAX - 1
      BY WordAssumption DEF X!MIN
    <3>4. X!Wrap(d) \in Int
      BY <3>3 DEF X!Wrap
    <3> QED
      BY <3>1, <3>2, <3>4 DEF X!Mul
  <2>4. X!Times(vector, vector) \in [1 .. Dim -> Int]
    BY <2>1, <2>2, <2>3 DEF X!Times
  <2>5. q \in [1 .. Dim -> Int]
    BY <2>1, <2>4
  <2> QED
    BY <2>1, <2>5, SumsAgree
<1> HIDE DEF VectorInv
<1> QED
  BY <1>1, <1>2, <1>3, PTL DEF MachineSpec
-----------------------------------------------------------------------------
(* The curves                                                              *)

\* One, in parts of a thirty-second, and what the constants are next to it.
Scaled(u) ==
  /\ u \in Nat /\ u >= 2 /\ X!ONE = 32 * u
  /\ X!LN2 \in Nat /\ 16 * u <= X!LN2 /\ X!LN2 <= 24 * u
  /\ X!LN2_2 \in Nat /\ X!LN2_2 <= 52 * u
  /\ X!LN2_3 \in Nat /\ X!LN2_3 <= 32 * u
  /\ X!MAX \in Nat /\ 96 * u <= X!MAX /\ X!MIN = -X!MAX - 1

(* The sizes the curves need of the constants. *)
LEMMA CurveSizes == \E u : Scaled(u)
<1>1. X!ONE \in Nat \ {0} /\ X!MAX \in Nat /\ X!MIN = -X!MAX - 1
  BY WordAssumption DEF X!MIN
<1>2. X!ONE % 32 = 0 /\ X!ONE >= 64 /\ Limit \in Nat /\ Limit >= 2
      /\ (Limit + 2) * X!ONE <= X!MAX
  BY CurveAssumption
<1>3. PICK u \in Nat : u = X!ONE \div 32 /\ X!ONE = 32 * u
  BY <1>1, <1>2
<1>4. u >= 2
  BY <1>2, <1>3
<1>5. 96 * u <= X!MAX
  <2>1. PICK e \in Nat : Limit = 1 + e
    <3>1. Limit - 1 \in Nat /\ Limit = 1 + (Limit - 1)
      BY <1>2
    <3> QED
      BY <3>1
  <2>2. (Limit + 2) * X!ONE = 3 * X!ONE + e * X!ONE /\ e * X!ONE \in Nat
    BY <1>1, <2>1
  <2> QED
    BY <1>1, <1>2, <1>3, <2>2
<1>6. /\ X!LN2 \in Nat /\ X!ONE <= 2 * X!LN2 /\ 4 * X!LN2 <= 3 * X!ONE
      /\ X!LN2_2 \in Nat /\ 8 * X!LN2_2 <= 13 * X!ONE
      /\ X!LN2_3 \in Nat /\ X!LN2_3 <= X!ONE
  BY CurveAssumption
<1>7. /\ 16 * u <= X!LN2 /\ X!LN2 <= 24 * u /\ X!LN2_2 <= 52 * u
      /\ X!LN2_3 <= 32 * u
  BY <1>3, <1>6
<1> QED
  BY <1>1, <1>3, <1>4, <1>5, <1>6, <1>7 DEF Scaled

\* Quotients, from both sides.
LEMMA QuotientSides ==
  ASSUME NEW d \in Nat \ {0}, NEW m \in Int, NEW n \in Int
  PROVE  /\ n \div d \in Int
         /\ m * d <= n => m <= n \div d
         /\ n <= m * d => n \div d <= m
         /\ n < m * d => n \div d < m
<1>1. PICK q \in Int : q = n \div d
  OBVIOUS
<1>2. PICK p \in Int : p = d * q
  OBVIOUS
<1>3. p <= n /\ n < p + d
  BY <1>1, <1>2
<1>4. PICK e \in Int : e = m - q
  OBVIOUS
<1>5. m * d = p + d * e /\ d * e \in Int /\ m * d \in Int
  BY <1>2, <1>4
<1>6. (e >= 1 => d * e >= d) /\ (e <= 0 => d * e <= 0) /\ (e <= -1 => d * e <= -d)
  <2>1. e >= 1 => d * e >= d
    OBVIOUS
  <2>2. e <= 0 => d * e <= 0
    OBVIOUS
  <2>3. e <= -1 => d * e <= -d
    OBVIOUS
  <2> QED
    BY <2>1, <2>2, <2>3
<1>7. m * d <= n => e <= 0
  BY <1>3, <1>5, <1>6
<1>8. n <= m * d => e >= 0
  BY <1>3, <1>5, <1>6
<1>9. n < m * d => e >= 1
  BY <1>3, <1>5, <1>6
<1> QED
  BY <1>1, <1>4, <1>7, <1>8, <1>9

\* What a word holds is not wrapped, nor saturated.
LEMMA WordHolds ==
  ASSUME NEW n \in X!MIN .. X!MAX
  PROVE  X!Wrap(n) = n /\ X!Sat(n) = n
<1>1. X!MAX \in Nat /\ X!MIN = -X!MAX - 1
  BY WordAssumption DEF X!MIN
<1>2. n \in Int /\ n >= X!MIN /\ n <= X!MAX
  BY <1>1
<1>3. PICK m \in Nat \ {0}, k \in Nat : m = X!MAX - X!MIN + 1 /\ k = n - X!MIN
  BY <1>1, <1>2
<1>4. k < m
  BY <1>1, <1>2, <1>3
<1>5. k % m = k
  <2>1. k = m * 0 + k /\ k \in 0 .. m - 1
    BY <1>4
  <2> QED
    BY <2>1
<1>6. X!Wrap(n) = k + X!MIN
  BY <1>3, <1>5 DEF X!Wrap
<1>7. k + X!MIN = n
  BY <1>1, <1>2, <1>3
<1> QED
  BY <1>1, <1>2, <1>6, <1>7 DEF X!Sat

\* A sum and a product between numbers of a word.
LEMMA SumHolds ==
  ASSUME NEW a \in Int, NEW b \in Int, a + b \in X!MIN .. X!MAX
  PROVE  X!Add(a, b) = a + b
BY WordHolds DEF X!Add

(* A product whose factors stay in their ranges is not wrapped by the
   multiplication of math.rs. *)
LEMMA ProductHolds ==
  ASSUME NEW a \in Int, NEW b \in Int, NEW lo \in X!MIN .. X!MAX, NEW hi \in X!MIN .. X!MAX,
         lo * X!ONE <= a * b, a * b <= hi * X!ONE
  PROVE  X!Mul(a, b) \in Int /\ lo <= X!Mul(a, b) /\ X!Mul(a, b) <= hi
<1>1. X!MAX \in Nat /\ X!MIN = -X!MAX - 1 /\ X!ONE \in Nat \ {0}
  BY WordAssumption DEF X!MIN
<1>2. PICK p \in Int : p = a * b
  OBVIOUS
<1>3. lo \in Int /\ hi \in Int
  BY <1>1
<1>4. PICK q \in Int : q = p \div X!ONE /\ lo <= q /\ q <= hi
  BY <1>1, <1>2, <1>3, QuotientSides
<1>5. q \in X!MIN .. X!MAX
  BY <1>1, <1>3, <1>4
<1>6. X!Mul(a, b) = q
  BY <1>2, <1>4, <1>5, WordHolds DEF X!Mul
<1> QED
  BY <1>4, <1>6

\* A factor up to a and one between -b and c.
LEMMA ProductSides ==
  ASSUME NEW m \in Nat, NEW f \in Int, NEW a \in Nat, NEW b \in Nat, NEW c \in Nat,
         m <= a, -b <= f, f <= c
  PROVE  m * f \in Int /\ -(a * b) <= m * f /\ m * f <= a * c
<1>1. m * f <= a * c
  <2>1. PICK d \in Nat : d = a - m
    OBVIOUS
  <2>2. PICK e \in Nat : e = c - f
    OBVIOUS
  <2>3. a * c = m * c + d * c /\ m * c = m * f + m * e
    BY <2>1, <2>2
  <2>4. d * c \in Nat /\ m * e \in Nat /\ m * f \in Int
    OBVIOUS
  <2> QED
    BY <2>3, <2>4
<1>2. -(a * b) <= m * f
  <2>1. PICK d \in Nat : d = a - m
    OBVIOUS
  <2>2. PICK e \in Nat : e = f + b
    OBVIOUS
  <2>3. a * b = m * b + d * b /\ m * f = m * e - m * b
    BY <2>1, <2>2
  <2>4. d * b \in Nat /\ m * e \in Nat /\ m * b \in Nat
    OBVIOUS
  <2> QED
    BY <2>3, <2>4
<1> QED
  BY <1>1, <1>2

\* The polynomial of exp, of a fraction.
Poly(f) ==
  LET f2 == X!Mul(f, f)
  IN  X!Add(X!Add(X!Add(X!ONE, X!Mul(X!LN2, f)), X!Mul(X!LN2_2, f2)),
            X!Mul(X!LN2_3, X!Mul(f2, f)))

\* It is between a half and two, and in the middle of an octave it is larger
\* just before the fraction turns negative than just after.
LEMMA PolyBounds ==
  ASSUME NEW u, Scaled(u), NEW f \in Int, -(16 * u) <= f, f <= 16 * u
  PROVE  /\ Poly(f) \in Int /\ 16 * u <= Poly(f) /\ Poly(f) <= 61 * u
         /\ f >= 16 * u - 2 => Poly(f) >= 40 * u - 1
         /\ f <= 1 - 16 * u => Poly(f) <= 37 * u + 1
<1>1. u \in Nat /\ u >= 2 /\ X!ONE = 32 * u
  BY DEF Scaled
<1>2. PICK l \in Nat, k \in Nat, c \in Nat :
        /\ l = X!LN2 /\ 16 * u <= l /\ l <= 24 * u
        /\ k = X!LN2_2 /\ k <= 52 * u /\ c = X!LN2_3 /\ c <= 32 * u
  BY DEF Scaled
<1>3. \A n \in Int : -(96 * u) <= n /\ n <= 96 * u => n \in X!MIN .. X!MAX
  BY <1>1 DEF Scaled
<1>4. PICK v \in Nat : v = u * u
  BY <1>1
<1>5. ASSUME NEW m \in Int
      PROVE  (m * u) * X!ONE = (32 * m) * v
  BY <1>1, <1>4
<1> DEFINE f2 == X!Mul(f, f)
           g == X!Mul(X!LN2, f)
           h == X!Mul(X!LN2_2, f2)
           f3 == X!Mul(f2, f)
           j == X!Mul(X!LN2_3, f3)
<1>6. f2 \in Nat /\ f2 <= 8 * u
  <2>1. 0 <= f * f /\ f * f <= 256 * v /\ f * f \in Int
    <3>1. CASE f >= 0
      <4>1. f \in Nat /\ 16 * u \in Nat
        BY <1>1, <3>1
      <4>2. f * f <= (16 * u) * (16 * u)
        BY <4>1, ProductSides
      <4>3. (16 * u) * (16 * u) = 256 * v
        BY <1>1, <1>4
      <4> QED
        BY <4>1, <4>2, <4>3
    <3>2. CASE f < 0
      <4>1. PICK e \in Nat : e = -f
        BY <3>2
      <4>2. e <= 16 * u /\ 16 * u \in Nat
        BY <1>1, <4>1
      <4>3. e * e <= (16 * u) * (16 * u)
        <5>1. -(16 * u) <= e
          BY <1>1, <4>1
        <5> QED
          BY <4>2, <5>1, ProductSides
      <4>4. f * f = e * e /\ e * e \in Nat /\ (16 * u) * (16 * u) = 256 * v
        BY <1>1, <1>4, <4>1
      <4> QED
        BY <4>3, <4>4
    <3> QED
      BY <3>1, <3>2
  <2>2. 0 * X!ONE <= f * f /\ f * f <= (8 * u) * X!ONE
    BY <1>1, <1>5, <2>1
  <2>3. 0 \in X!MIN .. X!MAX /\ 8 * u \in X!MIN .. X!MAX
    BY <1>1, <1>3
  <2>4. f2 \in Int /\ 0 <= f2 /\ f2 <= 8 * u
    BY <2>2, <2>3, ProductHolds
  <2> HIDE DEF f2
  <2> QED
    BY <2>4
<1>7. g \in Int /\ -(12 * u) <= g /\ g <= 12 * u
  <2>1. l * f \in Int /\ -((24 * u) * (16 * u)) <= l * f /\ l * f <= (24 * u) * (16 * u)
    <3>1. 24 * u \in Nat /\ 16 * u \in Nat
      BY <1>1
    <3> QED
      BY <1>2, <3>1, ProductSides
  <2>2. (24 * u) * (16 * u) = 384 * v
    BY <1>1, <1>4
  <2>3. (12 * u) * X!ONE = 384 * v /\ (-(12 * u)) * X!ONE = -(384 * v)
    <3>1. (12 * u) * X!ONE = 384 * v
      BY <1>5
    <3> QED
      BY <1>1, <3>1
  <2>4. -(12 * u) \in X!MIN .. X!MAX /\ 12 * u \in X!MIN .. X!MAX
    BY <1>1, <1>3
  <2>5. (-(12 * u)) * X!ONE <= X!LN2 * f /\ X!LN2 * f <= (12 * u) * X!ONE
    BY <1>2, <2>1, <2>2, <2>3
  <2>6. X!LN2 \in Int
    BY <1>2
  <2> QED
    BY <2>4, <2>5, <2>6, ProductHolds
<1>8. f >= 16 * u - 2 => g >= 8 * u - 1
  <2> SUFFICES ASSUME f >= 16 * u - 2 PROVE g >= 8 * u - 1
    OBVIOUS
  <2>1. PICK e \in Nat, d \in Nat : l = 16 * u + e /\ f = 16 * u - 2 + d
    <3>1. l - 16 * u \in Nat /\ l = 16 * u + (l - 16 * u)
      BY <1>1, <1>2
    <3>2. f - (16 * u - 2) \in Nat /\ f = 16 * u - 2 + (f - (16 * u - 2))
      BY <1>1
    <3> QED
      BY <3>1, <3>2
  <2>2. f \in Nat
    BY <1>1, <2>1
  <2>3. l * f = (16 * u) * f + e * f /\ e * f \in Nat
    BY <1>1, <2>1, <2>2
  <2>4. (16 * u) * f = 256 * v - 32 * u + 16 * (u * d) /\ u * d \in Nat
    BY <1>1, <1>4, <2>1
  <2>5. (8 * u - 1) * X!ONE = 256 * v - 32 * u
    BY <1>1, <1>4
  <2>6. (8 * u - 1) * X!ONE <= X!LN2 * f
    BY <1>1, <1>2, <2>3, <2>4, <2>5
  <2>7. X!LN2 * f <= (12 * u) * X!ONE
    <3>1. 24 * u \in Nat /\ 16 * u \in Nat
      BY <1>1
    <3>2. l * f <= (24 * u) * (16 * u)
      BY <1>2, <3>1, ProductSides
    <3>3. (24 * u) * (16 * u) = 384 * v /\ (12 * u) * X!ONE = 384 * v
      BY <1>1, <1>4
    <3> QED
      BY <1>2, <3>2, <3>3
  <2>8. 8 * u - 1 \in X!MIN .. X!MAX /\ 12 * u \in X!MIN .. X!MAX /\ X!LN2 \in Int
    BY <1>1, <1>2, <1>3
  <2> QED
    BY <2>6, <2>7, <2>8, ProductHolds
<1>9. f <= 1 - 16 * u => g <= 1 - 8 * u
  <2> SUFFICES ASSUME f <= 1 - 16 * u PROVE g <= 1 - 8 * u
    OBVIOUS
  <2>1. PICK e \in Nat, d \in Nat, b \in Nat : l = 16 * u + e /\ b = -f /\ b = 16 * u - 1 + d
    <3>1. l - 16 * u \in Nat /\ l = 16 * u + (l - 16 * u)
      BY <1>1, <1>2
    <3>2. -f - (16 * u - 1) \in Nat /\ -f = 16 * u - 1 + (-f - (16 * u - 1)) /\ -f \in Nat
      BY <1>1
    <3> QED
      BY <3>1, <3>2
  <2>2. l * b = (16 * u) * b + e * b /\ e * b \in Nat
    BY <1>1, <2>1
  <2>3. (16 * u) * b = 256 * v - 16 * u + 16 * (u * d) /\ u * d \in Nat
    BY <1>1, <1>4, <2>1
  <2>4. l * f = -(l * b) /\ l * b \in Nat
    BY <2>1
  <2>5. (1 - 8 * u) * X!ONE = 32 * u - 256 * v
    BY <1>1, <1>4
  <2>6. X!LN2 * f <= (1 - 8 * u) * X!ONE
    BY <1>1, <1>2, <2>2, <2>3, <2>4, <2>5
  <2>7. (-(12 * u)) * X!ONE <= X!LN2 * f
    <3>1. 24 * u \in Nat /\ 16 * u \in Nat
      BY <1>1
    <3>2. -((24 * u) * (16 * u)) <= l * f
      BY <1>2, <3>1, ProductSides
    <3>3. (24 * u) * (16 * u) = 384 * v /\ (-(12 * u)) * X!ONE = -(384 * v)
      BY <1>1, <1>4
    <3> QED
      BY <1>2, <3>2, <3>3
  <2>8. 1 - 8 * u \in X!MIN .. X!MAX /\ -(12 * u) \in X!MIN .. X!MAX /\ X!LN2 \in Int
    BY <1>1, <1>2, <1>3
  <2> QED
    BY <2>6, <2>7, <2>8, ProductHolds
<1> HIDE DEF f2, g
<1>10. h \in Nat /\ h <= 13 * u
  <2>1. 0 <= k * f2 /\ k * f2 <= (52 * u) * (8 * u) /\ k * f2 \in Int
    <3>1. 52 * u \in Nat /\ 8 * u \in Nat /\ k * f2 \in Nat /\ f2 \in Int /\ -(8 * u) <= f2
      BY <1>1, <1>6
    <3>2. k * f2 <= (52 * u) * (8 * u)
      BY <1>2, <1>6, <3>1, ProductSides
    <3> QED
      BY <3>1, <3>2
  <2>2. (52 * u) * (8 * u) = 416 * v /\ (13 * u) * X!ONE = 416 * v /\ 0 * X!ONE = 0
    BY <1>1, <1>4
  <2>3. 0 \in X!MIN .. X!MAX /\ 13 * u \in X!MIN .. X!MAX /\ X!LN2_2 \in Int
    BY <1>1, <1>2, <1>3
  <2>4. 0 * X!ONE <= X!LN2_2 * f2 /\ X!LN2_2 * f2 <= (13 * u) * X!ONE
    BY <1>2, <2>1, <2>2
  <2>5. h \in Int /\ 0 <= h /\ h <= 13 * u
    BY <1>6, <2>3, <2>4, ProductHolds
  <2> HIDE DEF h
  <2> QED
    BY <2>5
<1>11. ASSUME NEW a \in Nat, NEW n \in Nat, NEW e \in Int, NEW b \in Nat,
              a <= n * u, n <= 32, -(b * u) <= e, e <= b * u, n * b = 128, b <= 16
       PROVE  /\ X!Mul(a, e) \in Int
              /\ -(4 * u) <= X!Mul(a, e) /\ X!Mul(a, e) <= 4 * u
              /\ e >= 0 => X!Mul(a, e) >= 0
              /\ e <= 0 => X!Mul(a, e) <= 0
  <2>1. n * u \in Nat /\ b * u \in Nat
    BY <1>1
  <2>2. a * e \in Int /\ -((n * u) * (b * u)) <= a * e /\ a * e <= (n * u) * (b * u)
    BY <1>11, <2>1, ProductSides
  <2>3. (n * u) * (b * u) = (n * b) * v
    BY <1>1, <1>4
  <2>4. (4 * u) * X!ONE = 128 * v /\ (-(4 * u)) * X!ONE = -(128 * v) /\ 0 * X!ONE = 0
    BY <1>1, <1>4
  <2>5. (-(4 * u)) * X!ONE <= a * e /\ a * e <= (4 * u) * X!ONE
    BY <1>11, <2>2, <2>3, <2>4
  <2>6. -(4 * u) \in X!MIN .. X!MAX /\ 4 * u \in X!MIN .. X!MAX /\ 0 \in X!MIN .. X!MAX
    BY <1>1, <1>3
  <2>7. /\ X!Mul(a, e) \in Int /\ -(4 * u) <= X!Mul(a, e) /\ X!Mul(a, e) <= 4 * u
    BY <2>5, <2>6, ProductHolds
  <2>8. e >= 0 => X!Mul(a, e) >= 0
    <3>1. e >= 0 => 0 * X!ONE <= a * e
      BY <2>4
    <3> QED
      BY <2>5, <2>6, <3>1, ProductHolds
  <2>9. e <= 0 => X!Mul(a, e) <= 0
    <3>1. e <= 0 => a * e <= 0 * X!ONE
      BY <2>4
    <3> QED
      BY <2>5, <2>6, <3>1, ProductHolds
  <2> QED
    BY <2>7, <2>8, <2>9
<1>12. /\ f3 \in Int /\ -(4 * u) <= f3 /\ f3 <= 4 * u
       /\ f >= 0 => f3 >= 0
       /\ f <= 0 => f3 <= 0
  <2>1. 8 \in Nat /\ 16 \in Nat /\ 8 <= 32 /\ 8 * 16 = 128 /\ 16 <= 16
    OBVIOUS
  <2> QED
    BY <1>6, <1>11, <2>1
<1> HIDE DEF f3
<1>13. /\ j \in Int /\ -(4 * u) <= j /\ j <= 4 * u
       /\ f >= 0 => j >= 0
       /\ f <= 0 => j <= 0
  <2>1. 32 \in Nat /\ 4 \in Nat /\ 32 <= 32 /\ 32 * 4 = 128 /\ 4 <= 16
    OBVIOUS
  <2>2. /\ j \in Int /\ -(4 * u) <= j /\ j <= 4 * u
        /\ f3 >= 0 => j >= 0
        /\ f3 <= 0 => j <= 0
    BY <1>2, <1>11, <1>12, <2>1
  <2> QED
    BY <1>12, <2>2
<1> HIDE DEF h, j
<1>14. Poly(f) = 32 * u + g + h + j
  <2>1. X!Add(X!ONE, g) = 32 * u + g
    <3>1. 32 * u + g \in X!MIN .. X!MAX /\ X!ONE \in Int
      BY <1>1, <1>3, <1>7
    <3> QED
      BY <1>1, <1>7, <3>1, SumHolds
  <2>2. X!Add(32 * u + g, h) = 32 * u + g + h
    <3>1. 32 * u + g + h \in X!MIN .. X!MAX /\ 32 * u + g \in Int /\ h \in Int
      BY <1>1, <1>3, <1>7, <1>10
    <3> QED
      BY <3>1, SumHolds
  <2>3. X!Add(32 * u + g + h, j) = 32 * u + g + h + j
    <3>1. 32 * u + g + h + j \in X!MIN .. X!MAX /\ 32 * u + g + h \in Int
      BY <1>1, <1>3, <1>7, <1>10, <1>13
    <3> QED
      BY <1>13, <3>1, SumHolds
  <2>4. Poly(f) = X!Add(X!Add(X!Add(X!ONE, g), h), j)
    BY DEF Poly, f2, g, h, f3, j
  <2> QED
    BY <2>1, <2>2, <2>3, <2>4
<1>15. Poly(f) \in Int /\ 16 * u <= Poly(f) /\ Poly(f) <= 61 * u
  BY <1>1, <1>7, <1>10, <1>13, <1>14
<1>16. f >= 16 * u - 2 => Poly(f) >= 40 * u - 1
  <2>1. f >= 16 * u - 2 => f >= 0
    BY <1>1
  <2> QED
    BY <1>1, <1>7, <1>8, <1>10, <1>13, <1>14, <2>1
<1>17. f <= 1 - 16 * u => Poly(f) <= 37 * u + 1
  <2>1. f <= 1 - 16 * u => f <= 0
    BY <1>1
  <2> QED
    BY <1>1, <1>7, <1>9, <1>10, <1>13, <1>14, <2>1
<1> QED
  BY <1>15, <1>16, <1>17

\* The quotient of a number by ln 2, of its magnitude.
LEMMA OctavesOf ==
  ASSUME NEW u, Scaled(u), NEW a \in Int
  PROVE  /\ a >= 0 => X!Octaves(a) = (a * X!ONE) \div X!LN2
         /\ a < 0 => X!Octaves(a) = -(((-a) * X!ONE) \div X!LN2)
         /\ X!Octaves(a) \in Int
<1>1. PICK w \in Nat \ {0}, l \in Nat \ {0} : w = X!ONE /\ l = X!LN2
  BY DEF Scaled
<1>2. X!Abs(l) = l /\ ~(l < 0)
  BY <1>1 DEF X!Abs
<1>3. CASE a >= 0
  <2>1. PICK n \in Nat : n = a * w
    BY <1>3
  <2>2. X!Abs(n) = n /\ ~(n < 0)
    BY <2>1 DEF X!Abs
  <2>3. PICK q \in Int : q = n \div l
    OBVIOUS
  <2>4. X!Cut(n, l) = q
    BY <1>2, <2>2, <2>3 DEF X!Cut
  <2> QED
    BY <1>1, <1>3, <2>1, <2>3, <2>4 DEF X!Octaves
<1>4. CASE a < 0
  <2>1. PICK b \in Nat \ {0} : b = -a
    BY <1>4
  <2>2. PICK n \in Nat \ {0} : n = b * w /\ a * w = -n
    BY <1>1, <2>1
  <2>3. X!Abs(-n) = n /\ -n < 0
    BY <2>2 DEF X!Abs
  <2>4. PICK q \in Int : q = n \div l
    OBVIOUS
  <2>5. X!Cut(-n, l) = -q
    BY <1>2, <2>3, <2>4 DEF X!Cut
  <2> QED
    BY <1>1, <1>4, <2>1, <2>2, <2>4, <2>5 DEF X!Octaves
<1> QED
  BY <1>3, <1>4

\* A larger number has no smaller a quotient, and the next one at most two
\* more.
LEMMA QuotientsRise ==
  ASSUME NEW u, Scaled(u), NEW a \in Nat, NEW b \in Nat, a <= b
  PROVE  /\ (a * X!ONE) \div X!LN2 \in Nat /\ (b * X!ONE) \div X!LN2 \in Nat
         /\ (a * X!ONE) \div X!LN2 <= (b * X!ONE) \div X!LN2
         /\ b = a + 1 => (b * X!ONE) \div X!LN2 <= (a * X!ONE) \div X!LN2 + 2
<1>1. PICK w \in Nat \ {0}, l \in Nat \ {0} : w = X!ONE /\ l = X!LN2 /\ w <= 2 * l
  BY DEF Scaled
<1>2. PICK e \in Nat : b = a + e
  <2>1. b - a \in Nat /\ b = a + (b - a)
    OBVIOUS
  <2> QED
    BY <2>1
<1>3. PICK m \in Nat, d \in Nat : m = a * w /\ d = e * w
  OBVIOUS
<1>4. b * w = m + d
  BY <1>2, <1>3
<1>5. PICK p \in Int, q \in Int : p = m \div l /\ q = (m + d) \div l
  OBVIOUS
<1>6. PICK pl \in Int, ql \in Int : pl = p * l /\ ql = q * l
  OBVIOUS
<1>7. pl <= m /\ m < pl + l /\ ql <= m + d /\ m + d < ql + l
  BY <1>5, <1>6
<1>8. 0 <= p
  <2>1. 0 * l <= m
    OBVIOUS
  <2> QED
    BY <1>5, <2>1, QuotientSides
<1>9. p <= q
  <2>1. p * l <= m + d
    BY <1>6, <1>7
  <2> QED
    BY <1>5, <2>1, QuotientSides
<1>10. e = 1 => q <= p + 2
  <2> SUFFICES ASSUME e = 1 PROVE q <= p + 2
    OBVIOUS
  <2>1. d = w
    BY <1>3
  <2>2. (p + 3) * l = pl + 3 * l
    BY <1>6
  <2>3. m + d < (p + 3) * l
    BY <1>1, <1>7, <2>1, <2>2
  <2>4. q < p + 3
    BY <1>5, <2>3, QuotientSides
  <2> QED
    BY <2>4
<1>11. b = a + 1 => e = 1
  BY <1>2
<1> QED
  BY <1>1, <1>3, <1>4, <1>5, <1>8, <1>9, <1>10, <1>11

\* So it is for octaves.
LEMMA OctavesRise ==
  ASSUME NEW u, Scaled(u), NEW a \in Int
  PROVE  /\ X!Octaves(a) <= X!Octaves(a + 1) /\ X!Octaves(a + 1) <= X!Octaves(a) + 2
<1>1. CASE a >= 0
  <2>1. a \in Nat /\ a + 1 \in Nat /\ a <= a + 1
    BY <1>1
  <2> QED
    BY <1>1, <2>1, OctavesOf, QuotientsRise
<1>2. CASE a < 0
  <2>1. PICK b \in Nat : b = -(a + 1) /\ -a = b + 1
    <3>1. -(a + 1) \in Nat /\ -a = -(a + 1) + 1
      BY <1>2
    <3> QED
      BY <3>1
  <2>2. PICK p \in Nat, q \in Nat :
          p = (b * X!ONE) \div X!LN2 /\ q = ((b + 1) * X!ONE) \div X!LN2
          /\ p <= q /\ q <= p + 2
    BY QuotientsRise
  <2>3. X!Octaves(a) = -q
    BY <1>2, <2>1, <2>2, OctavesOf
  <2>4. X!Octaves(a + 1) = -p
    <3>1. CASE a + 1 < 0
      BY <2>1, <2>2, <3>1, OctavesOf
    <3>2. CASE a + 1 = 0
      <4>1. a + 1 = b /\ b = 0
        BY <2>1, <3>2
      <4>2. X!Octaves(a + 1) = p
        BY <2>2, <3>2, <4>1, OctavesOf
      <4>3. p = 0
        <5>1. 0 * X!ONE = 0 /\ X!LN2 \in Nat \ {0}
          BY DEF Scaled
        <5>2. 0 * X!LN2 = 0
          BY <5>1
        <5>3. 0 \div X!LN2 <= 0
          BY <5>1, <5>2, QuotientSides
        <5> QED
          BY <2>2, <4>1, <5>1, <5>3
      <4> QED
        BY <4>2, <4>3
    <3> QED
      BY <1>2, <3>1, <3>2
  <2> QED
    BY <2>2, <2>3, <2>4
<1> QED
  BY <1>1, <1>2

\* Between the ends of exp, the octave is one that the word has room for, and
\* not below twice the limit.
LEMMA OctavesFit ==
  ASSUME NEW u, Scaled(u), NEW a \in Int, ~(a <= -Limit * X!ONE), ~(a >= Limit * X!ONE)
  PROVE  /\ X!Octaves(a) \div X!ONE \in -(2 * Limit) .. X!Octaves(Limit * X!ONE) \div X!ONE
         /\ a >= -X!ONE => X!Octaves(a) \div X!ONE >= -2
<1>1. PICK w \in Nat \ {0}, l \in Nat \ {0} : w = X!ONE /\ l = X!LN2 /\ w <= 2 * l
  BY DEF Scaled
<1>2. PICK t \in Nat : t = Limit * w
  BY CurveAssumption
<1>3. -t < a /\ a < t
  BY <1>1, <1>2, CurveAssumption
<1>4. PICK o \in Int, top \in Int : o = X!Octaves(a) /\ top = X!Octaves(t)
  BY OctavesOf
<1>5. o <= top /\ 0 <= top
  <2>1. top = (t * w) \div l /\ top \in Nat
    BY <1>1, <1>4, OctavesOf, QuotientsRise
  <2>2. CASE a >= 0
    BY <1>1, <1>3, <1>4, <2>1, <2>2, OctavesOf, QuotientsRise
  <2>3. CASE a < 0
    <3>1. PICK b \in Nat : b = -a
      BY <2>3
    <3>2. PICK q \in Nat : q = (b * w) \div l
      BY <1>1, QuotientsRise
    <3>3. o = -q
      BY <1>1, <1>4, <2>3, <3>1, <3>2, OctavesOf
    <3> QED
      BY <2>1, <3>2, <3>3
  <2> QED
    BY <2>1, <2>2, <2>3
<1>6. ASSUME NEW m \in Nat, a >= -(m * w)
      PROVE  o >= -(2 * m) * w
  <2>1. CASE a >= 0
    <3>1. o \in Nat
      BY <1>1, <1>4, <2>1, OctavesOf, QuotientsRise
    <3>2. (2 * m) * w \in Nat
      OBVIOUS
    <3> QED
      BY <3>1, <3>2
  <2>2. CASE a < 0
    <3>1. PICK b \in Nat : b = -a /\ b <= m * w
      BY <1>6, <2>2
    <3>2. PICK q \in Nat : q = (b * w) \div l
      BY <1>1, QuotientsRise
    <3>3. o = -q
      BY <1>1, <1>4, <2>2, <3>1, <3>2, OctavesOf
    <3>4. b * w <= ((2 * m) * w) * l
      <4>1. PICK mw \in Nat : mw = m * w
        OBVIOUS
      <4>2. PICK d \in Nat, e \in Nat : mw = b + d /\ 2 * l = w + e
        <5>1. mw - b \in Nat /\ 2 * l - w \in Nat /\ mw = b + (mw - b) /\ 2 * l = w + (2 * l - w)
          BY <1>1, <3>1, <4>1
        <5> QED
          BY <5>1
      <4>3. ((2 * m) * w) * l = mw * (2 * l)
        BY <4>1
      <4>4. mw * (2 * l) = mw * w + mw * e /\ mw * w = b * w + d * w
        BY <4>2
      <4>5. mw * e \in Nat /\ d * w \in Nat /\ b * w \in Nat
        OBVIOUS
      <4> QED
        BY <4>3, <4>4, <4>5
    <3>5. q <= (2 * m) * w
      <4>1. (2 * m) * w \in Int /\ b * w \in Int
        OBVIOUS
      <4> QED
        BY <3>2, <3>4, <4>1, QuotientSides
    <3> QED
      BY <3>3, <3>5
  <2> QED
    BY <2>1, <2>2
<1>7. ASSUME NEW m \in Nat, a >= -(m * w)
      PROVE  o \div w >= -(2 * m)
  <2>1. (-(2 * m)) * w <= o
    BY <1>6, <1>7
  <2>2. -(2 * m) \in Int
    OBVIOUS
  <2> QED
    BY <2>1, <2>2, QuotientSides
<1>8. o \div w >= -(2 * Limit)
  BY <1>2, <1>3, <1>7, CurveAssumption
<1>9. a >= -w => o \div w >= -2
  <2>1. 1 \in Nat /\ 1 * w = w /\ 2 * 1 = 2
    OBVIOUS
  <2> QED
    BY <1>7, <2>1
<1>10. o \div w <= top \div w /\ top \div w \in Int /\ o \div w \in Int
  <2>1. PICK q \in Int, p \in Int : q = o \div w /\ p = q * w
    OBVIOUS
  <2>2. p <= o
    BY <2>1
  <2>3. q * w <= top
    BY <1>5, <2>1, <2>2
  <2> QED
    BY <2>1, <2>3, QuotientSides
<1> QED
  BY <1>1, <1>2, <1>4, <1>8, <1>9, <1>10, CurveAssumption

\* The fraction exp takes is within half an octave.
LEMMA SignedFits ==
  ASSUME NEW u, Scaled(u), NEW a \in Int
  PROVE  LET r == X!Frac01(a)
             f == X!Signed(r)
         IN  /\ r \in 0 .. X!ONE - 1
             /\ X!Octaves(a) = X!ONE * (X!Octaves(a) \div X!ONE) + r
             /\ f \in Int /\ -(16 * u) <= f /\ f <= 16 * u
             /\ f = IF r >= 16 * u THEN r - X!ONE ELSE r
<1>1. PICK w \in Nat \ {0} : w = X!ONE /\ w = 32 * u
  BY DEF Scaled
<1>2. w \div 2 = 16 * u /\ u \in Nat
  <2>1. u \in Nat
    BY DEF Scaled
  <2>2. (32 * u) \div 2 = 16 * u
    BY <2>1
  <2> QED
    BY <1>1, <2>1, <2>2
<1>3. PICK o \in Int : o = X!Octaves(a)
  BY OctavesOf
<1>4. PICK r \in 0 .. w - 1 : r = o % w /\ o = w * (o \div w) + r
  OBVIOUS
<1>5. X!Frac01(a) = r
  BY <1>1, <1>3, <1>4 DEF X!Frac01
<1>6. X!Signed(r) = IF r >= 16 * u THEN r - w ELSE r
  BY <1>1, <1>2 DEF X!Signed
<1>7. PICK f \in Int : f = IF r >= 16 * u THEN r - w ELSE r
  OBVIOUS
<1>8. -(16 * u) <= f /\ f <= 16 * u
  BY <1>1, <1>2, <1>7
<1> QED
  BY <1>1, <1>3, <1>4, <1>5, <1>6, <1>7, <1>8

\* Between its ends, exp shifts the polynomial.
LEMMA ExpOf ==
  ASSUME NEW a \in Int, ~(a <= -Limit * X!ONE), ~(a >= Limit * X!ONE)
  PROVE  X!Exp(a) = X!Shifted(Poly(X!Signed(X!Frac01(a))), X!Octaves(a) \div X!ONE)
BY DEF X!Exp, Poly

\* A shift within the room there is multiplies, or divides.
LEMMA ShiftFits ==
  ASSUME NEW u, Scaled(u), NEW p \in Int, 0 <= p, p <= 61 * u,
         NEW k \in -(2 * Limit) .. X!Octaves(Limit * X!ONE) \div X!ONE
  PROVE  /\ X!Shifted(p, k) \in 0 .. X!MAX
         /\ k >= 0 => X!Shifted(p, k) = p * 2 ^ k /\ 2 ^ k \in Nat \ {0}
         /\ k < 0 => X!Shifted(p, k) = p \div 2 ^ (-k) /\ 2 ^ (-k) \in Nat \ {0}
<1>1. PICK w \in Nat \ {0}, m \in Nat :
        w = X!ONE /\ w = 32 * u /\ m = X!MAX /\ X!MIN = -m - 1 /\ u \in Nat
        /\ u >= 2 /\ 96 * u <= m
  BY DEF Scaled
<1>2. k \in Int
  <2>1. Limit \in Nat
    BY CurveAssumption
  <2> QED
    BY <2>1
<1>3. CASE k >= 0
  <2>1. k \in 0 .. X!Octaves(Limit * X!ONE) \div X!ONE
    BY <1>2, <1>3
  <2>2. PICK t \in Nat \ {0} : t = 2 ^ k /\ 2 * w * t <= m + 1
    BY <1>1, <2>1, CurveAssumption
  <2>3. PICK e \in Nat : 2 * w = p + 1 + e
    <3>1. 2 * w - p - 1 \in Nat /\ 2 * w = p + 1 + (2 * w - p - 1)
      BY <1>1
    <3> QED
      BY <3>1
  <2>4. 2 * w * t = p * t + t + e * t /\ p * t \in Nat /\ e * t \in Nat
    BY <2>3
  <2>5. p * t <= m /\ p * t >= 0
    BY <2>2, <2>4
  <2>6. PICK n \in Int : n = p * t
    OBVIOUS
  <2>7. n \in X!MIN .. X!MAX
    BY <1>1, <2>5, <2>6
  <2>8. X!Shifted(p, k) = n
    BY <1>3, <2>2, <2>6, <2>7, WordHolds DEF X!Shifted
  <2> QED
    BY <1>1, <1>2, <1>3, <2>2, <2>5, <2>6, <2>8
<1>4. CASE k < 0
  <2>1. -k \in 0 .. 2 * Limit
    BY <1>2, <1>4, CurveAssumption
  <2>2. PICK t \in Nat \ {0} : t = 2 ^ (-k)
    BY <2>1, CurveAssumption
  <2>3. PICK q \in Int : q = p \div t
    OBVIOUS
  <2>4. 0 <= q /\ q <= p
    <3>1. 0 * t <= p
      OBVIOUS
    <3>2. p <= p * t
      <4>1. PICK d \in Nat : t = 1 + d
        <5>1. t - 1 \in Nat /\ t = 1 + (t - 1)
          OBVIOUS
        <5> QED
          BY <5>1
      <4>2. p * t = p + p * d /\ p * d \in Nat
        BY <4>1
      <4> QED
        BY <4>2
    <3> QED
      BY <2>3, <3>1, <3>2, QuotientSides
  <2>5. X!Shifted(p, k) = q
    BY <1>4, <2>2, <2>3 DEF X!Shifted
  <2>6. q \in 0 .. X!MAX
    BY <1>1, <2>4
  <2> QED
    BY <1>2, <1>4, <2>2, <2>3, <2>5, <2>6
<1> QED
  BY <1>2, <1>3, <1>4

\* exp never wraps.
LEMMA ExpFits ==
  ASSUME NEW a \in Int
  PROVE  X!Exp(a) \in 0 .. X!MAX
<1>0. PICK u : Scaled(u)
  BY CurveSizes
<1>1. X!MAX \in Nat
  BY <1>0 DEF Scaled
<1>2. CASE a <= -Limit * X!ONE
  BY <1>1, <1>2 DEF X!Exp
<1>3. CASE ~(a <= -Limit * X!ONE) /\ a >= Limit * X!ONE
  BY <1>1, <1>3 DEF X!Exp
<1>4. CASE ~(a <= -Limit * X!ONE) /\ ~(a >= Limit * X!ONE)
  <2>1. PICK f \in Int : f = X!Signed(X!Frac01(a)) /\ -(16 * u) <= f /\ f <= 16 * u
    BY <1>0, SignedFits
  <2>2. Poly(f) \in Int /\ 16 * u <= Poly(f) /\ Poly(f) <= 61 * u
    BY <1>0, <2>1, PolyBounds
  <2>3. 0 <= Poly(f)
    BY <1>0, <2>2 DEF Scaled
  <2>4. X!Octaves(a) \div X!ONE
          \in -(2 * Limit) .. X!Octaves(Limit * X!ONE) \div X!ONE
    BY <1>0, <1>4, OctavesFit
  <2>5. X!Shifted(Poly(f), X!Octaves(a) \div X!ONE) \in 0 .. X!MAX
    BY <1>0, <2>2, <2>3, <2>4, ShiftFits
  <2> QED
    BY <1>4, <2>1, <2>5, ExpOf
<1> QED
  BY <1>2, <1>3, <1>4

\* A finding, for every width of a number: exp falls in the middle of every
\* octave.  Just before the middle and just after it shifts by the same
\* number, first what is larger.
THEOREM ExpFallsInOctaves ==
  ASSUME NEW a \in Int, a >= -X!ONE, a + 1 < Limit * X!ONE,
         X!Frac01(a) < X!ONE \div 2,
         X!Frac01(a + 1) \in X!ONE \div 2 .. X!ONE - 1
  PROVE  X!Exp(a + 1) < X!Exp(a)
<1>1. PICK u : Scaled(u)
  BY CurveSizes
<1>2. PICK w \in Nat \ {0} : w = X!ONE /\ w = 32 * u /\ u \in Nat /\ u >= 2
  BY <1>1 DEF Scaled
<1>3. w \div 2 = 16 * u
  <2>1. (32 * u) \div 2 = 16 * u
    BY <1>2
  <2> QED
    BY <1>2, <2>1
<1>4. PICK t \in Nat : t = Limit * w /\ t >= 2 * w
  <2>1. PICK e \in Nat : Limit = 2 + e
    <3>1. Limit - 2 \in Nat /\ Limit = 2 + (Limit - 2)
      BY CurveAssumption
    <3> QED
      BY <3>1
  <2>2. Limit * w = 2 * w + e * w /\ e * w \in Nat
    BY <2>1
  <2> QED
    BY <2>2
<1>5. \A b \in {a, a + 1} : b \in Int /\ ~(b >= Limit * X!ONE)
  BY <1>2, <1>4
<1>6. PICK o \in Int, n \in Int : o = X!Octaves(a) /\ n = X!Octaves(a + 1)
  BY <1>1, OctavesOf
<1>7. o <= n /\ n <= o + 2
  BY <1>1, <1>6, OctavesRise
<1>8. PICK k \in Int, r \in 0 .. w - 1 : k = o \div w /\ r = X!Frac01(a) /\ o = w * k + r
  <2>1. o \div w \in Int
    OBVIOUS
  <2> QED
    BY <1>1, <1>2, <1>6, <2>1, SignedFits
<1>9. PICK j \in Int, s \in 0 .. w - 1 :
        j = n \div w /\ s = X!Frac01(a + 1) /\ n = w * j + s
  <2>1. n \div w \in Int
    OBVIOUS
  <2> QED
    BY <1>1, <1>2, <1>6, <2>1, SignedFits
<1>10. r < 16 * u /\ s >= 16 * u
  BY <1>2, <1>3, <1>8, <1>9
<1>11. j = k
  <2>1. PICK d \in Int : d = j - k
    OBVIOUS
  <2>2. PICK wk \in Int, wd \in Int : wk = w * k /\ wd = w * d
    OBVIOUS
  <2>3. w * j = wk + wd
    BY <2>1, <2>2
  <2>4. (d >= 1 => wd >= w) /\ (d <= -1 => wd <= -w)
    <3>1. d >= 1 => w * d >= w
      OBVIOUS
    <3>2. d <= -1 => w * d <= -w
      OBVIOUS
    <3> QED
      BY <2>2, <3>1, <3>2
  <2>5. wd + s >= r /\ wd + s <= r + 2
    BY <1>7, <1>8, <1>9, <2>2, <2>3
  <2>6. d = 0
    BY <1>2, <1>10, <2>4, <2>5
  <2> QED
    BY <2>1, <2>6
<1>12. r >= 16 * u - 2 /\ s <= 16 * u + 1
  <2>1. PICK wk \in Int : wk = w * k
    OBVIOUS
  <2>2. n = wk + s /\ o = wk + r
    BY <1>8, <1>9, <1>11, <2>1
  <2>3. s >= r /\ s <= r + 2
    BY <1>7, <2>2
  <2> QED
    BY <1>2, <1>10, <2>3
<1>13. X!Signed(r) = r /\ X!Signed(s) = s - w
  BY <1>2, <1>3, <1>10 DEF X!Signed
<1>14. PICK p \in Int : p = Poly(r) /\ 40 * u - 1 <= p /\ p <= 61 * u
  <2>1. r \in Int /\ -(16 * u) <= r /\ r <= 16 * u /\ r >= 16 * u - 2
    BY <1>2, <1>10, <1>12
  <2> QED
    BY <1>1, <2>1, PolyBounds
<1>15. PICK q \in Int : q = Poly(s - w) /\ 16 * u <= q /\ q <= 37 * u + 1
  <2>1. s - w \in Int /\ -(16 * u) <= s - w /\ s - w <= 16 * u /\ s - w <= 1 - 16 * u
    BY <1>2, <1>10, <1>12
  <2> QED
    BY <1>1, <2>1, PolyBounds
<1>16. q + 4 <= p /\ 0 <= q /\ q <= 61 * u /\ 0 <= p
  BY <1>2, <1>14, <1>15
<1>17. /\ ~(a <= -Limit * X!ONE) /\ ~(a + 1 <= -Limit * X!ONE)
       /\ a + 1 \in Int
  BY <1>2, <1>4, CurveAssumption
<1>18. X!Exp(a) = X!Shifted(p, k)
  BY <1>2, <1>5, <1>6, <1>8, <1>13, <1>14, <1>17, ExpOf
<1>19. X!Exp(a + 1) = X!Shifted(q, k)
  BY <1>2, <1>5, <1>6, <1>9, <1>11, <1>13, <1>15, <1>17, ExpOf
<1>20. /\ k \in -(2 * Limit) .. X!Octaves(Limit * X!ONE) \div X!ONE
      /\ k >= -2
  BY <1>1, <1>2, <1>5, <1>6, <1>8, <1>17, OctavesFit
<1>21. CASE k >= 0
  <2>1. PICK c \in Nat \ {0} : c = 2 ^ k
    BY <1>1, <1>14, <1>16, <1>20, <1>21, ShiftFits
  <2>2. X!Shifted(p, k) = p * c /\ X!Shifted(q, k) = q * c
    BY <1>1, <1>14, <1>16, <1>20, <1>21, <2>1, ShiftFits
  <2>3. PICK d \in Nat \ {0} : p = q + d
    <3>1. p - q \in Nat \ {0} /\ p = q + (p - q)
      BY <1>16
    <3> QED
      BY <3>1
  <2>4. p * c = q * c + d * c /\ d * c >= 1 /\ d * c \in Nat /\ q * c \in Int
    <3>1. d * c >= 1
      OBVIOUS
    <3> QED
      BY <2>3, <3>1
  <2> QED
    BY <1>18, <1>19, <2>2, <2>4
<1>22. CASE k < 0
  <2>1. PICK c \in Nat \ {0} : c = 2 ^ (-k) /\ c <= 4
    <3>1. -k \in 0 .. 2 * Limit /\ -k <= 2
      BY <1>20, <1>22, CurveAssumption
    <3> QED
      BY <3>1, CurveAssumption
  <2>2. X!Shifted(p, k) = p \div c /\ X!Shifted(q, k) = q \div c
    BY <1>1, <1>14, <1>16, <1>20, <1>22, <2>1, ShiftFits
  <2>3. PICK y \in Int, z \in Int : y = q \div c /\ z = y * c
    OBVIOUS
  <2>4. z <= q
    BY <2>3
  <2>5. (y + 1) * c <= p
    <3>1. (y + 1) * c = z + c
      BY <2>3
    <3> QED
      BY <1>16, <2>1, <2>4, <3>1
  <2>6. y + 1 <= p \div c /\ p \div c \in Int
    BY <2>5, QuotientSides
  <2> QED
    BY <1>18, <1>19, <2>2, <2>3, <2>6
<1> QED
  BY <1>20, <1>21, <1>22

\* A division cut towards zero of what lies within m times the divisor.
LEMMA CutWithin ==
  ASSUME NEW n \in Int, NEW d \in Nat \ {0}, NEW m \in Nat,
         -(m * d) <= n, n <= m * d
  PROVE  /\ X!Cut(n, d) \in Int /\ -m <= X!Cut(n, d) /\ X!Cut(n, d) <= m
         /\ n >= 0 => X!Cut(n, d) >= 0
<1>1. X!Abs(d) = d /\ ~(d < 0)
  BY DEF X!Abs
<1>2. PICK e \in Nat : e = X!Abs(n) /\ e <= m * d
  BY DEF X!Abs
<1>3. PICK q \in Int : q = e \div d
  OBVIOUS
<1>4. 0 <= q /\ q <= m
  <2>1. 0 * d <= e
    OBVIOUS
  <2> QED
    BY <1>2, <1>3, <2>1, QuotientSides
<1>5. X!Cut(n, d) = IF n < 0 THEN -q ELSE q
  BY <1>1, <1>2, <1>3 DEF X!Cut
<1> QED
  BY <1>4, <1>5

\* So a number divided by one as large is at most one.
LEMMA RatioFits ==
  ASSUME NEW a \in Int, NEW b \in Nat \ {0}, -b <= a, a <= b
  PROVE  /\ X!Div(a, b) \in -X!ONE .. X!ONE
         /\ a >= 0 => X!Div(a, b) \in 0 .. X!ONE
<1>1. PICK u : Scaled(u)
  BY CurveSizes
<1>2. PICK w \in Nat \ {0} : w = X!ONE /\ w <= X!MAX /\ X!MAX \in Nat /\ X!MIN = -X!MAX - 1
  BY <1>1 DEF Scaled
<1>3. PICK n \in Int : n = a * w
  OBVIOUS
<1>4. -(w * b) <= n /\ n <= w * b /\ (a >= 0 => n >= 0)
  <2>1. w * a \in Int /\ -(w * b) <= w * a /\ w * a <= w * b
    BY ProductSides
  <2>2. a >= 0 => w * a >= 0
    OBVIOUS
  <2> QED
    BY <1>3, <2>1, <2>2
<1>5. PICK c \in Int : c = X!Cut(n, b) /\ -w <= c /\ c <= w /\ (a >= 0 => c >= 0)
  BY <1>4, CutWithin
<1>6. c \in X!MIN .. X!MAX
  BY <1>2, <1>5
<1>7. X!Div(a, b) = c
  BY <1>2, <1>3, <1>5, <1>6, WordHolds DEF X!Div
<1> QED
  BY <1>2, <1>5, <1>7

\* What is wrapped is a number.
LEMMA WrapInt ==
  ASSUME NEW n \in Int
  PROVE  X!Wrap(n) \in Int
<1>1. PICK m \in Nat : m = X!MAX /\ X!MIN = -m - 1
  BY WordAssumption DEF X!MIN
<1>2. PICK k \in Int, d \in Nat \ {0} : k = n - X!MIN /\ d = X!MAX - X!MIN + 1
  BY <1>1
<1>3. k % d \in Int
  OBVIOUS
<1> QED
  BY <1>1, <1>2, <1>3 DEF X!Wrap

\* sigmoid and tanh, of any number.
LEMMA SigmoidFits ==
  ASSUME NEW a \in Int
  PROVE  X!Sigmoid(a) \in 0 .. X!ONE
<1>1. PICK u : Scaled(u)
  BY CurveSizes
<1>2. PICK w \in Nat \ {0}, m \in Nat :
        w = X!ONE /\ m = X!MAX /\ w <= m /\ X!MIN = -m - 1
  BY <1>1 DEF Scaled
<1>3. PICK e \in 0 .. m : e = X!Exp(X!Neg(a))
  <2>1. X!Neg(a) \in Int
    BY WrapInt DEF X!Neg
  <2> QED
    BY <1>2, <2>1, ExpFits
<1>4. PICK d \in Nat \ {0} : d = X!Add(w, e) /\ w <= d
  BY <1>2, <1>3 DEF X!Add, X!Sat
<1>5. X!Div(w, d) \in 0 .. X!ONE
  BY <1>4, RatioFits
<1> QED
  BY <1>2, <1>3, <1>4, <1>5 DEF X!Sigmoid

(* tanh_approx stays between minus one and one. *)
LEMMA TanhFits ==
  ASSUME NEW a \in Int
  PROVE  X!Tanh(a) \in -X!ONE .. X!ONE
<1>1. PICK u : Scaled(u)
  BY CurveSizes
<1>2. PICK w \in Nat \ {0}, m \in Nat :
        w = X!ONE /\ m = X!MAX /\ w <= m /\ X!MIN = -m - 1
  BY <1>1 DEF Scaled
<1>3. PICK e \in 0 .. m : e = X!Exp(X!Mul(a, X!FromInt(2)))
  <2>1. PICK t \in Int : t = X!FromInt(2)
    <3>1. 2 * X!ONE \in Int
      BY <1>2
    <3> QED
      BY <3>1, WrapInt DEF X!FromInt
  <2>2. PICK p \in Int : p = a * t
    OBVIOUS
  <2>3. PICK q \in Int : q = p \div X!ONE
    BY <1>2
  <2>4. X!Mul(a, t) \in Int
    BY <2>2, <2>3, WrapInt DEF X!Mul
  <2> QED
    BY <1>2, <2>1, <2>4, ExpFits
<1>4. PICK n \in Int, d \in Nat \ {0} :
        n = X!Sub(e, w) /\ d = X!Add(e, w) /\ -d <= n /\ n <= d
  BY <1>2, <1>3 DEF X!Add, X!Sub, X!Sat
<1>5. X!Div(n, d) \in -X!ONE .. X!ONE
  BY <1>4, RatioFits
<1>6. X!Tanh(a) = X!Div(X!Sub(e, w), X!Add(e, w))
  BY <1>2, <1>3 DEF X!Tanh
<1> QED
  BY <1>4, <1>5, <1>6

\* The sine: the parabola is at most a quarter of the square of pi, so the
\* denominator is at least sixteen times it.
LEMMA SineFits ==
  ASSUME NEW a \in Int
  PROVE  X!Sin(a) \in -X!ONE .. X!ONE
<1>1. PICK u : Scaled(u)
  BY CurveSizes
<1>2. PICK w \in Nat \ {0}, h \in Nat \ {0} : w = X!ONE /\ h = X!PI
  BY <1>1, CurveAssumption DEF Scaled
<1>3. PICK angle \in 0 .. 2 * h - 1 : angle = a % (2 * X!PI)
  <2>1. PICK k \in Nat \ {0} : k = 2 * h
    OBVIOUS
  <2>2. a % k \in 0 .. k - 1
    OBVIOUS
  <2> QED
    BY <1>2, <2>1, <2>2
<1>4. PICK y \in 0 .. h : y = IF angle > h THEN 2 * h - angle ELSE angle
  BY <1>3
<1>5. PICK z \in Nat, hh \in Nat : z = y * (h - y) /\ hh = h * h /\ 4 * z <= hh
  <2>1. PICK d \in Int : d = h - 2 * y
    OBVIOUS
  <2>2. d * d >= 0
    OBVIOUS
  <2>3. y \in Nat /\ h - y \in Nat
    BY <1>4
  <2>4. d * d = h * h - 4 * (y * (h - y))
    BY <2>1, <2>3
  <2>5. y * (h - y) \in Nat /\ h * h \in Nat
    BY <2>3
  <2> QED
    BY <2>2, <2>4, <2>5
<1>6. PICK p \in Int, s \in Int : p = z \div w /\ s = hh \div w
  BY QuotientSides
<1>7. 0 <= p /\ 4 * p <= s
  <2>1. 0 * w <= z
    OBVIOUS
  <2>2. PICK pw \in Int : pw = p * w /\ pw <= z
    BY <1>6
  <2>3. (4 * p) * w = 4 * pw
    BY <2>2
  <2>4. (4 * p) * w <= hh
    BY <1>5, <2>2, <2>3
  <2>5. 4 * p \in Int /\ 0 \in Int
    OBVIOUS
  <2> QED
    BY <1>6, <2>1, <2>4, <2>5, QuotientSides
<1>8. PICK den \in Nat : den = 5 * s - 4 * p /\ 16 * p <= den
  <2>1. 5 * s - 4 * p \in Int /\ 16 * p <= 5 * s - 4 * p /\ 0 <= 16 * p
    BY <1>7
  <2>2. 5 * s - 4 * p \in Nat
    BY <2>1
  <2> QED
    BY <2>1, <2>2
<1>9. PICK r \in Int : r = (IF den = 0 THEN 0 ELSE X!Cut(16 * p * w, den))
                       /\ 0 <= r /\ r <= w
  <2>1. CASE den = 0
    BY <2>1
  <2>2. CASE den # 0
    <3>1. PICK n \in Nat : n = 16 * p * w
      <4>1. p \in Nat
        BY <1>7
      <4> QED
        BY <4>1
    <3>2. n <= w * den
      <4>1. PICK e \in Nat : den = 16 * p + e
        <5>1. den - 16 * p \in Nat /\ den = 16 * p + (den - 16 * p)
          BY <1>8
        <5> QED
          BY <5>1
      <4>2. w * den = n + w * e /\ w * e \in Nat
        BY <3>1, <4>1
      <4> QED
        BY <4>2
    <3>3. -(w * den) <= n
      BY <3>1
    <3>4. X!Cut(n, den) \in Int /\ X!Cut(n, den) <= w /\ X!Cut(n, den) >= 0
      BY <2>2, <3>1, <3>2, <3>3, CutWithin
    <3> QED
      BY <2>2, <3>1, <3>4
  <2> QED
    BY <2>1, <2>2
<1>10. X!Sin(a) = IF angle > h THEN -r ELSE r
  BY <1>2, <1>3, <1>4, <1>5, <1>6, <1>8, <1>9 DEF X!Sin
<1> QED
  BY <1>2, <1>9, <1>10

\* The numbers looked at.
NumberInv == x \in -((Limit + 1) * X!ONE) .. (Limit + 1) * X!ONE

\* Rounding down and up, of a number with one to spare.
LEMMA RoundingFits ==
  ASSUME NumberInv
  PROVE  X!Floor(x) <= x /\ x <= X!Ceil(x)
<1>1. PICK u : Scaled(u)
  BY CurveSizes
<1>2. PICK w \in Nat \ {0}, m \in Nat :
        w = X!ONE /\ m = X!MAX /\ X!MIN = -m - 1
  BY <1>1 DEF Scaled
<1>3. PICK t \in Nat : t = (Limit + 1) * w /\ t + w <= m
  <2>1. Limit \in Nat /\ (Limit + 2) * w <= m
    BY <1>2, CurveAssumption
  <2>2. (Limit + 2) * w = (Limit + 1) * w + w
    BY <2>1
  <2> QED
    BY <2>1, <2>2
<1>4. x \in Int /\ -t <= x /\ x <= t
  BY <1>2, <1>3 DEF NumberInv
<1>5. PICK f \in 0 .. w - 1 : f = X!Fract(x)
  <2>1. x % w \in 0 .. w - 1
    BY <1>4
  <2> QED
    BY <1>2, <2>1 DEF X!Fract
<1>6. PICK b \in Int : b = x - f /\ X!Floor(x) = b /\ b <= x /\ x < b + w
  BY <1>4, <1>5 DEF X!Floor
<1>7. x <= X!Ceil(x)
  <2>1. CASE f = 0
    BY <1>4, <1>5, <2>1 DEF X!Ceil
  <2>2. CASE f # 0
    <3>1. b + w \in X!MIN .. X!MAX
      BY <1>2, <1>3, <1>4, <1>6
    <3>2. X!Ceil(x) = X!Wrap(b + w)
      BY <1>2, <1>5, <1>6, <2>2 DEF X!Ceil
    <3> QED
      BY <1>4, <1>6, <3>1, <3>2, WordHolds
  <2> QED
    BY <2>1, <2>2
<1> QED
  BY <1>6, <1>7

\* For every width of a word and every limit that the constants of the curves
\* suit: neither exp nor sigmoid, tanh and sine ever leave their ranges, and
\* rounding down and up bounds a number (core/math.rs).
THEOREM CurvesStayTrue ==
  MachineSpec => [](part = "arithmetic" => X!CurvesStayInRange)
<1>1. MachineInit => NumberInv
  <2> SUFFICES ASSUME MachineInit PROVE NumberInv
    OBVIOUS
  <2>1. x = -X!Top
    BY DEF MachineInit, X!Init
  <2>2. PICK t \in Nat : t = (Limit + 1) * X!ONE
    BY WordAssumption, CurveAssumption
  <2> QED
    BY <2>1, <2>2 DEF X!Top, NumberInv
<1>2. NumberInv /\ [MachineNext]_machineVars => NumberInv'
  <2> SUFFICES ASSUME NumberInv, [MachineNext]_machineVars PROVE NumberInv'
    OBVIOUS
  <2>1. X!Next \/ UNCHANGED arithmetic
    BY DEF MachineNext, Still, machineVars
  <2>2. PICK t \in Nat : t = (Limit + 1) * X!ONE
    BY WordAssumption, CurveAssumption
  <2>3. CASE X!Next
    <3>1. x' = x \/ x' = IF x = t THEN -t ELSE x + 1
      BY <2>2, <2>3 DEF X!Next, X!Walk, X!Pick, X!Top
    <3> QED
      BY <2>2, <3>1 DEF NumberInv
  <2>4. CASE UNCHANGED arithmetic
    BY <2>4 DEF arithmetic, NumberInv
  <2> QED
    BY <2>1, <2>3, <2>4
<1>3. NumberInv => X!CurvesStayInRange
  <2> SUFFICES ASSUME NumberInv PROVE X!CurvesStayInRange
    OBVIOUS
  <2>1. x \in Int
    <3>1. PICK t \in Nat : t = (Limit + 1) * X!ONE
      BY WordAssumption, CurveAssumption
    <3> QED
      BY <3>1 DEF NumberInv
  <2> QED
    BY <2>1, ExpFits, SigmoidFits, TanhFits, SineFits, RoundingFits
       DEF X!CurvesStayInRange
<1> QED
  BY <1>1, <1>2, <1>3, PTL DEF MachineSpec
=============================================================================
