----------------------------- MODULE Device_proofs -----------------------------
(***************************************************************************)
(* What holds on the board for any images, any number of power losses and  *)
(* all periods of the main loop.                                           *)
(*                                                                         *)
(* The update: outside of a save, RAM and flash agree on every metadata    *)
(* word; inside one they agree on the words already written (Agreement);   *)
(* a manager that says Applying is on its way to the soft reset or back in *)
(* check_rollback, never to the main loop (Verdict).  The bank the CPU     *)
(* executes is whole, and every switch and rollback leaves it for the      *)
(* other, so the bank left behind is whole (Whole).                        *)
(*                                                                         *)
(* The main loop: a simulation owns it until it ends (Contained), the idle *)
(* counter never runs ahead of the steps since the last work (Waking), and *)
(* a domain that stays at its point was powered at it (Supplied).          *)
(***************************************************************************)
EXTENDS MCDevice, Integers, TLAPS

\* A behaviour of the board is one of each part.
LEMMA Parts ==
  ASSUME [DeviceNext]_deviceVars
  PROVE  [Next]_vars /\ [LoopNext]_mainVars
BY DEF DeviceNext, Updating, Looping, deviceVars
-----------------------------------------------------------------------------
(* The update.                                                             *)

\* What save_metadata can still have to write.
Remaining == {<< >>, <<"boot_count">>, <<"status", "boot_count">>, Words}

Agreement ==
  /\ phase = "staging" => meta.active_bank = ota.active_bank
  /\ phase \in {"boot", "run", "staging"} \/ saving # << >> =>
       /\ saving # Words => meta.active_bank = ota.active_bank
       /\ saving \in {<< >>, <<"boot_count">>} => meta.status = ota.status
       /\ saving = << >> => meta.boot_count = ota.boot_count

\* The program's place, by what the manager says of the bank switch.
Verdict ==
  /\ phase \in {"boot", "run", "staging"} /\ saving = << >> => ota.status # "Applying"
  /\ saving # << >> /\ resume # "off" => ota.status # "Applying"
  /\ saving # << >> => phase \in {"init", "boot", "staging"}
  /\ resume \in {"off", "boot", "run"}
  /\ phase = "staging" /\ saving # << >> => resume = "run"
  /\ "Applied" \notin {meta.status, ota.status}

IInv == TypeOK /\ saving \in Remaining /\ Agreement /\ Verdict
-----------------------------------------------------------------------------
\* The four remainders are different sequences of words.
LEMMA RemainingLemma ==
  /\ Words # << >> /\ <<"boot_count">> # << >> /\ <<"status", "boot_count">> # << >>
  /\ Words # <<"boot_count">> /\ Words # <<"status", "boot_count">>
  /\ <<"status", "boot_count">> # <<"boot_count">>
  /\ Remaining \subseteq Seq(Field) /\ Words \in Remaining
BY DEF Words, Remaining, Field

\* The next word of each remainder, and what then remains.
LEMMA NextWord ==
  /\ Len(Words) = 3 /\ Head(Words) = "active_bank"
  /\ Tail(Words) = <<"status", "boot_count">>
  /\ Len(<<"status", "boot_count">>) = 2 /\ Head(<<"status", "boot_count">>) = "status"
  /\ Tail(<<"status", "boot_count">>) = <<"boot_count">>
  /\ Len(<<"boot_count">>) = 1 /\ Head(<<"boot_count">>) = "boot_count"
  /\ Tail(<<"boot_count">>) = << >>
BY DEF Words

\* The other bank of a bank is a bank.
LEMMA OtherLemma == \A b \in Bank : Other(b) \in Bank /\ Other(b) # b
BY DEF Bank, Other

\* The factory state satisfies the invariant.
LEMMA Initially == Init => IInv
<1> SUFFICES ASSUME Init PROVE IInv
  OBVIOUS
<1>1. /\ meta \in Metadata /\ ota = meta
      /\ meta.status = "Idle" /\ saving = << >> /\ phase = "off" /\ resume = "off"
  BY DEF Init, Metadata, Bank, Status, max_boot_count
<1>2. TypeOK
  BY <1>1, ImageAssumption DEF Init, TypeOK, Bank, Phase
<1>3. saving \in Remaining /\ Agreement /\ Verdict
  BY <1>1 DEF Remaining, Agreement, Verdict
<1> QED
  BY <1>2, <1>3 DEF IInv

\* Writing one word brings flash closer to RAM, and the last one hands over
\* to the phase the save was made for (save_metadata's table).
LEMMA WriteWordStep == IInv /\ WriteWord => IInv'
<1> SUFFICES ASSUME IInv, WriteWord PROVE IInv'
  OBVIOUS
<1> USE RemainingLemma
<1>0. /\ meta \in Metadata /\ ota \in Metadata /\ Agreement /\ Verdict
      /\ TypeOK /\ saving \in Remaining /\ saving # << >>
      /\ UNCHANGED <<bank, ota, running, resume, losses>>
  BY DEF IInv, TypeOK, WriteWord
<1>1. CASE saving = Words
  <2>1. /\ meta' = [meta EXCEPT !.active_bank = ota.active_bank]
        /\ saving' = <<"status", "boot_count">> /\ phase' = phase
    <3>1. Head(saving) = "active_bank" /\ Tail(saving) = <<"status", "boot_count">>
          /\ Len(saving) # 1
      BY <1>1, NextWord
    <3> QED
      BY <3>1 DEF WriteWord
  <2>2. TypeOK'
    BY <1>0, <2>1 DEF TypeOK, Metadata, Remaining, Phase, Verdict
  <2> QED
    BY <1>0, <1>1, <2>1, <2>2 DEF IInv, Remaining, Agreement, Verdict, Metadata
<1>2. CASE saving = <<"status", "boot_count">>
  <2>1. /\ meta' = [meta EXCEPT !.status = ota.status]
        /\ saving' = <<"boot_count">> /\ phase' = phase
    <3>1. Head(saving) = "status" /\ Tail(saving) = <<"boot_count">>
          /\ Len(saving) # 1
      BY <1>2, NextWord
    <3> QED
      BY <3>1 DEF WriteWord
  <2>2. TypeOK'
    BY <1>0, <2>1 DEF TypeOK, Metadata, Remaining, Phase, Verdict
  <2> QED
    BY <1>0, <1>2, <2>1, <2>2 DEF IInv, Remaining, Agreement, Verdict, Metadata
<1>3. CASE saving = <<"boot_count">>
  <2>1. /\ meta' = [meta EXCEPT !.boot_count = ota.boot_count]
        /\ saving' = << >> /\ phase' = resume
    BY <1>3, NextWord DEF WriteWord
  <2>2. TypeOK'
    BY <1>0, <2>1 DEF TypeOK, Metadata, Remaining, Phase, Verdict
  <2> QED
    BY <1>0, <1>3, <2>1, <2>2 DEF IInv, Remaining, Agreement, Verdict, Metadata
<1> QED
  BY <1>0, <1>1, <1>2, <1>3 DEF Remaining

\* check_rollback settles an Applying it reads, and no manager ever says
\* Applied.
LEMMA InitOtaStep == IInv /\ InitOta => IInv'
<1> SUFFICES ASSUME IInv, InitOta PROVE IInv'
  OBVIOUS
<1> USE RemainingLemma
<1>0. /\ meta \in Metadata /\ meta.status # "Applied" /\ TypeOK
      /\ phase = "init" /\ saving = << >> /\ Verdict
      /\ UNCHANGED <<bank, meta, running, losses>> /\ CheckRollback(meta)
  BY DEF IInv, TypeOK, Verdict, InitOta
<1>1. CASE meta.status = "Applying"
  <2>1. /\ ota' = Rollback(meta) /\ saving' = Words /\ resume' = "boot"
        /\ phase' = phase
    BY <1>0, <1>1 DEF CheckRollback, SaveThen
  <2>2. ota' \in Metadata /\ ota'.status = "RolledBack"
    BY <1>0, <2>1, OtherLemma DEF Rollback, RolledBack, Metadata, Status, max_boot_count
  <2> QED
    BY <1>0, <2>1, <2>2 DEF IInv, TypeOK, Phase, Agreement, Verdict
<1>2. CASE meta.status # "Applying"
  <2>1. ota' = meta /\ phase' = "boot" /\ UNCHANGED <<saving, resume>>
    BY <1>0, <1>2 DEF CheckRollback, KeepThen
  <2> QED
    BY <1>0, <1>2, <2>1 DEF IInv, TypeOK, Phase, Agreement, Verdict
<1> QED
  BY <1>1, <1>2

\* A staged update is applied on the way to a reset, anything else is on the
\* way to the main loop (the end of init_hardware).
LEMMA FinishBootStep == IInv /\ FinishBoot => IInv'
<1> SUFFICES ASSUME IInv, FinishBoot PROVE IInv'
  OBVIOUS
<1> USE RemainingLemma
<1>0. /\ ota \in Metadata /\ meta \in Metadata /\ ota.status # "Applied"
      /\ ota.status # "Applying" /\ phase = "boot" /\ saving = << >>
      /\ TypeOK /\ Verdict /\ Agreement
      /\ UNCHANGED <<bank, meta, running, losses>>
  BY DEF IInv, TypeOK, Verdict, FinishBoot
<1>1. CASE ota.status = "UpdateReady"
  <2>1. /\ ota' = [active_bank |-> Other(ota.active_bank), status |-> "Applying",
                   boot_count |-> 0]
        /\ saving' = Words /\ resume' = "off" /\ phase' = phase
    BY <1>0, <1>1 DEF FinishBoot, ApplyUpdate, SaveThen
  <2>2. ota' \in Metadata
    BY <1>0, <2>1, OtherLemma DEF Metadata, Status, max_boot_count
  <2> QED
    BY <1>0, <2>1, <2>2 DEF IInv, TypeOK, Phase, Agreement, Verdict
<1>2. CASE ota.status # "UpdateReady"
  <2>1. ota' = ota /\ phase' = "run" /\ UNCHANGED <<saving, resume>>
    BY <1>0, <1>2 DEF FinishBoot, ConfirmStable, KeepThen
  <2> QED
    BY <1>0, <2>1 DEF IInv, TypeOK, Phase, Agreement, Verdict
<1> QED
  BY <1>1, <1>2

\* Staging leaves the metadata alone until it is complete, and then says
\* UpdateReady for the bank it was given.
LEMMA StageStep == IInv /\ Stage => IInv'
<1> SUFFICES ASSUME IInv, Stage PROVE IInv'
  OBVIOUS
<1> USE RemainingLemma
<1>0. /\ ota \in Metadata /\ meta \in Metadata /\ TypeOK /\ Verdict /\ Agreement
      /\ saving = << >>
  BY DEF IInv, TypeOK, Stage, BeginStage, FinishStage, AbandonStage
<1>1. CASE BeginStage
  BY <1>0, <1>1 DEF BeginStage, IInv, TypeOK, Phase, Agreement, Verdict
<1>2. CASE FinishStage
  <2>1. PICK i \in Image : bank' = [bank EXCEPT ![StageTarget] = i]
    BY <1>2 DEF FinishStage
  <2>2. /\ ota' = [ota EXCEPT !.status = "UpdateReady"]
        /\ saving' = Words /\ resume' = "run" /\ phase' = phase /\ phase = "staging"
        /\ UNCHANGED <<meta, running, losses>>
    BY <1>2 DEF FinishStage, SaveThen
  <2>3. ota' \in Metadata /\ ota'.active_bank = ota.active_bank
        /\ ota'.status = "UpdateReady"
    BY <1>0, <2>2 DEF Metadata, Status
  <2> QED
    BY <1>0, <2>1, <2>2, <2>3 DEF IInv, TypeOK, Phase, Agreement, Verdict
<1>3. CASE AbandonStage
  BY <1>0, <1>3 DEF AbandonStage, IInv, TypeOK, Phase, Agreement, Verdict
<1> QED
  BY <1>1, <1>2, <1>3 DEF Stage

\* A reset, however it comes, forgets RAM and trusts nothing of it.
LEMMA ResetStep ==
  IInv /\ (Reset \/ PowerLoss \/ WatchdogReset \/ Restart) => IInv'
<1> SUFFICES ASSUME IInv, Reset \/ PowerLoss \/ WatchdogReset \/ Restart
             PROVE  IInv'
  OBVIOUS
<1> USE RemainingLemma
<1>0. /\ TypeOK /\ Verdict /\ Agreement /\ saving \in Remaining
      /\ meta \in Metadata /\ meta.active_bank \in Bank
      /\ (phase \in {"off", "hung"} => saving = << >>)
  BY DEF IInv, TypeOK, Metadata, Verdict
<1>1. CASE Reset
  BY <1>0, <1>1 DEF Reset, IInv, TypeOK, Phase, Agreement, Verdict
<1>2. CASE PowerLoss
  BY <1>0, <1>2, ImageAssumption
  DEF PowerLoss, IInv, TypeOK, Phase, Agreement, Verdict, Remaining
<1>3. CASE WatchdogReset
  BY <1>0, <1>3 DEF WatchdogReset, IInv, TypeOK, Phase, Agreement, Verdict
<1>4. CASE Restart
  BY <1>0, <1>4 DEF Restart, IInv, TypeOK, Phase, Agreement, Verdict
<1> QED
  BY <1>1, <1>2, <1>3, <1>4

\* The invariant holds in every reachable state.
LEMMA Inductive == DeviceSpec => []IInv
<1>1. IInv /\ UNCHANGED vars => IInv'
  BY DEF vars, IInv, TypeOK, Agreement, Verdict
<1>2. IInv /\ [Next]_vars => IInv'
  BY <1>1, WriteWordStep, InitOtaStep, FinishBootStep, StageStep, ResetStep DEF Next
<1> QED
  BY Initially, <1>2, Parts, PTL DEF DeviceSpec, DeviceInit
-----------------------------------------------------------------------------
\* Metadata and program stay in their domains, for any images and any number
\* of power losses (TypeOK).
THEOREM TypeCorrect == DeviceSpec => []TypeOK
<1>1. IInv => TypeOK
  BY DEF IInv
<1> QED
  BY <1>1, Inductive, PTL

\* While stage_firmware has a bank erased, flash names the other bank for the
\* next boot, whenever power is lost.
THEOREM StagingIsSafe == DeviceSpec => []StagingSparesBootBank
<1>1. IInv => StagingSparesBootBank
  <2> SUFFICES ASSUME IInv, phase = "staging" PROVE meta.active_bank # StageTarget
    BY DEF StagingSparesBootBank
  <2>1. meta.active_bank = ota.active_bank /\ ota.active_bank \in Bank
    BY DEF IInv, TypeOK, Agreement, Metadata
  <2> QED
    BY <2>1, OtherLemma DEF StageTarget
<1> QED
  BY <1>1, Inductive, PTL

\* The main loop never runs, and stage_firmware never starts, while flash
\* still says that a bank switch waits for its verdict.
THEOREM SwitchIsDecided == DeviceSpec => []SwitchDecided
<1>1. IInv => SwitchDecided
  BY DEF IInv, Agreement, Verdict, SwitchDecided
<1> QED
  BY <1>1, Inductive, PTL
-----------------------------------------------------------------------------
\* Where the bank the CPU executes stands to the one the metadata names, and
\* that it is whole while anything executes from it.
Whole ==
  /\ phase \in {"init", "boot", "run", "staging"} => bank[running] # Partial
  /\ phase = "init" /\ saving = << >> => meta.active_bank = running
  /\ phase = "boot" /\ ota.status = "UpdateReady" => ota.active_bank = running
  /\ saving # << >> /\ phase \in {"init", "boot"} => ota.active_bank = Other(running)
  /\ saving # << >> /\ phase = "staging" => meta.status # "Applying"
  /\ saving # << >> /\ resume = "boot" => ota.status = "RolledBack"
  /\ FallbackIsWhole

\* The other bank of the other bank is the bank itself.
LEMMA OtherTwice == \A b \in Bank : Other(Other(b)) = b
BY DEF Bank, Other

\* In the factory state no switch is on its way.
LEMMA WholeInitially == Init => Whole
BY DEF Init, Whole, FallbackIsWhole

\* A word of a switch or a rollback names the bank that is left, which
\* executes this very code; a word of a finished staging names no switch.
LEMMA WholeWriteWord == IInv /\ Whole /\ WriteWord => Whole'
<1> SUFFICES ASSUME IInv, Whole, WriteWord PROVE Whole'
  OBVIOUS
<1>0. /\ meta \in Metadata /\ ota \in Metadata /\ running \in Bank
      /\ saving \in Remaining /\ saving # << >> /\ Agreement /\ Verdict
      /\ phase \in {"init", "boot", "staging"} /\ resume \in {"off", "boot", "run"}
      /\ UNCHANGED <<bank, ota, running, resume, losses>>
  BY DEF IInv, TypeOK, WriteWord, Verdict
<1>1. CASE saving = Words
  <2>1. /\ meta' = [meta EXCEPT !.active_bank = ota.active_bank]
        /\ saving' = <<"status", "boot_count">> /\ phase' = phase
    <3>1. Head(saving) = "active_bank" /\ Tail(saving) = <<"status", "boot_count">>
          /\ Len(saving) # 1
      BY <1>1, NextWord
    <3> QED
      BY <3>1 DEF WriteWord
  <2>2. meta'.active_bank = ota.active_bank /\ meta'.status = meta.status
    BY <1>0, <2>1 DEF Metadata
  <2> QED
    BY <1>0, <1>1, <2>1, <2>2, OtherTwice, RemainingLemma DEF Whole, FallbackIsWhole
<1>2. CASE saving = <<"status", "boot_count">>
  <2>1. /\ meta' = [meta EXCEPT !.status = ota.status]
        /\ saving' = <<"boot_count">> /\ phase' = phase
    <3>1. Head(saving) = "status" /\ Tail(saving) = <<"boot_count">>
          /\ Len(saving) # 1
      BY <1>2, NextWord
    <3> QED
      BY <3>1 DEF WriteWord
  <2>2. /\ meta'.active_bank = ota.active_bank /\ meta'.status = ota.status
        /\ phase = "staging" => ota.status # "Applying"
    BY <1>0, <1>2, <2>1, RemainingLemma DEF Metadata, Agreement, Verdict
  <2> QED
    BY <1>0, <1>2, <2>1, <2>2, OtherTwice, RemainingLemma DEF Whole, FallbackIsWhole
<1>3. CASE saving = <<"boot_count">>
  <2>1. /\ meta' = [meta EXCEPT !.boot_count = ota.boot_count]
        /\ saving' = << >> /\ phase' = resume
    BY <1>3, NextWord DEF WriteWord
  <2>2. /\ meta'.active_bank = meta.active_bank /\ meta'.status = meta.status
    BY <1>0, <2>1 DEF Metadata
  <2>3. resume = "boot" => ota.status # "UpdateReady"
    BY <1>0 DEF Whole
  <2> QED
    BY <1>0, <1>3, <2>1, <2>2, <2>3, RemainingLemma DEF Whole, FallbackIsWhole
<1> QED
  BY <1>0, <1>1, <1>2, <1>3 DEF Remaining

\* Boot reads the bank it runs in from flash, and leaves it only by naming
\* the other one (check_rollback, the end of init_hardware).
LEMMA WholeBoot == IInv /\ Whole /\ (InitOta \/ FinishBoot) => Whole'
<1> SUFFICES ASSUME IInv, Whole, InitOta \/ FinishBoot PROVE Whole'
  OBVIOUS
<1>0. /\ meta \in Metadata /\ ota \in Metadata /\ running \in Bank
      /\ meta.status # "Applied" /\ ota.status # "Applied"
      /\ saving = << >> /\ UNCHANGED <<bank, meta, running, losses>>
  BY DEF IInv, TypeOK, Verdict, InitOta, FinishBoot
<1>1. CASE InitOta
  <2>0. phase = "init" /\ meta.active_bank = running /\ bank[running] # Partial
    BY <1>0, <1>1 DEF InitOta, Whole
  <2>1. CASE meta.status = "Applying"
    <3>1. /\ ota' = Rollback(meta) /\ saving' = Words /\ phase' = phase
          /\ resume' = "boot"
      BY <1>0, <1>1, <2>1 DEF InitOta, CheckRollback, SaveThen
    <3>2. ota'.active_bank = Other(running) /\ ota'.status = "RolledBack"
      BY <2>0, <3>1 DEF Rollback, RolledBack
    <3> QED
      BY <1>0, <2>0, <3>1, <3>2 DEF Whole, FallbackIsWhole
  <2>2. CASE meta.status # "Applying"
    <3>1. ota' = meta /\ phase' = "boot" /\ UNCHANGED <<saving, resume>>
      BY <1>0, <1>1, <2>2 DEF InitOta, CheckRollback, KeepThen
    <3> QED
      BY <1>0, <2>0, <3>1 DEF Whole, FallbackIsWhole
  <2> QED
    BY <2>1, <2>2
<1>2. CASE FinishBoot
  <2>0. phase = "boot" /\ bank[running] # Partial
    BY <1>0, <1>2 DEF FinishBoot, Whole
  <2>1. CASE ota.status = "UpdateReady"
    <3>1. /\ saving' = Words /\ phase' = phase /\ resume' = "off"
          /\ ota' = [active_bank |-> Other(ota.active_bank), status |-> "Applying",
                     boot_count |-> 0]
      BY <1>2, <2>1 DEF FinishBoot, ApplyUpdate, SaveThen
    <3>2. ota'.active_bank = Other(running)
      BY <1>0, <2>0, <2>1, <3>1 DEF Whole
    <3> QED
      BY <1>0, <2>0, <3>1, <3>2 DEF Whole, FallbackIsWhole
  <2>2. CASE ota.status # "UpdateReady"
    <3>1. phase' = "run" /\ UNCHANGED <<saving, resume>>
      BY <1>0, <1>2, <2>2 DEF FinishBoot, ConfirmStable, KeepThen
    <3> QED
      BY <1>0, <2>0, <3>1 DEF Whole, FallbackIsWhole
  <2> QED
    BY <2>1, <2>2
<1> QED
  BY <1>1, <1>2

\* Staging never starts while a switch waits for its verdict, and erases the
\* executing bank only to hang.
LEMMA WholeStage == IInv /\ Whole /\ Stage => Whole'
<1> SUFFICES ASSUME IInv, Whole, Stage PROVE Whole'
  OBVIOUS
<1>0. /\ bank \in [Bank -> Image \cup {Partial}] /\ ota \in Metadata
      /\ running \in Bank /\ StageTarget \in Bank
      /\ phase \in {"run", "staging"} /\ saving = << >> /\ UNCHANGED <<meta, running>>
  BY OtherLemma
  DEF IInv, TypeOK, Metadata, Stage, BeginStage, FinishStage, AbandonStage,
      StageTarget
<1>1. meta.status # "Applying" /\ bank[running] # Partial
  BY <1>0 DEF IInv, Agreement, Verdict, Whole
<1>2. CASE BeginStage
  BY <1>0, <1>1, <1>2 DEF BeginStage, Whole, FallbackIsWhole
<1>3. CASE FinishStage
  <2>1. PICK i \in Image : bank' = [bank EXCEPT ![StageTarget] = i]
    BY <1>3 DEF FinishStage
  <2>2. saving' = Words /\ resume' = "run" /\ phase' = phase /\ phase = "staging"
    BY <1>3 DEF FinishStage, SaveThen
  <2>3. bank'[running] # Partial
    BY <1>0, <1>1, <2>1, ImageAssumption
  <2> QED
    BY <1>0, <1>1, <2>2, <2>3 DEF Whole, FallbackIsWhole
<1>4. CASE AbandonStage
  BY <1>0, <1>1, <1>4 DEF AbandonStage, Whole, FallbackIsWhole
<1> QED
  BY <1>2, <1>3, <1>4 DEF Stage

\* Whatever resets the system leaves flash alone, and only an image that
\* starts is executed.
LEMMA WholeReset ==
  IInv /\ Whole /\ (Reset \/ PowerLoss \/ WatchdogReset \/ Restart) => Whole'
<1> SUFFICES ASSUME IInv, Whole, Reset \/ PowerLoss \/ WatchdogReset \/ Restart
             PROVE  Whole'
  OBVIOUS
<1>1. CASE Reset
  <2>1. /\ phase \in {"off"} /\ saving = << >> /\ saving' = << >>
        /\ running' = meta.active_bank /\ UNCHANGED <<bank, meta>>
        /\ phase' = "init" => bank[meta.active_bank] # Partial
        /\ phase' \in {"init", "hung"}
    BY <1>1, ImageAssumption DEF Reset, Starts, IInv, Verdict
  <2> QED
    BY <2>1 DEF Whole, FallbackIsWhole
<1>2. CASE PowerLoss \/ WatchdogReset \/ Restart
  <2>1. phase' = "off" /\ saving' = << >> /\ UNCHANGED <<bank, meta>>
    BY <1>2 DEF PowerLoss, WatchdogReset, Restart, IInv, Verdict
  <2> QED
    BY <2>1 DEF Whole, FallbackIsWhole
<1> QED
  BY <1>1, <1>2

\* While a bank switch waits for its verdict, the bank to fall back to is
\* whole, for any images and any number of power losses.
THEOREM FallbackStaysWhole == DeviceSpec => []FallbackIsWhole
<1>1. Whole /\ UNCHANGED vars => Whole'
  BY DEF vars, Whole, FallbackIsWhole
<1>2. IInv /\ Whole /\ [Next]_vars => Whole'
  BY <1>1, WholeWriteWord, WholeBoot, WholeStage, WholeReset DEF Next
<1>3. Whole => FallbackIsWhole
  BY DEF Whole
<1> QED
  BY WholeInitially, Inductive, <1>2, <1>3, Parts, PTL
     DEF DeviceSpec, DeviceInit
-----------------------------------------------------------------------------
(* Remainders.                                                             *)

\* Division with remainder.
LEMMA Division ==
  ASSUME NEW w \in Nat \ {0}, NEW n \in Nat
  PROVE  \E q \in Int, r \in 0 .. w - 1 : n = w * q + r /\ n % w = r
<1> DEFINE q == n \div w
           r == n % w
<1>1. q \in Int /\ r \in 0 .. w - 1
  OBVIOUS
<1>2. r = n - w * q
  OBVIOUS
<1> HIDE DEF q, r
<1>3. w * q \in Int
  BY <1>1
<1>4. n = w * q + r
  BY <1>1, <1>2, <1>3
<1> QED
  BY <1>1, <1>4 DEF r

\* The remainder is the only one.
LEMMA Remainder ==
  ASSUME NEW w \in Nat \ {0}, NEW n \in Nat, NEW r \in 0 .. w - 1,
         \E q \in Int : n = w * q + r
  PROVE  n % w = r
<1>0. PICK q \in Int : n = w * q + r
  OBVIOUS
<1>1. PICK p \in Int, s \in 0 .. w - 1 : n = w * p + s /\ n % w = s
  BY Division
<1>2. PICK d \in Int : d = q - p
  OBVIOUS
<1>3. w * q = w * p + w * d /\ w * q \in Int /\ w * p \in Int /\ w * d \in Int
  BY <1>2
<1>4. w * d = s - r
  BY <1>0, <1>1, <1>3
<1>5. (d > 0 => w * d >= w) /\ (d < 0 => w * d <= -w)
  OBVIOUS
<1>6. d = 0
  BY <1>4, <1>5
<1> QED
  BY <1>0, <1>1, <1>3, <1>4, <1>6

\* One more.
LEMMA Successor ==
  ASSUME NEW w \in Nat \ {0}, NEW n \in Nat
  PROVE  (n + 1) % w = IF (n % w) + 1 = w THEN 0 ELSE (n % w) + 1
<1>1. PICK p \in Int, s \in 0 .. w - 1 : n = w * p + s /\ n % w = s
  BY Division
<1>2. w * (p + 1) = w * p + w /\ w * p \in Int
  BY <1>1
<1>3. PICK x \in Nat : x = n + 1
  OBVIOUS
<1> DEFINE r == IF s + 1 = w THEN 0 ELSE s + 1
<1>4. r \in 0 .. w - 1
  OBVIOUS
<1>5. \E q \in Int : x = w * q + r
  <2>1. CASE s + 1 = w
    <3>1. x = w * (p + 1) + r
      BY <1>1, <1>2, <1>3, <2>1
    <3> WITNESS p + 1 \in Int
    <3> QED
      BY <3>1
  <2>2. CASE s + 1 # w
    <3>1. x = w * p + r
      BY <1>1, <1>2, <1>3, <2>2
    <3> QED
      BY <3>1
  <2> QED
    BY <2>1, <2>2
<1> HIDE DEF r
<1>6. x % w = r
  BY <1>4, <1>5, Remainder
<1> QED
  BY <1>1, <1>3, <1>6 DEF r

\* Numbers that differ by a multiple of w.
LEMMA Multiples ==
  ASSUME NEW w \in Nat \ {0}, NEW n \in Nat, NEW m \in Nat, m % w = 0
  PROVE  (n + m) % w = n % w
<1>1. PICK p \in Int, s \in 0 .. w - 1 : n = w * p + s /\ n % w = s
  BY Division
<1>2. PICK k \in Int, z \in 0 .. w - 1 : m = w * k + z /\ m % w = z
  BY Division
<1>3. w * (p + k) = w * p + w * k /\ w * p \in Int /\ w * k \in Int /\ z = 0
  BY <1>2
<1>4. PICK x \in Nat : x = n + m
  OBVIOUS
<1>5. \E q \in Int : x = w * q + s
  <2>1. x = w * (p + k) + s
    BY <1>1, <1>2, <1>3, <1>4
  <2> WITNESS p + k \in Int
  <2> QED
    BY <2>1
<1>6. x % w = s
  BY <1>5, Remainder
<1> QED
  BY <1>1, <1>4, <1>6
-----------------------------------------------------------------------------
(* The main loop.                                                          *)

\* A simulation owns the loop until it ends: its snapshot is lived, outputs
\* are inhibited by it alone, and no second cycle can begin.
Contained ==
  IF pc = "simulate"
  THEN warp /\ cycle /\ ~was /\ snapshot.content = "lived"
  ELSE content = "lived" /\ ~warp /\ ~cycle /\ ~inhibited

\* The points at which a domain may stay as it was (adjust_opp finds nothing
\* to do) are those of the normal mode, which powers no more than is powered.
Supplied ==
  /\ DomainsAtOpp
  /\ opp \in {2, 3} => Powered("Normal") \subseteq powered

\* Turns without work since the last with work: no more than steps have
\* passed since the last multiple of Work, a simulation counted as one.
Reached(t) == t % Work = 0 \/ idle + 1 <= t % Work
Waking ==
  /\ slept = "Active" /\ idle + 1 <= Work
  /\ pc = "step" => idle <= time % Work
  /\ pc = "simulate" => Reached(time + left)
  /\ pc \in {"power", "tail"} => Reached(time)

LoopInv == LoopTypeOK /\ Contained /\ Supplied /\ Waking /\ StepSeesBattery

LEMMA LoopNumbers ==
  /\ Work \in Nat \ {0} /\ Horizon \in Nat \ {0}
  /\ SimSteps \in Nat /\ ShortRest \in Nat /\ LongRest \in Nat
  /\ IdleLimit \in Nat
BY LoopAssumption

LEMMA LoopStarts == LoopInit => LoopInv
<1> SUFFICES ASSUME LoopInit PROVE LoopInv
  OBVIOUS
<1> USE LoopNumbers
<1>1. PowerTypeOK
  BY DEF LoopInit, PowerInit, PowerTypeOK, Battery, Mode, Opp, Domain, Sleep
<1>2. LoopTypeOK
  <2>1. 0 \in 0 .. (IF ShortRest > LongRest THEN ShortRest ELSE LongRest)
        /\ 0 \in 0 .. Horizon - 1 /\ 0 \in 0 .. SimSteps
    OBVIOUS
  <2>2. snapshot \in Snapshot /\ energy \in Battery
    BY DEF LoopInit, Snapshot, Content, Battery
  <2> QED
    BY <1>1, <2>1, <2>2 DEF LoopInit, LoopTypeOK, Content
<1>3. Supplied
  BY DEF LoopInit, PowerInit, Supplied, DomainsAtOpp, Powered, Domain
<1>4. Waking
  <2>1. 0 % Work = 0
    OBVIOUS
  <2> QED
    BY <2>1 DEF LoopInit, PowerInit, Waking
<1> QED
  BY <1>2, <1>3, <1>4 DEF LoopInv, LoopInit, PowerInit, Contained, StepSeesBattery

\* The next step number, of the time and of its remainder.
LEMMA NowLemma ==
  ASSUME time \in 0 .. Horizon - 1, NEW k \in Nat
  PROVE  /\ Now \in 0 .. Horizon - 1
         /\ (Now + k) % Work = (time + 1 + k) % Work
         /\ Now % Work = (time + 1) % Work
<1> USE LoopNumbers
<1>1. time + 1 = Horizon \/ time + 1 < Horizon
  OBVIOUS
<1>2. \A n \in 0 .. Horizon - 1 : n % Horizon = n
  OBVIOUS
<1>3. Horizon % Horizon = 0
  OBVIOUS
<1>4. Now = IF time + 1 = Horizon THEN 0 ELSE time + 1
  BY <1>1, <1>2, <1>3 DEF Now
<1>5. (k + Horizon) % Work = k % Work
  BY Multiples, LoopAssumption
<1>6. 0 % Work = 0
  OBVIOUS
<1>7. Horizon % Work = 0
  BY LoopAssumption
<1> QED
  BY <1>4, <1>5, <1>6, <1>7

LEMMA BodyTypes ==
  ASSUME LoopTypeOK, Body
  PROVE  /\ PowerTypeOK' /\ time' \in 0 .. Horizon - 1 /\ content' \in Content
         /\ driven' \in Content /\ saved' \in Content /\ energy' \in Battery
         /\ Lived \in Content /\ Adapted \in 0 .. 2
<1>1. Lived \in Content /\ Adapted \in 0 .. 2
  BY DEF LoopTypeOK, PowerTypeOK, Lived, Content, Adapted
<1>2. time' \in 0 .. Horizon - 1
  BY NowLemma DEF LoopTypeOK, Body
<1>3. PowerTypeOK'
  BY <1>1 DEF LoopTypeOK, PowerTypeOK, Body
<1> QED
  BY <1>1, <1>2, <1>3 DEF LoopTypeOK, Body

\* A turn passes, with or without a step that counts as work.
LEMMA Later ==
  ASSUME NEW n \in Nat, idle <= n % Work, idle \in Nat
  PROVE  Reached(n + 1)
<1> USE LoopNumbers
<1>1. (n + 1) % Work = IF (n % Work) + 1 = Work THEN 0 ELSE (n % Work) + 1
  BY Successor
<1>2. n % Work \in 0 .. Work - 1
  OBVIOUS
<1> QED
  BY <1>1, <1>2 DEF Reached

LEMMA StepKeeps == LoopInv /\ Step => LoopInv'
<1> SUFFICES ASSUME LoopInv, Step PROVE LoopInv'
  OBVIOUS
<1> USE LoopNumbers
<1>1. PICK called \in BOOLEAN :
        IF Triggered(called) THEN BeginCycle /\ pc' = "simulate"
        ELSE pc' = "power" /\ UNCHANGED <<cycle, was, snapshot, warp,
                                          inhibited, left>>
  BY DEF Step
<1>2. /\ pc = "step" /\ Body /\ cooldown' = Rested
      /\ LoopTypeOK /\ Contained /\ Supplied /\ Waking
  BY DEF Step, LoopInv
<1>3. /\ PowerTypeOK' /\ time' \in 0 .. Horizon - 1 /\ content' \in Content
      /\ driven' \in Content /\ saved' \in Content /\ energy' \in Battery
      /\ Lived \in Content /\ Adapted \in 0 .. 2
  BY <1>2, BodyTypes
<1>4. cooldown' \in 0 .. (IF ShortRest > LongRest THEN ShortRest ELSE LongRest)
  BY <1>2 DEF Rested, LoopTypeOK
<1>5. content' = "lived" /\ Lived = "lived" /\ ~inhibited /\ ~warp /\ ~cycle
  BY <1>2 DEF Body, Lived, Contained
<1>6. UNCHANGED <<opp, powered, speed, idle, slept>>
  BY <1>2 DEF Body
<1>7. Reached(time + 1) /\ idle \in Nat /\ time \in Nat
  BY <1>2, Later DEF Waking, LoopTypeOK, PowerTypeOK
<1>8. SimSteps \in 0 .. SimSteps
  OBVIOUS
<1>9. time' % Work = (time + 1) % Work
      /\ (time' + SimSteps) % Work = (time + 1 + SimSteps) % Work
  BY <1>2, NowLemma DEF Body, LoopTypeOK
<1>10. (time + 1 + SimSteps) % Work = (time + 1) % Work
  <2>1. time + 1 \in Nat
    BY <1>7
  <2> QED
    BY <2>1, Multiples, LoopAssumption
<1>11. Supplied'
  BY <1>2, <1>6 DEF Supplied, DomainsAtOpp
<1>12. CASE Triggered(called)
  <2>1. BeginCycle /\ pc' = "simulate"
    BY <1>1, <1>12
  <2>2. LoopTypeOK'
    BY <1>2, <1>3, <1>4, <1>8, <2>1
       DEF BeginCycle, Duration, LoopTypeOK, Snapshot
  <2>3. Contained'
    BY <1>5, <2>1 DEF BeginCycle, Contained
  <2>4. Reached(time + left)'
    BY <1>6, <1>7, <1>9, <1>10, <2>1 DEF Reached, BeginCycle, Duration
  <2>5. Waking'
    BY <1>2, <1>6, <2>1, <2>4 DEF Waking
  <2> QED
    BY <1>11, <2>1, <2>2, <2>3, <2>5 DEF LoopInv, StepSeesBattery
<1>13. CASE ~Triggered(called)
  <2>1. pc' = "power" /\ UNCHANGED <<cycle, was, snapshot, warp, inhibited, left>>
    BY <1>1, <1>13
  <2>2. LoopTypeOK'
    BY <1>2, <1>3, <1>4, <2>1 DEF LoopTypeOK
  <2>3. Contained'
    BY <1>5, <2>1 DEF Contained
  <2>4. Reached(time)'
    BY <1>6, <1>7, <1>9 DEF Reached
  <2>5. Waking'
    BY <1>2, <1>6, <2>1, <2>4 DEF Waking
  <2> QED
    BY <1>11, <2>1, <2>2, <2>3, <2>5 DEF LoopInv, StepSeesBattery
<1> QED
  BY <1>12, <1>13

LEMMA SimStepKeeps == LoopInv /\ SimStep => LoopInv'
<1> SUFFICES ASSUME LoopInv, SimStep PROVE LoopInv'
  OBVIOUS
<1> USE LoopNumbers
<1>1. /\ pc = "simulate" /\ left > 0 /\ Body /\ cooldown' = Rested /\ pc' = pc
      /\ LoopTypeOK /\ Contained /\ Supplied /\ Waking
  BY DEF SimStep, LoopInv
<1>2. \A called \in BOOLEAN : ~Triggered(called)
  BY <1>1 DEF Contained, Triggered
<1>3. left' = left - 1 /\ UNCHANGED <<cycle, was, snapshot, warp, inhibited>>
  BY <1>2 DEF SimStep
<1>4. /\ PowerTypeOK' /\ time' \in 0 .. Horizon - 1 /\ content' \in Content
      /\ driven' \in Content /\ saved' \in Content /\ energy' \in Battery
  BY <1>1, BodyTypes
<1>5. cooldown' \in 0 .. (IF ShortRest > LongRest THEN ShortRest ELSE LongRest)
  BY <1>1 DEF Rested, LoopTypeOK
<1>6. UNCHANGED <<opp, powered, speed, idle, slept>>
  BY <1>1 DEF Body
<1>7. left' \in 0 .. SimSteps /\ left \in Nat /\ time \in 0 .. Horizon - 1
  BY <1>1, <1>3 DEF LoopTypeOK
<1>8. LoopTypeOK'
  BY <1>1, <1>3, <1>4, <1>5, <1>7 DEF LoopTypeOK
<1>9. Reached(time + left)'
  <2>1. left' \in Nat /\ time + 1 + left' = time + left
    BY <1>3, <1>7
  <2>2. (time' + left') % Work = (time + 1 + left') % Work
    BY <1>1, <1>7, <2>1, NowLemma DEF Body
  <2> QED
    BY <1>1, <1>6, <2>1, <2>2 DEF Waking, Reached
<1> QED
  BY <1>1, <1>3, <1>6, <1>8, <1>9
     DEF LoopInv, Contained, Supplied, DomainsAtOpp, Waking, StepSeesBattery

LEMMA EndCycleKeeps == LoopInv /\ EndCycle => LoopInv'
<1> SUFFICES ASSUME LoopInv, EndCycle PROVE LoopInv'
  OBVIOUS
<1> USE LoopNumbers
<1>1. /\ pc = "simulate" /\ left = 0 /\ pc' = "power"
      /\ content' = snapshot.content /\ silenced' = snapshot.silenced
      /\ warp' = FALSE /\ cycle' = FALSE /\ inhibited' \in BOOLEAN
      /\ inhibited' => was
      /\ cooldown' \in {LongRest, ShortRest}
      /\ LoopTypeOK /\ Contained /\ Supplied /\ Waking
  BY DEF EndCycle, LoopInv
<1>2. UNCHANGED <<battery, mode, opp, powered, gated, speed, timerClocks, idle,
                  slept, time, was, left, snapshot, driven, saved, energy>>
  BY DEF EndCycle
<1>3. cooldown' \in 0 .. (IF ShortRest > LongRest THEN ShortRest ELSE LongRest)
  BY <1>1
<1>4. LoopTypeOK'
  BY <1>1, <1>2, <1>3 DEF LoopTypeOK, PowerTypeOK, Snapshot
<1>5. time + left = time
  BY <1>1 DEF LoopTypeOK
<1> QED
  BY <1>1, <1>2, <1>4, <1>5
     DEF LoopInv, Contained, Supplied, DomainsAtOpp, Waking, Reached,
         StepSeesBattery

LEMMA PowerStepKeeps == LoopInv /\ PowerStep => LoopInv'
<1> SUFFICES ASSUME LoopInv, PowerStep PROVE LoopInv'
  OBVIOUS
<1> USE LoopNumbers
<1>1. /\ pc = "power" /\ pc' = "tail"
      /\ LoopTypeOK /\ Contained /\ Supplied /\ Waking
  BY DEF PowerStep, LoopInv
<1>2. UNCHANGED <<time, cooldown, cycle, warp, inhibited, was, left, content,
                  snapshot, driven, saved, energy>>
  BY DEF PowerStep
<1>3. PICK b \in Charged(battery), rich \in BOOLEAN :
        LET m == ModeFor(b, rich) IN
        /\ battery' = b /\ mode' = m /\ opp' = Target(m, b)
        /\ powered' = Powered(m)
        /\ gated' = Gated(m)
        /\ speed' = [d \in Domain |->
                       IF d \in Powered(m) /\ Synced(m, b) THEN Target(m, b)
                                                           ELSE speed[d]]
        /\ timerClocks' = (timerClocks /\ m # "Critical")
        /\ silenced' = Silenced(m)
        /\ UNCHANGED <<idle, slept>>
  BY DEF PowerStep, Update
<1> DEFINE m == ModeFor(b, rich)
<1>4. b \in Battery /\ m \in Mode
  BY DEF Charged, ModeFor, Battery, Mode
<1>5. Target(m, b) \in Opp /\ (Target(m, b) \in {2, 3} <=> m = "Normal")
  BY <1>4 DEF Target, Opp, Mode
<1>6. Powered(m) \subseteq Domain /\ Gated(m) \subseteq Domain
      /\ Silenced(m) \in 0 .. 2
  BY <1>1 DEF Powered, Domain, Gated, Silenced, LoopTypeOK, PowerTypeOK
<1> HIDE DEF m
<1>7. speed' \in [Domain -> Opp] /\ UNCHANGED <<idle, slept>>
  BY <1>1, <1>3, <1>5 DEF LoopTypeOK, PowerTypeOK, m
<1>8. PowerTypeOK'
  BY <1>1, <1>3, <1>4, <1>5, <1>6, <1>7 DEF LoopTypeOK, PowerTypeOK, m
<1>9. LoopTypeOK'
  BY <1>1, <1>2, <1>8 DEF LoopTypeOK
<1>10. Supplied'
  <2>1. opp' = Target(m, b) /\ powered' = Powered(m)
    BY <1>3 DEF m
  <2>2. \A d \in Powered(m) : speed'[d] = IF Synced(m, b) THEN Target(m, b) ELSE speed[d]
    BY <1>3, <1>6 DEF m
  <2>3. ~Synced(m, b) => m = "Normal" /\ Target(m, b) = opp /\ opp \in {2, 3}
    BY <1>5 DEF Synced
  <2> QED
    BY <1>1, <1>5, <2>1, <2>2, <2>3 DEF Supplied, DomainsAtOpp
<1> QED
  BY <1>1, <1>2, <1>7, <1>9, <1>10
     DEF LoopInv, Contained, Waking, Reached, StepSeesBattery

LEMMA RestKeeps == LoopInv /\ Rest => LoopInv'
<1> SUFFICES ASSUME LoopInv, Rest PROVE LoopInv'
  OBVIOUS
<1> USE LoopNumbers
<1>1. /\ pc = "tail" /\ pc' = "step" /\ energy' = battery
      /\ LoopTypeOK /\ Contained /\ Supplied /\ Waking
      /\ UNCHANGED <<battery, mode, opp, powered, gated, speed, timerClocks,
                     silenced>>
  BY DEF Rest, SyncEnergy, IdleIfPossible, LoopInv
<1>2. UNCHANGED <<time, cooldown, cycle, warp, inhibited, was, left, content,
                  snapshot, driven, saved>>
  BY DEF Rest
<1>3. idle \in Nat /\ idle + 1 <= Work /\ time % Work \in 0 .. Work - 1
      /\ slept = "Active"
  BY <1>1 DEF LoopTypeOK, PowerTypeOK, Waking
<1> DEFINE beat == time % Work
<1>4. beat = 0 \/ idle + 1 <= beat
  BY <1>1 DEF Waking, Reached
<1>5. LET long == beat # 0 /\ idle + 1 > IdleLimit IN
      /\ idle' = IF beat = 0 \/ (long /\ mode = "Exploration") THEN 0 ELSE idle + 1
      /\ slept' = CASE long /\ mode \in {"Critical", "LowPower"} -> "DeepSleep"
                    [] long /\ mode = "Normal" -> "LightSleep"
                    [] OTHER -> slept
  BY DEF Rest, IdleIfPossible
<1> HIDE DEF beat
<1>6. ~(beat # 0 /\ idle + 1 > IdleLimit)
  BY <1>3, <1>4, LoopAssumption DEF beat
<1>7. slept' = "Active" /\ idle' = IF beat = 0 THEN 0 ELSE idle + 1
  BY <1>3, <1>5, <1>6
<1>8. idle' \in Nat /\ idle' <= beat /\ idle' + 1 <= Work /\ idle' <= IdleLimit
  BY <1>3, <1>4, <1>7, LoopAssumption DEF beat
<1>9. PowerTypeOK'
  BY <1>1, <1>7, <1>8 DEF LoopTypeOK, PowerTypeOK, Sleep
<1>10. LoopTypeOK'
  BY <1>1, <1>2, <1>9 DEF LoopTypeOK, PowerTypeOK
<1> QED
  BY <1>1, <1>2, <1>7, <1>8, <1>10
     DEF LoopInv, Contained, Supplied, DomainsAtOpp, Waking, StepSeesBattery, beat

LEMMA LoopStep == LoopInv /\ [LoopNext]_mainVars => LoopInv'
<1>1. LoopInv /\ UNCHANGED mainVars => LoopInv'
  BY DEF mainVars, loopVars, powerVars, LoopInv, LoopTypeOK, PowerTypeOK, Contained,
         Supplied, DomainsAtOpp, Waking, Reached, StepSeesBattery
<1> QED
  BY <1>1, StepKeeps, SimStepKeeps, EndCycleKeeps, PowerStepKeeps, RestKeeps
     DEF LoopNext
-----------------------------------------------------------------------------
\* For all periods, rests and simulation lengths, no turn is skipped by sleep,
\* every one sees the battery's level, and powered domains run at the point
\* chosen last (TurnsArePaced of run device).
THEOREM TurnsStayPaced == DeviceSpec => []TurnsArePaced
<1>1. LoopInv => TurnsArePaced
  BY DEF LoopInv, Supplied, Waking, NeverSleeps, TurnsArePaced
<1> QED
  BY <1>1, LoopStarts, LoopStep, Parts, PTL DEF DeviceSpec, DeviceInit

\* A simulation leaves nothing behind, whatever it is called for and however
\* it comes out (predictive_cycle and run_simulation).
THEOREM NothingLeaks == DeviceSpec => []NoSimulationLeaks
<1>1. LoopInv => NoSimulationLeaks
  BY DEF LoopInv, Contained, NoSimulationLeaks
<1> QED
  BY <1>1, LoopStarts, LoopStep, Parts, PTL DEF DeviceSpec, DeviceInit
=============================================================================
