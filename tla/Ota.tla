--------------------------------- MODULE Ota ---------------------------------
(***************************************************************************)
(* Firmware update over two flash banks: OTAManager (system/ota.rs) inside *)
(* the boot sequence of system/boot.rs.  RAM is lost at a reset; the two   *)
(* banks and the metadata words stay.  save_metadata writes the words one  *)
(* after the other, and power may be lost between any two of them, or in   *)
(* the middle of a staging.                                                *)
(*                                                                         *)
(* What boots after a reset is outside the repository (no code selects a   *)
(* bank from OTA_ACTIVE_BANK; active_bank_base has no caller): the model   *)
(* takes the bank OTA_ACTIVE_BANK names, as trigger_soft_reset's comment   *)
(* expects.                                                                *)
(*                                                                         *)
(* The builds modelled are those without the flash feature, which is not a *)
(* default one: PersistenceManager::save, called by apply_update and by    *)
(* the main loop, then stays in RAM and touches nothing modelled here.     *)
(* With flash every save erases sector 8, at OTA_META_BASE, and the        *)
(* metadata with it.  That a word reads back as written is an idealisation *)
(* of its own: write_word programs over whatever the word held.            *)
(***************************************************************************)
EXTENDS Naturals, Sequences

CONSTANTS Image,      \* firmware images that pass stage_firmware's CRC check
          Dud,        \* those of them that do not start
          MaxLosses   \* bound: how often power is lost

Partial == "partial"               \* contents of a bank erased or half written

ASSUME ImageAssumption ==
  Dud \subseteq Image /\ MaxLosses \in Nat /\ Partial \notin Image

Bank == {0, 1}
Status == {"Idle", "UpdateReady", "Applying", "Applied", "RolledBack", "Failed"}
Field == {"active_bank", "status", "boot_count"}
max_boot_count == 3

VARIABLES bank,      \* the image in each bank
          meta,      \* the metadata words in flash
          ota,       \* OTA_MANAGER in RAM
          running,   \* the bank the CPU executes
          phase,     \* where the program is
          saving,    \* words save_metadata still has to write
          resume,    \* the phase after save_metadata returns
          losses

vars == <<bank, meta, ota, running, phase, saving, resume, losses>>

Phase == {"off", "init", "boot", "run", "staging", "hung"}
Metadata == [active_bank : Bank, status : Status, boot_count : 0 .. max_boot_count]

Starts(b) == bank[b] \in Image \ Dud

Other(b) == 1 - b

\* The factory state: the first image in bank A, nothing in bank B.
Init ==
  /\ \E i \in Image \ Dud : bank = [b \in Bank |-> IF b = 0 THEN i ELSE Partial]
  /\ meta = [active_bank |-> 0, status |-> "Idle", boot_count |-> 0]
  /\ ota = meta
  /\ running = 0 /\ phase = "off" /\ saving = << >> /\ resume = "off" /\ losses = 0
-----------------------------------------------------------------------------
(* save_metadata                                                           *)

\* Mutated form of Words: the status goes first.
WordsStatusFirst == <<"status", "active_bank", "boot_count">>

\* The words that change, in the order of save_metadata's table; versions,
\* checksums, sizes and the timestamp decide nothing.
Words == <<"active_bank", "status", "boot_count">>

\* Update the manager and write it to flash, then go on in phase p.
SaveThen(m, p) ==
  /\ ota' = m
  /\ saving' = Words
  /\ resume' = p
  /\ UNCHANGED phase

\* Update the manager without saving it, and go on in phase p.
KeepThen(m, p) ==
  /\ ota' = m
  /\ phase' = p
  /\ UNCHANGED <<saving, resume>>

\* flash_ctrl::write_word for the next word of the table.
WriteWord ==
  /\ saving # << >>
  /\ meta' = [meta EXCEPT ![Head(saving)] = ota[Head(saving)]]
  /\ saving' = Tail(saving)
  /\ phase' = IF Len(saving) = 1 THEN resume ELSE phase
  /\ UNCHANGED <<bank, ota, running, resume, losses>>
-----------------------------------------------------------------------------
(* Boot: init_ota, check_rollback, then the end of init_hardware.          *)

\* The reset vector of the selected bank; an image that does not start hangs.
Reset ==
  /\ phase = "off"
  /\ running' = meta.active_bank
  /\ phase' = IF Starts(meta.active_bank) THEN "init" ELSE "hung"
  /\ UNCHANGED <<bank, meta, ota, saving, resume, losses>>

RolledBack(m) == [active_bank |-> Other(m.active_bank), status |-> "RolledBack",
                  boot_count  |-> 0]

\* Mutated form of Rollback: the status is left as it was.
RollbackKeepsStatus(m) == [RolledBack(m) EXCEPT !.status = m.status]

\* OTAManager::rollback
Rollback(m) == RolledBack(m)

\* OTAManager::check_rollback on the metadata just read.
CheckRollback(m) ==
  CASE m.status = "Applied" ->
         LET n == [m EXCEPT !.boot_count = @ + 1]
         IN SaveThen(IF n.boot_count >= max_boot_count
                     THEN [n EXCEPT !.status = "Idle"] ELSE n, "boot")
    [] m.status = "Applying" -> SaveThen(Rollback(m), "boot")
    [] OTHER -> KeepThen(m, "boot")

\* OTAManager::init, called by init_ota.  rollback() does not reset: the
\* boot goes on in the bank it has just left.
InitOta ==
  /\ phase = "init" /\ saving = << >>
  /\ CheckRollback(meta)
  /\ UNCHANGED <<bank, meta, running, losses>>

\* Mutated form of ApplyUpdate: the status is not advanced before the reset.
ApplyKeepsReady(m) == SaveThen([m EXCEPT !.active_bank = Other(@)], "off")

\* OTAManager::apply_update on a staged image.  Its first call,
\* PersistenceManager::save, changes RAM slots only in the builds modelled.
ApplyUpdate(m) ==
  SaveThen([active_bank |-> Other(m.active_bank), status |-> "Applying",
            boot_count |-> 0], "off")

\* OTAManager::confirm_stable
ConfirmStable(m) ==
  IF m.status = "Applied" /\ m.boot_count >= max_boot_count
  THEN SaveThen([m EXCEPT !.status = "Idle"], "run")
  ELSE KeepThen(m, "run")

\* The last lines of init_hardware: a staged update is applied and the soft
\* reset follows, otherwise the firmware is confirmed and the main loop runs.
FinishBoot ==
  /\ phase = "boot" /\ saving = << >>
  /\ IF ota.status = "UpdateReady" THEN ApplyUpdate(ota) ELSE ConfirmStable(ota)
  /\ UNCHANGED <<bank, meta, running, losses>>
-----------------------------------------------------------------------------
(* stage_firmware                                                          *)

\* Mutated form: the target is the bank that is not executing.
TargetNotRunning == Other(running)

\* The bank that is not the active one.
StageTarget == Other(ota.active_bank)

\* The checks pass and the target's sectors are erased; erasing the bank the
\* CPU executes takes the code away under it.
BeginStage ==
  /\ phase = "run" /\ saving = << >>
  /\ bank' = [bank EXCEPT ![StageTarget] = Partial]
  /\ phase' = IF StageTarget = running THEN "hung" ELSE "staging"
  /\ UNCHANGED <<meta, ota, running, saving, resume, losses>>

\* Header and body are written and the metadata says UpdateReady.
FinishStage ==
  /\ phase = "staging" /\ saving = << >>
  /\ \E i \in Image : bank' = [bank EXCEPT ![StageTarget] = i]
  /\ SaveThen([ota EXCEPT !.status = "UpdateReady"], "run")
  /\ UNCHANGED <<meta, running, losses>>

\* An erase or a write is refused: false is returned and the metadata is left.
AbandonStage ==
  /\ phase = "staging" /\ saving = << >>
  /\ phase' = "run"
  /\ UNCHANGED <<bank, meta, ota, running, saving, resume, losses>>

Stage == BeginStage \/ FinishStage \/ AbandonStage
-----------------------------------------------------------------------------
(* Resets from outside                                                     *)

\* Power is lost, or the watchdog of a running system fires.
PowerLoss ==
  /\ phase \notin {"off", "hung"} /\ losses < MaxLosses
  /\ phase' = "off" /\ saving' = << >> /\ resume' = "off"
  /\ losses' = losses + 1
  /\ UNCHANGED <<bank, meta, ota, running>>

\* The hardware watchdog resets a system that hangs.
WatchdogReset ==
  /\ phase = "hung"
  /\ phase' = "off"
  /\ UNCHANGED <<bank, meta, ota, running, saving, resume, losses>>

\* A reset asked for while the system runs.
Restart ==
  /\ phase = "run" /\ saving = << >>
  /\ phase' = "off"
  /\ UNCHANGED <<bank, meta, ota, running, saving, resume, losses>>

Next == \/ WriteWord \/ Reset \/ InitOta \/ FinishBoot \/ Stage
        \/ PowerLoss \/ WatchdogReset \/ Restart

\* Straight-line code runs to its end; nobody has to stage or restart.
Fairness ==
  /\ WF_vars(WriteWord) /\ WF_vars(Reset) /\ WF_vars(InitOta) /\ WF_vars(FinishBoot)
  /\ WF_vars(WatchdogReset) /\ WF_vars(FinishStage \/ AbandonStage)

Spec == Init /\ [][Next]_vars /\ Fairness
-----------------------------------------------------------------------------
\* Metadata and program stay in their domains (boot_count under its maximum).
TypeOK ==
  /\ bank \in [Bank -> Image \cup {Partial}]
  /\ meta \in Metadata /\ ota \in Metadata
  /\ running \in Bank
  /\ phase \in Phase /\ resume \in Phase
  /\ saving \in Seq(Field)
  /\ losses \in 0 .. MaxLosses

\* While stage_firmware has the target bank erased, a reset at any moment
\* still boots the other one: RAM and flash agree on which bank is active.
StagingSparesBootBank == phase = "staging" => meta.active_bank # StageTarget

\* While a bank switch waits for its verdict, the bank to fall back to is
\* whole, whatever power losses came before.
FallbackIsWhole ==
  meta.status = "Applying" => bank[Other(meta.active_bank)] # Partial

\* The main loop never runs with a bank switch undecided: check_rollback has
\* settled it in flash before, however often the settling was interrupted.
\* (Nothing ever brings the status to Applied, so the boot_count tests of
\* check_rollback and confirm_stable decide nothing.)
SwitchDecided ==
  /\ phase \in {"run", "staging"} /\ saving = << >> => meta.status # "Applying"
  /\ "Applied" \notin {meta.status, ota.status}

\* With startable images in both banks every boot comes to the main loop:
\* switching, rolling back and interrupted metadata never make a reset loop.
BootSettles ==
  (\A b \in Bank : Starts(b)) ~> (phase = "run" \/ \E b \in Bank : ~Starts(b))

\* check_for_update is said to validate the candidate's CRC32: the bank that
\* is selected for the next boot then never holds a half-written image.
BootBankIsWhole == bank[meta.active_bank] # Partial
=============================================================================
