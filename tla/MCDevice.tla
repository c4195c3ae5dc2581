------------------------------ MODULE MCDevice ------------------------------
(* What runs on the board: the update at boot (Ota) and the main loop with *)
(* its power management (MainLoop).  They share no variable, so a          *)
(* behaviour drives one of them.                                           *)
(*                                                                         *)
(* Two images that start and one that does not, and up to MaxLosses power  *)
(* losses: enough for a staging over a staged image, an interrupted switch *)
(* and an interrupted rollback in one behaviour.  The periods of the loop  *)
(* stand in the proportions of the code's, divided down.                   *)
EXTENDS Ota, MainLoop

VARIABLE part

deviceVars == <<part, vars, mainVars>>

Updating(A) == part = "update" /\ A /\ UNCHANGED <<part, mainVars>>
Looping(A) == part = "loop" /\ A /\ UNCHANGED <<part, vars>>

DeviceInit ==
  /\ part \in {"update", "loop"} /\ Init /\ LoopInit
  /\ part = "loop" => bank[0] = CHOOSE v \in Image \ Dud : TRUE
DeviceNext == Updating(Next) \/ Looping(LoopNext)

\* The fairness of Ota and of MainLoop.
DeviceSpec ==
  /\ DeviceInit /\ [][DeviceNext]_deviceVars
  /\ WF_deviceVars(Updating(WriteWord)) /\ WF_deviceVars(Updating(Reset))
  /\ WF_deviceVars(Updating(InitOta)) /\ WF_deviceVars(Updating(FinishBoot))
  /\ WF_deviceVars(Updating(WatchdogReset))
  /\ WF_deviceVars(Updating(FinishStage \/ AbandonStage))
  /\ WF_deviceVars(Looping(LoopNext))

\* See Ota: boot comes to the main loop.
UpdateSettles == part = "update" => BootSettles
=============================================================================
