------------------------------- MODULE MainLoop -------------------------------
(***************************************************************************)
(* run_main_loop (system/boot.rs) around Network::step (snn/network.rs),   *)
(* with the power manager (system/power.rs): battery, mode, operating      *)
(* point and power domains, updated once per turn, and the idle counter    *)
(* that may put the processor to sleep.                                    *)
(*                                                                         *)
(* A turn is one network step, the power update, the emergency checks, the *)
(* energy hand-over and the idle decision.  A step may end in a predictive *)
(* cycle, which runs SimSteps more steps of the same network under a time  *)
(* warp and then puts the neurons and synapses back.                       *)
(*                                                                         *)
(* What the network holds is kept as lived or dreamt: did a simulation     *)
(* write it.  Time is kept modulo Horizon, a multiple of every period; the *)
(* periods stand in the proportions of the code's.  Whether the curiosity  *)
(* or the prediction error calls for a cycle, and how it comes out, is an  *)
(* input.  step_parallel differs from step only in how plasticity is       *)
(* spread over threads and in leaving out the bio modules.                 *)
(***************************************************************************)
EXTENDS Naturals, FiniteSets

CONSTANTS IdleLimit,        \* idle turns before the processor sleeps
          Work,             \* actuators are driven and work counts as done: 10
          EnergyPeriod,     \* energy_adaption: 100
          CyclePeriod,      \* a cycle in spite of the cooldown: 10000
          ForcePeriod,      \* a cycle without any call for it: 30000
          SavePeriod,       \* periodic save: 60000
          SimSteps,         \* steps of a simulation: 50
          ShortRest, LongRest,  \* cooldowns: 2000 and 5000
          Horizon           \* bound: time is kept modulo this

ASSUME LoopAssumption ==
  /\ IdleLimit \in Nat
  /\ {Work, EnergyPeriod, CyclePeriod, ForcePeriod, SavePeriod, Horizon}
       \subseteq Nat \ {0}
  /\ {SimSteps, ShortRest, LongRest} \subseteq Nat
  /\ Work <= IdleLimit + 1 /\ SimSteps % Work = 0
  /\ \A p \in {Work, EnergyPeriod, CyclePeriod, ForcePeriod, SavePeriod} :
       Horizon % p = 0

VARIABLES battery,          \* battery_level, by range
          mode, opp,        \* PowerMode, current_opp
          powered,          \* domains enabled
          gated,            \* domains whose clock_gated is set
          speed,            \* operating point each domain runs at
          timerClocks,      \* are TIM2 and TIM3 clocked
          silenced,         \* 0 no layer, 1 layers 3 and 7, 2 layers 1 to 7
          idle,             \* idle_step_count
          slept             \* (history) sleep state last entered

powerVars == <<battery, mode, opp, powered, gated, speed, timerClocks,
               silenced, idle, slept>>

VARIABLES pc,               \* step, simulate, power or tail
          time, cooldown,   \* time, cycle_cooldown
          cycle, warp,      \* cycle_active, warp_active
          inhibited, was,   \* output_inhibited, was_inhibited
          left,             \* simulation steps to run
          content,          \* what NEURON_ARRAY and SYNAPSE_ARRAY hold
          snapshot,         \* SIMULATION_SAVE_SLOT
          driven,           \* what read_motor_outputs last looked at
          saved,            \* what the last periodic save kept
          energy            \* energy_level of the network

loopVars == <<pc, time, cooldown, cycle, warp, inhibited, was, left, content,
              snapshot, driven, saved, energy>>
mainVars == <<powerVars, loopVars>>

-----------------------------------------------------------------------------
(* The power manager.  The battery is kept as the range its tests tell     *)
(* apart: 0 below 0.1, 1 below 0.3, 2 up to 0.7, 3 above.  Harvest and     *)
(* consumption are public fields: what they make of the battery, and       *)
(* whether the harvest is more than twice the consumption, is an input of  *)
(* every update.                                                           *)

Battery == 0 .. 3
Mode == {"Normal", "LowPower", "Critical", "Exploration"}
Domain == {"Cpu", "Memory", "Sensors", "Actuators", "Radio", "Cognitive"}
Opp == 0 .. 4                               \* OPP_TABLE
Sleep == {"Active", "LightSleep", "DeepSleep"}

\* PowerManager::new and init: every domain on, at the starting point.
PowerInit ==
  /\ battery = 3 /\ mode = "Normal" /\ opp = 3
  /\ powered = Domain /\ gated = {} /\ speed = [d \in Domain |-> 3]
  /\ timerClocks = TRUE /\ silenced = 0
  /\ idle = 0 /\ slept = "Active"

\* The battery ranges one update may lead to (clamped at both ends).
Charged(b) == {c \in Battery : c + 1 >= b /\ c <= b + 1}

ModeFor(b, rich) ==
  CASE b = 0 -> "Critical"
    [] b = 1 -> "LowPower"
    [] b > 1 /\ rich -> "Exploration"
    [] OTHER -> "Normal"

\* The domains the enter_*_mode functions leave enabled.
Powered(m) ==
  {"Cpu", "Memory", "Sensors", "Actuators"}
    \cup (IF m \in {"Normal", "Exploration"} THEN {"Cognitive"} ELSE {})
    \cup (IF m = "Exploration" THEN {"Radio"} ELSE {})

\* adjust_opp's target.
Target(m, b) ==
  CASE m = "Exploration" -> 4
    [] m = "Normal" -> IF b = 3 THEN 3 ELSE 2
    [] m = "LowPower" -> 1
    [] OTHER -> 0

\* enter_low_power_mode, enter_critical_mode and enter_exploration_mode set
\* the point and sync the enabled domains; adjust_opp does when it moves.
Synced(m, b) == m # "Normal" \/ Target(m, b) # opp

\* deactivate_layers raises thresholds, activate_all_layers lowers them; no
\* other mode touches them.
Silenced(m) ==
  CASE m = "Critical" -> 2
    [] m = "LowPower" -> IF silenced = 2 THEN 2 ELSE 1
    [] m = "Exploration" -> 0
    [] OTHER -> silenced

\* set_domain_enabled gates a disabled domain; nothing clears clock_gated.
Gated(m) == gated \cup (Domain \ Powered(m))

\* update.  Nothing gives the timers their clock back.
Update ==
  \E b \in Charged(battery), rich \in BOOLEAN :
    LET m == ModeFor(b, rich) IN
    /\ battery' = b /\ mode' = m /\ opp' = Target(m, b)
    /\ powered' = Powered(m)
    /\ gated' = Gated(m)
    /\ speed' = [d \in Domain |->
                   IF d \in Powered(m) /\ Synced(m, b) THEN Target(m, b)
                                                       ELSE speed[d]]
    /\ timerClocks' = (timerClocks /\ m # "Critical")
    /\ silenced' = Silenced(m)
    /\ UNCHANGED <<idle, slept>>

\* idle_if_possible; the sleep itself ends with the next interrupt.
IdleIfPossible(workDone) ==
  LET long == ~workDone /\ idle + 1 > IdleLimit IN
  /\ idle' = IF workDone \/ (long /\ mode = "Exploration") THEN 0 ELSE idle + 1
  /\ slept' = CASE long /\ mode \in {"Critical", "LowPower"} -> "DeepSleep"
                [] long /\ mode = "Normal" -> "LightSleep"
                [] OTHER -> slept
  /\ UNCHANGED <<battery, mode, opp, powered, gated, speed, timerClocks,
                 silenced>>
-----------------------------------------------------------------------------
(* The loop.                                                               *)

Content == {"lived", "dreamt"}
Snapshot == [content : Content, silenced : 0 .. 2]
Outcome == {"Positive", "Neutral", "Negative", "Exploratory"}

LoopInit ==
  /\ PowerInit
  /\ pc = "step" /\ time = 0 /\ cooldown = 0
  /\ cycle = FALSE /\ warp = FALSE /\ inhibited = FALSE /\ was = FALSE
  /\ left = 0 /\ content = "lived" /\ driven = "lived" /\ saved = "lived"
  /\ snapshot = [content |-> "lived", silenced |-> 0]
  /\ energy = 3

Now == (time + 1) % Horizon
Every(p) == Now % p = 0
Rested == IF cooldown = 0 THEN 0 ELSE cooldown - 1
Lived == IF warp THEN "dreamt" ELSE content

\* Mutated form of Adapted: only threshold_modulation is computed.
AdaptedNever == silenced

\* energy_adaption gives every neuron the network's threshold.
Adapted == IF Every(EnergyPeriod) THEN 0 ELSE silenced

\* cycle_trigger's conditions, for a network that calls for a cycle or not.
Triggered(called) ==
  /\ ~warp /\ ~cycle
  /\ Every(CyclePeriod) \/ Rested = 0
  /\ called \/ Every(ForcePeriod)
  /\ ~inhibited

\* The part of step that precedes its trigger: input and dynamics, motor
\* outputs, metabolic_maintenance with its save, energy_adaption.
Body ==
  /\ time' = Now
  /\ content' = Lived
  /\ driven' = IF Every(Work) THEN Lived ELSE driven
  /\ saved' = IF Every(SavePeriod) THEN Lived ELSE saved
  /\ silenced' = Adapted
  /\ UNCHANGED <<battery, mode, opp, powered, gated, speed, timerClocks, idle,
                 slept, energy>>

\* Mutated form of Duration: the loop runs once more.
DurationInclusive == SimSteps + 1
Duration == SimSteps

\* Mutated form of BeginCycle: was_inhibited is read after the inhibition.
BeginCycleLate ==
  /\ cycle' = TRUE /\ was' = TRUE
  /\ snapshot' = [content |-> Lived, silenced |-> Adapted]
  /\ warp' = TRUE /\ inhibited' = TRUE
  /\ left' = Duration

\* predictive_cycle up to its simulation, and run_simulation's preparation.
BeginCycle ==
  /\ cycle' = TRUE /\ was' = inhibited
  /\ snapshot' = [content |-> Lived, silenced |-> Adapted]
  /\ warp' = TRUE /\ inhibited' = TRUE
  /\ left' = Duration

Step ==
  /\ pc = "step" /\ Body /\ cooldown' = Rested
  /\ \E called \in BOOLEAN :
       IF Triggered(called) THEN BeginCycle /\ pc' = "simulate"
       ELSE pc' = "power" /\ UNCHANGED <<cycle, was, snapshot, warp, inhibited,
                                         left>>

\* A step inside run_simulation; its trigger is evaluated like any other.
SimStep ==
  /\ pc = "simulate" /\ left > 0 /\ Body /\ cooldown' = Rested
  /\ \E called \in BOOLEAN :
       IF Triggered(called) THEN BeginCycle
       ELSE left' = left - 1 /\ UNCHANGED <<cycle, was, snapshot, warp,
                                            inhibited>>
  /\ UNCHANGED pc

\* The rest of run_simulation and of predictive_cycle.
EndCycle ==
  /\ pc = "simulate" /\ left = 0 /\ pc' = "power"
  /\ content' = snapshot.content /\ silenced' = snapshot.silenced
  /\ warp' = FALSE /\ cycle' = FALSE
  /\ \E o \in Outcome :
       /\ inhibited' = (was /\ o \notin {"Positive", "Exploratory"})
       /\ cooldown' = IF o = "Positive" THEN LongRest ELSE ShortRest
  /\ UNCHANGED <<battery, mode, opp, powered, gated, speed, timerClocks, idle,
                 slept, time, was, left, snapshot, driven, saved, energy>>

PowerStep ==
  /\ pc = "power" /\ pc' = "tail" /\ Update
  /\ UNCHANGED <<time, cooldown, cycle, warp, inhibited, was, left, content,
                 snapshot, driven, saved, energy>>

\* check_emergencies: a neuron count of zero or past the pool.
Emergency(e, counted) == IF counted THEN e ELSE 0

\* The hand-over that follows it in the same turn.
SyncEnergy(e) == battery

Rest ==
  /\ pc = "tail" /\ pc' = "step"
  /\ \E counted \in BOOLEAN : energy' = SyncEnergy(Emergency(energy, counted))
  /\ IdleIfPossible(time % Work = 0)
  /\ UNCHANGED <<time, cooldown, cycle, warp, inhibited, was, left, content,
                 snapshot, driven, saved>>

LoopNext == Step \/ SimStep \/ EndCycle \/ PowerStep \/ Rest
-----------------------------------------------------------------------------
PowerTypeOK ==
  /\ battery \in Battery /\ mode \in Mode /\ opp \in Opp
  /\ powered \subseteq Domain /\ gated \subseteq Domain
  /\ speed \in [Domain -> Opp]
  /\ timerClocks \in BOOLEAN /\ silenced \in 0 .. 2
  /\ idle \in 0 .. IdleLimit /\ slept \in Sleep

\* Every enabled domain runs at the current operating point, also one that a
\* mode change has just switched on again.
DomainsAtOpp == \A d \in powered : speed[d] = opp

LoopTypeOK ==
  /\ PowerTypeOK
  /\ pc \in {"step", "simulate", "power", "tail"}
  /\ time \in 0 .. Horizon - 1
  /\ cooldown \in 0 .. (IF ShortRest > LongRest THEN ShortRest ELSE LongRest)
  /\ cycle \in BOOLEAN /\ warp \in BOOLEAN
  /\ inhibited \in BOOLEAN /\ was \in BOOLEAN
  /\ left \in 0 .. SimSteps
  /\ content \in Content /\ snapshot \in Snapshot
  /\ driven \in Content /\ saved \in Content /\ energy \in Battery

\* A simulation leaves nothing behind in the running network: between two
\* cycles it holds lived state, no warp is on and the actor may act.  A cycle
\* started inside a simulation would overwrite the one snapshot slot with
\* dreamt state.  What a simulation puts out is DreamsStayInside's matter.
NoSimulationLeaks ==
  pc # "simulate" => content = "lived" /\ ~warp /\ ~cycle /\ ~inhibited

\* What the comment on activate_warp has a simulation keep to itself: neither
\* the actuators nor the periodic save ever get dreamt state.
DreamsStayInside == driven = "lived" /\ saved = "lived"

\* The processor never sleeps: work counts as done every Work steps, a
\* simulation moves time by a multiple of Work, and IdleLimit turns without
\* work never come together.
NeverSleeps == slept = "Active"

\* A step always runs with the battery's level: the zero that the emergency
\* check writes is overwritten before anything reads it.
StepSeesBattery == pc = "step" => energy = battery

\* Layers silenced to save energy wake up while the mode stays normal.
LayersWake == mode = "Normal" ~> (silenced = 0 \/ mode # "Normal")

\* No turn is skipped by sleep, and every one sees the battery.
TurnsArePaced == LoopTypeOK /\ DomainsAtOpp /\ NeverSleeps /\ StepSeesBattery
=============================================================================
