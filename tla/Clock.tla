--------------------------------- MODULE Clock ---------------------------------
(***************************************************************************)
(* The metabolic clock (core/time.rs), the pending-interrupt flags it is   *)
(* driven by (io/isr.rs), and what reads it: dreaming, that is the         *)
(* curiosity engine (cognitive/curiosity.rs) and the entropy monitor that  *)
(* sends it dreaming (safety/entropy_monitor.rs).  The SysTick handler     *)
(* only sets a flag; the main loop takes the flags once per turn, before   *)
(* its network step, and ticks the clock then.  A step may switch the time *)
(* warp on for its simulation and off again.  The network counts its       *)
(* steps, also those of a simulation.                                      *)
(*                                                                         *)
(* The rates of the code are powers of ten: here powers of Fold.  cycles   *)
(* is counted in ticks, modulo the Wrap of its 32 bits.  Whether boredom   *)
(* is past its threshold is an input; the noise decides nothing here.      *)
(***************************************************************************)
EXTENDS Naturals

CONSTANTS Fold,             \* each rate is this much slower than the last: 10
          Wrap,             \* ticks until cycles wraps: 42950 at 100 MHz
          Factors,          \* warp factors asked for
          UpdatePeriod,     \* steps between two curiosity updates: 20
          DreamTerm,        \* dream_duration_ms: 100
          Cooldown,         \* forced_exploration_cooldown, in updates: 500
          MaxIrqs,          \* bound: SysTick interrupts
          MaxTime           \* bound: steps

VARIABLES at,               \* turn, step, dream or check: where the loop is
          irqs,             \* (history) SysTick interrupts so far
          flags,            \* ISR_PENDING_FLAGS
          ticks,            \* tick_1khz, tick_100hz, tick_10hz, tick_1hz
          cycles,
          boosts,           \* heartbeats that raised the pacers' bias
          warp,             \* TIME_WARPER
          time,             \* Network::time
          dreaming, last,   \* dreaming_active, last_dream_time
          cooldown,
          asked             \* (history) has the monitor been asked yet

clockVars == <<at, irqs, flags, ticks, cycles, boosts, warp>>

Rate == {"khz", "hz100", "hz10", "hz1"}
Flag == {"SysTick", "Other"}        \* nobody looks at the other flags
Real == [factor |-> 1, active |-> FALSE, base |-> 0]

Init ==
  /\ at = "turn" /\ irqs = 0 /\ flags = {} /\ cycles = 0 /\ boosts = 0
  /\ ticks = [r \in Rate |-> 0]
  /\ warp = Real

\* SysTick_Handler, or software_isr_trigger.
Interrupt ==
  /\ \E f \in Flag :
       /\ flags' = flags \cup {f}
       /\ irqs' = IF f = "SysTick" THEN irqs + 1 ELSE irqs
       /\ f = "SysTick" => irqs < MaxIrqs
  /\ UNCHANGED <<at, ticks, cycles, boosts, warp>>

\* Ticks of tick_1khz to one of each slower counter.
Period == [r \in Rate \ {"khz"} |-> CASE r = "hz100" -> Fold
                                      [] r = "hz10" -> Fold * Fold
                                      [] OTHER -> Fold * Fold * Fold]

\* Mutated form of Derived: t is what fetch_add returned.
DerivedFromOld(t) == {r \in Rate \ {"khz"} : (t - 1) % Period[r] = 0}

\* isr_tick_1khz: the slower counters that move when tick_1khz becomes t.
Derived(t) == {r \in Rate \ {"khz"} : t % Period[r] = 0}

Tick ==
  LET moved == Derived(ticks["khz"] + 1) IN
  /\ ticks' = [r \in Rate |-> IF r \in moved \cup {"khz"} THEN ticks[r] + 1
                                                        ELSE ticks[r]]
  /\ cycles' = (cycles + 1) % Wrap
  /\ boosts' = IF "hz1" \in moved THEN boosts + 1 ELSE boosts

Taken == {}

\* handle_pending_isrs: one swap, then the clock if its flag was among them.
HandlePending ==
  /\ at = "turn" /\ at' = "step"
  /\ flags' = Taken
  /\ IF "SysTick" \in flags THEN Tick ELSE UNCHANGED <<ticks, cycles, boosts>>
  /\ UNCHANGED <<irqs, warp>>

\* The network step, which ends in a predictive cycle (activate_warp) or not.
Step ==
  /\ at = "step"
  /\ \/ at' = "check" /\ UNCHANGED warp
     \/ /\ at' = "dream"
        /\ \E f \in Factors :
             warp' = [factor |-> IF f = 0 THEN 1 ELSE f, active |-> TRUE,
                      base |-> ticks["khz"]]
  /\ UNCHANGED <<irqs, flags, ticks, cycles, boosts>>

\* deactivate_warp
Deactivate ==
  /\ at = "dream" /\ at' = "check"
  /\ warp' = [warp EXCEPT !.active = FALSE, !.factor = 1]
  /\ UNCHANGED <<irqs, flags, ticks, cycles, boosts>>

EndTurn ==
  /\ at = "check" /\ at' = "turn"
  /\ UNCHANGED <<irqs, flags, ticks, cycles, boosts, warp>>

\* simulated_time_ms
SimulatedMs ==
  IF warp.active THEN warp.base + (ticks["khz"] - warp.base) * warp.factor
                 ELSE ticks["khz"]
vars == <<clockVars, time, dreaming, last, cooldown, asked>>

DreamInit ==
  /\ Init /\ time = 0 /\ dreaming = FALSE /\ last = 0 /\ cooldown = 0
  /\ asked = FALSE

\* check_health: weight_entropy stays at zero, below target_min, until
\* record_entropy, which nothing calls.
Health == "LowEntropy"

\* A dream, and its start by the metabolic clock (activate_dreaming).
Dream == [on |-> dreaming, last |-> last]
Activated == [on |-> TRUE, last |-> ticks["khz"]]
Asked(d) == IF Health = "LowEntropy" THEN Activated ELSE d
\* update: a bored network that does not dream begins to.
Bored(d, bored) == bored /\ cooldown = 0 /\ ~d.on
\* inject_noise: a dream past its term, by the network's clock, ends.
Over(d, now) == d.on /\ now - d.last > DreamTerm

\* The part of a network step that is about dreaming: apply_plasticity asks
\* the monitor; an update and inject_noise follow when they are due.
NetStep ==
  LET now == time + 1
      due == now % UpdatePeriod = 0
      d == Asked(Dream)
  IN
  /\ time < MaxTime /\ time' = now /\ asked' = TRUE
  /\ \E bored \in BOOLEAN :
       LET start == due /\ Bored(d, bored)
           e == IF start THEN Activated ELSE d
           over == due /\ Over(e, now)
       IN
       /\ dreaming' = (e.on /\ ~over)
       /\ last' = IF over THEN now ELSE e.last
       /\ cooldown' = CASE start -> Cooldown
                        [] due /\ ~start /\ cooldown > 0 -> cooldown - 1
                        [] OTHER -> cooldown

\* check_emergencies asks the monitor again.
Emergencies ==
  /\ dreaming' = Asked(Dream).on /\ last' = Asked(Dream).last
  /\ UNCHANGED <<time, cooldown, asked>>

Quiet == UNCHANGED <<time, dreaming, last, cooldown, asked>>

DreamNext ==
  \/ (Interrupt \/ HandlePending \/ Deactivate) /\ Quiet
  \/ Step /\ NetStep
  \/ at = "dream" /\ NetStep /\ UNCHANGED clockVars      \* a simulated step
  \/ EndTurn /\ Emergencies
-----------------------------------------------------------------------------
\* Metabolic time is a lower bound of real time: however interrupts fall
\* between the turns, no tick is counted twice, a merged one is lost for all
\* rates alike, and the slow rates, the heartbeat and cycles are what
\* tick_1khz says they are.
TimeIsCounted ==
  LET t == ticks["khz"] IN
  /\ t + (IF "SysTick" \in flags THEN 1 ELSE 0) <= irqs
  /\ \A r \in DOMAIN Period : ticks[r] = t \div Period[r]
  /\ boosts = ticks["hz1"]
  /\ cycles = t % Wrap

\* Time stands still inside a network step, simulated time too: whatever the
\* warp factor, a simulation sees the time at which it began.
DreamStandsStill == at = "dream" => SimulatedMs = warp.base /\ warp.active

\* A dream never ends: from the first question on, every turn of the main
\* loop leaves the network dreaming, boredom never gets to begin a dream of
\* its own, and the two clocks never make a dream's age negative.
NeverAwake ==
  /\ at = "turn" /\ asked => dreaming
  /\ cooldown = 0
  /\ last <= time
=============================================================================
