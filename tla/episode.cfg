\* The spikes are pushed by the handlers of one interrupt level, EXTI0 and
\* EXTI1, into a ring of four slots, which runs full and wraps.  Of the budgets
\* one cuts every plan to its safety check (2), one keeps a learning step,
\* though not the whole of it (12).
SPECIFICATION SuiteSpec
CONSTANTS
  N = 4
  Event = {s1, s2}
  Stale = Stale
  Main = Main
  Tim2 = Tim2
  Adc = Adc
  Exti0 = Exti0
  Exti1 = Exti1
  Isr = {Exti0, Exti1}
  Producer = {Exti0, Exti1}
  Urgency <- MCUrgency
  Budgets = {2, 12}
  Streaks = {0, 2, 3}
  CounterMax = 3
INVARIANTS
  NoStalePublished
  CyclesAreGuarded
  QuarantineMatchesStreak
PROPERTIES
  ImplementsFifo
  PublishedIsDelivered
  StopIsFinal
  TroubleEnds
