\* The producers of the default IsrConfig together with the encoders.
SPECIFICATION QueueSpec
CONSTANTS
  N = 4
  Event = {s1}
  Stale = Stale
  Main = Main
  Tim2 = Tim2
  Adc = Adc
  Exti0 = Exti0
  Exti1 = Exti1
  Isr = {Tim2, Adc, Exti0}
  Producer = {Tim2, Adc, Exti0, Main}
  Urgency <- MCUrgency
INVARIANT
  NoStalePublished
