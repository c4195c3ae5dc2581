---------------------------- MODULE MCSpikeQueue ----------------------------
(* Small instances of SpikeQueue: a ring of N slots, the main loop, and     *)
(* interrupt handlers at the NVIC levels init_isr_arm programs: TIM2 at 2,  *)
(* ADC at 3, EXTI0 and EXTI1 at 4, where the lower number preempts.         *)
EXTENDS SpikeQueue

CONSTANTS Tim2, Adc, Exti0, Exti1

MCUrgency == [c \in Context |->
                CASE c = Tim2             -> 3
                  [] c = Adc              -> 2
                  [] c \in {Exti0, Exti1} -> 1
                  [] OTHER                -> 0]
=============================================================================
