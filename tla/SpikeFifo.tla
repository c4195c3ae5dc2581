----------------------------- MODULE SpikeFifo -----------------------------
(***************************************************************************)
(* What GLOBAL_SPIKE_QUEUE promises to the rest of HKL-1: interrupt        *)
(* handlers and encoders hand spikes over, the simulation step receives    *)
(* them one at a time in the order they were accepted, none twice, none    *)
(* invented.  When the queue is full a new spike is refused and the ones   *)
(* already accepted are untouched (a refusal is a stuttering step here).   *)
(***************************************************************************)
EXTENDS Sequences, Naturals

CONSTANTS Event,    \* the spikes that can be queued
          Room      \* how many accepted spikes may wait

VARIABLES queue,    \* accepted and not yet delivered, oldest first
          injected  \* the spike delivered last

Init ==
  /\ queue = << >>
  /\ injected \notin Event

\* A producer hands a spike over (ingest_spike and isr_push_spike returning
\* with the spike stored).
Accept ==
  /\ Len(queue) < Room
  /\ \E e \in Event : queue' = Append(queue, e)
  /\ UNCHANGED injected

\* process_sensory_input takes the oldest spike and injects it.
Deliver ==
  /\ queue # << >>
  /\ injected' = Head(queue)
  /\ queue' = Tail(queue)

Next == Accept \/ Deliver

Spec == Init /\ [][Next]_<<queue, injected>>
=============================================================================
