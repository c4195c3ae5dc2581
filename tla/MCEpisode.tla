------------------------------ MODULE MCEpisode ------------------------------
(* What goes into the network and what decides whether it may learn: the   *)
(* queue that carries spikes from the interrupt handlers (SpikeQueue) and  *)
(* the supervision of a training episode (Episode).  They share no         *)
(* variable, so a behaviour drives one of them.                            *)
EXTENDS MCSpikeQueue, Episode

VARIABLE part

suiteVars == <<part, queueVars, vars>>

Queueing(A) == part = "queue" /\ A /\ UNCHANGED <<part, vars>>
Supervising(A) == part = "episode" /\ A /\ UNCHANGED <<part, queueVars>>

\* While spikes are queued the episode stays one of the default suite.
SuiteInit ==
  /\ part \in {"queue", "episode"} /\ QueueInit /\ Init
  /\ part = "queue" => /\ suite = DefaultScenarios
                       /\ budget = CHOOSE b \in Budgets : TRUE
                       /\ limit = 1
SuiteNext == Queueing(QueueNext) \/ Supervising(Next)

\* The fairness of SpikeQueue and of Episode.
SuiteSpec ==
  /\ SuiteInit /\ [][SuiteNext]_suiteVars
  /\ SF_suiteVars(Queueing(Take)) /\ SF_suiteVars(Queueing(Release))
  /\ \A c \in Context :
       SF_suiteVars(Queueing(Reserve(c) \/ Fill(c) \/ BeginCommit(c)
                             \/ Publish(c) \/ Retire(c)))
  /\ WF_suiteVars(Supervising(Next))

\* See Episode: an episode under lasting trouble is stopped.
TroubleEnds == part = "episode" => TroubleStops
=============================================================================
