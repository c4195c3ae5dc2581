------------------------------ MODULE MCSwarm ------------------------------
(* The four parts of the swarm.  No two of them share a variable, so a      *)
(* behaviour drives one and the others stay put.                           *)
EXTENDS Integers, Mesh

CONSTANTS Msg, MaxGossip, Fanout, MaxTargets, Life, Skew, MaxSpikes, SpikeHops,
          Id, Kind, MaxProposals, MaxVotes, MaxSeen, HeadLimit, Alike,
          Quorum,
          Member, Sent, Top, Places, Steps, MinPeers, Levels, MaxAggregates

VARIABLES part,
          stamp, rumours, spikes, reached,
          head, open, seen, observed, agreed, ballots,
          ready, members, weight, reliability, pending, depth, aggregates,
          heard, panicked

ASSUME SwarmAssumption ==
  /\ MaxProposals \in Nat /\ MaxVotes \in Nat \ {0}
  /\ Quorum \in Nat /\ Quorum >= 2          \* three in finalise_consensus
  /\ {MaxGossip, Fanout, MaxTargets, Life, Skew, MaxSpikes, SpikeHops} \subseteq Nat
  /\ MaxSeen \in Nat
  /\ Places \in Nat \ {0} /\ Levels \in Nat \ {0}
  /\ Steps \in Nat /\ Top \in Nat /\ MaxAggregates \in Nat
  /\ Sent \subseteq -Top .. Top

MCSent == {-3, 2}

G == INSTANCE Gossip WITH queue <- rumours, MaxHops <- SpikeHops
C == INSTANCE Consensus
F == INSTANCE Federation WITH Peer <- Member

gossip == <<stamp, rumours, spikes, reached>>
consensus == <<head, open, seen, observed, agreed, ballots>>
federation == <<ready, members, weight, reliability, pending, depth,
                aggregates, heard, panicked>>
swarmVars == <<part, vars, gossip, consensus, federation>>

SwarmInit ==
  /\ part \in {"mesh", "gossip", "consensus", "federation"}
  /\ Init /\ G!Init /\ C!Init /\ F!Init
  /\ part # "gossip" => stamp = [m \in Msg |-> 0]
  /\ part # "consensus" => ~head
  /\ part # "federation" => ready /\ weight = CHOOSE w \in Sent : TRUE

Meshing(A) ==
  part = "mesh" /\ A /\ UNCHANGED <<part, gossip, consensus, federation>>
Gossiping(A) ==
  part = "gossip" /\ A /\ UNCHANGED <<part, vars, consensus, federation>>

SwarmNext ==
  \/ Meshing(Next) \/ Gossiping(G!Next)
  \/ part = "consensus" /\ C!Next /\ UNCHANGED <<part, vars, gossip, federation>>
  \/ part = "federation" /\ F!Next /\ UNCHANGED <<part, vars, gossip, consensus>>

\* swarm_tick is called for ever, and time goes on; the fairness of Mesh.
SwarmSpec ==
  /\ SwarmInit /\ [][SwarmNext]_swarmVars
  /\ WF_swarmVars(Gossiping(G!ProcessGossip)) /\ WF_swarmVars(Gossiping(G!Clock))
  /\ WF_swarmVars(Meshing(ProcessReconnections))
  /\ \A p \in Peer : WF_swarmVars(Meshing(FallDue(p)))

\* See Consensus: counts are the ballots meant for the proposal, and one that
\* passes was backed by another node.
VotesAreHonest == C!TallyIsHonest /\ C!PassedIsBacked
\* See Gossip and Federation: every message leaves the queue, however often it
\* is echoed, and an averaging stays between the weights it averages.
PeersAreContained ==
  /\ G!EveryRumourDies
  /\ [](G!TypeOK /\ C!TypeOK /\ F!TypeOK) /\ F!AverageIsBetween
=============================================================================
