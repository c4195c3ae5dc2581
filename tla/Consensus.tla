------------------------------ MODULE Consensus ------------------------------
(***************************************************************************)
(* Collective decisions of MeshNetwork (swarm/mesh.rs): proposals, ballots *)
(* and their closing, and the observations of emergent patterns from which *)
(* a node makes proposals of its own.  Nothing in the crate drives them:   *)
(* the application calls in any order.                                     *)
(*                                                                         *)
(* A proposal is known to voters by its id alone, gossip_round ^ node byte *)
(* ^ now: as the two counters move it may be any value, 0 included, which  *)
(* the callers read as a refusal.  Observations are taken as equally       *)
(* intense, so that the commonest pattern stands out; types above 15 only  *)
(* take room.                                                              *)
(***************************************************************************)
EXTENDS Naturals, Sequences, FiniteSets, FiniteSetsExt

CONSTANTS Id,               \* proposal ids told apart, 0 among them
          Kind,             \* pattern types, 0 among them
          MaxProposals,     \* capacity of active_proposals
          MaxVotes,         \* bound: votes for or against one proposal
          MaxSeen,          \* capacity of emergent_observations
          HeadLimit,        \* observations after which a head starts again
          Alike,            \* observations of one type that make a pattern
          Quorum            \* votes that decide, the proposer's included

VARIABLES head,       \* is node_role NODE_ROLE_CLUSTER_HEAD
          open,       \* active_proposals, in the order of the array
          seen,       \* emergent_observations: how many of each type
          observed,   \* emergent_count
          agreed,     \* what was meant for the proposal agreed on last
          ballots     \* (history) what was meant for each undecided proposal

vars == <<head, open, seen, observed, agreed, ballots>>

\* key: which proposal it is, told by nothing in the code.
Key == 1 .. MaxProposals
Proposal == [key : Key, id : Id, for : 1 .. MaxVotes,
             against : 0 .. MaxVotes, due : BOOLEAN]
\* Ballots meant for it and whether the node made it of its observations,
\* until it shares its id with another.
Meant == [yes : 0 .. MaxVotes, no : 0 .. MaxVotes, twin : BOOLEAN,
          own : BOOLEAN]
Unasked == [yes |-> 0, no |-> 0, twin |-> FALSE, own |-> FALSE]
Twin == [Unasked EXCEPT !.twin = TRUE]

Keys == {open[i].key : i \in DOMAIN open}

Init ==
  /\ head \in BOOLEAN /\ open = <<>> /\ agreed = Twin
  /\ ballots = [k \in {} |-> 0]
  /\ seen = [k \in Kind |-> 0] /\ observed = 0
-----------------------------------------------------------------------------
(* Proposals and ballots                                                   *)

\* propose_consensus: the array and the history with one more proposal, which
\* starts with the vote of its proposer.
NewKey == CHOOSE k \in Key : k \notin Keys
Appended(id) == Append(open, [key |-> NewKey, id |-> id, for |-> 1,
                              against |-> 0, due |-> FALSE])
Recorded(id, own) ==
  LET twins == {open[i].key : i \in {j \in DOMAIN open : open[j].id = id}} IN
  [k \in Keys \cup {NewKey} |->
     IF k = NewKey
     THEN IF twins = {} THEN [Unasked EXCEPT !.own = own] ELSE Twin
     ELSE IF k \in twins THEN Twin ELSE ballots[k]]

Proposed ==
  /\ Len(open) < MaxProposals
  /\ \E id \in Id : open' = Appended(id) /\ ballots' = Recorded(id, FALSE)

Propose == Proposed /\ UNCHANGED <<head, seen, observed, agreed>>

\* cast_vote takes the first proposal with the id.
Counted(s, id) == CHOOSE i \in DOMAIN s :
  s[i].id = id /\ \A j \in DOMAIN s : j < i => s[j].id # id

Meaning(b, y, n) ==
  IF b.twin THEN b ELSE [b EXCEPT !.yes = @ + y, !.no = @ + n]

Vote ==
  /\ \E i \in DOMAIN open : \E yes \in BOOLEAN :
       LET k == open[i].key
           c == Counted(open, open[i].id)
       IN IF yes
          THEN /\ open[c].for < MaxVotes /\ open' = [open EXCEPT ![c].for = @ + 1]
               /\ ballots' = [ballots EXCEPT ![k] = Meaning(@, 1, 0)]
          ELSE /\ open[c].against < MaxVotes
               /\ open' = [open EXCEPT ![c].against = @ + 1]
               /\ ballots' = [ballots EXCEPT ![k] = Meaning(@, 0, 1)]
  /\ UNCHANGED <<head, seen, observed, agreed>>

Deadline ==
  /\ \E i \in DOMAIN open : ~open[i].due /\ open' = [open EXCEPT ![i].due = TRUE]
  /\ UNCHANGED <<head, seen, observed, agreed, ballots>>

Passes(p) == p.for + p.against >= Quorum /\ p.for > p.against

Undecided == {i \in DOMAIN open : ~open[i].due}
\* Mutated form of Pruned: the count shrinks, and nothing moves up.
PrunedInPlace == {[i \in 1 .. Cardinality(Undecided) |-> i]}
\* prune_finalised_proposals moves the undecided ones up, in their order: to
\* each of the places left belongs the place it was filled from.
Pruned == {f \in [1 .. Cardinality(Undecided) -> Undecided] :
            \A i, j \in DOMAIN f : i < j => f[i] < f[j]}

\* finalise_consensus: the last that passes sets the agreement.
Finalise ==
  /\ LET passed == {i \in DOMAIN open : open[i].due /\ Passes(open[i])} IN
       agreed' = IF passed = {} THEN agreed ELSE ballots[open[Max(passed)].key]
  /\ \E f \in Pruned : open' = [i \in DOMAIN f |-> open[f[i]]]
  /\ ballots' = [k \in {open[i].key : i \in Undecided} |-> ballots[k]]
  /\ UNCHANGED <<head, seen, observed>>
-----------------------------------------------------------------------------
(* Observations                                                            *)

\* record_emergent_observation
Observe ==
  /\ observed < MaxSeen /\ observed' = observed + 1
  /\ \/ \E k \in Kind : seen' = [seen EXCEPT ![k] = @ + 1]
     \/ UNCHANGED seen
  /\ UNCHANGED <<head, open, agreed, ballots>>

\* detect_emergent_pattern: the least of the commonest types, and 0 also
\* when type 0 is the one that stands out.
Pattern ==
  LET best == {k \in Kind : /\ seen[k] >= Alike
                            /\ \A j \in Kind : seen[j] <= seen[k]}
  IN IF best = {} THEN 0 ELSE Min(best)

\* consensus_on_observation: the proposer votes once more, by the id, which
\* may be that of an older proposal.
ProposeObserved ==
  /\ Pattern # 0 /\ Len(open) < MaxProposals
  /\ \E id \in Id :
       LET c == Counted(Appended(id), id) IN
       /\ ballots' = Recorded(id, TRUE)
       /\ IF id = 0 THEN open' = Appended(id)
          ELSE /\ Appended(id)[c].for < MaxVotes
               /\ open' = [Appended(id) EXCEPT ![c].for = @ + 1]
  /\ UNCHANGED <<head, seen, observed, agreed>>

\* aggregate_collective_knowledge
Aggregate ==
  /\ head
  /\ IF Pattern # 0 /\ Len(open) < MaxProposals
     THEN Proposed
     ELSE UNCHANGED <<open, ballots>>
  /\ IF observed > HeadLimit
     THEN observed' = 0 /\ seen' = [k \in Kind |-> 0]
     ELSE UNCHANGED <<observed, seen>>
  /\ UNCHANGED <<head, agreed>>

Next == Propose \/ ProposeObserved \/ Aggregate \/ Observe \/ Vote \/ Deadline
          \/ Finalise
-----------------------------------------------------------------------------
TypeOK ==
  /\ head \in BOOLEAN /\ open \in Seq(Proposal) /\ Len(open) <= MaxProposals
  /\ observed \in 0 .. MaxSeen /\ seen \in [Kind -> 0 .. observed]
  /\ ballots \in [Keys -> Meant]
  /\ agreed \in Meant

\* An undecided proposal is in the table until it is closed, and its counts
\* are the ballots meant for it and its proposer's, unless its id was another's
\* as well (cast_vote, prune_finalised_proposals).
TallyIsHonest ==
  /\ Keys = DOMAIN ballots /\ Cardinality(Keys) = Len(open)
  /\ \A i \in DOMAIN open :
       LET p == open[i]  b == ballots[p.key] IN
       ~b.twin => /\ p.against = b.no
                  /\ p.for = 1 + b.yes + (IF b.own /\ p.id # 0 THEN 1 ELSE 0)

\* A proposal made by a call passes only if another node was for it, and no
\* fewer for than against.  One made of observations needs nobody: its
\* proposer has two votes, and one ballot against makes the quorum.
PassedIsBacked ==
  ~agreed.twin /\ ~agreed.own => agreed.yes >= 1 /\ agreed.yes >= agreed.no
=============================================================================
