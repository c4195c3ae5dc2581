----------------------------- MODULE Federation -----------------------------
(***************************************************************************)
(* Federated averaging (swarm/federated.rs) as the cluster manager drives  *)
(* it (api/swarm_cluster.rs), seen at one synapse: peers submit weights,   *)
(* and once enough submissions wait they are averaged, by the reliability  *)
(* of their places in the queue, into the weight in use.  The hierarchical *)
(* average and the merging of aggregates are calls of the application.     *)
(*                                                                         *)
(* A reliability is a number of steps of alpha.  Noise, the confidences,   *)
(* equal on all levels, the list of reliable places and the election, whose*)
(* results nobody uses, are left out.                                      *)
(***************************************************************************)
EXTENDS Integers, Sequences, SequencesExt, FiniteSetsExt

CONSTANTS Peer,
          Sent,            \* weights that peers send
          Top,             \* bound: weights in use lie in -Top .. Top
          Places,          \* MAX_FEDERATION_NODES
          Steps,           \* steps of alpha from reliability 0 to 1
          MinPeers,        \* federated_min_peers
          Levels,          \* MAX_HIERARCHY_LEVELS
          MaxAggregates    \* capacity of aggregate_buffer

Weight == -Top .. Top

VARIABLES ready,         \* does SYNAPSE_COUNT reach the minimum
          members,       \* cluster_nodes
          weight,        \* the weight of the synapse
          reliability,   \* node_reliability
          pending,       \* pending_federated_weights; Short: too few weights
          depth,         \* hierarchy_count
          aggregates,    \* aggregate_buffer
          heard,         \* (history) the weights the last step averaged
          panicked

vars == <<ready, members, weight, reliability, pending, depth, aggregates,
          heard, panicked>>
tables == <<reliability, depth, aggregates>>

Place == 0 .. Places - 1
Short == Top + 1            \* in place of a weight
Level == 0 .. Levels - 1
Aggregate == [level : Level, weight : Sent]

Init ==
  /\ ready \in BOOLEAN /\ members = {} /\ weight \in Sent
  /\ reliability = [n \in Place |-> Steps \div 2] /\ pending = <<>>
  /\ depth = 1 /\ aggregates = <<>> /\ heard = {}
  /\ panicked = FALSE
-----------------------------------------------------------------------------
\* Division as of i64: towards zero.
Quotient(a, b) == IF a >= 0 THEN a \div b ELSE -((-a) \div b)
AtMost(a, b) == IF a <= b THEN a ELSE b

\* What the first n places of f, from 0 on, add up to.
Sum(f, n) ==
  LET upto[k \in 0 .. n] == IF k = 0 THEN 0 ELSE upto[k - 1] + f[k - 1]
  IN  upto[n]
\* The mean of the first n weights, each counted r times, in whole numbers.
Mean(w, r, n) == Quotient(Sum([i \in 0 .. n - 1 |-> w[i] * r[i]], n), Sum(r, n))

\* Seven tenths of the old weight and three of the average, in f32 and cut:
\* a whole number may come out as just less.
Blends(old, average) ==
  LET x == 7 * old + 3 * average
      q == Quotient(x, 10)
      short == IF q > 0 THEN q - 1 ELSE q + 1
  IN  {q} \cup {n \in {short} : x % 10 = 0 /\ q # 0 /\ old # average}

\* federated_average: w is what the places hold, the first num of them.
Averages(w, num) ==
  LET n == AtMost(num, Places)
  IN  IF Sum(reliability, n) = 0 THEN {weight}
      ELSE Blends(weight, Mean(w, reliability, n))

\* hierarchical_average: first in each level, then over the levels.
Hierarchicals(w, num) ==
  LET n == AtMost(num, Places)
      levelOf(i) == ((i * Levels) \div num) % depth
      within(l) == [i \in 0 .. n - 1 |-> IF levelOf(i) = l THEN reliability[i] ELSE 0]
      counts == [l \in 0 .. depth - 1 |-> IF Sum(within(l), n) > 0 THEN 1 ELSE 0]
      average == [l \in 0 .. depth - 1 |-> IF counts[l] = 1 THEN Mean(w, within(l), n) ELSE 0]
  IN  IF Sum(counts, depth) = 0 THEN {weight}
      ELSE Blends(weight, Mean(average, counts, depth))
-----------------------------------------------------------------------------
Register ==
  /\ \E p \in Peer : members' = members \cup {p}
  /\ heard' = {} /\ UNCHANGED <<ready, weight, pending, panicked, tables>>

\* submit_federated_update: any member, the same one again included.  A round
\* reads every synapse of every submission.
Submit(w) ==
  /\ members # {} /\ ~panicked
  /\ LET all == Append(pending, w)
         round == Len(all) >= MinPeers
         num == AtMost(Len(all), Places)
     IN IF ~round \/ ~ready
        THEN /\ pending' = IF round THEN <<>> ELSE all
             /\ heard' = {} /\ UNCHANGED <<weight, panicked>>
        ELSE IF Short \in Range(all)
        THEN /\ panicked' = TRUE /\ pending' = all
             /\ heard' = {} /\ UNCHANGED weight
        ELSE /\ weight' \in Averages([i \in 0 .. num - 1 |-> all[i + 1]], num)
             /\ heard' = Range(all) /\ pending' = <<>> /\ UNCHANGED panicked
  /\ UNCHANGED <<ready, members, tables>>

AverageLevels ==
  /\ ready /\ ~panicked
  /\ \E num \in 1 .. Places : \E w \in [0 .. num - 1 -> Sent] :
       weight' \in Hierarchicals(w, num) /\ heard' = Range(w)
  /\ UNCHANGED <<ready, members, pending, panicked, tables>>

\* init_hierarchy
InitHierarchy ==
  /\ \E d \in 1 .. Levels : depth' = d
  /\ heard' = {}
  /\ UNCHANGED <<ready, members, weight, reliability, pending, aggregates,
                 panicked>>

\* push_aggregate; nothing takes one out again.
PushAggregate ==
  /\ Len(aggregates) < MaxAggregates
  /\ \E a \in Aggregate : aggregates' = Append(aggregates, a)
  /\ heard' = {}
  /\ UNCHANGED <<ready, members, weight, reliability, pending, depth,
                 panicked>>

\* merge_level_aggregates
MergeAggregates ==
  /\ \E l \in Level :
       LET n == Len(aggregates)
           w == [i \in 0 .. n - 1 |-> aggregates[i + 1].weight]
           of == [i \in 0 .. n - 1 |-> IF aggregates[i + 1].level = l THEN 1 ELSE 0]
       IN  /\ Sum(of, n) > 0 /\ weight' = Mean(w, of, n)
           /\ heard' = {w[i] : i \in {k \in 0 .. n - 1 : of[k] = 1}}
  /\ UNCHANGED <<ready, members, pending, panicked, tables>>

Clamped(r) == IF r < 0 THEN 0 ELSE AtMost(r, Steps)

UpdateReliability ==
  /\ \E n \in Place : \E d \in {-1, 1} :
       reliability' = [reliability EXCEPT ![n] = Clamped(@ + d)]
  /\ heard' = {}
  /\ UNCHANGED <<ready, members, weight, pending, depth, aggregates,
                 panicked>>

Next ==
  \/ Register
  \/ \E w \in Sent \cup {Short} : Submit(w)
  \/ AverageLevels \/ InitHierarchy \/ PushAggregate \/ MergeAggregates
  \/ UpdateReliability
-----------------------------------------------------------------------------
TypeOK ==
  /\ {ready, panicked} \subseteq BOOLEAN /\ members \subseteq Peer
  /\ weight \in Weight /\ reliability \in [Place -> 0 .. Steps]
  /\ pending \in Seq(Sent \cup {Short}) /\ depth \in 1 .. Levels
  /\ aggregates \in Seq(Aggregate) /\ Len(aggregates) <= MaxAggregates
  /\ heard \subseteq Sent

WeightIsBetween ==
  /\ Min(heard' \cup {weight}) <= weight'
  /\ weight' <= Max(heard' \cup {weight})
\* Whatever the reliabilities and the roundings, a round leaves the weight
\* between the least and the greatest of the weight in use and those heard.
AverageIsBetween == [][WeightIsBetween]_vars

=============================================================================
