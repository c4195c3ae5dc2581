-------------------------------- MODULE Mesh --------------------------------
(***************************************************************************)
(* The tables of MeshNetwork (swarm/mesh.rs) on one node: the peers it     *)
(* knows, the routes it has learned, and the queue of peers it will try to *)
(* reconnect, driven by heartbeats that arrive or stay away and by calls   *)
(* of the application in any order.                                        *)
(*                                                                         *)
(* The tables are keyed by peer, which is how every method looks them up;  *)
(* where the code takes the first entry of an array, any may be taken.     *)
(* Time is kept as what it decides: a peer is stale after                  *)
(* HEARTBEAT_TIMEOUT of silence, a queue entry due at its next_attempt, a  *)
(* route old after ROUTE_TIMEOUT.  Clock offsets, roles, the health figure *)
(* and the gossip, spike and observation buffers are left out.             *)
(***************************************************************************)
EXTENDS Naturals, FiniteSets

CONSTANTS Peer,
          MaxNodes, MaxRoutes, MaxQueue,   \* capacities of the three arrays
          MaxRetries,                      \* MAX_RECONNECT_RETRIES
          MaxMisses,                       \* failures a route survives
          FailBatch,                       \* peers failed per discovery round
          MaxHops                          \* bound: hops told apart

ASSUME MeshAssumption ==
  /\ {MaxNodes, MaxRoutes, MaxQueue, MaxRetries, MaxMisses} \subseteq Nat
  /\ FailBatch \in Nat \ {0} /\ MaxHops \in Nat /\ MaxHops >= 2

VARIABLES nodes,    \* connected_nodes, by peer
          routes,   \* routes, by destination
          queue,    \* reconnect_queue, by peer
          givenup   \* (history) known peers nobody will try to reconnect

vars == <<nodes, routes, queue, givenup>>

Rssi == {0, 1}                             \* weak, strong
Node == [up : BOOLEAN, stale : BOOLEAN, rssi : Rssi]
Route == [next : Peer, hops : 1 .. MaxHops, rssi : Rssi, active : BOOLEAN,
          misses : 0 .. MaxMisses + 1]
Entry == [retries : 0 .. MaxRetries, due : BOOLEAN]

\* f maps some of S, at most room of them, to T.
Table(f, S, T, room) ==
  DOMAIN f \subseteq S /\ f \in [DOMAIN f -> T] /\ Cardinality(DOMAIN f) <= room
None == [p \in {} |-> 0]

Without(f, k) == [x \in DOMAIN f \ {k} |-> f[x]]
With(f, k, v) == [x \in DOMAIN f \cup {k} |-> IF x = k THEN v ELSE f[x]]

Up == {p \in DOMAIN nodes : nodes[p].up}
Down == DOMAIN nodes \ Up
Active == {d \in DOMAIN routes : routes[d].active}

Init == nodes = None /\ routes = None /\ queue = None /\ givenup = {}
-----------------------------------------------------------------------------
(* The tables                                                              *)

\* add_node: a known peer is overwritten; a new one takes a free place, or
\* the place of a disconnected peer, or is turned away.
AddNode(p, n) ==
  LET full == p \notin DOMAIN nodes /\ Cardinality(DOMAIN nodes) >= MaxNodes
  IN \/ /\ ~full
        /\ nodes' = With(nodes, p, n)
        /\ givenup' = givenup \ {p}
     \/ /\ full
        /\ \E q \in Down : /\ nodes' = With(Without(nodes, q), p, n)
                           /\ givenup' = givenup \ {q}
     \/ /\ full /\ Down = {}
        /\ UNCHANGED <<nodes, givenup>>

\* add_route: a known destination is only rerouted for fewer hops or a
\* stronger signal; a refused offer refreshes nothing.
Learned(d, next, hops, rssi) ==
  IF d \in DOMAIN routes
  THEN IF hops < routes[d].hops \/ routes[d].rssi < rssi
       THEN [routes EXCEPT ![d] = [@ EXCEPT !.next = next, !.hops = hops,
                                            !.rssi = rssi, !.active = TRUE]]
       ELSE routes
  ELSE IF Cardinality(DOMAIN routes) < MaxRoutes
       THEN With(routes, d, [next |-> next, hops |-> hops, rssi |-> rssi,
                             active |-> TRUE, misses |-> 0])
       ELSE routes

\* Mutated form of RoutesWithout: only the routes that end at a peer are cut.
RoutesWithoutDestination(F) ==
  [d \in DOMAIN routes |->
     IF d \in F THEN [routes[d] EXCEPT !.active = FALSE] ELSE routes[d]]

\* remove_routes_to for each peer of F: routes to it and routes through it.
RoutesWithout(F) ==
  [d \in DOMAIN routes |->
     IF d \in F \/ routes[d].next \in F THEN [routes[d] EXCEPT !.active = FALSE]
     ELSE routes[d]]

NewEntry == [retries |-> 0, due |-> FALSE]

\* Mutated form of MarkFailed: a peer already queued starts its retries afresh.
MarkFailedAfresh(F) ==
  /\ nodes' = [p \in DOMAIN nodes |->
                 IF p \in F THEN [nodes[p] EXCEPT !.up = FALSE] ELSE nodes[p]]
  /\ routes' = RoutesWithout(F)
  /\ \E Q \in SUBSET F :
       /\ Cardinality(DOMAIN queue \cup Q) <= MaxQueue
       /\ queue' = [p \in DOMAIN queue \cup Q |-> IF p \in Q THEN NewEntry ELSE queue[p]]
       /\ givenup' = givenup \cup ((F \ (DOMAIN queue \cup Q)) \cap DOMAIN nodes)

\* mark_node_failed for each peer of F: it is down, its routes are cut, and
\* it is queued unless it is already, or the queue is full.
MarkFailed(F) ==
  /\ nodes' = [p \in DOMAIN nodes |->
                 IF p \in F THEN [nodes[p] EXCEPT !.up = FALSE] ELSE nodes[p]]
  /\ routes' = RoutesWithout(F)
  /\ LET new  == F \ DOMAIN queue
         room == MaxQueue - Cardinality(DOMAIN queue)
     IN \E Q \in SUBSET new :
          /\ IF Cardinality(new) <= room THEN Q = new ELSE Cardinality(Q) = room
          /\ queue' = [p \in DOMAIN queue \cup Q |->
                         IF p \in Q THEN NewEntry ELSE queue[p]]
          /\ givenup' = givenup \cup ((new \ Q) \cap DOMAIN nodes)
-----------------------------------------------------------------------------
(* Peers and the application                                               *)

\* receive_heartbeat, however late the heartbeat comes.
Heartbeat(p) ==
  /\ IF p \in DOMAIN nodes
     THEN /\ nodes' = [nodes EXCEPT ![p].up = TRUE, ![p].stale = FALSE]
          /\ givenup' = givenup \ {p}
          /\ routes' = Learned(p, p, 1, nodes[p].rssi)
     ELSE \E r \in Rssi :
            /\ AddNode(p, [up |-> TRUE, stale |-> FALSE, rssi |-> r])
            /\ routes' = Learned(p, p, 1, r)
  /\ UNCHANGED queue

\* register_peer_node of the cluster manager: last_seen is zero, so the peer
\* counts as silent, and no route is learned.
Register(p) ==
  /\ \E r \in Rssi : AddNode(p, [up |-> TRUE, stale |-> TRUE, rssi |-> r])
  /\ UNCHANGED <<routes, queue>>

\* remove_node; the reconnect queue is not looked at.
RemoveNode(p) ==
  /\ p \in DOMAIN nodes
  /\ nodes' = [nodes EXCEPT ![p].up = FALSE, ![p].rssi = 0]
  /\ routes' = RoutesWithout({p})
  /\ givenup' = IF p \in DOMAIN queue THEN givenup ELSE givenup \cup {p}
  /\ UNCHANGED queue

\* add_route for a destination that a neighbour n advertises.  add_route does
\* not look at its next hop; that the caller heard it from a connected peer is
\* an assumption about the application, which is the only caller with d # n.
LearnRoute(d, n) ==
  /\ n \in Up /\ d # n
  /\ routes' = Learned(d, n, 2, nodes[n].rssi)
  /\ UNCHANGED <<nodes, queue, givenup>>

\* update_route_rssi; its sum of two i8 wraps, so the average may be any.
UpdateRssi(p) ==
  /\ \E r, avg \in Rssi :
       /\ nodes' = IF p \in DOMAIN nodes THEN [nodes EXCEPT ![p].rssi = r] ELSE nodes
       /\ routes' = IF p \in DOMAIN routes THEN [routes EXCEPT ![p].rssi = avg] ELSE routes
  /\ UNCHANGED <<queue, givenup>>

\* mark_node_failed, called for one peer.
Fail(p) == MarkFailed({p})

\* discover_peers: every DISCOVERY_INTERVAL calls the silent peers fail, at
\* most FailBatch of them in one round.
Discover ==
  LET silent == {p \in Up : nodes[p].stale}
  IN \E F \in SUBSET silent :
       /\ F # {}
       /\ IF Cardinality(silent) <= FailBatch THEN F = silent
          ELSE Cardinality(F) = FailBatch
       /\ MarkFailed(F)

\* route_failover: the routes through f move to the strongest other connected
\* peer, or are cut when there is none.
RouteFailover(f) ==
  LET through == {d \in Active : routes[d].next = f}
      others  == Up \ {f}
      best    == {p \in others : \A q \in others : nodes[q].rssi <= nodes[p].rssi}
  IN /\ \A d \in through : routes[d].hops < MaxHops
     /\ \/ /\ best = {}
           /\ routes' = [d \in DOMAIN routes |->
                IF d \in through THEN [routes[d] EXCEPT !.active = FALSE] ELSE routes[d]]
        \/ \E alt \in best :
             routes' = [d \in DOMAIN routes |->
               IF d \in through
               THEN [routes[d] EXCEPT !.next = alt, !.hops = @ + 1, !.misses = 0]
               ELSE routes[d]]
     /\ UNCHANGED <<nodes, queue, givenup>>

\* prune_stale_routes; old are the active routes past ROUTE_TIMEOUT.
PruneStaleRoutes ==
  /\ \E old \in SUBSET Active :
       routes' = [d \in DOMAIN routes |->
         IF d \notin old THEN routes[d]
         ELSE IF routes[d].misses >= MaxMisses
              THEN [routes[d] EXCEPT !.misses = MaxMisses + 1, !.active = FALSE]
              ELSE [routes[d] EXCEPT !.misses = @ + 1]]
  /\ UNCHANGED <<nodes, queue, givenup>>

\* Queue entries process_reconnections drops: connected again, or tried often
\* enough.
Dropped ==
  {p \in DOMAIN queue : queue[p].due /\ (p \in Up \/ queue[p].retries >= MaxRetries)}

\* process_reconnections: the other due entries count a retry, and their
\* peers are taken for connected.
ProcessReconnections ==
  LET tried == {p \in DOMAIN queue \ Dropped : queue[p].due}
  IN /\ queue' = [p \in DOMAIN queue \ Dropped |->
                    IF p \in tried THEN [retries |-> queue[p].retries + 1, due |-> FALSE]
                    ELSE queue[p]]
     /\ nodes' = [p \in DOMAIN nodes |->
                    IF p \in tried THEN [nodes[p] EXCEPT !.up = TRUE, !.stale = FALSE]
                    ELSE nodes[p]]
     /\ givenup' = (givenup \ tried) \cup
          {p \in Dropped \cap Down : queue[p].retries >= MaxRetries}
     /\ UNCHANGED routes

\* Time passes: a connected peer has been silent too long, a retry falls due.
Silence(p) ==
  /\ p \in Up /\ ~nodes[p].stale
  /\ nodes' = [nodes EXCEPT ![p].stale = TRUE]
  /\ UNCHANGED <<routes, queue, givenup>>

FallDue(p) ==
  /\ p \in DOMAIN queue /\ ~queue[p].due
  /\ queue' = [queue EXCEPT ![p].due = TRUE]
  /\ UNCHANGED <<nodes, routes, givenup>>

Next ==
  \/ Discover \/ PruneStaleRoutes \/ ProcessReconnections
  \/ \E p \in Peer : \/ Heartbeat(p) \/ Register(p) \/ RemoveNode(p) \/ UpdateRssi(p)
                     \/ Fail(p) \/ RouteFailover(p) \/ Silence(p) \/ FallDue(p)
                     \/ \E n \in Peer : LearnRoute(p, n)

\* Retries fall due, and swarm_tick keeps calling process_reconnections.
Spec ==
  /\ Init /\ [][Next]_vars
  /\ WF_vars(ProcessReconnections) /\ \A p \in Peer : WF_vars(FallDue(p))
-----------------------------------------------------------------------------
\* The tables hold what they may, and no more than they have room for.
TypeOK ==
  /\ Table(nodes, Peer, Node, MaxNodes) /\ Table(routes, Peer, Route, MaxRoutes)
  /\ Table(queue, Peer, Entry, MaxQueue)
  /\ givenup \subseteq Peer

\* No packet is sent towards a peer known to be down: however routes were
\* learned, rerouted, failed over and cut before, an active route's next hop
\* is not a disconnected entry of the peer table.
NoRouteViaDead == \A d \in Active : routes[d].next \notin Down

\* A peer that is down is waiting for its reconnection, unless it was given
\* up for a reason: removed, out of retries, or the queue was full.
DownIsQueued == Down \subseteq DOMAIN queue \cup givenup

\* The reconnect queue drains: no peer, however often it fails again between
\* its retries, occupies one of the places for ever.
QueueDrains ==
  \A p \in Peer : []<>(p \notin DOMAIN queue)

\* The peer, route and reconnect tables fit their bounds and agree.
TablesAgree == TypeOK /\ NoRouteViaDead /\ DownIsQueued
=============================================================================
