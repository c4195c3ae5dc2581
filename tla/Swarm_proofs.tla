----------------------------- MODULE Swarm_proofs -----------------------------
(***************************************************************************)
(* What a node of the swarm guarantees, for any number of peers and        *)
(* proposals and any capacities.                                           *)
(*                                                                         *)
(* The tables of Mesh: the arrays never hold more than they have room for, *)
(* no active route leads through a peer known to be down, and a peer that  *)
(* is down is queued or was given up for a reason.                         *)
(*                                                                         *)
(* Consensus: Tallied says of the table of proposals and the history that  *)
(* keys tell proposals apart, that two with one id are marked as twins,    *)
(* and that the counts of any other are the ballots meant for it.  A place *)
(* that is filled from another one takes its counts along.                 *)
(***************************************************************************)
EXTENDS MCSwarm, Sequences, SequenceTheorems, FiniteSetTheorems,
        WellFoundedInduction, TLAPS

\* A table that is finite, so that its size is a number.
Sound(f, S, T, room) == IsFiniteSet(DOMAIN f) /\ Table(f, S, T, room)

TablesInv ==
  /\ Sound(nodes, Peer, Node, MaxNodes)
  /\ Sound(routes, Peer, Route, MaxRoutes)
  /\ Sound(queue, Peer, Entry, MaxQueue)
  /\ givenup \subseteq Peer

IInv == TablesInv /\ NoRouteViaDead /\ DownIsQueued
-----------------------------------------------------------------------------
(* Tables                                                                  *)

\* The assumptions on the tables, one by one.
LEMMA Bounds == /\ MaxNodes \in Nat /\ MaxRoutes \in Nat /\ MaxQueue \in Nat
                /\ MaxRetries \in Nat /\ MaxMisses \in Nat
                /\ FailBatch \in Nat \ {0} /\ MaxHops \in Nat /\ MaxHops >= 2
BY MeshAssumption

\* Writing an entry of a table keeps it within its room, if the key was there
\* or a place was free (add_node, add_route).
LEMMA WithIsSound ==
  ASSUME NEW f, NEW S, NEW T, NEW room \in Nat, NEW k \in S, NEW v \in T,
         Sound(f, S, T, room),
         k \in DOMAIN f \/ Cardinality(DOMAIN f) < room
  PROVE  Sound(With(f, k, v), S, T, room)
<1>1. DOMAIN With(f, k, v) = DOMAIN f \cup {k}
  BY DEF With
<1>2. /\ IsFiniteSet(DOMAIN f \cup {k})
      /\ Cardinality(DOMAIN f \cup {k})
           = IF k \in DOMAIN f THEN Cardinality(DOMAIN f) ELSE Cardinality(DOMAIN f) + 1
  BY FS_AddElement DEF Sound
<1>3. Cardinality(DOMAIN f) \in Nat
  BY FS_CardinalityType DEF Sound
<1>4. With(f, k, v) \in [DOMAIN f \cup {k} -> T]
  BY DEF With, Sound, Table
<1> QED
  BY <1>1, <1>2, <1>3, <1>4 DEF Sound, Table

\* Taking an entry out of a table leaves a free place.
LEMMA WithoutIsSound ==
  ASSUME NEW f, NEW S, NEW T, NEW room \in Nat, NEW k \in DOMAIN f,
         Sound(f, S, T, room)
  PROVE  /\ Sound(Without(f, k), S, T, room)
         /\ Cardinality(DOMAIN Without(f, k)) < room
<1>1. DOMAIN Without(f, k) = DOMAIN f \ {k}
  BY DEF Without
<1>2. /\ IsFiniteSet(DOMAIN f \ {k})
      /\ Cardinality(DOMAIN f \ {k}) = Cardinality(DOMAIN f) - 1
  BY FS_RemoveElement DEF Sound
<1>3. Cardinality(DOMAIN f) \in Nat
  BY FS_CardinalityType DEF Sound
<1>4. Without(f, k) \in [DOMAIN f \ {k} -> T]
  BY DEF Without, Sound, Table
<1> QED
  BY <1>1, <1>2, <1>3, <1>4 DEF Sound, Table

\* A table that keeps some of the keys of another fits where that one fits.
LEMMA PartIsSound ==
  ASSUME NEW f, NEW g, NEW S, NEW T, NEW room \in Nat, Sound(f, S, T, room),
         DOMAIN g \subseteq DOMAIN f, g \in [DOMAIN g -> T]
  PROVE  Sound(g, S, T, room)
<1>1. IsFiniteSet(DOMAIN g) /\ Cardinality(DOMAIN g) <= Cardinality(DOMAIN f)
  BY FS_Subset DEF Sound
<1>2. Cardinality(DOMAIN f) \in Nat /\ Cardinality(DOMAIN g) \in Nat
  BY <1>1, FS_CardinalityType DEF Sound
<1> QED
  BY <1>1, <1>2 DEF Sound, Table

\* Without a new key, a table fits at once.
LEMMA SameIsSound ==
  ASSUME NEW f, NEW g, NEW S, NEW T, NEW room \in Nat, Sound(f, S, T, room),
         g \in [DOMAIN f -> T]
  PROVE  Sound(g, S, T, room)
<1>1. DOMAIN g = DOMAIN f /\ g \in [DOMAIN g -> T]
  OBVIOUS
<1> QED
  BY <1>1, PartIsSound
-----------------------------------------------------------------------------
(* Helpers of the handlers                                                 *)

\* An offered route leads through its neighbour or changes nothing that is
\* active (add_route).
LEMMA LearnedIsSound ==
  ASSUME TablesInv, NEW d \in Peer, NEW next \in Peer, NEW hops \in 1 .. 2,
         NEW rssi \in Rssi
  PROVE  /\ Sound(Learned(d, next, hops, rssi), Peer, Route, MaxRoutes)
         /\ \A e \in DOMAIN Learned(d, next, hops, rssi) :
              LET r == Learned(d, next, hops, rssi)[e] IN
              r.next = next \/ (e \in DOMAIN routes /\ r = routes[e])
<1> DEFINE R == Learned(d, next, hops, rssi)
<1>0. hops \in 1 .. MaxHops /\ 0 \in 0 .. MaxMisses + 1
  BY Bounds
<1>1. CASE d \in DOMAIN routes
  <2> DEFINE r == [routes[d] EXCEPT !.next = next, !.hops = hops,
                                    !.rssi = rssi, !.active = TRUE]
  <2>1. routes \in [DOMAIN routes -> Route] /\ routes[d] \in Route
    BY <1>1 DEF TablesInv, Sound, Table
  <2>2. r \in Route /\ r.next = next
    BY <2>1, <1>0 DEF Route
  <2>3. R = [routes EXCEPT ![d] = r] \/ R = routes
    BY <1>1 DEF Learned
  <2>4. R \in [DOMAIN routes -> Route]
    BY <2>1, <2>2, <2>3
  <2>5. \A e \in DOMAIN R : R[e].next = next \/ (e \in DOMAIN routes /\ R[e] = routes[e])
    BY <2>1, <2>2, <2>3
  <2> QED
    BY <2>4, <2>5, SameIsSound, Bounds DEF TablesInv
<1>2. CASE d \notin DOMAIN routes /\ Cardinality(DOMAIN routes) < MaxRoutes
  <2> DEFINE r == [next |-> next, hops |-> hops, rssi |-> rssi, active |-> TRUE,
                   misses |-> 0]
  <2>1. r \in Route /\ r.next = next
    BY <1>0 DEF Route
  <2>2. R = With(routes, d, r)
    BY <1>2 DEF Learned
  <2>3. Sound(R, Peer, Route, MaxRoutes)
    BY <1>2, <2>1, <2>2, WithIsSound, Bounds DEF TablesInv
  <2>4. \A e \in DOMAIN R : R[e].next = next \/ (e \in DOMAIN routes /\ R[e] = routes[e])
    BY <2>1, <2>2 DEF With
  <2> QED
    BY <2>3, <2>4
<1>3. CASE d \notin DOMAIN routes /\ ~(Cardinality(DOMAIN routes) < MaxRoutes)
  <2>1. R = routes
    BY <1>3 DEF Learned
  <2> QED
    BY <2>1 DEF TablesInv
<1> QED
  BY <1>1, <1>2, <1>3

\* A peer that is added, or known and heard of, is up; nobody else goes down
\* and nobody down is forgotten (add_node).
LEMMA AddNodeIsSound ==
  ASSUME IInv, NEW p \in Peer, NEW n \in Node, n.up, AddNode(p, n)
  PROVE  /\ Sound(nodes', Peer, Node, MaxNodes)
         /\ givenup' \subseteq Peer
         /\ p \notin Down'
         /\ \A q \in Down' : q \in Down /\ (q \in givenup => q \in givenup')
<1> USE Bounds DEF IInv, TablesInv
<1>0. nodes \in [DOMAIN nodes -> Node] /\ DOMAIN nodes \subseteq Peer
  BY DEF Sound, Table
<1>1. CASE /\ p \in DOMAIN nodes \/ Cardinality(DOMAIN nodes) < MaxNodes
           /\ nodes' = With(nodes, p, n) /\ givenup' = givenup \ {p}
  <2>1. Sound(nodes', Peer, Node, MaxNodes)
    BY <1>1, WithIsSound
  <2>2. p \notin Down' /\ \A q \in Down' : q \in Down /\ q # p
    BY <1>0, <1>1 DEF Down, Up, With
  <2> QED
    BY <1>1, <2>1, <2>2
<1>2. ASSUME NEW q \in Down, p \notin DOMAIN nodes,
             nodes' = With(Without(nodes, q), p, n), givenup' = givenup \ {q}
      PROVE  /\ Sound(nodes', Peer, Node, MaxNodes)
             /\ givenup' \subseteq Peer
             /\ p \notin Down'
             /\ \A x \in Down' : x \in Down /\ (x \in givenup => x \in givenup')
  <2>1. q \in DOMAIN nodes
    BY DEF Down
  <2>2. /\ Sound(Without(nodes, q), Peer, Node, MaxNodes)
        /\ Cardinality(DOMAIN Without(nodes, q)) < MaxNodes
    BY <2>1, WithoutIsSound
  <2>3. Sound(nodes', Peer, Node, MaxNodes)
    BY <1>2, <2>2, WithIsSound
  <2>4. p \notin Down' /\ \A x \in Down' : x \in Down /\ x # q
    BY <1>0, <1>2 DEF Down, Up, With, Without
  <2> QED
    BY <1>2, <2>3, <2>4
<1>3. CASE p \notin DOMAIN nodes /\ UNCHANGED <<nodes, givenup>>
  BY <1>3 DEF Down, Up
<1>4. Cardinality(DOMAIN nodes) \in Nat
  BY FS_CardinalityType DEF Sound
<1> QED
  BY <1>1, <1>2, <1>3, <1>4 DEF AddNode

\* Cutting routes changes no hop and leaves none active towards L
\* (remove_routes_to).
LEMMA RoutesWithoutIsSound ==
  ASSUME TablesInv, NEW L
  PROVE  /\ Sound(RoutesWithout(L), Peer, Route, MaxRoutes)
         /\ DOMAIN RoutesWithout(L) = DOMAIN routes
         /\ \A d \in DOMAIN routes :
              RoutesWithout(L)[d].active =>
                RoutesWithout(L)[d] = routes[d] /\ routes[d].next \notin L
<1>1. routes \in [DOMAIN routes -> Route]
  BY DEF TablesInv, Sound, Table
<1>2. \A d \in DOMAIN routes : [routes[d] EXCEPT !.active = FALSE] \in Route
  BY <1>1 DEF Route
<1>3. RoutesWithout(L) \in [DOMAIN routes -> Route]
  BY <1>1, <1>2 DEF RoutesWithout
<1>4. Sound(RoutesWithout(L), Peer, Route, MaxRoutes)
  BY <1>3, SameIsSound, Bounds DEF TablesInv
<1>5. \A d \in DOMAIN routes : ~[routes[d] EXCEPT !.active = FALSE].active
  BY <1>1 DEF Route
<1> QED
  BY <1>3, <1>4, <1>5 DEF RoutesWithout

\* The peers of L go down, their routes are cut, and each is queued or given
\* up (mark_node_failed).
LEMMA MarkFailedKeeps ==
  ASSUME IInv, NEW L, L \subseteq Peer, IsFiniteSet(L), MarkFailed(L)
  PROVE  IInv'
<1> USE Bounds
<1> DEFINE new == L \ DOMAIN queue
           room == MaxQueue - Cardinality(DOMAIN queue)
<1>0. /\ nodes \in [DOMAIN nodes -> Node] /\ DOMAIN nodes \subseteq Peer
      /\ routes \in [DOMAIN routes -> Route]
      /\ queue \in [DOMAIN queue -> Entry] /\ DOMAIN queue \subseteq Peer
      /\ IsFiniteSet(DOMAIN queue) /\ Cardinality(DOMAIN queue) \in Nat
      /\ Cardinality(DOMAIN queue) <= MaxQueue
  BY FS_CardinalityType DEF IInv, TablesInv, Sound, Table
<1>1. PICK Q \in SUBSET new :
        /\ IF Cardinality(new) <= room THEN Q = new ELSE Cardinality(Q) = room
        /\ queue' = [p \in DOMAIN queue \cup Q |-> IF p \in Q THEN NewEntry ELSE queue[p]]
        /\ givenup' = givenup \cup ((new \ Q) \cap DOMAIN nodes)
  BY DEF MarkFailed
<1>2. nodes' = [p \in DOMAIN nodes |->
                  IF p \in L THEN [nodes[p] EXCEPT !.up = FALSE] ELSE nodes[p]]
  BY DEF MarkFailed
<1>3. Sound(nodes', Peer, Node, MaxNodes)
  <2>1. \A p \in DOMAIN nodes : [nodes[p] EXCEPT !.up = FALSE] \in Node
    BY <1>0 DEF Node
  <2>2. nodes' \in [DOMAIN nodes -> Node]
    BY <1>0, <1>2, <2>1
  <2> QED
    BY <2>2, SameIsSound DEF IInv, TablesInv
<1>4. Sound(queue', Peer, Entry, MaxQueue)
  <2>1. IsFiniteSet(new) /\ IsFiniteSet(Q) /\ Cardinality(Q) \in Nat
    <3>1. IsFiniteSet(new)
      BY FS_Subset
    <3>2. IsFiniteSet(Q)
      BY <3>1, FS_Subset
    <3> QED
      BY <3>1, <3>2, FS_CardinalityType
  <2>2. Cardinality(Q) <= room
    <3>1. CASE Cardinality(new) <= room /\ Q = new
      BY <3>1
    <3>2. CASE Cardinality(Q) = room
      <4>1. room \in Int
        BY <1>0
      <4> QED
        BY <3>2, <4>1
    <3> QED
      BY <1>1, <3>1, <3>2
  <2>3. Cardinality(DOMAIN queue \cap Q) = 0
    <3>1. DOMAIN queue \cap Q = {}
      OBVIOUS
    <3> QED
      BY <3>1, FS_EmptySet
  <2>4. /\ IsFiniteSet(DOMAIN queue \cup Q)
        /\ Cardinality(DOMAIN queue \cup Q) = Cardinality(DOMAIN queue) + Cardinality(Q)
    <3>1. /\ IsFiniteSet(DOMAIN queue \cup Q)
          /\ Cardinality(DOMAIN queue \cup Q)
               = Cardinality(DOMAIN queue) + Cardinality(Q) - Cardinality(DOMAIN queue \cap Q)
      BY <1>0, <2>1, FS_Union
    <3> QED
      BY <1>0, <2>1, <2>3, <3>1
  <2>5. NewEntry \in Entry
    BY DEF NewEntry, Entry
  <2>6. DOMAIN queue' = DOMAIN queue \cup Q /\ queue' \in [DOMAIN queue \cup Q -> Entry]
    BY <1>0, <1>1, <2>5
  <2> QED
    BY <1>0, <1>1, <2>1, <2>2, <2>4, <2>6 DEF Sound, Table
<1>5. /\ Sound(routes', Peer, Route, MaxRoutes)
      /\ DOMAIN routes' = DOMAIN routes
      /\ \A d \in DOMAIN routes : routes'[d].active =>
           routes'[d] = routes[d] /\ routes[d].next \notin L
  <2>1. routes' = RoutesWithout(L)
    BY DEF MarkFailed
  <2> QED
    BY <2>1, RoutesWithoutIsSound DEF IInv
<1>6. Down' \subseteq Down \cup (L \cap DOMAIN nodes)
  BY <1>0, <1>2 DEF Down, Up
<1>7. NoRouteViaDead'
  BY <1>5, <1>6 DEF IInv, NoRouteViaDead, Active
<1>8. DownIsQueued'
  BY <1>1, <1>6 DEF IInv, DownIsQueued
<1> QED
  BY <1>1, <1>3, <1>4, <1>5, <1>7, <1>8 DEF IInv, TablesInv
-----------------------------------------------------------------------------
(* One lemma per handler                                                   *)

\* When routes come from an offer of a peer that is up, and no peer goes down
\* or is forgotten, the tables still agree.
LEMMA OfferKeeps ==
  ASSUME IInv, NEW d \in Peer, NEW next \in Peer, NEW hops \in 1 .. 2,
         NEW rssi \in Rssi, routes' = Learned(d, next, hops, rssi),
         Sound(nodes', Peer, Node, MaxNodes), givenup' \subseteq Peer,
         next \notin Down', UNCHANGED queue,
         \A q \in Down' : q \in Down /\ (q \in givenup => q \in givenup')
  PROVE  IInv'
<1>1. /\ Sound(routes', Peer, Route, MaxRoutes)
      /\ \A e \in DOMAIN routes' :
           routes'[e].next = next \/ (e \in DOMAIN routes /\ routes'[e] = routes[e])
  BY LearnedIsSound DEF IInv
<1>2. NoRouteViaDead'
  BY <1>1 DEF IInv, NoRouteViaDead, Active
<1>3. DownIsQueued'
  BY DEF IInv, DownIsQueued
<1> QED
  BY <1>1, <1>2, <1>3 DEF IInv, TablesInv

\* receive_heartbeat, from a peer that is known or not.
LEMMA HeartbeatKeeps == ASSUME IInv, NEW p \in Peer, Heartbeat(p) PROVE IInv'
<1>0. 1 \in 1 .. 2 /\ UNCHANGED queue
  BY DEF Heartbeat
<1>1. CASE p \in DOMAIN nodes
  <2>1. /\ nodes \in [DOMAIN nodes -> Node]
        /\ nodes' = [nodes EXCEPT ![p] = [@ EXCEPT !.up = TRUE, !.stale = FALSE]]
        /\ givenup' = givenup \ {p}
        /\ routes' = Learned(p, p, 1, nodes[p].rssi)
    BY <1>1 DEF Heartbeat, IInv, TablesInv, Sound, Table
  <2>2. nodes[p].rssi \in Rssi
    BY <1>1, <2>1 DEF Node
  <2>3. nodes' \in [DOMAIN nodes -> Node] /\ nodes'[p].up
    BY <1>1, <2>1 DEF Node
  <2>4. Sound(nodes', Peer, Node, MaxNodes)
    BY <2>3, SameIsSound, Bounds DEF IInv, TablesInv
  <2>5. p \notin Down' /\ \A q \in Down' : q \in Down /\ q # p
    BY <1>1, <2>1, <2>3 DEF Down, Up
  <2>6. givenup' \subseteq Peer
    BY <2>1 DEF IInv, TablesInv
  <2> QED
    BY <1>0, <2>1, <2>2, <2>4, <2>5, <2>6, OfferKeeps
<1>2. CASE p \notin DOMAIN nodes
  <2>1. PICK r \in Rssi :
          /\ AddNode(p, [up |-> TRUE, stale |-> FALSE, rssi |-> r])
          /\ routes' = Learned(p, p, 1, r)
    BY <1>2 DEF Heartbeat
  <2>2. [up |-> TRUE, stale |-> FALSE, rssi |-> r] \in Node
    BY DEF Node
  <2>3. /\ Sound(nodes', Peer, Node, MaxNodes) /\ givenup' \subseteq Peer
        /\ p \notin Down'
        /\ \A q \in Down' : q \in Down /\ (q \in givenup => q \in givenup')
    BY <2>1, <2>2, AddNodeIsSound
  <2> QED
    BY <1>0, <2>1, <2>3, OfferKeeps
<1> QED
  BY <1>1, <1>2

\* register_peer_node.
LEMMA RegisterKeeps == ASSUME IInv, NEW p \in Peer, Register(p) PROVE IInv'
<1>1. PICK r \in Rssi : AddNode(p, [up |-> TRUE, stale |-> TRUE, rssi |-> r])
  BY DEF Register
<1>2. [up |-> TRUE, stale |-> TRUE, rssi |-> r] \in Node
  BY DEF Node
<1>3. /\ Sound(nodes', Peer, Node, MaxNodes) /\ givenup' \subseteq Peer
      /\ \A q \in Down' : q \in Down /\ (q \in givenup => q \in givenup')
  BY <1>1, <1>2, AddNodeIsSound
<1>4. UNCHANGED <<routes, queue>>
  BY DEF Register
<1>5. NoRouteViaDead' /\ DownIsQueued'
  BY <1>3, <1>4 DEF IInv, NoRouteViaDead, DownIsQueued, Active
<1> QED
  BY <1>3, <1>4, <1>5 DEF IInv, TablesInv

\* remove_node: the peer is down, and given up or queued.
LEMMA RemoveNodeKeeps == ASSUME IInv, NEW p \in Peer, RemoveNode(p) PROVE IInv'
<1>1. /\ nodes \in [DOMAIN nodes -> Node] /\ p \in DOMAIN nodes
      /\ nodes' = [nodes EXCEPT ![p] = [@ EXCEPT !.up = FALSE, !.rssi = 0]]
      /\ UNCHANGED queue
      /\ givenup' = IF p \in DOMAIN queue THEN givenup ELSE givenup \cup {p}
  BY DEF RemoveNode, IInv, TablesInv, Sound, Table
<1>2. nodes' \in [DOMAIN nodes -> Node]
  BY <1>1 DEF Node, Rssi
<1>3. Sound(nodes', Peer, Node, MaxNodes)
  BY <1>2, SameIsSound, Bounds DEF IInv, TablesInv
<1>4. Down' \subseteq Down \cup {p}
  BY <1>1 DEF Down, Up
<1>5. /\ Sound(routes', Peer, Route, MaxRoutes)
      /\ DOMAIN routes' = DOMAIN routes
      /\ \A d \in DOMAIN routes : routes'[d].active =>
           routes'[d] = routes[d] /\ routes[d].next \notin {p}
  <2>1. routes' = RoutesWithout({p})
    BY DEF RemoveNode
  <2> QED
    BY <2>1, RoutesWithoutIsSound DEF IInv
<1>6. NoRouteViaDead'
  BY <1>4, <1>5 DEF IInv, NoRouteViaDead, Active
<1>7. DownIsQueued'
  BY <1>1, <1>4 DEF IInv, DownIsQueued
<1> QED
  BY <1>1, <1>3, <1>5, <1>6, <1>7 DEF IInv, TablesInv

\* add_route, through a neighbour that is connected.
LEMMA LearnRouteKeeps ==
  ASSUME IInv, NEW d \in Peer, NEW n \in Peer, LearnRoute(d, n) PROVE IInv'
<1>1. /\ nodes \in [DOMAIN nodes -> Node] /\ n \in Up /\ 2 \in 1 .. 2
      /\ routes' = Learned(d, n, 2, nodes[n].rssi)
      /\ UNCHANGED <<nodes, queue, givenup>>
  BY DEF LearnRoute, IInv, TablesInv, Sound, Table
<1>2. nodes[n].rssi \in Rssi
  BY <1>1 DEF Node, Up
<1>3. Down' = Down /\ n \notin Down
  BY <1>1 DEF Down, Up
<1> QED
  BY <1>1, <1>2, <1>3, OfferKeeps DEF IInv, TablesInv

\* update_route_rssi changes signals only.
LEMMA UpdateRssiKeeps == ASSUME IInv, NEW p \in Peer, UpdateRssi(p) PROVE IInv'
<1>0. /\ nodes \in [DOMAIN nodes -> Node] /\ routes \in [DOMAIN routes -> Route]
  BY DEF IInv, TablesInv, Sound, Table
<1>1. PICK r \in Rssi, avg \in Rssi :
        /\ nodes' = IF p \in DOMAIN nodes THEN [nodes EXCEPT ![p] = [@ EXCEPT !.rssi = r]]
                                          ELSE nodes
        /\ routes' = IF p \in DOMAIN routes THEN [routes EXCEPT ![p] = [@ EXCEPT !.rssi = avg]]
                                            ELSE routes
  BY DEF UpdateRssi
<1>2. nodes' \in [DOMAIN nodes -> Node] /\ \A q \in DOMAIN nodes : nodes'[q].up = nodes[q].up
  BY <1>0, <1>1 DEF Node
<1>3. /\ routes' \in [DOMAIN routes -> Route]
      /\ \A d \in DOMAIN routes : /\ routes'[d].active = routes[d].active
                                  /\ routes'[d].next = routes[d].next
  BY <1>0, <1>1 DEF Route
<1>4. Sound(nodes', Peer, Node, MaxNodes) /\ Sound(routes', Peer, Route, MaxRoutes)
  BY <1>2, <1>3, SameIsSound, Bounds DEF IInv, TablesInv
<1>5. UNCHANGED <<queue, givenup>>
  BY DEF UpdateRssi
<1>6. Down' = Down
  BY <1>0, <1>2 DEF Down, Up
<1>7. NoRouteViaDead' /\ DownIsQueued'
  BY <1>0, <1>3, <1>5, <1>6 DEF IInv, NoRouteViaDead, DownIsQueued, Active
<1> QED
  BY <1>4, <1>5, <1>7 DEF IInv, TablesInv

\* mark_node_failed of one peer.
LEMMA FailKeeps == ASSUME IInv, NEW p \in Peer, Fail(p) PROVE IInv'
BY MarkFailedKeeps, FS_Singleton DEF Fail

\* discover_peers: the silent peers of a round fail together.
LEMMA DiscoverKeeps == ASSUME IInv, Discover PROVE IInv'
<1>1. PICK L : L \subseteq DOMAIN nodes /\ MarkFailed(L)
  BY DEF Discover, Up
<1>2. IsFiniteSet(DOMAIN nodes) /\ DOMAIN nodes \subseteq Peer
  BY DEF IInv, TablesInv, Sound, Table
<1>3. IsFiniteSet(L) /\ L \subseteq Peer
  BY <1>1, <1>2, FS_Subset
<1> QED
  BY <1>1, <1>3, MarkFailedKeeps

\* route_failover: the new next hop is connected.
LEMMA RouteFailoverKeeps == ASSUME IInv, NEW f \in Peer, RouteFailover(f) PROVE IInv'
<1> DEFINE through == {d \in Active : routes[d].next = f}
<1>0. /\ routes \in [DOMAIN routes -> Route] /\ DOMAIN nodes \subseteq Peer
      /\ UNCHANGED <<nodes, queue, givenup>>
      /\ \A d \in through : routes[d].hops < MaxHops
  BY DEF RouteFailover, IInv, TablesInv, Sound, Table
<1>1. CASE routes' = [d \in DOMAIN routes |->
             IF d \in through THEN [routes[d] EXCEPT !.active = FALSE] ELSE routes[d]]
  <2>1. \A d \in DOMAIN routes :
          /\ [routes[d] EXCEPT !.active = FALSE] \in Route
          /\ ~[routes[d] EXCEPT !.active = FALSE].active
    BY <1>0 DEF Route
  <2>2. routes' \in [DOMAIN routes -> Route]
    BY <1>0, <1>1, <2>1
  <2>3. \A d \in DOMAIN routes : routes'[d].active => routes'[d] = routes[d]
    BY <1>1, <2>1
  <2>4. NoRouteViaDead'
    BY <1>0, <2>2, <2>3 DEF IInv, NoRouteViaDead, Active, Down, Up
  <2>5. Sound(routes', Peer, Route, MaxRoutes)
    BY <2>2, SameIsSound, Bounds DEF IInv, TablesInv
  <2> QED
    BY <1>0, <2>4, <2>5 DEF IInv, TablesInv, DownIsQueued, Down, Up
<1>2. ASSUME NEW alt \in Up,
             routes' = [d \in DOMAIN routes |->
               IF d \in through
               THEN [routes[d] EXCEPT !.next = alt, !.hops = @ + 1, !.misses = 0]
               ELSE routes[d]]
      PROVE  IInv'
  <2>1. \A d \in through :
          /\ [routes[d] EXCEPT !.next = alt, !.hops = @ + 1, !.misses = 0] \in Route
          /\ [routes[d] EXCEPT !.next = alt, !.hops = @ + 1, !.misses = 0].next = alt
    <3> SUFFICES ASSUME NEW d \in through
                 PROVE  LET r == [routes[d] EXCEPT !.next = alt, !.hops = @ + 1, !.misses = 0]
                        IN  r \in Route /\ r.next = alt
      OBVIOUS
    <3>1. routes[d] \in Route /\ routes[d].hops \in 1 .. MaxHops /\ alt \in Peer
      BY <1>0 DEF Active, Route, Up
    <3>2. routes[d].hops + 1 \in 1 .. MaxHops /\ 0 \in 0 .. MaxMisses + 1
      BY <1>0, <3>1, Bounds
    <3> QED
      BY <3>1, <3>2 DEF Route
  <2>2. routes' \in [DOMAIN routes -> Route]
    BY <1>0, <1>2, <2>1
  <2>3. \A d \in DOMAIN routes : routes'[d].next = alt \/ routes'[d] = routes[d]
    BY <1>2, <2>1
  <2>4. NoRouteViaDead'
    BY <1>0, <2>2, <2>3 DEF IInv, NoRouteViaDead, Active, Down, Up
  <2>5. Sound(routes', Peer, Route, MaxRoutes)
    BY <2>2, SameIsSound, Bounds DEF IInv, TablesInv
  <2> QED
    BY <1>0, <2>4, <2>5 DEF IInv, TablesInv, DownIsQueued, Down, Up
<1> QED
  BY <1>1, <1>2 DEF RouteFailover

\* prune_below_threshold gives back the weak slots, from the lowest to the
\* highest; each is listed, and once.
LEMMA PruneKeeps == ASSUME IInv, PruneStaleRoutes PROVE IInv'
<1>1. PICK old \in SUBSET Active :
        routes' = [d \in DOMAIN routes |->
          IF d \notin old THEN routes[d]
          ELSE IF routes[d].misses >= MaxMisses
               THEN [routes[d] EXCEPT !.misses = MaxMisses + 1, !.active = FALSE]
               ELSE [routes[d] EXCEPT !.misses = @ + 1]]
  BY DEF PruneStaleRoutes
<1>2. routes \in [DOMAIN routes -> Route] /\ UNCHANGED <<nodes, queue, givenup>>
  BY DEF PruneStaleRoutes, IInv, TablesInv, Sound, Table
<1>3. \A d \in DOMAIN routes :
        /\ routes'[d] \in Route
        /\ routes'[d].next = routes[d].next
        /\ routes'[d].active => routes[d].active
  <2> SUFFICES ASSUME NEW d \in DOMAIN routes
               PROVE  /\ routes'[d] \in Route
                      /\ routes'[d].next = routes[d].next
                      /\ routes'[d].active => routes[d].active
    OBVIOUS
  <2>1. routes[d] \in Route /\ routes[d].misses \in 0 .. MaxMisses + 1
    BY <1>2 DEF Route
  <2>2. CASE d \notin old
    BY <1>1, <2>1, <2>2
  <2>3. CASE d \in old /\ routes[d].misses >= MaxMisses
    <3>1. routes'[d] = [routes[d] EXCEPT !.misses = MaxMisses + 1, !.active = FALSE]
      BY <1>1, <2>3
    <3>2. MaxMisses + 1 \in 0 .. MaxMisses + 1
      BY Bounds
    <3> QED
      BY <2>1, <3>1, <3>2 DEF Route
  <2>4. CASE d \in old /\ ~(routes[d].misses >= MaxMisses)
    <3>1. routes[d].misses + 1 \in 0 .. MaxMisses + 1
      BY <2>1, <2>4, Bounds
    <3> QED
      BY <1>1, <2>1, <2>4, <3>1 DEF Route
  <2> QED
    BY <2>2, <2>3, <2>4
<1>4. routes' \in [DOMAIN routes -> Route]
  BY <1>1, <1>3
<1>5. Sound(routes', Peer, Route, MaxRoutes)
  BY <1>4, SameIsSound, Bounds DEF IInv, TablesInv
<1>6. NoRouteViaDead'
  BY <1>2, <1>3, <1>4 DEF IInv, NoRouteViaDead, Active, Down, Up
<1> QED
  BY <1>2, <1>5, <1>6 DEF IInv, TablesInv, DownIsQueued, Down, Up

\* process_reconnections: who is dropped is connected or given up.
LEMMA ProcessReconnectionsKeeps == ASSUME IInv, ProcessReconnections PROVE IInv'
<1> DEFINE tried == {p \in DOMAIN queue \ Dropped : queue[p].due}
<1>1. /\ queue' = [p \in DOMAIN queue \ Dropped |->
                     IF p \in tried THEN [retries |-> queue[p].retries + 1, due |-> FALSE]
                     ELSE queue[p]]
      /\ nodes' = [p \in DOMAIN nodes |->
                     IF p \in tried
                     THEN [nodes[p] EXCEPT !.up = TRUE, !.stale = FALSE] ELSE nodes[p]]
      /\ givenup' = (givenup \ tried) \cup
                      {p \in Dropped \cap Down : queue[p].retries >= MaxRetries}
      /\ UNCHANGED routes
  BY DEF ProcessReconnections
<1>2. /\ nodes \in [DOMAIN nodes -> Node] /\ queue \in [DOMAIN queue -> Entry]
      /\ DOMAIN nodes \subseteq Peer /\ DOMAIN queue \subseteq Peer
  BY DEF IInv, TablesInv, Sound, Table
<1>3. Sound(nodes', Peer, Node, MaxNodes)
  <2>1. \A p \in DOMAIN nodes : [nodes[p] EXCEPT !.up = TRUE, !.stale = FALSE] \in Node
    BY <1>2 DEF Node
  <2>2. nodes' \in [DOMAIN nodes -> Node]
    BY <1>1, <1>2, <2>1
  <2> QED
    BY <2>2, SameIsSound, Bounds DEF IInv, TablesInv
<1>4. Sound(queue', Peer, Entry, MaxQueue)
  <2>1. \A p \in tried : queue[p].retries \in 0 .. MaxRetries /\ queue[p].retries < MaxRetries
    BY <1>2, Bounds DEF Dropped, Entry
  <2>2. \A p \in tried : [retries |-> queue[p].retries + 1, due |-> FALSE] \in Entry
    BY <2>1, Bounds DEF Entry
  <2>3. DOMAIN queue' = DOMAIN queue \ Dropped /\ queue' \in [DOMAIN queue' -> Entry]
    BY <1>1, <1>2, <2>2
  <2> QED
    BY <2>3, PartIsSound, Bounds DEF IInv, TablesInv
<1>5. Down' \subseteq Down \ tried
  BY <1>1, <1>2 DEF Down, Up, Node
<1>6. NoRouteViaDead'
  BY <1>1, <1>5 DEF IInv, NoRouteViaDead, Active
<1>7. DownIsQueued'
  <2> SUFFICES ASSUME NEW p \in Down' PROVE p \in DOMAIN queue' \cup givenup'
    BY DEF DownIsQueued
  <2>1. p \in Down /\ p \notin tried /\ p \notin Up
    BY <1>5 DEF Down
  <2>2. CASE p \in Dropped
    BY <1>1, <2>1, <2>2 DEF Dropped
  <2>3. CASE p \notin Dropped
    BY <1>1, <2>1, <2>3 DEF IInv, DownIsQueued
  <2> QED
    BY <2>2, <2>3
<1> QED
  BY <1>1, <1>2, <1>3, <1>4, <1>6, <1>7 DEF IInv, TablesInv, Dropped

\* Time changes no entry's peer and no connection.
LEMMA TimeKeeps == ASSUME IInv, NEW p \in Peer, Silence(p) \/ FallDue(p) PROVE IInv'
<1>0. nodes \in [DOMAIN nodes -> Node] /\ queue \in [DOMAIN queue -> Entry]
  BY DEF IInv, TablesInv, Sound, Table
<1>1. CASE Silence(p)
  <2>1. /\ p \in DOMAIN nodes /\ UNCHANGED <<routes, queue, givenup>>
        /\ nodes' = [nodes EXCEPT ![p] = [@ EXCEPT !.stale = TRUE]]
    BY <1>1 DEF Silence, Up
  <2>2. nodes' \in [DOMAIN nodes -> Node] /\ \A q \in DOMAIN nodes : nodes'[q].up = nodes[q].up
    BY <1>0, <2>1 DEF Node
  <2>3. Sound(nodes', Peer, Node, MaxNodes)
    BY <2>2, SameIsSound, Bounds DEF IInv, TablesInv
  <2>4. Down' = Down
    BY <1>0, <2>2 DEF Down, Up
  <2> QED
    BY <2>1, <2>3, <2>4 DEF IInv, TablesInv, NoRouteViaDead, DownIsQueued, Active
<1>2. CASE FallDue(p)
  <2>1. /\ UNCHANGED <<nodes, routes, givenup>>
        /\ queue' = [queue EXCEPT ![p] = [@ EXCEPT !.due = TRUE]]
    BY <1>2 DEF FallDue
  <2>2. queue' \in [DOMAIN queue -> Entry] /\ DOMAIN queue' = DOMAIN queue
    BY <1>0, <2>1 DEF Entry
  <2>3. Sound(queue', Peer, Entry, MaxQueue)
    BY <2>2, SameIsSound, Bounds DEF IInv, TablesInv
  <2> QED
    BY <2>1, <2>2, <2>3 DEF IInv, TablesInv, NoRouteViaDead, DownIsQueued, Active, Down, Up
<1> QED
  BY <1>1, <1>2
-----------------------------------------------------------------------------
\* MeshNetwork::new has empty tables.
LEMMA Initially == Init => IInv
<1> SUFFICES ASSUME Init PROVE IInv
  OBVIOUS
<1>1. /\ DOMAIN nodes = {} /\ DOMAIN routes = {} /\ DOMAIN queue = {} /\ givenup = {}
      /\ nodes \in [{} -> Node] /\ routes \in [{} -> Route] /\ queue \in [{} -> Entry]
  BY DEF Init, None
<1>2. IsFiniteSet({}) /\ Cardinality({}) = 0
  BY FS_EmptySet
<1>3. TablesInv
  BY <1>1, <1>2, Bounds DEF TablesInv, Sound, Table
<1>4. NoRouteViaDead /\ DownIsQueued
  BY <1>1 DEF NoRouteViaDead, DownIsQueued, Active, Down
<1> QED
  BY <1>3, <1>4 DEF IInv

\* Every step of Mesh.
LEMMA Stepwise == IInv /\ [Next]_vars => IInv'
<1> SUFFICES ASSUME IInv, [Next]_vars PROVE IInv'
  OBVIOUS
<1>1. CASE Discover \/ PruneStaleRoutes \/ ProcessReconnections
  BY <1>1, DiscoverKeeps, PruneKeeps, ProcessReconnectionsKeeps
<1>2. ASSUME NEW p \in Peer,
             \/ Heartbeat(p) \/ Register(p) \/ RemoveNode(p) \/ UpdateRssi(p)
             \/ Fail(p) \/ RouteFailover(p) \/ Silence(p) \/ FallDue(p)
             \/ \E n \in Peer : LearnRoute(p, n)
      PROVE  IInv'
  BY <1>2, HeartbeatKeeps, RegisterKeeps, RemoveNodeKeeps, UpdateRssiKeeps, FailKeeps,
     RouteFailoverKeeps, TimeKeeps, LearnRouteKeeps
<1>3. CASE UNCHANGED vars
  BY <1>3 DEF vars, IInv, TablesInv, Sound, NoRouteViaDead, DownIsQueued, Active, Down, Up
<1> QED
  BY <1>1, <1>2, <1>3 DEF Next
-----------------------------------------------------------------------------
\* For any peers, capacities and retry limit: the peer, route and reconnect
\* arrays stay within their room, no packet is sent towards a peer known to be
\* down, and every such peer is queued or was given up for a reason
\* (connected_nodes, routes and reconnect_queue of MeshNetwork).
THEOREM TablesAlwaysAgree == Spec => []TablesAgree
<1>1. IInv => TablesAgree
  BY DEF IInv, TablesInv, Sound, TablesAgree, TypeOK
<1> QED
  BY <1>1, Initially, Stepwise, PTL DEF Spec

------------------------------------------------------------------------------
(* Ballots.                                                                *)

\* The assumptions on the node, one by one.
LEMMA SwarmSizes == MaxProposals \in Nat /\ Quorum \in Nat /\ Quorum >= 2
BY SwarmAssumption

\* Both modules take cardinality from FiniteSets.
LEMMA VoteSize == \A X : C!Cardinality(X) = Cardinality(X)
BY DEF Cardinality, C!Cardinality

\* A set of naturals that is not empty has a least one.
LEMMA Least ==
  ASSUME NEW S \in SUBSET Nat, S # {}
  PROVE  \E x \in S : \A y \in S : x <= y
<1> DEFINE R == OpToRel(<, Nat)
<1>1. IsWellFoundedOn(R, Nat)
  BY NatLessThanWellFounded
<1> HIDE DEF R
<1>2. PICK x \in S : \A y \in S : ~(<<y, x>> \in R)
  BY <1>1, WFMin
<1> USE DEF R
<1>3. \A y \in S : ~(y < x)
  BY <1>2 DEF OpToRel
<1> QED
  BY <1>3

\* The greatest of some of the first naturals.
LEMMA Greatest ==
  ASSUME NEW n \in Nat, NEW S \in SUBSET (1 .. n), S # {}
  PROVE  C!Max(S) \in S
<1> DEFINE D == {n - x : x \in S}
<1>1. D \subseteq Nat /\ D # {}
  OBVIOUS
<1>2. PICK d \in D : \A y \in D : d <= y
  BY <1>1, Least
<1>3. PICK x \in S : d = n - x
  BY <1>2
<1>4. ASSUME NEW y \in S PROVE x >= y
  <2>1. n - y \in D
    OBVIOUS
  <2>2. n - x <= n - y /\ x \in Int /\ y \in Int
    BY <1>2, <1>3, <2>1
  <2> QED
    BY <2>2
<1>5. \E z \in S : \A y \in S : z >= y
  BY <1>3, <1>4
<1> QED
  BY <1>5 DEF C!Max

Prop == [key : C!Key, id : Id, for : Nat, against : Nat, due : BOOLEAN]
Bal == [yes : Nat, no : Nat, twin : BOOLEAN, own : BOOLEAN]

\* What a proposal's counts are, by the ballots meant for it.
Told(p, b) ==
  ~b.twin => p.against = b.no /\ p.for = 1 + b.yes + (IF b.own /\ p.id # 0 THEN 1 ELSE 0)

\* Keys tell the proposals of s apart, and so do ids, but those of twins; b
\* records what was meant for each.
Tallied(s, b) ==
  /\ s \in Seq(Prop) /\ Len(s) <= MaxProposals
  /\ \A i, j \in 1 .. Len(s) : s[i].key = s[j].key => i = j
  /\ DOMAIN b = {s[i].key : i \in 1 .. Len(s)}
  /\ \A i \in 1 .. Len(s) : b[s[i].key] \in Bal /\ Told(s[i], b[s[i].key])
  /\ \A i, j \in 1 .. Len(s) : i # j /\ s[i].id = s[j].id => b[s[i].key].twin

VoteInv == Tallied(open, ballots) /\ C!PassedIsBacked

\* The keys of a list of proposals with distinct keys are as many as those.
LEMMA KeysAreMany ==
  ASSUME NEW s \in Seq(Prop),
         \A i, j \in 1 .. Len(s) : s[i].key = s[j].key => i = j
  PROVE  /\ IsFiniteSet({s[i].key : i \in 1 .. Len(s)})
         /\ Cardinality({s[i].key : i \in 1 .. Len(s)}) = Len(s)
<1> DEFINE I == 1 .. Len(s)
           K == {s[i].key : i \in I}
           f == [i \in I |-> s[i].key]
<1>1. Len(s) \in Nat /\ 1 \in Int /\ Len(s) \in Int
  OBVIOUS
<1>2. IsFiniteSet(I) /\ Cardinality(I) = Len(s)
  <2> DEFINE n == Len(s)
  <2> HIDE DEF n
  <2>1. 1 \in Int /\ n \in Int /\ n \in Nat
    BY <1>1 DEF n
  <2>2. IsFiniteSet(1 .. n) /\ Cardinality(1 .. n) = n
    BY <2>1, FS_Interval
  <2> QED
    BY <2>2 DEF n
<1>3. f \in Bijection(I, K)
  <2>1. f \in [I -> K]
    OBVIOUS
  <2>2. \A a, b \in I : f[a] = f[b] => a = b
    OBVIOUS
  <2>3. \A k \in K : \E i \in I : f[i] = k
    OBVIOUS
  <2> HIDE DEF I, K, f
  <2> QED
    BY <2>1, <2>2, <2>3 DEF Bijection, Injection, IsInjective, Surjection
<1> HIDE DEF I, K, f
<1>4. IsFiniteSet(K) /\ Cardinality(K) = Cardinality(I)
  BY <1>2, <1>3, FS_Bijection DEF ExistsBijection
<1> QED
  BY <1>2, <1>4 DEF K, I

\* While there is room a key is free.
LEMMA KeyIsFree ==
  ASSUME VoteInv, Len(open) < MaxProposals
  PROVE  C!NewKey \in C!Key /\ \A i \in 1 .. Len(open) : open[i].key # C!NewKey
<1>1. /\ open \in Seq(Prop)
      /\ \A i, j \in 1 .. Len(open) : open[i].key = open[j].key => i = j
  BY DEF VoteInv, Tallied
<1>2. C!Keys = {open[i].key : i \in 1 .. Len(open)}
  BY <1>1 DEF C!Keys
<1>3. IsFiniteSet(C!Keys) /\ Cardinality(C!Keys) = Len(open)
  BY <1>1, <1>2, KeysAreMany
<1>4. Cardinality(C!Key) = MaxProposals
  <2>1. 1 \in Int /\ MaxProposals \in Int /\ MaxProposals \in Nat
    BY SwarmSizes
  <2> QED
    BY <2>1, FS_Interval DEF C!Key
<1>5. C!Keys \subseteq C!Key
  <2> SUFFICES ASSUME NEW i \in 1 .. Len(open) PROVE open[i].key \in C!Key
    BY <1>2
  <2>1. open[i] \in Prop
    BY <1>1
  <2> QED
    BY <2>1 DEF Prop
<1>6. C!Keys # C!Key
  <2>1. Len(open) \in Nat /\ MaxProposals \in Nat
    BY <1>1, SwarmSizes
  <2> QED
    BY <1>3, <1>4, <2>1
<1>7. \E k \in C!Key : k \notin C!Keys
  BY <1>5, <1>6
<1>8. C!NewKey \in C!Key /\ C!NewKey \notin C!Keys
  BY <1>7 DEF C!NewKey
<1> QED
  BY <1>2, <1>8

\* The first proposal with an id.
LEMMA CountedIsFirst ==
  ASSUME NEW s \in Seq(Prop), NEW i \in 1 .. Len(s)
  PROVE  /\ C!Counted(s, s[i].id) \in 1 .. Len(s)
         /\ s[C!Counted(s, s[i].id)].id = s[i].id
<1> DEFINE S == {j \in 1 .. Len(s) : s[j].id = s[i].id}
<1>1. S \in SUBSET Nat /\ i \in S /\ DOMAIN s = 1 .. Len(s)
  OBVIOUS
<1>2. PICK c \in S : \A y \in S : c <= y
  BY <1>1, Least
<1>3. \A j \in DOMAIN s : j < c => s[j].id # s[i].id
  BY <1>1, <1>2
<1>4. \E x \in DOMAIN s : s[x].id = s[i].id /\ \A j \in DOMAIN s : j < x => s[j].id # s[i].id
  BY <1>1, <1>2, <1>3
<1> QED
  BY <1>1, <1>4 DEF C!Counted

\* With distinct keys, what VoteInv says gives the two properties.
LEMMA VotesFollow == VoteInv => VotesAreHonest
<1> SUFFICES ASSUME VoteInv PROVE C!TallyIsHonest
  BY DEF VoteInv, Tallied, VotesAreHonest
<1>1. open \in Seq(Prop) /\ DOMAIN open = 1 .. Len(open)
  BY DEF VoteInv, Tallied
<1>2. C!Keys = {open[i].key : i \in 1 .. Len(open)}
  BY <1>1 DEF C!Keys
<1>3. C!Cardinality(C!Keys) = Len(open)
  BY <1>1, <1>2, KeysAreMany, VoteSize DEF VoteInv, Tallied
<1>4. \A i \in DOMAIN open : Told(open[i], ballots[open[i].key])
  BY <1>1 DEF VoteInv, Tallied
<1> QED
  BY <1>2, <1>3, <1>4 DEF VoteInv, Tallied, C!TallyIsHonest, Told

\* MeshNetwork::new has no proposal, and none was agreed on.
LEMMA VotesStart == C!Init => VoteInv
<1> SUFFICES ASSUME C!Init PROVE VoteInv
  OBVIOUS
<1>1. open = <<>> /\ agreed = C!Twin /\ ballots = [k \in {} |-> 0]
  BY DEF C!Init
<1>2. C!Keys = {} /\ DOMAIN ballots = {} /\ Len(open) = 0 /\ open \in Seq(Prop)
  BY <1>1 DEF C!Keys
<1>3. C!PassedIsBacked
  BY <1>1 DEF C!PassedIsBacked, C!Twin, C!Unasked
<1> QED
  BY <1>2, <1>3, SwarmSizes DEF VoteInv, Tallied

\* What a new proposal of s leaves as it was, and what b records.
Recording(id, own, s, b) ==
  LET n == Len(open) IN
  /\ s \in Seq(Prop) /\ Len(s) = n + 1 /\ n \in Nat
  /\ s[n + 1] = [key |-> C!NewKey, id |-> id, for |-> 1,
                 against |-> 0, due |-> FALSE]
  /\ \A i \in 1 .. n : s[i] = open[i]
  /\ \A i, j \in 1 .. n + 1 : s[i].key = s[j].key => i = j
  /\ DOMAIN b = {s[i].key : i \in 1 .. n + 1}
  /\ b[C!NewKey] = IF \E i \in 1 .. n : open[i].id = id
                   THEN C!Twin ELSE [C!Unasked EXCEPT !.own = own]
  /\ \A i \in 1 .. n :
       b[open[i].key] = IF open[i].id = id THEN C!Twin ELSE ballots[open[i].key]

\* A proposal and what is recorded of it, whoever made it: one more place, a
\* key of its own, and twins where an open one has the id already.
LEMMA RecordedKeeps ==
  ASSUME VoteInv, Len(open) < MaxProposals, NEW id \in Id, NEW own \in BOOLEAN
  PROVE  Recording(id, own, C!Appended(id), C!Recorded(id, own))
<1> DEFINE n == Len(open)
           s == C!Appended(id)
           b == C!Recorded(id, own)
           e == [key |-> C!NewKey, id |-> id, for |-> 1,
                 against |-> 0, due |-> FALSE]
           first == [C!Unasked EXCEPT !.own = own]
           T == {open[i].key : i \in {j \in DOMAIN open : open[j].id = id}}
<1>1. /\ open \in Seq(Prop) /\ n \in Nat /\ DOMAIN open = 1 .. n
      /\ \A i, j \in 1 .. n : open[i].key = open[j].key => i = j
  BY DEF VoteInv, Tallied
<1>2. C!NewKey \in C!Key /\ \A i \in 1 .. n : open[i].key # C!NewKey
  BY KeyIsFree
<1>3. e \in Prop /\ e.key = C!NewKey
  BY <1>2 DEF Prop
<1>4. s = Append(open, e)
  BY DEF C!Appended
<1> HIDE DEF e
<1>5. /\ s \in Seq(Prop) /\ Len(s) = n + 1 /\ s[n + 1] = e
      /\ \A i \in 1 .. n : s[i] = open[i]
  BY <1>1, <1>3, <1>4
<1>6. \A i, j \in 1 .. n + 1 : s[i].key = s[j].key => i = j
  <2> HIDE DEF s, n
  <2>1. \A i \in 1 .. n + 1 : i \in 1 .. n \/ i = n + 1
    BY <1>1
  <2> QED
    BY <1>1, <1>2, <1>3, <1>5, <2>1
<1>7. C!Keys \cup {C!NewKey} = {s[i].key : i \in 1 .. n + 1}
  <2>1. C!Keys = {open[i].key : i \in 1 .. n}
    BY <1>1 DEF C!Keys
  <2> HIDE DEF s, n
  <2>2. 1 .. n + 1 = 1 .. n \cup {n + 1}
    BY <1>1
  <2> QED
    BY <1>3, <1>5, <2>1, <2>2
<1>8. DOMAIN b = C!Keys \cup {C!NewKey}
      /\ \A k \in C!Keys \cup {C!NewKey} :
           b[k] = IF k = C!NewKey
                  THEN IF T = {} THEN first ELSE C!Twin
                  ELSE IF k \in T THEN C!Twin ELSE ballots[k]
  <2>1. b = [k \in C!Keys \cup {C!NewKey} |->
              IF k = C!NewKey
              THEN IF T = {} THEN first ELSE C!Twin
              ELSE IF k \in T THEN C!Twin ELSE ballots[k]]
    BY DEF C!Recorded
  <2> HIDE DEF b, T, first
  <2> QED
    BY <2>1
<1> DEFINE J == {j \in DOMAIN open : open[j].id = id}
<1>9. T = {} <=> ~\E i \in 1 .. n : open[i].id = id
  <2>1. J = {} <=> ~\E i \in 1 .. n : open[i].id = id
    BY <1>1
  <2> HIDE DEF J
  <2>2. T = {} <=> J = {}
    <3>1. T = {open[i].key : i \in J}
      BY DEF J
    <3> HIDE DEF T
    <3> QED
      BY <3>1
  <2> QED
    BY <2>1, <2>2
<1>10. \A i \in 1 .. n : open[i].key \in T <=> open[i].id = id
  <2> SUFFICES ASSUME NEW i \in 1 .. n PROVE open[i].key \in T <=> i \in J
    BY <1>1
  <2>1. i \in J => open[i].key \in T
    OBVIOUS
  <2>2. ASSUME open[i].key \in T PROVE i \in J
    <3>1. PICK j \in J : open[j].key = open[i].key
      BY <2>2
    <3> QED
      BY <1>1, <3>1
  <2> QED
    BY <2>1, <2>2
<1>11. \A i \in 1 .. n : open[i].key \in C!Keys
  BY <1>1 DEF C!Keys
<1> HIDE DEF b, s, n, T
<1>12. b[C!NewKey] = IF \E i \in 1 .. n : open[i].id = id
                     THEN C!Twin ELSE [C!Unasked EXCEPT !.own = own]
  BY <1>8, <1>9
<1>13. \A i \in 1 .. n :
         b[open[i].key] = IF open[i].id = id THEN C!Twin ELSE ballots[open[i].key]
  BY <1>2, <1>8, <1>10, <1>11
<1> QED
  BY <1>1, <1>5, <1>6, <1>7, <1>8, <1>12, <1>13 DEF Recording, b, s, n, e

\* propose_consensus
LEMMA ProposedKeeps ==
  ASSUME VoteInv, Len(open) < MaxProposals, NEW id \in Id, NEW own \in BOOLEAN,
         own => id = 0
  PROVE  Tallied(C!Appended(id), C!Recorded(id, own))
<1> DEFINE n == Len(open)
           s == C!Appended(id)
           b == C!Recorded(id, own)
           first == [C!Unasked EXCEPT !.own = own]
<1>1. /\ s \in Seq(Prop) /\ Len(s) = n + 1 /\ n \in Nat
      /\ s[n + 1] = [key |-> C!NewKey, id |-> id, for |-> 1,
                     against |-> 0, due |-> FALSE]
      /\ \A i \in 1 .. n : s[i] = open[i]
      /\ \A i, j \in 1 .. n + 1 : s[i].key = s[j].key => i = j
      /\ DOMAIN b = {s[i].key : i \in 1 .. n + 1}
      /\ b[C!NewKey] = IF \E i \in 1 .. n : open[i].id = id THEN C!Twin ELSE first
      /\ \A i \in 1 .. n :
           b[open[i].key] = IF open[i].id = id THEN C!Twin ELSE ballots[open[i].key]
  <2>1. Recording(id, own, s, b)
    BY RecordedKeeps
  <2> HIDE DEF s, b
  <2> QED
    BY <2>1 DEF Recording
<1>2. /\ first \in Bal /\ C!Twin \in Bal /\ C!Twin.twin
      /\ first.yes = 0 /\ first.no = 0 /\ ~first.twin /\ first.own = own
  <2>1. C!Unasked = [yes |-> 0, no |-> 0, twin |-> FALSE, own |-> FALSE]
    BY DEF C!Unasked
  <2>2. C!Twin \in Bal /\ C!Twin.twin
    BY <2>1 DEF C!Twin, Bal
  <2>3. first \in Bal
    BY <2>1 DEF Bal
  <2>4. first.yes = 0 /\ first.no = 0 /\ ~first.twin /\ first.own = own
    BY <2>1
  <2> HIDE DEF first
  <2> QED
    BY <2>2, <2>3, <2>4
<1>3. /\ \A i \in 1 .. n : ballots[open[i].key] \in Bal
                           /\ Told(open[i], ballots[open[i].key])
      /\ \A i, j \in 1 .. n :
           i # j /\ open[i].id = open[j].id => ballots[open[i].key].twin
      /\ n <= MaxProposals /\ MaxProposals \in Nat
  BY SwarmSizes DEF VoteInv, Tallied
<1> HIDE DEF s, b, n
<1>4. \A i \in 1 .. n + 1 : i \in 1 .. n \/ i = n + 1
  BY <1>1
<1>5. Told(s[n + 1], first)
  BY <1>1, <1>2 DEF Told
<1> HIDE DEF first
<1>6. ASSUME NEW i \in 1 .. n + 1
      PROVE  b[s[i].key] \in Bal /\ Told(s[i], b[s[i].key])
  <2>1. CASE i \in 1 .. n
    <3>1. CASE open[i].id = id
      BY <1>1, <1>2, <2>1, <3>1 DEF Told
    <3>2. CASE open[i].id # id
      BY <1>1, <1>3, <2>1, <3>2
    <3> QED
      BY <3>1, <3>2
  <2>2. CASE i = n + 1
    BY <1>1, <1>2, <1>5, <2>2 DEF Told
  <2> QED
    BY <1>4, <2>1, <2>2
<1>7. ASSUME NEW i \in 1 .. n + 1, NEW j \in 1 .. n + 1, i # j, s[i].id = s[j].id
      PROVE  b[s[i].key].twin
  <2>1. CASE i \in 1 .. n /\ j \in 1 .. n
    <3>1. open[i].id = open[j].id
      BY <1>1, <1>7, <2>1
    <3>2. CASE open[i].id = id
      BY <1>1, <1>2, <2>1, <3>2
    <3>3. CASE open[i].id # id
      <4>1. b[s[i].key] = ballots[open[i].key]
        BY <1>1, <2>1, <3>3
      <4> QED
        BY <1>3, <1>7, <2>1, <3>1, <4>1
    <3> QED
      BY <3>2, <3>3
  <2>2. CASE i = n + 1 /\ j \in 1 .. n
    BY <1>1, <1>2, <1>7, <2>2
  <2>3. CASE i \in 1 .. n /\ j = n + 1
    BY <1>1, <1>2, <1>7, <2>3
  <2> QED
    BY <1>4, <1>7, <2>1, <2>2, <2>3
<1>8. n + 1 <= MaxProposals
  BY <1>1, <1>3 DEF n
<1> QED
  BY <1>1, <1>6, <1>7, <1>8 DEF Tallied, s, b

\* consensus_on_observation: the proposer's second vote is the new proposal's,
\* or that of a twin.
LEMMA ObservedKeeps ==
  ASSUME VoteInv, Len(open) < MaxProposals, NEW id \in Id, id # 0
  PROVE  LET c == C!Counted(C!Appended(id), id) IN
         Tallied([C!Appended(id) EXCEPT ![c].for = @ + 1], C!Recorded(id, TRUE))
<1> DEFINE n == Len(open)
           s == C!Appended(id)
           b == C!Recorded(id, TRUE)
           first == [C!Unasked EXCEPT !.own = TRUE]
           c == C!Counted(s, id)
           t == [s EXCEPT ![c].for = @ + 1]
<1>1. /\ s \in Seq(Prop) /\ Len(s) = n + 1 /\ n \in Nat
      /\ s[n + 1] = [key |-> C!NewKey, id |-> id, for |-> 1,
                     against |-> 0, due |-> FALSE]
      /\ \A i \in 1 .. n : s[i] = open[i]
      /\ \A i, j \in 1 .. n + 1 : s[i].key = s[j].key => i = j
      /\ DOMAIN b = {s[i].key : i \in 1 .. n + 1}
      /\ b[C!NewKey] = IF \E i \in 1 .. n : open[i].id = id THEN C!Twin ELSE first
      /\ \A i \in 1 .. n :
           b[open[i].key] = IF open[i].id = id THEN C!Twin ELSE ballots[open[i].key]
  <2>1. TRUE \in BOOLEAN
    OBVIOUS
  <2>2. Recording(id, TRUE, s, b)
    BY <2>1, RecordedKeeps
  <2> HIDE DEF s, b, c
  <2> QED
    BY <2>2 DEF Recording
<1>2. /\ first \in Bal /\ C!Twin \in Bal /\ C!Twin.twin
      /\ first.yes = 0 /\ first.no = 0 /\ ~first.twin /\ first.own = TRUE
  <2>1. C!Unasked = [yes |-> 0, no |-> 0, twin |-> FALSE, own |-> FALSE]
    BY DEF C!Unasked
  <2>2. C!Twin \in Bal /\ C!Twin.twin
    BY <2>1 DEF C!Twin, Bal
  <2>3. first \in Bal
    BY <2>1 DEF Bal
  <2>4. first.yes = 0 /\ first.no = 0 /\ ~first.twin /\ first.own = TRUE
    BY <2>1
  <2> HIDE DEF first
  <2> QED
    BY <2>2, <2>3, <2>4
<1>3. /\ \A i \in 1 .. n : ballots[open[i].key] \in Bal
                           /\ Told(open[i], ballots[open[i].key])
      /\ \A i, j \in 1 .. n :
           i # j /\ open[i].id = open[j].id => ballots[open[i].key].twin
      /\ n + 1 <= MaxProposals
  BY SwarmSizes, <1>1 DEF VoteInv, Tallied
<1>4. c \in 1 .. n + 1 /\ s[c].id = id
  <2>1. n + 1 \in 1 .. Len(s) /\ s[n + 1].id = id
    BY <1>1
  <2> HIDE DEF s
  <2> QED
    BY <1>1, <2>1, CountedIsFirst
<1> HIDE DEF s, b, n, c
<1>5. /\ t \in Seq(Prop) /\ Len(t) = n + 1
      /\ t[c].for = s[c].for + 1 /\ t[c].against = s[c].against
      /\ \A i \in 1 .. n + 1 : t[i].key = s[i].key /\ t[i].id = s[i].id
      /\ \A i \in 1 .. n + 1 : i # c => t[i] = s[i]
  <2>0. s[c] \in Prop
    BY <1>1, <1>4
  <2>1. s[c] \in Prop /\ s[c].for \in Nat
    BY <2>0 DEF Prop
  <2>2. [s[c] EXCEPT !.for = @ + 1] \in Prop
    BY <2>1 DEF Prop
  <2>3. t = [s EXCEPT ![c] = [s[c] EXCEPT !.for = @ + 1]]
    OBVIOUS
  <2>4. /\ [s[c] EXCEPT !.for = @ + 1].for = s[c].for + 1
        /\ [s[c] EXCEPT !.for = @ + 1].against = s[c].against
        /\ [s[c] EXCEPT !.for = @ + 1].key = s[c].key
        /\ [s[c] EXCEPT !.for = @ + 1].id = s[c].id
    BY <2>1 DEF Prop
  <2> HIDE DEF t
  <2>5. t \in Seq(Prop) /\ Len(t) = n + 1
    BY <1>1, <1>4, <2>2, <2>3
  <2>6. \A i \in 1 .. n + 1 :
          t[i] = IF i = c THEN [s[c] EXCEPT !.for = @ + 1] ELSE s[i]
    BY <1>1, <1>4, <2>3
  <2> QED
    BY <1>4, <2>4, <2>5, <2>6
<1> HIDE DEF t
<1>6. \A i \in 1 .. n + 1 : i \in 1 .. n \/ i = n + 1
  BY <1>1
<1>7. ASSUME NEW i \in 1 .. n + 1, NEW j \in 1 .. n + 1, i # j, s[i].id = s[j].id
      PROVE  b[s[i].key].twin
  <2> HIDE DEF first
  <2>1. CASE i \in 1 .. n /\ j \in 1 .. n
    <3>1. open[i].id = open[j].id
      BY <1>1, <1>7, <2>1
    <3>2. CASE open[i].id = id
      BY <1>1, <1>2, <2>1, <3>2
    <3>3. CASE open[i].id # id
      <4>1. b[s[i].key] = ballots[open[i].key]
        BY <1>1, <2>1, <3>3
      <4> QED
        BY <1>3, <1>7, <2>1, <3>1, <4>1
    <3> QED
      BY <3>2, <3>3
  <2>2. CASE i = n + 1 /\ j \in 1 .. n
    BY <1>1, <1>2, <1>7, <2>2
  <2>3. CASE i \in 1 .. n /\ j = n + 1
    BY <1>1, <1>2, <1>7, <2>3
  <2> QED
    BY <1>6, <1>7, <2>1, <2>2, <2>3
<1>8. ASSUME NEW i \in 1 .. n + 1 PROVE b[s[i].key] \in Bal
  <2> HIDE DEF first
  <2> QED
    BY <1>1, <1>2, <1>3, <1>6
<1>9. ASSUME NEW i \in 1 .. n + 1 PROVE Told(t[i], b[s[i].key])
  <2>1. CASE b[s[i].key].twin
    BY <2>1 DEF Told
  <2>2. CASE i # c /\ ~b[s[i].key].twin
    <3>1. i \in 1 .. n
      <4>1. CASE i = n + 1
        BY <1>1, <1>4, <1>7, <2>2, <4>1
      <4> QED
        BY <1>6, <4>1
    <3> HIDE DEF first
    <3>2. b[s[i].key] = ballots[open[i].key]
      BY <1>1, <1>2, <2>2, <3>1
    <3> QED
      BY <1>1, <1>3, <1>5, <2>2, <3>1, <3>2
  <2>3. CASE i = c /\ ~b[s[i].key].twin
    <3>1. i = n + 1
      BY <1>1, <1>4, <1>6, <1>7, <2>3
    <3>2. b[s[i].key] = first
      <4> HIDE DEF first
      <4> QED
        BY <1>1, <1>2, <2>3, <3>1
    <3>3. t[i].for = 2 /\ t[i].against = 0 /\ t[i].id = id
      BY <1>1, <1>4, <1>5, <2>3, <3>1
    <3> QED
      BY <1>2, <3>2, <3>3 DEF Told
  <2> QED
    BY <2>1, <2>2, <2>3
<1>10. Tallied(t, b)
  <2> HIDE DEF first
  <2>1. DOMAIN b = {t[i].key : i \in 1 .. n + 1}
    <3>1. {s[i].key : i \in 1 .. n + 1} = {t[i].key : i \in 1 .. n + 1}
      BY <1>5
    <3> QED
      BY <1>1, <3>1
  <2>2. \A i, j \in 1 .. n + 1 : t[i].key = t[j].key => i = j
    BY <1>1, <1>5
  <2>3. \A i \in 1 .. n + 1 : b[t[i].key] \in Bal /\ Told(t[i], b[t[i].key])
    BY <1>5, <1>8, <1>9
  <2>4. \A i, j \in 1 .. n + 1 : i # j /\ t[i].id = t[j].id => b[t[i].key].twin
    BY <1>5, <1>7
  <2> QED
    BY <1>3, <1>5, <2>1, <2>2, <2>3, <2>4 DEF Tallied
<1> QED
  BY <1>10 DEF t, s, b, c

\* cast_vote: the ballot meant for the i-th proposal is counted for the first
\* with its id, which is the same unless both are twins.
LEMMA VoteKeeps == VoteInv /\ C!Vote => Tallied(open', ballots')
<1> SUFFICES ASSUME VoteInv, C!Vote PROVE Tallied(open', ballots')
  OBVIOUS
<1> DEFINE n == Len(open)
<1>1. /\ open \in Seq(Prop) /\ n \in Nat /\ DOMAIN open = 1 .. n /\ n <= MaxProposals
      /\ \A i, j \in 1 .. n : open[i].key = open[j].key => i = j
      /\ DOMAIN ballots = {open[i].key : i \in 1 .. n}
      /\ \A i \in 1 .. n : ballots[open[i].key] \in Bal
                           /\ Told(open[i], ballots[open[i].key])
      /\ \A i, j \in 1 .. n :
           i # j /\ open[i].id = open[j].id => ballots[open[i].key].twin
  BY DEF VoteInv, Tallied
<1>2. PICK i \in 1 .. n, yes \in BOOLEAN :
        LET k == open[i].key
            c == C!Counted(open, open[i].id)
        IN IF yes
           THEN /\ open' = [open EXCEPT ![c].for = @ + 1]
                /\ ballots' = [ballots EXCEPT ![k] = C!Meaning(@, 1, 0)]
           ELSE /\ open' = [open EXCEPT ![c].against = @ + 1]
                /\ ballots' = [ballots EXCEPT ![k] = C!Meaning(@, 0, 1)]
  BY <1>1 DEF C!Vote
<1> DEFINE k == open[i].key
           c == C!Counted(open, open[i].id)
           y == IF yes THEN 1 ELSE 0
           b == C!Meaning(ballots[k], y, 1 - y)
<1>3. c \in 1 .. n /\ open[c].id = open[i].id
  BY <1>1, CountedIsFirst
<1>4. open[c] \in Prop
  BY <1>1, <1>3
<1>5. y \in 0 .. 1
  OBVIOUS
<1>6. /\ yes => y = 1 /\ open' = [open EXCEPT ![c].for = @ + 1]
      /\ ~yes => y = 0 /\ open' = [open EXCEPT ![c].against = @ + 1]
      /\ ballots' = [ballots EXCEPT ![k] = b]
  BY <1>2
<1> HIDE DEF c, y, b, k
<1>7. PICK p \in Prop :
        /\ p.key = open[c].key /\ p.id = open[c].id
        /\ p.for = open[c].for + y /\ p.against = open[c].against + (1 - y)
        /\ open' = [open EXCEPT ![c] = p]
  <2>1. open[c].for \in Nat /\ open[c].against \in Nat
    BY <1>4 DEF Prop
  <2>2. CASE yes
    <3> DEFINE q == [open[c] EXCEPT !.for = @ + 1]
    <3>1. /\ q \in Prop /\ q.key = open[c].key /\ q.id = open[c].id
          /\ q.for = open[c].for + 1 /\ q.against = open[c].against
      BY <1>4, <2>1 DEF Prop
    <3>2. open' = [open EXCEPT ![c] = q] /\ y = 1
      BY <1>6, <2>2
    <3> HIDE DEF q
    <3>3. q.for = open[c].for + y /\ q.against = open[c].against + (1 - y)
      BY <2>1, <3>1, <3>2
    <3> QED
      BY <3>1, <3>2, <3>3
  <2>3. CASE ~yes
    <3> DEFINE q == [open[c] EXCEPT !.against = @ + 1]
    <3>1. /\ q \in Prop /\ q.key = open[c].key /\ q.id = open[c].id
          /\ q.for = open[c].for /\ q.against = open[c].against + 1
      BY <1>4, <2>1 DEF Prop
    <3>2. open' = [open EXCEPT ![c] = q] /\ y = 0
      BY <1>6, <2>3
    <3> HIDE DEF q
    <3>3. q.for = open[c].for + y /\ q.against = open[c].against + (1 - y)
      BY <2>1, <3>1, <3>2
    <3> QED
      BY <3>1, <3>2, <3>3
  <2> QED
    BY <2>2, <2>3
<1>8. /\ b \in Bal /\ b.twin = ballots[k].twin /\ b.own = ballots[k].own
      /\ ~b.twin => b.yes = ballots[k].yes + y /\ b.no = ballots[k].no + (1 - y)
  <2>1. ballots[k] \in Bal
    BY <1>1 DEF k
  <2>2. ballots[k].yes + y \in Nat /\ ballots[k].no + (1 - y) \in Nat
    BY <1>5, <2>1 DEF Bal
  <2>3. CASE ballots[k].twin
    BY <2>1, <2>3 DEF C!Meaning, b
  <2>4. CASE ~ballots[k].twin
    BY <2>1, <2>2, <2>4 DEF C!Meaning, Bal, b
  <2> QED
    BY <2>3, <2>4
<1> HIDE DEF n
<1>9. /\ open' \in Seq(Prop) /\ Len(open') = n
      /\ \A j \in 1 .. n : open'[j] = IF j = c THEN p ELSE open[j]
  BY <1>1, <1>3, <1>7 DEF n
<1>10. \A j \in 1 .. n : open'[j].key = open[j].key /\ open'[j].id = open[j].id
  BY <1>3, <1>7, <1>9
<1>11. /\ k = open[i].key /\ DOMAIN ballots' = DOMAIN ballots
       /\ \A j \in 1 .. n :
            ballots'[open[j].key] = IF j = i THEN b ELSE ballots[open[j].key]
  <2>1. k = open[i].key /\ k \in DOMAIN ballots
    BY <1>1 DEF k
  <2>2. \A j \in 1 .. n : open[j].key \in DOMAIN ballots /\ (open[j].key = k <=> j = i)
    BY <1>1, <2>1
  <2> QED
    BY <1>6, <2>1, <2>2
<1>12. ASSUME NEW j \in 1 .. n
       PROVE  ballots'[open[j].key] \in Bal
              /\ ballots'[open[j].key].twin = ballots[open[j].key].twin
  BY <1>1, <1>8, <1>11
<1>13. ASSUME NEW j \in 1 .. n, ~ballots[open[j].key].twin
       PROVE  Told(open'[j], ballots'[open[j].key])
  <2>1. j = c <=> j = i
    BY <1>1, <1>3, <1>13
  <2>2. CASE j # i
    BY <1>1, <1>9, <1>11, <2>1, <2>2
  <2>3. CASE j = i
    <3>1. /\ open[j].against = ballots[k].no
          /\ open[j].for = 1 + ballots[k].yes
                 + (IF ballots[k].own /\ open[j].id # 0 THEN 1 ELSE 0)
      BY <1>1, <1>11, <1>13, <2>3 DEF Told
    <3>2. /\ open'[j].against = open[j].against + (1 - y)
          /\ open'[j].for = open[j].for + y /\ open'[j].id = open[j].id
          /\ ballots'[open[j].key] = b
      BY <1>7, <1>9, <1>11, <2>1, <2>3
    <3>3. /\ b.yes = ballots[k].yes + y /\ b.no = ballots[k].no + (1 - y)
          /\ b.own = ballots[k].own
      BY <1>8, <1>11, <1>13, <2>3
    <3>4. ballots[k].yes \in Nat /\ ballots[k].no \in Nat
      BY <1>1, <1>11 DEF Bal
    <3> QED
      BY <1>5, <3>1, <3>2, <3>3, <3>4 DEF Told
  <2> QED
    BY <2>2, <2>3
<1>14. ASSUME NEW j \in 1 .. n PROVE Told(open'[j], ballots'[open[j].key])
  <2>1. CASE ballots[open[j].key].twin
    BY <1>12, <2>1 DEF Told
  <2> QED
    BY <1>13, <2>1
<1>15. DOMAIN ballots' = {open'[j].key : j \in 1 .. n}
  <2>1. {open[j].key : j \in 1 .. n} = {open'[j].key : j \in 1 .. n}
    BY <1>10
  <2> QED
    BY <1>1, <1>11, <2>1
<1>16. \A j, l \in 1 .. n :
         j # l /\ open'[j].id = open'[l].id => ballots'[open'[j].key].twin
  BY <1>1, <1>10, <1>12
<1> QED
  BY <1>1, <1>9, <1>10, <1>12, <1>14, <1>15, <1>16 DEF Tallied

\* prune_finalised_proposals: every undecided proposal keeps what it has.
LEMMA FinaliseKeeps == VoteInv /\ C!Finalise => Tallied(open', ballots')
<1> SUFFICES ASSUME VoteInv, C!Finalise PROVE Tallied(open', ballots')
  OBVIOUS
<1> DEFINE n == Len(open)
           U == C!Undecided
           m == Cardinality(U)
<1>1. /\ open \in Seq(Prop) /\ n \in Nat /\ DOMAIN open = 1 .. n /\ n <= MaxProposals
      /\ \A i, j \in 1 .. n : open[i].key = open[j].key => i = j
      /\ DOMAIN ballots = {open[i].key : i \in 1 .. n}
      /\ \A i \in 1 .. n : ballots[open[i].key] \in Bal
                           /\ Told(open[i], ballots[open[i].key])
      /\ \A i, j \in 1 .. n :
           i # j /\ open[i].id = open[j].id => ballots[open[i].key].twin
  BY DEF VoteInv, Tallied
<1>2. U \in SUBSET (1 .. n)
  BY <1>1 DEF C!Undecided
<1>3. PICK f \in [1 .. m -> U] :
        /\ \A i, j \in 1 .. m : i < j => f[i] < f[j]
        /\ open' = [i \in 1 .. m |-> open[f[i]]]
        /\ ballots' = [k \in {open[i].key : i \in U} |-> ballots[k]]
  BY VoteSize DEF C!Finalise, C!Pruned
<1>4. IsFiniteSet(U) /\ m \in Nat /\ m <= n
  <2>1. IsFiniteSet(1 .. n) /\ Cardinality(1 .. n) = n
    <3>1. 1 \in Int /\ n \in Int
      BY <1>1
    <3> HIDE DEF n
    <3> QED
      BY <1>1, <3>1, FS_Interval
  <2> HIDE DEF n, U
  <2>2. IsFiniteSet(U) /\ Cardinality(U) <= Cardinality(1 .. n)
    BY <1>2, <2>1, FS_Subset
  <2>3. Cardinality(U) \in Nat
    BY <2>2, FS_CardinalityType
  <2> QED
    BY <2>1, <2>2, <2>3 DEF m
<1> HIDE DEF n, U, m
<1>5. \A i, j \in 1 .. m : f[i] = f[j] => i = j
  <2> SUFFICES ASSUME NEW i \in 1 .. m, NEW j \in 1 .. m, f[i] = f[j], i # j
               PROVE  FALSE
    OBVIOUS
  <2>1. f[i] \in Int /\ f[j] \in Int
    <3>1. f[i] \in U /\ f[j] \in U
      OBVIOUS
    <3>2. \A x \in U : x \in Int
      BY <1>2
    <3> QED
      BY <3>1, <3>2
  <2>2. i < j \/ j < i
    BY <1>4
  <2> QED
    BY <1>3, <2>1, <2>2
<1>6. \A u \in U : \E i \in 1 .. m : f[i] = u
  <2> DEFINE R == {f[i] : i \in 1 .. m}
  <2>1. R \subseteq U
    OBVIOUS
  <2>2. IsFiniteSet(1 .. m) /\ Cardinality(1 .. m) = m
    <3>1. 1 \in Int /\ m \in Int
      BY <1>4
    <3> QED
      BY <1>4, <3>1, FS_Interval
  <2>3. f \in Bijection(1 .. m, R)
    <3>1. f \in [1 .. m -> R] /\ \A r \in R : \E i \in 1 .. m : f[i] = r
      OBVIOUS
    <3> HIDE DEF R
    <3> QED
      BY <1>5, <3>1 DEF Bijection, Injection, IsInjective, Surjection
  <2> HIDE DEF R
  <2>4. IsFiniteSet(R) /\ Cardinality(R) = m
    BY <2>2, <2>3, FS_Bijection DEF ExistsBijection
  <2>5. R = U
    BY <1>4, <2>1, <2>4, FS_Subset DEF m
  <2> QED
    BY <2>5 DEF R
<1>7. /\ open' \in Seq(Prop) /\ Len(open') = m
      /\ \A i \in 1 .. m : f[i] \in 1 .. n /\ f[i] \in U /\ open'[i] = open[f[i]]
  <2>1. \A i \in 1 .. m : f[i] \in 1 .. n /\ f[i] \in U
    BY <1>2, <1>3
  <2>2. \A i \in 1 .. m : open[f[i]] \in Prop
    BY <1>1, <2>1 DEF n
  <2>3. open' \in [1 .. m -> Prop]
    BY <1>3, <2>2
  <2> QED
    BY <1>3, <1>4, <2>1, <2>3
<1>8. DOMAIN ballots' = {open'[i].key : i \in 1 .. m}
  <2>1. \A u \in U : \E i \in 1 .. m : open'[i].key = open[u].key
    BY <1>6, <1>7
  <2>2. \A i \in 1 .. m : open'[i].key = open[f[i]].key /\ f[i] \in U
    BY <1>7
  <2> QED
    BY <1>3, <2>1, <2>2
<1>9. \A i \in 1 .. m : ballots'[open'[i].key] = ballots[open[f[i]].key]
  <2> SUFFICES ASSUME NEW i \in 1 .. m
               PROVE  ballots'[open'[i].key] = ballots[open[f[i]].key]
    OBVIOUS
  <2>1. open'[i].key = open[f[i]].key /\ open[f[i]].key \in {open[u].key : u \in U}
    BY <1>7
  <2> QED
    BY <1>3, <2>1
<1>10. \A i \in 1 .. m : ballots'[open'[i].key] \in Bal
                         /\ Told(open'[i], ballots'[open'[i].key])
  <2> SUFFICES ASSUME NEW i \in 1 .. m
               PROVE  ballots'[open'[i].key] \in Bal
                      /\ Told(open'[i], ballots'[open'[i].key])
    OBVIOUS
  <2>1. ballots[open[f[i]].key] \in Bal /\ Told(open[f[i]], ballots[open[f[i]].key])
    BY <1>1, <1>7
  <2> QED
    BY <1>7, <1>9, <2>1
<1>11. \A i, j \in 1 .. m :
         i # j /\ open'[i].id = open'[j].id => ballots'[open'[i].key].twin
  <2> SUFFICES ASSUME NEW i \in 1 .. m, NEW j \in 1 .. m, i # j,
                      open'[i].id = open'[j].id
               PROVE  ballots'[open'[i].key].twin
    OBVIOUS
  <2>1. f[i] # f[j] /\ open[f[i]].id = open[f[j]].id
        /\ f[i] \in 1 .. n /\ f[j] \in 1 .. n
    BY <1>5, <1>7
  <2> QED
    BY <1>1, <1>9, <2>1
<1>12. \A i, j \in 1 .. m : open'[i].key = open'[j].key => i = j
  <2> SUFFICES ASSUME NEW i \in 1 .. m, NEW j \in 1 .. m,
                      open'[i].key = open'[j].key
               PROVE  i = j
    OBVIOUS
  <2>1. open[f[i]].key = open[f[j]].key /\ f[i] \in 1 .. n /\ f[j] \in 1 .. n
    BY <1>7
  <2> QED
    BY <1>1, <1>5, <2>1
<1>13. m <= MaxProposals
  BY <1>1, <1>4, SwarmSizes
<1> QED
  BY <1>7, <1>8, <1>10, <1>11, <1>12, <1>13 DEF Tallied

\* finalise_consensus: of a proposal's counts that pass, at least one vote for
\* it is another node's, unless the node had two.
LEMMA AgreementKeeps == VoteInv /\ C!Finalise => C!PassedIsBacked'
<1> SUFFICES ASSUME VoteInv, C!Finalise PROVE C!PassedIsBacked'
  OBVIOUS
<1> DEFINE P == {i \in DOMAIN open : open[i].due /\ C!Passes(open[i])}
<1>1. agreed' = IF P = {} THEN agreed ELSE ballots[open[C!Max(P)].key]
  BY DEF C!Finalise
<1>2. CASE P = {}
  BY <1>1, <1>2 DEF VoteInv, C!PassedIsBacked
<1>3. CASE P # {}
  <2> DEFINE i == C!Max(P)
  <2>1. open \in Seq(Prop) /\ Len(open) \in Nat /\ P \in SUBSET (1 .. Len(open))
    BY DEF VoteInv, Tallied
  <2>2. i \in P
    <3> HIDE DEF P
    <3> QED
      BY <1>3, <2>1, Greatest
  <2> HIDE DEF i
  <2>3. /\ agreed' = ballots[open[i].key] /\ C!Passes(open[i])
        /\ agreed' \in Bal /\ Told(open[i], agreed')
    BY <1>1, <1>3, <2>1, <2>2 DEF i, VoteInv, Tallied
  <2>4. ASSUME ~agreed'.twin, ~agreed'.own
        PROVE  agreed'.yes >= 1 /\ agreed'.yes >= agreed'.no
    <3>1. /\ open[i].against = agreed'.no /\ open[i].for = 1 + agreed'.yes
          /\ agreed'.no \in Nat /\ agreed'.yes \in Nat
      BY <2>3, <2>4 DEF Told, Bal
    <3>2. open[i].for + open[i].against >= Quorum /\ open[i].for > open[i].against
      BY <2>3 DEF C!Passes
    <3> QED
      BY <3>1, <3>2, SwarmSizes
  <2> QED
    BY <2>4 DEF C!PassedIsBacked
<1> QED
  BY <1>2, <1>3

\* Every call of the application.
LEMMA VotesKeep == VoteInv /\ C!Next => VoteInv'
<1> SUFFICES ASSUME VoteInv, C!Next PROVE VoteInv'
  OBVIOUS
<1>1. ASSUME Tallied(open', ballots') PROVE Tallied(open, ballots)'
  BY <1>1 DEF Tallied, Told
<1>2. ASSUME C!Proposed PROVE Tallied(open', ballots')
  <2>1. /\ Len(open) < MaxProposals
        /\ \E id \in Id : open' = C!Appended(id) /\ ballots' = C!Recorded(id, FALSE)
    BY <1>2 DEF C!Proposed
  <2>2. FALSE \in BOOLEAN
    OBVIOUS
  <2> QED
    BY <2>1, <2>2, ProposedKeeps
<1>3. ASSUME UNCHANGED <<open, ballots>> PROVE Tallied(open', ballots')
  BY <1>3 DEF VoteInv
<1>4. ASSUME UNCHANGED agreed PROVE C!PassedIsBacked'
  BY <1>4 DEF VoteInv, C!PassedIsBacked
<1>5. CASE C!Propose
  BY <1>1, <1>2, <1>4, <1>5 DEF C!Propose, VoteInv
<1>6. CASE C!ProposeObserved
  <2>1. PICK id \in Id :
          /\ Len(open) < MaxProposals /\ ballots' = C!Recorded(id, TRUE)
          /\ IF id = 0 THEN open' = C!Appended(id)
             ELSE open' = [C!Appended(id)
                             EXCEPT ![C!Counted(C!Appended(id), id)].for = @ + 1]
    BY <1>6 DEF C!ProposeObserved
  <2>2. Tallied(open', ballots')
    <3>1. CASE id = 0
      <4>1. TRUE \in BOOLEAN
        OBVIOUS
      <4> QED
        BY <2>1, <3>1, <4>1, ProposedKeeps
    <3>2. CASE id # 0
      BY <2>1, <3>2, ObservedKeeps
    <3> QED
      BY <3>1, <3>2
  <2> QED
    BY <1>1, <1>4, <1>6, <2>2 DEF C!ProposeObserved, VoteInv
<1>7. CASE C!Aggregate
  BY <1>1, <1>2, <1>3, <1>4, <1>7 DEF C!Aggregate, VoteInv
<1>8. CASE C!Observe
  BY <1>1, <1>3, <1>4, <1>8 DEF C!Observe, VoteInv
<1>9. CASE C!Vote
  BY <1>1, <1>4, <1>9, VoteKeeps DEF C!Vote, VoteInv
<1>10. CASE C!Deadline
  <2>1. PICK i \in DOMAIN open : open' = [open EXCEPT ![i].due = TRUE]
    BY <1>10 DEF C!Deadline
  <2>0. Tallied(open, ballots) /\ open \in Seq(Prop)
    BY DEF VoteInv, Tallied
  <2>2. Tallied(open, ballots) /\ open \in Seq(Prop) /\ i \in 1 .. Len(open)
    BY <2>0, <2>1
  <2>3. open[i] \in Prop
    BY <2>2
  <2> DEFINE p == [open[i] EXCEPT !.due = TRUE]
  <2>4. /\ p \in Prop /\ p.key = open[i].key /\ p.id = open[i].id
        /\ p.for = open[i].for /\ p.against = open[i].against
    BY <2>3 DEF Prop
  <2>5. open' = [open EXCEPT ![i] = p]
    BY <2>1
  <2> HIDE DEF p
  <2>6. /\ open' \in Seq(Prop) /\ Len(open') = Len(open)
        /\ \A j \in 1 .. Len(open) :
             /\ open'[j].key = open[j].key /\ open'[j].id = open[j].id
             /\ open'[j].for = open[j].for /\ open'[j].against = open[j].against
    BY <2>2, <2>4, <2>5
  <2>7. ballots' = ballots
    BY <1>10 DEF C!Deadline
  <2>8. {open'[j].key : j \in 1 .. Len(open)} = {open[j].key : j \in 1 .. Len(open)}
    BY <2>6
  <2>9. \A j \in 1 .. Len(open) : \A x : Told(open[j], x) => Told(open'[j], x)
    BY <2>6 DEF Told
  <2>10. Tallied(open', ballots')
    BY <2>2, <2>6, <2>7, <2>8, <2>9 DEF Tallied
  <2> QED
    BY <1>1, <1>4, <1>10, <2>10 DEF C!Deadline, VoteInv
<1>11. CASE C!Finalise
  BY <1>1, <1>11, FinaliseKeeps, AgreementKeeps DEF VoteInv
<1> QED
  BY <1>5, <1>6, <1>7, <1>8, <1>9, <1>10, <1>11 DEF C!Next

\* For every table of proposals, ids and quorum of at least two: ballots are
\* counted for the proposal they were meant for, and what passes was backed by
\* another node (cast_vote, finalise_consensus).
THEOREM BallotsCount == SwarmSpec => []VotesAreHonest
<1>1. SwarmInit => VoteInv
  BY VotesStart DEF SwarmInit
<1>2. VoteInv /\ [SwarmNext]_swarmVars => VoteInv'
  <2>1. VoteInv /\ UNCHANGED consensus => VoteInv'
    BY DEF consensus, VoteInv, Tallied, Told, C!PassedIsBacked
  <2> QED
    BY <2>1, VotesKeep DEF SwarmNext, Meshing, Gossiping, swarmVars, consensus
<1> QED
  BY <1>1, <1>2, VotesFollow, PTL DEF SwarmSpec
-----------------------------------------------------------------------------
(* Federation                                                              *)

\* The assumptions on the federation, one by one.
LEMMA FederationSizes ==
  /\ Places \in Nat \ {0} /\ Levels \in Nat \ {0} /\ Steps \in Nat
  /\ Top \in Nat /\ MaxAggregates \in Nat /\ Sent \subseteq -Top .. Top
BY SwarmAssumption

\* What holds at zero and is handed on holds up to n.
LEMMA Upwards ==
  ASSUME NEW n \in Nat, NEW S \in SUBSET Nat,
         0 \in S, \A k \in 1 .. n : k - 1 \in S => k \in S
  PROVE  \A k \in 0 .. n : k \in S
<1> DEFINE Bad == {k \in 0 .. n : k \notin S}
<1> SUFFICES ASSUME Bad # {} PROVE FALSE
  OBVIOUS
<1>1. Bad \in SUBSET Nat
  OBVIOUS
<1> HIDE DEF Bad
<1>2. PICK e \in Bad : \A f \in Bad : e <= f
  BY <1>1, Least
<1> USE DEF Bad
<1>3. e \in 1 .. n /\ e - 1 \in 0 .. n
  BY <1>2
<1>4. e - 1 \in S
  BY <1>2, <1>3
<1> QED
  BY <1>2, <1>3, <1>4

\* s adds up the first n places of f.
AddsUp(f, n, s) ==
  /\ s \in [0 .. n -> Int] /\ s[0] = 0
  /\ \A k \in 1 .. n : s[k] = s[k - 1] + f[k - 1]

\* Sums exist, one place after the other.
LEMMA SumsExist ==
  ASSUME NEW n \in Nat, NEW f, \A i \in 0 .. n - 1 : f[i] \in Int
  PROVE  \E s : AddsUp(f, n, s)
<1> DEFINE S == {m \in Nat : m <= n => \E s : AddsUp(f, m, s)}
<1>1. 0 \in S
  <2>1. AddsUp(f, 0, [k \in 0 .. 0 |-> 0])
    BY DEF AddsUp
  <2> QED
    BY <2>1
<1>2. ASSUME NEW k \in 1 .. n, k - 1 \in S PROVE k \in S
  <2>1. PICK m \in Nat : m = k - 1 /\ k = m + 1 /\ m \in 0 .. n - 1
    OBVIOUS
  <2>2. PICK s : AddsUp(f, m, s)
    BY <1>2, <2>1
  <2>3. s \in [0 .. m -> Int] /\ s[0] = 0 /\ \A j \in 1 .. m : s[j] = s[j - 1] + f[j - 1]
    BY <2>2 DEF AddsUp
  <2>4. f[m] \in Int /\ m \in 0 .. m
    BY <2>1
  <2> DEFINE t == [j \in 0 .. m + 1 |-> IF j = m + 1 THEN s[m] + f[m] ELSE s[j]]
  <2>5. \A j \in 0 .. m + 1 : j # m + 1 => j \in 0 .. m
    BY <2>1
  <2>6. t \in [0 .. m + 1 -> Int]
    BY <2>3, <2>4, <2>5
  <2>7. t[0] = 0
    BY <2>1, <2>3
  <2>8. \A j \in 1 .. m + 1 : t[j] = t[j - 1] + f[j - 1]
    <3> TAKE j \in 1 .. m + 1
    <3>1. CASE j = m + 1
      BY <2>1, <3>1
    <3>2. CASE j # m + 1
      <4>1. j \in 1 .. m /\ j \in 0 .. m + 1 /\ j - 1 \in 0 .. m + 1 /\ j - 1 # m + 1
        BY <2>1, <3>2
      <4> QED
        BY <2>3, <3>2, <4>1
    <3> QED
      BY <3>1, <3>2
  <2> HIDE DEF t
  <2>9. AddsUp(f, m + 1, t)
    BY <2>6, <2>7, <2>8 DEF AddsUp
  <2> QED
    BY <2>1, <2>9
<1>3. S \in SUBSET Nat
  OBVIOUS
<1> HIDE DEF S
<1>4. n \in S
  <2>1. \A k \in 0 .. n : k \in S
    BY <1>1, <1>2, <1>3, Upwards
  <2> QED
    BY <2>1
<1> USE DEF S
<1> QED
  BY <1>4

\* The sum of the model is such a sum.
LEMMA SumAddsUp ==
  ASSUME NEW n \in Nat, NEW f, \A i \in 0 .. n - 1 : f[i] \in Int
  PROVE  \E s : AddsUp(f, n, s) /\ F!Sum(f, n) = s[n]
<1> DEFINE w == CHOOSE u : u = [k \in 0 .. n |-> IF k = 0 THEN 0 ELSE u[k - 1] + f[k - 1]]
<1>1. F!Sum(f, n) = w[n]
  BY DEF F!Sum
<1>2. PICK s : AddsUp(f, n, s)
  BY SumsExist
<1>3. /\ s \in [0 .. n -> Int] /\ s[0] = 0
      /\ \A k \in 1 .. n : s[k] = s[k - 1] + f[k - 1]
  BY <1>2 DEF AddsUp
<1>4. s = [k \in 0 .. n |-> IF k = 0 THEN 0 ELSE s[k - 1] + f[k - 1]]
  <2>1. \A k \in 0 .. n : s[k] = IF k = 0 THEN 0 ELSE s[k - 1] + f[k - 1]
    BY <1>3
  <2> QED
    BY <1>3, <2>1
<1>5. w = [k \in 0 .. n |-> IF k = 0 THEN 0 ELSE w[k - 1] + f[k - 1]]
  BY <1>4
<1> HIDE DEF w
<1>6. w[0] = 0 /\ \A k \in 1 .. n : w[k] = w[k - 1] + f[k - 1]
  BY <1>5
<1>7. w \in [0 .. n -> Int]
  <2> DEFINE T == {k \in Nat : k <= n => w[k] \in Int}
  <2>1. 0 \in T
    BY <1>6
  <2>2. ASSUME NEW k \in 1 .. n, k - 1 \in T PROVE k \in T
    <3>1. w[k - 1] \in Int /\ f[k - 1] \in Int
      BY <2>2
    <3> QED
      BY <1>6, <3>1
  <2>3. T \in SUBSET Nat
    OBVIOUS
  <2> HIDE DEF T
  <2>4. \A k \in 0 .. n : k \in T
    BY <2>1, <2>2, <2>3, Upwards
  <2>5. \A k \in 0 .. n : w[k] \in Int
    BY <2>4 DEF T
  <2>6. w = [k \in 0 .. n |-> w[k]]
    BY <1>5
  <2> QED
    BY <2>5, <2>6
<1> QED
  BY <1>1, <1>6, <1>7 DEF AddsUp

\* Dividing towards zero stays between whole bounds.
LEMMA QuotientIsBetween ==
  ASSUME NEW a \in Int, NEW b \in Nat, b > 0, NEW lo \in Int, NEW hi \in Int,
         lo * b <= a, a <= hi * b
  PROVE  F!Quotient(a, b) \in lo .. hi
<1>1. ASSUME NEW x \in Nat, NEW l \in Int, NEW h \in Int, l * b <= x, x <= h * b
      PROVE  x \div b \in l .. h
  <2> DEFINE q == x \div b
  <2>1. q \in Int /\ b * q <= x /\ x < b * q + b
    OBVIOUS
  <2> HIDE DEF q
  <2>2. l <= q
    <3> SUFFICES ASSUME q + 1 <= l PROVE FALSE
      BY <2>1
    <3>1. b * (q + 1) <= b * l
      BY <2>1
    <3>2. b * (q + 1) = b * q + b /\ b * l = l * b
      BY <2>1
    <3> QED
      BY <1>1, <2>1, <3>1, <3>2
  <2>3. q <= h
    <3> SUFFICES ASSUME h + 1 <= q PROVE FALSE
      BY <2>1
    <3>1. b * (h + 1) <= b * q
      BY <2>1
    <3>2. b * (h + 1) = b * h + b /\ b * h = h * b
      OBVIOUS
    <3> QED
      BY <1>1, <2>1, <3>1, <3>2
  <2> QED
    BY <2>1, <2>2, <2>3 DEF q
<1>2. CASE a >= 0
  <2>1. a \in Nat
    BY <1>2
  <2>2. a \div b \in lo .. hi
    BY <1>1, <2>1
  <2> QED
    BY <1>2, <2>2 DEF F!Quotient
<1>3. CASE a < 0
  <2>1. -a \in Nat /\ (-hi) * b = -(hi * b) /\ (-lo) * b = -(lo * b)
    BY <1>3
  <2>2. (-hi) * b <= -a /\ -a <= (-lo) * b
    BY <2>1
  <2>3. -hi \in Int /\ -lo \in Int
    OBVIOUS
  <2>4. (-a) \div b \in -hi .. -lo
    BY <1>1, <2>1, <2>2, <2>3
  <2> QED
    BY <1>3, <2>4 DEF F!Quotient
<1> QED
  BY <1>2, <1>3

\* A mean lies between the bounds of the weights that count
\* (federated_average, hierarchical_average, merge_level_aggregates).
LEMMA MeanIsBetween ==
  ASSUME NEW n \in Nat, NEW w, NEW r, NEW lo \in Int, NEW hi \in Int,
         \A i \in 0 .. n - 1 : w[i] \in Int /\ r[i] \in Nat,
         \A i \in 0 .. n - 1 : r[i] # 0 => w[i] \in lo .. hi,
         F!Sum(r, n) # 0
  PROVE  F!Mean(w, r, n) \in lo .. hi
<1> DEFINE wr == [i \in 0 .. n - 1 |-> w[i] * r[i]]
<1>1. \A i \in 0 .. n - 1 : wr[i] = w[i] * r[i] /\ wr[i] \in Int
  OBVIOUS
<1>2. F!Mean(w, r, n) = F!Quotient(F!Sum(wr, n), F!Sum(r, n))
  BY DEF F!Mean
<1> HIDE DEF wr
<1>3. PICK s : AddsUp(r, n, s) /\ F!Sum(r, n) = s[n]
  <2>1. \A i \in 0 .. n - 1 : r[i] \in Int
    OBVIOUS
  <2> QED
    BY <2>1, SumAddsUp
<1>4. PICK t : AddsUp(wr, n, t) /\ F!Sum(wr, n) = t[n]
  BY <1>1, SumAddsUp
<1> DEFINE T == {k \in Nat : k <= n => s[k] \in Nat /\ lo * s[k] <= t[k] /\ t[k] <= hi * s[k]}
<1>5. 0 \in T
  BY <1>3, <1>4 DEF AddsUp
<1>6. ASSUME NEW k \in 1 .. n, k - 1 \in T PROVE k \in T
  <2>1. k - 1 \in 0 .. n - 1 /\ k - 1 \in 0 .. n
    OBVIOUS
  <2>2. PICK a \in Int, b \in Nat, x \in Int, y \in Nat :
          /\ a = t[k - 1] /\ b = s[k - 1] /\ x = w[k - 1] /\ y = r[k - 1]
    <3>1. t[k - 1] \in Int
      BY <1>4, <2>1 DEF AddsUp
    <3>2. s[k - 1] \in Nat
      BY <1>6
    <3> QED
      BY <2>1, <3>1, <3>2
  <2>3. t[k] = a + x * y /\ s[k] = b + y
    BY <1>1, <1>3, <1>4, <2>1, <2>2 DEF AddsUp
  <2>4. lo * b <= a /\ a <= hi * b
    BY <1>6, <2>2
  <2>5. lo * y <= x * y /\ x * y <= hi * y
    <3>1. CASE y = 0
      BY <3>1
    <3>2. CASE y # 0
      <4>1. lo <= x /\ x <= hi
        BY <2>1, <2>2, <3>2
      <4> QED
        BY <4>1
    <3> QED
      BY <3>1, <3>2
  <2>6. lo * (b + y) = lo * b + lo * y /\ hi * (b + y) = hi * b + hi * y
    OBVIOUS
  <2>7. /\ lo * b \in Int /\ lo * y \in Int /\ hi * b \in Int /\ hi * y \in Int
        /\ x * y \in Int
    OBVIOUS
  <2>8. lo * (b + y) <= a + x * y /\ a + x * y <= hi * (b + y)
    BY <2>4, <2>5, <2>6, <2>7
  <2> QED
    BY <2>3, <2>8
<1>7. T \in SUBSET Nat
  OBVIOUS
<1> HIDE DEF T
<1>8. n \in T
  <2>1. \A k \in 0 .. n : k \in T
    BY <1>5, <1>6, <1>7, Upwards
  <2> QED
    BY <2>1
<1>9. /\ s[n] \in Nat /\ s[n] > 0 /\ t[n] \in Int
      /\ lo * s[n] <= t[n] /\ t[n] <= hi * s[n]
  BY <1>3, <1>4, <1>8 DEF T, AddsUp
<1> QED
  BY <1>2, <1>3, <1>4, <1>9, QuotientIsBetween

\* So does the weight it is blended with, however f32 rounds.
LEMMA BlendsAreBetween ==
  ASSUME NEW lo \in Int, NEW hi \in Int, NEW a \in lo .. hi, NEW b \in lo .. hi,
         NEW x \in F!Blends(a, b)
  PROVE  x \in lo .. hi
<1> DEFINE z == 7 * a + 3 * b
           q == F!Quotient(z, 10)
<1>1. lo * 10 <= z /\ z <= hi * 10 /\ z \in Int
  OBVIOUS
<1>2. q \in lo .. hi
  <2> HIDE DEF z
  <2>1. 10 \in Nat /\ 10 > 0
    OBVIOUS
  <2> QED
    BY <1>1, <2>1, QuotientIsBetween
<1>3. z % 10 = 0 /\ a # b => 10 * q = z
  <2> HIDE DEF z
  <2>1. z % 10 = 0 => F!Quotient(z, 10) * 10 = z
    BY <1>1 DEF F!Quotient
  <2> QED
    BY <1>2, <2>1
<1>4. x = q \/ (z % 10 = 0 /\ q # 0 /\ a # b /\ x = IF q > 0 THEN q - 1 ELSE q + 1)
  BY DEF F!Blends
<1> HIDE DEF q
<1>5. 10 * q = z /\ a # b => lo < q /\ q < hi
  BY <1>2
<1> QED
  BY <1>2, <1>3, <1>4, <1>5

\* A bounded set of integers that is not empty has a least and a greatest one.
LEMMA Extremes ==
  ASSUME NEW n \in Nat, NEW S \in SUBSET (-n .. n), S # {}
  PROVE  /\ F!Min(S) \in S /\ F!Max(S) \in S
         /\ \A x \in S : F!Min(S) <= x /\ x <= F!Max(S)
<1>1. \E x \in S : \A y \in S : x <= y
  <2> DEFINE D == {x + n : x \in S}
  <2>1. D \in SUBSET Nat /\ D # {}
    <3>1. \A x \in S : x + n \in Nat
      OBVIOUS
    <3> QED
      BY <3>1
  <2>2. PICK d \in D : \A y \in D : d <= y
    <3> HIDE DEF D
    <3> QED
      BY <2>1, Least
  <2>3. PICK x \in S : d = x + n
    BY <2>2
  <2>4. ASSUME NEW y \in S PROVE x <= y
    <3>1. y + n \in D /\ x \in Int /\ y \in Int
      OBVIOUS
    <3>2. x + n <= y + n
      BY <2>2, <2>3, <3>1
    <3> QED
      BY <3>1, <3>2
  <2> QED
    BY <2>4
<1>2. \E x \in S : \A y \in S : x >= y
  <2> DEFINE D == {n - x : x \in S}
  <2>1. D \in SUBSET Nat /\ D # {}
    OBVIOUS
  <2>2. PICK d \in D : \A y \in D : d <= y
    <3> HIDE DEF D
    <3> QED
      BY <2>1, Least
  <2>3. PICK x \in S : d = n - x
    BY <2>2
  <2>4. ASSUME NEW y \in S PROVE x >= y
    <3>1. n - y \in D /\ x \in Int /\ y \in Int
      OBVIOUS
    <3>2. n - x <= n - y
      BY <2>2, <2>3, <3>1
    <3> QED
      BY <3>1, <3>2
  <2> QED
    BY <2>4
<1>3. F!Min(S) \in S /\ \A x \in S : F!Min(S) <= x
  BY <1>1 DEF F!Min
<1>4. F!Max(S) \in S /\ \A x \in S : F!Max(S) >= x
  BY <1>2 DEF F!Max
<1> QED
  BY <1>3, <1>4

\* A weight that stays is between itself and the others.
LEMMA SameIsBetween ==
  ASSUME F!TypeOK, heard' \subseteq Sent, weight' = weight
  PROVE  F!WeightIsBetween
<1>1. heard' \cup {weight} \in SUBSET (-Top .. Top) /\ Top \in Nat
  BY FederationSizes DEF F!TypeOK, F!Weight
<1> QED
  BY <1>1, Extremes DEF F!WeightIsBetween

\* A weight that is between whatever bounds the weights in use and heard have
\* is between the extremes, and no overflow of the bound.
LEMMA BoundedIsBetween ==
  ASSUME F!TypeOK, heard' \subseteq Sent,
         \A lo, hi \in Int :
           heard' \cup {weight} \subseteq lo .. hi => weight' \in lo .. hi
  PROVE  F!WeightIsBetween /\ weight' \in F!Weight
<1> DEFINE S == heard' \cup {weight}
<1>1. S \in SUBSET (-Top .. Top) /\ Top \in Nat /\ S # {} /\ -Top \in Int /\ Top \in Int
  BY FederationSizes DEF F!TypeOK, F!Weight
<1> HIDE DEF S
<1>2. PICK a \in Int, b \in Int :
        a = F!Min(S) /\ b = F!Max(S) /\ \A x \in S : a <= x /\ x <= b
  <2>1. /\ F!Min(S) \in S /\ F!Max(S) \in S
        /\ \A x \in S : F!Min(S) <= x /\ x <= F!Max(S)
    BY <1>1, Extremes
  <2>2. \A x \in S : x \in Int
    BY <1>1
  <2>3. F!Min(S) \in Int /\ F!Max(S) \in Int
    BY <2>1, <2>2
  <2> QED
    BY <2>1, <2>3
<1>3. S \subseteq a .. b
  BY <1>1, <1>2
<1>4. weight' \in a .. b /\ weight' \in -Top .. Top
  BY <1>1, <1>3 DEF S
<1> QED
  BY <1>2, <1>4 DEF S, F!WeightIsBetween, F!Weight

\* federated_average blends with a mean of the first places.
LEMMA AveragesAreBetween ==
  ASSUME F!TypeOK, NEW lo \in Int, NEW hi \in Int, weight \in lo .. hi,
         NEW num \in 1 .. Places, NEW w \in [0 .. num - 1 -> lo .. hi],
         NEW x \in F!Averages(w, num)
  PROVE  x \in lo .. hi
<1>1. F!AtMost(num, Places) = num /\ num \in Nat
  BY FederationSizes DEF F!AtMost
<1>2. \A i \in 0 .. num - 1 : w[i] \in lo .. hi /\ w[i] \in Int /\ reliability[i] \in Nat
  <2>1. \A i \in 0 .. num - 1 : i \in F!Place
    BY FederationSizes DEF F!Place
  <2>2. \A i \in F!Place : reliability[i] \in Nat
    BY FederationSizes DEF F!TypeOK
  <2> QED
    BY <2>1, <2>2
<1>3. CASE F!Sum(reliability, num) = 0
  BY <1>1, <1>3 DEF F!Averages
<1>4. CASE F!Sum(reliability, num) # 0
  <2>1. F!Mean(w, reliability, num) \in lo .. hi
    BY <1>1, <1>2, <1>4, MeanIsBetween
  <2>2. x \in F!Blends(weight, F!Mean(w, reliability, num))
    BY <1>1, <1>4 DEF F!Averages
  <2> QED
    BY <2>1, <2>2, BlendsAreBetween
<1> QED
  BY <1>3, <1>4

\* hierarchical_average blends with a mean of the means of the levels.
LEMMA HierarchicalsAreBetween ==
  ASSUME F!TypeOK, NEW lo \in Int, NEW hi \in Int, weight \in lo .. hi,
         NEW num \in 1 .. Places, NEW w \in [0 .. num - 1 -> lo .. hi],
         NEW x \in F!Hierarchicals(w, num)
  PROVE  x \in lo .. hi
<1> DEFINE levelOf(i) == ((i * Levels) \div num) % depth
           within(l) == [i \in 0 .. num - 1 |->
                           IF levelOf(i) = l THEN reliability[i] ELSE 0]
           counts == [l \in 0 .. depth - 1 |-> IF F!Sum(within(l), num) > 0 THEN 1 ELSE 0]
           average == [l \in 0 .. depth - 1 |->
                         IF counts[l] = 1 THEN F!Mean(w, within(l), num) ELSE 0]
<1>1. F!AtMost(num, Places) = num /\ num \in Nat /\ depth \in Nat
  BY FederationSizes DEF F!AtMost, F!TypeOK
<1>2. x \in IF F!Sum(counts, depth) = 0 THEN {weight}
            ELSE F!Blends(weight, F!Mean(average, counts, depth))
  BY <1>1 DEF F!Hierarchicals
<1>3. \A i \in 0 .. num - 1 : w[i] \in lo .. hi /\ w[i] \in Int /\ reliability[i] \in Nat
  <2>1. \A i \in 0 .. num - 1 : i \in F!Place
    BY FederationSizes DEF F!Place
  <2>2. \A i \in F!Place : reliability[i] \in Nat
    BY FederationSizes DEF F!TypeOK
  <2> QED
    BY <2>1, <2>2
<1> HIDE DEF levelOf
<1>4. \A l \in 0 .. depth - 1 : \A i \in 0 .. num - 1 : within(l)[i] \in Nat
  BY <1>3
<1> HIDE DEF within
<1>5. \A l \in 0 .. depth - 1 :
        /\ counts[l] \in Nat
        /\ counts[l] # 0 => counts[l] = 1 /\ F!Sum(within(l), num) > 0
  OBVIOUS
<1>6. \A l \in 0 .. depth - 1 :
        average[l] = IF counts[l] = 1 THEN F!Mean(w, within(l), num) ELSE 0
  OBVIOUS
<1> HIDE DEF counts, average
<1>7. ASSUME NEW l \in 0 .. depth - 1, counts[l] # 0 PROVE average[l] \in lo .. hi
  <2>1. counts[l] = 1 /\ F!Sum(within(l), num) # 0
    BY <1>5, <1>7
  <2>2. \A i \in 0 .. num - 1 : w[i] \in Int /\ within(l)[i] \in Nat
    BY <1>3, <1>4
  <2>3. \A i \in 0 .. num - 1 : within(l)[i] # 0 => w[i] \in lo .. hi
    BY <1>3
  <2>4. F!Mean(w, within(l), num) \in lo .. hi
    BY <1>1, <2>1, <2>2, <2>3, MeanIsBetween
  <2> QED
    BY <1>6, <2>1, <2>4
<1>8. \A l \in 0 .. depth - 1 : average[l] \in Int /\ counts[l] \in Nat
  <2> TAKE l \in 0 .. depth - 1
  <2>1. CASE counts[l] # 0
    BY <1>5, <1>7, <2>1
  <2>2. CASE counts[l] = 0
    BY <1>5, <1>6, <2>2
  <2> QED
    BY <2>1, <2>2
<1>9. CASE F!Sum(counts, depth) = 0
  BY <1>2, <1>9
<1>10. CASE F!Sum(counts, depth) # 0
  <2>1. F!Mean(average, counts, depth) \in lo .. hi
    BY <1>1, <1>7, <1>8, <1>10, MeanIsBetween
  <2>2. x \in F!Blends(weight, F!Mean(average, counts, depth))
    BY <1>2, <1>10
  <2> QED
    BY <2>1, <2>2, BlendsAreBetween
<1> QED
  BY <1>9, <1>10

\* What a call of the application does: the types stay and the weight is
\* between the weights heard and its own.
Kept == F!TypeOK' /\ F!WeightIsBetween

\* submit_federated_update.
LEMMA SubmitKeeps ==
  ASSUME F!TypeOK, NEW v \in Sent \cup {F!Short}, F!Submit(v)
  PROVE  Kept
<1> DEFINE all == Append(pending, v)
           num == F!AtMost(Len(all), Places)
           w == [i \in 0 .. num - 1 |-> all[i + 1]]
<1>1. /\ all \in Seq(Sent \cup {F!Short}) /\ Len(all) \in Nat /\ Len(all) >= 1
      /\ DOMAIN all = 1 .. Len(all)
  BY DEF F!TypeOK
<1>2. UNCHANGED <<ready, members, reliability, depth, aggregates>>
  BY DEF F!Submit, F!tables
<1>3. CASE UNCHANGED weight /\ heard' = {} /\ pending' \in {<<>>, all} /\ panicked' \in BOOLEAN
  <2>1. <<>> \in Seq(Sent \cup {F!Short})
    OBVIOUS
  <2>2. F!TypeOK'
    BY <1>1, <1>2, <1>3, <2>1 DEF F!TypeOK, F!Weight, F!Short, F!Aggregate, F!Level, F!Place
  <2>3. heard' \subseteq Sent /\ weight' = weight
    BY <1>3
  <2> QED
    BY <2>2, <2>3, SameIsBetween DEF Kept
<1>4. CASE /\ F!Short \notin F!Range(all) /\ weight' \in F!Averages(w, num)
           /\ heard' = F!Range(all) /\ pending' = <<>> /\ UNCHANGED panicked
  <2>1. F!Range(all) = {all[i] : i \in 1 .. Len(all)}
    BY <1>1 DEF F!Range
  <2>2. \A i \in 1 .. Len(all) : all[i] \in Sent \cup {F!Short} /\ all[i] \in F!Range(all)
    BY <1>1, <2>1
  <2>3. heard' \subseteq Sent /\ heard' = F!Range(all)
    BY <1>4, <2>1, <2>2
  <2>4. num \in 1 .. Places /\ num <= Len(all)
    BY <1>1, FederationSizes DEF F!AtMost
  <2> HIDE DEF num, all
  <2>5. ASSUME NEW lo \in Int, NEW hi \in Int, heard' \cup {weight} \subseteq lo .. hi
        PROVE  weight' \in lo .. hi
    <3>1. \A i \in 0 .. num - 1 : i + 1 \in 1 .. Len(all)
      BY <1>1, <2>4
    <3>2. \A i \in 0 .. num - 1 : all[i + 1] \in lo .. hi
      BY <2>2, <2>3, <2>5, <3>1
    <3>3. w \in [0 .. num - 1 -> lo .. hi] /\ weight \in lo .. hi
      BY <2>5, <3>2
    <3> HIDE DEF w
    <3> QED
      BY <1>4, <2>4, <3>3, AveragesAreBetween
  <2>6. F!WeightIsBetween /\ weight' \in F!Weight
    BY <2>3, <2>5, BoundedIsBetween
  <2>7. <<>> \in Seq(Sent \cup {F!Short})
    OBVIOUS
  <2>8. F!TypeOK'
    BY <1>2, <1>4, <2>3, <2>6, <2>7 DEF F!TypeOK, F!Weight, F!Short, F!Aggregate, F!Level, F!Place
  <2> QED
    BY <2>6, <2>8 DEF Kept
<1>5. /\ panicked \in BOOLEAN /\ TRUE \in BOOLEAN
  BY DEF F!TypeOK
<1>6. \/ UNCHANGED weight /\ heard' = {} /\ pending' \in {<<>>, all} /\ panicked' \in BOOLEAN
      \/ /\ F!Short \notin F!Range(all) /\ weight' \in F!Averages(w, num)
         /\ heard' = F!Range(all) /\ pending' = <<>> /\ UNCHANGED panicked
  BY <1>5 DEF F!Submit
<1> QED
  BY <1>3, <1>4, <1>6

\* hierarchical_average.
LEMMA AverageLevelsKeeps ==
  ASSUME F!TypeOK, F!AverageLevels
  PROVE  Kept
<1>1. PICK num \in 1 .. Places : \E w \in [0 .. num - 1 -> Sent] :
        weight' \in F!Hierarchicals(w, num) /\ heard' = F!Range(w)
  BY DEF F!AverageLevels
<1>2. PICK w \in [0 .. num - 1 -> Sent] :
        weight' \in F!Hierarchicals(w, num) /\ heard' = F!Range(w)
  BY <1>1
<1>3. heard' = {w[i] : i \in 0 .. num - 1} /\ heard' \subseteq Sent
  BY <1>2 DEF F!Range
<1>4. ASSUME NEW lo \in Int, NEW hi \in Int, heard' \cup {weight} \subseteq lo .. hi
      PROVE  weight' \in lo .. hi
  <2>1. \A i \in 0 .. num - 1 : w[i] \in lo .. hi
    BY <1>3, <1>4
  <2>2. w \in [0 .. num - 1 -> lo .. hi] /\ weight \in lo .. hi
    BY <1>4, <2>1
  <2> QED
    BY <1>2, <2>2, HierarchicalsAreBetween
<1>5. F!WeightIsBetween /\ weight' \in F!Weight
  BY <1>3, <1>4, BoundedIsBetween
<1>6. UNCHANGED <<ready, members, pending, panicked, reliability, depth, aggregates>>
  BY DEF F!AverageLevels, F!tables
<1>7. F!TypeOK'
  BY <1>3, <1>5, <1>6 DEF F!TypeOK, F!Weight, F!Short, F!Aggregate, F!Level, F!Place
<1> QED
  BY <1>5, <1>7 DEF Kept

\* merge_level_aggregates.
LEMMA MergeKeeps ==
  ASSUME F!TypeOK, F!MergeAggregates
  PROVE  Kept
<1> DEFINE n == Len(aggregates)
           w == [i \in 0 .. n - 1 |-> aggregates[i + 1].weight]
           of(l) == [i \in 0 .. n - 1 |-> IF aggregates[i + 1].level = l THEN 1 ELSE 0]
<1>1. PICK l \in F!Level :
        /\ F!Sum(of(l), n) > 0 /\ weight' = F!Mean(w, of(l), n)
        /\ heard' = {w[i] : i \in {k \in 0 .. n - 1 : of(l)[k] = 1}}
  BY DEF F!MergeAggregates
<1>2. n \in Nat /\ \A i \in 0 .. n - 1 : w[i] \in Sent
  <2>1. aggregates \in Seq(F!Aggregate)
    BY DEF F!TypeOK
  <2>2. \A i \in 0 .. n - 1 : aggregates[i + 1] \in F!Aggregate
    BY <2>1
  <2>3. \A i \in 0 .. n - 1 : aggregates[i + 1].weight \in Sent
    BY <2>2 DEF F!Aggregate
  <2> QED
    BY <2>1, <2>3
<1> DEFINE r == of(l)
<1>3. \A i \in 0 .. n - 1 : r[i] \in {0, 1}
  OBVIOUS
<1>4. /\ F!Sum(r, n) # 0 /\ weight' = F!Mean(w, r, n)
      /\ heard' = {w[i] : i \in {k \in 0 .. n - 1 : r[k] = 1}}
  BY <1>1
<1> HIDE DEF w, of, n, r
<1>5. heard' \subseteq Sent
  BY <1>2, <1>4
<1>6. \A i \in 0 .. n - 1 : w[i] \in Int /\ r[i] \in Nat
  <2>1. \A x \in Sent : x \in Int
    BY FederationSizes
  <2> QED
    BY <1>2, <1>3, <2>1
<1>7. ASSUME NEW lo \in Int, NEW hi \in Int, heard' \cup {weight} \subseteq lo .. hi
      PROVE  weight' \in lo .. hi
  <2>1. \A i \in 0 .. n - 1 : r[i] # 0 => w[i] \in lo .. hi
    <3> SUFFICES ASSUME NEW i \in 0 .. n - 1, r[i] # 0 PROVE w[i] \in lo .. hi
      OBVIOUS
    <3>1. i \in {k \in 0 .. n - 1 : r[k] = 1}
      BY <1>3
    <3>2. w[i] \in heard'
      BY <1>4, <3>1
    <3> QED
      BY <1>7, <3>2
  <2>2. F!Mean(w, r, n) \in lo .. hi
    BY <1>2, <1>4, <1>6, <2>1, MeanIsBetween
  <2> QED
    BY <1>4, <2>2
<1>8. F!WeightIsBetween /\ weight' \in F!Weight
  BY <1>5, <1>7, BoundedIsBetween
<1>9. UNCHANGED <<ready, members, pending, panicked, reliability, depth, aggregates>>
  BY DEF F!MergeAggregates, F!tables
<1>10. F!TypeOK'
  BY <1>5, <1>8, <1>9 DEF F!TypeOK, F!Weight, F!Short, F!Aggregate, F!Level, F!Place
<1> QED
  BY <1>8, <1>10 DEF Kept

\* Every call.
LEMMA FederationKeeps == F!TypeOK /\ F!Next => Kept
<1> SUFFICES ASSUME F!TypeOK, F!Next PROVE Kept
  OBVIOUS
<1> USE DEF F!TypeOK, F!Weight, F!Short, F!Aggregate, F!Level, F!Place
<1>1. ASSUME F!TypeOK', weight' = weight PROVE Kept
  <2>1. heard' \subseteq Sent
    BY <1>1
  <2> QED
    BY <1>1, <2>1, SameIsBetween DEF Kept
<1>2. {} \subseteq Sent
  OBVIOUS
<1>3. CASE F!Register
  BY <1>1, <1>3 DEF F!Register, F!tables
<1>4. CASE F!InitHierarchy
  BY <1>1, <1>4 DEF F!InitHierarchy
<1>5. CASE F!PushAggregate
  <2>1. PICK a \in F!Aggregate : aggregates' = Append(aggregates, a)
    BY <1>5 DEF F!PushAggregate
  <2>2. Len(aggregates) < MaxAggregates
    BY <1>5 DEF F!PushAggregate
  <2>3. aggregates' \in Seq(F!Aggregate) /\ Len(aggregates') <= MaxAggregates
    <3> HIDE DEF F!Aggregate
    <3> QED
      BY <2>1, <2>2, FederationSizes
  <2> QED
    BY <1>1, <1>5, <2>3 DEF F!PushAggregate
<1>6. CASE F!UpdateReliability
  <2>1. PICK n \in F!Place, d \in {-1, 1} :
          reliability' = [reliability EXCEPT ![n] = F!Clamped(reliability[n] + d)]
    BY <1>6 DEF F!UpdateReliability
  <2>2. F!Clamped(reliability[n] + d) \in 0 .. Steps
    <3>1. PICK e \in Int : e = reliability[n] + d
      BY FederationSizes
    <3>2. F!Clamped(e) \in 0 .. Steps
      BY FederationSizes DEF F!Clamped, F!AtMost
    <3> QED
      BY <3>1, <3>2
  <2>3. reliability' \in [F!Place -> 0 .. Steps]
    BY <2>1, <2>2
  <2> QED
    BY <1>1, <1>6, <2>3 DEF F!UpdateReliability
<1> QED
  BY <1>3, <1>4, <1>5, <1>6, SubmitKeeps, AverageLevelsKeeps, MergeKeeps DEF F!Next

\* For all weights, reliabilities, levels and roundings: a round leaves the
\* weight between the least and the greatest of the weight in use and those
\* heard (federated_average, hierarchical_average, merge_level_aggregates).
THEOREM AveragesStayBetween == SwarmSpec => []F!TypeOK /\ F!AverageIsBetween
<1>1. SwarmInit => F!TypeOK
  <2> SUFFICES ASSUME F!Init PROVE F!TypeOK
    BY DEF SwarmInit
  <2>1. Steps \div 2 \in 0 .. Steps
    BY FederationSizes
  <2>2. <<>> \in Seq(Sent \cup {F!Short}) /\ <<>> \in Seq(F!Aggregate) /\ Len(<<>>) = 0
    OBVIOUS
  <2>3. /\ reliability = [n \in F!Place |-> Steps \div 2]
        /\ weight \in Sent /\ ready \in BOOLEAN /\ panicked = FALSE /\ members = {}
        /\ pending = <<>> /\ aggregates = <<>> /\ heard = {} /\ depth = 1
    BY DEF F!Init
  <2>4. reliability \in [F!Place -> 0 .. Steps]
    BY <2>1, <2>3
  <2>5. depth \in 1 .. Levels /\ 0 <= MaxAggregates /\ weight \in F!Weight
    BY <2>3, FederationSizes DEF F!Weight
  <2> QED
    BY <2>2, <2>3, <2>4, <2>5 DEF F!TypeOK
<1>2. F!TypeOK /\ [SwarmNext]_swarmVars => F!TypeOK' /\ [F!WeightIsBetween]_F!vars
  <2>1. F!TypeOK /\ UNCHANGED federation => F!TypeOK' /\ UNCHANGED F!vars
    BY DEF federation, F!vars, F!TypeOK, F!Weight, F!Short, F!Aggregate, F!Level, F!Place
  <2>2. F!TypeOK /\ F!Next => F!TypeOK' /\ F!WeightIsBetween
    BY FederationKeeps DEF Kept
  <2> QED
    BY <2>1, <2>2 DEF SwarmNext, Meshing, Gossiping, swarmVars
<1> QED
  BY <1>1, <1>2, PTL DEF SwarmSpec, F!AverageIsBetween
-----------------------------------------------------------------------------
(* Gossip                                                                  *)

\* The assumptions on the queue and the remote spikes, one by one.
LEMMA GossipSizes ==
  /\ MaxGossip \in Nat /\ Fanout \in Nat /\ MaxTargets \in Nat /\ Life \in Nat
  /\ Skew \in Nat /\ MaxSpikes \in Nat /\ SpikeHops \in Nat
BY SwarmAssumption

\* Both modules take cardinality from FiniteSets.
LEMMA GossipSize == \A X : G!Cardinality(X) = Cardinality(X)
BY DEF Cardinality, G!Cardinality

\* Places of a list are at most as many as the list is long.
LEMMA PlacesAreFew ==
  ASSUME NEW n \in Nat, NEW S \in SUBSET (1 .. n)
  PROVE  IsFiniteSet(S) /\ Cardinality(S) \in Nat /\ Cardinality(S) <= n
<1>1. IsFiniteSet(1 .. n) /\ Cardinality(1 .. n) = n
  BY FS_Interval
<1>2. IsFiniteSet(S) /\ Cardinality(S) <= Cardinality(1 .. n)
  BY <1>1, FS_Subset
<1> QED
  BY <1>1, <1>2, FS_CardinalityType

\* An age stays in its range as time goes on.
LEMMA OlderIsAge == ASSUME NEW a \in G!Age PROVE G!Older(a) \in G!Age
BY GossipSizes DEF G!Age, G!Older

\* Every operation keeps ages in their range and both arrays within their room.
LEMMA GossipKeeps == G!TypeOK /\ G!Next => G!TypeOK'
<1> DEFINE E == [msg : Msg, age : G!Age]
<1> SUFFICES ASSUME G!TypeOK, G!Next PROVE G!TypeOK'
  OBVIOUS
<1>1. /\ stamp \in [Msg -> G!Age] /\ reached \in 0 .. MaxSpikes
      /\ rumours \in Seq(E) /\ Len(rumours) <= MaxGossip
      /\ spikes \in Seq(G!Spike) /\ Len(spikes) <= MaxSpikes
      /\ Len(rumours) \in Nat /\ Len(spikes) \in Nat
  BY DEF G!TypeOK
<1> HIDE DEF E
<1>2. ASSUME stamp' \in [Msg -> G!Age], reached' \in 0 .. MaxSpikes,
             rumours' \in Seq(E), Len(rumours') <= MaxGossip,
             spikes' \in Seq(G!Spike), Len(spikes') <= MaxSpikes
      PROVE  G!TypeOK'
  BY <1>2 DEF G!TypeOK, G!Age, G!Spike, E
<1>3. ASSUME NEW m \in Msg, G!Propagate(m) PROVE G!TypeOK'
  <2>1. PICK targets \in 0 .. MaxTargets :
          rumours' = rumours \o G!Copies(G!Forwarded(m),
            G!Least(G!Least(Fanout, targets), MaxGossip - Len(rumours)))
    BY <1>3 DEF G!Propagate
  <2> DEFINE n == G!Least(G!Least(Fanout, targets), MaxGossip - Len(rumours))
             c == G!Copies(G!Forwarded(m), n)
  <2>2. n \in Nat /\ Len(rumours) + n <= MaxGossip
    <3>1. targets \in Nat
      BY GossipSizes
    <3> QED
      BY <1>1, <3>1, GossipSizes DEF G!Least
  <2> HIDE DEF n
  <2>3. G!Forwarded(m) \in E
    BY <1>1 DEF G!Forwarded, E
  <2>4. c \in Seq(E) /\ Len(c) = n
    BY <2>2, <2>3 DEF G!Copies
  <2> HIDE DEF c
  <2>5. rumours' = rumours \o c
    BY <2>1 DEF c, n
  <2>6. rumours' \in Seq(E) /\ Len(rumours') = Len(rumours) + n
    <3>1. /\ rumours \o c \in Seq(E)
          /\ Len(rumours \o c) = Len(rumours) + Len(c)
      BY <1>1, <2>4, ConcatProperties
    <3> QED
      BY <2>4, <2>5, <3>1
  <2> QED
    BY <1>1, <1>2, <1>3, <2>2, <2>6 DEF G!Propagate
<1>4. CASE G!ProcessGossip
  <2> DEFINE Y == G!Young
             m == Cardinality(Y)
             n == Len(rumours)
  <2>1. PICK f \in [1 .. m -> Y] : rumours' = [i \in 1 .. m |-> rumours[f[i]]]
    BY <1>4, GossipSize DEF G!ProcessGossip, G!Kept
  <2>2. n \in Nat /\ Y \in SUBSET (1 .. n)
    BY <1>1 DEF G!Young
  <2> HIDE DEF Y, n
  <2>3. m \in Nat /\ m <= n
    BY <2>2, PlacesAreFew
  <2> HIDE DEF m
  <2> USE DEF n
  <2>4. \A i \in 1 .. m : rumours[f[i]] \in E
    <3> TAKE i \in 1 .. m
    <3>1. f[i] \in Y
      BY <2>1
    <3>2. f[i] \in 1 .. Len(rumours)
      BY <2>2, <3>1
    <3>3. \A j \in 1 .. Len(rumours) : rumours[j] \in E
      BY <1>1
    <3> QED
      BY <3>2, <3>3
  <2>5. rumours' \in Seq(E) /\ Len(rumours') = m
    BY <2>1, <2>3, <2>4
  <2>6. Len(rumours') <= MaxGossip
    BY <1>1, <2>3, <2>5, GossipSizes
  <2> QED
    BY <1>1, <1>2, <1>4, <2>5, <2>6 DEF G!ProcessGossip
<1>5. CASE G!ReceiveSpike
  <2>1. PICK s \in G!Spike :
          spikes' = IF Len(spikes) < MaxSpikes THEN Append(spikes, s) ELSE spikes
    BY <1>5 DEF G!ReceiveSpike
  <2>2. spikes' \in Seq(G!Spike) /\ Len(spikes') <= MaxSpikes
    <3>1. CASE Len(spikes) < MaxSpikes
      BY <1>1, <2>1, <3>1, GossipSizes
    <3>2. CASE ~(Len(spikes) < MaxSpikes)
      BY <1>1, <2>1, <3>2
    <3> QED
      BY <3>1, <3>2
  <2> QED
    BY <1>1, <1>2, <1>5, <2>2 DEF G!ReceiveSpike
<1>6. CASE G!ApplySpikes
  <2> DEFINE R == {i \in DOMAIN spikes : spikes[i].positive /\ spikes[i].hops < SpikeHops}
  <2>1. R \in SUBSET (1 .. Len(spikes))
    BY <1>1
  <2>2. reached' = Cardinality(R) /\ spikes' = <<>>
    BY <1>6, GossipSize DEF G!ApplySpikes
  <2> HIDE DEF R
  <2>3. Cardinality(R) \in Nat /\ Cardinality(R) <= Len(spikes)
    BY <1>1, <2>1, PlacesAreFew
  <2>4. reached' \in 0 .. MaxSpikes
    BY <1>1, <2>2, <2>3, GossipSizes
  <2>5. spikes' \in Seq(G!Spike) /\ Len(spikes') <= MaxSpikes
    BY <2>2, GossipSizes
  <2> QED
    BY <1>1, <1>2, <1>6, <2>4, <2>5 DEF G!ApplySpikes
<1>7. CASE G!Clock
  <2>1. stamp' \in [Msg -> G!Age]
    BY <1>1, <1>7, OlderIsAge DEF G!Clock
  <2>2. \A i \in 1 .. Len(rumours) :
          [rumours[i] EXCEPT !.age = G!Older(rumours[i].age)] \in E
    <3> TAKE i \in 1 .. Len(rumours)
    <3>1. rumours[i] \in E
      BY <1>1
    <3>2. G!Older(rumours[i].age) \in G!Age
      BY <3>1, OlderIsAge DEF E
    <3> QED
      BY <3>1, <3>2 DEF E
  <2>3. rumours' = [i \in 1 .. Len(rumours) |->
                      [rumours[i] EXCEPT !.age = G!Older(rumours[i].age)]]
    BY <1>1, <1>7 DEF G!Clock
  <2>4. rumours' \in Seq(E) /\ Len(rumours') = Len(rumours)
    BY <1>1, <2>2, <2>3
  <2> QED
    BY <1>1, <1>2, <1>7, <2>1, <2>4 DEF G!Clock
<1> QED
  BY <1>3, <1>4, <1>5, <1>6, <1>7 DEF G!Next
-----------------------------------------------------------------------------
(* Types of the proposals and of what was meant for them                   *)

\* The assumptions on the counts, one by one.
LEMMA CountSizes ==
  MaxProposals \in Nat /\ MaxVotes \in Nat /\ MaxVotes >= 1 /\ MaxSeen \in Nat
BY SwarmAssumption

\* Counts are in their ranges, what is meant for twins is forgotten, and the
\* history is a function.
Ranged(s, b) ==
  /\ b = [k \in DOMAIN b |-> b[k]]
  /\ \A i \in 1 .. Len(s) : /\ s[i].for \in 1 .. MaxVotes
                            /\ s[i].against \in 0 .. MaxVotes
                            /\ b[s[i].key].twin => b[s[i].key] = C!Twin

CountsInv ==
  /\ VoteInv /\ Ranged(open, ballots) /\ agreed \in C!Meant /\ head \in BOOLEAN
  /\ observed \in 0 .. MaxSeen /\ seen \in [Kind -> 0 .. observed]

\* Twins are of the type of what is meant for a proposal.
LEMMA TwinIsMeant == C!Twin \in C!Meant /\ C!Twin.twin
<1> DEFINE R == 0 .. MaxVotes
<1>1. C!Unasked = [yes |-> 0, no |-> 0, twin |-> FALSE, own |-> FALSE] /\ 0 \in R
  BY CountSizes DEF C!Unasked
<1> HIDE DEF R
<1>2. C!Twin \in [yes : R, no : R, twin : BOOLEAN, own : BOOLEAN] /\ C!Twin.twin
  BY <1>1 DEF C!Twin
<1> QED
  BY <1>2 DEF C!Meant, R

\* A ballot that is counted is below the bound, so what is meant for a proposal
\* is as well.
LEMMA MeantIsBounded ==
  ASSUME CountsInv, NEW i \in 1 .. Len(open)
  PROVE  ballots[open[i].key] \in C!Meant
<1> DEFINE b == ballots[open[i].key]
           p == open[i]
<1>1. b \in Bal /\ Told(p, b)
  BY DEF CountsInv, VoteInv, Tallied
<1>2. /\ p.for \in 1 .. MaxVotes /\ p.against \in 0 .. MaxVotes
      /\ b.twin => b = C!Twin
  BY DEF CountsInv, Ranged
<1> HIDE DEF b, p
<1>3. CASE b.twin
  <2>1. b = C!Twin
    BY <1>2, <1>3
  <2> QED
    BY <2>1, TwinIsMeant DEF b
<1>4. CASE ~b.twin
  <2>1. b.yes \in Nat /\ b.no \in Nat
    BY <1>1 DEF Bal
  <2>2. p.against = b.no /\ p.for = 1 + b.yes + (IF b.own /\ p.id # 0 THEN 1 ELSE 0)
    BY <1>1, <1>4 DEF Told
  <2>3. b.yes \in 0 .. MaxVotes /\ b.no \in 0 .. MaxVotes
    BY <1>2, <2>1, <2>2, CountSizes
  <2> DEFINE R == 0 .. MaxVotes
  <2> HIDE DEF R
  <2>4. b.yes \in R /\ b.no \in R
    BY <2>3 DEF R
  <2>5. b \in [yes : R, no : R, twin : BOOLEAN, own : BOOLEAN]
    BY <1>1, <2>4 DEF Bal
  <2> QED
    BY <2>5 DEF C!Meant, R, b
<1> QED
  BY <1>3, <1>4

\* The invariant is at least the type.
LEMMA CountsAreTyped == CountsInv => C!TypeOK
<1> SUFFICES ASSUME CountsInv PROVE C!TypeOK
  OBVIOUS
<1>1. /\ open \in Seq(Prop) /\ Len(open) <= MaxProposals /\ Len(open) \in Nat
      /\ DOMAIN ballots = {open[i].key : i \in 1 .. Len(open)}
      /\ ballots = [k \in DOMAIN ballots |-> ballots[k]]
  BY DEF CountsInv, VoteInv, Tallied, Ranged
<1>2. \A i \in 1 .. Len(open) : open[i] \in C!Proposal
  <2> TAKE i \in 1 .. Len(open)
  <2>1. open[i] \in Prop
    BY <1>1
  <2>2. open[i].for \in 1 .. MaxVotes /\ open[i].against \in 0 .. MaxVotes
    BY DEF CountsInv, Ranged
  <2> QED
    BY <2>1, <2>2 DEF Prop, C!Proposal
<1>3. open \in Seq(C!Proposal)
  BY <1>1, <1>2
<1>4. C!Keys = DOMAIN ballots
  BY <1>1 DEF C!Keys
<1>5. \A k \in DOMAIN ballots : ballots[k] \in C!Meant
  BY <1>1, MeantIsBounded
<1>6. ballots \in [C!Keys -> C!Meant]
  BY <1>1, <1>4, <1>5
<1> QED
  BY <1>1, <1>3, <1>6 DEF CountsInv, C!TypeOK, C!Key, C!Proposal, C!Meant

\* MeshNetwork::new has no proposal and no observation.
LEMMA CountsStart == C!Init => CountsInv
<1> SUFFICES ASSUME C!Init PROVE CountsInv
  OBVIOUS
<1>1. /\ open = <<>> /\ agreed = C!Twin /\ ballots = [k \in {} |-> 0]
      /\ head \in BOOLEAN /\ observed = 0 /\ seen = [k \in Kind |-> 0]
  BY DEF C!Init
<1>2. Ranged(open, ballots)
  BY <1>1 DEF Ranged
<1>3. observed \in 0 .. MaxSeen /\ seen \in [Kind -> 0 .. observed]
  BY <1>1, CountSizes
<1> QED
  BY <1>1, <1>2, <1>3, VotesStart, TwinIsMeant DEF CountsInv

\* propose_consensus: one vote for, and none against.
LEMMA RecordedRanged ==
  ASSUME CountsInv, Len(open) < MaxProposals, NEW id \in Id, NEW own \in BOOLEAN
  PROVE  Ranged(C!Appended(id), C!Recorded(id, own))
<1> DEFINE n == Len(open)
           s == C!Appended(id)
           b == C!Recorded(id, own)
           first == [C!Unasked EXCEPT !.own = own]
<1>1. b = [k \in DOMAIN b |-> b[k]]
  BY DEF C!Recorded
<1>2. Recording(id, own, s, b)
  BY RecordedKeeps DEF CountsInv
<1>3. ~first.twin
  BY DEF C!Unasked
<1>4. \A i \in 1 .. n : /\ open[i].for \in 1 .. MaxVotes
                        /\ open[i].against \in 0 .. MaxVotes
                        /\ ballots[open[i].key].twin => ballots[open[i].key] = C!Twin
  BY DEF CountsInv, Ranged
<1> HIDE DEF s, b, first
<1>5. /\ Len(s) = n + 1 /\ n \in Nat
      /\ s[n + 1].key = C!NewKey /\ s[n + 1].for = 1 /\ s[n + 1].against = 0
      /\ \A i \in 1 .. n : s[i] = open[i]
      /\ b[C!NewKey] = IF \E i \in 1 .. n : open[i].id = id THEN C!Twin ELSE first
      /\ \A i \in 1 .. n :
           b[open[i].key] = IF open[i].id = id THEN C!Twin ELSE ballots[open[i].key]
  BY <1>2 DEF Recording, first
<1> HIDE DEF n
<1>6. ASSUME NEW i \in 1 .. n + 1
      PROVE  /\ s[i].for \in 1 .. MaxVotes /\ s[i].against \in 0 .. MaxVotes
             /\ b[s[i].key].twin => b[s[i].key] = C!Twin
  <2>1. CASE i \in 1 .. n
    BY <1>4, <1>5, <2>1
  <2>2. CASE i = n + 1
    BY <1>3, <1>5, <2>2, CountSizes
  <2> QED
    BY <1>5, <2>1, <2>2
<1> QED
  BY <1>1, <1>5, <1>6 DEF Ranged, s, b

\* One more vote for or against the c-th proposal of s makes t, and d has
\* forgotten what was meant for twins.
Voted(s, c, t) ==
  \/ s[c].for < MaxVotes /\ t = [s EXCEPT ![c].for = @ + 1]
  \/ s[c].against < MaxVotes /\ t = [s EXCEPT ![c].against = @ + 1]
Forgotten(s, d) ==
  /\ d = [k \in DOMAIN d |-> d[k]]
  /\ \A i \in 1 .. Len(s) : d[s[i].key].twin => d[s[i].key] = C!Twin

\* One more vote where there is room for it leaves counts in their ranges.
LEMMA VotedRanged ==
  ASSUME NEW s \in Seq(Prop), NEW b, Ranged(s, b), NEW c \in 1 .. Len(s),
         NEW t, NEW d, Voted(s, c, t), Forgotten(s, d)
  PROVE  Ranged(t, d)
<1>0. s[c] \in Prop
  OBVIOUS
<1>1. /\ s[c].for \in 1 .. MaxVotes /\ s[c].against \in 0 .. MaxVotes
      /\ \A i \in 1 .. Len(s) :
           s[i].for \in 1 .. MaxVotes /\ s[i].against \in 0 .. MaxVotes
  BY DEF Ranged
<1>2. PICK p : /\ t = [s EXCEPT ![c] = p] /\ p.key = s[c].key
               /\ p.for \in 1 .. MaxVotes /\ p.against \in 0 .. MaxVotes
  <2>1. CASE s[c].for < MaxVotes /\ t = [s EXCEPT ![c].for = @ + 1]
    <3> DEFINE q == [s[c] EXCEPT !.for = @ + 1]
    <3>1. q.key = s[c].key /\ q.for = s[c].for + 1 /\ q.against = s[c].against
      BY <1>0 DEF Prop
    <3>2. t = [s EXCEPT ![c] = q]
      BY <2>1
    <3> HIDE DEF q
    <3>3. q.for \in 1 .. MaxVotes
      BY <1>1, <2>1, <3>1, CountSizes
    <3> QED
      BY <1>1, <3>1, <3>2, <3>3
  <2>2. CASE s[c].against < MaxVotes /\ t = [s EXCEPT ![c].against = @ + 1]
    <3> DEFINE q == [s[c] EXCEPT !.against = @ + 1]
    <3>1. q.key = s[c].key /\ q.for = s[c].for /\ q.against = s[c].against + 1
      BY <1>0 DEF Prop
    <3>2. t = [s EXCEPT ![c] = q]
      BY <2>2
    <3> HIDE DEF q
    <3>3. q.against \in 0 .. MaxVotes
      BY <1>1, <2>2, <3>1, CountSizes
    <3> QED
      BY <1>1, <3>1, <3>2, <3>3
  <2> QED
    BY <2>1, <2>2 DEF Voted
<1>3. /\ Len(t) = Len(s)
      /\ \A i \in 1 .. Len(s) : t[i] = IF i = c THEN p ELSE s[i]
  BY <1>2
<1>4. ASSUME NEW i \in 1 .. Len(s)
      PROVE  /\ t[i].for \in 1 .. MaxVotes /\ t[i].against \in 0 .. MaxVotes
             /\ t[i].key = s[i].key
  BY <1>1, <1>2, <1>3
<1> QED
  BY <1>3, <1>4 DEF Ranged, Forgotten

\* cast_vote: a ballot for a twin is forgotten.
LEMMA VoteRanged == CountsInv /\ C!Vote => Ranged(open', ballots')
<1> SUFFICES ASSUME CountsInv, C!Vote PROVE Ranged(open', ballots')
  OBVIOUS
<1>1. /\ open \in Seq(Prop) /\ DOMAIN open = 1 .. Len(open) /\ Ranged(open, ballots)
      /\ DOMAIN ballots = {open[j].key : j \in 1 .. Len(open)}
      /\ \A j \in 1 .. Len(open) : ballots[open[j].key] \in Bal
  BY DEF CountsInv, VoteInv, Tallied
<1>2. PICK i \in 1 .. Len(open), yes \in BOOLEAN :
        LET k == open[i].key
            c == C!Counted(open, open[i].id)
        IN IF yes
           THEN /\ open[c].for < MaxVotes /\ open' = [open EXCEPT ![c].for = @ + 1]
                /\ ballots' = [ballots EXCEPT ![k] = C!Meaning(@, 1, 0)]
           ELSE /\ open[c].against < MaxVotes
                /\ open' = [open EXCEPT ![c].against = @ + 1]
                /\ ballots' = [ballots EXCEPT ![k] = C!Meaning(@, 0, 1)]
  BY <1>1 DEF C!Vote
<1> DEFINE k == open[i].key
           c == C!Counted(open, open[i].id)
<1>3. c \in 1 .. Len(open)
  BY <1>1, CountedIsFirst
<1>4. Voted(open, c, open')
  BY <1>2 DEF Voted
<1>5. PICK y \in 0 .. 1 : ballots' = [ballots EXCEPT ![k] = C!Meaning(@, y, 1 - y)]
  <2>1. CASE yes
    <3>1. 1 \in 0 .. 1 /\ 1 - 1 = 0
      OBVIOUS
    <3> QED
      BY <1>2, <2>1, <3>1
  <2>2. CASE ~yes
    <3>1. 0 \in 0 .. 1 /\ 1 - 0 = 1
      OBVIOUS
    <3> QED
      BY <1>2, <2>2, <3>1
  <2> QED
    BY <2>1, <2>2
<1> HIDE DEF c
<1>6. k \in DOMAIN ballots /\ ballots[k] \in Bal
  BY <1>1
<1>7. ballots[k].twin => ballots[k] = C!Twin
  BY DEF CountsInv, Ranged
<1> HIDE DEF k
<1>8. /\ DOMAIN ballots' = DOMAIN ballots
      /\ \A x \in DOMAIN ballots :
           ballots'[x] = IF x = k THEN C!Meaning(ballots[k], y, 1 - y) ELSE ballots[x]
      /\ ballots' = [x \in DOMAIN ballots' |-> ballots'[x]]
  <2>1. ballots = [x \in DOMAIN ballots |-> ballots[x]]
    BY DEF CountsInv, Ranged
  <2> QED
    BY <1>5, <1>6, <2>1
<1>9. C!Meaning(ballots[k], y, 1 - y).twin => C!Meaning(ballots[k], y, 1 - y) = C!Twin
  <2>1. CASE ballots[k].twin
    BY <1>7, <2>1 DEF C!Meaning
  <2>2. CASE ~ballots[k].twin
    BY <1>6, <2>2 DEF C!Meaning, Bal
  <2> QED
    BY <2>1, <2>2
<1>10. \A j \in 1 .. Len(open) :
         ballots'[open[j].key].twin => ballots'[open[j].key] = C!Twin
  <2> TAKE j \in 1 .. Len(open)
  <2>1. open[j].key \in DOMAIN ballots
    BY <1>1
  <2>2. ballots[open[j].key].twin => ballots[open[j].key] = C!Twin
    BY DEF CountsInv, Ranged
  <2> QED
    BY <1>8, <1>9, <2>1, <2>2
<1>11. Forgotten(open, ballots')
  BY <1>8, <1>10 DEF Forgotten
<1> QED
  BY <1>1, <1>3, <1>4, <1>11, VotedRanged

\* prune_finalised_proposals: what is left is what was there.
LEMMA FinaliseRanged ==
  CountsInv /\ C!Finalise => Ranged(open', ballots') /\ agreed' \in C!Meant
<1> SUFFICES ASSUME CountsInv, C!Finalise
             PROVE  Ranged(open', ballots') /\ agreed' \in C!Meant
  OBVIOUS
<1> DEFINE n == Len(open)
           U == C!Undecided
           m == Cardinality(U)
           P == {i \in DOMAIN open : open[i].due /\ C!Passes(open[i])}
<1>1. open \in Seq(Prop) /\ n \in Nat /\ DOMAIN open = 1 .. n
  BY DEF CountsInv, VoteInv, Tallied
<1>2. U \in SUBSET (1 .. n) /\ P \in SUBSET (1 .. n)
  BY <1>1 DEF C!Undecided
<1>3. PICK f \in [1 .. m -> U] :
        /\ open' = [i \in 1 .. m |-> open[f[i]]]
        /\ ballots' = [k \in {open[i].key : i \in U} |-> ballots[k]]
  BY VoteSize DEF C!Finalise, C!Pruned
<1>4. agreed' = IF P = {} THEN agreed ELSE ballots[open[C!Max(P)].key]
  BY DEF C!Finalise
<1> HIDE DEF U, P, n
<1>5. m \in Nat
  BY <1>1, <1>2, PlacesAreFew
<1> HIDE DEF m
<1>6. Len(open') = m
  BY <1>3, <1>5
<1>7. ASSUME NEW i \in 1 .. m
      PROVE  /\ open'[i].for \in 1 .. MaxVotes /\ open'[i].against \in 0 .. MaxVotes
             /\ ballots'[open'[i].key].twin => ballots'[open'[i].key] = C!Twin
  <2> DEFINE j == f[i]
  <2>1. j \in U /\ open'[i] = open[j]
    BY <1>3, <1>7
  <2> HIDE DEF j
  <2>2. j \in 1 .. n
    BY <1>2, <2>1
  <2>3. ballots'[open[j].key] = ballots[open[j].key]
    BY <1>3, <2>1
  <2>4. /\ open[j].for \in 1 .. MaxVotes /\ open[j].against \in 0 .. MaxVotes
        /\ ballots[open[j].key].twin => ballots[open[j].key] = C!Twin
    BY <2>2 DEF CountsInv, Ranged, n
  <2> QED
    BY <2>1, <2>3, <2>4
<1>8. agreed' \in C!Meant
  <2>1. CASE P = {}
    BY <1>4, <2>1 DEF CountsInv
  <2>2. CASE P # {}
    <3>1. C!Max(P) \in 1 .. n
      <4>1. C!Max(P) \in P
        BY <1>1, <1>2, <2>2, Greatest
      <4> QED
        BY <1>2, <4>1
    <3>2. ballots[open[C!Max(P)].key] \in C!Meant
      BY <3>1, MeantIsBounded DEF n
    <3> QED
      BY <1>4, <2>2, <3>2
  <2> QED
    BY <2>1, <2>2
<1>9. ballots' = [k \in DOMAIN ballots' |-> ballots'[k]]
  BY <1>3
<1> QED
  BY <1>6, <1>7, <1>8, <1>9 DEF Ranged

\* Observations are counted as long as there is room.
LEMMA SeenKeeps ==
  ASSUME CountsInv, C!Observe \/ C!Aggregate \/ UNCHANGED <<observed, seen>>
  PROVE  observed' \in 0 .. MaxSeen /\ seen' \in [Kind -> 0 .. observed']
<1>1. /\ observed \in 0 .. MaxSeen /\ seen \in [Kind -> 0 .. observed]
      /\ MaxSeen \in Nat /\ observed \in Nat
  BY CountSizes DEF CountsInv
<1>2. CASE C!Observe
  <2>1. observed < MaxSeen /\ observed' = observed + 1
    BY <1>2 DEF C!Observe
  <2>2. \A k \in Kind : seen[k] \in 0 .. observed' /\ seen[k] + 1 \in 0 .. observed'
    <3> TAKE k \in Kind
    <3>1. seen[k] \in 0 .. observed
      BY <1>1
    <3> QED
      BY <1>1, <2>1, <3>1
  <2>3. CASE UNCHANGED seen
    BY <1>1, <2>1, <2>2, <2>3
  <2>4. CASE \E k \in Kind : seen' = [seen EXCEPT ![k] = @ + 1]
    <3>1. PICK k \in Kind : seen' = [seen EXCEPT ![k] = seen[k] + 1]
      BY <2>4
    <3>2. seen' \in [Kind -> 0 .. observed']
      BY <1>1, <2>2, <3>1
    <3> QED
      BY <1>1, <2>1, <3>2
  <2> QED
    BY <1>2, <2>3, <2>4 DEF C!Observe
<1>3. CASE C!Aggregate
  <2>1. \/ observed' = 0 /\ seen' = [k \in Kind |-> 0]
        \/ UNCHANGED <<observed, seen>>
    BY <1>3 DEF C!Aggregate
  <2> QED
    BY <1>1, <2>1
<1>4. CASE UNCHANGED <<observed, seen>>
  BY <1>1, <1>4
<1> QED
  BY <1>2, <1>3, <1>4

\* Every call of the application.
LEMMA CountsKeep == CountsInv /\ C!Next => CountsInv'
<1> SUFFICES ASSUME CountsInv, C!Next PROVE CountsInv'
  OBVIOUS
<1>1. VoteInv'
  BY VotesKeep DEF CountsInv
<1>2. ASSUME Ranged(open', ballots'), agreed' \in C!Meant, head' \in BOOLEAN,
             C!Observe \/ C!Aggregate \/ UNCHANGED <<observed, seen>>
      PROVE  CountsInv'
  <2>1. observed' \in 0 .. MaxSeen /\ seen' \in [Kind -> 0 .. observed']
    BY <1>2, SeenKeeps
  <2> QED
    BY <1>1, <1>2, <2>1 DEF CountsInv, Ranged, C!Meant
<1>3. /\ agreed \in C!Meant /\ head \in BOOLEAN /\ Ranged(open, ballots)
      /\ open \in Seq(Prop) /\ DOMAIN open = 1 .. Len(open)
  BY DEF CountsInv, VoteInv, Tallied
<1>4. ASSUME C!Proposed PROVE Ranged(open', ballots')
  <2>1. PICK id \in Id : open' = C!Appended(id) /\ ballots' = C!Recorded(id, FALSE)
    BY <1>4 DEF C!Proposed
  <2>2. FALSE \in BOOLEAN /\ Len(open) < MaxProposals
    BY <1>4 DEF C!Proposed
  <2> QED
    BY <2>1, <2>2, RecordedRanged
<1>5. ASSUME UNCHANGED <<open, ballots>> PROVE Ranged(open', ballots')
  BY <1>3, <1>5
<1>6. CASE C!Propose
  BY <1>2, <1>3, <1>4, <1>6 DEF C!Propose
<1>7. CASE C!ProposeObserved
  <2>1. PICK id \in Id :
          LET c == C!Counted(C!Appended(id), id) IN
          /\ ballots' = C!Recorded(id, TRUE)
          /\ IF id = 0 THEN open' = C!Appended(id)
             ELSE /\ C!Appended(id)[c].for < MaxVotes
                  /\ open' = [C!Appended(id) EXCEPT ![c].for = @ + 1]
    BY <1>7 DEF C!ProposeObserved
  <2>2. TRUE \in BOOLEAN /\ Len(open) < MaxProposals
    BY <1>7 DEF C!ProposeObserved
  <2> DEFINE s == C!Appended(id)
             b == C!Recorded(id, TRUE)
             c == C!Counted(s, id)
  <2>3. Ranged(s, b)
    BY <2>2, RecordedRanged
  <2>4. CASE id = 0
    BY <1>2, <1>3, <1>7, <2>1, <2>3, <2>4 DEF C!ProposeObserved
  <2>5. CASE id # 0
    <3>1. Recording(id, TRUE, s, b)
      BY <2>2, RecordedKeeps DEF CountsInv
    <3>2. Voted(s, c, open') /\ ballots' = b
      BY <2>1, <2>5 DEF Voted
    <3> HIDE DEF s, b
    <3>3. s \in Seq(Prop) /\ \E i \in 1 .. Len(s) : s[i].id = id
      <4>1. /\ s \in Seq(Prop) /\ Len(s) = Len(open) + 1 /\ Len(open) \in Nat
            /\ s[Len(open) + 1].id = id
        BY <3>1 DEF Recording
      <4>2. Len(open) + 1 \in 1 .. Len(s)
        BY <4>1
      <4> QED
        BY <4>1, <4>2
    <3>4. c \in 1 .. Len(s)
      BY <3>3, CountedIsFirst
    <3> HIDE DEF c
    <3>5. Forgotten(s, b)
      BY <2>3 DEF Ranged, Forgotten
    <3>6. Ranged(open', ballots')
      BY <2>3, <3>2, <3>3, <3>4, <3>5, VotedRanged
    <3> QED
      BY <1>2, <1>3, <1>7, <3>6 DEF C!ProposeObserved
  <2> QED
    BY <2>4, <2>5
<1>8. CASE C!Aggregate
  <2>1. Ranged(open', ballots')
    BY <1>4, <1>5, <1>8 DEF C!Aggregate
  <2> QED
    BY <1>2, <1>3, <1>8, <2>1 DEF C!Aggregate
<1>9. CASE C!Observe
  <2>1. UNCHANGED <<head, open, agreed, ballots>>
    BY <1>9 DEF C!Observe
  <2> QED
    BY <1>2, <1>3, <1>5, <1>9, <2>1
<1>10. CASE C!Vote
  BY <1>2, <1>3, <1>10, VoteRanged DEF C!Vote
<1>11. CASE C!Deadline
  <2>1. PICK i \in 1 .. Len(open) : open' = [open EXCEPT ![i].due = TRUE]
    BY <1>3, <1>11 DEF C!Deadline
  <2>2. ballots' = ballots
    BY <1>11 DEF C!Deadline
  <2>3. open[i] \in Prop
    BY <1>3
  <2> DEFINE p == [open[i] EXCEPT !.due = TRUE]
  <2>4. p.key = open[i].key /\ p.for = open[i].for /\ p.against = open[i].against
    BY <2>3 DEF Prop
  <2>5. open' = [open EXCEPT ![i] = p]
    BY <2>1
  <2> HIDE DEF p
  <2>6. Len(open') = Len(open) /\ \A j \in 1 .. Len(open) :
          /\ open'[j].key = open[j].key /\ open'[j].for = open[j].for
          /\ open'[j].against = open[j].against
    BY <1>3, <2>4, <2>5
  <2>7. Ranged(open', ballots')
    BY <1>3, <2>2, <2>6 DEF Ranged
  <2> QED
    BY <1>2, <1>3, <1>11, <2>7 DEF C!Deadline
<1>12. CASE C!Finalise
  <2>1. UNCHANGED <<head, seen, observed>>
    BY <1>12 DEF C!Finalise
  <2> QED
    BY <1>2, <1>3, <1>12, <2>1, FinaliseRanged
<1> QED
  BY <1>6, <1>7, <1>8, <1>9, <1>10, <1>11, <1>12 DEF C!Next

\* For any sizes of the queue, the tables and the federation: whatever peers
\* send, vote and observe, every array of the three parts keeps to its room and
\* its type, and averages stay between what they average. That is all of
\* PeersAreContained but that rumours die.
THEOREM PeersStayContained ==
  SwarmSpec => [](G!TypeOK /\ C!TypeOK /\ F!TypeOK) /\ F!AverageIsBetween
<1>1. SwarmInit => G!TypeOK /\ CountsInv
  <2>1. SwarmInit => CountsInv
    BY CountsStart DEF SwarmInit
  <2>2. ASSUME G!Init PROVE G!TypeOK
    <3>1. <<>> \in Seq([msg : Msg, age : G!Age]) /\ <<>> \in Seq(G!Spike) /\ Len(<<>>) = 0
      OBVIOUS
    <3>2. stamp \in [Msg -> G!Age] /\ rumours = <<>> /\ spikes = <<>> /\ reached = 0
      BY <2>2 DEF G!Init
    <3> QED
      BY <3>1, <3>2, GossipSizes DEF G!TypeOK
  <2> QED
    BY <2>1, <2>2 DEF SwarmInit
<1>2. G!TypeOK /\ CountsInv /\ [SwarmNext]_swarmVars => G!TypeOK' /\ CountsInv'
  <2>1. G!TypeOK /\ UNCHANGED gossip => G!TypeOK'
    BY DEF gossip, G!TypeOK, G!Age, G!Spike
  <2>2. CountsInv /\ UNCHANGED consensus => CountsInv'
    BY DEF consensus, CountsInv, Ranged, C!Meant, VoteInv, Tallied, Told,
           C!PassedIsBacked
  <2>3. CASE Gossiping(G!Next)
    BY <2>2, <2>3, GossipKeeps DEF Gossiping
  <2>4. CASE part = "consensus" /\ C!Next /\ UNCHANGED <<part, vars, gossip, federation>>
    BY <2>1, <2>4, CountsKeep
  <2>5. CASE UNCHANGED <<gossip, consensus>>
    BY <2>1, <2>2, <2>5
  <2> QED
    BY <2>3, <2>4, <2>5 DEF SwarmNext, Meshing, swarmVars
<1> QED
  BY <1>1, <1>2, CountsAreTyped, AveragesStayBetween, PTL DEF SwarmSpec
=============================================================================
