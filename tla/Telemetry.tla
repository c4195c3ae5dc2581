------------------------------ MODULE Telemetry ------------------------------
(***************************************************************************)
(* The spike trace and the causal graph read from it                       *)
(* (telemetry/spike_trace.rs, telemetry/xai.rs).  Neurons that fire append *)
(* to a ring (nothing in the program starts the recording: that is left    *)
(* to the application); every 500 steps and in each emergency              *)
(* analyze_current_trace reads the whole ring again into the graph.        *)
(*                                                                         *)
(* fired remembers what was logged, and since where the recording or the   *)
(* last clearing began in it, which the program does not.                  *)
(***************************************************************************)
EXTENDS Integers, FiniteSets, FiniteSetsExt, Sequences, SequencesExt

CONSTANTS Size,             \* SPIKE_TRACE_BUFFER: 8192
          MaxEdges,         \* MAX_EDGES: 4096
          Tracks,           \* places for bursts: 64
          Neurons, Layer,   \* neurons and their layer
          Pauses,           \* ticks between two spikes
          MaxFired, MaxRuns \* bounds: spikes and analyses

VARIABLES buffer, head, tail, recording, edges, runs, now, fired, since

vars == <<buffer, head, tail, recording, edges, runs, now, fired, since>>

NoEvent == [n |-> CHOOSE n \in Neurons : TRUE, t |-> 0]

Init ==
  /\ buffer = [i \in 0 .. Size - 1 |-> NoEvent] /\ head = 0 /\ tail = 0
  /\ recording = FALSE /\ edges = <<>> /\ runs = 0 /\ now = 0 /\ fired = <<>>
  /\ since = 0

\* len, and the events iter gives: from the tail on, round the end.
Length == IF head >= tail THEN head - tail ELSE Size - tail + head
Iter == [i \in 1 .. Length |-> buffer[(tail + i - 1) % Size]]
\* export_trace: one slice, so only the part before the end of the array.
Exported ==
  SubSeq(Iter, 1, IF Length = 0 \/ head > tail THEN Length ELSE Size - tail)

StartRecording ==
  /\ ~recording /\ recording' = TRUE
  /\ head' = 0 /\ tail' = 0 /\ since' = Len(fired)
  /\ UNCHANGED <<buffer, edges, runs, now, fired>>

StopRecording ==
  /\ recording /\ recording' = FALSE
  /\ UNCHANGED <<buffer, head, tail, edges, runs, now, fired, since>>

\* Mutated form of Oldest: a full ring keeps its tail.
OldestStays(h) == tail
\* The tail once the head has moved to h: one slot always stays empty.
Oldest(h) == IF h = tail THEN (tail + 1) % Size ELSE tail

\* log_spike; it returns at once when nothing is recorded.
LogSpike(n) ==
  /\ recording /\ Len(fired) < MaxFired
  /\ \E d \in Pauses : now' = now + d
  /\ LET h == (head + 1) % Size
     IN  /\ buffer' = [buffer EXCEPT ![head] = [n |-> n, t |-> now']]
         /\ head' = h /\ tail' = Oldest(h)
  /\ fired' = Append(fired, [n |-> n, t |-> now'])
  /\ UNCHANGED <<recording, edges, runs, since>>

Clear ==
  /\ head # tail /\ head' = 0 /\ tail' = 0 /\ since' = Len(fired)
  /\ UNCHANGED <<buffer, recording, edges, runs, now, fired>>

-----------------------------------------------------------------------------
\* The graph.

\* Confidence, in thousandths: a new edge has 0.5; seen again, count /
\* (count + 10), which stays below that until the tenth time.
Confidence(e) == IF e.count = 1 THEN 500 ELSE (1000 * e.count) \div (e.count + 10)

Labels(pre, post) == <<Layer[pre], Layer[post]>>

\* An edge seen again after d ticks.
Again(e, d) == [e EXCEPT !.count = @ + 1, !.lat = (9 * @ + d) \div 10]

\* update_edge: with no room left the last edge, another one, is relabelled.
Updated(es, pair) ==
  LET a == pair[1]
      b == pair[2]
      known == {i \in 1 .. Len(es) : es[i].pre = a.n /\ es[i].post = b.n}
      new == [pre |-> a.n, post |-> b.n, count |-> 1, lat |-> b.t - a.t,
              layers |-> <<0, 0>>]
      grown == IF Len(es) < MaxEdges THEN Append(es, new) ELSE es
  IN  IF known # {}
      THEN [es EXCEPT ![Min(known)] = Again(@, b.t - a.t)]
      ELSE [grown EXCEPT ![Len(grown)].layers = Labels(a.n, b.n)]

\* analyze_events pairs each event with the one before its predecessor, if
\* that was less than 10 ticks ago and not in the same tick.
Near(pair) == pair[1].t < pair[2].t /\ pair[2].t - pair[1].t < 10
Pairs == [i \in 1 .. Max({2, Length}) - 2 |-> <<Iter[i], Iter[i + 2]>>]
Learned(es, pairs) ==
  LET after[k \in 0 .. Len(pairs)] ==
        IF k = 0 THEN es
        ELSE IF Near(pairs[k]) THEN Updated(after[k - 1], pairs[k])
        ELSE after[k - 1]
  IN  after[Len(pairs)]

\* analyze_current_trace.  Analysed again, the same events count again.
Analyze ==
  /\ Length > 0 /\ runs < MaxRuns
  /\ edges' = Learned(edges, Pairs) /\ runs' = runs + 1
  /\ UNCHANGED <<buffer, head, tail, recording, now, fired, since>>

Next ==
  \/ StartRecording \/ StopRecording \/ Clear \/ Analyze
  \/ \E n \in Neurons : LogSpike(n)

-----------------------------------------------------------------------------
\* What is read off the trace and the graph.

\* detect_bursts: one spike s and the tracks up to then.  A track that has
\* three spikes ends with the first one that is 5 ticks late.
Tracked(ts, s) ==
  LET open == {i \in 1 .. Len(ts) : ts[i].n = s.n /\ ~ts[i].done}
      i == Min(open)
      new == [n |-> s.n, start |-> s.t, count |-> 1, done |-> FALSE]
      add(seq) == IF Len(seq) < Tracks THEN Append(seq, new) ELSE seq
  IN  IF open = {} THEN add(ts)
      ELSE IF s.t - ts[i].start < 5 THEN [ts EXCEPT ![i].count = @ + 1]
      ELSE IF ts[i].count < 3 THEN [ts EXCEPT ![i] = new]
      ELSE add([ts EXCEPT ![i].done = TRUE])
Bursts ==
  LET tracks[k \in 0 .. Length] ==
        IF k = 0 THEN <<>> ELSE Tracked(tracks[k - 1], Iter[k])
  IN  {b \in Range(tracks[Length]) : b.count >= 3}

\* top_causal_paths: a stable sort of the edges, the surest first.
Before(i, j) == \/ Confidence(edges[i]) > Confidence(edges[j])
                \/ Confidence(edges[i]) = Confidence(edges[j]) /\ i < j
TopPaths(n) ==
  [k \in 1 .. n |-> CHOOSE i \in DOMAIN edges :
                      Cardinality({j \in DOMAIN edges : Before(j, i)}) = k - 1]

\* format_decision_explanation: each edge is inserted before the first of
\* the three ranks that is free or less sure.
Ranked(top, i) ==
  LET after == {r \in 1 .. Len(top) :
                  Confidence(edges[i]) > Confidence(edges[top[r]])}
      r == Min(after \cup {Len(top) + 1})
      all == SubSeq(top, 1, r - 1) \o <<i>> \o SubSeq(top, r, Len(top))
  IN  SubSeq(all, 1, Min({3, Len(all)}))
TopThree ==
  LET top[k \in 0 .. Len(edges)] ==
        IF k = 0 THEN <<>> ELSE Ranked(top[k - 1], k)
  IN  top[Len(edges)]

\* The neurons reconstruct_path_to has left.
Left(path) == {edges[i].post : i \in Range(path)}

\* reconstruct_path_to, one step back from the neuron the path (of edges,
\* the last first) has come to: over the surest edge from one not yet left.
Back(output, path) ==
  LET at == IF path = <<>> THEN output ELSE edges[path[Len(path)]].pre
      into == {i \in DOMAIN edges : edges[i].post = at /\ edges[i].pre \notin Left(path)}
      best == {i \in into : \A j \in into \ {i} : Before(i, j)}
  IN  IF into = {} THEN path ELSE Append(path, CHOOSE i \in best : TRUE)
PathTo(output, depth) ==
  LET path[k \in 0 .. depth] ==
        IF k = 0 THEN <<>> ELSE Back(output, path[k - 1])
  IN  path[depth]

-----------------------------------------------------------------------------
\* The ring holds the newest spikes of the recording, in their order, and an
\* export is the first part of them; log_spike moves the tail when full.
NewestAreKept ==
  LET n == Min({Len(fired) - since, Size - 1})
  IN  /\ Iter = SubSeq(fired, Len(fired) - n + 1, Len(fired))
      /\ IsPrefix(Exported, Iter)

\* A burst stands for that many spikes of its neuron within 5 ticks.
BurstsAreReal ==
  \A b \in Bursts :
    b.count <= Cardinality({i \in 1 .. Length :
      Iter[i].n = b.n /\ Iter[i].t - b.start \in 0 .. 4 /\ Iter[i].t >= b.start})

\* A reconstructed path ends at its output, links up, takes no edge twice
\* and, self loops apart, comes to no neuron twice, though the graph of what
\* fired together may have any cycle.
PathsAreChains ==
  \A o \in Neurons :
    LET path == PathTo(o, Cardinality(Neurons) + 2)
        steps == {i \in Range(path) : edges[i].pre # edges[i].post}
    IN  path # <<>> =>
          /\ edges[path[1]].post = o
          /\ \A k \in 2 .. Len(path) : edges[path[k]].post = edges[path[k - 1]].pre
          /\ IsInjective(path)
          /\ Cardinality({o} \cup {edges[i].pre : i \in steps}) = Cardinality(steps) + 1

\* Both rankings of the code name the same edges in the same order.
RankingsAgree == TopThree = TopPaths(Min({3, Len(edges)}))

\* One edge stands for a pair, and shows the layers of its neurons unless
\* it is the last of a full graph, which update_edge may have relabelled.
EdgesAreTrue ==
  \A i \in DOMAIN edges :
    /\ \A j \in DOMAIN edges \ {i} :
         <<edges[i].pre, edges[i].post>> # <<edges[j].pre, edges[j].post>>
    /\ i < MaxEdges => edges[i].layers = <<Layer[edges[i].pre], Layer[edges[i].post]>>
\* The module's invariants, which share a run.
RecordIsTrue ==
  /\ NewestAreKept /\ BurstsAreReal
  /\ PathsAreChains /\ RankingsAgree /\ EdgesAreTrue
=============================================================================
