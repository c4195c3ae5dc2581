\* More peers than places in the tables of Mesh, one place in its queue.
SPECIFICATION SwarmSpec
CONSTANTS
  Peer = {p1, p2, p3}
  MaxNodes = 2
  MaxRoutes = 1
  MaxQueue = 1
  MaxRetries = 1
  MaxMisses = 0
  FailBatch = 1
  MaxHops = 2
  Msg = {m1, m2}
  MaxGossip = 3
  Fanout = 2
  MaxTargets = 3
  Life = 2
  Skew = 1
  MaxSpikes = 1
  SpikeHops = 1
  Id = {0, 1}
  Kind = {0, 1}
  MaxProposals = 2
  MaxVotes = 2
  MaxSeen = 3
  HeadLimit = 2
  Alike = 2
  Quorum = 3
  Member = {n1}
  Sent <- MCSent
  Top = 3
  Places = 2
  Steps = 2
  MinPeers = 2
  Levels = 2
  MaxAggregates = 2
INVARIANTS
  TablesAgree
  VotesAreHonest
PROPERTIES
  QueueDrains
  PeersAreContained
