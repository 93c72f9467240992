CONSTANTS
  Users = {u1, u2}
  Queues = {q1}
  Size <- SizeTwo
  Handlers = {h1}
  Nobody = Nobody
  MaxTickets = 2
  MaxAsks = 1
  MaxRestarts = 1
SPECIFICATION FairSpec
INVARIANT QueueTypeOK
INVARIANT OneMatchPerTicket
INVARIANT DistinctPlayers
INVARIANT QueueXorMatch
PROPERTY NobodyWaitsForEver
\* When the tickets are used up and the matches over, nothing is left to do.
CHECK_DEADLOCK FALSE
