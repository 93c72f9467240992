CONSTANTS
  Users = {u1}
  Queues = {q1}
  Size <- SizeTwo
  Handlers = {h1, h2}
  Nobody = Nobody
  MaxTickets = 1
  MaxAsks = 0
  MaxRestarts = 0
SPECIFICATION Spec
INVARIANT OneMatchPerTicket
\* When the tickets are used up and the matches over, nothing is left to do.
CHECK_DEADLOCK FALSE
