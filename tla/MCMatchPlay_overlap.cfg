CONSTANTS
  u1 = u1
  u2 = u2
  b1 = b1
  b2 = b2
  Users = {u1}
  Movers = {u1}
  Bots = {b1, b2}
  PlayerIds <- OneAndTwo
  Choices = {"ROCK", "PAPER"}
  Submitted = {"ROCK", "WELL"}
  Handlers = {h1, h2}
  Nobody = Nobody
  Deadlines = {d1, d2, d3, d4}
  NoDeadline = NoDeadline
  MaxRound = 1
  MaxLoops = 2
  MaxCancels = 1
  MaxRestarts = 1
  CanLeave = TRUE
SPECIFICATION Spec
SYMMETRY BotSymmetry
INVARIANT TypeOK
INVARIANT RecordsConsistent
INVARIANT OneTimerStarter
\* A match that is over, or stranded, really stops.
CHECK_DEADLOCK FALSE
