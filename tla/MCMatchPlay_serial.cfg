CONSTANTS
  u1 = u1
  u2 = u2
  b1 = b1
  b2 = b2
  Users = {u1, u2}
  Movers = {u1, u2}
  Bots = {b1, b2}
  PlayerIds <- TwoAndTwo
  Choices = {"ROCK", "PAPER"}
  Submitted = {"ROCK", "PAPER", "WELL", "NOMOVE"}
  Handlers = {h1}
  Nobody = Nobody
  Deadlines = {d1, d2, d3}
  NoDeadline = NoDeadline
  MaxRound = 2
  MaxLoops = 2
  MaxCancels = 1
  MaxRestarts = 0
  CanLeave = FALSE
SPECIFICATION Spec
SYMMETRY Symmetry
INVARIANT NeverStranded
INVARIANT AcceptedMoveCounts
INVARIANT SettledAtMostOnce
PROPERTY NoDuplicateMove
PROPERTY NoRollback
\* A match that is over, or stranded, really stops.
CHECK_DEADLOCK FALSE
PROPERTY ImplementsGame
