CONSTANTS
  u1 = u1
  u2 = u2
  b1 = b1
  b2 = b2
  Users = {u1, u2}
  Movers = {}
  Bots = {b1, b2}
  PlayerIds <- TwoAndTwo
  Choices = {"ROCK", "PAPER"}
  Submitted = {"ROCK", "PAPER"}
  Handlers = {h1, h2, h3}
  Nobody = Nobody
  Deadlines = {d1, d2, d3, d4}
  NoDeadline = NoDeadline
  MaxRound = 3
  MaxLoops = 2
  MaxCancels = 0
  MaxRestarts = 0
  CanLeave = FALSE
SPECIFICATION FairSpec
INVARIANT NeverStranded
INVARIANT SettledAtMostOnce
PROPERTY RoundDecided
\* A match that is over, or stranded, really stops.
CHECK_DEADLOCK FALSE
