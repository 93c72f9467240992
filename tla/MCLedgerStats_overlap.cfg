CONSTANTS
  u1 = u1
  u2 = u2
  u3 = u3
  Users = {u1}
  House = House
  Handlers = {h1, h2}
  Games <- FallbackOnly
  NoGame = NoGame
  NoRow = NoRow
  NoStats = NoStats
  NotLoaded = NotLoaded
  HistoryKept = 1
  Stake = 100
  UserBalance = 150
  HouseBalance = 150
  Adjustments <- Take
  Adjusted = {House}
  MaxAdjusts = 1
  MaxResets = 1
  MaxRestarts = 1
  AdminResets = TRUE
SPECIFICATION StatsSpec
SYMMETRY Symmetry
INVARIANT TypeOK
INVARIANT StatsTypeOK
INVARIANT StatsConsistent
INVARIANT UnsettledUntouched
\* When every match is closed nothing is left to do.
CHECK_DEADLOCK FALSE
