CONSTANTS
  u1 = u1
  u2 = u2
  u3 = u3
  Users = {u1, u2, u3}
  House = House
  Handlers = {h1}
  Games <- DuelAndBots
  NoGame = NoGame
  NoRow = NoRow
  NoStats = NoStats
  NotLoaded = NotLoaded
  HistoryKept = 100
  Stake = 100
  UserBalance = 150
  HouseBalance = 250
  Adjustments <- AddTake
  Adjusted = {u1, u3, House}
  MaxAdjusts = 1
  MaxResets = 1
  MaxRestarts = 0
  AdminResets = FALSE
SPECIFICATION StatsSpec
INVARIANT Conserved
INVARIANT FrozenBacked
INVARIANT Reconciled
INVARIANT StatsMatchHistory
INVARIANT RanksAgree
\* When every match is closed nothing is left to do.
CHECK_DEADLOCK FALSE
