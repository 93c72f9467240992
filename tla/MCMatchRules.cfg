CONSTANTS
  PlayerIds <- FivePlayers
  Submitted = {"ROCK", "PAPER", "SCISSORS", "WELL", "LIZARD"}
  Stakes = {0, 1, 9, 10, 19, 20, 99, 100, 999, 10000}
SPECIFICATION Spec
INVARIANT SurvivorsMatchReference
INVARIANT MoneyAddsUp
PROPERTY DecidedRoundsShrink
\* A match with one player left is over.
CHECK_DEADLOCK FALSE
