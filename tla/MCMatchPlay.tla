---------------------------- MODULE MCMatchPlay ----------------------------
EXTENDS MatchPlay, TLC

CONSTANTS u1, u2, b1, b2

\* m.playerIds, as tickets and fallbacks list them: users, then bots.
OneAndOne == <<u1, b1>>
OneAndTwo == <<u1, b1, b2>>
TwoUsers  == <<u1, u2>>
TwoAndTwo == <<u1, u2, b1, b2>>

\* The order of the players matters, so they are not interchangeable,
Symmetry == Permutations(Deadlines) \cup Permutations(Handlers)

\* except two bots behind the one user whose moves are of two kinds: of the three
\* players no more than three moves are different, and two that differ are the
\* user's and the bots', or the two of the bots, of which the better one wins.
BotSymmetry == Symmetry \cup Permutations(Bots)
=============================================================================
