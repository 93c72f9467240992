------------------------------ MODULE PlayerStats ------------------------------
(***************************************************************************)
(* A row of user_stats, what updatePlayerStats makes of it after a match,  *)
(* and how the leaderboard ranks the rows.                                 *)
(***************************************************************************)
EXTENDS Integers, Sequences

\* totalMatches, wins, losses, totalWonVp, totalLostVp, totalStakedVp,
\* biggestWinVp, biggestStakeVp, winStreak, maxWinStreak
StatsRow == [matches : Nat, wins : Nat, losses : Nat, won : Nat, lost : Nat, staked : Nat,
             bigWin : Nat, bigStake : Nat, streak : Nat, best : Nat]

NewStats == [matches |-> 0, wins |-> 0, losses |-> 0, won |-> 0, lost |-> 0, staked |-> 0,
             bigWin |-> 0, bigStake |-> 0, streak |-> 0, best |-> 0]

Larger(a, b) == IF a > b THEN a ELSE b

AfterWinOldStreak(s, stake, profit) ==               \* variant: best before the streak grows
  [matches |-> s.matches + 1, wins |-> s.wins + 1, losses |-> s.losses,
   won |-> s.won + profit, lost |-> s.lost, staked |-> s.staked + stake,
   bigWin |-> Larger(profit, s.bigWin), bigStake |-> Larger(stake, s.bigStake),
   streak |-> s.streak + 1, best |-> Larger(s.streak, s.best)]

AfterWin(s, stake, profit) ==
  [matches |-> s.matches + 1, wins |-> s.wins + 1, losses |-> s.losses,
   won |-> s.won + profit, lost |-> s.lost, staked |-> s.staked + stake,
   bigWin |-> Larger(profit, s.bigWin), bigStake |-> Larger(stake, s.bigStake),
   streak |-> s.streak + 1, best |-> Larger(s.streak + 1, s.best)]

AfterLossOnStreak(s, stake) ==                       \* variant: the streak goes on
  [matches |-> s.matches + 1, wins |-> s.wins, losses |-> s.losses + 1,
   won |-> s.won, lost |-> s.lost + stake, staked |-> s.staked + stake,
   bigWin |-> s.bigWin, bigStake |-> Larger(stake, s.bigStake),
   streak |-> s.streak, best |-> s.best]

AfterLoss(s, stake) ==
  [matches |-> s.matches + 1, wins |-> s.wins, losses |-> s.losses + 1,
   won |-> s.won, lost |-> s.lost + stake, staked |-> s.staked + stake,
   bigWin |-> s.bigWin, bigStake |-> Larger(stake, s.bigStake),
   streak |-> 0, best |-> s.best]

\* A row that agrees with itself: every match was won or lost, a streak is part
\* of the longest one and that of the wins, who never lost is on a streak, the
\* largest win and stake are part of their sums, and so are the stakes lost.
Consistent(s) ==
  /\ s.wins + s.losses = s.matches
  /\ s.streak <= s.best /\ s.best <= s.wins
  /\ s.losses = 0 => s.streak = s.wins
  /\ s.bigWin <= s.won
  /\ s.lost <= s.staked /\ s.bigStake <= s.staked

-----------------------------------------------------------------------------
(* Ranks *)

Category == {"wins", "winRate", "profit", "streak", "biggestWin"}

\* Math.round of the percentage of matches won.
WinRate(s) == IF s.matches = 0 THEN 0 ELSE (200 * s.wins + s.matches) \div (2 * s.matches)

\* getOrderField, the column that the rows are ordered by: by wins for winRate.
OrderValue(s, category) ==
  CASE category \in {"wins", "winRate"} -> s.wins
    [] category = "profit"              -> s.won
    [] category = "streak"              -> s.streak
    [] category = "biggestWin"          -> s.best

\* getCategoryValue
CategoryValue(s, category) == IF category = "winRate" THEN WinRate(s) ELSE OrderValue(s, category)
=============================================================================
