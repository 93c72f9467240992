------------------------------ MODULE LedgerStats ------------------------------
(***************************************************************************)
(* The wallets of StakeLedger together with what settleIfFinished writes   *)
(* after them: the statistics of the real players, one after another, and  *)
(* their lists of past matches.  A row of statistics is read, changed in   *)
(* memory and upserted as a whole, without a lock.                         *)
(***************************************************************************)
EXTENDS StakeLedger, Leaderboard

CONSTANTS
  NoStats,      \* the user has no row yet
  NotLoaded,    \* the call has no row in hand
  HistoryKept   \* entries of history:<user> that ltrim keeps

ASSUME StatsAssumption ==
  /\ NoStats \notin StatsRow
  /\ NotLoaded \notin StatsRow
  /\ HistoryKept \in Nat \ {0}

VARIABLES
  stats,      \* the rows of user_stats
  history,    \* history:<user>, the newest first
  due,        \* per handler, what is left to write after the wallets
  loaded      \* per handler, the row that updatePlayerStats works on

recordVars == <<stats, history, due, loaded>>
statsVars  == <<wallet, stage, hs, adjusts, resets, restarts, injected, made,
                stats, history, due, loaded>>

Entry  == [game : Games, won : BOOLEAN]
Record == [what : {"stats", "history"}, who : Users, entry : Entry]

StatsInit ==
  /\ Init
  /\ stats = [u \in Users |-> NoStats]
  /\ history = [u \in Users |-> <<>>]
  /\ due = [h \in Handlers |-> <<>>]
  /\ loaded = [h \in Handlers |-> NotLoaded]

-----------------------------------------------------------------------------
RecordsOf(what, g, winner) ==
  [i \in 1 .. Len(g.players) |->
     [what |-> what, who |-> g.players[i], entry |-> [game |-> g, won |-> g.players[i] = winner]]]

\* variant: the payout counts as won, with the own stake in it
AfterMatchGross(s, e) ==
  IF e.won THEN AfterWin(s, Stake, Payout(Pot(Stake, e.game.size))) ELSE AfterLoss(s, Stake)

\* The row after the match of an entry.  (A match without a stake is left out
\* of the statistics, and a practice match is never settled.)
AfterMatch(s, e) ==
  IF e.won THEN AfterWin(s, Stake, Payout(Pot(Stake, e.game.size)) - Stake)
           ELSE AfterLoss(s, Stake)

RecordsDue(g, winner) ==
  (IF Stake = 0 THEN <<>> ELSE RecordsOf("stats", g, winner)) \o RecordsOf("history", g, winner)

SettleMatch(h, g, winner) ==
  /\ Settle(h, g, winner)
  /\ due' = [due EXCEPT ![h] = RecordsDue(g, winner)]
  /\ UNCHANGED <<stats, history, loaded>>

\* The handler h has done the wallets and is to write the given kind of record.
Writing(h, what) ==
  /\ hs[h].busy /\ hs[h].todo = <<>>
  /\ due[h] # <<>> /\ Head(due[h]).what = what

RowAsFound(u) == stats[u]                                              \* variant

\* What the row of u says, zeros if there is none.
RowOf(u) == IF stats[u] = NoStats THEN NewStats ELSE stats[u]

\* findOne, or create a row of zeros
LoadStats(h) ==
  /\ Writing(h, "stats")
  /\ loaded[h] = NotLoaded
  /\ loaded' = [loaded EXCEPT ![h] = RowOf(Head(due[h]).who)]
  /\ UNCHANGED <<vars, stats, history, due>>

UpsertStats(h) ==
  /\ Writing(h, "stats")
  /\ loaded[h] # NotLoaded
  /\ stats' = [stats EXCEPT ![Head(due[h]).who] = AfterMatch(loaded[h], Head(due[h]).entry)]
  /\ loaded' = [loaded EXCEPT ![h] = NotLoaded]
  /\ due' = [due EXCEPT ![h] = Tail(@)]
  /\ UNCHANGED <<vars, history>>

\* addMatchToHistory: lpush and ltrim
Remember(h) ==
  /\ Writing(h, "history")
  /\ LET all == <<Head(due[h]).entry>> \o history[Head(due[h]).who]
     IN  history' = [history EXCEPT ![Head(due[h]).who] =
                       SubSeq(all, 1, IF Len(all) > HistoryKept THEN HistoryKept ELSE Len(all))]
  /\ due' = [due EXCEPT ![h] = Tail(@)]
  /\ UNCHANGED <<vars, stats, loaded>>

\* A call ends when its records are written as well.
FinishCall(h) == Finish(h) /\ due[h] = <<>> /\ UNCHANGED recordVars

RestartServer ==
  /\ Restart
  /\ due' = [h \in Handlers |-> <<>>]
  /\ loaded' = [h \in Handlers |-> NotLoaded]
  /\ UNCHANGED <<stats, history>>

\* The rest of StakeLedger, which writes no records.
WalletStep(h) == (LockedOp(h) \/ Load(h) \/ Select(h) \/ Save(h)) /\ UNCHANGED recordVars

OtherCall ==
  /\ \/ \E g \in Games : Enqueue(g)
     \/ \E h \in Handlers, g \in Games : Assemble(h, g) \/ Fallback(h, g) \/ Cancel(h, g)
     \/ \E h \in Handlers, u \in Users : ResetFrozen(h, u)
     \/ \E h \in Handlers, a \in Adjusted, amt \in Adjustments : UpdateBalance(h, a, amt)
  /\ UNCHANGED recordVars

StatsNext ==
  \/ \E h \in Handlers : WalletStep(h)
  \/ \E h \in Handlers : LoadStats(h) \/ UpsertStats(h) \/ Remember(h) \/ FinishCall(h)
  \/ \E h \in Handlers, g \in Games, winner \in Accounts : SettleMatch(h, g, winner)
  \/ OtherCall
  \/ RestartServer

StatsSpec == StatsInit /\ [][StatsNext]_statsVars

-----------------------------------------------------------------------------
(* Properties *)

StatsTypeOK ==
  /\ stats \in [Users -> StatsRow \cup {NoStats}]
  /\ history \in [Users -> Seq(Entry)]
  /\ due \in [Handlers -> Seq(Record)]
  /\ loaded \in [Handlers -> StatsRow \cup {NotLoaded}]

\* Settlements of one user's matches that overlap lose each other's results
\* (updatePlayerStats), but the row that is left agrees with itself: it counts
\* some of the matches and not a part of one.
StatsConsistent == \A u \in Users : stats[u] # NoStats => Consistent(stats[u])

\* GET wallet/reconcile: the balance of a user with nothing frozen is what it
\* was at first and what the statistics say was won and lost since.  It
\* compares what settlement did to the wallet with what it did to the row.
Reconciled ==
  Quiet => \A u \in Users \ Adjusted :
    wallet[u].frz = 0 => wallet[u].bal = UserBalance + RowOf(u).won - RowOf(u).lost

\* A user whose matches are over and none of them was settled has everything
\* back: forming failed, since the user or the house could not freeze a stake, or
\* the match was cancelled.  (Calls overlapping or not, as long as there has been no
\* reset and no restart, and admins leave the user's balance alone.)
UnsettledUntouched ==
  Quiet /\ resets = MaxResets /\ restarts = MaxRestarts =>
    \A u \in Users \ Adjusted :
      history[u] = <<>> /\ (\A g \in Games : u \in PlayersOf(g) => stage[g] \in {"new", "closed"})
        => wallet[u] = [bal |-> UserBalance, frz |-> 0]

\* The statistics of a user say of the matches in the user's history how many
\* there are, how many were won, how many in a row at last and at most.  The
\* two are written one after the other for each player of a match.
StatsMatchHistory ==
  Quiet => \A u \in Users :
    LET past == history[u]
        allWon(i, j) == \A k \in i .. j : past[k].won
    IN  Stake > 0 /\ Len(past) < HistoryKept =>
          /\ RowOf(u).matches = Len(past)
          /\ RowOf(u).wins = Cardinality({i \in 1 .. Len(past) : past[i].won})
          /\ RowOf(u).streak = Cardinality({n \in 1 .. Len(past) : allWon(1, n)})
          /\ RowOf(u).best = Cardinality({n \in 1 .. Len(past) :
                                 \E i \in 1 .. Len(past) - n + 1 : allWon(i, i + n - 1)})

Rows == [u \in {v \in Users : stats[v] # NoStats} |-> stats[u]]

\* The pages of the leaderboard and GET leaderboard/me give a user the same
\* rank but for ties, on whatever page the user is; for winRate, which orders
\* by wins first, on one page of everybody.
RanksAgree ==
  LET n == Cardinality(DOMAIN Rows)
  IN  \A category \in Category : \A list \in Listings(Rows, category) :
        \A offset \in 0 .. n - 1 : \A limit \in 1 .. n - offset :
          (category = "winRate" => limit = n) =>
            RanksAgreeOn(Rows, category, list, offset, limit)
=============================================================================
