--------------------------- MODULE LedgerStatsProofs ---------------------------
(***************************************************************************)
(* However settlements overlap, a row of statistics agrees with itself, the*)
(* leaderboard and GET leaderboard/me agree on the ranks, and the wallets   *)
(* with their records do nothing that StakeLedger does not.  If calls do   *)
(* not overlap, the rows count the histories and reconcile the balances.   *)
(*                                                                         *)
(* A row in the hands of a call is older than the row it will replace, so  *)
(* the first invariant is about both: each was made by whole matches.  The *)
(* last one, RecordsInv, says what the records that a call has yet to write*)
(* will make of the rows, the histories and the books.                     *)
(***************************************************************************)
EXTENDS LedgerStats, StakeLedgerProofs

LoadedOK == \A h \in Handlers : loaded[h] # NotLoaded => Consistent(loaded[h])

StatsInv == StatsTypeOK /\ StatsConsistent /\ LoadedOK

-----------------------------------------------------------------------------
(* One row *)

LEMMA NewStatsConsistent == NewStats \in StatsRow /\ Consistent(NewStats)
<1>1. NewStats \in StatsRow
  BY DEF NewStats, StatsRow
<1>2. Consistent(NewStats)
  BY DEF NewStats, Consistent
<1> QED
  BY <1>1, <1>2

\* The fields of a row are natural numbers, and a row of such fields is one.
LEMMA RowFields ==
  ASSUME NEW s \in StatsRow
  PROVE  /\ s.matches \in Nat /\ s.wins \in Nat /\ s.losses \in Nat /\ s.won \in Nat
         /\ s.lost \in Nat /\ s.staked \in Nat /\ s.bigWin \in Nat /\ s.bigStake \in Nat
         /\ s.streak \in Nat /\ s.best \in Nat
BY DEF StatsRow

LEMMA LargerNat ==
  ASSUME NEW a \in Nat, NEW b \in Nat
  PROVE  /\ Larger(a, b) \in Nat
         /\ a <= Larger(a, b) /\ b <= Larger(a, b)
         /\ Larger(a, b) = a \/ Larger(a, b) = b
BY DEF Larger

LEMMA WinKeepsRow ==
  ASSUME NEW s \in StatsRow, Consistent(s), NEW stake \in Nat, NEW profit \in Nat
  PROVE  AfterWin(s, stake, profit) \in StatsRow /\ Consistent(AfterWin(s, stake, profit))
<1> DEFINE t == AfterWin(s, stake, profit)
           bigStake == Larger(stake, s.bigStake)
           bigWin == Larger(profit, s.bigWin)
           best == Larger(s.streak + 1, s.best)
<1>1. /\ s.matches \in Nat /\ s.wins \in Nat /\ s.losses \in Nat /\ s.won \in Nat
      /\ s.lost \in Nat /\ s.staked \in Nat /\ s.bigWin \in Nat /\ s.bigStake \in Nat
      /\ s.streak \in Nat /\ s.best \in Nat
  BY RowFields
<1>2. /\ bigStake \in Nat /\ (bigStake = stake \/ bigStake = s.bigStake)
      /\ bigWin \in Nat /\ (bigWin = profit \/ bigWin = s.bigWin)
      /\ best \in Nat /\ (best = s.streak + 1 \/ best = s.best)
      /\ s.streak + 1 <= best
  <2>1. s.streak + 1 \in Nat
    BY <1>1
  <2> QED
    BY <1>1, <2>1, LargerNat
<1> HIDE DEF bigStake, bigWin, best
<1>3. t = [matches |-> s.matches + 1, wins |-> s.wins + 1, losses |-> s.losses,
           won |-> s.won + profit, lost |-> s.lost, staked |-> s.staked + stake,
           bigWin |-> bigWin, bigStake |-> bigStake, streak |-> s.streak + 1, best |-> best]
  BY DEF AfterWin, bigStake, bigWin, best
<1> HIDE DEF t
<1>4. t \in StatsRow
  BY <1>1, <1>2, <1>3 DEF StatsRow
<1>5. /\ t.matches = s.matches + 1 /\ t.wins = s.wins + 1 /\ t.losses = s.losses
      /\ t.won = s.won + profit /\ t.lost = s.lost /\ t.staked = s.staked + stake
      /\ t.bigWin = bigWin /\ t.bigStake = bigStake /\ t.streak = s.streak + 1 /\ t.best = best
  BY <1>3
<1>6. Consistent(t)
  BY <1>1, <1>2, <1>5 DEF Consistent
<1> QED
  BY <1>4, <1>6 DEF t

LEMMA LossKeepsRow ==
  ASSUME NEW s \in StatsRow, Consistent(s), NEW stake \in Nat
  PROVE  AfterLoss(s, stake) \in StatsRow /\ Consistent(AfterLoss(s, stake))
<1> DEFINE t == AfterLoss(s, stake)
           bigStake == Larger(stake, s.bigStake)
<1>1. /\ s.matches \in Nat /\ s.wins \in Nat /\ s.losses \in Nat /\ s.won \in Nat
      /\ s.lost \in Nat /\ s.staked \in Nat /\ s.bigWin \in Nat /\ s.bigStake \in Nat
      /\ s.streak \in Nat /\ s.best \in Nat
  BY RowFields
<1>2. bigStake \in Nat /\ (bigStake = stake \/ bigStake = s.bigStake)
  BY <1>1, LargerNat
<1> HIDE DEF bigStake
<1>3. t = [matches |-> s.matches + 1, wins |-> s.wins, losses |-> s.losses + 1,
           won |-> s.won, lost |-> s.lost + stake, staked |-> s.staked + stake,
           bigWin |-> s.bigWin, bigStake |-> bigStake, streak |-> 0, best |-> s.best]
  BY DEF AfterLoss, bigStake
<1> HIDE DEF t
<1>4. t \in StatsRow
  BY <1>1, <1>2, <1>3 DEF StatsRow
<1>5. /\ t.matches = s.matches + 1 /\ t.wins = s.wins /\ t.losses = s.losses + 1
      /\ t.won = s.won /\ t.lost = s.lost + stake /\ t.staked = s.staked + stake
      /\ t.bigWin = s.bigWin /\ t.bigStake = bigStake /\ t.streak = 0 /\ t.best = s.best
  BY <1>3
<1>6. Consistent(t)
  BY <1>1, <1>2, <1>5 DEF Consistent
<1> QED
  BY <1>4, <1>6 DEF t

\* The winner of a match of two or more gains.
LEMMA ProfitNat ==
  ASSUME NEW g \in Games
  PROVE  Payout(Pot(Stake, g.size)) - Stake \in Nat
<1>1. Stake \in Nat /\ g.size \in Nat /\ g.size >= 2
  BY LedgerAssumption DEF Game
<1> DEFINE pot == Pot(Stake, g.size)
<1>2. PICK k \in Nat : g.size = 2 + k
  <2>1. g.size - 2 \in Nat /\ g.size = 2 + (g.size - 2)
    BY <1>1
  <2> QED
    BY <2>1
<1>3. \A a, b \in Nat : a * b \in Nat /\ a * (2 + b) = 2 * a + a * b
  OBVIOUS
<1>4. pot = 2 * Stake + Stake * k /\ Stake * k \in Nat
  BY <1>1, <1>2, <1>3 DEF Pot
<1>5. pot \in Nat /\ pot >= 2 * Stake
  BY <1>1, <1>4
<1>6. Fee(pot) \in Nat /\ Payout(pot) \in Nat /\ Fee(pot) + Payout(pot) = pot /\ 20 * Fee(pot) <= pot
  BY <1>5, FeeAndPayout
<1>7. Payout(pot) >= Stake
  BY <1>1, <1>5, <1>6
<1> QED
  BY <1>1, <1>6, <1>7

LEMMA MatchKeepsRow ==
  ASSUME NEW s \in StatsRow, Consistent(s), NEW e \in Entry
  PROVE  AfterMatch(s, e) \in StatsRow /\ Consistent(AfterMatch(s, e))
<1>1. Stake \in Nat /\ e.game \in Games
  BY LedgerAssumption DEF Entry
<1>2. Payout(Pot(Stake, e.game.size)) - Stake \in Nat
  BY <1>1, ProfitNat
<1> QED
  BY <1>1, <1>2, WinKeepsRow, LossKeepsRow DEF AfterMatch

-----------------------------------------------------------------------------
(* What a settlement is to record *)

LEMMA RecordsOfInSeq ==
  ASSUME NEW what \in {"stats", "history"}, NEW g \in Games, NEW winner
  PROVE  RecordsOf(what, g, winner) \in Seq(Record)
<1>1. g.players \in Seq(Users)
  BY LedgerAssumption DEF Game
<1>2. \A i \in 1 .. Len(g.players) : g.players[i] \in Users
  BY <1>1
<1>3. \A i \in 1 .. Len(g.players) :
        [what |-> what, who |-> g.players[i],
         entry |-> [game |-> g, won |-> g.players[i] = winner]] \in Record
  BY <1>2 DEF Record, Entry
<1>4. Len(g.players) \in Nat
  BY <1>1
<1> QED
  BY <1>3, <1>4 DEF RecordsOf

LEMMA RecordsDueInSeq ==
  ASSUME NEW g \in Games, NEW winner
  PROVE  RecordsDue(g, winner) \in Seq(Record)
<1>1. RecordsOf("stats", g, winner) \in Seq(Record) /\ RecordsOf("history", g, winner) \in Seq(Record)
  BY RecordsOfInSeq
<1> QED
  BY <1>1 DEF RecordsDue

LEMMA DueRecord ==
  ASSUME StatsTypeOK, NEW h \in Handlers, NEW what, Writing(h, what)
  PROVE  /\ Head(due[h]) \in Record
         /\ Head(due[h]).who \in Users
         /\ Head(due[h]).entry \in Entry
         /\ Tail(due[h]) \in Seq(Record)
<1>1. due[h] \in Seq(Record) /\ due[h] # <<>>
  BY DEF StatsTypeOK, Writing
<1>2. Head(due[h]) \in Record /\ Tail(due[h]) \in Seq(Record)
  BY <1>1
<1> QED
  BY <1>2 DEF Record

-----------------------------------------------------------------------------
(* The steps *)

LEMMA InitStats == StatsInit => StatsInv
<1> SUFFICES ASSUME StatsInit PROVE StatsInv
  OBVIOUS
<1>1. StatsTypeOK
  BY DEF StatsInit, StatsTypeOK
<1> QED
  BY <1>1 DEF StatsInit, StatsInv, StatsConsistent, LoadedOK

LEMMA SettleMatchKeeps ==
  ASSUME StatsInv, NEW h \in Handlers, NEW g \in Games, NEW winner \in Accounts,
         SettleMatch(h, g, winner)
  PROVE  StatsInv'
<1>1. due' \in [Handlers -> Seq(Record)]
  BY RecordsDueInSeq DEF SettleMatch, StatsInv, StatsTypeOK
<1> QED
  BY <1>1 DEF SettleMatch, StatsInv, StatsTypeOK, StatsConsistent, LoadedOK

LEMMA LoadStatsKeeps ==
  ASSUME StatsInv, NEW h \in Handlers, LoadStats(h)
  PROVE  StatsInv'
<1> DEFINE u == Head(due[h]).who
<1>1. u \in Users
  BY DueRecord DEF LoadStats, StatsInv
<1>2. RowOf(u) \in StatsRow /\ Consistent(RowOf(u))
  BY <1>1, NewStatsConsistent DEF RowOf, StatsInv, StatsTypeOK, StatsConsistent
<1>3. loaded' = [loaded EXCEPT ![h] = RowOf(u)]
  BY DEF LoadStats
<1>4. loaded' \in [Handlers -> StatsRow \cup {NotLoaded}] /\ LoadedOK'
  BY <1>2, <1>3 DEF StatsInv, StatsTypeOK, LoadedOK
<1> QED
  BY <1>4 DEF LoadStats, StatsInv, StatsTypeOK, StatsConsistent

LEMMA UpsertStatsKeeps ==
  ASSUME StatsInv, NEW h \in Handlers, UpsertStats(h)
  PROVE  StatsInv'
<1> DEFINE u   == Head(due[h]).who
           row == AfterMatch(loaded[h], Head(due[h]).entry)
<1>1. u \in Users /\ Head(due[h]).entry \in Entry /\ Tail(due[h]) \in Seq(Record)
  BY DueRecord DEF UpsertStats, StatsInv
<1>2. loaded[h] \in StatsRow /\ Consistent(loaded[h])
  BY DEF UpsertStats, StatsInv, StatsTypeOK, LoadedOK
<1>3. row \in StatsRow /\ Consistent(row)
  BY <1>1, <1>2, MatchKeepsRow
<1>4. stats' = [stats EXCEPT ![u] = row]
  BY DEF UpsertStats
<1>5. stats' \in [Users -> StatsRow \cup {NoStats}] /\ StatsConsistent'
  BY <1>1, <1>3, <1>4 DEF StatsInv, StatsTypeOK, StatsConsistent
<1>6. loaded' \in [Handlers -> StatsRow \cup {NotLoaded}] /\ LoadedOK'
  BY DEF UpsertStats, StatsInv, StatsTypeOK, LoadedOK
<1>7. due' \in [Handlers -> Seq(Record)]
  BY <1>1 DEF UpsertStats, StatsInv, StatsTypeOK
<1> QED
  BY <1>5, <1>6, <1>7 DEF UpsertStats, StatsInv, StatsTypeOK

LEMMA RememberKeeps ==
  ASSUME StatsInv, NEW h \in Handlers, Remember(h)
  PROVE  StatsInv'
<1> DEFINE u    == Head(due[h]).who
           all  == <<Head(due[h]).entry>> \o history[u]
           last == IF Len(all) > HistoryKept THEN HistoryKept ELSE Len(all)
<1>1. u \in Users /\ Head(due[h]).entry \in Entry /\ Tail(due[h]) \in Seq(Record)
  BY DueRecord DEF Remember, StatsInv
<1>2. history[u] \in Seq(Entry)
  BY <1>1 DEF StatsInv, StatsTypeOK
<1>3. all \in Seq(Entry)
  BY <1>1, <1>2
<1>4. last \in 0 .. Len(all)
  BY <1>3, StatsAssumption
<1>5. SubSeq(all, 1, last) \in Seq(Entry)
  <2> HIDE DEF all, last
  <2>1. \A i \in 1 .. last : all[i] \in Entry
    BY <1>3, <1>4
  <2> QED
    BY <1>3, <1>4, <2>1
<1>6. history' = [history EXCEPT ![u] = SubSeq(all, 1, last)]
  BY DEF Remember
<1>7. history' \in [Users -> Seq(Entry)]
  <2> HIDE DEF all, last
  <2> QED
    BY <1>1, <1>5, <1>6 DEF StatsInv, StatsTypeOK
<1>8. due' \in [Handlers -> Seq(Record)]
  BY <1>1 DEF Remember, StatsInv, StatsTypeOK
<1> QED
  BY <1>7, <1>8 DEF Remember, StatsInv, StatsTypeOK, StatsConsistent, LoadedOK

LEMMA RestartServerKeeps ==
  ASSUME StatsInv, RestartServer
  PROVE  StatsInv'
BY DEF RestartServer, StatsInv, StatsTypeOK, StatsConsistent, LoadedOK

LEMMA UnrecordedKeeps ==
  ASSUME StatsInv, UNCHANGED recordVars
  PROVE  StatsInv'
BY DEF recordVars, StatsInv, StatsTypeOK, StatsConsistent, LoadedOK

LEMMA NextStats == StatsInv /\ [StatsNext]_statsVars => StatsInv'
<1> SUFFICES ASSUME StatsInv, [StatsNext]_statsVars PROVE StatsInv'
  OBVIOUS
<1>1. CASE \E h \in Handlers : WalletStep(h)
  BY <1>1, UnrecordedKeeps DEF WalletStep
<1>2. CASE \E h \in Handlers : LoadStats(h) \/ UpsertStats(h) \/ Remember(h) \/ FinishCall(h)
  BY <1>2, LoadStatsKeeps, UpsertStatsKeeps, RememberKeeps, UnrecordedKeeps DEF FinishCall
<1>3. CASE \E h \in Handlers, g \in Games, winner \in Accounts : SettleMatch(h, g, winner)
  BY <1>3, SettleMatchKeeps
<1>4. CASE OtherCall
  BY <1>4, UnrecordedKeeps DEF OtherCall
<1>5. CASE RestartServer
  BY <1>5, RestartServerKeeps
<1>6. CASE UNCHANGED statsVars
  BY <1>6, UnrecordedKeeps DEF statsVars, recordVars
<1> QED
  BY <1>1, <1>2, <1>3, <1>4, <1>5, <1>6 DEF StatsNext

\* Rows and copies of them are rows of statistics, with natural amounts.
THEOREM StatsTypeCorrect == StatsSpec => []StatsTypeOK
<1>1. StatsInv => StatsTypeOK
  BY DEF StatsInv
<1> QED
  BY <1>1, InitStats, NextStats, PTL DEF StatsSpec

\* However settlements overlap, each row of statistics agrees with itself.
THEOREM StatsAlwaysConsistent == StatsSpec => []StatsConsistent
<1>1. StatsInv => StatsConsistent
  BY DEF StatsInv
<1> QED
  BY <1>1, InitStats, NextStats, PTL DEF StatsSpec

-----------------------------------------------------------------------------
(* The wallets with their records implement the wallets *)

LEMMA StepImplementsLedger == [StatsNext]_statsVars => [Next]_vars
<1> SUFFICES ASSUME [StatsNext]_statsVars PROVE [Next]_vars
  OBVIOUS
<1>1. CASE \E h \in Handlers : WalletStep(h)
  BY <1>1 DEF WalletStep, Next, Step
<1>2. CASE \E h \in Handlers : LoadStats(h) \/ UpsertStats(h) \/ Remember(h)
  <2>1. UNCHANGED vars
    BY <1>2 DEF LoadStats, UpsertStats, Remember
  <2> QED
    BY <2>1
<1>3. CASE \E h \in Handlers : FinishCall(h)
  BY <1>3 DEF FinishCall, Next, Step
<1>4. CASE \E h \in Handlers, g \in Games, winner \in Accounts : SettleMatch(h, g, winner)
  BY <1>4 DEF SettleMatch, Next
<1>5. CASE OtherCall
  BY <1>5 DEF OtherCall, Next
<1>6. CASE RestartServer
  BY <1>6 DEF RestartServer, Next
<1>7. CASE UNCHANGED statsVars
  BY <1>7 DEF statsVars, vars
<1> QED
  BY <1>1, <1>2, <1>3, <1>4, <1>5, <1>6, <1>7 DEF StatsNext

\* Recording statistics and history adds nothing to what happens to wallets:
\* every behaviour with records is one of StakeLedger, so what is proved of
\* the ledger holds here too.
THEOREM ImplementsLedger == StatsSpec => Spec
<1>1. StatsInit => Init
  BY DEF StatsInit
<1> QED
  BY <1>1, StepImplementsLedger, PTL DEF StatsSpec, Spec

\* One call at a time, and with records of it kept, every point is accounted for,
\* those that matches with bots and undone fallbacks make or destroy included.
THEOREM StatsConserved ==
  ASSUME NEW CONSTANT h, OneCall(h), FinitelyMany
  PROVE  StatsSpec => []Conserved
BY ImplementsLedger, SerialConserved, PTL

\* Where every stake is put up by somebody, none is made or destroyed.
THEOREM StatsKeepPoints ==
  ASSUME NEW CONSTANT h, OneCall(h), StakedGames, FinitelyMany
  PROVE  StatsSpec => []PointsKept
BY ImplementsLedger, StakedGamesKeepPoints, PTL

\* And a user has frozen what the open matches of that user hold.
THEOREM StatsFrozenBacked ==
  ASSUME NEW CONSTANT h, OneCall(h), FinitelyMany
  PROVE  StatsSpec => []FrozenBacked
BY ImplementsLedger, SerialFrozenBacked, PTL

-----------------------------------------------------------------------------
(* Ranks *)

\* Sets are compared by injections and bijections.
LEMMA SmallerByInjection ==
  ASSUME NEW S, NEW T, IsFiniteSet(T), NEW f,
         \A x \in S : f[x] \in T, \A x, y \in S : f[x] = f[y] => x = y
  PROVE  IsFiniteSet(S) /\ Cardinality(S) <= Cardinality(T)
<1> DEFINE k == [x \in S |-> f[x]]
<1>1. k \in Injection(S, T)
  BY DEF Injection, IsInjective
<1> QED
  BY <1>1, FS_Injection

LEMMA SameByBijection ==
  ASSUME NEW S, NEW T, IsFiniteSet(T), NEW f,
         \A x \in S : f[x] \in T, \A x, y \in S : f[x] = f[y] => x = y,
         \A t \in T : \E x \in S : f[x] = t
  PROVE  IsFiniteSet(S) /\ Cardinality(S) = Cardinality(T)
<1> DEFINE k == [x \in S |-> f[x]]
<1>1. k \in Injection(S, T)
  BY DEF Injection, IsInjective
<1>2. k \in Surjection(S, T)
  BY DEF Surjection
<1> QED
  BY <1>1, <1>2, FS_Injection

\* A list of distinct members, as many as there are, has them all.
LEMMA ListHasAll ==
  ASSUME NEW D, IsFiniteSet(D), NEW list \in [1 .. Cardinality(D) -> D],
         \A i, j \in 1 .. Cardinality(D) : i < j => list[i] # list[j]
  PROVE  /\ Cardinality(D) \in Nat
         /\ \A i, j \in 1 .. Cardinality(D) : list[i] = list[j] => i = j
         /\ \A d \in D : \E i \in 1 .. Cardinality(D) : list[i] = d
<1> DEFINE n == Cardinality(D)
<1>1. n \in Nat
  BY FS_CardinalityType
<1>2. \A i, j \in 1 .. n : i < j => list[i] # list[j]
  OBVIOUS
<1>3. list \in [1 .. n -> D]
  OBVIOUS
<1> HIDE DEF n
<1>4. \A i, j \in 1 .. n : list[i] = list[j] => i = j
  BY <1>1, <1>2
<1>5. list \in Injection(1 .. n, D)
  BY <1>3, <1>4 DEF Injection, IsInjective
<1>6. Cardinality(1 .. n) = n
  BY <1>1, FS_Interval
<1>7. list \in Surjection(1 .. n, D)
  BY <1>5, <1>6, FS_Injection DEF n
<1> QED
  BY <1>1, <1>4, <1>7 DEF Surjection, n

\* The members of D with a larger value than w, those that tie with it, and the
\* places of a list that come before the k-th once it is sorted by value.
Above(D, val, w) == {d \in D : val[d] > val[w]}
Ties(D, val, w)  == {d \in D : val[d] = val[w]}
Before(n, list, val, k) ==
  {j \in 1 .. n : val[list[j]] > val[list[k]] \/ (val[list[j]] = val[list[k]] /\ j < k)}

\* The place in an ordered list: after all that are above, not after all that tie.
LEMMA PlaceInOrder ==
  ASSUME NEW D, IsFiniteSet(D), NEW list \in [1 .. Cardinality(D) -> D], NEW val \in [D -> Int],
         \A i, j \in 1 .. Cardinality(D) : i < j => list[i] # list[j] /\ val[list[i]] >= val[list[j]],
         NEW k \in 1 .. Cardinality(D)
  PROVE  LET above == Above(D, val, list[k])
             tied  == Ties(D, val, list[k])
         IN  /\ Cardinality(above) \in Nat /\ Cardinality(tied) \in Nat
             /\ 1 + Cardinality(above) <= k
             /\ k < 1 + Cardinality(above) + Cardinality(tied)
<1> DEFINE n == Cardinality(D)
           above == {d \in D : val[d] > val[list[k]]}
           tied  == {d \in D : val[d] = val[list[k]]}
           first == {j \in 1 .. n : val[list[j]] > val[list[k]]}
<1>1. /\ n \in Nat
      /\ \A i, j \in 1 .. n : list[i] = list[j] => i = j
      /\ \A d \in D : \E i \in 1 .. n : list[i] = d
  <2>1. \A i, j \in 1 .. Cardinality(D) : i < j => list[i] # list[j]
    OBVIOUS
  <2> QED
    BY <2>1, ListHasAll
<1>2. /\ list \in [1 .. n -> D] /\ k \in 1 .. n
      /\ \A i, j \in 1 .. n : i < j => val[list[i]] >= val[list[j]]
  OBVIOUS
<1>3. /\ IsFiniteSet(above) /\ IsFiniteSet(tied)
      /\ Cardinality(above) \in Nat /\ Cardinality(tied) \in Nat
  BY FS_Subset, FS_CardinalityType
<1>4. first \subseteq 1 .. k - 1
  <2> HIDE DEF n
  <2> SUFFICES ASSUME NEW j \in 1 .. n, val[list[j]] > val[list[k]] PROVE j \in 1 .. k - 1
    OBVIOUS
  <2>1. val[list[j]] \in Int /\ val[list[k]] \in Int
    BY <1>2
  <2>2. ~(k <= j)
    BY <1>1, <1>2, <2>1
  <2> QED
    BY <1>1, <1>2, <2>2
<1>5. Cardinality(first) <= k - 1 /\ Cardinality(first) \in Nat
  <2> HIDE DEF n, first
  <2>1. k \in Int /\ 1 <= k /\ 1 \in Int /\ k - 1 \in Int
    BY <1>1, <1>2
  <2>2. IsFiniteSet(1 .. k - 1) /\ Cardinality(1 .. k - 1) = (IF 1 > k - 1 THEN 0 ELSE k - 1 - 1 + 1)
    BY <2>1, FS_Interval
  <2>3. Cardinality(1 .. k - 1) = k - 1
    BY <2>1, <2>2
  <2>4. IsFiniteSet(first) /\ Cardinality(first) <= Cardinality(1 .. k - 1)
    <3>1. first \in SUBSET (1 .. k - 1)
      BY <1>4
    <3> QED
      BY <3>1, <2>2, FS_Subset
  <2>5. Cardinality(first) \in Nat
    BY <2>4, FS_CardinalityType
  <2> QED
    BY <2>3, <2>4, <2>5
<1>6. Cardinality(first) = Cardinality(above)
  <2>1. /\ \A x \in first : list[x] \in above
        /\ \A x, y \in first : list[x] = list[y] => x = y
        /\ \A t \in above : \E x \in first : list[x] = t
    BY <1>1, <1>2
  <2> HIDE DEF n, first, above
  <2> QED
    BY <1>3, <2>1, SameByBijection
<1>7. k <= Cardinality(above \cup tied)
  <2>1. /\ \A x \in 1 .. k : list[x] \in above \cup tied
        /\ \A x, y \in 1 .. k : list[x] = list[y] => x = y
    <3>1. \A x \in 1 .. k : x \in 1 .. n /\ (x = k \/ x < k)
      BY <1>1, <1>2
    <3>2. \A x \in 1 .. n : list[x] \in D /\ val[list[x]] \in Int
      BY <1>2
    <3> HIDE DEF n
    <3>3. \A x \in 1 .. k : val[list[x]] >= val[list[k]]
      BY <1>2, <3>1, <3>2
    <3> QED
      BY <1>1, <1>2, <3>1, <3>2, <3>3
  <2> HIDE DEF n, above, tied
  <2>2. IsFiniteSet(above \cup tied)
    BY <1>3, FS_Union
  <2>3. Cardinality(1 .. k) <= Cardinality(above \cup tied)
    BY <2>1, <2>2, SmallerByInjection
  <2>4. Cardinality(1 .. k) = k
    BY <1>1, <1>2, FS_Interval
  <2> QED
    BY <2>3, <2>4
<1>8. Cardinality(above \cup tied) <= Cardinality(above) + Cardinality(tied)
  <2> HIDE DEF n, above, tied
  <2>1. /\ Cardinality(above \cup tied) = Cardinality(above) + Cardinality(tied) - Cardinality(above \cap tied)
        /\ IsFiniteSet(above \cap tied)
    BY <1>3, FS_Union, FS_Intersection
  <2>2. Cardinality(above \cap tied) \in Nat
    BY <2>1, FS_CardinalityType
  <2> QED
    BY <1>3, <2>1, <2>2
<1>9. Cardinality(above \cup tied) \in Nat /\ k \in Nat
  <2> HIDE DEF n, above, tied
  <2>1. IsFiniteSet(above \cup tied)
    BY <1>3, FS_Union
  <2>2. Cardinality(above \cup tied) \in Nat
    BY <2>1, FS_CardinalityType
  <2>3. k \in Nat
    BY <1>1, <1>2
  <2> QED
    BY <2>2, <2>3
<1>10. 1 + Cardinality(above) <= k
  <2> HIDE DEF n, above, tied, first
  <2> QED
    BY <1>3, <1>5, <1>6, <1>9
<1>11. k < 1 + Cardinality(above) + Cardinality(tied)
  <2> HIDE DEF n, above, tied, first
  <2> QED
    BY <1>3, <1>7, <1>8, <1>9
<1> QED
  BY <1>3, <1>10, <1>11 DEF Above, Ties

\* The place by rate on a page of everybody.
LEMMA PlaceByRate ==
  ASSUME NEW D, IsFiniteSet(D), NEW list \in [1 .. Cardinality(D) -> D], NEW val \in [D -> Int],
         \A i, j \in 1 .. Cardinality(D) : i < j => list[i] # list[j],
         NEW k \in 1 .. Cardinality(D)
  PROVE  LET above == Above(D, val, list[k])
             tied  == Ties(D, val, list[k])
             before == Before(Cardinality(D), list, val, k)
         IN  /\ Cardinality(above) \in Nat /\ Cardinality(tied) \in Nat
             /\ Cardinality(before) \in Nat
             /\ Cardinality(above) <= Cardinality(before)
             /\ Cardinality(before) < Cardinality(above) + Cardinality(tied)
<1> DEFINE n == Cardinality(D)
           above == {d \in D : val[d] > val[list[k]]}
           tied  == {d \in D : val[d] = val[list[k]]}
           first == {j \in 1 .. n : val[list[j]] > val[list[k]]}
           before == {j \in 1 .. n : val[list[j]] > val[list[k]] \/ (val[list[j]] = val[list[k]] /\ j < k)}
           others == (above \cup tied) \ {list[k]}
<1>1. /\ n \in Nat
      /\ \A i, j \in 1 .. n : list[i] = list[j] => i = j
      /\ \A d \in D : \E i \in 1 .. n : list[i] = d
  <2>1. \A i, j \in 1 .. Cardinality(D) : i < j => list[i] # list[j]
    OBVIOUS
  <2> QED
    BY <2>1, ListHasAll
<1>2. /\ list \in [1 .. n -> D] /\ k \in 1 .. n
  OBVIOUS
<1>3. /\ IsFiniteSet(above) /\ IsFiniteSet(tied)
      /\ Cardinality(above) \in Nat /\ Cardinality(tied) \in Nat
  BY FS_Subset, FS_CardinalityType
<1>4. IsFiniteSet(before) /\ Cardinality(before) \in Nat
  <2>1. IsFiniteSet(1 .. n)
    BY <1>1, FS_Interval
  <2>2. before \in SUBSET (1 .. n)
    OBVIOUS
  <2> HIDE DEF before, n
  <2>3. IsFiniteSet(before)
    BY <2>1, <2>2, FS_Subset
  <2> QED
    BY <2>3, FS_CardinalityType
<1>5. Cardinality(first) = Cardinality(above)
  <2>1. /\ \A x \in first : list[x] \in above
        /\ \A x, y \in first : list[x] = list[y] => x = y
        /\ \A t \in above : \E x \in first : list[x] = t
    BY <1>1, <1>2
  <2> HIDE DEF n, first, above
  <2> QED
    BY <1>3, <2>1, SameByBijection
<1>6. Cardinality(first) <= Cardinality(before)
  <2>1. first \in SUBSET before
    OBVIOUS
  <2> HIDE DEF first, before
  <2> QED
    BY <1>4, <2>1, FS_Subset
<1>7. IsFiniteSet(above \cup tied) /\ Cardinality(above \cup tied) \in Nat
  <2> HIDE DEF above, tied
  <2>1. IsFiniteSet(above \cup tied)
    BY <1>3, FS_Union
  <2> QED
    BY <2>1, FS_CardinalityType
<1>8. Cardinality(above \cup tied) <= Cardinality(above) + Cardinality(tied)
  <2> HIDE DEF n, above, tied
  <2>1. /\ Cardinality(above \cup tied) = Cardinality(above) + Cardinality(tied) - Cardinality(above \cap tied)
        /\ IsFiniteSet(above \cap tied)
    BY <1>3, FS_Union, FS_Intersection
  <2>2. Cardinality(above \cap tied) \in Nat
    BY <2>1, FS_CardinalityType
  <2> QED
    BY <1>3, <2>1, <2>2
<1>9. IsFiniteSet(others) /\ Cardinality(others) = Cardinality(above \cup tied) - 1
  <2>1. list[k] \in above \cup tied
    BY <1>2
  <2> DEFINE both == above \cup tied
             w == list[k]
  <2>2. w \in both /\ IsFiniteSet(both) /\ others = both \ {w}
    BY <1>7, <2>1
  <2> HIDE DEF both, w, others
  <2>3. IsFiniteSet(both \ {w}) /\ Cardinality(both \ {w}) = Cardinality(both) - 1
    BY <2>2, FS_RemoveElement
  <2> QED
    BY <2>2, <2>3 DEF both
<1>10. Cardinality(before) <= Cardinality(others)
  <2>1. /\ \A x \in before : list[x] \in others
        /\ \A x, y \in before : list[x] = list[y] => x = y
    <3>1. \A x \in before : x \in 1 .. n /\ x # k
      <4>1. val[list[k]] \in Int /\ k \in Int
        BY <1>1, <1>2
      <4> QED
        BY <4>1
    <3> QED
      BY <1>1, <1>2, <3>1
  <2> HIDE DEF n, before, others
  <2> QED
    BY <1>9, <2>1, SmallerByInjection
<1>11. Cardinality(above) <= Cardinality(before)
  BY <1>5, <1>6
<1>12. Cardinality(before) < Cardinality(above) + Cardinality(tied)
  <2> HIDE DEF n, above, tied, before, others
  <2> QED
    BY <1>3, <1>4, <1>7, <1>8, <1>9, <1>10
<1> QED
  BY <1>3, <1>4, <1>11, <1>12 DEF Above, Ties, Before

\* What is on a page.
LEMMA PageOfList ==
  ASSUME NEW n \in Nat, NEW D, NEW list \in [1 .. n -> D],
         NEW offset \in 0 .. n - 1, NEW limit \in 1 .. n - offset
  PROVE  /\ Len(Page(list, offset, limit)) = limit
         /\ \A i \in 1 .. limit : /\ offset + i \in 1 .. n
                                  /\ Page(list, offset, limit)[i] = list[offset + i]
<1>1. list \in Seq(D) /\ Len(list) = n
  OBVIOUS
<1>2. /\ offset + 1 \in 1 .. n + 1 /\ offset + limit \in offset .. n
      /\ offset \in Nat /\ limit \in Nat /\ limit >= 1 /\ offset + limit <= n
  OBVIOUS
<1>3. \A i \in 1 .. limit : offset + i \in 1 .. n
  BY <1>2
<1> QED
  BY <1>1, <1>2, <1>3 DEF Page

\* Every value that users are ranked by is a number.
LEMMA ValueType ==
  ASSUME NEW s \in StatsRow, NEW category \in Category
  PROVE  /\ OrderValue(s, category) \in Int /\ CategoryValue(s, category) \in Int
         /\ category # "winRate" => CategoryValue(s, category) = OrderValue(s, category)
         /\ CategoryValue(s, "winRate") = WinRate(s)
<1>1. OrderValue(s, category) \in Int
  BY DEF OrderValue, StatsRow, Category
<1>2. WinRate(s) \in Int
  <2>1. s.wins \in Int /\ s.matches \in Nat
    BY DEF StatsRow
  <2>2. CASE s.matches = 0
    BY <2>2 DEF WinRate
  <2>3. CASE s.matches # 0
    <3>1. 2 * s.matches \in Int /\ 2 * s.matches > 0 /\ 200 * s.wins + s.matches \in Int
      BY <2>1, <2>3
    <3> QED
      BY <2>3, <3>1 DEF WinRate
  <2> QED
    BY <2>2, <2>3
<1> QED
  BY <1>1, <1>2 DEF CategoryValue

\* Ranks agree on the page, whatever rows there are.
LEMMA PagesAgree ==
  ASSUME NEW rows, IsFiniteSet(DOMAIN rows), rows \in [DOMAIN rows -> StatsRow],
         NEW category \in Category, NEW list \in Listings(rows, category),
         NEW offset \in 0 .. Cardinality(DOMAIN rows) - 1,
         NEW limit \in 1 .. Cardinality(DOMAIN rows) - offset,
         category = "winRate" => limit = Cardinality(DOMAIN rows)
  PROVE  RanksAgreeOn(rows, category, list, offset, limit)
<1> DEFINE D == DOMAIN rows
           n == Cardinality(D)
           page == Page(list, offset, limit)
           val == [d \in D |-> CategoryValue(rows[d], category)]
<1>1. n \in Nat /\ IsFiniteSet(D)
  BY FS_CardinalityType
<1>2. /\ list \in [1 .. n -> D]
      /\ \A i, j \in 1 .. n : i < j =>
           /\ list[i] # list[j]
           /\ OrderValue(rows[list[i]], category) >= OrderValue(rows[list[j]], category)
  BY DEF Listings
<1>3. val \in [D -> Int]
  BY ValueType
<1>4. /\ Len(page) = limit
      /\ \A i \in 1 .. limit : offset + i \in 1 .. n /\ page[i] = list[offset + i]
  <2>1. offset \in 0 .. n - 1 /\ limit \in 1 .. n - offset
    OBVIOUS
  <2>2. list \in [1 .. n -> D]
    BY <1>2
  <2> HIDE DEF n, D
  <2>3. /\ Len(Page(list, offset, limit)) = limit
        /\ \A i \in 1 .. limit : /\ offset + i \in 1 .. n
                                 /\ Page(list, offset, limit)[i] = list[offset + i]
    BY <1>1, <2>1, <2>2, PageOfList
  <2> QED
    BY <2>3
<1>5. offset \in Nat /\ limit \in Nat
  <2> HIDE DEF n
  <2>1. offset \in 0 .. n - 1 /\ limit \in 1 .. n - offset
    BY DEF n
  <2> QED
    BY <1>1, <2>1
<1> SUFFICES ASSUME NEW i \in 1 .. Len(page)
             PROVE  /\ Position(rows, category, page[i]) <= PageRank(rows, category, page, offset, i)
                    /\ PageRank(rows, category, page, offset, i)
                         < Position(rows, category, page[i]) + Cardinality(Tied(rows, category, page[i]))
  BY DEF RanksAgreeOn
<1> DEFINE k == offset + i
           w == list[k]
<1>6. k \in 1 .. n /\ page[i] = w /\ w \in D /\ i \in Nat
  BY <1>2, <1>4, <1>5
<1>7. Position(rows, category, page[i]) = 1 + Cardinality(Above(D, val, w))
  <2>1. \A d \in D : val[d] > val[w] <=> CategoryValue(rows[d], category) > CategoryValue(rows[w], category)
    BY <1>6
  <2> HIDE DEF val, w
  <2>2. Above(D, val, w) = {d \in D : CategoryValue(rows[d], category) > CategoryValue(rows[w], category)}
    BY <2>1 DEF Above
  <2> QED
    BY <1>6, <2>2 DEF Position
<1>8. Tied(rows, category, page[i]) = Ties(D, val, w)
  <2>1. \A d \in D : val[d] = val[w] <=> CategoryValue(rows[d], category) = CategoryValue(rows[w], category)
    BY <1>6
  <2> HIDE DEF val, w
  <2>2. Ties(D, val, w) = {d \in D : CategoryValue(rows[d], category) = CategoryValue(rows[w], category)}
    BY <2>1 DEF Ties
  <2> QED
    BY <1>6, <2>2 DEF Tied
<1>9. CASE category # "winRate"
  <2>1. PageRank(rows, category, page, offset, i) = k
    BY <1>9 DEF PageRank
  <2>2. \A a, b \in 1 .. n : a < b => list[a] # list[b] /\ val[list[a]] >= val[list[b]]
    <3>1. \A d \in D : val[d] = OrderValue(rows[d], category)
      BY <1>9, ValueType
    <3> HIDE DEF val, D, n
    <3> QED
      BY <1>2, <3>1
  <2>3. /\ Cardinality(Above(D, val, w)) \in Nat /\ Cardinality(Ties(D, val, w)) \in Nat
        /\ 1 + Cardinality(Above(D, val, w)) <= k
        /\ k < 1 + Cardinality(Above(D, val, w)) + Cardinality(Ties(D, val, w))
    <3>1. \A a, b \in 1 .. Cardinality(D) : a < b => list[a] # list[b] /\ val[list[a]] >= val[list[b]]
      BY <2>2
    <3>2. list \in [1 .. Cardinality(D) -> D] /\ k \in 1 .. Cardinality(D)
      BY <1>2, <1>6
    <3> HIDE DEF val, D, k
    <3>3. /\ Cardinality(Above(D, val, list[k])) \in Nat
          /\ Cardinality(Ties(D, val, list[k])) \in Nat
          /\ 1 + Cardinality(Above(D, val, list[k])) <= k
          /\ k < 1 + Cardinality(Above(D, val, list[k])) + Cardinality(Ties(D, val, list[k]))
      BY <1>1, <1>3, <3>1, <3>2, PlaceInOrder
    <3> QED
      BY <3>3
  <2> HIDE DEF k, w, page
  <2> QED
    BY <1>7, <1>8, <2>1, <2>3
<1>10. CASE category = "winRate"
  <2>1. limit = n /\ offset = 0
    <3>1. limit = n
      BY <1>10
    <3>2. offset \in 0 .. n - 1 /\ limit \in 1 .. n - offset
      OBVIOUS
    <3> HIDE DEF n
    <3> QED
      BY <1>1, <3>1, <3>2
  <2> DEFINE before == Before(n, list, val, k)
  <2>2. PageRank(rows, category, page, offset, i) = 1 + Cardinality(before)
    <3> DEFINE onpage == {j \in 1 .. Len(page) : WinRate(rows[page[j]]) > WinRate(rows[page[i]])
                                                 \/ (WinRate(rows[page[j]]) = WinRate(rows[page[i]]) /\ j < i)}
    <3>1. PageRank(rows, category, page, offset, i) = 0 + 1 + Cardinality(onpage)
      BY <1>10, <2>1 DEF PageRank
    <3>2. k = i
      BY <1>6, <2>1
    <3>3. \A j \in 1 .. n : page[j] = list[j] /\ list[j] \in D
      BY <1>2, <1>4, <2>1
    <3>4. \A d \in D : val[d] = WinRate(rows[d])
      BY <1>10, ValueType
    <3>5. Len(page) = n /\ i \in 1 .. n
      BY <1>4, <2>1
    <3> HIDE DEF val, D, n, k, page, w
    <3>6. onpage = before
      <4>1. \A j \in 1 .. n : WinRate(rows[page[j]]) = val[list[j]]
        BY <3>3, <3>4
      <4>2. WinRate(rows[page[i]]) = val[list[k]]
        BY <3>2, <3>5, <4>1
      <4> QED
        BY <3>2, <3>5, <4>1, <4>2 DEF Before
    <3> HIDE DEF onpage, before
    <3>7. 0 + 1 = 1
      OBVIOUS
    <3> QED
      BY <3>1, <3>6, <3>7
  <2>3. /\ Cardinality(Above(D, val, w)) \in Nat /\ Cardinality(Ties(D, val, w)) \in Nat
        /\ Cardinality(before) \in Nat
        /\ Cardinality(Above(D, val, w)) <= Cardinality(before)
        /\ Cardinality(before) < Cardinality(Above(D, val, w)) + Cardinality(Ties(D, val, w))
    <3>1. \A a, b \in 1 .. Cardinality(D) : a < b => list[a] # list[b]
      BY <1>2
    <3>2. list \in [1 .. Cardinality(D) -> D] /\ k \in 1 .. Cardinality(D)
      BY <1>2, <1>6
    <3> HIDE DEF val, D, k
    <3>3. /\ Cardinality(Above(D, val, list[k])) \in Nat
          /\ Cardinality(Ties(D, val, list[k])) \in Nat
          /\ Cardinality(Before(Cardinality(D), list, val, k)) \in Nat
          /\ Cardinality(Above(D, val, list[k])) <= Cardinality(Before(Cardinality(D), list, val, k))
          /\ Cardinality(Before(Cardinality(D), list, val, k))
               < Cardinality(Above(D, val, list[k])) + Cardinality(Ties(D, val, list[k]))
      BY <1>1, <1>3, <3>1, <3>2, PlaceByRate
    <3> QED
      BY <3>3
  <2> HIDE DEF k, w, page, before
  <2> QED
    BY <1>7, <1>8, <2>2, <2>3
<1> QED
  BY <1>9, <1>10

LEMMA AllRanksAgree == StatsTypeOK /\ IsFiniteSet(Users) => RanksAgree
<1> SUFFICES ASSUME StatsTypeOK, IsFiniteSet(Users),
                    NEW category \in Category, NEW list \in Listings(Rows, category),
                    NEW offset \in 0 .. Cardinality(DOMAIN Rows) - 1,
                    NEW limit \in 1 .. Cardinality(DOMAIN Rows) - offset,
                    category = "winRate" => limit = Cardinality(DOMAIN Rows)
             PROVE  RanksAgreeOn(Rows, category, list, offset, limit)
  BY DEF RanksAgree
<1>1. DOMAIN Rows \in SUBSET Users /\ Rows \in [DOMAIN Rows -> StatsRow]
  BY DEF StatsTypeOK, Rows
<1>2. IsFiniteSet(DOMAIN Rows)
  BY <1>1, FS_Subset
<1> QED
  BY <1>1, <1>2, PagesAgree

\* Whatever has been recorded, overlapping or not: the pages of the leaderboard
\* and a user's own position give the same rank, but for ties.
THEOREM RanksAlwaysAgree ==
  ASSUME IsFiniteSet(Users)
  PROVE  StatsSpec => []RanksAgree
<1>1. StatsTypeOK => RanksAgree
  BY AllRanksAgree
<1> QED
  BY <1>1, StatsTypeCorrect, PTL

-----------------------------------------------------------------------------
(* What a history counts *)

\* The matches from the i-th to the j-th of a history were all won; how many of
\* the latest ones were; how many in a row anywhere.
AllWon(past, i, j) == \A k \in i .. j : past[k].won
Wins(past) == {i \in 1 .. Len(past) : past[i].won}
LastWins(past) == {n \in 1 .. Len(past) : AllWon(past, 1, n)}
Runs(past) == {n \in 1 .. Len(past) : \E i \in 1 .. Len(past) - n + 1 : AllWon(past, i, i + n - 1)}

\* A row counts the matches of a history.
Counts(row, past) ==
  /\ row.matches = Len(past)
  /\ row.wins = Cardinality(Wins(past))
  /\ LastWins(past) = 1 .. row.streak
  /\ Runs(past) = 1 .. row.best

\* A history with one more match.
LEMMA OneMore ==
  ASSUME NEW past \in Seq(Entry), NEW e \in Entry
  PROVE  LET all == <<e>> \o past
         IN  /\ all \in Seq(Entry) /\ Len(past) \in Nat /\ Len(all) = Len(past) + 1
             /\ all[1] = e
             /\ \A i \in 1 .. Len(past) : all[i + 1] = past[i]
             /\ \A i \in 1 .. Len(past) : past[i].won \in BOOLEAN
             /\ e.won \in BOOLEAN
<1>1. e.won \in BOOLEAN /\ \A i \in 1 .. Len(past) : past[i].won \in BOOLEAN
  <2>1. \A i \in 1 .. Len(past) : past[i] \in Entry
    OBVIOUS
  <2> QED
    BY <2>1 DEF Entry
<1>2. <<e>> \in Seq(Entry) /\ Len(<<e>>) = 1 /\ <<e>>[1] = e
  OBVIOUS
<1> DEFINE one == <<e>>
<1>3. one \in Seq(Entry) /\ Len(one) = 1 /\ one[1] = e
  BY <1>2
<1> HIDE DEF one
<1>4. /\ one \o past \in Seq(Entry) /\ Len(one \o past) = Len(one) + Len(past)
      /\ \A i \in 1 .. Len(one) : (one \o past)[i] = one[i]
      /\ \A i \in 1 .. Len(past) : (one \o past)[Len(one) + i] = past[i]
  BY <1>3, TwoParts
<1>5. Len(past) \in Nat
  OBVIOUS
<1>6. /\ one \o past \in Seq(Entry) /\ Len(past) \in Nat /\ Len(one \o past) = Len(past) + 1
      /\ (one \o past)[1] = e
      /\ \A i \in 1 .. Len(past) : (one \o past)[i + 1] = past[i]
  <2>1. 1 \in 1 .. Len(one) /\ \A i \in 1 .. Len(past) : Len(one) + i = i + 1
    BY <1>3, <1>5
  <2> QED
    BY <1>3, <1>4, <1>5, <2>1
<1> QED
  BY <1>1, <1>6 DEF one

\* The wins of it.
LEMMA OneMoreWins ==
  ASSUME NEW past, NEW all, NEW n \in Nat, Len(past) = n, Len(all) = n + 1, NEW won \in BOOLEAN,
         all[1].won = won, \A i \in 1 .. n : all[i + 1].won = past[i].won
  PROVE  /\ Cardinality(Wins(past)) \in Nat
         /\ Cardinality(Wins(all)) = IF won THEN Cardinality(Wins(past)) + 1 ELSE Cardinality(Wins(past))
<1> DEFINE old == {i \in 1 .. n : past[i].won}
           new == {i \in 1 .. n + 1 : all[i].won}
           shifted == {i \in 2 .. n + 1 : past[i - 1].won}
           f == [i \in old |-> i + 1]
<1>1. IsFiniteSet(shifted) /\ IsFiniteSet(old) /\ Cardinality(old) \in Nat
  <2>1. IsFiniteSet(1 .. n) /\ IsFiniteSet(2 .. n + 1)
    <3>1. 1 \in Int /\ 2 \in Int /\ n \in Int /\ n + 1 \in Int
      OBVIOUS
    <3> QED
      BY <3>1, FS_Interval
  <2>2. old \in SUBSET (1 .. n) /\ shifted \in SUBSET (2 .. n + 1)
    OBVIOUS
  <2> HIDE DEF old, shifted
  <2>3. IsFiniteSet(old) /\ IsFiniteSet(shifted)
    BY <2>1, <2>2, FS_Subset
  <2> QED
    BY <2>3, FS_CardinalityType
<1>2. Cardinality(old) = Cardinality(shifted)
  <2>1. /\ \A x \in old : f[x] \in shifted
        /\ \A x, y \in old : f[x] = f[y] => x = y
        /\ \A t \in shifted : \E x \in old : f[x] = t
    <3>1. \A t \in shifted : t - 1 \in old /\ f[t - 1] = t
      OBVIOUS
    <3>2. \A x \in old : f[x] = x + 1 /\ x \in Int /\ f[x] \in shifted
      OBVIOUS
    <3>3. \A x, y \in old : f[x] = f[y] => x = y
      BY <3>2
    <3> QED
      BY <3>1, <3>2, <3>3
  <2> HIDE DEF old, shifted, f
  <2> QED
    BY <1>1, <2>1, SameByBijection
<1>3. 1 \notin shifted
  OBVIOUS
<1>4. \A i \in 2 .. n + 1 : all[i].won = past[i - 1].won
  <2> SUFFICES ASSUME NEW i \in 2 .. n + 1 PROVE all[i].won = past[i - 1].won
    OBVIOUS
  <2>1. i - 1 \in 1 .. n /\ (i - 1) + 1 = i
    OBVIOUS
  <2> QED
    BY <2>1
<1>5. new = IF won THEN shifted \cup {1} ELSE shifted
  <2>1. \A i \in 1 .. n + 1 : i = 1 \/ i \in 2 .. n + 1
    OBVIOUS
  <2>2. 1 \in 1 .. n + 1 /\ 2 .. n + 1 \subseteq 1 .. n + 1 /\ 1 \notin 2 .. n + 1
    OBVIOUS
  <2> QED
    BY <1>4, <2>1, <2>2
<1> HIDE DEF old, new, shifted
<1>6. Cardinality(shifted \cup {1}) = Cardinality(shifted) + 1
  BY <1>1, <1>3, FS_AddElement
<1>7. Cardinality(new) = IF won THEN Cardinality(old) + 1 ELSE Cardinality(old)
  BY <1>2, <1>5, <1>6
<1> QED
  BY <1>1, <1>7 DEF old, new, Wins

\* The wins in a row at its end: one more, or none.
LEMMA OneMoreLastWins ==
  ASSUME NEW past, NEW all, NEW n \in Nat, Len(past) = n, Len(all) = n + 1, NEW won \in BOOLEAN,
         all[1].won = won, \A i \in 1 .. n : all[i + 1].won = past[i].won,
         NEW streak \in Nat, LastWins(past) = 1 .. streak
  PROVE  LastWins(all) = 1 .. (IF won THEN streak + 1 ELSE 0)
<1>1. CASE ~won
  BY <1>1 DEF LastWins, AllWon
<1>2. CASE won
  <2>1. \A m \in 1 .. n : AllWon(past, 1, m) <=> m \in 1 .. streak
    BY DEF LastWins
  <2>2. \A m \in 1 .. streak : m \in 1 .. n
    BY DEF LastWins
  <2>3. \A m \in 0 .. n : AllWon(all, 1, m + 1) <=> m = 0 \/ AllWon(past, 1, m)
    <3> SUFFICES ASSUME NEW m \in 0 .. n
                 PROVE  AllWon(all, 1, m + 1) <=> m = 0 \/ AllWon(past, 1, m)
      OBVIOUS
    <3>1. ASSUME AllWon(all, 1, m + 1), NEW k \in 1 .. m PROVE past[k].won
      <4>1. k + 1 \in 1 .. m + 1 /\ k \in 1 .. n
        OBVIOUS
      <4> QED
        BY <3>1, <4>1 DEF AllWon
    <3>2. ASSUME m = 0 \/ AllWon(past, 1, m), NEW k \in 1 .. m + 1 PROVE all[k].won
      <4>1. CASE k = 1
        BY <1>2, <4>1
      <4>2. CASE k # 1
        <5>1. k - 1 \in 1 .. m /\ k - 1 \in 1 .. n /\ (k - 1) + 1 = k /\ m # 0
          BY <4>2
        <5>2. past[k - 1].won
          BY <3>2, <5>1 DEF AllWon
        <5>3. all[(k - 1) + 1].won = past[k - 1].won
          BY <5>1
        <5> QED
          BY <5>1, <5>2, <5>3
      <4> QED
        BY <4>1, <4>2
    <3> QED
      BY <3>1, <3>2 DEF AllWon
  <2>4. \A m \in 0 .. n : AllWon(all, 1, m + 1) <=> m \in 0 .. streak
    <3>1. \A m \in 0 .. n : m = 0 \/ m \in 1 .. n
      OBVIOUS
    <3>2. \A m \in 0 .. n : m \in 0 .. streak <=> m = 0 \/ m \in 1 .. streak
      OBVIOUS
    <3> QED
      BY <2>1, <2>3, <3>1, <3>2
  <2>5. \A m \in 0 .. streak : m \in 0 .. n
    BY <2>2
  <2>6. \A x : x \in 1 .. n + 1 => x - 1 \in 0 .. n /\ (x - 1) + 1 = x
    OBVIOUS
  <2>7. ASSUME NEW x \in LastWins(all) PROVE x \in 1 .. streak + 1
    <3>1. x \in 1 .. n + 1 /\ AllWon(all, 1, x)
      BY DEF LastWins
    <3>2. x - 1 \in 0 .. streak
      BY <2>4, <2>6, <3>1
    <3> QED
      BY <3>1, <3>2
  <2>8. ASSUME NEW x \in 1 .. streak + 1 PROVE x \in LastWins(all)
    <3>1. x - 1 \in 0 .. streak
      OBVIOUS
    <3>2. x - 1 \in 0 .. n /\ (x - 1) + 1 = x /\ x \in 1 .. n + 1
      <4>1. x - 1 \in 0 .. n
        BY <2>5, <3>1
      <4> QED
        BY <4>1
    <3>3. AllWon(all, 1, (x - 1) + 1)
      BY <2>4, <3>1, <3>2
    <3> QED
      BY <3>2, <3>3 DEF LastWins
  <2> QED
    BY <1>2, <2>7, <2>8
<1> QED
  BY <1>1, <1>2

\* A run of wins is at its end, or was one before.
LEMMA OneMoreRuns ==
  ASSUME NEW past, NEW all, NEW n \in Nat, Len(past) = n, Len(all) = n + 1,
         \A i \in 1 .. n : all[i + 1].won = past[i].won
  PROVE  Runs(all) = Runs(past) \cup LastWins(all)
<1>1. ASSUME NEW m \in Runs(past) PROVE m \in Runs(all)
  <2>1. PICK i \in 1 .. n - m + 1 : AllWon(past, i, i + m - 1)
    BY DEF Runs
  <2>2. m \in 1 .. n
    BY DEF Runs
  <2>3. i + 1 \in 1 .. n + 1 - m + 1 /\ m \in 1 .. n + 1
    BY <2>1, <2>2
  <2>4. AllWon(all, i + 1, (i + 1) + m - 1)
    <3> SUFFICES ASSUME NEW k \in i + 1 .. (i + 1) + m - 1 PROVE all[k].won
      BY DEF AllWon
    <3>1. k - 1 \in i .. i + m - 1 /\ k - 1 \in 1 .. n /\ (k - 1) + 1 = k
      BY <2>1, <2>2
    <3>2. past[k - 1].won /\ all[(k - 1) + 1].won = past[k - 1].won
      BY <2>1, <3>1 DEF AllWon
    <3> QED
      BY <3>1, <3>2
  <2> QED
    BY <2>3, <2>4 DEF Runs
<1>2. ASSUME NEW m \in LastWins(all) PROVE m \in Runs(all)
  <2>1. m \in 1 .. n + 1 /\ AllWon(all, 1, m)
    BY DEF LastWins
  <2>2. 1 \in 1 .. n + 1 - m + 1 /\ 1 + m - 1 = m
    BY <2>1
  <2> QED
    BY <2>1, <2>2 DEF Runs
<1>3. ASSUME NEW m \in Runs(all), m \notin LastWins(all) PROVE m \in Runs(past)
  <2>1. PICK i \in 1 .. n + 1 - m + 1 : AllWon(all, i, i + m - 1)
    BY DEF Runs
  <2>2. m \in 1 .. n + 1
    BY DEF Runs
  <2>3. i # 1
    <3> SUFFICES ASSUME i = 1 PROVE FALSE
      OBVIOUS
    <3>1. i + m - 1 = m
      BY <2>2
    <3>2. AllWon(all, 1, m)
      BY <2>1, <3>1
    <3> QED
      BY <1>3, <2>2, <3>2 DEF LastWins
  <2>4. i - 1 \in 1 .. n - m + 1 /\ m \in 1 .. n
    BY <2>1, <2>2, <2>3
  <2>5. AllWon(past, i - 1, (i - 1) + m - 1)
    <3> SUFFICES ASSUME NEW k \in i - 1 .. (i - 1) + m - 1 PROVE past[k].won
      BY DEF AllWon
    <3>1. k + 1 \in i .. i + m - 1 /\ k \in 1 .. n
      BY <2>4
    <3>2. all[k + 1].won /\ all[k + 1].won = past[k].won
      BY <2>1, <3>1 DEF AllWon
    <3> QED
      BY <3>2
  <2> QED
    BY <2>4, <2>5 DEF Runs
<1> QED
  BY <1>1, <1>2, <1>3

\* A row after a match counts the history with it.
LEMMA MatchCounted ==
  ASSUME NEW row \in StatsRow, NEW past \in Seq(Entry), NEW e \in Entry, Counts(row, past)
  PROVE  Counts(AfterMatch(row, e), <<e>> \o past)
<1> DEFINE all == <<e>> \o past
           n == Len(past)
           won == e.won
           new == AfterMatch(row, e)
<1>1. /\ n \in Nat /\ Len(all) = n + 1 /\ all[1].won = won /\ won \in BOOLEAN
      /\ \A i \in 1 .. n : all[i + 1].won = past[i].won
  BY OneMore
<1>2. row.streak \in Nat /\ row.best \in Nat /\ row.wins \in Nat /\ row.matches \in Nat
  BY RowFields
<1>3. /\ row.matches = n
      /\ row.wins = Cardinality(Wins(past))
      /\ LastWins(past) = 1 .. row.streak
      /\ Runs(past) = 1 .. row.best
  BY DEF Counts
<1>4. /\ new.matches = row.matches + 1
      /\ new.wins = IF won THEN row.wins + 1 ELSE row.wins
      /\ new.streak = IF won THEN row.streak + 1 ELSE 0
      /\ new.best = IF won THEN Larger(row.streak + 1, row.best) ELSE row.best
  BY DEF AfterMatch, AfterWin, AfterLoss
<1>5. new.wins = Cardinality(Wins(all))
  <2> HIDE DEF all, won, new
  <2>1. Cardinality(Wins(all)) = IF won THEN Cardinality(Wins(past)) + 1 ELSE Cardinality(Wins(past))
    <3>1. Len(past) = n
      OBVIOUS
    <3> HIDE DEF n
    <3> QED
      BY <1>1, <3>1, OneMoreWins
  <2> QED
    BY <1>3, <1>4, <2>1
<1>6. LastWins(all) = 1 .. new.streak
  <2> HIDE DEF all, won, new
  <2>1. LastWins(all) = 1 .. (IF won THEN row.streak + 1 ELSE 0)
    <3>1. Len(past) = n
      OBVIOUS
    <3> HIDE DEF n
    <3> QED
      BY <1>1, <1>2, <1>3, <3>1, OneMoreLastWins
  <2> QED
    BY <1>4, <2>1
<1>7. Runs(all) = 1 .. new.best
  <2> HIDE DEF all, won, new
  <2>1. Runs(all) = Runs(past) \cup LastWins(all)
    <3>1. Len(past) = n
      OBVIOUS
    <3> HIDE DEF n
    <3> QED
      BY <1>1, <3>1, OneMoreRuns
  <2>2. Runs(all) = (1 .. row.best) \cup (1 .. new.streak)
    BY <1>3, <1>6, <2>1
  <2>3. CASE won
    <3>1. new.streak = row.streak + 1 /\ new.best = Larger(row.streak + 1, row.best)
      BY <1>4, <2>3
    <3>2. \A a, b \in Nat : (1 .. b) \cup (1 .. a) = 1 .. Larger(a, b)
      BY DEF Larger
    <3>3. row.streak + 1 \in Nat
      BY <1>2
    <3> QED
      BY <1>2, <2>2, <3>1, <3>2, <3>3
  <2>4. CASE ~won
    <3>1. new.streak = 0 /\ new.best = row.best
      BY <1>4, <2>4
    <3>2. 1 .. 0 = {}
      OBVIOUS
    <3> QED
      BY <2>2, <3>1, <3>2
  <2> QED
    BY <1>1, <2>3, <2>4
<1>8. new.matches = Len(all)
  <2> HIDE DEF all, n, new
  <2> QED
    BY <1>1, <1>3, <1>4
<1> HIDE DEF new, all, n
<1>9. Counts(new, all)
  <2>1. Len(all) = n + 1
    BY <1>1
  <2> QED
    BY <1>5, <1>6, <1>7, <1>8, <2>1 DEF Counts
<1> QED
  BY <1>9 DEF new, all

\* Nothing recorded is counted by zeros.
LEMMA NothingCounted == Counts(NewStats, <<>>)
<1> DEFINE none == <<>>
<1>1. Len(none) = 0
  OBVIOUS
<1>2. LastWins(none) = {} /\ Runs(none) = {}
  <2> HIDE DEF none
  <2> QED
    BY <1>1 DEF LastWins, Runs
<1>3. Wins(none) = {}
  <2> HIDE DEF none
  <2> QED
    BY <1>1 DEF Wins
<1>4. 1 .. 0 = {} /\ Cardinality({}) = 0
  BY FS_EmptySet
<1> HIDE DEF none
<1>5. Counts(NewStats, none)
  BY <1>1, <1>2, <1>3, <1>4 DEF Counts, NewStats
<1> QED
  BY <1>5 DEF none

-----------------------------------------------------------------------------
(* What is left to record *)

\* A record of this kind for u is still to be written; it is that of a match won.
IsDue(d, what, u) == \E i \in 1 .. Len(d) : d[i].what = what /\ d[i].who = u
WinDue(d, u) == \E i \in 1 .. Len(d) : d[i].what = "stats" /\ d[i].who = u /\ d[i].entry.won

\* What is left to record of game g: each once, and the history of whom the
\* statistics are left for is left too, with the same entry.
DueOf(d, g) ==
  /\ \A i \in 1 .. Len(d) : d[i].entry.game = g
  /\ \A i, j \in 1 .. Len(d) : d[i].what = d[j].what /\ d[i].who = d[j].who => i = j
  /\ \A i \in 1 .. Len(d) : d[i].what = "stats" =>
       \E j \in 1 .. Len(d) : /\ i < j /\ d[j].what = "history"
                              /\ d[j].who = d[i].who /\ d[j].entry = d[i].entry

RecordsOK(h) ==
  /\ ~hs[h].busy => due[h] = <<>>
  /\ DueOf(due[h], hs[h].game)
  /\ loaded[h] # NotLoaded =>
       due[h] # <<>> /\ due[h][1].what = "stats" /\ loaded[h] = RowOf(due[h][1].who)

\* A user's statistics count the history, or, as long as it is to be written,
\* the history with the match that they have counted already.
PastOK(h) ==
  Stake > 0 =>
    \A u \in Users :
      /\ (IsDue(due[h], "stats", u) \/ ~IsDue(due[h], "history", u)) /\ Len(history[u]) < HistoryKept
           => Counts(RowOf(u), history[u])
      /\ \A i \in 1 .. Len(due[h]) :
           /\ due[h][i].what = "history" /\ due[h][i].who = u /\ ~IsDue(due[h], "stats", u)
           /\ Len(history[u]) + 1 < HistoryKept
           => Counts(RowOf(u), <<due[h][i].entry>> \o history[u])

LEMMA DueTail ==
  ASSUME NEW d \in Seq(Record), d # <<>>, NEW g, DueOf(d, g)
  PROVE  /\ DueOf(Tail(d), g)
         /\ \A what, u : IsDue(Tail(d), what, u)
                           <=> IsDue(d, what, u) /\ ~(d[1].what = what /\ d[1].who = u)
         /\ \A u : WinDue(Tail(d), u) <=> WinDue(d, u) /\ ~(d[1].what = "stats" /\ d[1].who = u)
<1> DEFINE t == Tail(d)
           n == Len(d)
<1>1. /\ n \in Nat \ {0} /\ Len(t) = n - 1
      /\ \A i \in 1 .. n - 1 : i + 1 \in 1 .. n /\ t[i] = d[i + 1]
  BY TailFacts
<1>2. /\ \A i, j \in 1 .. n : d[i].what = d[j].what /\ d[i].who = d[j].who => i = j
      /\ \A i \in 1 .. n : d[i].entry.game = g
      /\ \A i \in 1 .. n : d[i].what = "stats" =>
           \E j \in 1 .. n : /\ i < j /\ d[j].what = "history"
                             /\ d[j].who = d[i].who /\ d[j].entry = d[i].entry
  BY DEF DueOf
<1> HIDE DEF t, n
<1>3. \A j \in 1 .. n : j = 1 \/ (j - 1 \in 1 .. n - 1 /\ t[j - 1] = d[j])
  <2> SUFFICES ASSUME NEW j \in 1 .. n, j # 1 PROVE j - 1 \in 1 .. n - 1 /\ t[j - 1] = d[j]
    OBVIOUS
  <2>1. j - 1 \in 1 .. n - 1 /\ (j - 1) + 1 = j
    BY <1>1
  <2>2. t[j - 1] = d[(j - 1) + 1]
    BY <1>1, <2>1
  <2> QED
    BY <2>1, <2>2
<1>4. \A i \in 1 .. n - 1 : i + 1 # 1 /\ 1 \in 1 .. n
  BY <1>1
<1>5. DueOf(t, g)
  <2>1. \A i \in 1 .. n - 1 : t[i].entry.game = g
    BY <1>1, <1>2
  <2>2. \A i, j \in 1 .. n - 1 : t[i].what = t[j].what /\ t[i].who = t[j].who => i = j
    <3> SUFFICES ASSUME NEW i \in 1 .. n - 1, NEW j \in 1 .. n - 1,
                        t[i].what = t[j].what, t[i].who = t[j].who
                 PROVE  i = j
      OBVIOUS
    <3>1. i + 1 \in 1 .. n /\ j + 1 \in 1 .. n /\ t[i] = d[i + 1] /\ t[j] = d[j + 1]
      BY <1>1
    <3>2. d[i + 1].what = d[j + 1].what /\ d[i + 1].who = d[j + 1].who
      BY <3>1
    <3>3. i + 1 = j + 1
      BY <1>2, <3>1, <3>2
    <3> QED
      BY <3>3
  <2>3. ASSUME NEW i \in 1 .. n - 1, t[i].what = "stats"
        PROVE  \E j \in 1 .. n - 1 : /\ i < j /\ t[j].what = "history"
                                     /\ t[j].who = t[i].who /\ t[j].entry = t[i].entry
    <3>1. i + 1 \in 1 .. n /\ t[i] = d[i + 1]
      BY <1>1
    <3>2. PICK j \in 1 .. n : /\ i + 1 < j /\ d[j].what = "history"
                              /\ d[j].who = d[i + 1].who /\ d[j].entry = d[i + 1].entry
      BY <1>2, <2>3, <3>1
    <3>3. j # 1 /\ i < j - 1
      BY <3>2
    <3>4. j - 1 \in 1 .. n - 1 /\ t[j - 1] = d[j]
      BY <1>3, <3>3
    <3> QED
      BY <3>1, <3>2, <3>3, <3>4
  <2> QED
    BY <1>1, <2>1, <2>2, <2>3 DEF DueOf
<1>6. ASSUME NEW what, NEW u
      PROVE  IsDue(t, what, u) <=> IsDue(d, what, u) /\ ~(d[1].what = what /\ d[1].who = u)
  <2>1. ASSUME NEW i \in 1 .. n - 1, t[i].what = what, t[i].who = u
        PROVE  IsDue(d, what, u) /\ ~(d[1].what = what /\ d[1].who = u)
    BY <1>1, <1>2, <1>4, <2>1 DEF IsDue, n
  <2>2. ASSUME NEW j \in 1 .. n, d[j].what = what, d[j].who = u, ~(d[1].what = what /\ d[1].who = u)
        PROVE  IsDue(t, what, u)
    BY <1>1, <1>3, <2>2 DEF IsDue
  <2> QED
    BY <1>1, <2>1, <2>2 DEF IsDue, n
<1>7. ASSUME NEW u
      PROVE  WinDue(t, u) <=> WinDue(d, u) /\ ~(d[1].what = "stats" /\ d[1].who = u)
  <2>1. ASSUME NEW i \in 1 .. n - 1, t[i].what = "stats", t[i].who = u, t[i].entry.won
        PROVE  WinDue(d, u) /\ ~(d[1].what = "stats" /\ d[1].who = u)
    BY <1>1, <1>2, <1>4, <2>1 DEF WinDue, n
  <2>2. ASSUME NEW j \in 1 .. n, d[j].what = "stats", d[j].who = u, d[j].entry.won,
               ~(d[1].what = "stats" /\ d[1].who = u)
        PROVE  WinDue(t, u)
    BY <1>1, <1>3, <2>2 DEF WinDue
  <2> QED
    BY <1>1, <2>1, <2>2 DEF WinDue, n
<1> QED
  BY <1>5, <1>6, <1>7 DEF t

LEMMA RecordsOfAt ==
  ASSUME NEW what, NEW g \in Games, NEW winner
  PROVE  /\ Len(RecordsOf(what, g, winner)) = Len(g.players)
         /\ \A i \in 1 .. Len(g.players) :
              RecordsOf(what, g, winner)[i] =
                [what |-> what, who |-> g.players[i], entry |-> [game |-> g, won |-> g.players[i] = winner]]
BY PlayersAreUsers DEF RecordsOf

\* What a settlement is to record, all of it.
LEMMA AllDue ==
  ASSUME NEW g \in Games, NEW winner
  PROVE  LET d == RecordsDue(g, winner)
         IN  /\ DueOf(d, g)
             /\ \A u : IsDue(d, "history", u) <=> u \in PlayersOf(g)
             /\ \A u : IsDue(d, "stats", u) <=> Stake > 0 /\ u \in PlayersOf(g)
             /\ \A u : WinDue(d, u) <=> Stake > 0 /\ u \in PlayersOf(g) /\ u = winner
<1> DEFINE d == RecordsDue(g, winner)
           n == Len(g.players)
           a == RecordsOf("stats", g, winner)
           b == RecordsOf("history", g, winner)
           e(i) == [game |-> g, won |-> g.players[i] = winner]
<1>1. /\ n \in Nat \ {0} /\ Stake \in Nat
      /\ a \in Seq(Record) /\ b \in Seq(Record) /\ Len(a) = n /\ Len(b) = n
  <2>1. "stats" \in {"stats", "history"} /\ "history" \in {"stats", "history"}
    OBVIOUS
  <2>2. a \in Seq(Record) /\ b \in Seq(Record)
    BY <2>1, RecordsOfInSeq
  <2>3. Len(a) = n /\ Len(b) = n
    <3>1. \A what : Len(RecordsOf(what, g, winner)) = Len(g.players)
      BY RecordsOfAt
    <3> QED
      BY <3>1
  <2>4. n \in Nat \ {0} /\ Stake \in Nat
    BY PlayersAreUsers
  <2> HIDE DEF a, b, n
  <2> QED
    BY <2>2, <2>3, <2>4
<1>2. \A i \in 1 .. n :
        /\ a[i].what = "stats" /\ a[i].who = g.players[i] /\ a[i].entry = e(i)
        /\ b[i].what = "history" /\ b[i].who = g.players[i] /\ b[i].entry = e(i)
  <2> TAKE i \in 1 .. n
  <2>1. a[i] = [what |-> "stats", who |-> g.players[i], entry |-> e(i)]
    BY RecordsOfAt
  <2>2. b[i] = [what |-> "history", who |-> g.players[i], entry |-> e(i)]
    BY RecordsOfAt
  <2> HIDE DEF a, b, e
  <2> QED
    BY <2>1, <2>2
<1>3. \A i \in 1 .. n : e(i).game = g /\ (e(i).won <=> g.players[i] = winner)
  OBVIOUS
<1>4. \A i, j \in 1 .. n : g.players[i] = g.players[j] => i = j
  BY DistinctPlayers
<1>5. \A u : u \in PlayersOf(g) <=> \E i \in 1 .. n : g.players[i] = u
  BY DEF PlayersOf
<1>6. CASE Stake = 0
  <2>1. d = b
    <3>1. <<>> \o b = b
      BY <1>1
    <3> HIDE DEF b
    <3> QED
      BY <1>6, <3>1 DEF RecordsDue, b
  <2> HIDE DEF d, n, a, b, e
  <2>2. Len(d) = n /\ \A i \in 1 .. n : d[i].what = "history" /\ d[i].who = g.players[i] /\ d[i].entry = e(i)
    BY <1>1, <1>2, <2>1
  <2>3. DueOf(d, g)
    BY <1>3, <1>4, <2>2 DEF DueOf
  <2>4. \A u : /\ IsDue(d, "history", u) <=> u \in PlayersOf(g)
               /\ ~IsDue(d, "stats", u) /\ ~WinDue(d, u)
    BY <1>5, <2>2 DEF IsDue, WinDue
  <2> QED
    BY <1>6, <2>3, <2>4 DEF d
<1>7. CASE Stake # 0
  <2>1. d = a \o b
    BY <1>7 DEF RecordsDue
  <2> HIDE DEF d, n, a, b, e
  <2>2. /\ Len(d) = n + n
        /\ \A i \in 1 .. n : d[i] = a[i]
        /\ \A i \in 1 .. n : d[n + i] = b[i]
    <3>1. /\ Len(a \o b) = Len(a) + Len(b)
          /\ \A i \in 1 .. Len(a) : (a \o b)[i] = a[i]
          /\ \A i \in 1 .. Len(b) : (a \o b)[Len(a) + i] = b[i]
      BY <1>1, TwoParts
    <3> QED
      BY <1>1, <2>1, <3>1
  <2>3. \A i \in 1 .. n + n : \E k \in 1 .. n : (i = k \/ i = n + k)
    <3> SUFFICES ASSUME NEW i \in 1 .. n + n PROVE \E k \in 1 .. n : (i = k \/ i = n + k)
      OBVIOUS
    <3>1. CASE i <= n
      <4>1. i \in 1 .. n
        BY <1>1, <3>1
      <4> QED
        BY <4>1
    <3>2. CASE ~(i <= n)
      <4>1. i - n \in 1 .. n /\ i = n + (i - n)
        BY <1>1, <3>2
      <4> QED
        BY <4>1
    <3> QED
      BY <3>1, <3>2
  <2>4. \A k \in 1 .. n :
          /\ k \in 1 .. n + n /\ n + k \in 1 .. n + n /\ k < n + k
          /\ d[k].what = "stats" /\ d[k].who = g.players[k] /\ d[k].entry = e(k)
          /\ d[n + k].what = "history" /\ d[n + k].who = g.players[k] /\ d[n + k].entry = e(k)
    <3>1. \A k \in 1 .. n : k \in 1 .. n + n /\ n + k \in 1 .. n + n /\ k < n + k
      BY <1>1
    <3> QED
      BY <1>2, <2>2, <3>1
  <2>5. DueOf(d, g)
    <3>1. \A i \in 1 .. n + n : d[i].entry.game = g
      BY <1>3, <2>3, <2>4
    <3>2. \A i, j \in 1 .. n + n : d[i].what = d[j].what /\ d[i].who = d[j].who => i = j
      <4> SUFFICES ASSUME NEW i \in 1 .. n + n, NEW j \in 1 .. n + n,
                          d[i].what = d[j].what, d[i].who = d[j].who
                   PROVE  i = j
        OBVIOUS
      <4>1. PICK k \in 1 .. n : i = k \/ i = n + k
        BY <2>3
      <4>2. PICK l \in 1 .. n : j = l \/ j = n + l
        BY <2>3
      <4>3. g.players[k] = g.players[l]
        BY <2>4, <4>1, <4>2
      <4>4. k = l
        BY <1>4, <4>3
      <4>5. (i = k /\ j = l) \/ (i = n + k /\ j = n + l)
        BY <2>4, <4>1, <4>2
      <4> QED
        BY <4>4, <4>5
    <3>3. ASSUME NEW i \in 1 .. n + n, d[i].what = "stats"
          PROVE  \E j \in 1 .. n + n : /\ i < j /\ d[j].what = "history"
                                       /\ d[j].who = d[i].who /\ d[j].entry = d[i].entry
      <4>1. PICK k \in 1 .. n : i = k \/ i = n + k
        BY <2>3
      <4>2. i = k
        BY <2>4, <3>3, <4>1
      <4> QED
        BY <2>4, <4>2
    <3> QED
      BY <2>2, <3>1, <3>2, <3>3 DEF DueOf
  <2>6. ASSUME NEW u
        PROVE  /\ IsDue(d, "history", u) <=> u \in PlayersOf(g)
               /\ IsDue(d, "stats", u) <=> u \in PlayersOf(g)
               /\ WinDue(d, u) <=> u \in PlayersOf(g) /\ u = winner
    <3>1. ASSUME NEW i \in 1 .. n + n, d[i].who = u
          PROVE  /\ u \in PlayersOf(g)
                 /\ d[i].entry.won <=> u = winner
      <4>1. PICK k \in 1 .. n : i = k \/ i = n + k
        BY <2>3
      <4>2. d[i].who = g.players[k] /\ d[i].entry = e(k)
        BY <2>4, <4>1
      <4> QED
        BY <1>3, <1>5, <3>1, <4>2
    <3>2. ASSUME u \in PlayersOf(g)
          PROVE  /\ \E i \in 1 .. n + n : d[i].what = "history" /\ d[i].who = u
                 /\ \E i \in 1 .. n + n : d[i].what = "stats" /\ d[i].who = u
                                          /\ (d[i].entry.won <=> u = winner)
      <4>1. PICK k \in 1 .. n : g.players[k] = u
        BY <1>5, <3>2
      <4> QED
        BY <1>3, <2>4, <4>1
    <3> QED
      BY <2>2, <3>1, <3>2 DEF IsDue, WinDue
  <2>7. Stake > 0
    BY <1>1, <1>7
  <2> QED
    BY <2>5, <2>6, <2>7 DEF d
<1> QED
  BY <1>6, <1>7

-----------------------------------------------------------------------------
(* The statistics count the history *)

\* A step that writes no record, when none is left to write or the call goes on.
LEMMA UnrecordedCounts ==
  ASSUME NEW h \in Handlers, RecordsOK(h), PastOK(h), UNCHANGED recordVars,
         due[h] = <<>> \/ (hs'[h].busy = hs[h].busy /\ hs'[h].game = hs[h].game)
  PROVE  RecordsOK(h)' /\ PastOK(h)'
<1>1. due' = due /\ loaded' = loaded /\ stats' = stats /\ history' = history
  BY DEF recordVars
<1>2. \A u : RowOf(u)' = RowOf(u)
  BY <1>1 DEF RowOf
<1>3. PastOK(h)'
  BY <1>1, <1>2 DEF PastOK, IsDue
<1>4. RecordsOK(h)'
  <2>1. CASE due[h] = <<>>
    <3>1. DueOf(due[h], hs[h].game)'
      BY <1>1, <2>1 DEF DueOf
    <3>2. loaded'[h] = NotLoaded
      BY <1>1, <2>1 DEF RecordsOK
    <3> QED
      BY <1>1, <2>1, <3>1, <3>2 DEF RecordsOK
  <2>2. CASE hs'[h].busy = hs[h].busy /\ hs'[h].game = hs[h].game
    BY <1>1, <1>2, <2>2 DEF RecordsOK, DueOf
  <2> QED
    BY <2>1, <2>2
<1> QED
  BY <1>3, <1>4

\* The records of a settlement, as it begins.
LEMMA SettleMatchCounts ==
  ASSUME NEW h \in Handlers, StatsInv, SInv(h), RecordsOK(h), PastOK(h),
         NEW g \in Games, NEW winner \in Accounts, SettleMatch(h, g, winner)
  PROVE  RecordsOK(h)' /\ PastOK(h)'
<1> DEFINE d == RecordsDue(g, winner)
<1>1. due'[h] = d /\ loaded' = loaded /\ stats' = stats /\ history' = history
  BY DEF SettleMatch, StatsInv, StatsTypeOK
<1>2. ~hs[h].busy /\ hs'[h].busy /\ hs'[h].game = g
  <2>1. Begin(h, Settlement(g, winner), <<>>, g, "closing", "closed")
    BY DEF SettleMatch, Settle
  <2>2. hs \in [Handlers -> Handler]
    BY DEF SInv, LedgerInv, TypeOK
  <2> QED
    BY <2>1, <2>2 DEF Begin
<1>3. due[h] = <<>> /\ loaded[h] = NotLoaded
  BY <1>2 DEF RecordsOK
<1>4. /\ DueOf(d, g)
      /\ \A u : IsDue(d, "history", u) <=> u \in PlayersOf(g)
      /\ \A u : IsDue(d, "stats", u) <=> Stake > 0 /\ u \in PlayersOf(g)
  BY AllDue
<1> HIDE DEF d
<1>5. RecordsOK(h)'
  BY <1>1, <1>2, <1>3, <1>4 DEF RecordsOK
<1>6. \A u : RowOf(u)' = RowOf(u)
  BY <1>1 DEF RowOf
<1>7. \A what, u : ~IsDue(due[h], what, u)
  BY <1>3 DEF IsDue
<1>8. PastOK(h)'
  <2> SUFFICES ASSUME Stake > 0, NEW u \in Users
               PROVE  /\ (IsDue(d, "stats", u) \/ ~IsDue(d, "history", u)) /\ Len(history[u]) < HistoryKept
                           => Counts(RowOf(u), history[u])
                      /\ \A i \in 1 .. Len(d) :
                           /\ d[i].what = "history" /\ d[i].who = u /\ ~IsDue(d, "stats", u)
                           /\ Len(history[u]) + 1 < HistoryKept
                           => Counts(RowOf(u), <<d[i].entry>> \o history[u])
    BY <1>1, <1>6 DEF PastOK
  <2>1. Len(history[u]) < HistoryKept => Counts(RowOf(u), history[u])
    BY <1>7 DEF PastOK
  <2>2. IsDue(d, "history", u) => IsDue(d, "stats", u)
    BY <1>4
  <2>3. \A i \in 1 .. Len(d) : d[i].what = "history" /\ d[i].who = u => IsDue(d, "history", u)
    BY DEF IsDue
  <2> QED
    BY <2>1, <2>2, <2>3
<1> QED
  BY <1>5, <1>8

\* The record that a call writes next.
LEMMA NextRecord ==
  ASSUME NEW h \in Handlers, StatsInv, NEW what, Writing(h, what)
  PROVE  /\ due[h] \in Seq(Record) /\ due[h] # <<>> /\ Head(due[h]) = due[h][1]
         /\ due[h][1].what = what /\ due[h][1].who \in Users /\ due[h][1].entry \in Entry
         /\ 1 \in 1 .. Len(due[h]) /\ hs[h].busy /\ hs[h].todo = <<>>
         /\ IsDue(due[h], what, due[h][1].who)
<1>1. due[h] \in Seq(Record) /\ due[h] # <<>> /\ hs[h].busy /\ hs[h].todo = <<>>
  BY DEF StatsInv, StatsTypeOK, Writing
<1>2. Head(due[h]) = due[h][1] /\ due[h][1] \in Record /\ 1 \in 1 .. Len(due[h])
  BY <1>1, TailFacts
<1>3. due[h][1].what = what
  BY <1>2 DEF Writing
<1> QED
  BY <1>1, <1>2, <1>3 DEF Record, IsDue

LEMMA LoadStatsCounts ==
  ASSUME NEW h \in Handlers, StatsInv, RecordsOK(h), PastOK(h), LoadStats(h)
  PROVE  RecordsOK(h)' /\ PastOK(h)'
<1>1. /\ due' = due /\ stats' = stats /\ history' = history /\ hs' = hs
      /\ loaded'[h] = RowOf(Head(due[h]).who)
  BY DEF LoadStats, vars, StatsInv, StatsTypeOK
<1>2. /\ due[h] # <<>> /\ Head(due[h]) = due[h][1] /\ due[h][1].what = "stats"
  BY NextRecord DEF LoadStats
<1>3. \A u : RowOf(u)' = RowOf(u)
  BY <1>1 DEF RowOf
<1>4. PastOK(h)'
  BY <1>1, <1>3 DEF PastOK, IsDue
<1>5. RecordsOK(h)'
  BY <1>1, <1>2, <1>3 DEF RecordsOK, DueOf
<1> QED
  BY <1>4, <1>5

LEMMA UpsertStatsCounts ==
  ASSUME NEW h \in Handlers, StatsInv, RecordsOK(h), PastOK(h), UpsertStats(h)
  PROVE  /\ RecordsOK(h)' /\ PastOK(h)'
         /\ \A u \in Users : RowOf(u)' = IF u = due[h][1].who THEN AfterMatch(RowOf(u), due[h][1].entry)
                                         ELSE RowOf(u)
<1> DEFINE d == due[h]
           u == d[1].who
           e == d[1].entry
<1>1. /\ d \in Seq(Record) /\ d # <<>> /\ Head(d) = d[1] /\ 1 \in 1 .. Len(d)
      /\ d[1].what = "stats" /\ u \in Users /\ e \in Entry /\ hs[h].busy
      /\ IsDue(d, "stats", u)
  BY NextRecord DEF UpsertStats
<1>2. /\ due'[h] = Tail(d) /\ loaded'[h] = NotLoaded /\ history' = history /\ hs' = hs
      /\ stats' = [stats EXCEPT ![u] = AfterMatch(loaded[h], e)]
      /\ loaded[h] # NotLoaded
  BY <1>1 DEF UpsertStats, vars, StatsInv, StatsTypeOK
<1>3. loaded[h] = RowOf(u)
  BY <1>2 DEF RecordsOK
<1>4. loaded[h] \in StatsRow /\ Consistent(loaded[h]) /\ NoStats \notin StatsRow
  BY <1>2, StatsAssumption DEF StatsInv, StatsTypeOK, LoadedOK
<1>5. AfterMatch(loaded[h], e) \in StatsRow
  BY <1>1, <1>4, MatchKeepsRow
<1>6. /\ stats'[u] = AfterMatch(loaded[h], e)
      /\ \A v \in Users : v # u => stats'[v] = stats[v]
  BY <1>1, <1>2 DEF StatsInv, StatsTypeOK
<1>7. \A v \in Users : RowOf(v)' = IF v = u THEN AfterMatch(RowOf(v), e) ELSE RowOf(v)
  <2> TAKE v \in Users
  <2>1. RowOf(v)' = IF stats'[v] = NoStats THEN NewStats ELSE stats'[v]
    BY DEF RowOf
  <2>2. v = u => stats'[v] = AfterMatch(RowOf(v), e) /\ stats'[v] # NoStats
    BY <1>3, <1>4, <1>5, <1>6
  <2>3. v # u => stats'[v] = stats[v]
    BY <1>6
  <2>4. CASE v = u
    BY <2>1, <2>2, <2>4
  <2>5. CASE v # u
    BY <2>1, <2>3, <2>5 DEF RowOf
  <2> QED
    BY <2>4, <2>5
<1>8. /\ DueOf(Tail(d), hs[h].game)
      /\ \A what, v : IsDue(Tail(d), what, v) <=> IsDue(d, what, v) /\ ~(d[1].what = what /\ d[1].who = v)
  BY <1>1, DueTail DEF RecordsOK
<1>9. RecordsOK(h)'
  BY <1>1, <1>2, <1>8 DEF RecordsOK
<1>10. PastOK(h)'
  <2> DEFINE t == Tail(d)
  <2> SUFFICES ASSUME Stake > 0, NEW v \in Users
               PROVE  /\ (IsDue(t, "stats", v) \/ ~IsDue(t, "history", v)) /\ Len(history[v]) < HistoryKept
                           => Counts(RowOf(v)', history[v])
                      /\ \A i \in 1 .. Len(t) :
                           /\ t[i].what = "history" /\ t[i].who = v /\ ~IsDue(t, "stats", v)
                           /\ Len(history[v]) + 1 < HistoryKept
                           => Counts(RowOf(v)', <<t[i].entry>> \o history[v])
    <3> HIDE DEF t
    <3>1. due'[h] = t
      BY <1>2 DEF t
    <3> QED
      BY <1>2, <3>1 DEF PastOK, IsDue, RowOf
  <2>1. /\ Len(d) \in Nat /\ Len(t) = Len(d) - 1
        /\ \A i \in 1 .. Len(t) : i + 1 \in 1 .. Len(d) /\ t[i] = d[i + 1]
    BY <1>1, TailFacts
  <2>2. CASE v = u
    <3>1. Len(history[u]) < HistoryKept => Counts(RowOf(u), history[u])
      BY <1>1 DEF PastOK
    <3>2. PICK j \in 1 .. Len(d) : 1 < j /\ d[j].what = "history" /\ d[j].who = u /\ d[j].entry = e
      BY <1>1 DEF RecordsOK, DueOf
    <3>3. IsDue(t, "history", u) /\ ~IsDue(t, "stats", u)
      <4>1. IsDue(d, "history", u)
        BY <3>2 DEF IsDue
      <4> QED
        BY <1>1, <1>8, <4>1
    <3>4. ASSUME NEW i \in 1 .. Len(t), t[i].what = "history", t[i].who = u,
                 Len(history[u]) + 1 < HistoryKept
          PROVE  Counts(RowOf(v)', <<t[i].entry>> \o history[v])
      <4>1. d[i + 1].what = "history" /\ d[i + 1].who = u /\ i + 1 \in 1 .. Len(d) /\ t[i] = d[i + 1]
        BY <2>1, <3>4
      <4>2. i + 1 = j
        BY <3>2, <4>1 DEF RecordsOK, DueOf
      <4>3. t[i].entry = e
        BY <3>2, <4>1, <4>2
      <4>4. history[u] \in Seq(Entry)
        BY <1>1 DEF StatsInv, StatsTypeOK
      <4>5. Len(history[u]) < HistoryKept
        <5>1. Len(history[u]) \in Nat /\ HistoryKept \in Nat
          BY <4>4, StatsAssumption
        <5> QED
          BY <3>4, <5>1
      <4>6. RowOf(u) \in StatsRow
        BY <1>3, <1>4
      <4>7. Counts(AfterMatch(RowOf(u), e), <<e>> \o history[u])
        BY <1>1, <3>1, <4>4, <4>5, <4>6, MatchCounted
      <4>8. RowOf(v)' = AfterMatch(RowOf(v), e)
        BY <1>7, <2>2
      <4> QED
        BY <2>2, <4>3, <4>7, <4>8
    <3> QED
      BY <2>2, <3>3, <3>4
  <2>3. CASE v # u
    <3>1. \A what : IsDue(t, what, v) <=> IsDue(d, what, v)
      BY <1>8, <2>3
    <3>2. RowOf(v)' = RowOf(v)
      BY <1>7, <2>3
    <3>3. /\ (IsDue(d, "stats", v) \/ ~IsDue(d, "history", v)) /\ Len(history[v]) < HistoryKept
               => Counts(RowOf(v), history[v])
          /\ \A i \in 1 .. Len(d) :
               /\ d[i].what = "history" /\ d[i].who = v /\ ~IsDue(d, "stats", v)
               /\ Len(history[v]) + 1 < HistoryKept
               => Counts(RowOf(v), <<d[i].entry>> \o history[v])
      BY DEF PastOK
    <3> QED
      BY <2>1, <3>1, <3>2, <3>3
  <2> QED
    BY <2>2, <2>3
<1> QED
  BY <1>7, <1>9, <1>10

LEMMA RememberCounts ==
  ASSUME NEW h \in Handlers, StatsInv, RecordsOK(h), PastOK(h), Remember(h)
  PROVE  RecordsOK(h)' /\ PastOK(h)'
<1> DEFINE d == due[h]
           u == d[1].who
           all == <<d[1].entry>> \o history[u]
           kept == SubSeq(all, 1, IF Len(all) > HistoryKept THEN HistoryKept ELSE Len(all))
<1>1. /\ d \in Seq(Record) /\ d # <<>> /\ Head(d) = d[1] /\ 1 \in 1 .. Len(d)
      /\ d[1].what = "history" /\ u \in Users /\ d[1].entry \in Entry /\ hs[h].busy
      /\ IsDue(d, "history", u)
  BY NextRecord DEF Remember
<1>2. /\ due'[h] = Tail(d) /\ loaded' = loaded /\ stats' = stats /\ hs' = hs
      /\ history' = [history EXCEPT ![u] = kept]
  BY <1>1 DEF Remember, vars, StatsInv, StatsTypeOK
<1>3. history \in [Users -> Seq(Entry)] /\ HistoryKept \in Nat \ {0}
  BY StatsAssumption DEF StatsInv, StatsTypeOK
<1>4. history'[u] = kept /\ \A v \in Users : v # u => history'[v] = history[v]
  <2> HIDE DEF kept, u
  <2> QED
    BY <1>1, <1>2, <1>3
<1>5. Len(kept) < HistoryKept => kept = all /\ Len(history[u]) + 1 < HistoryKept
  <2>1. all \in Seq(Entry) /\ Len(all) = Len(history[u]) + 1 /\ Len(history[u]) \in Nat
    BY <1>1, <1>3, OneMore
  <2> HIDE DEF all
  <2>2. CASE Len(all) > HistoryKept
    <3>1. kept = SubSeq(all, 1, HistoryKept)
      BY <2>2
    <3>2. Len(SubSeq(all, 1, HistoryKept)) = HistoryKept
      BY <1>3, <2>1, <2>2
    <3> QED
      BY <1>3, <3>1, <3>2
  <2>3. CASE ~(Len(all) > HistoryKept)
    <3>1. kept = SubSeq(all, 1, Len(all))
      BY <2>3
    <3>2. SubSeq(all, 1, Len(all)) = all
      BY <2>1
    <3> QED
      BY <2>1, <3>1, <3>2
  <2> QED
    BY <2>2, <2>3
<1>6. /\ DueOf(Tail(d), hs[h].game)
      /\ \A what, v : IsDue(Tail(d), what, v) <=> IsDue(d, what, v) /\ ~(d[1].what = what /\ d[1].who = v)
  BY <1>1, DueTail DEF RecordsOK
<1>7. \A v : RowOf(v)' = RowOf(v)
  BY <1>2 DEF RowOf
<1>8. loaded[h] = NotLoaded
  BY <1>1 DEF RecordsOK
<1>9. RecordsOK(h)'
  BY <1>1, <1>2, <1>6, <1>8 DEF RecordsOK
<1>10. ~IsDue(d, "stats", u)
  <2> SUFFICES ASSUME NEW i \in 1 .. Len(d), d[i].what = "stats", d[i].who = u PROVE FALSE
    BY DEF IsDue
  <2>1. PICK j \in 1 .. Len(d) : i < j /\ d[j].what = "history" /\ d[j].who = u
    BY DEF RecordsOK, DueOf
  <2>2. j = 1
    BY <1>1, <2>1 DEF RecordsOK, DueOf
  <2> QED
    BY <2>1, <2>2
<1>11. PastOK(h)'
  <2> DEFINE t == Tail(d)
  <2> SUFFICES ASSUME Stake > 0, NEW v \in Users
               PROVE  /\ (IsDue(t, "stats", v) \/ ~IsDue(t, "history", v)) /\ Len(history'[v]) < HistoryKept
                           => Counts(RowOf(v), history'[v])
                      /\ \A i \in 1 .. Len(t) :
                           /\ t[i].what = "history" /\ t[i].who = v /\ ~IsDue(t, "stats", v)
                           /\ Len(history'[v]) + 1 < HistoryKept
                           => Counts(RowOf(v), <<t[i].entry>> \o history'[v])
    <3> HIDE DEF t
    <3>1. due'[h] = t
      BY <1>2 DEF t
    <3> QED
      BY <1>7, <3>1 DEF PastOK, IsDue
  <2>1. /\ Len(d) \in Nat /\ Len(t) = Len(d) - 1
        /\ \A i \in 1 .. Len(t) : i + 1 \in 1 .. Len(d) /\ t[i] = d[i + 1]
    BY <1>1, TailFacts
  <2>2. CASE v = u
    <3>1. ~IsDue(t, "history", u) /\ ~IsDue(t, "stats", u)
      BY <1>1, <1>6, <1>10
    <3>2. \A i \in 1 .. Len(t) : ~(t[i].what = "history" /\ t[i].who = u)
      BY <3>1 DEF IsDue
    <3>3. Len(history[u]) + 1 < HistoryKept => Counts(RowOf(u), all)
      BY <1>1, <1>10 DEF PastOK
    <3> HIDE DEF all, kept
    <3>4. Len(kept) < HistoryKept => Counts(RowOf(u), kept)
      BY <1>5, <3>3
    <3> QED
      BY <1>4, <2>2, <3>2, <3>4
  <2>3. CASE v # u
    <3>1. \A what : IsDue(t, what, v) <=> IsDue(d, what, v)
      BY <1>6, <2>3
    <3>2. history'[v] = history[v]
      BY <1>4, <2>3
    <3>3. /\ (IsDue(d, "stats", v) \/ ~IsDue(d, "history", v)) /\ Len(history[v]) < HistoryKept
               => Counts(RowOf(v), history[v])
          /\ \A i \in 1 .. Len(d) :
               /\ d[i].what = "history" /\ d[i].who = v /\ ~IsDue(d, "stats", v)
               /\ Len(history[v]) + 1 < HistoryKept
               => Counts(RowOf(v), <<d[i].entry>> \o history[v])
      BY DEF PastOK
    <3> QED
      BY <2>1, <3>1, <3>2, <3>3
  <2> QED
    BY <2>2, <2>3
<1> QED
  BY <1>9, <1>11

-----------------------------------------------------------------------------
(* The books of wallets and statistics *)

\* What the rest of a settlement is to take from the wallet of u, and to give it.
ToTake(hd, u) == IF Awaits(hd, u, {"consume"}) THEN Stake ELSE 0
ToGive(hd, u) == IF Awaits(hd, u, {"credit"}) THEN Payout(Pot(Stake, hd.game.size)) ELSE 0

\* What is won, net, in the match that the statistics of u do not count yet.
Unrecorded(hd, d, u) ==
  IF WinDue(d, u) THEN Payout(Pot(Stake, hd.game.size)) - Stake
  ELSE IF IsDue(d, "stats", u) THEN 0 - Stake ELSE 0

\* The payout is credited to a user once.
OneCredit(hd) ==
  /\ \A i \in 1 .. Len(hd.todo) :
       hd.todo[i].op = "credit" /\ hd.todo[i].who \in Users
         => hd.game \in Games /\ hd.todo[i].amt = Payout(Pot(Stake, hd.game.size))
  /\ \A i, j \in 1 .. Len(hd.todo) :
       /\ hd.todo[i].op = "credit" /\ hd.todo[j].op = "credit"
       /\ hd.todo[i].who \in Users /\ hd.todo[i].who = hd.todo[j].who
       => i = j

\* The wallets and the statistics say the same, once both are written.
Books(h) ==
  \A u \in Users \ Adjusted :
    wallet[u].bal + wallet[u].frz + ToGive(hs[h], u) - ToTake(hs[h], u)
      = UserBalance + RowOf(u).won - RowOf(u).lost + Unrecorded(hs[h], due[h], u)

BooksOK(h) == OneCredit(hs[h]) /\ Books(h)

\* Nothing of a settlement is left to do.
NoFlow(hd) == \A i \in 1 .. Len(hd.todo) : hd.todo[i].op \notin {"consume", "credit"}

LEMMA NothingFlows ==
  ASSUME NEW hd, NoFlow(hd)
  PROVE  OneCredit(hd) /\ \A u : ToTake(hd, u) = 0 /\ ToGive(hd, u) = 0
BY DEF NoFlow, OneCredit, ToTake, ToGive, Awaits

LEMMA AmountTypes ==
  ASSUME StatsInv, LedgerInv, NEW u \in Users
  PROVE  /\ wallet[u].bal \in Nat /\ wallet[u].frz \in Nat
         /\ RowOf(u).won \in Nat /\ RowOf(u).lost \in Nat
         /\ Stake \in Nat /\ UserBalance \in Nat
         /\ \A g \in Games : Payout(Pot(Stake, g.size)) \in Nat
<1>1. wallet[u] \in Wallet
  BY DEF SInv, LedgerInv, TypeOK, Accounts
<1>2. RowOf(u) \in StatsRow
  BY NewStatsConsistent DEF RowOf, StatsInv, StatsTypeOK
<1> QED
  BY <1>1, <1>2, RowFields, GameNumbers, LedgerAssumption DEF Wallet

\* A step of a call without a settlement keeps the books if it moves no worth.
LEMMA NoFlowBooks ==
  ASSUME NEW h \in Handlers, BooksOK(h), NoFlow(hs[h]), NoFlow(hs'[h]), UNCHANGED recordVars,
         due[h] = <<>> \/ hs'[h].game = hs[h].game,
         \A u \in Users \ Adjusted : wallet'[u].bal + wallet'[u].frz = wallet[u].bal + wallet[u].frz
  PROVE  BooksOK(h)'
<1>1. /\ OneCredit(hs'[h])
      /\ \A u : ToTake(hs'[h], u) = 0 /\ ToGive(hs'[h], u) = 0
      /\ \A u : ToTake(hs[h], u) = 0 /\ ToGive(hs[h], u) = 0
  BY NothingFlows
<1>2. due' = due /\ \A u : RowOf(u)' = RowOf(u)
  BY DEF recordVars, RowOf
<1>3. \A u : Unrecorded(hs'[h], due[h], u) = Unrecorded(hs[h], due[h], u)
  BY DEF Unrecorded, WinDue, IsDue
<1>4. Books(h)'
  BY <1>1, <1>2, <1>3 DEF BooksOK, Books
<1>5. OneCredit(hs[h])'
  BY <1>1 DEF OneCredit
<1> QED
  BY <1>4, <1>5 DEF BooksOK

\* What flows in a call without its first operation.
LEMMA FlowTail ==
  ASSUME NEW hd, hd.todo \in Seq(Op), hd.todo # <<>>, Distinct(hd.todo), OneCredit(hd),
         NEW hd2, hd2.todo = Tail(hd.todo), hd2.game = hd.game
  PROVE  /\ OneCredit(hd2)
         /\ \A u \in Users :
              /\ ToTake(hd2, u) = IF hd.todo[1].op = "consume" /\ hd.todo[1].who = u THEN 0 ELSE ToTake(hd, u)
              /\ ToGive(hd2, u) = IF hd.todo[1].op = "credit" /\ hd.todo[1].who = u THEN 0 ELSE ToGive(hd, u)
              /\ hd.todo[1].op = "consume" /\ hd.todo[1].who = u => ToTake(hd, u) = Stake
              /\ hd.todo[1].op = "credit" /\ hd.todo[1].who = u
                   => /\ ToGive(hd, u) = Payout(Pot(Stake, hd.game.size))
                      /\ hd.todo[1].amt = Payout(Pot(Stake, hd.game.size)) /\ hd.game \in Games
<1> DEFINE s == hd.todo
           n == Len(s)
           t == hd2.todo
<1>1. /\ n \in Nat \ {0} /\ Len(t) = n - 1 /\ 1 \in 1 .. n
      /\ \A i \in 1 .. n - 1 : i + 1 \in 1 .. n /\ t[i] = s[i + 1]
  BY TailFacts
<1>2. \A i, j \in 1 .. n : /\ s[i].op = "credit" /\ s[j].op = "credit"
                           /\ s[i].who \in Users /\ s[i].who = s[j].who
                           => i = j
  BY DEF OneCredit
<1>3. \A i \in 1 .. n : s[i].op = "credit" /\ s[i].who \in Users
        => hd.game \in Games /\ s[i].amt = Payout(Pot(Stake, hd.game.size))
  BY DEF OneCredit
<1>4. \A i, j \in 1 .. n - 1 : i + 1 = j + 1 => i = j
  BY <1>1
<1>5. \A j \in 1 .. n : j = 1 \/ (j - 1 \in 1 .. n - 1 /\ t[j - 1] = s[j])
  <2> HIDE DEF n, s, t
  <2> SUFFICES ASSUME NEW j \in 1 .. n, j # 1 PROVE j - 1 \in 1 .. n - 1 /\ t[j - 1] = s[j]
    OBVIOUS
  <2>1. j - 1 \in 1 .. n - 1 /\ (j - 1) + 1 = j
    BY <1>1
  <2>2. t[j - 1] = s[(j - 1) + 1]
    BY <1>1, <2>1
  <2> QED
    BY <2>1, <2>2
<1>6. OneCredit(hd2)
  <2> HIDE DEF n, s
  <2>1. \A i \in 1 .. n - 1 : t[i].op = "credit" /\ t[i].who \in Users
          => hd.game \in Games /\ t[i].amt = Payout(Pot(Stake, hd.game.size))
    BY <1>1, <1>3
  <2>2. \A i, j \in 1 .. n - 1 : /\ t[i].op = "credit" /\ t[j].op = "credit"
                                 /\ t[i].who \in Users /\ t[i].who = t[j].who
                                 => i = j
    BY <1>1, <1>2, <1>4
  <2> QED
    BY <1>1, <2>1, <2>2 DEF OneCredit
<1>7. \A u \in Users :
        Awaits(hd2, u, {"consume"}) <=> Awaits(hd, u, {"consume"}) /\ ~(s[1].who = u /\ s[1].op = "consume")
  <2> TAKE u \in Users
  <2>1. {"consume"} \subseteq Moving
    BY DEF Moving
  <2>2. Awaits(hd2, u, {"consume"}) <=>
          Awaits(hd, u, {"consume"}) /\ ~(s[1].who = u /\ s[1].op \in {"consume"})
    BY <2>1, AwaitsTail
  <2> QED
    BY <2>2
<1>8. \A u \in Users :
        Awaits(hd2, u, {"credit"}) <=> Awaits(hd, u, {"credit"}) /\ ~(s[1].who = u /\ s[1].op = "credit")
  <2> TAKE u \in Users
  <2> HIDE DEF n
  <2>1. ASSUME NEW i \in 1 .. n - 1, t[i].op = "credit", t[i].who = u
        PROVE  Awaits(hd, u, {"credit"}) /\ ~(s[1].who = u /\ s[1].op = "credit")
    <3>1. i + 1 \in 1 .. n /\ t[i] = s[i + 1] /\ i + 1 # 1
      BY <1>1
    <3>2. ~(s[1].who = u /\ s[1].op = "credit")
      BY <1>1, <1>2, <2>1, <3>1
    <3> QED
      BY <2>1, <3>1, <3>2 DEF Awaits, n
  <2>2. ASSUME NEW j \in 1 .. n, s[j].op = "credit", s[j].who = u, ~(s[1].who = u /\ s[1].op = "credit")
        PROVE  Awaits(hd2, u, {"credit"})
    <3>1. j - 1 \in 1 .. n - 1 /\ t[j - 1] = s[j]
      BY <1>5, <2>2
    <3> QED
      BY <1>1, <2>2, <3>1 DEF Awaits
  <2>3. Awaits(hd2, u, {"credit"}) <=> \E i \in 1 .. n - 1 : t[i].who = u /\ t[i].op = "credit"
    BY <1>1 DEF Awaits
  <2>4. Awaits(hd, u, {"credit"}) <=> \E j \in 1 .. n : s[j].who = u /\ s[j].op = "credit"
    BY DEF Awaits, n
  <2> QED
    BY <2>1, <2>2, <2>3, <2>4
<1>9. \A u : /\ s[1].op = "consume" /\ s[1].who = u => Awaits(hd, u, {"consume"})
             /\ s[1].op = "credit" /\ s[1].who = u => Awaits(hd, u, {"credit"})
  BY <1>1 DEF Awaits
<1> HIDE DEF s, n, t
<1>10. ASSUME NEW u \in Users
       PROVE  /\ ToTake(hd2, u) = IF s[1].op = "consume" /\ s[1].who = u THEN 0 ELSE ToTake(hd, u)
              /\ s[1].op = "consume" /\ s[1].who = u => ToTake(hd, u) = Stake
  BY <1>7, <1>9 DEF ToTake
<1>11. ASSUME NEW u \in Users
       PROVE  /\ ToGive(hd2, u) = IF s[1].op = "credit" /\ s[1].who = u THEN 0 ELSE ToGive(hd, u)
              /\ s[1].op = "credit" /\ s[1].who = u => ToGive(hd, u) = Payout(Pot(Stake, hd.game.size))
  BY <1>8, <1>9 DEF ToGive
<1>12. ASSUME NEW u \in Users, s[1].op = "credit" /\ s[1].who = u
       PROVE  s[1].amt = Payout(Pot(Stake, hd.game.size)) /\ hd.game \in Games
  BY <1>1, <1>3, <1>12
<1> QED
  BY <1>6, <1>10, <1>11, <1>12 DEF s

\* A call moves a stake once.
LEMMA CallDistinct ==
  ASSUME NEW h \in Handlers, SInv(h)
  PROVE  hs[h].todo \in Seq(Op) /\ Distinct(hs[h].todo)
<1>1. hs[h].todo \in Seq(Op) /\ hs[h].game \in Games \cup {NoGame}
  BY HandlerFields DEF SInv, LedgerInv, TypeOK
<1>2. CASE hs[h].game \in Games
  BY <1>1, <1>2 DEF SInv, SerialInvOf, CallOK, GameCallOK
<1>3. CASE hs[h].game = NoGame
  <2> DEFINE n == Len(hs[h].todo)
  <2>1. n <= 1
    BY <1>3 DEF SInv, SerialInvOf, CallOK, OtherCallOK
  <2>2. n \in Nat
    BY <1>1
  <2> HIDE DEF n
  <2>3. \A i, j \in 1 .. n : i = j
    BY <2>1, <2>2
  <2> QED
    BY <1>1, <2>3 DEF Distinct, n
<1> QED
  BY <1>1, <1>2, <1>3

\* An operation that is done moves what the rest of its call no longer will.
LEMMA OpDoneBooks ==
  ASSUME NEW h \in Handlers, SInv(h), StatsInv, FinitelyMany, hs[h].todo # <<>>, OpDone(h),
         BooksOK(h), UNCHANGED recordVars
  PROVE  BooksOK(h)'
<1> DEFINE op == hs[h].todo[1]
<1>1. /\ op.who \in Accounts
      /\ \A a \in Accounts \ {op.who} : wallet'[a] = wallet[a]
      /\ wallet'[op.who].frz = IF op.op = "freeze" THEN wallet[op.who].frz + op.amt
                               ELSE IF op.op \in Moving
                               THEN wallet[op.who].frz - Taken(wallet[op.who], op.amt)
                               ELSE wallet[op.who].frz
      /\ wallet'[op.who].bal = IF op.op = "freeze" THEN wallet[op.who].bal - op.amt
                               ELSE IF op.op \in {"consume", "reset"} THEN wallet[op.who].bal
                               ELSE wallet[op.who].bal + op.amt
  BY WalletsAfter
<1>2. hs'[h].todo = Tail(hs[h].todo) /\ hs'[h].game = hs[h].game
  BY RestFields DEF OpDone, SInv
<1>3. hs[h].todo \in Seq(Op) /\ Distinct(hs[h].todo) /\ OneCredit(hs[h])
  BY CallDistinct DEF BooksOK
<1>4. /\ OneCredit(hs'[h])
      /\ \A u \in Users :
           /\ ToTake(hs'[h], u) = IF op.op = "consume" /\ op.who = u THEN 0 ELSE ToTake(hs[h], u)
           /\ ToGive(hs'[h], u) = IF op.op = "credit" /\ op.who = u THEN 0 ELSE ToGive(hs[h], u)
           /\ op.op = "consume" /\ op.who = u => ToTake(hs[h], u) = Stake
           /\ op.op = "credit" /\ op.who = u
                => /\ ToGive(hs[h], u) = Payout(Pot(Stake, hs[h].game.size))
                   /\ op.amt = Payout(Pot(Stake, hs[h].game.size)) /\ hs[h].game \in Games
  <2> DEFINE hd == hs[h]
             hd2 == hs'[h]
  <2>1. hd.todo \in Seq(Op) /\ hd.todo # <<>> /\ Distinct(hd.todo) /\ OneCredit(hd)
        /\ hd2.todo = Tail(hd.todo) /\ hd2.game = hd.game
    BY <1>2, <1>3
  <2> HIDE DEF hd, hd2
  <2>2. /\ OneCredit(hd2)
         /\ \A u \in Users :
              /\ ToTake(hd2, u) = IF hd.todo[1].op = "consume" /\ hd.todo[1].who = u THEN 0 ELSE ToTake(hd, u)
              /\ ToGive(hd2, u) = IF hd.todo[1].op = "credit" /\ hd.todo[1].who = u THEN 0 ELSE ToGive(hd, u)
              /\ hd.todo[1].op = "consume" /\ hd.todo[1].who = u => ToTake(hd, u) = Stake
              /\ hd.todo[1].op = "credit" /\ hd.todo[1].who = u
                   => /\ ToGive(hd, u) = Payout(Pot(Stake, hd.game.size))
                      /\ hd.todo[1].amt = Payout(Pot(Stake, hd.game.size)) /\ hd.game \in Games
    BY <2>1, FlowTail
  <2> QED
    BY <2>2 DEF hd, hd2
<1>5. due' = due /\ \A u : RowOf(u)' = RowOf(u)
  BY DEF recordVars, RowOf
<1>6. \A u : Unrecorded(hs'[h], due[h], u) = Unrecorded(hs[h], due[h], u)
  BY <1>2 DEF Unrecorded
<1>7. /\ op.op \in Locked \cup Unlocked /\ op.amt \in Int
  BY HeadOp DEF SInv
<1>8. op.op = "consume" /\ op.who \in Users => op.amt = Stake
  <2>1. op.op = "consume" => StakeOp(hs[h].game, op)
    BY FirstStakeMove DEF SInv, SerialInvOf, Moving
  <2>2. House \notin Users
    BY LedgerAssumption
  <2> QED
    BY <2>1, <2>2 DEF StakeOp
<1>9. op.op = "adjust" => op.who \in Adjusted
  BY OtherOp DEF Moving
<1>10. \A u \in Users : wallet[u].bal \in Nat /\ wallet[u].frz \in Nat /\ Stake \in Nat
                        /\ ToTake(hs[h], u) \in {0, Stake}
  BY AmountTypes DEF SInv, ToTake
<1>14. op.op \in Returning /\ op.who \in Users \ Adjusted => Taken(wallet[op.who], op.amt) = op.amt
  <2> SUFFICES ASSUME op.op \in Returning, op.who \in Users, op.who \notin Adjusted
               PROVE  Taken(wallet[op.who], op.amt) = op.amt
    OBVIOUS
  <2>1. op.who # House
    BY LedgerAssumption
  <2>2. LedgerInv /\ CallOK(hs[h]) /\ OneGameEach /\ UserStakes(hs[h])
    BY DEF SInv, SerialInvOf
  <2>3. op.amt = Stake /\ wallet[op.who].frz = Stake
    BY <2>1, <2>2, StakeIsFrozen
  <2>4. Stake \in Nat /\ wallet[op.who] \in Wallet
    BY <1>1, <2>2, LedgerAssumption DEF LedgerInv, TypeOK
  <2>5. Stake <= wallet[op.who].frz
    BY <2>3, <2>4
  <2>6. Taken(wallet[op.who], Stake) = Stake
    BY <2>4, <2>5, TakenFacts
  <2> QED
    BY <2>3, <2>6
<1> HIDE DEF op
<1>11. ASSUME NEW u \in Users \ Adjusted
       PROVE  wallet'[u].bal + wallet'[u].frz + ToGive(hs'[h], u) - ToTake(hs'[h], u)
                = wallet[u].bal + wallet[u].frz + ToGive(hs[h], u) - ToTake(hs[h], u)
  <2>1. CASE op.who # u
    <3>1. wallet'[u] = wallet[u]
      BY <1>1, <2>1 DEF Accounts
    <3>2. ToGive(hs'[h], u) = ToGive(hs[h], u) /\ ToTake(hs'[h], u) = ToTake(hs[h], u)
      BY <1>4, <2>1
    <3> QED
      BY <3>1, <3>2
  <2>2. CASE op.who = u
    <3> DEFINE w  == wallet[u]
               w2 == wallet'[u]
               p  == Payout(Pot(Stake, hs[h].game.size))
               g1 == ToGive(hs[h], u)
               g2 == ToGive(hs'[h], u)
               o1 == ToTake(hs[h], u)
               o2 == ToTake(hs'[h], u)
    <3>1. /\ w2.frz = IF op.op = "freeze" THEN w.frz + op.amt
                      ELSE IF op.op \in Moving THEN w.frz - op.amt ELSE w.frz
          /\ w2.bal = IF op.op = "freeze" THEN w.bal - op.amt
                      ELSE IF op.op \in {"consume", "reset"} THEN w.bal ELSE w.bal + op.amt
      <4>1. op.op \in Returning => Taken(w, op.amt) = op.amt
        BY <1>14, <2>2
      <4>2. op.op \in Moving => op.op = "freeze" \/ op.op \in Returning
        BY DEF Moving, Returning
      <4> QED
        BY <1>1, <2>2, <4>1, <4>2
    <3>2. /\ o2 = IF op.op = "consume" THEN 0 ELSE o1
          /\ g2 = IF op.op = "credit" THEN 0 ELSE g1
          /\ op.op = "consume" => o1 = Stake /\ op.amt = Stake
          /\ op.op = "credit" => g1 = p /\ op.amt = p
      BY <1>4, <1>8, <2>2
    <3>3. /\ w.bal \in Nat /\ w.frz \in Nat /\ Stake \in Nat /\ o1 \in Int /\ op.amt \in Int
      BY <1>7, <1>10
    <3>4. g1 \in Int /\ (op.op = "credit" => p \in Int)
      <4>1. CASE Awaits(hs[h], u, {"credit"})
        <5>1. hs[h].game \in Games
          BY <1>3, <4>1 DEF Awaits, OneCredit
        <5> QED
          BY <5>1, GameNumbers DEF ToGive
      <4>2. CASE ~Awaits(hs[h], u, {"credit"})
        <5>1. op.op # "credit"
          <6>1. Awaits(hs[h], op.who, {op.op})
            BY <1>3, FirstAwaited DEF op
          <6> QED
            BY <2>2, <4>2, <6>1
        <5> QED
          BY <4>2, <5>1 DEF ToGive
      <4> QED
        BY <4>1, <4>2
    <3>5. op.op # "adjust"
      BY <1>9, <2>2
    <3> HIDE DEF w, w2, p, g1, g2, o1, o2
    <3>6. CASE op.op = "freeze"
      <4>1. w2.frz = w.frz + op.amt /\ w2.bal = w.bal - op.amt /\ g2 = g1 /\ o2 = o1
        BY <3>1, <3>2, <3>6
      <4> QED
        BY <3>3, <3>4, <4>1 DEF w, w2, g1, g2, o1, o2
    <3>7. CASE op.op \in {"unfreeze", "refund"}
      <4>1. w2.frz = w.frz - op.amt /\ w2.bal = w.bal + op.amt /\ g2 = g1 /\ o2 = o1
        BY <3>1, <3>2, <3>7 DEF Moving
      <4> QED
        BY <3>3, <3>4, <4>1 DEF w, w2, g1, g2, o1, o2
    <3>8. CASE op.op = "consume"
      <4>1. w2.frz = w.frz - op.amt /\ w2.bal = w.bal /\ g2 = g1 /\ o2 = 0 /\ o1 = op.amt
        BY <3>1, <3>2, <3>8 DEF Moving
      <4> QED
        BY <3>3, <3>4, <4>1 DEF w, w2, g1, g2, o1, o2
    <3>9. CASE op.op = "credit"
      <4>1. w2.frz = w.frz /\ w2.bal = w.bal + op.amt /\ g2 = 0 /\ g1 = op.amt /\ o2 = o1
        BY <3>1, <3>2, <3>9 DEF Moving
      <4> QED
        BY <3>3, <3>4, <4>1 DEF w, w2, g1, g2, o1, o2
    <3>10. CASE op.op = "reset"
      <4>1. w2.frz = w.frz /\ w2.bal = w.bal /\ g2 = g1 /\ o2 = o1
        BY <3>1, <3>2, <3>10 DEF Moving
      <4> QED
        BY <3>3, <3>4, <4>1 DEF w, w2, g1, g2, o1, o2
    <3> QED
      BY <1>7, <3>5, <3>6, <3>7, <3>8, <3>9, <3>10 DEF Locked, Unlocked
  <2> QED
    BY <2>1, <2>2
<1>12. Books(h)'
  BY <1>5, <1>6, <1>11 DEF BooksOK, Books
<1>13. OneCredit(hs[h])'
  BY <1>4 DEF OneCredit
<1> QED
  BY <1>12, <1>13 DEF BooksOK

-----------------------------------------------------------------------------
(* Calls keep the books *)

\* A step that leaves the operations of the call and the wallets alone.
LEMMA SameCallBooks ==
  ASSUME NEW h \in Handlers, BooksOK(h), hs'[h].todo = hs[h].todo, hs'[h].game = hs[h].game,
         wallet' = wallet, UNCHANGED recordVars
  PROVE  BooksOK(h)'
<1>1. due' = due /\ \A u : RowOf(u)' = RowOf(u)
  BY DEF recordVars, RowOf
<1>2. \A u : /\ ToTake(hs'[h], u) = ToTake(hs[h], u) /\ ToGive(hs'[h], u) = ToGive(hs[h], u)
             /\ Unrecorded(hs'[h], due[h], u) = Unrecorded(hs[h], due[h], u)
  BY DEF ToTake, ToGive, Awaits, Unrecorded
<1>3. Books(h)'
  BY <1>1, <1>2 DEF BooksOK, Books
<1>4. OneCredit(hs[h])'
  BY DEF BooksOK, OneCredit
<1> QED
  BY <1>3, <1>4 DEF BooksOK

\* A call's step on the wallets keeps the books; the call goes on.
LEMMA WalletStepBooks ==
  ASSUME NEW h \in Handlers, SInv(h), StatsInv, FinitelyMany, BooksOK(h), WalletStep(h)
  PROVE  BooksOK(h)' /\ hs'[h].busy = hs[h].busy /\ hs'[h].game = hs[h].game
<1>1. WalletSteps(h) /\ UNCHANGED recordVars
  BY StepsOfCall DEF WalletStep, SInv, SerialInvOf
<1>2. hs[h].todo # <<>> /\ stage' = stage
  BY <1>1 DEF WalletSteps
<1>3. CASE OpDone(h)
  <2>1. hs'[h].busy = hs[h].busy /\ hs'[h].game = hs[h].game
    BY <1>2, <1>3, RestFields DEF OpDone, SInv
  <2> QED
    BY <1>1, <1>2, <1>3, <2>1, OpDoneBooks
<1>4. CASE FreezeFailed(h)
  <2>1. /\ \A i \in 1 .. Len(hs[h].todo) : hs[h].todo[i].op = "freeze"
        /\ hs'[h].todo = hs[h].undo /\ hs'[h].game = hs[h].game /\ hs'[h].busy = hs[h].busy
        /\ UndoOK(hs[h], hs[h].game)
    BY <1>2, <1>4, FreezeFailedFrozen
  <2>2. NoFlow(hs[h]) /\ NoFlow(hs'[h])
    BY <2>1 DEF NoFlow, UndoOK
  <2>3. wallet' = wallet
    BY <1>4 DEF FreezeFailed
  <2> QED
    BY <1>1, <2>1, <2>2, <2>3, NoFlowBooks
<1>5. CASE RowRead(h)
  <2>1. hs'[h].todo = hs[h].todo /\ hs'[h].game = hs[h].game /\ hs'[h].busy = hs[h].busy
    BY <1>5, RowReadFields
  <2>2. wallet' = wallet
    BY <1>5 DEF RowRead
  <2> QED
    BY <1>1, <2>1, <2>2, SameCallBooks
<1>6. CASE AdjustRefused(h)
  <2>1. hs[h].todo[1].op = "adjust" /\ wallet' = wallet /\ hs' = [hs EXCEPT ![h] = Rest(h, hs[h].todo[1])]
    BY <1>6 DEF AdjustRefused
  <2>2. /\ hs'[h].todo = Tail(hs[h].todo) /\ hs'[h].game = hs[h].game /\ hs'[h].busy = hs[h].busy
    BY <1>2, <2>1, RestFields DEF SInv
  <2>3. hs[h].todo \in Seq(Op)
    BY CallDistinct
  <2>4. Len(hs[h].todo) = 1
    BY <1>2, <2>1, OtherOp DEF Moving
  <2>5. Len(hs'[h].todo) = 0
    <3> DEFINE todo == hs[h].todo
    <3>1. Len(todo) = 1 /\ todo \in Seq(Op) /\ todo # <<>>
      BY <1>2, <2>3, <2>4
    <3> HIDE DEF todo
    <3>2. Len(Tail(todo)) = 0
      BY <3>1
    <3> QED
      BY <2>2, <3>2 DEF todo
  <2>6. NoFlow(hs[h]) /\ NoFlow(hs'[h])
    BY <2>1, <2>4, <2>5 DEF NoFlow
  <2> QED
    BY <1>1, <2>1, <2>2, <2>6, NoFlowBooks
<1> QED
  BY <1>1, <1>3, <1>4, <1>5, <1>6 DEF WalletSteps

\* Where a settlement's operations for a user are.
LEMMA SettlementFlows ==
  ASSUME NEW g \in Games, NEW winner \in Accounts,
         NEW hd, hd.todo = Settlement(g, winner), hd.game = g,
         winner \in PlayersOf(g) \cup {House}
  PROVE  /\ OneCredit(hd)
         /\ \A u \in Users :
              /\ Awaits(hd, u, {"consume"}) <=> u \in PlayersOf(g)
              /\ Awaits(hd, u, {"credit"}) <=> u = winner
<1> DEFINE all == Settlement(g, winner)
           n == Len(g.players)
           b == Bots(g)
           f == Fees(g)
           p == Payout(Pot(Stake, g.size))
<1>1. /\ n \in Nat \ {0} /\ Len(all) = n + b + 1 + f
      /\ \A i \in 1 .. n : all[i] = [op |-> "consume", who |-> g.players[i], amt |-> Stake]
      /\ b = 1 => all[n + 1] = [op |-> "consume", who |-> House, amt |-> HouseStake(g)]
      /\ all[n + b + 1] = [op |-> "credit", who |-> winner, amt |-> p]
      /\ f = 1 => all[n + b + 2] = [op |-> "credit", who |-> House, amt |-> Fee(Pot(Stake, g.size))]
  BY SettlementAt
<1>2. b \in {0, 1} /\ f \in {0, 1} /\ House \notin Users
  BY LedgerAssumption DEF Bots, Fees
<1>3. \A u : u \in PlayersOf(g) <=> \E i \in 1 .. n : g.players[i] = u
  BY DEF PlayersOf
<1> HIDE DEF all, n, b, f, p
<1>4. \A i \in 1 .. Len(all) :
        \/ i \in 1 .. n
        \/ b = 1 /\ i = n + 1
        \/ i = n + b + 1
        \/ f = 1 /\ i = n + b + 2
  <2> SUFFICES ASSUME NEW i \in 1 .. n + b + 1 + f, i \notin 1 .. n, ~(b = 1 /\ i = n + 1), i # n + b + 1
               PROVE  f = 1 /\ i = n + b + 2
    BY <1>1
  <2> QED
    BY <1>1, <1>2
<1>5. n + b + 1 \in 1 .. Len(all) /\ \A i \in 1 .. n : i \in 1 .. Len(all)
  BY <1>1, <1>2
<1>6. \A i \in 1 .. Len(all) :
        all[i].who \in Users =>
          \/ i \in 1 .. n /\ all[i].op = "consume" /\ all[i].who = g.players[i]
          \/ i = n + b + 1 /\ all[i].op = "credit" /\ all[i].who = winner /\ all[i].amt = p
  <2> SUFFICES ASSUME NEW i \in 1 .. Len(all), all[i].who \in Users
               PROVE  \/ i \in 1 .. n /\ all[i].op = "consume" /\ all[i].who = g.players[i]
                      \/ i = n + b + 1 /\ all[i].op = "credit" /\ all[i].who = winner /\ all[i].amt = p
    OBVIOUS
  <2>1. CASE i \in 1 .. n
    <3>1. all[i] = [op |-> "consume", who |-> g.players[i], amt |-> Stake]
      BY <1>1, <2>1
    <3> QED
      BY <2>1, <3>1
  <2>2. CASE b = 1 /\ i = n + 1
    BY <1>1, <1>2, <2>2
  <2>3. CASE i = n + b + 1
    BY <1>1, <2>3
  <2>4. CASE f = 1 /\ i = n + b + 2
    BY <1>1, <1>2, <2>4
  <2> QED
    BY <1>4, <2>1, <2>2, <2>3, <2>4
<1>7. hd.todo = all /\ hd.game \in Games /\ p = Payout(Pot(Stake, hd.game.size))
  BY DEF all, p
<1>8. OneCredit(hd)
  BY <1>6, <1>7 DEF OneCredit
<1>9. ASSUME NEW u \in Users
      PROVE  /\ Awaits(hd, u, {"consume"}) <=> u \in PlayersOf(g)
             /\ Awaits(hd, u, {"credit"}) <=> u = winner
  <2>1. ASSUME Awaits(hd, u, {"consume"}) PROVE u \in PlayersOf(g)
    <3>1. PICK i \in 1 .. Len(all) : all[i].who = u /\ all[i].op = "consume"
      BY <1>7, <2>1 DEF Awaits
    <3>2. i \in 1 .. n /\ all[i].who = g.players[i]
      BY <1>6, <3>1
    <3> QED
      BY <1>3, <3>1, <3>2
  <2>2. ASSUME u \in PlayersOf(g) PROVE Awaits(hd, u, {"consume"})
    <3>1. PICK i \in 1 .. n : g.players[i] = u
      BY <1>3, <2>2
    <3>2. all[i] = [op |-> "consume", who |-> g.players[i], amt |-> Stake] /\ i \in 1 .. Len(all)
      BY <1>1, <1>5
    <3>3. all[i].who = u /\ all[i].op = "consume"
      BY <3>1, <3>2
    <3> QED
      BY <1>7, <3>2, <3>3 DEF Awaits
  <2>3. Awaits(hd, u, {"credit"}) => u = winner
    BY <1>6, <1>7, <1>9 DEF Awaits
  <2>4. u = winner => Awaits(hd, u, {"credit"})
    BY <1>1, <1>5, <1>7 DEF Awaits
  <2> QED
    BY <2>1, <2>2, <2>3, <2>4
<1> QED
  BY <1>8, <1>9

\* As it begins, a settlement is to move what it is to record.
LEMMA SettleMatchBooks ==
  ASSUME NEW h \in Handlers, SInv(h), StatsInv, RecordsOK(h), BooksOK(h),
         NEW g \in Games, NEW winner \in Accounts, SettleMatch(h, g, winner)
  PROVE  BooksOK(h)'
<1> DEFINE d == RecordsDue(g, winner)
           p == Payout(Pot(Stake, g.size))
<1>1. due'[h] = d /\ stats' = stats /\ wallet' = wallet
  BY DEF SettleMatch, Settle, StatsInv, StatsTypeOK
<1>2. /\ ~hs[h].busy /\ hs'[h].todo = Settlement(g, winner) /\ hs'[h].game = g
      /\ winner \in PlayersOf(g) \cup {House}
  <2>1. Begin(h, Settlement(g, winner), <<>>, g, "closing", "closed")
    BY DEF SettleMatch, Settle
  <2>2. hs \in [Handlers -> Handler]
    BY DEF SInv, LedgerInv, TypeOK
  <2>3. winner \in PlayersOf(g) \cup {House}
    BY DEF SettleMatch, Settle
  <2> DEFINE x == [todo |-> Settlement(g, winner), undo |-> <<>>, copy |-> NoRow, seen |-> NoRow,
                   game |-> g, next |-> "closed", busy |-> TRUE]
  <2>4. ~hs[h].busy /\ hs'[h] = x
    BY <2>1, <2>2 DEF Begin
  <2>5. x.todo = Settlement(g, winner) /\ x.game = g
    OBVIOUS
  <2> HIDE DEF x
  <2> QED
    BY <2>3, <2>4, <2>5
<1>3. due[h] = <<>> /\ hs[h].todo = <<>>
  BY <1>2 DEF RecordsOK, SInv, SerialInvOf, CallOK
<1>4. /\ \A u : ToTake(hs[h], u) = 0 /\ ToGive(hs[h], u) = 0
      /\ \A u : Unrecorded(hs[h], due[h], u) = 0
  BY <1>3 DEF ToTake, ToGive, Awaits, Unrecorded, WinDue, IsDue
<1>5. /\ OneCredit(hs'[h])
      /\ \A u \in Users :
           /\ Awaits(hs'[h], u, {"consume"}) <=> u \in PlayersOf(g)
           /\ Awaits(hs'[h], u, {"credit"}) <=> u = winner
  <2> DEFINE hd == hs'[h]
  <2>1. hd.todo = Settlement(g, winner) /\ hd.game = g
    BY <1>2
  <2> HIDE DEF hd
  <2>2. /\ OneCredit(hd)
        /\ \A u \in Users :
             /\ Awaits(hd, u, {"consume"}) <=> u \in PlayersOf(g)
             /\ Awaits(hd, u, {"credit"}) <=> u = winner
    BY <1>2, <2>1, SettlementFlows
  <2> QED
    BY <2>2 DEF hd
<1>6. /\ \A u : IsDue(d, "stats", u) <=> Stake > 0 /\ u \in PlayersOf(g)
      /\ \A u : WinDue(d, u) <=> Stake > 0 /\ u \in PlayersOf(g) /\ u = winner
  BY AllDue
<1>7. p \in Nat /\ Stake \in Nat /\ (Stake = 0 => p = 0)
  <2>1. p \in Nat /\ Stake \in Nat /\ g.size \in Nat
    BY GameNumbers, PlayersAreUsers
  <2>2. ASSUME Stake = 0 PROVE p = 0
    <3>1. Pot(Stake, g.size) = 0
      BY <2>1, <2>2 DEF Pot
    <3>2. Fee(0) \in Nat /\ Payout(0) \in Nat /\ Fee(0) + Payout(0) = 0
      BY FeeAndPayout
    <3>3. Payout(0) = 0
      BY <3>2
    <3> QED
      BY <3>1, <3>3
  <2> QED
    BY <2>1, <2>2
<1>8. House \notin Users /\ PlayersOf(g) \subseteq Users
  BY PlayersAreUsers
<1> HIDE DEF d, p
<1>9. ASSUME NEW u \in Users
      PROVE  ToGive(hs'[h], u) - ToTake(hs'[h], u) = Unrecorded(hs'[h], d, u)
             /\ ToGive(hs'[h], u) \in Int /\ ToTake(hs'[h], u) \in Int
  <2>1. ToGive(hs'[h], u) = IF u = winner THEN p ELSE 0
    BY <1>2, <1>5 DEF ToGive, p
  <2>2. ToTake(hs'[h], u) = IF u \in PlayersOf(g) THEN Stake ELSE 0
    BY <1>5 DEF ToTake
  <2>3. u = winner => u \in PlayersOf(g)
    BY <1>2, <1>8
  <2>4. Unrecorded(hs'[h], d, u) = IF Stake > 0 /\ u \in PlayersOf(g) /\ u = winner THEN p - Stake
                                   ELSE IF Stake > 0 /\ u \in PlayersOf(g) THEN 0 - Stake ELSE 0
    BY <1>2, <1>6 DEF Unrecorded, p
  <2> QED
    BY <1>7, <2>1, <2>2, <2>3, <2>4
<1>10. \A u : RowOf(u)' = RowOf(u)
  BY <1>1 DEF RowOf
<1>11. Books(h)'
  <2> SUFFICES ASSUME NEW u \in Users \ Adjusted
               PROVE  wallet[u].bal + wallet[u].frz + ToGive(hs'[h], u) - ToTake(hs'[h], u)
                        = UserBalance + RowOf(u).won - RowOf(u).lost + Unrecorded(hs'[h], d, u)
    BY <1>1, <1>10 DEF Books
  <2>1. wallet[u].bal + wallet[u].frz + 0 - 0 = UserBalance + RowOf(u).won - RowOf(u).lost + 0
    BY <1>4 DEF BooksOK, Books
  <2>2. /\ wallet[u].bal \in Nat /\ wallet[u].frz \in Nat /\ UserBalance \in Nat
        /\ RowOf(u).won \in Nat /\ RowOf(u).lost \in Nat
    BY AmountTypes DEF SInv
  <2> QED
    BY <1>9, <2>1, <2>2
<1>12. OneCredit(hs[h])'
  BY <1>5 DEF OneCredit
<1> QED
  BY <1>11, <1>12 DEF BooksOK

\* A row that is written takes over what was unrecorded.
LEMMA UpsertStatsBooks ==
  ASSUME NEW h \in Handlers, SInv(h), StatsInv, RecordsOK(h), PastOK(h), BooksOK(h), UpsertStats(h)
  PROVE  BooksOK(h)'
<1> DEFINE d == due[h]
           e == d[1].entry
           t == Tail(d)
<1>1. /\ d \in Seq(Record) /\ d # <<>> /\ 1 \in 1 .. Len(d)
      /\ d[1].what = "stats" /\ d[1].who \in Users /\ e \in Entry
      /\ hs[h].todo = <<>>
      /\ IsDue(d, "stats", d[1].who)
  BY NextRecord DEF UpsertStats
<1>2. due'[h] = t /\ hs' = hs /\ wallet' = wallet
  BY DEF UpsertStats, vars, StatsInv, StatsTypeOK
<1>3. \A u \in Users : RowOf(u)' = IF u = d[1].who THEN AfterMatch(RowOf(u), e) ELSE RowOf(u)
  BY UpsertStatsCounts
<1>4. /\ \A what, u : IsDue(t, what, u) <=> IsDue(d, what, u) /\ ~(d[1].what = what /\ d[1].who = u)
      /\ \A u : WinDue(t, u) <=> WinDue(d, u) /\ ~(d[1].what = "stats" /\ d[1].who = u)
  BY <1>1, DueTail DEF RecordsOK
<1>5. e.game = hs[h].game /\ e.game \in Games /\ e.won \in BOOLEAN
  BY <1>1 DEF RecordsOK, DueOf, Entry
<1>6. \A i \in 1 .. Len(d) : d[i].what = "stats" /\ d[i].who = d[1].who => i = 1
  BY <1>1 DEF RecordsOK, DueOf
<1>7. WinDue(d, d[1].who) <=> e.won
  BY <1>1, <1>6 DEF WinDue
<1> DEFINE p == Payout(Pot(Stake, e.game.size))
<1>8. p \in Nat /\ Stake \in Nat
  BY <1>5, GameNumbers, LedgerAssumption
<1>9. /\ \A u : ToTake(hs[h], u) = 0 /\ ToGive(hs[h], u) = 0
  BY <1>1 DEF ToTake, ToGive, Awaits
<1>10. Books(h)'
  <2> HIDE DEF d, t, e, p
  <2> SUFFICES ASSUME NEW u \in Users \ Adjusted
               PROVE  wallet[u].bal + wallet[u].frz + 0 - 0
                        = UserBalance + RowOf(u)'.won - RowOf(u)'.lost + Unrecorded(hs[h], t, u)
    BY <1>2, <1>9 DEF Books
  <2>1. wallet[u].bal + wallet[u].frz + 0 - 0
          = UserBalance + RowOf(u).won - RowOf(u).lost + Unrecorded(hs[h], d, u)
    BY <1>9 DEF BooksOK, Books, d
  <2>2. /\ wallet[u].bal \in Nat /\ wallet[u].frz \in Nat /\ UserBalance \in Nat
        /\ RowOf(u).won \in Nat /\ RowOf(u).lost \in Nat
    BY AmountTypes DEF SInv
  <2>3. CASE u = d[1].who
    <3>1. Unrecorded(hs[h], d, u) = IF e.won THEN p - Stake ELSE 0 - Stake
      BY <1>1, <1>5, <1>7, <2>3 DEF Unrecorded, p
    <3>2. Unrecorded(hs[h], t, u) = 0
      BY <1>1, <1>4, <2>3 DEF Unrecorded
    <3>3. RowOf(u)' = AfterMatch(RowOf(u), e)
      BY <1>3, <2>3
    <3>4. /\ RowOf(u)'.won = IF e.won THEN RowOf(u).won + (p - Stake) ELSE RowOf(u).won
          /\ RowOf(u)'.lost = IF e.won THEN RowOf(u).lost ELSE RowOf(u).lost + Stake
      BY <3>3 DEF AfterMatch, AfterWin, AfterLoss, p
    <3>5. CASE e.won
      BY <1>8, <2>1, <2>2, <3>1, <3>2, <3>4, <3>5
    <3>6. CASE ~e.won
      BY <1>8, <2>1, <2>2, <3>1, <3>2, <3>4, <3>6
    <3> QED
      BY <3>5, <3>6
  <2>4. CASE u # d[1].who
    <3>1. RowOf(u)' = RowOf(u)
      BY <1>3, <2>4
    <3>2. Unrecorded(hs[h], t, u) = Unrecorded(hs[h], d, u)
      BY <1>4, <2>4 DEF Unrecorded
    <3> QED
      BY <2>1, <3>1, <3>2
  <2> QED
    BY <2>3, <2>4
<1>11. OneCredit(hs[h])'
  BY <1>2 DEF BooksOK, OneCredit
<1> QED
  BY <1>10, <1>11 DEF BooksOK

\* Reading a row and adding to the history do not concern the books.
LEMMA OtherRecordBooks ==
  ASSUME NEW h \in Handlers, StatsInv, RecordsOK(h), BooksOK(h), LoadStats(h) \/ Remember(h)
  PROVE  BooksOK(h)'
<1>1. hs' = hs /\ wallet' = wallet /\ stats' = stats
  BY DEF LoadStats, Remember, vars
<1>2. \A u : RowOf(u)' = RowOf(u)
  BY <1>1 DEF RowOf
<1>3. \A u : Unrecorded(hs[h], due'[h], u) = Unrecorded(hs[h], due[h], u)
  <2>1. CASE LoadStats(h)
    BY <2>1 DEF LoadStats
  <2>2. CASE Remember(h)
    <3> DEFINE d == due[h]
               t == Tail(d)
    <3>1. d \in Seq(Record) /\ d # <<>> /\ d[1].what = "history"
      BY <2>2, NextRecord DEF Remember
    <3>2. due'[h] = t
      BY <2>2 DEF Remember, StatsInv, StatsTypeOK
    <3>3. /\ \A what, u : IsDue(t, what, u) <=> IsDue(d, what, u) /\ ~(d[1].what = what /\ d[1].who = u)
          /\ \A u : WinDue(t, u) <=> WinDue(d, u) /\ ~(d[1].what = "stats" /\ d[1].who = u)
      BY <3>1, DueTail DEF RecordsOK
    <3> HIDE DEF t, d
    <3>4. \A u : Unrecorded(hs[h], t, u) = Unrecorded(hs[h], d, u)
      BY <3>1, <3>3 DEF Unrecorded
    <3> QED
      BY <3>2, <3>4 DEF d
  <2> QED
    BY <2>1, <2>2
<1>4. Books(h)'
  BY <1>1, <1>2, <1>3 DEF BooksOK, Books
<1>5. OneCredit(hs[h])'
  BY <1>1 DEF BooksOK, OneCredit
<1> QED
  BY <1>4, <1>5 DEF BooksOK

\* A step between calls, on no wallet and no record.
LEMMA CallBegins ==
  ASSUME NEW h \in Handlers, SInv(h), RecordsOK(h), PastOK(h), BooksOK(h),
         ~hs[h].busy, NoFlow(hs'[h]), wallet' = wallet, UNCHANGED recordVars
  PROVE  RecordsOK(h)' /\ PastOK(h)' /\ BooksOK(h)'
<1>1. due[h] = <<>> /\ hs[h].todo = <<>>
  BY DEF RecordsOK, SInv, SerialInvOf, CallOK
<1>2. NoFlow(hs[h])
  BY <1>1 DEF NoFlow
<1> QED
  BY <1>1, <1>2, NoFlowBooks, UnrecordedCounts

LEMMA BegunFields ==
  ASSUME NEW h \in Handlers, SInv(h), NEW todo, NEW undo, NEW g, NEW now, NEW next,
         Begin(h, todo, undo, g, now, next)
  PROVE  ~hs[h].busy /\ hs'[h].todo = todo /\ hs'[h].game = g /\ hs'[h].next = next
<1>1. hs'[h] = [todo |-> todo, undo |-> undo, copy |-> NoRow, seen |-> NoRow,
                game |-> g, next |-> next, busy |-> TRUE]
  BY DEF Begin, SInv, LedgerInv, TypeOK
<1> QED
  BY <1>1 DEF Begin

\* No other call than a settlement consumes a stake or credits a payout.
LEMMA OtherCallFlows ==
  ASSUME NEW h, Handlers = {h}, SInv(h), SInv(h)', RecordsOK(h), OtherCall
  PROVE  /\ wallet' = wallet
         /\ \/ hs' = hs
            \/ ~hs[h].busy /\ NoFlow(hs'[h])
<1>1. CASE \E g \in Games : Enqueue(g)
  BY <1>1 DEF Enqueue
<1>2. CASE \E c \in Handlers, g \in Games : Assemble(c, g) \/ Fallback(c, g)
  <2>1. PICK g \in Games : Assemble(h, g) \/ Fallback(h, g)
    BY <1>2
  <2>2. wallet' = wallet
    BY <2>1 DEF Assemble, Fallback
  <2>3. \/ hs' = hs
        \/ \E todo, undo : Begin(h, todo, undo, g, "forming", "open")
    BY <2>1 DEF Assemble, Fallback
  <2>4. ASSUME NEW todo, NEW undo, Begin(h, todo, undo, g, "forming", "open")
        PROVE  ~hs[h].busy /\ NoFlow(hs'[h])
    <3>1. ~hs[h].busy /\ hs'[h].game = g /\ hs'[h].next = "open"
      BY <2>4, BegunFields
    <3>2. GameCallOK(hs[h], g)'
      BY <3>1 DEF SInv, SerialInvOf, CallOK
    <3>3. \A i \in 1 .. Len(hs'[h].todo) : hs'[h].todo[i].op = "freeze"
      BY <3>1, <3>2 DEF GameCallOK
    <3> QED
      BY <3>1, <3>3 DEF NoFlow
  <2> QED
    BY <2>2, <2>3, <2>4
<1>3. CASE \E c \in Handlers, g \in Games : Cancel(c, g)
  <2>1. PICK g \in Games : Cancel(h, g)
    BY <1>3
  <2> DEFINE all == Each("refund", g.players, Stake)
  <2>2. wallet' = wallet /\ ~hs[h].busy /\ hs'[h].todo = all
    BY <2>1, BegunFields DEF Cancel
  <2>3. /\ Len(all) = Len(g.players)
        /\ \A i \in 1 .. Len(g.players) : all[i] = [op |-> "refund", who |-> g.players[i], amt |-> Stake]
    <3>1. g.players \in Seq(Users)
      BY PlayersAreUsers
    <3> QED
      BY ONLY <3>1, EachAt DEF all
  <2> HIDE DEF all
  <2>4. \A i \in 1 .. Len(all) : all[i].op = "refund"
    <3> TAKE i \in 1 .. Len(all)
    <3>1. all[i] = [op |-> "refund", who |-> g.players[i], amt |-> Stake]
      BY <2>3
    <3> QED
      BY <3>1
  <2> QED
    BY <2>2, <2>4 DEF NoFlow
<1>4. CASE \E c \in Handlers, u \in Users : ResetFrozen(c, u)
  <2>1. PICK u \in Users : ResetFrozen(h, u)
    BY <1>4
  <2>2. wallet' = wallet /\ ~hs[h].busy /\ hs'[h].todo = One("reset", u, 0)
    BY <2>1, BegunFields DEF ResetFrozen
  <2>3. Len(One("reset", u, 0)) = 1 /\ One("reset", u, 0)[1].op = "reset"
    BY DEF One
  <2> QED
    BY <2>2, <2>3 DEF NoFlow
<1>5. CASE \E c \in Handlers, a \in Adjusted, amt \in Adjustments : UpdateBalance(c, a, amt)
  <2>1. PICK a \in Adjusted, amt \in Adjustments : UpdateBalance(h, a, amt)
    BY <1>5
  <2>2. wallet' = wallet /\ ~hs[h].busy /\ hs'[h].todo = One("adjust", a, amt)
    BY <2>1, BegunFields DEF UpdateBalance
  <2>3. Len(One("adjust", a, amt)) = 1 /\ One("adjust", a, amt)[1].op = "adjust"
    BY DEF One
  <2> QED
    BY <2>2, <2>3 DEF NoFlow
<1> QED
  BY <1>1, <1>2, <1>3, <1>4, <1>5 DEF OtherCall

-----------------------------------------------------------------------------
(* The invariant *)

RecordsInv(h) == StatsInv /\ StakesInv(h) /\ RecordsOK(h) /\ PastOK(h) /\ BooksOK(h)

LEMMA InitRecords ==
  ASSUME NEW h, OneCall(h), FinitelyMany, StatsInit
  PROVE  RecordsInv(h)
<1>1. h \in Handlers /\ Init /\ restarts = 0
  BY DEF OneCall, StatsInit, Init
<1>2. StatsInv /\ StakesInv(h)
  BY <1>1, InitStats, InitStakes DEF StakesInv
<1>3. hs[h] = Idle /\ due[h] = <<>> /\ loaded[h] = NotLoaded
  BY <1>1 DEF StatsInit, Init
<1>4. \A u \in Users : RowOf(u) = NewStats /\ history[u] = <<>>
  BY DEF StatsInit, RowOf
<1>5. hs[h].todo = <<>> /\ ~hs[h].busy
  BY <1>3 DEF Idle
<1>6. RecordsOK(h)
  BY <1>3, <1>5 DEF RecordsOK, DueOf
<1>7. PastOK(h)
  BY <1>3, <1>4, NothingCounted DEF PastOK
<1>8. NoFlow(hs[h])
  BY <1>5 DEF NoFlow
<1>9. /\ OneCredit(hs[h]) 
      /\ \A u : ToTake(hs[h], u) = 0 /\ ToGive(hs[h], u) = 0
      /\ \A u : Unrecorded(hs[h], due[h], u) = 0
  BY <1>3, <1>8, NothingFlows DEF Unrecorded, WinDue, IsDue
<1>10. Books(h)
  <2> SUFFICES ASSUME NEW u \in Users \ Adjusted
               PROVE  wallet[u].bal + wallet[u].frz + 0 - 0 = UserBalance + RowOf(u).won - RowOf(u).lost + 0
    BY <1>9 DEF Books
  <2>1. wallet[u].bal = UserBalance /\ wallet[u].frz = 0 /\ UserBalance \in Nat
    BY <1>1, LedgerAssumption DEF Init, Accounts
  <2>2. RowOf(u).won = 0 /\ RowOf(u).lost = 0
    BY <1>4 DEF NewStats
  <2> QED
    BY <2>1, <2>2
<1> QED
  BY <1>2, <1>6, <1>7, <1>9, <1>10 DEF RecordsInv, BooksOK

LEMMA FinishCallRecords ==
  ASSUME NEW h \in Handlers, RecordsInv(h), FinishCall(h)
  PROVE  RecordsOK(h)' /\ PastOK(h)' /\ BooksOK(h)'
<1>1. /\ due[h] = <<>> /\ UNCHANGED recordVars /\ hs[h].todo = <<>> /\ wallet' = wallet
      /\ hs' = [hs EXCEPT ![h] = Idle]
  BY DEF FinishCall, Finish
<1>2. hs'[h].todo = <<>>
  BY <1>1 DEF RecordsInv, StakesInv, SInv, LedgerInv, TypeOK, Idle
<1>3. NoFlow(hs[h]) /\ NoFlow(hs'[h])
  BY <1>1, <1>2 DEF NoFlow
<1> QED
  BY <1>1, <1>3, NoFlowBooks, UnrecordedCounts DEF RecordsInv

LEMMA NextRecords ==
  ASSUME NEW h, OneCall(h), FinitelyMany, RecordsInv(h), [StatsNext]_statsVars
  PROVE  RecordsInv(h)'
<1>1. /\ Handlers = {h} /\ h \in Handlers /\ restarts = 0 /\ SInv(h)
      /\ StatsInv /\ StakesInv(h) /\ RecordsOK(h) /\ PastOK(h) /\ BooksOK(h)
  BY DEF OneCall, StakesInv, RecordsInv
<1>2. StatsInv' /\ StakesInv(h)'
  BY <1>1, NextStats, StepImplementsLedger, NextStakes
<1> SUFFICES RecordsOK(h)' /\ PastOK(h)' /\ BooksOK(h)'
  BY <1>2 DEF RecordsInv
<1>3. CASE \E c \in Handlers : WalletStep(c)
  <2>1. WalletStep(h) /\ UNCHANGED recordVars
    BY <1>1, <1>3 DEF WalletStep
  <2> QED
    BY <1>1, <2>1, WalletStepBooks, UnrecordedCounts
<1>4. CASE \E c \in Handlers : LoadStats(c) \/ UpsertStats(c) \/ Remember(c) \/ FinishCall(c)
  <2>1. LoadStats(h) \/ UpsertStats(h) \/ Remember(h) \/ FinishCall(h)
    BY <1>1, <1>4
  <2>2. CASE LoadStats(h)
    BY <1>1, <2>2, LoadStatsCounts, OtherRecordBooks
  <2>3. CASE UpsertStats(h)
    BY <1>1, <2>3, UpsertStatsCounts, UpsertStatsBooks
  <2>4. CASE Remember(h)
    BY <1>1, <2>4, RememberCounts, OtherRecordBooks
  <2>5. CASE FinishCall(h)
    BY <1>1, <2>5, FinishCallRecords
  <2> QED
    BY <2>1, <2>2, <2>3, <2>4, <2>5
<1>5. CASE \E c \in Handlers, g \in Games, winner \in Accounts : SettleMatch(c, g, winner)
  <2>1. PICK g \in Games, winner \in Accounts : SettleMatch(h, g, winner)
    BY <1>1, <1>5
  <2> QED
    BY <1>1, <2>1, SettleMatchCounts, SettleMatchBooks
<1>6. CASE OtherCall
  <2>1. UNCHANGED recordVars
    BY <1>6 DEF OtherCall
  <2>2. SInv(h)'
    BY <1>2 DEF StakesInv
  <2>3. wallet' = wallet /\ (hs' = hs \/ (~hs[h].busy /\ NoFlow(hs'[h])))
    BY <1>1, <1>6, <2>2, OtherCallFlows
  <2>4. CASE hs' = hs
    BY <1>1, <2>1, <2>3, <2>4, SameCallBooks, UnrecordedCounts
  <2>5. CASE ~hs[h].busy /\ NoFlow(hs'[h])
    BY <1>1, <2>1, <2>3, <2>5, CallBegins
  <2> QED
    BY <2>3, <2>4, <2>5
<1>7. CASE RestartServer
  BY <1>1, <1>7 DEF RestartServer, Restart
<1>8. CASE UNCHANGED statsVars
  <2>1. hs' = hs /\ wallet' = wallet /\ UNCHANGED recordVars
    BY <1>8 DEF statsVars, recordVars
  <2> QED
    BY <1>1, <2>1, SameCallBooks, UnrecordedCounts
<1> QED
  BY <1>3, <1>4, <1>5, <1>6, <1>7, <1>8 DEF StatsNext

\* Between calls the statistics of a user count the user's history: each match
\* once, its win, the streak at the end and the longest streak, however settling
\* matches, cancelling them and admins' changes have followed one another.
THEOREM StatsAlwaysMatchHistory ==
  ASSUME NEW CONSTANT h, OneCall(h), FinitelyMany
  PROVE  StatsSpec => []StatsMatchHistory
<1>1. StatsInit => RecordsInv(h)
  BY InitRecords
<1>2. RecordsInv(h) /\ [StatsNext]_statsVars => RecordsInv(h)'
  BY NextRecords
<1>3. RecordsInv(h) => StatsMatchHistory
  <2> SUFFICES ASSUME RecordsInv(h), Quiet, NEW u \in Users, Stake > 0, Len(history[u]) < HistoryKept
               PROVE  LET past == history[u]
                          allWon(i, j) == \A k \in i .. j : past[k].won
                      IN  /\ RowOf(u).matches = Len(past)
                          /\ RowOf(u).wins = Cardinality({i \in 1 .. Len(past) : past[i].won})
                          /\ RowOf(u).streak = Cardinality({n \in 1 .. Len(past) : allWon(1, n)})
                          /\ RowOf(u).best = Cardinality({n \in 1 .. Len(past) :
                                 \E i \in 1 .. Len(past) - n + 1 : allWon(i, i + n - 1)})
    BY DEF StatsMatchHistory
  <2> DEFINE past == history[u]
             row == RowOf(u)
  <2>1. h \in Handlers /\ ~hs[h].busy /\ due[h] = <<>>
    BY DEF RecordsInv, OneCall, Quiet, RecordsOK
  <2>2. ~IsDue(due[h], "history", u)
    BY <2>1 DEF IsDue
  <2>3. Counts(row, past)
    BY <2>2 DEF RecordsInv, PastOK
  <2>4. row \in StatsRow
    BY NewStatsConsistent DEF RowOf, RecordsInv, StatsInv, StatsTypeOK
  <2>5. row.streak \in Nat /\ row.best \in Nat
    BY <2>4, RowFields
  <2>6. Cardinality(LastWins(past)) = row.streak /\ Cardinality(Runs(past)) = row.best
    <3>1. \A k \in Nat : Cardinality(1 .. k) = k
      <4> TAKE k \in Nat
      <4>1. 1 \in Int /\ k \in Int
        OBVIOUS
      <4>2. Cardinality(1 .. k) = IF 1 > k THEN 0 ELSE k - 1 + 1
        BY <4>1, FS_Interval
      <4> QED
        BY <4>2
    <3> HIDE DEF row, past
    <3> QED
      BY <2>3, <2>5, <3>1 DEF Counts
  <2> QED
    BY <2>3, <2>6 DEF Counts, Wins, LastWins, Runs, AllWon
<1> QED
  BY <1>1, <1>2, <1>3, PTL DEF StatsSpec

\* Between calls the balance of a user with nothing frozen is the first one with
\* what the user's statistics say was won and lost since: each settlement has
\* given the wallet what it recorded, and no other call moved a user's points.
THEOREM AlwaysReconciled ==
  ASSUME NEW CONSTANT h, OneCall(h), FinitelyMany
  PROVE  StatsSpec => []Reconciled
<1>1. StatsInit => RecordsInv(h)
  BY InitRecords
<1>2. RecordsInv(h) /\ [StatsNext]_statsVars => RecordsInv(h)'
  BY NextRecords
<1>3. RecordsInv(h) => Reconciled
  <2> SUFFICES ASSUME RecordsInv(h), Quiet, NEW u \in Users \ Adjusted, wallet[u].frz = 0
               PROVE  wallet[u].bal = UserBalance + RowOf(u).won - RowOf(u).lost
    BY DEF Reconciled
  <2>1. h \in Handlers /\ ~hs[h].busy /\ due[h] = <<>>
    BY DEF RecordsInv, OneCall, Quiet, RecordsOK
  <2>2. hs[h].todo = <<>>
    BY <2>1 DEF RecordsInv, StakesInv, SInv, SerialInvOf, CallOK
  <2>3. ToTake(hs[h], u) = 0 /\ ToGive(hs[h], u) = 0 /\ Unrecorded(hs[h], due[h], u) = 0
    BY <2>1, <2>2 DEF ToTake, ToGive, Awaits, Unrecorded, WinDue, IsDue
  <2>4. wallet[u].bal + wallet[u].frz + 0 - 0 = UserBalance + RowOf(u).won - RowOf(u).lost + 0
    BY <2>3 DEF RecordsInv, BooksOK, Books
  <2>5. /\ wallet[u].bal \in Nat /\ UserBalance \in Nat
        /\ RowOf(u).won \in Nat /\ RowOf(u).lost \in Nat
    BY AmountTypes DEF RecordsInv, StakesInv, SInv
  <2> QED
    BY <2>4, <2>5
<1> QED
  BY <1>1, <1>2, <1>3, PTL DEF StatsSpec
=============================================================================
