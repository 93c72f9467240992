---------------------------- MODULE MatchPlayProofs ----------------------------
(***************************************************************************)
(* What holds of a match for any players, any number of overlapping calls  *)
(* and any number of rounds, cancellations and restarts.                   *)
(*                                                                         *)
(* The record and every copy of it in a handler are "good": well typed and *)
(* consistent with themselves.  A call reads good records, computes good   *)
(* ones from them and writes those, so it does not matter whose copy it    *)
(* overwrites: that is why this invariant survives the races that break    *)
(* others.  GoodState is inductive.                                        *)
(*                                                                         *)
(* The second half is about calls that do not overlap (one handler) and    *)
(* are not cut short by a crash.  There the copy in a call is the record's *)
(* next version (SerialInv), and what the match will wait for next exists  *)
(* or is about to (ServedInv).                                             *)
(***************************************************************************)
EXTENDS MatchPlay, MatchRulesLemmas

Good(m) == m \in Match /\ RecordOK(m)

HandlersGood == hs \in [Handlers -> Handler] /\ \A h \in Handlers : RecordOK(hs[h].m)

CountersOK ==
  /\ timers \subseteq Timer
  /\ ahead \subseteq Timer
  /\ locks \subseteq Nat \ {0}
  /\ starts \subseteq {"service", "gateway"}
  /\ botLoops \in Nat
  /\ cancels \in Nat
  /\ restarts \in Nat
  /\ paid \in 0 .. 2
  /\ refunded \in BOOLEAN
  /\ accepted \in [Users -> [round : Nat, move : Moved]]

GoodState == Good(match) /\ HandlersGood /\ CountersOK

LEMMA GoodStateMeans == GoodState <=> TypeOK /\ RecordsConsistent
BY DEF GoodState, Good, HandlersGood, CountersOK, TypeOK, RecordsConsistent

-----------------------------------------------------------------------------
(* Helpers on records *)

\* What a record may hold for moves.
LEMMA MovedFacts ==
  /\ Choices \subseteq Moved /\ Submitted \subseteq Moved /\ NoMove \in Moved
  /\ NoMove \notin Choices
BY PlayersAssumption DEF Moved, Moves, NoMove

\* playerIds lists whoever is alive.
LEMMA AliveListed ==
  ASSUME NEW m \in Match
  PROVE  Lists(PlayerIds, m.alive) /\ m.alive \subseteq DOMAIN m.moves
<1>1. m.alive \subseteq Users \cup Bots /\ DOMAIN m.moves = Users \cup Bots
  BY DEF Match, Players
<1>2. \A p \in Users \cup Bots : \E i \in DOMAIN PlayerIds : PlayerIds[i] = p
  BY PlayersAssumption
<1> QED
  BY <1>1, <1>2, PlayersAssumption DEF Lists

\* A new match is good: it has at least two players.
LEMMA NewMatchGood ==
  ASSUME NEW status \in {"READY", "BOT_MATCH"}, NEW settled \in BOOLEAN
  PROVE  Good(NewMatch(status, settled))
<1> DEFINE m == NewMatch(status, settled)
<1>1. NoMoves \in [Players -> Moved] /\ \A p \in Players : NoMoves[p] = NoMove
  BY MovedFacts DEF NoMoves
<1>2. ~Sole(Players) /\ Players # {}
  BY PlayersAssumption DEF Players, Sole
<1>3. m \in Match
  BY <1>1 DEF NewMatch, Match, Status
<1>4. RecordOK(m)
  BY <1>1, <1>2 DEF NewMatch, RecordOK
<1> QED
  BY <1>3, <1>4 DEF Good

LEMMA IdleGood == Idle \in Handler /\ RecordOK(Idle.m)
<1>1. Good(NewMatch("READY", FALSE))
  BY NewMatchGood
<1> QED
  BY <1>1 DEF Idle, Good, Handler, PC

\* Moves given to the alive who have none leave a good record good.
LEMMA FilledGood ==
  ASSUME NEW m, Good(m), NEW S, S \subseteq m.alive, NEW choice,
         \A p \in S : choice[p] \in Moved
  PROVE  /\ Good(Filled(m, S, choice))
         /\ Filled(m, S, choice).status = m.status
         /\ Filled(m, S, choice).alive = m.alive
         /\ Filled(m, S, choice).round = m.round
<1> DEFINE f == [p \in Players |-> IF p \in S /\ m.moves[p] = NoMove
                                   THEN choice[p] ELSE m.moves[p]]
           n == Filled(m, S, choice)
<1>1. m \in Match /\ RecordOK(m)
  BY DEF Good
<1>2. f \in [Players -> Moved]
  BY <1>1 DEF Match
<1>3. n = [m EXCEPT !.moves = f]
  BY DEF Filled
<1>4. n \in Match
  BY <1>1, <1>2, <1>3 DEF Match
<1>5. /\ n.status = m.status /\ n.alive = m.alive /\ n.elim = m.elim
      /\ n.winner = m.winner /\ n.moves = f /\ n.round = m.round
  BY <1>1, <1>3 DEF Match
<1>6. RecordOK(n)
  BY <1>1, <1>5 DEF RecordOK
<1> QED
  BY <1>4, <1>5, <1>6 DEF Good

\* So does the move that submitMove adds, in a match that is not finished.
LEMMA WithMoveGood ==
  ASSUME NEW m, Good(m), m.status # "FINISHED", NEW u \in m.alive, NEW mv \in Moved
  PROVE  /\ Good(WithMove(m, u, mv))
         /\ WithMove(m, u, mv).status = "IN_PROGRESS"
         /\ WithMove(m, u, mv).alive = m.alive
<1> DEFINE n == WithMove(m, u, mv)
<1>1. m \in Match /\ RecordOK(m)
  BY DEF Good
<1>2. n \in Match
  BY <1>1 DEF WithMove, Match, Status
<1>3. /\ n.status = "IN_PROGRESS" /\ n.alive = m.alive /\ n.elim = m.elim
      /\ n.winner = m.winner
      /\ n.moves = [m.moves EXCEPT ![u] = mv]
  BY <1>1 DEF WithMove, Match
<1>4. RecordOK(n)
  BY <1>1, <1>3 DEF RecordOK, Match
<1> QED
  BY <1>2, <1>3, <1>4 DEF Good

\* A round played by all of the alive makes a good record of a good one: the
\* match is finished exactly when one is left, who is the winner.
LEMMA AfterRoundGood ==
  ASSUME NEW m, Good(m), m.status # "FINISHED", AllMoved(m)
  PROVE  Good(AfterRound(m))
<1> DEFINE s == Survivors(PlayerIds, m.alive, m.moves)
           n == [m EXCEPT !.alive = s, !.elim = @ \cup (m.alive \ s), !.moves = NoMoves]
<1>1. m \in Match /\ RecordOK(m)
  BY DEF Good
<1>2. s \subseteq m.alive /\ s # {}
  BY <1>1, AliveListed, SurvivorsFacts DEF RecordOK
<1>3. NoMoves \in [Players -> Moved] /\ \A p \in Players : NoMoves[p] = NoMove
  BY MovedFacts DEF NoMoves
<1>4. n \in Match
  BY <1>1, <1>2, <1>3 DEF Match
<1>5. /\ n.alive = s /\ n.elim = m.elim \cup (m.alive \ s) /\ n.moves = NoMoves
      /\ n.status = m.status /\ n.round = m.round
  BY <1>1 DEF Match
<1>6. n.alive \cup n.elim = Players /\ n.alive \cap n.elim = {}
  BY <1>1, <1>2, <1>5 DEF RecordOK
<1>7. CASE Sole(s)
  <2> DEFINE w == CHOOSE p \in s : TRUE
             r == [n EXCEPT !.status = "FINISHED", !.winner = w]
  <2>1. s = {w} /\ w \in Players
    BY <1>1, <1>2, <1>7 DEF Sole, Match
  <2>2. AfterRound(m) = r
    BY <1>7 DEF AfterRound
  <2>3. r \in Match
    BY <1>4, <2>1 DEF Match, Status
  <2>4. /\ r.alive = n.alive /\ r.elim = n.elim /\ r.moves = n.moves
        /\ r.status = "FINISHED" /\ r.winner = w
    BY <1>4 DEF Match
  <2>5. RecordOK(r)
    BY <1>3, <1>5, <1>6, <1>7, <2>1, <2>4 DEF RecordOK
  <2> QED
    BY <2>2, <2>3, <2>5 DEF Good
<1>8. CASE ~Sole(s)
  <2> DEFINE r == [n EXCEPT !.round = @ + 1]
  <2>1. AfterRound(m) = r
    BY <1>8 DEF AfterRound
  <2>2. r \in Match
    <3>1. n.round \in Nat \ {0}
      BY <1>4 DEF Match
    <3>2. n.round + 1 \in Nat \ {0}
      BY <3>1
    <3>3. r = [n EXCEPT !.round = n.round + 1]
      BY <1>4 DEF Match
    <3> HIDE DEF n, r
    <3> QED
      BY <1>4, <3>2, <3>3 DEF Match
  <2>3. r.alive = n.alive /\ r.elim = n.elim /\ r.moves = n.moves /\ r.status = n.status
    BY <1>4 DEF Match
  <2>4. RecordOK(r)
    BY <1>2, <1>3, <1>5, <1>6, <1>8, <2>3 DEF RecordOK
  <2> QED
    BY <2>1, <2>2, <2>4 DEF Good
<1> QED
  BY <1>7, <1>8

\* The fields on which RecordOK does not depend may be changed freely.
LEMMA DeadlineGood ==
  ASSUME NEW m, Good(m), NEW d \in Deadlines \cup {NoDeadline}
  PROVE  Good([m EXCEPT !.deadline = d])
<1> DEFINE n == [m EXCEPT !.deadline = d]
<1>1. n \in Match
  BY DEF Good, Match
<1>2. /\ n.status = m.status /\ n.alive = m.alive /\ n.elim = m.elim
      /\ n.winner = m.winner /\ n.moves = m.moves
  BY DEF Good, Match
<1> QED
  BY <1>1, <1>2 DEF Good, RecordOK

LEMMA MarkedSettledGood ==
  ASSUME NEW m, Good(m)
  PROVE  Good(MarkedSettled(m))
<1> DEFINE n == MarkedSettled(m)
<1>1. n \in Match
  BY DEF Good, Match, MarkedSettled
<1>2. /\ n.status = m.status /\ n.alive = m.alive /\ n.elim = m.elim
      /\ n.winner = m.winner /\ n.moves = m.moves
  BY DEF Good, Match, MarkedSettled
<1> QED
  BY <1>1, <1>2 DEF Good, RecordOK

\* cancelMatch: a match that is not finished may change to CANCELLED.
LEMMA CancelledGood ==
  ASSUME NEW m, Good(m), m.status # "FINISHED"
  PROVE  Good([m EXCEPT !.status = "CANCELLED"])
<1> DEFINE n == [m EXCEPT !.status = "CANCELLED"]
<1>1. n \in Match
  BY DEF Good, Match, Status
<1>2. /\ n.status = "CANCELLED" /\ n.alive = m.alive /\ n.elim = m.elim
      /\ n.winner = m.winner /\ n.moves = m.moves
  BY DEF Good, Match
<1> QED
  BY <1>1, <1>2 DEF Good, RecordOK

\* processSingleBotRound begins the round anew.
LEMMA ForgottenMovesGood ==
  ASSUME NEW m, Good(m)
  PROVE  /\ Good([m EXCEPT !.moves = NoMoves])
         /\ [m EXCEPT !.moves = NoMoves].status = m.status
         /\ [m EXCEPT !.moves = NoMoves].alive = m.alive
<1> DEFINE n == [m EXCEPT !.moves = NoMoves]
<1>1. n \in Match
  BY MovedFacts DEF Good, Match, NoMoves
<1>2. /\ n.status = m.status /\ n.alive = m.alive /\ n.elim = m.elim
      /\ n.winner = m.winner /\ n.moves = NoMoves
  BY DEF Good, Match
<1>3. \A p \in Players : n.moves[p] = NoMove
  BY <1>2 DEF NoMoves
<1> QED
  BY <1>1, <1>2, <1>3 DEF Good, RecordOK

LEMMA AfterSubmittedRoundGood ==
  ASSUME NEW m, Good(m), m.status # "FINISHED", AllMoved(m)
  PROVE  Good(AfterSubmittedRound(m))
BY AfterRoundGood, DeadlineGood DEF AfterSubmittedRound

-----------------------------------------------------------------------------
(* Helpers on handlers *)

LEMMA HandlerReplaced ==
  ASSUME HandlersGood, NEW h \in Handlers, NEW x \in Handler, RecordOK(x.m),
         hs' = [hs EXCEPT ![h] = x]
  PROVE  HandlersGood'
BY DEF HandlersGood

LEMMA DoneGood ==
  ASSUME HandlersGood, NEW h \in Handlers, Done(h)
  PROVE  HandlersGood'
BY IdleGood, HandlerReplaced DEF Done

LEMMA CallGood ==
  ASSUME HandlersGood, NEW h \in Handlers, NEW pc \in PC, NEW m, Good(m),
         NEW ret \in PC, Call(h, pc, m, ret)
  PROVE  HandlersGood'
<1> DEFINE x == [pc |-> pc, m |-> m, ret |-> ret]
<1>1. x \in Handler /\ RecordOK(x.m)
  BY DEF Good, Handler
<1> QED
  BY <1>1, HandlerReplaced DEF Call

LEMMA ToGood ==
  ASSUME HandlersGood, NEW h \in Handlers, NEW pc \in PC, NEW m, Good(m), To(h, pc, m)
  PROVE  HandlersGood'
<1> DEFINE x == [hs[h] EXCEPT !.pc = pc, !.m = m]
<1>1. hs[h] \in Handler
  BY DEF HandlersGood
<1>2. x \in Handler /\ x.m = m
  BY <1>1 DEF Good, Handler
<1>3. hs' = [hs EXCEPT ![h] = x]
  BY DEF To, HandlersGood
<1> QED
  BY <1>2, <1>3, HandlerReplaced DEF Good

LEMMA ReturnGood ==
  ASSUME HandlersGood, NEW h \in Handlers, NEW m, Good(m), Return(h, m)
  PROVE  HandlersGood'
<1>1. hs[h].ret \in PC
  BY DEF HandlersGood, Handler
<1> QED
  BY <1>1, DoneGood, ToGood DEF Return

\* A handler's copy is a good record.
LEMMA CopyGood ==
  ASSUME HandlersGood, NEW h \in Handlers
  PROVE  Good(hs[h].m)
BY DEF HandlersGood, Good, Handler

LEMMA HandlersUnchanged ==
  ASSUME HandlersGood, UNCHANGED hs
  PROVE  HandlersGood'
BY DEF HandlersGood

LEMMA CountersUnchanged ==
  ASSUME CountersOK, UNCHANGED <<env, acct>>
  PROVE  CountersOK'
BY DEF CountersOK, env, acct

LEMMA MoreLoopsNat ==
  ASSUME botLoops \in Nat, NEW n \in {1, 2}
  PROVE  MoreLoops(n) \in Nat
BY BoundsAssumption DEF MoreLoops

-----------------------------------------------------------------------------
(* The actions *)

\* A move of a player, with those of the bots: what submitMove makes of m.
LEMMA SubmittedGood ==
  ASSUME Good(match), NEW u \in Movers, NEW mv \in Submitted, ~Refuses(u),
         NEW choice \in [Bots -> Choices]
  PROVE  LET m == Filled(WithMove(match, u, mv), match.alive \cap Bots, choice)
         IN  Good(m) /\ m.status # "FINISHED"
<1> DEFINE v == WithMove(match, u, mv)
<1>1. u \in match.alive /\ match.status # "FINISHED" /\ mv \in Moved
  BY MovedFacts DEF Refuses
<1>2. Good(v) /\ v.status = "IN_PROGRESS" /\ v.alive = match.alive
  BY <1>1, WithMoveGood
<1>3. \A p \in match.alive \cap Bots : choice[p] \in Moved
  BY MovedFacts
<1>4. match.alive \cap Bots \subseteq v.alive
  BY <1>2
<1> QED
  BY <1>2, <1>3, <1>4, FilledGood

LEMMA SubmitMoveKeeps ==
  ASSUME GoodState, NEW h \in Handlers, NEW u \in Movers, NEW mv \in Submitted,
         SubmitMove(h, u, mv)
  PROVE  GoodState'
<1>1. PICK choice \in [Bots -> Choices] :
        LET m     == Filled(WithMove(match, u, mv), match.alive \cap Bots, choice)
            after == AfterSubmittedRound(m)
        IN  IF ~AllMoved(m) THEN Call(h, "save", m, "idle")
            ELSE IF after.status = "FINISHED" THEN Call(h, "settle", after, "saveDone")
            ELSE Call(h, "saveNext", after, "idle")
  BY DEF SubmitMove
<1> DEFINE m     == Filled(WithMove(match, u, mv), match.alive \cap Bots, choice)
           after == AfterSubmittedRound(m)
<1>2. Good(m) /\ m.status # "FINISHED"
  BY SubmittedGood DEF SubmitMove, GoodState
<1>3. AllMoved(m) => Good(after)
  BY <1>2, AfterSubmittedRoundGood
<1>4. {"save", "saveNext", "saveDone", "settle", "idle"} \subseteq PC
  BY DEF PC, SubmitPC
<1>5. HandlersGood'
  <2>1. CASE ~AllMoved(m)
    <3>1. Call(h, "save", m, "idle")
      BY <1>1, <2>1
    <3> HIDE DEF m, after
    <3> QED
      BY <3>1, <1>2, <1>4, CallGood DEF GoodState
  <2>2. CASE AllMoved(m) /\ after.status = "FINISHED"
    <3>1. Call(h, "settle", after, "saveDone")
      BY <1>1, <2>2
    <3>2. Good(after)
      BY <1>3, <2>2
    <3> HIDE DEF m, after
    <3> QED
      BY <3>1, <3>2, <1>4, CallGood DEF GoodState
  <2>3. CASE AllMoved(m) /\ after.status # "FINISHED"
    <3>1. Call(h, "saveNext", after, "idle")
      BY <1>1, <2>3
    <3>2. Good(after)
      BY <1>3, <2>3
    <3> HIDE DEF m, after
    <3> QED
      BY <3>1, <3>2, <1>4, CallGood DEF GoodState
  <2> QED
    BY <2>1, <2>2, <2>3
<1>6. CountersOK'
  <2>1. match.round \in Nat /\ u \in Users /\ mv \in Moved
    BY PlayersAssumption, MovedFacts DEF GoodState, Good, Match
  <2>2. \/ accepted' = accepted
        \/ accepted' = [accepted EXCEPT ![u] = [round |-> match.round, move |-> mv]]
    BY DEF SubmitMove
  <2>3. accepted' \in [Users -> [round : Nat, move : Moved]]
    BY <2>1, <2>2 DEF GoodState, CountersOK
  <2> QED
    BY <2>3 DEF SubmitMove, GoodState, CountersOK, env
<1>7. Good(match)'
  BY DEF SubmitMove, GoodState, Good, RecordOK
<1> QED
  BY <1>5, <1>6, <1>7 DEF GoodState

\* Writing the copy in hand makes the record good, whatever it was.
LEMMA CopyWritten ==
  ASSUME GoodState, NEW h \in Handlers, match' = hs[h].m
  PROVE  Good(match)'
<1>1. Good(hs[h].m)
  BY CopyGood DEF GoodState
<1> QED
  BY <1>1 DEF Good, RecordOK

LEMMA RecordUnchanged ==
  ASSUME GoodState, UNCHANGED match
  PROVE  Good(match)'
BY DEF GoodState, Good, RecordOK

LEMMA SubmitSaveKeeps ==
  ASSUME GoodState, NEW h \in Handlers, SubmitSave(h)
  PROVE  GoodState'
BY DoneGood, CopyWritten, CountersUnchanged DEF SubmitSave, GoodState

LEMMA SubmitSaveNextKeeps ==
  ASSUME GoodState, NEW h \in Handlers, SubmitSaveNext(h)
  PROVE  GoodState'
<1>1. Good(match)'
  BY CopyWritten DEF SubmitSaveNext
<1>2. "timerRead" \in PC
  BY DEF PC, TimerPC
<1>3. HandlersGood'
  BY <1>2, CopyGood, DoneGood, ToGood DEF SubmitSaveNext, GoodState
<1>4. botLoops' \in Nat
  BY MoreLoopsNat DEF SubmitSaveNext, GoodState, CountersOK
<1>5. CountersOK'
  BY <1>4 DEF SubmitSaveNext, GoodState, CountersOK, acct
<1> QED
  BY <1>1, <1>3, <1>5 DEF GoodState

LEMMA SettleKeeps ==
  ASSUME GoodState, NEW h \in Handlers, Settle(h)
  PROVE  GoodState'
<1>1. Good(match)'
  BY RecordUnchanged DEF Settle
<1>2. Good(hs[h].m) /\ Good(MarkedSettled(hs[h].m))
  BY CopyGood, MarkedSettledGood DEF GoodState
<1>3. HandlersGood'
  BY <1>2, ReturnGood DEF Settle, GoodState
<1>4. CountersOK'
  BY DEF Settle, GoodState, CountersOK, env
<1> QED
  BY <1>1, <1>3, <1>4 DEF GoodState

LEMMA StartMatchKeeps ==
  ASSUME GoodState, NEW h \in Handlers, StartMatch(h)
  PROVE  GoodState'
<1>1. HandlersGood'
  BY CopyGood, CallGood, HandlersUnchanged DEF StartMatch, GoodState, PC, TimerPC
<1>2. starts' \subseteq {"service", "gateway"}
  BY DEF StartMatch, GoodState, CountersOK
<1>3. CountersOK'
  BY <1>2 DEF StartMatch, GoodState, CountersOK, acct
<1> QED
  BY <1>1, <1>3, RecordUnchanged DEF StartMatch, GoodState

LEMMA StartDoneKeeps ==
  ASSUME GoodState, NEW h \in Handlers, StartDone(h)
  PROVE  GoodState'
<1>1. HandlersGood'
  BY DoneGood DEF StartDone, GoodState
<1>2. botLoops' \in Nat
  BY MoreLoopsNat DEF StartDone, GoodState, CountersOK
<1>3. CountersOK'
  BY <1>2 DEF StartDone, GoodState, CountersOK, acct
<1> QED
  BY <1>1, <1>3, RecordUnchanged DEF StartDone, GoodState

LEMMA SkipStartKeeps ==
  ASSUME GoodState, SkipStart
  PROVE  GoodState'
<1>1. starts' \subseteq {"service", "gateway"}
  BY DEF SkipStart, GoodState, CountersOK
<1>2. CountersOK'
  BY <1>1 DEF SkipStart, GoodState, CountersOK, acct
<1> QED
  BY <1>2, RecordUnchanged, HandlersUnchanged DEF SkipStart, GoodState

LEMMA TimerReadKeeps ==
  ASSUME GoodState, NEW h \in Handlers, TimerRead(h)
  PROVE  GoodState'
<1>1. HandlersGood'
  BY CopyGood, ReturnGood, ToGood DEF TimerRead, GoodState, PC, TimerPC
<1> QED
  BY <1>1, RecordUnchanged, CountersUnchanged DEF TimerRead, GoodState

LEMMA TimerLockKeeps ==
  ASSUME GoodState, NEW h \in Handlers, TimerLock(h)
  PROVE  GoodState'
<1>1. Good(hs[h].m) /\ hs[h].m.round \in Nat \ {0}
  BY CopyGood DEF GoodState, Good, Match
<1>2. HandlersGood'
  BY <1>1, ReturnGood, ToGood DEF TimerLock, GoodState, PC, TimerPC
<1>3. CountersOK'
  BY <1>1 DEF TimerLock, GoodState, CountersOK, acct
<1> QED
  BY <1>2, <1>3, RecordUnchanged DEF TimerLock, GoodState

LEMMA TimerFreshKeeps ==
  ASSUME GoodState, NEW h \in Handlers, TimerFresh(h)
  PROVE  GoodState'
<1>1. HandlersGood'
  BY CopyGood, ToGood DEF TimerFresh, GoodState, PC, TimerPC
<1> QED
  BY <1>1, RecordUnchanged, CountersUnchanged DEF TimerFresh, GoodState

LEMMA TimerUnlockKeeps ==
  ASSUME GoodState, NEW h \in Handlers, TimerUnlock(h)
  PROVE  GoodState'
<1>1. HandlersGood'
  BY CopyGood, ReturnGood DEF TimerUnlock, GoodState
<1>2. CountersOK'
  BY DEF TimerUnlock, GoodState, CountersOK, acct
<1> QED
  BY <1>1, <1>2, RecordUnchanged DEF TimerUnlock, GoodState

LEMMA TimerSaveKeeps ==
  ASSUME GoodState, NEW h \in Handlers, TimerSave(h)
  PROVE  GoodState'
<1> DEFINE m == hs[h].m
           t(d) == [deadline |-> d, round |-> m.round]
<1>1. PICK d \in UnusedDeadlines :
        /\ match' = [m EXCEPT !.deadline = d]
        /\ timers' = timers \cup {t(d)}
        /\ ahead' = ahead \cup {t(d)}
  BY DEF TimerSave
<1>2. Good(m) /\ m.round \in Nat \ {0}
  BY CopyGood DEF GoodState, Good, Match
<1>3. d \in Deadlines
  BY DEF UnusedDeadlines
<1>4. Good([m EXCEPT !.deadline = d])
  BY <1>2, <1>3, DeadlineGood
<1>5. Good(match)'
  BY <1>1, <1>4 DEF Good, RecordOK
<1>6. t(d) \in Timer
  BY <1>2, <1>3 DEF Timer
<1>7. HandlersGood'
  BY <1>2, ReturnGood DEF TimerSave, GoodState
<1>8. CountersOK'
  BY <1>1, <1>6 DEF TimerSave, GoodState, CountersOK, acct
<1> QED
  BY <1>5, <1>7, <1>8 DEF GoodState

LEMMA LockExpireKeeps ==
  ASSUME GoodState, NEW r \in locks, LockExpire(r)
  PROVE  GoodState'
<1>1. CountersOK'
  BY DEF LockExpire, GoodState, CountersOK, acct
<1> QED
  BY <1>1, RecordUnchanged, HandlersUnchanged DEF LockExpire, GoodState

LEMMA NearKeeps ==
  ASSUME GoodState, NEW t \in ahead, Near(t)
  PROVE  GoodState'
<1>1. CountersOK'
  BY DEF Near, GoodState, CountersOK, acct
<1> QED
  BY <1>1, RecordUnchanged, HandlersUnchanged DEF Near, GoodState

LEMMA FireTimerKeeps ==
  ASSUME GoodState, NEW h \in Handlers, NEW t \in timers, FireTimer(h, t)
  PROVE  GoodState'
<1>1. HandlersGood'
  BY CallGood, HandlersUnchanged DEF FireTimer, GoodState, PC, TimeoutPC
<1>2. CountersOK'
  BY DEF FireTimer, GoodState, CountersOK, acct
<1> QED
  BY <1>1, <1>2, RecordUnchanged DEF FireTimer, GoodState

LEMMA TimeoutReadKeeps ==
  ASSUME GoodState, NEW h \in Handlers, TimeoutRead(h)
  PROVE  GoodState'
<1>1. CASE ~(SameRound(h) /\ ~AllMoved(match))
  BY <1>1, DoneGood, RecordUnchanged, CountersUnchanged DEF TimeoutRead, GoodState
<1>2. CASE SameRound(h) /\ ~AllMoved(match)
  <2>1. PICK choice \in [Players -> Choices] :
          To(h, "toCheck", Filled(match, match.alive, choice))
    BY <1>2 DEF TimeoutRead
  <2>2. \A p \in match.alive : choice[p] \in Moved
    BY MovedFacts DEF GoodState, Good, Match
  <2>3. Good(Filled(match, match.alive, choice))
    BY <2>2, FilledGood DEF GoodState
  <2>4. HandlersGood'
    BY <2>1, <2>3, ToGood DEF GoodState, PC, TimeoutPC
  <2> QED
    BY <2>4, RecordUnchanged, CountersUnchanged DEF TimeoutRead, GoodState
<1> QED
  BY <1>1, <1>2

LEMMA TimeoutCheckKeeps ==
  ASSUME GoodState, NEW h \in Handlers, TimeoutCheck(h)
  PROVE  GoodState'
<1>1. HandlersGood'
  BY CopyGood, DoneGood, ToGood DEF TimeoutCheck, GoodState, PC, TimeoutPC
<1> QED
  BY <1>1, RecordUnchanged, CountersUnchanged DEF TimeoutCheck, GoodState

LEMMA TimeoutSaveKeeps ==
  ASSUME GoodState, NEW h \in Handlers, TimeoutSave(h)
  PROVE  GoodState'
<1>1. HandlersGood'
  BY CopyGood, ToGood DEF TimeoutSave, GoodState, PC, TimeoutPC
<1> QED
  BY <1>1, CopyWritten, CountersUnchanged DEF TimeoutSave, GoodState

LEMMA ResolveReadKeeps ==
  ASSUME GoodState, NEW h \in Handlers, ResolveRead(h)
  PROVE  GoodState'
<1> DEFINE m     == Filled(match, match.alive, hs[h].m.moves)
           after == AfterRound(m)
<1>1. /\ IF ~SameRound(h) \/ ~AllMoved(m) THEN Done(h)
         ELSE IF after.status = "FINISHED" THEN Call(h, "settle", after, "resCheck")
         ELSE Call(h, "resCheck", after, "idle")
      /\ UNCHANGED <<match, env, acct>>
  BY DEF ResolveRead
<1>2. hs[h].m.moves \in [Players -> Moved] /\ match.alive \subseteq Players
  BY CopyGood DEF GoodState, Good, Match
<1>3. Good(m) /\ m.status = match.status
  BY <1>2, FilledGood DEF GoodState
<1>4. SameRound(h) /\ AllMoved(m) => Good(after)
  BY <1>3, AfterRoundGood DEF SameRound
<1>5. {"settle", "resCheck", "idle"} \subseteq PC
  BY DEF PC, TimeoutPC
<1> HIDE DEF m, after
<1>6. HandlersGood'
  BY <1>1, <1>4, <1>5, DoneGood, CallGood DEF GoodState
<1> QED
  BY <1>1, <1>6, RecordUnchanged, CountersUnchanged DEF GoodState

LEMMA ResolveCheckKeeps ==
  ASSUME GoodState, NEW h \in Handlers, ResolveCheck(h)
  PROVE  GoodState'
<1>1. HandlersGood'
  BY CopyGood, DoneGood, ToGood DEF ResolveCheck, GoodState, PC, TimeoutPC
<1> QED
  BY <1>1, RecordUnchanged, CountersUnchanged DEF ResolveCheck, GoodState

LEMMA ResolveSaveKeeps ==
  ASSUME GoodState, NEW h \in Handlers, ResolveSave(h)
  PROVE  GoodState'
<1>1. HandlersGood'
  BY CopyGood, DoneGood, CallGood DEF ResolveSave, GoodState, PC, TimeoutPC, TimerPC
<1> QED
  BY <1>1, CopyWritten, CountersUnchanged DEF ResolveSave, GoodState

LEMMA ResolveBotsKeeps ==
  ASSUME GoodState, NEW h \in Handlers, ResolveBots(h)
  PROVE  GoodState'
<1>1. botLoops' \in Nat
  BY MoreLoopsNat DEF ResolveBots, GoodState, CountersOK
<1>2. CountersOK'
  BY <1>1 DEF ResolveBots, GoodState, CountersOK, acct
<1> QED
  BY <1>2, DoneGood, RecordUnchanged DEF ResolveBots, GoodState

LEMMA BotTickKeeps ==
  ASSUME GoodState, NEW h \in Handlers, BotTick(h)
  PROVE  GoodState'
<1>1. HandlersGood'
  BY CallGood, HandlersUnchanged DEF BotTick, GoodState, PC, BotPC
<1>2. botLoops' \in Nat
  BY DEF BotTick, GoodState, CountersOK
<1>3. CountersOK'
  BY <1>2 DEF BotTick, GoodState, CountersOK, acct
<1> QED
  BY <1>1, <1>3, RecordUnchanged DEF BotTick, GoodState

LEMMA BotReadKeeps ==
  ASSUME GoodState, NEW h \in Handlers, BotRead(h)
  PROVE  GoodState'
<1>1. botLoops' \in Nat
  BY MoreLoopsNat DEF BotRead, GoodState, CountersOK
<1>2. CountersOK'
  BY <1>1 DEF BotRead, GoodState, CountersOK, acct
<1>3. HandlersGood'
  <2>1. CASE match.status = "FINISHED" \/ ~BotsOnly(match) \/ match.round > MaxRound
    BY <2>1, DoneGood DEF BotRead, GoodState
  <2>2. CASE match.status # "FINISHED" /\ BotsOnly(match) /\ ~(match.round > MaxRound)
    <3> DEFINE n == [match EXCEPT !.moves = NoMoves]
               played(choice) == Filled(n, match.alive, choice)
               after(choice) == AfterRound(played(choice))
    <3>1. PICK choice \in [Bots -> Choices] :
            IF after(choice).status = "FINISHED"
            THEN Call(h, "settle", after(choice), "botSave")
            ELSE Call(h, "botSave", after(choice), "idle")
      BY <2>2 DEF BotRead
    <3>2. Good(n) /\ n.status = match.status /\ n.alive = match.alive
      BY ForgottenMovesGood DEF GoodState
    <3>3. \A p \in match.alive : choice[p] \in Moved /\ choice[p] # NoMove
      BY <2>2, MovedFacts DEF BotsOnly
    <3>4. \A p \in match.alive : n.moves[p] = NoMove
      BY DEF GoodState, Good, Match, NoMoves
    <3> HIDE DEF n
    <3>5. /\ Good(played(choice)) /\ played(choice).status = match.status
          /\ played(choice).alive = match.alive
      BY <3>2, <3>3, FilledGood
    <3>6. AllMoved(played(choice))
      <4>1. /\ n.moves \in [Players -> Moved]
            /\ n \in Match /\ match.alive \subseteq Players
        BY <3>2 DEF Good, Match, GoodState
      <4>2. \A p \in match.alive : played(choice).moves[p] = choice[p]
        BY <3>4, <4>1 DEF Filled, Match
      <4>3. \A p \in match.alive : choice[p] # NoMove
        BY <3>3 DEF Moves, NoMove
      <4> QED
        BY <3>5, <4>2, <4>3 DEF AllMoved
    <3>7. Good(after(choice))
      BY <2>2, <3>5, <3>6, AfterRoundGood
    <3>8. {"settle", "botSave", "idle"} \subseteq PC
      BY DEF PC, BotPC
    <3> HIDE DEF after
    <3> QED
      BY <3>1, <3>7, <3>8, CallGood DEF GoodState
  <2> QED
    BY <2>1, <2>2
<1> QED
  BY <1>2, <1>3, RecordUnchanged DEF BotRead, GoodState

LEMMA BotSaveKeeps ==
  ASSUME GoodState, NEW h \in Handlers, BotSave(h)
  PROVE  GoodState'
<1>1. HandlersGood'
  BY CopyGood, DoneGood, CallGood DEF BotSave, GoodState, PC
<1>2. botLoops' \in Nat
  BY MoreLoopsNat DEF BotSave, GoodState, CountersOK
<1>3. CountersOK'
  BY <1>2 DEF BotSave, GoodState, CountersOK, acct
<1> QED
  BY <1>1, <1>3, CopyWritten DEF BotSave, GoodState

LEMMA CancelMatchKeeps ==
  ASSUME GoodState, NEW h \in Handlers, CancelMatch(h)
  PROVE  GoodState'
<1>1. Good([match EXCEPT !.status = "CANCELLED"])
  BY CancelledGood DEF CancelMatch, Live, GoodState
<1>2. HandlersGood'
  BY <1>1, CallGood DEF CancelMatch, GoodState, PC
<1>3. CountersOK'
  BY DEF CancelMatch, GoodState, CountersOK
<1> QED
  BY <1>2, <1>3, RecordUnchanged DEF CancelMatch, GoodState

LEMMA CancelSaveKeeps ==
  ASSUME GoodState, NEW h \in Handlers, CancelSave(h)
  PROVE  GoodState'
BY DoneGood, CopyWritten, CountersUnchanged DEF CancelSave, GoodState

LEMMA RestartKeeps ==
  ASSUME GoodState, Restart
  PROVE  GoodState'
<1>1. HandlersGood'
  BY IdleGood DEF Restart, HandlersGood
<1>2. CountersOK'
  BY DEF Restart, GoodState, CountersOK, acct
<1> QED
  BY <1>1, <1>2, RecordUnchanged DEF Restart, GoodState

-----------------------------------------------------------------------------
(* The theorems *)

LEMMA InitGood == Init => GoodState
<1> SUFFICES ASSUME Init PROVE GoodState
  OBVIOUS
<1>1. Good(match)
  BY NewMatchGood DEF Init
<1>2. HandlersGood
  BY IdleGood DEF Init, HandlersGood
<1>3. NotAccepted \in [round : Nat, move : Moved]
  BY MovedFacts DEF NotAccepted
<1>4. starts \subseteq {"service", "gateway"}
  BY DEF Init
<1>5. accepted \in [Users -> [round : Nat, move : Moved]]
  BY <1>3 DEF Init
<1>6. refunded \in BOOLEAN
  BY DEF Init
<1>7. /\ timers \subseteq Timer /\ ahead \subseteq Timer /\ locks \subseteq Nat \ {0}
      /\ botLoops \in Nat /\ cancels \in Nat /\ restarts \in Nat /\ paid \in 0 .. 2
  BY BoundsAssumption DEF Init
<1>8. CountersOK
  BY <1>4, <1>5, <1>6, <1>7 DEF CountersOK
<1> QED
  BY <1>1, <1>2, <1>8 DEF GoodState

LEMMA NextGood == GoodState /\ [Next]_vars => GoodState'
<1> SUFFICES ASSUME GoodState, [Next]_vars PROVE GoodState'
  OBVIOUS
<1>1. CASE \E h \in Handlers : Step(h)
  <2>1. PICK h \in Handlers : Step(h)
    BY <1>1
  <2> QED
    BY <2>1, SubmitSaveKeeps, SubmitSaveNextKeeps, SettleKeeps, StartDoneKeeps,
       TimerReadKeeps, TimerLockKeeps, TimerFreshKeeps, TimerUnlockKeeps, TimerSaveKeeps,
       TimeoutReadKeeps, TimeoutCheckKeeps, TimeoutSaveKeeps,
       ResolveReadKeeps, ResolveCheckKeeps, ResolveSaveKeeps, ResolveBotsKeeps,
       BotReadKeeps, BotSaveKeeps, CancelSaveKeeps
       DEF Step
<1>2. CASE \E h \in Handlers, u \in Movers, mv \in Submitted : SubmitMove(h, u, mv)
  BY <1>2, SubmitMoveKeeps
<1>3. CASE \E h \in Handlers : StartMatch(h) \/ BotTick(h) \/ CancelMatch(h)
  BY <1>3, StartMatchKeeps, BotTickKeeps, CancelMatchKeeps
<1>4. CASE \E h \in Handlers, t \in timers : FireTimer(h, t)
  BY <1>4, FireTimerKeeps
<1>5. CASE \E r \in locks : LockExpire(r)
  BY <1>5, LockExpireKeeps
<1>6. CASE \E t \in ahead : Near(t)
  BY <1>6, NearKeeps
<1>7. CASE SkipStart
  BY <1>7, SkipStartKeeps
<1>8. CASE Restart
  BY <1>8, RestartKeeps
<1>9. CASE UNCHANGED vars
  BY <1>9, RecordUnchanged, HandlersUnchanged, CountersUnchanged DEF vars, env, acct, GoodState
<1> QED
  BY <1>1, <1>2, <1>3, <1>4, <1>5, <1>6, <1>7, <1>8, <1>9 DEF Next

THEOREM AlwaysGood == Spec => []GoodState
BY InitGood, NextGood, PTL DEF Spec

\* Every record and every copy is a record of a match.
THEOREM TypeCorrect == Spec => []TypeOK
BY AlwaysGood, GoodStateMeans, PTL

\* Every record and every copy is consistent with itself: for any players, and
\* however many calls, crashes and cancellations overlap.
THEOREM RecordsAlwaysConsistent == Spec => []RecordsConsistent
BY AlwaysGood, GoodStateMeans, PTL

-----------------------------------------------------------------------------
(* The timer lock *)

PastLock == {"timerFresh", "timerUnlock", "timerSave"}

HoldsLock(h) == hs[h].pc \in PastLock

\* Who is past the lock of a round finds it in Redis and alone; helpers never
\* return to a place past the lock.
LockInv ==
  /\ \A h \in Handlers : hs[h].ret \notin PastLock
  /\ \A h \in Handlers : HoldsLock(h) => hs[h].m.round \in locks
  /\ OneTimerStarter

\* A handler that is not past the lock afterwards disturbs nobody, as long as
\* the locks of the others stay.
LEMMA OffLock ==
  ASSUME HandlersGood, LockInv, NEW h \in Handlers, NEW x,
         x.pc \notin PastLock, x.ret \notin PastLock,
         hs' = [hs EXCEPT ![h] = x],
         \A g \in Handlers : g # h /\ HoldsLock(g) => hs[g].m.round \in locks'
  PROVE  LockInv'
<1>1. hs'[h] = x /\ \A g \in Handlers : g # h => hs'[g] = hs[g]
  BY DEF HandlersGood
<1>2. \A g \in Handlers : HoldsLock(g)' => g # h /\ HoldsLock(g)
  BY <1>1 DEF HoldsLock
<1>3. \A g \in Handlers : hs'[g].ret \notin PastLock
  BY <1>1 DEF LockInv
<1>4. \A g \in Handlers : HoldsLock(g)' => hs'[g].m.round \in locks'
  BY <1>1, <1>2
<1>5. OneTimerStarter'
  BY <1>1, <1>2 DEF LockInv, OneTimerStarter, HoldsLock, PastLock
<1> QED
  BY <1>3, <1>4, <1>5 DEF LockInv

LEMMA DoneOffLock ==
  ASSUME HandlersGood, LockInv, NEW h \in Handlers, Done(h),
         \A g \in Handlers : g # h /\ HoldsLock(g) => hs[g].m.round \in locks'
  PROVE  LockInv'
<1>1. Idle.pc \notin PastLock /\ Idle.ret \notin PastLock
  BY DEF Idle, PastLock
<1> QED
  BY <1>1, OffLock DEF Done

LEMMA CallOffLock ==
  ASSUME HandlersGood, LockInv, NEW h \in Handlers, NEW pc, NEW m, NEW ret,
         pc \notin PastLock, ret \notin PastLock, Call(h, pc, m, ret), UNCHANGED locks
  PROVE  LockInv'
<1> DEFINE x == [pc |-> pc, m |-> m, ret |-> ret]
<1>1. x.pc \notin PastLock /\ x.ret \notin PastLock
  OBVIOUS
<1>2. hs' = [hs EXCEPT ![h] = x]
  BY DEF Call
<1> HIDE DEF x
<1> QED
  BY <1>1, <1>2, OffLock DEF LockInv

LEMMA ToOffLock ==
  ASSUME HandlersGood, LockInv, NEW h \in Handlers, NEW pc, NEW m,
         pc \notin PastLock, To(h, pc, m),
         \A g \in Handlers : g # h /\ HoldsLock(g) => hs[g].m.round \in locks'
  PROVE  LockInv'
<1> DEFINE x == [hs[h] EXCEPT !.pc = pc, !.m = m]
<1>1. x.pc \notin PastLock /\ x.ret \notin PastLock
  BY DEF HandlersGood, Handler, LockInv
<1>2. hs' = [hs EXCEPT ![h] = x]
  BY DEF To, HandlersGood
<1> HIDE DEF x
<1> QED
  BY <1>1, <1>2, OffLock

LEMMA ReturnOffLock ==
  ASSUME HandlersGood, LockInv, NEW h \in Handlers, NEW m, Return(h, m),
         \A g \in Handlers : g # h /\ HoldsLock(g) => hs[g].m.round \in locks'
  PROVE  LockInv'
<1>1. hs[h].ret \notin PastLock
  BY DEF LockInv
<1> QED
  BY <1>1, DoneOffLock, ToOffLock DEF Return

\* The locks of the others stay if no lock goes.
LEMMA OthersKeepLocks ==
  ASSUME LockInv, locks \subseteq locks', NEW h \in Handlers
  PROVE  \A g \in Handlers : g # h /\ HoldsLock(g) => hs[g].m.round \in locks'
BY DEF LockInv

LEMMA LocksAlone ==
  ASSUME LockInv, UNCHANGED hs, \A g \in Handlers : HoldsLock(g) => hs[g].m.round \in locks'
  PROVE  LockInv'
BY DEF LockInv, OneTimerStarter, HoldsLock

LEMMA TimerLockExclusive ==
  ASSUME HandlersGood, LockInv, NEW h \in Handlers, TimerLock(h)
  PROVE  LockInv'
<1>1. CASE TimerLockHeld(h)
  BY <1>1, ReturnOffLock, OthersKeepLocks DEF TimerLock
<1>2. CASE ~TimerLockHeld(h)
  <2> DEFINE x == [hs[h] EXCEPT !.pc = "timerFresh", !.m = hs[h].m]
  <2>1. hs' = [hs EXCEPT ![h] = x] /\ locks' = locks \cup {hs[h].m.round}
    BY <1>2 DEF TimerLock, To, HandlersGood
  <2>2. x.m = hs[h].m /\ x.ret = hs[h].ret
    BY DEF HandlersGood, Handler
  <2>3. hs'[h] = x /\ \A g \in Handlers : g # h => hs'[g] = hs[g]
    BY <2>1 DEF HandlersGood
  <2>4. \A g \in Handlers : g # h /\ HoldsLock(g) => hs[g].m.round # hs[h].m.round
    BY <1>2 DEF TimerLockHeld, LockInv
  <2> HIDE DEF x
  <2>5. \A g \in Handlers : hs'[g].ret \notin PastLock
    BY <2>2, <2>3 DEF LockInv
  <2>6. \A g \in Handlers : HoldsLock(g)' => hs'[g].m.round \in locks'
    BY <2>1, <2>2, <2>3 DEF LockInv, HoldsLock
  <2>7. OneTimerStarter'
    BY <2>2, <2>3, <2>4 DEF LockInv, OneTimerStarter, HoldsLock, PastLock
  <2> QED
    BY <2>5, <2>6, <2>7 DEF LockInv
<1> QED
  BY <1>1, <1>2

\* The second read moves h from one place past the lock to another.
LEMMA TimerFreshExclusive ==
  ASSUME HandlersGood, LockInv, NEW h \in Handlers, TimerFresh(h)
  PROVE  LockInv'
<1>1. PICK pc \in {"timerUnlock", "timerSave"} : To(h, pc, hs[h].m)
  BY DEF TimerFresh
<1> DEFINE x == [hs[h] EXCEPT !.pc = pc, !.m = hs[h].m]
<1>2. hs' = [hs EXCEPT ![h] = x] /\ UNCHANGED locks
  BY <1>1 DEF TimerFresh, To, HandlersGood, env
<1>3. x.m = hs[h].m /\ x.ret = hs[h].ret
  BY DEF HandlersGood, Handler
<1> HIDE DEF x
<1>4. \A g \in Handlers : hs'[g].m = hs[g].m /\ hs'[g].ret = hs[g].ret
  BY <1>2, <1>3 DEF HandlersGood
<1>5. \A g \in Handlers : HoldsLock(g)' => HoldsLock(g)
  BY <1>2 DEF HandlersGood, HoldsLock, TimerFresh, PastLock
<1> QED
  BY <1>2, <1>4, <1>5 DEF LockInv, OneTimerStarter, HoldsLock, PastLock

LEMMA TimerUnlockExclusive ==
  ASSUME HandlersGood, LockInv, NEW h \in Handlers, TimerUnlock(h)
  PROVE  LockInv'
<1>1. \A g \in Handlers : g # h /\ HoldsLock(g) => hs[g].m.round # hs[h].m.round
  BY DEF TimerUnlock, LockInv, OneTimerStarter, HoldsLock, PastLock
<1>2. \A g \in Handlers : g # h /\ HoldsLock(g) => hs[g].m.round \in locks'
  BY <1>1 DEF TimerUnlock, LockInv
<1> QED
  BY <1>2, ReturnOffLock DEF TimerUnlock

\* A lock expires only while no call is in progress.
LEMMA LockExpireExclusive ==
  ASSUME LockInv, NEW r \in locks, LockExpire(r)
  PROVE  LockInv'
<1>1. \A g \in Handlers : ~HoldsLock(g)
  BY DEF LockExpire, Quiet, Busy, HoldsLock, PastLock
<1> QED
  BY <1>1, LocksAlone DEF LockExpire

LEMMA RestartExclusive ==
  ASSUME LockInv, Restart
  PROVE  LockInv'
<1>1. \A g \in Handlers : hs'[g] = Idle
  BY DEF Restart
<1>2. Idle.pc \notin PastLock /\ Idle.ret \notin PastLock
  BY DEF Idle, PastLock
<1> QED
  BY <1>1, <1>2 DEF LockInv, OneTimerStarter, HoldsLock, PastLock

\* The calls that take no timer lock.
LEMMA StepExclusive ==
  ASSUME HandlersGood, LockInv, NEW h \in Handlers, Step(h)
  PROVE  LockInv'
<1> USE DEF PastLock
<1>1. CASE SubmitSave(h) \/ SubmitSaveNext(h)
  BY <1>1, DoneOffLock, ToOffLock, OthersKeepLocks DEF SubmitSave, SubmitSaveNext, env
<1>2. CASE Settle(h)
  BY <1>2, ReturnOffLock, OthersKeepLocks DEF Settle, env
<1>3. CASE StartDone(h)
  BY <1>3, DoneOffLock, OthersKeepLocks DEF StartDone
<1>4. CASE TimerRead(h)
  BY <1>4, ReturnOffLock, ToOffLock, OthersKeepLocks DEF TimerRead, env
<1>5. CASE TimerSave(h)
  BY <1>5, ReturnOffLock, OthersKeepLocks DEF TimerSave
<1>6. CASE TimeoutRead(h) \/ TimeoutCheck(h) \/ TimeoutSave(h)
  BY <1>6, DoneOffLock, ToOffLock, OthersKeepLocks
     DEF TimeoutRead, TimeoutCheck, TimeoutSave, env
<1>7. CASE ResolveRead(h)
  BY <1>7, DoneOffLock, CallOffLock, OthersKeepLocks DEF ResolveRead, env
<1>8. CASE ResolveCheck(h)
  BY <1>8, DoneOffLock, ToOffLock, OthersKeepLocks DEF ResolveCheck, env
<1>9. CASE ResolveSave(h)
  BY <1>9, DoneOffLock, CallOffLock, OthersKeepLocks DEF ResolveSave, env
<1>10. CASE ResolveBots(h)
  BY <1>10, DoneOffLock, OthersKeepLocks DEF ResolveBots
<1>11. CASE BotRead(h)
  BY <1>11, DoneOffLock, CallOffLock, OthersKeepLocks DEF BotRead
<1>12. CASE BotSave(h)
  BY <1>12, DoneOffLock, CallOffLock, OthersKeepLocks DEF BotSave
<1>13. CASE CancelSave(h)
  BY <1>13, DoneOffLock, OthersKeepLocks DEF CancelSave, env
<1> QED
  BY <1>1, <1>2, <1>3, <1>4, <1>5, <1>6, <1>7, <1>8, <1>9, <1>10, <1>11, <1>12, <1>13,
     TimerLockExclusive, TimerFreshExclusive, TimerUnlockExclusive DEF Step

LEMMA NextExclusive == GoodState /\ LockInv /\ [Next]_vars => LockInv'
<1> SUFFICES ASSUME HandlersGood, LockInv, [Next]_vars PROVE LockInv'
  BY DEF GoodState
<1> USE DEF PastLock
<1>1. CASE \E h \in Handlers : Step(h)
  BY <1>1, StepExclusive
<1>2. CASE \E h \in Handlers, u \in Movers, mv \in Submitted : SubmitMove(h, u, mv)
  BY <1>2, CallOffLock DEF SubmitMove, env
<1>3. CASE \E h \in Handlers : StartMatch(h) \/ BotTick(h) \/ CancelMatch(h)
  <2>1. PICK h \in Handlers : StartMatch(h) \/ BotTick(h) \/ CancelMatch(h)
    BY <1>3
  <2>2. UNCHANGED hs => LockInv'
    BY <2>1, LocksAlone DEF LockInv, StartMatch, BotTick, CancelMatch
  <2>3. CASE StartMatch(h)
    BY <2>2, <2>3, CallOffLock DEF StartMatch
  <2>4. CASE BotTick(h)
    BY <2>2, <2>4, CallOffLock DEF BotTick
  <2>5. CASE CancelMatch(h)
    BY <2>5, CallOffLock DEF CancelMatch
  <2> QED
    BY <2>1, <2>3, <2>4, <2>5
<1>4. CASE \E h \in Handlers, t \in timers : FireTimer(h, t)
  BY <1>4, CallOffLock, LocksAlone DEF FireTimer, LockInv
<1>5. CASE \E r \in locks : LockExpire(r)
  BY <1>5, LockExpireExclusive
<1>6. CASE \E t \in ahead : Near(t)
  BY <1>6, LocksAlone DEF Near, LockInv
<1>7. CASE SkipStart
  BY <1>7, LocksAlone DEF SkipStart, LockInv
<1>8. CASE Restart
  BY <1>8, RestartExclusive
<1>9. CASE UNCHANGED vars
  BY <1>9, LocksAlone DEF vars, LockInv
<1> QED
  BY <1>1, <1>2, <1>3, <1>4, <1>5, <1>6, <1>7, <1>8, <1>9 DEF Next

\* At most one call of startMoveTimer is past the lock of a round, however many
\* overlap.
THEOREM TimerStartersExclusive == Spec => []OneTimerStarter
<1>1. Init => LockInv
  BY DEF Init, LockInv, HoldsLock, OneTimerStarter, Idle, PastLock
<1>2. LockInv => OneTimerStarter
  BY DEF LockInv
<1> QED
  BY <1>1, <1>2, NextExclusive, AlwaysGood, PTL DEF Spec

-----------------------------------------------------------------------------
(* Calls that do not overlap *)

\* With one handler and no crash a call finds the record as it last read or
\* wrote it.  What follows says how far each call has got: what the copy it is
\* going to write adds to the record, and what has been paid for it.

\* The moves accepted for the round of m are in m.
CountedBy(acc, m) ==
  \A u \in Users :
    \/ acc[u].round < m.round
    \/ /\ acc[u].round = m.round
       /\ m.status # "FINISHED" => m.moves[u] = acc[u].move /\ m.moves[u] # NoMove

Counted(m) == CountedBy(accepted, m)

Acceptances == [Users -> [round : Nat, move : Moved]]

\* Nothing is paid before the match is over; then it is marked settled.
Accounted(m) == IF m.status = "FINISHED" THEN m.settled /\ paid \in {0, 1} ELSE paid = 0

\* Where a call holds a copy of the record as it is, and where one it has added to.
CheckedPC == {"timerLock", "timerFresh", "timerUnlock", "timerSave", "toRead"}
ResultPC  == {"save", "saveNext", "saveDone", "toCheck", "toSave",
              "resCheck", "resSave", "botSave", "cancelSave"}

\* The call is going to write its copy, or to settle it and then write it.
Pending(x) ==
  \/ x.pc \in CheckedPC \cup ResultPC
  \/ x.pc = "settle" /\ x.ret # "idle"

\* m takes the record on: no earlier round, nobody revived, all moves counted.
TakesOn(m) == m.round >= match.round /\ match.elim \subseteq m.elim /\ Counted(m)

\* A copy that is FINISHED has been settled unless that is what comes next.
PendingOK(x) ==
  /\ match.status # "FINISHED"
  /\ TakesOn(x.m)
  /\ IF x.m.status = "FINISHED" /\ x.pc # "settle"
     THEN x.m.settled /\ paid = IF match.settled THEN 0 ELSE 1
     ELSE x.m.settled = match.settled /\ paid = 0

\* What a handler's place in the code says of its copy and of where it returns.
PlaceOK(x) ==
  /\ x.pc \in {"timerRead", "timerLock", "timerFresh", "timerUnlock", "timerSave"}
       => x.ret \in {"idle", "startDone", "resBots"}
  /\ x.pc \in CheckedPC => x.m = match
  /\ x.pc = "settle" => /\ x.m.status = "FINISHED"
                        /\ x.ret \in {"idle", "saveDone", "resCheck", "botSave"}
                        /\ x.ret = "idle" => match.status = "FINISHED"
  /\ x.pc = "saveDone" => x.m.status = "FINISHED"
  /\ x.pc \in {"save", "saveNext", "toCheck", "toSave", "cancelSave"} => x.m.status # "FINISHED"
  /\ x.pc = "saveNext" => x.ret = "idle"
  /\ x.pc = "toCheck" => Counted(match)

CallOK(x) ==
  /\ PlaceOK(x)
  /\ IF Pending(x) THEN PendingOK(x) ELSE Counted(match) /\ Accounted(match)

SerialInv == restarts = 0 /\ \A h \in Handlers : CallOK(hs[h])

-----------------------------------------------------------------------------
(* What the helpers add to a record *)

LEMMA FilledCounted ==
  ASSUME NEW acc, NEW m, Good(m), CountedBy(acc, m), NEW S, NEW choice
  PROVE  LET n == Filled(m, S, choice)
         IN  /\ n.status = m.status /\ n.alive = m.alive /\ n.elim = m.elim
             /\ n.round = m.round /\ n.settled = m.settled
             /\ CountedBy(acc, n)
<1> DEFINE n == Filled(m, S, choice)
<1>1. /\ n.status = m.status /\ n.alive = m.alive /\ n.elim = m.elim
      /\ n.round = m.round /\ n.settled = m.settled
      /\ \A p \in Players : m.moves[p] # NoMove => n.moves[p] = m.moves[p]
  BY DEF Filled, Good, Match
<1> HIDE DEF n
<1>2. CountedBy(acc, n)
  BY <1>1 DEF CountedBy, Players
<1> QED
  BY <1>1, <1>2 DEF n

LEMMA AfterRoundCounted ==
  ASSUME NEW acc \in Acceptances, NEW m, Good(m), m.status # "FINISHED",
         AllMoved(m), CountedBy(acc, m)
  PROVE  LET n == AfterRound(m)
         IN  /\ n.round >= m.round /\ m.elim \subseteq n.elim
             /\ n.settled = m.settled
             /\ n.status # "FINISHED" => n.round = m.round + 1
             /\ CountedBy(acc, n)
<1> DEFINE n == AfterRound(m)
<1>1. m \in Match
  BY DEF Good
<1>2. n.settled = m.settled /\ m.elim \subseteq n.elim
  BY <1>1 DEF AfterRound, Match
<1>3. IF n.status = "FINISHED" THEN n.round = m.round ELSE n.round = m.round + 1
  BY <1>1 DEF AfterRound, Match
<1>4. m.round \in Nat
  BY <1>1 DEF Match
<1> HIDE DEF n
<1>5. CountedBy(acc, n)
  <2> SUFFICES ASSUME NEW u \in Users
               PROVE  \/ acc[u].round < n.round
                      \/ acc[u].round = n.round /\ n.status = "FINISHED"
    BY DEF CountedBy
  <2>1. acc[u].round < m.round \/ acc[u].round = m.round
    BY DEF CountedBy
  <2>2. acc[u].round \in Nat
    BY DEF Acceptances
  <2> QED
    BY <1>3, <1>4, <2>1, <2>2
<1> QED
  BY <1>2, <1>3, <1>4, <1>5 DEF n

LEMMA AfterSubmittedRoundCounted ==
  ASSUME NEW acc \in Acceptances, NEW m, Good(m), m.status # "FINISHED",
         AllMoved(m), CountedBy(acc, m)
  PROVE  LET n == AfterSubmittedRound(m)
         IN  /\ n.round >= m.round /\ m.elim \subseteq n.elim
             /\ n.settled = m.settled
             /\ CountedBy(acc, n)
<1> DEFINE a == AfterRound(m)
           n == AfterSubmittedRound(m)
<1>1. /\ a.round >= m.round /\ m.elim \subseteq a.elim /\ a.settled = m.settled
      /\ CountedBy(acc, a)
  BY AfterRoundCounted
<1>2. a \in Match
  BY AfterRoundGood DEF Good
<1>3. n = IF a.status = "FINISHED" THEN a ELSE [a EXCEPT !.deadline = NoDeadline]
  BY DEF AfterSubmittedRound
<1> HIDE DEF a, n
<1>4. /\ n.round = a.round /\ n.elim = a.elim /\ n.settled = a.settled
      /\ n.status = a.status /\ n.moves = a.moves
  BY <1>2, <1>3 DEF Match
<1>5. CountedBy(acc, n)
  BY <1>1, <1>4 DEF CountedBy
<1> QED
  BY <1>1, <1>4, <1>5 DEF n

\* What is said of a call looks at the record, the payments and the accepted
\* moves: it stays true of a handler as long as they do.
LEMMA StaysOK ==
  ASSUME NEW h, CallOK(hs[h]), hs'[h] = hs[h], UNCHANGED <<match, paid, accepted>>
  PROVE  CallOK(hs[h])'
BY DEF CallOK, PlaceOK, PendingOK, Pending, TakesOn, Counted, Accounted

\* The fields of the handler that was changed.
LEMMA ToFields ==
  ASSUME HandlersGood, NEW h \in Handlers, NEW pc, NEW m, To(h, pc, m)
  PROVE  hs'[h].pc = pc /\ hs'[h].m = m /\ hs'[h].ret = hs[h].ret
BY DEF To, HandlersGood, Handler

LEMMA DoneFields ==
  ASSUME HandlersGood, NEW h \in Handlers, Done(h)
  PROVE  hs'[h].pc = "idle" /\ hs'[h].ret = "idle"
BY DEF Done, Idle, HandlersGood

LEMMA CallFields ==
  ASSUME HandlersGood, NEW h \in Handlers, NEW pc, NEW m, NEW ret, Call(h, pc, m, ret)
  PROVE  hs'[h].pc = pc /\ hs'[h].m = m /\ hs'[h].ret = ret
BY DEF Call, HandlersGood

\* A call that ends leaves a record that is accounted for.
LEMMA DoneOK ==
  ASSUME HandlersGood, NEW h \in Handlers, Done(h), Counted(match)', Accounted(match)'
  PROVE  CallOK(hs[h])'
<1>1. hs'[h].pc = "idle"
  BY DoneFields
<1> QED
  BY <1>1 DEF CallOK, PlaceOK, Pending, CheckedPC, ResultPC

\* Where helpers return to without a copy to write.
Harmless == {"idle", "startDone", "resBots"}

LEMMA ReturnOK ==
  ASSUME HandlersGood, NEW h \in Handlers, NEW m, Return(h, m), hs[h].ret \in Harmless,
         Counted(match)', Accounted(match)'
  PROVE  CallOK(hs[h])'
<1>1. hs'[h].pc \in Harmless
  BY ToFields, DoneFields DEF Return, Harmless
<1> QED
  BY <1>1 DEF CallOK, PlaceOK, Pending, CheckedPC, ResultPC, Harmless

\* What a step may do to the record, the payments and the accepted moves.
Writes(h) ==
  /\ Pending(hs[h]) /\ hs[h].pc # "settle"
  /\ match' = hs[h].m
  /\ UNCHANGED <<paid, accepted>>

Pays(h) ==
  /\ Pending(hs[h]) /\ hs[h].pc = "settle"
  /\ ~match.settled /\ paid' = 1
  /\ UNCHANGED <<match, accepted>>

Redates ==
  /\ \E d \in Deadlines : match' = [match EXCEPT !.deadline = d]
  /\ UNCHANGED <<paid, accepted>>

Accepts(h) ==
  /\ ~Pending(hs[h])
  /\ \E u \in Movers, mv \in Submitted :
       /\ ~Refuses(u)
       /\ accepted' = [accepted EXCEPT ![u] = [round |-> match.round, move |-> mv]]
  /\ UNCHANGED <<match, paid>>

StepShape(h) ==
  Writes(h) \/ Pays(h) \/ Redates \/ Accepts(h) \/ UNCHANGED <<match, paid, accepted>>

LEMMA WrittenOK ==
  ASSUME NEW h, CallOK(hs[h]), Writes(h)
  PROVE  Counted(match)' /\ Accounted(match)'
BY DEF Writes, CallOK, PendingOK, TakesOn, Counted, Accounted

LEMMA ReadOK ==
  ASSUME NEW h, CallOK(hs[h]), UNCHANGED <<match, paid, accepted>>,
         Pending(hs[h]) => hs[h].pc \in CheckedPC \cup {"toCheck"}
  PROVE  Counted(match) /\ Accounted(match) /\ Counted(match)' /\ Accounted(match)'
<1>1. Counted(match) /\ Accounted(match)
  BY DEF CallOK, PendingOK, PlaceOK, TakesOn, Accounted, CheckedPC
<1> QED
  BY <1>1 DEF Counted, Accounted

\* A record that is accounted for and is not over has had nothing paid.
LEMMA TakingOn ==
  ASSUME NEW h, match.status # "FINISHED", Accounted(match), UNCHANGED <<match, paid, accepted>>,
         TakesOn(hs'[h].m), hs'[h].m.settled = match.settled,
         hs'[h].m.status # "FINISHED" \/ hs'[h].pc = "settle",
         Pending(hs'[h]), PlaceOK(hs[h])'
  PROVE  CallOK(hs[h])'
<1>1. PendingOK(hs[h])'
  BY DEF PendingOK, TakesOn, Counted, Accounted
<1> QED
  BY <1>1 DEF CallOK

-----------------------------------------------------------------------------
(* The actions, for a call that is the only one *)

LEMMA SubmitSaveSerial ==
  ASSUME GoodState, NEW h \in Handlers, CallOK(hs[h]), SubmitSave(h)
  PROVE  CallOK(hs[h])' /\ StepShape(h)
<1>1. Writes(h)
  BY DEF SubmitSave, Writes, Pending, ResultPC, acct
<1> QED
  BY <1>1, WrittenOK, DoneOK DEF SubmitSave, GoodState, StepShape

LEMMA SubmitSaveNextSerial ==
  ASSUME GoodState, NEW h \in Handlers, CallOK(hs[h]), SubmitSaveNext(h)
  PROVE  CallOK(hs[h])' /\ StepShape(h)
<1>1. Writes(h)
  BY DEF SubmitSaveNext, Writes, Pending, ResultPC, acct
<1>2. Counted(match)' /\ Accounted(match)'
  BY <1>1, WrittenOK
<1>3. CASE Done(h)
  BY <1>1, <1>2, <1>3, DoneOK DEF GoodState, StepShape
<1>4. CASE To(h, "timerRead", hs[h].m)
  <2>1. hs'[h].pc = "timerRead" /\ hs'[h].ret = "idle"
    BY <1>4, ToFields DEF GoodState, CallOK, PlaceOK, SubmitSaveNext
  <2> QED
    BY <1>1, <1>2, <2>1 DEF CallOK, PlaceOK, Pending, CheckedPC, ResultPC, StepShape
<1> QED
  BY <1>3, <1>4 DEF SubmitSaveNext

LEMMA SettleSerial ==
  ASSUME GoodState, NEW h \in Handlers, CallOK(hs[h]), Settle(h)
  PROVE  CallOK(hs[h])' /\ StepShape(h)
<1>0. UNCHANGED <<match, accepted>> /\ hs[h].pc = "settle"
  BY DEF Settle
<1>1. CASE hs[h].ret = "idle"
  <2>1. ~Pending(hs[h]) /\ match.status = "FINISHED" /\ Accounted(match) /\ Counted(match)
    BY <1>0, <1>1 DEF Pending, CallOK, PlaceOK, CheckedPC, ResultPC
  <2>2. AlreadySettled(h)
    BY <2>1 DEF Accounted, AlreadySettled
  <2>3. Done(h) /\ UNCHANGED paid
    BY <1>1, <2>2 DEF Settle, Return
  <2> QED
    BY <1>0, <2>1, <2>3, ReadOK, DoneOK DEF GoodState, StepShape
<1>2. CASE hs[h].ret # "idle"
  <2> DEFINE c == hs[h].m
  <2>1. Pending(hs[h]) /\ PendingOK(hs[h])
    BY <1>0, <1>2 DEF Pending, CallOK
  <2>2. /\ match.status # "FINISHED" /\ TakesOn(c) /\ c.settled = match.settled /\ paid = 0
        /\ c.status = "FINISHED" /\ hs[h].ret \in {"saveDone", "resCheck", "botSave"}
    BY <1>0, <1>2, <2>1 DEF PendingOK, CallOK, PlaceOK
  <2>3. c \in Match
    BY CopyGood DEF GoodState, Good
  <2>4. match.settled \in BOOLEAN
    BY DEF GoodState, Good, Match
  <2>5. PICK n : /\ To(h, hs[h].ret, n)
                 /\ n.status = c.status /\ n.round = c.round /\ n.elim = c.elim
                 /\ n.moves = c.moves /\ n.settled
                 /\ paid' = IF match.settled THEN 0 ELSE 1
    <3>1. CASE AlreadySettled(h)
      BY <1>2, <2>2, <2>4, <3>1 DEF AlreadySettled, Settle, Return
    <3>2. CASE ~AlreadySettled(h)
      <4> DEFINE n == MarkedSettled(c)
      <4>1. /\ n.status = c.status /\ n.round = c.round /\ n.elim = c.elim
            /\ n.moves = c.moves /\ n.settled
        BY <2>3 DEF MarkedSettled, Match
      <4>2. To(h, hs[h].ret, n) /\ paid' = 1
        BY <1>2, <2>2, <3>2 DEF Settle, Return
      <4>3. ~match.settled
        BY <3>2 DEF AlreadySettled
      <4> QED
        BY <4>1, <4>2, <4>3
    <3> QED
      BY <3>1, <3>2
  <2>6. hs'[h].pc = hs[h].ret /\ hs'[h].m = n /\ hs'[h].ret = hs[h].ret
    BY <2>5, ToFields DEF GoodState
  <2>7. TakesOn(n)'
    BY <1>0, <2>2, <2>5 DEF TakesOn, Counted, CountedBy
  <2>8. PendingOK(hs[h])'
    BY <1>0, <2>2, <2>5, <2>6, <2>7 DEF PendingOK, TakesOn, Counted
  <2>9. CallOK(hs[h])'
    BY <2>2, <2>5, <2>6, <2>8 DEF CallOK, PlaceOK, Pending, CheckedPC, ResultPC
  <2>10. StepShape(h)
    BY <1>0, <2>1, <2>2, <2>5 DEF StepShape, Pays
  <2> QED
    BY <2>9, <2>10
<1> QED
  BY <1>1, <1>2

LEMMA StartMatchSerial ==
  ASSUME GoodState, NEW h \in Handlers, CallOK(hs[h]), StartMatch(h)
  PROVE  CallOK(hs[h])' /\ StepShape(h)
<1>1. UNCHANGED <<match, paid, accepted>> /\ ~Pending(hs[h])
  BY DEF StartMatch, acct, Pending, CheckedPC, ResultPC
<1>2. Counted(match)' /\ Accounted(match)'
  BY <1>1, ReadOK
<1>3. CASE UNCHANGED hs
  BY <1>1, <1>3, StaysOK DEF StepShape
<1>4. CASE Call(h, "timerRead", hs[h].m, "startDone")
  <2>1. hs'[h].pc = "timerRead" /\ hs'[h].ret = "startDone"
    BY <1>4, CallFields DEF GoodState
  <2> QED
    BY <1>1, <1>2, <2>1 DEF CallOK, PlaceOK, Pending, CheckedPC, ResultPC, StepShape
<1> QED
  BY <1>3, <1>4 DEF StartMatch

LEMMA StartDoneSerial ==
  ASSUME GoodState, NEW h \in Handlers, CallOK(hs[h]), StartDone(h)
  PROVE  CallOK(hs[h])' /\ StepShape(h)
<1>1. UNCHANGED <<match, paid, accepted>> /\ ~Pending(hs[h])
  BY DEF StartDone, acct, Pending, CheckedPC, ResultPC
<1> QED
  BY <1>1, ReadOK, DoneOK DEF StartDone, GoodState, StepShape

LEMMA TimerReadSerial ==
  ASSUME GoodState, NEW h \in Handlers, CallOK(hs[h]), TimerRead(h)
  PROVE  CallOK(hs[h])' /\ StepShape(h)
<1>1. UNCHANGED <<match, paid, accepted>> /\ ~Pending(hs[h]) /\ hs[h].ret \in Harmless
  BY DEF TimerRead, acct, Pending, CheckedPC, ResultPC, CallOK, PlaceOK, Harmless
<1>2. Counted(match) /\ Accounted(match) /\ Counted(match)' /\ Accounted(match)'
  BY <1>1, ReadOK
<1>3. CASE Return(h, hs[h].m)
  BY <1>1, <1>2, <1>3, ReturnOK DEF GoodState, StepShape
<1>4. CASE To(h, "timerLock", match) /\ match.status # "FINISHED"
  <2>1. hs'[h].pc = "timerLock" /\ hs'[h].m = match /\ hs'[h].ret = hs[h].ret
    BY <1>4, ToFields DEF GoodState
  <2>2. PlaceOK(hs[h])'
    BY <1>1, <2>1 DEF PlaceOK, CheckedPC, Harmless
  <2>3. Pending(hs'[h])
    BY <2>1 DEF Pending, CheckedPC
  <2>4. TakesOn(match)
    BY <1>2 DEF TakesOn, GoodState, Good, Match
  <2> QED
    BY <1>1, <1>2, <1>4, <2>1, <2>2, <2>3, <2>4, TakingOn DEF StepShape
<1> QED
  BY <1>3, <1>4 DEF TimerRead

\* From one place behind the first read of startMoveTimer to the next.
LEMMA TimerToSerial ==
  ASSUME GoodState, NEW h \in Handlers, CallOK(hs[h]), UNCHANGED <<match, paid, accepted>>,
         hs[h].pc \in {"timerLock", "timerFresh"},
         NEW pc \in {"timerFresh", "timerUnlock", "timerSave"}, To(h, pc, hs[h].m)
  PROVE  CallOK(hs[h])'
<1>1. hs'[h].pc = pc /\ hs'[h].m = hs[h].m /\ hs'[h].ret = hs[h].ret
  BY ToFields DEF GoodState
<1>2. Pending(hs[h]) /\ PendingOK(hs[h]) /\ PlaceOK(hs[h])
  BY DEF CallOK, Pending, CheckedPC
<1>3. PendingOK(hs[h])'
  BY <1>1, <1>2 DEF PendingOK, TakesOn, Counted
<1> QED
  BY <1>1, <1>2, <1>3 DEF CallOK, PlaceOK, Pending, CheckedPC

LEMMA TimerReturnSerial ==
  ASSUME GoodState, NEW h \in Handlers, CallOK(hs[h]), UNCHANGED <<match, paid, accepted>>,
         hs[h].pc \in {"timerLock", "timerUnlock"}, Return(h, hs[h].m)
  PROVE  CallOK(hs[h])'
<1>1. hs[h].ret \in Harmless /\ hs[h].pc \in CheckedPC
  BY DEF CallOK, PlaceOK, CheckedPC, Harmless
<1>2. Counted(match)' /\ Accounted(match)'
  BY <1>1, ReadOK
<1> QED
  BY <1>1, <1>2, ReturnOK DEF GoodState

LEMMA TimerLockSerial ==
  ASSUME GoodState, NEW h \in Handlers, CallOK(hs[h]), TimerLock(h)
  PROVE  CallOK(hs[h])' /\ StepShape(h)
BY TimerToSerial, TimerReturnSerial DEF TimerLock, acct, StepShape

LEMMA TimerFreshSerial ==
  ASSUME GoodState, NEW h \in Handlers, CallOK(hs[h]), TimerFresh(h)
  PROVE  CallOK(hs[h])' /\ StepShape(h)
BY TimerToSerial DEF TimerFresh, acct, StepShape

LEMMA TimerUnlockSerial ==
  ASSUME GoodState, NEW h \in Handlers, CallOK(hs[h]), TimerUnlock(h)
  PROVE  CallOK(hs[h])' /\ StepShape(h)
BY TimerReturnSerial DEF TimerUnlock, acct, StepShape

LEMMA TimerSaveSerial ==
  ASSUME GoodState, NEW h \in Handlers, CallOK(hs[h]), TimerSave(h)
  PROVE  CallOK(hs[h])' /\ StepShape(h)
<1>1. PICK d \in Deadlines : match' = [hs[h].m EXCEPT !.deadline = d]
  BY DEF TimerSave, UnusedDeadlines
<1>2. hs[h].m = match /\ hs[h].ret \in Harmless /\ PendingOK(hs[h])
  BY DEF TimerSave, CallOK, PlaceOK, Pending, CheckedPC, Harmless
<1>3. /\ match'.status = match.status /\ match'.round = match.round
      /\ match'.settled = match.settled /\ match'.moves = match.moves
  BY <1>1, <1>2 DEF GoodState, Good, Match
<1>4. UNCHANGED <<paid, accepted>>
  BY DEF TimerSave, acct
<1>5. Counted(match)' /\ Accounted(match)'
  BY <1>2, <1>3, <1>4 DEF PendingOK, TakesOn, Counted, CountedBy, Accounted
<1>6. Redates
  BY <1>1, <1>2, <1>4 DEF Redates
<1> QED
  BY <1>2, <1>5, <1>6, ReturnOK DEF TimerSave, GoodState, StepShape

LEMMA FireTimerSerial ==
  ASSUME GoodState, NEW h \in Handlers, CallOK(hs[h]), NEW t \in timers, FireTimer(h, t)
  PROVE  CallOK(hs[h])' /\ StepShape(h)
<1>1. UNCHANGED <<match, paid, accepted>> /\ ~Pending(hs[h])
  BY DEF FireTimer, acct, Pending, CheckedPC, ResultPC
<1>2. Counted(match) /\ Accounted(match)
  BY <1>1, ReadOK
<1>3. CASE UNCHANGED hs
  BY <1>1, <1>3, StaysOK DEF StepShape
<1>4. CASE Call(h, "toRead", match, "idle") /\ match.status # "FINISHED"
  <2>1. hs'[h].pc = "toRead" /\ hs'[h].m = match
    BY <1>4, CallFields DEF GoodState
  <2>2. PlaceOK(hs[h])' /\ Pending(hs'[h])
    BY <1>1, <2>1 DEF PlaceOK, CheckedPC, Pending
  <2>3. TakesOn(match)
    BY <1>2 DEF TakesOn, GoodState, Good, Match
  <2> QED
    BY <1>1, <1>2, <1>4, <2>1, <2>2, <2>3, TakingOn DEF StepShape
<1> QED
  BY <1>3, <1>4 DEF FireTimer

LEMMA TimeoutReadSerial ==
  ASSUME GoodState, NEW h \in Handlers, CallOK(hs[h]), TimeoutRead(h)
  PROVE  CallOK(hs[h])' /\ StepShape(h)
<1>1. UNCHANGED <<match, paid, accepted>> /\ hs[h].pc \in CheckedPC
  BY DEF TimeoutRead, acct, CheckedPC
<1>2. Counted(match) /\ Accounted(match) /\ Counted(match)' /\ Accounted(match)'
  BY <1>1, ReadOK
<1>3. CASE Done(h)
  BY <1>1, <1>2, <1>3, DoneOK DEF GoodState, StepShape
<1>4. CASE SameRound(h) /\ ~AllMoved(match)
  <2>1. PICK choice \in [Players -> Choices] :
          To(h, "toCheck", Filled(match, match.alive, choice))
    BY <1>4 DEF TimeoutRead
  <2> DEFINE n == Filled(match, match.alive, choice)
  <2>2. /\ n.status = match.status /\ n.elim = match.elim
        /\ n.round = match.round /\ n.settled = match.settled /\ Counted(n)
    BY <1>2, FilledCounted DEF GoodState, Counted
  <2>3. TakesOn(n) /\ n.status # "FINISHED"
    BY <1>4, <2>2 DEF TakesOn, SameRound, GoodState, Good, Match
  <2> HIDE DEF n
  <2>4. hs'[h].pc = "toCheck" /\ hs'[h].m = n
    BY <2>1, ToFields DEF GoodState, n
  <2>5. PlaceOK(hs[h])' /\ Pending(hs'[h])
    BY <1>2, <2>3, <2>4 DEF PlaceOK, CheckedPC, Pending, ResultPC
  <2> QED
    BY <1>1, <1>2, <1>4, <2>2, <2>3, <2>4, <2>5, TakingOn DEF StepShape, SameRound
<1> QED
  BY <1>3, <1>4 DEF TimeoutRead

LEMMA TimeoutCheckSerial ==
  ASSUME GoodState, NEW h \in Handlers, CallOK(hs[h]), TimeoutCheck(h)
  PROVE  CallOK(hs[h])' /\ StepShape(h)
<1>1. UNCHANGED <<match, paid, accepted>> /\ hs[h].pc = "toCheck"
  BY DEF TimeoutCheck, acct
<1>2. CASE Done(h)
  BY <1>1, <1>2, ReadOK, DoneOK DEF GoodState, StepShape
<1>3. CASE To(h, "toSave", hs[h].m)
  <2>1. hs'[h].pc = "toSave" /\ hs'[h].m = hs[h].m
    BY <1>3, ToFields DEF GoodState
  <2>2. PendingOK(hs[h]) /\ hs[h].m.status # "FINISHED"
    BY <1>1 DEF CallOK, Pending, ResultPC, PlaceOK
  <2>3. PendingOK(hs[h])'
    BY <1>1, <2>1, <2>2 DEF PendingOK, TakesOn, Counted
  <2> QED
    BY <1>1, <2>1, <2>2, <2>3 DEF CallOK, Pending, ResultPC, CheckedPC, PlaceOK, StepShape
<1> QED
  BY <1>2, <1>3 DEF TimeoutCheck

\* Calls that write their copy and go on without one.
LEMMA WroteOn ==
  ASSUME GoodState, NEW h \in Handlers, CallOK(hs[h]), Writes(h),
         \/ hs'[h].pc = "resRead"
         \/ hs'[h].pc = "timerRead" /\ hs'[h].ret = "resBots"
  PROVE  CallOK(hs[h])'
<1>1. Counted(match)' /\ Accounted(match)'
  BY WrittenOK
<1> QED
  BY <1>1 DEF CallOK, PlaceOK, Pending, CheckedPC, ResultPC

LEMMA TimeoutSaveSerial ==
  ASSUME GoodState, NEW h \in Handlers, CallOK(hs[h]), TimeoutSave(h)
  PROVE  CallOK(hs[h])' /\ StepShape(h)
<1>1. Writes(h)
  BY DEF TimeoutSave, Writes, Pending, ResultPC, acct
<1>2. hs'[h].pc = "resRead"
  BY ToFields DEF TimeoutSave, GoodState
<1> QED
  BY <1>1, <1>2, WroteOn DEF StepShape

LEMMA ResolveReadSerial ==
  ASSUME GoodState, NEW h \in Handlers, CallOK(hs[h]), ResolveRead(h)
  PROVE  CallOK(hs[h])' /\ StepShape(h)
<1> DEFINE m     == Filled(match, match.alive, hs[h].m.moves)
           after == AfterRound(m)
<1>1. UNCHANGED <<match, paid, accepted>> /\ ~Pending(hs[h])
  BY DEF ResolveRead, acct, Pending, CheckedPC, ResultPC
<1>2. Counted(match) /\ Accounted(match) /\ Counted(match)' /\ Accounted(match)'
  BY <1>1, ReadOK
<1>3. CASE Done(h)
  BY <1>1, <1>2, <1>3, DoneOK DEF GoodState, StepShape
<1>4. CASE SameRound(h) /\ AllMoved(m)
  <2>1. \/ after.status = "FINISHED" /\ Call(h, "settle", after, "resCheck")
        \/ after.status # "FINISHED" /\ Call(h, "resCheck", after, "idle")
    BY <1>4 DEF ResolveRead
  <2>2. hs[h].m.moves \in [Players -> Moved] /\ match.alive \subseteq Players
    BY CopyGood DEF GoodState, Good, Match
  <2>3. /\ Good(m) /\ m.status = match.status /\ m.round = match.round
        /\ m.elim = match.elim /\ m.settled = match.settled /\ Counted(m)
    BY <1>2, <2>2, FilledGood, FilledCounted DEF GoodState, Counted
  <2>4. /\ after.round >= m.round /\ m.elim \subseteq after.elim
        /\ after.settled = m.settled /\ Counted(after)
    BY <1>4, <2>3, AfterRoundCounted DEF GoodState, CountersOK, Acceptances, Counted, SameRound
  <2> HIDE DEF m, after
  <2>5. TakesOn(after) /\ after.settled = match.settled
    BY <2>3, <2>4 DEF TakesOn
  <2>6. /\ hs'[h].m = after
        /\ \/ after.status = "FINISHED" /\ hs'[h].pc = "settle" /\ hs'[h].ret = "resCheck"
           \/ after.status # "FINISHED" /\ hs'[h].pc = "resCheck"
    BY <2>1, CallFields DEF GoodState
  <2>7. PlaceOK(hs[h])' /\ Pending(hs'[h])
    BY <2>6 DEF PlaceOK, CheckedPC, Pending, ResultPC
  <2> QED
    BY <1>1, <1>2, <1>4, <2>5, <2>6, <2>7, TakingOn DEF StepShape, SameRound
<1> QED
  BY <1>3, <1>4 DEF ResolveRead

\* No call came between: the result is not overtaken.
LEMMA ResolveCheckSerial ==
  ASSUME GoodState, NEW h \in Handlers, CallOK(hs[h]), ResolveCheck(h)
  PROVE  CallOK(hs[h])' /\ StepShape(h)
<1>1. UNCHANGED <<match, paid, accepted>> /\ hs[h].pc = "resCheck"
  BY DEF ResolveCheck, acct
<1>2. PendingOK(hs[h])
  BY <1>1 DEF CallOK, Pending, ResultPC
<1>3. ~Overtaken(h)
  <2>1. match.round \in Nat /\ hs[h].m.round \in Nat
    BY CopyGood DEF GoodState, Good, Match
  <2> QED
    BY <1>2, <2>1 DEF PendingOK, TakesOn, Overtaken
<1>4. hs'[h].pc = "resSave" /\ hs'[h].m = hs[h].m
  BY <1>3, ToFields DEF ResolveCheck, GoodState
<1>5. PendingOK(hs[h])'
  BY <1>1, <1>2, <1>4 DEF PendingOK, TakesOn, Counted
<1> QED
  BY <1>1, <1>4, <1>5 DEF CallOK, Pending, ResultPC, CheckedPC, PlaceOK, StepShape

LEMMA ResolveSaveSerial ==
  ASSUME GoodState, NEW h \in Handlers, CallOK(hs[h]), ResolveSave(h)
  PROVE  CallOK(hs[h])' /\ StepShape(h)
<1>1. Writes(h)
  BY DEF ResolveSave, Writes, Pending, ResultPC, acct
<1>2. CASE Done(h)
  BY <1>1, <1>2, WrittenOK, DoneOK DEF GoodState, StepShape
<1>3. CASE Call(h, "timerRead", hs[h].m, "resBots")
  <2>1. hs'[h].pc = "timerRead" /\ hs'[h].ret = "resBots"
    BY <1>3, CallFields DEF GoodState
  <2> QED
    BY <1>1, <2>1, WroteOn DEF StepShape
<1> QED
  BY <1>2, <1>3 DEF ResolveSave

LEMMA ResolveBotsSerial ==
  ASSUME GoodState, NEW h \in Handlers, CallOK(hs[h]), ResolveBots(h)
  PROVE  CallOK(hs[h])' /\ StepShape(h)
<1>1. UNCHANGED <<match, paid, accepted>> /\ ~Pending(hs[h])
  BY DEF ResolveBots, acct, Pending, CheckedPC, ResultPC
<1> QED
  BY <1>1, ReadOK, DoneOK DEF ResolveBots, GoodState, StepShape

LEMMA BotTickSerial ==
  ASSUME GoodState, NEW h \in Handlers, CallOK(hs[h]), BotTick(h)
  PROVE  CallOK(hs[h])' /\ StepShape(h)
<1>1. UNCHANGED <<match, paid, accepted>> /\ ~Pending(hs[h])
  BY DEF BotTick, acct, Pending, CheckedPC, ResultPC
<1>2. Counted(match)' /\ Accounted(match)'
  BY <1>1, ReadOK
<1>3. CASE UNCHANGED hs
  BY <1>1, <1>3, StaysOK DEF StepShape
<1>4. CASE Call(h, "botRead", match, "idle")
  <2>1. hs'[h].pc = "botRead"
    BY <1>4, CallFields DEF GoodState
  <2> QED
    BY <1>1, <1>2, <2>1 DEF CallOK, PlaceOK, Pending, CheckedPC, ResultPC, StepShape
<1> QED
  BY <1>3, <1>4 DEF BotTick

\* Only bots are alive: no user has a move in this round to be forgotten.
LEMMA BotsCounted ==
  ASSUME GoodState, Counted(match), BotsOnly(match), match.status # "FINISHED"
  PROVE  Counted([match EXCEPT !.moves = NoMoves])
<1> DEFINE n == [match EXCEPT !.moves = NoMoves]
<1>1. n.round = match.round
  BY DEF GoodState, Good, Match
<1>2. \A u \in Users : match.moves[u] = NoMove
  BY PlayersAssumption DEF GoodState, Good, RecordOK, BotsOnly, Players
<1> HIDE DEF n
<1>3. Counted(n)
  BY <1>1, <1>2 DEF Counted, CountedBy
<1> QED
  BY <1>3 DEF n

LEMMA BotReadSerial ==
  ASSUME GoodState, NEW h \in Handlers, CallOK(hs[h]), BotRead(h)
  PROVE  CallOK(hs[h])' /\ StepShape(h)
<1>1. UNCHANGED <<match, paid, accepted>> /\ ~Pending(hs[h])
  BY DEF BotRead, acct, Pending, CheckedPC, ResultPC
<1>2. Counted(match) /\ Accounted(match) /\ Counted(match)' /\ Accounted(match)'
  BY <1>1, ReadOK
<1>3. CASE Done(h)
  BY <1>1, <1>2, <1>3, DoneOK DEF GoodState, StepShape
<1>4. CASE match.status # "FINISHED" /\ BotsOnly(match) /\ ~(match.round > MaxRound)
  <2> DEFINE n == [match EXCEPT !.moves = NoMoves]
             m(choice) == Filled(n, match.alive, choice)
             after(choice) == AfterRound(m(choice))
  <2>1. PICK choice \in [Bots -> Choices] :
          \/ after(choice).status = "FINISHED" /\ Call(h, "settle", after(choice), "botSave")
          \/ after(choice).status # "FINISHED" /\ Call(h, "botSave", after(choice), "idle")
    BY <1>4 DEF BotRead
  <2>2. Good(n) /\ n.status = match.status /\ n.alive = match.alive
    BY ForgottenMovesGood DEF GoodState
  <2>3. n.round = match.round /\ n.elim = match.elim /\ n.settled = match.settled
    BY DEF GoodState, Good, Match
  <2>4. Counted(n)
    BY <1>2, <1>4, BotsCounted
  <2>5. \A p \in match.alive : choice[p] \in Moved /\ choice[p] # NoMove
    BY <1>4, MovedFacts DEF BotsOnly
  <2>6. \A p \in match.alive : n.moves[p] = NoMove
    BY DEF GoodState, Good, Match, NoMoves
  <2> HIDE DEF n
  <2>7. /\ Good(m(choice)) /\ m(choice).status = match.status /\ m(choice).alive = match.alive
        /\ m(choice).round = match.round /\ m(choice).elim = match.elim
        /\ m(choice).settled = match.settled /\ Counted(m(choice))
    BY <2>2, <2>3, <2>4, <2>5, FilledGood, FilledCounted DEF Counted
  <2>8. AllMoved(m(choice))
    <3>1. n \in Match /\ match.alive \subseteq Players
      BY <2>2 DEF Good, Match, GoodState
    <3>2. \A p \in match.alive : m(choice).moves[p] = choice[p]
      BY <2>6, <3>1 DEF Filled, Match
    <3> QED
      BY <2>5, <2>7, <3>2 DEF AllMoved
  <2>9. /\ after(choice).round >= match.round /\ match.elim \subseteq after(choice).elim
        /\ after(choice).settled = match.settled /\ Counted(after(choice))
    BY <1>4, <2>7, <2>8, AfterRoundCounted DEF GoodState, CountersOK, Acceptances, Counted
  <2> HIDE DEF m, after
  <2>10. TakesOn(after(choice))
    BY <2>9 DEF TakesOn
  <2>11. /\ hs'[h].m = after(choice)
         /\ \/ after(choice).status = "FINISHED" /\ hs'[h].pc = "settle" /\ hs'[h].ret = "botSave"
            \/ after(choice).status # "FINISHED" /\ hs'[h].pc = "botSave"
    BY <2>1, CallFields DEF GoodState
  <2>12. PlaceOK(hs[h])' /\ Pending(hs'[h])
    BY <2>11 DEF PlaceOK, CheckedPC, Pending, ResultPC
  <2> QED
    BY <1>1, <1>2, <1>4, <2>9, <2>10, <2>11, <2>12, TakingOn DEF StepShape
<1> QED
  BY <1>3, <1>4 DEF BotRead

LEMMA BotSaveSerial ==
  ASSUME GoodState, NEW h \in Handlers, CallOK(hs[h]), BotSave(h)
  PROVE  CallOK(hs[h])' /\ StepShape(h)
<1>1. Writes(h)
  BY DEF BotSave, Writes, Pending, ResultPC, acct
<1>2. Counted(match)' /\ Accounted(match)'
  BY <1>1, WrittenOK
<1>3. CASE Done(h)
  BY <1>1, <1>2, <1>3, DoneOK DEF GoodState, StepShape
<1>4. CASE hs[h].m.status = "FINISHED" /\ Call(h, "settle", hs[h].m, "idle")
  <2>1. hs'[h].pc = "settle" /\ hs'[h].ret = "idle" /\ hs'[h].m = hs[h].m
    BY <1>4, CallFields DEF GoodState
  <2>2. match'.status = "FINISHED" /\ hs'[h].m.status = "FINISHED"
    BY <1>1, <1>4, <2>1 DEF Writes
  <2> QED
    BY <1>1, <1>2, <2>1, <2>2 DEF CallOK, PlaceOK, Pending, CheckedPC, ResultPC, StepShape
<1> QED
  BY <1>3, <1>4 DEF BotSave

LEMMA CancelMatchSerial ==
  ASSUME GoodState, NEW h \in Handlers, CallOK(hs[h]), CancelMatch(h)
  PROVE  CallOK(hs[h])' /\ StepShape(h)
<1> DEFINE n == [match EXCEPT !.status = "CANCELLED"]
<1>1. UNCHANGED <<match, paid, accepted>> /\ ~Pending(hs[h]) /\ match.status # "FINISHED"
  BY DEF CancelMatch, Pending, CheckedPC, ResultPC, Live
<1>2. Counted(match) /\ Accounted(match)
  BY <1>1, ReadOK
<1>3. /\ n.status = "CANCELLED" /\ n.round = match.round /\ n.elim = match.elim
      /\ n.settled = match.settled /\ n.moves = match.moves
  BY DEF GoodState, Good, Match
<1>4. hs'[h].pc = "cancelSave" /\ hs'[h].m = n
  BY CallFields DEF CancelMatch, GoodState
<1> HIDE DEF n
<1>5. TakesOn(n)
  BY <1>1, <1>2, <1>3 DEF TakesOn, Counted, CountedBy, GoodState, Good, Match
<1>6. PlaceOK(hs[h])' /\ Pending(hs'[h])
  BY <1>3, <1>4 DEF PlaceOK, CheckedPC, Pending, ResultPC
<1> QED
  BY <1>1, <1>2, <1>3, <1>4, <1>5, <1>6, TakingOn DEF StepShape

LEMMA CancelSaveSerial ==
  ASSUME GoodState, NEW h \in Handlers, CallOK(hs[h]), CancelSave(h)
  PROVE  CallOK(hs[h])' /\ StepShape(h)
<1>1. Writes(h)
  BY DEF CancelSave, Writes, Pending, ResultPC, acct
<1> QED
  BY <1>1, WrittenOK, DoneOK DEF CancelSave, GoodState, StepShape

\* With the move in it the record counts all moves that are accepted by now.
LEMMA SubmittedCounted ==
  ASSUME GoodState, Counted(match), NEW u \in Movers, NEW mv \in Submitted, ~Refuses(u),
         accepted' = IF mv = NoMove THEN accepted
                     ELSE [accepted EXCEPT ![u] = [round |-> match.round, move |-> mv]]
  PROVE  CountedBy(accepted', WithMove(match, u, mv))
<1> DEFINE v == WithMove(match, u, mv)
<1>1. match \in Match /\ u \in Users /\ u \in Players /\ match.status # "FINISHED"
  BY PlayersAssumption DEF GoodState, Good, Players, Refuses
<1>2. match.moves[u] = NoMove
  BY DEF Refuses
<1>3. v.round = match.round /\ v.moves = [match.moves EXCEPT ![u] = mv]
  BY <1>1 DEF WithMove, Match
<1>4. v.moves[u] = mv /\ \A w \in Users : w # u => v.moves[w] = match.moves[w]
  BY <1>1, <1>3 DEF Match, Players
<1>5. /\ mv # NoMove => accepted'[u] = [round |-> match.round, move |-> mv]
      /\ mv = NoMove => accepted'[u] = accepted[u]
      /\ \A w \in Users : w # u => accepted'[w] = accepted[w]
  BY <1>1 DEF GoodState, CountersOK
<1> HIDE DEF v
<1>6. CountedBy(accepted', v)
  <2> SUFFICES ASSUME NEW w \in Users
               PROVE  \/ accepted'[w].round < v.round
                      \/ /\ accepted'[w].round = v.round
                         /\ v.moves[w] = accepted'[w].move /\ v.moves[w] # NoMove
    BY DEF CountedBy
  <2>1. CASE w = u /\ mv # NoMove
    BY <1>3, <1>4, <1>5, <2>1
  <2>3. CASE w = u /\ mv = NoMove
    <3>1. accepted[u].round < match.round
      BY <1>1, <1>2 DEF Counted, CountedBy
    <3> QED
      BY <1>3, <1>5, <2>3, <3>1
  <2>2. CASE w # u
    <3>1. \/ accepted[w].round < match.round
          \/ /\ accepted[w].round = match.round
             /\ match.moves[w] = accepted[w].move /\ match.moves[w] # NoMove
      BY <1>1 DEF Counted, CountedBy
    <3> QED
      BY <1>3, <1>4, <1>5, <2>2, <3>1
  <2> QED
    BY <2>1, <2>2, <2>3
<1> QED
  BY <1>6 DEF v

LEMMA SubmitMoveSerial ==
  ASSUME GoodState, NEW h \in Handlers, CallOK(hs[h]),
         NEW u \in Movers, NEW mv \in Submitted, SubmitMove(h, u, mv)
  PROVE  CallOK(hs[h])' /\ StepShape(h)
<1> DEFINE v     == WithMove(match, u, mv)
           m(c)  == Filled(v, match.alive \cap Bots, c)
           after(c) == AfterSubmittedRound(m(c))
<1>1. PICK choice \in [Bots -> Choices] :
        \/ ~AllMoved(m(choice)) /\ Call(h, "save", m(choice), "idle")
        \/ /\ AllMoved(m(choice)) /\ after(choice).status = "FINISHED"
           /\ Call(h, "settle", after(choice), "saveDone")
        \/ /\ AllMoved(m(choice)) /\ after(choice).status # "FINISHED"
           /\ Call(h, "saveNext", after(choice), "idle")
  BY DEF SubmitMove
<1>2. /\ ~Refuses(u) /\ ~Pending(hs[h]) /\ UNCHANGED <<match, paid>>
      /\ accepted' = IF mv = NoMove THEN accepted
                     ELSE [accepted EXCEPT ![u] = [round |-> match.round, move |-> mv]]
  BY DEF SubmitMove, Pending, CheckedPC, ResultPC
<1>3. Counted(match) /\ Accounted(match)
  BY <1>2 DEF CallOK
<1>4. u \in match.alive /\ match.status # "FINISHED" /\ mv \in Moved
  BY <1>2, MovedFacts DEF Refuses
<1>5. Good(v) /\ v.status = "IN_PROGRESS" /\ v.alive = match.alive
  BY <1>4, WithMoveGood DEF GoodState
<1>6. v.round = match.round /\ v.elim = match.elim /\ v.settled = match.settled
  BY DEF WithMove, GoodState, Good, Match
<1>7. CountedBy(accepted', v)
  BY <1>2, <1>3, SubmittedCounted
<1>8. accepted' \in Acceptances
  BY SubmitMoveKeeps DEF GoodState, CountersOK, Acceptances
<1>9. \A p \in match.alive \cap Bots : choice[p] \in Moved
  BY MovedFacts
<1> HIDE DEF v
<1>10. /\ Good(m(choice)) /\ m(choice).status = "IN_PROGRESS"
       /\ m(choice).round = match.round /\ m(choice).elim = match.elim
       /\ m(choice).settled = match.settled /\ CountedBy(accepted', m(choice))
  BY <1>5, <1>6, <1>7, <1>9, FilledGood, FilledCounted
<1> HIDE DEF m
<1>11. AllMoved(m(choice)) =>
         /\ after(choice).round >= match.round /\ match.elim \subseteq after(choice).elim
         /\ after(choice).settled = match.settled /\ CountedBy(accepted', after(choice))
  BY <1>8, <1>10, AfterSubmittedRoundCounted
<1> HIDE DEF after
<1>12. PICK n : /\ hs'[h].m = n
                /\ n.round >= match.round /\ match.elim \subseteq n.elim
                /\ n.settled = match.settled /\ CountedBy(accepted', n)
                /\ \/ n.status = "FINISHED" /\ hs'[h].pc = "settle" /\ hs'[h].ret = "saveDone"
                   \/ /\ n.status # "FINISHED"
                      /\ hs'[h].pc \in {"save", "saveNext"} /\ hs'[h].ret = "idle"
  <2>1. match.round >= match.round
    BY DEF GoodState, Good, Match
  <2>2. CASE ~AllMoved(m(choice)) /\ Call(h, "save", m(choice), "idle")
    BY <1>10, <2>1, <2>2, CallFields DEF GoodState
  <2>3. CASE AllMoved(m(choice)) /\ Call(h, "settle", after(choice), "saveDone")
             /\ after(choice).status = "FINISHED"
    BY <1>11, <2>3, CallFields DEF GoodState
  <2>4. CASE AllMoved(m(choice)) /\ Call(h, "saveNext", after(choice), "idle")
             /\ after(choice).status # "FINISHED"
    BY <1>11, <2>4, CallFields DEF GoodState
  <2> QED
    BY <1>1, <2>2, <2>3, <2>4
<1>13. PlaceOK(hs[h])' /\ Pending(hs'[h])
  BY <1>12 DEF PlaceOK, CheckedPC, Pending, ResultPC
<1>14. PendingOK(hs[h])'
  BY <1>2, <1>3, <1>4, <1>12 DEF PendingOK, TakesOn, Counted, Accounted
<1>15. Accepts(h) \/ UNCHANGED <<match, paid, accepted>>
  BY <1>2 DEF Accepts
<1> QED
  BY <1>13, <1>14, <1>15 DEF CallOK, StepShape

-----------------------------------------------------------------------------
(* The invariant of calls that do not overlap *)

LEMMA InitSerial ==
  ASSUME MaxRestarts = 0
  PROVE  Init => SerialInv
<1> SUFFICES ASSUME Init PROVE SerialInv
  OBVIOUS
<1>1. match.round = 1 /\ match.status # "FINISHED" /\ paid = 0
  BY DEF Init, NewMatch
<1>2. \A u \in Users : accepted[u].round = 0
  BY DEF Init, NotAccepted
<1>3. Counted(match) /\ Accounted(match)
  BY <1>1, <1>2 DEF Counted, CountedBy, Accounted
<1>4. \A h \in Handlers : hs[h].pc = "idle"
  BY DEF Init, Idle
<1>5. \A h \in Handlers : CallOK(hs[h])
  BY <1>3, <1>4 DEF CallOK, PlaceOK, Pending, CheckedPC, ResultPC
<1> QED
  BY <1>5 DEF Init, SerialInv

\* A step with nobody else under way.
LEMMA NextShape ==
  ASSUME NEW h, Handlers = {h}, GoodState, SerialInv, [Next]_vars
  PROVE  SerialInv' /\ StepShape(h)
<1>1. h \in Handlers /\ CallOK(hs[h])
  BY DEF SerialInv
<1>2. SUFFICES CallOK(hs[h])' /\ StepShape(h) /\ restarts' = 0
  BY DEF SerialInv
<1>3. restarts' = 0
  BY DEF SerialInv, Next, vars, Step, SubmitMove, StartMatch, BotTick, CancelMatch, FireTimer,
     LockExpire, Near, SkipStart, Restart, SubmitSave, SubmitSaveNext, Settle, StartDone,
     TimerRead, TimerLock, TimerFresh, TimerUnlock, TimerSave, TimeoutRead, TimeoutCheck,
     TimeoutSave, ResolveRead, ResolveCheck, ResolveSave, ResolveBots, BotRead, BotSave,
     CancelSave, env
<1>4. CASE Step(h)
  BY <1>1, <1>3, <1>4, SubmitSaveSerial, SubmitSaveNextSerial, SettleSerial, StartDoneSerial,
     TimerReadSerial, TimerLockSerial, TimerFreshSerial, TimerUnlockSerial, TimerSaveSerial,
     TimeoutReadSerial, TimeoutCheckSerial, TimeoutSaveSerial,
     ResolveReadSerial, ResolveCheckSerial, ResolveSaveSerial, ResolveBotsSerial,
     BotReadSerial, BotSaveSerial, CancelSaveSerial
     DEF Step
<1>5. CASE \E u \in Movers, mv \in Submitted : SubmitMove(h, u, mv)
  BY <1>1, <1>3, <1>5, SubmitMoveSerial
<1>6. CASE StartMatch(h) \/ BotTick(h) \/ CancelMatch(h)
  BY <1>1, <1>3, <1>6, StartMatchSerial, BotTickSerial, CancelMatchSerial
<1>7. CASE \E t \in timers : FireTimer(h, t)
  BY <1>1, <1>3, <1>7, FireTimerSerial
<1>8. CASE UNCHANGED <<match, hs, paid, accepted>>
  BY <1>1, <1>3, <1>8, StaysOK DEF StepShape
<1>9. (\E r \in locks : LockExpire(r)) \/ (\E t \in ahead : Near(t)) \/ SkipStart \/ UNCHANGED vars
        => UNCHANGED <<match, hs, paid, accepted>>
  BY DEF LockExpire, Near, SkipStart, vars, acct
<1>10. ~Restart
  BY DEF Restart, SerialInv
<1> QED
  BY <1>4, <1>5, <1>6, <1>7, <1>8, <1>9, <1>10 DEF Next

LEMMA AlwaysSerial ==
  ASSUME NEW h, Handlers = {h}, MaxRestarts = 0
  PROVE  Spec => []SerialInv
<1>1. Init => SerialInv
  BY InitSerial
<1>2. GoodState /\ SerialInv /\ [Next]_vars => SerialInv'
  BY NextShape
<1> QED
  BY <1>1, <1>2, AlwaysGood, PTL DEF Spec

-----------------------------------------------------------------------------
(* Theorems about calls that do not overlap and are not cut short by a crash *)

LEMMA SerialMeans ==
  ASSUME NEW h, Handlers = {h}, GoodState, SerialInv
  PROVE  SettledAtMostOnce /\ SettledWhenFinished /\ AcceptedMoveCounts
<1>1. h \in Handlers /\ CallOK(hs[h])
  BY DEF SerialInv
<1>2. SettledAtMostOnce
  BY <1>1 DEF CallOK, PendingOK, Accounted, SettledAtMostOnce
<1>3. ASSUME Quiet PROVE Counted(match) /\ Accounted(match)
  BY <1>1, <1>3 DEF CallOK, Pending, CheckedPC, ResultPC, Quiet, Busy
<1>4. SettledWhenFinished
  BY <1>3 DEF SettledWhenFinished, Accounted
<1>5. AcceptedMoveCounts
  <2> SUFFICES ASSUME Quiet, Live(match), NEW u \in Users, accepted[u].round = match.round
               PROVE  match.moves[u] = accepted[u].move
    BY DEF AcceptedMoveCounts
  <2> QED
    BY <1>3 DEF Counted, CountedBy, Live, GoodState, Good, Match
<1> QED
  BY <1>2, <1>4, <1>5

\* The stakes are paid out once at most, whatever players, timers and bots do
\* and however often the match is cancelled: it takes two calls that overlap, or
\* a crash between the payment and the mark, to pay twice.
THEOREM SerialSettlesOnce ==
  ASSUME NEW h, Handlers = {h}, MaxRestarts = 0
  PROVE  Spec => []SettledAtMostOnce
BY AlwaysGood, AlwaysSerial, SerialMeans, PTL

\* A match that is over has been marked settled.
THEOREM SerialSettles ==
  ASSUME NEW h, Handlers = {h}, MaxRestarts = 0
  PROVE  Spec => []SettledWhenFinished
BY AlwaysGood, AlwaysSerial, SerialMeans, PTL

\* No accepted move is lost.
THEOREM SerialCountsMoves ==
  ASSUME NEW h, Handlers = {h}, MaxRestarts = 0
  PROVE  Spec => []AcceptedMoveCounts
BY AlwaysGood, AlwaysSerial, SerialMeans, PTL

\* A call that is about to write refers to the record it replaces.
LEMMA ShapeAdvances ==
  ASSUME NEW h \in Handlers, GoodState, CallOK(hs[h]), StepShape(h)
  PROVE  /\ match'.round >= match.round
         /\ match.elim \subseteq match'.elim
         /\ match.status = "FINISHED" =>
              match'.status = "FINISHED" /\ match'.winner = match.winner
<1>1. match \in Match /\ match.round >= match.round
  BY DEF GoodState, Good, Match
<1>2. CASE Writes(h)
  BY <1>2 DEF Writes, CallOK, PendingOK, TakesOn
<1>3. CASE Redates
  BY <1>1, <1>3 DEF Redates, Match
<1>4. CASE UNCHANGED match
  BY <1>1, <1>4
<1> QED
  BY <1>2, <1>3, <1>4 DEF StepShape, Pays, Accepts

\* The record never goes back: no round is played again, nobody is revived, and
\* the winner stays the winner.
THEOREM SerialNeverRollsBack ==
  ASSUME NEW h, Handlers = {h}, MaxRestarts = 0
  PROVE  Spec => NoRollback
<1>1. GoodState /\ SerialInv /\ [Next]_vars =>
        [/\ match'.round >= match.round
         /\ match.elim \subseteq match'.elim
         /\ match.status = "FINISHED" =>
              match'.status = "FINISHED" /\ match'.winner = match.winner]_vars
  BY NextShape, ShapeAdvances DEF SerialInv
<1> QED
  BY <1>1, AlwaysGood, AlwaysSerial, PTL DEF Spec, NoRollback

LEMMA ShapeAcceptsOnce ==
  ASSUME NEW h \in Handlers, GoodState, CallOK(hs[h]), StepShape(h)
  PROVE  \A u \in Users : accepted'[u] # accepted[u] => accepted'[u].round > accepted[u].round
<1>1. CASE UNCHANGED accepted
  BY <1>1
<1>2. CASE Accepts(h)
  <2>1. PICK u \in Movers, mv \in Submitted :
          /\ ~Refuses(u)
          /\ accepted' = [accepted EXCEPT ![u] = [round |-> match.round, move |-> mv]]
    BY <1>2 DEF Accepts
  <2>2. Counted(match) /\ u \in Users
    BY <1>2, PlayersAssumption DEF Accepts, CallOK
  <2>3. accepted[u].round < match.round
    BY <2>1, <2>2 DEF Refuses, Counted, CountedBy
  <2>4. accepted[u].round \in Nat /\ match.round \in Nat
    BY <2>2 DEF GoodState, Good, Match, CountersOK
  <2>5. /\ accepted'[u].round = match.round
        /\ \A w \in Users : w # u => accepted'[w] = accepted[w]
    BY <2>1, <2>2 DEF GoodState, CountersOK
  <2> QED
    BY <2>3, <2>4, <2>5
<1> QED
  BY <1>1, <1>2 DEF StepShape, Writes, Pays, Redates

\* submitMove accepts one move of a user per round.
THEOREM SerialAcceptsOnce ==
  ASSUME NEW h, Handlers = {h}, MaxRestarts = 0
  PROVE  Spec => NoDuplicateMove
<1>1. GoodState /\ SerialInv /\ [Next]_vars =>
        [\A u \in Users : accepted'[u] # accepted[u] => accepted'[u].round > accepted[u].round]_vars
  BY NextShape, ShapeAcceptsOnce DEF SerialInv
<1> QED
  BY <1>1, AlwaysGood, AlwaysSerial, PTL DEF Spec, NoDuplicateMove

-----------------------------------------------------------------------------
(* The match as its players see it *)

LEMMA GameInit == Init => Game!Init
<1> SUFFICES ASSUME Init PROVE Game!Init
  OBVIOUS
<1>1. /\ match.alive = Players /\ match.status # "FINISHED" /\ paid = 0
      /\ match.settled \in BOOLEAN
  BY DEF Init, NewMatch
<1> QED
  BY <1>1 DEF Game!Init

\* A write of a round's result eliminates players or decides the match, a
\* settlement pays, and everything else is not the players' business.
LEMMA ShapeIsGameStep ==
  ASSUME NEW h \in Handlers, GoodState, GoodState', CallOK(hs[h]), StepShape(h)
  PROVE  [Game!Next]_(Game!gameVars)
<1> USE DEF Game!gameVars
<1>1. match.settled \in BOOLEAN /\ match'.settled \in BOOLEAN
  BY DEF GoodState, Good, Match
<1>2. CASE UNCHANGED <<match, paid>>
  BY <1>2
<1>3. CASE Redates
  <2>1. /\ match'.alive = match.alive /\ match'.settled = match.settled
        /\ match'.status = match.status /\ UNCHANGED paid
    BY <1>3 DEF Redates, GoodState, Good, Match
  <2> QED
    BY <2>1
<1>4. CASE Pays(h)
  <2>1. match.status # "FINISHED" /\ paid = 0 /\ paid' = 1 /\ UNCHANGED match
    BY <1>4 DEF Pays, CallOK, PendingOK
  <2> QED
    BY <1>1, <1>4, <2>1 DEF Pays, Game!Next, Game!Pay
<1>5. CASE Writes(h)
  <2>1. /\ match.status # "FINISHED" /\ match.elim \subseteq match'.elim /\ UNCHANGED paid
        /\ IF match'.status = "FINISHED"
           THEN match'.settled /\ paid = IF match.settled THEN 0 ELSE 1
           ELSE match'.settled = match.settled /\ paid = 0
    BY <1>5 DEF Writes, CallOK, PendingOK, TakesOn
  <2>2. match'.alive \subseteq match.alive /\ match'.alive # {}
    BY <2>1 DEF GoodState, Good, RecordOK, Match
  <2>3. CASE match'.status = "FINISHED"
    <3>1. PICK p \in match.alive : match'.alive = {p}
      BY <2>2, <2>3 DEF GoodState, Good, RecordOK
    <3> QED
      BY <1>1, <2>1, <2>3, <3>1 DEF Game!Next, Game!Win
  <2>4. CASE match'.status # "FINISHED"
    <3>1. \E p, q \in match'.alive : p # q
      BY <2>2, <2>4 DEF GoodState, Good, RecordOK, Sole
    <3>2. match'.alive \in SUBSET match.alive
      BY <2>2
    <3>3. (~(match.settled /\ paid = 0))' = ~(match.settled /\ paid = 0)
      BY <2>1, <2>4
    <3> QED
      BY <2>1, <2>4, <3>1, <3>2, <3>3 DEF Game!Next, Game!Eliminate
  <2> QED
    BY <2>3, <2>4
<1> QED
  BY <1>2, <1>3, <1>4, <1>5 DEF StepShape, Accepts

\* Calls that do not overlap implement MatchGame: for the players the match is a
\* sequence of eliminations, one payment if there are stakes, and a winner.
THEOREM SerialImplementsGame ==
  ASSUME NEW h, Handlers = {h}, MaxRestarts = 0
  PROVE  Spec => ImplementsGame
<1>1. GoodState /\ GoodState' /\ SerialInv /\ [Next]_vars => [Game!Next]_(Game!gameVars)
  BY NextShape, ShapeIsGameStep DEF SerialInv
<1> QED
  BY <1>1, GameInit, AlwaysGood, AlwaysSerial, PTL DEF Spec, ImplementsGame, Game!Spec

-----------------------------------------------------------------------------
(* Calls that do not overlap leave no match stranded *)

\* The timers of a match: of its rounds so far, one per deadline.  One that is
\* near finds the match begun and the lock of its round free again.
TimersOK ==
  /\ ahead \subseteq timers
  /\ \A t \in timers : t.round <= match.round
  /\ \A t \in timers \ ahead : starts = {} /\ (t.round = match.round => match.round \notin locks)
  /\ \A r \in locks : r <= match.round
  /\ \A t \in timers : t.deadline = match.deadline /\ ~BotsOnly(match) => t.round = match.round
  /\ \A s, t \in timers : s.deadline = t.deadline => s = t

\* What moves the match on when no call does (see NeverStranded).
Waits == IF BotsOnly(match) THEN botLoops > 0 ELSE starts # {} \/ TimerRuns(match)

\* Whoever finds the lock of the round taken may leave: its timer runs.
LockRuns == ~BotsOnly(match) /\ match.round \in locks => TimerRuns(match)

Rests == Waits /\ LockRuns /\ ~AllMoved(match)

NoTimerOf(m) == \A t \in timers : t.deadline # m.deadline
NoTimerYet   == \A t \in timers : t.round < match.round

SameRoundAs(m) == m.round = match.round /\ m.deadline = match.deadline

TimerPlace == {"timerRead", "timerLock", "timerFresh", "timerUnlock", "timerSave"}

\* What a call on a match that is not over will leave for it to wait for: a
\* loop or a timer that exists, or one that the call is about to start.
Served(x) ==
  /\ x.pc \in {"idle", "startDone"} => Rests
  /\ x.pc \in {"save", "cancelSave"} =>
       Rests /\ SameRoundAs(x.m) /\ x.m.alive = match.alive /\ ~AllMoved(x.m)
  /\ x.pc = "saveNext" =>
       x.m.round > match.round /\ x.m.deadline = NoDeadline /\ ~AllMoved(x.m)
  /\ x.pc = "resBots" => ~AllMoved(match) /\ (BotsOnly(match) \/ TimerRuns(match))
  /\ x.pc \in TimerPlace => ~AllMoved(match)
  /\ x.pc \in TimerPlace \ {"timerRead"} => ~BotsOnly(match)
  /\ x.pc \in TimerPlace /\ x.ret = "startDone" =>
       /\ timers \subseteq ahead
       /\ BotsOnly(match) => botLoops > 0
       /\ x.pc \in {"timerRead", "timerLock"} => LockRuns
  /\ x.pc \in TimerPlace /\ x.ret # "startDone" =>
       /\ NoTimerYet /\ NoTimerOf(match)
       /\ x.ret = "idle" => ~BotsOnly(match)
       /\ x.pc \in {"timerRead", "timerLock"} => match.round \notin locks
       /\ x.pc # "timerUnlock"
  /\ x.pc = "timerUnlock" => TimerRuns(match)
  /\ x.pc = "toRead" => ~AllMoved(match) /\ NoTimerOf(match)
  /\ x.pc \in {"toCheck", "toSave"} => AllMoved(x.m) /\ SameRoundAs(x.m) /\ NoTimerOf(x.m)
  /\ x.pc = "resRead" => AllMoved(match) /\ SameRoundAs(x.m) /\ NoTimerOf(match)
  /\ x.pc \in {"resCheck", "resSave"} /\ x.m.status # "FINISHED" =>
       x.m.round > match.round /\ NoTimerOf(x.m) /\ ~AllMoved(x.m)
  /\ x.pc = "botRead" => BotsOnly(match) /\ ~AllMoved(match)
  /\ x.pc = "botSave" /\ x.m.status # "FINISHED" => BotsOnly(x.m) /\ ~AllMoved(x.m)

FinalPC == {"settle", "saveDone", "resCheck", "resSave", "botSave"}

\* The last round's result is of the round that is played.
ServedCall(x) ==
  /\ x.pc = "idle" => x.ret = "idle"
  /\ x.pc \in FinalPC /\ x.m.status = "FINISHED" => SameRoundAs(x.m)
  /\ match.status # "FINISHED" => Served(x)

ServedInv == TimersOK /\ starts \subseteq {"service", "gateway"} /\ \A h \in Handlers : ServedCall(hs[h])

LEMMA AfterRoundServed ==
  ASSUME NEW m, Good(m), m.status # "FINISHED", AllMoved(m)
  PROVE  LET n == AfterRound(m)
         IN  /\ n.deadline = m.deadline
             /\ IF n.status = "FINISHED" THEN n.round = m.round
                ELSE n.round > m.round /\ ~AllMoved(n)
<1> DEFINE n == AfterRound(m)
<1>1. m \in Match
  BY DEF Good
<1>2. n.deadline = m.deadline /\ n.moves = NoMoves
  BY <1>1 DEF AfterRound, Match
<1>3. n.round = IF n.status = "FINISHED" THEN m.round ELSE m.round + 1
  BY <1>1 DEF AfterRound, Match
<1>4. n.alive # {} /\ n.alive \subseteq Players
  BY AfterRoundGood DEF Good, Match, RecordOK
<1>5. m.round \in Nat
  BY <1>1 DEF Match
<1> HIDE DEF n
<1>6. ~AllMoved(n)
  BY <1>2, <1>4 DEF AllMoved, NoMoves
<1> QED
  BY <1>2, <1>3, <1>5, <1>6 DEF n

\* Timers and records around a write of a copy.
LEMMA TimersWritten ==
  ASSUME GoodState, Good(match)', TimersOK, UNCHANGED <<timers, ahead, locks, starts>>,
         match'.round >= match.round,
         \/ NoTimerOf(match')
         \/ BotsOnly(match')
         \/ SameRoundAs(match') /\ match'.alive \subseteq match.alive
  PROVE  TimersOK'
<1>1. \A t \in timers : t.round \in Nat
  BY DEF GoodState, CountersOK, Timer
<1>2. match.round \in Nat /\ match'.round \in Nat
  BY DEF GoodState, Good, Match
<1>3. \A r \in locks : r \in Nat
  BY DEF GoodState, CountersOK
<1>4. \A t \in timers : t.deadline = match'.deadline /\ ~BotsOnly(match') => t.round = match'.round
  BY DEF TimersOK, NoTimerOf, SameRoundAs, BotsOnly
<1>5. \A t \in timers : t.round = match'.round => t.round = match.round
  BY <1>1, <1>2 DEF TimersOK
<1>6. ASSUME NEW t \in timers \ ahead, t.round = match'.round PROVE match'.round \notin locks
  BY <1>5, <1>6 DEF TimersOK
<1>7. \A r \in locks : r <= match'.round
  BY <1>2, <1>3 DEF TimersOK
<1>8. \A t \in timers : t.round <= match'.round
  BY <1>1, <1>2 DEF TimersOK
<1> QED
  BY <1>4, <1>6, <1>7, <1>8 DEF TimersOK

LEMMA TimersKept ==
  ASSUME TimersOK, UNCHANGED <<match, timers, ahead, locks, starts>>
  PROVE  TimersOK'
BY DEF TimersOK

\* The copy in a handler is no older than the record and its alive are alive.
LEMMA CopyFacts ==
  ASSUME GoodState, NEW h \in Handlers, CallOK(hs[h]), Pending(hs[h])
  PROVE  /\ hs[h].m.round >= match.round /\ match.status # "FINISHED"
         /\ hs[h].m.alive \subseteq match.alive
         /\ Good(hs[h].m)
<1>1. Good(hs[h].m)
  BY CopyGood DEF GoodState
<1> QED
  BY <1>1 DEF CallOK, PendingOK, TakesOn, GoodState, Good, RecordOK, Match

\* A record that a call leaves as it was, with the botLoops it had, rests.
LEMMA RestsKept ==
  ASSUME Rests, UNCHANGED <<match, timers, locks, starts, botLoops>>
  PROVE  Rests'
BY DEF Rests, Waits, LockRuns, TimerRuns

LEMMA DoneServed ==
  ASSUME HandlersGood, NEW h \in Handlers, Done(h), match'.status # "FINISHED" => Rests'
  PROVE  ServedCall(hs[h])'
<1>1. hs'[h].pc = "idle" /\ hs'[h].ret = "idle"
  BY DEF Done, Idle, HandlersGood
<1> QED
  BY <1>1 DEF ServedCall, Served, FinalPC, TimerPlace

LEMMA SubmitSaveServed ==
  ASSUME GoodState, GoodState', TimersOK, NEW h \in Handlers, CallOK(hs[h]), ServedCall(hs[h]),
         SubmitSave(h)
  PROVE  TimersOK' /\ ServedCall(hs[h])'
<1> DEFINE c == hs[h].m
<1>1. /\ match' = c /\ Done(h) /\ hs[h].pc \in {"save", "saveDone"}
      /\ UNCHANGED <<timers, ahead, locks, starts, botLoops>>
  BY DEF SubmitSave, env
<1>2. Pending(hs[h])
  BY <1>1 DEF Pending, ResultPC
<1>3. c.round >= match.round /\ match.status # "FINISHED" /\ c.alive \subseteq match.alive
  BY <1>2, CopyFacts
<1>4. SameRoundAs(c)
  BY <1>1, <1>3 DEF ServedCall, Served, FinalPC, CallOK, PlaceOK
<1>5. TimersOK'
  BY <1>1, <1>3, <1>4, TimersWritten DEF GoodState
<1>6. CASE hs[h].pc = "save"
  <2>1. Rests /\ c.alive = match.alive /\ ~AllMoved(c)
    BY <1>3, <1>6 DEF ServedCall, Served
  <2>2. Rests'
    BY <1>1, <1>4, <2>1 DEF Rests, Waits, LockRuns, TimerRuns, SameRoundAs, BotsOnly
  <2> QED
    BY <1>1, <1>5, <2>2, DoneServed DEF GoodState
<1>7. CASE hs[h].pc = "saveDone"
  <2>1. match'.status = "FINISHED"
    BY <1>1, <1>7 DEF CallOK, PlaceOK
  <2> QED
    BY <1>1, <1>5, <2>1, DoneServed DEF GoodState
<1> QED
  BY <1>1, <1>6, <1>7

LEMMA SubmitSaveNextServed ==
  ASSUME GoodState, GoodState', TimersOK, NEW h \in Handlers, CallOK(hs[h]), ServedCall(hs[h]),
         SubmitSaveNext(h)
  PROVE  TimersOK' /\ ServedCall(hs[h])'
<1> DEFINE c == hs[h].m
<1>1. match' = c /\ hs[h].pc = "saveNext" /\ UNCHANGED <<timers, ahead, locks, starts>>
  BY DEF SubmitSaveNext
<1>2. Pending(hs[h])
  BY <1>1 DEF Pending, ResultPC
<1>3. c.round >= match.round /\ match.status # "FINISHED"
  BY <1>2, CopyFacts
<1>4. c.round > match.round /\ c.deadline = NoDeadline /\ ~AllMoved(c) /\ hs[h].ret = "idle"
  BY <1>1, <1>3 DEF ServedCall, Served, CallOK, PlaceOK
<1>5. NoTimerOf(c)
  BY <1>4, PlayersAssumption DEF NoTimerOf, GoodState, CountersOK, Timer
<1>6. NoTimerOf(match')
  BY <1>1, <1>5
<1>7. TimersOK'
  BY <1>1, <1>3, <1>6, TimersWritten DEF GoodState
<1>8. match'.round \notin locks /\ \A t \in timers : t.round < match'.round
  BY <1>1, <1>4 DEF TimersOK, GoodState, Good, Match, CountersOK, Timer
<1>9. CASE BotsOnly(c)
  <2>1. Done(h) /\ botLoops' > 0
    BY <1>9, BoundsAssumption DEF SubmitSaveNext, MoreLoops, GoodState, CountersOK
  <2>2. Rests'
    BY <1>1, <1>4, <1>9, <2>1 DEF Rests, Waits, LockRuns, BotsOnly, AllMoved
  <2> QED
    BY <1>7, <2>1, <2>2, DoneServed DEF GoodState
<1>10. CASE ~BotsOnly(c)
  <2>1. hs'[h].pc = "timerRead" /\ hs'[h].ret = "idle"
    BY <1>4, <1>10, ToFields DEF SubmitSaveNext, GoodState
  <2>2. NoTimerYet' /\ NoTimerOf(match)' /\ ~AllMoved(match)' /\ ~BotsOnly(match)'
    BY <1>1, <1>4, <1>6, <1>8, <1>10 DEF NoTimerYet, NoTimerOf, AllMoved, BotsOnly
  <2>3. match'.round \notin locks'
    BY <1>1, <1>8
  <2> QED
    BY <1>7, <2>1, <2>2, <2>3 DEF ServedCall, Served, FinalPC, TimerPlace
<1> QED
  BY <1>9, <1>10

LEMMA SettleServed ==
  ASSUME GoodState, GoodState', TimersOK, NEW h \in Handlers, CallOK(hs[h]), ServedCall(hs[h]),
         Settle(h)
  PROVE  TimersOK' /\ ServedCall(hs[h])'
<1> DEFINE c == hs[h].m
<1>1. /\ UNCHANGED <<match, timers, ahead, locks, starts, botLoops>>
      /\ hs[h].pc = "settle" /\ c.status = "FINISHED"
      /\ hs[h].ret \in {"idle", "saveDone", "resCheck", "botSave"}
      /\ hs[h].ret = "idle" => match.status = "FINISHED"
  BY DEF Settle, env, CallOK, PlaceOK
<1>2. TimersOK'
  BY <1>1, TimersKept
<1>3. SameRoundAs(c)
  BY <1>1 DEF ServedCall, FinalPC
<1>4. PICK n : /\ Return(h, n)
               /\ n.status = c.status /\ n.round = c.round /\ n.deadline = c.deadline
  <2> DEFINE s == MarkedSettled(c)
  <2>1. c \in Match
    BY CopyGood DEF GoodState, Good
  <2>2. s.status = c.status /\ s.round = c.round /\ s.deadline = c.deadline
    BY <2>1 DEF MarkedSettled, Match
  <2> HIDE DEF s
  <2>3. Return(h, c) \/ Return(h, s)
    BY DEF Settle, s
  <2> QED
    BY <2>2, <2>3
<1>5. CASE hs[h].ret = "idle"
  <2>1. Done(h) /\ match'.status = "FINISHED"
    BY <1>1, <1>4, <1>5 DEF Return
  <2> QED
    BY <1>2, <2>1, DoneServed DEF GoodState
<1>6. CASE hs[h].ret # "idle"
  <2>1. hs'[h].pc = hs[h].ret /\ hs'[h].m = n
    BY <1>4, <1>6, ToFields DEF Return, GoodState
  <2>2. SameRoundAs(n)'
    BY <1>1, <1>3, <1>4 DEF SameRoundAs
  <2> QED
    BY <1>1, <1>2, <1>4, <1>6, <2>1, <2>2 DEF ServedCall, Served, FinalPC, TimerPlace
<1> QED
  BY <1>5, <1>6

LEMMA StartMatchServed ==
  ASSUME GoodState, GoodState', TimersOK, NEW h, Handlers = {h}, CallOK(hs[h]), ServedCall(hs[h]),
         StartMatch(h)
  PROVE  TimersOK' /\ ServedCall(hs[h])'
<1>1. /\ UNCHANGED <<match, timers, ahead, locks, botLoops>>
      /\ hs[h].pc = "idle" /\ hs[h].ret = "idle" /\ starts # {}
  BY DEF StartMatch, ServedCall
<1>2. timers \subseteq ahead
  BY <1>1 DEF TimersOK, GoodState, CountersOK
<1>3. TimersOK'
  BY <1>1, <1>2 DEF TimersOK
<1>4. Call(h, "timerRead", hs[h].m, "startDone")
  BY <1>1 DEF StartMatch, StartLocked
<1>5. hs'[h].pc = "timerRead" /\ hs'[h].ret = "startDone"
  BY <1>4, CallFields DEF GoodState
<1>6. CASE match.status = "FINISHED"
  BY <1>1, <1>3, <1>5, <1>6 DEF ServedCall, FinalPC
<1>7. CASE match.status # "FINISHED"
  <2>1. Rests
    BY <1>1, <1>7 DEF ServedCall, Served
  <2>2. /\ ~AllMoved(match)' /\ LockRuns' /\ (timers \subseteq ahead)'
        /\ (BotsOnly(match) => botLoops > 0)'
    BY <1>1, <1>2, <2>1 DEF Rests, Waits, LockRuns, TimerRuns, AllMoved, BotsOnly
  <2> QED
    BY <1>3, <1>5, <2>2 DEF ServedCall, Served, FinalPC, TimerPlace
<1> QED
  BY <1>6, <1>7

LEMMA StartDoneServed ==
  ASSUME GoodState, GoodState', TimersOK, NEW h \in Handlers, CallOK(hs[h]), ServedCall(hs[h]),
         StartDone(h)
  PROVE  TimersOK' /\ ServedCall(hs[h])'
<1>1. UNCHANGED <<match, timers, ahead, locks, starts>> /\ hs[h].pc = "startDone" /\ Done(h)
  BY DEF StartDone
<1>2. botLoops > 0 => botLoops' > 0
  BY BoundsAssumption DEF StartDone, MoreLoops, GoodState, CountersOK
<1>3. match.status # "FINISHED" => Rests
  BY <1>1 DEF ServedCall, Served
<1>4. match'.status # "FINISHED" => Rests'
  BY <1>1, <1>2, <1>3 DEF Rests, Waits, LockRuns, TimerRuns, AllMoved, BotsOnly
<1> QED
  BY <1>1, <1>4, TimersKept, DoneServed DEF GoodState

\* startMoveTimer leaves a match with what it found, or with its timer.
LEMMA TimerReturnServed ==
  ASSUME GoodState, NEW h \in Handlers, CallOK(hs[h]), hs[h].pc \in TimerPlace,
         NEW m, Return(h, m),
         match'.status # "FINISHED" =>
           /\ ~AllMoved(match') /\ LockRuns'
           /\ BotsOnly(match') \/ TimerRuns(match)'
           /\ BotsOnly(match') => botLoops' > 0 \/ hs[h].ret = "resBots"
  PROVE  ServedCall(hs[h])'
<1>1. hs[h].ret \in {"idle", "startDone", "resBots"}
  BY DEF CallOK, PlaceOK, TimerPlace
<1>2. hs'[h].pc = hs[h].ret /\ (hs[h].ret = "idle" => hs'[h].ret = "idle")
  BY <1>1, ToFields, DoneFields DEF Return, GoodState
<1>3. match'.status # "FINISHED" /\ hs[h].ret # "resBots" => Rests'
  BY DEF Rests, Waits, AllMoved, BotsOnly
<1>4. match'.status # "FINISHED" => ~AllMoved(match)' /\ (BotsOnly(match)' \/ TimerRuns(match)')
  BY DEF AllMoved, BotsOnly
<1> QED
  BY <1>1, <1>2, <1>3, <1>4 DEF ServedCall, Served, FinalPC, TimerPlace

LEMMA TimerReadServed ==
  ASSUME GoodState, GoodState', TimersOK, NEW h \in Handlers, CallOK(hs[h]), ServedCall(hs[h]),
         TimerRead(h)
  PROVE  TimersOK' /\ ServedCall(hs[h])'
<1>1. UNCHANGED <<match, timers, ahead, locks, starts, botLoops>> /\ hs[h].pc = "timerRead"
  BY DEF TimerRead, env
<1>2. TimersOK'
  BY <1>1, TimersKept
<1>3. hs[h].ret \in {"idle", "startDone", "resBots"}
  BY <1>1 DEF CallOK, PlaceOK
<1>4. match.status # "FINISHED" => Served(hs[h])
  BY DEF ServedCall
<1>5. CASE match.status = "FINISHED" \/ BotsOnly(match)
  <2>1. Return(h, hs[h].m)
    BY <1>5 DEF TimerRead
  <2>2. ASSUME match.status # "FINISHED"
        PROVE  ~AllMoved(match) /\ BotsOnly(match) /\ (botLoops > 0 \/ hs[h].ret = "resBots")
    BY <1>1, <1>3, <1>4, <1>5, <2>2 DEF Served, TimerPlace
  <2>3. match'.status # "FINISHED" =>
           /\ ~AllMoved(match') /\ LockRuns' /\ BotsOnly(match')
           /\ botLoops' > 0 \/ hs[h].ret = "resBots"
    BY <1>1, <2>2 DEF LockRuns
  <2>4. hs[h].pc \in TimerPlace
    BY <1>1 DEF TimerPlace
  <2> QED
    BY <1>2, <2>1, <2>3, <2>4, TimerReturnServed
<1>6. CASE match.status # "FINISHED" /\ ~BotsOnly(match)
  <2>1. hs'[h].pc = "timerLock" /\ hs'[h].ret = hs[h].ret
    BY <1>6, ToFields DEF TimerRead, GoodState
  <2>2. /\ ~AllMoved(match)' /\ ~BotsOnly(match)'
        /\ hs[h].ret = "startDone" => (timers \subseteq ahead)' /\ LockRuns'
        /\ hs[h].ret # "startDone" =>
             NoTimerYet' /\ NoTimerOf(match)' /\ (match.round \notin locks)'
    BY <1>1, <1>4, <1>6
       DEF Served, TimerPlace, LockRuns, TimerRuns, AllMoved, BotsOnly, NoTimerYet, NoTimerOf
  <2> QED
    BY <1>2, <2>1, <2>2 DEF ServedCall, Served, FinalPC, TimerPlace
<1> QED
  BY <1>5, <1>6

LEMMA TimerLockServed ==
  ASSUME GoodState, GoodState', TimersOK, NEW h \in Handlers, CallOK(hs[h]), ServedCall(hs[h]),
         TimerLock(h)
  PROVE  TimersOK' /\ ServedCall(hs[h])'
<1>1. /\ UNCHANGED <<match, timers, ahead, starts, botLoops>> /\ hs[h].pc = "timerLock"
      /\ hs[h].m = match /\ hs[h].ret \in {"idle", "startDone", "resBots"}
      /\ locks' = locks \cup {match.round} /\ match.status # "FINISHED"
  BY CopyFacts DEF TimerLock, CallOK, PlaceOK, CheckedPC, Pending
<1>2. ~AllMoved(match) /\ ~BotsOnly(match) /\ Served(hs[h])
  BY <1>1 DEF ServedCall, Served, TimerPlace
<1>3. CASE TimerLockHeld(h)
  <2>1. match.round \in locks /\ Return(h, hs[h].m) /\ locks' = locks
    BY <1>1, <1>3 DEF TimerLockHeld, TimerLock
  <2>2. TimerRuns(match)
    BY <1>1, <1>2, <2>1 DEF Served, TimerPlace, LockRuns
  <2>3. TimerRuns(match)' /\ ~AllMoved(match') /\ ~BotsOnly(match')
    BY <1>1, <1>2, <2>2 DEF TimerRuns
  <2>4. hs[h].pc \in TimerPlace /\ LockRuns'
    BY <1>1, <2>3 DEF TimerPlace, LockRuns
  <2> QED
    BY <1>1, <2>1, <2>3, <2>4, TimersKept, TimerReturnServed
<1>4. CASE ~TimerLockHeld(h)
  <2>1. hs'[h].pc = "timerFresh" /\ hs'[h].ret = hs[h].ret
    BY <1>4, ToFields DEF TimerLock, GoodState
  <2>2. \A t \in timers \ ahead : t.round # match.round
    BY <1>1, <1>2 DEF Served, TimerPlace, NoTimerYet, GoodState, CountersOK, Timer, Good, Match
  <2>3. match.round <= match.round
    BY DEF GoodState, Good, Match
  <2>4. TimersOK'
    BY <1>1, <2>2, <2>3 DEF TimersOK, BotsOnly
  <2>5. /\ ~AllMoved(match)' /\ ~BotsOnly(match)'
        /\ hs[h].ret = "startDone" => (timers \subseteq ahead)'
        /\ hs[h].ret # "startDone" => NoTimerYet' /\ NoTimerOf(match)'
    BY <1>1, <1>2 DEF Served, TimerPlace, AllMoved, BotsOnly, NoTimerYet, NoTimerOf
  <2> QED
    BY <1>1, <2>1, <2>4, <2>5 DEF ServedCall, Served, FinalPC, TimerPlace
<1> QED
  BY <1>3, <1>4

LEMMA TimerFreshServed ==
  ASSUME GoodState, GoodState', TimersOK, NEW h \in Handlers, CallOK(hs[h]), ServedCall(hs[h]),
         TimerFresh(h)
  PROVE  TimersOK' /\ ServedCall(hs[h])'
<1>1. /\ UNCHANGED <<match, timers, ahead, locks, starts, botLoops>> /\ hs[h].pc = "timerFresh"
      /\ match.status # "FINISHED" /\ hs[h].ret \in {"idle", "startDone", "resBots"}
  BY CopyFacts DEF TimerFresh, env, CallOK, PlaceOK, CheckedPC, Pending
<1>2. ~AllMoved(match) /\ ~BotsOnly(match) /\ Served(hs[h])
  BY <1>1 DEF ServedCall, Served, TimerPlace
<1>3. /\ ~AllMoved(match)' /\ ~BotsOnly(match)'
      /\ hs[h].ret = "startDone" => (timers \subseteq ahead)'
      /\ hs[h].ret # "startDone" => NoTimerYet' /\ NoTimerOf(match)'
  BY <1>1, <1>2 DEF Served, TimerPlace, AllMoved, BotsOnly, NoTimerYet, NoTimerOf
<1>4. CASE \E t \in ahead : t.deadline = match.deadline
  <2>1. PICK t \in ahead : t.deadline = match.deadline
    BY <1>4
  <2>2. t \in timers /\ t.round = match.round
    BY <1>2, <2>1 DEF TimersOK
  <2>3. TimerRuns(match)'
    BY <1>1, <2>1, <2>2 DEF TimerRuns
  <2>4. hs[h].ret = "startDone"
    BY <1>1, <1>2, <2>1, <2>2 DEF Served, TimerPlace, NoTimerOf
  <2>5. hs'[h].pc = "timerUnlock" /\ hs'[h].ret = hs[h].ret
    BY <1>4, ToFields DEF TimerFresh, GoodState
  <2> QED
    BY <1>1, <1>3, <2>3, <2>4, <2>5, TimersKept DEF ServedCall, Served, FinalPC, TimerPlace
<1>5. CASE ~\E t \in ahead : t.deadline = match.deadline
  <2>1. hs'[h].pc = "timerSave" /\ hs'[h].ret = hs[h].ret
    BY <1>5, ToFields DEF TimerFresh, GoodState
  <2> QED
    BY <1>1, <1>3, <2>1, TimersKept DEF ServedCall, Served, FinalPC, TimerPlace
<1> QED
  BY <1>4, <1>5

LEMMA TimerUnlockServed ==
  ASSUME GoodState, GoodState', TimersOK, NEW h \in Handlers, CallOK(hs[h]), ServedCall(hs[h]),
         TimerUnlock(h)
  PROVE  TimersOK' /\ ServedCall(hs[h])'
<1>1. /\ UNCHANGED <<match, timers, ahead, starts, botLoops>> /\ hs[h].pc = "timerUnlock"
      /\ locks' \subseteq locks /\ match.status # "FINISHED" /\ Return(h, hs[h].m)
  BY CopyFacts DEF TimerUnlock, CallOK, CheckedPC, Pending
<1>2. ~AllMoved(match) /\ ~BotsOnly(match) /\ TimerRuns(match)
  BY <1>1 DEF ServedCall, Served, TimerPlace
<1>3. TimersOK'
  BY <1>1 DEF TimersOK, BotsOnly
<1>4. TimerRuns(match)' /\ ~AllMoved(match') /\ ~BotsOnly(match')
  BY <1>1, <1>2 DEF TimerRuns
<1>5. hs[h].pc \in TimerPlace /\ LockRuns'
  BY <1>1, <1>4 DEF TimerPlace, LockRuns
<1> QED
  BY <1>1, <1>3, <1>4, <1>5, TimerReturnServed

LEMMA TimerSaveServed ==
  ASSUME GoodState, GoodState', TimersOK, NEW h \in Handlers, CallOK(hs[h]), ServedCall(hs[h]),
         TimerSave(h)
  PROVE  TimersOK' /\ ServedCall(hs[h])'
<1>1. /\ UNCHANGED <<locks, starts, botLoops>> /\ hs[h].pc = "timerSave"
      /\ hs[h].m = match /\ match.status # "FINISHED" /\ Return(h, hs[h].m)
  BY CopyFacts DEF TimerSave, CallOK, PlaceOK, CheckedPC, Pending
<1>2. PICK d \in UnusedDeadlines :
        /\ match' = [match EXCEPT !.deadline = d]
        /\ timers' = timers \cup {[deadline |-> d, round |-> match.round]}
        /\ ahead' = ahead \cup {[deadline |-> d, round |-> match.round]}
  BY <1>1 DEF TimerSave
<1> DEFINE n == [deadline |-> d, round |-> match.round]
<1>3. /\ match'.round = match.round /\ match'.alive = match.alive /\ match'.moves = match.moves
      /\ match'.deadline = d /\ match'.status = match.status
  BY <1>2 DEF GoodState, Good, Match
<1>4. \A t \in timers : t.deadline # d
  BY DEF UnusedDeadlines
<1>5. ~AllMoved(match) /\ ~BotsOnly(match)
  BY <1>1 DEF ServedCall, Served, TimerPlace
<1>6. n.deadline = d /\ n.round = match.round /\ match.round <= match.round
  BY DEF GoodState, Good, Match
<1> HIDE DEF n
<1>7. timers' = timers \cup {n} /\ ahead' = ahead \cup {n}
  BY <1>2 DEF n
<1>8. TimersOK'
  BY <1>1, <1>3, <1>4, <1>6, <1>7 DEF TimersOK
<1>9. TimerRuns(match)' /\ ~AllMoved(match') /\ ~BotsOnly(match')
  BY <1>3, <1>5, <1>6, <1>7 DEF TimerRuns, AllMoved, BotsOnly
<1>10. hs[h].pc \in TimerPlace /\ LockRuns'
  BY <1>1, <1>9 DEF TimerPlace, LockRuns
<1> QED
  BY <1>1, <1>8, <1>9, <1>10, TimerReturnServed

LEMMA FireTimerServed ==
  ASSUME GoodState, GoodState', TimersOK, NEW h \in Handlers, CallOK(hs[h]), ServedCall(hs[h]),
         NEW t \in timers, FireTimer(h, t)
  PROVE  TimersOK' /\ ServedCall(hs[h])'
<1>1. /\ UNCHANGED <<match, ahead, locks, starts, botLoops>> /\ hs[h].pc = "idle"
      /\ t \notin ahead /\ timers' = timers \ {t}
  BY DEF FireTimer
<1>2. TimersOK'
  BY <1>1 DEF TimersOK, BotsOnly
<1>3. match.status # "FINISHED" => Rests
  BY <1>1 DEF ServedCall, Served
<1>4. CASE /\ match.status # "FINISHED" /\ match.round = t.round
           /\ match.deadline \in {t.deadline, NoDeadline}
  <2>1. hs'[h].pc = "toRead"
    BY <1>4, CallFields DEF FireTimer, GoodState
  <2>2. \A s \in timers : s.deadline # NoDeadline
    BY PlayersAssumption DEF GoodState, CountersOK, Timer
  <2>3. NoTimerOf(match)'
    BY <1>1, <1>4, <2>2 DEF NoTimerOf, TimersOK
  <2>4. ~AllMoved(match)'
    BY <1>1, <1>3, <1>4 DEF Rests, AllMoved
  <2> QED
    BY <1>2, <2>1, <2>3, <2>4 DEF ServedCall, Served, FinalPC, TimerPlace
<1>5. CASE ~(/\ match.status # "FINISHED" /\ match.round = t.round
             /\ match.deadline \in {t.deadline, NoDeadline})
  <2>1. UNCHANGED hs
    BY <1>5 DEF FireTimer
  <2>2. match.status # "FINISHED" /\ TimerRuns(match) => TimerRuns(match)'
    BY <1>1, <1>5 DEF TimerRuns
  <2>3. match'.status # "FINISHED" => Rests'
    BY <1>1, <1>3, <2>2 DEF Rests, Waits, LockRuns, AllMoved, BotsOnly
  <2> QED
    BY <1>1, <1>2, <2>1, <2>3 DEF ServedCall, Served, FinalPC, TimerPlace
<1> QED
  BY <1>4, <1>5

LEMMA TimeoutReadServed ==
  ASSUME GoodState, GoodState', TimersOK, NEW h \in Handlers, CallOK(hs[h]), ServedCall(hs[h]),
         TimeoutRead(h)
  PROVE  TimersOK' /\ ServedCall(hs[h])'
<1>1. /\ UNCHANGED <<match, timers, ahead, locks, starts, botLoops>> /\ hs[h].pc = "toRead"
      /\ match.status # "FINISHED" /\ hs[h].m = match
  BY CopyFacts DEF TimeoutRead, env, CallOK, PlaceOK, CheckedPC, Pending
<1>2. ~AllMoved(match) /\ NoTimerOf(match)
  BY <1>1 DEF ServedCall, Served
<1>3. PICK choice \in [Players -> Choices] :
        To(h, "toCheck", Filled(match, match.alive, choice))
  BY <1>1, <1>2 DEF TimeoutRead, SameRound
<1> DEFINE n == Filled(match, match.alive, choice)
<1>4. match \in Match /\ match.alive \subseteq Players
  BY DEF GoodState, Good, Match
<1>5. n.round = match.round /\ n.deadline = match.deadline /\ n.alive = match.alive
  BY <1>4 DEF Filled, Match
<1>6. \A p \in match.alive : n.moves[p] # NoMove
  BY <1>4, PlayersAssumption DEF Filled, Match, Moves, NoMove
<1> HIDE DEF n
<1>7. AllMoved(n) /\ SameRoundAs(n) /\ NoTimerOf(n)
  BY <1>2, <1>5, <1>6 DEF AllMoved, SameRoundAs, NoTimerOf
<1>8. PICK c : c = n /\ hs'[h].pc = "toCheck" /\ hs'[h].m = c
  BY <1>3, ToFields DEF GoodState, n
<1>9. AllMoved(c) /\ SameRoundAs(c)' /\ NoTimerOf(c)'
  BY <1>1, <1>7, <1>8 DEF SameRoundAs, NoTimerOf
<1> QED
  BY <1>1, <1>8, <1>9, TimersKept
     DEF ServedCall, Served, FinalPC, TimerPlace, AllMoved, SameRoundAs, NoTimerOf

LEMMA TimeoutCheckServed ==
  ASSUME GoodState, GoodState', TimersOK, NEW h \in Handlers, CallOK(hs[h]), ServedCall(hs[h]),
         TimeoutCheck(h)
  PROVE  TimersOK' /\ ServedCall(hs[h])'
<1>1. /\ UNCHANGED <<match, timers, ahead, locks, starts, botLoops>> /\ hs[h].pc = "toCheck"
      /\ match.status # "FINISHED"
  BY CopyFacts DEF TimeoutCheck, env, Pending, ResultPC
<1>2. AllMoved(hs[h].m) /\ SameRoundAs(hs[h].m) /\ NoTimerOf(hs[h].m)
  BY <1>1 DEF ServedCall, Served
<1>3. hs'[h].pc = "toSave" /\ hs'[h].m = hs[h].m
  BY <1>2, ToFields DEF TimeoutCheck, SameRoundAs, GoodState
<1> QED
  BY <1>1, <1>2, <1>3, TimersKept
     DEF ServedCall, Served, FinalPC, TimerPlace, AllMoved, SameRoundAs, NoTimerOf

LEMMA TimeoutSaveServed ==
  ASSUME GoodState, GoodState', TimersOK, NEW h \in Handlers, CallOK(hs[h]), ServedCall(hs[h]),
         TimeoutSave(h)
  PROVE  TimersOK' /\ ServedCall(hs[h])'
<1> DEFINE c == hs[h].m
<1>1. /\ UNCHANGED <<timers, ahead, locks, starts, botLoops>> /\ hs[h].pc = "toSave" /\ match' = c
      /\ match.status # "FINISHED" /\ c.round >= match.round /\ c.alive \subseteq match.alive
  BY CopyFacts DEF TimeoutSave, env, Pending, ResultPC
<1>2. AllMoved(c) /\ NoTimerOf(c)
  BY <1>1 DEF ServedCall, Served
<1>3. hs'[h].pc = "resRead" /\ hs'[h].m = c
  BY ToFields DEF TimeoutSave, GoodState
<1>4. NoTimerOf(match') /\ AllMoved(match')
  BY <1>1, <1>2
<1>5. TimersOK'
  BY <1>1, <1>4, TimersWritten DEF GoodState
<1> QED
  BY <1>1, <1>3, <1>4, <1>5
     DEF ServedCall, Served, FinalPC, TimerPlace, AllMoved, SameRoundAs, NoTimerOf

LEMMA ResolveReadServed ==
  ASSUME GoodState, GoodState', TimersOK, NEW h \in Handlers, CallOK(hs[h]), ServedCall(hs[h]),
         ResolveRead(h)
  PROVE  TimersOK' /\ ServedCall(hs[h])'
<1> DEFINE m     == Filled(match, match.alive, hs[h].m.moves)
           after == AfterRound(m)
<1>1. UNCHANGED <<match, timers, ahead, locks, starts, botLoops>> /\ hs[h].pc = "resRead"
  BY DEF ResolveRead, env
<1>2. TimersOK'
  BY <1>1, TimersKept
<1>3. CASE match.status = "FINISHED"
  <2>1. Done(h) /\ match'.status = "FINISHED"
    BY <1>1, <1>3 DEF ResolveRead, SameRound
  <2> QED
    BY <1>2, <2>1, DoneServed DEF GoodState
<1>4. CASE match.status # "FINISHED"
  <2>1. AllMoved(match) /\ SameRoundAs(hs[h].m) /\ NoTimerOf(match)
    BY <1>1, <1>4 DEF ServedCall, Served
  <2>2. match \in Match /\ hs[h].m.moves \in [Players -> Moved]
        /\ match.alive \subseteq Players
    BY CopyGood DEF GoodState, Good, Match
  <2>3. /\ m.alive = match.alive /\ m.round = match.round /\ m.deadline = match.deadline
        /\ \A p \in match.alive : match.moves[p] # NoMove => m.moves[p] = match.moves[p]
    BY <2>2 DEF Filled, Match
  <2>4. Good(m) /\ m.status = match.status
    BY <2>2, FilledGood DEF GoodState
  <2> HIDE DEF m
  <2>5. AllMoved(m)
    BY <2>1, <2>3 DEF AllMoved
  <2>6. SameRound(h)
    BY <1>4, <2>1 DEF SameRound, SameRoundAs
  <2>7. /\ after.deadline = m.deadline
        /\ IF after.status = "FINISHED" THEN after.round = m.round
           ELSE after.round > m.round /\ ~AllMoved(after)
    BY <1>4, <2>4, <2>5, AfterRoundServed
  <2>8. \/ after.status = "FINISHED" /\ Call(h, "settle", after, "resCheck")
        \/ after.status # "FINISHED" /\ Call(h, "resCheck", after, "idle")
    BY <2>5, <2>6 DEF ResolveRead, m
  <2> HIDE DEF after
  <2>9. PICK c : /\ c = after /\ hs'[h].m = c
                 /\ \/ c.status = "FINISHED" /\ hs'[h].pc = "settle"
                    \/ c.status # "FINISHED" /\ hs'[h].pc = "resCheck"
    BY <2>8, CallFields DEF GoodState
  <2>10. /\ c.status = "FINISHED" => SameRoundAs(c)'
         /\ c.status # "FINISHED" => c.round > match'.round /\ NoTimerOf(c)' /\ ~AllMoved(c)
    BY <1>1, <2>1, <2>3, <2>7, <2>9 DEF SameRoundAs, NoTimerOf
  <2> QED
    BY <1>2, <2>9, <2>10
       DEF ServedCall, Served, FinalPC, TimerPlace, AllMoved, SameRoundAs, NoTimerOf
<1> QED
  BY <1>3, <1>4

LEMMA ResolveCheckServed ==
  ASSUME GoodState, GoodState', TimersOK, NEW h \in Handlers, CallOK(hs[h]), ServedCall(hs[h]),
         ResolveCheck(h)
  PROVE  TimersOK' /\ ServedCall(hs[h])'
<1>1. /\ UNCHANGED <<match, timers, ahead, locks, starts, botLoops>> /\ hs[h].pc = "resCheck"
      /\ match.status # "FINISHED" /\ hs[h].m.round >= match.round
  BY CopyFacts DEF ResolveCheck, env, Pending, ResultPC
<1>2. match.round \in Nat /\ hs[h].m.round \in Nat
  BY CopyGood DEF GoodState, Good, Match
<1>3. ~Overtaken(h)
  BY <1>1, <1>2 DEF Overtaken
<1>4. hs'[h].pc = "resSave" /\ hs'[h].m = hs[h].m
  BY <1>3, ToFields DEF ResolveCheck, GoodState
<1>5. /\ hs[h].m.status = "FINISHED" => SameRoundAs(hs[h].m)
      /\ hs[h].m.status # "FINISHED" =>
           hs[h].m.round > match.round /\ NoTimerOf(hs[h].m) /\ ~AllMoved(hs[h].m)
  BY <1>1 DEF ServedCall, Served, FinalPC
<1> QED
  BY <1>1, <1>4, <1>5, TimersKept
     DEF ServedCall, Served, FinalPC, TimerPlace, AllMoved, SameRoundAs, NoTimerOf

LEMMA ResolveSaveServed ==
  ASSUME GoodState, GoodState', TimersOK, NEW h \in Handlers, CallOK(hs[h]), ServedCall(hs[h]),
         ResolveSave(h)
  PROVE  TimersOK' /\ ServedCall(hs[h])'
<1> DEFINE c == hs[h].m
<1>1. /\ UNCHANGED <<timers, ahead, locks, starts, botLoops>> /\ hs[h].pc = "resSave" /\ match' = c
      /\ match.status # "FINISHED" /\ c.round >= match.round /\ c.alive \subseteq match.alive
  BY CopyFacts DEF ResolveSave, env, Pending, ResultPC
<1>2. CASE c.status = "FINISHED"
  <2>1. SameRoundAs(c)
    BY <1>1, <1>2 DEF ServedCall, FinalPC
  <2>2. TimersOK'
    BY <1>1, <2>1, TimersWritten DEF GoodState
  <2>3. Done(h) /\ match'.status = "FINISHED"
    BY <1>1, <1>2 DEF ResolveSave
  <2> QED
    BY <2>2, <2>3, DoneServed DEF GoodState
<1>3. CASE c.status # "FINISHED"
  <2>1. c.round > match.round /\ NoTimerOf(c) /\ ~AllMoved(c)
    BY <1>1, <1>3 DEF ServedCall, Served
  <2>2. NoTimerOf(match') /\ ~AllMoved(match')
    BY <1>1, <2>1
  <2>3. TimersOK'
    BY <1>1, <2>2, TimersWritten DEF GoodState
  <2>4. match'.round \notin locks /\ \A t \in timers : t.round < match'.round
    BY <1>1, <2>1 DEF TimersOK, GoodState, Good, Match, CountersOK, Timer
  <2>5. hs'[h].pc = "timerRead" /\ hs'[h].ret = "resBots"
    BY <1>3, CallFields DEF ResolveSave, GoodState
  <2>6. NoTimerYet' /\ NoTimerOf(match)' /\ ~AllMoved(match)' /\ match'.round \notin locks'
    BY <1>1, <2>2, <2>4 DEF NoTimerYet, NoTimerOf, AllMoved
  <2> QED
    BY <2>3, <2>5, <2>6 DEF ServedCall, Served, FinalPC, TimerPlace
<1> QED
  BY <1>2, <1>3

LEMMA ResolveBotsServed ==
  ASSUME GoodState, GoodState', TimersOK, NEW h \in Handlers, CallOK(hs[h]), ServedCall(hs[h]),
         ResolveBots(h)
  PROVE  TimersOK' /\ ServedCall(hs[h])'
<1>1. UNCHANGED <<match, timers, ahead, locks, starts>> /\ hs[h].pc = "resBots" /\ Done(h)
  BY DEF ResolveBots
<1>2. match.status # "FINISHED" /\ BotsOnly(match) => botLoops' > 0
  BY BoundsAssumption DEF ResolveBots, MoreLoops, GoodState, CountersOK
<1>3. match.status # "FINISHED" => ~AllMoved(match) /\ (BotsOnly(match) \/ TimerRuns(match))
  BY <1>1 DEF ServedCall, Served
<1>4. match'.status # "FINISHED" => Rests'
  BY <1>1, <1>2, <1>3 DEF Rests, Waits, LockRuns, TimerRuns, AllMoved, BotsOnly
<1> QED
  BY <1>1, <1>4, TimersKept, DoneServed DEF GoodState

LEMMA BotTickServed ==
  ASSUME GoodState, GoodState', TimersOK, NEW h \in Handlers, CallOK(hs[h]), ServedCall(hs[h]),
         BotTick(h)
  PROVE  TimersOK' /\ ServedCall(hs[h])'
<1>1. UNCHANGED <<match, timers, ahead, locks, starts>> /\ hs[h].pc = "idle"
  BY DEF BotTick
<1>2. TimersOK'
  BY <1>1, TimersKept
<1>3. match.status # "FINISHED" => Rests
  BY <1>1 DEF ServedCall, Served
<1>4. CASE match.status # "FINISHED" /\ BotsOnly(match)
  <2>1. hs'[h].pc = "botRead"
    BY <1>4, CallFields DEF BotTick, GoodState
  <2>2. BotsOnly(match)' /\ ~AllMoved(match)'
    BY <1>1, <1>3, <1>4 DEF Rests, AllMoved, BotsOnly
  <2> QED
    BY <1>2, <2>1, <2>2 DEF ServedCall, Served, FinalPC, TimerPlace
<1>5. CASE ~(match.status # "FINISHED" /\ BotsOnly(match))
  <2>1. UNCHANGED hs
    BY <1>5 DEF BotTick
  <2>2. match'.status # "FINISHED" => Rests'
    BY <1>1, <1>3, <1>5 DEF Rests, Waits, LockRuns, TimerRuns, AllMoved, BotsOnly
  <2> QED
    BY <1>1, <1>2, <2>1, <2>2 DEF ServedCall, Served, FinalPC, TimerPlace
<1> QED
  BY <1>4, <1>5

LEMMA BotReadServed ==
  ASSUME GoodState, GoodState', TimersOK, NEW h \in Handlers, CallOK(hs[h]), ServedCall(hs[h]),
         BotRead(h)
  PROVE  TimersOK' /\ ServedCall(hs[h])'
<1>1. UNCHANGED <<match, timers, ahead, locks, starts>> /\ hs[h].pc = "botRead"
  BY DEF BotRead
<1>2. TimersOK'
  BY <1>1, TimersKept
<1>3. match.status # "FINISHED" => BotsOnly(match) /\ ~AllMoved(match)
  BY <1>1 DEF ServedCall, Served
<1>4. CASE match.status = "FINISHED"
  <2>1. Done(h) /\ match'.status = "FINISHED"
    BY <1>1, <1>4 DEF BotRead
  <2> QED
    BY <1>2, <2>1, DoneServed DEF GoodState
<1>5. CASE match.status # "FINISHED" /\ match.round > MaxRound
  <2>1. Done(h) /\ botLoops' > 0
    BY <1>5, BoundsAssumption DEF BotRead, MoreLoops, GoodState, CountersOK
  <2>2. Rests'
    BY <1>1, <1>3, <1>5, <2>1 DEF Rests, Waits, LockRuns, AllMoved, BotsOnly
  <2> QED
    BY <1>2, <2>1, <2>2, DoneServed DEF GoodState
<1>6. CASE match.status # "FINISHED" /\ ~(match.round > MaxRound)
  <2> DEFINE n == [match EXCEPT !.moves = NoMoves]
             m(choice) == Filled(n, match.alive, choice)
             after(choice) == AfterRound(m(choice))
  <2>1. PICK choice \in [Bots -> Choices] :
          \/ after(choice).status = "FINISHED" /\ Call(h, "settle", after(choice), "botSave")
          \/ after(choice).status # "FINISHED" /\ Call(h, "botSave", after(choice), "idle")
    BY <1>3, <1>6 DEF BotRead
  <2>2. Good(n) /\ n.status = match.status /\ n.alive = match.alive
    BY ForgottenMovesGood DEF GoodState
  <2>3. /\ n.round = match.round /\ n.deadline = match.deadline
        /\ \A p \in match.alive : n.moves[p] = NoMove
    BY DEF GoodState, Good, Match, NoMoves
  <2>4. \A p \in match.alive : choice[p] \in Moved /\ choice[p] # NoMove
    BY <1>3, <1>6, MovedFacts DEF BotsOnly
  <2> HIDE DEF n
  <2>5. n \in Match /\ match.alive \subseteq Players
    BY <2>2 DEF Good, Match, GoodState
  <2>6. /\ m(choice).round = match.round /\ m(choice).deadline = match.deadline
        /\ \A p \in match.alive : m(choice).moves[p] = choice[p]
    BY <2>3, <2>5 DEF Filled, Match
  <2>7. /\ Good(m(choice)) /\ m(choice).status = match.status /\ m(choice).alive = match.alive
    BY <2>2, <2>4, FilledGood
  <2>8. AllMoved(m(choice))
    BY <2>4, <2>6, <2>7 DEF AllMoved
  <2> HIDE DEF m
  <2>9. /\ after(choice).deadline = match.deadline
        /\ IF after(choice).status = "FINISHED" THEN after(choice).round = match.round
           ELSE ~AllMoved(after(choice))
    BY <1>6, <2>6, <2>7, <2>8, AfterRoundServed
  <2>10. BotsOnly(after(choice))
    <3>1. after(choice).alive \subseteq m(choice).alive
      <4>1. m(choice) \in Match /\ m(choice).moves \in [Players -> Moved]
        BY <2>7 DEF Good, Match
      <4>2. after(choice).alive = Survivors(PlayerIds, m(choice).alive, m(choice).moves)
        BY <4>1 DEF AfterRound, Match
      <4> QED
        BY <4>2 DEF Survivors
    <3> QED
      BY <1>3, <1>6, <2>7, <3>1 DEF BotsOnly
  <2> HIDE DEF after
  <2>11. PICK c : /\ c = after(choice) /\ hs'[h].m = c
                  /\ \/ c.status = "FINISHED" /\ hs'[h].pc = "settle"
                     \/ c.status # "FINISHED" /\ hs'[h].pc = "botSave"
    BY <2>1, CallFields DEF GoodState
  <2>12. /\ c.status = "FINISHED" => SameRoundAs(c)'
         /\ c.status # "FINISHED" => BotsOnly(c) /\ ~AllMoved(c)
    BY <1>1, <2>9, <2>10, <2>11 DEF SameRoundAs
  <2> QED
    BY <1>2, <2>11, <2>12
       DEF ServedCall, Served, FinalPC, TimerPlace, AllMoved, SameRoundAs, BotsOnly
<1> QED
  BY <1>4, <1>5, <1>6

LEMMA BotSaveServed ==
  ASSUME GoodState, GoodState', TimersOK, NEW h \in Handlers, CallOK(hs[h]), ServedCall(hs[h]),
         BotSave(h)
  PROVE  TimersOK' /\ ServedCall(hs[h])'
<1> DEFINE c == hs[h].m
<1>1. /\ UNCHANGED <<timers, ahead, locks, starts>> /\ hs[h].pc = "botSave" /\ match' = c
      /\ match.status # "FINISHED" /\ c.round >= match.round /\ c.alive \subseteq match.alive
  BY CopyFacts DEF BotSave, Pending, ResultPC
<1>2. CASE c.status = "FINISHED"
  <2>1. SameRoundAs(c)
    BY <1>1, <1>2 DEF ServedCall, FinalPC
  <2>2. TimersOK'
    BY <1>1, <2>1, TimersWritten DEF GoodState
  <2>3. hs'[h].pc = "settle" /\ hs'[h].m = c
    BY <1>2, CallFields DEF BotSave, GoodState
  <2>4. match'.status = "FINISHED" /\ SameRoundAs(c)'
    BY <1>1, <1>2, <2>3 DEF SameRoundAs
  <2> QED
    BY <1>1, <2>2, <2>3, <2>4 DEF ServedCall, FinalPC, SameRoundAs
<1>3. CASE c.status # "FINISHED"
  <2>1. BotsOnly(c) /\ ~AllMoved(c)
    BY <1>1, <1>3 DEF ServedCall, Served
  <2>2. BotsOnly(match') /\ ~AllMoved(match')
    BY <1>1, <2>1
  <2>3. TimersOK'
    BY <1>1, <2>2, TimersWritten DEF GoodState
  <2>4. Done(h) /\ botLoops' > 0
    BY <1>3, BoundsAssumption DEF BotSave, MoreLoops, GoodState, CountersOK
  <2>5. Rests'
    BY <2>2, <2>4 DEF Rests, Waits, LockRuns, AllMoved, BotsOnly
  <2> QED
    BY <2>3, <2>4, <2>5, DoneServed DEF GoodState
<1> QED
  BY <1>2, <1>3

LEMMA CancelMatchServed ==
  ASSUME GoodState, GoodState', TimersOK, NEW h \in Handlers, CallOK(hs[h]), ServedCall(hs[h]),
         CancelMatch(h)
  PROVE  TimersOK' /\ ServedCall(hs[h])'
<1>1. /\ UNCHANGED <<match, timers, ahead, locks, starts, botLoops>> /\ hs[h].pc = "idle"
      /\ match.status # "FINISHED"
  BY DEF CancelMatch, Live
<1>2. Rests
  BY <1>1 DEF ServedCall, Served
<1>3. PICK c : c = [match EXCEPT !.status = "CANCELLED"] /\ hs'[h].pc = "cancelSave" /\ hs'[h].m = c
  BY CallFields DEF CancelMatch, GoodState
<1>4. c.round = match.round /\ c.deadline = match.deadline /\ c.alive = match.alive
      /\ c.moves = match.moves
  BY <1>3 DEF GoodState, Good, Match
<1>5. Rests'
  BY <1>1, <1>2 DEF Rests, Waits, LockRuns, TimerRuns, AllMoved, BotsOnly
<1>6. SameRoundAs(c)' /\ c.alive = match'.alive /\ ~AllMoved(c)
  BY <1>1, <1>2, <1>4 DEF SameRoundAs, AllMoved, Rests
<1> QED
  BY <1>1, <1>3, <1>5, <1>6, TimersKept
     DEF ServedCall, Served, FinalPC, TimerPlace, AllMoved, SameRoundAs

LEMMA CancelSaveServed ==
  ASSUME GoodState, GoodState', TimersOK, NEW h \in Handlers, CallOK(hs[h]), ServedCall(hs[h]),
         CancelSave(h)
  PROVE  TimersOK' /\ ServedCall(hs[h])'
<1> DEFINE c == hs[h].m
<1>1. /\ UNCHANGED <<timers, ahead, locks, starts, botLoops>> /\ hs[h].pc = "cancelSave"
      /\ match' = c /\ Done(h)
      /\ match.status # "FINISHED" /\ c.round >= match.round /\ c.alive \subseteq match.alive
  BY CopyFacts DEF CancelSave, env, Pending, ResultPC
<1>2. Rests /\ SameRoundAs(c) /\ c.alive = match.alive /\ ~AllMoved(c)
  BY <1>1 DEF ServedCall, Served
<1>3. TimersOK'
  BY <1>1, <1>2, TimersWritten DEF GoodState
<1>4. Rests'
  BY <1>1, <1>2 DEF Rests, Waits, LockRuns, TimerRuns, SameRoundAs, BotsOnly
<1> QED
  BY <1>1, <1>3, <1>4, DoneServed DEF GoodState

LEMMA SubmitMoveServed ==
  ASSUME GoodState, GoodState', TimersOK, NEW h \in Handlers, CallOK(hs[h]), ServedCall(hs[h]),
         NEW u \in Movers, NEW mv \in Submitted, SubmitMove(h, u, mv)
  PROVE  TimersOK' /\ ServedCall(hs[h])'
<1> DEFINE m(c) == Filled(WithMove(match, u, mv), match.alive \cap Bots, c)
           after(c) == AfterSubmittedRound(m(c))
<1>1. PICK choice \in [Bots -> Choices] :
        \/ ~AllMoved(m(choice)) /\ Call(h, "save", m(choice), "idle")
        \/ /\ AllMoved(m(choice)) /\ after(choice).status = "FINISHED"
           /\ Call(h, "settle", after(choice), "saveDone")
        \/ /\ AllMoved(m(choice)) /\ after(choice).status # "FINISHED"
           /\ Call(h, "saveNext", after(choice), "idle")
  BY DEF SubmitMove
<1>2. /\ UNCHANGED <<match, timers, ahead, locks, starts, botLoops>> /\ hs[h].pc = "idle"
      /\ match.status # "FINISHED" /\ ~Refuses(u)
  BY DEF SubmitMove, env, Refuses
<1>3. Rests
  BY <1>2 DEF ServedCall, Served
<1>4. Rests'
  BY <1>2, <1>3, RestsKept
<1>5. Good(m(choice)) /\ m(choice).status # "FINISHED"
  BY <1>2, SubmittedGood DEF GoodState
<1>6. /\ m(choice).round = match.round /\ m(choice).deadline = match.deadline
      /\ m(choice).alive = match.alive
  BY DEF Filled, WithMove, GoodState, Good, Match
<1> HIDE DEF m
<1> DEFINE a == AfterRound(m(choice))
<1>7. AllMoved(m(choice)) =>
        /\ a.deadline = match.deadline
        /\ IF a.status = "FINISHED" THEN a.round = match.round
           ELSE a.round > match.round /\ ~AllMoved(a)
  BY <1>5, <1>6, AfterRoundServed
<1>8. AllMoved(m(choice)) => a \in Match
  BY <1>5, AfterRoundGood DEF Good
<1>9. after(choice) = IF a.status = "FINISHED" THEN a ELSE [a EXCEPT !.deadline = NoDeadline]
  BY DEF AfterSubmittedRound
<1> HIDE DEF a, after
<1>10. AllMoved(m(choice)) =>
         /\ after(choice).status = a.status /\ after(choice).round = a.round
         /\ a.status = "FINISHED" => after(choice).deadline = a.deadline
         /\ a.status # "FINISHED" =>
              after(choice).deadline = NoDeadline /\ ~AllMoved(after(choice))
  BY <1>7, <1>8, <1>9 DEF AllMoved, Match
<1>11. CASE ~AllMoved(m(choice)) /\ Call(h, "save", m(choice), "idle")
  <2>1. PICK c : c = m(choice) /\ hs'[h].pc = "save" /\ hs'[h].m = c
    BY <1>11, CallFields DEF GoodState
  <2>2. SameRoundAs(c)' /\ c.alive = match'.alive /\ ~AllMoved(c)
    BY <1>2, <1>6, <1>11, <2>1 DEF SameRoundAs
  <2> QED
    BY <1>2, <1>4, <2>1, <2>2, TimersKept
       DEF ServedCall, Served, FinalPC, TimerPlace, AllMoved, SameRoundAs
<1>12. CASE /\ AllMoved(m(choice)) /\ after(choice).status = "FINISHED"
            /\ Call(h, "settle", after(choice), "saveDone")
  <2>1. PICK c : c = after(choice) /\ hs'[h].pc = "settle" /\ hs'[h].m = c
    BY <1>12, CallFields DEF GoodState
  <2>2. SameRoundAs(c)'
    BY <1>2, <1>7, <1>10, <1>12, <2>1 DEF SameRoundAs
  <2> QED
    BY <1>2, <2>1, <2>2, TimersKept DEF ServedCall, Served, FinalPC, TimerPlace, SameRoundAs
<1>13. CASE /\ AllMoved(m(choice)) /\ after(choice).status # "FINISHED"
            /\ Call(h, "saveNext", after(choice), "idle")
  <2>1. PICK c : c = after(choice) /\ hs'[h].pc = "saveNext" /\ hs'[h].m = c
    BY <1>13, CallFields DEF GoodState
  <2>2. c.round > match'.round /\ c.deadline = NoDeadline /\ ~AllMoved(c)
    BY <1>2, <1>7, <1>10, <1>13, <2>1
  <2> QED
    BY <1>2, <2>1, <2>2, TimersKept DEF ServedCall, Served, FinalPC, TimerPlace, AllMoved
<1> QED
  BY <1>1, <1>11, <1>12, <1>13

\* Time passes only between calls.
LEMMA TimePassesServed ==
  ASSUME GoodState, TimersOK, NEW h \in Handlers, ServedCall(hs[h]),
         (\E r \in locks : LockExpire(r)) \/ (\E t \in ahead : Near(t))
  PROVE  TimersOK' /\ ServedCall(hs[h])'
<1>1. /\ UNCHANGED <<match, hs, timers, starts, botLoops>> /\ starts = {}
      /\ locks' \subseteq locks /\ hs[h].pc = "idle"
  BY DEF LockExpire, Near, Quiet, Busy
<1>2. TimersOK'
  <2>1. CASE \E r \in locks : LockExpire(r)
    BY <2>1 DEF LockExpire, TimersOK, BotsOnly
  <2>2. CASE \E t \in ahead : Near(t)
    <3>1. PICK t \in ahead : Near(t)
      BY <2>2
    <3>2. /\ UNCHANGED <<match, timers, locks, starts>> /\ starts = {}
          /\ ahead' = ahead \ {t} /\ t.round \notin locks
      BY <3>1 DEF Near
    <3> QED
      BY <3>2 DEF TimersOK, BotsOnly
  <2> QED
    BY <2>1, <2>2
<1>3. match'.status # "FINISHED" => Rests'
  BY <1>1 DEF ServedCall, Served, Rests, Waits, LockRuns, TimerRuns, AllMoved, BotsOnly
<1> QED
  BY <1>1, <1>2, <1>3 DEF ServedCall, Served, FinalPC, TimerPlace

LEMMA StaysServed ==
  ASSUME TimersOK, NEW h, ServedCall(hs[h]), UNCHANGED vars
  PROVE  TimersOK' /\ ServedCall(hs[h])'
BY DEF vars, TimersOK, ServedCall, Served, Rests, Waits, LockRuns, TimerRuns, NoTimerOf,
       NoTimerYet, SameRoundAs, BotsOnly

LEMMA StepServed ==
  ASSUME GoodState, GoodState', TimersOK, NEW h \in Handlers, CallOK(hs[h]), ServedCall(hs[h]),
         Step(h)
  PROVE  TimersOK' /\ ServedCall(hs[h])'
BY SubmitSaveServed, SubmitSaveNextServed, SettleServed, StartDoneServed,
   TimerReadServed, TimerLockServed, TimerFreshServed, TimerUnlockServed, TimerSaveServed,
   TimeoutReadServed, TimeoutCheckServed, TimeoutSaveServed,
   ResolveReadServed, ResolveCheckServed, ResolveSaveServed, ResolveBotsServed,
   BotReadServed, BotSaveServed, CancelSaveServed
   DEF Step

LEMMA NextServed ==
  ASSUME NEW h, Handlers = {h}, CanLeave = FALSE,
         GoodState, GoodState', SerialInv, ServedInv, [Next]_vars
  PROVE  ServedInv'
<1>1. h \in Handlers /\ CallOK(hs[h]) /\ ServedCall(hs[h]) /\ TimersOK
  BY DEF SerialInv, ServedInv
<1>2. SUFFICES TimersOK' /\ ServedCall(hs[h])'
  BY DEF ServedInv, GoodState, CountersOK
<1>3. CASE Step(h)
  BY <1>1, <1>3, StepServed
<1>4. CASE \E u \in Movers, mv \in Submitted : SubmitMove(h, u, mv)
  BY <1>1, <1>4, SubmitMoveServed
<1>5. CASE StartMatch(h) \/ BotTick(h) \/ CancelMatch(h)
  BY <1>1, <1>5, StartMatchServed, BotTickServed, CancelMatchServed
<1>6. CASE \E t \in timers : FireTimer(h, t)
  BY <1>1, <1>6, FireTimerServed
<1>7. CASE (\E r \in locks : LockExpire(r)) \/ (\E t \in ahead : Near(t))
  BY <1>1, <1>7, TimePassesServed
<1>8. CASE UNCHANGED vars
  BY <1>1, <1>8, StaysServed
<1>9. ~SkipStart /\ ~Restart
  BY DEF SkipStart, Restart, SerialInv
<1> QED
  BY <1>3, <1>4, <1>5, <1>6, <1>7, <1>8, <1>9 DEF Next

LEMMA InitServed == Init => ServedInv
<1> SUFFICES ASSUME Init PROVE ServedInv
  OBVIOUS
<1>1. timers = {} /\ ahead = {} /\ locks = {} /\ starts \subseteq {"service", "gateway"} /\ starts # {}
  BY DEF Init
<1>2. match.alive = Players /\ match.moves = NoMoves /\ match.round = 1
  BY DEF Init, NewMatch
<1>3. ~BotsOnly(match) /\ ~AllMoved(match)
  BY <1>2, PlayersAssumption DEF BotsOnly, AllMoved, NoMoves, Players
<1>4. TimersOK
  BY <1>1 DEF TimersOK
<1>5. Rests
  BY <1>1, <1>3 DEF Rests, Waits, LockRuns
<1>6. \A h \in Handlers : hs[h].pc = "idle" /\ hs[h].ret = "idle"
  BY DEF Init, Idle
<1> QED
  BY <1>1, <1>4, <1>5, <1>6 DEF ServedInv, ServedCall, Served, FinalPC, TimerPlace

LEMMA RestIsNotStranded ==
  ASSUME NEW h, Handlers = {h}, ServedInv
  PROVE  NeverStranded
<1> SUFFICES ASSUME Quiet, Live(match)
             PROVE  \/ starts # {}
                    \/ IF BotsOnly(match) THEN botLoops > 0 ELSE TimerRuns(match)
  BY DEF NeverStranded
<1>1. hs[h].pc = "idle" /\ match.status # "FINISHED"
  BY DEF Quiet, Busy, Live
<1>2. Rests
  BY <1>1 DEF ServedInv, ServedCall, Served
<1> QED
  BY <1>2 DEF Rests, Waits

\* Between calls a match that is not over has its start, its timer or its loop of
\* bot rounds to wait for: whoever leaves it because of a lock, a deadline or a
\* round that is not the one it was called for leaves it to one of these.
THEOREM SerialNeverStrands ==
  ASSUME NEW h, Handlers = {h}, MaxRestarts = 0, CanLeave = FALSE
  PROVE  Spec => []NeverStranded
<1>1. GoodState /\ GoodState' /\ SerialInv /\ ServedInv /\ [Next]_vars => ServedInv'
  BY NextServed
<1>2. ServedInv => NeverStranded
  BY RestIsNotStranded
<1> QED
  BY <1>1, <1>2, InitServed, AlwaysGood, AlwaysSerial, PTL DEF Spec
=============================================================================
