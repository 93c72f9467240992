------------------------------ MODULE MatchPlay ------------------------------
(***************************************************************************)
(* One match, from its creation to its settlement.                         *)
(*                                                                         *)
(* The match lives in Redis as one JSON record that every handler reads    *)
(* whole, changes in memory and writes back whole (GET ... SET).  Node runs*)
(* one handler at a time but switches at each await, so a call is a        *)
(* sequence of atomic Redis operations with private computation between    *)
(* them.  A handler is a slot hs[h] holding the next operation (pc), the   *)
(* private copy m of the record, and where the helper it is in returns to. *)
(*                                                                         *)
(* Handlers bounds how many calls on the match overlap.  With one handler  *)
(* each call runs to its end before the next one begins.                   *)
(*                                                                         *)
(* Time is abstracted to events: a move deadline is a fresh value, first   *)
(* more than a second ahead (a member of ahead) and then not (Near); its   *)
(* setTimeout callback may run once it is not.  A timer lock can expire    *)
(* (EX 10) before the 12-second deadline set under it comes near.          *)
(***************************************************************************)
EXTENDS MatchRules

CONSTANTS
  Users,        \* the real players of the match
  Bots,         \* its bots (ids that start with BOT)
  PlayerIds,    \* m.playerIds, the users and the bots in their order
  Handlers,     \* slots for overlapping calls
  Movers,       \* the users who make moves; the others are away from keyboard
  Choices,      \* the moves that randomMove makes
  Submitted,    \* the strings a request may hold for a move, NoMove for a falsy one
  Nobody,       \* winnerId is undefined
  Deadlines,    \* instants a move may be due at (bounds the pending timers)
  NoDeadline,   \* moveDeadline is undefined
  MaxRound,     \* bound: no call starts on a later round
  MaxLoops,     \* bound: bot loops waiting together
  MaxCancels,   \* bound: orphan clean-ups that pick this match
  MaxRestarts,  \* bound: crashes of the server process
  CanLeave      \* a bot match's player may be offline at its start

ASSUME PlayersAssumption ==
  /\ Users \cap Bots = {}
  /\ Nobody \notin Users \cup Bots
  /\ NoDeadline \notin Deadlines
  /\ Movers \subseteq Users
  /\ Choices \subseteq Moves /\ Choices # {}
  /\ DOMAIN PlayerIds \subseteq Nat
  /\ {PlayerIds[i] : i \in DOMAIN PlayerIds} = Users \cup Bots
  /\ \E u \in Users, p \in Users \cup Bots : u # p

ASSUME BoundsAssumption ==
  /\ MaxRound \in Nat \ {0}
  /\ MaxLoops \in Nat \ {0}
  /\ MaxCancels \in Nat
  /\ MaxRestarts \in Nat
  /\ CanLeave \in BOOLEAN

Players == Users \cup Bots

NoMoves == [p \in Players |-> NoMove]

\* What m.moves may hold for a player.
Moved == Choices \cup Submitted \cup {NoMove}

Status == {"READY", "BOT_MATCH", "IN_PROGRESS", "FINISHED", "CANCELLED"}

\* type Match, without the parts no step depends on (names, pot, lastRound).
Match == [status   : Status,
          alive    : SUBSET Players,
          elim     : SUBSET Players,
          round    : Nat \ {0},
          moves    : [Players -> Moved],
          deadline : Deadlines \cup {NoDeadline},
          settled  : BOOLEAN,
          winner   : Players \cup {Nobody}]

\* A pending setTimeout of startMoveTimer: what processMoveTimeout is given.
Timer == [deadline : Deadlines, round : Nat \ {0}]

\* The operation a handler performs next.
SubmitPC  == {"save", "saveNext", "saveDone"}
TimerPC   == {"startDone", "timerRead", "timerLock", "timerFresh", "timerUnlock", "timerSave"}
TimeoutPC == {"toRead", "toCheck", "toSave", "resRead", "resCheck", "resSave", "resBots"}
BotPC     == {"botRead", "botSave"}
PC        == {"idle", "settle", "cancelSave"} \cup SubmitPC \cup TimerPC \cup TimeoutPC \cup BotPC

Handler == [pc : PC, m : Match, ret : PC]

VARIABLES
  match,      \* the record under match:<id>
  hs,         \* the handlers
  timers,     \* pending processMoveTimeout callbacks
  ahead,      \* the deadlines that are more than a second ahead
  locks,      \* rounds whose timerlock:<id>:<round> exists
  starts,     \* whose countdown callbacks are still to call startMoveTimer
  botLoops,   \* processBotRounds loops waiting out their delay
  cancels,    \* orphan clean-ups still to come
  restarts,   \* crashes still to come
  paid,       \* how often the match was settled: 0, 1, or 2 for more
  refunded,   \* cancelMatch returned the stakes
  accepted    \* per user, the last move submitMove accepted and its round

env  == <<timers, ahead, locks, starts, botLoops, cancels, restarts>>
acct == <<paid, refunded, accepted>>
vars == <<match, hs, timers, ahead, locks, starts, botLoops, cancels, restarts,
          paid, refunded, accepted>>

-----------------------------------------------------------------------------
NewMatchAtZero(status, settled) ==                   \* variant
  [status |-> status, alive |-> Players, elim |-> {}, round |-> 0, moves |-> NoMoves,
   deadline |-> NoDeadline, settled |-> settled, winner |-> Nobody]

\* A match as it is created: everybody alive, no move made.
NewMatch(status, settled) ==
  [status |-> status, alive |-> Players, elim |-> {}, round |-> 1, moves |-> NoMoves,
   deadline |-> NoDeadline, settled |-> settled, winner |-> Nobody]

Idle == [pc |-> "idle", m |-> NewMatch("READY", FALSE), ret |-> "idle"]

NotAccepted == [round |-> 0, move |-> NoMove]

\* tryAssembleMatch creates a READY match and schedules its start; the gateway
\* schedules another if its fallback called it.  fallbackToBotIfTimedOut itself
\* creates a BOT_MATCH of one user and bots, born settled when it is a practice
\* match, which only the gateway starts.
Init ==
  /\ \E kind \in {"READY", "BOT_MATCH"}, practice \in BOOLEAN :
       /\ kind = "BOT_MATCH" => Sole(Users)
       /\ practice => kind = "BOT_MATCH"
       /\ match = NewMatch(kind, practice)
  /\ hs = [h \in Handlers |-> Idle]
  /\ timers = {}
  /\ ahead = {}
  /\ locks = {}
  /\ starts \in IF match.status = "READY" THEN {{"service"}, {"service", "gateway"}}
                                           ELSE {{"gateway"}}
  /\ botLoops = 0
  /\ cancels = MaxCancels
  /\ restarts = MaxRestarts
  /\ paid = 0
  /\ refunded = FALSE
  /\ accepted = [u \in Users |-> NotAccepted]

-----------------------------------------------------------------------------
(* Helpers on records *)

NotCancelled(m) == m.status # "CANCELLED"          \* variant
Live(m)     == m.status \notin {"FINISHED", "CANCELLED"}

AnyBot(m)   == m.alive \cap Bots # {}              \* variant: "some" for "every"
BotsOnly(m) == m.alive \subseteq Bots

AllMoved(m) == \A p \in m.alive : m.moves[p] # NoMove

\* A way to give a move to each of the players of S that has none.
Filled(m, S, choice) ==
  [m EXCEPT !.moves = [p \in Players |-> IF p \in S /\ m.moves[p] = NoMove
                                         THEN choice[p] ELSE m.moves[p]]]

\* The move u submits is added to the record.
WithOnlyMove(m, u, mv) == [m EXCEPT !.status = "IN_PROGRESS",  \* variant
                                    !.moves = [NoMoves EXCEPT ![u] = mv]]
WithMove(m, u, mv)     == [m EXCEPT !.status = "IN_PROGRESS", !.moves[u] = mv]

\* variant: the moves of a round survive it
AfterRoundKeepingMoves(m) ==
  LET s == Survivors(PlayerIds, m.alive, m.moves)
      n == [m EXCEPT !.alive = s, !.elim = @ \cup (m.alive \ s)]
  IN  IF Sole(s)
      THEN [n EXCEPT !.status = "FINISHED", !.winner = CHOOSE p \in s : TRUE]
      ELSE [n EXCEPT !.round = @ + 1]

\* The record after a round in which all of m.alive moved.  (The code also
\* finishes a match that ties with one player left; |alive| >= 2 rules it out.)
AfterRound(m) ==
  LET s == Survivors(PlayerIds, m.alive, m.moves)
      n == [m EXCEPT !.alive = s, !.elim = @ \cup (m.alive \ s), !.moves = NoMoves]
  IN  IF Sole(s)
      THEN [n EXCEPT !.status = "FINISHED", !.winner = CHOOSE p \in s : TRUE]
      ELSE [n EXCEPT !.round = @ + 1]

\* submitMove also forgets the deadline of the round it resolved.
AfterSubmittedRound(m) ==
  LET n == AfterRound(m)
  IN  IF n.status = "FINISHED" THEN n ELSE [n EXCEPT !.deadline = NoDeadline]

Busy(h) == hs[h].pc # "idle"
Quiet   == \A h \in Handlers : ~Busy(h)

\* Deadlines are instants of which only equality and "still ahead" matter, so
\* a value can stand for a new instant once nothing holds it.
UnusedDeadlines ==
  Deadlines \ ({match.deadline} \cup {hs[h].m.deadline : h \in Handlers}
                 \cup {t.deadline : t \in timers \cup ahead})

To(h, pc, m) == hs' = [hs EXCEPT ![h] = [@ EXCEPT !.pc = pc, !.m = m]]
Done(h)      == hs' = [hs EXCEPT ![h] = Idle]
Call(h, pc, m, ret) == hs' = [hs EXCEPT ![h] = [pc |-> pc, m |-> m, ret |-> ret]]

\* Return from a helper: on to the caller's next operation, or all is done.
Return(h, m) == IF hs[h].ret = "idle" THEN Done(h) ELSE To(h, hs[h].ret, m)

\* setTimeout(processBotRounds): n more loops, counted up to MaxLoops.
NoMoreLoops(n) == botLoops                           \* variant
MoreLoops(n)   == IF botLoops + n > MaxLoops THEN MaxLoops ELSE botLoops + n

-----------------------------------------------------------------------------
(* submitMove *)

\* A move is refused in a FINISHED match, from a user who is not alive, and
\* from one who has moved this round.  (A CANCELLED match takes moves.)  What is
\* sent as a move is not looked at.
RefusesNoRepeat(u) ==                                \* variant
  match.status = "FINISHED" \/ u \notin match.alive
Refuses(u) ==
  match.status = "FINISHED" \/ u \notin match.alive \/ match.moves[u] # NoMove

\* Read the record, reject or accept the move, move for the bots, and compute
\* the round when everybody has moved.  A falsy move leaves the user without one.
SubmitMove(h, u, mv) ==
  /\ hs[h].pc = "idle"
  /\ match.round <= MaxRound
  /\ ~Refuses(u)
  /\ \E choice \in [Bots -> Choices] :
       LET m     == Filled(WithMove(match, u, mv), match.alive \cap Bots, choice)
           after == AfterSubmittedRound(m)
       IN  IF ~AllMoved(m) THEN Call(h, "save", m, "idle")
           ELSE IF after.status = "FINISHED" THEN Call(h, "settle", after, "saveDone")
           ELSE Call(h, "saveNext", after, "idle")
  /\ accepted' = IF mv = NoMove THEN accepted
                 ELSE [accepted EXCEPT ![u] = [round |-> match.round, move |-> mv]]
  /\ UNCHANGED <<match, env, paid, refunded>>

\* Not all have moved, or the match is over: write the record, return it.
SubmitSave(h) ==
  /\ hs[h].pc \in {"save", "saveDone"}
  /\ match' = hs[h].m
  /\ Done(h)
  /\ UNCHANGED <<env, acct>>

\* The round is resolved and the match goes on: write the record, then start
\* the timer of the next round or the bots' own rounds.  A move that came by
\* socket makes the gateway's onMove start a second loop of bot rounds.
SubmitSaveNext(h) ==
  /\ hs[h].pc = "saveNext"
  /\ match' = hs[h].m
  /\ IF BotsOnly(hs[h].m)
     THEN /\ Done(h)
          /\ \E n \in {1, 2} : botLoops' = MoreLoops(n)
     ELSE /\ To(h, "timerRead", hs[h].m)
          /\ UNCHANGED botLoops
  /\ UNCHANGED <<timers, ahead, locks, starts, cancels, restarts, acct>>

-----------------------------------------------------------------------------
(* settleIfFinished *)

NeverSettled(h)   == FALSE                           \* variant
AlreadySettled(h) == match.settled \/ hs[h].m.settled

UnmarkedSettled(m) == m                              \* variant
MarkedSettled(m)   == [m EXCEPT !.settled = TRUE]

\* Re-read the record and settle unless it, or the copy in hand, says that
\* this was done.  The mark goes on the copy; the caller writes it later.
Settle(h) ==
  /\ hs[h].pc = "settle"
  /\ IF AlreadySettled(h)
     THEN Return(h, hs[h].m) /\ UNCHANGED paid
     ELSE Return(h, MarkedSettled(hs[h].m)) /\ paid' = IF paid = 2 THEN 2 ELSE paid + 1
  /\ UNCHANGED <<match, env, refunded, accepted>>

-----------------------------------------------------------------------------
(* startMoveTimer *)

\* match:startlock:<id> is held from StartMatch to StartDone.
StartLocked == \E h \in Handlers : "startDone" \in {hs[h].pc, hs[h].ret}

\* The countdown after the creation of the match is over.
StartMatch(h) ==
  /\ hs[h].pc = "idle"
  /\ \E who \in starts : starts' = starts \ {who}
  /\ IF StartLocked THEN UNCHANGED hs
                    ELSE Call(h, "timerRead", hs[h].m, "startDone")
  /\ UNCHANGED <<match, timers, ahead, locks, botLoops, cancels, restarts, acct>>

\* Read the match, release the lock.  The gateway's copy of this callback also
\* starts the bots when they are alone by now, the service's does not.
StartDone(h) ==
  /\ hs[h].pc = "startDone"
  /\ Done(h)
  /\ botLoops' \in IF BotsOnly(match) /\ match.deadline # NoDeadline
                   THEN {botLoops, MoreLoops(1)} ELSE {botLoops}
  /\ UNCHANGED <<match, timers, ahead, locks, starts, cancels, restarts, acct>>

\* The gateway's callback does not start the match if the player has no socket by
\* then; while it looks for one, the service's finds the start locked and gives up.
SkipStart ==
  /\ CanLeave
  /\ "gateway" \in starts
  /\ ~StartLocked
  /\ starts' \in {starts \ {"gateway"}, {}}
  /\ UNCHANGED <<match, hs, timers, ahead, locks, botLoops, cancels, restarts, acct>>

TimerRead(h) ==
  /\ hs[h].pc = "timerRead"
  /\ IF match.status = "FINISHED" \/ BotsOnly(match)
     THEN Return(h, hs[h].m)
     ELSE To(h, "timerLock", match)
  /\ UNCHANGED <<match, env, acct>>

NoTimerLock(h)   == FALSE                            \* variant
TimerLockHeld(h) == hs[h].m.round \in locks

\* SET timerlock:<id>:<round> NX
TimerLock(h) ==
  /\ hs[h].pc = "timerLock"
  /\ IF TimerLockHeld(h)
     THEN Return(h, hs[h].m)
     ELSE To(h, "timerFresh", hs[h].m)
  /\ locks' = locks \cup {hs[h].m.round}
  /\ UNCHANGED <<match, timers, ahead, starts, botLoops, cancels, restarts, acct>>

\* Read again: is a deadline running already?
TimerFresh(h) ==
  /\ hs[h].pc = "timerFresh"
  /\ To(h, IF \E t \in ahead : t.deadline = match.deadline
           THEN "timerUnlock" ELSE "timerSave", hs[h].m)
  /\ UNCHANGED <<match, env, acct>>

TimerUnlock(h) ==
  /\ hs[h].pc = "timerUnlock"
  /\ locks' = locks \ {hs[h].m.round}
  /\ Return(h, hs[h].m)
  /\ UNCHANGED <<match, timers, ahead, starts, botLoops, cancels, restarts, acct>>

\* Write the first of the two reads back with the new deadline, set the timer.
TimerSave(h) ==
  /\ hs[h].pc = "timerSave"
  /\ \E d \in UnusedDeadlines :
       LET t == [deadline |-> d, round |-> hs[h].m.round]
       IN  /\ match' = [hs[h].m EXCEPT !.deadline = d]
           /\ timers' = timers \cup {t}
           /\ ahead' = ahead \cup {t}
  /\ Return(h, hs[h].m)
  /\ UNCHANGED <<locks, starts, botLoops, cancels, restarts, acct>>

\* A lock lasts 10 s, the countdown 5, and a call far less than one: no call
\* spans the instant a lock expires at, and the countdowns are over by then.
LockExpire(r) ==
  /\ r \in locks
  /\ Quiet /\ starts = {}
  /\ locks' = locks \ {r}
  /\ UNCHANGED <<match, hs, timers, ahead, starts, botLoops, cancels, restarts, acct>>

\* 11 of the 12 seconds have passed; the lock went after 10.
Near(t) ==
  /\ t \in ahead
  /\ t.round \notin locks
  /\ Quiet /\ starts = {}
  /\ ahead' = ahead \ {t}
  /\ UNCHANGED <<match, hs, timers, locks, starts, botLoops, cancels, restarts, acct>>

-----------------------------------------------------------------------------
(* processMoveTimeout and resolveRoundAfterAutoMoves *)

\* The callback of a due timer: first read, and return if the round or the
\* deadline it was set for is no longer the record's.
FireTimer(h, t) ==
  /\ hs[h].pc = "idle"
  /\ t \in timers \ ahead
  /\ match.round <= MaxRound
  /\ timers' = timers \ {t}
  /\ IF /\ match.status # "FINISHED"
        /\ match.round = t.round
        /\ match.deadline \in {t.deadline, NoDeadline}
     THEN Call(h, "toRead", match, "idle")
     ELSE UNCHANGED hs
  /\ UNCHANGED <<match, ahead, locks, starts, botLoops, cancels, restarts, acct>>

SameRound(h) == match.status # "FINISHED" /\ match.round = hs[h].m.round

\* Second read; a random move for every alive player that has none.
TimeoutRead(h) ==
  /\ hs[h].pc = "toRead"
  /\ IF SameRound(h) /\ ~AllMoved(match)
     THEN \E choice \in [Players -> Choices] :
            To(h, "toCheck", Filled(match, match.alive, choice))
     ELSE Done(h)
  /\ UNCHANGED <<match, env, acct>>

\* Third read: discard the moves if the round has changed.
TimeoutCheck(h) ==
  /\ hs[h].pc = "toCheck"
  /\ IF match.round = hs[h].m.round THEN To(h, "toSave", hs[h].m) ELSE Done(h)
  /\ UNCHANGED <<match, env, acct>>

TimeoutSave(h) ==
  /\ hs[h].pc = "toSave"
  /\ match' = hs[h].m
  /\ To(h, "resRead", hs[h].m)
  /\ UNCHANGED <<env, acct>>

\* Read afresh, add the automatic moves that are still missing, and compute
\* the round; a finished match is settled before it is written.
ResolveRead(h) ==
  /\ hs[h].pc = "resRead"
  /\ LET m     == Filled(match, match.alive, hs[h].m.moves)
         after == AfterRound(m)
     IN  IF ~SameRound(h) \/ ~AllMoved(m) THEN Done(h)
         ELSE IF after.status = "FINISHED" THEN Call(h, "settle", after, "resCheck")
         ELSE Call(h, "resCheck", after, "idle")
  /\ UNCHANGED <<match, env, acct>>

Overtaken(h) == match.round > hs[h].m.round \/ match.status = "FINISHED"

\* Read once more: drop the result if the record is ahead of it.
ResolveCheck(h) ==
  /\ hs[h].pc = "resCheck"
  /\ IF Overtaken(h)
     THEN Done(h)
     ELSE To(h, "resSave", hs[h].m)
  /\ UNCHANGED <<match, env, acct>>

ResolveSave(h) ==
  /\ hs[h].pc = "resSave"
  /\ match' = hs[h].m
  /\ IF hs[h].m.status = "FINISHED"
     THEN Done(h)
     ELSE Call(h, "timerRead", hs[h].m, "resBots")
  /\ UNCHANGED <<env, acct>>

\* After the next timer was started: read, start the bots if they are alone.
ResolveBots(h) ==
  /\ hs[h].pc = "resBots"
  /\ botLoops' = IF BotsOnly(match) /\ match.status # "FINISHED"
                 THEN MoreLoops(1) ELSE botLoops
  /\ Done(h)
  /\ UNCHANGED <<match, timers, ahead, locks, starts, cancels, restarts, acct>>

-----------------------------------------------------------------------------
(* processBotRounds and processSingleBotRound *)

\* A loop's delay is over: it ends if the match is not the bots' any more.
BotTick(h) ==
  /\ hs[h].pc = "idle"
  /\ botLoops > 0
  /\ match.round <= MaxRound
  /\ botLoops' = botLoops - 1
  /\ IF match.status # "FINISHED" /\ BotsOnly(match)
     THEN Call(h, "botRead", match, "idle")
     ELSE UNCHANGED hs
  /\ UNCHANGED <<match, timers, ahead, locks, starts, cancels, restarts, acct>>

\* processSingleBotRound reads, moves for all the bots and computes the round.
BotRead(h) ==
  /\ hs[h].pc = "botRead"
  /\ IF match.status = "FINISHED"
     THEN Done(h) /\ UNCHANGED botLoops
     ELSE IF ~BotsOnly(match) \/ match.round > MaxRound
     THEN Done(h) /\ botLoops' = MoreLoops(1)
     ELSE /\ UNCHANGED botLoops
          /\ \E choice \in [Bots -> Choices] :
               LET after == AfterRound(Filled([match EXCEPT !.moves = NoMoves],
                                              match.alive, choice))
               IN  IF after.status = "FINISHED"
                   THEN Call(h, "settle", after, "botSave")
                   ELSE Call(h, "botSave", after, "idle")
  /\ UNCHANGED <<match, timers, ahead, locks, starts, cancels, restarts, acct>>

\* Write; a finished match goes through settleIfFinished a second time, an
\* unfinished one through the loop again.
BotSave(h) ==
  /\ hs[h].pc = "botSave"
  /\ match' = hs[h].m
  /\ IF hs[h].m.status = "FINISHED"
     THEN Call(h, "settle", hs[h].m, "idle") /\ UNCHANGED botLoops
     ELSE Done(h) /\ botLoops' = MoreLoops(1)
  /\ UNCHANGED <<timers, ahead, locks, starts, cancels, restarts, acct>>

-----------------------------------------------------------------------------
(* cancelMatch, and a crash of the process *)

\* The orphan clean-up found the match older than ten minutes: return the
\* stakes, then write the copy back as CANCELLED.
CancelMatch(h) ==
  /\ hs[h].pc = "idle"
  /\ cancels > 0
  /\ Live(match)
  /\ cancels' = cancels - 1
  /\ refunded' = TRUE
  /\ Call(h, "cancelSave", [match EXCEPT !.status = "CANCELLED"], "idle")
  /\ UNCHANGED <<match, timers, ahead, locks, starts, botLoops, restarts, paid, accepted>>

CancelSave(h) ==
  /\ hs[h].pc = "cancelSave"
  /\ match' = hs[h].m
  /\ Done(h)
  /\ UNCHANGED <<env, acct>>

\* Redis survives a restart of the process; calls, timers and loops do not,
\* and nothing recreates them.
Restart ==
  /\ restarts > 0
  /\ restarts' = restarts - 1
  /\ hs' = [h \in Handlers |-> Idle]
  /\ timers' = {}
  /\ starts' = {}
  /\ botLoops' = 0
  /\ UNCHANGED <<match, ahead, locks, cancels, acct>>

-----------------------------------------------------------------------------
Step(h) ==
  \/ SubmitSave(h) \/ SubmitSaveNext(h) \/ Settle(h)
  \/ StartDone(h) \/ TimerRead(h) \/ TimerLock(h) \/ TimerFresh(h) \/ TimerUnlock(h) \/ TimerSave(h)
  \/ TimeoutRead(h) \/ TimeoutCheck(h) \/ TimeoutSave(h)
  \/ ResolveRead(h) \/ ResolveCheck(h) \/ ResolveSave(h) \/ ResolveBots(h)
  \/ BotRead(h) \/ BotSave(h) \/ CancelSave(h)

Next ==
  \/ \E h \in Handlers : Step(h)
  \/ \E h \in Handlers, u \in Movers, mv \in Submitted : SubmitMove(h, u, mv)
  \/ \E h \in Handlers : StartMatch(h) \/ BotTick(h) \/ CancelMatch(h)
  \/ \E h \in Handlers, t \in timers : FireTimer(h, t)
  \/ \E r \in locks : LockExpire(r)
  \/ \E t \in ahead : Near(t)
  \/ SkipStart
  \/ Restart

Spec == Init /\ [][Next]_vars

\* Redis answers, timers and locks run out, and setTimeout callbacks run.  What
\* waits for a free slot, or for a moment without calls, may be kept from it
\* again and again in the model, never in the code: hence SF.  Players need
\* not move and the orphan clean-up need not come.
Fairness ==
  /\ \A h \in Handlers : WF_vars(Step(h))
  /\ SF_vars(\E h \in Handlers : StartMatch(h))
  /\ SF_vars(\E h \in Handlers : BotTick(h))
  /\ SF_vars(\E h \in Handlers, t \in timers : FireTimer(h, t))
  /\ SF_vars(\E t \in ahead : Near(t))
  /\ SF_vars(\E r \in locks : LockExpire(r))

FairSpec == Spec /\ Fairness

-----------------------------------------------------------------------------
(* Properties *)

\* The record and every copy of it in a handler are records of a match (type
\* Match), and the timers, locks and counters are what they should be.
TypeOK ==
  /\ match \in Match
  /\ hs \in [Handlers -> Handler]
  /\ timers \subseteq Timer
  /\ ahead \subseteq Timer
  /\ locks \subseteq Nat \ {0}
  /\ starts \subseteq {"service", "gateway"}
  /\ botLoops \in Nat
  /\ cancels \in Nat
  /\ restarts \in Nat
  /\ paid \in 0 .. 2
  /\ refunded \in BOOLEAN
  /\ accepted \in [Users -> [round : Nat, move : Moved]]

RecordOK(m) ==
  /\ m.alive \cup m.elim = Players
  /\ m.alive \cap m.elim = {}
  /\ m.alive # {}
  /\ \A p \in Players : m.moves[p] # NoMove => p \in m.alive
  /\ Sole(m.alive) <=> m.status = "FINISHED"
  /\ m.status = "FINISHED" => m.alive = {m.winner}

\* However calls overlap and overwrite each other's results, the record and
\* every copy in a handler stay consistent with themselves: the alive and the
\* eliminated partition the players, somebody is alive, only the alive have
\* moves, and one is left alone exactly when the match is FINISHED and won by
\* that one.  All writes are whole records (submitMove, startMoveTimer,
\* resolveRoundAfterAutoMoves, processSingleBotRound, cancelMatch).
RecordsConsistent == RecordOK(match) /\ \A h \in Handlers : RecordOK(hs[h].m)

\* Two calls of startMoveTimer are never both past the lock of one round
\* (timerlock:<id>:<round>), wherever they were called from.
OneTimerStarter ==
  \A g, h \in Handlers :
    /\ g # h
    /\ hs[g].pc \in {"timerFresh", "timerUnlock", "timerSave"}
    /\ hs[h].pc \in {"timerFresh", "timerUnlock", "timerSave"}
    => hs[g].m.round # hs[h].m.round

\* A timer whose callback will not find its round or deadline replaced.
TimerRuns(m) == \E t \in timers : t.round = m.round /\ m.deadline \in {t.deadline, NoDeadline}

\* Between calls, a match that is not over is waiting for something that will
\* move it on: its start, the timer of its round if a user is alive, a loop of
\* bot rounds if only bots are.
NeverStranded ==
  Quiet /\ Live(match) =>
    \/ starts # {}
    \/ IF BotsOnly(match) THEN botLoops > 0 ELSE TimerRuns(match)

\* A move that submitMove accepted for the round being played is in the record.
AcceptedMoveCounts ==
  Quiet /\ Live(match) =>
    \A u \in Users : accepted[u].round = match.round => match.moves[u] = accepted[u].move

\* The stakes of a match are paid out once at most (settleIfFinished).
SettledAtMostOnce == paid <= 1

\* A finished match is marked settled once the calls on it have ended.
SettledWhenFinished == Quiet /\ match.status = "FINISHED" => match.settled

\* A match whose stakes cancelMatch returned does not pay them out as well.
NotRefundedAndPaid == ~(refunded /\ paid > 0)

\* submitMove accepts one move of a user per round, whatever it is (and any number
\* of falsy ones, which count as none).
NoDuplicateMove ==
  [][\A u \in Users : accepted'[u] # accepted[u] => accepted'[u].round > accepted[u].round]_vars

\* The record never goes back to an earlier round, never revives an eliminated
\* player, and a FINISHED match stays FINISHED with its winner.
NoRollback ==
  [][/\ match'.round >= match.round
     /\ match.elim \subseteq match'.elim
     /\ match.status = "FINISHED" =>
          match'.status = "FINISHED" /\ match'.winner = match.winner]_vars

\* Every round is decided even if nobody moves: timers move for the players who
\* are away (processMoveTimeout), loops for the bots.
RoundDecided ==
  \A r \in 1 .. MaxRound : (match.round = r /\ Live(match)) ~> (match.round # r \/ ~Live(match))

\* The match as its players see it.
Game == INSTANCE MatchGame WITH
  Players <- Players,
  alive   <- match.alive,
  stakes  <- ~(match.settled /\ paid = 0),
  payouts <- paid,
  over    <- match.status = "FINISHED"

\* Calls that do not overlap implement MatchGame.
ImplementsGame == Game!Spec
=============================================================================
