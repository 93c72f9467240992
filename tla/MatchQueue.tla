----------------------------- MODULE MatchQueue -----------------------------
(***************************************************************************)
(* From a request for a quick match to the match.                          *)
(*                                                                         *)
(* A queue is a Redis list of ticket ids; a ticket is a key of its own     *)
(* that expires.  Four kinds of calls work on them, one Redis operation at *)
(* a time, and switch at each await: quickPlay, tryAssembleMatch (100 ms   *)
(* after each ticket), the fallback of a ticket when it is 20 s old, and   *)
(* processQueueTimeouts every second.  A call is a slot hs[h], as in       *)
(* MatchPlay.  Operations that only read what no other call can change in  *)
(* between are part of the step before.                                    *)
(*                                                                         *)
(* Ages are events: a ticket, or the start of a queue, is new for 20 s and *)
(* then due.  The two run at any speed relative to one another and to the  *)
(* calls, except that a lock (EX 5) outlives every call.                   *)
(*                                                                         *)
(* What the matches do is MatchPlay, what the stakes do is StakeLedger:    *)
(* here a match is over some time, and a freeze succeeds or fails.         *)
(***************************************************************************)
EXTENDS Naturals, Sequences, SequencesExt

CONSTANTS
  Users,
  Queues,      \* queue:<playersCount>:<stakeVp>
  Size,        \* playersCount of each queue
  Handlers,    \* slots for overlapping calls
  Nobody,      \* no user, no queue
  MaxTickets,  \* bound: tickets issued
  MaxAsks,     \* bound: fallbacks that clients ask for by HTTP
  MaxRestarts  \* bound: crashes of the server process

ASSUME QueuesAssumption ==
  /\ Size \in [Queues -> Nat \ {0, 1}]
  /\ Nobody \notin Users \cup Queues

ASSUME QueueBounds == MaxTickets \in Nat /\ MaxAsks \in Nat /\ MaxRestarts \in Nat

\* Tickets are numbered as they are issued.
Tickets == 1 .. MaxTickets

\* A ticket key: not yet set, set for less than 20 s, for longer, or no more.
Age == {"none", "new", "due", "gone"}

\* queue:time:<playersCount>:<stakeVp>: not set, or this long ago.
Since == {"unset", "new", "due", "stale"}

QuickPC    == {"quickMatches", "quickPush", "quickTime", "quickLength"}
AssemblePC == {"take", "read", "freeze", "delete", "create", "reset", "unlock"}
FallbackPC == {"bot", "botDelete", "botCreate", "botPush", "assembled"}
PC         == {"idle", "lock"} \cup QuickPC \cup AssemblePC \cup FallbackPC

\* pc is the next operation, ret where tryAssembleMatch returns to.
Handler == [pc : PC, queue : Queues \cup {Nobody}, user : Users \cup {Nobody},
            ticket : Tickets \cup {0}, taken : Seq(Tickets), force : BOOLEAN, ret : PC]

VARIABLES
  ticket,     \* the ticket keys: age, user, queue
  queue,      \* the lists of ticket ids
  since,      \* when a queue started
  locked,     \* queue:lock:<playersCount>:<stakeVp>
  hs,         \* the handlers
  scheduled,  \* tickets whose 100 ms timeout is pending
  fallbacks,  \* per ticket, fallbacks pending in the gateway or asked for
  matches,    \* the active matches, as the sets of tickets they were made from
  asks,       \* fallbacks still to be asked for
  restarts,   \* crashes still to come
  made        \* per ticket, matches made of it by tryAssembleMatch and by fallback

keys   == <<ticket, queue, since, locked>>
timing == <<scheduled, fallbacks, asks, restarts>>
vars   == <<ticket, queue, since, locked, hs, scheduled, fallbacks, matches, asks, restarts,
            made>>

Idle == [pc |-> "idle", queue |-> Nobody, user |-> Nobody, ticket |-> 0, taken |-> <<>>,
         force |-> FALSE, ret |-> "idle"]

Unissued == [age |-> "none", user |-> Nobody, queue |-> Nobody]

Init ==
  /\ ticket = [t \in Tickets |-> Unissued]
  /\ queue = [q \in Queues |-> <<>>]
  /\ since = [q \in Queues |-> "unset"]
  /\ locked = [q \in Queues |-> FALSE]
  /\ hs = [h \in Handlers |-> Idle]
  /\ scheduled = {}
  /\ fallbacks = [t \in Tickets |-> 0]
  /\ matches = {}
  /\ asks = MaxAsks
  /\ restarts = MaxRestarts
  /\ made = [t \in Tickets |-> [queue |-> 0, bot |-> 0]]

-----------------------------------------------------------------------------
(* Helpers *)

Alive(t)   == ticket[t].age \in {"new", "due"}
Listed(t)  == \E q \in Queues : t \in ToSet(queue[q])
Waiting(t) == Alive(t) /\ Listed(t)

PlayersOf(m) == {ticket[t].user : t \in m}

DeleteNone(S) == UNCHANGED ticket                     \* variant

Delete(S) == ticket' = [t \in Tickets |-> IF t \in S /\ Alive(t)
                                          THEN [ticket[t] EXCEPT !.age = "gone"]
                                          ELSE ticket[t]]

\* The positions I from the lowest to the highest.
Ascending(I) ==
  CHOOSE p \in [1 .. Cardinality(I) -> I] :
    /\ \A i \in I : \E k \in DOMAIN p : p[k] = i
    /\ \A j, k \in DOMAIN p : j < k => p[j] < p[k]

\* What s has at the positions I.
Keep(s, I) == [k \in 1 .. Cardinality(I) |-> s[Ascending(I)[k]]]

Living(s) == {i \in DOMAIN s : Alive(s[i])}

\* cleanExpiredTicketsFromQueue: ids without a ticket leave the list.  (The key
\* it then deletes is not that of any queue's start.)
Cleaned(q) == Keep(queue[q], Living(queue[q]))

AllTickets(s, I) == I                                 \* variant

\* Of the positions I those where a user comes for the first time.
FirstOfUser(s, I) ==
  {i \in I : \A j \in I : j < i => ticket[s[j]].user # ticket[s[i]].user}

Quiet == \A h \in Handlers : hs[h].pc = "idle"

To(h, pc) == hs' = [hs EXCEPT ![h].pc = pc]
Done(h)   == hs' = [hs EXCEPT ![h] = Idle]

\* The tickets and force are of no more use to tryAssembleMatch.
Leave(h, pc) == hs' = [hs EXCEPT ![h].pc = pc, ![h].taken = <<>>, ![h].force = FALSE]

CallAssemble(h, q, t, force, ret) ==
  hs' = [hs EXCEPT ![h] = [Idle EXCEPT !.pc = "lock", !.queue = q, !.ticket = t,
                                       !.force = force, !.ret = ret]]

Return(h) ==
  IF hs[h].ret = "idle" THEN Done(h)
  ELSE hs' = [hs EXCEPT ![h].pc = hs[h].ret, ![h].force = FALSE, ![h].ret = "idle"]

-----------------------------------------------------------------------------
(* quickPlay *)

\* The advisory lock of a user belongs to a database session, is re-entrant
\* there, and each query takes any session of the pool: a call may be refused
\* while another one runs, and may as well not be.  One that is refused, or
\* whose balance is too low, changes nothing.  This step is the first check:
\* no ticket of the user in any queue.
QuickPlay(h, u, q) ==
  /\ hs[h].pc = "idle"
  /\ \E t \in Tickets : ticket[t] = Unissued
  /\ ~\E t \in Tickets : Waiting(t) /\ ticket[t].user = u
  /\ hs' = [hs EXCEPT ![h] = [Idle EXCEPT !.pc = "quickMatches", !.queue = q, !.user = u]]
  /\ UNCHANGED <<keys, timing, matches, made>>

\* The second check: no active match of the user.
IgnoresMatches(u) == TRUE                             \* variant
NotInMatch(u)     == \A m \in matches : u \notin PlayersOf(m)

QuickMatches(h) ==
  /\ hs[h].pc = "quickMatches"
  /\ IF NotInMatch(hs[h].user) THEN To(h, "quickPush") ELSE Done(h)
  /\ UNCHANGED <<keys, timing, matches, made>>

NewTicketOfNobody(h) == [age |-> "new", user |-> Nobody, queue |-> hs[h].queue]  \* variant
NewTicket(h) == [age |-> "new", user |-> hs[h].user, queue |-> hs[h].queue]

\* Set the ticket and append its id.
QuickPush(h) ==
  /\ hs[h].pc = "quickPush"
  /\ \E t \in Tickets :
       /\ ticket[t] = Unissued
       /\ \A s \in 1 .. (t - 1) : ticket[s] # Unissued
       /\ ticket' = [ticket EXCEPT ![t] = NewTicket(h)]
       /\ queue' = [queue EXCEPT ![hs[h].queue] = Append(@, t)]
       /\ hs' = [hs EXCEPT ![h].pc = "quickTime", ![h].user = Nobody, ![h].ticket = t]
  /\ UNCHANGED <<since, locked, timing, matches, made>>

\* Start the queue's time if it is not running, schedule the attempt to make
\* a match.  A call by socket goes on, one by HTTP is done.
QuickTime(h) ==
  /\ hs[h].pc = "quickTime"
  /\ since' = [since EXCEPT ![hs[h].queue] = IF @ = "unset" THEN "new" ELSE @]
  /\ scheduled' = scheduled \cup {hs[h].ticket}
  /\ Done(h) \/ To(h, "quickLength")
  /\ UNCHANGED <<ticket, queue, locked, fallbacks, asks, restarts, matches, made>>

\* getQueueLength cleans the queue; then the gateway sets the fallback's timer.
QuickLength(h) ==
  /\ hs[h].pc = "quickLength"
  /\ queue' = [queue EXCEPT ![hs[h].queue] = Cleaned(hs[h].queue)]
  /\ fallbacks' = [fallbacks EXCEPT ![hs[h].ticket] = @ + 1]
  /\ Done(h)
  /\ UNCHANGED <<ticket, since, locked, scheduled, asks, restarts, matches, made>>

-----------------------------------------------------------------------------
(* tryAssembleMatch *)

\* SET queue:lock NX; without it the call returns nothing.
QueueLock(h) ==
  LET q == hs[h].queue
  IN  /\ hs[h].pc = "lock"
      /\ IF locked[q] THEN Return(h) ELSE To(h, "take")
      /\ locked' = [locked EXCEPT ![q] = TRUE]
      /\ UNCHANGED <<ticket, queue, since, timing, matches, made>>

\* variant: never of one player
ReadyPairs(q, n, force) == n >= 2 /\ (force \/ since[q] = "due" \/ n >= Size[q])

\* A match is made by force (after 20 s), when the time is up or of a full
\* queue; of one player only by force.
Ready(q, n, force) == n >= 1 /\ (force \/ (n >= 2 /\ (since[q] = "due" \/ n >= Size[q])))

\* Clean the queue, look at its length and its time, pop as many as can play.
Take(h) ==
  LET q == hs[h].queue
      s == Cleaned(q)
      n == IF Len(s) < Size[q] THEN Len(s) ELSE Size[q]
  IN  /\ hs[h].pc = "take"
      /\ IF Ready(q, Len(s), hs[h].force)
         THEN /\ queue' = [queue EXCEPT ![q] = SubSeq(s, n + 1, Len(s))]
              /\ hs' = [hs EXCEPT ![h].pc = "read", ![h].taken = SubSeq(s, 1, n)]
         ELSE /\ queue' = [queue EXCEPT ![q] = s]
              /\ Leave(h, IF s = <<>> THEN "reset" ELSE "unlock")
      /\ since' = [since EXCEPT ![q] =
                     IF @ = "stale" /\ (Len(s) >= 2 \/ (Len(s) = 1 /\ hs[h].force)) THEN "new" ELSE @]
      /\ UNCHANGED <<ticket, locked, timing, matches, made>>

\* Read the tickets; drop those that expired and delete those of a user who has
\* come before, with the same id or another.  One that is left alone goes back
\* to the head of the queue, unless by force.
ReadTickets(h) ==
  LET q     == hs[h].queue
      read  == Living(hs[h].taken)
      first == FirstOfUser(hs[h].taken, read)
      valid == Keep(hs[h].taken, first)
  IN  /\ hs[h].pc = "read"
      /\ Delete({hs[h].taken[i] : i \in read \ first})
      /\ IF valid = <<>>
         THEN Leave(h, "unlock") /\ UNCHANGED queue
         ELSE IF Len(valid) < 2 /\ ~hs[h].force
         THEN Leave(h, "unlock") /\ queue' = [queue EXCEPT ![q] = valid \o @]
         ELSE /\ hs' = [hs EXCEPT ![h].pc = "freeze", ![h].taken = valid, ![h].force = FALSE]
              /\ UNCHANGED queue
      /\ UNCHANGED <<since, locked, timing, matches, made>>

\* Freeze the stakes.  When one fails those frozen are returned and all the
\* tickets are deleted.
Freeze(h) ==
  LET players == ToSet(hs[h].taken)
  IN  /\ hs[h].pc = "freeze"
      /\ \/ To(h, "delete") /\ UNCHANGED ticket
         \/ Leave(h, "unlock") /\ Delete(players)
      /\ UNCHANGED <<queue, since, locked, timing, matches, made>>

DeleteTickets(h) ==
  /\ hs[h].pc = "delete"
  /\ Delete(ToSet(hs[h].taken))
  /\ To(h, "create")
  /\ UNCHANGED <<queue, since, locked, timing, matches, made>>

CreateMatch(h) ==
  LET players == ToSet(hs[h].taken)
  IN  /\ hs[h].pc = "create"
      /\ matches' = matches \cup {players}
      /\ made' = [t \in Tickets |-> IF t \in players THEN [made[t] EXCEPT !.queue = @ + 1] ELSE made[t]]
      /\ hs' = [hs EXCEPT ![h].pc = "reset", ![h].taken = <<>>,
                          ![h].ret = IF @ = "bot" THEN "assembled" ELSE @]
      /\ UNCHANGED <<keys, timing>>

\* The queue's time is deleted with the match made of it, or when it is empty.
ResetTime(h) ==
  /\ hs[h].pc = "reset"
  /\ since' = [since EXCEPT ![hs[h].queue] = "unset"]
  /\ To(h, "unlock")
  /\ UNCHANGED <<ticket, queue, locked, timing, matches, made>>

QueueUnlock(h) ==
  /\ hs[h].pc = "unlock"
  /\ locked' = [locked EXCEPT ![hs[h].queue] = FALSE]
  /\ Return(h)
  /\ UNCHANGED <<ticket, queue, since, timing, matches, made>>

\* The timeout set by quickPlay.
Scheduled(h, t) ==
  /\ hs[h].pc = "idle"
  /\ t \in scheduled
  /\ scheduled' = scheduled \ {t}
  /\ CallAssemble(h, ticket[t].queue, 0, FALSE, "idle")
  /\ UNCHANGED <<keys, fallbacks, asks, restarts, matches, made>>

-----------------------------------------------------------------------------
(* processQueueTimeouts, of one queue *)

QueueTick(h, q) ==
  /\ hs[h].pc = "idle"
  /\ queue[q] # <<>>
  /\ \/ since[q] = "unset" /\ since' = [since EXCEPT ![q] = "new"] /\ UNCHANGED hs
     \/ since[q] \in {"due", "stale"} /\ CallAssemble(h, q, 0, TRUE, "idle") /\ UNCHANGED since
  /\ UNCHANGED <<ticket, queue, locked, timing, matches, made>>

-----------------------------------------------------------------------------
(* fallbackToBotIfTimedOut *)

\* A client may ask for the fallback of a ticket, too.
AskFallback(t) ==
  /\ asks > 0
  /\ asks' = asks - 1
  /\ ticket[t] # Unissued
  /\ fallbacks' = [fallbacks EXCEPT ![t] = @ + 1]
  /\ UNCHANGED <<keys, hs, scheduled, restarts, matches, made>>

\* The call reads its ticket every few seconds, ends when there is none, and
\* goes on to tryAssembleMatch by force when it is due.
Fallback(h, t) ==
  /\ hs[h].pc = "idle"
  /\ fallbacks[t] > 0
  /\ ticket[t].age \in {"due", "gone"}
  /\ fallbacks' = [fallbacks EXCEPT ![t] = @ - 1]
  /\ IF Alive(t) THEN CallAssemble(h, ticket[t].queue, t, TRUE, "bot") ELSE UNCHANGED hs
  /\ UNCHANGED <<keys, scheduled, asks, restarts, matches, made>>

\* A match was made: delete the ticket, tell the client of the match.
Assembled(h) ==
  /\ hs[h].pc = "assembled"
  /\ Delete({hs[h].ticket})
  /\ Done(h)
  /\ UNCHANGED <<queue, since, locked, timing, matches, made>>

\* No match was made: the house can pay for the bots or it is for practice; a
\* freeze fails, and is undone, or not.
BotStakes(h) ==
  /\ hs[h].pc = "bot"
  /\ To(h, "botDelete") \/ To(h, "botPush")
  /\ UNCHANGED <<keys, timing, matches, made>>

\* After a failed freeze the ticket goes to the end of the queue.
BotPush(h) ==
  /\ hs[h].pc = "botPush"
  /\ queue' = [queue EXCEPT ![hs[h].queue] = Append(@, hs[h].ticket)]
  /\ Done(h)
  /\ UNCHANGED <<ticket, since, locked, timing, matches, made>>

BotDelete(h) ==
  /\ hs[h].pc = "botDelete"
  /\ Delete({hs[h].ticket})
  /\ To(h, "botCreate")
  /\ UNCHANGED <<queue, since, locked, timing, matches, made>>

BotCreate(h) ==
  /\ hs[h].pc = "botCreate"
  /\ matches' = matches \cup {{hs[h].ticket}}
  /\ made' = [made EXCEPT ![hs[h].ticket].bot = @ + 1]
  /\ Done(h)
  /\ UNCHANGED <<keys, timing>>

-----------------------------------------------------------------------------
(* Time, the end of matches, and a crash *)

\* Tickets are due in the order they were issued, long after quickPlay.
TicketDue(t) ==
  /\ ticket[t].age = "new"
  /\ \A s \in 1 .. (t - 1) : ticket[s].age # "new"
  /\ t \notin scheduled
  /\ \A h \in Handlers : hs[h].ticket # t
  /\ ticket' = [ticket EXCEPT ![t].age = "due"]
  /\ UNCHANGED <<queue, since, locked, hs, timing, matches, made>>

\* EX 60
TicketExpire(t) ==
  /\ ticket[t].age = "due"
  /\ ticket' = [ticket EXCEPT ![t].age = "gone"]
  /\ UNCHANGED <<queue, since, locked, hs, timing, matches, made>>

\* An hour passes only while nobody waits.
QueueDue(q) ==
  /\ \/ since[q] = "new" /\ since' = [since EXCEPT ![q] = "due"]
     \/ since[q] = "due" /\ queue[q] = <<>> /\ Quiet /\ since' = [since EXCEPT ![q] = "stale"]
  /\ UNCHANGED <<ticket, queue, locked, hs, timing, matches, made>>

\* EX 5: longer than any call, so what is left is the lock of a crashed one.
QueueLockExpire(q) ==
  /\ locked[q]
  /\ \A h \in Handlers : hs[h].pc \in AssemblePC => hs[h].queue # q
  /\ locked' = [locked EXCEPT ![q] = FALSE]
  /\ UNCHANGED <<ticket, queue, since, hs, timing, matches, made>>

MatchOver(m) ==
  /\ m \in matches
  /\ matches' = matches \ {m}
  /\ UNCHANGED <<keys, hs, timing, made>>

\* The keys in Redis survive a restart of the process, calls and timeouts don't.
Crash ==
  /\ restarts > 0
  /\ restarts' = restarts - 1
  /\ hs' = [h \in Handlers |-> Idle]
  /\ scheduled' = {}
  /\ fallbacks' = [t \in Tickets |-> 0]
  /\ UNCHANGED <<keys, matches, asks, made>>

-----------------------------------------------------------------------------
Step(h) ==
  \/ QuickMatches(h) \/ QuickPush(h) \/ QuickTime(h) \/ QuickLength(h)
  \/ QueueLock(h) \/ Take(h) \/ ReadTickets(h) \/ Freeze(h) \/ DeleteTickets(h) \/ CreateMatch(h)
  \/ ResetTime(h) \/ QueueUnlock(h)
  \/ Assembled(h) \/ BotStakes(h) \/ BotPush(h) \/ BotDelete(h) \/ BotCreate(h)

Next ==
  \/ \E h \in Handlers : Step(h)
  \/ \E h \in Handlers, u \in Users, q \in Queues : QuickPlay(h, u, q)
  \/ \E h \in Handlers, q \in Queues : QueueTick(h, q)
  \/ \E h \in Handlers, t \in Tickets : Scheduled(h, t) \/ Fallback(h, t)
  \/ \E t \in Tickets : AskFallback(t) \/ TicketDue(t) \/ TicketExpire(t)
  \/ \E q \in Queues : QueueDue(q) \/ QueueLockExpire(q)
  \/ \E m \in matches : MatchOver(m)
  \/ Crash

Spec == Init /\ [][Next]_vars

\* Redis and the database answer, locks run out and the interval comes every
\* second: strong fairness where other calls can keep a slot busy in the model.
\* Tickets need not expire, and users, fallbacks and timeouts need not come.
Fairness ==
  /\ \A h \in Handlers : WF_vars(Step(h))
  /\ \A q \in Queues :
       /\ SF_vars(\E h \in Handlers : QueueTick(h, q))
       /\ SF_vars(QueueLockExpire(q))
       /\ WF_vars(QueueDue(q))

FairSpec == Spec /\ Fairness

-----------------------------------------------------------------------------
(* Properties *)

\* Tickets, lists, locks and calls are what they should be; a ticket has a user
\* and a queue once it is issued.
QueueTypeOK ==
  /\ ticket \in [Tickets -> [age : Age, user : Users \cup {Nobody}, queue : Queues \cup {Nobody}]]
  /\ \A t \in Tickets : ticket[t].age # "none" => ticket[t].user \in Users /\ ticket[t].queue \in Queues
  /\ queue \in [Queues -> Seq(Tickets)]
  /\ since \in [Queues -> Since]
  /\ locked \in [Queues -> BOOLEAN]
  /\ hs \in [Handlers -> Handler]
  /\ scheduled \subseteq Tickets
  /\ fallbacks \in [Tickets -> Nat]
  /\ matches \subseteq SUBSET Tickets
  /\ asks \in Nat
  /\ restarts \in Nat
  /\ made \in [Tickets -> [queue : Nat, bot : Nat]]

\* Between SET queue:lock and its deletion a call of tryAssembleMatch is alone
\* on its queue, whether a timeout, the interval or a fallback made it.
OneAssembler ==
  \A g, h \in Handlers :
    g # h /\ hs[g].pc \in AssemblePC /\ hs[h].pc \in AssemblePC => hs[g].queue # hs[h].queue

\* Nobody plays against himself: a match is made of tickets of different users,
\* though a user may have got two tickets into a queue.
DistinctPlayers == \A m \in matches : \A s, t \in m : ticket[s].user = ticket[t].user => s = t

\* A ticket becomes one match at most, of tryAssembleMatch or of the fallback:
\* the lock is there for "protection against creating a match twice".
OneMatchPerTicket == \A t \in Tickets : made[t].queue + made[t].bot <= 1

\* As long as the server has not crashed, a user waits in one queue, or plays
\* one match, or does neither.
QueueXorMatch ==
  restarts = MaxRestarts =>
    \A u \in Users :
      LET waits == {t \in Tickets : Waiting(t) /\ ticket[t].user = u}
          plays == {m \in matches : u \in PlayersOf(m)}
      IN  Cardinality(waits) + Cardinality(plays) <= 1

\* Nobody waits for ever: also with no other player, no fallback and a lock left
\* by a crash, processQueueTimeouts gets a ticket out of the queue.
NobodyWaitsForEver == \A t \in Tickets : Waiting(t) ~> ~Waiting(t)
=============================================================================
