-------------------------- MODULE MatchQueueProofs --------------------------
(***************************************************************************)
(* What the runs show of a few calls and tickets, for any number of users, *)
(* queues and tickets.                                                     *)
(*                                                                         *)
(* 1. The queue lock excludes, for overlapping calls.  The invariant says  *)
(*    of a call no more than the lock needs: calls have the fields of Idle,*)
(*    one past SET queue:lock has a queue whose lock is set, and the       *)
(*    tickets from which calls take their queues were issued.              *)
(* 2. Types (QueueTypes) and different players (Players), for overlapping  *)
(*    calls: the tickets a call holds from reading them to the match are   *)
(*    each of another user, and a ticket's user is set once.               *)
(* 3. For calls that come one at a time, whatever crashes: a ticket is     *)
(*    deleted before a match is made of it, and made into nothing after    *)
(*    that (Once).                                                         *)
(* 4. For calls that come one at a time, until the first crash: what is    *)
(*    alive is listed or in the call's hand, and a call on its way to a    *)
(*    ticket or to a match has users who have nothing else (Apart).        *)
(***************************************************************************)
EXTENDS MatchQueue, FiniteSetTheorems, SequenceTheorems, NaturalsInduction, WellFoundedInduction, TLAPS

Fields == {"pc", "queue", "user", "ticket", "taken", "force", "ret"}

Shaped ==
  /\ hs = [h \in Handlers |-> hs[h]]
  /\ \A h \in Handlers : DOMAIN hs[h] = Fields
  /\ locked \in [Queues -> BOOLEAN]

Issued == {t \in Tickets : ticket[t].age # "none"}

TicketsIssued ==
  /\ ticket = [t \in Tickets |-> ticket[t]]
  /\ \A t \in Tickets : DOMAIN ticket[t] = {"age", "user", "queue"}
  /\ \A t \in Issued : ticket[t].queue \in Queues
  /\ scheduled \subseteq Issued

\* c is a call as it may be.
CallOK(c) ==
  /\ c.pc # "idle" => c.queue \in Queues
  /\ c.pc = "quickTime" => c.ticket \in Issued
  /\ c.ret \in {"idle", "bot", "assembled"}

CallsHaveQueues == \A h \in Handlers : CallOK(hs[h])

LocksHeld == \A h \in Handlers : hs[h].pc \in AssemblePC => locked[hs[h].queue]

QInv == Shaped /\ TicketsIssued /\ CallsHaveQueues /\ LocksHeld /\ OneAssembler

LEMMA QInit == Init => QInv
<1> SUFFICES ASSUME Init PROVE QInv
  OBVIOUS
<1>1. Shaped
  BY DEF Init, Shaped, Idle, Fields
<1>2. TicketsIssued
  BY DEF Init, TicketsIssued, Unissued, Issued, Age
<1>3. CallsHaveQueues /\ LocksHeld /\ OneAssembler
  BY DEF Init, CallsHaveQueues, CallOK, LocksHeld, OneAssembler, Idle, AssemblePC
<1> QED
  BY <1>1, <1>2, <1>3 DEF QInv

\* A step of one call that sets no lock and enters no part of tryAssembleMatch
\* behind it: what has to be shown is about that call.
LEMMA OneCall ==
  ASSUME QInv, NEW h \in Handlers,
         hs' = [g \in Handlers |-> IF g = h THEN hs'[h] ELSE hs[g]],
         DOMAIN hs'[h] = Fields,
         TicketsIssued', Issued \subseteq Issued', UNCHANGED locked,
         CallOK(hs[h])',
         hs'[h].pc \in AssemblePC => hs[h].pc \in AssemblePC /\ hs'[h].queue = hs[h].queue
  PROVE  QInv'
<1>1. \A g \in Handlers : g # h => hs'[g] = hs[g]
  OBVIOUS
<1>2. Shaped'
  <2>1. \A g \in Handlers : DOMAIN hs'[g] = Fields
    BY <1>1 DEF QInv, Shaped
  <2> QED
    BY <2>1 DEF QInv, Shaped
<1>3. CallsHaveQueues'
  BY <1>1 DEF QInv, CallsHaveQueues, CallOK
<1>4. LocksHeld'
  BY <1>1 DEF QInv, LocksHeld
<1>5. OneAssembler'
  BY <1>1 DEF QInv, OneAssembler
<1> QED
  BY <1>2, <1>3, <1>4, <1>5 DEF QInv

\* No ticket that was issued is taken back.
LEMMA DeleteKeeps ==
  ASSUME TicketsIssued, NEW S, Delete(S), UNCHANGED scheduled
  PROVE  TicketsIssued' /\ Issued \subseteq Issued'
<1>1. /\ \A t \in Tickets : ticket'[t] = IF t \in S /\ Alive(t)
                                        THEN [ticket[t] EXCEPT !.age = "gone"] ELSE ticket[t]
      /\ ticket' = [t \in Tickets |-> ticket'[t]]
  BY DEF Delete
<1>2. \A t \in Tickets :
        /\ DOMAIN ticket'[t] = {"age", "user", "queue"}
        /\ ticket'[t].queue = ticket[t].queue
        /\ ticket'[t].age # "none" <=> ticket[t].age # "none"
  BY <1>1 DEF TicketsIssued, Alive, Age
<1> QED
  BY <1>1, <1>2 DEF TicketsIssued, Issued

\* What a step leaves alone.
LEMMA TicketsKept ==
  ASSUME TicketsIssued, UNCHANGED <<ticket, scheduled>>
  PROVE  TicketsIssued' /\ Issued \subseteq Issued'
BY DEF TicketsIssued, Issued

\* Call h goes on at p, for the same queue.
GoesOn(h, p) ==
  /\ hs' = [g \in Handlers |-> IF g = h THEN hs'[h] ELSE hs[g]]
  /\ DOMAIN hs'[h] = Fields
  /\ hs'[h].pc = p
  /\ hs'[h].queue = hs[h].queue
  /\ hs'[h].ret = hs[h].ret

LEMMA ToGoesOn ==
  ASSUME Shaped, NEW h \in Handlers, NEW p, To(h, p)
  PROVE  GoesOn(h, p)
BY DEF Shaped, To, GoesOn, Fields

LEMMA TakenGoesOn ==
  ASSUME Shaped, NEW h \in Handlers, NEW p, NEW n,
         \/ hs' = [hs EXCEPT ![h].pc = p, ![h].taken = n]
         \/ hs' = [hs EXCEPT ![h].pc = p, ![h].taken = n, ![h].force = FALSE]
  PROVE  GoesOn(h, p)
<1>1. hs' = [g \in Handlers |-> IF g = h THEN hs'[h] ELSE hs[g]]
  BY DEF Shaped
<1>2. \/ hs'[h] = [[hs[h] EXCEPT !.pc = p] EXCEPT !.taken = n]
      \/ hs'[h] = [[[hs[h] EXCEPT !.pc = p] EXCEPT !.taken = n] EXCEPT !.force = FALSE]
  BY DEF Shaped
<1> QED
  BY <1>1, <1>2 DEF Shaped, GoesOn, Fields

\* A call that goes on without setting a lock or entering tryAssembleMatch.
LEMMA GoingOn ==
  ASSUME QInv, NEW h \in Handlers, NEW p, GoesOn(h, p),
         TicketsIssued', Issued \subseteq Issued', UNCHANGED locked,
         hs[h].pc # "idle",
         p # "quickTime",
         p \in AssemblePC => hs[h].pc \in AssemblePC
  PROVE  QInv'
<1>1. CallOK(hs[h])'
  BY DEF QInv, CallsHaveQueues, CallOK, GoesOn
<1> QED
  BY <1>1, OneCall DEF GoesOn

LEMMA Ending ==
  ASSUME QInv, NEW h \in Handlers, Done(h),
         TicketsIssued', Issued \subseteq Issued', UNCHANGED locked
  PROVE  QInv'
<1>1. /\ hs' = [g \in Handlers |-> IF g = h THEN hs'[h] ELSE hs[g]]
      /\ hs'[h] = Idle
  BY DEF QInv, Shaped, Done
<1>2. DOMAIN hs'[h] = Fields /\ CallOK(hs[h])' /\ hs'[h].pc \notin AssemblePC
  BY <1>1 DEF Idle, Fields, CallOK, AssemblePC
<1> QED
  BY <1>1, <1>2, OneCall

\* A new call of tryAssembleMatch is not yet behind the lock.
LEMMA Calling ==
  ASSUME QInv, NEW h \in Handlers, NEW q \in Queues, NEW t, NEW force,
         NEW ret \in {"idle", "bot"}, CallAssemble(h, q, t, force, ret),
         TicketsIssued', Issued \subseteq Issued', UNCHANGED locked
  PROVE  QInv'
<1>1. /\ hs' = [g \in Handlers |-> IF g = h THEN hs'[h] ELSE hs[g]]
      /\ hs'[h] = [pc |-> "lock", queue |-> q, user |-> Nobody, ticket |-> t, taken |-> <<>>,
                   force |-> force, ret |-> ret]
  BY DEF QInv, Shaped, CallAssemble, Idle
<1>2. DOMAIN hs'[h] = Fields /\ CallOK(hs[h])' /\ hs'[h].pc \notin AssemblePC
  BY <1>1 DEF Fields, CallOK, AssemblePC
<1> QED
  BY <1>1, <1>2, OneCall

\* tryAssembleMatch returns to nowhere or to the fallback that called it.
LEMMA Returning ==
  ASSUME Shaped, CallsHaveQueues, NEW h \in Handlers, Return(h), hs[h].pc # "idle"
  PROVE  /\ hs' = [g \in Handlers |-> IF g = h THEN hs'[h] ELSE hs[g]]
         /\ DOMAIN hs'[h] = Fields
         /\ hs'[h].pc \in {"idle", "bot", "assembled"}
         /\ hs'[h].pc # "idle" => hs'[h].queue \in Queues
         /\ hs'[h].ret = "idle"
<1>1. CASE hs[h].ret = "idle"
  BY <1>1 DEF Return, Done, Shaped, Idle, Fields
<1>2. CASE hs[h].ret # "idle"
  <2>1. hs' = [g \in Handlers |-> IF g = h THEN hs'[h] ELSE hs[g]]
    BY <1>2 DEF Return, Shaped
  <2>2. hs'[h] = [[[hs[h] EXCEPT !.pc = hs[h].ret] EXCEPT !.force = FALSE] EXCEPT !.ret = "idle"]
    BY <1>2 DEF Return, Shaped
  <2>3. hs[h].ret \in {"bot", "assembled"} /\ hs[h].queue \in Queues
    BY <1>2 DEF CallsHaveQueues, CallOK
  <2> QED
    BY <2>1, <2>2, <2>3 DEF Shaped, Fields
<1> QED
  BY <1>1, <1>2

-----------------------------------------------------------------------------
LEMMA QuickSteps ==
  ASSUME QInv, NEW h \in Handlers,
         QuickMatches(h) \/ QuickPush(h) \/ QuickTime(h) \/ QuickLength(h)
  PROVE  QInv'
<1>1. CASE QuickMatches(h)
  <2>1. TicketsIssued' /\ Issued \subseteq Issued' /\ UNCHANGED locked
    BY <1>1, TicketsKept DEF QuickMatches, keys, timing, QInv
  <2>2. To(h, "quickPush") \/ Done(h)
    BY <1>1 DEF QuickMatches
  <2> QED
    BY <1>1, <2>1, <2>2, ToGoesOn, GoingOn, Ending DEF QuickMatches, QInv, AssemblePC
<1>2. CASE QuickPush(h)
  <2> USE <1>2 DEF QuickPush, QInv
  <2>1. PICK t \in Tickets :
          /\ ticket[t] = Unissued
          /\ ticket' = [ticket EXCEPT ![t] = NewTicket(h)]
          /\ hs' = [hs EXCEPT ![h].pc = "quickTime", ![h].user = Nobody, ![h].ticket = t]
    OBVIOUS
  <2>2. TicketsIssued' /\ Issued \subseteq Issued' /\ t \in Issued'
    BY <2>1 DEF TicketsIssued, Issued, NewTicket, timing, CallsHaveQueues, CallOK, Unissued
  <2>3. hs' = [g \in Handlers |-> IF g = h THEN hs'[h] ELSE hs[g]]
    BY <2>1 DEF Shaped
  <2>4. hs'[h] = [[[hs[h] EXCEPT !.pc = "quickTime"] EXCEPT !.user = Nobody] EXCEPT !.ticket = t]
    BY <2>1 DEF Shaped
  <2>5. /\ DOMAIN hs'[h] = Fields
        /\ hs'[h].pc = "quickTime"
        /\ hs'[h].queue = hs[h].queue
        /\ hs'[h].ticket = t
        /\ hs'[h].ret = hs[h].ret
    BY <2>4 DEF Shaped, Fields
  <2>6. CallOK(hs[h])' /\ hs'[h].pc \notin AssemblePC
    BY <2>2, <2>5 DEF CallsHaveQueues, CallOK, AssemblePC
  <2> QED
    BY <2>2, <2>3, <2>5, <2>6, OneCall
<1>3. CASE QuickTime(h)
  <2>1. TicketsIssued' /\ Issued \subseteq Issued' /\ UNCHANGED locked
    BY <1>3 DEF QuickTime, QInv, TicketsIssued, Issued, CallsHaveQueues, CallOK
  <2>2. Done(h) \/ To(h, "quickLength")
    BY <1>3 DEF QuickTime
  <2> QED
    BY <1>3, <2>1, <2>2, ToGoesOn, GoingOn, Ending DEF QuickTime, QInv, AssemblePC
<1>4. CASE QuickLength(h)
  <2>1. TicketsIssued' /\ Issued \subseteq Issued'
    BY <1>4, TicketsKept DEF QuickLength, QInv
  <2> QED
    BY <1>4, <2>1, Ending DEF QuickLength
<1> QED
  BY <1>1, <1>2, <1>3, <1>4

LEMMA FallbackSteps ==
  ASSUME QInv, NEW h \in Handlers,
         Assembled(h) \/ BotStakes(h) \/ BotPush(h) \/ BotDelete(h) \/ BotCreate(h)
  PROVE  QInv'
<1>1. CASE Assembled(h)
  BY <1>1, DeleteKeeps, Ending DEF Assembled, timing, QInv
<1>2. CASE BotStakes(h)
  <2>1. TicketsIssued' /\ Issued \subseteq Issued' /\ UNCHANGED locked
    BY <1>2, TicketsKept DEF BotStakes, keys, timing, QInv
  <2>2. To(h, "botDelete") \/ To(h, "botPush")
    BY <1>2 DEF BotStakes
  <2> QED
    BY <1>2, <2>1, <2>2, ToGoesOn, GoingOn DEF BotStakes, QInv, AssemblePC
<1>3. CASE BotPush(h)
  BY <1>3, TicketsKept, Ending DEF BotPush, timing, QInv
<1>4. CASE BotDelete(h)
  <2>1. TicketsIssued' /\ Issued \subseteq Issued' /\ UNCHANGED locked
    BY <1>4, DeleteKeeps DEF BotDelete, timing, QInv
  <2> QED
    BY <1>4, <2>1, ToGoesOn, GoingOn DEF BotDelete, QInv, AssemblePC
<1>5. CASE BotCreate(h)
  BY <1>5, TicketsKept, Ending DEF BotCreate, keys, timing, QInv
<1> QED
  BY <1>1, <1>2, <1>3, <1>4, <1>5

LEMMA AssembleSteps ==
  ASSUME QInv, NEW h \in Handlers,
         \/ Take(h) \/ ReadTickets(h) \/ Freeze(h)
         \/ DeleteTickets(h) \/ CreateMatch(h) \/ ResetTime(h)
  PROVE  QInv'
<1>0. hs[h].pc \in AssemblePC /\ hs[h].pc # "idle" /\ UNCHANGED locked
  BY DEF Take, ReadTickets, Freeze, DeleteTickets, CreateMatch, ResetTime, AssemblePC, keys
<1>1. CASE Take(h)
  <2>1. TicketsIssued' /\ Issued \subseteq Issued'
    BY <1>1, TicketsKept DEF Take, timing, QInv
  <2>2. \E p \in {"read", "reset", "unlock"} : GoesOn(h, p)
    <3>1. \/ \E n : hs' = [hs EXCEPT ![h].pc = "read", ![h].taken = n]
          \/ \E p \in {"reset", "unlock"} : Leave(h, p)
      BY <1>1 DEF Take
    <3> QED
      BY <3>1, TakenGoesOn DEF QInv, Leave
  <2> QED
    BY <1>0, <2>1, <2>2, GoingOn DEF AssemblePC
<1>2. CASE ReadTickets(h)
  <2>1. TicketsIssued' /\ Issued \subseteq Issued'
    BY <1>2, DeleteKeeps DEF ReadTickets, timing, QInv
  <2>2. \E p \in {"freeze", "unlock"} : GoesOn(h, p)
    <3>1. \/ \E n : hs' = [hs EXCEPT ![h].pc = "freeze", ![h].taken = n, ![h].force = FALSE]
          \/ Leave(h, "unlock")
      BY <1>2 DEF ReadTickets
    <3> QED
      BY <3>1, TakenGoesOn DEF QInv, Leave
  <2> QED
    BY <1>0, <2>1, <2>2, GoingOn DEF AssemblePC
<1>3. CASE Freeze(h)
  <2>1. TicketsIssued' /\ Issued \subseteq Issued'
    BY <1>3, DeleteKeeps, TicketsKept DEF Freeze, timing, QInv
  <2>2. GoesOn(h, "delete") \/ GoesOn(h, "unlock")
    BY <1>3, ToGoesOn, TakenGoesOn DEF Freeze, QInv, Leave
  <2> QED
    BY <1>0, <2>1, <2>2, GoingOn DEF AssemblePC
<1>4. CASE DeleteTickets(h)
  <2>1. TicketsIssued' /\ Issued \subseteq Issued'
    BY <1>4, DeleteKeeps DEF DeleteTickets, timing, QInv
  <2>2. GoesOn(h, "create")
    BY <1>4, ToGoesOn DEF DeleteTickets, QInv
  <2> QED
    BY <1>0, <2>1, <2>2, GoingOn DEF AssemblePC
<1>5. CASE CreateMatch(h)
  <2>1. TicketsIssued' /\ Issued \subseteq Issued'
    BY <1>5, TicketsKept DEF CreateMatch, keys, timing, QInv
  <2>2. PICK r : /\ hs' = [hs EXCEPT ![h].pc = "reset", ![h].taken = <<>>, ![h].ret = r]
                 /\ r = IF hs[h].ret = "bot" THEN "assembled" ELSE hs[h].ret
    <3>1. CASE hs[h].ret = "bot"
      BY <1>5, <3>1 DEF CreateMatch
    <3>2. CASE hs[h].ret # "bot"
      BY <1>5, <3>2 DEF CreateMatch
    <3> QED
      BY <3>1, <3>2
  <2>3. hs' = [g \in Handlers |-> IF g = h THEN hs'[h] ELSE hs[g]]
    BY <2>2 DEF QInv, Shaped
  <2>4. hs'[h] = [[[hs[h] EXCEPT !.pc = "reset"] EXCEPT !.taken = <<>>] EXCEPT !.ret = r]
    BY <2>2 DEF QInv, Shaped
  <2>5. /\ DOMAIN hs'[h] = Fields
        /\ hs'[h].pc = "reset"
        /\ hs'[h].queue = hs[h].queue
        /\ hs'[h].ret = r
    BY <2>4 DEF QInv, Shaped, Fields
  <2>6. CallOK(hs[h])'
    BY <1>0, <2>2, <2>5 DEF QInv, CallsHaveQueues, CallOK
  <2> QED
    BY <1>0, <2>1, <2>3, <2>5, <2>6, OneCall
<1>6. CASE ResetTime(h)
  <2>1. TicketsIssued' /\ Issued \subseteq Issued'
    BY <1>6, TicketsKept DEF ResetTime, timing, QInv
  <2>2. GoesOn(h, "unlock")
    BY <1>6, ToGoesOn DEF ResetTime, QInv
  <2> QED
    BY <1>0, <2>1, <2>2, GoingOn DEF AssemblePC
<1> QED
  BY <1>1, <1>2, <1>3, <1>4, <1>5, <1>6

\* SET queue:lock NX lets in a call only while nobody is behind the lock.
LEMMA LockStep ==
  ASSUME QInv, NEW h \in Handlers, QueueLock(h)
  PROVE  QInv'
<1> DEFINE q == hs[h].queue
<1>1. q \in Queues /\ hs[h].pc = "lock"
  BY DEF QInv, CallsHaveQueues, CallOK, QueueLock
<1>2. TicketsIssued' /\ Issued \subseteq Issued'
  BY TicketsKept DEF QueueLock, timing, QInv
<1>3. CASE locked[q]
  <2>1. UNCHANGED locked /\ Return(h)
    BY <1>1, <1>3 DEF QueueLock, QInv, Shaped
  <2>2. /\ hs' = [g \in Handlers |-> IF g = h THEN hs'[h] ELSE hs[g]]
        /\ DOMAIN hs'[h] = Fields
        /\ CallOK(hs[h])'
        /\ hs'[h].pc \notin AssemblePC
    BY <1>1, <2>1, Returning DEF QInv, CallOK, AssemblePC
  <2> QED
    BY <1>2, <2>1, <2>2, OneCall
<1>4. CASE ~locked[q]
  <2>1. GoesOn(h, "take") /\ locked' = [locked EXCEPT ![q] = TRUE]
    BY <1>4, ToGoesOn DEF QueueLock, QInv
  <2>2. \A g \in Handlers : g # h => hs'[g] = hs[g]
    BY <2>1 DEF GoesOn
  <2>3. \A g \in Handlers : g # h /\ hs[g].pc \in AssemblePC => hs[g].queue # q
    BY <1>4 DEF QInv, LocksHeld
  <2>4. Shaped'
    <3>1. \A g \in Handlers : DOMAIN hs'[g] = Fields
      BY <2>1, <2>2 DEF QInv, Shaped, GoesOn
    <3> QED
      BY <2>1, <3>1 DEF QInv, Shaped, GoesOn
  <2>5. CallsHaveQueues'
    BY <1>1, <1>2, <2>1, <2>2 DEF QInv, CallsHaveQueues, CallOK, GoesOn
  <2>6. LocksHeld'
    <3> SUFFICES ASSUME NEW g \in Handlers, hs'[g].pc \in AssemblePC
                 PROVE  locked'[hs'[g].queue]
      BY DEF LocksHeld
    <3>1. CASE g = h
      BY <1>1, <2>1, <3>1 DEF GoesOn, QInv, Shaped
    <3>2. CASE g # h
      <4>1. hs[g].queue \in Queues /\ locked[hs[g].queue] /\ hs'[g].queue = hs[g].queue
        BY <2>2, <3>2 DEF QInv, LocksHeld, CallsHaveQueues, CallOK, AssemblePC
      <4> QED
        BY <2>1, <4>1 DEF QInv, Shaped
    <3> QED
      BY <3>1, <3>2
  <2>7. OneAssembler'
    BY <2>1, <2>2, <2>3 DEF QInv, OneAssembler, GoesOn
  <2> QED
    BY <1>2, <2>4, <2>5, <2>6, <2>7 DEF QInv
<1> QED
  BY <1>3, <1>4

\* The lock that is deleted is that of the call: no other is behind it.
LEMMA UnlockStep ==
  ASSUME QInv, NEW h \in Handlers, QueueUnlock(h)
  PROVE  QInv'
<1> DEFINE q == hs[h].queue
<1>1. q \in Queues /\ hs[h].pc = "unlock"
  BY DEF QInv, CallsHaveQueues, CallOK, QueueUnlock
<1>2. TicketsIssued' /\ Issued \subseteq Issued'
  BY TicketsKept DEF QueueUnlock, timing, QInv
<1>3. locked' = [locked EXCEPT ![q] = FALSE]
  BY DEF QueueUnlock
<1>4. /\ hs' = [g \in Handlers |-> IF g = h THEN hs'[h] ELSE hs[g]]
      /\ DOMAIN hs'[h] = Fields
      /\ CallOK(hs[h])'
      /\ hs'[h].pc \notin AssemblePC
  BY <1>1, Returning DEF QInv, CallOK, AssemblePC, QueueUnlock
<1>5. \A g \in Handlers : g # h => hs'[g] = hs[g]
  BY <1>4
<1>6. Shaped'
  <2>1. \A g \in Handlers : DOMAIN hs'[g] = Fields
    BY <1>4, <1>5 DEF QInv, Shaped
  <2> QED
    BY <1>3, <1>4, <2>1 DEF QInv, Shaped
<1>7. CallsHaveQueues'
  BY <1>2, <1>4, <1>5 DEF QInv, CallsHaveQueues, CallOK
<1>8. LocksHeld'
  <2> SUFFICES ASSUME NEW g \in Handlers, hs'[g].pc \in AssemblePC
               PROVE  locked'[hs'[g].queue]
    BY DEF LocksHeld
  <2>1. g # h /\ hs'[g] = hs[g]
    BY <1>4, <1>5
  <2>2. hs[g].queue # q
    BY <1>1, <2>1 DEF QInv, OneAssembler, AssemblePC
  <2>3. hs[g].queue \in Queues /\ locked[hs[g].queue]
    BY <2>1 DEF QInv, LocksHeld, CallsHaveQueues, CallOK, AssemblePC
  <2> QED
    BY <1>3, <2>1, <2>2, <2>3 DEF QInv, Shaped
<1>9. OneAssembler'
  BY <1>4, <1>5 DEF QInv, OneAssembler
<1> QED
  BY <1>2, <1>6, <1>7, <1>8, <1>9 DEF QInv

LEMMA CallSteps ==
  ASSUME QInv, NEW h \in Handlers,
         \/ \E u \in Users, q \in Queues : QuickPlay(h, u, q)
         \/ \E q \in Queues : QueueTick(h, q)
         \/ \E t \in Tickets : Scheduled(h, t) \/ Fallback(h, t)
  PROVE  QInv'
<1>1. CASE \E u \in Users, q \in Queues : QuickPlay(h, u, q)
  <2>1. PICK u \in Users, q \in Queues : QuickPlay(h, u, q)
    BY <1>1
  <2>2. TicketsIssued' /\ Issued \subseteq Issued' /\ UNCHANGED locked
    BY <2>1, TicketsKept DEF QuickPlay, keys, timing, QInv
  <2>3. /\ hs' = [g \in Handlers |-> IF g = h THEN hs'[h] ELSE hs[g]]
        /\ hs'[h] = [pc |-> "quickMatches", queue |-> q, user |-> u, ticket |-> 0,
                     taken |-> <<>>, force |-> FALSE, ret |-> "idle"]
    BY <2>1 DEF QuickPlay, QInv, Shaped, Idle
  <2>4. DOMAIN hs'[h] = Fields /\ CallOK(hs[h])' /\ hs'[h].pc \notin AssemblePC
    BY <2>3 DEF Fields, CallOK, AssemblePC
  <2> QED
    BY <2>2, <2>3, <2>4, OneCall
<1>2. CASE \E q \in Queues : QueueTick(h, q)
  <2>1. PICK q \in Queues : QueueTick(h, q)
    BY <1>2
  <2>2. TicketsIssued' /\ Issued \subseteq Issued' /\ UNCHANGED locked
    BY <2>1, TicketsKept DEF QueueTick, timing, QInv
  <2>3. CASE UNCHANGED hs
    BY <2>2, <2>3 DEF QInv, Shaped, CallsHaveQueues, CallOK, LocksHeld, OneAssembler
  <2> QED
    BY <2>1, <2>2, <2>3, Calling DEF QueueTick
<1>3. CASE \E t \in Tickets : Scheduled(h, t)
  <2>1. PICK t \in Tickets : Scheduled(h, t)
    BY <1>3
  <2>2. TicketsIssued' /\ Issued \subseteq Issued' /\ UNCHANGED locked
    BY <2>1 DEF Scheduled, keys, QInv, TicketsIssued, Issued
  <2>3. ticket[t].queue \in Queues
    BY <2>1 DEF Scheduled, QInv, TicketsIssued
  <2> QED
    BY <2>1, <2>2, <2>3, Calling DEF Scheduled
<1>4. CASE \E t \in Tickets : Fallback(h, t)
  <2>1. PICK t \in Tickets : Fallback(h, t)
    BY <1>4
  <2>2. TicketsIssued' /\ Issued \subseteq Issued' /\ UNCHANGED locked
    BY <2>1, TicketsKept DEF Fallback, keys, QInv
  <2>3. CASE UNCHANGED hs
    BY <2>2, <2>3 DEF QInv, Shaped, CallsHaveQueues, CallOK, LocksHeld, OneAssembler
  <2>4. ticket[t].queue \in Queues
    BY <2>1 DEF Fallback, QInv, TicketsIssued, Issued
  <2> QED
    BY <2>1, <2>2, <2>3, <2>4, Calling DEF Fallback
<1> QED
  BY <1>1, <1>2, <1>3, <1>4

\* Steps of no call: time, clients, matches, a crash.  A lock expires only when
\* nobody is behind it.
LEMMA OtherSteps ==
  ASSUME QInv,
         \/ \E t \in Tickets : AskFallback(t) \/ TicketDue(t) \/ TicketExpire(t)
         \/ \E q \in Queues : QueueDue(q) \/ QueueLockExpire(q)
         \/ \E m \in matches : MatchOver(m)
         \/ Crash
         \/ UNCHANGED vars
  PROVE  QInv'
<1>1. TicketsIssued' /\ Issued \subseteq Issued' /\ (Crash \/ UNCHANGED hs)
  <2>1. CASE \E t \in Tickets : TicketDue(t) \/ TicketExpire(t)
    <3>1. PICK t \in Tickets, a \in {"due", "gone"} :
            ticket' = [ticket EXCEPT ![t].age = a] /\ UNCHANGED <<hs, scheduled>>
      BY <2>1 DEF TicketDue, TicketExpire, timing
    <3>2. t \in Issued
      BY <2>1, <3>1 DEF TicketDue, TicketExpire, Issued, QInv, TicketsIssued
    <3> QED
      BY <3>1, <3>2 DEF QInv, TicketsIssued, Issued
  <2>2. CASE Crash
    BY <2>2 DEF Crash, keys, QInv, TicketsIssued, Issued
  <2>3. CASE \/ \E t \in Tickets : AskFallback(t)
             \/ \E q \in Queues : QueueDue(q) \/ QueueLockExpire(q)
             \/ \E m \in matches : MatchOver(m)
             \/ UNCHANGED vars
    BY <2>3, TicketsKept
       DEF AskFallback, QueueDue, QueueLockExpire, MatchOver, keys, timing, vars, QInv
  <2> QED
    BY <2>1, <2>2, <2>3
<1>2. CASE Crash
  <2>1. hs' = [g \in Handlers |-> Idle] /\ UNCHANGED locked
    BY <1>2 DEF Crash, keys
  <2>2. \A g \in Handlers : hs'[g] = Idle
    BY <2>1
  <2>3. Shaped'
    BY <2>1 DEF QInv, Shaped, Idle, Fields
  <2>4. CallsHaveQueues' /\ LocksHeld' /\ OneAssembler'
    BY <2>2 DEF CallsHaveQueues, CallOK, LocksHeld, OneAssembler, Idle, AssemblePC
  <2> QED
    BY <1>1, <2>3, <2>4 DEF QInv
<1>3. CASE UNCHANGED <<hs, locked>>
  BY <1>1, <1>3 DEF QInv, Shaped, CallsHaveQueues, CallOK, LocksHeld, OneAssembler
<1>4. CASE \E q \in Queues : QueueLockExpire(q)
  <2>1. PICK q \in Queues : QueueLockExpire(q)
    BY <1>4
  <2>2. \A g \in Handlers : hs[g].pc \in AssemblePC => hs[g].queue \in Queues \ {q}
    BY <2>1 DEF QueueLockExpire, QInv, CallsHaveQueues, CallOK, AssemblePC
  <2>3. UNCHANGED hs /\ locked' = [locked EXCEPT ![q] = FALSE]
    BY <2>1 DEF QueueLockExpire
  <2>4. LocksHeld'
    BY <2>2, <2>3 DEF QInv, LocksHeld, Shaped
  <2> QED
    BY <1>1, <2>3, <2>4 DEF QInv, Shaped, CallsHaveQueues, CallOK, OneAssembler
<1> QED
  BY <1>2, <1>3, <1>4
     DEF AskFallback, TicketDue, TicketExpire, QueueDue, MatchOver, keys, vars

LEMMA QStep == QInv /\ [Next]_vars => QInv'
<1> SUFFICES ASSUME QInv, [Next]_vars PROVE QInv'
  OBVIOUS
<1>1. CASE \E h \in Handlers : Step(h)
  BY <1>1, QuickSteps, FallbackSteps, AssembleSteps, LockStep, UnlockStep DEF Step
<1>2. CASE \/ \E h \in Handlers, u \in Users, q \in Queues : QuickPlay(h, u, q)
           \/ \E h \in Handlers, q \in Queues : QueueTick(h, q)
           \/ \E h \in Handlers, t \in Tickets : Scheduled(h, t) \/ Fallback(h, t)
  BY <1>2, CallSteps
<1>3. CASE \/ \E t \in Tickets : AskFallback(t) \/ TicketDue(t) \/ TicketExpire(t)
           \/ \E q \in Queues : QueueDue(q) \/ QueueLockExpire(q)
           \/ \E m \in matches : MatchOver(m)
           \/ Crash
           \/ UNCHANGED vars
  BY <1>3, OtherSteps
<1> QED
  BY <1>1, <1>2, <1>3 DEF Next

\* However many attempts of the 100 ms timeouts, the interval and the fallbacks
\* overlap, and whatever crashed calls leave behind, one call at a time takes
\* tickets from a queue and makes a match of them.
THEOREM AssemblersExclusive == Spec => []OneAssembler
<1>1. QInv => OneAssembler
  BY DEF QInv
<1> QED
  BY <1>1, QInit, QStep, PTL DEF Spec

-----------------------------------------------------------------------------
(* The invariants *)

\* Where a call has the ticket it is about, the user it is about, a queue.
OfTicket(c) == c.ret # "idle" \/ c.pc \in {"quickTime", "quickLength"} \cup FallbackPC

CallTyped(c) ==
  /\ c.pc # "idle" => c.queue \in Queues
  /\ c.pc \in {"quickMatches", "quickPush"} => c.user \in Users
  /\ OfTicket(c) => c.ticket \in Issued
  /\ ToSet(c.taken) \subseteq Issued
  /\ c.ret \in {"idle", "bot", "assembled"}

\* QueueTypeOK, and that tickets in lists, calls and matches were issued.
QueueTypes ==
  /\ QueueTypeOK
  /\ \A t \in Tickets : ticket[t].age = "none" => ticket[t] = Unissued
  /\ scheduled \subseteq Issued
  /\ \A q \in Queues : ToSet(queue[q]) \subseteq Issued
  /\ \A m \in matches : m \subseteq Issued
  /\ \A h \in Handlers : CallTyped(hs[h])

Distinct(S) == \A s, t \in S : ticket[s].user = ticket[t].user => s = t

Valid == {"freeze", "delete", "create"}

\* The tickets that were read and kept are each of another user.
TakenDistinct == \A h \in Handlers : hs[h].pc \in Valid => Distinct(ToSet(hs[h].taken))

Players == QueueTypes /\ TakenDistinct /\ DistinctPlayers

\* How a ticket becomes one match at most, while calls come one at a time.
Unmade(t) == made[t].queue + made[t].bot = 0

Gone(t) == ticket[t].age = "gone"

\* What was made into a match is gone, and it was made into one.
MadeOnce == \A t \in Tickets : Unmade(t) \/ (made[t].queue + made[t].bot = 1 /\ Gone(t))

\* A call that may yet make a match of its ticket and bots.
Bots(c) == c.ret = "bot" \/ c.pc \in {"bot", "botDelete", "botPush", "botCreate"}

\* What a call may yet make a match of is in no match, and at that point deleted.
Unspent(c) ==
  /\ c.pc \in Valid => \A t \in ToSet(c.taken) : Unmade(t)
  /\ c.pc = "create" => \A t \in ToSet(c.taken) : Gone(t)
  /\ Bots(c) => Unmade(c.ticket)
  /\ c.pc = "botCreate" => Gone(c.ticket)
  /\ c.pc \in QuickPC => c.ret = "idle"

Once == QueueTypes /\ MadeOnce /\ \A h \in Handlers : Unspent(hs[h])

\* How a user waits or plays, while no call was lost in a crash: no ticket that is
\* alive is out of sight, ...
Holding == {"read"} \cup Valid

AliveInHand == \A h \in Handlers : \A t \in Tickets : Alive(t) => Listed(t) \/ t \in ToSet(hs[h].taken)

\* All that u has is in S.
Has(u, S) == \A t \in Tickets : Alive(t) /\ ticket[t].user = u => t \in S

Free(u) == \A m \in matches : u \notin PlayersOf(m)

\* ... users have one ticket or one match, ...
OneEach ==
  /\ Distinct({t \in Tickets : Alive(t)})
  /\ \A t \in Tickets : Alive(t) => Free(ticket[t].user)
  /\ \A m, n \in matches : PlayersOf(m) \cap PlayersOf(n) # {} => m = n

\* ... and what a call found out is still so.
Claim(c) ==
  /\ c.pc \in {"quickMatches", "quickPush"} => Has(c.user, {})
  /\ c.pc = "quickPush" => Free(c.user)
  /\ c.pc \in Valid => \A t \in ToSet(c.taken) : Has(ticket[t].user, {t}) /\ Free(ticket[t].user)
  /\ Bots(c) => Has(ticket[c.ticket].user, {c.ticket}) /\ Free(ticket[c.ticket].user)
  /\ c.pc \notin Holding => c.taken = <<>>

Apart ==
  /\ Once
  /\ restarts \in 0 .. MaxRestarts
  /\ restarts = MaxRestarts => AliveInHand /\ OneEach /\ \A h \in Handlers : Claim(hs[h])

-----------------------------------------------------------------------------
(* Sequences of tickets *)

\* p enumerates I upwards.
IsAscending(p, I) ==
  /\ p \in [1 .. Cardinality(I) -> I]
  /\ \A i \in I : \E k \in DOMAIN p : p[k] = i
  /\ \A j, k \in DOMAIN p : j < k => p[j] < p[k]

LEMMA SmallestPosition ==
  ASSUME NEW T \in SUBSET Nat, T # {}
  PROVE  \E n \in T : \A m \in T : n <= m
<1>1. IsWellFoundedOn(OpToRel(<, Nat), Nat)
  BY NatLessThanWellFounded
<1>2. PICK n \in T : \A m \in T : ~(<<m, n>> \in OpToRel(<, Nat))
  BY <1>1, WFMin
<1>3. \A m \in T : ~(m < n)
  BY <1>2 DEF OpToRel
<1> QED
  BY <1>3

LEMMA SmallestSet ==
  ASSUME NEW S, IsFiniteSet(S), NEW Bad, \A T \in Bad : T \subseteq S, Bad # {}
  PROVE  \E T \in Bad : \A U \in Bad : U \subseteq T => U = T
<1>1. IsWellFoundedOn(StrictSubsetOrdering(S), FiniteSubsetsOf(S))
  BY FS_StrictSubsetOrderingWellFounded
<1>2. Bad \subseteq FiniteSubsetsOf(S)
  BY FS_FiniteSubsetsOfFinite
<1>3. PICK T \in Bad : \A U \in Bad : ~(<<U, T>> \in StrictSubsetOrdering(S))
  BY <1>1, <1>2, WFMin
<1>4. \A U \in Bad : U \subseteq T => U = T
  BY <1>3 DEF StrictSubsetOrdering
<1> QED
  BY <1>4

\* The positions of a sequence can be enumerated upwards: a smallest set of
\* which this were not true would be so without its lowest position.
LEMMA AscendingExists ==
  ASSUME NEW S, S \subseteq Nat, IsFiniteSet(S)
  PROVE  \E p : IsAscending(p, S)
<1> DEFINE Bad == {T \in SUBSET S : \A p : ~IsAscending(p, T)}
<1> SUFFICES ASSUME Bad # {} PROVE FALSE
  OBVIOUS
<1>1. PICK T \in Bad : \A U \in Bad : U \subseteq T => U = T
  <2> HIDE DEF Bad
  <2>1. \A T \in Bad : T \subseteq S
    BY DEF Bad
  <2> QED
    BY <2>1, SmallestSet
<1>2. T \in SUBSET Nat /\ IsFiniteSet(T)
  BY FS_Subset
<1>3. T # {}
  <2> SUFFICES ASSUME T = {} PROVE FALSE
    OBVIOUS
  <2>1. Cardinality(T) = 0
    BY FS_EmptySet
  <2>2. IsAscending([k \in 1 .. 0 |-> k], T)
    BY <2>1 DEF IsAscending
  <2> QED
    BY <2>2
<1>4. PICK m \in T : \A i \in T : m <= i
  BY <1>2, <1>3, SmallestPosition
<1> DEFINE R == T \ {m}
           n == Cardinality(R)
<1>5. Cardinality(T) = n + 1 /\ n \in Nat
  BY <1>2, FS_RemoveElement, FS_CardinalityType, FS_Subset
<1>6. PICK p : IsAscending(p, R)
  BY <1>1
<1> DEFINE r == [k \in 1 .. n + 1 |-> IF k = 1 THEN m ELSE p[k - 1]]
<1>7. p \in [1 .. n -> R]
  BY <1>6 DEF IsAscending
<1>8. r \in [1 .. n + 1 -> T]
  <2> SUFFICES ASSUME NEW k \in 1 .. n + 1 PROVE r[k] \in T
    OBVIOUS
  <2>1. k # 1 => k - 1 \in 1 .. n
    BY <1>5
  <2> QED
    BY <1>7, <2>1
<1>9. ASSUME NEW i \in T PROVE \E k \in 1 .. n + 1 : r[k] = i
  <2>1. CASE i = m
    <3>1. 1 \in 1 .. n + 1
      BY <1>5
    <3> QED
      BY <2>1, <3>1
  <2>2. CASE i # m
    <3>1. PICK k \in 1 .. n : p[k] = i
      BY <1>6, <1>7, <2>2 DEF IsAscending
    <3>2. k + 1 \in 1 .. n + 1 /\ k + 1 # 1 /\ (k + 1) - 1 = k
      BY <1>5
    <3> QED
      BY <3>1, <3>2
  <2> QED
    BY <2>1, <2>2
<1>10. ASSUME NEW j \in 1 .. n + 1, NEW k \in 1 .. n + 1, j < k PROVE r[j] < r[k]
  <2>1. k # 1 /\ k - 1 \in 1 .. n /\ r[k] = p[k - 1]
    BY <1>5, <1>10
  <2>2. CASE j = 1
    <3>1. r[k] \in R
      BY <1>7, <2>1
    <3>2. r[k] \in T /\ r[k] # m /\ r[j] = m
      BY <2>2, <3>1
    <3> HIDE DEF r
    <3>3. m <= r[k] /\ m \in Nat /\ r[k] \in Nat
      BY <1>2, <1>4, <3>2
    <3> QED
      BY <3>2, <3>3
  <2>3. CASE j # 1
    <3>1. j - 1 \in 1 .. n /\ j - 1 < k - 1 /\ r[j] = p[j - 1]
      BY <1>5, <1>10, <2>3
    <3> QED
      BY <1>6, <1>7, <2>1, <3>1 DEF IsAscending
  <2> QED
    BY <2>2, <2>3
<1>11. IsAscending(r, T)
  <2> HIDE DEF r, n, R
  <2> QED
    BY <1>5, <1>8, <1>9, <1>10 DEF IsAscending
<1> QED
  BY <1>11

LEMMA AscendingIs ==
  ASSUME NEW S, S \subseteq Nat, IsFiniteSet(S)
  PROVE  IsAscending(Ascending(S), S)
<1>1. \E p \in [1 .. Cardinality(S) -> S] :
        /\ \A i \in S : \E k \in DOMAIN p : p[k] = i
        /\ \A j, k \in DOMAIN p : j < k => p[j] < p[k]
  BY AscendingExists DEF IsAscending
<1> QED
  BY <1>1 DEF Ascending, IsAscending

LEMMA ToSetDef == \A s : ToSet(s) = {s[i] : i \in DOMAIN s}
BY DEF ToSet

\* Keep(s, I) is a sequence of what s has at I.
LEMMA Kept ==
  ASSUME NEW T, NEW s \in Seq(T), NEW I \in SUBSET DOMAIN s
  PROVE  /\ Keep(s, I) \in Seq(T)
         /\ ToSet(Keep(s, I)) = {s[i] : i \in I}
<1>1. IsFiniteSet(I) /\ I \in SUBSET Nat
  <2>1. DOMAIN s = 1 .. Len(s) /\ Len(s) \in Nat
    BY LenProperties
  <2>2. IsFiniteSet(1 .. Len(s))
    BY <2>1, FS_Interval
  <2>3. I \subseteq 1 .. Len(s) /\ 1 .. Len(s) \subseteq Nat
    BY <2>1
  <2> QED
    BY <2>2, <2>3, FS_Subset
<1>2. Cardinality(I) \in Nat
  BY <1>1, FS_CardinalityType
<1> DEFINE n == Cardinality(I)
           p == Ascending(I)
<1>3. IsAscending(p, I)
  BY <1>1, AscendingIs
<1> HIDE DEF n, p
<1>4. Keep(s, I) = [k \in 1 .. n |-> s[p[k]]]
  BY DEF Keep, n, p
<1>5. p \in [1 .. n -> I] /\ \A i \in I : \E k \in 1 .. n : p[k] = i
  BY <1>3 DEF IsAscending, n
<1>6. \A k \in 1 .. n : s[p[k]] \in T
  BY <1>5, LenProperties
<1>7. Keep(s, I) \in Seq(T)
  BY <1>2, <1>4, <1>6, IsASeq DEF n
<1>8. DOMAIN Keep(s, I) = 1 .. n
  BY <1>4
<1>9. ToSet(Keep(s, I)) = {s[i] : i \in I}
  <2>1. ToSet(Keep(s, I)) = {s[p[k]] : k \in 1 .. n}
    <3>1. \A k \in 1 .. n : Keep(s, I)[k] = s[p[k]]
      BY <1>4
    <3>2. ToSet(Keep(s, I)) = {Keep(s, I)[k] : k \in 1 .. n}
      BY <1>8, ToSetDef
    <3> QED
      BY <3>1, <3>2
  <2>2. {s[p[k]] : k \in 1 .. n} = {s[i] : i \in I}
    BY <1>5
  <2> QED
    BY <2>1, <2>2
<1> QED
  BY <1>7, <1>9

LEMMA ToSetAppend ==
  ASSUME NEW T, NEW s \in Seq(T), NEW e \in T
  PROVE  Append(s, e) \in Seq(T) /\ ToSet(Append(s, e)) = ToSet(s) \cup {e}
<1>1. /\ Append(s, e) \in Seq(T)
      /\ Len(Append(s, e)) = Len(s) + 1
      /\ \A i \in 1 .. Len(s) : Append(s, e)[i] = s[i]
      /\ Append(s, e)[Len(s) + 1] = e
  BY AppendProperties
<1>2. Len(s) \in Nat /\ DOMAIN s = 1 .. Len(s) /\ DOMAIN Append(s, e) = 1 .. Len(s) + 1
  BY <1>1, LenProperties
<1>3. \A i \in 1 .. Len(s) + 1 : i \in 1 .. Len(s) \/ i = Len(s) + 1
  BY <1>2
<1>4. 1 .. Len(s) \subseteq 1 .. Len(s) + 1 /\ Len(s) + 1 \in 1 .. Len(s) + 1
  BY <1>2
<1> QED
  BY <1>1, <1>2, <1>3, <1>4, ToSetDef

LEMMA ToSetConcat ==
  ASSUME NEW T, NEW s \in Seq(T), NEW t \in Seq(T)
  PROVE  s \o t \in Seq(T) /\ ToSet(s \o t) = ToSet(s) \cup ToSet(t)
<1>1. /\ s \o t \in Seq(T)
      /\ Len(s \o t) = Len(s) + Len(t)
      /\ \A i \in 1 .. Len(s) + Len(t) : (s \o t)[i] =
                     IF i <= Len(s) THEN s[i] ELSE t[i - Len(s)]
  BY ConcatProperties
<1>2. /\ Len(s) \in Nat /\ Len(t) \in Nat
      /\ DOMAIN s = 1 .. Len(s) /\ DOMAIN t = 1 .. Len(t) /\ DOMAIN (s \o t) = 1 .. Len(s) + Len(t)
  BY <1>1, LenProperties
<1>3. \A i \in 1 .. Len(s) : i \in 1 .. Len(s) + Len(t) /\ (s \o t)[i] = s[i]
  BY <1>1, <1>2
<1>4. \A i \in 1 .. Len(t) : /\ Len(s) + i \in 1 .. Len(s) + Len(t)
                             /\ (s \o t)[Len(s) + i] = t[i]
  <2> SUFFICES ASSUME NEW i \in 1 .. Len(t)
               PROVE  /\ Len(s) + i \in 1 .. Len(s) + Len(t)
                      /\ (s \o t)[Len(s) + i] = t[i]
    OBVIOUS
  <2>1. Len(s) + i \in 1 .. Len(s) + Len(t) /\ ~(Len(s) + i <= Len(s)) /\ (Len(s) + i) - Len(s) = i
    BY <1>2
  <2> QED
    BY <1>1, <2>1
<1>5. \A i \in 1 .. Len(s) + Len(t) :
        \/ i \in 1 .. Len(s) /\ (s \o t)[i] = s[i]
        \/ i - Len(s) \in 1 .. Len(t) /\ (s \o t)[i] = t[i - Len(s)]
  <2> SUFFICES ASSUME NEW i \in 1 .. Len(s) + Len(t)
               PROVE  \/ i \in 1 .. Len(s) /\ (s \o t)[i] = s[i]
                      \/ i - Len(s) \in 1 .. Len(t) /\ (s \o t)[i] = t[i - Len(s)]
    OBVIOUS
  <2>1. CASE i <= Len(s)
    BY <1>1, <1>2, <2>1
  <2>2. CASE ~(i <= Len(s))
    <3>1. i - Len(s) \in 1 .. Len(t)
      BY <1>2, <2>2
    <3> QED
      BY <1>1, <2>2, <3>1
  <2> QED
    BY <2>1, <2>2
<1>6. ToSet(s \o t) \subseteq ToSet(s) \cup ToSet(t)
  BY <1>2, <1>5, ToSetDef
<1>7. ToSet(s) \cup ToSet(t) \subseteq ToSet(s \o t)
  BY <1>2, <1>3, <1>4, ToSetDef
<1> QED
  BY <1>1, <1>6, <1>7

\* A sequence cut in two.
LEMMA Cut ==
  ASSUME NEW T, NEW s \in Seq(T), NEW n \in 0 .. Len(s)
  PROVE  /\ SubSeq(s, 1, n) \in Seq(T) /\ SubSeq(s, n + 1, Len(s)) \in Seq(T)
         /\ ToSet(s) = ToSet(SubSeq(s, 1, n)) \cup ToSet(SubSeq(s, n + 1, Len(s)))
<1> DEFINE a == SubSeq(s, 1, n)
           b == SubSeq(s, n + 1, Len(s))
<1>1. Len(s) \in Nat /\ DOMAIN s = 1 .. Len(s) /\ n \in Int /\ \A i \in 1 .. Len(s) : s[i] \in T
  BY LenProperties
<1>2. /\ a \in Seq(T)
      /\ Len(a) = n
      /\ \A i \in 1 .. n : a[i] = s[i]
  <2>1. \A i \in 1 .. n : s[i] \in T
    BY <1>1
  <2>2. /\ a \in Seq(T)
        /\ Len(a) = IF 1 <= n THEN n - 1 + 1 ELSE 0
        /\ \A i \in 1 .. n - 1 + 1 : a[i] = s[1 + i - 1]
    BY <1>1, <2>1, SubSeqProperties
  <2> QED
    BY <1>1, <2>2
<1>3. /\ b \in Seq(T)
      /\ Len(b) = Len(s) - n
      /\ \A i \in 1 .. Len(s) - n : b[i] = s[n + i]
  <2>1. \A i \in n + 1 .. Len(s) : s[i] \in T
    BY <1>1
  <2>2. /\ b \in Seq(T)
        /\ Len(b) = IF n + 1 <= Len(s) THEN Len(s) - (n + 1) + 1 ELSE 0
        /\ \A i \in 1 .. Len(s) - (n + 1) + 1 : b[i] = s[(n + 1) + i - 1]
    BY <1>1, <2>1, SubSeqProperties
  <2> HIDE DEF b
  <2>3. n \in Nat /\ n <= Len(s) /\ Len(s) - (n + 1) + 1 = Len(s) - n
    BY <1>1
  <2>4. Len(b) = Len(s) - n
    <3>1. CASE n + 1 <= Len(s)
      BY <2>2, <2>3, <3>1
    <3>2. CASE ~(n + 1 <= Len(s))
      <4> DEFINE l == Len(s)
      <4>0. l \in Nat /\ n \in Nat /\ n <= l /\ ~(n + 1 <= l)
        BY <1>1, <2>3, <3>2
      <4> HIDE DEF l
      <4>1. n = l
        BY <4>0
      <4>2. Len(b) = 0
        BY <2>2, <3>2
      <4> QED
        BY <4>0, <4>1, <4>2 DEF l
    <3> QED
      BY <3>1, <3>2
  <2>5. \A i \in 1 .. Len(s) - n : (n + 1) + i - 1 = n + i
    BY <2>3
  <2> QED
    BY <2>2, <2>3, <2>4, <2>5
<1> HIDE DEF a, b
<1>4. DOMAIN a = 1 .. n /\ DOMAIN b = 1 .. Len(s) - n
  BY <1>2, <1>3, LenProperties
<1>5. ToSet(a) \cup ToSet(b) \subseteq ToSet(s)
  <2>1. \A i \in 1 .. n : i \in 1 .. Len(s)
    BY <1>1
  <2>2. \A i \in 1 .. Len(s) - n : n + i \in 1 .. Len(s)
    BY <1>1
  <2> QED
    BY <1>1, <1>2, <1>3, <1>4, <2>1, <2>2, ToSetDef
<1>6. ToSet(s) \subseteq ToSet(a) \cup ToSet(b)
  <2> SUFFICES ASSUME NEW i \in 1 .. Len(s) PROVE s[i] \in ToSet(a) \cup ToSet(b)
    BY <1>1, ToSetDef
  <2>1. CASE i <= n
    BY <1>1, <1>2, <1>4, <2>1, ToSetDef
  <2>2. CASE ~(i <= n)
    <3>1. i \in Int /\ n \in Int /\ n < i /\ i <= Len(s) /\ 0 <= n
      BY <1>1, <2>2
    <3>2. i - n \in 1 .. Len(s) - n /\ n + (i - n) = i
      BY <1>1, <3>1
    <3> QED
      BY <1>3, <1>4, <3>2, ToSetDef
  <2> QED
    BY <2>1, <2>2
<1> QED
  BY <1>2, <1>3, <1>5, <1>6 DEF a, b

-----------------------------------------------------------------------------
(* What the helpers do, and types *)

TicketType == [age : Age, user : Users \cup {Nobody}, queue : Queues \cup {Nobody}]

TicketsTyped ==
  /\ ticket \in [Tickets -> TicketType]
  /\ \A t \in Tickets : ticket[t].age # "none" => ticket[t].user \in Users /\ ticket[t].queue \in Queues
  /\ \A t \in Tickets : ticket[t].age = "none" => ticket[t] = Unissued

ListsTyped ==
  /\ queue \in [Queues -> Seq(Tickets)]
  /\ \A q \in Queues : ToSet(queue[q]) \subseteq Issued

RestTyped ==
  /\ scheduled \subseteq Issued
  /\ fallbacks \in [Tickets -> Nat]
  /\ matches \subseteq SUBSET Issued
  /\ asks \in Nat
  /\ restarts \in Nat
  /\ made \in [Tickets -> [queue : Nat, bot : Nat]]

LocksTyped == since \in [Queues -> Since] /\ locked \in [Queues -> BOOLEAN]

CallsTyped == hs \in [Handlers -> Handler] /\ \A h \in Handlers : CallTyped(hs[h])

\* The types, part by part.
LEMMA TypesSplit ==
  QueueTypes <=> TicketsTyped /\ ListsTyped /\ RestTyped /\ LocksTyped /\ CallsTyped
<1>1. Issued \subseteq Tickets
  BY DEF Issued
<1>2. QueueTypes => TicketsTyped /\ ListsTyped /\ RestTyped /\ LocksTyped /\ CallsTyped
  <2> SUFFICES ASSUME QueueTypes PROVE TicketsTyped /\ ListsTyped /\ RestTyped /\ LocksTyped /\ CallsTyped
    OBVIOUS
  <2>1. TicketsTyped
    BY DEF QueueTypes, QueueTypeOK, TicketsTyped, TicketType
  <2>2. ListsTyped /\ RestTyped
    BY DEF QueueTypes, QueueTypeOK, ListsTyped, RestTyped
  <2>3. LocksTyped /\ CallsTyped
    BY DEF QueueTypes, QueueTypeOK, LocksTyped, CallsTyped
  <2> QED
    BY <2>1, <2>2, <2>3
<1>3. TicketsTyped /\ ListsTyped /\ RestTyped /\ LocksTyped /\ CallsTyped => QueueTypes
  <2> SUFFICES ASSUME TicketsTyped, ListsTyped, RestTyped, LocksTyped, CallsTyped PROVE QueueTypes
    OBVIOUS
  <2>1. matches \subseteq SUBSET Tickets /\ scheduled \subseteq Tickets
    BY <1>1 DEF RestTyped
  <2>2. QueueTypeOK
    BY <2>1 DEF QueueTypeOK, TicketsTyped, TicketType, ListsTyped, RestTyped, LocksTyped, CallsTyped
  <2> QED
    BY <2>2 DEF QueueTypes, TicketsTyped, ListsTyped, RestTyped, CallsTyped
<1> QED
  BY <1>2, <1>3

LEMMA TypesJoined ==
  ASSUME TicketsTyped', ListsTyped', RestTyped', LocksTyped', CallsTyped'
  PROVE  QueueTypes'
<1>1. Issued' \subseteq Tickets
  BY DEF Issued
<1>2. matches' \subseteq SUBSET Tickets /\ scheduled' \subseteq Tickets
  BY <1>1 DEF RestTyped
<1>3. QueueTypeOK'
  BY <1>2 DEF QueueTypeOK, TicketsTyped, TicketType, ListsTyped, RestTyped, LocksTyped, CallsTyped
<1> QED
  BY <1>3 DEF QueueTypes, TicketsTyped, ListsTyped, RestTyped, CallsTyped

\* No step un-issues a ticket or changes whose it is.
Kin == Issued \subseteq Issued' /\ \A t \in Issued : ticket'[t].user = ticket[t].user

\* Only call h changes, and stays a call.
Only(h) ==
  /\ hs' = [g \in Handlers |-> IF g = h THEN hs'[h] ELSE hs[g]]
  /\ hs'[h] \in Handler

LEMMA OnlyOthers ==
  ASSUME NEW h, Only(h)
  PROVE  \A g \in Handlers : g # h => hs'[g] = hs[g]
BY DEF Only

LEMMA IdleIs ==
  /\ Idle \in Handler
  /\ Idle.pc = "idle" /\ Idle.ret = "idle" /\ Idle.taken = <<>>
BY EmptySeq DEF Idle, Handler, PC

LEMMA ToIs ==
  ASSUME QueueTypes, NEW h \in Handlers, NEW p \in PC, To(h, p)
  PROVE  /\ Only(h) /\ hs'[h].pc = p
         /\ hs'[h].queue = hs[h].queue /\ hs'[h].user = hs[h].user /\ hs'[h].ticket = hs[h].ticket
         /\ hs'[h].taken = hs[h].taken /\ hs'[h].force = hs[h].force /\ hs'[h].ret = hs[h].ret
<1>1. hs \in [Handlers -> Handler]
  BY TypesSplit DEF CallsTyped
<1>2. hs' = [g \in Handlers |-> IF g = h THEN hs'[h] ELSE hs[g]] /\ hs'[h] = [hs[h] EXCEPT !.pc = p]
  BY <1>1 DEF To
<1> DEFINE c == hs[h]
           d == [c EXCEPT !.pc = p]
<1>3. c \in Handler
  BY <1>1
<1> HIDE DEF c
<1>4. /\ d \in Handler /\ d.pc = p
      /\ d.queue = c.queue /\ d.user = c.user /\ d.ticket = c.ticket
      /\ d.taken = c.taken /\ d.force = c.force /\ d.ret = c.ret
  BY <1>3 DEF Handler
<1> QED
  BY <1>2, <1>4 DEF Only, c

LEMMA DoneIs ==
  ASSUME QueueTypes, NEW h \in Handlers, Done(h)
  PROVE  Only(h) /\ hs'[h] = Idle
<1>1. hs \in [Handlers -> Handler]
  BY TypesSplit DEF CallsTyped
<1> QED
  BY <1>1, IdleIs DEF Only, Done

LEMMA LeaveIs ==
  ASSUME QueueTypes, NEW h \in Handlers, NEW p \in PC, Leave(h, p)
  PROVE  /\ Only(h) /\ hs'[h].pc = p
         /\ hs'[h].queue = hs[h].queue /\ hs'[h].user = hs[h].user /\ hs'[h].ticket = hs[h].ticket
         /\ hs'[h].taken = <<>> /\ hs'[h].ret = hs[h].ret
<1>1. hs \in [Handlers -> Handler]
  BY TypesSplit DEF CallsTyped
<1>2. /\ hs' = [g \in Handlers |-> IF g = h THEN hs'[h] ELSE hs[g]]
      /\ hs'[h] = [[[hs[h] EXCEPT !.pc = p] EXCEPT !.taken = <<>>] EXCEPT !.force = FALSE]
  BY <1>1 DEF Leave
<1> DEFINE c == hs[h]
           d == [[[c EXCEPT !.pc = p] EXCEPT !.taken = <<>>] EXCEPT !.force = FALSE]
<1>3. c \in Handler
  BY <1>1
<1> HIDE DEF c
<1>4. /\ d \in Handler /\ d.pc = p
      /\ d.queue = c.queue /\ d.user = c.user /\ d.ticket = c.ticket
      /\ d.taken = <<>> /\ d.ret = c.ret
  BY <1>3, EmptySeq DEF Handler
<1> QED
  BY <1>2, <1>4 DEF Only, c

LEMMA ReturnIs ==
  ASSUME QueueTypes, NEW h \in Handlers, Return(h)
  PROVE  /\ Only(h)
         /\ \/ hs[h].ret = "idle" /\ hs'[h] = Idle
            \/ /\ hs[h].ret \in {"bot", "assembled"} /\ hs'[h].pc = hs[h].ret
               /\ hs'[h].queue = hs[h].queue /\ hs'[h].ticket = hs[h].ticket
               /\ hs'[h].taken = hs[h].taken /\ hs'[h].ret = "idle"
<1>1. hs \in [Handlers -> Handler] /\ hs[h].ret \in {"idle", "bot", "assembled"}
  BY TypesSplit DEF CallsTyped, CallTyped
<1>2. CASE hs[h].ret = "idle"
  BY <1>2, DoneIs DEF Return
<1>3. CASE hs[h].ret # "idle"
  <2>1. /\ hs' = [g \in Handlers |-> IF g = h THEN hs'[h] ELSE hs[g]]
        /\ hs'[h] = [[[hs[h] EXCEPT !.pc = hs[h].ret] EXCEPT !.force = FALSE] EXCEPT !.ret = "idle"]
    BY <1>1, <1>3 DEF Return
  <2> DEFINE c == hs[h]
             d == [[[c EXCEPT !.pc = c.ret] EXCEPT !.force = FALSE] EXCEPT !.ret = "idle"]
  <2>2. c \in Handler
    BY <1>1
  <2> HIDE DEF c
  <2>3. /\ d \in Handler /\ d.pc = c.ret
        /\ d.queue = c.queue /\ d.ticket = c.ticket
        /\ d.taken = c.taken /\ d.ret = "idle"
    BY <2>2 DEF Handler, PC
  <2> QED
    BY <1>1, <1>3, <2>1, <2>3 DEF Only, c
<1> QED
  BY <1>2, <1>3

LEMMA CallIs ==
  ASSUME QueueTypes, NEW h \in Handlers, NEW q \in Queues, NEW t \in Tickets \cup {0},
         NEW force \in BOOLEAN, NEW ret \in {"idle", "bot"}, CallAssemble(h, q, t, force, ret)
  PROVE  /\ Only(h) /\ hs'[h].pc = "lock" /\ hs'[h].queue = q /\ hs'[h].ticket = t
         /\ hs'[h].taken = <<>> /\ hs'[h].ret = ret
<1>1. hs \in [Handlers -> Handler]
  BY TypesSplit DEF CallsTyped
<1>2. /\ hs' = [g \in Handlers |-> IF g = h THEN hs'[h] ELSE hs[g]]
      /\ hs'[h] = [pc |-> "lock", queue |-> q, user |-> Nobody, ticket |-> t, taken |-> <<>>,
                   force |-> force, ret |-> ret]
  BY <1>1 DEF CallAssemble, Idle
<1>3. <<>> \in Seq(Tickets) /\ ret \in PC /\ "lock" \in PC
  BY EmptySeq DEF PC, FallbackPC
<1>4. [pc |-> "lock", queue |-> q, user |-> Nobody, ticket |-> t, taken |-> <<>>,
       force |-> force, ret |-> ret] \in Handler
  BY <1>3 DEF Handler
<1> QED
  BY <1>2, <1>4 DEF Only

LEMMA OneCallTypes ==
  ASSUME QueueTypes, NEW h \in Handlers, Only(h), Kin, CallTyped(hs[h])',
         TicketsTyped', ListsTyped', RestTyped', LocksTyped'
  PROVE  QueueTypes'
<1>1. hs \in [Handlers -> Handler] /\ \A g \in Handlers : CallTyped(hs[g])
  BY TypesSplit DEF CallsTyped
<1>2. hs' \in [Handlers -> Handler]
  <2>1. \A g \in Handlers : hs'[g] \in Handler
    BY <1>1, OnlyOthers DEF Only
  <2>2. hs' = [g \in Handlers |-> hs'[g]]
    BY DEF Only
  <2> QED
    BY <2>1, <2>2
<1>3. \A g \in Handlers : CallTyped(hs[g])'
  <2> SUFFICES ASSUME NEW g \in Handlers, g # h PROVE CallTyped(hs[g])'
    OBVIOUS
  <2>1. hs'[g] = hs[g] /\ CallTyped(hs[g])
    BY <1>1, OnlyOthers
  <2> QED
    BY <2>1 DEF CallTyped, OfTicket, Kin
<1>4. CallsTyped'
  BY <1>2, <1>3 DEF CallsTyped
<1> QED
  BY <1>4, TypesJoined

\* The lists and the rest stay as they are while tickets are issued.
LEMMA SameLists ==
  ASSUME ListsTyped, Kin, UNCHANGED queue
  PROVE  ListsTyped'
BY DEF ListsTyped, Kin

LEMMA SameRest ==
  ASSUME RestTyped, Kin, UNCHANGED timing, UNCHANGED <<matches, made>>
  PROVE  RestTyped'
BY DEF RestTyped, Kin, timing

LEMMA SameTickets ==
  ASSUME TicketsTyped, UNCHANGED ticket
  PROVE  TicketsTyped' /\ Kin
BY DEF TicketsTyped, Kin, Issued

LEMMA SameLocks ==
  ASSUME LocksTyped, UNCHANGED <<since, locked>>
  PROVE  LocksTyped'
BY DEF LocksTyped

LEMMA Deleted ==
  ASSUME TicketsTyped, NEW S, Delete(S)
  PROVE  /\ TicketsTyped' /\ Kin
         /\ \A t \in Tickets :
              /\ ticket'[t].user = ticket[t].user
              /\ Alive(t)' <=> Alive(t) /\ t \notin S
              /\ Gone(t)' <=> Gone(t) \/ (Alive(t) /\ t \in S)
<1>1. \A t \in Tickets : ticket'[t] = IF t \in S /\ Alive(t)
                                      THEN [ticket[t] EXCEPT !.age = "gone"] ELSE ticket[t]
  BY DEF Delete
<1>2. ASSUME NEW t \in Tickets
      PROVE  /\ ticket'[t] \in TicketType
             /\ ticket'[t].user = ticket[t].user /\ ticket'[t].queue = ticket[t].queue
             /\ ticket'[t].age = IF t \in S /\ Alive(t) THEN "gone" ELSE ticket[t].age
             /\ ticket'[t].age = "none" => ticket'[t] = ticket[t]
  <2>1. ticket[t] \in TicketType
    BY DEF TicketsTyped
  <2>2. CASE t \in S /\ Alive(t)
    <3>1. ticket'[t] = [ticket[t] EXCEPT !.age = "gone"]
      BY <1>1, <2>2
    <3> QED
      BY <2>1, <2>2, <3>1 DEF TicketType, Age
  <2>3. CASE ~(t \in S /\ Alive(t))
    BY <1>1, <2>1, <2>3
  <2> QED
    BY <2>2, <2>3
<1>3. ticket' \in [Tickets -> TicketType]
  BY <1>2 DEF Delete
<1>4. \A t \in Tickets : ticket'[t].age = "none" <=> ticket[t].age = "none"
  BY <1>2 DEF Alive
<1>5. TicketsTyped'
  <2>1. \A t \in Tickets : ticket'[t].age # "none" => ticket'[t].user \in Users /\ ticket'[t].queue \in Queues
    BY <1>2, <1>4 DEF TicketsTyped
  <2>2. \A t \in Tickets : ticket'[t].age = "none" => ticket'[t] = Unissued
    BY <1>2, <1>4 DEF TicketsTyped
  <2> QED
    BY <1>3, <2>1, <2>2 DEF TicketsTyped
<1>6. Kin
  BY <1>2, <1>4 DEF Kin, Issued
<1>7. \A t \in Tickets :
        /\ ticket'[t].user = ticket[t].user
        /\ Alive(t)' <=> Alive(t) /\ t \notin S
        /\ Gone(t)' <=> Gone(t) \/ (Alive(t) /\ t \in S)
  BY <1>2 DEF Alive, Gone
<1> QED
  BY <1>5, <1>6, <1>7

LEMMA CleanedIs ==
  ASSUME ListsTyped, NEW q \in Queues
  PROVE  /\ Cleaned(q) \in Seq(Tickets)
         /\ ToSet(Cleaned(q)) = {t \in ToSet(queue[q]) : Alive(t)}
<1> DEFINE s == queue[q]
           I == Living(s)
<1>1. s \in Seq(Tickets) /\ I \in SUBSET DOMAIN s
  BY DEF ListsTyped, Living
<1> HIDE DEF s, I
<1>2. Keep(s, I) \in Seq(Tickets) /\ ToSet(Keep(s, I)) = {s[i] : i \in I}
  BY <1>1, Kept
<1>3. {s[i] : i \in I} = {t \in ToSet(s) : Alive(t)}
  BY ToSetDef DEF I, Living
<1> QED
  BY <1>2, <1>3 DEF Cleaned, s, I

\* FirstOfUser leaves one ticket of each user.
LEMMA FirstIs ==
  ASSUME TicketsTyped, NEW s \in Seq(Tickets), NEW I \in SUBSET DOMAIN s
  PROVE  /\ Keep(s, FirstOfUser(s, I)) \in Seq(Tickets)
         /\ ToSet(Keep(s, FirstOfUser(s, I))) = {s[i] : i \in FirstOfUser(s, I)}
         /\ Distinct(ToSet(Keep(s, FirstOfUser(s, I))))
<1> DEFINE F == FirstOfUser(s, I)
<1>1. F \in SUBSET I
  BY DEF FirstOfUser
<1>2. DOMAIN s \subseteq Nat
  BY LenProperties
<1>3. \A i, j \in F : ticket[s[i]].user = ticket[s[j]].user => i = j
  <2> SUFFICES ASSUME NEW i \in F, NEW j \in F, ticket[s[i]].user = ticket[s[j]].user, i # j
               PROVE  FALSE
    OBVIOUS
  <2>1. i \in Nat /\ j \in Nat /\ i \in I /\ j \in I
    BY <1>1, <1>2
  <2>2. i < j \/ j < i
    BY <2>1
  <2> QED
    BY <2>1, <2>2 DEF FirstOfUser
<1> HIDE DEF F
<1>4. Keep(s, F) \in Seq(Tickets) /\ ToSet(Keep(s, F)) = {s[i] : i \in F}
  BY <1>1, Kept
<1>5. Distinct(ToSet(Keep(s, F)))
  BY <1>3, <1>4 DEF Distinct
<1> QED
  BY <1>4, <1>5 DEF F

LEMMA ToSetEmpty == ToSet(<<>>) = {}
<1>1. DOMAIN <<>> = {}
  OBVIOUS
<1> QED
  BY <1>1, ToSetDef

\* A call that goes on for the same queue, user and ticket.
LEMMA GoesOnTyped ==
  ASSUME QueueTypes, NEW h \in Handlers, Kin, hs[h].pc # "idle",
         hs'[h].queue = hs[h].queue, hs'[h].user = hs[h].user, hs'[h].ticket = hs[h].ticket,
         hs'[h].taken = hs[h].taken \/ hs'[h].taken = <<>>,
         hs'[h].ret = hs[h].ret,
         hs'[h].pc \in {"quickMatches", "quickPush"} => hs[h].pc \in {"quickMatches", "quickPush"},
         hs'[h].pc \in {"quickTime", "quickLength"} \cup FallbackPC
           => hs[h].pc \in {"quickTime", "quickLength"} \cup FallbackPC
  PROVE  CallTyped(hs[h])'
<1>1. CallTyped(hs[h])
  BY TypesSplit DEF CallsTyped
<1>2. ToSet(hs'[h].taken) \subseteq Issued'
  BY <1>1, ToSetEmpty DEF CallTyped, Kin
<1>3. OfTicket(hs[h])' => OfTicket(hs[h])
  BY DEF OfTicket
<1> QED
  BY <1>1, <1>2, <1>3 DEF CallTyped, Kin

LEMMA IdleTyped ==
  ASSUME NEW h, hs'[h] = Idle
  PROVE  CallTyped(hs[h])'
BY ToSetEmpty DEF CallTyped, OfTicket, Idle, FallbackPC

LEMMA QuickMatchesTypes ==
  ASSUME QueueTypes, NEW h \in Handlers, QuickMatches(h)
  PROVE  QueueTypes'
<1>1. TicketsTyped' /\ Kin /\ ListsTyped' /\ RestTyped' /\ LocksTyped'
  BY TypesSplit, SameTickets, SameLists, SameRest, SameLocks DEF QuickMatches, keys
<1>2. CASE To(h, "quickPush")
  <2>1. /\ Only(h) /\ hs'[h].pc = "quickPush" /\ hs[h].pc = "quickMatches"
        /\ hs'[h].queue = hs[h].queue /\ hs'[h].user = hs[h].user /\ hs'[h].ticket = hs[h].ticket
        /\ hs'[h].taken = hs[h].taken /\ hs'[h].ret = hs[h].ret
    BY <1>2, ToIs DEF QuickMatches, PC, QuickPC
  <2>2. CallTyped(hs[h])'
    BY <1>1, <2>1, GoesOnTyped DEF FallbackPC
  <2> QED
    BY <1>1, <2>1, <2>2, OneCallTypes
<1>3. CASE Done(h)
  BY <1>1, <1>3, DoneIs, IdleTyped, OneCallTypes
<1> QED
  BY <1>2, <1>3 DEF QuickMatches

\* What QuickPush does.
LEMMA QuickPushIs ==
  ASSUME QueueTypes, NEW h \in Handlers, QuickPush(h)
  PROVE  \E t \in Tickets :
           /\ ticket[t] = Unissued /\ t \notin Issued
           /\ ticket' = [ticket EXCEPT ![t] = [age |-> "new", user |-> hs[h].user, queue |-> hs[h].queue]]
           /\ queue' = [queue EXCEPT ![hs[h].queue] = Append(queue[hs[h].queue], t)]
           /\ Only(h) /\ hs'[h].pc = "quickTime" /\ hs'[h].ticket = t
           /\ hs'[h].queue = hs[h].queue /\ hs'[h].taken = hs[h].taken /\ hs'[h].ret = hs[h].ret
           /\ TicketsTyped' /\ Kin /\ t \in Issued' /\ Issued' = Issued \cup {t}
           /\ \A s \in Tickets : s # t => ticket'[s] = ticket[s]
           /\ ticket'[t].user = hs[h].user
<1>1. PICK t \in Tickets :
         /\ ticket[t] = Unissued
         /\ ticket' = [ticket EXCEPT ![t] = NewTicket(h)]
         /\ queue' = [queue EXCEPT ![hs[h].queue] = Append(@, t)]
         /\ hs' = [hs EXCEPT ![h].pc = "quickTime", ![h].user = Nobody, ![h].ticket = t]
  BY DEF QuickPush
<1>2. /\ hs \in [Handlers -> Handler] /\ hs[h].queue \in Queues /\ hs[h].user \in Users
      /\ ticket \in [Tickets -> TicketType]
  BY TypesSplit DEF CallsTyped, CallTyped, QuickPush, TicketsTyped
<1>3. t \notin Issued
  BY <1>1 DEF Issued, Unissued
<1> DEFINE n == [age |-> "new", user |-> hs[h].user, queue |-> hs[h].queue]
<1>4. /\ ticket' = [ticket EXCEPT ![t] = n]
      /\ ticket'[t] = n
      /\ \A s \in Tickets : s # t => ticket'[s] = ticket[s]
  BY <1>1, <1>2 DEF NewTicket
<1>5. n \in TicketType /\ n.age = "new" /\ n.user \in Users /\ n.queue \in Queues
  BY <1>2 DEF TicketType, Age
<1>6. /\ hs' = [g \in Handlers |-> IF g = h THEN hs'[h] ELSE hs[g]]
      /\ hs'[h] = [[[hs[h] EXCEPT !.pc = "quickTime"] EXCEPT !.user = Nobody] EXCEPT !.ticket = t]
  BY <1>1, <1>2
<1> DEFINE c == hs[h]
           d == [[[c EXCEPT !.pc = "quickTime"] EXCEPT !.user = Nobody] EXCEPT !.ticket = t]
<1>7. c \in Handler
  BY <1>2
<1> HIDE DEF c, n
<1>8. /\ d \in Handler /\ d.pc = "quickTime" /\ d.ticket = t
      /\ d.queue = c.queue /\ d.taken = c.taken /\ d.ret = c.ret
  BY <1>7 DEF Handler, PC, QuickPC
<1>9. /\ Only(h) /\ hs'[h].pc = "quickTime" /\ hs'[h].ticket = t
      /\ hs'[h].queue = hs[h].queue /\ hs'[h].taken = hs[h].taken /\ hs'[h].ret = hs[h].ret
  BY <1>6, <1>8 DEF Only, c
<1>10. TicketsTyped'
  <2>1. ticket' \in [Tickets -> TicketType]
    BY <1>2, <1>4, <1>5
  <2>2. \A s \in Tickets : /\ ticket'[s].age # "none" => ticket'[s].user \in Users /\ ticket'[s].queue \in Queues
                           /\ ticket'[s].age = "none" => ticket'[s] = Unissued
    BY <1>4, <1>5, TypesSplit DEF TicketsTyped
  <2> QED
    BY <2>1, <2>2 DEF TicketsTyped
<1>11. Issued' = Issued \cup {t}
  BY <1>4, <1>5 DEF Issued
<1>12. Kin
  BY <1>3, <1>4, <1>11 DEF Kin, Issued
<1>13. ticket'[t].user = hs[h].user
  BY <1>4 DEF n
<1> QED
  BY <1>1, <1>3, <1>4, <1>9, <1>10, <1>11, <1>12, <1>13 DEF n

LEMMA QuickPushTypes ==
  ASSUME QueueTypes, NEW h \in Handlers, QuickPush(h)
  PROVE  QueueTypes'
<1>1. PICK t \in Tickets :
           /\ queue' = [queue EXCEPT ![hs[h].queue] = Append(queue[hs[h].queue], t)]
           /\ Only(h) /\ hs'[h].pc = "quickTime" /\ hs'[h].ticket = t
           /\ hs'[h].queue = hs[h].queue /\ hs'[h].taken = hs[h].taken /\ hs'[h].ret = hs[h].ret
           /\ TicketsTyped' /\ Kin /\ t \in Issued'
  BY QuickPushIs
<1>2. CallTyped(hs[h]) /\ hs[h].pc = "quickPush"
  BY TypesSplit DEF CallsTyped, QuickPush
<1>3. CallTyped(hs[h])'
  BY <1>1, <1>2 DEF CallTyped, OfTicket, Kin
<1>4. ListsTyped'
  <2>1. hs[h].queue \in Queues /\ queue \in [Queues -> Seq(Tickets)]
    BY <1>2, TypesSplit DEF CallTyped, ListsTyped
  <2>2. /\ Append(queue[hs[h].queue], t) \in Seq(Tickets)
        /\ ToSet(Append(queue[hs[h].queue], t)) = ToSet(queue[hs[h].queue]) \cup {t}
    BY <2>1, ToSetAppend
  <2>3. \A q \in Queues : ToSet(queue'[q]) \subseteq Issued'
    BY <1>1, <2>1, <2>2, TypesSplit DEF ListsTyped, Kin
  <2> QED
    BY <1>1, <2>1, <2>2, <2>3 DEF ListsTyped
<1>5. RestTyped' /\ LocksTyped'
  BY <1>1, TypesSplit, SameRest, SameLocks DEF QuickPush
<1> QED
  BY <1>1, <1>3, <1>4, <1>5, OneCallTypes

LEMMA QuickTimeTypes ==
  ASSUME QueueTypes, NEW h \in Handlers, QuickTime(h)
  PROVE  QueueTypes'
<1>1. TicketsTyped' /\ Kin /\ ListsTyped'
  BY TypesSplit, SameTickets, SameLists DEF QuickTime
<1>2. CallTyped(hs[h]) /\ hs[h].pc = "quickTime" /\ hs[h].ticket \in Issued /\ hs[h].queue \in Queues
  BY TypesSplit DEF CallsTyped, QuickTime, CallTyped, OfTicket
<1>3. RestTyped'
  BY <1>1, <1>2, TypesSplit DEF QuickTime, RestTyped, Kin
<1>4. LocksTyped'
  BY <1>2, TypesSplit DEF QuickTime, LocksTyped, Since
<1>5. CASE To(h, "quickLength")
  <2>1. /\ Only(h) /\ hs'[h].pc = "quickLength"
        /\ hs'[h].queue = hs[h].queue /\ hs'[h].user = hs[h].user /\ hs'[h].ticket = hs[h].ticket
        /\ hs'[h].taken = hs[h].taken /\ hs'[h].ret = hs[h].ret
    BY <1>5, ToIs DEF PC, QuickPC
  <2>2. CallTyped(hs[h])'
    BY <1>1, <1>2, <2>1, GoesOnTyped DEF FallbackPC
  <2> QED
    BY <1>1, <1>3, <1>4, <2>1, <2>2, OneCallTypes
<1>6. CASE Done(h)
  BY <1>1, <1>3, <1>4, <1>6, DoneIs, IdleTyped, OneCallTypes
<1> QED
  BY <1>5, <1>6 DEF QuickTime

LEMMA QuickLengthTypes ==
  ASSUME QueueTypes, NEW h \in Handlers, QuickLength(h)
  PROVE  QueueTypes'
<1>1. TicketsTyped' /\ Kin
  BY TypesSplit, SameTickets DEF QuickLength
<1>2. hs[h].ticket \in Issued /\ hs[h].queue \in Queues /\ Issued \subseteq Tickets
  BY TypesSplit DEF CallsTyped, QuickLength, CallTyped, OfTicket, Issued
<1>3. ListsTyped'
  <2>1. /\ Cleaned(hs[h].queue) \in Seq(Tickets)
        /\ ToSet(Cleaned(hs[h].queue)) \subseteq ToSet(queue[hs[h].queue])
    BY <1>2, TypesSplit, CleanedIs
  <2> QED
    BY <1>1, <1>2, <2>1, TypesSplit DEF ListsTyped, QuickLength, Kin
<1>4. RestTyped'
  <2>1. fallbacks' \in [Tickets -> Nat]
    BY <1>2, TypesSplit DEF QuickLength, RestTyped
  <2> QED
    BY <1>1, <2>1, TypesSplit DEF QuickLength, RestTyped, Kin
<1>5. LocksTyped'
  BY TypesSplit, SameLocks DEF QuickLength
<1> QED
  BY <1>1, <1>3, <1>4, <1>5, DoneIs, IdleTyped, OneCallTypes DEF QuickLength

\* What Take does: some of the living tickets of the queue are in the hand of
\* the call, the others in the list.
LEMMA TakeIs ==
  ASSUME QueueTypes, NEW h \in Handlers, Take(h)
  PROVE  LET q == hs[h].queue
         IN  /\ Only(h) /\ hs[h].pc = "take" /\ q \in Queues
             /\ hs'[h].pc \in {"read", "reset", "unlock"}
             /\ hs'[h].queue = q /\ hs'[h].user = hs[h].user /\ hs'[h].ticket = hs[h].ticket
             /\ hs'[h].ret = hs[h].ret
             /\ hs'[h].taken \in Seq(Tickets)
             /\ hs'[h].pc # "read" => hs'[h].taken = <<>>
             /\ queue' = [queue EXCEPT ![q] = queue'[q]]
             /\ queue'[q] \in Seq(Tickets)
             /\ ToSet(hs'[h].taken) \cup ToSet(queue'[q]) = {t \in ToSet(queue[q]) : Alive(t)}
<1> DEFINE q == hs[h].queue
           s == Cleaned(q)
           n == IF Len(s) < Size[q] THEN Len(s) ELSE Size[q]
<1>1. /\ hs \in [Handlers -> Handler] /\ q \in Queues /\ hs[h].pc = "take"
      /\ queue \in [Queues -> Seq(Tickets)]
  BY TypesSplit DEF CallsTyped, CallTyped, Take, ListsTyped
<1>2. s \in Seq(Tickets) /\ ToSet(s) = {t \in ToSet(queue[q]) : Alive(t)}
  BY <1>1, TypesSplit, CleanedIs
<1>3. n \in 0 .. Len(s)
  <2>1. Len(s) \in Nat /\ Size[q] \in Nat
    BY <1>1, <1>2, LenProperties, QueuesAssumption
  <2> HIDE DEF s
  <2> QED
    BY <2>1
<1> HIDE DEF n
<1>4. /\ SubSeq(s, 1, n) \in Seq(Tickets) /\ SubSeq(s, n + 1, Len(s)) \in Seq(Tickets)
      /\ ToSet(s) = ToSet(SubSeq(s, 1, n)) \cup ToSet(SubSeq(s, n + 1, Len(s)))
  <2> HIDE DEF s
  <2> QED
    BY <1>2, <1>3, Cut
<1>5. \/ /\ queue' = [queue EXCEPT ![q] = SubSeq(s, n + 1, Len(s))]
         /\ hs' = [hs EXCEPT ![h].pc = "read", ![h].taken = SubSeq(s, 1, n)]
      \/ /\ queue' = [queue EXCEPT ![q] = s]
         /\ \E p \in {"reset", "unlock"} : Leave(h, p)
  BY DEF Take, n
<1> HIDE DEF s
<1>6. CASE /\ queue' = [queue EXCEPT ![q] = SubSeq(s, n + 1, Len(s))]
           /\ hs' = [hs EXCEPT ![h].pc = "read", ![h].taken = SubSeq(s, 1, n)]
  <2> DEFINE a == SubSeq(s, 1, n)
             c == hs[h]
             d == [[c EXCEPT !.pc = "read"] EXCEPT !.taken = a]
  <2>1. c \in Handler /\ a \in Seq(Tickets)
    BY <1>1, <1>4
  <2>2. hs' = [g \in Handlers |-> IF g = h THEN hs'[h] ELSE hs[g]] /\ hs'[h] = d
    BY <1>1, <1>6
  <2> HIDE DEF a, c
  <2>3. /\ d \in Handler /\ d.pc = "read" /\ d.taken = a
        /\ d.queue = c.queue /\ d.user = c.user /\ d.ticket = c.ticket /\ d.ret = c.ret
    BY <2>1 DEF Handler, PC, AssemblePC
  <2>4. queue'[q] = SubSeq(s, n + 1, Len(s)) /\ queue' = [queue EXCEPT ![q] = queue'[q]]
    BY <1>1, <1>6
  <2>5. /\ Only(h) /\ hs'[h].pc = "read" /\ hs'[h].taken = a
        /\ hs'[h].queue = q /\ hs'[h].user = hs[h].user /\ hs'[h].ticket = hs[h].ticket
        /\ hs'[h].ret = hs[h].ret
    BY <2>2, <2>3 DEF Only, c
  <2> QED
    BY <1>1, <1>2, <1>4, <2>4, <2>5 DEF a
<1>7. CASE /\ queue' = [queue EXCEPT ![q] = s]
           /\ \E p \in {"reset", "unlock"} : Leave(h, p)
  <2>1. PICK p \in {"reset", "unlock"} : Leave(h, p)
    BY <1>7
  <2>2. p \in PC
    BY DEF PC, AssemblePC
  <2>3. /\ Only(h) /\ hs'[h].pc = p
        /\ hs'[h].queue = hs[h].queue /\ hs'[h].user = hs[h].user /\ hs'[h].ticket = hs[h].ticket
        /\ hs'[h].taken = <<>> /\ hs'[h].ret = hs[h].ret
    BY <2>1, <2>2, LeaveIs
  <2>4. queue'[q] = s /\ queue' = [queue EXCEPT ![q] = queue'[q]]
    BY <1>1, <1>7
  <2>5. <<>> \in Seq(Tickets)
    BY EmptySeq
  <2> QED
    BY <1>1, <1>2, <2>3, <2>4, <2>5, ToSetEmpty
<1> QED
  BY <1>5, <1>6, <1>7

LEMMA TakeTypes ==
  ASSUME QueueTypes, NEW h \in Handlers, Take(h)
  PROVE  QueueTypes'
<1> DEFINE q == hs[h].queue
<1>1. TicketsTyped' /\ Kin /\ RestTyped'
  BY TypesSplit, SameTickets, SameRest DEF Take
<1>2. /\ Only(h) /\ q \in Queues
      /\ hs'[h].pc \in {"read", "reset", "unlock"}
      /\ hs'[h].queue = q /\ hs'[h].user = hs[h].user /\ hs'[h].ticket = hs[h].ticket
      /\ hs'[h].ret = hs[h].ret
      /\ queue' = [queue EXCEPT ![q] = queue'[q]]
      /\ queue'[q] \in Seq(Tickets)
      /\ ToSet(hs'[h].taken) \subseteq ToSet(queue[q])
      /\ ToSet(queue'[q]) \subseteq ToSet(queue[q])
  BY TakeIs
<1>3. CallTyped(hs[h])'
  <2>1. CallTyped(hs[h])
    BY TypesSplit DEF CallsTyped
  <2>2. ToSet(hs'[h].taken) \subseteq Issued'
    BY <1>1, <1>2, TypesSplit DEF ListsTyped, Kin
  <2> QED
    BY <1>1, <1>2, <2>1, <2>2 DEF CallTyped, OfTicket, FallbackPC, Kin
<1>4. ListsTyped'
  <2>1. \A r \in Queues : queue'[r] = IF r = q THEN queue'[q] ELSE queue[r]
    BY <1>2, TypesSplit DEF ListsTyped
  <2>2. \A r \in Queues : ToSet(queue'[r]) \subseteq Issued'
    BY <1>1, <1>2, <2>1, TypesSplit DEF ListsTyped, Kin
  <2>3. queue' \in [Queues -> Seq(Tickets)]
    BY <1>2, TypesSplit DEF ListsTyped
  <2> QED
    BY <2>2, <2>3 DEF ListsTyped
<1>5. LocksTyped'
  BY <1>2, TypesSplit DEF Take, LocksTyped, Since
<1> QED
  BY <1>1, <1>2, <1>3, <1>4, <1>5, OneCallTypes

\* What ReadTickets does: of the tickets in hand those that are still alive
\* afterwards are each of another user, in hand or back in the list.
LEMMA ReadIs ==
  ASSUME QueueTypes, NEW h \in Handlers, ReadTickets(h)
  PROVE  \E v \in Seq(Tickets), S \in SUBSET ToSet(hs[h].taken) :
           LET q == hs[h].queue
           IN  /\ Only(h) /\ hs[h].pc = "read" /\ q \in Queues
               /\ hs'[h].queue = q /\ hs'[h].user = hs[h].user /\ hs'[h].ticket = hs[h].ticket
               /\ hs'[h].ret = hs[h].ret
               /\ Distinct(ToSet(v))
               /\ ToSet(v) \cup S = {t \in ToSet(hs[h].taken) : Alive(t)}
               /\ Delete(S)
               /\ \/ v = <<>> /\ hs'[h].pc = "unlock" /\ hs'[h].taken = <<>> /\ UNCHANGED queue
                  \/ /\ hs'[h].pc = "unlock" /\ hs'[h].taken = <<>>
                     /\ queue' = [queue EXCEPT ![q] = v \o queue[q]]
                  \/ hs'[h].pc = "freeze" /\ hs'[h].taken = v /\ UNCHANGED queue
<1> DEFINE q == hs[h].queue
           s == hs[h].taken
           read == Living(s)
           first == FirstOfUser(s, read)
           v == Keep(s, first)
           S == {s[i] : i \in read \ first}
<1>1. /\ hs \in [Handlers -> Handler] /\ q \in Queues /\ hs[h].pc = "read"
      /\ hs[h] \in Handler /\ TicketsTyped
  BY TypesSplit DEF CallsTyped, CallTyped, ReadTickets
<1>2. s \in Seq(Tickets) /\ read \in SUBSET DOMAIN s
  BY <1>1 DEF Handler, Living
<1>3. v \in Seq(Tickets) /\ ToSet(v) = {s[i] : i \in first} /\ Distinct(ToSet(v))
  BY <1>1, <1>2, FirstIs
<1>4. first \subseteq read
  BY DEF FirstOfUser
<1>5. ToSet(v) \cup S = {t \in ToSet(s) : Alive(t)} /\ S \in SUBSET ToSet(s)
  <2>1. {t \in ToSet(s) : Alive(t)} = {s[i] : i \in read}
    BY ToSetDef DEF Living
  <2> HIDE DEF read, first, v, s
  <2>2. {s[i] : i \in read} = {s[i] : i \in first} \cup {s[i] : i \in read \ first}
    BY <1>4
  <2> QED
    BY <1>3, <2>1, <2>2
<1>6. Delete(S)
  BY DEF ReadTickets
<1>7. \/ v = <<>> /\ Leave(h, "unlock") /\ UNCHANGED queue
      \/ Leave(h, "unlock") /\ queue' = [queue EXCEPT ![q] = v \o queue[q]]
      \/ hs' = [hs EXCEPT ![h].pc = "freeze", ![h].taken = v, ![h].force = FALSE] /\ UNCHANGED queue
  BY DEF ReadTickets
<1> HIDE DEF v, S, s, read, first
<1>8. CASE Leave(h, "unlock")
  <2>1. /\ Only(h) /\ hs'[h].pc = "unlock"
        /\ hs'[h].queue = hs[h].queue /\ hs'[h].user = hs[h].user /\ hs'[h].ticket = hs[h].ticket
        /\ hs'[h].taken = <<>> /\ hs'[h].ret = hs[h].ret
    BY <1>8, LeaveIs DEF PC, AssemblePC
  <2>2. \/ v = <<>> /\ UNCHANGED queue
        \/ queue' = [queue EXCEPT ![q] = v \o queue[q]]
        \/ hs'[h].pc = "freeze" /\ hs'[h].taken = v /\ UNCHANGED queue
    <3>1. hs' = [hs EXCEPT ![h].pc = "freeze", ![h].taken = v, ![h].force = FALSE]
            => hs'[h] = [[[hs[h] EXCEPT !.pc = "freeze"] EXCEPT !.taken = v] EXCEPT !.force = FALSE]
      BY <1>1
    <3>2. [[[hs[h] EXCEPT !.pc = "freeze"] EXCEPT !.taken = v] EXCEPT !.force = FALSE].pc = "freeze"
      BY <1>1 DEF Handler
    <3> QED
      BY <1>7, <2>1, <3>1, <3>2
  <2> QED
    BY <1>1, <1>3, <1>5, <1>6, <2>1, <2>2 DEF s
<1>9. CASE /\ hs' = [hs EXCEPT ![h].pc = "freeze", ![h].taken = v, ![h].force = FALSE]
           /\ UNCHANGED queue
  <2> DEFINE c == hs[h]
             d == [[[c EXCEPT !.pc = "freeze"] EXCEPT !.taken = v] EXCEPT !.force = FALSE]
  <2>1. c \in Handler
    BY <1>1
  <2>2. hs' = [g \in Handlers |-> IF g = h THEN hs'[h] ELSE hs[g]] /\ hs'[h] = d
    BY <1>1, <1>9
  <2> HIDE DEF c
  <2>3. /\ d \in Handler /\ d.pc = "freeze" /\ d.taken = v
        /\ d.queue = c.queue /\ d.user = c.user /\ d.ticket = c.ticket /\ d.ret = c.ret
    BY <1>3, <2>1 DEF Handler, PC, AssemblePC
  <2>4. /\ Only(h) /\ hs'[h].pc = "freeze" /\ hs'[h].taken = v
        /\ hs'[h].queue = q /\ hs'[h].user = hs[h].user /\ hs'[h].ticket = hs[h].ticket
        /\ hs'[h].ret = hs[h].ret
    BY <2>2, <2>3 DEF Only, c
  <2> QED
    BY <1>1, <1>3, <1>5, <1>6, <1>9, <2>4 DEF s
<1> QED
  BY <1>7, <1>8, <1>9

LEMMA ReadTypes ==
  ASSUME QueueTypes, NEW h \in Handlers, ReadTickets(h)
  PROVE  QueueTypes'
<1> DEFINE q == hs[h].queue
<1>1. PICK v \in Seq(Tickets), S \in SUBSET ToSet(hs[h].taken) :
               /\ Only(h) /\ hs[h].pc = "read" /\ q \in Queues
               /\ hs'[h].queue = q /\ hs'[h].user = hs[h].user /\ hs'[h].ticket = hs[h].ticket
               /\ hs'[h].ret = hs[h].ret
               /\ ToSet(v) \subseteq ToSet(hs[h].taken)
               /\ Delete(S)
               /\ \/ v = <<>> /\ hs'[h].pc = "unlock" /\ hs'[h].taken = <<>> /\ UNCHANGED queue
                  \/ /\ hs'[h].pc = "unlock" /\ hs'[h].taken = <<>>
                     /\ queue' = [queue EXCEPT ![q] = v \o queue[q]]
                  \/ hs'[h].pc = "freeze" /\ hs'[h].taken = v /\ UNCHANGED queue
  <2>1. \E v \in Seq(Tickets), S \in SUBSET ToSet(hs[h].taken) :
               /\ Only(h) /\ hs[h].pc = "read" /\ q \in Queues
               /\ hs'[h].queue = q /\ hs'[h].user = hs[h].user /\ hs'[h].ticket = hs[h].ticket
               /\ hs'[h].ret = hs[h].ret
               /\ ToSet(v) \cup S = {t \in ToSet(hs[h].taken) : Alive(t)}
               /\ Delete(S)
               /\ \/ v = <<>> /\ hs'[h].pc = "unlock" /\ hs'[h].taken = <<>> /\ UNCHANGED queue
                  \/ /\ hs'[h].pc = "unlock" /\ hs'[h].taken = <<>>
                     /\ queue' = [queue EXCEPT ![q] = v \o queue[q]]
                  \/ hs'[h].pc = "freeze" /\ hs'[h].taken = v /\ UNCHANGED queue
    BY ReadIs
  <2> QED
    BY <2>1
<1>2. TicketsTyped' /\ Kin
  BY <1>1, TypesSplit, Deleted
<1>3. RestTyped' /\ LocksTyped'
  BY <1>2, TypesSplit, SameRest, SameLocks DEF ReadTickets
<1>4. CallTyped(hs[h]) /\ ToSet(v) \subseteq Issued /\ queue[q] \in Seq(Tickets)
  BY <1>1, TypesSplit DEF CallsTyped, CallTyped, ListsTyped
<1>5. CallTyped(hs[h])'
  BY <1>1, <1>2, <1>4, ToSetEmpty DEF CallTyped, OfTicket, FallbackPC, Kin
<1>6. ListsTyped'
  <2>1. CASE UNCHANGED queue
    BY <1>2, <2>1, TypesSplit, SameLists
  <2>2. CASE queue' = [queue EXCEPT ![q] = v \o queue[q]]
    <3>1. v \o queue[q] \in Seq(Tickets) /\ ToSet(v \o queue[q]) = ToSet(v) \cup ToSet(queue[q])
      BY <1>4, ToSetConcat
    <3> QED
      BY <1>1, <1>2, <1>4, <2>2, <3>1, TypesSplit DEF ListsTyped, Kin
  <2> QED
    BY <1>1, <2>1, <2>2
<1> QED
  BY <1>1, <1>2, <1>3, <1>5, <1>6, OneCallTypes

LEMMA FreezeTypes ==
  ASSUME QueueTypes, NEW h \in Handlers, Freeze(h)
  PROVE  QueueTypes'
<1>1. TicketsTyped' /\ Kin
  <2>1. UNCHANGED ticket \/ Delete(ToSet(hs[h].taken))
    BY DEF Freeze
  <2> QED
    BY <2>1, TypesSplit, SameTickets, Deleted
<1>2. ListsTyped' /\ RestTyped' /\ LocksTyped'
  BY <1>1, TypesSplit, SameLists, SameRest, SameLocks DEF Freeze
<1>3. /\ Only(h) /\ hs'[h].pc \in {"delete", "unlock"} /\ hs[h].pc = "freeze"
      /\ hs'[h].queue = hs[h].queue /\ hs'[h].user = hs[h].user /\ hs'[h].ticket = hs[h].ticket
      /\ hs'[h].taken = hs[h].taken \/ hs'[h].taken = <<>>
      /\ hs'[h].ret = hs[h].ret
  <2>1. To(h, "delete") \/ Leave(h, "unlock")
    BY DEF Freeze
  <2>2. "delete" \in PC /\ "unlock" \in PC /\ hs[h].pc = "freeze"
    BY DEF PC, AssemblePC, Freeze
  <2>3. CASE To(h, "delete")
    BY <2>2, <2>3, ToIs
  <2>4. CASE Leave(h, "unlock")
    BY <2>2, <2>4, LeaveIs
  <2> QED
    BY <2>1, <2>3, <2>4
<1>4. CallTyped(hs[h])'
  BY <1>1, <1>3, GoesOnTyped DEF FallbackPC
<1> QED
  BY <1>1, <1>2, <1>3, <1>4, OneCallTypes

LEMMA DeleteTypes ==
  ASSUME QueueTypes, NEW h \in Handlers, DeleteTickets(h)
  PROVE  QueueTypes'
<1>1. TicketsTyped' /\ Kin
  BY TypesSplit, Deleted DEF DeleteTickets
<1>2. ListsTyped' /\ RestTyped' /\ LocksTyped'
  BY <1>1, TypesSplit, SameLists, SameRest, SameLocks DEF DeleteTickets
<1>3. /\ Only(h) /\ hs'[h].pc = "create" /\ hs[h].pc = "delete"
      /\ hs'[h].queue = hs[h].queue /\ hs'[h].user = hs[h].user /\ hs'[h].ticket = hs[h].ticket
      /\ hs'[h].taken = hs[h].taken /\ hs'[h].ret = hs[h].ret
  BY ToIs DEF DeleteTickets, PC, AssemblePC
<1>4. CallTyped(hs[h])'
  BY <1>1, <1>3, GoesOnTyped DEF FallbackPC
<1> QED
  BY <1>1, <1>2, <1>3, <1>4, OneCallTypes

LEMMA CreateIs ==
  ASSUME QueueTypes, NEW h \in Handlers, CreateMatch(h)
  PROVE  LET players == ToSet(hs[h].taken)
         IN  /\ Only(h) /\ hs'[h].pc = "reset" /\ hs[h].pc = "create"
             /\ hs'[h].queue = hs[h].queue /\ hs'[h].user = hs[h].user /\ hs'[h].ticket = hs[h].ticket
             /\ hs'[h].taken = <<>>
             /\ \/ hs[h].ret = "bot" /\ hs'[h].ret = "assembled"
                \/ hs[h].ret # "bot" /\ hs'[h].ret = hs[h].ret
             /\ players \subseteq Issued
             /\ matches' = matches \cup {players}
             /\ made' \in [Tickets -> [queue : Nat, bot : Nat]]
             /\ \A t \in Tickets : made'[t] = IF t \in players
                                              THEN [queue |-> made[t].queue + 1, bot |-> made[t].bot]
                                              ELSE made[t]
<1> DEFINE players == ToSet(hs[h].taken)
<1>1. /\ hs \in [Handlers -> Handler] /\ players \subseteq Issued /\ hs[h].pc = "create"
      /\ made \in [Tickets -> [queue : Nat, bot : Nat]]
      /\ hs[h].ret \in {"idle", "bot", "assembled"}
  BY TypesSplit DEF CallsTyped, CallTyped, RestTyped, CreateMatch
<1>2. PICK r : /\ hs' = [hs EXCEPT ![h].pc = "reset", ![h].taken = <<>>, ![h].ret = r]
               /\ r = IF hs[h].ret = "bot" THEN "assembled" ELSE hs[h].ret
  <2>1. CASE hs[h].ret = "bot"
    BY <2>1 DEF CreateMatch
  <2>2. CASE hs[h].ret # "bot"
    BY <2>2 DEF CreateMatch
  <2> QED
    BY <2>1, <2>2
<1> DEFINE c == hs[h]
           d == [[[c EXCEPT !.pc = "reset"] EXCEPT !.taken = <<>>] EXCEPT !.ret = r]
<1>3. hs' = [g \in Handlers |-> IF g = h THEN hs'[h] ELSE hs[g]] /\ hs'[h] = d
  BY <1>1, <1>2
<1>4. c \in Handler /\ r \in {"idle", "bot", "assembled"} /\ <<>> \in Seq(Tickets)
  BY <1>1, <1>2, EmptySeq
<1> HIDE DEF c
<1>5. /\ d \in Handler /\ d.pc = "reset" /\ d.taken = <<>> /\ d.ret = r
      /\ d.queue = c.queue /\ d.user = c.user /\ d.ticket = c.ticket
  BY <1>4 DEF Handler, PC, AssemblePC, FallbackPC
<1>6. /\ Only(h) /\ hs'[h].pc = "reset" /\ hs'[h].taken = <<>> /\ hs'[h].ret = r
      /\ hs'[h].queue = hs[h].queue /\ hs'[h].user = hs[h].user /\ hs'[h].ticket = hs[h].ticket
  BY <1>3, <1>5 DEF Only, c
<1>7. matches' = matches \cup {players}
  BY DEF CreateMatch
<1>8. ASSUME NEW t \in Tickets
      PROVE  /\ made'[t] = IF t \in players
                           THEN [queue |-> made[t].queue + 1, bot |-> made[t].bot] ELSE made[t]
             /\ made'[t] \in [queue : Nat, bot : Nat]
  <2>1. made[t] \in [queue : Nat, bot : Nat]
    BY <1>1
  <2>2. made'[t] = IF t \in players THEN [made[t] EXCEPT !.queue = made[t].queue + 1] ELSE made[t]
    BY DEF CreateMatch
  <2> HIDE DEF players
  <2> QED
    BY <2>1, <2>2
<1>9. made' \in [Tickets -> [queue : Nat, bot : Nat]]
  BY <1>8 DEF CreateMatch
<1> QED
  BY <1>1, <1>2, <1>6, <1>7, <1>8, <1>9

LEMMA CreateTypes ==
  ASSUME QueueTypes, NEW h \in Handlers, CreateMatch(h)
  PROVE  QueueTypes'
<1> DEFINE players == ToSet(hs[h].taken)
<1>1. /\ Only(h) /\ hs'[h].pc = "reset" /\ hs[h].pc = "create"
      /\ hs'[h].queue = hs[h].queue /\ hs'[h].ticket = hs[h].ticket
      /\ hs'[h].taken = <<>>
      /\ \/ hs[h].ret = "bot" /\ hs'[h].ret = "assembled"
         \/ hs[h].ret # "bot" /\ hs'[h].ret = hs[h].ret
      /\ players \subseteq Issued
      /\ matches' = matches \cup {players}
      /\ made' \in [Tickets -> [queue : Nat, bot : Nat]]
  BY CreateIs
<1>2. TicketsTyped' /\ Kin /\ ListsTyped' /\ LocksTyped'
  BY TypesSplit, SameTickets, SameLists, SameLocks DEF CreateMatch, keys
<1>3. RestTyped'
  BY <1>1, <1>2, TypesSplit DEF RestTyped, CreateMatch, timing, Kin
<1>4. CallTyped(hs[h])'
  <2>1. CallTyped(hs[h])
    BY TypesSplit DEF CallsTyped
  <2> QED
    BY <1>1, <1>2, <2>1, ToSetEmpty DEF CallTyped, OfTicket, FallbackPC, Kin
<1> QED
  BY <1>1, <1>2, <1>3, <1>4, OneCallTypes

LEMMA ResetTypes ==
  ASSUME QueueTypes, NEW h \in Handlers, ResetTime(h)
  PROVE  QueueTypes'
<1>1. TicketsTyped' /\ Kin /\ ListsTyped' /\ RestTyped'
  BY TypesSplit, SameTickets, SameLists, SameRest DEF ResetTime
<1>2. /\ Only(h) /\ hs'[h].pc = "unlock" /\ hs[h].pc = "reset"
      /\ hs'[h].queue = hs[h].queue /\ hs'[h].user = hs[h].user /\ hs'[h].ticket = hs[h].ticket
      /\ hs'[h].taken = hs[h].taken /\ hs'[h].ret = hs[h].ret
  BY ToIs DEF ResetTime, PC, AssemblePC
<1>3. CallTyped(hs[h])'
  BY <1>1, <1>2, GoesOnTyped DEF FallbackPC
<1>4. LocksTyped'
  BY TypesSplit DEF ResetTime, LocksTyped, Since
<1> QED
  BY <1>1, <1>2, <1>3, <1>4, OneCallTypes

LEMMA ReturnTyped ==
  ASSUME QueueTypes, NEW h \in Handlers, Return(h), Kin, hs[h].pc # "idle"
  PROVE  Only(h) /\ CallTyped(hs[h])'
<1>1. CallTyped(hs[h])
  BY TypesSplit DEF CallsTyped
<1>2. /\ Only(h)
      /\ \/ hs[h].ret = "idle" /\ hs'[h] = Idle
         \/ /\ hs[h].ret \in {"bot", "assembled"} /\ hs'[h].pc = hs[h].ret
            /\ hs'[h].queue = hs[h].queue /\ hs'[h].ticket = hs[h].ticket
            /\ hs'[h].taken = hs[h].taken /\ hs'[h].ret = "idle"
  BY ReturnIs
<1>3. CASE hs'[h] = Idle
  BY <1>2, <1>3, IdleTyped
<1>4. CASE hs'[h] # Idle
  BY <1>1, <1>2, <1>4 DEF CallTyped, OfTicket, FallbackPC, Kin
<1> QED
  BY <1>2, <1>3, <1>4

LEMMA LockTypes ==
  ASSUME QueueTypes, NEW h \in Handlers, QueueLock(h)
  PROVE  QueueTypes'
<1>1. TicketsTyped' /\ Kin /\ ListsTyped' /\ RestTyped'
  BY TypesSplit, SameTickets, SameLists, SameRest DEF QueueLock
<1>2. LocksTyped'
  BY TypesSplit DEF QueueLock, LocksTyped
<1>3. hs[h].pc = "lock" /\ (Return(h) \/ To(h, "take"))
  BY DEF QueueLock
<1>4. Only(h) /\ CallTyped(hs[h])'
  <2>1. CASE To(h, "take")
    <3>1. /\ Only(h) /\ hs'[h].pc = "take"
          /\ hs'[h].queue = hs[h].queue /\ hs'[h].user = hs[h].user /\ hs'[h].ticket = hs[h].ticket
          /\ hs'[h].taken = hs[h].taken /\ hs'[h].ret = hs[h].ret
      BY <2>1, ToIs DEF PC, AssemblePC
    <3> QED
      BY <1>1, <1>3, <3>1, GoesOnTyped DEF FallbackPC
  <2>2. CASE Return(h)
    BY <1>1, <1>3, <2>2, ReturnTyped
  <2> QED
    BY <1>3, <2>1, <2>2
<1> QED
  BY <1>1, <1>2, <1>4, OneCallTypes

LEMMA UnlockTypes ==
  ASSUME QueueTypes, NEW h \in Handlers, QueueUnlock(h)
  PROVE  QueueTypes'
<1>1. TicketsTyped' /\ Kin /\ ListsTyped' /\ RestTyped'
  BY TypesSplit, SameTickets, SameLists, SameRest DEF QueueUnlock
<1>2. LocksTyped'
  BY TypesSplit DEF QueueUnlock, LocksTyped
<1>3. Only(h) /\ CallTyped(hs[h])'
  BY <1>1, ReturnTyped DEF QueueUnlock
<1> QED
  BY <1>1, <1>2, <1>3, OneCallTypes

LEMMA FallbackTypes ==
  ASSUME QueueTypes, NEW h \in Handlers,
         Assembled(h) \/ BotStakes(h) \/ BotPush(h) \/ BotDelete(h) \/ BotCreate(h)
  PROVE  QueueTypes'
<1>0. /\ hs[h].pc \in FallbackPC /\ hs[h].ticket \in Issued /\ hs[h].queue \in Queues
      /\ Issued \subseteq Tickets
  BY TypesSplit DEF CallsTyped, CallTyped, OfTicket, FallbackPC, Issued,
                    Assembled, BotStakes, BotPush, BotDelete, BotCreate
<1>1. CASE Assembled(h)
  <2>1. TicketsTyped' /\ Kin
    BY <1>1, TypesSplit, Deleted DEF Assembled
  <2>2. ListsTyped' /\ RestTyped' /\ LocksTyped'
    BY <1>1, <2>1, TypesSplit, SameLists, SameRest, SameLocks DEF Assembled
  <2> QED
    BY <1>1, <2>1, <2>2, DoneIs, IdleTyped, OneCallTypes DEF Assembled
<1>2. CASE BotStakes(h)
  <2>1. TicketsTyped' /\ Kin /\ ListsTyped' /\ RestTyped' /\ LocksTyped'
    BY <1>2, TypesSplit, SameTickets, SameLists, SameRest, SameLocks DEF BotStakes, keys
  <2>2. PICK p \in {"botDelete", "botPush"} : To(h, p)
    BY <1>2 DEF BotStakes
  <2>3. /\ Only(h) /\ hs'[h].pc = p
        /\ hs'[h].queue = hs[h].queue /\ hs'[h].user = hs[h].user /\ hs'[h].ticket = hs[h].ticket
        /\ hs'[h].taken = hs[h].taken /\ hs'[h].ret = hs[h].ret
    BY <2>2, ToIs DEF PC, FallbackPC
  <2>4. CallTyped(hs[h])'
    BY <1>0, <2>1, <2>3, GoesOnTyped DEF FallbackPC
  <2> QED
    BY <2>1, <2>3, <2>4, OneCallTypes
<1>3. CASE BotPush(h)
  <2>1. TicketsTyped' /\ Kin /\ RestTyped' /\ LocksTyped'
    BY <1>3, TypesSplit, SameTickets, SameRest, SameLocks DEF BotPush
  <2>2. ListsTyped'
    <3> DEFINE q == hs[h].queue
    <3>1. queue \in [Queues -> Seq(Tickets)] /\ hs[h].ticket \in Tickets
      BY <1>0, TypesSplit DEF ListsTyped
    <3>2. /\ Append(queue[q], hs[h].ticket) \in Seq(Tickets)
          /\ ToSet(Append(queue[q], hs[h].ticket)) = ToSet(queue[q]) \cup {hs[h].ticket}
      BY <1>0, <3>1, ToSetAppend
    <3>3. queue' = [queue EXCEPT ![q] = Append(queue[q], hs[h].ticket)]
      BY <1>3 DEF BotPush
    <3>4. \A r \in Queues : ToSet(queue'[r]) \subseteq Issued'
      BY <1>0, <2>1, <3>1, <3>2, <3>3, TypesSplit DEF ListsTyped, Kin
    <3> QED
      BY <1>0, <3>1, <3>2, <3>3, <3>4 DEF ListsTyped
  <2> QED
    BY <1>3, <2>1, <2>2, DoneIs, IdleTyped, OneCallTypes DEF BotPush
<1>4. CASE BotDelete(h)
  <2>1. TicketsTyped' /\ Kin
    BY <1>4, TypesSplit, Deleted DEF BotDelete
  <2>2. ListsTyped' /\ RestTyped' /\ LocksTyped'
    BY <1>4, <2>1, TypesSplit, SameLists, SameRest, SameLocks DEF BotDelete
  <2>3. /\ Only(h) /\ hs'[h].pc = "botCreate"
        /\ hs'[h].queue = hs[h].queue /\ hs'[h].user = hs[h].user /\ hs'[h].ticket = hs[h].ticket
        /\ hs'[h].taken = hs[h].taken /\ hs'[h].ret = hs[h].ret
    BY <1>4, ToIs DEF PC, FallbackPC, BotDelete
  <2>4. CallTyped(hs[h])'
    BY <1>0, <2>1, <2>3, GoesOnTyped DEF FallbackPC
  <2> QED
    BY <2>1, <2>2, <2>3, <2>4, OneCallTypes
<1>5. CASE BotCreate(h)
  <2>1. TicketsTyped' /\ Kin /\ ListsTyped' /\ LocksTyped'
    BY <1>5, TypesSplit, SameTickets, SameLists, SameLocks DEF BotCreate, keys
  <2>2. RestTyped'
    <3>1. made' \in [Tickets -> [queue : Nat, bot : Nat]]
      BY <1>0, <1>5, TypesSplit DEF BotCreate, RestTyped
    <3>2. matches' \subseteq SUBSET Issued
      BY <1>0, <1>5, TypesSplit DEF BotCreate, RestTyped
    <3> QED
      BY <1>5, <2>1, <3>1, <3>2, TypesSplit DEF BotCreate, RestTyped, timing, Kin
  <2> QED
    BY <1>5, <2>1, <2>2, DoneIs, IdleTyped, OneCallTypes DEF BotCreate
<1> QED
  BY <1>1, <1>2, <1>3, <1>4, <1>5

LEMMA QuickPlayIs ==
  ASSUME QueueTypes, NEW h \in Handlers, NEW u \in Users, NEW q \in Queues, QuickPlay(h, u, q)
  PROVE  /\ Only(h) /\ hs'[h].pc = "quickMatches" /\ hs'[h].queue = q /\ hs'[h].user = u
         /\ hs'[h].taken = <<>> /\ hs'[h].ret = "idle"
<1>1. hs \in [Handlers -> Handler]
  BY TypesSplit DEF CallsTyped
<1>2. /\ hs' = [g \in Handlers |-> IF g = h THEN hs'[h] ELSE hs[g]]
      /\ hs'[h] = [pc |-> "quickMatches", queue |-> q, user |-> u, ticket |-> 0, taken |-> <<>>,
                   force |-> FALSE, ret |-> "idle"]
  BY <1>1 DEF QuickPlay, Idle
<1>3. <<>> \in Seq(Tickets) /\ "idle" \in PC /\ "quickMatches" \in PC
  BY EmptySeq DEF PC, QuickPC
<1>4. [pc |-> "quickMatches", queue |-> q, user |-> u, ticket |-> 0, taken |-> <<>>,
       force |-> FALSE, ret |-> "idle"] \in Handler
  BY <1>3 DEF Handler
<1> QED
  BY <1>2, <1>4 DEF Only

LEMMA CallingTyped ==
  ASSUME QueueTypes, NEW h \in Handlers, NEW q \in Queues, NEW t \in Tickets \cup {0},
         NEW force \in BOOLEAN, NEW ret \in {"idle", "bot"}, CallAssemble(h, q, t, force, ret),
         Kin, ret # "idle" => t \in Issued
  PROVE  Only(h) /\ CallTyped(hs[h])'
<1>1. /\ Only(h) /\ hs'[h].pc = "lock" /\ hs'[h].queue = q /\ hs'[h].ticket = t
      /\ hs'[h].taken = <<>> /\ hs'[h].ret = ret
  BY CallIs
<1> QED
  BY <1>1, ToSetEmpty DEF CallTyped, OfTicket, FallbackPC, Kin

LEMMA NoCallTypes ==
  ASSUME QueueTypes, UNCHANGED hs, Kin, TicketsTyped', ListsTyped', RestTyped', LocksTyped'
  PROVE  QueueTypes'
<1>1. CallsTyped'
  BY TypesSplit DEF CallsTyped, CallTyped, OfTicket, Kin
<1> QED
  BY <1>1, TypesJoined

LEMMA CallStepTypes ==
  ASSUME QueueTypes, NEW h \in Handlers,
         \/ \E u \in Users, q \in Queues : QuickPlay(h, u, q)
         \/ \E q \in Queues : QueueTick(h, q)
         \/ \E t \in Tickets : Scheduled(h, t) \/ Fallback(h, t)
  PROVE  QueueTypes'
<1>1. CASE \E u \in Users, q \in Queues : QuickPlay(h, u, q)
  <2>1. PICK u \in Users, q \in Queues : QuickPlay(h, u, q)
    BY <1>1
  <2>2. TicketsTyped' /\ Kin /\ ListsTyped' /\ RestTyped' /\ LocksTyped'
    BY <2>1, TypesSplit, SameTickets, SameLists, SameRest, SameLocks DEF QuickPlay, keys
  <2>3. /\ Only(h) /\ hs'[h].pc = "quickMatches" /\ hs'[h].queue = q /\ hs'[h].user = u
        /\ hs'[h].taken = <<>> /\ hs'[h].ret = "idle"
    BY <2>1, QuickPlayIs
  <2>4. CallTyped(hs[h])'
    BY <2>3, ToSetEmpty DEF CallTyped, OfTicket, FallbackPC
  <2> QED
    BY <2>2, <2>3, <2>4, OneCallTypes
<1>2. CASE \E q \in Queues : QueueTick(h, q)
  <2>1. PICK q \in Queues : QueueTick(h, q)
    BY <1>2
  <2>2. TicketsTyped' /\ Kin /\ ListsTyped' /\ RestTyped'
    BY <2>1, TypesSplit, SameTickets, SameLists, SameRest DEF QueueTick
  <2>3. LocksTyped'
    BY <2>1, TypesSplit DEF QueueTick, LocksTyped, Since
  <2>4. CASE UNCHANGED hs
    BY <2>2, <2>3, <2>4, NoCallTypes
  <2>5. CASE CallAssemble(h, q, 0, TRUE, "idle")
    BY <2>2, <2>3, <2>5, CallingTyped, OneCallTypes
  <2> QED
    BY <2>1, <2>4, <2>5 DEF QueueTick
<1>3. CASE \E t \in Tickets : Scheduled(h, t)
  <2>1. PICK t \in Tickets : Scheduled(h, t)
    BY <1>3
  <2>2. TicketsTyped' /\ Kin /\ ListsTyped' /\ LocksTyped'
    BY <2>1, TypesSplit, SameTickets, SameLists, SameLocks DEF Scheduled, keys
  <2>3. RestTyped' /\ ticket[t].queue \in Queues
    BY <2>1, <2>2, TypesSplit DEF Scheduled, RestTyped, Kin, Issued, TicketsTyped
  <2> QED
    BY <2>1, <2>2, <2>3, CallingTyped, OneCallTypes DEF Scheduled
<1>4. CASE \E t \in Tickets : Fallback(h, t)
  <2>1. PICK t \in Tickets : Fallback(h, t)
    BY <1>4
  <2>2. TicketsTyped' /\ Kin /\ ListsTyped' /\ LocksTyped'
    BY <2>1, TypesSplit, SameTickets, SameLists, SameLocks DEF Fallback, keys
  <2>3. RestTyped'
    <3>1. fallbacks[t] \in Nat /\ fallbacks[t] > 0 /\ fallbacks \in [Tickets -> Nat]
      BY <2>1, TypesSplit DEF Fallback, RestTyped
    <3>2. fallbacks[t] - 1 \in Nat
      BY <3>1
    <3>3. fallbacks' \in [Tickets -> Nat]
      BY <2>1, <3>1, <3>2 DEF Fallback
    <3> QED
      BY <2>1, <2>2, <3>3, TypesSplit DEF Fallback, RestTyped, Kin
  <2>4. t \in Issued /\ ticket[t].queue \in Queues
    BY <2>1, TypesSplit DEF Fallback, Issued, TicketsTyped
  <2>5. CASE UNCHANGED hs
    BY <2>2, <2>3, <2>5, NoCallTypes
  <2>6. CASE CallAssemble(h, ticket[t].queue, t, TRUE, "bot")
    BY <2>2, <2>3, <2>4, <2>6, CallingTyped, OneCallTypes
  <2> QED
    BY <2>1, <2>5, <2>6 DEF Fallback
<1> QED
  BY <1>1, <1>2, <1>3, <1>4

LEMMA Aged ==
  ASSUME TicketsTyped, NEW t \in Tickets, NEW a \in {"due", "gone"},
         ticket[t].age # "none", ticket' = [ticket EXCEPT ![t].age = a]
  PROVE  /\ TicketsTyped' /\ Kin
         /\ \A s \in Tickets : ticket'[s].user = ticket[s].user
         /\ \A s \in Tickets : s # t => ticket'[s] = ticket[s]
         /\ ticket'[t].age = a
<1> DEFINE n == [ticket[t] EXCEPT !.age = a]
<1>1. /\ ticket' = [ticket EXCEPT ![t] = n]
      /\ ticket'[t] = n /\ \A s \in Tickets : s # t => ticket'[s] = ticket[s]
  BY DEF TicketsTyped
<1>2. /\ n \in TicketType /\ n.age = a /\ n.user = ticket[t].user /\ n.queue = ticket[t].queue
  <2>1. ticket[t] \in TicketType
    BY DEF TicketsTyped
  <2> QED
    BY <2>1 DEF TicketType, Age
<1> HIDE DEF n
<1>3. TicketsTyped'
  <2>1. ticket' \in [Tickets -> TicketType]
    BY <1>1, <1>2 DEF TicketsTyped
  <2>2. \A s \in Tickets : /\ ticket'[s].age # "none" => ticket'[s].user \in Users /\ ticket'[s].queue \in Queues
                           /\ ticket'[s].age = "none" => ticket'[s] = Unissued
    BY <1>1, <1>2 DEF TicketsTyped
  <2> QED
    BY <2>1, <2>2 DEF TicketsTyped
<1>4. Kin
  BY <1>1, <1>2 DEF Kin, Issued
<1> QED
  BY <1>1, <1>2, <1>3, <1>4

LEMMA OtherTypes ==
  ASSUME QueueTypes,
         \/ \E t \in Tickets : AskFallback(t) \/ TicketDue(t) \/ TicketExpire(t)
         \/ \E q \in Queues : QueueDue(q) \/ QueueLockExpire(q)
         \/ \E m \in matches : MatchOver(m)
         \/ Crash
         \/ UNCHANGED vars
  PROVE  QueueTypes'
<1>1. CASE \E t \in Tickets : AskFallback(t)
  <2>1. PICK t \in Tickets : AskFallback(t)
    BY <1>1
  <2>2. TicketsTyped' /\ Kin /\ ListsTyped' /\ LocksTyped' /\ UNCHANGED hs
    BY <2>1, TypesSplit, SameTickets, SameLists, SameLocks DEF AskFallback, keys
  <2>3. RestTyped'
    <3>1. asks' \in Nat
      BY <2>1, TypesSplit DEF AskFallback, RestTyped
    <3>2. fallbacks' \in [Tickets -> Nat]
      BY <2>1, TypesSplit DEF AskFallback, RestTyped
    <3> QED
      BY <2>1, <2>2, <3>1, <3>2, TypesSplit DEF AskFallback, RestTyped, Kin
  <2> QED
    BY <2>2, <2>3, NoCallTypes
<1>2. CASE \E t \in Tickets : TicketDue(t) \/ TicketExpire(t)
  <2>1. PICK t \in Tickets, a \in {"due", "gone"} :
          ticket[t].age # "none" /\ ticket' = [ticket EXCEPT ![t].age = a]
    BY <1>2 DEF TicketDue, TicketExpire
  <2>2. TicketsTyped' /\ Kin
    BY <2>1, TypesSplit, Aged
  <2> QED
    BY <1>2, <2>2, TypesSplit, SameLists, SameRest, SameLocks, NoCallTypes DEF TicketDue, TicketExpire
<1>3. CASE \E q \in Queues : QueueDue(q) \/ QueueLockExpire(q)
  <2>1. TicketsTyped' /\ Kin /\ ListsTyped' /\ RestTyped' /\ UNCHANGED hs
    BY <1>3, TypesSplit, SameTickets, SameLists, SameRest DEF QueueDue, QueueLockExpire
  <2>2. LocksTyped'
    BY <1>3, TypesSplit DEF QueueDue, QueueLockExpire, LocksTyped, Since
  <2> QED
    BY <2>1, <2>2, NoCallTypes
<1>4. CASE \E m \in matches : MatchOver(m)
  <2>1. TicketsTyped' /\ Kin /\ ListsTyped' /\ LocksTyped' /\ UNCHANGED hs
    BY <1>4, TypesSplit, SameTickets, SameLists, SameLocks DEF MatchOver, keys
  <2>2. RestTyped'
    BY <1>4, <2>1, TypesSplit DEF MatchOver, RestTyped, timing, Kin
  <2> QED
    BY <2>1, <2>2, NoCallTypes
<1>5. CASE Crash
  <2>1. TicketsTyped' /\ Kin /\ ListsTyped' /\ LocksTyped'
    BY <1>5, TypesSplit, SameTickets, SameLists, SameLocks DEF Crash, keys
  <2>2. restarts' \in Nat /\ fallbacks' \in [Tickets -> Nat] /\ scheduled' = {}
    BY <1>5, TypesSplit DEF Crash, RestTyped
  <2>3. RestTyped'
    BY <1>5, <2>1, <2>2, TypesSplit DEF Crash, RestTyped, Kin
  <2>4. hs' \in [Handlers -> Handler] /\ \A h \in Handlers : hs'[h] = Idle
    BY <1>5, IdleIs DEF Crash
  <2>5. CallsTyped'
    BY <2>4, IdleTyped DEF CallsTyped
  <2> QED
    BY <2>1, <2>3, <2>5, TypesJoined
<1>6. CASE UNCHANGED vars
  <2>1. TicketsTyped' /\ Kin /\ ListsTyped' /\ RestTyped' /\ LocksTyped' /\ UNCHANGED hs
    BY <1>6, TypesSplit, SameTickets, SameLists, SameRest, SameLocks DEF vars, timing
  <2> QED
    BY <2>1, NoCallTypes
<1> QED
  BY <1>1, <1>2, <1>3, <1>4, <1>5, <1>6

LEMMA TypesInit == Init => QueueTypes
<1> SUFFICES ASSUME Init PROVE QueueTypes
  OBVIOUS
<1>1. Issued = {}
  BY DEF Init, Issued, Unissued
<1>2. TicketsTyped
  BY DEF Init, TicketsTyped, TicketType, Unissued, Age
<1>3. ListsTyped
  BY <1>1, EmptySeq, ToSetEmpty DEF Init, ListsTyped
<1>4. RestTyped
  BY <1>1, QueueBounds DEF Init, RestTyped
<1>5. LocksTyped
  BY DEF Init, LocksTyped, Since
<1>6. CallsTyped
  <2>1. CallTyped(Idle)
    BY ToSetEmpty DEF CallTyped, OfTicket, Idle, FallbackPC
  <2> QED
    BY <2>1, IdleIs DEF Init, CallsTyped
<1> QED
  BY <1>2, <1>3, <1>4, <1>5, <1>6, TypesSplit

LEMMA TypesStep == QueueTypes /\ [Next]_vars => QueueTypes'
<1> SUFFICES ASSUME QueueTypes, [Next]_vars PROVE QueueTypes'
  OBVIOUS
<1>1. CASE \E h \in Handlers : Step(h)
  BY <1>1, QuickMatchesTypes, QuickPushTypes, QuickTimeTypes, QuickLengthTypes, LockTypes,
     TakeTypes, ReadTypes, FreezeTypes, DeleteTypes, CreateTypes, ResetTypes, UnlockTypes,
     FallbackTypes DEF Step
<1>2. CASE \/ \E h \in Handlers, u \in Users, q \in Queues : QuickPlay(h, u, q)
           \/ \E h \in Handlers, q \in Queues : QueueTick(h, q)
           \/ \E h \in Handlers, t \in Tickets : Scheduled(h, t) \/ Fallback(h, t)
  BY <1>2, CallStepTypes
<1>3. CASE \/ \E t \in Tickets : AskFallback(t) \/ TicketDue(t) \/ TicketExpire(t)
           \/ \E q \in Queues : QueueDue(q) \/ QueueLockExpire(q)
           \/ \E m \in matches : MatchOver(m)
           \/ Crash
           \/ UNCHANGED vars
  BY <1>3, OtherTypes
<1> QED
  BY <1>1, <1>2, <1>3 DEF Next

\* Tickets, lists, locks and calls are what they should be, after any crash and
\* however calls overlap; a ticket has a user and a queue once it is issued.
THEOREM QueueTypeCorrect == Spec => []QueueTypeOK
<1>1. QueueTypes => QueueTypeOK
  BY DEF QueueTypes
<1> QED
  BY <1>1, TypesInit, TypesStep, PTL DEF Spec

-----------------------------------------------------------------------------
(* Different players *)

\* No step un-issues a ticket, nor brings one that is gone back to life; only
\* quickPlay issues one.
LEMMA KinStep ==
  ASSUME QueueTypes, [Next]_vars
  PROVE  /\ Kin
         /\ \A t \in Tickets : Gone(t) => Gone(t)'
         /\ (\E h \in Handlers : QuickPush(h)) \/ \A t \in Tickets : Alive(t)' => Alive(t)
<1>1. CASE \E h \in Handlers : QuickPush(h)
  <2>1. PICK h \in Handlers, t \in Tickets :
          Kin /\ ticket[t] = Unissued /\ \A s \in Tickets : s # t => ticket'[s] = ticket[s]
    BY <1>1, QuickPushIs
  <2> QED
    BY <1>1, <2>1 DEF Gone, Unissued
<1>2. CASE \E t \in Tickets : TicketDue(t) \/ TicketExpire(t)
  <2>1. PICK t \in Tickets, a \in {"due", "gone"} :
          ticket[t].age \notin {"none", "gone"} /\ ticket' = [ticket EXCEPT ![t].age = a]
    BY <1>2 DEF TicketDue, TicketExpire
  <2>2. Kin /\ \A s \in Tickets : s # t => ticket'[s] = ticket[s]
    BY <2>1, TypesSplit, Aged
  <2> QED
    BY <2>1, <2>2, TypesSplit DEF Gone, Alive, TicketsTyped, TicketType, Age
<1>3. CASE \E S : Delete(S)
  BY <1>3, TypesSplit, Deleted
<1>4. CASE UNCHANGED ticket
  BY <1>4, TypesSplit, SameTickets DEF Gone, Alive
<1>5. CASE \E h \in Handlers : Step(h)
  <2>1. PICK h \in Handlers : Step(h)
    BY <1>5
  <2>2. CASE \/ QuickMatches(h) \/ QuickPush(h) \/ QuickTime(h) \/ QuickLength(h)
             \/ QueueLock(h) \/ Take(h) \/ CreateMatch(h) \/ ResetTime(h) \/ QueueUnlock(h)
             \/ BotStakes(h) \/ BotPush(h) \/ BotCreate(h)
    BY <2>2, <1>1, <1>4
       DEF QuickMatches, QuickTime, QuickLength, QueueLock, Take, CreateMatch, ResetTime,
           QueueUnlock, BotStakes, BotPush, BotCreate, keys
  <2>3. CASE ReadTickets(h) \/ Freeze(h) \/ DeleteTickets(h) \/ Assembled(h) \/ BotDelete(h)
    BY <2>3, <1>3, <1>4 DEF ReadTickets, Freeze, DeleteTickets, Assembled, BotDelete
  <2> QED
    BY <2>1, <2>2, <2>3 DEF Step
<1>6. CASE \/ \E h \in Handlers, u \in Users, q \in Queues : QuickPlay(h, u, q)
           \/ \E h \in Handlers, q \in Queues : QueueTick(h, q)
           \/ \E h \in Handlers, t \in Tickets : Scheduled(h, t) \/ Fallback(h, t)
           \/ \E t \in Tickets : AskFallback(t)
           \/ \E q \in Queues : QueueDue(q) \/ QueueLockExpire(q)
           \/ \E m \in matches : MatchOver(m)
           \/ Crash
           \/ UNCHANGED vars
  BY <1>4, <1>6 DEF QuickPlay, QueueTick, Scheduled, Fallback, AskFallback, QueueDue,
     QueueLockExpire, MatchOver, Crash, vars, keys
<1> QED
  BY <1>2, <1>5, <1>6 DEF Next

\* How a call comes to have tickets that were read: it keeps them, or reads them.
LEMMA InHand ==
  ASSUME QueueTypes, NEW h \in Handlers, Step(h), hs'[h].pc \in Valid
  PROVE  \/ ReadTickets(h)
         \/ /\ Freeze(h) \/ DeleteTickets(h)
            /\ hs[h].pc \in Valid /\ hs'[h].taken = hs[h].taken
<1>0. Idle.pc \notin Valid
  BY DEF Idle, Valid
<1>1. CASE QuickMatches(h) \/ QuickTime(h) \/ QuickLength(h)
  <2>1. Done(h) \/ \E p \in {"quickPush", "quickLength"} : To(h, p)
    BY <1>1 DEF QuickMatches, QuickTime, QuickLength
  <2> QED
    BY <1>0, <2>1, DoneIs, ToIs DEF Valid, PC, QuickPC
<1>2. CASE QuickPush(h)
  BY <1>2, QuickPushIs DEF Valid
<1>3. CASE QueueLock(h) \/ QueueUnlock(h)
  <2>1. Return(h) \/ To(h, "take")
    BY <1>3 DEF QueueLock, QueueUnlock
  <2> QED
    BY <1>0, <2>1, ReturnIs, ToIs DEF Valid, PC, AssemblePC
<1>4. CASE Take(h)
  BY <1>4, TakeIs DEF Valid
<1>5. CASE Freeze(h)
  <2>1. To(h, "delete") \/ Leave(h, "unlock")
    BY <1>5 DEF Freeze
  <2> QED
    BY <1>5, <2>1, LeaveIs, ToIs DEF Valid, PC, AssemblePC, Freeze
<1>6. CASE DeleteTickets(h)
  BY <1>6, ToIs DEF Valid, PC, AssemblePC, DeleteTickets
<1>7. CASE CreateMatch(h)
  BY <1>7, CreateIs DEF Valid
<1>8. CASE ResetTime(h)
  BY <1>8, ToIs DEF Valid, PC, AssemblePC, ResetTime
<1>9. CASE Assembled(h) \/ BotStakes(h) \/ BotPush(h) \/ BotDelete(h) \/ BotCreate(h)
  <2>1. Done(h) \/ \E p \in {"botDelete", "botPush", "botCreate"} : To(h, p)
    BY <1>9 DEF Assembled, BotStakes, BotPush, BotDelete, BotCreate
  <2> QED
    BY <1>0, <2>1, DoneIs, ToIs DEF Valid, PC, FallbackPC
<1> QED
  BY <1>1, <1>2, <1>3, <1>4, <1>5, <1>6, <1>7, <1>8, <1>9 DEF Step

LEMMA PlayersKept ==
  ASSUME Players, QueueTypes', Kin,
         \A m \in matches' : m \in matches \/ (m \subseteq Issued /\ Distinct(m)),
         \A g \in Handlers : hs'[g].pc \in Valid =>
           ToSet(hs'[g].taken) \subseteq Issued /\ Distinct(ToSet(hs'[g].taken))
  PROVE  Players'
<1>1. \A m \in matches' : m \subseteq Issued /\ Distinct(m)
  BY DEF Players, QueueTypes, DistinctPlayers, Distinct
<1>2. DistinctPlayers'
  BY <1>1 DEF DistinctPlayers, Distinct, Kin
<1>3. TakenDistinct'
  BY DEF TakenDistinct, Distinct, Kin
<1> QED
  BY <1>2, <1>3 DEF Players

LEMMA StepOnly ==
  ASSUME QueueTypes, NEW h \in Handlers, Step(h)
  PROVE  \A g \in Handlers : g # h => hs'[g] = hs[g]
<1>1. Only(h)
  <2>1. CASE QuickMatches(h) \/ QuickTime(h) \/ QuickLength(h) \/ Assembled(h) \/ BotStakes(h)
             \/ BotPush(h) \/ BotDelete(h) \/ BotCreate(h) \/ Freeze(h) \/ DeleteTickets(h) \/ ResetTime(h)
    <3>1. Done(h) \/ Leave(h, "unlock") \/ \E p \in PC : To(h, p)
      BY <2>1 DEF QuickMatches, QuickTime, QuickLength, Assembled, BotStakes, BotPush, BotDelete,
                  BotCreate, Freeze, DeleteTickets, ResetTime, PC, QuickPC, AssemblePC, FallbackPC
    <3>2. "unlock" \in PC
      BY DEF PC, AssemblePC
    <3> QED
      BY <3>1, <3>2, DoneIs, LeaveIs, ToIs
  <2>2. CASE QuickPush(h)
    BY <2>2, QuickPushIs
  <2>3. CASE QueueLock(h) \/ QueueUnlock(h)
    <3>1. Return(h) \/ To(h, "take")
      BY <2>3 DEF QueueLock, QueueUnlock
    <3>2. "take" \in PC
      BY DEF PC, AssemblePC
    <3> QED
      BY <3>1, <3>2, ReturnIs, ToIs
  <2>4. CASE Take(h)
    BY <2>4, TakeIs
  <2>5. CASE ReadTickets(h)
    BY <2>5, ReadIs
  <2>6. CASE CreateMatch(h)
    BY <2>6, CreateIs
  <2> QED
    BY <2>1, <2>2, <2>3, <2>4, <2>5, <2>6 DEF Step
<1> QED
  BY <1>1, OnlyOthers

LEMMA ReadLeaves ==
  ASSUME QueueTypes, NEW h \in Handlers, ReadTickets(h), hs'[h].pc \in Valid
  PROVE  ToSet(hs'[h].taken) \subseteq ToSet(hs[h].taken) /\ Distinct(ToSet(hs'[h].taken))
         /\ \A t \in ToSet(hs'[h].taken) : Alive(t)
<1>1. PICK v \in Seq(Tickets), S \in SUBSET ToSet(hs[h].taken) :
         /\ Distinct(ToSet(v))
         /\ ToSet(v) \cup S = {t \in ToSet(hs[h].taken) : Alive(t)}
         /\ \/ hs'[h].pc = "unlock"
            \/ hs'[h].taken = v
  <2>1. \E v \in Seq(Tickets), S \in SUBSET ToSet(hs[h].taken) :
         /\ Distinct(ToSet(v))
         /\ ToSet(v) \cup S = {t \in ToSet(hs[h].taken) : Alive(t)}
         /\ \/ v = <<>> /\ hs'[h].pc = "unlock" /\ hs'[h].taken = <<>> /\ UNCHANGED queue
            \/ /\ hs'[h].pc = "unlock" /\ hs'[h].taken = <<>>
               /\ queue' = [queue EXCEPT ![hs[h].queue] = v \o queue[hs[h].queue]]
            \/ hs'[h].pc = "freeze" /\ hs'[h].taken = v /\ UNCHANGED queue
    BY ReadIs
  <2> QED
    BY <2>1
<1> QED
  BY <1>1 DEF Valid

LEMMA PlayersStep == Players /\ [Next]_vars => Players'
<1> SUFFICES ASSUME Players, [Next]_vars PROVE Players'
  OBVIOUS
<1>0. QueueTypes /\ QueueTypes' /\ Kin
  BY TypesStep, KinStep DEF Players
<1>00. /\ \A h \in Handlers : ToSet(hs[h].taken) \subseteq Issued
       /\ \A m \in matches : m \subseteq Issued
       /\ \A h \in Handlers : hs[h].pc \in Valid => Distinct(ToSet(hs[h].taken))
       /\ \A h \in Handlers : CallTyped(hs[h])
  BY DEF Players, QueueTypes, CallTyped, TakenDistinct
<1>1. CASE \E h \in Handlers : Step(h)
  <2>1. PICK h \in Handlers : Step(h)
    BY <1>1
  <2>2. \A m \in matches' : m \in matches \/ (m \subseteq Issued /\ Distinct(m))
    <3>1. CASE CreateMatch(h)
      <4>1. matches' = matches \cup {ToSet(hs[h].taken)} /\ hs[h].pc = "create"
        BY <3>1, <1>0, CreateIs
      <4> QED
        BY <1>00, <4>1 DEF Valid
    <3>2. CASE BotCreate(h)
      <4>1. matches' = matches \cup {{hs[h].ticket}} /\ hs[h].ticket \in Issued
        BY <1>00, <3>2 DEF BotCreate, CallTyped, OfTicket, FallbackPC
      <4> QED
        BY <4>1 DEF Distinct
    <3>3. CASE UNCHANGED matches
      BY <3>3
    <3> QED
      BY <2>1, <3>1, <3>2, <3>3
         DEF Step, QuickMatches, QuickPush, QuickTime, QuickLength, QueueLock, Take, ReadTickets, Freeze,
             DeleteTickets, ResetTime, QueueUnlock, Assembled, BotStakes, BotPush, BotDelete
  <2>3. hs'[h].pc \in Valid =>
          ToSet(hs'[h].taken) \subseteq Issued /\ Distinct(ToSet(hs'[h].taken))
    <3> SUFFICES ASSUME hs'[h].pc \in Valid
                 PROVE  ToSet(hs'[h].taken) \subseteq Issued /\ Distinct(ToSet(hs'[h].taken))
      OBVIOUS
    <3>1. CASE ReadTickets(h)
      BY <1>0, <1>00, <3>1, ReadLeaves
    <3>2. CASE ~ReadTickets(h)
      <4>1. hs[h].pc \in Valid /\ hs'[h].taken = hs[h].taken
        BY <1>0, <2>1, <3>2, InHand
      <4> QED
        BY <1>00, <4>1
    <3> QED
      BY <3>1, <3>2
  <2>4. \A g \in Handlers : hs'[g].pc \in Valid =>
          ToSet(hs'[g].taken) \subseteq Issued /\ Distinct(ToSet(hs'[g].taken))
    <3>1. \A g \in Handlers : g # h => hs'[g] = hs[g]
      BY <1>0, <2>1, StepOnly
    <3> QED
      BY <1>00, <2>3, <3>1
  <2> QED
    BY <1>0, <2>2, <2>4, PlayersKept
<1>2. CASE \/ \E h \in Handlers, u \in Users, q \in Queues : QuickPlay(h, u, q)
           \/ \E h \in Handlers, q \in Queues : QueueTick(h, q)
           \/ \E h \in Handlers, t \in Tickets : Scheduled(h, t) \/ Fallback(h, t)
  <2>1. UNCHANGED matches
    BY <1>2 DEF QuickPlay, QueueTick, Scheduled, Fallback
  <2>2. UNCHANGED hs \/ \E h \in Handlers : hs' = [hs EXCEPT ![h] = hs'[h]] /\ hs'[h].pc \notin Valid
    <3>1. hs \in [Handlers -> Handler]
      BY <1>0, TypesSplit DEF CallsTyped
    <3>2. \/ UNCHANGED hs
          \/ \E h \in Handlers, u \in Users, q \in Queues :
               hs' = [hs EXCEPT ![h] = [Idle EXCEPT !.pc = "quickMatches", !.queue = q, !.user = u]]
          \/ \E h \in Handlers : \E q, t, force, ret : CallAssemble(h, q, t, force, ret)
      BY <1>2 DEF QuickPlay, QueueTick, Scheduled, Fallback
    <3> QED
      BY <3>1, <3>2 DEF CallAssemble, Idle, Valid
  <2>3. \A g \in Handlers : hs'[g].pc \in Valid => hs'[g] = hs[g]
    <3>1. hs \in [Handlers -> Handler]
      BY <1>0, TypesSplit DEF CallsTyped
    <3> QED
      BY <2>2, <3>1
  <2> QED
    BY <1>0, <1>00, <2>1, <2>3, PlayersKept
<1>3. CASE \/ \E t \in Tickets : AskFallback(t) \/ TicketDue(t) \/ TicketExpire(t)
           \/ \E q \in Queues : QueueDue(q) \/ QueueLockExpire(q)
           \/ \E m \in matches : MatchOver(m)
           \/ Crash
           \/ UNCHANGED vars
  <2>1. matches' \subseteq matches
    BY <1>3 DEF AskFallback, TicketDue, TicketExpire, QueueDue, QueueLockExpire, MatchOver, Crash, vars
  <2>2. UNCHANGED hs \/ \A g \in Handlers : hs'[g] = Idle
    BY <1>3 DEF AskFallback, TicketDue, TicketExpire, QueueDue, QueueLockExpire, MatchOver, Crash, vars
  <2>3. \A g \in Handlers : hs'[g].pc \in Valid => hs'[g] = hs[g]
    BY <2>2 DEF Idle, Valid
  <2> QED
    BY <1>0, <1>00, <2>1, <2>3, PlayersKept
<1> QED
  BY <1>1, <1>2, <1>3 DEF Next

LEMMA PlayersInit == Init => Players
<1> SUFFICES ASSUME Init PROVE Players
  OBVIOUS
<1>1. QueueTypes
  BY TypesInit
<1>2. TakenDistinct /\ DistinctPlayers
  BY DEF Init, TakenDistinct, DistinctPlayers, Idle, Valid
<1> QED
  BY <1>1, <1>2 DEF Players

\* A match is made of tickets of different users, however calls overlap: of the
\* tickets it popped tryAssembleMatch keeps the first of each user.
THEOREM NobodyMeetsHimself == Spec => []DistinctPlayers
<1>1. Players => DistinctPlayers
  BY DEF Players
<1> QED
  BY <1>1, PlayersInit, PlayersStep, PTL DEF Spec

-----------------------------------------------------------------------------
(* One match of a ticket *)

\* Where a call without a fallback in it, or with one, goes.
LEMMA BotsHand ==
  ASSUME QueueTypes, NEW h \in Handlers, Step(h), hs[h].pc \in QuickPC => hs[h].ret = "idle"
  PROVE  /\ Bots(hs[h])' => Bots(hs[h]) /\ hs'[h].ticket = hs[h].ticket /\ ~CreateMatch(h) /\ ~BotCreate(h)
         /\ hs'[h].pc = "botCreate" => BotDelete(h) /\ hs'[h].ticket = hs[h].ticket
         /\ hs'[h].pc \in QuickPC => hs'[h].ret = "idle"
         /\ hs'[h].pc = "quickPush" => QuickMatches(h) /\ hs'[h].user = hs[h].user
         /\ hs'[h].pc # "quickMatches"
<1>0. Idle.pc = "idle" /\ Idle.ret = "idle" /\ hs[h].ret \in {"idle", "bot", "assembled"}
  BY TypesSplit DEF Idle, CallsTyped, CallTyped
<1>1. CASE QuickMatches(h) \/ QuickTime(h) \/ QuickLength(h)
  <2>1. \/ Done(h)
        \/ QuickMatches(h) /\ To(h, "quickPush")
        \/ To(h, "quickLength")
    BY <1>1 DEF QuickMatches, QuickTime, QuickLength
  <2>2. hs[h].pc \in QuickPC
    BY <1>1 DEF QuickMatches, QuickTime, QuickLength, QuickPC
  <2>3. \/ hs'[h] = Idle
        \/ /\ hs'[h].pc = "quickPush" /\ hs'[h].ret = "idle"
           /\ QuickMatches(h) /\ hs'[h].user = hs[h].user
        \/ hs'[h].pc = "quickLength" /\ hs'[h].ret = "idle"
    BY <2>1, <2>2, DoneIs, ToIs DEF PC, QuickPC
  <2> QED
    BY <1>0, <2>3 DEF Bots, QuickPC
<1>2. CASE QuickPush(h)
  <2>1. hs'[h].pc = "quickTime" /\ hs'[h].ret = "idle"
    BY <1>2, QuickPushIs DEF QuickPush, QuickPC
  <2> QED
    BY <2>1 DEF Bots
<1>3. CASE QueueLock(h) \/ QueueUnlock(h)
  <2>1. Return(h) \/ To(h, "take")
    BY <1>3 DEF QueueLock, QueueUnlock
  <2>2. CASE Return(h)
    <3>1. \/ hs'[h] = Idle
          \/ /\ hs[h].ret \in {"bot", "assembled"} /\ hs'[h].pc = hs[h].ret
             /\ hs'[h].ticket = hs[h].ticket /\ hs'[h].ret = "idle"
      BY <2>2, ReturnIs
    <3> QED
      BY <1>0, <1>3, <3>1 DEF Bots, QuickPC, QueueLock, QueueUnlock, CreateMatch, BotCreate
  <2>3. CASE To(h, "take")
    <3>1. hs'[h].pc = "take" /\ hs'[h].ticket = hs[h].ticket /\ hs'[h].ret = hs[h].ret
      BY <2>3, ToIs DEF PC, AssemblePC
    <3> QED
      BY <1>3, <3>1 DEF Bots, QuickPC, QueueLock, QueueUnlock, CreateMatch, BotCreate
  <2> QED
    BY <2>1, <2>2, <2>3
<1>4. CASE Take(h) \/ ReadTickets(h) \/ Freeze(h) \/ DeleteTickets(h) \/ ResetTime(h)
  <2>1. /\ hs'[h].pc \in AssemblePC
        /\ hs'[h].ticket = hs[h].ticket /\ hs'[h].ret = hs[h].ret
    <3>1. CASE Take(h)
      BY <3>1, TakeIs DEF AssemblePC
    <3>2. CASE ReadTickets(h)
      BY <3>2, ReadIs DEF AssemblePC
    <3>3. CASE Freeze(h) \/ DeleteTickets(h) \/ ResetTime(h)
      <4>1. \E p \in AssemblePC : To(h, p) \/ Leave(h, p)
        BY <3>3 DEF Freeze, DeleteTickets, ResetTime, AssemblePC
      <4> QED
        BY <4>1, ToIs, LeaveIs DEF PC
    <3> QED
      BY <1>4, <3>1, <3>2, <3>3
  <2> QED
    BY <1>4, <2>1 DEF Bots, QuickPC, AssemblePC, Take, ReadTickets, Freeze, DeleteTickets, ResetTime,
                      CreateMatch, BotCreate
<1>5. CASE CreateMatch(h)
  <2>1. hs'[h].pc = "reset" /\ hs'[h].ret # "bot"
    BY <1>5, CreateIs
  <2> QED
    BY <2>1 DEF Bots, QuickPC
<1>6. CASE Assembled(h) \/ BotPush(h) \/ BotCreate(h)
  <2>1. hs'[h] = Idle
    BY <1>6, DoneIs DEF Assembled, BotPush, BotCreate
  <2> QED
    BY <1>0, <2>1 DEF Bots, QuickPC
<1>7. CASE BotStakes(h) \/ BotDelete(h)
  <2>1. /\ hs[h].pc \in {"bot", "botDelete"}
        /\ \/ BotDelete(h) /\ hs'[h].pc = "botCreate"
           \/ hs'[h].pc \in {"botDelete", "botPush"}
        /\ hs'[h].ticket = hs[h].ticket
    <3>1. \/ BotDelete(h) /\ To(h, "botCreate")
          \/ \E p \in {"botDelete", "botPush"} : To(h, p)
      BY <1>7 DEF BotStakes, BotDelete
    <3>2. \A p \in {"botDelete", "botPush", "botCreate"} : p \in PC
      BY DEF PC, FallbackPC
    <3> QED
      BY <1>7, <3>1, <3>2, ToIs DEF BotStakes, BotDelete
  <2> QED
    BY <2>1 DEF Bots, QuickPC, CreateMatch, BotCreate
<1> QED
  BY <1>1, <1>2, <1>3, <1>4, <1>5, <1>6, <1>7 DEF Step

\* While calls come one at a time, the tickets a call goes on to make a match of
\* have not been made into one.
LEMMA OnceStep ==
  ASSUME NEW h, Handlers = {h}
  PROVE  Once /\ [Next]_vars => Once'
<1> SUFFICES ASSUME Once, [Next]_vars PROVE Once'
  OBVIOUS
<1>0. /\ QueueTypes /\ QueueTypes' /\ h \in Handlers
      /\ Issued \subseteq Issued' /\ \A t \in Tickets : Gone(t) => Gone(t)'
  BY TypesStep, KinStep DEF Once, Kin
<1>00. /\ ToSet(hs[h].taken) \subseteq Issued /\ Issued \subseteq Tickets
       /\ CallTyped(hs[h]) /\ Unspent(hs[h]) /\ MadeOnce
       /\ \A t \in Issued : Alive(t) \/ Gone(t)
       /\ \A t \in Tickets : Alive(t) => Unmade(t)
       /\ made \in [Tickets -> [queue : Nat, bot : Nat]]
  <2>1. TicketsTyped /\ RestTyped /\ CallTyped(hs[h])
    BY <1>0, TypesSplit DEF CallsTyped
  <2>2. \A t \in Issued : Alive(t) \/ Gone(t)
    BY <2>1 DEF TicketsTyped, TicketType, Age, Issued, Alive, Gone
  <2>3. \A t \in Tickets : Alive(t) => Unmade(t)
    BY DEF Once, MadeOnce, Alive, Gone
  <2> QED
    BY <1>0, <2>1, <2>2, <2>3 DEF CallTyped, Issued, Once, RestTyped
<1>1. ASSUME UNCHANGED made, Unspent(hs[h])'
      PROVE  Once'
  <2>1. MadeOnce'
    BY <1>0, <1>00, <1>1 DEF MadeOnce, Unmade
  <2> QED
    BY <1>0, <1>1, <2>1 DEF Once
<1>2. CASE Step(h) /\ ~CreateMatch(h) /\ ~BotCreate(h)
  <2>1. UNCHANGED made
    BY <1>2 DEF Step, QuickMatches, QuickPush, QuickTime, QuickLength, QueueLock, Take, ReadTickets,
       Freeze, DeleteTickets, ResetTime, QueueUnlock, Assembled, BotStakes, BotPush, BotDelete
  <2>2. /\ Bots(hs[h])' => Bots(hs[h]) /\ hs'[h].ticket = hs[h].ticket
        /\ hs'[h].pc = "botCreate" => BotDelete(h) /\ hs'[h].ticket = hs[h].ticket
        /\ hs'[h].pc \in QuickPC => hs'[h].ret = "idle"
    BY <1>0, <1>00, <1>2, BotsHand DEF Unspent
  <2>3. hs'[h].pc \in Valid => \A t \in ToSet(hs'[h].taken) : Unmade(t)
    <3>1. CASE ReadTickets(h)
      BY <1>0, <1>00, <3>1, ReadLeaves
    <3>2. CASE ~ReadTickets(h)
      BY <1>0, <1>00, <1>2, <3>2, InHand DEF Unspent
    <3> QED
      BY <3>1, <3>2
  <2>4. hs'[h].pc = "create" => \A t \in ToSet(hs'[h].taken) : Gone(t)'
    <3> SUFFICES ASSUME hs'[h].pc = "create", NEW t \in ToSet(hs'[h].taken) PROVE Gone(t)'
      OBVIOUS
    <3>1. ~ReadTickets(h) /\ ~Freeze(h)
      <4>1. ReadTickets(h) => hs'[h].pc # "create"
        BY <1>0, ReadIs
      <4>2. Freeze(h) => hs'[h].pc # "create"
        BY <1>0, ToIs, LeaveIs DEF Freeze, PC, AssemblePC
      <4> QED
        BY <4>1, <4>2
    <3>2. DeleteTickets(h) /\ hs'[h].taken = hs[h].taken
      BY <1>0, <1>2, <3>1, InHand DEF Valid
    <3>3. Delete(ToSet(hs[h].taken)) /\ t \in ToSet(hs[h].taken) /\ t \in Issued /\ t \in Tickets
      BY <1>00, <3>2 DEF DeleteTickets
    <3> QED
      BY <1>0, <1>00, <3>3, Deleted, TypesSplit
  <2>5. hs'[h].pc = "botCreate" => ticket'[hs'[h].ticket].age = "gone"
    <3> SUFFICES ASSUME hs'[h].pc = "botCreate" PROVE ticket'[hs'[h].ticket].age = "gone"
      OBVIOUS
    <3>1. BotDelete(h) /\ hs'[h].ticket = hs[h].ticket
      BY <2>2
    <3>2. Delete({hs[h].ticket}) /\ hs[h].ticket \in Issued
      BY <1>00, <3>1 DEF BotDelete, CallTyped, OfTicket, FallbackPC
    <3>3. \A t \in Tickets : Gone(t)' <=> Gone(t) \/ (Alive(t) /\ t \in {hs[h].ticket})
      BY <1>0, <3>2, Deleted, TypesSplit
    <3>4. PICK t : t = hs[h].ticket
      OBVIOUS
    <3>5. Gone(t)'
      BY <1>00, <3>2, <3>3, <3>4
    <3> QED
      BY <3>1, <3>4, <3>5 DEF Gone
  <2>6. Bots(hs[h])' => Unmade(hs'[h].ticket)
    BY <1>00, <2>2 DEF Unspent
  <2>7. Unspent(hs[h])'
    BY <2>1, <2>2, <2>3, <2>4, <2>5, <2>6 DEF Unspent, Unmade, Gone
  <2> QED
    BY <1>1, <2>1, <2>7
<1>3. CASE CreateMatch(h)
  <2> DEFINE players == ToSet(hs[h].taken)
  <2>1. /\ hs'[h].pc = "reset" /\ hs[h].pc = "create" /\ hs'[h].ret # "bot"
        /\ \A t \in Tickets : made'[t] = IF t \in players
                                         THEN [queue |-> made[t].queue + 1, bot |-> made[t].bot]
                                         ELSE made[t]
    BY <1>0, <1>3, CreateIs
  <2>2. Unspent(hs[h])'
    BY <2>1 DEF Unspent, Valid, Bots, QuickPC
  <2>3. \A t \in players : Unmade(t) /\ Gone(t)
    BY <1>00, <2>1 DEF Unspent, Valid
  <2> HIDE DEF players
  <2>4. MadeOnce'
    <3> SUFFICES ASSUME NEW t \in Tickets
                 PROVE  (Unmade(t) \/ (made[t].queue + made[t].bot = 1 /\ Gone(t)))'
      BY DEF MadeOnce
    <3>1. made[t].queue \in Nat /\ made[t].bot \in Nat
      BY <1>00
    <3>2. CASE t \in players
      <4>0. made'[t] = [queue |-> made[t].queue + 1, bot |-> made[t].bot]
        BY <2>1, <3>2
      <4>1. made'[t].queue = made[t].queue + 1 /\ made'[t].bot = made[t].bot
        BY <4>0
      <4>2. made'[t].queue + made'[t].bot = 1
        BY <2>3, <3>1, <3>2, <4>1 DEF Unmade
      <4> QED
        BY <1>0, <2>3, <3>2, <4>2
    <3>3. CASE t \notin players
      BY <1>0, <1>00, <2>1, <3>3 DEF MadeOnce, Unmade
    <3> QED
      BY <3>2, <3>3
  <2> QED
    BY <1>0, <2>2, <2>4 DEF Once
<1>4. CASE BotCreate(h)
  <2>1. hs'[h] = Idle
    BY <1>0, <1>4, DoneIs DEF BotCreate
  <2>2. Unspent(hs[h])'
    BY <2>1 DEF Idle, Unspent, Valid, Bots, QuickPC
  <2>3. PICK b : b = hs[h].ticket
    OBVIOUS
  <2>4. b \in Tickets /\ Unmade(b) /\ Gone(b)
    BY <1>00, <1>4, <2>3 DEF BotCreate, CallTyped, OfTicket, FallbackPC, Unspent, Bots
  <2>5. \A t \in Tickets : made'[t] = IF t = b
                                      THEN [queue |-> made[t].queue, bot |-> made[t].bot + 1]
                                      ELSE made[t]
    <3>1. made' = [made EXCEPT ![b].bot = made[b].bot + 1]
      BY <1>4, <2>3 DEF BotCreate
    <3> QED
      BY <1>00, <2>4, <3>1
  <2>6. MadeOnce'
    <3> SUFFICES ASSUME NEW t \in Tickets
                 PROVE  (Unmade(t) \/ (made[t].queue + made[t].bot = 1 /\ Gone(t)))'
      BY DEF MadeOnce
    <3>1. made[t].queue \in Nat /\ made[t].bot \in Nat
      BY <1>00
    <3>2. CASE t = b
      <4>0. made'[t] = [queue |-> made[t].queue, bot |-> made[t].bot + 1]
        BY <2>5, <3>2
      <4>1. made'[t].queue = made[t].queue /\ made'[t].bot = made[t].bot + 1
        BY <4>0
      <4>2. made'[t].queue + made'[t].bot = 1
        BY <2>4, <3>1, <3>2, <4>1 DEF Unmade
      <4> QED
        BY <1>0, <2>4, <3>2, <4>2
    <3>3. CASE t # b
      BY <1>0, <1>00, <2>5, <3>3 DEF MadeOnce, Unmade
    <3> QED
      BY <3>2, <3>3
  <2> QED
    BY <1>0, <2>2, <2>6 DEF Once
<1>5. CASE \E u \in Users, q \in Queues : QuickPlay(h, u, q)
  <2>1. hs'[h].pc = "quickMatches" /\ hs'[h].ret = "idle" /\ UNCHANGED made
    BY <1>0, <1>5, QuickPlayIs DEF QuickPlay
  <2>2. Unspent(hs[h])'
    BY <2>1 DEF Unspent, Valid, Bots
  <2> QED
    BY <1>1, <2>1, <2>2
<1>6. CASE \/ \E q \in Queues : QueueTick(h, q)
           \/ \E t \in Tickets : Scheduled(h, t) \/ Fallback(h, t)
  <2>1. UNCHANGED made
    BY <1>6 DEF QueueTick, Scheduled, Fallback
  <2>2. hs[h].pc = "idle"
    BY <1>6 DEF QueueTick, Scheduled, Fallback
  <2>3. CASE UNCHANGED hs
    <3>1. Unspent(hs[h])'
      BY <1>00, <2>1, <2>2, <2>3 DEF Unspent, Valid, Bots, QuickPC, Unmade
    <3> QED
      BY <1>1, <2>1, <3>1
  <2>4. CASE hs'[h].pc = "lock" /\ hs'[h].ret = "idle"
    <3>1. Unspent(hs[h])'
      BY <2>4 DEF Unspent, Valid, Bots, QuickPC
    <3> QED
      BY <1>1, <2>1, <3>1
  <2>5. CASE hs'[h].pc = "lock" /\ \E t \in Tickets : Alive(t) /\ hs'[h].ticket = t
    <3>1. Unspent(hs[h])'
      BY <1>00, <2>1, <2>5 DEF Unspent, Valid, Bots, QuickPC, Unmade
    <3> QED
      BY <1>1, <2>1, <3>1
  <2>6. \/ UNCHANGED hs
        \/ \E q, t, force : CallAssemble(h, q, t, force, "idle")
        \/ \E q, force : \E t \in Tickets : Alive(t) /\ CallAssemble(h, q, t, force, "bot")
    BY <1>6 DEF QueueTick, Scheduled, Fallback
  <2>7. hs \in [Handlers -> Handler]
    BY <1>0, TypesSplit DEF CallsTyped
  <2>8. \A q, t, force, ret : CallAssemble(h, q, t, force, ret) =>
          hs'[h].pc = "lock" /\ hs'[h].ticket = t /\ hs'[h].ret = ret
    BY <1>0, <2>7 DEF CallAssemble, Idle
  <2> QED
    BY <2>3, <2>4, <2>5, <2>6, <2>8
<1>7. CASE \/ \E t \in Tickets : AskFallback(t) \/ TicketDue(t) \/ TicketExpire(t)
           \/ \E q \in Queues : QueueDue(q) \/ QueueLockExpire(q)
           \/ \E m \in matches : MatchOver(m)
           \/ Crash
           \/ UNCHANGED vars
  <2>1. UNCHANGED made
    BY <1>7 DEF AskFallback, TicketDue, TicketExpire, QueueDue, QueueLockExpire, MatchOver, Crash, vars
  <2>2. UNCHANGED hs \/ hs'[h] = Idle
    BY <1>0, <1>7 DEF AskFallback, TicketDue, TicketExpire, QueueDue, QueueLockExpire, MatchOver, Crash, vars
  <2>3. Unspent(hs[h])'
    <3>1. CASE UNCHANGED hs
      <4>1. /\ hs[h].pc = "create" => \A t \in ToSet(hs[h].taken) : Gone(t)'
            /\ hs[h].pc = "botCreate" => Gone(hs[h].ticket)'
        <5>1. hs[h].pc = "botCreate" => hs[h].ticket \in Tickets
          BY <1>00 DEF CallTyped, OfTicket, FallbackPC
        <5> QED
          BY <1>0, <1>00, <3>1, <5>1 DEF Unspent, Gone
      <4> QED
        BY <1>00, <2>1, <3>1, <4>1 DEF Unspent, Unmade, Bots, Gone
    <3>2. CASE hs'[h] = Idle
      BY <3>2 DEF Idle, Unspent, Valid, Bots, QuickPC
    <3> QED
      BY <2>2, <3>1, <3>2
  <2> QED
    BY <1>1, <2>1, <2>3
<1> QED
  BY <1>2, <1>3, <1>4, <1>5, <1>6, <1>7 DEF Next

LEMMA OnceInit == Init => Once
<1> SUFFICES ASSUME Init PROVE Once
  OBVIOUS
<1>1. MadeOnce /\ \A h \in Handlers : Unspent(hs[h])
  BY DEF Init, MadeOnce, Unmade, Unspent, Idle, Valid, Bots, QuickPC
<1> QED
  BY <1>1, TypesInit DEF Once

-----------------------------------------------------------------------------
(* One place for a user *)

\* A call that is not between popping and making a match has no tickets in hand.
LEMMA Emptied ==
  ASSUME QueueTypes, NEW h \in Handlers, Step(h), hs[h].pc \notin Holding => hs[h].taken = <<>>
  PROVE  hs'[h].pc \notin Holding => hs'[h].taken = <<>>
<1>0. Idle.taken = <<>>
  BY DEF Idle
<1>1. CASE QuickMatches(h) \/ QuickTime(h) \/ QuickLength(h) \/ Assembled(h) \/ BotStakes(h)
           \/ BotPush(h) \/ BotDelete(h) \/ BotCreate(h) \/ ResetTime(h)
  <2>1. hs[h].taken = <<>>
    BY <1>1 DEF Holding, Valid, QuickMatches, QuickTime, QuickLength, Assembled, BotStakes,
                BotPush, BotDelete, BotCreate, ResetTime
  <2>2. Done(h) \/ \E p \in PC : To(h, p)
    BY <1>1 DEF QuickMatches, QuickTime, QuickLength, Assembled, BotStakes, BotPush, BotDelete,
                BotCreate, ResetTime, PC, QuickPC, AssemblePC, FallbackPC
  <2> QED
    BY <1>0, <2>1, <2>2, DoneIs, ToIs
<1>2. CASE QuickPush(h)
  <2>1. hs'[h].taken = hs[h].taken
    BY <1>2, QuickPushIs
  <2> QED
    BY <1>2, <2>1 DEF QuickPush, Holding, Valid
<1>3. CASE QueueLock(h) \/ QueueUnlock(h)
  <2>1. hs[h].taken = <<>>
    BY <1>3 DEF Holding, Valid, QueueLock, QueueUnlock
  <2>2. Return(h) \/ To(h, "take")
    BY <1>3 DEF QueueLock, QueueUnlock
  <2>3. CASE Return(h)
    BY <1>0, <2>1, <2>3, ReturnIs
  <2>4. CASE To(h, "take")
    BY <2>1, <2>4, ToIs DEF PC, AssemblePC
  <2> QED
    BY <2>2, <2>3, <2>4
<1>4. CASE Take(h)
  BY <1>4, TakeIs DEF Holding
<1>5. CASE ReadTickets(h)
  BY <1>5, ReadIs DEF Holding, Valid
<1>6. CASE Freeze(h) \/ DeleteTickets(h)
  <2>1. \/ Leave(h, "unlock")
        \/ \E p \in Valid : To(h, p)
    BY <1>6 DEF Freeze, DeleteTickets, Valid
  <2> QED
    BY <2>1, LeaveIs, ToIs DEF Holding, Valid, PC, AssemblePC
<1>7. CASE CreateMatch(h)
  BY <1>7, CreateIs
<1> QED
  BY <1>1, <1>2, <1>3, <1>4, <1>5, <1>6, <1>7 DEF Step

\* Where nothing comes alive and no match is made, all claims stand.
Shrinks ==
  /\ \A t \in Tickets : Alive(t)' => Alive(t) /\ ticket'[t].user = ticket[t].user
  /\ matches' \subseteq matches
  /\ \A m \in matches' : PlayersOf(m)' = PlayersOf(m)

LEMMA ShrinksKeeps ==
  ASSUME Shrinks
  PROVE  /\ OneEach => OneEach'
         /\ \A u, S : Has(u, S) => Has(u, S)'
         /\ \A u : Free(u) => Free(u)'
<1>1. \A u, S : Has(u, S) => Has(u, S)'
  BY DEF Shrinks, Has
<1>2. \A u : Free(u) => Free(u)'
  BY DEF Shrinks, Free
<1>3. ASSUME OneEach PROVE OneEach'
  <2>1. Distinct({t \in Tickets : Alive(t)})'
    BY <1>3 DEF Shrinks, OneEach, Distinct
  <2>2. \A t \in Tickets : Alive(t)' => Free(ticket[t].user)'
    <3> SUFFICES ASSUME NEW t \in Tickets, Alive(t)' PROVE \A m \in matches' : ticket'[t].user \notin PlayersOf(m)'
      BY DEF Free
    <3>1. Alive(t) /\ ticket'[t].user = ticket[t].user
      BY DEF Shrinks
    <3>2. \A m \in matches : ticket[t].user \notin PlayersOf(m)
      BY <1>3, <3>1 DEF OneEach, Free
    <3>3. \A m \in matches' : m \in matches /\ PlayersOf(m)' = PlayersOf(m)
      BY DEF Shrinks
    <3> QED
      BY <3>1, <3>2, <3>3
  <2>3. \A m, n \in matches' : PlayersOf(m)' \cap PlayersOf(n)' # {} => m = n
    BY <1>3 DEF Shrinks, OneEach
  <2> QED
    BY <2>1, <2>2, <2>3 DEF OneEach
<1> QED
  BY <1>1, <1>2, <1>3

LEMMA SamePlayers ==
  ASSUME Kin, NEW m, m \subseteq Issued
  PROVE  PlayersOf(m)' = PlayersOf(m)
BY DEF PlayersOf, Kin

LEMMA HandKept ==
  ASSUME AliveInHand, NEW h, Handlers = {h},
         \A t \in Tickets : Alive(t)' => Alive(t),
         \A t \in Tickets : Alive(t)' /\ Listed(t) => Listed(t)',
         hs'[h].taken = hs[h].taken \/ \A t \in ToSet(hs[h].taken) : ~Alive(t)'
  PROVE  AliveInHand'
BY DEF AliveInHand

\* What is alive belongs to a user who has nothing else.
LEMMA AliveClaims ==
  ASSUME OneEach, NEW t \in Tickets, Alive(t)
  PROVE  Has(ticket[t].user, {t}) /\ Free(ticket[t].user)
BY DEF OneEach, Has, Distinct

Each(h) == AliveInHand /\ OneEach /\ Claim(hs[h])

\* A list of a queue is changed and has t as before.
LEMMA ListGrows ==
  ASSUME ListsTyped, NEW q \in Queues, NEW s, queue' = [queue EXCEPT ![q] = s],
         NEW t, Listed(t), t \in ToSet(queue[q]) => t \in ToSet(s)
  PROVE  Listed(t)'
<1>1. PICK r \in Queues : t \in ToSet(queue[r])
  BY DEF Listed
<1>2. queue \in [Queues -> Seq(Tickets)]
  BY DEF ListsTyped
<1>3. CASE r = q
  <2>1. queue'[r] = s
    BY <1>2, <1>3
  <2> QED
    BY <1>1, <1>3, <2>1 DEF Listed
<1>4. CASE r # q
  <2>1. queue'[r] = queue[r]
    BY <1>2, <1>4
  <2> QED
    BY <1>1, <2>1 DEF Listed
<1> QED
  BY <1>3, <1>4

\* Lists keep the tickets that stay alive, but for those that Take pops.
LEMMA ListsKept ==
  ASSUME QueueTypes, NEW h \in Handlers, Step(h), ~Take(h), NEW t \in Tickets, Alive(t), Listed(t)
  PROVE  Listed(t)'
<1> DEFINE q == hs[h].queue
<1>1. CASE UNCHANGED queue
  BY <1>1 DEF Listed
<1>2. /\ q \in Queues /\ ListsTyped /\ queue[q] \in Seq(Tickets)
      /\ hs[h].pc = "botPush" => hs[h].ticket \in Tickets
  <2>1. hs[h].pc # "idle"
    BY DEF Step, QuickMatches, QuickPush, QuickTime, QuickLength, QueueLock, Take, ReadTickets, Freeze,
       DeleteTickets, CreateMatch, ResetTime, QueueUnlock, Assembled, BotStakes, BotPush, BotDelete, BotCreate
  <2>2. CallTyped(hs[h]) /\ ListsTyped
    BY TypesSplit DEF CallsTyped
  <2>3. q \in Queues
    BY <2>1, <2>2 DEF CallTyped
  <2>4. hs[h].pc = "botPush" => hs[h].ticket \in Tickets
    BY <2>2 DEF CallTyped, OfTicket, FallbackPC, Issued
  <2> QED
    BY <2>2, <2>3, <2>4 DEF ListsTyped
<1>4. CASE QuickPush(h)
  <2>1. PICK n \in Tickets : queue' = [queue EXCEPT ![q] = Append(queue[q], n)]
    BY <1>4, QuickPushIs
  <2>2. ToSet(Append(queue[q], n)) = ToSet(queue[q]) \cup {n}
    BY <1>2, ToSetAppend
  <2> QED
    BY <1>2, <2>1, <2>2, ListGrows
<1>5. CASE QuickLength(h)
  <2>1. queue' = [queue EXCEPT ![q] = Cleaned(q)]
    BY <1>5 DEF QuickLength
  <2>2. ToSet(Cleaned(q)) = {n \in ToSet(queue[q]) : Alive(n)}
    BY <1>2, CleanedIs
  <2> QED
    BY <1>2, <2>1, <2>2, ListGrows
<1>6. CASE ReadTickets(h)
  <2>1. \E v \in Seq(Tickets) : UNCHANGED queue \/ queue' = [queue EXCEPT ![q] = v \o queue[q]]
    <3>1. \E v \in Seq(Tickets), S \in SUBSET ToSet(hs[h].taken) :
            \/ v = <<>> /\ hs'[h].pc = "unlock" /\ hs'[h].taken = <<>> /\ UNCHANGED queue
            \/ /\ hs'[h].pc = "unlock" /\ hs'[h].taken = <<>>
               /\ queue' = [queue EXCEPT ![q] = v \o queue[q]]
            \/ hs'[h].pc = "freeze" /\ hs'[h].taken = v /\ UNCHANGED queue
      BY <1>6, ReadIs
    <3> QED
      BY <3>1
  <2>2. PICK v \in Seq(Tickets) : UNCHANGED queue \/ queue' = [queue EXCEPT ![q] = v \o queue[q]]
    BY <2>1
  <2>3. CASE queue' = [queue EXCEPT ![q] = v \o queue[q]]
    <3>1. ToSet(v \o queue[q]) = ToSet(v) \cup ToSet(queue[q])
      BY <1>2, ToSetConcat
    <3> QED
      BY <1>2, <2>3, <3>1, ListGrows
  <2> QED
    BY <1>1, <2>2, <2>3
<1>7. CASE BotPush(h)
  <2>1. /\ queue' = [queue EXCEPT ![q] = Append(queue[q], hs[h].ticket)]
        /\ hs[h].ticket \in Tickets
    BY <1>2, <1>7 DEF BotPush
  <2>2. ToSet(Append(queue[q], hs[h].ticket)) = ToSet(queue[q]) \cup {hs[h].ticket}
    BY <1>2, <2>1, ToSetAppend
  <2> QED
    BY <1>2, <2>1, <2>2, ListGrows
<1> QED
  BY <1>1, <1>4, <1>5, <1>6, <1>7
     DEF Step, QuickMatches, QuickTime, QueueLock, Freeze, DeleteTickets, CreateMatch, ResetTime,
         QueueUnlock, Assembled, BotStakes, BotDelete, BotCreate, keys

\* The tickets in hand that a step drops are dead.
LEMMA HandDropped ==
  ASSUME QueueTypes, NEW h \in Handlers, Step(h), ~Take(h), ~ReadTickets(h),
         hs[h].pc \notin Holding => hs[h].taken = <<>>,
         Unspent(hs[h]),
         \A t \in Issued : Gone(t) => Gone(t)'
  PROVE  hs'[h].taken = hs[h].taken \/ \A t \in ToSet(hs[h].taken) : ~Alive(t)'
<1>0. ToSet(hs[h].taken) \subseteq Issued /\ Issued \subseteq Tickets
  BY TypesSplit DEF CallsTyped, CallTyped, Issued
<1>1. CASE hs[h].pc \notin Holding
  BY <1>1, ToSetEmpty
<1>2. CASE hs[h].pc \in Holding
  <2>1. Freeze(h) \/ DeleteTickets(h) \/ CreateMatch(h)
    BY <1>2 DEF Holding, Valid, Step, QuickMatches, QuickPush, QuickTime, QuickLength, QueueLock, Take,
       ReadTickets, ResetTime, QueueUnlock, Assembled, BotStakes, BotPush, BotDelete, BotCreate
  <2>2. CASE Freeze(h)
    <3>1. To(h, "delete") \/ Delete(ToSet(hs[h].taken))
      BY <2>2 DEF Freeze
    <3>2. CASE To(h, "delete")
      BY <3>2, ToIs DEF PC, AssemblePC
    <3>3. CASE Delete(ToSet(hs[h].taken))
      BY <1>0, <3>3, Deleted, TypesSplit
    <3> QED
      BY <3>1, <3>2, <3>3
  <2>3. CASE DeleteTickets(h)
    BY <2>3, ToIs DEF PC, AssemblePC, DeleteTickets
  <2>4. CASE CreateMatch(h)
    <3>1. \A t \in ToSet(hs[h].taken) : Gone(t)
      BY <2>4 DEF CreateMatch, Unspent
    <3> QED
      BY <1>0, <3>1 DEF Gone, Alive
  <2> QED
    BY <2>1, <2>2, <2>3, <2>4
<1> QED
  BY <1>1, <1>2

\* A call that goes on takes what it knows along.
LEMMA EachClaims ==
  ASSUME QueueTypes, NEW h \in Handlers, Step(h), Unspent(hs[h]), Each(h), Kin,
         \A u, S : Has(u, S) => Has(u, S)',
         \A u : Free(u) => Free(u)'
  PROVE  Claim(hs[h])'
<1>0. /\ ToSet(hs[h].taken) \subseteq Issued /\ Issued \subseteq Tickets
      /\ OfTicket(hs[h]) => hs[h].ticket \in Issued
      /\ \A t \in Issued : ticket'[t].user = ticket[t].user
  BY TypesSplit DEF CallsTyped, CallTyped, Issued, Kin
<1>1. /\ Bots(hs[h])' => Bots(hs[h]) /\ hs'[h].ticket = hs[h].ticket
      /\ hs'[h].pc = "quickPush" => QuickMatches(h) /\ hs'[h].user = hs[h].user
      /\ hs'[h].pc # "quickMatches"
  BY BotsHand DEF Unspent
<1>2. ASSUME hs'[h].pc = "quickPush"
      PROVE  \E u : hs'[h].user = u /\ Has(u, {})' /\ Free(u)'
  <2>1. PICK u : u = hs[h].user
    OBVIOUS
  <2>2. QuickMatches(h) /\ hs'[h].user = u /\ hs[h].pc = "quickMatches"
    BY <1>1, <1>2, <2>1 DEF QuickMatches
  <2>3. Has(u, {})
    BY <2>1, <2>2 DEF Each, Claim
  <2>4. Free(u)
    <3>1. Done(h) => hs'[h].pc # "quickPush"
      BY DoneIs DEF Idle
    <3> QED
      BY <1>2, <2>1, <2>2, <3>1 DEF QuickMatches, NotInMatch, Free
  <2> QED
    BY <2>2, <2>3, <2>4
<1>3. ASSUME hs'[h].pc \in Valid, NEW t \in ToSet(hs'[h].taken)
      PROVE  \E u : ticket'[t].user = u /\ Has(u, {t})' /\ Free(u)'
  <2>1. t \in Issued /\ Has(ticket[t].user, {t}) /\ Free(ticket[t].user)
    <3>1. CASE ReadTickets(h)
      <4>1. t \in ToSet(hs[h].taken) /\ Alive(t)
        BY <1>3, <3>1, ReadLeaves
      <4> QED
        BY <1>0, <4>1, AliveClaims DEF Each
    <3>2. CASE ~ReadTickets(h)
      <4>1. hs[h].pc \in Valid /\ t \in ToSet(hs[h].taken)
        BY <1>3, <3>2, InHand
      <4> QED
        BY <1>0, <4>1 DEF Each, Claim
    <3> QED
      BY <3>1, <3>2
  <2>2. PICK u : u = ticket[t].user
    OBVIOUS
  <2>3. ticket'[t].user = u /\ Has(u, {t}) /\ Free(u)
    BY <1>0, <2>1, <2>2
  <2> QED
    BY <2>3
<1>4. ASSUME Bots(hs[h])'
      PROVE  \E u, t : ticket'[t].user = u /\ hs'[h].ticket = t /\ Has(u, {t})' /\ Free(u)'
  <2>1. PICK u, t : t = hs[h].ticket /\ u = ticket[t].user
    OBVIOUS
  <2>2. Bots(hs[h]) /\ hs'[h].ticket = t
    BY <1>1, <1>4, <2>1
  <2>3. Has(u, {t}) /\ Free(u)
    BY <2>1, <2>2 DEF Each, Claim
  <2>4. t \in Issued
    BY <1>0, <2>1, <2>2 DEF Bots, OfTicket, FallbackPC
  <2> QED
    BY <1>0, <2>1, <2>2, <2>3, <2>4
<1>5. hs'[h].pc \notin Holding => hs'[h].taken = <<>>
  BY Emptied DEF Each, Claim
<1>6. hs'[h].pc \in {"quickMatches", "quickPush"} => Has(hs[h].user, {})'
  BY <1>1, <1>2 DEF Has
<1>7. hs'[h].pc = "quickPush" => Free(hs[h].user)'
  BY <1>2 DEF Free
<1>8. hs'[h].pc \in Valid =>
        \A t \in ToSet(hs'[h].taken) : Has(ticket[t].user, {t})' /\ Free(ticket[t].user)'
  BY <1>3 DEF Has, Free
<1>9. Bots(hs[h])' => (Has(ticket[hs[h].ticket].user, {hs[h].ticket}) /\ Free(ticket[hs[h].ticket].user))'
  BY <1>4 DEF Has, Free
<1> QED
  BY <1>5, <1>6, <1>7, <1>8, <1>9 DEF Claim

\* A match of tickets whose users have nothing else.
LEMMA NewMatch ==
  ASSUME OneEach, UNCHANGED ticket, NEW S, S \subseteq Tickets, matches' = matches \cup {S},
         \A t \in S : Has(ticket[t].user, {t}) /\ Free(ticket[t].user) /\ Gone(t)
  PROVE  OneEach'
<1>1. \A m : PlayersOf(m)' = PlayersOf(m)
  BY DEF PlayersOf
<1>2. Distinct({t \in Tickets : Alive(t)})'
  BY DEF OneEach, Distinct, Alive
<1>3. ASSUME NEW t \in Tickets, Alive(t)'
      PROVE  Free(ticket[t].user)'
  <2>1. Alive(t)
    BY <1>3 DEF Alive
  <2>2. ticket[t].user \notin PlayersOf(S)
    <3> SUFFICES ASSUME NEW s \in S, ticket[t].user = ticket[s].user PROVE FALSE
      BY DEF PlayersOf
    <3>1. t = s
      BY <2>1 DEF Has
    <3> QED
      BY <2>1, <3>1 DEF Gone, Alive
  <2>3. \A m \in matches : ticket[t].user \notin PlayersOf(m)
    BY <2>1 DEF OneEach, Free
  <2> QED
    BY <1>1, <2>2, <2>3 DEF Free
<1>4. ASSUME NEW m \in matches' , NEW n \in matches', PlayersOf(m) \cap PlayersOf(n) # {}
      PROVE  m = n
  <2>1. \A k \in matches : PlayersOf(S) \cap PlayersOf(k) = {}
    <3> SUFFICES ASSUME NEW k \in matches, NEW s \in S, ticket[s].user \in PlayersOf(k) PROVE FALSE
      BY DEF PlayersOf
    <3> QED
      BY DEF Free
  <2> QED
    BY <1>4, <2>1 DEF OneEach
<1> QED
  BY <1>1, <1>2, <1>3, <1>4 DEF OneEach

\* Each step of the call keeps what it knows of users.
LEMMA EachShrinks ==
  ASSUME NEW h, Handlers = {h}, QueueTypes, Unspent(hs[h]), Each(h), Step(h),
         ~QuickPush(h), ~CreateMatch(h), ~BotCreate(h)
  PROVE  Each(h)'
<1>0. h \in Handlers /\ [Next]_vars
  BY DEF Next
<1>1. /\ Kin
      /\ \A t \in Tickets : Gone(t) => Gone(t)'
      /\ \A t \in Tickets : Alive(t)' => Alive(t)
  BY <1>0, KinStep
<1>2. /\ UNCHANGED matches /\ \A m \in matches : m \subseteq Issued
      /\ Issued \subseteq Tickets
      /\ hs[h].taken \in Seq(Tickets)
      /\ hs[h].pc \notin Holding => hs[h].taken = <<>>
  <2>1. UNCHANGED matches
    BY DEF Step, QuickMatches, QuickTime, QuickLength, QueueLock, Take, ReadTickets, Freeze,
           DeleteTickets, ResetTime, QueueUnlock, Assembled, BotStakes, BotPush, BotDelete
  <2>2. CallsTyped /\ RestTyped
    BY TypesSplit
  <2>3. hs[h] \in Handler
    BY <1>0, <2>2 DEF CallsTyped
  <2> QED
    BY <2>1, <2>2, <2>3 DEF RestTyped, Each, Claim, Handler, Issued
<1>3. Shrinks
  <2>1. \A t \in Tickets : Alive(t)' => Alive(t) /\ ticket'[t].user = ticket[t].user
    BY <1>1 DEF Alive, Issued, Unissued, Kin
  <2>2. \A m \in matches' : PlayersOf(m)' = PlayersOf(m)
    BY <1>1, <1>2, SamePlayers
  <2> QED
    BY <1>2, <2>1, <2>2 DEF Shrinks
<1>4. /\ OneEach'
      /\ \A u, S : Has(u, S) => Has(u, S)'
      /\ \A u : Free(u) => Free(u)'
  BY <1>3, ShrinksKeeps DEF Each
<1>5. Claim(hs[h])'
  BY <1>0, <1>1, <1>4, EachClaims
<1>6. AliveInHand'
  <2>1. CASE Take(h)
    <3> SUFFICES ASSUME NEW t \in Tickets, Alive(t)'
                 PROVE  Listed(t)' \/ t \in ToSet(hs'[h].taken)
      BY DEF AliveInHand
    <3> DEFINE q == hs[h].queue
    <3>1. /\ hs[h].pc = "take" /\ q \in Queues
          /\ queue' = [queue EXCEPT ![q] = queue'[q]]
          /\ ToSet(hs'[h].taken) \cup ToSet(queue'[q]) = {r \in ToSet(queue[q]) : Alive(r)}
      BY <1>0, <2>1, TakeIs
    <3>2. t \notin ToSet(hs[h].taken)
      BY <1>2, <3>1, ToSetEmpty DEF Holding, Valid
    <3>3. Alive(t)
      BY <1>1
    <3>4. Listed(t)
      BY <1>0, <3>2, <3>3 DEF Each, AliveInHand
    <3>5. PICK r \in Queues : t \in ToSet(queue[r])
      BY <3>4 DEF Listed
    <3>6. CASE r = q
      BY <3>1, <3>3, <3>5, <3>6 DEF Listed
    <3>7. CASE r # q
      <4>1. queue \in [Queues -> Seq(Tickets)]
        BY TypesSplit DEF ListsTyped
      <4>2. queue'[r] = queue[r]
        BY <3>1, <3>7, <4>1
      <4> QED
        BY <3>5, <4>2 DEF Listed
    <3> QED
      BY <3>6, <3>7
  <2>2. CASE ReadTickets(h)
    <3> SUFFICES ASSUME NEW t \in Tickets, Alive(t)'
                 PROVE  Listed(t)' \/ t \in ToSet(hs'[h].taken)
      BY DEF AliveInHand
    <3> DEFINE q == hs[h].queue
    <3>1. Alive(t)
      BY <1>1
    <3>2. CASE Listed(t)
      BY <1>0, <2>2, <3>1, <3>2, ListsKept DEF Take, ReadTickets
    <3>3. CASE t \in ToSet(hs[h].taken)
      <4>0. \E v \in Seq(Tickets), S \in SUBSET ToSet(hs[h].taken) :
              /\ q \in Queues
              /\ ToSet(v) \cup S = {r \in ToSet(hs[h].taken) : Alive(r)}
              /\ Delete(S)
              /\ \/ v = <<>> /\ hs'[h].pc = "unlock" /\ hs'[h].taken = <<>> /\ UNCHANGED queue
                 \/ /\ hs'[h].pc = "unlock" /\ hs'[h].taken = <<>>
                    /\ queue' = [queue EXCEPT ![q] = v \o queue[q]]
                 \/ hs'[h].pc = "freeze" /\ hs'[h].taken = v /\ UNCHANGED queue
        BY <1>0, <2>2, ReadIs
      <4>1. PICK v \in Seq(Tickets), S \in SUBSET ToSet(hs[h].taken) :
              /\ q \in Queues
              /\ ToSet(v) \cup S = {r \in ToSet(hs[h].taken) : Alive(r)}
              /\ Delete(S)
              /\ v = <<>> \/ queue' = [queue EXCEPT ![q] = v \o queue[q]] \/ hs'[h].taken = v
        BY <4>0
      <4>2. t \notin S
        BY <4>1, Deleted, TypesSplit
      <4>3. t \in ToSet(v)
        BY <3>1, <3>3, <4>1, <4>2
      <4>4. CASE queue' = [queue EXCEPT ![q] = v \o queue[q]]
        <5>1. queue \in [Queues -> Seq(Tickets)] /\ queue[q] \in Seq(Tickets)
          BY <4>1, TypesSplit DEF ListsTyped
        <5>2. ToSet(v \o queue[q]) = ToSet(v) \cup ToSet(queue[q])
          BY <5>1, ToSetConcat
        <5>3. queue'[q] = v \o queue[q]
          BY <4>1, <4>4, <5>1
        <5> QED
          BY <4>1, <4>3, <5>2, <5>3 DEF Listed
      <4> QED
        BY <4>1, <4>3, <4>4, ToSetEmpty
    <3> QED
      BY <1>0, <3>1, <3>2, <3>3 DEF Each, AliveInHand
  <2>3. CASE ~Take(h) /\ ~ReadTickets(h)
    <3>1. hs'[h].taken = hs[h].taken \/ \A t \in ToSet(hs[h].taken) : ~Alive(t)'
      <4>1. \A t \in Issued : Gone(t) => Gone(t)'
        BY <1>1, <1>2
      <4> QED
        BY <1>0, <1>2, <2>3, <4>1, HandDropped
    <3>2. \A t \in Tickets : Alive(t)' /\ Listed(t) => Listed(t)'
      BY <1>0, <1>1, <2>3, ListsKept
    <3> QED
      BY <1>1, <3>1, <3>2, HandKept DEF Each
  <2> QED
    BY <2>1, <2>2, <2>3
<1> QED
  BY <1>4, <1>5, <1>6 DEF Each

LEMMA EachPush ==
  ASSUME NEW h, Handlers = {h}, QueueTypes, Unspent(hs[h]), Each(h), QuickPush(h)
  PROVE  Each(h)'
<1>0. h \in Handlers /\ Step(h)
  BY DEF Step
<1>1. PICK t \in Tickets :
        /\ ticket[t] = Unissued /\ t \notin Issued
        /\ ticket' = [ticket EXCEPT ![t] = [age |-> "new", user |-> hs[h].user, queue |-> hs[h].queue]]
        /\ queue' = [queue EXCEPT ![hs[h].queue] = Append(queue[hs[h].queue], t)]
        /\ hs'[h].pc = "quickTime"
        /\ hs'[h].taken = hs[h].taken /\ hs'[h].ret = hs[h].ret
        /\ Kin
        /\ \A s \in Tickets : s # t => ticket'[s] = ticket[s]
        /\ ticket'[t].user = hs[h].user
  BY <1>0, QuickPushIs
<1>2. /\ hs[h].pc = "quickPush" /\ UNCHANGED matches /\ hs[h].queue \in Queues
      /\ queue \in [Queues -> Seq(Tickets)]
      /\ \A m \in matches : m \subseteq Issued
  BY <1>0, TypesSplit DEF QuickPush, CallsTyped, CallTyped, ListsTyped, RestTyped
<1> DEFINE u == hs[h].user
<1>3. Has(u, {}) /\ Free(u) /\ hs[h].taken = <<>> /\ hs[h].ret = "idle"
  BY <1>2 DEF Each, Claim, Holding, Valid, Unspent, QuickPC
<1>4. \A s \in Tickets : s # t => (Alive(s)' <=> Alive(s)) /\ (Alive(s) => ticket'[s].user # u)
  BY <1>1, <1>3 DEF Alive, Has
<1>5. \A m \in matches : PlayersOf(m)' = PlayersOf(m)
  BY <1>1, <1>2, SamePlayers
<1>6. OneEach'
  <2>1. Distinct({s \in Tickets : Alive(s)})'
    <3> SUFFICES ASSUME NEW r \in Tickets, NEW s \in Tickets, Alive(r)', Alive(s)',
                        ticket'[r].user = ticket'[s].user
                 PROVE  r = s
      BY DEF Distinct
    <3>1. CASE r = t \/ s = t
      BY <1>1, <1>4, <3>1
    <3>2. CASE r # t /\ s # t
      BY <1>1, <1>4, <3>2 DEF Each, OneEach, Distinct
    <3> QED
      BY <3>1, <3>2
  <2>2. ASSUME NEW s \in Tickets, Alive(s)' PROVE Free(ticket[s].user)'
    <3>1. \A m \in matches : ticket'[s].user \notin PlayersOf(m)
      BY <1>1, <1>3, <1>4, <2>2 DEF Each, OneEach, Free
    <3> QED
      BY <1>2, <1>5, <3>1 DEF Free
  <2>3. \A m, n \in matches' : PlayersOf(m)' \cap PlayersOf(n)' # {} => m = n
    BY <1>2, <1>5 DEF Each, OneEach
  <2> QED
    BY <2>1, <2>2, <2>3 DEF OneEach
<1>7. AliveInHand'
  <2> SUFFICES ASSUME NEW s \in Tickets, Alive(s)' PROVE Listed(s)'
    BY DEF AliveInHand
  <2>1. CASE s = t
    <3>1. ToSet(Append(queue[hs[h].queue], t)) = ToSet(queue[hs[h].queue]) \cup {t}
      BY <1>2, ToSetAppend
    <3>2. queue'[hs[h].queue] = Append(queue[hs[h].queue], t)
      BY <1>1, <1>2
    <3> QED
      BY <1>2, <2>1, <3>1, <3>2 DEF Listed
  <2>2. CASE s # t
    <3>1. Alive(s) /\ Listed(s)
      BY <1>0, <1>3, <1>4, <2>2, ToSetEmpty DEF Each, AliveInHand
    <3>2. ~Take(h)
      BY <1>2 DEF Take
    <3> QED
      BY <1>0, <3>1, <3>2, ListsKept
  <2> QED
    BY <2>1, <2>2
<1>8. Claim(hs[h])'
  BY <1>1, <1>3 DEF Claim, Valid, Bots, Holding
<1> QED
  BY <1>6, <1>7, <1>8 DEF Each

LEMMA EachCreate ==
  ASSUME NEW h, Handlers = {h}, QueueTypes, Unspent(hs[h]), Each(h), CreateMatch(h)
  PROVE  Each(h)'
<1> DEFINE players == ToSet(hs[h].taken)
<1>1. /\ h \in Handlers /\ hs'[h].pc = "reset" /\ hs[h].pc = "create" /\ hs'[h].taken = <<>>
      /\ hs'[h].ret # "bot" /\ players \subseteq Issued /\ Issued \subseteq Tickets
      /\ matches' = matches \cup {players}
      /\ UNCHANGED ticket /\ UNCHANGED queue
  BY CreateIs DEF CreateMatch, keys, Issued
<1>2. \A t \in players : Has(ticket[t].user, {t}) /\ Free(ticket[t].user) /\ Gone(t)
  BY <1>1 DEF Each, Claim, Unspent, Valid
<1>3. OneEach'
  <2>1. players \subseteq Tickets /\ OneEach
    BY <1>1 DEF Each
  <2> HIDE DEF players
  <2> QED
    BY <1>1, <1>2, <2>1, NewMatch
<1>4. AliveInHand'
  BY <1>1, <1>2 DEF Each, AliveInHand, Alive, Gone, Listed
<1>5. Claim(hs[h])'
  BY <1>1 DEF Claim, Valid, Bots, Holding
<1> QED
  BY <1>3, <1>4, <1>5 DEF Each

LEMMA EachBot ==
  ASSUME NEW h, Handlers = {h}, QueueTypes, Unspent(hs[h]), Each(h), BotCreate(h)
  PROVE  Each(h)'
<1>1. /\ h \in Handlers /\ hs'[h] = Idle /\ hs[h].pc = "botCreate"
      /\ hs[h].taken = <<>>
      /\ matches' = matches \cup {{hs[h].ticket}}
      /\ UNCHANGED ticket /\ UNCHANGED queue
  BY DoneIs DEF BotCreate, keys, Each, Claim, Holding, Valid
<1>2. hs[h].ticket \in Tickets
  BY <1>1, TypesSplit DEF CallsTyped, CallTyped, OfTicket, FallbackPC, Issued
<1>3. PICK b \in Tickets : b = hs[h].ticket
  BY <1>2
<1>4. Has(ticket[b].user, {b}) /\ Free(ticket[b].user) /\ Gone(b)
  BY <1>1, <1>3 DEF Each, Claim, Unspent, Bots
<1>5. OneEach'
  <2>1. PICK S : S = {b}
    OBVIOUS
  <2>2. /\ OneEach /\ S \subseteq Tickets /\ matches' = matches \cup {S}
        /\ \A t \in S : Has(ticket[t].user, {t}) /\ Free(ticket[t].user) /\ Gone(t)
    BY <1>1, <1>3, <1>4, <2>1 DEF Each
  <2> QED
    BY <1>1, <2>2, NewMatch
<1>6. AliveInHand'
  BY <1>1 DEF Each, AliveInHand, Alive, Listed, Idle
<1>7. Claim(hs[h])'
  BY <1>1 DEF Claim, Valid, Bots, Holding, Idle
<1> QED
  BY <1>5, <1>6, <1>7 DEF Each

\* A call that begins.
LEMMA EachBegins ==
  ASSUME NEW h, Handlers = {h}, QueueTypes, Each(h),
         \/ \E u \in Users, q \in Queues : QuickPlay(h, u, q)
         \/ \E q \in Queues : QueueTick(h, q)
         \/ \E t \in Tickets : Scheduled(h, t) \/ Fallback(h, t)
  PROVE  Each(h)'
<1>1. /\ h \in Handlers /\ UNCHANGED ticket /\ UNCHANGED queue /\ UNCHANGED matches
      /\ hs[h].pc = "idle" /\ hs[h].taken = <<>>
  BY DEF QuickPlay, QueueTick, Scheduled, Fallback, keys, Each, Claim, Holding, Valid
<1>2. OneEach'
  <2>1. Shrinks
    BY <1>1 DEF Shrinks, Alive, PlayersOf
  <2> QED
    BY <2>1, ShrinksKeeps DEF Each
<1>3. \A u, S : (Has(u, S) => Has(u, S)') /\ (Free(u) => Free(u)')
  BY <1>1 DEF Has, Alive, Free, PlayersOf
<1>4. \A t \in Tickets : Alive(t) => Listed(t)
  BY <1>1, ToSetEmpty DEF Each, AliveInHand
<1>5. AliveInHand'
  BY <1>1, <1>4 DEF AliveInHand, Alive, Listed
<1>6. CASE \E u \in Users, q \in Queues : QuickPlay(h, u, q)
  <2>1. PICK u \in Users, q \in Queues : QuickPlay(h, u, q)
    BY <1>6
  <2>2. hs'[h].pc = "quickMatches" /\ hs'[h].user = u /\ hs'[h].taken = <<>> /\ hs'[h].ret = "idle"
    BY <1>1, <2>1, QuickPlayIs
  <2>3. Has(u, {})
    BY <1>4, <2>1 DEF QuickPlay, Waiting, Has
  <2>4. Has(u, {})'
    BY <1>3, <2>3
  <2>5. Has(hs[h].user, {})'
    BY <2>2, <2>4 DEF Has
  <2>6. Claim(hs[h])'
    BY <2>2, <2>5 DEF Claim, Valid, Bots, Holding
  <2> QED
    BY <1>2, <1>5, <2>6 DEF Each
<1>7. CASE (\E q \in Queues : QueueTick(h, q)) \/ (\E t \in Tickets : Scheduled(h, t))
  <2>1. \/ UNCHANGED hs
        \/ hs'[h].pc = "lock" /\ hs'[h].taken = <<>> /\ hs'[h].ret = "idle"
    <3>1. CASE \E q \in Queues : QueueTick(h, q)
      <4>1. UNCHANGED hs \/ \E q \in Queues : CallAssemble(h, q, 0, TRUE, "idle")
        BY <3>1 DEF QueueTick
      <4> QED
        BY <1>1, <4>1, CallIs
    <3>2. CASE \E t \in Tickets : Scheduled(h, t)
      <4>1. PICK t \in Tickets : Scheduled(h, t)
        BY <3>2
      <4>2. ticket[t].queue \in Queues
        BY <4>1, TypesSplit DEF Scheduled, RestTyped, Issued, TicketsTyped, Unissued
      <4> QED
        BY <1>1, <4>1, <4>2, CallIs DEF Scheduled
    <3> QED
      BY <1>7, <3>1, <3>2
  <2>2. Claim(hs[h])'
    <3>1. CASE UNCHANGED hs
      BY <1>1, <1>3, <3>1 DEF Each, Claim, Valid, Bots, Holding, Has, Free, PlayersOf
    <3>2. CASE hs'[h].pc = "lock" /\ hs'[h].taken = <<>> /\ hs'[h].ret = "idle"
      BY <3>2 DEF Claim, Valid, Bots, Holding
    <3> QED
      BY <2>1, <3>1, <3>2
  <2> QED
    BY <1>2, <1>5, <2>2 DEF Each
<1>8. CASE \E t \in Tickets : Fallback(h, t)
  <2>1. PICK t \in Tickets : Fallback(h, t)
    BY <1>8
  <2>2. CASE UNCHANGED hs
    <3>1. Claim(hs[h])'
      BY <1>1, <1>3, <2>2 DEF Each, Claim, Valid, Bots, Holding, Has, Free, PlayersOf
    <3> QED
      BY <1>2, <1>5, <3>1 DEF Each
  <2>3. CASE Alive(t) /\ CallAssemble(h, ticket[t].queue, t, TRUE, "bot")
    <3>1. ticket[t].queue \in Queues
      BY <2>3, TypesSplit DEF Alive, TicketsTyped
    <3>2. hs'[h].pc = "lock" /\ hs'[h].taken = <<>> /\ hs'[h].ret = "bot" /\ hs'[h].ticket = t
      BY <1>1, <2>3, <3>1, CallIs
    <3>3. PICK u : u = ticket[t].user
      OBVIOUS
    <3>4. Has(u, {t}) /\ Free(u)
      BY <2>3, <3>3, AliveClaims DEF Each
    <3>5. Has(u, {t})' /\ Free(u)' /\ ticket'[t].user = u
      BY <1>1, <1>3, <3>3, <3>4
    <3>6. (Has(ticket[hs[h].ticket].user, {hs[h].ticket}) /\ Free(ticket[hs[h].ticket].user))'
      BY <3>2, <3>5 DEF Has, Free
    <3>7. Claim(hs[h])'
      BY <3>2, <3>6 DEF Claim, Valid, Holding
    <3> QED
      BY <1>2, <1>5, <3>7 DEF Each
  <2> QED
    BY <2>1, <2>2, <2>3 DEF Fallback
<1> QED
  BY <1>6, <1>7, <1>8

\* Time passes, or a match is over.
LEMMA EachPasses ==
  ASSUME NEW h, Handlers = {h}, QueueTypes, Each(h),
         \/ \E t \in Tickets : AskFallback(t) \/ TicketDue(t) \/ TicketExpire(t)
         \/ \E q \in Queues : QueueDue(q) \/ QueueLockExpire(q)
         \/ \E m \in matches : MatchOver(m)
         \/ UNCHANGED vars
  PROVE  Each(h)'
<1>1. h \in Handlers /\ UNCHANGED hs /\ UNCHANGED queue /\ matches' \subseteq matches
  BY DEF AskFallback, TicketDue, TicketExpire, QueueDue, QueueLockExpire, MatchOver, keys, vars
<1>2. Kin /\ \A t \in Tickets : Alive(t)' => Alive(t)
  <2>1. CASE \E t \in Tickets : TicketDue(t) \/ TicketExpire(t)
    <3>1. PICK t \in Tickets, a \in {"due", "gone"} :
            ticket[t].age \in {"new", "due"} /\ ticket' = [ticket EXCEPT ![t].age = a]
      BY <2>1 DEF TicketDue, TicketExpire
    <3>2. Kin /\ \A s \in Tickets : s # t => ticket'[s] = ticket[s]
      BY <3>1, TypesSplit, Aged
    <3> QED
      BY <3>1, <3>2 DEF Alive
  <2>2. CASE UNCHANGED ticket
    BY <2>2, TypesSplit, SameTickets DEF Alive
  <2> QED
    BY <2>1, <2>2 DEF AskFallback, QueueDue, QueueLockExpire, MatchOver, keys, vars
<1>3. /\ \A m \in matches : m \subseteq Issued
      /\ ToSet(hs[h].taken) \subseteq Issued
      /\ Bots(hs[h]) => hs[h].ticket \in Issued
  BY <1>1, TypesSplit DEF RestTyped, CallsTyped, CallTyped, OfTicket, FallbackPC, Bots
<1>4. Shrinks
  <2>1. \A t \in Tickets : Alive(t)' => Alive(t) /\ ticket'[t].user = ticket[t].user
    BY <1>2 DEF Alive, Issued, Unissued, Kin
  <2>2. \A m \in matches' : PlayersOf(m)' = PlayersOf(m)
    BY <1>1, <1>2, <1>3, SamePlayers
  <2> QED
    BY <1>1, <2>1, <2>2 DEF Shrinks
<1>5. /\ OneEach'
      /\ \A u, S : Has(u, S) => Has(u, S)'
      /\ \A u : Free(u) => Free(u)'
  BY <1>4, ShrinksKeeps DEF Each
<1>6. AliveInHand'
  BY <1>1, <1>2 DEF Each, AliveInHand, Listed
<1>7. hs[h].pc \in Valid =>
        \A t \in ToSet(hs[h].taken) : Has(ticket[t].user, {t})' /\ Free(ticket[t].user)'
  <2> SUFFICES ASSUME hs[h].pc \in Valid, NEW t \in ToSet(hs[h].taken)
               PROVE  Has(ticket[t].user, {t})' /\ Free(ticket[t].user)'
    OBVIOUS
  <2>1. PICK u : u = ticket[t].user
    OBVIOUS
  <2>2. Has(u, {t}) /\ Free(u)
    BY <2>1 DEF Each, Claim
  <2>3. Has(u, {t})' /\ Free(u)' /\ ticket'[t].user = u
    BY <1>2, <1>3, <1>5, <2>1, <2>2 DEF Kin
  <2> QED
    BY <2>3 DEF Has, Free
<1>8. Bots(hs[h]) => Has(ticket[hs[h].ticket].user, {hs[h].ticket})' /\ Free(ticket[hs[h].ticket].user)'
  <2> SUFFICES ASSUME Bots(hs[h])
               PROVE  Has(ticket[hs[h].ticket].user, {hs[h].ticket})' /\ Free(ticket[hs[h].ticket].user)'
    OBVIOUS
  <2>1. PICK u, t : t = hs[h].ticket /\ u = ticket[t].user
    OBVIOUS
  <2>2. Has(u, {t}) /\ Free(u)
    BY <2>1 DEF Each, Claim
  <2>3. Has(u, {t})' /\ Free(u)' /\ ticket'[t].user = u
    BY <1>2, <1>3, <1>5, <2>1, <2>2 DEF Kin
  <2>4. hs'[h].ticket = t
    BY <1>1, <2>1
  <2> QED
    BY <2>3, <2>4 DEF Has, Free
<1>9. /\ hs[h].pc \in {"quickMatches", "quickPush"} => Has(hs[h].user, {})'
      /\ hs[h].pc = "quickPush" => Free(hs[h].user)'
  <2>1. PICK u : u = hs[h].user
    OBVIOUS
  <2>2. /\ hs[h].pc \in {"quickMatches", "quickPush"} => Has(u, {})
        /\ hs[h].pc = "quickPush" => Free(u)
    BY <2>1 DEF Each, Claim
  <2>3. /\ hs[h].pc \in {"quickMatches", "quickPush"} => Has(u, {})'
        /\ hs[h].pc = "quickPush" => Free(u)'
    BY <1>5, <2>2
  <2> QED
    BY <1>1, <2>1, <2>3 DEF Has, Free
<1>10. hs[h].pc \notin Holding => hs[h].taken = <<>>
  BY DEF Each, Claim
<1>11. Claim(hs[h])'
  BY <1>1, <1>7, <1>8, <1>9, <1>10 DEF Claim, Bots
<1> QED
  BY <1>5, <1>6, <1>11 DEF Each

\* While calls come one at a time and the server has not crashed, what a call
\* found of a user when it looked is still so when it goes by it.
LEMMA ApartStep ==
  ASSUME NEW h, Handlers = {h}
  PROVE  Apart /\ [Next]_vars => Apart'
<1> SUFFICES ASSUME Apart, [Next]_vars PROVE Apart'
  OBVIOUS
<1>1. Once /\ Once' /\ QueueTypes /\ Unspent(hs[h])
  BY OnceStep DEF Apart, Once
<1>2. restarts \in 0 .. MaxRestarts /\ MaxRestarts \in Nat
  BY QueueBounds DEF Apart
<1>3. CASE Crash
  <2>1. restarts' \in 0 .. MaxRestarts /\ restarts' # MaxRestarts
    BY <1>2, <1>3 DEF Crash
  <2> QED
    BY <1>1, <2>1 DEF Apart
<1>4. CASE ~Crash
  <2>1. UNCHANGED restarts
    BY <1>4 DEF Next, Step, QuickMatches, QuickPush, QuickTime, QuickLength, QueueLock, Take, ReadTickets,
       Freeze, DeleteTickets, CreateMatch, ResetTime, QueueUnlock, Assembled, BotStakes, BotPush, BotDelete,
       BotCreate, QuickPlay, QueueTick, Scheduled, Fallback, AskFallback, TicketDue, TicketExpire, QueueDue,
       QueueLockExpire, MatchOver, timing, vars
  <2>2. ASSUME restarts = MaxRestarts PROVE Each(h)'
    <3>1. Each(h)
      BY <2>2 DEF Apart, Each
    <3>2. CASE Step(h)
      BY <1>1, <3>1, <3>2, EachShrinks, EachPush, EachCreate, EachBot
    <3>3. CASE \/ \E u \in Users, q \in Queues : QuickPlay(h, u, q)
               \/ \E q \in Queues : QueueTick(h, q)
               \/ \E t \in Tickets : Scheduled(h, t) \/ Fallback(h, t)
      BY <1>1, <3>1, <3>3, EachBegins
    <3>4. CASE \/ \E t \in Tickets : AskFallback(t) \/ TicketDue(t) \/ TicketExpire(t)
               \/ \E q \in Queues : QueueDue(q) \/ QueueLockExpire(q)
               \/ \E m \in matches : MatchOver(m)
               \/ UNCHANGED vars
      BY <1>1, <3>1, <3>4, EachPasses
    <3> QED
      BY <1>4, <3>2, <3>3, <3>4 DEF Next
  <2>3. restarts' = MaxRestarts => AliveInHand' /\ OneEach' /\ \A g \in Handlers : Claim(hs[g])'
    BY <2>1, <2>2 DEF Each
  <2> QED
    BY <1>1, <1>2, <2>1, <2>3 DEF Apart
<1> QED
  BY <1>3, <1>4

LEMMA ApartInit == Init => Apart
<1> SUFFICES ASSUME Init PROVE Apart
  OBVIOUS
<1>1. \A t \in Tickets : ~Alive(t)
  BY DEF Init, Alive, Unissued
<1>2. AliveInHand /\ OneEach
  BY <1>1 DEF Init, AliveInHand, OneEach, Distinct
<1>3. \A h \in Handlers : Claim(hs[h])
  BY DEF Init, Idle, Claim, Valid, Bots, Holding
<1>4. restarts \in 0 .. MaxRestarts
  BY QueueBounds DEF Init
<1> QED
  BY <1>2, <1>3, <1>4, OnceInit DEF Apart

\* Calls that come one at a time make a ticket into one match at most, through
\* any number of crashes: both ways to a match delete its tickets first.  (With
\* two calls it is not so: the fallback has a ticket tryAssembleMatch popped.)
THEOREM SerialOneMatchPerTicket ==
  ASSUME NEW h, Handlers = {h}
  PROVE  Spec => []OneMatchPerTicket
<1>1. Once => OneMatchPerTicket
  <2> SUFFICES ASSUME Once, NEW t \in Tickets PROVE made[t].queue + made[t].bot <= 1
    BY DEF OneMatchPerTicket
  <2> QED
    BY DEF Once, MadeOnce, Unmade
<1>2. Once /\ [Next]_vars => Once'
  BY OnceStep
<1> QED
  BY <1>1, <1>2, OnceInit, PTL DEF Spec

\* Calls that come one at a time let a user wait in one queue or play one match
\* until the server crashes: quickPlay checks both before it sets a ticket, and
\* nothing changes in between.
THEOREM SerialQueueXorMatch ==
  ASSUME NEW h, Handlers = {h}
  PROVE  Spec => []QueueXorMatch
<1>1. Apart => QueueXorMatch
  <2> SUFFICES ASSUME Apart, restarts = MaxRestarts, NEW u \in Users
               PROVE  Cardinality({t \in Tickets : Waiting(t) /\ ticket[t].user = u})
                        + Cardinality({m \in matches : u \in PlayersOf(m)}) <= 1
    BY DEF QueueXorMatch
  <2> DEFINE waits == {t \in Tickets : Waiting(t) /\ ticket[t].user = u}
             plays == {m \in matches : u \in PlayersOf(m)}
  <2>1. OneEach
    BY DEF Apart
  <2>2. waits = {} \/ \E t : waits = {t}
    <3>1. \A s, t \in {t \in Tickets : Alive(t)} : ticket[s].user = ticket[t].user => s = t
      BY <2>1 DEF OneEach, Distinct
    <3>2. \A s, t \in waits : s = t
      BY <3>1 DEF Waiting
    <3> QED
      BY <3>2
  <2>3. plays = {} \/ \E m : plays = {m}
    <3>1. \A m, n \in plays : m = n
      BY <2>1 DEF OneEach
    <3> QED
      BY <3>1
  <2>4. waits = {} \/ plays = {}
    BY <2>1 DEF OneEach, Free, Waiting
  <2> HIDE DEF waits, plays
  <2>5. Cardinality(waits) = 0 \/ (Cardinality(waits) = 1 /\ plays = {})
    BY <2>2, <2>4, FS_EmptySet, FS_Singleton
  <2>6. Cardinality(plays) = 0 \/ (Cardinality(plays) = 1 /\ waits = {})
    BY <2>3, <2>4, FS_EmptySet, FS_Singleton
  <2>7. Cardinality({}) = 0
    BY FS_EmptySet
  <2>8. Cardinality(waits) + Cardinality(plays) <= 1
    BY <2>5, <2>6, <2>7
  <2> QED
    BY <2>8 DEF waits, plays
<1>2. Apart /\ [Next]_vars => Apart'
  BY ApartStep
<1> QED
  BY <1>1, <1>2, ApartInit, PTL DEF Spec
=============================================================================
