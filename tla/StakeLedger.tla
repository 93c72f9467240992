----------------------------- MODULE StakeLedger -----------------------------
(***************************************************************************)
(* The wallets of the users and of the house, and every operation that     *)
(* moves points between balance and frozen or between wallets.             *)
(*                                                                         *)
(* Two disciplines meet on the same rows.  freezeStake, unfreezeStake and  *)
(* the refunds of cancelMatch run in a transaction that locks the row (FOR *)
(* UPDATE): one atomic step.  Settlement, reset-frozen and the admin's      *)
(* balance change load the row, change the entity and save it, without a   *)
(* lock.  TypeORM's save selects the row again and then writes the columns *)
(* in which the entity differs from what it selected: three steps.         *)
(*                                                                         *)
(* A call is a list of wallet operations, done in order by a handler.  The *)
(* matches whose stakes are moved are the constant Games; which of them are*)
(* open is what the records in Redis say.                                  *)
(***************************************************************************)
EXTENDS MatchRules, Integers, Sequences, FiniteSets, Functions

CONSTANTS
  Users,         \* owners of wallets, without the house
  House,         \* HOUSE_USER_ID
  Handlers,      \* slots for overlapping calls
  Games,         \* matches that may be formed: [players, size, kind]
  NoGame,        \* a call that belongs to no match
  NoRow,         \* nothing has been loaded
  Stake,         \* stakeVp of the matches
  UserBalance,   \* initial balances
  HouseBalance,
  Adjustments,   \* amounts an admin may add,
  Adjusted,      \* and to whose balance
  MaxAdjusts,    \* bound: balance changes by admins
  MaxResets,     \* bound: calls of reset-frozen
  MaxRestarts,   \* bound: restarts of the server
  AdminResets    \* admin/reset-frozen is used, which checks no match

Accounts == Users \cup {House}

\* A game's players in the order they were taken from the queue, its
\* playersCount (the missing ones are bots) and the function that forms it:
\* tryAssembleMatch ("assembled") or fallbackToBotIfTimedOut ("fallback").
Game == [players : Seq(Users) \ {<<>>}, size : Nat \ {0, 1}, kind : {"assembled", "fallback"}]

ASSUME LedgerAssumption ==
  /\ House \notin Users
  /\ Games \subseteq Game
  /\ \A g \in Games :
       /\ IsInjective(g.players)
       /\ Len(g.players) <= g.size
       /\ g.kind = "fallback" => Len(g.players) = 1
  /\ NoGame \notin Games
  /\ Stake \in Nat
  /\ UserBalance \in Nat
  /\ HouseBalance \in Nat
  /\ Adjustments \subseteq Int \ {0}
  /\ Adjusted \subseteq Accounts
  /\ MaxAdjusts \in Nat /\ MaxResets \in Nat /\ MaxRestarts \in Nat
  /\ AdminResets \in BOOLEAN

Wallet == [bal : Nat, frz : Nat]

ASSUME NoRowAssumption == NoRow \notin Wallet

Locked   == {"freeze", "unfreeze", "refund"}
Unlocked == {"consume", "credit", "reset", "adjust"}
Op       == [op : (Locked \cup Unlocked) \ {"adjust"}, who : Accounts, amt : Nat]
              \cup [op : {"adjust"}, who : Accounts, amt : Int]

Stage == {"new", "queued", "forming", "open", "closing", "closed"}

VARIABLES
  wallet,     \* the rows
  stage,      \* per game, how far it is
  hs,         \* the calls in progress
  adjusts,    \* admin changes still to come
  resets,     \* reset-frozen calls still to come
  restarts,   \* restarts still to come
  injected,   \* what admins have added, net
  made        \* what was paid though nobody had put it up, net

vars == <<wallet, stage, hs, adjusts, resets, restarts, injected, made>>

\* todo: operations left; undo: what to do if a freeze fails; copy, seen: for
\* the first of todo, the entity loaded, and the row that save selected; next:
\* the game's stage after the last of todo.
Handler == [todo : Seq(Op), undo : Seq(Op),
            copy : Wallet \cup {NoRow}, seen : Wallet \cup {NoRow},
            game : Games \cup {NoGame}, next : Stage, busy : BOOLEAN]

Idle == [todo |-> <<>>, undo |-> <<>>, copy |-> NoRow, seen |-> NoRow,
         game |-> NoGame, next |-> "closed", busy |-> FALSE]

Init ==
  /\ wallet = [a \in Accounts |->
                 [bal |-> IF a = House THEN HouseBalance ELSE UserBalance, frz |-> 0]]
  /\ stage = [g \in Games |-> "new"]
  /\ hs = [h \in Handlers |-> Idle]
  /\ adjusts = MaxAdjusts
  /\ resets = MaxResets
  /\ restarts = MaxRestarts
  /\ injected = 0
  /\ made = 0

-----------------------------------------------------------------------------
(* One operation on one wallet *)

Minus(a, b) == IF a >= b THEN a - b ELSE 0      \* Math.max(0, a - b)

\* What consume and unfreeze take out of the frozen points.
Taken(w, amt) == w.frz - Minus(w.frz, amt)

NeverShort(w, amt)   == FALSE                    \* variant
FreezeFails(w, amt)  == w.bal < amt
Freeze(w, amt)       == [bal |-> w.bal - amt, frz |-> w.frz + amt]

UnfreezeKeeping(w, amt) == [w EXCEPT !.bal = w.bal + amt]               \* variant
Unfreeze(w, amt)     == [bal |-> w.bal + amt, frz |-> Minus(w.frz, amt)]
Refund(w, amt)       == IF w.frz >= amt
                        THEN [bal |-> w.bal + amt, frz |-> w.frz - amt] ELSE w

\* What an unlocked operation makes of the entity it loaded.
Changed(op, w) ==
  CASE op.op = "consume" -> [w EXCEPT !.frz = Minus(w.frz, op.amt)]
    [] op.op = "credit"  -> [w EXCEPT !.bal = w.bal + op.amt]
    [] op.op = "reset"   -> [bal |-> w.bal + w.frz, frz |-> 0]
    [] op.op = "adjust"  -> [w EXCEPT !.bal = w.bal + op.amt]

\* save: the columns in which the entity differs from the row it selected.
Saved(entity, seen, w) ==
  [bal |-> IF entity.bal # seen.bal THEN entity.bal ELSE w.bal,
   frz |-> IF entity.frz # seen.frz THEN entity.frz ELSE w.frz]

Each(op, players, amt) ==
  [i \in 1 .. Len(players) |-> [op |-> op, who |-> players[i], amt |-> amt]]

One(op, who, amt) == <<[op |-> op, who |-> who, amt |-> amt]>>

BotCount(g)   == g.size - Len(g.players)
HouseStake(g) == Stake * (g.size - 1)
PlayersOf(g)  == {g.players[i] : i \in 1 .. Len(g.players)}

\* The record of the match exists and is neither FINISHED nor CANCELLED.
Active(g) == stage[g] \in {"open", "closing"}

\* A user waits for or plays in one match at a time: the promise of the queue.
Engaged(u) ==
  \E g \in Games : u \in PlayersOf(g) /\ stage[g] \in {"queued", "forming", "open", "closing"}

\* A call of the given operations on game g, which is at stage now meanwhile.
Begin(h, todo, undo, g, now, next) ==
  /\ ~hs[h].busy
  /\ hs' = [hs EXCEPT ![h] = [todo |-> todo, undo |-> undo, copy |-> NoRow, seen |-> NoRow,
                              game |-> g, next |-> next, busy |-> TRUE]]
  /\ stage' = IF g = NoGame THEN stage ELSE [stage EXCEPT ![g] = now]

-----------------------------------------------------------------------------
(* The calls *)

\* quickPlay only checks the balance; the stake is frozen later.
Enqueue(g) ==
  /\ stage[g] = "new"
  /\ \A u \in PlayersOf(g) : ~Engaged(u) /\ wallet[u].bal >= Stake
  /\ stage' = [stage EXCEPT ![g] = "queued"]
  /\ UNCHANGED <<wallet, hs, adjusts, resets, restarts, injected, made>>

\* tryAssembleMatch: freeze for every real player, in turn.
Assemble(h, g) ==
  /\ g.kind = "assembled" /\ stage[g] = "queued"
  /\ Begin(h, Each("freeze", g.players, Stake), <<>>, g, "forming", "open")
  /\ UNCHANGED <<wallet, adjusts, resets, restarts, injected, made>>

\* fallbackToBotIfTimedOut: if the house can cover the bots, freeze for the
\* player and for the house; if either fails the player's stake is unfrozen
\* (and the ticket goes back to the queue, which is not followed further).
\* Otherwise it is a practice match, without stakes.
Fallback(h, g) ==
  /\ g.kind = "fallback" /\ stage[g] = "queued"
  /\ IF wallet[House].bal < HouseStake(g)
     THEN stage' = [stage EXCEPT ![g] = "closed"] /\ UNCHANGED hs
     ELSE Begin(h, Each("freeze", g.players, Stake) \o One("freeze", House, HouseStake(g)),
                Each("unfreeze", g.players, Stake), g, "forming", "open")
  /\ UNCHANGED <<wallet, adjusts, resets, restarts, injected, made>>

\* variant: the winner keeps what was frozen
SettlementOfLosers(g, winner) ==
  LET pot == Pot(Stake, g.size)
  IN  Each("consume", SelectSeq(g.players, LAMBDA u : u # winner), Stake)
        \o One("credit", winner, Payout(pot))
        \o (IF Fee(pot) > 0 THEN One("credit", House, Fee(pot)) ELSE <<>>)

\* What settleIfFinished does to the wallets when winner won.
Settlement(g, winner) ==
  LET pot == Pot(Stake, g.size)
  IN  Each("consume", g.players, Stake)
        \o (IF BotCount(g) > 0 THEN One("consume", House, HouseStake(g)) ELSE <<>>)
        \o One("credit", winner, Payout(pot))
        \o (IF Fee(pot) > 0 THEN One("credit", House, Fee(pot)) ELSE <<>>)

\* What a settlement pays out for the bots without taking it from the house, which
\* puts up their stakes in a fallback only; negative where it takes too much.
Unfunded(g) == IF BotCount(g) > 0
               THEN Stake * BotCount(g) - Taken(wallet[House], HouseStake(g)) ELSE 0

\* settleIfFinished, of a match whose record does not say settled yet, though
\* another call may be settling or cancelling it; a bot's payout goes to the
\* house.  (A match that goes on after its cancellation: see MatchPlay.)
Settle(h, g, winner) ==
  /\ Active(g)
  /\ winner \in PlayersOf(g) \cup (IF BotCount(g) > 0 THEN {House} ELSE {})
  /\ Begin(h, Settlement(g, winner), <<>>, g, "closing", "closed")
  /\ made' = made + Unfunded(g)
  /\ UNCHANGED <<wallet, adjusts, resets, restarts, injected>>

\* cancelMatch: refund the real players, not the house.
Cancel(h, g) ==
  /\ Active(g)
  /\ Begin(h, Each("refund", g.players, Stake), <<>>, g, "closing", "closed")
  /\ UNCHANGED <<wallet, adjusts, resets, restarts, injected, made>>

\* POST wallet/reset-frozen, refused while the user's match is active, and the
\* admin's, which is not.
ResetFrozen(h, u) ==
  /\ resets > 0
  /\ AdminResets \/ \A g \in Games : Active(g) => u \notin PlayersOf(g)
  /\ Begin(h, One("reset", u, 0), <<>>, NoGame, "closed", "closed")
  /\ resets' = resets - 1
  /\ UNCHANGED <<wallet, adjusts, restarts, injected, made>>

\* The admin's updateUserBalance.
UpdateBalance(h, u, amt) ==
  /\ adjusts > 0
  /\ Begin(h, One("adjust", u, amt), <<>>, NoGame, "closed", "closed")
  /\ adjusts' = adjusts - 1
  /\ UNCHANGED <<wallet, resets, restarts, injected, made>>

-----------------------------------------------------------------------------
(* The operations of a call in progress *)

\* The handler after the first of its operations, op.
Rest(h, op) == [hs[h] EXCEPT !.todo = Tail(@), !.copy = NoRow, !.seen = NoRow,
                             !.undo = IF op.op = "freeze" /\ hs[h].game.kind = "assembled"
                                      THEN Append(@, [op EXCEPT !.op = "unfreeze"])
                                      ELSE @]

\* The undo list returns a stake to a.  In a fallback it returns the stake of the
\* player whether the house's freeze failed or the player's own did.
Undoes(hd, a) == \E i \in 1 .. Len(hd.undo) : hd.undo[i].who = a

\* A transaction that locks the row.  A freeze that fails ends the call: undo,
\* and there is no match (the tickets are deleted).
LockedOp(h) ==
  /\ hs[h].todo # <<>>
  /\ LET op == Head(hs[h].todo)
         w  == wallet[op.who]
     IN  /\ op.op \in Locked
         /\ IF op.op = "freeze" /\ FreezeFails(w, op.amt)
            THEN /\ hs' = [hs EXCEPT ![h] = [@ EXCEPT !.todo = hs[h].undo, !.undo = <<>>,
                                                      !.next = "closed"]]
                 /\ UNCHANGED wallet
            ELSE /\ hs' = [hs EXCEPT ![h] = Rest(h, op)]
                 /\ wallet' = [wallet EXCEPT ![op.who] =
                                 CASE op.op = "freeze"   -> Freeze(w, op.amt)
                                   [] op.op = "unfreeze" -> Unfreeze(w, op.amt)
                                   [] op.op = "refund"   -> Refund(w, op.amt)]
         /\ made' = IF op.op = "freeze" /\ FreezeFails(w, op.amt) /\ Undoes(hs[h], op.who)
                    THEN made + op.amt ELSE made
  /\ UNCHANGED <<stage, adjusts, resets, restarts, injected>>

\* findOne: load the entity.  There is nothing to save if there is nothing to
\* reset, or if the change would make the balance negative.
Load(h) ==
  /\ hs[h].todo # <<>>
  /\ hs[h].copy = NoRow
  /\ LET op == Head(hs[h].todo)
         w  == wallet[op.who]
     IN  /\ op.op \in Unlocked
         /\ hs' = [hs EXCEPT ![h] =
                     IF \/ op.op = "reset" /\ w.frz = 0
                        \/ op.op = "adjust" /\ w.bal + op.amt < 0
                     THEN Rest(h, op) ELSE [@ EXCEPT !.copy = w]]
  /\ UNCHANGED <<wallet, stage, adjusts, resets, restarts, injected, made>>

\* The first half of save: select the row again.
Select(h) ==
  /\ hs[h].copy # NoRow
  /\ hs[h].seen = NoRow
  /\ hs' = [hs EXCEPT ![h].seen = wallet[Head(hs[h].todo).who]]
  /\ UNCHANGED <<wallet, stage, adjusts, resets, restarts, injected, made>>

\* The second half: update the row.
Save(h) ==
  /\ hs[h].seen # NoRow
  /\ LET op == Head(hs[h].todo)
     IN  /\ wallet' = [wallet EXCEPT ![op.who] = Saved(Changed(op, hs[h].copy), hs[h].seen, @)]
         /\ hs' = [hs EXCEPT ![h] = Rest(h, op)]
         /\ injected' = IF op.op = "adjust" THEN injected + op.amt ELSE injected
  /\ UNCHANGED <<stage, adjusts, resets, restarts, made>>

\* The wallets are done: the match's record is written.
Finish(h) ==
  /\ hs[h].busy
  /\ hs[h].todo = <<>>
  /\ stage' = IF hs[h].game = NoGame THEN stage
              ELSE [stage EXCEPT ![hs[h].game] = hs[h].next]
  /\ hs' = [hs EXCEPT ![h] = Idle]
  /\ UNCHANGED <<wallet, adjusts, resets, restarts, injected, made>>

\* A crash, and cleanupFrozenBalances before requests are served again: every
\* wallet's frozen points go back to its balance.  The records of matches
\* survive in Redis: one that was being settled is still open.
Restart ==
  /\ restarts > 0
  /\ restarts' = restarts - 1
  /\ hs' = [h \in Handlers |-> Idle]
  /\ stage' = [g \in Games |-> IF stage[g] = "forming" THEN "closed"
                               ELSE IF stage[g] = "closing" THEN "open" ELSE stage[g]]
  /\ wallet' = [a \in Accounts |-> [bal |-> wallet[a].bal + wallet[a].frz, frz |-> 0]]
  /\ UNCHANGED <<adjusts, resets, injected, made>>

Step(h) == LockedOp(h) \/ Load(h) \/ Select(h) \/ Save(h) \/ Finish(h)

Next ==
  \/ \E h \in Handlers : Step(h)
  \/ \E g \in Games : Enqueue(g)
  \/ \E h \in Handlers, g \in Games : Assemble(h, g) \/ Fallback(h, g) \/ Cancel(h, g)
  \/ \E h \in Handlers, g \in Games, winner \in Accounts : Settle(h, g, winner)
  \/ \E h \in Handlers, u \in Users : ResetFrozen(h, u)
  \/ \E h \in Handlers, a \in Adjusted, amt \in Adjustments : UpdateBalance(h, a, amt)
  \/ Restart

Spec == Init /\ [][Next]_vars

-----------------------------------------------------------------------------
(* Properties *)

\* No balance and no frozen amount is ever negative, in a row or in an entity
\* that may still be saved, however locked and unlocked calls overlap.
TypeOK ==
  /\ wallet \in [Accounts -> Wallet]
  /\ stage \in [Games -> Stage]
  /\ hs \in [Handlers -> Handler]
  /\ adjusts \in Nat
  /\ resets \in Nat
  /\ restarts \in Nat
  /\ injected \in Int
  /\ made \in Int

Quiet == \A h \in Handlers : ~hs[h].busy

AllPoints == SumFunction([a \in Accounts |-> wallet[a].bal + wallet[a].frz])

InitialPoints == HouseBalance + UserBalance * Cardinality(Users)

\* Between calls, all points are in the wallets.  Besides admins only two things
\* add points or take them away: a fallback whose player could not freeze the
\* stake returns it all the same, and a settlement pays the stakes of bots.
Conserved == Quiet => AllPoints = InitialPoints + injected + made

\* Between calls, matches and their cancellation have moved points and made or
\* destroyed none; only admins add or take away.  (Where assembled matches are
\* full and admins leave the players of fallbacks alone.)
PointsKept == Quiet => AllPoints = InitialPoints + injected

\* What is frozen in a user's wallet is what the open matches of that user hold.
FrozenBacked ==
  Quiet => \A u \in Users :
    wallet[u].frz = Stake * Cardinality({g \in Games : stage[g] = "open" /\ u \in PlayersOf(g)})
=============================================================================
