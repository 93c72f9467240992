--------------------------- MODULE StakeLedgerProofs ---------------------------
(***************************************************************************)
(* No wallet ever goes negative: for any users, matches and stakes, however*)
(* many calls overlap, and whatever the unlocked ones overwrite.           *)
(*                                                                         *)
(* The check against a negative balance is made on the entity that a call  *)
(* loaded and not on the row it writes, so the invariant has to follow the *)
(* entities: a loaded one stays good for the operation it was loaded for.  *)
(*                                                                         *)
(* And while calls do not overlap, no points are lost or made, and what is *)
(* frozen backs open matches.  That needs an invariant of calls half done: *)
(* whose stake is frozen meanwhile, what a freeze that fails has to undo,  *)
(* and what a settlement has taken out of the wallets and not yet paid.    *)
(***************************************************************************)
EXTENDS StakeLedger, MatchRulesLemmas, FiniteSetTheorems, WellFoundedInduction

\* An entity is loaded for an unlocked operation, and covers an adjustment.
EntityOK(hd) ==
  /\ hd.copy # NoRow =>
       /\ hd.todo # <<>>
       /\ Head(hd.todo).op \in Unlocked
       /\ Head(hd.todo).op = "adjust" => hd.copy.bal + Head(hd.todo).amt >= 0
  /\ hd.seen # NoRow => hd.copy # NoRow

EntitiesOK == \A h \in Handlers : EntityOK(hs[h])

LedgerInv == TypeOK /\ EntitiesOK

-----------------------------------------------------------------------------
(* Operations on a wallet *)

LEMMA FreezeInWallet ==
  ASSUME NEW w \in Wallet, NEW amt \in Nat, ~FreezeFails(w, amt)
  PROVE  Freeze(w, amt) \in Wallet
BY DEF Wallet, FreezeFails, Freeze

LEMMA UnfreezeInWallet ==
  ASSUME NEW w \in Wallet, NEW amt \in Nat
  PROVE  Unfreeze(w, amt) \in Wallet /\ Refund(w, amt) \in Wallet
BY DEF Wallet, Unfreeze, Refund, Minus

LEMMA ChangedInWallet ==
  ASSUME NEW w \in Wallet, NEW op \in Op, op.op \in Unlocked,
         op.op = "adjust" => w.bal + op.amt >= 0
  PROVE  Changed(op, w) \in Wallet
<1>1. w.bal \in Nat /\ w.frz \in Nat
  BY DEF Wallet
<1>2. CASE op.op = "consume"
  <2>1. op.amt \in Nat
    BY <1>2 DEF Op
  <2>2. Minus(w.frz, op.amt) \in Nat
    BY <1>1, <2>1 DEF Minus
  <2>3. Changed(op, w) = [w EXCEPT !.frz = Minus(w.frz, op.amt)]
    BY <1>2 DEF Changed
  <2> QED
    BY <2>2, <2>3 DEF Wallet
<1>3. CASE op.op = "credit"
  <2>1. w.bal + op.amt \in Nat
    BY <1>1, <1>3 DEF Op
  <2>2. Changed(op, w) = [w EXCEPT !.bal = w.bal + op.amt]
    BY <1>3 DEF Changed
  <2> QED
    BY <2>1, <2>2 DEF Wallet
<1>4. CASE op.op = "reset"
  <2>1. Changed(op, w) = [bal |-> w.bal + w.frz, frz |-> 0]
    BY <1>4 DEF Changed
  <2> QED
    BY <1>1, <2>1 DEF Wallet
<1>5. CASE op.op = "adjust"
  <2>1. w.bal + op.amt \in Nat
    BY <1>1, <1>5 DEF Op
  <2>2. Changed(op, w) = [w EXCEPT !.bal = w.bal + op.amt]
    BY <1>5 DEF Changed
  <2> QED
    BY <2>1, <2>2 DEF Wallet
<1> QED
  BY <1>2, <1>3, <1>4, <1>5 DEF Unlocked

LEMMA SavedInWallet ==
  ASSUME NEW entity \in Wallet, NEW seen \in Wallet, NEW w \in Wallet
  PROVE  Saved(entity, seen, w) \in Wallet
BY DEF Wallet, Saved

\* What is taken out of frozen points.
LEMMA TakenFacts ==
  ASSUME NEW w \in Wallet, NEW amt \in Nat
  PROVE  /\ Taken(w, amt) \in Nat
         /\ Minus(w.frz, amt) = w.frz - Taken(w, amt)
         /\ amt <= w.frz => Taken(w, amt) = amt
         /\ w.frz = 0 => Taken(w, amt) = 0
BY DEF Wallet, Taken, Minus

-----------------------------------------------------------------------------
(* Lists of operations *)

LEMMA EachInSeq ==
  ASSUME NEW op \in (Locked \cup Unlocked) \ {"adjust"},
         NEW players \in Seq(Users), NEW amt \in Nat
  PROVE  Each(op, players, amt) \in Seq(Op)
<1>1. \A i \in 1 .. Len(players) : players[i] \in Accounts
  BY DEF Accounts
<1>2. \A i \in 1 .. Len(players) : [op |-> op, who |-> players[i], amt |-> amt] \in Op
  BY <1>1 DEF Op
<1>3. Len(players) \in Nat
  OBVIOUS
<1> QED
  BY <1>2, <1>3 DEF Each

LEMMA OneInSeq ==
  ASSUME NEW o, NEW who \in Accounts, NEW amt,
         [op |-> o, who |-> who, amt |-> amt] \in Op
  PROVE  One(o, who, amt) \in Seq(Op)
BY DEF One

LEMMA ProductNat == \A a, b \in Nat : a * b \in Nat
OBVIOUS

LEMMA GameNumbers ==
  ASSUME NEW g \in Games
  PROVE  /\ HouseStake(g) \in Nat
         /\ Fee(Pot(Stake, g.size)) \in Nat
         /\ Payout(Pot(Stake, g.size)) \in Nat
         /\ g.players \in Seq(Users)
<1>1. g \in Game /\ Stake \in Nat
  BY LedgerAssumption
<1>2. g.size \in Nat /\ g.size - 1 \in Nat /\ g.players \in Seq(Users)
  BY <1>1 DEF Game
<1>3. HouseStake(g) \in Nat
  BY <1>1, <1>2, ProductNat DEF HouseStake
<1>4. Pot(Stake, g.size) \in Nat
  BY <1>1, <1>2, ProductNat DEF Pot
<1> QED
  BY <1>2, <1>3, <1>4, FeeAndPayout

LEMMA SettlementInSeq ==
  ASSUME NEW g \in Games, NEW winner \in Accounts
  PROVE  Settlement(g, winner) \in Seq(Op)
<1> DEFINE pot == Pot(Stake, g.size)
<1>1. /\ HouseStake(g) \in Nat /\ Fee(pot) \in Nat /\ Payout(pot) \in Nat
      /\ g.players \in Seq(Users) /\ Stake \in Nat
  BY GameNumbers, LedgerAssumption
<1>2. House \in Accounts
  BY DEF Accounts
<1>3. Each("consume", g.players, Stake) \in Seq(Op)
  BY <1>1, EachInSeq DEF Locked, Unlocked
<1>4. One("consume", House, HouseStake(g)) \in Seq(Op)
  BY <1>1, <1>2, OneInSeq DEF Op, Locked, Unlocked
<1>5. One("credit", winner, Payout(pot)) \in Seq(Op)
  BY <1>1, OneInSeq DEF Op, Locked, Unlocked
<1>6. One("credit", House, Fee(pot)) \in Seq(Op)
  BY <1>1, <1>2, OneInSeq DEF Op, Locked, Unlocked
<1>7. <<>> \in Seq(Op)
  OBVIOUS
<1> DEFINE a == Each("consume", g.players, Stake)
           b == IF BotCount(g) > 0 THEN One("consume", House, HouseStake(g)) ELSE <<>>
           c == One("credit", winner, Payout(pot))
           d == IF Fee(pot) > 0 THEN One("credit", House, Fee(pot)) ELSE <<>>
<1>8. a \in Seq(Op) /\ b \in Seq(Op) /\ c \in Seq(Op) /\ d \in Seq(Op)
  BY <1>3, <1>4, <1>5, <1>6, <1>7
<1>9. Settlement(g, winner) = a \o b \o c \o d
  BY DEF Settlement
<1> HIDE DEF a, b, c, d
<1> QED
  BY <1>8, <1>9

-----------------------------------------------------------------------------
(* Handlers *)

LEMMA HandlerReplaced ==
  ASSUME LedgerInv, NEW h \in Handlers, NEW x \in Handler, EntityOK(x),
         hs' = [hs EXCEPT ![h] = x]
  PROVE  hs' \in [Handlers -> Handler] /\ EntitiesOK'
<1>1. hs \in [Handlers -> Handler] /\ EntitiesOK
  BY DEF LedgerInv, TypeOK
<1>2. hs'[h] = x /\ \A g \in Handlers : g # h => hs'[g] = hs[g]
  BY <1>1
<1> QED
  BY <1>1, <1>2 DEF EntitiesOK

LEMMA IdleInHandler == Idle \in Handler /\ EntityOK(Idle)
<1>1. <<>> \in Seq(Op)
  OBVIOUS
<1> QED
  BY <1>1 DEF Idle, Handler, EntityOK, Stage

LEMMA BeginKeeps ==
  ASSUME LedgerInv, NEW h \in Handlers, NEW todo \in Seq(Op), NEW undo \in Seq(Op),
         NEW g \in Games \cup {NoGame}, NEW now \in Stage, NEW next \in Stage,
         Begin(h, todo, undo, g, now, next)
  PROVE  /\ hs' \in [Handlers -> Handler] /\ EntitiesOK'
         /\ stage' \in [Games -> Stage]
<1> DEFINE x == [todo |-> todo, undo |-> undo, copy |-> NoRow, seen |-> NoRow,
                 game |-> g, next |-> next, busy |-> TRUE]
<1>1. x \in Handler /\ EntityOK(x)
  BY DEF Handler, EntityOK
<1>2. hs' = [hs EXCEPT ![h] = x]
  BY DEF Begin
<1>3. stage' \in [Games -> Stage]
  BY DEF Begin, LedgerInv, TypeOK
<1> HIDE DEF x
<1> QED
  BY <1>1, <1>2, <1>3, HandlerReplaced

\* What a handler is after its first operation: again a handler, with nothing
\* loaded.
LEMMA RestGood ==
  ASSUME LedgerInv, NEW h \in Handlers, hs[h].todo # <<>>
  PROVE  /\ Head(hs[h].todo) \in Op
         /\ Rest(h, Head(hs[h].todo)) \in Handler
         /\ EntityOK(Rest(h, Head(hs[h].todo)))
<1> DEFINE op == Head(hs[h].todo)
           undo == IF op.op = "freeze" /\ hs[h].game.kind = "assembled"
                   THEN Append(hs[h].undo, [op EXCEPT !.op = "unfreeze"])
                   ELSE hs[h].undo
           x == [hs[h] EXCEPT !.todo = Tail(@), !.copy = NoRow, !.seen = NoRow, !.undo = undo]
<1>1. hs[h] \in Handler
  BY DEF LedgerInv, TypeOK
<1>2. hs[h].todo \in Seq(Op) /\ hs[h].undo \in Seq(Op)
  BY <1>1 DEF Handler
<1>3. op \in Op /\ Tail(hs[h].todo) \in Seq(Op)
  BY <1>2
<1>4. op.op = "freeze" => [op EXCEPT !.op = "unfreeze"] \in Op
  BY <1>3 DEF Op, Locked, Unlocked
<1>5. undo \in Seq(Op)
  BY <1>2, <1>4
<1>6. Rest(h, op) = x
  BY <1>1 DEF Rest, Handler
<1> HIDE DEF op, undo
<1>7. x \in Handler
  BY <1>1, <1>3, <1>5 DEF Handler, op
<1>8. x.copy = NoRow /\ x.seen = NoRow
  BY <1>1 DEF Handler
<1> HIDE DEF x
<1>9. EntityOK(x)
  BY <1>8 DEF EntityOK
<1> QED
  BY <1>3, <1>6, <1>7, <1>9 DEF op

-----------------------------------------------------------------------------
(* The actions *)

LEMMA EnqueueKeeps ==
  ASSUME LedgerInv, NEW g \in Games, Enqueue(g)
  PROVE  LedgerInv'
BY DEF Enqueue, LedgerInv, TypeOK, EntitiesOK, EntityOK, Stage

LEMMA AssembleKeeps ==
  ASSUME LedgerInv, NEW h \in Handlers, NEW g \in Games, Assemble(h, g)
  PROVE  LedgerInv'
<1>1. Each("freeze", g.players, Stake) \in Seq(Op)
  BY EachInSeq, GameNumbers, LedgerAssumption DEF Locked, Unlocked
<1>2. <<>> \in Seq(Op) /\ {"forming", "open"} \subseteq Stage
  BY DEF Stage
<1>3. hs' \in [Handlers -> Handler] /\ EntitiesOK' /\ stage' \in [Games -> Stage]
  BY <1>1, <1>2, BeginKeeps DEF Assemble
<1> QED
  BY <1>3 DEF Assemble, LedgerInv, TypeOK

LEMMA FallbackKeeps ==
  ASSUME LedgerInv, NEW h \in Handlers, NEW g \in Games, Fallback(h, g)
  PROVE  LedgerInv'
<1> DEFINE f == Each("freeze", g.players, Stake)
           o == One("freeze", House, HouseStake(g))
           u == Each("unfreeze", g.players, Stake)
<1>1. f \in Seq(Op) /\ u \in Seq(Op)
  BY EachInSeq, GameNumbers, LedgerAssumption DEF Locked, Unlocked
<1>2. o \in Seq(Op)
  BY OneInSeq, GameNumbers DEF Accounts, Op, Locked, Unlocked
<1>3. f \o o \in Seq(Op)
  BY <1>1, <1>2
<1>4. {"forming", "open", "closed"} \subseteq Stage
  BY DEF Stage
<1>5. CASE wallet[House].bal < HouseStake(g)
  BY <1>4, <1>5 DEF Fallback, LedgerInv, TypeOK, EntitiesOK, EntityOK
<1>6. CASE ~(wallet[House].bal < HouseStake(g))
  <2>1. Begin(h, f \o o, u, g, "forming", "open")
    BY <1>6 DEF Fallback
  <2> HIDE DEF f, o, u
  <2>2. hs' \in [Handlers -> Handler] /\ EntitiesOK' /\ stage' \in [Games -> Stage]
    BY <1>1, <1>3, <1>4, <2>1, BeginKeeps
  <2> QED
    BY <2>2 DEF Fallback, LedgerInv, TypeOK
<1> QED
  BY <1>5, <1>6

LEMMA UnfundedInt ==
  ASSUME LedgerInv, NEW g \in Games
  PROVE  Unfunded(g) \in Int
<1>1. g.size \in Nat /\ Len(g.players) \in Nat /\ Stake \in Nat /\ HouseStake(g) \in Nat
  BY GameNumbers, LedgerAssumption DEF Game
<1>2. wallet[House] \in Wallet
  BY DEF LedgerInv, TypeOK, Accounts
<1>3. Taken(wallet[House], HouseStake(g)) \in Nat
  BY <1>1, <1>2, TakenFacts
<1>4. BotCount(g) \in Int
  BY <1>1 DEF BotCount
<1>5. \A a, b \in Int : a * b \in Int
  OBVIOUS
<1>6. Stake * BotCount(g) \in Int
  BY <1>1, <1>4, <1>5
<1> QED
  BY <1>3, <1>6 DEF Unfunded

LEMMA SettleKeeps ==
  ASSUME LedgerInv, NEW h \in Handlers, NEW g \in Games, NEW winner \in Accounts,
         Settle(h, g, winner)
  PROVE  LedgerInv'
<1>1. <<>> \in Seq(Op) /\ {"closing", "closed"} \subseteq Stage
  BY DEF Stage
<1>2. hs' \in [Handlers -> Handler] /\ EntitiesOK' /\ stage' \in [Games -> Stage]
  BY <1>1, SettlementInSeq, BeginKeeps DEF Settle
<1>3. made' \in Int
  BY UnfundedInt DEF Settle, LedgerInv, TypeOK
<1> QED
  BY <1>2, <1>3 DEF Settle, LedgerInv, TypeOK

LEMMA CancelKeeps ==
  ASSUME LedgerInv, NEW h \in Handlers, NEW g \in Games, Cancel(h, g)
  PROVE  LedgerInv'
<1>1. Each("refund", g.players, Stake) \in Seq(Op)
  BY EachInSeq, GameNumbers, LedgerAssumption DEF Locked, Unlocked
<1>2. <<>> \in Seq(Op) /\ {"closing", "closed"} \subseteq Stage
  BY DEF Stage
<1>3. hs' \in [Handlers -> Handler] /\ EntitiesOK' /\ stage' \in [Games -> Stage]
  BY <1>1, <1>2, BeginKeeps DEF Cancel
<1> QED
  BY <1>3 DEF Cancel, LedgerInv, TypeOK

LEMMA ResetFrozenKeeps ==
  ASSUME LedgerInv, NEW h \in Handlers, NEW u \in Users, ResetFrozen(h, u)
  PROVE  LedgerInv'
<1>1. One("reset", u, 0) \in Seq(Op)
  BY OneInSeq DEF Accounts, Op, Locked, Unlocked
<1>2. <<>> \in Seq(Op) /\ "closed" \in Stage
  BY DEF Stage
<1>3. hs' \in [Handlers -> Handler] /\ EntitiesOK' /\ stage' \in [Games -> Stage]
  BY <1>1, <1>2, BeginKeeps DEF ResetFrozen
<1>4. resets' \in Nat
  BY DEF ResetFrozen, LedgerInv, TypeOK
<1> QED
  BY <1>3, <1>4 DEF ResetFrozen, LedgerInv, TypeOK

LEMMA UpdateBalanceKeeps ==
  ASSUME LedgerInv, NEW h \in Handlers, NEW a \in Adjusted, NEW amt \in Adjustments,
         UpdateBalance(h, a, amt)
  PROVE  LedgerInv'
<1>1. One("adjust", a, amt) \in Seq(Op)
  BY OneInSeq, LedgerAssumption DEF Op
<1>2. <<>> \in Seq(Op) /\ "closed" \in Stage
  BY DEF Stage
<1>3. hs' \in [Handlers -> Handler] /\ EntitiesOK' /\ stage' \in [Games -> Stage]
  BY <1>1, <1>2, BeginKeeps DEF UpdateBalance
<1>4. adjusts' \in Nat
  BY DEF UpdateBalance, LedgerInv, TypeOK
<1> QED
  BY <1>3, <1>4 DEF UpdateBalance, LedgerInv, TypeOK

\* A call whose freeze failed goes on with what undoes it.
LEMMA UndoneIsHandler ==
  ASSUME NEW y \in Handler, NEW todo \in Seq(Op)
  PROVE  LET x == [y EXCEPT !.todo = todo, !.undo = <<>>, !.next = "closed"]
         IN  x \in Handler /\ x.copy = y.copy /\ x.seen = y.seen
<1>1. <<>> \in Seq(Op) /\ "closed" \in Stage
  BY DEF Stage
<1> QED
  BY <1>1 DEF Handler

LEMMA LockedOpKeeps ==
  ASSUME LedgerInv, NEW h \in Handlers, LockedOp(h)
  PROVE  LedgerInv'
<1> DEFINE op == Head(hs[h].todo)
           w  == wallet[op.who]
<1>1. hs[h].todo # <<>> /\ op.op \in Locked
  BY DEF LockedOp
<1>2. op \in Op /\ Rest(h, op) \in Handler /\ EntityOK(Rest(h, op))
  BY <1>1, RestGood
<1>3. op.who \in Accounts /\ op.amt \in Nat
  BY <1>1, <1>2 DEF Op, Locked
<1>4. w \in Wallet
  BY <1>3 DEF LedgerInv, TypeOK
<1>0. made' \in Int
  <2>1. made' \in {made, made + op.amt}
    BY DEF LockedOp
  <2> QED
    BY <1>3, <2>1 DEF LedgerInv, TypeOK
<1> HIDE DEF op, w
<1>5. CASE op.op = "freeze" /\ FreezeFails(w, op.amt)
  <2> DEFINE x == [hs[h] EXCEPT !.todo = hs[h].undo, !.undo = <<>>, !.next = "closed"]
  <2>1. hs' = [hs EXCEPT ![h] = x] /\ UNCHANGED wallet
    BY <1>5 DEF LockedOp, LedgerInv, TypeOK, op, w
  <2>2. hs[h] \in Handler /\ EntityOK(hs[h])
    BY DEF LedgerInv, TypeOK, EntitiesOK
  <2>3. x \in Handler /\ x.copy = hs[h].copy /\ x.seen = hs[h].seen
    <3>1. hs[h].undo \in Seq(Op)
      BY <2>2 DEF Handler
    <3> QED
      BY <2>2, <3>1, UndoneIsHandler
  <2>4. hs[h].copy = NoRow /\ hs[h].seen = NoRow
    BY <1>1, <2>2 DEF EntityOK, Locked, Unlocked, op
  <2>5. EntityOK(x)
    BY <2>3, <2>4 DEF EntityOK
  <2> HIDE DEF x
  <2>6. hs' \in [Handlers -> Handler] /\ EntitiesOK'
    BY <2>1, <2>3, <2>5, HandlerReplaced
  <2> QED
    BY <1>0, <2>1, <2>6 DEF LockedOp, LedgerInv, TypeOK
<1>6. CASE ~(op.op = "freeze" /\ FreezeFails(w, op.amt))
  <2> DEFINE v == CASE op.op = "freeze"   -> Freeze(w, op.amt)
                    [] op.op = "unfreeze" -> Unfreeze(w, op.amt)
                    [] op.op = "refund"   -> Refund(w, op.amt)
  <2>1. hs' = [hs EXCEPT ![h] = Rest(h, op)] /\ wallet' = [wallet EXCEPT ![op.who] = v]
    BY <1>6 DEF LockedOp, op, w
  <2>2. v \in Wallet
    BY <1>1, <1>3, <1>4, <1>6, FreezeInWallet, UnfreezeInWallet DEF Locked, op
  <2> HIDE DEF v
  <2>3. wallet' \in [Accounts -> Wallet]
    BY <2>1, <2>2 DEF LedgerInv, TypeOK
  <2>4. hs' \in [Handlers -> Handler] /\ EntitiesOK'
    BY <1>2, <2>1, HandlerReplaced
  <2> QED
    BY <1>0, <2>3, <2>4 DEF LockedOp, LedgerInv, TypeOK
<1> QED
  BY <1>5, <1>6

\* An entity is loaded for an adjustment only if it covers the adjustment.
LEMMA LoadKeeps ==
  ASSUME LedgerInv, NEW h \in Handlers, Load(h)
  PROVE  LedgerInv'
<1> DEFINE op == Head(hs[h].todo)
           w  == wallet[op.who]
           skip == \/ op.op = "reset" /\ w.frz = 0
                   \/ op.op = "adjust" /\ w.bal + op.amt < 0
           x == [hs[h] EXCEPT !.copy = w]
<1>1. /\ hs[h].todo # <<>> /\ op.op \in Unlocked /\ hs[h].copy = NoRow
      /\ hs' = [hs EXCEPT ![h] = IF skip THEN Rest(h, op) ELSE x]
  BY DEF Load, LedgerInv, TypeOK
<1>2. op \in Op /\ Rest(h, op) \in Handler /\ EntityOK(Rest(h, op))
  BY <1>1, RestGood
<1>3. op.who \in Accounts /\ op.amt \in Int /\ w \in Wallet
  <2>1. op.who \in Accounts /\ op.amt \in Int
    BY <1>2 DEF Op
  <2> QED
    BY <2>1 DEF LedgerInv, TypeOK
<1>4. hs[h] \in Handler /\ EntityOK(hs[h])
  BY DEF LedgerInv, TypeOK, EntitiesOK
<1>5. x \in Handler
  BY <1>3, <1>4 DEF Handler
<1>6. x.copy = w /\ x.todo = hs[h].todo /\ x.seen = hs[h].seen
  BY <1>4 DEF Handler
<1>7. hs[h].seen = NoRow
  BY <1>1, <1>4 DEF EntityOK
<1>8. ~skip => EntityOK(x)
  BY <1>1, <1>3, <1>6, <1>7 DEF EntityOK, Wallet
<1> HIDE DEF x, skip, op, w
<1>9. hs' \in [Handlers -> Handler] /\ EntitiesOK'
  BY <1>1, <1>2, <1>5, <1>8, HandlerReplaced
<1> QED
  BY <1>9 DEF Load, LedgerInv, TypeOK

LEMMA SelectKeeps ==
  ASSUME LedgerInv, NEW h \in Handlers, Select(h)
  PROVE  LedgerInv'
<1> DEFINE op == Head(hs[h].todo)
           x == [hs[h] EXCEPT !.seen = wallet[op.who]]
<1>1. hs[h] \in Handler /\ EntityOK(hs[h]) /\ hs[h].copy # NoRow
  BY DEF Select, LedgerInv, TypeOK, EntitiesOK
<1>2. hs[h].todo # <<>>
  BY <1>1 DEF EntityOK
<1>3. wallet[op.who] \in Wallet
  <2>1. op \in Op
    BY <1>2, RestGood
  <2>2. op.who \in Accounts
    BY <2>1 DEF Op
  <2> QED
    BY <2>2 DEF LedgerInv, TypeOK
<1>4. x \in Handler /\ x.copy = hs[h].copy /\ x.todo = hs[h].todo
  BY <1>1, <1>3 DEF Handler
<1>5. EntityOK(x)
  BY <1>1, <1>4 DEF EntityOK
<1>6. hs' = [hs EXCEPT ![h] = x]
  BY DEF Select, LedgerInv, TypeOK
<1> HIDE DEF x
<1>7. hs' \in [Handlers -> Handler] /\ EntitiesOK'
  BY <1>4, <1>5, <1>6, HandlerReplaced
<1> QED
  BY <1>7 DEF Select, LedgerInv, TypeOK

LEMMA SaveKeeps ==
  ASSUME LedgerInv, NEW h \in Handlers, Save(h)
  PROVE  LedgerInv'
<1> DEFINE op == Head(hs[h].todo)
           v  == Saved(Changed(op, hs[h].copy), hs[h].seen, wallet[op.who])
<1>1. hs[h] \in Handler /\ EntityOK(hs[h]) /\ hs[h].seen # NoRow /\ hs[h].copy # NoRow
  BY DEF Save, LedgerInv, TypeOK, EntitiesOK, EntityOK
<1>2. /\ hs[h].todo # <<>> /\ op.op \in Unlocked
      /\ op.op = "adjust" => hs[h].copy.bal + op.amt >= 0
  BY <1>1 DEF EntityOK
<1>3. op \in Op /\ Rest(h, op) \in Handler /\ EntityOK(Rest(h, op))
  BY <1>2, RestGood
<1>4. hs[h].copy \in Wallet /\ hs[h].seen \in Wallet
  BY <1>1 DEF Handler
<1>5. op.who \in Accounts /\ op.amt \in Int
  BY <1>3 DEF Op
<1>6. wallet[op.who] \in Wallet
  BY <1>5 DEF LedgerInv, TypeOK
<1>7. Changed(op, hs[h].copy) \in Wallet
  BY <1>2, <1>3, <1>4, ChangedInWallet
<1>8. v \in Wallet
  BY <1>4, <1>6, <1>7, SavedInWallet
<1>9. /\ wallet' = [wallet EXCEPT ![op.who] = v]
      /\ hs' = [hs EXCEPT ![h] = Rest(h, op)]
      /\ injected' = IF op.op = "adjust" THEN injected + op.amt ELSE injected
  BY DEF Save, LedgerInv, TypeOK
<1> HIDE DEF op, v
<1>10. wallet' \in [Accounts -> Wallet]
  BY <1>8, <1>9 DEF LedgerInv, TypeOK
<1>11. injected' \in Int
  BY <1>5, <1>9 DEF LedgerInv, TypeOK
<1>12. hs' \in [Handlers -> Handler] /\ EntitiesOK'
  BY <1>3, <1>9, HandlerReplaced
<1> QED
  BY <1>10, <1>11, <1>12 DEF Save, LedgerInv, TypeOK

LEMMA FinishKeeps ==
  ASSUME LedgerInv, NEW h \in Handlers, Finish(h)
  PROVE  LedgerInv'
<1>1. hs[h] \in Handler
  BY DEF LedgerInv, TypeOK
<1>2. hs[h].next \in Stage
  BY <1>1 DEF Handler
<1>3. stage' \in [Games -> Stage]
  BY <1>2 DEF Finish, LedgerInv, TypeOK
<1>4. hs' \in [Handlers -> Handler] /\ EntitiesOK'
  BY IdleInHandler, HandlerReplaced DEF Finish
<1> QED
  BY <1>3, <1>4 DEF Finish, LedgerInv, TypeOK

LEMMA RestartKeeps ==
  ASSUME LedgerInv, Restart
  PROVE  LedgerInv'
<1>1. wallet' \in [Accounts -> Wallet]
  <2>1. \A a \in Accounts : wallet[a] \in Wallet
    BY DEF LedgerInv, TypeOK
  <2>2. \A a \in Accounts : [bal |-> wallet[a].bal + wallet[a].frz, frz |-> 0] \in Wallet
    BY <2>1 DEF Wallet
  <2> QED
    BY <2>2 DEF Restart
<1>2. stage' \in [Games -> Stage]
  BY DEF Restart, LedgerInv, TypeOK, Stage
<1>3. hs' \in [Handlers -> Handler] /\ EntitiesOK'
  BY IdleInHandler DEF Restart, EntitiesOK
<1>4. restarts' \in Nat
  BY DEF Restart, LedgerInv, TypeOK
<1> QED
  BY <1>1, <1>2, <1>3, <1>4 DEF Restart, LedgerInv, TypeOK

-----------------------------------------------------------------------------
(* The theorem *)

LEMMA InitLedger == Init => LedgerInv
<1> SUFFICES ASSUME Init PROVE LedgerInv
  OBVIOUS
<1>1. wallet \in [Accounts -> Wallet]
  BY LedgerAssumption DEF Init, Wallet
<1>2. hs \in [Handlers -> Handler] /\ EntitiesOK
  BY IdleInHandler DEF Init, EntitiesOK
<1> QED
  BY <1>1, <1>2, LedgerAssumption DEF Init, LedgerInv, TypeOK, Stage

LEMMA NextLedger == LedgerInv /\ [Next]_vars => LedgerInv'
<1> SUFFICES ASSUME LedgerInv, [Next]_vars PROVE LedgerInv'
  OBVIOUS
<1>1. CASE \E h \in Handlers : Step(h)
  BY <1>1, LockedOpKeeps, LoadKeeps, SelectKeeps, SaveKeeps, FinishKeeps DEF Step
<1>2. CASE \E g \in Games : Enqueue(g)
  BY <1>2, EnqueueKeeps
<1>3. CASE \E h \in Handlers, g \in Games : Assemble(h, g) \/ Fallback(h, g) \/ Cancel(h, g)
  BY <1>3, AssembleKeeps, FallbackKeeps, CancelKeeps
<1>4. CASE \E h \in Handlers, g \in Games, winner \in Accounts : Settle(h, g, winner)
  BY <1>4, SettleKeeps
<1>5. CASE \E h \in Handlers, u \in Users : ResetFrozen(h, u)
  BY <1>5, ResetFrozenKeeps
<1>6. CASE \E h \in Handlers, a \in Adjusted, amt \in Adjustments : UpdateBalance(h, a, amt)
  BY <1>6, UpdateBalanceKeeps
<1>7. CASE Restart
  BY <1>7, RestartKeeps
<1>8. CASE UNCHANGED vars
  BY <1>8 DEF vars, LedgerInv, TypeOK, EntitiesOK, EntityOK
<1> QED
  BY <1>1, <1>2, <1>3, <1>4, <1>5, <1>6, <1>7, <1>8 DEF Next

\* No balance and no frozen amount is ever negative.
THEOREM NeverNegative == Spec => []TypeOK
<1>1. LedgerInv => TypeOK
  BY DEF LedgerInv
<1> QED
  BY <1>1, InitLedger, NextLedger, PTL DEF Spec

-----------------------------------------------------------------------------
(* Sums over finite sets *)

LEMMA SmallestSubset ==
  ASSUME NEW S, IsFiniteSet(S), NEW Bad, \A T \in Bad : T \subseteq S, Bad # {}
  PROVE  \E T \in Bad : \A U \in Bad : U \subseteq T => U = T
<1>1. IsWellFoundedOn(StrictSubsetOrdering(S), FiniteSubsetsOf(S))
  BY FS_StrictSubsetOrderingWellFounded
<1>2. Bad \subseteq FiniteSubsetsOf(S)
  BY FS_FiniteSubsetsOfFinite
<1>3. PICK T \in Bad : \A U \in Bad : ~(<<U, T>> \in StrictSubsetOrdering(S))
  BY <1>1, <1>2, WFMin
<1>4. \A U \in Bad : U \subseteq T => U = T
  BY <1>3 DEF StrictSubsetOrdering
<1> QED
  BY <1>4

Some(s) == CHOOSE x \in s : TRUE

\* g sums f over the subsets of S, one element after another.
Sums(f, S, g) ==
  g = [s \in SUBSET S |-> IF s = {} THEN 0 ELSE f[Some(s)] + g[s \ {Some(s)}]]

LEMMA SumDef ==
  ASSUME NEW f, NEW S
  PROVE  SumFunctionOnSet(f, S) = (CHOOSE g : Sums(f, S, g))[S]
BY DEF SumFunctionOnSet, FoldFunctionOnSet, MapThenFoldSet, Sums, Some

LEMMA SomeIn == \A s : s # {} => Some(s) \in s
BY DEF Some

\* Two such g agree where both are defined.
LEMMA SumsAgree ==
  ASSUME NEW f, NEW S, NEW T, NEW g, NEW k, Sums(f, S, g), Sums(f, T, k),
         NEW R, IsFiniteSet(R), R \subseteq S, R \subseteq T
  PROVE  g[R] = k[R]
<1> DEFINE Bad == {U \in SUBSET R : g[U] # k[U]}
<1> SUFFICES ASSUME Bad # {} PROVE FALSE
  OBVIOUS
<1>1. \A U \in Bad : U \subseteq R
  OBVIOUS
<1>2. PICK U \in Bad : \A V \in Bad : V \subseteq U => V = U
  <2> HIDE DEF Bad
  <2> QED
    BY <1>1, SmallestSubset
<1>3. U \in SUBSET S /\ U \in SUBSET T /\ U \subseteq R
  OBVIOUS
<1>4. /\ g[U] = IF U = {} THEN 0 ELSE f[Some(U)] + g[U \ {Some(U)}]
      /\ k[U] = IF U = {} THEN 0 ELSE f[Some(U)] + k[U \ {Some(U)}]
  BY <1>3 DEF Sums
<1>5. U # {}
  BY <1>4
<1>6. g[U \ {Some(U)}] = k[U \ {Some(U)}]
  BY <1>2, <1>3, <1>5, SomeIn
<1> QED
  BY <1>4, <1>5, <1>6

LEMMA SumsExist ==
  ASSUME NEW f, NEW S, IsFiniteSet(S)
  PROVE  \E g : Sums(f, S, g)
<1> DEFINE Bad == {T \in SUBSET S : ~(\E g : Sums(f, T, g))}
<1> SUFFICES ASSUME Bad # {} PROVE FALSE
  OBVIOUS
<1>1. \A U \in Bad : U \subseteq S
  OBVIOUS
<1>2. PICK T \in Bad : \A V \in Bad : V \subseteq T => V = T
  <2> HIDE DEF Bad
  <2> QED
    BY <1>1, SmallestSubset
<1>3. T \subseteq S /\ ~(\E g : Sums(f, T, g))
  OBVIOUS
<1> DEFINE G(s) == CHOOSE g : Sums(f, s, g)
<1>4. \A s \in SUBSET T : s # T => Sums(f, s, G(s))
  <2> TAKE s \in SUBSET T
  <2> HAVE s # T
  <2>1. \E g : Sums(f, s, g)
    BY <1>2, <1>3
  <2> QED
    BY <2>1
<1>5. \A s \in SUBSET T : IsFiniteSet(s)
  BY <1>3, FS_Subset
<1> DEFINE V(s) == IF s = {} THEN 0 ELSE f[Some(s)] + G(s \ {Some(s)})[s \ {Some(s)}]
           g == [s \in SUBSET T |-> V(s)]
<1>6. \A s \in SUBSET T : s # T => G(s)[s] = V(s)
  <2> TAKE s \in SUBSET T
  <2> HAVE s # T
  <2>1. Sums(f, s, G(s))
    BY <1>4
  <2> HIDE DEF G
  <2>2. G(s)[s] = IF s = {} THEN 0 ELSE f[Some(s)] + G(s)[s \ {Some(s)}]
    BY <2>1 DEF Sums
  <2>3. CASE s = {}
    BY <2>2, <2>3
  <2>4. CASE s # {}
    <3> DEFINE r == s \ {Some(s)}
    <3>1. r \in SUBSET T /\ r # T /\ r \subseteq s /\ Sums(f, r, G(r)) /\ IsFiniteSet(r)
      BY <2>4, <1>4, <1>5, SomeIn
    <3> HIDE DEF r
    <3>2. G(s)[r] = G(r)[r]
      BY <2>1, <3>1, SumsAgree
    <3> QED
      BY <2>2, <2>4, <3>2 DEF r
  <2> QED
    BY <2>3, <2>4
<1> HIDE DEF G
<1>7. \A s \in SUBSET T : s # {} => g[s \ {Some(s)}] = G(s \ {Some(s)})[s \ {Some(s)}]
  <2> TAKE s \in SUBSET T
  <2> HAVE s # {}
  <2> DEFINE r == s \ {Some(s)}
  <2>1. r \in SUBSET T /\ r # T
    BY SomeIn
  <2> HIDE DEF r
  <2>2. g[r] = V(r) /\ G(r)[r] = V(r)
    BY <2>1, <1>6
  <2> HIDE DEF g, V
  <2> QED
    BY <2>2 DEF r
<1>8. \A s \in SUBSET T : V(s) = IF s = {} THEN 0 ELSE f[Some(s)] + g[s \ {Some(s)}]
  <2> HIDE DEF g
  <2> QED
    BY <1>7
<1>9. Sums(f, T, g)
  <2>1. g = [s \in SUBSET T |-> IF s = {} THEN 0 ELSE f[Some(s)] + g[s \ {Some(s)}]]
    <3> DEFINE W(s) == IF s = {} THEN 0 ELSE f[Some(s)] + g[s \ {Some(s)}]
    <3>1. \A s \in SUBSET T : V(s) = W(s)
      BY <1>8
    <3> HIDE DEF V, W
    <3>2. [s \in SUBSET T |-> V(s)] = [s \in SUBSET T |-> W(s)]
      BY <3>1
    <3> QED
      BY <3>2 DEF W
  <2> HIDE DEF g
  <2> QED
    BY <2>1 DEF Sums
<1> HIDE DEF g
<1> QED
  BY <1>3, <1>9

LEMMA SumRec ==
  ASSUME NEW f, NEW S, IsFiniteSet(S)
  PROVE  SumFunctionOnSet(f, S) =
           IF S = {} THEN 0 ELSE f[Some(S)] + SumFunctionOnSet(f, S \ {Some(S)})
<1> DEFINE G(s) == CHOOSE g : Sums(f, s, g)
           r == S \ {Some(S)}
<1>1. \A s : SumFunctionOnSet(f, s) = G(s)[s]
  BY SumDef
<1>2. IsFiniteSet(r) /\ r \subseteq S
  BY FS_Subset
<1>3. Sums(f, S, G(S)) /\ Sums(f, r, G(r))
  BY <1>2, SumsExist
<1> HIDE DEF G
<1>4. G(S)[S] = IF S = {} THEN 0 ELSE f[Some(S)] + G(S)[r]
  BY <1>3 DEF Sums
<1>5. G(S)[r] = G(r)[r]
  <2> HIDE DEF r
  <2> QED
    BY <1>2, <1>3, SumsAgree
<1>6. SumFunctionOnSet(f, S) = G(S)[S] /\ SumFunctionOnSet(f, r) = G(r)[r]
  BY <1>1
<1> QED
  BY <1>4, <1>5, <1>6

LEMMA SumEmpty == \A f : SumFunctionOnSet(f, {}) = 0
BY SumRec, FS_EmptySet

LEMMA SumInt ==
  ASSUME NEW f, NEW S, IsFiniteSet(S), \A x \in S : f[x] \in Int
  PROVE  SumFunctionOnSet(f, S) \in Int
<1> DEFINE Bad == {T \in SUBSET S : SumFunctionOnSet(f, T) \notin Int}
<1> SUFFICES ASSUME Bad # {} PROVE FALSE
  OBVIOUS
<1>1. \A U \in Bad : U \subseteq S
  OBVIOUS
<1>2. PICK T \in Bad : \A V \in Bad : V \subseteq T => V = T
  <2> HIDE DEF Bad
  <2> QED
    BY <1>1, SmallestSubset
<1>3. IsFiniteSet(T)
  BY FS_Subset
<1>4. T # {}
  BY SumEmpty
<1>5. Some(T) \in T
  BY <1>4, SomeIn
<1>6. SumFunctionOnSet(f, T \ {Some(T)}) \in Int
  BY <1>2, <1>5
<1>7. SumFunctionOnSet(f, T) = f[Some(T)] + SumFunctionOnSet(f, T \ {Some(T)})
  BY <1>3, <1>4, SumRec
<1> QED
  BY <1>5, <1>6, <1>7

\* Any element may be the one that is added last.
LEMMA SumRemove ==
  ASSUME NEW f, NEW S, IsFiniteSet(S), \A y \in S : f[y] \in Int, NEW x \in S
  PROVE  SumFunctionOnSet(f, S) = f[x] + SumFunctionOnSet(f, S \ {x})
<1> DEFINE Sum(s) == SumFunctionOnSet(f, s)
           Bad == {T \in SUBSET S : \E z \in T : Sum(T) # f[z] + Sum(T \ {z})}
<1> SUFFICES ASSUME Bad # {} PROVE FALSE
  OBVIOUS
<1>1. \A U \in Bad : U \subseteq S
  OBVIOUS
<1>2. PICK T \in Bad : \A V \in Bad : V \subseteq T => V = T
  <2> HIDE DEF Bad
  <2> QED
    BY <1>1, SmallestSubset
<1>3. T \subseteq S /\ IsFiniteSet(T)
  BY FS_Subset
<1>4. PICK z \in T : Sum(T) # f[z] + Sum(T \ {z})
  OBVIOUS
<1> DEFINE c == Some(T)
<1>5. c \in T
  BY <1>4, SomeIn
<1>6. \A U : U \subseteq T => IsFiniteSet(U)
  BY <1>3, FS_Subset
<1>7. Sum(T) = f[c] + Sum(T \ {c})
  BY <1>3, <1>4, SumRec
<1> HIDE DEF c
<1>8. z # c
  BY <1>4, <1>7
<1>9. T \ {c} \notin Bad /\ T \ {z} \notin Bad
  BY <1>2, <1>4, <1>5
<1>10. Sum(T \ {c}) = f[z] + Sum((T \ {c}) \ {z})
  BY <1>3, <1>4, <1>8, <1>9
<1>11. Sum(T \ {z}) = f[c] + Sum((T \ {z}) \ {c})
  BY <1>3, <1>5, <1>8, <1>9
<1>12. (T \ {c}) \ {z} = (T \ {z}) \ {c}
  OBVIOUS
<1>13. f[c] \in Int /\ f[z] \in Int
  BY <1>3, <1>4, <1>5
<1> DEFINE d == (T \ {z}) \ {c}
<1>14. Sum(d) \in Int
  <2>1. IsFiniteSet(d) /\ \A y \in d : f[y] \in Int
    BY <1>3, <1>6
  <2> HIDE DEF d
  <2> QED
    BY <2>1, SumInt
<1>15. Sum(T) = f[c] + (f[z] + Sum(d)) /\ f[z] + Sum(T \ {z}) = f[z] + (f[c] + Sum(d))
  BY <1>7, <1>10, <1>11, <1>12
<1> HIDE DEF Sum, d
<1> QED
  BY <1>4, <1>13, <1>14, <1>15

\* The sum depends on the values of the elements only.
LEMMA SumSame ==
  ASSUME NEW f, NEW k, NEW S, IsFiniteSet(S), \A y \in S : f[y] = k[y]
  PROVE  SumFunctionOnSet(f, S) = SumFunctionOnSet(k, S)
<1> DEFINE Bad == {T \in SUBSET S : SumFunctionOnSet(f, T) # SumFunctionOnSet(k, T)}
<1> SUFFICES ASSUME Bad # {} PROVE FALSE
  OBVIOUS
<1>1. \A U \in Bad : U \subseteq S
  OBVIOUS
<1>2. PICK T \in Bad : \A V \in Bad : V \subseteq T => V = T
  <2> HIDE DEF Bad
  <2> QED
    BY <1>1, SmallestSubset
<1>3. IsFiniteSet(T)
  BY FS_Subset
<1>4. T # {}
  BY SumEmpty
<1>5. Some(T) \in T
  BY <1>4, SomeIn
<1>6. SumFunctionOnSet(f, T \ {Some(T)}) = SumFunctionOnSet(k, T \ {Some(T)})
  BY <1>2, <1>5
<1>7. /\ SumFunctionOnSet(f, T) = f[Some(T)] + SumFunctionOnSet(f, T \ {Some(T)})
      /\ SumFunctionOnSet(k, T) = k[Some(T)] + SumFunctionOnSet(k, T \ {Some(T)})
  BY <1>3, <1>4, SumRec
<1> QED
  BY <1>5, <1>6, <1>7

\* One value changes: so does the sum, by as much.
LEMMA SumChange ==
  ASSUME NEW f, NEW k, NEW S, IsFiniteSet(S),
         \A y \in S : f[y] \in Int /\ k[y] \in Int,
         NEW x \in S, \A y \in S \ {x} : f[y] = k[y]
  PROVE  /\ SumFunctionOnSet(f, S) \in Int
         /\ SumFunctionOnSet(k, S) = SumFunctionOnSet(f, S) + k[x] - f[x]
<1> DEFINE R == S \ {x}
<1>1. IsFiniteSet(R) /\ \A y \in R : f[y] \in Int
  BY FS_Subset
<1>2. SumFunctionOnSet(f, S) = f[x] + SumFunctionOnSet(f, R)
  BY SumRemove
<1>3. SumFunctionOnSet(k, S) = k[x] + SumFunctionOnSet(k, R)
  BY SumRemove
<1>4. SumFunctionOnSet(f, R) = SumFunctionOnSet(k, R)
  <2> HIDE DEF R
  <2>1. \A y \in R : f[y] = k[y]
    BY DEF R
  <2> QED
    BY <1>1, <2>1, SumSame
<1>5. SumFunctionOnSet(f, R) \in Int
  <2> HIDE DEF R
  <2> QED
    BY <1>1, SumInt
<1> QED
  BY <1>2, <1>3, <1>4, <1>5

LEMMA SumConstant ==
  ASSUME NEW f, NEW S, IsFiniteSet(S), NEW c \in Int, \A y \in S : f[y] = c
  PROVE  SumFunctionOnSet(f, S) = c * Cardinality(S)
<1> DEFINE Bad == {T \in SUBSET S : SumFunctionOnSet(f, T) # c * Cardinality(T)}
<1> SUFFICES ASSUME Bad # {} PROVE FALSE
  OBVIOUS
<1>1. \A U \in Bad : U \subseteq S
  OBVIOUS
<1>2. PICK T \in Bad : \A V \in Bad : V \subseteq T => V = T
  <2> HIDE DEF Bad
  <2> QED
    BY <1>1, SmallestSubset
<1>3. IsFiniteSet(T)
  BY FS_Subset
<1>4. T # {}
  <2>1. Cardinality({}) = 0 /\ c * 0 = 0
    BY FS_EmptySet
  <2> QED
    BY <2>1, SumEmpty
<1>5. Some(T) \in T
  BY <1>4, SomeIn
<1> DEFINE R == T \ {Some(T)}
<1>6. SumFunctionOnSet(f, R) = c * Cardinality(R)
  BY <1>2, <1>5
<1>7. SumFunctionOnSet(f, T) = c + SumFunctionOnSet(f, R)
  BY <1>3, <1>4, <1>5, SumRec
<1>8. Cardinality(R) = Cardinality(T) - 1 /\ Cardinality(T) \in Nat
  BY <1>3, <1>5, FS_RemoveElement, FS_CardinalityType
<1>9. \A a, b \in Int : a * (b - 1) + a = a * b
  OBVIOUS
<1>10. c * Cardinality(R) + c = c * Cardinality(T)
  BY <1>8, <1>9
<1>11. c * Cardinality(R) \in Int
  BY <1>8
<1> QED
  BY <1>6, <1>7, <1>10, <1>11

\* A sum of natural numbers is at least any of them.
LEMMA SumNat ==
  ASSUME NEW f, NEW S, IsFiniteSet(S), \A y \in S : f[y] \in Nat
  PROVE  SumFunctionOnSet(f, S) \in Nat
<1> DEFINE Bad == {T \in SUBSET S : SumFunctionOnSet(f, T) \notin Nat}
<1> SUFFICES ASSUME Bad # {} PROVE FALSE
  OBVIOUS
<1>1. \A U \in Bad : U \subseteq S
  OBVIOUS
<1>2. PICK T \in Bad : \A V \in Bad : V \subseteq T => V = T
  <2> HIDE DEF Bad
  <2> QED
    BY <1>1, SmallestSubset
<1>3. IsFiniteSet(T)
  BY FS_Subset
<1>4. T # {}
  BY SumEmpty
<1>5. Some(T) \in T
  BY <1>4, SomeIn
<1>6. SumFunctionOnSet(f, T \ {Some(T)}) \in Nat
  BY <1>2, <1>5
<1>7. SumFunctionOnSet(f, T) = f[Some(T)] + SumFunctionOnSet(f, T \ {Some(T)})
  BY <1>3, <1>4, SumRec
<1> QED
  BY <1>5, <1>6, <1>7

LEMMA SumBoundsEach ==
  ASSUME NEW f, NEW S, IsFiniteSet(S), \A y \in S : f[y] \in Nat, NEW x \in S
  PROVE  f[x] <= SumFunctionOnSet(f, S)
<1> DEFINE R == S \ {x}
<1>1. IsFiniteSet(R) /\ \A y \in R : f[y] \in Nat
  BY FS_Subset
<1>2. SumFunctionOnSet(f, S) = f[x] + SumFunctionOnSet(f, R)
  BY SumRemove
<1>3. SumFunctionOnSet(f, R) \in Nat
  <2> HIDE DEF R
  <2> QED
    BY <1>1, SumNat
<1> QED
  BY <1>2, <1>3

-----------------------------------------------------------------------------
(* The invariant of the wallets while one call runs at a time *)

(* What the theorems assume *)

\* Calls do not overlap, the server is not restarted, and nobody uses the
\* admin's reset-frozen: each of these breaks the discipline (see README).
OneCall(h) == Handlers = {h} /\ MaxRestarts = 0 /\ ~AdminResets

\* Every stake is put up by somebody: the players of an assembled match are as
\* many as its tickets say, and no admin changes a balance that a fallback is
\* about to freeze.
StakedGames ==
  \A g \in Games :
    /\ g.kind = "assembled" => Len(g.players) = g.size
    /\ g.kind = "fallback" => PlayersOf(g) \cap Adjusted = {}

FinitelyMany == IsFiniteSet(Users) /\ IsFiniteSet(Games)

(* The call *)

\* The operations that move a stake between a balance, frozen and the pot.
Moving == {"freeze", "unfreeze", "refund", "consume"}

\* An operation of one of the kinds on the wallet of a is still to be done.
Awaits(hd, a, kinds) == \E i \in 1 .. Len(hd.todo) : hd.todo[i].who = a /\ hd.todo[i].op \in kinds

\* The operations that end a frozen stake.
Returning == {"unfreeze", "refund", "consume"}

\* The stake of a in g is frozen: the match is open, or the call that forms it
\* has come past a, or the call that ends it or undoes the forming has not yet.
Frozen(hd, g, a) ==
  \/ stage[g] = "open"
  \/ /\ stage[g] \in {"forming", "closing"}
     /\ IF hd.next = "open" THEN ~Awaits(hd, a, {"freeze"}) ELSE Awaits(hd, a, Returning)

\* The operation moves the stake of a player of g, or what the house puts up.
StakeOp(g, op) ==
  \/ op.op \in Moving /\ op.who \in PlayersOf(g) /\ op.amt = Stake
  \/ /\ op.op \in {"freeze", "consume"} /\ op.who = House /\ op.amt = HouseStake(g)
     /\ op.op = "freeze" => g.kind = "fallback"
     /\ BotCount(g) > 0

Distinct(ops) == \A i, j \in 1 .. Len(ops) :
  ops[i].op \in Moving /\ ops[j].op \in Moving /\ ops[i].who = ops[j].who => i = j

\* To be undone, of an assembled match, is what is frozen; of a fallback, the
\* stake of its player, frozen or not.
UndoOK(hd, g) ==
  /\ \A i \in 1 .. Len(hd.undo) :
       hd.undo[i].op = "unfreeze" /\ hd.undo[i].who \in PlayersOf(g) /\ hd.undo[i].amt = Stake
  /\ Distinct(hd.undo)
  /\ \A u \in PlayersOf(g) :
       (\E i \in 1 .. Len(hd.undo) : hd.undo[i].who = u)
         <=> (g.kind = "fallback" \/ ~Awaits(hd, u, {"freeze"}))

\* A call on g forms it, undoes that, or ends it.
GameCallOK(hd, g) ==
  /\ \A i \in 1 .. Len(hd.todo) : hd.todo[i].op \in Moving => StakeOp(g, hd.todo[i])
  /\ Distinct(hd.todo)
  /\ \/ /\ stage[g] = "forming" /\ hd.next = "open"
        /\ \A i \in 1 .. Len(hd.todo) :
             hd.todo[i].op = "freeze" /\ (hd.todo[i].who = House => i = Len(hd.todo))
        /\ UndoOK(hd, g)
     \/ /\ stage[g] = "forming" /\ hd.next = "closed"
        /\ \A i \in 1 .. Len(hd.todo) : hd.todo[i].op = "unfreeze"
     \/ /\ stage[g] = "closing" /\ hd.next = "closed"
        /\ \A i \in 1 .. Len(hd.todo) : hd.todo[i].op \in {"refund", "consume", "credit"}

\* A call on no match changes a balance, or resets a wallet without anything frozen.
OtherCallOK(hd) ==
  /\ Len(hd.todo) <= 1
  /\ \A i \in 1 .. Len(hd.todo) :
       \/ hd.todo[i].op = "adjust" /\ hd.todo[i].who \in Adjusted
       \/ hd.todo[i].op = "reset" /\ hd.todo[i].who \in Users /\ wallet[hd.todo[i].who].frz = 0

CallOK(hd) ==
  /\ \A g \in Games : stage[g] \in {"forming", "closing"} <=> hd.game = g
  /\ ~hd.busy => hd.todo = <<>> /\ hd.game = NoGame
  /\ \A g \in Games : hd.game = g => GameCallOK(hd, g)
  /\ hd.game = NoGame => OtherCallOK(hd)

\* What a call has loaded is still the row.
Fresh(hd) ==
  /\ hd.copy # NoRow => hd.copy = wallet[hd.todo[1].who]
  /\ hd.seen # NoRow => hd.seen = wallet[hd.todo[1].who]

EngagedStage == {"queued", "forming", "open", "closing"}

OneGameEach ==
  \A g1, g2 \in Games : \A u \in PlayersOf(g1) \cap PlayersOf(g2) :
    stage[g1] \in EngagedStage /\ stage[g2] \in EngagedStage => g1 = g2

\* The stake of a fallback's player is to be returned, frozen or not; it was not if
\* an admin has taken the points that the player had in the queue.
Unfrozen(hd, u) ==
  /\ u \in Adjusted
  /\ \E g \in Games : /\ g.kind = "fallback" /\ u \in PlayersOf(g)
                      /\ stage[g] = "forming" /\ hd.next = "closed" /\ Awaits(hd, u, {"unfreeze"})

\* A user has one stake frozen, or none.
UserStakes(hd) ==
  \A u \in Users :
    \/ wallet[u].frz = IF \E g \in Games : u \in PlayersOf(g) /\ Frozen(hd, g, u) THEN Stake ELSE 0
    \/ wallet[u].frz = 0 /\ Unfrozen(hd, u)

\* What the house has frozen for each match; more may be frozen in its wallet,
\* since a cancelled match returns nothing to the house.
HeldInGame(hd) ==
  [g \in Games |-> IF g.kind = "fallback" /\ Frozen(hd, g, House) THEN HouseStake(g) ELSE 0]

HouseHeld(hd) == SumFunctionOnSet(HeldInGame(hd), Games)

HouseStakes(hd) == HouseHeld(hd) <= wallet[House].frz

\* Until it is frozen, the player of a fallback can afford the stake, unless an admin
\* changes the balance.
FreezeCovered(hd) ==
  \A g \in Games : \A u \in PlayersOf(g) \ Adjusted :
    /\ g.kind = "fallback"
    /\ \/ stage[g] = "queued"
       \/ stage[g] = "forming" /\ hd.next = "open" /\ Awaits(hd, u, {"freeze"})
    => wallet[u].bal >= Stake

(* The points *)

\* What there should be.
PointsDue == InitialPoints + injected + made

\* What the unfreeze that comes next pays out without its being frozen.
Owed(hd) ==
  IF hd.todo # <<>> /\ hd.todo[1].op = "unfreeze"
  THEN hd.todo[1].amt - Taken(wallet[hd.todo[1].who], hd.todo[1].amt) ELSE 0

\* What the first k operations of a settlement have taken out of the wallets, and
\* the x for bots that made counts at once.
Spent(g, k, x) ==
  LET n == Len(g.players)
      b == IF BotCount(g) > 0 THEN 1 ELSE 0
  IN  IF k <= n THEN Stake * k + x
      ELSE IF k = n + b THEN Pot(Stake, g.size)
      ELSE IF k = n + b + 1 THEN Fee(Pot(Stake, g.size))
      ELSE 0

\* The call has done k operations of the settlement of g won by w.
SettlingAt(hd, g, w, k) ==
  LET all == Settlement(g, w)
  IN  /\ k \in 0 .. Len(all) 
      /\ Len(hd.todo) = Len(all) - k
      /\ \A i \in 1 .. Len(hd.todo) : hd.todo[i] = all[k + i]

\* The points are all in the wallets, but for what a settlement has spent so far.
PointsOK(hd) ==
  \/ /\ \A i \in 1 .. Len(hd.todo) : hd.todo[i].op \notin {"consume", "credit"}
     /\ AllPoints + Owed(hd) = PointsDue
  \/ /\ hd.game \in Games
     /\ stage[hd.game] = "closing"
     /\ \E w \in Accounts : \E k \in 0 .. Len(Settlement(hd.game, w)) :
          /\ SettlingAt(hd, hd.game, w, k)
          /\ AllPoints + Spent(hd.game, k, Unfunded(hd.game)) = PointsDue

\* Where every stake is put up, it is there when it is taken, and no points are made.
PutUp(hd) == HouseStakes(hd) /\ made = 0

SerialInvOf(hd) ==
  /\ Fresh(hd)
  /\ CallOK(hd)
  /\ OneGameEach
  /\ UserStakes(hd)
  /\ FreezeCovered(hd)
  /\ PointsOK(hd)
  /\ StakedGames => PutUp(hd)

-----------------------------------------------------------------------------
(* The list of a call without its first operation *)

LEMMA HandlerFields ==
  ASSUME NEW hd \in Handler
  PROVE  /\ hd.todo \in Seq(Op) /\ hd.undo \in Seq(Op)
         /\ hd.copy \in Wallet \cup {NoRow} /\ hd.seen \in Wallet \cup {NoRow}
         /\ hd.game \in Games \cup {NoGame} /\ hd.next \in Stage /\ hd.busy \in BOOLEAN
BY DEF Handler

LEMMA TailFacts ==
  ASSUME NEW S, NEW s \in Seq(S), s # <<>>
  PROVE  /\ Len(s) \in Nat \ {0} /\ Head(s) = s[1] /\ Head(s) \in S
         /\ Tail(s) \in Seq(S) /\ Len(Tail(s)) = Len(s) - 1
         /\ \A i \in 1 .. Len(s) - 1 : i + 1 \in 1 .. Len(s) /\ Tail(s)[i] = s[i + 1]
OBVIOUS

\* After its first operation a call awaits what it awaited, without that.
LEMMA AwaitsTail ==
  ASSUME NEW hd, hd.todo \in Seq(Op), hd.todo # <<>>, Distinct(hd.todo),
         NEW hd2, hd2.todo = Tail(hd.todo),
         NEW a, NEW kinds, kinds \subseteq Moving
  PROVE  Awaits(hd2, a, kinds) <=>
           Awaits(hd, a, kinds) /\ ~(hd.todo[1].who = a /\ hd.todo[1].op \in kinds)
<1> DEFINE s == hd.todo
           n == Len(s)
<1>1. /\ n \in Nat \ {0} /\ Len(Tail(s)) = n - 1
      /\ \A i \in 1 .. n - 1 : i + 1 \in 1 .. n /\ Tail(s)[i] = s[i + 1]
  BY TailFacts
<1>2. ASSUME Awaits(hd2, a, kinds)
      PROVE  Awaits(hd, a, kinds) /\ ~(s[1].who = a /\ s[1].op \in kinds)
  <2>1. PICK i \in 1 .. n - 1 : s[i + 1].who = a /\ s[i + 1].op \in kinds
    BY <1>1, <1>2 DEF Awaits
  <2>2. i + 1 \in 1 .. n /\ 1 \in 1 .. n /\ i + 1 # 1
    BY <1>1
  <2>3. ~(s[1].who = a /\ s[1].op \in kinds)
    BY <2>1, <2>2 DEF Distinct
  <2> QED
    BY <2>1, <2>2, <2>3 DEF Awaits
<1>3. ASSUME Awaits(hd, a, kinds), ~(s[1].who = a /\ s[1].op \in kinds)
      PROVE  Awaits(hd2, a, kinds)
  <2>1. PICK i \in 1 .. n : s[i].who = a /\ s[i].op \in kinds
    BY <1>3 DEF Awaits
  <2>2. i # 1
    BY <1>3, <2>1
  <2>3. i - 1 \in 1 .. n - 1 /\ (i - 1) + 1 = i
    BY <1>1, <2>2
  <2>4. Tail(s)[i - 1] = s[i]
    BY <1>1, <2>3
  <2> QED
    BY <1>1, <2>1, <2>3, <2>4 DEF Awaits
<1> QED
  BY <1>2, <1>3

LEMMA DistinctTail ==
  ASSUME NEW s \in Seq(Op), s # <<>>, Distinct(s)
  PROVE  Distinct(Tail(s))
<1> DEFINE n == Len(s)
<1>1. /\ n \in Nat \ {0} /\ Len(Tail(s)) = n - 1
      /\ \A i \in 1 .. n - 1 : i + 1 \in 1 .. n /\ Tail(s)[i] = s[i + 1]
  BY TailFacts
<1>2. \A i, j \in 1 .. n - 1 : i + 1 = j + 1 => i = j
  BY <1>1
<1> HIDE DEF n
<1> QED
  BY <1>1, <1>2 DEF Distinct, n

\* What was true of all operations is of those left.
LEMMA FirstAwaited ==
  ASSUME NEW hd, hd.todo \in Seq(Op), hd.todo # <<>>
  PROVE  1 \in 1 .. Len(hd.todo) /\ Awaits(hd, hd.todo[1].who, {hd.todo[1].op})
BY TailFacts DEF Awaits

-----------------------------------------------------------------------------
(* The steps of a call on the wallets *)

\* What an operation makes of a wallet when it is done.
After(op, w) ==
  CASE op.op = "freeze"   -> Freeze(w, op.amt)
    [] op.op = "unfreeze" -> Unfreeze(w, op.amt)
    [] op.op = "refund"   -> Refund(w, op.amt)
    [] op.op \in Unlocked -> Changed(op, w)

\* The steps of a call on the wallets: it has done the first of its operations;
\* a freeze has failed; it has read the row; it leaves an adjustment.
OpDone(h) ==
  LET op == hs[h].todo[1]
  IN  /\ hs' = [hs EXCEPT ![h] = Rest(h, op)]
      /\ wallet' = [wallet EXCEPT ![op.who] = After(op, wallet[op.who])]
      /\ injected' = IF op.op = "adjust" THEN injected + op.amt ELSE injected
      /\ made' = made
      /\ op.op = "freeze" => wallet[op.who].bal >= op.amt

FreezeFailed(h) ==
  LET op == hs[h].todo[1]
  IN  /\ op.op = "freeze" /\ wallet[op.who].bal < op.amt
      /\ hs' = [hs EXCEPT ![h] = [hs[h] EXCEPT !.todo = hs[h].undo, !.undo = <<>>, !.next = "closed"]]
      /\ UNCHANGED <<wallet, injected>>
      /\ made' = IF Undoes(hs[h], op.who) THEN made + op.amt ELSE made

RowRead(h) ==
  /\ \/ hs' = [hs EXCEPT ![h] = [hs[h] EXCEPT !.copy = wallet[hs[h].todo[1].who]]]
     \/ hs' = [hs EXCEPT ![h] = [hs[h] EXCEPT !.seen = wallet[hs[h].todo[1].who]]]
  /\ UNCHANGED <<wallet, injected, made>>

AdjustRefused(h) ==
  LET op == hs[h].todo[1]
  IN  /\ op.op = "adjust"
      /\ hs' = [hs EXCEPT ![h] = Rest(h, op)]
      /\ UNCHANGED <<wallet, injected, made>>

WalletSteps(h) ==
  /\ hs[h].todo # <<>>
  /\ OpDone(h) \/ FreezeFailed(h) \/ RowRead(h) \/ AdjustRefused(h)
  /\ UNCHANGED <<stage, adjusts, resets, restarts>>

LEMMA HeadOp ==
  ASSUME LedgerInv, NEW h \in Handlers, hs[h].todo # <<>>
  PROVE  /\ Head(hs[h].todo) = hs[h].todo[1]
         /\ hs[h].todo[1] \in Op
         /\ hs[h].todo[1].op \in Locked \cup Unlocked
         /\ hs[h].todo[1].who \in Accounts
         /\ hs[h].todo[1].amt \in Int
         /\ hs[h].todo[1].op # "adjust" => hs[h].todo[1].amt \in Nat
         /\ wallet[hs[h].todo[1].who] \in Wallet
<1>1. hs[h].todo \in Seq(Op)
  BY DEF LedgerInv, TypeOK, Handler
<1>2. Head(hs[h].todo) = hs[h].todo[1] /\ hs[h].todo[1] \in Op
  BY <1>1, TailFacts
<1> DEFINE op == hs[h].todo[1]
<1> HIDE DEF op
<1>3. /\ op.op \in Locked \cup Unlocked /\ op.who \in Accounts /\ op.amt \in Int
      /\ op.op # "adjust" => op.amt \in Nat
  <2>1. op \in Op
    BY <1>2 DEF op
  <2> QED
    BY <2>1 DEF Op, Unlocked
<1>4. wallet[op.who] \in Wallet
  BY <1>3 DEF LedgerInv, TypeOK
<1> QED
  BY <1>2, <1>3, <1>4 DEF op

LEMMA SavedFresh ==
  ASSUME NEW w \in Wallet, NEW v \in Wallet
  PROVE  Saved(v, w, w) = v
BY DEF Wallet, Saved

\* A wallet written with what it was.
LEMMA NothingWritten ==
  ASSUME LedgerInv, NEW a \in Accounts
  PROVE  wallet = [wallet EXCEPT ![a] = wallet[a]]
BY DEF LedgerInv, TypeOK

LEMMA StepsOfCall ==
  ASSUME LedgerInv, NEW h \in Handlers, Fresh(hs[h]),
         LockedOp(h) \/ Load(h) \/ Select(h) \/ Save(h)
  PROVE  WalletSteps(h)
<1> DEFINE op == hs[h].todo[1]
           w  == wallet[op.who]
<1>1. hs[h] \in Handler /\ EntityOK(hs[h])
  BY DEF LedgerInv, TypeOK, EntitiesOK
<1>2. hs \in [Handlers -> Handler]
  BY DEF LedgerInv, TypeOK
<1>3. hs[h].todo # <<>>
  BY <1>1 DEF LockedOp, Load, Select, Save, EntityOK
<1>4. Head(hs[h].todo) = op
  BY <1>3, HeadOp
<1>5. op \in Op /\ op.op \in Locked \cup Unlocked /\ op.who \in Accounts /\ w \in Wallet
      /\ op.amt \in Int
  BY <1>3, HeadOp
<1>6. CASE LockedOp(h)
  <2>1. op.op \in Locked
    BY <1>4, <1>6 DEF LockedOp
  <2>2. CASE op.op = "freeze" /\ FreezeFails(w, op.amt)
    <3>1. FreezeFailed(h)
      BY <1>4, <1>6, <2>2 DEF LockedOp, FreezeFailed, FreezeFails
    <3> QED
      BY <1>3, <1>6, <3>1 DEF LockedOp, WalletSteps
  <2>3. CASE ~(op.op = "freeze" /\ FreezeFails(w, op.amt))
    <3> HIDE DEF op, w
    <3>1. After(op, w) = CASE op.op = "freeze"   -> Freeze(w, op.amt)
                           [] op.op = "unfreeze" -> Unfreeze(w, op.amt)
                           [] op.op = "refund"   -> Refund(w, op.amt)
      BY <2>1 DEF After, Locked
    <3>2. op.op = "freeze" => w.bal >= op.amt
      BY <1>5, <2>3 DEF FreezeFails, Wallet
    <3>3. op.op # "adjust"
      BY <2>1 DEF Locked
    <3>4. hs' = [hs EXCEPT ![h] = Rest(h, op)] /\ wallet' = [wallet EXCEPT ![op.who] = After(op, w)]
          /\ UNCHANGED <<injected, made>>
      BY <1>4, <1>6, <2>3, <3>1 DEF LockedOp, w
    <3>5. OpDone(h)
      BY <3>2, <3>3, <3>4 DEF OpDone, op, w
    <3> QED
      BY <1>3, <1>6, <3>5 DEF LockedOp, WalletSteps
  <2> QED
    BY <2>2, <2>3
<1>7. CASE Load(h)
  <2>1. op.op \in Unlocked /\ UNCHANGED <<wallet, stage, adjusts, resets, restarts, injected, made>>
    BY <1>4, <1>7 DEF Load
  <2>2. CASE op.op = "reset" /\ w.frz = 0
    <3>1. hs' = [hs EXCEPT ![h] = Rest(h, op)]
      BY <1>4, <1>7, <2>2 DEF Load
    <3>2. After(op, w) = w
      <4> HIDE DEF op, w
      <4>1. After(op, w) = [bal |-> w.bal + w.frz, frz |-> 0]
        BY <2>2 DEF After, Changed, Unlocked
      <4> QED
        BY <1>5, <2>2, <4>1 DEF Wallet
    <3>3. wallet' = [wallet EXCEPT ![op.who] = w]
      BY <1>5, <2>1, NothingWritten
    <3>4. OpDone(h)
      <4> HIDE DEF op, w
      <4>1. wallet' = [wallet EXCEPT ![op.who] = After(op, wallet[op.who])]
        BY <3>2, <3>3 DEF w
      <4> QED
        BY <2>1, <2>2, <3>1, <4>1 DEF OpDone, op
    <3> QED
      BY <1>3, <2>1, <3>4 DEF WalletSteps
  <2>3. CASE op.op = "adjust" /\ w.bal + op.amt < 0
    <3>1. hs' = [hs EXCEPT ![h] = Rest(h, op)]
      BY <1>4, <1>7, <2>3 DEF Load
    <3>2. AdjustRefused(h)
      BY <2>1, <2>3, <3>1 DEF AdjustRefused
    <3> QED
      BY <1>3, <2>1, <3>2 DEF WalletSteps
  <2>4. CASE ~(op.op = "reset" /\ w.frz = 0) /\ ~(op.op = "adjust" /\ w.bal + op.amt < 0)
    <3>1. hs' = [hs EXCEPT ![h] = [hs[h] EXCEPT !.copy = w]]
      BY <1>2, <1>4, <1>7, <2>4 DEF Load
    <3>2. RowRead(h)
      BY <2>1, <3>1 DEF RowRead
    <3> QED
      BY <1>3, <2>1, <3>2 DEF WalletSteps
  <2> QED
    BY <2>2, <2>3, <2>4
<1>8. CASE Select(h)
  <2>1. hs' = [hs EXCEPT ![h] = [hs[h] EXCEPT !.seen = w]]
    BY <1>2, <1>4, <1>8 DEF Select
  <2> QED
    BY <1>3, <1>8, <2>1 DEF Select, WalletSteps, RowRead
<1>9. CASE Save(h)
  <2>1. hs[h].seen # NoRow /\ hs[h].copy # NoRow
    BY <1>1, <1>9 DEF Save, EntityOK
  <2>2. hs[h].copy = w /\ hs[h].seen = w
    BY <2>1 DEF Fresh
  <2>3. op.op \in Unlocked /\ (op.op = "adjust" => w.bal + op.amt >= 0)
    BY <1>1, <1>4, <2>1, <2>2 DEF EntityOK
  <2>4. Changed(op, w) \in Wallet
    <3> HIDE DEF op, w
    <3> QED
      BY <1>5, <2>3, ChangedInWallet
  <2>5. Saved(Changed(op, hs[h].copy), hs[h].seen, w) = Changed(op, w)
    BY <1>5, <2>2, <2>4, SavedFresh
  <2>6. After(op, w) = Changed(op, w) /\ op.op # "freeze"
    <3> HIDE DEF op, w
    <3> QED
      BY <2>3 DEF After, Unlocked
  <2>7. wallet' = [wallet EXCEPT ![op.who] = Saved(Changed(op, hs[h].copy), hs[h].seen, w)]
    BY <1>4, <1>9 DEF Save
  <2>8. OpDone(h)
    <3>1. wallet' = [wallet EXCEPT ![op.who] = After(op, w)]
      BY <2>5, <2>6, <2>7
    <3>2. hs' = [hs EXCEPT ![h] = Rest(h, op)]
          /\ injected' = IF op.op = "adjust" THEN injected + op.amt ELSE injected
      BY <1>4, <1>9 DEF Save
    <3>3. made' = made
      BY <1>9 DEF Save
    <3>4. op.op # "freeze"
      BY <2>6
    <3> QED
      BY <3>1, <3>2, <3>3, <3>4 DEF OpDone
  <2> QED
    BY <1>3, <1>9, <2>8 DEF Save, WalletSteps
<1> QED
  BY <1>6, <1>7, <1>8, <1>9

\* The call after its first operation.
LEMMA RestFields ==
  ASSUME LedgerInv, NEW h \in Handlers, hs[h].todo # <<>>,
         hs' = [hs EXCEPT ![h] = Rest(h, hs[h].todo[1])]
  PROVE  /\ hs'[h].todo = Tail(hs[h].todo)
         /\ hs'[h].copy = NoRow /\ hs'[h].seen = NoRow
         /\ hs'[h].game = hs[h].game /\ hs'[h].next = hs[h].next /\ hs'[h].busy = hs[h].busy
         /\ hs'[h].undo = IF hs[h].todo[1].op = "freeze" /\ hs[h].game.kind = "assembled"
                          THEN Append(hs[h].undo, [hs[h].todo[1] EXCEPT !.op = "unfreeze"])
                          ELSE hs[h].undo
<1>1. hs \in [Handlers -> Handler] /\ hs[h] \in Handler
  BY DEF LedgerInv, TypeOK
<1>2. hs'[h] = Rest(h, hs[h].todo[1])
  BY <1>1
<1> DEFINE op == hs[h].todo[1]
           u == IF op.op = "freeze" /\ hs[h].game.kind = "assembled"
                THEN Append(hs[h].undo, [op EXCEPT !.op = "unfreeze"])
                ELSE hs[h].undo
           x == [hs[h] EXCEPT !.todo = Tail(@), !.copy = NoRow, !.seen = NoRow, !.undo = u]
<1>3. Rest(h, op) = x
  BY <1>1 DEF Rest, Handler
<1> HIDE DEF u, op
<1>4. /\ x.todo = Tail(hs[h].todo) /\ x.copy = NoRow /\ x.seen = NoRow /\ x.undo = u
      /\ x.game = hs[h].game /\ x.next = hs[h].next /\ x.busy = hs[h].busy
  BY <1>1 DEF Handler
<1> HIDE DEF x
<1> QED
  BY <1>2, <1>3, <1>4 DEF u, op

-----------------------------------------------------------------------------
(* Whose stake counts as frozen *)

LEMMA PlayersAreUsers ==
  ASSUME NEW g \in Games
  PROVE  /\ PlayersOf(g) \subseteq Users /\ House \notin PlayersOf(g) /\ House \notin Users
         /\ g.players \in Seq(Users) /\ Len(g.players) \in Nat \ {0}
         /\ g.size \in Nat /\ g.size >= 2
         /\ g.kind \in {"assembled", "fallback"}
         /\ HouseStake(g) \in Nat /\ Stake \in Nat
<1>1. g \in Game
  BY LedgerAssumption
<1>2. /\ g.players \in Seq(Users) /\ g.players # <<>> /\ g.size \in Nat /\ g.size >= 2
      /\ g.kind \in {"assembled", "fallback"}
  BY <1>1 DEF Game
<1>3. Len(g.players) \in Nat \ {0} /\ \A i \in 1 .. Len(g.players) : g.players[i] \in Users
  BY <1>2
<1> QED
  BY <1>2, <1>3, GameNumbers, LedgerAssumption DEF PlayersOf

LEMMA DistinctPlayers ==
  ASSUME NEW g \in Games
  PROVE  \A i, j \in 1 .. Len(g.players) : g.players[i] = g.players[j] => i = j
<1>1. IsInjective(g.players) /\ g.players \in Seq(Users)
  BY PlayersAreUsers, LedgerAssumption
<1>2. DOMAIN g.players = 1 .. Len(g.players)
  BY <1>1
<1> QED
  BY <1>1, <1>2 DEF IsInjective

\* Where every stake is put up, only fallbacks have bots, and one player each.
LEMMA BotsOfFallbacks ==
  ASSUME StakedGames, NEW g \in Games
  PROVE  /\ BotCount(g) > 0 <=> g.kind = "fallback"
         /\ g.kind = "fallback" => Stake * BotCount(g) = HouseStake(g)
<1>1. g.kind \in {"assembled", "fallback"} /\ g.size \in Nat /\ g.size >= 2
  BY PlayersAreUsers
<1>2. g.kind = "assembled" => Len(g.players) = g.size
  BY DEF StakedGames
<1>3. g.kind = "fallback" => Len(g.players) = 1
  BY LedgerAssumption
<1>4. g.kind = "assembled" => BotCount(g) = 0
  BY <1>1, <1>2 DEF BotCount
<1>5. g.kind = "fallback" => BotCount(g) = g.size - 1
  BY <1>3 DEF BotCount
<1> QED
  BY <1>1, <1>4, <1>5 DEF HouseStake

\* The first operation of a call on a game moves the stake of somebody in it.
LEMMA FirstStakeMove ==
  ASSUME LedgerInv, NEW h \in Handlers, CallOK(hs[h]), hs[h].todo # <<>>,
         hs[h].todo[1].op \in Moving
  PROVE  /\ hs[h].game \in Games
         /\ GameCallOK(hs[h], hs[h].game)
         /\ StakeOp(hs[h].game, hs[h].todo[1])
         /\ Distinct(hs[h].todo)
         /\ stage[hs[h].game] \in {"forming", "closing"}
         /\ hs[h].next \in {"open", "closed"}
         /\ hs[h].next = "open" <=> hs[h].todo[1].op = "freeze"
         /\ Awaits(hs[h], hs[h].todo[1].who, {hs[h].todo[1].op})
<1>1. hs[h] \in Handler
  BY DEF LedgerInv, TypeOK
<1>2. hs[h].todo \in Seq(Op) /\ hs[h].game \in Games \cup {NoGame}
  BY <1>1, HandlerFields
<1>3. 1 \in 1 .. Len(hs[h].todo) /\ Awaits(hs[h], hs[h].todo[1].who, {hs[h].todo[1].op})
  BY <1>2, FirstAwaited
<1>4. hs[h].game \in Games
  BY <1>2, <1>3 DEF CallOK, OtherCallOK, Moving
<1>5. GameCallOK(hs[h], hs[h].game)
  BY <1>4 DEF CallOK
<1> DEFINE op == hs[h].todo[1]
           g == hs[h].game
<1>6. op.op \in Moving => StakeOp(g, op)
  BY <1>3, <1>5 DEF GameCallOK
<1>7. \/ stage[g] = "forming" /\ hs[h].next = "open" /\ op.op = "freeze"
      \/ stage[g] = "forming" /\ hs[h].next = "closed" /\ op.op = "unfreeze"
      \/ stage[g] = "closing" /\ hs[h].next = "closed" /\ op.op \in {"refund", "consume", "credit"}
  BY <1>3, <1>5 DEF GameCallOK
<1>8. Distinct(hs[h].todo)
  BY <1>5 DEF GameCallOK
<1> HIDE DEF op, g
<1>9. stage[g] \in {"forming", "closing"} /\ hs[h].next \in {"open", "closed"}
      /\ (hs[h].next = "open" <=> op.op = "freeze")
  BY <1>7
<1> QED
  BY <1>3, <1>4, <1>5, <1>6, <1>8, <1>9 DEF op, g

\* Only the stake that the operation moves is frozen now and was not, or was.
LEMMA FrozenStep ==
  ASSUME LedgerInv, NEW h \in Handlers, CallOK(hs[h]), hs[h].todo # <<>>,
         hs' = [hs EXCEPT ![h] = Rest(h, hs[h].todo[1])], stage' = stage,
         NEW g \in Games, NEW a
  PROVE  /\ ~(hs[h].todo[1].op \in Moving /\ g = hs[h].game /\ a = hs[h].todo[1].who)
              => (Frozen(hs[h], g, a)' <=> Frozen(hs[h], g, a))
         /\ hs[h].todo[1].op \in Moving /\ g = hs[h].game /\ a = hs[h].todo[1].who
              => /\ Frozen(hs[h], g, a)' <=> hs[h].todo[1].op = "freeze"
                 /\ Frozen(hs[h], g, a) <=> hs[h].todo[1].op # "freeze"
<1> DEFINE op == hs[h].todo[1]
<1>1. /\ hs'[h].todo = Tail(hs[h].todo) /\ hs'[h].next = hs[h].next
      /\ hs[h].todo \in Seq(Op)
  BY RestFields, HandlerFields DEF LedgerInv, TypeOK
<1>2. stage[g] \in {"forming", "closing"} <=> hs[h].game = g
  BY DEF CallOK
<1>3. CASE hs[h].game # g
  BY <1>1, <1>2, <1>3 DEF Frozen
<1>4. CASE hs[h].game = g
  <2>1. Distinct(hs[h].todo)
    BY <1>4 DEF CallOK, GameCallOK
  <2>2. \A kinds : kinds \subseteq Moving =>
          (Awaits(hs'[h], a, kinds) <=> Awaits(hs[h], a, kinds) /\ ~(op.who = a /\ op.op \in kinds))
    <3> SUFFICES ASSUME NEW kinds, kinds \subseteq Moving
                 PROVE  Awaits(hs'[h], a, kinds) <=>
                          Awaits(hs[h], a, kinds) /\ ~(op.who = a /\ op.op \in kinds)
      OBVIOUS
    <3> QED
      BY <1>1, <2>1, AwaitsTail
  <2>3. {"freeze"} \subseteq Moving /\ Returning \subseteq Moving
    BY DEF Moving, Returning
  <2>4. /\ Awaits(hs'[h], a, {"freeze"}) <=>
             Awaits(hs[h], a, {"freeze"}) /\ ~(op.who = a /\ op.op \in {"freeze"})
        /\ Awaits(hs'[h], a, Returning) <=>
             Awaits(hs[h], a, Returning) /\ ~(op.who = a /\ op.op \in Returning)
    BY <2>2, <2>3
  <2>5. (stage[g] \in {"forming", "closing"} /\ stage'[g] = stage[g])
    BY <1>2, <1>4
  <2>6. /\ Frozen(hs[h], g, a) <=> IF hs[h].next = "open" THEN ~Awaits(hs[h], a, {"freeze"})
                                                          ELSE Awaits(hs[h], a, Returning)
        /\ Frozen(hs[h], g, a)' <=> IF hs[h].next = "open" THEN ~Awaits(hs'[h], a, {"freeze"})
                                                           ELSE Awaits(hs'[h], a, Returning)
    BY <1>1, <2>5 DEF Frozen, Awaits
  <2>7. Returning = Moving \ {"freeze"}
    BY DEF Moving, Returning
  <2>8. CASE op.op \in Moving
    <3>1. /\ hs[h].next = "open" <=> op.op = "freeze"
          /\ Awaits(hs[h], op.who, {op.op})
      BY <2>8, FirstStakeMove
    <3>2. op.op # "freeze" => op.op \in Returning
      BY <2>7, <2>8
    <3>3. /\ op.op = "freeze" => Awaits(hs[h], op.who, {"freeze"})
          /\ op.op # "freeze" => Awaits(hs[h], op.who, Returning)
      BY <3>1, <3>2 DEF Awaits
    <3> HIDE DEF op
    <3>4. CASE a = op.who
      <4>1. Frozen(hs[h], g, a)' <=> op.op = "freeze"
        BY <2>4, <2>6, <3>1, <3>2, <3>4
      <4>2. Frozen(hs[h], g, a) <=> op.op # "freeze"
        BY <2>6, <3>1, <3>2, <3>3, <3>4
      <4> QED
        BY <1>4, <2>8, <3>4, <4>1, <4>2 DEF op
    <3>5. CASE a # op.who
      <4>1. Frozen(hs[h], g, a)' <=> Frozen(hs[h], g, a)
        BY <2>4, <2>6, <3>5
      <4> QED
        BY <3>5, <4>1 DEF op
    <3> QED
      BY <3>4, <3>5
  <2>9. CASE op.op \notin Moving
    BY <2>3, <2>4, <2>6, <2>9
  <2> QED
    BY <2>8, <2>9
<1> QED
  BY <1>3, <1>4

\* What is frozen is frozen for one game.
LEMMA FrozenOnce ==
  ASSUME LedgerInv, OneGameEach, NEW hd, UserStakes(hd),
         NEW g \in Games, NEW u \in PlayersOf(g), stage[g] \in EngagedStage
  PROVE  \/ wallet[u].frz = IF Frozen(hd, g, u) THEN Stake ELSE 0
         \/ wallet[u].frz = 0 /\ Unfrozen(hd, u)
<1>1. \A g2 \in Games : Frozen(hd, g2, u) => stage[g2] \in EngagedStage
  BY DEF Frozen, EngagedStage
<1>2. \A g2 \in Games : u \in PlayersOf(g2) /\ Frozen(hd, g2, u) => g2 = g
  BY <1>1 DEF OneGameEach
<1>3. u \in Users
  BY PlayersAreUsers
<1>4. (\E g2 \in Games : u \in PlayersOf(g2) /\ Frozen(hd, g2, u)) <=> Frozen(hd, g, u)
  BY <1>2
<1>5. \/ wallet[u].frz = IF \E g2 \in Games : u \in PlayersOf(g2) /\ Frozen(hd, g2, u) THEN Stake ELSE 0
      \/ wallet[u].frz = 0 /\ Unfrozen(hd, u)
  BY <1>3 DEF UserStakes
<1> QED
  BY <1>4, <1>5

LEMMA HeldNat ==
  ASSUME NEW hd
  PROVE  \A g \in Games : HeldInGame(hd)[g] \in Nat
BY PlayersAreUsers DEF HeldInGame

LEMMA HouseCovers ==
  ASSUME LedgerInv, FinitelyMany, NEW hd, HouseStakes(hd), NEW g \in Games,
         g.kind = "fallback", Frozen(hd, g, House)
  PROVE  HouseStake(g) <= wallet[House].frz
<1>1. HeldInGame(hd)[g] = HouseStake(g)
  BY DEF HeldInGame
<1>2. HeldInGame(hd)[g] <= HouseHeld(hd)
  BY HeldNat, SumBoundsEach DEF FinitelyMany, HouseHeld
<1>3. HouseHeld(hd) \in Nat
  BY HeldNat, SumNat DEF FinitelyMany, HouseHeld
<1>4. wallet[House].frz \in Nat /\ HouseStake(g) \in Nat
  BY PlayersAreUsers DEF LedgerInv, TypeOK, Wallet, Accounts
<1> QED
  BY <1>1, <1>2, <1>3, <1>4 DEF HouseStakes

\* A player's stake is frozen when it is refunded or consumed, or returned because
\* an assembled match could not be formed, or the house could not freeze its own.
LEMMA StakeIsFrozen ==
  ASSUME LedgerInv, NEW h \in Handlers, hs[h].todo # <<>>,
         CallOK(hs[h]), OneGameEach, UserStakes(hs[h]),
         hs[h].todo[1].op \in Returning, hs[h].todo[1].who # House,
         hs[h].todo[1].op = "unfreeze" =>
           hs[h].game.kind = "assembled" \/ hs[h].todo[1].who \notin Adjusted
  PROVE  hs[h].todo[1].amt = Stake /\ wallet[hs[h].todo[1].who].frz = Stake
<1> DEFINE op == hs[h].todo[1]
           g == hs[h].game
<1>1. op.op \in Moving /\ op.op # "freeze"
  BY DEF Returning, Moving
<1>2. /\ g \in Games /\ StakeOp(g, op) /\ stage[g] \in {"forming", "closing"}
      /\ hs[h].next # "open" /\ GameCallOK(hs[h], g)
      /\ Awaits(hs[h], op.who, {op.op})
  BY <1>1, FirstStakeMove
<1>3. Awaits(hs[h], op.who, Returning)
  BY <1>2 DEF Awaits
<1>4. Frozen(hs[h], g, op.who)
  BY <1>2, <1>3 DEF Frozen
<1>5. \A x \in Games : stage[x] = "forming" => x = g
  BY DEF CallOK
<1>6. 1 \in 1 .. Len(hs[h].todo)
  BY TailFacts DEF LedgerInv, TypeOK, Handler
<1>7. stage[g] = "forming" => op.op = "unfreeze"
  BY <1>2, <1>6 DEF GameCallOK
<1>8. ~Unfrozen(hs[h], op.who)
  BY <1>2, <1>5, <1>7 DEF Unfrozen
<1> HIDE DEF op, g
<1>9. op.who \in PlayersOf(g) /\ op.amt = Stake
  BY <1>2 DEF StakeOp, op
<1>10. wallet[op.who].frz = Stake
  BY <1>2, <1>4, <1>8, <1>9, FrozenOnce DEF EngagedStage
<1> QED
  BY <1>9, <1>10 DEF op

\* The wallet after an operation on a stake.
LEMMA MoveExact ==
  ASSUME LedgerInv, NEW h \in Handlers, hs[h].todo # <<>>,
         CallOK(hs[h]), OneGameEach, UserStakes(hs[h]),
         hs[h].todo[1].op \in Moving,
         hs[h].todo[1].op = "freeze" => wallet[hs[h].todo[1].who].bal >= hs[h].todo[1].amt
  PROVE  LET op == hs[h].todo[1]
             w  == wallet[op.who]
             v  == After(op, w)
         IN  /\ v.bal = IF op.op = "freeze" THEN w.bal - op.amt
                        ELSE IF op.op = "consume" THEN w.bal ELSE w.bal + op.amt
             /\ v.frz = IF op.op = "freeze" THEN w.frz + op.amt ELSE w.frz - Taken(w, op.amt)
             /\ op.amt \in Nat /\ Taken(w, op.amt) \in Nat
             /\ op.op = "refund" => Taken(w, op.amt) = op.amt
<1> DEFINE op == hs[h].todo[1]
           w  == wallet[op.who]
           v  == After(op, w)
<1>1. op.amt \in Nat /\ w \in Wallet
  BY HeadOp DEF Moving
<1>2. w.bal \in Nat /\ w.frz \in Nat
  BY <1>1 DEF Wallet
<1>3. op.op = "refund" => op.amt = w.frz
  <2> SUFFICES ASSUME op.op = "refund" PROVE op.amt = w.frz
    OBVIOUS
  <2>1. StakeOp(hs[h].game, op) /\ hs[h].game \in Games
    BY FirstStakeMove
  <2>2. op.who # House
    BY <2>1, PlayersAreUsers DEF StakeOp
  <2> QED
    BY <2>2, StakeIsFrozen DEF Returning
<1>4. op.op \in Moving
  OBVIOUS
<1> DEFINE Exact == /\ v.bal = IF op.op = "freeze" THEN w.bal - op.amt
                              ELSE IF op.op = "consume" THEN w.bal ELSE w.bal + op.amt
                    /\ v.frz = IF op.op = "freeze" THEN w.frz + op.amt ELSE w.frz - Taken(w, op.amt)
                    /\ op.amt \in Nat /\ Taken(w, op.amt) \in Nat
                    /\ op.op = "refund" => Taken(w, op.amt) = op.amt
<1> SUFFICES Exact
  OBVIOUS
<1> HIDE DEF op, w
<1>5. /\ Taken(w, op.amt) \in Nat /\ Minus(w.frz, op.amt) = w.frz - Taken(w, op.amt)
      /\ op.op = "refund" => Taken(w, op.amt) = op.amt
  <2>1. /\ Taken(w, op.amt) \in Nat /\ Minus(w.frz, op.amt) = w.frz - Taken(w, op.amt)
        /\ op.amt <= w.frz => Taken(w, op.amt) = op.amt
    BY <1>1, TakenFacts
  <2>2. op.op = "refund" => op.amt <= w.frz
    BY <1>1, <1>2, <1>3
  <2> QED
    BY <2>1, <2>2
<1>6. CASE op.op = "freeze"
  <2>1. v = [bal |-> w.bal - op.amt, frz |-> w.frz + op.amt]
    BY <1>6 DEF After, Freeze, Unlocked
  <2> HIDE DEF v
  <2> QED
    BY <1>1, <1>5, <1>6, <2>1
<1>7. CASE op.op = "unfreeze"
  <2>1. v = [bal |-> w.bal + op.amt, frz |-> Minus(w.frz, op.amt)]
    BY <1>7 DEF After, Unfreeze, Unlocked
  <2> HIDE DEF v
  <2> QED
    BY <1>1, <1>5, <1>7, <2>1
<1>8. CASE op.op = "refund"
  <2>1. v = [bal |-> w.bal + op.amt, frz |-> w.frz - op.amt]
    BY <1>1, <1>2, <1>3, <1>8 DEF After, Refund, Unlocked
  <2> HIDE DEF v
  <2> QED
    BY <1>1, <1>5, <1>8, <2>1
<1>9. CASE op.op = "consume"
  <2>1. v = [w EXCEPT !.frz = Minus(w.frz, op.amt)]
    BY <1>9 DEF After, Unlocked, Changed
  <2>2. v = [bal |-> w.bal, frz |-> Minus(w.frz, op.amt)]
    BY <1>1, <2>1 DEF Wallet
  <2> HIDE DEF v
  <2> QED
    BY <1>1, <1>5, <1>9, <2>2
<1> QED
  BY <1>4, <1>6, <1>7, <1>8, <1>9 DEF Moving

\* The wallet after any other operation.
LEMMA OtherExact ==
  ASSUME NEW op \in Op, NEW w \in Wallet, op.op \in {"credit", "reset", "adjust"},
         op.op = "reset" => w.frz = 0
  PROVE  /\ After(op, w).frz = w.frz
         /\ After(op, w).bal = IF op.op = "reset" THEN w.bal ELSE w.bal + op.amt
<1>1. w.bal \in Nat /\ w.frz \in Nat
  BY DEF Wallet
<1>2. After(op, w) = Changed(op, w)
  BY DEF After, Unlocked
<1>3. CASE op.op = "credit"
  <2>1. Changed(op, w) = [w EXCEPT !.bal = w.bal + op.amt]
    BY <1>3 DEF Changed
  <2> QED
    BY <1>2, <1>3, <2>1 DEF Wallet
<1>4. CASE op.op = "adjust"
  <2>1. Changed(op, w) = [w EXCEPT !.bal = w.bal + op.amt]
    BY <1>4 DEF Changed
  <2> QED
    BY <1>2, <1>4, <2>1 DEF Wallet
<1>5. CASE op.op = "reset"
  <2>1. Changed(op, w) = [bal |-> w.bal + w.frz, frz |-> 0]
    BY <1>5 DEF Changed
  <2> QED
    BY <1>1, <1>2, <1>5, <2>1
<1> QED
  BY <1>3, <1>4, <1>5

-----------------------------------------------------------------------------
(* An operation is done: the stakes *)

SInv(h) == LedgerInv /\ SerialInvOf(hs[h])

LEMMA OtherOp ==
  ASSUME NEW h \in Handlers, SInv(h), hs[h].todo # <<>>, hs[h].todo[1].op \notin Moving
  PROVE  /\ hs[h].todo[1].op \in {"credit", "reset", "adjust"}
         /\ hs[h].todo[1].op = "reset" => wallet[hs[h].todo[1].who].frz = 0
         /\ hs[h].todo[1].op = "credit" =>
              /\ hs[h].game \in Games /\ stage[hs[h].game] = "closing"
         /\ hs[h].todo[1].op # "credit" => hs[h].game = NoGame /\ Len(hs[h].todo) = 1
         /\ hs[h].todo[1].op = "adjust" => hs[h].todo[1].who \in Adjusted
<1>1. /\ hs[h].todo[1].op \in Locked \cup Unlocked
  BY HeadOp DEF SInv
<1>2. hs[h].todo[1].op \in {"credit", "reset", "adjust"}
  BY <1>1 DEF Locked, Unlocked, Moving
<1>3. hs[h].todo \in Seq(Op) /\ hs[h].game \in Games \cup {NoGame}
  BY HandlerFields DEF SInv, LedgerInv, TypeOK
<1>4. 1 \in 1 .. Len(hs[h].todo) /\ Len(hs[h].todo) \in Nat
  BY <1>3, TailFacts
<1>5. CASE hs[h].game = NoGame
  <2>1. NoGame \notin Games
    BY LedgerAssumption
  <2>2. OtherCallOK(hs[h])
    BY <1>5 DEF SInv, SerialInvOf, CallOK
  <2>3. \/ hs[h].todo[1].op = "adjust" /\ hs[h].todo[1].who \in Adjusted
        \/ hs[h].todo[1].op = "reset" /\ hs[h].todo[1].who \in Users /\ wallet[hs[h].todo[1].who].frz = 0
    BY <1>4, <2>2 DEF OtherCallOK
  <2> DEFINE n == Len(hs[h].todo)
  <2>4. n <= 1
    BY <2>2 DEF OtherCallOK
  <2>5. n \in Nat /\ 1 <= n
    BY <1>4
  <2> HIDE DEF n
  <2>6. n = 1
    BY <2>4, <2>5
  <2> QED
    BY <1>2, <1>5, <2>3, <2>6 DEF n
<1>6. CASE hs[h].game \in Games
  <2>1. GameCallOK(hs[h], hs[h].game)
    BY <1>6 DEF SInv, SerialInvOf, CallOK
  <2>2. hs[h].todo[1].op = "credit" /\ stage[hs[h].game] = "closing"
    BY <1>2, <1>4, <2>1 DEF GameCallOK
  <2> QED
    BY <1>6, <2>2
<1> QED
  BY <1>3, <1>5, <1>6

\* The wallets after an operation: only one has changed, as the operation says.
LEMMA WalletsAfter ==
  ASSUME NEW h \in Handlers, SInv(h), hs[h].todo # <<>>, OpDone(h)
  PROVE  LET op == hs[h].todo[1]
             w  == wallet[op.who]
         IN  /\ op.who \in Accounts
             /\ \A a \in Accounts \ {op.who} : wallet'[a] = wallet[a]
             /\ wallet'[op.who].frz = IF op.op = "freeze" THEN w.frz + op.amt
                                      ELSE IF op.op \in Moving THEN w.frz - Taken(w, op.amt)
                                      ELSE w.frz
             /\ wallet'[op.who].bal = IF op.op = "freeze" THEN w.bal - op.amt
                                      ELSE IF op.op \in {"consume", "reset"} THEN w.bal
                                      ELSE w.bal + op.amt
             /\ op.op \in Moving => op.amt \in Nat /\ Taken(w, op.amt) \in Nat
             /\ op.op = "refund" => Taken(w, op.amt) = op.amt
<1> DEFINE op == hs[h].todo[1]
           w  == wallet[op.who]
<1>1. op.who \in Accounts /\ op \in Op /\ w \in Wallet /\ op.op \in Locked \cup Unlocked
  BY HeadOp DEF SInv
<1>2. wallet' = [wallet EXCEPT ![op.who] = After(op, w)] /\ (op.op = "freeze" => w.bal >= op.amt)
  BY DEF OpDone
<1>3. wallet'[op.who] = After(op, w) /\ \A a \in Accounts \ {op.who} : wallet'[a] = wallet[a]
  BY <1>1, <1>2 DEF SInv, LedgerInv, TypeOK
<1>4. CASE op.op \in Moving
  <2>1. /\ After(op, w).bal = IF op.op = "freeze" THEN w.bal - op.amt
                        ELSE IF op.op = "consume" THEN w.bal ELSE w.bal + op.amt
        /\ After(op, w).frz = IF op.op = "freeze" THEN w.frz + op.amt ELSE w.frz - Taken(w, op.amt)
        /\ op.amt \in Nat /\ Taken(w, op.amt) \in Nat
        /\ op.op = "refund" => Taken(w, op.amt) = op.amt
    BY <1>2, <1>4, MoveExact DEF SInv, SerialInvOf
  <2> HIDE DEF op, w
  <2>2. op.op # "reset"
    BY <1>4 DEF Moving
  <2>3. op.op # "freeze" => (op.op = "consume" <=> op.op \in {"consume", "reset"})
    BY <2>2
  <2> QED
    BY <1>1, <1>3, <1>4, <2>1, <2>3 DEF op, w
<1>5. CASE op.op \notin Moving
  <2>1. op.op \in {"credit", "reset", "adjust"} /\ (op.op = "reset" => w.frz = 0)
    BY <1>5, OtherOp
  <2>2. /\ After(op, w).frz = w.frz
        /\ After(op, w).bal = IF op.op = "reset" THEN w.bal ELSE w.bal + op.amt
    <3> HIDE DEF op, w
    <3> QED
      BY <1>1, <2>1, OtherExact
  <2> HIDE DEF op, w
  <2>3. op.op # "freeze" /\ op.op # "refund" /\ (op.op = "reset" <=> op.op \in {"consume", "reset"})
    BY <2>1
  <2> QED
    BY <1>1, <1>3, <1>5, <2>2, <2>3 DEF op, w
<1> QED
  BY <1>4, <1>5

\* A stake that is to be returned without being frozen still is, unless it just was.
LEMMA UnfrozenStep ==
  ASSUME NEW h \in Handlers, SInv(h), hs[h].todo # <<>>,
         hs' = [hs EXCEPT ![h] = Rest(h, hs[h].todo[1])], stage' = stage,
         NEW u, Unfrozen(hs[h], u), ~(hs[h].todo[1].op \in Moving /\ u = hs[h].todo[1].who)
  PROVE  Unfrozen(hs[h], u)'
<1> DEFINE op == hs[h].todo[1]
           kinds == {"unfreeze"}
<1>1. PICK g \in Games : /\ g.kind = "fallback" /\ u \in PlayersOf(g)
                         /\ stage[g] = "forming" /\ hs[h].next = "closed" /\ Awaits(hs[h], u, kinds)
  BY DEF Unfrozen
<1>2. hs[h].game = g /\ Distinct(hs[h].todo)
  <2>1. hs[h].game = g
    BY <1>1 DEF SInv, SerialInvOf, CallOK
  <2> QED
    BY <2>1 DEF SInv, SerialInvOf, CallOK, GameCallOK
<1>3. /\ hs'[h].todo = Tail(hs[h].todo) /\ hs'[h].next = hs[h].next /\ hs[h].todo \in Seq(Op)
  BY RestFields, HandlerFields DEF SInv, LedgerInv, TypeOK
<1>4. kinds \subseteq Moving
  BY DEF Moving
<1> HIDE DEF kinds
<1>5. Awaits(hs'[h], u, kinds) <=> Awaits(hs[h], u, kinds) /\ ~(op.who = u /\ op.op \in kinds)
  BY <1>2, <1>3, <1>4, AwaitsTail
<1>6. Awaits(hs'[h], u, kinds)
  BY <1>1, <1>4, <1>5
<1> QED
  BY <1>1, <1>3, <1>6 DEF Unfrozen, kinds, PlayersOf, Awaits

LEMMA UserStakesDone ==
  ASSUME NEW h \in Handlers, SInv(h), hs[h].todo # <<>>, OpDone(h), stage' = stage
  PROVE  UserStakes(hs[h])'
<1> DEFINE op == hs[h].todo[1]
           g  == hs[h].game
<1>1. /\ op.who \in Accounts
      /\ \A a \in Accounts \ {op.who} : wallet'[a] = wallet[a]
      /\ wallet'[op.who].frz = IF op.op = "freeze" THEN wallet[op.who].frz + op.amt
                               ELSE IF op.op \in Moving
                               THEN wallet[op.who].frz - Taken(wallet[op.who], op.amt)
                               ELSE wallet[op.who].frz
  BY WalletsAfter
<1>2. \A g2 \in Games, a \in Users :
        /\ ~(op.op \in Moving /\ g2 = g /\ a = op.who)
              => (Frozen(hs[h], g2, a)' <=> Frozen(hs[h], g2, a))
        /\ op.op \in Moving /\ g2 = g /\ a = op.who
              => /\ Frozen(hs[h], g2, a)' <=> op.op = "freeze"
                 /\ Frozen(hs[h], g2, a) <=> op.op # "freeze"
  BY FrozenStep DEF OpDone, SInv, SerialInvOf
<1>3. SUFFICES ASSUME NEW u \in Users
               PROVE  \/ wallet'[u].frz =
                           IF \E g2 \in Games : u \in PlayersOf(g2) /\ Frozen(hs[h], g2, u)' THEN Stake ELSE 0
                      \/ wallet'[u].frz = 0 /\ Unfrozen(hs[h], u)'
  BY DEF UserStakes, PlayersOf
<1>4. \/ wallet[u].frz = IF \E g2 \in Games : u \in PlayersOf(g2) /\ Frozen(hs[h], g2, u) THEN Stake ELSE 0
      \/ wallet[u].frz = 0 /\ Unfrozen(hs[h], u)
  BY DEF SInv, SerialInvOf, UserStakes
<1>5. CASE ~(op.op \in Moving /\ u = op.who)
  <2>1. wallet'[u].frz = wallet[u].frz
    <3>1. CASE u = op.who
      <4>1. op.op \notin Moving
        BY <1>5, <3>1
      <4> HIDE DEF op
      <4>2. op.op # "freeze"
        BY <4>1 DEF Moving
      <4> QED
        BY <1>1, <3>1, <4>1, <4>2
    <3>2. CASE u # op.who
      BY <1>1, <3>2 DEF Accounts
    <3> QED
      BY <3>1, <3>2
  <2>2. \A g2 \in Games : Frozen(hs[h], g2, u)' <=> Frozen(hs[h], g2, u)
    BY <1>2, <1>5
  <2>3. Unfrozen(hs[h], u) => Unfrozen(hs[h], u)'
    BY <1>5, UnfrozenStep DEF OpDone
  <2> QED
    BY <1>4, <2>1, <2>2, <2>3
<1>6. CASE op.op \in Moving /\ u = op.who
  <2>1. /\ g \in Games /\ StakeOp(g, op) /\ stage[g] \in EngagedStage
    BY <1>6, FirstStakeMove DEF SInv, SerialInvOf, EngagedStage
  <2>2. u \in PlayersOf(g) /\ op.amt = Stake
    BY <1>6, <2>1, PlayersAreUsers DEF StakeOp
  <2>3. \/ wallet[u].frz = IF Frozen(hs[h], g, u) THEN Stake ELSE 0
        \/ wallet[u].frz = 0
    BY <2>1, <2>2, FrozenOnce DEF SInv, SerialInvOf
  <2>4. \A g2 \in Games : u \in PlayersOf(g2) /\ g2 # g => ~Frozen(hs[h], g2, u)
    <3>1. \A g2 \in Games : Frozen(hs[h], g2, u) => stage[g2] \in EngagedStage
      BY DEF Frozen, EngagedStage
    <3>2. OneGameEach
      BY DEF SInv, SerialInvOf
    <3> HIDE DEF g
    <3> QED
      BY <2>1, <2>2, <3>1, <3>2 DEF OneGameEach
  <2>5. \A g2 \in Games : u \in PlayersOf(g2) =>
          (Frozen(hs[h], g2, u)' <=> g2 = g /\ op.op = "freeze")
    BY <1>2, <1>6, <2>4
  <2>6. Frozen(hs[h], g, u) <=> op.op # "freeze"
    BY <1>2, <1>6, <2>1
  <2>7. wallet'[u].frz = IF op.op = "freeze" THEN wallet[u].frz + Stake
                         ELSE wallet[u].frz - Taken(wallet[u], Stake)
    BY <1>1, <1>6, <2>2
  <2>8. Stake \in Nat /\ wallet[u] \in Wallet
    BY LedgerAssumption DEF SInv, LedgerInv, TypeOK, Accounts
  <2>9. wallet'[u].frz = IF op.op = "freeze" THEN Stake ELSE 0
    <3> HIDE DEF g, op
    <3>1. wallet[u].frz \in {0, Stake} /\ (op.op = "freeze" => wallet[u].frz = 0)
      BY <2>3, <2>6
    <3>2. wallet[u].frz - Taken(wallet[u], Stake) = 0
      <4>1. wallet[u].frz = 0 => Taken(wallet[u], Stake) = 0
        BY <2>8, TakenFacts
      <4>2. wallet[u].frz = Stake => Taken(wallet[u], Stake) = Stake
        BY <2>8, TakenFacts
      <4> QED
        BY <2>8, <3>1, <4>1, <4>2
    <3> QED
      BY <2>7, <2>8, <3>1, <3>2
  <2> HIDE DEF g, op
  <2> QED
    BY <2>1, <2>2, <2>5, <2>9
<1> QED
  BY <1>5, <1>6

LEMMA HouseStakesDone ==
  ASSUME NEW h \in Handlers, SInv(h), FinitelyMany, StakedGames, HouseStakes(hs[h]),
         hs[h].todo # <<>>, OpDone(h), stage' = stage
  PROVE  HouseStakes(hs[h])'
<1> DEFINE op == hs[h].todo[1]
           g  == hs[h].game
           F  == HeldInGame(hs[h])
           F2 == HeldInGame(hs[h])'
<1>1. /\ op.who \in Accounts
      /\ \A a \in Accounts \ {op.who} : wallet'[a] = wallet[a]
      /\ wallet'[op.who].frz = IF op.op = "freeze" THEN wallet[op.who].frz + op.amt
                               ELSE IF op.op \in Moving
                               THEN wallet[op.who].frz - Taken(wallet[op.who], op.amt)
                               ELSE wallet[op.who].frz
  BY WalletsAfter
<1>2. \A g2 \in Games :
        /\ ~(op.op \in Moving /\ g2 = g /\ House = op.who)
              => (Frozen(hs[h], g2, House)' <=> Frozen(hs[h], g2, House))
        /\ op.op \in Moving /\ g2 = g /\ House = op.who
              => /\ Frozen(hs[h], g2, House)' <=> op.op = "freeze"
                 /\ Frozen(hs[h], g2, House) <=> op.op # "freeze"
  BY FrozenStep DEF OpDone, SInv, SerialInvOf
<1>3. /\ \A g2 \in Games : F[g2] = IF g2.kind = "fallback" /\ Frozen(hs[h], g2, House) THEN HouseStake(g2) ELSE 0
      /\ \A g2 \in Games : F2[g2] = IF g2.kind = "fallback" /\ Frozen(hs[h], g2, House)' THEN HouseStake(g2) ELSE 0
      /\ \A g2 \in Games : F[g2] \in Nat /\ F2[g2] \in Nat
  BY PlayersAreUsers DEF HeldInGame, HouseStake
<1>4. HouseHeld(hs[h]) = SumFunctionOnSet(F, Games) /\ HouseHeld(hs[h])' = SumFunctionOnSet(F2, Games)
  BY DEF HouseHeld
<1>5. SumFunctionOnSet(F, Games) <= wallet[House].frz /\ wallet[House].frz \in Nat
  BY <1>4 DEF SInv, HouseStakes, LedgerInv, TypeOK, Wallet, Accounts
<1>6. SUFFICES SumFunctionOnSet(F2, Games) <= wallet'[House].frz
  BY <1>4 DEF HouseStakes
<1> HIDE DEF F, F2
<1>7. IsFiniteSet(Games) /\ SumFunctionOnSet(F, Games) \in Nat
  BY <1>3, SumNat DEF FinitelyMany
<1>8. CASE ~(op.op \in Moving /\ House = op.who)
  <2>1. wallet'[House].frz = wallet[House].frz
    <3>1. CASE House = op.who
      <4>1. op.op \notin Moving
        BY <1>8, <3>1
      <4> HIDE DEF op
      <4>2. op.op # "freeze"
        BY <4>1 DEF Moving
      <4> QED
        BY <1>1, <3>1, <4>1, <4>2
    <3>2. CASE House # op.who
      BY <1>1, <3>2 DEF Accounts
    <3> QED
      BY <3>1, <3>2
  <2>2. \A g2 \in Games : Frozen(hs[h], g2, House)' <=> Frozen(hs[h], g2, House)
    BY <1>2, <1>8
  <2>3. \A g2 \in Games : F2[g2] = F[g2]
    BY <1>3, <2>2
  <2>4. SumFunctionOnSet(F2, Games) = SumFunctionOnSet(F, Games)
    BY <1>7, <2>3, SumSame
  <2> QED
    BY <1>5, <2>1, <2>4
<1>9. CASE op.op \in Moving /\ House = op.who
  <2>1. g \in Games /\ StakeOp(g, op)
    BY <1>9, FirstStakeMove DEF SInv, SerialInvOf
  <2>2. g.kind = "fallback" /\ op.amt = HouseStake(g) /\ HouseStake(g) \in Nat
    <3>1. op.amt = HouseStake(g) /\ HouseStake(g) \in Nat /\ BotCount(g) > 0
      BY <1>9, <2>1, PlayersAreUsers DEF StakeOp
    <3> HIDE DEF g
    <3> QED
      BY <2>1, <3>1, BotsOfFallbacks
  <2>3. \A g2 \in Games \ {g} : F2[g2] = F[g2]
    BY <1>2, <1>3
  <2>4. /\ F2[g] = IF op.op = "freeze" THEN HouseStake(g) ELSE 0
        /\ F[g]  = IF op.op = "freeze" THEN 0 ELSE HouseStake(g)
    BY <1>2, <1>3, <1>9, <2>1, <2>2
  <2>5. SumFunctionOnSet(F2, Games) = SumFunctionOnSet(F, Games) + F2[g] - F[g]
    <3> HIDE DEF g
    <3>1. \A y \in Games : F[y] \in Int /\ F2[y] \in Int
      BY <1>3
    <3>2. \A y \in Games \ {g} : F[y] = F2[y]
      BY <2>3
    <3> QED
      BY <1>7, <2>1, <3>1, <3>2, SumChange
  <2>6. wallet'[House].frz = IF op.op = "freeze" THEN wallet[House].frz + HouseStake(g)
                                                ELSE wallet[House].frz - HouseStake(g)
    <3>1. wallet'[House].frz = IF op.op = "freeze" THEN wallet[House].frz + HouseStake(g)
                               ELSE wallet[House].frz - Taken(wallet[House], HouseStake(g))
      BY <1>1, <1>9, <2>2
    <3>2. op.op # "freeze" => Frozen(hs[h], g, House)
      BY <1>2, <1>9, <2>1
    <3>3. wallet[House] \in Wallet /\ LedgerInv
      BY DEF SInv, LedgerInv, TypeOK, Accounts
    <3> HIDE DEF g, op
    <3>4. op.op # "freeze" => HouseStake(g) <= wallet[House].frz
      BY <2>1, <2>2, <3>2, <3>3, HouseCovers
    <3>5. op.op # "freeze" => Taken(wallet[House], HouseStake(g)) = HouseStake(g)
      BY <2>2, <3>3, <3>4, TakenFacts
    <3> QED
      BY <3>1, <3>5
  <2> HIDE DEF op, g
  <2> QED
    BY <1>5, <1>7, <2>2, <2>4, <2>5, <2>6
<1> QED
  BY <1>8, <1>9

-----------------------------------------------------------------------------
(* What a settlement does *)

Bots(g) == IF BotCount(g) > 0 THEN 1 ELSE 0
Fees(g) == IF Fee(Pot(Stake, g.size)) > 0 THEN 1 ELSE 0

LEMMA TwoParts ==
  ASSUME NEW S, NEW a \in Seq(S), NEW b \in Seq(S)
  PROVE  /\ a \o b \in Seq(S) /\ Len(a \o b) = Len(a) + Len(b)
         /\ \A i \in 1 .. Len(a) : (a \o b)[i] = a[i]
         /\ \A i \in 1 .. Len(b) : (a \o b)[Len(a) + i] = b[i]
OBVIOUS

LEMMA FourParts ==
  ASSUME NEW a \in Seq(Op), NEW b \in Seq(Op), NEW c \in Seq(Op), NEW d \in Seq(Op),
         NEW all, all = a \o b \o c \o d
  PROVE  /\ Len(all) = Len(a) + Len(b) + Len(c) + Len(d)
         /\ \A i \in 1 .. Len(a) : all[i] = a[i]
         /\ \A i \in 1 .. Len(b) : all[Len(a) + i] = b[i]
         /\ \A i \in 1 .. Len(c) : all[Len(a) + Len(b) + i] = c[i]
         /\ \A i \in 1 .. Len(d) : all[Len(a) + Len(b) + Len(c) + i] = d[i]
<1> DEFINE ab == a \o b
           abc == ab \o c
<1>1. /\ ab \in Seq(Op) /\ Len(ab) = Len(a) + Len(b)
      /\ \A i \in 1 .. Len(a) : ab[i] = a[i]
      /\ \A i \in 1 .. Len(b) : ab[Len(a) + i] = b[i]
  BY TwoParts
<1> HIDE DEF ab
<1>2. /\ abc \in Seq(Op) /\ Len(abc) = Len(ab) + Len(c)
      /\ \A i \in 1 .. Len(ab) : abc[i] = ab[i]
      /\ \A i \in 1 .. Len(c) : abc[Len(ab) + i] = c[i]
  <2>1. ab \in Seq(Op)
    BY <1>1
  <2> QED
    BY <2>1, TwoParts
<1> HIDE DEF abc
<1>3. /\ all = abc \o d /\ Len(all) = Len(abc) + Len(d)
      /\ \A i \in 1 .. Len(abc) : all[i] = abc[i]
      /\ \A i \in 1 .. Len(d) : all[Len(abc) + i] = d[i]
  <2>1. abc \in Seq(Op)
    BY <1>2
  <2>2. all = abc \o d
    BY DEF abc, ab
  <2> QED
    BY <2>1, <2>2, TwoParts
<1>4. Len(a) \in Nat /\ Len(b) \in Nat /\ Len(c) \in Nat /\ Len(d) \in Nat
  OBVIOUS
<1> DEFINE la == Len(a)
           lb == Len(b)
           lc == Len(c)
           ld == Len(d)
<1>5. /\ la \in Nat /\ lb \in Nat /\ lc \in Nat /\ ld \in Nat
      /\ Len(ab) = la + lb /\ Len(abc) = la + lb + lc /\ Len(all) = la + lb + lc + ld
  BY <1>1, <1>2, <1>3, <1>4
<1>6. \A i \in 1 .. la : i \in 1 .. la + lb /\ i \in 1 .. la + lb + lc
  BY <1>5
<1>7. \A i \in 1 .. lb : la + i \in 1 .. la + lb /\ la + i \in 1 .. la + lb + lc
  BY <1>5
<1>8. \A i \in 1 .. lc : la + lb + i \in 1 .. la + lb + lc
  BY <1>5
<1>9. \A i \in 1 .. la : all[i] = a[i]
  BY <1>1, <1>2, <1>3, <1>5, <1>6
<1>10. \A i \in 1 .. lb : all[la + i] = b[i]
  BY <1>1, <1>2, <1>3, <1>5, <1>7
<1>11. \A i \in 1 .. lc : all[la + lb + i] = c[i]
  BY <1>2, <1>3, <1>5, <1>8
<1>12. \A i \in 1 .. ld : all[la + lb + lc + i] = d[i]
  BY <1>3, <1>5
<1> QED
  BY <1>5, <1>9, <1>10, <1>11, <1>12

LEMMA EachAt ==
  ASSUME NEW op, NEW players \in Seq(Users), NEW amt
  PROVE  /\ Len(Each(op, players, amt)) = Len(players)
         /\ \A i \in 1 .. Len(players) :
              Each(op, players, amt)[i] = [op |-> op, who |-> players[i], amt |-> amt]
BY DEF Each

LEMMA OneAt ==
  ASSUME NEW op, NEW who, NEW amt
  PROVE  Len(One(op, who, amt)) = 1 /\ One(op, who, amt)[1] = [op |-> op, who |-> who, amt |-> amt]
BY DEF One

\* The operations of a settlement, one by one.
LEMMA SettlementAt ==
  ASSUME NEW g \in Games, NEW winner \in Accounts
  PROVE  LET all == Settlement(g, winner)
             n   == Len(g.players)
             pot == Pot(Stake, g.size)
         IN  /\ n \in Nat \ {0} /\ Len(all) = n + Bots(g) + 1 + Fees(g)
             /\ \A i \in 1 .. n : all[i] = [op |-> "consume", who |-> g.players[i], amt |-> Stake]
             /\ Bots(g) = 1 => all[n + 1] = [op |-> "consume", who |-> House, amt |-> HouseStake(g)]
             /\ all[n + Bots(g) + 1] = [op |-> "credit", who |-> winner, amt |-> Payout(pot)]
             /\ Fees(g) = 1 => all[n + Bots(g) + 2] = [op |-> "credit", who |-> House, amt |-> Fee(pot)]
<1> DEFINE pot == Pot(Stake, g.size)
           n == Len(g.players)
           a == Each("consume", g.players, Stake)
           b == IF BotCount(g) > 0 THEN One("consume", House, HouseStake(g)) ELSE <<>>
           c == One("credit", winner, Payout(pot))
           d == IF Fee(pot) > 0 THEN One("credit", House, Fee(pot)) ELSE <<>>
           all == Settlement(g, winner)
<1>1. /\ HouseStake(g) \in Nat /\ Fee(pot) \in Nat /\ Payout(pot) \in Nat
      /\ g.players \in Seq(Users) /\ Stake \in Nat /\ n \in Nat \ {0}
  BY GameNumbers, LedgerAssumption, PlayersAreUsers
<1>2. House \in Accounts
  BY DEF Accounts
<1>3. a \in Seq(Op)
  BY <1>1, EachInSeq DEF Locked, Unlocked
<1>4. One("consume", House, HouseStake(g)) \in Seq(Op)
  BY <1>1, <1>2, OneInSeq DEF Op, Locked, Unlocked
<1>5. One("credit", winner, Payout(pot)) \in Seq(Op)
  BY <1>1, OneInSeq DEF Op, Locked, Unlocked
<1>6. One("credit", House, Fee(pot)) \in Seq(Op)
  BY <1>1, <1>2, OneInSeq DEF Op, Locked, Unlocked
<1>7. <<>> \in Seq(Op)
  OBVIOUS
<1>8. a \in Seq(Op) /\ b \in Seq(Op) /\ c \in Seq(Op) /\ d \in Seq(Op)
  BY <1>3, <1>4, <1>5, <1>6, <1>7
<1>9. all = a \o b \o c \o d
  BY DEF Settlement
<1>10. /\ Len(a) = n
       /\ \A i \in 1 .. n : a[i] = [op |-> "consume", who |-> g.players[i], amt |-> Stake]
  BY <1>1, EachAt
<1>11. /\ Len(b) = Bots(g)
       /\ Bots(g) = 1 => b[1] = [op |-> "consume", who |-> House, amt |-> HouseStake(g)]
  <2>1. CASE BotCount(g) > 0
    <3>1. b = One("consume", House, HouseStake(g)) /\ Bots(g) = 1
      BY <2>1 DEF Bots
    <3> HIDE DEF b
    <3> QED
      BY <3>1, OneAt
  <2>2. CASE ~(BotCount(g) > 0)
    <3>1. b = <<>> /\ Bots(g) = 0
      BY <2>2 DEF Bots
    <3> HIDE DEF b
    <3> QED
      BY <3>1
  <2> QED
    BY <2>1, <2>2
<1>12. Len(c) = 1 /\ c[1] = [op |-> "credit", who |-> winner, amt |-> Payout(pot)]
  BY OneAt
<1>13. /\ Len(d) = Fees(g)
       /\ Fees(g) = 1 => d[1] = [op |-> "credit", who |-> House, amt |-> Fee(pot)]
  <2>1. CASE Fee(pot) > 0
    <3>1. d = One("credit", House, Fee(pot)) /\ Fees(g) = 1
      BY <2>1 DEF Fees
    <3> HIDE DEF d
    <3> QED
      BY <3>1, OneAt
  <2>2. CASE ~(Fee(pot) > 0)
    <3>1. d = <<>> /\ Fees(g) = 0
      BY <2>2 DEF Fees
    <3> HIDE DEF d
    <3> QED
      BY <3>1
  <2> QED
    BY <2>1, <2>2
<1> HIDE DEF a, b, c, d, all
<1>14. /\ Len(all) = Len(a) + Len(b) + Len(c) + Len(d)
       /\ \A i \in 1 .. Len(a) : all[i] = a[i]
       /\ \A i \in 1 .. Len(b) : all[Len(a) + i] = b[i]
       /\ \A i \in 1 .. Len(c) : all[Len(a) + Len(b) + i] = c[i]
       /\ \A i \in 1 .. Len(d) : all[Len(a) + Len(b) + Len(c) + i] = d[i]
  BY <1>8, <1>9, FourParts
<1>15. Bots(g) \in {0, 1} /\ Fees(g) \in {0, 1}
  BY DEF Bots, Fees
<1> HIDE DEF n, pot
<1>16. Len(all) = n + Bots(g) + 1 + Fees(g)
  BY <1>10, <1>11, <1>12, <1>13, <1>14, <1>15, <1>1
<1>17. \A i \in 1 .. n : all[i] = [op |-> "consume", who |-> g.players[i], amt |-> Stake]
  BY <1>10, <1>14
<1>18. Bots(g) = 1 => all[n + 1] = [op |-> "consume", who |-> House, amt |-> HouseStake(g)]
  BY <1>10, <1>11, <1>14
<1>19. all[n + Bots(g) + 1] = [op |-> "credit", who |-> winner, amt |-> Payout(pot)]
  BY <1>10, <1>11, <1>12, <1>14
<1>20. Fees(g) = 1 => all[n + Bots(g) + 2] = [op |-> "credit", who |-> House, amt |-> Fee(pot)]
  <2>1. Fees(g) = 1 => all[n + Bots(g) + 1 + 1] = [op |-> "credit", who |-> House, amt |-> Fee(pot)]
    BY <1>10, <1>11, <1>12, <1>13, <1>14
  <2>2. n + Bots(g) + 1 + 1 = n + Bots(g) + 2
    BY <1>1, <1>15
  <2> QED
    BY <2>1, <2>2
<1> QED
  BY <1>1, <1>16, <1>17, <1>18, <1>19, <1>20 DEF n, pot, all

\* The stakes of the players and of the bots add up to the pot.
LEMMA StakesMakePot ==
  ASSUME NEW g \in Games
  PROVE  LET n   == Len(g.players)
             pot == Pot(Stake, g.size)
         IN  /\ pot \in Nat /\ Fee(pot) \in Nat /\ Payout(pot) \in Nat /\ Fee(pot) + Payout(pot) = pot
             /\ Stake \in Nat /\ HouseStake(g) \in Nat /\ n \in Nat \ {0}
             /\ Bots(g) \in {0, 1} /\ Fees(g) \in {0, 1}
             /\ Bots(g) = 1 <=> BotCount(g) > 0
             /\ Stake * BotCount(g) \in Nat /\ Stake * n + Stake * BotCount(g) = pot
             /\ Bots(g) = 0 => Stake * n = pot
             /\ Fees(g) = 0 => Fee(pot) = 0
             /\ g.kind = "fallback" => BotCount(g) > 0
<1> DEFINE n == Len(g.players)
           pot == Pot(Stake, g.size)
<1>1. /\ Stake \in Nat /\ HouseStake(g) \in Nat /\ n \in Nat \ {0} /\ g.size \in Nat /\ g.size >= 2
      /\ n <= g.size
      /\ g.kind = "fallback" => n = 1
  BY PlayersAreUsers, LedgerAssumption
<1>2. pot \in Nat
  BY <1>1, ProductNat DEF Pot
<1>3. Fee(pot) \in Nat /\ Payout(pot) \in Nat /\ Fee(pot) + Payout(pot) = pot
  BY <1>2, FeeAndPayout
<1>4. Bots(g) \in {0, 1} /\ Fees(g) \in {0, 1} /\ (Fees(g) = 0 => Fee(pot) = 0)
      /\ (Bots(g) = 1 <=> BotCount(g) > 0)
  BY <1>3 DEF Bots, Fees
<1>5. BotCount(g) \in Nat /\ BotCount(g) = g.size - n
  <2>1. BotCount(g) = g.size - n
    BY DEF BotCount
  <2> HIDE DEF n
  <2> QED
    BY <1>1, <2>1
<1>6. g.kind = "fallback" => BotCount(g) > 0
  <2> HIDE DEF n
  <2> QED
    BY <1>1, <1>5
<1>7. \A a, b, c \in Int : a * b + a * (c - b) = a * c
  OBVIOUS
<1>8. Stake * n + Stake * BotCount(g) = pot
  BY <1>1, <1>5, <1>7 DEF Pot
<1>9. Stake * BotCount(g) \in Nat /\ Stake * n \in Nat
  BY <1>1, <1>5, ProductNat
<1>10. Bots(g) = 0 => Stake * n = pot
  <2> SUFFICES ASSUME Bots(g) = 0 PROVE Stake * n = pot
    OBVIOUS
  <2>1. BotCount(g) = 0
    BY <1>4, <1>5
  <2>2. Stake * BotCount(g) = 0
    BY <1>1, <2>1
  <2> HIDE DEF pot, n
  <2> QED
    BY <1>8, <1>9, <2>2
<1> HIDE DEF pot, n
<1> QED
  BY <1>1, <1>2, <1>3, <1>4, <1>6, <1>8, <1>9, <1>10 DEF pot, n

\* What made may have counted for a settlement: nothing, if there are no bots.
Extra(g) == IF BotCount(g) > 0 THEN Int ELSE {0}

LEMMA UnfundedExtra ==
  ASSUME NEW g \in Games, NEW w \in Wallet
  PROVE  (IF BotCount(g) > 0 THEN Stake * BotCount(g) - Taken(w, HouseStake(g)) ELSE 0) \in Extra(g)
<1>1. Stake * BotCount(g) \in Nat /\ HouseStake(g) \in Nat
  BY StakesMakePot
<1>2. Taken(w, HouseStake(g)) \in Nat
  BY <1>1, TakenFacts
<1> QED
  BY <1>1, <1>2 DEF Extra

\* Spent, with its numbers named.
LEMMA SpentIs ==
  ASSUME NEW g \in Games, NEW k \in Nat, NEW x
  PROVE  Spent(g, k, x) = IF k <= Len(g.players) THEN Stake * k + x
                          ELSE IF k = Len(g.players) + Bots(g) THEN Pot(Stake, g.size)
                          ELSE IF k = Len(g.players) + Bots(g) + 1 THEN Fee(Pot(Stake, g.size))
                          ELSE 0
BY DEF Spent, Bots

\* Each operation of a settlement changes what is spent by its amount, the house's
\* stake by the stakes of the bots instead, and in the end nothing is spent.
LEMMA SettlementSteps ==
  ASSUME NEW g \in Games, NEW winner \in Accounts
  PROVE  LET all == Settlement(g, winner)
         IN  /\ Len(all) \in Nat
             /\ \A x \in Extra(g) : Spent(g, 0, x) = x /\ Spent(g, Len(all), x) = 0
             /\ \A k \in 0 .. Len(all) : \A x \in Extra(g) : Spent(g, k, x) \in Int
             /\ \A k \in 0 .. Len(all) - 1 :
                  \/ /\ all[k + 1].op = "consume" /\ all[k + 1].who \in PlayersOf(g)
                     /\ all[k + 1].amt = Stake
                     /\ \A x \in Extra(g) : Spent(g, k + 1, x) = Spent(g, k, x) + Stake
                  \/ /\ all[k + 1].op = "consume" /\ all[k + 1].who = House
                     /\ all[k + 1].amt = HouseStake(g) /\ BotCount(g) > 0
                     /\ \A x, y \in Extra(g) : Spent(g, k + 1, y) = Spent(g, k, x) - x + Stake * BotCount(g)
                  \/ /\ all[k + 1].op = "credit"
                     /\ \A x, y \in Extra(g) : Spent(g, k + 1, y) = Spent(g, k, x) - all[k + 1].amt
<1> DEFINE all == Settlement(g, winner)
           n   == Len(g.players)
           pot == Pot(Stake, g.size)
           b == Bots(g)
           f == Fees(g)
           fee == Fee(pot)
           pay == Payout(pot)
           hst == HouseStake(g)
           bst == Stake * BotCount(g)
           X == Extra(g)
           P == PlayersOf(g)
           sp(k, x) == Spent(g, k, x)
<1>1. /\ pot \in Nat /\ fee \in Nat /\ pay \in Nat /\ fee + pay = pot
      /\ Stake \in Nat /\ hst \in Nat /\ n \in Nat \ {0}
      /\ b \in {0, 1} /\ f \in {0, 1} /\ bst \in Nat
      /\ b = 0 => Stake * n = pot
      /\ Stake * n + bst = pot
      /\ f = 0 => fee = 0
      /\ b = 1 <=> BotCount(g) > 0
  BY StakesMakePot
<1>2. /\ Len(all) = n + b + 1 + f
      /\ \A i \in 1 .. n : all[i] = [op |-> "consume", who |-> g.players[i], amt |-> Stake]
      /\ b = 1 => all[n + 1] = [op |-> "consume", who |-> House, amt |-> hst]
      /\ all[n + b + 1] = [op |-> "credit", who |-> winner, amt |-> pay]
      /\ f = 1 => all[n + b + 2] = [op |-> "credit", who |-> House, amt |-> fee]
  BY SettlementAt
<1>3. \A k \in Nat : \A x : sp(k, x) = IF k <= n THEN Stake * k + x
                                      ELSE IF k = n + b THEN pot
                                      ELSE IF k = n + b + 1 THEN fee ELSE 0
  BY SpentIs
<1>4. \A i \in 1 .. n : g.players[i] \in P
  BY DEF PlayersOf
<1>5. X \subseteq Int /\ (b = 0 => X = {0})
  BY <1>1 DEF Extra
<1> HIDE DEF all, n, pot, b, f, fee, pay, hst, bst, X, P, sp
<1>6. Stake * 0 = 0 /\ \A k \in Nat : Stake * k \in Nat /\ Stake * (k + 1) = Stake * k + Stake
  BY <1>1
<1>7. \A x \in X : sp(0, x) = x
  BY <1>1, <1>3, <1>5, <1>6
<1>8. \A x \in X : sp(n, x) = Stake * n + x
  BY <1>1, <1>3
<1>9. \A x \in X : sp(n + b, x) = pot
  <2>1. CASE b = 0
    <3>1. \A x \in X : x = 0
      BY <1>5, <2>1
    <3>2. n + b = n /\ Stake * n + 0 = pot
      BY <1>1, <2>1
    <3> QED
      BY <1>8, <3>1, <3>2
  <2>2. CASE b = 1
    <3>1. n + b \in Nat /\ ~(n + b <= n)
      BY <1>1, <2>2
    <3> QED
      BY <1>3, <3>1
  <2> QED
    BY <1>1, <2>1, <2>2
<1>10. \A x : sp(n + b + 1, x) = fee
  <2>1. n + b + 1 \in Nat /\ ~(n + b + 1 <= n) /\ n + b + 1 # n + b
    BY <1>1
  <2> QED
    BY <1>3, <2>1
<1>11. \A x : sp(n + b + 2, x) = 0
  <2>1. n + b + 2 \in Nat /\ ~(n + b + 2 <= n) /\ n + b + 2 # n + b /\ n + b + 2 # n + b + 1
    BY <1>1
  <2> QED
    BY <1>3, <2>1
<1>12. Len(all) \in Nat /\ \A x : sp(Len(all), x) = 0
  <2>1. CASE f = 0
    <3>1. Len(all) = n + b + 1
      BY <1>1, <1>2, <2>1
    <3> QED
      BY <1>1, <1>10, <2>1, <3>1
  <2>2. CASE f = 1
    <3>1. Len(all) = n + b + 2
      BY <1>1, <1>2, <2>2
    <3> QED
      BY <1>1, <1>11, <3>1
  <2> QED
    BY <1>1, <2>1, <2>2
<1>13. \A k \in Nat : \A x \in X : sp(k, x) \in Int
  <2> SUFFICES ASSUME NEW k \in Nat, NEW x \in X PROVE sp(k, x) \in Int
    OBVIOUS
  <2>1. Stake * k \in Nat /\ x \in Int
    BY <1>5, <1>6
  <2> QED
    BY <1>1, <1>3, <2>1
<1>14. ASSUME NEW k \in 0 .. Len(all) - 1
       PROVE  \/ /\ all[k + 1].op = "consume" /\ all[k + 1].who \in P
                 /\ all[k + 1].amt = Stake
                 /\ \A x \in X : sp(k + 1, x) = sp(k, x) + Stake
              \/ /\ all[k + 1].op = "consume" /\ all[k + 1].who = House
                 /\ all[k + 1].amt = hst /\ b = 1
                 /\ \A x, y \in X : sp(k + 1, y) = sp(k, x) - x + bst
              \/ /\ all[k + 1].op = "credit"
                 /\ \A x, y \in X : sp(k + 1, y) = sp(k, x) - all[k + 1].amt
  <2>0. k \in Nat /\ k < n + b + 1 + f
    BY <1>1, <1>2
  <2>1. CASE k < n
    <3>1. k + 1 \in 1 .. n /\ k <= n /\ k + 1 <= n /\ k + 1 \in Nat
      BY <1>1, <2>0, <2>1
    <3>2. /\ all[k + 1] = [op |-> "consume", who |-> g.players[k + 1], amt |-> Stake]
          /\ g.players[k + 1] \in P
      <4> DEFINE i == k + 1
      <4>1. i \in 1 .. n
        BY <3>1
      <4> HIDE DEF i
      <4>2. all[i] = [op |-> "consume", who |-> g.players[i], amt |-> Stake] /\ g.players[i] \in P
        BY <1>2, <1>4, <4>1
      <4> QED
        BY <4>2 DEF i
    <3>3. \A x : sp(k, x) = Stake * k + x /\ sp(k + 1, x) = Stake * (k + 1) + x
      BY <1>3, <2>0, <3>1
    <3>4. ASSUME NEW x \in X PROVE sp(k + 1, x) = sp(k, x) + Stake
      <4>1. x \in Int /\ Stake * k \in Nat /\ Stake * (k + 1) = Stake * k + Stake
        BY <1>5, <1>6, <2>0
      <4>2. sp(k, x) = Stake * k + x /\ sp(k + 1, x) = Stake * (k + 1) + x
        BY <3>3
      <4> QED
        BY <1>1, <4>1, <4>2
    <3> QED
      BY <3>2, <3>4
  <2>2. CASE k = n /\ b = 1
    <3>1. all[k + 1].op = "consume" /\ all[k + 1].amt = hst /\ all[k + 1].who = House
      BY <1>2, <2>2
    <3>2. \A x, y \in X : sp(k, x) = Stake * n + x /\ sp(k + 1, y) = pot
      BY <1>8, <1>9, <2>2
    <3>3. ASSUME NEW x \in X, NEW y \in X PROVE sp(k + 1, y) = sp(k, x) - x + bst
      <4>1. sp(k, x) = Stake * n + x /\ sp(k + 1, y) = pot
        BY <3>2
      <4>2. x \in Int /\ Stake * n \in Nat
        BY <1>1, <1>5, <1>6
      <4> QED
        BY <1>1, <4>1, <4>2
    <3> QED
      BY <2>2, <3>1, <3>3
  <2>3. CASE k = n + b
    <3>1. all[k + 1].op = "credit" /\ all[k + 1].amt = pay
      BY <1>2, <2>3
    <3>2. \A x, y \in X : sp(k, x) = pot /\ sp(k + 1, y) = fee
      BY <1>9, <1>10, <2>3
    <3>3. pot - pay = fee
      BY <1>1
    <3> QED
      BY <3>1, <3>2, <3>3
  <2>4. CASE k = n + b + 1
    <3>1. f = 1 /\ k + 1 = n + b + 2
      BY <1>1, <2>0, <2>4
    <3>2. all[k + 1].op = "credit" /\ all[k + 1].amt = fee
      BY <1>2, <3>1
    <3>3. \A x, y \in X : sp(k, x) = fee /\ sp(k + 1, y) = 0
      BY <1>10, <1>11, <2>4, <3>1
    <3>4. fee - fee = 0
      BY <1>1
    <3> QED
      BY <3>2, <3>3, <3>4
  <2>5. k < n \/ (k = n /\ b = 1) \/ k = n + b \/ k = n + b + 1
    <3>1. CASE b = 0
      BY <1>1, <2>0, <3>1
    <3>2. CASE b = 1
      BY <1>1, <2>0, <3>2
    <3> QED
      BY <1>1, <3>1, <3>2
  <2> QED
    BY <2>1, <2>2, <2>3, <2>4, <2>5
<1>15. \A k \in 0 .. Len(all) : k \in Nat
  BY <1>12
<1>16. \A k \in 0 .. Len(all) : \A x \in X : sp(k, x) \in Int
  BY <1>13, <1>15
<1> QED
  BY <1>1, <1>7, <1>12, <1>14, <1>16 DEF all, sp, X, P, hst, bst

\* One wallet changes: the sum of all points changes by as much.
LEMMA PointsMoved ==
  ASSUME LedgerInv, LedgerInv', FinitelyMany, NEW a \in Accounts,
         \A c \in Accounts \ {a} : wallet'[c] = wallet[c]
  PROVE  /\ AllPoints \in Int
         /\ AllPoints' = AllPoints + (wallet'[a].bal + wallet'[a].frz) - (wallet[a].bal + wallet[a].frz)
<1> DEFINE P == [c \in Accounts |-> wallet[c].bal + wallet[c].frz]
           Q == [c \in Accounts |-> wallet'[c].bal + wallet'[c].frz]
<1>1. \A c \in Accounts : wallet[c] \in Wallet /\ wallet'[c] \in Wallet
  BY DEF LedgerInv, TypeOK
<1>2. \A c \in Accounts : P[c] \in Int /\ Q[c] \in Int
  BY <1>1 DEF Wallet
<1>3. AllPoints = SumFunctionOnSet(P, Accounts) /\ AllPoints' = SumFunctionOnSet(Q, Accounts)
  BY DEF AllPoints, SumFunction
<1>4. IsFiniteSet(Accounts)
  BY FS_AddElement DEF FinitelyMany, Accounts
<1>5. \A c \in Accounts \ {a} : P[c] = Q[c]
  OBVIOUS
<1>6. P[a] = wallet[a].bal + wallet[a].frz /\ Q[a] = wallet'[a].bal + wallet'[a].frz
  OBVIOUS
<1> HIDE DEF P, Q
<1>7. /\ SumFunctionOnSet(P, Accounts) \in Int
      /\ SumFunctionOnSet(Q, Accounts) = SumFunctionOnSet(P, Accounts) + Q[a] - P[a]
  BY <1>2, <1>4, <1>5, SumChange
<1> QED
  BY <1>3, <1>6, <1>7

-----------------------------------------------------------------------------
(* An operation is done: the points *)

\* Consuming takes out what was frozen, unfreezing adds what was not; settling and
\* adjusting add; nothing else changes the number of points.
LEMMA PointsAfter ==
  ASSUME NEW h \in Handlers, SInv(h), LedgerInv', FinitelyMany, hs[h].todo # <<>>, OpDone(h)
  PROVE  LET op == hs[h].todo[1]
             t  == Taken(wallet[op.who], op.amt)
         IN  /\ AllPoints \in Int /\ op.amt \in Int
             /\ op.op \in Moving => t \in Nat
             /\ AllPoints' = IF op.op = "consume" THEN AllPoints - t
                             ELSE IF op.op = "unfreeze" THEN AllPoints + op.amt - t
                             ELSE IF op.op \in {"credit", "adjust"} THEN AllPoints + op.amt
                             ELSE AllPoints
<1> DEFINE op == hs[h].todo[1]
           a == op.who
           w == wallet[a]
           v == wallet'[a]
           t == Taken(w, op.amt)
<1>1. /\ a \in Accounts
      /\ \A c \in Accounts \ {a} : wallet'[c] = wallet[c]
      /\ v.frz = IF op.op = "freeze" THEN w.frz + op.amt
                 ELSE IF op.op \in Moving THEN w.frz - t ELSE w.frz
      /\ v.bal = IF op.op = "freeze" THEN w.bal - op.amt
                 ELSE IF op.op \in {"consume", "reset"} THEN w.bal ELSE w.bal + op.amt
      /\ op.op \in Moving => t \in Nat
      /\ op.op = "refund" => t = op.amt
  BY WalletsAfter
<1>2. op.amt \in Int /\ w \in Wallet /\ op.op \in Locked \cup Unlocked
  BY HeadOp DEF SInv
<1>3. v \in Wallet
  BY <1>1 DEF LedgerInv, TypeOK
<1>4. w.bal \in Int /\ w.frz \in Int /\ v.bal \in Int /\ v.frz \in Int
  BY <1>2, <1>3 DEF Wallet
<1>5. AllPoints \in Int /\ AllPoints' = AllPoints + (v.bal + v.frz) - (w.bal + w.frz)
  BY <1>1, PointsMoved DEF SInv
<1> HIDE DEF op, a, w, v, t
<1>6. op.op \in Moving \cup {"credit", "reset", "adjust"}
  BY <1>2 DEF Locked, Unlocked, Moving
<1>7. v.bal + v.frz = IF op.op = "consume" THEN w.bal + w.frz - t
                      ELSE IF op.op = "unfreeze" THEN w.bal + w.frz + op.amt - t
                      ELSE IF op.op \in {"credit", "adjust"} THEN w.bal + w.frz + op.amt
                      ELSE w.bal + w.frz
  <2>1. CASE op.op = "freeze"
    BY <1>1, <1>2, <1>4, <2>1
  <2>2. CASE op.op = "consume"
    BY <1>1, <1>2, <1>4, <2>2 DEF Moving
  <2>3. CASE op.op = "unfreeze"
    BY <1>1, <1>2, <1>4, <2>3 DEF Moving
  <2>4. CASE op.op = "refund"
    BY <1>1, <1>2, <1>4, <2>4 DEF Moving
  <2>5. CASE op.op \in {"credit", "adjust"}
    BY <1>1, <1>2, <1>4, <2>5 DEF Moving
  <2>6. CASE op.op = "reset"
    BY <1>1, <1>2, <1>4, <2>6 DEF Moving
  <2> QED
    BY <1>6, <2>1, <2>2, <2>3, <2>4, <2>5, <2>6 DEF Moving
<1>8. AllPoints' = IF op.op = "consume" THEN AllPoints - t
                   ELSE IF op.op = "unfreeze" THEN AllPoints + op.amt - t
                   ELSE IF op.op \in {"credit", "adjust"} THEN AllPoints + op.amt
                   ELSE AllPoints
  <2>1. CASE op.op \in {"consume", "unfreeze"}
    <3>1. t \in Nat
      BY <1>1, <2>1 DEF Moving
    <3> QED
      BY <1>2, <1>4, <1>5, <1>7, <2>1, <3>1
  <2>2. CASE op.op \in {"credit", "adjust"}
    BY <1>2, <1>4, <1>5, <1>7, <2>2
  <2>3. CASE op.op \notin {"consume", "unfreeze", "credit", "adjust"}
    BY <1>2, <1>4, <1>5, <1>7, <2>3
  <2> QED
    BY <2>1, <2>2, <2>3
<1> QED
  BY <1>1, <1>2, <1>5, <1>8 DEF op, t, w, a

\* After an operation the next unfreeze, which is of another player of an assembled
\* match, finds its stake.
LEMMA OwedDone ==
  ASSUME NEW h \in Handlers, SInv(h), hs[h].todo # <<>>, OpDone(h)
  PROVE  Owed(hs[h])' = 0
<1> DEFINE todo == hs[h].todo
           todo2 == hs'[h].todo
           g == hs[h].game
<1>1. todo2 = Tail(todo) /\ todo \in Seq(Op)
  BY RestFields, HandlerFields DEF SInv, OpDone, LedgerInv, TypeOK
<1>2. /\ Len(todo) \in Nat \ {0} /\ Len(todo2) = Len(todo) - 1 /\ todo2 \in Seq(Op)
      /\ \A i \in 1 .. Len(todo) - 1 : i + 1 \in 1 .. Len(todo) /\ todo2[i] = todo[i + 1]
  <2> HIDE DEF todo2, todo
  <2> QED
    BY <1>1, TailFacts DEF todo
<1>3. SUFFICES ASSUME todo2 # <<>>, todo2[1].op = "unfreeze"
               PROVE  todo2[1].amt - Taken(wallet'[todo2[1].who], todo2[1].amt) = 0
  BY DEF Owed, Taken, Minus
<1>4. 1 \in 1 .. Len(todo) /\ 2 \in 1 .. Len(todo) /\ todo2[1] = todo[2]
  <2> HIDE DEF todo, todo2
  <2>1. Len(todo2) \in Nat \ {0}
    BY <1>2, <1>3, TailFacts
  <2>2. Len(todo) >= 2 /\ 1 \in 1 .. Len(todo) - 1
    BY <1>2, <2>1
  <2>3. todo2[1] = todo[1 + 1]
    BY <1>2, <2>2
  <2> QED
    BY <1>2, <2>2, <2>3
<1>5. g \in Games /\ GameCallOK(hs[h], g)
  <2>1. g \in Games \cup {NoGame}
    BY HandlerFields DEF SInv, LedgerInv, TypeOK
  <2>2. g # NoGame
    <3> SUFFICES ASSUME g = NoGame PROVE FALSE
      OBVIOUS
    <3>1. Len(todo) <= 1
      BY DEF SInv, SerialInvOf, CallOK, OtherCallOK
    <3> HIDE DEF todo
    <3> QED
      BY <1>2, <1>4, <3>1
  <2> QED
    BY <2>1, <2>2 DEF SInv, SerialInvOf, CallOK
<1>6. /\ stage[g] = "forming" /\ hs[h].next = "closed"
      /\ \A i \in 1 .. Len(todo) : todo[i].op = "unfreeze"
  BY <1>3, <1>4, <1>5 DEF GameCallOK
<1>7. todo[1].who # todo[2].who
  <2>1. Distinct(todo)
    BY <1>5 DEF GameCallOK
  <2>2. todo[1].op \in Moving /\ todo[2].op \in Moving
    BY <1>4, <1>6 DEF Moving
  <2> HIDE DEF todo
  <2>3. todo[1].who = todo[2].who => 1 = 2
    BY <1>4, <2>1, <2>2 DEF Distinct
  <2> QED
    BY <2>3
<1>8. /\ todo[1].who \in PlayersOf(g)
      /\ todo[2].who \in PlayersOf(g) /\ todo[2].amt = Stake
  <2>1. StakeOp(g, todo[1]) /\ StakeOp(g, todo[2])
    BY <1>4, <1>5, <1>6 DEF GameCallOK, Moving
  <2> HIDE DEF todo
  <2> QED
    BY <1>4, <1>6, <2>1 DEF StakeOp
<1>9. g.kind = "assembled"
  <2> SUFFICES ASSUME g.kind # "assembled" PROVE FALSE
    OBVIOUS
  <2>1. g.kind = "fallback"
    BY <1>5, PlayersAreUsers
  <2>2. Len(g.players) = 1
    BY <1>5, <2>1, LedgerAssumption
  <2>3. \A u, v \in PlayersOf(g) : u = v
    BY <2>2 DEF PlayersOf
  <2> HIDE DEF todo, g
  <2> QED
    BY <1>7, <1>8, <2>3
<1> DEFINE u == todo[2].who
<1>10. wallet'[u] = wallet[u] /\ u \in Users /\ wallet[u] \in Wallet
  <2>1. \A a \in Accounts \ {todo[1].who} : wallet'[a] = wallet[a]
    BY WalletsAfter
  <2>2. u \in Users
    BY <1>5, <1>8, PlayersAreUsers
  <2>3. u \in Accounts
    BY <2>2 DEF Accounts
  <2> QED
    BY <1>7, <2>1, <2>2, <2>3 DEF SInv, LedgerInv, TypeOK
<1>11. wallet[u].frz = Stake
  <2>1. Awaits(hs[h], u, Returning)
    BY <1>4, <1>6 DEF Awaits, Returning
  <2>2. Frozen(hs[h], g, u)
    BY <1>6, <2>1 DEF Frozen
  <2>3. \A x \in Games : stage[x] = "forming" => x = g
    BY DEF SInv, SerialInvOf, CallOK
  <2>4. ~Unfrozen(hs[h], u)
    BY <1>9, <2>3 DEF Unfrozen
  <2> QED
    BY <1>5, <1>6, <1>8, <2>2, <2>4, FrozenOnce DEF EngagedStage, SInv, SerialInvOf
<1>12. Stake \in Nat /\ Taken(wallet[u], Stake) = Stake
  <2> HIDE DEF u
  <2>1. Stake \in Nat /\ Stake <= wallet[u].frz
    BY <1>11, LedgerAssumption
  <2> QED
    BY <1>10, <2>1, TakenFacts
<1> QED
  BY <1>4, <1>8, <1>10, <1>12

LEMMA DueInt ==
  ASSUME LedgerInv, FinitelyMany
  PROVE  InitialPoints \in Int /\ injected \in Int /\ made \in Int
<1>1. Cardinality(Users) \in Nat
  BY FS_CardinalityType DEF FinitelyMany
<1>2. UserBalance * Cardinality(Users) \in Nat
  BY <1>1, LedgerAssumption, ProductNat
<1> QED
  BY <1>2, LedgerAssumption DEF InitialPoints, LedgerInv, TypeOK

LEMMA PointsDone ==
  ASSUME NEW h \in Handlers, SInv(h), LedgerInv', FinitelyMany,
         hs[h].todo # <<>>, OpDone(h), stage' = stage
  PROVE  PointsOK(hs[h])'
<1> DEFINE op == hs[h].todo[1]
           t  == Taken(wallet[op.who], op.amt)
           todo == hs[h].todo
           todo2 == hs'[h].todo
<1>1. /\ AllPoints \in Int /\ op.amt \in Int
      /\ op.op \in Moving => t \in Nat
      /\ AllPoints' = IF op.op = "consume" THEN AllPoints - t
                      ELSE IF op.op = "unfreeze" THEN AllPoints + op.amt - t
                      ELSE IF op.op \in {"credit", "adjust"} THEN AllPoints + op.amt
                      ELSE AllPoints
  BY PointsAfter
<1>2. /\ todo2 = Tail(todo) /\ hs'[h].game = hs[h].game
  BY RestFields DEF SInv, OpDone
<1>3. /\ Len(todo) \in Nat \ {0} /\ Len(todo2) = Len(todo) - 1
      /\ \A i \in 1 .. Len(todo2) : i + 1 \in 1 .. Len(todo) /\ todo2[i] = todo[i + 1]
  <2>1. todo \in Seq(Op)
    BY HandlerFields DEF SInv, LedgerInv, TypeOK
  <2> HIDE DEF todo2, todo
  <2> QED
    BY <1>2, <2>1, TailFacts DEF todo
<1>4. injected' = (IF op.op = "adjust" THEN injected + op.amt ELSE injected) /\ made' = made
  BY DEF OpDone
<1>5. injected \in Int /\ InitialPoints \in Int /\ made \in Int
  BY DueInt DEF SInv
<1>6. PointsOK(hs[h])
  BY DEF SInv, SerialInvOf
<1>7. CASE /\ \A i \in 1 .. Len(todo) : todo[i].op \notin {"consume", "credit"}
           /\ AllPoints + Owed(hs[h]) = PointsDue
  <2>1. \A i \in 1 .. Len(todo2) : todo2[i].op \notin {"consume", "credit"}
    BY <1>3, <1>7
  <2>2. op.op \notin {"consume", "credit"}
    BY <1>3, <1>7
  <2>3. Owed(hs[h])' = 0
    BY OwedDone
  <2>4. Owed(hs[h]) = IF op.op = "unfreeze" THEN op.amt - t ELSE 0
    BY DEF Owed
  <2>5. AllPoints + (IF op.op = "unfreeze" THEN op.amt - t ELSE 0) = InitialPoints + injected + made
    BY <1>7, <2>4 DEF PointsDue
  <2>6. AllPoints' + 0 = InitialPoints + injected' + made'
    <3> HIDE DEF op, t
    <3>1. CASE op.op = "unfreeze"
      BY <1>1, <1>4, <1>5, <2>5, <3>1 DEF Moving
    <3>2. CASE op.op # "unfreeze"
      BY <1>1, <1>4, <1>5, <2>2, <2>5, <3>2
    <3> QED
      BY <3>1, <3>2
  <2> QED
    BY <2>1, <2>3, <2>6 DEF PointsOK, PointsDue, InitialPoints
<1>8. CASE /\ hs[h].game \in Games /\ stage[hs[h].game] = "closing"
           /\ \E w \in Accounts : \E k \in 0 .. Len(Settlement(hs[h].game, w)) :
                /\ SettlingAt(hs[h], hs[h].game, w, k)
                /\ AllPoints + Spent(hs[h].game, k, Unfunded(hs[h].game)) = PointsDue
  <2>0. PICK g \in Games : g = hs[h].game /\ stage[g] = "closing"
    BY <1>8
  <2> DEFINE U == Unfunded(g)
             bst == Stake * BotCount(g)
             hst == HouseStake(g)
             U2 == IF BotCount(g) > 0 THEN Stake * BotCount(g) - Taken(wallet'[House], HouseStake(g)) ELSE 0
  <2>1. PICK w \in Accounts : \E k \in 0 .. Len(Settlement(g, w)) :
                /\ SettlingAt(hs[h], g, w, k)
                /\ AllPoints + Spent(g, k, U) = InitialPoints + injected + made
    BY <1>8, <2>0 DEF PointsDue
  <2>2. PICK k \in 0 .. Len(Settlement(g, w)) :
                /\ SettlingAt(hs[h], g, w, k)
                /\ AllPoints + Spent(g, k, U) = InitialPoints + injected + made
    BY <2>1
  <2> DEFINE all == Settlement(g, w)
  <2>3. /\ Len(all) \in Nat
        /\ \A i \in 0 .. Len(all) : \A x \in Extra(g) : Spent(g, i, x) \in Int
        /\ \A i \in 0 .. Len(all) - 1 :
             \/ /\ all[i + 1].op = "consume" /\ all[i + 1].who \in PlayersOf(g)
                /\ all[i + 1].amt = Stake
                /\ \A x \in Extra(g) : Spent(g, i + 1, x) = Spent(g, i, x) + Stake
             \/ /\ all[i + 1].op = "consume" /\ all[i + 1].who = House
                /\ all[i + 1].amt = HouseStake(g) /\ BotCount(g) > 0
                /\ \A x, y \in Extra(g) : Spent(g, i + 1, y) = Spent(g, i, x) - x + Stake * BotCount(g)
             \/ /\ all[i + 1].op = "credit"
                /\ \A x, y \in Extra(g) : Spent(g, i + 1, y) = Spent(g, i, x) - all[i + 1].amt
    BY SettlementSteps
  <2>4. /\ k \in 0 .. Len(all) /\ Len(todo) = Len(all) - k
        /\ \A i \in 1 .. Len(todo) : todo[i] = all[k + i]
    BY <2>2 DEF SettlingAt
  <2>5. /\ U \in Extra(g) /\ U2 \in Extra(g) /\ bst \in Int /\ hst \in Nat
        /\ BotCount(g) > 0 => U = bst - Taken(wallet[House], hst)
        /\ wallet'[House] = wallet[House] => U2 = U
        /\ Extra(g) \subseteq Int
    <3>1. wallet[House] \in Wallet /\ wallet'[House] \in Wallet
      BY DEF SInv, LedgerInv, TypeOK, Accounts
    <3>2. U = IF BotCount(g) > 0 THEN Stake * BotCount(g) - Taken(wallet[House], HouseStake(g)) ELSE 0
      BY DEF Unfunded
    <3>3. U \in Extra(g) /\ U2 \in Extra(g)
      BY <3>1, <3>2, UnfundedExtra
    <3>4. bst \in Nat /\ hst \in Nat
      BY StakesMakePot
    <3> QED
      BY <3>2, <3>3, <3>4 DEF Extra
  <2>6. Unfunded(hs[h].game)' = U2
    BY <1>2, <2>0 DEF Unfunded, Taken, Minus, BotCount, HouseStake
  <2> HIDE DEF all, todo, todo2, U, U2, bst, hst
  <2>7. k \in 0 .. Len(all) - 1 /\ k + 1 \in 0 .. Len(all)
    BY <1>3, <2>3, <2>4
  <2>8. op = all[k + 1]
    <3>1. 1 \in 1 .. Len(todo)
      BY <1>3
    <3> QED
      BY <2>4, <3>1 DEF todo
  <2>9. SettlingAt(hs'[h], g, w, k + 1)
    <3>1. Len(todo2) = Len(all) - (k + 1)
      BY <1>3, <2>3, <2>4
    <3>2. \A i \in 1 .. Len(todo2) : todo2[i] = all[k + 1 + i]
      <4> TAKE i \in 1 .. Len(todo2)
      <4>1. todo2[i] = todo[i + 1] /\ i + 1 \in 1 .. Len(todo)
        BY <1>3
      <4>2. todo[i + 1] = all[k + (i + 1)]
        BY <2>4, <4>1
      <4>3. k + (i + 1) = k + 1 + i
        BY <1>3, <2>4
      <4> QED
        BY <4>1, <4>2, <4>3
    <3> QED
      BY <2>7, <3>1, <3>2 DEF SettlingAt, all, todo2
  <2>10. AllPoints' + Spent(g, k + 1, U2) = InitialPoints + injected' + made'
    <3>1. Spent(g, k, U) \in Int
      BY <2>3, <2>4, <2>5
    <3>2. AllPoints + Spent(g, k, U) = InitialPoints + injected + made
      BY <2>2
    <3>3. CASE /\ op.op = "consume" /\ op.who \in PlayersOf(g) /\ op.amt = Stake
               /\ \A x \in Extra(g) : Spent(g, k + 1, x) = Spent(g, k, x) + Stake
      <4>1. op.who # House /\ wallet'[House] = wallet[House] /\ House \in Accounts
        <5>1. op.who # House /\ House \in Accounts
          BY <3>3, PlayersAreUsers DEF Accounts
        <5> QED
          BY <5>1, WalletsAfter
      <4>2. wallet[op.who].frz = Stake
        BY <3>3, <4>1, StakeIsFrozen DEF Returning, SInv, SerialInvOf
      <4>3. t = Stake /\ Stake \in Nat
        <5>1. Stake \in Nat /\ wallet[op.who] \in Wallet
          BY HeadOp, LedgerAssumption DEF SInv
        <5>2. Stake <= wallet[op.who].frz
          BY <4>2, <5>1
        <5>3. Taken(wallet[op.who], Stake) = Stake
          BY <5>1, <5>2, TakenFacts
        <5> QED
          BY <3>3, <5>1, <5>3
      <4>4. U2 = U /\ Spent(g, k + 1, U) = Spent(g, k, U) + Stake
        BY <2>5, <3>3, <4>1
      <4> HIDE DEF op, t
      <4>5. injected' = injected /\ AllPoints' = AllPoints - Stake
        BY <1>1, <1>4, <3>3, <4>3
      <4> QED
        BY <1>1, <1>4, <1>5, <3>1, <3>2, <4>3, <4>4, <4>5
    <3>4. CASE /\ op.op = "consume" /\ op.who = House /\ op.amt = HouseStake(g) /\ BotCount(g) > 0
               /\ \A x, y \in Extra(g) : Spent(g, k + 1, y) = Spent(g, k, x) - x + Stake * BotCount(g)
      <4>1. t = Taken(wallet[House], hst)
        BY <3>4 DEF hst
      <4>2. t \in Nat
        BY <1>1, <3>4 DEF Moving
      <4>3. U = bst - t /\ U \in Int
        BY <2>5, <3>4, <4>1
      <4>4. Spent(g, k + 1, U2) = Spent(g, k, U) - U + bst
        BY <2>5, <3>4 DEF bst
      <4> HIDE DEF op, t
      <4>5. injected' = injected /\ AllPoints' = AllPoints - t
        BY <1>1, <1>4, <3>4
      <4>6. Spent(g, k + 1, U2) = Spent(g, k, U) + t
        BY <2>5, <3>1, <4>2, <4>3, <4>4
      <4> QED
        BY <1>1, <1>4, <1>5, <3>1, <3>2, <4>2, <4>5, <4>6
    <3>5. CASE /\ op.op = "credit"
               /\ \A x, y \in Extra(g) : Spent(g, k + 1, y) = Spent(g, k, x) - op.amt
      <4>1. Spent(g, k + 1, U2) = Spent(g, k, U) - op.amt
        BY <2>5, <3>5
      <4> HIDE DEF op, t
      <4>2. injected' = injected /\ AllPoints' = AllPoints + op.amt
        BY <1>1, <1>4, <3>5
      <4> QED
        BY <1>1, <1>4, <1>5, <3>1, <3>2, <4>1, <4>2
    <3> HIDE DEF op
    <3> QED
      BY <2>3, <2>7, <2>8, <3>3, <3>4, <3>5
  <2>11. hs'[h].game = g /\ stage'[g] = "closing"
    BY <1>2, <2>0
  <2>12. k + 1 \in 0 .. Len(Settlement(g, w))
    BY <2>7 DEF all
  <2>13. \E wn \in Accounts : \E m \in 0 .. Len(Settlement(hs'[h].game, wn)) :
           /\ SettlingAt(hs'[h], hs'[h].game, wn, m)
           /\ AllPoints' + Spent(hs'[h].game, m, Unfunded(hs[h].game)') = PointsDue'
    BY <2>6, <2>9, <2>10, <2>11, <2>12 DEF PointsDue, InitialPoints
  <2>14. PointsOK(hs[h])'
    BY <2>11, <2>13 DEF PointsOK, SettlingAt, Settlement, Spent
  <2> QED
    BY <2>14
<1> QED
  BY <1>6, <1>7, <1>8 DEF PointsOK

-----------------------------------------------------------------------------
(* An operation is done: the call *)

LEMMA FreshDone ==
  ASSUME NEW h \in Handlers, SInv(h), hs[h].todo # <<>>,
         hs' = [hs EXCEPT ![h] = Rest(h, hs[h].todo[1])]
  PROVE  Fresh(hs[h])'
<1>1. hs'[h].copy = NoRow /\ hs'[h].seen = NoRow
  BY RestFields DEF SInv
<1> QED
  BY <1>1 DEF Fresh

LEMMA FreezeCoveredDone ==
  ASSUME NEW h \in Handlers, SInv(h), hs[h].todo # <<>>, OpDone(h), stage' = stage
  PROVE  FreezeCovered(hs[h])'
<1> DEFINE op == hs[h].todo[1]
<1>1. SUFFICES ASSUME NEW g \in Games, NEW u \in PlayersOf(g), u \notin Adjusted, g.kind = "fallback",
                      \/ stage[g] = "queued"
                      \/ stage[g] = "forming" /\ hs'[h].next = "open" /\ Awaits(hs'[h], u, {"freeze"})
               PROVE  wallet'[u].bal >= Stake
  BY DEF FreezeCovered, PlayersOf, Awaits
<1>2. /\ op.who \in Accounts /\ op \in Op /\ op.op \in Locked \cup Unlocked
      /\ op.op # "adjust" => op.amt \in Nat
  BY HeadOp DEF SInv
<1>3. /\ \A a \in Accounts \ {op.who} : wallet'[a] = wallet[a]
      /\ wallet'[op.who].bal = IF op.op = "freeze" THEN wallet[op.who].bal - op.amt
                               ELSE IF op.op \in {"consume", "reset"} THEN wallet[op.who].bal
                               ELSE wallet[op.who].bal + op.amt
  BY WalletsAfter
<1>4. u \in Users /\ u \in Accounts /\ u # House /\ Stake \in Nat
  BY PlayersAreUsers DEF Accounts
<1>5. hs'[h].todo = Tail(hs[h].todo) /\ hs'[h].next = hs[h].next /\ hs[h].todo \in Seq(Op)
  BY RestFields, HandlerFields DEF SInv, OpDone, LedgerInv, TypeOK
<1>6. stage[g] = "forming" => hs[h].game = g /\ Distinct(hs[h].todo)
  BY DEF SInv, SerialInvOf, CallOK, GameCallOK
<1>7. stage[g] = "forming" /\ Awaits(hs'[h], u, {"freeze"}) =>
        Awaits(hs[h], u, {"freeze"}) /\ ~(op.who = u /\ op.op \in {"freeze"})
  <2> DEFINE kinds == {"freeze"}
  <2>1. kinds \subseteq Moving
    BY DEF Moving
  <2> HIDE DEF kinds
  <2>2. stage[g] = "forming" /\ Awaits(hs'[h], u, kinds) =>
          Awaits(hs[h], u, kinds) /\ ~(op.who = u /\ op.op \in kinds)
    BY <1>5, <1>6, <2>1, AwaitsTail
  <2> QED
    BY <2>2 DEF kinds
<1>8. wallet[u].bal >= Stake
  <2>1. FreezeCovered(hs[h])
    BY DEF SInv, SerialInvOf
  <2> QED
    BY <1>1, <1>5, <1>7, <2>1 DEF FreezeCovered
<1>9. wallet[u].bal \in Nat
  BY <1>4 DEF SInv, LedgerInv, TypeOK, Wallet
<1>10. CASE u # op.who
  BY <1>3, <1>4, <1>8, <1>10
<1>11. CASE u = op.who
  <2>1. op.op # "freeze"
    <3> SUFFICES ASSUME op.op = "freeze" PROVE FALSE
      OBVIOUS
    <3>1. /\ hs[h].game \in Games /\ StakeOp(hs[h].game, op)
          /\ stage[hs[h].game] \in {"forming", "closing"}
      BY FirstStakeMove DEF SInv, SerialInvOf, Moving
    <3>2. u \in PlayersOf(hs[h].game)
      BY <1>4, <1>11, <3>1 DEF StakeOp
    <3>3. stage[g] \in EngagedStage /\ stage[hs[h].game] \in EngagedStage
      BY <1>1, <3>1 DEF EngagedStage
    <3>4. g = hs[h].game
      BY <3>1, <3>2, <3>3 DEF SInv, SerialInvOf, OneGameEach
    <3>5. stage[g] = "forming" /\ Awaits(hs'[h], u, {"freeze"})
      BY <1>1, <3>1, <3>4
    <3> QED
      BY <1>7, <1>11, <3>5
  <2>2. op.op # "adjust"
    <3> SUFFICES ASSUME op.op = "adjust" PROVE FALSE
      OBVIOUS
    <3>1. op.who \in Adjusted
      BY OtherOp DEF Moving
    <3> QED
      BY <1>1, <1>11, <3>1
  <2>3. op.amt \in Nat
    BY <1>2, <2>2
  <2> HIDE DEF op
  <2>4. wallet'[u].bal = wallet[u].bal \/ wallet'[u].bal = wallet[u].bal + op.amt
    BY <1>3, <1>11, <2>1
  <2> QED
    BY <1>4, <1>8, <1>9, <2>3, <2>4
<1> QED
  BY <1>10, <1>11

\* What is left to undo after a freeze.
LEMMA UndoDone ==
  ASSUME NEW h \in Handlers, SInv(h), hs[h].todo # <<>>,
         hs' = [hs EXCEPT ![h] = Rest(h, hs[h].todo[1])], stage' = stage,
         NEW g \in Games, hs[h].game = g, hs[h].next = "open", stage[g] = "forming"
  PROVE  UndoOK(hs[h], g)'
<1> DEFINE op == hs[h].todo[1]
           undo == hs[h].undo
           undo2 == hs'[h].undo
           m == Len(undo)
           new == [op EXCEPT !.op = "unfreeze"]
<1>1. GameCallOK(hs[h], g)
  BY DEF SInv, SerialInvOf, CallOK
<1>2. UndoOK(hs[h], g) /\ \A i \in 1 .. Len(hs[h].todo) : hs[h].todo[i].op = "freeze"
  BY <1>1 DEF GameCallOK
<1>3. /\ hs[h].todo \in Seq(Op) /\ undo \in Seq(Op)
      /\ 1 \in 1 .. Len(hs[h].todo) /\ Awaits(hs[h], op.who, {op.op}) /\ op \in Op
  BY HandlerFields, FirstAwaited, HeadOp DEF SInv, LedgerInv, TypeOK
<1>4. op.op = "freeze" /\ Awaits(hs[h], op.who, {"freeze"})
  BY <1>2, <1>3
<1>5. StakeOp(g, op) /\ Distinct(hs[h].todo)
  BY <1>1, <1>3, <1>4 DEF GameCallOK, Moving
<1>6. /\ hs'[h].todo = Tail(hs[h].todo)
      /\ undo2 = IF op.op = "freeze" /\ g.kind = "assembled" THEN Append(undo, new) ELSE undo
  BY RestFields DEF SInv
<1>7. \A u \in PlayersOf(g) : Awaits(hs'[h], u, {"freeze"}) <=> Awaits(hs[h], u, {"freeze"}) /\ op.who # u
  <2> TAKE u \in PlayersOf(g)
  <2> DEFINE kinds == {"freeze"}
  <2>1. kinds \subseteq Moving /\ op.op \in kinds
    BY <1>4 DEF Moving
  <2> HIDE DEF kinds
  <2>2. Awaits(hs'[h], u, kinds) <=> Awaits(hs[h], u, kinds) /\ ~(op.who = u /\ op.op \in kinds)
    <3>1. hs[h].todo \in Seq(Op) /\ Distinct(hs[h].todo) /\ hs'[h].todo = Tail(hs[h].todo)
      BY <1>3, <1>5, <1>6
    <3> HIDE DEF undo2, new, undo, m
    <3> QED
      BY <2>1, <3>1, AwaitsTail
  <2> QED
    BY <2>1, <2>2 DEF kinds
<1>8. /\ \A i \in 1 .. m :
           undo[i].op = "unfreeze" /\ undo[i].who \in PlayersOf(g) /\ undo[i].amt = Stake
      /\ Distinct(undo)
      /\ \A u \in PlayersOf(g) :
           (\E i \in 1 .. m : undo[i].who = u) <=> (g.kind = "fallback" \/ ~Awaits(hs[h], u, {"freeze"}))
  BY <1>2 DEF UndoOK
<1>9. g.kind \in {"assembled", "fallback"}
  BY PlayersAreUsers
<1>10. SUFFICES /\ \A i \in 1 .. Len(undo2) :
                     undo2[i].op = "unfreeze" /\ undo2[i].who \in PlayersOf(g) /\ undo2[i].amt = Stake
                /\ Distinct(undo2)
                /\ \A u \in PlayersOf(g) :
                     (\E i \in 1 .. Len(undo2) : undo2[i].who = u)
                       <=> (g.kind = "fallback" \/ ~Awaits(hs'[h], u, {"freeze"}))
  BY DEF UndoOK, Distinct, Awaits, PlayersOf
<1>11. CASE g.kind = "fallback"
  <2>1. undo2 = undo
    BY <1>6, <1>11
  <2> HIDE DEF undo2
  <2> QED
    BY <1>8, <1>11, <2>1
<1>12. CASE g.kind = "assembled"
  <2>1. undo2 = Append(undo, new)
    BY <1>4, <1>6, <1>12
  <2>2. op.who \in PlayersOf(g) /\ op.amt = Stake
    BY <1>4, <1>5, <1>12 DEF StakeOp
  <2>3. new.op = "unfreeze" /\ new.who = op.who /\ new.amt = op.amt
    <3> HIDE DEF op
    <3> QED
      BY <1>3 DEF Op
  <2>4. ~(\E i \in 1 .. m : undo[i].who = op.who)
    BY <1>4, <1>8, <1>12, <2>2
  <2> HIDE DEF undo2, new, undo, op, m
  <2>5. /\ m \in Nat /\ Len(undo2) = m + 1 /\ undo2[m + 1] = new
        /\ \A i \in 1 .. m : undo2[i] = undo[i]
    BY <1>3, <2>1 DEF m
  <2>6. \A i \in 1 .. m + 1 : i = m + 1 \/ i \in 1 .. m
    BY <2>5
  <2>7. m + 1 \in 1 .. m + 1 /\ \A i \in 1 .. m : i \in 1 .. m + 1
    BY <2>5
  <2>8. \A i \in 1 .. Len(undo2) :
          undo2[i].op = "unfreeze" /\ undo2[i].who \in PlayersOf(g) /\ undo2[i].amt = Stake
    BY <1>8, <2>2, <2>3, <2>5, <2>6
  <2>9. Distinct(undo2)
    <3> SUFFICES ASSUME NEW i \in 1 .. m + 1, NEW j \in 1 .. m + 1,
                        undo2[i].op \in Moving, undo2[j].op \in Moving, undo2[i].who = undo2[j].who
                 PROVE  i = j
      BY <2>5 DEF Distinct
    <3>1. CASE i \in 1 .. m /\ j \in 1 .. m
      BY <1>8, <2>5, <3>1 DEF Distinct, m
    <3>2. CASE i = m + 1 /\ j \in 1 .. m
      BY <2>3, <2>4, <2>5, <3>2
    <3>3. CASE j = m + 1 /\ i \in 1 .. m
      BY <2>3, <2>4, <2>5, <3>3
    <3> QED
      BY <2>6, <3>1, <3>2, <3>3
  <2>10. \A u \in PlayersOf(g) :
           (\E i \in 1 .. Len(undo2) : undo2[i].who = u) <=> ((\E i \in 1 .. m : undo[i].who = u) \/ u = op.who)
    BY <2>3, <2>5, <2>6, <2>7
  <2>11. \A u \in PlayersOf(g) :
           (\E i \in 1 .. Len(undo2) : undo2[i].who = u)
             <=> (g.kind = "fallback" \/ ~Awaits(hs'[h], u, {"freeze"}))
    BY <1>7, <1>8, <1>12, <2>10
  <2> QED
    BY <2>8, <2>9, <2>11
<1> QED
  BY <1>9, <1>11, <1>12

\* A call is in order after its first operation, too.
LEMMA CallDone ==
  ASSUME NEW h \in Handlers, SInv(h), hs[h].todo # <<>>,
         hs' = [hs EXCEPT ![h] = Rest(h, hs[h].todo[1])], stage' = stage,
         hs[h].todo[1].op = "reset" => wallet'[hs[h].todo[1].who] = wallet[hs[h].todo[1].who]
  PROVE  CallOK(hs[h])'
<1> DEFINE todo == hs[h].todo
           todo2 == hs'[h].todo
<1>1. /\ todo2 = Tail(todo) /\ hs'[h].game = hs[h].game /\ hs'[h].next = hs[h].next
      /\ hs'[h].busy = hs[h].busy
  BY RestFields DEF SInv
<1>2. todo \in Seq(Op) /\ hs[h].busy \in BOOLEAN
  BY HandlerFields DEF SInv, LedgerInv, TypeOK
<1>3. /\ Len(todo) \in Nat \ {0} /\ Len(todo2) = Len(todo) - 1 /\ todo2 \in Seq(Op)
      /\ \A i \in 1 .. Len(todo2) : i + 1 \in 1 .. Len(todo) /\ todo2[i] = todo[i + 1]
  <2> HIDE DEF todo2, todo
  <2> QED
    BY <1>1, <1>2, TailFacts DEF todo
<1>4. CallOK(hs[h])
  BY DEF SInv, SerialInvOf
<1>5. hs[h].busy
  BY <1>2, <1>4 DEF CallOK
<1>6. ASSUME NEW g \in Games, hs[h].game = g
      PROVE  GameCallOK(hs[h], g)'
  <2>1. GameCallOK(hs[h], g)
    BY <1>4, <1>6 DEF CallOK
  <2>2. \A i \in 1 .. Len(todo2) : todo2[i].op \in Moving => StakeOp(g, todo2[i])
    BY <1>3, <2>1 DEF GameCallOK
  <2>3. Distinct(todo2)
    <3>1. Distinct(todo)
      BY <2>1 DEF GameCallOK
    <3> HIDE DEF todo, todo2
    <3> QED
      BY <1>1, <1>2, <3>1, DistinctTail DEF todo
  <2>4. CASE /\ stage[g] = "forming" /\ hs[h].next = "open"
             /\ \A i \in 1 .. Len(todo) : todo[i].op = "freeze" /\ (todo[i].who = House => i = Len(todo))
    <3>1. UndoOK(hs[h], g)'
      BY <1>6, <2>4, UndoDone
    <3>2. \A i \in 1 .. Len(todo2) : todo2[i].op = "freeze" /\ (todo2[i].who = House => i = Len(todo2))
      <4> TAKE i \in 1 .. Len(todo2)
      <4>1. i + 1 \in 1 .. Len(todo) /\ todo2[i] = todo[i + 1]
        BY <1>3
      <4>2. todo[i + 1].op = "freeze" /\ (todo[i + 1].who = House => i + 1 = Len(todo))
        BY <2>4, <4>1
      <4> HIDE DEF todo, todo2
      <4>3. i + 1 = Len(todo) => i = Len(todo2)
        BY <1>3
      <4> QED
        BY <4>1, <4>2, <4>3
    <3>3. stage'[g] = "forming" /\ hs'[h].next = "open"
      BY <1>1, <2>4
    <3> QED
      BY <2>2, <2>3, <3>1, <3>2, <3>3 DEF GameCallOK, StakeOp, Distinct, PlayersOf, HouseStake
  <2>5. CASE /\ stage[g] = "forming" /\ hs[h].next = "closed"
             /\ \A i \in 1 .. Len(todo) : todo[i].op = "unfreeze"
    <3>1. \A i \in 1 .. Len(todo2) : todo2[i].op = "unfreeze"
      BY <1>3, <2>5
    <3>2. stage'[g] = "forming" /\ hs'[h].next = "closed"
      BY <1>1, <2>5
    <3> QED
      BY <2>2, <2>3, <3>1, <3>2 DEF GameCallOK, StakeOp, Distinct, PlayersOf, HouseStake
  <2>6. CASE /\ stage[g] = "closing" /\ hs[h].next = "closed"
             /\ \A i \in 1 .. Len(todo) : todo[i].op \in {"refund", "consume", "credit"}
    <3>1. \A i \in 1 .. Len(todo2) : todo2[i].op \in {"refund", "consume", "credit"}
      BY <1>3, <2>6
    <3>2. stage'[g] = "closing" /\ hs'[h].next = "closed"
      BY <1>1, <2>6
    <3> QED
      BY <2>2, <2>3, <3>1, <3>2 DEF GameCallOK, StakeOp, Distinct, PlayersOf, HouseStake
  <2> QED
    BY <2>1, <2>4, <2>5, <2>6 DEF GameCallOK
<1>7. ASSUME hs[h].game = NoGame
      PROVE  OtherCallOK(hs[h])'
  <2>1. OtherCallOK(hs[h])
    BY <1>4, <1>7 DEF CallOK
  <2> DEFINE n == Len(todo)
             n2 == Len(todo2)
  <2>2. n <= 1
    BY <2>1 DEF OtherCallOK
  <2>3. n \in Nat \ {0} /\ n2 = n - 1
    BY <1>3
  <2> HIDE DEF n, n2
  <2>4. n2 = 0
    BY <2>2, <2>3
  <2> QED
    BY <2>4 DEF OtherCallOK, n2
<1>8. \A g \in Games : stage'[g] \in {"forming", "closing"} <=> hs'[h].game = g
  BY <1>1, <1>4 DEF CallOK
<1>9. \A g \in Games : hs'[h].game = g => GameCallOK(hs[h], g)'
  BY <1>1, <1>6
<1> QED
  BY <1>1, <1>5, <1>7, <1>8, <1>9 DEF CallOK

\* What is the same while nothing is written and no other stake counts as frozen,
\* unless it is to be returned without being frozen.
LEMMA UserStakesSame ==
  ASSUME NEW h \in Handlers, SInv(h), wallet' = wallet,
         \A g \in Games : \A u \in PlayersOf(g) :
           (Frozen(hs[h], g, u)' <=> Frozen(hs[h], g, u)) \/ (wallet[u].frz = 0 /\ Unfrozen(hs[h], u)'),
         \A u \in Users : Unfrozen(hs[h], u) => Unfrozen(hs[h], u)'
  PROVE  UserStakes(hs[h])'
<1>1. SUFFICES ASSUME NEW u \in Users
               PROVE  \/ wallet[u].frz =
                           IF \E g \in Games : u \in PlayersOf(g) /\ Frozen(hs[h], g, u)' THEN Stake ELSE 0
                      \/ wallet[u].frz = 0 /\ Unfrozen(hs[h], u)'
  BY DEF UserStakes, PlayersOf
<1>2. \/ wallet[u].frz = IF \E g \in Games : u \in PlayersOf(g) /\ Frozen(hs[h], g, u) THEN Stake ELSE 0
      \/ wallet[u].frz = 0 /\ Unfrozen(hs[h], u)
  BY DEF SInv, SerialInvOf, UserStakes
<1>3. CASE wallet[u].frz = 0 /\ Unfrozen(hs[h], u)'
  BY <1>3
<1>4. CASE ~(wallet[u].frz = 0 /\ Unfrozen(hs[h], u)')
  <2>1. (\E g \in Games : u \in PlayersOf(g) /\ Frozen(hs[h], g, u)')
          <=> (\E g \in Games : u \in PlayersOf(g) /\ Frozen(hs[h], g, u))
    BY <1>4
  <2>2. wallet[u].frz = IF \E g \in Games : u \in PlayersOf(g) /\ Frozen(hs[h], g, u) THEN Stake ELSE 0
    BY <1>2, <1>4
  <2> QED
    BY <2>1, <2>2
<1> QED
  BY <1>3, <1>4

\* Operations that leave the points where they are.
Harmless(todo) == \A i \in 1 .. Len(todo) : todo[i].op \notin {"consume", "credit", "unfreeze"}

LEMMA NothingOwed ==
  ASSUME NEW hd, hd.todo \in Seq(Op), Harmless(hd.todo)
  PROVE  /\ Owed(hd) = 0
         /\ \A i \in 1 .. Len(hd.todo) : hd.todo[i].op \notin {"consume", "credit"}
<1>1. hd.todo # <<>> => 1 \in 1 .. Len(hd.todo)
  BY TailFacts
<1> QED
  BY <1>1 DEF Harmless, Owed

\* A call of such operations returns no stake that is not frozen.
LEMMA UserStakesKept ==
  ASSUME NEW h \in Handlers, SInv(h), wallet' = wallet, Harmless(hs[h].todo),
         \A g \in Games : \A u \in PlayersOf(g) : Frozen(hs[h], g, u)' <=> Frozen(hs[h], g, u)
  PROVE  UserStakes(hs[h])'
<1>1. \A u \in Users : ~Unfrozen(hs[h], u)
  BY DEF Harmless, Unfrozen, Awaits
<1> QED
  BY <1>1, UserStakesSame

LEMMA HouseStakesSame ==
  ASSUME NEW h \in Handlers, SInv(h), FinitelyMany, wallet' = wallet,
         \A g \in Games : g.kind = "fallback" => (Frozen(hs[h], g, House)' <=> Frozen(hs[h], g, House)),
         HouseStakes(hs[h])
  PROVE  HouseStakes(hs[h])'
<1> DEFINE F  == HeldInGame(hs[h])
           F2 == HeldInGame(hs[h])'
<1>1. \A g \in Games : F2[g] = F[g]
  BY DEF HeldInGame, HouseStake
<1>2. HouseHeld(hs[h]) = SumFunctionOnSet(F, Games) /\ HouseHeld(hs[h])' = SumFunctionOnSet(F2, Games)
  BY DEF HouseHeld
<1> HIDE DEF F, F2
<1>3. SumFunctionOnSet(F2, Games) = SumFunctionOnSet(F, Games)
  BY <1>1, SumSame DEF FinitelyMany
<1>4. HouseStakes(hs[h])'
  BY <1>2, <1>3 DEF HouseStakes
<1> QED
  BY <1>4

LEMMA OpDoneKeeps ==
  ASSUME NEW h \in Handlers, SInv(h), LedgerInv', FinitelyMany,
         hs[h].todo # <<>>, OpDone(h), stage' = stage
  PROVE  SInv(h)'
<1>1. hs[h].todo[1].op = "reset" => wallet'[hs[h].todo[1].who] = wallet[hs[h].todo[1].who]
  <2> SUFFICES ASSUME hs[h].todo[1].op = "reset"
               PROVE  wallet'[hs[h].todo[1].who] = wallet[hs[h].todo[1].who]
    OBVIOUS
  <2> DEFINE op == hs[h].todo[1]
  <2>1. op.who \in Accounts /\ wallet'[op.who].frz = wallet[op.who].frz
        /\ wallet'[op.who].bal = wallet[op.who].bal
    BY WalletsAfter DEF Moving
  <2>2. wallet'[op.who] \in Wallet /\ wallet[op.who] \in Wallet
    BY <2>1 DEF SInv, LedgerInv, TypeOK
  <2> QED
    BY <2>1, <2>2 DEF Wallet
<1>2. hs' = [hs EXCEPT ![h] = Rest(h, hs[h].todo[1])]
  BY DEF OpDone
<1>3. OneGameEach'
  BY DEF SInv, SerialInvOf, OneGameEach, PlayersOf
<1>4. StakedGames => PutUp(hs[h])'
  <2> SUFFICES ASSUME StakedGames PROVE PutUp(hs[h])'
    OBVIOUS
  <2>1. HouseStakes(hs[h]) /\ made = 0
    BY DEF SInv, SerialInvOf, PutUp
  <2>2. HouseStakes(hs[h])'
    BY <2>1, HouseStakesDone
  <2>3. made' = 0
    BY <2>1 DEF OpDone
  <2> QED
    BY <2>2, <2>3 DEF PutUp
<1>5. Fresh(hs[h])' /\ CallOK(hs[h])' /\ UserStakes(hs[h])' /\ PointsOK(hs[h])'
  BY <1>1, <1>2, FreshDone, CallDone, UserStakesDone, PointsDone
<1>6. FreezeCovered(hs[h])'
  BY FreezeCoveredDone
<1> QED
  BY <1>3, <1>4, <1>5, <1>6 DEF SInv, SerialInvOf

-----------------------------------------------------------------------------
(* A call fails to freeze, reads a row, leaves an adjustment, or ends *)

LEMMA PointsInt ==
  ASSUME LedgerInv, FinitelyMany
  PROVE  AllPoints \in Int
<1> DEFINE P == [c \in Accounts |-> wallet[c].bal + wallet[c].frz]
<1>1. \A c \in Accounts : P[c] \in Int
  <2>1. \A c \in Accounts : wallet[c] \in Wallet
    BY DEF LedgerInv, TypeOK
  <2> QED
    BY <2>1 DEF Wallet
<1>2. AllPoints = SumFunctionOnSet(P, Accounts)
  BY DEF AllPoints, SumFunction
<1>3. IsFiniteSet(Accounts)
  BY FS_AddElement DEF FinitelyMany, Accounts
<1> HIDE DEF P
<1> QED
  BY <1>1, <1>2, <1>3, SumInt

\* All points are there while no settlement is half done, but what is owed.
LEMMA NothingSpent ==
  ASSUME NEW h \in Handlers, SInv(h), FinitelyMany,
         \A i \in 1 .. Len(hs[h].todo) : hs[h].todo[i].op \notin {"consume", "credit"}
  PROVE  AllPoints + Owed(hs[h]) = PointsDue
<1>1. CASE AllPoints + Owed(hs[h]) = PointsDue
  BY <1>1
<1>2. CASE /\ hs[h].game \in Games
           /\ \E w \in Accounts : \E k \in 0 .. Len(Settlement(hs[h].game, w)) :
                /\ SettlingAt(hs[h], hs[h].game, w, k)
                /\ AllPoints + Spent(hs[h].game, k, Unfunded(hs[h].game)) = PointsDue
  <2> DEFINE g == hs[h].game
             todo == hs[h].todo
             U == Unfunded(g)
  <2>1. PICK w \in Accounts : \E k \in 0 .. Len(Settlement(g, w)) :
               /\ SettlingAt(hs[h], g, w, k)
               /\ AllPoints + Spent(g, k, U) = PointsDue
    BY <1>2
  <2> DEFINE all == Settlement(g, w)
  <2>2. PICK k \in 0 .. Len(all) : /\ SettlingAt(hs[h], g, w, k)
                                   /\ AllPoints + Spent(g, k, U) = PointsDue
    BY <2>1
  <2>3. U \in Extra(g)
    <3>1. wallet[House] \in Wallet
      BY DEF SInv, LedgerInv, TypeOK, Accounts
    <3> QED
      BY <1>2, <3>1, UnfundedExtra DEF Unfunded
  <2>4. /\ Len(all) \in Nat /\ \A x \in Extra(g) : Spent(g, Len(all), x) = 0
        /\ \A i \in 0 .. Len(all) - 1 : all[i + 1].op \in {"consume", "credit"}
    BY <1>2, SettlementSteps
  <2>5. /\ Len(todo) = Len(all) - k
        /\ \A i \in 1 .. Len(todo) : todo[i] = all[k + i]
    BY <2>2 DEF SettlingAt
  <2>6. \A i \in 1 .. Len(todo) : todo[i].op \notin {"consume", "credit"}
    OBVIOUS
  <2>7. todo = <<>> => Owed(hs[h]) = 0
    BY DEF Owed
  <2>8. todo \in Seq(Op)
    BY HandlerFields DEF SInv, LedgerInv, TypeOK
  <2> HIDE DEF all, todo, g, U
  <2>9. k = Len(all)
    <3> SUFFICES ASSUME k # Len(all) PROVE FALSE
      OBVIOUS
    <3>1. 1 \in 1 .. Len(todo) /\ k \in 0 .. Len(all) - 1
      BY <2>2, <2>4, <2>5
    <3>2. todo[1] = all[k + 1]
      BY <2>5, <3>1
    <3> QED
      BY <2>4, <2>6, <3>1, <3>2
  <2>10. todo = <<>>
    BY <2>4, <2>5, <2>8, <2>9
  <2> QED
    BY <2>2, <2>3, <2>4, <2>7, <2>9, <2>10
<1> QED
  BY <1>1, <1>2 DEF SInv, SerialInvOf, PointsOK

\* The points are not touched, and no settlement begins or goes on.
LEMMA PointsStay ==
  ASSUME NEW h \in Handlers, SInv(h), LedgerInv', FinitelyMany,
         wallet' = wallet, injected' = injected, made' = made,
         Harmless(hs[h].todo), Harmless(hs'[h].todo)
  PROVE  PointsOK(hs[h])'
<1>1. hs[h].todo \in Seq(Op) /\ hs'[h].todo \in Seq(Op)
  BY DEF SInv, LedgerInv, TypeOK, Handler
<1>2. /\ \A i \in 1 .. Len(hs[h].todo) : hs[h].todo[i].op \notin {"consume", "credit"}
      /\ \A i \in 1 .. Len(hs'[h].todo) : hs'[h].todo[i].op \notin {"consume", "credit"}
  BY DEF Harmless
<1>3. Owed(hs[h]) = 0
  BY <1>1, NothingOwed
<1>4. Owed(hs[h])' = 0
  <2>1. hs'[h].todo # <<>> => 1 \in 1 .. Len(hs'[h].todo)
    BY <1>1, TailFacts
  <2> QED
    BY <2>1 DEF Harmless, Owed
<1>5. AllPoints + 0 = PointsDue
  BY <1>2, <1>3, NothingSpent
<1>6. AllPoints' + 0 = PointsDue'
  BY <1>5 DEF AllPoints, PointsDue, InitialPoints
<1> QED
  BY <1>2, <1>4, <1>6 DEF PointsOK, PointsDue, InitialPoints

\* An adjustment that would make the balance negative is left.
LEMMA AdjustRefusedKeeps ==
  ASSUME NEW h \in Handlers, SInv(h), LedgerInv', FinitelyMany,
         hs[h].todo # <<>>, AdjustRefused(h), stage' = stage
  PROVE  SInv(h)'
<1> DEFINE op == hs[h].todo[1]
<1>1. /\ op.op = "adjust" /\ hs' = [hs EXCEPT ![h] = Rest(h, op)]
      /\ wallet' = wallet /\ injected' = injected /\ made' = made
  BY DEF AdjustRefused
<1>2. op.op \notin Moving
  BY <1>1 DEF Moving
<1>3. hs[h].game = NoGame /\ Len(hs[h].todo) = 1
  BY <1>1, <1>2, OtherOp
<1>4. /\ hs'[h].todo = Tail(hs[h].todo) /\ hs[h].todo \in Seq(Op)
      /\ hs[h].todo # <<>> /\ hs'[h].next = hs[h].next
  BY <1>1, RestFields, HandlerFields DEF SInv, LedgerInv, TypeOK
<1>5. Len(hs'[h].todo) = 0
  <2> DEFINE todo == hs[h].todo
  <2>1. Len(todo) = 1 /\ todo \in Seq(Op) /\ todo # <<>>
    BY <1>3, <1>4
  <2> HIDE DEF todo
  <2>2. Len(Tail(todo)) = 0
    BY <2>1
  <2> QED
    BY <1>4, <2>2 DEF todo
<1>6. CallOK(hs[h])'
  BY <1>1, CallDone
<1>7. Fresh(hs[h])'
  BY <1>1, FreshDone
<1>8. OneGameEach'
  BY DEF SInv, SerialInvOf, OneGameEach, PlayersOf
<1>9. \A g \in Games : \A a : Frozen(hs[h], g, a)' <=> Frozen(hs[h], g, a)
  BY <1>1, <1>2, FrozenStep DEF SInv, SerialInvOf
<1>10. UserStakes(hs[h])'
  <2>1. \A u \in Users : Unfrozen(hs[h], u) => Unfrozen(hs[h], u)'
    BY <1>1, <1>2, UnfrozenStep
  <2> QED
    BY <1>1, <1>9, <2>1, UserStakesSame
<1>11. StakedGames => PutUp(hs[h])'
  <2> SUFFICES ASSUME StakedGames PROVE PutUp(hs[h])'
    OBVIOUS
  <2>1. HouseStakes(hs[h]) /\ made = 0
    BY DEF SInv, SerialInvOf, PutUp
  <2>2. HouseStakes(hs[h])'
    BY <1>1, <1>9, <2>1, HouseStakesSame
  <2> QED
    BY <1>1, <2>1, <2>2 DEF PutUp
<1>12. FreezeCovered(hs[h])'
  <2>1. FreezeCovered(hs[h])
    BY DEF SInv, SerialInvOf
  <2> QED
    BY <1>1, <1>5, <2>1 DEF FreezeCovered, Awaits, PlayersOf
<1>13. PointsOK(hs[h])'
  <2>1. Harmless(hs[h].todo) /\ Harmless(hs'[h].todo)
    BY <1>1, <1>3, <1>5 DEF Harmless
  <2> QED
    BY <1>1, <2>1, PointsStay
<1> QED
  BY <1>6, <1>7, <1>8, <1>10, <1>11, <1>12, <1>13 DEF SInv, SerialInvOf

\* A row is read: nothing but the entities changes.
LEMMA RowReadFields ==
  ASSUME NEW h \in Handlers, SInv(h), RowRead(h)
  PROVE  /\ hs'[h].todo = hs[h].todo /\ hs'[h].undo = hs[h].undo /\ hs'[h].game = hs[h].game
         /\ hs'[h].next = hs[h].next /\ hs'[h].busy = hs[h].busy
         /\ hs'[h].copy \in {hs[h].copy, wallet[hs[h].todo[1].who]}
         /\ hs'[h].seen \in {hs[h].seen, wallet[hs[h].todo[1].who]}
<1>1. hs \in [Handlers -> Handler]
  BY DEF SInv, LedgerInv, TypeOK
<1>2. hs[h] \in Handler
  BY <1>1
<1> DEFINE w == wallet[hs[h].todo[1].who]
           x == [hs[h] EXCEPT !.copy = w]
           y == [hs[h] EXCEPT !.seen = w]
<1>3. hs'[h] = x \/ hs'[h] = y
  BY <1>1 DEF RowRead
<1>4. /\ x.todo = hs[h].todo /\ x.undo = hs[h].undo /\ x.game = hs[h].game
      /\ x.next = hs[h].next /\ x.busy = hs[h].busy
      /\ x.copy = w /\ x.seen = hs[h].seen
  BY <1>2 DEF Handler
<1>5. /\ y.todo = hs[h].todo /\ y.undo = hs[h].undo /\ y.game = hs[h].game
      /\ y.next = hs[h].next /\ y.busy = hs[h].busy
      /\ y.seen = w /\ y.copy = hs[h].copy
  BY <1>2 DEF Handler
<1> HIDE DEF x, y
<1> QED
  BY <1>3, <1>4, <1>5

LEMMA RowReadKeeps ==
  ASSUME NEW h \in Handlers, SInv(h), LedgerInv', FinitelyMany,
         hs[h].todo # <<>>, RowRead(h), stage' = stage
  PROVE  SInv(h)'
<1>1. wallet' = wallet /\ injected' = injected /\ made' = made
  BY DEF RowRead
<1>2. /\ hs'[h].todo = hs[h].todo /\ hs'[h].undo = hs[h].undo /\ hs'[h].game = hs[h].game
      /\ hs'[h].next = hs[h].next /\ hs'[h].busy = hs[h].busy
      /\ hs'[h].copy \in {hs[h].copy, wallet[hs[h].todo[1].who]}
      /\ hs'[h].seen \in {hs[h].seen, wallet[hs[h].todo[1].who]}
  BY RowReadFields
<1>3. SerialInvOf(hs[h])
  BY DEF SInv
<1>4. Fresh(hs[h])'
  BY <1>1, <1>2, <1>3 DEF SerialInvOf, Fresh
<1>5. CallOK(hs[h])'
  <2>1. CallOK(hs[h])
    BY <1>3 DEF SerialInvOf
  <2>2. ASSUME NEW g \in Games, hs[h].game = g
        PROVE  GameCallOK(hs[h], g)'
    <3>1. GameCallOK(hs[h], g)
      BY <2>1, <2>2 DEF CallOK
    <3>2. UndoOK(hs[h], g) => UndoOK(hs[h], g)'
      BY <1>2 DEF UndoOK, Awaits
    <3> QED
      BY <1>2, <3>1, <3>2 DEF GameCallOK
  <2>3. OtherCallOK(hs[h]) => OtherCallOK(hs[h])'
    BY <1>1, <1>2 DEF OtherCallOK
  <2> QED
    BY <1>2, <2>1, <2>2, <2>3 DEF CallOK
<1>6. \A g \in Games : \A a : Frozen(hs[h], g, a)' <=> Frozen(hs[h], g, a)
  BY <1>2 DEF Frozen, Awaits
<1>7. UserStakes(hs[h])'
  <2>1. \A u \in Users : Unfrozen(hs[h], u) => Unfrozen(hs[h], u)'
    BY <1>2 DEF Unfrozen, Awaits, PlayersOf
  <2> QED
    BY <1>1, <1>6, <2>1, UserStakesSame
<1>8. OneGameEach'
  BY <1>3 DEF SerialInvOf, OneGameEach, PlayersOf
<1>9. StakedGames => PutUp(hs[h])'
  <2> SUFFICES ASSUME StakedGames PROVE PutUp(hs[h])'
    OBVIOUS
  <2>1. HouseStakes(hs[h]) /\ made = 0
    BY <1>3 DEF SerialInvOf, PutUp
  <2>2. HouseStakes(hs[h])'
    BY <1>1, <1>6, <2>1, HouseStakesSame
  <2> QED
    BY <1>1, <2>1, <2>2 DEF PutUp
<1>11. FreezeCovered(hs[h])'
  <2>1. FreezeCovered(hs[h])
    BY <1>3 DEF SerialInvOf
  <2> QED
    BY <1>1, <1>2, <2>1 DEF FreezeCovered, Awaits, PlayersOf
<1>10. PointsOK(hs[h])'
  <2>1. PointsOK(hs[h])
    BY <1>3 DEF SerialInvOf
  <2>2. AllPoints' = AllPoints /\ PointsDue' = PointsDue
    BY <1>1 DEF AllPoints, PointsDue, InitialPoints
  <2>3. \A g, w, k : SettlingAt(hs[h], g, w, k) => SettlingAt(hs'[h], g, w, k)
    BY <1>2 DEF SettlingAt
  <2>4. Owed(hs[h])' = Owed(hs[h]) /\ Unfunded(hs[h].game)' = Unfunded(hs[h].game)
    BY <1>1, <1>2 DEF Owed, Unfunded, Taken, Minus, BotCount, HouseStake
  <2> QED
    BY <1>2, <2>1, <2>2, <2>3, <2>4 DEF PointsOK
<1> QED
  BY <1>4, <1>5, <1>7, <1>8, <1>9, <1>10, <1>11 DEF SInv, SerialInvOf

\* A freeze that fails leaves frozen what was frozen.  To be undone is what is
\* frozen, and the stake of a fallback's player, frozen or not.
LEMMA FreezeFailedFrozen ==
  ASSUME NEW h \in Handlers, SInv(h), hs[h].todo # <<>>, FreezeFailed(h), stage' = stage
  PROVE  /\ hs[h].game \in Games /\ stage[hs[h].game] = "forming" /\ hs[h].next = "open"
         /\ UndoOK(hs[h], hs[h].game) /\ StakeOp(hs[h].game, hs[h].todo[1])
         /\ \A i \in 1 .. Len(hs[h].todo) :
              hs[h].todo[i].op = "freeze" /\ (hs[h].todo[i].who = House => i = Len(hs[h].todo))
         /\ Awaits(hs[h], hs[h].todo[1].who, {"freeze"})
         /\ hs'[h].todo = hs[h].undo /\ hs'[h].undo = <<>> /\ hs'[h].next = "closed"
         /\ hs'[h].game = hs[h].game /\ hs'[h].busy = hs[h].busy
         /\ hs'[h].copy = hs[h].copy /\ hs'[h].seen = hs[h].seen
         /\ hs[h].undo \in Seq(Op)
         /\ \A g \in Games : \A u \in PlayersOf(g) :
              \/ Frozen(hs[h], g, u)' <=> Frozen(hs[h], g, u)
              \/ wallet[u].frz = 0 /\ Unfrozen(hs[h], u)'
         /\ \A u \in Users : ~Unfrozen(hs[h], u)
         /\ StakedGames =>
              /\ made' = made
              /\ \A g \in Games : g.kind = "fallback" => (Frozen(hs[h], g, House)' <=> Frozen(hs[h], g, House))
<1> DEFINE op == hs[h].todo[1]
<1>1. op.op = "freeze" /\ wallet[op.who].bal < op.amt
  BY DEF FreezeFailed
<1>2. hs[h].game \in Games
  BY <1>1, FirstStakeMove DEF SInv, SerialInvOf, Moving
<1>3. PICK g0 \in Games : g0 = hs[h].game
  BY <1>2
<1>4. /\ hs[h].game = g0 /\ GameCallOK(hs[h], g0) /\ StakeOp(g0, op)
      /\ hs[h].next = "open" /\ Awaits(hs[h], op.who, {"freeze"})
  BY <1>3, <1>1, FirstStakeMove DEF SInv, SerialInvOf, Moving
<1>5. /\ stage[g0] = "forming" /\ UndoOK(hs[h], g0)
      /\ \A i \in 1 .. Len(hs[h].todo) :
           hs[h].todo[i].op = "freeze" /\ (hs[h].todo[i].who = House => i = Len(hs[h].todo))
  BY <1>4 DEF GameCallOK
<1>6. hs \in [Handlers -> Handler] /\ hs[h] \in Handler
  BY DEF SInv, LedgerInv, TypeOK
<1>7. /\ hs[h].todo \in Seq(Op) /\ hs[h].undo \in Seq(Op)
  BY <1>6, HandlerFields
<1>8. /\ hs'[h].todo = hs[h].undo /\ hs'[h].undo = <<>> /\ hs'[h].next = "closed"
      /\ hs'[h].game = hs[h].game /\ hs'[h].busy = hs[h].busy
      /\ hs'[h].copy = hs[h].copy /\ hs'[h].seen = hs[h].seen
  <2> DEFINE x == [hs[h] EXCEPT !.todo = hs[h].undo, !.undo = <<>>, !.next = "closed"]
  <2>1. hs'[h] = x
    BY <1>6 DEF FreezeFailed
  <2>2. /\ x.todo = hs[h].undo /\ x.undo = <<>> /\ x.next = "closed"
        /\ x.game = hs[h].game /\ x.busy = hs[h].busy
        /\ x.copy = hs[h].copy /\ x.seen = hs[h].seen
    BY <1>6 DEF Handler
  <2> HIDE DEF x
  <2> QED
    BY <2>1, <2>2
<1>9. PlayersOf(g0) \subseteq Users /\ House \notin PlayersOf(g0) /\ g0.kind \in {"assembled", "fallback"}
  BY PlayersAreUsers
<1>10. /\ \A i \in 1 .. Len(hs[h].undo) :
            hs[h].undo[i].op = "unfreeze" /\ hs[h].undo[i].who \in PlayersOf(g0)
       /\ \A u \in PlayersOf(g0) :
            (\E i \in 1 .. Len(hs[h].undo) : hs[h].undo[i].who = u)
              <=> (g0.kind = "fallback" \/ ~Awaits(hs[h], u, {"freeze"}))
  BY <1>5 DEF UndoOK
<1>11. g0.kind = "fallback" => op.who = House \/ op.who \in Adjusted
  <2> SUFFICES ASSUME g0.kind = "fallback", op.who # House, op.who \notin Adjusted PROVE FALSE
    OBVIOUS
  <2>1. op.who \in PlayersOf(g0) /\ op.amt = Stake
    BY <1>4 DEF StakeOp
  <2>2. wallet[op.who].bal >= Stake
    BY <1>1, <1>4, <1>5, <2>1 DEF FreezeCovered, SInv, SerialInvOf
  <2>3. wallet[op.who].bal \in Nat /\ Stake \in Nat
    <3>1. wallet[op.who] \in Wallet
      BY HeadOp DEF SInv
    <3> QED
      BY <3>1, LedgerAssumption DEF Wallet
  <2> QED
    BY <1>1, <2>1, <2>2, <2>3
<1>11b. StakedGames /\ g0.kind = "fallback" => op.who = House
  <2>1. op.who # House => op.who \in PlayersOf(g0)
    BY <1>4 DEF StakeOp
  <2> QED
    BY <1>11, <2>1 DEF StakedGames
<1>12. \A u \in Users : ~Unfrozen(hs[h], u)
  <2>1. \A x \in Games : stage[x] = "forming" => x = g0
    BY <1>4 DEF SInv, SerialInvOf, CallOK
  <2> QED
    BY <1>4, <2>1 DEF Unfrozen
<1>13. \A u \in PlayersOf(g0) :
         Awaits(hs'[h], u, Returning) <=> (g0.kind = "fallback" \/ ~Awaits(hs[h], u, {"freeze"}))
  <2> TAKE u \in PlayersOf(g0)
  <2>1. Awaits(hs'[h], u, Returning) <=> \E i \in 1 .. Len(hs[h].undo) : hs[h].undo[i].who = u
    BY <1>8, <1>10 DEF Awaits, Returning
  <2> QED
    BY <1>9, <1>10, <2>1
<1>14. ~Awaits(hs'[h], House, Returning)
  BY <1>8, <1>9, <1>10 DEF Awaits
<1>15. ASSUME NEW g \in Games, g # g0, NEW a
       PROVE  Frozen(hs[h], g, a)' <=> Frozen(hs[h], g, a)
  <2>1. stage[g] \notin {"forming", "closing"}
    <3>1. stage[g] \in {"forming", "closing"} <=> hs[h].game = g
      BY DEF SInv, SerialInvOf, CallOK
    <3> QED
      BY <1>4, <1>15, <3>1
  <2> QED
    BY <2>1 DEF Frozen
<1>16. ASSUME NEW u \in PlayersOf(g0)
       PROVE  \/ Frozen(hs[h], g0, u)' <=> Frozen(hs[h], g0, u)
              \/ wallet[u].frz = 0 /\ Unfrozen(hs[h], u)'
  <2>1. Frozen(hs[h], g0, u) <=> ~Awaits(hs[h], u, {"freeze"})
    BY <1>4, <1>5 DEF Frozen
  <2>2. Frozen(hs[h], g0, u)' <=> Awaits(hs'[h], u, Returning)
    BY <1>5, <1>8 DEF Frozen
  <2>3. CASE g0.kind = "fallback" /\ Awaits(hs[h], u, {"freeze"})
    <3>1. u \in Users /\ ~Unfrozen(hs[h], u) /\ ~Frozen(hs[h], g0, u)
      BY <1>9, <1>12, <2>1, <2>3
    <3>2. wallet[u].frz = 0
      BY <1>5, <3>1, FrozenOnce DEF SInv, SerialInvOf, EngagedStage
    <3>3. Awaits(hs'[h], u, {"unfreeze"})
      <4>1. PICK i \in 1 .. Len(hs[h].undo) : hs[h].undo[i].who = u
        BY <1>10, <2>3
      <4> QED
        BY <1>8, <1>10, <4>1 DEF Awaits
    <3>4. u \in Adjusted
      <4>1. Len(g0.players) = 1 /\ g0.players \in Seq(Users)
        BY <2>3, LedgerAssumption DEF Game
      <4>2. \A v \in PlayersOf(g0) : v = u
        BY <4>1 DEF PlayersOf
      <4>3. CASE op.who = House
        <5>1. 1 = Len(hs[h].todo) /\ u # House
          <6>1. 1 \in 1 .. Len(hs[h].todo)
            BY <1>7
          <6>2. 1 = Len(hs[h].todo)
            BY <1>5, <4>3, <6>1
          <6> QED
            BY <1>9, <6>2
        <5>2. ~Awaits(hs[h], u, {"freeze"})
          BY <4>3, <5>1 DEF Awaits
        <5> QED
          BY <2>3, <5>2
      <4>4. CASE op.who # House
        BY <1>4, <1>11, <2>3, <4>2, <4>4 DEF StakeOp
      <4> QED
        BY <4>3, <4>4
    <3>5. Unfrozen(hs[h], u)'
      BY <1>5, <1>8, <2>3, <3>3, <3>4 DEF Unfrozen, PlayersOf, Awaits
    <3> QED
      BY <3>2, <3>5
  <2>4. CASE ~(g0.kind = "fallback" /\ Awaits(hs[h], u, {"freeze"}))
    BY <1>8, <1>13, <2>1, <2>2, <2>4
  <2> QED
    BY <2>3, <2>4
<1>17. StakedGames /\ g0.kind = "fallback"
         => (Frozen(hs[h], g0, House)' <=> Frozen(hs[h], g0, House))
  <2> SUFFICES ASSUME StakedGames, g0.kind = "fallback"
               PROVE  Frozen(hs[h], g0, House)' <=> Frozen(hs[h], g0, House)
    OBVIOUS
  <2>1. ~Frozen(hs[h], g0, House)
    BY <1>4, <1>5, <1>11b DEF Frozen
  <2>2. ~(Frozen(hs[h], g0, House)')
    BY <1>5, <1>8, <1>14 DEF Frozen
  <2> QED
    BY <2>1, <2>2
<1>18. \A g \in Games : \A u \in PlayersOf(g) :
         \/ Frozen(hs[h], g, u)' <=> Frozen(hs[h], g, u)
         \/ wallet[u].frz = 0 /\ Unfrozen(hs[h], u)'
  BY <1>15, <1>16
<1>19. StakedGames =>
         \A g \in Games : g.kind = "fallback" => (Frozen(hs[h], g, House)' <=> Frozen(hs[h], g, House))
  BY <1>15, <1>17
<1>20. StakedGames => made' = made
  <2>1. StakedGames => ~Undoes(hs[h], op.who)
    BY <1>4, <1>9, <1>10, <1>11b DEF Undoes, StakeOp
  <2> QED
    BY <2>1 DEF FreezeFailed
<1> QED
  BY <1>4, <1>5, <1>7, <1>8, <1>12, <1>18, <1>19, <1>20

\* What is owed after a freeze has failed is what made has counted: the stake of a
\* fallback's player who could not freeze it.
LEMMA FreezeFailedOwes ==
  ASSUME NEW h \in Handlers, SInv(h), hs[h].todo # <<>>, FreezeFailed(h), stage' = stage
  PROVE  made' = made + Owed(hs[h])' /\ Owed(hs[h])' \in Int
<1> DEFINE op == hs[h].todo[1]
           undo == hs[h].undo
           u == undo[1].who
           w == wallet[u]
<1>1. PICK g0 \in Games : g0 = hs[h].game
  BY FreezeFailedFrozen
<1>2. /\ g0 = hs[h].game /\ stage[g0] = "forming" /\ hs[h].next = "open"
      /\ UndoOK(hs[h], g0) /\ StakeOp(g0, op) /\ Awaits(hs[h], op.who, {"freeze"})
      /\ \A i \in 1 .. Len(hs[h].todo) :
           hs[h].todo[i].op = "freeze" /\ (hs[h].todo[i].who = House => i = Len(hs[h].todo))
      /\ hs'[h].todo = undo /\ undo \in Seq(Op)
      /\ \A x \in Users : ~Unfrozen(hs[h], x)
  BY <1>1, FreezeFailedFrozen
<1>3. /\ wallet' = wallet
      /\ made' = IF Undoes(hs[h], op.who) THEN made + op.amt ELSE made
  BY DEF FreezeFailed
<1>4. /\ \A i \in 1 .. Len(undo) : undo[i].op = "unfreeze" /\ undo[i].who \in PlayersOf(g0) /\ undo[i].amt = Stake
      /\ \A x \in PlayersOf(g0) :
           (\E i \in 1 .. Len(undo) : undo[i].who = x) <=> (g0.kind = "fallback" \/ ~Awaits(hs[h], x, {"freeze"}))
  BY <1>2 DEF UndoOK
<1>5. PlayersOf(g0) \subseteq Users /\ House \notin PlayersOf(g0) /\ Stake \in Nat
      /\ (g0.kind = "fallback" => \A x, y \in PlayersOf(g0) : x = y)
  <2>1. g0.kind = "fallback" => Len(g0.players) = 1
    BY LedgerAssumption
  <2> QED
    BY <2>1, PlayersAreUsers DEF PlayersOf
<1>6. made \in Int
  BY DEF SInv, LedgerInv, TypeOK
<1>7. CASE undo = <<>>
  <2>1. ~Undoes(hs[h], op.who)
    BY <1>7 DEF Undoes
  <2>2. Owed(hs[h])' = 0
    BY <1>2, <1>7 DEF Owed
  <2> QED
    BY <1>3, <1>6, <2>1, <2>2
<1>8. CASE undo # <<>>
  <2>1. 1 \in 1 .. Len(undo)
    BY <1>2, <1>8, TailFacts
  <2>2. undo[1].op = "unfreeze" /\ u \in PlayersOf(g0) /\ undo[1].amt = Stake
    BY <1>4, <2>1
  <2>3. Owed(hs[h])' = Stake - Taken(w, Stake)
    BY <1>2, <1>3, <1>8, <2>2 DEF Owed, Taken, Minus
  <2>4. w \in Wallet /\ u \in Users
    BY <1>5, <2>2 DEF SInv, LedgerInv, TypeOK, Accounts
  <2>5. w.frz = IF Awaits(hs[h], u, {"freeze"}) THEN 0 ELSE Stake
    <3>1. Frozen(hs[h], g0, u) <=> ~Awaits(hs[h], u, {"freeze"})
      BY <1>2 DEF Frozen
    <3>2. ~Unfrozen(hs[h], u)
      BY <1>2, <2>4
    <3> QED
      BY <1>2, <2>2, <3>1, <3>2, FrozenOnce DEF SInv, SerialInvOf, EngagedStage
  <2>6. \E i \in 1 .. Len(undo) : undo[i].who = u
    BY <2>1
  <2>7. CASE Awaits(hs[h], u, {"freeze"})
    <3>1. g0.kind = "fallback"
      BY <1>4, <2>2, <2>6, <2>7
    <3>2. op.who # House
      <4> SUFFICES ASSUME op.who = House PROVE FALSE
        OBVIOUS
      <4> DEFINE todo == hs[h].todo
                 n == Len(todo)
      <4>1. n \in Nat \ {0} /\ 1 \in 1 .. n
        BY TailFacts, HandlerFields DEF SInv, LedgerInv, TypeOK
      <4>2. 1 = n
        BY <1>2, <4>1
      <4>3. PICK i \in 1 .. n : todo[i].who = u
        BY <2>7 DEF Awaits
      <4>4. i = 1
        <5> HIDE DEF n
        <5> QED
          BY <4>1, <4>2, <4>3
      <4> QED
        BY <1>5, <2>2, <4>3, <4>4
    <3>3. op.who = u /\ op.amt = Stake
      <4>1. op.who \in PlayersOf(g0) /\ op.amt = Stake
        BY <1>2, <3>2 DEF StakeOp
      <4> QED
        BY <1>5, <2>2, <3>1, <4>1
    <3>4. Undoes(hs[h], op.who)
      BY <2>6, <3>3 DEF Undoes
    <3>5. Taken(w, Stake) = 0
      BY <1>5, <2>4, <2>5, <2>7, TakenFacts
    <3> HIDE DEF op, undo, u, w
    <3> QED
      BY <1>3, <1>5, <1>6, <2>3, <3>3, <3>4, <3>5
  <2>8. CASE ~Awaits(hs[h], u, {"freeze"})
    <3>1. ~Undoes(hs[h], op.who)
      <4> SUFFICES ASSUME NEW i \in 1 .. Len(undo), undo[i].who = op.who PROVE FALSE
        BY DEF Undoes
      <4>1. op.who \in PlayersOf(g0)
        BY <1>4
      <4>2. g0.kind = "fallback"
        BY <1>2, <1>4, <4>1
      <4>3. op.who = u
        BY <1>5, <2>2, <4>1, <4>2
      <4> QED
        BY <1>2, <2>8, <4>3
    <3>2. Taken(w, Stake) = Stake
      <4> HIDE DEF w
      <4>1. Stake <= w.frz
        BY <1>5, <2>5, <2>8
      <4> QED
        BY <1>5, <2>4, <4>1, TakenFacts
    <3> HIDE DEF op, undo, u, w
    <3> QED
      BY <1>3, <1>5, <1>6, <2>3, <3>1, <3>2
  <2> QED
    BY <2>7, <2>8
<1> QED
  BY <1>7, <1>8

LEMMA FreezeFailedKeeps ==
  ASSUME NEW h \in Handlers, SInv(h), LedgerInv', FinitelyMany,
         hs[h].todo # <<>>, FreezeFailed(h), stage' = stage
  PROVE  SInv(h)'
<1>1. PICK g0 \in Games : g0 = hs[h].game
  BY FreezeFailedFrozen
<1>2. /\ g0 = hs[h].game /\ stage[g0] = "forming" /\ hs[h].next = "open"
      /\ UndoOK(hs[h], g0)
      /\ \A i \in 1 .. Len(hs[h].todo) : hs[h].todo[i].op = "freeze"
      /\ hs'[h].todo = hs[h].undo /\ hs'[h].undo = <<>> /\ hs'[h].next = "closed"
      /\ hs'[h].game = hs[h].game /\ hs'[h].busy = hs[h].busy
      /\ hs'[h].copy = hs[h].copy /\ hs'[h].seen = hs[h].seen
      /\ hs[h].undo \in Seq(Op)
  BY <1>1, FreezeFailedFrozen
<1>3. wallet' = wallet /\ injected' = injected
  BY DEF FreezeFailed
<1>4. UserStakes(hs[h])'
  <2>1. /\ \A g \in Games : \A u \in PlayersOf(g) :
             (Frozen(hs[h], g, u)' <=> Frozen(hs[h], g, u)) \/ (wallet[u].frz = 0 /\ Unfrozen(hs[h], u)')
        /\ \A u \in Users : ~Unfrozen(hs[h], u)
    BY FreezeFailedFrozen
  <2> QED
    BY <1>3, <2>1, UserStakesSame
<1>5. /\ \A i \in 1 .. Len(hs[h].undo) :
           hs[h].undo[i].op = "unfreeze" /\ hs[h].undo[i].who \in PlayersOf(g0) /\ hs[h].undo[i].amt = Stake
      /\ Distinct(hs[h].undo)
  BY <1>2 DEF UndoOK
<1>6. Fresh(hs[h])'
  <2>1. Head(hs[h].todo) = hs[h].todo[1] /\ hs[h].todo[1].op = "freeze"
    BY HeadOp DEF FreezeFailed, SInv
  <2>2. hs[h].copy = NoRow /\ hs[h].seen = NoRow
    BY <2>1 DEF SInv, LedgerInv, EntitiesOK, EntityOK, Unlocked
  <2> QED
    BY <1>2, <2>2 DEF Fresh
<1>7. CallOK(hs[h])'
  <2>1. CallOK(hs[h])
    BY DEF SInv, SerialInvOf
  <2>2. hs[h].busy
    <3>1. hs[h].busy \in BOOLEAN
      BY HandlerFields DEF SInv, LedgerInv, TypeOK
    <3> QED
      BY <2>1, <3>1 DEF CallOK
  <2>3. GameCallOK(hs[h], g0)'
    <3>1. \A i \in 1 .. Len(hs'[h].todo) : hs'[h].todo[i].op = "unfreeze" /\ StakeOp(g0, hs'[h].todo[i])
      BY <1>2, <1>5 DEF StakeOp, Moving
    <3>2. Distinct(hs'[h].todo) /\ stage'[g0] = "forming" /\ hs'[h].next = "closed"
      BY <1>2, <1>5
    <3> QED
      BY <1>2, <3>1, <3>2 DEF GameCallOK
  <2>4. ASSUME NEW g \in Games, hs'[h].game = g
        PROVE  GameCallOK(hs[h], g)'
    BY <1>2, <2>3, <2>4
  <2>5. hs'[h].game # NoGame
    BY <1>2, LedgerAssumption
  <2> QED
    BY <1>2, <2>1, <2>2, <2>4, <2>5 DEF CallOK
<1>8. OneGameEach'
  BY DEF SInv, SerialInvOf, OneGameEach, PlayersOf
<1>9. StakedGames => PutUp(hs[h])'
  <2> SUFFICES ASSUME StakedGames PROVE PutUp(hs[h])'
    OBVIOUS
  <2>1. HouseStakes(hs[h]) /\ made = 0
    BY DEF SInv, SerialInvOf, PutUp
  <2>2. /\ made' = made
        /\ \A g \in Games : g.kind = "fallback" => (Frozen(hs[h], g, House)' <=> Frozen(hs[h], g, House))
    BY <2>1, FreezeFailedFrozen
  <2>3. HouseStakes(hs[h])'
    BY <1>3, <2>1, <2>2, HouseStakesSame
  <2> QED
    BY <2>1, <2>2, <2>3 DEF PutUp
<1>11. FreezeCovered(hs[h])'
  <2>1. FreezeCovered(hs[h])
    BY DEF SInv, SerialInvOf
  <2>2. \A g \in Games : stage[g] = "forming" => hs'[h].next # "open"
    BY <1>2
  <2> QED
    BY <1>3, <2>1, <2>2 DEF FreezeCovered, PlayersOf
<1>10. PointsOK(hs[h])'
  <2>1. \A i \in 1 .. Len(hs'[h].todo) : hs'[h].todo[i].op \notin {"consume", "credit"}
    BY <1>2, <1>5
  <2>2. \A i \in 1 .. Len(hs[h].todo) : hs[h].todo[i].op \notin {"consume", "credit", "unfreeze"}
    BY <1>2
  <2>3. AllPoints + Owed(hs[h]) = PointsDue
    BY <2>2, NothingSpent
  <2>4. Owed(hs[h]) = 0 /\ AllPoints \in Int
    <3>1. hs[h].todo \in Seq(Op)
      BY DEF SInv, LedgerInv, TypeOK, Handler
    <3> QED
      BY <2>2, <3>1, NothingOwed, PointsInt DEF Harmless, SInv
  <2>5. made' = made + Owed(hs[h])'
    BY FreezeFailedOwes
  <2>6. made' \in Int /\ made \in Int /\ InitialPoints \in Int /\ injected \in Int /\ Owed(hs[h])' \in Int
    <3>1. made' \in Int /\ made \in Int /\ InitialPoints \in Int /\ injected \in Int
      BY DueInt DEF SInv, LedgerInv, TypeOK
    <3>2. Owed(hs[h])' \in Int
      BY FreezeFailedOwes
    <3> QED
      BY <3>1, <3>2
  <2>7. AllPoints' = AllPoints /\ PointsDue' = InitialPoints + injected + made'
    BY <1>3 DEF AllPoints, PointsDue, InitialPoints
  <2>8. AllPoints + 0 = InitialPoints + injected + made
    BY <2>3, <2>4 DEF PointsDue
  <2>9. AllPoints' + Owed(hs[h])' = PointsDue'
    <3> DEFINE o == Owed(hs[h])'
               i == InitialPoints
               a == AllPoints
    <3>1. a \in Int /\ i \in Int /\ o \in Int /\ a + 0 = i + injected + made /\ made' = made + o
      BY <2>4, <2>5, <2>6, <2>8
    <3> HIDE DEF o, i, a
    <3>2. a + o = i + injected + made'
      BY <2>6, <3>1
    <3> QED
      BY <2>7, <3>2 DEF o, i, a
  <2> QED
    BY <2>1, <2>9 DEF PointsOK, PointsDue, InitialPoints
<1> QED
  BY <1>4, <1>6, <1>7, <1>8, <1>9, <1>10, <1>11 DEF SInv, SerialInvOf

-----------------------------------------------------------------------------
(* Calls begin and end *)

LEMMA CallStepKeeps ==
  ASSUME NEW h \in Handlers, SInv(h), LedgerInv', FinitelyMany,
         LockedOp(h) \/ Load(h) \/ Select(h) \/ Save(h)
  PROVE  SInv(h)'
<1>1. WalletSteps(h)
  BY StepsOfCall DEF SInv, SerialInvOf
<1> QED
  BY <1>1, OpDoneKeeps, FreezeFailedKeeps, RowReadKeeps, AdjustRefusedKeeps DEF WalletSteps

\* A call that ends leaves no stake half moved.
LEMMA FinishKeepsStakes ==
  ASSUME NEW h \in Handlers, SInv(h), LedgerInv', FinitelyMany, Finish(h)
  PROVE  SInv(h)'
<1>1. /\ hs[h].busy /\ hs[h].todo = <<>> /\ wallet' = wallet /\ injected' = injected /\ made' = made
      /\ stage' = IF hs[h].game = NoGame THEN stage ELSE [stage EXCEPT ![hs[h].game] = hs[h].next]
  BY DEF Finish
<1>2. /\ hs'[h].todo = <<>> /\ hs'[h].copy = NoRow /\ hs'[h].seen = NoRow
      /\ hs'[h].game = NoGame /\ ~hs'[h].busy
  <2>1. hs'[h] = Idle
    BY DEF Finish, SInv, LedgerInv, TypeOK
  <2> QED
    BY <2>1 DEF Idle
<1>3. stage \in [Games -> Stage] /\ hs[h].game \in Games \cup {NoGame} /\ NoGame \notin Games
  BY HandlerFields, LedgerAssumption DEF SInv, LedgerInv, TypeOK
<1>4. CallOK(hs[h])
  BY DEF SInv, SerialInvOf
<1>5. \A g \in Games : g # hs[h].game => stage'[g] = stage[g] /\ stage[g] \notin {"forming", "closing"}
  BY <1>1, <1>3, <1>4 DEF CallOK
<1>6. \A g \in Games : g = hs[h].game =>
        /\ stage'[g] = hs[h].next /\ hs[h].next \in {"open", "closed"}
        /\ stage[g] \in {"forming", "closing"}
  BY <1>1, <1>3, <1>4 DEF CallOK, GameCallOK
<1>7. \A g \in Games : \A a : Frozen(hs[h], g, a)' <=> Frozen(hs[h], g, a)
  <2> TAKE g \in Games
  <2> TAKE a
  <2>1. CASE g # hs[h].game
    BY <1>5, <2>1 DEF Frozen
  <2>2. CASE g = hs[h].game
    <3>1. ~Awaits(hs[h], a, {"freeze"}) /\ ~Awaits(hs[h], a, Returning)
      BY <1>1 DEF Awaits
    <3>2. Frozen(hs[h], g, a) <=> hs[h].next = "open"
      BY <1>6, <2>2, <3>1 DEF Frozen
    <3>3. Frozen(hs[h], g, a)' <=> hs[h].next = "open"
      BY <1>6, <2>2 DEF Frozen
    <3> QED
      BY <3>2, <3>3
  <2> QED
    BY <2>1, <2>2
<1>8. UserStakes(hs[h])'
  <2>1. Harmless(hs[h].todo)
    BY <1>1 DEF Harmless
  <2> QED
    BY <1>1, <1>7, <2>1, UserStakesKept
<1>9. OneGameEach'
  <2>1. \A g \in Games : stage'[g] \in EngagedStage => stage[g] \in EngagedStage
    BY <1>5, <1>6 DEF EngagedStage
  <2>2. OneGameEach
    BY DEF SInv, SerialInvOf
  <2> QED
    BY <2>1, <2>2 DEF OneGameEach, PlayersOf
<1>10. StakedGames => PutUp(hs[h])'
  <2> SUFFICES ASSUME StakedGames PROVE PutUp(hs[h])'
    OBVIOUS
  <2>1. HouseStakes(hs[h]) /\ made = 0
    BY DEF SInv, SerialInvOf, PutUp
  <2>2. HouseStakes(hs[h])'
    BY <1>1, <1>7, <2>1, HouseStakesSame
  <2> QED
    BY <1>1, <2>1, <2>2 DEF PutUp
<1>11. CallOK(hs[h])'
  <2>1. \A g \in Games : stage'[g] \notin {"forming", "closing"} /\ hs'[h].game # g
    BY <1>2, <1>3, <1>5, <1>6
  <2>2. OtherCallOK(hs[h])'
    BY <1>2 DEF OtherCallOK
  <2> QED
    BY <1>2, <2>1, <2>2 DEF CallOK
<1>12. Fresh(hs[h])'
  BY <1>2 DEF Fresh
<1>13. PointsOK(hs[h])'
  <2>1. Harmless(hs[h].todo) /\ Harmless(hs'[h].todo)
    BY <1>1, <1>2 DEF Harmless
  <2> QED
    BY <1>1, <2>1, PointsStay
<1>14. FreezeCovered(hs[h])'
  <2>1. \A g \in Games : stage'[g] # "forming" /\ (stage'[g] = "queued" => stage[g] = "queued")
    BY <1>5, <1>6
  <2>2. FreezeCovered(hs[h])
    BY DEF SInv, SerialInvOf
  <2> QED
    BY <1>1, <2>1, <2>2 DEF FreezeCovered, PlayersOf
<1> QED
  BY <1>8, <1>9, <1>10, <1>11, <1>12, <1>13, <1>14 DEF SInv, SerialInvOf

\* What a call finds when it begins, and what it then is.
LEMMA Begun ==
  ASSUME NEW h \in Handlers, SInv(h), NEW todo \in Seq(Op), NEW undo \in Seq(Op),
         NEW g \in Games \cup {NoGame}, NEW now \in Stage, NEW next \in Stage, Begin(h, todo, undo, g, now, next)
  PROVE  /\ hs[h].todo = <<>> /\ hs[h].game = NoGame /\ NoGame \notin Games
         /\ \A x \in Games : stage[x] \notin {"forming", "closing"}
         /\ hs'[h].todo = todo /\ hs'[h].undo = undo /\ hs'[h].game = g /\ hs'[h].next = next
         /\ hs'[h].busy /\ hs'[h].copy = NoRow /\ hs'[h].seen = NoRow
         /\ \A x \in Games : stage'[x] = IF x = g THEN now ELSE stage[x]
<1>1. ~hs[h].busy /\ NoGame \notin Games
  BY LedgerAssumption DEF Begin
<1>2. hs[h].todo = <<>> /\ hs[h].game = NoGame
  BY <1>1 DEF SInv, SerialInvOf, CallOK
<1>3. \A x \in Games : stage[x] \notin {"forming", "closing"}
  BY <1>1, <1>2 DEF SInv, SerialInvOf, CallOK
<1>4. /\ hs'[h].todo = todo /\ hs'[h].undo = undo /\ hs'[h].game = g /\ hs'[h].next = next
      /\ hs'[h].busy /\ hs'[h].copy = NoRow /\ hs'[h].seen = NoRow
  <2>1. hs'[h] = [todo |-> todo, undo |-> undo, copy |-> NoRow, seen |-> NoRow,
                  game |-> g, next |-> next, busy |-> TRUE]
    BY DEF Begin, SInv, LedgerInv, TypeOK
  <2> QED
    BY <2>1
<1>5. \A x \in Games : stage'[x] = IF x = g THEN now ELSE stage[x]
  BY <1>1 DEF Begin, SInv, LedgerInv, TypeOK
<1> QED
  BY <1>1, <1>2, <1>3, <1>4, <1>5

\* A call on a game that moves no stake as it begins.
LEMMA GameCallBegins ==
  ASSUME NEW h \in Handlers, SInv(h), LedgerInv', NEW todo \in Seq(Op), NEW undo \in Seq(Op),
         NEW g \in Games, NEW now \in {"forming", "closing"}, NEW next \in Stage, Begin(h, todo, undo, g, now, next),
         stage[g] \in EngagedStage, GameCallOK(hs[h], g)', wallet' = wallet,
         UserStakes(hs[h])', PointsOK(hs[h])', StakedGames => HouseStakes(hs[h])' /\ made' = 0,
         now = "forming" => stage[g] = "queued"
  PROVE  SInv(h)'
<1>1. /\ hs'[h].game = g /\ hs'[h].busy /\ hs'[h].copy = NoRow /\ hs'[h].seen = NoRow
      /\ NoGame \notin Games
      /\ \A x \in Games : stage[x] \notin {"forming", "closing"}
      /\ \A x \in Games : stage'[x] = IF x = g THEN now ELSE stage[x]
  <2>1. g \in Games \cup {NoGame} /\ now \in Stage
    BY DEF Stage
  <2> QED
    BY <2>1, Begun
<1>2. Fresh(hs[h])'
  BY <1>1 DEF Fresh
<1>3. CallOK(hs[h])'
  <2>1. \A x \in Games : stage'[x] \in {"forming", "closing"} <=> hs'[h].game = x
    BY <1>1
  <2>2. ASSUME NEW x \in Games, hs'[h].game = x
        PROVE  GameCallOK(hs[h], x)'
    <3>1. x = g
      BY <1>1, <2>2
    <3> QED
      BY <3>1
  <2> QED
    BY <1>1, <2>1, <2>2 DEF CallOK
<1>4. OneGameEach'
  <2>1. \A x \in Games : stage'[x] \in EngagedStage => stage[x] \in EngagedStage
    BY <1>1
  <2>2. OneGameEach
    BY DEF SInv, SerialInvOf
  <2> QED
    BY <2>1, <2>2 DEF OneGameEach, PlayersOf
<1>5. FreezeCovered(hs[h])' /\ (StakedGames => PutUp(hs[h])')
  <2>1. FreezeCovered(hs[h])
    BY DEF SInv, SerialInvOf
  <2>2. \A x \in Games : stage'[x] \in {"queued", "forming"} => stage[x] = "queued"
    BY <1>1
  <2>3. FreezeCovered(hs[h])'
    BY <2>1, <2>2 DEF FreezeCovered, PlayersOf
  <2> QED
    BY <2>3 DEF PutUp
<1> QED
  BY <1>2, <1>3, <1>4, <1>5 DEF SInv, SerialInvOf

\* A call on no game.
LEMMA OtherCallBegins ==
  ASSUME NEW h \in Handlers, SInv(h), LedgerInv', FinitelyMany, NEW op, NEW a, NEW amt,
         One(op, a, amt) \in Seq(Op), Begin(h, One(op, a, amt), <<>>, NoGame, "closed", "closed"),
         wallet' = wallet, injected' = injected, made' = made,
         \/ op = "adjust" /\ a \in Adjusted
         \/ op = "reset" /\ a \in Users /\ wallet[a].frz = 0
  PROVE  SInv(h)'
<1>1. /\ hs[h].todo = <<>> /\ hs[h].game = NoGame /\ NoGame \notin Games
      /\ \A x \in Games : stage[x] \notin {"forming", "closing"}
      /\ hs'[h].todo = One(op, a, amt) /\ hs'[h].game = NoGame
      /\ hs'[h].busy /\ hs'[h].copy = NoRow /\ hs'[h].seen = NoRow
      /\ \A x \in Games : stage'[x] = stage[x]
  <2> DEFINE todo == One(op, a, amt)
             undo == <<>>
             g == NoGame
             next == "closed"
  <2>1. /\ g \in Games \cup {NoGame} /\ todo \in Seq(Op) /\ undo \in Seq(Op) /\ next \in Stage
        /\ Begin(h, todo, undo, g, next, next)
    BY DEF Stage
  <2> HIDE DEF todo, undo, g, next
  <2>2. /\ hs[h].todo = <<>> /\ hs[h].game = NoGame /\ NoGame \notin Games
        /\ \A x \in Games : stage[x] \notin {"forming", "closing"}
        /\ hs'[h].todo = todo /\ hs'[h].game = g
        /\ hs'[h].busy /\ hs'[h].copy = NoRow /\ hs'[h].seen = NoRow
        /\ \A x \in Games : stage'[x] = IF x = g THEN next ELSE stage[x]
    BY <2>1, Begun
  <2> QED
    BY <2>2 DEF todo, g
<1>2. Len(hs'[h].todo) = 1 /\ hs'[h].todo[1] = [op |-> op, who |-> a, amt |-> amt]
  BY <1>1, OneAt
<1>3. \A i \in 1 .. Len(hs'[h].todo) : i = 1
  BY <1>2
<1>4. Fresh(hs[h])'
  BY <1>1 DEF Fresh
<1>5. CallOK(hs[h])'
  <2>1. OtherCallOK(hs[h])'
    BY <1>2, <1>3 DEF OtherCallOK
  <2> QED
    BY <1>1, <2>1 DEF CallOK
<1>6. \A g \in Games : \A b : Frozen(hs[h], g, b)' <=> Frozen(hs[h], g, b)
  BY <1>1 DEF Frozen
<1>7. Harmless(hs[h].todo) /\ Harmless(hs'[h].todo)
  BY <1>1, <1>2, <1>3 DEF Harmless
<1>8. UserStakes(hs[h])'
  BY <1>6, <1>7, UserStakesKept
<1>9. OneGameEach'
  <2>1. OneGameEach
    BY DEF SInv, SerialInvOf
  <2> QED
    BY <1>1, <2>1 DEF OneGameEach, PlayersOf
<1>10. StakedGames => PutUp(hs[h])'
  <2> SUFFICES ASSUME StakedGames PROVE PutUp(hs[h])'
    OBVIOUS
  <2>1. HouseStakes(hs[h]) /\ made = 0
    BY DEF SInv, SerialInvOf, PutUp
  <2>2. HouseStakes(hs[h])'
    BY <1>6, <2>1, HouseStakesSame
  <2> QED
    BY <2>1, <2>2 DEF PutUp
<1>11. PointsOK(hs[h])'
  BY <1>7, PointsStay
<1>12. FreezeCovered(hs[h])'
  <2>1. FreezeCovered(hs[h])
    BY DEF SInv, SerialInvOf
  <2> QED
    BY <1>1, <2>1 DEF FreezeCovered, PlayersOf
<1> QED
  BY <1>4, <1>5, <1>8, <1>9, <1>10, <1>11, <1>12 DEF SInv, SerialInvOf

\* A game that no call is on changes its stage, and nothing is frozen for it.
LEMMA StageOnlyKeeps ==
  ASSUME NEW h \in Handlers, SInv(h), LedgerInv', FinitelyMany,
         NEW g \in Games, stage[g] \in {"new", "queued"}, NEW s \in {"queued", "closed"},
         stage' = [stage EXCEPT ![g] = s], wallet' = wallet, hs' = hs, injected' = injected, made' = made,
         OneGameEach', FreezeCovered(hs[h])'
  PROVE  SInv(h)'
<1>1. \A x \in Games : stage'[x] = IF x = g THEN s ELSE stage[x]
  BY DEF SInv, LedgerInv, TypeOK
<1>2. SerialInvOf(hs[h])
  BY DEF SInv
<1>3. Fresh(hs[h])'
  BY <1>2 DEF SerialInvOf, Fresh
<1>4. CallOK(hs[h])'
  <2>1. CallOK(hs[h])
    BY <1>2 DEF SerialInvOf
  <2>2. ASSUME NEW x \in Games, hs[h].game = x
        PROVE  GameCallOK(hs[h], x)'
    <3>1. GameCallOK(hs[h], x) /\ x # g
      BY <2>1, <2>2 DEF CallOK
    <3> QED
      BY <1>1, <3>1 DEF GameCallOK
  <2>3. OtherCallOK(hs[h]) => OtherCallOK(hs[h])'
    BY DEF OtherCallOK
  <2> QED
    BY <1>1, <2>1, <2>2, <2>3 DEF CallOK
<1>5. \A x \in Games : \A a : Frozen(hs[h], x, a)' <=> Frozen(hs[h], x, a)
  BY <1>1 DEF Frozen
<1>6. UserStakes(hs[h])'
  <2>1. \A u \in Users : Unfrozen(hs[h], u) => Unfrozen(hs[h], u)'
    BY <1>1 DEF Unfrozen, PlayersOf
  <2> QED
    BY <1>5, <2>1, UserStakesSame
<1>7. StakedGames => PutUp(hs[h])'
  <2> SUFFICES ASSUME StakedGames PROVE PutUp(hs[h])'
    OBVIOUS
  <2>1. HouseStakes(hs[h]) /\ made = 0
    BY DEF SInv, SerialInvOf, PutUp
  <2>2. HouseStakes(hs[h])'
    BY <1>5, <2>1, HouseStakesSame
  <2> QED
    BY <2>1, <2>2 DEF PutUp
<1>8. PointsOK(hs[h])'
  <2>1. PointsOK(hs[h])
    BY <1>2 DEF SerialInvOf
  <2>2. AllPoints' = AllPoints /\ PointsDue' = PointsDue
    BY DEF AllPoints, PointsDue, InitialPoints
  <2>3. Owed(hs[h])' = Owed(hs[h]) /\ Unfunded(hs[h].game)' = Unfunded(hs[h].game)
    BY DEF Owed, Unfunded, Taken, Minus, BotCount, HouseStake
  <2> QED
    BY <1>1, <2>1, <2>2, <2>3 DEF PointsOK
<1> QED
  BY <1>3, <1>4, <1>6, <1>7, <1>8 DEF SInv, SerialInvOf

LEMMA EnqueueKeepsStakes ==
  ASSUME NEW h \in Handlers, SInv(h), LedgerInv', FinitelyMany,
         NEW g \in Games, Enqueue(g)
  PROVE  SInv(h)'
<1>1. /\ stage[g] = "new" /\ wallet' = wallet /\ hs' = hs /\ injected' = injected /\ made' = made
      /\ stage' = [stage EXCEPT ![g] = "queued"]
      /\ \A u \in PlayersOf(g) : ~Engaged(u) /\ wallet[u].bal >= Stake
  BY DEF Enqueue
<1>2. \A x \in Games : stage'[x] = IF x = g THEN "queued" ELSE stage[x]
  BY <1>1 DEF SInv, LedgerInv, TypeOK
<1>3. OneGameEach'
  <2>1. SUFFICES ASSUME NEW g1 \in Games, NEW g2 \in Games, NEW u \in PlayersOf(g1) \cap PlayersOf(g2),
                        stage'[g1] \in EngagedStage, stage'[g2] \in EngagedStage
                 PROVE  g1 = g2
    BY DEF OneGameEach, PlayersOf
  <2>2. \A x \in Games : x # g /\ stage'[x] \in EngagedStage /\ u \in PlayersOf(x) => u \notin PlayersOf(g)
    BY <1>1, <1>2 DEF Engaged, EngagedStage
  <2>3. CASE g1 # g /\ g2 # g
    BY <1>2, <2>1, <2>3 DEF SInv, SerialInvOf, OneGameEach
  <2> QED
    BY <2>1, <2>2, <2>3
<1>4. FreezeCovered(hs[h])'
  <2>1. FreezeCovered(hs[h])
    BY DEF SInv, SerialInvOf
  <2> QED
    BY <1>1, <1>2, <2>1 DEF FreezeCovered, PlayersOf
<1> QED
  BY <1>1, <1>3, <1>4, StageOnlyKeeps

\* What is known of a game's lists of operations.
LEMMA EachOfGame ==
  ASSUME NEW g \in Games,
         NEW op \in {"freeze", "unfreeze", "refund", "consume"}
  PROVE  LET all == Each(op, g.players, Stake)
         IN  /\ all \in Seq(Op)
             /\ \A i \in 1 .. Len(all) :
                  /\ all[i].op = op /\ all[i].who \in PlayersOf(g) /\ all[i].amt = Stake
                  /\ all[i].who # House
             /\ Distinct(all)
             /\ \A u \in PlayersOf(g) : \E i \in 1 .. Len(all) : all[i].who = u
<1> DEFINE all == Each(op, g.players, Stake)
<1>1. PlayersOf(g) \subseteq Users /\ House \notin PlayersOf(g) /\ g.players \in Seq(Users) /\ Stake \in Nat
  BY PlayersAreUsers
<1>2. op \in (Locked \cup Unlocked) \ {"adjust"}
  BY DEF Locked, Unlocked
<1>3. all \in Seq(Op)
  BY <1>1, <1>2, EachInSeq
<1>4. /\ Len(all) = Len(g.players)
      /\ \A i \in 1 .. Len(g.players) : all[i] = [op |-> op, who |-> g.players[i], amt |-> Stake]
  <2>1. g.players \in Seq(Users)
    BY <1>1
  <2> QED
    BY ONLY <2>1, EachAt DEF all
<1>5. \A i, j \in 1 .. Len(g.players) : g.players[i] = g.players[j] => i = j
  BY <1>1, DistinctPlayers
<1> HIDE DEF all
<1>6. \A i \in 1 .. Len(all) : all[i].op = op /\ all[i].who = g.players[i] /\ all[i].amt = Stake
  <2> TAKE i \in 1 .. Len(all)
  <2>1. all[i] = [op |-> op, who |-> g.players[i], amt |-> Stake]
    BY <1>4
  <2> QED
    BY <2>1
<1>7. \A i \in 1 .. Len(all) : all[i].who \in PlayersOf(g) /\ all[i].who # House
  BY <1>1, <1>4, <1>6 DEF PlayersOf
<1>8. Distinct(all)
  BY <1>4, <1>5, <1>6 DEF Distinct
<1>9. \A u \in PlayersOf(g) : \E i \in 1 .. Len(all) : all[i].who = u
  BY <1>4, <1>6 DEF PlayersOf
<1> QED
  BY <1>3, <1>6, <1>7, <1>8, <1>9 DEF all

\* tryAssembleMatch begins: nothing is frozen yet, and nothing is to be undone.
LEMMA AssembleKeepsStakes ==
  ASSUME NEW h \in Handlers, SInv(h), LedgerInv', FinitelyMany,
         NEW g \in Games, Assemble(h, g)
  PROVE  SInv(h)'
<1> DEFINE todo == Each("freeze", g.players, Stake)
           undo == <<>>
           now == "forming"
           next == "open"
<1>1. /\ g.kind = "assembled" /\ stage[g] = "queued"
      /\ wallet' = wallet /\ injected' = injected /\ made' = made
      /\ Begin(h, todo, undo, g, now, next)
  BY DEF Assemble
<1>2. /\ todo \in Seq(Op)
      /\ \A i \in 1 .. Len(todo) :
           /\ todo[i].op = "freeze" /\ todo[i].who \in PlayersOf(g) /\ todo[i].amt = Stake
           /\ todo[i].who # House
      /\ Distinct(todo)
      /\ \A u \in PlayersOf(g) : \E i \in 1 .. Len(todo) : todo[i].who = u
  BY EachOfGame
<1>3. undo \in Seq(Op) /\ g \in Games \cup {NoGame} /\ now \in Stage /\ next \in Stage /\ Len(undo) = 0
      /\ now = "forming" /\ next = "open" /\ now \in {"forming", "closing"}
  BY DEF Stage
<1> HIDE DEF todo, undo, now, next
<1>4. /\ hs[h].todo = <<>>
      /\ \A x \in Games : stage[x] \notin {"forming", "closing"}
      /\ hs'[h].todo = todo /\ hs'[h].undo = undo /\ hs'[h].game = g /\ hs'[h].next = next
      /\ \A x \in Games : stage'[x] = IF x = g THEN now ELSE stage[x]
  <2>1. /\ todo \in Seq(Op) /\ undo \in Seq(Op) /\ g \in Games \cup {NoGame}
        /\ now \in Stage /\ next \in Stage /\ Begin(h, todo, undo, g, now, next)
    BY <1>1, <1>2, <1>3
  <2> QED
    BY <2>1, Begun
<1>5. \A u \in PlayersOf(g) : Awaits(hs'[h], u, {"freeze"})
  BY <1>2, <1>4 DEF Awaits
<1>6. GameCallOK(hs[h], g)'
  <2>1. UndoOK(hs[h], g)'
    BY <1>1, <1>3, <1>4, <1>5 DEF UndoOK, Distinct
  <2>2. \A i \in 1 .. Len(hs'[h].todo) : StakeOp(g, hs'[h].todo[i])
    BY <1>2, <1>4 DEF StakeOp, Moving
  <2> QED
    BY <1>2, <1>3, <1>4, <2>1, <2>2 DEF GameCallOK
<1>7. \A x \in Games : \A u \in PlayersOf(x) : Frozen(hs[h], x, u)' <=> Frozen(hs[h], x, u)
  BY <1>1, <1>3, <1>4, <1>5 DEF Frozen
<1>8. \A x \in Games : x.kind = "fallback" => (Frozen(hs[h], x, House)' <=> Frozen(hs[h], x, House))
  BY <1>1, <1>3, <1>4 DEF Frozen
<1>9. Harmless(hs[h].todo) /\ Harmless(hs'[h].todo)
  BY <1>2, <1>4 DEF Harmless
<1>10. UserStakes(hs[h])' /\ PointsOK(hs[h])'
  BY <1>1, <1>7, <1>9, UserStakesKept, PointsStay
<1>11. StakedGames => HouseStakes(hs[h])' /\ made' = 0
  <2> SUFFICES ASSUME StakedGames PROVE HouseStakes(hs[h])' /\ made' = 0
    OBVIOUS
  <2>1. HouseStakes(hs[h]) /\ made = 0
    BY DEF SInv, SerialInvOf, PutUp
  <2> QED
    BY <1>1, <1>8, <2>1, HouseStakesSame
<1>12. stage[g] \in EngagedStage
  BY <1>1 DEF EngagedStage
<1> QED
  BY <1>1, <1>2, <1>3, <1>6, <1>10, <1>11, <1>12, GameCallBegins

\* fallbackToBotIfTimedOut begins: what is to be undone is the player's freeze.
LEMMA StakedFallbackKeeps ==
  ASSUME NEW h \in Handlers, SInv(h), LedgerInv', FinitelyMany,
         NEW g \in Games, g.kind = "fallback", stage[g] = "queued",
         wallet' = wallet, injected' = injected, made' = made,
         Begin(h, Each("freeze", g.players, Stake) \o One("freeze", House, HouseStake(g)),
               Each("unfreeze", g.players, Stake), g, "forming", "open")
  PROVE  SInv(h)'
<1> DEFINE f == Each("freeze", g.players, Stake)
           o == One("freeze", House, HouseStake(g))
           todo == f \o o
           undo == Each("unfreeze", g.players, Stake)
           now == "forming"
           next == "open"
           hstake == HouseStake(g)
<1>1. Begin(h, todo, undo, g, now, next)
  OBVIOUS
<1>2. /\ f \in Seq(Op)
      /\ \A i \in 1 .. Len(f) :
           /\ f[i].op = "freeze" /\ f[i].who \in PlayersOf(g) /\ f[i].amt = Stake
           /\ f[i].who # House
      /\ Distinct(f)
      /\ \A u \in PlayersOf(g) : \E i \in 1 .. Len(f) : f[i].who = u
  BY EachOfGame
<1>3. /\ undo \in Seq(Op)
      /\ \A i \in 1 .. Len(undo) :
           undo[i].op = "unfreeze" /\ undo[i].who \in PlayersOf(g) /\ undo[i].amt = Stake
      /\ Distinct(undo)
      /\ \A u \in PlayersOf(g) : \E i \in 1 .. Len(undo) : undo[i].who = u
  BY EachOfGame
<1>4. /\ o \in Seq(Op) /\ Len(o) = 1
      /\ o[1].op = "freeze" /\ o[1].who = House /\ o[1].amt = hstake
  <2>1. [op |-> "freeze", who |-> House, amt |-> hstake] \in Op /\ House \in Accounts
    BY PlayersAreUsers DEF Op, Locked, Unlocked, Accounts
  <2>2. o \in Seq(Op)
    BY <2>1, OneInSeq
  <2>3. Len(o) = 1 /\ o[1] = [op |-> "freeze", who |-> House, amt |-> hstake]
    BY OneAt
  <2> QED
    BY <2>2, <2>3
<1>5. /\ now \in Stage /\ next \in Stage /\ g \in Games \cup {NoGame}
      /\ now = "forming" /\ next = "open" /\ now \in {"forming", "closing"}
  BY DEF Stage
<1> HIDE DEF f, o
<1>6. /\ todo \in Seq(Op) /\ Len(todo) = Len(f) + 1
      /\ \A i \in 1 .. Len(f) : todo[i] = f[i]
      /\ todo[Len(f) + 1] = o[1]
  <2>1. f \in Seq(Op) /\ o \in Seq(Op)
    BY <1>2, <1>4
  <2>2. /\ todo \in Seq(Op) /\ Len(todo) = Len(f) + Len(o)
        /\ \A i \in 1 .. Len(f) : todo[i] = f[i]
        /\ \A i \in 1 .. Len(o) : todo[Len(f) + i] = o[i]
    BY <2>1, TwoParts
  <2>3. Len(o) = 1 /\ 1 \in 1 .. Len(o)
    BY <1>4
  <2> HIDE DEF todo
  <2> QED
    BY <2>2, <2>3
<1> HIDE DEF todo, undo, now, next, hstake
<1>7. Len(f) \in Nat /\ \A i \in 1 .. Len(todo) : i \in 1 .. Len(f) \/ i = Len(f) + 1
  BY <1>2, <1>6
<1>8. Len(f) + 1 \in 1 .. Len(todo) /\ \A i \in 1 .. Len(f) : i \in 1 .. Len(todo) /\ i # Len(f) + 1
  BY <1>6, <1>7
<1>9. \A i \in 1 .. Len(todo) :
        /\ todo[i].op = "freeze"
        /\ i # Len(todo) => todo[i].who \in PlayersOf(g) /\ todo[i].amt = Stake /\ todo[i].who # House
        /\ i = Len(todo) => todo[i].who = House /\ todo[i].amt = hstake
  BY <1>2, <1>4, <1>6, <1>7, <1>8
<1>10. Distinct(todo)
  <2> SUFFICES ASSUME NEW i \in 1 .. Len(todo), NEW j \in 1 .. Len(todo), todo[i].who = todo[j].who
               PROVE  i = j
    BY DEF Distinct
  <2>1. CASE i \in 1 .. Len(f) /\ j \in 1 .. Len(f)
    BY <1>2, <1>6, <2>1 DEF Distinct, Moving
  <2>2. CASE i = Len(todo) \/ j = Len(todo)
    BY <1>9, <2>2
  <2> QED
    BY <1>6, <1>7, <2>1, <2>2
<1>11. /\ \A u \in PlayersOf(g) : \E i \in 1 .. Len(todo) : todo[i].who = u
       /\ \E i \in 1 .. Len(todo) : todo[i].who = House
  BY <1>2, <1>6, <1>8, <1>9
<1>12. /\ \A x \in Games : stage[x] \notin {"forming", "closing"}
       /\ hs[h].todo = <<>>
       /\ hs'[h].todo = todo /\ hs'[h].undo = undo /\ hs'[h].game = g /\ hs'[h].next = next
       /\ \A x \in Games : stage'[x] = IF x = g THEN now ELSE stage[x]
  <2>1. /\ todo \in Seq(Op) /\ undo \in Seq(Op) /\ g \in Games \cup {NoGame}
        /\ now \in Stage /\ next \in Stage /\ Begin(h, todo, undo, g, now, next)
    BY <1>1, <1>3, <1>5, <1>6
  <2> QED
    BY <2>1, Begun
<1>13. \A a \in PlayersOf(g) \cup {House} : Awaits(hs'[h], a, {"freeze"})
  BY <1>9, <1>11, <1>12 DEF Awaits
<1>14. GameCallOK(hs[h], g)'
  <2>1. UndoOK(hs[h], g)'
    BY <1>3, <1>12 DEF UndoOK
  <2>2. \A i \in 1 .. Len(hs'[h].todo) : StakeOp(g, hs'[h].todo[i])
    <3>1. BotCount(g) > 0
      BY StakesMakePot
    <3> QED
      BY <1>9, <1>12, <3>1 DEF StakeOp, Moving, hstake
  <2>3. \A i \in 1 .. Len(hs'[h].todo) :
          hs'[h].todo[i].op = "freeze" /\ (hs'[h].todo[i].who = House => i = Len(hs'[h].todo))
    BY <1>9, <1>12
  <2>4. stage'[g] = "forming" /\ hs'[h].next = "open" /\ Distinct(hs'[h].todo)
    BY <1>5, <1>10, <1>12
  <2> QED
    BY <2>1, <2>2, <2>3, <2>4 DEF GameCallOK
<1>15. \A x \in Games : \A a \in PlayersOf(x) \cup {House} : Frozen(hs[h], x, a)' <=> Frozen(hs[h], x, a)
  BY <1>5, <1>12, <1>13 DEF Frozen
<1>16. Harmless(hs[h].todo) /\ Harmless(hs'[h].todo)
  BY <1>9, <1>12 DEF Harmless
<1>17. UserStakes(hs[h])' /\ PointsOK(hs[h])'
  BY <1>15, <1>16, UserStakesKept, PointsStay
<1>18. StakedGames => HouseStakes(hs[h])' /\ made' = 0
  <2> SUFFICES ASSUME StakedGames PROVE HouseStakes(hs[h])' /\ made' = 0
    OBVIOUS
  <2>1. HouseStakes(hs[h]) /\ made = 0
    BY DEF SInv, SerialInvOf, PutUp
  <2> QED
    BY <1>15, <2>1, HouseStakesSame
<1>19. stage[g] \in EngagedStage
  BY DEF EngagedStage
<1> QED
  BY <1>1, <1>3, <1>5, <1>6, <1>14, <1>17, <1>18, <1>19, GameCallBegins

LEMMA FallbackKeepsStakes ==
  ASSUME NEW h \in Handlers, SInv(h), LedgerInv', FinitelyMany,
         NEW g \in Games, Fallback(h, g)
  PROVE  SInv(h)'
<1>1. /\ g.kind = "fallback" /\ stage[g] = "queued"
      /\ wallet' = wallet /\ injected' = injected /\ made' = made
      /\ \/ stage' = [stage EXCEPT ![g] = "closed"] /\ hs' = hs
         \/ Begin(h, Each("freeze", g.players, Stake) \o One("freeze", House, HouseStake(g)),
                  Each("unfreeze", g.players, Stake), g, "forming", "open")
  BY DEF Fallback
<1>2. CASE stage' = [stage EXCEPT ![g] = "closed"] /\ hs' = hs
  <2>1. \A x \in Games : stage'[x] = IF x = g THEN "closed" ELSE stage[x]
    BY <1>2 DEF SInv, LedgerInv, TypeOK
  <2>2. OneGameEach
    BY DEF SInv, SerialInvOf
  <2>3. OneGameEach'
    BY <2>1, <2>2 DEF OneGameEach, PlayersOf, EngagedStage
  <2>4. FreezeCovered(hs[h])'
    <3>1. FreezeCovered(hs[h])
      BY DEF SInv, SerialInvOf
    <3> QED
      BY <1>1, <1>2, <2>1, <3>1 DEF FreezeCovered, PlayersOf
  <2> QED
    BY <1>1, <1>2, <2>3, <2>4, StageOnlyKeeps
<1>3. CASE Begin(h, Each("freeze", g.players, Stake) \o One("freeze", House, HouseStake(g)),
                 Each("unfreeze", g.players, Stake), g, "forming", "open")
  BY <1>1, <1>3, StakedFallbackKeeps
<1> QED
  BY <1>1, <1>2, <1>3

\* What the house has frozen for a game is no longer wanted.
LEMMA HouseReleased ==
  ASSUME NEW h \in Handlers, SInv(h), FinitelyMany, HouseStakes(hs[h]), wallet' = wallet, NEW g \in Games,
         ~(Frozen(hs[h], g, House)'),
         \A x \in Games \ {g} : Frozen(hs[h], x, House)' <=> Frozen(hs[h], x, House)
  PROVE  HouseStakes(hs[h])'
<1> DEFINE F  == HeldInGame(hs[h])
           F2 == HeldInGame(hs[h])'
<1>1. \A x \in Games \ {g} : F[x] = F2[x]
  BY DEF HeldInGame, HouseStake
<1>2. F2[g] = 0
  BY DEF HeldInGame
<1>3. \A x \in Games : F[x] \in Nat
  BY HeldNat
<1>4. HouseHeld(hs[h]) = SumFunctionOnSet(F, Games) /\ HouseHeld(hs[h])' = SumFunctionOnSet(F2, Games)
  BY DEF HouseHeld
<1> HIDE DEF F, F2
<1>5. \A x \in Games : F[x] \in Int /\ F2[x] \in Int
  BY <1>1, <1>2, <1>3
<1>6. /\ SumFunctionOnSet(F, Games) \in Int
      /\ SumFunctionOnSet(F2, Games) = SumFunctionOnSet(F, Games) + F2[g] - F[g]
  <2>1. IsFiniteSet(Games)
    BY DEF FinitelyMany
  <2> QED
    BY <1>1, <1>5, <2>1, SumChange
<1>7. HouseHeld(hs[h]) <= wallet[House].frz
  BY DEF HouseStakes
<1>8. wallet[House].frz \in Nat
  <2>1. wallet[House] \in Wallet
    BY DEF Accounts, SInv, LedgerInv, TypeOK
  <2> QED
    BY <2>1 DEF Wallet
<1>9. HouseHeld(hs[h])' <= wallet[House].frz
  BY <1>2, <1>3, <1>4, <1>6, <1>7, <1>8
<1> QED
  BY <1>9 DEF HouseStakes

\* cancelMatch begins: the players' stakes are still to be refunded.
LEMMA CancelKeepsStakes ==
  ASSUME NEW h \in Handlers, SInv(h), LedgerInv', FinitelyMany,
         NEW g \in Games, Cancel(h, g)
  PROVE  SInv(h)'
<1> DEFINE todo == Each("refund", g.players, Stake)
           undo == <<>>
           now == "closing"
           next == "closed"
<1>1. /\ Active(g) /\ wallet' = wallet /\ injected' = injected /\ made' = made
      /\ Begin(h, todo, undo, g, now, next)
  BY DEF Cancel
<1>2. /\ todo \in Seq(Op)
      /\ \A i \in 1 .. Len(todo) :
           /\ todo[i].op = "refund" /\ todo[i].who \in PlayersOf(g) /\ todo[i].amt = Stake
           /\ todo[i].who # House
      /\ Distinct(todo)
      /\ \A u \in PlayersOf(g) : \E i \in 1 .. Len(todo) : todo[i].who = u
  BY EachOfGame
<1>3. /\ undo \in Seq(Op) /\ g \in Games \cup {NoGame} /\ now \in Stage /\ next \in Stage
      /\ now = "closing" /\ next = "closed" /\ now \in {"forming", "closing"}
  BY DEF Stage
<1> HIDE DEF todo, undo, now, next
<1>4. /\ hs[h].todo = <<>>
      /\ \A x \in Games : stage[x] \notin {"forming", "closing"}
      /\ hs'[h].todo = todo /\ hs'[h].undo = undo /\ hs'[h].game = g /\ hs'[h].next = next
      /\ \A x \in Games : stage'[x] = IF x = g THEN now ELSE stage[x]
  <2>1. /\ todo \in Seq(Op) /\ undo \in Seq(Op) /\ g \in Games \cup {NoGame}
        /\ now \in Stage /\ next \in Stage /\ Begin(h, todo, undo, g, now, next)
    BY <1>1, <1>2, <1>3
  <2> QED
    BY <2>1, Begun
<1>5. stage[g] = "open"
  BY <1>1, <1>4 DEF Active
<1>6. /\ \A u \in PlayersOf(g) : Awaits(hs'[h], u, Returning)
      /\ ~Awaits(hs'[h], House, Returning)
  BY <1>2, <1>4 DEF Awaits, Returning
<1>7. GameCallOK(hs[h], g)'
  <2>1. \A i \in 1 .. Len(hs'[h].todo) : StakeOp(g, hs'[h].todo[i])
    BY <1>2, <1>4 DEF StakeOp, Moving
  <2> QED
    BY <1>2, <1>3, <1>4, <2>1 DEF GameCallOK
<1>8. \A x \in Games : \A u \in PlayersOf(x) : Frozen(hs[h], x, u)' <=> Frozen(hs[h], x, u)
  BY <1>3, <1>4, <1>5, <1>6 DEF Frozen
<1>9. Harmless(hs[h].todo) /\ Harmless(hs'[h].todo)
  BY <1>2, <1>4 DEF Harmless
<1>10. UserStakes(hs[h])' /\ PointsOK(hs[h])'
  BY <1>1, <1>8, <1>9, UserStakesKept, PointsStay
<1>11. StakedGames => HouseStakes(hs[h])' /\ made' = 0
  <2> SUFFICES ASSUME StakedGames PROVE HouseStakes(hs[h])' /\ made' = 0
    OBVIOUS
  <2>1. HouseStakes(hs[h]) /\ made = 0
    BY DEF SInv, SerialInvOf, PutUp
  <2>2. ~(Frozen(hs[h], g, House)')
    BY <1>3, <1>4, <1>6 DEF Frozen
  <2>3. \A x \in Games \ {g} : Frozen(hs[h], x, House)' <=> Frozen(hs[h], x, House)
    BY <1>4 DEF Frozen
  <2> QED
    BY <1>1, <2>1, <2>2, <2>3, HouseReleased
<1>12. stage[g] \in EngagedStage /\ now # "forming"
  BY <1>3, <1>5 DEF EngagedStage
<1> QED
  BY <1>1, <1>2, <1>3, <1>7, <1>10, <1>11, <1>12, GameCallBegins

\* settleIfFinished begins: every stake is still to be consumed, none is spent.
LEMMA SettleKeepsStakes ==
  ASSUME NEW h \in Handlers, SInv(h), LedgerInv', FinitelyMany,
         NEW g \in Games, NEW winner \in Accounts, Settle(h, g, winner)
  PROVE  SInv(h)'
<1> DEFINE todo == Settlement(g, winner)
           undo == <<>>
           now == "closing"
           next == "closed"
           n == Len(g.players)
           pot == Pot(Stake, g.size)
<1>1. /\ Active(g) /\ wallet' = wallet /\ injected' = injected /\ made' = made + Unfunded(g)
      /\ Begin(h, todo, undo, g, now, next)
  BY DEF Settle
<1>2. todo \in Seq(Op)
  BY SettlementInSeq
<1>3. /\ n \in Nat \ {0} /\ Len(todo) = n + Bots(g) + 1 + Fees(g)
      /\ \A i \in 1 .. n : todo[i] = [op |-> "consume", who |-> g.players[i], amt |-> Stake]
      /\ Bots(g) = 1 => todo[n + 1] = [op |-> "consume", who |-> House, amt |-> HouseStake(g)]
      /\ todo[n + Bots(g) + 1] = [op |-> "credit", who |-> winner, amt |-> Payout(pot)]
      /\ Fees(g) = 1 => todo[n + Bots(g) + 2] = [op |-> "credit", who |-> House, amt |-> Fee(pot)]
  BY SettlementAt
<1>4. /\ Bots(g) \in {0, 1} /\ Fees(g) \in {0, 1}
      /\ Bots(g) = 1 <=> BotCount(g) > 0
      /\ g.kind = "fallback" => BotCount(g) > 0
  BY StakesMakePot
<1>5. /\ undo \in Seq(Op) /\ g \in Games \cup {NoGame} /\ now \in Stage /\ next \in Stage
      /\ now = "closing" /\ next = "closed" /\ now \in {"forming", "closing"}
  BY DEF Stage
<1>6. /\ PlayersOf(g) = {g.players[i] : i \in 1 .. n} /\ House \notin PlayersOf(g)
      /\ \A i, j \in 1 .. n : g.players[i] = g.players[j] => i = j
      /\ g.kind \in {"assembled", "fallback"}
  BY PlayersAreUsers, DistinctPlayers DEF PlayersOf
<1> HIDE DEF todo, undo, now, next, n, pot
<1>7. /\ hs[h].todo = <<>>
      /\ \A x \in Games : stage[x] \notin {"forming", "closing"}
      /\ hs'[h].todo = todo /\ hs'[h].undo = undo /\ hs'[h].game = g /\ hs'[h].next = next
      /\ \A x \in Games : stage'[x] = IF x = g THEN now ELSE stage[x]
  <2>1. /\ todo \in Seq(Op) /\ undo \in Seq(Op) /\ g \in Games \cup {NoGame}
        /\ now \in Stage /\ next \in Stage /\ Begin(h, todo, undo, g, now, next)
    BY <1>1, <1>2, <1>5
  <2> QED
    BY <2>1, Begun
<1>8. stage[g] = "open"
  BY <1>1, <1>7 DEF Active
<1>9. \A i \in 1 .. Len(todo) :
        \/ i \in 1 .. n
        \/ i = n + 1 /\ Bots(g) = 1
        \/ i = n + Bots(g) + 1
        \/ i = n + Bots(g) + 2 /\ Fees(g) = 1
  BY <1>3, <1>4
<1>10. /\ \A i \in 1 .. n :
            i \in 1 .. Len(todo) /\ todo[i].op = "consume" /\ todo[i].who = g.players[i] /\ todo[i].amt = Stake
       /\ Bots(g) = 1 =>
            /\ n + 1 \in 1 .. Len(todo) /\ todo[n + 1].op = "consume" /\ todo[n + 1].who = House
            /\ todo[n + 1].amt = HouseStake(g)
       /\ todo[n + Bots(g) + 1].op = "credit"
       /\ Fees(g) = 1 => todo[n + Bots(g) + 2].op = "credit"
  <2>1. \A i \in 1 .. n : i \in 1 .. Len(todo)
    BY <1>3, <1>4
  <2>2. Bots(g) = 1 => n + 1 \in 1 .. Len(todo)
    BY <1>3, <1>4
  <2>3. ASSUME NEW i \in 1 .. n
        PROVE  todo[i].op = "consume" /\ todo[i].who = g.players[i] /\ todo[i].amt = Stake
    <3>1. todo[i] = [op |-> "consume", who |-> g.players[i], amt |-> Stake]
      BY <1>3
    <3> QED
      BY <3>1
  <2>4. Bots(g) = 1 =>
          todo[n + 1].op = "consume" /\ todo[n + 1].who = House /\ todo[n + 1].amt = HouseStake(g)
    BY <1>3
  <2>5. /\ todo[n + Bots(g) + 1].op = "credit"
        /\ Fees(g) = 1 => todo[n + Bots(g) + 2].op = "credit"
    <3>1. todo[n + Bots(g) + 1] = [op |-> "credit", who |-> winner, amt |-> Payout(pot)]
      BY <1>3
    <3>2. Fees(g) = 1 => todo[n + Bots(g) + 2] = [op |-> "credit", who |-> House, amt |-> Fee(pot)]
      BY <1>3
    <3> QED
      BY <3>1, <3>2
  <2> QED
    BY <2>1, <2>2, <2>3, <2>4, <2>5
<1>11. ASSUME NEW i \in 1 .. Len(todo)
       PROVE  /\ todo[i].op \in {"consume", "credit"}
              /\ todo[i].op = "consume" =>
                   \/ i \in 1 .. n /\ todo[i].who = g.players[i] /\ todo[i].amt = Stake
                   \/ i = n + 1 /\ Bots(g) = 1 /\ todo[i].who = House /\ todo[i].amt = HouseStake(g)
  BY <1>9, <1>10
<1>12. \A i \in 1 .. Len(todo) : todo[i].op \in Moving => StakeOp(g, todo[i])
  BY <1>4, <1>6, <1>11 DEF StakeOp, Moving
<1>13. Distinct(todo)
  <2> SUFFICES ASSUME NEW i \in 1 .. Len(todo), NEW j \in 1 .. Len(todo),
                      todo[i].op = "consume", todo[j].op = "consume", todo[i].who = todo[j].who
               PROVE  i = j
    BY <1>11 DEF Distinct, Moving
  <2>1. \A k \in 1 .. n : g.players[k] # House
    BY <1>6
  <2> QED
    BY <1>6, <1>11, <2>1
<1>14. \A u \in PlayersOf(g) : Awaits(hs'[h], u, Returning)
  BY <1>6, <1>7, <1>10 DEF Awaits, Returning
<1>15. g.kind = "fallback" => Awaits(hs'[h], House, Returning)
  BY <1>4, <1>7, <1>10 DEF Awaits, Returning
<1>16. GameCallOK(hs[h], g)'
  <2>1. \A i \in 1 .. Len(hs'[h].todo) : hs'[h].todo[i].op \in {"refund", "consume", "credit"}
    BY <1>7, <1>11
  <2>2. stage'[g] = "closing" /\ hs'[h].next = "closed"
    BY <1>5, <1>7
  <2> QED
    BY <1>7, <1>12, <1>13, <2>1, <2>2 DEF GameCallOK
<1>17. \A x \in Games : \A u \in PlayersOf(x) : Frozen(hs[h], x, u)' <=> Frozen(hs[h], x, u)
  BY <1>5, <1>7, <1>8, <1>14 DEF Frozen
<1>18. \A x \in Games : x.kind = "fallback" => (Frozen(hs[h], x, House)' <=> Frozen(hs[h], x, House))
  BY <1>5, <1>7, <1>8, <1>15 DEF Frozen
<1>19. UserStakes(hs[h])'
  <2>1. Harmless(hs[h].todo)
    BY <1>7 DEF Harmless
  <2> QED
    BY <1>1, <1>17, <2>1, UserStakesKept
<1>20. PointsOK(hs[h])'
  <2>1. /\ AllPoints + Owed(hs[h]) = PointsDue /\ AllPoints \in Int
        /\ Owed(hs[h]) = 0
    BY <1>7, NothingSpent, PointsInt DEF SInv, Owed
  <2>2. /\ Unfunded(g)' = Unfunded(g) /\ Unfunded(g) \in Int
        /\ Spent(g, 0, Unfunded(g)) = Unfunded(g)
    <3>1. wallet[House] \in Wallet
      BY DEF SInv, LedgerInv, TypeOK, Accounts
    <3>2. Unfunded(g) \in Extra(g)
      BY <3>1, UnfundedExtra DEF Unfunded
    <3>3. Spent(g, 0, Unfunded(g)) = Unfunded(g)
      BY <3>2, SettlementSteps
    <3>4. Unfunded(g)' = Unfunded(g)
      BY <1>1 DEF Unfunded, Taken, Minus
    <3> QED
      BY <3>2, <3>3, <3>4 DEF Extra
  <2>3. AllPoints' + Spent(g, 0, Unfunded(g)') = PointsDue'
    <3>1. AllPoints' = AllPoints
      BY <1>1 DEF AllPoints
    <3>2. PointsDue' = InitialPoints + injected + (made + Unfunded(g))
      BY <1>1 DEF PointsDue, InitialPoints
    <3>3. InitialPoints \in Int /\ injected \in Int /\ made \in Int
      BY DueInt DEF SInv
    <3>4. AllPoints + 0 = InitialPoints + injected + made
      BY <2>1 DEF PointsDue
    <3>5. AllPoints + Unfunded(g) = InitialPoints + injected + (made + Unfunded(g))
      BY <2>1, <2>2, <3>3, <3>4
    <3> QED
      BY <2>2, <3>1, <3>2, <3>5
  <2>4. SettlingAt(hs'[h], g, winner, 0)
    <3>1. hs'[h].todo = Settlement(g, winner) /\ Len(Settlement(g, winner)) \in Nat
      BY <1>2, <1>7 DEF todo
    <3> HIDE DEF todo
    <3>2. \A i \in 1 .. Len(hs'[h].todo) : hs'[h].todo[i] = Settlement(g, winner)[0 + i]
      BY <3>1
    <3> QED
      BY <3>1, <3>2 DEF SettlingAt
  <2>5. 0 \in 0 .. Len(Settlement(g, winner))
    BY <2>4 DEF SettlingAt
  <2>6. hs'[h].game \in Games /\ hs'[h].game = g /\ stage'[hs'[h].game] = "closing"
    BY <1>5, <1>7
  <2>7. Unfunded(hs[h].game)' = Unfunded(g)'
    BY <2>6 DEF Unfunded, Taken, Minus, BotCount, HouseStake
  <2>8. \E w \in Accounts : \E k \in 0 .. Len(Settlement(hs'[h].game, w)) :
          /\ SettlingAt(hs'[h], hs'[h].game, w, k)
          /\ AllPoints' + Spent(hs'[h].game, k, Unfunded(hs[h].game)') = PointsDue'
    BY <2>3, <2>4, <2>5, <2>6, <2>7
  <2> QED
    BY <2>6, <2>8 DEF PointsOK, SettlingAt, Settlement, Spent
<1>21. StakedGames => HouseStakes(hs[h])' /\ made' = 0
  <2> SUFFICES ASSUME StakedGames PROVE HouseStakes(hs[h])' /\ made' = 0
    OBVIOUS
  <2>1. HouseStakes(hs[h]) /\ made = 0
    BY DEF SInv, SerialInvOf, PutUp
  <2>2. HouseStakes(hs[h])'
    BY <1>1, <1>18, <2>1, HouseStakesSame
  <2>3. Unfunded(g) = 0
    <3>1. CASE BotCount(g) > 0
      <4>1. g.kind = "fallback" /\ Stake * BotCount(g) = HouseStake(g)
        BY <3>1, BotsOfFallbacks
      <4>2. Frozen(hs[h], g, House)
        BY <1>8 DEF Frozen
      <4>3. HouseStake(g) <= wallet[House].frz
        BY <2>1, <4>1, <4>2, HouseCovers DEF SInv
      <4>4. wallet[House] \in Wallet /\ HouseStake(g) \in Nat
        BY PlayersAreUsers DEF SInv, LedgerInv, TypeOK, Accounts
      <4>5. Taken(wallet[House], HouseStake(g)) = HouseStake(g)
        BY <4>3, <4>4, TakenFacts
      <4> QED
        BY <3>1, <4>1, <4>4, <4>5 DEF Unfunded
    <3>2. CASE ~(BotCount(g) > 0)
      BY <3>2 DEF Unfunded
    <3> QED
      BY <3>1, <3>2
  <2> QED
    BY <1>1, <2>1, <2>2, <2>3
<1>22. stage[g] \in EngagedStage /\ now # "forming"
  BY <1>5, <1>8 DEF EngagedStage
<1> QED
  BY <1>1, <1>2, <1>5, <1>16, <1>19, <1>20, <1>21, <1>22, GameCallBegins

\* POST wallet/reset-frozen of a user in no match, who has nothing frozen.
LEMMA ResetFrozenKeepsStakes ==
  ASSUME NEW h \in Handlers, SInv(h), LedgerInv', FinitelyMany, ~AdminResets,
         NEW u \in Users, ResetFrozen(h, u)
  PROVE  SInv(h)'
<1>1. /\ \A g \in Games : Active(g) => u \notin PlayersOf(g)
      /\ Begin(h, One("reset", u, 0), <<>>, NoGame, "closed", "closed")
      /\ wallet' = wallet /\ injected' = injected /\ made' = made
  BY DEF ResetFrozen
<1>2. \A g \in Games : stage[g] \notin {"forming", "closing"}
  <2>1. ~hs[h].busy
    BY <1>1 DEF Begin
  <2>2. CallOK(hs[h]) /\ NoGame \notin Games
    BY LedgerAssumption DEF SInv, SerialInvOf
  <2> QED
    BY <2>1, <2>2 DEF CallOK
<1>3. \A g \in Games : ~(u \in PlayersOf(g) /\ Frozen(hs[h], g, u))
  BY <1>1, <1>2 DEF Frozen, Active
<1>4. wallet[u].frz = 0
  BY <1>3 DEF SInv, SerialInvOf, UserStakes
<1>5. One("reset", u, 0) \in Seq(Op)
  BY OneInSeq DEF Accounts, Op, Locked, Unlocked
<1> QED
  BY <1>1, <1>4, <1>5, OtherCallBegins

LEMMA UpdateBalanceKeepsStakes ==
  ASSUME NEW h \in Handlers, SInv(h), LedgerInv', FinitelyMany,
         NEW a \in Adjusted, NEW amt \in Adjustments, UpdateBalance(h, a, amt)
  PROVE  SInv(h)'
<1>1. /\ Begin(h, One("adjust", a, amt), <<>>, NoGame, "closed", "closed")
      /\ wallet' = wallet /\ injected' = injected /\ made' = made
  BY DEF UpdateBalance
<1>2. One("adjust", a, amt) \in Seq(Op)
  BY OneInSeq, LedgerAssumption DEF Op
<1> QED
  BY <1>1, <1>2, OtherCallBegins

\* At first every point is in a balance.
LEMMA InitialSum ==
  ASSUME Init, FinitelyMany
  PROVE  AllPoints = InitialPoints
<1> DEFINE P == [a \in Accounts |-> wallet[a].bal + wallet[a].frz]
<1>1. /\ House \notin Users /\ UserBalance \in Nat /\ HouseBalance \in Nat
  BY LedgerAssumption
<1>2. /\ \A u \in Users : P[u] = UserBalance
      /\ P[House] = HouseBalance
  BY <1>1 DEF Init, Accounts
<1>3. IsFiniteSet(Accounts) /\ IsFiniteSet(Users) /\ Accounts \ {House} = Users /\ House \in Accounts
  BY <1>1, FS_AddElement DEF FinitelyMany, Accounts
<1>4. AllPoints = SumFunctionOnSet(P, Accounts)
  BY DEF AllPoints, SumFunction
<1> HIDE DEF P
<1>5. \A a \in Accounts : P[a] \in Int
  BY <1>1, <1>2 DEF Accounts
<1>6. SumFunctionOnSet(P, Accounts) = P[House] + SumFunctionOnSet(P, Accounts \ {House})
  BY <1>3, <1>5, SumRemove
<1>7. SumFunctionOnSet(P, Users) = UserBalance * Cardinality(Users)
  BY <1>1, <1>2, <1>3, SumConstant
<1> QED
  BY <1>2, <1>3, <1>4, <1>6, <1>7 DEF InitialPoints

LEMMA InitStakes ==
  ASSUME NEW h \in Handlers, Init, FinitelyMany
  PROVE  SInv(h)
<1>1. hs[h] = Idle /\ injected = 0 /\ made = 0 /\ \A g \in Games : stage[g] = "new"
  BY DEF Init
<1>2. \A a \in Accounts : wallet[a].frz = 0
  BY DEF Init
<1>3. /\ hs[h].todo = <<>> /\ hs[h].copy = NoRow /\ hs[h].seen = NoRow
      /\ hs[h].game = NoGame /\ ~hs[h].busy /\ NoGame \notin Games
  BY <1>1, LedgerAssumption DEF Idle
<1>4. \A g \in Games : \A a : ~Frozen(hs[h], g, a)
  BY <1>1 DEF Frozen
<1>5. UserStakes(hs[h])
  BY <1>2, <1>4 DEF UserStakes, Accounts
<1>6. HouseStakes(hs[h])
  <2> DEFINE F == HeldInGame(hs[h])
  <2>1. \A g \in Games : F[g] = 0
    BY <1>4 DEF HeldInGame
  <2>2. HouseHeld(hs[h]) = SumFunctionOnSet(F, Games) /\ IsFiniteSet(Games)
    BY DEF HouseHeld, FinitelyMany
  <2> HIDE DEF F
  <2>3. SumFunctionOnSet(F, Games) = 0 * Cardinality(Games)
    BY <2>1, <2>2, SumConstant
  <2>4. Cardinality(Games) \in Nat
    BY <2>2, FS_CardinalityType
  <2>5. wallet[House].frz = 0
    BY <1>2 DEF Accounts
  <2> QED
    BY <2>2, <2>3, <2>4, <2>5 DEF HouseStakes
<1>7. CallOK(hs[h])
  BY <1>1, <1>3 DEF CallOK, OtherCallOK
<1>8. PointsOK(hs[h])
  <2>1. AllPoints + 0 = InitialPoints + injected + made
    <3>1. AllPoints = InitialPoints /\ AllPoints \in Int
      BY InitialSum, PointsInt, InitLedger
    <3> QED
      BY <1>1, <3>1
  <2>2. Owed(hs[h]) = 0
    BY <1>3 DEF Owed
  <2> QED
    BY <1>3, <2>1, <2>2 DEF PointsOK, PointsDue
<1>9. Fresh(hs[h]) /\ OneGameEach /\ FreezeCovered(hs[h])
  BY <1>1, <1>3 DEF Fresh, OneGameEach, FreezeCovered, EngagedStage
<1> QED
  BY <1>1, <1>5, <1>6, <1>7, <1>8, <1>9, InitLedger DEF SInv, SerialInvOf, PutUp

\* The invariant: while one call runs at a time and the server is not restarted.
StakesInv(h) == SInv(h) /\ restarts = 0

LEMMA NextStakes ==
  ASSUME NEW h, OneCall(h), FinitelyMany, StakesInv(h), [Next]_vars
  PROVE  StakesInv(h)'
<1>1. Handlers = {h} /\ h \in Handlers /\ ~AdminResets /\ restarts = 0 /\ SInv(h)
  BY DEF OneCall, StakesInv
<1>2. LedgerInv'
  BY <1>1, NextLedger DEF SInv
<1>3. ~Restart
  BY <1>1 DEF Restart
<1>4. restarts' = restarts
  BY <1>3 DEF Next, vars, Step, LockedOp, Load, Select, Save, Finish, Enqueue, Assemble, Fallback,
              Cancel, Settle, ResetFrozen, UpdateBalance
<1>5. CASE \E c \in Handlers : Step(c)
  <2>1. Step(h)
    BY <1>1, <1>5
  <2> QED
    BY <1>1, <1>2, <1>4, <2>1, CallStepKeeps, FinishKeepsStakes DEF Step, StakesInv
<1>6. CASE \E g \in Games : Enqueue(g)
  BY <1>1, <1>2, <1>4, <1>6, EnqueueKeepsStakes DEF StakesInv
<1>7. CASE \E c \in Handlers, g \in Games : Assemble(c, g) \/ Fallback(c, g) \/ Cancel(c, g)
  BY <1>1, <1>2, <1>4, <1>7, AssembleKeepsStakes, FallbackKeepsStakes, CancelKeepsStakes DEF StakesInv
<1>8. CASE \E c \in Handlers, g \in Games, winner \in Accounts : Settle(c, g, winner)
  BY <1>1, <1>2, <1>4, <1>8, SettleKeepsStakes DEF StakesInv
<1>9. CASE \E c \in Handlers, u \in Users : ResetFrozen(c, u)
  BY <1>1, <1>2, <1>4, <1>9, ResetFrozenKeepsStakes DEF StakesInv
<1>10. CASE \E c \in Handlers, a \in Adjusted, amt \in Adjustments : UpdateBalance(c, a, amt)
  BY <1>1, <1>2, <1>4, <1>10, UpdateBalanceKeepsStakes DEF StakesInv
<1>11. CASE UNCHANGED vars
  <2>1. /\ wallet' = wallet /\ stage' = stage /\ hs' = hs /\ injected' = injected /\ made' = made
    BY <1>11 DEF vars
  <2>2. SerialInvOf(hs[h])
    BY <1>1 DEF SInv
  <2>3. SerialInvOf(hs[h])'
    <3>1. Fresh(hs[h])' /\ OneGameEach'
      BY <2>1, <2>2 DEF SerialInvOf, Fresh, OneGameEach
    <3>2. CallOK(hs[h])'
      BY <2>1, <2>2 DEF SerialInvOf, CallOK, GameCallOK, UndoOK, OtherCallOK
    <3>3. \A x \in Games : \A a : Frozen(hs[h], x, a)' <=> Frozen(hs[h], x, a)
      BY <2>1 DEF Frozen
    <3>4. \A u \in Users : Unfrozen(hs[h], u) => Unfrozen(hs[h], u)'
      BY <2>1 DEF Unfrozen
    <3>5. UserStakes(hs[h])'
      BY <1>1, <2>1, <3>3, <3>4, UserStakesSame
    <3>6. StakedGames => PutUp(hs[h])'
      <4> SUFFICES ASSUME StakedGames PROVE PutUp(hs[h])'
        OBVIOUS
      <4>1. HouseStakes(hs[h]) /\ made = 0
        BY <2>2 DEF SerialInvOf, PutUp
      <4>2. HouseStakes(hs[h])'
        BY <1>1, <2>1, <3>3, <4>1, HouseStakesSame
      <4> QED
        BY <2>1, <4>1, <4>2 DEF PutUp
    <3>7. PointsOK(hs[h])'
      <4>1. PointsOK(hs[h])
        BY <2>2 DEF SerialInvOf
      <4>2. AllPoints' = AllPoints /\ PointsDue' = PointsDue
        BY <2>1 DEF AllPoints, PointsDue, InitialPoints
      <4>3. Owed(hs[h])' = Owed(hs[h]) /\ Unfunded(hs[h].game)' = Unfunded(hs[h].game)
        BY <2>1 DEF Owed, Unfunded, Taken, Minus, BotCount, HouseStake
      <4> QED
        BY <2>1, <4>1, <4>2, <4>3 DEF PointsOK
    <3>8. FreezeCovered(hs[h])'
      BY <2>1, <2>2 DEF SerialInvOf, FreezeCovered
    <3> QED
      BY <3>1, <3>2, <3>5, <3>6, <3>7, <3>8 DEF SerialInvOf
  <2> QED
    BY <1>1, <1>2, <1>4, <2>3 DEF StakesInv, SInv
<1> QED
  BY <1>3, <1>5, <1>6, <1>7, <1>8, <1>9, <1>10, <1>11 DEF Next

LEMMA BetweenCalls ==
  ASSUME NEW h, OneCall(h), FinitelyMany, StakesInv(h)
  PROVE  Conserved
<1> SUFFICES ASSUME Quiet PROVE AllPoints = InitialPoints + injected + made
  BY DEF Conserved
<1>1. h \in Handlers /\ SInv(h) /\ ~hs[h].busy
  BY DEF StakesInv, OneCall, Quiet
<1>2. hs[h].todo = <<>>
  BY <1>1 DEF SInv, SerialInvOf, CallOK
<1>3. AllPoints + Owed(hs[h]) = PointsDue
  BY <1>1, <1>2, NothingSpent
<1>4. Owed(hs[h]) = 0 /\ AllPoints \in Int
  BY <1>1, <1>2, PointsInt DEF Owed, SInv
<1> QED
  BY <1>3, <1>4 DEF PointsDue

\* A series of calls that do not overlap accounts for every point, whatever bots the
\* matches have, whatever freezes fail and whatever admins add: freezing, undoing a
\* match that cannot be formed, settling, cancelling and resetting add or take away
\* what made has counted, the stakes nobody had put up, and nothing else.
THEOREM SerialConserved ==
  ASSUME NEW CONSTANT h, OneCall(h), FinitelyMany
  PROVE  Spec => []Conserved
<1>1. Init => StakesInv(h)
  BY InitStakes DEF OneCall, StakesInv, Init
<1>2. StakesInv(h) /\ [Next]_vars => StakesInv(h)'
  BY NextStakes
<1>3. StakesInv(h) => Conserved
  BY BetweenCalls
<1> QED
  BY <1>1, <1>2, <1>3, PTL DEF Spec

\* Where the players of an assembled match are as many as its tickets say, and no
\* admin changes the balance of a fallback's player, nothing is made: calls that do
\* not overlap keep the number of points, but for what admins add.
THEOREM StakedGamesKeepPoints ==
  ASSUME NEW CONSTANT h, OneCall(h), StakedGames, FinitelyMany
  PROVE  Spec => []PointsKept
<1>1. Init => StakesInv(h)
  BY InitStakes DEF OneCall, StakesInv, Init
<1>2. StakesInv(h) /\ [Next]_vars => StakesInv(h)'
  BY NextStakes
<1>3. StakesInv(h) => PointsKept
  <2> SUFFICES ASSUME StakesInv(h), Quiet PROVE AllPoints = InitialPoints + injected
    BY DEF PointsKept
  <2>1. AllPoints = InitialPoints + injected + made
    BY BetweenCalls DEF Conserved
  <2>2. made = 0
    BY DEF StakesInv, SInv, SerialInvOf, PutUp
  <2>3. InitialPoints \in Int /\ injected \in Int
    BY DueInt DEF StakesInv, SInv
  <2> QED
    BY <2>1, <2>2, <2>3
<1> QED
  BY <1>1, <1>2, <1>3, PTL DEF Spec

\* And a user has frozen what his open matches hold, so no stake of a match that
\* was not formed, was cancelled or is settled stays behind in the wallet.
THEOREM SerialFrozenBacked ==
  ASSUME NEW CONSTANT h, OneCall(h), FinitelyMany
  PROVE  Spec => []FrozenBacked
<1>1. Init => StakesInv(h)
  BY InitStakes DEF OneCall, StakesInv, Init
<1>2. StakesInv(h) /\ [Next]_vars => StakesInv(h)'
  BY NextStakes
<1>3. StakesInv(h) => FrozenBacked
  <2> SUFFICES ASSUME StakesInv(h), Quiet, NEW u \in Users
               PROVE  wallet[u].frz =
                        Stake * Cardinality({g \in Games : stage[g] = "open" /\ u \in PlayersOf(g)})
    BY DEF FrozenBacked
  <2> DEFINE open == {g \in Games : stage[g] = "open" /\ u \in PlayersOf(g)}
  <2>1. h \in Handlers /\ SInv(h) /\ ~hs[h].busy
    BY DEF StakesInv, OneCall, Quiet
  <2>2. \A g \in Games : stage[g] \notin {"forming", "closing"}
    <3>1. CallOK(hs[h]) /\ NoGame \notin Games
      BY <2>1, LedgerAssumption DEF SInv, SerialInvOf
    <3> QED
      BY <2>1, <3>1 DEF CallOK
  <2>3. \A g \in Games : Frozen(hs[h], g, u) <=> stage[g] = "open"
    BY <2>2 DEF Frozen
  <2>4. wallet[u].frz = IF open # {} THEN Stake ELSE 0
    <3>1. ~Unfrozen(hs[h], u)
      BY <2>2 DEF Unfrozen
    <3> QED
      BY <2>1, <2>3, <3>1 DEF SInv, SerialInvOf, UserStakes
  <2>5. \A g1, g2 \in open : g1 = g2
    BY <2>1 DEF SInv, SerialInvOf, OneGameEach, EngagedStage
  <2>6. Stake \in Nat
    BY LedgerAssumption
  <2> HIDE DEF open
  <2>7. CASE open = {}
    <3>1. Cardinality(open) = 0
      BY <2>7, FS_EmptySet
    <3> QED
      BY <2>4, <2>6, <2>7, <3>1 DEF open
  <2>8. CASE open # {}
    <3>1. PICK g : open = {g}
      BY <2>5, <2>8
    <3>2. Cardinality(open) = 1
      BY <3>1, FS_Singleton
    <3> QED
      BY <2>4, <2>6, <2>8, <3>2 DEF open
  <2> QED
    BY <2>7, <2>8
<1> QED
  BY <1>1, <1>2, <1>3, PTL DEF Spec
=============================================================================
