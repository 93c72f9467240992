# WagerPlay in TLA+

WagerPlay is a server for rock-paper-scissors matches of two to five players
with stakes. A user asks for a quick match, waits in a queue, and is put in a
match with others or with bots; rounds eliminate players until one is left, who
receives the pot less a fee. The server is a NestJS process; wallets and users
are rows in PostgreSQL, matches, queues and locks are keys in Redis.

The modules here are written from the code under `src/`. Paths below leave out
`src/src/`; `service` is `matchmaking/matchmaking.service.ts`, `gateway` is
`matchmaking/matchmaking.gateway.ts`.

## The system

| Component | State | Operations | What makes it correct |
|---|---|---|---|
| Round rule, stake arithmetic (`service`) | none | `resolveRoundPure` and two copies of it; pot, fee, payout | survivors are those of the game; money adds up |
| Match play (`service`, `gateway`) | one JSON record per match under `match:<id>`, `timerlock:`, `match:startlock:`, timers and loops in memory | `submitMove`, `startMoveTimer`, `processMoveTimeout`, `resolveRoundAfterAutoMoves`, `processBotRounds`, `processSingleBotRound`, `settleIfFinished`, `cancelMatch`, countdown callbacks | no accepted move is lost, a round always ends, the winner is paid once, a match that is over is over |
| Wallets (`service`, `wallets/`, `house/`, `admin/`) | `balanceWp`, `frozenWp` per user and for the house | `freezeStake`, `unfreezeStake`, settlement, refunds, `resetFrozen`, `updateUserBalance`, `cleanupFrozenBalances`, `cleanupStaleFrozenStakes` | points are conserved, frozen points are open stakes, nothing goes negative |
| Queue (`service`, `gateway`) | lists of tickets, tickets with a lifetime, `queue:time:`, `queue:lock:`, advisory locks | `quickPlay`, `tryAssembleMatch`, `fallbackToBotIfTimedOut`, `processQueueTimeouts`, `cleanExpiredTicketsFromQueue` | a user is in one queue or one match; a ticket becomes at most one match; nobody waits for ever |
| Clean-up (`service`) | `frozen:<user>` markers, the lifetime of match records | `cleanupOrphanedMatches`, `checkAndCleanupUserMatches`, `cleanupStaleFrozenStakes` | what is stuck is returned once, what is running is left alone, and nothing runs for ever |
| Statistics, history, leaderboard | a row per user, lists | `updatePlayerStats`, `addMatchToHistory`, ranks | a row agrees with itself, with the wallet and with the history; both rankings agree |
| Accounts: authentication, profiles, e-mail, admin sessions, bans (`auth/`, `admin/`) | rows of users, their wallets' first rows, mails under way | registration, verification, reset, profiles, linking, `validateAdminSession`, bans | an e-mail is one account's, a token works once and within its hour, a password or ban is not undone by another call |
| Rate limiting | a counter per key | `increment`, which nothing calls | |
| Audit, shell, client, load tests | append-only or none | | |

Components meet in three ways. Match play calls the wallets (settlement,
refund) and the queue calls both (freeze, create a match, start it). Wallets,
reset and clean-up share the same rows, some under `FOR UPDATE` and some not.
Everything that happens to a match goes through its one record in Redis, which
each call reads whole and writes back whole, without a transaction. Settlement
goes on, after the wallets, to statistics and history, which the leaderboard
reads. Accounts touch the rest only where a wallet is created, and where a name
is shown.

What is hard here: Node runs one callback at a time but switches at every
`await`, so calls on a match interleave at each Redis operation. Timers and
bot loops live only in the memory of the process, the record outlives it. A
check (settled, active match, balance) and what depends on it are separate
steps. Several operations on several wallets make up one settlement. The
hazards, each at its line, are in `PROJECT.json`.

## Modules

**MatchRules** holds the round rule and the arithmetic. `Survivors` is
`aliveIds` after a round, computed as the code does: the list of distinct moves
in the order of the players, a tie if there is one or three of them, else the
winning one of the first two (`beats[a] === b ? a : b`), its players from *all*
moves in the record, and those of them who are alive. What a player sent need not
be one of the three moves, since nothing checks it: then `b` wins whatever `a` is,
and there may be four or five different moves. **MCMatchRules** plays the rule,
round after round, with whatever is in `Submitted`. `Init` there takes any set of
at least two alive players, and there are five, the largest match.

**MatchPlay** is one match. `match` is the record (type `Match`, without names,
times and `lastRound`, which no step reads). `hs[h]` is a call in progress: the
Redis operation it does next, its private copy of the record, and where the
helper it is in returns to. So `submitMove` is `SubmitMove` (the read, every
check, the bots' moves and the computation of the round), then `SubmitSave`, or
`Settle` and `SubmitSave`, or `SubmitSaveNext` and the steps of
`startMoveTimer`. `processMoveTimeout` is `FireTimer` (its first read),
`TimeoutRead`, `TimeoutCheck`, `TimeoutSave` and then the `Resolve...` steps;
`startMoveTimer` is `TimerRead`, `TimerLock`, `TimerFresh`, `TimerUnlock` or
`TimerSave`. `BotTick`, `BotRead`, `BotSave` are a loop of bot rounds,
`CancelMatch` and `CancelSave` the orphan clean-up, `StartMatch` and `StartDone`
the countdown callbacks of service and gateway, `SkipStart` that of a gateway whose
player has no socket any more, `Restart` a crash of the
process: calls, timers and loops are gone and nothing recreates them, the
record and the locks stay. The steps that the code does between two Redis
operations are part of the first of them. A handler that returns early is done.
`paid`, `refunded` and `accepted` are history, read by no step.

A request's move is a member of `Submitted` and is stored as it is, as
`submitMove` does; `randomMove` chooses from `Choices`, a subset of `Moves`. A
falsy value (an empty string, or nothing) is stored too, and read as if it were not
there: `NoMove`. Values that are no strings are not modelled.

Time is reduced to what the code can tell apart. A deadline is a fresh value
which is at first more than a second ahead (`startMoveTimer` looks at that) and
then not (`Near`). Calls take far less than the second, the five-second
countdown, the ten-second locks and the twelve-second deadline, so `Near` and
`LockExpire` happen only when no call is in progress and no countdown pending,
and a lock set with a deadline goes before the deadline comes near.

**MatchGame** is what a match promises its players: the
alive only become fewer and never none, the stakes are paid out exactly once
and before the match is won, and after that nothing changes. `MatchPlay!Game`
maps the record to it.

**StakeLedger** is the wallets. A call is a list of operations on wallets done
in order by a handler. Freezes, unfreezes and the refunds of `cancelMatch` lock
the row: `LockedOp`, one step. Settlement, reset and admin changes load the
row, change the entity and save it: `Load`, `Select`, `Save`, since `save`
selects the row again and writes the columns in which the entity differs from
what it selected. `Settlement` is the list of operations of `settleIfFinished`,
and `Assemble` and `Fallback` are the parts of `tryAssembleMatch` and
`fallbackToBotIfTimedOut` that touch wallets. Which matches are formed is the
constant `Games`; `stage` says how far each is. `Enqueue` is the balance check
of `quickPlay`, which happens well before the freeze, and assumes of the queue
that a user waits for or plays in one match at a time. `Restart` is a crash
followed by `cleanupFrozenBalances`, which runs before requests are served.
`made` counts the points that come from nowhere, and is read by no step: the stake
that a fallback returns though it was not frozen (`Undoes`), and what a
settlement pays out for bots beyond what it takes from the house's frozen points
(`Unfunded`, negative where it takes those of another match).

**PlayerStats** is a row of `user_stats`: what `updatePlayerStats` makes of it
after a win or a loss, when a row agrees with itself (`Consistent`), and by what
the leaderboard ranks it. **Leaderboard** has the two ways of ranking:
`Listings`, `Page` and `PageRank` are `getLeaderboard` (any order among equal
values; `winRate` is ordered by wins and sorted by rate page by page), `Position`
is `findUserPosition`. **LedgerStats** composes the wallets with what
`settleIfFinished` writes after them: `SettleMatch` is `Settle` and a list of
records still due, `LoadStats` and `UpsertStats` are `updatePlayerStats` (find or
make a row; change it in memory and upsert the whole of it), `Remember` is
`addMatchToHistory`. A call ends when its records are written. `Rows` is what the
leaderboard reads of it.

**FrozenCleanup** is one user against time, in minutes. The user's stake is
frozen (`FreezeStake`, which leaves the marker), the record is written
(`OpenMatch`), renewed by `Play`, closed by `Consume` and `Finish`, or by
`CancelMatch` in `SweepOrphans`, `Connect` and `AskCleanup`, or it expires in
`Tick`, and its stake is then counted in `lost`. `SweepMarker`, `SweepWallet`,
`SweepActive`, `SweepReturn`, `SweepDrop` are `cleanupStaleFrozenStakes` at the
user's marker, one await each; everything else may come between them. `Restart`
returns everything frozen and leaves records and markers. `raced` says that the
wallet changed while the sweep was at the marker.

**Accounts** is the table of users. A call loads a row and changes the entity
(`Change` in `VerifyEmail`, `ForgotPassword`, `ResetPassword`, `UpdateProfile`,
`Login`, `CheckAdmin`, `Decide`), then `Select` and `Update` are TypeORM's save:
the row is selected again and the columns in which the entity differs from
*that* are updated. So what others write between the select and the update
survives in the columns the call has not changed, and what they write between
the load and the select is overwritten. `Register`, `GuestLogin`, `Insert`,
`InsertWallet` make an account; `LinkEmail` and `CheckEmail` are `linkEmail`
up to its save; `SendMail` sends the token of the entity, or fails. `CheckAdmin`
is `validateAdminSession`, whose first request from an address saves twice;
`ActivityPing` and `ExtendSession` update one column. Tokens and hashes are
numbers, each new. `stale` and `collided` say that some save selected, or
updated, a row that had changed since it was loaded; `proven`, `said`, `resets`
and `admitted` are history, read by no step.

**MatchQueue** is the way from a request to a match: ticket keys with their
ages, the lists of ticket ids, `queue:time:` and `queue:lock:` of each queue,
and the calls in progress, again one Redis operation at a time. `quickPlay` is
`QuickPlay` (no ticket), `QuickMatches` (no match), `QuickPush`, `QuickTime` and,
by socket, `QuickLength`. `tryAssembleMatch` is `QueueLock`, `Take` (clean, look
at length and time, pop), `ReadTickets`, `Freeze`, `DeleteTickets`,
`CreateMatch`, `ResetTime`, `QueueUnlock`; the 100 ms timeout (`Scheduled`),
`processQueueTimeouts` (`QueueTick`) and the fallback call it. `Fallback` is
`fallbackToBotIfTimedOut` up to that call, for the gateway's timer as for clients
that ask (`AskFallback`), `Assembled` its end when a match was made, `BotStakes`
and the `Bot...` steps when the call returned nothing, for whatever reason. The
advisory lock is no lock in the model, since the pool may give its session to
any call. `Crash` ends calls and timeouts and leaves the keys. A ticket is `new` for
twenty seconds, then `due`, and `gone` when it expires or is deleted; a queue's
time likewise. `made` counts the matches made of a ticket, read by no step.

A definition marked *variant* stands before the one it varies: a plausible
mistake (a missing check, a swapped order, rounding up) with which the property
named in `PROJECT.json` fails.

## Runs

| Run | Instance | Shows |
|---|---|---|
| `rules` | five players, the three moves and two strings that are none, ten stakes around the rounding of the fee | `SurvivorsMatchReference` where all play moves, `DecidedRoundsShrink`, `MoneyAddsUp` on every input of the round rule |
| `match_overlap` | a user who moves and may be offline at the start, two bots, two overlapping calls, a cancellation and a crash at any step, calls on round 1 only | `TypeOK`, `RecordsConsistent`, `OneTimerStarter`: what holds however calls overwrite each other |
| `match_serial` | two users, who also send a string that is no move and a falsy one, two bots, two rounds, one cancellation, calls one after another | `NeverStranded`, `AcceptedMoveCounts`, `SettledAtMostOnce`, `NoDuplicateMove`, `NoRollback`, `ImplementsGame` |
| `match_away` | two users who never move, two bots, three rounds, three overlapping calls, fairness | `RoundDecided`, `NeverStranded`, `SettledAtMostOnce` by timers and bot loops alone |
| `ledger_serial` | a duel, a match of three assembled with a bot, two house-backed bot matches, an adjustment, of the player of a fallback too, a reset, calls one after another | `Conserved`: the points made are those that `made` counts; `FrozenBacked`; `Reconciled`, `StatsMatchHistory`: wallet, statistics and history say the same; `RanksAgree` on every page |
| `ledger_overlap` | a house-backed match, two overlapping calls, an adjustment of the house, an admin's reset, a restart | `TypeOK`: nothing goes negative; `StatsTypeOK`, `StatsConsistent`; `UnsettledUntouched`: a player whose match came to nothing has everything back |
| `cleanup` | three matches of a user, two restarts, fairness | `TypeOK`, `FrozenAccounted`, `PointsKept`, `MatchesEnd` |
| `accounts` | an admin, a user at several points of an account's life, a newcomer; three calls, two at a time, one crash | `OneAccountPerEmail`, `ResetTokenHasItsExpiry` under any overlap; `SavesStand`, `ResetOnce`, `OneAddressPerAdmin`, `VerifiedIsProven` up to collisions of saves; `TypeOK` |
| `match_double_settle` | a user and a bot, two overlapping calls | `SettledAtMostOnce` is violated |
| `match_cancelled` | a user and a bot, one cancellation, no overlap | `NotRefundedAndPaid` is violated |
| `queue_serial` | two users, a queue for two, two tickets, a fallback asked for, a crash between any two steps, calls one after another, fairness | `QueueTypeOK`, `OneMatchPerTicket`, `DistinctPlayers`, `QueueXorMatch`, `NobodyWaitsForEver` |
| `queue_twice` | one user and one ticket, two overlapping calls | `OneMatchPerTicket` is violated |

The match invariants are of two kinds. A few hold under any overlap, because
every write is a whole record computed from a whole record. The others need
calls on a match not to overlap, and the runs say so in their bounds: with two
overlapping calls of moving players, `NeverStranded`, `AcceptedMoveCounts`,
`SettledAtMostOnce`, `NoDuplicateMove` and `NoRollback`
all fail, which is one fact (read-modify-write without a transaction) and
reported once, by `match_double_settle`. Timers and bot loops are safe against
each other even when they overlap (`match_away`): as long as nobody moves, the
start lock, the timer lock and the deadline compared in `processMoveTimeout`
leave one call at a time to resolve a round. Likewise a crash may strand a match
and lead to a second settlement after the first was not recorded; crashes are
in `match_overlap`, whose three properties hold across them, and in none of the
other match runs.

The properties of statistics and accounts come in the same two kinds. Those of
`ledger_serial` fail when settlements of one user overlap (the second upsert
overwrites the first); that the row left agrees with itself does not, nor that a stake
comes back when forming its match failed (`UnsettledUntouched`), until a reset or a restart
returns it as well. Of the
accounts, the unconditional ones hold however saves overwrite each other. The
others name the overlap that breaks them: a password or a ban is undone only if
a save *selected* a row that had changed since it was loaded (`stale`), a reset
token works twice and two addresses become an admin's only if a save *updated*
such a row (`collided`). `FrozenAccounted` and `PointsKept` likewise exclude only a wallet
that changed while the sweep was at the user's marker; the comment in the code
("return only if there are frozen points and no active match", `service`
272-274) describes a check that is made before the return and not with it.

The queue is alike. `OneAssembler` and `DistinctPlayers` hold under overlap (the
first is proved, see below). `OneMatchPerTicket` does not (`queue_twice`), nor
does `QueueXorMatch`: a ticket that has left the list is nowhere to be seen
until its match is written, so its user may ask again. `queue_serial` shows that
with calls one after another, but with tickets that expire, freezes that fail,
fallbacks that come twice or late, and crashes in the middle of a call, these
hold too. Two tickets of a user can still meet in one list (after a
crash that left one out of the list, a failed fallback appends it again), which is what `DistinctPlayers`
is about.

### Bounds

Two choices, ROCK and PAPER, give wins and ties among any number of players;
the tie of all three is covered by `rules`, which plays all moves, and with them two
strings that are none, so that a round has up to five different ones.
In `match_serial` a string that is no move (`WELL`) and a falsy one are sent as
well, in `match_overlap` a move and a string that is none. Who comes first among the
players decides between such strings, so players are not interchangeable, but for
two bots behind one user (`BotSymmetry`). Two users
and two bots are the smallest match in which a player can be eliminated with
users left, and bots can be left alone with more than one round to play.
`MaxRound` bounds the round in which calls *begin*; the calls themselves go on
to the next round, so `match_overlap` sees a round resolved twice though it has
`MaxRound = 1`. Four deadlines suffice for two calls that each set one while two
are pending; `UnusedDeadlines` reuses those that nothing holds. Two bot loops
are all that a match gets at once (`onMove` and `submitMove`); further ones
change nothing but speed, so they are counted up to `MaxLoops`. The limit of 50
rounds of a bot loop is not modelled: a loop goes on until the match is over, so a match
of bots that ties fifty times in a row, and is stranded then, is not seen.
In `queue_serial` two tickets fill the queue of two, or wait alone, or belong to
one user; more tickets repeat this. One crash leaves behind a lock, taken tickets
or a queue's time, whatever the step.
In the ledger a stake of 100 against balances of 150 makes the second stake and
the adjustment of 100 fail; in `ledger_overlap` an adjustment of the house comes between
the fallback's check of it and its freeze, which then fails (a call alone has nothing in between); the house's 250 cover two bots, and 150 one, so both
practice and house-backed matches occur. Three matches of the same
user give streaks, ties and three rows to rank; `HistoryKept` is the
hundred of the code there, and one in `ledger_overlap`, where the list is cut.
In `cleanup` a minute is a step, with the code's five minutes of patience, ten of
life, ten of age and five between clean-ups; three matches let a marker outlive
its match into the next and the one after. In `accounts` three calls suffice for each
pair that overlaps after one that prepared it (a request for a token, say); the initial rows are
a guest, an unverified and a verified user, and an admin without an address yet.

### Fairness

`FairSpec` of MatchPlay is used by `match_away`. Redis answers and Node runs a handler
that has been resumed: weak fairness of each handler's next step. Timeouts and
loop delays elapse, and locks expire: these actions are strongly fair, because
in the model they may be disabled again and again by other calls (by the bound
on handlers, or because time is modelled as passing between calls), which in
the code only delays them. Players need not move, the clean-up need not come,
and no crash is assumed not to happen by fairness: runs with liveness have
`MaxRestarts = 0`, since a crash does strand a match.

`FairSpec` of MatchQueue is used by `queue_serial`: weak fairness of each
call's next step and of the queue's time, strong fairness of the lock's expiry
and of `processQueueTimeouts` on a queue, which `setInterval` calls every
second also after a restart. Nothing is assumed of tickets' expiry, of users, of
fallbacks or of the 100 ms timeouts, so `NobodyWaitsForEver` rests on the
interval alone.

`FairSpec` of FrozenCleanup is used by `cleanup`: time passes, both intervals fire
and calls that have begun go on. Players need not play and may play for ever, so
`MatchesEnd` rests on the orphan clean-up and on the expiry of records alone.

## Proofs

The theorems hold for every value of the constants that satisfies the ASSUMEs of
the modules: any sets of users and bots with at least one user and two players,
any number of handlers, any bounds, any stakes and matches.

- `MatchRulesLemmas`: who is first in a list, and that the winner of a round is
  played by somebody alive (`WinningMoveWins`); survivors are some of the alive, never
  none, and all of them exactly in a tie, whatever was played; of two of the three moves
  exactly one beats the other; fee and payout.
- `MatchRulesProofs`: `RoundsFollowReference`, `RoundsShrink`,
  `MoneyAlwaysAddsUp`, each from the type invariant, for any list of players and
  any set `Submitted`. The first is about rounds in which all the alive play one of the
  three moves, since with other strings the code's survivors are not those of the
  rule (disagreement 4); the second needs no such condition.
- `MatchPlayProofs`, of calls that overlap: `TypeCorrect`, `RecordsAlwaysConsistent`,
  `TimerStartersExclusive`. The inductive invariant (`GoodState`) says of every
  handler's copy what the first two say of the record: a write replaces the record by
  a copy, so consistency of all copies is what makes that of the record inductive,
  and it does not matter whose version is overwritten. For the third, a handler past
  the timer lock has its round in `locks` (`LockInv`): a lock
  is released only by its holder, and expires only when no call is in progress.
  `LockExpire` is where that abstraction of time is used.
- `MatchPlayProofs`, of calls that do not overlap and are not cut short by a crash
  (each theorem assumes `Handlers = {h}` and `MaxRestarts = 0`, all else arbitrary):
  `SerialSettlesOnce`, `SerialSettles` (a finished match bears the mark of a settled one,
  `SettledWhenFinished`, which is proved and not checked by a run), `SerialCountsMoves`,
  `SerialNeverRollsBack`, `SerialAcceptsOnce`, and `SerialImplementsGame`, the
  refinement of MatchGame. One invariant serves all of them (`SerialInv`). What the call in
  progress holds is the next version of the record: no earlier round, nobody revived, no
  accepted move lost (`PendingOK`), and payments agree with `settled` except between
  paying and saving (`Accounted`). From it each step has one of few shapes (`StepShape`: it writes
  such a version, pays, sets a deadline, accepts a move, or changes nothing of these), and
  the properties of steps and the refinement are read off the shapes.
- `SerialNeverStrands`, likewise and with `CanLeave = FALSE` (a bot match whose
  player has no socket at its start is not started, and so does wait for a reconnection):
  a match that is not over has a start, a timer or a loop of bot rounds to wait
  for. `ServedInv` says per place of a call what it leaves behind or is about to
  start. Its crux is the timer lock, at which a call gives up when it finds it taken: if
  the round's lock is taken, the round's timer runs (`LockRuns`). That holds because a deadline
  belongs to one timer, a timer that is near finds its round's lock free again, and a lock never is of a later round than the record's (`TimersOK`).
- `StakeLedgerProofs`: `NeverNegative`. An entity loaded for an adjustment
  covers the adjustment (`Load` checks it), and the columns `save` writes come
  from an entity or stay as they are. The check in `freezeStake` is made under
  the row lock, so what it read is what it changes.
- `StakeLedgerProofs`, of one call at a time: `SerialConserved`, `SerialFrozenBacked` and
  `StakedGamesKeepPoints` (`StatsConserved`, `StatsFrozenBacked` and `StatsKeepPoints`
  say them of the specification with records). They assume one handler, no restart (the clean-up
  after it returns the stakes of matches that go on) and no admin's reset (`OneCall`), and
  finitely many users and matches (`FinitelyMany`); a match has distinct players, no more
  than its size, and one if it is a fallback (`LedgerAssumption`). Only the last assumes
  more, and only so as to say that `made` stays 0 (`StakedGames`): assembled matches are
  full (disagreement 5), and admins leave balances of fallback players alone
  (disagreement 6). What `SerialConserved` says without it is that those two are the only
  sources of points. (`PointsKept`, that there are none, is a property of no run: it holds of
  other matches than those of `ledger_serial`.) The invariant (`SerialInvOf`) says of a call half done whose stake is frozen
  (`Frozen`: until the call forming a match has come to a player, and from when the call
  that ends it has, it is not), that the stakes to undo when a freeze fails are those frozen
  so far (`UndoOK`), and how much of the pot the settlement has taken and not yet paid
  (`Spent`, `PointsOK`): stakes, the house's stake and what is `Unfunded` make up the pot, payout and fee
  spend it. That a fallback's player has nothing frozen when the undo list returns the stake (so that
  all of it is made) holds because a user is in one match at a time. That a sum changes by what one summand does is proved from the definition
  of the community module's fold (`SumRemove`, `SumChange`), by a smallest set for which it fails.

- `MatchQueueProofs`, of calls that overlap: `QueueTypeCorrect`, `NobodyMeetsHimself`
  and `AssemblersExclusive`. The crux of the second is the scan of `ReadTickets`: it skips a
  user it has met, at whatever position and under whatever ticket, so what it keeps
  has no user twice. That it does is proved about the positions it keeps (`Ascending`,
  `Keep`), by taking the smallest position at which it would fail. For the third, a call
  behind the lock has its queue's lock set, so `SET NX` lets nobody else in, and the
  unconditional `del` of a call deletes its own lock. This rests on `QueueLockExpire`:
  five seconds outlast a call.
- `MatchQueueProofs`, of one call at a time (each theorem assumes `Handlers = {h}`, all
  else arbitrary, crashes too): `SerialOneMatchPerTicket` and `SerialQueueXorMatch`. For
  the first: a ticket that a match has taken is gone from Redis, and from then on from
  what a scan keeps (`Once`); a crash only loses tickets. For the second, until the
  first crash: a living ticket is in its queue or in the hands of the call in
  progress, a user has one ticket or one match and never both, and what the call has
  found about that it still finds when it acts (`Apart`).

- `LedgerStatsProofs`: `StatsTypeCorrect`; `StatsAlwaysConsistent`, since every row
  that is loaded and every row that is written agrees with itself, whatever was lost in
  between; `ImplementsLedger`: each step of the composition is a step of StakeLedger
  or leaves the wallets alone, so `NeverNegative` holds of it too.
- `LedgerStatsProofs`: `RanksAlwaysAgree`, for any finite set of users and any overlap.
  Who stands before position k of the order is either better than its user or as good,
  so the place of a user lies within the tied ones (`PlaceInOrder`). By `winRate` a page
  is sorted again, which counts on the page whoever has the better rate (`PlaceByRate`);
  that is the same only on one page of everybody.
- `LedgerStatsProofs`, of one call at a time, under the assumptions of `StatsConserved`
  (`OneCall`, `FinitelyMany`), matches with bots included:
  `StatsAlwaysMatchHistory` and `AlwaysReconciled`. A settlement pays, then writes
  the statistics of each player, then the histories, so in between the three disagree by
  what is still to be done, and the invariant (`RecordsInv`) says by how much. The records
  due are each due once, the history of a match after its statistics and with the same
  result (`DueOf`); a row counts the history, or the history with the entry that is
  still due (`PastOK`); wallet and row differ by the stake still to be consumed, the payout
  still to be credited and the result not yet recorded (`Books`). Counts are the
  matches, the wins, the streak as the interval of lengths won at the front, and
  the best one as that of the lengths won anywhere (`Counts`): a won match makes each of the
  first longer by one, and adds the new streak to the second (`MatchCounted`). A trimmed history counts
  no more, hence the condition in the property.
- `FrozenCleanupProofs`: `FrozenAlwaysAccounted`, `PointsAlwaysKept`,
  `CleanupTypeCorrect`, for all timeouts, lifetimes and periods. The invariant
  adds what the sweep may rely on (`SweepSound`): unless the wallet changed
  since, once it has decided to return a stake there is no match holding one, and one
  is frozen that is lost.
- `AccountsProofs`: `ResetTokensKeepTheirExpiry` and `EmailsStayUnique`. The
  invariant is about everything that may be written to a row later: if token and
  expiry belong together in the entity, in what save selected and in the row, then
  save finds both columns different or neither (`MergedOK`). `InitialRowsAssumption`
  asks the same of the rows at first.
- `AccountsProofs`, further: `AccountsTypeCorrect`, `OnlyProvenAreVerified`,
  `PasswordsAndBansStand`, `TokensResetOnce`, `AdminsStayAtOneAddress`. They speak of what
  has happened, so the invariant relates every copy in the hands of a call to the
  past (`PastInv`, `PastAlwaysKept`): a copy that says verified was proven, the
  columns a call is to write are its own, and of two calls that hold the same reset
  token one has yet to look.

Model-checked only: the liveness properties `RoundDecided`,
`NobodyWaitsForEver` and `MatchesEnd`, which are out of the prover's reach; `NeverStranded` and
`SettledAtMostOnce` where timers and loops overlap but users do not move
(`match_away`).

## Disagreements with the documentation

1. `settleIfFinished` re-reads the record "to check whether it was already
   settled" (`service` 1458) but the mark is written by its caller after all
   payments: overlapping resolvers pay twice (`match_double_settle`).
2. A match whose stakes `cancelMatch` returned goes on and pays its pot
   (`match_cancelled`): only `FINISHED` is refused (`service` 1824, 2107).
3. A fallback that finds the queue locked takes it for "no match could be made"
   and makes a bot match of a ticket of which the holder of the lock makes a
   match too (`queue_twice`), against "protection against creating a match twice"
   (`service` 985).

Without a run of their own, the models doing as the code does:

4. Nothing checks the move of a request: `submitMove` stores
   `body.move` (`service` 1847), the gateway passes it on (277-284), and no
   `ValidationPipe` applies the `@IsEnum` of `dto/submit-move.dto.ts`, against "VAL-001
   FIXED ... a check of ROCK/PAPER/SCISSORS was added" (`BUGLOG.md` 156) and "invalid_enum → 400"
   (`TESTING_REPORT_FINAL.md` 107). In a duel the player listed second wins with any
   string that is no move (`service` 1963), since `beats[a]` is not it. `rules`,
   `match_serial` and `match_overlap` send such strings, and show what is true all the same.
5. Bots that `tryAssembleMatch` adds put in no stake, and the pot counts them, against
   "Σ(balances) + house_fee = constant" (`TESTING_REPORT_FINAL.md` 95). `ledger_serial` has
   such a match, and `Conserved` counts in `made` what it makes.
6. The rollback of `fallbackToBotIfTimedOut` returns the player's
   stake even if it was the player's own freeze that failed, against its
   comment (`service` 1399). `ledger_serial` has it too, counted in the same way.
7. The stake of a match whose record expires is not returned "after 5 min"
   (`README.md` 59): the sweep has deleted the marker while the match was
   active (`lost` in FrozenCleanup).
8. "Banned users cannot login or play" (`admin.controller.ts` 158): a ban is looked at when
   logging in; neither the queue nor a match asks for it (no action of MatchQueue
   or MatchPlay reads it).
9. The rank by `winRate` on a page of the leaderboard and in one's own position differ
   when there is more than one page: a page is a page of the order by wins.

## Not modelled

- `isShuttingDown` and `onModuleDestroy`: `main.ts` enables no shutdown hooks.
- Rate limiting: `ThrottlerStorageRedisService` is provided, but
  `ThrottlerModule.forRoot` is not given it as storage, so it never runs.
- The expiry of a match record in MatchPlay (600 s from its last write); FrozenCleanup has it.
- JWTs, password hashing, reading calls, the audit log.
- Code that nothing calls: `autoplayBotsUntilFinished`, `quickPlayFallback`, the
  script `QUICKPLAY_CAS_SCRIPT`, `processBotRoundsWithDelay`, `addBalance`.
- The branches for a tie with one player alive (`service` 1904, 2244):
  `RecordsConsistent` shows that they are dead.
- A server without sockets (`this.server` unset) is not a state of the program
  while it serves matches.
- Whether the house's stake of a cancelled bot match is ever unfrozen: it is not;
  `FrozenBacked` is about users.
- `quickPlayWithRedisLock`, taken when PostgreSQL does not answer: the wallet has
  been read from it just before. `POST test/force-match` calls
  `tryAssembleMatch` by force at any time, as the interval does when it is time.
- Components with status `not_modelled` in `PROJECT.json`, each with its reason.

## What is left

What the queue promises the ledger (`Engaged`) as an abstract specification that
MatchQueue implements when calls do not overlap. Proofs of what remains true of
`match_away` for any number of handlers.
