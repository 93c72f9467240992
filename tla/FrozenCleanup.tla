----------------------------- MODULE FrozenCleanup -----------------------------
(***************************************************************************)
(* One user's frozen stakes against time: the frozen:<user> marker that a  *)
(* freeze leaves in Redis and cleanupStaleFrozenStakes looks at, records of*)
(* matches that expire, and the orphan clean-up that cancels long matches. *)
(*                                                                         *)
(* Times are ages in minutes.  A stake is one unit.  The user has one match*)
(* at a time (MatchQueue), and calls on it come one after another          *)
(* (MatchPlay says what happens otherwise), but the sweep of stale markers *)
(* interleaves with them at each of its awaits.  A cancelled match is over *)
(* here; that it still takes moves is a matter of MatchPlay.               *)
(***************************************************************************)
EXTENDS Integers

CONSTANTS
  Timeout,      \* FROZEN_STAKE_TIMEOUT_MS
  Ttl,          \* lifetime of a marker and of a match's record since its last write
  MaxAge,       \* age at which a match is an orphan
  Period,       \* both clean-ups come once in a period
  None,         \* there is no marker
  MaxMatches,   \* bound: matches of the user
  MaxRestarts   \* bound: restarts of the server

ASSUME CleanupAssumption ==
  /\ Timeout \in Nat /\ Ttl \in Nat \ {0} /\ MaxAge \in Nat /\ Period \in Nat \ {0}
  /\ None \notin Nat
  /\ MaxMatches \in Nat /\ MaxRestarts \in Nat

Old == MaxAge + 1                 \* any age above MaxAge

VARIABLES
  bal, frz,   \* the user's wallet, relative to what it was
  marker,     \* age of frozen:<user>
  rec,        \* the user's last match
  sweep,      \* cleanupStaleFrozenStakes at the user's marker
  due,        \* clean-ups whose time has come
  next,       \* minutes until they come again
  lost,       \* stakes of matches that expired before they ended
  spent,      \* stakes consumed by settlements
  raced,      \* the wallet changed while the sweep was at the marker
  matches,    \* matches still to come
  restarts    \* restarts still to come

vars == <<bal, frz, marker, rec, sweep, due, next, lost, spent, raced, matches, restarts>>

wallet == <<bal, frz>>
clock  == <<due, next>>
bounds == <<matches, restarts>>

\* backed: the stake is frozen as far as the match knows; consumed: it is being
\* settled and the stake has been taken.
Match == [st : {"none", "forming", "live", "over"}, age : 0 .. Old, idle : 0 .. Ttl - 1,
          backed : BOOLEAN, consumed : BOOLEAN]
NoMatch == [st |-> "none", age |-> 0, idle |-> 0, backed |-> FALSE, consumed |-> FALSE]

Sweep == [at : {"idle", "marker", "wallet", "return", "drop"}, saw : Nat]
NoSweep == [at |-> "idle", saw |-> 0]

Init ==
  /\ bal = 0 /\ frz = 0
  /\ marker = None
  /\ rec = NoMatch
  /\ sweep = NoSweep
  /\ due = {} /\ next = Period
  /\ lost = 0 /\ spent = 0
  /\ raced = FALSE
  /\ matches = MaxMatches /\ restarts = MaxRestarts

Live == rec.st = "live"

\* The stake of the present match, as long as it should be frozen.
Held == IF rec.st \in {"forming", "live"} /\ rec.backed /\ ~rec.consumed THEN 1 ELSE 0

Minus(a, b) == IF a >= b THEN a - b ELSE 0      \* Math.max(0, a - b)

Touch == raced' = (raced \/ sweep.at # "idle")

-----------------------------------------------------------------------------
(* The user's match *)

\* freezeStake, which leaves the marker; the record comes later.
FreezeStake ==
  /\ rec.st \in {"none", "over"} /\ matches > 0
  /\ bal' = bal - 1 /\ frz' = frz + 1
  /\ marker' = 0
  /\ rec' = [NoMatch EXCEPT !.st = "forming", !.backed = TRUE]
  /\ matches' = matches - 1
  /\ Touch
  /\ UNCHANGED <<sweep, clock, lost, spent, restarts>>

\* unfreezeStake
ReturnBelowZero == bal' = bal + 1 /\ frz' = frz - 1 /\ marker' = None    \* variant
Return == bal' = bal + 1 /\ frz' = Minus(frz, 1) /\ marker' = None

\* Another player's freeze failed: no match.
RollBack ==
  /\ rec.st = "forming"
  /\ Return
  /\ rec' = NoMatch
  /\ Touch
  /\ UNCHANGED <<sweep, clock, lost, spent, bounds>>

\* The record is written: of a new match, or of one fifteen minutes old
\* (createTestOrphanedMatch).
OpenMatch ==
  /\ rec.st = "forming"
  /\ \E age \in {0, Old} : rec' = [rec EXCEPT !.st = "live", !.age = age]
  /\ UNCHANGED <<wallet, marker, sweep, clock, lost, spent, raced, bounds>>

\* A move, a round or a deadline: the record is written, which renews it.
Play ==
  /\ Live /\ ~rec.consumed
  /\ rec' = [rec EXCEPT !.idle = 0]
  /\ UNCHANGED <<wallet, marker, sweep, clock, lost, spent, raced, bounds>>

\* settleIfFinished takes the stake, and its caller writes the FINISHED record.
Consume ==
  /\ Live /\ ~rec.consumed
  /\ frz' = Minus(frz, 1) /\ spent' = spent + frz - frz'
  /\ rec' = [rec EXCEPT !.consumed = TRUE]
  /\ Touch
  /\ UNCHANGED <<bal, marker, sweep, clock, lost, bounds>>

Finish ==
  /\ Live /\ rec.consumed
  /\ rec' = [NoMatch EXCEPT !.st = "over"]
  /\ UNCHANGED <<wallet, marker, sweep, clock, lost, spent, raced, bounds>>

-----------------------------------------------------------------------------
(* Clean-up of matches *)

RefundAlways == TRUE                             \* variant
Refundable   == frz >= 1

\* cancelMatch: refund if there is a stake to refund, and close the record.
CancelMatch ==
  /\ IF Refundable THEN bal' = bal + 1 /\ frz' = frz - 1 ELSE UNCHANGED wallet
  /\ lost' = IF Refundable /\ Held = 0 THEN Minus(lost, 1) ELSE lost
  /\ rec' = [NoMatch EXCEPT !.st = "over"]
  /\ Touch
  /\ UNCHANGED <<marker, sweep, spent, bounds>>

OrphanIfIdle == Live /\ rec.idle > MaxAge        \* variant
Orphan       == Live /\ rec.age > MaxAge

\* cleanupOrphanedMatches, by its interval
SweepOrphans ==
  /\ "orphans" \in due
  /\ due' = due \ {"orphans"} /\ UNCHANGED next
  /\ IF Orphan THEN CancelMatch
     ELSE UNCHANGED <<wallet, marker, rec, sweep, lost, spent, raced, bounds>>

\* checkAndCleanupUserMatches, when the user connects
Connect == Orphan /\ CancelMatch /\ UNCHANGED clock

\* POST cleanup-orphaned, with any maximal age
AskCleanup == Live /\ CancelMatch /\ UNCHANGED clock

-----------------------------------------------------------------------------
(* cleanupStaleFrozenStakes, at the marker of this user *)

SweepMarker ==
  /\ "stakes" \in due /\ sweep.at = "idle"
  /\ IF marker # None /\ marker > Timeout
     THEN sweep' = [sweep EXCEPT !.at = "marker"] /\ UNCHANGED due
     ELSE due' = due \ {"stakes"} /\ UNCHANGED sweep
  /\ UNCHANGED <<wallet, marker, rec, next, lost, spent, raced, bounds>>

SweepWallet ==
  /\ sweep.at = "marker"
  /\ sweep' = [at |-> IF frz > 0 THEN "wallet" ELSE "drop", saw |-> frz]
  /\ UNCHANGED <<wallet, marker, rec, clock, lost, spent, raced, bounds>>

Unseen      == FALSE                             \* variant
ActiveMatch == Live

\* getUserActiveState, and the comparison with the wallet read before
SweepActive ==
  /\ sweep.at = "wallet"
  /\ sweep' = [sweep EXCEPT !.at = IF ~ActiveMatch /\ sweep.saw >= 1 THEN "return" ELSE "drop"]
  /\ UNCHANGED <<wallet, marker, rec, clock, lost, spent, raced, bounds>>

SweepReturn ==
  /\ sweep.at = "return"
  /\ Return
  /\ lost' = Minus(lost, 1)
  /\ sweep' = [sweep EXCEPT !.at = "drop"]
  /\ UNCHANGED <<rec, clock, spent, raced, bounds>>

\* The marker is deleted in any case, also one that a later freeze has left.
SweepDrop ==
  /\ sweep.at = "drop"
  /\ marker' = None
  /\ sweep' = NoSweep
  /\ due' = due \ {"stakes"}
  /\ UNCHANGED <<wallet, rec, next, lost, spent, raced, bounds>>

-----------------------------------------------------------------------------
(* Time and crashes *)

\* A minute passes.  Calls and sweeps take less.
Tick ==
  /\ due = {} /\ sweep.at = "idle" /\ rec.st # "forming" /\ ~rec.consumed
  /\ next' = IF next = 1 THEN Period ELSE next - 1
  /\ due' = IF next = 1 THEN {"stakes", "orphans"} ELSE {}
  /\ marker' = IF marker = None \/ marker + 1 >= Ttl THEN None ELSE marker + 1
  /\ LET expired == Live /\ rec.idle + 1 >= Ttl
     IN  /\ rec' = IF expired \/ ~Live THEN [NoMatch EXCEPT !.st = IF Live THEN "none" ELSE rec.st]
                   ELSE [rec EXCEPT !.age = IF @ < Old THEN @ + 1 ELSE Old, !.idle = @ + 1]
         /\ lost' = IF expired THEN lost + Held ELSE lost
  /\ UNCHANGED <<wallet, sweep, spent, raced, bounds>>

\* cleanupFrozenBalances returns all that is frozen before requests are served;
\* the records and the markers are still there, and both clean-ups start anew.
Restart ==
  /\ restarts > 0 /\ restarts' = restarts - 1
  /\ bal' = bal + frz /\ frz' = 0
  /\ rec' = IF Live THEN [rec EXCEPT !.backed = FALSE, !.consumed = FALSE] ELSE NoMatch
  /\ lost' = 0
  /\ sweep' = NoSweep
  /\ due' = {"stakes", "orphans"} /\ next' = Period
  /\ UNCHANGED <<marker, spent, raced, matches>>

SweepStep == SweepMarker \/ SweepWallet \/ SweepActive \/ SweepReturn \/ SweepDrop

Next ==
  \/ FreezeStake \/ RollBack \/ OpenMatch \/ Play \/ Consume \/ Finish
  \/ SweepOrphans \/ Connect \/ AskCleanup
  \/ SweepStep
  \/ Tick
  \/ Restart

Spec == Init /\ [][Next]_vars

\* Time passes, intervals fire and calls that have begun go on.
FairSpec ==
  /\ Spec
  /\ WF_vars(Tick) /\ WF_vars(SweepOrphans) /\ WF_vars(SweepStep)
  /\ WF_vars(RollBack \/ OpenMatch) /\ WF_vars(Finish)

-----------------------------------------------------------------------------
(* Properties *)

\* Nothing frozen is negative, whatever the sweep overlaps.
TypeOK ==
  /\ bal \in Int /\ frz \in Nat
  /\ marker \in 0 .. Ttl - 1 \cup {None}
  /\ rec \in Match
  /\ sweep \in Sweep
  /\ due \subseteq {"stakes", "orphans"} /\ next \in 1 .. Period
  /\ lost \in Nat /\ spent \in Nat
  /\ raced \in BOOLEAN
  /\ matches \in Nat /\ restarts \in Nat

\* What is frozen is the stake of the present match and those of matches whose
\* records expired: clean-ups leave a running match its stake and return that
\* of every other.  Only a change of the wallet while cleanupStaleFrozenStakes
\* is at the user's marker can break it (it returns what it saw before).
FrozenAccounted == ~raced => frz = Held + lost

\* Clean-ups return stakes once: points are neither made nor lost by them, even
\* if a restart has returned the stake of a match that goes on.
PointsKept == ~raced => bal + frz + spent = 0

\* However long a match is kept going, it ends or is cancelled as an orphan.
MatchesEnd == Live ~> ~Live
=============================================================================
