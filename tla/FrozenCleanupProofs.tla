-------------------------- MODULE FrozenCleanupProofs --------------------------
(***************************************************************************)
(* What is frozen is accounted for, and clean-ups neither make nor lose    *)
(* points: for any timeout, lifetime, period and number of matches, as     *)
(* long as the wallet does not change under the sweep.                     *)
(*                                                                         *)
(* The sweep acts on what it saw some awaits ago, so the invariant says    *)
(* what is still true of that (SweepSound).                                *)
(***************************************************************************)
EXTENDS FrozenCleanup, TLAPS

\* Why: an undisturbed sweep that is to return a stake found no match to which
\* it belongs, a match being formed has a fresh marker, and a match without its
\* stake was there at a restart, which returned the expired ones as well.
SweepSound ==
  /\ rec.st = "forming" => rec.backed /\ ~rec.consumed /\ marker \in {0, None}
  /\ rec.st = "forming" /\ sweep.at # "idle" => raced
  /\ rec.consumed => Live
  /\ ~raced =>
       /\ Live /\ ~rec.backed => lost = 0
       /\ sweep.at = "wallet" => sweep.saw = frz
       /\ sweep.at = "return" => frz >= 1 /\ Held = 0

CleanupInv == TypeOK /\ SweepSound /\ FrozenAccounted /\ PointsKept

LEMMA MinusNat ==
  ASSUME NEW a \in Nat, NEW b \in Nat
  PROVE  Minus(a, b) \in Nat /\ (a >= b => Minus(a, b) = a - b) /\ (a = 0 => Minus(a, b) = 0)
BY DEF Minus

LEMMA HeldNat == Held \in {0, 1}
BY DEF Held

LEMMA Ages == 0 \in 0 .. Old /\ Old \in 0 .. Old /\ 0 \in 0 .. Ttl - 1
BY CleanupAssumption DEF Old

LEMMA NoMatchInMatch == NoMatch \in Match
BY Ages DEF NoMatch, Match

\* A match that is not there, or over.
LEMMA NoMatchIs ==
  ASSUME NEW st \in {"none", "forming", "live", "over"},
         NEW m, m = [NoMatch EXCEPT !.st = st]
  PROVE  m \in Match /\ m.st = st /\ ~m.consumed
<1>1. m \in Match
  BY NoMatchInMatch DEF Match
<1>2. m.st = st /\ m.consumed = NoMatch.consumed
  BY DEF NoMatch
<1> QED
  BY <1>1, <1>2 DEF NoMatch

\* A change of the wallet that does not race comes when the sweep is elsewhere.
LEMMA TouchRaces ==
  ASSUME TypeOK, Touch
  PROVE  raced' \in BOOLEAN /\ (~raced' => ~raced /\ sweep.at = "idle")
                           /\ (sweep.at # "idle" => raced')
BY Zenon DEF TypeOK, Touch

LEMMA InitCleanup == Init => CleanupInv
<1> SUFFICES ASSUME Init PROVE CleanupInv
  OBVIOUS
<1>1. NoSweep \in Sweep /\ NoSweep.at = "idle"
  BY DEF NoSweep, Sweep
<1>2. Period \in 1 .. Period
  BY CleanupAssumption
<1>3. TypeOK
  <2>1. raced \in BOOLEAN
    BY Zenon DEF Init
  <2> QED
    BY <1>1, <1>2, <2>1, CleanupAssumption, NoMatchInMatch DEF Init, TypeOK
<1>4. NoMatch.st = "none" /\ NoMatch.consumed = FALSE
  BY DEF NoMatch
<1>5. SweepSound /\ FrozenAccounted /\ PointsKept
  BY <1>1, <1>4 DEF Init, SweepSound, FrozenAccounted, PointsKept, Held, Live
<1> QED
  BY <1>3, <1>5 DEF CleanupInv

-----------------------------------------------------------------------------
(* The user's match *)

LEMMA FreezeStakeKeeps == CleanupInv /\ FreezeStake => CleanupInv'
<1> SUFFICES ASSUME CleanupInv, FreezeStake PROVE CleanupInv'
  OBVIOUS
<1>0. TypeOK /\ Touch
  BY DEF CleanupInv, FreezeStake
<1>1. rec'.st = "forming" /\ rec'.backed /\ ~rec'.consumed
  BY DEF FreezeStake, NoMatch
<1>2. rec' \in Match
  BY NoMatchInMatch DEF FreezeStake, Match
<1>3. TypeOK'
  BY <1>0, TouchRaces, <1>2, CleanupAssumption DEF FreezeStake, CleanupInv, TypeOK, clock
<1>4. Held = 0 /\ Held' = 1
  BY <1>1 DEF FreezeStake, Held
<1>5. SweepSound'
  BY <1>0, TouchRaces, <1>1 DEF FreezeStake, CleanupInv, TypeOK, SweepSound, Live, clock, Sweep
<1>6. FrozenAccounted' /\ PointsKept'
  BY <1>0, TouchRaces, <1>4 DEF FreezeStake, CleanupInv, TypeOK, FrozenAccounted, PointsKept
<1> QED
  BY <1>3, <1>5, <1>6 DEF CleanupInv

LEMMA RollBackKeeps == CleanupInv /\ RollBack => CleanupInv'
<1> SUFFICES ASSUME CleanupInv, RollBack PROVE CleanupInv'
  OBVIOUS
<1>0. TypeOK /\ Touch
  BY DEF CleanupInv, RollBack
<1>1. frz' \in Nat /\ (frz >= 1 => frz' = frz - 1) /\ bal' = bal + 1 /\ marker' = None
  BY MinusNat DEF RollBack, Return, CleanupInv, TypeOK
<1>2. NoMatch.st = "none" /\ NoMatch.consumed = FALSE
  BY DEF NoMatch
<1>3. TypeOK'
  BY <1>0, TouchRaces, <1>1, NoMatchInMatch DEF RollBack, CleanupInv, TypeOK, clock, bounds
<1>4. Held = 1 /\ Held' = 0
  BY <1>2 DEF RollBack, Held, CleanupInv, SweepSound
<1>5. SweepSound'
  BY <1>0, TouchRaces, <1>2 DEF RollBack, CleanupInv, SweepSound, Live
<1>6. FrozenAccounted' /\ PointsKept'
  <2> SUFFICES ASSUME ~raced' PROVE frz' = Held' + lost' /\ bal' + frz' + spent' = 0
    BY DEF FrozenAccounted, PointsKept
  <2>1. /\ frz = 1 + lost /\ bal + frz + spent = 0
        /\ frz \in Nat /\ lost \in Nat /\ bal \in Int /\ spent \in Nat
    BY <1>0, <1>4, TouchRaces DEF CleanupInv, FrozenAccounted, PointsKept, TypeOK
  <2>2. lost' = lost /\ spent' = spent
    BY DEF RollBack
  <2>3. frz' = frz - 1 /\ bal' = bal + 1
    BY <1>1, <2>1
  <2>4. frz' = Held' + lost'
    BY <1>4, <2>1, <2>2, <2>3
  <2>5. bal' + frz' + spent' = 0
    BY <2>1, <2>2, <2>3
  <2> QED
    BY <2>4, <2>5
<1> QED
  BY <1>3, <1>5, <1>6 DEF CleanupInv

LEMMA OpenMatchKeeps == CleanupInv /\ OpenMatch => CleanupInv'
<1> SUFFICES ASSUME CleanupInv, OpenMatch PROVE CleanupInv'
  OBVIOUS
<1>1. PICK age \in {0, Old} : rec' = [rec EXCEPT !.st = "live", !.age = age]
  BY DEF OpenMatch
<1>2. age \in 0 .. Old /\ rec \in Match
  BY Ages DEF CleanupInv, TypeOK
<1>3. rec' \in Match /\ rec'.st = "live" /\ rec'.backed = rec.backed /\ rec'.consumed = rec.consumed
  BY <1>1, <1>2 DEF Match
<1>4. TypeOK'
  BY <1>3 DEF OpenMatch, CleanupInv, TypeOK, wallet, clock, bounds
<1>5. Held' = Held
  BY <1>3 DEF OpenMatch, Held
<1>6. SweepSound'
  BY <1>3 DEF OpenMatch, CleanupInv, SweepSound, TypeOK, Live, wallet, Sweep
<1>7. FrozenAccounted' /\ PointsKept'
  BY <1>5 DEF OpenMatch, CleanupInv, FrozenAccounted, PointsKept, wallet
<1> QED
  BY <1>4, <1>6, <1>7 DEF CleanupInv

LEMMA PlayKeeps == CleanupInv /\ Play => CleanupInv'
<1> SUFFICES ASSUME CleanupInv, Play PROVE CleanupInv'
  OBVIOUS
<1>1. /\ rec' \in Match /\ rec'.st = rec.st
      /\ rec'.backed = rec.backed /\ rec'.consumed = rec.consumed
  BY Ages DEF Play, CleanupInv, TypeOK, Match
<1>2. TypeOK'
  BY <1>1 DEF Play, CleanupInv, TypeOK, wallet, clock, bounds
<1>3. Held' = Held
  BY <1>1 DEF Held
<1>4. SweepSound'
  BY <1>1, <1>3 DEF Play, CleanupInv, SweepSound, Live, wallet
<1>5. FrozenAccounted' /\ PointsKept'
  BY <1>3 DEF Play, CleanupInv, FrozenAccounted, PointsKept, wallet
<1> QED
  BY <1>2, <1>4, <1>5 DEF CleanupInv

LEMMA ConsumeKeeps == CleanupInv /\ Consume => CleanupInv'
<1> SUFFICES ASSUME CleanupInv, Consume PROVE CleanupInv'
  OBVIOUS
<1>0. TypeOK /\ Touch
  BY DEF CleanupInv, Consume
<1>1. /\ rec' \in Match /\ rec'.st = rec.st
      /\ rec'.backed = rec.backed /\ rec'.consumed = TRUE
  BY DEF Consume, CleanupInv, TypeOK, Match
<1>2. /\ frz \in Nat /\ frz' \in Nat /\ frz' <= frz
      /\ (frz >= 1 => frz' = frz - 1) /\ (frz = 0 => frz' = 0)
  BY DEF Consume, CleanupInv, TypeOK, Minus
<1>3. spent' \in Nat /\ spent' = spent + frz - frz'
  BY <1>2 DEF Consume, CleanupInv, TypeOK
<1>4. TypeOK'
  BY <1>0, TouchRaces, <1>1, <1>2, <1>3 DEF Consume, CleanupInv, TypeOK, clock, bounds
<1>5. Live /\ Live'
  BY <1>1 DEF Consume, Live
<1>6. Held' = 0 /\ (rec.backed => Held = 1) /\ (~rec.backed => Held = 0)
  BY <1>1 DEF Consume, Held, Live
<1>7. SweepSound'
  BY <1>0, TouchRaces, <1>1, <1>5 DEF Consume, CleanupInv, SweepSound, Live
<1>8. FrozenAccounted'
  <2> SUFFICES ASSUME ~raced' PROVE frz' = Held' + lost'
    BY DEF FrozenAccounted
  <2>1. ~raced /\ frz = Held + lost /\ lost' = lost /\ lost \in Nat
    BY <1>0, TouchRaces DEF Consume, CleanupInv, FrozenAccounted, TypeOK
  <2>2. ~rec.backed => lost = 0
    BY <1>5, <2>1 DEF CleanupInv, SweepSound
  <2>3. rec.backed \in BOOLEAN
    BY DEF CleanupInv, TypeOK, Match
  <2> QED
    BY <1>2, <1>6, <2>1, <2>2, <2>3
<1>9. PointsKept'
  BY <1>0, TouchRaces, <1>2, <1>3 DEF Consume, CleanupInv, TypeOK, PointsKept
<1> QED
  BY <1>4, <1>7, <1>8, <1>9 DEF CleanupInv

LEMMA FinishKeeps == CleanupInv /\ Finish => CleanupInv'
<1> SUFFICES ASSUME CleanupInv, Finish PROVE CleanupInv'
  OBVIOUS
<1>1. rec' \in Match /\ rec'.st = "over" /\ ~rec'.consumed
  BY NoMatchIs DEF Finish
<1>2. TypeOK'
  BY <1>1 DEF Finish, CleanupInv, TypeOK, wallet, clock, bounds
<1>3. Held = 0 /\ Held' = 0
  BY <1>1 DEF Finish, Held
<1>4. SweepSound'
  BY <1>1, <1>3 DEF Finish, CleanupInv, SweepSound, Live, wallet
<1>5. FrozenAccounted' /\ PointsKept'
  BY <1>3 DEF Finish, CleanupInv, FrozenAccounted, PointsKept, wallet
<1> QED
  BY <1>2, <1>4, <1>5 DEF CleanupInv

-----------------------------------------------------------------------------
(* The clean-ups *)

LEMMA CancelMatchKeeps ==
  ASSUME CleanupInv, Live, CancelMatch,
         due' \subseteq {"stakes", "orphans"}, next' \in 1 .. Period
  PROVE  CleanupInv'
<1>0. TypeOK /\ Touch
  BY DEF CleanupInv, CancelMatch
<1>1. rec' \in Match /\ rec'.st = "over" /\ ~rec'.consumed
  BY NoMatchIs DEF CancelMatch
<1>2. /\ frz \in Nat /\ lost \in Nat /\ bal \in Int
      /\ (frz >= 1 => bal' = bal + 1 /\ frz' = frz - 1)
      /\ (frz = 0 => bal' = bal /\ frz' = frz)
  BY DEF CancelMatch, CleanupInv, TypeOK, Refundable, wallet
<1>3. /\ lost' \in Nat
      /\ (frz >= 1 /\ Held = 0 /\ lost >= 1 => lost' = lost - 1)
      /\ (frz = 0 \/ Held # 0 => lost' = lost)
  BY <1>2, MinusNat DEF CancelMatch, Refundable
<1>4. TypeOK'
  BY <1>0, TouchRaces, <1>1, <1>2, <1>3 DEF CancelMatch, CleanupInv, TypeOK, bounds
<1>5. Held' = 0
  BY <1>1 DEF Held
<1>6. SweepSound'
  BY <1>0, TouchRaces, <1>1 DEF CancelMatch, CleanupInv, SweepSound, Live
<1>7. FrozenAccounted'
  <2> SUFFICES ASSUME ~raced' PROVE frz' = Held' + lost'
    BY DEF FrozenAccounted
  <2>1. frz = Held + lost
    BY <1>0, TouchRaces DEF CancelMatch, CleanupInv, FrozenAccounted
  <2> QED
    BY <1>2, <1>3, <1>5, <2>1, HeldNat
<1>8. PointsKept'
  BY <1>0, TouchRaces, <1>2 DEF CancelMatch, CleanupInv, TypeOK, PointsKept
<1> QED
  BY <1>4, <1>6, <1>7, <1>8 DEF CleanupInv

\* Nothing but the intervals changes.
LEMMA ClockKeeps ==
  ASSUME CleanupInv, UNCHANGED <<wallet, marker, rec, sweep, lost, spent, raced, bounds>>,
         due' \subseteq {"stakes", "orphans"}, next' \in 1 .. Period
  PROVE  CleanupInv'
<1>1. TypeOK'
  BY DEF CleanupInv, TypeOK, wallet, bounds
<1>2. SweepSound' /\ FrozenAccounted' /\ PointsKept'
  BY DEF CleanupInv, SweepSound, FrozenAccounted, PointsKept, Live, Held, wallet
<1> QED
  BY <1>1, <1>2 DEF CleanupInv

LEMMA CancellationsKeep == CleanupInv /\ (SweepOrphans \/ Connect \/ AskCleanup) => CleanupInv'
<1> SUFFICES ASSUME CleanupInv, SweepOrphans \/ Connect \/ AskCleanup PROVE CleanupInv'
  OBVIOUS
<1>1. due' \subseteq {"stakes", "orphans"} /\ next' \in 1 .. Period
  BY DEF SweepOrphans, Connect, AskCleanup, CleanupInv, TypeOK, clock
<1>2. CASE SweepOrphans
  BY <1>1, <1>2, CancelMatchKeeps, ClockKeeps DEF SweepOrphans, Orphan
<1>3. CASE Connect \/ AskCleanup
  BY <1>1, <1>3, CancelMatchKeeps DEF Connect, AskCleanup, Orphan
<1> QED
  BY <1>2, <1>3

\* The sweep goes on without touching the wallet.
LEMMA SweepMoves ==
  ASSUME CleanupInv, UNCHANGED <<wallet, rec, lost, spent, raced, bounds>>,
         marker' \in {marker, None}, sweep' \in Sweep,
         due' \subseteq {"stakes", "orphans"}, next' \in 1 .. Period,
         rec.st = "forming" /\ sweep'.at # "idle" => raced,
         ~raced => /\ sweep'.at = "wallet" => sweep'.saw = frz
                   /\ sweep'.at = "return" => frz >= 1 /\ Held = 0
  PROVE  CleanupInv'
<1>1. TypeOK'
  BY DEF CleanupInv, TypeOK, wallet, bounds
<1>2. Held' = Held /\ Live' = Live
  BY DEF Held, Live
<1>3. SweepSound'
  BY <1>2 DEF CleanupInv, SweepSound, wallet
<1>4. FrozenAccounted' /\ PointsKept'
  BY <1>2 DEF CleanupInv, FrozenAccounted, PointsKept, wallet
<1> QED
  BY <1>1, <1>3, <1>4 DEF CleanupInv

LEMMA SweepMarkerKeeps == CleanupInv /\ SweepMarker => CleanupInv'
<1> SUFFICES ASSUME CleanupInv, SweepMarker PROVE CleanupInv'
  OBVIOUS
<1>1. CASE marker # None /\ marker > Timeout
  <2>1. rec.st # "forming"
    BY <1>1, CleanupAssumption DEF CleanupInv, SweepSound
  <2>2. sweep' = [sweep EXCEPT !.at = "marker"] /\ UNCHANGED due
    BY <1>1 DEF SweepMarker
  <2>3. sweep' \in Sweep /\ sweep'.at = "marker"
    BY <2>2 DEF CleanupInv, TypeOK, Sweep
  <2> QED
    BY <2>1, <2>2, <2>3, SweepMoves DEF SweepMarker, CleanupInv, TypeOK
<1>2. CASE ~(marker # None /\ marker > Timeout)
  <2>1. UNCHANGED sweep /\ due' = due \ {"stakes"} /\ next' = next
    BY <1>2 DEF SweepMarker
  <2> QED
    BY <2>1, ClockKeeps DEF SweepMarker, CleanupInv, TypeOK
<1> QED
  BY <1>1, <1>2

LEMMA SweepWalletKeeps == CleanupInv /\ SweepWallet => CleanupInv'
<1> SUFFICES ASSUME CleanupInv, SweepWallet PROVE CleanupInv'
  OBVIOUS
<1>1. sweep' \in Sweep /\ sweep'.saw = frz /\ sweep'.at \in {"wallet", "drop"}
  BY DEF SweepWallet, CleanupInv, TypeOK, Sweep
<1>2. rec.st = "forming" => raced
  BY DEF SweepWallet, CleanupInv, SweepSound
<1> QED
  BY <1>1, <1>2, SweepMoves DEF SweepWallet, CleanupInv, TypeOK, clock

LEMMA SweepActiveKeeps == CleanupInv /\ SweepActive => CleanupInv'
<1> SUFFICES ASSUME CleanupInv, SweepActive PROVE CleanupInv'
  OBVIOUS
<1>1. /\ sweep' \in Sweep /\ sweep'.at \in {"return", "drop"}
      /\ sweep'.at = "return" => ~Live /\ sweep.saw >= 1
  BY DEF SweepActive, CleanupInv, TypeOK, Sweep, ActiveMatch
<1>2. rec.st = "forming" => raced
  BY DEF SweepActive, CleanupInv, SweepSound
<1>3. ~raced => sweep.saw = frz
  BY DEF SweepActive, CleanupInv, SweepSound
<1>4. ~raced /\ ~Live => Held = 0
  BY <1>2 DEF Held, Live
<1> QED
  BY <1>1, <1>2, <1>3, <1>4, SweepMoves DEF SweepActive, CleanupInv, TypeOK, clock

LEMMA SweepReturnKeeps == CleanupInv /\ SweepReturn => CleanupInv'
<1> SUFFICES ASSUME CleanupInv, SweepReturn PROVE CleanupInv'
  OBVIOUS
<1>1. frz' \in Nat /\ (frz >= 1 => frz' = frz - 1) /\ bal' = bal + 1 /\ marker' = None
  BY MinusNat DEF SweepReturn, Return, CleanupInv, TypeOK
<1>2. lost' \in Nat /\ (lost >= 1 => lost' = lost - 1) /\ (lost = 0 => lost' = 0)
  BY MinusNat DEF SweepReturn, CleanupInv, TypeOK
<1>3. sweep' \in Sweep /\ sweep'.at = "drop"
  BY DEF SweepReturn, CleanupInv, TypeOK, Sweep
<1>4. TypeOK'
  BY <1>1, <1>2, <1>3 DEF SweepReturn, CleanupInv, TypeOK, clock, bounds
<1>5. Held' = Held /\ Live' = Live
  BY DEF SweepReturn, Held, Live
<1>6. ~raced => frz >= 1 /\ Held = 0 /\ frz = lost /\ frz \in Nat /\ lost \in Nat
  BY DEF SweepReturn, CleanupInv, SweepSound, FrozenAccounted, TypeOK
<1>7. SweepSound'
  BY <1>1, <1>2, <1>3, <1>5 DEF SweepReturn, CleanupInv, SweepSound
<1>8. FrozenAccounted' /\ PointsKept'
  BY <1>1, <1>2, <1>5, <1>6
  DEF SweepReturn, CleanupInv, TypeOK, FrozenAccounted, PointsKept
<1> QED
  BY <1>4, <1>7, <1>8 DEF CleanupInv

LEMMA SweepDropKeeps == CleanupInv /\ SweepDrop => CleanupInv'
<1> SUFFICES ASSUME CleanupInv, SweepDrop PROVE CleanupInv'
  OBVIOUS
<1>1. sweep' \in Sweep /\ sweep'.at = "idle"
  BY DEF SweepDrop, NoSweep, Sweep
<1> QED
  BY <1>1, SweepMoves DEF SweepDrop, CleanupInv, TypeOK

-----------------------------------------------------------------------------
(* Time and crashes *)

\* An expired stake is no longer held, but lost.
LEMMA TickKeeps == CleanupInv /\ Tick => CleanupInv'
<1> SUFFICES ASSUME CleanupInv, Tick PROVE CleanupInv'
  OBVIOUS
<1> DEFINE expired == Live /\ rec.idle + 1 >= Ttl
           gone    == [NoMatch EXCEPT !.st = IF Live THEN "none" ELSE rec.st]
           older   == [rec EXCEPT !.age = IF @ < Old THEN @ + 1 ELSE Old, !.idle = @ + 1]
<1>1. /\ rec \in Match /\ rec.st # "forming" /\ ~rec.consumed
      /\ lost \in Nat /\ sweep.at = "idle"
      /\ rec' = IF expired \/ ~Live THEN gone ELSE older
      /\ lost' = IF expired THEN lost + Held ELSE lost
      /\ UNCHANGED <<bal, frz, sweep, spent, raced, matches, restarts>>
  BY DEF Tick, CleanupInv, TypeOK, wallet, bounds
<1>2. rec' \in Match /\ rec'.st # "forming" /\ ~rec'.consumed
  <2>1. CASE expired \/ ~Live
    <3>1. (IF Live THEN "none" ELSE rec.st) \in {"none", "over"}
      BY <1>1 DEF Live, Match
    <3> HIDE DEF expired
    <3> QED
      BY <1>1, <2>1, <3>1, NoMatchIs
  <2>2. CASE ~(expired \/ ~Live)
    <3>1. rec' = older
      BY <1>1, <2>2
    <3>2. rec.age \in 0 .. Old /\ rec.idle \in 0 .. Ttl - 1 /\ rec.idle + 1 < Ttl /\ Old \in Nat
      BY <1>1, <2>2, CleanupAssumption DEF Match, Old
    <3>3. (IF rec.age < Old THEN rec.age + 1 ELSE Old) \in 0 .. Old /\ rec.idle + 1 \in 0 .. Ttl - 1
      BY <3>2, CleanupAssumption
    <3>4. rec' \in Match /\ rec'.st = rec.st /\ rec'.consumed = rec.consumed
      BY <1>1, <3>1, <3>3 DEF Match
    <3> QED
      BY <1>1, <3>4
  <2> QED
    BY <2>1, <2>2
<1>3. lost' + Held' = lost + Held /\ (Live' => lost' = lost /\ Live /\ rec'.backed = rec.backed)
  <2>1. CASE expired
    <3>1. rec' = [NoMatch EXCEPT !.st = "none"] /\ lost' = lost + Held
      BY <1>1, <2>1
    <3>2. rec'.st = "none"
      BY <3>1, NoMatchIs
    <3>3. Held' = 0 /\ ~Live'
      BY <3>2 DEF Held, Live
    <3> QED
      BY <1>1, <3>1, <3>3, HeldNat
  <2>2. CASE ~Live
    <3>1. rec' = [NoMatch EXCEPT !.st = rec.st] /\ lost' = lost
      BY <1>1, <2>2
    <3>2. rec'.st = rec.st
      BY <1>1, <3>1, NoMatchIs DEF Match
    <3>3. Held' = 0 /\ Held = 0 /\ ~Live'
      BY <1>1, <2>2, <3>2 DEF Held, Live
    <3> QED
      BY <1>1, <3>1, <3>3
  <2>3. CASE Live /\ ~expired
    <3>1. rec' = older /\ lost' = lost
      BY <1>1, <2>3
    <3>2. rec'.st = rec.st /\ rec'.backed = rec.backed /\ rec'.consumed = rec.consumed
      BY <1>1, <3>1 DEF Match
    <3>3. Held' = Held
      BY <3>2 DEF Held
    <3> QED
      BY <1>1, <2>3, <3>1, <3>2, <3>3, HeldNat
  <2> QED
    BY <2>1, <2>2, <2>3
<1>4. lost' \in Nat
  BY <1>1, HeldNat
<1>5. marker' \in 0 .. Ttl - 1 \cup {None} /\ due' \subseteq {"stakes", "orphans"} /\ next' \in 1 .. Period
  BY CleanupAssumption DEF Tick, CleanupInv, TypeOK
<1>6. TypeOK'
  BY <1>1, <1>2, <1>4, <1>5 DEF CleanupInv, TypeOK
<1>7. SweepSound'
  BY <1>1, <1>2, <1>3 DEF CleanupInv, SweepSound
<1>8. FrozenAccounted' /\ PointsKept'
  <2>1. FrozenAccounted'
    <3> SUFFICES ASSUME ~raced' PROVE frz' = Held' + lost'
      BY DEF FrozenAccounted
    <3>1. frz' = Held + lost
      BY <1>1 DEF CleanupInv, FrozenAccounted
    <3>2. Held' \in {0, 1}
      BY DEF Held
    <3> QED
      BY <1>1, <1>3, <1>4, <3>1, <3>2, HeldNat
  <2>2. PointsKept'
    BY <1>1 DEF CleanupInv, PointsKept
  <2> QED
    BY <2>1, <2>2
<1> QED
  BY <1>6, <1>7, <1>8 DEF CleanupInv

LEMMA RestartKeeps == CleanupInv /\ Restart => CleanupInv'
<1> SUFFICES ASSUME CleanupInv, Restart PROVE CleanupInv'
  OBVIOUS
<1>1. rec' \in Match /\ rec'.st # "forming" /\ ~rec'.backed /\ ~rec'.consumed
  <2>1. CASE Live
    BY <2>1 DEF Restart, CleanupInv, TypeOK, Match, Live
  <2>2. CASE ~Live
    BY <2>2, NoMatchInMatch DEF Restart, NoMatch
  <2> QED
    BY <2>1, <2>2
<1>2. NoSweep \in Sweep /\ NoSweep.at = "idle"
  BY DEF NoSweep, Sweep
<1>3. TypeOK'
  BY <1>1, <1>2, CleanupAssumption DEF Restart, CleanupInv, TypeOK
<1>4. Held' = 0
  BY <1>1 DEF Held
<1>5. SweepSound'
  BY <1>1, <1>2 DEF Restart, CleanupInv, SweepSound
<1>6. FrozenAccounted' /\ PointsKept'
  BY <1>4 DEF Restart, CleanupInv, TypeOK, FrozenAccounted, PointsKept
<1> QED
  BY <1>3, <1>5, <1>6 DEF CleanupInv

-----------------------------------------------------------------------------
(* The theorem *)

LEMMA NextCleanup == CleanupInv /\ [Next]_vars => CleanupInv'
<1> SUFFICES ASSUME CleanupInv, [Next]_vars PROVE CleanupInv'
  OBVIOUS
<1>1. CASE FreezeStake \/ RollBack \/ OpenMatch \/ Play \/ Consume \/ Finish
  BY <1>1, FreezeStakeKeeps, RollBackKeeps, OpenMatchKeeps, PlayKeeps, ConsumeKeeps, FinishKeeps
<1>2. CASE SweepOrphans \/ Connect \/ AskCleanup
  BY <1>2, CancellationsKeep
<1>3. CASE SweepStep
  BY <1>3, SweepMarkerKeeps, SweepWalletKeeps, SweepActiveKeeps, SweepReturnKeeps, SweepDropKeeps
  DEF SweepStep
<1>4. CASE Tick
  BY <1>4, TickKeeps
<1>5. CASE Restart
  BY <1>5, RestartKeeps
<1>6. CASE UNCHANGED vars
  BY <1>6 DEF vars, CleanupInv, TypeOK, SweepSound, FrozenAccounted, PointsKept, Held, Live
<1> QED
  BY <1>1, <1>2, <1>3, <1>4, <1>5, <1>6 DEF Next

\* A sweep that nothing disturbs returns no stake of a running match, and what
\* is frozen is the stake of the match and those of expired ones.
THEOREM FrozenAlwaysAccounted == Spec => []FrozenAccounted
<1>1. CleanupInv => FrozenAccounted
  BY DEF CleanupInv
<1> QED
  BY <1>1, InitCleanup, NextCleanup, PTL DEF Spec

\* Clean-ups neither make nor lose points, restarts included.
THEOREM PointsAlwaysKept == Spec => []PointsKept
<1>1. CleanupInv => PointsKept
  BY DEF CleanupInv
<1> QED
  BY <1>1, InitCleanup, NextCleanup, PTL DEF Spec

\* However the sweep overlaps the rest, nothing frozen is negative.
THEOREM CleanupTypeCorrect == Spec => []TypeOK
<1>1. CleanupInv => TypeOK
  BY DEF CleanupInv
<1> QED
  BY <1>1, InitCleanup, NextCleanup, PTL DEF Spec
=============================================================================
