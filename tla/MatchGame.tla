------------------------------ MODULE MatchGame ------------------------------
(***************************************************************************)
(* What a match promises its players: rounds eliminate some of the alive   *)
(* and never all, the stakes are paid out exactly once and before the      *)
(* match is over, and a match that is over is over.                        *)
(***************************************************************************)
EXTENDS Naturals

CONSTANT Players

VARIABLES alive,    \* the players who are not eliminated
          stakes,   \* something is at stake: not a practice match
          payouts,  \* how often the stakes were paid out
          over      \* there is a winner

gameVars == <<alive, stakes, payouts, over>>

Init == alive = Players /\ stakes \in BOOLEAN /\ payouts = 0 /\ ~over

Eliminate ==
  /\ ~over /\ payouts = 0
  /\ \E S \in SUBSET alive : /\ \E p, q \in S : p # q
                             /\ alive' = S
  /\ UNCHANGED <<stakes, payouts, over>>

Pay ==
  /\ ~over /\ stakes /\ payouts = 0
  /\ payouts' = 1
  /\ UNCHANGED <<alive, stakes, over>>

Win ==
  /\ ~over
  /\ payouts = IF stakes THEN 1 ELSE 0
  /\ \E p \in alive : alive' = {p}
  /\ over' = TRUE
  /\ UNCHANGED <<stakes, payouts>>

Next == Eliminate \/ Pay \/ Win

Spec == Init /\ [][Next]_gameVars
=============================================================================
