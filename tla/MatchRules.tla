----------------------------- MODULE MatchRules -----------------------------
(***************************************************************************)
(* The rules of one round of rock-paper-scissors among the players still   *)
(* alive, and the arithmetic of the stakes of a match.                     *)
(*                                                                         *)
(* The code holds three copies of the round rule (resolveRoundPure, the    *)
(* tail of submitMove, resolveRoundAfterAutoMoves); they compute the same  *)
(* survivors and are all represented by Survivors below.                   *)
(*                                                                         *)
(* A map of moves is a function on the players; NoMove stands for a key     *)
(* that is absent from the object m.moves, or whose value is falsy, which  *)
(* the code takes for absent.  Its other values need not be moves: nothing *)
(* checks what a request holds (submitMove).                               *)
(*                                                                         *)
(* A definition marked "variant" is a plausible mistake in the one after   *)
(* it; it is there to show that a property would notice.                   *)
(***************************************************************************)
EXTENDS Naturals

NoMove == "NOMOVE"

Moves == {"ROCK", "PAPER", "SCISSORS"}

\* beats[a] is the move that a defeats.
Beats == [ROCK |-> "SCISSORS", SCISSORS |-> "PAPER", PAPER |-> "ROCK"]

\* "length === 1" of a list of ids without duplicates.
Sole(S) == \E p \in S : S = {p}

\* new Set(Object.values(snapshotMoves)): the distinct moves of the alive.
PlayedMoves(alive, moves) == {moves[p] : p \in alive}

TieIfAllAlike(played) == Sole(played)               \* variant

\* unique.size === 1 || unique.size === 3
IsTie(played) ==
  \/ Sole(played)
  \/ \E x \in played : \E y \in played \ {x} : \E z \in played \ {x, y} : played = {x, y, z}

\* The first of S in the list ids; aliveIds keeps the order of playerIds.
FirstOf(ids, S) ==
  ids[CHOOSE i \in DOMAIN ids : ids[i] \in S /\ \A j \in DOMAIN ids : ids[j] \in S => i <= j]

\* const [a, b] = Array.from(unique): the first two different moves that are met
\* in the order of the players.  There may be more than two: what is no move
\* counts as well.
FirstMove(ids, alive, moves)  == moves[FirstOf(ids, alive)]
SecondMove(ids, alive, moves) ==
  LET a == FirstMove(ids, alive, moves)
  IN  moves[FirstOf(ids, {p \in alive : moves[p] # a})]

\* beats[a] === b ? a : b
WinningMove(a, b) == IF a \in Moves /\ Beats[a] = b THEN a ELSE b

\* The winning move of a round that is no tie.
RoundWinner(ids, alive, moves) ==
  WinningMove(FirstMove(ids, alive, moves), SecondMove(ids, alive, moves))

\* The keys of m.moves whose value is the winning move.
Winners(moves, winningMove) == {p \in DOMAIN moves : moves[p] = winningMove}

\* variant: the eliminated whose old moves win come back
SurvivorsAmongAll(ids, alive, moves) ==
  IF IsTie(PlayedMoves(alive, moves)) THEN alive
  ELSE Winners(moves, RoundWinner(ids, alive, moves))

\* aliveIds after the round: unchanged by a tie, else filtered by winners.
Survivors(ids, alive, moves) ==
  IF IsTie(PlayedMoves(alive, moves)) THEN alive
  ELSE alive \cap Winners(moves, RoundWinner(ids, alive, moves))

-----------------------------------------------------------------------------
\* potVp, feeVp and payoutVp of a match of n players with a given stake.
Pot(stake, n) == stake * n
FeeRoundedUp(pot) == (pot * 5 + 99) \div 100         \* variant
Fee(pot)      == (pot * 5) \div 100
Payout(pot)   == pot - Fee(pot)
=============================================================================
