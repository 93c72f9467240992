---------------------------- MODULE MCMatchRules ----------------------------
(***************************************************************************)
(* The rules of MatchRules played out: from any set of at least two alive  *)
(* players and any moves, round after round, until one is left.  Every     *)
(* call of the round rule that a match of these players can make is a      *)
(* reachable state: what users sent may be no move at all.                 *)
(***************************************************************************)
EXTENDS MatchRules

CONSTANTS
  PlayerIds,  \* the players in the order of the match, as many as the largest, five
  Submitted,  \* what a request may hold for a move
  Stakes      \* the stakes whose pot, fee and payout are checked

Players == {PlayerIds[i] : i \in DOMAIN PlayerIds}

ASSUME RulesAssumption ==
  /\ DOMAIN PlayerIds \subseteq Nat
  /\ NoMove \notin Submitted

ASSUME StakesAssumption == Stakes \subseteq Nat

FivePlayers == <<1, 2, 3, 4, 5>>

VARIABLES alive, moves,
          stake       \* stakeVp

vars == <<alive, moves, stake>>

NoMoves == [p \in Players |-> NoMove]

Init ==
  /\ alive \in {S \in SUBSET Players : S # {} /\ ~Sole(S)}
  /\ moves = NoMoves
  /\ stake \in Stakes

MakeMoves ==
  /\ moves = NoMoves /\ ~Sole(alive)
  /\ moves' \in [Players -> Submitted]
  /\ UNCHANGED <<alive, stake>>

PlayRound ==
  /\ moves # NoMoves
  /\ alive' = Survivors(PlayerIds, alive, moves)
  /\ moves' = NoMoves
  /\ UNCHANGED stake

Spec == Init /\ [][MakeMoves \/ PlayRound]_vars

\* Somebody is alive; nobody has a move, or everybody has one.
TypeOK ==
  /\ alive \in (SUBSET Players) \ {{}}
  /\ moves \in {NoMoves} \cup [Players -> Submitted]
  /\ stake \in Stakes

\* The rule without counting distinct moves, and whatever the order of the
\* players: a player goes through by beating somebody and being beaten by
\* nobody; if nobody does, all stay.
ReferenceSurvivors ==
  LET beatsSomebody(p)    == \E q \in alive : moves[q] = Beats[moves[p]]
      beatenBySomebody(p) == \E q \in alive : Beats[moves[q]] = moves[p]
      through             == {p \in alive : beatsSomebody(p) /\ ~beatenBySomebody(p)}
  IN  IF through = {} THEN alive ELSE through

\* Where all the alive play one of the three moves, the survivors that the three
\* copies of the round rule compute from the list of distinct moves are those of
\* the rule of the game.  (Where somebody plays anything else there is no rule to
\* compare with, and the order of the players decides.)
SurvivorsMatchReference ==
  (\A p \in alive : moves[p] \in Moves) => Survivors(PlayerIds, alive, moves) = ReferenceSurvivors

\* Whatever is played, moves or not, a round that is not a tie removes somebody
\* and leaves somebody, so rounds that decide cannot go on for ever and a match
\* cannot end without a winner.
DecidedRoundsShrink ==
  [][/\ alive' # {} /\ alive' \subseteq alive
     /\ moves # NoMoves => (alive' = alive <=> IsTie(PlayedMoves(alive, moves)))]_vars

\* feeVp + payoutVp is the pot, the fee is 5% of it rounded down, and a winner
\* gets back more than the stake, in a match of any size the code allows.
MoneyAddsUp ==
  \A n \in 2 .. 5 :
    LET pot == Pot(stake, n)
    IN  /\ Fee(pot) + Payout(pot) = pot
        /\ 20 * Fee(pot) <= pot /\ pot < 20 * (Fee(pot) + 1)
        /\ stake > 0 => Payout(pot) > stake
=============================================================================
