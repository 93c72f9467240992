--------------------------- MODULE MatchRulesProofs ---------------------------
(***************************************************************************)
(* The properties of the round rule and of the stakes that MCMatchRules    *)
(* checks for five players, for any set of players.                        *)
(***************************************************************************)
EXTENDS MCMatchRules, MatchRulesLemmas

LEMMA AliveAreListed ==
  ASSUME TypeOK
  PROVE  alive # {} /\ Lists(PlayerIds, alive) /\ alive \subseteq DOMAIN moves
BY RulesAssumption DEF TypeOK, Lists, Players, NoMoves

\* Rounds keep at least one player, all of them players of the match.
THEOREM TypeCorrect == Spec => []TypeOK
<1>1. Init => TypeOK
  BY DEF Init, TypeOK
<1>2. TypeOK /\ [MakeMoves \/ PlayRound]_vars => TypeOK'
  <2> SUFFICES ASSUME TypeOK, [MakeMoves \/ PlayRound]_vars PROVE TypeOK'
    OBVIOUS
  <2>1. CASE MakeMoves
    BY <2>1 DEF MakeMoves, TypeOK, NoMoves
  <2>2. CASE PlayRound
    <3>1. /\ Survivors(PlayerIds, alive, moves) \subseteq alive
          /\ Survivors(PlayerIds, alive, moves) # {}
      BY AliveAreListed, SurvivorsFacts
    <3> QED
      BY <2>2, <3>1 DEF PlayRound, TypeOK, NoMoves
  <2>3. CASE UNCHANGED vars
    BY <2>3 DEF vars, TypeOK, NoMoves
  <2> QED
    BY <2>1, <2>2, <2>3
<1> QED
  BY <1>1, <1>2, PTL DEF Spec

\* Wherever all the alive play one of the three moves, and in whatever order the
\* players are listed, the rule that counts distinct moves selects those who beat
\* somebody and are beaten by nobody.
LEMMA ReferenceAgrees == TypeOK => SurvivorsMatchReference
<1> SUFFICES ASSUME TypeOK, \A p \in alive : moves[p] \in Moves
             PROVE  Survivors(PlayerIds, alive, moves) = ReferenceSurvivors
  BY DEF SurvivorsMatchReference
<1> DEFINE played == PlayedMoves(alive, moves)
           w == RoundWinner(PlayerIds, alive, moves)
           beatsSomebody(p) == \E q \in alive : moves[q] = Beats[moves[p]]
           beatenBySomebody(p) == \E q \in alive : Beats[moves[q]] = moves[p]
           through == {p \in alive : beatsSomebody(p) /\ ~beatenBySomebody(p)}
<1>1. /\ alive # {} /\ Lists(PlayerIds, alive) /\ alive \subseteq DOMAIN moves
      /\ played \in SUBSET Moves
  BY AliveAreListed DEF PlayedMoves
<1>2. \A p \in alive : moves[p] \in Moves /\ moves[p] \in played
  BY DEF PlayedMoves
<1>3. \A m \in played : \E q \in alive : moves[q] = m
  BY DEF PlayedMoves
<1>4. \A m \in Moves : Beats[m] # m /\ \E n \in Moves : Beats[n] = m
  BY DEF Moves, Beats
<1>5. ReferenceSurvivors = IF through = {} THEN alive ELSE through
  BY DEF ReferenceSurvivors
<1>6. CASE Sole(played)
  <2>1. \A p, q \in alive : moves[p] = moves[q]
    BY <1>2, <1>6 DEF Sole
  <2>2. through = {}
    BY <2>1, <1>2, <1>4
  <2> QED
    BY <2>2, <1>5, <1>6 DEF Survivors, IsTie
<1>7. CASE IsTie(played) /\ ~Sole(played)
  <2>1. PICK x \in Moves, y \in Moves, z \in Moves : x # y /\ y # z /\ x # z /\ played = {x, y, z}
    BY <1>1, <1>7 DEF IsTie
  <2>2. played = Moves
    BY <2>1 DEF Moves
  <2>3. \A p \in alive : beatenBySomebody(p)
    BY <1>2, <1>3, <1>4, <2>2
  <2> QED
    BY <2>3, <1>5, <1>7 DEF Survivors
<1>8. CASE ~IsTie(played)
  <2>1. Survivors(PlayerIds, alive, moves) = {p \in alive : moves[p] = w}
    BY <1>1, <1>8 DEF Survivors, Winners
  <2>2. w \in played /\ played = {w, Beats[w]} /\ Beats[w] # w /\ Beats[Beats[w]] # w
    BY <1>1, <1>8, WinningMoveWins
  <2>3. \A p \in alive : moves[p] = w => beatsSomebody(p) /\ ~beatenBySomebody(p)
    BY <1>2, <1>3, <2>2
  <2>4. \A p \in alive : moves[p] # w => beatenBySomebody(p)
    BY <1>2, <1>3, <2>2
  <2>5. through = {p \in alive : moves[p] = w}
    BY <2>3, <2>4
  <2>6. \E p \in alive : moves[p] = w
    BY <1>3, <2>2
  <2> QED
    BY <2>1, <2>5, <2>6, <1>5
<1> QED
  BY <1>6, <1>7, <1>8 DEF IsTie

\* Every round of a match of any size, and of any order of its players, in which
\* the alive play nothing but the three moves follows the rule of the game.
THEOREM RoundsFollowReference == Spec => []SurvivorsMatchReference
BY TypeCorrect, ReferenceAgrees, PTL

\* Whatever is played, a move or not, a round that is not a tie removes somebody
\* and leaves somebody, in a match of any size.
THEOREM RoundsShrink == Spec => DecidedRoundsShrink
<1> DEFINE Shrinks == /\ alive' # {}
                      /\ alive' \subseteq alive
                      /\ moves # NoMoves => (alive' = alive <=> IsTie(PlayedMoves(alive, moves)))
<1>1. TypeOK /\ [MakeMoves \/ PlayRound]_vars => [Shrinks]_vars
  <2> SUFFICES ASSUME TypeOK, MakeMoves \/ PlayRound PROVE Shrinks
    OBVIOUS
  <2>1. CASE MakeMoves
    BY <2>1 DEF MakeMoves, TypeOK
  <2>2. CASE PlayRound
    BY <2>2, AliveAreListed, SurvivorsFacts DEF PlayRound
  <2> QED
    BY <2>1, <2>2
<1> QED
  BY <1>1, TypeCorrect, PTL DEF Spec, DecidedRoundsShrink

\* Whatever the stake, fee and payout of a match of two to five players add up
\* to the pot, and the winner gains.
LEMMA MoneyFacts ==
  ASSUME NEW s \in Nat, NEW n \in 2 .. 5
  PROVE  /\ Fee(Pot(s, n)) + Payout(Pot(s, n)) = Pot(s, n)
         /\ 20 * Fee(Pot(s, n)) <= Pot(s, n)
         /\ Pot(s, n) < 20 * (Fee(Pot(s, n)) + 1)
         /\ s > 0 => Payout(Pot(s, n)) > s
<1> DEFINE pot == Pot(s, n)
<1>1. pot \in Nat /\ pot >= 2 * s
  <2>1. n = 2 \/ n = 3 \/ n = 4 \/ n = 5
    OBVIOUS
  <2> QED
    BY <2>1 DEF Pot
<1>2. /\ Fee(pot) \in Nat /\ Payout(pot) \in Nat
      /\ Fee(pot) + Payout(pot) = pot
      /\ 20 * Fee(pot) <= pot
      /\ pot < 20 * (Fee(pot) + 1)
  BY <1>1, FeeAndPayout
<1> HIDE DEF pot
<1>3. s > 0 => Payout(pot) > s
  BY <1>1, <1>2
<1> QED
  BY <1>2, <1>3 DEF pot

\* The stakes of a match always add up.
THEOREM MoneyAlwaysAddsUp == Spec => []MoneyAddsUp
<1>1. TypeOK => MoneyAddsUp
  BY MoneyFacts, StakesAssumption DEF MoneyAddsUp, TypeOK
<1> QED
  BY <1>1, TypeCorrect, PTL
=============================================================================
