--------------------------- MODULE MatchRulesLemmas ---------------------------
(***************************************************************************)
(* Facts about the operators of MatchRules, for any set of players, any    *)
(* moves and any stake.                                                    *)
(***************************************************************************)
EXTENDS MatchRules, WellFoundedInduction, TLAPS

\* ids lists all of S.
Lists(ids, S) == DOMAIN ids \subseteq Nat /\ \A p \in S : \E i \in DOMAIN ids : ids[i] = p

LEMMA SmallestIndex ==
  ASSUME NEW T \in SUBSET Nat, T # {}
  PROVE  \E n \in T : \A i \in T : n <= i
<1>1. IsWellFoundedOn(OpToRel(<, Nat), Nat)
  BY NatLessThanWellFounded
<1>2. PICK n \in T : \A i \in T : ~(<<i, n>> \in OpToRel(<, Nat))
  BY <1>1, WFMin
<1>3. \A i \in T : ~(i < n)
  BY <1>2 DEF OpToRel
<1> QED
  BY <1>3

\* There is a first of a set that is listed.
LEMMA FirstExists ==
  ASSUME NEW ids, NEW S, S # {}, Lists(ids, S)
  PROVE  FirstOf(ids, S) \in S
<1> DEFINE T == {i \in DOMAIN ids : ids[i] \in S}
           First(i) == ids[i] \in S /\ \A j \in DOMAIN ids : ids[j] \in S => i <= j
<1>1. T \subseteq Nat /\ T # {}
  BY DEF Lists
<1>2. \E n \in T : \A i \in T : n <= i
  BY <1>1, SmallestIndex
<1>5. \E i \in DOMAIN ids : First(i)
  BY <1>2
<1>6. First(CHOOSE i \in DOMAIN ids : First(i))
  BY <1>5
<1> QED
  BY <1>6 DEF FirstOf

\* In a round that is no tie, and whatever was played, the two moves that are
\* compared are different, and the winning one is one of them.
LEMMA TwoMovesCompared ==
  ASSUME NEW ids, NEW alive, alive # {}, Lists(ids, alive), NEW moves,
         ~IsTie(PlayedMoves(alive, moves))
  PROVE  LET a == FirstMove(ids, alive, moves)
             b == SecondMove(ids, alive, moves)
         IN  /\ a \in PlayedMoves(alive, moves) /\ b \in PlayedMoves(alive, moves)
             /\ a # b
             /\ RoundWinner(ids, alive, moves) = WinningMove(a, b)
             /\ RoundWinner(ids, alive, moves) \in {a, b}
<1> DEFINE a == FirstMove(ids, alive, moves)
           b == SecondMove(ids, alive, moves)
           others == {p \in alive : moves[p] # a}
<1>1. FirstOf(ids, alive) \in alive
  BY FirstExists
<1>2. a \in PlayedMoves(alive, moves)
  BY <1>1 DEF FirstMove, PlayedMoves
<1>3. others # {}
  BY <1>2 DEF IsTie, Sole, PlayedMoves
<1>4. Lists(ids, others)
  BY DEF Lists
<1>5. FirstOf(ids, others) \in others
  BY <1>3, <1>4, FirstExists
<1>6. b \in PlayedMoves(alive, moves) /\ a # b
  BY <1>5 DEF SecondMove, PlayedMoves
<1> QED
  BY <1>2, <1>6 DEF RoundWinner, WinningMove

\* What a round does to the players alive, whatever they have played: those who
\* go through are alive, there are some, and all go through only by a tie.
LEMMA SurvivorsFacts ==
  ASSUME NEW ids, NEW alive, alive # {}, Lists(ids, alive), NEW moves,
         alive \subseteq DOMAIN moves
  PROVE  /\ Survivors(ids, alive, moves) \subseteq alive
         /\ Survivors(ids, alive, moves) # {}
         /\ Survivors(ids, alive, moves) = alive <=> IsTie(PlayedMoves(alive, moves))
<1> DEFINE played == PlayedMoves(alive, moves)
           s == Survivors(ids, alive, moves)
           w == RoundWinner(ids, alive, moves)
<1>1. CASE IsTie(played)
  BY <1>1 DEF Survivors
<1>2. CASE ~IsTie(played)
  <2>1. s = {p \in alive : moves[p] = w}
    BY <1>2 DEF Survivors, Winners
  <2>2. PICK a \in played, b \in played : a # b /\ w \in {a, b}
    BY <1>2, TwoMovesCompared
  <2>3. \E p \in alive : moves[p] = w
    BY <2>2 DEF PlayedMoves
  <2>4. \E p \in alive : moves[p] # w
    BY <2>2 DEF PlayedMoves
  <2> QED
    BY <1>2, <2>1, <2>3, <2>4
<1> QED
  BY <1>1, <1>2

\* Two different moves of the three that are all that was played: one of them
\* beats the other.
LEMMA TwoMoves ==
  ASSUME NEW played \in SUBSET Moves, NEW a \in played, NEW b \in played, a # b, ~IsTie(played)
  PROVE  played = {a, b} /\ (b = Beats[a] \/ a = Beats[b])
<1>1. played = {a, b}
  <2> SUFFICES ASSUME NEW c \in played, c # a, c # b PROVE FALSE
    OBVIOUS
  <2>1. \A m \in Moves : m \in {a, b, c}
    BY DEF Moves
  <2>2. played = {a, b, c}
    BY <2>1
  <2> QED
    BY <2>2 DEF IsTie
<1>2. b = Beats[a] \/ a = Beats[b]
  BY DEF Moves, Beats
<1> QED
  BY <1>1, <1>2

\* Among the three moves the winning move was played, it beats a move that was
\* played, and no move that was played beats it.
LEMMA WinningMoveWins ==
  ASSUME NEW ids, NEW alive, alive # {}, Lists(ids, alive), NEW moves,
         PlayedMoves(alive, moves) \subseteq Moves, ~IsTie(PlayedMoves(alive, moves))
  PROVE  LET w == RoundWinner(ids, alive, moves)
         IN  /\ w \in PlayedMoves(alive, moves)
             /\ PlayedMoves(alive, moves) = {w, Beats[w]}
             /\ Beats[w] # w
             /\ Beats[Beats[w]] # w
<1> DEFINE played == PlayedMoves(alive, moves)
           w == RoundWinner(ids, alive, moves)
           a == FirstMove(ids, alive, moves)
           b == SecondMove(ids, alive, moves)
<1>1. a \in played /\ b \in played /\ a # b /\ w = WinningMove(a, b)
  BY TwoMovesCompared
<1> HIDE DEF played, w, a, b
<1>2. played \in SUBSET Moves /\ ~IsTie(played)
  BY DEF played
<1>3. played = {a, b} /\ (b = Beats[a] \/ a = Beats[b])
  BY <1>1, <1>2, TwoMoves
<1>4. \A m \in Moves : Beats[m] # m /\ Beats[Beats[m]] # m
  BY DEF Moves, Beats
<1>5. w \in played /\ played = {w, Beats[w]}
  BY <1>1, <1>2, <1>3 DEF WinningMove
<1>6. w \in played /\ played = {w, Beats[w]} /\ Beats[w] # w /\ Beats[Beats[w]] # w
  BY <1>2, <1>4, <1>5
<1> QED
  BY <1>6 DEF played, w

\* potVp, feeVp and payoutVp are natural numbers, and fee and payout add up to
\* the pot.
LEMMA FeeAndPayout ==
  ASSUME NEW pot \in Nat
  PROVE  /\ Fee(pot) \in Nat
         /\ Payout(pot) \in Nat
         /\ Fee(pot) + Payout(pot) = pot
         /\ 20 * Fee(pot) <= pot
         /\ pot < 20 * (Fee(pot) + 1)
<1> DEFINE f == (pot * 5) \div 100
<1>1. f \in Nat /\ 100 * f <= pot * 5 /\ pot * 5 < 100 * (f + 1)
  OBVIOUS
<1>2. 20 * f <= pot /\ pot < 20 * (f + 1)
  BY <1>1
<1> QED
  BY <1>1, <1>2 DEF Fee, Payout
=============================================================================
