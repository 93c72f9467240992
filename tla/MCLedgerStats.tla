---------------------------- MODULE MCLedgerStats ----------------------------
EXTENDS LedgerStats, TLC

CONSTANTS u1, u2, u3

AddTake == {-100, 100}
Take    == {-100}

\* One user in a duel, in a match of three that got one bot, and alone with a bot
\* after the fallback timer; another alone with two bots.
DuelAndBots == {[players |-> <<u2, u1>>, size |-> 2, kind |-> "assembled"],
                [players |-> <<u3, u2>>, size |-> 3, kind |-> "assembled"],
                [players |-> <<u2>>,     size |-> 2, kind |-> "fallback"],
                [players |-> <<u3>>,     size |-> 3, kind |-> "fallback"]}

\* A user alone, given a bot after the fallback timer.
FallbackOnly == {[players |-> <<u1>>, size |-> 2, kind |-> "fallback"]}

Symmetry == Permutations(Handlers)
=============================================================================
