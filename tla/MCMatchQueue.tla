---------------------------- MODULE MCMatchQueue ----------------------------
EXTENDS MatchQueue

SizeTwo == [q \in Queues |-> 2]
=============================================================================
