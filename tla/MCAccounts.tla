------------------------------ MODULE MCAccounts ------------------------------
EXTENDS Accounts, TLC

CONSTANTS admin, user, other, mailA, mailB, mailC

Admin == [Registered(mailA, 1, None) EXCEPT !.verified = TRUE]

\* An admin who has just logged in for the first time, a user at several
\* points of an account's life, and somebody who is not there yet.
Rows ==
  {[u \in Ids |-> CASE u = admin -> [Admin EXCEPT !.active = "new"]
                    [] u = user  -> r
                    [] u = other -> NoUser] :
     r \in {Guest, Registered(mailB, 2, 3), [Registered(mailB, 2, None) EXCEPT !.verified = TRUE]}}

Symmetry == Permutations(Handlers)
=============================================================================
