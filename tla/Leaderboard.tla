------------------------------ MODULE Leaderboard ------------------------------
(***************************************************************************)
(* The two ways in which the server ranks users by their statistics: pages *)
(* of the leaderboard (getLeaderboard) and a user's own position           *)
(* (findUserPosition).  rows maps the users who have statistics to them.   *)
(***************************************************************************)
EXTENDS PlayerStats, FiniteSets

\* find with ORDER BY one column: equal values come in any order.
Listings(rows, category) ==
  LET n == Cardinality(DOMAIN rows)
  IN  {list \in [1 .. n -> DOMAIN rows] :
         \A i, j \in 1 .. n : i < j =>
           /\ list[i] # list[j]
           /\ OrderValue(rows[list[i]], category) >= OrderValue(rows[list[j]], category)}

\* take and skip
Page(list, offset, limit) == SubSeq(list, offset + 1, offset + limit)

\* The rank shown with the i-th row of a page: its place, and for winRate its
\* place once the page is sorted by rate.
PageRank(rows, category, page, offset, i) ==
  LET rate(j) == WinRate(rows[page[j]])
  IN  IF category = "winRate"
      THEN offset + 1 + Cardinality({j \in 1 .. Len(page) :
                                       rate(j) > rate(i) \/ (rate(j) = rate(i) /\ j < i)})
      ELSE offset + i

PositionAfterTies(rows, category, u) ==              \* variant
  1 + Cardinality({v \in DOMAIN rows \ {u} :
                     CategoryValue(rows[v], category) >= CategoryValue(rows[u], category)})

\* countAbove + 1
Position(rows, category, u) ==
  1 + Cardinality({v \in DOMAIN rows :
                     CategoryValue(rows[v], category) > CategoryValue(rows[u], category)})

\* The users with the same value as u.
Tied(rows, category, u) ==
  {v \in DOMAIN rows : CategoryValue(rows[v], category) = CategoryValue(rows[u], category)}

\* On a page, a user has the rank of the user's own position, or a later one
\* among those who tie with it.  For winRate this needs a page of all rows.
RanksAgreeOn(rows, category, list, offset, limit) ==
  LET page == Page(list, offset, limit)
  IN  \A i \in 1 .. Len(page) :
        /\ Position(rows, category, page[i]) <= PageRank(rows, category, page, offset, i)
        /\ PageRank(rows, category, page, offset, i)
             < Position(rows, category, page[i]) + Cardinality(Tied(rows, category, page[i]))
=============================================================================
