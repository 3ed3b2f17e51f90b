--------------------------- MODULE MCLaunchContext ---------------------------
EXTENDS LaunchContext
CONSTANTS c, d, t, u, one, two, m, n
Entry(key, size) == [key |-> key, size |-> size, valid |-> TRUE]
\* Up to four entries around a limit of three, sizes around the limit of units.
MCEnvironments ==
  {<< >>, <<[Entry(1, 2) EXCEPT !.valid = FALSE]>>, <<Entry(1, 9), [Entry(2, 2) EXCEPT !.valid = FALSE]>>}
  \cup {<<Entry(1, s)>> : s \in 1 .. 11}
  \cup {<<Entry(k, s), Entry(2, r)>> : k \in 1 .. 3, s \in 1 .. 9, r \in 1 .. 9}
  \cup {<<Entry(3, s), Entry(1, r), Entry(k, q)>> : k \in 1 .. 3, s \in 1 .. 4, r \in 1 .. 3, q \in 1 .. 4}
  \cup {<<Entry(1, 1), Entry(2, 1), Entry(3, 1), Entry(4, s)>> : s \in 1 .. 3}
MCWays == {c, d}
MCTrees == {t, u}
MCNames == {m, n}
MCIds == {one, two}
=============================================================================
