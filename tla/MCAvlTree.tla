----------------------------- MODULE MCAvlTree -----------------------------
(* An instance of AvlTree.  The nodes are interchangeable.                 *)
EXTENDS AvlTree, TLC

CONSTANTS n1, n2, n3, n4, n5, n6

SixNodes  == {n1, n2, n3, n4, n5, n6}
Symmetry  == Permutations(SixNodes)
OneToFour == 1 .. 4

\* Out of range, both ends, the median, and the 99th that the report prints.
Fractions == {<<-1, 2>>, <<0, 1>>, <<1, 2>>, <<99, 100>>, <<1, 1>>, <<3, 2>>}
=============================================================================
