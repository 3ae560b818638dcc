------------------------------ MODULE MCPacing ------------------------------
(* An instance of Pacing: without pacing, and with slots two apart.  An    *)
(* operation fits its slot, fills it, or takes more than two of them.      *)
EXTENDS Pacing

ZeroAndTwo == {0, 2}
Quick      == {0, 1}
OneToFive  == {1, 2, 5}
=============================================================================
