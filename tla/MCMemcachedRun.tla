---------------------------- MODULE MCMemcachedRun ----------------------------
(* An instance of MemcachedRun.                                            *)
EXTENDS MemcachedRun

\* UPDATE and INSERT are the same call, and both other types are refused.
ThreeTypes == {"READ", "UPDATE", "SCAN"}
=============================================================================
