----------------------------- MODULE MCInitLoad -----------------------------
(* Every pair of up to six keys and up to four threads: ranges of equal    *)
(* and unequal length, empty ones, and ones whose length is negative.      *)
EXTENDS InitLoad

UpToSixKeys == 1 .. 6
UpToFourThreads == 1 .. 4
=============================================================================
