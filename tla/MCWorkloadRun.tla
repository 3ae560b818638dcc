---------------------------- MODULE MCWorkloadRun ----------------------------
(* Instances of WorkloadRun: the proportions of the configurations under   *)
(* wiredtiger/config, in units of 2^-28 as the floats of the YAML values,  *)
(* and the draws on both sides of every boundary.                          *)
EXTENDS WorkloadRun

F005 == 13421773
F050 == 134217728
F095 == 255013680

YcsbA == <<F050, 0, F050, 0, 0>>
YcsbB == <<F005, 0, F095, 0, 0>>
YcsbC == <<0, 0, One, 0, 0>>
YcsbE == <<0, F005, 0, F095, 0>>
YcsbF == <<0, 0, F050, 0, F050>>

AllShipped == {YcsbA, YcsbB, YcsbC, YcsbE, YcsbF}
OnlyYcsbB == {YcsbB}

TraceLine(type, key, has_key, has_length) ==
  [type |-> type, key |-> key, has_key |-> has_key, has_length |-> has_length]
AllTraceLines ==
  {TraceLine("READ", 0, TRUE, FALSE), TraceLine("READ", 1, TRUE, FALSE),
   TraceLine("READ", 0, FALSE, FALSE), TraceLine("SCAN", 0, TRUE, TRUE),
   TraceLine("SCAN", 1, TRUE, FALSE), TraceLine("UPSERT", 0, TRUE, FALSE)}

(* Two hashes that are no keys and fall on different ones.                 *)
TwoHashes == {2, 5}

Boundaries ==
  LET sums == {RunningSum(prop)[i] : prop \in AllShipped, i \in 0 .. 5}
      last == {LastDrawWithin(s) : s \in sums}
  IN  {0, 1} \cup last \cup {r + 1 : r \in last \ {RAND_MAX}}
=============================================================================
