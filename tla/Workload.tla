------------------------------- MODULE Workload -------------------------------
(***************************************************************************)
(* The five operation generators of core/workload.cpp, as operators: what  *)
(* the next operation of each can be, given the generator's state and what *)
(* the random numbers drawn decide.                                        *)
(*                                                                         *)
(* A key is the number its key string is formatted from.  Values are left  *)
(* out.  rand_r is a nondeterministic draw; where the boundary cases of a  *)
(* draw matter (the choice of the operation type, a uniform key) the draw  *)
(* is the number rand_r returned, elsewhere the range of what is made of   *)
(* it.                                                                     *)
(***************************************************************************)
EXTENDS Integers, Sequences

(* enum OperationType, in its order.                                       *)
OperationType == <<"UPDATE", "INSERT", "READ", "SCAN", "READ_MODIFY_WRITE">>
OpTypes == {OperationType[i] : i \in DOMAIN OperationType}

-----------------------------------------------------------------------------
(* UniformWorkload and ZipfianWorkload choose the type by comparing        *)
(* rand_r() / RAND_MAX with the running sum of five floats.  A float of at *)
(* least 1/32 is a multiple of 2^-28, and the sums are exact in a double:  *)
(* a proportion is given by the number of these units.                     *)

RAND_MAX == 2147483647   \* 2^31 - 1
One == 268435456         \* 2^28 units

(* op_prop: the proportions, in the order of the enum.                     *)
RunningSum(prop) ==
  LET sum[i \in 0 .. Len(prop)] == IF i = 0 THEN 0 ELSE sum[i - 1] + prop[i]
  IN  sum

(* The greatest draw r with r / RAND_MAX <= s / One: for 0 < s <= One it   *)
(* is the floor of s * (8 * One - 1) / One, which is 8 * s - 1.            *)
LastDrawWithin(s) ==
  IF s <= 0 THEN 0 ELSE IF s >= One THEN RAND_MAX ELSE 8 * s - 1

Mut_DrawChooses(prop, i, r) ==
  /\ r < LastDrawWithin(RunningSum(prop)[i])
  /\ \A j \in 1 .. i - 1 : r >= LastDrawWithin(RunningSum(prop)[j])
DrawChooses(prop, i, r) ==
  /\ r <= LastDrawWithin(RunningSum(prop)[i])
  /\ \A j \in 1 .. i - 1 : r > LastDrawWithin(RunningSum(prop)[j])

(* The type a draw chooses; no type if next_op throws.                     *)
ChosenTypes(prop, r) ==
  {OperationType[i] : i \in {j \in DOMAIN prop : DrawChooses(prop, j, r)}}

-----------------------------------------------------------------------------
(* generate_random_long puts one draw above another: a long of two ints.   *)
(* rand_max is RAND_MAX, of whatever width: an int has as many values      *)
(* below zero as from 0 to RAND_MAX, a long the square of the values of an *)
(* int, and a shift that reaches the sign bit makes the long negative.     *)

IntValues(rand_max) == 2 * (rand_max + 1)
LongValues(rand_max) == IntValues(rand_max) * IntValues(rand_max)

AsLong(n, rand_max) ==
  IF 2 * n < LongValues(rand_max) THEN n ELSE n - LongValues(rand_max)

RandomLong(hi, lo, rand_max) == AsLong(hi * IntValues(rand_max) + lo, rand_max)

(* The remainder of a long, which has the sign of the long.                *)
Remainder(n, d) == IF n >= 0 THEN n % d ELSE - ((- n) % d)

UniformKeys(nr_entry, rand_max) ==
  {Remainder(RandomLong(hi, lo, rand_max), nr_entry) :
     hi \in 0 .. rand_max, lo \in 0 .. rand_max}

-----------------------------------------------------------------------------
(* What ZipfianWorkload and LatestWorkload draw with.  A zeta constant is  *)
(* given by the terms it sums, eta by what it is computed from.  theta and *)
(* alpha, of the zipfian constant alone, are left out.                     *)
Constructed(nr_entry) ==
  LET zetan      == 1 .. nr_entry
      zeta2theta == 1 .. 2
  IN  [nr_entry |-> nr_entry, zetan |-> zetan, zeta2theta |-> zeta2theta,
       eta |-> <<nr_entry, zeta2theta, zetan>>]

(* The clones the worker threads are given are constructed over 3 keys,    *)
(* which is cheap, and then what they draw with is set to the original's.  *)
Mut_Clone(w) == [Constructed(3) EXCEPT
  !.zetan = w.zetan, !.zeta2theta = w.zeta2theta, !.nr_entry = w.nr_entry]
Clone(w) == [Constructed(3) EXCEPT
  !.zetan = w.zetan, !.zeta2theta = w.zeta2theta, !.eta = w.eta, !.nr_entry = w.nr_entry]

(* generate_zipfian_random_ulong: 0 and 1 are returned as they are, a      *)
(* higher index, up to nr_entry, is hashed if asked for.  (Of two keys eta *)
(* is 0 / 0 and the index of the greatest draw undefined; what is made of  *)
(* it is what can be made of one of these.)                                *)
ZipfianIndices(nr_entry) == 0 .. nr_entry

(* ZipfianWorkload reduces the hash, or the small index; hash is           *)
(* fnv1_64_hash.                                                           *)
ZipfianKeys(nr_entry, hash) ==
  {i % nr_entry : i \in {0, 1}} \cup {hash[i] % nr_entry : i \in ZipfianIndices(nr_entry)}

-----------------------------------------------------------------------------
(* LatestWorkload.  Indices below cur_ack_key have been inserted; a READ   *)
(* or UPDATE takes one of them, counted from the latest by the zipfian     *)
(* draw, which is not hashed; the index is.                                *)

Mut_LatestIndex(ack, zipf) == ack - (zipf % ack)
LatestIndex(ack, zipf) == ack - (zipf % ack) - 1

Mut_LatestType(wantsRead, ack, nr_entry) ==
  IF wantsRead /\ ack # 0 THEN "READ"
  ELSE IF ack >= nr_entry - 1 THEN "UPDATE" ELSE "INSERT"
LatestType(wantsRead, ack, nr_entry) ==
  IF wantsRead /\ ack # 0 THEN "READ"
  ELSE IF ack >= nr_entry THEN "UPDATE" ELSE "INSERT"

(* The index next_op hashes into a key: a new one, or one inserted before. *)
LatestIndices(type, ack, nr_entry) ==
  IF type = "INSERT" THEN {ack}
                     ELSE {LatestIndex(ack, zipf) : zipf \in ZipfianIndices(nr_entry)}

Mut_AckAfter(type, ack) == IF type # "READ" THEN ack + 1 ELSE ack
AckAfter(type, ack) == IF type = "INSERT" THEN ack + 1 ELSE ack

-----------------------------------------------------------------------------
(* run_init_workload_with_op_measurement gives each of nr_thread workers   *)
(* an InitWorkload over its own range of keys.                             *)

Mut_KeysPerThread(nr_entry, nr_thread) == nr_entry \div nr_thread
KeysPerThread(nr_entry, nr_thread) == (nr_entry + nr_thread - 1) \div nr_thread

StartKey(nr_entry, nr_thread, i) == KeysPerThread(nr_entry, nr_thread) * i

Mut_EndKey(nr_entry, nr_thread, i) ==
  KeysPerThread(nr_entry, nr_thread) * (i + 1)
EndKey(nr_entry, nr_thread, i) ==
  IF KeysPerThread(nr_entry, nr_thread) * (i + 1) < nr_entry
  THEN KeysPerThread(nr_entry, nr_thread) * (i + 1) ELSE nr_entry

(* The nr_entry argument of the worker's InitWorkload; it may be negative. *)
NrInitKeys(nr_entry, nr_thread, i) ==
  EndKey(nr_entry, nr_thread, i) - StartKey(nr_entry, nr_thread, i)

-----------------------------------------------------------------------------
(* TraceWorkload: a line read from the file, with the fields present in it.*)
(* SCAN needs a third field, a type that is none of the five is refused.   *)

LineIsValid(line) ==
  /\ line.type \in OpTypes
  /\ line.has_key
  /\ line.type = "SCAN" => line.has_length
=============================================================================
