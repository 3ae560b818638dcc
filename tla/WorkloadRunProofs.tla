-------------------------- MODULE WorkloadRunProofs --------------------------
(***************************************************************************)
(* The operations the generators make, for every number of operations, of  *)
(* keys and of threads' draws, every proportion, every hash and every      *)
(* trace file.                                                             *)
(***************************************************************************)
EXTENDS WorkloadRun, FiniteSetTheorems, SequenceTheorems, TLAPS

-----------------------------------------------------------------------------
(* What next_op makes, whatever the generator.                             *)

OperationKeys == Nat \cup {line.key : line \in Lines}
Operation == [type : OpTypes, key : OperationKeys, is_last_op : BOOLEAN]

(* The configuration is one of those considered, and a clone draws as what *)
(* it was cloned from.                                                     *)
ConfigInv ==
  /\ kind \in {"uniform", "zipfian", "init", "latest", "trace"}
  /\ gen.nr_entry = NrEntry
  /\ kind \in {"zipfian", "latest"} => gen = Constructed(NrEntry)
  /\ kind \in {"uniform", "zipfian"} => op_prop \in Proportions
  /\ kind \in {"zipfian", "latest"} => hash \in [0 .. NrEntry -> Hashes]
  /\ kind = "trace" => trace_file \in Seq(Lines)

IssuedInv == issued \in Seq(Operation)

(* The lines of a trace that are left are those after the ones consumed.   *)
LinesInv ==
  kind = "trace" /\ outcome = "running" =>
    /\ line_list \in Seq(Lines) /\ Len(line_list) = NrOp - cur_nr_op
    /\ Len(trace_file) >= NrOp
    /\ \A i \in 1 .. NrOp - cur_nr_op : line_list[i] = trace_file[cur_nr_op + i]

TypeInv == TypeOK /\ ConfigInv /\ IssuedInv /\ LinesInv

(* Of a sequence of operations: the INSERTs among the first n.             *)
InsertsIn(s, n) == {j \in 1 .. n : s[j].type = "INSERT"}

(* A LatestWorkload counts its own INSERTs.                                *)
AckInv == kind = "latest" => cur_ack_key = Cardinality(InsertsIn(issued, cur_nr_op))

(* A generator that draws its types throws only if the proportions leave   *)
(* draws over.                                                             *)
DrawInv ==
  kind \in {"uniform", "zipfian"} /\ outcome = "threw" =>
    RunningSum(op_prop)[Len(op_prop)] < One

-----------------------------------------------------------------------------
(* Draws and indices.                                                      *)

(* The remainder of a draw.                                                *)
LEMMA RemainderRange ==
  ASSUME NEW i \in Nat, NEW n \in Nat \ {0}
  PROVE  i % n \in 0 .. n - 1
OBVIOUS

(* The greatest draw, above another of them, is still below the sign bit:  *)
(* a long made of two draws is not negative.                               *)
LEMMA RandomLongPositive ==
  ASSUME NEW rand_max \in Nat, NEW hi \in 0 .. rand_max, NEW lo \in 0 .. rand_max
  PROVE  RandomLong(hi, lo, rand_max) \in Nat
<1> DEFINE int == 2 * (rand_max + 1)
           n == hi * int + lo
<1>1. int \in Nat /\ IntValues(rand_max) = int
  BY DEF IntValues
<1> HIDE DEF int
<1>2. hi * int \in Nat /\ rand_max * int \in Nat /\ hi * int <= rand_max * int
  <2>1. PICK d \in Nat : rand_max = hi + d
    <3>1. rand_max - hi \in Nat /\ rand_max = hi + (rand_max - hi)
      OBVIOUS
    <3> QED BY <3>1
  <2>2. hi \in Nat /\ hi * int \in Nat /\ d * int \in Nat
    BY <1>1
  <2>3. (hi + d) * int = hi * int + d * int
    BY <1>1, <2>2
  <2> QED BY <1>1, <2>1, <2>2, <2>3
<1>3. int * int = 2 * (rand_max * int) + 2 * int
  <2>1. int * int = (2 * rand_max + 2) * int
    BY DEF int
  <2>2. (2 * rand_max + 2) * int = 2 * (rand_max * int) + 2 * int
    BY <1>1
  <2> QED BY <2>1, <2>2
<1>4. n \in Nat /\ 2 * n < int * int
  <2>1. lo \in Nat /\ lo < int
    BY DEF int
  <2> QED BY <1>1, <1>2, <1>3, <2>1
<1>5. RandomLong(hi, lo, rand_max) = n
  BY <1>1, <1>4 DEF RandomLong, AsLong, LongValues
<1> QED BY <1>4, <1>5

(* There are five types, all different.                                    *)
LEMMA FiveTypes ==
  /\ Len(OperationType) = 5 /\ DOMAIN OperationType = 1 .. 5
  /\ \A i \in 1 .. 5 : OperationType[i] \in OpTypes
  /\ \A i, j \in 1 .. 5 : OperationType[i] = OperationType[j] => i = j
<1>1. Len(OperationType) = 5 /\ DOMAIN OperationType = 1 .. 5
  BY DEF OperationType
<1>2. \A i \in 1 .. 5 : OperationType[i] \in OpTypes
  BY <1>1 DEF OpTypes
<1>3. \A i, j \in 1 .. 5 : OperationType[i] = OperationType[j] => i = j
  BY DEF OperationType
<1> QED BY <1>1, <1>2, <1>3

(* The running sum of five proportions: a float is added at a time.        *)
LEMMA RunningSums ==
  ASSUME NEW prop \in [1 .. 5 -> Nat]
  PROVE  /\ Len(prop) = 5 /\ DOMAIN prop = 1 .. 5
         /\ \A i \in 1 .. 5 : RunningSum(prop)[i] = RunningSum(prop)[i - 1] + prop[i]
         /\ RunningSum(prop)[0] = 0
         /\ \A i \in 0 .. 5 : RunningSum(prop)[i] \in Nat
<1> DEFINE next(sum) == [i \in 0 .. 5 |-> IF i = 0 THEN 0 ELSE sum[i - 1] + prop[i]]
           s1 == prop[1]
           s2 == s1 + prop[2]
           s3 == s2 + prop[3]
           s4 == s3 + prop[4]
           s5 == s4 + prop[5]
           sums == [i \in 0 .. 5 |-> CASE i = 0 -> 0 [] i = 1 -> s1 [] i = 2 -> s2
                                       [] i = 3 -> s3 [] i = 4 -> s4 [] i = 5 -> s5]
<1>1. Len(prop) = 5 /\ DOMAIN prop = 1 .. 5
  OBVIOUS
<1>2. sums = next(sums)
  <2>1. \A i \in 0 .. 5 : sums[i] = next(sums)[i]
    OBVIOUS
  <2> QED BY <2>1
<1>3. RunningSum(prop) = CHOOSE sum : sum = next(sum)
  BY <1>1 DEF RunningSum
<1>4. RunningSum(prop) = next(RunningSum(prop))
  <2> HIDE DEF sums, next
  <2> QED BY <1>2, <1>3
<1> DEFINE sum == RunningSum(prop)
<1>5. /\ sum[0] = 0
      /\ \A i \in 1 .. 5 : sum[i] = sum[i - 1] + prop[i]
  <2> HIDE DEF sum
  <2> QED BY <1>4 DEF sum
<1>6. \A i \in 0 .. 5 : sum[i] \in Nat
  <2> HIDE DEF sum
  <2>1. sum[1] \in Nat
    BY <1>5
  <2>2. sum[2] \in Nat
    BY <1>5, <2>1
  <2>3. sum[3] \in Nat
    BY <1>5, <2>2
  <2>4. sum[4] \in Nat
    BY <1>5, <2>3
  <2>5. sum[5] \in Nat
    BY <1>5, <2>4
  <2> QED BY <1>5, <2>1, <2>2, <2>3, <2>4, <2>5
<1> QED BY <1>1, <1>5, <1>6

(* The greatest draws, in the order of their sums.                         *)
LEMMA DrawsWithin ==
  /\ LastDrawWithin(0) = 0
  /\ \A s \in Nat : LastDrawWithin(s) \in 0 .. RAND_MAX
  /\ \A s \in Nat : s >= One => LastDrawWithin(s) = RAND_MAX
  /\ \A s, t \in Nat : s <= t => LastDrawWithin(s) <= LastDrawWithin(t)
<1>1. LastDrawWithin(0) = 0 /\ \A s \in Nat : s >= One => LastDrawWithin(s) = RAND_MAX
  BY SMT DEF LastDrawWithin, One
<1>2. \A s \in Nat : LastDrawWithin(s) \in 0 .. RAND_MAX
  <2>1. RAND_MAX \in Int /\ RAND_MAX >= 0
    BY SMT DEF RAND_MAX
  <2>2. \A s \in Nat : LastDrawWithin(s) \in Int /\ 0 <= LastDrawWithin(s)
                        /\ LastDrawWithin(s) <= RAND_MAX
    BY SMT DEF LastDrawWithin, RAND_MAX, One
  <2> QED BY <2>1, <2>2
<1>3. \A s, t \in Nat : s <= t => LastDrawWithin(s) <= LastDrawWithin(t)
  BY SMT DEF LastDrawWithin, RAND_MAX, One
<1> QED BY <1>1, <1>2, <1>3

(* Some type is chosen if the proportions sum to one.                      *)
LEMMA DrawsCovered ==
  ASSUME NEW prop \in [1 .. 5 -> Nat], NEW r \in 0 .. RAND_MAX,
         RunningSum(prop)[5] >= One
  PROVE  ChosenTypes(prop, r) # {}
<1> DEFINE L(i) == LastDrawWithin(RunningSum(prop)[i])
<1>1. DOMAIN prop = 1 .. 5 /\ r <= L(5)
  BY RunningSums, DrawsWithin
<1>2. \A i \in 1 .. 5 : L(i) \in Int
  BY RunningSums, DrawsWithin
<1> HIDE DEF L
<1>3. \E i \in 1 .. 5 : r <= L(i) /\ \A j \in 1 .. i - 1 : r > L(j)
  <2>1. CASE r <= L(1)
    BY <2>1
  <2>2. CASE r > L(1) /\ r <= L(2)
    BY <2>2
  <2>3. CASE r > L(1) /\ r > L(2) /\ r <= L(3)
    <3>1. \A j \in 1 .. 3 - 1 : r > L(j)
      BY <2>3
    <3> QED BY <2>3, <3>1
  <2>4. CASE r > L(1) /\ r > L(2) /\ r > L(3) /\ r <= L(4)
    <3>1. \A j \in 1 .. 4 - 1 : r > L(j)
      BY <2>4
    <3> QED BY <2>4, <3>1
  <2>5. CASE r > L(1) /\ r > L(2) /\ r > L(3) /\ r > L(4)
    <3>1. \A j \in 1 .. 5 - 1 : r > L(j)
      BY <2>5
    <3> QED BY <1>1, <3>1
  <2> QED BY <1>2, <2>1, <2>2, <2>3, <2>4, <2>5
<1> QED BY <1>1, <1>3 DEF ChosenTypes, DrawChooses, L

(* No draw chooses two types.                                              *)
LEMMA DrawsDisjoint ==
  ASSUME NEW prop \in [1 .. 5 -> Nat], NEW r \in Int,
         NEW i \in 1 .. 5, NEW j \in 1 .. 5, DrawChooses(prop, i, r), DrawChooses(prop, j, r)
  PROVE  i = j
<1>1. \A k \in 1 .. 5 : LastDrawWithin(RunningSum(prop)[k]) \in Int
  BY RunningSums, DrawsWithin
<1> QED BY <1>1 DEF DrawChooses

(* A type of proportion zero is chosen by no draw but 0.                   *)
LEMMA ZeroProportion ==
  ASSUME NEW prop \in [1 .. 5 -> Nat], NEW r \in Nat, NEW i \in 1 .. 5, prop[i] = 0,
         DrawChooses(prop, i, r)
  PROVE  r = 0
<1>1. RunningSum(prop)[i] = RunningSum(prop)[i - 1] /\ RunningSum(prop)[0] = 0
  <2>1. i - 1 \in 0 .. 5
    OBVIOUS
  <2>2. RunningSum(prop)[i - 1] \in Nat /\ RunningSum(prop)[i] = RunningSum(prop)[i - 1] + 0
    BY <2>1, RunningSums
  <2> QED BY <2>2, RunningSums
<1>2. CASE i = 1
  BY <1>1, <1>2, DrawsWithin DEF DrawChooses
<1>3. CASE i # 1
  <2>1. i - 1 \in 1 .. i - 1 /\ i - 1 \in 1 .. 5
    BY <1>3
  <2>2. /\ r <= LastDrawWithin(RunningSum(prop)[i - 1])
        /\ r > LastDrawWithin(RunningSum(prop)[i - 1])
    BY <1>1, <2>1 DEF DrawChooses
  <2>3. LastDrawWithin(RunningSum(prop)[i - 1]) \in Int
    BY <2>1, RunningSums, DrawsWithin
  <2> QED BY <2>2, <2>3
<1> QED BY <1>2, <1>3

(* The types a draw chooses are types, and at most one.                    *)
LEMMA OneChosen ==
  ASSUME NEW prop \in [1 .. 5 -> Nat], NEW r \in Int
  PROVE  /\ ChosenTypes(prop, r) \subseteq OpTypes
         /\ Cardinality(ChosenTypes(prop, r)) <= 1
<1> DEFINE chosen == ChosenTypes(prop, r)
<1>1. \A type \in chosen : \E i \in 1 .. 5 : type = OperationType[i] /\ DrawChooses(prop, i, r)
  BY RunningSums DEF ChosenTypes
<1>2. chosen \subseteq OpTypes
  BY <1>1, FiveTypes
<1> HIDE DEF chosen
<1>3. \A s \in chosen, t \in chosen : s = t
  BY <1>1, DrawsDisjoint
<1>4. CASE chosen = {}
  <2>1. Cardinality(chosen) = 0
    BY <1>4, FS_EmptySet
  <2> QED BY <1>2, <2>1 DEF chosen
<1>5. CASE chosen # {}
  <2>1. PICK t \in chosen : chosen = {t}
    BY <1>3, <1>5
  <2>2. Cardinality({t}) = 1
    BY FS_Singleton
  <2> QED BY <1>2, <2>1, <2>2 DEF chosen
<1> QED BY <1>4, <1>5

(* The index a READ or an UPDATE takes is one inserted before.             *)
LEMMA LatestIndexInserted ==
  ASSUME NEW ack \in Nat \ {0}, NEW zipf \in Nat
  PROVE  LatestIndex(ack, zipf) \in 0 .. ack - 1
<1>1. zipf % ack \in 0 .. ack - 1
  BY RemainderRange
<1> QED BY <1>1 DEF LatestIndex

-----------------------------------------------------------------------------
(* Types, counters and the lines of a trace.                               *)

(* What clone sets is all in which a clone differs from its original.      *)
LEMMA CloneDrawsAlike ==
  ASSUME NEW nr_entry
  PROVE  Clone(Constructed(nr_entry)) = Constructed(nr_entry)
BY DEF Clone, Constructed

(* The constructors: a trace file is read as far as it is asked for.       *)
LEMMA TypeInvStarts == Init => TypeInv
<1> SUFFICES ASSUME Init PROVE TypeInv
  OBVIOUS
<1>1. ConfigInv
  <2>1. kind = "trace" => trace_file \in Seq(Lines)
    BY SeqDef DEF Init, Files
  <2>2. Clone(Constructed(NrEntry)) = Constructed(NrEntry)
    BY CloneDrawsAlike
  <2>3. Constructed(NrEntry).nr_entry = NrEntry
    BY DEF Constructed
  <2> QED BY <2>1, <2>2, <2>3 DEF Init, ConfigInv
<1>2. TypeOK /\ IssuedInv
  BY NrOpAssumption, NrEntryAssumption DEF Init, TypeOK, IssuedInv
<1>3. LinesInv
  <2> SUFFICES ASSUME kind = "trace", Len(trace_file) >= NrOp
               PROVE  /\ line_list \in Seq(Lines) /\ Len(line_list) = NrOp
                      /\ \A i \in 1 .. NrOp : line_list[i] = trace_file[i]
    <3>1. Len(trace_file) \in Nat \/ kind # "trace"
      BY <1>1, LenProperties DEF ConfigInv
    <3>2. cur_nr_op = 0 /\ NrOp - 0 = NrOp /\ \A i \in 1 .. NrOp : 0 + i = i
      BY NrOpAssumption DEF Init
    <3> QED BY <3>1, <3>2, NrOpAssumption DEF Init, LinesInv
  <2>1. line_list = SubSeq(trace_file, 1, NrOp) /\ Len(trace_file) \in Nat
    BY <1>1, NrOpAssumption, LenProperties DEF Init, ConfigInv
  <2>2. \A i \in 1 .. NrOp : trace_file[i] \in Lines
    <3>1. \A i \in 1 .. NrOp : i \in 1 .. Len(trace_file)
      BY <2>1, NrOpAssumption
    <3> QED BY <1>1, <3>1, ElementOfSeq DEF ConfigInv
  <2>3. /\ SubSeq(trace_file, 1, NrOp) \in Seq(Lines)
        /\ Len(SubSeq(trace_file, 1, NrOp)) = IF 1 <= NrOp THEN NrOp - 1 + 1 ELSE 0
        /\ \A i \in 1 .. NrOp - 1 + 1 : SubSeq(trace_file, 1, NrOp)[i] = trace_file[1 + i - 1]
    BY <2>2, NrOpAssumption, SubSeqProperties
  <2> HIDE DEF Init
  <2>4. Len(line_list) = NrOp
    BY <2>1, <2>3, NrOpAssumption
  <2>5. \A i \in 1 .. NrOp : line_list[i] = trace_file[i]
    <3>1. NrOp - 1 + 1 = NrOp /\ \A i \in 1 .. NrOp : 1 + i - 1 = i
      BY NrOpAssumption
    <3> QED BY <2>1, <2>3, <3>1
  <2> QED BY <2>1, <2>3, <2>4, <2>5
<1> QED BY <1>1, <1>2, <1>3 DEF TypeInv

(* Every next_op counts the operation it makes, and flags it if none is    *)
(* left.                                                                   *)
Issues(type, key) == cur_nr_op' = cur_nr_op + 1 /\ Issue(type, key, ~ HasNextOp')

IsLast == ~ (cur_nr_op + 1 < NrOp)

(* An operation more: the history before it stays.                         *)
LEMMA IssueAppends ==
  ASSUME TypeInv, NEW type \in OpTypes, NEW key \in OperationKeys, Issues(type, key)
  PROVE  /\ cur_nr_op \in 0 .. NrOp - 1 /\ cur_nr_op' = cur_nr_op + 1
         /\ DOMAIN issued = 1 .. cur_nr_op /\ DOMAIN issued' = 1 .. cur_nr_op + 1
         /\ issued' \in Seq(Operation) /\ Len(issued') = cur_nr_op + 1
         /\ \A i \in 1 .. cur_nr_op : issued'[i] = issued[i]
         /\ issued'[cur_nr_op + 1] = [type |-> type, key |-> key, is_last_op |-> IsLast]
         /\ outcome = "running" /\ UNCHANGED <<config, outcome>>
<1> DEFINE new == [type |-> type, key |-> key, is_last_op |-> IsLast]
<1>1. new \in Operation
  BY DEF Operation, IsLast
<1>2. issued \in Seq(Operation) /\ Len(issued) = cur_nr_op /\ cur_nr_op \in 0 .. NrOp
  BY DEF TypeInv, TypeOK, IssuedInv
<1>3. /\ outcome = "running" /\ cur_nr_op < NrOp /\ cur_nr_op' = cur_nr_op + 1
      /\ issued' = Append(issued, new) /\ UNCHANGED <<config, outcome>>
  BY DEF Issues, Issue, MayIssue, HasNextOp, IsLast
<1> HIDE DEF new
<1>4. cur_nr_op \in 0 .. NrOp - 1
  BY <1>2, <1>3, NrOpAssumption
<1>5. /\ issued' \in Seq(Operation) /\ Len(issued') = cur_nr_op + 1
      /\ \A i \in 1 .. cur_nr_op : issued'[i] = issued[i]
      /\ issued'[cur_nr_op + 1] = new
  BY <1>1, <1>2, <1>3, AppendProperties
<1>6. DOMAIN issued = 1 .. cur_nr_op /\ DOMAIN issued' = 1 .. cur_nr_op + 1
  BY <1>2, <1>5, LenProperties
<1> QED BY <1>3, <1>4, <1>5, <1>6 DEF new

(* A type drawn is one of the five.                                        *)
LEMMA TypesDrawnAreTypes ==
  ASSUME TypeInv, kind \in {"uniform", "zipfian"}, NEW type \in TypesDrawn
  PROVE  type \in OpTypes
<1>1. PICK r \in Draws : type \in ChosenTypes(op_prop, r)
  BY DEF TypesDrawn
<1>2. op_prop \in [1 .. 5 -> Nat] /\ r \in Int
  <2>1. op_prop \in Proportions
    BY DEF TypeInv, ConfigInv
  <2> QED BY <2>1, FiveTypes, ProportionsAssumption, DrawsAssumption
<1> QED BY <1>1, <1>2, OneChosen

(* UniformWorkload reduces a long that is not negative.                    *)
LEMMA UniformIssues ==
  ASSUME TypeInv, UniformNextOp
  PROVE  /\ kind = "uniform" /\ UNCHANGED <<cur_ack_key, line_list>>
         /\ \E type \in OpTypes, key \in Key : Issues(type, key)
<1>1. kind = "uniform" /\ UNCHANGED <<cur_ack_key, line_list>>
  BY DEF UniformNextOp
<1>2. gen.nr_entry = NrEntry /\ NrEntry \in Nat \ {0}
  BY NrEntryAssumption DEF TypeInv, ConfigInv
<1>3. PICK type \in TypesDrawn, key \in UniformKeys(NrEntry, RandMax) : Issues(type, key)
  BY <1>2 DEF UniformNextOp, Issues
<1>4. type \in OpTypes
  BY <1>1, <1>3, TypesDrawnAreTypes
<1>5. key \in Key
  <2>1. PICK hi \in 0 .. RandMax, lo \in 0 .. RandMax :
          key = Remainder(RandomLong(hi, lo, RandMax), NrEntry)
    BY <1>3 DEF UniformKeys
  <2> DEFINE n == RandomLong(hi, lo, RandMax)
  <2>2. n \in Nat
    BY RandMaxAssumption, RandomLongPositive
  <2> HIDE DEF n
  <2>3. key = n % NrEntry
    BY <2>1, <2>2 DEF Remainder, n
  <2> QED BY <1>2, <2>2, <2>3, RemainderRange DEF Key
<1> QED BY <1>1, <1>3, <1>4, <1>5

(* ZipfianWorkload reduces a small index, or a hash.                       *)
LEMMA ZipfianIssues ==
  ASSUME TypeInv, ZipfianNextOp
  PROVE  /\ kind = "zipfian" /\ UNCHANGED <<cur_ack_key, line_list>>
         /\ \E type \in OpTypes, key \in Key : Issues(type, key)
<1>1. kind = "zipfian" /\ UNCHANGED <<cur_ack_key, line_list>>
  BY DEF ZipfianNextOp
<1>2. gen.nr_entry = NrEntry /\ NrEntry \in Nat \ {0}
  BY NrEntryAssumption DEF TypeInv, ConfigInv
<1>3. PICK type \in TypesDrawn, key \in ZipfianKeys(NrEntry, hash) : Issues(type, key)
  BY <1>2 DEF ZipfianNextOp, Issues
<1>4. type \in OpTypes
  BY <1>1, <1>3, TypesDrawnAreTypes
<1>5. key \in Key
  <2>1. key \in {i % NrEntry : i \in {0, 1}} \cup {hash[i] % NrEntry : i \in 0 .. NrEntry}
    BY <1>3 DEF ZipfianKeys, ZipfianIndices
  <2>2. \A i \in {0, 1} : i % NrEntry \in Key
    BY <1>2, RemainderRange DEF Key
  <2>3. ASSUME NEW i \in 0 .. NrEntry PROVE hash[i] % NrEntry \in Key
    <3>1. hash[i] \in Nat
      BY <1>1, HashesAssumption DEF TypeInv, ConfigInv
    <3> QED BY <1>2, <3>1, RemainderRange DEF Key
  <2> QED BY <2>1, <2>2, <2>3
<1> QED BY <1>1, <1>3, <1>4, <1>5

(* LatestWorkload takes the next index, or one of those before.            *)
Inserted(key) == \E n \in 0 .. cur_ack_key - 1 : key = hash[n] % NrEntry

LatestStep(type, key) ==
  \/ /\ type = "INSERT" /\ cur_ack_key < NrEntry /\ key = hash[cur_ack_key] % NrEntry
     /\ cur_ack_key' = cur_ack_key + 1
  \/ type = "UPDATE" /\ cur_ack_key = NrEntry /\ Inserted(key) /\ UNCHANGED cur_ack_key
  \/ type = "READ" /\ Inserted(key) /\ UNCHANGED cur_ack_key

(* Every next_op of a LatestWorkload is such a step.                       *)
LEMMA LatestIssues ==
  ASSUME TypeInv, LatestNextOp
  PROVE  /\ kind = "latest" /\ UNCHANGED line_list
         /\ \E type \in OpTypes, key \in Key : Issues(type, key) /\ LatestStep(type, key)
<1> DEFINE ack == cur_ack_key
<1>1. /\ kind = "latest" /\ UNCHANGED line_list /\ gen.nr_entry = NrEntry
      /\ ack \in 0 .. NrEntry /\ NrEntry \in Nat \ {0}
      /\ \A i \in 0 .. NrEntry : hash[i] \in Nat
  BY NrEntryAssumption, HashesAssumption DEF LatestNextOp, TypeInv, ConfigInv, TypeOK
<1>2. PICK wantsRead \in BOOLEAN :
        LET type == LatestType(wantsRead, ack, NrEntry)
        IN  /\ \E index \in LatestIndices(type, ack, NrEntry) :
                 Issues(type, hash[index] % NrEntry)
            /\ ack' = AckAfter(type, ack)
  BY <1>1 DEF LatestNextOp, Issues
<1> DEFINE type == LatestType(wantsRead, ack, NrEntry)
<1>3. PICK index \in LatestIndices(type, ack, NrEntry) : Issues(type, hash[index] % NrEntry)
  BY <1>2
<1>4. ack' = AckAfter(type, ack)
  BY <1>2
<1>5. \/ type = "INSERT" /\ ack < NrEntry
      \/ type = "UPDATE" /\ ack = NrEntry /\ ack > 0
      \/ type = "READ" /\ ack > 0
  BY <1>1 DEF LatestType
<1>6. type \in OpTypes
  BY <1>5 DEF OpTypes, OperationType
<1>7. CASE type = "INSERT"
  <2>1. index = ack /\ ack < NrEntry /\ ack' = ack + 1
    BY <1>3, <1>4, <1>5, <1>7 DEF LatestIndices, AckAfter
  <2>2. hash[ack] % NrEntry \in Key
    BY <1>1, RemainderRange DEF Key
  <2> HIDE DEF type
  <2> QED BY <1>1, <1>3, <1>6, <1>7, <2>1, <2>2 DEF LatestStep
<1>8. CASE type # "INSERT"
  <2>1. PICK zipf \in 0 .. NrEntry : index = LatestIndex(ack, zipf)
    BY <1>3, <1>8 DEF LatestIndices, ZipfianIndices
  <2>2. ack \in Nat \ {0} /\ zipf \in Nat /\ ack' = ack
    BY <1>1, <1>4, <1>5, <1>8 DEF AckAfter
  <2>3. index \in 0 .. ack - 1
    BY <2>1, <2>2, LatestIndexInserted
  <2>4. hash[index] % NrEntry \in Key /\ Inserted(hash[index] % NrEntry)
    <3>1. hash[index] \in Nat
      BY <1>1, <2>3
    <3> QED BY <1>1, <2>3, <3>1, RemainderRange DEF Inserted, Key
  <2> HIDE DEF type
  <2> QED BY <1>1, <1>3, <1>5, <1>6, <1>8, <2>2, <2>4 DEF LatestStep
<1> QED BY <1>7, <1>8

(* TraceWorkload makes the operation of the next line.                     *)
LEMMA TraceIssues ==
  ASSUME TypeInv, kind = "trace", MayIssue
  PROVE  LET line == trace_file[cur_nr_op + 1] IN
         /\ Head(line_list) = line /\ line \in Lines
         /\ Tail(line_list) \in Seq(Lines) /\ Len(Tail(line_list)) = NrOp - (cur_nr_op + 1)
         /\ \A i \in 1 .. NrOp - (cur_nr_op + 1) :
              Tail(line_list)[i] = trace_file[cur_nr_op + 1 + i]
<1> DEFINE left == NrOp - cur_nr_op
<1>1. /\ line_list \in Seq(Lines) /\ Len(line_list) = left
      /\ \A i \in 1 .. left : line_list[i] = trace_file[cur_nr_op + i]
  BY DEF TypeInv, LinesInv, MayIssue
<1>2. cur_nr_op \in Nat /\ left \in Nat \ {0} /\ left - 1 = NrOp - (cur_nr_op + 1)
  BY NrOpAssumption DEF TypeInv, TypeOK, MayIssue, HasNextOp
<1> HIDE DEF left
<1>3. line_list # <<>>
  BY <1>1, <1>2
<1>4. /\ Head(line_list) = line_list[1] /\ Head(line_list) \in Lines
      /\ Tail(line_list) \in Seq(Lines) /\ Len(Tail(line_list)) = left - 1
      /\ \A i \in 1 .. left - 1 : Tail(line_list)[i] = line_list[i + 1]
  BY <1>1, <1>3, HeadTailProperties
<1>5. Head(line_list) = trace_file[cur_nr_op + 1]
  BY <1>1, <1>2, <1>4
<1>6. ASSUME NEW i \in 1 .. left - 1 PROVE Tail(line_list)[i] = trace_file[cur_nr_op + 1 + i]
  <2>1. i + 1 \in 1 .. left /\ cur_nr_op + (i + 1) = cur_nr_op + 1 + i
    BY <1>2
  <2>2. line_list[i + 1] = trace_file[cur_nr_op + (i + 1)]
    BY <1>1, <2>1
  <2> QED BY <1>4, <2>1, <2>2
<1> QED BY <1>2, <1>4, <1>5, <1>6

(* Every next_op, with what it does to the lines and the counters.         *)
NextOp == UniformNextOp \/ ZipfianNextOp \/ InitNextOp \/ LatestNextOp \/ TraceNextOp

(* Whatever the generator, next_op makes one operation of the five types.  *)
LEMMA OpsIssue ==
  ASSUME TypeInv, NextOp
  PROVE  \E type \in OpTypes, key \in OperationKeys :
           /\ Issues(type, key)
           /\ kind \in {"uniform", "zipfian", "latest"} => key \in Key
           /\ kind = "latest" => LatestStep(type, key)
           /\ kind # "latest" => UNCHANGED cur_ack_key
           /\ kind = "trace" =>
                /\ LineIsValid(trace_file[cur_nr_op + 1]) /\ line_list' = Tail(line_list)
                /\ type = trace_file[cur_nr_op + 1].type /\ key = trace_file[cur_nr_op + 1].key
<1>1. \A key \in Key : key \in OperationKeys
  BY NrEntryAssumption DEF Key, OperationKeys
<1>2. CASE UniformNextOp
  BY <1>1, <1>2, UniformIssues
<1>2a. CASE ZipfianNextOp
  BY <1>1, <1>2a, ZipfianIssues
<1>3. CASE InitNextOp
  <2>1. /\ kind = "init" /\ Issues("INSERT", cur_nr_op) /\ UNCHANGED <<cur_ack_key, line_list>>
        /\ "INSERT" \in OpTypes /\ cur_nr_op \in OperationKeys
    BY <1>3, NrOpAssumption DEF InitNextOp, Issues, OpTypes, OperationType, OperationKeys, TypeInv, TypeOK
  <2> QED BY <2>1
<1>4. CASE LatestNextOp
  BY <1>1, <1>4, LatestIssues
<1>5. CASE TraceNextOp
  <2> DEFINE line == trace_file[cur_nr_op + 1]
  <2>1. /\ kind = "trace" /\ MayIssue /\ LineIsValid(Head(line_list))
        /\ line_list' = Tail(line_list) /\ Issues(Head(line_list).type, Head(line_list).key)
        /\ UNCHANGED cur_ack_key
    BY <1>5 DEF TraceNextOp, LinesLeft, Issues
  <2>2. Head(line_list) = line /\ line \in Lines
    BY <2>1, TraceIssues
  <2>3. line.type \in OpTypes /\ line.key \in OperationKeys
    BY <2>1, <2>2 DEF LineIsValid, OperationKeys
  <2> QED BY <2>1, <2>2, <2>3
<1> QED BY <1>2, <1>2a, <1>3, <1>4, <1>5 DEF NextOp

(* The steps that end the workload make no operation.                      *)
Ending == ProportionalThrows \/ TraceThrows \/ Finish

(* An exception or the end leaves the counters and the history alone.      *)
LEMMA EndsMakeNothing ==
  ASSUME Ending
  PROVE  /\ UNCHANGED <<config, cur_nr_op, cur_ack_key, issued>>
         /\ outcome = "running" /\ outcome' \in {"threw", "done"}
         /\ outcome' = "done" => ~ HasNextOp /\ UNCHANGED line_list
         /\ outcome' = "threw" /\ kind \in {"uniform", "zipfian"} =>
              \E r \in Draws : ChosenTypes(op_prop, r) = {}
         /\ outcome' = "threw" /\ kind = "trace" => HasNextOp /\ ~ LineIsValid(Head(line_list))
<1>1. CASE ProportionalThrows
  BY <1>1 DEF ProportionalThrows, Throw, MayIssue
<1>2. CASE TraceThrows
  BY <1>2 DEF TraceThrows, Throw, MayIssue
<1>3. CASE Finish
  BY <1>3 DEF Finish
<1> QED BY <1>1, <1>2, <1>3 DEF Ending

(* There are no other steps.                                               *)
LEMMA StepsAreOpsOrEnds == [Next]_vars => NextOp \/ Ending \/ UNCHANGED vars
BY DEF Next, NextOp, Ending, Stopped

(* Every step keeps them.                                                  *)
LEMMA TypeInvKept ==
  ASSUME TypeInv, [Next]_vars
  PROVE  TypeInv'
<1>1. CASE NextOp
  <2>1. PICK type \in OpTypes, key \in OperationKeys :
          /\ Issues(type, key)
          /\ kind = "latest" => LatestStep(type, key)
          /\ kind # "latest" => UNCHANGED cur_ack_key
          /\ kind = "trace" => line_list' = Tail(line_list)
    BY <1>1, OpsIssue
  <2>2. /\ cur_nr_op \in 0 .. NrOp - 1 /\ cur_nr_op' = cur_nr_op + 1
        /\ issued' \in Seq(Operation) /\ Len(issued') = cur_nr_op + 1
        /\ outcome = "running" /\ outcome' = "running" /\ UNCHANGED config
    BY <2>1, IssueAppends
  <2>3. cur_ack_key' \in 0 .. NrEntry
    <3>1. cur_ack_key \in 0 .. NrEntry
      BY DEF TypeInv, TypeOK
    <3>2. CASE kind = "latest"
      BY <2>1, <3>1, <3>2, NrEntryAssumption DEF LatestStep
    <3> QED BY <2>1, <3>1, <3>2
  <2>4. TypeOK' /\ IssuedInv'
    BY <2>2, <2>3, NrOpAssumption DEF TypeOK, IssuedInv
  <2>5. ConfigInv'
    BY <2>2 DEF TypeInv, ConfigInv, config
  <2>6. LinesInv'
    <3> SUFFICES ASSUME kind' = "trace"
                 PROVE  LinesInv'
      BY DEF LinesInv
    <3>1. kind = "trace" /\ trace_file' = trace_file
      BY <2>2 DEF config
    <3>2. MayIssue
      BY <2>1 DEF Issues, Issue
    <3>3. line_list' = Tail(line_list) /\ Len(trace_file) >= NrOp
      BY <2>1, <2>2, <3>1 DEF TypeInv, LinesInv
    <3>4. /\ line_list' \in Seq(Lines) /\ Len(line_list') = NrOp - cur_nr_op'
          /\ \A i \in 1 .. NrOp - cur_nr_op' : line_list'[i] = trace_file'[cur_nr_op' + i]
      BY <2>2, <3>1, <3>2, <3>3, TraceIssues
    <3> QED BY <3>1, <3>3, <3>4 DEF LinesInv
  <2> QED BY <2>4, <2>5, <2>6 DEF TypeInv
<1>2. CASE Ending
  <2>1. /\ UNCHANGED <<config, cur_nr_op, cur_ack_key, issued>>
        /\ outcome' \in {"threw", "done"}
    BY <1>2, EndsMakeNothing
  <2> QED BY <2>1 DEF TypeInv, TypeOK, ConfigInv, IssuedInv, LinesInv, config
<1>3. CASE UNCHANGED vars
  BY <1>3 DEF TypeInv, TypeOK, ConfigInv, IssuedInv, LinesInv, vars, config
<1> QED BY <1>1, <1>2, <1>3, StepsAreOpsOrEnds

(* The types, the configuration and the lines of a trace hold throughout.  *)
LEMMA TypesInvariant == Spec => []TypeInv
<1>1. Init => TypeInv
  BY TypeInvStarts
<1>2. TypeInv /\ [Next]_vars => TypeInv'
  BY TypeInvKept
<1> QED BY <1>1, <1>2, PTL DEF Spec

(* The counters of every generator stay within what they count: next_op    *)
(* makes nr_op operations at most, and next_op of LatestWorkload inserts   *)
(* nr_entry keys at most.                                                  *)
THEOREM TypesHold == Spec => []TypeOK
<1>1. TypeInv => TypeOK
  BY DEF TypeInv
<1> QED BY <1>1, TypesInvariant, PTL

-----------------------------------------------------------------------------
(* The history of operations.                                              *)

(* Whichever generator runs, is_last_op is set on the operation that makes *)
(* the loop of the worker end, and on no other.                            *)
THEOREM LastOpIsFlagged == Spec => []LastOpFlagged
<1>1. Init => LastOpFlagged
  BY DEF Init, LastOpFlagged
<1>2. ASSUME TypeInv, LastOpFlagged, [Next]_vars
      PROVE  LastOpFlagged'
  <2>1. CASE NextOp
    <3>1. PICK type \in OpTypes, key \in OperationKeys : Issues(type, key)
      BY <1>2, <2>1, OpsIssue
    <3>2. /\ cur_nr_op \in 0 .. NrOp - 1 /\ cur_nr_op' = cur_nr_op + 1
          /\ DOMAIN issued = 1 .. cur_nr_op /\ DOMAIN issued' = 1 .. cur_nr_op + 1
          /\ Len(issued') = cur_nr_op + 1
          /\ \A i \in 1 .. cur_nr_op : issued'[i] = issued[i]
          /\ issued'[cur_nr_op + 1] = [type |-> type, key |-> key, is_last_op |-> IsLast]
      BY <1>2, <3>1, IssueAppends
    <3>3. issued'[cur_nr_op + 1].is_last_op <=> ~ HasNextOp'
      <4>1. issued'[cur_nr_op + 1].is_last_op = IsLast
        BY <3>2
      <4> QED BY <3>2, <4>1 DEF IsLast, HasNextOp
    <3>4. HasNextOp
      BY <3>2, NrOpAssumption DEF HasNextOp
    <3>5. ASSUME NEW i \in 1 .. cur_nr_op PROVE ~ issued'[i].is_last_op
      BY <1>2, <3>2, <3>4 DEF LastOpFlagged
    <3>6. \A i \in 1 .. cur_nr_op + 1 : i \in 1 .. cur_nr_op \/ i = cur_nr_op + 1
      BY <3>2, NrOpAssumption
    <3> QED BY <3>2, <3>3, <3>5, <3>6 DEF LastOpFlagged
  <2>2. CASE Ending
    BY <1>2, <2>2, EndsMakeNothing DEF LastOpFlagged, HasNextOp
  <2>3. CASE UNCHANGED vars
    BY <1>2, <2>3 DEF LastOpFlagged, HasNextOp, vars
  <2> QED BY <1>2, <2>1, <2>2, <2>3, StepsAreOpsOrEnds
<1> QED BY <1>1, <1>2, TypesInvariant, PTL DEF Spec

(* Whatever two draws make a long, whatever the hash and however many the  *)
(* keys, the key an operation names is one of the database, also when the  *)
(* zipfian draw is nr_entry; and a clone draws as a generator that is      *)
(* constructed over all the keys.                                          *)
THEOREM KeysAreOfDatabase == Spec => []KeysOfDatabase
<1>1. Init => KeysOfDatabase
  BY TypeInvStarts DEF Init, KeysOfDatabase, TypeInv, ConfigInv
<1>2. ASSUME TypeInv, KeysOfDatabase, [Next]_vars
      PROVE  KeysOfDatabase'
  <2>1. CASE NextOp
    <3>1. PICK type \in OpTypes, key \in OperationKeys :
            Issues(type, key) /\ (kind \in {"uniform", "zipfian", "latest"} => key \in Key)
      BY <1>2, <2>1, OpsIssue
    <3>2. /\ cur_nr_op \in 0 .. NrOp - 1 /\ UNCHANGED config
          /\ DOMAIN issued = 1 .. cur_nr_op /\ DOMAIN issued' = 1 .. cur_nr_op + 1
          /\ \A i \in 1 .. cur_nr_op : issued'[i] = issued[i]
          /\ issued'[cur_nr_op + 1] = [type |-> type, key |-> key, is_last_op |-> IsLast]
      BY <1>2, <3>1, IssueAppends
    <3>3. issued'[cur_nr_op + 1].key = key
      BY <3>2
    <3>4. \A i \in 1 .. cur_nr_op + 1 : i \in 1 .. cur_nr_op \/ i = cur_nr_op + 1
      BY <3>2, NrOpAssumption
    <3> QED BY <1>2, <3>1, <3>2, <3>3, <3>4 DEF KeysOfDatabase, config
  <2>2. CASE Ending
    BY <1>2, <2>2, EndsMakeNothing DEF KeysOfDatabase, config
  <2>3. CASE UNCHANGED vars
    BY <1>2, <2>3 DEF KeysOfDatabase, vars, config
  <2> QED BY <1>2, <2>1, <2>2, <2>3, StepsAreOpsOrEnds
<1> QED BY <1>1, <1>2, TypesInvariant, PTL DEF Spec

(* Whatever rand_r returns, at most one type is chosen, a type that is not *)
(* asked for only by the draw of 0, and next_op throws only where the      *)
(* floats of the configuration leave draws over.                           *)
THEOREM DrawsAreAsConfigured == Spec => []DrawsAsConfigured
<1>1. Init => DrawInv
  BY DEF Init, DrawInv
<1>2. ASSUME TypeInv, DrawInv, [Next]_vars
      PROVE  DrawInv'
  <2>1. CASE NextOp
    <3>1. PICK type \in OpTypes, key \in OperationKeys : Issues(type, key)
      BY <1>2, <2>1, OpsIssue
    <3>2. outcome' = "running"
      BY <1>2, <3>1, IssueAppends
    <3> QED BY <3>2 DEF DrawInv
  <2>2. CASE Ending
    <3> SUFFICES ASSUME kind' \in {"uniform", "zipfian"}, outcome' = "threw"
                 PROVE  RunningSum(op_prop')[Len(op_prop')] < One
      BY DEF DrawInv
    <3>1. kind \in {"uniform", "zipfian"} /\ op_prop' = op_prop
      BY <2>2, EndsMakeNothing DEF config
    <3>2. PICK r \in Draws : ChosenTypes(op_prop, r) = {}
      BY <2>2, <3>1, EndsMakeNothing
    <3>3. op_prop \in [1 .. 5 -> Nat] /\ r \in 0 .. RAND_MAX
      <4>1. op_prop \in Proportions
        BY <1>2, <3>1 DEF TypeInv, ConfigInv
      <4> QED BY <4>1, FiveTypes, ProportionsAssumption, DrawsAssumption
    <3>4. ~ (RunningSum(op_prop)[5] >= One)
      BY <3>2, <3>3, DrawsCovered
    <3>5. Len(op_prop) = 5 /\ RunningSum(op_prop)[5] \in Int /\ One \in Int
      <4>1. One \in Int
        BY DEF One
      <4> QED BY <3>3, <4>1, RunningSums
    <3> QED BY <3>1, <3>4, <3>5
  <2>3. CASE UNCHANGED vars
    BY <1>2, <2>3 DEF DrawInv, vars, config
  <2> QED BY <1>2, <2>1, <2>2, <2>3, StepsAreOpsOrEnds
<1>3. ASSUME TypeInv, DrawInv
      PROVE  DrawsAsConfigured
  <2> SUFFICES ASSUME kind \in {"uniform", "zipfian"}
               PROVE  /\ outcome = "threw" => RunningSum(op_prop)[Len(op_prop)] < One
                      /\ \A r \in Draws : Cardinality(ChosenTypes(op_prop, r)) <= 1
                      /\ \A i \in DOMAIN op_prop : op_prop[i] = 0 =>
                           \A r \in Draws \ {0} :
                             OperationType[i] \notin ChosenTypes(op_prop, r)
    BY DEF DrawsAsConfigured
  <2>1. op_prop \in [1 .. 5 -> Nat]
    <3>1. op_prop \in Proportions
      BY <1>3 DEF TypeInv, ConfigInv
    <3> QED BY <3>1, FiveTypes, ProportionsAssumption
  <2>2. \A r \in Draws : r \in Nat
    <3>1. RAND_MAX \in Int
      BY DEF RAND_MAX
    <3> QED BY <3>1, DrawsAssumption
  <2>3. \A r \in Draws : Cardinality(ChosenTypes(op_prop, r)) <= 1
    BY <2>1, <2>2, OneChosen
  <2>4. ASSUME NEW i \in DOMAIN op_prop, op_prop[i] = 0, NEW r \in Draws \ {0},
               OperationType[i] \in ChosenTypes(op_prop, r)
        PROVE  FALSE
    <3>1. i \in 1 .. 5 /\ r \in Nat /\ r # 0
      BY <2>1, <2>2, <2>4
    <3>2. PICK j \in 1 .. 5 : OperationType[i] = OperationType[j] /\ DrawChooses(op_prop, j, r)
      BY <2>1, <2>4 DEF ChosenTypes
    <3>3. j = i
      BY <3>1, <3>2, FiveTypes
    <3> QED BY <2>1, <2>4, <3>1, <3>2, <3>3, ZeroProportion
  <2> QED BY <1>3, <2>3, <2>4 DEF DrawInv
<1> QED BY <1>1, <1>2, <1>3, TypesInvariant, PTL DEF Spec

(* TraceWorkload makes the operation of each line in turn, and stops where *)
(* the lines end or at the first that is not an operation.                 *)
THEOREM TraceIsReplayed == Spec => []TraceReplayed
<1>1. Init => TraceReplayed
  BY DEF Init, TraceReplayed
<1>2. ASSUME TypeInv, TraceReplayed, [Next]_vars
      PROVE  TraceReplayed'
  <2> SUFFICES ASSUME kind' = "trace"
               PROVE  TraceReplayed'
    BY DEF TraceReplayed
  <2>1. CASE NextOp
    <3> DEFINE line == trace_file[cur_nr_op + 1]
    <3>1. PICK type \in OpTypes, key \in OperationKeys :
            /\ Issues(type, key)
            /\ kind = "trace" => LineIsValid(line) /\ type = line.type /\ key = line.key
      BY <1>2, <2>1, OpsIssue
    <3>2. /\ cur_nr_op \in 0 .. NrOp - 1 /\ UNCHANGED config /\ outcome' = "running"
          /\ DOMAIN issued = 1 .. cur_nr_op /\ DOMAIN issued' = 1 .. cur_nr_op + 1
          /\ \A i \in 1 .. cur_nr_op : issued'[i] = issued[i]
          /\ issued'[cur_nr_op + 1] = [type |-> type, key |-> key, is_last_op |-> IsLast]
      BY <1>2, <3>1, IssueAppends
    <3>3. kind = "trace" /\ trace_file' = trace_file
      BY <3>2 DEF config
    <3>4. /\ LineIsValid(line)
          /\ issued'[cur_nr_op + 1].type = line.type /\ issued'[cur_nr_op + 1].key = line.key
      BY <3>1, <3>2, <3>3
    <3>5. \A i \in 1 .. cur_nr_op + 1 : i \in 1 .. cur_nr_op \/ i = cur_nr_op + 1
      BY <3>2, NrOpAssumption
    <3>6. ASSUME NEW i \in 1 .. cur_nr_op
          PROVE  /\ LineIsValid(trace_file[i])
                 /\ issued'[i].type = trace_file[i].type /\ issued'[i].key = trace_file[i].key
      BY <1>2, <3>2, <3>3 DEF TraceReplayed
    <3> QED BY <3>2, <3>3, <3>4, <3>5, <3>6 DEF TraceReplayed
  <2>2. CASE Ending
    <3>1. /\ UNCHANGED <<config, cur_nr_op, issued>> /\ outcome = "running"
          /\ outcome' \in {"threw", "done"}
          /\ outcome' = "done" => ~ HasNextOp /\ UNCHANGED line_list
          /\ outcome' = "threw" /\ kind = "trace" => HasNextOp /\ ~ LineIsValid(Head(line_list))
      BY <2>2, EndsMakeNothing
    <3>2. kind = "trace" /\ trace_file' = trace_file /\ Len(issued) = cur_nr_op
      BY <1>2, <3>1 DEF config, TypeInv, TypeOK
    <3>3. ASSUME outcome' = "done" PROVE Len(issued) = NrOp /\ line_list' = <<>>
      <4>1. cur_nr_op = NrOp
        BY <1>2, <3>1, <3>3, NrOpAssumption DEF TypeInv, TypeOK, HasNextOp
      <4>2. line_list \in Seq(Lines) /\ Len(line_list) = 0
        BY <1>2, <3>1, <3>2, <4>1, NrOpAssumption DEF TypeInv, LinesInv
      <4> QED BY <3>1, <3>2, <3>3, <4>1, <4>2, EmptySeq
    <3>4. ASSUME outcome' = "threw" PROVE ~ LineIsValid(trace_file[cur_nr_op + 1])
      BY <1>2, <3>1, <3>2, <3>4, TraceIssues DEF MayIssue
    <3> QED BY <1>2, <3>1, <3>2, <3>3, <3>4 DEF TraceReplayed
  <2>3. CASE UNCHANGED vars
    BY <1>2, <2>3 DEF TraceReplayed, vars, config
  <2> QED BY <1>2, <2>1, <2>2, <2>3, StepsAreOpsOrEnds
<1> QED BY <1>1, <1>2, TypesInvariant, PTL DEF Spec

-----------------------------------------------------------------------------
(* LatestWorkload inserts its own keys.                                    *)

(* What is inserted first does not depend on what follows.                 *)
LEMMA SameInserts ==
  ASSUME NEW s, NEW t, NEW n, \A j \in 1 .. n : s[j] = t[j]
  PROVE  InsertsIn(s, n) = InsertsIn(t, n)
BY DEF InsertsIn

(* One operation more is one INSERT more, or none.                         *)
LEMMA InsertsGrow ==
  ASSUME NEW s, NEW n \in Nat
  PROVE  /\ IsFiniteSet(InsertsIn(s, n)) /\ Cardinality(InsertsIn(s, n)) \in Nat
         /\ Cardinality(InsertsIn(s, n + 1)) =
              IF s[n + 1].type = "INSERT" THEN Cardinality(InsertsIn(s, n)) + 1
                                          ELSE Cardinality(InsertsIn(s, n))
<1>1. IsFiniteSet(InsertsIn(s, n))
  <2>1. IsFiniteSet(1 .. n)
    BY FS_Interval
  <2> QED BY <2>1, FS_Subset DEF InsertsIn
<1>2. Cardinality(InsertsIn(s, n)) \in Nat
  BY <1>1, FS_CardinalityType
<1>3. CASE s[n + 1].type = "INSERT"
  <2>1. InsertsIn(s, n + 1) = InsertsIn(s, n) \cup {n + 1} /\ n + 1 \notin InsertsIn(s, n)
    BY <1>3 DEF InsertsIn
  <2>2. Cardinality(InsertsIn(s, n) \cup {n + 1}) = Cardinality(InsertsIn(s, n)) + 1
    BY <1>1, <2>1, FS_AddElement
  <2> QED BY <1>1, <1>2, <1>3, <2>1, <2>2
<1>4. CASE s[n + 1].type # "INSERT"
  <2>1. InsertsIn(s, n + 1) = InsertsIn(s, n)
    BY <1>4 DEF InsertsIn
  <2> QED BY <1>1, <1>2, <1>4, <2>1
<1> QED BY <1>3, <1>4

(* What the property says of one operation, with the keys before it.       *)
HitsOwnInserts(type, key, before) ==
  LET inserted == {hash[n] % NrEntry : n \in 0 .. before - 1}
  IN  CASE type = "INSERT" -> before < NrEntry /\ key = hash[before] % NrEntry
        [] type = "UPDATE" -> before = NrEntry /\ key \in inserted
        [] OTHER -> key \in inserted

(* cur_ack_key counts the INSERTs of this generator, so that what next_op  *)
(* draws below it, or takes at it, is what the generator inserted itself   *)
(* or has yet to insert.                                                   *)
LEMMA LatestStepHits ==
  ASSUME NEW type, NEW key, LatestStep(type, key)
  PROVE  HitsOwnInserts(type, key, cur_ack_key)
BY DEF LatestStep, Inserted, HitsOwnInserts

(* A LatestWorkload reads and updates only keys it has inserted itself,    *)
(* and inserts each index once, in order.                                  *)
THEOREM LatestHitsItsInserts == Spec => []LatestHitsOwnInserts
<1> DEFINE Inv == AckInv /\ LatestHitsOwnInserts
<1>1. Init => Inv
  <2> SUFFICES ASSUME Init PROVE Inv
    OBVIOUS
  <2>1. InsertsIn(issued, 0) = {} /\ cur_nr_op = 0 /\ cur_ack_key = 0 /\ DOMAIN issued = {}
    BY DEF Init, InsertsIn
  <2>2. AckInv
    BY <2>1, FS_EmptySet DEF AckInv
  <2> QED BY <2>1, <2>2 DEF LatestHitsOwnInserts
<1>2. ASSUME TypeInv, Inv, [Next]_vars
      PROVE  Inv'
  <2> SUFFICES ASSUME kind' = "latest"
               PROVE  Inv'
    BY DEF AckInv, LatestHitsOwnInserts
  <2>1. CASE NextOp
    <3>1. PICK type \in OpTypes, key \in OperationKeys :
            Issues(type, key) /\ (kind = "latest" => LatestStep(type, key))
      BY <1>2, <2>1, OpsIssue
    <3>2. /\ cur_nr_op \in 0 .. NrOp - 1 /\ cur_nr_op' = cur_nr_op + 1 /\ UNCHANGED config
          /\ DOMAIN issued = 1 .. cur_nr_op /\ DOMAIN issued' = 1 .. cur_nr_op + 1
          /\ \A i \in 1 .. cur_nr_op : issued'[i] = issued[i]
          /\ issued'[cur_nr_op + 1] = [type |-> type, key |-> key, is_last_op |-> IsLast]
      BY <1>2, <3>1, IssueAppends
    <3>3. kind = "latest" /\ hash' = hash /\ cur_nr_op \in Nat /\ cur_ack_key \in Nat
      BY <1>2, <3>2, NrOpAssumption, NrEntryAssumption DEF config, TypeInv, TypeOK
    <3>4. LatestStep(type, key)
      BY <3>1, <3>3
    <3>5. InsertsIn(issued', cur_nr_op) = InsertsIn(issued, cur_nr_op)
      BY <3>2, SameInserts
    <3>6. cur_ack_key = Cardinality(InsertsIn(issued', cur_nr_op))
      BY <1>2, <3>3, <3>5 DEF AckInv
    <3>7. AckInv'
      <4>1. cur_ack_key' = IF type = "INSERT" THEN cur_ack_key + 1 ELSE cur_ack_key
        BY <3>4 DEF LatestStep
      <4>2. Cardinality(InsertsIn(issued', cur_nr_op + 1)) = cur_ack_key'
        <5>1. issued'[cur_nr_op + 1].type = type
          BY <3>2
        <5> QED BY <3>3, <3>6, <4>1, <5>1, InsertsGrow
      <4> QED BY <3>2, <4>2 DEF AckInv
    <3>8. ASSUME NEW i \in 1 .. cur_nr_op + 1
          PROVE  HitsOwnInserts(issued'[i].type, issued'[i].key,
                                Cardinality(InsertsIn(issued', i - 1)))
      <4>1. CASE i = cur_nr_op + 1
        <5>1. i - 1 = cur_nr_op /\ issued'[i].type = type /\ issued'[i].key = key
          BY <3>2, <3>3, <4>1
        <5> QED BY <3>4, <3>6, <5>1, LatestStepHits
      <4>2. CASE i # cur_nr_op + 1
        <5>1. i \in 1 .. cur_nr_op /\ \A j \in 1 .. i - 1 : j \in 1 .. cur_nr_op
          BY <3>3, <4>2
        <5>2. InsertsIn(issued', i - 1) = InsertsIn(issued, i - 1)
          BY <3>2, <5>1, SameInserts
        <5>3. HitsOwnInserts(issued[i].type, issued[i].key,
                             Cardinality(InsertsIn(issued, i - 1)))
          BY <1>2, <3>2, <3>3, <5>1 DEF LatestHitsOwnInserts, HitsOwnInserts, InsertsIn
        <5> QED BY <3>2, <5>1, <5>2, <5>3
      <4> QED BY <4>1, <4>2
    <3>9. ASSUME NEW i \in DOMAIN issued'
          PROVE  LET before == Cardinality({j \in 1 .. i - 1 : issued'[j].type = "INSERT"})
                     inserted == {hash'[n] % NrEntry : n \in 0 .. before - 1}
                 IN  CASE issued'[i].type = "INSERT" ->
                            before < NrEntry /\ issued'[i].key = hash'[before] % NrEntry
                       [] issued'[i].type = "UPDATE" ->
                            before = NrEntry /\ issued'[i].key \in inserted
                       [] OTHER -> issued'[i].key \in inserted
      <4>1. HitsOwnInserts(issued'[i].type, issued'[i].key, Cardinality(InsertsIn(issued', i - 1)))
        BY <3>2, <3>8
      <4>2. hash' = hash
        BY <3>3
      <4> QED BY <4>1, <4>2 DEF HitsOwnInserts, InsertsIn
    <3>10. LatestHitsOwnInserts'
      BY <3>9 DEF LatestHitsOwnInserts
    <3> QED BY <3>7, <3>10
  <2>2. CASE Ending
    BY <1>2, <2>2, EndsMakeNothing DEF AckInv, LatestHitsOwnInserts, config
  <2>3. CASE UNCHANGED vars
    BY <1>2, <2>3 DEF AckInv, LatestHitsOwnInserts, vars, config
  <2> QED BY <1>2, <2>1, <2>2, <2>3, StepsAreOpsOrEnds
<1> QED BY <1>1, <1>2, TypesInvariant, PTL DEF Spec
=============================================================================
