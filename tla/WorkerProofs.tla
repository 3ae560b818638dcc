----------------------------- MODULE WorkerProofs -----------------------------
(***************************************************************************)
(* The two loops of core/worker.cpp.  The load phase inserts every key     *)
(* exactly once, for every number of keys and of threads.  And a worker of *)
(* the workload phase keeps its schedule, for every number of operations,  *)
(* every interval and however long the operations take.                    *)
(***************************************************************************)
EXTENDS InitLoad, Pacing, SequenceTheorems, TLAPS

-----------------------------------------------------------------------------
(* Arithmetic of the ranges, with per the length of a range.               *)

(* The multiple of per below k is at most k, the next one more.            *)
LEMMA DivBounds ==
  ASSUME NEW k \in Nat, NEW per \in Nat \ {0}
  PROVE  /\ k \div per \in Nat
         /\ per * (k \div per) <= k
         /\ k < per * (k \div per) + per
BY Z3

(* The end of a range of length per is the start of the next.              *)
LEMMA NextMultiple ==
  ASSUME NEW per \in Nat, NEW i \in Nat
  PROVE  per * (i + 1) = per * i + per
OBVIOUS

(* Ranges of length per that start at different multiples are disjoint.    *)
LEMMA MultiplesApart ==
  ASSUME NEW per \in Nat, NEW i \in Nat, NEW j \in Nat, i < j
  PROVE  per * i + per <= per * j
<1>1. PICK d \in Nat : j = i + 1 + d
  OBVIOUS
<1>2. per * j = per * i + per + per * d
  BY <1>1
<1>3. per * d >= 0
  OBVIOUS
<1> QED BY <1>2, <1>3

(* A range is long enough for nr_thread of them to cover all keys.         *)
LEMMA RangesCover ==
  ASSUME NEW n \in Nat \ {0}, NEW t \in Nat \ {0}
  PROVE  /\ KeysPerThread(n, t) \in Nat \ {0}
         /\ n <= KeysPerThread(n, t) * t
<1> DEFINE per == KeysPerThread(n, t)
<1>1. n + t - 1 \in Nat
  OBVIOUS
<1>2. /\ per \in Nat
      /\ t * per <= n + t - 1
      /\ n + t - 1 < t * per + t
  BY <1>1, DivBounds DEF KeysPerThread
<1>3. t * per = per * t /\ t * per \in Nat
  BY <1>2
<1>4. n <= per * t
  BY <1>2, <1>3
<1>5. per # 0
  <2> SUFFICES ASSUME per = 0 PROVE FALSE
    OBVIOUS
  <2>1. per * t = 0
    OBVIOUS
  <2> QED BY <1>4, <2>1
<1> QED BY <1>2, <1>4, <1>5

(* Every key lies in the range of a worker.                                *)
LEMMA KeyHasOwner ==
  ASSUME NEW n \in Nat \ {0}, NEW t \in Nat \ {0}, NEW k \in 0 .. n - 1
  PROVE  \E w \in 0 .. t - 1 : StartKey(n, t, w) <= k /\ k < EndKey(n, t, w)
<1> DEFINE per == KeysPerThread(n, t)
           w == k \div per
<1>1. per \in Nat \ {0} /\ n <= per * t
  BY RangesCover
<1> HIDE DEF per
<1>2. w \in Nat /\ per * w <= k /\ k < per * w + per
  BY <1>1, DivBounds
<1> HIDE DEF w
<1>3. w < t
  <2> SUFFICES ASSUME t <= w PROVE FALSE
    BY <1>2
  <2>1. per * t <= per * w
    BY <1>1, <1>2, MultiplesApart
  <2>2. per * w \in Int /\ per * t \in Int
    BY <1>1, <1>2
  <2> QED BY <1>1, <1>2, <2>1, <2>2
<1>4. per * (w + 1) = per * w + per
  BY <1>1, <1>2, NextMultiple
<1>5. StartKey(n, t, w) <= k /\ k < EndKey(n, t, w)
  BY <1>2, <1>4 DEF StartKey, EndKey, per
<1> QED BY <1>2, <1>3, <1>5

(* The ranges of two workers are disjoint.                                 *)
LEMMA OwnerIsUnique ==
  ASSUME NEW n \in Nat \ {0}, NEW t \in Nat \ {0},
         NEW v \in 0 .. t - 1, NEW w \in 0 .. t - 1, NEW k \in 0 .. n - 1,
         StartKey(n, t, v) <= k, k < EndKey(n, t, v),
         StartKey(n, t, w) <= k, k < EndKey(n, t, w)
  PROVE  v = w
<1> DEFINE per == KeysPerThread(n, t)
<1>1. per \in Nat \ {0}
  BY RangesCover
<1>2. /\ per * v <= k /\ k < per * (v + 1)
      /\ per * w <= k /\ k < per * (w + 1)
  BY <1>1 DEF StartKey, EndKey
<1> HIDE DEF per
<1>3. ASSUME NEW a \in 0 .. t - 1, NEW b \in 0 .. t - 1, a < b,
             per * b <= k, k < per * (a + 1)
      PROVE  FALSE
  <2>1. per * (a + 1) = per * a + per /\ per * a + per <= per * b
    BY <1>1, <1>3, NextMultiple, MultiplesApart
  <2>2. per * a + per \in Int /\ per * b \in Int
    BY <1>1
  <2> QED BY <1>3, <2>1, <2>2
<1> QED BY <1>2, <1>3

(* Bounds of a range, and a name for its parts the steps below need.       *)
LEMMA RangeTypes ==
  ASSUME NEW n \in Nat \ {0}, NEW t \in Nat \ {0}, NEW w \in 0 .. t - 1
  PROVE  /\ StartKey(n, t, w) \in Nat /\ EndKey(n, t, w) \in Int
         /\ EndKey(n, t, w) <= n
         /\ NrInitKeys(n, t, w) = EndKey(n, t, w) - StartKey(n, t, w)
<1>1. KeysPerThread(n, t) \in Nat
  BY RangesCover
<1>2. KeysPerThread(n, t) * w \in Nat /\ KeysPerThread(n, t) * (w + 1) \in Nat
  BY <1>1
<1> QED BY <1>2 DEF StartKey, EndKey, NrInitKeys

-----------------------------------------------------------------------------
(* The inductive invariant.                                                *)

IInv == TypeOK /\ InsertsInv

(* Before the first insert every worker has inserted nothing.              *)
LEMMA InitIInv == Init => IInv
<1> SUFFICES ASSUME Init PROVE IInv
  OBVIOUS
<1>1. TypeOK
  BY EntriesAssumption, ThreadsAssumption DEF Init, TypeOK
<1>2. \A w \in Worker : cur_nr_entry[w] = 0
  BY DEF Init
<1>3. \A w \in Worker : StartKey(nr_entry, nr_thread, w) \in Nat
  BY <1>1, RangeTypes DEF TypeOK, Worker
<1>4. InsertsInv
  BY <1>1, <1>2, <1>3 DEF Init, InsertsInv, Key, TypeOK
<1> QED BY <1>1, <1>4 DEF IInv

(* An insert extends the prefix of its worker by one key of its range.     *)
LEMMA NextIInv == IInv /\ [Next]_vars => IInv'
<1> SUFFICES ASSUME IInv, [Next]_vars PROVE IInv'
  OBVIOUS
<1> USE DEF IInv
<1>1. CASE UNCHANGED vars
  BY <1>1 DEF vars, TypeOK, InsertsInv, HasNextOp, Worker, Key
<1>2. ASSUME NEW w \in Worker, InsertNext(w) PROVE IInv'
  <2> DEFINE start == StartKey(nr_entry, nr_thread, w)
             len   == NrInitKeys(nr_entry, nr_thread, w)
             cur   == cur_nr_entry[w]
  <2>1. /\ start \in Nat /\ len \in Int /\ start + len <= nr_entry
        /\ nr_entry \in Nat /\ cur \in Nat
    <3>1. /\ nr_entry \in Nat \ {0} /\ nr_thread \in Nat \ {0}
          /\ w \in 0 .. nr_thread - 1 /\ cur \in Nat
      BY DEF TypeOK, Worker
    <3>2. /\ start \in Nat /\ EndKey(nr_entry, nr_thread, w) \in Int
          /\ EndKey(nr_entry, nr_thread, w) <= nr_entry
          /\ len = EndKey(nr_entry, nr_thread, w) - start
      BY <3>1, RangeTypes
    <3> HIDE DEF start, len, cur
    <3> QED BY <3>1, <3>2
  <2>2. cur < len /\ NextKey(w) = start + cur
    BY <1>2 DEF InsertNext, HasNextOp, NextKey
  <2>3. UNCHANGED <<nr_entry, nr_thread>> /\ Worker' = Worker /\ Key' = Key
    BY <1>2 DEF InsertNext, Worker, Key
  <2>4. cur_nr_entry' = [cur_nr_entry EXCEPT ![w] = cur + 1]
    BY <1>2 DEF InsertNext
  <2>5. inserts' = inserts \cup {<<w, start + cur>>}
    BY <1>2, <2>2 DEF InsertNext
  <2>6. start + cur \in Key
    BY <2>1, <2>2 DEF Key
  <2>7. TypeOK'
    BY <2>3, <2>4, <2>5, <2>6, <2>1 DEF TypeOK, Key
  <2>8. \A v \in Worker : cur_nr_entry'[v] = IF v = w THEN cur + 1 ELSE cur_nr_entry[v]
    BY <2>4 DEF TypeOK
  <2>9. \A v \in Worker :
          cur_nr_entry'[v] > 0 => cur_nr_entry'[v] <= NrInitKeys(nr_entry, nr_thread, v)
    BY <2>1, <2>2, <2>8 DEF InsertsInv
  <2>10. \A v \in Worker, k \in Key :
           <<v, k>> \in inserts' <=>
             /\ StartKey(nr_entry, nr_thread, v) <= k
             /\ k < StartKey(nr_entry, nr_thread, v) + cur_nr_entry'[v]
    <3> SUFFICES ASSUME NEW v \in Worker, NEW k \in Key
                 PROVE <<v, k>> \in inserts' <=>
                         /\ StartKey(nr_entry, nr_thread, v) <= k
                         /\ k < StartKey(nr_entry, nr_thread, v) + cur_nr_entry'[v]
      OBVIOUS
    <3>1. <<v, k>> \in inserts <=>
             /\ StartKey(nr_entry, nr_thread, v) <= k
             /\ k < StartKey(nr_entry, nr_thread, v) + cur_nr_entry[v]
      BY DEF InsertsInv
    <3>2. <<v, k>> \in inserts' <=> <<v, k>> \in inserts \/ (v = w /\ k = start + cur)
      BY <2>5
    <3>3. CASE v # w
      BY <2>8, <3>1, <3>2, <3>3
    <3>4. CASE v = w
      <4>1. cur_nr_entry'[v] = cur + 1
        BY <2>8, <3>4
      <4>2. k \in Int
        BY DEF Key
      <4> QED BY <2>1, <3>1, <3>2, <3>4, <4>1, <4>2
    <3> QED BY <3>3, <3>4
  <2>11. inserts' \subseteq Worker \X Key
    BY <2>5, <2>6 DEF InsertsInv
  <2>12. inserts' = {p \in Worker \X Key :
                       /\ StartKey(nr_entry, nr_thread, p[1]) <= p[2]
                       /\ p[2] < StartKey(nr_entry, nr_thread, p[1]) + cur_nr_entry'[p[1]]}
    BY <2>10, <2>11
  <2>13. InsertsInv'
    BY <2>3, <2>9, <2>12 DEF InsertsInv
  <2> QED BY <2>7, <2>13
<1> QED BY <1>1, <1>2 DEF Next, Stopped

(* The inductive invariant holds in every reachable state.                 *)
THEOREM Inductive == Spec => []IInv
BY InitIInv, NextIInv, PTL DEF Spec

(* At every moment each worker has inserted a gap-free run of keys from    *)
(* its start_key on, never past the end of its range.                      *)
THEOREM InsertsCorrect == Spec => []InsertsInv
<1>1. IInv => InsertsInv
  BY DEF IInv
<1> QED BY <1>1, Inductive, PTL

-----------------------------------------------------------------------------
(* What a worker has inserted lies within its own range.                   *)
LEMMA InsertedWithinRange ==
  ASSUME IInv, NEW w \in Worker, NEW k, <<w, k>> \in inserts
  PROVE  /\ k \in Key
         /\ StartKey(nr_entry, nr_thread, w) <= k
         /\ k < EndKey(nr_entry, nr_thread, w)
<1> USE DEF IInv
<1>1. /\ k \in Key /\ StartKey(nr_entry, nr_thread, w) <= k
      /\ k < StartKey(nr_entry, nr_thread, w) + cur_nr_entry[w]
  BY DEF InsertsInv
<1>2. /\ StartKey(nr_entry, nr_thread, w) \in Nat /\ EndKey(nr_entry, nr_thread, w) \in Int
      /\ NrInitKeys(nr_entry, nr_thread, w) =
           EndKey(nr_entry, nr_thread, w) - StartKey(nr_entry, nr_thread, w)
      /\ cur_nr_entry[w] \in Nat /\ k \in Int
  BY <1>1, RangeTypes DEF TypeOK, Worker, Key
<1>3. cur_nr_entry[w] <= NrInitKeys(nr_entry, nr_thread, w)
  BY <1>1, <1>2 DEF InsertsInv
<1> QED BY <1>1, <1>2, <1>3

(* No key is inserted by two workers, and only keys of the database are,   *)
(* for every number of keys and of threads.                                *)
THEOREM NoKeyTwiceHolds == Spec => []NoKeyTwice
<1>1. IInv => NoKeyTwice
  <2> SUFFICES ASSUME IInv, NEW p \in inserts, NEW q \in inserts
               PROVE  p[2] \in Key /\ (p[2] = q[2] => p[1] = q[1])
    BY DEF NoKeyTwice
  <2>1. /\ p = <<p[1], p[2]>> /\ p[1] \in Worker
        /\ q = <<q[1], q[2]>> /\ q[1] \in Worker
    BY DEF IInv, TypeOK
  <2>2. /\ p[2] \in Key
        /\ StartKey(nr_entry, nr_thread, p[1]) <= p[2]
        /\ p[2] < EndKey(nr_entry, nr_thread, p[1])
    BY <2>1, InsertedWithinRange
  <2>3. /\ StartKey(nr_entry, nr_thread, q[1]) <= q[2]
        /\ q[2] < EndKey(nr_entry, nr_thread, q[1])
    BY <2>1, InsertedWithinRange
  <2>4. nr_entry \in Nat \ {0} /\ nr_thread \in Nat \ {0}
    BY DEF IInv, TypeOK
  <2> QED BY <2>1, <2>2, <2>3, <2>4, OwnerIsUnique DEF Worker, Key
<1> QED BY <1>1, Inductive, PTL

(* Once every worker is done, every key of the database is in the store,   *)
(* for every number of keys and of threads.                                *)
THEOREM AllKeysLoadedHolds == Spec => []AllKeysLoaded
<1>1. IInv => AllKeysLoaded
  <2> SUFFICES ASSUME IInv, Loaded, NEW k \in Key
               PROVE  \E w \in Worker : <<w, k>> \in inserts
    BY DEF AllKeysLoaded
  <2>1. nr_entry \in Nat \ {0} /\ nr_thread \in Nat \ {0}
    BY DEF IInv, TypeOK
  <2>2. PICK w \in Worker : /\ StartKey(nr_entry, nr_thread, w) <= k
                            /\ k < EndKey(nr_entry, nr_thread, w)
    BY <2>1, KeyHasOwner DEF Key, Worker
  <2>3. /\ StartKey(nr_entry, nr_thread, w) \in Nat
        /\ EndKey(nr_entry, nr_thread, w) \in Int
        /\ NrInitKeys(nr_entry, nr_thread, w) =
             EndKey(nr_entry, nr_thread, w) - StartKey(nr_entry, nr_thread, w)
        /\ cur_nr_entry[w] \in Nat /\ k \in Int
    BY <2>1, RangeTypes DEF IInv, TypeOK, Worker, Key
  <2>4. NrInitKeys(nr_entry, nr_thread, w) <= cur_nr_entry[w]
    BY <2>3 DEF Loaded, HasNextOp
  <2>5. k < StartKey(nr_entry, nr_thread, w) + cur_nr_entry[w]
    BY <2>2, <2>3, <2>4
  <2>6. <<w, k>> \in inserts
    BY <2>2, <2>5 DEF IInv, InsertsInv
  <2> QED BY <2>6
<1> QED BY <1>1, Inductive, PTL

-----------------------------------------------------------------------------
(* The schedule of a worker.                                                 *)

TypeInv ==
  /\ interval \in Nat /\ now \in Nat /\ next_op_time \in Int /\ work \in Nat
  /\ cur_nr_op \in 0 .. NrOp
  /\ pc \in {"loop", "wait", "op", "exited"}
  /\ pc \in {"wait", "op"} => cur_nr_op # 0
  /\ starts \in Seq(Nat) /\ work_before \in Seq(Nat)
  /\ Len(work_before) = Len(starts)
  /\ Len(starts) = IF pc = "wait" THEN cur_nr_op - 1 ELSE cur_nr_op

(* The construction of the worker counts as the start of operation 0.      *)
StartOf(i) == IF i = 0 THEN 0 ELSE starts[i]

(* When the work done so far would have ended without waiting since the    *)
(* last start.                                                             *)
Unwaited == StartOf(Len(starts)) + (work - WorkBefore(Len(starts)))

(* next_op_time is the slot of the operation that starts next, or has just *)
(* started; the worker waits up to it and no longer, and only then.        *)
ClockInv ==
  /\ next_op_time = Slot(IF pc = "op" THEN Len(starts) ELSE Len(starts) + 1)
  /\ WorkBefore(Len(starts)) <= work
  /\ Unwaited <= now
  /\ now = Unwaited \/ (pc = "wait" /\ now <= next_op_time)

(* What ServedOnSchedule says of operation i, without Max.                 *)
Served(i) ==
  /\ \A j \in 0 .. i : Slot(j) + BusyBetween(j, i) <= StartOf(i)
  /\ \E j \in 0 .. i : Slot(j) + BusyBetween(j, i) = StartOf(i)

ServedInv == \A i \in 0 .. Len(starts) : Served(i)

PacingInv == TypeInv /\ ClockInv /\ ServedInv

-----------------------------------------------------------------------------
(* Arithmetic.                                                             *)

(* Slots are numbers, an interval apart; the first two are at 0.           *)
LEMMA Slots ==
  ASSUME interval \in Nat
  PROVE  /\ Slot(0) = 0 /\ Slot(1) = 0
         /\ \A i \in Nat : Slot(i) \in Nat
         /\ \A i \in Nat \ {0} : Slot(i + 1) = Slot(i) + interval
<1>1. \A k \in Nat : k * interval \in Nat /\ (k + 1) * interval = k * interval + interval
  OBVIOUS
<1>2. 0 * interval = 0
  OBVIOUS
<1>3. \A i \in Nat : Slot(i) \in Nat
  <2> SUFFICES ASSUME NEW i \in Nat, i # 0 PROVE (i - 1) * interval \in Nat
    BY DEF Slot
  <2> QED BY <1>1
<1>4. ASSUME NEW i \in Nat \ {0} PROVE Slot(i + 1) = Slot(i) + interval
  <2>1. i - 1 \in Nat /\ i + 1 # 0 /\ i + 1 - 1 = i - 1 + 1
    OBVIOUS
  <2>2. (i - 1 + 1) * interval = (i - 1) * interval + interval
    BY <1>1, <2>1
  <2> QED BY <2>1, <2>2 DEF Slot
<1>5. Slot(0) = 0 /\ Slot(1) = 0
  <2>1. Slot(1) = (1 - 1) * interval
    BY DEF Slot
  <2> QED BY <1>2, <2>1 DEF Slot
<1> QED BY <1>3, <1>4, <1>5

(* The greatest of a set of integers.                                      *)
LEMMA MaxIsGreatest ==
  ASSUME NEW S \in SUBSET Int, NEW m \in S, \A x \in S : x <= m
  PROVE  Max(S) = m
<1>1. \A x \in S : m >= x
  OBVIOUS
<1>2. Max(S) \in S /\ \A x \in S : Max(S) >= x
  BY <1>1 DEF Max
<1>3. Max(S) \in Int /\ Max(S) >= m /\ Max(S) <= m
  BY <1>2
<1> QED BY <1>3

(* The history of a worker consists of numbers.                            *)
LEMMA HistoryIsTyped ==
  ASSUME TypeInv
  PROVE  /\ Len(starts) \in Nat
         /\ \A i \in 0 .. Len(starts) : StartOf(i) \in Nat /\ WorkBefore(i) \in Nat
<1>1. Len(starts) \in Nat
  BY LenProperties DEF TypeInv
<1>2. ASSUME NEW i \in 1 .. Len(starts) PROVE starts[i] \in Nat /\ work_before[i] \in Nat
  BY ElementOfSeq DEF TypeInv
<1>3. \A i \in 0 .. Len(starts) : i = 0 \/ i \in 1 .. Len(starts)
  BY <1>1
<1> QED BY <1>1, <1>2, <1>3 DEF StartOf, WorkBefore

-----------------------------------------------------------------------------
(* The invariant.                                                          *)

(* steady_clock is read once before the loop.                              *)
LEMMA PacingInvStarts == PacingInit => PacingInv
<1> SUFFICES ASSUME PacingInit PROVE PacingInv
  OBVIOUS
<1>1. TypeInv
  BY NrOpAssumption, TimesAssumption DEF PacingInit, TypeInv
<1>2. Len(starts) = 0 /\ 0 + 1 = 1 /\ Slot(0) = 0 /\ Slot(1) = 0
  BY <1>1, Slots DEF PacingInit, TypeInv
<1>3. ClockInv
  BY <1>2 DEF PacingInit, ClockInv, Unwaited, StartOf, WorkBefore
<1>4. ServedInv
  BY <1>2 DEF ServedInv, Served, BusyBetween, StartOf, WorkBefore
<1> QED BY <1>1, <1>3, <1>4 DEF PacingInv

(* A step that starts no operation leaves the history alone.               *)
LEMMA HistoryStays ==
  ASSUME PacingInv, UNCHANGED <<interval, starts, work_before>>
  PROVE  ServedInv'
BY DEF PacingInv, ServedInv, Served, BusyBetween, Slot, StartOf, WorkBefore

(* The worker is at work: next_op and do_operation.                        *)
LEMMA WorkKeepsIInv ==
  ASSUME PacingInv, NextOp \/ DoOperation
  PROVE  PacingInv'
<1> DEFINE n == Len(starts)
<1>1. PICK time \in Nat : Spend(time)
  BY TimesAssumption DEF NextOp, DoOperation
<1>2. /\ UNCHANGED <<interval, starts, work_before>>
      /\ now' = now + time /\ work' = work + time
  BY <1>1 DEF NextOp, DoOperation, Spend
<1>3. TypeInv'
  BY <1>2, NrOpAssumption DEF PacingInv, TypeInv, NextOp, DoOperation, NextOpTime
<1>4. /\ n \in Nat /\ StartOf(n) \in Nat /\ WorkBefore(n) \in Nat
      /\ StartOf(n)' = StartOf(n) /\ WorkBefore(n)' = WorkBefore(n)
  BY <1>2, HistoryIsTyped DEF PacingInv, StartOf, WorkBefore
<1>5. now = Unwaited /\ WorkBefore(n) <= work /\ now \in Nat /\ work \in Nat
  BY DEF PacingInv, TypeInv, ClockInv, NextOp, DoOperation
<1>6. Unwaited' = Unwaited + time
  BY <1>2, <1>4, <1>5 DEF Unwaited
<1>7. (next_op_time = Slot(IF pc = "op" THEN n ELSE n + 1))'
  <2>1. CASE NextOp
    <3>1. next_op_time = Slot(n + 1) /\ next_op_time' = next_op_time /\ pc' = "wait"
      BY <2>1 DEF PacingInv, ClockInv, NextOp
    <3> QED BY <1>2, <3>1 DEF Slot
  <2>2. CASE DoOperation
    <3>1. n \in Nat \ {0} /\ next_op_time = Slot(n) /\ interval \in Nat
      BY <1>4, <2>2 DEF PacingInv, TypeInv, ClockInv, DoOperation
    <3>2. next_op_time' = Slot(n + 1) /\ pc' = "loop"
      BY <2>2, <3>1, Slots DEF DoOperation, NextOpTime
    <3> QED BY <1>2, <3>2 DEF Slot
  <2> QED BY <2>1, <2>2
<1>8. ClockInv'
  BY <1>2, <1>4, <1>5, <1>6, <1>7 DEF ClockInv
<1> QED BY <1>2, <1>3, <1>8, HistoryStays DEF PacingInv

(* A worker that is early waits until its slot.                            *)
LEMMA WaitKeepsIInv ==
  ASSUME PacingInv, BusyWait
  PROVE  PacingInv'
<1>1. /\ UNCHANGED <<interval, next_op_time, pc, cur_nr_op, starts, work, work_before>>
      /\ pc = "wait" /\ now < next_op_time /\ now' = now + 1
  BY DEF BusyWait
<1>2. TypeInv'
  BY <1>1 DEF PacingInv, TypeInv
<1>3. Unwaited' = Unwaited /\ Slot(Len(starts) + 1)' = Slot(Len(starts) + 1)
  BY <1>1 DEF Unwaited, StartOf, WorkBefore, Slot
<1>4. /\ Unwaited \in Int /\ now \in Int /\ next_op_time \in Int
      /\ Unwaited <= now /\ next_op_time = Slot(Len(starts) + 1)
  <2>1. StartOf(Len(starts)) \in Nat /\ WorkBefore(Len(starts)) \in Nat
    BY HistoryIsTyped DEF PacingInv
  <2> QED BY <1>1, <2>1 DEF PacingInv, TypeInv, ClockInv, Unwaited
<1>5. (WorkBefore(Len(starts)) <= work)'
  BY <1>1 DEF PacingInv, ClockInv, WorkBefore
<1>6. ClockInv'
  BY <1>1, <1>3, <1>4, <1>5 DEF ClockInv
<1> QED BY <1>1, <1>2, <1>6, HistoryStays DEF PacingInv

(* An operation starts at its slot, or late: as soon as the work since the *)
(* start before it is done.                                                *)
LEMMA StartKeepsIInv ==
  ASSUME PacingInv, Start
  PROVE  PacingInv'
<1>0. PICK n : n = Len(starts)
  OBVIOUS
<1>1. /\ pc = "wait" /\ now >= next_op_time /\ pc' = "op"
      /\ starts' = Append(starts, now) /\ work_before' = Append(work_before, work)
      /\ UNCHANGED <<interval, now, next_op_time, cur_nr_op, work>>
  BY DEF Start
<1>2. /\ n \in Nat /\ n + 1 # 0 /\ now \in Nat /\ work \in Nat /\ interval \in Nat
      /\ starts \in Seq(Nat) /\ work_before \in Seq(Nat) /\ Len(work_before) = n
      /\ \A i \in 0 .. n : StartOf(i) \in Nat /\ WorkBefore(i) \in Nat
  BY <1>0, HistoryIsTyped DEF PacingInv, TypeInv
<1>3. /\ starts' \in Seq(Nat) /\ Len(starts') = n + 1
      /\ \A i \in 1 .. n : starts'[i] = starts[i]
      /\ starts'[n + 1] = now
  BY <1>0, <1>1, <1>2, AppendProperties
<1>4. /\ work_before' \in Seq(Nat) /\ Len(work_before') = n + 1
      /\ \A i \in 1 .. n : work_before'[i] = work_before[i]
      /\ work_before'[n + 1] = work
  BY <1>0, <1>1, <1>2, AppendProperties
<1>5. TypeInv'
  <2>1. n = cur_nr_op - 1 /\ cur_nr_op \in 0 .. NrOp /\ cur_nr_op # 0
    BY <1>0, <1>1 DEF PacingInv, TypeInv
  <2> QED BY <1>1, <1>2, <1>3, <1>4, <2>1, NrOpAssumption DEF PacingInv, TypeInv
<1>6. ASSUME NEW i \in 0 .. n
      PROVE  (StartOf(i) = StartOf(i)') /\ WorkBefore(i) = WorkBefore(i)'
  <2>1. i = 0 \/ i \in 1 .. n
    BY <1>2
  <2> QED BY <1>3, <1>4, <2>1 DEF StartOf, WorkBefore
<1>7. StartOf(n + 1)' = now /\ WorkBefore(n + 1)' = work
  BY <1>2, <1>3, <1>4 DEF StartOf, WorkBefore
<1>8. /\ next_op_time = Slot(n + 1) /\ Slot(n + 1) \in Nat
      /\ WorkBefore(n) <= work
      /\ StartOf(n) + (work - WorkBefore(n)) <= now
      /\ now = StartOf(n) + (work - WorkBefore(n)) \/ now <= next_op_time
  BY <1>0, <1>1, <1>2, Slots DEF PacingInv, ClockInv, Unwaited
<1>9. ClockInv'
  <2>1. Unwaited' = now
    <3>1. now + (work - work) = now
      BY <1>2
    <3> QED BY <1>1, <1>3, <1>7, <3>1 DEF Unwaited
  <2>2. Slot(n + 1)' = Slot(n + 1)
    BY <1>1 DEF Slot
  <2> QED BY <1>1, <1>2, <1>3, <1>7, <1>8, <2>1, <2>2 DEF ClockInv
<1>10. ServedInv'
  <2>1. \A i \in 0 .. n : Served(i)
    BY <1>0 DEF PacingInv, ServedInv
  <2>2. ASSUME NEW i \in 0 .. n PROVE Served(i)'
    <3>1. \A j \in 0 .. i : WorkBefore(j)' = WorkBefore(j) /\ Slot(j)' = Slot(j)
      <4>1. \A j \in 0 .. i : j \in 0 .. n
        BY <1>2
      <4> QED BY <1>1, <1>6, <4>1 DEF Slot
    <3> QED BY <1>6, <2>1, <3>1 DEF Served, BusyBetween
  <2>3. Served(n + 1)'
    <3>1. \A j \in 0 .. n : Slot(j) + (WorkBefore(n) - WorkBefore(j)) <= StartOf(n)
      BY <2>1, <1>2 DEF Served, BusyBetween
    <3>2. \A j \in 0 .. n : Slot(j) \in Nat /\ WorkBefore(j) \in Nat
      <4>1. \A j \in 0 .. n : j \in Nat
        BY <1>2
      <4>2. \A j \in Nat : Slot(j) \in Nat
        BY <1>2, Slots
      <4> QED BY <1>2, <4>1, <4>2
    <3>3. ASSUME NEW j \in 0 .. n
          PROVE  Slot(j) + (work - WorkBefore(j)) <= now
      <4>1. Slot(j) + (WorkBefore(n) - WorkBefore(j)) <= StartOf(n)
        BY <3>1
      <4>2. /\ Slot(j) \in Int /\ WorkBefore(j) \in Int
            /\ WorkBefore(n) \in Int /\ StartOf(n) \in Int
        BY <1>2, <3>2
      <4>3. /\ now \in Int /\ work \in Int
            /\ StartOf(n) + (work - WorkBefore(n)) <= now
        BY <1>2, <1>8
      <4> QED BY <4>1, <4>2, <4>3
    <3>4. \/ \E j \in 0 .. n : Slot(j) + (work - WorkBefore(j)) = now
          \/ Slot(n + 1) + (work - work) = now
      <4>1. CASE now = StartOf(n) + (work - WorkBefore(n))
        <5>1. PICK j \in 0 .. n : Slot(j) + (WorkBefore(n) - WorkBefore(j)) = StartOf(n)
          BY <2>1, <1>2 DEF Served, BusyBetween
        <5>2. Slot(j) + (work - WorkBefore(j)) = now
          <6>1. /\ Slot(j) \in Int /\ WorkBefore(j) \in Int
                /\ WorkBefore(n) \in Int /\ StartOf(n) \in Int /\ work \in Int
            BY <1>2, <3>2
          <6> QED BY <4>1, <5>1, <6>1
        <5> QED BY <5>2
      <4>2. CASE now <= next_op_time
        BY <1>1, <1>2, <1>8, <4>2
      <4> QED BY <1>8, <4>1, <4>2
    <3>5. /\ \A j \in 0 .. n : WorkBefore(j)' = WorkBefore(j)
          /\ \A j \in 0 .. n + 1 : Slot(j)' = Slot(j)
      BY <1>1, <1>6 DEF Slot
    <3>6. /\ \A j \in 0 .. n + 1 : j \in 0 .. n \/ j = n + 1
          /\ \A j \in 0 .. n : j \in 0 .. n + 1
          /\ n + 1 \in 0 .. n + 1 /\ work - work = 0
      BY <1>2
    <3>7. Slot(n + 1) + (work - work) <= now
      BY <1>1, <1>2, <1>8
    <3>8. \A j \in 0 .. n + 1 : Slot(j)' + (work - WorkBefore(j)') <= now
      BY <1>7, <3>3, <3>5, <3>6, <3>7
    <3>9. \E j \in 0 .. n + 1 : Slot(j)' + (work - WorkBefore(j)') = now
      BY <1>7, <3>4, <3>5, <3>6
    <3> QED BY <1>7, <3>8, <3>9 DEF Served, BusyBetween
  <2>4. \A i \in 0 .. n + 1 : i \in 0 .. n \/ i = n + 1
    BY <1>2
  <2> QED BY <1>3, <2>2, <2>3, <2>4 DEF ServedInv
<1> QED BY <1>5, <1>9, <1>10 DEF PacingInv

(* Leaving the loop changes nothing the invariant is about.               *)
LEMMA PacingInvKept == PacingInv /\ [PacingNext]_pacing_vars => PacingInv'
<1> SUFFICES ASSUME PacingInv, [PacingNext]_pacing_vars PROVE PacingInv'
  OBVIOUS
<1>1. CASE Exit \/ UNCHANGED pacing_vars
  <2>1. UNCHANGED <<interval, now, next_op_time, cur_nr_op, starts, work, work_before>>
    BY <1>1 DEF Exit, pacing_vars
  <2>2. pc' = pc \/ (pc = "loop" /\ pc' = "exited")
    BY <1>1 DEF Exit, pacing_vars
  <2>3. TypeInv'
    BY <2>1, <2>2 DEF PacingInv, TypeInv
  <2>4. ClockInv'
    BY <2>1, <2>2 DEF PacingInv, ClockInv, Unwaited, StartOf, WorkBefore, Slot
  <2> QED BY <2>1, <2>3, <2>4, HistoryStays DEF PacingInv
<1> QED BY <1>1, WorkKeepsIInv, WaitKeepsIInv, StartKeepsIInv DEF PacingNext, PacingStopped

-----------------------------------------------------------------------------
(* Every operation of worker_thread_fn starts at its slot, or as soon as   *)
(* the work since some earlier slot is done, whichever is last.            *)
THEOREM ServedOnScheduleHolds == PacingSpec => []ServedOnSchedule
<1>1. ASSUME PacingInv PROVE ServedOnSchedule
  <2> SUFFICES ASSUME NEW i \in DOMAIN starts
               PROVE  starts[i] = Max({Slot(j) + BusyBetween(j, i) : j \in 0 .. i})
    BY DEF ServedOnSchedule
  <2> DEFINE times == {Slot(j) + BusyBetween(j, i) : j \in 0 .. i}
  <2>1. i \in 1 .. Len(starts) /\ Len(starts) \in Nat
    BY <1>1, LenProperties DEF PacingInv, TypeInv
  <2>2. i \in 0 .. Len(starts) /\ i # 0 /\ \A j \in 0 .. i : j \in 0 .. Len(starts) /\ j \in Nat
    BY <2>1
  <2>3. StartOf(i) = starts[i] /\ Served(i)
    BY <1>1, <2>2 DEF PacingInv, ServedInv, StartOf
  <2>4. times \in SUBSET Int
    <3>1. \A j \in Nat : Slot(j) \in Nat
      BY <1>1, Slots DEF PacingInv, TypeInv
    <3>2. \A j \in 0 .. Len(starts) : WorkBefore(j) \in Nat
      BY <1>1, HistoryIsTyped DEF PacingInv
    <3>3. \A j \in 0 .. i : Slot(j) + BusyBetween(j, i) \in Int
      BY <2>2, <3>1, <3>2, SMTT(30) DEF BusyBetween
    <3> QED BY <3>3
  <2>5. starts[i] \in times /\ \A x \in times : x <= starts[i]
    BY <2>3 DEF Served
  <2> HIDE DEF times
  <2>6. Max(times) = starts[i]
    BY <2>4, <2>5, MaxIsGreatest
  <2> QED BY <2>6 DEF times
<1> QED BY <1>1, PacingInvStarts, PacingInvKept, PTL DEF PacingSpec
=============================================================================
