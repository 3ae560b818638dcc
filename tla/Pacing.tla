------------------------------- MODULE Pacing -------------------------------
(***************************************************************************)
(* The clock of worker_thread_fn (core/worker.cpp): each operation has a   *)
(* slot, next_op_interval_ns after the one before it, and the worker does  *)
(* not start it earlier.  A worker that is late does not give its slots    *)
(* up: next_op_time advances by the interval all the same.                 *)
(*                                                                         *)
(* Time is discrete.  It passes in next_op (with start_measure, record_op  *)
(* and whatever keeps the thread from running), in do_operation and in the *)
(* busy-waiting loop, which is taken to notice its time at once.           *)
(***************************************************************************)
EXTENDS Integers, Sequences, FiniteSetsExt

CONSTANTS NrOp,
          Intervals,    \* the values of next_op_interval_ns considered
          NextOpTimes,  \* how long a step to the next operation may take
          Latencies     \* how long do_operation may take

ASSUME NrOpAssumption == NrOp \in Nat
ASSUME TimesAssumption == Intervals \cup NextOpTimes \cup Latencies \subseteq Nat

VARIABLES
  interval,
  now,            \* since next_op_time was set from steady_clock
  next_op_time,
  pc, cur_nr_op,
  starts,         \* start_time of each operation
  work,           \* history: time taken so far, without waiting
  work_before     \* history: the same, when each operation started

pacing_vars == <<interval, now, next_op_time, pc, cur_nr_op, starts, work, work_before>>

PacingInit ==
  /\ interval \in Intervals
  /\ now = 0 /\ next_op_time = now
  /\ pc = "loop" /\ cur_nr_op = 0
  /\ starts = <<>>
  /\ work = 0 /\ work_before = <<>>

(* The worker is at work, not waiting.                                     *)
Spend(time) ==
  /\ now' = now + time
  /\ work' = work + time

NextOp ==
  /\ pc = "loop" /\ cur_nr_op < NrOp
  /\ pc' = "wait"
  /\ cur_nr_op' = cur_nr_op + 1
  /\ \E time \in NextOpTimes : Spend(time)
  /\ UNCHANGED <<interval, next_op_time, starts, work_before>>

BusyWait ==
  /\ pc = "wait" /\ now < next_op_time
  /\ now' = now + 1
  /\ UNCHANGED <<interval, next_op_time, pc, cur_nr_op, starts, work, work_before>>

Start ==
  /\ pc = "wait" /\ now >= next_op_time
  /\ pc' = "op"
  /\ starts' = Append(starts, now)
  /\ work_before' = Append(work_before, work)
  /\ UNCHANGED <<interval, now, next_op_time, cur_nr_op, work>>

Mut_NextOpTime == starts[cur_nr_op] + interval
NextOpTime == next_op_time + interval

DoOperation ==
  /\ pc = "op" /\ pc' = "loop"
  /\ \E latency \in Latencies : Spend(latency)
  /\ next_op_time' = NextOpTime
  /\ UNCHANGED <<interval, cur_nr_op, starts, work_before>>

Exit ==
  /\ pc = "loop" /\ cur_nr_op = NrOp
  /\ pc' = "exited"
  /\ UNCHANGED <<interval, now, next_op_time, cur_nr_op, starts, work, work_before>>

PacingStopped == pc = "exited" /\ UNCHANGED pacing_vars

PacingNext == NextOp \/ BusyWait \/ Start \/ DoOperation \/ Exit \/ PacingStopped

PacingSpec == PacingInit /\ [][PacingNext]_pacing_vars

-----------------------------------------------------------------------------
(* Properties.                                                             *)

Slot(i) == IF i = 0 THEN 0 ELSE (i - 1) * interval

(* Time the worker is busy before the start of operation i.                *)
WorkBefore(i) == IF i = 0 THEN 0 ELSE work_before[i]

(* Time it is busy after the start of operation i and before that of j.    *)
BusyBetween(i, j) == WorkBefore(j) - WorkBefore(i)

(* The workload is a fixed schedule served without idling: an operation    *)
(* starts at its slot, or as soon as the work since some earlier slot is   *)
(* done, whichever is last.  So none starts before its slot; one slow      *)
(* operation is followed by a burst without waiting; and once the worker   *)
(* has caught up, operations are on their slots again, without drift.      *)
ServedOnSchedule ==
  \A i \in DOMAIN starts :
    starts[i] = Max({Slot(j) + BusyBetween(j, i) : j \in 0 .. i})
=============================================================================
