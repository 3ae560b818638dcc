---------------------------- MODULE OpMeasurement ----------------------------
(***************************************************************************)
(* The struct OpMeasurement (core/include/measurement.h): the state every  *)
(* worker thread, the monitor thread and the main thread share, and the    *)
(* atomic steps its methods are made of.  Which thread takes which step,   *)
(* and when, is said by BenchRun.                                          *)
(*                                                                         *)
(* Abstractions of data.  A point in time is kept only as far as the order *)
(* of the writes matters: 0 is the epoch a default-constructed time_point  *)
(* holds, and each later write of start_time or end_time takes the next    *)
(* number.  A recorded latency is kept as the sample it belongs to (who    *)
(* ran it, which operation, and the start_time its timestamp was computed  *)
(* from), so a vector of latencies is the set of its samples.              *)
(***************************************************************************)
EXTENDS Integers, FiniteSets

CONSTANTS NrThread,   \* number of worker threads, one client each
          NrOpType    \* NR_OP_TYPE

ASSUME NrThreadAssumption == NrThread \in Nat \ {0}
ASSUME NrOpTypeAssumption == NrOpType \in Nat \ {0}

Client == 0 .. NrThread - 1   \* the factory numbers its clients: client_id++
OpType == 0 .. NrOpType - 1

VARIABLES
  op_count_arr, rt_op_count_arr,     \* atomic counters, one per operation type
  cur_progress,                      \* atomic
  start_time, end_time, rt_time,     \* plain time points
  finished, nr_active_client,        \* atomic
  final_result_lock,                 \* who holds the mutex
  client_ids,                        \* keys of the two per-client maps
  client_vec,                        \* per_client_latency_vec and _timestamp_vec
  final_vec                          \* final_latency_vec

counts == <<op_count_arr, rt_op_count_arr, cur_progress>>
times  == <<start_time, end_time, rt_time>>
life   == <<finished, nr_active_client, final_result_lock>>
vecs   == <<client_ids, client_vec, final_vec>>

Sample == [client : Client, type : OpType, op : Nat, since : Nat]

Recorded        == UNION {client_vec[c] : c \in client_ids}
RecordedOf(t)   == {s \in Recorded : s.type = t}
TotalNrClient   == Cardinality(client_ids)

(* The constructor takes the mutex, so that no result is read before it is *)
(* final.                                                                  *)
Mut_HeldAtStart == "free"
HeldAtStart == "main"

OpMeasurementInit ==
  /\ op_count_arr = [t \in OpType |-> 0]
  /\ rt_op_count_arr = [t \in OpType |-> 0]
  /\ cur_progress = 0
  /\ start_time = 0 /\ end_time = 0 /\ rt_time = 0
  /\ finished = FALSE
  /\ nr_active_client = 0
  /\ final_result_lock = HeldAtStart
  /\ client_ids = {}
  /\ client_vec = [c \in Client |-> {}]
  /\ final_vec = [t \in OpType |-> {}]

EnableClient(c) ==
  /\ client_ids' = client_ids \cup {c}
  /\ client_vec' = [client_vec EXCEPT ![c] = {}]
  /\ UNCHANGED <<counts, times, life, final_vec>>

-----------------------------------------------------------------------------
(* start_measure and finish_measure test the value fetch_add and fetch_sub *)
(* return, that is, the counter before the step.                           *)

Mut_IsLastStarter_NewValue == nr_active_client = TotalNrClient
IsLastStarter == nr_active_client = TotalNrClient - 1

Mut_IsFirstFinisher_Every == TRUE
Mut_IsFirstFinisher_Last == nr_active_client = 1
Mut_IsFirstFinisher_NewValue == nr_active_client - 1 = TotalNrClient
IsFirstFinisher == nr_active_client = TotalNrClient

FetchAddActive ==
  /\ nr_active_client' = nr_active_client + 1
  /\ UNCHANGED <<counts, times, vecs, finished, final_result_lock>>

FetchSubActive ==
  /\ nr_active_client' = nr_active_client - 1
  /\ UNCHANGED <<counts, times, vecs, finished, final_result_lock>>

NextStamp == 1 + (IF start_time > end_time THEN start_time ELSE end_time)

SetStartTime ==
  /\ start_time' = NextStamp
  /\ UNCHANGED <<counts, life, vecs, end_time, rt_time>>

SetRtTime ==
  /\ rt_time' = 1
  /\ UNCHANGED <<counts, life, vecs, start_time, end_time>>

SetFinished ==
  /\ finished' = TRUE
  /\ UNCHANGED <<counts, times, vecs, nr_active_client, final_result_lock>>

SetEndTime ==
  /\ end_time' = NextStamp
  /\ UNCHANGED <<counts, life, vecs, start_time, rt_time>>

-----------------------------------------------------------------------------
(* record_op and get_rt_throughput both go on only while every client is   *)
(* active.                                                                 *)
AllActive == TotalNrClient = nr_active_client

CountOp(t) ==
  /\ op_count_arr' = [op_count_arr EXCEPT ![t] = @ + 1]
  /\ UNCHANGED <<times, life, vecs, rt_op_count_arr, cur_progress>>

(* ++rt_op_count_arr is the step others see; the two push_backs touch only *)
(* vectors the calling worker owns until it is joined.                     *)
CountRtAndPush(s) ==
  /\ rt_op_count_arr' = [rt_op_count_arr EXCEPT ![s.type] = @ + 1]
  /\ client_vec' = [client_vec EXCEPT ![s.client] = @ \cup {s}]
  /\ UNCHANGED <<times, life, op_count_arr, cur_progress, client_ids, final_vec>>

RecordProgress(delta) ==
  /\ cur_progress' = cur_progress + delta
  /\ UNCHANGED <<times, life, vecs, op_count_arr, rt_op_count_arr>>

Mut_ExchangedRtCount(t) == rt_op_count_arr[t]
ExchangedRtCount(t) == 0

ExchangeRtCount(t) ==
  /\ rt_op_count_arr' = [rt_op_count_arr EXCEPT ![t] = ExchangedRtCount(t)]
  /\ UNCHANGED <<times, life, vecs, op_count_arr, cur_progress>>

-----------------------------------------------------------------------------
Mut_FinalizeVectors ==
  /\ final_vec' = [t \in OpType |-> Recorded]
  /\ UNCHANGED <<counts, times, life, client_ids, client_vec>>

(* finalize_measure: gather every client's samples, type by type, then let *)
(* the results be read.                                                    *)
FinalizeVectors ==
  /\ final_vec' = [t \in OpType |-> RecordedOf(t)]
  /\ UNCHANGED <<counts, times, life, client_ids, client_vec>>

TakeLock(who) ==
  /\ final_result_lock = "free"
  /\ final_result_lock' = who
  /\ UNCHANGED <<counts, times, vecs, finished, nr_active_client>>

ReleaseLock ==
  /\ final_result_lock' = "free"
  /\ UNCHANGED <<counts, times, vecs, finished, nr_active_client>>

CountsTypeOK ==
  /\ op_count_arr \in [OpType -> Nat]
  /\ rt_op_count_arr \in [OpType -> Nat]
  /\ cur_progress \in Nat

TimesTypeOK == start_time \in Nat /\ end_time \in Nat /\ rt_time \in 0 .. 1

LifeTypeOK ==
  /\ finished \in BOOLEAN
  /\ nr_active_client \in Int
  /\ final_result_lock \in {"main", "monitor", "free"}

VecsTypeOK ==
  /\ client_ids \subseteq Client
  /\ client_vec \in [Client -> SUBSET Sample]
  /\ final_vec \in [OpType -> SUBSET Sample]

OpMeasurementTypeOK == CountsTypeOK /\ TimesTypeOK /\ LifeTypeOK /\ VecsTypeOK
=============================================================================
