------------------------------ MODULE BenchRun ------------------------------
(***************************************************************************)
(* One call of run_workload_with_op_measurement (core/worker.cpp): the     *)
(* main thread creates the clients, starts the worker threads and the      *)
(* monitor thread, joins the workers, finalizes the measurement, joins the *)
(* monitor and destroys the clients.  worker_thread_fn and                 *)
(* monitor_thread_fn run concurrently over the shared OpMeasurement.       *)
(*                                                                         *)
(* Each step below is one access to shared state (with the thread-local    *)
(* computation around it).  An exception that leaves a thread ends the     *)
(* process (std::terminate): aborted.                                      *)
(***************************************************************************)
EXTENDS OpMeasurement

CONSTANTS NrOp,          \* how many operations each worker's Workload holds
          MaxProgress,   \* the max_progress argument
          LatencyFile    \* whether a latency file was asked for

Thread == 0 .. NrThread - 1

(* nr_op may be negative for a worker run_init_workload_with_op_measurement *)
(* leaves without keys.                                                     *)
ASSUME NrOpAssumption == NrOp \in [Thread -> Int]
ASSUME LatencyFileAssumption == LatencyFile \in BOOLEAN
(* The callers pass nr_entry, or nr_thread * nr_op: all operations there are. *)
ASSUME MaxProgressAssumption ==
  MaxProgress = Cardinality(UNION {{w} \X (1 .. NrOp[w]) : w \in Thread})

VARIABLES
  main, thread_index,          \* main thread
  wpc, cur_nr_op, op_type,     \* worker: control, Workload::cur_nr_op, op.type
  since,                       \* worker: start_time as read by record_op
  mon, mon_type,               \* monitor thread: control and loop index
  rt_reported,                 \* history: operations shown by epoch lines
  report,                      \* history: what the overall report was made of
  destroyed,                   \* clients given back to the factory
  aborted                      \* std::terminate was called

mvars == <<counts, times, life, vecs>>
mainVars == <<main, thread_index, destroyed>>
workVars == <<cur_nr_op, op_type, since>>
monVars  == <<mon, mon_type, rt_reported, report>>
vars == <<mvars, mainVars, wpc, workVars, monVars, aborted>>

WorkerPC == {"unborn", "starting", "set_start", "set_rt", "loop", "op", "check",
             "count", "count_rt", "progress", "set_finished", "set_end", "reset",
             "exited"}
MonPC    == {"unborn", "loop", "rt_check", "rt_exchange", "rt_store", "print",
             "lock", "report", "unlock", "exited"}
MainPC   == {"create", "spawn", "spawn_monitor", "join", "finalize", "unlock",
             "save", "join_monitor", "cleanup", "returned"}

Init ==
  /\ OpMeasurementInit
  /\ main = "create" /\ thread_index = 0
  /\ wpc = [w \in Thread |-> "unborn"]
  /\ cur_nr_op = [w \in Thread |-> 0]
  /\ op_type = [w \in Thread |-> 0]
  /\ since = [w \in Thread |-> 0]
  /\ mon = "unborn" /\ mon_type = 0
  /\ rt_reported = [t \in OpType |-> 0]
  /\ report = {}
  /\ destroyed = {}
  /\ aborted = FALSE

-----------------------------------------------------------------------------
(* Worker threads.                                                         *)

WorkerAt(w, from, to) ==
  /\ wpc[w] = from
  /\ wpc' = [wpc EXCEPT ![w] = to]
  /\ UNCHANGED <<mainVars, monVars, aborted>>

StartMeasure(w) ==
  /\ WorkerAt(w, "starting", IF IsLastStarter THEN "set_start" ELSE "loop")
  /\ FetchAddActive
  /\ UNCHANGED workVars

StoreStartTime(w) ==
  /\ WorkerAt(w, "set_start", "set_rt")
  /\ SetStartTime
  /\ UNCHANGED workVars

StoreRtTime(w) ==
  /\ WorkerAt(w, "set_rt", "loop")
  /\ SetRtTime
  /\ UNCHANGED workVars

HasNextOp(w) == cur_nr_op[w] < NrOp[w]

NextOp(w) ==
  /\ HasNextOp(w)
  /\ WorkerAt(w, "loop", "op")
  /\ \E t \in OpType : op_type' = [op_type EXCEPT ![w] = t]
  /\ cur_nr_op' = [cur_nr_op EXCEPT ![w] = @ + 1]
  /\ UNCHANGED <<mvars, since>>

DoOperation(w) ==
  /\ WorkerAt(w, "op", "check")
  /\ UNCHANGED <<mvars, workVars>>

Mut_RecordCheck(w) ==
  /\ WorkerAt(w, "check", IF AllActive THEN "count" ELSE "loop")
  /\ UNCHANGED <<mvars, workVars>>

RecordCheck(w) ==
  /\ WorkerAt(w, "check", IF AllActive THEN "count" ELSE "progress")
  /\ UNCHANGED <<mvars, workVars>>

(* Reads start_time and increments op_count_arr, which nobody reads before *)
(* the workers are joined.                                                 *)
RecordCount(w) ==
  /\ WorkerAt(w, "count", "count_rt")
  /\ since' = [since EXCEPT ![w] = start_time]
  /\ CountOp(op_type[w])
  /\ UNCHANGED <<cur_nr_op, op_type>>

CurrentSample(w) ==
  [client |-> w, type |-> op_type[w], op |-> cur_nr_op[w], since |-> since[w]]

Mut_RecordPush(w) ==
  /\ WorkerAt(w, "count_rt", "progress")
  /\ IF AllActive THEN CountRtAndPush(CurrentSample(w)) ELSE UNCHANGED mvars
  /\ UNCHANGED workVars

RecordPush(w) ==
  /\ WorkerAt(w, "count_rt", "progress")
  /\ CountRtAndPush(CurrentSample(w))
  /\ UNCHANGED workVars

WorkerProgress(w) ==
  /\ WorkerAt(w, "progress", "loop")
  /\ RecordProgress(1)
  /\ UNCHANGED workVars

FinishMeasure(w) ==
  /\ ~ HasNextOp(w)
  /\ WorkerAt(w, "loop", IF IsFirstFinisher THEN "set_finished" ELSE "reset")
  /\ FetchSubActive
  /\ UNCHANGED workVars

StoreFinished(w) ==
  /\ WorkerAt(w, "set_finished", "set_end")
  /\ SetFinished
  /\ UNCHANGED workVars

StoreEndTime(w) ==
  /\ WorkerAt(w, "set_end", "reset")
  /\ SetEndTime
  /\ UNCHANGED workVars

ResetClient(w) ==
  /\ WorkerAt(w, "reset", "exited")
  /\ UNCHANGED <<mvars, workVars>>

(* next_op, do_operation and reset throw on any failure, and nothing in    *)
(* the thread catches it.                                                  *)
WorkerThrows(w) ==
  /\ wpc[w] \in {"op", "reset"}
  /\ aborted' = TRUE
  /\ UNCHANGED <<mvars, mainVars, wpc, workVars, monVars>>

-----------------------------------------------------------------------------
(* Monitor thread.                                                         *)

MonitorAt(from, to) ==
  /\ mon = from
  /\ mon' = to
  /\ UNCHANGED <<mainVars, wpc, workVars, aborted>>

MonitorLoop ==
  /\ MonitorAt("loop", IF finished THEN "lock" ELSE "rt_check")
  /\ UNCHANGED <<mvars, mon_type, rt_reported, report>>

(* get_rt_throughput: zeros for every type, or exchange each counter.      *)
MonitorSeesInactive ==
  /\ ~ AllActive
  /\ MonitorAt("rt_check", "print")
  /\ UNCHANGED <<mvars, mon_type, rt_reported, report>>

MonitorSeesActive ==
  /\ AllActive
  /\ MonitorAt("rt_check", "rt_exchange")
  /\ mon_type' = 0
  /\ UNCHANGED <<mvars, rt_reported, report>>

MonitorExchange ==
  /\ MonitorAt("rt_exchange",
               IF mon_type = NrOpType - 1 THEN "rt_store" ELSE "rt_exchange")
  /\ mon_type' = IF mon_type = NrOpType - 1 THEN mon_type ELSE mon_type + 1
  /\ rt_reported' = [rt_reported EXCEPT ![mon_type] = @ + rt_op_count_arr[mon_type]]
  /\ ExchangeRtCount(mon_type)
  /\ UNCHANGED report

MonitorStoreRtTime ==
  /\ MonitorAt("rt_store", "print")
  /\ SetRtTime
  /\ UNCHANGED <<mon_type, rt_reported, report>>

(* Prints the epoch line, with the progress so far, and sleeps.            *)
MonitorPrint ==
  /\ MonitorAt("print", "loop")
  /\ UNCHANGED <<mvars, mon_type, rt_reported, report>>

MonitorLock ==
  /\ MonitorAt("lock", "report")
  /\ TakeLock("monitor")
  /\ UNCHANGED <<mon_type, rt_reported, report>>

(* Nobody writes what the report reads while the monitor holds the lock    *)
(* (ReportIsComplete), so the reads are one step.                          *)
MonitorReport ==
  /\ MonitorAt("report", "unlock")
  /\ report' = {[ops |-> op_count_arr, latencies |-> final_vec,
                 start |-> start_time, end |-> end_time]}
  /\ UNCHANGED <<mvars, mon_type, rt_reported>>

MonitorUnlock ==
  /\ MonitorAt("unlock", "exited")
  /\ ReleaseLock
  /\ UNCHANGED <<mon_type, rt_reported, report>>

-----------------------------------------------------------------------------
(* Main thread.  The for loops over thread_index start again at 0.         *)

MainAt(from, to) ==
  /\ main = from
  /\ main' = to
  /\ UNCHANGED <<workVars, aborted>>

Mut_LastIndex == thread_index = NrThread
LastIndex == thread_index = NrThread - 1

LoopStep(from, to) ==
  /\ MainAt(from, IF LastIndex THEN to ELSE from)
  /\ thread_index' = IF LastIndex THEN 0 ELSE thread_index + 1

CreateClient ==
  /\ LoopStep("create", "spawn")
  /\ EnableClient(thread_index)
  /\ UNCHANGED <<destroyed, wpc, monVars>>

SpawnWorker ==
  /\ LoopStep("spawn", "spawn_monitor")
  /\ wpc' = [wpc EXCEPT ![thread_index] = "starting"]
  /\ UNCHANGED <<mvars, destroyed, monVars>>

SpawnMonitor ==
  /\ MainAt("spawn_monitor", "join")
  /\ mon' = "loop"
  /\ UNCHANGED <<mvars, thread_index, destroyed, wpc, mon_type, rt_reported, report>>

Mut_JoinWorker ==
  /\ LoopStep("join", "finalize")
  /\ UNCHANGED <<mvars, destroyed, wpc, monVars>>

JoinWorker ==
  /\ wpc[thread_index] = "exited"
  /\ LoopStep("join", "finalize")
  /\ UNCHANGED <<mvars, destroyed, wpc, monVars>>

FinalizeMeasure ==
  /\ MainAt("finalize", "unlock")
  /\ FinalizeVectors
  /\ UNCHANGED <<thread_index, destroyed, wpc, monVars>>

PublishResult ==
  /\ MainAt("unlock", IF LatencyFile THEN "save" ELSE "join_monitor")
  /\ ReleaseLock
  /\ UNCHANGED <<thread_index, destroyed, wpc, monVars>>

SaveLatency ==
  /\ MainAt("save", "join_monitor")
  /\ UNCHANGED <<mvars, thread_index, destroyed, wpc, monVars>>

JoinMonitor ==
  /\ mon = "exited"
  /\ MainAt("join_monitor", "cleanup")
  /\ UNCHANGED <<mvars, thread_index, destroyed, wpc, monVars>>

DestroyClient ==
  /\ LoopStep("cleanup", "returned")
  /\ destroyed' = destroyed \cup {thread_index}
  /\ UNCHANGED <<mvars, wpc, monVars>>

(* create_client throws when the store cannot be reached, save_latency     *)
(* when the file cannot be opened, destroy_client when the store does not  *)
(* close the session of a WiredTigerClient.                                *)
MainThrows ==
  /\ main \in {"create", "save", "cleanup"}
  /\ aborted' = TRUE
  /\ UNCHANGED <<mvars, mainVars, wpc, workVars, monVars>>

-----------------------------------------------------------------------------
Worker(w) ==
  \/ StartMeasure(w) \/ StoreStartTime(w) \/ StoreRtTime(w)
  \/ NextOp(w) \/ DoOperation(w)
  \/ RecordCheck(w) \/ RecordCount(w) \/ RecordPush(w) \/ WorkerProgress(w)
  \/ FinishMeasure(w) \/ StoreFinished(w) \/ StoreEndTime(w) \/ ResetClient(w)

Monitor ==
  \/ MonitorLoop
  \/ MonitorSeesInactive \/ MonitorSeesActive
  \/ MonitorExchange \/ MonitorStoreRtTime \/ MonitorPrint
  \/ MonitorLock \/ MonitorReport \/ MonitorUnlock

Main ==
  \/ CreateClient \/ SpawnWorker \/ SpawnMonitor \/ JoinWorker
  \/ FinalizeMeasure \/ PublishResult \/ SaveLatency \/ JoinMonitor \/ DestroyClient

Throws == MainThrows \/ \E w \in Thread : WorkerThrows(w)

(* The process may stop here, and only here.                               *)
Terminated == main = "returned" \/ aborted
Stopped == Terminated /\ UNCHANGED vars

Next ==
  \/ ~ aborted /\ Main
  \/ ~ aborted /\ Monitor
  \/ ~ aborted /\ \E w \in Thread : Worker(w)
  \/ ~ aborted /\ Throws
  \/ Stopped

(* The operating system runs every thread that can take a step, and the    *)
(* store answers every operation (or the client throws).                   *)
Fairness ==
  /\ WF_vars(~ aborted /\ Main)
  /\ WF_vars(~ aborted /\ Monitor)
  /\ \A w \in Thread : WF_vars(~ aborted /\ Worker(w))

Spec == Init /\ [][Next]_vars
FairSpec == Spec /\ Fairness

-----------------------------------------------------------------------------
(* Properties.                                                             *)

Unstarted  == {w \in Thread : wpc[w] \in {"unborn", "starting"}}
Active     == {w \in Thread : wpc[w] \in {"set_start", "set_rt", "loop", "op",
                                         "check", "count", "count_rt", "progress"}}
AllExited  == \A w \in Thread : wpc[w] = "exited"
InFlight(t) == {w \in Thread : wpc[w] = "count_rt" /\ op_type[w] = t}

MainVarsTypeOK ==
  main \in MainPC /\ thread_index \in Thread /\ destroyed \subseteq Client

WpcTypeOK == wpc \in [Thread -> WorkerPC]

WorkVarsTypeOK ==
  /\ cur_nr_op \in [Thread -> Nat]
  /\ op_type \in [Thread -> OpType]
  /\ since \in [Thread -> Nat]

ReportRow == [ops : [OpType -> Nat], latencies : [OpType -> SUBSET Sample],
              start : Nat, end : Nat]

MonVarsTypeOK ==
  /\ mon \in MonPC /\ mon_type \in OpType
  /\ rt_reported \in [OpType -> Nat]
  /\ report \subseteq ReportRow

(* The counters, indices and vectors of worker.cpp and measurement.cpp stay*)
(* in range: no loop index runs past its array, no id is unknown.          *)
TypeOK ==
  /\ OpMeasurementTypeOK
  /\ MainVarsTypeOK /\ WpcTypeOK /\ WorkVarsTypeOK /\ MonVarsTypeOK
  /\ aborted \in BOOLEAN

(* The inductive invariant behind the properties of the run's lifecycle.   *)

FinishedWorkers == {w \in Thread : wpc[w] \in {"set_finished", "set_end", "reset",
                                              "exited"}}
(* All clients were, at some moment, active together.                      *)
Overlapped == start_time # 0 \/ \E w \in Thread : wpc[w] = "set_start"

MainInv ==
  /\ main \notin {"create", "spawn", "join", "cleanup"} => thread_index = 0
  /\ client_ids = {c \in Client : main = "create" => c < thread_index}
  /\ \A w \in Thread :
       wpc[w] = "unborn" <=> main = "create" \/ (main = "spawn" /\ w >= thread_index)
  /\ main = "join" => \A w \in Thread : w < thread_index => wpc[w] = "exited"
  /\ main \in {"finalize", "unlock", "save", "join_monitor", "cleanup", "returned"}
       => AllExited
  /\ destroyed =
       {c \in Client : main = "returned" \/ (main = "cleanup" /\ c < thread_index)}

LockInv ==
  /\ final_result_lock = "main" <=>
       main \notin {"save", "join_monitor", "cleanup", "returned"}
  /\ final_result_lock = "monitor" <=> mon \in {"report", "unlock"}
  /\ mon = "unborn" <=> main \in {"create", "spawn", "spawn_monitor"}
  /\ mon \in {"lock", "report", "unlock", "exited"} => finished
  /\ mon = "exited" => final_result_lock = "free"
  /\ report # {} <=> mon \in {"unlock", "exited"}
  /\ main \in {"cleanup", "returned"} => mon = "exited"

ActiveInv == nr_active_client = Cardinality(Active)

StartInv ==
  /\ Overlapped => Unstarted = {}
  /\ Unstarted = {} => Overlapped \/ FinishedWorkers # {}
  /\ \A w \in Thread : wpc[w] = "set_start" =>
       start_time = 0 /\ \A v \in Thread : wpc[v] = "set_start" => v = w
  /\ start_time # 0 /\ rt_time = 0 => \E w \in Thread : wpc[w] = "set_rt"
  /\ start_time = 0 => end_time <= 1
  /\ end_time = 0 => start_time <= 1
  /\ mon \in {"rt_exchange", "rt_store"} => Overlapped

EndInv ==
  /\ (finished \/ \E w \in Thread : wpc[w] \in {"set_finished", "set_end"}) => Overlapped
  /\ Overlapped /\ FinishedWorkers # {} =>
       finished \/ \E w \in Thread : wpc[w] = "set_finished"
  /\ \A w \in Thread :
       /\ wpc[w] = "set_finished" => ~ finished /\ end_time = 0
       /\ wpc[w] = "set_end" => finished /\ end_time = 0
       /\ wpc[w] \in {"set_finished", "set_end"} =>
            \A v \in Thread : wpc[v] \in {"set_finished", "set_end"} => v = w
  /\ finished => end_time # 0 \/ \E w \in Thread : wpc[w] = "set_end"
  /\ end_time # 0 => finished /\ FinishedWorkers # {}

(* Which thread holds final_result_lock, which workers nr_active_client    *)
(* counts, and who has written start_time, finished and end_time, at every *)
(* point of the three threads' code.                                       *)
LifecycleInv == MainInv /\ LockInv /\ ActiveInv /\ StartInv /\ EndInv

(* What the monitor prints as the overall result is final: by then every   *)
(* worker has exited, both ends of the measured window are written, and    *)
(* the counters behind the throughput and the latencies behind the         *)
(* percentiles are those of exactly the recorded samples (mutex taken in   *)
(* the constructor, released by finalize_measure after the joins).         *)
ReportIsComplete ==
  \A r \in report :
    /\ AllExited
    /\ r.start # 0 /\ r.end # 0
    /\ \A t \in OpType : /\ r.latencies[t] = RecordedOf(t)
                         /\ r.ops[t] = Cardinality(RecordedOf(t))

(* record_op keeps three places in step although it increments two atomics *)
(* and appends to two vectors: at any moment an operation counted but not  *)
(* yet in a vector belongs to a worker between the two.                    *)
CountsMatchSamples ==
  \A t \in OpType :
    op_count_arr[t] = Cardinality(RecordedOf(t)) + Cardinality(InFlight(t))

(* The monitor's exchange(0) loses no operation and shows none twice,      *)
(* wherever it falls between the workers' increments.                      *)
RtCountsConserved ==
  \A t \in OpType :
    rt_op_count_arr[t] + rt_reported[t] = Cardinality(RecordedOf(t))

(* A measurement is open (all clients active, or one already finished it)  *)
(* before start_time is written only while the last starter sits between   *)
(* its fetch_add and its store; only then may a timestamp be taken from an *)
(* unset start_time.  The same for rt_time and the monitor's exchange.     *)
StartWindow ==
  main # "create" =>
    /\ (AllActive \/ finished \/ end_time # 0) /\ start_time = 0 =>
         \E w \in Thread : wpc[w] = "set_start"
    /\ (AllActive \/ mon = "rt_exchange") /\ rt_time = 0 =>
         \E w \in Thread : wpc[w] \in {"set_start", "set_rt"}

(* The run that has a start has an end, and no other: when every worker    *)
(* has exited, finished is set exactly if all clients were once active     *)
(* together.  Otherwise the monitor never leaves its loop.                 *)
StartIffEnd ==
  AllExited => /\ (start_time # 0) = finished
               /\ (end_time # 0) = finished

(* Nothing is used after it is gone: a client is destroyed only once its   *)
(* thread has exited, and the measurement (a local of                      *)
(* run_workload_with_op_measurement) outlives every thread that uses it.   *)
OwnersOutlive ==
  /\ \A w \in destroyed : wpc[w] = "exited"
  /\ main = "returned" => AllExited /\ mon = "exited" /\ destroyed = Client

(* The progress shown never exceeds 100%, and is 100% when the workers are *)
(* done, although operations outside the measured window are not recorded. *)
ProgressBounded ==
  /\ cur_progress <= MaxProgress
  /\ AllExited => cur_progress = MaxProgress

(* start_time and end_time are written at most once, whichever worker      *)
(* happens to be the last to start or the first to finish, and finished is *)
(* never taken back.                                                       *)
WindowWrittenOnce ==
  [][/\ start_time # 0 => start_time' = start_time
     /\ end_time # 0 => end_time' = end_time
     /\ finished => finished']_vars

(* The run keeps the promise of MeasuredRun: its samples are those in the  *)
(* per-client vectors, closed when finalize_measure gathers them.          *)
Phase ==
  CASE aborted -> "aborted"
    [] ~ aborted /\ main = "returned" -> "returned"
    [] ~ aborted /\ main \in {"unlock", "save", "join_monitor", "cleanup"} -> "closed"
    [] OTHER -> "running"

RunSample == [client : Client, type : OpType, since : 0 .. 2,
              op : UNION {1 .. NrOp[w] : w \in Thread}]

Measured == INSTANCE MeasuredRun WITH
  Sample  <- RunSample,
  samples <- Recorded,
  phase   <- Phase,
  report  <- {[ops |-> r.ops, latencies |-> r.latencies] : r \in report}

ImplementsMeasuredRun == Measured!Spec

(* A run in which all workers are once active together comes to an end:    *)
(* finished is set, the monitor reports, and main returns.                 *)
OverlapReturns == Active = Thread ~> Terminated

(* script/wt_bench.sh:22 runs one configuration after the other, each to   *)
(* its end: run_workload_with_op_measurement always returns.               *)
RunReturns == <> Terminated
=============================================================================
