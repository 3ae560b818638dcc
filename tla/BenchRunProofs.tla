--------------------------- MODULE BenchRunProofs ---------------------------
(***************************************************************************)
(* Proofs about BenchRun, for every number of threads, of operation types  *)
(* and of operations, in three parts: the types; the lifecycle of one run, *)
(* of which LifecycleInv is the inductive invariant; and what the run      *)
(* counts, records and reports, of which DataInv is, up to the refinement  *)
(* of MeasuredRun.                                                         *)
(***************************************************************************)
EXTENDS BenchRun, FiniteSetTheorems, TLAPS

USE DEF Client, Thread, OpType

(* There is a first thread, client and operation type.                     *)
LEMMA ZeroInRange == 0 \in Thread /\ 0 \in Client /\ 0 \in OpType
  BY NrThreadAssumption, NrOpTypeAssumption

-----------------------------------------------------------------------------
(* The type invariant.                                                     *)

(* The constructor, and a run before its first step, are of the right      *)
(* types.                                                                  *)
LEMMA InitTypeOK == Init => TypeOK
<1> SUFFICES ASSUME Init PROVE TypeOK
  OBVIOUS
<1>0. CountsTypeOK /\ TimesTypeOK
  BY DEF Init, OpMeasurementInit, CountsTypeOK, TimesTypeOK
<1>1. LifeTypeOK
  <2>1. finished \in BOOLEAN /\ final_result_lock \in {"main", "monitor", "free"}
    BY Zenon DEF Init, OpMeasurementInit, HeldAtStart
  <2>2. nr_active_client \in Int
    BY DEF Init, OpMeasurementInit
  <2> QED BY <2>1, <2>2 DEF LifeTypeOK
<1>2. VecsTypeOK
  BY DEF Init, OpMeasurementInit, VecsTypeOK
<1>3. MainVarsTypeOK /\ WpcTypeOK /\ WorkVarsTypeOK
  BY ZeroInRange DEF Init, MainVarsTypeOK, WpcTypeOK, WorkVarsTypeOK, MainPC, WorkerPC
<1>4. MonVarsTypeOK /\ aborted \in BOOLEAN
  BY ZeroInRange DEF Init, MonVarsTypeOK, MonPC
<1> QED BY <1>0, <1>1, <1>2, <1>3, <1>4 DEF TypeOK, OpMeasurementTypeOK

(* A group of variables nobody touches keeps its type.                     *)
LEMMA UntouchedTypes ==
  ASSUME TypeOK
  PROVE  /\ UNCHANGED counts => CountsTypeOK'
         /\ UNCHANGED times => TimesTypeOK'
         /\ UNCHANGED life => LifeTypeOK'
         /\ UNCHANGED vecs => VecsTypeOK'
         /\ UNCHANGED mvars => OpMeasurementTypeOK'
         /\ UNCHANGED mainVars => MainVarsTypeOK'
         /\ UNCHANGED wpc => WpcTypeOK'
         /\ UNCHANGED workVars => WorkVarsTypeOK'
         /\ UNCHANGED monVars => MonVarsTypeOK'
<1> USE DEF TypeOK, OpMeasurementTypeOK
<1>1. UNCHANGED counts => CountsTypeOK'
  BY DEF counts, CountsTypeOK
<1>2. UNCHANGED times => TimesTypeOK'
  BY DEF times, TimesTypeOK
<1>3. UNCHANGED life => LifeTypeOK'
  BY DEF life, LifeTypeOK
<1>4. UNCHANGED vecs => VecsTypeOK'
  BY DEF vecs, VecsTypeOK
<1>5. UNCHANGED mvars => OpMeasurementTypeOK'
  BY <1>1, <1>2, <1>3, <1>4 DEF mvars
<1>6. UNCHANGED mainVars => MainVarsTypeOK'
  BY DEF mainVars, MainVarsTypeOK
<1>7. UNCHANGED wpc => WpcTypeOK'
  BY DEF WpcTypeOK
<1>8. UNCHANGED workVars => WorkVarsTypeOK'
  BY DEF workVars, WorkVarsTypeOK
<1>9. UNCHANGED monVars => MonVarsTypeOK'
  BY DEF monVars, MonVarsTypeOK
<1> QED BY <1>1, <1>2, <1>3, <1>4, <1>5, <1>6, <1>7, <1>8, <1>9

(* No step of worker_thread_fn leaves the types.                           *)
LEMMA WorkerTypeOK ==
  ASSUME TypeOK, NEW w \in Thread, Worker(w)
  PROVE  TypeOK'
<1>1. WpcTypeOK' /\ MainVarsTypeOK' /\ MonVarsTypeOK' /\ aborted' \in BOOLEAN
  <2>1. \E from, to \in WorkerPC : WorkerAt(w, from, to)
    BY DEF Worker, StartMeasure, StoreStartTime, StoreRtTime, NextOp, DoOperation,
           RecordCheck, RecordCount, RecordPush, WorkerProgress, FinishMeasure,
           StoreFinished, StoreEndTime, ResetClient, WorkerPC
  <2> QED BY <2>1, UntouchedTypes DEF WorkerAt, TypeOK, WpcTypeOK
<1> USE UntouchedTypes DEF TypeOK, OpMeasurementTypeOK
<1>2. CASE StartMeasure(w)
  BY <1>1, <1>2 DEF StartMeasure, FetchAddActive, LifeTypeOK
<1>3. CASE StoreStartTime(w)
  BY <1>1, <1>3 DEF StoreStartTime, SetStartTime, NextStamp, TimesTypeOK
<1>4. CASE StoreRtTime(w)
  BY <1>1, <1>4 DEF StoreRtTime, SetRtTime, TimesTypeOK
<1>5. CASE NextOp(w)
  BY <1>1, <1>5 DEF NextOp, WorkVarsTypeOK
<1>6. CASE DoOperation(w) \/ RecordCheck(w) \/ ResetClient(w)
  BY <1>1, <1>6 DEF DoOperation, RecordCheck, ResetClient
<1>7. CASE RecordCount(w)
  BY <1>1, <1>7 DEF RecordCount, CountOp, CountsTypeOK, TimesTypeOK, WorkVarsTypeOK
<1>8. CASE RecordPush(w)
  <2>1. CurrentSample(w) \in Sample
    BY DEF CurrentSample, Sample, WorkVarsTypeOK
  <2>2. CurrentSample(w).client = w /\ CurrentSample(w).type \in OpType
    BY DEF CurrentSample, WorkVarsTypeOK
  <2>3. CountsTypeOK'
    BY <1>8, <2>2 DEF RecordPush, CountRtAndPush, CountsTypeOK
  <2>4. VecsTypeOK'
    BY <1>8, <2>1, <2>2 DEF RecordPush, CountRtAndPush, VecsTypeOK
  <2> QED BY <1>1, <1>8, <2>3, <2>4 DEF RecordPush, CountRtAndPush
<1>9. CASE WorkerProgress(w)
  BY <1>1, <1>9 DEF WorkerProgress, RecordProgress, CountsTypeOK
<1>10. CASE FinishMeasure(w)
  BY <1>1, <1>10 DEF FinishMeasure, FetchSubActive, LifeTypeOK
<1>11. CASE StoreFinished(w)
  BY <1>1, <1>11 DEF StoreFinished, SetFinished, LifeTypeOK
<1>12. CASE StoreEndTime(w)
  BY <1>1, <1>12 DEF StoreEndTime, SetEndTime, NextStamp, TimesTypeOK
<1> QED
  BY <1>2, <1>3, <1>4, <1>5, <1>6, <1>7, <1>8, <1>9, <1>10, <1>11, <1>12 DEF Worker

(* No step of monitor_thread_fn leaves the types.                          *)
LEMMA MonitorTypeOK ==
  ASSUME TypeOK, Monitor
  PROVE  TypeOK'
<1>1. MainVarsTypeOK' /\ WpcTypeOK' /\ WorkVarsTypeOK' /\ aborted' \in BOOLEAN
      /\ mon' \in MonPC
  <2>1. \E from, to \in MonPC : MonitorAt(from, to)
    BY DEF Monitor, MonitorLoop, MonitorSeesInactive, MonitorSeesActive,
           MonitorExchange, MonitorStoreRtTime, MonitorPrint, MonitorLock,
           MonitorReport, MonitorUnlock, MonPC
  <2> QED BY <2>1, UntouchedTypes DEF MonitorAt, TypeOK
<1> USE UntouchedTypes DEF TypeOK, OpMeasurementTypeOK, MonVarsTypeOK
<1>2. CASE MonitorLoop \/ MonitorSeesInactive \/ MonitorPrint
  BY <1>1, <1>2 DEF MonitorLoop, MonitorSeesInactive, MonitorPrint
<1>3. CASE MonitorSeesActive
  BY <1>1, <1>3, ZeroInRange DEF MonitorSeesActive
<1>4. CASE MonitorExchange
  <2>1. mon_type' \in OpType
    BY <1>4, NrOpTypeAssumption DEF MonitorExchange
  <2>2. CountsTypeOK'
    BY <1>4 DEF MonitorExchange, ExchangeRtCount, ExchangedRtCount, CountsTypeOK
  <2>3. rt_reported' \in [OpType -> Nat]
    BY <1>4 DEF MonitorExchange, CountsTypeOK
  <2> QED BY <1>1, <1>4, <2>1, <2>2, <2>3 DEF MonitorExchange, ExchangeRtCount
<1>5. CASE MonitorStoreRtTime
  BY <1>1, <1>5 DEF MonitorStoreRtTime, SetRtTime, TimesTypeOK
<1>6. CASE MonitorLock \/ MonitorUnlock
  BY <1>1, <1>6 DEF MonitorLock, MonitorUnlock, TakeLock, ReleaseLock, LifeTypeOK
<1>7. CASE MonitorReport
  <2>1. report' \subseteq ReportRow
    BY <1>7 DEF MonitorReport, ReportRow, CountsTypeOK, TimesTypeOK, VecsTypeOK
  <2> QED BY <1>1, <1>7, <2>1 DEF MonitorReport
<1> QED
  BY <1>2, <1>3, <1>4, <1>5, <1>6, <1>7 DEF Monitor

(* No step of the main thread leaves the types.                            *)
LEMMA MainTypeOK ==
  ASSUME TypeOK, Main
  PROVE  TypeOK'
<1>1. WorkVarsTypeOK' /\ aborted' \in BOOLEAN /\ main' \in MainPC
  <2>1. \E from, to \in MainPC : MainAt(from, to)
    BY DEF Main, LoopStep, CreateClient, SpawnWorker, SpawnMonitor, JoinWorker,
           FinalizeMeasure, PublishResult, SaveLatency, JoinMonitor, DestroyClient,
           MainPC
  <2> QED BY <2>1, UntouchedTypes DEF MainAt, TypeOK
<1>2. ASSUME NEW from, NEW to, LoopStep(from, to) PROVE thread_index' \in Thread
  BY <1>2, NrThreadAssumption DEF LoopStep, LastIndex, TypeOK, MainVarsTypeOK
<1> USE UntouchedTypes DEF TypeOK, OpMeasurementTypeOK, MainVarsTypeOK
<1>3. CASE CreateClient
  BY <1>1, <1>2, <1>3 DEF CreateClient, EnableClient, VecsTypeOK
<1>4. CASE SpawnWorker
  BY <1>1, <1>2, <1>4 DEF SpawnWorker, WpcTypeOK, WorkerPC
<1>5. CASE SpawnMonitor
  BY <1>1, <1>5 DEF SpawnMonitor, MonVarsTypeOK, MonPC
<1>6. CASE JoinWorker
  BY <1>1, <1>2, <1>6 DEF JoinWorker
<1>7. CASE FinalizeMeasure
  <2>1. VecsTypeOK'
    BY <1>7 DEF FinalizeMeasure, FinalizeVectors, RecordedOf, Recorded, VecsTypeOK
  <2> QED BY <1>1, <1>7, <2>1 DEF FinalizeMeasure, FinalizeVectors
<1>8. CASE PublishResult
  BY <1>1, <1>8 DEF PublishResult, ReleaseLock, LifeTypeOK
<1>9. CASE SaveLatency \/ JoinMonitor
  BY <1>1, <1>9 DEF SaveLatency, JoinMonitor
<1>10. CASE DestroyClient
  BY <1>1, <1>2, <1>10 DEF DestroyClient
<1> QED
  BY <1>3, <1>4, <1>5, <1>6, <1>7, <1>8, <1>9, <1>10 DEF Main

(* Every variable keeps its type in every run, whatever the number of      *)
(* threads, types and operations.                                          *)
THEOREM TypeCorrect == Spec => []TypeOK
<1>1. TypeOK /\ [Next]_vars => TypeOK'
  <2> SUFFICES ASSUME TypeOK, [Next]_vars PROVE TypeOK'
    OBVIOUS
  <2>1. CASE Main
    BY <2>1, MainTypeOK
  <2>2. CASE Monitor
    BY <2>2, MonitorTypeOK
  <2>3. ASSUME NEW w \in Thread, Worker(w) PROVE TypeOK'
    BY <2>3, WorkerTypeOK
  <2>4. CASE Throws
    BY <2>4, UntouchedTypes DEF Throws, MainThrows, WorkerThrows, TypeOK
  <2>5. CASE UNCHANGED vars
    BY <2>5, UntouchedTypes DEF vars, TypeOK
  <2> QED BY <2>1, <2>2, <2>3, <2>4, <2>5 DEF Next, Stopped
<1> QED BY InitTypeOK, <1>1, PTL DEF Spec

-----------------------------------------------------------------------------
(***************************************************************************)
(* Second part: the lifecycle of one run.                                  *)
(***************************************************************************)

(* What a step of each kind of thread leaves alone.                        *)

(* A worker thread leaves main, the monitor, the mutex and the clients     *)
(* alone.                                                                  *)
LEMMA WorkerFrame ==
  ASSUME TypeOK, NEW w \in Thread, Worker(w)
  PROVE  /\ wpc[w] \notin {"unborn", "exited"}
         /\ \E to \in WorkerPC \ {"unborn", "starting"} : wpc' = [wpc EXCEPT ![w] = to]
         /\ UNCHANGED <<main, thread_index, destroyed, client_ids, final_result_lock>>
         /\ UNCHANGED <<mon, report>>
         /\ finished => finished'
<1> USE DEF WorkerAt, mainVars, monVars, mvars, counts, times, life, vecs, WorkerPC
<1>1. CASE StartMeasure(w)
  <2>1. CASE IsLastStarter
    BY <1>1, <2>1 DEF StartMeasure, FetchAddActive
  <2>2. CASE ~ IsLastStarter
    BY <1>1, <2>2 DEF StartMeasure, FetchAddActive
  <2> QED BY <2>1, <2>2
<1>2. CASE StoreStartTime(w) \/ StoreRtTime(w)
  BY <1>2 DEF StoreStartTime, StoreRtTime, SetStartTime, SetRtTime
<1>3. CASE NextOp(w) \/ DoOperation(w) \/ RecordCheck(w) \/ ResetClient(w)
  BY <1>3 DEF NextOp, DoOperation, RecordCheck, ResetClient
<1>4. CASE RecordCount(w) \/ RecordPush(w) \/ WorkerProgress(w)
  BY <1>4 DEF RecordCount, RecordPush, WorkerProgress, CountOp, CountRtAndPush,
              RecordProgress
<1>5. CASE FinishMeasure(w)
  BY <1>5 DEF FinishMeasure, FetchSubActive
<1>6. CASE StoreFinished(w)
  BY <1>6 DEF StoreFinished, SetFinished
<1>7. CASE StoreEndTime(w)
  BY <1>7 DEF StoreEndTime, SetEndTime
<1> QED BY <1>1, <1>2, <1>3, <1>4, <1>5, <1>6, <1>7 DEF Worker

(* The monitor thread leaves the workers and both ends of the window       *)
(* alone.                                                                  *)
LEMMA MonitorFrame ==
  ASSUME Monitor
  PROVE  UNCHANGED <<main, thread_index, destroyed, client_ids, wpc, finished,
                     start_time, end_time, nr_active_client>>
<1> USE DEF MonitorAt, mainVars, mvars, counts, times, life, vecs
<1>1. CASE MonitorLoop \/ MonitorSeesInactive \/ MonitorSeesActive
  BY <1>1 DEF MonitorLoop, MonitorSeesInactive, MonitorSeesActive
<1>2. CASE MonitorExchange \/ MonitorStoreRtTime \/ MonitorPrint
  BY <1>2 DEF MonitorExchange, MonitorStoreRtTime, MonitorPrint, ExchangeRtCount,
              SetRtTime
<1>3. CASE MonitorLock \/ MonitorReport \/ MonitorUnlock
  BY <1>3 DEF MonitorLock, MonitorReport, MonitorUnlock, TakeLock, ReleaseLock
<1> QED BY <1>1, <1>2, <1>3 DEF Monitor

(* The main thread writes neither end of the window.                       *)
LEMMA MainFrame ==
  ASSUME Main
  PROVE  UNCHANGED <<finished, start_time, end_time, rt_time, nr_active_client>>
<1> USE DEF LoopStep, MainAt, mvars, counts, times, life, vecs
<1>1. CASE CreateClient \/ SpawnWorker \/ SpawnMonitor \/ JoinWorker
  BY <1>1 DEF CreateClient, SpawnWorker, SpawnMonitor, JoinWorker, EnableClient
<1>2. CASE FinalizeMeasure \/ PublishResult
  BY <1>2 DEF FinalizeMeasure, PublishResult, FinalizeVectors, ReleaseLock
<1>3. CASE SaveLatency \/ JoinMonitor \/ DestroyClient
  BY <1>3 DEF SaveLatency, JoinMonitor, DestroyClient
<1> QED BY <1>1, <1>2, <1>3 DEF Main

(* An exception, or no step, changes nothing but aborted.                  *)
LEMMA ThrowsFrame ==
  ASSUME Throws \/ UNCHANGED vars
  PROVE  UNCHANGED <<mvars, mainVars, wpc, workVars, monVars>>
BY DEF Throws, MainThrows, WorkerThrows, vars

-----------------------------------------------------------------------------
(* The main thread's loops.                                                *)

(* MainInv is preserved by every step.                                     *)
LEMMA MainInvStep ==
  ASSUME TypeOK, MainInv, [Next]_vars
  PROVE  MainInv'
<1> USE DEF TypeOK, MainVarsTypeOK, WpcTypeOK
<1>1. ASSUME NEW w \in Thread, Worker(w) PROVE MainInv'
  <2>1. PICK to \in WorkerPC \ {"unborn", "starting"} : wpc' = [wpc EXCEPT ![w] = to]
    BY <1>1, WorkerFrame
  <2>2. wpc[w] \notin {"unborn", "exited"} /\ wpc'[w] # "unborn"
        /\ \A v \in Thread \ {w} : wpc'[v] = wpc[v]
    BY <1>1, <2>1, WorkerFrame
  <2>3. UNCHANGED <<main, thread_index, destroyed, client_ids>>
    BY <1>1, WorkerFrame
  <2> QED BY <2>2, <2>3 DEF MainInv, AllExited
<1>2. CASE Monitor
  <2>1. UNCHANGED <<main, thread_index, destroyed, client_ids, wpc>>
    BY <1>2, MonitorFrame
  <2> QED BY <2>1 DEF MainInv, AllExited
<1>3. CASE Throws \/ UNCHANGED vars
  <2>1. UNCHANGED <<main, thread_index, destroyed, client_ids, wpc>>
    BY <1>3, ThrowsFrame DEF mvars, vecs, mainVars
  <2> QED BY <2>1 DEF MainInv, AllExited
<1>4. CASE CreateClient
  BY <1>4, NrThreadAssumption
     DEF CreateClient, EnableClient, LoopStep, LastIndex, MainAt, MainInv, AllExited
<1>5. CASE SpawnWorker
  <2> USE <1>5 DEF SpawnWorker, LoopStep, LastIndex, MainAt
  <2>1. UNCHANGED <<client_ids, destroyed>>
    BY DEF mvars, vecs
  <2>2. \A w \in Thread : wpc'[w] = IF w = thread_index THEN "starting" ELSE wpc[w]
    OBVIOUS
  <2>3. main = "spawn" /\ main' = IF thread_index = NrThread - 1 THEN "spawn_monitor" ELSE "spawn"
    OBVIOUS
  <2>4. thread_index' = IF thread_index = NrThread - 1 THEN 0 ELSE thread_index + 1
    OBVIOUS
  <2> HIDE <1>5
  <2>5. \A w \in Thread :
          wpc'[w] = "unborn" <=> main' = "create" \/ (main' = "spawn" /\ w >= thread_index')
    BY <2>2, <2>3, <2>4, NrThreadAssumption DEF MainInv
  <2>6. /\ client_ids' = {c \in Client : main' = "create" => c < thread_index'}
        /\ destroyed' = {c \in Client : main' = "returned" \/ (main' = "cleanup" /\ c < thread_index')}
    BY <2>1, <2>3 DEF MainInv
  <2> QED BY <2>3, <2>4, <2>5, <2>6 DEF MainInv
<1>6. ASSUME UNCHANGED <<client_ids, destroyed, wpc>>,
             main \in {"spawn_monitor", "join"}, main' \in {"join", "finalize"},
             main' = "join" => \A w \in Thread : w < thread_index' => wpc[w] = "exited",
             main' = "finalize" => thread_index' = 0 /\ AllExited
      PROVE  MainInv'
  <2>1. /\ client_ids' = {c \in Client : main' = "create" => c < thread_index'}
        /\ destroyed' = {c \in Client : main' = "returned" \/ (main' = "cleanup" /\ c < thread_index')}
    BY <1>6 DEF MainInv
  <2>2. \A w \in Thread : wpc'[w] # "unborn"
    BY <1>6 DEF MainInv
  <2>3. AllExited' <=> AllExited
    BY <1>6 DEF AllExited
  <2> QED BY <1>6, <2>1, <2>2, <2>3 DEF MainInv
<1>7. CASE SpawnMonitor \/ JoinWorker
  <2>1. UNCHANGED <<client_ids, destroyed, wpc>>
    BY <1>7 DEF SpawnMonitor, JoinWorker, LoopStep, MainAt, mvars, vecs
  <2>2. CASE SpawnMonitor
    <3>1. main = "spawn_monitor" /\ main' = "join" /\ thread_index' = thread_index
      BY <2>2 DEF SpawnMonitor, MainAt
    <3>2. \A w \in Thread : ~ w < thread_index
      BY <3>1 DEF MainInv
    <3> QED BY <1>6, <2>1, <3>1, <3>2
  <2>3. CASE JoinWorker
    <3> USE <2>3 DEF JoinWorker, LoopStep, LastIndex, MainAt
    <3>1. main = "join" /\ main' \in {"join", "finalize"}
      OBVIOUS
    <3>2. \A w \in Thread : w <= thread_index => wpc[w] = "exited"
      BY <3>1 DEF MainInv
    <3>3. main' = "join" => thread_index' = thread_index + 1
      OBVIOUS
    <3>4. main' = "finalize" => thread_index = NrThread - 1 /\ thread_index' = 0
      OBVIOUS
    <3> QED BY <1>6, <2>1, <3>1, <3>2, <3>3, <3>4 DEF AllExited
  <2> QED BY <1>7, <2>2, <2>3
<1>8. CASE FinalizeMeasure \/ PublishResult \/ SaveLatency \/ JoinMonitor
  <2>1. UNCHANGED <<client_ids, destroyed, wpc, thread_index>>
    BY <1>8 DEF FinalizeMeasure, PublishResult, SaveLatency, JoinMonitor,
                FinalizeVectors, ReleaseLock, mvars, vecs, MainAt
  <2>2. /\ main \in {"finalize", "unlock", "save", "join_monitor"}
        /\ main' \in {"unlock", "save", "join_monitor", "cleanup"}
    BY <1>8 DEF FinalizeMeasure, PublishResult, SaveLatency, JoinMonitor, MainAt
  <2>3. thread_index' = 0 /\ AllExited
    BY <2>1, <2>2 DEF MainInv
  <2> HIDE <1>8
  <2>4. client_ids' = {c \in Client : main' = "create" => c < thread_index'}
    BY <2>1, <2>2 DEF MainInv
  <2>5. destroyed' = {c \in Client : main' = "returned" \/ (main' = "cleanup" /\ c < thread_index')}
    BY <2>1, <2>2, <2>3 DEF MainInv
  <2>6. \A w \in Thread : wpc'[w] = "exited"
    BY <2>1, <2>3 DEF AllExited
  <2> QED BY <2>2, <2>3, <2>4, <2>5, <2>6 DEF MainInv, AllExited
<1>9. CASE DestroyClient
  <2> USE <1>9 DEF DestroyClient, LoopStep, LastIndex, MainAt
  <2>1. UNCHANGED <<client_ids, wpc>>
    BY DEF mvars, vecs
  <2>2. main = "cleanup" /\ AllExited
    BY DEF MainInv
  <2>3. main' \in {"cleanup", "returned"} /\ (main' = "returned" => thread_index' = 0)
    OBVIOUS
  <2>4. client_ids' = {c \in Client : main' = "create" => c < thread_index'}
    BY <2>1, <2>2, <2>3 DEF MainInv
  <2>5. destroyed' = {c \in Client : main' = "returned" \/ (main' = "cleanup" /\ c < thread_index')}
    BY <2>2, NrThreadAssumption DEF MainInv
  <2>6. \A w \in Thread : wpc'[w] = "exited"
    BY <2>1, <2>2 DEF AllExited
  <2> QED BY <2>2, <2>3, <2>4, <2>5, <2>6 DEF MainInv, AllExited
<1> QED
  BY <1>1, <1>2, <1>3, <1>4, <1>5, <1>6, <1>7, <1>8, <1>9
     DEF Next, Main, Stopped

(* LockInv is preserved by every step.                                     *)
LEMMA LockInvStep ==
  ASSUME TypeOK, MainInv, LockInv, [Next]_vars
  PROVE  LockInv'
<1> USE DEF LockInv
<1>1. ASSUME NEW w \in Thread, Worker(w) PROVE LockInv'
  BY <1>1, WorkerFrame
<1>2. CASE Throws \/ UNCHANGED vars
  BY <1>2, ThrowsFrame DEF mvars, life, mainVars, monVars
<1>3. CASE Monitor
  <2>1. UNCHANGED <<main, finished>>
    BY <1>3, MonitorFrame
  <2>2. CASE MonitorLoop \/ MonitorSeesInactive \/ MonitorSeesActive
             \/ MonitorExchange \/ MonitorStoreRtTime \/ MonitorPrint
    <3>1. /\ mon \in {"loop", "rt_check", "rt_exchange", "rt_store", "print"}
          /\ mon' \in {"loop", "rt_check", "rt_exchange", "rt_store", "print", "lock"}
          /\ mon' = "lock" => finished
      BY <2>2 DEF MonitorLoop, MonitorSeesInactive, MonitorSeesActive,
             MonitorExchange, MonitorStoreRtTime, MonitorPrint, MonitorAt
    <3>2. UNCHANGED <<final_result_lock, report>>
      BY <2>2 DEF MonitorLoop, MonitorSeesInactive, MonitorSeesActive,
             MonitorExchange, MonitorStoreRtTime, MonitorPrint, ExchangeRtCount,
             SetRtTime, mvars, life
    <3> QED BY <2>1, <3>1, <3>2
  <2>3. CASE MonitorLock
    <3>1. /\ mon = "lock" /\ mon' = "report" /\ UNCHANGED report
          /\ final_result_lock = "free" /\ final_result_lock' = "monitor"
      BY <2>3 DEF MonitorLock, TakeLock, MonitorAt
    <3> QED BY <2>1, <3>1
  <2>4. CASE MonitorReport
    <3>1. /\ mon = "report" /\ mon' = "unlock" /\ report' # {}
          /\ UNCHANGED final_result_lock
      BY <2>4 DEF MonitorReport, MonitorAt, mvars, life
    <3> QED BY <2>1, <3>1
  <2>5. CASE MonitorUnlock
    <3>1. /\ mon = "unlock" /\ mon' = "exited" /\ UNCHANGED report
          /\ final_result_lock' = "free"
      BY <2>5 DEF MonitorUnlock, MonitorAt, ReleaseLock
    <3> QED BY <2>1, <3>1
  <2> QED BY <1>3, <2>2, <2>3, <2>4, <2>5 DEF Monitor
<1>4. CASE Main
  <2>1. UNCHANGED finished
    BY <1>4, MainFrame
  <2>2. CASE CreateClient \/ SpawnWorker
    <3>1. /\ main \in {"create", "spawn"} /\ main' \in {"create", "spawn", "spawn_monitor"}
          /\ UNCHANGED <<mon, report, final_result_lock>>
      BY <2>2 DEF CreateClient, SpawnWorker, LoopStep, MainAt, EnableClient, monVars,
                  mvars, life
    <3> QED BY <2>1, <3>1
  <2>3. CASE SpawnMonitor
    <3>1. /\ main = "spawn_monitor" /\ main' = "join" /\ mon' = "loop"
          /\ UNCHANGED <<report, final_result_lock>>
      BY <2>3 DEF SpawnMonitor, MainAt, mvars, life
    <3> QED BY <2>1, <3>1
  <2>4. CASE JoinWorker \/ FinalizeMeasure
    <3>1. /\ main \in {"join", "finalize"} /\ main' \in {"join", "finalize", "unlock"}
          /\ UNCHANGED <<mon, report, final_result_lock>>
      BY <2>4 DEF JoinWorker, FinalizeMeasure, FinalizeVectors, LoopStep, MainAt,
                  monVars, mvars, life
    <3> QED BY <2>1, <3>1
  <2>5. CASE PublishResult
    <3>1. /\ main = "unlock" /\ main' \in {"save", "join_monitor"}
          /\ final_result_lock' = "free" /\ UNCHANGED <<mon, report>>
      BY <2>5 DEF PublishResult, ReleaseLock, MainAt, monVars
    <3> QED BY <2>1, <3>1
  <2>6. CASE SaveLatency
    <3>1. /\ main = "save" /\ main' = "join_monitor"
          /\ UNCHANGED <<mon, report, final_result_lock>>
      BY <2>6 DEF SaveLatency, MainAt, monVars, mvars, life
    <3> QED BY <2>1, <3>1
  <2>7. CASE JoinMonitor \/ DestroyClient
    <3>1. /\ main \in {"join_monitor", "cleanup"} /\ main' \in {"cleanup", "returned"}
          /\ main = "join_monitor" => mon = "exited"
          /\ UNCHANGED <<mon, report, final_result_lock>>
      BY <2>7 DEF JoinMonitor, DestroyClient, LoopStep, MainAt, monVars, mvars, life
    <3> QED BY <2>1, <3>1
  <2> QED BY <1>4, <2>2, <2>3, <2>4, <2>5, <2>6, <2>7 DEF Main
<1> QED BY <1>1, <1>2, <1>3, <1>4 DEF Next, Stopped

-----------------------------------------------------------------------------
(* Counting the active workers.                                            *)

(* Sets of threads can be counted, and only the set of all has NrThread.   *)
LEMMA ThreadsAreFinite ==
  /\ IsFiniteSet(Thread) /\ Cardinality(Thread) = NrThread
  /\ \A S \in SUBSET Thread :
       /\ IsFiniteSet(S) /\ Cardinality(S) \in Nat
       /\ Cardinality(S) = NrThread => S = Thread
<1>1. IsFiniteSet(Thread) /\ Cardinality(Thread) = NrThread
  BY FS_Interval, NrThreadAssumption
<1>2. ASSUME NEW S \in SUBSET Thread
      PROVE  /\ IsFiniteSet(S) /\ Cardinality(S) \in Nat
             /\ Cardinality(S) = NrThread => S = Thread
  BY <1>1, FS_Subset, FS_CardinalityType
<1> QED BY <1>1, <1>2

(* The counter follows the set of active workers through every step.       *)
LEMMA ActiveInvStep ==
  ASSUME TypeOK, MainInv, ActiveInv, [Next]_vars
  PROVE  ActiveInv'
<1> USE DEF TypeOK, WpcTypeOK
<1>0. Active \in SUBSET Thread
  BY DEF Active
<1>1. ASSUME NEW w \in Thread, Worker(w) PROVE ActiveInv'
  <2>1. CASE StartMeasure(w)
    <3>1. nr_active_client' = nr_active_client + 1
      BY <2>1 DEF StartMeasure, FetchAddActive
    <3>2. /\ wpc[w] = "starting" /\ wpc'[w] \in {"set_start", "loop"}
          /\ \A v \in Thread \ {w} : wpc'[v] = wpc[v]
      BY <2>1 DEF StartMeasure, WorkerAt
    <3>3. w \notin Active /\ Active' = Active \cup {w}
      BY <3>2 DEF Active
    <3> QED BY <1>0, <3>1, <3>3, ThreadsAreFinite, FS_AddElement DEF ActiveInv
  <2>2. CASE FinishMeasure(w)
    <3>1. nr_active_client' = nr_active_client - 1
      BY <2>2 DEF FinishMeasure, FetchSubActive
    <3>2. /\ wpc[w] = "loop" /\ wpc'[w] \in {"set_finished", "reset"}
          /\ \A v \in Thread \ {w} : wpc'[v] = wpc[v]
      BY <2>2 DEF FinishMeasure, WorkerAt
    <3>3. w \in Active /\ Active' = Active \ {w}
      BY <3>2 DEF Active
    <3> QED BY <1>0, <3>1, <3>3, ThreadsAreFinite, FS_RemoveElement DEF ActiveInv
  <2>3. CASE StoreFinished(w) \/ StoreEndTime(w) \/ ResetClient(w)
    <3>1. nr_active_client' = nr_active_client
      BY <2>3 DEF StoreFinished, StoreEndTime, ResetClient, SetFinished, SetEndTime,
                  mvars, life
    <3>2. /\ wpc[w] \in {"set_finished", "set_end", "reset"}
          /\ wpc'[w] \in {"set_end", "reset", "exited"}
          /\ \A v \in Thread \ {w} : wpc'[v] = wpc[v]
      BY <2>3 DEF StoreFinished, StoreEndTime, ResetClient, WorkerAt
    <3>3. Active' = Active
      BY <3>2 DEF Active
    <3> QED BY <3>1, <3>3 DEF ActiveInv
  <2>4. CASE \/ StoreStartTime(w) \/ StoreRtTime(w) \/ NextOp(w) \/ DoOperation(w)
             \/ RecordCheck(w) \/ RecordCount(w) \/ RecordPush(w) \/ WorkerProgress(w)
    <3>1. nr_active_client' = nr_active_client
      BY <2>4 DEF StoreStartTime, StoreRtTime, NextOp, DoOperation, RecordCheck,
                  RecordCount, RecordPush, WorkerProgress, SetStartTime, SetRtTime,
                  CountOp, CountRtAndPush, RecordProgress, mvars, life
    <3>2. /\ w \in Active
          /\ wpc'[w] \in {"set_rt", "loop", "op", "check", "count", "count_rt", "progress"}
          /\ \A v \in Thread \ {w} : wpc'[v] = wpc[v]
      BY <2>4 DEF StoreStartTime, StoreRtTime, NextOp, DoOperation, RecordCheck,
                  RecordCount, RecordPush, WorkerProgress, WorkerAt, Active
    <3>3. Active' = Active
      BY <3>2 DEF Active
    <3> QED BY <3>1, <3>3 DEF ActiveInv
  <2> QED BY <1>1, <2>1, <2>2, <2>3, <2>4 DEF Worker
<1>2. CASE Monitor
  BY <1>2, MonitorFrame DEF ActiveInv, Active
<1>3. CASE Throws \/ UNCHANGED vars
  BY <1>3, ThrowsFrame DEF ActiveInv, Active, mvars, life
<1>4. CASE Main
  <2>1. UNCHANGED nr_active_client
    BY <1>4, MainFrame
  <2>2. CASE SpawnWorker
    <3>1. main = "spawn" /\ thread_index \in Thread
      BY <2>2 DEF SpawnWorker, LoopStep, MainAt, MainVarsTypeOK
    <3>2. wpc[thread_index] = "unborn" /\ wpc' = [wpc EXCEPT ![thread_index] = "starting"]
      BY <2>2, <3>1 DEF SpawnWorker, MainInv
    <3>3. Active' = Active
      BY <3>1, <3>2 DEF Active
    <3> QED BY <2>1, <3>3 DEF ActiveInv
  <2>3. CASE ~ SpawnWorker
    <3>1. UNCHANGED wpc
      BY <1>4, <2>3 DEF Main, CreateClient, SpawnMonitor, JoinWorker, FinalizeMeasure,
                        PublishResult, SaveLatency, JoinMonitor, DestroyClient
    <3> QED BY <2>1, <3>1 DEF ActiveInv, Active
  <2> QED BY <2>2, <2>3
<1> QED BY <1>1, <1>2, <1>3, <1>4 DEF Next, Stopped

-----------------------------------------------------------------------------
(* The measured window.                                                    *)

(* The counter the last starter and the first finisher test says whether   *)
(* all workers, or all but one, are active.                                *)
LEMMA ActiveCount ==
  ASSUME TypeOK, MainInv, ActiveInv, main # "create"
  PROVE  /\ TotalNrClient = NrThread
         /\ AllActive <=> Active = Thread
         /\ IsFirstFinisher <=> Active = Thread
         /\ \A w \in Thread \ Active : IsLastStarter <=> Active \cup {w} = Thread
<1>1. client_ids = Thread
  BY DEF MainInv
<1>2. TotalNrClient = NrThread
  BY <1>1, ThreadsAreFinite DEF TotalNrClient
<1>3. /\ Active \in SUBSET Thread
      /\ nr_active_client = Cardinality(Active)
  BY DEF Active, ActiveInv
<1>4. nr_active_client = NrThread <=> Active = Thread
  BY <1>3, ThreadsAreFinite
<1>5. ASSUME NEW w \in Thread \ Active
      PROVE  nr_active_client = NrThread - 1 <=> Active \cup {w} = Thread
  <2>1. Cardinality(Active \cup {w}) = nr_active_client + 1
    BY <1>3, ThreadsAreFinite, FS_AddElement
  <2>2. Active \cup {w} \in SUBSET Thread
    BY <1>3
  <2>3. Cardinality(Active \cup {w}) = NrThread <=> Active \cup {w} = Thread
    BY <2>2, ThreadsAreFinite
  <2> QED BY <2>1, <2>3, <1>3, ThreadsAreFinite, NrThreadAssumption
<1> QED BY <1>2, <1>4, <1>5 DEF AllActive, IsFirstFinisher, IsLastStarter

(* A step that moves workers only between control points the window does   *)
(* not depend on keeps the invariant.                                      *)
QuietMove(v) ==
  \/ wpc'[v] = wpc[v]
  \/ {wpc[v], wpc'[v]} \subseteq {"loop", "op", "check", "count", "count_rt", "progress"}
  \/ {wpc[v], wpc'[v]} \subseteq {"reset", "exited"}
  \/ {wpc[v], wpc'[v]} \subseteq {"unborn", "starting"}

(* A step that moves no worker across a point StartInv and EndInv speak of *)
(* keeps both.                                                             *)
LEMMA QuietStep ==
  ASSUME TypeOK, StartInv, EndInv,
         UNCHANGED <<start_time, end_time, finished>>,
         rt_time' = rt_time \/ rt_time' = 1,
         \A v \in Thread : QuietMove(v),
         mon' \in {"rt_exchange", "rt_store"} => Overlapped
  PROVE  StartInv' /\ EndInv'
<1>1. \A v \in Thread :
        /\ wpc'[v] \in {"unborn", "starting"} <=> wpc[v] \in {"unborn", "starting"}
        /\ wpc'[v] \in {"set_finished", "set_end", "reset", "exited"}
             <=> wpc[v] \in {"set_finished", "set_end", "reset", "exited"}
        /\ wpc'[v] = "set_start" <=> wpc[v] = "set_start"
        /\ wpc'[v] = "set_rt" <=> wpc[v] = "set_rt"
        /\ wpc'[v] = "set_finished" <=> wpc[v] = "set_finished"
        /\ wpc'[v] = "set_end" <=> wpc[v] = "set_end"
  BY DEF QuietMove
<1>2. /\ Unstarted' = Unstarted /\ FinishedWorkers' = FinishedWorkers
      /\ Overlapped' <=> Overlapped
  BY <1>1 DEF Unstarted, FinishedWorkers, Overlapped
<1>3. StartInv'
  BY <1>1, <1>2 DEF StartInv
<1>4. EndInv'
  BY <1>1, <1>2 DEF EndInv
<1> QED BY <1>3, <1>4

(* A step of a worker keeps what is said of the ends of the window.        *)
LEMMA WorkerWindowStep ==
  ASSUME TypeOK, MainInv, ActiveInv, StartInv, EndInv, NEW w \in Thread, Worker(w)
  PROVE  StartInv' /\ EndInv'
<1> USE DEF TypeOK, WpcTypeOK
<1>1. main # "create" /\ UNCHANGED mon
  BY WorkerFrame DEF MainInv
<1>2. /\ TotalNrClient = NrThread
      /\ IsFirstFinisher <=> Active = Thread
      /\ w \notin Active => (IsLastStarter <=> Active \cup {w} = Thread)
  BY <1>1, ActiveCount
<1>3. CASE StartMeasure(w)
  <2>1. UNCHANGED <<start_time, end_time, finished, rt_time>>
    BY <1>3 DEF StartMeasure, FetchAddActive, times
  <2>2. /\ wpc[w] = "starting" /\ \A v \in Thread \ {w} : wpc'[v] = wpc[v]
        /\ wpc'[w] = IF IsLastStarter THEN "set_start" ELSE "loop"
    BY <1>3 DEF StartMeasure, WorkerAt
  <2>3. w \in Unstarted /\ w \notin Active
    BY <2>2 DEF Unstarted, Active
  <2>4. ~ Overlapped /\ ~ finished /\ end_time = 0 /\ start_time = 0
    BY <2>3 DEF StartInv, EndInv, Overlapped
  <2>5. \A v \in Thread : wpc[v] \notin {"set_start", "set_finished", "set_end"}
    BY <2>4 DEF Overlapped, EndInv
  <2>6. CASE IsLastStarter
    <3>1. \A v \in Thread \ {w} : v \in Active
      BY <1>2, <2>3, <2>6
    <3>2. Unstarted' = {} /\ FinishedWorkers' = {} /\ Overlapped'
      BY <2>2, <2>6, <3>1 DEF Unstarted, FinishedWorkers, Active, Overlapped
    <3>3. StartInv'
      BY <1>1, <2>1, <2>2, <2>4, <2>5, <2>6, <3>2 DEF StartInv
    <3>4. EndInv'
      BY <2>1, <2>2, <2>4, <2>5, <2>6, <3>2 DEF EndInv
    <3> QED BY <3>3, <3>4
  <2>7. CASE ~ IsLastStarter
    <3>1. PICK v \in Thread \ {w} : v \notin Active
      BY <1>2, <2>3, <2>7 DEF Active
    <3>2. Unstarted' = {} => v \in FinishedWorkers'
      BY <2>2, <3>1 DEF Unstarted, FinishedWorkers, Active, WorkerPC
    <3>3. ~ Overlapped'
      BY <2>1, <2>2, <2>4, <2>5, <2>7 DEF Overlapped
    <3>4. StartInv'
      BY <1>1, <2>1, <2>2, <2>4, <2>5, <2>7, <3>2, <3>3 DEF StartInv
    <3>5. EndInv'
      BY <2>1, <2>2, <2>4, <2>5, <2>7, <3>3 DEF EndInv
    <3> QED BY <3>4, <3>5
  <2> QED BY <2>6, <2>7
<1>4. CASE StoreStartTime(w)
  <2>1. UNCHANGED <<end_time, finished, rt_time>> /\ start_time' = NextStamp
    BY <1>4 DEF StoreStartTime, SetStartTime, life
  <2>2. /\ wpc[w] = "set_start" /\ \A v \in Thread \ {w} : wpc'[v] = wpc[v]
        /\ wpc'[w] = "set_rt"
    BY <1>4 DEF StoreStartTime, WorkerAt
  <2>3. start_time = 0 /\ \A v \in Thread : wpc[v] = "set_start" => v = w
    BY <2>2 DEF StartInv
  <2>4. start_time' # 0 /\ (end_time = 0 => start_time' = 1)
    BY <2>1, <2>3 DEF NextStamp, OpMeasurementTypeOK, TimesTypeOK
  <2>5. /\ Unstarted' = Unstarted /\ FinishedWorkers' = FinishedWorkers
        /\ Overlapped /\ Overlapped'
    BY <2>2, <2>4 DEF Unstarted, FinishedWorkers, Overlapped
  <2>6. StartInv'
    BY <1>1, <2>1, <2>2, <2>3, <2>4, <2>5 DEF StartInv
  <2>7. EndInv'
    BY <2>1, <2>2, <2>4, <2>5 DEF EndInv
  <2> QED BY <2>6, <2>7
<1>5. CASE StoreRtTime(w)
  <2>1. UNCHANGED <<start_time, end_time, finished>> /\ rt_time' = 1
    BY <1>5 DEF StoreRtTime, SetRtTime, life
  <2>2. /\ wpc[w] = "set_rt" /\ \A v \in Thread \ {w} : wpc'[v] = wpc[v]
        /\ wpc'[w] = "loop"
    BY <1>5 DEF StoreRtTime, WorkerAt
  <2>3. /\ Unstarted' = Unstarted /\ FinishedWorkers' = FinishedWorkers
        /\ Overlapped' <=> Overlapped
    BY <2>1, <2>2 DEF Unstarted, FinishedWorkers, Overlapped
  <2>4. StartInv'
    BY <1>1, <2>1, <2>2, <2>3 DEF StartInv
  <2>5. EndInv'
    BY <2>1, <2>2, <2>3 DEF EndInv
  <2> QED BY <2>4, <2>5
<1>6. CASE FinishMeasure(w)
  <2>1. UNCHANGED <<start_time, end_time, finished, rt_time>>
    BY <1>6 DEF FinishMeasure, FetchSubActive, times
  <2>2. /\ wpc[w] = "loop" /\ \A v \in Thread \ {w} : wpc'[v] = wpc[v]
        /\ wpc'[w] = IF IsFirstFinisher THEN "set_finished" ELSE "reset"
    BY <1>6 DEF FinishMeasure, WorkerAt
  <2>3. /\ Unstarted' = Unstarted /\ FinishedWorkers' = FinishedWorkers \cup {w}
        /\ Overlapped' <=> Overlapped
    BY <2>1, <2>2 DEF Unstarted, FinishedWorkers, Overlapped
  <2>4. StartInv'
    BY <1>1, <2>1, <2>2, <2>3 DEF StartInv
  <2>5. CASE IsFirstFinisher
    <3>1. Unstarted = {} /\ FinishedWorkers = {}
      BY <1>2, <2>5 DEF Unstarted, FinishedWorkers, Active
    <3>2. Overlapped /\ ~ finished /\ end_time = 0
      BY <3>1 DEF StartInv, EndInv, FinishedWorkers
    <3>3. \A v \in Thread : wpc[v] \notin {"set_finished", "set_end"}
      BY <3>1 DEF FinishedWorkers
    <3> QED BY <2>1, <2>2, <2>3, <2>4, <2>5, <3>2, <3>3 DEF EndInv
  <2>6. CASE ~ IsFirstFinisher
    <3>1. Overlapped => FinishedWorkers # {}
      <4>1. PICK v \in Thread : v \notin Active
        BY <1>2, <2>6 DEF Active
      <4>2. v \in Unstarted \/ v \in FinishedWorkers
        BY <4>1 DEF Unstarted, FinishedWorkers, Active, WorkerPC
      <4> QED BY <4>2 DEF StartInv
    <3> QED BY <2>1, <2>2, <2>3, <2>4, <2>6, <3>1 DEF EndInv
  <2> QED BY <2>5, <2>6
<1>7. CASE StoreFinished(w)
  <2>1. UNCHANGED <<start_time, end_time, rt_time>> /\ finished'
    BY <1>7 DEF StoreFinished, SetFinished, times
  <2>2. /\ wpc[w] = "set_finished" /\ \A v \in Thread \ {w} : wpc'[v] = wpc[v]
        /\ wpc'[w] = "set_end"
    BY <1>7 DEF StoreFinished, WorkerAt
  <2>3. /\ Unstarted' = Unstarted /\ FinishedWorkers' = FinishedWorkers
        /\ Overlapped' <=> Overlapped
    BY <2>1, <2>2 DEF Unstarted, FinishedWorkers, Overlapped
  <2>4. StartInv'
    BY <1>1, <2>1, <2>2, <2>3 DEF StartInv
  <2>5. EndInv'
    BY <2>1, <2>2, <2>3 DEF EndInv
  <2> QED BY <2>4, <2>5
<1>8. CASE StoreEndTime(w)
  <2>1. UNCHANGED <<start_time, finished, rt_time>> /\ end_time' = NextStamp
    BY <1>8 DEF StoreEndTime, SetEndTime, life
  <2>2. /\ wpc[w] = "set_end" /\ \A v \in Thread \ {w} : wpc'[v] = wpc[v]
        /\ wpc'[w] = "reset"
    BY <1>8 DEF StoreEndTime, WorkerAt
  <2>3. /\ Unstarted' = Unstarted /\ FinishedWorkers' = FinishedWorkers
        /\ w \in FinishedWorkers /\ (Overlapped' <=> Overlapped)
    BY <2>1, <2>2 DEF Unstarted, FinishedWorkers, Overlapped
  <2>4. finished /\ end_time = 0 /\ Overlapped
    BY <2>2 DEF EndInv
  <2>5. end_time' # 0 /\ (start_time = 0 => end_time' = 1)
    BY <2>1, <2>4 DEF NextStamp, OpMeasurementTypeOK, TimesTypeOK
  <2>6. StartInv'
    BY <1>1, <2>1, <2>2, <2>3, <2>5 DEF StartInv
  <2>7. EndInv'
    BY <2>1, <2>2, <2>3, <2>4, <2>5 DEF EndInv
  <2> QED BY <2>6, <2>7
<1>9. CASE \/ NextOp(w) \/ DoOperation(w) \/ RecordCheck(w) \/ RecordCount(w)
           \/ RecordPush(w) \/ WorkerProgress(w) \/ ResetClient(w)
  <2>1. UNCHANGED <<start_time, end_time, finished, rt_time>>
    BY <1>9 DEF NextOp, DoOperation, RecordCheck, RecordCount, RecordPush,
                WorkerProgress, ResetClient, CountOp, CountRtAndPush, RecordProgress,
                mvars, times, life
  <2>2. /\ {wpc[w], wpc'[w]} \subseteq
               {"loop", "op", "check", "count", "count_rt", "progress"}
           \/ {wpc[w], wpc'[w]} \subseteq {"reset", "exited"}
        /\ \A v \in Thread \ {w} : wpc'[v] = wpc[v]
    BY <1>9 DEF NextOp, DoOperation, RecordCheck, RecordCount, RecordPush,
                WorkerProgress, ResetClient, WorkerAt
  <2>3. \A v \in Thread : QuietMove(v)
    BY <2>2 DEF QuietMove
  <2>4. mon' \in {"rt_exchange", "rt_store"} => Overlapped
    BY <1>1 DEF StartInv
  <2> QED BY <2>1, <2>3, <2>4, QuietStep
<1> QED BY <1>3, <1>4, <1>5, <1>6, <1>7, <1>8, <1>9 DEF Worker

(* StartInv and EndInv are preserved by every step.                        *)
LEMMA WindowStep ==
  ASSUME TypeOK, LifecycleInv, [Next]_vars
  PROVE  StartInv' /\ EndInv'
<1> USE DEF LifecycleInv
<1>1. ASSUME NEW w \in Thread, Worker(w) PROVE StartInv' /\ EndInv'
  BY <1>1, WorkerWindowStep
<1>2. CASE Monitor
  <2>1. UNCHANGED <<start_time, end_time, finished, wpc, main>>
    BY <1>2, MonitorFrame
  <2>2. \A v \in Thread : QuietMove(v)
    BY <2>1 DEF QuietMove
  <2>3. rt_time' = rt_time \/ rt_time' = 1
    BY <1>2 DEF Monitor, MonitorLoop, MonitorSeesInactive, MonitorSeesActive,
                MonitorExchange, MonitorStoreRtTime, MonitorPrint, MonitorLock,
                MonitorReport, MonitorUnlock, ExchangeRtCount, SetRtTime, TakeLock,
                ReleaseLock, mvars, times
  <2>4. CASE MonitorSeesActive
    <3>1. mon = "rt_check" /\ AllActive
      BY <2>4 DEF MonitorSeesActive, MonitorAt
    <3>2. main # "create"
      BY <3>1 DEF LockInv
    <3>3. Active = Thread
      BY <3>1, <3>2, ActiveCount
    <3>4. Unstarted = {} /\ FinishedWorkers = {}
      BY <3>3 DEF Active, Unstarted, FinishedWorkers
    <3>5. Overlapped
      BY <3>4 DEF StartInv
    <3> QED BY <2>1, <2>2, <2>3, <3>5, QuietStep
  <2>5. CASE ~ MonitorSeesActive
    <3>1. mon' \in {"rt_exchange", "rt_store"} => mon = "rt_exchange"
      BY <1>2, <2>5 DEF Monitor, MonitorLoop, MonitorSeesInactive, MonitorExchange,
                MonitorStoreRtTime, MonitorPrint, MonitorLock, MonitorReport,
                MonitorUnlock, MonitorAt
    <3>2. mon' \in {"rt_exchange", "rt_store"} => Overlapped
      BY <3>1 DEF StartInv
    <3> QED BY <2>1, <2>2, <2>3, <3>2, QuietStep
  <2> QED BY <2>4, <2>5
<1>3. CASE Main
  <2>1. UNCHANGED <<start_time, end_time, finished, rt_time>>
    BY <1>3, MainFrame
  <2>2. CASE SpawnWorker
    <3>1. /\ main = "spawn" /\ UNCHANGED mon
          /\ wpc' = [wpc EXCEPT ![thread_index] = "starting"]
      BY <2>2 DEF SpawnWorker, LoopStep, MainAt, monVars
    <3>2. thread_index \in Thread /\ wpc[thread_index] = "unborn"
      BY <3>1 DEF MainInv, TypeOK, MainVarsTypeOK
    <3>3. \A v \in Thread : QuietMove(v)
      BY <3>1, <3>2 DEF QuietMove, TypeOK, WpcTypeOK
    <3>4. mon' \in {"rt_exchange", "rt_store"} => Overlapped
      BY <3>1 DEF StartInv
    <3> QED BY <2>1, <3>3, <3>4, QuietStep
  <2>3. CASE ~ SpawnWorker
    <3>1. UNCHANGED wpc /\ (mon' = mon \/ mon' = "loop")
      BY <1>3, <2>3 DEF Main, CreateClient, SpawnMonitor, JoinWorker, FinalizeMeasure,
                        PublishResult, SaveLatency, JoinMonitor, DestroyClient, monVars
    <3>2. \A v \in Thread : QuietMove(v)
      BY <3>1 DEF QuietMove
    <3>3. mon' \in {"rt_exchange", "rt_store"} => Overlapped
      BY <3>1 DEF StartInv
    <3> QED BY <2>1, <3>2, <3>3, QuietStep
  <2> QED BY <2>2, <2>3
<1>4. CASE Throws \/ UNCHANGED vars
  <2>1. UNCHANGED <<start_time, end_time, finished, rt_time, wpc, mon>>
    BY <1>4, ThrowsFrame DEF mvars, times, life, monVars
  <2>2. \A v \in Thread : QuietMove(v)
    BY <2>1 DEF QuietMove
  <2>3. mon' \in {"rt_exchange", "rt_store"} => Overlapped
    BY <2>1 DEF StartInv
  <2> QED BY <2>1, <2>2, <2>3, QuietStep
<1> QED BY <1>1, <1>2, <1>3, <1>4 DEF Next, Stopped

(* The lifecycle invariant holds before the first step.                    *)
LEMMA InitLifecycleInv == Init => LifecycleInv
<1> SUFFICES ASSUME Init PROVE LifecycleInv
  OBVIOUS
<1> USE DEF Init, OpMeasurementInit
<1>1. MainInv
  BY NrThreadAssumption DEF MainInv
<1>2. LockInv
  BY DEF LockInv, HeldAtStart
<1>3. Active = {} /\ ~ Overlapped /\ Unstarted # {} /\ FinishedWorkers = {}
  BY ZeroInRange DEF Active, Overlapped, Unstarted, FinishedWorkers
<1>4. ActiveInv
  BY <1>3, FS_EmptySet DEF ActiveInv
<1>5. StartInv /\ EndInv
  BY <1>3 DEF StartInv, EndInv
<1> QED BY <1>1, <1>2, <1>4, <1>5 DEF LifecycleInv

(* LifecycleInv holds of every run: who holds the lock, how many workers   *)
(* are active, and how the measured window opens and closes, at every      *)
(* control point of the main thread.                                       *)
THEOREM Lifecycle == Spec => []LifecycleInv
<1>1. TypeOK /\ LifecycleInv /\ [Next]_vars => LifecycleInv'
  BY MainInvStep, LockInvStep, ActiveInvStep, WindowStep DEF LifecycleInv
<1> QED BY InitLifecycleInv, <1>1, TypeCorrect, PTL DEF Spec

-----------------------------------------------------------------------------
(* Corollaries.                                                            *)

(* When every worker has exited, the measured window has a start exactly   *)
(* if it has an end, and finished is set exactly then: finish_measure and  *)
(* start_measure agree on whether all clients were once active together.   *)
THEOREM StartIffEndHolds == Spec => []StartIffEnd
<1>1. TypeOK /\ LifecycleInv => StartIffEnd
  <2> SUFFICES ASSUME TypeOK, LifecycleInv, AllExited PROVE StartIffEnd
    BY DEF StartIffEnd
  <2>1. /\ \A w \in Thread : wpc[w] = "exited"
        /\ 0 \in Thread
    BY ZeroInRange DEF AllExited
  <2>2. FinishedWorkers # {} /\ (Overlapped <=> start_time # 0)
    BY <2>1 DEF FinishedWorkers, Overlapped
  <2>3. finished <=> Overlapped
    BY <2>1, <2>2 DEF LifecycleInv, EndInv
  <2>4. finished <=> end_time # 0
    BY <2>1 DEF LifecycleInv, EndInv
  <2>5. finished \in BOOLEAN
    BY DEF TypeOK, OpMeasurementTypeOK, LifeTypeOK
  <2>6. (start_time # 0) = finished /\ (end_time # 0) = finished
    BY <2>2, <2>3, <2>4, <2>5
  <2> QED BY <2>6 DEF StartIffEnd
<1> QED BY <1>1, TypeCorrect, Lifecycle, PTL

(* Nothing is destroyed while a thread may still use it.                   *)
THEOREM OwnersOutliveHolds == Spec => []OwnersOutlive
<1>1. LifecycleInv => OwnersOutlive
  BY DEF LifecycleInv, MainInv, LockInv, OwnersOutlive, AllExited
<1> QED BY <1>1, Lifecycle, PTL

(* A measurement without a start_time is open only while the last starter  *)
(* is about to write it.                                                   *)
THEOREM StartWindowHolds == Spec => []StartWindow
<1>1. TypeOK /\ LifecycleInv => StartWindow
  <2> SUFFICES ASSUME TypeOK, LifecycleInv, main # "create" PROVE StartWindow
    BY DEF StartWindow
  <2>1. AllActive => Overlapped
    <3>1. AllActive => Unstarted = {} /\ FinishedWorkers = {}
      BY ActiveCount DEF LifecycleInv, Active, Unstarted, FinishedWorkers
    <3> QED BY <3>1 DEF LifecycleInv, StartInv
  <2>2. finished \/ end_time # 0 => Overlapped
    BY DEF LifecycleInv, EndInv
  <2>3. mon = "rt_exchange" => Overlapped
    BY DEF LifecycleInv, StartInv
  <2>4. rt_time = 0 /\ start_time # 0 => \E w \in Thread : wpc[w] = "set_rt"
    BY DEF LifecycleInv, StartInv
  <2> QED BY <2>1, <2>2, <2>3, <2>4 DEF StartWindow, Overlapped
<1> QED BY <1>1, TypeCorrect, Lifecycle, PTL

(* start_time and end_time are written at most once and finished is never  *)
(* taken back.                                                             *)
THEOREM WindowWrittenOnceHolds == Spec => WindowWrittenOnce
<1> DEFINE Once == /\ start_time # 0 => start_time' = start_time
                   /\ end_time # 0 => end_time' = end_time
                   /\ finished => finished'
<1>1. TypeOK /\ LifecycleInv /\ [Next]_vars => [Once]_vars
  <2> SUFFICES ASSUME TypeOK, LifecycleInv, [Next]_vars PROVE Once
    OBVIOUS
  <2>1. ASSUME NEW w \in Thread, Worker(w) PROVE Once
    <3>1. finished => finished'
      BY <2>1, WorkerFrame
    <3>2. CASE StoreStartTime(w)
      BY <3>1, <3>2 DEF StoreStartTime, SetStartTime, WorkerAt, LifecycleInv, StartInv
    <3>3. CASE StoreEndTime(w)
      BY <3>1, <3>3 DEF StoreEndTime, SetEndTime, WorkerAt, LifecycleInv, EndInv
    <3>4. CASE ~ StoreStartTime(w) /\ ~ StoreEndTime(w)
      <4>1. UNCHANGED <<start_time, end_time>>
        BY <2>1, <3>4 DEF Worker, StartMeasure, StoreRtTime, NextOp, DoOperation,
           RecordCheck, RecordCount, RecordPush, WorkerProgress, FinishMeasure,
           StoreFinished, ResetClient, FetchAddActive, FetchSubActive, SetRtTime,
           CountOp, CountRtAndPush, RecordProgress, SetFinished, mvars, times
      <4> QED BY <3>1, <4>1
    <3> QED BY <3>2, <3>3, <3>4
  <2>2. CASE Monitor
    BY <2>2, MonitorFrame
  <2>3. CASE Main
    BY <2>3, MainFrame
  <2>4. CASE Throws \/ UNCHANGED vars
    BY <2>4, ThrowsFrame DEF mvars, times, life
  <2> QED BY <2>1, <2>2, <2>3, <2>4 DEF Next, Stopped
<1> QED BY <1>1, TypeCorrect, Lifecycle, PTL DEF Spec, WindowWrittenOnce

-----------------------------------------------------------------------------
(***************************************************************************)
(* Third part: what the run counts, records and reports.                   *)
(***************************************************************************)

(* The invariant.                                                          *)

(* The worker has taken an operation and not yet pushed its sample, or not *)
(* yet counted its progress.                                               *)
Unpushed(w) == wpc[w] \in {"op", "check", "count", "count_rt"}
Underway(w) == Unpushed(w) \/ wpc[w] = "progress"

(* A worker takes the operations of its Workload one by one, and leaves    *)
(* its loop when there are none.                                           *)
OpsInv ==
  \A w \in Thread :
    /\ cur_nr_op[w] > 0 => cur_nr_op[w] <= NrOp[w]
    /\ Underway(w) => cur_nr_op[w] > 0
    /\ wpc[w] \in {"unborn", "starting", "set_start", "set_rt"} => cur_nr_op[w] = 0
    /\ w \in FinishedWorkers => ~ HasNextOp(w)

(* start_time is one of the two stamps a run can give.                     *)
StampInv == start_time \in 0 .. 2 /\ \A w \in Thread : since[w] \in 0 .. 2

(* A client's vector holds samples of its own worker, of operations that   *)
(* worker has taken; the sample of the one underway is not there yet.      *)
SamplesInv ==
  /\ IsFiniteSet(Recorded)
  /\ \A c \in Client : \A s \in client_vec[c] :
       /\ s.client = c
       /\ s.op \in 1 .. cur_nr_op[c]
       /\ Unpushed(c) => s.op # cur_nr_op[c]
       /\ s.since \in 0 .. 2

(* Once gathered, final_latency_vec holds the samples, type by type.       *)
FinalInv ==
  main \in {"unlock", "save", "join_monitor", "cleanup", "returned"} =>
    \A t \in OpType : final_vec[t] = RecordedOf(t)

(* The operations there are, and those whose progress has been counted.    *)
Ops == UNION {{w} \X (1 .. NrOp[w]) : w \in Thread}
Done(w) == IF Underway(w) THEN cur_nr_op[w] - 1 ELSE cur_nr_op[w]
DoneOps == {p \in Ops : p[2] <= Done(p[1])}

ProgressInv == cur_progress = Cardinality(DoneOps)

DataInv ==
  /\ OpsInv /\ StampInv /\ SamplesInv /\ FinalInv /\ ProgressInv
  /\ CountsMatchSamples /\ RtCountsConserved /\ ReportIsComplete

-----------------------------------------------------------------------------
(* The invariant holds before the first step.                              *)

(* There are finitely many operations.                                     *)
LEMMA OpsAreFinite == IsFiniteSet(Ops) /\ MaxProgress = Cardinality(Ops)
<1> DEFINE OfWorker == [w \in Thread |-> {w} \X (1 .. NrOp[w])]
           Parts == {{w} \X (1 .. NrOp[w]) : w \in Thread}
<1>1. OfWorker \in Surjection(Thread, Parts)
  BY DEF Surjection
<1>2. IsFiniteSet(Parts)
  BY <1>1, ThreadsAreFinite, FS_Surjection
<1>3. ASSUME NEW w \in Thread PROVE IsFiniteSet({w} \X (1 .. NrOp[w]))
  <2>1. NrOp[w] \in Int
    BY NrOpAssumption
  <2>2. IsFiniteSet(1 .. NrOp[w])
    BY <2>1, FS_Interval
  <2> QED BY <2>2, FS_Singleton, FS_Product
<1>4. IsFiniteSet(UNION Parts)
  <2>1. \A P \in Parts : IsFiniteSet(P)
    BY <1>3
  <2> QED BY <1>2, <2>1, FS_UNION
<1> QED BY <1>4, MaxProgressAssumption DEF Ops

(* An operation is a worker and the position of one of its operations.     *)
LEMMA OpsElements ==
  \A p \in Ops : p = <<p[1], p[2]>> /\ p[1] \in Thread /\ p[2] \in 1 .. NrOp[p[1]]
BY DEF Ops

(* The sets CountsMatchSamples counts are finite.                          *)
LEMMA CountedSets ==
  ASSUME IsFiniteSet(Recorded), NEW t
  PROVE  /\ IsFiniteSet(RecordedOf(t)) /\ Cardinality(RecordedOf(t)) \in Nat
         /\ IsFiniteSet(InFlight(t)) /\ Cardinality(InFlight(t)) \in Nat
<1>1. RecordedOf(t) \in SUBSET Recorded /\ InFlight(t) \in SUBSET Thread
  BY DEF RecordedOf, InFlight
<1> QED BY <1>1, FS_Subset, FS_CardinalityType, ThreadsAreFinite

(* Before the first step nothing is counted, recorded or reported.         *)
LEMMA InitDataInv == Init => DataInv
<1> SUFFICES ASSUME Init PROVE DataInv
  OBVIOUS
<1> USE DEF Init, OpMeasurementInit
<1>1. OpsInv /\ StampInv /\ FinalInv /\ ReportIsComplete
  BY DEF OpsInv, StampInv, FinalInv, ReportIsComplete, Underway, Unpushed,
         FinishedWorkers
<1>2. Recorded = {} /\ \A t \in OpType : RecordedOf(t) = {} /\ InFlight(t) = {}
  BY DEF Recorded, RecordedOf, InFlight
<1>3. SamplesInv
  BY <1>2, FS_EmptySet DEF SamplesInv
<1>4. CountsMatchSamples /\ RtCountsConserved
  <2>1. \A t \in OpType : /\ op_count_arr[t] = 0 /\ rt_op_count_arr[t] = 0
                           /\ rt_reported[t] = 0
    OBVIOUS
  <2>2. \A t \in OpType : /\ Cardinality(RecordedOf(t)) = 0
                           /\ Cardinality(InFlight(t)) = 0
    BY <1>2, FS_EmptySet
  <2> QED BY <2>1, <2>2 DEF CountsMatchSamples, RtCountsConserved
<1>5. DoneOps = {}
  <2>1. \A w \in Thread : Done(w) = 0
    BY DEF Done, Underway, Unpushed
  <2>2. ASSUME NEW p \in DoneOps PROVE FALSE
    <3>1. p[1] \in Thread /\ p[2] \in 1 .. NrOp[p[1]] /\ p[2] <= Done(p[1])
      BY <2>2, OpsElements DEF DoneOps
    <3> QED BY <2>1, <3>1, NrOpAssumption
  <2> QED BY <2>2
<1>6. ProgressInv
  BY <1>5, FS_EmptySet DEF ProgressInv
<1> QED BY <1>1, <1>3, <1>4, <1>6 DEF DataInv

-----------------------------------------------------------------------------
(* Steps that touch no data.                                               *)

dataVars == <<counts, client_ids, client_vec, final_vec, cur_nr_op, op_type, since,
              rt_reported, report>>

(* The worker stays, or moves where DataInv asks for no more.              *)
CalmMove(v) ==
  /\ wpc'[v] = "count_rt" <=> wpc[v] = "count_rt"
  /\ (Underway(v))' <=> Underway(v)
  /\ (Unpushed(v))' => Unpushed(v)
  /\ v \in FinishedWorkers' => v \in FinishedWorkers \/ ~ HasNextOp(v)
  /\ wpc'[v] \in {"unborn", "starting", "set_start", "set_rt"} =>
       wpc[v] \in {"unborn", "starting", "set_start", "set_rt"}

(* The samples are those in the clients' vectors.                          *)
LEMMA RecordedKept ==
  ASSUME UNCHANGED <<client_ids, client_vec>>
  PROVE  Recorded' = Recorded /\ \A t \in OpType : (RecordedOf(t))' = RecordedOf(t)
BY DEF Recorded, RecordedOf

(* A step that touches no counter, vector or report keeps DataInv.         *)
LEMMA CalmStep ==
  ASSUME TypeOK, DataInv, UNCHANGED dataVars, start_time' \in 0 .. 2,
         \A v \in Thread : CalmMove(v),
         main' \in {"unlock", "save", "join_monitor", "cleanup", "returned"} =>
           main \in {"unlock", "save", "join_monitor", "cleanup", "returned"},
         AllExited => AllExited'
  PROVE  DataInv'
<1> USE DEF DataInv, dataVars, counts
<1>1. OpsInv'
  BY DEF OpsInv, CalmMove, HasNextOp
<1>2. StampInv'
  BY DEF StampInv
<1>3. Recorded' = Recorded /\ \A t \in OpType : (RecordedOf(t))' = RecordedOf(t)
  BY RecordedKept
<1>4. \A t \in OpType : (InFlight(t))' = InFlight(t)
  BY DEF InFlight, CalmMove
<1>5. SamplesInv'
  BY <1>3 DEF SamplesInv, CalmMove
<1>6. FinalInv'
  BY <1>3 DEF FinalInv
<1>7. ProgressInv'
  <2>1. \A v \in Thread : (Done(v))' = Done(v)
    BY DEF CalmMove, Done
  <2>2. DoneOps' = DoneOps
    BY <2>1, OpsElements DEF DoneOps, Ops
  <2> QED BY <2>2 DEF ProgressInv
<1>8. CountsMatchSamples' /\ RtCountsConserved'
  BY <1>3, <1>4 DEF CountsMatchSamples, RtCountsConserved
<1>9. ReportIsComplete'
  BY <1>3 DEF ReportIsComplete
<1> QED BY <1>1, <1>2, <1>5, <1>6, <1>7, <1>8, <1>9

-----------------------------------------------------------------------------
(* Steps that touch data.                                                  *)

(* enable_client starts with empty vectors, and they were empty before.    *)
LEMMA CreateClientRecorded ==
  ASSUME TypeOK, LifecycleInv, DataInv, CreateClient
  PROVE  /\ UNCHANGED client_vec
         /\ Recorded' = Recorded /\ \A t \in OpType : (RecordedOf(t))' = RecordedOf(t)
<1> USE DEF TypeOK, MainVarsTypeOK, OpMeasurementTypeOK, VecsTypeOK
<1>1. main = "create" /\ thread_index \in Thread
  BY DEF CreateClient, LoopStep, MainAt
<1>2. client_vec[thread_index] = {}
  <2>1. cur_nr_op[thread_index] = 0
    BY <1>1 DEF LifecycleInv, MainInv, DataInv, OpsInv
  <2> QED BY <1>1, <2>1 DEF DataInv, SamplesInv
<1>3. client_vec' = client_vec /\ client_ids' = client_ids \cup {thread_index}
  BY <1>1, <1>2 DEF CreateClient, EnableClient
<1> QED BY <1>2, <1>3 DEF Recorded, RecordedOf

(* So the new client changes nothing that is counted.                      *)
LEMMA CreateClientData ==
  ASSUME TypeOK, LifecycleInv, DataInv, CreateClient
  PROVE  DataInv'
<1>1. main = "create" /\ main' \in {"create", "spawn"}
  BY DEF CreateClient, LoopStep, MainAt
<1>2. UNCHANGED <<counts, times, final_vec, workVars, wpc, rt_reported, report>>
  BY DEF CreateClient, LoopStep, MainAt, EnableClient, monVars
<1>3. /\ UNCHANGED client_vec /\ Recorded' = Recorded
      /\ \A t \in OpType : (RecordedOf(t))' = RecordedOf(t)
  BY CreateClientRecorded
<1>4. OpsInv' /\ StampInv' /\ FinalInv'
  BY <1>1, <1>2 DEF DataInv, OpsInv, StampInv, FinalInv, workVars, times, Underway,
                    Unpushed, FinishedWorkers, HasNextOp
<1>5. SamplesInv'
  BY <1>2, <1>3 DEF DataInv, SamplesInv, workVars, Unpushed
<1>6. ProgressInv'
  BY <1>2 DEF DataInv, ProgressInv, DoneOps, Done, Underway, Unpushed, workVars, counts
<1>7. CountsMatchSamples' /\ RtCountsConserved'
  BY <1>2, <1>3 DEF DataInv, CountsMatchSamples, RtCountsConserved, counts, InFlight,
                    workVars
<1>8. ReportIsComplete'
  BY <1>2, <1>3 DEF DataInv, ReportIsComplete, AllExited
<1> QED BY <1>4, <1>5, <1>6, <1>7, <1>8 DEF DataInv

(* next_op takes an operation: nothing it has is behind the new position.  *)
LEMMA NextOpData ==
  ASSUME TypeOK, LifecycleInv, DataInv, NEW w \in Thread, NextOp(w)
  PROVE  DataInv'
<1> USE DEF TypeOK, WpcTypeOK, WorkVarsTypeOK
<1>1. /\ wpc[w] = "loop" /\ wpc' = [wpc EXCEPT ![w] = "op"]
      /\ cur_nr_op[w] < NrOp[w] /\ cur_nr_op' = [cur_nr_op EXCEPT ![w] = @ + 1]
      /\ \E t \in OpType : op_type' = [op_type EXCEPT ![w] = t]
  BY DEF NextOp, WorkerAt, HasNextOp
<1>2. UNCHANGED <<mvars, since, main, rt_reported, report>>
  BY DEF NextOp, WorkerAt, mainVars, monVars
<1>3. UNCHANGED <<counts, times, vecs>>
  BY <1>2 DEF mvars
<1>4. Recorded' = Recorded /\ \A t \in OpType : (RecordedOf(t))' = RecordedOf(t)
  BY <1>3, RecordedKept DEF vecs
<1>5. \A t \in OpType : (InFlight(t))' = InFlight(t)
  BY <1>1 DEF InFlight
<1>6. OpsInv'
  BY <1>1, NrOpAssumption
     DEF DataInv, OpsInv, Underway, Unpushed, FinishedWorkers, HasNextOp
<1>7. StampInv' /\ FinalInv'
  BY <1>2, <1>3, <1>4 DEF DataInv, StampInv, FinalInv, times, vecs
<1>8. SamplesInv'
  <2>1. IsFiniteSet(Recorded')
    BY <1>4 DEF DataInv, SamplesInv
  <2>2. ASSUME NEW c \in Client, NEW s \in client_vec'[c]
        PROVE  /\ s.client = c
               /\ s.op \in 1 .. cur_nr_op'[c]
               /\ (Unpushed(c))' => s.op # cur_nr_op'[c]
               /\ s.since \in 0 .. 2
    <3>1. /\ s.client = c /\ s.op \in 1 .. cur_nr_op[c] /\ s.since \in 0 .. 2
          /\ Unpushed(c) => s.op # cur_nr_op[c]
      BY <1>3, <2>2 DEF DataInv, SamplesInv, vecs
    <3> QED BY <1>1, <3>1 DEF Unpushed
  <2> QED BY <2>1, <2>2 DEF SamplesInv
<1>9. ProgressInv'
  <2>1. \A v \in Thread : (Done(v))' = Done(v)
    BY <1>1 DEF Done, Underway, Unpushed
  <2>2. DoneOps' = DoneOps
    BY <2>1, OpsElements DEF DoneOps, Ops
  <2> QED BY <1>3, <2>2 DEF DataInv, ProgressInv, counts
<1>10. CountsMatchSamples' /\ RtCountsConserved'
  BY <1>2, <1>3, <1>4, <1>5 DEF DataInv, CountsMatchSamples, RtCountsConserved, counts
<1>11. ReportIsComplete'
  BY <1>1, <1>2, <1>4 DEF DataInv, ReportIsComplete, AllExited
<1> QED BY <1>6, <1>7, <1>8, <1>9, <1>10, <1>11 DEF DataInv

(* op_count_arr is incremented: the worker is now between the counter and  *)
(* the vector.                                                             *)
LEMMA RecordCountData ==
  ASSUME TypeOK, LifecycleInv, DataInv, NEW w \in Thread, RecordCount(w)
  PROVE  DataInv'
<1> USE DEF TypeOK, WpcTypeOK, WorkVarsTypeOK
<1>1. /\ wpc[w] = "count" /\ wpc' = [wpc EXCEPT ![w] = "count_rt"]
      /\ since' = [since EXCEPT ![w] = start_time]
      /\ op_count_arr' = [op_count_arr EXCEPT ![op_type[w]] = @ + 1]
  BY DEF RecordCount, WorkerAt, CountOp
<1>2. UNCHANGED <<times, vecs, rt_op_count_arr, cur_progress, cur_nr_op, op_type, main,
                  rt_reported, report>>
  BY DEF RecordCount, WorkerAt, CountOp, mainVars, monVars
<1>3. Recorded' = Recorded /\ \A t \in OpType : (RecordedOf(t))' = RecordedOf(t)
  BY <1>2, RecordedKept DEF vecs
<1>4. OpsInv' /\ StampInv' /\ FinalInv'
  BY <1>1, <1>2, <1>3 DEF DataInv, OpsInv, StampInv, FinalInv, Underway, Unpushed,
                    FinishedWorkers, HasNextOp, times, vecs
<1>5. SamplesInv'
  BY <1>1, <1>2, <1>3 DEF DataInv, SamplesInv, Unpushed, vecs
<1>6. ProgressInv'
  <2>1. \A v \in Thread : (Done(v))' = Done(v)
    BY <1>1, <1>2 DEF Done, Underway, Unpushed
  <2>2. DoneOps' = DoneOps
    BY <2>1, OpsElements DEF DoneOps, Ops
  <2> QED BY <1>2, <2>2 DEF DataInv, ProgressInv
<1>7. CountsMatchSamples'
  <2> SUFFICES ASSUME NEW t \in OpType
               PROVE  op_count_arr'[t] =
                        Cardinality((RecordedOf(t))') + Cardinality((InFlight(t))')
    BY DEF CountsMatchSamples
  <2>1. /\ op_count_arr[t] = Cardinality(RecordedOf(t)) + Cardinality(InFlight(t))
        /\ op_count_arr[t] \in Nat /\ IsFiniteSet(Recorded)
    BY DEF DataInv, CountsMatchSamples, SamplesInv, OpMeasurementTypeOK, CountsTypeOK
  <2>2. CASE op_type[w] = t
    <3>1. (InFlight(t))' = InFlight(t) \cup {w} /\ w \notin InFlight(t)
      BY <1>1, <1>2, <2>2 DEF InFlight
    <3>2. Cardinality((InFlight(t))') = Cardinality(InFlight(t)) + 1
      BY <2>1, <3>1, CountedSets, FS_AddElement
    <3>3. op_count_arr'[t] = op_count_arr[t] + 1
      BY <1>1, <2>2 DEF OpMeasurementTypeOK, CountsTypeOK
    <3> QED BY <1>3, <2>1, <3>2, <3>3, CountedSets
  <2>3. CASE op_type[w] # t
    <3>1. (InFlight(t))' = InFlight(t)
      BY <1>1, <1>2, <2>3 DEF InFlight
    <3>2. op_count_arr'[t] = op_count_arr[t]
      BY <1>1, <2>3 DEF OpMeasurementTypeOK, CountsTypeOK
    <3> QED BY <1>3, <2>1, <3>1, <3>2
  <2> QED BY <2>2, <2>3
<1>8. RtCountsConserved'
  BY <1>2, <1>3 DEF DataInv, RtCountsConserved
<1>9. ReportIsComplete'
  BY <1>1, <1>2, <1>3 DEF DataInv, ReportIsComplete, AllExited
<1> QED BY <1>4, <1>5, <1>6, <1>7, <1>8, <1>9 DEF DataInv

(* The sample record_op appends is a new one, and one of the run's.        *)
LEMMA PushedSample ==
  ASSUME TypeOK, LifecycleInv, DataInv, NEW w \in Thread, RecordPush(w)
  PROVE  /\ Recorded' = Recorded \cup {CurrentSample(w)}
         /\ CurrentSample(w) \notin Recorded
         /\ CurrentSample(w) \in RunSample
<1> USE DEF TypeOK, WorkVarsTypeOK, OpMeasurementTypeOK, VecsTypeOK
<1> DEFINE s == CurrentSample(w)
<1>1. /\ wpc[w] = "count_rt" /\ client_ids' = client_ids
      /\ client_vec' = [client_vec EXCEPT ![w] = @ \cup {s}]
  BY DEF RecordPush, WorkerAt, CountRtAndPush, CurrentSample
<1>2. w \in client_ids
  BY <1>1 DEF LifecycleInv, MainInv
<1>3. s.client = w /\ s.op = cur_nr_op[w] /\ s.since = since[w] /\ s.type = op_type[w]
  BY DEF CurrentSample
<1>4. Recorded' = Recorded \cup {s}
  BY <1>1, <1>2 DEF Recorded
<1>5. s \notin Recorded
  <2>1. ASSUME NEW c \in client_ids, s \in client_vec[c] PROVE FALSE
    <3>1. c = w
      BY <1>3, <2>1 DEF DataInv, SamplesInv
    <3>2. Unpushed(w)
      BY <1>1 DEF Unpushed
    <3> QED BY <1>3, <2>1, <3>1, <3>2 DEF DataInv, SamplesInv
  <2> QED BY <2>1 DEF Recorded
<1>6. s \in RunSample
  <2>1. cur_nr_op[w] \in 1 .. NrOp[w]
    BY <1>1, NrOpAssumption DEF DataInv, OpsInv, Underway, Unpushed
  <2>2. cur_nr_op[w] \in UNION {1 .. NrOp[v] : v \in Thread}
    BY <2>1
  <2>3. since[w] \in 0 .. 2
    BY DEF DataInv, StampInv
  <2> QED BY <2>2, <2>3 DEF RunSample, CurrentSample
<1> QED BY <1>4, <1>5, <1>6

(* rt_op_count_arr and the vector grow together, by the operation that was *)
(* between the counter and the vector.                                     *)
LEMMA RecordPushData ==
  ASSUME TypeOK, LifecycleInv, DataInv, NEW w \in Thread, RecordPush(w)
  PROVE  DataInv'
<1> USE DEF TypeOK, WpcTypeOK, WorkVarsTypeOK
<1> DEFINE s == CurrentSample(w)
<1>1. /\ wpc[w] = "count_rt" /\ wpc' = [wpc EXCEPT ![w] = "progress"]
      /\ client_vec' = [client_vec EXCEPT ![w] = @ \cup {s}]
      /\ rt_op_count_arr' = [rt_op_count_arr EXCEPT ![op_type[w]] = @ + 1]
  BY DEF RecordPush, WorkerAt, CountRtAndPush, CurrentSample
<1>2. UNCHANGED <<times, op_count_arr, cur_progress, client_ids, final_vec, workVars, main,
                  rt_reported, report>>
  BY DEF RecordPush, WorkerAt, CountRtAndPush, mainVars, monVars
<1>3. /\ s.client = w /\ s.op = cur_nr_op[w] /\ s.since = since[w]
      /\ s.type = op_type[w] /\ op_type[w] \in OpType
  BY DEF CurrentSample
<1>4. Recorded' = Recorded \cup {s} /\ s \notin Recorded /\ IsFiniteSet(Recorded)
  BY PushedSample DEF DataInv, SamplesInv
<1>5. ~ AllExited /\ ~ AllExited'
  BY <1>1 DEF AllExited
<1>6. main \notin {"unlock", "save", "join_monitor", "cleanup", "returned"}
  BY <1>5 DEF LifecycleInv, MainInv
<1>7. report = {}
  BY <1>5 DEF DataInv, ReportIsComplete
<1>8. OpsInv' /\ StampInv' /\ FinalInv' /\ ReportIsComplete'
  BY <1>1, <1>2, <1>6, <1>7 DEF DataInv, OpsInv, StampInv, FinalInv, ReportIsComplete,
     Underway, Unpushed, FinishedWorkers, HasNextOp, times, workVars
<1>9. SamplesInv'
  <2>1. IsFiniteSet(Recorded')
    BY <1>4, FS_AddElement
  <2>2. cur_nr_op[w] \in 1 .. cur_nr_op[w] /\ since[w] \in 0 .. 2
    BY <1>1 DEF DataInv, OpsInv, StampInv, Underway, Unpushed
  <2>3. ASSUME NEW c \in Client, NEW x \in client_vec'[c]
        PROVE  /\ x.client = c
               /\ x.op \in 1 .. cur_nr_op'[c]
               /\ (Unpushed(c))' => x.op # cur_nr_op'[c]
               /\ x.since \in 0 .. 2
    <3>1. CASE c = w /\ x = s
      BY <1>1, <1>2, <1>3, <2>2, <3>1 DEF workVars, Unpushed
    <3>2. CASE ~ (c = w /\ x = s)
      <4>1. x \in client_vec[c]
        BY <1>1, <2>3, <3>2 DEF OpMeasurementTypeOK, VecsTypeOK
      <4>2. (Unpushed(c))' => Unpushed(c)
        BY <1>1 DEF Unpushed
      <4> QED BY <1>2, <4>1, <4>2 DEF DataInv, SamplesInv, workVars
    <3> QED BY <3>1, <3>2
  <2> QED BY <2>1, <2>3 DEF SamplesInv
<1>10. ProgressInv'
  <2>1. \A v \in Thread : (Done(v))' = Done(v)
    BY <1>1, <1>2 DEF Done, Underway, Unpushed, workVars
  <2>2. DoneOps' = DoneOps
    BY <2>1, OpsElements DEF DoneOps, Ops
  <2> QED BY <1>2, <2>2 DEF DataInv, ProgressInv
<1>11. ASSUME NEW t \in OpType
       PROVE  /\ op_count_arr'[t] =
                   Cardinality((RecordedOf(t))') + Cardinality((InFlight(t))')
              /\ rt_op_count_arr'[t] + rt_reported'[t] = Cardinality((RecordedOf(t))')
  <2>1. /\ op_count_arr[t] = Cardinality(RecordedOf(t)) + Cardinality(InFlight(t))
        /\ rt_op_count_arr[t] + rt_reported[t] = Cardinality(RecordedOf(t))
        /\ rt_op_count_arr[t] \in Nat /\ rt_reported[t] \in Nat
    BY DEF DataInv, CountsMatchSamples, RtCountsConserved, OpMeasurementTypeOK,
           CountsTypeOK, MonVarsTypeOK
  <2>2. CASE op_type[w] = t
    <3>1. (RecordedOf(t))' = RecordedOf(t) \cup {s} /\ s \notin RecordedOf(t)
      BY <1>3, <1>4, <2>2 DEF RecordedOf
    <3>2. Cardinality((RecordedOf(t))') = Cardinality(RecordedOf(t)) + 1
      BY <1>4, <3>1, CountedSets, FS_AddElement
    <3>3. (InFlight(t))' = InFlight(t) \ {w} /\ w \in InFlight(t)
      BY <1>1, <1>2, <2>2 DEF InFlight, workVars
    <3>4. Cardinality((InFlight(t))') = Cardinality(InFlight(t)) - 1
      BY <1>4, <3>3, CountedSets, FS_RemoveElement
    <3>5. rt_op_count_arr'[t] = rt_op_count_arr[t] + 1
      BY <1>1, <2>2 DEF OpMeasurementTypeOK, CountsTypeOK
    <3> DEFINE R == Cardinality(RecordedOf(t))
               F == Cardinality(InFlight(t))
               RNext == Cardinality((RecordedOf(t))')
               FNext == Cardinality((InFlight(t))')
    <3>6. /\ R \in Nat /\ F \in Nat /\ RNext = R + 1 /\ FNext = F - 1
          /\ op_count_arr[t] = R + F /\ rt_op_count_arr[t] + rt_reported[t] = R
      BY <1>4, <2>1, <3>2, <3>4, CountedSets
    <3>7. op_count_arr'[t] = op_count_arr[t] /\ rt_reported'[t] = rt_reported[t]
      BY <1>2
    <3> HIDE DEF R, F, RNext, FNext
    <3>8. op_count_arr'[t] = RNext + FNext /\ rt_op_count_arr'[t] + rt_reported'[t] = RNext
      BY <2>1, <3>5, <3>6, <3>7
    <3> QED BY <3>8 DEF RNext, FNext
  <2>3. CASE op_type[w] # t
    <3>1. (RecordedOf(t))' = RecordedOf(t)
      BY <1>3, <1>4, <2>3 DEF RecordedOf
    <3>2. (InFlight(t))' = InFlight(t)
      BY <1>1, <1>2, <2>3 DEF InFlight, workVars
    <3>3. rt_op_count_arr'[t] = rt_op_count_arr[t]
      BY <1>1, <2>3 DEF OpMeasurementTypeOK, CountsTypeOK
    <3> QED BY <1>2, <2>1, <3>1, <3>2, <3>3
  <2> QED BY <2>2, <2>3
<1>12. CountsMatchSamples' /\ RtCountsConserved'
  BY <1>11 DEF CountsMatchSamples, RtCountsConserved
<1> QED BY <1>8, <1>9, <1>10, <1>12 DEF DataInv

(* The progress counter counts the operation it belongs to once.           *)
LEMMA WorkerProgressData ==
  ASSUME TypeOK, LifecycleInv, DataInv, NEW w \in Thread, WorkerProgress(w)
  PROVE  DataInv'
<1> USE DEF TypeOK, WpcTypeOK, WorkVarsTypeOK
<1>1. /\ wpc[w] = "progress" /\ wpc' = [wpc EXCEPT ![w] = "loop"]
      /\ cur_progress' = cur_progress + 1
  BY DEF WorkerProgress, WorkerAt, RecordProgress
<1>2. UNCHANGED <<times, vecs, op_count_arr, rt_op_count_arr, workVars, main, rt_reported,
                  report>>
  BY DEF WorkerProgress, WorkerAt, RecordProgress, mainVars, monVars
<1>3. Recorded' = Recorded /\ \A t \in OpType : (RecordedOf(t))' = RecordedOf(t)
  BY <1>2, RecordedKept DEF vecs
<1>4. \A t \in OpType : (InFlight(t))' = InFlight(t)
  BY <1>1, <1>2 DEF InFlight, workVars
<1>5. OpsInv' /\ StampInv' /\ FinalInv'
  BY <1>1, <1>2, <1>3 DEF DataInv, OpsInv, StampInv, FinalInv, Underway, Unpushed,
                    FinishedWorkers, HasNextOp, times, vecs, workVars
<1>6. SamplesInv'
  BY <1>1, <1>2, <1>3 DEF DataInv, SamplesInv, Unpushed, vecs, workVars
<1>7. ProgressInv'
  <2> DEFINE p == <<w, cur_nr_op[w]>>
  <2>1. p \in Ops /\ p \notin DoneOps
    <3>1. cur_nr_op[w] \in 1 .. NrOp[w] /\ Done(w) = cur_nr_op[w] - 1
      BY <1>1, NrOpAssumption DEF DataInv, OpsInv, Underway, Unpushed, Done
    <3> QED BY <3>1 DEF Ops, DoneOps
  <2>2. DoneOps' = DoneOps \cup {p}
    <3>1. /\ (Done(w))' = cur_nr_op[w] /\ Done(w) = cur_nr_op[w] - 1
          /\ \A v \in Thread \ {w} : (Done(v))' = Done(v)
      BY <1>1, <1>2 DEF Done, Underway, Unpushed, workVars
    <3>2. ASSUME NEW q \in Ops
          PROVE  q[2] <= (Done(q[1]))' <=> q[2] <= Done(q[1]) \/ q = p
      <4>1. q = <<q[1], q[2]>> /\ q[1] \in Thread /\ q[2] \in Int
        BY OpsElements, NrOpAssumption
      <4>2. CASE q[1] # w
        BY <3>1, <4>1, <4>2
      <4>3. CASE q[1] = w
        <5>1. q = p <=> q[2] = cur_nr_op[w]
          BY <4>1, <4>3
        <5> QED BY <3>1, <4>1, <4>3, <5>1
      <4> QED BY <4>2, <4>3
    <3>3. DoneOps' = {q \in Ops : q[2] <= (Done(q[1]))'}
      BY DEF DoneOps, Ops
    <3> QED BY <2>1, <3>2, <3>3 DEF DoneOps
  <2>3. IsFiniteSet(DoneOps)
    BY OpsAreFinite, FS_Subset DEF DoneOps
  <2> QED BY <1>1, <2>1, <2>2, <2>3, FS_AddElement DEF DataInv, ProgressInv
<1>8. CountsMatchSamples' /\ RtCountsConserved'
  BY <1>2, <1>3, <1>4 DEF DataInv, CountsMatchSamples, RtCountsConserved
<1>9. ReportIsComplete'
  BY <1>1, <1>2, <1>3 DEF DataInv, ReportIsComplete, AllExited
<1> QED BY <1>5, <1>6, <1>7, <1>8, <1>9 DEF DataInv

(* The epoch line shows what the counter held and starts it again at 0.    *)
LEMMA MonitorExchangeData ==
  ASSUME TypeOK, LifecycleInv, DataInv, MonitorExchange
  PROVE  DataInv'
<1> USE DEF TypeOK, MonVarsTypeOK, OpMeasurementTypeOK, CountsTypeOK
<1>1. /\ rt_op_count_arr' = [rt_op_count_arr EXCEPT ![mon_type] = 0]
      /\ rt_reported' = [rt_reported EXCEPT ![mon_type] = @ + rt_op_count_arr[mon_type]]
  BY DEF MonitorExchange, ExchangeRtCount, ExchangedRtCount
<1>2. UNCHANGED <<times, vecs, op_count_arr, cur_progress, workVars, wpc, main, report>>
  BY DEF MonitorExchange, MonitorAt, ExchangeRtCount, mainVars
<1>3. Recorded' = Recorded /\ \A t \in OpType : (RecordedOf(t))' = RecordedOf(t)
  BY <1>2, RecordedKept DEF vecs
<1>4. OpsInv' /\ StampInv' /\ FinalInv' /\ SamplesInv'
  BY <1>2, <1>3 DEF DataInv, OpsInv, StampInv, FinalInv, SamplesInv, Underway, Unpushed,
                    FinishedWorkers, HasNextOp, times, vecs, workVars
<1>5. ProgressInv'
  BY <1>2 DEF DataInv, ProgressInv, DoneOps, Done, Underway, Unpushed, workVars
<1>6. CountsMatchSamples'
  BY <1>2, <1>3 DEF DataInv, CountsMatchSamples, InFlight, workVars
<1>7. RtCountsConserved'
  <2>1. ASSUME NEW t \in OpType
        PROVE  rt_op_count_arr'[t] + rt_reported'[t] = rt_op_count_arr[t] + rt_reported[t]
    <3>1. CASE t = mon_type
      BY <1>1, <3>1
    <3>2. CASE t # mon_type
      BY <1>1, <3>2
    <3> QED BY <3>1, <3>2
  <2> QED BY <1>3, <2>1 DEF DataInv, RtCountsConserved
<1>8. ReportIsComplete'
  BY <1>2, <1>3 DEF DataInv, ReportIsComplete, AllExited
<1> QED BY <1>4, <1>5, <1>6, <1>7, <1>8 DEF DataInv

(* By the time the monitor has the mutex, main has gathered the samples of *)
(* workers that have all exited, and no operation is between its counter   *)
(* and its vector.                                                         *)
LEMMA ReportedRow ==
  ASSUME TypeOK, LifecycleInv, DataInv, mon = "report"
  PROVE  /\ main \in {"save", "join_monitor"} /\ AllExited
         /\ start_time # 0 /\ end_time # 0
         /\ \A t \in OpType : /\ final_vec[t] = RecordedOf(t)
                              /\ op_count_arr[t] = Cardinality(RecordedOf(t))
<1>1. final_result_lock = "monitor" /\ finished
  BY DEF LifecycleInv, LockInv
<1>2. main \in {"save", "join_monitor"}
  BY <1>1 DEF LifecycleInv, LockInv
<1>3. AllExited
  BY <1>2 DEF LifecycleInv, MainInv
<1>4. start_time # 0 /\ end_time # 0
  BY <1>1, <1>3 DEF LifecycleInv, EndInv, Overlapped, AllExited
<1>5. ASSUME NEW t \in OpType
      PROVE  /\ final_vec[t] = RecordedOf(t)
             /\ op_count_arr[t] = Cardinality(RecordedOf(t))
  <2>1. InFlight(t) = {}
    BY <1>3 DEF InFlight, AllExited
  <2>2. Cardinality(InFlight(t)) = 0
    BY <2>1, FS_EmptySet
  <2>3. Cardinality(RecordedOf(t)) \in Nat
    BY CountedSets DEF DataInv, SamplesInv
  <2>4. op_count_arr[t] = Cardinality(RecordedOf(t)) + Cardinality(InFlight(t))
    BY DEF DataInv, CountsMatchSamples
  <2> QED BY <1>2, <2>2, <2>3, <2>4 DEF DataInv, FinalInv
<1> QED BY <1>2, <1>3, <1>4, <1>5

(* So the row the monitor prints is complete.                              *)
LEMMA MonitorReportData ==
  ASSUME TypeOK, LifecycleInv, DataInv, MonitorReport
  PROVE  DataInv'
<1>1. /\ mon = "report"
      /\ report' = {[ops |-> op_count_arr, latencies |-> final_vec,
                     start |-> start_time, end |-> end_time]}
  BY DEF MonitorReport, MonitorAt
<1>2. UNCHANGED <<counts, times, vecs, workVars, wpc, main, rt_reported>>
  BY DEF MonitorReport, MonitorAt, mainVars, mvars
<1>3. Recorded' = Recorded /\ \A t \in OpType : (RecordedOf(t))' = RecordedOf(t)
  BY <1>2, RecordedKept DEF vecs
<1>4. OpsInv' /\ StampInv' /\ FinalInv' /\ SamplesInv'
  BY <1>2, <1>3 DEF DataInv, OpsInv, StampInv, FinalInv, SamplesInv, Underway, Unpushed,
                    FinishedWorkers, HasNextOp, times, vecs, workVars
<1>5. ProgressInv'
  BY <1>2 DEF DataInv, ProgressInv, DoneOps, Done, Underway, Unpushed, workVars, counts
<1>6. CountsMatchSamples' /\ RtCountsConserved'
  BY <1>2, <1>3 DEF DataInv, CountsMatchSamples, RtCountsConserved, InFlight, workVars,
                    counts
<1>7. ReportIsComplete'
  BY <1>1, <1>2, <1>3, ReportedRow DEF ReportIsComplete, AllExited
<1> QED BY <1>4, <1>5, <1>6, <1>7 DEF DataInv

(* finalize_measure gathers what the clients' vectors hold.                *)
LEMMA FinalizeData ==
  ASSUME TypeOK, DataInv, FinalizeMeasure
  PROVE  DataInv'
<1>1. /\ main = "finalize" /\ main' = "unlock"
      /\ final_vec' = [t \in OpType |-> RecordedOf(t)]
  BY DEF FinalizeMeasure, MainAt, FinalizeVectors
<1>2. UNCHANGED <<counts, times, client_ids, client_vec, workVars, wpc, rt_reported, report>>
  BY DEF FinalizeMeasure, MainAt, FinalizeVectors, monVars
<1>3. Recorded' = Recorded /\ \A t \in OpType : (RecordedOf(t))' = RecordedOf(t)
  BY <1>2, RecordedKept
<1>4. OpsInv' /\ StampInv' /\ SamplesInv'
  BY <1>2, <1>3 DEF DataInv, OpsInv, StampInv, SamplesInv, Underway, Unpushed,
                    FinishedWorkers, HasNextOp, times, workVars
<1>5. FinalInv'
  BY <1>1, <1>3 DEF FinalInv
<1>6. ProgressInv'
  BY <1>2 DEF DataInv, ProgressInv, DoneOps, Done, Underway, Unpushed, workVars, counts
<1>7. CountsMatchSamples' /\ RtCountsConserved'
  BY <1>2, <1>3 DEF DataInv, CountsMatchSamples, RtCountsConserved, InFlight, workVars,
                    counts
<1>8. ReportIsComplete'
  BY <1>2, <1>3 DEF DataInv, ReportIsComplete, AllExited
<1> QED BY <1>4, <1>5, <1>6, <1>7, <1>8 DEF DataInv

-----------------------------------------------------------------------------
(* The invariant is inductive.                                             *)

(* No step of any thread breaks DataInv.                                   *)
LEMMA DataInvStep ==
  ASSUME TypeOK, LifecycleInv, DataInv, [Next]_vars
  PROVE  DataInv'
<1> USE DEF TypeOK, WpcTypeOK
<1> DEFINE Late == {"unlock", "save", "join_monitor", "cleanup", "returned"}
<1>0. start_time \in 0 .. 2
  BY DEF DataInv, StampInv
<1>1. ASSUME NEW w \in Thread, Worker(w) PROVE DataInv'
  <2>1. UNCHANGED <<main, report>> /\ ~ AllExited
    BY <1>1, WorkerFrame DEF AllExited
  <2>2. CASE \/ StartMeasure(w) \/ StoreStartTime(w) \/ StoreRtTime(w)
             \/ DoOperation(w) \/ RecordCheck(w) \/ FinishMeasure(w)
             \/ StoreFinished(w) \/ StoreEndTime(w) \/ ResetClient(w)
    <3>1. UNCHANGED dataVars
      BY <2>2 DEF StartMeasure, StoreStartTime, StoreRtTime, DoOperation, RecordCheck,
         FinishMeasure, StoreFinished, StoreEndTime, ResetClient, WorkerAt,
         FetchAddActive, FetchSubActive, SetStartTime, SetRtTime, SetFinished, SetEndTime,
         dataVars, mvars, vecs, workVars, monVars
    <3>2. start_time' \in 0 .. 2
      <4>1. CASE StoreStartTime(w)
        <5>1. start_time = 0 /\ end_time <= 1 /\ end_time \in Nat
          BY <4>1 DEF StoreStartTime, WorkerAt, LifecycleInv, StartInv,
                      OpMeasurementTypeOK, TimesTypeOK
        <5> QED BY <4>1, <5>1 DEF StoreStartTime, SetStartTime, NextStamp
      <4>2. CASE ~ StoreStartTime(w)
        <5>1. start_time' = start_time
          BY <2>2, <4>2 DEF StartMeasure, StoreRtTime, DoOperation, RecordCheck,
             FinishMeasure, StoreFinished, StoreEndTime, ResetClient, FetchAddActive,
             FetchSubActive, SetRtTime, SetFinished, SetEndTime, mvars, times
        <5> QED BY <1>0, <5>1
      <4> QED BY <4>1, <4>2
    <3>3. \A v \in Thread \ {w} : wpc'[v] = wpc[v]
      BY <2>2 DEF StartMeasure, StoreStartTime, StoreRtTime, DoOperation, RecordCheck,
         FinishMeasure, StoreFinished, StoreEndTime, ResetClient, WorkerAt
    <3>4. \A v \in Thread \ {w} : CalmMove(v)
      BY <3>3 DEF CalmMove, Underway, Unpushed, FinishedWorkers
    <3>5. CalmMove(w)
      <4>1. CASE StartMeasure(w) \/ StoreStartTime(w) \/ StoreRtTime(w)
        BY <4>1 DEF StartMeasure, StoreStartTime, StoreRtTime, WorkerAt, CalmMove,
                    Underway, Unpushed, FinishedWorkers
      <4>2. CASE DoOperation(w) \/ RecordCheck(w)
        BY <4>2 DEF DoOperation, RecordCheck, WorkerAt, CalmMove, Underway, Unpushed,
                    FinishedWorkers
      <4>3. CASE FinishMeasure(w)
        BY <4>3 DEF FinishMeasure, WorkerAt, CalmMove, Underway, Unpushed
      <4>4. CASE StoreFinished(w) \/ StoreEndTime(w) \/ ResetClient(w)
        BY <4>4 DEF StoreFinished, StoreEndTime, ResetClient, WorkerAt, CalmMove,
                    Underway, Unpushed, FinishedWorkers
      <4> QED BY <2>2, <4>1, <4>2, <4>3, <4>4
    <3> QED BY <2>1, <3>1, <3>2, <3>4, <3>5, CalmStep
  <2> QED
    BY <1>1, <2>2, NextOpData, RecordCountData, RecordPushData, WorkerProgressData
       DEF Worker
<1>2. CASE Monitor
  <2>1. CASE ~ MonitorExchange /\ ~ MonitorReport
    <3>1. UNCHANGED <<dataVars, start_time, wpc, main>>
      BY <1>2, <2>1 DEF Monitor, MonitorLoop, MonitorSeesInactive, MonitorSeesActive,
         MonitorStoreRtTime, MonitorPrint, MonitorLock, MonitorUnlock, MonitorAt, SetRtTime,
         TakeLock, ReleaseLock, dataVars, mvars, vecs, times, workVars, mainVars
    <3>2. \A v \in Thread : CalmMove(v)
      BY <3>1 DEF CalmMove, Underway, Unpushed, FinishedWorkers
    <3> QED BY <1>0, <3>1, <3>2, CalmStep DEF AllExited
  <2> QED BY <2>1, MonitorExchangeData, MonitorReportData
<1>3. CASE Main
  <2>1. CASE SpawnWorker
    <3>1. /\ UNCHANGED <<dataVars, start_time>> /\ main = "spawn"
          /\ main' \in {"spawn", "spawn_monitor"}
          /\ wpc' = [wpc EXCEPT ![thread_index] = "starting"]
      BY <2>1 DEF SpawnWorker, LoopStep, MainAt, dataVars, mvars, vecs, times, workVars,
                  monVars
    <3>2. thread_index \in Thread /\ wpc[thread_index] = "unborn"
      BY <3>1 DEF LifecycleInv, MainInv, MainVarsTypeOK
    <3>3. ~ AllExited
      BY <3>2 DEF AllExited
    <3>4. \A v \in Thread : CalmMove(v)
      BY <3>1, <3>2 DEF CalmMove, Underway, Unpushed, FinishedWorkers
    <3> QED BY <1>0, <3>1, <3>3, <3>4, CalmStep
  <2>2. CASE \/ SpawnMonitor \/ JoinWorker \/ PublishResult \/ SaveLatency
             \/ JoinMonitor \/ DestroyClient
    <3>1. /\ UNCHANGED <<dataVars, start_time, wpc>>
          /\ main' \in Late => main \in Late
      BY <2>2 DEF SpawnMonitor, JoinWorker, PublishResult, SaveLatency, JoinMonitor,
         DestroyClient, LoopStep, MainAt, ReleaseLock, dataVars, mvars, vecs, times,
         workVars, monVars
    <3>2. \A v \in Thread : CalmMove(v)
      BY <3>1 DEF CalmMove, Underway, Unpushed, FinishedWorkers
    <3> QED BY <1>0, <3>1, <3>2, CalmStep DEF AllExited
  <2> QED BY <1>3, <2>1, <2>2, CreateClientData, FinalizeData DEF Main
<1>4. CASE Throws \/ UNCHANGED vars
  <2>1. UNCHANGED <<dataVars, start_time, wpc, main>>
    BY <1>4, ThrowsFrame DEF dataVars, mvars, vecs, times, workVars, mainVars, monVars
  <2>2. \A v \in Thread : CalmMove(v)
    BY <2>1 DEF CalmMove, Underway, Unpushed, FinishedWorkers
  <2> QED BY <1>0, <2>1, <2>2, CalmStep DEF AllExited
<1> QED BY <1>1, <1>2, <1>3, <1>4 DEF Next, Stopped

(* DataInv holds of every run.                                             *)
THEOREM DataInvHolds == Spec => []DataInv
<1>1. TypeOK /\ LifecycleInv /\ DataInv /\ [Next]_vars => DataInv'
  BY DataInvStep
<1> QED BY InitDataInv, <1>1, TypeCorrect, Lifecycle, PTL DEF Spec

-----------------------------------------------------------------------------
(* Corollaries.                                                            *)

(* record_op keeps the counters and the vectors in step, whatever the      *)
(* interleaving: an operation counted and not yet in a vector belongs to a *)
(* worker between the two, and record_progress comes last.                 *)
THEOREM CountsMatchHolds == Spec => []CountsMatchSamples
<1>1. DataInv => CountsMatchSamples
  BY DEF DataInv
<1> QED BY <1>1, DataInvHolds, PTL

(* get_rt_throughput shows every operation once: what it has taken from    *)
(* rt_op_count_vec and what is left there is what record_op has counted.   *)
THEOREM RtCountsHold == Spec => []RtCountsConserved
<1>1. DataInv => RtCountsConserved
  BY DEF DataInv
<1> QED BY <1>1, DataInvHolds, PTL

(* The overall result is made of all samples, after the last worker has    *)
(* gone and with both ends of the window written: the mutex the            *)
(* constructor takes and finalize_measure releases makes it so.            *)
THEOREM ReportIsCompleteHolds == Spec => []ReportIsComplete
<1>1. DataInv => ReportIsComplete
  BY DEF DataInv
<1> QED BY <1>1, DataInvHolds, PTL

(* The progress never passes 100%, and is 100% when the workers are done.  *)
THEOREM ProgressBoundedHolds == Spec => []ProgressBounded
<1>1. TypeOK /\ DataInv => ProgressBounded
  <2> SUFFICES ASSUME TypeOK, DataInv PROVE ProgressBounded
    OBVIOUS
  <2>1. DoneOps \in SUBSET Ops /\ cur_progress = Cardinality(DoneOps)
    BY DEF DataInv, ProgressInv, DoneOps
  <2>2. cur_progress <= MaxProgress
    BY <2>1, OpsAreFinite, FS_Subset
  <2>3. ASSUME AllExited PROVE cur_progress = MaxProgress
    <3>1. ASSUME NEW w \in Thread PROVE Done(w) >= NrOp[w] /\ Done(w) \in Int
      <4>1. wpc[w] = "exited"
        BY <2>3 DEF AllExited
      <4>2. ~ HasNextOp(w) /\ Done(w) = cur_nr_op[w]
        BY <4>1 DEF DataInv, OpsInv, FinishedWorkers, Done, Underway, Unpushed
      <4> QED BY <4>2, NrOpAssumption DEF HasNextOp, TypeOK, WorkVarsTypeOK
    <3>2. ASSUME NEW p \in Ops PROVE p \in DoneOps
      <4>1. p[1] \in Thread /\ p[2] \in 1 .. NrOp[p[1]] /\ NrOp[p[1]] \in Int
        BY OpsElements, NrOpAssumption
      <4> QED BY <3>1, <4>1 DEF DoneOps
    <3>3. DoneOps = Ops
      BY <2>1, <3>2
    <3> QED BY <2>1, <3>3, OpsAreFinite
  <2> QED BY <2>2, <2>3 DEF ProgressBounded
<1> QED BY <1>1, TypeCorrect, DataInvHolds, PTL

-----------------------------------------------------------------------------
(* One run implements MeasuredRun.                                         *)

Reported == {[ops |-> r.ops, latencies |-> r.latencies] : r \in report}

(* MeasuredRun counts its samples as this module does.                     *)
LEMMA SameCardinality == \A S : Measured!Cardinality(S) = Cardinality(S)
BY DEF Cardinality, Measured!Cardinality

(* A step that changes nothing MeasuredRun speaks of.                      *)
LEMMA StutterStep ==
  ASSUME UNCHANGED <<client_ids, client_vec, report, aborted>>,
         main' \in {"unlock", "save", "join_monitor", "cleanup"} <=>
           main \in {"unlock", "save", "join_monitor", "cleanup"},
         main' = "returned" <=> main = "returned"
  PROVE  UNCHANGED Measured!absVars
<1>1. Recorded' = Recorded
  BY RecordedKept
<1>2. Phase' = Phase
  BY DEF Phase
<1> QED BY <1>1, <1>2 DEF Measured!absVars

(* Every step of a run that has not aborted is one of MeasuredRun or       *)
(* changes nothing it speaks of.                                           *)
LEMMA WorkerRefines ==
  ASSUME TypeOK, LifecycleInv, DataInv, ~ aborted, NEW w \in Thread, Worker(w)
  PROVE  [Measured!Next]_Measured!absVars
<1>1. UNCHANGED <<main, client_ids, report, aborted>> /\ ~ AllExited
  <2>1. UNCHANGED aborted
    BY DEF Worker, StartMeasure, StoreStartTime, StoreRtTime, NextOp, DoOperation,
           RecordCheck, RecordCount, RecordPush, WorkerProgress, FinishMeasure,
           StoreFinished, StoreEndTime, ResetClient, WorkerAt
  <2> QED BY <2>1, WorkerFrame DEF AllExited
<1>2. CASE RecordPush(w)
  <2>1. Phase = "running" /\ Phase' = "running"
    BY <1>1 DEF Phase, LifecycleInv, MainInv
  <2>2. \E s \in RunSample \ Recorded : Recorded' = Recorded \cup {s}
    BY <1>2, PushedSample
  <2>3. Reported' = Reported
    BY <1>1 DEF Reported
  <2>4. Measured!Record
    BY <2>1, <2>2, <2>3 DEF Measured!Record, Reported
  <2> QED BY <2>4 DEF Measured!Next
<1>3. CASE ~ RecordPush(w)
  <2>1. UNCHANGED client_vec
    BY <1>3 DEF Worker, StartMeasure, StoreStartTime, StoreRtTime, NextOp, DoOperation,
           RecordCheck, RecordCount, WorkerProgress, FinishMeasure,
           StoreFinished, StoreEndTime, ResetClient, FetchAddActive, FetchSubActive,
           SetStartTime, SetRtTime, SetFinished, SetEndTime, CountOp, RecordProgress,
           mvars, vecs
  <2> QED BY <1>1, <2>1, StutterStep
<1> QED BY <1>2, <1>3

(* The same for the monitor thread.                                        *)
LEMMA MonitorRefines ==
  ASSUME TypeOK, LifecycleInv, DataInv, ~ aborted, Monitor
  PROVE  [Measured!Next]_Measured!absVars
<1>1. UNCHANGED <<main, client_ids, client_vec, aborted>>
  BY MonitorFrame DEF Monitor, MonitorLoop, MonitorSeesInactive, MonitorSeesActive,
     MonitorExchange, MonitorStoreRtTime, MonitorPrint, MonitorLock, MonitorReport,
     MonitorUnlock, MonitorAt, ExchangeRtCount, SetRtTime, TakeLock, ReleaseLock, mvars,
     vecs
<1>2. CASE MonitorReport
  <2>1. /\ mon = "report"
        /\ report' = {[ops |-> op_count_arr, latencies |-> final_vec,
                       start |-> start_time, end |-> end_time]}
    BY <1>2 DEF MonitorReport, MonitorAt
  <2>2. /\ main \in {"save", "join_monitor"}
        /\ \A t \in OpType : /\ final_vec[t] = RecordedOf(t)
                             /\ op_count_arr[t] = Cardinality(RecordedOf(t))
    BY <2>1, ReportedRow
  <2>3. Phase = "closed" /\ Phase' = "closed"
    BY <1>1, <2>2 DEF Phase
  <2>4. Reported = {}
    BY <2>1 DEF LifecycleInv, LockInv, Reported
  <2>5. Reported' = {[ops |-> op_count_arr, latencies |-> final_vec]}
    BY <2>1 DEF Reported
  <2>6. \A t \in OpType : Measured!OfType(t) = RecordedOf(t)
    BY DEF Measured!OfType, RecordedOf
  <2>7. /\ op_count_arr = [t \in OpType |-> Measured!Cardinality(Measured!OfType(t))]
        /\ final_vec = [t \in OpType |-> Measured!OfType(t)]
    BY <2>2, <2>6, SameCardinality DEF TypeOK, OpMeasurementTypeOK, CountsTypeOK, VecsTypeOK
  <2>8. Recorded' = Recorded
    BY <1>1, RecordedKept
  <2>9. Reported' = {[ops |-> [t \in OpType |-> Measured!Cardinality(Measured!OfType(t))],
                      latencies |-> [t \in OpType |-> Measured!OfType(t)]]}
    BY <2>5, <2>7
  <2>10. Measured!Report
    BY <2>3, <2>4, <2>8, <2>9 DEF Measured!Report, Reported
  <2> QED BY <2>10 DEF Measured!Next
<1>3. CASE ~ MonitorReport
  <2>1. UNCHANGED report
    BY <1>3 DEF Monitor, MonitorLoop, MonitorSeesInactive, MonitorSeesActive,
       MonitorExchange, MonitorStoreRtTime, MonitorPrint, MonitorLock, MonitorUnlock
  <2> QED BY <1>1, <2>1, StutterStep
<1> QED BY <1>2, <1>3

(* The same for the main thread.                                           *)
LEMMA MainRefines ==
  ASSUME TypeOK, LifecycleInv, DataInv, ~ aborted, Main
  PROVE  [Measured!Next]_Measured!absVars
<1>1. UNCHANGED <<report, aborted>> /\ Reported' = Reported
  BY DEF Main, CreateClient, SpawnWorker, SpawnMonitor, JoinWorker, FinalizeMeasure,
         PublishResult, SaveLatency, JoinMonitor, DestroyClient, LoopStep, MainAt, monVars,
         Reported
<1>2. ASSUME ~ CreateClient PROVE UNCHANGED <<client_ids, client_vec>>
  BY <1>2 DEF Main, SpawnWorker, SpawnMonitor, JoinWorker, FinalizeMeasure,
     PublishResult, SaveLatency, JoinMonitor, DestroyClient, FinalizeVectors, ReleaseLock,
     mvars, vecs
<1>3. CASE CreateClient
  <2>1. main = "create" /\ main' \in {"create", "spawn"}
    BY <1>3 DEF CreateClient, LoopStep, MainAt
  <2>2. Recorded' = Recorded
    BY <1>3, CreateClientRecorded
  <2>3. Phase' = Phase
    BY <1>1, <2>1 DEF Phase
  <2> QED BY <1>1, <2>2, <2>3 DEF Measured!absVars, Reported
<1>4. CASE FinalizeMeasure
  <2>1. main = "finalize" /\ main' = "unlock" /\ Recorded' = Recorded
    BY <1>4, RecordedKept DEF FinalizeMeasure, MainAt, FinalizeVectors
  <2>2. Phase = "running" /\ Phase' = "closed"
    BY <1>1, <2>1 DEF Phase
  <2>3. Measured!Close
    BY <1>1, <2>1, <2>2 DEF Measured!Close, Reported
  <2> QED BY <2>3 DEF Measured!Next
<1>5. CASE DestroyClient
  <2>1. main = "cleanup" /\ main' \in {"cleanup", "returned"} /\ UNCHANGED mvars
    BY <1>5 DEF DestroyClient, LoopStep, MainAt
  <2>2. Recorded' = Recorded
    BY <2>1, RecordedKept DEF mvars, vecs
  <2>3. Reported # {}
    BY <2>1 DEF LifecycleInv, LockInv, Reported
  <2>4. CASE main' = "cleanup"
    <3>1. Phase' = Phase
      BY <1>1, <2>1, <2>4 DEF Phase
    <3> QED BY <1>1, <2>2, <3>1 DEF Measured!absVars, Reported
  <2>5. CASE main' = "returned"
    <3>1. Phase = "closed" /\ Phase' = "returned"
      BY <1>1, <2>1, <2>5 DEF Phase
    <3>2. Measured!Return
      BY <1>1, <2>2, <2>3, <3>1 DEF Measured!Return, Reported
    <3> QED BY <3>2 DEF Measured!Next
  <2> QED BY <2>1, <2>4, <2>5
<1>6. CASE \/ SpawnWorker \/ SpawnMonitor \/ JoinWorker \/ PublishResult
           \/ SaveLatency \/ JoinMonitor
  <2>1. /\ main' \in {"unlock", "save", "join_monitor", "cleanup"} <=>
             main \in {"unlock", "save", "join_monitor", "cleanup"}
        /\ main # "returned" /\ main' # "returned"
    BY <1>6 DEF SpawnWorker, SpawnMonitor, JoinWorker, PublishResult, SaveLatency,
                JoinMonitor, LoopStep, MainAt
  <2>2. ~ CreateClient
    BY <1>6 DEF SpawnWorker, SpawnMonitor, JoinWorker, PublishResult, SaveLatency,
                JoinMonitor, CreateClient, LoopStep, MainAt
  <2> QED BY <1>1, <1>2, <2>1, <2>2, StutterStep
<1> QED BY <1>3, <1>4, <1>5, <1>6 DEF Main

(* An exception aborts the run, and a run that has stopped stays as it is. *)
LEMMA StopRefines ==
  ASSUME TypeOK, LifecycleInv, (~ aborted /\ Throws) \/ UNCHANGED vars
  PROVE  [Measured!Next]_Measured!absVars
<1>1. UNCHANGED <<client_ids, client_vec, report, main>>
  BY ThrowsFrame DEF mvars, vecs, mainVars, monVars
<1>2. CASE ~ aborted /\ Throws
  <2>1. aborted' = TRUE
    BY <1>2 DEF Throws, MainThrows, WorkerThrows
  <2>2. main # "returned"
    BY <1>2 DEF Throws, MainThrows, WorkerThrows, LifecycleInv, MainInv, AllExited
  <2>3. Phase \in {"running", "closed"} /\ Phase' = "aborted"
    BY <1>2, <2>1, <2>2 DEF Phase
  <2>4. Recorded' = Recorded /\ Reported' = Reported
    BY <1>1, RecordedKept DEF Reported
  <2>5. Measured!Abort
    BY <2>3, <2>4 DEF Measured!Abort, Reported
  <2> QED BY <2>5 DEF Measured!Next
<1>3. CASE UNCHANGED vars
  BY <1>1, <1>3, StutterStep DEF vars
<1> QED BY <1>2, <1>3

(* run_workload_with_op_measurement keeps the promise of MeasuredRun: the  *)
(* samples recorded when finalize_measure closes the set are those the one *)
(* report counts and ranks, and a run that returns has reported.           *)
THEOREM MeasuredRunImplemented == Spec => ImplementsMeasuredRun
<1>1. Init => Measured!Init
  <2> SUFFICES ASSUME Init PROVE Measured!Init
    OBVIOUS
  <2>1. Recorded = {} /\ Reported = {}
    BY DEF Init, OpMeasurementInit, Recorded, Reported
  <2>2. Phase = "running"
    BY DEF Init, Phase
  <2> QED BY <2>1, <2>2 DEF Measured!Init, Reported
<1>2. TypeOK /\ LifecycleInv /\ DataInv /\ [Next]_vars => [Measured!Next]_Measured!absVars
  BY WorkerRefines, MonitorRefines, MainRefines, StopRefines DEF Next, Stopped
<1> QED
  BY <1>1, <1>2, TypeCorrect, Lifecycle, DataInvHolds, PTL
     DEF Spec, ImplementsMeasuredRun, Measured!Spec
=============================================================================
