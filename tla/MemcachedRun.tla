---------------------------- MODULE MemcachedRun ----------------------------
(***************************************************************************)
(* run_memcached over MemcachedClients (memcached/memcached_client.cpp)    *)
(* and one server, through a warm-up and a measured run.  A client waits   *)
(* for the answer to each command.                                         *)
(*                                                                         *)
(* libmemcached and the server are not part of the repository: a call      *)
(* executes at the server at some moment before it returns, and may fail   *)
(* before or after that.                                                   *)
(***************************************************************************)
EXTENDS Workload, ReplyMemory, FiniteSets

CONSTANTS NrWarmupOp, NrOp,  \* operations of each worker in the two rounds
          NrEntry,           \* keys
          Types,             \* the types the workloads make
          Missing, Loaded

ASSUME NrOpAssumption == NrWarmupOp \in Nat /\ NrOp \in Nat
ASSUME NrEntryAssumption == NrEntry \in Nat \ {0}
ASSUME TypesAssumption == Types \subseteq OpTypes

Key == 0 .. NrEntry - 1

VARIABLES
  pc, cur_nr_op, op,   \* of each worker
  answer,              \* what the server found for the GET under way
  table,
  failed               \* std::terminate was called

workVars == <<pc, cur_nr_op, op, answer, table>>
vars == <<lifecycleVars, replyVars, workVars, failed>>

NoOp == [type |-> "none", key |-> 0]

Init ==
  /\ LifecycleInit(NrWarmupOp) /\ ReplyInit
  /\ pc = [c \in Client |-> "loop"]
  /\ cur_nr_op = [c \in Client |-> 0]
  /\ op = [c \in Client |-> NoOp]
  /\ answer = [c \in Client |-> Missing]
  /\ table \in [Key -> {Missing, Loaded}]
  /\ failed = FALSE

-----------------------------------------------------------------------------
(* The main thread.                                                        *)

NextRun ==
  /\ NextRound
  /\ pc' = [c \in Client |-> "loop"]
  /\ cur_nr_op' = [c \in Client |-> 0]
  /\ UNCHANGED <<replyVars, op, answer, table, failed>>

Main ==
  \/ /\ \/ CreateClient /\ UNCHANGED replyVars
        \/ (\A c \in Client : pc[c] = "exited") /\ JoinWorkers /\ UNCHANGED replyVars
        \/ JoinMonitor /\ UNCHANGED replyVars
        \/ CloseClient /\ FreeReply(thread_index)
        \/ DeleteClient /\ DestroyReply(thread_index)
     /\ UNCHANGED <<workVars, failed>>
  \/ NextRun

(* No context can be made, or the latencies cannot be saved.               *)
MainFails ==
  /\ main \in {"create", "stat"}
  /\ failed' = TRUE
  /\ UNCHANGED <<lifecycleVars, replyVars, workVars>>

-----------------------------------------------------------------------------
(* The workers.                                                            *)

Goto(c, from, to) ==
  /\ main = "run"
  /\ pc[c] = from
  /\ pc' = [pc EXCEPT ![c] = to]
  /\ UNCHANGED <<lifecycleVars, failed>>

HasNextOp(c) == cur_nr_op[c] < IF round = 0 THEN NrWarmupOp ELSE NrOp

NextOp(c) ==
  /\ HasNextOp(c)
  /\ Goto(c, "loop", "op")
  /\ cur_nr_op' = [cur_nr_op EXCEPT ![c] = @ + 1]
  /\ \E type \in Types, key \in Key : op' = [op EXCEPT ![c] = [type |-> type, key |-> key]]
  /\ UNCHANGED <<replyVars, answer, table>>

IsWrite(c) == op[c].type \in {"INSERT", "UPDATE"}

Call(c) ==
  /\ IsWrite(c) \/ op[c].type = "READ"
  /\ Goto(c, "op", "sent")
  /\ UNCHANGED <<replyVars, cur_nr_op, op, answer, table>>

(* The server executes the command.                                        *)
Execute(c) ==
  /\ Goto(c, "sent", "answered")
  /\ IF IsWrite(c)
     THEN table' = [table EXCEPT ![op[c].key] = c] /\ UNCHANGED answer
     ELSE answer' = [answer EXCEPT ![c] = table[op[c].key]] /\ UNCHANGED table
  /\ UNCHANGED <<replyVars, cur_nr_op, op>>

Mut_SetReturns(c) ==
  /\ IsWrite(c)
  /\ Goto(c, "sent", "loop")
  /\ UNCHANGED <<replyVars, cur_nr_op, op, answer, table>>

SetReturns(c) ==
  /\ IsWrite(c)
  /\ Goto(c, "answered", "loop")
  /\ UNCHANGED <<replyVars, cur_nr_op, op, answer, table>>

Mut_GetReturns(c) ==
  /\ op[c].type = "READ" /\ answer[c] # Missing
  /\ Goto(c, "answered", "loop")
  /\ PointBuffer(c, last_reply[c])
  /\ SetLastReply(c, cur_nr_op[c])
  /\ answer' = [answer EXCEPT ![c] = Missing]
  /\ UNCHANGED <<cur_nr_op, op, table>>

GetReturns(c) ==
  /\ op[c].type = "READ" /\ answer[c] # Missing
  /\ Goto(c, "answered", "loop")
  /\ PointBuffer(c, cur_nr_op[c])
  /\ SetLastReply(c, cur_nr_op[c])
  /\ answer' = [answer EXCEPT ![c] = Missing]
  /\ UNCHANGED <<cur_nr_op, op, table>>

(* The worker's Operation is gone when it exits.                           *)
Exit(c) ==
  /\ ~ HasNextOp(c)
  /\ Goto(c, "loop", "exited")
  /\ op' = [op EXCEPT ![c] = NoOp]
  /\ PointBuffer(c, Null)
  /\ UNCHANGED <<last_reply, heap, double_free, cur_nr_op, answer, table>>

(* SCAN and READ_MODIFY_WRITE, a GET that finds nothing, a lost answer.    *)
Throws(c) ==
  /\ main = "run"
  /\ \/ pc[c] = "op" /\ op[c].type \in {"SCAN", "READ_MODIFY_WRITE"}
     \/ pc[c] \in {"sent", "answered"}
  /\ failed' = TRUE
  /\ UNCHANGED <<lifecycleVars, replyVars, workVars>>

-----------------------------------------------------------------------------
Worker(c) ==
  \/ NextOp(c) \/ Call(c) \/ Execute(c) \/ SetReturns(c) \/ GetReturns(c)
  \/ Exit(c) \/ Throws(c)

Stopped == (failed \/ main = "done") /\ UNCHANGED vars

Next ==
  \/ ~ failed /\ (Main \/ MainFails)
  \/ ~ failed /\ \E c \in Client : Worker(c)
  \/ Stopped

Spec == Init /\ [][Next]_vars

-----------------------------------------------------------------------------
(* Properties, besides HandlesBalanced and RepliesOwned.                   *)

(* reply_value_buffer is the value of the worker's last READ, and is still *)
(* allocated, until the worker's next READ has returned.                   *)
BufferNotFreed ==
  \A c \in Client :
    /\ reply_value_buffer[c] \in heap[c] \cup {Null}
    /\ pc[c] = "loop" /\ op[c].type = "READ" => reply_value_buffer[c] = cur_nr_op[c]

(* The Client interface, through both rounds: an operation has taken       *)
(* effect when do_operation returns, and none is under way when the worker *)
(* exits.                                                                  *)
Session == INSTANCE ClientSession WITH
  Client  <- Client, Key <- Key, Missing <- Missing, Loaded <- Loaded,
  ahead   <- 1, refuses <- FALSE,
  given   <- [c \in Client |->
               IF pc[c] = "sent" THEN <<[write |-> IsWrite(c), key |-> op[c].key]>>
                                 ELSE <<>>],
  store   <- table,
  left    <- {c \in Client : round = 1 /\ pc[c] = "exited"},
  failed  <- failed

ImplementsSession == Session!Spec
=============================================================================
