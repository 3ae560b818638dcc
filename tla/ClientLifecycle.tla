---------------------------- MODULE ClientLifecycle ----------------------------
(***************************************************************************)
(* The main thread of a benchmark program, as the clients of a store see   *)
(* it: for a warm-up, if one is asked for, and then for the measured run,  *)
(* it creates one client per thread, waits for the workers and then for    *)
(* the monitor, and lets the factory destroy the clients (see BenchRun for *)
(* the threads themselves).                                                *)
(*                                                                         *)
(* A client has one handle on its store: a connection, a context, or a     *)
(* session with its cursor.  The constructor opens it, close closes it,    *)
(* and the destructor closes it again unless close cleared the pointer.    *)
(***************************************************************************)
EXTENDS Integers

CONSTANT NrClient   \* nr_thread

ASSUME NrClientAssumption == NrClient \in Nat \ {0}

Client == 0 .. NrClient - 1

VARIABLES
  main,           \* where the main thread is
  round,          \* 0 for the warm-up, 1 for the measured run
  thread_index,   \* of its loops
  handle,         \* of each client: whether the pointer is set
  opened          \* of each client: handles opened minus handles closed

lifecycleVars == <<main, round, thread_index, handle, opened>>

(* The warm-up is skipped if it would make no operation.                   *)
LifecycleInit(nr_warmup_op) ==
  /\ main = "create"
  /\ round = IF nr_warmup_op = 0 THEN 1 ELSE 0
  /\ thread_index = 0
  /\ handle = [c \in Client |-> FALSE]
  /\ opened = [c \in Client |-> 0]

IsLastThread == thread_index = NrClient - 1

LoopStep(from, again, to) ==
  /\ main = from
  /\ main' = IF IsLastThread THEN to ELSE again
  /\ thread_index' = IF IsLastThread THEN 0 ELSE thread_index + 1
  /\ UNCHANGED round

CreateClient ==
  /\ LoopStep("create", "create", "run")
  /\ handle' = [handle EXCEPT ![thread_index] = TRUE]
  /\ opened' = [opened EXCEPT ![thread_index] = @ + 1]

JoinWorkers ==
  /\ main = "run" /\ main' = "stat"
  /\ UNCHANGED <<round, thread_index, handle, opened>>

(* The measurement is finalized and saved, and the monitor is joined.  The *)
(* monitor may never return, if no worker found all clients active at once *)
(* (see BenchRun): this step is one that main need not get to take.        *)
JoinMonitor ==
  /\ main = "stat" /\ main' = "close"
  /\ UNCHANGED <<round, thread_index, handle, opened>>

CloseIfSet(c) ==
  opened' = IF handle[c] THEN [opened EXCEPT ![c] = @ - 1] ELSE opened

Mut_CloseClient ==
  /\ main = "close" /\ main' = "delete"
  /\ CloseIfSet(thread_index)
  /\ UNCHANGED <<round, thread_index, handle>>

(* destroy_client: close, and then delete.                                 *)
CloseClient ==
  /\ main = "close" /\ main' = "delete"
  /\ CloseIfSet(thread_index)
  /\ handle' = [handle EXCEPT ![thread_index] = FALSE]
  /\ UNCHANGED <<round, thread_index>>

DeleteClient ==
  /\ LoopStep("delete", "close", IF round = 0 THEN "again" ELSE "done")
  /\ CloseIfSet(thread_index)
  /\ UNCHANGED handle

(* The measured run: new workloads, and new clients of the same factory.   *)
NextRound ==
  /\ main = "again" /\ main' = "create"
  /\ round' = 1
  /\ UNCHANGED <<thread_index, handle, opened>>

(* What a client opens is closed exactly once, although both close and the *)
(* destructor close it: every worker finds its client's handle set while   *)
(* it runs, close, which in one of the clients does not ask, finds it set, *)
(* and nothing is left open between the rounds or at the end.              *)
HandlesBalanced ==
  /\ \A c \in Client : opened[c] = IF handle[c] THEN 1 ELSE 0
  /\ main = "run" => \A c \in Client : handle[c]
  /\ main = "close" => handle[thread_index]
  /\ main \in {"again", "done"} => \A c \in Client : opened[c] = 0
=============================================================================
