---------------------------- MODULE WiredTigerRun ----------------------------
(***************************************************************************)
(* run_wt over WiredTigerClients (wiredtiger/wt_client.cpp): a factory     *)
(* with one connection, and for each round one client per thread, each     *)
(* with a session and a cursor of its own.                                 *)
(*                                                                         *)
(* WiredTiger is not part of the repository.  It is modelled as the code   *)
(* uses it: an ordered table, calls that take effect at once and may fail, *)
(* a search that finds exactly its key, a next that goes to the next key   *)
(* present, an insert that overwrites.  Nothing removes a key.             *)
(***************************************************************************)
EXTENDS Workload, ClientLifecycle, FiniteSetsExt

CONSTANTS NrWarmupOp, NrOp,  \* operations of each worker in the two rounds
          NrEntry,      \* keys
          ScanLengths,  \* the values of scan_length considered
          LoadedSets,   \* what the table may hold at the start
          Types,        \* the types the workloads make
          Missing, Loaded

ASSUME NrOpAssumption == NrWarmupOp \in Nat /\ NrOp \in Nat
ASSUME NrEntryAssumption == NrEntry \in Nat \ {0}
ASSUME ScanLengthsAssumption == ScanLengths \subseteq Int
ASSUME TypesAssumption == Types \subseteq OpTypes
ASSUME MissingAssumption == Missing \notin Client \cup {Loaded}
ASSUME LoadedSetsAssumption == \A set \in LoadedSets : set \subseteq 0 .. NrEntry - 1

Key == 0 .. NrEntry - 1

VARIABLES
  conn,                        \* the factory's connection is open
  pc, cur_nr_op, op,           \* of each worker
  visited,                     \* keys the operation at hand has read, in order
  there,                       \* history: keys present when it read the first
  table, scan_length,
  failure                      \* why the process ended, if it did

workVars == <<pc, cur_nr_op, op, visited, there>>
vars == <<lifecycleVars, conn, workVars, table, scan_length, failure>>

NoOp == [type |-> "none", key |-> 0]
Present == {k \in Key : table[k] # Missing}

Init ==
  /\ LifecycleInit(NrWarmupOp)
  /\ conn = TRUE
  /\ pc = [c \in Client |-> "loop"]
  /\ cur_nr_op = [c \in Client |-> 0]
  /\ op = [c \in Client |-> NoOp]
  /\ visited = [c \in Client |-> <<>>]
  /\ there = [c \in Client |-> {}]
  /\ \E set \in LoadedSets : table = [k \in Key |-> IF k \in set THEN Loaded ELSE Missing]
  /\ scan_length \in ScanLengths
  /\ failure = "none"

-----------------------------------------------------------------------------
(* The main thread.  A client's handle is its session; the cursor goes     *)
(* with it.                                                                *)

NextRun ==
  /\ NextRound
  /\ pc' = [c \in Client |-> "loop"]
  /\ cur_nr_op' = [c \in Client |-> 0]
  /\ UNCHANGED <<conn, op, visited, there, table, failure>>

(* ~WiredTigerFactory: the statistics, if asked for, through a session of  *)
(* their own, then the connection.                                         *)
Disconnect ==
  /\ main = "done" /\ main' = "disconnected"
  /\ conn' = FALSE
  /\ UNCHANGED <<round, thread_index, handle, opened, workVars, table, failure>>

Main ==
  \/ /\ \/ CreateClient
        \/ (\A c \in Client : pc[c] = "exited") /\ JoinWorkers
        \/ JoinMonitor
        \/ CloseClient
        \/ DeleteClient
     /\ UNCHANGED <<conn, workVars, table, failure>>
  \/ NextRun
  \/ Disconnect

(* open_session, open_cursor or close fails.  No latencies are saved.      *)
MainFails ==
  /\ main \in {"create", "close", "done"}
  /\ failure' = "store"
  /\ UNCHANGED <<lifecycleVars, conn, workVars, table>>

-----------------------------------------------------------------------------
(* The workers.                                                            *)

Goto(c, from, to) ==
  /\ main = "run"
  /\ pc[c] = from
  /\ pc' = [pc EXCEPT ![c] = to]
  /\ UNCHANGED <<lifecycleVars, conn, failure>>

HasNextOp(c) == cur_nr_op[c] < IF round = 0 THEN NrWarmupOp ELSE NrOp

NextOp(c) ==
  /\ HasNextOp(c)
  /\ Goto(c, "loop", "op")
  /\ cur_nr_op' = [cur_nr_op EXCEPT ![c] = @ + 1]
  /\ \E type \in Types, key \in Key : op' = [op EXCEPT ![c] = [type |-> type, key |-> key]]
  /\ UNCHANGED <<visited, there, table>>

(* do_operation: reset the cursor and set the key, and for a write the     *)
(* value.                                                                  *)
SetUp(c) ==
  /\ Goto(c, "op", IF op[c].type \in {"UPDATE", "INSERT"} THEN "insert" ELSE "search")
  /\ visited' = [visited EXCEPT ![c] = <<>>]
  /\ there' = [there EXCEPT ![c] = {}]
  /\ UNCHANGED <<cur_nr_op, op, table>>

(* Keys a SCAN goes on to read after it has read the first n.              *)
Mut_MoreToScan(n) == n - 1 < scan_length
MoreToScan(n) == n - 1 < scan_length - 1

AfterRead(c, n) ==
  IF op[c].type = "SCAN" /\ MoreToScan(n) THEN "next"
  ELSE IF op[c].type = "READ_MODIFY_WRITE" THEN "modify" ELSE "loop"

Search(c) ==
  /\ op[c].key \in Present
  /\ Goto(c, "search", AfterRead(c, 1))
  /\ visited' = [visited EXCEPT ![c] = <<op[c].key>>]
  /\ there' = [there EXCEPT ![c] = Present]
  /\ UNCHANGED <<cur_nr_op, op, table>>

(* The value of a READ_MODIFY_WRITE is set, to go with the key found.      *)
SetValue(c) ==
  /\ Goto(c, "modify", "insert")
  /\ UNCHANGED <<cur_nr_op, op, visited, there, table>>

Mut_Insert(c) ==
  /\ Goto(c, "insert", "loop")
  /\ table' = IF table[op[c].key] = Missing THEN [table EXCEPT ![op[c].key] = c] ELSE table
  /\ UNCHANGED <<cur_nr_op, op, visited, there>>

(* do_insert and do_update are the same call, and overwrite.               *)
Insert(c) ==
  /\ Goto(c, "insert", "loop")
  /\ table' = [table EXCEPT ![op[c].key] = c]
  /\ UNCHANGED <<cur_nr_op, op, visited, there>>

LastRead(c) == visited[c][Len(visited[c])]
KeysAhead(c) == {k \in Present : k > LastRead(c)}

ScanNext(c) ==
  /\ Goto(c, "next", AfterRead(c, Len(visited[c]) + 1))
  /\ KeysAhead(c) # {}
  /\ visited' = [visited EXCEPT ![c] = Append(@, Min(KeysAhead(c)))]
  /\ UNCHANGED <<cur_nr_op, op, there, table>>

(* client->reset(); the worker's Operation goes with it.                   *)
Exit(c) ==
  /\ ~ HasNextOp(c)
  /\ Goto(c, "loop", "exited")
  /\ op' = [op EXCEPT ![c] = NoOp]
  /\ visited' = [visited EXCEPT ![c] = <<>>]
  /\ there' = [there EXCEPT ![c] = {}]
  /\ UNCHANGED <<cur_nr_op, table>>

(* Any return value but 0 makes the client throw, WT_NOTFOUND included:    *)
(* from search if the key is not there, from next at the end of the table. *)
Throws(c) ==
  /\ main = "run"
  /\ \/ pc[c] \in {"search", "next", "insert"} /\ failure' = "store"
     \/ pc[c] = "loop" /\ ~ HasNextOp(c) /\ failure' = "store"
     \/ pc[c] = "search" /\ op[c].key \notin Present /\ failure' = "not_found"
     \/ pc[c] = "next" /\ KeysAhead(c) = {} /\ failure' = "past_end"
  /\ UNCHANGED <<lifecycleVars, conn, workVars, table>>

-----------------------------------------------------------------------------
Worker(c) ==
  \/ NextOp(c) \/ SetUp(c) \/ Search(c) \/ SetValue(c) \/ Insert(c)
  \/ ScanNext(c) \/ Exit(c) \/ Throws(c)

Terminated == failure # "none" \/ main = "disconnected"
Stopped == Terminated /\ UNCHANGED <<lifecycleVars, conn, workVars, table, failure>>

Next ==
  /\ \/ failure = "none" /\ (Main \/ MainFails)
     \/ failure = "none" /\ \E c \in Client : Worker(c)
     \/ Stopped
  /\ UNCHANGED scan_length

Spec == Init /\ [][Next]_vars

-----------------------------------------------------------------------------
(* Properties.                                                             *)

(* Every session is closed once, through both rounds, and all are before   *)
(* the connection they belong to.                                          *)
SessionsBalanced == HandlesBalanced /\ (~ conn => \A c \in Client : ~ handle[c])

Between(keys, from, to) == {k \in keys : from <= k /\ k <= to}

(* A SCAN that returns has read as many records as scan_length says (one   *)
(* at least), in ascending order from the key of the operation, and has    *)
(* not passed over a key that was there when it began, whatever the other  *)
(* workers inserted meanwhile.                                             *)
ScanReadsRun ==
  \A c \in Client :
    pc[c] = "loop" /\ op[c].type = "SCAN" /\ visited[c] # <<>> =>
      LET n == Len(visited[c]) IN
      /\ n = IF scan_length > 1 THEN scan_length ELSE 1
      /\ visited[c][1] = op[c].key
      /\ \A i \in 1 .. n - 1 : visited[c][i] < visited[c][i + 1]
      /\ Between(there[c], op[c].key, LastRead(c)) \subseteq {visited[c][i] : i \in 1 .. n}

(* The Client interface, through both rounds: an operation has taken       *)
(* effect when do_operation returns; a READ_MODIFY_WRITE is a read and     *)
(* then a write, not one atomic operation.                                 *)
Session == INSTANCE ClientSession WITH
  Client <- Client, Key <- Key, Missing <- Missing, Loaded <- Loaded,
  ahead  <- 1, refuses <- FALSE,
  given  <- [c \in Client |->
              IF pc[c] \in {"search", "insert"}
              THEN <<[write |-> pc[c] = "insert", key |-> op[c].key]>> ELSE <<>>],
  store  <- table,
  left   <- {c \in Client : round = 1 /\ pc[c] = "exited"},
  failed <- failure # "none"

ImplementsSession == Session!Spec

(* A SCAN of a table that holds all keys reads scan_length records         *)
(* (ycsb_e.yaml: "scan_length: 100", "# for scan operation").              *)
ScansReachTheirLength == failure # "past_end"
=============================================================================
