------------------------------ MODULE RedisRun ------------------------------
(***************************************************************************)
(* run_redis over RedisClients (redis/redis_client.cpp) and one Redis      *)
(* server, through a warm-up and a measured run.  With batch_size = 1 a    *)
(* client waits for the reply to each command; otherwise it appends        *)
(* commands to hiredis's output buffer and reads all outstanding replies   *)
(* when the batch is full or the operation is the worker's last.           *)
(*                                                                         *)
(* hiredis and the server are not part of the repository.  They are        *)
(* modelled as the code uses them: redisAppendCommand only extends a       *)
(* buffer, redisGetReply writes the buffer when no reply is at hand and    *)
(* then waits for one, replies come in the order of the commands, and the  *)
(* server executes one command at a time, or refuses it with a reply of    *)
(* type error, which the client takes for any other.  Either may fail.     *)
(***************************************************************************)
EXTENDS Workload, ReplyMemory, FiniteSets

CONSTANTS NrEntry,      \* keys
          Configs,      \* the configurations considered
          Types,        \* the types a uniform workload makes
          Hash,         \* fnv1_64_hash modulo nr_entry, of a latest workload
          Missing,      \* no value
          OK, Refused   \* what a SET, and any refused command, is answered with

ASSUME NrEntryAssumption == NrEntry \in Nat \ {0}
ASSUME ConfigsAssumption ==
  \A cfg \in Configs :
    /\ cfg.batch_size \in Int
    /\ cfg.request_distribution \in {"uniform", "latest"}
    /\ cfg.nr_warmup_op \in Nat /\ cfg.nr_op \in Nat
    /\ cfg.refuses \in BOOLEAN
ASSUME TypesAssumption == Types \subseteq OpTypes
ASSUME HashAssumption == Hash \in [0 .. NrEntry -> 0 .. NrEntry - 1]
ASSUME MissingAssumption == Missing \notin Client \cup {OK}

Key == 0 .. NrEntry - 1

VARIABLES
  config,                 \* of the program, and whether the server refuses commands
  pc,                     \* of each worker
  cur_nr_op, cur_ack_key, \* of its workload
  op,                     \* the Operation it passes to do_operation
  cur_batch,              \* of its RedisClient
  out, wire, replies,     \* of its connection: buffered, sent, answered
  store,                  \* the server's data: the client that wrote a key last
  aborted                 \* std::terminate was called

workVars == <<cur_nr_op, cur_ack_key, op>>
vars == <<config, lifecycleVars, replyVars, pc, workVars, cur_batch,
          out, wire, replies, store, aborted>>

NoOp == [type |-> "none", key |-> 0, nr |-> 0, is_last_op |-> FALSE]

Init ==
  /\ config \in Configs
  /\ LifecycleInit(config.nr_warmup_op) /\ ReplyInit
  /\ pc = [c \in Client |-> "loop"]
  /\ cur_nr_op = [c \in Client |-> 0]
  /\ cur_ack_key = [c \in Client |-> 0]
  /\ op = [c \in Client |-> NoOp]
  /\ cur_batch = [c \in Client |-> 0]
  /\ out = [c \in Client |-> <<>>]
  /\ wire = [c \in Client |-> <<>>]
  /\ replies = [c \in Client |-> <<>>]
  /\ store = [k \in Key |-> Missing]
  /\ aborted = FALSE

-----------------------------------------------------------------------------
(* The main thread.                                                        *)

(* New workloads, and new clients: what a connection still holds is freed  *)
(* with its context.                                                       *)
NextRun ==
  /\ NextRound
  /\ pc' = [c \in Client |-> "loop"]
  /\ cur_nr_op' = [c \in Client |-> 0]
  /\ cur_ack_key' = [c \in Client |-> 0]
  /\ cur_batch' = [c \in Client |-> 0]
  /\ out' = [c \in Client |-> <<>>]
  /\ wire' = [c \in Client |-> <<>>]
  /\ replies' = [c \in Client |-> <<>>]
  /\ UNCHANGED <<replyVars, op, store, aborted>>

Main ==
  \/ /\ \/ CreateClient /\ UNCHANGED replyVars
        \/ (\A c \in Client : pc[c] = "exited") /\ JoinWorkers /\ UNCHANGED replyVars
        \/ JoinMonitor /\ UNCHANGED replyVars
        \/ CloseClient /\ FreeReply(thread_index)
        \/ DeleteClient /\ DestroyReply(thread_index)
     /\ UNCHANGED <<pc, workVars, cur_batch, out, wire, replies, store, aborted>>
  \/ NextRun

(* A client cannot connect, or the latencies cannot be saved.              *)
MainFails ==
  /\ main \in {"create", "stat"}
  /\ aborted' = TRUE
  /\ UNCHANGED <<lifecycleVars, replyVars, pc, workVars, cur_batch, out, wire, replies, store>>

-----------------------------------------------------------------------------
(* The worker and its workload.                                            *)

Goto(c, from, to) ==
  /\ main = "run"
  /\ pc[c] = from
  /\ pc' = [pc EXCEPT ![c] = to]
  /\ UNCHANGED lifecycleVars

NrOp == IF round = 0 THEN config.nr_warmup_op ELSE config.nr_op
HasNextOp(c) == cur_nr_op[c] < NrOp

(* What next_op may make, with the cur_ack_key it leaves.                  *)
Offers(c) ==
  IF config.request_distribution = "latest"
  THEN UNION {LET type == LatestType(wantsRead, cur_ack_key[c], NrEntry)
              IN  {[type |-> type, key |-> Hash[index],
                    ack |-> AckAfter(type, cur_ack_key[c])] :
                     index \in LatestIndices(type, cur_ack_key[c], NrEntry)} :
              wantsRead \in BOOLEAN}
  ELSE [type : Types, key : Key, ack : {0}]

NextOp(c) ==
  /\ HasNextOp(c)
  /\ Goto(c, "loop", "do")
  /\ cur_nr_op' = [cur_nr_op EXCEPT ![c] = @ + 1]
  /\ \E offer \in Offers(c) :
       /\ op' = [op EXCEPT ![c] = [type |-> offer.type, key |-> offer.key,
                                   nr |-> cur_nr_op'[c],
                                   is_last_op |-> ~ (cur_nr_op'[c] < NrOp)]]
       /\ cur_ack_key' = [cur_ack_key EXCEPT ![c] = offer.ack]
  /\ UNCHANGED <<replyVars, cur_batch, out, wire, replies, store, aborted>>

(* The worker resets its client, which does nothing, and exits; its        *)
(* Operation is gone.                                                      *)
Exit(c) ==
  /\ ~ HasNextOp(c)
  /\ Goto(c, "loop", "exited")
  /\ op' = [op EXCEPT ![c] = NoOp]
  /\ PointBuffer(c, Null)
  /\ UNCHANGED <<last_reply, heap, double_free, cur_nr_op, cur_ack_key, cur_batch,
                 out, wire, replies, store, aborted>>

-----------------------------------------------------------------------------
(* RedisClient::do_operation.                                              *)

IsWrite(c) == op[c].type \in {"INSERT", "UPDATE"}
Command(c) == [write |-> IsWrite(c), key |-> op[c].key, nr |-> op[c].nr]

Mut_Flushes(c, batch) == batch >= config.batch_size
Flushes(c, batch) == batch >= config.batch_size \/ op[c].is_last_op

(* redisCommand: append, and wait for the reply.                           *)
DoSingle(c) ==
  /\ config.batch_size = 1
  /\ op[c].type \in {"READ", "INSERT", "UPDATE"}
  /\ Goto(c, "do", "single")
  /\ out' = [out EXCEPT ![c] = Append(@, Command(c))]
  /\ UNCHANGED <<replyVars, workVars, cur_batch, wire, replies, store, aborted>>

Mut_DoBatched(c) ==
  /\ config.batch_size # 1
  /\ op[c].type \in {"READ", "INSERT", "UPDATE"}
  /\ Goto(c, "do", IF Flushes(c, cur_batch[c] + 1) THEN "flush" ELSE "loop")
  /\ out' = [out EXCEPT ![c] = Append(@, Command(c))]
  /\ cur_batch' = [cur_batch EXCEPT ![c] = IF op[c].is_last_op THEN @ ELSE @ + 1]
  /\ UNCHANGED <<replyVars, workVars, wire, replies, store, aborted>>

DoBatched(c) ==
  /\ config.batch_size # 1
  /\ op[c].type \in {"READ", "INSERT", "UPDATE"}
  /\ Goto(c, "do", IF Flushes(c, cur_batch[c] + 1) THEN "flush" ELSE "loop")
  /\ out' = [out EXCEPT ![c] = Append(@, Command(c))]
  /\ cur_batch' = [cur_batch EXCEPT ![c] = @ + 1]
  /\ UNCHANGED <<replyVars, workVars, wire, replies, store, aborted>>

(* SCAN and READ_MODIFY_WRITE: invalid op type.                            *)
DoInvalid(c) ==
  /\ main = "run" /\ pc[c] = "do"
  /\ op[c].type \in {"SCAN", "READ_MODIFY_WRITE"}
  /\ aborted' = TRUE
  /\ UNCHANGED <<lifecycleVars, replyVars, pc, workVars, cur_batch, out, wire, replies, store>>

(* redisGetReply, no reply at hand: the buffer goes out.                   *)
WriteBuffer(c) ==
  /\ pc[c] \in {"single", "flush"}
  /\ replies[c] = <<>> /\ out[c] # <<>>
  /\ wire' = [wire EXCEPT ![c] = @ \o out[c]]
  /\ out' = [out EXCEPT ![c] = <<>>]
  /\ UNCHANGED <<lifecycleVars, replyVars, pc, workVars, cur_batch, replies, store, aborted>>

Mut_TakeReply(c) ==
  /\ replies[c] # <<>>
  /\ replies' = [replies EXCEPT ![c] = Tail(@)]
  /\ SetLastReply(c, Head(replies[c]).nr)
  /\ IF op[c].type = "READ" THEN PointBuffer(c, last_reply[c]) ELSE UNCHANGED reply_value_buffer

(* The reply is kept as last_reply, and the one before it is freed.        *)
TakeReply(c) ==
  /\ replies[c] # <<>>
  /\ replies' = [replies EXCEPT ![c] = Tail(@)]
  /\ SetLastReply(c, Head(replies[c]).nr)
  /\ IF op[c].type = "READ" THEN PointBuffer(c, Head(replies[c]).nr)
                            ELSE UNCHANGED reply_value_buffer

SingleReply(c) ==
  /\ Goto(c, "single", "loop")
  /\ TakeReply(c)
  /\ UNCHANGED <<workVars, cur_batch, out, wire, store, aborted>>

Mut_LastOfBatch(c) == cur_batch[c] = 0
LastOfBatch(c) == cur_batch[c] = 1

FlushReply(c) ==
  /\ Goto(c, "flush", IF LastOfBatch(c) THEN "loop" ELSE "flush")
  /\ TakeReply(c)
  /\ cur_batch' = [cur_batch EXCEPT ![c] = @ - 1]
  /\ UNCHANGED <<workVars, out, wire, store, aborted>>

(* The connection is lost while the client waits.                          *)
ReplyFails(c) ==
  /\ pc[c] \in {"single", "flush"}
  /\ aborted' = TRUE
  /\ UNCHANGED <<lifecycleVars, replyVars, pc, workVars, cur_batch, out, wire, replies, store>>

-----------------------------------------------------------------------------
(* The server.                                                             *)

Answer(c, str) ==
  /\ wire' = [wire EXCEPT ![c] = Tail(@)]
  /\ replies' = [replies EXCEPT ![c] = Append(@, [nr |-> Head(wire[c]).nr, str |-> str])]
  /\ UNCHANGED <<lifecycleVars, replyVars, pc, workVars, cur_batch, out, aborted>>

Execute(c) ==
  /\ wire[c] # <<>>
  /\ LET command == Head(wire[c])
     IN  /\ store' = IF command.write THEN [store EXCEPT ![command.key] = c] ELSE store
         /\ Answer(c, IF command.write THEN OK ELSE store[command.key])

(* The server is out of memory, or loading, or may not write.              *)
Refuse(c) ==
  /\ config.refuses
  /\ wire[c] # <<>>
  /\ Answer(c, Refused)
  /\ UNCHANGED store

-----------------------------------------------------------------------------
Worker(c) ==
  \/ NextOp(c) \/ Exit(c)
  \/ DoSingle(c) \/ DoBatched(c) \/ DoInvalid(c)
  \/ WriteBuffer(c) \/ SingleReply(c) \/ FlushReply(c)

Server(c) == Execute(c) \/ Refuse(c)

Running(A) == ~ aborted /\ A /\ UNCHANGED config

Next ==
  \/ Running(Main \/ MainFails)
  \/ \E c \in Client : Running(Worker(c) \/ Server(c) \/ ReplyFails(c))
  \/ (aborted \/ main = "done") /\ UNCHANGED vars

(* Every thread that can take a step is run, and the server executes what  *)
(* it has received.  That the monitor returns is not among it: main may    *)
(* wait for it for ever.                                                   *)
Fairness ==
  /\ WF_vars(Running(main # "stat" /\ Main))
  /\ \A c \in Client : WF_vars(Running(Worker(c))) /\ WF_vars(Running(Server(c)))

Spec == Init /\ [][Next]_vars
FairSpec == Spec /\ Fairness

-----------------------------------------------------------------------------
(* Properties.                                                             *)

Outstanding(c) == Len(out[c]) + Len(wire[c]) + Len(replies[c])
Ahead == IF config.batch_size < 1 THEN 1 ELSE config.batch_size

(* A batching client counts exactly the commands it has not read the reply *)
(* of, refused ones included.  If it counted more it would wait for ever;  *)
(* if it counted fewer, a later operation would be given an earlier one's  *)
(* reply.                                                                  *)
BatchCountsOutstanding ==
  \A c \in Client :
    IF config.batch_size = 1 THEN pc[c] # "single" => Outstanding(c) = 0
                     ELSE cur_batch[c] = Outstanding(c)

(* A client is never more than a batch ahead of the replies it has read,   *)
(* and has read them all when its worker exits: is_last_op flushes the     *)
(* batch that is not full.                                                 *)
BatchBounded ==
  \A c \in Client :
    /\ Outstanding(c) <= Ahead
    /\ pc[c] = "loop" => Outstanding(c) < Ahead
    /\ pc[c] = "exited" => Outstanding(c) = 0

(* A LatestWorkload counts a key as inserted before the server has it, for *)
(* the INSERT may still be in the batch; all the same no GET misses, if no *)
(* INSERT is refused.                                                      *)
LatestReadsHit ==
  config.request_distribution = "latest" /\ ~ config.refuses =>
    \A c \in Client : \A i \in DOMAIN replies[c] : replies[c][i].str # Missing

(* The Client interface: commands take effect in the order of the worker's *)
(* operations, at most a batch late, and none is left when it exits.  A    *)
(* refused one has no effect, and do_operation returns 0 all the same.     *)
Session == INSTANCE ClientSession WITH
  Client <- Client, Key <- Key, Missing <- Missing, Loaded <- Missing,
  ahead  <- Ahead, refuses <- config.refuses,
  given  <- [c \in Client |->
              [i \in 1 .. Len(wire[c]) + Len(out[c]) |->
                 [write |-> (wire[c] \o out[c])[i].write,
                  key   |-> (wire[c] \o out[c])[i].key]]],
  store  <- store,
  left   <- {c \in Client : round = 1 /\ pc[c] = "exited"},
  failed <- aborted

ImplementsSession == Session!Spec

(* Every worker of either round gets the replies it waits for and exits,   *)
(* unless a failure ends the process.  (What main does then depends on the *)
(* monitor.)                                                               *)
WorkersExit == main = "run" ~> (aborted \/ \A c \in Client : pc[c] = "exited")

(* A READ delivers what it read: when do_operation has returned from it,   *)
(* reply_value_buffer (core/include/workload.h:31: "for READ") is the      *)
(* string of that READ's reply, and the reply has not been freed.          *)
ReplyBufferIsForRead ==
  \A c \in Client :
    pc[c] = "loop" /\ op[c].type = "READ" =>
      reply_value_buffer[c] = op[c].nr /\ op[c].nr \in heap[c]

(* A client that does not batch delivers the value of every READ.          *)
SingleReadDelivers == config.batch_size = 1 => ReplyBufferIsForRead
=============================================================================
