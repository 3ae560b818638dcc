---------------------------- MODULE MemcachedProofs ----------------------------
(***************************************************************************)
(* Contexts and replies of MemcachedRun, for every number of clients,      *)
(* operations and keys.                                                    *)
(***************************************************************************)
EXTENDS MemcachedRun, ClientProofs

Operation == [type : OpTypes \cup {"none"}, key : Key]

WorkType ==
  /\ pc \in [Client -> {"loop", "op", "sent", "answered", "exited"}]
  /\ cur_nr_op \in [Client -> Nat]
  /\ op \in [Client -> Operation]

(* The workers run only while main waits for them.                         *)
PhaseInv ==
  /\ main = "create" => \A c \in Client : pc[c] = "loop" /\ op[c] = NoOp
  /\ main \notin {"create", "run"} => \A c \in Client : pc[c] = "exited"

(* The reply a GET obtains is a new one; and the worker's Operation points *)
(* to the last, or nowhere.                                                *)
PointersInv ==
  \A c \in Client :
    /\ last_reply[c] <= cur_nr_op[c]
    /\ pc[c] \in {"op", "sent", "answered"} => last_reply[c] < cur_nr_op[c]
    /\ reply_value_buffer[c] \in {Null, last_reply[c]}
    /\ pc[c] = "loop" /\ op[c].type = "READ" => reply_value_buffer[c] = cur_nr_op[c]
    /\ pc[c] = "exited" => op[c] = NoOp /\ reply_value_buffer[c] = Null

WorkInv == WorkType /\ PhaseInv /\ PointersInv
IInv == MainInv /\ RepliesInv /\ WorkInv

-----------------------------------------------------------------------------
(* A worker that has no operation does not read.                           *)
LEMMA NoOpIsOperation == NoOp \in Operation /\ NoOp.type = "none" /\ Null = 0
BY NrEntryAssumption DEF NoOp, Operation, Key, Null

(* No client has been created and no operation made.                       *)
LEMMA IInvStarts == Init => IInv
<1> SUFFICES ASSUME Init PROVE IInv
  OBVIOUS
<1>1. MainInv
  BY LifecycleStarts DEF Init
<1>2. RepliesInv
  BY RepliesStart DEF Init, LifecycleInit
<1>3. WorkType
  BY NoOpIsOperation DEF Init, WorkType
<1>4. PhaseInv /\ PointersInv
  BY NoOpIsOperation DEF Init, ReplyInit, LifecycleInit, PhaseInv, PointersInv
<1> QED BY <1>1, <1>2, <1>3, <1>4 DEF IInv, WorkInv

(* The steps of main.                                                      *)
LEMMA MainKeepsWork ==
  ASSUME IInv, Main
  PROVE  WorkInv'
<1> USE DEF IInv, WorkInv
<1>1. CASE NextRun
  <2>1. WorkType' /\ PhaseInv'
    BY <1>1 DEF NextRun, NextRound, WorkType, PhaseInv, PointersInv
  <2>2. PointersInv'
    BY <1>1, NoOpIsOperation
       DEF NextRun, NextRound, replyVars, WorkType, PhaseInv, RepliesInv, OwnInv, PointersInv
  <2> QED BY <2>1, <2>2
<1>2. ASSUME UNCHANGED <<workVars, failed>>,
             \/ CreateClient /\ UNCHANGED replyVars
             \/ (\A c \in Client : pc[c] = "exited") /\ JoinWorkers /\ UNCHANGED replyVars
             \/ JoinMonitor /\ UNCHANGED replyVars
             \/ CloseClient /\ FreeReply(thread_index)
             \/ DeleteClient /\ DestroyReply(thread_index)
      PROVE  WorkInv'
  <2> USE <1>2 DEF workVars
  <2>1. WorkType'
    BY DEF WorkType
  <2>2. PhaseInv'
    BY DEF PhaseInv, CreateClient, JoinWorkers, JoinMonitor, CloseClient, DeleteClient, LoopStep
  <2>3. CASE UNCHANGED replyVars
    BY <2>1, <2>2, <2>3 DEF replyVars, PointersInv
  <2>4. CASE CloseClient /\ FreeReply(thread_index)
    BY <2>1, <2>2, <2>4, IndexRange
       DEF CloseClient, FreeReply, MainInv, LifecycleType, RepliesInv, ReplyType, WorkType,
           PhaseInv, PointersInv, Null
  <2>5. CASE DeleteClient /\ DestroyReply(thread_index)
    BY <2>1, <2>2, <2>5 DEF DestroyReply, PointersInv
  <2> QED BY <2>3, <2>4, <2>5
<1> QED BY <1>1, <1>2 DEF Main

(* The steps of a worker that gets no reply.                               *)
LEMMA CallsKeepWork ==
  ASSUME IInv, NEW c \in Client,
         NextOp(c) \/ Call(c) \/ Execute(c) \/ SetReturns(c) \/ Exit(c)
  PROVE  WorkInv'
<1> USE NoOpIsOperation
    DEF IInv, WorkInv, Goto, lifecycleVars, replyVars, NextOp, Call, Execute, SetReturns,
        Exit, PointBuffer, IsWrite
<1>1. PhaseInv'
  BY DEF PhaseInv
<1>2. CASE NextOp(c)
  <2>1. WorkType'
    BY <1>2, TypesAssumption DEF WorkType, Operation
  <2> QED BY <1>1, <1>2, <2>1 DEF WorkType, PointersInv, RepliesInv, ReplyType
<1>3. CASE Call(c) \/ Execute(c) \/ SetReturns(c)
  <2>1. WorkType'
    BY <1>3 DEF WorkType
  <2> QED BY <1>1, <1>3, <2>1 DEF WorkType, PointersInv, RepliesInv, ReplyType
<1>4. CASE Exit(c)
  <2>1. WorkType'
    BY <1>4 DEF WorkType
  <2> QED BY <1>1, <1>4, <2>1 DEF WorkType, PointersInv, RepliesInv, ReplyType
<1> QED BY <1>2, <1>3, <1>4

(* do_read: the reply is that of the operation at hand.                    *)
LEMMA GetKeepsAll ==
  ASSUME IInv, NEW c \in Client, GetReturns(c)
  PROVE  RepliesInv' /\ WorkInv'
<1> USE DEF IInv, WorkInv, Goto, GetReturns
<1>1. last_reply[c] < cur_nr_op[c] /\ cur_nr_op[c] \in Nat
  BY DEF WorkType, PointersInv
<1>2. RepliesInv'
  BY <1>1, SetKeepsReplies
<1>3. WorkType'
  BY DEF WorkType
<1>4. PhaseInv'
  BY DEF PhaseInv, lifecycleVars
<1>5. PointersInv'
  BY <1>1 DEF WorkType, PointersInv, RepliesInv, ReplyType, PointBuffer, SetLastReply
<1> QED BY <1>2, <1>3, <1>4, <1>5

(* Nothing moves, but for the failure of the process.                      *)
LEMMA FailureKeepsWork ==
  ASSUME IInv, UNCHANGED <<lifecycleVars, replyVars, workVars>>
  PROVE  WorkInv'
BY DEF IInv, WorkInv, lifecycleVars, replyVars, workVars, WorkType, PhaseInv, PointersInv

(* Every step keeps the invariant.                                         *)
LEMMA IInvKept == IInv /\ [Next]_vars => IInv'
<1> SUFFICES ASSUME IInv, [Next]_vars PROVE IInv'
  OBVIOUS
<1>1. CASE Main
  <2>1. MainInv'
    BY <1>1, CreateKeepsMainInv, CloseKeepsMainInv, DeleteKeepsMainInv, OthersKeepMainInv
       DEF Main, NextRun, IInv
  <2>2. RepliesInv'
    BY <1>1, CloseKeepsReplies, DeleteKeepsReplies, OthersKeepReplies DEF Main, NextRun, IInv
  <2> QED BY <1>1, <2>1, <2>2, MainKeepsWork DEF IInv
<1>2. ASSUME NEW c \in Client, Worker(c) PROVE IInv'
  <2>1. UNCHANGED lifecycleVars
    BY <1>2 DEF Worker, NextOp, Call, Execute, SetReturns, GetReturns, Exit, Throws, Goto
  <2>2. MainInv'
    BY <2>1, OthersKeepMainInv DEF IInv
  <2>3. CASE NextOp(c) \/ Call(c) \/ Execute(c) \/ SetReturns(c)
    <3>1. RepliesInv'
      BY <2>1, <2>3, OthersKeepReplies DEF NextOp, Call, Execute, SetReturns, IInv
    <3> QED BY <2>2, <2>3, <3>1, CallsKeepWork DEF IInv
  <2>4. CASE GetReturns(c)
    BY <2>2, <2>4, GetKeepsAll DEF IInv
  <2>5. CASE Exit(c)
    <3>1. RepliesInv'
      BY <2>1, <2>5, PointKeepsReplies DEF Exit, IInv
    <3> QED BY <2>2, <2>5, <3>1, CallsKeepWork DEF IInv
  <2>6. CASE Throws(c)
    <3>1. RepliesInv'
      BY <2>1, <2>6, OthersKeepReplies DEF Throws, IInv
    <3> QED BY <2>2, <2>6, <3>1, FailureKeepsWork DEF Throws, IInv
  <2> QED BY <1>2, <2>3, <2>4, <2>5, <2>6 DEF Worker
<1>3. CASE UNCHANGED <<lifecycleVars, replyVars, workVars>>
  <2>1. UNCHANGED lifecycleVars /\ UNCHANGED replyVars
    BY <1>3
  <2> QED BY <1>3, <2>1, OthersKeepMainInv, OthersKeepReplies, FailureKeepsWork DEF IInv
<1> QED BY <1>1, <1>2, <1>3 DEF Next, MainFails, Stopped, vars

(* The memory and the context of every client are accounted for at every   *)
(* step of memcached_client.cpp and of the loops in worker.cpp.            *)
THEOREM Accounted == Spec => []IInv
BY IInvStarts, IInvKept, PTL DEF Spec

(* Every memcached context is freed exactly once (close and the destructor *)
(* of MemcachedClient).                                                    *)
THEOREM ContextsFreedOnce == Spec => []HandlesBalanced
<1>1. IInv => HandlesBalanced
  BY MainInvBalances DEF IInv
<1> QED BY <1>1, Accounted, PTL

(* Every reply is freed exactly once (set_last_reply, close and the        *)
(* destructor of MemcachedClient).                                         *)
THEOREM RepliesFreedOnce == Spec => []RepliesOwned
<1>1. IInv => RepliesOwned
  BY RepliesInvOwns DEF IInv
<1> QED BY <1>1, Accounted, PTL

(* What a READ delivered is not freed before the worker's next READ has    *)
(* been answered (MemcachedClient::do_read).                               *)
THEOREM BufferStaysAllocated == Spec => []BufferNotFreed
<1>1. IInv => BufferNotFreed
  BY NoOpIsOperation DEF IInv, RepliesInv, OwnInv, WorkInv, PointersInv, BufferNotFreed
<1> QED BY <1>1, Accounted, PTL

-----------------------------------------------------------------------------
(* The Client interface: MemcachedRun implements ClientSession.            *)

Given == [c \in Client |->
           IF pc[c] = "sent" THEN <<[write |-> IsWrite(c), key |-> op[c].key]>> ELSE <<>>]
Left == {c \in Client : round = 1 /\ pc[c] = "exited"}

(* A step that sends nothing, executes nothing and ends no worker's last   *)
(* round.                                                                  *)
LEMMA SilentStep ==
  ASSUME Given' = Given, Left' = Left, UNCHANGED <<table, failed>>
  PROVE  UNCHANGED Session!absVars
BY DEF Given, Left, Session!absVars

(* main creates, joins, closes and deletes; between the rounds it starts   *)
(* the workers again, which have nothing under way.                        *)
LEMMA MainIsSilent ==
  ASSUME IInv, Main
  PROVE  UNCHANGED Session!absVars
<1>1. CASE NextRun
  <2>1. /\ round = 0 /\ \A c \in Client : pc[c] = "exited" /\ pc'[c] = "loop"
        /\ UNCHANGED <<op, table, failed>>
    BY <1>1 DEF NextRun, NextRound, IInv, MainInv, RoundInv, WorkInv, PhaseInv
  <2>2. Given' = Given /\ Left' = Left
    BY <2>1 DEF Given, Left
  <2> QED BY <2>1, <2>2, SilentStep
<1>2. CASE UNCHANGED <<workVars, failed, round>>
  <2>1. Given' = Given /\ Left' = Left
    BY <1>2 DEF workVars, Given, Left, IsWrite
  <2> QED BY <1>2, <2>1, SilentStep DEF workVars
<1>3. Main => NextRun \/ UNCHANGED <<workVars, failed, round>>
  BY DEF Main, CreateClient, JoinWorkers, JoinMonitor, CloseClient, DeleteClient, LoopStep
<1> QED BY <1>1, <1>2, <1>3

(* A call gives the client's session its one operation.                    *)
LEMMA CallGives ==
  ASSUME IInv, NEW c \in Client, Call(c), ~ failed
  PROVE  Session!Next
<1> DEFINE command == [write |-> IsWrite(c), key |-> op[c].key]
<1>1. /\ pc[c] = "op" /\ pc' = [pc EXCEPT ![c] = "sent"]
      /\ UNCHANGED <<op, table, failed, round>>
  BY DEF Call, Goto, lifecycleVars
<1>2. command \in Session!Command
  BY DEF IInv, WorkInv, WorkType, Operation, IsWrite, Session!Command
<1>3. Given[c] = <<>> /\ Given' = [Given EXCEPT ![c] = <<command>>]
  BY <1>1 DEF Given, IsWrite, IInv, WorkInv, WorkType
<1>4. Left' = Left /\ c \notin Left
  BY <1>1 DEF Left, IInv, WorkInv, WorkType
<1>5. Given' = [Given EXCEPT ![c] = Append(@, command)] /\ Len(Given[c]) < 1
  BY <1>3
<1>6. Session!Give(c)
  BY <1>1, <1>2, <1>4, <1>5 DEF Session!Give, Given, Left
<1> QED BY <1>1, <1>6 DEF Session!Next

(* The server's execution of a command is where it takes effect.           *)
LEMMA ExecuteApplies ==
  ASSUME IInv, NEW c \in Client, Execute(c), ~ failed
  PROVE  Session!Next
<1> DEFINE command == [write |-> IsWrite(c), key |-> op[c].key]
<1>1. /\ pc[c] = "sent" /\ pc' = [pc EXCEPT ![c] = "answered"]
      /\ UNCHANGED <<op, failed, round>>
  BY DEF Execute, Goto, lifecycleVars
<1>2. table' = IF command.write THEN [table EXCEPT ![command.key] = c] ELSE table
  BY DEF Execute
<1>3. Given[c] = <<command>> /\ Given' = [Given EXCEPT ![c] = <<>>]
  BY <1>1 DEF Given, IsWrite, IInv, WorkInv, WorkType
<1>4. Left' = Left
  BY <1>1 DEF Left, IInv, WorkInv, WorkType
<1>5. /\ Given[c] # <<>> /\ Head(Given[c]) = command
      /\ Given' = [Given EXCEPT ![c] = Tail(@)]
  BY <1>3
<1>6. Session!Apply(c)
  BY <1>1, <1>2, <1>4, <1>5 DEF Session!Apply, Given, Left
<1> QED BY <1>1, <1>6 DEF Session!Next

(* The process ends.                                                       *)
LEMMA FailureRefines ==
  ASSUME ~ failed, failed' = TRUE, UNCHANGED <<lifecycleVars, workVars>>
  PROVE  Session!Next
<1>1. Given' = Given /\ Left' = Left /\ table' = table
  BY DEF workVars, lifecycleVars, Given, Left, IsWrite
<1>2. Session!Fail
  BY <1>1 DEF Session!Fail, Given, Left
<1> QED BY <1>2 DEF Session!Next

(* The rest of a worker's steps.  The end of its last round leaves the     *)
(* session, with nothing under way.                                        *)
LEMMA WorkerRefines ==
  ASSUME IInv, NEW c \in Client, Worker(c), ~ failed
  PROVE  [Session!Next]_Session!absVars
<1>1. CASE NextOp(c) \/ SetReturns(c) \/ GetReturns(c)
  <2>1. /\ pc[c] \in {"loop", "answered"} /\ pc'[c] \in {"op", "loop"}
        /\ \A d \in Client \ {c} : pc'[d] = pc[d] /\ op'[d] = op[d]
        /\ UNCHANGED <<table, failed, round>>
    BY <1>1 DEF NextOp, SetReturns, GetReturns, Goto, lifecycleVars, IInv, WorkInv, WorkType
  <2>2. Given' = Given /\ Left' = Left
    BY <2>1 DEF Given, Left, IsWrite
  <2> QED BY <2>1, <2>2, SilentStep
<1>2. CASE Exit(c)
  <2>1. /\ pc[c] = "loop" /\ pc' = [pc EXCEPT ![c] = "exited"]
        /\ \A d \in Client \ {c} : op'[d] = op[d]
        /\ UNCHANGED <<table, failed, round>>
    BY <1>2 DEF Exit, Goto, lifecycleVars, IInv, WorkInv, WorkType
  <2>2. Given' = Given /\ Given[c] = <<>>
    BY <2>1 DEF Given, IsWrite, IInv, WorkInv, WorkType
  <2>3. Left' = IF round = 1 THEN Left \cup {c} ELSE Left
    BY <2>1 DEF Left, IInv, WorkInv, WorkType
  <2>4. CASE round = 1
    <3>1. Session!Leave(c)
      BY <2>1, <2>2, <2>3, <2>4 DEF Session!Leave, Given, Left
    <3> QED BY <3>1 DEF Session!Next
  <2>5. CASE round # 1
    BY <2>1, <2>2, <2>3, <2>5, SilentStep
  <2> QED BY <2>4, <2>5
<1>3. CASE Throws(c)
  <2>1. failed' = TRUE /\ UNCHANGED <<lifecycleVars, workVars>>
    BY <1>3 DEF Throws
  <2> QED BY <2>1, FailureRefines
<1> QED BY <1>1, <1>2, <1>3, CallGives, ExecuteApplies DEF Worker

(* A MemcachedClient keeps what the Client interface promises: operations  *)
(* take effect one at a time, in order, before do_operation returns, and   *)
(* none is under way when a worker is done.                                *)
THEOREM SessionImplemented == Spec => ImplementsSession
<1>1. Init => Session!Init
  <2> SUFFICES ASSUME Init PROVE Session!Init
    OBVIOUS
  <2>1. Given = [c \in Client |-> <<>>] /\ Left = {}
    BY DEF Init, Given, Left
  <2>2. table \in [Key -> {Missing, Loaded}] /\ failed = FALSE
    BY DEF Init
  <2> QED BY <2>1, <2>2 DEF Session!Init, Given, Left
<1>2. IInv /\ [Next]_vars => [Session!Next]_Session!absVars
  <2> SUFFICES ASSUME IInv, [Next]_vars PROVE [Session!Next]_Session!absVars
    OBVIOUS
  <2>1. CASE ~ failed /\ Main
    BY <2>1, MainIsSilent
  <2>2. CASE ~ failed /\ MainFails
    <3>1. failed' = TRUE /\ UNCHANGED <<lifecycleVars, workVars>>
      BY <2>2 DEF MainFails
    <3> QED BY <2>2, <3>1, FailureRefines
  <2>3. CASE ~ failed /\ \E c \in Client : Worker(c)
    BY <2>3, WorkerRefines
  <2>4. CASE UNCHANGED vars
    <3>1. Given' = Given /\ Left' = Left
      BY <2>4 DEF vars, workVars, lifecycleVars, Given, Left, IsWrite
    <3> QED BY <2>4, <3>1, SilentStep DEF vars, workVars
  <2> QED BY <2>1, <2>2, <2>3, <2>4 DEF Next, Stopped
<1> QED BY <1>1, <1>2, Accounted, PTL DEF Spec, ImplementsSession, Session!Spec
=============================================================================
