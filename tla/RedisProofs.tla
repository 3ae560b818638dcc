------------------------------ MODULE RedisProofs ------------------------------
(***************************************************************************)
(* Batches, replies and connections of RedisRun, for every number of       *)
(* clients and keys, every configuration and every hash.                   *)
(***************************************************************************)
EXTENDS RedisRun, ClientProofs, SequenceTheorems

Operation == [type : OpTypes \cup {"none"}, key : Key, nr : Nat, is_last_op : BOOLEAN]
Commands  == [write : BOOLEAN, key : Key, nr : Nat]
Reply     == [nr : Nat, str : Client \cup {Missing, OK, Refused}]

WorkType ==
  /\ config \in Configs
  /\ pc \in [Client -> {"loop", "do", "single", "flush", "exited"}]
  /\ cur_nr_op \in [Client -> Nat]
  /\ cur_ack_key \in [Client -> 0 .. NrEntry]
  /\ op \in [Client -> Operation]
  /\ cur_batch \in [Client -> Int]
  /\ store \in [Key -> Client \cup {Missing}]

ConnectionType ==
  /\ out \in [Client -> Seq(Commands)]
  /\ wire \in [Client -> Seq(Commands)]
  /\ replies \in [Client -> Seq(Reply)]

(* The workers run only while main waits for them.                         *)
PhaseInv ==
  /\ main \notin {"create", "run"} => \A c \in Client : pc[c] = "exited"
  /\ \A c \in Client : pc[c] = "exited" => op[c] = NoOp

(* The operation at hand, and how many replies the client is owed where    *)
(* its worker is.                                                          *)
BatchInv(c) ==
  LET n == Outstanding(c) IN
  /\ cur_nr_op[c] <= NrOp
  /\ pc[c] \in {"do", "single", "flush"} =>
       op[c].nr = cur_nr_op[c] /\ (op[c].is_last_op <=> cur_nr_op[c] = NrOp)
  /\ config.batch_size = 1 =>
       pc[c] # "flush" /\ n = IF pc[c] = "single" THEN 1 ELSE 0
  /\ config.batch_size # 1 =>
       /\ pc[c] # "single" /\ cur_batch[c] = n
       /\ pc[c] = "flush" => n > 0
  /\ n <= Ahead
  /\ pc[c] \in {"loop", "do"} => n < Ahead
  /\ pc[c] = "exited" => n = 0
  /\ pc[c] = "loop" /\ cur_nr_op[c] = NrOp => n = 0

(* The commands on their way are those of the last operations, in order:   *)
(* Before(c) is the number of the one before them.                         *)
Before(c) == cur_nr_op[c] - Outstanding(c) - (IF pc[c] = "do" THEN 1 ELSE 0)

OrderInv(c) ==
  /\ last_reply[c] <= Before(c)
  /\ \A i \in 1 .. Len(replies[c]) : replies[c][i].nr = Before(c) + i
  /\ \A i \in 1 .. Len(wire[c]) : wire[c][i].nr = Before(c) + Len(replies[c]) + i
  /\ \A i \in 1 .. Len(out[c]) :
       out[c][i].nr = Before(c) + Len(replies[c]) + Len(wire[c]) + i

(* Without batches, the last READ's reply is the last reply.               *)
DeliveredInv(c) ==
  config.batch_size = 1 /\ pc[c] = "loop" /\ op[c].type = "READ" =>
    /\ reply_value_buffer[c] = op[c].nr
    /\ last_reply[c] = op[c].nr /\ op[c].nr # Null

ClientInv(c) == BatchInv(c) /\ OrderInv(c) /\ DeliveredInv(c)

WorkInv == WorkType /\ ConnectionType /\ PhaseInv /\ \A c \in Client : ClientInv(c)
IInv == MainInv /\ RepliesInv /\ WorkInv

-----------------------------------------------------------------------------
(* What the modulo and the hash of next_op return is a key.                *)
LEMMA OffersAreTyped ==
  ASSUME WorkType, NEW c \in Client, NEW offer \in Offers(c)
  PROVE  offer.type \in OpTypes /\ offer.key \in Key /\ offer.ack \in 0 .. NrEntry
<1>1. CASE config.request_distribution # "latest"
  BY <1>1, TypesAssumption, NrEntryAssumption DEF Offers
<1>2. CASE config.request_distribution = "latest"
  <2> DEFINE ack == cur_ack_key[c]
  <2>1. ack \in 0 .. NrEntry /\ NrEntry \in Nat \ {0}
    BY NrEntryAssumption DEF WorkType
  <2>2. PICK wantsRead \in BOOLEAN :
          LET type == LatestType(wantsRead, ack, NrEntry)
          IN  offer \in {[type |-> type, key |-> Hash[index], ack |-> AckAfter(type, ack)] :
                           index \in LatestIndices(type, ack, NrEntry)}
    BY <1>2 DEF Offers
  <2> DEFINE type == LatestType(wantsRead, ack, NrEntry)
  <2>3. PICK index \in LatestIndices(type, ack, NrEntry) :
          offer = [type |-> type, key |-> Hash[index], ack |-> AckAfter(type, ack)]
    BY <2>2
  <2>4. /\ type \in {"READ", "UPDATE", "INSERT"}
        /\ type = "INSERT" => ack < NrEntry
        /\ type # "INSERT" => ack > 0
    BY <2>1 DEF LatestType
  <2>5. index \in 0 .. NrEntry
    <3>1. CASE type = "INSERT"
      BY <2>1, <3>1 DEF LatestIndices
    <3>2. CASE type # "INSERT"
      <4>1. PICK zipf \in 0 .. NrEntry : index = LatestIndex(ack, zipf)
        BY <3>2 DEF LatestIndices, ZipfianIndices
      <4>2. zipf % ack \in 0 .. ack - 1
        BY <2>1, <2>4, <3>2
      <4> QED BY <2>1, <2>4, <3>2, <4>1, <4>2 DEF LatestIndex
    <3> QED BY <3>1, <3>2
  <2>6. Hash[index] \in Key
    BY <2>5, HashAssumption DEF Key
  <2>7. AckAfter(type, ack) \in 0 .. NrEntry
    BY <2>1, <2>4 DEF AckAfter
  <2>8. type \in OpTypes
    BY <2>4 DEF OpTypes, OperationType
  <2> QED BY <2>3, <2>6, <2>7, <2>8
<1> QED BY <1>1, <1>2

(* The bounds of the configuration at hand.                                *)
LEMMA ConfigIsTyped ==
  ASSUME WorkType
  PROVE  config.batch_size \in Int /\ NrOp \in Nat /\ Ahead \in Nat \ {0}
BY ConfigsAssumption DEF WorkType, NrOp, Ahead

(* A worker that has no operation does not read.                           *)
LEMMA NoOpIsOperation == NoOp \in Operation /\ NoOp.type = "none" /\ Null = 0
BY NrEntryAssumption DEF NoOp, Operation, Key, Null

(* No client has been created and no command sent.                         *)
LEMMA IInvStarts == Init => IInv
<1> SUFFICES ASSUME Init PROVE IInv
  OBVIOUS
<1>1. MainInv
  BY LifecycleStarts DEF Init
<1>2. RepliesInv
  BY RepliesStart DEF Init, LifecycleInit
<1>3. WorkType
  BY NoOpIsOperation, NrEntryAssumption DEF Init, WorkType
<1>4. ConnectionType
  BY DEF Init, ConnectionType
<1>5. PhaseInv
  BY DEF Init, LifecycleInit, PhaseInv
<1>6. ASSUME NEW c \in Client PROVE ClientInv(c)
  <2>1. Outstanding(c) = 0 /\ pc[c] = "loop" /\ cur_nr_op[c] = 0 /\ cur_batch[c] = 0
    BY DEF Init, Outstanding
  <2>2. BatchInv(c)
    BY <1>3, <2>1, ConfigIsTyped DEF BatchInv
  <2>3. OrderInv(c) /\ DeliveredInv(c)
    BY <2>1, NoOpIsOperation DEF Init, ReplyInit, OrderInv, Before, DeliveredInv
  <2> QED BY <2>2, <2>3 DEF ClientInv
<1> QED BY <1>1, <1>2, <1>3, <1>4, <1>5, <1>6 DEF IInv, WorkInv

-----------------------------------------------------------------------------
(* A client that does not move keeps its invariant.                        *)
ClientVars(c) == <<pc[c], cur_nr_op[c], op[c], cur_batch[c], out[c], wire[c], replies[c],
                   last_reply[c], reply_value_buffer[c]>>

(* A client none of whose variables moves keeps its invariant.             *)
LEMMA StillKeepsInv ==
  ASSUME NEW c \in Client, ClientInv(c), UNCHANGED ClientVars(c), UNCHANGED <<config, round>>
  PROVE  ClientInv(c)'
<1> USE DEF ClientVars, ClientInv
<1>1. Outstanding(c)' = Outstanding(c) /\ Before(c)' = Before(c) /\ Ahead' = Ahead /\ NrOp' = NrOp
  BY DEF Outstanding, Before, Ahead, NrOp
<1>2. BatchInv(c)'
  BY <1>1 DEF BatchInv
<1>3. OrderInv(c)'
  BY <1>1 DEF OrderInv
<1>4. DeliveredInv(c)'
  BY DEF DeliveredInv
<1> QED BY <1>2, <1>3, <1>4

(* The three places of a command have lengths.                             *)
LEMMA LensAreNat ==
  ASSUME ConnectionType, NEW c \in Client
  PROVE  /\ Len(out[c]) \in Nat /\ Len(wire[c]) \in Nat /\ Len(replies[c]) \in Nat
         /\ Outstanding(c) \in Nat
BY LenProperties DEF ConnectionType, Outstanding

-----------------------------------------------------------------------------
(* The steps of main.                                                      *)
LEMMA MainKeepsWork ==
  ASSUME IInv, Main, UNCHANGED config
  PROVE  WorkInv'
<1> USE DEF IInv, WorkInv
<1>1. CASE NextRun
  <2>1. WorkType' /\ ConnectionType' /\ PhaseInv'
    BY <1>1, NrEntryAssumption
       DEF NextRun, NextRound, WorkType, ConnectionType, PhaseInv
  <2>2. ASSUME NEW c \in Client PROVE ClientInv(c)'
    <3>1. /\ Outstanding(c)' = 0 /\ pc'[c] = "loop" /\ cur_nr_op'[c] = 0 /\ cur_batch'[c] = 0
          /\ out'[c] = <<>> /\ wire'[c] = <<>> /\ replies'[c] = <<>>
      BY <1>1 DEF NextRun, Outstanding
    <3>2. op'[c] = NoOp /\ last_reply'[c] = Null
      BY <1>1 DEF NextRun, NextRound, replyVars, PhaseInv, RepliesInv, OwnInv
    <3>3. (config.batch_size \in Int /\ NrOp \in Nat /\ Ahead \in Nat \ {0})'
      BY <2>1, ConfigsAssumption DEF WorkType, NrOp, Ahead
    <3>4. BatchInv(c)'
      BY <3>1, <3>3 DEF BatchInv
    <3>5. OrderInv(c)' /\ DeliveredInv(c)'
      BY <3>1, <3>2, NoOpIsOperation DEF OrderInv, Before, DeliveredInv
    <3> QED BY <3>4, <3>5 DEF ClientInv
  <2> QED BY <2>1, <2>2
<1>2. ASSUME UNCHANGED <<pc, workVars, cur_batch, out, wire, replies, store, aborted>>,
             \/ CreateClient /\ UNCHANGED replyVars
             \/ (\A c \in Client : pc[c] = "exited") /\ JoinWorkers /\ UNCHANGED replyVars
             \/ JoinMonitor /\ UNCHANGED replyVars
             \/ CloseClient /\ FreeReply(thread_index)
             \/ DeleteClient /\ DestroyReply(thread_index)
      PROVE  WorkInv'
  <2>1. WorkType' /\ ConnectionType'
    BY <1>2 DEF workVars, WorkType, ConnectionType
  <2>2. PhaseInv'
    BY <1>2 DEF workVars, PhaseInv, CreateClient, JoinWorkers, JoinMonitor, CloseClient,
                 DeleteClient, LoopStep
  <2>3. UNCHANGED round
    BY <1>2 DEF CreateClient, JoinWorkers, JoinMonitor, CloseClient, DeleteClient, LoopStep
  <2>4. ASSUME NEW c \in Client PROVE ClientInv(c)'
    <3>1. CASE UNCHANGED <<last_reply, reply_value_buffer>>
      <4>1. UNCHANGED ClientVars(c)
        BY <1>2, <3>1 DEF workVars, ClientVars
      <4> QED BY <2>3, <4>1, StillKeepsInv
    <3>2. CASE CloseClient /\ FreeReply(thread_index)
      <4>1. pc[c] = "exited" /\ ClientInv(c)
        BY <3>2 DEF CloseClient, PhaseInv
      <4>2. Outstanding(c)' = Outstanding(c) /\ Before(c)' = Before(c)
        BY <1>2 DEF workVars, Outstanding, Before
      <4>3. BatchInv(c)'
        BY <1>2, <2>3, <4>1, <4>2 DEF workVars, ClientInv, BatchInv, Ahead, NrOp
      <4>4. last_reply'[c] <= Before(c)'
        <5>1. last_reply[c] <= Before(c) /\ last_reply[c] \in Nat /\ Before(c) \in Int
          BY <4>1, LensAreNat DEF ClientInv, OrderInv, RepliesInv, ReplyType, Before, WorkType
        <5>2. last_reply'[c] \in {last_reply[c], 0}
          BY <3>2, NoOpIsOperation DEF FreeReply, RepliesInv, ReplyType
        <5> QED BY <4>2, <5>1, <5>2
      <4>5. OrderInv(c)' /\ DeliveredInv(c)'
        BY <1>2, <4>1, <4>2, <4>4 DEF workVars, ClientInv, OrderInv, DeliveredInv
      <4> QED BY <4>3, <4>5 DEF ClientInv
    <3> QED BY <1>2, <3>1, <3>2 DEF replyVars, DestroyReply
  <2> QED BY <2>1, <2>2, <2>4
<1> QED BY <1>1, <1>2 DEF Main

-----------------------------------------------------------------------------
(* The steps of a worker.  Each moves one client, and leaves main alone.   *)
LEMMA OneClientMoves ==
  ASSUME WorkInv, NEW c \in Client, UNCHANGED <<config, round>>,
         \A d \in Client \ {c} : UNCHANGED ClientVars(d),
         WorkType', ConnectionType', PhaseInv', ClientInv(c)'
  PROVE  WorkInv'
<1>1. ASSUME NEW d \in Client PROVE ClientInv(d)'
  BY <1>1, StillKeepsInv DEF WorkInv
<1> QED BY <1>1 DEF WorkInv

(* next_op: the worker takes an operation.                                 *)
LEMMA NextOpKeepsWork ==
  ASSUME IInv, NEW c \in Client, NextOp(c), UNCHANGED config
  PROVE  WorkInv'
<1> USE DEF IInv, WorkInv, Goto, NextOp, lifecycleVars, replyVars
<1>1. PICK offer \in Offers(c) :
        /\ op' = [op EXCEPT ![c] = [type |-> offer.type, key |-> offer.key,
                                    nr |-> cur_nr_op'[c],
                                    is_last_op |-> ~ (cur_nr_op'[c] < NrOp)]]
        /\ cur_ack_key' = [cur_ack_key EXCEPT ![c] = offer.ack]
  OBVIOUS
<1>2. offer.type \in OpTypes /\ offer.key \in Key /\ offer.ack \in 0 .. NrEntry
  BY OffersAreTyped
<1>3. cur_nr_op[c] \in Nat /\ cur_nr_op'[c] = cur_nr_op[c] + 1 /\ pc'[c] = "do"
  BY DEF WorkType
<1>4. op'[c] \in Operation
  BY <1>1, <1>2, <1>3 DEF WorkType, Operation
<1>5. WorkType'
  <2>1. op' \in [Client -> Operation]
    BY <1>1, <1>4 DEF WorkType
  <2> QED BY <1>1, <1>2, <2>1 DEF WorkType
<1>6. ConnectionType' /\ PhaseInv'
  BY <1>1 DEF ConnectionType, WorkType, PhaseInv
<1>7. \A d \in Client \ {c} : UNCHANGED ClientVars(d)
  BY <1>1 DEF ClientVars, WorkType
<1>8. Outstanding(c)' = Outstanding(c) /\ Outstanding(c) \in Nat /\ Before(c)' = Before(c)
  <2>1. Outstanding(c)' = Outstanding(c) /\ Outstanding(c) \in Nat
    BY LensAreNat DEF Outstanding
  <2>2. pc[c] = "loop"
    OBVIOUS
  <2> HIDE DEF IInv, WorkInv, Goto, NextOp
  <2> QED BY <1>3, <2>1, <2>2 DEF Before
<1>9. BatchInv(c)'
  <2>1. NrOp' = NrOp /\ Ahead' = Ahead /\ NrOp \in Nat /\ cur_nr_op[c] < NrOp /\ pc[c] = "loop"
    BY ConfigIsTyped DEF NrOp, Ahead, HasNextOp
  <2>2. op'[c].nr = cur_nr_op'[c] /\ (op'[c].is_last_op <=> cur_nr_op'[c] = NrOp)
    <3>1. cur_nr_op'[c] = cur_nr_op[c] + 1 /\ cur_nr_op[c] \in Nat
      BY <1>1 DEF WorkType
    <3>2. op'[c].nr = cur_nr_op'[c] /\ (op'[c].is_last_op <=> ~ (cur_nr_op'[c] < NrOp))
      BY <1>1 DEF WorkType
    <3> QED BY <2>1, <3>1, <3>2
  <2> QED BY <1>3, <1>8, <2>1, <2>2 DEF ClientInv, BatchInv
<1>10. OrderInv(c)' /\ DeliveredInv(c)'
  BY <1>3, <1>8 DEF ClientInv, OrderInv, DeliveredInv
<1> QED BY <1>5, <1>6, <1>7, <1>9, <1>10, OneClientMoves DEF ClientInv

(* A worker has no operation left, and owes nothing.                       *)
LEMMA ExitKeepsWork ==
  ASSUME IInv, NEW c \in Client, Exit(c), UNCHANGED config
  PROVE  WorkInv'
<1> USE NoOpIsOperation DEF IInv, WorkInv, Goto, Exit, PointBuffer, lifecycleVars
<1>1. WorkType'
  BY DEF WorkType
<1>2. ConnectionType' /\ PhaseInv'
  BY DEF ConnectionType, WorkType, PhaseInv
<1>3. \A d \in Client \ {c} : UNCHANGED ClientVars(d)
  BY DEF ClientVars, WorkType, RepliesInv, ReplyType
<1>4. /\ pc[c] = "loop" /\ pc'[c] = "exited" /\ Outstanding(c)' = Outstanding(c)
      /\ Before(c)' = Before(c) /\ NrOp' = NrOp /\ Ahead' = Ahead
  BY DEF WorkType, Outstanding, Before, NrOp, Ahead
<1>5. cur_nr_op[c] = NrOp
  BY ConfigIsTyped DEF WorkType, ClientInv, BatchInv, HasNextOp
<1>6. BatchInv(c)'
  BY <1>4, <1>5, ConfigIsTyped DEF ClientInv, BatchInv
<1>7. OrderInv(c)' /\ DeliveredInv(c)'
  BY <1>4 DEF ClientInv, OrderInv, DeliveredInv
<1> QED BY <1>1, <1>2, <1>3, <1>6, <1>7, OneClientMoves DEF ClientInv

(* A command is appended to the buffer: one more reply is owed.            *)
LEMMA DoKeepsWork ==
  ASSUME IInv, NEW c \in Client, DoSingle(c) \/ DoBatched(c), UNCHANGED config
  PROVE  WorkInv'
<1> USE DEF IInv, WorkInv
<1>1. /\ pc[c] = "do" /\ pc' = [pc EXCEPT ![c] = pc'[c]] /\ pc'[c] \in {"single", "flush", "loop"}
      /\ out' = [out EXCEPT ![c] = Append(@, Command(c))]
      /\ UNCHANGED <<lifecycleVars, replyVars, workVars, wire, replies, store>>
  BY DEF DoSingle, DoBatched, Goto, WorkType
<1>2. cur_batch' = [cur_batch EXCEPT ![c] = cur_batch'[c]] /\ cur_batch'[c] \in Int
  BY DEF DoSingle, DoBatched, WorkType
<1>3. Command(c) \in Commands /\ Command(c).nr = op[c].nr
  BY DEF Command, Commands, IsWrite, WorkType, Operation
<1>4. WorkType'
  BY <1>1, <1>2 DEF WorkType, workVars
<1>5. /\ out'[c] \in Seq(Commands) /\ Len(out'[c]) = Len(out[c]) + 1
      /\ \A i \in 1 .. Len(out[c]) : out'[c][i] = out[c][i]
      /\ out'[c][Len(out[c]) + 1] = Command(c)
  BY <1>1, <1>3, AppendProperties DEF ConnectionType
<1>6. ConnectionType' /\ PhaseInv'
  BY <1>1, <1>5 DEF ConnectionType, PhaseInv, WorkType, workVars, lifecycleVars
<1>7. \A d \in Client \ {c} : UNCHANGED ClientVars(d)
  BY <1>1, <1>2 DEF ClientVars, WorkType, ConnectionType, workVars, replyVars
<1>8. /\ Outstanding(c) \in Nat /\ Outstanding(c)' = Outstanding(c) + 1 /\ UNCHANGED cur_nr_op
      /\ op' = op /\ NrOp' = NrOp /\ Ahead' = Ahead
  <2>1. wire' = wire /\ replies' = replies
    BY <1>1
  <2>2. Outstanding(c) \in Nat /\ Outstanding(c)' = Outstanding(c) + 1
    <3> DEFINE o == Len(out[c])  w == Len(wire[c])  r == Len(replies[c])
    <3>1. o \in Nat /\ w \in Nat /\ r \in Nat
      BY LensAreNat
    <3>2. Outstanding(c) = o + w + r /\ Outstanding(c)' = (o + 1) + w + r
      BY <1>5, <2>1 DEF Outstanding
    <3> HIDE DEF o, w, r
    <3> QED BY <3>1, <3>2
  <2>3. UNCHANGED cur_nr_op /\ op' = op /\ UNCHANGED round
    BY <1>1 DEF workVars, lifecycleVars
  <2>4. NrOp' = NrOp /\ Ahead' = Ahead
    BY <2>3 DEF NrOp, Ahead
  <2> QED BY <2>2, <2>3, <2>4
<1>9. Before(c)' = Before(c) /\ Before(c) \in Int
  BY <1>1, <1>8 DEF Before, WorkType
<1>10. BatchInv(c)'
  <2>1. CASE DoSingle(c)
    <3>1. config.batch_size = 1 /\ pc'[c] = "single"
      BY <2>1 DEF DoSingle, Goto, WorkType
    <3> QED BY <1>1, <1>8, <3>1, ConfigIsTyped DEF ClientInv, BatchInv, Ahead
  <2>2. CASE DoBatched(c)
    <3>1. /\ config.batch_size # 1 /\ cur_batch[c] = Outstanding(c)
          /\ cur_batch'[c] = Outstanding(c) + 1
          /\ pc'[c] = IF Flushes(c, Outstanding(c) + 1) THEN "flush" ELSE "loop"
      BY <1>1, <2>2 DEF DoBatched, Goto, WorkType, ClientInv, BatchInv
    <3>2. CASE pc'[c] = "flush"
      BY <1>1, <1>8, <3>1, <3>2, ConfigIsTyped DEF ClientInv, BatchInv
    <3>3. CASE pc'[c] = "loop"
      <4>1. Outstanding(c) + 1 < config.batch_size /\ cur_nr_op[c] # NrOp
        BY <1>1, <1>8, <3>1, <3>3, ConfigIsTyped DEF Flushes, ClientInv, BatchInv
      <4>2. Outstanding(c) + 1 < Ahead
        BY <1>8, <4>1, ConfigIsTyped DEF Ahead
      <4> QED BY <1>1, <1>8, <3>1, <3>3, <4>1, <4>2, ConfigIsTyped DEF ClientInv, BatchInv
    <3> QED BY <3>1, <3>2, <3>3
  <2> QED BY <2>1, <2>2
<1>11. OrderInv(c)'
  <2>1. wire' = wire /\ replies' = replies /\ last_reply' = last_reply
    BY <1>1 DEF replyVars
  <2>2. ASSUME NEW i \in 1 .. Len(out[c]) + 1
        PROVE  out'[c][i].nr = Before(c) + Len(replies[c]) + Len(wire[c]) + i
    <3>1. CASE i = Len(out[c]) + 1
      <4>1. out'[c][i].nr = cur_nr_op[c]
        BY <1>1, <1>3, <1>5, <3>1 DEF ClientInv, BatchInv
      <4> DEFINE o == Len(out[c])  w == Len(wire[c])  r == Len(replies[c])
      <4>2. Before(c) = cur_nr_op[c] - (o + w + r) - 1
        BY <1>1 DEF Before, Outstanding
      <4>3. cur_nr_op[c] \in Nat /\ o \in Nat /\ w \in Nat /\ r \in Nat /\ i = o + 1
        BY <3>1, LensAreNat DEF WorkType
      <4>4. out'[c][i].nr = Before(c) + r + w + i
        <5> HIDE DEF o, w, r
        <5> QED BY <4>1, <4>2, <4>3
      <4> QED BY <4>4
    <3>2. CASE i # Len(out[c]) + 1
      <4>1. i \in 1 .. Len(out[c])
        BY <3>2, LensAreNat
      <4> QED BY <1>5, <4>1 DEF ClientInv, OrderInv
    <3> QED BY <3>1, <3>2
  <2> QED BY <1>5, <1>9, <2>1, <2>2 DEF ClientInv, OrderInv
<1>12. DeliveredInv(c)'
  <2>1. CASE DoSingle(c)
    BY <2>1 DEF DoSingle, Goto, WorkType, DeliveredInv
  <2>2. CASE DoBatched(c)
    BY <2>2 DEF DoBatched, DeliveredInv
  <2> QED BY <2>1, <2>2
<1> QED BY <1>1, <1>4, <1>6, <1>7, <1>10, <1>11, <1>12, OneClientMoves DEF ClientInv, lifecycleVars

(* The buffer goes out.  No reply is at hand.                              *)
LEMMA WriteKeepsWork ==
  ASSUME IInv, NEW c \in Client, WriteBuffer(c), UNCHANGED config
  PROVE  WorkInv'
<1> USE DEF IInv, WorkInv
<1> DEFINE o == Len(out[c])  w == Len(wire[c])
<1>1. /\ replies[c] = <<>> /\ wire'[c] = wire[c] \o out[c] /\ out'[c] = <<>>
      /\ UNCHANGED <<lifecycleVars, replyVars, pc, workVars, cur_batch, replies, store>>
  BY DEF WriteBuffer, ConnectionType
<1>2. WorkType' /\ PhaseInv'
  BY <1>1 DEF WorkType, PhaseInv, workVars, lifecycleVars
<1>3. /\ wire'[c] \in Seq(Commands) /\ Len(wire'[c]) = w + o
      /\ \A i \in 1 .. w + o : wire'[c][i] = IF i <= w THEN wire[c][i] ELSE out[c][i - w]
  BY <1>1, ConcatProperties DEF ConnectionType
<1>4. ConnectionType'
  BY <1>1, <1>3 DEF WriteBuffer, ConnectionType
<1>5. \A d \in Client \ {c} : UNCHANGED ClientVars(d)
  BY <1>1 DEF WriteBuffer, ClientVars, ConnectionType, workVars, replyVars
<1>6. o \in Nat /\ w \in Nat
  BY LensAreNat
<1>7. Outstanding(c)' = Outstanding(c)
  <2>1. Len(<<>>) = 0 /\ replies'[c] = <<>>
    BY <1>1
  <2>2. Outstanding(c) = o + w + 0 /\ Outstanding(c)' = 0 + (w + o) + 0
    BY <1>1, <1>3, <2>1 DEF Outstanding
  <2> HIDE DEF o, w
  <2> QED BY <1>6, <2>2
<1>8. Before(c)' = Before(c) /\ Before(c) \in Int
  BY <1>1, <1>7, LensAreNat DEF Before, WorkType, workVars
<1>9. BatchInv(c)' /\ DeliveredInv(c)'
  <2>1. NrOp' = NrOp /\ Ahead' = Ahead /\ UNCHANGED <<cur_nr_op, op, pc, cur_batch>>
    BY <1>1 DEF NrOp, Ahead, workVars, lifecycleVars
  <2>2. BatchInv(c)'
    BY <1>7, <2>1 DEF ClientInv, BatchInv
  <2>3. DeliveredInv(c)'
    BY <1>1, <2>1 DEF ClientInv, DeliveredInv, replyVars
  <2> QED BY <2>2, <2>3
<1>10. OrderInv(c)'
  <2>1. ASSUME NEW i \in 1 .. w + o PROVE wire'[c][i].nr = Before(c) + 0 + i
    <3>1. \A j \in 1 .. w : wire[c][j].nr = Before(c) + 0 + j
      BY <1>1 DEF ClientInv, OrderInv
    <3>2. \A j \in 1 .. o : out[c][j].nr = Before(c) + 0 + w + j
      BY <1>1 DEF ClientInv, OrderInv
    <3>3. wire'[c][i] = IF i <= w THEN wire[c][i] ELSE out[c][i - w]
      BY <1>3
    <3> HIDE DEF o, w
    <3>4. i <= w => i \in 1 .. w
      BY <1>6
    <3>5. ~ (i <= w) => i - w \in 1 .. o /\ Before(c) + 0 + w + (i - w) = Before(c) + 0 + i
      BY <1>6, <1>8
    <3> QED BY <3>1, <3>2, <3>3, <3>4, <3>5
  <2>2. Len(<<>>) = 0 /\ 1 .. 0 = {} /\ replies' = replies /\ last_reply' = last_reply
    BY <1>1 DEF replyVars
  <2> QED BY <1>1, <1>3, <1>8, <2>1, <2>2 DEF ClientInv, OrderInv
<1> QED BY <1>1, <1>2, <1>4, <1>5, <1>9, <1>10, OneClientMoves DEF ClientInv, lifecycleVars

(* The first reply is that to the command after the last reply's.          *)
LEMMA RepliesInOrder ==
  ASSUME IInv, NEW c \in Client, replies[c] # <<>>
  PROVE  /\ Head(replies[c]).nr \in Nat /\ Head(replies[c]).nr = Before(c) + 1
         /\ last_reply[c] < Head(replies[c]).nr
<1> USE DEF IInv, WorkInv
<1>1. Len(replies[c]) \in Nat \ {0} /\ Head(replies[c]) = replies[c][1] /\ replies[c][1] \in Reply
  BY EmptySeq, LenProperties DEF ConnectionType
<1>2. Head(replies[c]).nr = Before(c) + 1 /\ last_reply[c] <= Before(c)
  BY <1>1 DEF ClientInv, OrderInv
<1>3. Before(c) \in Int /\ last_reply[c] \in Nat
  BY LensAreNat DEF Before, WorkType, RepliesInv, ReplyType
<1> QED BY <1>1, <1>2, <1>3 DEF Reply

(* One reply less is owed.                                                 *)
LEMMA TakeKeepsWork ==
  ASSUME IInv, NEW c \in Client, SingleReply(c) \/ FlushReply(c), UNCHANGED config
  PROVE  WorkInv'
<1> USE DEF IInv, WorkInv
<1> DEFINE o == Len(out[c])  w == Len(wire[c])  r == Len(replies[c])
<1>1. /\ replies[c] # <<>> /\ TakeReply(c)
      /\ pc[c] \in {"single", "flush"} /\ pc' = [pc EXCEPT ![c] = pc'[c]]
      /\ pc'[c] \in {"flush", "loop"}
      /\ cur_batch' = [cur_batch EXCEPT ![c] = cur_batch'[c]] /\ cur_batch'[c] \in Int
      /\ UNCHANGED <<lifecycleVars, workVars, out, wire, store>>
  BY DEF SingleReply, FlushReply, TakeReply, Goto, WorkType
<1>2. WorkType' /\ PhaseInv'
  BY <1>1 DEF WorkType, PhaseInv, workVars, lifecycleVars
<1>3. replies'[c] = Tail(replies[c]) /\ last_reply'[c] = Head(replies[c]).nr
  BY <1>1 DEF TakeReply, SetLastReply, ConnectionType, RepliesInv, ReplyType
<1>4. /\ replies'[c] \in Seq(Reply) /\ Len(replies'[c]) = r - 1
      /\ \A i \in 1 .. Len(replies'[c]) : replies'[c][i] = replies[c][i + 1]
  BY <1>1, <1>3, HeadTailProperties DEF ConnectionType
<1>5. ConnectionType'
  BY <1>1, <1>4 DEF TakeReply, ConnectionType
<1>6. \A d \in Client \ {c} : UNCHANGED ClientVars(d)
  BY <1>1 DEF TakeReply, SetLastReply, PointBuffer, ClientVars, WorkType, ConnectionType,
              RepliesInv, ReplyType, workVars
<1>7. o \in Nat /\ w \in Nat /\ r \in Nat
  BY LensAreNat
<1>8. Outstanding(c)' = Outstanding(c) - 1 /\ Outstanding(c) \in Nat
  <2>1. Outstanding(c) = o + w + r /\ Outstanding(c)' = o + w + (r - 1)
    BY <1>1, <1>4 DEF Outstanding
  <2> HIDE DEF o, w, r
  <2> QED BY <1>7, <2>1
<1>9. cur_nr_op' = cur_nr_op /\ op' = op /\ NrOp' = NrOp /\ Ahead' = Ahead
  BY <1>1 DEF NrOp, Ahead, workVars, lifecycleVars
<1>10. Before(c) \in Int /\ Before(c)' = Before(c) + 1 /\ cur_nr_op[c] = Before(c) + Outstanding(c)
  BY <1>1, <1>8, <1>9 DEF Before, WorkType
<1>11. BatchInv(c)'
  <2>1. CASE SingleReply(c)
    <3>1. pc[c] = "single" /\ pc'[c] = "loop" /\ config.batch_size = 1 /\ Outstanding(c) = 1
      BY <2>1 DEF SingleReply, Goto, WorkType, ClientInv, BatchInv
    <3> QED BY <1>8, <1>9, <3>1, ConfigIsTyped DEF ClientInv, BatchInv
  <2>2. CASE FlushReply(c)
    <3>1. /\ config.batch_size # 1 /\ cur_batch[c] = Outstanding(c) /\ Outstanding(c) > 0
          /\ cur_batch'[c] = Outstanding(c) - 1
          /\ pc'[c] = IF Outstanding(c) = 1 THEN "loop" ELSE "flush"
      BY <2>2 DEF FlushReply, Goto, WorkType, ClientInv, BatchInv, LastOfBatch
    <3> QED BY <1>1, <1>8, <1>9, <3>1, ConfigIsTyped DEF ClientInv, BatchInv
  <2> QED BY <2>1, <2>2
<1>12. OrderInv(c)'
  <2>1. last_reply'[c] = Before(c) + 1
    BY <1>1, <1>3, RepliesInOrder
  <2>2. ASSUME NEW i \in 1 .. r - 1 PROVE replies'[c][i].nr = Before(c) + 1 + i
    <3>1. replies'[c][i] = replies[c][i + 1]
      BY <1>4
    <3>2. \A j \in 1 .. r : replies[c][j].nr = Before(c) + j
      BY DEF ClientInv, OrderInv
    <3> HIDE DEF r
    <3>3. i + 1 \in 1 .. r /\ Before(c) + (i + 1) = Before(c) + 1 + i
      BY <1>7, <1>10
    <3> QED BY <3>1, <3>2, <3>3
  <2>3. wire' = wire /\ out' = out
    BY <1>1
  <2>4. ASSUME NEW i \in 1 .. w PROVE wire[c][i].nr = Before(c) + 1 + (r - 1) + i
    <3>1. wire[c][i].nr = Before(c) + r + i
      BY DEF ClientInv, OrderInv
    <3> HIDE DEF w, r
    <3> QED BY <1>7, <1>10, <3>1
  <2>5. ASSUME NEW i \in 1 .. o PROVE out[c][i].nr = Before(c) + 1 + (r - 1) + w + i
    <3>1. out[c][i].nr = Before(c) + r + w + i
      BY DEF ClientInv, OrderInv
    <3> HIDE DEF o, w, r
    <3> QED BY <1>7, <1>10, <3>1
  <2>6. last_reply'[c] <= Before(c) + 1
    BY <1>10, <2>1
  <2>7. /\ last_reply'[c] <= Before(c)'
        /\ \A i \in 1 .. Len(replies'[c]) : replies'[c][i].nr = Before(c)' + i
    BY <1>4, <1>10, <2>2, <2>6
  <2>8. /\ \A i \in 1 .. Len(wire'[c]) : wire'[c][i].nr = Before(c)' + Len(replies'[c]) + i
        /\ \A i \in 1 .. Len(out'[c]) :
             out'[c][i].nr = Before(c)' + Len(replies'[c]) + Len(wire'[c]) + i
    BY <1>4, <1>10, <2>3, <2>4, <2>5
  <2> QED BY <2>7, <2>8 DEF OrderInv
<1>13. DeliveredInv(c)'
  <2> SUFFICES ASSUME config.batch_size = 1, op[c].type = "READ"
               PROVE  /\ reply_value_buffer'[c] = op[c].nr
                      /\ last_reply'[c] = op[c].nr /\ op[c].nr # Null
    BY <1>9 DEF DeliveredInv
  <2>1. pc[c] = "single" /\ Outstanding(c) = 1 /\ op[c].nr = cur_nr_op[c]
    BY <1>1 DEF ClientInv, BatchInv
  <2>2. /\ op[c].nr = Before(c) + 1 /\ Head(replies[c]).nr = op[c].nr
        /\ op[c].nr # Null
    BY <1>1, <1>10, <2>1, RepliesInOrder, NoOpIsOperation DEF RepliesInv, ReplyType
  <2>3. reply_value_buffer'[c] = Head(replies[c]).nr
    BY <1>1 DEF TakeReply, PointBuffer, RepliesInv, ReplyType
  <2> QED BY <1>3, <2>2, <2>3
<1> QED BY <1>1, <1>2, <1>5, <1>6, <1>11, <1>12, <1>13, OneClientMoves DEF ClientInv, lifecycleVars

-----------------------------------------------------------------------------
(* The server: the first command sent becomes the last reply.              *)
LEMMA AnswerKeepsWork ==
  ASSUME IInv, NEW c \in Client, wire[c] # <<>>, NEW str \in Client \cup {Missing, OK, Refused},
         Answer(c, str), UNCHANGED config, store' \in [Key -> Client \cup {Missing}]
  PROVE  WorkInv'
<1> USE DEF IInv, WorkInv
<1> DEFINE o == Len(out[c])  w == Len(wire[c])  r == Len(replies[c])
           reply == [nr |-> Head(wire[c]).nr, str |-> str]
<1>1. /\ wire' = [wire EXCEPT ![c] = Tail(@)] /\ replies' = [replies EXCEPT ![c] = Append(@, reply)]
      /\ UNCHANGED <<lifecycleVars, replyVars, pc, workVars, cur_batch, out>>
  BY DEF Answer
<1>2. WorkType' /\ PhaseInv'
  BY <1>1 DEF WorkType, PhaseInv, workVars, lifecycleVars
<1>3. o \in Nat /\ w \in Nat /\ r \in Nat /\ w # 0
  <2>1. w # 0
    BY EmptySeq DEF ConnectionType
  <2> QED BY <2>1, LensAreNat
<1>4. /\ wire'[c] \in Seq(Commands) /\ Len(wire'[c]) = w - 1
      /\ \A i \in 1 .. Len(wire'[c]) : wire'[c][i] = wire[c][i + 1]
      /\ Head(wire[c]) = wire[c][1] /\ Head(wire[c]) \in Commands
  BY <1>1, HeadTailProperties DEF ConnectionType
<1>5. reply \in Reply
  BY <1>4 DEF Reply, Commands
<1>6. /\ replies'[c] \in Seq(Reply) /\ Len(replies'[c]) = r + 1
      /\ \A i \in 1 .. r : replies'[c][i] = replies[c][i]
      /\ replies'[c][r + 1] = reply
  BY <1>1, <1>5, AppendProperties DEF ConnectionType
<1>7. ConnectionType'
  BY <1>1, <1>4, <1>6 DEF ConnectionType
<1>8. \A d \in Client \ {c} : UNCHANGED ClientVars(d)
  BY <1>1 DEF ClientVars, ConnectionType, workVars, replyVars
<1>9. Outstanding(c)' = Outstanding(c) /\ Outstanding(c) \in Nat
  <2>1. Outstanding(c) = o + w + r /\ Outstanding(c)' = o + (w - 1) + (r + 1)
    BY <1>1, <1>4, <1>6 DEF Outstanding
  <2> HIDE DEF o, w, r
  <2> QED BY <1>3, <2>1
<1>10. Before(c)' = Before(c) /\ Before(c) \in Int
  BY <1>1, <1>9 DEF Before, WorkType, workVars
<1>11. BatchInv(c)' /\ DeliveredInv(c)'
  <2>1. NrOp' = NrOp /\ Ahead' = Ahead /\ UNCHANGED <<cur_nr_op, op, pc, cur_batch>>
    BY <1>1 DEF NrOp, Ahead, workVars, lifecycleVars
  <2>2. BatchInv(c)'
    BY <1>9, <2>1 DEF ClientInv, BatchInv
  <2>3. DeliveredInv(c)'
    BY <1>1, <2>1 DEF ClientInv, DeliveredInv, replyVars
  <2> QED BY <2>2, <2>3
<1>12. OrderInv(c)'
  <2>1. out' = out /\ last_reply' = last_reply
    BY <1>1 DEF replyVars
  <2>2. ASSUME NEW i \in 1 .. r + 1 PROVE replies'[c][i].nr = Before(c) + i
    <3>1. CASE i = r + 1
      <4>1. 1 \in 1 .. w
        <5> HIDE DEF w
        <5> QED BY <1>3
      <4>2. replies'[c][i].nr = Before(c) + r + 1
        BY <1>4, <1>6, <3>1, <4>1 DEF ClientInv, OrderInv
      <4> HIDE DEF r
      <4> QED BY <1>3, <1>10, <3>1, <4>2
    <3>2. CASE i # r + 1
      <4>1. i \in 1 .. r
        <5> HIDE DEF r
        <5> QED BY <1>3, <3>2
      <4> QED BY <1>6, <4>1 DEF ClientInv, OrderInv
    <3> QED BY <3>1, <3>2
  <2>3. ASSUME NEW i \in 1 .. w - 1 PROVE wire'[c][i].nr = Before(c) + (r + 1) + i
    <3>1. wire'[c][i] = wire[c][i + 1]
      BY <1>4
    <3>2. i + 1 \in 1 .. w
      <4> HIDE DEF w
      <4> QED BY <1>3
    <3>3. wire[c][i + 1].nr = Before(c) + r + (i + 1)
      BY <3>2 DEF ClientInv, OrderInv
    <3> HIDE DEF w, r
    <3> QED BY <1>3, <1>10, <3>1, <3>3
  <2>4. ASSUME NEW i \in 1 .. o PROVE out[c][i].nr = Before(c) + (r + 1) + (w - 1) + i
    <3>1. out[c][i].nr = Before(c) + r + w + i
      BY DEF ClientInv, OrderInv
    <3> HIDE DEF o, w, r
    <3> QED BY <1>3, <1>10, <3>1
  <2>5. last_reply'[c] <= Before(c)'
    BY <1>10, <2>1 DEF ClientInv, OrderInv
  <2>6. \A i \in 1 .. Len(replies'[c]) : replies'[c][i].nr = Before(c)' + i
    BY <1>6, <1>10, <2>2
  <2>7. /\ \A i \in 1 .. Len(wire'[c]) : wire'[c][i].nr = Before(c)' + Len(replies'[c]) + i
        /\ \A i \in 1 .. Len(out'[c]) :
             out'[c][i].nr = Before(c)' + Len(replies'[c]) + Len(wire'[c]) + i
    BY <1>4, <1>6, <1>10, <2>1, <2>3, <2>4
  <2> QED BY <2>5, <2>6, <2>7 DEF OrderInv
<1> QED BY <1>1, <1>2, <1>7, <1>8, <1>11, <1>12, OneClientMoves DEF ClientInv, lifecycleVars

(* Execute and Refuse: the server answers the first command it has.        *)
LEMMA ServerKeepsWork ==
  ASSUME IInv, NEW c \in Client, Server(c), UNCHANGED config
  PROVE  WorkInv'
<1>1. wire[c] # <<>>
  BY DEF Server, Execute, Refuse
<1>2. Head(wire[c]) \in Commands
  BY <1>1, HeadTailProperties DEF IInv, WorkInv, ConnectionType
<1>3. store \in [Key -> Client \cup {Missing}]
  BY DEF IInv, WorkInv, WorkType
<1>4. CASE Execute(c)
  <2>1. store' \in [Key -> Client \cup {Missing}]
    BY <1>3, <1>4 DEF Execute
  <2>2. store[Head(wire[c]).key] \in Client \cup {Missing}
    BY <1>2, <1>3 DEF Commands
  <2> QED BY <1>1, <1>4, <2>1, <2>2, AnswerKeepsWork DEF Execute
<1>5. CASE Refuse(c)
  BY <1>1, <1>3, <1>5, AnswerKeepsWork DEF Refuse
<1> QED BY <1>4, <1>5 DEF Server

(* Nothing moves, but for the failure of the process.                      *)
LEMMA FailureKeepsWork ==
  ASSUME IInv, UNCHANGED config,
         UNCHANGED <<lifecycleVars, replyVars, pc, workVars, cur_batch, out, wire, replies, store>>
  PROVE  WorkInv'
<1>1. WorkType' /\ ConnectionType' /\ PhaseInv'
  BY DEF IInv, WorkInv, WorkType, ConnectionType, PhaseInv, workVars, lifecycleVars
<1>2. ASSUME NEW c \in Client PROVE ClientInv(c)'
  <2>1. UNCHANGED ClientVars(c) /\ UNCHANGED round
    BY DEF ClientVars, workVars, replyVars, lifecycleVars
  <2> QED BY <2>1, StillKeepsInv DEF IInv, WorkInv
<1> QED BY <1>1, <1>2 DEF WorkInv

(* Who frees replies when: main, or a worker that takes the next one.      *)
LEMMA WorkersKeepReplies ==
  ASSUME IInv, NEW c \in Client, Worker(c)
  PROVE  RepliesInv'
<1>1. CASE NextOp(c) \/ DoSingle(c) \/ DoBatched(c) \/ DoInvalid(c) \/ WriteBuffer(c)
  <2>1. UNCHANGED replyVars /\ UNCHANGED lifecycleVars
    BY <1>1 DEF NextOp, DoSingle, DoBatched, DoInvalid, WriteBuffer, Goto
  <2> QED BY <2>1, OthersKeepReplies DEF IInv
<1>2. CASE Exit(c)
  <2>1. PointBuffer(c, Null) /\ UNCHANGED <<lifecycleVars, last_reply, heap, double_free>>
    BY <1>2 DEF Exit, Goto
  <2> QED BY <2>1, PointKeepsReplies DEF IInv
<1>3. CASE SingleReply(c) \/ FlushReply(c)
  <2>1. /\ main = "run" /\ UNCHANGED lifecycleVars /\ replies[c] # <<>>
        /\ SetLastReply(c, Head(replies[c]).nr)
        /\ PointBuffer(c, Head(replies[c]).nr) \/ UNCHANGED reply_value_buffer
    BY <1>3 DEF SingleReply, FlushReply, Goto, TakeReply
  <2> QED BY <2>1, RepliesInOrder, SetKeepsReplies DEF IInv
<1> QED BY <1>1, <1>2, <1>3 DEF Worker

(* Every step keeps the invariant.                                         *)
LEMMA IInvKept == IInv /\ [Next]_vars => IInv'
<1> SUFFICES ASSUME IInv, [Next]_vars PROVE IInv'
  OBVIOUS
<1>1. CASE Running(Main)
  <2>1. Main /\ UNCHANGED config
    BY <1>1 DEF Running
  <2>2. MainInv'
    BY <2>1, CreateKeepsMainInv, CloseKeepsMainInv, DeleteKeepsMainInv, OthersKeepMainInv
       DEF Main, NextRun, IInv
  <2>3. RepliesInv'
    BY <2>1, CloseKeepsReplies, DeleteKeepsReplies, OthersKeepReplies DEF Main, NextRun, IInv
  <2> QED BY <2>1, <2>2, <2>3, MainKeepsWork DEF IInv
<1>2. ASSUME NEW c \in Client, Running(Worker(c)), ~ DoInvalid(c) PROVE IInv'
  <2>1. Worker(c) /\ UNCHANGED config
    BY <1>2 DEF Running
  <2>2. UNCHANGED lifecycleVars
    BY <2>1 DEF Worker, NextOp, Exit, DoSingle, DoBatched, DoInvalid, WriteBuffer, SingleReply,
                FlushReply, Goto
  <2>3. MainInv'
    BY <2>2, OthersKeepMainInv DEF IInv
  <2>4. WorkInv'
    BY <1>2, <2>1, NextOpKeepsWork, ExitKeepsWork, DoKeepsWork, WriteKeepsWork, TakeKeepsWork
       DEF Worker
  <2> QED BY <2>1, <2>3, <2>4, WorkersKeepReplies DEF IInv
<1>3. ASSUME NEW c \in Client, Running(Server(c)) PROVE IInv'
  <2>1. Server(c) /\ UNCHANGED config /\ UNCHANGED lifecycleVars /\ UNCHANGED replyVars
    BY <1>3 DEF Running, Server, Execute, Refuse, Answer
  <2> QED BY <2>1, OthersKeepMainInv, OthersKeepReplies, ServerKeepsWork DEF IInv
<1>4. CASE /\ UNCHANGED config
           /\ UNCHANGED <<lifecycleVars, replyVars, pc, workVars, cur_batch, out, wire, replies, store>>
  <2>1. UNCHANGED lifecycleVars /\ UNCHANGED replyVars
    BY <1>4
  <2> QED BY <1>4, <2>1, OthersKeepMainInv, OthersKeepReplies, FailureKeepsWork DEF IInv
<1> QED BY <1>1, <1>2, <1>3, <1>4
        DEF Next, Running, MainFails, ReplyFails, DoInvalid, Worker, vars

-----------------------------------------------------------------------------
(* The connections, batches and replies of redis_client.cpp, at every step *)
(* of its calls, of the server and of the loops in worker.cpp.             *)
THEOREM Accounted == Spec => []IInv
BY IInvStarts, IInvKept, PTL DEF Spec

(* Every connection is closed exactly once (close and the destructor of    *)
(* RedisClient).                                                           *)
THEOREM ConnectionsClosedOnce == Spec => []HandlesBalanced
<1>1. IInv => HandlesBalanced
  BY MainInvBalances DEF IInv
<1> QED BY <1>1, Accounted, PTL

(* Every reply is freed exactly once (set_last_reply, close and the        *)
(* destructor of RedisClient).                                             *)
THEOREM RepliesFreedOnce == Spec => []RepliesOwned
<1>1. IInv => RepliesOwned
  BY RepliesInvOwns DEF IInv
<1> QED BY <1>1, Accounted, PTL

(* cur_batch is the number of replies a client is owed                     *)
(* (RedisClient::do_operation and do_batch).                               *)
THEOREM BatchesCounted == Spec => []BatchCountsOutstanding
<1>1. IInv => BatchCountsOutstanding
  BY DEF IInv, WorkInv, ClientInv, BatchInv, BatchCountsOutstanding
<1> QED BY <1>1, Accounted, PTL

(* A client is at most a batch ahead, and has all its replies in the end.  *)
THEOREM BatchesBounded == Spec => []BatchBounded
<1>1. IInv => BatchBounded
  BY DEF IInv, WorkInv, ClientInv, BatchInv, BatchBounded
<1> QED BY <1>1, Accounted, PTL

(* Without batches, a READ's reply is that READ's, and allocated.          *)
THEOREM SingleReadsDelivered == Spec => []SingleReadDelivers
<1>1. IInv => SingleReadDelivers
  BY DEF IInv, WorkInv, ClientInv, DeliveredInv, RepliesInv, OwnInv, SingleReadDelivers,
         ReplyBufferIsForRead
<1> QED BY <1>1, Accounted, PTL

-----------------------------------------------------------------------------
(* The commands of a client that the server has not answered, in order.    *)
Pending(c) == wire[c] \o out[c]

(* They are commands, and none is left with a worker that has exited.      *)
LEMMA PendingIsTyped ==
  ASSUME WorkInv, NEW c \in Client
  PROVE  /\ Pending(c) \in Seq(Commands)
         /\ Len(Pending(c)) = Len(wire[c]) + Len(out[c])
         /\ Len(Pending(c)) \in Nat
         /\ Len(Pending(c)) <= Outstanding(c)
         /\ pc[c] = "exited" => Pending(c) = <<>>
<1> DEFINE o == Len(out[c])  w == Len(wire[c])  r == Len(replies[c])
<1>1. wire[c] \in Seq(Commands) /\ out[c] \in Seq(Commands)
  BY DEF WorkInv, ConnectionType
<1>2. Pending(c) \in Seq(Commands) /\ Len(Pending(c)) = w + o
  BY <1>1, ConcatProperties DEF Pending
<1>3. o \in Nat /\ w \in Nat /\ r \in Nat /\ Outstanding(c) = o + w + r
  BY LensAreNat DEF WorkInv, Outstanding
<1>4. w + o <= Outstanding(c) /\ w + o \in Nat /\ (Outstanding(c) = 0 => w + o = 0)
  <2> HIDE DEF o, w, r
  <2> QED BY <1>3
<1>5. ASSUME pc[c] = "exited" PROVE Pending(c) = <<>>
  <2>1. Outstanding(c) = 0
    BY <1>5 DEF WorkInv, ClientInv, BatchInv
  <2>2. Len(Pending(c)) = 0
    BY <1>2, <1>4, <2>1
  <2> QED BY <1>2, <2>2, EmptySeq
<1> QED BY <1>2, <1>4, <1>5

(* do_operation adds a command at the end.                                 *)
LEMMA PendingGrows ==
  ASSUME WorkInv, NEW c \in Client, DoSingle(c) \/ DoBatched(c)
  PROVE  /\ Command(c) \in Commands
         /\ Pending(c)' = Append(Pending(c), Command(c))
         /\ \A d \in Client \ {c} : Pending(d)' = Pending(d)
<1>1. wire[c] \in Seq(Commands) /\ out[c] \in Seq(Commands)
  BY DEF WorkInv, ConnectionType
<1>2. /\ out'[c] = Append(out[c], Command(c)) /\ wire' = wire
      /\ \A d \in Client \ {c} : out'[d] = out[d]
  BY DEF DoSingle, DoBatched, WorkInv, ConnectionType
<1>3. Command(c) \in Commands /\ <<Command(c)>> \in Seq(Commands)
  BY DEF Command, Commands, IsWrite, WorkInv, WorkType, Operation
<1>4. Append(out[c], Command(c)) = out[c] \o <<Command(c)>>
  BY <1>1, <1>3, AppendIsConcat
<1>5. (wire[c] \o out[c]) \o <<Command(c)>> = wire[c] \o (out[c] \o <<Command(c)>>)
  <2> DEFINE W == wire[c]  O == out[c]  last == <<Command(c)>>
  <2>1. W \in Seq(Commands) /\ O \in Seq(Commands) /\ last \in Seq(Commands)
    BY <1>1, <1>3
  <2> HIDE DEF W, O, last
  <2>2. (W \o O) \o last = W \o (O \o last)
    BY <2>1, ConcatAssociative, SMT
  <2> QED BY <2>2 DEF W, O, last
<1>6. wire[c] \o out[c] \in Seq(Commands)
  BY <1>1, ConcatProperties
<1>7. Append(wire[c] \o out[c], Command(c)) = (wire[c] \o out[c]) \o <<Command(c)>>
  BY <1>3, <1>6, AppendIsConcat
<1> QED BY <1>2, <1>3, <1>4, <1>5, <1>7 DEF Pending

(* Writing the buffer changes only where the commands are.                 *)
LEMMA PendingIsWritten ==
  ASSUME WorkInv, NEW c \in Client, WriteBuffer(c)
  PROVE  \A d \in Client : Pending(d)' = Pending(d)
<1>1. wire[c] \in Seq(Commands) /\ out[c] \in Seq(Commands)
  BY DEF WorkInv, ConnectionType
<1>2. /\ wire'[c] = wire[c] \o out[c] /\ out'[c] = <<>>
      /\ \A d \in Client \ {c} : out'[d] = out[d] /\ wire'[d] = wire[d]
  BY DEF WriteBuffer, WorkInv, ConnectionType
<1>3. wire[c] \o out[c] \in Seq(Commands)
  BY <1>1, ConcatProperties
<1>4. (wire[c] \o out[c]) \o <<>> = wire[c] \o out[c]
  BY <1>3, ConcatEmptySeq
<1> QED BY <1>2, <1>4 DEF Pending

(* The server answers the first.                                           *)
LEMMA PendingIsAnswered ==
  ASSUME WorkInv, NEW c \in Client, wire[c] # <<>>, NEW str, Answer(c, str)
  PROVE  /\ Pending(c) # <<>> /\ Head(Pending(c)) = Head(wire[c])
         /\ Head(wire[c]) \in Commands
         /\ Pending(c)' = Tail(Pending(c))
         /\ \A d \in Client \ {c} : Pending(d)' = Pending(d)
<1> DEFINE W == wire[c]  O == out[c]
<1>1. W \in Seq(Commands) /\ O \in Seq(Commands) /\ W # <<>>
  BY DEF WorkInv, ConnectionType
<1>2. /\ wire'[c] = Tail(W) /\ out' = out
      /\ \A d \in Client \ {c} : wire'[d] = wire[d]
  BY DEF Answer, WorkInv, ConnectionType
<1> HIDE DEF W, O
<1>3. Len(W) \in Nat \ {0} /\ Len(O) \in Nat
  BY <1>1, EmptySeq, LenProperties
<1>4. /\ W \o O \in Seq(Commands) /\ Len(W \o O) = Len(W) + Len(O)
      /\ \A i \in 1 .. Len(W) + Len(O) : (W \o O)[i] = IF i <= Len(W) THEN W[i] ELSE O[i - Len(W)]
  BY <1>1, ConcatProperties
<1>5. /\ Tail(W) \in Seq(Commands) /\ Len(Tail(W)) = Len(W) - 1
      /\ \A i \in 1 .. Len(Tail(W)) : Tail(W)[i] = W[i + 1]
      /\ Head(W) \in Commands /\ Head(W) = W[1]
  BY <1>1, HeadTailProperties
<1>6. /\ Tail(W) \o O \in Seq(Commands) /\ Len(Tail(W) \o O) = Len(W) - 1 + Len(O)
      /\ \A i \in 1 .. Len(W) - 1 + Len(O) :
           (Tail(W) \o O)[i] = IF i <= Len(W) - 1 THEN Tail(W)[i] ELSE O[i - (Len(W) - 1)]
  BY <1>1, <1>5, ConcatProperties
<1>7. Len(W \o O) # 0 /\ W \o O # <<>>
  BY <1>3, <1>4
<1>8. /\ Tail(W \o O) \in Seq(Commands) /\ Len(Tail(W \o O)) = Len(W) + Len(O) - 1
      /\ \A i \in 1 .. Len(W) + Len(O) - 1 : Tail(W \o O)[i] = (W \o O)[i + 1]
      /\ Head(W \o O) = (W \o O)[1]
  BY <1>4, <1>7, HeadTailProperties
<1>9. Head(W \o O) = Head(W)
  BY <1>3, <1>4, <1>5, <1>8
<1>10. \A i \in 1 .. Len(W) + Len(O) - 1 : Tail(W \o O)[i] = (Tail(W) \o O)[i]
  <2> SUFFICES ASSUME NEW i \in 1 .. Len(W) + Len(O) - 1 PROVE Tail(W \o O)[i] = (Tail(W) \o O)[i]
    OBVIOUS
  <2>1. Tail(W \o O)[i] = IF i + 1 <= Len(W) THEN W[i + 1] ELSE O[i + 1 - Len(W)]
    BY <1>3, <1>4, <1>8
  <2>2. (Tail(W) \o O)[i] = IF i <= Len(W) - 1 THEN Tail(W)[i] ELSE O[i - (Len(W) - 1)]
    BY <1>3, <1>6
  <2>3. i <= Len(W) - 1 => Tail(W)[i] = W[i + 1]
    BY <1>3, <1>5
  <2>4. i + 1 - Len(W) = i - (Len(W) - 1) /\ (i + 1 <= Len(W) <=> i <= Len(W) - 1)
    BY <1>3
  <2> QED BY <2>1, <2>2, <2>3, <2>4
<1>11. Len(Tail(W \o O)) = Len(Tail(W) \o O)
  BY <1>3, <1>6, <1>8
<1>12. Tail(W \o O) = Tail(W) \o O
  <2>1. \A i \in 1 .. Len(Tail(W \o O)) : Tail(W \o O)[i] = (Tail(W) \o O)[i]
    BY <1>8, <1>10
  <2> QED BY <1>6, <1>8, <1>11, <2>1, SeqEqual
<1> QED BY <1>2, <1>5, <1>7, <1>9, <1>12 DEF Pending, W, O

-----------------------------------------------------------------------------
(* The Client interface: RedisRun implements ClientSession.                *)

(* What the interface sees of a command.                                   *)
Effect(command) == [write |-> command.write, key |-> command.key]
Effects(commands) == [i \in 1 .. Len(commands) |-> Effect(commands[i])]

(* Effects keeps the length, the order, the first and the rest.            *)
LEMMA EffectsAreCommands ==
  ASSUME NEW s \in Seq(Commands)
  PROVE  /\ Effects(s) \in Seq(Session!Command) /\ Len(Effects(s)) = Len(s)
         /\ \A i \in 1 .. Len(s) : Effects(s)[i] = Effect(s[i])
<1>1. Len(s) \in Nat /\ \A i \in 1 .. Len(s) : s[i] \in Commands
  BY ElementOfSeq, LenProperties
<1>2. \A i \in 1 .. Len(s) : Effect(s[i]) \in Session!Command
  BY <1>1 DEF Effect, Commands, Session!Command
<1>3. Effects(s) \in [1 .. Len(s) -> Session!Command]
  BY <1>2 DEF Effects
<1>4. Effects(s) \in Seq(Session!Command)
  BY <1>1, <1>3, SeqDef
<1> QED BY <1>1, <1>3, <1>4, LenProperties DEF Effects

(* A further command is a further operation.                               *)
LEMMA EffectsOfAppend ==
  ASSUME NEW s \in Seq(Commands), NEW command \in Commands
  PROVE  /\ Effect(command) \in Session!Command
         /\ Effects(Append(s, command)) = Append(Effects(s), Effect(command))
<1> DEFINE t == Append(s, command)  es == Effects(s)  et == Effects(t)  e == Effect(command)
<1>1. e \in Session!Command
  BY DEF Effect, Commands, Session!Command
<1>2. /\ t \in Seq(Commands) /\ Len(t) = Len(s) + 1 /\ Len(s) \in Nat
      /\ \A i \in 1 .. Len(s) : t[i] = s[i]
      /\ t[Len(s) + 1] = command
  BY AppendProperties, LenProperties
<1> HIDE DEF t
<1>3. /\ es \in Seq(Session!Command) /\ Len(es) = Len(s)
      /\ \A i \in 1 .. Len(s) : es[i] = Effect(s[i])
  BY EffectsAreCommands
<1>4. /\ et \in Seq(Session!Command) /\ Len(et) = Len(s) + 1
      /\ \A i \in 1 .. Len(s) + 1 : et[i] = Effect(t[i])
  BY <1>2, EffectsAreCommands
<1> HIDE DEF es, et
<1>5. /\ Append(es, e) \in Seq(Session!Command) /\ Len(Append(es, e)) = Len(s) + 1
      /\ \A i \in 1 .. Len(s) : Append(es, e)[i] = es[i]
      /\ Append(es, e)[Len(s) + 1] = e
  BY <1>1, <1>3, AppendProperties
<1>6. \A i \in 1 .. Len(s) + 1 : et[i] = Append(es, e)[i]
  <2> SUFFICES ASSUME NEW i \in 1 .. Len(s) + 1 PROVE et[i] = Append(es, e)[i]
    OBVIOUS
  <2>1. CASE i = Len(s) + 1
    BY <1>2, <1>4, <1>5, <2>1
  <2>2. CASE i # Len(s) + 1
    <3>1. i \in 1 .. Len(s)
      BY <1>2, <2>2
    <3> QED BY <1>2, <1>3, <1>4, <1>5, <3>1
  <2> QED BY <2>1, <2>2
<1>7. et = Append(es, e)
  BY <1>4, <1>5, <1>6, SeqEqual
<1> QED BY <1>1, <1>7 DEF et, es, t

(* The command that is answered is the first operation.                    *)
LEMMA EffectsOfTail ==
  ASSUME NEW s \in Seq(Commands), s # <<>>
  PROVE  /\ Effects(s) # <<>> /\ Head(Effects(s)) = Effect(Head(s))
         /\ Effects(Tail(s)) = Tail(Effects(s))
<1> DEFINE t == Tail(s)  es == Effects(s)  et == Effects(t)
<1>1. Len(s) \in Nat \ {0}
  BY EmptySeq
<1>2. /\ t \in Seq(Commands) /\ Len(t) = Len(s) - 1
      /\ \A i \in 1 .. Len(s) - 1 : t[i] = s[i + 1]
  BY HeadTailProperties
<1>3. Head(s) = s[1]
  OBVIOUS
<1> HIDE DEF t
<1>4. /\ es \in Seq(Session!Command) /\ Len(es) = Len(s)
      /\ \A i \in 1 .. Len(s) : es[i] = Effect(s[i])
  BY EffectsAreCommands
<1>5. /\ et \in Seq(Session!Command) /\ Len(et) = Len(s) - 1
      /\ \A i \in 1 .. Len(s) - 1 : et[i] = Effect(t[i])
  BY <1>2, EffectsAreCommands
<1> HIDE DEF es, et
<1>6. es # <<>> /\ Head(es) = es[1]
  BY <1>1, <1>4
<1>7. /\ Tail(es) \in Seq(Session!Command) /\ Len(Tail(es)) = Len(s) - 1
      /\ \A i \in 1 .. Len(s) - 1 : Tail(es)[i] = es[i + 1]
  BY <1>4, <1>6, HeadTailProperties
<1>8. \A i \in 1 .. Len(s) - 1 : et[i] = Tail(es)[i]
  <2> SUFFICES ASSUME NEW i \in 1 .. Len(s) - 1 PROVE et[i] = Tail(es)[i]
    OBVIOUS
  <2>1. i + 1 \in 1 .. Len(s)
    BY <1>1
  <2> QED BY <1>2, <1>4, <1>5, <1>7, <2>1
<1>9. et = Tail(es)
  BY <1>5, <1>7, <1>8, SeqEqual
<1>10. Head(es) = Effect(Head(s))
  BY <1>1, <1>3, <1>4, <1>6
<1> QED BY <1>6, <1>9, <1>10 DEF et, es, t

Given == [c \in Client |->
           [i \in 1 .. Len(wire[c]) + Len(out[c]) |->
              [write |-> (wire[c] \o out[c])[i].write,
               key   |-> (wire[c] \o out[c])[i].key]]]
Left == {c \in Client : round = 1 /\ pc[c] = "exited"}

(* The operations given and not applied are the commands not answered.     *)
LEMMA EffectsOfConcat ==
  ASSUME NEW w \in Seq(Commands), NEW o \in Seq(Commands)
  PROVE  [i \in 1 .. Len(w) + Len(o) |->
            [write |-> (w \o o)[i].write, key |-> (w \o o)[i].key]] = Effects(w \o o)
<1>1. Len(w \o o) = Len(w) + Len(o)
  BY ConcatProperties
<1> QED BY <1>1 DEF Effects, Effect

(* A step of one client moves that client's operations only.               *)
LEMMA GivenMoves ==
  ASSUME ConnectionType, ConnectionType', NEW c \in Client,
         \A d \in Client \ {c} : Pending(d)' = Pending(d)
  PROVE  /\ Given[c] = Effects(Pending(c))
         /\ Given' = [Given EXCEPT ![c] = Effects(Pending(c)')]
<1>1. \A d \in Client : Given[d] = Effects(Pending(d))
  BY EffectsOfConcat DEF Given, Pending, ConnectionType
<1>2. \A d \in Client : Given'[d] = Effects(Pending(d)')
  BY EffectsOfConcat DEF Given, Pending, ConnectionType
<1>3. Given \in [Client -> {Given[d] : d \in Client}] /\ DOMAIN Given' = Client
  BY DEF Given
<1>4. Given' = [d \in Client |-> Given'[d]]
  BY DEF Given
<1> QED BY <1>1, <1>2, <1>3, <1>4

(* A step that neither adds nor answers a command moves no operation.      *)
LEMMA GivenStays ==
  ASSUME ConnectionType, ConnectionType', \A d \in Client : Pending(d)' = Pending(d)
  PROVE  Given' = Given
<1>1. \A d \in Client : Given[d] = Effects(Pending(d))
  BY EffectsOfConcat DEF Given, Pending, ConnectionType
<1>2. \A d \in Client : Given'[d] = Effects(Pending(d)')
  BY EffectsOfConcat DEF Given, Pending, ConnectionType
<1>3. Given = [d \in Client |-> Given[d]] /\ Given' = [d \in Client |-> Given'[d]]
  BY DEF Given
<1> QED BY <1>1, <1>2, <1>3

(* A step that also ends no worker's last round.                           *)
LEMMA SilentStep ==
  ASSUME Given' = Given, Left' = Left, UNCHANGED <<store, aborted, config>>
  PROVE  UNCHANGED Session!absVars
BY DEF Given, Left, Ahead, Session!absVars

(* main creates, joins, closes and deletes; between the rounds it drops    *)
(* connections on which nothing is outstanding.                            *)
LEMMA MainIsSilent ==
  ASSUME IInv, IInv', Main, UNCHANGED config
  PROVE  UNCHANGED Session!absVars
<1> USE DEF IInv, WorkInv
<1>1. CASE NextRun
  <2>1. /\ round = 0 /\ \A c \in Client : pc[c] = "exited" /\ pc'[c] = "loop"
        /\ UNCHANGED <<store, aborted>>
    BY <1>1 DEF NextRun, NextRound, MainInv, RoundInv, PhaseInv
  <2>2. ASSUME NEW c \in Client PROVE Pending(c)' = Pending(c)
    <3>1. Pending(c) = <<>>
      BY <2>1, PendingIsTyped
    <3>2. Pending(c)' = <<>> \o <<>>
      BY <1>1 DEF NextRun, Pending
    <3>3. <<>> \o <<>> = <<>>
      BY ConcatEmptySeq, EmptySeq
    <3> QED BY <3>1, <3>2, <3>3
  <2>3. Given' = Given
    BY <2>2, GivenStays
  <2>4. Left' = Left
    BY <2>1 DEF Left
  <2> QED BY <2>1, <2>3, <2>4, SilentStep
<1>2. CASE UNCHANGED <<pc, out, wire, store, aborted, round>>
  <2>1. Given' = Given /\ Left' = Left
    BY <1>2 DEF Given, Left
  <2> QED BY <1>2, <2>1, SilentStep
<1>3. Main => NextRun \/ UNCHANGED <<pc, out, wire, store, aborted, round>>
  BY DEF Main, CreateClient, JoinWorkers, JoinMonitor, CloseClient, DeleteClient, LoopStep
<1> QED BY <1>1, <1>2, <1>3

(* do_operation gives the session an operation.  A client with a command   *)
(* at hand has room for it.                                                *)
LEMMA DoGives ==
  ASSUME IInv, IInv', NEW c \in Client, DoSingle(c) \/ DoBatched(c), ~ aborted, UNCHANGED config
  PROVE  Session!Next
<1> USE DEF IInv, WorkInv
<1> DEFINE effect == Effect(Command(c))
<1>1. /\ pc[c] = "do" /\ pc' = [pc EXCEPT ![c] = pc'[c]] /\ pc'[c] # "exited"
      /\ UNCHANGED <<store, aborted, round>>
  BY DEF DoSingle, DoBatched, Goto, lifecycleVars, WorkType
<1>2. /\ Command(c) \in Commands /\ Pending(c)' = Append(Pending(c), Command(c))
      /\ \A d \in Client \ {c} : Pending(d)' = Pending(d)
  BY PendingGrows
<1>3. Given[c] = Effects(Pending(c)) /\ Given' = [Given EXCEPT ![c] = Effects(Pending(c)')]
  BY <1>2, GivenMoves
<1>4. Pending(c) \in Seq(Commands) /\ Len(Pending(c)) \in Nat /\ Len(Pending(c)) <= Outstanding(c)
  BY PendingIsTyped
<1>5. effect \in Session!Command /\ Effects(Pending(c)') = Append(Given[c], effect)
  BY <1>2, <1>3, <1>4, EffectsOfAppend
<1>6. Len(Given[c]) < Ahead
  <2>1. Len(Given[c]) = Len(Pending(c))
    BY <1>3, <1>4, EffectsAreCommands
  <2>2. Outstanding(c) < Ahead /\ Outstanding(c) \in Nat /\ Ahead \in Nat
    BY <1>1, ConfigIsTyped, LensAreNat DEF ClientInv, BatchInv
  <2> QED BY <1>4, <2>1, <2>2
<1>7. Left' = Left /\ c \notin Left
  BY <1>1 DEF Left, WorkType
<1>8. Given' = [Given EXCEPT ![c] = Append(@, effect)]
  BY <1>3, <1>5 DEF Given
<1>9. Session!Give(c)
  BY <1>1, <1>5, <1>6, <1>7, <1>8 DEF Session!Give, Given, Left
<1>10. UNCHANGED <<Ahead, config.refuses>>
  BY DEF Ahead
<1> QED BY <1>9, <1>10 DEF Session!Next

(* The server executes or refuses the first operation given.               *)
LEMMA ServerRefines ==
  ASSUME IInv, IInv', NEW c \in Client, Server(c), ~ aborted, UNCHANGED config
  PROVE  Session!Next
<1> USE DEF IInv, WorkInv
<1> DEFINE command == Head(wire[c])
<1>1. PICK str : wire[c] # <<>> /\ Answer(c, str)
  BY DEF Server, Execute, Refuse
<1>2. UNCHANGED <<pc, aborted, round>>
  BY <1>1 DEF Answer, lifecycleVars
<1>3. /\ Pending(c) # <<>> /\ Head(Pending(c)) = command
      /\ Pending(c)' = Tail(Pending(c))
      /\ \A d \in Client \ {c} : Pending(d)' = Pending(d)
  BY <1>1, PendingIsAnswered
<1>4. Given[c] = Effects(Pending(c)) /\ Given' = [Given EXCEPT ![c] = Effects(Pending(c)')]
  BY <1>3, GivenMoves
<1>5. /\ Given[c] # <<>> /\ Head(Given[c]) = Effect(command)
      /\ Effects(Pending(c)') = Tail(Given[c])
  BY <1>3, <1>4, PendingIsTyped, EffectsOfTail
<1>6. Given' = [Given EXCEPT ![c] = Tail(@)]
  BY <1>4, <1>5 DEF Given
<1>7. Left' = Left
  BY <1>2 DEF Left
<1>8. CASE Execute(c)
  <2>1. store' = IF command.write THEN [store EXCEPT ![command.key] = c] ELSE store
    BY <1>8 DEF Execute
  <2>2. Effect(command).write = command.write /\ Effect(command).key = command.key
    BY DEF Effect
  <2>3. store' = IF Head(Given[c]).write THEN [store EXCEPT ![Head(Given[c]).key] = c] ELSE store
    <3> HIDE DEF command, IInv, WorkInv
    <3> QED BY <1>5, <2>1, <2>2
  <2>4. Session!Apply(c)
    BY <1>2, <1>5, <1>6, <1>7, <2>3 DEF Session!Apply, Given, Left
  <2> QED BY <2>4 DEF Session!Next, Ahead
<1>9. CASE Refuse(c)
  <2>1. config.refuses /\ UNCHANGED store
    BY <1>9 DEF Refuse
  <2>2. Session!Refuse(c)
    BY <1>2, <1>5, <1>6, <1>7, <2>1 DEF Session!Refuse, Given, Left
  <2> QED BY <2>2 DEF Session!Next, Ahead
<1> QED BY <1>8, <1>9 DEF Server

(* The process ends.                                                       *)
LEMMA FailureRefines ==
  ASSUME ~ aborted, aborted' = TRUE, UNCHANGED <<config, lifecycleVars, pc, out, wire, store>>
  PROVE  Session!Next
<1>1. Given' = Given /\ Left' = Left
  BY DEF lifecycleVars, Given, Left
<1>2. Session!Fail
  BY <1>1 DEF Session!Fail, Given, Left
<1> QED BY <1>2 DEF Session!Next, Ahead

(* A worker that exits from its last round leaves the session: is_last_op  *)
(* has flushed its last batch.                                             *)
LEMMA ExitRefines ==
  ASSUME IInv, IInv', NEW c \in Client, Exit(c), ~ aborted, UNCHANGED config
  PROVE  [Session!Next]_Session!absVars
<1> USE DEF IInv, WorkInv
<1>1. /\ pc[c] = "loop" /\ pc' = [pc EXCEPT ![c] = "exited"] /\ ~ HasNextOp(c)
      /\ UNCHANGED <<out, wire, store, aborted, round>>
  BY DEF Exit, Goto, lifecycleVars
<1>2. Pending(c) = <<>>
  <2>1. /\ cur_nr_op[c] \in Nat /\ NrOp \in Nat
        /\ cur_nr_op[c] <= NrOp /\ (cur_nr_op[c] = NrOp => Outstanding(c) = 0)
    BY <1>1, ConfigIsTyped DEF WorkType, ClientInv, BatchInv
  <2>2. Outstanding(c) = 0
    <3> HIDE DEF IInv, WorkInv
    <3> QED BY <1>1, <2>1 DEF HasNextOp
  <2>3. /\ Pending(c) \in Seq(Commands) /\ Len(Pending(c)) \in Nat
        /\ Len(Pending(c)) <= Outstanding(c)
    BY PendingIsTyped
  <2>4. Len(Pending(c)) = 0
    <3> HIDE DEF IInv, WorkInv
    <3> QED BY <2>2, <2>3
  <2> QED BY <2>3, <2>4, EmptySeq
<1>3. \A d \in Client : Pending(d)' = Pending(d)
  BY <1>1 DEF Pending
<1>4. Given' = Given /\ Given[c] = <<>>
  <2>1. Given[c] = Effects(<<>>)
    BY <1>2, <1>3, GivenMoves
  <2>2. Effects(<<>>) = <<>>
    BY DEF Effects
  <2> QED BY <1>3, <2>1, <2>2, GivenStays
<1>5. Left' = IF round = 1 THEN Left \cup {c} ELSE Left
  BY <1>1 DEF Left, WorkType
<1>6. CASE round = 1
  <2>1. Session!Leave(c)
    BY <1>1, <1>4, <1>5, <1>6 DEF Session!Leave, Given, Left
  <2> QED BY <2>1 DEF Session!Next, Ahead
<1>7. CASE round # 1
  BY <1>1, <1>4, <1>5, <1>7, SilentStep
<1> QED BY <1>6, <1>7

(* The rest of a worker's steps.                                           *)
LEMMA WorkerRefines ==
  ASSUME IInv, IInv', NEW c \in Client, Worker(c), ~ aborted, UNCHANGED config
  PROVE  [Session!Next]_Session!absVars
<1> USE DEF IInv, WorkInv
<1>1. CASE NextOp(c) \/ WriteBuffer(c) \/ SingleReply(c) \/ FlushReply(c)
  <2>1. /\ \A d \in Client : pc'[d] = "exited" <=> pc[d] = "exited"
        /\ UNCHANGED <<store, aborted, round>>
    BY <1>1 DEF NextOp, WriteBuffer, SingleReply, FlushReply, Goto, lifecycleVars, WorkType
  <2>2. \A d \in Client : Pending(d)' = Pending(d)
    <3>1. CASE WriteBuffer(c)
      BY <3>1, PendingIsWritten
    <3>2. CASE ~ WriteBuffer(c)
      <4>1. wire' = wire /\ out' = out
        BY <1>1, <3>2 DEF NextOp, SingleReply, FlushReply
      <4> QED BY <4>1 DEF Pending
    <3> QED BY <3>1, <3>2
  <2>3. Given' = Given /\ Left' = Left
    BY <2>1, <2>2, GivenStays DEF Left
  <2> QED BY <2>1, <2>3, SilentStep
<1>2. CASE DoInvalid(c)
  <2>1. aborted' = TRUE /\ UNCHANGED <<lifecycleVars, pc, out, wire, store>>
    BY <1>2 DEF DoInvalid
  <2> QED BY <2>1, FailureRefines
<1> QED BY <1>1, <1>2, DoGives, ExitRefines DEF Worker

(* A RedisClient keeps what the Client interface promises, with batches    *)
(* and without: commands take effect in the order of the operations, at    *)
(* most a batch late, and none is left when its worker exits.              *)
THEOREM SessionImplemented == Spec => ImplementsSession
<1>1. Init => Session!Init
  <2> SUFFICES ASSUME Init PROVE Session!Init
    OBVIOUS
  <2>1. IInv
    BY IInvStarts
  <2>2. Given = [c \in Client |-> <<>>] /\ Left = {}
    <3>1. \A c \in Client : wire[c] = <<>> /\ out[c] = <<>> /\ pc[c] = "loop"
      BY DEF Init
    <3>2. <<>> \in Seq(Commands) /\ <<>> \o <<>> = <<>>
      BY ConcatEmptySeq, EmptySeq
    <3>3. \A c \in Client : Given[c] = Effects(<<>>)
      BY <3>1, <3>2, EffectsOfConcat DEF Given
    <3>4. Effects(<<>>) = <<>>
      BY DEF Effects
    <3>5. Given = [c \in Client |-> Given[c]]
      BY DEF Given
    <3> QED BY <3>1, <3>3, <3>4, <3>5 DEF Left
  <2>3. store \in [Key -> {Missing, Missing}] /\ aborted = FALSE
    BY DEF Init
  <2>4. Ahead \in Nat \ {0} /\ config.refuses \in BOOLEAN
    BY <2>1, ConfigIsTyped, ConfigsAssumption DEF IInv, WorkInv, WorkType
  <2> QED BY <2>2, <2>3, <2>4 DEF Session!Init, Given, Left
<1>2. IInv /\ IInv' /\ [Next]_vars => [Session!Next]_Session!absVars
  <2> SUFFICES ASSUME IInv, IInv', [Next]_vars PROVE [Session!Next]_Session!absVars
    OBVIOUS
  <2>1. CASE Running(Main)
    BY <2>1, MainIsSilent DEF Running
  <2>2. CASE Running(MainFails)
    <3>1. /\ ~ aborted /\ aborted' = TRUE
          /\ UNCHANGED <<config, lifecycleVars, pc, out, wire, store>>
      BY <2>2 DEF Running, MainFails
    <3> QED BY <3>1, FailureRefines
  <2>3. ASSUME NEW c \in Client, Running(Worker(c) \/ Server(c) \/ ReplyFails(c))
        PROVE  [Session!Next]_Session!absVars
    <3>1. CASE ReplyFails(c)
      <4>1. /\ ~ aborted /\ aborted' = TRUE
            /\ UNCHANGED <<config, lifecycleVars, pc, out, wire, store>>
        BY <2>3, <3>1 DEF Running, ReplyFails
      <4> QED BY <4>1, FailureRefines
    <3> QED BY <2>3, <3>1, WorkerRefines, ServerRefines DEF Running
  <2>4. CASE UNCHANGED vars
    <3>1. Given' = Given /\ Left' = Left
      BY <2>4 DEF vars, lifecycleVars, Given, Left
    <3> QED BY <2>4, <3>1, SilentStep DEF vars
  <2> QED BY <2>1, <2>2, <2>3, <2>4 DEF Next, Running
<1> QED BY <1>1, <1>2, Accounted, PTL DEF Spec, ImplementsSession, Session!Spec

-----------------------------------------------------------------------------
(* LatestWorkload counts a key as inserted when it makes the INSERT.       *)

(* A GET that comes after the first n commands of s finds the key, if no   *)
(* other client's come between.                                            *)
Held(data, s, key, n) ==
  data[key] # Missing \/ \E j \in 1 .. n : s[j].write /\ s[j].key = key

ReadsHit(data, s) == \A i \in 1 .. Len(s) : ~ s[i].write => Held(data, s, s[i].key, i - 1)

(* The INSERT made by next_op is not a command yet.                        *)
AboutToInsert(c, key) == pc[c] = "do" /\ IsWrite(c) /\ op[c].key = key

HitInv(c) ==
  LET s == Pending(c) IN
  /\ ReadsHit(store, s)
  /\ \A index \in 0 .. cur_ack_key[c] - 1 :
       Held(store, s, Hash[index], Len(s)) \/ AboutToInsert(c, Hash[index])
  /\ pc[c] = "do" /\ ~ IsWrite(c) => Held(store, s, op[c].key, Len(s))
  /\ \A i \in 1 .. Len(replies[c]) : replies[c][i].str # Missing

IsLatest == config.request_distribution = "latest" /\ ~ config.refuses
LatestInv == IsLatest => \A c \in Client : HitInv(c)

(* Commands are of keys.                                                   *)
LEMMA CommandsHaveKeys ==
  ASSUME NEW s \in Seq(Commands)
  PROVE  Len(s) \in Nat /\ \A i \in 1 .. Len(s) : s[i] \in Commands /\ s[i].key \in Key
<1>1. \A i \in 1 .. Len(s) : s[i] \in Commands
  BY ElementOfSeq
<1> QED BY <1>1, LenProperties DEF Commands

(* Indices counted as inserted have a hash.                                *)
LEMMA HashesAreKeys ==
  ASSUME WorkType, NEW c \in Client
  PROVE  /\ cur_ack_key[c] \in 0 .. NrEntry /\ op[c].key \in Key
         /\ \A index \in 0 .. cur_ack_key[c] - 1 : Hash[index] \in Key
<1>1. op[c].key \in Key /\ cur_ack_key[c] \in 0 .. NrEntry
  BY DEF WorkType, Operation
<1>2. \A index \in 0 .. cur_ack_key[c] - 1 : index \in 0 .. NrEntry
  BY <1>1, NrEntryAssumption
<1>3. \A index \in 0 .. NrEntry : Hash[index] \in Key
  BY HashAssumption DEF Key
<1> QED BY <1>1, <1>2, <1>3

(* A key in the store makes no less be found.                              *)
LEMMA GrowthKeepsHeld ==
  ASSUME NEW data, NEW after, NEW s \in Seq(Commands),
         \A key \in Key : data[key] # Missing => after[key] # Missing
  PROVE  /\ \A key \in Key, n \in Int : Held(data, s, key, n) => Held(after, s, key, n)
         /\ ReadsHit(data, s) => ReadsHit(after, s)
<1>1. \A key \in Key, n \in Int : Held(data, s, key, n) => Held(after, s, key, n)
  BY DEF Held
<1> QED BY <1>1, CommandsHaveKeys DEF ReadsHit

(* A command more: a SET, or a GET of a key that is held.                  *)
LEMMA AppendKeepsHeld ==
  ASSUME NEW data, NEW s \in Seq(Commands), NEW command \in Commands
  PROVE  LET t == Append(s, command) IN
         /\ \A key : Held(data, s, key, Len(s)) \/ (command.write /\ command.key = key)
              => Held(data, t, key, Len(t))
         /\ ReadsHit(data, s) /\ (command.write \/ Held(data, s, command.key, Len(s)))
              => ReadsHit(data, t)
<1> DEFINE t == Append(s, command)  n == Len(s)
<1>1. /\ n \in Nat /\ Len(t) = n + 1
      /\ \A i \in 1 .. n : t[i] = s[i]
      /\ t[n + 1] = command
  BY AppendProperties, LenProperties
<1> HIDE DEF t, n
<1>2. ASSUME NEW key, NEW m \in 0 .. n, Held(data, s, key, m)
      PROVE  Held(data, t, key, m)
  BY <1>1, <1>2 DEF Held
<1>3. ASSUME NEW key, Held(data, s, key, n) \/ (command.write /\ command.key = key)
      PROVE  Held(data, t, key, n + 1)
  <2>1. CASE Held(data, s, key, n)
    <3>1. n \in 0 .. n
      BY <1>1
    <3>2. Held(data, t, key, n)
      BY <1>2, <2>1, <3>1
    <3> QED BY <1>1, <3>2 DEF Held
  <2>2. CASE command.write /\ command.key = key
    BY <1>1, <2>2 DEF Held
  <2> QED BY <1>3, <2>1, <2>2
<1>4. ASSUME ReadsHit(data, s), command.write \/ Held(data, s, command.key, n),
             NEW i \in 1 .. n + 1, ~ t[i].write
      PROVE  Held(data, t, t[i].key, i - 1)
  <2>1. CASE i = n + 1
    <3>1. Held(data, s, command.key, n) /\ t[i].key = command.key /\ i - 1 = n /\ n \in 0 .. n
      BY <1>1, <1>4, <2>1
    <3> QED BY <1>2, <3>1
  <2>2. CASE i # n + 1
    <3>1. i \in 1 .. n /\ i - 1 \in 0 .. n
      BY <1>1, <2>2
    <3>2. Held(data, s, s[i].key, i - 1)
      BY <1>1, <1>4, <3>1 DEF ReadsHit, n
    <3> QED BY <1>1, <1>2, <3>1, <3>2
  <2> QED BY <2>1, <2>2
<1>5. \A key : Held(data, s, key, n) \/ (command.write /\ command.key = key)
        => Held(data, t, key, Len(t))
  BY <1>1, <1>3
<1>6. ReadsHit(data, s) /\ (command.write \/ Held(data, s, command.key, n)) => ReadsHit(data, t)
  BY <1>1, <1>4 DEF ReadsHit
<1> QED BY <1>5, <1>6 DEF t, n

(* The first command executed: a SET's key is there from now on, and a     *)
(* GET's was.                                                              *)
LEMMA TailKeepsHeld ==
  ASSUME NEW data, NEW after, NEW s \in Seq(Commands), s # <<>>,
         \A key \in Key : data[key] # Missing => after[key] # Missing,
         Head(s).write => after[Head(s).key] # Missing,
         ReadsHit(data, s)
  PROVE  /\ \A key \in Key : Held(data, s, key, Len(s)) => Held(after, Tail(s), key, Len(Tail(s)))
         /\ ReadsHit(after, Tail(s))
         /\ ~ Head(s).write => data[Head(s).key] # Missing
<1> DEFINE t == Tail(s)  n == Len(s)
<1>1. n \in Nat \ {0} /\ \A i \in 1 .. n : s[i].key \in Key
  BY EmptySeq, CommandsHaveKeys
<1>2. /\ Len(t) = n - 1
      /\ \A i \in 1 .. n - 1 : t[i] = s[i + 1]
  BY HeadTailProperties
<1>3. Head(s) = s[1]
  OBVIOUS
<1> HIDE DEF t, n
<1>4. ASSUME NEW key \in Key, NEW m \in 0 .. n - 1, Held(data, s, key, m + 1)
      PROVE  Held(after, t, key, m)
  <2>1. CASE data[key] # Missing
    BY <2>1 DEF Held
  <2>2. CASE data[key] = Missing
    <3>1. PICK j \in 1 .. m + 1 : s[j].write /\ s[j].key = key
      BY <1>4, <2>2 DEF Held
    <3>2. CASE j = 1
      BY <1>3, <3>1, <3>2 DEF Held
    <3>3. CASE j # 1
      <4>1. j - 1 \in 1 .. m /\ t[j - 1] = s[j]
        BY <1>1, <1>2, <3>1, <3>3
      <4> QED BY <3>1, <4>1 DEF Held
    <3> QED BY <3>2, <3>3
  <2> QED BY <2>1, <2>2
<1>5. ASSUME NEW i \in 1 .. n - 1, ~ t[i].write
      PROVE  Held(after, t, t[i].key, i - 1)
  <2>1. i + 1 \in 1 .. n /\ i - 1 \in 0 .. n - 1 /\ (i - 1) + 1 = (i + 1) - 1 /\ t[i] = s[i + 1]
    BY <1>1, <1>2
  <2>2. Held(data, s, s[i + 1].key, (i + 1) - 1) /\ s[i + 1].key \in Key
    BY <1>1, <1>5, <2>1 DEF ReadsHit, n
  <2> QED BY <1>4, <2>1, <2>2
<1>6. ReadsHit(after, t)
  BY <1>2, <1>5 DEF ReadsHit
<1>7. n - 1 \in 0 .. n - 1 /\ (n - 1) + 1 = n
  BY <1>1
<1>8. \A key \in Key : Held(data, s, key, n) => Held(after, t, key, Len(t))
  BY <1>2, <1>4, <1>7
<1>9. ~ Head(s).write => data[Head(s).key] # Missing
  <2>1. ~ s[1].write => Held(data, s, s[1].key, 1 - 1)
    BY <1>1 DEF ReadsHit, n
  <2> QED BY <1>3, <2>1 DEF Held
<1> QED BY <1>6, <1>8, <1>9 DEF t, n

(* A client that does not move, while keys are added to the store.         *)
LEMMA StillHits ==
  ASSUME WorkInv, NEW c \in Client, HitInv(c),
         \A key \in Key : store[key] # Missing => store'[key] # Missing,
         Pending(c)' = Pending(c), UNCHANGED <<pc[c], op[c], cur_ack_key[c], replies[c]>>
  PROVE  HitInv(c)'
<1>1. Pending(c) \in Seq(Commands) /\ Len(Pending(c)) \in Int
  <2>1. Pending(c) \in Seq(Commands) /\ Len(Pending(c)) \in Nat
    BY PendingIsTyped
  <2> QED BY <2>1
<1>2. /\ \A key \in Key, n \in Int : Held(store, Pending(c), key, n) => Held(store', Pending(c), key, n)
      /\ ReadsHit(store, Pending(c)) => ReadsHit(store', Pending(c))
  <2> DEFINE data == store  after == store'  s == Pending(c)
  <2>1. s \in Seq(Commands) /\ \A key \in Key : data[key] # Missing => after[key] # Missing
    BY <1>1
  <2> HIDE DEF data, after, s
  <2>2. /\ \A key \in Key, n \in Int : Held(data, s, key, n) => Held(after, s, key, n)
        /\ ReadsHit(data, s) => ReadsHit(after, s)
    BY <2>1, GrowthKeepsHeld
  <2> QED BY <2>2 DEF data, after, s
<1>3. /\ op[c].key \in Key
      /\ \A index \in 0 .. cur_ack_key[c] - 1 : Hash[index] \in Key
  BY HashesAreKeys DEF WorkInv
<1> QED BY <1>1, <1>2, <1>3 DEF HitInv, AboutToInsert, IsWrite

(* next_op: an INSERT is of the next index; a READ or an UPDATE is of one  *)
(* counted as inserted before.                                             *)
LEMMA LatestOffers ==
  ASSUME WorkType, IsLatest, NEW c \in Client, NEW offer \in Offers(c)
  PROVE  \/ /\ offer.type = "INSERT" /\ offer.key = Hash[cur_ack_key[c]]
            /\ offer.ack = cur_ack_key[c] + 1
         \/ /\ offer.type \in {"READ", "UPDATE"} /\ offer.ack = cur_ack_key[c]
            /\ \E index \in 0 .. cur_ack_key[c] - 1 : offer.key = Hash[index]
<1> DEFINE ack == cur_ack_key[c]
<1>1. ack \in 0 .. NrEntry /\ NrEntry \in Nat \ {0}
  BY NrEntryAssumption DEF WorkType
<1>2. PICK wantsRead \in BOOLEAN :
        LET type == LatestType(wantsRead, ack, NrEntry)
        IN  offer \in {[type |-> type, key |-> Hash[index], ack |-> AckAfter(type, ack)] :
                         index \in LatestIndices(type, ack, NrEntry)}
  BY DEF Offers, IsLatest
<1> DEFINE type == LatestType(wantsRead, ack, NrEntry)
<1>3. PICK index \in LatestIndices(type, ack, NrEntry) :
        offer = [type |-> type, key |-> Hash[index], ack |-> AckAfter(type, ack)]
  BY <1>2
<1>4. type \in {"READ", "UPDATE", "INSERT"} /\ (type # "INSERT" => ack > 0)
  BY <1>1 DEF LatestType
<1>5. CASE type = "INSERT"
  BY <1>3, <1>5 DEF LatestIndices, AckAfter
<1>6. CASE type # "INSERT"
  <2>1. PICK zipf \in 0 .. NrEntry : index = LatestIndex(ack, zipf)
    BY <1>3, <1>6 DEF LatestIndices, ZipfianIndices
  <2>2. zipf % ack \in 0 .. ack - 1
    BY <1>1, <1>4, <1>6
  <2>3. index \in 0 .. ack - 1
    BY <1>1, <1>4, <1>6, <2>1, <2>2 DEF LatestIndex
  <2> QED BY <1>3, <1>4, <1>6, <2>3 DEF AckAfter
<1> QED BY <1>5, <1>6

(* A new operation: its INSERT is about to be a command, and what it reads *)
(* was counted before.                                                     *)
LEMMA NextOpHits ==
  ASSUME WorkInv, IsLatest, NEW c \in Client, HitInv(c), NextOp(c)
  PROVE  HitInv(c)'
<1>1. PICK offer \in Offers(c) :
        /\ op' = [op EXCEPT ![c] = [type |-> offer.type, key |-> offer.key,
                                    nr |-> cur_nr_op'[c],
                                    is_last_op |-> ~ (cur_nr_op'[c] < NrOp)]]
        /\ cur_ack_key' = [cur_ack_key EXCEPT ![c] = offer.ack]
  BY DEF NextOp
<1>2. /\ pc[c] = "loop" /\ pc'[c] = "do" /\ UNCHANGED <<out, wire, replies, store>>
      /\ op'[c].type = offer.type /\ op'[c].key = offer.key /\ cur_ack_key'[c] = offer.ack
  BY <1>1 DEF NextOp, Goto, WorkInv, WorkType
<1> DEFINE H(key) == Held(store, Pending(c), key, Len(Pending(c)))
<1>3. Pending(c)' = Pending(c)
  BY <1>2 DEF Pending
<1>4. \A index \in 0 .. cur_ack_key[c] - 1 : H(Hash[index])
  BY <1>2 DEF HitInv, AboutToInsert
<1>5. IsWrite(c)' <=> offer.type \in {"INSERT", "UPDATE"}
  BY <1>2 DEF IsWrite
<1>6. cur_ack_key[c] \in Int
  BY HashesAreKeys DEF WorkInv
<1> HIDE DEF H
<1>7. /\ \A index \in 0 .. offer.ack - 1 : H(Hash[index]) \/ AboutToInsert(c, Hash[index])'
      /\ ~ IsWrite(c)' => H(offer.key)
  <2>1. CASE /\ offer.type = "INSERT" /\ offer.key = Hash[cur_ack_key[c]]
             /\ offer.ack = cur_ack_key[c] + 1
    <3>1. \A index \in 0 .. offer.ack - 1 :
            index \in 0 .. cur_ack_key[c] - 1 \/ index = cur_ack_key[c]
      BY <1>6, <2>1
    <3>2. \A key : key = offer.key => AboutToInsert(c, key)'
      BY <1>2, <1>5, <2>1 DEF AboutToInsert
    <3> QED BY <1>4, <1>5, <2>1, <3>1, <3>2
  <2>2. CASE /\ offer.type \in {"READ", "UPDATE"} /\ offer.ack = cur_ack_key[c]
             /\ \E index \in 0 .. cur_ack_key[c] - 1 : offer.key = Hash[index]
    BY <1>4, <2>2
  <2> QED BY <2>1, <2>2, LatestOffers DEF WorkInv
<1> QED BY <1>2, <1>3, <1>7 DEF HitInv, H

(* The operation becomes the last command.                                 *)
LEMMA DoHits ==
  ASSUME WorkInv, NEW c \in Client, HitInv(c), DoSingle(c) \/ DoBatched(c)
  PROVE  HitInv(c)'
<1> DEFINE s == Pending(c)  t == Append(s, Command(c))
<1>1. /\ pc[c] = "do" /\ pc'[c] # "do" /\ UNCHANGED <<op, cur_ack_key, replies, store>>
  BY DEF DoSingle, DoBatched, Goto, WorkInv, WorkType, workVars
<1>2. Pending(c)' = t /\ Command(c) \in Commands /\ s \in Seq(Commands)
  BY PendingGrows, PendingIsTyped
<1>3. /\ \A key : Held(store, s, key, Len(s)) \/ (Command(c).write /\ Command(c).key = key)
           => Held(store, t, key, Len(t))
      /\ ReadsHit(store, s) /\ (Command(c).write \/ Held(store, s, Command(c).key, Len(s)))
           => ReadsHit(store, t)
  BY <1>2, AppendKeepsHeld
<1>4. (Command(c).write <=> IsWrite(c)) /\ Command(c).key = op[c].key
  BY DEF Command
<1>5. ReadsHit(store, t)
  BY <1>1, <1>3, <1>4 DEF HitInv
<1>6. \A index \in 0 .. cur_ack_key[c] - 1 : Held(store, t, Hash[index], Len(t))
  BY <1>3, <1>4 DEF HitInv, AboutToInsert
<1> QED BY <1>1, <1>2, <1>5, <1>6 DEF HitInv

(* The server executes the first command.                                  *)
LEMMA ExecuteHits ==
  ASSUME WorkInv, NEW c \in Client, HitInv(c), Execute(c)
  PROVE  HitInv(c)' /\ \A key \in Key : store[key] # Missing => store'[key] # Missing
<1> DEFINE s == Pending(c)
           command == Head(wire[c])
           str == IF command.write THEN OK ELSE store[command.key]
           reply == [nr |-> command.nr, str |-> str]
<1>1. /\ wire[c] # <<>> /\ Answer(c, str)
      /\ store' = IF command.write THEN [store EXCEPT ![command.key] = c] ELSE store
  BY DEF Execute
<1>2. /\ s \in Seq(Commands) /\ s # <<>> /\ Head(s) = command /\ command \in Commands
      /\ Pending(c)' = Tail(s)
  BY <1>1, PendingIsAnswered, PendingIsTyped
<1>3. /\ UNCHANGED <<pc, op, cur_ack_key>>
      /\ replies'[c] = Append(replies[c], reply)
  BY <1>1 DEF Answer, workVars, WorkInv, ConnectionType
<1>4. /\ \A key \in Key : store[key] # Missing => store'[key] # Missing
      /\ command.write => store'[command.key] # Missing
  <2>1. store \in [Key -> Client \cup {Missing}] /\ command.key \in Key
    BY <1>2 DEF WorkInv, WorkType, Commands
  <2> HIDE DEF command
  <2> QED BY <1>1, <2>1, MissingAssumption
<1>5. /\ \A key \in Key : Held(store, s, key, Len(s)) => Held(store', Tail(s), key, Len(Tail(s)))
      /\ ReadsHit(store', Tail(s))
      /\ ~ command.write => store[command.key] # Missing
  <2>1. ReadsHit(store, s)
    BY DEF HitInv
  <2> QED BY <1>2, <1>4, <2>1, TailKeepsHeld
<1>6. str # Missing
  BY <1>5, MissingAssumption
<1>7. \A i \in 1 .. Len(replies'[c]) : replies'[c][i].str # Missing
  <2> DEFINE R == replies[c]
  <2>1. R \in Seq(Reply)
    BY DEF WorkInv, ConnectionType
  <2>2. reply.str # Missing /\ \A i \in 1 .. Len(R) : R[i].str # Missing
    BY <1>6 DEF HitInv
  <2>3. replies'[c] = Append(R, reply) /\ Len(R) \in Nat
    BY <1>3, <2>1, LenProperties
  <2> HIDE DEF reply, R
  <2> QED BY <2>1, <2>2, <2>3
<1>8. /\ op[c].key \in Key
      /\ \A index \in 0 .. cur_ack_key[c] - 1 : Hash[index] \in Key
  BY HashesAreKeys DEF WorkInv
<1>9. HitInv(c)'
  BY <1>2, <1>3, <1>5, <1>7, <1>8 DEF HitInv, AboutToInsert, IsWrite
<1> QED BY <1>4, <1>9

(* A reply read is a reply less.                                           *)
LEMMA TakeHits ==
  ASSUME WorkInv, NEW c \in Client, HitInv(c), SingleReply(c) \/ FlushReply(c)
  PROVE  HitInv(c)'
<1>1. /\ replies[c] # <<>> /\ replies[c] \in Seq(Reply) /\ replies'[c] = Tail(replies[c])
      /\ UNCHANGED <<op, cur_ack_key, out, wire, store>>
      /\ pc[c] # "do" /\ pc'[c] # "do"
  BY DEF SingleReply, FlushReply, TakeReply, Goto, workVars, WorkInv, WorkType, ConnectionType
<1>2. /\ Len(replies[c]) \in Nat /\ Len(replies'[c]) = Len(replies[c]) - 1
      /\ \A i \in 1 .. Len(replies'[c]) : replies'[c][i] = replies[c][i + 1]
  BY <1>1, HeadTailProperties, LenProperties
<1>3. \A i \in 1 .. Len(replies'[c]) : replies'[c][i].str # Missing
  BY <1>2 DEF HitInv
<1>4. Pending(c)' = Pending(c)
  BY <1>1 DEF Pending
<1> QED BY <1>1, <1>3, <1>4 DEF HitInv, AboutToInsert

(* Every step keeps what is counted as inserted within reach.              *)
LEMMA LatestInvKept ==
  ASSUME IInv, IInv', LatestInv, [Next]_vars
  PROVE  LatestInv'
<1> SUFFICES ASSUME IsLatest', NEW e \in Client PROVE HitInv(e)'
  BY DEF LatestInv
<1>1. UNCHANGED config /\ IsLatest /\ \A c \in Client : HitInv(c)
  BY DEF Next, Running, vars, IsLatest, LatestInv
<1> DEFINE Still(c) == /\ Pending(c)' = Pending(c)
                       /\ UNCHANGED <<pc[c], op[c], cur_ack_key[c], replies[c]>>
           Grows == \A key \in Key : store[key] # Missing => store'[key] # Missing
<1>2. ASSUME NEW c \in Client, Still(c), Grows PROVE HitInv(c)'
  BY <1>1, <1>2, StillHits DEF IInv
<1>3. CASE Running(Main)
  <2>1. CASE NextRun
    <3>1. /\ Pending(e)' = <<>> \o <<>> /\ pc'[e] = "loop" /\ cur_ack_key'[e] = 0
          /\ replies'[e] = <<>>
      BY <2>1 DEF NextRun, Pending
    <3>2. Len(<<>>) = 0 /\ <<>> \o <<>> = <<>> /\ 1 .. 0 = {} /\ 0 .. 0 - 1 = {}
      BY ConcatEmptySeq, EmptySeq
    <3> QED BY <3>1, <3>2 DEF HitInv, ReadsHit
  <2>2. CASE UNCHANGED <<pc, workVars, cur_batch, out, wire, replies, store, aborted>>
    <3>1. Still(e) /\ Grows
      BY <2>2 DEF workVars, Pending
    <3> QED BY <1>2, <3>1
  <2> QED BY <1>3, <2>1, <2>2 DEF Running, Main
<1>4. ASSUME NEW c \in Client, Worker(c) PROVE HitInv(e)'
  <2>1. store' = store
    BY <1>4 DEF Worker, NextOp, Exit, DoSingle, DoBatched, DoInvalid, WriteBuffer, SingleReply,
                FlushReply
  <2>2. CASE e = c
    <3>1. CASE Exit(c)
      <4>1. /\ pc[c] # "do" /\ pc'[c] # "do" /\ Pending(c)' = Pending(c)
            /\ UNCHANGED <<cur_ack_key, replies, store>>
        BY <3>1 DEF Exit, Goto, Pending, IInv, WorkInv, WorkType
      <4> QED BY <1>1, <2>2, <4>1 DEF HitInv, AboutToInsert
    <3>2. CASE WriteBuffer(c) \/ DoInvalid(c)
      <4>1. UNCHANGED <<pc, op, cur_ack_key, replies>>
        BY <3>2 DEF WriteBuffer, DoInvalid, workVars
      <4>2. Pending(c)' = Pending(c)
        BY <3>2, PendingIsWritten DEF DoInvalid, Pending, IInv
      <4> QED BY <1>2, <2>1, <2>2, <4>1, <4>2
    <3> QED BY <1>1, <1>4, <2>2, <3>1, <3>2, NextOpHits, DoHits, TakeHits DEF Worker, IInv
  <2>3. CASE e # c
    <3>1. UNCHANGED <<pc[e], op[e], cur_ack_key[e], replies[e], wire[e], out[e]>>
      BY <1>4, <2>3 DEF Worker, NextOp, Exit, DoSingle, DoBatched, DoInvalid, WriteBuffer,
           SingleReply, FlushReply, TakeReply, Goto, workVars, IInv, WorkInv, WorkType, ConnectionType
    <3>2. Still(e) /\ Grows
      BY <2>1, <3>1 DEF Pending
    <3> QED BY <1>2, <3>2
  <2> QED BY <2>2, <2>3
<1>5. ASSUME NEW c \in Client, Server(c) PROVE HitInv(e)'
  <2>1. Execute(c)
    BY <1>1, <1>5 DEF Server, Refuse, IsLatest
  <2>2. HitInv(c)' /\ Grows
    BY <1>1, <2>1, ExecuteHits DEF IInv
  <2>3. CASE e # c
    <3>1. UNCHANGED <<pc[e], op[e], cur_ack_key[e], replies[e], wire[e], out[e]>>
      BY <2>1, <2>3 DEF Execute, Answer, workVars, IInv, WorkInv, ConnectionType
    <3>2. Still(e)
      BY <3>1 DEF Pending
    <3> QED BY <1>2, <2>2, <3>2
  <2> QED BY <2>2, <2>3
<1>6. CASE UNCHANGED <<pc, workVars, out, wire, replies, store>>
  <2>1. Still(e) /\ Grows
    BY <1>6 DEF workVars, Pending
  <2> QED BY <1>2, <2>1
<1> QED BY <1>3, <1>4, <1>5, <1>6 DEF Next, Running, MainFails, ReplyFails, vars

(* No GET of a latest workload misses, with batches of any size and        *)
(* several clients that insert the same keys, unless an INSERT is refused  *)
(* (LatestWorkload::next_op and RedisClient::do_operation).                *)
THEOREM LatestReadsAlwaysHit == Spec => []LatestReadsHit
<1>1. Init => LatestInv
  <2> SUFFICES ASSUME Init, NEW c \in Client PROVE HitInv(c)
    BY DEF LatestInv
  <2>1. /\ Pending(c) = <<>> \o <<>> /\ pc[c] = "loop" /\ cur_ack_key[c] = 0
        /\ replies[c] = <<>>
    BY DEF Init, Pending
  <2>2. Len(<<>>) = 0 /\ <<>> \o <<>> = <<>> /\ 1 .. 0 = {} /\ 0 .. 0 - 1 = {}
    BY ConcatEmptySeq, EmptySeq
  <2> QED BY <2>1, <2>2 DEF HitInv, ReadsHit
<1>2. IInv /\ IInv' /\ LatestInv /\ [Next]_vars => LatestInv'
  BY LatestInvKept
<1>3. IInv /\ LatestInv => LatestReadsHit
  <2> SUFFICES ASSUME IInv, LatestInv, IsLatest, NEW c \in Client, NEW i \in DOMAIN replies[c]
               PROVE  replies[c][i].str # Missing
    BY DEF LatestReadsHit, IsLatest
  <2>1. i \in 1 .. Len(replies[c])
    BY LenProperties DEF IInv, WorkInv, ConnectionType
  <2> QED BY <2>1 DEF LatestInv, HitInv
<1> QED BY <1>1, <1>2, <1>3, Accounted, PTL DEF Spec
=============================================================================
