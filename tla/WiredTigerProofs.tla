---------------------------- MODULE WiredTigerProofs ----------------------------
(***************************************************************************)
(* Sessions and SCANs of WiredTigerRun, for every number of clients, keys, *)
(* operations and every scan_length.                                       *)
(***************************************************************************)
EXTENDS WiredTigerRun, ClientProofs, WellFoundedInduction, SequenceTheorems

Operation == [type : OpTypes \cup {"none"}, key : Key]

WorkType ==
  /\ pc \in [Client -> {"loop", "op", "search", "next", "modify", "insert", "exited"}]
  /\ op \in [Client -> Operation]
  /\ visited \in [Client -> Seq(Key)]
  /\ there \in [Client -> SUBSET Key]
  /\ scan_length \in Int

(* Nothing removes a key, so those a cursor found at first are still there.*)
ThereInv == \A c \in Client : there[c] \subseteq Present

(* What a cursor has read, from the first search of the operation on: a    *)
(* run of ascending keys without a gap.                                    *)
Gapless(c) ==
  LET n == Len(visited[c]) IN
  visited[c] # <<>> =>
    /\ visited[c][1] = op[c].key
    /\ \A i \in 1 .. n - 1 : visited[c][i] < visited[c][i + 1]
    /\ \A k \in there[c] : op[c].key <= k /\ k <= visited[c][n] =>
         \E i \in 1 .. n : k = visited[c][i]

(* What a worker has read at each of its points.                           *)
ScanInv ==
  \A c \in Client :
    /\ pc[c] # "op" => Gapless(c)
    /\ pc[c] \in {"modify", "insert"} => op[c].type # "SCAN"
    /\ pc[c] = "next" => op[c].type = "SCAN" /\ visited[c] # <<>> /\ Len(visited[c]) < scan_length
    /\ pc[c] = "loop" /\ op[c].type = "SCAN" /\ visited[c] # <<>> =>
         Len(visited[c]) = IF scan_length > 1 THEN scan_length ELSE 1

(* A worker that is done has left no operation behind, and all are when    *)
(* main goes on.                                                           *)
PhaseInv ==
  /\ main \notin {"create", "run"} => \A c \in Client : pc[c] = "exited"
  /\ \A c \in Client : pc[c] = "exited" => visited[c] = <<>>

(* The connection is closed by the last step of main.                      *)
ConnInv == ~ conn => main = "disconnected"

IInv == MainInv /\ ConnInv /\ WorkType /\ PhaseInv /\ ThereInv /\ ScanInv

-----------------------------------------------------------------------------
(* next() goes to the next key: a set of naturals has a least element.     *)
LEMMA MinIsLeast ==
  ASSUME NEW S \in SUBSET Nat, S # {}
  PROVE  Min(S) \in S /\ \A x \in S : Min(S) <= x
<1>1. \E x \in S : \A y \in S : ~ (<<y, x>> \in OpToRel(<, Nat))
  BY WFMin, NatLessThanWellFounded
<1>2. PICK x \in S : \A y \in S : ~ (<<y, x>> \in OpToRel(<, Nat))
  BY <1>1
<1>3. ASSUME NEW y \in S, y < x PROVE FALSE
  <2>1. <<y, x>> \in Nat \X Nat /\ <<y, x>>[1] < <<y, x>>[2]
    BY <1>3
  <2>2. <<y, x>> \in OpToRel(<, Nat)
    BY <2>1, Zenon DEF OpToRel
  <2> QED BY <1>2, <2>2, Zenon
<1>4. \A y \in S : x <= y
  BY <1>3
<1> QED BY <1>4 DEF Min

(* A worker that has no operation does not scan.                           *)
LEMMA NoOpIsOperation == NoOp \in Operation /\ NoOp.type = "none" /\ Key \subseteq Nat
BY NrEntryAssumption DEF NoOp, Operation, Key

(* No client has been created and nothing has been read.                   *)
LEMMA IInvStarts == Init => IInv
<1> SUFFICES ASSUME Init PROVE IInv
  OBVIOUS
<1>1. MainInv
  BY LifecycleStarts DEF Init
<1>2. WorkType
  BY NoOpIsOperation, ScanLengthsAssumption DEF Init, WorkType
<1>3. ConnInv /\ PhaseInv /\ ThereInv /\ ScanInv
  BY NoOpIsOperation DEF Init, LifecycleInit, ConnInv, PhaseInv, ThereInv, ScanInv, Gapless
<1> QED BY <1>1, <1>2, <1>3 DEF IInv

-----------------------------------------------------------------------------
(* The steps of main, and of nobody.                                       *)
LEMMA MainKeepsIInv ==
  ASSUME IInv, Main, UNCHANGED scan_length
  PROVE  IInv'
<1> USE DEF IInv
<1>1. CASE Disconnect
  <2>1. MainInv'
    BY <1>1 DEF Disconnect, MainInv, LifecycleType, HandlesInv, CountsInv, RoundInv
  <2>2. ConnInv' /\ WorkType' /\ PhaseInv' /\ ThereInv' /\ ScanInv'
    BY <1>1 DEF Disconnect, workVars, ConnInv, WorkType, PhaseInv, ThereInv, Present, ScanInv, Gapless
  <2> QED BY <2>1, <2>2
<1>2. CASE NextRun
  <2>1. MainInv' /\ ConnInv'
    BY <1>2, OthersKeepMainInv DEF NextRun, NextRound, ConnInv
  <2>2. WorkType' /\ PhaseInv' /\ ThereInv'
    BY <1>2 DEF NextRun, NextRound, WorkType, PhaseInv, ThereInv, Present
  <2>3. ScanInv'
    BY <1>2 DEF NextRun, NextRound, WorkType, PhaseInv, ScanInv, Gapless
  <2> QED BY <2>1, <2>2, <2>3
<1>3. ASSUME UNCHANGED <<conn, workVars, table, failure>>,
             \/ CreateClient \/ CloseClient \/ DeleteClient
             \/ (\A c \in Client : pc[c] = "exited") /\ JoinWorkers
             \/ JoinMonitor
      PROVE  IInv'
  <2>1. MainInv'
    BY <1>3, CreateKeepsMainInv, CloseKeepsMainInv, DeleteKeepsMainInv, OthersKeepMainInv
  <2>2. ConnInv'
    BY <1>3 DEF ConnInv, CreateClient, JoinWorkers, JoinMonitor, CloseClient, DeleteClient, LoopStep
  <2>3. PhaseInv'
    BY <1>3 DEF workVars, PhaseInv, CreateClient, JoinWorkers, JoinMonitor, CloseClient,
                 DeleteClient, LoopStep
  <2>4. WorkType' /\ ThereInv' /\ ScanInv'
    BY <1>3 DEF workVars, WorkType, ThereInv, Present, ScanInv, Gapless
  <2> QED BY <2>1, <2>2, <2>3, <2>4
<1> QED BY <1>1, <1>2, <1>3 DEF Main

(* Nothing moves, but for the failure of the process.                      *)
LEMMA FailureKeepsIInv ==
  ASSUME IInv, UNCHANGED <<lifecycleVars, conn, workVars, table>>, UNCHANGED scan_length
  PROVE  IInv'
<1>1. MainInv'
  <2>1. UNCHANGED lifecycleVars
    OBVIOUS
  <2> QED BY <2>1, OthersKeepMainInv DEF IInv
<1>2. ConnInv' /\ WorkType' /\ PhaseInv' /\ ThereInv' /\ ScanInv'
  BY DEF IInv, lifecycleVars, workVars, ConnInv, WorkType, PhaseInv, ThereInv, Present, ScanInv, Gapless
<1> QED BY <1>1, <1>2 DEF IInv

-----------------------------------------------------------------------------
(* The steps of a worker.  They leave main alone.                          *)
LEMMA WorkersLeaveMain ==
  ASSUME IInv, NEW c \in Client, NEW from, NEW to, Goto(c, from, to)
  PROVE  MainInv' /\ ConnInv'
<1>1. UNCHANGED lifecycleVars /\ UNCHANGED conn /\ main' = main
  BY DEF Goto, lifecycleVars
<1> QED BY <1>1, OthersKeepMainInv DEF IInv, ConnInv

(* A new operation, the first call of one, and the end of a worker.        *)
LEMMA CallsKeepIInv ==
  ASSUME IInv, NEW c \in Client, UNCHANGED scan_length,
         NextOp(c) \/ SetUp(c) \/ SetValue(c) \/ Exit(c)
  PROVE  IInv'
<1> USE NoOpIsOperation DEF IInv, Goto, lifecycleVars
<1>1. MainInv' /\ ConnInv'
  BY WorkersLeaveMain DEF NextOp, SetUp, SetValue, Exit
<1>2. CASE NextOp(c)
  BY <1>1, <1>2, TypesAssumption
     DEF NextOp, WorkType, Operation, PhaseInv, ThereInv, Present, ScanInv, Gapless
<1>3. CASE SetUp(c)
  <2>1. WorkType'
    BY <1>3 DEF SetUp, WorkType
  <2>2. PhaseInv' /\ ThereInv'
    BY <1>3, <2>1 DEF SetUp, WorkType, PhaseInv, ThereInv, Present
  <2>3. ScanInv'
    BY <1>3 DEF SetUp, WorkType, ScanInv, Gapless
  <2> QED BY <1>1, <2>1, <2>2, <2>3
<1>4. CASE SetValue(c)
  BY <1>1, <1>4 DEF SetValue, WorkType, PhaseInv, ThereInv, Present, ScanInv, Gapless
<1>5. CASE Exit(c)
  BY <1>1, <1>5 DEF Exit, WorkType, PhaseInv, ThereInv, Present, ScanInv, Gapless
<1> QED BY <1>2, <1>3, <1>4, <1>5

(* What a cursor has read does not change with the table.                  *)
LEMMA InsertKeepsIInv ==
  ASSUME IInv, NEW c \in Client, UNCHANGED scan_length, Insert(c)
  PROVE  IInv'
<1> USE DEF IInv, Goto, Insert
<1>1. MainInv' /\ ConnInv'
  BY WorkersLeaveMain
<1>2. WorkType' /\ PhaseInv'
  BY DEF WorkType, PhaseInv, lifecycleVars
<1>3. Present \subseteq Present'
  <2> SUFFICES ASSUME NEW k \in Key, table[k] # Missing PROVE table'[k] # Missing
    BY DEF Present
  <2>1. CASE k \in DOMAIN table
    BY <2>1, MissingAssumption
  <2>2. CASE k \notin DOMAIN table
    BY <2>2
  <2> QED BY <2>1, <2>2
<1>4. ThereInv'
  BY <1>3 DEF ThereInv
<1>5. ScanInv'
  BY DEF WorkType, ScanInv, Gapless
<1> QED BY <1>1, <1>2, <1>4, <1>5

(* The first read of an operation: there is everything present.            *)
LEMMA SearchKeepsIInv ==
  ASSUME IInv, NEW c \in Client, UNCHANGED scan_length, Search(c)
  PROVE  IInv'
<1> USE NoOpIsOperation DEF IInv, Goto, Search
<1>1. MainInv' /\ ConnInv'
  BY WorkersLeaveMain
<1>2. op[c].key \in Key /\ Present \subseteq Key /\ Present' = Present
  BY DEF WorkType, Operation, Present
<1>3. WorkType'
  BY <1>2 DEF WorkType, AfterRead
<1>4. PhaseInv' /\ ThereInv'
  BY <1>2 DEF WorkType, PhaseInv, ThereInv, lifecycleVars, AfterRead
<1>5. Gapless(c)'
  <2>1. visited'[c] = <<op[c].key>> /\ there'[c] = Present /\ op' = op
    BY DEF WorkType
  <2>2. Len(visited'[c]) = 1 /\ visited'[c][1] = op[c].key /\ visited'[c] # <<>>
    BY <2>1
  <2>3. ASSUME NEW k \in Present, op[c].key <= k, k <= op[c].key PROVE k = op[c].key
    <3>1. k \in Nat /\ op[c].key \in Nat
      BY <1>2
    <3> QED BY <2>3, <3>1
  <2>4. 1 .. 1 - 1 = {} /\ 1 \in 1 .. 1
    OBVIOUS
  <2> HIDE DEF IInv, Goto, Search
  <2> QED BY <2>1, <2>2, <2>3, <2>4 DEF Gapless
<1>6. ScanInv'
  <2>1. \A d \in Client \ {c} : UNCHANGED <<pc[d], op[d], visited[d], there[d]>>
    BY DEF WorkType
  <2>2. Len(visited'[c]) = 1 /\ visited'[c] # <<>> /\ pc'[c] = AfterRead(c, 1) /\ op' = op
    BY DEF WorkType
  <2> QED BY <1>5, <2>1, <2>2 DEF WorkType, ScanInv, Gapless, AfterRead, MoreToScan
<1> QED BY <1>1, <1>3, <1>4, <1>6

(* A further read: the next key present, so that no key there at the first *)
(* read lies between it and the last.                                      *)
LEMMA NextKeepsGapless ==
  ASSUME IInv, NEW c \in Client, ScanNext(c)
  PROVE  Gapless(c)' /\ Len(visited'[c]) = Len(visited[c]) + 1 /\ visited'[c] \in Seq(Key)
<1> DEFINE n == Len(visited[c])
           new == Min(KeysAhead(c))
<1> USE NoOpIsOperation
<1>1. /\ visited[c] \in Seq(Key) /\ visited[c] # <<>> /\ Gapless(c)
      /\ op[c].key \in Key /\ there[c] \subseteq Present
  BY DEF IInv, WorkType, Operation, ThereInv, ScanInv, ScanNext, Goto
<1>2. n \in Nat \ {0} /\ LastRead(c) = visited[c][n] /\ visited[c][n] \in Key
  BY <1>1, EmptySeq, LenProperties DEF LastRead
<1>3. new \in KeysAhead(c) /\ \A k \in KeysAhead(c) : new <= k
  <2>1. KeysAhead(c) \in SUBSET Nat /\ KeysAhead(c) # {}
    BY DEF KeysAhead, Present, ScanNext
  <2> QED BY <2>1, MinIsLeast
<1>4. new \in Key /\ visited[c][n] < new
  BY <1>2, <1>3 DEF KeysAhead, Present
<1>5. visited'[c] = Append(visited[c], new) /\ there' = there /\ op' = op
  BY DEF IInv, WorkType, ScanNext
<1>6. /\ visited'[c] \in Seq(Key) /\ visited'[c] # <<>> /\ Len(visited'[c]) = n + 1
      /\ \A i \in 1 .. n : visited'[c][i] = visited[c][i]
      /\ visited'[c][n + 1] = new
  BY <1>1, <1>4, <1>5, AppendProperties
<1>7. ASSUME NEW k \in there[c], op[c].key <= k, k <= new
      PROVE  \E i \in 1 .. n + 1 : k = visited'[c][i]
  <2>1. k \in Present /\ k \in Nat /\ new \in Nat /\ visited[c][n] \in Nat
    BY <1>1, <1>2, <1>4 DEF Present
  <2>2. CASE k <= visited[c][n]
    <3>1. PICK i \in 1 .. n : k = visited[c][i]
      BY <1>1, <1>7, <2>2 DEF Gapless
    <3> QED BY <1>2, <1>6, <3>1
  <2>3. CASE ~ (k <= visited[c][n])
    <3>1. k \in KeysAhead(c)
      BY <1>2, <2>1, <2>3 DEF KeysAhead
    <3>2. k = new
      BY <1>3, <1>4, <1>7, <2>1, <3>1
    <3> QED BY <1>2, <1>6, <3>2
  <2> QED BY <2>2, <2>3
<1>8. visited'[c][1] = op[c].key
  BY <1>1, <1>2, <1>6 DEF Gapless
<1>9. \A i \in 1 .. n : visited'[c][i] < visited'[c][i + 1]
  <2> SUFFICES ASSUME NEW i \in 1 .. n PROVE visited'[c][i] < visited'[c][i + 1]
    OBVIOUS
  <2>1. CASE i = n
    BY <1>2, <1>4, <1>6, <2>1
  <2>2. CASE i # n
    <3>1. i \in 1 .. n - 1 /\ i + 1 \in 1 .. n
      BY <1>2, <2>2
    <3> QED BY <1>1, <1>6, <3>1 DEF Gapless
  <2> QED BY <2>1, <2>2
<1>10. Gapless(c)'
  <2>1. n \in Nat /\ n + 1 - 1 = n /\ Len(visited'[c]) = n + 1
    BY <1>2, <1>6
  <2> HIDE DEF n, new
  <2>2. \A i \in 1 .. n + 1 - 1 : visited'[c][i] < visited'[c][i + 1]
    BY <1>9, <2>1
  <2>3. \A k \in there'[c] : op'[c].key <= k /\ k <= visited'[c][n + 1] =>
          \E i \in 1 .. n + 1 : k = visited'[c][i]
    BY <1>5, <1>6, <1>7
  <2> QED BY <1>5, <1>8, <2>1, <2>2, <2>3 DEF Gapless
<1> QED BY <1>6, <1>10

(* A SCAN reads its next record.                                           *)
LEMMA ScanKeepsIInv ==
  ASSUME IInv, NEW c \in Client, UNCHANGED scan_length, ScanNext(c)
  PROVE  IInv'
<1> USE NoOpIsOperation DEF IInv, Goto, ScanNext
<1>1. MainInv' /\ ConnInv'
  BY WorkersLeaveMain
<1>2. Gapless(c)' /\ Len(visited'[c]) = Len(visited[c]) + 1 /\ visited'[c] \in Seq(Key)
  BY NextKeepsGapless
<1>3. /\ visited[c] \in Seq(Key) /\ visited[c] # <<>> /\ Len(visited[c]) < scan_length
      /\ op[c].type = "SCAN"
  BY DEF WorkType, ScanInv
<1>4. Len(visited[c]) \in Nat \ {0}
  BY <1>3, EmptySeq, LenProperties
<1>5. WorkType'
  BY <1>2 DEF WorkType, AfterRead
<1>6. PhaseInv' /\ ThereInv'
  BY DEF WorkType, PhaseInv, ThereInv, Present, lifecycleVars, AfterRead
<1>7. ScanInv'
  <2>1. \A d \in Client \ {c} : UNCHANGED <<pc[d], op[d], visited[d], there[d]>>
    BY DEF WorkType
  <2>2. pc'[c] = AfterRead(c, Len(visited[c]) + 1) /\ op' = op /\ scan_length \in Int
    BY DEF WorkType
  <2>3. pc'[c] = IF Len(visited[c]) + 1 < scan_length THEN "next" ELSE "loop"
    BY <1>3, <1>4, <2>2 DEF AfterRead, MoreToScan
  <2>4. \A d \in Client \ {c} : Gapless(d) => Gapless(d)'
    BY <2>1 DEF Gapless
  <2> QED BY <1>2, <1>3, <1>4, <2>1, <2>2, <2>3, <2>4 DEF ScanInv
<1> QED BY <1>1, <1>5, <1>6, <1>7

-----------------------------------------------------------------------------
(* Every step keeps the invariant.                                         *)
LEMMA IInvKept == IInv /\ [Next]_vars => IInv'
<1> SUFFICES ASSUME IInv, [Next]_vars PROVE IInv'
  OBVIOUS
<1>1. UNCHANGED scan_length
  BY DEF Next, vars
<1>2. CASE Main
  BY <1>1, <1>2, MainKeepsIInv
<1>3. ASSUME NEW c \in Client, Worker(c) PROVE IInv'
  <2>1. CASE Throws(c)
    BY <1>1, <2>1, FailureKeepsIInv DEF Throws
  <2> QED BY <1>1, <1>3, <2>1, CallsKeepIInv, SearchKeepsIInv, InsertKeepsIInv, ScanKeepsIInv
          DEF Worker
<1>4. CASE UNCHANGED <<lifecycleVars, conn, workVars, table>>
  BY <1>1, <1>4, FailureKeepsIInv
<1> QED BY <1>2, <1>3, <1>4 DEF Next, MainFails, Stopped, vars

(* The sessions and the cursors of wt_client.cpp, at every step of its     *)
(* calls and of the loops in worker.cpp.                                   *)
THEOREM Accounted == Spec => []IInv
BY IInvStarts, IInvKept, PTL DEF Spec

(* Every session is closed exactly once, and before the connection         *)
(* (WiredTigerClient::close and the destructors).                          *)
THEOREM SessionsClosedOnce == Spec => []SessionsBalanced
<1>1. IInv => SessionsBalanced
  BY MainInvBalances DEF IInv, MainInv, HandlesInv, ConnInv, SessionsBalanced
<1> QED BY <1>1, Accounted, PTL

(* A SCAN that returns has read a gapless run of the length asked for      *)
(* (WiredTigerClient::do_scan), under insertions of the other workers.     *)
THEOREM ScansAreRuns == Spec => []ScanReadsRun
<1>1. IInv => ScanReadsRun
  <2> SUFFICES ASSUME IInv, NEW c \in Client,
                      pc[c] = "loop", op[c].type = "SCAN", visited[c] # <<>>
               PROVE  LET n == Len(visited[c]) IN
                      /\ n = IF scan_length > 1 THEN scan_length ELSE 1
                      /\ visited[c][1] = op[c].key
                      /\ \A i \in 1 .. n - 1 : visited[c][i] < visited[c][i + 1]
                      /\ Between(there[c], op[c].key, LastRead(c))
                           \subseteq {visited[c][i] : i \in 1 .. n}
    BY DEF ScanReadsRun
  <2> QED BY DEF IInv, ScanInv, Gapless, Between, LastRead
<1> QED BY <1>1, Accounted, PTL

-----------------------------------------------------------------------------
(* The Client interface: WiredTigerRun implements ClientSession.           *)

Given == [c \in Client |->
           IF pc[c] \in {"search", "insert"}
           THEN <<[write |-> pc[c] = "insert", key |-> op[c].key]>> ELSE <<>>]
Left == {c \in Client : round = 1 /\ pc[c] = "exited"}

(* A step that begins no call of the store and ends none with an effect,   *)
(* and ends no worker's last round.                                        *)
LEMMA SilentStep ==
  ASSUME Given' = Given, Left' = Left, UNCHANGED <<table, failure>>
  PROVE  UNCHANGED Session!absVars
BY DEF Given, Left, Session!absVars

(* main creates, joins, closes and deletes; between the rounds it starts   *)
(* the workers again, which have nothing under way.                        *)
LEMMA MainIsSilent ==
  ASSUME IInv, Main
  PROVE  UNCHANGED Session!absVars
<1>1. CASE NextRun
  <2>1. /\ round = 0 /\ \A c \in Client : pc[c] = "exited" /\ pc'[c] = "loop"
        /\ UNCHANGED <<op, table, failure>>
    BY <1>1 DEF NextRun, NextRound, IInv, MainInv, RoundInv, PhaseInv
  <2>2. Given' = Given /\ Left' = Left
    BY <2>1 DEF Given, Left
  <2> QED BY <2>1, <2>2, SilentStep
<1>2. CASE UNCHANGED <<workVars, table, failure, round>>
  <2>1. Given' = Given /\ Left' = Left
    BY <1>2 DEF workVars, Given, Left
  <2> QED BY <1>2, <2>1, SilentStep
<1>3. Main => NextRun \/ UNCHANGED <<workVars, table, failure, round>>
  BY DEF Main, CreateClient, JoinWorkers, JoinMonitor, CloseClient, DeleteClient, LoopStep, Disconnect
<1> QED BY <1>1, <1>2, <1>3

(* A step of one worker that begins a search or an insert gives its        *)
(* session one operation: a READ_MODIFY_WRITE gives a read, then a write.  *)
LEMMA CallGives ==
  ASSUME IInv, NEW c \in Client, SetUp(c) \/ SetValue(c), failure = "none"
  PROVE  Session!Next
<1> DEFINE command == [write |-> pc'[c] = "insert", key |-> op[c].key]
<1>1. /\ pc[c] \in {"op", "modify"}
      /\ pc'[c] \in {"search", "insert"} /\ pc' = [pc EXCEPT ![c] = pc'[c]]
      /\ UNCHANGED <<op, table, failure, round>>
  BY DEF SetUp, SetValue, Goto, lifecycleVars, IInv, WorkType
<1>2. command \in Session!Command
  BY DEF IInv, WorkType, Operation, Session!Command
<1>3. Given[c] = <<>> /\ Given' = [Given EXCEPT ![c] = <<command>>]
  BY <1>1 DEF Given, IInv, WorkType
<1>4. Left' = Left /\ c \notin Left
  BY <1>1 DEF Left, IInv, WorkType
<1>5. Given' = [Given EXCEPT ![c] = Append(@, command)] /\ Len(Given[c]) < 1
  BY <1>3
<1>6. Session!Give(c)
  BY <1>1, <1>2, <1>4, <1>5 DEF Session!Give, Given, Left
<1> QED BY <1>1, <1>6 DEF Session!Next

(* A search that finds its key, and an insert, take effect as they return. *)
LEMMA ReturnApplies ==
  ASSUME IInv, NEW c \in Client, Search(c) \/ Insert(c), failure = "none"
  PROVE  Session!Next
<1> DEFINE command == [write |-> pc[c] = "insert", key |-> op[c].key]
<1>1. /\ pc[c] \in {"search", "insert"}
      /\ pc'[c] \in {"next", "modify", "loop"} /\ pc' = [pc EXCEPT ![c] = pc'[c]]
      /\ UNCHANGED <<op, failure, round>>
  BY DEF Search, Insert, AfterRead, Goto, lifecycleVars, IInv, WorkType
<1>2. table' = IF command.write THEN [table EXCEPT ![command.key] = c] ELSE table
  BY DEF Search, Insert, Goto
<1>3. Given[c] = <<command>> /\ Given' = [Given EXCEPT ![c] = <<>>]
  BY <1>1 DEF Given, IInv, WorkType
<1>4. Left' = Left
  BY <1>1 DEF Left, IInv, WorkType
<1>5. /\ Given[c] # <<>> /\ Head(Given[c]) = command
      /\ Given' = [Given EXCEPT ![c] = Tail(@)]
  BY <1>3
<1>6. Session!Apply(c)
  BY <1>1, <1>2, <1>4, <1>5 DEF Session!Apply, Given, Left
<1> QED BY <1>1, <1>6 DEF Session!Next

(* The process ends.                                                       *)
LEMMA FailureRefines ==
  ASSUME failure = "none", failure' # "none", UNCHANGED <<lifecycleVars, workVars, table>>
  PROVE  Session!Next
<1>1. Given' = Given /\ Left' = Left /\ table' = table
  BY DEF workVars, lifecycleVars, Given, Left
<1>2. Session!Fail
  BY <1>1 DEF Session!Fail, Given, Left
<1> QED BY <1>2 DEF Session!Next

(* The rest of a worker's steps.  The end of its last round leaves the     *)
(* session, with nothing under way.                                        *)
LEMMA WorkerRefines ==
  ASSUME IInv, NEW c \in Client, Worker(c), failure = "none"
  PROVE  [Session!Next]_Session!absVars
<1>1. CASE NextOp(c) \/ ScanNext(c)
  <2>1. /\ pc[c] \in {"loop", "next"} /\ pc'[c] \in {"op", "next", "modify", "loop"}
        /\ \A d \in Client \ {c} : pc'[d] = pc[d] /\ op'[d] = op[d]
        /\ UNCHANGED <<table, failure, round>>
    BY <1>1 DEF NextOp, ScanNext, AfterRead, Goto, lifecycleVars, IInv, WorkType
  <2>2. Given' = Given /\ Left' = Left
    BY <2>1 DEF Given, Left
  <2> QED BY <2>1, <2>2, SilentStep
<1>2. CASE Exit(c)
  <2>1. /\ pc[c] = "loop" /\ pc' = [pc EXCEPT ![c] = "exited"]
        /\ \A d \in Client \ {c} : op'[d] = op[d]
        /\ UNCHANGED <<table, failure, round>>
    BY <1>2 DEF Exit, Goto, lifecycleVars, IInv, WorkType
  <2>2. Given' = Given /\ Given[c] = <<>>
    BY <2>1 DEF Given, IInv, WorkType
  <2>3. Left' = IF round = 1 THEN Left \cup {c} ELSE Left
    BY <2>1 DEF Left, IInv, WorkType
  <2>4. CASE round = 1
    <3>1. Session!Leave(c)
      BY <2>1, <2>2, <2>3, <2>4 DEF Session!Leave, Given, Left
    <3> QED BY <3>1 DEF Session!Next
  <2>5. CASE round # 1
    BY <2>1, <2>2, <2>3, <2>5, SilentStep
  <2> QED BY <2>4, <2>5
<1>3. CASE Throws(c)
  <2>1. failure' # "none" /\ UNCHANGED <<lifecycleVars, workVars, table>>
    BY <1>3 DEF Throws
  <2> QED BY <2>1, FailureRefines
<1> QED BY <1>1, <1>2, <1>3, CallGives, ReturnApplies DEF Worker

(* A WiredTigerClient keeps what the Client interface promises: operations *)
(* take effect one at a time, in order, before do_operation returns, and   *)
(* none is under way when a worker is done.  The further reads of a SCAN   *)
(* are not operations of their own (see ScansAreRuns).                     *)
THEOREM SessionImplemented == Spec => ImplementsSession
<1>1. Init => Session!Init
  <2> SUFFICES ASSUME Init PROVE Session!Init
    OBVIOUS
  <2>1. Given = [c \in Client |-> <<>>] /\ Left = {}
    BY DEF Init, Given, Left
  <2>2. table \in [Key -> {Missing, Loaded}] /\ failure = "none"
    BY DEF Init
  <2> QED BY <2>1, <2>2 DEF Session!Init, Given, Left
<1>2. IInv /\ [Next]_vars => [Session!Next]_Session!absVars
  <2> SUFFICES ASSUME IInv, [Next]_vars PROVE [Session!Next]_Session!absVars
    OBVIOUS
  <2>1. CASE failure = "none" /\ Main
    BY <2>1, MainIsSilent
  <2>2. CASE failure = "none" /\ MainFails
    <3>1. failure' # "none" /\ UNCHANGED <<lifecycleVars, workVars, table>>
      BY <2>2 DEF MainFails
    <3> QED BY <2>2, <3>1, FailureRefines
  <2>3. CASE failure = "none" /\ \E c \in Client : Worker(c)
    BY <2>3, WorkerRefines
  <2>4. CASE UNCHANGED <<lifecycleVars, conn, workVars, table, failure>>
    <3>1. Given' = Given /\ Left' = Left
      BY <2>4 DEF workVars, lifecycleVars, Given, Left
    <3> QED BY <2>4, <3>1, SilentStep
  <2> QED BY <2>1, <2>2, <2>3, <2>4 DEF Next, Stopped, vars
<1> QED BY <1>1, <1>2, Accounted, PTL DEF Spec, ImplementsSession, Session!Spec
=============================================================================
