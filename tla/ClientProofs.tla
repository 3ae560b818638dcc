----------------------------- MODULE ClientProofs -----------------------------
(***************************************************************************)
(* What the run modules of the stores cite about the parts they share, for *)
(* every number of clients, in two parts.                                  *)
(*                                                                         *)
(* Handles: every handle is closed exactly once.  Each step of the main    *)
(* thread keeps an invariant that gives HandlesBalanced.                   *)
(*                                                                         *)
(* Replies: every reply is freed exactly once, provided each one a client  *)
(* is given is newer than the one it holds: the steps of ReplyMemory, with *)
(* those of main they go with, keep an invariant that gives RepliesOwned.  *)
(* Whether a client is only given newer ones is for its own module to      *)
(* show.  A store whose clients keep no replies leaves this part aside.    *)
(***************************************************************************)
EXTENDS ReplyMemory, TLAPS

LifecycleType ==
  /\ main \in {"create", "run", "stat", "close", "delete", "again", "done", "disconnected"}
  /\ round \in {0, 1}
  /\ thread_index \in Client
  /\ handle \in [Client -> BOOLEAN]
  /\ opened \in [Client -> Int]

(* The loops of main have passed exactly the clients below thread_index,   *)
(* and close has been asked of one more than delete.                       *)
HandlesInv ==
  /\ main = "create" => \A c \in Client : handle[c] <=> c < thread_index
  /\ main \in {"run", "stat"} => thread_index = 0 /\ \A c \in Client : handle[c]
  /\ main = "close" => \A c \in Client : handle[c] <=> c >= thread_index
  /\ main = "delete" => \A c \in Client : handle[c] <=> c > thread_index
  /\ main \in {"again", "done", "disconnected"} =>
       thread_index = 0 /\ \A c \in Client : ~ handle[c]

(* A handle is set exactly while one is open.                              *)
CountsInv == \A c \in Client : opened[c] = IF handle[c] THEN 1 ELSE 0

(* The measured run is the last.                                           *)
RoundInv == main = "again" => round = 0

MainInv == LifecycleType /\ HandlesInv /\ CountsInv /\ RoundInv

-----------------------------------------------------------------------------
(* The loop's index stays in range and reaches the last client.            *)
LEMMA IndexRange ==
  /\ Client \subseteq Int
  /\ 0 \in Client
  /\ \A i \in Client : i # NrClient - 1 => i + 1 \in Client
  /\ \A i \in Client, c \in Client : i = NrClient - 1 => ~ (c > i)
BY NrClientAssumption DEF Client

(* The invariant holds when main enters its first loop.                    *)
LEMMA LifecycleStarts ==
  ASSUME NEW n, LifecycleInit(n)
  PROVE  MainInv
<1>1. LifecycleType /\ CountsInv
  BY IndexRange DEF LifecycleInit, LifecycleType, CountsInv
<1>2. HandlesInv
  BY IndexRange, NrClientAssumption DEF LifecycleInit, HandlesInv, Client
<1> QED BY <1>1, <1>2 DEF MainInv, LifecycleInit, RoundInv

(* The loop of create_client (worker.cpp).                                 *)
LEMMA CreateKeepsMainInv ==
  ASSUME MainInv, CreateClient
  PROVE  MainInv'
<1> USE DEF MainInv, CreateClient, LoopStep, IsLastThread, RoundInv
<1>1. LifecycleType'
  BY IndexRange DEF LifecycleType
<1>2. ~ handle[thread_index]
  BY IndexRange DEF LifecycleType, HandlesInv
<1>3. CountsInv'
  BY <1>2 DEF LifecycleType, CountsInv
<1>4. CASE IsLastThread
  <2>1. HandlesInv'
    BY <1>4, IndexRange, NrClientAssumption DEF LifecycleType, HandlesInv, Client
  <2> QED BY <1>1, <1>3, <2>1
<1>5. CASE ~ IsLastThread
  <2>1. HandlesInv'
    BY <1>5, IndexRange, NrClientAssumption DEF LifecycleType, HandlesInv, Client
  <2> QED BY <1>1, <1>3, <2>1
<1> QED BY <1>4, <1>5

(* The loop of close.                                                      *)
LEMMA CloseKeepsMainInv ==
  ASSUME MainInv, CloseClient
  PROVE  MainInv'
<1> USE DEF MainInv, CloseClient, CloseIfSet, RoundInv
<1>1. handle[thread_index]
  BY IndexRange DEF LifecycleType, HandlesInv
<1>2. LifecycleType'
  BY <1>1 DEF LifecycleType
<1>3. CountsInv'
  BY <1>1 DEF LifecycleType, CountsInv
<1>4. HandlesInv'
  BY IndexRange DEF LifecycleType, HandlesInv
<1> QED BY <1>2, <1>3, <1>4

(* The loop of delete, whose destructor closes again.                      *)
LEMMA DeleteKeepsMainInv ==
  ASSUME MainInv, DeleteClient
  PROVE  MainInv'
<1> USE DEF MainInv, DeleteClient, LoopStep, IsLastThread, CloseIfSet, RoundInv
<1>1. ~ handle[thread_index]
  BY IndexRange DEF LifecycleType, HandlesInv
<1>2. LifecycleType'
  BY <1>1, IndexRange DEF LifecycleType
<1>3. CountsInv'
  BY <1>1 DEF LifecycleType, CountsInv
<1>4. HandlesInv'
  <2>1. CASE IsLastThread
    BY <2>1, IndexRange DEF LifecycleType, HandlesInv
  <2>2. CASE ~ IsLastThread
    BY <2>2, IndexRange DEF LifecycleType, HandlesInv
  <2> QED BY <2>1, <2>2
<1> QED BY <1>2, <1>3, <1>4

(* Main between its loops, and any step that is not of main.               *)
LEMMA OthersKeepMainInv ==
  ASSUME MainInv, JoinWorkers \/ JoinMonitor \/ NextRound \/ UNCHANGED lifecycleVars
  PROVE  MainInv'
<1>1. CASE JoinWorkers
  BY <1>1, IndexRange
     DEF JoinWorkers, MainInv, LifecycleType, HandlesInv, CountsInv, RoundInv, Client
<1>1a. CASE JoinMonitor
  BY <1>1a, IndexRange, NrClientAssumption
     DEF JoinMonitor, MainInv, LifecycleType, HandlesInv, CountsInv, RoundInv, Client
<1>2. CASE NextRound
  BY <1>2, IndexRange
     DEF NextRound, MainInv, LifecycleType, HandlesInv, CountsInv, RoundInv, Client
<1>3. CASE UNCHANGED lifecycleVars
  BY <1>3 DEF lifecycleVars, MainInv, LifecycleType, HandlesInv, CountsInv, RoundInv
<1> QED BY <1>1, <1>1a, <1>2, <1>3

(* No handle is closed twice, and none is left open at the end.            *)
LEMMA MainInvBalances ==
  ASSUME MainInv
  PROVE  HandlesBalanced
BY IndexRange DEF MainInv, LifecycleType, HandlesInv, CountsInv, HandlesBalanced

-----------------------------------------------------------------------------
(***************************************************************************)
(* Second part: the replies.                                               *)
(***************************************************************************)

ReplyType ==
  /\ last_reply \in [Client -> Nat]
  /\ heap \in [Client -> SUBSET Nat]
  /\ reply_value_buffer \in [Client -> Nat]

(* A client owns the reply last_reply points to, if any, and main has      *)
(* cleared the pointer of each client it has closed.                       *)
OwnInv ==
  /\ ~ double_free
  /\ \A c \in Client : heap[c] = {last_reply[c]} \ {Null}
  /\ main \in {"create", "again", "done", "disconnected"} =>
       \A c \in Client : last_reply[c] = Null
  /\ main = "close" => \A c \in Client : c < thread_index => last_reply[c] = Null
  /\ main = "delete" => \A c \in Client : c <= thread_index => last_reply[c] = Null

RepliesInv == ReplyType /\ OwnInv

-----------------------------------------------------------------------------
(* No client has had a reply yet.                                          *)
LEMMA RepliesStart ==
  ASSUME ReplyInit, main = "create"
  PROVE  RepliesInv
BY DEF ReplyInit, RepliesInv, ReplyType, OwnInv, Null

(* What a client frees is allocated, while it owns its last reply.         *)
LEMMA FreedOnce ==
  ASSUME NEW c \in Client, OwnInv, FreeIfSet(c)
  PROVE  ~ double_free'
<1>1. last_reply[c] # Null => last_reply[c] \in heap[c]
  BY DEF OwnInv
<1> QED BY <1>1, Zenon DEF OwnInv, FreeIfSet

(* close frees the last reply, and clears the pointer.                     *)
LEMMA CloseKeepsReplies ==
  ASSUME MainInv, RepliesInv, CloseClient, FreeReply(thread_index)
  PROVE  RepliesInv'
<1> USE IndexRange DEF RepliesInv, CloseClient, FreeReply
<1>1. thread_index \in Client
  BY DEF MainInv, LifecycleType
<1>2. ReplyType'
  BY <1>1 DEF ReplyType, Null
<1>3. ~ double_free'
  BY <1>1, FreedOnce
<1>4. \A c \in Client : heap'[c] = {last_reply'[c]} \ {Null}
  BY <1>1 DEF ReplyType, OwnInv
<1>5. \A c \in Client : c <= thread_index => last_reply'[c] = Null
  BY <1>1 DEF ReplyType, OwnInv
<1> QED BY <1>2, <1>3, <1>4, <1>5 DEF OwnInv

(* The destructor frees nothing more.                                      *)
LEMMA DeleteKeepsReplies ==
  ASSUME MainInv, RepliesInv, DeleteClient, DestroyReply(thread_index)
  PROVE  RepliesInv'
<1> USE IndexRange DEF RepliesInv, DeleteClient, LoopStep, IsLastThread, DestroyReply
<1>1. thread_index \in Client
  BY DEF MainInv, LifecycleType
<1>2. ReplyType'
  BY <1>1 DEF ReplyType, Null
<1>3. ~ double_free'
  BY <1>1, FreedOnce
<1>4. last_reply[thread_index] = Null
  BY <1>1 DEF MainInv, LifecycleType, OwnInv
<1>5. \A c \in Client : heap'[c] = {last_reply'[c]} \ {Null}
  BY <1>1, <1>4 DEF ReplyType, OwnInv
<1>6. (\A c \in Client : last_reply'[c] = Null) \/ main' = "close"
  BY <1>1, <1>4 DEF MainInv, LifecycleType, OwnInv
<1>7. main' = "close" => \A c \in Client : c < thread_index' => last_reply'[c] = Null
  BY <1>1, <1>4 DEF MainInv, LifecycleType, OwnInv
<1> QED BY <1>1, <1>2, <1>3, <1>5, <1>6, <1>7 DEF OwnInv

(* Steps of main, or of nobody, that do not concern the replies.           *)
LEMMA OthersKeepReplies ==
  ASSUME MainInv, RepliesInv, UNCHANGED replyVars,
         CreateClient \/ JoinWorkers \/ JoinMonitor \/ NextRound \/ UNCHANGED lifecycleVars
  PROVE  RepliesInv'
<1> USE DEF RepliesInv, replyVars
<1>1. ReplyType'
  BY DEF ReplyType
<1>2. CASE CreateClient
  BY <1>1, <1>2 DEF CreateClient, LoopStep, OwnInv
<1>3. CASE JoinWorkers \/ JoinMonitor
  BY <1>1, <1>3, IndexRange, NrClientAssumption
     DEF JoinWorkers, JoinMonitor, MainInv, HandlesInv, OwnInv, Client
<1>4. CASE NextRound
  BY <1>1, <1>4 DEF NextRound, OwnInv
<1>5. CASE UNCHANGED lifecycleVars
  BY <1>1, <1>5 DEF lifecycleVars, OwnInv
<1> QED BY <1>2, <1>3, <1>4, <1>5

(* The worker's Operation goes.                                            *)
LEMMA PointKeepsReplies ==
  ASSUME RepliesInv, NEW c \in Client, PointBuffer(c, Null),
         UNCHANGED <<lifecycleVars, last_reply, heap, double_free>>
  PROVE  RepliesInv'
BY DEF RepliesInv, ReplyType, OwnInv, PointBuffer, lifecycleVars, Null

(* set_last_reply, with a newer reply.                                     *)
LEMMA SetKeepsReplies ==
  ASSUME RepliesInv, main = "run", UNCHANGED lifecycleVars,
         NEW c \in Client, NEW reply \in Nat, last_reply[c] < reply,
         SetLastReply(c, reply),
         PointBuffer(c, reply) \/ UNCHANGED reply_value_buffer
  PROVE  RepliesInv'
<1> USE DEF RepliesInv, SetLastReply, PointBuffer, lifecycleVars
<1>1. ReplyType'
  BY DEF ReplyType
<1>2. ~ double_free'
  BY FreedOnce
<1>3. heap'[c] = {last_reply'[c]} \ {Null}
  BY DEF ReplyType, OwnInv, Null
<1>4. \A d \in Client : heap'[d] = {last_reply'[d]} \ {Null}
  BY <1>3 DEF ReplyType, OwnInv
<1> QED BY <1>1, <1>2, <1>4 DEF OwnInv

(* Then no reply is freed twice, and none that is not held is left.        *)
LEMMA RepliesInvOwns ==
  ASSUME RepliesInv
  PROVE  RepliesOwned
BY DEF RepliesInv, ReplyType, OwnInv, RepliesOwned, Null
=============================================================================
