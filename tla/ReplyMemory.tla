------------------------------ MODULE ReplyMemory ------------------------------
(***************************************************************************)
(* The memory of the replies a RedisClient or a MemcachedClient is given.  *)
(* A reply belongs to the caller; the client keeps it as last_reply until  *)
(* set_last_reply replaces it, close clears it or the destructor runs, and *)
(* frees it then.  The Operation points into it meanwhile.                 *)
(*                                                                         *)
(* A block of memory is named by the number of the operation, in its       *)
(* round, whose reply it holds; 0 is the null pointer.                     *)
(***************************************************************************)
EXTENDS ClientLifecycle

Null == 0

VARIABLES
  last_reply,          \* of each client
  heap,                \* of each client: its replies not yet freed
  double_free,         \* a reply was freed twice
  reply_value_buffer   \* of each worker's Operation

replyVars == <<last_reply, heap, double_free, reply_value_buffer>>

ReplyInit ==
  /\ last_reply = [c \in Client |-> Null]
  /\ heap = [c \in Client |-> {}]
  /\ double_free = FALSE
  /\ reply_value_buffer = [c \in Client |-> Null]

FreeIfSet(c) ==
  double_free' = (double_free \/ (last_reply[c] # Null /\ last_reply[c] \notin heap[c]))

Mut_FreeReply(c) ==
  /\ FreeIfSet(c)
  /\ heap' = [heap EXCEPT ![c] = @ \ {last_reply[c]}]
  /\ UNCHANGED <<last_reply, reply_value_buffer>>

(* In close.                                                               *)
FreeReply(c) ==
  /\ FreeIfSet(c)
  /\ heap' = [heap EXCEPT ![c] = @ \ {last_reply[c]}]
  /\ last_reply' = [last_reply EXCEPT ![c] = Null]
  /\ UNCHANGED reply_value_buffer

(* In the destructor: the pointer goes with the client.                    *)
DestroyReply(c) ==
  /\ FreeIfSet(c)
  /\ heap' = [heap EXCEPT ![c] = @ \ {last_reply[c]}]
  /\ UNCHANGED <<last_reply, reply_value_buffer>>

Mut_SetLastReply(c, reply) ==
  /\ UNCHANGED double_free
  /\ heap' = [heap EXCEPT ![c] = @ \cup {reply}]
  /\ last_reply' = [last_reply EXCEPT ![c] = reply]

SetLastReply(c, reply) ==
  /\ FreeIfSet(c)
  /\ heap' = [heap EXCEPT ![c] = (@ \cup {reply}) \ {last_reply[c]}]
  /\ last_reply' = [last_reply EXCEPT ![c] = reply]

PointBuffer(c, reply) ==
  reply_value_buffer' = [reply_value_buffer EXCEPT ![c] = reply]

(* A client holds the reply it was given last and no other; none is freed  *)
(* twice by set_last_reply, close and the destructor, and none is left     *)
(* between the rounds or when all clients are gone.                        *)
RepliesOwned ==
  /\ ~ double_free
  /\ \A c \in Client : heap[c] = {last_reply[c]} \ {Null}
  /\ main \in {"again", "done"} => \A c \in Client : heap[c] = {}
=============================================================================
