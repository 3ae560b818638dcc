----------------------------- MODULE ClientSession -----------------------------
(***************************************************************************)
(* What the Client interface (core/include/client.h) promises a worker,    *)
(* whichever store is behind it: the operations a client is given take     *)
(* effect on the store one at a time and in the order they were given,     *)
(* each at some moment after it was given, and all of them before the      *)
(* client's worker is done with it.  A failure may end the whole process.  *)
(*                                                                         *)
(* A client may run ahead of the store by a bounded number of operations.  *)
(* A store that refuses an operation, and a client that takes the refusal  *)
(* for an answer, consume it without effect, in its turn.                  *)
(***************************************************************************)
EXTENDS Integers, Sequences

CONSTANTS Client, Key, Missing,
          Loaded   \* what a key holds that was loaded beforehand

VARIABLES
  given,     \* operations given to each client and not yet applied
  store,     \* the client that wrote each key last, Loaded or Missing
  left,      \* clients whose worker is done
  failed,
  ahead,     \* how many operations a client may be ahead of the store
  refuses    \* whether the store may refuse an operation

absVars == <<given, store, left, failed, ahead, refuses>>

Command == [write : BOOLEAN, key : Key]

Init ==
  /\ given = [c \in Client |-> <<>>]
  /\ store \in [Key -> {Missing, Loaded}]
  /\ left = {}
  /\ failed = FALSE
  /\ ahead \in Nat \ {0}
  /\ refuses \in BOOLEAN

Give(c) ==
  /\ c \notin left
  /\ Len(given[c]) < ahead
  /\ \E command \in Command : given' = [given EXCEPT ![c] = Append(@, command)]
  /\ UNCHANGED <<store, left, failed>>

Apply(c) ==
  /\ given[c] # <<>>
  /\ given' = [given EXCEPT ![c] = Tail(@)]
  /\ store' = IF Head(given[c]).write THEN [store EXCEPT ![Head(given[c]).key] = c]
                                      ELSE store
  /\ UNCHANGED <<left, failed>>

Refuse(c) ==
  /\ refuses
  /\ given[c] # <<>>
  /\ given' = [given EXCEPT ![c] = Tail(@)]
  /\ UNCHANGED <<store, left, failed>>

Leave(c) ==
  /\ given[c] = <<>>
  /\ left' = left \cup {c}
  /\ UNCHANGED <<given, store, failed>>

Fail ==
  /\ failed' = TRUE
  /\ UNCHANGED <<given, store, left>>

Next ==
  /\ ~ failed
  /\ Fail \/ \E c \in Client : Give(c) \/ Apply(c) \/ Refuse(c) \/ Leave(c)
  /\ UNCHANGED <<ahead, refuses>>

Spec == Init /\ [][Next]_absVars
=============================================================================
