------------------------------- MODULE InitLoad -------------------------------
(***************************************************************************)
(* run_init_workload_with_op_measurement: nr_thread workers load the keys  *)
(* 0 .. nr_entry - 1 concurrently, each through an InitWorkload over its   *)
(* own range.  Any number of threads and keys is possible: there may be    *)
(* more threads than keys, and the ranges need not be of one length.       *)
(***************************************************************************)
EXTENDS Workload, FiniteSets

CONSTANTS Entries,   \* the values of nr_entry considered
          Threads    \* the values of nr_thread considered

ASSUME EntriesAssumption == Entries \subseteq Nat \ {0}
ASSUME ThreadsAssumption == Threads \subseteq Nat \ {0}

VARIABLES
  nr_entry, nr_thread,   \* arguments
  cur_nr_entry,          \* of each worker's InitWorkload
  inserts                \* history: <<worker, key>> of every INSERT so far

vars == <<nr_entry, nr_thread, cur_nr_entry, inserts>>

Worker == 0 .. nr_thread - 1
Key    == 0 .. nr_entry - 1

Init ==
  /\ nr_entry \in Entries
  /\ nr_thread \in Threads
  /\ cur_nr_entry = [w \in Worker |-> 0]
  /\ inserts = {}

HasNextOp(w) == cur_nr_entry[w] < NrInitKeys(nr_entry, nr_thread, w)

Mut_NextKey(w) == StartKey(nr_entry, nr_thread, w) + cur_nr_entry[w] + 1
NextKey(w) == StartKey(nr_entry, nr_thread, w) + cur_nr_entry[w]

(* One turn of the worker's loop: next_op, and the INSERT it makes.        *)
InsertNext(w) ==
  /\ HasNextOp(w)
  /\ inserts' = inserts \cup {<<w, NextKey(w)>>}
  /\ cur_nr_entry' = [cur_nr_entry EXCEPT ![w] = @ + 1]
  /\ UNCHANGED <<nr_entry, nr_thread>>

Loaded == \A w \in Worker : ~ HasNextOp(w)

Stopped == Loaded /\ UNCHANGED vars

Next == Stopped \/ \E w \in Worker : InsertNext(w)

Spec == Init /\ [][Next]_vars

-----------------------------------------------------------------------------
(* Properties.                                                             *)

(* Workers insert keys that are natural numbers: the key format of the     *)
(* InitWorkload has no room for a sign.                                    *)
TypeOK ==
  /\ nr_entry \in Nat \ {0} /\ nr_thread \in Nat \ {0}
  /\ cur_nr_entry \in [Worker -> Nat]
  /\ inserts \subseteq Worker \X Nat

(* A worker has inserted the keys from its start_key on, without a gap.    *)
InsertsInv ==
  /\ \A w \in Worker :
       cur_nr_entry[w] > 0 => cur_nr_entry[w] <= NrInitKeys(nr_entry, nr_thread, w)
  /\ inserts = {p \in Worker \X Key :
                  /\ StartKey(nr_entry, nr_thread, p[1]) <= p[2]
                  /\ p[2] < StartKey(nr_entry, nr_thread, p[1]) + cur_nr_entry[p[1]]}

(* No two workers insert the same key, and none inserts a key the workload *)
(* phase does not know, however the division of nr_entry by nr_thread      *)
(* rounds.                                                                 *)
NoKeyTwice ==
  \A p, q \in inserts : p[2] \in Key /\ (p[2] = q[2] => p[1] = q[1])

(* When every worker is done, every key is in the store.                   *)
AllKeysLoaded ==
  Loaded => \A k \in Key : \E w \in Worker : <<w, k>> \in inserts
=============================================================================
