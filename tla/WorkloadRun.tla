----------------------------- MODULE WorkloadRun -----------------------------
(***************************************************************************)
(* One workload generator from its construction to its last operation, as  *)
(* the loop of worker_thread_fn drives it: next_op while has_next_op.      *)
(* A generator throws when it cannot make an operation; the exception ends *)
(* the process (see BenchRun).                                             *)
(***************************************************************************)
EXTENDS Workload, FiniteSets

CONSTANTS NrOp,          \* operations asked of the generator
          NrEntry,       \* keys of the database
          Proportions,   \* the op_prop of the configurations considered
          Draws,         \* values of rand_r that decide a type
          RandMax,       \* greatest value of rand_r, where two draws make a key
          Hashes,        \* values of fnv1_64_hash
          Lines          \* lines a trace file may hold

ASSUME NrOpAssumption == NrOp \in Nat
ASSUME NrEntryAssumption == NrEntry \in Nat \ {0}
ASSUME ProportionsAssumption ==
  \A prop \in Proportions : prop \in [1 .. Len(OperationType) -> Nat]
ASSUME DrawsAssumption == Draws \subseteq 0 .. RAND_MAX
ASSUME RandMaxAssumption == RandMax \in Nat
ASSUME HashesAssumption == Hashes \subseteq Nat

Key == 0 .. NrEntry - 1

(* Trace files: the constructor reads NrOp lines, and throws if there are  *)
(* fewer.                                                                  *)
Files == UNION {[1 .. n -> Lines] : n \in {NrOp - 1, NrOp, NrOp + 1} \cap Nat}

VARIABLES
  kind,          \* which generator it is
  op_prop,       \* uniform and zipfian
  gen,           \* uniform, zipfian and latest: nr_entry, and what to draw with
  hash,          \* zipfian and latest: fnv1_64_hash of an index
  cur_nr_op,     \* cur_nr_entry of an InitWorkload
  cur_ack_key,   \* latest
  line_list,     \* trace: lines not yet consumed
  trace_file,    \* trace: the lines of the file
  issued,        \* history: the operations made so far
  outcome

config == <<kind, op_prop, gen, hash, trace_file>>
vars == <<config, cur_nr_op, cur_ack_key, line_list, issued, outcome>>

Init ==
  /\ kind \in {"uniform", "zipfian", "init", "latest", "trace"}
  /\ op_prop \in IF kind \in {"uniform", "zipfian"} THEN Proportions ELSE {<<>>}
  /\ gen = IF kind \in {"zipfian", "latest"} THEN Clone(Constructed(NrEntry))
                                            ELSE [nr_entry |-> NrEntry]
  /\ hash \in IF kind \in {"zipfian", "latest"} THEN [0 .. NrEntry -> Hashes] ELSE {<<>>}
  /\ trace_file \in IF kind = "trace" THEN Files ELSE {<<>>}
  /\ line_list = IF Len(trace_file) < NrOp THEN trace_file ELSE SubSeq(trace_file, 1, NrOp)
  /\ cur_nr_op = 0 /\ cur_ack_key = 0
  /\ issued = <<>>
  /\ outcome = IF kind = "trace" /\ Len(trace_file) < NrOp THEN "threw" ELSE "running"

HasNextOp == cur_nr_op < NrOp
MayIssue == outcome = "running" /\ HasNextOp

Issue(type, key, is_last_op) ==
  /\ MayIssue
  /\ issued' = Append(issued, [type |-> type, key |-> key, is_last_op |-> is_last_op])
  /\ UNCHANGED <<config, outcome>>

Throw ==
  /\ MayIssue
  /\ outcome' = "threw"
  /\ UNCHANGED <<config, cur_nr_op, cur_ack_key, issued>>

(* The generators.  Each next_op makes its operation, counts it, and then  *)
(* asks has_next_op whether it was the last.                               *)

TypesDrawn == UNION {ChosenTypes(op_prop, r) : r \in Draws}

UniformNextOp ==
  /\ kind = "uniform"
  /\ cur_nr_op' = cur_nr_op + 1
  /\ \E type \in TypesDrawn, key \in UniformKeys(gen.nr_entry, RandMax) :
       Issue(type, key, ~ HasNextOp')
  /\ UNCHANGED <<cur_ack_key, line_list>>

ZipfianNextOp ==
  /\ kind = "zipfian"
  /\ cur_nr_op' = cur_nr_op + 1
  /\ \E type \in TypesDrawn, key \in ZipfianKeys(gen.nr_entry, hash) :
       Issue(type, key, ~ HasNextOp')
  /\ UNCHANGED <<cur_ack_key, line_list>>

(* No type is drawn.                                                       *)
ProportionalThrows ==
  /\ kind \in {"uniform", "zipfian"}
  /\ \E r \in Draws : ChosenTypes(op_prop, r) = {}
  /\ Throw
  /\ UNCHANGED line_list

Mut_InitNextOp ==
  /\ kind = "init"
  /\ cur_nr_op' = cur_nr_op + 1
  /\ Issue("INSERT", cur_nr_op, ~ HasNextOp)
  /\ UNCHANGED <<cur_ack_key, line_list>>

(* The key is the count before, with start_key = 0.                        *)
InitNextOp ==
  /\ kind = "init"
  /\ cur_nr_op' = cur_nr_op + 1
  /\ Issue("INSERT", cur_nr_op, ~ HasNextOp')
  /\ UNCHANGED <<cur_ack_key, line_list>>

LatestNextOp ==
  /\ kind = "latest"
  /\ cur_nr_op' = cur_nr_op + 1
  /\ \E wantsRead \in BOOLEAN :
       LET type == LatestType(wantsRead, cur_ack_key, gen.nr_entry)
       IN  /\ \E index \in LatestIndices(type, cur_ack_key, gen.nr_entry) :
                Issue(type, hash[index] % gen.nr_entry, ~ HasNextOp')
           /\ cur_ack_key' = AckAfter(type, cur_ack_key)
  /\ UNCHANGED line_list

(* The line is taken off the list before it is looked at.                  *)
Mut_LinesLeft == line_list
LinesLeft == Tail(line_list)

TraceNextOp ==
  /\ kind = "trace"
  /\ MayIssue
  /\ LineIsValid(Head(line_list))
  /\ line_list' = LinesLeft
  /\ cur_nr_op' = cur_nr_op + 1
  /\ Issue(Head(line_list).type, Head(line_list).key, ~ HasNextOp')
  /\ UNCHANGED cur_ack_key

TraceThrows ==
  /\ kind = "trace"
  /\ MayIssue
  /\ ~ LineIsValid(Head(line_list))
  /\ line_list' = LinesLeft
  /\ Throw

Finish ==
  /\ outcome = "running" /\ ~ HasNextOp
  /\ outcome' = "done"
  /\ UNCHANGED <<config, cur_nr_op, cur_ack_key, line_list, issued>>

Stopped == outcome # "running" /\ UNCHANGED vars

Next ==
  \/ UniformNextOp \/ ZipfianNextOp \/ ProportionalThrows
  \/ InitNextOp
  \/ LatestNextOp
  \/ TraceNextOp \/ TraceThrows
  \/ Finish \/ Stopped

Spec == Init /\ [][Next]_vars

-----------------------------------------------------------------------------
(* Properties.                                                             *)

(* The counters of the generators stay within what they count: cur_nr_op   *)
(* within nr_op, cur_ack_key within nr_entry.                              *)
TypeOK ==
  /\ cur_nr_op \in 0 .. NrOp
  /\ cur_ack_key \in 0 .. NrEntry
  /\ Len(issued) = cur_nr_op
  /\ outcome \in {"running", "threw", "done"}

(* is_last_op tells the client what the loop of the worker is about to     *)
(* find: it is set on the operation after which has_next_op is false, if   *)
(* the generator gets that far, and on none that is followed by another or *)
(* by an exception.  The batching client flushes on it, and would          *)
(* otherwise leave replies behind or never fill a batch.                   *)
LastOpFlagged ==
  /\ \A i \in DOMAIN issued : issued[i].is_last_op => i = Len(issued) /\ ~ HasNextOp
  /\ issued # <<>> /\ ~ HasNextOp => issued[Len(issued)].is_last_op

(* A LatestWorkload inserts each of the nr_entry indices once, in order,   *)
(* updates only after the last, and reads and updates only keys it has     *)
(* inserted itself, in whatever way the keys collide, although it starts   *)
(* with none and draws from the whole zipfian range.                       *)
LatestHitsOwnInserts ==
  kind = "latest" =>
    \A i \in DOMAIN issued :
      LET before == Cardinality({j \in 1 .. i - 1 : issued[j].type = "INSERT"})
          inserted == {hash[n] % NrEntry : n \in 0 .. before - 1}
      IN  CASE issued[i].type = "INSERT" ->
                 before < NrEntry /\ issued[i].key = hash[before] % NrEntry
            [] issued[i].type = "UPDATE" -> before = NrEntry /\ issued[i].key \in inserted
            [] OTHER -> issued[i].key \in inserted

(* Whatever is drawn, at most one type is chosen; none is only if the      *)
(* floats of the configuration sum to less than one; and a type of         *)
(* proportion zero is chosen only by the draw of exactly 0.                *)
DrawsAsConfigured ==
  kind \in {"uniform", "zipfian"} =>
    /\ outcome = "threw" => RunningSum(op_prop)[Len(op_prop)] < One
    /\ \A r \in Draws : Cardinality(ChosenTypes(op_prop, r)) <= 1
    /\ \A i \in DOMAIN op_prop : op_prop[i] = 0 =>
         \A r \in Draws \ {0} : OperationType[i] \notin ChosenTypes(op_prop, r)

(* The keys are those of the database.  No long made of two draws is       *)
(* negative, which would make a negative key; an index drawn may be        *)
(* nr_entry itself and a hash is any number; and the clones, constructed   *)
(* over another number of keys, draw as a generator that is constructed    *)
(* over all the keys, with nothing left of the 3.                          *)
KeysOfDatabase ==
  /\ kind \in {"zipfian", "latest"} => gen = Constructed(NrEntry)
  /\ kind \in {"uniform", "zipfian", "latest"} => \A i \in DOMAIN issued : issued[i].key \in Key

(* A trace is replayed line by line: no line is skipped, repeated or made  *)
(* another operation, and the generator stops at the first invalid one.    *)
TraceReplayed ==
  kind = "trace" =>
    /\ \A i \in DOMAIN issued :
         /\ LineIsValid(trace_file[i])
         /\ issued[i].type = trace_file[i].type /\ issued[i].key = trace_file[i].key
    /\ outcome = "done" => Len(issued) = NrOp /\ line_list = <<>>
    /\ outcome = "threw" => \/ Len(trace_file) < NrOp /\ issued = <<>>
                            \/ ~ LineIsValid(trace_file[Len(issued) + 1])

(* wiredtiger/config/ycsb_b.yaml:14-15 asks for read: 0.95 and update:     *)
(* 0.05, nothing else: every draw is one of the two.                       *)
EveryDrawIsAnOperation == kind \in {"uniform", "zipfian"} => outcome # "threw"
=============================================================================
