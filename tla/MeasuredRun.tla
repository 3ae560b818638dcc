----------------------------- MODULE MeasuredRun -----------------------------
(***************************************************************************)
(* What one benchmark run promises its user, whatever its threads do:      *)
(* samples are recorded one at a time, at some moment the set of samples   *)
(* is closed, and the one report that is printed counts and ranks exactly  *)
(* the samples of the closed set.  A run that returns has reported; a run  *)
(* may be cut short by a failure at any time before it returns.            *)
(***************************************************************************)
EXTENDS Integers, FiniteSets

CONSTANTS Sample,   \* records with at least the field "type"
          OpType

VARIABLES samples, phase, report

absVars == <<samples, phase, report>>

OfType(t) == {s \in samples : s.type = t}

Init == samples = {} /\ phase = "running" /\ report = {}

Record ==
  /\ phase = "running"
  /\ \E s \in Sample \ samples : samples' = samples \cup {s}
  /\ UNCHANGED <<phase, report>>

Close ==
  /\ phase = "running"
  /\ phase' = "closed"
  /\ UNCHANGED <<samples, report>>

Report ==
  /\ phase = "closed"
  /\ report = {}
  /\ report' = {[ops |-> [t \in OpType |-> Cardinality(OfType(t))],
                 latencies |-> [t \in OpType |-> OfType(t)]]}
  /\ UNCHANGED <<samples, phase>>

Return ==
  /\ phase = "closed" /\ report # {}
  /\ phase' = "returned"
  /\ UNCHANGED <<samples, report>>

Abort ==
  /\ phase \in {"running", "closed"}
  /\ phase' = "aborted"
  /\ UNCHANGED <<samples, report>>

Next == Record \/ Close \/ Report \/ Return \/ Abort

Spec == Init /\ [][Next]_absVars
=============================================================================
