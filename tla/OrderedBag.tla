----------------------------- MODULE OrderedBag -----------------------------
(***************************************************************************)
(* What an ordered collection with duplicates promises: insert adds one    *)
(* element, remove takes one away if there is any, and an iterator visits  *)
(* every element once, in order, also when the loop removes what it visits.*)
(***************************************************************************)
EXTENDS Integers, Sequences

CONSTANTS Value

VARIABLES elements,  \* in ascending order
          rest       \* what the iterator has not visited; <<>> if there is none

bagVars == <<elements, rest>>

Init == elements = <<>> /\ rest = <<>>

Between(i, j) == SubSeq(elements, i, j)

(* After the first k elements, which are those smaller than v.             *)
Insert(v) ==
  /\ \E k \in 0 .. Len(elements) :
       /\ \A i \in 1 .. Len(elements) : elements[i] < v <=> i <= k
       /\ elements' = Between(1, k) \o <<v>> \o Between(k + 1, Len(elements))
  /\ UNCHANGED rest

TakeOut(v) ==
  \E i \in 1 .. Len(elements) :
    /\ elements[i] = v
    /\ elements' = Between(1, i - 1) \o Between(i + 1, Len(elements))

Remove(v) ==
  /\ \/ TakeOut(v)
     \/ (\A i \in 1 .. Len(elements) : elements[i] # v) /\ UNCHANGED elements
  /\ UNCHANGED rest

Begin ==
  /\ rest' = elements
  /\ UNCHANGED elements

Visit ==
  /\ rest # <<>>
  /\ rest' = Tail(rest)
  /\ UNCHANGED elements \/ TakeOut(Head(rest))

Next ==
  \/ \E v \in Value : Insert(v) \/ Remove(v)
  \/ Begin \/ Visit

Spec == Init /\ [][Next]_bagVars
=============================================================================
