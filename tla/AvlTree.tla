------------------------------ MODULE AvlTree ------------------------------
(***************************************************************************)
(* avl_tree<T> (core/include/avl_tree.h): a balanced search tree with      *)
(* duplicates, subtree sizes for ranks, and an iterator that follows       *)
(* parent pointers.  A tree is the record of its root, its size and the    *)
(* fields of its nodes, as functions of the node; a call of the class is   *)
(* an operator from trees to trees.  The class is for one thread: each     *)
(* call is one action.  The program includes it and instantiates it        *)
(* nowhere, so the calls below are those its interface allows.             *)
(***************************************************************************)
EXTENDS Integers, Sequences, FiniteSetsExt

CONSTANTS Node,         \* the nodes there is memory for: bounds the tree
          Value,
          Percentiles,  \* pairs <<p, q>>, for get_percentile(p / q)
          Null          \* nullptr

ASSUME NodeAssumption  == IsFiniteSet(Node) /\ Null \notin Node \cup Value
ASSUME ValueAssumption == Value \subseteq Int
ASSUME PercentilesAssumption == \A f \in Percentiles : f[1] \in Int /\ f[2] \in Nat \ {0}

VARIABLES tree,
          cur_node, next_node  \* of the iterator; cur_node is Null if there is none

vars == <<tree, cur_node, next_node>>

EmptyTree ==
  LET no == [n \in Node |-> Null]
      zero == [n \in Node |-> 0]
  IN  [root |-> Null, size |-> 0, value |-> no, left |-> no, right |-> no,
       parent |-> no, height |-> zero, num_nodes |-> zero]

InTree(t) == {n \in Node : t.value[n] # Null}

-----------------------------------------------------------------------------
(* Heights, sizes and rotations.                                           *)

HeightOf(t, n) == IF n = Null THEN 0 ELSE t.height[n]
SizeOf(t, n)   == IF n = Null THEN 0 ELSE t.num_nodes[n]

UpdateMeta(t, n) ==
  [t EXCEPT !.height[n] = 1 + Max({HeightOf(t, t.left[n]), HeightOf(t, t.right[n])}),
            !.num_nodes[n] = 1 + SizeOf(t, t.left[n]) + SizeOf(t, t.right[n])]

BalanceFactor(t, n) == HeightOf(t, t.left[n]) - HeightOf(t, t.right[n])

SetParent(t, n, p) == IF n = Null THEN t ELSE [t EXCEPT !.parent[n] = p]

(* m takes the place of n below n's parent, or as the root.                *)
Replace(t, n, m) ==
  LET p == t.parent[n]
      u == CASE p = Null                      -> [t EXCEPT !.root = m]
             [] p # Null /\ n = t.left[p]     -> [t EXCEPT !.left[p] = m]
             [] p # Null /\ n # t.left[p]     -> [t EXCEPT !.right[p] = m]
  IN  SetParent(u, m, p)

Mut_RightRotate(t, n) ==
  LET l == t.left[n]
      u == SetParent([Replace(t, n, l) EXCEPT !.left[n] = t.right[l]], t.right[l], n)
  IN  UpdateMeta(UpdateMeta([u EXCEPT !.right[l] = n, !.parent[n] = l], l), n)

RightRotate(t, n) ==
  LET l == t.left[n]
      u == SetParent([Replace(t, n, l) EXCEPT !.left[n] = t.right[l]], t.right[l], n)
  IN  UpdateMeta(UpdateMeta([u EXCEPT !.right[l] = n, !.parent[n] = l], n), l)

LeftRotate(t, n) ==
  LET r == t.right[n]
      u == SetParent([Replace(t, n, r) EXCEPT !.right[n] = t.left[r]], t.left[r], n)
  IN  UpdateMeta(UpdateMeta([u EXCEPT !.left[r] = n, !.parent[n] = r], n), r)

Rotated(t, n) ==
  CASE BalanceFactor(t, n) < -1 ->
         IF BalanceFactor(t, t.right[n]) \in {-1, 0}
         THEN LeftRotate(t, n)
         ELSE LeftRotate(RightRotate(t, t.right[n]), n)
    [] BalanceFactor(t, n) > 1 ->
         IF BalanceFactor(t, t.left[n]) \in {0, 1}
         THEN RightRotate(t, n)
         ELSE RightRotate(LeftRotate(t, t.left[n]), n)
    [] OTHER -> t

(* From n up to the root; the parent is read before n is rotated away.  A  *)
(* tree has no more levels than there are nodes.                           *)
BalanceStep(t, n) ==
  IF n = Null THEN <<t, n>> ELSE <<Rotated(UpdateMeta(t, n), n), t.parent[n]>>

Balance(t, n) ==
  LET loop[i \in 0 .. Cardinality(Node)] ==
        IF i = 0 THEN <<t, n>> ELSE BalanceStep(loop[i - 1][1], loop[i - 1][2])
  IN  loop[Cardinality(Node)][1]

-----------------------------------------------------------------------------
(* insert and remove.                                                      *)

(* Where a loop that goes from node to node stops: next leaves it there.   *)
Chase(next, n) ==
  LET end[m \in DOMAIN next] == IF next[m] = m THEN m ELSE end[next[m]]
  IN  end[n]

LeftMost(t, n) ==
  Chase([m \in InTree(t) |-> IF t.left[m] = Null THEN m ELSE t.left[m]], n)
RightMost(t, n) ==
  Chase([m \in InTree(t) |-> IF t.right[m] = Null THEN m ELSE t.right[m]], n)

(* The node a new value is hung from: an equal one goes to the left.       *)
InsertionPoint(t, v) ==
  LET Child(m) == IF v > t.value[m] THEN t.right[m] ELSE t.left[m]
  IN  Chase([m \in InTree(t) |-> IF Child(m) = Null THEN m ELSE Child(m)], t.root)

Inserted(t, v, n) ==
  LET p == IF t.root = Null THEN Null ELSE InsertionPoint(t, v)
      u == [t EXCEPT !.value[n] = v, !.parent[n] = p, !.height[n] = 1,
                     !.num_nodes[n] = 1, !.size = @ + 1]
  IN  CASE p = Null                       -> [u EXCEPT !.root = n]
        [] p # Null /\ v > t.value[p]     -> Balance([u EXCEPT !.right[p] = n], p)
        [] p # Null /\ ~ (v > t.value[p]) -> Balance([u EXCEPT !.left[p] = n], p)

Find(t, v) ==
  Chase([m \in InTree(t) \cup {Null} |->
           IF m = Null \/ v = t.value[m] THEN m
           ELSE IF v < t.value[m] THEN t.left[m] ELSE t.right[m]], t.root)

(* The node that leaves the tree: with two children, the precedent, whose  *)
(* value stays.                                                            *)
Mut_Leaving(t, n) == IF Null \in {t.left[n], t.right[n]} THEN n ELSE t.left[n]
Leaving(t, n) ==
  IF Null \in {t.left[n], t.right[n]} THEN n ELSE RightMost(t, t.left[n])

Removed(t, v) ==
  LET target == Find(t, v)
      n == Leaving(t, target)
      child == IF t.left[n] # Null THEN t.left[n] ELSE t.right[n]
      swapped == [t EXCEPT !.value[target] = t.value[n], !.size = @ - 1]
      cut == Replace(swapped, n, child)
      \* n is freed; the class keeps no pointer to it
      freed == [cut EXCEPT !.value[n] = Null, !.left[n] = Null, !.right[n] = Null,
                           !.parent[n] = Null, !.height[n] = 0, !.num_nodes[n] = 0]
  IN  IF target = Null THEN t ELSE Balance(freed, t.parent[n])

-----------------------------------------------------------------------------
(* Queries.  Throws is what a call outside its range does.                 *)

Throws == Null

Mut_CountLessIn(t, v, with_equal) ==
  LET count[n \in InTree(t) \cup {Null}] ==
        IF n = Null THEN 0
        ELSE IF v = t.value[n] THEN SizeOf(t, t.left[n]) + (IF with_equal THEN 1 ELSE 0)
        ELSE IF v > t.value[n]
             THEN 1 + SizeOf(t, t.left[n]) + count[t.right[n]]
             ELSE count[t.left[n]]
  IN  count[t.root]

CountLessIn(t, v, with_equal) ==
  LET count[n \in InTree(t) \cup {Null}] ==
        IF n = Null THEN 0
        ELSE IF v > t.value[n] \/ (with_equal /\ v = t.value[n])
             THEN 1 + SizeOf(t, t.left[n]) + count[t.right[n]]
             ELSE count[t.left[n]]
  IN  count[t.root]

CountLess(v, with_equal)    == CountLessIn(tree, v, with_equal)
CountGreater(v, with_equal) == tree.size - CountLess(v, ~ with_equal)

MaxElement == IF tree.size = 0 THEN Throws ELSE tree.value[RightMost(tree, tree.root)]
MinElement == IF tree.size = 0 THEN Throws ELSE tree.value[LeftMost(tree, tree.root)]

(* Down to the node at the index, which is counted from the subtree that   *)
(* the loop has come to.                                                   *)
AtIn(t, index) ==
  LET Down(i, n) ==
        LET cur_index == SizeOf(t, t.left[n])
        IN  CASE i < cur_index -> <<i, t.left[n]>>
              [] i > cur_index -> <<i - (cur_index + 1), t.right[n]>>
              [] i = cur_index -> <<i, n>>
      next == [at \in Nat \X (InTree(t) \cup {Null}) |->
                 IF at[2] = Null THEN at ELSE Down(at[1], at[2])]
  IN  IF index < 0 \/ index >= t.size THEN Throws
      ELSE t.value[Chase(next, <<index, t.root>>)[2]]

At(index) == AtIn(tree, index)

(* The value at the exact index (n - 1) * p / q between two neighbours,    *)
(* times q.                                                                *)
Interpolate(ElementAt(_), n, p, q) ==
  LET left_index  == ((n - 1) * p) \div q
      part        == ((n - 1) * p) % q
      right_index == IF part = 0 THEN left_index ELSE left_index + 1
      left_value  == ElementAt(left_index)
  IN  q * left_value + part * (ElementAt(right_index) - left_value)

Percentile(p, q) ==
  IF tree.size = 0 \/ p < 0 \/ p > q THEN Throws ELSE Interpolate(At, tree.size, p, q)

(* OpMeasurement::get_latency_percentile, over a sorted vector.            *)
LatencyPercentile(vec, p, q) ==
  IF vec = <<>> THEN 0 ELSE Interpolate(LAMBDA i : vec[i + 1], Len(vec), p, q)

-----------------------------------------------------------------------------
(* The iterator.  next_node is found before the loop's body runs.          *)

Climb(t, n) ==
  LET IsRight(m) == t.parent[m] # Null /\ m = t.right[t.parent[m]]
      prev == Chase([m \in InTree(t) |-> IF IsRight(m) THEN t.parent[m] ELSE m], n)
  IN  t.parent[prev]

FindNext(t, n) ==
  CASE n = Null                         -> Null
    [] n # Null /\ t.right[n] # Null    -> LeftMost(t, t.right[n])
    [] n # Null /\ t.right[n] = Null    -> Climb(t, n)

NoDuplicates == \A m, n \in InTree(tree) : tree.value[m] = tree.value[n] => m = n

Init == tree = EmptyTree /\ cur_node = Null /\ next_node = Null

Insert(v) ==
  /\ cur_node = Null
  /\ \E n \in Node \ InTree(tree) : tree' = Inserted(tree, v, n)
  /\ UNCHANGED <<cur_node, next_node>>

Remove(v) ==
  /\ cur_node = Null
  /\ tree' = Removed(tree, v)
  /\ UNCHANGED <<cur_node, next_node>>

Begin ==
  /\ cur_node = Null
  /\ cur_node' = IF tree.root = Null THEN Null ELSE LeftMost(tree, tree.root)
  /\ next_node' = FindNext(tree, cur_node')
  /\ UNCHANGED tree

Visit ==
  /\ cur_node # Null
  /\ cur_node' = next_node
  /\ next_node' = FindNext(tree, next_node)
  /\ UNCHANGED tree

(* The loop's body removes the element the iterator is at.  Among equal    *)
(* elements remove may find another one, such as next_node.                *)
VisitAndRemove ==
  /\ cur_node # Null /\ NoDuplicates
  /\ tree' = Removed(tree, tree.value[cur_node])
  /\ cur_node' = next_node
  /\ next_node' = FindNext(tree', next_node)

Next ==
  \/ \E v \in Value : Insert(v) \/ Remove(v)
  \/ Begin \/ Visit \/ VisitAndRemove

Spec == Init /\ [][Next]_vars

-----------------------------------------------------------------------------
(* Properties.                                                             *)

ElementsOf(t) ==
  LET in_order[n \in InTree(t) \cup {Null}] ==
        IF n = Null THEN <<>>
        ELSE in_order[t.left[n]] \o <<t.value[n]>> \o in_order[t.right[n]]
  IN  in_order[t.root]

Elements == ElementsOf(tree)

(* What the iterator finds from start on.                                  *)
Walk(t, start) ==
  LET walk[n \in InTree(t) \cup {Null}] ==
        IF n = Null THEN <<>> ELSE <<t.value[n]>> \o walk[FindNext(t, n)]
  IN  walk[start]

(* After any calls, through every rotation, swap and splice: the pointers  *)
(* up and down agree, every node is balanced, and the heights and sizes    *)
(* the rotations and ranks rely on are those of the subtrees.              *)
WellFormed ==
  /\ tree.root # Null => tree.parent[tree.root] = Null
  /\ tree.size = Cardinality(InTree(tree)) /\ SizeOf(tree, tree.root) = tree.size
  /\ \A n \in InTree(tree) :
       /\ \A child \in {tree.left[n], tree.right[n]} \ {Null} : tree.parent[child] = n
       /\ BalanceFactor(tree, n) \in {-1, 0, 1}
       /\ tree = UpdateMeta(tree, n)

NrWhere(Test(_)) == Cardinality({i \in DOMAIN Elements : Test(Elements[i])})

(* Ranks, extremes, elements by index and percentiles, answered from the   *)
(* shape of the tree, are those of the sorted elements, and calls out of   *)
(* range throw.  A percentile never needs an index outside of the vector:  *)
(* it has its share of the elements on either side, and is the number      *)
(* get_latency_percentile computes.                                        *)
QueriesExact ==
  /\ \A v \in Value :
       /\ CountLess(v, FALSE) = NrWhere(LAMBDA x : x < v)
       /\ CountLess(v, TRUE) = NrWhere(LAMBDA x : x <= v)
       /\ CountGreater(v, FALSE) = NrWhere(LAMBDA x : x > v)
       /\ CountGreater(v, TRUE) = NrWhere(LAMBDA x : x >= v)
  /\ MinElement = At(0) /\ MaxElement = At(tree.size - 1)
  /\ \A i \in -1 .. tree.size :
       At(i) = IF i + 1 \in DOMAIN Elements THEN Elements[i + 1] ELSE Throws
  /\ \A f \in Percentiles :
       LET p == f[1]  q == f[2]  x == Percentile(p, q)
       IN  IF tree.size = 0 \/ p < 0 \/ p > q THEN x = Throws
           ELSE /\ x = LatencyPercentile(Elements, p, q)
                /\ NrWhere(LAMBDA y : q * y <= x) * q > (tree.size - 1) * p
                /\ NrWhere(LAMBDA y : q * y >= x) * q > (tree.size - 1) * (q - p)

(* The tree is the ordered bag, and the iterator has before it exactly     *)
(* the elements it has not visited, in order, whatever the rotations that  *)
(* removing the visited ones sets off.                                     *)
Bag == INSTANCE OrderedBag WITH
  elements <- Elements,
  rest     <- IF cur_node = Null THEN <<>>
              ELSE <<tree.value[cur_node]>> \o Walk(tree, next_node)

ImplementsBag == Bag!Spec
=============================================================================
