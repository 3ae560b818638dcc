--------------------------- MODULE AvlTreeProofs ---------------------------
(***************************************************************************)
(* Proofs about AvlTree.  A tree of the class is Linked: its pointers up   *)
(* and down agree.  A call breaks the metadata of one node, the defect,    *)
(* and balance moves the defect up until there is none.  The nodes of a    *)
(* Linked tree stand in a row, and the row stays in order (second part).   *)
(***************************************************************************)
EXTENDS AvlTree, FiniteSetTheorems, NaturalsInduction, WellFoundedInduction,
        SequenceTheorems, TLAPS

Slot == Node \cup {Null}

Tree == [root : Slot, size : Int, value : [Node -> Value \cup {Null}],
         left : [Node -> Slot], right : [Node -> Slot], parent : [Node -> Slot],
         height : [Node -> Nat], num_nodes : [Node -> Nat]]

Higher(a, b) == IF a >= b THEN a ELSE b

-----------------------------------------------------------------------------
(* The operators a step is made of, field by field.                        *)

(* The maximum of two heights.                                             *)
LEMMA MaxOfTwo ==
  ASSUME NEW a \in Int, NEW b \in Int
  PROVE  Max({a, b}) = Higher(a, b)
<1>. DEFINE P(x) == x \in {a, b} /\ \A y \in {a, b} : x >= y
<1>1. P(Higher(a, b)) /\ \A x : P(x) => x = Higher(a, b)
  BY DEF Higher
<1>. HIDE DEF P
<1>2. (CHOOSE x : P(x)) = Higher(a, b)
  BY <1>1
<1>3. Max({a, b}) = CHOOSE x : P(x)
  BY DEF Max, P
<1> QED BY <1>2, <1>3

(* Heights and sizes are naturals, those of nullptr too.                    *)
LEMMA MeasuresType ==
  ASSUME NEW t \in Tree, NEW m \in Slot
  PROVE  HeightOf(t, m) \in Nat /\ SizeOf(t, m) \in Nat
<1>1. t.height \in [Node -> Nat] /\ t.num_nodes \in [Node -> Nat]
  BY DEF Tree
<1>2. m # Null => m \in Node
  BY DEF Slot
<1>3. m # Null => t.height[m] \in Nat /\ t.num_nodes[m] \in Nat
  BY <1>1, <1>2
<1> QED BY <1>3 DEF HeightOf, SizeOf

(* update_meta writes the height and the size of its node only.            *)
Measured(t, u, n) ==
  /\ u \in Tree
  /\ u.root = t.root /\ u.size = t.size /\ u.value = t.value
  /\ u.left = t.left /\ u.right = t.right /\ u.parent = t.parent
  /\ u.height = [t.height EXCEPT ![n] =
                    1 + Higher(HeightOf(t, t.left[n]), HeightOf(t, t.right[n]))]
  /\ u.num_nodes = [t.num_nodes EXCEPT ![n] =
                       1 + SizeOf(t, t.left[n]) + SizeOf(t, t.right[n])]

(* update_meta writes the height and the size of its node, and nothing     *)
(* else of the tree.                                                       *)
LEMMA UpdateMetaFields ==
  ASSUME NEW t \in Tree, NEW n \in Node
  PROVE  UpdateMeta(t, n) \in Tree /\ Measured(t, UpdateMeta(t, n), n)
<1>1. PICK hl, hr, sl, sr \in Nat :
         /\ hl = HeightOf(t, t.left[n]) /\ hr = HeightOf(t, t.right[n])
         /\ sl = SizeOf(t, t.left[n]) /\ sr = SizeOf(t, t.right[n])
  <2>1. t.left[n] \in Slot /\ t.right[n] \in Slot
    BY DEF Tree
  <2> QED BY <2>1, MeasuresType
<1>2. Max({hl, hr}) = Higher(hl, hr)
  BY MaxOfTwo
<1>3. PICK h, k \in Nat : h = 1 + Higher(hl, hr) /\ k = 1 + sl + sr
  BY DEF Higher
<1>4. PICK u : u = [t EXCEPT !.height[n] = h, !.num_nodes[n] = k]
  OBVIOUS
<1>5. /\ u \in Tree
      /\ u.root = t.root /\ u.size = t.size /\ u.value = t.value
      /\ u.left = t.left /\ u.right = t.right /\ u.parent = t.parent
      /\ u.height = [t.height EXCEPT ![n] = h]
      /\ u.num_nodes = [t.num_nodes EXCEPT ![n] = k]
  BY <1>4 DEF Tree
<1>6. UpdateMeta(t, n) = u
  BY <1>1, <1>2, <1>3, <1>4, Zenon DEF UpdateMeta
<1> QED BY <1>1, <1>3, <1>5, <1>6, Zenon DEF Measured

(* Replace writes one child pointer, or the root, and one parent pointer.  *)
Replaced(t, u, n, m, p) ==
  /\ u \in Tree
  /\ u.size = t.size /\ u.value = t.value
  /\ u.height = t.height /\ u.num_nodes = t.num_nodes
  /\ u.root = (IF p = Null THEN m ELSE t.root)
  /\ u.left = (IF p # Null /\ n = t.left[p] THEN [t.left EXCEPT ![p] = m] ELSE t.left)
  /\ u.right = (IF p # Null /\ n # t.left[p] THEN [t.right EXCEPT ![p] = m] ELSE t.right)
  /\ u.parent = (IF m = Null THEN t.parent ELSE [t.parent EXCEPT ![m] = p])

(* replace writes the one child pointer of the parent, or the root, and    *)
(* the parent of the node put there.                                       *)
LEMMA ReplaceFields ==
  ASSUME NEW t \in Tree, NEW n \in Node, NEW m \in Slot, NEW p, p = t.parent[n]
  PROVE  Replace(t, n, m) \in Tree /\ Replaced(t, Replace(t, n, m), n, m, p)
<1>1. p \in Slot /\ Null \notin Node
  BY NodeAssumption DEF Tree
<1>v. PICK v : v = IF p = Null THEN [t EXCEPT !.root = m]
                   ELSE IF n = t.left[p] THEN [t EXCEPT !.left[p] = m]
                   ELSE [t EXCEPT !.right[p] = m]
  OBVIOUS
<1>2. /\ v \in Tree
      /\ v.size = t.size /\ v.value = t.value /\ v.parent = t.parent
      /\ v.height = t.height /\ v.num_nodes = t.num_nodes
      /\ v.root = (IF p = Null THEN m ELSE t.root)
      /\ v.left = (IF p # Null /\ n = t.left[p] THEN [t.left EXCEPT ![p] = m] ELSE t.left)
      /\ v.right = (IF p # Null /\ n # t.left[p] THEN [t.right EXCEPT ![p] = m] ELSE t.right)
  <2>1. CASE p = Null
    <3>1. v = [t EXCEPT !.root = m]
      BY <1>v, <2>1
    <3> QED BY <2>1, <3>1 DEF Tree
  <2>2. CASE p # Null /\ n = t.left[p]
    <3>1. v = [t EXCEPT !.left[p] = m] /\ p \in Node
      BY <1>v, <1>1, <2>2 DEF Slot
    <3> QED BY <2>2, <3>1 DEF Tree
  <2>3. CASE p # Null /\ n # t.left[p]
    <3>1. v = [t EXCEPT !.right[p] = m] /\ p \in Node
      BY <1>v, <1>1, <2>3 DEF Slot
    <3> QED BY <2>3, <3>1 DEF Tree
  <2> QED BY <2>1, <2>2, <2>3
<1>3. Replace(t, n, m) = SetParent(v, m, p)
  BY <1>v DEF Replace
<1>4. CASE m = Null
  BY <1>2, <1>3, <1>4 DEF SetParent, Replaced
<1>5. CASE m # Null
  <2>1. PICK u : u = [v EXCEPT !.parent[m] = p]
    OBVIOUS
  <2>2. /\ u \in Tree /\ u.size = v.size /\ u.value = v.value /\ u.root = v.root
        /\ u.height = v.height /\ u.num_nodes = v.num_nodes
        /\ u.left = v.left /\ u.right = v.right
        /\ u.parent = [v.parent EXCEPT ![m] = p]
    <3>1. v \in Tree /\ m \in Node /\ p \in Slot
      BY <1>1, <1>2, <1>5 DEF Slot
    <3> QED BY <2>1, <3>1 DEF Tree
  <2>3. Replace(t, n, m) = u
    BY <1>3, <1>5, <2>1 DEF SetParent
  <2> QED BY <1>2, <1>5, <2>2, <2>3 DEF Replaced
<1> QED BY <1>4, <1>5

(* A node that may be rotated to the right: its neighbours are distinct.   *)
RotatesRight(t, n, l, c, p) ==
  /\ n \in Node /\ l \in Node /\ c \in Slot /\ p \in Slot
  /\ l = t.left[n] /\ c = t.right[l] /\ p = t.parent[n]
  /\ n \notin {l, c, p} /\ l \notin {c, p} /\ t.left[l] # n
  /\ c # Null => c # p

(* right_rotate turns the edges from p to n, n to l and l to c into those  *)
(* from p to l, l to n and n to c, and measures n and then l.              *)
RotatedRight(t, u, n, l, c, p) ==
  /\ u \in Tree /\ u.size = t.size /\ u.value = t.value
  /\ u.root = (IF p = Null THEN l ELSE t.root)
  /\ u.left[n] = c /\ u.right[n] = t.right[n]
  /\ u.left[l] = t.left[l] /\ u.right[l] = n
  /\ p # Null /\ n = t.left[p] => u.left[p] = l /\ u.right[p] = t.right[p]
  /\ p # Null /\ n # t.left[p] => u.left[p] = t.left[p] /\ u.right[p] = l
  /\ \A x \in Node \ {n, l, p} : u.left[x] = t.left[x] /\ u.right[x] = t.right[x]
  /\ u.parent[l] = p /\ u.parent[n] = l
  /\ c # Null => u.parent[c] = n
  /\ \A x \in Node \ {n, l, c} : u.parent[x] = t.parent[x]
  /\ \A x \in Node \ {n, l} : u.height[x] = t.height[x] /\ u.num_nodes[x] = t.num_nodes[x]
  /\ u.height[n] = 1 + Higher(HeightOf(t, c), HeightOf(t, t.right[n]))
  /\ u.height[l] = 1 + Higher(HeightOf(t, t.left[l]), u.height[n])
  /\ u.num_nodes[n] = 1 + SizeOf(t, c) + SizeOf(t, t.right[n])
  /\ u.num_nodes[l] = 1 + SizeOf(t, t.left[l]) + u.num_nodes[n]

(* right_rotate writes three child pointers, three parent pointers and the *)
(* measures of the two nodes that change places.                           *)
LEMMA RightRotateFields ==
  ASSUME NEW t \in Tree, NEW n, NEW l, NEW c, NEW p, RotatesRight(t, n, l, c, p)
  PROVE  RotatedRight(t, RightRotate(t, n), n, l, c, p)
<1>. Null \notin Node
  BY NodeAssumption
<1>1. /\ n \in Node /\ l \in Node /\ c \in Slot /\ p \in Slot
      /\ l = t.left[n] /\ c = t.right[l] /\ p = t.parent[n]
      /\ n \notin {l, c, p} /\ l \notin {c, p} /\ t.left[l] # n
      /\ c # Null => c # p
  BY DEF RotatesRight
<1>a. l \in Slot /\ l # Null /\ n \in Slot
  BY <1>1 DEF Slot
<1>b. PICK u0 : u0 = Replace(t, n, l)
  OBVIOUS
<1>2. /\ u0 \in Tree
      /\ u0.size = t.size /\ u0.value = t.value
      /\ u0.height = t.height /\ u0.num_nodes = t.num_nodes
      /\ u0.root = (IF p = Null THEN l ELSE t.root)
      /\ u0.left = (IF p # Null /\ n = t.left[p]
                   THEN [t.left EXCEPT ![p] = l] ELSE t.left)
      /\ u0.right = (IF p # Null /\ n # t.left[p]
                    THEN [t.right EXCEPT ![p] = l] ELSE t.right)
      /\ u0.parent = [t.parent EXCEPT ![l] = p]
  <2>1. Replaced(t, u0, n, l, p)
    BY <1>1, <1>a, <1>b, ReplaceFields
  <2> QED BY <2>1, <1>a DEF Replaced
<1>c. PICK u1 : u1 = [u0 EXCEPT !.left[n] = c]
  OBVIOUS
<1>3. /\ u1 \in Tree
      /\ u1.size = u0.size /\ u1.value = u0.value /\ u1.root = u0.root
      /\ u1.height = u0.height /\ u1.num_nodes = u0.num_nodes
      /\ u1.left = [u0.left EXCEPT ![n] = c]
      /\ u1.right = u0.right /\ u1.parent = u0.parent
  <2>1. u0 \in Tree /\ n \in Node /\ c \in Slot
    BY <1>1, <1>2
  <2> QED BY <1>c, <2>1 DEF Tree
<1>d. PICK u2 : u2 = SetParent(u1, c, n)
  OBVIOUS
<1>4. /\ u2 \in Tree
      /\ u2.size = u1.size /\ u2.value = u1.value /\ u2.root = u1.root
      /\ u2.height = u1.height /\ u2.num_nodes = u1.num_nodes
      /\ u2.left = u1.left /\ u2.right = u1.right
      /\ u2.parent = (IF c = Null THEN u1.parent ELSE [u1.parent EXCEPT ![c] = n])
  <2>1. u1 \in Tree /\ n \in Slot /\ c \in Slot
    BY <1>1, <1>3, <1>a
  <2>2. CASE c = Null
    BY <1>d, <2>1, <2>2 DEF SetParent
  <2>3. CASE c # Null
    <3>1. c \in Node /\ u2 = [u1 EXCEPT !.parent[c] = n]
      BY <1>d, <2>1, <2>3 DEF SetParent, Slot
    <3> QED BY <3>1, <2>1, <2>3 DEF Tree
  <2> QED BY <2>2, <2>3
<1>e. PICK u3 : u3 = [u2 EXCEPT !.right[l] = n, !.parent[n] = l]
  OBVIOUS
<1>5. /\ u3 \in Tree
      /\ u3.size = u2.size /\ u3.value = u2.value /\ u3.root = u2.root
      /\ u3.height = u2.height /\ u3.num_nodes = u2.num_nodes
      /\ u3.left = u2.left /\ u3.right = [u2.right EXCEPT ![l] = n]
      /\ u3.parent = [u2.parent EXCEPT ![n] = l]
  <2>1. u2 \in Tree /\ n \in Node /\ l \in Node /\ n \in Slot /\ l \in Slot
    BY <1>1, <1>4, <1>a
  <2> QED BY <1>e, <2>1 DEF Tree
<1>6. PICK u4 \in Tree : u4 = UpdateMeta(u3, n) /\ Measured(u3, u4, n)
  BY <1>1, <1>5, UpdateMetaFields
<1>7. PICK u \in Tree : u = UpdateMeta(u4, l) /\ Measured(u4, u, l)
  BY <1>1, UpdateMetaFields
<1>8. RightRotate(t, n) = u
  BY <1>1, <1>b, <1>c, <1>d, <1>e, <1>6, <1>7, Zenon DEF RightRotate
<1>9. /\ t.left \in [Node -> Slot] /\ t.right \in [Node -> Slot]
      /\ t.parent \in [Node -> Slot]
      /\ t.height \in [Node -> Nat] /\ t.num_nodes \in [Node -> Nat]
  BY DEF Tree
<1>10. /\ u3.left[n] = c /\ u3.right[n] = t.right[n]
       /\ u3.left[l] = t.left[l] /\ u3.right[l] = n
       /\ p # Null /\ n = t.left[p] => u3.left[p] = l /\ u3.right[p] = t.right[p]
       /\ p # Null /\ n # t.left[p] => u3.left[p] = t.left[p] /\ u3.right[p] = l
       /\ \A x \in Node \ {n, l, p} :
             u3.left[x] = t.left[x] /\ u3.right[x] = t.right[x]
       /\ u3.height = t.height /\ u3.num_nodes = t.num_nodes
       /\ u3.size = t.size /\ u3.value = t.value
       /\ u3.root = (IF p = Null THEN l ELSE t.root)
  <2>1. /\ u3.left = [u0.left EXCEPT ![n] = c] /\ u3.right = [u0.right EXCEPT ![l] = n]
        /\ u3.height = t.height /\ u3.num_nodes = t.num_nodes
        /\ u3.size = t.size /\ u3.value = t.value
        /\ u3.root = (IF p = Null THEN l ELSE t.root)
    BY <1>2, <1>3, <1>4, <1>5
  <2>2. p # Null => p \in Node
    BY <1>1 DEF Slot
  <2>3. /\ u0.left \in [Node -> Slot] /\ u0.right \in [Node -> Slot]
        /\ p # Null /\ n = t.left[p] => u0.left[p] = l /\ u0.right[p] = t.right[p]
        /\ p # Null /\ n # t.left[p] => u0.left[p] = t.left[p] /\ u0.right[p] = l
        /\ \A x \in Node \ {p} : u0.left[x] = t.left[x] /\ u0.right[x] = t.right[x]
    BY <1>1, <1>2, <1>9, <2>2 DEF Tree
  <2>4. /\ u3.left[n] = c /\ \A x \in Node \ {n} : u3.left[x] = u0.left[x]
        /\ u3.right[l] = n /\ \A x \in Node \ {l} : u3.right[x] = u0.right[x]
    BY <1>1, <2>1, <2>3
  <2>5. n # p /\ l # p /\ n # l
    BY <1>1
  <2>6. /\ u3.right[n] = t.right[n] /\ u3.left[l] = t.left[l]
        /\ \A x \in Node \ {n, l, p} : u3.left[x] = t.left[x] /\ u3.right[x] = t.right[x]
    BY <1>1, <2>3, <2>4, <2>5
  <2>7. /\ p # Null /\ n = t.left[p] => u3.left[p] = l /\ u3.right[p] = t.right[p]
        /\ p # Null /\ n # t.left[p] => u3.left[p] = t.left[p] /\ u3.right[p] = l
    BY <2>2, <2>3, <2>4, <2>5
  <2> QED BY <2>1, <2>4, <2>6, <2>7
<1>11. /\ u3.parent[l] = p /\ u3.parent[n] = l
       /\ c # Null => u3.parent[c] = n
       /\ \A x \in Node \ {n, l, c} : u3.parent[x] = t.parent[x]
  <2>1. /\ u0.parent = [t.parent EXCEPT ![l] = p]
        /\ u2.parent = (IF c = Null THEN u0.parent ELSE [u0.parent EXCEPT ![c] = n])
        /\ u3.parent = [u2.parent EXCEPT ![n] = l]
    BY <1>2, <1>3, <1>4, <1>5
  <2>2. /\ u0.parent \in [Node -> Slot] /\ u0.parent[l] = p
        /\ \A x \in Node \ {l} : u0.parent[x] = t.parent[x]
    BY <1>1, <1>2, <1>9, <2>1 DEF Tree
  <2>3. (c # Null => c \in Node) /\ c # l /\ c # n /\ l # n
    BY <1>1 DEF Slot
  <2>4. /\ u2.parent \in [Node -> Slot] /\ (c # Null => u2.parent[c] = n)
        /\ \A x \in Node \ {c} : u2.parent[x] = u0.parent[x]
    <3>1. u2.parent \in [Node -> Slot]
      BY <1>4 DEF Tree
    <3>2. CASE c = Null
      BY <2>1, <3>1, <3>2
    <3>3. CASE c # Null
      <4>1. c \in Node /\ u2.parent = [u0.parent EXCEPT ![c] = n]
        BY <2>1, <2>3, <3>3
      <4> QED BY <2>2, <3>1, <4>1
    <3> QED BY <3>2, <3>3
  <2>5. /\ u3.parent[n] = l /\ \A x \in Node \ {n} : u3.parent[x] = u2.parent[x]
    BY <1>1, <2>1, <2>4
  <2> QED BY <1>1, <2>2, <2>3, <2>4, <2>5
<1>12. /\ u4.root = u3.root /\ u4.size = u3.size /\ u4.value = u3.value
       /\ u4.left = u3.left /\ u4.right = u3.right /\ u4.parent = u3.parent
       /\ u4.height = [t.height EXCEPT ![n] =
                         1 + Higher(HeightOf(t, c), HeightOf(t, t.right[n]))]
       /\ u4.num_nodes = [t.num_nodes EXCEPT ![n] =
                            1 + SizeOf(t, c) + SizeOf(t, t.right[n])]
  <2>1. /\ HeightOf(u3, c) = HeightOf(t, c) /\ SizeOf(u3, c) = SizeOf(t, c)
        /\ HeightOf(u3, t.right[n]) = HeightOf(t, t.right[n])
        /\ SizeOf(u3, t.right[n]) = SizeOf(t, t.right[n])
    BY <1>10 DEF HeightOf, SizeOf
  <2>2. /\ u4.root = u3.root /\ u4.size = u3.size /\ u4.value = u3.value
        /\ u4.left = u3.left /\ u4.right = u3.right /\ u4.parent = u3.parent
        /\ u4.height = [u3.height EXCEPT ![n] =
                          1 + Higher(HeightOf(u3, u3.left[n]), HeightOf(u3, u3.right[n]))]
        /\ u4.num_nodes = [u3.num_nodes EXCEPT ![n] =
                             1 + SizeOf(u3, u3.left[n]) + SizeOf(u3, u3.right[n])]
    BY <1>6 DEF Measured
  <2> QED BY <1>10, <2>1, <2>2
<1>13. /\ u.root = u4.root /\ u.size = u4.size /\ u.value = u4.value
       /\ u.left = u4.left /\ u.right = u4.right /\ u.parent = u4.parent
       /\ u.height = [u4.height EXCEPT ![l] = 1 + Higher(HeightOf(t, t.left[l]), u4.height[n])]
       /\ u.num_nodes = [u4.num_nodes EXCEPT ![l] =
                           1 + SizeOf(t, t.left[l]) + u4.num_nodes[n]]
  <2>1. u4.left[l] = t.left[l] /\ u4.right[l] = n /\ t.left[l] \in Slot
    BY <1>1, <1>9, <1>10, <1>12
  <2>2. /\ HeightOf(u4, t.left[l]) = HeightOf(t, t.left[l])
        /\ SizeOf(u4, t.left[l]) = SizeOf(t, t.left[l])
    BY <1>1, <1>9, <1>12, <2>1 DEF HeightOf, SizeOf, Slot
  <2>3. HeightOf(u4, n) = u4.height[n] /\ SizeOf(u4, n) = u4.num_nodes[n]
    BY <1>1 DEF HeightOf, SizeOf
  <2>4. /\ u.root = u4.root /\ u.size = u4.size /\ u.value = u4.value
        /\ u.left = u4.left /\ u.right = u4.right /\ u.parent = u4.parent
        /\ u.height = [u4.height EXCEPT ![l] =
                         1 + Higher(HeightOf(u4, u4.left[l]), HeightOf(u4, u4.right[l]))]
        /\ u.num_nodes = [u4.num_nodes EXCEPT ![l] =
                            1 + SizeOf(u4, u4.left[l]) + SizeOf(u4, u4.right[l])]
    BY <1>7 DEF Measured
  <2> QED BY <2>1, <2>2, <2>3, <2>4
<1>14. /\ \A x \in Node \ {n, l} :
             u.height[x] = t.height[x] /\ u.num_nodes[x] = t.num_nodes[x]
       /\ u.height[n] = 1 + Higher(HeightOf(t, c), HeightOf(t, t.right[n]))
       /\ u.height[l] = 1 + Higher(HeightOf(t, t.left[l]), u.height[n])
       /\ u.num_nodes[n] = 1 + SizeOf(t, c) + SizeOf(t, t.right[n])
       /\ u.num_nodes[l] = 1 + SizeOf(t, t.left[l]) + u.num_nodes[n]
  <2>1. u4.height \in [Node -> Nat] /\ u4.num_nodes \in [Node -> Nat]
    BY DEF Tree
  <2> QED BY <1>1, <1>9, <1>12, <1>13, <2>1, SMTT(60)
<1> QED BY <1>8, <1>10, <1>11, <1>12, <1>13, <1>14 DEF RotatedRight

-----------------------------------------------------------------------------
(* The shape of a tree.                                                    *)

(* The pointers of one node and of its neighbours agree.                   *)
LinkedAt(t, m) ==
  /\ t.left[m] \in InTree(t) \cup {Null} /\ t.right[m] \in InTree(t) \cup {Null}
  /\ t.left[m] # m /\ t.right[m] # m
  /\ t.left[m] # Null => t.left[m] # t.right[m] /\ t.parent[t.left[m]] = m
  /\ t.right[m] # Null => t.parent[t.right[m]] = m
  /\ m # t.root => /\ t.parent[m] \in InTree(t)
                   /\ m \in {t.left[t.parent[m]], t.right[t.parent[m]]}

Linked(t) ==
  /\ t.root \in InTree(t) \cup {Null}
  /\ t.root # Null => t.parent[t.root] = Null
  /\ \A m \in InTree(t) : LinkedAt(t, m)
  /\ \A m \in Node \ InTree(t) : t.left[m] = Null /\ t.right[m] = Null

(* A rotation keeps the pointers of every node in agreement.               *)
LEMMA RightRotateLinked ==
  ASSUME NEW t \in Tree, NEW u, NEW n, NEW l, NEW c, NEW p, Linked(t),
         n \in InTree(t), RotatesRight(t, n, l, c, p), RotatedRight(t, u, n, l, c, p)
  PROVE  InTree(u) = InTree(t) /\ Linked(u)
<1>. Null \notin Node
  BY NodeAssumption
<1>1. InTree(u) = InTree(t) /\ InTree(t) \subseteq Node
  BY DEF RotatedRight, InTree
<1>. DEFINE In == InTree(t)
<1>2. /\ n \in Node /\ l \in Node /\ c \in Slot /\ p \in Slot
      /\ l = t.left[n] /\ c = t.right[l] /\ p = t.parent[n]
      /\ n # l /\ n # c /\ n # p /\ l # c /\ l # p /\ t.left[l] # n
      /\ c # Null => c # p
  BY DEF RotatesRight
<1>3. /\ u.root = (IF p = Null THEN l ELSE t.root)
      /\ u.left[n] = c /\ u.right[n] = t.right[n]
      /\ u.left[l] = t.left[l] /\ u.right[l] = n
      /\ p # Null /\ n = t.left[p] => u.left[p] = l /\ u.right[p] = t.right[p]
      /\ p # Null /\ n # t.left[p] => u.left[p] = t.left[p] /\ u.right[p] = l
      /\ \A x \in Node \ {n, l, p} : u.left[x] = t.left[x] /\ u.right[x] = t.right[x]
      /\ u.parent[l] = p /\ u.parent[n] = l
      /\ c # Null => u.parent[c] = n
      /\ \A x \in Node \ {n, l, c} : u.parent[x] = t.parent[x]
  BY DEF RotatedRight
<1>4. /\ t.root \in In \cup {Null}
      /\ t.root # Null => t.parent[t.root] = Null
      /\ \A m \in In :
           /\ t.left[m] \in In \cup {Null} /\ t.right[m] \in In \cup {Null}
           /\ t.left[m] # m /\ t.right[m] # m
           /\ t.left[m] # Null => t.left[m] # t.right[m] /\ t.parent[t.left[m]] = m
           /\ t.right[m] # Null => t.parent[t.right[m]] = m
           /\ m # t.root => /\ t.parent[m] \in In
                            /\ m \in {t.left[t.parent[m]], t.right[t.parent[m]]}
      /\ \A m \in Node \ In : t.left[m] = Null /\ t.right[m] = Null
  BY DEF Linked, LinkedAt
<1>. HIDE DEF In
<1>5. n \in In /\ l \in In /\ c \in In \cup {Null} /\ p \in In \cup {Null}
  BY <1>2, <1>4 DEF In
<1>6. /\ p = Null <=> n = t.root
      /\ p # Null => n = t.left[p] \/ (n # t.left[p] /\ n = t.right[p])
  BY <1>1, <1>2, <1>4, <1>5, SMTT(30) DEF In
<1>7. u.root \in In \cup {Null} /\ (u.root # Null => u.parent[u.root] = Null)
  BY <1>1, <1>2, <1>3, <1>4, <1>5, <1>6, SMTT(60) DEF In
<1>8. \A x \in Node \ In : u.left[x] = Null /\ u.right[x] = Null
  BY <1>1, <1>3, <1>4, <1>5 DEF In
<1>9. ASSUME NEW m \in In PROVE LinkedAt(u, m)
  <2>. m \in Node
    BY <1>1 DEF In
  <2>1. /\ u.left[m] \in In \cup {Null} /\ u.right[m] \in In \cup {Null}
        /\ u.left[m] # m /\ u.right[m] # m
        /\ u.left[m] # Null => u.left[m] # u.right[m] /\ u.parent[u.left[m]] = m
        /\ u.right[m] # Null => u.parent[u.right[m]] = m
    <3>1. CASE m = n
      <4>1. l = t.left[n] /\ l # Null /\ t.left[n] # t.right[n] /\ l # t.right[n]
        BY <1>2, <1>4, <1>5
      <4>2. t.right[n] # Null => t.right[n] \in Node \ {n, l, c}
        BY <1>1, <1>2, <1>4, <1>5, <4>1 DEF In
      <4> QED BY <1>2, <1>3, <1>4, <1>5, <3>1, <4>1, <4>2, SMTT(60)
    <3>2. CASE m = l
      <4>1. t.left[l] # Null => t.left[l] \in Node \ {n, l, c}
        BY <1>1, <1>2, <1>4, <1>5 DEF In
      <4> QED BY <1>2, <1>3, <1>4, <1>5, <3>2, <4>1, SMTT(60)
    <3>3. CASE m = p
      <4>1. CASE n = t.left[p]
        <5>1. n # Null /\ p \in In /\ p # Null /\ t.right[p] # n
          BY <1>2, <1>4, <3>3, <4>1, ZenonT(60)
        <5>2. t.right[p] # Null => t.right[p] \in Node \ {n, l, c}
          BY <1>1, <1>2, <1>4, <1>5, <5>1, SMTT(30) DEF In
        <5>3. u.left[p] = l /\ u.right[p] = t.right[p]
          BY <1>3, <4>1, <5>1
        <5> QED BY <1>2, <1>3, <1>4, <1>5, <3>3, <5>1, <5>2, <5>3, SMTT(60)
      <4>2. CASE n # t.left[p]
        <5>1. t.left[p] # Null => t.left[p] \in Node \ {n, l, c}
          BY <1>1, <1>2, <1>4, <1>5, <3>3, <4>2, SMTT(30) DEF In
        <5>2. t.right[p] = n
          BY <1>6, <3>3, <4>2
        <5> QED BY <1>2, <1>3, <1>4, <1>5, <3>3, <4>2, <5>1, <5>2, SMTT(60)
      <4> QED BY <4>1, <4>2
    <3>4. CASE m \notin {n, l, p}
      <4>1. /\ t.left[m] # Null => t.left[m] \in Node \ {n, l, c}
            /\ t.right[m] # Null => t.right[m] \in Node \ {n, l, c}
        BY <1>1, <1>2, <1>4, <1>5, <3>4 DEF In
      <4> QED BY <1>3, <1>4, <3>4, <4>1
    <3> QED BY <3>1, <3>2, <3>3, <3>4
  <2>2. ASSUME m # u.root
        PROVE  /\ u.parent[m] \in In
               /\ m \in {u.left[u.parent[m]], u.right[u.parent[m]]}
    <3>1. CASE m = n
      BY <1>2, <1>3, <1>5, <3>1
    <3>2. CASE m = l
      BY <1>2, <1>3, <1>5, <1>6, <2>2, <3>2
    <3>3. CASE m = c
      BY <1>2, <1>3, <1>5, <3>3
    <3>4. CASE m \notin {n, l, c}
      <4>1. m # t.root
        BY <1>3, <1>6, <2>2, <3>4
      <4>2. PICK q \in In : q = t.parent[m] /\ q = u.parent[m] /\ m \in {t.left[q], t.right[q]}
        BY <1>3, <1>4, <3>4, <4>1
      <4>3. q \in Node
        BY <1>1 DEF In
      <4>4. m \in {u.left[q], u.right[q]}
        <5>1. CASE q = n
          BY <1>2, <1>3, <3>4, <4>2, <5>1
        <5>2. CASE q = l
          BY <1>2, <1>3, <3>4, <4>2, <5>2
        <5>3. CASE q = p
          <6>1. p # Null /\ m # n /\ m \in {t.left[p], t.right[p]}
            BY <1>5, <3>4, <4>2, <4>3, <5>3
          <6>2. CASE n = t.left[p]
            BY <1>3, <5>3, <6>1, <6>2
          <6>3. CASE n # t.left[p]
            BY <1>3, <1>6, <5>3, <6>1, <6>3
          <6> QED BY <6>2, <6>3
        <5>4. CASE q \notin {n, l, p}
          BY <1>3, <4>2, <4>3, <5>4
        <5> QED BY <5>1, <5>2, <5>3, <5>4
      <4> QED BY <4>2, <4>4
    <3> QED BY <3>1, <3>2, <3>3, <3>4
  <2> QED BY <1>1, <2>1, <2>2 DEF LinkedAt, In
<1> QED BY <1>1, <1>7, <1>8, <1>9 DEF Linked, In

-----------------------------------------------------------------------------
(* left_rotate is right_rotate seen in a mirror.                           *)

Mirror(t) == [t EXCEPT !.left = t.right, !.right = t.left]

(* Two trees with the same fields are the same.                            *)
LEMMA SameFields ==
  ASSUME NEW t \in Tree, NEW u \in Tree,
         t.root = u.root, t.size = u.size, t.value = u.value, t.left = u.left,
         t.right = u.right, t.parent = u.parent, t.height = u.height,
         t.num_nodes = u.num_nodes
  PROVE  t = u
BY DEF Tree

(* The mirror exchanges left and right and nothing else.                   *)
LEMMA MirrorFields ==
  ASSUME NEW t \in Tree
  PROVE  LET s == Mirror(t)
         IN  /\ s \in Tree
             /\ s.left = t.right /\ s.right = t.left /\ s.parent = t.parent
             /\ s.root = t.root /\ s.size = t.size /\ s.value = t.value
             /\ s.height = t.height /\ s.num_nodes = t.num_nodes
             /\ InTree(s) = InTree(t)
BY DEF Tree, Mirror, InTree

(* Twice mirrored is not mirrored.                                         *)
LEMMA MirrorTwice ==
  ASSUME NEW t \in Tree
  PROVE  Mirror(Mirror(t)) = t
<1>1. PICK s \in Tree : s = Mirror(t)
  BY MirrorFields
<1>2. PICK w \in Tree : w = Mirror(s)
  BY MirrorFields
<1>3. /\ s.left = t.right /\ s.right = t.left /\ s.parent = t.parent
      /\ s.root = t.root /\ s.size = t.size /\ s.value = t.value
      /\ s.height = t.height /\ s.num_nodes = t.num_nodes
  BY <1>1, MirrorFields
<1>4. /\ w.left = s.right /\ w.right = s.left /\ w.parent = s.parent
      /\ w.root = s.root /\ w.size = s.size /\ w.value = s.value
      /\ w.height = s.height /\ w.num_nodes = s.num_nodes
  BY <1>2, MirrorFields
<1>5. w = t
  BY <1>3, <1>4, SameFields
<1> QED BY <1>1, <1>2, <1>5

(* A mirrored tree is linked as the tree is.                               *)
LEMMA MirrorLinked ==
  ASSUME NEW t \in Tree, Linked(t)
  PROVE  Linked(Mirror(t))
<1>1. PICK s \in Tree : s = Mirror(t)
  BY MirrorFields
<1>2. /\ s.left = t.right /\ s.right = t.left /\ s.parent = t.parent
      /\ s.root = t.root /\ InTree(s) = InTree(t)
  BY <1>1, MirrorFields
<1>3. ASSUME NEW m \in InTree(t) PROVE LinkedAt(s, m)
  <2>1. LinkedAt(t, m)
    BY DEF Linked
  <2> QED BY <1>2, <2>1 DEF LinkedAt
<1>4. Linked(s)
  BY <1>2, <1>3 DEF Linked
<1> QED BY <1>1, <1>4

(* The operators of a rotation, mirrored.                                  *)
LEMMA MirrorSetParent ==
  ASSUME NEW t \in Tree, NEW n \in Slot, NEW p \in Slot
  PROVE  SetParent(t, n, p) \in Tree /\ Mirror(SetParent(t, n, p)) = SetParent(Mirror(t), n, p)
<1>1. CASE n = Null
  BY <1>1 DEF SetParent
<1>2. CASE n # Null
  <2>1. n \in Node
    BY <1>2 DEF Slot
  <2>2. PICK u : u = [t EXCEPT !.parent[n] = p]
    OBVIOUS
  <2>3. u \in Tree
    BY <2>1, <2>2 DEF Tree
  <2>4. Mirror(u) = [Mirror(t) EXCEPT !.parent[n] = p]
    BY <2>1, <2>2 DEF Tree, Mirror
  <2> QED BY <1>2, <2>2, <2>3, <2>4 DEF SetParent
<1> QED BY <1>1, <1>2

(* update_meta does the same in the mirror image.                          *)
LEMMA MirrorUpdateMeta ==
  ASSUME NEW t \in Tree, NEW n \in Node
  PROVE  Mirror(UpdateMeta(t, n)) = UpdateMeta(Mirror(t), n)
<1>1. PICK s \in Tree : s = Mirror(t)
  BY MirrorFields
<1>2. PICK u \in Tree : u = UpdateMeta(t, n) /\ Measured(t, u, n)
  BY UpdateMetaFields
<1>3. PICK v \in Tree : v = UpdateMeta(s, n) /\ Measured(s, v, n)
  BY UpdateMetaFields
<1>4. PICK w \in Tree : w = Mirror(u)
  BY MirrorFields
<1>5. /\ s.left = t.right /\ s.right = t.left /\ s.parent = t.parent
      /\ s.root = t.root /\ s.size = t.size /\ s.value = t.value
      /\ s.height = t.height /\ s.num_nodes = t.num_nodes
  BY <1>1, MirrorFields
<1>6. /\ w.left = u.right /\ w.right = u.left /\ w.parent = u.parent
      /\ w.root = u.root /\ w.size = u.size /\ w.value = u.value
      /\ w.height = u.height /\ w.num_nodes = u.num_nodes
  BY <1>4, MirrorFields
<1>7. PICK hl, hr, sl, sr \in Nat :
         /\ hl = HeightOf(t, t.left[n]) /\ hr = HeightOf(t, t.right[n])
         /\ sl = SizeOf(t, t.left[n]) /\ sr = SizeOf(t, t.right[n])
  <2>1. t.left[n] \in Slot /\ t.right[n] \in Slot
    BY DEF Tree
  <2> QED BY <2>1, MeasuresType
<1>8. /\ hl = HeightOf(s, s.right[n]) /\ hr = HeightOf(s, s.left[n])
      /\ sl = SizeOf(s, s.right[n]) /\ sr = SizeOf(s, s.left[n])
  BY <1>5, <1>7 DEF HeightOf, SizeOf
<1>9. /\ u.left = t.left /\ u.right = t.right /\ u.parent = t.parent
      /\ u.root = t.root /\ u.size = t.size /\ u.value = t.value
      /\ u.height = [t.height EXCEPT ![n] = 1 + Higher(hl, hr)]
      /\ u.num_nodes = [t.num_nodes EXCEPT ![n] = 1 + sl + sr]
  BY <1>2, <1>7 DEF Measured
<1>10. /\ v.left = s.left /\ v.right = s.right /\ v.parent = s.parent
       /\ v.root = s.root /\ v.size = s.size /\ v.value = s.value
       /\ v.height = [s.height EXCEPT ![n] = 1 + Higher(hr, hl)]
       /\ v.num_nodes = [s.num_nodes EXCEPT ![n] = 1 + sr + sl]
  BY <1>3, <1>8 DEF Measured
<1>11. Higher(hl, hr) = Higher(hr, hl) /\ 1 + sl + sr = 1 + sr + sl
  BY DEF Higher
<1>12. w = v
  <2>1. v.height = w.height /\ v.num_nodes = w.num_nodes
    BY <1>5, <1>6, <1>9, <1>10, <1>11, ZenonT(30)
  <2> QED BY <1>5, <1>6, <1>9, <1>10, <2>1, SameFields
<1> QED BY <1>1, <1>2, <1>3, <1>4, <1>12

(* n is the one or the other child of its parent.                          *)
Placed(t, n) == t.parent[n] # Null => (n = t.left[t.parent[n]] <=> n # t.right[t.parent[n]])

(* replace does the same in the mirror image, for a node that is one child *)
(* of its parent and not also the other.                                   *)
LEMMA MirrorReplace ==
  ASSUME NEW t \in Tree, NEW n \in Node, NEW m \in Slot, Placed(t, n)
  PROVE  Mirror(Replace(t, n, m)) = Replace(Mirror(t), n, m)
<1>1. PICK s \in Tree : s = Mirror(t)
  BY MirrorFields
<1>7. PICK p : p = t.parent[n] /\ p = s.parent[n]
  BY <1>1, MirrorFields
<1>2. PICK u \in Tree : u = Replace(t, n, m) /\ Replaced(t, u, n, m, p)
  BY <1>7, ReplaceFields
<1>3. PICK v \in Tree : v = Replace(s, n, m) /\ Replaced(s, v, n, m, p)
  BY <1>7, ReplaceFields
<1>4. PICK w \in Tree : w = Mirror(u)
  BY MirrorFields
<1>5. /\ s.left = t.right /\ s.right = t.left /\ s.parent = t.parent
      /\ s.root = t.root /\ s.size = t.size /\ s.value = t.value
      /\ s.height = t.height /\ s.num_nodes = t.num_nodes
  BY <1>1, MirrorFields
<1>6. /\ w.left = u.right /\ w.right = u.left /\ w.parent = u.parent
      /\ w.root = u.root /\ w.size = u.size /\ w.value = u.value
      /\ w.height = u.height /\ w.num_nodes = u.num_nodes
  BY <1>4, MirrorFields
<1>8. /\ u.size = t.size /\ u.value = t.value
      /\ u.height = t.height /\ u.num_nodes = t.num_nodes
      /\ u.root = (IF p = Null THEN m ELSE t.root)
      /\ u.left = (IF p # Null /\ n = t.left[p] THEN [t.left EXCEPT ![p] = m] ELSE t.left)
      /\ u.right = (IF p # Null /\ n # t.left[p]
                    THEN [t.right EXCEPT ![p] = m] ELSE t.right)
      /\ u.parent = (IF m = Null THEN t.parent ELSE [t.parent EXCEPT ![m] = p])
  BY <1>2 DEF Replaced
<1>9. /\ v.size = s.size /\ v.value = s.value
      /\ v.height = s.height /\ v.num_nodes = s.num_nodes
      /\ v.root = (IF p = Null THEN m ELSE s.root)
      /\ v.left = (IF p # Null /\ n = s.left[p] THEN [s.left EXCEPT ![p] = m] ELSE s.left)
      /\ v.right = (IF p # Null /\ n # s.left[p]
                    THEN [s.right EXCEPT ![p] = m] ELSE s.right)
      /\ v.parent = (IF m = Null THEN s.parent ELSE [s.parent EXCEPT ![m] = p])
  BY <1>3 DEF Replaced
<1>10. p # Null => (n = t.left[p] <=> n # t.right[p])
  BY <1>7 DEF Placed
<1>11. w.left = v.left /\ w.right = v.right
  BY <1>5, <1>6, <1>8, <1>9, <1>10
<1>12. w = v
  BY <1>5, <1>6, <1>8, <1>9, <1>11, SameFields
<1> QED BY <1>1, <1>2, <1>3, <1>4, <1>12

(* left_rotate is right_rotate in the mirror image.                        *)
LEMMA MirrorLeftRotate ==
  ASSUME NEW t \in Tree, NEW n \in Node, NEW r \in Node, r = t.right[n], Placed(t, n)
  PROVE  /\ LeftRotate(t, n) = Mirror(RightRotate(Mirror(t), n))
         /\ RightRotate(Mirror(t), n) = Mirror(LeftRotate(t, n))
<1>1. PICK s \in Tree : s = Mirror(t)
  BY MirrorFields
<1>2. s.left = t.right /\ s.right = t.left
  BY <1>1, MirrorFields
<1>3. t.left[r] \in Slot /\ r \in Slot /\ n \in Slot
  BY DEF Tree, Slot
<1>4. PICK u0 \in Tree : u0 = Replace(t, n, r)
  BY <1>3, ReplaceFields
<1>5. PICK v0 \in Tree : v0 = Replace(s, n, r)
  BY <1>3, ReplaceFields
<1>6. v0 = Mirror(u0)
  BY <1>1, <1>3, <1>4, <1>5, MirrorReplace
<1>7. PICK c \in Slot : c = t.left[r]
  BY <1>3
<1>8. PICK u1 \in Tree : u1 = [u0 EXCEPT !.right[n] = c]
  BY DEF Tree
<1>9. PICK v1 \in Tree : v1 = [v0 EXCEPT !.left[n] = c]
  BY DEF Tree
<1>10. v1 = Mirror(u1)
  BY <1>6, <1>8, <1>9 DEF Tree, Mirror
<1>11. PICK u2 \in Tree : u2 = SetParent(u1, c, n)
  BY <1>3, MirrorSetParent
<1>12. PICK v2 \in Tree : v2 = SetParent(v1, c, n)
  BY <1>3, MirrorSetParent
<1>13. v2 = Mirror(u2)
  BY <1>3, <1>10, <1>11, <1>12, MirrorSetParent
<1>14. PICK u3 \in Tree : u3 = [u2 EXCEPT !.left[r] = n, !.parent[n] = r]
  BY <1>3 DEF Tree
<1>15. PICK v3 \in Tree : v3 = [v2 EXCEPT !.right[r] = n, !.parent[n] = r]
  BY <1>3 DEF Tree
<1>16. v3 = Mirror(u3)
  BY <1>3, <1>13, <1>14, <1>15 DEF Tree, Mirror
<1>17. PICK u4 \in Tree : u4 = UpdateMeta(u3, n)
  BY UpdateMetaFields
<1>18. PICK v4 \in Tree : v4 = UpdateMeta(v3, n)
  BY UpdateMetaFields
<1>19. v4 = Mirror(u4)
  BY <1>16, <1>17, <1>18, MirrorUpdateMeta
<1>20. PICK u \in Tree : u = UpdateMeta(u4, r)
  BY UpdateMetaFields
<1>21. PICK v \in Tree : v = UpdateMeta(v4, r)
  BY UpdateMetaFields
<1>22. v = Mirror(u)
  BY <1>19, <1>20, <1>21, MirrorUpdateMeta
<1>23. LeftRotate(t, n) = u
  BY <1>4, <1>7, <1>8, <1>11, <1>14, <1>17, <1>20, Zenon DEF LeftRotate
<1>24. RightRotate(s, n) = v
  BY <1>2, <1>5, <1>7, <1>9, <1>12, <1>15, <1>18, <1>21, Zenon DEF RightRotate
<1>25. u = Mirror(v)
  BY <1>22, MirrorTwice
<1> QED BY <1>1, <1>22, <1>23, <1>24, <1>25

-----------------------------------------------------------------------------
(* Trees with a defect.                                                    *)

Positive(t) == \A m \in InTree(t) : t.height[m] >= 1 /\ t.num_nodes[m] >= 1

(* What is stored at a node is what its children say, and it is balanced.  *)
Exact(t, m) ==
  /\ t.height[m] = 1 + Higher(HeightOf(t, t.left[m]), HeightOf(t, t.right[m]))
  /\ t.num_nodes[m] = 1 + SizeOf(t, t.left[m]) + SizeOf(t, t.right[m])
  /\ BalanceFactor(t, m) \in -1 .. 1

(* The stored height is that of two balanced children, one of which has    *)
(* since become higher or lower by at most one.                            *)
Stale(t, n) ==
  \E hl, hr \in Nat :
    /\ hl - hr \in -1 .. 1
    /\ t.height[n] = 1 + Higher(hl, hr)
    /\ \/ hl = HeightOf(t, t.left[n]) /\ HeightOf(t, t.right[n]) - hr \in -1 .. 1
       \/ hr = HeightOf(t, t.right[n]) /\ HeightOf(t, t.left[n]) - hl \in -1 .. 1

(* A call has put in (d = 1) or taken out (d = -1) a node, and the nodes   *)
(* from n up to the root do not know of it; if n is Null all know.         *)
Defect(t, n, d) ==
  /\ t \in Tree /\ Linked(t) /\ Positive(t)
  /\ t.size = Cardinality(InTree(t))
  /\ n \in InTree(t) \cup {Null}
  /\ \A m \in InTree(t) \ {n} : Exact(t, m)
  /\ n = Null => SizeOf(t, t.root) = t.size
  /\ n # Null => /\ SizeOf(t, t.root) + d = t.size
                 /\ t.num_nodes[n] + d = 1 + SizeOf(t, t.left[n]) + SizeOf(t, t.right[n])
                 /\ Stale(t, n)

(* What is read of a node that is linked: its neighbours, one by one.      *)
LEMMA LinkedFacts ==
  ASSUME NEW t \in Tree, Linked(t), NEW m \in InTree(t)
  PROVE  /\ m \in Node /\ m # Null
         /\ t.left[m] \in InTree(t) \cup {Null} /\ t.right[m] \in InTree(t) \cup {Null}
         /\ t.left[m] # m /\ t.right[m] # m
         /\ t.left[m] # Null => t.left[m] # t.right[m] /\ t.parent[t.left[m]] = m
         /\ t.right[m] # Null => t.left[m] # t.right[m] /\ t.parent[t.right[m]] = m
         /\ t.parent[m] \in InTree(t) \cup {Null}
         /\ t.parent[m] = Null <=> m = t.root
         /\ t.parent[m] # Null => m \in {t.left[t.parent[m]], t.right[t.parent[m]]}
         /\ Placed(t, m)
<1>1. LinkedAt(t, m) /\ m \in Node /\ m # Null /\ Null \notin InTree(t)
  BY NodeAssumption DEF Linked, InTree
<1>2. /\ t.left[m] \in InTree(t) \cup {Null} /\ t.right[m] \in InTree(t) \cup {Null}
      /\ t.left[m] # m /\ t.right[m] # m
      /\ t.left[m] # Null => t.left[m] # t.right[m] /\ t.parent[t.left[m]] = m
      /\ t.right[m] # Null => t.parent[t.right[m]] = m
  BY <1>1 DEF LinkedAt
<1>3. CASE m = t.root
  BY <1>1, <1>2, <1>3 DEF Linked, Placed
<1>4. CASE m # t.root
  <2>1. PICK q \in InTree(t) : q = t.parent[m] /\ m \in {t.left[q], t.right[q]}
    BY <1>1, <1>4 DEF LinkedAt
  <2>2. t.left[q] # Null => t.left[q] # t.right[q]
    BY DEF Linked, LinkedAt
  <2> QED BY <1>1, <1>2, <1>4, <2>1, <2>2 DEF Placed
<1> QED BY <1>3, <1>4

(* Going down from a node the sizes stored get smaller, a defect's child   *)
(* may store as much as the defect.                                        *)
LEMMA SizesBelow ==
  ASSUME NEW t \in Tree, Linked(t), Positive(t), NEW m \in InTree(t), Exact(t, m),
         NEW x \in {t.left[m], t.right[m]}, x # Null
  PROVE  x \in InTree(t) /\ t.num_nodes[x] < t.num_nodes[m]
<1>1. /\ t.left[m] \in InTree(t) \cup {Null} /\ t.right[m] \in InTree(t) \cup {Null}
      /\ t.left[m] \in Slot /\ t.right[m] \in Slot
  BY LinkedFacts DEF Slot, InTree
<1>2. SizeOf(t, t.left[m]) \in Nat /\ SizeOf(t, t.right[m]) \in Nat
  BY <1>1, MeasuresType
<1>3. x \in InTree(t) /\ SizeOf(t, x) = t.num_nodes[x]
  BY <1>1 DEF SizeOf
<1> QED BY <1>2, <1>3 DEF Exact

(* The children of a defect are in the tree, and their sizes are at most   *)
(* the size the defect still has on record.                                *)
LEMMA SizesBelowDefect ==
  ASSUME NEW t, NEW n, NEW d \in {-1, 1}, Defect(t, n, d), n # Null,
         NEW x \in {t.left[n], t.right[n]}, x # Null
  PROVE  x \in InTree(t) /\ x # n /\ t.num_nodes[x] \in Nat /\ t.num_nodes[n] \in Nat
         /\ t.num_nodes[x] <= t.num_nodes[n]
<1>1. t \in Tree /\ Linked(t) /\ n \in InTree(t)
  BY DEF Defect
<1>2. /\ t.left[n] \in InTree(t) \cup {Null} /\ t.right[n] \in InTree(t) \cup {Null}
      /\ t.left[n] \in Slot /\ t.right[n] \in Slot /\ t.left[n] # n /\ t.right[n] # n
  BY <1>1, LinkedFacts DEF Slot, InTree
<1>3. SizeOf(t, t.left[n]) \in Nat /\ SizeOf(t, t.right[n]) \in Nat
  BY <1>1, <1>2, MeasuresType
<1>4. x \in InTree(t) /\ SizeOf(t, x) = t.num_nodes[x] /\ x # n
  BY <1>2 DEF SizeOf
<1>5. t.num_nodes[n] \in Nat
  BY <1>1 DEF Tree, InTree
<1>6. t.num_nodes[n] + d = 1 + SizeOf(t, t.left[n]) + SizeOf(t, t.right[n])
  BY DEF Defect
<1> QED BY <1>3, <1>4, <1>5, <1>6

(* So the nodes around a defect are distinct: its parent, itself, its      *)
(* child x, and x's child y, and y's child z.                              *)
Distinct(t, n, p, x) ==
  /\ x \in InTree(t) /\ x # n /\ x # p /\ p # n /\ t.parent[x] = n
  /\ \A y \in {t.left[x], t.right[x]} :
       y # Null => /\ y \in InTree(t) /\ y # n /\ y # p /\ y # x /\ t.parent[y] = x
                   /\ \A z \in {t.left[y], t.right[y]} :
                         z # Null => z \notin {n, p, x, y}

(* The nodes that a rotation at a defect touches are pairwise distinct.    *)
LEMMA DefectNeighbours ==
  ASSUME NEW t, NEW n, NEW d \in {-1, 1}, Defect(t, n, d), n # Null,
         NEW p, p = t.parent[n], NEW x \in {t.left[n], t.right[n]}, x # Null
  PROVE  Distinct(t, n, p, x)
<1>1. t \in Tree /\ Linked(t) /\ n \in InTree(t) /\ Positive(t)
      /\ \A m \in InTree(t) \ {n} : Exact(t, m)
  BY DEF Defect
<1>2. /\ x \in InTree(t) /\ x # n /\ t.num_nodes[x] \in Nat /\ t.num_nodes[n] \in Nat
      /\ t.num_nodes[x] <= t.num_nodes[n]
  BY SizesBelowDefect
<1>3. p # n /\ t.parent[x] = n /\ p \in InTree(t) \cup {Null}
      /\ (p # Null => n \in {t.left[p], t.right[p]})
  BY <1>1, LinkedFacts
<1>4. p # Null => p \in InTree(t) /\ t.num_nodes[p] \in Nat /\ t.num_nodes[n] < t.num_nodes[p]
  <2>. SUFFICES ASSUME p # Null
                PROVE p \in InTree(t) /\ t.num_nodes[p] \in Nat /\ t.num_nodes[n] < t.num_nodes[p]
    OBVIOUS
  <2>1. p \in InTree(t) /\ Exact(t, p)
    BY <1>1, <1>3
  <2>2. t.num_nodes[p] \in Nat
    BY <1>1, <2>1 DEF Tree, InTree
  <2> QED BY <1>1, <1>3, <2>1, <2>2, SizesBelow
<1>5. x # Null /\ n # Null /\ x # p
  BY <1>2, <1>4
<1>6. ASSUME NEW y \in {t.left[x], t.right[x]}, y # Null
      PROVE  /\ y \in InTree(t) /\ y # n /\ y # p /\ y # x /\ t.parent[y] = x
             /\ \A z \in {t.left[y], t.right[y]} : z # Null => z \notin {n, p, x, y}
  <2>1. y \in InTree(t) /\ t.num_nodes[y] < t.num_nodes[x]
    BY <1>1, <1>2, <1>6, SizesBelow
  <2>2. t.num_nodes[y] \in Nat
    BY <1>1, <2>1 DEF Tree, InTree
  <2>3. y # n /\ y # p /\ y # x
    BY <1>2, <1>4, <1>6, <2>1, <2>2
  <2>4. t.parent[y] = x
    BY <1>1, <1>2, <1>6, LinkedFacts
  <2>5. ASSUME NEW z \in {t.left[y], t.right[y]}, z # Null PROVE z \notin {n, p, x, y}
    <3>1. z \in InTree(t) /\ t.num_nodes[z] < t.num_nodes[y]
      BY <1>1, <2>1, <2>3, <2>5, SizesBelow
    <3>2. t.num_nodes[z] \in Nat
      BY <1>1, <3>1 DEF Tree, InTree
    <3> QED BY <1>2, <1>4, <2>1, <2>2, <2>5, <3>1, <3>2
  <2> QED BY <2>1, <2>3, <2>4, <2>5
<1> QED BY <1>2, <1>3, <1>5, <1>6 DEF Distinct

(* A tree with a defect is one in the mirror too.                          *)
LEMMA MirrorDefect ==
  ASSUME NEW t, NEW n, NEW d, Defect(t, n, d)
  PROVE  Defect(Mirror(t), n, d)
<1>1. t \in Tree /\ Linked(t) /\ Positive(t)
  BY DEF Defect
<1>2. PICK s \in Tree : s = Mirror(t)
  BY <1>1, MirrorFields
<1>3. /\ s.left = t.right /\ s.right = t.left /\ s.parent = t.parent
      /\ s.root = t.root /\ s.size = t.size /\ s.value = t.value
      /\ s.height = t.height /\ s.num_nodes = t.num_nodes
      /\ InTree(s) = InTree(t)
  BY <1>1, <1>2, MirrorFields
<1>4. Linked(s) /\ Positive(s)
  BY <1>1, <1>2, <1>3, MirrorLinked DEF Positive
<1>5. \A m : HeightOf(s, m) = HeightOf(t, m) /\ SizeOf(s, m) = SizeOf(t, m)
  BY <1>3 DEF HeightOf, SizeOf
<1>6. ASSUME NEW m \in InTree(t)
      PROVE  /\ HeightOf(t, t.left[m]) \in Nat /\ HeightOf(t, t.right[m]) \in Nat
             /\ SizeOf(t, t.left[m]) \in Nat /\ SizeOf(t, t.right[m]) \in Nat
  <2>1. t.left[m] \in Slot /\ t.right[m] \in Slot
    BY <1>1 DEF Tree, InTree
  <2> QED BY <1>1, <2>1, MeasuresType
<1>7. ASSUME NEW m \in InTree(t), Exact(t, m) PROVE Exact(s, m)
  <2>1. PICK hl, hr, sl, sr \in Nat :
           /\ hl = HeightOf(t, t.left[m]) /\ hr = HeightOf(t, t.right[m])
           /\ sl = SizeOf(t, t.left[m]) /\ sr = SizeOf(t, t.right[m])
    BY <1>6
  <2>2. /\ hl = HeightOf(s, s.right[m]) /\ hr = HeightOf(s, s.left[m])
        /\ sl = SizeOf(s, s.right[m]) /\ sr = SizeOf(s, s.left[m])
    BY <1>3, <1>5, <2>1
  <2>3. /\ t.height[m] = 1 + Higher(hl, hr) /\ t.num_nodes[m] = 1 + sl + sr
        /\ hl - hr \in -1 .. 1
    BY <1>7, <2>1 DEF Exact, BalanceFactor
  <2>4. /\ s.height[m] = 1 + Higher(hr, hl) /\ s.num_nodes[m] = 1 + sr + sl
        /\ hr - hl \in -1 .. 1
    BY <1>3, <2>3 DEF Higher
  <2> QED BY <2>2, <2>4 DEF Exact, BalanceFactor
<1>8. ASSUME n # Null
      PROVE  /\ s.num_nodes[n] + d = 1 + SizeOf(s, s.left[n]) + SizeOf(s, s.right[n])
             /\ Stale(s, n)
  <2>1. /\ t.num_nodes[n] + d = 1 + SizeOf(t, t.left[n]) + SizeOf(t, t.right[n])
        /\ Stale(t, n) /\ n \in InTree(t)
    BY <1>8 DEF Defect
  <2>2. s.num_nodes[n] + d = 1 + SizeOf(s, s.left[n]) + SizeOf(s, s.right[n])
    BY <1>3, <1>5, <1>6, <2>1
  <2>3. PICK hl, hr \in Nat :
           /\ hl - hr \in -1 .. 1
           /\ t.height[n] = 1 + Higher(hl, hr)
           /\ \/ hl = HeightOf(t, t.left[n]) /\ HeightOf(t, t.right[n]) - hr \in -1 .. 1
              \/ hr = HeightOf(t, t.right[n]) /\ HeightOf(t, t.left[n]) - hl \in -1 .. 1
    BY <2>1 DEF Stale
  <2>4. hr - hl \in -1 .. 1 /\ Higher(hl, hr) = Higher(hr, hl)
    BY <2>3 DEF Higher
  <2>5. /\ s.height[n] = 1 + Higher(hr, hl)
        /\ \/ hl = HeightOf(s, s.right[n]) /\ HeightOf(s, s.left[n]) - hr \in -1 .. 1
           \/ hr = HeightOf(s, s.left[n]) /\ HeightOf(s, s.right[n]) - hl \in -1 .. 1
    BY <1>3, <1>5, <2>3, <2>4
  <2>6. Stale(s, n)
    BY <2>4, <2>5 DEF Stale
  <2> QED BY <2>2, <2>6
<1>9. Defect(s, n, d)
  BY <1>2, <1>3, <1>4, <1>5, <1>7, <1>8 DEF Defect
<1> QED BY <1>2, <1>9

-----------------------------------------------------------------------------
(* One round of balance's loop.                                            *)

(* The nodes a round does not rotate keep their children and measures.     *)
LEMMA ExactKept ==
  ASSUME NEW t, NEW u, NEW x, Exact(t, x),
         u.left[x] = t.left[x], u.right[x] = t.right[x],
         u.height[x] = t.height[x], u.num_nodes[x] = t.num_nodes[x],
         \A y \in {t.left[x], t.right[x]} \ {Null} :
           u.height[y] = t.height[y] /\ u.num_nodes[y] = t.num_nodes[y]
  PROVE  Exact(u, x)
<1>1. \A y \in {t.left[x], t.right[x]} :
        HeightOf(u, y) = HeightOf(t, y) /\ SizeOf(u, y) = SizeOf(t, y)
  BY DEF HeightOf, SizeOf
<1> QED BY <1>1 DEF Exact, BalanceFactor

(* In u the node m has taken the place of the defect n of t: below m all   *)
(* is exact, and n's parent p does not know of it yet.                     *)
StandsFor(t, u, n, m, p, d) ==
  /\ u \in Tree /\ Linked(u) /\ Positive(u)
  /\ InTree(u) = InTree(t) /\ u.size = t.size /\ m \in InTree(t)
  /\ u.root = (IF p = Null THEN m ELSE t.root)
  /\ \A x \in InTree(t) \ {p} : Exact(u, x)
  /\ u.num_nodes[m] = t.num_nodes[n] + d
  /\ u.height[m] - t.height[n] \in -1 .. 1
  /\ p # Null =>
       /\ \A x \in {p, t.root, t.left[p], t.right[p]} \ {n, Null} :
            u.height[x] = t.height[x] /\ u.num_nodes[x] = t.num_nodes[x]
       /\ \/ n = t.left[p] /\ u.left[p] = m /\ u.right[p] = t.right[p]
          \/ n = t.right[p] /\ u.right[p] = m /\ u.left[p] = t.left[p]

(* When a node stands for the defect and below it, the defect has moved to *)
(* the parent, whose size on record is larger.                             *)
LEMMA DefectMovesUp ==
  ASSUME NEW t, NEW n, NEW d \in {-1, 1}, Defect(t, n, d), n # Null,
         NEW p, p = t.parent[n], NEW u, NEW m, StandsFor(t, u, n, m, p, d)
  PROVE  Defect(u, p, d) /\ (p # Null => u.num_nodes[p] > t.num_nodes[n])
<1>1. /\ t \in Tree /\ Linked(t) /\ n \in InTree(t)
      /\ t.size = Cardinality(InTree(t)) /\ SizeOf(t, t.root) + d = t.size
      /\ \A x \in InTree(t) \ {n} : Exact(t, x)
  BY DEF Defect
<1>2. /\ u \in Tree /\ Linked(u) /\ Positive(u)
      /\ InTree(u) = InTree(t) /\ u.size = t.size /\ m \in InTree(t)
      /\ u.root = (IF p = Null THEN m ELSE t.root)
      /\ \A x \in InTree(t) \ {p} : Exact(u, x)
      /\ u.num_nodes[m] = t.num_nodes[n] + d
      /\ u.height[m] - t.height[n] \in -1 .. 1
  BY DEF StandsFor
<1>3. n # Null /\ m # Null /\ n \in Node /\ m \in Node
  BY <1>1, <1>2, NodeAssumption DEF InTree
<1>4. /\ t.num_nodes[n] \in Nat /\ t.height[n] \in Nat
      /\ u.num_nodes[m] \in Nat /\ u.height[m] \in Nat
  BY <1>1, <1>2, <1>3 DEF Tree
<1>5. CASE p = Null
  <2>1. n = t.root
    <3>1. t.parent[n] = Null <=> n = t.root
      BY <1>1, LinkedFacts
    <3> QED BY <1>5, <3>1
  <2>2. SizeOf(u, u.root) = u.size
    BY <1>1, <1>2, <1>3, <1>4, <1>5, <2>1 DEF SizeOf
  <2> QED BY <1>1, <1>2, <1>5, <2>2 DEF Defect
<1>6. CASE p # Null
  <2>1. p \in InTree(t) /\ p # n /\ n \in {t.left[p], t.right[p]}
    BY <1>1, <1>6, LinkedFacts
  <2>2. Exact(t, p) /\ t.left[p] \in Slot /\ t.right[p] \in Slot /\ t.left[p] # t.right[p]
    BY <1>1, <1>3, <2>1, LinkedFacts DEF InTree, Slot
  <2>3. n # t.root
    <3>1. t.parent[n] = Null <=> n = t.root
      BY <1>1, LinkedFacts
    <3> QED BY <1>6, <3>1
  <2>4. /\ u.height[p] = t.height[p] /\ u.num_nodes[p] = t.num_nodes[p]
        /\ t.root # Null => u.num_nodes[t.root] = t.num_nodes[t.root]
        /\ \A x \in {t.left[p], t.right[p]} \ {n, Null} :
             u.height[x] = t.height[x] /\ u.num_nodes[x] = t.num_nodes[x]
        /\ \/ n = t.left[p] /\ u.left[p] = m /\ u.right[p] = t.right[p]
           \/ n = t.right[p] /\ u.right[p] = m /\ u.left[p] = t.left[p]
    BY <1>6, <2>1, <2>3 DEF StandsFor
  <2>5. SizeOf(u, u.root) + d = u.size
    BY <1>1, <1>2, <1>6, <2>3, <2>4 DEF SizeOf
  <2>6. PICK w \in {t.left[p], t.right[p]} :
           /\ w # n
           /\ \/ n = t.left[p] /\ w = t.right[p] /\ u.left[p] = m /\ u.right[p] = w
              \/ n = t.right[p] /\ w = t.left[p] /\ u.right[p] = m /\ u.left[p] = w
    BY <2>2, <2>4
  <2>7. PICK h, k \in Nat : h = HeightOf(t, w) /\ k = SizeOf(t, w)
    BY <1>1, <2>2, MeasuresType
  <2>8. h = HeightOf(u, w) /\ k = SizeOf(u, w)
    BY <2>4, <2>6, <2>7 DEF HeightOf, SizeOf
  <2>9. /\ HeightOf(t, n) = t.height[n] /\ SizeOf(t, n) = t.num_nodes[n]
        /\ HeightOf(u, m) = u.height[m] /\ SizeOf(u, m) = u.num_nodes[m]
    BY <1>3 DEF HeightOf, SizeOf
  <2>10. /\ t.num_nodes[p] = 1 + t.num_nodes[n] + k
         /\ t.height[n] - h \in -1 .. 1 /\ h - t.height[n] \in -1 .. 1
         /\ t.height[p] = 1 + Higher(t.height[n], h)
         /\ Higher(t.height[n], h) = Higher(h, t.height[n])
    <3>1. CASE n = t.left[p] /\ w = t.right[p]
      <4>1. /\ t.height[p] = 1 + Higher(t.height[n], h)
            /\ t.num_nodes[p] = 1 + t.num_nodes[n] + k
            /\ t.height[n] - h \in -1 .. 1
        BY <2>2, <2>7, <2>9, <3>1 DEF Exact, BalanceFactor
      <4> QED BY <1>4, <4>1 DEF Higher
    <3>2. CASE n = t.right[p] /\ w = t.left[p]
      <4>1. /\ t.height[p] = 1 + Higher(h, t.height[n])
            /\ t.num_nodes[p] = 1 + k + t.num_nodes[n]
            /\ h - t.height[n] \in -1 .. 1
        BY <2>2, <2>7, <2>9, <3>2 DEF Exact, BalanceFactor
      <4> QED BY <1>4, <4>1 DEF Higher
    <3> QED BY <2>6, <3>1, <3>2
  <2>11. /\ u.num_nodes[p] + d = 1 + SizeOf(u, u.left[p]) + SizeOf(u, u.right[p])
         /\ u.num_nodes[p] > t.num_nodes[n]
    BY <1>2, <1>4, <2>4, <2>6, <2>7, <2>8, <2>9, <2>10
  <2>12. Stale(u, p)
    <3>1. CASE u.left[p] = m /\ u.right[p] = w
      <4>1. /\ t.height[n] - h \in -1 .. 1 /\ u.height[p] = 1 + Higher(t.height[n], h)
            /\ h = HeightOf(u, u.right[p])
            /\ HeightOf(u, u.left[p]) - t.height[n] \in -1 .. 1
        BY <1>2, <2>4, <2>8, <2>9, <2>10, <3>1
      <4> QED BY <1>4, <4>1 DEF Stale
    <3>2. CASE u.right[p] = m /\ u.left[p] = w
      <4>1. /\ h - t.height[n] \in -1 .. 1 /\ u.height[p] = 1 + Higher(h, t.height[n])
            /\ h = HeightOf(u, u.left[p])
            /\ HeightOf(u, u.right[p]) - t.height[n] \in -1 .. 1
        BY <1>2, <2>4, <2>8, <2>9, <2>10, <3>2
      <4> QED BY <1>4, <4>1 DEF Stale
    <3> QED BY <2>6, <3>1, <3>2
  <2> QED BY <1>1, <1>2, <1>6, <2>1, <2>5, <2>11, <2>12 DEF Defect
<1> QED BY <1>5, <1>6

(* The height stored at a defect is off by at most one, and its children's *)
(* heights differ by at most two.                                          *)
LEMMA StaleHeight ==
  ASSUME NEW t \in Tree, NEW n \in Node, Stale(t, n),
         NEW L \in Nat, NEW R \in Nat,
         L = HeightOf(t, t.left[n]), R = HeightOf(t, t.right[n])
  PROVE  /\ L - R \in -2 .. 2
         /\ L - R \in -1 .. 1 => (1 + Higher(L, R)) - t.height[n] \in -1 .. 1
         /\ L - R = 2 => t.height[n] \in {L, L + 1}
<1>1. PICK hl, hr \in Nat :
         /\ hl - hr \in -1 .. 1
         /\ t.height[n] = 1 + Higher(hl, hr)
         /\ \/ hl = L /\ R - hr \in -1 .. 1
            \/ hr = R /\ L - hl \in -1 .. 1
  BY DEF Stale
<1>2. CASE hl = L /\ R - hr \in -1 .. 1
  BY <1>1, <1>2 DEF Higher
<1>3. CASE hr = R /\ L - hl \in -1 .. 1
  BY <1>1, <1>3 DEF Higher
<1> QED BY <1>1, <1>2, <1>3

(* What update_meta makes of a defect.                                     *)
DefectMeasuredIn(t, v, n, d) ==
  /\ v \in Tree /\ Linked(v) /\ InTree(v) = InTree(t)
  /\ v.root = t.root /\ v.size = t.size /\ v.value = t.value
  /\ v.left = t.left /\ v.right = t.right /\ v.parent = t.parent
  /\ v.num_nodes[n] = t.num_nodes[n] + d
  /\ v.height[n] = 1 + Higher(HeightOf(t, t.left[n]), HeightOf(t, t.right[n]))
  /\ \A x \in Node \ {n} : v.height[x] = t.height[x] /\ v.num_nodes[x] = t.num_nodes[x]
  /\ \A x \in Slot \ {n} : HeightOf(v, x) = HeightOf(t, x) /\ SizeOf(v, x) = SizeOf(t, x)

(* update_meta on a defect corrects its height and its size and leaves     *)
(* every other node as it was.                                             *)
LEMMA DefectMeasured ==
  ASSUME NEW t, NEW n, NEW d \in {-1, 1}, Defect(t, n, d), n # Null,
         NEW v, v = UpdateMeta(t, n)
  PROVE  DefectMeasuredIn(t, v, n, d)
<1>1. t \in Tree /\ Linked(t) /\ n \in InTree(t) /\ n \in Node
      /\ t.num_nodes[n] + d = 1 + SizeOf(t, t.left[n]) + SizeOf(t, t.right[n])
  BY DEF Defect, InTree
<1>2. v \in Tree /\ Measured(t, v, n)
  BY <1>1, UpdateMetaFields
<1>3. /\ v.root = t.root /\ v.size = t.size /\ v.value = t.value
      /\ v.left = t.left /\ v.right = t.right /\ v.parent = t.parent
      /\ v.height = [t.height EXCEPT ![n] =
                       1 + Higher(HeightOf(t, t.left[n]), HeightOf(t, t.right[n]))]
      /\ v.num_nodes = [t.num_nodes EXCEPT ![n] =
                          1 + SizeOf(t, t.left[n]) + SizeOf(t, t.right[n])]
  BY <1>2 DEF Measured
<1>4. t.height \in [Node -> Nat] /\ t.num_nodes \in [Node -> Nat]
  BY <1>1 DEF Tree
<1>5. InTree(v) = InTree(t)
  BY <1>3 DEF InTree
<1>6. Linked(v)
  <2>1. \A m \in InTree(t) : LinkedAt(v, m)
    BY <1>1, <1>3, <1>5 DEF Linked, LinkedAt
  <2> QED BY <1>1, <1>3, <1>5, <2>1 DEF Linked
<1>7. /\ v.num_nodes[n] = t.num_nodes[n] + d
      /\ v.height[n] = 1 + Higher(HeightOf(t, t.left[n]), HeightOf(t, t.right[n]))
      /\ \A x \in Node \ {n} : v.height[x] = t.height[x] /\ v.num_nodes[x] = t.num_nodes[x]
  BY <1>1, <1>3, <1>4
<1>8. \A x \in Slot \ {n} : HeightOf(v, x) = HeightOf(t, x) /\ SizeOf(v, x) = SizeOf(t, x)
  BY <1>7 DEF HeightOf, SizeOf, Slot
<1> QED BY <1>2, <1>3, <1>5, <1>6, <1>7, <1>8 DEF DefectMeasuredIn

(* A round with nothing to rotate.                                         *)
LEMMA RoundWithoutRotation ==
  ASSUME NEW t, NEW n, NEW d \in {-1, 1}, Defect(t, n, d), n # Null,
         NEW p, p = t.parent[n], NEW v, v = UpdateMeta(t, n),
         BalanceFactor(v, n) \in -1 .. 1
  PROVE  StandsFor(t, v, n, n, p, d)
<1>1. /\ t \in Tree /\ Linked(t) /\ Positive(t) /\ n \in InTree(t) /\ n \in Node
      /\ Stale(t, n) /\ \A x \in InTree(t) \ {n} : Exact(t, x)
  BY DEF Defect, InTree
<1>2. /\ v \in Tree /\ Linked(v) /\ InTree(v) = InTree(t)
      /\ v.root = t.root /\ v.size = t.size /\ v.value = t.value
      /\ v.left = t.left /\ v.right = t.right /\ v.parent = t.parent
      /\ v.num_nodes[n] = t.num_nodes[n] + d
      /\ v.height[n] = 1 + Higher(HeightOf(t, t.left[n]), HeightOf(t, t.right[n]))
      /\ \A x \in Node \ {n} : v.height[x] = t.height[x] /\ v.num_nodes[x] = t.num_nodes[x]
      /\ \A x \in Slot \ {n} : HeightOf(v, x) = HeightOf(t, x) /\ SizeOf(v, x) = SizeOf(t, x)
  <2>1. DefectMeasuredIn(t, v, n, d)
    BY DefectMeasured
  <2> QED BY <2>1 DEF DefectMeasuredIn
<1>3. /\ t.left[n] \in Slot \ {n} /\ t.right[n] \in Slot \ {n}
      /\ p \in InTree(t) \cup {Null} /\ p # n
      /\ p = Null <=> n = t.root
      /\ p # Null => n \in {t.left[p], t.right[p]}
  <2>1. /\ t.left[n] \in InTree(t) \cup {Null} /\ t.right[n] \in InTree(t) \cup {Null}
        /\ t.left[n] # n /\ t.right[n] # n
        /\ t.parent[n] \in InTree(t) \cup {Null}
        /\ t.parent[n] = Null <=> n = t.root
        /\ t.parent[n] # Null => n \in {t.left[t.parent[n]], t.right[t.parent[n]]}
    BY <1>1, LinkedFacts
  <2>2. p # n
    BY <1>1, <2>1, LinkedFacts
  <2> QED BY <2>1, <2>2 DEF Slot, InTree
<1>4. PICK L, R \in Nat : L = HeightOf(t, t.left[n]) /\ R = HeightOf(t, t.right[n])
  BY <1>1, <1>3, MeasuresType
<1>5. PICK sl, sr \in Nat : sl = SizeOf(t, t.left[n]) /\ sr = SizeOf(t, t.right[n])
  BY <1>1, <1>3, MeasuresType
<1>6. L - R \in -1 .. 1
  BY <1>2, <1>3, <1>4 DEF BalanceFactor
<1>7. v.height[n] - t.height[n] \in -1 .. 1 /\ v.height[n] \in Nat /\ v.height[n] >= 1
  <2>1. v.height[n] = 1 + Higher(L, R)
    BY <1>2, <1>4
  <2>2. (1 + Higher(L, R)) - t.height[n] \in -1 .. 1
    BY <1>1, <1>4, <1>6, StaleHeight
  <2> QED BY <2>1, <2>2 DEF Higher
<1>8. v.num_nodes[n] = 1 + sl + sr
  BY <1>2, <1>5 DEF Defect
<1>9. Exact(v, n)
  BY <1>2, <1>3, <1>4, <1>5, <1>6, <1>8 DEF Exact, BalanceFactor
<1>10. ASSUME NEW x \in InTree(t) \ {p}, x # n PROVE Exact(v, x)
  <2>1. x \in Node /\ Exact(t, x)
    BY <1>1, <1>10 DEF InTree
  <2>2. ASSUME NEW y \in {t.left[x], t.right[x]} \ {Null}
        PROVE  v.height[y] = t.height[y] /\ v.num_nodes[y] = t.num_nodes[y]
    <3>1. y \in InTree(t) /\ t.parent[y] = x
      BY <1>1, <2>2, LinkedFacts
    <3>2. y # n /\ y \in Node
      BY <1>10, <3>1 DEF InTree
    <3> QED BY <1>2, <3>2
  <2> QED BY <1>2, <1>10, <2>1, <2>2, ExactKept
<1>11. Positive(v)
  BY <1>1, <1>2, <1>5, <1>7, <1>8 DEF Positive, InTree
<1>12. p # Null =>
         /\ \A x \in {p, t.root, t.left[p], t.right[p]} \ {n, Null} :
              v.height[x] = t.height[x] /\ v.num_nodes[x] = t.num_nodes[x]
         /\ \/ n = t.left[p] /\ v.left[p] = n /\ v.right[p] = t.right[p]
            \/ n = t.right[p] /\ v.right[p] = n /\ v.left[p] = t.left[p]
  <2>1. ASSUME p # Null, NEW x \in {p, t.root, t.left[p], t.right[p]} \ {n, Null}
        PROVE  x \in Node \ {n}
    <3>1. t.left[p] \in Slot /\ t.right[p] \in Slot /\ p \in Node /\ t.root \in Slot
      BY <1>1, <1>3, <2>1 DEF Tree, InTree
    <3> QED BY <2>1, <3>1 DEF Slot
  <2> QED BY <1>2, <1>3, <2>1
<1> QED BY <1>1, <1>2, <1>3, <1>7, <1>9, <1>10, <1>11, <1>12 DEF StandsFor

(* A round that rotates the nodes of M below P: those stay below P, and    *)
(* nothing else is measured anew.                                          *)
Rotates(t, u, M, P) ==
  /\ \A x \in Node \ M : u.height[x] = t.height[x] /\ u.num_nodes[x] = t.num_nodes[x]
  /\ \A x \in Node \ (M \cup {P}) : u.left[x] = t.left[x] /\ u.right[x] = t.right[x]
  /\ \A y \in M : t.parent[y] \in M \cup {P}

(* The nodes whose children a round leaves alone stay exact.               *)
LEMMA OthersStayExact ==
  ASSUME NEW t \in Tree, Linked(t), NEW u, NEW M, NEW P, Rotates(t, u, M, P),
         NEW x \in InTree(t), x \notin M, x # P, Exact(t, x)
  PROVE  Exact(u, x)
<1>. USE DEF Rotates
<1>1. x \in Node
  BY DEF InTree
<1>2. ASSUME NEW y \in {t.left[x], t.right[x]} \ {Null}
      PROVE  u.height[y] = t.height[y] /\ u.num_nodes[y] = t.num_nodes[y]
  <2>1. y \in InTree(t) /\ t.parent[y] = x
    BY <1>2, LinkedFacts
  <2>2. y \notin M /\ y \in Node
    BY <2>1 DEF InTree
  <2> QED BY <2>2
<1> QED BY <1>1, <1>2, ExactKept

(* A round at a defect whose left side is too high finds these nodes.      *)
HighLeft(t, n, p, l, c) ==
  /\ n \in InTree(t) /\ n \in Node /\ l \in InTree(t) /\ l \in Node
  /\ p \in InTree(t) \cup {Null} /\ p \in Slot
  /\ c \in InTree(t) \cup {Null} /\ c \in Slot
  /\ t.right[n] \in Slot /\ t.right[n] # n /\ t.right[n] # l /\ t.left[l] \in Slot
  /\ n # l /\ n # c /\ n # p /\ l # c /\ l # p /\ t.left[l] # n /\ t.left[l] # l
  /\ c # Null => c # p
  /\ t.parent[l] = n
  /\ (p = Null <=> n = t.root)
  /\ (p # Null => /\ n \in {t.left[p], t.right[p]} /\ t.left[p] # t.right[p]
                  /\ t.left[p] \in Slot /\ t.right[p] \in Slot)
  /\ HeightOf(t, l) - HeightOf(t, t.right[n]) = 2
  /\ t.height[n] \in {HeightOf(t, l), HeightOf(t, l) + 1}
  /\ Exact(t, l)

(* A defect that balance finds too high on the left has a left child, and  *)
(* that child and its right child are where right_rotate needs them.       *)
LEMMA HighLeftFacts ==
  ASSUME NEW t, NEW n, NEW d \in {-1, 1}, Defect(t, n, d), n # Null,
         NEW p, p = t.parent[n], NEW v, v = UpdateMeta(t, n),
         BalanceFactor(v, n) > 1, NEW l, l = t.left[n], NEW c, c = t.right[l]
  PROVE  HighLeft(t, n, p, l, c) /\ BalanceFactor(v, l) = BalanceFactor(t, l)
<1>1. /\ t \in Tree /\ Linked(t) /\ Positive(t) /\ n \in InTree(t) /\ n \in Node
      /\ Stale(t, n) /\ \A x \in InTree(t) \ {n} : Exact(t, x)
  BY DEF Defect, InTree
<1>2. /\ v.left = t.left /\ v.right = t.right
      /\ \A x \in Slot \ {n} : HeightOf(v, x) = HeightOf(t, x)
  <2>1. DefectMeasuredIn(t, v, n, d)
    BY DefectMeasured
  <2> QED BY <2>1 DEF DefectMeasuredIn
<1>3. /\ t.left[n] \in Slot \ {n} /\ t.right[n] \in Slot \ {n}
      /\ p \in InTree(t) \cup {Null} /\ p # n
      /\ (p = Null <=> n = t.root)
      /\ (p # Null => n \in {t.left[p], t.right[p]})
      /\ (l # Null => t.right[n] # l)
  <2>1. /\ t.left[n] \in InTree(t) \cup {Null} /\ t.right[n] \in InTree(t) \cup {Null}
        /\ t.left[n] # n /\ t.right[n] # n
        /\ (t.left[n] # Null => t.left[n] # t.right[n])
        /\ t.parent[n] \in InTree(t) \cup {Null}
        /\ (t.parent[n] = Null <=> n = t.root)
        /\ (t.parent[n] # Null => n \in {t.left[t.parent[n]], t.right[t.parent[n]]})
    BY <1>1, LinkedFacts
  <2>2. p # n
    BY <1>1, <2>1, LinkedFacts
  <2> QED BY <2>1, <2>2 DEF Slot, InTree
<1>4. PICK L, R \in Nat : L = HeightOf(t, l) /\ R = HeightOf(t, t.right[n])
  BY <1>1, <1>3, MeasuresType
<1>5. L - R > 1
  BY <1>2, <1>3, <1>4 DEF BalanceFactor
<1>6. L - R = 2 /\ t.height[n] \in {L, L + 1}
  BY <1>1, <1>4, <1>5, StaleHeight
<1>7. l # Null
  BY <1>4, <1>6 DEF HeightOf
<1>8. /\ l \in InTree(t) /\ l # n /\ l # p /\ t.parent[l] = n
      /\ \A y \in {t.left[l], t.right[l]} :
           y # Null => /\ y \in InTree(t) /\ y # n /\ y # p /\ y # l
  <2>1. l \in {t.left[n], t.right[n]}
    OBVIOUS
  <2>2. Distinct(t, n, p, l)
    BY <1>7, <2>1, DefectNeighbours
  <2> QED BY <2>2 DEF Distinct
<1>9. p # Null => /\ t.left[p] # t.right[p] /\ t.left[p] \in Slot /\ t.right[p] \in Slot
  <2>. SUFFICES ASSUME p # Null
                PROVE t.left[p] # t.right[p] /\ t.left[p] \in Slot /\ t.right[p] \in Slot
    OBVIOUS
  <2>1. p \in InTree(t) /\ n # Null
    BY <1>3
  <2> QED BY <1>1, <1>3, <2>1, LinkedFacts DEF InTree, Slot
<1>10. l \in Node /\ p \in Slot /\ t.left[l] \in Slot /\ c \in Slot /\ c \in InTree(t) \cup {Null}
       /\ Null \notin Node
  BY <1>1, <1>3, <1>8, LinkedFacts, NodeAssumption DEF InTree, Slot
<1>11. Exact(t, l)
  BY <1>1, <1>8
<1>12. BalanceFactor(v, l) = BalanceFactor(t, l)
  BY <1>2, <1>8, <1>10, <1>1 DEF BalanceFactor
<1>13. n # c /\ l # c /\ t.left[l] # n /\ t.left[l] # l /\ (c # Null => c # p)
  BY <1>1, <1>8, <1>10
<1> QED BY <1>1, <1>3, <1>4, <1>6, <1>7, <1>8, <1>9, <1>10, <1>11, <1>12, <1>13 DEF HighLeft

(* A round whose defect is rotated once: its left child takes its place.   *)
LEMMA RoundWithRotation ==
  ASSUME NEW t, NEW n, NEW d \in {-1, 1}, Defect(t, n, d), n # Null,
         NEW p, p = t.parent[n], NEW v, v = UpdateMeta(t, n),
         BalanceFactor(v, n) > 1, NEW l, l = t.left[n], NEW c, c = t.right[l],
         BalanceFactor(v, l) \in {0, 1}, NEW u, u = RightRotate(v, n)
  PROVE  StandsFor(t, u, n, l, p, d)
<1>1. /\ t \in Tree /\ Linked(t) /\ Positive(t)
      /\ \A x \in InTree(t) \ {n} : Exact(t, x)
      /\ t.num_nodes[n] + d = 1 + SizeOf(t, l) + SizeOf(t, t.right[n])
  BY DEF Defect
<1>2. /\ v \in Tree /\ Linked(v) /\ InTree(v) = InTree(t)
      /\ v.root = t.root /\ v.size = t.size
      /\ v.left = t.left /\ v.right = t.right /\ v.parent = t.parent
      /\ \A x \in Node \ {n} : v.height[x] = t.height[x] /\ v.num_nodes[x] = t.num_nodes[x]
      /\ \A x \in Slot \ {n} : HeightOf(v, x) = HeightOf(t, x) /\ SizeOf(v, x) = SizeOf(t, x)
  <2>1. DefectMeasuredIn(t, v, n, d)
    BY DefectMeasured
  <2> QED BY <2>1 DEF DefectMeasuredIn
<1>3. HighLeft(t, n, p, l, c) /\ BalanceFactor(t, l) \in {0, 1}
  BY HighLeftFacts
<1>4. /\ n \in InTree(t) /\ n \in Node /\ l \in InTree(t) /\ l \in Node
      /\ p \in InTree(t) \cup {Null} /\ p \in Slot
      /\ c \in InTree(t) \cup {Null} /\ c \in Slot
      /\ t.right[n] \in Slot /\ t.right[n] # n /\ t.right[n] # l /\ t.left[l] \in Slot
      /\ n # l /\ n # c /\ n # p /\ l # c /\ l # p /\ t.left[l] # n /\ t.left[l] # l
      /\ (c # Null => c # p)
      /\ t.parent[l] = n
      /\ (p = Null <=> n = t.root)
      /\ (p # Null => /\ n \in {t.left[p], t.right[p]} /\ t.left[p] # t.right[p]
                      /\ t.left[p] \in Slot /\ t.right[p] \in Slot)
      /\ HeightOf(t, l) - HeightOf(t, t.right[n]) = 2
      /\ t.height[n] \in {HeightOf(t, l), HeightOf(t, l) + 1}
      /\ Exact(t, l)
  BY <1>3 DEF HighLeft
<1>5. RotatesRight(v, n, l, c, p)
  BY <1>2, <1>4 DEF RotatesRight
<1>6. RotatedRight(v, u, n, l, c, p)
  BY <1>2, <1>5, RightRotateFields
<1>7. InTree(u) = InTree(t) /\ Linked(u)
  BY <1>2, <1>4, <1>5, <1>6, RightRotateLinked
<1>8. /\ u \in Tree /\ u.size = t.size
      /\ u.root = (IF p = Null THEN l ELSE t.root)
      /\ u.left[n] = c /\ u.right[n] = t.right[n]
      /\ u.left[l] = t.left[l] /\ u.right[l] = n
      /\ (p # Null /\ n = t.left[p] => u.left[p] = l /\ u.right[p] = t.right[p])
      /\ (p # Null /\ n # t.left[p] => u.left[p] = t.left[p] /\ u.right[p] = l)
      /\ \A x \in Node \ {n, l, p} : u.left[x] = t.left[x] /\ u.right[x] = t.right[x]
      /\ \A x \in Node \ {n, l} : u.height[x] = t.height[x] /\ u.num_nodes[x] = t.num_nodes[x]
      /\ u.height[n] = 1 + Higher(HeightOf(t, c), HeightOf(t, t.right[n]))
      /\ u.height[l] = 1 + Higher(HeightOf(t, t.left[l]), u.height[n])
      /\ u.num_nodes[n] = 1 + SizeOf(t, c) + SizeOf(t, t.right[n])
      /\ u.num_nodes[l] = 1 + SizeOf(t, t.left[l]) + u.num_nodes[n]
  BY <1>2, <1>4, <1>6, SMTT(60) DEF RotatedRight
<1>9. \A x \in Slot \ {n, l} : HeightOf(u, x) = HeightOf(t, x) /\ SizeOf(u, x) = SizeOf(t, x)
  BY <1>8 DEF HeightOf, SizeOf, Slot
<1>10. PICK hll, hc, L, R \in Nat :
         /\ hll = HeightOf(t, t.left[l]) /\ hc = HeightOf(t, c)
         /\ L = HeightOf(t, l) /\ R = HeightOf(t, t.right[n])
  <2>1. l \in Slot
    BY <1>4 DEF Slot
  <2> QED BY <1>1, <1>4, <2>1, MeasuresType
<1>11. PICK sll, sc, sr \in Nat :
         sll = SizeOf(t, t.left[l]) /\ sc = SizeOf(t, c) /\ sr = SizeOf(t, t.right[n])
  BY <1>1, <1>4, MeasuresType
<1>12. l # Null /\ n # Null
  BY <1>4, NodeAssumption
<1>13. /\ L = 1 + Higher(hll, hc) /\ hll - hc \in {0, 1} /\ L - R = 2
       /\ t.height[n] \in {L, L + 1}
  BY <1>3, <1>4, <1>10, <1>12 DEF Exact, BalanceFactor, HeightOf
<1>14. /\ u.height[n] = 1 + Higher(hc, R) /\ u.height[l] = 1 + Higher(hll, u.height[n])
  BY <1>8, <1>10
<1>15. /\ u.height[n] \in Nat /\ u.height[n] >= 1 /\ u.height[l] \in Nat /\ u.height[l] >= 1
       /\ hc - R \in -1 .. 1 /\ hll - u.height[n] \in -1 .. 1
       /\ u.height[l] - t.height[n] \in -1 .. 1
  BY <1>13, <1>14 DEF Higher
<1>16. /\ u.num_nodes[n] = 1 + sc + sr /\ u.num_nodes[l] = 1 + sll + u.num_nodes[n]
       /\ u.num_nodes[l] = t.num_nodes[n] + d
       /\ u.num_nodes[n] >= 1 /\ u.num_nodes[l] >= 1
  <2>1. SizeOf(t, l) = 1 + sll + sc
    BY <1>4, <1>11, <1>12 DEF Exact, SizeOf
  <2> QED BY <1>1, <1>8, <1>11, <2>1
<1>17. Exact(u, n)
  BY <1>4, <1>8, <1>9, <1>10, <1>11, <1>14, <1>15, <1>16, SMTT(60) DEF Exact, BalanceFactor
<1>18. Exact(u, l)
  <2>1. HeightOf(u, n) = u.height[n] /\ SizeOf(u, n) = u.num_nodes[n]
    BY <1>12 DEF HeightOf, SizeOf
  <2> QED BY <1>4, <1>8, <1>9, <1>10, <1>11, <1>14, <1>15, <1>16, <2>1, SMTT(60)
          DEF Exact, BalanceFactor
<1>19. ASSUME NEW x \in InTree(t) \ {p}, x # n, x # l PROVE Exact(u, x)
  <2>2. Rotates(t, u, {n, l}, p) /\ x \notin {n, l}
    BY <1>4, <1>8, <1>19 DEF Rotates
  <2>3. Exact(t, x) /\ x \in InTree(t) /\ x # p
    BY <1>1, <1>19
  <2> QED BY <1>1, <2>2, <2>3, OthersStayExact
<1>20. Positive(u)
  BY <1>1, <1>7, <1>8, <1>15, <1>16 DEF Positive, InTree
<1>21. p # Null =>
         /\ \A x \in {p, t.root, t.left[p], t.right[p]} \ {n, Null} :
              u.height[x] = t.height[x] /\ u.num_nodes[x] = t.num_nodes[x]
         /\ \/ n = t.left[p] /\ u.left[p] = l /\ u.right[p] = t.right[p]
            \/ n = t.right[p] /\ u.right[p] = l /\ u.left[p] = t.left[p]
  <2>1. ASSUME p # Null, NEW x \in {p, t.root, t.left[p], t.right[p]} \ {n, Null}
        PROVE  x \in Node \ {n, l}
    <3>1. x \in Node
      BY <1>1, <1>4, <2>1 DEF Tree, Slot
    <3>2. t.root # Null => t.parent[t.root] = Null
      BY <1>1 DEF Linked
    <3>3. x # l
      <4>1. CASE x = p
        BY <1>4, <4>1
      <4>2. CASE x = t.root
        BY <1>4, <1>12, <2>1, <3>2, <4>2
      <4>3. CASE x \in {t.left[p], t.right[p]}
        <5>1. p \in InTree(t)
          BY <1>4, <2>1
        <5>2. t.parent[x] = p
          BY <1>1, <2>1, <4>3, <5>1, LinkedFacts
        <5> QED BY <1>4, <5>2
      <4> QED BY <2>1, <4>1, <4>2, <4>3
    <3> QED BY <2>1, <3>1, <3>3
  <2>2. ASSUME p # Null
        PROVE  \/ n = t.left[p] /\ u.left[p] = l /\ u.right[p] = t.right[p]
               \/ n = t.right[p] /\ u.right[p] = l /\ u.left[p] = t.left[p]
    BY <1>4, <1>8, <2>2
  <2> QED BY <1>8, <2>1, <2>2
<1>22. \A x \in InTree(t) \ {p} : Exact(u, x)
  BY <1>17, <1>18, <1>19
<1> QED BY <1>4, <1>7, <1>8, <1>15, <1>16, <1>20, <1>21, <1>22 DEF StandsFor

(* left_rotate at l, whose right child c takes its place below n.          *)
RotatedLeft(t, u, l, c, e, n) ==
  /\ u \in Tree /\ Linked(u) /\ InTree(u) = InTree(t) /\ u.size = t.size /\ u.root = t.root
  /\ u.right[l] = e /\ u.left[l] = t.left[l]
  /\ u.right[c] = t.right[c] /\ u.left[c] = l
  /\ u.left[n] = c /\ u.right[n] = t.right[n]
  /\ \A x \in Node \ {l, c, n} : u.left[x] = t.left[x] /\ u.right[x] = t.right[x]
  /\ u.parent[n] = t.parent[n]
  /\ \A x \in Node \ {l, c} : u.height[x] = t.height[x] /\ u.num_nodes[x] = t.num_nodes[x]
  /\ u.height[l] = 1 + Higher(HeightOf(t, e), HeightOf(t, t.left[l]))
  /\ u.height[c] = 1 + Higher(HeightOf(t, t.right[c]), u.height[l])
  /\ u.num_nodes[l] = 1 + SizeOf(t, e) + SizeOf(t, t.left[l])
  /\ u.num_nodes[c] = 1 + SizeOf(t, t.right[c]) + u.num_nodes[l]

(* left_rotate on the left child of a node in the tree writes these        *)
(* pointers and measures.                                                  *)
LEMMA LeftRotateFields ==
  ASSUME NEW t \in Tree, Linked(t), NEW l \in InTree(t), NEW n \in InTree(t),
         l = t.left[n], NEW c \in InTree(t), c = t.right[l], NEW e \in Slot, e = t.left[c],
         n # l, n # c, n # e, l # c, l # e, e # c, t.right[c] # l
  PROVE  RotatedLeft(t, LeftRotate(t, l), l, c, e, n)
<1>1. l \in Node /\ n \in Node /\ c \in Node /\ Null \notin Node
      /\ t.parent[l] = n /\ t.parent[c] = l /\ Placed(t, l) /\ t.left[n] # t.right[n]
  BY LinkedFacts, NodeAssumption, SMTT(60) DEF InTree
<1>2. PICK s \in Tree : s = Mirror(t)
  BY MirrorFields
<1>3. /\ s.left = t.right /\ s.right = t.left /\ s.parent = t.parent
      /\ s.root = t.root /\ s.size = t.size
      /\ s.height = t.height /\ s.num_nodes = t.num_nodes
      /\ InTree(s) = InTree(t) /\ Linked(s)
  BY <1>2, MirrorFields, MirrorLinked
<1>4. RotatesRight(s, l, c, e, n)
  BY <1>1, <1>3 DEF RotatesRight, Slot
<1>5. PICK w : w = RightRotate(s, l)
  OBVIOUS
<1>6. RotatedRight(s, w, l, c, e, n) /\ w \in Tree
  <2>1. RotatedRight(s, w, l, c, e, n)
    BY <1>4, <1>5, RightRotateFields
  <2> QED BY <2>1 DEF RotatedRight
<1>7. InTree(w) = InTree(s) /\ Linked(w)
  BY <1>3, <1>4, <1>6, RightRotateLinked
<1>8. PICK u \in Tree : u = Mirror(w)
  BY <1>6, MirrorFields
<1>9. LeftRotate(t, l) = u
  BY <1>1, <1>2, <1>5, <1>8, MirrorLeftRotate
<1>10. /\ u.left = w.right /\ u.right = w.left /\ u.parent = w.parent
       /\ u.root = w.root /\ u.size = w.size
       /\ u.height = w.height /\ u.num_nodes = w.num_nodes
       /\ InTree(u) = InTree(t) /\ Linked(u)
  BY <1>3, <1>6, <1>7, <1>8, MirrorFields, MirrorLinked
<1>11. /\ w.size = s.size
       /\ w.root = (IF n = Null THEN c ELSE s.root)
       /\ w.left[l] = e /\ w.right[l] = s.right[l]
       /\ w.left[c] = s.left[c] /\ w.right[c] = l
       /\ (n # Null /\ l # s.left[n] => w.left[n] = s.left[n] /\ w.right[n] = c)
       /\ \A x \in Node \ {l, c, n} : w.left[x] = s.left[x] /\ w.right[x] = s.right[x]
       /\ \A x \in Node \ {l, c, e} : w.parent[x] = s.parent[x]
       /\ \A x \in Node \ {l, c} : w.height[x] = s.height[x] /\ w.num_nodes[x] = s.num_nodes[x]
       /\ w.height[l] = 1 + Higher(HeightOf(s, e), HeightOf(s, s.right[l]))
       /\ w.height[c] = 1 + Higher(HeightOf(s, s.left[c]), w.height[l])
       /\ w.num_nodes[l] = 1 + SizeOf(s, e) + SizeOf(s, s.right[l])
       /\ w.num_nodes[c] = 1 + SizeOf(s, s.left[c]) + w.num_nodes[l]
  BY <1>6 DEF RotatedRight
<1>12. \A x : HeightOf(s, x) = HeightOf(t, x) /\ SizeOf(s, x) = SizeOf(t, x)
  BY <1>3 DEF HeightOf, SizeOf
<1>13. n # Null /\ l # s.left[n]
  BY <1>1, <1>3
<1>14. /\ u.size = t.size /\ u.root = t.root
       /\ u.right[l] = e /\ u.left[l] = t.left[l]
       /\ u.right[c] = t.right[c] /\ u.left[c] = l
       /\ u.left[n] = c /\ u.right[n] = t.right[n]
       /\ \A x \in Node \ {l, c, n} : u.left[x] = t.left[x] /\ u.right[x] = t.right[x]
       /\ u.parent[n] = t.parent[n]
  <2>1. /\ u.size = t.size /\ u.root = t.root
        /\ u.right[l] = e /\ u.left[l] = t.left[l]
        /\ u.right[c] = t.right[c] /\ u.left[c] = l
        /\ u.left[n] = c /\ u.right[n] = t.right[n]
    BY <1>3, <1>10, <1>11, <1>13, ZenonT(30)
  <2>2. ASSUME NEW x \in Node \ {l, c, n}
        PROVE  u.left[x] = t.left[x] /\ u.right[x] = t.right[x]
    <3>1. w.left[x] = s.left[x] /\ w.right[x] = s.right[x]
      BY <1>11, Zenon
    <3>2. /\ s.left = t.right /\ s.right = t.left
          /\ u.left = w.right /\ u.right = w.left
      BY <1>3, <1>10, Zenon
    <3> QED BY <3>1, <3>2, Zenon
  <2>3. n \in Node \ {l, c, e}
    BY <1>1
  <2>4. u.parent[n] = t.parent[n]
    BY <1>3, <1>10, <1>11, <2>3, ZenonT(30)
  <2> QED BY <2>1, <2>2, <2>4
<1>15. /\ \A x \in Node \ {l, c} : u.height[x] = t.height[x] /\ u.num_nodes[x] = t.num_nodes[x]
       /\ u.height[l] = 1 + Higher(HeightOf(t, e), HeightOf(t, t.left[l]))
       /\ u.height[c] = 1 + Higher(HeightOf(t, t.right[c]), u.height[l])
       /\ u.num_nodes[l] = 1 + SizeOf(t, e) + SizeOf(t, t.left[l])
       /\ u.num_nodes[c] = 1 + SizeOf(t, t.right[c]) + u.num_nodes[l]
  <2>1. ASSUME NEW x \in Node \ {l, c}
        PROVE  u.height[x] = t.height[x] /\ u.num_nodes[x] = t.num_nodes[x]
    <3>1. w.height[x] = s.height[x] /\ w.num_nodes[x] = s.num_nodes[x]
      BY <1>11, Zenon
    <3>2. /\ s.height = t.height /\ s.num_nodes = t.num_nodes
          /\ u.height = w.height /\ u.num_nodes = w.num_nodes
      BY <1>3, <1>10, Zenon
    <3> QED BY <3>1, <3>2, Zenon
  <2>2. /\ s.right[l] = t.left[l] /\ s.left[c] = t.right[c]
        /\ HeightOf(s, e) = HeightOf(t, e) /\ SizeOf(s, e) = SizeOf(t, e)
        /\ HeightOf(s, t.left[l]) = HeightOf(t, t.left[l])
        /\ SizeOf(s, t.left[l]) = SizeOf(t, t.left[l])
        /\ HeightOf(s, t.right[c]) = HeightOf(t, t.right[c])
        /\ SizeOf(s, t.right[c]) = SizeOf(t, t.right[c])
    BY <1>3, <1>12
  <2>3. /\ w.height[l] = 1 + Higher(HeightOf(t, e), HeightOf(t, t.left[l]))
        /\ w.height[c] = 1 + Higher(HeightOf(t, t.right[c]), w.height[l])
        /\ w.num_nodes[l] = 1 + SizeOf(t, e) + SizeOf(t, t.left[l])
        /\ w.num_nodes[c] = 1 + SizeOf(t, t.right[c]) + w.num_nodes[l]
    <3>1. /\ w.height[l] = 1 + Higher(HeightOf(s, e), HeightOf(s, s.right[l]))
          /\ w.height[c] = 1 + Higher(HeightOf(s, s.left[c]), w.height[l])
          /\ w.num_nodes[l] = 1 + SizeOf(s, e) + SizeOf(s, s.right[l])
          /\ w.num_nodes[c] = 1 + SizeOf(s, s.left[c]) + w.num_nodes[l]
      BY <1>11, Zenon
    <3>2. w.height[l] = 1 + Higher(HeightOf(t, e), HeightOf(t, t.left[l]))
      BY <2>2, <3>1, Zenon
    <3>3. w.height[c] = 1 + Higher(HeightOf(t, t.right[c]), w.height[l])
      BY <2>2, <3>1, Zenon
    <3>4. w.num_nodes[l] = 1 + SizeOf(t, e) + SizeOf(t, t.left[l])
      BY <2>2, <3>1, Zenon
    <3>5. w.num_nodes[c] = 1 + SizeOf(t, t.right[c]) + w.num_nodes[l]
      BY <2>2, <3>1, Zenon
    <3> QED BY <3>2, <3>3, <3>4, <3>5
  <2> QED BY <1>10, <2>1, <2>3, Zenon
<1> QED BY <1>8, <1>9, <1>10, <1>14, <1>15, ZenonT(40) DEF RotatedLeft

(* Both rotations: c takes the place of n, which becomes its right child,  *)
(* and l its left one; c's children e and f go to l and n.                 *)
RotatedTwice(t, u, n, l, c, e, f, p) ==
  /\ u \in Tree /\ Linked(u) /\ InTree(u) = InTree(t) /\ u.size = t.size
  /\ u.root = (IF p = Null THEN c ELSE t.root)
  /\ u.left[n] = f /\ u.right[n] = t.right[n]
  /\ u.left[c] = l /\ u.right[c] = n
  /\ u.right[l] = e /\ u.left[l] = t.left[l]
  /\ (p # Null /\ n = t.left[p] => u.left[p] = c /\ u.right[p] = t.right[p])
  /\ (p # Null /\ n # t.left[p] => u.left[p] = t.left[p] /\ u.right[p] = c)
  /\ \A x \in Node \ {n, l, c, p} : u.left[x] = t.left[x] /\ u.right[x] = t.right[x]
  /\ \A x \in Node \ {n, l, c} :
        u.height[x] = t.height[x] /\ u.num_nodes[x] = t.num_nodes[x]
  /\ u.height[l] = 1 + Higher(HeightOf(t, e), HeightOf(t, t.left[l]))
  /\ u.num_nodes[l] = 1 + SizeOf(t, e) + SizeOf(t, t.left[l])
  /\ u.height[n] = 1 + Higher(HeightOf(t, f), HeightOf(t, t.right[n]))
  /\ u.num_nodes[n] = 1 + SizeOf(t, f) + SizeOf(t, t.right[n])
  /\ u.height[c] = 1 + Higher(u.height[l], u.height[n])
  /\ u.num_nodes[c] = 1 + u.num_nodes[l] + u.num_nodes[n]

(* The inner grandchild of a defect that leans to the left and inwards.    *)
InnerHigh(t, n, p, l, c, e, f) ==
  /\ c \in InTree(t) /\ c \in Node /\ c # n /\ c # p /\ c # l
  /\ e \in Slot /\ f \in Slot /\ e \notin {n, l, c} /\ f \notin {n, l, c}
  /\ e = t.left[c] /\ f = t.right[c] /\ (f # Null => f # p)
  /\ t.parent[c] = l /\ Exact(t, c)
  /\ t.right[n] # c /\ t.left[l] # c
  /\ HeightOf(t, c) = HeightOf(t, t.right[n]) + 1
  /\ HeightOf(t, t.left[l]) = HeightOf(t, t.right[n])

(* When that left child leans to the right, its right child is there and   *)
(* is what makes it high.                                                  *)
LEMMA InnerHighFacts ==
  ASSUME NEW t, NEW n, NEW d \in {-1, 1}, Defect(t, n, d), n # Null,
         NEW p, p = t.parent[n], NEW l, l = t.left[n], NEW c, c = t.right[l],
         HighLeft(t, n, p, l, c), BalanceFactor(t, l) \notin {0, 1},
         NEW e, e = t.left[c], NEW f, f = t.right[c]
  PROVE  InnerHigh(t, n, p, l, c, e, f)
<1>1. /\ t \in Tree /\ Linked(t) /\ Positive(t)
      /\ \A x \in InTree(t) \ {n} : Exact(t, x)
  BY DEF Defect
<1>4. /\ n \in InTree(t) /\ n \in Node /\ l \in InTree(t) /\ l \in Node
      /\ p \in InTree(t) \cup {Null} /\ p \in Slot
      /\ c \in InTree(t) \cup {Null} /\ c \in Slot
      /\ t.right[n] \in Slot /\ t.right[n] # n /\ t.right[n] # l /\ t.left[l] \in Slot
      /\ n # l /\ n # c /\ n # p /\ l # c /\ l # p /\ t.left[l] # n /\ t.left[l] # l
      /\ t.parent[l] = n
      /\ (p = Null <=> n = t.root)
      /\ (p # Null => /\ n \in {t.left[p], t.right[p]} /\ t.left[p] # t.right[p]
                      /\ t.left[p] \in Slot /\ t.right[p] \in Slot)
      /\ HeightOf(t, l) - HeightOf(t, t.right[n]) = 2
      /\ t.height[n] \in {HeightOf(t, l), HeightOf(t, l) + 1}
      /\ Exact(t, l)
  BY DEF HighLeft
<1>5. PICK hll, hc, L, R \in Nat :
         /\ hll = HeightOf(t, t.left[l]) /\ hc = HeightOf(t, c)
         /\ L = HeightOf(t, l) /\ R = HeightOf(t, t.right[n])
  <2>1. l \in Slot
    BY <1>4 DEF Slot
  <2> QED BY <1>1, <1>4, <2>1, MeasuresType
<1>6. l # Null /\ n # Null
  BY <1>4, NodeAssumption
<1>7. /\ L = 1 + hc /\ hll = R /\ hc = R + 1 /\ L = R + 2
      /\ t.height[n] \in {L, L + 1}
  <2>1. L = 1 + Higher(hll, hc) /\ hll - hc \in -1 .. 1 /\ hll - hc \notin {0, 1} /\ L - R = 2
    BY <1>4, <1>5, <1>6 DEF Exact, BalanceFactor, HeightOf
  <2> QED BY <1>4, <1>5, <2>1, SMTT(60) DEF Higher
<1>8. c # Null
  BY <1>5, <1>7 DEF HeightOf
<1>9. Distinct(t, n, p, l)
  BY <1>6, DefectNeighbours
<1>10. /\ c \in InTree(t) /\ c # n /\ c # p /\ c # l /\ t.parent[c] = l
       /\ \A z \in {t.left[c], t.right[c]} : z # Null => z \notin {n, p, l, c}
  BY <1>8, <1>9 DEF Distinct
<1>11. c \in Node /\ e \in Slot /\ f \in Slot /\ n # Null /\ l # Null /\ c # Null
  BY <1>1, <1>6, <1>8, <1>10 DEF Tree, InTree
<1>12. /\ e \notin {n, l, c} /\ f \notin {n, l, c} /\ (f # Null => f # p) /\ Exact(t, c)
  BY <1>1, <1>10, <1>11
<1>13. t.right[n] # c /\ t.left[l] # c
  <2>1. t.right[n] # Null => t.parent[t.right[n]] = n
    BY <1>1, <1>4, LinkedFacts
  <2>2. c # Null => t.left[l] # c
    BY <1>1, <1>4, LinkedFacts
  <2> QED BY <1>4, <1>8, <1>10, <2>1, <2>2
<1>14. HeightOf(t, c) = HeightOf(t, t.right[n]) + 1 /\ HeightOf(t, t.left[l]) = HeightOf(t, t.right[n])
  BY <1>5, <1>7
<1> QED BY <1>10, <1>11, <1>12, <1>13, <1>14 DEF InnerHigh

(* left_rotate at the left child and then right_rotate at the defect put   *)
(* the inner grandchild in the place of both.                              *)
LEMMA TwoRotationsFields ==
  ASSUME NEW t \in Tree, Linked(t), NEW n, NEW p, p = t.parent[n], NEW v \in Tree,
         NEW d, DefectMeasuredIn(t, v, n, d), NEW l, l = t.left[n], NEW c, c = t.right[l],
         HighLeft(t, n, p, l, c), NEW e, NEW f, InnerHigh(t, n, p, l, c, e, f),
         NEW w, w = LeftRotate(v, l), NEW u, u = RightRotate(w, n)
  PROVE  RotatedTwice(t, u, n, l, c, e, f, p) /\ RotatedLeft(v, w, l, c, e, n)
<1>2. /\ v \in Tree /\ Linked(v) /\ InTree(v) = InTree(t)
      /\ v.root = t.root /\ v.size = t.size
      /\ v.left = t.left /\ v.right = t.right /\ v.parent = t.parent
      /\ \A x \in Node \ {n} : v.height[x] = t.height[x] /\ v.num_nodes[x] = t.num_nodes[x]
      /\ \A x \in Slot \ {n} : HeightOf(v, x) = HeightOf(t, x) /\ SizeOf(v, x) = SizeOf(t, x)
  BY DEF DefectMeasuredIn
<1>4. /\ n \in InTree(t) /\ n \in Node /\ l \in InTree(t) /\ l \in Node
      /\ p \in InTree(t) \cup {Null} /\ p \in Slot
      /\ c \in InTree(t) \cup {Null} /\ c \in Slot
      /\ t.right[n] \in Slot /\ t.right[n] # n /\ t.right[n] # l /\ t.left[l] \in Slot
      /\ n # l /\ n # c /\ n # p /\ l # c /\ l # p /\ t.left[l] # n /\ t.left[l] # l
      /\ t.parent[l] = n
      /\ (p = Null <=> n = t.root)
      /\ (p # Null => /\ n \in {t.left[p], t.right[p]} /\ t.left[p] # t.right[p]
                      /\ t.left[p] \in Slot /\ t.right[p] \in Slot)
      /\ HeightOf(t, l) - HeightOf(t, t.right[n]) = 2
      /\ t.height[n] \in {HeightOf(t, l), HeightOf(t, l) + 1}
      /\ Exact(t, l)
  BY DEF HighLeft
<1>6. l # Null /\ n # Null /\ Null \notin Node
  BY <1>4, NodeAssumption
<1>11. /\ c \in InTree(t) /\ c \in Node /\ c # n /\ c # p /\ c # l
       /\ e \in Slot /\ f \in Slot /\ e \notin {n, l, c} /\ f \notin {n, l, c}
       /\ e = t.left[c] /\ f = t.right[c] /\ (f # Null => f # p)
       /\ t.parent[c] = l /\ t.right[n] # c /\ t.left[l] # c
  BY DEF InnerHigh
<1>13. RotatedLeft(v, w, l, c, e, n)
  BY <1>2, <1>4, <1>11, LeftRotateFields
<1>a. /\ t.left[l] \in Slot \ {n} /\ e \in Slot \ {n} /\ n \in Node \ {l, c}
  BY <1>4, <1>11
<1>14. /\ w \in Tree /\ Linked(w) /\ InTree(w) = InTree(t) /\ w.size = t.size /\ w.root = t.root
       /\ w.right[l] = e /\ w.left[l] = t.left[l]
       /\ w.right[c] = f /\ w.left[c] = l
       /\ w.left[n] = c /\ w.right[n] = t.right[n]
       /\ \A x \in Node \ {l, c, n} : w.left[x] = t.left[x] /\ w.right[x] = t.right[x]
       /\ w.parent[n] = p
  <2>1. f = t.right[c] /\ t.parent[n] = p
    BY <1>11
  <2>2. /\ v.root = t.root /\ v.size = t.size /\ InTree(v) = InTree(t)
        /\ v.left = t.left /\ v.right = t.right /\ v.parent = t.parent
    BY <1>2
  <2>3. /\ w \in Tree /\ Linked(w) /\ InTree(w) = InTree(v)
        /\ w.size = v.size /\ w.root = v.root
        /\ w.right[l] = e /\ w.left[l] = v.left[l]
        /\ w.right[c] = v.right[c] /\ w.left[c] = l
        /\ w.left[n] = c /\ w.right[n] = v.right[n]
        /\ w.parent[n] = v.parent[n]
    BY <1>13 DEF RotatedLeft
  <2>4. \A x \in Node \ {l, c, n} : w.left[x] = v.left[x] /\ w.right[x] = v.right[x]
    BY <1>13, Zenon DEF RotatedLeft
  <2>5. \A x \in Node \ {l, c, n} : w.left[x] = t.left[x] /\ w.right[x] = t.right[x]
    BY <2>2, <2>4, ZenonT(30)
  <2> QED BY <2>1, <2>2, <2>3, <2>5
<1>b. /\ \A x \in Node \ {l, c, n} :
            w.height[x] = t.height[x] /\ w.num_nodes[x] = t.num_nodes[x]
      /\ w.height[l] = 1 + Higher(HeightOf(t, e), HeightOf(t, t.left[l]))
      /\ w.num_nodes[l] = 1 + SizeOf(t, e) + SizeOf(t, t.left[l])
  <2>1. /\ \A x \in Node \ {l, c} :
             w.height[x] = v.height[x] /\ w.num_nodes[x] = v.num_nodes[x]
        /\ w.height[l] = 1 + Higher(HeightOf(v, e), HeightOf(v, v.left[l]))
        /\ w.num_nodes[l] = 1 + SizeOf(v, e) + SizeOf(v, v.left[l])
    BY <1>13, Zenon DEF RotatedLeft
  <2>2. /\ HeightOf(v, e) = HeightOf(t, e) /\ SizeOf(v, e) = SizeOf(t, e)
        /\ HeightOf(v, v.left[l]) = HeightOf(t, t.left[l])
        /\ SizeOf(v, v.left[l]) = SizeOf(t, t.left[l])
    BY <1>2, <1>a, Zenon
  <2>3. \A x \in Node \ {l, c, n} :
           w.height[x] = t.height[x] /\ w.num_nodes[x] = t.num_nodes[x]
    BY <1>2, <2>1
  <2> QED BY <2>1, <2>2, <2>3, Zenon
<1>15. RotatesRight(w, n, c, f, p)
  BY <1>4, <1>11, <1>14 DEF RotatesRight
<1>16. RotatedRight(w, u, n, c, f, p)
  BY <1>14, <1>15, RightRotateFields
<1>17. InTree(u) = InTree(t) /\ Linked(u)
  BY <1>4, <1>14, <1>15, <1>16, RightRotateLinked
<1>18. \A x \in Slot \ {l, c, n} : HeightOf(w, x) = HeightOf(t, x) /\ SizeOf(w, x) = SizeOf(t, x)
  BY <1>b DEF HeightOf, SizeOf, Slot
<1>20. /\ u \in Tree /\ u.size = t.size
       /\ u.root = (IF p = Null THEN c ELSE t.root)
       /\ u.left[n] = f /\ u.right[n] = t.right[n]
       /\ u.left[c] = l /\ u.right[c] = n
       /\ u.right[l] = e /\ u.left[l] = t.left[l]
       /\ (p # Null /\ n = t.left[p] => u.left[p] = c /\ u.right[p] = t.right[p])
       /\ (p # Null /\ n # t.left[p] => u.left[p] = t.left[p] /\ u.right[p] = c)
       /\ \A x \in Node \ {n, l, c, p} : u.left[x] = t.left[x] /\ u.right[x] = t.right[x]
  <2>1. p # Null => p \in Node /\ w.left[p] = t.left[p] /\ w.right[p] = t.right[p]
    BY <1>4, <1>11, <1>14 DEF Slot
  <2>2. /\ u \in Tree /\ u.size = w.size
        /\ u.root = (IF p = Null THEN c ELSE w.root)
        /\ u.left[n] = f /\ u.right[n] = w.right[n]
        /\ u.left[c] = w.left[c] /\ u.right[c] = n
        /\ (p # Null /\ n = w.left[p] => u.left[p] = c /\ u.right[p] = w.right[p])
        /\ (p # Null /\ n # w.left[p] => u.left[p] = w.left[p] /\ u.right[p] = c)
        /\ \A x \in Node \ {n, c, p} : u.left[x] = w.left[x] /\ u.right[x] = w.right[x]
    BY <1>16, Zenon DEF RotatedRight
  <2>3. l \in Node \ {n, c, p}
    BY <1>4, <1>11
  <2>4. u.left[l] = t.left[l] /\ u.right[l] = e
    BY <1>14, <2>2, <2>3, Zenon
  <2>5. ASSUME NEW x \in Node \ {n, l, c, p}
        PROVE  u.left[x] = t.left[x] /\ u.right[x] = t.right[x]
    <3>1. x \in Node \ {n, c, p} /\ x \in Node \ {l, c, n}
      OBVIOUS
    <3>2. u.left[x] = w.left[x] /\ u.right[x] = w.right[x]
      BY <2>2, <3>1, Zenon
    <3>3. w.left[x] = t.left[x] /\ w.right[x] = t.right[x]
      BY <1>14, <3>1, Zenon
    <3> QED BY <3>2, <3>3
  <2>6. /\ (p # Null /\ n = t.left[p] => u.left[p] = c /\ u.right[p] = t.right[p])
        /\ (p # Null /\ n # t.left[p] => u.left[p] = t.left[p] /\ u.right[p] = c)
    BY <2>1, <2>2, Zenon
  <2> QED BY <1>14, <2>2, <2>4, <2>5, <2>6, Zenon
<1>21. /\ \A x \in Node \ {n, l, c} :
             u.height[x] = t.height[x] /\ u.num_nodes[x] = t.num_nodes[x]
       /\ u.height[l] = w.height[l] /\ u.num_nodes[l] = w.num_nodes[l]
       /\ u.height[n] = 1 + Higher(HeightOf(t, f), HeightOf(t, t.right[n]))
       /\ u.height[c] = 1 + Higher(u.height[l], u.height[n])
       /\ u.num_nodes[n] = 1 + SizeOf(t, f) + SizeOf(t, t.right[n])
       /\ u.num_nodes[c] = 1 + u.num_nodes[l] + u.num_nodes[n]
  <2>1. /\ \A x \in Node \ {n, c} :
             u.height[x] = w.height[x] /\ u.num_nodes[x] = w.num_nodes[x]
        /\ u.height[n] = 1 + Higher(HeightOf(w, f), HeightOf(w, w.right[n]))
        /\ u.height[c] = 1 + Higher(HeightOf(w, w.left[c]), u.height[n])
        /\ u.num_nodes[n] = 1 + SizeOf(w, f) + SizeOf(w, w.right[n])
        /\ u.num_nodes[c] = 1 + SizeOf(w, w.left[c]) + u.num_nodes[n]
    BY <1>16 DEF RotatedRight
  <2>2. HeightOf(w, l) = w.height[l] /\ SizeOf(w, l) = w.num_nodes[l]
    BY <1>6 DEF HeightOf, SizeOf
  <2>3. l \in Node \ {n, c} /\ f \in Slot \ {l, c, n} /\ t.right[n] \in Slot \ {l, c, n}
    BY <1>4, <1>11
  <2>4. u.height[l] = w.height[l] /\ u.num_nodes[l] = w.num_nodes[l]
    BY <2>1, <2>3, Zenon
  <2>5. /\ HeightOf(w, f) = HeightOf(t, f) /\ SizeOf(w, f) = SizeOf(t, f)
        /\ HeightOf(w, w.right[n]) = HeightOf(t, t.right[n])
        /\ SizeOf(w, w.right[n]) = SizeOf(t, t.right[n])
        /\ w.left[c] = l
    BY <1>14, <1>18, <2>3, Zenon
  <2>6. \A x \in Node \ {n, l, c} :
           u.height[x] = t.height[x] /\ u.num_nodes[x] = t.num_nodes[x]
    <3>1. TAKE x \in Node \ {n, l, c}
    <3>2. x \in Node \ {n, c} /\ x \in Node \ {l, c, n}
      OBVIOUS
    <3>3. u.height[x] = w.height[x] /\ u.num_nodes[x] = w.num_nodes[x]
      BY <2>1, <3>2, Zenon
    <3>4. w.height[x] = t.height[x] /\ w.num_nodes[x] = t.num_nodes[x]
      BY <1>b, <3>2, Zenon
    <3> QED BY <3>3, <3>4
  <2>7. /\ u.height[n] = 1 + Higher(HeightOf(t, f), HeightOf(t, t.right[n]))
        /\ u.num_nodes[n] = 1 + SizeOf(t, f) + SizeOf(t, t.right[n])
    BY <2>1, <2>5, Zenon
  <2>8. u.height[c] = 1 + Higher(u.height[l], u.height[n])
    BY <2>1, <2>2, <2>4, <2>5, ZenonT(30)
  <2>9. u.num_nodes[c] = 1 + u.num_nodes[l] + u.num_nodes[n]
    BY <2>1, <2>2, <2>4, <2>5, ZenonT(30)
  <2> QED BY <2>4, <2>6, <2>7, <2>8, <2>9
<1>22. \A x \in Slot \ {n, l, c} : HeightOf(u, x) = HeightOf(t, x) /\ SizeOf(u, x) = SizeOf(t, x)
  BY <1>21 DEF HeightOf, SizeOf, Slot
<1> QED BY <1>13, <1>14, <1>b, <1>17, <1>20, <1>21, Zenon DEF RotatedTwice

(* A round whose defect is rotated after its left child is: the inner      *)
(* grandchild takes its place.                                             *)
LEMMA RoundWithTwoRotations ==
  ASSUME NEW t, NEW n, NEW d \in {-1, 1}, Defect(t, n, d), n # Null,
         NEW p, p = t.parent[n], NEW v, v = UpdateMeta(t, n),
         BalanceFactor(v, n) > 1, NEW l, l = t.left[n], NEW c, c = t.right[l],
         BalanceFactor(v, l) \notin {0, 1},
         NEW w, w = LeftRotate(v, l), NEW u, u = RightRotate(w, n)
  PROVE  /\ StandsFor(t, u, n, c, p, d) /\ w.left[n] = c /\ c \in Node
         /\ w \in Tree /\ Linked(w) /\ InTree(w) = InTree(t)
<1>1. /\ t \in Tree /\ Linked(t) /\ Positive(t)
      /\ \A x \in InTree(t) \ {n} : Exact(t, x)
      /\ t.num_nodes[n] + d = 1 + SizeOf(t, l) + SizeOf(t, t.right[n])
  BY DEF Defect
<1>2. DefectMeasuredIn(t, v, n, d) /\ v \in Tree
  <2>1. DefectMeasuredIn(t, v, n, d)
    BY DefectMeasured
  <2> QED BY <2>1 DEF DefectMeasuredIn
<1>3. HighLeft(t, n, p, l, c) /\ BalanceFactor(t, l) \notin {0, 1}
  BY HighLeftFacts
<1>4. /\ n \in InTree(t) /\ n \in Node /\ l \in InTree(t) /\ l \in Node
      /\ p \in InTree(t) \cup {Null} /\ p \in Slot
      /\ c \in InTree(t) \cup {Null} /\ c \in Slot
      /\ t.right[n] \in Slot /\ t.right[n] # n /\ t.right[n] # l /\ t.left[l] \in Slot
      /\ n # l /\ n # c /\ n # p /\ l # c /\ l # p /\ t.left[l] # n /\ t.left[l] # l
      /\ t.parent[l] = n
      /\ (p = Null <=> n = t.root)
      /\ (p # Null => /\ n \in {t.left[p], t.right[p]} /\ t.left[p] # t.right[p]
                      /\ t.left[p] \in Slot /\ t.right[p] \in Slot)
      /\ HeightOf(t, l) - HeightOf(t, t.right[n]) = 2
      /\ t.height[n] \in {HeightOf(t, l), HeightOf(t, l) + 1}
      /\ Exact(t, l)
  BY <1>3 DEF HighLeft
<1>5. PICK e, f : e = t.left[c] /\ f = t.right[c]
  OBVIOUS
<1>6. l # Null /\ n # Null
  BY <1>4, NodeAssumption
<1>7. InnerHigh(t, n, p, l, c, e, f)
  BY <1>3, <1>5, <1>6, InnerHighFacts
<1>8. /\ c \in InTree(t) /\ c \in Node /\ c # n /\ c # p /\ c # l /\ c # Null
      /\ e \in Slot /\ f \in Slot /\ e \notin {n, l, c} /\ f \notin {n, l, c}
      /\ t.parent[c] = l /\ Exact(t, c)
      /\ t.right[n] # c /\ t.left[l] # c
      /\ HeightOf(t, c) = HeightOf(t, t.right[n]) + 1
      /\ HeightOf(t, t.left[l]) = HeightOf(t, t.right[n])
  BY <1>7, NodeAssumption DEF InnerHigh
<1>9. /\ RotatedTwice(t, u, n, l, c, e, f, p)
      /\ w \in Tree /\ Linked(w) /\ InTree(w) = InTree(t) /\ w.left[n] = c
  <2>1. t \in Tree /\ Linked(t) /\ HighLeft(t, n, p, l, c)
    BY <1>1, <1>3
  <2>2. RotatedTwice(t, u, n, l, c, e, f, p) /\ RotatedLeft(v, w, l, c, e, n)
    BY <1>2, <1>7, <2>1, TwoRotationsFields
  <2>3. InTree(v) = InTree(t)
    BY <1>2 DEF DefectMeasuredIn
  <2> QED BY <2>2, <2>3 DEF RotatedLeft
<1>10. /\ u \in Tree /\ Linked(u) /\ InTree(u) = InTree(t) /\ u.size = t.size
       /\ u.root = (IF p = Null THEN c ELSE t.root)
       /\ u.left[n] = f /\ u.right[n] = t.right[n]
       /\ u.left[c] = l /\ u.right[c] = n
       /\ u.right[l] = e /\ u.left[l] = t.left[l]
       /\ (p # Null /\ n = t.left[p] => u.left[p] = c /\ u.right[p] = t.right[p])
       /\ (p # Null /\ n # t.left[p] => u.left[p] = t.left[p] /\ u.right[p] = c)
       /\ \A x \in Node \ {n, l, c, p} : u.left[x] = t.left[x] /\ u.right[x] = t.right[x]
       /\ \A x \in Node \ {n, l, c} :
             u.height[x] = t.height[x] /\ u.num_nodes[x] = t.num_nodes[x]
       /\ u.height[l] = 1 + Higher(HeightOf(t, e), HeightOf(t, t.left[l]))
       /\ u.num_nodes[l] = 1 + SizeOf(t, e) + SizeOf(t, t.left[l])
       /\ u.height[n] = 1 + Higher(HeightOf(t, f), HeightOf(t, t.right[n]))
       /\ u.num_nodes[n] = 1 + SizeOf(t, f) + SizeOf(t, t.right[n])
       /\ u.height[c] = 1 + Higher(u.height[l], u.height[n])
       /\ u.num_nodes[c] = 1 + u.num_nodes[l] + u.num_nodes[n]
  BY <1>9 DEF RotatedTwice
<1>11. \A x \in Slot \ {n, l, c} : HeightOf(u, x) = HeightOf(t, x) /\ SizeOf(u, x) = SizeOf(t, x)
  BY <1>10, ZenonT(40) DEF HeightOf, SizeOf, Slot
<1>12. PICK he, hf, R \in Nat :
         he = HeightOf(t, e) /\ hf = HeightOf(t, f) /\ R = HeightOf(t, t.right[n])
  BY <1>1, <1>4, <1>8, MeasuresType
<1>13. PICK sll, se, sf, sr \in Nat :
         /\ sll = SizeOf(t, t.left[l]) /\ se = SizeOf(t, e) /\ sf = SizeOf(t, f)
         /\ sr = SizeOf(t, t.right[n])
  BY <1>1, <1>4, <1>8, MeasuresType
<1>14. he \in {R, R - 1} /\ hf \in {R, R - 1} /\ he - hf \in -1 .. 1 /\ R = Higher(he, hf)
  <2>1. R + 1 = 1 + Higher(he, hf) /\ he - hf \in -1 .. 1
    BY <1>5, <1>8, <1>12 DEF Exact, BalanceFactor, HeightOf
  <2> QED BY <2>1 DEF Higher
<1>15. /\ u.height[l] = R + 1 /\ u.height[n] = R + 1 /\ u.height[c] = R + 2
       /\ u.height[l] = 1 + Higher(R, he) /\ u.height[n] = 1 + Higher(hf, R)
       /\ R - he \in -1 .. 1 /\ hf - R \in -1 .. 1
       /\ u.height[c] - t.height[n] \in -1 .. 1
  <2>1. /\ u.height[l] = 1 + Higher(he, R) /\ u.height[n] = 1 + Higher(hf, R)
        /\ u.height[c] = 1 + Higher(u.height[l], u.height[n])
    BY <1>8, <1>10, <1>12, ZenonT(40)
  <2>2. t.height[n] \in {R + 2, R + 3}
    <3>1. /\ HeightOf(t, l) - R = 2
          /\ t.height[n] \in {HeightOf(t, l), HeightOf(t, l) + 1}
      BY <1>4, <1>12, Zenon
    <3>2. HeightOf(t, l) \in Nat
      BY <1>1, <1>4, MeasuresType DEF Slot
    <3> QED BY <3>1, <3>2
  <2> QED BY <1>14, <2>1, <2>2 DEF Higher
<1>16. /\ u.num_nodes[l] = 1 + sll + se /\ u.num_nodes[n] = 1 + sf + sr
       /\ u.num_nodes[c] = 1 + u.num_nodes[l] + u.num_nodes[n]
       /\ u.num_nodes[c] = t.num_nodes[n] + d
  <2>1. SizeOf(t, l) = 1 + sll + SizeOf(t, c)
    BY <1>4, <1>6, <1>13 DEF Exact, SizeOf
  <2>2. SizeOf(t, c) = 1 + se + sf
    BY <1>5, <1>8, <1>13 DEF Exact, SizeOf
  <2>5. 1 + se + sll = 1 + sll + se
    OBVIOUS
  <2>3. u.num_nodes[l] = 1 + sll + se /\ u.num_nodes[n] = 1 + sf + sr
    BY <1>10, <1>13, <2>5, Zenon
  <2>4. t.num_nodes[n] + d = 1 + (1 + sll + (1 + se + sf)) + sr
    BY <1>1, <1>13, <2>1, <2>2
  <2> QED BY <1>10, <2>3, <2>4, SMTT(60)
<1>17. Exact(u, n)
  <2>1. /\ HeightOf(u, f) = hf /\ HeightOf(u, t.right[n]) = R
        /\ SizeOf(u, f) = sf /\ SizeOf(u, t.right[n]) = sr
    BY <1>4, <1>8, <1>11, <1>12, <1>13
  <2> QED BY <1>10, <1>15, <1>16, <2>1, ZenonT(40) DEF Exact, BalanceFactor
<1>18. Exact(u, l)
  <2>1. /\ HeightOf(u, e) = he /\ HeightOf(u, t.left[l]) = R
        /\ SizeOf(u, e) = se /\ SizeOf(u, t.left[l]) = sll
    BY <1>4, <1>8, <1>11, <1>12, <1>13
  <2> QED BY <1>10, <1>15, <1>16, <2>1, ZenonT(40) DEF Exact, BalanceFactor
<1>19. Exact(u, c)
  <2>1. /\ HeightOf(u, n) = u.height[n] /\ SizeOf(u, n) = u.num_nodes[n]
        /\ HeightOf(u, l) = u.height[l] /\ SizeOf(u, l) = u.num_nodes[l]
    BY <1>6 DEF HeightOf, SizeOf
  <2>2. HeightOf(u, l) - HeightOf(u, n) = 0
    BY <1>15, <2>1
  <2>3. /\ u.left[c] = l /\ u.right[c] = n
        /\ u.height[c] = 1 + Higher(u.height[l], u.height[n])
        /\ u.num_nodes[c] = 1 + u.num_nodes[l] + u.num_nodes[n]
    BY <1>10, Zenon
  <2> QED BY <2>1, <2>2, <2>3 DEF Exact, BalanceFactor
<1>20. ASSUME NEW x \in InTree(t) \ {p}, x # n, x # l, x # c PROVE Exact(u, x)
  <2>1. Rotates(t, u, {n, l, c}, p) /\ x \notin {n, l, c}
    <3>1. \A y \in {n, l, c} : t.parent[y] \in {n, l, c} \cup {p}
      BY <1>4, <1>8
    <3>2. /\ \A y \in Node \ {n, l, c} :
                u.height[y] = t.height[y] /\ u.num_nodes[y] = t.num_nodes[y]
          /\ \A y \in Node \ ({n, l, c} \cup {p}) :
                u.left[y] = t.left[y] /\ u.right[y] = t.right[y]
      <4>1. Node \ ({n, l, c} \cup {p}) = Node \ {n, l, c, p}
        OBVIOUS
      <4> QED BY <1>10, <4>1, ZenonT(30)
    <3> QED BY <1>20, <3>1, <3>2 DEF Rotates
  <2>2. Exact(t, x) /\ x \in InTree(t) /\ x # p
    BY <1>1, <1>20
  <2> QED BY <1>1, <2>1, <2>2, OthersStayExact
<1>21. Positive(u)
  <2>1. ASSUME NEW x \in InTree(t) PROVE u.height[x] >= 1 /\ u.num_nodes[x] >= 1
    <3>1. x \in {n, l, c} => u.height[x] >= 1 /\ u.num_nodes[x] >= 1
      BY <1>15, <1>16
    <3>2. x \notin {n, l, c} => u.height[x] >= 1 /\ u.num_nodes[x] >= 1
      BY <1>1, <1>10 DEF Positive, InTree
    <3> QED BY <3>1, <3>2
  <2> QED BY <1>10, <2>1 DEF Positive
<1>22. p # Null =>
         /\ \A x \in {p, t.root, t.left[p], t.right[p]} \ {n, Null} :
              u.height[x] = t.height[x] /\ u.num_nodes[x] = t.num_nodes[x]
         /\ \/ n = t.left[p] /\ u.left[p] = c /\ u.right[p] = t.right[p]
            \/ n = t.right[p] /\ u.right[p] = c /\ u.left[p] = t.left[p]
  <2>1. ASSUME p # Null, NEW x \in {p, t.root, t.left[p], t.right[p]} \ {n, Null}
        PROVE  x \in Node \ {n, l, c}
    <3>1. x \in Node
      BY <1>1, <1>4, <2>1 DEF Tree, Slot
    <3>2. t.root # Null => t.parent[t.root] = Null
      BY <1>1 DEF Linked
    <3>3. x # l /\ x # c
      <4>1. CASE x = p
        BY <1>4, <1>8, <4>1
      <4>2. CASE x = t.root
        BY <1>4, <1>6, <1>8, <2>1, <3>2, <4>2
      <4>3. CASE x \in {t.left[p], t.right[p]}
        <5>1. p \in InTree(t)
          BY <1>4, <2>1
        <5>2. t.parent[x] = p
          BY <1>1, <2>1, <4>3, <5>1, LinkedFacts
        <5> QED BY <1>4, <1>8, <5>2
      <4> QED BY <2>1, <4>1, <4>2, <4>3
    <3> QED BY <2>1, <3>1, <3>3
  <2>2. ASSUME p # Null
        PROVE  \/ n = t.left[p] /\ u.left[p] = c /\ u.right[p] = t.right[p]
               \/ n = t.right[p] /\ u.right[p] = c /\ u.left[p] = t.left[p]
    <3>1. n = t.left[p] \/ (n # t.left[p] /\ n = t.right[p])
      BY <1>4, <2>2
    <3> QED BY <1>10, <2>2, <3>1, Zenon
  <2>3. \A x \in Node \ {n, l, c} :
           u.height[x] = t.height[x] /\ u.num_nodes[x] = t.num_nodes[x]
    BY <1>10, Zenon
  <2> QED BY <2>1, <2>2, <2>3
<1>23. \A x \in InTree(t) \ {p} : Exact(u, x)
  BY <1>17, <1>18, <1>19, <1>20
<1> QED BY <1>8, <1>9, <1>10, <1>15, <1>16, <1>21, <1>22, <1>23 DEF StandsFor

(* What a round makes of the tree: the defect is now at n's parent, which  *)
(* stores a larger size than n did.                                        *)
Advanced(t, u, n, p, d) ==
  /\ Defect(u, p, d) /\ InTree(u) = InTree(t) /\ u.size = t.size
  /\ p # Null => u.num_nodes[p] > t.num_nodes[n]

(* Balance factors are integers, and change their sign in the mirror.      *)
LEMMA MirrorBalanceFactor ==
  ASSUME NEW t \in Tree, NEW n \in Node
  PROVE  /\ BalanceFactor(t, n) \in Int
         /\ BalanceFactor(Mirror(t), n) = -BalanceFactor(t, n)
<1>1. PICK s : s = Mirror(t)
  OBVIOUS
<1>2. s.left = t.right /\ s.right = t.left /\ s.height = t.height
  BY <1>1, MirrorFields
<1>3. t.left[n] \in Slot /\ t.right[n] \in Slot
  BY DEF Tree
<1>4. PICK L, R \in Nat : L = HeightOf(t, t.left[n]) /\ R = HeightOf(t, t.right[n])
  BY <1>3, MeasuresType
<1>5. L = HeightOf(s, s.right[n]) /\ R = HeightOf(s, s.left[n])
  BY <1>2, <1>4 DEF HeightOf
<1>6. BalanceFactor(t, n) = L - R /\ BalanceFactor(s, n) = R - L
  BY <1>4, <1>5 DEF BalanceFactor
<1> QED BY <1>1, <1>6

(* A round at a defect that leans to the left.                             *)
LEMMA RoundAtHighLeft ==
  ASSUME NEW t, NEW n, NEW d \in {-1, 1}, Defect(t, n, d), n # Null,
         NEW p, p = t.parent[n], NEW v, v = UpdateMeta(t, n),
         BalanceFactor(v, n) > 1
  PROVE  Advanced(t, Rotated(v, n), n, p, d)
<1>1. PICK l : l = t.left[n]
  OBVIOUS
<1>2. PICK c : c = t.right[l]
  OBVIOUS
<1>3. n \in Node /\ v \in Tree /\ v.left = t.left
  <2>1. DefectMeasuredIn(t, v, n, d)
    BY DefectMeasured
  <2> QED BY <2>1 DEF DefectMeasuredIn, Defect, InTree
<1>4. BalanceFactor(v, n) \in Int /\ ~(BalanceFactor(v, n) < -1)
  BY <1>3, MirrorBalanceFactor
<1>5. Rotated(v, n) = IF BalanceFactor(v, l) \in {0, 1} THEN RightRotate(v, n)
                      ELSE RightRotate(LeftRotate(v, l), n)
  BY <1>1, <1>3, <1>4 DEF Rotated
<1>6. PICK u : u = Rotated(v, n)
  OBVIOUS
<1>7. \E m : StandsFor(t, u, n, m, p, d)
  <2>1. CASE BalanceFactor(v, l) \in {0, 1}
    <3>1. u = RightRotate(v, n)
      BY <1>5, <1>6, <2>1
    <3>2. StandsFor(t, u, n, l, p, d)
      BY <1>1, <1>2, <2>1, <3>1, RoundWithRotation
    <3> QED BY <3>2
  <2>2. CASE BalanceFactor(v, l) \notin {0, 1}
    <3>1. PICK w : w = LeftRotate(v, l)
      OBVIOUS
    <3>2. u = RightRotate(w, n)
      BY <1>5, <1>6, <2>2, <3>1
    <3>3. StandsFor(t, u, n, c, p, d)
      BY <1>1, <1>2, <2>2, <3>1, <3>2, RoundWithTwoRotations
    <3> QED BY <3>3
  <2> QED BY <2>1, <2>2
<1>8. PICK m : StandsFor(t, u, n, m, p, d)
  BY <1>7
<1>9. Defect(u, p, d) /\ (p # Null => u.num_nodes[p] > t.num_nodes[n])
  BY <1>8, DefectMovesUp
<1>10. InTree(u) = InTree(t) /\ u.size = t.size
  BY <1>8 DEF StandsFor
<1> QED BY <1>6, <1>9, <1>10 DEF Advanced

(* What a round makes of a tree it makes of its mirror image.              *)
LEMMA MirrorAdvanced ==
  ASSUME NEW t \in Tree, NEW z, NEW n, NEW p, NEW d, Advanced(Mirror(t), z, n, p, d)
  PROVE  Advanced(t, Mirror(z), n, p, d)
<1>1. PICK s \in Tree : s = Mirror(t)
  BY MirrorFields
<1>2. s.num_nodes = t.num_nodes /\ s.size = t.size /\ InTree(s) = InTree(t)
  BY <1>1, MirrorFields
<1>3. /\ Defect(z, p, d) /\ InTree(z) = InTree(s) /\ z.size = s.size /\ z \in Tree
      /\ (p # Null => z.num_nodes[p] > s.num_nodes[n])
  BY <1>1 DEF Advanced, Defect
<1>4. PICK u \in Tree : u = Mirror(z)
  BY <1>3, MirrorFields
<1>5. u.num_nodes = z.num_nodes /\ u.size = z.size /\ InTree(u) = InTree(z)
  BY <1>3, <1>4, MirrorFields
<1>6. Defect(u, p, d)
  BY <1>3, <1>4, MirrorDefect
<1> QED BY <1>2, <1>3, <1>4, <1>5, <1>6 DEF Advanced

(* At a defect that leans to the right, a round does what it does in the   *)
(* mirror image, where it leans to the left.                               *)
LEMMA RotatedInMirror ==
  ASSUME NEW t, NEW n, NEW d \in {-1, 1}, Defect(t, n, d), n # Null,
         NEW p, p = t.parent[n], NEW v, v = UpdateMeta(t, n),
         BalanceFactor(v, n) < -1, NEW y, y = Mirror(v)
  PROVE  /\ y = UpdateMeta(Mirror(t), n) /\ Defect(Mirror(t), n, d)
         /\ p = Mirror(t).parent[n] /\ BalanceFactor(y, n) > 1
         /\ Rotated(v, n) = Mirror(Rotated(y, n))
<1>1. t \in Tree /\ n \in InTree(t) /\ n \in Node
  BY DEF Defect, InTree
<1>2. /\ v \in Tree /\ Linked(v) /\ InTree(v) = InTree(t)
      /\ v.left = t.left /\ v.right = t.right /\ v.parent = t.parent
  <2>1. DefectMeasuredIn(t, v, n, d)
    BY DefectMeasured
  <2> QED BY <2>1 DEF DefectMeasuredIn
<1>3. PICK s \in Tree : s = Mirror(t)
  BY <1>1, MirrorFields
<1>4. s.left = t.right /\ s.right = t.left /\ s.parent = t.parent
  BY <1>1, <1>3, MirrorFields
<1>6. y = UpdateMeta(s, n) /\ Mirror(y) = v
  BY <1>1, <1>2, <1>3, MirrorUpdateMeta, MirrorTwice
<1>y. y \in Tree /\ Linked(y) /\ InTree(y) = InTree(t)
  BY <1>2, MirrorFields, MirrorLinked
<1>7. PICK r : r = t.right[n]
  OBVIOUS
<1>8. Defect(s, n, d) /\ p = s.parent[n] /\ r = s.left[n] /\ y.left = s.left /\ y.right = s.right
  <2>1. y.left = s.left /\ y.right = s.right
    BY <1>1, <1>2, <1>4, MirrorFields
  <2> QED BY <1>3, <1>4, <1>7, <2>1, MirrorDefect
<1>9. BalanceFactor(y, n) > 1
  BY <1>1, <1>2, MirrorBalanceFactor
<1>10. PICK c : c = s.right[r]
  OBVIOUS
<1>11. HighLeft(s, n, p, r, c)
  BY <1>6, <1>8, <1>9, <1>10, HighLeftFacts
<1>12. r \in Node /\ r \in InTree(t)
  <2>1. InTree(s) = InTree(t)
    BY <1>1, <1>3, MirrorFields
  <2> QED BY <1>11, <2>1 DEF HighLeft
<1>13. BalanceFactor(v, r) \in Int /\ BalanceFactor(y, r) = -BalanceFactor(v, r)
  BY <1>2, <1>12, MirrorBalanceFactor
<1>14. PICK z : z = Rotated(y, n)
  OBVIOUS
<1>16. BalanceFactor(y, n) \in Int /\ BalanceFactor(v, n) \in Int
  BY <1>1, <1>2, <1>y, MirrorBalanceFactor
<1>17. Rotated(y, n) = IF BalanceFactor(y, r) \in {0, 1} THEN RightRotate(y, n)
                       ELSE RightRotate(LeftRotate(y, r), n)
  BY <1>8, <1>9, <1>16 DEF Rotated
<1>18. Rotated(v, n) = IF BalanceFactor(v, r) \in {-1, 0} THEN LeftRotate(v, n)
                       ELSE LeftRotate(RightRotate(v, r), n)
  BY <1>2, <1>7, <1>16 DEF Rotated
<1>19. Rotated(v, n) = Mirror(z)
  <2>1. CASE BalanceFactor(v, r) \in {-1, 0}
    <3>1. z = RightRotate(y, n) /\ Rotated(v, n) = LeftRotate(v, n)
      BY <1>13, <1>14, <1>17, <1>18, <2>1
    <3>2. Placed(v, n) /\ r = v.right[n]
      BY <1>1, <1>2, <1>7, LinkedFacts
    <3>3. LeftRotate(v, n) = Mirror(RightRotate(y, n))
      BY <1>1, <1>2, <1>12, <3>2, MirrorLeftRotate
    <3> QED BY <3>1, <3>3
  <2>2. CASE BalanceFactor(v, r) \notin {-1, 0}
    <3>1. BalanceFactor(y, r) \notin {0, 1}
      BY <1>13, <2>2
    <3>2. PICK w : w = LeftRotate(y, r)
      OBVIOUS
    <3>3. z = RightRotate(w, n)
      BY <1>14, <1>17, <3>1, <3>2
    <3>4. w \in Tree /\ Linked(w) /\ InTree(w) = InTree(t) /\ w.left[n] = c /\ c \in Node
      <4>1. /\ w.left[n] = c /\ c \in Node
            /\ w \in Tree /\ Linked(w) /\ InTree(w) = InTree(s)
        BY <1>6, <1>8, <1>9, <1>10, <3>1, <3>2, <3>3, RoundWithTwoRotations
      <4> QED BY <1>1, <1>3, <4>1, MirrorFields
    <3>5. Placed(y, r) /\ c = y.right[r]
      BY <1>8, <1>10, <1>12, <1>y, LinkedFacts
    <3>6. RightRotate(v, r) = Mirror(w)
      <4>1. RightRotate(Mirror(y), r) = Mirror(LeftRotate(y, r))
        BY <1>12, <1>y, <3>4, <3>5, MirrorLeftRotate
      <4> QED BY <1>6, <3>2, <4>1
    <3>7. PICK x \in Tree : x = Mirror(w)
      BY <3>4, MirrorFields
    <3>8. Mirror(x) = w /\ x.right[n] = c /\ Linked(x) /\ InTree(x) = InTree(t)
      BY <3>4, <3>7, MirrorTwice, MirrorFields, MirrorLinked
    <3>9. Placed(x, n)
      BY <1>1, <3>8, LinkedFacts
    <3>10. LeftRotate(x, n) = Mirror(RightRotate(w, n))
      BY <1>1, <3>4, <3>8, <3>9, MirrorLeftRotate
    <3>11. Rotated(v, n) = LeftRotate(x, n)
      BY <1>18, <2>2, <3>6, <3>7
    <3> QED BY <3>3, <3>10, <3>11
  <2> QED BY <2>1, <2>2
<1> QED BY <1>3, <1>6, <1>8, <1>9, <1>14, <1>19

(* A round at a defect that leans to the right.                            *)
LEMMA RoundAtHighRight ==
  ASSUME NEW t, NEW n, NEW d \in {-1, 1}, Defect(t, n, d), n # Null,
         NEW p, p = t.parent[n], NEW v, v = UpdateMeta(t, n),
         BalanceFactor(v, n) < -1
  PROVE  Advanced(t, Rotated(v, n), n, p, d)
<1>1. PICK s, y : s = Mirror(t) /\ y = Mirror(v)
  OBVIOUS
<1>2. /\ y = UpdateMeta(s, n) /\ Defect(s, n, d) /\ p = s.parent[n]
      /\ BalanceFactor(y, n) > 1 /\ Rotated(v, n) = Mirror(Rotated(y, n))
  BY <1>1, RotatedInMirror
<1>3. Advanced(s, Rotated(y, n), n, p, d)
  BY <1>2, RoundAtHighLeft
<1>4. Advanced(t, Mirror(Rotated(y, n)), n, p, d)
  BY <1>1, <1>3, MirrorAdvanced DEF Defect
<1> QED BY <1>2, <1>4

(* One round of balance moves the defect to the parent, whichever of the   *)
(* rotations it takes.                                                     *)
THEOREM RoundMovesDefectUp ==
  ASSUME NEW t, NEW n, NEW d \in {-1, 1}, Defect(t, n, d), n # Null
  PROVE  /\ BalanceStep(t, n) = <<Rotated(UpdateMeta(t, n), n), t.parent[n]>>
         /\ Advanced(t, Rotated(UpdateMeta(t, n), n), n, t.parent[n], d)
<1>1. PICK v : v = UpdateMeta(t, n)
  OBVIOUS
<1>2. PICK p : p = t.parent[n]
  OBVIOUS
<1>3. v \in Tree /\ n \in Node
  <2>1. DefectMeasuredIn(t, v, n, d)
    BY <1>1, DefectMeasured
  <2> QED BY <2>1 DEF DefectMeasuredIn, Defect, InTree
<1>4. BalanceFactor(v, n) \in Int
  BY <1>3, MirrorBalanceFactor
<1>5. CASE BalanceFactor(v, n) > 1
  BY <1>1, <1>2, <1>5, RoundAtHighLeft DEF BalanceStep
<1>6. CASE BalanceFactor(v, n) < -1
  BY <1>1, <1>2, <1>6, RoundAtHighRight DEF BalanceStep
<1>7. CASE BalanceFactor(v, n) \in -1 .. 1
  <2>1. Rotated(v, n) = v
    BY <1>4, <1>7 DEF Rotated
  <2>2. StandsFor(t, v, n, n, p, d)
    BY <1>1, <1>2, <1>7, RoundWithoutRotation
  <2>3. Defect(v, p, d) /\ (p # Null => v.num_nodes[p] > t.num_nodes[n])
    BY <1>2, <2>2, DefectMovesUp
  <2>4. InTree(v) = InTree(t) /\ v.size = t.size
    BY <2>2 DEF StandsFor
  <2> QED BY <1>1, <1>2, <2>1, <2>3, <2>4 DEF Advanced, BalanceStep
<1> QED BY <1>4, <1>5, <1>6, <1>7

-----------------------------------------------------------------------------
(* The loops.                                                              *)

(* A set of naturals with 0 and with every successor has them all.         *)
LEMMA EveryNatural ==
  ASSUME NEW S, 0 \in S, \A k \in S : k \in Nat => k + 1 \in S
  PROVE  Nat \subseteq S
<1>1. SUFFICES ASSUME Nat \ S # {} PROVE FALSE
  OBVIOUS
<1>2. PICK x \in Nat \ S : \A y \in Nat \ S : ~ (<<y, x>> \in OpToRel(<, Nat))
  <2>1. Nat \ S \subseteq Nat
    OBVIOUS
  <2>2. \E x \in Nat \ S : \A y \in Nat \ S : ~ (<<y, x>> \in OpToRel(<, Nat))
    BY <1>1, <2>1, WFMin, NatLessThanWellFounded
  <2> QED BY <2>2
<1>3. x # 0 /\ x - 1 \in Nat
  OBVIOUS
<1>4. x - 1 \notin S
  <2>. SUFFICES ASSUME x - 1 \in S PROVE FALSE
    OBVIOUS
  <2>1. (x - 1) + 1 \in S
    BY <1>3
  <2>2. (x - 1) + 1 = x
    OBVIOUS
  <2> QED BY <2>1, <2>2
<1>5. <<x - 1, x>> \in Nat \X Nat /\ <<x - 1, x>>[1] < <<x - 1, x>>[2]
  BY <1>3
<1>6. <<x - 1, x>> \in OpToRel(<, Nat)
  BY <1>5, Zenon DEF OpToRel
<1> QED BY <1>2, <1>3, <1>4, <1>6, Zenon

(* A loop that does at most k rounds is a function of the round.           *)
LoopOf(f, t, n, k) ==
  f = [i \in 0 .. k |-> IF i = 0 THEN <<t, n>> ELSE BalanceStep(f[i - 1][1], f[i - 1][2])]

(* balance's loop, as the function of the round that Balance chooses,      *)
(* exists.                                                                 *)
LEMMA LoopExists ==
  ASSUME NEW t, NEW n, NEW k \in Nat
  PROVE  \E f : LoopOf(f, t, n, k)
<1>. DEFINE S == {i \in Nat : \E f : LoopOf(f, t, n, i)}
<1>1. 0 \in S
  <2>1. PICK f : f = [i \in 0 .. 0 |-> <<t, n>>]
    OBVIOUS
  <2>2. LoopOf(f, t, n, 0)
    BY <2>1 DEF LoopOf
  <2> QED BY <2>2
<1>2. ASSUME NEW i \in S PROVE i + 1 \in S
  <2>1. PICK f : LoopOf(f, t, n, i)
    OBVIOUS
  <2>2. PICK g : g = [j \in 0 .. i + 1 |->
                        IF j = 0 THEN <<t, n>> ELSE BalanceStep(f[j - 1][1], f[j - 1][2])]
    OBVIOUS
  <2>3. ASSUME NEW j \in 0 .. i PROVE g[j] = f[j]
    BY <2>1, <2>2 DEF LoopOf
  <2>4. ASSUME NEW j \in 0 .. i + 1
        PROVE  g[j] = IF j = 0 THEN <<t, n>> ELSE BalanceStep(g[j - 1][1], g[j - 1][2])
    <3>1. CASE j = 0
      BY <2>2, <3>1
    <3>2. CASE j # 0
      <4>1. j - 1 \in 0 .. i
        BY <3>2
      <4>2. g[j - 1] = f[j - 1]
        BY <2>3, <4>1
      <4> QED BY <2>2, <3>2, <4>2
    <3> QED BY <3>1, <3>2
  <2>5. LoopOf(g, t, n, i + 1)
    BY <2>2, <2>4 DEF LoopOf
  <2> QED BY <2>5
<1>. HIDE DEF S
<1>3. Nat \subseteq S
  BY <1>1, <1>2, EveryNatural
<1> QED BY <1>3 DEF S

(* balance does as many rounds as there are nodes.                         *)
LEMMA BalanceIsLoop ==
  ASSUME NEW t, NEW n
  PROVE  \E f : LoopOf(f, t, n, Cardinality(Node)) /\ Balance(t, n) = f[Cardinality(Node)][1]
<1>1. PICK k \in Nat : k = Cardinality(Node)
  BY NodeAssumption, FS_CardinalityType
<1>2. PICK f : f = CHOOSE loop : LoopOf(loop, t, n, k)
  OBVIOUS
<1>3. LoopOf(f, t, n, k)
  BY <1>2, LoopExists
<1>4. Balance(t, n) = f[k][1]
  BY <1>1, <1>2 DEF Balance, LoopOf
<1> QED BY <1>1, <1>3, <1>4

(* Where next goes to smaller ranks until it stays, the places it leads to *)
(* are a function.                                                         *)
EndOf(f, next) == f = [m \in DOMAIN next |-> IF next[m] = m THEN m ELSE f[next[m]]]

(* Such a function exists, so CHOOSE finds it.                             *)
LEMMA EndExists ==
  ASSUME NEW D, NEW next \in [D -> D], NEW k \in Nat, NEW rank \in [D -> 0 .. k],
         \A m \in D : next[m] = m \/ rank[next[m]] < rank[m]
  PROVE  \E f : EndOf(f, next)
<1>. DEFINE Ends(f, m) == f[m] = IF next[m] = m THEN m ELSE f[next[m]]
            S == {i \in Nat : \E f \in [D -> D] : \A m \in D : rank[m] < i => Ends(f, m)}
<1>1. 0 \in S
  <2>1. PICK f \in [D -> D] : f = [m \in D |-> m]
    OBVIOUS
  <2>2. \A m \in D : rank[m] < 0 => Ends(f, m)
    OBVIOUS
  <2> QED BY <2>2
<1>2. ASSUME NEW i \in S PROVE i + 1 \in S
  <2>1. PICK f \in [D -> D] : \A m \in D : rank[m] < i => Ends(f, m)
    OBVIOUS
  <2>2. PICK g \in [D -> D] : g = [m \in D |-> IF next[m] = m THEN m ELSE f[next[m]]]
    OBVIOUS
  <2>3. ASSUME NEW m \in D, rank[m] < i PROVE g[m] = f[m]
    BY <2>1, <2>2, <2>3
  <2>4. ASSUME NEW m \in D, rank[m] < i + 1 PROVE Ends(g, m)
    <3>1. CASE next[m] = m
      BY <2>2, <3>1
    <3>2. CASE next[m] # m
      <4>1. next[m] \in D /\ rank[next[m]] < i
        BY <2>4, <3>2
      <4>2. g[next[m]] = f[next[m]]
        BY <2>3, <4>1
      <4> QED BY <2>2, <3>2, <4>2
    <3> QED BY <3>1, <3>2
  <2> QED BY <2>4
<1>. HIDE DEF S
<1>3. k + 1 \in S
  BY <1>1, <1>2, EveryNatural
<1>4. PICK f \in [D -> D] : \A m \in D : rank[m] < k + 1 => Ends(f, m)
  BY <1>3 DEF S
<1>5. \A m \in D : Ends(f, m)
  BY <1>4
<1>6. EndOf(f, next)
  BY <1>5 DEF EndOf
<1> QED BY <1>6

(* A chase ends where next stays.                                          *)
LEMMA ChaseEnds ==
  ASSUME NEW D, NEW next \in [D -> D], NEW k \in Nat, NEW rank \in [D -> 0 .. k],
         \A m \in D : next[m] = m \/ rank[next[m]] < rank[m], NEW n \in D
  PROVE  Chase(next, n) \in D /\ next[Chase(next, n)] = Chase(next, n)
<1>1. PICK f : f = CHOOSE end : EndOf(end, next)
  OBVIOUS
<1>2. EndOf(f, next)
  BY <1>1, EndExists
<1>3. Chase(next, n) = f[n]
  BY <1>1 DEF Chase, EndOf
<1>4. \A m \in D : f[m] = IF next[m] = m THEN m ELSE f[next[m]]
  BY <1>2 DEF EndOf
<1>. DEFINE S == {i \in Nat : \A m \in D : rank[m] < i => f[m] \in D /\ next[f[m]] = f[m]}
<1>5. 0 \in S
  OBVIOUS
<1>6. ASSUME NEW i \in S PROVE i + 1 \in S
  <2>1. ASSUME NEW m \in D, rank[m] < i + 1 PROVE f[m] \in D /\ next[f[m]] = f[m]
    <3>1. CASE next[m] = m
      BY <1>4, <3>1
    <3>2. CASE next[m] # m
      <4>1. next[m] \in D /\ rank[next[m]] < i
        BY <2>1, <3>2
      <4>2. f[m] = f[next[m]]
        BY <1>4, <3>2
      <4> QED BY <1>6, <4>1, <4>2
    <3> QED BY <3>1, <3>2
  <2> QED BY <2>1
<1>. HIDE DEF S
<1>7. k + 1 \in S
  BY <1>5, <1>6, EveryNatural
<1> QED BY <1>3, <1>7 DEF S

(* Of finitely many naturals one is the largest.                           *)
LEMMA LargestExists ==
  ASSUME NEW D, IsFiniteSet(D), D # {}, NEW rank \in [D -> Nat]
  PROVE  \E m \in D : \A x \in D : rank[x] <= rank[m]
<1>. DEFINE Top(E) == \E m \in E : \A x \in E : rank[x] <= rank[m]
            S == {i \in Nat : \A E \in SUBSET D : Cardinality(E) = i + 1 => Top(E)}
<1>1. 0 \in S
  <2>1. ASSUME NEW E \in SUBSET D, Cardinality(E) = 0 + 1 PROVE Top(E)
    <3>1. IsFiniteSet(E)
      BY FS_Subset
    <3>2. PICK x : E = {x}
      <4>1. Cardinality(E) = 1
        BY <2>1
      <4>2. \E x : E = {x}
        BY <3>1, <4>1, FS_Singleton, Zenon
      <4> QED BY <4>2
    <3> QED BY <3>2
  <2>. HIDE DEF Top
  <2> QED BY <2>1
<1>2. ASSUME NEW i \in S PROVE i + 1 \in S
  <2>1. ASSUME NEW E \in SUBSET D, Cardinality(E) = (i + 1) + 1 PROVE Top(E)
    <3>1. IsFiniteSet(E)
      BY FS_Subset
    <3>2. E # {}
      BY <2>1, FS_EmptySet
    <3>3. PICK a \in E : TRUE
      BY <3>2
    <3>4. Cardinality(E \ {a}) = i + 1
      <4>1. Cardinality(E \ {a}) = Cardinality(E) - 1
        BY <3>1, FS_RemoveElement, Zenon
      <4> QED BY <2>1, <4>1
    <3>5. PICK m \in E \ {a} : \A x \in E \ {a} : rank[x] <= rank[m]
      BY <3>4
    <3>6. rank[a] \in Nat /\ rank[m] \in Nat /\ \A x \in E : rank[x] \in Nat
      OBVIOUS
    <3>7. CASE rank[a] <= rank[m]
      BY <3>5, <3>7
    <3>8. CASE ~ (rank[a] <= rank[m])
      BY <3>5, <3>6, <3>8
    <3> QED BY <3>7, <3>8
  <2>. HIDE DEF Top
  <2> QED BY <2>1
<1>. HIDE DEF S
<1>3. Nat \subseteq S
  BY <1>1, <1>2, EveryNatural
<1>4. Cardinality(D) \in Nat /\ Cardinality(D) # 0
  BY FS_CardinalityType, FS_EmptySet
<1>5. Cardinality(D) - 1 \in S
  BY <1>3, <1>4
<1>6. Top(D)
  <2>1. Cardinality(D) = (Cardinality(D) - 1) + 1 /\ D \in SUBSET D
    BY <1>4
  <2>. HIDE DEF Top
  <2> QED BY <1>5, <2>1 DEF S
<1> QED BY <1>6

(* No node stores a larger size than the root does.                        *)
LEMMA RootHoldsMost ==
  ASSUME NEW t, NEW n, NEW d \in {-1, 1}, Defect(t, n, d), NEW x \in InTree(t)
  PROVE  /\ t.root \in InTree(t) /\ t.num_nodes[x] \in Nat
         /\ SizeOf(t, t.root) \in Nat /\ t.num_nodes[x] <= SizeOf(t, t.root)
<1>1. /\ t \in Tree /\ Linked(t) /\ IsFiniteSet(InTree(t)) /\ InTree(t) \subseteq Node
      /\ \A m \in InTree(t) \ {n} : Exact(t, m)
  <2>1. InTree(t) \in SUBSET Node
    BY DEF InTree
  <2> QED BY <2>1, NodeAssumption, FS_Subset DEF Defect
<1>. DEFINE rank == [m \in InTree(t) |-> t.num_nodes[m]]
<1>2. rank \in [InTree(t) -> Nat]
  BY <1>1 DEF Tree
<1>3. PICK m \in InTree(t) : \A y \in InTree(t) : rank[y] <= rank[m]
  <2>. HIDE DEF rank
  <2> QED BY <1>1, <1>2, LargestExists
<1>4. \A y \in InTree(t) : t.num_nodes[y] \in Nat /\ t.num_nodes[y] <= t.num_nodes[m]
  BY <1>2, <1>3
<1>5. ASSUME NEW y \in InTree(t), y # t.root
      PROVE  /\ t.parent[y] \in InTree(t) /\ t.parent[y] # y
             /\ y \in {t.left[t.parent[y]], t.right[t.parent[y]]} /\ y # Null
  <2>1. /\ y # Null /\ t.parent[y] \in InTree(t) \cup {Null}
        /\ t.parent[y] = Null <=> y = t.root
        /\ t.parent[y] # Null => y \in {t.left[t.parent[y]], t.right[t.parent[y]]}
    BY <1>1, LinkedFacts
  <2>2. t.parent[y] \in InTree(t)
    BY <1>5, <2>1
  <2>3. t.left[t.parent[y]] # t.parent[y] /\ t.right[t.parent[y]] # t.parent[y]
    BY <1>1, <2>2, LinkedFacts
  <2> QED BY <1>5, <2>1, <2>2, <2>3
<1>6. ASSUME NEW y \in InTree(t), y # t.root, t.parent[y] # n
      PROVE  t.num_nodes[y] < t.num_nodes[t.parent[y]]
  <2>1. Exact(t, t.parent[y]) /\ Positive(t)
    BY <1>1, <1>5, <1>6 DEF Defect
  <2> QED BY <1>1, <1>5, <1>6, <2>1, SizesBelow
<1>7. t.root \in InTree(t) /\ t.num_nodes[t.root] = t.num_nodes[m]
  <2>1. CASE m = t.root
    BY <2>1
  <2>2. CASE m # t.root
    <3>1. t.parent[m] = n /\ n # Null /\ n \in InTree(t)
      <4>1. t.parent[m] = n
        BY <1>4, <1>5, <1>6, <2>2
      <4> QED BY <1>5, <2>2, <4>1, NodeAssumption DEF InTree
    <3>2. t.num_nodes[m] <= t.num_nodes[n]
      BY <1>5, <2>2, <3>1, SizesBelowDefect
    <3>3. n = t.root
      <4>. SUFFICES ASSUME n # t.root PROVE FALSE
        OBVIOUS
      <4>1. t.num_nodes[n] < t.num_nodes[t.parent[n]] /\ t.parent[n] \in InTree(t)
        BY <1>5, <1>6, <3>1
      <4> QED BY <1>4, <3>1, <3>2, <4>1
    <3> QED BY <1>4, <3>1, <3>2, <3>3
  <2> QED BY <2>1, <2>2
<1>8. SizeOf(t, t.root) = t.num_nodes[t.root]
  BY <1>7, NodeAssumption DEF SizeOf, InTree
<1> QED BY <1>4, <1>7, <1>8

(* Balance ends with no defect: a defect that is still there after k       *)
(* rounds stores a size over k, and the root's is that of the tree.        *)
THEOREM BalanceRestores ==
  ASSUME NEW t, NEW n, NEW d \in {-1, 1}, Defect(t, n, d),
         t.size - d <= Cardinality(Node)
  PROVE  /\ Defect(Balance(t, n), Null, d)
         /\ InTree(Balance(t, n)) = InTree(t) /\ Balance(t, n).size = t.size
<1>1. PICK N \in Nat : N = Cardinality(Node)
  BY NodeAssumption, FS_CardinalityType
<1>2. PICK f : LoopOf(f, t, n, N) /\ Balance(t, n) = f[N][1]
  BY <1>1, BalanceIsLoop
<1>3. /\ f[0] = <<t, n>>
      /\ \A i \in Nat : i + 1 <= N => f[i + 1] = BalanceStep(f[i][1], f[i][2])
  BY <1>2 DEF LoopOf
<1>. DEFINE Round(i) ==
       /\ Defect(f[i][1], f[i][2], d) /\ InTree(f[i][1]) = InTree(t) /\ f[i][1].size = t.size
       /\ f[i][2] # Null => f[i][1].num_nodes[f[i][2]] >= i + 1
            S == {i \in Nat : i <= N => Round(i)}
<1>4. 0 \in S
  <2>1. n # Null => t.num_nodes[n] >= 1
    BY DEF Defect, Positive
  <2>2. Round(0)
    BY <1>3, <2>1
  <2>. HIDE DEF Round
  <2> QED BY <2>2
<1>5. ASSUME NEW i \in S PROVE i + 1 \in S
  <2>1. SUFFICES ASSUME i + 1 <= N PROVE Round(i + 1)
    <3>. HIDE DEF Round
    <3> QED OBVIOUS
  <2>2. PICK u, m : u = f[i][1] /\ m = f[i][2]
    OBVIOUS
  <2>3. /\ Defect(u, m, d) /\ InTree(u) = InTree(t) /\ u.size = t.size
        /\ m # Null => u.num_nodes[m] >= i + 1
    BY <2>1, <2>2
  <2>4. f[i + 1] = BalanceStep(u, m)
    BY <1>3, <2>1, <2>2
  <2>5. CASE m = Null
    <3>1. f[i + 1] = <<u, m>>
      BY <2>4, <2>5 DEF BalanceStep
    <3> QED BY <2>3, <2>5, <3>1
  <2>6. CASE m # Null
    <3>1. PICK w, p : w = Rotated(UpdateMeta(u, m), m) /\ p = u.parent[m]
      OBVIOUS
    <3>2. f[i + 1] = <<w, p>> /\ Advanced(u, w, m, p, d)
      BY <2>3, <2>4, <2>6, <3>1, RoundMovesDefectUp
    <3>3. /\ Defect(w, p, d) /\ InTree(w) = InTree(t) /\ w.size = t.size
          /\ p # Null => w.num_nodes[p] > u.num_nodes[m]
      BY <2>3, <3>2 DEF Advanced
    <3>4. u.num_nodes[m] \in Nat
      BY <2>3, <2>6 DEF Defect, Tree, InTree
    <3>5. p # Null => w.num_nodes[p] \in Nat
      BY <3>3 DEF Defect, Tree, InTree
    <3>6. p # Null => w.num_nodes[p] >= (i + 1) + 1
      BY <2>3, <2>6, <3>3, <3>4, <3>5
    <3> QED BY <3>2, <3>3, <3>6
  <2> QED BY <2>5, <2>6
<1>. HIDE DEF S
<1>6. N \in S
  BY <1>4, <1>5, EveryNatural
<1>7. PICK u, m : u = f[N][1] /\ m = f[N][2]
  OBVIOUS
<1>8. /\ Defect(u, m, d) /\ InTree(u) = InTree(t) /\ u.size = t.size
      /\ m # Null => u.num_nodes[m] >= N + 1
  BY <1>6, <1>7 DEF S
<1>9. m = Null
  <2>. SUFFICES ASSUME m # Null PROVE FALSE
    OBVIOUS
  <2>1. m \in InTree(u) /\ SizeOf(u, u.root) + d = u.size
    BY <1>8 DEF Defect
  <2>2. /\ u.num_nodes[m] \in Nat /\ SizeOf(u, u.root) \in Nat
        /\ u.num_nodes[m] <= SizeOf(u, u.root)
    BY <1>8, <2>1, RootHoldsMost
  <2>3. t.size - d <= N
    BY <1>1
  <2> QED BY <1>8, <2>1, <2>2, <2>3
<1> QED BY <1>2, <1>7, <1>8, <1>9

-----------------------------------------------------------------------------
(* insert and remove make a defect and hand it to balance.                 *)

(* Whole: a tree between two calls.                                        *)
Whole(t) == Defect(t, Null, 1)

(* What holds of a whole tree.                                             *)
LEMMA WholeFacts ==
  ASSUME NEW t, Whole(t)
  PROVE  /\ t \in Tree /\ Linked(t) /\ Positive(t)
         /\ t.size = Cardinality(InTree(t)) /\ SizeOf(t, t.root) = t.size
         /\ t.size \in Nat /\ t.size <= Cardinality(Node)
         /\ IsFiniteSet(InTree(t)) /\ InTree(t) \in SUBSET Node
         /\ Null \notin InTree(t) /\ Null \notin Node
         /\ \A m \in InTree(t) : m \in Node /\ m # Null /\ Exact(t, m)
<1>1. /\ t \in Tree /\ Linked(t) /\ Positive(t)
      /\ t.size = Cardinality(InTree(t)) /\ SizeOf(t, t.root) = t.size
      /\ \A m \in InTree(t) \ {Null} : Exact(t, m)
  BY DEF Whole, Defect
<1>2. InTree(t) \in SUBSET Node /\ Null \notin Node
  BY NodeAssumption DEF InTree
<1>3. IsFiniteSet(InTree(t)) /\ Cardinality(InTree(t)) <= Cardinality(Node)
  BY <1>2, NodeAssumption, FS_Subset
<1>4. Cardinality(InTree(t)) \in Nat
  BY <1>3, FS_CardinalityType
<1> QED BY <1>1, <1>2, <1>3, <1>4

(* A walk down ends in the tree, at a node it does not leave.              *)
LEMMA ChaseDown ==
  ASSUME NEW t, Whole(t), NEW next \in [InTree(t) -> InTree(t)],
         \A m \in InTree(t) : next[m] = m \/ next[m] \in {t.left[m], t.right[m]},
         NEW n \in InTree(t)
  PROVE  Chase(next, n) \in InTree(t) /\ next[Chase(next, n)] = Chase(next, n)
<1>1. /\ t \in Tree /\ Linked(t) /\ Positive(t) /\ Null \notin InTree(t)
      /\ \A m \in InTree(t) : Exact(t, m)
  BY WholeFacts
<1>2. PICK k \in Nat : k = SizeOf(t, t.root)
  BY RootHoldsMost DEF Whole
<1>3. PICK rank : rank = [m \in InTree(t) |-> t.num_nodes[m]]
  OBVIOUS
<1>4. \A m \in InTree(t) : t.num_nodes[m] \in Nat /\ t.num_nodes[m] <= k
  BY <1>2, RootHoldsMost DEF Whole
<1>5. rank \in [InTree(t) -> 0 .. k]
  BY <1>3, <1>4
<1>6. ASSUME NEW m \in InTree(t) PROVE next[m] = m \/ rank[next[m]] < rank[m]
  <2>. SUFFICES ASSUME next[m] # m PROVE rank[next[m]] < rank[m]
    OBVIOUS
  <2>1. next[m] \in InTree(t) /\ next[m] \in {t.left[m], t.right[m]} /\ next[m] # Null
    BY <1>1
  <2>2. t.num_nodes[next[m]] < t.num_nodes[m]
    BY <1>1, <2>1, SizesBelow
  <2> QED BY <1>3, <2>1, <2>2
<1> QED BY <1>5, <1>6, ChaseEnds

(* right_most finds a node with nothing to its right.                      *)
LEMMA RightMostFacts ==
  ASSUME NEW t, Whole(t), NEW n \in InTree(t)
  PROVE  RightMost(t, n) \in InTree(t) /\ t.right[RightMost(t, n)] = Null
<1>1. PICK next : next = [m \in InTree(t) |-> IF t.right[m] = Null THEN m ELSE t.right[m]]
  OBVIOUS
<1>2. \A m \in InTree(t) : t.right[m] \in InTree(t) \cup {Null} /\ t.right[m] # m
  BY WholeFacts, LinkedFacts
<1>3. /\ next \in [InTree(t) -> InTree(t)]
      /\ \A m \in InTree(t) : next[m] = m \/ next[m] \in {t.left[m], t.right[m]}
  BY <1>1, <1>2
<1>4. Chase(next, n) \in InTree(t) /\ next[Chase(next, n)] = Chase(next, n)
  BY <1>3, ChaseDown
<1>5. RightMost(t, n) = Chase(next, n)
  BY <1>1 DEF RightMost
<1> QED BY <1>1, <1>2, <1>4, <1>5

(* insert finds a node with room on the side where the value goes.         *)
LEMMA InsertionPointFacts ==
  ASSUME NEW t, Whole(t), t.root # Null, NEW v, NEW p, p = InsertionPoint(t, v)
  PROVE  /\ p \in InTree(t)
         /\ v > t.value[p] => t.right[p] = Null
         /\ ~ (v > t.value[p]) => t.left[p] = Null
<1>. DEFINE Child(m) == IF v > t.value[m] THEN t.right[m] ELSE t.left[m]
<1>1. PICK next : next = [m \in InTree(t) |-> IF Child(m) = Null THEN m ELSE Child(m)]
  OBVIOUS
<1>2. \A m \in InTree(t) : /\ Child(m) \in InTree(t) \cup {Null} /\ Child(m) # m
                           /\ Child(m) \in {t.left[m], t.right[m]}
  BY WholeFacts, LinkedFacts
<1>3. p = Chase(next, t.root)
  BY <1>1 DEF InsertionPoint
<1>4. t.root \in InTree(t)
  BY WholeFacts DEF Linked
<1>5. /\ next \in [InTree(t) -> InTree(t)]
      /\ \A m \in InTree(t) : next[m] = m \/ next[m] \in {t.left[m], t.right[m]}
  <2>. HIDE DEF Child
  <2> QED BY <1>1, <1>2
<1>6. p \in InTree(t) /\ next[p] = p
  BY <1>3, <1>4, <1>5, ChaseDown
<1>7. Child(p) = Null
  <2>. HIDE DEF Child
  <2> QED BY <1>1, <1>2, <1>6
<1> QED BY <1>6, <1>7

(* remove finds a node of the tree, or none.                               *)
LEMMA FindFacts ==
  ASSUME NEW t, Whole(t), NEW v
  PROVE  Find(t, v) \in InTree(t) \cup {Null}
<1>. DEFINE D == InTree(t) \cup {Null}
            Child(m) == IF v < t.value[m] THEN t.left[m] ELSE t.right[m]
<1>1. PICK next : next = [m \in D |-> IF m = Null \/ v = t.value[m] THEN m
                                      ELSE IF v < t.value[m] THEN t.left[m] ELSE t.right[m]]
  OBVIOUS
<1>2. /\ t \in Tree /\ Linked(t) /\ Positive(t) /\ Null \notin InTree(t)
      /\ \A m \in InTree(t) : Exact(t, m)
      /\ SizeOf(t, t.root) \in Nat
  BY WholeFacts
<1>3. PICK k \in Nat : k = SizeOf(t, t.root)
  BY <1>2
<1>4. \A m \in InTree(t) : t.num_nodes[m] \in Nat /\ t.num_nodes[m] <= k /\ t.num_nodes[m] >= 1
  BY <1>2, <1>3, RootHoldsMost DEF Whole, Positive
<1>5. PICK rank : rank = [m \in D |-> IF m = Null THEN 0 ELSE t.num_nodes[m]]
  OBVIOUS
<1>6. rank \in [D -> 0 .. k]
  BY <1>4, <1>5
<1>7. \A m \in InTree(t) : /\ t.left[m] \in D /\ t.right[m] \in D
                           /\ next[m] \in {m, t.left[m], t.right[m]}
  BY <1>1, <1>2, LinkedFacts
<1>8. next \in [D -> D]
  BY <1>1, <1>2, <1>7
<1>9. ASSUME NEW m \in D PROVE next[m] = m \/ rank[next[m]] < rank[m]
  <2>. SUFFICES ASSUME next[m] # m PROVE rank[next[m]] < rank[m]
    OBVIOUS
  <2>1. m # Null /\ m \in InTree(t)
    BY <1>1
  <2>2. next[m] \in {t.left[m], t.right[m]} /\ next[m] \in D
    BY <1>7, <1>8, <2>1
  <2>3. CASE next[m] = Null
    BY <1>4, <1>5, <2>1, <2>3
  <2>4. CASE next[m] # Null
    <3>1. t.num_nodes[next[m]] < t.num_nodes[m]
      BY <1>2, <2>1, <2>2, <2>4, SizesBelow
    <3> QED BY <1>5, <2>1, <2>2, <2>4, <3>1
  <2> QED BY <2>3, <2>4
<1>10. t.root \in D
  BY <1>2 DEF Linked
<1>11. Chase(next, t.root) \in D
  <2>. HIDE DEF D
  <2> QED BY <1>6, <1>8, <1>9, <1>10, ChaseEnds
<1>12. Find(t, v) = Chase(next, t.root)
  BY <1>1 DEF Find
<1> QED BY <1>11, <1>12

(* w is t with the new leaf n at the right of p, not yet balanced.         *)
HungRight(t, w, v, n, p) ==
  /\ w \in Tree /\ w.root = t.root /\ w.size = t.size + 1
  /\ w.value = [t.value EXCEPT ![n] = v]
  /\ w.left = t.left /\ w.right = [t.right EXCEPT ![p] = n]
  /\ w.parent = [t.parent EXCEPT ![n] = p]
  /\ w.height = [t.height EXCEPT ![n] = 1] /\ w.num_nodes = [t.num_nodes EXCEPT ![n] = 1]

(* A new leaf is a defect of its parent.                                   *)
LEMMA HungRightDefect ==
  ASSUME NEW t, Whole(t), NEW v \in Value, NEW n \in Node \ InTree(t), NEW p \in InTree(t),
         t.right[p] = Null, NEW w, HungRight(t, w, v, n, p)
  PROVE  Defect(w, p, 1)
<1>1. /\ t \in Tree /\ Linked(t) /\ Positive(t)
      /\ t.size = Cardinality(InTree(t)) /\ SizeOf(t, t.root) = t.size
      /\ IsFiniteSet(InTree(t)) /\ InTree(t) \in SUBSET Node
      /\ Null \notin InTree(t) /\ Null \notin Node
      /\ \A m \in InTree(t) : m \in Node /\ m # Null /\ Exact(t, m)
  BY WholeFacts
<1>2. /\ w \in Tree /\ w.root = t.root /\ w.size = t.size + 1
      /\ w.value = [t.value EXCEPT ![n] = v]
      /\ w.left = t.left /\ w.right = [t.right EXCEPT ![p] = n]
      /\ w.parent = [t.parent EXCEPT ![n] = p]
      /\ w.height = [t.height EXCEPT ![n] = 1] /\ w.num_nodes = [t.num_nodes EXCEPT ![n] = 1]
  BY DEF HungRight
<1>3. /\ t.value \in [Node -> Value \cup {Null}] /\ t.right \in [Node -> Slot]
      /\ t.left \in [Node -> Slot] /\ t.parent \in [Node -> Slot]
      /\ t.height \in [Node -> Nat] /\ t.num_nodes \in [Node -> Nat]
  BY <1>1 DEF Tree
<1>4. InTree(w) = InTree(t) \cup {n}
  <2>1. v # Null
    BY NodeAssumption
  <2>2. \A m \in Node : w.value[m] # Null <=> (t.value[m] # Null \/ m = n)
    BY <1>2, <1>3, <2>1
  <2> QED BY <2>2 DEF InTree
<1>5. w.size = Cardinality(InTree(w))
  <2>1. Cardinality(InTree(t) \cup {n}) = Cardinality(InTree(t)) + 1
    BY <1>1, FS_AddElement
  <2> QED BY <1>1, <1>2, <1>4, <2>1
<1>6. t.left[n] = Null /\ t.right[n] = Null /\ p # n /\ p \in Node /\ n # Null
  BY <1>1 DEF Linked
<1>7. /\ w.right[p] = n /\ w.parent[n] = p /\ w.height[n] = 1 /\ w.num_nodes[n] = 1
      /\ \A x \in Node \ {p} : w.right[x] = t.right[x]
      /\ \A x \in Node \ {n} : /\ w.parent[x] = t.parent[x]
                               /\ w.height[x] = t.height[x] /\ w.num_nodes[x] = t.num_nodes[x]
      /\ \A x \in Node : w.left[x] = t.left[x]
  BY <1>2, <1>3, <1>6
<1>8. ASSUME NEW m \in InTree(t)
      PROVE  /\ m \in Node /\ m # n
             /\ t.left[m] \in InTree(t) \cup {Null} /\ t.right[m] \in InTree(t) \cup {Null}
             /\ t.left[m] # n /\ t.right[m] # n
             /\ t.left[m] # m /\ t.right[m] # m
             /\ (t.left[m] # Null => t.left[m] # t.right[m] /\ t.parent[t.left[m]] = m)
             /\ (t.right[m] # Null => t.parent[t.right[m]] = m)
             /\ (m # t.root => /\ t.parent[m] \in InTree(t)
                               /\ m \in {t.left[t.parent[m]], t.right[t.parent[m]]})
  BY <1>1, <1>6 DEF Linked, LinkedAt
<1>9. t.root \in InTree(t)
  BY RootHoldsMost DEF Whole
<1>10. Linked(w)
  <2>1. w.parent[w.root] = Null
    <3>1. t.parent[t.root] = Null
      BY <1>1, <1>9 DEF Linked
    <3> QED BY <1>2, <1>7, <1>8, <1>9, <3>1
  <2>2. \A m \in Node \ InTree(w) : w.left[m] = Null /\ w.right[m] = Null
    <3>1. \A m \in Node \ InTree(t) : t.left[m] = Null /\ t.right[m] = Null
      BY <1>1 DEF Linked
    <3> QED BY <1>4, <1>7, <3>1
  <2>3. ASSUME NEW m \in InTree(w) PROVE LinkedAt(w, m)
    <3>1. CASE m = n
      BY <1>4, <1>6, <1>7, <3>1 DEF LinkedAt
    <3>2. CASE m = p
      <4>1. /\ w.left[m] = t.left[m] /\ w.right[m] = n /\ w.parent[m] = t.parent[m]
            /\ (t.left[m] # Null => w.parent[t.left[m]] = m)
        BY <1>1, <1>6, <1>7, <1>8, <3>2
      <4>2. m # w.root => /\ w.parent[m] \in InTree(w)
                          /\ m \in {w.left[w.parent[m]], w.right[w.parent[m]]}
        <5>. SUFFICES ASSUME m # w.root
                      PROVE /\ w.parent[m] \in InTree(w)
                            /\ m \in {w.left[w.parent[m]], w.right[w.parent[m]]}
          OBVIOUS
        <5>1. PICK q \in InTree(t) : q = t.parent[m] /\ m \in {t.left[q], t.right[q]}
          BY <1>2, <1>8, <3>2
        <5>2. q # p /\ q \in Node
          BY <1>8, <3>2, <5>1
        <5> QED BY <1>4, <1>7, <4>1, <5>1, <5>2
      <4> QED BY <1>4, <1>6, <1>7, <1>8, <3>2, <4>1, <4>2 DEF LinkedAt
    <3>3. CASE m \in InTree(t) /\ m # p
      <4>1. /\ w.left[m] = t.left[m] /\ w.right[m] = t.right[m] /\ w.parent[m] = t.parent[m]
            /\ (t.left[m] # Null => w.parent[t.left[m]] = m)
            /\ (t.right[m] # Null => w.parent[t.right[m]] = m)
        BY <1>1, <1>6, <1>7, <1>8, <3>3
      <4>2. m # w.root => /\ w.parent[m] \in InTree(w)
                          /\ m \in {w.left[w.parent[m]], w.right[w.parent[m]]}
        <5>. SUFFICES ASSUME m # w.root
                      PROVE /\ w.parent[m] \in InTree(w)
                            /\ m \in {w.left[w.parent[m]], w.right[w.parent[m]]}
          OBVIOUS
        <5>1. PICK q \in InTree(t) : q = t.parent[m] /\ m \in {t.left[q], t.right[q]}
          BY <1>2, <1>8, <3>3
        <5>2. q \in Node /\ m # Null
          BY <1>1, <3>3, <5>1
        <5>3. m \in {w.left[q], w.right[q]}
          <6>1. q = p => m = t.left[q]
            BY <5>1, <5>2
          <6> QED BY <1>7, <5>1, <5>2, <6>1
        <5> QED BY <1>4, <4>1, <5>1, <5>3
      <4> QED BY <1>4, <1>8, <3>3, <4>1, <4>2 DEF LinkedAt
    <3> QED BY <1>4, <3>1, <3>2, <3>3
  <2> QED BY <1>2, <1>4, <1>9, <2>1, <2>2, <2>3 DEF Linked
<1>11. Positive(w)
  BY <1>1, <1>4, <1>7, <1>8 DEF Positive
<1>12. \A x \in Slot \ {n} : HeightOf(w, x) = HeightOf(t, x) /\ SizeOf(w, x) = SizeOf(t, x)
  BY <1>7 DEF HeightOf, SizeOf, Slot
<1>13. ASSUME NEW m \in InTree(w) \ {p} PROVE Exact(w, m)
  <2>1. CASE m = n
    <3>1. w.left[m] = Null /\ w.right[m] = Null /\ w.height[m] = 1 /\ w.num_nodes[m] = 1
      BY <1>6, <1>7, <2>1
    <3> QED BY <3>1 DEF Exact, BalanceFactor, HeightOf, SizeOf, Higher
  <2>2. CASE m \in InTree(t)
    <3>1. /\ Exact(t, m) /\ m \in Node \ {n, p}
          /\ t.left[m] \in Slot \ {n} /\ t.right[m] \in Slot \ {n}
      BY <1>1, <1>3, <1>8, <2>2
    <3>2. /\ w.left[m] = t.left[m] /\ w.right[m] = t.right[m]
          /\ w.height[m] = t.height[m] /\ w.num_nodes[m] = t.num_nodes[m]
      BY <1>7, <3>1
    <3>3. \A y \in {t.left[m], t.right[m]} \ {Null} :
             w.height[y] = t.height[y] /\ w.num_nodes[y] = t.num_nodes[y]
      BY <1>7, <3>1 DEF Slot
    <3> QED BY <3>1, <3>2, <3>3, ExactKept
  <2> QED BY <1>4, <2>1, <2>2
<1>14. SizeOf(w, w.root) + 1 = w.size
  <2>1. t.root \in Slot \ {n}
    BY <1>8, <1>9 DEF Slot
  <2>2. t.size \in Int
    BY <1>1 DEF Tree
  <2> QED BY <1>1, <1>2, <1>12, <2>1, <2>2
<1>15. PICK hl, sl \in Nat : hl = HeightOf(t, t.left[p]) /\ sl = SizeOf(t, t.left[p])
  BY <1>1, <1>3, <1>6, MeasuresType
<1>16. /\ hl = HeightOf(w, w.left[p]) /\ sl = SizeOf(w, w.left[p])
       /\ HeightOf(w, w.right[p]) = 1 /\ SizeOf(w, w.right[p]) = 1
  <2>1. t.left[p] \in Slot \ {n}
    BY <1>3, <1>6, <1>8
  <2> QED BY <1>6, <1>7, <1>12, <1>15, <2>1 DEF HeightOf, SizeOf
<1>17. /\ t.height[p] = 1 + Higher(hl, 0) /\ t.num_nodes[p] = 1 + sl /\ hl \in -1 .. 1
  <2>1. Exact(t, p) /\ HeightOf(t, t.right[p]) = 0 /\ SizeOf(t, t.right[p]) = 0
    BY <1>1 DEF HeightOf, SizeOf
  <2> QED BY <1>15, <2>1 DEF Exact, BalanceFactor
<1>18. w.height[p] = t.height[p] /\ w.num_nodes[p] = t.num_nodes[p]
  BY <1>6, <1>7
<1>19. w.num_nodes[p] + 1 = 1 + SizeOf(w, w.left[p]) + SizeOf(w, w.right[p])
  BY <1>16, <1>17, <1>18
<1>20. Stale(w, p)
  <2>1. /\ hl - 0 \in -1 .. 1 /\ w.height[p] = 1 + Higher(hl, 0)
        /\ hl = HeightOf(w, w.left[p]) /\ HeightOf(w, w.right[p]) - 0 \in -1 .. 1
    BY <1>16, <1>17, <1>18
  <2> QED BY <2>1 DEF Stale
<1>21. p # Null /\ p \in InTree(w) \cup {Null}
  BY <1>1, <1>4
<1> QED BY <1>2, <1>5, <1>10, <1>11, <1>13, <1>14, <1>19, <1>20, <1>21 DEF Defect

(* The tree of one node.                                                   *)
Planted(w, v, n) ==
  /\ Whole(w) /\ w.root = n /\ w.size = 1 /\ InTree(w) = {n} /\ w.value[n] = v
  /\ w.left[n] = Null /\ w.right[n] = Null

(* w is t with the new leaf n below p, on the side the value goes to.      *)
Hung(t, w, v, n, p) ==
  /\ p \in InTree(t) /\ Defect(w, p, 1) /\ w.size - 1 <= Cardinality(Node)
  /\ \/ v > t.value[p] /\ t.right[p] = Null /\ HungRight(t, w, v, n, p)
     \/ /\ ~ (v > t.value[p]) /\ t.left[p] = Null
        /\ HungRight(Mirror(t), Mirror(w), v, n, p)

(* insert hangs a new leaf below the insertion point, or makes it the      *)
(* root, and balances.                                                     *)
LEMMA InsertedShape ==
  ASSUME NEW t, Whole(t), NEW v \in Value, NEW n \in Node \ InTree(t)
  PROVE  \/ t.root = Null /\ Planted(Inserted(t, v, n), v, n)
         \/ /\ t.root # Null
            /\ \E w : /\ Hung(t, w, v, n, InsertionPoint(t, v))
                      /\ Inserted(t, v, n) = Balance(w, InsertionPoint(t, v))
<1>1. /\ t \in Tree /\ Linked(t) /\ Positive(t)
      /\ t.size = Cardinality(InTree(t)) /\ SizeOf(t, t.root) = t.size /\ t.size \in Nat
      /\ t.size <= Cardinality(Node) /\ Cardinality(Node) \in Nat
      /\ IsFiniteSet(InTree(t)) /\ Null \notin InTree(t) /\ Null \notin Node
  BY WholeFacts, NodeAssumption, FS_CardinalityType
<1>2. t.left[n] = Null /\ t.right[n] = Null /\ n \in Slot /\ n # Null /\ v # Null
  BY <1>1, NodeAssumption DEF Linked, Slot
<1>3. PICK p : p = IF t.root = Null THEN Null ELSE InsertionPoint(t, v)
  OBVIOUS
<1>4. PICK u : u = [t EXCEPT !.value[n] = v, !.parent[n] = p, !.height[n] = 1,
                             !.num_nodes[n] = 1, !.size = @ + 1]
  OBVIOUS
<1>5. Inserted(t, v, n) = CASE p = Null                       -> [u EXCEPT !.root = n]
                            [] p # Null /\ v > t.value[p]     -> Balance([u EXCEPT !.right[p] = n], p)
                            [] p # Null /\ ~ (v > t.value[p]) -> Balance([u EXCEPT !.left[p] = n], p)
  BY <1>3, <1>4, Zenon DEF Inserted
<1>6. t.root # Null => /\ p \in InTree(t)
                       /\ v > t.value[p] => t.right[p] = Null
                       /\ ~ (v > t.value[p]) => t.left[p] = Null
  BY <1>3, InsertionPointFacts
<1>7. p \in Slot /\ (p # Null => t.root # Null /\ p \in Node)
  BY <1>1, <1>3, <1>6 DEF Slot, InTree
<1>8. /\ u \in Tree /\ u.root = t.root /\ u.size = t.size + 1
      /\ u.value = [t.value EXCEPT ![n] = v]
      /\ u.left = t.left /\ u.right = t.right
      /\ u.parent = [t.parent EXCEPT ![n] = p]
      /\ u.height = [t.height EXCEPT ![n] = 1]
      /\ u.num_nodes = [t.num_nodes EXCEPT ![n] = 1]
  <2>1. t \in Tree /\ p \in Slot /\ n \in Node /\ v \in Value
    BY <1>1, <1>7
  <2>2. PICK a \in Tree : a = [t EXCEPT !.value[n] = v, !.parent[n] = p]
    BY <2>1 DEF Tree
  <2>3. PICK b \in Tree : b = [a EXCEPT !.height[n] = 1, !.num_nodes[n] = 1]
    BY <2>1 DEF Tree
  <2>4. /\ a.root = t.root /\ a.size = t.size /\ a.left = t.left /\ a.right = t.right
        /\ a.value = [t.value EXCEPT ![n] = v] /\ a.parent = [t.parent EXCEPT ![n] = p]
        /\ a.height = t.height /\ a.num_nodes = t.num_nodes
    BY <2>1, <2>2 DEF Tree
  <2>5. /\ b.root = a.root /\ b.size = a.size /\ b.left = a.left /\ b.right = a.right
        /\ b.value = a.value /\ b.parent = a.parent
        /\ b.height = [a.height EXCEPT ![n] = 1]
        /\ b.num_nodes = [a.num_nodes EXCEPT ![n] = 1]
    BY <2>1, <2>3 DEF Tree
  <2>6. u = [b EXCEPT !.size = @ + 1]
    BY <1>4, <2>1, <2>2, <2>3 DEF Tree
  <2>7. /\ u \in Tree /\ u.size = b.size + 1 /\ u.root = b.root
        /\ u.left = b.left /\ u.right = b.right /\ u.value = b.value
        /\ u.parent = b.parent /\ u.height = b.height /\ u.num_nodes = b.num_nodes
    BY <2>6 DEF Tree
  <2> QED BY <2>4, <2>5, <2>7
<1>9. CASE p = Null
  <2>1. PICK w : w = [u EXCEPT !.root = n]
    OBVIOUS
  <2>2. /\ w \in Tree /\ w.root = n /\ w.size = u.size /\ w.value = u.value
        /\ w.left = u.left /\ w.right = u.right /\ w.parent = u.parent
        /\ w.height = u.height /\ w.num_nodes = u.num_nodes
    BY <1>2, <1>8, <2>1 DEF Tree
  <2>3. t.root = Null
    BY <1>1, <1>6, <1>9
  <2>4. t.size = 0 /\ InTree(t) = {}
    <3>1. t.size = 0
      BY <1>1, <2>3 DEF SizeOf
    <3>2. Cardinality(InTree(t)) = 0
      BY <1>1, <3>1
    <3> QED BY <1>1, <3>1, <3>2, FS_EmptySet, Zenon
  <2>5. /\ t.value \in [Node -> Value \cup {Null}] /\ t.parent \in [Node -> Slot]
        /\ t.height \in [Node -> Nat] /\ t.num_nodes \in [Node -> Nat]
    BY <1>1 DEF Tree
  <2>6. InTree(w) = {n}
    <3>1. \A m \in Node : w.value[m] # Null <=> (t.value[m] # Null \/ m = n)
      BY <1>2, <1>8, <2>2, <2>5
    <3> QED BY <2>4, <3>1 DEF InTree
  <2>7. /\ w.parent[n] = Null /\ w.height[n] = 1 /\ w.num_nodes[n] = 1
        /\ w.left = t.left /\ w.right = t.right
    BY <1>8, <1>9, <2>2, <2>5
  <2>8. w.size = 1 /\ Cardinality(InTree(w)) = 1
    <3>1. Cardinality({n}) = 1
      BY FS_Singleton, Zenon
    <3>2. w.size = t.size + 1 /\ t.size = 0
      BY <1>8, <2>2, <2>4
    <3> QED BY <2>6, <3>1, <3>2
  <2>9. \A m \in Node : w.left[m] = Null /\ w.right[m] = Null
    BY <1>1, <2>4, <2>7 DEF Linked
  <2>10. Linked(w)
    BY <1>2, <2>2, <2>6, <2>7, <2>9 DEF Linked, LinkedAt
  <2>11. Exact(w, n)
    BY <2>7, <2>9 DEF Exact, BalanceFactor, HeightOf, SizeOf, Higher
  <2>12. SizeOf(w, w.root) = w.size
    BY <1>2, <2>2, <2>7, <2>8 DEF SizeOf
  <2>13. Positive(w)
    BY <2>6, <2>7 DEF Positive
  <2>14. Whole(w)
    BY <2>2, <2>6, <2>8, <2>10, <2>11, <2>12, <2>13 DEF Whole, Defect
  <2>15. Inserted(t, v, n) = w
    BY <1>5, <1>9, <2>1
  <2>16. w.value[n] = v
    BY <1>8, <2>2, <2>5
  <2> QED BY <2>2, <2>3, <2>6, <2>8, <2>9, <2>14, <2>15, <2>16 DEF Planted
<1>10. CASE p # Null /\ v > t.value[p]
  <2>1. PICK w : w = [u EXCEPT !.right[p] = n]
    OBVIOUS
  <2>2. /\ w \in Tree /\ w.root = u.root /\ w.size = u.size /\ w.value = u.value
        /\ w.left = u.left /\ w.right = [u.right EXCEPT ![p] = n] /\ w.parent = u.parent
        /\ w.height = u.height /\ w.num_nodes = u.num_nodes
    BY <1>2, <1>7, <1>8, <1>10, <2>1 DEF Tree
  <2>3. HungRight(t, w, v, n, p)
    BY <1>8, <2>2 DEF HungRight
  <2>4. Defect(w, p, 1)
    BY <1>6, <1>7, <1>10, <2>3, HungRightDefect
  <2>5. w.size - 1 <= Cardinality(Node)
    BY <1>1, <1>8, <2>2
  <2>6. Inserted(t, v, n) = Balance(w, p)
    BY <1>5, <1>10, <2>1
  <2>7. t.root # Null /\ p \in InTree(t) /\ t.right[p] = Null /\ p = InsertionPoint(t, v)
    BY <1>3, <1>6, <1>7, <1>10
  <2>8. Hung(t, w, v, n, p)
    BY <1>10, <2>3, <2>4, <2>5, <2>7 DEF Hung
  <2> QED BY <2>6, <2>7, <2>8
<1>11. CASE p # Null /\ ~ (v > t.value[p])
  <2>1. PICK w : w = [u EXCEPT !.left[p] = n]
    OBVIOUS
  <2>2. /\ w \in Tree /\ w.root = u.root /\ w.size = u.size /\ w.value = u.value
        /\ w.left = [u.left EXCEPT ![p] = n] /\ w.right = u.right /\ w.parent = u.parent
        /\ w.height = u.height /\ w.num_nodes = u.num_nodes
    BY <1>2, <1>7, <1>8, <1>11, <2>1 DEF Tree
  <2>3. PICK s, z : s = Mirror(t) /\ z = Mirror(w)
    OBVIOUS
  <2>4. /\ s.left = t.right /\ s.right = t.left /\ s.parent = t.parent
        /\ s.root = t.root /\ s.size = t.size /\ s.value = t.value
        /\ s.height = t.height /\ s.num_nodes = t.num_nodes
        /\ InTree(s) = InTree(t)
    BY <1>1, <2>3, MirrorFields
  <2>5. /\ z \in Tree /\ z.left = w.right /\ z.right = w.left /\ z.parent = w.parent
        /\ z.root = w.root /\ z.size = w.size /\ z.value = w.value
        /\ z.height = w.height /\ z.num_nodes = w.num_nodes
    BY <2>2, <2>3, MirrorFields
  <2>6. HungRight(s, z, v, n, p)
    BY <1>8, <2>2, <2>4, <2>5 DEF HungRight
  <2>7. Whole(s)
    BY <2>3, MirrorDefect DEF Whole
  <2>8. s.right[p] = Null /\ p \in InTree(s) /\ n \in Node \ InTree(s)
    BY <1>6, <1>7, <1>11, <2>4
  <2>9. Defect(z, p, 1)
    BY <2>6, <2>7, <2>8, HungRightDefect
  <2>10. Defect(w, p, 1)
    BY <2>2, <2>3, <2>9, MirrorDefect, MirrorTwice
  <2>11. w.size - 1 <= Cardinality(Node)
    BY <1>1, <1>8, <2>2
  <2>12. Inserted(t, v, n) = Balance(w, p)
    BY <1>5, <1>11, <2>1
  <2>13. t.root # Null /\ p \in InTree(t) /\ t.left[p] = Null /\ p = InsertionPoint(t, v)
    BY <1>3, <1>6, <1>7, <1>11
  <2>14. Hung(t, w, v, n, p)
    BY <1>11, <2>3, <2>6, <2>10, <2>11, <2>13 DEF Hung
  <2> QED BY <2>12, <2>13, <2>14
<1> QED BY <1>9, <1>10, <1>11

(* insert leaves a whole tree, wherever it puts the new node and whatever  *)
(* balance rotates.                                                        *)
THEOREM InsertedIsWhole ==
  ASSUME NEW t, Whole(t), NEW v \in Value, NEW n \in Node \ InTree(t)
  PROVE  Whole(Inserted(t, v, n))
<1>1. PICK u, p : u = Inserted(t, v, n) /\ p = InsertionPoint(t, v)
  OBVIOUS
<1>2. CASE Planted(u, v, n)
  BY <1>1, <1>2 DEF Planted
<1>3. CASE \E w : Hung(t, w, v, n, p) /\ u = Balance(w, p)
  <2>1. PICK w : Hung(t, w, v, n, p) /\ u = Balance(w, p)
    BY <1>3
  <2>2. Defect(w, p, 1) /\ w.size - 1 <= Cardinality(Node)
    BY <2>1 DEF Hung
  <2>3. Defect(u, Null, 1)
    BY <2>1, <2>2, BalanceRestores
  <2> QED BY <1>1, <2>3 DEF Whole
<1> QED BY <1>1, <1>2, <1>3, InsertedShape

(* w is t without the node n, whose only child x, or nothing, has taken    *)
(* its place below p; it is not yet balanced.                              *)
SplicedOut(t, w, n, x, p) ==
  /\ w \in Tree /\ w.size = t.size - 1 /\ InTree(w) = InTree(t) \ {n}
  /\ w.root = (IF p = Null THEN x ELSE t.root)
  /\ w.left[n] = Null /\ w.right[n] = Null
  /\ (p # Null /\ n = t.left[p] => w.left[p] = x /\ w.right[p] = t.right[p])
  /\ (p # Null /\ n # t.left[p] => w.left[p] = t.left[p] /\ w.right[p] = x)
  /\ \A m \in Node \ {n, p} : w.left[m] = t.left[m] /\ w.right[m] = t.right[m]
  /\ (x # Null => w.parent[x] = p)
  /\ \A m \in Node \ {n, x} : w.parent[m] = t.parent[m]
  /\ \A m \in Node \ {n} : w.height[m] = t.height[m] /\ w.num_nodes[m] = t.num_nodes[m]

(* remove swaps values, splices and frees.                                 *)
Freed(t, target, n, x) ==
  LET swapped == [t EXCEPT !.value[target] = t.value[n], !.size = @ - 1]
      cut == Replace(swapped, n, x)
  IN  [cut EXCEPT !.value[n] = Null, !.left[n] = Null, !.right[n] = Null,
                  !.parent[n] = Null, !.height[n] = 0, !.num_nodes[n] = 0]

(* remove, with a node that has at most one child spliced out, writes      *)
(* these pointers and leaves every other node alone.                       *)
LEMMA SplicedOutFields ==
  ASSUME NEW t \in Tree, NEW target \in InTree(t), NEW n \in InTree(t), NEW x \in Slot,
         NEW p, p = t.parent[n], x # n, p # n
  PROVE  /\ SplicedOut(t, Freed(t, target, n, x), n, x, p)
         /\ \A m \in Node \ {n} : Freed(t, target, n, x).value[m] =
                                  IF m = target THEN t.value[n] ELSE t.value[m]
<1>a. PICK swapped : swapped = [t EXCEPT !.value[target] = t.value[n], !.size = @ - 1]
  OBVIOUS
<1>b. PICK cut : cut = Replace(swapped, n, x)
  OBVIOUS
<1>c. PICK w : w = [cut EXCEPT !.value[n] = Null, !.left[n] = Null, !.right[n] = Null,
                               !.parent[n] = Null, !.height[n] = 0, !.num_nodes[n] = 0]
  OBVIOUS
<1>d. Freed(t, target, n, x) = w
  BY <1>a, <1>b, <1>c, Zenon DEF Freed
<1>1. /\ n \in Node /\ target \in Node /\ p \in Slot /\ Null \notin Node
      /\ t.value[n] # Null /\ t.value[target] # Null /\ Null \in Slot
      /\ t.value[n] \in Value \cup {Null}
  BY NodeAssumption DEF InTree, Slot, Tree
<1>2. /\ swapped \in Tree /\ swapped.size = t.size - 1 /\ swapped.root = t.root
      /\ swapped.value = [t.value EXCEPT ![target] = t.value[n]]
      /\ swapped.left = t.left /\ swapped.right = t.right /\ swapped.parent = t.parent
      /\ swapped.height = t.height /\ swapped.num_nodes = t.num_nodes
  <2>1. PICK y \in Value \cup {Null} : y = t.value[n]
    BY <1>1
  <2>2. PICK a \in Tree : a = [t EXCEPT !.value[target] = y]
    BY <1>1 DEF Tree
  <2>3. /\ a.value = [t.value EXCEPT ![target] = y] /\ a.size = t.size /\ a.root = t.root
        /\ a.left = t.left /\ a.right = t.right /\ a.parent = t.parent
        /\ a.height = t.height /\ a.num_nodes = t.num_nodes
    BY <1>1, <2>2 DEF Tree
  <2>4. swapped = [a EXCEPT !.size = @ - 1]
    BY <1>a, <1>1, <2>1, <2>2 DEF Tree
  <2>5. /\ swapped \in Tree /\ swapped.size = a.size - 1 /\ swapped.root = a.root
        /\ swapped.value = a.value
        /\ swapped.left = a.left /\ swapped.right = a.right /\ swapped.parent = a.parent
        /\ swapped.height = a.height /\ swapped.num_nodes = a.num_nodes
    <3>1. PICK z \in Int : z = a.size - 1
      BY DEF Tree
    <3>2. swapped = [a EXCEPT !.size = z]
      BY <2>4, <3>1
    <3>3. /\ swapped \in Tree /\ swapped.size = z
      BY <3>2 DEF Tree
    <3>4. /\ swapped.root = a.root /\ swapped.value = a.value
          /\ swapped.left = a.left /\ swapped.right = a.right /\ swapped.parent = a.parent
          /\ swapped.height = a.height /\ swapped.num_nodes = a.num_nodes
      BY <3>2 DEF Tree
    <3> QED BY <3>1, <3>3, <3>4
  <2> QED BY <2>1, <2>3, <2>5
<1>3. cut \in Tree /\ Replaced(swapped, cut, n, x, p)
  BY <1>1, <1>2, <1>b, ReplaceFields
<1>4. /\ cut.size = t.size - 1 /\ cut.value = [t.value EXCEPT ![target] = t.value[n]]
      /\ cut.height = t.height /\ cut.num_nodes = t.num_nodes
      /\ cut.root = (IF p = Null THEN x ELSE t.root)
      /\ cut.left = (IF p # Null /\ n = t.left[p] THEN [t.left EXCEPT ![p] = x] ELSE t.left)
      /\ cut.right = (IF p # Null /\ n # t.left[p] THEN [t.right EXCEPT ![p] = x] ELSE t.right)
      /\ cut.parent = (IF x = Null THEN t.parent ELSE [t.parent EXCEPT ![x] = p])
  BY <1>2, <1>3 DEF Replaced
<1>5. PICK a \in Tree : a = [cut EXCEPT !.value[n] = Null, !.left[n] = Null]
  BY <1>1, <1>3 DEF Tree
<1>6. PICK b \in Tree : b = [a EXCEPT !.right[n] = Null, !.parent[n] = Null]
  BY <1>1 DEF Tree
<1>7. PICK c \in Tree : c = [b EXCEPT !.height[n] = 0, !.num_nodes[n] = 0]
  BY <1>1 DEF Tree
<1>8. /\ a.root = cut.root /\ a.size = cut.size /\ a.right = cut.right
      /\ a.parent = cut.parent /\ a.height = cut.height /\ a.num_nodes = cut.num_nodes
      /\ a.value = [cut.value EXCEPT ![n] = Null] /\ a.left = [cut.left EXCEPT ![n] = Null]
  BY <1>1, <1>3, <1>5 DEF Tree
<1>9. /\ b.root = a.root /\ b.size = a.size /\ b.left = a.left
      /\ b.value = a.value /\ b.height = a.height /\ b.num_nodes = a.num_nodes
      /\ b.right = [a.right EXCEPT ![n] = Null] /\ b.parent = [a.parent EXCEPT ![n] = Null]
  BY <1>1, <1>6 DEF Tree
<1>10. /\ c.root = b.root /\ c.size = b.size /\ c.left = b.left /\ c.right = b.right
       /\ c.value = b.value /\ c.parent = b.parent
       /\ c.height = [b.height EXCEPT ![n] = 0] /\ c.num_nodes = [b.num_nodes EXCEPT ![n] = 0]
  BY <1>1, <1>7 DEF Tree
<1>11. w = c
  <2>1. b = [cut EXCEPT !.value[n] = Null, !.left[n] = Null,
                        !.right[n] = Null, !.parent[n] = Null]
    BY <1>1, <1>3, <1>5, <1>6 DEF Tree
  <2> QED BY <1>c, <1>1, <1>3, <1>7, <2>1 DEF Tree
<1>12. /\ w \in Tree /\ w.size = t.size - 1
       /\ w.root = (IF p = Null THEN x ELSE t.root)
       /\ w.value = [cut.value EXCEPT ![n] = Null]
       /\ w.left = [cut.left EXCEPT ![n] = Null]
       /\ w.right = [cut.right EXCEPT ![n] = Null]
       /\ w.parent = [cut.parent EXCEPT ![n] = Null]
       /\ w.height = [t.height EXCEPT ![n] = 0]
       /\ w.num_nodes = [t.num_nodes EXCEPT ![n] = 0]
  BY <1>4, <1>8, <1>9, <1>10, <1>11
<1>13. /\ t.value \in [Node -> Value \cup {Null}] /\ t.left \in [Node -> Slot]
       /\ t.right \in [Node -> Slot] /\ t.parent \in [Node -> Slot]
       /\ t.height \in [Node -> Nat] /\ t.num_nodes \in [Node -> Nat]
  BY DEF Tree
<1>14. InTree(w) = InTree(t) \ {n}
  <2>1. \A m \in Node : w.value[m] # Null <=> (t.value[m] # Null /\ m # n)
    <3>1. /\ w.value = [cut.value EXCEPT ![n] = Null]
          /\ cut.value = [t.value EXCEPT ![target] = t.value[n]]
          /\ t.value \in [Node -> Value \cup {Null}]
      BY <1>4, <1>12, <1>13
    <3>2. n \in Node /\ target \in Node /\ t.value[n] # Null /\ t.value[target] # Null
      BY <1>1
    <3> QED BY <3>1, <3>2
  <2> QED BY <2>1 DEF InTree
<1>15. /\ w.left[n] = Null /\ w.right[n] = Null
       /\ (p # Null /\ n = t.left[p] => w.left[p] = x /\ w.right[p] = t.right[p])
       /\ (p # Null /\ n # t.left[p] => w.left[p] = t.left[p] /\ w.right[p] = x)
       /\ \A m \in Node \ {n, p} : w.left[m] = t.left[m] /\ w.right[m] = t.right[m]
  <2>1. /\ w.left = [cut.left EXCEPT ![n] = Null] /\ w.right = [cut.right EXCEPT ![n] = Null]
        /\ cut.left = (IF p # Null /\ n = t.left[p] THEN [t.left EXCEPT ![p] = x] ELSE t.left)
        /\ cut.right = (IF p # Null /\ n # t.left[p]
                        THEN [t.right EXCEPT ![p] = x] ELSE t.right)
        /\ t.left \in [Node -> Slot] /\ t.right \in [Node -> Slot]
    BY <1>4, <1>12, <1>13
  <2>2. n \in Node /\ p \in Slot /\ p # n
    BY <1>1
  <2> QED BY <2>1, <2>2, SMTT(30) DEF Slot
<1>16. /\ (x # Null => w.parent[x] = p)
       /\ \A m \in Node \ {n, x} : w.parent[m] = t.parent[m]
  <2>1. /\ w.parent = [cut.parent EXCEPT ![n] = Null]
        /\ cut.parent = (IF x = Null THEN t.parent ELSE [t.parent EXCEPT ![x] = p])
        /\ t.parent \in [Node -> Slot]
    BY <1>4, <1>12, <1>13
  <2>2. n \in Node /\ x \in Slot /\ x # n
    BY <1>1
  <2> QED BY <2>1, <2>2 DEF Slot
<1>17. \A m \in Node \ {n} : w.height[m] = t.height[m] /\ w.num_nodes[m] = t.num_nodes[m]
  <2>1. /\ w.height = [t.height EXCEPT ![n] = 0] /\ w.num_nodes = [t.num_nodes EXCEPT ![n] = 0]
        /\ t.height \in [Node -> Nat] /\ t.num_nodes \in [Node -> Nat]
    BY <1>12, <1>13
  <2> QED BY <2>1
<1>18. \A m \in Node \ {n} : w.value[m] = IF m = target THEN t.value[n] ELSE t.value[m]
  <2>1. /\ w.value = [cut.value EXCEPT ![n] = Null]
        /\ cut.value = [t.value EXCEPT ![target] = t.value[n]]
        /\ t.value \in [Node -> Value \cup {Null}]
    BY <1>4, <1>12, <1>13
  <2> QED BY <1>1, <2>1
<1> QED BY <1>d, <1>12, <1>14, <1>15, <1>16, <1>17, <1>18 DEF SplicedOut

(* n has at most one child, x.                                             *)
OnlyChild(t, n, x) ==
  \/ t.left[n] = x /\ t.right[n] = Null
  \/ t.left[n] = Null /\ t.right[n] = x

(* What is linked to a node with at most one child.                        *)
LEMMA AroundOnlyChild ==
  ASSUME NEW t, Whole(t), NEW n \in InTree(t), NEW x, OnlyChild(t, n, x),
         NEW p, p = t.parent[n]
  PROVE  /\ x \in InTree(t) \cup {Null} /\ x # n /\ p \in InTree(t) \cup {Null} /\ p # n
         /\ (x # Null => t.parent[x] = n /\ x # p)
         /\ t.height[n] = 1 + HeightOf(t, x) /\ t.num_nodes[n] = 1 + SizeOf(t, x)
         /\ (p = Null <=> n = t.root)
         /\ (p # Null => n \in {t.left[p], t.right[p]} /\ t.left[p] # t.right[p])
<1>1. /\ t \in Tree /\ Linked(t) /\ Positive(t) /\ Null \notin InTree(t)
      /\ \A m \in InTree(t) : m \in Node /\ m # Null /\ Exact(t, m)
  BY WholeFacts
<1>2. /\ x \in InTree(t) \cup {Null} /\ x # n /\ (x # Null => t.parent[x] = n)
      /\ x \in {t.left[n], t.right[n]}
  BY <1>1, LinkedFacts DEF OnlyChild
<1>3. /\ p \in InTree(t) \cup {Null} /\ (p = Null <=> n = t.root)
      /\ (p # Null => n \in {t.left[p], t.right[p]})
  BY <1>1, LinkedFacts
<1>4. p # n
  BY <1>1, <1>3, LinkedFacts
<1>5. p # Null => t.left[p] # t.right[p]
  <2>. SUFFICES ASSUME p # Null PROVE t.left[p] # t.right[p]
    OBVIOUS
  <2>1. p \in InTree(t) /\ n # Null
    BY <1>1, <1>3
  <2> QED BY <1>1, <1>3, <2>1, LinkedFacts
<1>6. x # Null => x # p
  <2>. SUFFICES ASSUME x # Null, x = p PROVE FALSE
    OBVIOUS
  <2>1. x \in InTree(t) /\ n \in {t.left[x], t.right[x]} /\ n # Null
    BY <1>1, <1>2, <1>3
  <2>2. t.num_nodes[n] < t.num_nodes[x]
    BY <1>1, <2>1, SizesBelow
  <2>3. t.num_nodes[x] < t.num_nodes[n]
    BY <1>1, <1>2, SizesBelow
  <2>4. t.num_nodes[x] \in Nat /\ t.num_nodes[n] \in Nat
    BY <1>1, <2>1 DEF Tree
  <2> QED BY <2>2, <2>3, <2>4
<1>7. PICK h, k \in Nat : h = HeightOf(t, x) /\ k = SizeOf(t, x)
  BY <1>1, <1>2, MeasuresType DEF Slot
<1>8. HeightOf(t, Null) = 0 /\ SizeOf(t, Null) = 0
  BY DEF HeightOf, SizeOf
<1>9. t.height[n] = 1 + h /\ t.num_nodes[n] = 1 + k
  <2>1. Exact(t, n)
    BY <1>1
  <2>2. CASE t.left[n] = x /\ t.right[n] = Null
    <3>1. t.height[n] = 1 + Higher(h, 0) /\ t.num_nodes[n] = 1 + k + 0
      BY <1>7, <1>8, <2>1, <2>2, Zenon DEF Exact
    <3> QED BY <3>1 DEF Higher
  <2>3. CASE t.left[n] = Null /\ t.right[n] = x
    <3>1. t.height[n] = 1 + Higher(0, h) /\ t.num_nodes[n] = 1 + 0 + k
      BY <1>7, <1>8, <2>1, <2>3, Zenon DEF Exact
    <3> QED BY <3>1 DEF Higher
  <2> QED BY <2>2, <2>3 DEF OnlyChild
<1> QED BY <1>2, <1>3, <1>4, <1>5, <1>6, <1>7, <1>9

(* A node spliced out leaves a linked tree.                                *)
LEMMA SplicedOutLinked ==
  ASSUME NEW t, Whole(t), NEW n \in InTree(t), NEW x, OnlyChild(t, n, x),
         NEW p, p = t.parent[n], NEW w, SplicedOut(t, w, n, x, p)
  PROVE  Linked(w)
<1>1. /\ t \in Tree /\ Linked(t) /\ Null \notin InTree(t) /\ Null \notin Node
      /\ \A m \in InTree(t) : m \in Node /\ m # Null
  BY WholeFacts
<1>2. /\ x \in InTree(t) \cup {Null} /\ x # n /\ p \in InTree(t) \cup {Null} /\ p # n
      /\ (x # Null => t.parent[x] = n /\ x # p)
      /\ (p = Null <=> n = t.root)
      /\ (p # Null => n \in {t.left[p], t.right[p]} /\ t.left[p] # t.right[p])
  BY AroundOnlyChild
<1>3. /\ InTree(w) = InTree(t) \ {n}
      /\ w.root = (IF p = Null THEN x ELSE t.root)
      /\ w.left[n] = Null /\ w.right[n] = Null
      /\ (p # Null /\ n = t.left[p] => w.left[p] = x /\ w.right[p] = t.right[p])
      /\ (p # Null /\ n # t.left[p] => w.left[p] = t.left[p] /\ w.right[p] = x)
      /\ \A m \in Node \ {n, p} : w.left[m] = t.left[m] /\ w.right[m] = t.right[m]
      /\ (x # Null => w.parent[x] = p)
      /\ \A m \in Node \ {n, x} : w.parent[m] = t.parent[m]
  BY DEF SplicedOut
<1>4. ASSUME NEW m \in InTree(t)
      PROVE  /\ t.left[m] \in InTree(t) \cup {Null} /\ t.right[m] \in InTree(t) \cup {Null}
             /\ t.left[m] # m /\ t.right[m] # m
             /\ (t.left[m] # Null => t.left[m] # t.right[m] /\ t.parent[t.left[m]] = m)
             /\ (t.right[m] # Null => t.parent[t.right[m]] = m)
             /\ (m # t.root => /\ t.parent[m] \in InTree(t)
                               /\ m \in {t.left[t.parent[m]], t.right[t.parent[m]]})
  BY <1>1 DEF Linked, LinkedAt
<1>5. t.root \in InTree(t) /\ t.parent[t.root] = Null
  BY <1>1, RootHoldsMost DEF Whole, Linked
<1>6. w.root \in InTree(w) \cup {Null} /\ (w.root # Null => w.parent[w.root] = Null)
  <2>1. CASE p = Null
    BY <1>2, <1>3, <2>1
  <2>2. CASE p # Null
    <3>1. t.root # n /\ t.root # x /\ t.root \in Node
      BY <1>1, <1>2, <1>5, <2>2
    <3> QED BY <1>3, <1>5, <2>2, <3>1
  <2> QED BY <2>1, <2>2
<1>7. ASSUME NEW m \in Node \ InTree(w) PROVE w.left[m] = Null /\ w.right[m] = Null
  <2>1. CASE m = n
    BY <1>3, <2>1
  <2>2. CASE m # n
    <3>1. m \notin InTree(t) /\ m # p
      BY <1>1, <1>2, <1>3, <1>7, <2>2
    <3>2. t.left[m] = Null /\ t.right[m] = Null
      BY <1>1, <1>7, <3>1 DEF Linked
    <3> QED BY <1>3, <1>7, <2>2, <3>1, <3>2
  <2> QED BY <2>1, <2>2
<1>8. ASSUME NEW m \in InTree(w)
      PROVE  /\ w.left[m] \in InTree(w) \cup {Null} /\ w.right[m] \in InTree(w) \cup {Null}
             /\ w.left[m] # m /\ w.right[m] # m
             /\ (w.left[m] # Null => w.left[m] # w.right[m] /\ w.parent[w.left[m]] = m)
             /\ (w.right[m] # Null => w.parent[w.right[m]] = m)
  <2>1. m \in InTree(t) /\ m # n /\ m \in Node
    BY <1>1, <1>3
  <2>2. ASSUME NEW y \in {t.left[m], t.right[m]}, y # Null, y # n
        PROVE  y \in InTree(w) /\ w.parent[y] = m /\ y # x /\ y # m
    <3>1. y \in InTree(t) /\ t.parent[y] = m /\ y # m
      BY <1>4, <2>1, <2>2
    <3>2. y # x
      BY <1>2, <2>1, <2>2, <3>1
    <3> QED BY <1>1, <1>3, <2>2, <3>1, <3>2
  <2>3. CASE m = p
    <3>1. /\ x \in InTree(w) \cup {Null} /\ x # m /\ (x # Null => w.parent[x] = m)
      BY <1>1, <1>2, <1>3, <2>1, <2>3
    <3>2. PICK s \in {t.left[m], t.right[m]} :
             /\ s # n
             /\ \/ w.left[m] = x /\ w.right[m] = s
                \/ w.left[m] = s /\ w.right[m] = x
      BY <1>1, <1>2, <1>3, <2>1, <2>3
    <3>3. s # Null => s \in InTree(w) /\ w.parent[s] = m /\ s # x /\ s # m
      BY <2>2, <3>2
    <3>4. m # Null
      BY <1>1, <2>1
    <3> QED BY <3>1, <3>2, <3>3, <3>4
  <2>4. CASE m # p
    <3>1. w.left[m] = t.left[m] /\ w.right[m] = t.right[m]
      BY <1>3, <2>1, <2>4
    <3>2. t.left[m] # n /\ t.right[m] # n
      BY <1>1, <1>4, <2>1, <2>4
    <3>3. /\ (t.left[m] # Null => t.left[m] \in InTree(w) /\ w.parent[t.left[m]] = m)
          /\ (t.right[m] # Null => t.right[m] \in InTree(w) /\ w.parent[t.right[m]] = m)
      BY <2>2, <3>2
    <3> QED BY <1>4, <2>1, <3>1, <3>3
  <2> QED BY <2>3, <2>4
<1>9. ASSUME NEW m \in InTree(w), m # w.root
      PROVE  w.parent[m] \in InTree(w) /\ m \in {w.left[w.parent[m]], w.right[w.parent[m]]}
  <2>1. m \in InTree(t) /\ m # n /\ m \in Node /\ m # Null
    BY <1>1, <1>3
  <2>2. CASE m = x
    <3>1. p # Null /\ w.parent[m] = p
      BY <1>3, <1>9, <2>1, <2>2
    <3>2. p \in InTree(w)
      BY <1>2, <1>3, <3>1
    <3> QED BY <1>3, <2>2, <3>1, <3>2
  <2>3. CASE m # x
    <3>1. m # t.root
      BY <1>2, <1>3, <1>9, <2>1
    <3>2. PICK q \in InTree(t) : /\ q = t.parent[m] /\ q = w.parent[m]
                                 /\ m \in {t.left[q], t.right[q]}
      BY <1>3, <1>4, <2>1, <2>3, <3>1
    <3>3. q # n
      BY <2>1, <2>3, <3>2 DEF OnlyChild
    <3>4. q \in InTree(w) /\ q \in Node /\ q # Null
      BY <1>1, <1>3, <3>2, <3>3
    <3>5. m \in {w.left[q], w.right[q]}
      <4>1. CASE q = p
        BY <1>2, <1>3, <2>1, <3>2, <3>4, <4>1
      <4>2. CASE q # p
        BY <1>3, <3>2, <3>3, <3>4, <4>2
      <4> QED BY <4>1, <4>2
    <3> QED BY <3>2, <3>4, <3>5
  <2> QED BY <2>2, <2>3
<1> QED BY <1>6, <1>7, <1>8, <1>9 DEF Linked, LinkedAt

(* A node spliced out is a defect of its parent.                           *)
LEMMA SplicedOutDefect ==
  ASSUME NEW t, Whole(t), NEW n \in InTree(t), NEW x, OnlyChild(t, n, x),
         NEW p, p = t.parent[n], NEW w, SplicedOut(t, w, n, x, p)
  PROVE  Defect(w, p, -1)
<1>1. /\ t \in Tree /\ Linked(t) /\ Positive(t)
      /\ t.size = Cardinality(InTree(t)) /\ SizeOf(t, t.root) = t.size /\ t.size \in Nat
      /\ IsFiniteSet(InTree(t)) /\ Null \notin InTree(t) /\ Null \notin Node
      /\ \A m \in InTree(t) : m \in Node /\ m # Null /\ Exact(t, m)
  BY WholeFacts
<1>2. /\ x \in InTree(t) \cup {Null} /\ x # n /\ p \in InTree(t) \cup {Null} /\ p # n
      /\ (x # Null => t.parent[x] = n /\ x # p)
      /\ t.height[n] = 1 + HeightOf(t, x) /\ t.num_nodes[n] = 1 + SizeOf(t, x)
      /\ (p = Null <=> n = t.root)
      /\ (p # Null => n \in {t.left[p], t.right[p]} /\ t.left[p] # t.right[p])
  BY AroundOnlyChild
<1>3. /\ w \in Tree /\ w.size = t.size - 1 /\ InTree(w) = InTree(t) \ {n}
      /\ w.root = (IF p = Null THEN x ELSE t.root)
      /\ (p # Null /\ n = t.left[p] => w.left[p] = x /\ w.right[p] = t.right[p])
      /\ (p # Null /\ n # t.left[p] => w.left[p] = t.left[p] /\ w.right[p] = x)
      /\ \A m \in Node \ {n, p} : w.left[m] = t.left[m] /\ w.right[m] = t.right[m]
      /\ \A m \in Node \ {n} : w.height[m] = t.height[m] /\ w.num_nodes[m] = t.num_nodes[m]
  BY DEF SplicedOut
<1>4. Linked(w)
  BY SplicedOutLinked
<1>5. Positive(w)
  BY <1>1, <1>3 DEF Positive
<1>6. w.size = Cardinality(InTree(w))
  <2>1. Cardinality(InTree(t) \ {n}) = Cardinality(InTree(t)) - 1
    BY <1>1, FS_RemoveElement, Zenon
  <2> QED BY <1>1, <1>3, <2>1
<1>7. \A m \in Slot \ {n} : HeightOf(w, m) = HeightOf(t, m) /\ SizeOf(w, m) = SizeOf(t, m)
  BY <1>3 DEF HeightOf, SizeOf, Slot
<1>8. ASSUME NEW m \in InTree(w) \ {p} PROVE Exact(w, m)
  <2>1. m \in InTree(t) /\ m # n /\ m # p /\ m \in Node /\ Exact(t, m)
    BY <1>1, <1>3
  <2>2. /\ t.left[m] \in InTree(t) \cup {Null} /\ t.right[m] \in InTree(t) \cup {Null}
        /\ (t.left[m] # Null => t.parent[t.left[m]] = m)
        /\ (t.right[m] # Null => t.parent[t.right[m]] = m)
    BY <1>1, <2>1, LinkedFacts
  <2>3. \A y \in {t.left[m], t.right[m]} \ {Null} : y \in Node \ {n}
    BY <1>1, <2>1, <2>2
  <2>4. \A y \in {t.left[m], t.right[m]} \ {Null} :
           w.height[y] = t.height[y] /\ w.num_nodes[y] = t.num_nodes[y]
    BY <1>3, <2>3
  <2>5. /\ w.left[m] = t.left[m] /\ w.right[m] = t.right[m]
        /\ w.height[m] = t.height[m] /\ w.num_nodes[m] = t.num_nodes[m]
    BY <1>3, <2>1
  <2> QED BY <2>1, <2>4, <2>5, ExactKept
<1>9. PICK hx, sx \in Nat : hx = HeightOf(t, x) /\ sx = SizeOf(t, x)
  BY <1>1, <1>2, MeasuresType DEF Slot
<1>10. /\ hx = HeightOf(w, x) /\ sx = SizeOf(w, x)
       /\ HeightOf(t, n) = 1 + hx /\ SizeOf(t, n) = 1 + sx
  <2>1. x \in Slot \ {n} /\ n # Null
    BY <1>1, <1>2 DEF Slot
  <2> QED BY <1>2, <1>7, <1>9, <2>1 DEF HeightOf, SizeOf
<1>11. CASE p = Null
  <2>1. SizeOf(w, w.root) = w.size
    BY <1>1, <1>2, <1>3, <1>10, <1>11
  <2> QED BY <1>3, <1>4, <1>5, <1>6, <1>8, <1>11, <2>1 DEF Defect
<1>12. CASE p # Null
  <2>1. p \in InTree(t) /\ p \in Node /\ p \in InTree(w) /\ p # n
    BY <1>1, <1>2, <1>3, <1>12
  <2>2. SizeOf(w, w.root) + (-1) = w.size
    <3>1. t.root # n /\ t.root \in Slot /\ w.root = t.root
      BY <1>1, <1>2, <1>3, <1>12 DEF Tree
    <3>2. SizeOf(w, w.root) = t.size
      BY <1>1, <1>7, <3>1
    <3> QED BY <1>1, <1>3, <3>2
  <2>3. PICK s \in {t.left[p], t.right[p]} :
           /\ s # n
           /\ \/ n = t.left[p] /\ s = t.right[p] /\ w.left[p] = x /\ w.right[p] = s
              \/ n = t.right[p] /\ s = t.left[p] /\ w.right[p] = x /\ w.left[p] = s
    BY <1>2, <1>3, <1>12
  <2>4. s \in Slot
    BY <1>1, <2>1, LinkedFacts DEF Slot
  <2>5. PICK h, k \in Nat : h = HeightOf(t, s) /\ k = SizeOf(t, s)
    BY <1>1, <2>4, MeasuresType
  <2>6. h = HeightOf(w, s) /\ k = SizeOf(w, s)
    BY <1>7, <2>3, <2>4, <2>5
  <2>7. w.height[p] = t.height[p] /\ w.num_nodes[p] = t.num_nodes[p]
    BY <1>3, <2>1
  <2>8. Exact(t, p)
    BY <1>1, <2>1
  <2>9. CASE n = t.left[p] /\ s = t.right[p] /\ w.left[p] = x /\ w.right[p] = s
    <3>1. /\ t.height[p] = 1 + Higher(1 + hx, h) /\ t.num_nodes[p] = 1 + (1 + sx) + k
          /\ (1 + hx) - h \in -1 .. 1
      BY <1>10, <2>5, <2>8, <2>9, Zenon DEF Exact, BalanceFactor
    <3>5. /\ HeightOf(w, w.left[p]) = hx /\ SizeOf(w, w.left[p]) = sx
          /\ HeightOf(w, w.right[p]) = h /\ SizeOf(w, w.right[p]) = k
      BY <1>10, <2>6, <2>9, Zenon
    <3>2. w.num_nodes[p] + (-1) = 1 + SizeOf(w, w.left[p]) + SizeOf(w, w.right[p])
      BY <2>7, <3>1, <3>5
    <3>3. /\ w.height[p] = 1 + Higher(1 + hx, h)
          /\ h = HeightOf(w, w.right[p]) /\ HeightOf(w, w.left[p]) - (1 + hx) \in -1 .. 1
      BY <2>7, <3>1, <3>5
    <3>4. Stale(w, p)
      <4>1. 1 + hx \in Nat
        OBVIOUS
      <4> QED BY <3>1, <3>3, <4>1 DEF Stale
    <3> QED BY <1>3, <1>4, <1>5, <1>6, <1>8, <1>12, <2>1, <2>2, <3>2, <3>4 DEF Defect
  <2>10. CASE n = t.right[p] /\ s = t.left[p] /\ w.right[p] = x /\ w.left[p] = s
    <3>1. /\ t.height[p] = 1 + Higher(h, 1 + hx) /\ t.num_nodes[p] = 1 + k + (1 + sx)
          /\ h - (1 + hx) \in -1 .. 1
      BY <1>10, <2>5, <2>8, <2>10, Zenon DEF Exact, BalanceFactor
    <3>5. /\ HeightOf(w, w.right[p]) = hx /\ SizeOf(w, w.right[p]) = sx
          /\ HeightOf(w, w.left[p]) = h /\ SizeOf(w, w.left[p]) = k
      BY <1>10, <2>6, <2>10, Zenon
    <3>2. w.num_nodes[p] + (-1) = 1 + SizeOf(w, w.left[p]) + SizeOf(w, w.right[p])
      BY <2>7, <3>1, <3>5
    <3>3. /\ w.height[p] = 1 + Higher(h, 1 + hx)
          /\ h = HeightOf(w, w.left[p]) /\ HeightOf(w, w.right[p]) - (1 + hx) \in -1 .. 1
      BY <2>7, <3>1, <3>5
    <3>4. Stale(w, p)
      <4>1. 1 + hx \in Nat
        OBVIOUS
      <4> QED BY <3>1, <3>3, <4>1 DEF Stale
    <3> QED BY <1>3, <1>4, <1>5, <1>6, <1>8, <1>12, <2>1, <2>2, <3>2, <3>4 DEF Defect
  <2> QED BY <2>3, <2>9, <2>10
<1> QED BY <1>11, <1>12

(* w is t, not yet balanced, with target's value gone: n is out, which is  *)
(* target or has left its value there.                                     *)
TakenOut(t, w, target, n, p) ==
  /\ target \in InTree(t) /\ n = Leaving(t, target) /\ n \in InTree(t) /\ p = t.parent[n]
  /\ \E x : OnlyChild(t, n, x) /\ SplicedOut(t, w, n, x, p)
  /\ \A m \in Node \ {n} : w.value[m] = IF m = target THEN t.value[n] ELSE t.value[m]
  /\ Defect(w, p, -1) /\ w.size - (-1) <= Cardinality(Node)

(* remove takes out the value it finds, if any, and balances.              *)
LEMMA RemovedShape ==
  ASSUME NEW t, Whole(t), NEW v
  PROVE  \/ Find(t, v) = Null /\ Removed(t, v) = t
         \/ \E w, n, p : TakenOut(t, w, Find(t, v), n, p) /\ Removed(t, v) = Balance(w, p)
<1>1. /\ t \in Tree /\ Linked(t) /\ Null \notin InTree(t)
      /\ t.size \in Nat /\ t.size <= Cardinality(Node) /\ Cardinality(Node) \in Nat
  BY WholeFacts, NodeAssumption, FS_CardinalityType
<1>2. PICK target : target = Find(t, v)
  OBVIOUS
<1>3. CASE target = Null
  BY <1>2, <1>3 DEF Removed
<1>4. CASE target # Null
  <2>1. target \in InTree(t)
    BY <1>2, <1>4, FindFacts
  <2>2. PICK n : n = Leaving(t, target)
    OBVIOUS
  <2>3. n \in InTree(t) /\ Null \in {t.left[n], t.right[n]}
    <3>1. CASE Null \in {t.left[target], t.right[target]}
      BY <2>1, <2>2, <3>1 DEF Leaving
    <3>2. CASE Null \notin {t.left[target], t.right[target]}
      <4>1. t.left[target] \in InTree(t)
        BY <1>1, <2>1, <3>2, LinkedFacts
      <4>2. n = RightMost(t, t.left[target])
        BY <2>2, <3>2 DEF Leaving
      <4> QED BY <4>1, <4>2, RightMostFacts
    <3> QED BY <3>1, <3>2
  <2>4. PICK x : x = IF t.left[n] # Null THEN t.left[n] ELSE t.right[n]
    OBVIOUS
  <2>5. OnlyChild(t, n, x)
    BY <2>3, <2>4 DEF OnlyChild
  <2>6. PICK p : p = t.parent[n]
    OBVIOUS
  <2>7. x \in InTree(t) \cup {Null} /\ x # n /\ p # n
    BY <2>3, <2>5, <2>6, AroundOnlyChild
  <2>8. PICK w : w = Freed(t, target, n, x)
    OBVIOUS
  <2>11. Removed(t, v) = Balance(w, p)
    BY <1>2, <1>4, <2>2, <2>4, <2>6, <2>8, Zenon DEF Removed, Freed
  <2>12. /\ SplicedOut(t, w, n, x, p)
         /\ \A m \in Node \ {n} : w.value[m] = IF m = target THEN t.value[n] ELSE t.value[m]
    <3>1. x \in Slot
      BY <2>7 DEF Slot, InTree
    <3>2. t \in Tree /\ n \in InTree(t) /\ x # n /\ p # n
      BY <1>1, <2>3, <2>7
    <3>3. SplicedOut(t, Freed(t, target, n, x), n, x, p)
      BY <2>1, <2>6, <3>1, <3>2, SplicedOutFields, Zenon
    <3>4. \A m \in Node \ {n} : Freed(t, target, n, x).value[m] =
                              IF m = target THEN t.value[n] ELSE t.value[m]
      BY <2>1, <2>6, <3>1, <3>2, SplicedOutFields
    <3> QED BY <2>8, <3>3, <3>4
  <2>13. Defect(w, p, -1)
    BY <2>3, <2>5, <2>6, <2>12, SplicedOutDefect
  <2>14. w.size - (-1) <= Cardinality(Node)
    <3>1. w.size = t.size - 1
      BY <2>12 DEF SplicedOut
    <3> QED BY <1>1, <3>1
  <2>15. TakenOut(t, w, target, n, p)
    BY <2>1, <2>2, <2>3, <2>5, <2>6, <2>12, <2>13, <2>14 DEF TakenOut
  <2> QED BY <1>2, <2>11, <2>15
<1> QED BY <1>3, <1>4

(* remove leaves a whole tree, whichever node it takes out and whatever    *)
(* balance rotates on the way to the root.                                 *)
THEOREM RemovedIsWhole ==
  ASSUME NEW t, Whole(t), NEW v
  PROVE  Whole(Removed(t, v))
<1>1. CASE Removed(t, v) = t
  BY <1>1
<1>2. CASE \E w, n, p : TakenOut(t, w, Find(t, v), n, p) /\ Removed(t, v) = Balance(w, p)
  <2>1. PICK w, n, p : TakenOut(t, w, Find(t, v), n, p) /\ Removed(t, v) = Balance(w, p)
    BY <1>2
  <2>2. Defect(w, p, -1) /\ w.size - (-1) <= Cardinality(Node)
    BY <2>1 DEF TakenOut
  <2>3. Defect(Balance(w, p), Null, -1)
    BY <2>2, BalanceRestores
  <2>4. Defect(Balance(w, p), Null, 1)
    BY <2>3 DEF Defect
  <2> QED BY <2>1, <2>4 DEF Whole
<1> QED BY <1>1, <1>2, RemovedShape

-----------------------------------------------------------------------------
(* The tree between the calls.                                             *)

(* The strengthened invariant: no node is a defect, and free nodes have no *)
(* children.                                                               *)
TreeInv == Whole(tree)

(* An empty tree has no defect.                                            *)
LEMMA TreeInvStarts == Init => TreeInv
<1>. SUFFICES ASSUME Init PROVE TreeInv
  OBVIOUS
<1>1. tree = EmptyTree
  BY DEF Init
<1>2. /\ tree \in Tree /\ tree.root = Null /\ tree.size = 0
      /\ \A m \in Node : tree.value[m] = Null /\ tree.left[m] = Null /\ tree.right[m] = Null
  BY <1>1 DEF EmptyTree, Tree, Slot
<1>3. InTree(tree) = {}
  BY <1>2 DEF InTree
<1>4. Cardinality({}) = 0
  BY FS_EmptySet, Zenon
<1>5. Linked(tree) /\ Positive(tree)
  BY <1>2, <1>3 DEF Linked, Positive
<1>6. SizeOf(tree, tree.root) = tree.size
  BY <1>2 DEF SizeOf
<1> QED BY <1>2, <1>3, <1>4, <1>5, <1>6 DEF TreeInv, Whole, Defect

(* Every call leaves a tree without a defect.                              *)
LEMMA TreeInvKept == TreeInv /\ [Next]_vars => TreeInv'
<1>. SUFFICES ASSUME TreeInv, [Next]_vars PROVE TreeInv'
  OBVIOUS
<1>1. Whole(tree)
  BY DEF TreeInv
<1>2. SUFFICES Whole(tree')
  BY DEF TreeInv, Whole, Defect, Linked, LinkedAt, Positive, Exact, Stale, InTree,
         HeightOf, SizeOf, BalanceFactor
<1>3. ASSUME NEW v \in Value, Insert(v) PROVE Whole(tree')
  BY <1>1, <1>3, InsertedIsWhole DEF Insert
<1>4. ASSUME NEW v \in Value, Remove(v) PROVE Whole(tree')
  BY <1>1, <1>4, RemovedIsWhole DEF Remove
<1>5. CASE Begin \/ Visit
  BY <1>1, <1>5 DEF Begin, Visit
<1>6. CASE VisitAndRemove
  BY <1>1, <1>6, RemovedIsWhole DEF VisitAndRemove
<1>7. CASE UNCHANGED vars
  BY <1>1, <1>7 DEF vars
<1> QED BY <1>3, <1>4, <1>5, <1>6, <1>7 DEF Next

(* A whole tree is well formed: what update_meta computes is there.        *)
LEMMA WholeIsWellFormed == TreeInv => WellFormed
<1>. SUFFICES ASSUME TreeInv PROVE WellFormed
  OBVIOUS
<1>1. /\ tree \in Tree /\ Linked(tree)
      /\ tree.size = Cardinality(InTree(tree)) /\ SizeOf(tree, tree.root) = tree.size
      /\ \A m \in InTree(tree) : m \in Node /\ m # Null /\ Exact(tree, m)
  BY WholeFacts DEF TreeInv
<1>2. ASSUME NEW n \in InTree(tree)
      PROVE  /\ \A child \in {tree.left[n], tree.right[n]} \ {Null} : tree.parent[child] = n
             /\ BalanceFactor(tree, n) \in {-1, 0, 1}
             /\ tree = UpdateMeta(tree, n)
  <2>1. n \in Node /\ Exact(tree, n)
    BY <1>1
  <2>2. \A child \in {tree.left[n], tree.right[n]} \ {Null} : tree.parent[child] = n
    BY <1>1, LinkedFacts
  <2>3. BalanceFactor(tree, n) \in {-1, 0, 1}
    BY <2>1 DEF Exact
  <2>4. PICK u \in Tree : u = UpdateMeta(tree, n) /\ Measured(tree, u, n)
    BY <1>1, <2>1, UpdateMetaFields
  <2>5. /\ u.root = tree.root /\ u.size = tree.size /\ u.value = tree.value
        /\ u.left = tree.left /\ u.right = tree.right /\ u.parent = tree.parent
        /\ u.height = [tree.height EXCEPT ![n] = tree.height[n]]
        /\ u.num_nodes = [tree.num_nodes EXCEPT ![n] = tree.num_nodes[n]]
    BY <2>1, <2>4, Zenon DEF Measured, Exact
  <2>6. tree.height \in [Node -> Nat] /\ tree.num_nodes \in [Node -> Nat]
    BY <1>1 DEF Tree
  <2>7. u.height = tree.height /\ u.num_nodes = tree.num_nodes
    BY <2>1, <2>5, <2>6
  <2>8. u = tree
    BY <1>1, <2>5, <2>7, SameFields
  <2> QED BY <2>2, <2>3, <2>4, <2>8
<1>3. tree.root # Null => tree.parent[tree.root] = Null
  BY <1>1 DEF Linked
<1> QED BY <1>1, <1>2, <1>3 DEF WellFormed

(* After any calls the tree is well formed: pointers up and down agree,    *)
(* every node is balanced and stores the height and size of its subtree.   *)
THEOREM TreeWellFormed == Spec => []WellFormed
<1>1. Spec => []TreeInv
  BY TreeInvStarts, TreeInvKept, PTL DEF Spec
<1> QED BY <1>1, WholeIsWellFormed, PTL

-----------------------------------------------------------------------------
(* The order of the elements.  Whatever is rotated, the nodes of the tree  *)
(* stand in a row, from left to right, and each subtree is a range of the  *)
(* row.                                                                    *)

(* row has the nodes from left to right.  The subtree of m is what stands  *)
(* in row after lo[m], up to hi[m], and m itself stands at mid[m].         *)
Sits(t, row, lo, mid, hi, m) ==
  /\ row[mid[m]] = m
  /\ lo[m] < mid[m] /\ mid[m] <= hi[m] /\ hi[m] <= t.size
  /\ t.left[m] = Null => mid[m] = lo[m] + 1
  /\ t.left[m] # Null => lo[t.left[m]] = lo[m] /\ hi[t.left[m]] + 1 = mid[m]
  /\ t.right[m] = Null => hi[m] = mid[m]
  /\ t.right[m] # Null => lo[t.right[m]] = mid[m] /\ hi[t.right[m]] = hi[m]

Spans(t, row, lo, mid, hi) ==
  /\ row \in [1 .. t.size -> InTree(t)]
  /\ lo \in [InTree(t) -> Nat] /\ mid \in [InTree(t) -> Nat] /\ hi \in [InTree(t) -> Nat]
  /\ \A m \in InTree(t) : Sits(t, row, lo, mid, hi, m)
  /\ \A i \in 1 .. t.size : mid[row[i]] = i
  /\ t.root # Null => lo[t.root] = 0 /\ hi[t.root] = t.size
  /\ t.root = Null => t.size = 0

Lists(t, row) == \E lo, mid, hi : Spans(t, row, lo, mid, hi)

-----------------------------------------------------------------------------
(* Rotations.                                                              *)

(* right_rotate leaves every node where it stands in the row: it lengthens *)
(* the range of l by n and the right of n, and shortens that of n by l and *)
(* the left of l.                                                          *)
LEMMA RightRotateLists ==
  ASSUME NEW t \in Tree, Linked(t), NEW n \in InTree(t), NEW l \in InTree(t),
         NEW c, NEW p, RotatesRight(t, n, l, c, p),
         NEW u, RotatedRight(t, u, n, l, c, p), NEW row, Lists(t, row)
  PROVE  Lists(u, row)
<1>1. PICK lo, mid, hi : Spans(t, row, lo, mid, hi)
  BY DEF Lists
<1>2. /\ l = t.left[n] /\ c = t.right[l] /\ p = t.parent[n]
      /\ n \notin {l, c, p} /\ l \notin {c, p} /\ t.left[l] # n
      /\ Null \notin InTree(t) /\ n # Null /\ l # Null /\ InTree(t) \subseteq Node
  BY NodeAssumption DEF RotatesRight, InTree
<1>3. /\ InTree(u) = InTree(t) /\ u.size = t.size
      /\ u.root = (IF p = Null THEN l ELSE t.root)
      /\ u.left[n] = c /\ u.right[n] = t.right[n]
      /\ u.left[l] = t.left[l] /\ u.right[l] = n
      /\ p # Null /\ n = t.left[p] => u.left[p] = l /\ u.right[p] = t.right[p]
      /\ p # Null /\ n # t.left[p] => u.left[p] = t.left[p] /\ u.right[p] = l
      /\ \A x \in Node \ {n, l, p} : u.left[x] = t.left[x] /\ u.right[x] = t.right[x]
  BY DEF RotatedRight, InTree
<1>4. /\ row \in [1 .. t.size -> InTree(t)]
      /\ lo \in [InTree(t) -> Nat] /\ mid \in [InTree(t) -> Nat] /\ hi \in [InTree(t) -> Nat]
      /\ \A m \in InTree(t) : Sits(t, row, lo, mid, hi, m)
      /\ \A i \in 1 .. t.size : mid[row[i]] = i
      /\ t.root # Null => lo[t.root] = 0 /\ hi[t.root] = t.size
      /\ t.root = Null => t.size = 0
  BY <1>1 DEF Spans
<1>5. PICK lo2, hi2 : lo2 = [lo EXCEPT ![n] = mid[l]] /\ hi2 = [hi EXCEPT ![l] = hi[n]]
  OBVIOUS
<1>6. /\ lo2 \in [InTree(t) -> Nat] /\ hi2 \in [InTree(t) -> Nat]
      /\ lo2[n] = mid[l] /\ hi2[n] = hi[n] /\ lo2[l] = lo[l] /\ hi2[l] = hi[n]
      /\ \A x \in InTree(t) \ {n, l} : lo2[x] = lo[x] /\ hi2[x] = hi[x]
  BY <1>2, <1>4, <1>5
<1>7. /\ lo[l] = lo[n] /\ hi[l] + 1 = mid[n]
      /\ lo[n] \in Nat /\ mid[n] \in Nat /\ hi[n] \in Nat
      /\ lo[l] \in Nat /\ mid[l] \in Nat /\ hi[l] \in Nat
      /\ lo[l] < mid[l] /\ mid[l] <= hi[l] /\ mid[n] <= hi[n] /\ hi[n] <= t.size
      /\ row[mid[n]] = n /\ row[mid[l]] = l
  BY <1>2, <1>4 DEF Sits
<1>8. \A m \in InTree(t) :
        /\ t.left[m] # Null => t.left[m] \in InTree(t) /\ t.parent[t.left[m]] = m
        /\ t.right[m] # Null => t.right[m] \in InTree(t) /\ t.parent[t.right[m]] = m
  BY LinkedFacts
<1>9. t.parent[l] = n /\ (p = Null <=> n = t.root) /\ p \in InTree(t) \cup {Null}
      /\ (p # Null => n \in {t.left[p], t.right[p]})
  BY <1>2, <1>8, LinkedFacts
<1>10. ASSUME NEW m \in InTree(t), NEW x \in InTree(t), x \in {t.left[m], t.right[m]},
              m \notin {n, p} \/ (m = n /\ x # l) \/ (m = p /\ x # n)
       PROVE  lo2[x] = lo[x] /\ hi2[x] = hi[x]
  <2>1. t.parent[x] = m /\ x # Null
    BY <1>2, <1>8, <1>10
  <2>2. x # n /\ x # l
    BY <1>2, <1>9, <1>10, <2>1
  <2> QED BY <1>6, <2>2
<1>11. Sits(u, row, lo2, mid, hi2, n)
  <2>1. /\ c = Null => hi[l] = mid[l]
        /\ c # Null => c \in InTree(t) /\ lo[c] = mid[l] /\ hi[c] = hi[l]
    BY <1>2, <1>4, <1>8 DEF Sits
  <2>2. c # Null => lo2[c] = lo[c] /\ hi2[c] = hi[c]
    BY <1>2, <1>6, <2>1
  <2>3. /\ t.right[n] = Null => hi[n] = mid[n]
        /\ t.right[n] # Null => lo[t.right[n]] = mid[n] /\ hi[t.right[n]] = hi[n]
    BY <1>4 DEF Sits
  <2>4. t.right[n] # Null => t.right[n] # l
    BY <1>7, <2>3
  <2>5. t.right[n] # Null => /\ lo2[t.right[n]] = lo[t.right[n]]
                             /\ hi2[t.right[n]] = hi[t.right[n]]
    BY <1>8, <1>10, <2>4
  <2>6. /\ c = Null => mid[n] = lo2[n] + 1
        /\ c # Null => lo2[c] = lo2[n] /\ hi2[c] + 1 = mid[n]
    BY <1>6, <1>7, <2>1, <2>2
  <2>7. /\ t.right[n] = Null => hi2[n] = mid[n]
        /\ t.right[n] # Null => lo2[t.right[n]] = mid[n] /\ hi2[t.right[n]] = hi2[n]
    BY <1>6, <2>3, <2>5
  <2>8. lo2[n] < mid[n] /\ mid[n] <= hi2[n] /\ hi2[n] <= u.size /\ row[mid[n]] = n
    BY <1>3, <1>6, <1>7
  <2> QED BY <1>3, <2>6, <2>7, <2>8 DEF Sits
<1>12. Sits(u, row, lo2, mid, hi2, l)
  <2>1. /\ t.left[l] = Null => mid[l] = lo[l] + 1
        /\ t.left[l] # Null => lo[t.left[l]] = lo[l] /\ hi[t.left[l]] + 1 = mid[l]
    BY <1>4 DEF Sits
  <2>2. t.left[l] # Null => /\ lo2[t.left[l]] = lo[t.left[l]]
                            /\ hi2[t.left[l]] = hi[t.left[l]]
    BY <1>2, <1>8, <1>10
  <2>3. lo2[l] < mid[l] /\ mid[l] <= hi2[l] /\ hi2[l] <= u.size /\ row[mid[l]] = l
    BY <1>3, <1>6, <1>7
  <2> QED BY <1>2, <1>3, <1>6, <2>1, <2>2, <2>3 DEF Sits
<1>13. ASSUME NEW m \in InTree(t), m # n, m # l PROVE Sits(u, row, lo2, mid, hi2, m)
  <2>1. /\ row[mid[m]] = m
        /\ lo[m] < mid[m] /\ mid[m] <= hi[m] /\ hi[m] <= t.size
        /\ t.left[m] = Null => mid[m] = lo[m] + 1
        /\ t.left[m] # Null => lo[t.left[m]] = lo[m] /\ hi[t.left[m]] + 1 = mid[m]
        /\ t.right[m] = Null => hi[m] = mid[m]
        /\ t.right[m] # Null => lo[t.right[m]] = mid[m] /\ hi[t.right[m]] = hi[m]
    BY <1>4 DEF Sits
  <2>2. lo2[m] = lo[m] /\ hi2[m] = hi[m] /\ lo2[l] = lo[n] /\ hi2[l] = hi[n]
    BY <1>6, <1>7, <1>13
  <2>3. CASE m # p
    <3>1. u.left[m] = t.left[m] /\ u.right[m] = t.right[m]
      BY <1>2, <1>3, <1>13, <2>3
    <3>2. /\ t.left[m] # Null => lo2[t.left[m]] = lo[t.left[m]] /\ hi2[t.left[m]] = hi[t.left[m]]
          /\ t.right[m] # Null => lo2[t.right[m]] = lo[t.right[m]] /\ hi2[t.right[m]] = hi[t.right[m]]
      BY <1>8, <1>10, <1>13, <2>3
    <3> QED BY <1>3, <2>1, <2>2, <3>1, <3>2 DEF Sits
  <2>4. CASE m = p /\ n = t.left[p]
    <3>1. u.left[m] = l /\ u.right[m] = t.right[m]
      BY <1>2, <1>3, <2>4
    <3>2. t.right[m] # Null => t.right[m] # n
      BY <1>7, <2>1, <2>4
    <3>3. t.right[m] # Null => lo2[t.right[m]] = lo[t.right[m]] /\ hi2[t.right[m]] = hi[t.right[m]]
      BY <1>8, <1>10, <2>4, <3>2
    <3>4. lo2[l] = lo2[m] /\ hi2[l] + 1 = mid[m]
      BY <1>2, <2>1, <2>2, <2>4
    <3>5. /\ t.right[m] = Null => hi2[m] = mid[m]
          /\ t.right[m] # Null => lo2[t.right[m]] = mid[m] /\ hi2[t.right[m]] = hi2[m]
      BY <2>1, <2>2, <3>3
    <3>6. lo2[m] < mid[m] /\ mid[m] <= hi2[m] /\ hi2[m] <= u.size /\ row[mid[m]] = m
      BY <1>3, <2>1, <2>2
    <3> QED BY <1>2, <3>1, <3>4, <3>5, <3>6 DEF Sits
  <2>5. CASE m = p /\ n # t.left[p]
    <3>1. u.left[m] = t.left[m] /\ u.right[m] = l /\ n = t.right[m]
      BY <1>2, <1>3, <1>9, <2>5
    <3>2. t.left[m] # Null => lo2[t.left[m]] = lo[t.left[m]] /\ hi2[t.left[m]] = hi[t.left[m]]
      BY <1>8, <1>10, <2>5
    <3>3. lo2[l] = mid[m] /\ hi2[l] = hi2[m]
      BY <1>2, <2>1, <2>2, <3>1
    <3>4. /\ t.left[m] = Null => mid[m] = lo2[m] + 1
          /\ t.left[m] # Null => lo2[t.left[m]] = lo2[m] /\ hi2[t.left[m]] + 1 = mid[m]
      BY <2>1, <2>2, <3>2
    <3>5. lo2[m] < mid[m] /\ mid[m] <= hi2[m] /\ hi2[m] <= u.size /\ row[mid[m]] = m
      BY <1>3, <2>1, <2>2
    <3> QED BY <1>2, <3>1, <3>3, <3>4, <3>5 DEF Sits
  <2> QED BY <2>3, <2>4, <2>5
<1>14. /\ u.root # Null => lo2[u.root] = 0 /\ hi2[u.root] = u.size
       /\ u.root = Null => u.size = 0
  <2>1. CASE p = Null
    BY <1>2, <1>3, <1>4, <1>6, <1>7, <1>9, <2>1
  <2>2. CASE p # Null
    <3>1. t.root # n /\ t.root # l /\ t.root \in InTree(t) \cup {Null} /\ u.root = t.root
      BY <1>2, <1>3, <1>9, <2>2 DEF Linked
    <3> QED BY <1>3, <1>4, <1>6, <3>1
  <2> QED BY <2>1, <2>2
<1>15. Spans(u, row, lo2, mid, hi2)
  BY <1>3, <1>4, <1>6, <1>11, <1>12, <1>13, <1>14 DEF Spans
<1> QED BY <1>15 DEF Lists

(* A node with a left child may be rotated to the right: ranges nest, so   *)
(* its neighbours are distinct.                                            *)
LEMMA ListsRotatesRight ==
  ASSUME NEW t \in Tree, Linked(t), NEW row, Lists(t, row), NEW n \in InTree(t),
         NEW l, l = t.left[n], l # Null, NEW c, c = t.right[l], NEW p, p = t.parent[n]
  PROVE  l \in InTree(t) /\ RotatesRight(t, n, l, c, p)
<1>1. PICK lo, mid, hi : Spans(t, row, lo, mid, hi)
  BY DEF Lists
<1>2. \A m \in InTree(t) : lo[m] \in Nat /\ mid[m] \in Nat /\ hi[m] \in Nat
  BY <1>1 DEF Spans
<1>3. \A m \in InTree(t) :
        /\ lo[m] < mid[m] /\ mid[m] <= hi[m]
        /\ t.left[m] # Null => lo[t.left[m]] = lo[m] /\ hi[t.left[m]] + 1 = mid[m]
        /\ t.right[m] # Null => lo[t.right[m]] = mid[m] /\ hi[t.right[m]] = hi[m]
  BY <1>1 DEF Spans, Sits
<1>4. /\ Null \notin InTree(t) /\ InTree(t) \subseteq Node
      /\ \A m \in InTree(t) : /\ t.left[m] \in InTree(t) \cup {Null} /\ t.left[m] # m
                              /\ t.right[m] \in InTree(t) \cup {Null} /\ t.right[m] # m
                              /\ t.parent[m] \in InTree(t) \cup {Null}
                              /\ t.parent[m] # Null =>
                                   m \in {t.left[t.parent[m]], t.right[t.parent[m]]}
  BY LinkedFacts, NodeAssumption DEF InTree
<1>5. l \in InTree(t) /\ c \in InTree(t) \cup {Null} /\ p \in InTree(t) \cup {Null}
  BY <1>4
<1>6. lo[l] = lo[n] /\ hi[l] + 1 = mid[n] /\ lo[l] < mid[l] /\ mid[l] <= hi[l]
  BY <1>3, <1>5
<1>7. c # Null => /\ lo[c] = mid[l] /\ hi[c] = hi[l] /\ c \in InTree(t)
                  /\ lo[c] < mid[c] /\ mid[c] <= hi[c]
  BY <1>3, <1>5
<1>8. c # n
  BY <1>2, <1>4, <1>5, <1>6, <1>7
<1>9. t.left[l] # n
  BY <1>2, <1>3, <1>4, <1>5, <1>6
<1>10. p # n /\ p # l
  BY <1>4, <1>5, <1>8, <1>9
<1>11. c # Null => c # p
  <2>. SUFFICES ASSUME c # Null, c = p PROVE FALSE
    OBVIOUS
  <2>1. n \in {t.left[c], t.right[c]} /\ c \in InTree(t) /\ n # Null
    BY <1>4, <1>7
  <2>2. lo[c] <= lo[n] /\ hi[n] <= hi[c]
    BY <1>2, <1>3, <2>1
  <2>3. lo[n] < mid[n] /\ mid[n] <= hi[n]
    BY <1>3
  <2> QED BY <1>2, <1>5, <1>6, <1>7, <2>1, <2>2, <2>3
<1>12. n # l /\ l # c
  BY <1>4, <1>5
<1> QED BY <1>4, <1>5, <1>8, <1>9, <1>10, <1>11, <1>12 DEF RotatesRight, Slot

(* The same of right_rotate as an operator.                                *)
LEMMA RightRotateKeepsRow ==
  ASSUME NEW t \in Tree, Linked(t), NEW row, Lists(t, row), NEW n \in InTree(t),
         t.left[n] # Null, NEW u, u = RightRotate(t, n)
  PROVE  /\ u \in Tree /\ Linked(u) /\ InTree(u) = InTree(t) /\ Lists(u, row)
         /\ u.value = t.value /\ u.size = t.size
<1>1. PICK l, c, p : l = t.left[n] /\ c = t.right[l] /\ p = t.parent[n]
  OBVIOUS
<1>2. l \in InTree(t) /\ RotatesRight(t, n, l, c, p)
  BY <1>1, ListsRotatesRight
<1>3. RotatedRight(t, u, n, l, c, p)
  BY <1>2, RightRotateFields
<1>4. InTree(u) = InTree(t) /\ Linked(u)
  BY <1>2, <1>3, RightRotateLinked
<1>5. Lists(u, row)
  BY <1>2, <1>3, RightRotateLists
<1> QED BY <1>3, <1>4, <1>5 DEF RotatedRight

(* In the mirror the row is read from its end.                             *)
Back(t, row) == [i \in 1 .. t.size |-> row[t.size + 1 - i]]

(* So a tree that lists a row lists it from its end in the mirror.         *)
LEMMA MirrorLists ==
  ASSUME NEW t \in Tree, Linked(t), NEW row, Lists(t, row)
  PROVE  /\ Lists(Mirror(t), Back(t, row))
         /\ Back(Mirror(t), Back(t, row)) = row
<1>1. PICK lo, mid, hi : Spans(t, row, lo, mid, hi)
  BY DEF Lists
<1>2. PICK s \in Tree : s = Mirror(t)
  BY MirrorFields
<1>3. /\ s.left = t.right /\ s.right = t.left /\ s.root = t.root /\ s.size = t.size
      /\ InTree(s) = InTree(t)
  BY <1>2, MirrorFields
<1>4. /\ row \in [1 .. t.size -> InTree(t)]
      /\ lo \in [InTree(t) -> Nat] /\ mid \in [InTree(t) -> Nat] /\ hi \in [InTree(t) -> Nat]
      /\ \A m \in InTree(t) : Sits(t, row, lo, mid, hi, m)
      /\ \A i \in 1 .. t.size : mid[row[i]] = i
      /\ t.root # Null => lo[t.root] = 0 /\ hi[t.root] = t.size
      /\ t.root = Null => t.size = 0
  BY <1>1 DEF Spans
<1>5. PICK k \in Int : k = t.size
  BY DEF Tree
<1>6. PICK lo2, mid2, hi2, row2 :
        /\ lo2 = [m \in InTree(t) |-> k - hi[m]]
        /\ mid2 = [m \in InTree(t) |-> k + 1 - mid[m]]
        /\ hi2 = [m \in InTree(t) |-> k - lo[m]]
        /\ row2 = Back(t, row)
  OBVIOUS
<1>7. ASSUME NEW m \in InTree(t)
      PROVE  /\ row[mid[m]] = m
             /\ lo[m] \in Nat /\ mid[m] \in Nat /\ hi[m] \in Nat
             /\ lo[m] < mid[m] /\ mid[m] <= hi[m] /\ hi[m] <= k
             /\ t.left[m] = Null => mid[m] = lo[m] + 1
             /\ t.left[m] # Null => lo[t.left[m]] = lo[m] /\ hi[t.left[m]] + 1 = mid[m]
             /\ t.right[m] = Null => hi[m] = mid[m]
             /\ t.right[m] # Null => lo[t.right[m]] = mid[m] /\ hi[t.right[m]] = hi[m]
  BY <1>4, <1>5 DEF Sits
<1>8. /\ lo2 \in [InTree(t) -> Nat] /\ mid2 \in [InTree(t) -> Nat]
      /\ hi2 \in [InTree(t) -> Nat]
  <2>1. \A m \in InTree(t) : k - hi[m] \in Nat /\ k + 1 - mid[m] \in Nat /\ k - lo[m] \in Nat
    BY <1>5, <1>7
  <2> QED BY <1>6, <2>1
<1>9. \A i \in 1 .. k : /\ k + 1 - i \in 1 .. k /\ k + 1 - (k + 1 - i) = i
                        /\ row2[i] = row[k + 1 - i]
  BY <1>5, <1>6 DEF Back
<1>10. row2 \in [1 .. k -> InTree(t)]
  <2>1. row2 = [i \in 1 .. k |-> row[k + 1 - i]]
    BY <1>5, <1>6 DEF Back
  <2> QED BY <1>4, <1>5, <1>9, <2>1
<1>11. ASSUME NEW m \in InTree(t) PROVE Sits(s, row2, lo2, mid2, hi2, m)
  <2>1. mid[m] \in 1 .. k /\ mid2[m] = k + 1 - mid[m] /\ k + 1 - (k + 1 - mid[m]) = mid[m]
    BY <1>5, <1>6, <1>7
  <2>2. row2[mid2[m]] = m
    BY <1>7, <1>9, <2>1
  <2>3. /\ t.left[m] # Null => t.left[m] \in InTree(t) /\ hi[t.left[m]] \in Nat
        /\ t.right[m] # Null => t.right[m] \in InTree(t) /\ lo[t.right[m]] \in Nat
    BY <1>4, LinkedFacts
  <2>4. lo2[m] < mid2[m] /\ mid2[m] <= hi2[m] /\ hi2[m] <= k
    BY <1>5, <1>6, <1>7
  <2>5. /\ t.right[m] = Null => mid2[m] = lo2[m] + 1
        /\ t.right[m] # Null => lo2[t.right[m]] = lo2[m] /\ hi2[t.right[m]] + 1 = mid2[m]
    BY <1>5, <1>6, <1>7, <2>3
  <2>6. /\ t.left[m] = Null => hi2[m] = mid2[m]
        /\ t.left[m] # Null => lo2[t.left[m]] = mid2[m] /\ hi2[t.left[m]] = hi2[m]
    BY <1>5, <1>6, <1>7, <2>3
  <2> QED BY <1>3, <1>5, <2>2, <2>4, <2>5, <2>6 DEF Sits
<1>12. ASSUME NEW i \in 1 .. k PROVE mid2[row2[i]] = i
  <2>1. row2[i] \in InTree(t) /\ mid[row2[i]] = k + 1 - i
    BY <1>4, <1>5, <1>9, <1>10
  <2>2. mid2[row2[i]] = k + 1 - mid[row2[i]]
    BY <1>6, <2>1
  <2> QED BY <1>9, <2>1, <2>2
<1>13. /\ s.root # Null => lo2[s.root] = 0 /\ hi2[s.root] = s.size
       /\ s.root = Null => s.size = 0
  <2>1. t.root # Null => t.root \in InTree(t)
    BY DEF Linked
  <2> QED BY <1>3, <1>4, <1>5, <1>6, <2>1
<1>14. Spans(s, row2, lo2, mid2, hi2)
  BY <1>3, <1>5, <1>8, <1>10, <1>11, <1>12, <1>13 DEF Spans
<1>15. Back(s, row2) = row
  <2>1. Back(s, row2) = [i \in 1 .. k |-> row2[k + 1 - i]]
    BY <1>3, <1>5 DEF Back
  <2>2. \A i \in 1 .. k : row2[k + 1 - i] = row[i]
    BY <1>5, <1>9
  <2> QED BY <1>4, <1>5, <2>1, <2>2
<1> QED BY <1>2, <1>6, <1>14, <1>15 DEF Lists

(* left_rotate leaves every node where it stands, too.                     *)
LEMMA LeftRotateKeepsRow ==
  ASSUME NEW t \in Tree, Linked(t), NEW row, Lists(t, row), NEW n \in InTree(t),
         t.right[n] # Null, NEW u, u = LeftRotate(t, n)
  PROVE  /\ u \in Tree /\ Linked(u) /\ InTree(u) = InTree(t) /\ Lists(u, row)
         /\ u.value = t.value /\ u.size = t.size
<1>1. PICK s \in Tree : s = Mirror(t)
  BY MirrorFields
<1>2. /\ s.left = t.right /\ InTree(s) = InTree(t) /\ s.value = t.value /\ s.size = t.size
      /\ Linked(s) /\ Lists(s, Back(t, row)) /\ Back(s, Back(t, row)) = row
  BY <1>1, MirrorFields, MirrorLinked, MirrorLists
<1>3. PICK z : z = RightRotate(s, n)
  OBVIOUS
<1>4. /\ z \in Tree /\ Linked(z) /\ InTree(z) = InTree(s) /\ Lists(z, Back(t, row))
      /\ z.value = s.value /\ z.size = s.size
  BY <1>2, <1>3, RightRotateKeepsRow
<1>5. t.right[n] \in Node /\ n \in Node /\ Placed(t, n)
  BY LinkedFacts DEF InTree
<1>6. u = Mirror(z)
  BY <1>1, <1>3, <1>5, MirrorLeftRotate
<1>7. Lists(u, Back(z, Back(t, row)))
  BY <1>4, <1>6, MirrorLists
<1>8. Back(z, Back(t, row)) = row
  BY <1>2, <1>4 DEF Back
<1>9. /\ u \in Tree /\ Linked(u) /\ InTree(u) = InTree(z)
      /\ u.value = z.value /\ u.size = z.size
  BY <1>4, <1>6, MirrorFields, MirrorLinked
<1> QED BY <1>2, <1>4, <1>7, <1>8, <1>9

-----------------------------------------------------------------------------
(* balance.                                                                *)

(* update_meta moves no node.                                              *)
LEMMA MeasuredKeepsRow ==
  ASSUME NEW t, NEW n, NEW d \in {-1, 1}, Defect(t, n, d), n # Null,
         NEW v, v = UpdateMeta(t, n), NEW row, Lists(t, row)
  PROVE  /\ v \in Tree /\ Linked(v) /\ InTree(v) = InTree(t) /\ Lists(v, row)
         /\ v.value = t.value /\ v.left = t.left /\ v.right = t.right
<1>1. /\ v \in Tree /\ Linked(v) /\ InTree(v) = InTree(t)
      /\ v.root = t.root /\ v.size = t.size /\ v.value = t.value
      /\ v.left = t.left /\ v.right = t.right
  <2>1. DefectMeasuredIn(t, v, n, d)
    BY DefectMeasured
  <2> QED BY <2>1 DEF DefectMeasuredIn
<1>2. PICK lo, mid, hi : Spans(t, row, lo, mid, hi)
  BY DEF Lists
<1>3. \A m \in InTree(t) : Sits(v, row, lo, mid, hi, m)
  BY <1>1, <1>2 DEF Spans, Sits
<1>4. Spans(v, row, lo, mid, hi)
  BY <1>1, <1>2, <1>3 DEF Spans
<1> QED BY <1>1, <1>4 DEF Lists

(* A round at a defect that leans to the left moves no node in the row.    *)
LEMMA HighLeftKeepsRow ==
  ASSUME NEW t, NEW n, NEW d \in {-1, 1}, Defect(t, n, d), n # Null,
         NEW v, v = UpdateMeta(t, n), BalanceFactor(v, n) > 1,
         NEW row, Lists(t, row), NEW u, u = Rotated(v, n)
  PROVE  u \in Tree /\ Linked(u) /\ Lists(u, row) /\ u.value = t.value
<1>1. PICK p, l, c : p = t.parent[n] /\ l = t.left[n] /\ c = t.right[l]
  OBVIOUS
<1>2. /\ v \in Tree /\ Linked(v) /\ InTree(v) = InTree(t) /\ Lists(v, row)
      /\ v.value = t.value /\ v.left = t.left /\ v.right = t.right
  BY MeasuredKeepsRow
<1>3. HighLeft(t, n, p, l, c)
  BY <1>1, HighLeftFacts
<1>4. n \in InTree(t) /\ n \in Node /\ l \in InTree(t) /\ l # Null
  BY <1>3, NodeAssumption DEF HighLeft
<1>5. BalanceFactor(v, n) \in Int /\ ~(BalanceFactor(v, n) < -1)
  BY <1>2, <1>4, MirrorBalanceFactor
<1>6. u = IF BalanceFactor(v, l) \in {0, 1} THEN RightRotate(v, n)
          ELSE RightRotate(LeftRotate(v, l), n)
  BY <1>1, <1>2, <1>5 DEF Rotated
<1>7. CASE BalanceFactor(v, l) \in {0, 1}
  <2>1. u = RightRotate(v, n) /\ v.left[n] # Null
    BY <1>1, <1>2, <1>4, <1>6, <1>7
  <2> QED BY <1>2, <1>4, <2>1, RightRotateKeepsRow
<1>8. CASE BalanceFactor(v, l) \notin {0, 1}
  <2>1. PICK w : w = LeftRotate(v, l)
    OBVIOUS
  <2>2. u = RightRotate(w, n)
    BY <1>6, <1>8, <2>1
  <2>3. w.left[n] = c /\ c \in Node
    BY <1>1, <1>8, <2>1, <2>2, RoundWithTwoRotations
  <2>4. v.right[l] # Null /\ w.left[n] # Null
    BY <1>1, <1>2, <2>3, NodeAssumption
  <2>5. /\ w \in Tree /\ Linked(w) /\ InTree(w) = InTree(v) /\ Lists(w, row)
        /\ w.value = v.value
    BY <1>2, <1>4, <2>1, <2>4, LeftRotateKeepsRow
  <2>6. n \in InTree(w)
    BY <1>2, <1>4, <2>5
  <2> QED BY <1>2, <2>2, <2>4, <2>5, <2>6, RightRotateKeepsRow
<1> QED BY <1>7, <1>8

(* Nor does any other round.                                               *)
LEMMA RoundKeepsRow ==
  ASSUME NEW t, NEW n, NEW d \in {-1, 1}, Defect(t, n, d), n # Null,
         NEW row, Lists(t, row), NEW u, u = Rotated(UpdateMeta(t, n), n)
  PROVE  Lists(u, row) /\ u.value = t.value
<1>1. PICK v : v = UpdateMeta(t, n)
  OBVIOUS
<1>2. /\ v \in Tree /\ Linked(v) /\ InTree(v) = InTree(t) /\ Lists(v, row)
      /\ v.value = t.value /\ t \in Tree /\ Linked(t)
  BY <1>1, MeasuredKeepsRow DEF Defect
<1>3. BalanceFactor(v, n) \in Int
  BY <1>2, MirrorBalanceFactor DEF Defect, InTree
<1>4. CASE BalanceFactor(v, n) > 1
  BY <1>1, <1>4, HighLeftKeepsRow
<1>5. CASE BalanceFactor(v, n) < -1
  <2>1. PICK s, y : s = Mirror(t) /\ y = Mirror(v)
    OBVIOUS
  <2>2. /\ y = UpdateMeta(s, n) /\ Defect(s, n, d)
        /\ BalanceFactor(y, n) > 1 /\ u = Mirror(Rotated(y, n))
    BY <1>1, <1>5, <2>1, RotatedInMirror
  <2>3. PICK z : z = Rotated(y, n)
    OBVIOUS
  <2>4. /\ Lists(s, Back(t, row)) /\ Back(s, Back(t, row)) = row
        /\ s.value = t.value /\ s.size = t.size
    BY <1>2, <2>1, MirrorLists, MirrorFields
  <2>5. z \in Tree /\ Linked(z) /\ Lists(z, Back(t, row)) /\ z.value = s.value
    BY <2>2, <2>3, <2>4, HighLeftKeepsRow
  <2>6. Advanced(s, z, n, s.parent[n], d)
    BY <2>2, <2>3, RoundMovesDefectUp
  <2>7. z.size = s.size
    BY <2>6 DEF Advanced
  <2>8. Lists(u, Back(z, Back(t, row))) /\ u.value = z.value
    BY <2>2, <2>3, <2>5, MirrorLists, MirrorFields
  <2>9. Back(z, Back(t, row)) = row
    BY <2>4, <2>7 DEF Back
  <2> QED BY <2>4, <2>5, <2>8, <2>9
<1>6. CASE BalanceFactor(v, n) \in -1 .. 1
  <2>1. Rotated(v, n) = v
    BY <1>3, <1>6 DEF Rotated
  <2> QED BY <1>1, <1>2, <2>1
<1> QED BY <1>3, <1>4, <1>5, <1>6

(* However far up balance rotates, it moves no node in the row and no      *)
(* value from one node to another.                                         *)
THEOREM BalanceKeepsOrder ==
  ASSUME NEW t, NEW n, NEW d \in {-1, 1}, Defect(t, n, d), NEW row, Lists(t, row)
  PROVE  Lists(Balance(t, n), row) /\ Balance(t, n).value = t.value
<1>1. PICK N \in Nat : N = Cardinality(Node)
  BY NodeAssumption, FS_CardinalityType
<1>2. PICK f : LoopOf(f, t, n, N) /\ Balance(t, n) = f[N][1]
  BY <1>1, BalanceIsLoop
<1>3. /\ f[0] = <<t, n>>
      /\ \A i \in Nat : i + 1 <= N => f[i + 1] = BalanceStep(f[i][1], f[i][2])
  BY <1>2 DEF LoopOf
<1>. DEFINE Round(i) == /\ Defect(f[i][1], f[i][2], d)
                        /\ Lists(f[i][1], row) /\ f[i][1].value = t.value
            S == {i \in Nat : i <= N => Round(i)}
<1>4. 0 \in S
  BY <1>3
<1>5. ASSUME NEW i \in S PROVE i + 1 \in S
  <2>1. SUFFICES ASSUME i + 1 <= N PROVE Round(i + 1)
    <3>. HIDE DEF Round
    <3> QED OBVIOUS
  <2>2. PICK u, m : u = f[i][1] /\ m = f[i][2]
    OBVIOUS
  <2>3. Defect(u, m, d) /\ Lists(u, row) /\ u.value = t.value
    BY <2>1, <2>2
  <2>4. f[i + 1] = BalanceStep(u, m)
    BY <1>3, <2>1, <2>2
  <2>5. CASE m = Null
    <3>1. f[i + 1] = <<u, m>>
      BY <2>4, <2>5 DEF BalanceStep
    <3> QED BY <2>3, <2>5, <3>1
  <2>6. CASE m # Null
    <3>1. PICK w, p : w = Rotated(UpdateMeta(u, m), m) /\ p = u.parent[m]
      OBVIOUS
    <3>2. f[i + 1] = <<w, p>> /\ Advanced(u, w, m, p, d)
      BY <2>3, <2>4, <2>6, <3>1, RoundMovesDefectUp
    <3>3. Defect(w, p, d)
      BY <3>2 DEF Advanced
    <3>4. Lists(w, row) /\ w.value = u.value
      BY <2>3, <2>6, <3>1, RoundKeepsRow
    <3> QED BY <2>3, <3>2, <3>3, <3>4
  <2> QED BY <2>5, <2>6
<1>. HIDE DEF S
<1>6. N \in S
  BY <1>4, <1>5, EveryNatural
<1> QED BY <1>2, <1>6 DEF S

-----------------------------------------------------------------------------
(* Walks.  What each move of a walk keeps holds where the walk ends.       *)

(* P is kept by every move.                                                *)
LEMMA ChaseKeeps ==
  ASSUME NEW D, NEW next \in [D -> D], NEW k \in Nat, NEW rank \in [D -> 0 .. k],
         \A m \in D : next[m] = m \/ rank[next[m]] < rank[m],
         NEW P \in SUBSET D, \A m \in P : next[m] \in P, NEW n \in P
  PROVE  Chase(next, n) \in P /\ next[Chase(next, n)] = Chase(next, n)
<1>1. PICK f : f = CHOOSE end : EndOf(end, next)
  OBVIOUS
<1>2. EndOf(f, next)
  BY <1>1, EndExists
<1>3. Chase(next, n) = f[n]
  BY <1>1 DEF Chase, EndOf
<1>4. \A m \in D : f[m] = IF next[m] = m THEN m ELSE f[next[m]]
  BY <1>2 DEF EndOf
<1>. DEFINE S == {i \in Nat : \A m \in P : rank[m] < i => f[m] \in P /\ next[f[m]] = f[m]}
<1>5. 0 \in S
  OBVIOUS
<1>6. ASSUME NEW i \in S PROVE i + 1 \in S
  <2>1. ASSUME NEW m \in P, rank[m] < i + 1 PROVE f[m] \in P /\ next[f[m]] = f[m]
    <3>1. CASE next[m] = m
      BY <1>4, <3>1
    <3>2. CASE next[m] # m
      <4>1. next[m] \in P /\ next[m] \in D /\ m \in D /\ rank[next[m]] < i
        BY <2>1, <3>2
      <4>2. f[m] = f[next[m]]
        BY <1>4, <3>2, <4>1
      <4> QED BY <1>6, <4>1, <4>2
    <3> QED BY <3>1, <3>2
  <2> QED BY <2>1
<1>. HIDE DEF S
<1>7. k + 1 \in S
  BY <1>5, <1>6, EveryNatural
<1> QED BY <1>3, <1>7 DEF S

(* What the ranges of a row say of one node.                               *)
LEMMA SpansFacts ==
  ASSUME NEW t, Whole(t), NEW row, NEW lo, NEW mid, NEW hi, Spans(t, row, lo, mid, hi),
         NEW m \in InTree(t)
  PROVE  /\ lo[m] \in Nat /\ mid[m] \in Nat /\ hi[m] \in Nat /\ t.size \in Nat
         /\ lo[m] < mid[m] /\ mid[m] <= hi[m] /\ hi[m] <= t.size
         /\ row[mid[m]] = m /\ mid[m] \in 1 .. t.size
         /\ t.left[m] = Null => mid[m] = lo[m] + 1
         /\ t.left[m] # Null => /\ t.left[m] \in InTree(t)
                                /\ lo[t.left[m]] = lo[m] /\ hi[t.left[m]] + 1 = mid[m]
         /\ t.right[m] = Null => hi[m] = mid[m]
         /\ t.right[m] # Null => /\ t.right[m] \in InTree(t)
                                 /\ lo[t.right[m]] = mid[m] /\ hi[t.right[m]] = hi[m]
<1>1. Sits(t, row, lo, mid, hi, m) /\ lo[m] \in Nat /\ mid[m] \in Nat /\ hi[m] \in Nat
  BY DEF Spans
<1>2. t \in Tree /\ Linked(t) /\ t.size \in Nat
  BY WholeFacts
<1>3. t.left[m] \in InTree(t) \cup {Null} /\ t.right[m] \in InTree(t) \cup {Null}
  BY <1>2, LinkedFacts
<1> QED BY <1>1, <1>2, <1>3 DEF Sits

(* A walk down, like ChaseDown, with what it keeps.                        *)
LEMMA ChaseDownKeeps ==
  ASSUME NEW t, Whole(t), NEW next \in [InTree(t) -> InTree(t)],
         \A m \in InTree(t) : next[m] = m \/ next[m] \in {t.left[m], t.right[m]},
         NEW P \in SUBSET InTree(t), \A m \in P : next[m] \in P, NEW n \in P
  PROVE  Chase(next, n) \in P /\ next[Chase(next, n)] = Chase(next, n)
<1>1. /\ t \in Tree /\ Linked(t) /\ Positive(t) /\ Null \notin InTree(t)
      /\ \A m \in InTree(t) : Exact(t, m)
  BY WholeFacts
<1>2. PICK k \in Nat : k = SizeOf(t, t.root)
  BY RootHoldsMost DEF Whole
<1>3. PICK rank : rank = [m \in InTree(t) |-> t.num_nodes[m]]
  OBVIOUS
<1>4. \A m \in InTree(t) : t.num_nodes[m] \in Nat /\ t.num_nodes[m] <= k
  BY <1>2, RootHoldsMost DEF Whole
<1>5. rank \in [InTree(t) -> 0 .. k]
  BY <1>3, <1>4
<1>6. ASSUME NEW m \in InTree(t) PROVE next[m] = m \/ rank[next[m]] < rank[m]
  <2>. SUFFICES ASSUME next[m] # m PROVE rank[next[m]] < rank[m]
    OBVIOUS
  <2>1. next[m] \in InTree(t) /\ next[m] \in {t.left[m], t.right[m]} /\ next[m] # Null
    BY <1>1
  <2>2. t.num_nodes[next[m]] < t.num_nodes[m]
    BY <1>1, <2>1, SizesBelow
  <2> QED BY <1>3, <2>1, <2>2
<1> QED BY <1>5, <1>6, ChaseKeeps

(* The right-most node below n stands at the end of n's range.             *)
LEMMA RightMostStands ==
  ASSUME NEW t, Whole(t), NEW row, NEW lo, NEW mid, NEW hi, Spans(t, row, lo, mid, hi),
         NEW n \in InTree(t)
  PROVE  RightMost(t, n) \in InTree(t) /\ mid[RightMost(t, n)] = hi[n]
<1>1. PICK next : next = [m \in InTree(t) |-> IF t.right[m] = Null THEN m ELSE t.right[m]]
  OBVIOUS
<1>2. \A m \in InTree(t) : t.right[m] \in InTree(t) \cup {Null} /\ t.right[m] # m
  BY WholeFacts, LinkedFacts
<1>3. /\ next \in [InTree(t) -> InTree(t)]
      /\ \A m \in InTree(t) : next[m] = m \/ next[m] \in {t.left[m], t.right[m]}
  BY <1>1, <1>2
<1>4. PICK P : P = {m \in InTree(t) : hi[m] = hi[n]}
  OBVIOUS
<1>5. \A m \in P : next[m] \in P
  BY <1>1, <1>3, <1>4, SpansFacts
<1>6. Chase(next, n) \in P /\ next[Chase(next, n)] = Chase(next, n)
  BY <1>3, <1>4, <1>5, ChaseDownKeeps
<1>7. RightMost(t, n) = Chase(next, n)
  BY <1>1 DEF RightMost
<1>8. t.right[RightMost(t, n)] = Null /\ RightMost(t, n) \in InTree(t)
  BY <1>1, <1>2, <1>4, <1>6, <1>7
<1> QED BY <1>4, <1>6, <1>7, <1>8, SpansFacts

(* The left-most stands at its start.                                      *)
LEMMA LeftMostStands ==
  ASSUME NEW t, Whole(t), NEW row, NEW lo, NEW mid, NEW hi, Spans(t, row, lo, mid, hi),
         NEW n \in InTree(t)
  PROVE  LeftMost(t, n) \in InTree(t) /\ mid[LeftMost(t, n)] = lo[n] + 1
<1>1. PICK next : next = [m \in InTree(t) |-> IF t.left[m] = Null THEN m ELSE t.left[m]]
  OBVIOUS
<1>2. \A m \in InTree(t) : t.left[m] \in InTree(t) \cup {Null} /\ t.left[m] # m
  BY WholeFacts, LinkedFacts
<1>3. /\ next \in [InTree(t) -> InTree(t)]
      /\ \A m \in InTree(t) : next[m] = m \/ next[m] \in {t.left[m], t.right[m]}
  BY <1>1, <1>2
<1>4. PICK P : P = {m \in InTree(t) : lo[m] = lo[n]}
  OBVIOUS
<1>5. \A m \in P : next[m] \in P
  BY <1>1, <1>3, <1>4, SpansFacts
<1>6. Chase(next, n) \in P /\ next[Chase(next, n)] = Chase(next, n)
  BY <1>3, <1>4, <1>5, ChaseDownKeeps
<1>7. LeftMost(t, n) = Chase(next, n)
  BY <1>1 DEF LeftMost
<1>8. t.left[LeftMost(t, n)] = Null /\ LeftMost(t, n) \in InTree(t)
  BY <1>1, <1>2, <1>4, <1>6, <1>7
<1> QED BY <1>4, <1>6, <1>7, <1>8, SpansFacts

-----------------------------------------------------------------------------
(* Searches.                                                               *)

(* The elements of the nodes in row.                                       *)
Listed(t, row) == [i \in 1 .. t.size |-> t.value[row[i]]]

Ascending(s) == \A i, j \in DOMAIN s : i <= j => s[i] <= s[j]

(* The element at a node's place is its value, an integer.                 *)
LEMMA ListedFacts ==
  ASSUME NEW t, Whole(t), NEW row, NEW lo, NEW mid, NEW hi, Spans(t, row, lo, mid, hi),
         NEW s, s = Listed(t, row)
  PROVE  /\ s \in [1 .. t.size -> Value] /\ DOMAIN s = 1 .. t.size /\ t.size \in Nat
         /\ \A i \in 1 .. t.size : s[i] \in Int /\ row[i] \in InTree(t) /\ mid[row[i]] = i
         /\ \A m \in InTree(t) : t.value[m] = s[mid[m]] /\ t.value[m] \in Int
<1>1. /\ row \in [1 .. t.size -> InTree(t)] /\ \A i \in 1 .. t.size : mid[row[i]] = i
      /\ t \in Tree /\ t.size \in Nat
  BY WholeFacts DEF Spans
<1>2. \A m \in InTree(t) : t.value[m] \in Value
  BY <1>1 DEF Tree, InTree
<1>3. \A i \in 1 .. t.size : row[i] \in InTree(t)
  BY <1>1
<1>4. s \in [1 .. t.size -> Value]
  BY <1>2, <1>3 DEF Listed
<1>5. \A m \in InTree(t) : t.value[m] = s[mid[m]]
  <2>1. ASSUME NEW m \in InTree(t) PROVE t.value[m] = s[mid[m]]
    <3>1. mid[m] \in 1 .. t.size /\ row[mid[m]] = m
      BY SpansFacts
    <3> QED BY <3>1 DEF Listed
  <2> QED BY <2>1
<1> QED BY <1>1, <1>2, <1>3, <1>4, <1>5, ValueAssumption

(* insert finds the place between the smaller elements and the others: it  *)
(* never turns where all that lies on the other side is not as the turn    *)
(* says.                                                                   *)
LEMMA InsertionPlace ==
  ASSUME NEW t, Whole(t), NEW row, NEW lo, NEW mid, NEW hi, Spans(t, row, lo, mid, hi),
         NEW s, s = Listed(t, row), Ascending(s), t.root # Null, NEW v \in Int,
         NEW p, p = InsertionPoint(t, v)
  PROVE  /\ p \in InTree(t)
         /\ v > t.value[p] => \A i \in 1 .. t.size : s[i] < v <=> i <= mid[p]
         /\ ~ (v > t.value[p]) => \A i \in 1 .. t.size : s[i] < v <=> i < mid[p]
<1>. DEFINE Child(m) == IF v > t.value[m] THEN t.right[m] ELSE t.left[m]
            Aims(m) == \A i \in 1 .. t.size : /\ i <= lo[m] => s[i] < v
                                              /\ i > hi[m] => ~ (s[i] < v)
<1>1. PICK next : next = [m \in InTree(t) |-> IF Child(m) = Null THEN m ELSE Child(m)]
  OBVIOUS
<1>2. \A m \in InTree(t) : /\ Child(m) \in InTree(t) \cup {Null} /\ Child(m) # m
                           /\ Child(m) \in {t.left[m], t.right[m]}
  BY WholeFacts, LinkedFacts
<1>3. p = Chase(next, t.root)
  BY <1>1 DEF InsertionPoint
<1>4. t.root \in InTree(t) /\ lo[t.root] = 0 /\ hi[t.root] = t.size
  BY WholeFacts DEF Linked, Spans
<1>5. /\ next \in [InTree(t) -> InTree(t)]
      /\ \A m \in InTree(t) : next[m] = m \/ next[m] \in {t.left[m], t.right[m]}
  <2>. HIDE DEF Child
  <2> QED BY <1>1, <1>2
<1>6. PICK P : P = {m \in InTree(t) : Aims(m)}
  OBVIOUS
<1>7. /\ t.size \in Nat /\ DOMAIN s = 1 .. t.size
      /\ \A i \in 1 .. t.size : s[i] \in Int
      /\ \A m \in InTree(t) : t.value[m] = s[mid[m]] /\ t.value[m] \in Int
  BY ListedFacts
<1>8. ASSUME NEW m \in InTree(t), NEW i \in 1 .. t.size
      PROVE  /\ i <= mid[m] => s[i] <= t.value[m]
             /\ i >= mid[m] => s[i] >= t.value[m]
  <2>1. mid[m] \in 1 .. t.size
    BY SpansFacts
  <2>2. \A j, k \in 1 .. t.size : j <= k => s[j] <= s[k]
    BY <1>7 DEF Ascending
  <2> QED BY <1>7, <2>1, <2>2
<1>9. ASSUME NEW m \in P PROVE next[m] \in P
  <2>1. m \in InTree(t) /\ Aims(m)
    BY <1>6
  <2>2. CASE Child(m) = Null
    BY <1>1, <1>6, <2>2
  <2>3. CASE Child(m) # Null /\ v > t.value[m]
    <3>1. next[m] = t.right[m] /\ t.right[m] # Null
      BY <1>1, <2>1, <2>3
    <3>2. /\ t.right[m] \in InTree(t) /\ lo[t.right[m]] = mid[m] /\ hi[t.right[m]] = hi[m]
          /\ mid[m] \in Nat
      BY <2>1, <3>1, SpansFacts
    <3>3. \A i \in 1 .. t.size : i <= mid[m] => s[i] < v
      BY <1>7, <1>8, <2>1, <2>3
    <3>4. Aims(t.right[m])
      BY <2>1, <3>2, <3>3
    <3> QED BY <1>6, <3>1, <3>2, <3>4
  <2>4. CASE Child(m) # Null /\ ~ (v > t.value[m])
    <3>1. next[m] = t.left[m] /\ t.left[m] # Null
      BY <1>1, <2>1, <2>4
    <3>2. /\ t.left[m] \in InTree(t) /\ lo[t.left[m]] = lo[m] /\ hi[t.left[m]] + 1 = mid[m]
          /\ mid[m] \in Nat /\ hi[t.left[m]] \in Nat
      BY <2>1, <3>1, SpansFacts
    <3>3. \A i \in 1 .. t.size : i > hi[t.left[m]] => ~ (s[i] < v)
      <4>1. ASSUME NEW i \in 1 .. t.size, i > hi[t.left[m]] PROVE ~ (s[i] < v)
        <5>1. i >= mid[m]
          BY <3>2, <4>1
        <5> QED BY <1>7, <1>8, <2>1, <2>4, <5>1
      <4> QED BY <4>1
    <3>4. Aims(t.left[m])
      BY <2>1, <3>2, <3>3
    <3> QED BY <1>6, <3>1, <3>2, <3>4
  <2> QED BY <2>2, <2>3, <2>4
<1>10. t.root \in P
  BY <1>4, <1>6, <1>7
<1>11. p \in P /\ next[p] = p
  BY <1>3, <1>5, <1>6, <1>9, <1>10, ChaseDownKeeps
<1>12. p \in InTree(t) /\ Aims(p) /\ Child(p) = Null
  <2>1. p \in InTree(t) /\ Aims(p)
    BY <1>6, <1>11
  <2>. HIDE DEF Child
  <2> QED BY <1>1, <1>2, <1>11, <2>1
<1>13. ASSUME v > t.value[p], NEW i \in 1 .. t.size PROVE s[i] < v <=> i <= mid[p]
  <2>1. t.right[p] = Null
    BY <1>12, <1>13
  <2>2. hi[p] = mid[p] /\ mid[p] \in Nat
    BY <1>12, <2>1, SpansFacts
  <2>3. i <= mid[p] => s[i] <= t.value[p]
    BY <1>8, <1>12
  <2>4. s[i] \in Int /\ t.value[p] \in Int
    BY <1>7, <1>12
  <2> QED BY <1>12, <1>13, <2>2, <2>3, <2>4
<1>14. ASSUME ~ (v > t.value[p]), NEW i \in 1 .. t.size PROVE s[i] < v <=> i < mid[p]
  <2>1. t.left[p] = Null
    BY <1>12, <1>14
  <2>2. mid[p] = lo[p] + 1 /\ mid[p] \in Nat /\ lo[p] \in Nat
    BY <1>12, <2>1, SpansFacts
  <2>3. i >= mid[p] => s[i] >= t.value[p]
    BY <1>8, <1>12
  <2>4. s[i] \in Int /\ t.value[p] \in Int
    BY <1>7, <1>12
  <2> QED BY <1>12, <1>14, <2>2, <2>3, <2>4
<1> QED BY <1>12, <1>13, <1>14

(* find finds a node with the value, whenever there is one.                *)
LEMMA FindFinds ==
  ASSUME NEW t, Whole(t), NEW row, NEW lo, NEW mid, NEW hi, Spans(t, row, lo, mid, hi),
         NEW s, s = Listed(t, row), Ascending(s), NEW v \in Int,
         NEW n, n = Find(t, v)
  PROVE  \/ n = Null /\ \A i \in 1 .. t.size : s[i] # v
         \/ n \in InTree(t) /\ t.value[n] = v
<1>. DEFINE D == InTree(t) \cup {Null}
            Aims(m) == \A i \in 1 .. t.size :
                          s[i] = v => m # Null /\ lo[m] < i /\ i <= hi[m]
<1>1. PICK next : next = [m \in D |-> IF m = Null \/ v = t.value[m] THEN m
                                      ELSE IF v < t.value[m] THEN t.left[m] ELSE t.right[m]]
  OBVIOUS
<1>2. /\ t \in Tree /\ Linked(t) /\ Positive(t) /\ Null \notin InTree(t)
      /\ \A m \in InTree(t) : Exact(t, m)
      /\ SizeOf(t, t.root) \in Nat
  BY WholeFacts
<1>3. PICK k \in Nat : k = SizeOf(t, t.root)
  BY <1>2
<1>4. \A m \in InTree(t) : t.num_nodes[m] \in Nat /\ t.num_nodes[m] <= k /\ t.num_nodes[m] >= 1
  BY <1>2, <1>3, RootHoldsMost DEF Whole, Positive
<1>5. PICK rank : rank = [m \in D |-> IF m = Null THEN 0 ELSE t.num_nodes[m]]
  OBVIOUS
<1>6. rank \in [D -> 0 .. k]
  BY <1>4, <1>5
<1>7. \A m \in InTree(t) : /\ t.left[m] \in D /\ t.right[m] \in D
                           /\ t.left[m] # m /\ t.right[m] # m
                           /\ next[m] \in {m, t.left[m], t.right[m]}
  BY <1>1, <1>2, LinkedFacts
<1>8. next \in [D -> D]
  BY <1>1, <1>2, <1>7
<1>9. ASSUME NEW m \in D PROVE next[m] = m \/ rank[next[m]] < rank[m]
  <2>. SUFFICES ASSUME next[m] # m PROVE rank[next[m]] < rank[m]
    OBVIOUS
  <2>1. m # Null /\ m \in InTree(t)
    BY <1>1
  <2>2. next[m] \in {t.left[m], t.right[m]} /\ next[m] \in D
    BY <1>7, <1>8, <2>1
  <2>3. CASE next[m] = Null
    BY <1>4, <1>5, <2>1, <2>3
  <2>4. CASE next[m] # Null
    <3>1. t.num_nodes[next[m]] < t.num_nodes[m]
      BY <1>2, <2>1, <2>2, <2>4, SizesBelow
    <3> QED BY <1>5, <2>1, <2>2, <2>4, <3>1
  <2> QED BY <2>3, <2>4
<1>10. /\ t.size \in Nat /\ DOMAIN s = 1 .. t.size
       /\ \A i \in 1 .. t.size : s[i] \in Int
       /\ \A m \in InTree(t) : t.value[m] = s[mid[m]] /\ t.value[m] \in Int
  BY ListedFacts
<1>11. PICK P : P = {m \in D : Aims(m)}
  OBVIOUS
<1>12. t.root \in P
  <2>1. t.root \in D
    BY <1>2 DEF Linked
  <2>2. Aims(t.root)
    BY <1>10 DEF Spans
  <2> QED BY <1>11, <2>1, <2>2
<1>13. ASSUME NEW m \in P PROVE next[m] \in P
  <2>1. CASE next[m] = m
    BY <2>1
  <2>2. CASE next[m] # m
    <3>1. m \in InTree(t) /\ Aims(m) /\ v # t.value[m]
      BY <1>1, <1>11, <2>2
    <3>2. next[m] = IF v < t.value[m] THEN t.left[m] ELSE t.right[m]
      BY <1>1, <1>2, <3>1
    <3>3. ASSUME NEW i \in 1 .. t.size, s[i] = v
          PROVE  /\ lo[m] < i /\ i <= hi[m] /\ t.value[m] \in Int
                 /\ IF v < t.value[m] THEN i < mid[m] ELSE i > mid[m]
      <4>1. mid[m] \in 1 .. t.size /\ t.value[m] = s[mid[m]] /\ t.value[m] \in Int
        BY <1>10, <3>1, SpansFacts
      <4>2. /\ i <= mid[m] => s[i] <= s[mid[m]]
            /\ i >= mid[m] => s[i] >= s[mid[m]]
        BY <1>10, <4>1 DEF Ascending
      <4> QED BY <3>1, <3>3, <4>1, <4>2
    <3>4. ASSUME NEW i \in 1 .. t.size, s[i] = v
          PROVE  next[m] # Null /\ lo[next[m]] < i /\ i <= hi[next[m]]
      <4>1. CASE v < t.value[m]
        BY <3>1, <3>2, <3>3, <3>4, <4>1, SpansFacts
      <4>2. CASE ~ (v < t.value[m])
        BY <3>1, <3>2, <3>3, <3>4, <4>2, SpansFacts
      <4> QED BY <4>1, <4>2
    <3>5. next[m] \in D
      BY <1>8, <3>1
    <3> QED BY <1>11, <3>4, <3>5
  <2> QED BY <2>1, <2>2
<1>14. n = Chase(next, t.root)
  BY <1>1 DEF Find
<1>15. P \in SUBSET D
  BY <1>11
<1>16. n \in P /\ next[n] = n
  <2>. HIDE DEF D
  <2> QED BY <1>6, <1>8, <1>9, <1>12, <1>13, <1>14, <1>15, ChaseKeeps
<1>17. CASE n = Null
  BY <1>11, <1>16, <1>17
<1>18. CASE n # Null
  <2>1. n \in InTree(t)
    BY <1>11, <1>16, <1>18
  <2>2. v = t.value[n]
    BY <1>1, <1>7, <1>16, <2>1, <1>18
  <2> QED BY <2>1, <2>2
<1> QED BY <1>17, <1>18

-----------------------------------------------------------------------------
(* insert puts one node into the row.                                      *)

(* x comes after the first k of the N places of s.                         *)
PutIn(s, N, k, x) ==
  [i \in 1 .. N + 1 |-> IF i <= k THEN s[i] ELSE IF i = k + 1 THEN x ELSE s[i - 1]]

(* A new leaf at the right of p comes after p in the row: what was further *)
(* to the right moves by one place.                                        *)
LEMMA HungRightLists ==
  ASSUME NEW t, Whole(t), NEW v \in Value, NEW n \in Node \ InTree(t), NEW p \in InTree(t),
         t.right[p] = Null, NEW w, HungRight(t, w, v, n, p),
         NEW row, Lists(t, row), NEW k \in 1 .. t.size, row[k] = p
  PROVE  Lists(w, PutIn(row, t.size, k, n))
<1>1. PICK lo, mid, hi : Spans(t, row, lo, mid, hi)
  BY DEF Lists
<1>2. PICK N \in Nat : N = t.size
  BY WholeFacts
<1>3. /\ t \in Tree /\ Linked(t) /\ Null \notin InTree(t) /\ Null \notin Node
      /\ t.value \in [Node -> Value \cup {Null}] /\ t.right \in [Node -> Slot]
      /\ \A m \in InTree(t) : m \in Node /\ m # Null
  BY WholeFacts DEF Tree
<1>4. /\ w.root = t.root /\ w.size = N + 1 /\ w.value = [t.value EXCEPT ![n] = v]
      /\ w.left = t.left /\ w.right = [t.right EXCEPT ![p] = n]
  BY <1>2 DEF HungRight
<1>5. InTree(w) = InTree(t) \cup {n}
  <2>1. v # Null
    BY NodeAssumption
  <2>2. \A m \in Node : w.value[m] # Null <=> (t.value[m] # Null \/ m = n)
    BY <1>3, <1>4, <2>1
  <2> QED BY <2>2 DEF InTree
<1>6. /\ n \notin InTree(t) /\ n # p /\ n # Null
      /\ w.left[n] = Null /\ w.right[n] = Null /\ w.right[p] = n
      /\ \A m \in InTree(t) : w.left[m] = t.left[m]
      /\ \A m \in InTree(t) \ {p} : w.right[m] = t.right[m]
  <2>1. t.left[n] = Null /\ t.right[n] = Null
    BY DEF Whole, Defect, Linked
  <2> QED BY <1>3, <1>4, <2>1
<1>7. /\ row \in [1 .. N -> InTree(t)]
      /\ lo \in [InTree(t) -> Nat] /\ mid \in [InTree(t) -> Nat] /\ hi \in [InTree(t) -> Nat]
      /\ \A i \in 1 .. N : mid[row[i]] = i
      /\ t.root # Null => lo[t.root] = 0 /\ hi[t.root] = N
      /\ t.root = Null => N = 0
  BY <1>1, <1>2 DEF Spans
<1>8. ASSUME NEW m \in InTree(t)
      PROVE  /\ lo[m] \in Nat /\ mid[m] \in Nat /\ hi[m] \in Nat
             /\ lo[m] < mid[m] /\ mid[m] <= hi[m] /\ hi[m] <= N
             /\ row[mid[m]] = m /\ mid[m] \in 1 .. N
             /\ t.left[m] = Null => mid[m] = lo[m] + 1
             /\ t.left[m] # Null => /\ t.left[m] \in InTree(t)
                                    /\ lo[t.left[m]] = lo[m] /\ hi[t.left[m]] + 1 = mid[m]
                                    /\ lo[t.left[m]] \in Nat /\ hi[t.left[m]] \in Nat
             /\ t.right[m] = Null => hi[m] = mid[m]
             /\ t.right[m] # Null => /\ t.right[m] \in InTree(t)
                                     /\ lo[t.right[m]] = mid[m] /\ hi[t.right[m]] = hi[m]
                                     /\ lo[t.right[m]] \in Nat /\ hi[t.right[m]] \in Nat
  <2>1. /\ lo[m] \in Nat /\ mid[m] \in Nat /\ hi[m] \in Nat
        /\ lo[m] < mid[m] /\ mid[m] <= hi[m] /\ hi[m] <= t.size
        /\ row[mid[m]] = m /\ mid[m] \in 1 .. t.size
        /\ t.left[m] = Null => mid[m] = lo[m] + 1
        /\ t.left[m] # Null => /\ t.left[m] \in InTree(t)
                               /\ lo[t.left[m]] = lo[m] /\ hi[t.left[m]] + 1 = mid[m]
        /\ t.right[m] = Null => hi[m] = mid[m]
        /\ t.right[m] # Null => /\ t.right[m] \in InTree(t)
                                /\ lo[t.right[m]] = mid[m] /\ hi[t.right[m]] = hi[m]
    BY <1>1, SpansFacts
  <2>2. \A c \in InTree(t) : lo[c] \in Nat /\ hi[c] \in Nat
    BY <1>7
  <2> QED BY <1>2, <2>1, <2>2
<1>9. mid[p] = k /\ hi[p] = k /\ k \in Nat /\ k >= 1 /\ k <= N
  BY <1>2, <1>7, <1>8
<1>10. \A m \in InTree(t) : m # p => mid[m] # k
  BY <1>8, <1>9
<1>11. PICK lo2, mid2, hi2, row2 :
         /\ lo2 = [m \in InTree(w) |-> IF m = n THEN k ELSE IF lo[m] >= k THEN lo[m] + 1 ELSE lo[m]]
         /\ mid2 = [m \in InTree(w) |-> IF m = n THEN k + 1
                                        ELSE IF mid[m] > k THEN mid[m] + 1 ELSE mid[m]]
         /\ hi2 = [m \in InTree(w) |-> IF m = n THEN k + 1
                                       ELSE IF hi[m] >= k THEN hi[m] + 1 ELSE hi[m]]
         /\ row2 = PutIn(row, N, k, n)
  OBVIOUS
<1>12. /\ lo2[n] = k /\ mid2[n] = k + 1 /\ hi2[n] = k + 1
       /\ \A m \in InTree(t) : /\ lo2[m] = IF lo[m] >= k THEN lo[m] + 1 ELSE lo[m]
                               /\ mid2[m] = IF mid[m] > k THEN mid[m] + 1 ELSE mid[m]
                               /\ hi2[m] = IF hi[m] >= k THEN hi[m] + 1 ELSE hi[m]
  BY <1>5, <1>6, <1>11
<1>13. /\ lo2 \in [InTree(w) -> Nat] /\ mid2 \in [InTree(w) -> Nat]
       /\ hi2 \in [InTree(w) -> Nat]
  BY <1>5, <1>8, <1>9, <1>11
<1>14. /\ \A i \in 1 .. N + 1 : row2[i] = IF i <= k THEN row[i]
                                          ELSE IF i = k + 1 THEN n ELSE row[i - 1]
       /\ row2 = [i \in 1 .. N + 1 |-> row2[i]]
  BY <1>11 DEF PutIn
<1>15. ASSUME NEW i \in 1 .. N + 1 PROVE row2[i] \in InTree(w) /\ mid2[row2[i]] = i
  <2>1. CASE i <= k
    <3>1. i \in 1 .. N /\ row2[i] = row[i]
      BY <1>9, <1>14, <2>1
    <3>2. row[i] \in InTree(t) /\ mid[row[i]] = i
      BY <1>7, <3>1
    <3> QED BY <1>5, <1>9, <1>12, <2>1, <3>1, <3>2
  <2>2. CASE i = k + 1
    BY <1>5, <1>9, <1>12, <1>14, <2>2
  <2>3. CASE i > k + 1
    <3>1. i - 1 \in 1 .. N /\ row2[i] = row[i - 1] /\ i - 1 > k
      BY <1>9, <1>14, <2>3
    <3>2. row[i - 1] \in InTree(t) /\ mid[row[i - 1]] = i - 1
      BY <1>7, <3>1
    <3> QED BY <1>5, <1>9, <1>12, <3>1, <3>2
  <2> QED BY <1>9, <2>1, <2>2, <2>3
<1>16. row2 \in [1 .. w.size -> InTree(w)]
  BY <1>4, <1>14, <1>15
<1>17. Sits(w, row2, lo2, mid2, hi2, n)
  BY <1>4, <1>6, <1>9, <1>12, <1>14 DEF Sits
<1>18. ASSUME NEW m \in InTree(t) PROVE Sits(w, row2, lo2, mid2, hi2, m)
  <2>1. row2[mid2[m]] = m
    <3>1. CASE mid[m] <= k
      BY <1>8, <1>9, <1>12, <1>14, <3>1
    <3>2. CASE mid[m] > k
      <4>1. mid2[m] = mid[m] + 1 /\ mid2[m] \in 1 .. N + 1 /\ ~ (mid2[m] <= k)
            /\ mid2[m] # k + 1 /\ mid2[m] - 1 = mid[m]
        BY <1>8, <1>9, <1>12, <3>2
      <4> QED BY <1>8, <1>14, <4>1
    <3> QED BY <1>8, <1>9, <3>1, <3>2
  <2>2. lo2[m] < mid2[m] /\ mid2[m] <= hi2[m] /\ hi2[m] <= N + 1
    BY <1>8, <1>9, <1>12
  <2>3. /\ w.left[m] = Null => mid2[m] = lo2[m] + 1
        /\ w.left[m] # Null => lo2[w.left[m]] = lo2[m] /\ hi2[w.left[m]] + 1 = mid2[m]
    <3>1. CASE t.left[m] = Null
      BY <1>6, <1>8, <1>9, <1>12, <3>1
    <3>2. CASE t.left[m] # Null
      BY <1>6, <1>8, <1>9, <1>12, <3>2
    <3> QED BY <3>1, <3>2
  <2>4. /\ w.right[m] = Null => hi2[m] = mid2[m]
        /\ w.right[m] # Null => lo2[w.right[m]] = mid2[m] /\ hi2[w.right[m]] = hi2[m]
    <3>1. CASE m = p
      BY <1>6, <1>9, <1>12, <3>1
    <3>2. CASE m # p /\ t.right[m] = Null
      <4>1. w.right[m] = Null /\ hi[m] = mid[m] /\ mid[m] # k /\ mid[m] \in Nat
        BY <1>6, <1>8, <1>10, <3>2
      <4> QED BY <1>9, <1>12, <4>1
    <3>3. CASE m # p /\ t.right[m] # Null
      <4>1. /\ w.right[m] = t.right[m] /\ mid[m] # k /\ mid[m] \in Nat /\ t.right[m] \in InTree(t)
            /\ lo[t.right[m]] = mid[m] /\ hi[t.right[m]] = hi[m]
        BY <1>6, <1>8, <1>10, <3>3
      <4> QED BY <1>9, <1>12, <3>3, <4>1
    <3> QED BY <3>1, <3>2, <3>3
  <2> QED BY <1>4, <2>1, <2>2, <2>3, <2>4 DEF Sits
<1>19. /\ w.root # Null => lo2[w.root] = 0 /\ hi2[w.root] = w.size
       /\ w.root = Null => w.size = 0
  <2>1. t.root \in InTree(t) /\ t.root # Null /\ lo[t.root] = 0 /\ hi[t.root] = N
    BY <1>7, <1>9 DEF Whole, Defect, Linked
  <2> QED BY <1>4, <1>9, <1>12, <2>1
<1>20. \A m \in InTree(w) : Sits(w, row2, lo2, mid2, hi2, m)
  BY <1>5, <1>17, <1>18
<1>21. \A i \in 1 .. w.size : mid2[row2[i]] = i
  BY <1>4, <1>15
<1>22. Spans(w, row2, lo2, mid2, hi2)
  BY <1>13, <1>16, <1>19, <1>20, <1>21 DEF Spans
<1> QED BY <1>2, <1>11, <1>22 DEF Lists

(* The same on the side the value goes to, read from the other end if that *)
(* is the left.                                                            *)
LEMMA HungLists ==
  ASSUME NEW t, Whole(t), NEW v \in Value, NEW n \in Node \ InTree(t), NEW p,
         NEW w, Hung(t, w, v, n, p), NEW row, Lists(t, row), NEW k \in 1 .. t.size, row[k] = p
  PROVE  Lists(w, PutIn(row, t.size, IF v > t.value[p] THEN k ELSE k - 1, n))
<1>1. p \in InTree(t) /\ t \in Tree /\ Linked(t) /\ w \in Tree /\ Linked(w)
  BY WholeFacts DEF Hung, Defect
<1>2. PICK N \in Nat : N = t.size
  BY WholeFacts
<1>3. CASE v > t.value[p]
  <2>1. t.right[p] = Null /\ HungRight(t, w, v, n, p)
    BY <1>3 DEF Hung
  <2>2. Lists(w, PutIn(row, t.size, k, n))
    BY <1>1, <2>1, HungRightLists
  <2> QED BY <1>3, <2>2
<1>4. CASE ~ (v > t.value[p])
  <2>1. t.left[p] = Null /\ HungRight(Mirror(t), Mirror(w), v, n, p)
    BY <1>4 DEF Hung
  <2>2. PICK s, z, back : s = Mirror(t) /\ z = Mirror(w) /\ back = Back(t, row)
    OBVIOUS
  <2>3. /\ Whole(s) /\ s.right = t.left /\ s.size = N /\ InTree(s) = InTree(t)
        /\ Lists(s, back) /\ z \in Tree /\ Linked(z) /\ z.size = w.size /\ w = Mirror(z)
    BY <1>1, <1>2, <2>2, MirrorDefect, MirrorFields, MirrorTwice, MirrorLists, MirrorLinked
       DEF Whole
  <2>4. \A i \in 1 .. N : back[i] = row[N + 1 - i]
    BY <1>2, <2>2 DEF Back
  <2>5. N + 1 - k \in 1 .. N /\ back[N + 1 - k] = p /\ k \in 1 .. N
    <3>1. k \in 1 .. N /\ N + 1 - k \in 1 .. N /\ N + 1 - (N + 1 - k) = k
      BY <1>2
    <3> QED BY <2>4, <3>1
  <2>6. PICK row2 : row2 = PutIn(back, N, N + 1 - k, n)
    OBVIOUS
  <2>7. Lists(z, row2)
    <3>1. s.right[p] = Null /\ HungRight(s, z, v, n, p) /\ p \in InTree(s)
          /\ n \in Node \ InTree(s)
      BY <1>1, <2>1, <2>2, <2>3
    <3>2. Lists(z, PutIn(back, s.size, N + 1 - k, n))
      BY <2>3, <2>5, <3>1, HungRightLists
    <3> QED BY <2>3, <2>6, <3>2
  <2>8. Lists(w, Back(z, row2))
    BY <2>3, <2>7, MirrorLists
  <2>9. z.size = N + 1
    BY <2>1, <2>2, <2>3 DEF HungRight
  <2>10. Back(z, row2) = [i \in 1 .. N + 1 |-> row2[N + 2 - i]]
    <3>1. \A i \in 1 .. N + 1 : (N + 1) + 1 - i = N + 2 - i
      OBVIOUS
    <3> QED BY <2>9, <3>1 DEF Back
  <2>11. \A i \in 1 .. N + 1 :
            row2[N + 2 - i] = IF i <= k - 1 THEN row[i] ELSE IF i = k THEN n ELSE row[i - 1]
    <3>1. \A j \in 1 .. N + 1 : row2[j] = IF j <= N + 1 - k THEN back[j]
                                          ELSE IF j = N + 1 - k + 1 THEN n ELSE back[j - 1]
      BY <2>6 DEF PutIn
    <3>2. ASSUME NEW i \in 1 .. N + 1
          PROVE  row2[N + 2 - i] = IF i <= k - 1 THEN row[i]
                                   ELSE IF i = k THEN n ELSE row[i - 1]
      <4>1. PICK j \in 1 .. N + 1 : j = N + 2 - i
        OBVIOUS
      <4>2. CASE i <= k - 1
        <5>1. ~ (j <= N + 1 - k) /\ j # N + 1 - k + 1 /\ j - 1 \in 1 .. N /\ N + 1 - (j - 1) = i
          BY <2>5, <4>1, <4>2
        <5>2. row2[j] = back[j - 1] /\ back[j - 1] = row[N + 1 - (j - 1)]
          BY <2>4, <3>1, <5>1
        <5> QED BY <4>1, <4>2, <5>1, <5>2
      <4>3. CASE i = k
        <5>1. ~ (j <= N + 1 - k) /\ j = N + 1 - k + 1 /\ ~ (i <= k - 1)
          BY <2>5, <4>1, <4>3
        <5> QED BY <3>1, <4>1, <4>3, <5>1
      <4>4. CASE i > k
        <5>1. j <= N + 1 - k /\ j \in 1 .. N /\ N + 1 - j = i - 1 /\ ~ (i <= k - 1) /\ i # k
          BY <2>5, <4>1, <4>4
        <5>2. row2[j] = back[j] /\ back[j] = row[N + 1 - j]
          BY <2>4, <3>1, <5>1
        <5> QED BY <4>1, <5>1, <5>2
      <4> QED BY <2>5, <4>2, <4>3, <4>4
    <3> QED BY <3>2
  <2>12. PutIn(row, N, k - 1, n) =
           [i \in 1 .. N + 1 |-> IF i <= k - 1 THEN row[i] ELSE IF i = k THEN n ELSE row[i - 1]]
    <3>1. \A i \in 1 .. N + 1 : i = k - 1 + 1 <=> i = k
      BY <2>5
    <3> QED BY <3>1 DEF PutIn
  <2>13. Back(z, row2) = PutIn(row, N, k - 1, n)
    BY <2>10, <2>11, <2>12
  <2> QED BY <1>2, <1>4, <2>8, <2>13
<1> QED BY <1>3, <1>4

(* The elements of t, from left to right, are s, in ascending order.       *)
InOrder(t, s) == \E row : Lists(t, row) /\ s = Listed(t, row) /\ Ascending(s)

(* What balance leaves has the same row and the same elements.             *)
LEMMA BalancedIsListed ==
  ASSUME NEW w, NEW p, NEW d \in {-1, 1}, Defect(w, p, d), NEW u, u = Balance(w, p), Whole(u),
         NEW row, Lists(w, row)
  PROVE  Lists(u, row) /\ u.size = w.size /\ Listed(u, row) = Listed(w, row)
<1>1. Lists(u, row) /\ u.value = w.value
  BY BalanceKeepsOrder
<1>2. u.size = w.size
  BY <1>1 DEF Whole, Defect, InTree
<1> QED BY <1>1, <1>2 DEF Listed

(* A row of one node.                                                      *)
LEMMA PlantedLists ==
  ASSUME NEW u, NEW v, NEW n, Planted(u, v, n)
  PROVE  Lists(u, [i \in 1 .. 1 |-> n])
<1>1. PICK row, lo, mid, hi : /\ row = [i \in 1 .. 1 |-> n]
                              /\ lo = [m \in InTree(u) |-> 0] /\ mid = [m \in InTree(u) |-> 1]
                              /\ hi = [m \in InTree(u) |-> 1]
  OBVIOUS
<1>2. /\ u.root = n /\ u.size = 1 /\ InTree(u) = {n}
      /\ u.left[n] = Null /\ u.right[n] = Null
  BY DEF Planted
<1>3. row \in [1 .. 1 -> InTree(u)] /\ row[1] = n /\ lo[n] = 0 /\ mid[n] = 1 /\ hi[n] = 1
  BY <1>1, <1>2
<1>4. Sits(u, row, lo, mid, hi, n)
  BY <1>2, <1>3 DEF Sits
<1>5. /\ lo \in [InTree(u) -> Nat] /\ mid \in [InTree(u) -> Nat] /\ hi \in [InTree(u) -> Nat]
  BY <1>1
<1>6. \A i \in 1 .. 1 : mid[row[i]] = i
  BY <1>3
<1>7. u.root # Null
  <2>1. n \in Node
    BY <1>2 DEF InTree
  <2> QED BY <1>2, <2>1, NodeAssumption
<1>8. Spans(u, row, lo, mid, hi)
  BY <1>2, <1>3, <1>4, <1>5, <1>6, <1>7 DEF Spans
<1> QED BY <1>1, <1>8 DEF Lists

(* A value put in where the smaller ones end keeps the order.              *)
LEMMA PutInAscends ==
  ASSUME NEW N \in Nat, NEW s \in [1 .. N -> Int], Ascending(s), NEW v \in Int,
         NEW k \in 0 .. N, \A i \in 1 .. N : s[i] < v <=> i <= k
  PROVE  Ascending(PutIn(s, N, k, v))
<1>1. PICK r : r = PutIn(s, N, k, v)
  OBVIOUS
<1>2. /\ DOMAIN r = 1 .. N + 1
      /\ \A i \in 1 .. N + 1 : r[i] = IF i <= k THEN s[i] ELSE IF i = k + 1 THEN v ELSE s[i - 1]
  BY <1>1 DEF PutIn
<1>3. \A i, j \in 1 .. N : i <= j => s[i] <= s[j]
  BY DEF Ascending
<1>4. ASSUME NEW i \in 1 .. N + 1
      PROVE  /\ i <= k => i \in 1 .. N /\ r[i] = s[i] /\ s[i] < v /\ s[i] \in Int
             /\ i = k + 1 => r[i] = v
             /\ i > k + 1 => /\ i - 1 \in 1 .. N /\ r[i] = s[i - 1]
                             /\ s[i - 1] >= v /\ s[i - 1] \in Int
  BY <1>2
<1>5. ASSUME NEW i \in 1 .. N + 1, NEW j \in 1 .. N + 1, i <= j PROVE r[i] <= r[j]
  <2>1. CASE j <= k
    BY <1>3, <1>4, <1>5, <2>1
  <2>2. CASE i <= k /\ j > k
    <3>1. r[i] < v /\ r[i] \in Int
      BY <1>4, <2>2
    <3>2. r[j] >= v /\ r[j] \in Int
      <4>1. j = k + 1 \/ j > k + 1
        BY <2>2
      <4> QED BY <1>4, <4>1
    <3> QED BY <3>1, <3>2
  <2>3. CASE i = k + 1
    BY <1>4, <1>5, <2>3
  <2>4. CASE i > k + 1
    BY <1>3, <1>4, <1>5, <2>4
  <2> QED BY <1>5, <2>1, <2>2, <2>3, <2>4
<1> QED BY <1>1, <1>2, <1>5 DEF Ascending

(* insert adds the value to the elements, after the smaller ones, wherever *)
(* it hangs the new node and whatever is then rotated.                     *)
THEOREM InsertedInOrder ==
  ASSUME NEW t, Whole(t), NEW s, InOrder(t, s), NEW v \in Value, NEW n \in Node \ InTree(t),
         NEW u, u = Inserted(t, v, n)
  PROVE  \E k \in 0 .. t.size : /\ \A i \in 1 .. t.size : s[i] < v <=> i <= k
                                /\ InOrder(u, PutIn(s, t.size, k, v))
<1>1. PICK row : Lists(t, row) /\ s = Listed(t, row) /\ Ascending(s)
  BY DEF InOrder
<1>2. PICK lo, mid, hi : Spans(t, row, lo, mid, hi)
  BY <1>1 DEF Lists
<1>3. PICK N \in Nat : N = t.size
  BY WholeFacts
<1>4. /\ s \in [1 .. N -> Value] /\ s \in [1 .. N -> Int] /\ v \in Int
      /\ row \in [1 .. N -> InTree(t)] /\ Whole(u) /\ InTree(t) \subseteq Node
  <2>1. s \in [1 .. N -> Value]
    BY <1>1, <1>2, <1>3, ListedFacts
  <2>2. s \in [1 .. N -> Int] /\ v \in Int
    BY <2>1, ValueAssumption
  <2>3. row \in [1 .. N -> InTree(t)] /\ InTree(t) \subseteq Node
    BY <1>2, <1>3 DEF Spans, InTree
  <2>4. Whole(u)
    BY InsertedIsWhole
  <2> QED BY <2>1, <2>2, <2>3, <2>4
<1>5. CASE t.root = Null /\ Planted(u, v, n)
  <2>1. N = 0
    BY <1>2, <1>3, <1>5 DEF Spans
  <2>2. Lists(u, [i \in 1 .. 1 |-> n])
    BY <1>5, PlantedLists
  <2>3. Listed(u, [i \in 1 .. 1 |-> n]) = [i \in 1 .. 1 |-> v]
    BY <1>5 DEF Planted, Listed
  <2>4. PutIn(s, N, 0, v) = [i \in 1 .. 1 |-> v]
    BY <2>1 DEF PutIn
  <2>5. \A i \in 1 .. N : s[i] < v <=> i <= 0
    BY <2>1
  <2>6. 0 \in 0 .. N
    OBVIOUS
  <2>7. Ascending(PutIn(s, N, 0, v))
    BY <1>1, <1>4, <2>5, <2>6, PutInAscends
  <2> QED BY <1>3, <2>2, <2>3, <2>4, <2>5, <2>6, <2>7 DEF InOrder
<1>6. CASE t.root # Null /\ \E w : /\ Hung(t, w, v, n, InsertionPoint(t, v))
                                   /\ u = Balance(w, InsertionPoint(t, v))
  <2>1. PICK p, w : p = InsertionPoint(t, v) /\ Hung(t, w, v, n, p) /\ u = Balance(w, p)
    BY <1>6
  <2>2. /\ p \in InTree(t)
        /\ v > t.value[p] => \A i \in 1 .. N : s[i] < v <=> i <= mid[p]
        /\ ~ (v > t.value[p]) => \A i \in 1 .. N : s[i] < v <=> i < mid[p]
    BY <1>1, <1>2, <1>3, <1>4, <1>6, <2>1, InsertionPlace
  <2>3. mid[p] \in 1 .. N /\ row[mid[p]] = p
    BY <1>2, <1>3, <2>2, SpansFacts
  <2>4. PICK k : k = IF v > t.value[p] THEN mid[p] ELSE mid[p] - 1
    OBVIOUS
  <2>5. k \in 0 .. N /\ \A i \in 1 .. N : s[i] < v <=> i <= k
    BY <2>2, <2>3, <2>4
  <2>6. PICK row2 : row2 = PutIn(row, N, k, n)
    OBVIOUS
  <2>7. Lists(w, row2)
    BY <1>1, <1>3, <2>1, <2>3, <2>4, <2>6, HungLists
  <2>8. Defect(w, p, 1)
    BY <2>1 DEF Hung
  <2>9. Lists(u, row2) /\ u.size = w.size /\ Listed(u, row2) = Listed(w, row2)
    BY <1>4, <2>1, <2>7, <2>8, BalancedIsListed
  <2>10. w.size = N + 1 /\ w.value = [t.value EXCEPT ![n] = v]
    BY <1>3, <2>1, MirrorFields, WholeFacts DEF Hung, HungRight, Defect
  <2>11. t.value \in [Node -> Value \cup {Null}]
    BY WholeFacts DEF Tree
  <2>12. \A i \in 1 .. N : row[i] \in Node /\ row[i] # n /\ s[i] = t.value[row[i]]
    BY <1>1, <1>3, <1>4 DEF Listed
  <2>13. \A i \in 1 .. N + 1 :
           w.value[row2[i]] = IF i <= k THEN s[i] ELSE IF i = k + 1 THEN v ELSE s[i - 1]
    <3>1. \A i \in 1 .. N + 1 : row2[i] = IF i <= k THEN row[i]
                                          ELSE IF i = k + 1 THEN n ELSE row[i - 1]
      BY <2>6 DEF PutIn
    <3>2. w.value[n] = v /\ \A m \in Node : m # n => w.value[m] = t.value[m]
      BY <2>10, <2>11
    <3>3. ASSUME NEW i \in 1 .. N + 1
          PROVE  w.value[row2[i]] = IF i <= k THEN s[i] ELSE IF i = k + 1 THEN v ELSE s[i - 1]
      <4>1. CASE i <= k
        BY <2>5, <2>12, <3>1, <3>2, <4>1
      <4>2. CASE i = k + 1
        BY <2>5, <3>1, <3>2, <4>2
      <4>3. CASE i > k + 1
        <5>1. i - 1 \in 1 .. N /\ ~ (i <= k) /\ i # k + 1
          BY <2>5, <4>3
        <5> QED BY <2>12, <3>1, <3>2, <5>1
      <4> QED BY <2>5, <4>1, <4>2, <4>3
    <3> QED BY <3>3
  <2>14. Listed(w, row2) = PutIn(s, N, k, v)
    BY <2>10, <2>13 DEF Listed, PutIn
  <2>15. Ascending(PutIn(s, N, k, v))
    BY <1>1, <1>4, <2>5, PutInAscends
  <2> QED BY <1>3, <2>5, <2>9, <2>14, <2>15 DEF InOrder
<1> QED BY <1>5, <1>6, InsertedShape

-----------------------------------------------------------------------------
(* remove takes one node out of the row.                                   *)

(* s without the k-th of its N places.                                     *)
Without(s, N, k) == [i \in 1 .. N - 1 |-> IF i < k THEN s[i] ELSE s[i + 1]]

(* A node with at most one child leaves a place in the row that what was   *)
(* to its right moves up to.                                               *)
LEMMA SplicedOutLists ==
  ASSUME NEW t, Whole(t), NEW n \in InTree(t), NEW x, OnlyChild(t, n, x),
         NEW p, p = t.parent[n], NEW w, SplicedOut(t, w, n, x, p),
         NEW row, Lists(t, row), NEW k \in 1 .. t.size, row[k] = n
  PROVE  Lists(w, Without(row, t.size, k))
<1>1. PICK lo, mid, hi : Spans(t, row, lo, mid, hi)
  BY DEF Lists
<1>2. PICK N \in Nat : N = t.size
  BY WholeFacts
<1>3. /\ t \in Tree /\ Linked(t) /\ Null \notin InTree(t) /\ Null \notin Node
      /\ \A m \in InTree(t) : m \in Node /\ m # Null
  BY WholeFacts
<1>4. /\ x \in InTree(t) \cup {Null} /\ x # n /\ p \in InTree(t) \cup {Null} /\ p # n
      /\ (x # Null => t.parent[x] = n /\ x # p)
      /\ (p = Null <=> n = t.root)
      /\ (p # Null => n \in {t.left[p], t.right[p]} /\ t.left[p] # t.right[p])
  BY AroundOnlyChild
<1>5. /\ w.size = N - 1 /\ InTree(w) = InTree(t) \ {n}
      /\ w.root = (IF p = Null THEN x ELSE t.root)
      /\ (p # Null /\ n = t.left[p] => w.left[p] = x /\ w.right[p] = t.right[p])
      /\ (p # Null /\ n # t.left[p] => w.left[p] = t.left[p] /\ w.right[p] = x)
      /\ \A m \in InTree(t) \ {n, p} : w.left[m] = t.left[m] /\ w.right[m] = t.right[m]
  BY <1>2, <1>3 DEF SplicedOut
<1>6. /\ row \in [1 .. N -> InTree(t)]
      /\ lo \in [InTree(t) -> Nat] /\ mid \in [InTree(t) -> Nat] /\ hi \in [InTree(t) -> Nat]
      /\ \A i \in 1 .. N : mid[row[i]] = i
      /\ t.root # Null => lo[t.root] = 0 /\ hi[t.root] = N
      /\ t.root = Null => N = 0
  BY <1>1, <1>2 DEF Spans
<1>7. ASSUME NEW m \in InTree(t)
      PROVE  /\ lo[m] \in Nat /\ mid[m] \in Nat /\ hi[m] \in Nat
             /\ lo[m] < mid[m] /\ mid[m] <= hi[m] /\ hi[m] <= N
             /\ row[mid[m]] = m /\ mid[m] \in 1 .. N
             /\ t.left[m] = Null => mid[m] = lo[m] + 1
             /\ t.left[m] # Null => /\ t.left[m] \in InTree(t)
                                    /\ lo[t.left[m]] = lo[m] /\ hi[t.left[m]] + 1 = mid[m]
                                    /\ lo[t.left[m]] \in Nat /\ hi[t.left[m]] \in Nat
             /\ t.right[m] = Null => hi[m] = mid[m]
             /\ t.right[m] # Null => /\ t.right[m] \in InTree(t)
                                     /\ lo[t.right[m]] = mid[m] /\ hi[t.right[m]] = hi[m]
                                     /\ lo[t.right[m]] \in Nat /\ hi[t.right[m]] \in Nat
  <2>1. /\ lo[m] \in Nat /\ mid[m] \in Nat /\ hi[m] \in Nat
        /\ lo[m] < mid[m] /\ mid[m] <= hi[m] /\ hi[m] <= t.size
        /\ row[mid[m]] = m /\ mid[m] \in 1 .. t.size
        /\ t.left[m] = Null => mid[m] = lo[m] + 1
        /\ t.left[m] # Null => /\ t.left[m] \in InTree(t)
                               /\ lo[t.left[m]] = lo[m] /\ hi[t.left[m]] + 1 = mid[m]
        /\ t.right[m] = Null => hi[m] = mid[m]
        /\ t.right[m] # Null => /\ t.right[m] \in InTree(t)
                                /\ lo[t.right[m]] = mid[m] /\ hi[t.right[m]] = hi[m]
    BY <1>1, SpansFacts
  <2>2. \A c \in InTree(t) : lo[c] \in Nat /\ hi[c] \in Nat
    BY <1>6
  <2> QED BY <1>2, <2>1, <2>2
<1>8. mid[n] = k /\ k \in Nat /\ k >= 1 /\ k <= N
  BY <1>2, <1>6
<1>9. \A m \in InTree(t) : m # n => mid[m] # k
  BY <1>7, <1>8
<1>10. PICK lo2, mid2, hi2, row2 :
         /\ lo2 = [m \in InTree(w) |-> IF lo[m] >= k THEN lo[m] - 1 ELSE lo[m]]
         /\ mid2 = [m \in InTree(w) |-> IF mid[m] > k THEN mid[m] - 1 ELSE mid[m]]
         /\ hi2 = [m \in InTree(w) |-> IF hi[m] >= k THEN hi[m] - 1 ELSE hi[m]]
         /\ row2 = Without(row, N, k)
  OBVIOUS
<1>11. \A m \in InTree(w) : /\ m \in InTree(t) /\ m # n
                            /\ lo2[m] = IF lo[m] >= k THEN lo[m] - 1 ELSE lo[m]
                            /\ mid2[m] = IF mid[m] > k THEN mid[m] - 1 ELSE mid[m]
                            /\ hi2[m] = IF hi[m] >= k THEN hi[m] - 1 ELSE hi[m]
  BY <1>5, <1>10
<1>12. /\ lo2 \in [InTree(w) -> Nat] /\ mid2 \in [InTree(w) -> Nat]
       /\ hi2 \in [InTree(w) -> Nat]
  <2>1. ASSUME NEW m \in InTree(w) PROVE lo2[m] \in Nat /\ mid2[m] \in Nat /\ hi2[m] \in Nat
    BY <1>7, <1>8, <1>11
  <2> QED BY <1>10, <2>1
<1>13. /\ \A i \in 1 .. N - 1 : row2[i] = IF i < k THEN row[i] ELSE row[i + 1]
       /\ row2 = [i \in 1 .. N - 1 |-> row2[i]]
  BY <1>10 DEF Without
<1>14. ASSUME NEW i \in 1 .. N - 1 PROVE row2[i] \in InTree(w) /\ mid2[row2[i]] = i
  <2>1. CASE i < k
    <3>1. i \in 1 .. N /\ row2[i] = row[i]
      BY <1>13, <2>1
    <3>2. row[i] \in InTree(t) /\ mid[row[i]] = i
      BY <1>6, <3>1
    <3>3. row2[i] \in InTree(w)
      BY <1>5, <1>8, <2>1, <3>1, <3>2
    <3> QED BY <1>8, <1>11, <2>1, <3>1, <3>2, <3>3
  <2>2. CASE ~ (i < k)
    <3>1. i + 1 \in 1 .. N /\ row2[i] = row[i + 1] /\ i + 1 > k
      BY <1>8, <1>13, <2>2
    <3>2. row[i + 1] \in InTree(t) /\ mid[row[i + 1]] = i + 1
      BY <1>6, <3>1
    <3>3. row2[i] \in InTree(w)
      BY <1>5, <1>8, <3>1, <3>2
    <3> QED BY <1>8, <1>11, <3>1, <3>2, <3>3
  <2> QED BY <2>1, <2>2
<1>15. row2 \in [1 .. w.size -> InTree(w)] /\ \A i \in 1 .. w.size : mid2[row2[i]] = i
  BY <1>5, <1>13, <1>14
(* What the child takes over.                                              *)
<1>16. /\ x = Null => lo[n] = k - 1 /\ hi[n] = k
       /\ x # Null => /\ x \in InTree(w)
                      /\ lo2[x] = lo[n] /\ hi2[x] = hi[n] - 1
  <2>1. CASE x = Null
    BY <1>7, <1>8, <2>1 DEF OnlyChild
  <2>2. CASE x # Null /\ t.left[n] = x /\ t.right[n] = Null
    <3>1. x \in InTree(w) /\ lo[x] = lo[n] /\ hi[x] + 1 = k /\ hi[n] = k /\ lo[n] < k
      BY <1>4, <1>5, <1>7, <1>8, <2>2
    <3>2. lo[x] \in Nat /\ hi[x] \in Nat
      BY <1>4, <1>7, <2>2
    <3> QED BY <1>8, <1>11, <2>2, <3>1, <3>2
  <2>3. CASE x # Null /\ t.left[n] = Null /\ t.right[n] = x
    <3>1. x \in InTree(w) /\ lo[x] = k /\ hi[x] = hi[n] /\ k = lo[n] + 1 /\ hi[n] >= k
      BY <1>4, <1>5, <1>7, <1>8, <2>3
    <3>2. lo[n] \in Nat /\ hi[n] \in Nat
      BY <1>7
    <3> QED BY <1>8, <1>11, <2>3, <3>1, <3>2
  <2> QED BY <2>1, <2>2, <2>3 DEF OnlyChild
<1>17. /\ lo[n] \in Nat /\ hi[n] \in Nat /\ lo[n] < k /\ k <= hi[n]
  BY <1>7, <1>8
<1>18. ASSUME NEW m \in InTree(w) PROVE Sits(w, row2, lo2, mid2, hi2, m)
  <2>0. m \in InTree(t) /\ m # n /\ mid[m] # k
    BY <1>9, <1>11
  <2>1. row2[mid2[m]] = m
    <3>1. CASE mid[m] < k
      <4>1. mid2[m] = mid[m] /\ mid2[m] \in 1 .. N - 1 /\ row[mid[m]] = m
        BY <1>7, <1>8, <1>11, <2>0, <3>1
      <4> QED BY <1>13, <3>1, <4>1
    <3>2. CASE mid[m] > k
      <4>1. mid2[m] = mid[m] - 1 /\ mid2[m] \in 1 .. N - 1 /\ ~ (mid2[m] < k)
            /\ mid2[m] + 1 = mid[m] /\ row[mid[m]] = m
        BY <1>7, <1>8, <1>11, <2>0, <3>2
      <4> QED BY <1>13, <4>1
    <3> QED BY <1>7, <1>8, <2>0, <3>1, <3>2
  <2>2. lo2[m] < mid2[m] /\ mid2[m] <= hi2[m] /\ hi2[m] <= N - 1
    BY <1>7, <1>8, <1>11, <2>0
  <2>3. ASSUME w.left[m] = t.left[m], t.left[m] # n
        PROVE  /\ w.left[m] = Null => mid2[m] = lo2[m] + 1
               /\ w.left[m] # Null => lo2[w.left[m]] = lo2[m] /\ hi2[w.left[m]] + 1 = mid2[m]
    <3>1. CASE t.left[m] = Null
      BY <1>7, <1>8, <1>11, <2>0, <2>3, <3>1
    <3>2. CASE t.left[m] # Null
      <4>1. /\ t.left[m] \in InTree(w) /\ lo[t.left[m]] = lo[m] /\ hi[t.left[m]] + 1 = mid[m]
            /\ lo[m] \in Nat /\ mid[m] \in Nat /\ hi[t.left[m]] \in Nat
        BY <1>5, <1>7, <2>0, <2>3, <3>2
      <4> QED BY <1>8, <1>11, <2>0, <2>3, <3>2, <4>1
    <3> QED BY <3>1, <3>2
  <2>4. ASSUME w.right[m] = t.right[m], t.right[m] # n
        PROVE  /\ w.right[m] = Null => hi2[m] = mid2[m]
               /\ w.right[m] # Null => lo2[w.right[m]] = mid2[m] /\ hi2[w.right[m]] = hi2[m]
    <3>1. CASE t.right[m] = Null
      <4>1. hi[m] = mid[m] /\ mid[m] \in Nat
        BY <1>7, <2>0, <3>1
      <4> QED BY <1>8, <1>11, <2>0, <2>4, <3>1, <4>1
    <3>2. CASE t.right[m] # Null
      <4>1. /\ t.right[m] \in InTree(w) /\ lo[t.right[m]] = mid[m] /\ hi[t.right[m]] = hi[m]
            /\ mid[m] \in Nat /\ hi[m] \in Nat
        BY <1>5, <1>7, <2>0, <2>4, <3>2
      <4> QED BY <1>8, <1>11, <2>0, <2>4, <3>2, <4>1
    <3> QED BY <3>1, <3>2
  <2>5. CASE m # p
    <3>1. w.left[m] = t.left[m] /\ w.right[m] = t.right[m]
      BY <1>5, <2>0, <2>5
    <3>2. t.left[m] # n /\ t.right[m] # n
      BY <1>3, <2>0, <2>5, LinkedFacts
    <3> QED BY <1>5, <2>1, <2>2, <2>3, <2>4, <3>1, <3>2 DEF Sits
  <2>6. CASE m = p /\ n = t.left[p]
    <3>1. p # Null /\ w.left[m] = x /\ w.right[m] = t.right[m] /\ t.right[m] # n
      BY <1>3, <1>4, <1>5, <2>0, <2>6
    <3>2. lo[n] = lo[m] /\ hi[n] + 1 = mid[m] /\ mid[m] \in Nat /\ lo[m] \in Nat
      <4>1. t.left[m] = n /\ t.left[m] # Null
        BY <1>3, <2>6, NodeAssumption DEF InTree
      <4> QED BY <1>7, <2>0, <4>1
    <3>3. lo2[m] = lo[n] /\ mid2[m] = hi[n]
      BY <1>8, <1>11, <1>17, <2>0, <3>2
    <3>4. /\ w.left[m] = Null => mid2[m] = lo2[m] + 1
          /\ w.left[m] # Null => lo2[w.left[m]] = lo2[m] /\ hi2[w.left[m]] + 1 = mid2[m]
      <4>1. CASE x = Null
        BY <1>8, <1>16, <3>1, <3>3, <4>1
      <4>2. CASE x # Null
        BY <1>16, <1>17, <3>1, <3>3, <4>2
      <4> QED BY <4>1, <4>2
    <3> QED BY <1>5, <2>1, <2>2, <2>4, <3>1, <3>4 DEF Sits
  <2>7. CASE m = p /\ n # t.left[p]
    <3>1. p # Null /\ n = t.right[m] /\ w.right[m] = x /\ w.left[m] = t.left[m] /\ t.left[m] # n
      BY <1>3, <1>4, <1>5, <2>0, <2>7
    <3>2. lo[n] = mid[m] /\ hi[n] = hi[m] /\ mid[m] \in Nat /\ hi[m] \in Nat
      BY <1>3, <1>7, <2>0, <3>1
    <3>3. mid2[m] = lo[n] /\ hi2[m] = hi[n] - 1
      BY <1>8, <1>11, <1>17, <2>0, <3>2
    <3>4. /\ w.right[m] = Null => hi2[m] = mid2[m]
          /\ w.right[m] # Null => lo2[w.right[m]] = mid2[m] /\ hi2[w.right[m]] = hi2[m]
      <4>1. CASE x = Null
        BY <1>8, <1>16, <3>1, <3>3, <4>1
      <4>2. CASE x # Null
        BY <1>16, <1>17, <3>1, <3>3, <4>2
      <4> QED BY <4>1, <4>2
    <3> QED BY <1>5, <2>1, <2>2, <2>3, <3>1, <3>4 DEF Sits
  <2> QED BY <2>5, <2>6, <2>7
<1>19. /\ w.root # Null => lo2[w.root] = 0 /\ hi2[w.root] = w.size
       /\ w.root = Null => w.size = 0
  <2>1. t.root \in InTree(t) /\ t.root # Null /\ lo[t.root] = 0 /\ hi[t.root] = N
    <3>1. t.root # Null
      BY <1>6, <1>8
    <3> QED BY <1>3, <1>6, <3>1 DEF Linked
  <2>2. CASE p = Null
    <3>1. w.root = x /\ n = t.root /\ lo[n] = 0 /\ hi[n] = N /\ w.size = N - 1
      BY <1>4, <1>5, <2>1, <2>2
    <3>2. CASE x = Null
      BY <1>8, <1>16, <3>1, <3>2
    <3>3. CASE x # Null
      BY <1>16, <3>1, <3>3
    <3> QED BY <3>2, <3>3
  <2>3. CASE p # Null
    <3>1. t.root \in InTree(w) /\ w.root = t.root
      BY <1>4, <1>5, <2>1, <2>3
    <3> QED BY <1>5, <1>8, <1>11, <2>1, <3>1
  <2> QED BY <2>2, <2>3
<1>20. Spans(w, row2, lo2, mid2, hi2)
  BY <1>12, <1>15, <1>18, <1>19 DEF Spans
<1> QED BY <1>2, <1>10, <1>20 DEF Lists

(* What is left of an ascending sequence ascends.                          *)
LEMMA WithoutAscends ==
  ASSUME NEW N \in Nat, NEW s \in [1 .. N -> Int], Ascending(s), NEW k \in 1 .. N
  PROVE  Ascending(Without(s, N, k))
<1>1. PICK r : r = Without(s, N, k)
  OBVIOUS
<1>2. /\ DOMAIN r = 1 .. N - 1
      /\ \A i \in 1 .. N - 1 : r[i] = IF i < k THEN s[i] ELSE s[i + 1]
  BY <1>1 DEF Without
<1>3. \A i, j \in 1 .. N : i <= j => s[i] <= s[j]
  BY DEF Ascending
<1>4. \A i \in 1 .. N - 1 : i \in 1 .. N /\ i + 1 \in 1 .. N
  OBVIOUS
<1>5. ASSUME NEW i \in 1 .. N - 1, NEW j \in 1 .. N - 1, i <= j PROVE r[i] <= r[j]
  <2>1. CASE j < k
    BY <1>2, <1>3, <1>4, <1>5, <2>1
  <2>2. CASE i < k /\ ~ (j < k)
    <3>1. r[i] = s[i] /\ r[j] = s[j + 1] /\ i <= j + 1
      BY <1>2, <1>5, <2>2
    <3> QED BY <1>3, <1>4, <3>1
  <2>3. CASE ~ (i < k)
    <3>1. r[i] = s[i + 1] /\ r[j] = s[j + 1] /\ i + 1 <= j + 1
      BY <1>2, <1>5, <2>3
    <3> QED BY <1>3, <1>4, <3>1
  <2> QED BY <2>1, <2>2, <2>3
<1> QED BY <1>1, <1>2, <1>5 DEF Ascending

(* The place of the node that leaves is that of the target or, if the      *)
(* target has two children, the one before it.                             *)
LEMMA LeavingStands ==
  ASSUME NEW t, Whole(t), NEW row, NEW lo, NEW mid, NEW hi, Spans(t, row, lo, mid, hi),
         NEW target \in InTree(t), NEW n, n = Leaving(t, target)
  PROVE  /\ n \in InTree(t)
         /\ n = target \/ mid[n] + 1 = mid[target]
<1>1. CASE Null \in {t.left[target], t.right[target]}
  BY <1>1 DEF Leaving
<1>2. CASE Null \notin {t.left[target], t.right[target]}
  <2>1. n = RightMost(t, t.left[target])
    BY <1>2 DEF Leaving
  <2>2. t.left[target] \in InTree(t) /\ hi[t.left[target]] + 1 = mid[target]
    BY <1>2, SpansFacts
  <2> QED BY <2>1, <2>2, RightMostStands
<1> QED BY <1>1, <1>2

(* w is t without the place k of the element that goes; the nodes further  *)
(* on in the row move up.                                                  *)
TakenFrom(t, row, s, u, row2, k) ==
  /\ Lists(u, row2) /\ u.size = t.size - 1
  /\ Listed(u, row2) = Without(s, t.size, k) /\ Ascending(Without(s, t.size, k))
  /\ \A i \in 1 .. t.size - 1 : i >= k => row2[i] = row[i + 1]

(* The element that goes is the target's, whichever node is freed.         *)
LEMMA TakenOutInOrder ==
  ASSUME NEW t, Whole(t), NEW row, NEW lo, NEW mid, NEW hi, Spans(t, row, lo, mid, hi),
         NEW s, s = Listed(t, row), Ascending(s),
         NEW target, NEW w, NEW n, NEW p, TakenOut(t, w, target, n, p),
         NEW u, u = Balance(w, p), Whole(u)
  PROVE  \E row2 : TakenFrom(t, row, s, u, row2, mid[target])
<1>1. PICK N \in Nat : N = t.size
  BY WholeFacts
<1>2. /\ target \in InTree(t) /\ n = Leaving(t, target) /\ n \in InTree(t)
      /\ p = t.parent[n] /\ Defect(w, p, -1)
      /\ \A m \in Node \ {n} : w.value[m] = IF m = target THEN t.value[n] ELSE t.value[m]
  BY DEF TakenOut
<1>3. PICK x : OnlyChild(t, n, x) /\ SplicedOut(t, w, n, x, p)
  BY DEF TakenOut
<1>4. /\ s \in [1 .. N -> Int] /\ InTree(t) \subseteq Node
      /\ \A i \in 1 .. N : s[i] = t.value[row[i]]
      /\ row \in [1 .. N -> InTree(t)] /\ \A i \in 1 .. N : mid[row[i]] = i
  <2>1. s \in [1 .. N -> Value]
    BY <1>1, ListedFacts
  <2>2. s \in [1 .. N -> Int]
    BY <2>1, ValueAssumption
  <2> QED BY <1>1, <2>2 DEF Spans, Listed, InTree
<1>5. PICK k, j : k = mid[target] /\ j = mid[n]
  OBVIOUS
<1>6. /\ k \in 1 .. N /\ j \in 1 .. N /\ row[k] = target /\ row[j] = n
      /\ (n = target /\ j = k) \/ j + 1 = k
      /\ t.value[n] = s[j]
  <2>1. mid[target] \in 1 .. t.size /\ row[mid[target]] = target
    BY <1>2, SpansFacts
  <2>2. mid[n] \in 1 .. t.size /\ row[mid[n]] = n
    BY <1>2, SpansFacts
  <2>3. n = target \/ mid[n] + 1 = mid[target]
    BY <1>2, LeavingStands
  <2> QED BY <1>1, <1>4, <1>5, <2>1, <2>2, <2>3
<1>7. PICK row2 : row2 = Without(row, N, j)
  OBVIOUS
<1>8. Lists(w, row2)
  <2>1. Lists(t, row)
    BY DEF Lists
  <2> QED BY <1>1, <1>2, <1>3, <1>6, <1>7, <2>1, SplicedOutLists
<1>9. Lists(u, row2) /\ u.size = w.size /\ Listed(u, row2) = Listed(w, row2)
  BY <1>2, <1>8, BalancedIsListed
<1>10. w.size = N - 1
  BY <1>1, <1>3 DEF SplicedOut
<1>11. /\ DOMAIN row2 = 1 .. N - 1
       /\ \A i \in 1 .. N - 1 : row2[i] = IF i < j THEN row[i] ELSE row[i + 1]
  BY <1>7 DEF Without
<1>12. ASSUME NEW i \in 1 .. N - 1
       PROVE  w.value[row2[i]] = IF i < k THEN s[i] ELSE s[i + 1]
  <2>0. i \in 1 .. N /\ i + 1 \in 1 .. N
    OBVIOUS
  <2>1. CASE i < j
    <3>1. row2[i] = row[i] /\ i < k
      BY <1>6, <1>11, <2>1
    <3>2. row[i] # n /\ row[i] # target /\ row[i] \in Node
      BY <1>4, <1>5, <2>0, <2>1, <3>1, <1>6
    <3> QED BY <1>2, <1>4, <2>0, <3>1, <3>2
  <2>2. CASE i >= j /\ i >= k
    <3>1. row2[i] = row[i + 1] /\ i + 1 # j /\ i + 1 # k
      BY <1>6, <1>11, <2>2
    <3>2. row[i + 1] # n /\ row[i + 1] # target /\ row[i + 1] \in Node
      BY <1>4, <1>5, <2>0, <3>1
    <3>3. ~ (i < k)
      BY <1>6, <2>2
    <3> QED BY <1>2, <1>4, <2>0, <3>1, <3>2, <3>3
  <2>3. CASE i >= j /\ i < k
    <3>1. i = j /\ i + 1 = k /\ n # target
      BY <1>5, <1>6, <2>3
    <3>2. row2[i] = target /\ target \in Node
      BY <1>2, <1>4, <1>6, <1>11, <3>1
    <3> QED BY <1>2, <1>6, <2>3, <3>1, <3>2
  <2> QED BY <1>6, <2>1, <2>2, <2>3
<1>13. Listed(w, row2) = Without(s, N, k)
  BY <1>10, <1>12 DEF Listed, Without
<1>14. \A i \in 1 .. N - 1 : i >= k => row2[i] = row[i + 1]
  BY <1>6, <1>11
<1>15. Ascending(Without(s, N, k))
  BY <1>4, <1>6, WithoutAscends
<1> QED BY <1>1, <1>5, <1>9, <1>10, <1>13, <1>14, <1>15 DEF TakenFrom

(* remove takes away one element with the value, or none if there is none, *)
(* and leaves the others in order.                                         *)
THEOREM RemovedInOrder ==
  ASSUME NEW t, Whole(t), NEW s, InOrder(t, s), NEW v \in Int, NEW u, u = Removed(t, v)
  PROVE  \/ u = t /\ \A i \in 1 .. t.size : s[i] # v
         \/ \E k \in 1 .. t.size : s[k] = v /\ InOrder(u, Without(s, t.size, k))
<1>1. PICK row : Lists(t, row) /\ s = Listed(t, row) /\ Ascending(s)
  BY DEF InOrder
<1>2. PICK lo, mid, hi : Spans(t, row, lo, mid, hi)
  BY <1>1 DEF Lists
<1>3. PICK target : target = Find(t, v)
  OBVIOUS
<1>4. \/ target = Null /\ \A i \in 1 .. t.size : s[i] # v
      \/ target \in InTree(t) /\ t.value[target] = v
  BY <1>1, <1>2, <1>3, FindFinds
<1>5. Whole(u)
  BY RemovedIsWhole
<1>6. CASE target = Null /\ u = t
  <2>1. Null \notin InTree(t)
    BY WholeFacts
  <2> QED BY <1>4, <1>6, <2>1
<1>7. CASE \E w, n, p : TakenOut(t, w, target, n, p) /\ u = Balance(w, p)
  <2>1. PICK w, n, p : TakenOut(t, w, target, n, p) /\ u = Balance(w, p)
    BY <1>7
  <2>2. target \in InTree(t)
    BY <2>1 DEF TakenOut
  <2>3. mid[target] \in 1 .. t.size /\ s[mid[target]] = v
    <3>1. mid[target] \in 1 .. t.size
      BY <1>2, <2>2, SpansFacts
    <3>2. t.value[target] = s[mid[target]]
      BY <1>1, <1>2, <2>2, ListedFacts
    <3>3. target # Null
      BY <2>2, WholeFacts
    <3> QED BY <1>4, <3>1, <3>2, <3>3
  <2>4. PICK row2 : TakenFrom(t, row, s, u, row2, mid[target])
    BY <1>1, <1>2, <1>5, <2>1, TakenOutInOrder
  <2>5. InOrder(u, Without(s, t.size, mid[target]))
    <3>1. Lists(u, row2) /\ Listed(u, row2) = Without(s, t.size, mid[target])
          /\ Ascending(Without(s, t.size, mid[target]))
      BY <2>4 DEF TakenFrom
    <3> QED BY <3>1 DEF InOrder
  <2> QED BY <2>3, <2>5
<1> QED BY <1>3, <1>6, <1>7, RemovedShape

-----------------------------------------------------------------------------
(* What the recursive functions of AvlTree compute.                        *)

(* s has N elements.                                                       *)
HasElements(s, N) == N \in Nat /\ s \in [1 .. N -> Value]

(* The places of s after a, up to b.                                       *)
Slice(s, a, b) == [i \in 1 .. b - a |-> s[a + i]]

(* a, b and c are places in a row of N, in this order.                     *)
InTurn(a, b, c, N) ==
  a \in Nat /\ b \in Nat /\ c \in Nat /\ N \in Nat /\ a <= b /\ b <= c /\ c <= N

(* x has what s has after a, up to b.                                      *)
IsSlice(x, s, a, b) ==
  x \in Seq(Value) /\ Len(x) = b - a /\ \A i \in 1 .. b - a : x[i] = s[a + i]

(* Between two places in turn, Slice gives a sequence of values.           *)
LEMMA SliceIsSeq ==
  ASSUME NEW N, NEW s, HasElements(s, N), NEW a, NEW b, InTurn(a, b, b, N)
  PROVE  IsSlice(Slice(s, a, b), s, a, b)
<1>. /\ s \in [1 .. N -> Value]
     /\ a \in Nat /\ b \in Nat /\ N \in Nat /\ a <= b /\ b <= N
  BY DEF HasElements, InTurn
<1>1. PICK k \in Nat : k = b - a
  OBVIOUS
<1>2. \A i \in 1 .. k : a + i \in 1 .. N
  BY <1>1
<1>3. PICK x : x = Slice(s, a, b)
  OBVIOUS
<1>4. x = [i \in 1 .. k |-> s[a + i]]
  BY <1>1, <1>3 DEF Slice
<1>5. x \in [1 .. k -> Value]
  BY <1>2, <1>4
<1>6. x \in Seq(Value) /\ Len(x) = k
  BY <1>1, <1>5
<1>7. IsSlice(x, s, a, b)
  BY <1>1, <1>4, <1>6 DEF IsSlice
<1> QED BY <1>3, <1>7

(* Slices that meet make one.                                              *)
LEMMA SlicesMeet ==
  ASSUME NEW N, NEW s, HasElements(s, N), NEW a, NEW b, NEW c, InTurn(a, b, c, N)
  PROVE  Slice(s, a, b) \o Slice(s, b, c) = Slice(s, a, c)
<1>1. a \in Nat /\ b \in Nat /\ c \in Nat /\ N \in Nat /\ a <= b /\ b <= c /\ c <= N
  BY DEF InTurn
<1>2. InTurn(a, b, b, N) /\ InTurn(b, c, c, N) /\ InTurn(a, c, c, N)
  BY <1>1 DEF InTurn
<1>3. PICK x, y, z : x = Slice(s, a, b) /\ y = Slice(s, b, c) /\ z = Slice(s, a, c)
  OBVIOUS
<1>4. IsSlice(x, s, a, b) /\ IsSlice(y, s, b, c) /\ IsSlice(z, s, a, c)
  BY <1>2, <1>3, SliceIsSeq
<1>5. x \in Seq(Value) /\ Len(x) = b - a /\ \A i \in 1 .. b - a : x[i] = s[a + i]
  BY <1>4 DEF IsSlice
<1>6. y \in Seq(Value) /\ Len(y) = c - b /\ \A i \in 1 .. c - b : y[i] = s[b + i]
  BY <1>4 DEF IsSlice
<1>7. z \in Seq(Value) /\ Len(z) = c - a /\ \A i \in 1 .. c - a : z[i] = s[a + i]
  BY <1>4 DEF IsSlice
<1>8. /\ x \o y \in Seq(Value) /\ Len(x \o y) = c - a
      /\ \A i \in 1 .. c - a :
           (x \o y)[i] = IF i <= b - a THEN x[i] ELSE y[i - (b - a)]
  <2>1. /\ x \o y \in Seq(Value) /\ Len(x \o y) = Len(x) + Len(y)
        /\ \A i \in 1 .. Len(x) + Len(y) :
             (x \o y)[i] = IF i <= Len(x) THEN x[i] ELSE y[i - Len(x)]
    BY <1>5, <1>6, ConcatProperties
  <2>2. Len(x) + Len(y) = c - a
    BY <1>1, <1>5, <1>6
  <2> QED BY <1>5, <2>1, <2>2
<1>9. ASSUME NEW i \in 1 .. c - a PROVE (x \o y)[i] = z[i]
  <2>1. CASE i <= b - a
    <3>1. i \in 1 .. b - a
      BY <1>1, <2>1
    <3> QED BY <1>5, <1>7, <1>8, <2>1, <3>1
  <2>2. CASE ~ (i <= b - a)
    <3>1. i - (b - a) \in 1 .. c - b /\ b + (i - (b - a)) = a + i
      BY <1>1, <2>2
    <3> QED BY <1>6, <1>7, <1>8, <2>2, <3>1
  <2> QED BY <2>1, <2>2
<1>10. x \o y = z
  BY <1>7, <1>8, <1>9, SeqEqual
<1> QED BY <1>3, <1>10

(* The empty slice, the slice of one place, and the whole.                 *)
LEMMA SliceFacts ==
  ASSUME NEW N, NEW s, HasElements(s, N)
  PROVE  /\ \A a \in Nat : Slice(s, a, a) = <<>>
         /\ \A a \in 1 .. N : Slice(s, a - 1, a) = <<s[a]>>
         /\ Slice(s, 0, N) = s
<1>. N \in Nat /\ s \in [1 .. N -> Value]
  BY DEF HasElements
<1>1. ASSUME NEW a \in Nat PROVE Slice(s, a, a) = <<>>
  <2>1. Slice(s, a, a) = [i \in 1 .. 0 |-> s[a + i]]
    BY DEF Slice
  <2> QED BY <2>1
<1>2. ASSUME NEW a \in 1 .. N PROVE Slice(s, a - 1, a) = <<s[a]>>
  <2>1. a - (a - 1) = 1 /\ a - 1 + 1 = a
    OBVIOUS
  <2>2. Slice(s, a - 1, a) = [i \in 1 .. 1 |-> s[a]]
    BY <2>1 DEF Slice
  <2> QED BY <2>2
<1>3. Slice(s, 0, N) = s
  <2>1. \A i \in 1 .. N : 0 + i = i
    OBVIOUS
  <2>2. Slice(s, 0, N) = [i \in 1 .. N |-> s[i]]
    BY <2>1 DEF Slice
  <2> QED BY <2>2
<1> QED BY <1>1, <1>2, <1>3

(* Elements lists the elements as they stand in the row.                   *)
LEMMA ElementsAreListed ==
  ASSUME NEW t, Whole(t), NEW row, Lists(t, row)
  PROVE  ElementsOf(t) = Listed(t, row)
<1>. DEFINE D == InTree(t) \cup {Null}
            Joins(f) == f = [n \in D |-> IF n = Null THEN <<>>
                                        ELSE f[t.left[n]] \o <<t.value[n]>> \o f[t.right[n]]]
<1>1. PICK lo, mid, hi : Spans(t, row, lo, mid, hi)
  BY DEF Lists
<1>2. PICK N \in Nat : N = t.size
  BY WholeFacts
<1>3. Null \notin InTree(t) /\ t.root \in D
  BY WholeFacts DEF Linked
<1>4. PICK s : s = Listed(t, row)
  OBVIOUS
<1>5. HasElements(s, N) /\ s \in [1 .. N -> Value] /\ \A m \in InTree(t) : t.value[m] = s[mid[m]]
  BY <1>1, <1>2, <1>4, ListedFacts DEF HasElements
<1>6. PICK g : g = [n \in D |-> IF n = Null THEN <<>> ELSE Slice(s, lo[n], hi[n])]
  OBVIOUS
<1>7. ASSUME NEW n \in InTree(t) PROVE g[n] = g[t.left[n]] \o <<t.value[n]>> \o g[t.right[n]]
  <2>1. /\ lo[n] \in Nat /\ mid[n] \in Nat /\ hi[n] \in Nat
        /\ lo[n] < mid[n] /\ mid[n] <= hi[n] /\ hi[n] <= N
        /\ mid[n] \in 1 .. N
        /\ t.left[n] = Null => mid[n] = lo[n] + 1
        /\ t.left[n] # Null => /\ t.left[n] \in InTree(t)
                               /\ lo[t.left[n]] = lo[n] /\ hi[t.left[n]] + 1 = mid[n]
                               /\ hi[t.left[n]] \in Nat
        /\ t.right[n] = Null => hi[n] = mid[n]
        /\ t.right[n] # Null => /\ t.right[n] \in InTree(t)
                                /\ lo[t.right[n]] = mid[n] /\ hi[t.right[n]] = hi[n]
    BY <1>1, <1>2, SpansFacts
  <2>2. mid[n] - 1 \in Nat /\ lo[n] <= mid[n] - 1 /\ mid[n] - 1 <= mid[n]
    BY <2>1
  <2>3. g[t.left[n]] = Slice(s, lo[n], mid[n] - 1)
    <3>1. CASE t.left[n] = Null
      <4>1. g[t.left[n]] = <<>> /\ mid[n] - 1 = lo[n]
        BY <1>6, <2>1, <3>1
      <4> QED BY <1>5, <2>1, <4>1, SliceFacts
    <3>2. CASE t.left[n] # Null
      <4>1. hi[t.left[n]] = mid[n] - 1
        BY <2>1, <3>2
      <4> QED BY <1>3, <1>6, <2>1, <3>2, <4>1
    <3> QED BY <3>1, <3>2
  <2>4. g[t.right[n]] = Slice(s, mid[n], hi[n])
    <3>1. CASE t.right[n] = Null
      <4>1. g[t.right[n]] = <<>> /\ mid[n] = hi[n]
        BY <1>6, <2>1, <3>1
      <4> QED BY <1>5, <2>1, <4>1, SliceFacts
    <3>2. CASE t.right[n] # Null
      BY <1>3, <1>6, <2>1, <3>2
    <3> QED BY <3>1, <3>2
  <2>5. <<t.value[n]>> = Slice(s, mid[n] - 1, mid[n])
    BY <1>5, <2>1, SliceFacts
  <2>6. Slice(s, lo[n], mid[n] - 1) \o Slice(s, mid[n] - 1, mid[n]) = Slice(s, lo[n], mid[n])
    <3>1. InTurn(lo[n], mid[n] - 1, mid[n], N)
      BY <2>1, <2>2 DEF InTurn
    <3>2. HasElements(s, N)
      BY <1>5
    <3> QED BY <3>1, <3>2, SlicesMeet
  <2>7. Slice(s, lo[n], mid[n]) \o Slice(s, mid[n], hi[n]) = Slice(s, lo[n], hi[n])
    <3>1. InTurn(lo[n], mid[n], hi[n], N)
      BY <2>1 DEF InTurn
    <3>2. HasElements(s, N)
      BY <1>5
    <3> QED BY <3>1, <3>2, SlicesMeet
  <2>8. g[n] = Slice(s, lo[n], hi[n])
    BY <1>3, <1>6
  <2> QED BY <2>3, <2>4, <2>5, <2>6, <2>7, <2>8
<1>8. Joins(g)
  BY <1>3, <1>6, <1>7
<1>9. PICK f : f = CHOOSE in_order : Joins(in_order)
  OBVIOUS
<1>10. Joins(f) /\ ElementsOf(t) = f[t.root]
  <2>1. Joins(f)
    <3>. HIDE DEF Joins
    <3> QED BY <1>8, <1>9
  <2>2. ElementsOf(t) = f[t.root]
    BY <1>9 DEF ElementsOf
  <2> QED BY <2>1, <2>2
<1>11. /\ f[Null] = <<>>
       /\ \A n \in InTree(t) : f[n] = f[t.left[n]] \o <<t.value[n]>> \o f[t.right[n]]
  BY <1>3, <1>10
<1>. HIDE DEF Joins
<1>. DEFINE S == {i \in Nat : \A n \in InTree(t) : hi[n] - lo[n] < i => f[n] = g[n]}
<1>12. 0 \in S
  BY <1>1, SpansFacts
<1>13. ASSUME NEW i \in S PROVE i + 1 \in S
  <2>1. ASSUME NEW n \in InTree(t), hi[n] - lo[n] < i + 1 PROVE f[n] = g[n]
    <3>1. f[t.left[n]] = g[t.left[n]]
      <4>1. CASE t.left[n] = Null
        BY <1>6, <1>11, <4>1
      <4>2. CASE t.left[n] # Null
        <5>1. t.left[n] \in InTree(t) /\ hi[t.left[n]] - lo[t.left[n]] < i
          BY <1>1, <2>1, <4>2, SpansFacts
        <5> QED BY <1>13, <5>1
      <4> QED BY <4>1, <4>2
    <3>2. f[t.right[n]] = g[t.right[n]]
      <4>1. CASE t.right[n] = Null
        BY <1>6, <1>11, <4>1
      <4>2. CASE t.right[n] # Null
        <5>1. t.right[n] \in InTree(t) /\ hi[t.right[n]] - lo[t.right[n]] < i
          BY <1>1, <2>1, <4>2, SpansFacts
        <5> QED BY <1>13, <5>1
      <4> QED BY <4>1, <4>2
    <3> QED BY <1>7, <1>11, <2>1, <3>1, <3>2
  <2> QED BY <2>1
<1>. HIDE DEF S
<1>14. Nat \subseteq S
  BY <1>12, <1>13, EveryNatural
<1>15. f[t.root] = g[t.root]
  <2>1. CASE t.root = Null
    BY <1>6, <1>11, <2>1
  <2>2. CASE t.root # Null
    <3>1. t.root \in InTree(t) /\ hi[t.root] - lo[t.root] + 1 \in Nat
          /\ hi[t.root] - lo[t.root] < hi[t.root] - lo[t.root] + 1
      BY <1>1, <1>3, <2>2, SpansFacts
    <3> QED BY <1>14, <3>1 DEF S
  <2> QED BY <2>1, <2>2
<1>16. g[t.root] = s
  <2>1. CASE t.root = Null
    <3>1. N = 0 /\ g[t.root] = <<>>
      BY <1>1, <1>2, <1>6, <2>1 DEF Spans
    <3>2. s = Slice(s, 0, 0)
      BY <1>5, <3>1, SliceFacts
    <3> QED BY <1>5, <3>1, <3>2, SliceFacts
  <2>2. CASE t.root # Null
    <3>1. lo[t.root] = 0 /\ hi[t.root] = N /\ g[t.root] = Slice(s, lo[t.root], hi[t.root])
      BY <1>1, <1>2, <1>3, <1>6, <2>2 DEF Spans
    <3> QED BY <1>5, <3>1, SliceFacts
  <2> QED BY <2>1, <2>2
<1> QED BY <1>10, <1>15, <1>16, <1>4
-----------------------------------------------------------------------------
(* The iterator.                                                           *)

(* find_next climbs from a node that has no right child until it has come  *)
(* up from the left: all the nodes on the way end where the first one      *)
(* stands.                                                                 *)
LEMMA ClimbStands ==
  ASSUME NEW t, Whole(t), NEW row, NEW lo, NEW mid, NEW hi, Spans(t, row, lo, mid, hi),
         NEW n \in InTree(t), t.right[n] = Null
  PROVE  /\ Climb(t, n) = Null => mid[n] = t.size
         /\ Climb(t, n) # Null => Climb(t, n) \in InTree(t) /\ mid[Climb(t, n)] = mid[n] + 1
<1>1. /\ t \in Tree /\ Linked(t) /\ t.size \in Nat /\ Null \notin InTree(t)
      /\ t.root # Null => hi[t.root] = t.size
  BY WholeFacts DEF Spans
<1>2. ASSUME NEW m \in InTree(t)
      PROVE  /\ lo[m] \in 0 .. t.size /\ hi[m] \in Nat
             /\ t.parent[m] \in InTree(t) \cup {Null}
             /\ t.parent[m] = Null <=> m = t.root
             /\ t.parent[m] # Null => m \in {t.left[t.parent[m]], t.right[t.parent[m]]}
             /\ t.right[m] # m
  <2>1. /\ lo[m] \in Nat /\ hi[m] \in Nat /\ t.size \in Nat /\ mid[m] \in Nat
        /\ lo[m] < mid[m] /\ mid[m] <= hi[m] /\ hi[m] <= t.size
    BY SpansFacts
  <2>2. /\ t.parent[m] \in InTree(t) \cup {Null}
        /\ t.parent[m] = Null <=> m = t.root
        /\ t.parent[m] # Null => m \in {t.left[t.parent[m]], t.right[t.parent[m]]}
        /\ t.right[m] # m
    BY <1>1, LinkedFacts
  <2> QED BY <2>1, <2>2
<1>. DEFINE IsRight(m) == t.parent[m] # Null /\ m = t.right[t.parent[m]]
<1>3. PICK next : next = [m \in InTree(t) |-> IF IsRight(m) THEN t.parent[m] ELSE m]
  OBVIOUS
<1>4. next \in [InTree(t) -> InTree(t)]
  BY <1>2, <1>3
<1>5. ASSUME NEW m \in InTree(t), IsRight(m)
      PROVE  /\ next[m] = t.parent[m] /\ next[m] # m
             /\ lo[next[m]] < lo[m] /\ hi[next[m]] = hi[m]
  <2>1. next[m] = t.parent[m] /\ t.parent[m] \in InTree(t) /\ t.right[t.parent[m]] = m
    BY <1>2, <1>3, <1>5
  <2>2. m # Null
    BY <1>1
  <2>3. PICK q \in InTree(t) : q = t.parent[m]
    BY <2>1
  <2>4. t.right[q] = m /\ t.right[q] # q
    BY <1>2, <2>1, <2>3
  <2>5. lo[q] < lo[m] /\ hi[q] = hi[m]
    BY <2>2, <2>4, SpansFacts
  <2> QED BY <2>1, <2>3, <2>4, <2>5
<1>6. PICK rank : rank = [m \in InTree(t) |-> lo[m]]
  OBVIOUS
<1>7. rank \in [InTree(t) -> 0 .. t.size]
  BY <1>2, <1>6
<1>8. \A m \in InTree(t) : next[m] = m \/ rank[next[m]] < rank[m]
  <2>1. ASSUME NEW m \in InTree(t) PROVE next[m] = m \/ rank[next[m]] < rank[m]
    <3>1. CASE IsRight(m)
      <4>1. lo[next[m]] < lo[m] /\ next[m] \in InTree(t)
        BY <1>4, <1>5, <3>1
      <4> QED BY <1>6, <4>1
    <3>2. CASE ~ IsRight(m)
      BY <1>3, <3>2
    <3> QED BY <3>1, <3>2
  <2> QED BY <2>1
<1>9. PICK P \in SUBSET InTree(t) : P = {m \in InTree(t) : hi[m] = hi[n]}
  OBVIOUS
<1>10. \A m \in P : next[m] \in P
  <2>1. ASSUME NEW m \in P PROVE next[m] \in P
    <3>1. m \in InTree(t) /\ hi[m] = hi[n] /\ next[m] \in InTree(t)
      BY <1>4, <1>9
    <3>2. hi[next[m]] = hi[m]
      <4>1. CASE IsRight(m)
        BY <1>5, <3>1, <4>1
      <4>2. CASE ~ IsRight(m)
        BY <1>3, <3>1, <4>2
      <4> QED BY <4>1, <4>2
    <3> QED BY <1>9, <3>1, <3>2
  <2> QED BY <2>1
<1>11. n \in P
  BY <1>9
<1>12. PICK prev : prev = Chase(next, n)
  OBVIOUS
<1>13. prev \in P /\ next[prev] = prev
  BY <1>1, <1>4, <1>7, <1>8, <1>10, <1>11, <1>12, ChaseKeeps
<1>14. prev \in InTree(t) /\ hi[prev] = hi[n] /\ hi[n] = mid[n]
  <2>1. hi[n] = mid[n]
    BY SpansFacts
  <2> QED BY <1>9, <1>13, <2>1
<1>15. ~ IsRight(prev)
  BY <1>5, <1>13, <1>14
<1>16. Climb(t, n) = t.parent[prev]
  BY <1>3, <1>12 DEF Climb
<1>17. CASE t.parent[prev] = Null
  <2>1. prev = t.root /\ t.root # Null
    BY <1>1, <1>2, <1>14, <1>17
  <2> QED BY <1>1, <1>14, <1>16, <1>17, <2>1
<1>18. CASE t.parent[prev] # Null
  <2>1. PICK q \in InTree(t) : q = t.parent[prev]
    BY <1>2, <1>14, <1>18
  <2>2. prev = t.left[q] /\ prev # Null
    BY <1>1, <1>2, <1>14, <1>15, <1>18, <2>1
  <2>3. hi[t.left[q]] + 1 = mid[q]
    BY <2>2, SpansFacts
  <2> QED BY <1>14, <1>16, <1>18, <2>1, <2>2, <2>3
<1> QED BY <1>17, <1>18

(* find_next finds the node that is next in the row.                       *)
LEMMA NextStands ==
  ASSUME NEW t, Whole(t), NEW row, NEW lo, NEW mid, NEW hi, Spans(t, row, lo, mid, hi),
         NEW n \in InTree(t)
  PROVE  /\ mid[n] = t.size <=> FindNext(t, n) = Null
         /\ FindNext(t, n) # Null => /\ FindNext(t, n) \in InTree(t)
                                     /\ mid[FindNext(t, n)] = mid[n] + 1
<1>1. n # Null /\ Null \notin InTree(t)
  BY WholeFacts
<1>2. ASSUME NEW m \in InTree(t) PROVE mid[m] \in Nat /\ mid[m] <= t.size /\ t.size \in Nat
  BY SpansFacts
<1>3. CASE t.right[n] # Null
  <2>1. FindNext(t, n) = LeftMost(t, t.right[n])
    BY <1>1, <1>3 DEF FindNext
  <2>2. t.right[n] \in InTree(t) /\ lo[t.right[n]] = mid[n]
    BY <1>3, SpansFacts
  <2>3. LeftMost(t, t.right[n]) \in InTree(t) /\ mid[LeftMost(t, t.right[n])] = mid[n] + 1
    BY <2>2, LeftMostStands
  <2>4. PICK m \in InTree(t) : m = FindNext(t, n) /\ mid[m] = mid[n] + 1
    BY <2>1, <2>3
  <2>5. mid[n] # t.size /\ m # Null
    BY <1>1, <1>2, <2>4
  <2> QED BY <2>4, <2>5
<1>4. CASE t.right[n] = Null
  <2>1. FindNext(t, n) = Climb(t, n)
    BY <1>1, <1>4 DEF FindNext
  <2>2. /\ Climb(t, n) = Null => mid[n] = t.size
        /\ Climb(t, n) # Null => Climb(t, n) \in InTree(t) /\ mid[Climb(t, n)] = mid[n] + 1
    BY <1>4, ClimbStands
  <2> QED BY <1>2, <2>1, <2>2
<1> QED BY <1>3, <1>4

(* From a node on, the iterator finds what stands there and after it.      *)
LEMMA WalkIsSlice ==
  ASSUME NEW t, Whole(t), NEW row, NEW lo, NEW mid, NEW hi, Spans(t, row, lo, mid, hi)
  PROVE  /\ Walk(t, Null) = <<>>
         /\ \A n \in InTree(t) :
              /\ Walk(t, n) = Slice(Listed(t, row), mid[n] - 1, t.size)
              /\ Walk(t, n) = <<t.value[n]>> \o Walk(t, FindNext(t, n))
<1>. DEFINE D == InTree(t) \cup {Null}
            Walks(f) == f = [n \in D |-> IF n = Null THEN <<>>
                                        ELSE <<t.value[n]>> \o f[FindNext(t, n)]]
<1>1. PICK N \in Nat : N = t.size
  BY WholeFacts
<1>2. Null \notin InTree(t)
  BY WholeFacts
<1>3. PICK s : s = Listed(t, row)
  OBVIOUS
<1>4. HasElements(s, N) /\ \A m \in InTree(t) : t.value[m] = s[mid[m]]
  BY <1>1, <1>3, ListedFacts DEF HasElements
<1>5. PICK g : g = [n \in D |-> IF n = Null THEN <<>> ELSE Slice(s, mid[n] - 1, N)]
  OBVIOUS
<1>6. ASSUME NEW n \in InTree(t) PROVE g[n] = <<t.value[n]>> \o g[FindNext(t, n)]
  <2>1. mid[n] \in Nat /\ mid[n] \in 1 .. N
    BY <1>1, SpansFacts
  <2>2. g[FindNext(t, n)] = Slice(s, mid[n], N)
    <3>1. CASE FindNext(t, n) = Null
      <4>1. mid[n] = N
        BY <1>1, <3>1, NextStands
      <4>2. g[FindNext(t, n)] = <<>>
        BY <1>5, <3>1
      <4>3. Slice(s, N, N) = <<>>
        BY <1>4, SliceFacts
      <4> QED BY <4>1, <4>2, <4>3
    <3>2. CASE FindNext(t, n) # Null
      <4>1. PICK m \in InTree(t) : m = FindNext(t, n) /\ mid[m] = mid[n] + 1
        BY <3>2, NextStands
      <4>2. g[m] = Slice(s, mid[m] - 1, N)
        BY <1>2, <1>5
      <4>3. mid[m] - 1 = mid[n]
        BY <2>1, <4>1
      <4> QED BY <4>1, <4>2, <4>3
    <3> QED BY <3>1, <3>2
  <2>3. <<t.value[n]>> = Slice(s, mid[n] - 1, mid[n])
    <3>1. t.value[n] = s[mid[n]]
      BY <1>4
    <3>2. Slice(s, mid[n] - 1, mid[n]) = <<s[mid[n]]>>
      BY <1>4, <2>1, SliceFacts
    <3> QED BY <3>1, <3>2
  <2>4. Slice(s, mid[n] - 1, mid[n]) \o Slice(s, mid[n], N) = Slice(s, mid[n] - 1, N)
    <3>1. InTurn(mid[n] - 1, mid[n], N, N)
      BY <2>1 DEF InTurn
    <3>2. HasElements(s, N)
      BY <1>4
    <3> QED BY <3>1, <3>2, SlicesMeet
  <2>5. g[n] = Slice(s, mid[n] - 1, N)
    BY <1>2, <1>5
  <2> QED BY <2>2, <2>3, <2>4, <2>5
<1>7. Walks(g)
  BY <1>2, <1>5, <1>6
<1>8. PICK f : f = CHOOSE walk : Walks(walk)
  OBVIOUS
<1>9. Walks(f) /\ \A n : Walk(t, n) = f[n]
  <2>1. Walks(f)
    <3>. HIDE DEF Walks
    <3> QED BY <1>7, <1>8
  <2>2. \A n : Walk(t, n) = f[n]
    BY <1>8 DEF Walk
  <2> QED BY <2>1, <2>2
<1>10. /\ f[Null] = <<>>
       /\ \A n \in InTree(t) : f[n] = <<t.value[n]>> \o f[FindNext(t, n)]
  BY <1>2, <1>9
<1>. HIDE DEF Walks
<1>. DEFINE S == {i \in Nat : \A n \in InTree(t) : N - mid[n] < i => f[n] = g[n]}
<1>11. 0 \in S
  <2>1. ASSUME NEW n \in InTree(t) PROVE ~ (N - mid[n] < 0)
    <3>1. mid[n] \in 1 .. N
      BY <1>1, SpansFacts
    <3> QED BY <3>1
  <2> QED BY <2>1
<1>12. ASSUME NEW i \in S PROVE i + 1 \in S
  <2>1. ASSUME NEW n \in InTree(t), N - mid[n] < i + 1 PROVE f[n] = g[n]
    <3>1. f[FindNext(t, n)] = g[FindNext(t, n)]
      <4>1. CASE FindNext(t, n) = Null
        BY <1>5, <1>10, <4>1
      <4>2. CASE FindNext(t, n) # Null
        <5>1. PICK m \in InTree(t) : m = FindNext(t, n) /\ mid[m] = mid[n] + 1
          BY <4>2, NextStands
        <5>2. mid[n] \in Nat /\ i \in Nat
          BY <1>12, SpansFacts
        <5>3. N - mid[m] < i
          BY <2>1, <5>1, <5>2
        <5> QED BY <1>12, <5>1, <5>3
      <4> QED BY <4>1, <4>2
    <3> QED BY <1>6, <1>10, <3>1
  <2> QED BY <2>1
<1>. HIDE DEF S
<1>13. Nat \subseteq S
  BY <1>11, <1>12, EveryNatural
<1>14. ASSUME NEW n \in InTree(t)
       PROVE  /\ Walk(t, n) = Slice(Listed(t, row), mid[n] - 1, t.size)
              /\ Walk(t, n) = <<t.value[n]>> \o Walk(t, FindNext(t, n))
  <2>1. PICK k \in Nat : k = N - mid[n]
    <3>1. mid[n] \in 1 .. N
      BY <1>1, SpansFacts
    <3> QED BY <3>1
  <2>2. k + 1 \in S /\ N - mid[n] < k + 1
    BY <1>13, <2>1
  <2>3. f[n] = g[n]
    BY <2>2 DEF S
  <2>4. g[n] = Slice(s, mid[n] - 1, N)
    BY <1>2, <1>5
  <2> QED BY <1>1, <1>3, <1>9, <1>10, <2>3, <2>4
<1> QED BY <1>9, <1>10, <1>14

-----------------------------------------------------------------------------
(* The tree is the ordered bag.                                            *)

(* SubSeq is the slice of the places after i - 1, up to j.                 *)
LEMMA SubSeqIsSlice ==
  ASSUME NEW N, NEW s, HasElements(s, N), NEW a, NEW b, InTurn(a, b, b, N)
  PROVE  SubSeq(s, a + 1, b) = Slice(s, a, b) /\ Len(s) = N /\ s \in Seq(Value)
<1>1. /\ s \in [1 .. N -> Value]
      /\ a \in Nat /\ b \in Nat /\ N \in Nat /\ a <= b /\ b <= N
  BY DEF HasElements, InTurn
<1>2. \A i \in a + 1 .. b : i \in 1 .. N /\ s[i] \in Value
  <2>1. ASSUME NEW i \in a + 1 .. b PROVE i \in 1 .. N
    BY <1>1
  <2> QED BY <1>1, <2>1
<1>3. PICK x, y : x = SubSeq(s, a + 1, b) /\ y = Slice(s, a, b)
  OBVIOUS
<1>4. /\ x \in Seq(Value) /\ Len(x) = (IF a + 1 <= b THEN b - (a + 1) + 1 ELSE 0)
      /\ \A i \in 1 .. b - (a + 1) + 1 : x[i] = s[a + 1 + i - 1]
  <2>1. a + 1 \in Int /\ b \in Int
    BY <1>1
  <2>2. \A i \in a + 1 .. b : s[i] \in Value
    BY <1>2
  <2>3. /\ SubSeq(s, a + 1, b) \in Seq(Value)
        /\ Len(SubSeq(s, a + 1, b)) = (IF a + 1 <= b THEN b - (a + 1) + 1 ELSE 0)
        /\ \A i \in 1 .. b - (a + 1) + 1 : SubSeq(s, a + 1, b)[i] = s[a + 1 + i - 1]
    BY <2>1, <2>2, SubSeqProperties
  <2> QED BY <1>3, <2>3
<1>5. y \in Seq(Value) /\ Len(y) = b - a /\ \A i \in 1 .. b - a : y[i] = s[a + i]
  <2>1. IsSlice(y, s, a, b)
    BY <1>3, SliceIsSeq
  <2> QED BY <2>1 DEF IsSlice
<1>6. Len(x) = Len(y)
  BY <1>1, <1>4, <1>5
<1>7. ASSUME NEW i \in 1 .. Len(x) PROVE x[i] = y[i]
  <2>1. i \in 1 .. b - a
    BY <1>5, <1>6
  <2>2. b - (a + 1) + 1 = b - a /\ a + 1 + i - 1 = a + i
    BY <1>1, <2>1
  <2> QED BY <1>4, <1>5, <2>1, <2>2
<1>8. x = y
  BY <1>4, <1>5, <1>6, <1>7, SeqEqual
<1>9. Len(s) = N /\ s \in Seq(Value)
  BY <1>1
<1> QED BY <1>3, <1>8, <1>9

(* What is left is what stood before and what stood after.                 *)
LEMMA WithoutIsConcat ==
  ASSUME NEW N, NEW s, HasElements(s, N), NEW k \in 1 .. N
  PROVE  Without(s, N, k) = SubSeq(s, 1, k - 1) \o SubSeq(s, k + 1, N)
<1>1. s \in [1 .. N -> Value] /\ N \in Nat
  BY DEF HasElements
<1>2. InTurn(0, k - 1, k - 1, N) /\ InTurn(k, N, N, N)
  BY <1>1 DEF InTurn
<1>3. PICK x, y, z : x = Slice(s, 0, k - 1) /\ y = Slice(s, k, N) /\ z = Without(s, N, k)
  OBVIOUS
<1>4. SubSeq(s, 1, k - 1) = x /\ SubSeq(s, k + 1, N) = y
  <2>1. SubSeq(s, 0 + 1, k - 1) = x
    BY <1>2, <1>3, SubSeqIsSlice
  <2>2. SubSeq(s, k + 1, N) = y
    BY <1>2, <1>3, SubSeqIsSlice
  <2>3. 0 + 1 = 1
    OBVIOUS
  <2> QED BY <2>1, <2>2, <2>3
<1>5. IsSlice(x, s, 0, k - 1) /\ IsSlice(y, s, k, N)
  BY <1>2, <1>3, SliceIsSeq
<1>6. x \in Seq(Value) /\ Len(x) = k - 1 /\ \A i \in 1 .. k - 1 : x[i] = s[i]
  <2>1. /\ x \in Seq(Value) /\ Len(x) = k - 1 - 0
        /\ \A i \in 1 .. k - 1 - 0 : x[i] = s[0 + i]
    BY <1>5 DEF IsSlice
  <2>2. k - 1 - 0 = k - 1 /\ \A i \in 1 .. k - 1 : 0 + i = i
    OBVIOUS
  <2> QED BY <2>1, <2>2
<1>7. y \in Seq(Value) /\ Len(y) = N - k /\ \A i \in 1 .. N - k : y[i] = s[k + i]
  BY <1>5 DEF IsSlice
<1>8. /\ x \o y \in Seq(Value) /\ Len(x \o y) = N - 1
      /\ \A i \in 1 .. N - 1 : (x \o y)[i] = IF i <= k - 1 THEN x[i] ELSE y[i - (k - 1)]
  <2>1. /\ x \o y \in Seq(Value) /\ Len(x \o y) = Len(x) + Len(y)
        /\ \A i \in 1 .. Len(x) + Len(y) :
             (x \o y)[i] = IF i <= Len(x) THEN x[i] ELSE y[i - Len(x)]
    BY <1>6, <1>7, ConcatProperties
  <2>2. Len(x) + Len(y) = N - 1
    BY <1>1, <1>6, <1>7
  <2> QED BY <1>6, <2>1, <2>2
<1>9. z \in Seq(Value) /\ Len(z) = N - 1
      /\ \A i \in 1 .. N - 1 : z[i] = IF i < k THEN s[i] ELSE s[i + 1]
  <2>1. PICK j \in Nat : j = N - 1
    BY <1>1
  <2>2. z = [i \in 1 .. j |-> IF i < k THEN s[i] ELSE s[i + 1]]
    BY <1>3, <2>1 DEF Without
  <2>3. \A i \in 1 .. j : s[i] \in Value /\ s[i + 1] \in Value
    BY <1>1, <2>1
  <2>4. z \in [1 .. j -> Value]
    BY <2>2, <2>3
  <2>5. z \in Seq(Value) /\ Len(z) = j
    BY <2>4
  <2> QED BY <2>1, <2>2, <2>5
<1>10. ASSUME NEW i \in 1 .. N - 1 PROVE (x \o y)[i] = z[i]
  <2>1. CASE i < k
    <3>1. i \in 1 .. k - 1 /\ i <= k - 1
      BY <1>1, <2>1
    <3> QED BY <1>6, <1>8, <1>9, <2>1, <3>1
  <2>2. CASE ~ (i < k)
    <3>1. i - (k - 1) \in 1 .. N - k /\ k + (i - (k - 1)) = i + 1 /\ ~ (i <= k - 1)
      BY <1>1, <2>2
    <3> QED BY <1>7, <1>8, <1>9, <2>2, <3>1
  <2> QED BY <2>1, <2>2
<1>11. x \o y = z
  BY <1>8, <1>9, <1>10, SeqEqual
<1> QED BY <1>3, <1>4, <1>11

(* A value put in comes between the two.                                   *)
LEMMA PutInIsConcat ==
  ASSUME NEW N, NEW s, HasElements(s, N), NEW k \in 0 .. N, NEW v \in Value
  PROVE  PutIn(s, N, k, v) = SubSeq(s, 1, k) \o <<v>> \o SubSeq(s, k + 1, N)
<1>1. s \in [1 .. N -> Value] /\ N \in Nat
  BY DEF HasElements
<1>2. InTurn(0, k, k, N) /\ InTurn(k, N, N, N)
  BY <1>1 DEF InTurn
<1>3. PICK x, y, z : x = Slice(s, 0, k) /\ y = Slice(s, k, N) /\ z = PutIn(s, N, k, v)
  OBVIOUS
<1>4. SubSeq(s, 1, k) = x /\ SubSeq(s, k + 1, N) = y
  <2>1. SubSeq(s, 0 + 1, k) = x
    BY <1>2, <1>3, SubSeqIsSlice
  <2>2. SubSeq(s, k + 1, N) = y
    BY <1>2, <1>3, SubSeqIsSlice
  <2>3. 0 + 1 = 1
    OBVIOUS
  <2> QED BY <2>1, <2>2, <2>3
<1>5. IsSlice(x, s, 0, k) /\ IsSlice(y, s, k, N)
  BY <1>2, <1>3, SliceIsSeq
<1>6. x \in Seq(Value) /\ Len(x) = k /\ \A i \in 1 .. k : x[i] = s[i]
  <2>1. /\ x \in Seq(Value) /\ Len(x) = k - 0
        /\ \A i \in 1 .. k - 0 : x[i] = s[0 + i]
    BY <1>5 DEF IsSlice
  <2>2. k - 0 = k /\ \A i \in 1 .. k : 0 + i = i
    OBVIOUS
  <2> QED BY <2>1, <2>2
<1>7. y \in Seq(Value) /\ Len(y) = N - k /\ \A i \in 1 .. N - k : y[i] = s[k + i]
  BY <1>5 DEF IsSlice
<1>8. PICK w : w = <<v>>
  OBVIOUS
<1>9. w \in Seq(Value) /\ Len(w) = 1 /\ w[1] = v
  BY <1>8
<1>10. PICK q : q = x \o w
  OBVIOUS
<1>11. /\ q \in Seq(Value) /\ Len(q) = k + 1
       /\ \A i \in 1 .. k + 1 : q[i] = IF i <= k THEN x[i] ELSE w[i - k]
  <2>1. /\ x \o w \in Seq(Value) /\ Len(x \o w) = Len(x) + Len(w)
        /\ \A i \in 1 .. Len(x) + Len(w) :
             (x \o w)[i] = IF i <= Len(x) THEN x[i] ELSE w[i - Len(x)]
    BY <1>6, <1>9, ConcatProperties
  <2> QED BY <1>6, <1>9, <1>10, <2>1
<1>12. /\ q \o y \in Seq(Value) /\ Len(q \o y) = N + 1
       /\ \A i \in 1 .. N + 1 : (q \o y)[i] = IF i <= k + 1 THEN q[i] ELSE y[i - (k + 1)]
  <2>1. /\ q \o y \in Seq(Value) /\ Len(q \o y) = Len(q) + Len(y)
        /\ \A i \in 1 .. Len(q) + Len(y) :
             (q \o y)[i] = IF i <= Len(q) THEN q[i] ELSE y[i - Len(q)]
    BY <1>7, <1>11, ConcatProperties
  <2>2. Len(q) = k + 1 /\ Len(q) + Len(y) = N + 1
    BY <1>1, <1>7, <1>11
  <2> QED BY <2>1, <2>2
<1>13. z \in Seq(Value) /\ Len(z) = N + 1
       /\ \A i \in 1 .. N + 1 : z[i] = IF i <= k THEN s[i] ELSE IF i = k + 1 THEN v ELSE s[i - 1]
  <2>1. PICK j \in Nat : j = N + 1
    BY <1>1
  <2>2. z = [i \in 1 .. j |-> IF i <= k THEN s[i] ELSE IF i = k + 1 THEN v ELSE s[i - 1]]
    BY <1>3, <2>1 DEF PutIn
  <2>3. \A i \in 1 .. j : /\ i <= k => s[i] \in Value
                          /\ i > k + 1 => s[i - 1] \in Value
    BY <1>1, <2>1
  <2>4. \A i \in 1 .. j : z[i] \in Value
    BY <2>2, <2>3
  <2>5. z \in [1 .. j -> Value]
    BY <2>2, <2>4
  <2>6. z \in Seq(Value) /\ Len(z) = j
    BY <2>5
  <2> QED BY <2>1, <2>2, <2>6
<1>14. ASSUME NEW i \in 1 .. N + 1 PROVE (q \o y)[i] = z[i]
  <2>1. CASE i <= k
    <3>1. i \in 1 .. k /\ i \in 1 .. k + 1 /\ i <= k + 1
      BY <1>1, <2>1
    <3> QED BY <1>6, <1>11, <1>12, <1>13, <2>1, <3>1
  <2>2. CASE i = k + 1
    <3>1. i \in 1 .. k + 1 /\ i <= k + 1 /\ ~ (i <= k) /\ i - k = 1
      BY <1>1, <2>2
    <3> QED BY <1>9, <1>11, <1>12, <1>13, <2>2, <3>1
  <2>3. CASE i > k + 1
    <3>1. /\ i - (k + 1) \in 1 .. N - k /\ k + (i - (k + 1)) = i - 1
          /\ ~ (i <= k + 1) /\ ~ (i <= k) /\ i # k + 1
      BY <1>1, <2>3
    <3> QED BY <1>7, <1>12, <1>13, <2>3, <3>1
  <2>4. i <= k \/ i = k + 1 \/ i > k + 1
    BY <1>1
  <2> QED BY <2>1, <2>2, <2>3, <2>4
<1>15. q \o y = z
  BY <1>12, <1>13, <1>14, SeqEqual
<1> QED BY <1>3, <1>4, <1>8, <1>10, <1>15

(* The nodes stand in row with the ranges of Spans, and their elements are *)
(* s, in ascending order.                                                  *)
Stands(t, row, lo, mid, hi, s) ==
  Spans(t, row, lo, mid, hi) /\ s = Listed(t, row) /\ Ascending(s)

(* There is one such s: what ElementsOf computes.                          *)
LEMMA InOrderIsElements ==
  ASSUME NEW t, Whole(t), NEW s, InOrder(t, s)
  PROVE  /\ ElementsOf(t) = s /\ HasElements(s, t.size) /\ t.size \in Nat
         /\ Len(s) = t.size /\ s \in Seq(Value)
         /\ \E row, lo, mid, hi : Stands(t, row, lo, mid, hi, s)
<1>1. PICK row : Lists(t, row) /\ s = Listed(t, row) /\ Ascending(s)
  BY DEF InOrder
<1>2. PICK lo, mid, hi : Spans(t, row, lo, mid, hi)
  BY <1>1 DEF Lists
<1>3. ElementsOf(t) = s
  BY <1>1, ElementsAreListed
<1>4. t.size \in Nat /\ s \in [1 .. t.size -> Value]
  BY <1>1, <1>2, ListedFacts
<1>5. Len(s) = t.size /\ s \in Seq(Value)
  BY <1>4
<1>6. Stands(t, row, lo, mid, hi, s)
  BY <1>1, <1>2 DEF Stands
<1> QED BY <1>3, <1>4, <1>5, <1>6 DEF HasElements

(* The first place of a slice and the others.                              *)
LEMMA SliceHeadTail ==
  ASSUME NEW N, NEW s, HasElements(s, N), NEW a \in Nat, a < N
  PROVE  /\ Slice(s, a, N) # <<>> /\ Head(Slice(s, a, N)) = s[a + 1]
         /\ Tail(Slice(s, a, N)) = Slice(s, a + 1, N)
<1>1. N \in Nat
  BY DEF HasElements
<1>2. InTurn(a, N, N, N) /\ InTurn(a + 1, N, N, N)
  BY <1>1 DEF InTurn
<1>3. PICK x, y : x = Slice(s, a, N) /\ y = Slice(s, a + 1, N)
  OBVIOUS
<1>4. IsSlice(x, s, a, N) /\ IsSlice(y, s, a + 1, N)
  BY <1>2, <1>3, SliceIsSeq
<1>5. x \in Seq(Value) /\ Len(x) = N - a /\ \A i \in 1 .. N - a : x[i] = s[a + i]
  BY <1>4 DEF IsSlice
<1>6. /\ y \in Seq(Value) /\ Len(y) = N - (a + 1)
      /\ \A i \in 1 .. N - (a + 1) : y[i] = s[a + 1 + i]
  BY <1>4 DEF IsSlice
<1>7. x # <<>>
  BY <1>1, <1>5
<1>8. /\ Tail(x) \in Seq(Value) /\ Len(Tail(x)) = Len(x) - 1
      /\ \A i \in 1 .. Len(Tail(x)) : Tail(x)[i] = x[i + 1]
  BY <1>5, <1>7, HeadTailProperties
<1>9. Head(x) = s[a + 1]
  <2>1. Head(x) = x[1] /\ 1 \in 1 .. N - a
    BY <1>1, <1>5, <1>7
  <2> QED BY <1>5, <2>1
<1>10. PICK z : z = Tail(x)
  OBVIOUS
<1>11. z \in Seq(Value) /\ Len(z) = N - (a + 1) /\ \A i \in 1 .. Len(z) : z[i] = x[i + 1]
  <2>1. N - a - 1 = N - (a + 1)
    BY <1>1
  <2> QED BY <1>5, <1>8, <1>10, <2>1
<1>12. ASSUME NEW i \in 1 .. Len(z) PROVE z[i] = y[i]
  <2>1. i \in 1 .. N - (a + 1) /\ i + 1 \in 1 .. N - a /\ a + (i + 1) = a + 1 + i
    BY <1>1, <1>11
  <2> QED BY <1>5, <1>6, <1>11, <2>1
<1>13. z = y
  BY <1>6, <1>11, <1>12, SeqEqual
<1> QED BY <1>3, <1>7, <1>9, <1>10, <1>13

(* What the iterator has yet to visit.                                     *)
RestOf(t, cur, next) == IF cur = Null THEN <<>> ELSE <<t.value[cur]>> \o Walk(t, next)

(* It is what stands from the iterator's node on.                          *)
LEMMA RestIsSlice ==
  ASSUME NEW t, Whole(t), NEW row, NEW lo, NEW mid, NEW hi, NEW s, Stands(t, row, lo, mid, hi, s),
         NEW n \in InTree(t)
  PROVE  RestOf(t, n, FindNext(t, n)) = Slice(s, mid[n] - 1, t.size)
<1>1. Spans(t, row, lo, mid, hi) /\ s = Listed(t, row)
  BY DEF Stands
<1>2. /\ Walk(t, n) = Slice(Listed(t, row), mid[n] - 1, t.size)
      /\ Walk(t, n) = <<t.value[n]>> \o Walk(t, FindNext(t, n))
  BY <1>1, WalkIsSlice
<1>3. n # Null
  BY WholeFacts
<1> QED BY <1>1, <1>2, <1>3 DEF RestOf

(* Begin: nothing is visited yet.                                          *)
LEMMA BeginRest ==
  ASSUME NEW t, Whole(t), NEW s, InOrder(t, s),
         NEW c, c = IF t.root = Null THEN Null ELSE LeftMost(t, t.root)
  PROVE  c \in InTree(t) \cup {Null} /\ RestOf(t, c, FindNext(t, c)) = s
<1>1. PICK row, lo, mid, hi : Stands(t, row, lo, mid, hi, s)
  BY InOrderIsElements
<1>2. /\ Spans(t, row, lo, mid, hi)
      /\ t.root # Null => lo[t.root] = 0
      /\ t.root = Null => t.size = 0
  BY <1>1 DEF Stands, Spans
<1>3. HasElements(s, t.size)
  BY InOrderIsElements
<1>4. CASE t.root = Null
  <2>1. RestOf(t, c, FindNext(t, c)) = <<>> /\ c = Null
    BY <1>4 DEF RestOf
  <2>2. Slice(s, 0, 0) = <<>> /\ Slice(s, 0, t.size) = s
    BY <1>3, SliceFacts
  <2> QED BY <1>2, <1>4, <2>1, <2>2
<1>5. CASE t.root # Null
  <2>1. t.root \in InTree(t)
    BY <1>5, WholeFacts DEF Linked
  <2>2. c \in InTree(t) /\ mid[c] = 0 + 1
    BY <1>2, <1>5, <2>1, LeftMostStands
  <2>3. RestOf(t, c, FindNext(t, c)) = Slice(s, mid[c] - 1, t.size)
    BY <1>1, <2>2, RestIsSlice
  <2>4. mid[c] - 1 = 0
    BY <2>2
  <2>5. Slice(s, 0, t.size) = s
    BY <1>3, SliceFacts
  <2> QED BY <2>2, <2>3, <2>4, <2>5
<1> QED BY <1>4, <1>5

(* Visit: the first of the rest has been visited.                          *)
LEMMA VisitRest ==
  ASSUME NEW t, Whole(t), NEW s, InOrder(t, s), NEW c \in InTree(t), NEW d, d = FindNext(t, c)
  PROVE  /\ d \in InTree(t) \cup {Null}
         /\ RestOf(t, c, d) # <<>>
         /\ RestOf(t, d, FindNext(t, d)) = Tail(RestOf(t, c, d))
<1>1. PICK row, lo, mid, hi : Stands(t, row, lo, mid, hi, s)
  BY InOrderIsElements
<1>2. Spans(t, row, lo, mid, hi)
  BY <1>1 DEF Stands
<1>3. HasElements(s, t.size)
  BY InOrderIsElements
<1>4. mid[c] \in 1 .. t.size /\ mid[c] \in Nat /\ t.size \in Nat
  BY <1>2, SpansFacts
<1>5. RestOf(t, c, d) = Slice(s, mid[c] - 1, t.size)
  BY <1>1, RestIsSlice
<1>6. Slice(s, mid[c] - 1, t.size) # <<>>
      /\ Tail(Slice(s, mid[c] - 1, t.size)) = Slice(s, mid[c], t.size)
  <2>1. PICK a \in Nat : a = mid[c] - 1 /\ a < t.size /\ a + 1 = mid[c]
    BY <1>4
  <2>2. Slice(s, a, t.size) # <<>> /\ Tail(Slice(s, a, t.size)) = Slice(s, a + 1, t.size)
    BY <1>3, <2>1, SliceHeadTail
  <2> QED BY <2>1, <2>2
<1>7. CASE d = Null
  <2>1. mid[c] = t.size
    <3>1. mid[c] = t.size <=> FindNext(t, c) = Null
      BY <1>2, NextStands
    <3> QED BY <1>7, <3>1
  <2>2. Slice(s, mid[c], mid[c]) = <<>>
    BY <1>3, <1>4, SliceFacts
  <2>3. RestOf(t, d, FindNext(t, d)) = <<>>
    BY <1>7 DEF RestOf
  <2> QED BY <1>5, <1>6, <1>7, <2>1, <2>2, <2>3
<1>8. CASE d # Null
  <2>1. d \in InTree(t) /\ mid[d] = mid[c] + 1
    <3>1. FindNext(t, c) # Null => /\ FindNext(t, c) \in InTree(t)
                                   /\ mid[FindNext(t, c)] = mid[c] + 1
      BY <1>2, NextStands
    <3> QED BY <1>8, <3>1
  <2>2. RestOf(t, d, FindNext(t, d)) = Slice(s, mid[d] - 1, t.size)
    BY <1>1, <2>1, RestIsSlice
  <2>3. mid[d] - 1 = mid[c]
    BY <1>4, <2>1
  <2> QED BY <1>5, <1>6, <2>1, <2>2, <2>3
<1> QED BY <1>7, <1>8

(* What stands after the place that goes is still there, one place nearer. *)
LEMMA SliceWithout ==
  ASSUME NEW N, NEW s, HasElements(s, N), NEW k \in 1 .. N
  PROVE  Slice(Without(s, N, k), k - 1, N - 1) = Slice(s, k, N)
<1>1. N \in Nat
  BY DEF HasElements
<1>2. PICK r : r = Without(s, N, k)
  OBVIOUS
<1>3. \A i \in 1 .. N - 1 : r[i] = IF i < k THEN s[i] ELSE s[i + 1]
  BY <1>2 DEF Without
<1>4. N - 1 - (k - 1) = N - k
  BY <1>1
<1>5. ASSUME NEW i \in 1 .. N - k PROVE r[k - 1 + i] = s[k + i]
  <2>1. k - 1 + i \in 1 .. N - 1 /\ ~ (k - 1 + i < k) /\ k - 1 + i + 1 = k + i
    BY <1>1
  <2> QED BY <1>3, <2>1
<1>6. Slice(r, k - 1, N - 1) = [i \in 1 .. N - k |-> r[k - 1 + i]]
  BY <1>4 DEF Slice
<1>7. Slice(s, k, N) = [i \in 1 .. N - k |-> s[k + i]]
  BY DEF Slice
<1> QED BY <1>2, <1>5, <1>6, <1>7

(* VisitAndRemove: the node the iterator has found as the next one is not  *)
(* the one that is freed, and what it still has to visit stands from there *)
(* on, whatever was rotated.                                               *)
LEMMA VisitedIsTaken ==
  ASSUME NEW t, Whole(t), NEW s, InOrder(t, s), NEW c \in InTree(t),
         \A m \in InTree(t) : t.value[m] = t.value[c] => m = c,
         NEW u, u = Removed(t, t.value[c]), NEW d, d = FindNext(t, c)
  PROVE  \E k \in 1 .. t.size :
           /\ s[k] = Head(RestOf(t, c, d)) /\ InOrder(u, Without(s, t.size, k))
           /\ d \in InTree(u) \cup {Null}
           /\ RestOf(u, d, FindNext(u, d)) = Tail(RestOf(t, c, d))
<1>1. PICK row, lo, mid, hi : Stands(t, row, lo, mid, hi, s)
  BY InOrderIsElements
<1>2. Spans(t, row, lo, mid, hi) /\ s = Listed(t, row) /\ Ascending(s)
  BY <1>1 DEF Stands
<1>3. PICK N \in Nat : N = t.size
  BY WholeFacts
<1>4. HasElements(s, N)
  BY <1>3, InOrderIsElements
<1>5. PICK k \in 1 .. N : k = mid[c] /\ row[k] = c
  BY <1>2, <1>3, SpansFacts
<1>6. /\ t.value[c] = s[k] /\ t.value[c] \in Int /\ c # Null
      /\ \A i \in 1 .. N : mid[row[i]] = i
      /\ \A m \in InTree(t) : row[mid[m]] = m /\ mid[m] \in 1 .. N
  <2>1. t.value[c] = s[mid[c]] /\ t.value[c] \in Int
    BY <1>2, ListedFacts
  <2>2. c # Null
    BY WholeFacts
  <2>3. \A i \in 1 .. N : mid[row[i]] = i
    BY <1>2, <1>3 DEF Spans
  <2>4. \A m \in InTree(t) : row[mid[m]] = m /\ mid[m] \in 1 .. N
    BY <1>2, <1>3, SpansFacts
  <2> QED BY <1>5, <2>1, <2>2, <2>3, <2>4
<1>7. PICK target : target = Find(t, t.value[c])
  OBVIOUS
<1>8. target = c
  <2>1. \/ target = Null /\ \A i \in 1 .. t.size : s[i] # t.value[c]
        \/ target \in InTree(t) /\ t.value[target] = t.value[c]
    BY <1>2, <1>6, <1>7, FindFinds
  <2> QED BY <1>3, <1>6, <2>1
<1>9. PICK w, n, p : TakenOut(t, w, c, n, p) /\ u = Balance(w, p)
  <2>1. \/ target = Null /\ u = t
        \/ \E w, n, p : TakenOut(t, w, target, n, p) /\ u = Balance(w, p)
    BY <1>7, RemovedShape
  <2> QED BY <1>6, <1>8, <2>1
<1>10. Whole(u)
  BY RemovedIsWhole
<1>11. PICK row2 : TakenFrom(t, row, s, u, row2, mid[c])
  BY <1>2, <1>9, <1>10, TakenOutInOrder
<1>12. PICK r : r = Without(s, N, k)
  OBVIOUS
<1>13. /\ Lists(u, row2) /\ u.size = N - 1 /\ r = Listed(u, row2) /\ Ascending(r)
       /\ \A i \in 1 .. N - 1 : i >= k => row2[i] = row[i + 1]
  BY <1>3, <1>5, <1>11, <1>12 DEF TakenFrom
<1>14. PICK lo2, mid2, hi2 : Stands(u, row2, lo2, mid2, hi2, r)
  <2>1. PICK lo2, mid2, hi2 : Spans(u, row2, lo2, mid2, hi2)
    BY <1>13 DEF Lists
  <2> QED BY <1>13, <2>1 DEF Stands
<1>15. InOrder(u, r)
  BY <1>13 DEF InOrder
<1>16. /\ RestOf(t, c, d) = Slice(s, k - 1, N)
       /\ Head(RestOf(t, c, d)) = s[k] /\ Tail(RestOf(t, c, d)) = Slice(s, k, N)
  <2>1. RestOf(t, c, d) = Slice(s, k - 1, N)
    BY <1>1, <1>3, <1>5, RestIsSlice
  <2>2. PICK a \in Nat : a = k - 1 /\ a < N /\ a + 1 = k
    OBVIOUS
  <2>3. Head(Slice(s, a, N)) = s[a + 1] /\ Tail(Slice(s, a, N)) = Slice(s, a + 1, N)
    BY <1>4, <2>2, SliceHeadTail
  <2> QED BY <2>1, <2>2, <2>3
<1>17. /\ k = N <=> d = Null
       /\ d # Null => d \in InTree(t) /\ mid[d] = k + 1
  <2>1. /\ mid[c] = t.size <=> FindNext(t, c) = Null
        /\ FindNext(t, c) # Null => /\ FindNext(t, c) \in InTree(t)
                                    /\ mid[FindNext(t, c)] = mid[c] + 1
    BY <1>2, NextStands
  <2> QED BY <1>3, <1>5, <2>1
<1>18. d \in InTree(u) \cup {Null} /\ RestOf(u, d, FindNext(u, d)) = Slice(s, k, N)
  <2>1. CASE d = Null
    <3>1. RestOf(u, d, FindNext(u, d)) = <<>>
      BY <2>1 DEF RestOf
    <3>2. Slice(s, N, N) = <<>>
      BY <1>4, SliceFacts
    <3> QED BY <1>17, <2>1, <3>1, <3>2
  <2>2. CASE d # Null
    <3>1. d \in InTree(t) /\ mid[d] = k + 1 /\ k + 1 \in 1 .. N
      BY <1>6, <1>17, <2>2
    <3>2. k \in 1 .. N - 1 /\ row2[k] = d
      BY <1>6, <1>13, <3>1
    <3>3. /\ Spans(u, row2, lo2, mid2, hi2)
          /\ row2 \in [1 .. N - 1 -> InTree(u)] /\ \A i \in 1 .. N - 1 : mid2[row2[i]] = i
      BY <1>13, <1>14 DEF Stands, Spans
    <3>4. d \in InTree(u) /\ mid2[d] = k
      BY <3>2, <3>3
    <3>5. RestOf(u, d, FindNext(u, d)) = Slice(r, mid2[d] - 1, u.size)
      BY <1>10, <1>14, <3>4, RestIsSlice
    <3>6. Slice(r, k - 1, N - 1) = Slice(s, k, N)
      BY <1>4, <1>12, SliceWithout
    <3> QED BY <1>13, <3>4, <3>5, <3>6
  <2> QED BY <2>1, <2>2
<1> QED BY <1>3, <1>12, <1>15, <1>16, <1>18

(* The strengthened invariant: the tree is whole, its elements stand in    *)
(* order, and the iterator is at one of its nodes and has found the next.  *)
BagInv ==
  /\ TreeInv
  /\ InOrder(tree, Elements)
  /\ cur_node \in InTree(tree) \cup {Null}
  /\ next_node = FindNext(tree, cur_node)

(* What holds of the tree and of what the iterator still has to visit,     *)
(* when they are those of the next state.                                  *)
LEMMA BagInvNext ==
  ASSUME Whole(tree'), NEW s, InOrder(tree', s), cur_node' \in InTree(tree') \cup {Null},
         next_node' = FindNext(tree', cur_node')
  PROVE  BagInv' /\ Elements' = s
<1>1. TreeInv'
  BY DEF TreeInv, Whole, Defect, Linked, LinkedAt, Positive, Exact, Stale, InTree,
         HeightOf, SizeOf, BalanceFactor
<1>2. Elements' = ElementsOf(tree')
  BY DEF Elements, ElementsOf, InTree
<1>3. Elements' = s
  BY <1>2, InOrderIsElements
<1>4. InOrder(tree', Elements')
  BY <1>3
<1>5. InOrder(tree, Elements)'
  BY <1>4 DEF InOrder, Lists, Spans, Sits, Listed, Ascending, InTree
<1>6. cur_node' \in InTree(tree)' \cup {Null}
  BY DEF InTree
<1>7. next_node' = FindNext(tree, cur_node)'
  BY DEF FindNext, LeftMost, Climb, Chase, InTree
<1> QED BY <1>1, <1>3, <1>5, <1>6, <1>7 DEF BagInv

(* What is left to visit in the next state.                                *)
LEMMA RestNext ==
  RestOf(tree, cur_node, next_node)' = RestOf(tree', cur_node', next_node')
BY DEF RestOf, Walk, FindNext, LeftMost, Climb, Chase, InTree

(* An empty tree is an empty bag.                                          *)
LEMMA BagStarts == Init => BagInv /\ Bag!Init
<1>. SUFFICES ASSUME Init PROVE BagInv /\ Bag!Init
  OBVIOUS
<1>1. tree = EmptyTree /\ cur_node = Null /\ next_node = Null
  BY DEF Init
<1>2. TreeInv
  BY TreeInvStarts
<1>3. /\ tree.root = Null /\ tree.size = 0
      /\ \A m \in Node : tree.value[m] = Null
  BY <1>1 DEF EmptyTree
<1>4. InTree(tree) = {}
  BY <1>3 DEF InTree
<1>5. PICK row, none : row = [i \in 1 .. 0 |-> Null] /\ none = [m \in {} |-> 0]
  OBVIOUS
<1>6. row \in [1 .. tree.size -> InTree(tree)] /\ none \in [InTree(tree) -> Nat]
  BY <1>3, <1>4, <1>5
<1>7. Spans(tree, row, none, none, none)
  BY <1>3, <1>4, <1>6 DEF Spans
<1>8. PICK s : s = Listed(tree, row)
  OBVIOUS
<1>9. s = <<>>
  <2>1. s = [i \in 1 .. 0 |-> tree.value[row[i]]]
    BY <1>3, <1>8 DEF Listed
  <2> QED BY <2>1
<1>10. Lists(tree, row) /\ Ascending(s)
  BY <1>7, <1>9 DEF Lists, Ascending
<1>11. InOrder(tree, s)
  BY <1>8, <1>10 DEF InOrder
<1>12. Elements = s
  BY <1>2, <1>11, InOrderIsElements DEF TreeInv, Elements
<1>13. next_node = FindNext(tree, cur_node)
  BY <1>1 DEF FindNext
<1>14. BagInv
  BY <1>1, <1>2, <1>11, <1>12, <1>13 DEF BagInv
<1>15. Bag!Init
  BY <1>1, <1>9, <1>12 DEF Bag!Init
<1> QED BY <1>14, <1>15

(* insert adds to the bag.                                                 *)
LEMMA InsertAdds ==
  ASSUME BagInv, NEW v \in Value, Insert(v)
  PROVE  BagInv' /\ Bag!Insert(v)
<1>1. /\ Whole(tree) /\ InOrder(tree, Elements) /\ cur_node = Null
      /\ cur_node' = Null /\ next_node' = next_node /\ next_node = FindNext(tree, cur_node)
  BY DEF BagInv, TreeInv, Insert
<1>2. PICK n \in Node \ InTree(tree) : tree' = Inserted(tree, v, n)
  BY DEF Insert
<1>3. PICK s, N : s = Elements /\ N = tree.size
  OBVIOUS
<1>4. HasElements(s, N) /\ Len(s) = N /\ N \in Nat
  BY <1>1, <1>3, InOrderIsElements
<1>5. Whole(tree')
  BY <1>1, <1>2, InsertedIsWhole
<1>6. PICK k \in 0 .. N : /\ \A i \in 1 .. N : s[i] < v <=> i <= k
                          /\ InOrder(tree', PutIn(s, N, k, v))
  BY <1>1, <1>2, <1>3, InsertedInOrder
<1>7. next_node' = FindNext(tree', cur_node') /\ cur_node' \in InTree(tree') \cup {Null}
  BY <1>1 DEF FindNext
<1>8. BagInv' /\ Elements' = PutIn(s, N, k, v)
  BY <1>5, <1>6, <1>7, BagInvNext
<1>9. Elements' = SubSeq(s, 1, k) \o <<v>> \o SubSeq(s, k + 1, Len(s))
  BY <1>4, <1>8, PutInIsConcat
<1>10. \E j \in 0 .. Len(Elements) :
         /\ \A i \in 1 .. Len(Elements) : Elements[i] < v <=> i <= j
         /\ Elements' = SubSeq(Elements, 1, j) \o <<v>> \o SubSeq(Elements, j + 1, Len(Elements))
  BY <1>3, <1>4, <1>6, <1>9
<1>11. Bag!Insert(v)
  BY <1>1, <1>10 DEF Bag!Insert, Bag!Between
<1> QED BY <1>8, <1>11

(* An element that goes is cut out of the elements.                        *)
LEMMA CutOut ==
  ASSUME NEW s, NEW N, HasElements(s, N), Len(s) = N, Elements = s,
         NEW k \in 1 .. N, NEW v, s[k] = v, Elements' = Without(s, N, k)
  PROVE  Bag!TakeOut(v)
<1>1. Elements' = SubSeq(s, 1, k - 1) \o SubSeq(s, k + 1, Len(s))
  BY WithoutIsConcat
<1>2. \E i \in 1 .. Len(Elements) :
        /\ Elements[i] = v
        /\ Elements' = SubSeq(Elements, 1, i - 1) \o SubSeq(Elements, i + 1, Len(Elements))
  BY <1>1
<1> QED BY <1>2 DEF Bag!TakeOut, Bag!Between

(* remove takes from it.                                                   *)
LEMMA RemoveTakes ==
  ASSUME BagInv, NEW v \in Value, Remove(v)
  PROVE  BagInv' /\ Bag!Remove(v)
<1>1. /\ Whole(tree) /\ InOrder(tree, Elements) /\ cur_node = Null
      /\ cur_node' = Null /\ next_node' = next_node /\ next_node = FindNext(tree, cur_node)
      /\ tree' = Removed(tree, v) /\ v \in Int
  BY ValueAssumption DEF BagInv, TreeInv, Remove
<1>2. PICK s, N : s = Elements /\ N = tree.size
  OBVIOUS
<1>3. HasElements(s, N) /\ Len(s) = N /\ N \in Nat
  BY <1>1, <1>2, InOrderIsElements
<1>4. Whole(tree')
  BY <1>1, RemovedIsWhole
<1>5. next_node' = FindNext(tree', cur_node') /\ cur_node' \in InTree(tree') \cup {Null}
  BY <1>1 DEF FindNext
<1>6. CASE tree' = tree /\ \A i \in 1 .. N : s[i] # v
  <2>1. InOrder(tree', s)
    BY <1>1, <1>2, <1>6
  <2>2. BagInv' /\ Elements' = s
    BY <1>4, <1>5, <2>1, BagInvNext
  <2>3. (\A i \in 1 .. Len(Elements) : Elements[i] # v) /\ Elements' = Elements
    BY <1>2, <1>3, <1>6, <2>2
  <2>4. Bag!Remove(v)
    BY <1>1, <2>3 DEF Bag!Remove
  <2> QED BY <2>2, <2>4
<1>7. CASE \E k \in 1 .. N : s[k] = v /\ InOrder(tree', Without(s, N, k))
  <2>1. PICK k \in 1 .. N : s[k] = v /\ InOrder(tree', Without(s, N, k))
    BY <1>7
  <2>2. BagInv' /\ Elements' = Without(s, N, k)
    BY <1>4, <1>5, <2>1, BagInvNext
  <2>3. Bag!TakeOut(v)
    BY <1>2, <1>3, <2>1, <2>2, CutOut
  <2>4. Bag!Remove(v)
    BY <1>1, <2>3 DEF Bag!Remove
  <2> QED BY <2>2, <2>4
<1>8. \/ tree' = tree /\ \A i \in 1 .. N : s[i] # v
      \/ \E k \in 1 .. N : s[k] = v /\ InOrder(tree', Without(s, N, k))
  BY <1>1, <1>2, RemovedInOrder
<1> QED BY <1>6, <1>7, <1>8

(* The iterator begins with all of it.                                     *)
LEMMA BeginHasAll ==
  ASSUME BagInv, Begin
  PROVE  BagInv' /\ Bag!Begin
<1>1. /\ Whole(tree) /\ InOrder(tree, Elements) /\ tree' = tree
      /\ cur_node' = IF tree.root = Null THEN Null ELSE LeftMost(tree, tree.root)
      /\ next_node' = FindNext(tree, cur_node')
  BY DEF BagInv, TreeInv, Begin
<1>2. PICK c, s : c = cur_node' /\ s = Elements
  OBVIOUS
<1>3. c = IF tree.root = Null THEN Null ELSE LeftMost(tree, tree.root)
  BY <1>1, <1>2
<1>4. c \in InTree(tree) \cup {Null} /\ RestOf(tree, c, FindNext(tree, c)) = s
  BY <1>1, <1>2, <1>3, BeginRest
<1>5. BagInv' /\ Elements' = s
  BY <1>1, <1>2, <1>4, BagInvNext
<1>6. RestOf(tree, cur_node, next_node)' = s
  BY <1>1, <1>2, <1>4, RestNext
<1>7. Bag!Begin
  BY <1>2, <1>5, <1>6 DEF Bag!Begin, RestOf
<1> QED BY <1>5, <1>7

(* It goes on with the rest.                                               *)
LEMMA VisitGoesOn ==
  ASSUME BagInv, Visit
  PROVE  BagInv' /\ Bag!Visit
<1>1. /\ Whole(tree) /\ InOrder(tree, Elements) /\ tree' = tree
      /\ cur_node \in InTree(tree) /\ next_node = FindNext(tree, cur_node)
      /\ cur_node' = next_node /\ next_node' = FindNext(tree, next_node)
  BY DEF BagInv, TreeInv, Visit
<1>2. PICK r, s : r = RestOf(tree, cur_node, next_node) /\ s = Elements
  OBVIOUS
<1>3. /\ next_node \in InTree(tree) \cup {Null} /\ r # <<>>
      /\ RestOf(tree, next_node, FindNext(tree, next_node)) = Tail(r)
  BY <1>1, <1>2, VisitRest
<1>4. BagInv' /\ Elements' = s
  BY <1>1, <1>2, <1>3, BagInvNext
<1>5. RestOf(tree, cur_node, next_node)' = Tail(r)
  BY <1>1, <1>3, RestNext
<1>6. Bag!Visit
  BY <1>2, <1>3, <1>4, <1>5 DEF Bag!Visit, RestOf
<1> QED BY <1>4, <1>6

(* It does so too when what it is at is taken out.                         *)
LEMMA VisitAndRemoveGoesOn ==
  ASSUME BagInv, VisitAndRemove
  PROVE  BagInv' /\ Bag!Visit
<1>1. /\ Whole(tree) /\ InOrder(tree, Elements) /\ tree' = Removed(tree, tree.value[cur_node])
      /\ cur_node \in InTree(tree) /\ next_node = FindNext(tree, cur_node)
      /\ cur_node' = next_node /\ next_node' = FindNext(tree', next_node)
      /\ \A m \in InTree(tree) : tree.value[m] = tree.value[cur_node] => m = cur_node
  BY DEF BagInv, TreeInv, VisitAndRemove, NoDuplicates
<1>2. PICK r, s, N : r = RestOf(tree, cur_node, next_node) /\ s = Elements /\ N = tree.size
  OBVIOUS
<1>3. HasElements(s, N) /\ Len(s) = N /\ N \in Nat
  BY <1>1, <1>2, InOrderIsElements
<1>4. PICK k \in 1 .. N :
        /\ s[k] = Head(r) /\ InOrder(tree', Without(s, N, k))
        /\ next_node \in InTree(tree') \cup {Null}
        /\ RestOf(tree', next_node, FindNext(tree', next_node)) = Tail(r)
  BY <1>1, <1>2, VisitedIsTaken
<1>5. r # <<>>
  BY <1>1, <1>2, VisitRest
<1>6. Whole(tree')
  BY <1>1, RemovedIsWhole
<1>7. BagInv' /\ Elements' = Without(s, N, k)
  BY <1>1, <1>4, <1>6, BagInvNext
<1>8. RestOf(tree, cur_node, next_node)' = Tail(r)
  BY <1>1, <1>4, RestNext
<1>9. Bag!TakeOut(Head(r))
  BY <1>2, <1>3, <1>4, <1>7, CutOut
<1>10. Bag!Visit
  BY <1>2, <1>5, <1>8, <1>9 DEF Bag!Visit, RestOf
<1> QED BY <1>7, <1>10

(* Every call is one of the bag's, and leaves the nodes in order.          *)
LEMMA CallIsBags ==
  ASSUME BagInv, [Next]_vars
  PROVE  BagInv' /\ [Bag!Next]_(Bag!bagVars)
<1>1. ASSUME NEW v \in Value, Insert(v) PROVE BagInv' /\ [Bag!Next]_(Bag!bagVars)
  BY <1>1, InsertAdds DEF Bag!Next
<1>2. ASSUME NEW v \in Value, Remove(v) PROVE BagInv' /\ [Bag!Next]_(Bag!bagVars)
  BY <1>2, RemoveTakes DEF Bag!Next
<1>3. CASE Begin
  BY <1>3, BeginHasAll DEF Bag!Next
<1>4. CASE Visit
  BY <1>4, VisitGoesOn DEF Bag!Next
<1>5. CASE VisitAndRemove
  BY <1>5, VisitAndRemoveGoesOn DEF Bag!Next
<1>6. CASE UNCHANGED vars
  <2>1. /\ Whole(tree) /\ InOrder(tree, Elements) /\ tree' = tree
        /\ cur_node' = cur_node /\ next_node' = next_node
        /\ cur_node \in InTree(tree) \cup {Null} /\ next_node = FindNext(tree, cur_node)
    BY <1>6 DEF BagInv, TreeInv, vars
  <2>2. BagInv' /\ Elements' = Elements
    BY <2>1, BagInvNext
  <2>3. RestOf(tree, cur_node, next_node)' = RestOf(tree, cur_node, next_node)
    BY <2>1, RestNext
  <2> QED BY <2>2, <2>3 DEF Bag!bagVars, RestOf
<1> QED BY <1>1, <1>2, <1>3, <1>4, <1>5, <1>6 DEF Next

(* The tree implements the ordered bag: insert and remove put in and take  *)
(* out one element in order, and the iterator visits each element once, in *)
(* order, also when the loop removes what it visits.                       *)
THEOREM TreeImplementsBag == Spec => ImplementsBag
<1>1. Init => BagInv /\ Bag!Init
  BY BagStarts
<1>2. BagInv /\ [Next]_vars => BagInv' /\ [Bag!Next]_(Bag!bagVars)
  BY CallIsBags
<1> QED BY <1>1, <1>2, PTL DEF Spec, ImplementsBag, Bag!Spec

-----------------------------------------------------------------------------
(* Queries.                                                                *)

(* num_nodes is the length of the range.                                   *)
LEMMA SizeIsRange ==
  ASSUME NEW t, Whole(t), NEW row, NEW lo, NEW mid, NEW hi, Spans(t, row, lo, mid, hi),
         NEW n \in InTree(t)
  PROVE  /\ t.num_nodes[n] = hi[n] - lo[n]
         /\ SizeOf(t, t.left[n]) = mid[n] - 1 - lo[n]
         /\ SizeOf(t, t.right[n]) = hi[n] - mid[n]
<1>1. Null \notin InTree(t)
  BY WholeFacts
<1>. DEFINE S == {i \in Nat : \A m \in InTree(t) : hi[m] - lo[m] < i => t.num_nodes[m] = hi[m] - lo[m]}
<1>2. ASSUME NEW m \in InTree(t),
             t.left[m] # Null => t.num_nodes[t.left[m]] = hi[t.left[m]] - lo[t.left[m]],
             t.right[m] # Null => t.num_nodes[t.right[m]] = hi[t.right[m]] - lo[t.right[m]]
      PROVE  /\ t.num_nodes[m] = hi[m] - lo[m]
             /\ SizeOf(t, t.left[m]) = mid[m] - 1 - lo[m]
             /\ SizeOf(t, t.right[m]) = hi[m] - mid[m]
  <2>1. /\ lo[m] \in Nat /\ mid[m] \in Nat /\ hi[m] \in Nat
        /\ t.left[m] = Null => mid[m] = lo[m] + 1
        /\ t.left[m] # Null => lo[t.left[m]] = lo[m] /\ hi[t.left[m]] + 1 = mid[m]
        /\ t.left[m] # Null => t.left[m] \in InTree(t)
        /\ t.right[m] = Null => hi[m] = mid[m]
        /\ t.right[m] # Null => lo[t.right[m]] = mid[m] /\ hi[t.right[m]] = hi[m]
    BY SpansFacts
  <2>2. SizeOf(t, t.left[m]) = mid[m] - 1 - lo[m]
    <3>1. CASE t.left[m] = Null
      BY <2>1, <3>1 DEF SizeOf
    <3>2. CASE t.left[m] # Null
      <4>1. hi[t.left[m]] \in Nat
        BY <2>1, <3>2, SpansFacts
      <4>2. hi[t.left[m]] = mid[m] - 1
        BY <2>1, <3>2, <4>1
      <4> QED BY <1>2, <2>1, <3>2, <4>2 DEF SizeOf
    <3> QED BY <3>1, <3>2
  <2>3. SizeOf(t, t.right[m]) = hi[m] - mid[m]
    BY <1>2, <2>1 DEF SizeOf
  <2>4. t.num_nodes[m] = 1 + SizeOf(t, t.left[m]) + SizeOf(t, t.right[m])
    BY WholeFacts DEF Exact
  <2> QED BY <2>1, <2>2, <2>3, <2>4
<1>3. 0 \in S
  BY SpansFacts
<1>4. ASSUME NEW i \in S PROVE i + 1 \in S
  <2>1. ASSUME NEW m \in InTree(t), hi[m] - lo[m] < i + 1 PROVE t.num_nodes[m] = hi[m] - lo[m]
    <3>1. ASSUME t.left[m] # Null PROVE t.num_nodes[t.left[m]] = hi[t.left[m]] - lo[t.left[m]]
      <4>1. t.left[m] \in InTree(t) /\ hi[t.left[m]] - lo[t.left[m]] < i
        BY <2>1, <3>1, SpansFacts
      <4> QED BY <1>4, <4>1
    <3>2. ASSUME t.right[m] # Null PROVE t.num_nodes[t.right[m]] = hi[t.right[m]] - lo[t.right[m]]
      <4>1. t.right[m] \in InTree(t) /\ hi[t.right[m]] - lo[t.right[m]] < i
        BY <2>1, <3>2, SpansFacts
      <4> QED BY <1>4, <4>1
    <3> QED BY <1>2, <3>1, <3>2
  <2> QED BY <2>1
<1>. HIDE DEF S
<1>5. Nat \subseteq S
  BY <1>3, <1>4, EveryNatural
<1>6. ASSUME NEW m \in InTree(t) PROVE t.num_nodes[m] = hi[m] - lo[m]
  <2>1. PICK k \in Nat : k = hi[m] - lo[m]
    BY SpansFacts
  <2>2. k + 1 \in S /\ hi[m] - lo[m] < k + 1
    BY <1>5, <2>1
  <2> QED BY <2>2 DEF S
<1>7. /\ t.left[n] # Null => t.left[n] \in InTree(t)
      /\ t.right[n] # Null => t.right[n] \in InTree(t)
  BY SpansFacts
<1> QED BY <1>2, <1>6, <1>7

(* The places after a, up to b, that are among the first k.                *)
Within(k, a, b) == IF k <= a THEN 0 ELSE IF k >= b THEN b - a ELSE k - a

(* count_less adds up the places of the elements it passes on the right.   *)
LEMMA CountIsRank ==
  ASSUME NEW t, Whole(t), NEW row, NEW lo, NEW mid, NEW hi, NEW s, Stands(t, row, lo, mid, hi, s),
         NEW v, NEW with_equal, NEW k \in 0 .. t.size,
         \A i \in 1 .. t.size : v > s[i] \/ (with_equal /\ v = s[i]) <=> i <= k
  PROVE  CountLessIn(t, v, with_equal) = k
<1>. DEFINE D == InTree(t) \cup {Null}
            Passes(n) == v > t.value[n] \/ (with_equal /\ v = t.value[n])
            Counts(f) == f = [n \in D |-> IF n = Null THEN 0
                                         ELSE IF Passes(n)
                                              THEN 1 + SizeOf(t, t.left[n]) + f[t.right[n]]
                                              ELSE f[t.left[n]]]
<1>1. Spans(t, row, lo, mid, hi) /\ s = Listed(t, row)
  BY DEF Stands
<1>2. Null \notin InTree(t) /\ t.size \in Nat /\ t.root \in D
  BY WholeFacts DEF Linked
<1>3. ASSUME NEW n \in InTree(t) PROVE Passes(n) <=> mid[n] <= k
  <2>1. t.value[n] = s[mid[n]] /\ mid[n] \in 1 .. t.size
    BY <1>1, ListedFacts, SpansFacts
  <2> QED BY <2>1
<1>4. PICK g : g = [n \in D |-> IF n = Null THEN 0 ELSE Within(k, lo[n], hi[n])]
  OBVIOUS
<1>5. ASSUME NEW n \in InTree(t)
      PROVE  g[n] = IF Passes(n) THEN 1 + SizeOf(t, t.left[n]) + g[t.right[n]] ELSE g[t.left[n]]
  <2>1. /\ lo[n] \in Nat /\ mid[n] \in Nat /\ hi[n] \in Nat
        /\ lo[n] < mid[n] /\ mid[n] <= hi[n]
        /\ t.left[n] = Null => mid[n] = lo[n] + 1
        /\ t.left[n] # Null => /\ t.left[n] \in InTree(t)
                               /\ lo[t.left[n]] = lo[n] /\ hi[t.left[n]] + 1 = mid[n]
        /\ t.right[n] = Null => hi[n] = mid[n]
        /\ t.right[n] # Null => /\ t.right[n] \in InTree(t)
                                /\ lo[t.right[n]] = mid[n] /\ hi[t.right[n]] = hi[n]
    BY <1>1, SpansFacts
  <2>2. g[n] = Within(k, lo[n], hi[n])
    BY <1>2, <1>4
  <2>3. CASE Passes(n)
    <3>1. mid[n] <= k
      BY <1>3, <2>3
    <3>2. SizeOf(t, t.left[n]) = mid[n] - 1 - lo[n]
      BY <1>1, SizeIsRange
    <3>3. g[t.right[n]] = Within(k, mid[n], hi[n])
      <4>1. CASE t.right[n] = Null
        BY <1>4, <2>1, <3>1, <4>1 DEF Within
      <4>2. CASE t.right[n] # Null
        BY <1>2, <1>4, <2>1, <4>2
      <4> QED BY <4>1, <4>2
    <3>4. Within(k, lo[n], hi[n]) = 1 + (mid[n] - 1 - lo[n]) + Within(k, mid[n], hi[n])
      <4>1. PICK x \in Nat, y \in Nat, z \in Nat : x = lo[n] /\ y = mid[n] /\ z = hi[n]
        BY <2>1
      <4>2. k \in Nat /\ x < y /\ y <= z /\ y <= k
        BY <1>2, <2>1, <3>1, <4>1
      <4>3. Within(k, x, z) = IF k >= z THEN z - x ELSE k - x
        BY <4>2 DEF Within
      <4>4. Within(k, y, z) = IF k >= z THEN z - y ELSE k - y
        BY <4>2 DEF Within
      <4> QED BY <4>1, <4>2, <4>3, <4>4
    <3> QED BY <2>2, <2>3, <3>2, <3>3, <3>4
  <2>4. CASE ~ Passes(n)
    <3>1. ~ (mid[n] <= k)
      BY <1>3, <2>4
    <3>2. g[t.left[n]] = Within(k, lo[n], mid[n] - 1)
      <4>1. CASE t.left[n] = Null
        <5>1. mid[n] - 1 = lo[n] /\ g[t.left[n]] = 0
          BY <1>4, <2>1, <4>1
        <5> QED BY <2>1, <3>1, <5>1 DEF Within
      <4>2. CASE t.left[n] # Null
        <5>1. hi[t.left[n]] = mid[n] - 1
          BY <1>1, <2>1, <4>2, SpansFacts
        <5> QED BY <1>2, <1>4, <2>1, <4>2, <5>1
      <4> QED BY <4>1, <4>2
    <3>3. Within(k, lo[n], hi[n]) = Within(k, lo[n], mid[n] - 1)
      BY <2>1, <3>1 DEF Within
    <3> QED BY <2>2, <2>4, <3>2, <3>3
  <2> QED BY <2>3, <2>4
<1>6. Counts(g)
  BY <1>2, <1>4, <1>5
<1>7. PICK f : f = CHOOSE count : Counts(count)
  OBVIOUS
<1>8. Counts(f) /\ CountLessIn(t, v, with_equal) = f[t.root]
  <2>1. Counts(f)
    <3>. HIDE DEF Counts
    <3> QED BY <1>6, <1>7
  <2>2. CountLessIn(t, v, with_equal) = f[t.root]
    BY <1>7 DEF CountLessIn
  <2> QED BY <2>1, <2>2
<1>9. /\ f[Null] = 0
      /\ \A n \in InTree(t) :
           f[n] = IF Passes(n) THEN 1 + SizeOf(t, t.left[n]) + f[t.right[n]] ELSE f[t.left[n]]
  BY <1>2, <1>8
<1>. HIDE DEF Counts, Passes
<1>. DEFINE S == {i \in Nat : \A n \in InTree(t) : hi[n] - lo[n] < i => f[n] = g[n]}
<1>10. 0 \in S
  BY <1>1, SpansFacts
<1>11. ASSUME NEW i \in S PROVE i + 1 \in S
  <2>1. ASSUME NEW n \in InTree(t), hi[n] - lo[n] < i + 1 PROVE f[n] = g[n]
    <3>1. f[t.left[n]] = g[t.left[n]]
      <4>1. CASE t.left[n] = Null
        BY <1>4, <1>9, <4>1
      <4>2. CASE t.left[n] # Null
        <5>1. t.left[n] \in InTree(t) /\ hi[t.left[n]] - lo[t.left[n]] < i
          BY <1>1, <2>1, <4>2, SpansFacts
        <5> QED BY <1>11, <5>1
      <4> QED BY <4>1, <4>2
    <3>2. f[t.right[n]] = g[t.right[n]]
      <4>1. CASE t.right[n] = Null
        BY <1>4, <1>9, <4>1
      <4>2. CASE t.right[n] # Null
        <5>1. t.right[n] \in InTree(t) /\ hi[t.right[n]] - lo[t.right[n]] < i
          BY <1>1, <2>1, <4>2, SpansFacts
        <5> QED BY <1>11, <5>1
      <4> QED BY <4>1, <4>2
    <3> QED BY <1>5, <1>9, <3>1, <3>2
  <2> QED BY <2>1
<1>. HIDE DEF S
<1>12. Nat \subseteq S
  BY <1>10, <1>11, EveryNatural
<1>13. CASE t.root = Null
  <2>1. t.size = 0 /\ f[t.root] = 0
    BY <1>1, <1>9, <1>13 DEF Spans
  <2> QED BY <1>8, <2>1
<1>14. CASE t.root # Null
  <2>1. t.root \in InTree(t) /\ lo[t.root] = 0 /\ hi[t.root] = t.size
    BY <1>1, <1>2, <1>14 DEF Spans
  <2>2. t.size + 1 \in S /\ hi[t.root] - lo[t.root] < t.size + 1
    BY <1>2, <1>12, <2>1
  <2>3. f[t.root] = g[t.root]
    BY <2>1, <2>2 DEF S
  <2>4. g[t.root] = Within(k, 0, t.size)
    BY <1>2, <1>4, <2>1
  <2>5. Within(k, 0, t.size) = k
    BY <1>2 DEF Within
  <2> QED BY <1>8, <2>3, <2>4, <2>5
<1> QED BY <1>13, <1>14

(* operator[] comes down to the node that stands at the index: what it has *)
(* left of the index counts from where the range of the subtree starts.    *)
LEMMA AtIsListed ==
  ASSUME NEW t, Whole(t), NEW row, NEW lo, NEW mid, NEW hi, NEW s, Stands(t, row, lo, mid, hi, s),
         NEW index \in 0 .. t.size - 1
  PROVE  AtIn(t, index) = s[index + 1]
<1>. DEFINE D == InTree(t) \cup {Null}
            Down(i, n) == LET cur_index == SizeOf(t, t.left[n])
                          IN  CASE i < cur_index -> <<i, t.left[n]>>
                                [] i > cur_index -> <<i - (cur_index + 1), t.right[n]>>
                                [] i = cur_index -> <<i, n>>
<1>1. Spans(t, row, lo, mid, hi) /\ s = Listed(t, row)
  BY DEF Stands
<1>2. PICK N \in Nat : N = t.size
  BY WholeFacts
<1>3. /\ Null \notin InTree(t) /\ t.root \in InTree(t)
      /\ lo[t.root] = 0 /\ hi[t.root] = N /\ index \in Nat /\ index < N
  <2>1. Null \notin InTree(t) /\ t.root \in D
    BY WholeFacts DEF Linked
  <2>2. index \in Nat /\ index < N
    BY <1>2
  <2>3. t.root # Null
    BY <1>1, <1>2, <2>2 DEF Spans
  <2> QED BY <1>1, <1>2, <2>1, <2>2, <2>3 DEF Spans
<1>4. ASSUME NEW n \in InTree(t), NEW i \in Nat
      PROVE  \/ /\ lo[n] + i + 1 < mid[n] /\ Down(i, n) = <<i, t.left[n]>>
                /\ t.left[n] \in InTree(t) /\ t.left[n] # n
                /\ lo[t.left[n]] = lo[n] /\ hi[t.left[n]] = mid[n] - 1
             \/ /\ lo[n] + i + 1 > mid[n] /\ i - (mid[n] - lo[n]) \in Nat
                /\ i - (mid[n] - lo[n]) # i
                /\ Down(i, n) = <<i - (mid[n] - lo[n]), t.right[n]>>
                /\ t.right[n] = Null => hi[n] = mid[n]
                /\ t.right[n] # Null => /\ t.right[n] \in InTree(t)
                                        /\ lo[t.right[n]] = mid[n] /\ hi[t.right[n]] = hi[n]
             \/ lo[n] + i + 1 = mid[n] /\ Down(i, n) = <<i, n>>
  <2>1. /\ lo[n] \in Nat /\ mid[n] \in Nat /\ lo[n] < mid[n]
        /\ t.left[n] = Null => mid[n] = lo[n] + 1
        /\ t.left[n] # Null => /\ t.left[n] \in InTree(t)
                               /\ lo[t.left[n]] = lo[n] /\ hi[t.left[n]] + 1 = mid[n]
        /\ t.right[n] = Null => hi[n] = mid[n]
        /\ t.right[n] # Null => /\ t.right[n] \in InTree(t)
                                /\ lo[t.right[n]] = mid[n] /\ hi[t.right[n]] = hi[n]
    BY <1>1, SpansFacts
  <2>2. PICK c \in Nat : c = SizeOf(t, t.left[n]) /\ c = mid[n] - 1 - lo[n]
    <3>1. SizeOf(t, t.left[n]) = mid[n] - 1 - lo[n]
      BY <1>1, SizeIsRange
    <3> QED BY <2>1, <3>1
  <2>3. t.left[n] # n
    BY WholeFacts, LinkedFacts
  <2>4. CASE i < c
    <3>1. Down(i, n) = <<i, t.left[n]>>
      BY <2>2, <2>4
    <3>2. t.left[n] # Null
      BY <2>1, <2>2, <2>4
    <3>3. hi[t.left[n]] = mid[n] - 1
      <4>1. hi[t.left[n]] \in Nat
        BY <1>1, <2>1, <3>2, SpansFacts
      <4> QED BY <2>1, <3>2, <4>1
    <3> QED BY <2>1, <2>2, <2>3, <2>4, <3>1, <3>2, <3>3
  <2>5. CASE i > c
    <3>1. Down(i, n) = <<i - (c + 1), t.right[n]>>
      BY <2>2, <2>5
    <3>2. c + 1 = mid[n] - lo[n] /\ i - (c + 1) \in Nat /\ i - (c + 1) # i
      BY <2>1, <2>2, <2>5
    <3>3. lo[n] + i + 1 > mid[n]
      BY <2>1, <2>2, <2>5
    <3> QED BY <2>1, <3>1, <3>2, <3>3
  <2>6. CASE i = c
    <3>1. Down(i, n) = <<i, n>>
      BY <2>2, <2>6
    <3>2. lo[n] + i + 1 = mid[n]
      BY <2>1, <2>2, <2>6
    <3> QED BY <3>1, <3>2
  <2>7. i < c \/ i > c \/ i = c
    OBVIOUS
  <2> QED BY <2>4, <2>5, <2>6, <2>7
<1>5. PICK next : next = [at \in Nat \X D |-> IF at[2] = Null THEN at ELSE Down(at[1], at[2])]
  OBVIOUS
<1>6. AtIn(t, index) = t.value[Chase(next, <<index, t.root>>)[2]]
  <2>1. ~ (index < 0 \/ index >= t.size)
    BY <1>2, <1>3
  <2> QED BY <1>5, <2>1 DEF AtIn
<1>7. PICK E : E = Nat \X D
  OBVIOUS
<1>8. next = [at \in E |-> IF at[2] = Null THEN at ELSE Down(at[1], at[2])]
  BY <1>5, <1>7
<1>. HIDE DEF Down
<1>9. PICK rank : rank = [x \in E |-> IF x[2] = Null THEN 0 ELSE hi[x[2]] - lo[x[2]]]
  OBVIOUS
<1>10. PICK P : P = {x \in E : x[2] # Null /\ lo[x[2]] + x[1] = index /\ index < hi[x[2]]}
  OBVIOUS
<1>11. ASSUME NEW x \in E
       PROVE  /\ next[x] \in E /\ rank[x] \in 0 .. N
              /\ next[x] = x \/ rank[next[x]] < rank[x]
              /\ x \in P => next[x] \in P
              /\ x \in P /\ next[x] = x => mid[x[2]] = index + 1
  <2>1. PICK i \in Nat, n \in D : x = <<i, n>>
    BY <1>7
  <2>2. CASE n = Null
    <3>1. next[x] = x /\ rank[x] = 0 /\ x \notin P
      BY <1>8, <1>9, <1>10, <2>1, <2>2
    <3> QED BY <3>1
  <2>3. CASE n # Null
    <3>1. n \in InTree(t) /\ next[x] = Down(i, n) /\ rank[x] = hi[n] - lo[n]
      BY <1>8, <1>9, <2>1, <2>3
    <3>2. /\ lo[n] \in Nat /\ mid[n] \in Nat /\ hi[n] \in Nat
          /\ lo[n] < mid[n] /\ mid[n] <= hi[n] /\ hi[n] <= N
      BY <1>1, <1>2, <3>1, SpansFacts
    <3>3. x \in P <=> lo[n] + i = index /\ index < hi[n]
      BY <1>10, <2>1, <2>3
    <3>4. CASE /\ lo[n] + i + 1 < mid[n] /\ Down(i, n) = <<i, t.left[n]>>
               /\ t.left[n] \in InTree(t) /\ t.left[n] # n
               /\ lo[t.left[n]] = lo[n] /\ hi[t.left[n]] = mid[n] - 1
      <4>1. PICK m \in InTree(t) : m = t.left[n] /\ m # Null
        BY <1>3, <3>4
      <4>2. next[x] = <<i, m>> /\ next[x] \in E /\ next[x] # x
        BY <1>7, <2>1, <3>1, <3>4, <4>1
      <4>3. rank[next[x]] = hi[m] - lo[m]
        BY <1>9, <4>1, <4>2
      <4>4. next[x] \in P <=> lo[m] + i = index /\ index < hi[m]
        BY <1>10, <4>1, <4>2
      <4> QED BY <3>1, <3>2, <3>3, <3>4, <4>1, <4>2, <4>3, <4>4
    <3>5. CASE /\ lo[n] + i + 1 > mid[n] /\ i - (mid[n] - lo[n]) \in Nat
               /\ i - (mid[n] - lo[n]) # i
               /\ Down(i, n) = <<i - (mid[n] - lo[n]), t.right[n]>>
               /\ t.right[n] = Null => hi[n] = mid[n]
               /\ t.right[n] # Null => /\ t.right[n] \in InTree(t)
                                       /\ lo[t.right[n]] = mid[n] /\ hi[t.right[n]] = hi[n]
      <4>1. PICK j \in Nat : j = i - (mid[n] - lo[n]) /\ j # i
        BY <3>5
      <4>2. PICK m \in D : m = t.right[n] /\ next[x] = <<j, m>>
        BY <3>1, <3>5, <4>1
      <4>3. next[x] \in E /\ next[x] # x
        BY <1>7, <2>1, <4>1, <4>2
      <4>4. CASE m = Null
        <5>1. rank[next[x]] = 0 /\ x \notin P
          BY <1>3, <1>9, <3>2, <3>3, <3>5, <4>2, <4>3, <4>4
        <5> QED BY <3>1, <3>2, <4>3, <5>1
      <4>5. CASE m # Null
        <5>1. rank[next[x]] = hi[m] - lo[m] /\ lo[m] = mid[n] /\ hi[m] = hi[n]
          BY <1>9, <3>5, <4>2, <4>3, <4>5
        <5>2. next[x] \in P <=> lo[m] + j = index /\ index < hi[m]
          BY <1>10, <4>2, <4>3, <4>5
        <5> QED BY <3>1, <3>2, <3>3, <4>1, <4>3, <5>1, <5>2
      <4> QED BY <4>4, <4>5
    <3>6. CASE lo[n] + i + 1 = mid[n] /\ Down(i, n) = <<i, n>>
      <4>1. next[x] = x /\ x[2] = n
        BY <2>1, <3>1, <3>6
      <4> QED BY <3>1, <3>2, <3>3, <3>6, <4>1
    <3> QED BY <1>4, <3>1, <3>4, <3>5, <3>6
  <2> QED BY <2>2, <2>3
<1>12. next \in [E -> E] /\ rank \in [E -> 0 .. N]
  BY <1>8, <1>9, <1>11
<1>13. P \in SUBSET E /\ <<index, t.root>> \in P
  BY <1>7, <1>3, <1>10
<1>14. PICK x : x = Chase(next, <<index, t.root>>)
  OBVIOUS
<1>15. x \in P /\ next[x] = x
  BY <1>11, <1>12, <1>13, <1>14, ChaseKeeps
<1>16. x \in E /\ mid[x[2]] = index + 1
  BY <1>11, <1>13, <1>15
<1>17. x[2] \in InTree(t)
  BY <1>7, <1>10, <1>15
<1>18. t.value[x[2]] = s[mid[x[2]]]
  BY <1>1, <1>17, ListedFacts
<1> QED BY <1>6, <1>14, <1>16, <1>18

(* A set of places that has with a place all those before it is the first  *)
(* k places.                                                               *)
LEMMA FirstPlaces ==
  ASSUME NEW N \in Nat, NEW T, \A i, j \in 1 .. N : i <= j /\ j \in T => i \in T
  PROVE  \E k \in 0 .. N : \A i \in 1 .. N : i \in T <=> i <= k
<1>. DEFINE S == {n \in Nat : n <= N => \E k \in 0 .. n : \A i \in 1 .. n : i \in T <=> i <= k}
<1>1. 0 \in S
  OBVIOUS
<1>2. ASSUME NEW n \in S PROVE n + 1 \in S
  <2>1. CASE n + 1 <= N /\ n + 1 \in T
    <3>1. \A i \in 1 .. n + 1 : i \in T <=> i <= n + 1
      BY <2>1
    <3>2. n + 1 \in 0 .. n + 1
      OBVIOUS
    <3> QED BY <3>1, <3>2
  <2>2. CASE n + 1 <= N /\ n + 1 \notin T
    <3>1. PICK k \in 0 .. n : \A i \in 1 .. n : i \in T <=> i <= k
      BY <1>2, <2>2
    <3>2. ASSUME NEW i \in 1 .. n + 1 PROVE i \in T <=> i <= k
      <4>1. CASE i \in 1 .. n
        BY <3>1, <4>1
      <4>2. CASE i = n + 1
        BY <2>2, <4>2
      <4>3. i \in 1 .. n \/ i = n + 1
        OBVIOUS
      <4> QED BY <4>1, <4>2, <4>3
    <3>3. k \in 0 .. n + 1
      OBVIOUS
    <3> QED BY <3>2, <3>3
  <2>3. CASE ~ (n + 1 <= N)
    BY <2>3
  <2> QED BY <2>1, <2>2, <2>3
<1>. HIDE DEF S
<1>3. N \in S
  BY <1>1, <1>2, EveryNatural
<1> QED BY <1>3 DEF S

(* Counting places.                                                        *)
LEMMA PlacesCounted ==
  ASSUME NEW N \in Nat, NEW k \in 0 .. N
  PROVE  Cardinality(1 .. k) = k /\ Cardinality(k + 1 .. N) = N - k
<1>1. Cardinality(1 .. k) = IF 1 > k THEN 0 ELSE k - 1 + 1
  BY FS_Interval
<1>2. Cardinality(k + 1 .. N) = IF k + 1 > N THEN 0 ELSE N - (k + 1) + 1
  BY FS_Interval
<1> QED BY <1>1, <1>2

(* The ranks of a value in an ascending sequence.                          *)
LEMMA RanksExist ==
  ASSUME NEW N \in Nat, NEW s \in [1 .. N -> Int], Ascending(s), NEW v \in Int
  PROVE  /\ \E k \in 0 .. N : \A i \in 1 .. N : s[i] < v <=> i <= k
         /\ \E k \in 0 .. N : \A i \in 1 .. N : s[i] <= v <=> i <= k
<1>1. \A i, j \in 1 .. N : i <= j => s[i] <= s[j]
  BY DEF Ascending
<1>2. PICK T, U : T = {i \in 1 .. N : s[i] < v} /\ U = {i \in 1 .. N : s[i] <= v}
  OBVIOUS
<1>3. \A i, j \in 1 .. N : i <= j /\ j \in T => i \in T
  BY <1>1, <1>2
<1>4. \A i, j \in 1 .. N : i <= j /\ j \in U => i \in U
  BY <1>1, <1>2
<1>5. \E k \in 0 .. N : \A i \in 1 .. N : i \in T <=> i <= k
  BY <1>3, FirstPlaces
<1>6. \E k \in 0 .. N : \A i \in 1 .. N : i \in U <=> i <= k
  BY <1>4, FirstPlaces
<1> QED BY <1>2, <1>5, <1>6

(* Both counts are those of the elements.                                  *)
LEMMA CountsExact ==
  ASSUME BagInv, NEW v \in Value
  PROVE  /\ CountLess(v, FALSE) = NrWhere(LAMBDA x : x < v)
         /\ CountLess(v, TRUE) = NrWhere(LAMBDA x : x <= v)
         /\ CountGreater(v, FALSE) = NrWhere(LAMBDA x : x > v)
         /\ CountGreater(v, TRUE) = NrWhere(LAMBDA x : x >= v)
<1>1. Whole(tree) /\ InOrder(tree, Elements) /\ v \in Int
  BY ValueAssumption DEF BagInv, TreeInv
<1>2. PICK s, N : s = Elements /\ N = tree.size
  OBVIOUS
<1>3. PICK row, lo, mid, hi : Stands(tree, row, lo, mid, hi, s)
  BY <1>1, <1>2, InOrderIsElements
<1>4. N \in Nat /\ s \in [1 .. N -> Int] /\ DOMAIN s = 1 .. N /\ Ascending(s)
  <2>1. HasElements(s, N)
    BY <1>1, <1>2, InOrderIsElements
  <2> QED BY <1>3, <2>1, ValueAssumption DEF HasElements, Stands
<1>5. PICK k \in 0 .. N : \A i \in 1 .. N : s[i] < v <=> i <= k
  BY <1>1, <1>4, RanksExist
<1>6. PICK l \in 0 .. N : \A i \in 1 .. N : s[i] <= v <=> i <= l
  BY <1>1, <1>4, RanksExist
<1>7. CountLess(v, FALSE) = k
  <2>1. PICK with_equal : with_equal = FALSE
    OBVIOUS
  <2>2. \A i \in 1 .. N : v > s[i] \/ (with_equal /\ v = s[i]) <=> i <= k
    BY <1>1, <1>4, <1>5, <2>1
  <2>3. CountLessIn(tree, v, with_equal) = k
    BY <1>1, <1>2, <1>3, <2>2, CountIsRank
  <2> QED BY <2>1, <2>3 DEF CountLess
<1>8. CountLess(v, TRUE) = l
  <2>1. PICK with_equal : with_equal = TRUE
    OBVIOUS
  <2>2. \A i \in 1 .. N : v > s[i] \/ (with_equal /\ v = s[i]) <=> i <= l
    BY <1>1, <1>4, <1>6, <2>1
  <2>3. CountLessIn(tree, v, with_equal) = l
    BY <1>1, <1>2, <1>3, <2>2, CountIsRank
  <2> QED BY <2>1, <2>3 DEF CountLess
<1>9. CountGreater(v, FALSE) = N - l /\ CountGreater(v, TRUE) = N - k
  <2>1. (~ FALSE) = TRUE /\ (~ TRUE) = FALSE
    OBVIOUS
  <2> QED BY <1>2, <1>7, <1>8, <2>1 DEF CountGreater
<1>10. /\ {i \in DOMAIN s : s[i] < v} = 1 .. k
       /\ {i \in DOMAIN s : s[i] <= v} = 1 .. l
       /\ {i \in DOMAIN s : s[i] > v} = l + 1 .. N
       /\ {i \in DOMAIN s : s[i] >= v} = k + 1 .. N
  <2>1. {i \in DOMAIN s : s[i] < v} = 1 .. k
    BY <1>4, <1>5
  <2>2. {i \in DOMAIN s : s[i] <= v} = 1 .. l
    BY <1>4, <1>6
  <2>3. {i \in DOMAIN s : s[i] > v} = l + 1 .. N
    <3>1. \A i \in 1 .. N : s[i] > v <=> ~ (i <= l)
      BY <1>1, <1>4, <1>6
    <3> QED BY <1>4, <3>1
  <2>4. {i \in DOMAIN s : s[i] >= v} = k + 1 .. N
    <3>1. \A i \in 1 .. N : s[i] >= v <=> ~ (i <= k)
      BY <1>1, <1>4, <1>5
    <3> QED BY <1>4, <3>1
  <2> QED BY <2>1, <2>2, <2>3, <2>4
<1>11. /\ Cardinality({i \in DOMAIN s : s[i] < v}) = k
       /\ Cardinality({i \in DOMAIN s : s[i] <= v}) = l
       /\ Cardinality({i \in DOMAIN s : s[i] > v}) = N - l
       /\ Cardinality({i \in DOMAIN s : s[i] >= v}) = N - k
  BY <1>4, <1>10, PlacesCounted
<1> QED BY <1>2, <1>7, <1>8, <1>9, <1>11 DEF NrWhere

(* Elements by index, and the extremes.                                    *)
LEMMA AtsExact ==
  ASSUME BagInv
  PROVE  /\ \A i \in -1 .. tree.size :
              At(i) = IF i + 1 \in DOMAIN Elements THEN Elements[i + 1] ELSE Throws
         /\ MinElement = At(0) /\ MaxElement = At(tree.size - 1)
<1>1. Whole(tree) /\ InOrder(tree, Elements)
  BY DEF BagInv, TreeInv
<1>2. PICK s, N : s = Elements /\ N = tree.size
  OBVIOUS
<1>3. PICK row, lo, mid, hi : Stands(tree, row, lo, mid, hi, s)
  BY <1>1, <1>2, InOrderIsElements
<1>4. Spans(tree, row, lo, mid, hi) /\ s = Listed(tree, row)
  BY <1>3 DEF Stands
<1>5. N \in Nat /\ DOMAIN s = 1 .. N
  <2>1. HasElements(s, N)
    BY <1>1, <1>2, InOrderIsElements
  <2> QED BY <2>1 DEF HasElements
<1>6. ASSUME NEW i \in 0 .. N - 1 PROVE At(i) = s[i + 1]
  BY <1>1, <1>2, <1>3, AtIsListed DEF At
<1>7. ASSUME NEW i \in -1 .. N
      PROVE  At(i) = IF i + 1 \in DOMAIN Elements THEN Elements[i + 1] ELSE Throws
  <2>1. CASE i \in 0 .. N - 1
    <3>1. i + 1 \in 1 .. N
      BY <1>5, <2>1
    <3> QED BY <1>2, <1>5, <1>6, <2>1, <3>1
  <2>2. CASE i \notin 0 .. N - 1
    <3>1. i + 1 \notin 1 .. N /\ (i < 0 \/ i >= N)
      BY <1>5, <2>2
    <3>2. At(i) = Throws
      BY <1>2, <3>1 DEF At, AtIn
    <3> QED BY <1>2, <1>5, <3>1, <3>2
  <2> QED BY <2>1, <2>2
<1>8. CASE N = 0
  <2>1. At(0) = Throws /\ At(N - 1) = Throws
    BY <1>2, <1>8 DEF At, AtIn
  <2>2. MinElement = Throws /\ MaxElement = Throws
    BY <1>2, <1>8 DEF MinElement, MaxElement
  <2> QED BY <1>2, <1>7, <2>1, <2>2
<1>9. CASE N # 0
  <2>1. tree.root \in InTree(tree) /\ lo[tree.root] = 0 /\ hi[tree.root] = N
    <3>1. tree.root \in InTree(tree) \cup {Null}
      BY <1>1, WholeFacts DEF Linked
    <3> QED BY <1>2, <1>4, <1>9, <3>1 DEF Spans
  <2>2. PICK m \in InTree(tree), x \in InTree(tree) :
          /\ m = LeftMost(tree, tree.root) /\ mid[m] = 1
          /\ x = RightMost(tree, tree.root) /\ mid[x] = N
    <3>1. LeftMost(tree, tree.root) \in InTree(tree) /\ mid[LeftMost(tree, tree.root)] = 0 + 1
      BY <1>1, <1>4, <2>1, LeftMostStands
    <3>2. RightMost(tree, tree.root) \in InTree(tree) /\ mid[RightMost(tree, tree.root)] = N
      BY <1>1, <1>4, <2>1, RightMostStands
    <3> QED BY <3>1, <3>2
  <2>3. tree.value[m] = s[1] /\ tree.value[x] = s[N]
    BY <1>1, <1>4, <2>2, ListedFacts
  <2>4. At(0) = s[1] /\ At(N - 1) = s[N]
    <3>1. 0 \in 0 .. N - 1 /\ N - 1 \in 0 .. N - 1 /\ 0 + 1 = 1 /\ N - 1 + 1 = N
      BY <1>5, <1>9
    <3> QED BY <1>6, <3>1
  <2>5. MinElement = s[1] /\ MaxElement = s[N]
    BY <1>2, <1>9, <2>2, <2>3 DEF MinElement, MaxElement
  <2> QED BY <1>2, <1>7, <2>4, <2>5
<1> QED BY <1>8, <1>9

(* The indices of get_percentile: exact_index has q * left_index + part of *)
(* its q-ths, and is at most the last index.                               *)
LEMMA PercentileIndex ==
  ASSUME NEW n \in Nat, n # 0, NEW p \in Int, NEW q \in Nat, q # 0, 0 <= p, p <= q
  PROVE  \E l \in 0 .. n - 1, r \in 0 .. q - 1 :
           /\ l = ((n - 1) * p) \div q /\ r = ((n - 1) * p) % q
           /\ (n - 1) * p = q * l + r
           /\ r # 0 => l + 1 \in 0 .. n - 1
<1>1. PICK a : a = (n - 1) * p
  OBVIOUS
<1>2. a \in Nat /\ a <= (n - 1) * q
  BY <1>1
<1>3. PICK l, r : l = a \div q /\ r = a % q
  OBVIOUS
<1>4. l \in Int /\ r \in 0 .. q - 1 /\ a = q * l + r
  BY <1>2, <1>3
<1>5. l >= 0
  <2>1. q * (l + 1) > 0
    BY <1>2, <1>4
  <2> QED BY <1>4, <2>1
<1>6. l <= n - 1
  <2>1. q * l <= q * (n - 1)
    BY <1>2, <1>4
  <2> QED BY <1>4, <2>1
<1>7. r # 0 => l < n - 1
  <2>. SUFFICES ASSUME r # 0 PROVE l < n - 1
    OBVIOUS
  <2>1. q * l < q * (n - 1)
    BY <1>2, <1>4
  <2> QED BY <1>4, <2>1
<1> QED BY <1>1, <1>3, <1>4, <1>5, <1>6, <1>7

(* Multiplying by a natural number keeps the order.                        *)
LEMMA TimesKeeps ==
  ASSUME NEW a \in Int, NEW b \in Int, NEW c \in Nat, a <= b
  PROVE  c * a <= c * b /\ a * c <= b * c
<1>1. c * (b - a) >= 0
  OBVIOUS
<1>2. c * (b - a) = c * b - c * a
  OBVIOUS
<1>3. c * a \in Int /\ c * b \in Int /\ a * c = c * a /\ b * c = c * b
  OBVIOUS
<1> QED BY <1>1, <1>2, <1>3

(* The value lies between those of the two indices.                        *)
LEMMA ValueBetween ==
  ASSUME NEW u \in Int, NEW v \in Int, u <= v, NEW q \in Nat, NEW r \in Nat, r <= q
  PROVE  /\ q * u + r * (v - u) \in Int
         /\ q * u <= q * u + r * (v - u) /\ q * u + r * (v - u) <= q * v
<1>1. PICK w \in Nat : w = v - u
  OBVIOUS
<1>2. 0 <= r * w /\ r * w <= q * w /\ r * w \in Int /\ q * w \in Int
  BY TimesKeeps
<1>3. PICK i \in Int, j \in Int, k \in Int : i = q * u /\ j = r * w /\ k = q * w
  BY <1>2
<1>4. q * v = i + k
  <2>1. v = u + w
    BY <1>1
  <2>2. q * (u + w) = q * u + q * w
    OBVIOUS
  <2> QED BY <1>3, <2>1, <2>2
<1>5. 0 <= j /\ j <= k
  BY <1>2, <1>3
<1> QED BY <1>1, <1>3, <1>4, <1>5

(* So at least the first l + 1 elements are up to it, and those from the   *)
(* right index on are not below it.                                        *)
LEMMA ElementsEitherSide ==
  ASSUME NEW n \in Nat, NEW s \in [1 .. n -> Int], Ascending(s), NEW q \in Nat, NEW x \in Int,
         NEW l \in 0 .. n - 1, q * s[l + 1] <= x, NEW m \in 0 .. n - 1, x <= q * s[m + 1]
  PROVE  /\ Cardinality({i \in 1 .. n : q * s[i] <= x}) \in Nat
         /\ Cardinality({i \in 1 .. n : q * s[i] <= x}) >= l + 1
         /\ Cardinality({i \in 1 .. n : q * s[i] >= x}) \in Nat
         /\ Cardinality({i \in 1 .. n : q * s[i] >= x}) >= n - m
<1>1. l + 1 \in 1 .. n /\ m + 1 \in 1 .. n
  OBVIOUS
<1>2. PICK u \in Int, v \in Int : u = s[l + 1] /\ v = s[m + 1]
  BY <1>1
<1>3. q * u <= x /\ x <= q * v /\ q * u \in Int /\ q * v \in Int
  BY <1>2
<1>4. \A i, j \in 1 .. n : i <= j => s[i] <= s[j]
  BY DEF Ascending
<1>5. PICK Low, High : /\ Low = {i \in 1 .. n : q * s[i] <= x}
                       /\ High = {i \in 1 .. n : q * s[i] >= x}
  OBVIOUS
<1>6. ASSUME NEW i \in 1 .. l + 1 PROVE i \in Low
  <2>1. i \in 1 .. n /\ i <= l + 1
    OBVIOUS
  <2>2. PICK y \in Int : y = s[i]
    BY <2>1
  <2>3. y <= u
    BY <1>1, <1>2, <1>4, <2>1, <2>2
  <2>4. q * y <= q * u /\ q * y \in Int
    BY <2>3, TimesKeeps
  <2>5. q * y <= x
    <3>1. PICK i1 \in Int, j1 \in Int : i1 = q * u /\ j1 = q * y
      BY <1>3, <2>4
    <3>2. j1 <= i1
      BY <2>4, <3>1
    <3>3. i1 <= x
      BY <1>3, <3>1
    <3>4. j1 <= x
      BY <3>2, <3>3
    <3> QED BY <3>1, <3>4
  <2> QED BY <1>5, <2>1, <2>2, <2>5
<1>7. ASSUME NEW i \in m + 1 .. n PROVE i \in High
  <2>1. i \in 1 .. n /\ m + 1 <= i
    OBVIOUS
  <2>2. PICK y \in Int : y = s[i]
    BY <2>1
  <2>3. v <= y
    BY <1>1, <1>2, <1>4, <2>1, <2>2
  <2>4. q * v <= q * y /\ q * y \in Int
    BY <2>3, TimesKeeps
  <2>5. PICK i1 \in Int, j1 \in Int : i1 = q * v /\ j1 = q * y
    BY <1>3, <2>4
  <2>6. i1 <= j1
    BY <2>4, <2>5
  <2>7. x <= i1
    BY <1>3, <2>5
  <2>8. j1 >= x
    BY <2>6, <2>7
  <2> QED BY <1>5, <2>1, <2>2, <2>5, <2>8
<1>8. IsFiniteSet(Low) /\ IsFiniteSet(High)
  <2>1. IsFiniteSet(1 .. n)
    BY FS_Interval
  <2>2. Low \in SUBSET (1 .. n) /\ High \in SUBSET (1 .. n)
    BY <1>5
  <2> QED BY <2>1, <2>2, FS_Subset
<1>9. PICK c \in Nat, d \in Nat : c = Cardinality(Low) /\ d = Cardinality(High)
  BY <1>8, FS_CardinalityType
<1>10. c >= l + 1
  <2>1. 1 .. l + 1 \in SUBSET Low
    BY <1>6
  <2>2. Cardinality(1 .. l + 1) <= c
    BY <1>8, <1>9, <2>1, FS_Subset
  <2>3. Cardinality(1 .. l + 1) = l + 1
    <3>1. l + 1 \in 0 .. n
      OBVIOUS
    <3> QED BY <3>1, PlacesCounted
  <2> QED BY <2>2, <2>3
<1>11. d >= n - m
  <2>1. m + 1 .. n \in SUBSET High
    BY <1>7
  <2>2. Cardinality(m + 1 .. n) <= d
    BY <1>8, <1>9, <2>1, FS_Subset
  <2>3. Cardinality(m + 1 .. n) = n - m
    <3>1. m \in 0 .. n
      OBVIOUS
    <3> QED BY <3>1, PlacesCounted
  <2> QED BY <2>2, <2>3
<1> QED BY <1>5, <1>9, <1>10, <1>11

(* Which are more than the shares that the percentile asks for.            *)
LEMMA SharesExceeded ==
  ASSUME NEW n \in Nat, NEW p \in Int, NEW q \in Nat, q # 0, NEW l \in Nat, NEW r \in Nat,
         (n - 1) * p = q * l + r, r < q,
         NEW m \in Nat, r = 0 => m = l, r # 0 => m = l + 1,
         NEW c \in Nat, c >= l + 1, NEW d \in Nat, d >= n - m
  PROVE  c * q > (n - 1) * p /\ d * q > (n - 1) * (q - p)
<1>1. PICK i \in Int, j \in Int, k \in Int : i = q * l /\ j = q * n /\ k = (n - 1) * p
  OBVIOUS
<1>2. k = i + r
  BY <1>1
<1>3. (n - 1) * (q - p) = j - q - k
  <2>1. (n - 1) * (q - p) = q * n - q - (n - 1) * p
    OBVIOUS
  <2> QED BY <1>1, <2>1
<1>4. c * q >= i + q /\ c * q \in Int
  <2>1. (l + 1) * q <= c * q
    BY TimesKeeps
  <2>2. (l + 1) * q = q * l + q
    OBVIOUS
  <2> QED BY <1>1, <2>1, <2>2
<1>5. d * q >= j - q * m /\ d * q \in Int
  <2>1. (n - m) * q <= d * q
    BY TimesKeeps
  <2>2. (n - m) * q = q * n - q * m
    OBVIOUS
  <2> QED BY <1>1, <2>1, <2>2
<1>6. r = 0 => q * m = i
  BY <1>1
<1>7. r # 0 => q * m = i + q
  <2>1. q * (l + 1) = q * l + q
    OBVIOUS
  <2> QED BY <1>1, <2>1
<1>8. c * q > k
  BY <1>2, <1>4
<1>9. d * q > j - q - k
  <2>1. CASE r = 0
    BY <1>2, <1>5, <1>6, <2>1
  <2>2. CASE r # 0
    BY <1>2, <1>5, <1>7, <2>2
  <2> QED BY <2>1, <2>2
<1> QED BY <1>1, <1>3, <1>8, <1>9

(* The right answer for the percentile p / q: what the vector of elements  *)
(* gives, with its share of the elements on either side.                   *)
PercentileIsRight(p, q) ==
  LET x == Percentile(p, q)
  IN  /\ x = LatencyPercentile(Elements, p, q)
      /\ NrWhere(LAMBDA y : q * y <= x) * q > (tree.size - 1) * p
      /\ NrWhere(LAMBDA y : q * y >= x) * q > (tree.size - 1) * (q - p)

(* get_percentile finds both neighbours in the tree, and computes what     *)
(* get_latency_percentile does over the elements.                          *)
LEMMA PercentileExact ==
  ASSUME BagInv, tree.size # 0, NEW p \in Int, NEW q \in Nat, q # 0, 0 <= p, p <= q
  PROVE  PercentileIsRight(p, q)
<1>1. PICK x : x = Percentile(p, q)
  OBVIOUS
<1>2. Whole(tree) /\ InOrder(tree, Elements)
  BY DEF BagInv, TreeInv
<1>3. PICK s, n : s = Elements /\ n = tree.size
  OBVIOUS
<1>4. /\ n \in Nat /\ n # 0 /\ s \in [1 .. n -> Int] /\ DOMAIN s = 1 .. n /\ Len(s) = n
      /\ s # <<>> /\ Ascending(s)
  <2>1. HasElements(s, n) /\ Len(s) = n
    BY <1>2, <1>3, InOrderIsElements
  <2>2. n \in Nat /\ s \in [1 .. n -> Int] /\ DOMAIN s = 1 .. n
    BY <2>1, ValueAssumption DEF HasElements
  <2>3. Ascending(s)
    BY <1>2, <1>3 DEF InOrder
  <2> QED BY <1>3, <2>1, <2>2, <2>3
<1>5. ASSUME NEW i \in 0 .. n - 1 PROVE At(i) = s[i + 1]
  <2>1. i \in -1 .. n /\ i + 1 \in 1 .. n
    BY <1>4
  <2> QED BY <1>3, <1>4, <2>1, AtsExact
<1>6. PICK l \in 0 .. n - 1, r \in 0 .. q - 1 :
        /\ l = ((n - 1) * p) \div q /\ r = ((n - 1) * p) % q
        /\ (n - 1) * p = q * l + r
        /\ r # 0 => l + 1 \in 0 .. n - 1
  BY <1>4, PercentileIndex
<1>7. PICK m \in 0 .. n - 1 : m = IF r = 0 THEN l ELSE l + 1
  BY <1>4, <1>6
<1>8. x = q * At(l) + r * (At(m) - At(l))
  <2>1. ~ (tree.size = 0 \/ p < 0 \/ p > q)
    OBVIOUS
  <2> QED BY <1>1, <1>3, <1>6, <1>7, <2>1 DEF Percentile, Interpolate
<1>9. LatencyPercentile(s, p, q) = q * s[l + 1] + r * (s[m + 1] - s[l + 1])
  BY <1>4, <1>6, <1>7 DEF LatencyPercentile, Interpolate
<1>10. x = q * s[l + 1] + r * (s[m + 1] - s[l + 1])
  BY <1>5, <1>8
<1>11. x \in Int /\ q * s[l + 1] <= x /\ x <= q * s[m + 1]
  <2>1. l + 1 \in 1 .. n /\ m + 1 \in 1 .. n /\ l + 1 <= m + 1
    BY <1>4, <1>7
  <2>2. PICK u \in Int, v \in Int : u = s[l + 1] /\ v = s[m + 1] /\ u <= v
    BY <1>4, <2>1 DEF Ascending
  <2>3. /\ q * u + r * (v - u) \in Int
        /\ q * u <= q * u + r * (v - u) /\ q * u + r * (v - u) <= q * v
    <3>1. r \in Nat /\ r <= q
      OBVIOUS
    <3> QED BY <2>2, <3>1, ValueBetween
  <2> QED BY <1>10, <2>2, <2>3
<1>12. PICK c \in Nat, d \in Nat :
         /\ c = Cardinality({i \in 1 .. n : q * s[i] <= x}) /\ c >= l + 1
         /\ d = Cardinality({i \in 1 .. n : q * s[i] >= x}) /\ d >= n - m
  BY <1>4, <1>11, ElementsEitherSide
<1>13. c * q > (n - 1) * p /\ d * q > (n - 1) * (q - p)
  <2>1. l \in Nat /\ r \in Nat /\ r < q /\ m \in Nat /\ (n - 1) * p = q * l + r
    BY <1>6
  <2>2. (r = 0 => m = l) /\ (r # 0 => m = l + 1)
    BY <1>7
  <2> QED BY <1>4, <1>12, <2>1, <2>2, SharesExceeded
<1>14. /\ NrWhere(LAMBDA y : q * y <= x) = c
       /\ NrWhere(LAMBDA y : q * y >= x) = d
  BY <1>3, <1>4, <1>12 DEF NrWhere
<1>15. /\ x = LatencyPercentile(Elements, p, q)
       /\ NrWhere(LAMBDA y : q * y <= x) * q > (tree.size - 1) * p
       /\ NrWhere(LAMBDA y : q * y >= x) * q > (tree.size - 1) * (q - p)
  BY <1>3, <1>9, <1>10, <1>13, <1>14
<1> QED BY <1>1, <1>15 DEF PercentileIsRight

(* What the calls answer from the shape of the tree is what its elements   *)
(* say: ranks, extremes, elements by index and percentiles.                *)
THEOREM TreeQueriesExact == Spec => []QueriesExact
<1>1. Init => BagInv
  BY BagStarts
<1>2. BagInv /\ [Next]_vars => BagInv'
  BY CallIsBags
<1>3. BagInv => QueriesExact
  <2>. SUFFICES ASSUME BagInv PROVE QueriesExact
    OBVIOUS
  <2>1. \A v \in Value :
          /\ CountLess(v, FALSE) = NrWhere(LAMBDA x : x < v)
          /\ CountLess(v, TRUE) = NrWhere(LAMBDA x : x <= v)
          /\ CountGreater(v, FALSE) = NrWhere(LAMBDA x : x > v)
          /\ CountGreater(v, TRUE) = NrWhere(LAMBDA x : x >= v)
    BY CountsExact
  <2>2. ASSUME NEW f \in Percentiles
        PROVE  IF tree.size = 0 \/ f[1] < 0 \/ f[1] > f[2]
               THEN Percentile(f[1], f[2]) = Throws
               ELSE PercentileIsRight(f[1], f[2])
    <3>1. PICK p \in Int, q \in Nat : p = f[1] /\ q = f[2] /\ q # 0
      BY PercentilesAssumption
    <3>2. CASE tree.size = 0 \/ p < 0 \/ p > q
      <4>1. Percentile(p, q) = Throws
        BY <3>2 DEF Percentile
      <4> QED BY <3>1, <3>2, <4>1
    <3>3. CASE ~ (tree.size = 0 \/ p < 0 \/ p > q)
      <4>1. tree.size # 0 /\ 0 <= p /\ p <= q
        BY <3>3
      <4>2. PercentileIsRight(p, q)
        BY <3>1, <4>1, PercentileExact
      <4> QED BY <3>1, <3>3, <4>2
    <3> QED BY <3>2, <3>3
  <2> QED BY <2>1, <2>2, AtsExact DEF QueriesExact, PercentileIsRight
<1> QED BY <1>1, <1>2, <1>3, PTL DEF Spec
=============================================================================
