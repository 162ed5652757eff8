----------------------------- MODULE SortedList -----------------------------
(***************************************************************************)
(* PAbstractSortedList (collect.cxx): a red-black tree whose nodes count   *)
(* the nodes below them, so that an object is found by its value and by    *)
(* its place.  list is what the tree stands for: the objects in order,     *)
(* those of equal value in the order in which they were appended.          *)
(*                                                                         *)
(* Nodes are numbers, 0 is PSortedListInfo::nil.  The code has each step   *)
(* twice, for the left and the right; here the side is a parameter.        *)
(***************************************************************************)
EXTENDS Integers, Sequences, SequencesExt

CONSTANTS Objects,          \* numbers; two of them have each value
          Ascending,        \* whether an object is only appended when it is the greatest
          SelfOnly          \* whether Compare is only given a copy of the list itself

Value(o) == (o + 1) \div 2

Nodes == 1 .. Cardinality(Objects)
nil   == 0
Sides == {"left", "right"}
Other(d) == IF d = "left" THEN "right" ELSE "left"

VARIABLES tree,      \* the PSortedListInfo and its elements
          list,      \* what it stands for
          elmt       \* Compare: the list in which it looks for the first element, or
                     \* "none", and the node it has come to

listVars == <<tree, list, elmt>>

Empty == [root |-> nil, child |-> [d \in Sides |-> [n \in Nodes \cup {nil} |-> nil]],
          parent |-> [n \in Nodes \cup {nil} |-> nil], size |-> [n \in Nodes \cup {nil} |-> 0],
          red |-> {}, data |-> [n \in Nodes |-> 0]]

SortedInit == tree = Empty /\ list = << >> /\ elmt = [of |-> "none", node |-> nil]

Side(T, n) == IF n = T.child["left"][T.parent[n]] THEN "left" ELSE "right"
Black(T, S) == [T EXCEPT !.red = @ \ S]
Red(T, n)   == [T EXCEPT !.red = @ \cup {n}]

\* LeftRotate and RightRotate: n goes down on side d.
Rotate(T, n, d) ==
  LET pivot == T.child[Other(d)][n]
      inner == T.child[d][pivot]
      up    == T.parent[n]
      down  == [T.child EXCEPT ![Other(d)][n] = inner, ![d][pivot] = n]
  IN [T EXCEPT !.child  = IF up = nil THEN down ELSE [down EXCEPT ![Side(T, n)][up] = pivot],
               !.root   = IF up = nil THEN pivot ELSE @,
               !.parent = [m \in DOMAIN @ |-> IF m = n THEN pivot ELSE IF m = pivot THEN up
                                              ELSE IF m = inner /\ m # nil THEN n ELSE @[m]],
               !.size   = [@ EXCEPT ![pivot] = T.size[n],
                                    ![n] = T.size[T.child[d][n]] + T.size[inner] + 1]]

-----------------------------------------------------------------------------
(* Append.                                                                  *)

\* The way down from x: the parent the new object o will have, and the nodes passed.
RECURSIVE Descend(_, _, _, _)
Descend(T, o, x, path) ==
  IF x = nil THEN path
  ELSE Descend(T, o, T.child[IF Value(o) < Value(T.data[x]) THEN "left" ELSE "right"][x],
               Append(path, x))

\* The loop that puts the colours right after an insertion.
RECURSIVE Recolour(_, _)
Recolour(T, x) ==
  LET p == T.parent[x]  g == T.parent[p]  d == Side(T, p)  uncle == T.child[Other(d)][g] IN
  IF x = T.root \/ p \notin T.red THEN Black(T, {T.root})
  ELSE IF uncle \in T.red THEN Recolour(Red(Black(T, {p, uncle}), g), g)
  ELSE LET bent == x = T.child[Other(d)][p]
           U == IF bent THEN Rotate(T, p, d) ELSE T
           y == IF bent THEN p ELSE x
           q == U.parent[y]  h == U.parent[q]
       IN Recolour(Rotate(Red(Black(U, {q}), h), h, Other(d)), y)

\* Append returns the place of the new object: what the nodes above x and before it add to its place.
RECURSIVE Above(_, _)
Above(T, x) ==
  IF x = T.root THEN 0
  ELSE LET p == T.parent[x]  before == T.child["left"][p]
       IN Above(T, p) + IF x = before THEN 0 ELSE T.size[before] + 1

Place(T, x) == T.size[T.child["left"][x]] + Above(T, x)

Used(T) == {n \in Nodes : T.data[n] # 0}

\* The place the new object has in the list: after all that are not greater.
Rank(o) == Len(SelectSeq(list, LAMBDA q : Value(q) <= Value(o)))

AppendObject(o) ==
  LET z    == IF o \notin Used(tree) THEN o ELSE CHOOSE n \in Nodes \ Used(tree) : TRUE
      path == Descend(tree, o, tree.root, << >>)
      y    == IF path = << >> THEN nil ELSE path[Len(path)]
      T    == [tree EXCEPT !.data[z] = o, !.parent[z] = y, !.red = @ \cup {z},
                 !.size = [n \in DOMAIN @ |-> IF n = z THEN 1 ELSE IF Contains(path, n) THEN @[n] + 1 ELSE @[n]],
                 !.root = IF y = nil THEN z ELSE @,
                 !.child = IF y = nil THEN @
                           ELSE [@ EXCEPT ![IF Value(o) < Value(tree.data[y]) THEN "left" ELSE "right"][y] = z]]
  IN /\ o \notin ToSet(list)
     /\ Ascending => \A q \in ToSet(list) : q < o
     /\ tree' = Recolour(T, z)
     /\ list' = InsertAt(list, Rank(o) + 1, o)
     /\ UNCHANGED elmt

-----------------------------------------------------------------------------
(* Removal, and the ways to find what is to be removed.                     *)

RECURSIVE Extreme(_, _, _)
Extreme(T, n, d) == IF T.child[d][n] = nil THEN n ELSE Extreme(T, T.child[d][n], d)

RECURSIVE Ascend(_, _, _)
Ascend(T, n, d) == LET p == T.parent[n] IN
                   IF p # nil /\ n = T.child[d][p] THEN Ascend(T, p, d) ELSE p

\* Successor (d = "right") and Predecessor (d = "left").
Neighbour(T, n, d) == IF T.child[d][n] # nil THEN Extreme(T, T.child[d][n], Other(d))
                                             ELSE Ascend(T, n, d)

RECURSIVE OrderSelect(_, _, _)
OrderSelect(T, n, i) ==
  LET r == T.size[T.child["left"][n]] + 1 IN
  IF i = r THEN n
  ELSE LET c == T.child[IF i < r THEN "left" ELSE "right"][n]
       IN IF c = nil THEN nil ELSE OrderSelect(T, c, IF i < r THEN i ELSE i - r)

\* ValueSelect: the first node on the way down that has the value, and its place.
RECURSIVE ValueSelect(_, _, _, _)
ValueSelect(T, n, v, before) ==
  IF n = nil THEN <<nil, 0>>
  ELSE LET here == before + T.size[T.child["left"][n]] IN
       CASE Value(T.data[n]) < v -> ValueSelect(T, T.child["right"][n], v, here + 1)
         [] Value(T.data[n]) > v -> ValueSelect(T, T.child["left"][n], v, before)
         [] OTHER -> <<n, here>>

\* FindElement for a value: the first of its equals.
RECURSIVE FirstEqual(_, _, _)
FirstEqual(T, n, i) ==
  LET prev == Neighbour(T, n, "left") IN
  IF prev # nil /\ Value(T.data[prev]) = Value(T.data[n]) THEN FirstEqual(T, prev, i - 1) ELSE <<n, i>>

FindValue(T, v) == LET found == ValueSelect(T, T.root, v, 0)
                   IN IF found[1] = nil THEN found ELSE FirstEqual(T, found[1], found[2])

\* FindElement for an object: first among the equals before, then after.
RECURSIVE Look(_, _, _, _, _)
Look(T, o, n, i, d) ==
  IF n = nil \/ Value(T.data[n]) # Value(o) THEN <<nil, 0>>
  ELSE IF T.data[n] = o THEN <<n, i>>
  ELSE Look(T, o, Neighbour(T, n, d), IF d = "left" THEN i - 1 ELSE i + 1, d)

FindObject(T, o) ==
  LET found  == ValueSelect(T, T.root, Value(o), 0)
      before == Look(T, o, found[1], found[2], "left")
  IN IF before[1] # nil THEN before ELSE Look(T, o, found[1], found[2], "right")

\* Mutant: the loop ends where a sibling has become red.
RECURSIVE MutRebalance(_, _)
MutRebalance(T, x) ==
  IF x = T.root \/ x \in T.red THEN Black(T, {x})
  ELSE LET p == T.parent[x]  d == Side(T, x)  e == Other(d)  v == T.child[e][p]
           U == IF v \in T.red THEN Rotate(Red(Black(T, {v}), p), p, d) ELSE T
           w == U.child[e][p]
       IN IF {U.child["left"][w], U.child["right"][w]} \cap U.red = {}
          THEN Red(U, w)
          ELSE LET V == IF U.child[e][w] \in U.red THEN U
                        ELSE Rotate(Red(Black(U, {U.child[d][w]}), w), w, e)
                   s == V.child[e][p]
                   c == IF p \in V.red THEN Red(V, s) ELSE Black(V, {s})
                   R == Rotate(Black(c, {p, c.child[e][s]}), p, d)
               IN Black(R, {R.root})

\* The loop that puts the colours right after a removal.
RECURSIVE Rebalance(_, _)
Rebalance(T, x) ==
  IF x = T.root \/ x \in T.red THEN Black(T, {x})
  ELSE LET p == T.parent[x]  d == Side(T, x)  e == Other(d)  v == T.child[e][p]
           U == IF v \in T.red THEN Rotate(Red(Black(T, {v}), p), p, d) ELSE T
           w == U.child[e][p]
       IN IF {U.child["left"][w], U.child["right"][w]} \cap U.red = {}
          THEN Rebalance(Red(U, w), p)
          ELSE LET V == IF U.child[e][w] \in U.red THEN U
                        ELSE Rotate(Red(Black(U, {U.child[d][w]}), w), w, e)
                   s == V.child[e][p]
                   c == IF p \in V.red THEN Red(V, s) ELSE Black(V, {s})
                   R == Rotate(Black(c, {p, c.child[e][s]}), p, d)
               IN Black(R, {R.root})

RECURSIVE Ancestors(_, _)
Ancestors(T, n) == IF n = nil THEN {} ELSE {n} \cup Ancestors(T, T.parent[n])

\* RemoveElement: the node that leaves the tree is y, whose object moves to node.
Without(T, node) ==
  LET y  == IF nil \in {T.child["left"][node], T.child["right"][node]} THEN node
            ELSE Neighbour(T, node, "right")
      x  == IF T.child["left"][y] # nil THEN T.child["left"][y] ELSE T.child["right"][y]
      up == T.parent[y]
      U  == [T EXCEPT !.size = [n \in DOMAIN @ |-> IF n \in Ancestors(T, y) THEN @[n] - 1 ELSE @[n]],
                      !.parent[x] = up,
                      !.root  = IF up = nil THEN x ELSE @,
                      !.child = IF up = nil THEN @ ELSE [@ EXCEPT ![Side(T, y)][up] = x],
                      !.data[node] = T.data[y]]
      V  == IF y \in T.red THEN U ELSE Rebalance(U, x)
  IN [V EXCEPT !.data[y] = 0, !.size[y] = 0, !.parent[y] = nil, !.parent[nil] = nil, !.red = @ \ {y},
               !.child = [d \in Sides |-> [@[d] EXCEPT ![y] = nil]]]

Removing(n) == /\ n # nil
               /\ tree' = Without(tree, n)
               /\ UNCHANGED elmt

RemoveObject(o) == /\ list # << >>
                   /\ Removing(FindObject(tree, o)[1])
                   /\ list' = SelectSeq(list, LAMBDA q : q # o)

\* RemoveAt of the index one below k.
RemoveNth(k) == /\ k <= Len(list)
                /\ Removing(OrderSelect(tree, tree.root, k))
                /\ list' = RemoveAt(list, k)

RemoveAll == /\ list # << >>
             /\ tree' = Empty
             /\ list' = << >>
             /\ UNCHANGED elmt

-----------------------------------------------------------------------------
(* Compare with a list that is a copy of this one, and shares its elements, *)
(* or with another one, which is empty and has a nil of its own.  The code  *)
(* goes down to the first element of the other list until it finds the nil  *)
(* of this one.                                                             *)

Idle == elmt.of = "none"

BeginCompare(which) ==
  /\ Idle /\ (which = "own" \/ ~SelfOnly)
  /\ elmt' = [of |-> which, node |-> IF which = "own" THEN tree.root ELSE nil]
  /\ UNCHANGED <<tree, list>>

\* Mutant: the loop does not stop at a nil.
MutGoLeft ==
  /\ ~Idle
  /\ elmt' = [elmt EXCEPT !.node = IF elmt.of = "own" THEN tree.child["left"][@] ELSE nil]
  /\ UNCHANGED <<tree, list>>

\* One round of the loop; the nil of the other list is its own child.
GoLeft ==
  /\ ~Idle
  /\ LET left == IF elmt.of = "own" THEN tree.child["left"][elmt.node] ELSE nil
     IN elmt' = IF elmt.of = "own" /\ left = nil THEN [of |-> "none", node |-> nil]
                ELSE [elmt EXCEPT !.node = left]
  /\ UNCHANGED <<tree, list>>

SortedNext == \/ Idle /\ \E o \in Objects : AppendObject(o) \/ RemoveObject(o)
              \/ Idle /\ \E k \in DOMAIN list : RemoveNth(k)
              \/ Idle /\ RemoveAll
              \/ \E which \in {"own", "other"} : BeginCompare(which)
              \/ GoLeft

SortedSpec == SortedInit /\ [][SortedNext]_listVars /\ WF_listVars(GoLeft)

-----------------------------------------------------------------------------
RECURSIVE InOrder(_, _)
InOrder(T, n) == IF n = nil THEN << >>
                 ELSE InOrder(T, T.child["left"][n]) \o <<T.data[n]>> \o InOrder(T, T.child["right"][n])

RECURSIVE BlackHeights(_, _)
BlackHeights(T, n) ==
  IF n = nil THEN {0}
  ELSE { h + (IF n \in T.red THEN 0 ELSE 1) :
           h \in UNION { BlackHeights(T, T.child[d][n]) : d \in Sides } }

\* The tree stands for the list: in order, found by place, by object and by value,
\* and the place Append works out for a node is the right one.
FoundInPlace ==
  /\ InOrder(tree, tree.root) = list
  /\ \A i \in DOMAIN list :
        /\ tree.data[OrderSelect(tree, tree.root, i)] = list[i]
        /\ FindObject(tree, list[i])[2] = i - 1
        /\ FindValue(tree, Value(list[i]))[2] + 1 =
             CHOOSE j \in DOMAIN list : /\ Value(list[j]) = Value(list[i])
                                        /\ \A k \in 1 .. j - 1 : Value(list[k]) # Value(list[i])
  /\ \A n \in Used(tree) : list[Place(tree, n) + 1] = tree.data[n]

\* No red node has a red parent and every way down passes as many black ones, so
\* that no way is more than twice as long as another.
Balanced == /\ \A n \in tree.red : tree.parent[n] \notin tree.red /\ n # tree.root
            /\ nil \notin tree.red
            /\ Cardinality(BlackHeights(tree, tree.root)) = 1

\* "@return comparison of the two objects" (lists.h:796): a comparison comes to
\* an end.
CompareReturns == ~Idle ~> Idle
=============================================================================
