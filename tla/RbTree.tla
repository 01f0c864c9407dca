------------------------------- MODULE RbTree -------------------------------
(***************************************************************************)
(* The red-black tree of rbtree.cpp, pointers and all.  A node is a number *)
(* of Nodes; nil is the sentinel T->nil, whose color is black and whose    *)
(* parent field rbtree_delete overwrites.  The code's left and right       *)
(* branches are mirror images, so a side d stands for "left" or "right"    *)
(* and Other(d) for the opposite one: Rotate(t,"left",x) is                *)
(* rbtree_left_rotate, Rotate(t,"right",x) is rbtree_right_rotate.         *)
(*                                                                         *)
(* T is the tree: root, child[d][x], parent[x], red[x] and key[x].  Every  *)
(* turn of a fix-up loop is a step; pc says which loop is running, cursor  *)
(* is its node (z or x of the code).  Freed nodes are blank; malloc is     *)
(* taken to return the smallest blank node.  request is a history          *)
(* variable: the last call, forgotten when its fix-up ends.                *)
(***************************************************************************)
EXTENDS Integers, FiniteSets

CONSTANTS
  Keys,           \* integers
  MaxNodes,       \* the nodes malloc can return
  NoKey           \* the key of a blank node, not one of Keys

VARIABLES T, pc, cursor, request
treeVars == <<T, pc, cursor, request>>

nil == 0
Nodes == 1 .. MaxNodes
Node0 == Nodes \cup {nil}
Sides == {"left", "right"}
Other(d) == IF d = "left" THEN "right" ELSE "left"

ASSUME RbTreeAssumption == Keys \subseteq Int /\ MaxNodes \in Nat /\ NoKey \notin Keys

Trees == [root : Node0, child : [Sides -> [Node0 -> Node0]], parent : [Node0 -> Node0],
          red : [Node0 -> BOOLEAN], key : [Node0 -> Keys \cup {NoKey}]]

\* The type invariant.
TreeTypeOK ==
  /\ T \in Trees
  /\ pc \in {"idle", "insert", "delete"}
  /\ cursor \in Node0 /\ (pc = "insert" => cursor # nil)

TreeInit ==
  /\ T = [root   |-> nil,
          child  |-> [d \in Sides |-> [x \in Node0 |-> nil]],
          parent |-> [x \in Node0 |-> nil],
          red    |-> [x \in Node0 |-> FALSE],
          key    |-> [x \in Node0 |-> NoKey]]
  /\ pc = "idle" /\ cursor = nil /\ request = <<>>

-----------------------------------------------------------------------------
\* The side on which x hangs under its parent; the code tests for "left" first.
SideOf(u, x) == IF x = u.child["left"][u.parent[x]] THEN "left" ELSE "right"

\* x is replaced by y under x's parent: the root, or one of its children.
Replace(u, x, y) ==
  IF u.parent[x] = nil
  THEN [u EXCEPT !.root = y]
  ELSE [u EXCEPT !.child[SideOf(u, x)][u.parent[x]] = y]

\* The rest of a rotation: x is below y on side d, and b, which was there, below x.
Relink(v, d, x, y, b, p) ==
  LET c == [v.child EXCEPT ![d][y] = x, ![Other(d)][x] = b]
      m == IF b # nil THEN x ELSE v.parent[b]
  IN  [v EXCEPT !.child = c, !.parent = [v.parent EXCEPT ![b] = m, ![y] = p, ![x] = y]]

\* rbtree_left_rotate (d = "left") and rbtree_right_rotate.
Rotate(u, d, x) ==
  LET y == u.child[Other(d)][x]
  IN  Relink(Replace(u, x, y), d, x, y, u.child[d][y], u.parent[x])

\* rbtree_search: the node with key k, or nil.
Search(u, k) ==
  LET from[x \in Node0] ==
        IF x = nil \/ u.key[x] = k THEN x
        ELSE from[u.child[IF k < u.key[x] THEN "left" ELSE "right"][x]]
  IN  from[u.root]

\* rbtree_mini (d = "left") and rbtree_maxi: as far as one can go to side d.
Extreme(u, d, x) ==
  LET go[n \in Node0] == IF u.child[d][n] = nil THEN n ELSE go[u.child[d][n]]
  IN  go[x]

\* rbtree_successor.
Successor(u, x) ==
  LET up[n \in Node0] ==
        IF u.parent[n] # nil /\ n = u.child["right"][u.parent[n]]
        THEN up[u.parent[n]] ELSE u.parent[n]
  IN  IF u.child["right"][x] # nil THEN Extreme(u, "left", u.child["right"][x])
                                   ELSE up[x]

\* The last node on the way from the root to where k belongs (y of rbtree_insert).
LeafFor(u, k) ==
  LET next(x) == u.child[IF k < u.key[x] THEN "left" ELSE "right"][x]
      from[x \in Node0] == IF next(x) = nil THEN x ELSE from[next(x)]
  IN  IF u.root = nil THEN nil ELSE from[u.root]

Blank(x) == T.key[x] = NoKey

\* rbtree_insert up to the fix-up: a new red node z hangs where the search ended.
Hang(u, z, k) ==
  LET y == LeafFor(u, k)
      new == [u EXCEPT !.parent[z] = y, !.key[z] = k, !.red[z] = TRUE]
  IN  IF y = nil THEN [new EXCEPT !.root = z]
      ELSE [new EXCEPT !.child[IF k < u.key[y] THEN "left" ELSE "right"][y] = z]

\* rbtree_insert.  A key that is there already ends the call and changes nothing.
Insert(k) ==
  /\ pc = "idle"
  /\ Search(T, k) = nil
  /\ \E z \in Nodes :
       /\ Blank(z) /\ \A n \in Nodes : Blank(n) => z <= n
       /\ T' = Hang(T, z, k)
       /\ cursor' = z
  /\ pc' = "insert"
  /\ request' = <<"insert", k>>

\* rbtree_insert_fixup with a red uncle y: recolour and go on at the grandparent.
RedUncle(u, p, y, g) ==
  [tree |-> [u EXCEPT !.red[p] = FALSE, !.red[y] = FALSE, !.red[g] = TRUE],
   at   |-> g]

\* One turn of the loop of rbtree_insert_fixup.
InsertTurn(u, z) ==
  LET p == u.parent[z]
      g == u.parent[p]
      d == SideOf(u, p)
      y == u.child[Other(d)][g]
      bent == z = u.child[Other(d)][p]
      v == IF bent THEN Rotate(u, d, p) ELSE u
      z2 == IF bent THEN p ELSE z
      p2 == v.parent[z2]
      g2 == v.parent[p2]
  IN  IF u.red[y] THEN RedUncle(u, p, y, g)
      ELSE [tree |-> Rotate([v EXCEPT !.red[p2] = FALSE, !.red[g2] = TRUE], Other(d), g2),
            at   |-> z2]

InsertFixup ==
  /\ pc = "insert"
  /\ IF T.red[T.parent[cursor]]
     THEN /\ LET turn == InsertTurn(T, cursor) IN T' = turn.tree /\ cursor' = turn.at
          /\ UNCHANGED <<pc, request>>
     ELSE /\ T' = [T EXCEPT !.red[T.root] = FALSE]
          /\ cursor' = nil /\ pc' = "idle" /\ request' = <<>>

\* A wrong deletion: the key of the node cut out is not moved to z.
KeyMoved_Not(u, z, y) == u

KeyMoved(u, z, y) == [u EXCEPT !.key[z] = u.key[y]]

\* rbtree_delete up to the fix-up.  y, which has at most one child x, is cut
\* out; if it is not z its key moves to z.  main frees y.
Cut(u, z, y) ==
  LET l == u.child["left"][y]
      x == IF l # nil THEN l ELSE u.child["right"][y]
      spliced == Replace([u EXCEPT !.parent[x] = u.parent[y]], y, x)
  IN  [tree |-> [KeyMoved(spliced, z, y) EXCEPT
                   !.key[y] = NoKey, !.parent[y] = nil, !.red[y] = FALSE,
                   !.child["left"][y] = nil, !.child["right"][y] = nil],
       at   |-> x]

Victim(u, z) ==
  IF u.child["left"][z] = nil \/ u.child["right"][z] = nil THEN z ELSE Successor(u, z)

Delete(k) ==
  /\ pc = "idle"
  /\ Search(T, k) # nil
  /\ LET z == Search(T, k)
         y == Victim(T, z)
         c == Cut(T, z, y)
     IN  /\ T' = c.tree
         /\ IF T.red[y] THEN UNCHANGED <<pc, cursor>>
                        ELSE pc' = "delete" /\ cursor' = c.at
  /\ request' = <<"delete", k>>

\* A wrong first case: a red sibling is not rotated away.
SiblingBlack_Not(u, p, d) == u

\* The cases of rbtree_delete_fixup for a node on side d of p.  First: a red
\* sibling is painted black and rotated above p.
SiblingBlack(u, p, d) ==
  LET w == u.child[Other(d)][p]
  IN  IF u.red[w] THEN Rotate([u EXCEPT !.red[w] = FALSE, !.red[p] = TRUE], d, p) ELSE u

\* Third: a red inner nephew is rotated outwards, over the sibling.
NephewOut(u, p, d) ==
  LET w == u.child[Other(d)][p]
      near == u.child[d][w]
  IN  IF u.red[u.child[Other(d)][w]] THEN u
      ELSE Rotate([u EXCEPT !.red[near] = FALSE, !.red[w] = TRUE], Other(d), w)

\* Last: the sibling takes p's place and colour.
SiblingUp(u, p, d) ==
  LET w == u.child[Other(d)][p]
  IN  Rotate([u EXCEPT !.red[w] = u.red[p], !.red[p] = FALSE,
                       !.red[u.child[Other(d)][w]] = FALSE], d, p)

\* One turn of the loop of rbtree_delete_fixup; the second case, two black
\* nephews, is the only one that goes on at the parent.
DeleteTurn(u, x) ==
  LET p == u.parent[x]
      d == SideOf(u, x)
      v == SiblingBlack(u, p, d)
      w == v.child[Other(d)][p]
      done == SiblingUp(NephewOut(v, p, d), p, d)
  IN  IF \A e \in Sides : ~v.red[v.child[e][w]]
      THEN [tree |-> [v EXCEPT !.red[w] = TRUE], at |-> p]
      ELSE [tree |-> done, at |-> done.root]

DeleteFixup ==
  /\ pc = "delete"
  /\ IF cursor # T.root /\ ~T.red[cursor]
     THEN /\ LET turn == DeleteTurn(T, cursor) IN T' = turn.tree /\ cursor' = turn.at
          /\ UNCHANGED <<pc, request>>
     ELSE /\ T' = [T EXCEPT !.red[cursor] = FALSE]
          /\ cursor' = nil /\ pc' = "idle" /\ request' = <<>>

TreeNext == InsertFixup \/ DeleteFixup \/ \E k \in Keys : Insert(k) \/ Delete(k)

TreeSpec == TreeInit /\ [][TreeNext]_treeVars

-----------------------------------------------------------------------------
\* The live nodes, and those that can be reached from the root.
InTree == {x \in Nodes : ~Blank(x)}
Deeper(u, b) == b \cup {u.child[d][x] : d \in Sides, x \in b \ {nil}}
Reach ==
  LET below[n \in 0 .. MaxNodes] == IF n = 0 THEN {T.root} ELSE Deeper(T, below[n - 1])
  IN  below[MaxNodes] \ {nil}

\* Whatever a rotation, a splice or a moved key does, at every turn of the
\* loops: the live nodes are those under the root, parent and child pointers
\* agree, and the sentinel is black and has no children.
WellLinked ==
  /\ Reach = InTree
  /\ \A x \in InTree : \A d \in Sides :
       T.child[d][x] # nil => T.parent[T.child[d][x]] = x
  /\ T.root # nil => T.parent[T.root] = nil
  /\ ~T.red[nil] /\ \A d \in Sides : T.child[d][nil] = nil

\* The tree is red-black: the root is black, a red node has black children, and
\* all ways down pass the same number of black nodes.
Balanced ==
  LET black[x \in Node0] ==       \* black height, -1 if the subtree has none
        IF x = nil THEN 0
        ELSE LET l == black[T.child["left"][x]]
                 r == black[T.child["right"][x]]
             IN  IF l = -1 \/ l # r THEN -1 ELSE l + IF T.red[x] THEN 0 ELSE 1
  IN  /\ black[T.root] # -1
      /\ \A x \in InTree : T.red[x] => \A d \in Sides : ~T.red[T.child[d][x]]
      /\ ~T.red[T.root]

\* Links agree at every turn of the fix-up loops (rbtree_insert_fixup,
\* rbtree_delete_fixup), and between two calls the tree is red-black, so that its
\* height is logarithmic after any sequence of insertions and deletions.
RedBlack == WellLinked /\ (pc = "idle" => Balanced)

\* rbtree_search finds exactly the keys inserted and not deleted since, also
\* between the turns of a fix-up: rotations never hide a key.
Found == INSTANCE KeySet WITH stored <- {k \in Keys : Search(T, k) # nil}, call <- request
RefinesKeySet == Found!Spec
=============================================================================
