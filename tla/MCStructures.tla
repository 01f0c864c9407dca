---------------------------- MODULE MCStructures ----------------------------
(***************************************************************************)
(* Values for checking the two data structures with TLC: a behaviour is    *)
(* either one of CircularQueue or one of RbTree (used), and the other      *)
(* structure stays as it was created.                                      *)
(***************************************************************************)
EXTENDS CircularQueue, RbTree

CONSTANTS
  d1, d2, d3      \* elements of the queue

VARIABLE used

DataThree == {d1, d2, d3}
KeysNine == 1 .. 9

MCInit == used \in {"queue", "tree"} /\ RingInit /\ TreeInit
MCNext == /\ UNCHANGED used
          /\ \/ used = "queue" /\ RingNext /\ UNCHANGED treeVars
             \/ used = "tree" /\ TreeNext /\ UNCHANGED ringVars
MCSpec == MCInit /\ [][MCNext]_<<used, ringVars, treeVars>>

\* Every live node by its key.  Nothing the tree does depends on the number of
\* a node, nor, outside a deletion, on the field nil.parent: each deletion sets
\* it before its fix-up reads it.
Name(x) == IF x = nil THEN 0 ELSE T.key[x]
Shape ==
  <<pc, request, Name(cursor), Name(T.root),
    IF pc = "delete" THEN Name(T.parent[nil]) ELSE 0,
    T.red[nil], [d \in Sides |-> Name(T.child[d][nil])],
    {<<T.key[x], T.red[x], Name(T.parent[x]),
       Name(T.child["left"][x]), Name(T.child["right"][x])>> : x \in InTree}>>

\* Two trees that differ only in which addresses malloc returned count as one.
SameShape == <<used, ringVars, Shape>>
=============================================================================
