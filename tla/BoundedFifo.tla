---------------------------- MODULE BoundedFifo ----------------------------
(***************************************************************************)
(* What a bounded first-in first-out queue promises its caller: q is the   *)
(* content, oldest first, and out the result of the last call.  This is    *)
(* the abstract specification CircularQueue is shown to implement.         *)
(***************************************************************************)
EXTENDS Integers, Sequences

CONSTANTS Data, Capacity

VARIABLES q, out
vars == <<q, out>>

Result(op, val) == out' = [op |-> op, val |-> val]

Init == q = <<>> /\ out = [op |-> "none", val |-> TRUE]

\* An element is added at the end, or the queue is full and says so.
Push(e) ==
  IF Len(q) < Capacity
  THEN q' = Append(q, e) /\ Result("push", TRUE)
  ELSE q' = q /\ Result("push", FALSE)

\* The oldest element is removed, or the queue is empty and says so.
Pop ==
  IF q # <<>>
  THEN q' = Tail(q) /\ Result("pop", TRUE)
  ELSE q' = q /\ Result("pop", FALSE)

\* The oldest element is shown; of an empty queue it may be anything.
Front ==
  /\ q' = q
  /\ IF q # <<>> THEN Result("front", Head(q)) ELSE \E e \in Data : Result("front", e)

\* The number of elements.
Size == q' = q /\ Result("size", Len(q))

\* Initialising again changes nothing.
Initialise == q' = q /\ Result("init", TRUE)

Next == Pop \/ Front \/ Size \/ Initialise \/ \E e \in Data : Push(e)

Spec == Init /\ [][Next]_vars
=============================================================================
