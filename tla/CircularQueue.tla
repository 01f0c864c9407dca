--------------------------- MODULE CircularQueue ---------------------------
(***************************************************************************)
(* The template class circular_queue<TT,MaxLength> (circular_queue.h): a   *)
(* ring of MaxLength elements with a head, a tail and a length.  tail is   *)
(* the index of the newest element.  The class is meant for shared memory  *)
(* as well, where no constructor runs: init() then works on zeroed memory  *)
(* and may be called again by every process that attaches.                 *)
(*                                                                         *)
(* started tells whether init() (directly or through the constructor) has  *)
(* been called; the class demands it before anything else.  out is the     *)
(* result of the last call.                                                *)
(***************************************************************************)
EXTENDS Integers, Sequences

CONSTANTS
  Data, Zero,     \* the elements; Zero is the all-zero one
  MaxLength,      \* the template parameter
  Dirty           \* TRUE: the object lies in memory that was not zeroed

ASSUME CircularQueueAssumption ==
  /\ MaxLength \in Nat \ {0}
  /\ Zero \in Data
  /\ Dirty \in BOOLEAN

VARIABLES m_inited, m_data, m_head, m_tail, m_length, started, out

ringVars == <<m_inited, m_data, m_head, m_tail, m_length, started, out>>
ring == <<m_inited, m_data, m_head, m_tail, m_length>>

Index == 0 .. MaxLength - 1

\* The type invariant.
RingTypeOK ==
  /\ m_inited \in BOOLEAN
  /\ m_data \in [Index -> Data]
  /\ m_head \in Index
  /\ m_tail \in Index
  /\ m_length \in 0 .. MaxLength
  /\ started \in BOOLEAN

Result(op, val) == out' = [op |-> op, val |-> val]

\* The memory before the first call.  Zeroed memory (a static object, a fresh
\* shared segment) has m_inited false; other memory may hold anything, of
\* which the values that look like a queue are enough to tell it apart.
RingInit ==
  /\ m_inited \in (IF Dirty THEN BOOLEAN ELSE {FALSE})
  /\ m_data = [i \in Index |-> Zero]
  /\ m_head = 0
  /\ m_tail = 0
  /\ m_length \in (IF Dirty THEN 0 .. MaxLength ELSE {0})
  /\ started = FALSE
  /\ out = [op |-> "none", val |-> TRUE]

\* The arithmetic of the ring: ii % MaxLength.
Wrap(ii) == ii % MaxLength

full == m_length = MaxLength
empty == m_length = 0

\* init(), which is all the constructor does.
init ==
  /\ IF m_inited
     THEN UNCHANGED ring
     ELSE /\ m_head' = 0
          /\ m_tail' = MaxLength - 1
          /\ m_length' = 0
          /\ m_data' = [i \in Index |-> Zero]
          /\ m_inited' = TRUE
  /\ started' = TRUE
  /\ Result("init", TRUE)

push(ee) ==
  /\ started
  /\ IF full
     THEN UNCHANGED ring /\ Result("push", FALSE)
     ELSE /\ m_tail' = Wrap(m_tail + 1)
          /\ m_data' = [m_data EXCEPT ![Wrap(m_tail + 1)] = ee]
          /\ m_length' = m_length + 1
          /\ UNCHANGED <<m_inited, m_head>>
          /\ Result("push", TRUE)
  /\ UNCHANGED started

pop ==
  /\ started
  /\ IF empty
     THEN UNCHANGED ring /\ Result("pop", FALSE)
     ELSE /\ m_head' = Wrap(m_head + 1)
          /\ m_length' = m_length - 1
          /\ UNCHANGED <<m_inited, m_data, m_tail>>
          /\ Result("pop", TRUE)
  /\ UNCHANGED started

\* A wrong front: it shows the newest element.
front_Tail ==
  /\ started
  /\ Result("front", m_data[m_tail])
  /\ UNCHANGED <<ring, started>>

\* front() does not ask whether the queue is empty.
front ==
  /\ started
  /\ Result("front", m_data[m_head])
  /\ UNCHANGED <<ring, started>>

size ==
  /\ started
  /\ Result("size", m_length)
  /\ UNCHANGED <<ring, started>>

RingNext == init \/ pop \/ front \/ size \/ \E ee \in Data : push(ee)

RingSpec == RingInit /\ [][RingNext]_ringVars

-----------------------------------------------------------------------------
\* The elements printqueue walks through, oldest first.
Content == [i \in 1 .. m_length |-> m_data[Wrap(m_head + i - 1)]]

\* head, tail and length agree: the tail is length - 1 places after the head,
\* however often the two indices have wrapped around.
RingOK ==
  started => m_tail = (IF m_head + m_length = 0 THEN MaxLength - 1
                       ELSE Wrap(m_head + m_length - 1))

\* In zeroed memory head, tail and length agree, init() may be repeated and nothing
\* is in the queue before it: the inductive invariant behind RefinesFifo.
Begun == started <=> m_inited
EmptyBefore == ~started => m_length = 0
QueueInv == RingTypeOK /\ RingOK /\ Begun /\ EmptyBefore

\* The ring is a bounded first-in first-out queue: it returns what was pushed,
\* in order, and refuses exactly when it is full or empty.
Fifo == INSTANCE BoundedFifo WITH q <- Content, Capacity <- MaxLength
RefinesFifo == Fifo!Spec
=============================================================================
