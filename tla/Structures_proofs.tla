------------------------- MODULE Structures_proofs -------------------------
(***************************************************************************)
(* Proofs about the data structures of the repository.  circular_queue     *)
(* (CircularQueue), for every capacity and element type: in zeroed memory  *)
(* its indices and its length agree however often they wrap around, and it *)
(* implements the bounded queue of BoundedFifo.  The thread pool of the    *)
(* epoll server (WorkQueue), for any number of workers and jobs: at most   *)
(* one worker leaves, with the mutex, and the pool implements JobPool. The *)
(* producer-consumer program (OutCache), for any number of consumers:      *)
(* every message is taken once and in turn.  The red-black tree (RbTree),  *)
(* for any keys and number of nodes: it is red-black between two calls and *)
(* implements the set of keys of KeySet at every turn of its fix-ups.      *)
(***************************************************************************)
EXTENDS CircularQueue, WorkQueue, OutCache, RbTree,
        FiniteSetTheorems, SequenceTheorems, WellFoundedInduction, TLAPS

-----------------------------------------------------------------------------
\* The ring of circular_queue.

\* An index below the capacity is left alone by the modulus ...
LEMMA ModSmall ==
  ASSUME NEW M \in Nat \ {0}, NEW x \in Nat, x < M
  PROVE  x % M = x
OBVIOUS

\* ... and one that has passed it once comes back by the capacity.
LEMMA ModOnce ==
  ASSUME NEW M \in Nat \ {0}, NEW x \in Nat, M <= x, x < 2 * M
  PROVE  x % M = x - M
<1> DEFINE d == x \div M
<1>1. d \in Int /\ x % M \in 0 .. M - 1 /\ x = M * d + (x % M)
  OBVIOUS
<1>2. d > 0
  <2> SUFFICES ASSUME d <= 0 PROVE FALSE
    BY <1>1
  <2>1. M * d <= 0
    BY <1>1
  <2> QED
    BY <1>1, <2>1
<1>3. d < 2
  <2> SUFFICES ASSUME d >= 2 PROVE FALSE
    BY <1>1
  <2>1. M * d >= 2 * M
    BY <1>1
  <2> QED
    BY <1>1, <2>1
<1>4. d = 1
  BY <1>1, <1>2, <1>3
<1> QED
  BY <1>1, <1>4

\* The place k elements after index h of the ring.
Place(h, k) == IF h + k < MaxLength THEN h + k ELSE h + k - MaxLength

LEMMA WrapPlace ==
  ASSUME NEW h \in Index, NEW k \in 0 .. MaxLength
  PROVE  Wrap(h + k) = Place(h, k) /\ Place(h, k) \in Index
<1> USE CircularQueueAssumption DEF CircularQueueAssumption, Index, Place
<1>1. h + k \in Nat /\ h + k < 2 * MaxLength
  OBVIOUS
<1>2. CASE h + k < MaxLength
  BY <1>1, <1>2, ModSmall DEF Wrap
<1>3. CASE h + k >= MaxLength
  <2>1. (h + k) % MaxLength = (h + k) - MaxLength
    BY <1>1, <1>3, ModOnce
  <2>2. Place(h, k) = (h + k) - MaxLength /\ Place(h, k) \in Index
    BY <1>1, <1>3
  <2> QED
    BY <2>1, <2>2 DEF Wrap
<1> QED
  BY <1>1, <1>2, <1>3

\* Where the tail is, once the queue is initialised.
LEMMA TailPlace ==
  ASSUME QueueInv, started
  PROVE  /\ Wrap(m_tail + 1) = Place(m_head, m_length)
         /\ m_length > 0 => m_tail = Place(m_head, m_length - 1)
<1> USE CircularQueueAssumption
    DEF CircularQueueAssumption, Index, Place, QueueInv, RingTypeOK, RingOK
<1>1. CASE m_head + m_length = 0
  <2>1. Wrap(m_tail + 1) = Place(m_tail, 1)
    BY WrapPlace
  <2> QED
    BY <1>1, <2>1
<1>2. CASE m_head + m_length # 0 /\ m_length > 0
  <2>0. m_length - 1 \in 0 .. MaxLength /\ m_head + (m_length - 1) = m_head + m_length - 1
    BY <1>2
  <2>1. Wrap(m_head + m_length - 1) = Place(m_head, m_length - 1)
    BY <2>0, WrapPlace
  <2>2. m_tail = Place(m_head, m_length - 1)
    BY <1>2, <2>1
  <2>3. Wrap(m_tail + 1) = Place(m_tail, 1)
    BY WrapPlace
  <2> QED
    BY <1>2, <2>2, <2>3
<1>3. CASE m_head + m_length # 0 /\ m_length = 0
  <2>1. m_tail = m_head - 1
    <3>1. m_head - 1 \in Nat /\ m_head - 1 < MaxLength /\ m_head + m_length - 1 = m_head - 1
      BY <1>3
    <3>2. Wrap(m_head - 1) = m_head - 1
      BY <3>1, ModSmall DEF Wrap
    <3> QED
      BY <1>3, <3>1, <3>2
  <2>2. Wrap(m_tail + 1) = Place(m_tail, 1)
    BY WrapPlace
  <2> QED
    BY <1>3, <2>1, <2>2
<1> QED
  BY <1>1, <1>2, <1>3

-----------------------------------------------------------------------------
\* A step keeps the indices and the length in agreement.
LEMMA QueueInvStep ==
  ASSUME QueueInv, [RingNext]_ringVars
  PROVE  QueueInv'
<1> USE CircularQueueAssumption
    DEF CircularQueueAssumption, QueueInv, RingTypeOK, RingOK, Begun, EmptyBefore, Index, ring
<1>1. CASE init
  <2>1. CASE m_inited
    BY <1>1, <2>1 DEF init
  <2>2. CASE ~m_inited
    <3>1. /\ m_head' = 0 /\ m_tail' = MaxLength - 1 /\ m_length' = 0
          /\ m_data' = [i \in 0 .. MaxLength - 1 |-> Zero]
          /\ m_inited' = TRUE /\ started' = TRUE
      BY <1>1, <2>2 DEF init
    <3>2. 0 \in Index /\ MaxLength - 1 \in Index
      OBVIOUS
    <3> QED
      BY <3>1, <3>2
  <2> QED
    BY <2>1, <2>2
<1>2. ASSUME NEW ee \in Data, push(ee) PROVE QueueInv'
  <2>1. CASE full
    BY <1>2, <2>1 DEF push
  <2>2. CASE ~full
    <3>1. m_length < MaxLength
      BY <2>2 DEF full
    <3>2. Place(m_head, m_length) \in Index
      BY <3>1, WrapPlace
    <3>3. /\ m_tail' = Place(m_head, m_length)
          /\ m_length' = m_length + 1
          /\ m_data' = [m_data EXCEPT ![Place(m_head, m_length)] = ee]
          /\ m_head' = m_head
          /\ m_inited' = m_inited /\ started' = started /\ started
      BY <1>2, <2>2, TailPlace DEF push
    <3>4. Wrap(m_head + (m_length + 1) - 1) = Place(m_head, m_length)
      BY <3>1, WrapPlace
    <3> QED
      BY <3>1, <3>2, <3>3, <3>4
  <2> QED
    BY <2>1, <2>2
<1>3. CASE pop
  <2>1. CASE empty
    BY <1>3, <2>1 DEF pop
  <2>2. CASE ~empty
    <3>1. m_length > 0
      BY <2>2 DEF empty
    <3>0. 1 \in 0 .. MaxLength /\ m_head \in Index
      OBVIOUS
    <3>2. Wrap(m_head + 1) = Place(m_head, 1) /\ Place(m_head, 1) \in Index
      BY <3>0, WrapPlace
    <3>3. /\ m_head' = Place(m_head, 1)
          /\ m_length' = m_length - 1
          /\ UNCHANGED <<m_inited, m_data, m_tail, started>> /\ started
      BY <1>3, <2>2, <3>2 DEF pop
    <3>4. m_tail = Place(m_head, m_length - 1)
      BY <3>1, <3>3, TailPlace
    <3>5. CASE Place(m_head, 1) + (m_length - 1) = 0
      BY <3>1, <3>3, <3>4, <3>5 DEF Place
    <3>6. CASE Place(m_head, 1) + (m_length - 1) # 0 /\ m_length = 1
      <4>1. Place(m_head, 1) - 1 = m_tail /\ m_tail < MaxLength
        BY <3>4, <3>6 DEF Place
      <4>2. Wrap(Place(m_head, 1) - 1) = m_tail
        BY <4>1, ModSmall DEF Wrap
      <4> QED
        BY <3>2, <3>3, <3>6, <4>2
    <3>7. CASE m_length > 1
      <4>1. Wrap(Place(m_head, 1) + (m_length - 2))
               = Place(Place(m_head, 1), m_length - 2)
        BY <3>2, <3>7, WrapPlace
      <4>2. Place(Place(m_head, 1), m_length - 2) = m_tail
        BY <3>4, <3>7 DEF Place
      <4> QED
        BY <3>2, <3>3, <3>7, <4>1, <4>2
    <3> QED
      BY <3>1, <3>5, <3>6, <3>7
  <2> QED
    BY <2>1, <2>2
<1>4. CASE front
  BY <1>4 DEF front
<1>5. CASE size
  BY <1>5 DEF size
<1>6. CASE UNCHANGED ringVars
  BY <1>6 DEF ringVars
<1> QED
  BY <1>1, <1>2, <1>3, <1>4, <1>5, <1>6 DEF RingNext

\* In zeroed memory the indices and the length of the ring always agree.
THEOREM RingCorrect == Dirty = FALSE => (RingSpec => []QueueInv)
<1> SUFFICES ASSUME Dirty = FALSE PROVE RingSpec => []QueueInv
  OBVIOUS
<1>1. RingInit => QueueInv
  <2> SUFFICES ASSUME RingInit PROVE QueueInv
    OBVIOUS
  <2> USE CircularQueueAssumption DEF CircularQueueAssumption, RingInit
  <2>1. RingTypeOK
    <3>1. 0 \in Index /\ 0 \in 0 .. MaxLength
      BY DEF Index
    <3>2. m_data \in [Index -> Data] /\ m_inited \in BOOLEAN /\ m_length = 0
      OBVIOUS
    <3> QED
      BY <3>1, <3>2 DEF RingTypeOK
  <2>2. RingOK /\ Begun /\ EmptyBefore
    BY DEF RingOK, Begun, EmptyBefore
  <2> QED
    BY <2>1, <2>2 DEF QueueInv
<1> QED
  BY <1>1, QueueInvStep, PTL DEF RingSpec

\* The part of it that speaks of the ring alone: the types, and the place of
\* the tail after any number of wrap-arounds.
THEOREM RingSafe == Dirty = FALSE => (RingSpec => [](RingTypeOK /\ RingOK))
<1>1. QueueInv => RingTypeOK /\ RingOK
  BY DEF QueueInv
<1> QED
  BY <1>1, RingCorrect, PTL

-----------------------------------------------------------------------------
\* The content is a sequence of elements, as long as the queue says.
ContentOK ==
  /\ Content \in Seq(Data) /\ Len(Content) = m_length
  /\ \A i \in 1 .. m_length :
       Content[i] = m_data[Place(m_head, i - 1)] /\ Place(m_head, i - 1) \in Index

LEMMA ContentSeq == QueueInv => ContentOK
<1> SUFFICES ASSUME QueueInv PROVE ContentOK
  OBVIOUS
<1> USE CircularQueueAssumption DEF CircularQueueAssumption, QueueInv, RingTypeOK
<1>1. \A i \in 1 .. m_length :
        /\ Wrap(m_head + i - 1) = Place(m_head, i - 1)
        /\ Place(m_head, i - 1) \in Index
  <2> TAKE i \in 1 .. m_length
  <2>1. i - 1 \in 0 .. MaxLength /\ m_head + (i - 1) = m_head + i - 1
    BY DEF Index
  <2> QED
    BY <2>1, WrapPlace
<1>2. m_length \in Nat /\ \A i \in 1 .. m_length : m_data[Place(m_head, i - 1)] \in Data
  BY <1>1
<1>3. Content = [i \in 1 .. m_length |-> m_data[Place(m_head, i - 1)]]
  BY <1>1 DEF Content
<1>4. Content \in Seq(Data) /\ Len(Content) = m_length
  BY <1>2, <1>3
<1> QED
  BY <1>1, <1>3, <1>4 DEF ContentOK

\* Every step of the ring is a step of the bounded queue.
LEMMA FifoStep ==
  ASSUME QueueInv, QueueInv', [RingNext]_ringVars
  PROVE  [Fifo!Next]_(Fifo!vars)
<1> USE CircularQueueAssumption
    DEF Fifo!Next, Fifo!vars, Fifo!Result, Result, ring, CircularQueueAssumption
<1>1. ContentOK /\ ContentOK'
  BY ContentSeq, PTL
<1>2. m_length \in 0 .. MaxLength /\ m_length' \in 0 .. MaxLength /\ m_head \in Index
  BY DEF QueueInv, RingTypeOK
<1>3. UNCHANGED ring => UNCHANGED Content
  BY DEF Content
<1>4. CASE init
  <2>1. CASE m_inited
    BY <1>3, <1>4, <2>1 DEF init, Fifo!Initialise
  <2>2. CASE ~m_inited
    <3>1. m_length = 0 /\ m_length' = 0
      BY <1>4, <2>2 DEF init, QueueInv, Begun, EmptyBefore
    <3>2. Content = <<>> /\ Content' = <<>>
      BY <1>1, <3>1 DEF ContentOK
    <3> QED
      BY <1>4, <3>2 DEF init, Fifo!Initialise
  <2> QED
    BY <2>1, <2>2
<1>5. ASSUME NEW ee \in Data, push(ee) PROVE Fifo!Push(ee)
  <2>1. CASE full
    <3>1. Len(Content) = MaxLength /\ UNCHANGED Content
      BY <1>1, <1>3, <1>5, <2>1 DEF push, full, ContentOK
    <3> QED
      BY <1>5, <2>1, <3>1 DEF push, Fifo!Push
  <2>2. CASE ~full
    <3>1. /\ Place(m_head, m_length) \in Index
          /\ m_length' = m_length + 1 /\ m_head' = m_head /\ m_length < MaxLength
          /\ m_data' = [m_data EXCEPT ![Place(m_head, m_length)] = ee]
          /\ m_data \in [Index -> Data]
      BY <1>2, <1>5, <2>2, TailPlace, WrapPlace DEF push, full, QueueInv, RingTypeOK
    <3>2. ASSUME NEW i \in 1 .. m_length' PROVE Content'[i] = Append(Content, ee)[i]
      <4>1. Content'[i] = m_data'[Place(m_head, i - 1)] /\ Place(m_head, i - 1) \in Index
        BY <1>1, <3>1 DEF ContentOK
      <4>2. CASE i = m_length + 1
        <5>1. Content'[i] = ee
          BY <1>2, <3>1, <4>1, <4>2
        <5> QED
          BY <1>1, <1>2, <4>2, <5>1 DEF ContentOK
      <4>3. CASE i # m_length + 1
        <5>1. i \in 1 .. m_length
          BY <1>2, <3>1, <4>3
        <5>2. Place(m_head, i - 1) # Place(m_head, m_length)
          BY <1>2, <3>1, <5>1 DEF Place, Index
        <5>3. Content'[i] = Content[i]
          BY <1>1, <3>1, <4>1, <5>1, <5>2 DEF ContentOK
        <5> QED
          BY <1>1, <5>1, <5>3 DEF ContentOK
      <4> QED
        BY <4>2, <4>3
    <3>3. Content' = Append(Content, ee)
      BY <1>1, <1>2, <3>1, <3>2 DEF ContentOK
    <3>4. Len(Content) < MaxLength
      BY <1>1, <3>1 DEF ContentOK
    <3> QED
      BY <1>5, <2>2, <3>3, <3>4 DEF push, Fifo!Push
  <2> QED
    BY <2>1, <2>2
<1>6. CASE pop
  <2>1. CASE empty
    <3>1. Content = <<>> /\ UNCHANGED Content
      BY <1>1, <1>3, <1>6, <2>1 DEF pop, empty, ContentOK
    <3> QED
      BY <1>6, <2>1, <3>1 DEF pop, Fifo!Pop
  <2>2. CASE ~empty
    <3>1. /\ m_head' = Place(m_head, 1) /\ Place(m_head, 1) \in Index
          /\ m_length' = m_length - 1 /\ m_length > 0 /\ m_data' = m_data
      BY <1>2, <1>6, <2>2, WrapPlace DEF pop, empty
    <3>2. ASSUME NEW i \in 1 .. m_length' PROVE Content'[i] = Tail(Content)[i]
      <4>1. Content'[i] = m_data[Place(Place(m_head, 1), i - 1)]
        BY <1>1, <3>1 DEF ContentOK
      <4>2. Place(Place(m_head, 1), i - 1) = Place(m_head, (i + 1) - 1)
        BY <1>2, <3>1 DEF Place, Index
      <4>3. i + 1 \in 1 .. m_length
        BY <1>2, <3>1
      <4>4. Content[i + 1] = m_data[Place(m_head, (i + 1) - 1)]
        BY <1>1, <4>3 DEF ContentOK
      <4>5. Tail(Content)[i] = Content[i + 1]
        BY <1>1, <1>2, <3>1 DEF ContentOK
      <4> QED
        BY <4>1, <4>2, <4>4, <4>5
    <3>3. Content # <<>>
      BY <1>1, <3>1 DEF ContentOK
    <3>4. Tail(Content) \in Seq(Data) /\ Len(Tail(Content)) = m_length'
      BY <1>1, <1>2, <3>1, <3>3 DEF ContentOK
    <3>5. Content' = Tail(Content)
      BY <1>1, <3>2, <3>4 DEF ContentOK
    <3> QED
      BY <1>6, <2>2, <3>3, <3>5 DEF pop, Fifo!Pop
  <2> QED
    BY <2>1, <2>2
<1>7. CASE front
  <2>1. UNCHANGED Content /\ out' = [op |-> "front", val |-> m_data[m_head]]
    BY <1>3, <1>7 DEF front
  <2>2. m_data[m_head] \in Data
    BY DEF QueueInv, RingTypeOK
  <2>3. CASE Content = <<>>
    BY <2>1, <2>2, <2>3 DEF Fifo!Front
  <2>4. CASE Content # <<>>
    <3>1. m_length > 0
      BY <1>1, <1>2, <2>4 DEF ContentOK
    <3>2. Head(Content) = m_data[Place(m_head, 0)]
      BY <1>1, <1>2, <3>1 DEF ContentOK
    <3>3. Place(m_head, 0) = m_head
      BY <1>2 DEF Place, Index
    <3> QED
      BY <2>1, <2>4, <3>2, <3>3 DEF Fifo!Front
  <2> QED
    BY <2>3, <2>4
<1>8. CASE size
  BY <1>1, <1>3, <1>8 DEF size, Fifo!Size, ContentOK
<1>9. CASE UNCHANGED ringVars
  BY <1>3, <1>9 DEF ringVars
<1> QED
  BY <1>4, <1>5, <1>6, <1>7, <1>8, <1>9 DEF RingNext

\* In zeroed memory circular_queue implements the bounded queue.
THEOREM ImplementsFifo == Dirty = FALSE => (RingSpec => RefinesFifo)
<1> SUFFICES ASSUME Dirty = FALSE PROVE RingSpec => RefinesFifo
  OBVIOUS
<1>1. RingInit => Fifo!Init
  BY DEF RingInit, Fifo!Init, Content
<1>2. QueueInv /\ QueueInv' /\ [RingNext]_ringVars => [Fifo!Next]_(Fifo!vars)
  BY FifoStep
<1> QED
  BY <1>1, <1>2, RingCorrect, PTL DEF RingSpec, RefinesFifo, Fifo!Spec

-----------------------------------------------------------------------------
\* The thread pool.

\* A worker at the tests, or one that has left, holds the mutex.
MutexHeld == \A w \in Workers : wpc[w] \in {"test", "left"} => jobs_mutex = w

\* A job is in one place at a time: with the thread that adds it, once in the
\* list, with one worker, or done.
Running == {wjob[w] : w \in Workers} \ {NoJob}
JobsApart ==
  /\ \A i, k \in 1 .. Len(waiting_jobs) : waiting_jobs[i] = waiting_jobs[k] => i = k
  /\ \A i \in 1 .. Len(waiting_jobs) : waiting_jobs[i] \notin done \cup Running \cup {mjob}
  /\ Running \cap (done \cup {mjob}) = {}
  /\ mjob \notin done
  /\ \A v, w \in Workers : wjob[v] = wjob[w] /\ wjob[v] # NoJob => v = w
  /\ \A w \in Workers : wjob[w] # NoJob <=> wpc[w] = "run"
  /\ mpc = "add" <=> mjob # NoJob

PoolInv == TypeOK /\ MutexHeld /\ JobsApart

-----------------------------------------------------------------------------
\* What LL_ADD and LL_REMOVE do to a list.
LEMMA AddedAtHead ==
  ASSUME NEW S, NEW x \in S, NEW l \in Seq(S)
  PROVE  /\ LL_ADD(x, l) \in Seq(S)
         /\ Len(LL_ADD(x, l)) = Len(l) + 1
         /\ LL_ADD(x, l)[1] = x
         /\ \A i \in 1 .. Len(l) : LL_ADD(x, l)[i + 1] = l[i]
         /\ Range(LL_ADD(x, l)) = {x} \cup Range(l)
<1> DEFINE m == <<x>> \o l
<1>1. m \in Seq(S) /\ Len(m) = Len(l) + 1 /\ m[1] = x
  OBVIOUS
<1>2. \A i \in 1 .. Len(l) : m[i + 1] = l[i]
  OBVIOUS
<1>3. \A i \in 2 .. Len(m) : i - 1 \in 1 .. Len(l) /\ m[i] = l[i - 1]
  BY <1>1
<1>4. Range(m) = {x} \cup Range(l)
  <2>1. DOMAIN m = 1 .. Len(l) + 1 /\ DOMAIN l = 1 .. Len(l) /\ Len(l) \in Nat
    BY <1>1
  <2>2. \A y \in Range(m) : y \in {x} \cup Range(l)
    BY <1>1, <1>3, <2>1 DEF Range
  <2>3. \A y \in Range(l) : y \in Range(m)
    <3> TAKE y \in Range(l)
    <3>1. PICK i \in 1 .. Len(l) : l[i] = y
      BY <2>1 DEF Range
    <3>2. i + 1 \in DOMAIN m /\ m[i + 1] = y
      BY <2>1, <3>1, <1>2
    <3> QED
      BY <3>2 DEF Range
  <2>4. x \in Range(m)
    BY <1>1, <2>1 DEF Range
  <2> QED
    BY <2>2, <2>3, <2>4
<1> QED
  BY <1>1, <1>2, <1>4 DEF LL_ADD

LEMMA HeadRemoved ==
  ASSUME NEW S, NEW l \in Seq(S), l # <<>>,
         \A i, k \in 1 .. Len(l) : l[i] = l[k] => i = k
  PROVE  /\ Head(l) \in S /\ Head(l) = l[1] /\ 1 \in 1 .. Len(l)
         /\ LL_REMOVE(l) \in Seq(S)
         /\ Len(LL_REMOVE(l)) = Len(l) - 1
         /\ \A i \in 1 .. Len(l) - 1 : LL_REMOVE(l)[i] = l[i + 1]
         /\ Range(LL_REMOVE(l)) = Range(l) \ {Head(l)}
<1> DEFINE m == Tail(l)
<1>1. /\ m \in Seq(S) /\ Len(m) = Len(l) - 1 /\ Len(l) \in Nat \ {0}
      /\ Head(l) = l[1] /\ Head(l) \in S
      /\ \A i \in 1 .. Len(l) - 1 : m[i] = l[i + 1]
  OBVIOUS
<1>2. DOMAIN m = 1 .. Len(l) - 1 /\ DOMAIN l = 1 .. Len(l)
  BY <1>1
<1>3. \A y \in Range(m) : y \in Range(l) \ {Head(l)}
  <2> TAKE y \in Range(m)
  <2>1. PICK i \in 1 .. Len(l) - 1 : m[i] = y
    BY <1>2 DEF Range
  <2>2. i + 1 \in 1 .. Len(l) /\ 1 \in 1 .. Len(l) /\ i + 1 # 1 /\ l[i + 1] = y
    BY <1>1, <2>1
  <2>3. y # l[1]
    BY <2>2
  <2> QED
    BY <1>1, <1>2, <2>2, <2>3 DEF Range
<1>4. \A y \in Range(l) \ {Head(l)} : y \in Range(m)
  <2> TAKE y \in Range(l) \ {Head(l)}
  <2>1. PICK i \in 1 .. Len(l) : l[i] = y /\ i # 1
    BY <1>1, <1>2 DEF Range
  <2>2. i - 1 \in 1 .. Len(l) - 1 /\ m[i - 1] = y
    BY <1>1, <2>1
  <2> QED
    BY <1>2, <2>2 DEF Range
<1>5. Range(m) = Range(l) \ {Head(l)}
  BY <1>3, <1>4
<1> QED
  BY <1>1, <1>5 DEF LL_REMOVE

-----------------------------------------------------------------------------
LEMMA PoolInvInit == Init => PoolInv
<1> SUFFICES ASSUME Init PROVE PoolInv
  OBVIOUS
<1> USE WorkQueueAssumption DEF WorkQueueAssumption, Init
<1>1. TypeOK
  BY DEF TypeOK
<1>2. MutexHeld
  BY DEF MutexHeld
<1>3. Running = {}
  BY DEF Running
<1>4. JobsApart
  BY <1>3 DEF JobsApart
<1> QED
  BY <1>1, <1>2, <1>4 DEF PoolInv

\* Steps that leave the jobs where they are.
LEMMA JobsApartSame ==
  ASSUME JobsApart, UNCHANGED <<waiting_jobs, wjob, done, mjob>>,
         mpc' = "add" <=> mpc = "add",
         \A w \in Workers : wpc'[w] = "run" <=> wpc[w] = "run"
  PROVE  JobsApart'
<1>1. Running' = Running
  BY DEF Running
<1> QED
  BY <1>1 DEF JobsApart

\* workqueue_shutdown moves the sleepers and nobody else.
LEMMA Awakened ==
  ASSUME TypeOK, Clear
  PROVE  /\ wpc' \in [Workers -> {"none", "lock", "test", "wait", "run", "left"}]
         /\ \A w \in Workers : wpc'[w] = IF wpc[w] = "wait" THEN "lock" ELSE wpc[w]
<1>1. wpc' = [w \in Workers |-> IF w \in Sleepers THEN "lock" ELSE wpc[w]]
  BY DEF Clear, Rouse
<1>2. wpc \in [Workers -> {"none", "lock", "test", "wait", "run", "left"}]
  BY DEF TypeOK
<1> QED
  BY <1>1, <1>2 DEF Sleepers

LEMMA TypeStep ==
  ASSUME PoolInv, [Next]_vars
  PROVE  TypeOK'
<1> USE WorkQueueAssumption DEF WorkQueueAssumption, TypeOK, PoolInv, Goto, mainVars
<1>1. CASE Create
  <2>1. CASE \E w \in Workers : wpc[w] = "none" /\ Goto(w, "lock") /\ workers' = LL_ADD(w, workers)
                                /\ UNCHANGED mpc
    <3>1. PICK w \in Workers : Goto(w, "lock") /\ workers' = LL_ADD(w, workers) /\ UNCHANGED mpc
      BY <2>1
    <3>2. workers' \in Seq(Workers)
      BY <3>1, AddedAtHead
    <3> QED
      BY <1>1, <3>1, <3>2 DEF Create
  <2>2. CASE mpc' = "ready" /\ UNCHANGED <<wpc, workers>>
    BY <1>1, <2>2 DEF Create
  <2> QED
    BY <1>1, <2>1, <2>2 DEF Create
<1>2. ASSUME NEW j \in Jobs, CallAdd(j) PROVE TypeOK'
  BY <1>2 DEF CallAdd
<1>3. CASE AddJob
  <2>1. mjob \in Jobs
    BY <1>3 DEF AddJob, JobsApart
  <2>2. waiting_jobs' \in Seq(Jobs)
    BY <1>3, <2>1, AddedAtHead DEF AddJob
  <2> QED
    BY <1>3, <2>2 DEF AddJob, Signal, Sleepers
<1>4. CASE CallShutdown
  BY <1>4 DEF CallShutdown
<1>5. CASE Mark
  BY <1>5 DEF Mark
<1>6. CASE Step
  BY <1>6 DEF Step, LastWorker
<1>7. CASE Clear
  BY <1>7, Awakened DEF Clear
<1>8. ASSUME NEW w \in Workers, WorkerStep(w) PROVE TypeOK'
  <2>1. CASE Take(w)
    <3>1. waiting_jobs # <<>> /\ waiting_jobs' = LL_REMOVE(waiting_jobs)
      BY <2>1 DEF Take
    <3>2. Head(waiting_jobs) \in Jobs /\ waiting_jobs' \in Seq(Jobs)
      BY <3>1, HeadRemoved DEF JobsApart
    <3> QED
      BY <2>1, <3>2 DEF Take
  <2>2. CASE Lock(w) \/ Wait(w) \/ Leave(w) \/ Spurious(w)
    BY <2>2 DEF Lock, Wait, Leave, Spurious
  <2>3. CASE Execute(w)
    <3>1. wjob[w] \in Jobs
      BY <2>3 DEF Execute, JobsApart
    <3> QED
      BY <2>3, <3>1 DEF Execute
  <2> QED
    BY <1>8, <2>1, <2>2, <2>3 DEF WorkerStep, Test
<1>9. CASE UNCHANGED vars
  BY <1>9 DEF vars
<1> QED
  BY <1>1, <1>2, <1>3, <1>4, <1>5, <1>6, <1>7, <1>8, <1>9 DEF Next, MainStep

\* Only Lock takes the mutex, and only from nobody.
LEMMA MutexStep ==
  ASSUME PoolInv, [Next]_vars
  PROVE  MutexHeld'
<1> USE WorkQueueAssumption DEF WorkQueueAssumption, TypeOK, PoolInv, MutexHeld, Goto, mainVars
<1>1. CASE Create
  BY <1>1 DEF Create
<1>2. ASSUME NEW j \in Jobs, CallAdd(j) PROVE MutexHeld'
  BY <1>2 DEF CallAdd
<1>3. CASE AddJob
  BY <1>3 DEF AddJob, Signal, Sleepers
<1>4. CASE CallShutdown \/ Mark \/ Step
  BY <1>4 DEF CallShutdown, Mark, Step
<1>5. CASE Clear
  BY <1>5, Awakened DEF Clear
<1>6. ASSUME NEW w \in Workers, WorkerStep(w) PROVE MutexHeld'
  <2>1. CASE Lock(w)
    BY <2>1 DEF Lock
  <2>2. CASE Test(w)
    BY <2>2 DEF Test, Wait, Take, Leave
  <2>3. CASE Spurious(w) \/ Execute(w)
    BY <2>3 DEF Spurious, Execute
  <2> QED
    BY <1>6, <2>1, <2>2, <2>3 DEF WorkerStep
<1>7. CASE UNCHANGED vars
  BY <1>7 DEF vars
<1> QED
  BY <1>1, <1>2, <1>3, <1>4, <1>5, <1>6, <1>7 DEF Next, MainStep

-----------------------------------------------------------------------------
\* A job moves from the thread that adds it to the list ...
LEMMA AddJobApart ==
  ASSUME PoolInv, AddJob
  PROVE  JobsApart' /\ Range(waiting_jobs') = {mjob} \cup Range(waiting_jobs)
<1> USE WorkQueueAssumption DEF WorkQueueAssumption, TypeOK, PoolInv, JobsApart
<1>1. /\ mjob \in Jobs /\ mjob # NoJob /\ mjob' = NoJob /\ mpc' # "add"
      /\ waiting_jobs' = LL_ADD(mjob, waiting_jobs)
      /\ UNCHANGED <<wjob, done>>
  BY DEF AddJob
<1>2. \A w \in Workers : wpc'[w] = "run" <=> wpc[w] = "run"
  BY DEF AddJob, Signal, Sleepers, Goto
<1>3. Running' = Running
  BY <1>1 DEF Running
<1>4. /\ Len(waiting_jobs') = Len(waiting_jobs) + 1 /\ waiting_jobs'[1] = mjob
      /\ \A i \in 1 .. Len(waiting_jobs) : waiting_jobs'[i + 1] = waiting_jobs[i]
      /\ Range(waiting_jobs') = {mjob} \cup Range(waiting_jobs)
      /\ Len(waiting_jobs) \in Nat
  <2> HIDE DEF TypeOK, PoolInv, JobsApart
  <2>1. waiting_jobs \in Seq(Jobs)
    BY DEF TypeOK, PoolInv
  <2>2. Len(waiting_jobs) \in Nat
    BY <2>1
  <2> DEFINE m == LL_ADD(mjob, waiting_jobs)
  <2>3. mjob \in Jobs /\ waiting_jobs' = m
    BY <1>1
  <2>4. Len(m) = Len(waiting_jobs) + 1 /\ m[1] = mjob
    BY <2>1, <2>3, AddedAtHead
  <2>5. \A i \in 1 .. Len(waiting_jobs) : m[i + 1] = waiting_jobs[i]
    BY <2>1, <2>3 DEF LL_ADD
  <2>6. Range(m) = {mjob} \cup Range(waiting_jobs)
    BY <2>1, <2>3, AddedAtHead
  <2> HIDE DEF m
  <2> QED
    BY <2>2, <2>3, <2>4, <2>5, <2>6
<1>5. \A i \in 1 .. Len(waiting_jobs') :
        \/ i = 1 /\ waiting_jobs'[i] = mjob
        \/ i - 1 \in 1 .. Len(waiting_jobs) /\ waiting_jobs'[i] = waiting_jobs[i - 1]
  <2> TAKE i \in 1 .. Len(waiting_jobs')
  <2>1. CASE i = 1
    BY <1>4, <2>1
  <2>2. CASE i # 1
    <3>1. i - 1 \in 1 .. Len(waiting_jobs) /\ (i - 1) + 1 = i
      BY <1>4, <2>2
    <3>2. waiting_jobs'[(i - 1) + 1] = waiting_jobs[i - 1]
      BY <1>4, <3>1
    <3> QED
      BY <3>1, <3>2
  <2> QED
    BY <2>1, <2>2
<1>6. \A i, k \in 1 .. Len(waiting_jobs') : waiting_jobs'[i] = waiting_jobs'[k] => i = k
  <2> SUFFICES ASSUME NEW i \in 1 .. Len(waiting_jobs'), NEW k \in 1 .. Len(waiting_jobs'),
                      waiting_jobs'[i] = waiting_jobs'[k]
               PROVE  i = k
    OBVIOUS
  <2>1. i \in Nat /\ k \in Nat
    BY <1>4
  <2>2. \A n \in 1 .. Len(waiting_jobs) : waiting_jobs[n] # mjob
    OBVIOUS
  <2>3. CASE i = 1 \/ k = 1
    BY <1>5, <2>2, <2>3
  <2>4. CASE i # 1 /\ k # 1
    <3>1. /\ i - 1 \in 1 .. Len(waiting_jobs) /\ k - 1 \in 1 .. Len(waiting_jobs)
          /\ waiting_jobs[i - 1] = waiting_jobs[k - 1]
      BY <1>5, <2>4
    <3>2. i - 1 = k - 1
      BY <3>1
    <3> QED
      BY <2>1, <3>2
  <2> QED
    BY <2>3, <2>4
<1>7. \A i \in 1 .. Len(waiting_jobs') : waiting_jobs'[i] \notin (done \cup Running \cup {mjob})'
  <2> SUFFICES ASSUME NEW i \in 1 .. Len(waiting_jobs')
               PROVE  waiting_jobs'[i] \notin done \cup Running \cup {NoJob}
    BY <1>1, <1>3
  <2>1. \A k \in 1 .. Len(waiting_jobs) :
          waiting_jobs[k] \in Jobs /\ waiting_jobs[k] \notin done \cup Running
    OBVIOUS
  <2>2. NoJob \notin Jobs /\ mjob \notin done \cup Running
    BY <1>1
  <2>3. waiting_jobs'[i] \in Jobs /\ waiting_jobs'[i] \notin done \cup Running
    BY <1>1, <1>5, <2>1, <2>2
  <2> QED
    BY <2>2, <2>3
<1>8. NoJob \notin done /\ NoJob \notin Running
  BY DEF Running
<1> QED
  BY <1>1, <1>2, <1>3, <1>4, <1>6, <1>7, <1>8

\* ... from there to a worker ...
LEMMA TakeApart ==
  ASSUME PoolInv, NEW w \in Workers, Take(w)
  PROVE  /\ JobsApart'
         /\ Head(waiting_jobs) \in Range(waiting_jobs) \cap Jobs
         /\ Range(waiting_jobs') = Range(waiting_jobs) \ {Head(waiting_jobs)}
         /\ Running' = Running \cup {Head(waiting_jobs)}
<1> USE WorkQueueAssumption DEF WorkQueueAssumption, TypeOK, PoolInv, JobsApart
<1> DEFINE j == Head(waiting_jobs)
<1>1. /\ waiting_jobs # <<>> /\ waiting_jobs' = LL_REMOVE(waiting_jobs)
      /\ wjob' = [wjob EXCEPT ![w] = j] /\ wpc' = [wpc EXCEPT ![w] = "run"]
      /\ wpc[w] = "test" /\ UNCHANGED <<mjob, done, mpc>>
  BY DEF Take, Goto, mainVars
<1>2. /\ j \in Jobs /\ j = waiting_jobs[1] /\ 1 \in 1 .. Len(waiting_jobs)
      /\ Len(waiting_jobs') = Len(waiting_jobs) - 1
      /\ \A i \in 1 .. Len(waiting_jobs) - 1 : waiting_jobs'[i] = waiting_jobs[i + 1]
      /\ Range(waiting_jobs') = Range(waiting_jobs) \ {j}
      /\ Len(waiting_jobs) \in Nat
  BY <1>1, HeadRemoved
<1>3. j \in Range(waiting_jobs)
  BY <1>2 DEF Range
<1>4. wjob[w] = NoJob /\ j # NoJob /\ j \notin Running \cup done \cup {mjob}
  BY <1>1, <1>2
<1>5. Running' = Running \cup {j}
  BY <1>1, <1>4 DEF Running
<1>6. \A i, k \in 1 .. Len(waiting_jobs') : waiting_jobs'[i] = waiting_jobs'[k] => i = k
  <2> SUFFICES ASSUME NEW i \in 1 .. Len(waiting_jobs) - 1, NEW k \in 1 .. Len(waiting_jobs) - 1,
                      waiting_jobs[i + 1] = waiting_jobs[k + 1]
               PROVE  i = k
    BY <1>2
  <2>1. i + 1 \in 1 .. Len(waiting_jobs) /\ k + 1 \in 1 .. Len(waiting_jobs)
    BY <1>2
  <2> QED
    BY <1>2, <2>1
<1>7. \A i \in 1 .. Len(waiting_jobs') :
        waiting_jobs'[i] \notin done \cup (Running \cup {j}) \cup {mjob}
  <2> SUFFICES ASSUME NEW i \in 1 .. Len(waiting_jobs) - 1
               PROVE  waiting_jobs[i + 1] \notin done \cup (Running \cup {j}) \cup {mjob}
    BY <1>2
  <2>1. i + 1 \in 1 .. Len(waiting_jobs) /\ i + 1 # 1
    BY <1>2
  <2> QED
    BY <1>2, <2>1
<1>8. \A v, x \in Workers : wjob'[v] = wjob'[x] /\ wjob'[v] # NoJob => v = x
  <2>1. \A v \in Workers \ {w} : wjob'[v] = wjob[v] /\ (wjob[v] = NoJob \/ wjob[v] \in Running)
    BY <1>1 DEF Running
  <2>2. wjob'[w] = j
    BY <1>1
  <2> QED
    BY <1>4, <2>1, <2>2
<1>9. \A v \in Workers : wjob'[v] # NoJob <=> wpc'[v] = "run"
  BY <1>1, <1>4
<1>10. JobsApart'
  BY <1>1, <1>4, <1>5, <1>6, <1>7, <1>8, <1>9
<1> QED
  BY <1>2, <1>3, <1>5, <1>10

\* ... which is done with it in the end.
LEMMA ExecuteApart ==
  ASSUME PoolInv, NEW w \in Workers, Execute(w)
  PROVE  JobsApart' /\ wjob[w] \in Running /\ Running' = Running \ {wjob[w]}
<1> USE WorkQueueAssumption DEF WorkQueueAssumption, TypeOK, PoolInv, JobsApart
<1>1. /\ wpc[w] = "run" /\ done' = done \cup {wjob[w]}
      /\ wjob' = [wjob EXCEPT ![w] = NoJob] /\ wpc' = [wpc EXCEPT ![w] = "lock"]
      /\ UNCHANGED <<waiting_jobs, mjob, mpc>>
  BY DEF Execute, Goto, mainVars
<1>2. wjob[w] # NoJob /\ wjob[w] \in Running
  BY <1>1 DEF Running
<1>3. Running' = Running \ {wjob[w]}
  BY <1>1, <1>2 DEF Running
<1>4. \A v \in Workers : wjob'[v] # NoJob <=> wpc'[v] = "run"
  BY <1>1
<1>5. \A v, x \in Workers : wjob'[v] = wjob'[x] /\ wjob'[v] # NoJob => v = x
  BY <1>1
<1>6. JobsApart'
  BY <1>1, <1>2, <1>3, <1>4, <1>5
<1> QED
  BY <1>2, <1>3, <1>6

LEMMA JobsStep ==
  ASSUME PoolInv, [Next]_vars
  PROVE  JobsApart'
<1> USE WorkQueueAssumption DEF WorkQueueAssumption, TypeOK, PoolInv, Goto, mainVars
<1>1. CASE Create
  BY <1>1, JobsApartSame DEF Create
<1>2. ASSUME NEW j \in Jobs, CallAdd(j) PROVE JobsApart'
  <2>1. /\ j \notin done \cup Range(waiting_jobs) \cup {wjob[w] : w \in Workers}
        /\ mjob' = j /\ mpc' = "add" /\ UNCHANGED <<waiting_jobs, wpc, wjob, done>>
    BY <1>2 DEF CallAdd
  <2>2. Running' = Running /\ j \notin Running /\ j # NoJob
    BY <2>1 DEF Running
  <2>3. \A i \in 1 .. Len(waiting_jobs) : waiting_jobs[i] \in Range(waiting_jobs)
    BY DEF Range
  <2> QED
    BY <2>1, <2>2, <2>3 DEF JobsApart
<1>3. CASE AddJob
  BY <1>3, AddJobApart
<1>4. CASE CallShutdown \/ Mark \/ Step
  BY <1>4, JobsApartSame DEF CallShutdown, Mark, Step
<1>5. CASE Clear
  <2>1. /\ waiting_jobs' = <<>> /\ mpc' = "off" /\ mpc = "clear" /\ UNCHANGED <<wjob, mjob, done>>
        /\ \A w \in Workers : wpc'[w] = "run" <=> wpc[w] = "run"
    BY <1>5, Awakened DEF Clear
  <2>2. Running' = Running
    BY <2>1 DEF Running
  <2> QED
    BY <2>1, <2>2 DEF JobsApart
<1>6. ASSUME NEW w \in Workers, WorkerStep(w) PROVE JobsApart'
  <2>1. CASE Lock(w) \/ Wait(w) \/ Leave(w) \/ Spurious(w)
    BY <2>1, JobsApartSame DEF Lock, Wait, Leave, Spurious
  <2>2. CASE Take(w)
    BY <2>2, TakeApart
  <2>3. CASE Execute(w)
    BY <2>3, ExecuteApart
  <2> QED
    BY <1>6, <2>1, <2>2, <2>3 DEF WorkerStep, Test
<1>7. CASE UNCHANGED vars
  BY <1>7, JobsApartSame DEF vars
<1> QED
  BY <1>1, <1>2, <1>3, <1>4, <1>5, <1>6, <1>7 DEF Next, MainStep

LEMMA PoolInvStep == PoolInv /\ [Next]_vars => PoolInv'
BY TypeStep, MutexStep, JobsStep DEF PoolInv

\* The types, the holder of the mutex and the place of every job, always.
THEOREM PoolInvariant == Spec => []PoolInv
<1>1. Init => PoolInv
  BY PoolInvInit
<1>2. PoolInv /\ [Next]_vars => PoolInv'
  BY PoolInvStep
<1> QED
  BY <1>1, <1>2, PTL DEF Spec

-----------------------------------------------------------------------------
\* While a worker has no job, fewer jobs run than there are workers.
LEMMA RoomForOne ==
  ASSUME PoolInv, NEW w \in Workers, wjob[w] = NoJob
  PROVE  Cardinality(Running) < Cardinality(Workers)
<1> USE WorkQueueAssumption DEF WorkQueueAssumption
<1> DEFINE Others == Workers \ {w}
           Theirs == {wjob[v] : v \in Others}
           f == [v \in Others |-> wjob[v]]
<1>1. IsFiniteSet(Others) /\ Cardinality(Others) = Cardinality(Workers) - 1
  BY FS_RemoveElement
<1>2. f \in Surjection(Others, Theirs)
  BY DEF Surjection
<1>3. IsFiniteSet(Theirs) /\ Cardinality(Theirs) <= Cardinality(Others)
  <2> HIDE DEF Others, Theirs, f
  <2> QED
    BY <1>1, <1>2, FS_Surjection
<1>4. Running \in SUBSET Theirs
  BY DEF Running
<1>5. Cardinality(Running) <= Cardinality(Theirs)
  <2> HIDE DEF Theirs
  <2> QED
    BY <1>3, <1>4, FS_Subset
<1>6. /\ Cardinality(Workers) \in Nat /\ Cardinality(Others) \in Nat
      /\ Cardinality(Theirs) \in Nat /\ Cardinality(Running) \in Nat
  <2>1. IsFiniteSet(Running)
    <3> HIDE DEF Theirs
    <3> QED
      BY <1>3, <1>4, FS_Subset
  <2> HIDE DEF Others, Theirs
  <2> QED
    BY <1>1, <1>3, <2>1, FS_CardinalityType
<1> HIDE DEF Others, Theirs
<1> QED
  BY <1>1, <1>3, <1>5, <1>6

\* Every step of the thread pool is a step of JobPool, or changes nothing there.
LEMMA PoolStep ==
  ASSUME PoolInv, PoolInv', [Next]_vars
  PROVE  [Pool!Next]_(Pool!vars)
<1> USE WorkQueueAssumption DEF WorkQueueAssumption, Pool!vars, mainVars
<1> DEFINE waits == Range(waiting_jobs)
<1>1. ASSUME UNCHANGED <<waiting_jobs, wjob, done>> PROVE UNCHANGED Pool!vars
  BY <1>1
<1>2. CASE AddJob
  <2>1. /\ mjob \in Jobs /\ Range(waiting_jobs') = {mjob} \cup Range(waiting_jobs)
        /\ UNCHANGED <<wjob, done>>
    BY <1>2, AddJobApart DEF AddJob, PoolInv, TypeOK, JobsApart
  <2>2. mjob \notin Range(waiting_jobs) \cup Running \cup done
    <3>1. mjob \notin Running \cup done
      BY DEF PoolInv, JobsApart
    <3>2. \A y \in Range(waiting_jobs) : y # mjob
      <4>1. DOMAIN waiting_jobs = 1 .. Len(waiting_jobs)
        BY DEF PoolInv, TypeOK
      <4> QED
        BY <4>1 DEF PoolInv, JobsApart, Range
    <3> QED
      BY <3>1, <3>2
  <2>3. Pool!Add(mjob)
    BY <2>1, <2>2 DEF Pool!Add, Running
  <2> QED
    BY <2>1, <2>3 DEF Pool!Next
<1>3. CASE Clear
  <2>1. Pool!Drop
    BY <1>3 DEF Clear, Pool!Drop, Range
  <2> QED
    BY <2>1 DEF Pool!Next
<1>4. ASSUME NEW w \in Workers, WorkerStep(w) PROVE [Pool!Next]_(Pool!vars)
  <2>1. CASE Take(w)
    <3>1. PICK j \in Jobs :
            /\ j \in Range(waiting_jobs)
            /\ Range(waiting_jobs') = Range(waiting_jobs) \ {j}
            /\ Running' = Running \cup {j} /\ UNCHANGED done
      BY <2>1, TakeApart DEF Take
    <3>2. wjob[w] = NoJob
      BY <2>1 DEF Take, PoolInv, JobsApart
    <3>3. Cardinality(Running) < Cardinality(Workers)
      BY <3>2, RoomForOne
    <3>4. Pool!Cardinality(Running) = Cardinality(Running)
      BY DEF Pool!Cardinality, Cardinality
    <3>5. Pool!Start(j)
      BY <3>1, <3>3, <3>4 DEF Pool!Start, Running
    <3> QED
      BY <3>5 DEF Pool!Next
  <2>2. CASE Execute(w)
    <3>1. /\ wjob[w] \in Running /\ Running' = Running \ {wjob[w]}
          /\ done' = done \cup {wjob[w]} /\ UNCHANGED waiting_jobs
      BY <2>2, ExecuteApart DEF Execute
    <3>2. PICK j \in Jobs : j = wjob[w]
      BY <3>1 DEF PoolInv, TypeOK, Running
    <3>3. Pool!Finish(j)
      BY <3>1, <3>2 DEF Pool!Finish, Running
    <3> QED
      BY <3>3 DEF Pool!Next
  <2>3. CASE Lock(w) \/ Wait(w) \/ Leave(w) \/ Spurious(w)
    BY <1>1, <2>3 DEF Lock, Wait, Leave, Spurious
  <2> QED
    BY <1>4, <2>1, <2>2, <2>3 DEF WorkerStep, Test
<1>5. CASE Create \/ CallShutdown \/ Mark \/ Step \/ \E j \in Jobs : CallAdd(j)
  BY <1>1, <1>5 DEF Create, CallShutdown, Mark, Step, CallAdd
<1>6. CASE UNCHANGED vars
  BY <1>1, <1>6 DEF vars
<1> QED
  BY <1>2, <1>3, <1>4, <1>5, <1>6 DEF Next, MainStep

\* The thread pool of the epoll server starts every job at most once, never more
\* than there are workers at a time, and drops none but at shutdown.
THEOREM ImplementsPool == Spec => RefinesPool
<1>1. Init => Pool!Init
  BY WorkQueueAssumption DEF Init, Pool!Init, Range
<1>2. PoolInv /\ PoolInv' /\ [Next]_vars => [Pool!Next]_(Pool!vars)
  BY PoolStep
<1> QED
  BY <1>1, <1>2, PoolInvariant, PTL DEF Spec, RefinesPool, Pool!Spec

-----------------------------------------------------------------------------
\* The producer-consumer program.  A consumer at the test or at the erase holds the
\* mutex, and so does a handler that makes messages, on a thread that did not.
CacheMutex ==
  /\ \A t \in Threads : sig[t] = "push" => mutex = t
  /\ \A t \in Consumers : opc[t] \in {"test", "erase"} => mutex = t /\ sig[t] # "push"

\* What a consumer has copied is still the first message.
CopyInv ==
  \A t \in Consumers : opc[t] = "erase" => vcache # <<>> /\ stmesg[t] = Head(vcache)

CacheInv == CacheTypeOK /\ mesgid >= 1 /\ CacheMutex /\ CopyInv /\ TakenInOrder

\* The first n numbers, and the b messages made when the next number is m.
Numbers(n) == [i \in 1 .. n |-> i]
Made(m, b) == [i \in 1 .. b |-> m + i - 1]

\* s has n elements, the numbers after k.
Counts(s, k, n) == s \in Seq(Nat) /\ Len(s) = n /\ \A i \in 1 .. n : s[i] = k + i

LEMMA NumbersCount == \A n \in Nat : Counts(Numbers(n), 0, n)
<1> TAKE n \in Nat
<1>1. Numbers(n) \in [1 .. n -> Nat]
  BY DEF Numbers
<1>2. Numbers(n) \in Seq(Nat)
  BY <1>1
<1> QED
  BY <1>2 DEF Numbers, Counts

LEMMA MadeCounts == \A n, b \in Nat : Counts(Made(n + 1, b), n, b)
<1> TAKE n, b \in Nat
<1>1. Made(n + 1, b) \in [1 .. b -> Nat]
  BY DEF Made
<1>2. Made(n + 1, b) \in Seq(Nat)
  BY <1>1
<1> QED
  BY <1>2 DEF Made, Counts

\* Counting up to n and on from there.
LEMMA CountOn ==
  \A b, n \in Nat : \A x, y : Counts(x, 0, n) /\ Counts(y, n, b) => Counts(x \o y, 0, n + b)
<1> SUFFICES ASSUME NEW b \in Nat, NEW n \in Nat, NEW x, NEW y, Counts(x, 0, n), Counts(y, n, b)
             PROVE  Counts(x \o y, 0, n + b)
  BY Zenon
<1>1. x \in Seq(Nat) /\ y \in Seq(Nat) /\ Len(x) = n /\ Len(y) = b
  BY DEF Counts
<1>2. x \o y \in Seq(Nat) /\ Len(x \o y) = n + b
  BY <1>1, ConcatProperties
<1>3. ASSUME NEW i \in 1 .. n + b PROVE (x \o y)[i] = i
  <2>1. (x \o y)[i] = IF i <= Len(x) THEN x[i] ELSE y[i - Len(x)]
    BY <1>1, ConcatProperties
  <2>2. CASE i <= n
    BY <2>1, <2>2, <1>1 DEF Counts
  <2>3. CASE ~(i <= n)
    <3>1. i - n \in 1 .. b /\ n + (i - n) = i
      BY <2>3
    <3>2. (x \o y)[i] = y[i - n]
      BY <2>1, <2>3, <1>1
    <3> QED
      BY <3>1, <3>2 DEF Counts
  <2> QED
    BY <2>2, <2>3
<1> QED
  BY <1>2, <1>3 DEF Counts

LEMMA CountsUnique ==
  \A n \in Nat : \A p, q : Counts(p, 0, n) /\ Counts(q, 0, n) => p = q
<1> SUFFICES ASSUME NEW n \in Nat, NEW p, NEW q, Counts(p, 0, n), Counts(q, 0, n)
             PROVE  p = q
  BY Zenon
<1>1. p \in Seq(Nat) /\ q \in Seq(Nat)
  BY DEF Counts
<1>2. Len(p) = Len(q) /\ \A i \in 1 .. Len(p) : p[i] = q[i]
  BY DEF Counts
<1> QED
  BY <1>1, <1>2, SeqEqual

\* Concatenation is associative.
LEMMA Regrouped ==
  \A s, v, y \in Seq(Nat) : (s \o v) \o y = s \o (v \o y)
BY ConcatAssociative, SMTT(20)

\* The numbers go on where they ended: s is what is taken, v the cache.
LEMMA NumbersGoOn ==
  \A b, n \in Nat, s, v \in Seq(Nat) : s \o v = Numbers(n) =>
    v \o Made(n + 1, b) \in Seq(Nat) /\ s \o (v \o Made(n + 1, b)) = Numbers(n + b)
<1> SUFFICES ASSUME NEW b \in Nat, NEW n \in Nat, NEW s \in Seq(Nat), NEW v \in Seq(Nat),
                    s \o v = Numbers(n)
             PROVE  /\ v \o Made(n + 1, b) \in Seq(Nat)
                    /\ s \o (v \o Made(n + 1, b)) = Numbers(n + b)
  BY Zenon
<1>1. Counts(Numbers(n), 0, n) /\ Counts(Made(n + 1, b), n, b) /\ n + b \in Nat
  BY NumbersCount, MadeCounts
<1>2. Counts(Numbers(n) \o Made(n + 1, b), 0, n + b)
  BY <1>1, CountOn, Zenon
<1>3. Numbers(n) \o Made(n + 1, b) = Numbers(n + b)
  BY <1>1, <1>2, NumbersCount, CountsUnique, Zenon
<1>4. Made(n + 1, b) \in Seq(Nat)
  BY <1>1 DEF Counts
<1>5. (s \o v) \o Made(n + 1, b) = s \o (v \o Made(n + 1, b))
  BY <1>4, Regrouped, Zenon
<1> QED
  BY <1>3, <1>4, <1>5, ConcatProperties

\* Erasing the first message after taking it moves it from one sequence to the other.
LEMMA MessageMoves ==
  ASSUME NEW s \in Seq(Nat), NEW v \in Seq(Nat), v # <<>>
  PROVE  Append(s, Head(v)) \o Tail(v) = s \o v
<1>1. PICK h \in Nat : h = Head(v)
  OBVIOUS
<1>2. PICK t \in Seq(Nat) : t = Tail(v)
  BY HeadTailProperties
<1>3. v = <<h>> \o t
  <2>1. <<h>> \in Seq(Nat) /\ Len(<<h>>) = 1 /\ <<h>>[1] = h
    OBVIOUS
  <2>2. PICK u \in Seq(Nat) : u = <<h>> \o t
    BY <2>1, ConcatProperties
  <2>3. Len(u) = 1 + Len(t) /\ u[1] = h /\ \A i \in 1 .. Len(t) : u[i + 1] = t[i]
    BY <2>2
  <2>4. Len(v) = 1 + Len(t) /\ v[1] = h /\ \A i \in 1 .. Len(t) : v[i + 1] = t[i]
    BY <1>1, <1>2
  <2>5. \A i \in 1 .. Len(v) : v[i] = u[i]
    <3> TAKE i \in 1 .. Len(v)
    <3>1. CASE i = 1
      BY <3>1, <2>3, <2>4
    <3>2. CASE i # 1
      <4>1. i - 1 \in 1 .. Len(t) /\ (i - 1) + 1 = i
        BY <3>2, <2>4
      <4> QED
        BY <4>1, <2>3, <2>4
    <3> QED
      BY <3>1, <3>2
  <2>6. Len(u) = Len(v)
    BY <2>3, <2>4
  <2> QED
    BY <2>2, <2>5, <2>6, SeqEqual
<1>4. Append(s, h) = s \o <<h>>
  OBVIOUS
<1>5. (s \o <<h>>) \o t = s \o (<<h>> \o t)
  <2>1. <<h>> \in Seq(Nat)
    OBVIOUS
  <2> QED
    BY <2>1, Regrouped, Zenon
<1> QED
  BY <1>1, <1>2, <1>3, <1>4, <1>5

-----------------------------------------------------------------------------
\* Where the mutex is, a step keeps as long as nobody gets a place that needs it.
LEMMA MutexKept ==
  ASSUME CacheTypeOK, CacheMutex, CopyInv, NEW t \in Consumers, NEW l \in {"lock", "wait"},
         sig[t] = "none", sig' = sig, opc' = [opc EXCEPT ![t] = l],
         mutex' = mutex \/ mutex = t \/ opc[t] = "test" \/ opc[t] = "erase"
  PROVE  CacheMutex'
<1>1. opc'[t] = l /\ \A u \in Consumers : u # t => opc'[u] = opc[u]
  BY DEF CacheTypeOK
<1>2. \A u \in Threads : sig[u] = "push" => mutex = u /\ u # t
  BY DEF CacheMutex
<1>3. \A u \in Consumers \ {t} : opc[u] \in {"test", "erase"} => mutex = u
  BY DEF CacheMutex
<1>4. opc[t] \in {"test", "erase"} => mutex = t
  BY DEF CacheMutex
<1>5. mutex' = mutex \/ mutex = t
  BY <1>4
<1> QED
  BY <1>1, <1>2, <1>3, <1>5 DEF CacheMutex

\* The cache and what a consumer copied, when nothing is taken and no copy begins.
LEMMA CopyKept ==
  ASSUME CopyInv, UNCHANGED <<vcache, stmesg>>,
         \A u \in Consumers : opc'[u] = "erase" => opc[u] = "erase"
  PROVE  CopyInv'
BY DEF CopyInv

LEMMA CacheInvInit ==
  ASSUME CacheInit
  PROVE  CacheInv
<1>1. CacheTypeOK /\ mesgid >= 1
  <2>1. vcache \in Seq(Nat) /\ taken \in Seq(Nat) /\ mesgid \in Nat /\ mesgid >= 1
    BY DEF CacheInit
  <2>2. /\ opc \in [Consumers -> {"lock", "test", "erase", "wait"}]
        /\ sig \in [Threads -> {"none", "lock", "push", "broadcast"}]
        /\ stmesg \in [Consumers -> Nat]
    BY DEF CacheInit
  <2>3. mutex \in Threads \cup {Nobody} /\ pending \in BOOLEAN
    BY DEF CacheInit
  <2>4. sent \in 0 .. MaxSignals
    <3>1. sent = 0 /\ MaxSignals \in Nat
      BY OutCacheAssumption DEF CacheInit, OutCacheAssumption
    <3> QED
      BY <3>1
  <2> QED
    BY <2>1, <2>2, <2>3, <2>4 DEF CacheTypeOK
<1>2. CacheMutex /\ CopyInv
  BY DEF CacheInit, Threads, CacheMutex, CopyInv
<1>3. TakenInOrder
  <2>1. taken \o vcache = <<>>
    BY DEF CacheInit
  <2>2. [i \in 1 .. mesgid - 1 |-> i] = <<>>
    BY DEF CacheInit
  <2> QED
    BY <2>1, <2>2 DEF TakenInOrder
<1> QED
  BY <1>1, <1>2, <1>3 DEF CacheInv

LEMMA CacheInvStep ==
  ASSUME CacheInv, [CacheNext]_cacheVars
  PROVE  CacheInv'
<1> USE OutCacheAssumption DEF OutCacheAssumption, Threads
<1>0. CacheTypeOK /\ mesgid >= 1 /\ CacheMutex /\ CopyInv /\ TakenInOrder
  BY DEF CacheInv
<1>1. CASE Kill
  <2>1. CacheTypeOK' /\ mesgid' >= 1
    BY <1>0, <1>1 DEF Kill, CacheTypeOK
  <2>2. CacheMutex' /\ CopyInv' /\ TakenInOrder'
    BY <1>0, <1>1 DEF Kill, CacheMutex, CopyInv, TakenInOrder
  <2> QED
    BY <2>1, <2>2 DEF CacheInv
<1>2. ASSUME NEW t \in Threads, Deliver(t) PROVE CacheInv'
  <2>1. CacheTypeOK' /\ mesgid' >= 1
    BY <1>0, <1>2 DEF Deliver, CacheTypeOK
  <2>2. sig'[t] = "lock" /\ \A u \in Threads : u # t => sig'[u] = sig[u]
    BY <1>0, <1>2 DEF Deliver, CacheTypeOK
  <2>3. CacheMutex'
    BY <1>0, <1>2, <2>2 DEF Deliver, CacheMutex
  <2>4. CopyInv' /\ TakenInOrder'
    BY <1>0, <1>2 DEF Deliver, CopyInv, TakenInOrder
  <2> QED
    BY <2>1, <2>3, <2>4 DEF CacheInv
<1>3. ASSUME NEW t \in Threads, LockIn(t) PROVE CacheInv'
  <2>1. CacheTypeOK' /\ mesgid' >= 1
    BY <1>0, <1>3 DEF LockIn, CacheTypeOK
  <2>2. /\ sig'[t] = "push" /\ \A u \in Threads : u # t => sig'[u] = sig[u]
        /\ mutex' = t /\ mutex = Nobody /\ opc' = opc
    BY <1>0, <1>3 DEF LockIn, CacheTypeOK
  <2>3. CacheMutex'
    BY <1>0, <2>2 DEF CacheMutex
  <2>4. CopyInv' /\ TakenInOrder'
    BY <1>0, <1>3 DEF LockIn, CopyInv, TakenInOrder
  <2> QED
    BY <2>1, <2>3, <2>4 DEF CacheInv
<1>4. ASSUME NEW t \in Threads, Push(t) PROVE CacheInv'
  <2>1. /\ vcache \in Seq(Nat) /\ taken \in Seq(Nat) /\ mesgid \in Nat
        /\ taken \o vcache = Numbers(mesgid - 1)
    BY <1>0 DEF CacheTypeOK, TakenInOrder, Numbers
  <2>2. PICK n \in Nat : n = mesgid - 1 /\ mesgid = n + 1
    BY <1>0, <2>1
  <2>2a. vcache \o Made(n + 1, Batch) \in Seq(Nat)
         /\ taken \o (vcache \o Made(n + 1, Batch)) = Numbers(n + Batch)
    BY <2>1, <2>2, NumbersGoOn, ZenonT(40)
  <2>3. TakenInOrder' /\ vcache' \in Seq(Nat)
    <3>1. vcache' = vcache \o Made(mesgid, Batch) /\ taken' = taken
      BY <1>4 DEF Push, Made
    <3>2. mesgid' - 1 = n + Batch
      BY <1>4, <2>2 DEF Push
    <3>3. vcache' \in Seq(Nat) /\ taken' \o vcache' = Numbers(mesgid' - 1)
      BY <2>2, <2>2a, <3>1, <3>2
    <3> QED
      BY <3>3 DEF Numbers, TakenInOrder
  <2>4. mesgid' \in Nat /\ mesgid' >= 1
    BY <1>0, <1>4, <2>1 DEF Push
  <2>5. CacheTypeOK'
    BY <1>0, <1>4, <2>3, <2>4 DEF Push, CacheTypeOK
  <2>6. mutex = t /\ \A u \in Consumers : opc[u] \notin {"test", "erase"}
    BY <1>0, <1>4 DEF Push, CacheMutex
  <2>7. sig'[t] = "broadcast" /\ opc' = opc /\ \A u \in Threads : u # t => sig'[u] = sig[u]
    BY <1>0, <1>4 DEF Push, CacheTypeOK
  <2>8. CacheMutex' /\ CopyInv'
    BY <1>0, <2>6, <2>7 DEF CacheMutex, CopyInv
  <2> QED
    BY <2>3, <2>4, <2>5, <2>8 DEF CacheInv
<1>5. ASSUME NEW t \in Threads, Broadcast(t) PROVE CacheInv'
  <2>1. \A u \in Consumers : opc'[u] \in {"lock", opc[u]}
    BY <1>5 DEF Broadcast, Woken
  <2>2. CacheTypeOK' /\ mesgid' >= 1
    <3>1. \A u \in Consumers : Woken(u) \in {"lock", "test", "erase", "wait"}
      BY <1>0 DEF Woken, CacheTypeOK
    <3> QED
      BY <1>0, <1>5, <3>1 DEF Broadcast, CacheTypeOK
  <2>3. sig'[t] = "none" /\ \A u \in Threads : u # t => sig'[u] = sig[u]
    BY <1>0, <1>5 DEF Broadcast, CacheTypeOK
  <2>4. CacheMutex'
    BY <1>0, <1>5, <2>1, <2>3 DEF Broadcast, CacheMutex
  <2>5. CopyInv' /\ TakenInOrder'
    BY <1>0, <1>5, <2>1 DEF Broadcast, CopyInv, TakenInOrder
  <2> QED
    BY <2>2, <2>4, <2>5 DEF CacheInv
<1> USE DEF At, Goes
<1>6. ASSUME NEW t \in Consumers, LockOut(t) PROVE CacheInv'
  <2>1. CacheTypeOK' /\ mesgid' >= 1
    BY <1>0, <1>6 DEF LockOut, CacheTypeOK
  <2>2. opc'[t] = "test" /\ \A u \in Consumers : u # t => opc'[u] = opc[u]
    BY <1>0, <1>6 DEF LockOut, CacheTypeOK
  <2>3. mutex = Nobody /\ mutex' = t /\ sig' = sig /\ sig[t] = "none"
    BY <1>6 DEF LockOut
  <2>4. CacheMutex'
    BY <1>0, <2>2, <2>3 DEF CacheMutex
  <2>5. CopyInv' /\ TakenInOrder'
    BY <1>0, <1>6, <2>2 DEF LockOut, CopyInv, TakenInOrder
  <2> QED
    BY <2>1, <2>4, <2>5 DEF CacheInv
<1>7. ASSUME NEW t \in Consumers, CondWait(t) PROVE CacheInv'
  <2>1. CacheTypeOK' /\ mesgid' >= 1
    BY <1>0, <1>7 DEF CondWait, CacheTypeOK
  <2>2. CacheMutex'
    BY <1>0, <1>7, MutexKept DEF CondWait
  <2>3. CopyInv'
    BY <1>0, <1>7, CopyKept DEF CondWait, CacheTypeOK
  <2>4. TakenInOrder'
    BY <1>0, <1>7 DEF CondWait, TakenInOrder
  <2> QED
    BY <2>1, <2>2, <2>3, <2>4 DEF CacheInv
<1>8. ASSUME NEW t \in Consumers, WakesUp(t) PROVE CacheInv'
  <2>1. CacheTypeOK' /\ mesgid' >= 1
    BY <1>0, <1>8 DEF WakesUp, CacheTypeOK
  <2>2. CacheMutex'
    BY <1>0, <1>8, MutexKept DEF WakesUp
  <2>3. CopyInv'
    BY <1>0, <1>8, CopyKept DEF WakesUp, CacheTypeOK
  <2>4. TakenInOrder'
    BY <1>0, <1>8 DEF WakesUp, TakenInOrder
  <2> QED
    BY <2>1, <2>2, <2>3, <2>4 DEF CacheInv
<1>9. ASSUME NEW t \in Consumers, Copy(t) PROVE CacheInv'
  <2>1. Head(vcache) \in Nat
    BY <1>0, <1>9 DEF Copy, CacheTypeOK
  <2>2. CacheTypeOK' /\ mesgid' >= 1
    BY <1>0, <1>9, <2>1 DEF Copy, CacheTypeOK
  <2>3. /\ opc'[t] = "erase" /\ opc[t] = "test" /\ stmesg'[t] = Head(vcache)
        /\ \A u \in Consumers : u # t => opc'[u] = opc[u] /\ stmesg'[u] = stmesg[u]
    BY <1>0, <1>9 DEF Copy, CacheTypeOK
  <2>4. mutex' = mutex /\ sig' = sig /\ vcache' = vcache /\ vcache # <<>>
    BY <1>9 DEF Copy
  <2>5. CacheMutex'
    BY <1>0, <2>3, <2>4 DEF CacheMutex
  <2>6. CopyInv'
    BY <1>0, <2>3, <2>4 DEF CopyInv
  <2>7. TakenInOrder'
    BY <1>0, <1>9 DEF Copy, TakenInOrder
  <2> QED
    BY <2>2, <2>5, <2>6, <2>7 DEF CacheInv
<1>10. ASSUME NEW t \in Consumers, Erase(t) PROVE CacheInv'
  <2>1. /\ vcache # <<>> /\ stmesg[t] = Head(vcache) /\ mutex = t
        /\ \A u \in Consumers : u # t => opc[u] \notin {"test", "erase"}
    BY <1>0, <1>10 DEF Erase, CopyInv, CacheMutex
  <2>2. vcache' = Tail(vcache) /\ taken' = Append(taken, Head(vcache))
    BY <1>10, <2>1 DEF Erase
  <2>3. /\ vcache \in Seq(Nat) /\ taken \in Seq(Nat)
        /\ vcache' \in Seq(Nat) /\ taken' \in Seq(Nat)
    BY <1>0, <2>1, <2>2 DEF CacheTypeOK
  <2>4. CacheTypeOK' /\ mesgid' >= 1
    BY <1>0, <1>10, <2>3 DEF Erase, CacheTypeOK
  <2>5. taken' \o vcache' = taken \o vcache
    BY <2>1, <2>2, <2>3, MessageMoves
  <2>6. TakenInOrder'
    BY <1>0, <1>10, <2>5 DEF Erase, TakenInOrder
  <2>7. CacheMutex'
    BY <1>0, <1>10, MutexKept DEF Erase
  <2>8. opc'[t] = "lock" /\ \A u \in Consumers : u # t => opc'[u] = opc[u]
    BY <1>0, <1>10 DEF Erase, CacheTypeOK
  <2>9. CopyInv'
    BY <2>1, <2>8 DEF CopyInv
  <2> QED
    BY <2>4, <2>6, <2>7, <2>9 DEF CacheInv
<1>11. CASE UNCHANGED cacheVars
  BY <1>0, <1>11 DEF cacheVars, CacheTypeOK, CacheMutex, CopyInv, TakenInOrder, CacheInv
<1> QED
  BY <1>1, <1>2, <1>3, <1>4, <1>5, <1>6, <1>7, <1>8, <1>9, <1>10, <1>11
     DEF CacheNext, Holding, Consume

\* The inductive invariant of the producer-consumer program.
THEOREM CacheInvariant == CacheSpec => []CacheInv
<1>1. CacheInit => CacheInv
  BY CacheInvInit
<1>2. CacheInv /\ [CacheNext]_cacheVars => CacheInv'
  BY CacheInvStep
<1> QED
  BY <1>1, <1>2, PTL DEF CacheSpec

\* Every message is taken once and in the order of its number, however many
\* consumers there are and wherever the signal interrupts them.
THEOREM MessagesInTurn == CacheSpec => []TakenInOrder
<1>1. CacheInv => TakenInOrder
  BY DEF CacheInv
<1> QED
  BY <1>1, CacheInvariant, PTL

-----------------------------------------------------------------------------
\* The nodes in use, the two sides, and the order of keys seen from one side.
Live(u) == {x \in Nodes : u.key[x] # NoKey}
Lt(d, a, b) == IF d = "left" THEN a < b ELSE b < a

\* S gives the nodes at and below each node; blank nodes and nil have none.
Below(u, S, x, d) ==
  /\ S[x] = {x} \cup S[u.child[d][x]] \cup S[u.child[Other(d)][x]]
  /\ S[u.child[d][x]] \cap S[u.child[Other(d)][x]] = {}
  /\ x \notin S[u.child[d][x]]
  /\ u.child[d][x] # nil => u.child[d][x] \in Live(u) /\ u.parent[u.child[d][x]] = x
Above(u, x) ==
  u.parent[x] \in Live(u) /\ \E d \in Sides : u.child[d][u.parent[x]] = x
Shaped(u, S) ==
  /\ S \in [Node0 -> SUBSET Live(u)]
  /\ \A x \in Node0 \ Live(u) : S[x] = {} /\ \A d \in Sides : u.child[d][x] = nil
  /\ \A x \in Live(u), d \in Sides : Below(u, S, x, d)
  /\ S[u.root] = Live(u)
  /\ u.root # nil => u.root \in Live(u) /\ u.parent[u.root] = nil
  /\ \A x \in Live(u) \ {u.root} : Above(u, x)

\* A search tree: on each side of a node are the keys that belong there.
Parted(u, S, x, d) == \A y \in S[u.child[d][x]] : Lt(d, u.key[y], u.key[x])
Ordered(u, S) == \A x \in Live(u), d \in Sides : Parted(u, S, x, d)

Sound(u, S) == u \in Trees /\ Shaped(u, S) /\ Ordered(u, S)

\* The two sides.
LEMMA SidesAre ==
  ASSUME NEW d \in Sides
  PROVE  /\ Other(d) \in Sides /\ Other(d) # d /\ Other(Other(d)) = d
         /\ \A e \in Sides : e # d => e = Other(d)
BY DEF Sides, Other

\* nil is no node.
LEMMA NodesAre == nil \notin Nodes /\ nil \in Node0 /\ Nodes \subseteq Node0 /\ Node0 \ {nil} = Nodes
BY RbTreeAssumption DEF Nodes, Node0, nil

\* What Replace (the first part of a rotation, and of a splice) does.
LEMMA ReplaceRoot ==
  ASSUME NEW u \in Trees, NEW x \in Node0, NEW y \in Node0, u.parent[x] = nil
  PROVE  \E v \in Trees : /\ Replace(u, x, y) = v
                          /\ v.root = y /\ v.child = u.child /\ v.parent = u.parent
                          /\ v.red = u.red /\ v.key = u.key
<1> DEFINE v == [u EXCEPT !.root = y]
<1>1. Replace(u, x, y) = v
  BY DEF Replace
<1>2. v \in Trees /\ v.root = y /\ v.child = u.child /\ v.parent = u.parent /\ v.red = u.red /\ v.key = u.key
  BY DEF Trees
<1> HIDE DEF v
<1> QED BY <1>1, <1>2

\* The same below a parent: one child field changes.
LEMMA ReplaceBelow ==
  ASSUME NEW u \in Trees, NEW x \in Node0, NEW y \in Node0,
         NEW p \in Node0, u.parent[x] = p, p # nil, NEW s \in Sides, SideOf(u, x) = s
  PROVE  \E v \in Trees : /\ Replace(u, x, y) = v
                          /\ v.root = u.root /\ v.parent = u.parent /\ v.red = u.red /\ v.key = u.key
                          /\ v.child[s][p] = y
                          /\ \A e \in Sides, w \in Node0 : e # s \/ w # p => v.child[e][w] = u.child[e][w]
<1> DEFINE c == [u.child EXCEPT ![s] = [u.child[s] EXCEPT ![p] = y]]
           v == [u EXCEPT !.child = c]
<1>1. Replace(u, x, y) = v
  BY DEF Replace
<1>2. u.child \in [Sides -> [Node0 -> Node0]]
  BY DEF Trees
<1>3. c \in [Sides -> [Node0 -> Node0]]
  BY <1>2
<1>4. c[s][p] = y /\ \A e \in Sides, w \in Node0 : e # s \/ w # p => c[e][w] = u.child[e][w]
  BY <1>2
<1> HIDE DEF c
<1>5. v \in Trees /\ v.child = c /\ v.root = u.root /\ v.parent = u.parent /\ v.red = u.red /\ v.key = u.key
  BY <1>3 DEF Trees
<1> HIDE DEF v
<1> QED BY <1>1, <1>4, <1>5

\* Three assignments to different places of one field.
LEMMA ThreeChanges ==
  ASSUME NEW A, NEW B, NEW f \in [A -> B],
         NEW a1 \in A, NEW b1 \in B, NEW a2 \in A, NEW b2 \in B, NEW a3 \in A, NEW b3 \in B,
         a1 # a2, a1 # a3, a2 # a3
  PROVE  LET g == [f EXCEPT ![a1] = b1, ![a2] = b2, ![a3] = b3]
         IN
         /\ g \in [A -> B]
         /\ g[a1] = b1 /\ g[a2] = b2 /\ g[a3] = b3
         /\ \A a \in A \ {a1, a2, a3} : g[a] = f[a]
<1> DEFINE h == [f EXCEPT ![a1] = b1]
           k == [h EXCEPT ![a2] = b2]
           l == [k EXCEPT ![a3] = b3]
           g == [f EXCEPT ![a1] = b1, ![a2] = b2, ![a3] = b3]
<1>1. h \in [A -> B] /\ h[a1] = b1 /\ \A a \in A \ {a1} : h[a] = f[a]
  OBVIOUS
<1>2. g = l
  OBVIOUS
<1> HIDE DEF h, g
<1>3. k \in [A -> B] /\ k[a2] = b2 /\ \A a \in A \ {a2} : k[a] = h[a]
  BY <1>1
<1> HIDE DEF k
<1>4. l \in [A -> B] /\ l[a3] = b3 /\ \A a \in A \ {a3} : l[a] = k[a]
  BY <1>3
<1> HIDE DEF l
<1> QED BY <1>1, <1>2, <1>3, <1>4 DEF g

Relinked(r, v, d, x, y, b, p) ==
  /\ r.root = v.root /\ r.red = v.red /\ r.key = v.key
  /\ r.child[Other(d)][x] = b /\ r.child[d][y] = x
  /\ \A e \in Sides, w \in Node0 :
       (e # Other(d) \/ w # x) /\ (e # d \/ w # y) => r.child[e][w] = v.child[e][w]
  /\ r.parent[x] = y /\ r.parent[y] = p /\ (b # nil => r.parent[b] = x)
  /\ \A w \in Node0 \ {x, y} : w # b \/ b = nil => r.parent[w] = v.parent[w]

\* What the second part of a rotation does to every field.
LEMMA RelinkIs ==
  ASSUME NEW v \in Trees, NEW d \in Sides, NEW x \in Node0, NEW y \in Node0, NEW b \in Node0, NEW p \in Node0,
         x # y, b # x, b # y
  PROVE  /\ Relink(v, d, x, y, b, p) \in Trees
         /\ Relinked(Relink(v, d, x, y, b, p), v, d, x, y, b, p)
<1> DEFINE c == [v.child EXCEPT ![d][y] = x, ![Other(d)][x] = b]
           m == IF b # nil THEN x ELSE v.parent[b]
           q == [v.parent EXCEPT ![b] = m, ![y] = p, ![x] = y]
           r == [v EXCEPT !.child = c, !.parent = q]
<1>1. Relink(v, d, x, y, b, p) = r
  BY DEF Relink
<1>2. v.child \in [Sides -> [Node0 -> Node0]] /\ v.parent \in [Node0 -> Node0]
  BY DEF Trees
<1>3. Other(d) \in Sides /\ Other(d) # d /\ \A e \in Sides : e = d \/ e = Other(d)
  BY SidesAre
<1>4. c \in [Sides -> [Node0 -> Node0]]
  BY <1>2, <1>3
<1>5. c[d] = [v.child[d] EXCEPT ![y] = x] /\ c[Other(d)] = [v.child[Other(d)] EXCEPT ![x] = b]
  BY <1>2, <1>3
<1>6. c[Other(d)][x] = b /\ c[d][y] = x
  BY <1>2, <1>3, <1>5
<1>7. \A e \in Sides, w \in Node0 :
        (e # Other(d) \/ w # x) /\ (e # d \/ w # y) => c[e][w] = v.child[e][w]
  <2> SUFFICES ASSUME NEW e \in Sides, NEW w \in Node0, (e # Other(d) \/ w # x) /\ (e # d \/ w # y)
               PROVE  c[e][w] = v.child[e][w]
    OBVIOUS
  <2> HIDE DEF c
  <2>1. CASE e = d
    BY <1>2, <1>3, <1>5, <2>1
  <2>2. CASE e = Other(d)
    BY <1>2, <1>3, <1>5, <2>2
  <2> QED BY <1>3, <2>1, <2>2
<1>8. m \in Node0
  BY <1>2
<1>9. /\ q \in [Node0 -> Node0]
      /\ q[x] = y /\ q[y] = p /\ q[b] = m
      /\ \A w \in Node0 \ {b, y, x} : q[w] = v.parent[w]
  <2> HIDE DEF m
  <2> QED BY <1>2, <1>8, ThreeChanges
<1> HIDE DEF c, q
<1>10. r \in Trees /\ r.root = v.root /\ r.red = v.red /\ r.key = v.key /\ r.child = c /\ r.parent = q
  BY <1>4, <1>9 DEF Trees
<1> HIDE DEF r
<1> QED BY <1>1, <1>6, <1>7, <1>9, <1>10 DEF Relinked

\* What a rotation does to each field.
Rotated(r, u, d, x, y, b, p, s) ==
  /\ r.red = u.red /\ r.key = u.key
  /\ p = nil => r.root = y
  /\ p # nil => r.root = u.root /\ r.child[s][p] = y
  /\ r.child[Other(d)][x] = b /\ r.child[d][x] = u.child[d][x]
  /\ r.child[d][y] = x /\ r.child[Other(d)][y] = u.child[Other(d)][y]
  /\ \A e \in Sides, w \in Node0 \ {x, y} :
       p = nil \/ w # p \/ e # s => r.child[e][w] = u.child[e][w]
  /\ r.parent[x] = y /\ r.parent[y] = p /\ (b # nil => r.parent[b] = x)
  /\ \A w \in Node0 \ {x, y} : w # b \/ b = nil => r.parent[w] = u.parent[w]

\* rbtree_left_rotate and rbtree_right_rotate, field by field.
LEMMA RotateIs ==
  ASSUME NEW u \in Trees, NEW d \in Sides, NEW x \in Nodes,
         NEW y \in Nodes, u.child[Other(d)][x] = y,
         NEW b \in Node0, u.child[d][y] = b,
         NEW p \in Node0, u.parent[x] = p, NEW s \in Sides, SideOf(u, x) = s,
         y # x, b # x, b # y, p # x, p # y
  PROVE  Rotate(u, d, x) \in Trees /\ Rotated(Rotate(u, d, x), u, d, x, y, b, p, s)
<1>1. x \in Node0 /\ y \in Node0
  BY NodesAre
<1>2. Other(d) \in Sides /\ Other(d) # d
  BY SidesAre
<1>3. PICK v \in Trees :
        /\ Replace(u, x, y) = v
        /\ v.parent = u.parent /\ v.red = u.red /\ v.key = u.key
        /\ p = nil => v.root = y /\ v.child = u.child
        /\ p # nil => v.root = u.root /\ v.child[s][p] = y
        /\ \A e \in Sides, w \in Node0 : p = nil \/ e # s \/ w # p => v.child[e][w] = u.child[e][w]
  <2>1. CASE p = nil
    BY <1>1, <2>1, ReplaceRoot
  <2>2. CASE p # nil
    BY <1>1, <2>2, ReplaceBelow
  <2> QED BY <2>1, <2>2
<1> DEFINE r == Relink(v, d, x, y, b, p)
<1>4. r \in Trees /\ Relinked(r, v, d, x, y, b, p)
  <2>1. x # y
    OBVIOUS
  <2> QED BY <1>1, <2>1, RelinkIs
<1>5. Rotate(u, d, x) = r
  BY <1>3 DEF Rotate
<1> HIDE DEF r
<1>6. r.child[d][x] = u.child[d][x] /\ r.child[Other(d)][y] = u.child[Other(d)][y]
  BY <1>1, <1>2, <1>3, <1>4 DEF Relinked
<1>7. p # nil => r.child[s][p] = y
  BY <1>3, <1>4 DEF Relinked
<1>8. \A e \in Sides, w \in Node0 \ {x, y} :
        p = nil \/ w # p \/ e # s => r.child[e][w] = u.child[e][w]
  BY <1>3, <1>4 DEF Relinked
<1>9. \A w \in Node0 \ {x, y} : w # b \/ b = nil => r.parent[w] = u.parent[w]
  BY <1>3, <1>4 DEF Relinked
<1> QED BY <1>3, <1>4, <1>5, <1>6, <1>7, <1>8, <1>9 DEF Relinked, Rotated

-----------------------------------------------------------------------------
\* What follows from the shape alone.
LEMMA LiveAre ==
  ASSUME NEW u \in Trees
  PROVE  /\ Live(u) \subseteq Nodes /\ nil \notin Live(u) /\ Live(u) \subseteq Node0
         /\ \A x \in Live(u) : u.key[x] \in Keys /\ u.key[x] \in Int
         /\ u.root \in Node0 /\ \A x \in Node0 : u.parent[x] \in Node0 /\ \A d \in Sides : u.child[d][x] \in Node0
<1>1. Live(u) \subseteq Nodes /\ nil \notin Live(u) /\ Live(u) \subseteq Node0
  BY NodesAre DEF Live
<1>2. u.key \in [Node0 -> Keys \cup {NoKey}] /\ u.parent \in [Node0 -> Node0]
      /\ u.child \in [Sides -> [Node0 -> Node0]] /\ u.root \in Node0
  BY DEF Trees
<1>3. ASSUME NEW x \in Live(u)
      PROVE  u.key[x] \in Keys /\ u.key[x] \in Int
  BY <1>1, <1>2, RbTreeAssumption DEF Live
<1> QED BY <1>1, <1>2, <1>3

\* The order seen from a side is an order.
LEMMA LtIs ==
  ASSUME NEW d \in Sides, NEW a \in Int, NEW b \in Int
  PROVE  /\ Lt(Other(d), a, b) <=> Lt(d, b, a)
         /\ Lt(d, a, b) => a # b
         /\ a # b => Lt(d, a, b) \/ Lt(d, b, a)
         /\ \A c \in Int : Lt(d, a, b) /\ Lt(d, b, c) => Lt(d, a, c)
BY DEF Lt, Other, Sides

\* What a child says of the subtrees above and beside it.
LEMMA ChildIs ==
  ASSUME NEW u \in Trees, NEW S, Shaped(u, S), NEW x \in Live(u), NEW d \in Sides,
         NEW y, u.child[d][x] = y
  PROVE  /\ x \in S[x] /\ S[y] \subseteq S[x] /\ x \notin S[y] /\ y # x
         /\ S[y] \cap S[u.child[Other(d)][x]] = {}
         /\ S[x] = {x} \cup S[y] \cup S[u.child[Other(d)][x]]
         /\ y # nil => y \in Live(u) /\ y \in S[y] /\ y \in S[x] /\ u.parent[y] = x /\ y # u.child[Other(d)][x]
<1>1. Below(u, S, x, d)
  BY DEF Shaped
<1>2. x \in S[x] /\ S[y] \subseteq S[x] /\ x \notin S[y]
      /\ S[y] \cap S[u.child[Other(d)][x]] = {} /\ S[x] = {x} \cup S[y] \cup S[u.child[Other(d)][x]]
  BY <1>1 DEF Below
<1>3. y # nil => y \in Live(u) /\ u.parent[y] = x
  BY <1>1 DEF Below
<1>4. y # nil => y \in S[y]
  <2> SUFFICES ASSUME y # nil PROVE y \in S[y]
    OBVIOUS
  <2>1. Below(u, S, y, d)
    BY <1>3 DEF Shaped
  <2> QED BY <2>1 DEF Below
<1>5. x # nil
  BY LiveAre
<1> QED BY <1>2, <1>3, <1>4, <1>5

\* SideOf finds the side a node hangs on.
LEMMA SideIs ==
  ASSUME NEW u \in Trees, NEW S, Shaped(u, S), NEW x \in Live(u), x # u.root
  PROVE  /\ u.parent[x] \in Live(u) /\ SideOf(u, x) \in Sides
         /\ u.child[SideOf(u, x)][u.parent[x]] = x
         /\ \A d \in Sides : u.child[d][u.parent[x]] = x => d = SideOf(u, x)
<1>1. u.parent[x] \in Live(u)
  BY DEF Shaped, Above
<1>2. PICK d \in Sides : u.child[d][u.parent[x]] = x
  BY DEF Shaped, Above
<1>3. x \in S[x] /\ x # nil
  BY LiveAre, ChildIs
<1>4. \A e \in Sides : e # d => u.child[e][u.parent[x]] # x
  <2> SUFFICES ASSUME NEW e \in Sides, e # d PROVE u.child[e][u.parent[x]] # x
    OBVIOUS
  <2>1. e = Other(d)
    BY SidesAre
  <2>2. x # u.child[Other(d)][u.parent[x]]
    BY <1>1, <1>2, <1>3, ChildIs
  <2> QED BY <2>1, <2>2
<1>5. SideOf(u, x) = d
  BY <1>2, <1>4 DEF SideOf, Sides
<1> QED BY <1>1, <1>2, <1>4, <1>5

\* Only the root has no parent.
LEMMA RootIs ==
  ASSUME NEW u \in Trees, NEW S, Shaped(u, S), NEW x \in Live(u)
  PROVE  x = u.root <=> u.parent[x] = nil
<1>1. x # u.root => u.parent[x] \in Live(u) /\ nil \notin Live(u)
  BY LiveAre, SideIs
<1>2. x = u.root => u.parent[x] = nil
  BY LiveAre DEF Shaped
<1> QED BY <1>1, <1>2

\* Around a rotation: x has a child y on the other side, b is below y on this one.
LEMMA AroundIs ==
  ASSUME NEW u \in Trees, NEW S, Shaped(u, S), NEW d \in Sides, NEW x \in Live(u),
         NEW y, u.child[Other(d)][x] = y, y # nil,
         NEW b, u.child[d][y] = b, NEW p, u.parent[x] = p
  PROVE  /\ y \in Live(u) /\ y # x /\ b # x /\ b # y /\ p # x /\ p # y
         /\ b \in Node0 /\ p \in Node0 /\ x \in Nodes /\ y \in Nodes
         /\ x \notin S[y] /\ y \in S[x] /\ u.parent[y] = x
<1>1. Other(d) \in Sides
  BY SidesAre
<1>2. y \in Live(u) /\ y # x /\ x \notin S[y] /\ y \in S[x] /\ u.parent[y] = x
  BY <1>1, ChildIs
<1>3. b # y /\ (b # nil => b \in S[y])
  BY <1>2, ChildIs
<1>4. x # nil /\ x \in Nodes /\ y \in Nodes /\ b \in Node0 /\ p \in Node0
  BY <1>2, LiveAre
<1>5. b # x
  BY <1>2, <1>3, <1>4
<1>6. p # x /\ p # y
  <2>1. CASE x = u.root
    <3>1. p = nil
      BY <2>1, RootIs
    <3> QED BY <1>4, <3>1, NodesAre
  <2>2. CASE x # u.root
    <3>1. PICK e \in Sides : u.child[e][p] = x /\ p \in Live(u)
      BY <2>2, SideIs
    <3>2. p # x
      BY <3>1, ChildIs
    <3>3. x \in S[p]
      BY <1>4, <3>1, ChildIs
    <3> QED BY <1>2, <3>2, <3>3
  <2> QED BY <2>1, <2>2
<1> QED BY <1>2, <1>3, <1>4, <1>5, <1>6

\* Away from the two nodes of a rotation everything hangs as before: y is
\* where x was.  F and G stand for whatever belongs to a node and its subtree.
LEMMA Elsewhere ==
  ASSUME NEW u \in Trees, NEW S, Shaped(u, S), NEW d \in Sides, NEW x \in Live(u),
         NEW y, u.child[Other(d)][x] = y, y # nil,
         NEW b, u.child[d][y] = b, NEW p, u.parent[x] = p, NEW s, SideOf(u, x) = s,
         NEW r, Rotated(r, u, d, x, y, b, p, s),
         NEW w \in Node0 \ {x, y}, NEW e \in Sides
  PROVE  /\ p # nil /\ w = p /\ e = s => u.child[e][w] = x /\ r.child[e][w] = y
         /\ ~(p # nil /\ w = p /\ e = s) =>
              r.child[e][w] = u.child[e][w] /\ u.child[e][w] \in Node0 \ {x, y}
<1>1. /\ y \in Live(u) /\ p # x /\ p # y /\ u.parent[y] = x
  BY AroundIs
<1>2. x # nil /\ u.child[e][w] \in Node0
  BY LiveAre
<1>3. p = nil <=> x = u.root
  BY RootIs
<1>4. p # nil => u.child[s][p] = x
  BY <1>3, SideIs
<1>5. p # nil => r.child[s][p] = y
  BY DEF Rotated
<1>6. ASSUME ~(p # nil /\ w = p /\ e = s)
      PROVE  r.child[e][w] = u.child[e][w] /\ u.child[e][w] # x /\ u.child[e][w] # y
  <2>1. r.child[e][w] = u.child[e][w]
    BY <1>6 DEF Rotated
  <2>2. CASE w \in Live(u)
    <3>1. u.child[e][w] # nil => u.parent[u.child[e][w]] = w
      BY <2>2, ChildIs
    <3>2. u.child[e][w] # y
      BY <1>1, <3>1
    <3>3. ASSUME u.child[e][w] = x PROVE FALSE
      <4>1. p = w /\ w # nil
        BY <1>2, <2>2, <3>1, <3>3, LiveAre
      <4>2. x # u.root
        BY <1>3, <4>1
      <4>3. e = SideOf(u, x)
        BY <3>3, <4>1, <4>2, SideIs
      <4> QED BY <1>6, <4>1, <4>3
    <3> QED BY <2>1, <3>2, <3>3
  <2>3. CASE w \notin Live(u)
    <3>1. u.child[e][w] = nil
      BY <2>3 DEF Shaped
    <3> QED BY <1>2, <2>1, <3>1
  <2> QED BY <2>2, <2>3
<1> QED BY <1>2, <1>4, <1>5, <1>6

\* A rotation keeps the tree sound; only the subtrees of x and y change.
RotatedSets(u, S, d, x, y) ==
  [n \in Node0 |-> IF n = y THEN S[x]
                   ELSE IF n = x THEN {x} \cup S[u.child[d][x]] \cup S[u.child[d][y]]
                   ELSE S[n]]

\* A rotation keeps the links: child and parent pointers agree and every live
\* node is under the root.
LEMMA RotateShaped ==
  ASSUME NEW u \in Trees, NEW S, Shaped(u, S), NEW d \in Sides, NEW x \in Live(u),
         NEW y, u.child[Other(d)][x] = y, y # nil,
         NEW b, u.child[d][y] = b, NEW p, u.parent[x] = p, NEW s, SideOf(u, x) = s,
         NEW r \in Trees, Rotated(r, u, d, x, y, b, p, s)
  PROVE  Shaped(r, RotatedSets(u, S, d, x, y))
<1> DEFINE V == RotatedSets(u, S, d, x, y)
           a == u.child[d][x]
           f == u.child[Other(d)][y]
<1>1. /\ y \in Live(u) /\ y # x /\ b # x /\ b # y /\ p # x /\ p # y
      /\ b \in Node0 /\ p \in Node0 /\ x \in Nodes /\ y \in Nodes
      /\ x \notin S[y] /\ y \in S[x] /\ u.parent[y] = x
  BY AroundIs
<1>2. Other(d) \in Sides /\ Other(d) # d /\ Other(Other(d)) = d /\ \A e \in Sides : e # d => e = Other(d)
  BY SidesAre
<1>3. Live(r) = Live(u)
  BY DEF Live, Rotated
<1>4. /\ a # x /\ a # y /\ a \in Node0 /\ (a # nil => a \in Live(u) /\ u.parent[a] = x)
      /\ S[a] \cap S[y] = {} /\ x \notin S[a] /\ S[x] = {x} \cup S[a] \cup S[y]
  <2>1. S[a] \cap S[u.child[Other(d)][x]] = {} /\ x \notin S[a]
        /\ S[x] = {x} \cup S[a] \cup S[u.child[Other(d)][x]] /\ a # x
        /\ (a # nil => a \in Live(u) /\ u.parent[a] = x /\ a # u.child[Other(d)][x])
    BY ChildIs
  <2>2. a \in Node0
    BY LiveAre
  <2> QED BY <2>1, <2>2
<1>5. /\ f # y /\ f \in Node0 /\ (f # nil => f \in Live(u) /\ u.parent[f] = y /\ f \in S[y])
      /\ (b # nil => b \in Live(u) /\ u.parent[b] = y /\ b # f)
      /\ S[b] \cap S[f] = {} /\ y \notin S[f] /\ y \notin S[b] /\ S[y] = {y} \cup S[b] \cup S[f]
  <2>1. S[b] \cap S[u.child[Other(d)][y]] = {} /\ y \notin S[b]
        /\ S[y] = {y} \cup S[b] \cup S[u.child[Other(d)][y]]
        /\ (b # nil => b \in Live(u) /\ u.parent[b] = y /\ b # u.child[Other(d)][y])
    BY <1>1, ChildIs
  <2>2. /\ y \notin S[f] /\ f # y
        /\ (f # nil => f \in Live(u) /\ u.parent[f] = y /\ f \in S[y])
    BY <1>1, <1>2, ChildIs
  <2>3. f \in Node0
    BY <1>1, <1>2, LiveAre
  <2> QED BY <2>1, <2>2, <2>3
<1>6. f # x /\ x # nil /\ y # nil
  BY <1>1, <1>5, LiveAre
<1>7. V[y] = S[x] /\ V[x] = {x} \cup S[a] \cup S[b] /\ \A n \in Node0 \ {x, y} : V[n] = S[n]
  BY <1>1, LiveAre DEF RotatedSets
<1>8. V \in [Node0 -> SUBSET Live(r)]
  <2>1. S \in [Node0 -> SUBSET Live(u)]
    BY DEF Shaped
  <2>2. a \in Node0 /\ b \in Node0 /\ x \in Node0
    BY <1>1, <1>4, LiveAre
  <2> QED BY <1>3, <2>1, <2>2 DEF RotatedSets
<1> HIDE DEF V, a, f
<1>9. /\ r.child[Other(d)][x] = b /\ r.child[d][x] = a
      /\ r.child[d][y] = x /\ r.child[Other(d)][y] = f
      /\ r.parent[x] = y /\ r.parent[y] = p /\ (b # nil => r.parent[b] = x)
      /\ \A w \in Node0 \ {x, y} : w # b \/ b = nil => r.parent[w] = u.parent[w]
      /\ (p = nil => r.root = y) /\ (p # nil => r.root = u.root)
  BY DEF Rotated, a, f
<1>10. \A w \in Node0 \ {x, y}, e \in Sides : V[r.child[e][w]] = S[u.child[e][w]]
  <2> TAKE w \in Node0 \ {x, y}, e \in Sides
  <2>1. CASE p # nil /\ w = p /\ e = s
    BY <1>7, <2>1, Elsewhere
  <2>2. CASE ~(p # nil /\ w = p /\ e = s)
    <3>1. r.child[e][w] = u.child[e][w] /\ u.child[e][w] \in Node0 \ {x, y}
      BY <2>2, Elsewhere
    <3> QED BY <1>7, <3>1
  <2> QED BY <2>1, <2>2
<1>11. \A w \in Node0 \ Live(r) : V[w] = {} /\ \A e \in Sides : r.child[e][w] = nil
  <2> SUFFICES ASSUME NEW w \in Node0, w \notin Live(u), NEW e \in Sides
               PROVE  V[w] = {} /\ r.child[e][w] = nil
    BY <1>3
  <2>1. w \in Node0 \ {x, y}
    BY <1>1
  <2>2. S[w] = {} /\ u.child[e][w] = nil
    BY DEF Shaped
  <2>3. CASE p # nil /\ w = p /\ e = s
    <3>1. u.parent[x] \in Live(u)
      BY <2>3, RootIs, SideIs
    <3> QED BY <2>3, <3>1
  <2>4. CASE ~(p # nil /\ w = p /\ e = s)
    <3>1. r.child[e][w] = u.child[e][w]
      BY <2>1, <2>4, Elsewhere
    <3> QED BY <1>7, <2>1, <2>2, <3>1
  <2> QED BY <2>3, <2>4
<1>12. \A w \in Live(r), e \in Sides : Below(r, V, w, e)
  <2> SUFFICES ASSUME NEW w \in Live(u), NEW e \in Sides PROVE Below(r, V, w, e)
    BY <1>3
  <2>1. CASE w = x
    <3>1. V[a] = S[a] /\ V[b] = S[b]
      BY <1>1, <1>4, <1>7
    <3>2. /\ V[x] = {x} \cup V[a] \cup V[b] /\ V[a] \cap V[b] = {} /\ x \notin V[a] /\ x \notin V[b]
      BY <1>1, <1>4, <1>5, <1>7, <3>1
    <3>3. a # nil => r.parent[a] = x
      <4>1. a # nil => a # b
        BY <1>4, <1>5, <1>1
      <4> QED BY <1>4, <1>9, <4>1
    <3>4. CASE e = d
      BY <1>2, <1>3, <1>4, <1>9, <2>1, <3>2, <3>3, <3>4 DEF Below
    <3>5. CASE e = Other(d)
      BY <1>2, <1>3, <1>5, <1>9, <2>1, <3>2, <3>5 DEF Below
    <3> QED BY <1>2, <3>4, <3>5
  <2>2. CASE w = y
    <3>1. V[f] = S[f]
      BY <1>5, <1>6, <1>7
    <3>2. /\ V[y] = {y} \cup V[x] \cup V[f] /\ V[x] \cap V[f] = {} /\ y \notin V[x] /\ y \notin V[f]
      <4>1. y \notin S[a] /\ S[a] \cap S[f] = {} /\ x \notin S[f]
        BY <1>1, <1>4, <1>5
      <4> QED BY <1>1, <1>4, <1>5, <1>7, <3>1, <4>1
    <3>3. f # nil => r.parent[f] = y
      BY <1>5, <1>6, <1>9
    <3>4. CASE e = d
      BY <1>2, <1>3, <1>9, <2>2, <3>2, <3>4 DEF Below
    <3>5. CASE e = Other(d)
      BY <1>2, <1>3, <1>5, <1>9, <2>2, <3>2, <3>3, <3>5 DEF Below
    <3> QED BY <1>2, <3>4, <3>5
  <2>3. CASE w # x /\ w # y
    <3>1. Below(u, S, w, e)
      BY DEF Shaped
    <3>2. w \in Node0 /\ Other(e) \in Sides /\ w # nil
      BY SidesAre, LiveAre
    <3>3. V[w] = S[w] /\ V[r.child[e][w]] = S[u.child[e][w]] /\ V[r.child[Other(e)][w]] = S[u.child[Other(e)][w]]
      BY <1>7, <1>10, <2>3, <3>2
    <3>4. r.child[e][w] # nil => r.child[e][w] \in Live(r) /\ r.parent[r.child[e][w]] = w
      <4>1. CASE p # nil /\ w = p /\ e = s
        <5>1. r.child[e][w] = y
          BY <2>3, <3>2, <4>1, Elsewhere
        <5> QED BY <1>1, <1>3, <1>9, <4>1, <5>1
      <4>2. CASE ~(p # nil /\ w = p /\ e = s)
        <5>1. r.child[e][w] = u.child[e][w] /\ u.child[e][w] \in Node0 \ {x, y}
          BY <2>3, <3>2, <4>2, Elsewhere
        <5>2. u.child[e][w] # nil => u.child[e][w] \in Live(u) /\ u.parent[u.child[e][w]] = w
          BY <3>1 DEF Below
        <5>3. u.child[e][w] # nil => u.child[e][w] # b
          BY <1>5, <2>3, <5>2
        <5> QED BY <1>3, <1>9, <5>1, <5>2, <5>3
      <4> QED BY <4>1, <4>2
    <3> QED BY <3>1, <3>3, <3>4 DEF Below
  <2> QED BY <2>1, <2>2, <2>3
<1>13. p = nil <=> x = u.root
  BY RootIs
<1>14. u.root # nil /\ u.root \in Live(u) /\ u.parent[u.root] = nil /\ S[u.root] = Live(u)
  <2>1. S[u.root] = Live(u)
    BY DEF Shaped
  <2>2. u.root \in Node0 /\ nil \notin Live(u)
    BY LiveAre
  <2>3. u.root # nil
    <3>1. S[nil] = {}
      BY <2>2, NodesAre DEF Shaped
    <3> QED BY <2>1, <3>1
  <2> QED BY <2>1, <2>3 DEF Shaped
<1>15. V[r.root] = Live(r) /\ r.root # nil /\ r.root \in Live(r) /\ r.parent[r.root] = nil
  <2>1. CASE p = nil
    BY <1>1, <1>3, <1>6, <1>7, <1>9, <1>13, <1>14, <2>1
  <2>2. CASE p # nil
    <3>1. r.root = u.root /\ u.root # x
      BY <1>9, <1>13, <2>2
    <3>2. u.root # y /\ (b # nil => u.root # b)
      BY <1>1, <1>5, <1>6, <1>14
    <3>3. u.root \in Node0
      BY LiveAre
    <3> QED BY <1>3, <1>7, <1>9, <1>14, <3>1, <3>2, <3>3
  <2> QED BY <2>1, <2>2
<1>16. \A w \in Live(r) \ {r.root} : Above(r, w)
  <2> SUFFICES ASSUME NEW w \in Live(u), w # r.root PROVE Above(r, w)
    BY <1>3
  <2>1. CASE w = x
    BY <1>1, <1>3, <1>9, <2>1 DEF Above
  <2>2. CASE w = y
    <3>1. p # nil
      BY <1>9, <2>2
    <3>2. p \in Live(u) /\ s \in Sides
      BY <1>13, <3>1, SideIs
    <3>3. r.child[s][p] = y
      BY <3>1 DEF Rotated
    <3> QED BY <1>3, <1>9, <2>2, <3>2, <3>3 DEF Above
  <2>3. CASE w # x /\ w # y /\ w = b
    <3>1. w # nil
      BY LiveAre
    <3> QED BY <1>2, <1>3, <1>9, <2>3, <3>1 DEF Above
  <2>4. CASE w # x /\ w # y /\ w # b
    <3>1. w # u.root
      BY <1>9, <1>13, <2>4
    <3>2. Above(u, w)
      BY <3>1 DEF Shaped
    <3>3. PICK e \in Sides : u.child[e][u.parent[w]] = w
      BY <3>2 DEF Above
    <3>4. u.parent[w] \in Live(u) /\ w \in Node0 /\ w # nil
      BY <3>2, LiveAre DEF Above
    <3>5. r.parent[w] = u.parent[w]
      BY <1>9, <2>4, <3>4
    <3>6. CASE u.parent[w] = x
      <4>1. e = d
        BY <1>2, <2>4, <3>3, <3>6
      <4> QED BY <1>3, <1>9, <3>3, <3>4, <3>5, <3>6, <4>1 DEF Above, a
    <3>7. CASE u.parent[w] = y
      <4>1. e = Other(d)
        BY <1>2, <2>4, <3>3, <3>7
      <4> QED BY <1>2, <1>3, <1>9, <3>3, <3>4, <3>5, <3>7, <4>1 DEF Above, f
    <3>8. CASE u.parent[w] # x /\ u.parent[w] # y
      <4>1. u.parent[w] \in Node0 \ {x, y}
        BY <3>4, <3>8, LiveAre
      <4>2. ~(p # nil /\ u.parent[w] = p /\ e = s)
        BY <2>4, <3>3, <4>1, Elsewhere
      <4>3. r.child[e][u.parent[w]] = w
        BY <3>3, <4>1, <4>2, Elsewhere
      <4> QED BY <1>3, <3>4, <3>5, <4>3 DEF Above
    <3> QED BY <3>6, <3>7, <3>8
  <2> QED BY <2>1, <2>2, <2>3, <2>4
<1> QED BY <1>8, <1>11, <1>12, <1>15, <1>16 DEF Shaped, V

\* A rotation keeps the order of the keys.
LEMMA RotateOrdered ==
  ASSUME NEW u \in Trees, NEW S, Shaped(u, S), Ordered(u, S), NEW d \in Sides, NEW x \in Live(u),
         NEW y, u.child[Other(d)][x] = y, y # nil,
         NEW b, u.child[d][y] = b, NEW p, u.parent[x] = p, NEW s, SideOf(u, x) = s,
         NEW r \in Trees, Rotated(r, u, d, x, y, b, p, s)
  PROVE  Ordered(r, RotatedSets(u, S, d, x, y))
<1> DEFINE V == RotatedSets(u, S, d, x, y)
           a == u.child[d][x]
           f == u.child[Other(d)][y]
<1>1. y \in Live(u) /\ y # x /\ b \in Node0 /\ b # x /\ b # y /\ x \notin S[y] /\ x # nil
  BY AroundIs, LiveAre
<1>2. Other(d) \in Sides /\ Other(d) # d /\ Other(Other(d)) = d /\ \A e \in Sides : e # d => e = Other(d)
  BY SidesAre
<1>3. Live(r) = Live(u) /\ r.key = u.key
  BY DEF Live, Rotated
<1>4. V[y] = S[x] /\ V[x] = {x} \cup S[a] \cup S[b] /\ \A n \in Node0 \ {x, y} : V[n] = S[n]
  BY <1>1, LiveAre DEF RotatedSets
<1>5. a \in Node0 /\ a # x /\ a # y /\ f \in Node0 /\ f # y /\ f # x
  <2>1. a # x /\ (a # nil => a # u.child[Other(d)][x])
    BY ChildIs
  <2>2. f # y /\ (f # nil => f \in S[y])
    BY <1>1, <1>2, ChildIs
  <2>3. a \in Node0 /\ f \in Node0
    BY <1>1, <1>2, LiveAre
  <2> QED BY <1>1, <2>1, <2>2, <2>3
<1>6. S[b] \subseteq S[y] /\ y \in S[y] /\ S[a] \subseteq Live(u) /\ S[y] \subseteq Live(u)
  <2>1. S[b] \subseteq S[y] /\ y \in S[y]
    BY <1>1, ChildIs
  <2>2. S \in [Node0 -> SUBSET Live(u)]
    BY DEF Shaped
  <2> QED BY <1>1, <1>5, <2>1, <2>2, LiveAre
<1>7. /\ \A n \in S[a] : Lt(d, u.key[n], u.key[x])
      /\ \A n \in S[y] : Lt(Other(d), u.key[n], u.key[x])
      /\ \A n \in S[b] : Lt(d, u.key[n], u.key[y])
      /\ \A n \in S[f] : Lt(Other(d), u.key[n], u.key[y])
  <2>1. Parted(u, S, x, d) /\ Parted(u, S, x, Other(d)) /\ Parted(u, S, y, d) /\ Parted(u, S, y, Other(d))
    BY <1>1, <1>2 DEF Ordered
  <2> QED BY <2>1 DEF Parted
<1>8. Lt(d, u.key[x], u.key[y])
  BY <1>1, <1>6, <1>7, LtIs, LiveAre
<1>9. \A n \in S[a] : Lt(d, u.key[n], u.key[y])
  <2> TAKE n \in S[a]
  <2>1. u.key[n] \in Int /\ u.key[x] \in Int /\ u.key[y] \in Int
    BY <1>1, <1>6, LiveAre
  <2> QED BY <1>7, <1>8, <2>1, LtIs
<1> HIDE DEF V
<1> SUFFICES ASSUME NEW w \in Live(u), NEW e \in Sides PROVE Parted(r, V, w, e)
  BY <1>3 DEF Ordered, V
<1>10. /\ r.child[Other(d)][x] = b /\ r.child[d][x] = a
       /\ r.child[d][y] = x /\ r.child[Other(d)][y] = f
  BY DEF Rotated
<1> HIDE DEF a, f
<1>11. CASE w = x
  <2>1. V[a] = S[a] /\ \A n \in V[a] : Lt(d, u.key[n], u.key[x])
    BY <1>4, <1>5, <1>7
  <2>2. V[b] = S[b] /\ \A n \in V[b] : Lt(Other(d), u.key[n], u.key[x])
    BY <1>1, <1>4, <1>6, <1>7
  <2>3. CASE e = d
    BY <1>3, <1>10, <1>11, <2>1, <2>3 DEF Parted
  <2>4. CASE e = Other(d)
    BY <1>3, <1>10, <1>11, <2>2, <2>4 DEF Parted
  <2> QED BY <1>2, <2>3, <2>4
<1>12. CASE w = y
  <2>1. \A n \in V[x] : Lt(d, u.key[n], u.key[y])
    BY <1>4, <1>7, <1>8, <1>9
  <2>2. \A n \in V[f] : Lt(Other(d), u.key[n], u.key[y])
    BY <1>4, <1>5, <1>7
  <2>3. CASE e = d
    BY <1>3, <1>10, <1>12, <2>1, <2>3 DEF Parted
  <2>4. CASE e = Other(d)
    BY <1>3, <1>10, <1>12, <2>2, <2>4 DEF Parted
  <2> QED BY <1>2, <2>3, <2>4
<1>13. CASE w # x /\ w # y
  <2>1. w \in Node0 \ {x, y}
    BY <1>13, LiveAre
  <2>2. V[r.child[e][w]] = S[u.child[e][w]]
    <3>1. CASE p # nil /\ w = p /\ e = s
      BY <1>4, <2>1, <3>1, Elsewhere
    <3>2. CASE ~(p # nil /\ w = p /\ e = s)
      <4>1. r.child[e][w] = u.child[e][w] /\ u.child[e][w] \in Node0 \ {x, y}
        BY <2>1, <3>2, Elsewhere
      <4> QED BY <1>4, <4>1
    <3> QED BY <3>1, <3>2
  <2>3. Parted(u, S, w, e)
    BY DEF Ordered
  <2> QED BY <1>3, <2>2, <2>3 DEF Parted
<1> QED BY <1>11, <1>12, <1>13

-----------------------------------------------------------------------------
\* Repainting: only the colours of v differ from those of u.
Painted(v, u) ==
  v \in Trees /\ v.root = u.root /\ v.child = u.child /\ v.parent = u.parent /\ v.key = u.key

\* Painting one node changes no other field; painting two and three different
\* nodes likewise.
LEMMA PaintOne ==
  ASSUME NEW u \in Trees, NEW i \in Node0, NEW ci \in BOOLEAN
  PROVE  LET v == [u EXCEPT !.red[i] = ci]
         IN  Painted(v, u) /\ v.red[i] = ci /\ \A n \in Node0 \ {i} : v.red[n] = u.red[n]
<1> DEFINE f == [u.red EXCEPT ![i] = ci]
           v == [u EXCEPT !.red[i] = ci]
           w == [u EXCEPT !.red = f]
<1>1. v = w
  OBVIOUS
<1>2. u.red \in [Node0 -> BOOLEAN]
  BY DEF Trees
<1>3. f \in [Node0 -> BOOLEAN] /\ f[i] = ci /\ \A n \in Node0 \ {i} : f[n] = u.red[n]
  BY <1>2
<1> HIDE DEF f, v
<1>4. w \in Trees /\ w.red = f /\ w.root = u.root /\ w.child = u.child /\ w.parent = u.parent /\ w.key = u.key
  BY <1>3 DEF Trees
<1> HIDE DEF w
<1> QED BY <1>1, <1>3, <1>4 DEF Painted, v

Paint2(u, i, ci, j, cj) == [u EXCEPT !.red[i] = ci, !.red[j] = cj]
Dyed2(v, u, i, ci, j, cj) ==
  Painted(v, u) /\ v.red[i] = ci /\ v.red[j] = cj /\ \A n \in Node0 \ {i, j} : v.red[n] = u.red[n]
Paint3(u, i, ci, j, cj, k, ck) == [u EXCEPT !.red[i] = ci, !.red[j] = cj, !.red[k] = ck]
Dyed3(v, u, i, ci, j, cj, k, ck) ==
  /\ Painted(v, u) /\ v.red[i] = ci /\ v.red[j] = cj /\ v.red[k] = ck
  /\ \A n \in Node0 \ {i, j, k} : v.red[n] = u.red[n]

LEMMA PaintTwo ==
  ASSUME NEW u \in Trees, NEW i \in Node0, NEW ci \in BOOLEAN, NEW j \in Node0, NEW cj \in BOOLEAN, i # j
  PROVE  Dyed2(Paint2(u, i, ci, j, cj), u, i, ci, j, cj)
<1> DEFINE v == [u EXCEPT !.red[i] = ci, !.red[j] = cj]
           a == [u EXCEPT !.red[i] = ci]
           b == [a EXCEPT !.red[j] = cj]
<1>1. v = b
  OBVIOUS
<1>2. Painted(a, u) /\ a.red[i] = ci /\ \A n \in Node0 \ {i} : a.red[n] = u.red[n]
  BY PaintOne
<1> HIDE DEF a, v
<1>3. a \in Trees
  BY <1>2 DEF Painted
<1>4. Painted(b, a) /\ b.red[j] = cj /\ \A n \in Node0 \ {j} : b.red[n] = a.red[n]
  BY <1>3, PaintOne
<1> HIDE DEF b
<1> QED BY <1>1, <1>2, <1>4 DEF Painted, v, Paint2, Dyed2

LEMMA PaintThree ==
  ASSUME NEW u \in Trees, NEW i \in Node0, NEW ci \in BOOLEAN, NEW j \in Node0, NEW cj \in BOOLEAN,
         NEW k \in Node0, NEW ck \in BOOLEAN, i # j, i # k, j # k
  PROVE  Dyed3(Paint3(u, i, ci, j, cj, k, ck), u, i, ci, j, cj, k, ck)
<1> DEFINE v == [u EXCEPT !.red[i] = ci, !.red[j] = cj, !.red[k] = ck]
           a == [u EXCEPT !.red[i] = ci]
           b == [a EXCEPT !.red[j] = cj]
           c == [b EXCEPT !.red[k] = ck]
<1>1. v = c
  OBVIOUS
<1>2. Painted(a, u) /\ a.red[i] = ci /\ \A n \in Node0 \ {i} : a.red[n] = u.red[n]
  BY PaintOne
<1> HIDE DEF a, v
<1>3. a \in Trees
  BY <1>2 DEF Painted
<1>4. Painted(b, a) /\ b.red[j] = cj /\ \A n \in Node0 \ {j} : b.red[n] = a.red[n]
  BY <1>3, PaintOne
<1> HIDE DEF b
<1>5. b \in Trees
  BY <1>4 DEF Painted
<1>6. Painted(c, b) /\ c.red[k] = ck /\ \A n \in Node0 \ {k} : c.red[n] = b.red[n]
  BY <1>5, PaintOne
<1> HIDE DEF c
<1> QED BY <1>1, <1>2, <1>4, <1>6 DEF Painted, v, Paint3, Dyed3

\* Colours matter to neither the links nor the order.
LEMMA PaintedSound ==
  ASSUME NEW u, NEW S, Sound(u, S), NEW v, Painted(v, u)
  PROVE  Sound(v, S) /\ Live(v) = Live(u)
<1>1. Live(v) = Live(u)
  BY DEF Painted, Live
<1>2. Shaped(v, S) <=> Shaped(u, S)
  BY <1>1 DEF Painted, Shaped, Below, Above
<1>3. Ordered(v, S) <=> Ordered(u, S)
  BY <1>1 DEF Painted, Ordered, Parted
<1> QED BY <1>1, <1>2, <1>3 DEF Sound, Painted

\* The black heights h.  P and D give the one place where a black node may be
\* missing: on side D of P; nil means nowhere.
Weight(u, x) == IF u.red[x] THEN 0 ELSE 1
Level(u, h, x, d, P, D) ==
  /\ ~(x = P /\ d = D) => h[u.child[d][x]] + Weight(u, x) = h[x]
  /\ x = P /\ d = D => h[u.child[d][x]] + 1 + Weight(u, x) = h[x]
Even(u, h, P, D) ==
  h \in [Node0 -> Nat] /\ h[nil] = 0 /\ \A x \in Live(u), d \in Sides : Level(u, h, x, d, P, D)

\* The colours.  A red V may have a red parent or be the root, a red W may have
\* red children; nil means no exception.
Clash(u, V, W, x, d) == u.red[x] /\ u.red[u.child[d][x]] => u.child[d][x] = V \/ x = W
Colours(u, V, W) ==
  ~u.red[nil] /\ (u.red[u.root] => u.root = V) /\ \A x \in Live(u), d \in Sides : Clash(u, V, W, x, d)

\* A rotation at x in a repainted tree.
Turn(u, S, d, x, y, b, p, s, v, r) ==
  /\ Sound(u, S) /\ d \in Sides /\ x \in Live(u) /\ u.child[Other(d)][x] = y /\ y # nil
  /\ u.child[d][y] = b /\ u.parent[x] = p /\ SideOf(u, x) = s
  /\ Painted(v, u) /\ Rotate(v, d, x) = r

\* A rotation of a painted tree is sound and keeps the keys.
LEMMA TurnIs ==
  ASSUME NEW u, NEW S, NEW d, NEW x, NEW y, NEW b, NEW p, NEW s, NEW v, NEW r,
         Turn(u, S, d, x, y, b, p, s, v, r)
  PROVE  /\ r \in Trees /\ Rotated(r, v, d, x, y, b, p, s)
         /\ Sound(r, RotatedSets(v, S, d, x, y))
         /\ Live(r) = Live(u) /\ r.key = u.key
<1>1. d \in Sides /\ x \in Live(u) /\ y # nil
  BY DEF Turn
<1>2. Painted(v, u) /\ v \in Trees /\ Rotate(v, d, x) = r
  BY DEF Turn, Painted
<1>3. Sound(v, S) /\ Live(v) = Live(u)
  BY <1>2, PaintedSound DEF Turn
<1>4. Shaped(v, S) /\ Ordered(v, S) /\ x \in Live(v)
  BY <1>1, <1>3 DEF Sound
<1>5. v.child[Other(d)][x] = y /\ v.child[d][y] = b /\ v.parent[x] = p
  BY DEF Turn, Painted
<1>6. SideOf(v, x) = s
  BY DEF Turn, Painted, SideOf
<1>7. y \in Live(v) /\ y # x /\ b # x /\ b # y /\ p # x /\ p # y /\ b \in Node0 /\ p \in Node0 /\ x \in Nodes /\ y \in Nodes
  BY <1>1, <1>2, <1>4, <1>5, AroundIs
<1>8. s \in Sides
  BY <1>6 DEF SideOf, Sides
<1>9. Rotate(v, d, x) \in Trees /\ Rotated(Rotate(v, d, x), v, d, x, y, b, p, s)
  BY <1>1, <1>2, <1>5, <1>6, <1>7, <1>8, RotateIs
<1>10. r \in Trees /\ Rotated(r, v, d, x, y, b, p, s)
  BY <1>2, <1>9
<1>11. Shaped(r, RotatedSets(v, S, d, x, y))
  BY <1>1, <1>2, <1>4, <1>5, <1>6, <1>10, RotateShaped
<1>12. Ordered(r, RotatedSets(v, S, d, x, y))
  BY <1>1, <1>2, <1>4, <1>5, <1>6, <1>10, RotateOrdered
<1>13. r.key = v.key /\ v.key = u.key
  BY <1>2, <1>10 DEF Rotated, Painted
<1>14. Live(r) = Live(u)
  BY <1>13 DEF Live
<1> QED BY <1>10, <1>11, <1>12, <1>13, <1>14 DEF Sound

\* At the other nodes a rotation changes at most one child, the node that was
\* lowered for the one that was raised.
LEMMA TurnElsewhere ==
  ASSUME NEW u, NEW S, NEW d, NEW x, NEW y, NEW b, NEW p, NEW s, NEW v, NEW r,
         Turn(u, S, d, x, y, b, p, s, v, r), NEW w \in Node0 \ {x, y}, NEW e \in Sides
  PROVE  \/ u.child[e][w] = x /\ r.child[e][w] = y
         \/ r.child[e][w] = u.child[e][w] /\ u.child[e][w] \in Node0 \ {x, y}
<1>1. d \in Sides /\ x \in Live(u) /\ y # nil
  BY DEF Turn
<1>2. Painted(v, u) /\ v \in Trees
  BY DEF Turn, Painted
<1>3. Sound(v, S) /\ Live(v) = Live(u)
  BY <1>2, PaintedSound DEF Turn
<1>4. Shaped(v, S) /\ x \in Live(v)
  BY <1>1, <1>3 DEF Sound
<1>5. v.child[Other(d)][x] = y /\ v.child[d][y] = b /\ v.parent[x] = p
  BY DEF Turn, Painted
<1>6. SideOf(v, x) = s
  BY DEF Turn, Painted, SideOf
<1>7. Rotated(r, v, d, x, y, b, p, s)
  BY TurnIs
<1>8. /\ p # nil /\ w = p /\ e = s => v.child[e][w] = x /\ r.child[e][w] = y
      /\ ~(p # nil /\ w = p /\ e = s) =>
           r.child[e][w] = v.child[e][w] /\ v.child[e][w] \in Node0 \ {x, y}
  BY <1>1, <1>2, <1>4, <1>5, <1>6, <1>7, Elsewhere
<1> QED BY <1>2, <1>8 DEF Painted

\* So black heights there stay level ...
LEMMA LevelElsewhere ==
  ASSUME NEW u, NEW S, NEW d, NEW x, NEW y, NEW b, NEW p, NEW s, NEW v, NEW r,
         Turn(u, S, d, x, y, b, p, s, v, r), NEW w \in Node0 \ {x, y}, NEW e \in Sides,
         NEW h, NEW g, NEW P, NEW D, Level(u, h, w, e, P, D),
         g[y] = h[x], g[w] = h[w], v.red[w] = u.red[w],
         u.child[e][w] \in Node0 \ {x, y} => g[u.child[e][w]] = h[u.child[e][w]]
  PROVE  Level(r, g, w, e, P, D)
<1>1. r.red = v.red
  BY TurnIs DEF Rotated
<1>2. Weight(r, w) = Weight(u, w)
  BY <1>1 DEF Weight
<1>3. g[r.child[e][w]] = h[u.child[e][w]]
  BY TurnElsewhere
<1> QED BY <1>2, <1>3 DEF Level

\* ... and no new pair of red nodes arises there.
LEMMA ClashElsewhere ==
  ASSUME NEW u, NEW S, NEW d, NEW x, NEW y, NEW b, NEW p, NEW s, NEW v, NEW r,
         Turn(u, S, d, x, y, b, p, s, v, r), NEW w \in Node0 \ {x, y}, NEW e \in Sides,
         NEW V, NEW W, Clash(u, V, W, w, e), V # x, W # w,
         v.red[y] = u.red[x], v.red[w] = u.red[w],
         u.child[e][w] \in Node0 \ {x, y} => v.red[u.child[e][w]] = u.red[u.child[e][w]]
  PROVE  r.red[w] /\ r.red[r.child[e][w]] => r.child[e][w] = V /\ V # y
<1>1. r.red = v.red
  BY TurnIs DEF Rotated
<1>2. CASE u.child[e][w] = x /\ r.child[e][w] = y
  BY <1>1, <1>2 DEF Clash
<1>3. CASE r.child[e][w] = u.child[e][w] /\ u.child[e][w] \in Node0 \ {x, y}
  BY <1>1, <1>3 DEF Clash
<1> QED BY <1>2, <1>3, TurnElsewhere

-----------------------------------------------------------------------------
\* Links, order, black heights and colours, but for the exceptions.
Full(u, S, h, P, D, V, W) == Sound(u, S) /\ Even(u, h, P, D) /\ Colours(u, V, W)

\* What soundness says of one live node and one of its children.
LEMMA KinAre ==
  ASSUME NEW u, NEW S, Sound(u, S), NEW x \in Live(u), NEW e \in Sides
  PROVE  /\ u \in Trees /\ Shaped(u, S) /\ x \in Node0 /\ x # nil
         /\ u.child[e][x] \in Node0 /\ u.child[e][x] # x
         /\ u.child[e][x] # nil => u.child[e][x] \in Live(u) /\ u.parent[u.child[e][x]] = x
                                   /\ u.child[e][x] # u.child[Other(e)][x] /\ u.child[e][x] # u.root
<1>1. u \in Trees /\ Shaped(u, S)
  BY DEF Sound
<1>2. x \in Node0 /\ x # nil /\ u.child[e][x] \in Node0
  BY <1>1, LiveAre
<1>3. /\ u.child[e][x] # x
      /\ u.child[e][x] # nil => u.child[e][x] \in Live(u) /\ u.parent[u.child[e][x]] = x
                                /\ u.child[e][x] # u.child[Other(e)][x]
  BY <1>1, ChildIs
<1>4. u.child[e][x] # nil => u.child[e][x] # u.root
  BY <1>1, <1>2, <1>3, RootIs
<1> QED BY <1>1, <1>2, <1>3, <1>4

\* A node that has a parent: no root, and on one side of that parent.
LEMMA UpIs ==
  ASSUME NEW u, NEW S, Sound(u, S), NEW x \in Live(u), x # u.root
  PROVE  /\ u.parent[x] \in Live(u) /\ SideOf(u, x) \in Sides
         /\ u.child[SideOf(u, x)][u.parent[x]] = x /\ u.parent[x] # x
         /\ \A d \in Sides : u.child[d][u.parent[x]] = x => d = SideOf(u, x)
<1>1. u \in Trees /\ Shaped(u, S)
  BY DEF Sound
<1>2. /\ u.parent[x] \in Live(u) /\ SideOf(u, x) \in Sides
      /\ u.child[SideOf(u, x)][u.parent[x]] = x
      /\ \A d \in Sides : u.child[d][u.parent[x]] = x => d = SideOf(u, x)
  BY <1>1, SideIs
<1>3. u.parent[x] # x
  BY <1>2, KinAre
<1> QED BY <1>2, <1>3

\* z, red and with a red parent p, has a black grandparent g.
Conflict(u, S, h, D, z, p, g, d) ==
  /\ Full(u, S, h, nil, D, z, nil) /\ z \in Live(u) /\ u.red[z]
  /\ u.parent[z] = p /\ u.red[p] /\ u.parent[p] = g /\ SideOf(u, p) = d
Kin(u, z, p, g, d) ==
  /\ p \in Live(u) /\ g \in Live(u) /\ d \in Sides /\ u.child[d][g] = p
  /\ z # u.root /\ p # u.root /\ p # z /\ g # p /\ g # z /\ u.red[g] = FALSE
  /\ u.child[d][p] = z \/ u.child[Other(d)][p] = z

\* In a conflict of rbtree_insert_fixup the node, its parent and its grandparent
\* are three nodes.
LEMMA ConflictIs ==
  ASSUME NEW u, NEW S, NEW h, NEW D, NEW z, NEW p, NEW g, NEW d, Conflict(u, S, h, D, z, p, g, d)
  PROVE  Kin(u, z, p, g, d)
<1>1. Sound(u, S) /\ Colours(u, z, nil) /\ z \in Live(u) /\ u.red[z]
      /\ u.parent[z] = p /\ u.red[p] /\ u.parent[p] = g /\ SideOf(u, p) = d
  BY DEF Full, Conflict
<1>2. u \in Trees /\ Shaped(u, S)
  BY <1>1 DEF Sound
<1>3. z # u.root
  <2>1. z = u.root => p = nil
    BY <1>1, <1>2, RootIs
  <2> QED BY <1>1, <2>1 DEF Colours
<1>4. p \in Live(u) /\ SideOf(u, z) \in Sides /\ u.child[SideOf(u, z)][p] = z /\ p # z
  BY <1>1, <1>3, UpIs
<1>5. p # u.root
  BY <1>1, <1>4 DEF Colours
<1>6. g \in Live(u) /\ d \in Sides /\ u.child[d][g] = p /\ g # p
  BY <1>1, <1>4, <1>5, UpIs
<1>7. g # nil /\ u.red[g] \in BOOLEAN
  BY <1>2, <1>6, LiveAre DEF Trees
<1>8. u.red[g] = FALSE
  <2>1. Clash(u, z, nil, g, d)
    BY <1>1, <1>6 DEF Colours
  <2> QED BY <1>1, <1>4, <1>6, <1>7, <2>1 DEF Clash
<1>9. \A e \in Sides : e # d => e = Other(d)
  BY <1>6, SidesAre
<1>10. u.child[d][p] = z \/ u.child[Other(d)][p] = z
  BY <1>4, <1>9
<1>11. g # z
  <2>1. g = z => p = u.child[d][z] /\ z \in Live(u)
    BY <1>6
  <2> QED BY <1>1, <1>8
<1> QED BY <1>3, <1>4, <1>5, <1>6, <1>8, <1>10, <1>11 DEF Kin

\* A red uncle y: p and y take over the black of g.
LEMMA RedUncleIs ==
  ASSUME NEW u, NEW S, NEW h, NEW D, NEW z, NEW p, NEW g, NEW d, Conflict(u, S, h, D, z, p, g, d),
         NEW y, u.child[Other(d)][g] = y, u.red[y]
  PROVE  LET v == RedUncle(u, p, y, g).tree
         IN  \E k : Painted(v, u) /\ Full(v, S, k, nil, D, g, nil) /\ v.red[g] /\ g \in Live(v)
<1> DEFINE v == Paint3(u, p, FALSE, y, FALSE, g, TRUE)
           k == [h EXCEPT ![p] = h[p] + 1, ![y] = h[y] + 1]
<1>1. Sound(u, S) /\ Even(u, h, nil, D) /\ Colours(u, z, nil) /\ z \in Live(u) /\ u.red[z]
      /\ u.parent[z] = p /\ u.red[p] /\ u.parent[p] = g /\ SideOf(u, p) = d
  BY DEF Full, Conflict
<1>2. u \in Trees /\ Shaped(u, S)
  BY <1>1 DEF Sound
<1>0. Kin(u, z, p, g, d)
  BY ConflictIs
<1>3. /\ p \in Live(u) /\ g \in Live(u) /\ d \in Sides /\ u.child[d][g] = p
      /\ z # u.root /\ p # u.root /\ p # z /\ g # p /\ g # z /\ u.red[g] = FALSE
  BY <1>0 DEF Kin
<1>4. Other(d) \in Sides /\ Other(Other(d)) = d /\ \A e \in Sides : e # d => e = Other(d)
  BY <1>3, SidesAre
<1>5. y # nil
  BY <1>1 DEF Colours
<1>6. y \in Live(u) /\ u.parent[y] = g /\ y # p /\ y # g /\ y # u.root
  BY <1>1, <1>3, <1>4, <1>5, KinAre
<1>7. p \in Node0 /\ y \in Node0 /\ g \in Node0 /\ p # nil /\ g # nil
  BY <1>2, <1>3, <1>6, LiveAre
<1>8. /\ Painted(v, u) /\ v.red[p] = FALSE /\ v.red[y] = FALSE /\ v.red[g] = TRUE
      /\ \A n \in Node0 \ {p, y, g} : v.red[n] = u.red[n]
  <2>1. Dyed3(v, u, p, FALSE, y, FALSE, g, TRUE)
    BY <1>2, <1>3, <1>6, <1>7, PaintThree
  <2> HIDE DEF v
  <2> QED BY <2>1 DEF Dyed3
<1>9. RedUncle(u, p, y, g).tree = v
  BY DEF RedUncle, Paint3
<1> HIDE DEF v
<1>10. Sound(v, S) /\ Live(v) = Live(u) /\ v.child = u.child /\ v.root = u.root
  BY <1>1, <1>8, PaintedSound DEF Painted
<1>11. h \in [Node0 -> Nat] /\ h[nil] = 0
  BY <1>1 DEF Even
<1>12. k \in [Node0 -> Nat] /\ k[p] = h[p] + 1 /\ k[y] = h[y] + 1 /\ \A n \in Node0 \ {p, y} : k[n] = h[n]
  BY <1>6, <1>7, <1>11
<1> HIDE DEF k
<1>13. ASSUME NEW w \in Live(v), NEW e \in Sides
       PROVE  Level(v, k, w, e, nil, D) /\ Clash(v, g, nil, w, e)
  <2>0. w \in Live(u)
    BY <1>10
  <2> DEFINE c == u.child[e][w]
  <2>1. w \in Node0 /\ w # nil /\ c \in Node0 /\ c # w /\ (c # nil => u.parent[c] = w)
    BY <1>1, <2>0, KinAre
  <2>2. c = v.child[e][w]
    BY <1>10
  <2>3. h[c] + Weight(u, w) = h[w] /\ h[c] \in Nat /\ h[w] \in Nat
    BY <1>1, <1>11, <2>0, <2>1 DEF Even, Level
  <2>4. Clash(u, z, nil, w, e)
    BY <1>1, <2>0 DEF Colours
  <2>5. CASE w = g
    <3>1. c = p \/ c = y
      BY <1>3, <1>4, <2>5
    <3>2. k[c] = h[c] + 1 /\ v.red[c] = FALSE /\ k[g] = h[g]
      BY <1>3, <1>6, <1>7, <1>8, <1>12, <3>1
    <3>3. Weight(u, w) = 1 /\ Weight(v, w) = 0
      BY <1>3, <1>8, <2>5 DEF Weight
    <3>4. k[c] + Weight(v, w) = k[w]
      BY <2>3, <2>5, <3>2, <3>3
    <3> QED BY <2>1, <2>2, <3>2, <3>4 DEF Level, Clash
  <2>6. CASE w = p \/ w = y
    <3>1. c # p /\ c # y
      BY <1>1, <1>3, <1>5, <1>6, <1>7, <2>1, <2>6
    <3>2. Weight(u, w) = 0 /\ Weight(v, w) = 1 /\ v.red[w] = FALSE
      BY <1>1, <1>8, <2>6 DEF Weight
    <3>3. k[c] = h[c] /\ k[w] = h[w] + 1
      BY <1>12, <2>1, <2>6, <3>1
    <3>4. k[c] + Weight(v, w) = k[w]
      BY <2>3, <3>2, <3>3
    <3> QED BY <2>1, <2>2, <3>2, <3>4 DEF Level, Clash
  <2>7. CASE w # g /\ w # p /\ w # y
    <3>1. c # p /\ c # y
      BY <1>1, <1>5, <1>6, <1>7, <2>1, <2>7
    <3>2. v.red[w] = u.red[w] /\ Weight(v, w) = Weight(u, w)
      BY <1>8, <2>1, <2>7 DEF Weight
    <3>3. k[c] = h[c] /\ k[w] = h[w]
      BY <1>12, <2>1, <2>7, <3>1
    <3>4. k[c] + Weight(v, w) = k[w]
      BY <2>3, <3>2, <3>3
    <3>5. c # z
      BY <1>1, <1>2, <2>1, <2>7, LiveAre
    <3>6. c # g => v.red[c] = u.red[c]
      BY <1>8, <2>1, <3>1
    <3>7. v.red[w] /\ v.red[c] => c = g
      BY <2>1, <2>4, <3>2, <3>5, <3>6 DEF Clash
    <3> QED BY <2>1, <2>2, <3>4, <3>7 DEF Level, Clash
  <2> QED BY <2>5, <2>6, <2>7
<1>14. Even(v, k, nil, D)
  <2>1. k[nil] = 0
    BY <1>5, <1>7, <1>11, <1>12, NodesAre
  <2> QED BY <1>12, <1>13, <2>1 DEF Even
<1>15. Colours(v, g, nil)
  <2>1. v.red[nil] = FALSE
    BY <1>1, <1>5, <1>7, <1>8, NodesAre, <1>2 DEF Colours, Trees
  <2>2. v.red[v.root] => v.root = g
    <3>1. u.root \in Node0
      BY <1>2, LiveAre
    <3>2. ~u.red[u.root]
      BY <1>1, <1>3 DEF Colours
    <3> QED BY <1>3, <1>6, <1>8, <1>10, <3>1, <3>2
  <2> QED BY <1>13, <2>1, <2>2 DEF Colours
<1> QED BY <1>3, <1>8, <1>9, <1>10, <1>14, <1>15 DEF Full

\* The links after a rotation.
Pivoted(u, d, x, y, b, p, s, r) ==
  /\ r \in Trees /\ r.key = u.key /\ Live(r) = Live(u)
  /\ x \in Live(u) /\ y \in Live(u) /\ x # y /\ u.parent[y] = x
  /\ p # x /\ p # y /\ b # x /\ b # y
  /\ r.child[Other(d)][x] = b /\ r.child[d][x] = u.child[d][x]
  /\ r.child[d][y] = x /\ r.child[Other(d)][y] = u.child[Other(d)][y]
  /\ r.parent[x] = y /\ r.parent[y] = p
  /\ (p = nil => r.root = y) /\ (p # nil => r.root = u.root /\ r.child[s][p] = y)

\* The links after a rotation, and its colours.
LEMMA TurnLinks ==
  ASSUME NEW u, NEW S, NEW d, NEW x, NEW y, NEW b, NEW p, NEW s, NEW v, NEW r,
         Turn(u, S, d, x, y, b, p, s, v, r)
  PROVE  Pivoted(u, d, x, y, b, p, s, r) /\ r.red = v.red /\ Sound(r, RotatedSets(v, S, d, x, y))
<1>1. r \in Trees /\ r.key = u.key /\ Live(r) = Live(u) /\ Sound(r, RotatedSets(v, S, d, x, y))
  BY TurnIs
<1>2. Rotated(r, v, d, x, y, b, p, s)
  BY TurnIs
<1>3. v.child = u.child /\ v.root = u.root
  BY DEF Turn, Painted
<1>4. u \in Trees /\ Shaped(u, S) /\ d \in Sides /\ x \in Live(u) /\ u.child[Other(d)][x] = y /\ y # nil
      /\ u.child[d][y] = b /\ u.parent[x] = p
  BY DEF Turn, Sound
<1>5. y \in Live(u) /\ y # x /\ u.parent[y] = x /\ p # x /\ p # y /\ b # x /\ b # y
  BY <1>4, AroundIs
<1>6. /\ r.child[Other(d)][x] = b /\ r.child[d][x] = u.child[d][x]
      /\ r.child[d][y] = x /\ r.child[Other(d)][y] = u.child[Other(d)][y]
      /\ r.parent[x] = y /\ r.parent[y] = p /\ r.red = v.red
      /\ (p = nil => r.root = y) /\ (p # nil => r.root = u.root /\ r.child[s][p] = y)
  BY <1>2, <1>3 DEF Rotated
<1> QED BY <1>1, <1>4, <1>5, <1>6 DEF Pivoted

\* z hangs on the inner side of p: a rotation brings it between p and g.
Unbent(r, u, h, D, z, p, g, d) ==
  /\ \E R : Conflict(r, R, h, D, p, z, g, d)
  /\ r.child[d][z] = p /\ r.red = u.red /\ r.key = u.key
  /\ r.child[Other(d)][g] = u.child[Other(d)][g]

\* The second case of rbtree_insert_fixup: after the inner rotation the conflict
\* is on the outer side.
LEMMA BentIs ==
  ASSUME NEW u, NEW S, NEW h, NEW D, NEW z, NEW p, NEW g, NEW d, Conflict(u, S, h, D, z, p, g, d),
         u.child[Other(d)][p] = z
  PROVE  Unbent(Rotate(u, d, p), u, h, D, z, p, g, d)
<1> DEFINE r == Rotate(u, d, p)
           b == u.child[d][z]
           a == u.child[d][p]
           f == u.child[Other(d)][z]
           R == RotatedSets(u, S, d, p, z)
<1>1. Sound(u, S) /\ Even(u, h, nil, D) /\ Colours(u, z, nil) /\ z \in Live(u) /\ u.red[z]
      /\ u.parent[z] = p /\ u.red[p] /\ u.parent[p] = g /\ SideOf(u, p) = d
  BY DEF Full, Conflict
<1>2. Kin(u, z, p, g, d)
  BY ConflictIs
<1>3. /\ p \in Live(u) /\ g \in Live(u) /\ d \in Sides /\ u.child[d][g] = p
      /\ z # u.root /\ p # u.root /\ p # z /\ g # p /\ g # z /\ u.red[g] = FALSE
  BY <1>2 DEF Kin
<1>4. Other(d) \in Sides /\ Other(d) # d /\ Other(Other(d)) = d /\ \A e \in Sides : e # d => e = Other(d)
  BY <1>3, SidesAre
<1>5. u \in Trees /\ Shaped(u, S) /\ p \in Node0 /\ z \in Node0 /\ g \in Node0 /\ p # nil /\ z # nil /\ g # nil
  BY <1>1, <1>3, LiveAre DEF Sound
<1>6. Turn(u, S, d, p, z, b, g, d, u, r)
  BY <1>1, <1>3, <1>5 DEF Turn, Painted
<1> HIDE DEF r
<1>7. Pivoted(u, d, p, z, b, g, d, r) /\ r.red = u.red /\ Sound(r, R)
  BY <1>6, TurnLinks
<1>8. Live(r) = Live(u) /\ r.key = u.key /\ r.root = u.root
      /\ r.parent[p] = z /\ r.parent[z] = g /\ r.child[d][g] = z
      /\ r.child[Other(d)][p] = b /\ r.child[d][p] = a
      /\ r.child[d][z] = p /\ r.child[Other(d)][z] = f
  BY <1>5, <1>7 DEF Pivoted
<1> HIDE DEF R
<1>9. h \in [Node0 -> Nat] /\ h[nil] = 0 /\ \A w \in Live(u), e \in Sides : Level(u, h, w, e, nil, D)
  BY <1>1 DEF Even
<1>10. ~u.red[nil] /\ (u.red[u.root] => u.root = z) /\ \A w \in Live(u), e \in Sides : Clash(u, z, nil, w, e)
  BY <1>1 DEF Colours
<1>11. h[a] = h[p] /\ h[z] = h[p] /\ h[b] = h[p] /\ h[f] = h[p]
  <2>1. Level(u, h, p, d, nil, D) /\ Level(u, h, p, Other(d), nil, D)
        /\ Level(u, h, z, d, nil, D) /\ Level(u, h, z, Other(d), nil, D)
    BY <1>1, <1>3, <1>4, <1>9
  <2>2. Weight(u, p) = 0 /\ Weight(u, z) = 0
    BY <1>1 DEF Weight
  <2>3. h[a] + 0 = h[p] /\ h[z] + 0 = h[p] /\ h[b] + 0 = h[z] /\ h[f] + 0 = h[z]
    BY <1>5, <2>1, <2>2 DEF Level
  <2>4. a \in Node0 /\ b \in Node0 /\ f \in Node0
    BY <1>1, <1>3, <1>4, KinAre
  <2>5. h[a] \in Nat /\ h[z] \in Nat /\ h[b] \in Nat /\ h[f] \in Nat
    BY <1>5, <1>9, <2>4
  <2> QED BY <2>3, <2>5
<1>12. ~u.red[a] /\ ~u.red[b] /\ ~u.red[f]
  <2>1. Clash(u, z, nil, p, d) /\ Clash(u, z, nil, z, d) /\ Clash(u, z, nil, z, Other(d))
    BY <1>1, <1>3, <1>4, <1>10
  <2>2. b # z /\ f # z
    BY <1>1, <1>3, <1>4, KinAre
  <2>3. a # z
    <3>1. z # nil => u.child[Other(d)][p] # u.child[Other(Other(d))][p]
      BY <1>1, <1>3, <1>4, <1>5, KinAre
    <3> QED BY <1>4, <1>5, <3>1
  <2> QED BY <1>1, <1>5, <2>1, <2>2, <2>3 DEF Clash
<1> HIDE DEF a, b, f
<1>13. ASSUME NEW w \in Live(r), NEW e \in Sides
       PROVE  Level(r, h, w, e, nil, D) /\ Clash(r, p, nil, w, e)
  <2>1. w \in Live(u) /\ w \in Node0 /\ w # nil
    BY <1>5, <1>8, LiveAre
  <2>2. CASE w = p
    <3>1. Weight(r, p) = 0
      BY <1>1, <1>7 DEF Weight
    <3>2. h[p] \in Nat
      BY <1>5, <1>9
    <3>3. CASE e = d
      BY <1>5, <1>7, <1>8, <1>11, <1>12, <2>2, <3>1, <3>2, <3>3 DEF Level, Clash
    <3>4. CASE e = Other(d)
      BY <1>5, <1>7, <1>8, <1>11, <1>12, <2>2, <3>1, <3>2, <3>4 DEF Level, Clash
    <3> QED BY <1>4, <3>3, <3>4
  <2>3. CASE w = z
    <3>1. Weight(r, z) = 0
      BY <1>1, <1>7 DEF Weight
    <3>2. h[p] \in Nat
      BY <1>5, <1>9
    <3>3. CASE e = d
      BY <1>5, <1>7, <1>8, <1>11, <1>12, <2>3, <3>1, <3>2, <3>3 DEF Level, Clash
    <3>4. CASE e = Other(d)
      BY <1>5, <1>7, <1>8, <1>11, <1>12, <2>3, <3>1, <3>2, <3>4 DEF Level, Clash
    <3> QED BY <1>4, <3>3, <3>4
  <2>4. CASE w # p /\ w # z
    <3>1. w \in Node0 \ {p, z}
      BY <2>1, <2>4
    <3>2. Level(u, h, w, e, nil, D) /\ Clash(u, z, nil, w, e)
      BY <1>9, <1>10, <2>1
    <3>3. Level(r, h, w, e, nil, D)
      BY <1>6, <1>11, <3>1, <3>2, LevelElsewhere
    <3>4. u.red[z] = u.red[p]
      <4>1. u.red[z] \in BOOLEAN /\ u.red[p] \in BOOLEAN
        BY <1>5 DEF Trees
      <4> QED BY <1>1, <4>1
    <3>5. z # p /\ nil # w
      BY <1>3, <2>1
    <3>6. r.red[w] /\ r.red[r.child[e][w]] => r.child[e][w] = z /\ z # z
      BY <1>6, <3>1, <3>2, <3>4, <3>5, ClashElsewhere
    <3> QED BY <3>3, <3>6 DEF Clash
  <2> QED BY <2>2, <2>3, <2>4
<1>14. Full(r, R, h, nil, D, p, nil)
  <2>1. Even(r, h, nil, D)
    BY <1>9, <1>13 DEF Even
  <2>2. Colours(r, p, nil)
    BY <1>3, <1>7, <1>8, <1>10, <1>13 DEF Colours
  <2> QED BY <1>7, <2>1, <2>2 DEF Full
<1>15. SideOf(r, z) = d
  BY <1>1, <1>3, <1>7, <1>8, UpIs
<1>16. r.child[Other(d)][g] = u.child[Other(d)][g]
  <2>1. u.child[d][g] # u.child[Other(d)][g]
    BY <1>1, <1>3, <1>5, KinAre
  <2>2. g \in Node0 \ {p, z}
    BY <1>3, <1>5
  <2> QED BY <1>3, <1>4, <1>6, <2>1, <2>2, TurnElsewhere
<1>17. Conflict(r, R, h, D, p, z, g, d)
  BY <1>1, <1>3, <1>7, <1>8, <1>14, <1>15 DEF Conflict
<1> QED BY <1>7, <1>8, <1>16, <1>17 DEF Unbent, r

\* A red y rises above its black parent x and takes its colour: the common part
\* of both fix-ups.  A black node that is missing stays missing.
Liftable(u, S, h, P, D, V, d, x, y) ==
  /\ Full(u, S, h, P, D, V, nil) /\ d \in Sides /\ x \in Live(u) /\ u.child[Other(d)][x] = y
  /\ u.red[y] = TRUE /\ u.red[x] = FALSE /\ ~u.red[u.child[d][x]]
  /\ V # x /\ (u.child[d][y] # V \/ V = nil) /\ ~(P = x /\ D = Other(d)) /\ P # y
Lifted(r, u, P, D, V, d, x, y) ==
  /\ \E R, k : Full(r, R, k, P, D, V, nil)
  /\ Pivoted(u, d, x, y, u.child[d][y], u.parent[x], SideOf(u, x), r)
  /\ r.red[x] = TRUE /\ r.red[y] = FALSE /\ \A n \in Node0 \ {x, y} : r.red[n] = u.red[n]
  /\ \A n \in Node0 \ {x, y}, e \in Sides : u.child[e][n] # x => r.child[e][n] = u.child[e][n]
Lift(u, d, x, y) == Rotate(Paint2(u, y, FALSE, x, TRUE), d, x)

\* A rotation that lowers the black node above a red one keeps all black
\* heights, as the fix-ups use it.
LEMMA LiftIs ==
  ASSUME NEW u, NEW S, NEW h, NEW P, NEW D, NEW V, NEW d, NEW x, NEW y, Liftable(u, S, h, P, D, V, d, x, y)
  PROVE  Lifted(Lift(u, d, x, y), u, P, D, V, d, x, y)
<1> DEFINE o == Other(d)
           a == u.child[d][x]
           b == u.child[d][y]
           f == u.child[o][y]
           q == u.parent[x]
           s == SideOf(u, x)
           v == Paint2(u, y, FALSE, x, TRUE)
           r == Rotate(v, d, x)
           R == RotatedSets(v, S, d, x, y)
           k == [h EXCEPT ![y] = h[x], ![x] = h[y]]
<1>1. Sound(u, S) /\ Even(u, h, P, D) /\ Colours(u, V, nil) /\ d \in Sides /\ x \in Live(u)
      /\ u.child[o][x] = y /\ u.red[y] = TRUE /\ u.red[x] = FALSE /\ ~u.red[a]
      /\ V # x /\ (b # V \/ V = nil) /\ ~(P = x /\ D = o) /\ P # y
  BY DEF Full, Liftable
<1>2. o \in Sides /\ o # d /\ Other(o) = d /\ \A e \in Sides : e = d \/ e = o
  BY <1>1, SidesAre
<1>3. y # nil
  BY <1>1 DEF Colours
<1>4. u \in Trees /\ Shaped(u, S) /\ y \in Live(u) /\ x # y /\ y \in Node0 /\ x \in Node0 /\ x # nil
  BY <1>1, <1>2, <1>3, KinAre, LiveAre
<1>6. Painted(v, u) /\ v.red[y] = FALSE /\ v.red[x] = TRUE /\ \A n \in Node0 \ {x, y} : v.red[n] = u.red[n]
  <2>1. Dyed2(v, u, y, FALSE, x, TRUE)
    BY <1>4, PaintTwo
  <2> HIDE DEF v
  <2> QED BY <2>1 DEF Dyed2
<1> HIDE DEF v
<1>7. Turn(u, S, d, x, y, b, q, s, v, r)
  BY <1>1, <1>3, <1>6 DEF Turn
<1> HIDE DEF r
<1>8. Pivoted(u, d, x, y, b, q, s, r) /\ r.red = v.red /\ Sound(r, R)
  BY <1>7, TurnLinks
<1>9. Live(r) = Live(u) /\ (r.root = u.root \/ r.root = y)
      /\ r.child[o][x] = b /\ r.child[d][x] = a /\ r.child[d][y] = x /\ r.child[o][y] = f
  BY <1>2, <1>8 DEF Pivoted
<1> HIDE DEF R
<1>10. h \in [Node0 -> Nat] /\ h[nil] = 0 /\ \A w \in Live(u), e \in Sides : Level(u, h, w, e, P, D)
  BY <1>1 DEF Even
<1>11. ~u.red[nil] /\ (u.red[u.root] => u.root = V) /\ \A w \in Live(u), e \in Sides : Clash(u, V, nil, w, e)
  BY <1>1 DEF Colours
<1>12. /\ a \in Node0 /\ a # x /\ a # y
       /\ b \in Node0 /\ b # y /\ b # x
       /\ f \in Node0 /\ f # y /\ f # x
  <2>1. a \in Node0 /\ a # x /\ (a # nil => a # u.child[o][x])
    BY <1>1, <1>2, KinAre
  <2>2. b \in Node0 /\ b # y /\ f \in Node0 /\ f # y /\ (f # nil => u.parent[f] = y)
    BY <1>1, <1>2, <1>4, KinAre
  <2>3. b # x /\ q # y
    BY <1>8 DEF Pivoted
  <2>4. f # x
    BY <1>4, <2>2, <2>3
  <2> QED BY <1>1, <1>3, <2>1, <2>2, <2>3, <2>4
<1>13. /\ h[y] + 1 = h[x] /\ h[b] = h[y] /\ h[f] = h[y]
       /\ (P = x /\ D = d => h[a] + 1 = h[y]) /\ (~(P = x /\ D = d) => h[a] = h[y])
       /\ h[y] \in Nat /\ h[x] \in Nat /\ h[a] \in Nat
  <2>1. Level(u, h, x, d, P, D) /\ Level(u, h, x, o, P, D)
        /\ Level(u, h, y, d, P, D) /\ Level(u, h, y, o, P, D)
    BY <1>1, <1>2, <1>4, <1>10
  <2>2. Weight(u, y) = 0 /\ Weight(u, x) = 1
    BY <1>1 DEF Weight
  <2>3. /\ h[y] + 1 = h[x] /\ h[b] + 0 = h[y] /\ h[f] + 0 = h[y]
        /\ (P = x /\ D = d => h[a] + 1 + 1 = h[x]) /\ (~(P = x /\ D = d) => h[a] + 1 = h[x])
    BY <1>1, <2>1, <2>2 DEF Level
  <2>4. h[a] \in Nat /\ h[b] \in Nat /\ h[f] \in Nat /\ h[y] \in Nat /\ h[x] \in Nat
    BY <1>4, <1>10, <1>12
  <2> QED BY <2>3, <2>4
<1>14. k \in [Node0 -> Nat] /\ k[y] = h[x] /\ k[x] = h[y] /\ \A n \in Node0 \ {x, y} : k[n] = h[n]
  BY <1>4, <1>10
<1>15. ~u.red[b]
  <2>1. Clash(u, V, nil, y, d)
    BY <1>1, <1>4, <1>11
  <2> QED BY <1>1, <1>3, <1>4, <1>11, <2>1 DEF Clash
<1> HIDE DEF a, b, f, o, k
<1>16. ASSUME NEW w \in Live(r), NEW e \in Sides
       PROVE  Level(r, k, w, e, P, D) /\ Clash(r, V, nil, w, e)
  <2>1. w \in Live(u) /\ w \in Node0 /\ w # nil
    BY <1>4, <1>9, LiveAre
  <2>2. CASE w = x
    <3>1. Weight(r, x) = 0
      BY <1>6, <1>8 DEF Weight
    <3>2. ~r.red[a] /\ ~r.red[b] /\ k[b] = k[x] /\ k[x] = h[y] /\ k[a] = h[a]
      BY <1>1, <1>6, <1>8, <1>12, <1>13, <1>14, <1>15
    <3>3. CASE e = d
      <4>1. Clash(r, V, nil, w, e)
        BY <1>9, <2>2, <3>2, <3>3 DEF Clash
      <4>2. Level(r, k, w, e, P, D)
        BY <1>9, <1>13, <2>2, <3>1, <3>2, <3>3 DEF Level
      <4> QED BY <4>1, <4>2
    <3>4. CASE e = o
      <4>1. Clash(r, V, nil, w, e)
        BY <1>9, <2>2, <3>2, <3>4 DEF Clash
      <4>2. Level(r, k, w, e, P, D)
        BY <1>1, <1>9, <1>13, <2>2, <3>1, <3>2, <3>4 DEF Level
      <4> QED BY <4>1, <4>2
    <3> QED BY <1>2, <3>3, <3>4
  <2>3. CASE w = y
    <3>1. Weight(r, y) = 1 /\ ~r.red[y]
      BY <1>6, <1>8 DEF Weight
    <3>2. k[y] = h[y] + 1 /\ k[f] = h[y] /\ k[x] = h[y]
      BY <1>12, <1>13, <1>14
    <3>3. CASE e = d
      BY <1>1, <1>9, <2>3, <3>1, <3>2, <3>3 DEF Level, Clash
    <3>4. CASE e = o
      BY <1>1, <1>9, <2>3, <3>1, <3>2, <3>4 DEF Level, Clash
    <3> QED BY <1>2, <3>3, <3>4
  <2>4. CASE w # y /\ w # x
    <3>1. w \in Node0 \ {x, y}
      BY <2>1, <2>4
    <3>2. Level(u, h, w, e, P, D) /\ Clash(u, V, nil, w, e)
      BY <1>10, <1>11, <2>1
    <3>3. u.child[e][w] \in Node0 \ {x, y} => k[u.child[e][w]] = h[u.child[e][w]] /\ v.red[u.child[e][w]] = u.red[u.child[e][w]]
      BY <1>6, <1>14
    <3>4. k[y] = h[x] /\ k[w] = h[w] /\ v.red[w] = u.red[w] /\ v.red[y] = u.red[x]
      BY <1>1, <1>6, <1>14, <3>1
    <3>5. Level(r, k, w, e, P, D)
      BY <1>7, <3>1, <3>2, <3>3, <3>4, LevelElsewhere
    <3>6. V # x /\ nil # w
      BY <1>1, <2>1
    <3>7. r.red[w] /\ r.red[r.child[e][w]] => r.child[e][w] = V /\ V # y
      BY <1>7, <3>1, <3>2, <3>3, <3>4, <3>6, ClashElsewhere
    <3> QED BY <3>5, <3>7 DEF Clash
  <2> QED BY <2>2, <2>3, <2>4
<1>17. Even(r, k, P, D)
  <2>1. k[nil] = 0
    BY <1>3, <1>4, <1>10, <1>14, NodesAre
  <2> QED BY <1>14, <1>16, <2>1 DEF Even
<1>18. Colours(r, V, nil)
  <2>1. ~r.red[nil]
    BY <1>3, <1>4, <1>6, <1>8, <1>11, NodesAre
  <2>2. r.red[r.root] => r.root = V
    <3>1. CASE r.root = y
      BY <1>6, <1>8, <3>1
    <3>2. CASE r.root # y
      <4>1. q # nil /\ r.root = u.root
        BY <1>8, <3>2 DEF Pivoted
      <4>2. u.root # x
        BY <1>1, <1>4, <4>1, RootIs
      <4>3. u.root \in Node0 \ {x, y}
        BY <1>4, <3>2, <4>1, <4>2, LiveAre
      <4> QED BY <1>6, <1>8, <1>11, <4>1, <4>3
    <3> QED BY <3>1, <3>2
  <2> QED BY <1>16, <2>1, <2>2 DEF Colours
<1>19. Full(r, R, k, P, D, V, nil)
  BY <1>8, <1>17, <1>18 DEF Full
<1>20. r.red[x] = TRUE /\ r.red[y] = FALSE /\ \A n \in Node0 \ {x, y} : r.red[n] = u.red[n]
  BY <1>6, <1>8
<1>21. \A n \in Node0 \ {x, y}, e \in Sides : u.child[e][n] # x => r.child[e][n] = u.child[e][n]
  BY <1>7, TurnElsewhere
<1>22. Lifted(r, u, P, D, V, d, x, y)
  BY <1>8, <1>19, <1>20, <1>21 DEF Lifted, b, q, s
<1> QED BY <1>22 DEF Lift, r, v

\* z hangs on the outer side of p and the uncle is black: p rises above g.
Inserting(r, z, D) == \E R, k : Full(r, R, k, nil, D, z, nil) /\ z \in Live(r) /\ r.red[z]

\* The last case of rbtree_insert_fixup: rotating the grandparent ends the
\* conflict.
LEMMA StraightIs ==
  ASSUME NEW u, NEW S, NEW h, NEW D, NEW z, NEW p, NEW g, NEW d, Conflict(u, S, h, D, z, p, g, d),
         u.child[d][p] = z, u.red[u.child[Other(d)][g]] = FALSE,
         NEW r, Rotate(Paint2(u, p, FALSE, g, TRUE), Other(d), g) = r
  PROVE  Inserting(r, z, D) /\ r.key = u.key
<1> DEFINE o == Other(d)
<1>1. Sound(u, S) /\ Full(u, S, h, nil, D, z, nil) /\ z \in Live(u) /\ u.red[z] /\ u.red[p]
  BY DEF Full, Conflict
<1>2. Kin(u, z, p, g, d)
  BY ConflictIs
<1>3. /\ p \in Live(u) /\ g \in Live(u) /\ d \in Sides /\ u.child[d][g] = p
      /\ p # z /\ g # p /\ g # z /\ u.red[g] = FALSE
  BY <1>2 DEF Kin
<1>4. o \in Sides /\ Other(o) = d
  BY <1>3, SidesAre
<1>5. u \in Trees /\ Shaped(u, S) /\ p \in Node0 /\ z \in Node0 /\ g \in Node0 /\ p # nil /\ z # nil /\ g # nil
  BY <1>1, <1>3, LiveAre DEF Sound
<1>6. u.red[p] = TRUE
  BY <1>1, <1>5 DEF Trees
<1>7. u.child[o][p] # z
  <2>1. z # nil => u.child[d][p] # u.child[Other(d)][p]
    BY <1>1, <1>3, <1>5, KinAre
  <2> QED BY <1>5, <2>1
<1>8. Liftable(u, S, h, nil, D, z, o, g, p)
  BY <1>1, <1>3, <1>4, <1>5, <1>6, <1>7 DEF Liftable
<1>9. Lifted(r, u, nil, D, z, o, g, p)
  <2>1. Lift(u, o, g, p) = r
    BY DEF Lift
  <2> QED BY <1>8, <2>1, LiftIs
<1>10. z \in Live(r) /\ r.red[z] /\ r.key = u.key
  <2>1. \A n \in Node0 \ {g, p} : r.red[n] = u.red[n]
    BY <1>9 DEF Lifted
  <2>2. Live(r) = Live(u) /\ r.key = u.key
    BY <1>9 DEF Lifted, Pivoted
  <2> QED BY <1>1, <1>3, <1>5, <2>1, <2>2
<1> QED BY <1>9, <1>10 DEF Lifted, Inserting

\* One turn of rbtree_insert_fixup.
LEMMA InsertTurnIs ==
  ASSUME NEW u, NEW S, NEW h, NEW D, NEW z, Full(u, S, h, nil, D, z, nil),
         z \in Live(u), u.red[z], u.red[u.parent[z]]
  PROVE  LET turn == InsertTurn(u, z)
         IN  Inserting(turn.tree, turn.at, D) /\ turn.tree.key = u.key
<1> DEFINE p == u.parent[z]
           g == u.parent[p]
           d == SideOf(u, p)
           y == u.child[Other(d)][g]
           bent == z = u.child[Other(d)][p]
           v == IF bent THEN Rotate(u, d, p) ELSE u
           z2 == IF bent THEN p ELSE z
           p2 == v.parent[z2]
           g2 == v.parent[p2]
           r == Rotate([v EXCEPT !.red[p2] = FALSE, !.red[g2] = TRUE], Other(d), g2)
<1>1. InsertTurn(u, z) = IF u.red[y] THEN RedUncle(u, p, y, g) ELSE [tree |-> r, at |-> z2]
  BY DEF InsertTurn
<1>2. Conflict(u, S, h, D, z, p, g, d)
  BY DEF Conflict
<1>3. Kin(u, z, p, g, d)
  BY <1>2, ConflictIs
<1> HIDE DEF p, g, d, y, v, z2, p2, g2
<1>4. CASE u.red[y]
  <2>1. PICK k : Painted(RedUncle(u, p, y, g).tree, u) /\ Full(RedUncle(u, p, y, g).tree, S, k, nil, D, g, nil)
                 /\ RedUncle(u, p, y, g).tree.red[g] /\ g \in Live(RedUncle(u, p, y, g).tree)
    BY <1>2, <1>4, RedUncleIs DEF y
  <2>2. InsertTurn(u, z) = RedUncle(u, p, y, g) /\ RedUncle(u, p, y, g).at = g
    BY <1>1, <1>4 DEF RedUncle
  <2>3. RedUncle(u, p, y, g).tree.key = u.key
    BY <2>1 DEF Painted
  <2> QED BY <2>1, <2>2, <2>3 DEF Inserting
<1>5. CASE ~u.red[y]
  <2>1. InsertTurn(u, z) = [tree |-> r, at |-> z2]
    BY <1>1, <1>5
  <2>2. u.red[y] = FALSE
    <3>1. u \in Trees /\ Shaped(u, S) /\ g \in Live(u) /\ d \in Sides
      BY <1>3 DEF Full, Sound, Kin
    <3>2. y \in Node0
      BY <3>1, LiveAre, SidesAre DEF y
    <3> QED BY <1>5, <3>1, <3>2 DEF Trees
  <2>3. \E R : Conflict(v, R, h, D, z2, p2, g, d) /\ v.child[d][p2] = z2 /\ v.key = u.key
               /\ v.red[v.child[Other(d)][g]] = FALSE
    <3>1. CASE bent
      <4>1. v = Rotate(u, d, p) /\ z2 = p
        BY <3>1 DEF v, z2
      <4>0. Unbent(v, u, h, D, z, p, g, d)
        <5>1. u.child[Other(d)][p] = z
          BY <3>1
        <5>2. Unbent(Rotate(u, d, p), u, h, D, z, p, g, d)
          BY <1>2, <5>1, BentIs
        <5> QED BY <4>1, <5>2
      <4>2. PICK R : Conflict(v, R, h, D, p, z, g, d)
        BY <4>0 DEF Unbent
      <4>3. v.child[d][z] = p /\ v.red = u.red /\ v.key = u.key /\ v.child[Other(d)][g] = u.child[Other(d)][g]
        BY <4>0 DEF Unbent
      <4>4. p2 = z
        BY <4>1, <4>2 DEF p2, Conflict
      <4> QED BY <2>2, <4>1, <4>2, <4>3, <4>4 DEF y
    <3>2. CASE ~bent
      <4>1. v = u /\ z2 = z /\ p2 = p
        BY <3>2 DEF v, z2, p2, p
      <4>2. u.child[d][p] = z
        BY <1>3, <3>2 DEF Kin
      <4> QED BY <1>2, <2>2, <4>1, <4>2 DEF y
    <3> QED BY <3>1, <3>2
  <2>4. PICK R : Conflict(v, R, h, D, z2, p2, g, d) /\ v.child[d][p2] = z2 /\ v.key = u.key
                 /\ v.red[v.child[Other(d)][g]] = FALSE
    BY <2>3
  <2>5. g2 = g
    BY <2>4 DEF g2, Conflict
  <2>6. Rotate(Paint2(v, p2, FALSE, g, TRUE), Other(d), g) = r
    BY <2>5 DEF Paint2
  <2> HIDE DEF r
  <2>7. Inserting(r, z2, D) /\ r.key = v.key
    BY <2>4, <2>6, StraightIs
  <2> QED BY <2>1, <2>4, <2>7
<1> QED BY <1>4, <1>5

-----------------------------------------------------------------------------
\* A black node is missing on side D of P, where c hangs, which is black too.
Missing(u, S, h, P, D, c) ==
  /\ Full(u, S, h, P, D, nil, nil) /\ P \in Live(u) /\ D \in Sides
  /\ u.child[D][P] = c /\ u.red[c] = FALSE

\* Then c has a sibling, one black node higher.
SiblingOf(u, h, P, D, c, w) ==
  /\ w \in Live(u) /\ w # c /\ w # P /\ c # P /\ c \in Node0 /\ w \in Node0 /\ P \in Node0 /\ w # nil /\ P # nil
  /\ u.parent[w] = P /\ w # u.root /\ h[c] + 1 = h[w] /\ h[c] \in Nat /\ h[w] \in Nat

\* While a subtree is short of one black node its sibling is a node, with the
\* children this needs.
LEMMA SiblingIs ==
  ASSUME NEW u, NEW S, NEW h, NEW P, NEW D, NEW c, Missing(u, S, h, P, D, c)
  PROVE  SiblingOf(u, h, P, D, c, u.child[Other(D)][P])
<1> DEFINE o == Other(D)
           w == u.child[o][P]
<1>1. Sound(u, S) /\ Even(u, h, P, D) /\ P \in Live(u) /\ D \in Sides /\ u.child[D][P] = c
  BY DEF Missing, Full
<1>2. o \in Sides /\ o # D
  BY <1>1, SidesAre
<1>3. c \in Node0 /\ c # P /\ w \in Node0 /\ w # P /\ P \in Node0 /\ P # nil
      /\ (w # nil => w \in Live(u) /\ u.parent[w] = P /\ w # u.root)
      /\ (c # nil => c # w)
  BY <1>1, <1>2, KinAre
<1>4. h[c] \in Nat /\ h[w] \in Nat /\ h[P] \in Nat /\ h[nil] = 0
  BY <1>1, <1>3 DEF Even
<1>5. h[c] + 1 + Weight(u, P) = h[P] /\ h[w] + Weight(u, P) = h[P]
  <2>1. Level(u, h, P, D, P, D) /\ Level(u, h, P, o, P, D)
    BY <1>1, <1>2 DEF Even
  <2> QED BY <1>1, <1>2, <2>1 DEF Level
<1>6. Weight(u, P) \in Nat
  BY DEF Weight
<1>7. h[c] + 1 = h[w]
  BY <1>4, <1>5, <1>6
<1>8. w # nil
  BY <1>4, <1>7
<1>9. w # c
  BY <1>4, <1>7
<1> QED BY <1>3, <1>4, <1>7, <1>8, <1>9 DEF SiblingOf

\* No red node has a red child.
LEMMA NoClash ==
  ASSUME NEW u \in Trees, NEW S, NEW h, NEW P, NEW D, Full(u, S, h, P, D, nil, nil), NEW x \in Live(u), NEW e \in Sides
  PROVE  u.red[x] => u.red[u.child[e][x]] = FALSE
<1>1. Sound(u, S) /\ ~u.red[nil] /\ Clash(u, nil, nil, x, e)
  BY DEF Full, Colours
<1>2. x # nil /\ u.child[e][x] \in Node0
  BY <1>1, KinAre
<1>3. u.red[u.child[e][x]] \in BOOLEAN
  BY <1>2 DEF Trees
<1> QED BY <1>1, <1>2, <1>3 DEF Clash

MissingTo(r, u, P, D, c) ==
  /\ \E R, k : Missing(r, R, k, P, D, c)
  /\ r.key = u.key /\ r.red[r.child[Other(D)][P]] = FALSE

\* The first case of rbtree_delete_fixup: afterwards the sibling is black, and
\* nothing else got worse.
LEMMA SiblingBlackIs ==
  ASSUME NEW u, NEW S, NEW h, NEW P, NEW D, NEW c, Missing(u, S, h, P, D, c)
  PROVE  MissingTo(SiblingBlack(u, P, D), u, P, D, c)
<1> DEFINE o == Other(D)
           w == u.child[o][P]
           b == u.child[D][w]
           r == Lift(u, D, P, w)
<1>1. Full(u, S, h, P, D, nil, nil) /\ Sound(u, S) /\ P \in Live(u) /\ D \in Sides /\ u.child[D][P] = c
      /\ u.red[c] = FALSE /\ u \in Trees /\ Shaped(u, S)
  BY DEF Missing, Full, Sound
<1>2. o \in Sides /\ o # D
  BY <1>1, SidesAre
<1>3. SiblingOf(u, h, P, D, c, w)
  BY SiblingIs
<1>4. w \in Live(u) /\ w # c /\ w # P /\ c # P /\ c \in Node0 /\ P # nil /\ w # nil /\ w \in Node0 /\ P \in Node0
  BY <1>3 DEF SiblingOf
<1>5. CASE u.red[w]
  <2>1. u.red[w] = TRUE /\ u.red[P] \in BOOLEAN
    BY <1>1, <1>4, <1>5 DEF Trees
  <2>2. u.red[P] = FALSE
    BY <1>1, <1>2, <2>1, NoClash
  <2>3. Liftable(u, S, h, P, D, nil, D, P, w)
    BY <1>1, <1>2, <1>4, <2>1, <2>2 DEF Liftable
  <2>4. Lifted(r, u, P, D, nil, D, P, w)
    BY <2>3, LiftIs
  <2>5. SiblingBlack(u, P, D) = r
    BY <1>5 DEF SiblingBlack, Lift, Paint2
  <2> HIDE DEF r
  <2>6. Pivoted(u, D, P, w, b, u.parent[P], SideOf(u, P), r)
    BY <2>4 DEF Lifted
  <2>7. r.child[o][P] = b /\ r.child[D][P] = c /\ Live(r) = Live(u) /\ r.key = u.key /\ b # P /\ b # w
    BY <1>1, <2>6 DEF Pivoted
  <2>8. b \in Node0
    BY <1>1, <1>4, KinAre
  <2>9. u.red[b] = FALSE
    BY <1>1, <1>4, <2>1, NoClash
  <2>10. r.red[b] = FALSE /\ r.red[c] = FALSE
    BY <1>1, <1>4, <2>4, <2>7, <2>8, <2>9 DEF Lifted
  <2>11. \E R, k : Missing(r, R, k, P, D, c)
    BY <1>1, <2>4, <2>7, <2>10 DEF Missing, Lifted
  <2> QED BY <2>5, <2>7, <2>10, <2>11 DEF MissingTo
<1>6. CASE ~u.red[w]
  <2>1. SiblingBlack(u, P, D) = u
    BY <1>6 DEF SiblingBlack
  <2>2. u.red[w] = FALSE
    BY <1>1, <1>4, <1>6 DEF Trees
  <2> QED BY <2>1, <2>2 DEF MissingTo
<1> QED BY <1>5, <1>6

\* Its third case: afterwards the outer nephew is red.
LEMMA NephewOutIs ==
  ASSUME NEW u, NEW S, NEW h, NEW P, NEW D, NEW c, Missing(u, S, h, P, D, c),
         u.red[u.child[Other(D)][P]] = FALSE,
         \E e \in Sides : u.red[u.child[e][u.child[Other(D)][P]]]
  PROVE  LET r == NephewOut(u, P, D)
         IN  MissingTo(r, u, P, D, c) /\ r.red[r.child[Other(D)][r.child[Other(D)][P]]]
<1> DEFINE o == Other(D)
           w == u.child[o][P]
           near == u.child[D][w]
           far == u.child[o][w]
           r == Lift(u, o, w, near)
<1>1. Full(u, S, h, P, D, nil, nil) /\ Sound(u, S) /\ P \in Live(u) /\ D \in Sides /\ u.child[D][P] = c
      /\ u.red[c] = FALSE /\ u \in Trees /\ Shaped(u, S)
  BY DEF Missing, Full, Sound
<1>2. o \in Sides /\ o # D /\ Other(o) = D /\ \A e \in Sides : e = o \/ e = D
  BY <1>1, SidesAre
<1>3. SiblingOf(u, h, P, D, c, w)
  BY SiblingIs
<1>4. w \in Live(u) /\ w # c /\ w # P /\ c # P /\ c \in Node0 /\ w \in Node0 /\ P \in Node0
      /\ P # nil /\ w # nil /\ u.parent[w] = P /\ w # u.root
  BY <1>3 DEF SiblingOf
<1>5. CASE u.red[far]
  <2>1. NephewOut(u, P, D) = u
    BY <1>5 DEF NephewOut
  <2> QED BY <1>5, <2>1 DEF MissingTo
<1>6. CASE ~u.red[far]
  <2>1. u.red[near]
    BY <1>2, <1>6
  <2>2. near \in Node0 /\ near # w
    BY <1>1, <1>4, KinAre
  <2>3. u.red[near] = TRUE /\ near # nil
    <3>1. ~u.red[nil]
      BY <1>1 DEF Full, Colours
    <3> QED BY <1>1, <2>1, <2>2, <3>1 DEF Trees
  <2>4. near # P /\ near \in Live(u) /\ u.parent[near] = w
    <3>1. u.child[Other(o)][w] = near
      BY <1>2
    <3>2. near # P
      BY <1>1, <1>2, <1>4, <2>3, <3>1, AroundIs
    <3>3. near \in Live(u) /\ u.parent[near] = w
      BY <1>1, <1>4, <2>3, KinAre
    <3> QED BY <3>2, <3>3
  <2>5. Liftable(u, S, h, P, D, nil, o, w, near)
    BY <1>1, <1>2, <1>4, <1>6, <2>3, <2>4 DEF Liftable
  <2>6. Lifted(r, u, P, D, nil, o, w, near)
    BY <2>5, LiftIs
  <2>7. NephewOut(u, P, D) = r
    BY <1>6 DEF NephewOut, Lift, Paint2
  <2> HIDE DEF r
  <2>8. SideOf(u, w) = o
    BY <1>1, <1>2, <1>4, UpIs
  <2>9. Pivoted(u, o, w, near, u.child[o][near], P, o, r)
    BY <1>4, <2>6, <2>8 DEF Lifted
  <2>10. r.child[o][P] = near /\ r.child[o][near] = w /\ Live(r) = Live(u) /\ r.key = u.key
    BY <1>4, <2>9 DEF Pivoted
  <2>11. r.child[D][P] = c
    <3>1. P \in Node0 \ {w, near}
      BY <1>4, <2>4
    <3>2. u.child[D][P] # w
      BY <1>1, <1>4
    <3>3. r.child[D][P] = u.child[D][P]
      BY <1>1, <2>6, <3>1, <3>2 DEF Lifted
    <3> QED BY <1>1, <3>3
  <2>12. c # near
    BY <1>1, <2>3
  <2>13. r.red[c] = FALSE /\ r.red[near] = FALSE /\ r.red[w] = TRUE
    BY <1>1, <1>4, <2>6, <2>12 DEF Lifted
  <2>14. \E R, k : Missing(r, R, k, P, D, c)
    BY <1>1, <2>6, <2>10, <2>11, <2>13 DEF Missing, Lifted
  <2> QED BY <2>7, <2>10, <2>13, <2>14 DEF MissingTo
<1> QED BY <1>5, <1>6

\* The last case: the sibling takes the place and the colour of P, and its far
\* red child turns black; nothing is missing any more.
Restored(r, D, u) == (\E R, k : Full(r, R, k, nil, D, nil, nil)) /\ r.key = u.key

\* Its last case restores every black height.
LEMMA SiblingUpIs ==
  ASSUME NEW u, NEW S, NEW h, NEW P, NEW D, NEW c, Missing(u, S, h, P, D, c),
         u.red[u.child[Other(D)][P]] = FALSE,
         u.red[u.child[Other(D)][u.child[Other(D)][P]]]
  PROVE  Restored(SiblingUp(u, P, D), D, u)
<1> DEFINE r == SiblingUp(u, P, D)
           o == Other(D)
           w == u.child[o][P]
           b == u.child[D][w]
           f == u.child[o][w]
           q == u.parent[P]
           s == SideOf(u, P)
           v == Paint3(u, w, u.red[P], P, FALSE, f, FALSE)
           R == RotatedSets(v, S, D, P, w)
           k == [h EXCEPT ![w] = h[P], ![P] = h[w], ![f] = h[f] + 1]
<1>1. Full(u, S, h, P, D, nil, nil) /\ Sound(u, S) /\ P \in Live(u) /\ D \in Sides /\ u.child[D][P] = c
      /\ u.red[c] = FALSE /\ u \in Trees /\ Shaped(u, S)
  BY DEF Missing, Full, Sound
<1>2. o \in Sides /\ o # D /\ Other(o) = D /\ \A e \in Sides : e = o \/ e = D
  BY <1>1, SidesAre
<1>3. SiblingOf(u, h, P, D, c, w)
  BY SiblingIs
<1>4. w \in Live(u) /\ w # c /\ w # P /\ c # P /\ c \in Node0 /\ w \in Node0 /\ P \in Node0
      /\ P # nil /\ w # nil /\ u.parent[w] = P /\ w # u.root /\ h[c] + 1 = h[w] /\ h[c] \in Nat /\ h[w] \in Nat
  BY <1>3 DEF SiblingOf
<1>5. h \in [Node0 -> Nat] /\ h[nil] = 0 /\ \A n \in Live(u), e \in Sides : Level(u, h, n, e, P, D)
  BY <1>1 DEF Even, Full
<1>6. ~u.red[nil] /\ ~u.red[u.root] /\ \A n \in Live(u), e \in Sides : Clash(u, nil, nil, n, e)
  BY <1>1 DEF Colours, Full
<1>7. f # nil /\ f \in Node0 /\ f # w /\ f \in Live(u) /\ u.parent[f] = w /\ f # u.root
      /\ b \in Node0 /\ b # w /\ f # P /\ (b # nil => b # f) /\ u.red[w] = FALSE /\ u.red[f]
  <2>1. u.red[f] /\ f # nil
    BY <1>6
  <2>2. f \in Node0 /\ f # w /\ f \in Live(u) /\ u.parent[f] = w /\ f # u.root
    BY <1>1, <1>2, <1>4, <2>1, KinAre
  <2>3. b \in Node0 /\ b # w /\ (b # nil => b # f)
    BY <1>1, <1>4, KinAre
  <2>4. f # P
    <3>1. u.child[Other(D)][P] = w
      OBVIOUS
    <3>2. u.parent[P] # w
      BY <1>1, <1>4, <3>1, AroundIs
    <3> QED BY <2>2, <3>2
  <2> QED BY <2>1, <2>2, <2>3, <2>4
<1>8. Painted(v, u) /\ v.red[w] = u.red[P] /\ v.red[P] = FALSE /\ v.red[f] = FALSE
      /\ \A n \in Node0 \ {w, P, f} : v.red[n] = u.red[n]
  <2>1. u.red[P] \in BOOLEAN
    BY <1>1, <1>4 DEF Trees
  <2>2. Dyed3(v, u, w, u.red[P], P, FALSE, f, FALSE)
    BY <1>1, <1>4, <1>7, <2>1, PaintThree
  <2> HIDE DEF v
  <2> QED BY <2>2 DEF Dyed3
<1>9. Rotate(v, D, P) = r
  BY DEF SiblingUp, Paint3
<1> HIDE DEF v, r
<1>10. Turn(u, S, D, P, w, b, q, s, v, r)
  BY <1>1, <1>4, <1>8, <1>9 DEF Turn
<1>11. Pivoted(u, D, P, w, b, q, s, r) /\ r.red = v.red /\ Sound(r, R)
  BY <1>10, TurnLinks
<1>12. Live(r) = Live(u) /\ (r.root = u.root \/ r.root = w) /\ r.key = u.key /\ b # P /\ q # w
       /\ r.child[o][P] = b /\ r.child[D][P] = c /\ r.child[D][w] = P /\ r.child[o][w] = f
  BY <1>1, <1>11 DEF Pivoted
<1> HIDE DEF R
<1>13. c # f
  BY <1>1, <1>7
<1>14. b # f
  BY <1>7
<1>15. h[P] = h[w] + Weight(u, P) /\ h[b] + 1 = h[w] /\ h[f] + 1 = h[w]
       /\ h[b] \in Nat /\ h[f] \in Nat /\ h[P] \in Nat
  <2>1. Level(u, h, P, o, P, D) /\ Level(u, h, w, D, P, D) /\ Level(u, h, w, o, P, D)
    BY <1>1, <1>2, <1>4, <1>5
  <2>2. Weight(u, w) = 1
    BY <1>7 DEF Weight
  <2>3. h[w] + Weight(u, P) = h[P] /\ h[b] + 1 = h[w] /\ h[f] + 1 = h[w]
    BY <1>2, <1>4, <2>1, <2>2 DEF Level
  <2>4. h[b] \in Nat /\ h[f] \in Nat /\ h[P] \in Nat
    BY <1>4, <1>5, <1>7
  <2> QED BY <2>3, <2>4
<1>16. k \in [Node0 -> Nat] /\ k[w] = h[P] /\ k[P] = h[w] /\ k[f] = h[f] + 1
       /\ \A n \in Node0 \ {w, P, f} : k[n] = h[n]
  <2>1. h[f] + 1 \in Nat
    BY <1>15
  <2> QED BY <1>4, <1>5, <1>7, <1>15, <2>1, ThreeChanges
<1> HIDE DEF b, f, o, w, k, q, s
<1>17. ASSUME NEW n \in Live(r), NEW e \in Sides
       PROVE  Level(r, k, n, e, nil, D) /\ Clash(r, nil, nil, n, e)
  <2>1. n \in Live(u) /\ n \in Node0 /\ n # nil
    BY <1>1, <1>12, LiveAre
  <2>2. CASE n = P
    <3>1. Weight(r, P) = 1 /\ ~r.red[P]
      BY <1>8, <1>11 DEF Weight
    <3>2. k[c] + 1 = k[P] /\ k[b] + 1 = k[P]
      BY <1>4, <1>7, <1>12, <1>13, <1>14, <1>15, <1>16
    <3>3. CASE e = D
      BY <1>4, <1>12, <2>2, <3>1, <3>2, <3>3 DEF Level, Clash
    <3>4. CASE e = o
      BY <1>4, <1>12, <2>2, <3>1, <3>2, <3>4 DEF Level, Clash
    <3> QED BY <1>2, <3>3, <3>4
  <2>3. CASE n = w
    <3>1. Weight(r, w) = Weight(u, P) /\ ~r.red[P] /\ ~r.red[f]
      BY <1>8, <1>11 DEF Weight
    <3>2. k[P] + Weight(u, P) = k[w] /\ k[f] + Weight(u, P) = k[w]
      BY <1>15, <1>16
    <3>3. CASE e = D
      BY <1>4, <1>12, <2>3, <3>1, <3>2, <3>3 DEF Level, Clash
    <3>4. CASE e = o
      BY <1>4, <1>12, <2>3, <3>1, <3>2, <3>4 DEF Level, Clash
    <3> QED BY <1>2, <3>3, <3>4
  <2>4. CASE n # P /\ n # w
    <3> DEFINE m == u.child[e][n]
    <3>1. n \in Node0 \ {P, w}
      BY <2>1, <2>4
    <3>2. Level(u, h, n, e, nil, D) /\ Clash(u, nil, nil, n, e)
      BY <1>5, <1>6, <2>1, <2>4 DEF Level
    <3>3. m \in Node0 /\ m # f
      <4>1. m \in Node0 /\ (m # nil => u.parent[m] = n)
        BY <1>1, <2>1, KinAre
      <4> QED BY <1>7, <2>4, <4>1
    <3>4. m \in Node0 \ {P, w} => k[m] = h[m] /\ v.red[m] = u.red[m]
      BY <1>8, <1>16, <3>3
    <3> HIDE DEF m
    <3>5. CASE n = f
      <4>1. Weight(u, f) = 0 /\ Weight(r, f) = 1 /\ ~r.red[f]
        BY <1>7, <1>8, <1>11 DEF Weight
      <4>2. k[r.child[e][n]] = h[m]
        BY <1>10, <1>16, <3>1, <3>4, TurnElsewhere DEF m
      <4>3. h[m] + Weight(u, f) = h[f] /\ h[m] \in Nat
        BY <1>5, <2>1, <3>2, <3>3, <3>5 DEF Level, m
      <4>4. k[r.child[e][n]] + Weight(r, n) = k[n]
        BY <1>15, <1>16, <3>5, <4>1, <4>2, <4>3
      <4> QED BY <2>1, <3>5, <4>1, <4>4 DEF Level, Clash
    <3>6. CASE n # f
      <4>1. k[w] = h[P] /\ k[n] = h[n] /\ v.red[n] = u.red[n] /\ v.red[w] = u.red[P]
        BY <1>8, <1>16, <2>1, <2>4, <3>6
      <4>2. Level(r, k, n, e, nil, D)
        BY <1>10, <3>1, <3>2, <3>4, <4>1, LevelElsewhere DEF m
      <4>3. nil # P /\ nil # n
        BY <1>4, <2>1
      <4>4. r.red[n] /\ r.red[r.child[e][n]] => r.child[e][n] = nil /\ nil # w
        BY <1>10, <3>1, <3>2, <3>4, <4>1, <4>3, ClashElsewhere DEF m
      <4> QED BY <4>2, <4>4 DEF Clash
    <3> QED BY <3>5, <3>6
  <2> QED BY <2>2, <2>3, <2>4
<1>18. Even(r, k, nil, D)
  <2>1. k[nil] = 0
    BY <1>4, <1>5, <1>7, <1>16, NodesAre
  <2> QED BY <1>16, <1>17, <2>1 DEF Even
<1>19. Colours(r, nil, nil)
  <2>1. ~r.red[nil]
    BY <1>4, <1>6, <1>7, <1>8, <1>11, NodesAre
  <2>2. ~r.red[r.root]
    <3>1. q = nil <=> P = u.root
      BY <1>1, RootIs DEF q
    <3>2. CASE q = nil
      <4>1. r.root = w
        BY <1>11, <3>2 DEF Pivoted
      <4> QED BY <1>6, <1>8, <1>11, <3>1, <3>2, <4>1
    <3>3. CASE q # nil
      <4>1. r.root = u.root
        BY <1>11, <3>3 DEF Pivoted
      <4>2. u.root \in Node0 \ {w, P, f}
        BY <1>1, <1>4, <1>7, <3>1, <3>3, LiveAre
      <4> QED BY <1>6, <1>8, <1>11, <4>1, <4>2
    <3> QED BY <3>2, <3>3
  <2> QED BY <1>17, <2>1, <2>2 DEF Colours
<1>20. Restored(r, D, u)
  BY <1>11, <1>12, <1>18, <1>19 DEF Full, Restored
<1> QED BY <1>20 DEF r

\* What holds while rbtree_delete_fixup runs at the node c.
Deleting(u, c) ==
  \/ c = u.root /\ \E S, h, D : Full(u, S, h, nil, D, c, c)
  \/ \E S, h, P, D : /\ Full(u, S, h, P, D, c, c) /\ P \in Live(u) /\ D \in Sides
                     /\ u.child[D][P] = c /\ u.parent[c] = P

\* The second case: with two black nephews the sibling turns red, and the black
\* node is missing one level higher.
SiblingRed(u, w) == [u EXCEPT !.red[w] = TRUE]
LackUp(v, P, u) == Deleting(v, P) /\ v.key = u.key

\* Its second case: the lack moves up to the parent.
LEMMA SiblingRedIs ==
  ASSUME NEW u, NEW S, NEW h, NEW P, NEW D, NEW c, Missing(u, S, h, P, D, c),
         u.red[u.child[Other(D)][P]] = FALSE,
         \A e \in Sides : ~u.red[u.child[e][u.child[Other(D)][P]]]
  PROVE  LackUp(SiblingRed(u, u.child[Other(D)][P]), P, u)
<1> DEFINE v == SiblingRed(u, u.child[Other(D)][P])
           o == Other(D)
           w == u.child[o][P]
           Q == u.parent[P]
           E == SideOf(u, P)
           k == [h EXCEPT ![w] = h[w] - 1, ![P] = h[P] - 1]
<1>1. Full(u, S, h, P, D, nil, nil) /\ Sound(u, S) /\ P \in Live(u) /\ D \in Sides /\ u.child[D][P] = c
      /\ u.red[c] = FALSE /\ u \in Trees /\ Shaped(u, S)
  BY DEF Missing, Full, Sound
<1>2. o \in Sides /\ o # D /\ \A e \in Sides : e = o \/ e = D
  BY <1>1, SidesAre
<1>3. SiblingOf(u, h, P, D, c, w)
  BY SiblingIs
<1>4. w \in Live(u) /\ w # c /\ w # P /\ c # P /\ c \in Node0 /\ w \in Node0 /\ P \in Node0
      /\ P # nil /\ w # nil /\ u.parent[w] = P /\ w # u.root /\ h[c] + 1 = h[w] /\ h[c] \in Nat /\ h[w] \in Nat
  BY <1>3 DEF SiblingOf
<1>5. h \in [Node0 -> Nat] /\ h[nil] = 0 /\ \A n \in Live(u), e \in Sides : Level(u, h, n, e, P, D)
  BY <1>1 DEF Even, Full
<1>6. ~u.red[nil] /\ ~u.red[u.root] /\ \A n \in Live(u), e \in Sides : Clash(u, nil, nil, n, e)
  BY <1>1 DEF Colours, Full
<1>7. Painted(v, u) /\ v.red[w] = TRUE /\ \A n \in Node0 \ {w} : v.red[n] = u.red[n]
  <2>1. [u EXCEPT !.red[w] = TRUE] = v
    BY DEF SiblingRed
  <2> HIDE DEF w, v
  <2> DEFINE a == [u EXCEPT !.red[w] = TRUE]
  <2>2. Painted(a, u) /\ a.red[w] = TRUE /\ \A n \in Node0 \ {w} : a.red[n] = u.red[n]
    BY <1>1, <1>4, PaintOne
  <2>3. a = v
    BY <2>1
  <2> HIDE DEF a
  <2> QED BY <2>2, <2>3
<1> HIDE DEF v
<1>8. Sound(v, S) /\ Live(v) = Live(u) /\ v.child = u.child /\ v.parent = u.parent /\ v.root = u.root /\ v.key = u.key
  BY <1>1, <1>7, PaintedSound DEF Painted
<1>9. h[P] = h[w] + Weight(u, P) /\ h[P] \in Nat /\ Weight(u, P) \in Nat
  <2>1. Level(u, h, P, o, P, D)
    BY <1>1, <1>2, <1>5
  <2> QED BY <1>2, <1>4, <1>5, <2>1 DEF Level, Weight
<1>10. k \in [Node0 -> Nat] /\ k[w] = h[w] - 1 /\ k[P] = h[P] - 1 /\ \A n \in Node0 \ {w, P} : k[n] = h[n]
  <2>1. h[w] - 1 \in Nat /\ h[P] - 1 \in Nat
    BY <1>4, <1>9
  <2> QED BY <1>4, <1>5, <2>1
<1>11. P # Q /\ Q # w
  <2>1. u.child[Other(D)][P] = w
    OBVIOUS
  <2> QED BY <1>1, <1>4, <2>1, AroundIs
<1>12. u.red[w] = FALSE /\ \A e \in Sides : ~u.red[u.child[e][w]]
  OBVIOUS
<1> HIDE DEF o, w, k
<1>13. ASSUME NEW n \in Live(v), NEW e \in Sides
       PROVE  Level(v, k, n, e, Q, E) /\ Clash(v, P, P, n, e)
  <2> DEFINE m == u.child[e][n]
  <2>1. n \in Live(u) /\ n \in Node0 /\ n # nil /\ m = v.child[e][n]
        /\ m \in Node0 /\ m # n /\ (m # nil => u.parent[m] = n)
    BY <1>1, <1>8, KinAre
  <2>2. Clash(u, nil, nil, n, e) /\ Level(u, h, n, e, P, D)
    BY <1>5, <1>6, <2>1
  <2>3. h[m] \in Nat /\ h[n] \in Nat /\ Weight(u, n) \in Nat
    BY <1>5, <2>1 DEF Weight
  <2>4. CASE n = P
    <3>1. Weight(v, P) = Weight(u, P)
      BY <1>4, <1>7 DEF Weight
    <3>2. k[w] + Weight(v, P) = k[P] /\ k[c] + Weight(v, P) = k[P]
      BY <1>4, <1>9, <1>10, <3>1
    <3>3. m = w \/ m = c
      BY <1>1, <1>2, <2>4 DEF w
    <3> QED BY <1>11, <2>1, <2>4, <3>2, <3>3 DEF Level, Clash
  <2>5. CASE n = w
    <3>1. Weight(v, w) = 0 /\ Weight(u, w) = 1 /\ ~u.red[m]
      BY <1>7, <1>12, <2>5 DEF Weight
    <3>2. m # P
      <4>1. m = P => Q = w
        BY <1>4, <2>1, <2>5
      <4> QED BY <1>11, <4>1
    <3>3. h[m] + 1 = h[w]
      BY <1>4, <2>2, <2>5, <3>1 DEF Level
    <3>4. k[m] + Weight(v, w) = k[w] /\ ~v.red[m]
      BY <1>4, <1>7, <1>10, <2>1, <2>3, <2>5, <3>1, <3>2, <3>3
    <3> QED BY <1>11, <2>1, <2>5, <3>4 DEF Level, Clash
  <2>6. CASE n # P /\ n # w
    <3>1. Weight(v, n) = Weight(u, n) /\ v.red[n] = u.red[n] /\ k[n] = h[n]
      BY <1>7, <1>10, <2>1, <2>6 DEF Weight
    <3>2. h[m] + Weight(u, n) = h[n]
      BY <2>2, <2>6 DEF Level
    <3>3. m # w
      BY <1>4, <2>1, <2>6
    <3>4. Clash(v, P, P, n, e)
      BY <1>7, <2>1, <2>2, <3>1, <3>3, <1>6 DEF Clash
    <3>5. CASE m = P
      <4>1. n = Q
        BY <1>4, <2>1, <3>5
      <4>2. P # u.root
        BY <1>1, <2>1, <4>1, RootIs
      <4>3. e = E
        BY <1>1, <2>1, <3>5, <4>1, <4>2, UpIs
      <4>4. k[m] + 1 + Weight(v, n) = k[n]
        BY <1>9, <1>10, <2>3, <3>1, <3>2, <3>5
      <4> QED BY <2>1, <3>4, <4>1, <4>3, <4>4 DEF Level
    <3>6. CASE m # P
      <4>1. k[m] + Weight(v, n) = k[n]
        BY <1>10, <2>1, <3>1, <3>2, <3>3, <3>6
      <4>2. ~(n = Q /\ e = E)
        <5>1. ASSUME n = Q, e = E PROVE FALSE
          <6>1. P # u.root
            BY <1>1, <2>1, <5>1, RootIs
          <6>2. u.child[E][Q] = P
            BY <1>1, <6>1, UpIs
          <6> QED BY <3>6, <5>1, <6>2
        <5> QED BY <5>1
      <4> QED BY <2>1, <3>4, <4>1, <4>2 DEF Level
    <3> QED BY <3>5, <3>6
  <2> QED BY <2>4, <2>5, <2>6
<1>14. Even(v, k, Q, E)
  <2>1. k[nil] = 0
    BY <1>4, <1>5, <1>10, NodesAre
  <2> QED BY <1>10, <1>13, <2>1 DEF Even
<1>15. Colours(v, P, P)
  <2>1. ~v.red[nil] /\ ~v.red[v.root]
    BY <1>1, <1>4, <1>6, <1>7, <1>8, NodesAre, LiveAre
  <2> QED BY <1>13, <2>1 DEF Colours
<1>16. Full(v, S, k, Q, E, P, P)
  BY <1>8, <1>14, <1>15 DEF Full
<1>17. ASSUME P = u.root PROVE LackUp(v, P, u)
  <2>1. Q = nil
    BY <1>1, <1>17, RootIs
  <2> QED BY <1>8, <1>16, <1>17, <2>1 DEF Deleting, LackUp
<1>18. ASSUME P # u.root PROVE LackUp(v, P, u)
  <2>1. Q \in Live(u) /\ E \in Sides /\ u.child[E][Q] = P
    BY <1>1, <1>18, UpIs
  <2> QED BY <1>8, <1>16, <2>1 DEF Deleting, LackUp
<1> QED BY <1>17, <1>18 DEF v

\* One turn of rbtree_delete_fixup.
LEMMA DeleteTurnIs ==
  ASSUME NEW u, NEW c, Deleting(u, c), c # u.root, ~u.red[c]
  PROVE  LET turn == DeleteTurn(u, c)
         IN  Deleting(turn.tree, turn.at) /\ turn.tree.key = u.key
<1>1. PICK S, h, P, D : /\ Full(u, S, h, P, D, c, c) /\ P \in Live(u) /\ D \in Sides
                        /\ u.child[D][P] = c /\ u.parent[c] = P
  BY DEF Deleting
<1>2. Sound(u, S) /\ Even(u, h, P, D) /\ Colours(u, c, c) /\ u \in Trees /\ Shaped(u, S)
  BY <1>1 DEF Full, Sound
<1>3. u.red[c] = FALSE
  <2>1. c \in Node0
    BY <1>1, <1>2, LiveAre
  <2> QED BY <1>2, <2>1 DEF Trees
<1>4. Colours(u, nil, nil)
  <2>1. ~u.red[u.root] /\ ~u.red[nil]
    BY <1>2 DEF Colours
  <2>2. ASSUME NEW x \in Live(u), NEW e \in Sides PROVE Clash(u, nil, nil, x, e)
    <3>1. Clash(u, c, c, x, e)
      BY <1>2 DEF Colours
    <3> QED BY <3>1 DEF Clash
  <2> QED BY <2>1, <2>2 DEF Colours
<1>5. Missing(u, S, h, P, D, c)
  BY <1>1, <1>2, <1>3, <1>4 DEF Missing, Full
<1>6. SideOf(u, c) = D
  <2>1. SiblingOf(u, h, P, D, c, u.child[Other(D)][P])
    BY <1>5, SiblingIs
  <2>2. u.child[Other(D)][P] # c
    BY <2>1 DEF SiblingOf
  <2>3. CASE D = "left"
    BY <1>1, <2>3 DEF SideOf
  <2>4. CASE D = "right"
    BY <1>1, <2>2, <2>4 DEF SideOf, Other
  <2> QED BY <1>1, <2>3, <2>4 DEF Sides
<1> DEFINE v == SiblingBlack(u, P, D)
           w == v.child[Other(D)][P]
           n == NephewOut(v, P, D)
           upper == SiblingUp(n, P, D)
           t == [v EXCEPT !.red[w] = TRUE]
<1>7. DeleteTurn(u, c) = IF \A e \in Sides : ~v.red[v.child[e][w]]
                         THEN [tree |-> t, at |-> P]
                         ELSE [tree |-> upper, at |-> upper.root]
  BY <1>1, <1>6 DEF DeleteTurn
<1>8. MissingTo(v, u, P, D, c)
  BY <1>5, SiblingBlackIs
<1> HIDE DEF v
<1>9. PICK R, k : Missing(v, R, k, P, D, c)
  BY <1>8 DEF MissingTo
<1>10. v.key = u.key /\ v.red[v.child[Other(D)][P]] = FALSE
  BY <1>8 DEF MissingTo
<1>11. CASE \A e \in Sides : ~v.red[v.child[e][w]]
  <2>0. LackUp(SiblingRed(v, v.child[Other(D)][P]), P, v)
    BY <1>9, <1>10, <1>11, SiblingRedIs
  <2>1. Deleting(t, P) /\ t.key = v.key
    BY <2>0 DEF LackUp, SiblingRed
  <2>2. DeleteTurn(u, c) = [tree |-> t, at |-> P]
    BY <1>7, <1>11
  <2> HIDE DEF t
  <2> QED BY <1>10, <2>1, <2>2
<1>12. CASE \E e \in Sides : v.red[v.child[e][w]]
  <2>1. MissingTo(n, v, P, D, c) /\ n.red[n.child[Other(D)][n.child[Other(D)][P]]]
    BY <1>9, <1>10, <1>12, NephewOutIs
  <2>2. DeleteTurn(u, c) = [tree |-> upper, at |-> upper.root]
    BY <1>7, <1>12
  <2> HIDE DEF n
  <2>3. PICK Q, g : Missing(n, Q, g, P, D, c)
    BY <2>1 DEF MissingTo
  <2>4. n.key = v.key /\ n.red[n.child[Other(D)][P]] = FALSE
    BY <2>1 DEF MissingTo
  <2>5. Restored(upper, D, n)
    BY <2>1, <2>3, <2>4, SiblingUpIs
  <2> HIDE DEF upper
  <2>6. PICK Z, j : Full(upper, Z, j, nil, D, nil, nil)
    BY <2>5 DEF Restored
  <2>7. Full(upper, Z, j, nil, D, upper.root, upper.root)
    <3>1. Colours(upper, upper.root, upper.root)
      BY <2>6 DEF Full, Colours, Clash
    <3> QED BY <2>6, <3>1 DEF Full
  <2>8. Deleting(upper, upper.root)
    BY <2>7 DEF Deleting
  <2> QED BY <1>10, <2>2, <2>4, <2>5, <2>8 DEF Restored
<1> QED BY <1>11, <1>12

-----------------------------------------------------------------------------
\* Recursion.  Every nonempty set of natural numbers has a least element, ...
LessThan == {q \in Nat \X Nat : q[1] < q[2]}

\* A nonempty set of natural numbers has a least element.
LEMMA Least ==
  ASSUME NEW S, S \subseteq Nat, S # {}
  PROVE  \E x \in S : \A y \in S : x <= y
<1>1. OpToRel(<, Nat) = LessThan
  BY DEF OpToRel, LessThan
<1>2. IsWellFoundedOn(LessThan, Nat)
  BY <1>1, NatLessThanWellFounded
<1>3. \E x \in S : \A y \in S : ~ (<<y, x>> \in LessThan)
  BY <1>2, WFMin
<1>4. PICK x \in S : \A y \in S : ~ (<<y, x>> \in LessThan)
  BY <1>3
<1>5. \A y \in S : x <= y
  <2> TAKE y \in S
  <2>1. x \in Nat /\ y \in Nat
    OBVIOUS
  <2>2. ~(y < x)
    BY <1>4, <2>1 DEF LessThan
  <2> QED BY <2>1, <2>2
<1> QED BY <1>5

\* ... so that a function that recurs on smaller and smaller nodes exists.
Follows(f, D, Stop, nxt) ==
  f \in [D -> D] /\ \A x \in D : f[x] = IF x \in Stop THEN x ELSE f[nxt[x]]

\* Recursion along a function that goes down in a rank is defined: there is a
\* function that follows its equations.
LEMMA Descent ==
  ASSUME NEW D, NEW Stop, NEW nxt \in [D -> D], NEW r \in [D -> Nat], NEW N \in Nat,
         \A x \in D : r[x] < N,
         \A x \in D : x \notin Stop => r[nxt[x]] < r[x]
  PROVE  \E f : Follows(f, D, Stop, nxt)
<1> DEFINE Good(f, n) == \A x \in D : r[x] < n => f[x] = IF x \in Stop THEN x ELSE f[nxt[x]]
           Bad == {n \in Nat : ~ \E f \in [D -> D] : Good(f, n)}
<1>1. CASE Bad = {}
  <2>1. PICK f \in [D -> D] : Good(f, N)
    BY <1>1
  <2> QED BY <2>1 DEF Follows
<1>2. CASE Bad # {}
  <2>1. PICK m \in Bad : \A n \in Bad : m <= n
    BY <1>2, Least
  <2>2. m \in Nat /\ m # 0
    <3>1. m \in Nat
      OBVIOUS
    <3>2. Good([x \in D |-> x], 0)
      OBVIOUS
    <3>3. [x \in D |-> x] \in [D -> D]
      OBVIOUS
    <3>4. 0 \notin Bad
      BY <3>2, <3>3
    <3> QED BY <3>1, <3>4
  <2>3. m - 1 \in Nat /\ ~(m <= m - 1)
    BY <2>2
  <2>4. m - 1 \notin Bad
    BY <2>1, <2>3
  <2>5. PICK f \in [D -> D] : Good(f, m - 1)
    BY <2>3, <2>4
  <2> DEFINE g == [x \in D |-> IF x \in Stop THEN x ELSE f[nxt[x]]]
  <2>6. g \in [D -> D]
    OBVIOUS
  <2>7. Good(g, m)
    <3> SUFFICES ASSUME NEW x \in D, r[x] < m, x \notin Stop
                 PROVE  g[x] = g[nxt[x]]
      OBVIOUS
    <3>1. nxt[x] \in D /\ r[nxt[x]] < m - 1
      BY <2>2
    <3>2. f[nxt[x]] = g[nxt[x]]
      BY <2>5, <3>1
    <3> QED BY <3>2
  <2> QED BY <2>1, <2>6, <2>7
<1> QED BY <1>1, <1>2

\* There are finitely many nodes.
LEMMA NodesFinite == IsFiniteSet(Nodes) /\ IsFiniteSet(Node0) /\ Cardinality(Nodes) = MaxNodes
<1>1. IsFiniteSet(Nodes) /\ Cardinality(Nodes) = IF 1 > MaxNodes THEN 0 ELSE MaxNodes - 1 + 1
  BY FS_Interval, RbTreeAssumption DEF Nodes
<1>2. Cardinality(Nodes) = MaxNodes
  <2>1. MaxNodes \in Nat
    BY RbTreeAssumption
  <2> QED BY <1>1, <2>1
<1>3. IsFiniteSet(Node0)
  <2>1. IsFiniteSet({nil})
    BY FS_Singleton
  <2> QED BY <1>1, <2>1, FS_Union DEF Node0
<1> QED BY <1>1, <1>2, <1>3

\* The size of a subtree, 0 for nil and 1 for a blank node.
Size(S, x) == IF x = nil THEN 0 ELSE Cardinality(S[x]) + 1

\* The size of a subtree is a rank for every walk down the tree.
LEMMA SizeIs ==
  ASSUME NEW u, NEW S, Sound(u, S)
  PROVE  /\ \A x \in Node0 : Size(S, x) \in Nat /\ Size(S, x) < MaxNodes + 2 /\ Cardinality(S[x]) \in Nat
         /\ \A x \in Nodes, d \in Sides : Size(S, u.child[d][x]) < Size(S, x)
         /\ \A x \in Live(u), d \in Sides : Cardinality(S[u.child[d][x]]) < Cardinality(S[x])
<1>1. u \in Trees /\ Shaped(u, S) /\ S \in [Node0 -> SUBSET Live(u)]
  BY DEF Sound, Shaped
<1>2. ASSUME NEW x \in Node0
      PROVE  IsFiniteSet(S[x]) /\ Cardinality(S[x]) \in Nat /\ Cardinality(S[x]) <= MaxNodes
  <2>1. S[x] \subseteq Nodes
    BY <1>1, LiveAre
  <2> QED BY <2>1, NodesFinite, FS_Subset, FS_CardinalityType
<1>3. ASSUME NEW x \in Live(u), NEW d \in Sides
      PROVE  Cardinality(S[u.child[d][x]]) < Cardinality(S[x])
  <2>1. x \in S[x] /\ S[u.child[d][x]] \subseteq S[x] /\ x \notin S[u.child[d][x]]
    BY <1>1, ChildIs
  <2>2. x \in Node0 /\ u.child[d][x] \in Node0
    BY <1>1, LiveAre
  <2>3. IsFiniteSet(S[x]) /\ Cardinality(S[x]) \in Nat /\ Cardinality(S[u.child[d][x]]) \in Nat
    BY <1>2, <2>2
  <2>4. IsFiniteSet(S[x] \ {x}) /\ Cardinality(S[x] \ {x}) = Cardinality(S[x]) - 1
    BY <2>1, <2>3, FS_RemoveElement
  <2>5. S[u.child[d][x]] \subseteq S[x] \ {x}
    BY <2>1
  <2>6. Cardinality(S[u.child[d][x]]) <= Cardinality(S[x] \ {x})
    BY <2>4, <2>5, FS_Subset
  <2> QED BY <2>3, <2>4, <2>6
<1>4. MaxNodes \in Nat
  BY RbTreeAssumption
<1>5. ASSUME NEW x \in Node0 PROVE Size(S, x) \in Nat /\ Size(S, x) < MaxNodes + 2
  BY <1>2, <1>4 DEF Size
<1>6. ASSUME NEW x \in Nodes, NEW d \in Sides PROVE Size(S, u.child[d][x]) < Size(S, x)
  <2>1. x # nil /\ x \in Node0
    BY NodesAre
  <2>2. CASE u.child[d][x] = nil
    BY <1>2, <2>1, <2>2 DEF Size
  <2>3. CASE u.child[d][x] # nil
    <3>1. x \in Live(u)
      BY <1>1, <2>1, <2>3 DEF Shaped
    <3>2. u.child[d][x] \in Node0
      BY <1>1, <2>1, LiveAre
    <3>3. Cardinality(S[u.child[d][x]]) < Cardinality(S[x])
      BY <1>3, <3>1
    <3>4. Cardinality(S[u.child[d][x]]) \in Nat /\ Cardinality(S[x]) \in Nat
      BY <1>2, <2>1, <3>2
    <3> QED BY <2>1, <2>3, <3>3, <3>4 DEF Size
  <2> QED BY <2>2, <2>3
<1> QED BY <1>2, <1>3, <1>5, <1>6

\* Of some nodes one has no child among them.
LEMMA Lowest ==
  ASSUME NEW u, NEW S, Sound(u, S), NEW Bad, Bad \subseteq Live(u), Bad # {}
  PROVE  \E x \in Bad : \A d \in Sides : u.child[d][x] \notin Bad
<1> DEFINE C == {Cardinality(S[x]) : x \in Bad}
<1>1. u \in Trees
  BY DEF Sound
<1>2. C \subseteq Nat /\ C # {}
  BY <1>1, SizeIs, LiveAre
<1>3. PICK m \in C : \A n \in C : m <= n
  BY <1>2, Least
<1>4. PICK x \in Bad : m = Cardinality(S[x])
  BY <1>3
<1>5. ASSUME NEW d \in Sides, u.child[d][x] \in Bad PROVE FALSE
  <2>1. m <= Cardinality(S[u.child[d][x]])
    BY <1>3, <1>5
  <2>2. Cardinality(S[u.child[d][x]]) < m
    BY <1>4, SizeIs
  <2>3. m \in Nat /\ Cardinality(S[u.child[d][x]]) \in Nat
    BY <1>2, <1>3, <1>5
  <2> QED BY <2>1, <2>2, <2>3
<1> QED BY <1>5

\* Subtrees of subtrees are subtrees.
LEMMA Nested ==
  ASSUME NEW u, NEW S, Sound(u, S), NEW x \in Live(u), NEW y \in S[x]
  PROVE  y \in Live(u) /\ S[y] \subseteq S[x]
<1> DEFINE Bad == {n \in Live(u) : \E m \in S[n] : ~(S[m] \subseteq S[n])}
<1>1. u \in Trees /\ Shaped(u, S) /\ S \in [Node0 -> SUBSET Live(u)]
  BY DEF Sound, Shaped
<1>2. ASSUME Bad # {} PROVE FALSE
  <2>1. PICK n \in Bad : \A d \in Sides : u.child[d][n] \notin Bad
    BY <1>2, Lowest
  <2>2. PICK m \in S[n] : ~(S[m] \subseteq S[n])
    BY <2>1
  <2>3. ASSUME NEW d \in Sides, m \in S[u.child[d][n]] PROVE FALSE
    <3>0. n \in Live(u)
      BY <2>1
    <3> HIDE DEF Bad
    <3>1. S[u.child[d][n]] \subseteq S[n]
      BY <1>1, <3>0, ChildIs
    <3>2. u.child[d][n] \in Node0
      BY <1>1, <3>0, LiveAre
    <3>3. u.child[d][n] \in Live(u)
      BY <1>1, <2>3, <3>2 DEF Shaped
    <3> QED BY <2>1, <2>2, <2>3, <3>1, <3>3 DEF Bad
  <2>4. S[n] = {n} \cup S[u.child["left"][n]] \cup S[u.child[Other("left")][n]]
    BY <1>1, ChildIs DEF Sides
  <2>5. m = n
    BY <2>2, <2>3, <2>4, SidesAre DEF Sides
  <2> QED BY <2>2, <2>5
<1>3. x \in Node0
  BY <1>1, LiveAre
<1> QED BY <1>1, <1>2, <1>3

-----------------------------------------------------------------------------
\* The side on which k belongs, seen from x.
Toward(u, k, x) == IF k < u.key[x] THEN "left" ELSE "right"

\* Towards a key: it is not on the other side.
LEMMA TowardIs ==
  ASSUME NEW u, NEW S, Sound(u, S), NEW k \in Keys, NEW x \in Live(u), u.key[x] # k, NEW d, Toward(u, k, x) = d
  PROVE  /\ d \in Sides /\ Lt(d, k, u.key[x])
         /\ \A y \in S[u.child[Other(d)][x]] : u.key[y] # k
<1>1. u \in Trees /\ Shaped(u, S) /\ Ordered(u, S) /\ S \in [Node0 -> SUBSET Live(u)]
  BY DEF Sound, Shaped
<1>2. k \in Int /\ u.key[x] \in Int
  BY <1>1, LiveAre, RbTreeAssumption
<1>3. d \in Sides /\ Lt(d, k, u.key[x])
  BY <1>2 DEF Toward, Sides, Lt
<1>4. Other(d) \in Sides
  BY <1>3, SidesAre
<1>5. ASSUME NEW y \in S[u.child[Other(d)][x]] PROVE u.key[y] # k
  <2>1. Parted(u, S, x, Other(d))
    BY <1>1, <1>4 DEF Ordered
  <2>2. Lt(Other(d), u.key[y], u.key[x])
    BY <2>1 DEF Parted
  <2>3. y \in Live(u)
    BY <1>1, <1>4, LiveAre
  <2>4. u.key[y] \in Int
    BY <1>1, <2>3, LiveAre
  <2>5. Lt(d, u.key[x], u.key[y])
    BY <1>2, <1>3, <2>2, <2>4, LtIs
  <2>6. Lt(d, k, u.key[y])
    BY <1>2, <1>3, <2>4, <2>5, LtIs
  <2> QED BY <1>2, <1>3, <2>4, <2>6, LtIs
<1> QED BY <1>3, <1>5

\* Any way down the tree ends.
Ways(f, u, t, Stop) ==
  f \in [Node0 -> Node0] /\ \A x \in Node0 : f[x] = IF x \in Stop THEN x ELSE f[u.child[t[x]][x]]

\* A walk down the tree is defined.
LEMMA WayDown ==
  ASSUME NEW u, NEW S, Sound(u, S), NEW t, t \in [Node0 -> Sides], NEW Stop, nil \in Stop
  PROVE  \E f : Ways(f, u, t, Stop)
<1> DEFINE nxt == [x \in Node0 |-> u.child[t[x]][x]]
           r == [x \in Node0 |-> Size(S, x)]
<1>1. u \in Trees
  BY DEF Sound
<1>2. nxt \in [Node0 -> Node0]
  BY <1>1, LiveAre
<1>3. r \in [Node0 -> Nat] /\ \A x \in Node0 : r[x] < MaxNodes + 2
  BY SizeIs
<1>4. \A x \in Node0 : x \notin Stop => r[nxt[x]] < r[x]
  BY <1>1, <1>2, SizeIs, NodesAre, LiveAre
<1>5. MaxNodes + 2 \in Nat
  BY RbTreeAssumption
<1>6. \E f : Follows(f, Node0, Stop, nxt)
  <2> HIDE DEF nxt, r
  <2> QED BY <1>2, <1>3, <1>4, <1>5, Descent
<1>7. ASSUME NEW f, Follows(f, Node0, Stop, nxt) PROVE Ways(f, u, t, Stop)
  BY <1>7 DEF Follows, Ways
<1> QED BY <1>6, <1>7

\* rbtree_search finds the node with the key, if there is one.
Sought(u, k, s) ==
  \/ s \in Live(u) /\ u.key[s] = k
  \/ s = nil /\ \A x \in Live(u) : u.key[x] # k

\* rbtree_search returns the live node with the key, and nil if there is none.
LEMMA SearchIs ==
  ASSUME NEW u, NEW S, Sound(u, S), NEW k \in Keys
  PROVE  Sought(u, k, Search(u, k))
<1> DEFINE t == [x \in Node0 |-> Toward(u, k, x)]
           Stop == {x \in Node0 : x = nil \/ u.key[x] = k}
           from[x \in Node0] ==
             IF x = nil \/ u.key[x] = k THEN x
             ELSE from[u.child[IF k < u.key[x] THEN "left" ELSE "right"][x]]
<1>1. u \in Trees /\ Shaped(u, S) /\ S \in [Node0 -> SUBSET Live(u)]
  BY DEF Sound, Shaped
<1>2. Search(u, k) = from[u.root]
  BY Zenon DEF Search
<1>3. t \in [Node0 -> Sides]
  BY DEF Toward, Sides
<1>4. \E f : f = [x \in Node0 |-> IF x = nil \/ u.key[x] = k THEN x
                                  ELSE f[u.child[IF k < u.key[x] THEN "left" ELSE "right"][x]]]
  <2>1. nil \in Stop
    BY NodesAre
  <2> HIDE DEF t, Stop, from
  <2>2. PICK f : Ways(f, u, t, Stop)
    BY <1>3, <2>1, WayDown
  <2>3. f = [x \in Node0 |-> IF x = nil \/ u.key[x] = k THEN x
                             ELSE f[u.child[IF k < u.key[x] THEN "left" ELSE "right"][x]]]
    BY <2>2 DEF t, Stop, Toward, Ways
  <2> QED BY <2>3
<1>5. from = [x \in Node0 |-> IF x = nil \/ u.key[x] = k THEN x
                              ELSE from[u.child[IF k < u.key[x] THEN "left" ELSE "right"][x]]]
  BY <1>4, Zenon DEF from
<1> HIDE DEF from
<1>6. from[nil] = nil
  BY <1>5, NodesAre
<1>7. ASSUME NEW x \in Live(u)
      PROVE  from[x] = IF u.key[x] = k THEN x ELSE from[u.child[Toward(u, k, x)][x]]
  BY <1>1, <1>5, LiveAre DEF Toward
<1> DEFINE Bad == {x \in Live(u) : ~ \/ from[x] \in Live(u) /\ u.key[from[x]] = k
                                     \/ from[x] = nil /\ \A y \in S[x] : u.key[y] # k}
<1>8. ASSUME Bad # {} PROVE FALSE
  <2>1. PICK x \in Bad : \A d \in Sides : u.child[d][x] \notin Bad
    BY <1>8, Lowest
  <2>2. x \in Live(u) /\ ~ \/ from[x] \in Live(u) /\ u.key[from[x]] = k
                           \/ from[x] = nil /\ \A y \in S[x] : u.key[y] # k
    BY <2>1
  <2>3. u.key[x] # k
    BY <1>7, <2>2
  <2>4. PICK d : Toward(u, k, x) = d
    OBVIOUS
  <2>5. /\ d \in Sides
        /\ \A y \in S[u.child[Other(d)][x]] : u.key[y] # k
    BY <2>2, <2>3, <2>4, TowardIs
  <2>6. from[x] = from[u.child[d][x]]
    BY <1>7, <2>2, <2>3, <2>4
  <2>7. S[x] = {x} \cup S[u.child[d][x]] \cup S[u.child[Other(d)][x]]
    BY <1>1, <2>2, <2>5, ChildIs
  <2>8. \/ from[u.child[d][x]] \in Live(u) /\ u.key[from[u.child[d][x]]] = k
        \/ from[u.child[d][x]] = nil /\ \A y \in S[u.child[d][x]] : u.key[y] # k
    <3>1. CASE u.child[d][x] = nil
      <4>1. S[nil] = {}
        BY <1>1, NodesAre, LiveAre DEF Shaped
      <4> QED BY <1>6, <3>1, <4>1
    <3>2. CASE u.child[d][x] # nil
      <4>1. u.child[d][x] \in Live(u)
        BY <1>1, <2>2, <2>5, <3>2, ChildIs
      <4> QED BY <2>1, <2>5, <4>1
    <3> QED BY <3>1, <3>2
  <2> QED BY <2>2, <2>3, <2>5, <2>6, <2>7, <2>8
<1>9. CASE u.root = nil
  <2>1. Live(u) = {}
    <3>1. S[nil] = {} /\ S[u.root] = Live(u)
      BY <1>1, NodesAre, LiveAre DEF Shaped
    <3> QED BY <1>9, <3>1
  <2> QED BY <1>2, <1>6, <1>9, <2>1 DEF Sought
<1>10. CASE u.root # nil
  <2>1. u.root \in Live(u) /\ S[u.root] = Live(u)
    BY <1>1, <1>10 DEF Shaped
  <2> QED BY <1>2, <1>8, <2>1 DEF Sought
<1> QED BY <1>9, <1>10

\* The descent of rbtree_insert ends at a node y where k belongs; from every
\* node above y, k belongs on the side where y is.
Leaf(u, S, k, y) ==
  /\ y \in Live(u) /\ u.child[Toward(u, k, y)][y] = nil
  /\ \A n \in Live(u) : y \in S[n] => n = y \/ y \in S[u.child[Toward(u, k, n)][n]]

\* The descent of rbtree_insert ends at a node with a free side where the key
\* belongs.
LEMMA LeafForIs ==
  ASSUME NEW u, NEW S, Sound(u, S), NEW k \in Keys, \A x \in Live(u) : u.key[x] # k
  PROVE  IF u.root = nil THEN LeafFor(u, k) = nil ELSE Leaf(u, S, k, LeafFor(u, k))
<1> DEFINE t == [x \in Node0 |-> Toward(u, k, x)]
           next(x) == u.child[IF k < u.key[x] THEN "left" ELSE "right"][x]
           Stop == {x \in Node0 : u.child[t[x]][x] = nil}
           from[x \in Node0] == IF next(x) = nil THEN x ELSE from[next(x)]
<1>1. u \in Trees /\ Shaped(u, S) /\ S \in [Node0 -> SUBSET Live(u)]
  BY DEF Sound, Shaped
<1>2. LeafFor(u, k) = IF u.root = nil THEN nil ELSE from[u.root]
  BY Zenon DEF LeafFor
<1>3. t \in [Node0 -> Sides]
  BY DEF Toward, Sides
<1>4. \E f : f = [x \in Node0 |-> IF next(x) = nil THEN x ELSE f[next(x)]]
  <2>1. nil \in Stop
    BY <1>1, <1>3, LiveAre, NodesAre DEF Shaped
  <2> HIDE DEF t, Stop, from
  <2>2. PICK f : Ways(f, u, t, Stop)
    BY <1>3, <2>1, WayDown
  <2>3. f = [x \in Node0 |-> IF next(x) = nil THEN x ELSE f[next(x)]]
    BY <2>2 DEF t, Stop, Toward, Ways
  <2> QED BY <2>3
<1>5. from = [x \in Node0 |-> IF next(x) = nil THEN x ELSE from[next(x)]]
  BY <1>4, Zenon DEF from
<1> HIDE DEF from
<1>6. ASSUME NEW x \in Live(u)
      PROVE  /\ u.child[Toward(u, k, x)][x] = nil => from[x] = x
             /\ u.child[Toward(u, k, x)][x] # nil => from[x] = from[u.child[Toward(u, k, x)][x]]
  BY <1>1, <1>5, LiveAre DEF Toward
<1> DEFINE Ends(x) == /\ from[x] \in S[x] /\ u.child[Toward(u, k, from[x])][from[x]] = nil
                      /\ \A n \in S[x] : from[x] \in S[n] => n = from[x] \/ from[x] \in S[u.child[Toward(u, k, n)][n]]
           Bad == {x \in Live(u) : ~Ends(x)}
<1>7. ASSUME Bad # {} PROVE FALSE
  <2>1. PICK x \in Bad : \A d \in Sides : u.child[d][x] \notin Bad
    BY <1>7, Lowest
  <2>2. x \in Live(u) /\ ~Ends(x)
    BY <2>1
  <2>3. PICK d : Toward(u, k, x) = d
    OBVIOUS
  <2>4. d \in Sides
    BY <2>3 DEF Toward, Sides
  <2>5. /\ x \in S[x] /\ x \notin S[u.child[d][x]] /\ x \notin S[u.child[Other(d)][x]]
        /\ S[u.child[d][x]] \cap S[u.child[Other(d)][x]] = {}
        /\ S[x] = {x} \cup S[u.child[d][x]] \cup S[u.child[Other(d)][x]]
    BY <1>1, <2>2, <2>4, ChildIs, SidesAre
  <2>6. ASSUME NEW e \in Sides, NEW n \in S[u.child[e][x]]
        PROVE  n \in Live(u) /\ S[n] \subseteq S[u.child[e][x]]
    <3>1. u.child[e][x] \in Node0
      BY <1>1, <2>2, LiveAre
    <3>2. u.child[e][x] \in Live(u)
      BY <1>1, <3>1 DEF Shaped
    <3> QED BY <3>2, Nested
  <2>7. CASE u.child[d][x] = nil
    <3>1. from[x] = x
      BY <1>6, <2>2, <2>3, <2>7
    <3>2. ASSUME NEW n \in S[x], x \in S[n] PROVE n = x
      <4>1. n \notin S[u.child[d][x]] /\ n \notin S[u.child[Other(d)][x]]
        BY <2>4, <2>5, <2>6, <3>2, SidesAre
      <4> QED BY <2>5, <4>1
    <3>3. Ends(x)
      BY <2>3, <2>5, <2>7, <3>1, <3>2
    <3> QED BY <2>2, <3>3
  <2>8. CASE u.child[d][x] # nil
    <3>1. PICK c : u.child[d][x] = c
      OBVIOUS
    <3>2. c \in Live(u)
      BY <1>1, <2>2, <2>4, <2>8, <3>1, ChildIs
    <3>3. Ends(c)
      BY <2>1, <2>4, <3>1, <3>2
    <3>4. from[x] = from[c]
      BY <1>6, <2>2, <2>3, <2>8, <3>1
    <3>5. ASSUME NEW n \in S[x], from[c] \in S[n] PROVE n = from[c] \/ from[c] \in S[u.child[Toward(u, k, n)][n]]
      <4>1. CASE n = x
        BY <2>3, <3>1, <3>3, <4>1
      <4>2. CASE n \in S[c]
        BY <3>3, <3>5, <4>2
      <4>3. CASE n \in S[u.child[Other(d)][x]]
        <5>1. S[n] \subseteq S[u.child[Other(d)][x]]
          BY <2>4, <2>6, <4>3, SidesAre
        <5> QED BY <2>5, <3>1, <3>3, <3>5, <5>1
      <4> QED BY <2>5, <3>1, <4>1, <4>2, <4>3
    <3>6. Ends(x)
      BY <2>5, <3>1, <3>3, <3>4, <3>5
    <3> QED BY <2>2, <3>6
  <2> QED BY <2>7, <2>8
<1>8. CASE u.root # nil
  <2>1. u.root \in Live(u) /\ S[u.root] = Live(u)
    BY <1>1, <1>8 DEF Shaped
  <2>2. Ends(u.root)
    BY <1>7, <2>1
  <2>3. LeafFor(u, k) = from[u.root]
    BY <1>2, <1>8
  <2> QED BY <1>8, <2>1, <2>2, <2>3 DEF Leaf
<1> QED BY <1>2, <1>8

\* rbtree_mini and rbtree_maxi: the end of the subtree on side d.
EndOf(u, S, d, x, m) ==
  m \in S[x] /\ u.child[d][m] = nil /\ \A y \in S[x] \ {m} : Lt(d, u.key[m], u.key[y])

\* rbtree_mini and rbtree_maxi return the end of a subtree on their side.
LEMMA ExtremeIs ==
  ASSUME NEW u, NEW S, Sound(u, S), NEW d \in Sides, NEW z \in Live(u)
  PROVE  EndOf(u, S, d, z, Extreme(u, d, z))
<1> DEFINE t == [x \in Node0 |-> d]
           Stop == {x \in Node0 : u.child[d][x] = nil}
           go[n \in Node0] == IF u.child[d][n] = nil THEN n ELSE go[u.child[d][n]]
<1>1. u \in Trees /\ Shaped(u, S) /\ S \in [Node0 -> SUBSET Live(u)] /\ Ordered(u, S)
  BY DEF Sound, Shaped
<1>2. Extreme(u, d, z) = go[z]
  BY Zenon DEF Extreme
<1>3. \E f : f = [n \in Node0 |-> IF u.child[d][n] = nil THEN n ELSE f[u.child[d][n]]]
  <2>1. nil \in Stop
    BY <1>1, LiveAre, NodesAre DEF Shaped
  <2>2. t \in [Node0 -> Sides]
    OBVIOUS
  <2> HIDE DEF t, Stop, go
  <2>3. PICK f : Ways(f, u, t, Stop)
    BY <2>1, <2>2, WayDown
  <2>4. f = [n \in Node0 |-> IF u.child[d][n] = nil THEN n ELSE f[u.child[d][n]]]
    BY <2>3 DEF t, Stop, Ways
  <2> QED BY <2>4
<1>4. go = [n \in Node0 |-> IF u.child[d][n] = nil THEN n ELSE go[u.child[d][n]]]
  BY <1>3, Zenon DEF go
<1> HIDE DEF go
<1>5. ASSUME NEW x \in Live(u)
      PROVE  /\ u.child[d][x] = nil => go[x] = x
             /\ u.child[d][x] # nil => go[x] = go[u.child[d][x]]
  BY <1>1, <1>4, LiveAre
<1> DEFINE Bad == {x \in Live(u) : ~EndOf(u, S, d, x, go[x])}
<1>6. ASSUME Bad # {} PROVE FALSE
  <2>1. PICK x \in Bad : \A e \in Sides : u.child[e][x] \notin Bad
    BY <1>6, Lowest
  <2>2. x \in Live(u) /\ ~EndOf(u, S, d, x, go[x])
    BY <2>1
  <2>3. PICK c : u.child[d][x] = c
    OBVIOUS
  <2>4. PICK b : u.child[Other(d)][x] = b
    OBVIOUS
  <2>5. x \in S[x] /\ S[x] = {x} \cup S[c] \cup S[b] /\ c \in Node0 /\ b \in Node0
    <3>1. x \in Node0 /\ Other(d) \in Sides
      BY <1>1, <2>2, LiveAre, SidesAre
    <3>2. c \in Node0 /\ b \in Node0
      BY <1>1, <2>3, <2>4, <3>1, LiveAre
    <3> HIDE DEF Bad
    <3>3. x \in S[x] /\ S[x] = {x} \cup S[c] \cup S[b]
      BY <1>1, <2>2, <2>3, <2>4, ChildIs
    <3> QED BY <3>2, <3>3
  <2>6. ASSUME NEW y \in S[b] PROVE Lt(d, u.key[x], u.key[y]) /\ y \in Live(u)
    <3>1. Parted(u, S, x, Other(d))
      BY <1>1, <2>2, SidesAre DEF Ordered
    <3>2. Lt(Other(d), u.key[y], u.key[x]) /\ y \in Live(u)
      BY <1>1, <2>4, <2>5, <3>1 DEF Parted
    <3>3. u.key[x] \in Int /\ u.key[y] \in Int
      BY <1>1, <2>2, <3>2, LiveAre
    <3> QED BY <3>2, <3>3, LtIs
  <2>7. CASE c = nil
    <3>1. S[c] = {}
      BY <1>1, <2>7, NodesAre, LiveAre DEF Shaped
    <3>2. go[x] = x
      BY <1>5, <2>2, <2>3, <2>7
    <3>3. \A y \in S[x] \ {x} : Lt(d, u.key[x], u.key[y])
      BY <2>5, <2>6, <3>1
    <3> QED BY <2>2, <2>3, <2>5, <2>7, <3>2, <3>3 DEF EndOf
  <2>8. CASE c # nil
    <3>1. c \in Live(u)
      BY <1>1, <2>2, <2>3, <2>8, ChildIs
    <3>2. EndOf(u, S, d, c, go[c])
      BY <2>1, <2>3, <3>1
    <3>3. go[x] = go[c]
      BY <1>5, <2>2, <2>3, <2>8
    <3>4. PICK m : go[c] = m
      OBVIOUS
    <3>5. m \in S[c] /\ u.child[d][m] = nil /\ \A y \in S[c] \ {m} : Lt(d, u.key[m], u.key[y])
      BY <3>2, <3>4 DEF EndOf
    <3>6. Lt(d, u.key[m], u.key[x]) /\ m \in Live(u)
      <4>1. Parted(u, S, x, d)
        BY <1>1, <2>2 DEF Ordered
      <4> QED BY <1>1, <2>3, <2>5, <3>5, <4>1 DEF Parted
    <3>7. ASSUME NEW y \in S[b] PROVE Lt(d, u.key[m], u.key[y])
      <4>1. u.key[x] \in Int /\ u.key[y] \in Int /\ u.key[m] \in Int
        BY <1>1, <2>2, <2>6, <3>6, LiveAre
      <4> QED BY <2>6, <3>6, <4>1, LtIs
    <3>8. \A y \in S[x] \ {m} : Lt(d, u.key[m], u.key[y])
      BY <2>5, <3>5, <3>6, <3>7
    <3>9. EndOf(u, S, d, x, m)
      BY <2>5, <3>5, <3>8 DEF EndOf
    <3> QED BY <2>2, <3>3, <3>4, <3>9
  <2> QED BY <2>7, <2>8
<1> QED BY <1>2, <1>6

\* The node that rbtree_delete cuts out has a free side; it is z itself or the
\* least node right of z.
Chosen(u, S, z, y) ==
  /\ y \in Live(u) /\ \E e \in Sides : u.child[e][y] = nil
  /\ y = z \/ /\ y \in S[u.child["right"][z]]
              /\ \A n \in S[u.child["right"][z]] \ {y} : Lt("left", u.key[y], u.key[n])

\* The node rbtree_delete cuts out has at most one child, and no key lies
\* between its own and that of the node deleted.
LEMMA VictimIs ==
  ASSUME NEW u, NEW S, Sound(u, S), NEW z \in Live(u)
  PROVE  Chosen(u, S, z, Victim(u, z))
<1>1. u \in Trees /\ Shaped(u, S) /\ S \in [Node0 -> SUBSET Live(u)] /\ "left" \in Sides /\ "right" \in Sides
  BY DEF Sound, Shaped, Sides
<1>2. CASE u.child["left"][z] = nil \/ u.child["right"][z] = nil
  BY <1>1, <1>2 DEF Victim, Chosen
<1>3. CASE ~(u.child["left"][z] = nil \/ u.child["right"][z] = nil)
  <2>1. PICK c : u.child["right"][z] = c
    OBVIOUS
  <2>2. c \in Live(u) /\ c \in Node0
    BY <1>1, <1>3, <2>1, KinAre
  <2>3. Victim(u, z) = Extreme(u, "left", c)
    BY <1>3, <2>1, Zenon DEF Victim, Successor
  <2>4. EndOf(u, S, "left", c, Extreme(u, "left", c))
    BY <1>1, <2>2, ExtremeIs
  <2> QED BY <1>1, <2>1, <2>2, <2>3, <2>4 DEF Chosen, EndOf
<1> QED BY <1>2, <1>3

-----------------------------------------------------------------------------
\* rbtree_insert hangs a red node z, with key k, on side d of the leaf y.
Hung(r, u, z, k, y, d) ==
  /\ r \in Trees
  /\ r.key[z] = k /\ \A n \in Node0 \ {z} : r.key[n] = u.key[n]
  /\ r.red[z] = TRUE /\ \A n \in Node0 \ {z} : r.red[n] = u.red[n]
  /\ r.parent[z] = y /\ \A n \in Node0 \ {z} : r.parent[n] = u.parent[n]
  /\ y = nil => r.root = z
  /\ y # nil => r.root = u.root /\ r.child[d][y] = z
  /\ \A n \in Node0, e \in Sides : y = nil \/ n # y \/ e # d => r.child[e][n] = u.child[e][n]

\* What rbtree_insert does before its fix-up, field by field.
LEMMA HungIs ==
  ASSUME NEW u \in Trees, NEW z \in Nodes, NEW k \in Keys, NEW y \in Node0, LeafFor(u, k) = y,
         NEW d, Toward(u, k, y) = d
  PROVE  Hung(Hang(u, z, k), u, z, k, y, d)
<1> DEFINE pa == [u.parent EXCEPT ![z] = y]
           ke == [u.key EXCEPT ![z] = k]
           co == [u.red EXCEPT ![z] = TRUE]
           ch == [u.child EXCEPT ![d] = [u.child[d] EXCEPT ![y] = z]]
           new == [u EXCEPT !.parent[z] = y, !.key[z] = k, !.red[z] = TRUE]
           plain == [u EXCEPT !.parent = pa, !.key = ke, !.red = co]
<1>1. z \in Node0 /\ k \in Keys \cup {NoKey} /\ d \in Sides
  BY NodesAre DEF Toward, Sides
<1>2. u.parent \in [Node0 -> Node0] /\ u.key \in [Node0 -> Keys \cup {NoKey}] /\ u.red \in [Node0 -> BOOLEAN]
      /\ u.child \in [Sides -> [Node0 -> Node0]]
  BY DEF Trees
<1>3. pa \in [Node0 -> Node0] /\ pa[z] = y /\ \A n \in Node0 \ {z} : pa[n] = u.parent[n]
  BY <1>1, <1>2
<1>4. ke \in [Node0 -> Keys \cup {NoKey}] /\ ke[z] = k /\ \A n \in Node0 \ {z} : ke[n] = u.key[n]
  BY <1>1, <1>2
<1>5. co \in [Node0 -> BOOLEAN] /\ co[z] = TRUE /\ \A n \in Node0 \ {z} : co[n] = u.red[n]
  BY <1>1, <1>2
<1>6. ch \in [Sides -> [Node0 -> Node0]] /\ ch[d][y] = z
      /\ \A n \in Node0, e \in Sides : n # y \/ e # d => ch[e][n] = u.child[e][n]
  <2>1. ch \in [Sides -> [Node0 -> Node0]]
    BY <1>1, <1>2
  <2> QED BY <1>1, <1>2, <2>1
<1>7. new = plain
  OBVIOUS
<1> HIDE DEF pa, ke, co, new
<1>8. plain \in Trees /\ plain.root = u.root /\ plain.child = u.child /\ plain.parent = pa /\ plain.key = ke /\ plain.red = co
  BY <1>3, <1>4, <1>5 DEF Trees
<1> HIDE DEF plain
<1>9. Hang(u, z, k) = IF y = nil THEN [new EXCEPT !.root = z]
                      ELSE [new EXCEPT !.child[IF k < u.key[y] THEN "left" ELSE "right"][y] = z]
  BY Zenon DEF Hang, new
<1>10. CASE y = nil
  <2>1. Hang(u, z, k) = [plain EXCEPT !.root = z]
    BY <1>7, <1>9, <1>10
  <2> DEFINE r == [plain EXCEPT !.root = z]
  <2>2. r \in Trees /\ r.root = z /\ r.child = plain.child /\ r.parent = plain.parent /\ r.key = plain.key /\ r.red = plain.red
    BY <1>1, <1>8 DEF Trees
  <2> HIDE DEF r
  <2>3. Hung(r, u, z, k, y, d)
    BY <1>3, <1>4, <1>5, <1>8, <1>10, <2>2 DEF Hung
  <2> QED BY <2>1, <2>3 DEF r
<1>11. CASE y # nil
  <2> DEFINE r == [plain EXCEPT !.child = ch]
  <2>1. Hang(u, z, k) = [plain EXCEPT !.child[d][y] = z]
    BY <1>7, <1>9, <1>11 DEF Toward
  <2>2. [plain EXCEPT !.child[d][y] = z] = r
    BY <1>8
  <2> HIDE DEF ch
  <2>3. r \in Trees /\ r.root = plain.root /\ r.child = ch /\ r.parent = plain.parent /\ r.key = plain.key /\ r.red = plain.red
    BY <1>6, <1>8 DEF Trees
  <2> HIDE DEF r
  <2>4. Hung(r, u, z, k, y, d)
    BY <1>3, <1>4, <1>5, <1>6, <1>8, <1>11, <2>3 DEF Hung
  <2> QED BY <2>1, <2>2, <2>4
<1> QED BY <1>10, <1>11

Grown(S, z, y) == [n \in Node0 |-> IF n = z THEN {z} ELSE IF y \in S[n] THEN S[n] \cup {z} ELSE S[n]]
Hanging(u, S, z, k, y, d, r) ==
  /\ Sound(u, S) /\ z \in Nodes /\ z \notin Live(u) /\ k \in Keys /\ \A x \in Live(u) : u.key[x] # k
  /\ IF u.root = nil THEN y = nil ELSE Leaf(u, S, k, y)
  /\ Toward(u, k, y) = d /\ Hung(r, u, z, k, y, d)

\* The new node is the only new one, under a leaf or alone.
LEMMA HungLive ==
  ASSUME NEW u, NEW S, NEW z, NEW k, NEW y, NEW d, NEW r, Hanging(u, S, z, k, y, d, r)
  PROVE  /\ u \in Trees /\ Shaped(u, S) /\ S \in [Node0 -> SUBSET Live(u)] /\ d \in Sides
         /\ z \in Node0 /\ z # nil /\ z # y /\ y \in Node0
         /\ Live(r) = Live(u) \cup {z} /\ z \notin Live(u)
         /\ y = nil => u.root = nil /\ Live(u) = {}
         /\ y # nil => y \in Live(u) /\ u.child[d][y] = nil
<1>1. u \in Trees /\ Shaped(u, S) /\ S \in [Node0 -> SUBSET Live(u)]
  BY DEF Hanging, Sound, Shaped
<1>2. d \in Sides /\ z \in Nodes /\ z \notin Live(u) /\ Hung(r, u, z, k, y, d) /\ k \in Keys /\ Toward(u, k, y) = d
  BY DEF Hanging, Toward, Sides
<1>3. z \in Node0 /\ z # nil
  BY <1>2, NodesAre
<1>4. ASSUME u.root = nil PROVE y = nil /\ Live(u) = {}
  <2>1. y = nil
    BY <1>4 DEF Hanging
  <2>2. S[nil] = {}
    BY <1>1, NodesAre, LiveAre DEF Shaped
  <2>3. S[u.root] = Live(u)
    BY <1>1 DEF Shaped
  <2>4. Live(u) = {}
    BY <1>4, <2>2, <2>3
  <2> QED BY <2>1, <2>4
<1>5. ASSUME u.root # nil PROVE y \in Live(u) /\ u.child[d][y] = nil /\ y # nil
  <2>1. Leaf(u, S, k, y)
    BY <1>5 DEF Hanging
  <2>2. y \in Live(u) /\ u.child[d][y] = nil
    BY <1>2, <2>1 DEF Leaf
  <2>3. y # nil
    BY <1>1, <2>2, LiveAre
  <2> QED BY <2>2, <2>3
<1>6. IF y = nil THEN u.root = nil /\ Live(u) = {} ELSE y \in Live(u) /\ u.child[d][y] = nil
  BY <1>4, <1>5
<1>7. y \in Node0 /\ z # y
  BY <1>1, <1>2, <1>3, <1>6, LiveAre, NodesAre
<1>8. r.key[z] = k /\ k # NoKey /\ \A n \in Node0 \ {z} : r.key[n] = u.key[n]
  BY <1>2, RbTreeAssumption DEF Hung
<1>9. Live(r) = Live(u) \cup {z}
  BY <1>2, <1>8, NodesAre DEF Live
<1> QED BY <1>1, <1>2, <1>3, <1>6, <1>7, <1>9

\* The subtrees it is now in, and the only child that changed.
LEMMA HungKin ==
  ASSUME NEW u, NEW S, NEW z, NEW k, NEW y, NEW d, NEW r, Hanging(u, S, z, k, y, d, r),
         NEW V, Grown(S, z, y) = V
  PROVE  /\ V[z] = {z} /\ V[nil] = {}
         /\ \A e \in Sides : r.child[e][z] = nil
         /\ \A n \in Node0 \ {z} : V[n] = IF y \in S[n] THEN S[n] \cup {z} ELSE S[n]
         /\ \A n \in Node0 \ {z}, e \in Sides :
              \/ n = y /\ e = d /\ n \in Live(u) /\ r.child[e][n] = z /\ u.child[e][n] = nil
              \/ (n # y \/ e # d \/ y = nil) /\ r.child[e][n] = u.child[e][n] /\ u.child[e][n] \in Node0 \ {z}
<1>1. /\ u \in Trees /\ Shaped(u, S) /\ S \in [Node0 -> SUBSET Live(u)] /\ d \in Sides
      /\ z \in Node0 /\ z # nil /\ z # y /\ y \in Node0
      /\ z \notin Live(u) /\ (y = nil => Live(u) = {}) /\ (y # nil => y \in Live(u) /\ u.child[d][y] = nil)
  BY HungLive
<1>2. Hung(r, u, z, k, y, d)
  BY DEF Hanging
<1>3. V[z] = {z} /\ \A n \in Node0 \ {z} : V[n] = IF y \in S[n] THEN S[n] \cup {z} ELSE S[n]
  BY <1>1 DEF Grown
<1>4. S[nil] = {} /\ nil \in Node0 /\ \A e \in Sides : u.child[e][z] = nil
  BY <1>1, LiveAre, NodesAre DEF Shaped
<1>5. V[nil] = {}
  BY <1>1, <1>3, <1>4
<1>6. ASSUME NEW n \in Node0, NEW e \in Sides PROVE u.child[e][n] \in Node0 \ {z}
  <2>1. u.child[e][n] \in Node0
    BY <1>1, LiveAre
  <2>2. u.child[e][n] = nil \/ u.child[e][n] \in Live(u)
    <3>1. CASE n \in Live(u)
      BY <1>1, <3>1, ChildIs
    <3>2. CASE n \notin Live(u)
      BY <1>1, <3>2 DEF Shaped
    <3> QED BY <3>1, <3>2
  <2> QED BY <1>1, <2>1, <2>2
<1>7. ASSUME NEW n \in Node0, NEW e \in Sides
      PROVE  \/ n = y /\ e = d /\ n \in Live(u) /\ r.child[e][n] = z /\ u.child[e][n] = nil
             \/ (n # y \/ e # d \/ y = nil) /\ r.child[e][n] = u.child[e][n] /\ u.child[e][n] \in Node0 \ {z}
  <2>1. CASE y # nil /\ n = y /\ e = d
    BY <1>1, <1>2, <2>1 DEF Hung
  <2>2. CASE y = nil \/ n # y \/ e # d
    <3>1. r.child[e][n] = u.child[e][n]
      BY <1>2, <2>2 DEF Hung
    <3> QED BY <1>6, <2>2, <3>1
  <2> QED BY <2>1, <2>2
<1>8. ASSUME NEW e \in Sides PROVE r.child[e][z] = nil
  BY <1>1, <1>2, <1>4 DEF Hung
<1> QED BY <1>3, <1>5, <1>7, <1>8

\* The links hold with the new node ...
LEMMA HungShaped ==
  ASSUME NEW u, NEW S, NEW z, NEW k, NEW y, NEW d, NEW r, Hanging(u, S, z, k, y, d, r)
  PROVE  Shaped(r, Grown(S, z, y))
<1>0. PICK V : Grown(S, z, y) = V
  OBVIOUS
<1>1. /\ u \in Trees /\ Shaped(u, S) /\ S \in [Node0 -> SUBSET Live(u)] /\ d \in Sides
      /\ z \in Node0 /\ z # nil /\ z # y /\ y \in Node0
      /\ Live(r) = Live(u) \cup {z} /\ z \notin Live(u)
      /\ (y = nil => u.root = nil /\ Live(u) = {}) /\ (y # nil => y \in Live(u) /\ u.child[d][y] = nil)
  BY HungLive
<1>2. Hung(r, u, z, k, y, d)
  BY DEF Hanging
<1>3. /\ V[z] = {z} /\ V[nil] = {}
      /\ \A e \in Sides : r.child[e][z] = nil
      /\ \A n \in Node0 \ {z} : V[n] = IF y \in S[n] THEN S[n] \cup {z} ELSE S[n]
      /\ \A n \in Node0 \ {z}, e \in Sides :
           \/ n = y /\ e = d /\ n \in Live(u) /\ r.child[e][n] = z /\ u.child[e][n] = nil
           \/ (n # y \/ e # d \/ y = nil) /\ r.child[e][n] = u.child[e][n] /\ u.child[e][n] \in Node0 \ {z}
  BY <1>0, HungKin
<1>4. V \in [Node0 -> SUBSET Live(r)]
  BY <1>0, <1>1 DEF Grown
<1>5. r.parent[z] = y /\ \A n \in Node0 \ {z} : r.parent[n] = u.parent[n]
  BY <1>2 DEF Hung
<1>6. S[nil] = {} /\ nil \in Node0 /\ nil \notin Live(u) /\ Live(u) \subseteq Node0 \ {z}
  BY <1>1, NodesAre, LiveAre DEF Shaped
<1>7. ASSUME NEW w \in Node0 \ Live(r) PROVE V[w] = {} /\ \A e \in Sides : r.child[e][w] = nil
  <2>1. S[w] = {} /\ \A e \in Sides : u.child[e][w] = nil
    BY <1>1, <1>7 DEF Shaped
  <2> QED BY <1>1, <1>3, <1>7, <2>1
<1>8. ASSUME NEW w \in Live(r), NEW e \in Sides PROVE Below(r, V, w, e)
  <2>1. Other(e) \in Sides /\ Other(e) # e /\ (d # e => d = Other(e))
    BY <1>1, SidesAre
  <2>2. CASE w = z
    <3>1. r.child[e][z] = nil /\ r.child[Other(e)][z] = nil
      BY <1>3, <2>1
    <3> QED BY <1>1, <1>3, <2>2, <3>1 DEF Below
  <2>3. CASE w \in Live(u)
    <3>1. PICK a : u.child[e][w] = a
      OBVIOUS
    <3>2. PICK c : u.child[Other(e)][w] = c
      OBVIOUS
    <3>3. /\ S[w] = {w} \cup S[a] \cup S[c] /\ S[a] \cap S[c] = {} /\ w \notin S[a]
          /\ (a # nil => a \in Live(u) /\ u.parent[a] = w)
      BY <1>1, <2>3, <3>1, <3>2 DEF Shaped, Below
    <3>4. w \notin S[c]
      BY <1>1, <2>1, <2>3, <3>2, ChildIs
    <3>5. w \in Node0 \ {z} /\ z \notin S[a] /\ z \notin S[c] /\ z \notin S[w] /\ w # z
      <4>1. a \in Node0 /\ c \in Node0
        BY <1>1, <2>1, <2>3, <3>1, <3>2, LiveAre
      <4> QED BY <1>1, <1>6, <2>3, <4>1
    <3>6. V[w] = IF y \in S[w] THEN S[w] \cup {z} ELSE S[w]
      BY <1>3, <3>5
    <3>7. CASE w = y /\ e = d
      <4>1. r.child[e][w] = z /\ a = nil
        BY <1>1, <1>3, <1>6, <2>3, <3>1, <3>5, <3>7
      <4>2. r.child[Other(e)][w] = c /\ c \in Node0 \ {z}
        BY <1>3, <2>1, <3>2, <3>5, <3>7
      <4>3. V[c] = S[c]
        BY <1>3, <3>4, <3>7, <4>2
      <4> QED BY <1>1, <1>3, <1>5, <1>6, <3>3, <3>4, <3>5, <3>6, <3>7, <4>1, <4>2, <4>3 DEF Below
    <3>8. CASE w = y /\ e # d
      <4>1. r.child[Other(e)][w] = z /\ c = nil
        BY <1>1, <1>3, <1>6, <2>1, <2>3, <3>2, <3>5, <3>8
      <4>2. r.child[e][w] = a /\ a \in Node0 \ {z}
        BY <1>3, <2>1, <3>1, <3>5, <3>8
      <4>3. V[a] = S[a]
        BY <1>3, <3>3, <3>8, <4>2
      <4>4. a # nil => r.parent[a] = w
        BY <1>5, <3>3, <4>2
      <4> QED BY <1>1, <1>3, <1>6, <3>3, <3>5, <3>6, <3>8, <4>1, <4>2, <4>3, <4>4 DEF Below
    <3>9. CASE w # y
      <4>1. r.child[e][w] = a /\ a \in Node0 \ {z} /\ r.child[Other(e)][w] = c /\ c \in Node0 \ {z}
        BY <1>3, <2>1, <3>1, <3>2, <3>5, <3>9
      <4>2. /\ V[a] = IF y \in S[a] THEN S[a] \cup {z} ELSE S[a]
            /\ V[c] = IF y \in S[c] THEN S[c] \cup {z} ELSE S[c]
        BY <1>3, <4>1
      <4>3. V[w] = {w} \cup V[a] \cup V[c] /\ V[a] \cap V[c] = {} /\ w \notin V[a]
        BY <3>3, <3>5, <3>6, <3>9, <4>2
      <4>4. a # nil => r.parent[a] = w
        BY <1>5, <3>3, <4>1
      <4> QED BY <1>1, <3>3, <4>1, <4>3, <4>4 DEF Below
    <3> QED BY <3>7, <3>8, <3>9
  <2> QED BY <1>1, <2>2, <2>3
<1>9. V[r.root] = Live(r) /\ r.root \in Live(r) /\ r.parent[r.root] = nil
  <2>1. CASE y = nil
    BY <1>1, <1>2, <1>3, <1>5, <2>1 DEF Hung
  <2>2. CASE y # nil
    <3>1. r.root = u.root /\ S[u.root] = Live(u)
      BY <1>1, <1>2, <2>2 DEF Hung, Shaped
    <3>2. u.root # nil
      BY <1>1, <1>6, <2>2, <3>1
    <3>3. u.root \in Live(u) /\ u.parent[u.root] = nil
      BY <1>1, <3>2 DEF Shaped
    <3>4. u.root \in Node0 \ {z}
      BY <1>6, <3>3
    <3>5. y \in S[u.root]
      BY <1>1, <2>2, <3>1
    <3>6. V[u.root] = Live(u) \cup {z}
      BY <1>3, <3>1, <3>4, <3>5
    <3> QED BY <1>1, <1>5, <3>1, <3>3, <3>4, <3>6
  <2> QED BY <2>1, <2>2
<1>10. ASSUME NEW w \in Live(r) \ {r.root} PROVE Above(r, w)
  <2>1. y # nil
    BY <1>1, <1>2, <1>10 DEF Hung
  <2>2. r.root = u.root /\ r.child[d][y] = z
    BY <1>2, <2>1 DEF Hung
  <2>3. CASE w = z
    BY <1>1, <1>5, <2>1, <2>2, <2>3 DEF Above
  <2>4. CASE w # z
    <3>1. w \in Live(u) /\ Above(u, w)
      BY <1>1, <1>10, <2>2, <2>4 DEF Shaped
    <3>2. PICK e \in Sides : u.child[e][u.parent[w]] = w /\ u.parent[w] \in Live(u)
      BY <3>1 DEF Above
    <3>3. r.parent[w] = u.parent[w] /\ u.parent[w] \in Node0 \ {z} /\ w # nil
      BY <1>5, <1>6, <3>1, <3>2
    <3>4. r.child[e][u.parent[w]] = w
      BY <1>3, <3>2, <3>3
    <3> QED BY <1>1, <3>2, <3>3, <3>4 DEF Above
  <2> QED BY <2>3, <2>4
<1> QED BY <1>0, <1>4, <1>7, <1>8, <1>9, <1>10 DEF Shaped

\* ... and so does the order of the keys.
LEMMA HungOrdered ==
  ASSUME NEW u, NEW S, NEW z, NEW k, NEW y, NEW d, NEW r, Hanging(u, S, z, k, y, d, r)
  PROVE  Ordered(r, Grown(S, z, y))
<1>0. PICK V : Grown(S, z, y) = V
  OBVIOUS
<1>1. /\ u \in Trees /\ Shaped(u, S) /\ S \in [Node0 -> SUBSET Live(u)] /\ d \in Sides
      /\ z \in Node0 /\ z # nil /\ z # y /\ y \in Node0
      /\ Live(r) = Live(u) \cup {z} /\ z \notin Live(u)
      /\ (y = nil => u.root = nil /\ Live(u) = {}) /\ (y # nil => y \in Live(u) /\ u.child[d][y] = nil)
  BY HungLive
<1>2. Hung(r, u, z, k, y, d) /\ k \in Keys /\ (\A x \in Live(u) : u.key[x] # k) /\ Toward(u, k, y) = d
      /\ Sound(u, S) /\ Ordered(u, S) /\ (u.root # nil => Leaf(u, S, k, y))
  BY DEF Hanging, Sound
<1>3. /\ V[z] = {z} /\ V[nil] = {}
      /\ \A e \in Sides : r.child[e][z] = nil
      /\ \A n \in Node0 \ {z} : V[n] = IF y \in S[n] THEN S[n] \cup {z} ELSE S[n]
      /\ \A n \in Node0 \ {z}, e \in Sides :
           \/ n = y /\ e = d /\ n \in Live(u) /\ r.child[e][n] = z /\ u.child[e][n] = nil
           \/ (n # y \/ e # d \/ y = nil) /\ r.child[e][n] = u.child[e][n] /\ u.child[e][n] \in Node0 \ {z}
  BY <1>0, HungKin
<1>4. r.key[z] = k /\ \A n \in Node0 \ {z} : r.key[n] = u.key[n]
  BY <1>2 DEF Hung
<1>5. Live(u) \subseteq Node0 \ {z}
  BY <1>1, LiveAre
<1> SUFFICES ASSUME NEW w \in Live(r), NEW e \in Sides PROVE Parted(r, V, w, e)
  BY <1>0 DEF Ordered
<1>6. CASE w = z
  BY <1>3, <1>6 DEF Parted
<1>7. CASE w \in Live(u)
  <2>1. w \in Node0 \ {z} /\ r.key[w] = u.key[w] /\ u.key[w] # k
    BY <1>2, <1>4, <1>5, <1>7
  <2>2. CASE w = y /\ e = d
    <3>1. r.child[e][w] = z
      BY <1>1, <1>3, <1>5, <2>1, <2>2, NodesAre
    <3>2. Lt(d, k, u.key[y])
      BY <1>2, <1>7, <2>1, <2>2, TowardIs
    <3> QED BY <1>3, <1>4, <2>1, <2>2, <3>1, <3>2 DEF Parted
  <2>3. CASE w # y \/ e # d
    <3>1. PICK a : u.child[e][w] = a
      OBVIOUS
    <3>2. r.child[e][w] = a /\ a \in Node0 \ {z}
      BY <1>3, <2>1, <2>3, <3>1
    <3>3. Parted(u, S, w, e)
      BY <1>2, <1>7 DEF Ordered
    <3>4. ASSUME NEW n \in S[a] PROVE Lt(e, r.key[n], r.key[w])
      <4>1. n \in Node0 \ {z}
        BY <1>1, <1>5, <3>2
      <4> QED BY <1>4, <2>1, <3>1, <3>3, <4>1 DEF Parted
    <3>5. ASSUME y \in S[a] PROVE Lt(e, r.key[z], r.key[w])
      <4>1. PICK c : Toward(u, k, w) = c
        OBVIOUS
      <4>2. c \in Sides /\ Lt(c, k, u.key[w])
        BY <1>2, <1>7, <2>1, <4>1, TowardIs
      <4>3. S[a] \subseteq S[w] /\ w \notin S[a] /\ S[a] \cap S[u.child[Other(e)][w]] = {}
        BY <1>1, <1>7, <3>1, ChildIs
      <4>4. u.root # nil
        BY <1>1, <1>7, <3>5, NodesAre, LiveAre DEF Shaped
      <4>5. y \in S[u.child[c][w]]
        BY <1>2, <1>7, <3>5, <4>1, <4>3, <4>4 DEF Leaf
      <4>6. c = e
        BY <3>5, <4>2, <4>3, <4>5, SidesAre
      <4> QED BY <1>4, <2>1, <4>2, <4>6
    <3> QED BY <1>3, <3>2, <3>4, <3>5 DEF Parted
  <2> QED BY <2>2, <2>3
<1> QED BY <1>1, <1>6, <1>7

\* The keys of the tree.
KeysOf(u) == {u.key[x] : x \in Live(u)}

\* rbtree_insert up to the fix-up: only the new node may be a red child of a red node.
LEMMA HangIs ==
  ASSUME NEW u, NEW S, NEW h, NEW D, Full(u, S, h, nil, D, nil, nil),
         NEW z, z \in Nodes \ Live(u), NEW k \in Keys, k \notin KeysOf(u)
  PROVE  Inserting(Hang(u, z, k), z, D) /\ KeysOf(Hang(u, z, k)) = KeysOf(u) \cup {k}
<1>1. u \in Trees /\ Sound(u, S) /\ Even(u, h, nil, D) /\ Colours(u, nil, nil) /\ Shaped(u, S)
  BY DEF Full, Sound
<1>2. PICK y : LeafFor(u, k) = y
  OBVIOUS
<1>3. PICK d : Toward(u, k, y) = d
  OBVIOUS
<1>4. PICK r : Hang(u, z, k) = r
  OBVIOUS
<1>5. \A x \in Live(u) : u.key[x] # k
  BY DEF KeysOf
<1>6. IF u.root = nil THEN y = nil ELSE Leaf(u, S, k, y)
  BY <1>1, <1>2, <1>5, LeafForIs
<1>7. y \in Node0
  BY <1>1, <1>6, LiveAre, NodesAre DEF Leaf
<1>8. Hung(r, u, z, k, y, d)
  BY <1>1, <1>2, <1>3, <1>4, <1>7, HungIs
<1>9. Hanging(u, S, z, k, y, d, r)
  BY <1>1, <1>3, <1>5, <1>6, <1>8 DEF Hanging
<1>10. PICK V : Grown(S, z, y) = V
  OBVIOUS
<1>11. Sound(r, V)
  BY <1>8, <1>9, <1>10, HungShaped, HungOrdered DEF Sound, Hung
<1>12. /\ d \in Sides /\ z \in Node0 /\ z # nil /\ z # y
       /\ Live(r) = Live(u) \cup {z} /\ z \notin Live(u)
       /\ (y = nil => u.root = nil /\ Live(u) = {}) /\ (y # nil => y \in Live(u) /\ u.child[d][y] = nil)
  BY <1>9, HungLive
<1>13. /\ \A e \in Sides : r.child[e][z] = nil
       /\ \A n \in Node0 \ {z}, e \in Sides :
            \/ n = y /\ e = d /\ n \in Live(u) /\ r.child[e][n] = z /\ u.child[e][n] = nil
            \/ (n # y \/ e # d \/ y = nil) /\ r.child[e][n] = u.child[e][n] /\ u.child[e][n] \in Node0 \ {z}
  BY <1>9, <1>10, HungKin
<1>14. /\ r.key[z] = k /\ \A n \in Node0 \ {z} : r.key[n] = u.key[n]
       /\ r.red[z] = TRUE /\ \A n \in Node0 \ {z} : r.red[n] = u.red[n]
       /\ (y = nil => r.root = z) /\ (y # nil => r.root = u.root)
  BY <1>8 DEF Hung
<1>15. Live(u) \subseteq Node0 \ {z} /\ nil \in Node0 \ {z}
  BY <1>1, <1>12, LiveAre, NodesAre
<1>16. PICK g : [h EXCEPT ![z] = 0] = g
  OBVIOUS
<1>17. g \in [Node0 -> Nat] /\ g[z] = 0 /\ (\A n \in Node0 \ {z} : g[n] = h[n]) /\ h[nil] = 0
  BY <1>1, <1>12, <1>16 DEF Even
<1>18. ASSUME NEW x \in Live(r), NEW e \in Sides PROVE Level(r, g, x, e, nil, D)
  <2>1. x # nil
    BY <1>12, <1>15, <1>18, LiveAre, <1>1
  <2>2. CASE x = z
    <3>1. Weight(r, x) = 0
      BY <1>14, <2>2 DEF Weight
    <3> QED BY <1>13, <1>15, <1>17, <2>1, <2>2, <3>1 DEF Level
  <2>3. CASE x \in Live(u)
    <3>1. Level(u, h, x, e, nil, D)
      BY <1>1, <2>3 DEF Even
    <3>2. Weight(r, x) = Weight(u, x) /\ g[x] = h[x]
      BY <1>14, <1>15, <1>17, <2>3 DEF Weight
    <3>3. g[r.child[e][x]] = h[u.child[e][x]]
      BY <1>13, <1>15, <1>17, <2>3
    <3> QED BY <2>1, <3>1, <3>2, <3>3 DEF Level
  <2> QED BY <1>12, <2>2, <2>3
<1>19. Even(r, g, nil, D)
  BY <1>15, <1>17, <1>18 DEF Even
<1>20. ASSUME NEW x \in Live(r), NEW e \in Sides PROVE Clash(r, z, nil, x, e)
  <2>0. ~r.red[nil]
    BY <1>1, <1>14, <1>15 DEF Colours
  <2>1. CASE x = z
    BY <1>13, <2>0, <2>1 DEF Clash
  <2>2. CASE x \in Live(u)
    <3>1. Clash(u, nil, nil, x, e)
      BY <1>1, <2>2 DEF Colours
    <3>2. CASE r.child[e][x] = z
      BY <3>2 DEF Clash
    <3>3. CASE r.child[e][x] = u.child[e][x] /\ u.child[e][x] \in Node0 \ {z}
      <4>1. r.red[x] = u.red[x] /\ r.red[u.child[e][x]] = u.red[u.child[e][x]]
        BY <1>14, <1>15, <2>2, <3>3
      <4>2. x # nil
        BY <1>1, <2>2, LiveAre
      <4> QED BY <2>0, <3>1, <3>3, <4>1, <4>2 DEF Clash
    <3> QED BY <1>13, <1>15, <2>2, <3>2, <3>3
  <2> QED BY <1>12, <2>1, <2>2
<1>21. Colours(r, z, nil)
  <2>1. ~r.red[nil]
    BY <1>1, <1>14, <1>15 DEF Colours
  <2>2. r.red[r.root] => r.root = z
    <3>1. CASE y = nil
      BY <1>14, <3>1
    <3>2. CASE y # nil
      <4>1. u.root \in Node0
        BY <1>1, LiveAre
      <4>2. ~u.red[u.root]
        BY <1>1 DEF Colours
      <4> QED BY <1>14, <3>2, <4>1, <4>2
    <3> QED BY <3>1, <3>2
  <2> QED BY <1>20, <2>1, <2>2 DEF Colours
<1>22. Inserting(r, z, D)
  <2>1. Full(r, V, g, nil, D, z, nil) /\ z \in Live(r) /\ r.red[z]
    BY <1>11, <1>12, <1>14, <1>19, <1>21 DEF Full
  <2> QED BY <2>1 DEF Inserting
<1>23. KeysOf(r) = KeysOf(u) \cup {k}
  BY <1>12, <1>14, <1>15 DEF KeysOf
<1> QED BY <1>4, <1>22, <1>23

-----------------------------------------------------------------------------
\* rbtree_delete cuts y out: x, its only child or nil, takes its place on side
\* s of its parent p, and its key moves to z.
Spliced(r, u, z, y, x, p, s) ==
  /\ r \in Trees
  /\ r.key[y] = NoKey /\ (z # y => r.key[z] = u.key[y]) /\ \A n \in Node0 \ {y, z} : r.key[n] = u.key[n]
  /\ r.red[y] = FALSE /\ \A n \in Node0 \ {y} : r.red[n] = u.red[n]
  /\ r.parent[y] = nil /\ r.parent[x] = p /\ \A n \in Node0 \ {x, y} : r.parent[n] = u.parent[n]
  /\ p = nil => r.root = x
  /\ p # nil => r.root = u.root /\ r.child[s][p] = x
  /\ \A e \in Sides : r.child[e][y] = nil
  /\ \A n \in Node0 \ {y}, e \in Sides : p = nil \/ n # p \/ e # s => r.child[e][n] = u.child[e][n]

\* What is left of a node that is freed.
Erased(m, y) ==
  [m EXCEPT !.key[y] = NoKey, !.parent[y] = nil, !.red[y] = FALSE,
            !.child["left"][y] = nil, !.child["right"][y] = nil]
Blanked(r, m, y) ==
  /\ r \in Trees /\ r.root = m.root
  /\ r.key[y] = NoKey /\ \A n \in Node0 \ {y} : r.key[n] = m.key[n]
  /\ r.red[y] = FALSE /\ \A n \in Node0 \ {y} : r.red[n] = m.red[n]
  /\ r.parent[y] = nil /\ \A n \in Node0 \ {y} : r.parent[n] = m.parent[n]
  /\ \A e \in Sides : r.child[e][y] = nil /\ \A n \in Node0 \ {y} : r.child[e][n] = m.child[e][n]

\* What freeing a node does to its fields.
LEMMA ErasedIs ==
  ASSUME NEW m \in Trees, NEW y \in Node0
  PROVE  Blanked(Erased(m, y), m, y)
<1> DEFINE ke == [m.key EXCEPT ![y] = NoKey]
           pa == [m.parent EXCEPT ![y] = nil]
           re == [m.red EXCEPT ![y] = FALSE]
           c1 == [m.child EXCEPT !["left"] = [m.child["left"] EXCEPT ![y] = nil]]
           c2 == [c1 EXCEPT !["right"] = [c1["right"] EXCEPT ![y] = nil]]
           a0 == [m EXCEPT !.key[y] = NoKey, !.parent[y] = nil, !.red[y] = FALSE]
           a == [m EXCEPT !.key = ke, !.parent = pa, !.red = re]
           b == [a EXCEPT !.child = c1]
           r == [b EXCEPT !.child = c2]
<1>1. nil \in Node0 /\ "left" \in Sides /\ "right" \in Sides
  BY NodesAre DEF Sides
<1>2. m.parent \in [Node0 -> Node0] /\ m.key \in [Node0 -> Keys \cup {NoKey}] /\ m.red \in [Node0 -> BOOLEAN]
      /\ m.child \in [Sides -> [Node0 -> Node0]]
  BY DEF Trees
<1>3. ke \in [Node0 -> Keys \cup {NoKey}] /\ ke[y] = NoKey /\ \A n \in Node0 \ {y} : ke[n] = m.key[n]
  BY <1>2
<1>4. pa \in [Node0 -> Node0] /\ pa[y] = nil /\ \A n \in Node0 \ {y} : pa[n] = m.parent[n]
  BY <1>1, <1>2
<1>5. re \in [Node0 -> BOOLEAN] /\ re[y] = FALSE /\ \A n \in Node0 \ {y} : re[n] = m.red[n]
  BY <1>2
<1>6. /\ c1 \in [Sides -> [Node0 -> Node0]] /\ c1["left"][y] = nil /\ c1["right"] = m.child["right"]
      /\ \A n \in Node0 \ {y} : c1["left"][n] = m.child["left"][n]
  BY <1>1, <1>2 DEF Sides
<1>7. a0 = a
  OBVIOUS
<1> HIDE DEF ke, pa, re, a0
<1>8. a \in Trees /\ a.root = m.root /\ a.child = m.child /\ a.parent = pa /\ a.key = ke /\ a.red = re
  BY <1>3, <1>4, <1>5 DEF Trees
<1> HIDE DEF a
<1>9. [a EXCEPT !.child["left"][y] = nil] = b
  BY <1>8
<1> HIDE DEF c1
<1>10. b \in Trees /\ b.root = a.root /\ b.child = c1 /\ b.parent = a.parent /\ b.key = a.key /\ b.red = a.red
  BY <1>6, <1>8 DEF Trees
<1> HIDE DEF b
<1>11. [b EXCEPT !.child["right"][y] = nil] = r
  BY <1>10
<1>12. /\ c2 \in [Sides -> [Node0 -> Node0]] /\ c2["left"] = c1["left"] /\ c2["right"][y] = nil
       /\ \A n \in Node0 \ {y} : c2["right"][n] = c1["right"][n]
  BY <1>1, <1>6 DEF Sides
<1> HIDE DEF c2
<1>13. r \in Trees /\ r.root = b.root /\ r.child = c2 /\ r.parent = b.parent /\ r.key = b.key /\ r.red = b.red
  BY <1>10, <1>12 DEF Trees
<1>14. Erased(m, y) = [[a0 EXCEPT !.child["left"][y] = nil] EXCEPT !.child["right"][y] = nil]
  BY DEF Erased, a0
<1> HIDE DEF r
<1>15. Erased(m, y) = r
  BY <1>7, <1>9, <1>11, <1>14
<1>16. \A e \in Sides : r.child[e][y] = nil /\ \A n \in Node0 \ {y} : r.child[e][n] = m.child[e][n]
  BY <1>6, <1>12, <1>13 DEF Sides
<1>17. Blanked(r, m, y)
  BY <1>3, <1>4, <1>5, <1>8, <1>10, <1>13, <1>16 DEF Blanked
<1> QED BY <1>15, <1>17

\* What rbtree_delete does before its fix-up, field by field.
LEMMA CutIs ==
  ASSUME NEW u \in Trees, NEW z \in Node0, NEW y \in Nodes,
         NEW x, x = IF u.child["left"][y] # nil THEN u.child["left"][y] ELSE u.child["right"][y],
         NEW p, u.parent[y] = p, NEW s, SideOf(u, y) = s, x # y, p # y
  PROVE  Cut(u, z, y).at = x /\ Spliced(Cut(u, z, y).tree, u, z, y, x, p, s)
<1> DEFINE pa == [u.parent EXCEPT ![x] = p]
           u0 == [u EXCEPT !.parent = pa]
           v == Replace(u0, y, x)
           ke == [v.key EXCEPT ![z] = v.key[y]]
           m == [v EXCEPT !.key = ke]
           r == Erased(m, y)
<1>1. /\ y \in Node0 /\ x \in Node0 /\ p \in Node0 /\ s \in Sides /\ "left" \in Sides /\ "right" \in Sides
      /\ u.parent \in [Node0 -> Node0]
  <2>1. y \in Node0 /\ "left" \in Sides /\ "right" \in Sides
    BY NodesAre DEF Sides
  <2>2. x \in Node0 /\ p \in Node0
    BY <2>1, LiveAre
  <2>3. s \in Sides
    BY DEF SideOf, Sides
  <2> QED BY <2>1, <2>2, <2>3 DEF Trees
<1>2. pa \in [Node0 -> Node0] /\ pa[x] = p /\ \A n \in Node0 \ {x} : pa[n] = u.parent[n]
  BY <1>1
<1>3. [u EXCEPT !.parent[x] = u.parent[y]] = u0
  OBVIOUS
<1> HIDE DEF pa
<1>4. u0 \in Trees /\ u0.root = u.root /\ u0.child = u.child /\ u0.parent = pa /\ u0.key = u.key /\ u0.red = u.red
  BY <1>2 DEF Trees
<1> HIDE DEF u0
<1>5. u0.parent[y] = p
  BY <1>1, <1>2, <1>4
<1>6. SideOf(u0, y) = s
  BY <1>4, <1>5 DEF SideOf
<1>7. /\ v \in Trees /\ v.parent = pa /\ v.red = u.red /\ v.key = u.key
      /\ p = nil => v.root = x
      /\ p # nil => v.root = u.root /\ v.child[s][p] = x
      /\ \A e \in Sides, n \in Node0 : p = nil \/ e # s \/ n # p => v.child[e][n] = u.child[e][n]
  <2>1. CASE p = nil
    <3>1. \E t \in Trees : /\ Replace(u0, y, x) = t
                           /\ t.root = x /\ t.child = u0.child /\ t.parent = u0.parent
                           /\ t.red = u0.red /\ t.key = u0.key
      BY <1>1, <1>4, <1>5, <2>1, ReplaceRoot
    <3> QED BY <1>4, <2>1, <3>1
  <2>2. CASE p # nil
    <3>1. \E t \in Trees : /\ Replace(u0, y, x) = t
                           /\ t.root = u0.root /\ t.parent = u0.parent /\ t.red = u0.red /\ t.key = u0.key
                           /\ t.child[s][p] = x
                           /\ \A e \in Sides, w \in Node0 : e # s \/ w # p => t.child[e][w] = u0.child[e][w]
      BY <1>1, <1>4, <1>5, <1>6, <2>2, ReplaceBelow
    <3> QED BY <1>4, <2>2, <3>1
  <2> QED BY <2>1, <2>2
<1> HIDE DEF v
<1>8. ke \in [Node0 -> Keys \cup {NoKey}] /\ ke[z] = v.key[y] /\ \A n \in Node0 \ {z} : ke[n] = v.key[n]
  <2>1. v.key \in [Node0 -> Keys \cup {NoKey}]
    BY <1>7 DEF Trees
  <2> QED BY <1>1, <2>1
<1>9. KeyMoved(v, z, y) = m
  BY DEF KeyMoved
<1> HIDE DEF ke
<1>10. m \in Trees /\ m.root = v.root /\ m.child = v.child /\ m.parent = v.parent /\ m.key = ke /\ m.red = v.red
  BY <1>7, <1>8 DEF Trees
<1> HIDE DEF m
<1>11. Blanked(r, m, y)
  BY <1>1, <1>10, ErasedIs
<1>12. /\ Cut(u, z, y).at = x
       /\ Cut(u, z, y).tree = Erased(KeyMoved(Replace([u EXCEPT !.parent[x] = u.parent[y]], y, x), z, y), y)
  BY DEF Cut, Erased
<1>13. Cut(u, z, y).tree = r
  BY <1>3, <1>9, <1>12 DEF v
<1> HIDE DEF r
<1>14. Spliced(r, u, z, y, x, p, s)
  BY <1>1, <1>2, <1>7, <1>8, <1>10, <1>11 DEF Spliced, Blanked
<1> QED BY <1>12, <1>13, <1>14

\* Around the node that is cut out.
Lone(u, S, y, x, p, s) ==
  /\ Sound(u, S) /\ y \in Live(u) /\ \E e \in Sides : u.child[e][y] = nil
  /\ (IF u.child["left"][y] # nil THEN u.child["left"][y] ELSE u.child["right"][y]) = x
  /\ u.parent[y] = p /\ SideOf(u, y) = s
LoneKin(u, S, y, x, p, s) ==
  /\ y \in Nodes /\ y \in Node0 /\ y # nil /\ x \in Node0 /\ p \in Node0 /\ x # y /\ p # y
  /\ x # nil => x \in Live(u) /\ u.parent[x] = y /\ x # u.root
  /\ S[y] = {y} \cup S[x] /\ y \notin S[x]
  /\ p = nil <=> y = u.root
  /\ p # nil => p \in Live(u) /\ s \in Sides /\ u.child[s][p] = y
  /\ (\A e \in Sides : u.child[e][y] = nil \/ u.child[e][y] = x) /\ \E e \in Sides : u.child[e][y] = x

\* The node cut out, its parent and its only child.
LEMMA LoneIs ==
  ASSUME NEW u, NEW S, NEW y, NEW x, NEW p, NEW s, Lone(u, S, y, x, p, s)
  PROVE  LoneKin(u, S, y, x, p, s)
<1>1. Sound(u, S) /\ u \in Trees /\ Shaped(u, S) /\ y \in Live(u) /\ u.parent[y] = p /\ SideOf(u, y) = s
  BY DEF Lone, Sound
<1>2. y \in Nodes /\ y \in Node0 /\ y # nil /\ p \in Node0
  BY <1>1, LiveAre
<1>3. PICK e \in Sides : u.child[e][y] = x /\ u.child[Other(e)][y] = nil
  <2>1. PICK f \in Sides : u.child[f][y] = nil
    BY DEF Lone
  <2>2. (IF u.child["left"][y] # nil THEN u.child["left"][y] ELSE u.child["right"][y]) = x
    BY DEF Lone
  <2>3. CASE u.child["left"][y] # nil
    <3>1. u.child["left"][y] = x /\ f = "right"
      BY <2>1, <2>2, <2>3 DEF Sides
    <3> QED BY <2>1, <3>1 DEF Sides, Other
  <2>4. CASE u.child["left"][y] = nil
    BY <2>2, <2>4 DEF Sides, Other
  <2> QED BY <2>3, <2>4
<1>4. \A f \in Sides : u.child[f][y] = nil \/ u.child[f][y] = x
  BY <1>3, SidesAre
<1>5. S[nil] = {}
  BY <1>1, NodesAre, LiveAre DEF Shaped
<1>6. x \in Node0 /\ x # y /\ (x # nil => x \in Live(u) /\ u.parent[x] = y /\ x # u.root)
  BY <1>1, <1>3, KinAre
<1>7. S[y] = {y} \cup S[x] \cup S[u.child[Other(e)][y]] /\ y \notin S[x]
  BY <1>1, <1>3, ChildIs
<1>8. S[y] = {y} \cup S[x]
  BY <1>3, <1>5, <1>7
<1>9. p = nil <=> y = u.root
  BY <1>1, RootIs
<1>10. p # nil => p \in Live(u) /\ s \in Sides /\ u.child[s][p] = y /\ p # y
  BY <1>1, <1>9, UpIs
<1> QED BY <1>2, <1>3, <1>4, <1>6, <1>7, <1>8, <1>9, <1>10 DEF LoneKin

Trimmed(S, y) == [n \in Node0 |-> IF n = y THEN {} ELSE S[n] \ {y}]
Cutting(u, S, z, y, x, p, s, r) ==
  /\ Lone(u, S, y, x, p, s) /\ z \in Live(u) /\ Chosen(u, S, z, y) /\ Spliced(r, u, z, y, x, p, s)
CutKin(u, S, y, x, p, s, r, V) ==
  /\ Live(r) = Live(u) \ {y} /\ V \in [Node0 -> SUBSET Live(r)] /\ V[y] = {}
  /\ \A n \in Node0 \ {y} : V[n] = S[n] \ {y}
  /\ \A n \in Node0 \ {y}, e \in Sides :
       /\ V[r.child[e][n]] = S[u.child[e][n]] \ {y}
       /\ \/ u.child[e][n] = y /\ r.child[e][n] = x /\ n = p /\ e = s /\ p # nil
          \/ r.child[e][n] = u.child[e][n] /\ u.child[e][n] \in Node0 \ {y} /\ ~(n = p /\ e = s /\ p # nil)

\* The subtrees it was in, and the only child that changed.
LEMMA CutElsewhere ==
  ASSUME NEW u, NEW S, NEW z, NEW y, NEW x, NEW p, NEW s, NEW r, Cutting(u, S, z, y, x, p, s, r),
         NEW V, Trimmed(S, y) = V
  PROVE  CutKin(u, S, y, x, p, s, r, V)
<1>1. /\ Sound(u, S) /\ u \in Trees /\ Shaped(u, S) /\ S \in [Node0 -> SUBSET Live(u)]
      /\ Spliced(r, u, z, y, x, p, s) /\ y \in Live(u) /\ z \in Live(u) /\ Lone(u, S, y, x, p, s)
      /\ u.parent[y] = p /\ SideOf(u, y) = s
  BY DEF Cutting, Lone, Sound, Shaped
<1>2. LoneKin(u, S, y, x, p, s)
  BY <1>1, LoneIs
<1>3. /\ y \in Nodes /\ y \in Node0 /\ y # nil /\ x \in Node0 /\ p \in Node0 /\ x # y /\ p # y
      /\ S[y] = {y} \cup S[x] /\ y \notin S[x]
      /\ (p # nil => p \in Live(u) /\ s \in Sides /\ u.child[s][p] = y) /\ (p = nil <=> y = u.root)
  BY <1>2 DEF LoneKin
<1>4. Live(r) = Live(u) \ {y}
  <2>1. /\ r.key[y] = NoKey /\ (z # y => r.key[z] = u.key[y]) /\ \A n \in Node0 \ {y, z} : r.key[n] = u.key[n]
    BY <1>1 DEF Spliced
  <2> QED BY <1>1, <2>1, NodesAre DEF Live
<1>5. V[y] = {} /\ \A n \in Node0 \ {y} : V[n] = S[n] \ {y}
  BY <1>3 DEF Trimmed
<1>6. V \in [Node0 -> SUBSET Live(r)]
  BY <1>1, <1>4 DEF Trimmed
<1>7. ASSUME NEW n \in Node0 \ {y}, NEW e \in Sides
      PROVE  /\ V[r.child[e][n]] = S[u.child[e][n]] \ {y}
             /\ \/ u.child[e][n] = y /\ r.child[e][n] = x /\ n = p /\ e = s /\ p # nil
                \/ r.child[e][n] = u.child[e][n] /\ u.child[e][n] \in Node0 \ {y} /\ ~(n = p /\ e = s /\ p # nil)
  <2>1. u.child[e][n] \in Node0
    BY <1>1, LiveAre
  <2>2. CASE p # nil /\ n = p /\ e = s
    <3>1. u.child[e][n] = y /\ r.child[e][n] = x
      BY <1>1, <1>3, <2>2 DEF Spliced
    <3>2. V[x] = S[y] \ {y}
      BY <1>3, <1>5
    <3> QED BY <2>2, <3>1, <3>2
  <2>3. CASE ~(p # nil /\ n = p /\ e = s)
    <3>1. r.child[e][n] = u.child[e][n]
      BY <1>1, <2>3 DEF Spliced
    <3>2. ASSUME u.child[e][n] = y PROVE FALSE
      <4>1. n \in Live(u)
        BY <1>1, <1>3, <3>2 DEF Shaped
      <4>2. u.parent[y] = n
        BY <1>1, <1>3, <3>2, <4>1, ChildIs
      <4>3. n = p /\ n # nil
        BY <1>1, <4>1, <4>2, LiveAre
      <4>4. y # u.root
        BY <1>3, <4>3
      <4>5. e = s
        BY <1>1, <3>2, <4>2, <4>4, SideIs
      <4> QED BY <2>3, <4>3, <4>5
    <3>3. V[u.child[e][n]] = S[u.child[e][n]] \ {y}
      BY <1>5, <2>1, <3>2
    <3> QED BY <2>1, <2>3, <3>1, <3>2, <3>3
  <2> QED BY <2>2, <2>3
<1> QED BY <1>4, <1>5, <1>6, <1>7 DEF CutKin

\* The links hold without the node ...
LEMMA CutShaped ==
  ASSUME NEW u, NEW S, NEW z, NEW y, NEW x, NEW p, NEW s, NEW r, Cutting(u, S, z, y, x, p, s, r)
  PROVE  Shaped(r, Trimmed(S, y))
<1>0. PICK V : Trimmed(S, y) = V
  OBVIOUS
<1>1. /\ Sound(u, S) /\ u \in Trees /\ Shaped(u, S)
      /\ Spliced(r, u, z, y, x, p, s) /\ y \in Live(u) /\ Lone(u, S, y, x, p, s) /\ u.parent[y] = p
  BY DEF Cutting, Lone, Sound
<1>2. LoneKin(u, S, y, x, p, s)
  BY <1>1, LoneIs
<1>3. /\ y \in Node0 /\ y # nil /\ x \in Node0 /\ p \in Node0 /\ x # y /\ p # y
      /\ (x # nil => x \in Live(u) /\ u.parent[x] = y /\ x # u.root)
      /\ S[y] = {y} \cup S[x] /\ y \notin S[x]
      /\ (p # nil => p \in Live(u) /\ s \in Sides /\ u.child[s][p] = y) /\ (p = nil <=> y = u.root)
      /\ \A e \in Sides : u.child[e][y] = nil \/ u.child[e][y] = x
  BY <1>2 DEF LoneKin
<1>4. /\ Live(r) = Live(u) \ {y} /\ V \in [Node0 -> SUBSET Live(r)] /\ V[y] = {}
      /\ \A n \in Node0 \ {y} : V[n] = S[n] \ {y}
      /\ \A n \in Node0 \ {y}, e \in Sides :
           /\ V[r.child[e][n]] = S[u.child[e][n]] \ {y}
           /\ \/ u.child[e][n] = y /\ r.child[e][n] = x /\ n = p /\ e = s /\ p # nil
              \/ r.child[e][n] = u.child[e][n] /\ u.child[e][n] \in Node0 \ {y} /\ ~(n = p /\ e = s /\ p # nil)
  <2>1. CutKin(u, S, y, x, p, s, r, V)
    BY <1>0, CutElsewhere
  <2> QED BY <2>1 DEF CutKin
<1>5. /\ r.parent[y] = nil /\ r.parent[x] = p /\ (\A n \in Node0 \ {x, y} : r.parent[n] = u.parent[n])
      /\ (p = nil => r.root = x) /\ (p # nil => r.root = u.root /\ r.child[s][p] = x)
      /\ \A e \in Sides : r.child[e][y] = nil
  BY <1>1 DEF Spliced
<1>6. Live(u) \subseteq Node0 /\ nil \notin Live(u)
  BY <1>1, LiveAre
<1>7. ASSUME NEW w \in Node0 \ Live(r) PROVE V[w] = {} /\ \A e \in Sides : r.child[e][w] = nil
  <2>1. CASE w = y
    BY <1>4, <1>5, <2>1
  <2>2. CASE w # y
    <3>1. S[w] = {} /\ \A e \in Sides : u.child[e][w] = nil
      BY <1>1, <1>4, <1>7, <2>2 DEF Shaped
    <3> QED BY <1>3, <1>4, <2>2, <3>1
  <2> QED BY <2>1, <2>2
<1>8. ASSUME NEW w \in Live(r), NEW e \in Sides PROVE Below(r, V, w, e)
  <2>1. w \in Live(u) /\ w \in Node0 \ {y} /\ Other(e) \in Sides
    BY <1>4, <1>6, SidesAre
  <2>2. PICK a : u.child[e][w] = a
    OBVIOUS
  <2>3. PICK c : u.child[Other(e)][w] = c
    OBVIOUS
  <2>4. PICK a1 : r.child[e][w] = a1
    OBVIOUS
  <2>5. PICK c1 : r.child[Other(e)][w] = c1
    OBVIOUS
  <2>6. /\ S[w] = {w} \cup S[a] \cup S[c] /\ S[a] \cap S[c] = {} /\ w \notin S[a]
        /\ (a # nil => a \in Live(u) /\ u.parent[a] = w)
    BY <1>1, <2>1, <2>2, <2>3 DEF Shaped, Below
  <2>7. V[w] = S[w] \ {y} /\ V[a1] = S[a] \ {y} /\ V[c1] = S[c] \ {y}
    BY <1>4, <2>1, <2>2, <2>3, <2>4, <2>5
  <2>8. V[w] = {w} \cup V[a1] \cup V[c1] /\ V[a1] \cap V[c1] = {} /\ w \notin V[a1]
    BY <2>1, <2>6, <2>7
  <2>9. a1 # nil => a1 \in Live(r) /\ r.parent[a1] = w
    <3>1. CASE a = y /\ a1 = x /\ w = p
      BY <1>3, <1>4, <1>5, <3>1
    <3>2. CASE a1 = a /\ a # y
      <4>1. a # nil => a # x
        BY <1>3, <2>1, <2>6
      <4> QED BY <1>3, <1>4, <1>5, <1>6, <2>6, <3>2, <4>1
    <3> QED BY <1>4, <2>1, <2>2, <2>4, <3>1, <3>2
  <2> QED BY <2>4, <2>5, <2>8, <2>9 DEF Below
<1>9. V[r.root] = Live(r) /\ (r.root # nil => r.root \in Live(r) /\ r.parent[r.root] = nil)
  <2>0. S[u.root] = Live(u)
    BY <1>1 DEF Shaped
  <2>1. CASE p = nil
    <3>1. V[x] = Live(r)
      BY <1>3, <1>4, <2>0, <2>1
    <3> QED BY <1>3, <1>4, <1>5, <2>1, <3>1
  <2>2. CASE p # nil
    <3>1. u.root # y /\ u.root \in Node0
      BY <1>1, <1>3, <2>2, LiveAre
    <3>2. u.root # nil
      <4>1. S[nil] = {}
        BY <1>1, <1>6, NodesAre DEF Shaped
      <4> QED BY <1>1, <2>0, <4>1
    <3>3. u.root \in Live(u) /\ u.parent[u.root] = nil
      BY <1>1, <3>2 DEF Shaped
    <3>4. x # u.root
      BY <1>3, <3>2
    <3> QED BY <1>4, <1>5, <2>0, <2>2, <3>1, <3>3, <3>4
  <2> QED BY <2>1, <2>2
<1>10. ASSUME NEW w \in Live(r) \ {r.root} PROVE Above(r, w)
  <2>1. w \in Live(u) /\ w \in Node0 \ {y} /\ w # nil
    BY <1>4, <1>6
  <2>2. CASE w = x
    <3>1. p # nil
      BY <1>5, <1>10, <2>2
    <3> QED BY <1>3, <1>4, <1>5, <2>2, <3>1 DEF Above
  <2>3. CASE w # x
    <3>1. w # u.root
      BY <1>3, <1>5, <1>10, <2>1
    <3>2. Above(u, w)
      BY <1>1, <2>1, <3>1 DEF Shaped
    <3>3. PICK e \in Sides : u.child[e][u.parent[w]] = w /\ u.parent[w] \in Live(u)
      BY <3>2 DEF Above
    <3>4. u.parent[w] # y
      BY <1>3, <2>1, <2>3, <3>3
    <3>5. u.parent[w] \in Node0 \ {y} /\ u.parent[w] \in Live(r) /\ r.parent[w] = u.parent[w]
      BY <1>4, <1>5, <1>6, <2>1, <2>3, <3>3, <3>4
    <3>6. r.child[e][u.parent[w]] = w
      BY <1>4, <2>1, <3>3, <3>5
    <3> QED BY <3>3, <3>5, <3>6 DEF Above
  <2> QED BY <2>2, <2>3
<1> QED BY <1>0, <1>4, <1>7, <1>8, <1>9, <1>10 DEF Shaped

\* ... and so does the order, its key being moved to the node deleted.
LEMMA CutOrdered ==
  ASSUME NEW u, NEW S, NEW z, NEW y, NEW x, NEW p, NEW s, NEW r, Cutting(u, S, z, y, x, p, s, r)
  PROVE  Ordered(r, Trimmed(S, y))
<1>0. PICK V : Trimmed(S, y) = V
  OBVIOUS
<1>1. /\ Sound(u, S) /\ u \in Trees /\ Shaped(u, S) /\ S \in [Node0 -> SUBSET Live(u)] /\ Ordered(u, S)
      /\ Spliced(r, u, z, y, x, p, s) /\ y \in Live(u) /\ z \in Live(u) /\ Chosen(u, S, z, y)
  BY DEF Cutting, Lone, Sound, Shaped
<1>2. /\ Live(r) = Live(u) \ {y}
      /\ \A n \in Node0 \ {y}, e \in Sides : V[r.child[e][n]] = S[u.child[e][n]] \ {y}
  <2>1. CutKin(u, S, y, x, p, s, r, V)
    BY <1>0, CutElsewhere
  <2> QED BY <2>1 DEF CutKin
<1>3. (z # y => r.key[z] = u.key[y]) /\ \A n \in Node0 \ {y, z} : r.key[n] = u.key[n]
  BY <1>1 DEF Spliced
<1>4. Live(u) \subseteq Node0 /\ nil \notin Live(u) /\ "left" \in Sides /\ "right" \in Sides
      /\ Other("left") = "right" /\ Other("right") = "left" /\ \A n \in Live(u) : u.key[n] \in Int
  BY <1>1, LiveAre DEF Sides, Other
<1> SUFFICES ASSUME NEW w \in Live(u), w # y, NEW e \in Sides, NEW n \in S[u.child[e][w]], n # y
             PROVE  Lt(e, r.key[n], r.key[w])
  BY <1>0, <1>2, <1>4 DEF Ordered, Parted
<1>5. u.child[e][w] \in Node0 /\ n \in Live(u) /\ Lt(e, u.key[n], u.key[w])
  <2>1. u.child[e][w] \in Node0
    BY <1>1, <1>4, LiveAre
  <2>2. Parted(u, S, w, e)
    BY <1>1 DEF Ordered
  <2> QED BY <1>1, <2>1, <2>2 DEF Parted
<1>6. CASE n # z /\ w # z
  BY <1>3, <1>4, <1>5, <1>6
<1>7. CASE z = y
  BY <1>3, <1>4, <1>5, <1>7
<1>8. ASSUME z # y
      PROVE  /\ y \in S[u.child["right"][z]] /\ Lt("right", u.key[y], u.key[z])
             /\ \A m \in S[u.child["right"][z]] \ {y} : Lt("right", u.key[m], u.key[y]) /\ m \in Live(u)
  <2>1. /\ y \in S[u.child["right"][z]]
        /\ \A m \in S[u.child["right"][z]] \ {y} : Lt("left", u.key[y], u.key[m])
    BY <1>1, <1>8 DEF Chosen
  <2>2. Parted(u, S, z, "right")
    BY <1>1, <1>4 DEF Ordered
  <2>3. u.child["right"][z] \in Node0
    BY <1>1, <1>4, LiveAre
  <2>4. ASSUME NEW m \in S[u.child["right"][z]] \ {y} PROVE Lt("right", u.key[m], u.key[y]) /\ m \in Live(u)
    <3>1. m \in Live(u) /\ Lt("left", u.key[y], u.key[m])
      BY <1>1, <2>1, <2>3
    <3> QED BY <3>1 DEF Lt
  <2> QED BY <2>1, <2>2, <2>4 DEF Parted
<1>9. CASE w = z /\ z # y
  <2>1. n # z
    BY <1>1, <1>9, ChildIs
  <2>2. r.key[n] = u.key[n] /\ r.key[w] = u.key[y]
    BY <1>3, <1>4, <1>5, <1>9, <2>1
  <2>3. CASE e = "right"
    <3>1. Lt("right", u.key[n], u.key[y])
      BY <1>8, <1>9, <2>3
    <3> QED BY <2>2, <2>3, <3>1
  <2>4. CASE e = "left"
    <3>1. Lt("left", u.key[n], u.key[z]) /\ Lt("left", u.key[z], u.key[y])
      BY <1>5, <1>8, <1>9, <2>4 DEF Lt
    <3>2. Lt("left", u.key[n], u.key[y])
      BY <1>1, <1>4, <1>5, <3>1, LtIs
    <3> QED BY <2>2, <2>4, <3>2
  <2> QED BY <2>3, <2>4 DEF Sides
<1>10. CASE n = z /\ w # z /\ z # y
  <2>1. u.child[e][w] \in Live(u)
    BY <1>1, <1>5 DEF Shaped
  <2>2. S[n] \subseteq S[u.child[e][w]]
    BY <1>1, <2>1, Nested
  <2>3. S[u.child["right"][z]] \subseteq S[z]
    BY <1>1, <1>4, ChildIs
  <2>4. y \in S[u.child[e][w]]
    BY <1>8, <1>10, <2>2, <2>3
  <2>5. Parted(u, S, w, e)
    BY <1>1 DEF Ordered
  <2>6. Lt(e, u.key[y], u.key[w])
    BY <2>4, <2>5 DEF Parted
  <2>7. r.key[n] = u.key[y] /\ r.key[w] = u.key[w]
    BY <1>3, <1>4, <1>10
  <2> QED BY <2>6, <2>7
<1> QED BY <1>6, <1>7, <1>9, <1>10

\* No key is there twice.
LEMMA Distinct ==
  ASSUME NEW u, NEW S, Sound(u, S), NEW a \in Live(u), NEW b \in Live(u), a # b
  PROVE  u.key[a] # u.key[b]
<1> DEFINE Bad == {n \in Live(u) : \E c \in S[n], d \in S[n] : c # d /\ u.key[c] = u.key[d]}
<1>1. u \in Trees /\ Shaped(u, S) /\ S \in [Node0 -> SUBSET Live(u)] /\ Ordered(u, S)
  BY DEF Sound, Shaped
<1>2. ASSUME Bad # {} PROVE FALSE
  <2>1. PICK n \in Bad : \A d \in Sides : u.child[d][n] \notin Bad
    BY <1>2, Lowest
  <2>2. n \in Live(u)
    BY <2>1
  <2>3. PICK c \in S[n], d \in S[n] : c # d /\ u.key[c] = u.key[d]
    BY <2>1
  <2>4. ASSUME NEW e \in Sides, c \in S[u.child[e][n]] PROVE d \notin S[u.child[e][n]]
    <3>1. u.child[e][n] \in Node0
      BY <1>1, <2>2, LiveAre
    <3>2. u.child[e][n] \in Live(u)
      BY <1>1, <2>4, <3>1 DEF Shaped
    <3> QED BY <2>1, <2>3, <2>4, <3>2
  <2> HIDE DEF Bad
  <2>5. PICK l : u.child["left"][n] = l
    OBVIOUS
  <2>6. PICK g : u.child["right"][n] = g
    OBVIOUS
  <2>7. "left" \in Sides /\ "right" \in Sides /\ Other("left") = "right"
    BY DEF Sides, Other
  <2>8. S[n] = {n} \cup S[l] \cup S[g]
    BY <1>1, <2>2, <2>5, <2>6, <2>7, ChildIs
  <2>9. Parted(u, S, n, "left") /\ Parted(u, S, n, "right")
    BY <1>1, <2>2, <2>7 DEF Ordered
  <2>10. /\ \A m \in S[l] : u.key[m] < u.key[n]
         /\ \A m \in S[g] : u.key[n] < u.key[m]
    BY <2>5, <2>6, <2>9 DEF Parted, Lt
  <2>11. n \in Node0
    BY <1>1, <2>2, LiveAre
  <2>12. c \in Live(u) /\ d \in Live(u)
    BY <1>1, <2>11
  <2>13. u.key[n] \in Int /\ u.key[c] \in Int /\ u.key[d] \in Int
    BY <1>1, <2>2, <2>12, LiveAre
  <2>14. ~(c \in S[l] /\ d \in S[l]) /\ ~(c \in S[g] /\ d \in S[g])
    BY <2>4, <2>5, <2>6, <2>7
  <2> QED BY <2>3, <2>8, <2>10, <2>13, <2>14
<1>3. S[u.root] = Live(u) /\ (u.root # nil => u.root \in Live(u)) /\ S[nil] = {}
  BY <1>1, NodesAre, LiveAre DEF Shaped
<1> QED BY <1>2, <1>3

\* Between two calls the tree is whole.
Whole(u) == \E S, h, D : Full(u, S, h, nil, D, nil, nil)

\* rbtree_delete up to the fix-up: a red node is not missed; without a black
\* one, there is one black node too few on the way to the node at its place.
LEMMA CutSound ==
  ASSUME NEW u, NEW S, NEW z, NEW y, NEW x, NEW p, NEW s, NEW r, Cutting(u, S, z, y, x, p, s, r)
  PROVE  Sound(r, Trimmed(S, y)) /\ KeysOf(r) = KeysOf(u) \ {u.key[z]}
<1>1. /\ Sound(u, S) /\ u \in Trees /\ Shaped(u, S) /\ S \in [Node0 -> SUBSET Live(u)]
      /\ Spliced(r, u, z, y, x, p, s) /\ y \in Live(u) /\ z \in Live(u)
  BY DEF Cutting, Lone, Sound, Shaped
<1>2. Sound(r, Trimmed(S, y))
  BY <1>1, CutShaped, CutOrdered DEF Sound, Spliced
<1>3. Live(r) = Live(u) \ {y}
  <2>1. CutKin(u, S, y, x, p, s, r, Trimmed(S, y))
    BY CutElsewhere
  <2> QED BY <2>1 DEF CutKin
<1>4. (z # y => r.key[z] = u.key[y]) /\ \A n \in Node0 \ {y, z} : r.key[n] = u.key[n]
  BY <1>1 DEF Spliced
<1>5. \A a \in Live(u), b \in Live(u) : a # b => u.key[a] # u.key[b]
  BY <1>1, Distinct
<1>6. Live(u) \subseteq Node0
  BY <1>1, LiveAre
<1>7. KeysOf(r) \subseteq KeysOf(u) \ {u.key[z]}
  <2> SUFFICES ASSUME NEW n \in Live(r) PROVE r.key[n] \in KeysOf(u) \ {u.key[z]}
    BY DEF KeysOf
  <2>1. CASE n = z
    BY <1>1, <1>3, <1>4, <1>5, <2>1 DEF KeysOf
  <2>2. CASE n # z
    BY <1>1, <1>3, <1>4, <1>5, <1>6, <2>2 DEF KeysOf
  <2> QED BY <2>1, <2>2
<1>8. KeysOf(u) \ {u.key[z]} \subseteq KeysOf(r)
  <2> SUFFICES ASSUME NEW n \in Live(u), u.key[n] # u.key[z] PROVE u.key[n] \in KeysOf(r)
    BY DEF KeysOf
  <2>1. CASE n = y
    <3>1. z # y /\ z \in Live(r) /\ r.key[z] = u.key[n]
      BY <1>1, <1>3, <1>4, <2>1
    <3> QED BY <3>1 DEF KeysOf
  <2>2. CASE n # y
    <3>1. n \in Live(r) /\ r.key[n] = u.key[n]
      BY <1>1, <1>3, <1>4, <1>6, <2>2
    <3> QED BY <3>1 DEF KeysOf
  <2> QED BY <2>1, <2>2
<1> QED BY <1>2, <1>7, <1>8

\* A red node may go; without a black one the subtree in its place is short of
\* one.
LEMMA CutFull ==
  ASSUME NEW u, NEW S, NEW h, NEW D, Full(u, S, h, nil, D, nil, nil), NEW z, NEW y, NEW x, NEW p, NEW s,
         NEW r, Cutting(u, S, z, y, x, p, s, r)
  PROVE  IF u.red[y] THEN Whole(r) ELSE Deleting(r, x)
<1>0. PICK V : Trimmed(S, y) = V
  OBVIOUS
<1>1. /\ Sound(u, S) /\ u \in Trees /\ Shaped(u, S) /\ Even(u, h, nil, D) /\ Colours(u, nil, nil)
      /\ Spliced(r, u, z, y, x, p, s) /\ y \in Live(u) /\ Lone(u, S, y, x, p, s) /\ u.parent[y] = p
  BY DEF Cutting, Lone, Sound, Full
<1>2. LoneKin(u, S, y, x, p, s)
  BY <1>1, LoneIs
<1>3. /\ y \in Node0 /\ y # nil /\ x \in Node0 /\ x # y /\ p # y
      /\ (p # nil => p \in Live(u) /\ s \in Sides /\ u.child[s][p] = y) /\ (p = nil <=> y = u.root)
      /\ \E e \in Sides : u.child[e][y] = x
  BY <1>2 DEF LoneKin
<1>4. /\ Live(r) = Live(u) \ {y}
      /\ \A n \in Node0 \ {y}, e \in Sides :
           \/ u.child[e][n] = y /\ r.child[e][n] = x /\ n = p /\ e = s /\ p # nil
           \/ r.child[e][n] = u.child[e][n] /\ u.child[e][n] \in Node0 \ {y} /\ ~(n = p /\ e = s /\ p # nil)
  <2>1. CutKin(u, S, y, x, p, s, r, V)
    BY <1>0, CutElsewhere
  <2> QED BY <2>1 DEF CutKin
<1>5. /\ r.red[y] = FALSE /\ (\A n \in Node0 \ {y} : r.red[n] = u.red[n]) /\ r.parent[x] = p
      /\ (p = nil => r.root = x) /\ (p # nil => r.root = u.root /\ r.child[s][p] = x)
  BY <1>1 DEF Spliced
<1>6. Live(u) \subseteq Node0 /\ nil \notin Live(u) /\ nil \in Node0 /\ u.root \in Node0
  BY <1>1, LiveAre, NodesAre
<1>7. Sound(r, V)
  BY <1>0, CutSound
<1>8. h \in [Node0 -> Nat] /\ h[nil] = 0 /\ h[x] + Weight(u, y) = h[y]
  <2>1. PICK e \in Sides : u.child[e][y] = x
    BY <1>3
  <2>2. Level(u, h, y, e, nil, D)
    BY <1>1 DEF Even
  <2> QED BY <1>1, <1>3, <2>1, <2>2 DEF Level, Even
<1>9. ~u.red[nil] /\ ~u.red[u.root] /\ \A w \in Live(u), e \in Sides : ~(u.red[w] /\ u.red[u.child[e][w]])
  <2>1. ASSUME NEW w \in Live(u), NEW e \in Sides PROVE ~(u.red[w] /\ u.red[u.child[e][w]])
    <3>1. Clash(u, nil, nil, w, e)
      BY <1>1 DEF Colours
    <3> QED BY <1>1, <1>6, <3>1 DEF Clash, Colours
  <2> QED BY <1>1, <2>1 DEF Colours
<1>10. \A w \in Live(r) : w \in Live(u) /\ w \in Node0 \ {y} /\ w # nil
  BY <1>4, <1>6
<1>11. CASE u.red[y]
  <2>1. p # nil /\ h[x] = h[y]
    BY <1>3, <1>8, <1>9, <1>11 DEF Weight
  <2>2. ASSUME NEW w \in Live(r), NEW e \in Sides PROVE Level(r, h, w, e, nil, D)
    <3>1. Level(u, h, w, e, nil, D)
      BY <1>1, <1>10 DEF Even
    <3>2. Weight(r, w) = Weight(u, w) /\ w # nil
      BY <1>5, <1>10 DEF Weight
    <3>3. h[r.child[e][w]] = h[u.child[e][w]]
      BY <1>4, <1>10, <2>1
    <3> QED BY <3>1, <3>2, <3>3 DEF Level
  <2>3. Even(r, h, nil, D)
    BY <1>8, <2>2 DEF Even
  <2>4. ~u.red[x]
    BY <1>1, <1>3, <1>9, <1>11
  <2>5. ASSUME NEW w \in Live(r), NEW e \in Sides PROVE Clash(r, nil, nil, w, e)
    <3>1. r.red[w] = u.red[w]
      BY <1>5, <1>10
    <3>2. r.red[r.child[e][w]] => u.red[u.child[e][w]]
      BY <1>3, <1>4, <1>5, <1>10, <2>4
    <3> QED BY <1>9, <1>10, <3>1, <3>2 DEF Clash
  <2>6. Colours(r, nil, nil)
    <3>1. ~r.red[nil] /\ ~r.red[r.root]
      BY <1>3, <1>5, <1>6, <1>9, <2>1
    <3> QED BY <2>5, <3>1 DEF Colours
  <2>7. Full(r, V, h, nil, D, nil, nil)
    BY <1>7, <2>3, <2>6 DEF Full
  <2> QED BY <1>11, <2>7 DEF Whole
<1>12. CASE ~u.red[y]
  <2>1. h[x] + 1 = h[y]
    BY <1>8, <1>12 DEF Weight
  <2>2. ASSUME NEW w \in Live(r), NEW e \in Sides PROVE Level(r, h, w, e, p, s)
    <3>1. Level(u, h, w, e, nil, D)
      BY <1>1, <1>10 DEF Even
    <3>2. Weight(r, w) = Weight(u, w) /\ w # nil
      BY <1>5, <1>10 DEF Weight
    <3>3. CASE u.child[e][w] = y /\ r.child[e][w] = x /\ w = p /\ e = s /\ p # nil
      BY <2>1, <3>1, <3>2, <3>3 DEF Level
    <3>4. CASE r.child[e][w] = u.child[e][w] /\ u.child[e][w] \in Node0 \ {y} /\ ~(w = p /\ e = s /\ p # nil)
      BY <3>1, <3>2, <3>4 DEF Level
    <3> QED BY <1>4, <1>10, <3>3, <3>4
  <2>3. Even(r, h, p, s)
    BY <1>8, <2>2 DEF Even
  <2>4. ASSUME NEW w \in Live(r), NEW e \in Sides PROVE Clash(r, x, x, w, e)
    <3>1. r.red[w] = u.red[w]
      BY <1>5, <1>10
    <3>2. CASE r.child[e][w] = x
      BY <3>2 DEF Clash
    <3>3. CASE r.child[e][w] = u.child[e][w] /\ u.child[e][w] \in Node0 \ {y}
      <4>1. r.red[u.child[e][w]] = u.red[u.child[e][w]]
        BY <1>5, <3>3
      <4> QED BY <1>9, <1>10, <3>1, <3>3, <4>1 DEF Clash
    <3> QED BY <1>4, <1>10, <3>2, <3>3
  <2>5. Colours(r, x, x)
    <3>1. ~r.red[nil] /\ (r.red[r.root] => r.root = x)
      BY <1>3, <1>5, <1>6, <1>9
    <3> QED BY <2>4, <3>1 DEF Colours
  <2>6. Full(r, V, h, p, s, x, x)
    BY <1>7, <2>3, <2>5 DEF Full
  <2>7. CASE p = nil
    BY <1>5, <1>12, <2>6, <2>7 DEF Deleting
  <2>8. CASE p # nil
    <3>1. p \in Live(r) /\ s \in Sides /\ r.child[s][p] = x /\ r.parent[x] = p
      BY <1>3, <1>4, <1>5, <2>8
    <3> QED BY <1>12, <2>6, <3>1 DEF Deleting
  <2> QED BY <2>7, <2>8
<1> QED BY <1>11, <1>12

\* rbtree_delete up to its fix-up removes one key and leaves a red-black tree or
\* one the fix-up can repair.
LEMMA DeleteIs ==
  ASSUME NEW u, Whole(u), NEW z, z \in Live(u), NEW y, Victim(u, z) = y
  PROVE  /\ KeysOf(Cut(u, z, y).tree) = KeysOf(u) \ {u.key[z]}
         /\ IF u.red[y] THEN Whole(Cut(u, z, y).tree) ELSE Deleting(Cut(u, z, y).tree, Cut(u, z, y).at)
<1>1. PICK S, h, D : Full(u, S, h, nil, D, nil, nil)
  BY DEF Whole
<1>2. Sound(u, S) /\ u \in Trees
  BY <1>1 DEF Full, Sound
<1>3. Chosen(u, S, z, y)
  BY <1>2, VictimIs
<1>4. PICK x : (IF u.child["left"][y] # nil THEN u.child["left"][y] ELSE u.child["right"][y]) = x
  OBVIOUS
<1>5. PICK p : u.parent[y] = p
  OBVIOUS
<1>6. PICK s : SideOf(u, y) = s
  OBVIOUS
<1>7. Lone(u, S, y, x, p, s)
  BY <1>2, <1>3, <1>4, <1>5, <1>6 DEF Lone, Chosen
<1>8. y \in Nodes /\ x # y /\ p # y /\ z \in Node0
  <2>1. LoneKin(u, S, y, x, p, s)
    BY <1>7, LoneIs
  <2>2. z \in Node0
    BY <1>2, LiveAre
  <2> QED BY <2>1, <2>2 DEF LoneKin
<1>9. Cut(u, z, y).at = x /\ Spliced(Cut(u, z, y).tree, u, z, y, x, p, s)
  BY <1>2, <1>4, <1>5, <1>6, <1>8, CutIs
<1>10. PICK r : Cut(u, z, y).tree = r
  OBVIOUS
<1>11. Cutting(u, S, z, y, x, p, s, r)
  BY <1>3, <1>7, <1>9, <1>10 DEF Cutting
<1>12. KeysOf(r) = KeysOf(u) \ {u.key[z]}
  BY <1>11, CutSound
<1>13. IF u.red[y] THEN Whole(r) ELSE Deleting(r, x)
  BY <1>1, <1>11, CutFull
<1> QED BY <1>9, <1>10, <1>12, <1>13

\* The end of a fix-up: a red c turns black, which makes up for the black node
\* that was missing below it, or raises the whole tree.
Black(u, c) == [u EXCEPT !.red[c] = FALSE]

\* Painting one node black.
LEMMA BlackIs ==
  ASSUME NEW u \in Trees, NEW c \in Node0
  PROVE  /\ Painted(Black(u, c), u) /\ Black(u, c).red[c] = FALSE
         /\ \A n \in Node0 \ {c} : Black(u, c).red[n] = u.red[n]
BY PaintOne DEF Black

\* The last line of both fix-ups, which paints a node black, leaves a red-black
\* tree.
LEMMA BlackEnds ==
  ASSUME NEW u, NEW S, NEW h, NEW P, NEW D, NEW c, Full(u, S, h, P, D, c, c), c \in Node0,
         \/ P = nil /\ c = u.root
         \/ u.red[c] /\ P \in Live(u) /\ D \in Sides /\ u.child[D][P] = c
  PROVE  Whole(Black(u, c)) /\ KeysOf(Black(u, c)) = KeysOf(u)
<1>1. Sound(u, S) /\ u \in Trees /\ Even(u, h, P, D) /\ Colours(u, c, c) /\ Shaped(u, S)
  BY DEF Full, Sound
<1>2. PICK r : Black(u, c) = r
  OBVIOUS
<1>3. Painted(r, u) /\ r.red[c] = FALSE /\ \A n \in Node0 \ {c} : r.red[n] = u.red[n]
  BY <1>1, <1>2, BlackIs
<1>4. r.root = u.root /\ r.child = u.child /\ r.parent = u.parent /\ r.key = u.key
  BY <1>3 DEF Painted
<1>5. Sound(r, S) /\ Live(r) = Live(u)
  BY <1>1, <1>3, PaintedSound
<1>6. Live(u) \subseteq Node0 /\ nil \notin Live(u) /\ nil \in Node0 /\ u.root \in Node0
  BY <1>1, LiveAre, NodesAre
<1>7. ~u.red[nil] /\ (u.red[u.root] => u.root = c)
  BY <1>1 DEF Colours
<1>8. PICK g : [n \in Node0 |-> IF n = c /\ u.red[c] THEN h[n] + 1 ELSE h[n]] = g
  OBVIOUS
<1>9. h \in [Node0 -> Nat] /\ h[nil] = 0
  BY <1>1 DEF Even
<1>10. /\ g \in [Node0 -> Nat] /\ (\A n \in Node0 \ {c} : g[n] = h[n]) /\ g[nil] = 0
       /\ g[c] = IF u.red[c] THEN h[c] + 1 ELSE h[c]
  BY <1>6, <1>7, <1>8, <1>9
<1>11. ASSUME NEW w \in Live(u), NEW e \in Sides PROVE Level(r, g, w, e, nil, D)
  <2>0. Level(u, h, w, e, P, D) /\ w # nil /\ w \in Node0 /\ h[w] \in Nat
    BY <1>1, <1>6, <1>9 DEF Even
  <2>1. /\ u.child[e][w] \in Node0 /\ u.child[e][w] # w
        /\ (u.child[e][w] # nil => u.child[e][w] # u.root /\ u.parent[u.child[e][w]] = w)
    BY <1>1, KinAre
  <2>2. h[u.child[e][w]] \in Nat
    BY <1>9, <2>1
  <2>3. CASE w = c
    <3>1. g[u.child[e][w]] = h[u.child[e][w]]
      BY <1>10, <2>1, <2>3
    <3>2. w # P
      <4>1. ASSUME P \in Live(u), D \in Sides, u.child[D][P] = c PROVE P # c
        BY <1>1, <4>1, KinAre
      <4> QED BY <2>0, <2>3, <4>1
    <3>3. h[u.child[e][w]] + Weight(u, w) = h[w]
      BY <2>0, <3>2 DEF Level
    <3>4. h[u.child[e][w]] + Weight(r, w) = g[w]
      BY <1>3, <1>10, <2>0, <2>2, <2>3, <3>3 DEF Weight
    <3> QED BY <1>4, <2>0, <3>1, <3>4 DEF Level
  <2>4. CASE w # c /\ u.child[e][w] = c /\ u.red[c]
    <3>1. c # nil /\ c # u.root
      BY <1>7, <2>1, <2>4
    <3>2. P \in Live(u) /\ D \in Sides /\ u.child[D][P] = c /\ P = w
      <4>1. P \in Live(u) /\ D \in Sides /\ u.child[D][P] = c
        BY <3>1
      <4>2. u.parent[c] = P
        BY <1>1, <3>1, <4>1, KinAre
      <4> QED BY <2>1, <2>4, <3>1, <4>1, <4>2
    <3>3. D = e
      <4>1. c \in Live(u)
        BY <1>1, <3>1, <3>2, KinAre
      <4>2. D = SideOf(u, c) /\ e = SideOf(u, c)
        BY <1>1, <2>1, <2>4, <3>1, <3>2, <4>1, UpIs
      <4> QED BY <4>2
    <3>4. h[c] + 1 + Weight(u, w) = h[w]
      BY <2>0, <2>4, <3>2, <3>3 DEF Level
    <3>5. Weight(r, w) = Weight(u, w) /\ g[w] = h[w] /\ g[c] = h[c] + 1
      BY <1>3, <1>10, <2>0, <2>4 DEF Weight
    <3> QED BY <1>4, <2>0, <2>4, <3>4, <3>5 DEF Level
  <2>5. CASE w # c /\ ~(u.child[e][w] = c /\ u.red[c])
    <3>1. ~(w = P /\ e = D)
      BY <1>6, <2>0, <2>5
    <3>2. Weight(r, w) = Weight(u, w) /\ g[w] = h[w]
      BY <1>3, <1>10, <2>0, <2>5 DEF Weight
    <3>3. g[u.child[e][w]] = h[u.child[e][w]]
      BY <1>10, <2>1, <2>5
    <3> QED BY <1>4, <2>0, <3>1, <3>2, <3>3 DEF Level
  <2> QED BY <2>3, <2>4, <2>5
<1>12. Even(r, g, nil, D)
  BY <1>5, <1>10, <1>11 DEF Even
<1>13. ASSUME NEW w \in Live(u), NEW e \in Sides PROVE Clash(r, nil, nil, w, e)
  <2>1. Clash(u, c, c, w, e) /\ u.child[e][w] \in Node0 /\ w \in Node0
    BY <1>1, <1>6, LiveAre DEF Colours
  <2> QED BY <1>3, <1>4, <2>1 DEF Clash
<1>14. Colours(r, nil, nil)
  <2>1. ~r.red[nil] /\ ~r.red[r.root]
    BY <1>3, <1>4, <1>6, <1>7
  <2> QED BY <1>5, <1>13, <2>1 DEF Colours
<1>15. Whole(r)
  BY <1>5, <1>12, <1>14 DEF Whole, Full
<1>16. KeysOf(r) = KeysOf(u)
  BY <1>4, <1>5 DEF KeysOf
<1> QED BY <1>2, <1>15, <1>16

\* So rbtree_insert_fixup ends in one ...
LEMMA InsertEnds ==
  ASSUME NEW u, NEW z, NEW D, Inserting(u, z, D), ~u.red[u.parent[z]]
  PROVE  Whole(Black(u, u.root)) /\ KeysOf(Black(u, u.root)) = KeysOf(u)
<1>1. PICK S, h : Full(u, S, h, nil, D, z, nil) /\ z \in Live(u)
  BY DEF Inserting
<1>2. Sound(u, S) /\ u \in Trees /\ Even(u, h, nil, D) /\ Colours(u, z, nil) /\ Shaped(u, S)
  BY <1>1 DEF Full, Sound
<1>3. PICK c : u.root = c
  OBVIOUS
<1>4. c \in Node0
  BY <1>2, <1>3, LiveAre
<1>5. ASSUME NEW w \in Live(u), NEW e \in Sides PROVE Clash(u, c, c, w, e)
  <2>1. Clash(u, z, nil, w, e) /\ w # nil
    BY <1>2, LiveAre DEF Colours
  <2>2. u.child[e][w] = z => u.parent[z] = w
    BY <1>1, <1>2, <2>1, KinAre, LiveAre
  <2> QED BY <2>1, <2>2 DEF Clash
<1>6. Colours(u, c, c)
  BY <1>2, <1>3, <1>5 DEF Colours
<1>7. Full(u, S, h, nil, D, c, c)
  BY <1>2, <1>6 DEF Full
<1> QED BY <1>3, <1>4, <1>7, BlackEnds

\* ... and so does rbtree_delete_fixup.
LEMMA DeleteEnds ==
  ASSUME NEW u, NEW c, Deleting(u, c), c = u.root \/ u.red[c]
  PROVE  Whole(Black(u, c)) /\ KeysOf(Black(u, c)) = KeysOf(u)
<1>1. CASE c = u.root /\ \E S, h, D : Full(u, S, h, nil, D, c, c)
  <2>1. PICK S, h, D : Full(u, S, h, nil, D, c, c)
    BY <1>1
  <2>2. c \in Node0
    BY <1>1, <2>1, LiveAre DEF Full, Sound
  <2> QED BY <1>1, <2>1, <2>2, BlackEnds
<1>2. CASE \E S, h, P, D : /\ Full(u, S, h, P, D, c, c) /\ P \in Live(u) /\ D \in Sides
                           /\ u.child[D][P] = c /\ u.parent[c] = P
  <2>1. PICK S, h, P, D : /\ Full(u, S, h, P, D, c, c) /\ P \in Live(u) /\ D \in Sides
                          /\ u.child[D][P] = c /\ u.parent[c] = P
    BY <1>2
  <2>2. Sound(u, S) /\ u \in Trees /\ Shaped(u, S)
    BY <2>1 DEF Full, Sound
  <2>3. c \in Node0
    BY <2>1, <2>2, LiveAre
  <2>4. c # u.root
    <3>1. c # nil => c # u.root
      BY <2>1, <2>2, KinAre
    <3>2. u.root # nil
      BY <2>1, <2>2, NodesAre, LiveAre DEF Shaped
    <3> QED BY <3>1, <3>2
  <2>5. u.red[c]
    BY <2>4
  <2> QED BY <2>1, <2>3, <2>5, BlackEnds
<1> QED BY <1>1, <1>2 DEF Deleting

-----------------------------------------------------------------------------
\* The inductive invariant.  It says what each loop still has to repair: while
\* rbtree_insert_fixup runs, its node may be a red child of a red node; while
\* rbtree_delete_fixup runs, a black node is missing below its node.
TreeInv ==
  /\ TreeTypeOK
  /\ pc = "idle" => Whole(T)
  /\ pc = "insert" => \E D : Inserting(T, cursor, D)
  /\ pc = "delete" => Deleting(T, cursor)

SoundTree(u) == \E S : Sound(u, S)

\* At every turn of the loops links and order are sound.
LEMMA InvSound ==
  ASSUME TreeInv
  PROVE  SoundTree(T)
<1>1. CASE pc = "idle"
  BY <1>1 DEF TreeInv, Whole, Full, SoundTree
<1>2. CASE pc = "insert"
  BY <1>2 DEF TreeInv, Inserting, Full, SoundTree
<1>3. CASE pc = "delete"
  BY <1>3 DEF TreeInv, Deleting, Full, SoundTree
<1> QED BY <1>1, <1>2, <1>3 DEF TreeInv, TreeTypeOK

\* rbtree_search answers for the keys of the tree, and for no others.
LEMMA SearchFinds ==
  ASSUME NEW u, SoundTree(u)
  PROVE  /\ KeysOf(u) \subseteq Keys
         /\ \A k \in Keys : IF k \in KeysOf(u) THEN Search(u, k) \in Live(u) /\ u.key[Search(u, k)] = k /\ Search(u, k) # nil
                            ELSE Search(u, k) = nil
<1>1. PICK S : Sound(u, S)
  BY DEF SoundTree
<1>2. u \in Trees
  BY <1>1 DEF Sound
<1>3. \A x \in Live(u) : x # nil /\ u.key[x] \in Keys
  BY <1>2, LiveAre
<1>4. ASSUME NEW k \in Keys PROVE Sought(u, k, Search(u, k))
  BY <1>1, SearchIs
<1>5. KeysOf(u) \subseteq Keys
  BY <1>3 DEF KeysOf
<1>6. ASSUME NEW k \in Keys
      PROVE  IF k \in KeysOf(u) THEN Search(u, k) \in Live(u) /\ u.key[Search(u, k)] = k /\ Search(u, k) # nil
             ELSE Search(u, k) = nil
  BY <1>3, <1>4 DEF KeysOf, Sought
<1> QED BY <1>5, <1>6

\* The empty tree.
LEMMA EmptyWhole ==
  ASSUME TreeInit
  PROVE  TreeInv /\ KeysOf(T) = {}
<1>1. T \in Trees
  BY NodesAre DEF TreeInit, Trees
<1>2. /\ T.root = nil /\ (\A x \in Node0 : T.key[x] = NoKey /\ T.red[x] = FALSE /\ T.parent[x] = nil)
      /\ \A d \in Sides, x \in Node0 : T.child[d][x] = nil
  BY DEF TreeInit
<1>3. nil \in Node0 /\ Live(T) = {}
  BY <1>2, NodesAre DEF Live
<1> DEFINE S == [x \in Node0 |-> {}]
           h == [x \in Node0 |-> 0]
<1>4. Shaped(T, S)
  BY <1>2, <1>3 DEF Shaped
<1>5. Sound(T, S)
  BY <1>1, <1>3, <1>4 DEF Sound, Ordered
<1>6. Even(T, h, nil, "left")
  BY <1>3 DEF Even
<1>7. Colours(T, nil, nil)
  BY <1>2, <1>3 DEF Colours
<1>8. Whole(T)
  BY <1>5, <1>6, <1>7 DEF Whole, Full
<1>9. pc = "idle" /\ cursor = nil
  BY DEF TreeInit
<1>10. TreeTypeOK
  BY <1>1, <1>3, <1>9 DEF TreeTypeOK
<1>11. KeysOf(T) = {}
  BY <1>3 DEF KeysOf
<1> QED BY <1>8, <1>9, <1>10, <1>11 DEF TreeInv

\* The types the three forms of the tree have.
LEMMA WholeTree ==
  ASSUME NEW u, Whole(u)
  PROVE  u \in Trees
BY DEF Whole, Full, Sound

LEMMA InsertingTree ==
  ASSUME NEW u, NEW z, NEW D, Inserting(u, z, D)
  PROVE  u \in Trees /\ z \in Node0 /\ z # nil
<1>1. PICK S, h : Full(u, S, h, nil, D, z, nil) /\ z \in Live(u)
  BY DEF Inserting
<1>2. u \in Trees
  BY <1>1 DEF Full, Sound
<1> QED BY <1>1, <1>2, LiveAre

LEMMA DeletingTree ==
  ASSUME NEW u, NEW c, Deleting(u, c)
  PROVE  u \in Trees /\ c \in Node0
<1>1. CASE c = u.root /\ \E S, h, D : Full(u, S, h, nil, D, c, c)
  <2>1. u \in Trees
    BY <1>1 DEF Full, Sound
  <2> QED BY <1>1, <2>1, LiveAre
<1>2. CASE \E S, h, P, D : /\ Full(u, S, h, P, D, c, c) /\ P \in Live(u) /\ D \in Sides
                           /\ u.child[D][P] = c /\ u.parent[c] = P
  <2>1. PICK S, h, P, D : /\ Full(u, S, h, P, D, c, c) /\ P \in Live(u) /\ D \in Sides
                          /\ u.child[D][P] = c /\ u.parent[c] = P
    BY <1>2
  <2>2. u \in Trees
    BY <2>1 DEF Full, Sound
  <2> QED BY <2>1, <2>2, LiveAre
<1> QED BY <1>1, <1>2 DEF Deleting

\* What each step does to the invariant and to the keys.
LEMMA InsertStep ==
  ASSUME TreeInv, NEW k \in Keys, Insert(k)
  PROVE  TreeInv' /\ KeysOf(T') = KeysOf(T) \cup {k}
<1>1. pc = "idle" /\ pc' = "insert" /\ Search(T, k) = nil
  BY DEF Insert
<1>2. PICK z \in Nodes : Blank(z) /\ T' = Hang(T, z, k) /\ cursor' = z
  BY DEF Insert
<1>3. PICK S, h, D : Full(T, S, h, nil, D, nil, nil)
  BY <1>1 DEF TreeInv, Whole
<1>4. z \in Nodes \ Live(T)
  BY <1>2 DEF Blank, Live
<1>5. k \notin KeysOf(T)
  BY <1>1, InvSound, SearchFinds
<1>6. Inserting(Hang(T, z, k), z, D) /\ KeysOf(Hang(T, z, k)) = KeysOf(T) \cup {k}
  BY <1>3, <1>4, <1>5, HangIs
<1>7. Inserting(T', cursor', D) /\ KeysOf(T') = KeysOf(T) \cup {k}
  BY <1>2, <1>6
<1>8. T' \in Trees /\ cursor' \in Node0 /\ cursor' # nil
  BY <1>7, InsertingTree
<1> QED BY <1>1, <1>7, <1>8 DEF TreeInv, TreeTypeOK

\* rbtree_delete up to its fix-up keeps the invariant and removes one key.
LEMMA DeleteStep ==
  ASSUME TreeInv, NEW k \in Keys, Delete(k)
  PROVE  TreeInv' /\ KeysOf(T') = KeysOf(T) \ {k}
<1> DEFINE z == Search(T, k)
           y == Victim(T, z)
           c == Cut(T, z, y)
<1>1. pc = "idle" /\ z # nil
  BY DEF Delete
<1>2. T' = c.tree /\ IF T.red[y] THEN UNCHANGED <<pc, cursor>> ELSE pc' = "delete" /\ cursor' = c.at
  BY Zenon DEF Delete
<1>3. Whole(T) /\ cursor \in Node0
  BY <1>1 DEF TreeInv, TreeTypeOK
<1>4. z \in Live(T) /\ T.key[z] = k
  BY <1>1, InvSound, SearchFinds
<1> HIDE DEF z
<1>5. /\ KeysOf(c.tree) = KeysOf(T) \ {T.key[z]}
      /\ IF T.red[y] THEN Whole(c.tree) ELSE Deleting(c.tree, c.at)
  BY <1>3, <1>4, DeleteIs
<1> HIDE DEF y, c
<1>6. KeysOf(T') = KeysOf(T) \ {k}
  BY <1>2, <1>4, <1>5
<1>7. CASE T.red[y]
  <2>1. Whole(T') /\ pc' = "idle" /\ cursor' = cursor
    BY <1>1, <1>2, <1>5, <1>7
  <2>2. T' \in Trees
    BY <2>1, WholeTree
  <2> QED BY <1>3, <1>6, <2>1, <2>2 DEF TreeInv, TreeTypeOK
<1>8. CASE ~T.red[y]
  <2>1. Deleting(T', cursor') /\ pc' = "delete"
    BY <1>2, <1>5, <1>8
  <2>2. T' \in Trees /\ cursor' \in Node0
    BY <2>1, DeletingTree
  <2> QED BY <1>6, <2>1, <2>2 DEF TreeInv, TreeTypeOK
<1> QED BY <1>7, <1>8

\* The stored keys depend on the key fields alone.
LEMMA SameKeys ==
  ASSUME NEW u, NEW r, r.key = u.key
  PROVE  KeysOf(r) = KeysOf(u)
BY DEF KeysOf, Live

\* A turn of rbtree_insert_fixup, and its end, keep the invariant and the stored
\* keys.
LEMMA InsertFixupStep ==
  ASSUME TreeInv, InsertFixup
  PROVE  TreeInv' /\ KeysOf(T') = KeysOf(T)
<1>1. pc = "insert"
  BY DEF InsertFixup
<1>2. PICK D : Inserting(T, cursor, D)
  BY <1>1 DEF TreeInv
<1>3. CASE T.red[T.parent[cursor]]
  <2> DEFINE turn == InsertTurn(T, cursor)
  <2>1. T' = turn.tree /\ cursor' = turn.at /\ pc' = pc
    BY <1>3 DEF InsertFixup
  <2>2. PICK S, h : Full(T, S, h, nil, D, cursor, nil) /\ cursor \in Live(T) /\ T.red[cursor]
    BY <1>2 DEF Inserting
  <2>3. Inserting(turn.tree, turn.at, D) /\ turn.tree.key = T.key
    BY <1>3, <2>2, InsertTurnIs
  <2> HIDE DEF turn
  <2>4. Inserting(T', cursor', D) /\ T'.key = T.key
    BY <2>1, <2>3
  <2>5. T' \in Trees /\ cursor' \in Node0 /\ cursor' # nil
    BY <2>4, InsertingTree
  <2>6. KeysOf(T') = KeysOf(T)
    BY <2>4, SameKeys
  <2> QED BY <1>1, <2>1, <2>4, <2>5, <2>6 DEF TreeInv, TreeTypeOK
<1>4. CASE ~T.red[T.parent[cursor]]
  <2>1. T' = Black(T, T.root) /\ cursor' = nil /\ pc' = "idle"
    BY <1>4 DEF InsertFixup, Black
  <2>2. Whole(Black(T, T.root)) /\ KeysOf(Black(T, T.root)) = KeysOf(T)
    BY <1>2, <1>4, InsertEnds
  <2>3. Whole(T') /\ KeysOf(T') = KeysOf(T)
    BY <2>1, <2>2
  <2>4. T' \in Trees /\ nil \in Node0
    BY <2>3, WholeTree, NodesAre
  <2> QED BY <2>1, <2>3, <2>4 DEF TreeInv, TreeTypeOK
<1> QED BY <1>3, <1>4

\* A turn of rbtree_delete_fixup, and its end, keep the invariant and the stored
\* keys.
LEMMA DeleteFixupStep ==
  ASSUME TreeInv, DeleteFixup
  PROVE  TreeInv' /\ KeysOf(T') = KeysOf(T)
<1>1. pc = "delete"
  BY DEF DeleteFixup
<1>2. Deleting(T, cursor)
  BY <1>1 DEF TreeInv
<1>3. CASE cursor # T.root /\ ~T.red[cursor]
  <2> DEFINE turn == DeleteTurn(T, cursor)
  <2>1. T' = turn.tree /\ cursor' = turn.at /\ pc' = pc
    BY <1>3 DEF DeleteFixup
  <2>2. Deleting(turn.tree, turn.at) /\ turn.tree.key = T.key
    BY <1>2, <1>3, DeleteTurnIs
  <2> HIDE DEF turn
  <2>3. Deleting(T', cursor') /\ T'.key = T.key
    BY <2>1, <2>2
  <2>4. T' \in Trees /\ cursor' \in Node0
    BY <2>3, DeletingTree
  <2>5. KeysOf(T') = KeysOf(T)
    BY <2>3, SameKeys
  <2> QED BY <1>1, <2>1, <2>3, <2>4, <2>5 DEF TreeInv, TreeTypeOK
<1>4. CASE ~(cursor # T.root /\ ~T.red[cursor])
  <2>1. T' = Black(T, cursor) /\ cursor' = nil /\ pc' = "idle"
    BY <1>4 DEF DeleteFixup, Black
  <2>2. Whole(Black(T, cursor)) /\ KeysOf(Black(T, cursor)) = KeysOf(T)
    BY <1>2, <1>4, DeleteEnds
  <2>3. Whole(T') /\ KeysOf(T') = KeysOf(T)
    BY <2>1, <2>2
  <2>4. T' \in Trees /\ nil \in Node0
    BY <2>3, WholeTree, NodesAre
  <2> QED BY <2>1, <2>3, <2>4 DEF TreeInv, TreeTypeOK
<1> QED BY <1>3, <1>4

\* Every step keeps the invariant.
LEMMA TreeInvStep == TreeInv /\ [TreeNext]_treeVars => TreeInv'
<1> SUFFICES ASSUME TreeInv, [TreeNext]_treeVars PROVE TreeInv'
  OBVIOUS
<1>1. CASE UNCHANGED treeVars
  BY <1>1 DEF treeVars, TreeInv, TreeTypeOK
<1>2. CASE InsertFixup
  BY <1>2, InsertFixupStep
<1>3. CASE DeleteFixup
  BY <1>3, DeleteFixupStep
<1>4. ASSUME NEW k \in Keys, Insert(k) PROVE TreeInv'
  BY <1>4, InsertStep
<1>5. ASSUME NEW k \in Keys, Delete(k) PROVE TreeInv'
  BY <1>5, DeleteStep
<1> QED BY <1>1, <1>2, <1>3, <1>4, <1>5 DEF TreeNext

\* For any keys and number of nodes: between calls of rbtree_insert and
\* rbtree_delete the tree is red-black, and within a fix-up it lacks
\* exactly what the rest of the loop repairs.
THEOREM TreeInvariant == TreeSpec => []TreeInv
<1>1. TreeInit => TreeInv
  BY EmptyWhole
<1> QED BY <1>1, TreeInvStep, PTL DEF TreeSpec

\* The tree stores the keys inserted and not deleted since, and rbtree_search
\* finds those: every step is a step of KeySet or changes nothing there.
LEMMA StoredAre ==
  ASSUME NEW u, SoundTree(u)
  PROVE  {k \in Keys : Search(u, k) # nil} = KeysOf(u)
BY SearchFinds

\* rbtree_search finds exactly the keys inserted and not deleted since, also
\* between the turns of a fix-up, for any keys and number of nodes.
THEOREM ImplementsKeySet == TreeSpec => RefinesKeySet
<1> DEFINE found == {k \in Keys : Search(T, k) # nil}
<1>1. TreeInit => Found!Init
  <2> SUFFICES ASSUME TreeInit PROVE found = {} /\ request = <<>>
    BY DEF Found!Init
  <2>1. found = KeysOf(T) /\ KeysOf(T) = {}
    BY EmptyWhole, InvSound, StoredAre
  <2> QED BY <2>1 DEF TreeInit
<1>2. TreeInv /\ SoundTree(T) /\ SoundTree(T)' /\ [TreeNext]_treeVars => [Found!Next]_(Found!vars)
  <2> SUFFICES ASSUME TreeInv, SoundTree(T), SoundTree(T'), [TreeNext]_treeVars
               PROVE  [Found!Next]_(Found!vars)
    OBVIOUS
  <2>1. found = KeysOf(T) /\ found' = KeysOf(T')
    BY StoredAre
  <2>3. CASE UNCHANGED treeVars
    BY <2>3 DEF treeVars, Found!vars
  <2>4. CASE InsertFixup
    <3>1. found' = found
      BY <2>1, <2>4, InsertFixupStep
    <3>2. request' = request \/ request' = <<>>
      BY <2>4 DEF InsertFixup
    <3> QED BY <3>1, <3>2 DEF Found!Next, Found!Forget, Found!vars
  <2>5. CASE DeleteFixup
    <3>1. found' = found
      BY <2>1, <2>5, DeleteFixupStep
    <3>2. request' = request \/ request' = <<>>
      BY <2>5 DEF DeleteFixup
    <3> QED BY <3>1, <3>2 DEF Found!Next, Found!Forget, Found!vars
  <2>6. ASSUME NEW k \in Keys, Insert(k) PROVE [Found!Next]_(Found!vars)
    <3>1. found' = found \cup {k}
      BY <2>1, <2>6, InsertStep
    <3>2. request' = <<"insert", k>>
      BY <2>6 DEF Insert
    <3> QED BY <3>1, <3>2 DEF Found!Next, Found!Insert
  <2>7. ASSUME NEW k \in Keys, Delete(k) PROVE [Found!Next]_(Found!vars)
    <3>1. found' = found \ {k}
      BY <2>1, <2>7, DeleteStep
    <3>2. request' = <<"delete", k>>
      BY <2>7 DEF Delete
    <3> QED BY <3>1, <3>2 DEF Found!Next, Found!Delete
  <2> QED BY <2>3, <2>4, <2>5, <2>6, <2>7 DEF TreeNext
<1>3. TreeInv => SoundTree(T)
  BY InvSound
<1> QED BY <1>1, <1>2, <1>3, TreeInvariant, PTL DEF TreeSpec, RefinesKeySet, Found!Spec

-----------------------------------------------------------------------------
\* The nodes at most n levels down.
Ladder(f, u) == f = [n \in 0 .. MaxNodes |-> IF n = 0 THEN {u.root} ELSE Deeper(u, f[n - 1])]

\* The levels of the tree that Reach collects are defined.
LEMMA LadderExists ==
  ASSUME NEW u
  PROVE  \E f : Ladder(f, u)
<1> DEFINE Good(f, m) == \A n \in 0 .. MaxNodes : n < m => f[n] = IF n = 0 THEN {u.root} ELSE Deeper(u, f[n - 1])
           Bad == {m \in Nat : ~ \E f : Good(f, m)}
<1>0. MaxNodes \in Nat
  BY RbTreeAssumption
<1>1. CASE Bad = {}
  <2>0. MaxNodes + 1 \in Nat
    BY <1>0
  <2>1. PICK f : Good(f, MaxNodes + 1)
    <3> HIDE DEF Good
    <3> QED BY <1>1, <2>0
  <2> DEFINE g == [n \in 0 .. MaxNodes |-> f[n]]
  <2>2. \A n \in 0 .. MaxNodes : f[n] = IF n = 0 THEN {u.root} ELSE Deeper(u, f[n - 1])
    <3> SUFFICES ASSUME NEW n \in 0 .. MaxNodes PROVE f[n] = IF n = 0 THEN {u.root} ELSE Deeper(u, f[n - 1])
      OBVIOUS
    <3>1. n < MaxNodes + 1
      BY <1>0
    <3> QED BY <2>1, <3>1
  <2>3. \A n \in 0 .. MaxNodes : g[n] = IF n = 0 THEN {u.root} ELSE Deeper(u, g[n - 1])
    <3> TAKE n \in 0 .. MaxNodes
    <3>1. CASE n = 0
      BY <2>2, <3>1
    <3>2. CASE n # 0
      <4>1. n - 1 \in 0 .. MaxNodes
        BY <1>0, <3>2
      <4>2. g[n - 1] = f[n - 1] /\ g[n] = f[n]
        BY <4>1
      <4> HIDE DEF g
      <4> QED BY <2>2, <3>2, <4>2
    <3> QED BY <3>1, <3>2
  <2>4. g = [n \in 0 .. MaxNodes |-> IF n = 0 THEN {u.root} ELSE Deeper(u, g[n - 1])]
    BY <2>3
  <2> QED BY <2>4 DEF Ladder
<1>2. CASE Bad # {}
  <2>1. Bad \subseteq Nat
    OBVIOUS
  <2>2. PICK m \in Bad : \A n \in Bad : m <= n
    BY <1>2, <2>1, Least
  <2>3. m \in Nat /\ ~ \E f : Good(f, m)
    OBVIOUS
  <2>4. m # 0
    <3>1. Good([n \in {} |-> n], 0)
      OBVIOUS
    <3> HIDE DEF Good
    <3> QED BY <2>3, <3>1
  <2>5. m - 1 \in Nat /\ ~(m <= m - 1)
    BY <2>3, <2>4
  <2>6. m - 1 \notin Bad
    BY <2>2, <2>5
  <2>7. PICK f : Good(f, m - 1)
    BY <2>5, <2>6
  <2> DEFINE g == [n \in 0 .. MaxNodes |-> IF n = 0 THEN {u.root} ELSE Deeper(u, f[n - 1])]
  <2>8. Good(g, m)
    <3> SUFFICES ASSUME NEW n \in 0 .. MaxNodes, n < m
                 PROVE  g[n] = IF n = 0 THEN {u.root} ELSE Deeper(u, g[n - 1])
      OBVIOUS
    <3>1. CASE n = 0
      BY <3>1
    <3>2. CASE n # 0
      <4>1. n - 1 \in 0 .. MaxNodes /\ n - 1 < m - 1
        BY <1>0, <2>3, <3>2
      <4>2. f[n - 1] = IF n - 1 = 0 THEN {u.root} ELSE Deeper(u, f[(n - 1) - 1])
        BY <2>7, <4>1
      <4>3. g[n - 1] = f[n - 1]
        BY <4>1, <4>2
      <4>4. g[n] = Deeper(u, f[n - 1])
        BY <3>2
      <4> HIDE DEF g
      <4> QED BY <3>2, <4>3, <4>4
    <3> QED BY <3>1, <3>2
  <2> HIDE DEF Good, g
  <2> QED BY <2>3, <2>8
<1> QED BY <1>1, <1>2

\* They are all in use or nil, and every node in use is among them: a node at or
\* below which c nodes are is at most MaxNodes - c levels down.
LEMMA LadderIs ==
  ASSUME NEW u, NEW S, Sound(u, S), NEW f, Ladder(f, u)
  PROVE  f[MaxNodes] \ {nil} = Live(u)
<1>0. MaxNodes \in Nat
  BY RbTreeAssumption
<1>1. u \in Trees /\ Shaped(u, S) /\ S \in [Node0 -> SUBSET Live(u)] /\ u.root \in Node0
  BY LiveAre DEF Sound, Shaped
<1>2. /\ f[0] = {u.root}
      /\ \A n \in 0 .. MaxNodes : n # 0 => f[n] = Deeper(u, f[n - 1])
  <2>1. f = [n \in 0 .. MaxNodes |-> IF n = 0 THEN {u.root} ELSE Deeper(u, f[n - 1])]
    BY DEF Ladder
  <2>2. \A n \in 0 .. MaxNodes : f[n] = IF n = 0 THEN {u.root} ELSE Deeper(u, f[n - 1])
    BY <2>1, Zenon
  <2>3. 0 \in 0 .. MaxNodes
    BY <1>0
  <2> QED BY <2>2, <2>3
<1>3. \A n \in 0 .. MaxNodes : f[n] \subseteq Live(u) \cup {nil}
  <2> DEFINE Bad == {n \in 0 .. MaxNodes : ~(f[n] \subseteq Live(u) \cup {nil})}
  <2> SUFFICES ASSUME Bad # {} PROVE FALSE
    OBVIOUS
  <2>1. Bad \subseteq Nat
    OBVIOUS
  <2>2. PICK m \in Bad : \A n \in Bad : m <= n
    BY <2>1, Least
  <2>3. m \in 0 .. MaxNodes /\ ~(f[m] \subseteq Live(u) \cup {nil})
    OBVIOUS
  <2>4. m # 0
    BY <1>1, <1>2, <2>3 DEF Shaped
  <2>5. m - 1 \in 0 .. MaxNodes /\ ~(m <= m - 1)
    BY <1>0, <2>3, <2>4
  <2>6. f[m - 1] \subseteq Live(u) \cup {nil}
    BY <2>2, <2>5
  <2> HIDE DEF Bad
  <2>7. f[m] = Deeper(u, f[m - 1])
    BY <1>2, <2>3, <2>4
  <2>8. \A x \in f[m - 1] \ {nil}, d \in Sides : u.child[d][x] \in Live(u) \cup {nil}
    BY <1>1, <2>6, ChildIs
  <2> QED BY <2>3, <2>6, <2>7, <2>8 DEF Deeper
<1>4. \A n \in 0 .. MaxNodes : n # 0 => f[n - 1] \subseteq f[n]
  BY <1>2 DEF Deeper
<1> DEFINE C(x) == Cardinality(S[x])
           L(x) == MaxNodes - C(x)
<1>5. ASSUME NEW x \in Live(u) PROVE C(x) \in Nat /\ L(x) \in 0 .. MaxNodes /\ x \in Node0
  <2>1. x \in Node0
    BY <1>1, LiveAre
  <2>2. S[x] \subseteq Nodes
    BY <1>1, <2>1, LiveAre
  <2>3. C(x) \in Nat /\ C(x) <= MaxNodes
    BY <2>2, NodesFinite, FS_Subset, FS_CardinalityType
  <2> QED BY <1>0, <2>1, <2>3
<1>6. ASSUME NEW i \in 0 .. MaxNodes, NEW j \in 0 .. MaxNodes, i <= j PROVE f[i] \subseteq f[j]
  <2> DEFINE Bad == {n \in 0 .. MaxNodes : i <= n /\ ~(f[i] \subseteq f[n])}
  <2> SUFFICES ASSUME Bad # {} PROVE FALSE
    BY <1>6
  <2>1. Bad \subseteq Nat
    OBVIOUS
  <2>2. PICK m \in Bad : \A n \in Bad : m <= n
    BY <2>1, Least
  <2>3. m \in 0 .. MaxNodes /\ i <= m /\ ~(f[i] \subseteq f[m])
    OBVIOUS
  <2>4. m # i
    BY <2>3
  <2>5. m - 1 \in 0 .. MaxNodes /\ ~(m <= m - 1) /\ i <= m - 1 /\ m # 0
    BY <1>0, <2>3, <2>4
  <2>6. f[i] \subseteq f[m - 1]
    BY <2>2, <2>5
  <2> HIDE DEF Bad
  <2> QED BY <1>4, <2>3, <2>5, <2>6
<1>7. ASSUME NEW x \in Live(u), x \notin f[L(x)] PROVE FALSE
  <2> DEFINE Bad == {y \in Live(u) : y \notin f[L(y)]}
             B == {L(y) : y \in Bad}
  <2>1. B \subseteq Nat /\ B # {}
    BY <1>5, <1>7
  <2>2. PICK m \in B : \A n \in B : m <= n
    BY <2>1, Least
  <2>3. PICK y \in Bad : m = L(y)
    BY <2>2
  <2>4. y \in Live(u) /\ y \notin f[L(y)]
    BY <2>3
  <2>5. y # u.root
    <3>1. u.root \in f[0]
      BY <1>2
    <3>2. L(y) \in 0 .. MaxNodes /\ 0 \in 0 .. MaxNodes /\ 0 <= L(y)
      BY <1>0, <1>5, <2>4
    <3>3. f[0] \subseteq f[L(y)]
      BY <1>6, <3>2
    <3> QED BY <2>4, <3>1, <3>3
  <2>6. PICK p : u.parent[y] = p
    OBVIOUS
  <2>7. p \in Live(u) /\ \E d \in Sides : u.child[d][p] = y
    BY <1>1, <2>4, <2>5, <2>6, SideIs
  <2>8. PICK d \in Sides : u.child[d][p] = y
    BY <2>7
  <2>9. C(y) < C(p)
    BY <2>7, <2>8, SizeIs
  <2>10. L(p) \in Nat /\ L(y) \in Nat /\ L(p) < L(y)
    BY <1>0, <1>5, <2>4, <2>7, <2>9
  <2>11. p \in f[L(p)]
    <3>1. p \notin Bad
      <4>1. p \in Bad => L(p) \in B
        OBVIOUS
      <4> QED BY <2>2, <2>3, <2>10, <4>1
    <3> QED BY <2>7, <3>1
  <2> HIDE DEF Bad, B
  <2>12. PICK i : L(p) = i
    OBVIOUS
  <2>13. PICK j : L(y) = j
    OBVIOUS
  <2> HIDE DEF L, C
  <2>14. i \in 0 .. MaxNodes /\ j \in 0 .. MaxNodes /\ i < j
    BY <1>5, <2>4, <2>7, <2>10, <2>12, <2>13
  <2>15. i + 1 \in 0 .. MaxNodes /\ i + 1 # 0 /\ (i + 1) - 1 = i /\ i + 1 <= j
    BY <1>0, <2>14
  <2>16. f[i + 1] = Deeper(u, f[i])
    BY <1>2, <2>15
  <2>17. p # nil
    BY <1>1, <2>7, LiveAre
  <2>18. y \in f[i + 1]
    BY <2>8, <2>11, <2>12, <2>16, <2>17 DEF Deeper
  <2>19. f[i + 1] \subseteq f[j]
    BY <1>6, <2>14, <2>15
  <2> QED BY <2>4, <2>13, <2>18, <2>19
<1>8. Live(u) \subseteq f[MaxNodes]
  <2> SUFFICES ASSUME NEW x \in Live(u) PROVE x \in f[MaxNodes]
    OBVIOUS
  <2>1. L(x) \in 0 .. MaxNodes /\ MaxNodes \in 0 .. MaxNodes /\ L(x) <= MaxNodes
    BY <1>0, <1>5
  <2>2. x \in f[L(x)]
    BY <1>7
  <2> HIDE DEF L
  <2>3. f[L(x)] \subseteq f[MaxNodes]
    BY <1>6, <2>1
  <2> QED BY <2>2, <2>3
<1>9. MaxNodes \in 0 .. MaxNodes /\ nil \notin Live(u)
  BY <1>0, <1>1, LiveAre
<1> QED BY <1>3, <1>8, <1>9

\* The nodes under the root are the live ones.
LEMMA ReachIs ==
  ASSUME NEW S, Sound(T, S)
  PROVE  Reach = Live(T)
<1> DEFINE below[n \in 0 .. MaxNodes] == IF n = 0 THEN {T.root} ELSE Deeper(T, below[n - 1])
<1>1. Reach = below[MaxNodes] \ {nil}
  BY Zenon DEF Reach
<1>2. \E f : f = [n \in 0 .. MaxNodes |-> IF n = 0 THEN {T.root} ELSE Deeper(T, f[n - 1])]
  BY LadderExists, Zenon DEF Ladder
<1>3. below = [n \in 0 .. MaxNodes |-> IF n = 0 THEN {T.root} ELSE Deeper(T, below[n - 1])]
  BY <1>2, Zenon DEF below
<1> HIDE DEF below
<1>4. Ladder(below, T)
  BY <1>3, Zenon DEF Ladder
<1> QED BY <1>1, <1>4, LadderIs

-----------------------------------------------------------------------------
\* At every turn the links agree.
LEMMA LinkedIs ==
  ASSUME NEW S, Sound(T, S), ~T.red[nil]
  PROVE  WellLinked
<1>1. T \in Trees /\ Shaped(T, S)
  BY DEF Sound
<1>2. Reach = InTree /\ InTree = Live(T)
  <2>1. InTree = Live(T)
    BY DEF InTree, Blank, Live
  <2> QED BY <2>1, ReachIs
<1>3. \A x \in Live(T) : \A d \in Sides : T.child[d][x] # nil => T.parent[T.child[d][x]] = x
  BY KinAre
<1>4. T.root # nil => T.parent[T.root] = nil
  BY <1>1 DEF Shaped
<1>5. \A d \in Sides : T.child[d][nil] = nil
  BY <1>1, NodesAre, LiveAre DEF Shaped
<1> QED BY <1>2, <1>3, <1>4, <1>5 DEF WellLinked

\* The recursive count of black nodes exists and agrees with h.
Counted(b, u) ==
  b = [x \in Node0 |-> IF x = nil THEN 0
                       ELSE LET l == b[u.child["left"][x]]
                                r == b[u.child["right"][x]]
                            IN  IF l = -1 \/ l # r THEN -1 ELSE l + IF u.red[x] THEN 0 ELSE 1]

\* The count of black nodes in Balanced is defined ...
LEMMA CountExists ==
  ASSUME NEW u, NEW S, NEW h, NEW D, Full(u, S, h, nil, D, nil, nil)
  PROVE  \E b : Counted(b, u)
<1>1. Sound(u, S) /\ u \in Trees /\ Shaped(u, S) /\ Even(u, h, nil, D)
  BY DEF Full, Sound
<1>2. h \in [Node0 -> Nat] /\ h[nil] = 0 /\ "left" \in Sides /\ "right" \in Sides
  BY <1>1 DEF Even, Sides
<1>3. Live(u) \subseteq Node0 /\ nil \notin Live(u) /\ nil \in Node0
  BY <1>1, LiveAre, NodesAre
<1> DEFINE b == [x \in Node0 |-> IF x \in Live(u) \cup {nil} THEN h[x] ELSE Weight(u, x)]
<1>4. \A x \in Live(u) \cup {nil} : b[x] = h[x]
  BY <1>3
<1>5. \A x \in Node0 \ Live(u) : x # nil => b[x] = Weight(u, x)
  OBVIOUS
<1>6. DOMAIN b = Node0
  OBVIOUS
<1>7. ASSUME NEW x \in Node0
      PROVE  b[x] = IF x = nil THEN 0
                    ELSE LET l == b[u.child["left"][x]]
                             r == b[u.child["right"][x]]
                         IN  IF l = -1 \/ l # r THEN -1 ELSE l + IF u.red[x] THEN 0 ELSE 1
  <2> HIDE DEF b
  <2>1. CASE x = nil
    BY <1>2, <1>4, <2>1
  <2>2. PICK l : b[u.child["left"][x]] = l
    OBVIOUS
  <2>3. PICK r : b[u.child["right"][x]] = r
    OBVIOUS
  <2>4. CASE x \in Live(u)
    <3>1. u.child["left"][x] \in Live(u) \cup {nil} /\ u.child["right"][x] \in Live(u) \cup {nil} /\ x # nil
      BY <1>1, <1>2, <1>3, <2>4, KinAre
    <3>2. Level(u, h, x, "left", nil, D) /\ Level(u, h, x, "right", nil, D)
      BY <1>1, <1>2, <2>4 DEF Even
    <3>3. l = h[u.child["left"][x]] /\ r = h[u.child["right"][x]] /\ b[x] = h[x]
      BY <1>4, <2>2, <2>3, <2>4, <3>1
    <3>4. l \in Nat /\ r \in Nat /\ b[x] \in Nat
      BY <1>2, <1>3, <2>4, <3>1, <3>3
    <3>5. l + Weight(u, x) = b[x] /\ r + Weight(u, x) = b[x]
      BY <3>1, <3>2, <3>3 DEF Level
    <3>6. l = r /\ l # -1 /\ b[x] = l + IF u.red[x] THEN 0 ELSE 1
      BY <3>4, <3>5 DEF Weight
    <3> QED BY <2>2, <2>3, <3>1, <3>6
  <2>5. CASE x \notin Live(u) /\ x # nil
    <3>1. u.child["left"][x] = nil /\ u.child["right"][x] = nil
      BY <1>1, <1>2, <2>5 DEF Shaped
    <3>2. l = 0 /\ r = 0
      BY <1>2, <1>4, <2>2, <2>3, <3>1
    <3>3. b[x] = Weight(u, x)
      BY <1>5, <2>5
    <3> QED BY <2>2, <2>3, <2>5, <3>2, <3>3 DEF Weight
  <2> QED BY <2>1, <2>4, <2>5
<1>8. Counted(b, u)
  <2>1. b = [x \in Node0 |-> b[x]]
    OBVIOUS
  <2> HIDE DEF b
  <2> QED BY <1>7, <2>1 DEF Counted
<1> QED BY <1>8

\* ... and finds the same number on all ways down.
LEMMA CountIs ==
  ASSUME NEW u, NEW S, NEW h, NEW D, Full(u, S, h, nil, D, nil, nil), NEW b, Counted(b, u)
  PROVE  b[u.root] # -1
<1>1. Sound(u, S) /\ u \in Trees /\ Shaped(u, S) /\ Even(u, h, nil, D)
  BY DEF Full, Sound
<1>2. h \in [Node0 -> Nat] /\ h[nil] = 0 /\ "left" \in Sides /\ "right" \in Sides
  BY <1>1 DEF Even, Sides
<1>3. Live(u) \subseteq Node0 /\ nil \notin Live(u) /\ nil \in Node0
  BY <1>1, LiveAre, NodesAre
<1>4. ASSUME NEW x \in Node0
      PROVE  b[x] = IF x = nil THEN 0
                    ELSE LET l == b[u.child["left"][x]]
                             r == b[u.child["right"][x]]
                         IN  IF l = -1 \/ l # r THEN -1 ELSE l + IF u.red[x] THEN 0 ELSE 1
  BY DEF Counted
<1>5. b[nil] = h[nil]
  BY <1>2, <1>3, <1>4
<1> DEFINE Bad == {x \in Live(u) : b[x] # h[x]}
<1>6. ASSUME Bad # {} PROVE FALSE
  <2>1. PICK x \in Bad : \A d \in Sides : u.child[d][x] \notin Bad
    BY <1>1, <1>6, Lowest
  <2>2. x \in Live(u) /\ b[x] # h[x]
    BY <2>1
  <2>3. u.child["left"][x] \in Live(u) \cup {nil} /\ u.child["right"][x] \in Live(u) \cup {nil} /\ x # nil
    BY <1>1, <1>2, <1>3, <2>2, KinAre
  <2>4. b[u.child["left"][x]] = h[u.child["left"][x]] /\ b[u.child["right"][x]] = h[u.child["right"][x]]
    BY <1>2, <1>5, <2>1, <2>3
  <2> HIDE DEF Bad
  <2>5. PICK l : b[u.child["left"][x]] = l
    OBVIOUS
  <2>6. PICK r : b[u.child["right"][x]] = r
    OBVIOUS
  <2>7. Level(u, h, x, "left", nil, D) /\ Level(u, h, x, "right", nil, D)
    BY <1>1, <1>2, <2>2 DEF Even
  <2>8. l \in Nat /\ r \in Nat /\ h[x] \in Nat
    BY <1>2, <1>3, <2>2, <2>3, <2>4, <2>5, <2>6
  <2>9. l + Weight(u, x) = h[x] /\ r + Weight(u, x) = h[x]
    BY <2>3, <2>4, <2>5, <2>6, <2>7 DEF Level
  <2>10. b[x] = IF l = -1 \/ l # r THEN -1 ELSE l + IF u.red[x] THEN 0 ELSE 1
    BY <1>3, <1>4, <2>2, <2>3, <2>5, <2>6
  <2> QED BY <2>2, <2>8, <2>9, <2>10 DEF Weight
<1>7. u.root \in Live(u) \cup {nil} /\ u.root \in Node0
  BY <1>1, LiveAre DEF Shaped
<1>8. b[u.root] = h[u.root]
  BY <1>5, <1>6, <1>7
<1> QED BY <1>2, <1>7, <1>8

\* A tree whose black heights are level is Balanced.
LEMMA BalancedIs ==
  ASSUME NEW S, NEW h, NEW D, Full(T, S, h, nil, D, nil, nil)
  PROVE  Balanced
<1> DEFINE black[x \in Node0] ==
             IF x = nil THEN 0
             ELSE LET l == black[T.child["left"][x]]
                      r == black[T.child["right"][x]]
                  IN  IF l = -1 \/ l # r THEN -1 ELSE l + IF T.red[x] THEN 0 ELSE 1
<1>1. Balanced <=> /\ black[T.root] # -1
                   /\ \A x \in InTree : T.red[x] => \A d \in Sides : ~T.red[T.child[d][x]]
                   /\ ~T.red[T.root]
  BY Zenon DEF Balanced
<1>2. \E f : f = [x \in Node0 |->
                    IF x = nil THEN 0
                    ELSE LET l == f[T.child["left"][x]]
                             r == f[T.child["right"][x]]
                         IN  IF l = -1 \/ l # r THEN -1 ELSE l + IF T.red[x] THEN 0 ELSE 1]
  BY CountExists, Zenon DEF Counted
<1>3. black = [x \in Node0 |->
                 IF x = nil THEN 0
                 ELSE LET l == black[T.child["left"][x]]
                          r == black[T.child["right"][x]]
                      IN  IF l = -1 \/ l # r THEN -1 ELSE l + IF T.red[x] THEN 0 ELSE 1]
  BY <1>2, Zenon DEF black
<1> HIDE DEF black
<1>4. Counted(black, T)
  BY <1>3, Zenon DEF Counted
<1>5. black[T.root] # -1
  BY <1>4, CountIs
<1>6. Colours(T, nil, nil) /\ InTree = Live(T) /\ Sound(T, S) /\ T \in Trees
  BY DEF Full, Sound, InTree, Blank, Live
<1>7. ~T.red[T.root] /\ ~T.red[nil]
  BY <1>6 DEF Colours
<1>8. ASSUME NEW x \in InTree, NEW d \in Sides PROVE ~(T.red[x] /\ T.red[T.child[d][x]])
  <2>1. Clash(T, nil, nil, x, d) /\ x # nil
    BY <1>6, LiveAre DEF Colours
  <2> QED BY <1>7, <2>1 DEF Clash
<1> QED BY <1>1, <1>5, <1>7, <1>8

\* After any sequence of insertions and deletions the links agree at every turn
\* of the fix-up loops, and between two calls the tree is red-black.
THEOREM AlwaysRedBlack == TreeSpec => []RedBlack
<1>1. TreeInv => RedBlack
  <2> SUFFICES ASSUME TreeInv PROVE RedBlack
    OBVIOUS
  <2>1. PICK S : Sound(T, S)
    BY InvSound DEF SoundTree
  <2>2. ~T.red[nil]
    <3>1. CASE pc = "idle"
      BY <3>1 DEF TreeInv, Whole, Full, Colours
    <3>2. CASE pc = "insert"
      BY <3>2 DEF TreeInv, Inserting, Full, Colours
    <3>3. CASE pc = "delete"
      BY <3>3 DEF TreeInv, Deleting, Full, Colours
    <3> QED BY <3>1, <3>2, <3>3 DEF TreeInv, TreeTypeOK
  <2>3. WellLinked
    BY <2>1, <2>2, LinkedIs
  <2>4. pc = "idle" => Balanced
    BY BalancedIs DEF TreeInv, Whole
  <2> QED BY <2>3, <2>4 DEF RedBlack
<1> QED BY <1>1, TreeInvariant, PTL

\* The fields keep their types.
THEOREM TreeTyped == TreeSpec => []TreeTypeOK
<1>1. TreeInv => TreeTypeOK
  BY DEF TreeInv
<1> QED BY <1>1, TreeInvariant, PTL
=============================================================================
