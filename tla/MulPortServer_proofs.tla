------------------------ MODULE MulPortServer_proofs ------------------------
(***************************************************************************)
(* Proofs about the epoll server for any number of clients, workers and    *)
(* descriptors: as long as no two jobs have met on one descriptor, a job   *)
(* stays with its connection, and curfds counts the connections.           *)
(***************************************************************************)
EXTENDS MulPortServer, TLAPS, FiniteSetTheorems

\* A client sends no more than it has.
SentInv == \A c \in Clients : net[c].data + net[c].left <= MaxSend

\* A client with an event, or with an accepted socket, has a descriptor.
KnownInv ==
  \A c \in Clients :
    c \in ready \/ net[c].st \in {"accepted", "open"} => \E f \in Fds : file[f] = c

\* Two jobs at work have two descriptors.
ApartInv ==
  ~hist.overlap =>
    \A v, w \in Workers : Busy(v) /\ Busy(w) /\ job[v].fd = job[w].fd => v = w

\* The client whose data or end a job has seen is still behind its descriptor; a
\* job that answers or closes has seen one.
PeerInv ==
  ~hist.overlap =>
    \A w \in Workers :
      /\ job[w].src # NoClient => Busy(w) /\ Peer(w) = job[w].src
      /\ job[w].n > 0 \/ job[w].pc \in {"reply", "load", "store", "shut"}
           => job[w].src # NoClient

MulInv ==
  TypeOK /\ SentInv /\ KnownInv /\ ApartInv /\ PeerInv /\ OwnConnection /\ CountExact

-----------------------------------------------------------------------------
\* The smaller of two numbers.
LEMMA MinOfTwo ==
  ASSUME NEW a \in Int, NEW b \in Int
  PROVE  Min({a, b}) \in {a, b} /\ Min({a, b}) <= a /\ Min({a, b}) <= b
<1>1. \E x \in {a, b} : \A y \in {a, b} : x <= y
  BY a <= b \/ b <= a
<1> QED
  BY <1>1 DEF Min

\* A job, a connection and the history have their fields.
LEMMA Fields ==
  ASSUME TypeOK
  PROVE  /\ \A c \in Clients : /\ net[c].st \in St /\ net[c].fin \in BOOLEAN
                               /\ net[c].data \in 0 .. MaxSend /\ net[c].left \in 0 .. MaxSend
         /\ \A w \in Workers : /\ job[w].fd \in Fds /\ job[w].n \in 0 .. MaxBuffer
                               /\ job[w].tmp \in Int /\ job[w].src \in Clients \cup {NoClient}
                               /\ Peer(w) \in Clients \cup {NoClient}
BY DEF TypeOK, Peer, Conn, Job

\* A connection after a step, and a job.
LEMMA ConnOf ==
  ASSUME NEW r \in Conn
  PROVE  /\ \A s \in St : [r EXCEPT !.st = s] \in Conn
         /\ \A d \in 0 .. MaxSend : [r EXCEPT !.data = d] \in Conn
         /\ \A d, l \in 0 .. MaxSend : [r EXCEPT !.data = d, !.left = l] \in Conn
         /\ [r EXCEPT !.fin = TRUE] \in Conn
BY DEF Conn

LEMMA JobOf ==
  ASSUME NEW r \in Job, NEW p \in {"idle", "recv", "reply", "load", "store", "shut"}
  PROVE  /\ [r EXCEPT !.pc = p] \in Job
         /\ \A m \in 0 .. MaxBuffer, x \in Clients : [r EXCEPT !.n = m, !.src = x] \in Job
         /\ \A x \in Clients : [r EXCEPT !.pc = p, !.src = x] \in Job
         /\ \A i \in Int : [r EXCEPT !.pc = p, !.tmp = i] \in Job
BY DEF Job

LEMMA NetSet ==
  ASSUME TypeOK, SentInv, NEW c \in Clients, NEW r \in Conn, r.data + r.left <= MaxSend,
         net' = [net EXCEPT ![c] = r]
  PROVE  net' \in [Clients -> Conn] /\ SentInv'
BY DEF TypeOK, SentInv

LEMMA IdleTyped ==
  Idle \in Job /\ Idle.pc = "idle" /\ Idle.n = 0 /\ Idle.src = NoClient
<1>1. 1 \in Fds /\ 0 \in 0 .. MaxBuffer
  BY MulPortServerAssumption DEF MulPortServerAssumption, Fds
<1> QED
  BY <1>1 DEF Idle, Job

-----------------------------------------------------------------------------
\* Types.
LEMMA TypeStep == MulInv /\ [Next]_vars => TypeOK' /\ SentInv'
<1> SUFFICES ASSUME MulInv, [Next]_vars PROVE TypeOK' /\ SentInv'
  OBVIOUS
<1> USE MulPortServerAssumption DEF MulPortServerAssumption
<1>t. TypeOK /\ SentInv /\ KnownInv
  BY DEF MulInv
<1>f. /\ \A c \in Clients : /\ net[c].st \in St /\ net[c].fin \in BOOLEAN
                            /\ net[c].data \in 0 .. MaxSend /\ net[c].left \in 0 .. MaxSend
      /\ \A w \in Workers : /\ job[w].fd \in Fds /\ job[w].n \in 0 .. MaxBuffer
                            /\ job[w].tmp \in Int /\ job[w].src \in Clients \cup {NoClient}
                            /\ Peer(w) \in Clients \cup {NoClient}
  BY <1>t, Fields
<1>1. CASE EpollWait
  <2>1. CASE UNCHANGED <<ready, evs>> /\ mpc' = "einval"
    BY <2>1, <1>1, <1>t DEF EpollWait, TypeOK, SentInv
  <2>2. ASSUME NEW b \in SUBSET ready, ready' = ready \ b, mpc' = "loop",
               evs' = {IF e = Listener THEN e ELSE FdOf(e) : e \in b}
        PROVE  TypeOK' /\ SentInv'
    <3>1. \A e \in b : e # Listener => FdOf(e) \in Fds
      <4> SUFFICES ASSUME NEW e \in b, e # Listener PROVE FdOf(e) \in Fds
        OBVIOUS
      <4>1. e \in Clients /\ e \in ready
        BY <1>t DEF TypeOK
      <4> QED
        BY <4>1, <1>t DEF KnownInv, FdOf
    <3>2. evs' \subseteq Fds \cup {Listener}
      BY <3>1, <2>2
    <3> QED
      BY <3>2, <2>2, <1>1, <1>t DEF EpollWait, TypeOK, SentInv
  <2> QED
    BY <1>1, <2>1, <2>2 DEF EpollWait
<1>2. CASE Accept
  <2>1. CASE FreeFds = {}
    BY <2>1, <1>2, <1>t DEF Accept, TypeOK, SentInv
  <2>2. CASE FreeFds # {}
    <3>1. Head(queue) \in Clients /\ Tail(queue) \in Seq(Clients)
      BY <1>2, <1>t DEF Accept, TypeOK
    <3>2. net' \in [Clients -> Conn]
          /\ SentInv'
      <4>1. net' = [net EXCEPT ![Head(queue)] = [net[Head(queue)] EXCEPT !.st = "accepted"]]
        BY <2>2, <1>2 DEF Accept
      <4>2. [net[Head(queue)] EXCEPT !.st = "accepted"] \in Conn
        BY <3>1, <1>t, ConnOf DEF TypeOK, St
      <4> QED
        BY <4>1, <4>2, <3>1, <1>t, NetSet DEF SentInv, TypeOK, Conn
    <3>3. file' \in [Fds -> Clients \cup {NoClient}]
      BY <3>1, <2>2, <1>2, <1>t DEF Accept, TypeOK, FreeFds
    <3> QED
      BY <3>1, <3>2, <3>3, <2>2, <1>2, <1>t DEF Accept, TypeOK
  <2> QED
    BY <2>1, <2>2
<1>3. CASE Register
  <2>1. PICK c \in Clients : /\ net[c].st = "accepted"
                             /\ net' = [net EXCEPT ![c].st = "open"]
                             /\ ready' = ready \cup {c}
    BY <1>3 DEF Register
  <2>2. net' \in [Clients -> Conn]
        /\ SentInv'
    <3>1. net' = [net EXCEPT ![c] = [net[c] EXCEPT !.st = "open"]]
      BY <2>1
    <3>2. [net[c] EXCEPT !.st = "open"] \in Conn
      BY <1>t, ConnOf DEF TypeOK, St
    <3> QED
      BY <3>1, <3>2, <1>t, NetSet DEF SentInv, TypeOK, Conn
  <2>3. hist' \in History
    <3>1. (hist.raced \/ Alone(curfds # mtmp)) \in BOOLEAN
      OBVIOUS
    <3> QED
      BY <3>1, <1>3, <1>t DEF Register, TypeOK, History
  <2> QED
    BY <2>1, <2>2, <2>3, <1>3, <1>t DEF Register, TypeOK
<1>4. CASE AddJob
  BY <1>4, <1>t DEF AddJob, TypeOK, SentInv
<1>5. CASE Handled
  BY <1>5, <1>t DEF Handled, TypeOK, SentInv
<1>6. ASSUME NEW w \in Workers, Start(w) PROVE TypeOK' /\ SentInv'
  <2>1. PICK f \in Fds : /\ pend[f] > 0
                         /\ pend' = [pend EXCEPT ![f] = @ - 1]
                         /\ job' = [job EXCEPT ![w] = [Idle EXCEPT !.pc = "recv", !.fd = f]]
                         /\ hist' = [hist EXCEPT !.overlap =
                                       @ \/ \E v \in Workers : Busy(v) /\ job[v].fd = f]
    BY <1>6 DEF Start
  <2>2. [Idle EXCEPT !.pc = "recv", !.fd = f] \in Job
    BY IdleTyped DEF Job
  <2>3. hist' \in History
    <3>1. (hist.overlap \/ \E v \in Workers : Busy(v) /\ job[v].fd = f) \in BOOLEAN
      OBVIOUS
    <3> QED
      BY <3>1, <2>1, <1>t DEF TypeOK, History
  <2>4. pend' \in [Fds -> Nat]
    BY <2>1, <1>t DEF TypeOK
  <2> QED
    BY <2>1, <2>2, <2>3, <2>4, <1>6, <1>t DEF Start, TypeOK, mainVars, SentInv
<1>7. ASSUME NEW w \in Workers, Recv(w) PROVE TypeOK' /\ SentInv'
  <2> DEFINE k == Min({Waiting(w), Room(w)})
  <2>1. /\ Peer(w) \in Clients /\ Waiting(w) \in 0 .. MaxSend /\ Room(w) \in 0 .. MaxBuffer
    BY <1>7, <1>f DEF Recv, Waiting, Room
  <2>2. k \in Nat /\ k <= Waiting(w) /\ k <= Room(w)
    BY <2>1, MinOfTwo
  <2>3. /\ job' = [job EXCEPT ![w].n = @ + k, ![w].src = Peer(w)]
        /\ net' = [net EXCEPT ![Peer(w)].data = @ - k]
    BY <1>7 DEF Recv
  <2> HIDE DEF k
  <2>4. job[w].n + k \in 0 .. MaxBuffer /\ net[Peer(w)].data - k \in 0 .. net[Peer(w)].data
    BY <2>1, <2>2, <1>f DEF Waiting, Room
  <2>5. job' \in [Workers -> Job]
    <3>1. [job[w] EXCEPT !.n = @ + k, !.src = Peer(w)] \in Job
      BY <2>4, <2>1, <1>t, JobOf DEF TypeOK
    <3> QED
      BY <3>1, <2>3, <1>t DEF TypeOK
  <2>6. net' \in [Clients -> Conn]
        /\ SentInv'
    <3>1. net' = [net EXCEPT ![Peer(w)] = [net[Peer(w)] EXCEPT !.data = net[Peer(w)].data - k]]
      BY <2>3
    <3>2. net[Peer(w)].data - k \in 0 .. MaxSend
      BY <2>4, <2>1, <1>f
    <3>3. [net[Peer(w)] EXCEPT !.data = net[Peer(w)].data - k] \in Conn
      BY <3>2, <2>1, <1>t, ConnOf DEF TypeOK
    <3>4. net[Peer(w)].data - k + net[Peer(w)].left <= MaxSend
      BY <2>4, <2>1, <1>t, <1>f DEF SentInv
    <3> QED
      BY <3>1, <3>3, <3>4, <2>1, <1>t, NetSet DEF TypeOK, Conn
  <2>7. hist' \in History
    <3>1. (hist.crossed \/ Alone(job[w].src \notin {NoClient, Peer(w)})) \in BOOLEAN
      OBVIOUS
    <3> QED
      BY <3>1, <1>7, <1>t DEF Recv, TypeOK, History
  <2> QED
    BY <2>5, <2>6, <2>7, <1>7, <1>t DEF Recv, TypeOK, mainVars
<1>8. ASSUME NEW w \in Workers, RecvEnds(w) PROVE TypeOK' /\ SentInv'
  <2>1. job' \in [Workers -> Job]
    <3>1. CASE Full(w) /\ job' = [job EXCEPT ![w].pc = "reply"]
      BY <3>1, <1>t, JobOf DEF TypeOK
    <3>2. CASE /\ Peer(w) # NoClient
               /\ job' = [job EXCEPT ![w] =
                    IF EndOf(w, net[Peer(w)].fin) = "idle" THEN Idle
                    ELSE [@ EXCEPT !.pc = EndOf(w, net[Peer(w)].fin), !.src = Peer(w)]]
      <4>1. EndOf(w, net[Peer(w)].fin) \in {"reply", "load", "idle"}
        BY DEF EndOf
      <4>2. CASE EndOf(w, net[Peer(w)].fin) = "idle"
        BY <3>2, <4>2, IdleTyped, <1>t DEF TypeOK
      <4>3. CASE EndOf(w, net[Peer(w)].fin) # "idle"
        <5>1. [job[w] EXCEPT !.pc = EndOf(w, net[Peer(w)].fin), !.src = Peer(w)] \in Job
          <6>1. Peer(w) \in Clients /\ job[w] \in Job
            BY <3>2, <1>t, <1>f DEF TypeOK
          <6> QED
            BY <6>1, <4>1, JobOf
        <5> QED
          BY <5>1, <3>2, <4>3, <1>t DEF TypeOK
      <4> QED
        BY <4>2, <4>3
    <3> QED
      BY <3>1, <3>2, <1>8 DEF RecvEnds
  <2>2. hist' \in History
    <3>1. CASE Peer(w) # NoClient
      BY <3>1, <1>8, <1>t, <1>f DEF RecvEnds, TypeOK, History
    <3>2. CASE Peer(w) = NoClient
      BY <3>2, <1>8, <1>t DEF RecvEnds, TypeOK, History
    <3> QED
      BY <3>1, <3>2
  <2> QED
    BY <2>1, <2>2, <1>8, <1>t DEF RecvEnds, TypeOK, mainVars, SentInv
<1>9. ASSUME NEW w \in Workers, Reply(w) PROVE TypeOK' /\ SentInv'
  <2>1. hist' \in History
    <3>1. (hist.crossed \/ Alone(Peer(w) \notin {NoClient, job[w].src})) \in BOOLEAN
      OBVIOUS
    <3> QED
      BY <3>1, <1>9, <1>t DEF Reply, TypeOK, History
  <2> QED
    BY <2>1, <1>9, IdleTyped, <1>t DEF Reply, TypeOK, mainVars, SentInv
<1>10. ASSUME NEW w \in Workers, Load(w) PROVE TypeOK' /\ SentInv'
  <2>1. [job[w] EXCEPT !.pc = "store", !.tmp = curfds] \in Job
    BY <1>t, JobOf DEF TypeOK
  <2> QED
    BY <2>1, <1>10, <1>t DEF Load, TypeOK, mainVars, SentInv
<1>11. ASSUME NEW w \in Workers, Store(w) PROVE TypeOK' /\ SentInv'
  <2>1. hist' \in History
    <3>1. (hist.raced \/ Alone(curfds # job[w].tmp)) \in BOOLEAN
      OBVIOUS
    <3> QED
      BY <3>1, <1>11, <1>t DEF Store, TypeOK, History
  <2>2. job' \in [Workers -> Job]
    <3>1. [job[w] EXCEPT !.pc = "shut", !.tmp = 0] \in Job
      <4>1. job[w] \in Job /\ 0 \in Int /\ "shut" \in {"idle", "recv", "reply", "load", "store", "shut"}
        BY <1>t DEF TypeOK
      <4> QED
        BY <4>1, JobOf
    <3> QED
      BY <3>1, <1>11, <1>t DEF Store, TypeOK
  <2>3. curfds' \in Int
    BY <1>11, <1>f DEF Store
  <2> QED
    BY <2>1, <2>2, <2>3, <1>11, <1>t DEF Store, TypeOK, mainVars, SentInv
<1>12. ASSUME NEW w \in Workers, Shut(w) PROVE TypeOK' /\ SentInv'
  <2>1. CASE Peer(w) = NoClient
    BY <2>1, <1>12, IdleTyped, <1>t DEF Shut, TypeOK, mainVars, SentInv
  <2>2. CASE Peer(w) # NoClient
    <3>1. net' \in [Clients -> Conn]
          /\ SentInv'
      <4>1. net' = [net EXCEPT ![Peer(w)] = [net[Peer(w)] EXCEPT !.st = "gone"]]
            /\ Peer(w) \in Clients
        BY <2>2, <1>12, <1>f DEF Shut
      <4>2. [net[Peer(w)] EXCEPT !.st = "gone"] \in Conn
        BY <4>1, <1>t, ConnOf DEF TypeOK, St
      <4> QED
        BY <4>1, <4>2, <1>t, NetSet DEF SentInv, TypeOK, Conn
    <3>2. hist' \in History
      <4>1. (hist.stray \/ Alone(Peer(w) # job[w].src)) \in BOOLEAN
        OBVIOUS
      <4> QED
        BY <4>1, <2>2, <1>12, <1>t DEF Shut, TypeOK, History
    <3>3. file' \in [Fds -> Clients \cup {NoClient}] /\ ready' \subseteq Clients \cup {Listener}
      BY <2>2, <1>12, <1>t DEF Shut, TypeOK
    <3> QED
      BY <3>1, <3>2, <3>3, <1>12, IdleTyped, <1>t DEF Shut, TypeOK, mainVars
  <2> QED
    BY <2>1, <2>2
<1>13. ASSUME NEW c \in Clients, Connect(c) PROVE TypeOK' /\ SentInv'
  <2>1. net' \in [Clients -> Conn]
        /\ SentInv'
    <3>1. net' = [net EXCEPT ![c] = [net[c] EXCEPT !.st = "queued"]]
      BY <1>13 DEF Connect
    <3>2. [net[c] EXCEPT !.st = "queued"] \in Conn
      BY <1>t, ConnOf DEF TypeOK, St
    <3> QED
      BY <3>1, <3>2, <1>t, NetSet DEF SentInv, TypeOK, Conn
  <2>2. queue' \in Seq(Clients)
    BY <1>13, <1>t DEF Connect, TypeOK
  <2>3. hist' \in History
    <3>1. (hist.merged \/ Listener \in ready \/ queue # <<>>) \in BOOLEAN
      OBVIOUS
    <3> QED
      BY <3>1, <1>13, <1>t DEF Connect, TypeOK, History
  <2> QED
    BY <2>1, <2>2, <2>3, <1>13, <1>t DEF Connect, TypeOK, mainVars
<1>14. ASSUME NEW c \in Clients, ClientSend(c) PROVE TypeOK' /\ SentInv'
  <2>1. net[c].data + 1 \in 0 .. MaxSend /\ net[c].left - 1 \in 0 .. MaxSend
    BY <1>14, <1>t, <1>f DEF ClientSend, SentInv
  <2>2. net' \in [Clients -> Conn]
        /\ SentInv'
    <3>1. net' = [net EXCEPT ![c] = [net[c] EXCEPT !.data = net[c].data + 1,
                                                   !.left = net[c].left - 1]]
      BY <1>14 DEF ClientSend
    <3>2. [net[c] EXCEPT !.data = net[c].data + 1, !.left = net[c].left - 1] \in Conn
      BY <2>1, <1>t, ConnOf DEF TypeOK
    <3> QED
      BY <3>1, <3>2, <1>t, <1>f, NetSet, SMTT(20) DEF SentInv, TypeOK, Conn
  <2> QED
    BY <2>2, <1>14, <1>t DEF ClientSend, Edge, TypeOK, mainVars
<1>15. ASSUME NEW c \in Clients, ClientClose(c) PROVE TypeOK' /\ SentInv'
  <2>1. net' \in [Clients -> Conn]
        /\ SentInv'
    <3>1. net' = [net EXCEPT ![c] = [net[c] EXCEPT !.fin = TRUE]]
      BY <1>15 DEF ClientClose
    <3>2. [net[c] EXCEPT !.fin = TRUE] \in Conn
      BY <1>t, ConnOf DEF TypeOK
    <3> QED
      BY <3>1, <3>2, <1>t, NetSet DEF SentInv, TypeOK, Conn
  <2> QED
    BY <2>1, <1>15, <1>t DEF ClientClose, Edge, TypeOK, mainVars
<1>16. CASE UNCHANGED vars
  BY <1>16, <1>t DEF vars, TypeOK, SentInv
<1>17. ASSUME NEW w \in Workers, RecvSpins(w) PROVE UNCHANGED vars
  BY <1>17 DEF RecvSpins
<1> QED
  BY <1>1, <1>2, <1>3, <1>4, <1>5, <1>6, <1>7, <1>8, <1>9, <1>10, <1>11, <1>12, <1>13, <1>14,
     <1>15, <1>16, <1>17 DEF Next, MainStep, WorkerStep

-----------------------------------------------------------------------------
\* Descriptors of the clients that have events or sockets.
LEMMA KnownStep == MulInv /\ [Next]_vars => KnownInv'
<1> SUFFICES ASSUME MulInv, [Next]_vars PROVE KnownInv'
  OBVIOUS
<1> USE MulPortServerAssumption DEF MulPortServerAssumption
<1>t. TypeOK /\ KnownInv
  BY DEF MulInv
<1>h. ASSUME ready' \subseteq ready, file' = file,
             \A c \in Clients : net'[c].st = net[c].st
      PROVE  KnownInv'
  BY <1>h, <1>t DEF KnownInv
<1>1. CASE EpollWait
  <2>1. ready' \subseteq ready /\ net' = net /\ file' = file
    BY <1>1 DEF EpollWait
  <2> QED
    BY <2>1, <1>h
<1>2. CASE Accept
  <2>1. CASE FreeFds = {}
    <3>1. ready' = ready /\ net' = net /\ file' = file
      BY <2>1, <1>2 DEF Accept
    <3> QED
      BY <3>1, <1>h
  <2>2. CASE FreeFds # {}
    <3>1. PICK f \in FreeFds : file' = [file EXCEPT ![f] = Head(queue)]
      BY <2>2, <1>2 DEF Accept
    <3>2. /\ ready' = ready /\ net' = [net EXCEPT ![Head(queue)].st = "accepted"]
          /\ f \in Fds /\ file[f] = NoClient /\ Head(queue) \in Clients
      BY <2>2, <1>2, <1>t DEF Accept, FreeFds, TypeOK
    <3>3. \A c \in Clients : c # Head(queue) => net'[c].st = net[c].st
      BY <3>2, <1>t DEF TypeOK
    <3>4. file'[f] = Head(queue) /\ \A g \in Fds : g # f => file'[g] = file[g]
      BY <3>1, <3>2, <1>t DEF TypeOK
    <3>5. \A g \in Fds : file[g] \in Clients => file'[g] = file[g]
      BY <3>4, <3>2
    <3> QED
      BY <3>2, <3>3, <3>4, <3>5, <1>t DEF KnownInv
  <2> QED
    BY <2>1, <2>2
<1>3. CASE Register
  <2>1. PICK c \in Clients : /\ net[c].st = "accepted"
                             /\ net' = [net EXCEPT ![c].st = "open"]
                             /\ ready' = ready \cup {c}
    BY <1>3 DEF Register
  <2>2. \A d \in Clients : d # c => net'[d].st = net[d].st
    BY <2>1, <1>t DEF TypeOK
  <2>3. file' = file
    BY <1>3 DEF Register
  <2> QED
    BY <2>1, <2>2, <2>3, <1>t DEF KnownInv
<1>4. ASSUME AddJob \/ Handled PROVE KnownInv'
  BY <1>4, <1>h DEF AddJob, Handled
<1>5. ASSUME NEW w \in Workers, Start(w) \/ RecvEnds(w) \/ Reply(w) \/ Load(w) \/ Store(w)
      PROVE  KnownInv'
  BY <1>5, <1>h DEF Start, RecvEnds, Reply, Load, Store, mainVars
<1>6. ASSUME NEW w \in Workers, Recv(w) PROVE KnownInv'
  <2>1. /\ net' = [net EXCEPT ![Peer(w)].data = @ - Min({Waiting(w), Room(w)})]
        /\ ready' = ready /\ file' = file
    BY <1>6 DEF Recv
  <2>2. \A c \in Clients : net'[c].st = net[c].st
    BY <2>1, <1>t DEF TypeOK, Conn
  <2> QED
    BY <2>1, <2>2, <1>h
<1>7. ASSUME NEW w \in Workers, Shut(w) PROVE KnownInv'
  <2>1. CASE Peer(w) = NoClient
    BY <2>1, <1>7, <1>h DEF Shut
  <2>2. CASE Peer(w) # NoClient
    <3>1. /\ net' = [net EXCEPT ![Peer(w)].st = "gone"]
          /\ file' = [file EXCEPT ![job[w].fd] = NoClient]
          /\ ready' = ready \ {Peer(w)}
      BY <2>2, <1>7 DEF Shut
    <3>2. Peer(w) \in Clients
      BY <2>2, <1>t, Fields
    <3>3. net'[Peer(w)].st = "gone" /\ \A c \in Clients : c # Peer(w) => net'[c].st = net[c].st
      BY <3>1, <3>2, <1>t DEF TypeOK, Conn
    <3>4. \A g \in Fds : file[g] # Peer(w) => file'[g] = file[g]
      BY <3>1, <1>t DEF TypeOK, Peer
    <3> QED
      BY <3>1, <3>3, <3>4, <1>t DEF KnownInv
  <2> QED
    BY <2>1, <2>2
<1>8. ASSUME NEW c \in Clients, Connect(c) PROVE KnownInv'
  <2>1. /\ net' = [net EXCEPT ![c].st = "queued"] /\ file' = file
        /\ ready' = ready \cup {Listener}
    BY <1>8 DEF Connect
  <2>2. net'[c].st = "queued" /\ \A d \in Clients : d # c => net'[d].st = net[d].st
    BY <2>1, <1>t DEF TypeOK, Conn
  <2>3. \A d \in Clients : d \in ready' => d \in ready
    BY <2>1
  <2> QED
    BY <2>1, <2>2, <2>3, <1>t DEF KnownInv
<1>9. ASSUME NEW c \in Clients, ClientSend(c) \/ ClientClose(c) PROVE KnownInv'
  <2>1. \A d \in Clients : net'[d].st = net[d].st
    <3>1. CASE ClientSend(c)
      <4>1. net' = [net EXCEPT ![c] = [net[c] EXCEPT !.data = net[c].data + 1,
                                                     !.left = net[c].left - 1]]
        BY <3>1 DEF ClientSend
      <4> QED
        BY <4>1, <1>t DEF TypeOK, Conn
    <3>2. CASE ClientClose(c)
      <4>1. net' = [net EXCEPT ![c] = [net[c] EXCEPT !.fin = TRUE]]
        BY <3>2 DEF ClientClose
      <4> QED
        BY <4>1, <1>t DEF TypeOK, Conn
    <3> QED
      BY <1>9, <3>1, <3>2
  <2>2. file' = file /\ Edge(c)
    BY <1>9 DEF ClientSend, ClientClose
  <2>3. CASE net[c].st = "open"
    BY <2>1, <2>2, <2>3, <1>t DEF KnownInv, Edge
  <2>4. CASE net[c].st # "open"
    BY <2>1, <2>2, <2>4, <1>h DEF Edge
  <2> QED
    BY <2>3, <2>4
<1>10. ASSUME UNCHANGED vars \/ \E w \in Workers : RecvSpins(w) PROVE KnownInv'
  BY <1>10, <1>h DEF vars, RecvSpins
<1> QED
  BY <1>1, <1>2, <1>3, <1>4, <1>5, <1>6, <1>7, <1>8, <1>9, <1>10 DEF Next, MainStep, WorkerStep

-----------------------------------------------------------------------------
\* Steps that leave every job as it is.
Outside ==
  \/ MainStep
  \/ \E c \in Clients : Connect(c) \/ ClientSend(c) \/ ClientClose(c)
  \/ \E w \in Workers : RecvSpins(w)
  \/ UNCHANGED vars

LEMMA OutsideStep ==
  ASSUME TypeOK, Outside
  PROVE  /\ job' = job
         /\ hist'.overlap = hist.overlap
         /\ hist'.stray = hist.stray /\ hist'.crossed = hist.crossed
         /\ \A f \in Fds : file[f] # NoClient => file'[f] = file[f]
<1>1. CASE EpollWait
  BY <1>1 DEF EpollWait
<1>2. CASE Accept
  <2>1. UNCHANGED <<job, hist>>
    BY <1>2 DEF Accept
  <2>2. CASE FreeFds = {}
    BY <2>1, <2>2, <1>2 DEF Accept
  <2>3. CASE FreeFds # {}
    <3>1. PICK f \in FreeFds : file' = [file EXCEPT ![f] = Head(queue)]
      BY <2>3, <1>2 DEF Accept
    <3> QED
      BY <3>1, <2>1 DEF FreeFds, TypeOK
  <2> QED
    BY <2>2, <2>3
<1>3. CASE Register
  BY <1>3 DEF Register, TypeOK, History
<1>4. CASE AddJob \/ Handled
  BY <1>4 DEF AddJob, Handled
<1>5. ASSUME NEW c \in Clients, Connect(c)
      PROVE  /\ job' = job
             /\ hist'.overlap = hist.overlap
             /\ hist'.stray = hist.stray /\ hist'.crossed = hist.crossed
             /\ file' = file
  BY <1>5 DEF Connect, TypeOK, History
<1>6. ASSUME NEW c \in Clients, ClientSend(c) \/ ClientClose(c)
      PROVE  job' = job /\ hist' = hist /\ file' = file
  BY <1>6 DEF ClientSend, ClientClose
<1>7. CASE UNCHANGED vars \/ \E w \in Workers : RecvSpins(w)
  BY <1>7 DEF vars, RecvSpins
<1> QED
  BY <1>1, <1>2, <1>3, <1>4, <1>5, <1>6, <1>7 DEF Outside, MainStep

\* A step of one worker: its own job changes, and a descriptor is closed by Shut.
LEMMA WorkerChanges ==
  ASSUME TypeOK, NEW w \in Workers,
         Start(w) \/ Recv(w) \/ RecvEnds(w) \/ Reply(w) \/ Load(w) \/ Store(w) \/ Shut(w)
  PROVE  /\ \A v \in Workers : v # w => job'[v] = job[v]
         /\ hist.overlap => hist'.overlap
         /\ ~Shut(w) => file' = file
<1>1. ASSUME Start(w) PROVE (\A v \in Workers : v # w => job'[v] = job[v])
                            /\ (hist.overlap => hist'.overlap) /\ file' = file
  BY <1>1 DEF Start, TypeOK, History, mainVars
<1>2. ASSUME Recv(w) PROVE (\A v \in Workers : v # w => job'[v] = job[v])
                           /\ hist'.overlap = hist.overlap /\ file' = file
  BY <1>2 DEF Recv, TypeOK, History, mainVars
<1>3. ASSUME RecvEnds(w) PROVE (\A v \in Workers : v # w => job'[v] = job[v])
                               /\ hist'.overlap = hist.overlap /\ file' = file
  BY <1>3 DEF RecvEnds, TypeOK, History, mainVars
<1>4. ASSUME Reply(w) PROVE (\A v \in Workers : v # w => job'[v] = job[v])
                            /\ hist'.overlap = hist.overlap /\ file' = file
  BY <1>4 DEF Reply, TypeOK, History, mainVars
<1>5. ASSUME Load(w) \/ Store(w) PROVE (\A v \in Workers : v # w => job'[v] = job[v])
                                       /\ hist'.overlap = hist.overlap /\ file' = file
  BY <1>5 DEF Load, Store, TypeOK, History, mainVars
<1>6. ASSUME Shut(w) PROVE (\A v \in Workers : v # w => job'[v] = job[v])
                           /\ hist'.overlap = hist.overlap
  BY <1>6 DEF Shut, TypeOK, History, mainVars
<1> QED
  BY <1>1, <1>2, <1>3, <1>4, <1>5, <1>6

-----------------------------------------------------------------------------
\* A worker's step keeps ApartInv and PeerInv if its own job does.
LEMMA WorkerKeeps ==
  ASSUME MulInv, ~hist'.overlap, NEW w \in Workers,
         Start(w) \/ Recv(w) \/ RecvEnds(w) \/ Reply(w) \/ Load(w) \/ Store(w) \/ Shut(w),
         \/ job'[w].pc = "idle"
         \/ Busy(w) /\ job'[w].fd = job[w].fd
         \/ \A v \in Workers : Busy(v) => job[v].fd # job'[w].fd,
         job'[w].src # NoClient => Busy(w)' /\ Peer(w)' = job'[w].src,
         job'[w].n > 0 \/ job'[w].pc \in {"reply", "load", "store", "shut"}
           => job'[w].src # NoClient
  PROVE  ApartInv' /\ PeerInv'
<1>1. TypeOK /\ ~hist.overlap
  BY WorkerChanges DEF MulInv
<1>2. \A v \in Workers : v # w => job'[v] = job[v] /\ Busy(v)' = Busy(v)
  BY <1>1, WorkerChanges DEF Busy
<1>3. ApartInv'
  BY <1>1, <1>2 DEF MulInv, ApartInv, Busy
<1>4. ASSUME NEW v \in Workers, v # w, job[v].src # NoClient PROVE Peer(v)' = job[v].src
  <2>1. Busy(v) /\ Peer(v) = job[v].src
    BY <1>1, <1>4 DEF MulInv, PeerInv
  <2>2. CASE ~Shut(w)
    BY <2>1, <2>2, <1>1, <1>2, <1>4, WorkerChanges DEF Peer
  <2>3. CASE Shut(w)
    <3>1. Busy(w)
      BY <2>3 DEF Shut, Busy
    <3>2. job[v].fd # job[w].fd
      BY <3>1, <2>1, <1>1, <1>4 DEF MulInv, ApartInv
    <3>3. job[v].fd \in Fds /\ file'[job[v].fd] = file[job[v].fd]
      BY <3>2, <2>3, <1>1, Fields DEF Shut, TypeOK
    <3> QED
      BY <3>3, <2>1, <1>2, <1>4 DEF Peer
  <2> QED
    BY <2>2, <2>3
<1>5. ASSUME NEW v \in Workers
      PROVE  /\ job'[v].src # NoClient => Busy(v)' /\ Peer(v)' = job'[v].src
             /\ job'[v].n > 0 \/ job'[v].pc \in {"reply", "load", "store", "shut"}
                  => job'[v].src # NoClient
  <2>1. CASE v # w
    <3>1. /\ job[v].src # NoClient => Busy(v)
          /\ job[v].n > 0 \/ job[v].pc \in {"reply", "load", "store", "shut"}
               => job[v].src # NoClient
      BY <1>1 DEF MulInv, PeerInv
    <3> QED
      BY <3>1, <2>1, <1>2, <1>4
  <2>2. CASE v = w
    BY <2>2
  <2> QED
    BY <2>1, <2>2
<1> QED
  BY <1>3, <1>5 DEF PeerInv

\* Jobs stay apart and with their clients, so that none closes another's connection
\* or answers another's client.
LEMMA OwnStep == MulInv /\ [Next]_vars => ApartInv' /\ PeerInv' /\ OwnConnection'
<1> SUFFICES ASSUME MulInv, [Next]_vars, ~hist'.overlap
             PROVE  ApartInv' /\ PeerInv' /\ OwnConnection'
  BY DEF ApartInv, PeerInv, OwnConnection
<1> USE MulPortServerAssumption DEF MulPortServerAssumption
<1>t. TypeOK
  BY DEF MulInv
<1>1. CASE Outside
  <2>1. /\ job' = job /\ ~hist.overlap
        /\ hist'.stray = hist.stray /\ hist'.crossed = hist.crossed
        /\ \A f \in Fds : file[f] # NoClient => file'[f] = file[f]
    BY <1>1, <1>t, OutsideStep
  <2>2. ApartInv' /\ OwnConnection'
    BY <2>1 DEF MulInv, ApartInv, OwnConnection, Busy
  <2>3. ASSUME NEW w \in Workers, job[w].src # NoClient
        PROVE  Busy(w) /\ file'[job[w].fd] = job[w].src
    <3>1. Busy(w) /\ file[job[w].fd] = job[w].src /\ job[w].fd \in Fds
      BY <2>1, <2>3, <1>t, Fields DEF MulInv, PeerInv, Peer
    <3> QED
      BY <3>1, <2>1, <2>3
  <2> QED
    BY <2>1, <2>2, <2>3 DEF MulInv, PeerInv, Peer, Busy
<1>2. ASSUME NEW w \in Workers,
             Start(w) \/ Recv(w) \/ RecvEnds(w) \/ Reply(w) \/ Load(w) \/ Store(w) \/ Shut(w)
      PROVE  ApartInv' /\ PeerInv' /\ OwnConnection'
  <2>1. ~hist.overlap /\ ~hist.stray /\ ~hist.crossed
    BY <1>2, <1>t, WorkerChanges DEF MulInv, OwnConnection
  <2>2. /\ job[w].src # NoClient => Busy(w) /\ Peer(w) = job[w].src
        /\ job[w].n > 0 \/ job[w].pc \in {"reply", "load", "store", "shut"}
             => job[w].src # NoClient
        /\ job[w].n \in 0 .. MaxBuffer
        /\ Peer(w) \in Clients \cup {NoClient} /\ job[w].src \in Clients \cup {NoClient}
    BY <2>1, <1>t, Fields DEF MulInv, PeerInv
  <2>j. job \in [Workers -> Job] /\ hist \in History
    BY <1>t DEF TypeOK
  <2>3. CASE Start(w)
    <3>1. PICK f \in Fds : /\ job' = [job EXCEPT ![w] = [Idle EXCEPT !.pc = "recv", !.fd = f]]
                           /\ hist' = [hist EXCEPT !.overlap =
                                         @ \/ \E v \in Workers : Busy(v) /\ job[v].fd = f]
      BY <2>3 DEF Start
    <3>2. job'[w].fd = f /\ job'[w].pc = "recv" /\ job'[w].src = NoClient /\ job'[w].n = 0
      BY <3>1, <2>j DEF Idle
    <3>3. \A v \in Workers : Busy(v) => job[v].fd # f
      BY <3>1, <2>j DEF History
    <3>4. ApartInv' /\ PeerInv'
      BY <3>2, <3>3, <1>2, WorkerKeeps
    <3> QED
      BY <3>1, <3>4, <2>1, <2>j DEF OwnConnection, History
  <2>4. CASE Recv(w)
    <3> DEFINE k == Min({Waiting(w), Room(w)})
    <3>1. /\ job' = [job EXCEPT ![w] = [job[w] EXCEPT !.n = job[w].n + k, !.src = Peer(w)]]
          /\ job[w].pc = "recv" /\ Peer(w) # NoClient /\ file' = file
          /\ hist'.crossed = (hist.crossed \/ Alone(job[w].src \notin {NoClient, Peer(w)}))
          /\ hist'.stray = hist.stray
      BY <2>4, <2>j DEF Recv, History
    <3> HIDE DEF k
    <3>2. job'[w].pc = "recv" /\ job'[w].fd = job[w].fd /\ job'[w].src = Peer(w)
      BY <3>1, <2>j DEF Job
    <3>3. Peer(w)' = Peer(w) /\ Busy(w) /\ Busy(w)'
      BY <3>1, <3>2 DEF Peer, Busy
    <3>4. ApartInv' /\ PeerInv'
      BY <3>1, <3>2, <3>3, <1>2, WorkerKeeps
    <3> QED
      BY <3>1, <3>4, <2>1, <2>2 DEF OwnConnection, Alone
  <2>5. CASE RecvEnds(w)
    <3>0. job[w].pc = "recv" /\ Busy(w) /\ file' = file
          /\ hist'.stray = hist.stray /\ hist'.crossed = hist.crossed
      BY <2>5, <2>j DEF RecvEnds, Busy, History
    <3>1. CASE Full(w) /\ job' = [job EXCEPT ![w].pc = "reply"]
      <4>1. /\ job'[w].pc = "reply" /\ job'[w].fd = job[w].fd /\ job'[w].n = job[w].n
            /\ job'[w].src = job[w].src /\ Busy(w)' /\ Peer(w)' = Peer(w)
        BY <3>0, <3>1, <2>j DEF Job, Busy, Peer
      <4>2. job[w].src # NoClient
        BY <3>1, <2>2 DEF Full
      <4> QED
        BY <4>1, <4>2, <3>0, <2>1, <2>2, <1>2, WorkerKeeps DEF OwnConnection
    <3>2. CASE /\ Peer(w) # NoClient
               /\ job' = [job EXCEPT ![w] =
                    IF EndOf(w, net[Peer(w)].fin) = "idle" THEN Idle
                    ELSE [@ EXCEPT !.pc = EndOf(w, net[Peer(w)].fin), !.src = Peer(w)]]
      <4>0. EndOf(w, net[Peer(w)].fin) \in {"reply", "load", "idle"}
        BY DEF EndOf
      <4>1. CASE EndOf(w, net[Peer(w)].fin) = "idle"
        <5>1. job'[w] = Idle
          BY <3>2, <4>1, <2>j
        <5> QED
          BY <5>1, IdleTyped, <3>0, <2>1, <1>2, WorkerKeeps DEF OwnConnection
      <4>2. CASE EndOf(w, net[Peer(w)].fin) # "idle"
        <5>1. job'[w] = [job[w] EXCEPT !.pc = EndOf(w, net[Peer(w)].fin), !.src = Peer(w)]
          BY <3>2, <4>2, <2>j
        <5>2. /\ job'[w].pc \in {"reply", "load"} /\ job'[w].fd = job[w].fd
              /\ job'[w].src = Peer(w)
          BY <5>1, <4>0, <4>2, <2>j DEF Job
        <5>3. Busy(w)' /\ Peer(w)' = Peer(w)
          BY <5>2, <3>0 DEF Busy, Peer
        <5> QED
          BY <5>2, <5>3, <3>0, <3>2, <2>1, <1>2, WorkerKeeps DEF OwnConnection
      <4> QED
        BY <4>1, <4>2
    <3> QED
      BY <3>1, <3>2, <2>5 DEF RecvEnds
  <2>6. CASE Reply(w)
    <3>1. /\ job[w].pc = "reply" /\ job'[w] = Idle /\ hist'.stray = hist.stray
          /\ \/ hist'.crossed = hist.crossed
             \/ hist'.crossed = (hist.crossed \/ Alone(Peer(w) \notin {NoClient, job[w].src}))
      BY <2>6, <2>j DEF Reply, History
    <3>2. ApartInv' /\ PeerInv'
      BY <3>1, IdleTyped, <1>2, WorkerKeeps
    <3> QED
      BY <3>1, <3>2, <2>1, <2>2 DEF OwnConnection, Alone
  <2>7. CASE Load(w)
    <3>1. job' = [job EXCEPT ![w] = [job[w] EXCEPT !.pc = "store", !.tmp = curfds]]
          /\ job[w].pc = "load" /\ file' = file /\ hist' = hist
      BY <2>7 DEF Load
    <3>2. /\ job'[w].pc = "store" /\ job'[w].fd = job[w].fd /\ job'[w].src = job[w].src
      BY <3>1, <2>j DEF Job
    <3>3. Busy(w) /\ Busy(w)' /\ Peer(w)' = Peer(w)
      BY <3>1, <3>2 DEF Busy, Peer
    <3> QED
      BY <3>1, <3>2, <3>3, <2>1, <2>2, <1>2, WorkerKeeps DEF OwnConnection
  <2>8. CASE Store(w)
    <3>1. job' = [job EXCEPT ![w] = [job[w] EXCEPT !.pc = "shut", !.tmp = 0]]
          /\ job[w].pc = "store" /\ file' = file
          /\ hist'.stray = hist.stray /\ hist'.crossed = hist.crossed
      BY <2>8, <2>j DEF Store, History
    <3>2. /\ job'[w].pc = "shut" /\ job'[w].fd = job[w].fd /\ job'[w].src = job[w].src
      BY <3>1, <2>j DEF Job
    <3>3. Busy(w) /\ Busy(w)' /\ Peer(w)' = Peer(w)
      BY <3>1, <3>2 DEF Busy, Peer
    <3> QED
      BY <3>1, <3>2, <3>3, <2>1, <2>2, <1>2, WorkerKeeps DEF OwnConnection
  <2>9. CASE Shut(w)
    <3>1. /\ job[w].pc = "shut" /\ job'[w] = Idle /\ hist'.crossed = hist.crossed
          /\ \/ hist'.stray = hist.stray
             \/ hist'.stray = (hist.stray \/ Alone(Peer(w) # job[w].src))
      BY <2>9, <2>j DEF Shut, History
    <3>2. ApartInv' /\ PeerInv'
      BY <3>1, IdleTyped, <1>2, WorkerKeeps
    <3> QED
      BY <3>1, <3>2, <2>1, <2>2 DEF OwnConnection, Alone
  <2> QED
    BY <1>2, <2>3, <2>4, <2>5, <2>6, <2>7, <2>8, <2>9
<1> QED
  BY <1>1, <1>2 DEF Next, WorkerStep, Outside

-----------------------------------------------------------------------------
\* The workers that have counted their connection out and not closed it yet.
Shutting == {w \in Workers : job[w].pc = "shut"}

\* There are no more of them than connections: each has a descriptor of its own,
\* which is open.
LEMMA ShuttingOpen ==
  ASSUME MulInv, ~hist.overlap
  PROVE  /\ IsFiniteSet(Open) /\ IsFiniteSet(Shutting)
         /\ Cardinality(Open) \in Nat /\ Cardinality(Shutting) \in Nat
         /\ Cardinality(Shutting) <= Cardinality(Open)
<1>1. IsFiniteSet(Open)
  <2>1. IsFiniteSet(Fds)
    BY FS_Interval, MulPortServerAssumption DEF Fds, MulPortServerAssumption
  <2> QED
    BY <2>1, FS_Subset DEF Open
<1> DEFINE g == [w \in Shutting |-> job[w].fd]
<1>2. \A w \in Shutting : /\ job[w].fd \in Fds /\ file[job[w].fd] # NoClient /\ Busy(w)
                           /\ w \in Workers
  BY Fields DEF MulInv, PeerInv, Peer, Busy, Shutting
<1>3. g \in [Shutting -> Open]
  BY <1>2 DEF Open
<1>4. \A v, w \in Shutting : g[v] = g[w] => v = w
  BY <1>2 DEF MulInv, ApartInv
<1>5. g \in Injection(Shutting, Open)
  <2> HIDE DEF g
  <2> QED
    BY <1>3, <1>4 DEF Injection, IsInjective
<1>6. IsFiniteSet(Shutting) /\ Cardinality(Shutting) <= Cardinality(Open)
  <2> HIDE DEF g
  <2> QED
    BY <1>1, <1>5, FS_Injection
<1> QED
  BY <1>1, <1>6, FS_CardinalityType

\* The counting is exact as long as no update of curfds undoes another.
LEMMA CountStep == MulInv /\ [Next]_vars => CountExact'
<1> SUFFICES ASSUME MulInv, [Next]_vars, ~hist'.overlap, ~hist'.raced
             PROVE  /\ curfds' = 1 + Cardinality(Open') - Cardinality(Shutting')
                                   - IF mpc' = "store" THEN 1 ELSE 0
                    /\ mpc' # "einval"
  BY DEF CountExact, Shutting
<1>t. TypeOK /\ job \in [Workers -> Job] /\ hist \in History /\ curfds \in Int
  BY DEF MulInv, TypeOK
<1>e. ASSUME ~hist.overlap, ~hist.raced
      PROVE  /\ curfds = 1 + Cardinality(Open) - Cardinality(Shutting)
                            - IF mpc = "store" THEN 1 ELSE 0
             /\ mpc # "einval"
             /\ IsFiniteSet(Open) /\ IsFiniteSet(Shutting)
             /\ Cardinality(Open) \in Nat /\ Cardinality(Shutting) \in Nat
             /\ Cardinality(Shutting) <= Cardinality(Open)
  BY <1>e, ShuttingOpen DEF MulInv, CountExact, Shutting
<1>h. ASSUME ~hist.overlap, ~hist.raced, curfds' = curfds, file' = file,
             \A w \in Workers : job'[w].pc = "shut" <=> job[w].pc = "shut",
             mpc' = "store" <=> mpc = "store", mpc' = "einval" => mpc = "einval"
      PROVE  /\ curfds' = 1 + Cardinality(Open') - Cardinality(Shutting')
                            - IF mpc' = "store" THEN 1 ELSE 0
             /\ mpc' # "einval"
  <2>1. Open' = Open /\ Shutting' = Shutting
    BY <1>h DEF Open, Shutting
  <2> QED
    BY <1>h, <1>e, <2>1
<1>1. CASE EpollWait
  <2>1. /\ hist' = hist /\ curfds' = curfds /\ file' = file /\ job' = job /\ mpc = "wait"
        /\ curfds <= 0 \/ mpc' = "loop"
    BY <1>1 DEF EpollWait
  <2>2. curfds >= 1
    BY <2>1, <1>e
  <2> QED
    BY <2>1, <2>2, <1>h, <1>t
<1>2. CASE Accept
  <2>1. /\ hist' = hist /\ curfds' = curfds /\ job' = job /\ mpc = "loop"
    BY <1>2 DEF Accept
  <2>2. CASE FreeFds = {}
    <3>1. mpc' = "emfile" /\ file' = file
      BY <2>2, <1>2 DEF Accept
    <3> QED
      BY <2>1, <3>1, <1>h
  <2>3. CASE FreeFds # {}
    <3>1. PICK f \in FreeFds : file' = [file EXCEPT ![f] = Head(queue)]
      BY <2>3, <1>2 DEF Accept
    <3>2. mpc' = "store" /\ Head(queue) \in Clients
      BY <2>3, <1>2, <1>t DEF Accept, TypeOK
    <3>3. Open' = Open \cup {f} /\ f \notin Open /\ Shutting' = Shutting
      BY <3>1, <3>2, <2>1, <1>t, MulPortServerAssumption
      DEF Open, FreeFds, Shutting, TypeOK, MulPortServerAssumption
    <3>4. Cardinality(Open') = Cardinality(Open) + 1
      BY <3>3, <2>1, <1>e, FS_AddElement
    <3> QED
      BY <3>2, <3>3, <3>4, <2>1, <1>e
  <2> QED
    BY <2>2, <2>3
<1>3. CASE Register
  <2>1. /\ mpc = "store" /\ mpc' = "loop" /\ curfds' = mtmp + 1 /\ file' = file /\ job' = job
        /\ hist'.overlap = hist.overlap
        /\ hist'.raced = (hist.raced \/ Alone(curfds # mtmp))
    BY <1>3, <1>t DEF Register, History
  <2>2. curfds' = curfds + 1 /\ ~hist.overlap /\ ~hist.raced
    BY <2>1 DEF Alone
  <2>3. Open' = Open /\ Shutting' = Shutting
    BY <2>1 DEF Open, Shutting
  <2> QED
    BY <2>1, <2>2, <2>3, <1>e
<1>4. CASE AddJob \/ Handled
  BY <1>4, <1>h DEF AddJob, Handled
<1>5. ASSUME NEW c \in Clients, Connect(c) \/ ClientSend(c) \/ ClientClose(c)
      PROVE  /\ hist'.overlap = hist.overlap /\ hist'.raced = hist.raced
             /\ curfds' = curfds /\ file' = file /\ job' = job /\ mpc' = mpc
  BY <1>5, <1>t DEF Connect, ClientSend, ClientClose, History, mainVars
<1>6. ASSUME NEW w \in Workers, Start(w) \/ Recv(w) \/ RecvEnds(w) \/ Reply(w) \/ Load(w)
      PROVE  /\ curfds' = curfds /\ file' = file /\ mpc' = mpc /\ hist'.raced = hist.raced
             /\ \A v \in Workers : job'[v].pc = "shut" <=> job[v].pc = "shut"
             /\ hist'.overlap = hist.overlap \/ Start(w)
  <2>0. job[w] \in Job
    BY <1>t
  <2>1. CASE Start(w)
    <3>1. PICK f \in Fds : job' = [job EXCEPT ![w] = [Idle EXCEPT !.pc = "recv", !.fd = f]]
      BY <2>1 DEF Start
    <3>2. job'[w].pc = "recv" /\ job[w].pc = "idle"
      BY <3>1, <2>1, <1>t DEF Start, Busy, Idle
    <3> QED
      BY <3>1, <3>2, <2>1, <1>t DEF Start, mainVars, History
  <2>2. CASE Recv(w)
    <3>1. job'[w].pc = "recv" /\ job[w].pc = "recv"
      BY <2>2, <1>t, <2>0 DEF Recv, Job
    <3> QED
      BY <3>1, <2>2, <1>t, WorkerChanges DEF Recv, mainVars, History
  <2>3. CASE RecvEnds(w)
    <3>1. job'[w].pc \in {"reply", "load", "idle"} /\ job[w].pc = "recv"
      <4>1. CASE job' = [job EXCEPT ![w].pc = "reply"]
        BY <2>3, <4>1, <1>t, <2>0 DEF RecvEnds, Job
      <4>2. CASE job' = [job EXCEPT ![w] =
                    IF EndOf(w, net[Peer(w)].fin) = "idle" THEN Idle
                    ELSE [@ EXCEPT !.pc = EndOf(w, net[Peer(w)].fin), !.src = Peer(w)]]
        <5>1. EndOf(w, net[Peer(w)].fin) \in {"reply", "load", "idle"}
          BY DEF EndOf
        <5>2. job'[w] = IF EndOf(w, net[Peer(w)].fin) = "idle" THEN Idle
                        ELSE [job[w] EXCEPT !.pc = EndOf(w, net[Peer(w)].fin), !.src = Peer(w)]
          BY <4>2, <1>t
        <5> QED
          BY <5>1, <5>2, <2>3, <2>0, IdleTyped DEF RecvEnds, Job
      <4> QED
        BY <4>1, <4>2, <2>3 DEF RecvEnds
    <3> QED
      BY <3>1, <2>3, <1>t, WorkerChanges DEF RecvEnds, mainVars, History
  <2>4. CASE Reply(w)
    <3>1. job'[w].pc = "idle" /\ job[w].pc = "reply"
      BY <2>4, <1>t, IdleTyped DEF Reply
    <3> QED
      BY <3>1, <2>4, <1>t, WorkerChanges DEF Reply, mainVars, History
  <2>5. CASE Load(w)
    <3>1. job'[w].pc = "store" /\ job[w].pc = "load"
      BY <2>5, <1>t, <2>0 DEF Load, Job
    <3> QED
      BY <3>1, <2>5, <1>t, WorkerChanges DEF Load, mainVars
  <2> QED
    BY <1>6, <2>1, <2>2, <2>3, <2>4, <2>5
<1>7. ASSUME NEW w \in Workers, Store(w)
      PROVE  /\ curfds' = 1 + Cardinality(Open') - Cardinality(Shutting')
                            - IF mpc' = "store" THEN 1 ELSE 0
             /\ mpc' # "einval"
  <2>1. /\ job' = [job EXCEPT ![w] = [job[w] EXCEPT !.pc = "shut", !.tmp = 0]]
        /\ job[w].pc = "store" /\ curfds' = job[w].tmp - 1 /\ file' = file /\ mpc' = mpc
        /\ hist'.overlap = hist.overlap
        /\ hist'.raced = (hist.raced \/ Alone(curfds # job[w].tmp))
    BY <1>7, <1>t DEF Store, History, mainVars
  <2>2. curfds' = curfds - 1 /\ ~hist.overlap /\ ~hist.raced
    BY <2>1 DEF Alone
  <2>3. Open' = Open /\ Shutting' = Shutting \cup {w} /\ w \notin Shutting
    <3>1. job'[w].pc = "shut" /\ \A v \in Workers : v # w => job'[v] = job[v]
      BY <2>1, <1>t DEF Job
    <3> QED
      BY <3>1, <2>1 DEF Open, Shutting
  <2>4. Cardinality(Shutting') = Cardinality(Shutting) + 1
    BY <2>3, <2>2, <1>e, FS_AddElement
  <2> QED
    BY <2>1, <2>2, <2>3, <2>4, <1>e
<1>8. ASSUME NEW w \in Workers, Shut(w)
      PROVE  /\ curfds' = 1 + Cardinality(Open') - Cardinality(Shutting')
                            - IF mpc' = "store" THEN 1 ELSE 0
             /\ mpc' # "einval"
  <2>1. /\ job[w].pc = "shut" /\ job' = [job EXCEPT ![w] = Idle]
        /\ curfds' = curfds /\ mpc' = mpc
        /\ hist'.overlap = hist.overlap /\ hist'.raced = hist.raced
    BY <1>8, <1>t DEF Shut, History, mainVars
  <2>2. job[w].fd \in Fds /\ Peer(w) # NoClient
    BY <2>1, <1>t, Fields DEF MulInv, PeerInv
  <2>3. file' = [file EXCEPT ![job[w].fd] = NoClient]
    BY <2>2, <1>8 DEF Shut
  <2>4. Open' = Open \ {job[w].fd} /\ job[w].fd \in Open
    BY <2>2, <2>3, <1>t DEF Open, Peer, TypeOK
  <2>5. Shutting' = Shutting \ {w} /\ w \in Shutting
    BY <2>1, <1>t, IdleTyped DEF Shutting
  <2>6. /\ Cardinality(Open') = Cardinality(Open) - 1
        /\ Cardinality(Shutting') = Cardinality(Shutting) - 1
    BY <2>1, <2>4, <2>5, <1>e, FS_RemoveElement
  <2> QED
    BY <2>1, <2>6, <1>e
<1>9. CASE UNCHANGED vars \/ \E w \in Workers : RecvSpins(w)
  BY <1>9, <1>h DEF vars, RecvSpins
<1>10. ASSUME NEW w \in Workers, Start(w) \/ Recv(w) \/ RecvEnds(w) \/ Reply(w) \/ Load(w)
       PROVE  /\ curfds' = 1 + Cardinality(Open') - Cardinality(Shutting')
                             - IF mpc' = "store" THEN 1 ELSE 0
              /\ mpc' # "einval"
  <2>1. ~hist.overlap /\ ~hist.raced
    BY <1>6, <1>10, <1>t, WorkerChanges
  <2> QED
    BY <2>1, <1>6, <1>10, <1>h
<1>11. ASSUME NEW c \in Clients, Connect(c) \/ ClientSend(c) \/ ClientClose(c)
       PROVE  /\ curfds' = 1 + Cardinality(Open') - Cardinality(Shutting')
                             - IF mpc' = "store" THEN 1 ELSE 0
              /\ mpc' # "einval"
  BY <1>5, <1>11, <1>h
<1> QED
  BY <1>1, <1>2, <1>3, <1>4, <1>7, <1>8, <1>9, <1>10, <1>11 DEF Next, MainStep, WorkerStep

-----------------------------------------------------------------------------
LEMMA MulInit == Init => MulInv
<1> SUFFICES ASSUME Init PROVE MulInv
  OBVIOUS
<1> USE MulPortServerAssumption DEF MulPortServerAssumption
<1>1. TypeOK
  BY IdleTyped DEF Init, TypeOK, Conn, History, St
<1>2. SentInv /\ KnownInv
  BY DEF Init, SentInv, KnownInv
<1>3. ApartInv /\ PeerInv /\ OwnConnection
  BY IdleTyped DEF Init, ApartInv, PeerInv, OwnConnection, Busy
<1>4. CountExact
  <2>1. Open = {} /\ {w \in Workers : job[w].pc = "shut"} = {}
    BY IdleTyped DEF Init, Open
  <2> QED
    <3>1. Cardinality({}) = 0
      BY FS_EmptySet
    <3>2. curfds = 1 /\ mpc = "wait"
      BY DEF Init
    <3>3. Cardinality(Open) = 0 /\ Cardinality(Shutting) = 0
      BY <2>1, <3>1, Zenon DEF Shutting
    <3>4. 1 = 1 + Cardinality(Open) - Cardinality(Shutting) - IF mpc = "store" THEN 1 ELSE 0
      BY <3>2, <3>3
    <3> QED
      BY <3>2, <3>4, Zenon DEF CountExact, Shutting
<1> QED
  BY <1>1, <1>2, <1>3, <1>4 DEF MulInv

\* The epoll server keeps MulInv, its types with it, for any number of clients,
\* workers and descriptors and any size of the buffer.
THEOREM ServerInvariant == Spec => []MulInv
<1>1. MulInv /\ [Next]_vars => MulInv'
  BY TypeStep, KnownStep, OwnStep, CountStep DEF MulInv
<1> QED
  BY <1>1, MulInit, PTL DEF Spec

\* Until two jobs meet on a descriptor, client_job closes only the connection whose
\* end it has read and answers only the client whose data it has read.
THEOREM JobsOwnConnection == Spec => []OwnConnection
<1>1. MulInv => OwnConnection
  BY DEF MulInv
<1> QED
  BY <1>1, ServerInvariant, PTL

\* Until two jobs meet on a descriptor or two updates of curfds collide, curfds counts
\* the connections, and main never calls epoll_wait for no events.
THEOREM CurfdsExact == Spec => []CountExact
<1>1. MulInv => CountExact
  BY DEF MulInv
<1> QED
  BY <1>1, ServerInvariant, PTL
=============================================================================
