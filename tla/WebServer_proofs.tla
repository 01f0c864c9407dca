-------------------------- MODULE WebServer_proofs --------------------------
(***************************************************************************)
(* Proofs about the thread servers for any number of clients, descriptors  *)
(* and thread ids: a thread keeps to the socket of its own client, and     *)
(* vthid has the threads that are registered.                              *)
(***************************************************************************)
EXTENDS WebServer, TLAPS

\* The rest of the sequence when one element is taken out.
LEMMA OneTakenOut ==
  ASSUME NEW S, NEW s \in Seq(S), NEW i \in 1 .. Len(s)
  PROVE  /\ RemoveAt(s, i) \in Seq(S)
         /\ Len(RemoveAt(s, i)) = Len(s) - 1
         /\ \A j \in 1 .. Len(s) - 1 : RemoveAt(s, i)[j] = IF j < i THEN s[j] ELSE s[j + 1]
<1> DEFINE before == SubSeq(s, 1, i - 1)
           after == SubSeq(s, i + 1, Len(s))
<1>1. before \in Seq(S) /\ Len(before) = i - 1 /\ \A j \in 1 .. i - 1 : before[j] = s[j]
  OBVIOUS
<1>2. after \in Seq(S) /\ Len(after) = Len(s) - i /\ \A j \in 1 .. Len(s) - i : after[j] = s[i + j]
  OBVIOUS
<1> HIDE DEF before, after
<1>3. before \o after \in Seq(S) /\ Len(before \o after) = Len(s) - 1
  BY <1>1, <1>2
<1>4. ASSUME NEW j \in 1 .. Len(s) - 1
      PROVE  (before \o after)[j] = IF j < i THEN s[j] ELSE s[j + 1]
  <2>1. CASE j < i
    BY <1>1, <1>2, <2>1
  <2>2. CASE j >= i
    <3>1. (before \o after)[j] = after[j - (i - 1)]
      BY <1>1, <1>2, <2>2
    <3>2. j - (i - 1) \in 1 .. Len(s) - i /\ i + (j - (i - 1)) = j + 1
      BY <2>2
    <3> QED
      BY <1>2, <2>2, <3>1, <3>2
  <2>3. j < i \/ j >= i
    OBVIOUS
  <2> QED
    BY <2>1, <2>2, <2>3
<1> QED
  BY <1>3, <1>4 DEF RemoveAt, before, after

-----------------------------------------------------------------------------
\* What main is about to do with a client: its descriptor and its thread's id.
MainOK ==
  /\ mpc \in {"create", "register", "push"} => client \in Clients /\ m_connfd \in Fds
  /\ mpc \in {"register", "push"} => thid \in Handles

TypeInv == TypeOK /\ MainOK

LEMMA Places1 ==
  {"read", "reply", "conn", "login", "exec", "free", "refuse", "shut", "find", "erase", "none",
   "close", "lock", "held"} = Places
BY DEF Places, Work

LEMMA Records == NoThread \in Threads /\ Gone \in Links
<1>1. NoThread \in Threads
  BY Places1 DEF NoThread, Threads
<1>2. Gone \in Links
  BY WebServerAssumption DEF Gone, Links
<1> QED
  BY <1>1, <1>2

LEMMA TypeInit == Init => TypeInv
<1> SUFFICES ASSUME Init PROVE TypeInv
  OBVIOUS
<1>1. net \in [Clients -> Links]
  BY WebServerAssumption DEF Init, Links
<1>2. th \in [Clients -> Threads]
  BY Records DEF Init
<1>3. mutex \in [ConnIdx -> Clients \cup {Nobody}] /\ file \in [Fds -> Clients \cup {Nobody}]
  BY DEF Init
<1>4. queue \in Seq(Clients) /\ vthid \in Seq(Handles)
  BY DEF Init
<1> QED
  BY <1>1, <1>2, <1>3, <1>4 DEF Init, TypeInv, TypeOK, MainOK, Loop

LEMMA TypeClient ==
  ASSUME TypeInv, NEW c \in Clients, ClientStep(c) PROVE TypeInv'
<1> USE DEF TypeInv
<1>1. net' \in [Clients -> Links]
  <2>1. CASE Connect(c)
    BY <2>1 DEF TypeOK, Connect, Links
  <2>2. CASE ClientSend(c)
    <3>1. net[c].asked + 1 \in 0 .. MaxAsk
      BY <2>2, WebServerAssumption DEF TypeOK, Links, ClientSend
    <3> QED
      BY <2>2, <3>1, SMTT(20) DEF TypeOK, ClientSend, Links
  <2>3. CASE ClientStalls(c)
    BY <2>3 DEF TypeOK, ClientStalls, Links
  <2>4. CASE ClientLeaves(c)
    BY <2>4, ZenonT(40) DEF TypeOK, ClientLeaves, Links
  <2> QED
    BY <2>1, <2>2, <2>3, <2>4 DEF ClientStep
<1>2. queue' \in Seq(Clients)
  <2>1. queue \in Seq(Clients) /\ Append(queue, c) \in Seq(Clients)
    BY DEF TypeOK
  <2> QED
    BY <2>1 DEF ClientStep, Connect, ClientSend, ClientStalls, ClientLeaves
<1> QED
  BY <1>1, <1>2 DEF ClientStep, TypeOK, MainOK, main, history

LEMMA TypeMain == TypeInv /\ (MainStep \/ Signal) => TypeInv'
<1> SUFFICES ASSUME TypeInv, MainStep \/ Signal PROVE TypeInv'
  OBVIOUS
<1> USE DEF TypeInv, TypeOK, MainOK, history, Loop
<1>1. CASE Accept
  <2>1. CASE queue # <<>> /\ mpc' = "create"
    <3>1. Head(queue) \in Clients /\ Tail(queue) \in Seq(Clients)
      BY <2>1
    <3>2. net' \in [Clients -> Links]
      <4>1. \A h \in Clients : [net EXCEPT ![h].st = "open"] \in [Clients -> Links]
        BY DEF Links
      <4> QED
        BY <1>1, <2>1, <3>1, <4>1 DEF Accept
    <3>3. file' \in [Fds -> Clients \cup {Nobody}] /\ m_connfd' \in Fds
      BY <1>1, <2>1, <3>1 DEF Accept, Free
    <3> QED
      BY <1>1, <2>1, <3>1, <3>2, <3>3 DEF Accept
  <2> QED
    BY <1>1, <2>1 DEF Accept
<1>2. CASE Create
  <2>1. th' \in [Clients -> Threads]
    <3>1. \A id \in Handles : [NoThread EXCEPT !.pc = "read", !.id = id, !.fd = m_connfd] \in Threads
      BY Places1 DEF NoThread, Threads
    <3> QED
      BY <1>2, <3>1 DEF Create
  <2> QED
    BY <1>2, <2>1 DEF Create
<1>3. CASE Register
  BY <1>3 DEF Register
<1>4. CASE Push
  <2>1. client \in Clients /\ thid \in Handles /\ Alive(client) \in BOOLEAN
    BY <1>4 DEF Push, Alive
  <2>2. th' \in [Clients -> Threads]
    BY <1>4, <2>1, ZenonT(40) DEF Push, Threads
  <2>3. vthid' \in Seq(Handles)
    BY <1>4, <2>1 DEF Push
  <2> QED
    BY <1>4, <2>2, <2>3 DEF Push
<1>5. CASE Lock
  BY <1>5 DEF Lock
<1>6. ASSUME ProcessEnds, UNCHANGED <<prog, client, m_connfd, thid, listening, history>>
      PROVE  TypeInv'
  BY <1>6, Records DEF ProcessEnds
<1>7. CASE Cancel
  <2>1. CASE ProcessEnds
    BY <1>6, <1>7, <2>1 DEF Cancel
  <2>2. CASE ~ProcessEnds
    <3>1. \A t \in Threads, b \in BOOLEAN : [t EXCEPT !.cancel = t.cancel \/ b] \in Threads
      BY DEF Threads
    <3>2. th' \in [Clients -> Threads]
      BY <1>7, <2>2, <3>1, ZenonT(40) DEF Cancel
    <3> QED
      BY <1>7, <2>2, <3>2 DEF Cancel
  <2> QED
    BY <2>1, <2>2
<1>8. CASE Unlock
  BY <1>8 DEF Unlock
<1>9. CASE Exit
  BY <1>6, <1>9 DEF Exit
<1>10. CASE Signal
  BY <1>10 DEF Signal
<1> QED
  BY <1>1, <1>2, <1>3, <1>4, <1>5, <1>7, <1>8, <1>9, <1>10 DEF MainStep

LEMMA TypeThread ==
  ASSUME TypeInv, NEW c \in Clients, ThreadStep(c) PROVE TypeInv'
<1> USE DEF history, TypeInv
<1>1. /\ net \in [Clients -> Links] /\ th \in [Clients -> Threads]
      /\ file \in [Fds -> Clients \cup {Nobody}] /\ mutex \in [ConnIdx -> Clients \cup {Nobody}]
      /\ fast \in BOOLEAN /\ again \in BOOLEAN
  BY DEF TypeOK
<1>2. MainOK'
  BY DEF ThreadStep, MainOK, main
<1>16. ASSUME NEW p \in Places, NEW b \in BOOLEAN, th' = [th EXCEPT ![c].pc = p, ![c].exiting = b]
       PROVE  th' \in [Clients -> Threads]
  BY <1>1, <1>16, ZenonT(40) DEF Threads
<1>3. Quit(c) => th' \in [Clients -> Threads]
  <2>1. CASE prog = "demo20"
    BY <1>16, <2>1, Places1 DEF Quit
  <2>2. CASE prog # "demo20"
    BY <1>16, <2>2, Places1 DEF Quit
  <2> QED
    BY <2>1, <2>2
<1>4. ASSUME NEW p \in Places, Goes(c, p) PROVE th' \in [Clients -> Threads]
  BY <1>1, <1>4 DEF Goes, Threads
<1>5. Refuse(c) => th' \in [Clients -> Threads]
  BY <1>1, <1>3, <1>4, Places1 DEF Refuse
<1>6. CASE Read(c)
  <2>1. net' \in [Clients -> Links]
    <3>1. \A x \in Clients : [net EXCEPT ![x].req = FALSE] \in [Clients -> Links]
      BY <1>1 DEF Links
    <3>2. CASE Peer(c) \in Clients
      BY <1>1, <1>6, <3>1, <3>2 DEF Read
    <3>3. CASE Peer(c) \notin Clients
      BY <1>1, <1>6, <3>3 DEF Read
    <3> QED
      BY <3>2, <3>3
  <2>2. th' \in [Clients -> Threads]
    <3>1. 1 \in ConnIdx
      BY WebServerAssumption DEF ConnIdx
    <3>2. \A p \in Places, i \in ConnIdx : [th EXCEPT ![c].pc = p, ![c].at = i] \in [Clients -> Threads]
      BY <1>1, ZenonT(40) DEF Threads
    <3>3. th' = [th EXCEPT ![c].pc = "conn", ![c].at = 1] => th' \in [Clients -> Threads]
      BY <3>1, <3>2, Places1
    <3> QED
      BY <1>3, <1>4, <1>6, <3>3, Places1 DEF Read
  <2> QED
    BY <1>2, <1>6, <2>1, <2>2 DEF ThreadStep, TypeOK, main, Read
<1>7. CASE Reply(c)
  <2>1. th' \in [Clients -> Threads]
    BY <1>1, <1>3, <1>4, <1>7, Places1 DEF Reply
  <2> QED
    BY <1>2, <1>7, <2>1 DEF ThreadStep, TypeOK, main, Reply
<1>8. CASE Getconns(c)
  <2>1. (th[c].at % MaxConns) + 1 \in ConnIdx
    BY <1>1, WebServerAssumption DEF ConnIdx, Threads
  <2>2. th' \in [Clients -> Threads]
    BY <1>1, <1>3, <1>4, <1>8, <2>1, Places1 DEF Getconns, Threads
  <2>3. mutex' \in [ConnIdx -> Clients \cup {Nobody}]
    BY <1>1, <1>8 DEF Getconns
  <2> QED
    BY <1>2, <1>8, <2>2, <2>3 DEF ThreadStep, TypeOK, main, Getconns
<1>9. CASE Login(c)
  <2>1. th' \in [Clients -> Threads]
    BY <1>1, <1>4, <1>5, <1>9, Places1 DEF Login
  <2> QED
    BY <1>2, <1>9, <2>1 DEF ThreadStep, TypeOK, main, Login
<1>10. CASE ExecSQL(c)
  <2>1. th' \in [Clients -> Threads]
    BY <1>1, <1>4, <1>5, <1>10, Places1 DEF ExecSQL
  <2> QED
    BY <1>2, <1>10, <2>1 DEF ThreadStep, TypeOK, main, ExecSQL
<1>11. CASE Freeconns(c)
  <2>1. th' \in [Clients -> Threads]
    <3>1. CASE th[c].pc = "free"
      BY <1>11, <1>16, <3>1, Places1 DEF Freeconns
    <3>2. CASE th[c].pc = "refuse"
      BY <1>11, <1>16, <3>2, Places1 DEF Freeconns
    <3> QED
      BY <1>11, <3>1, <3>2 DEF Freeconns
  <2>2. mutex' \in [ConnIdx -> Clients \cup {Nobody}]
    BY <1>1, <1>11 DEF Freeconns, Returned
  <2> QED
    BY <1>2, <1>11, <2>1, <2>2 DEF ThreadStep, TypeOK, main, Freeconns
<1>12. CASE Close(c)
  <2>1. th' \in [Clients -> Threads]
    BY <1>1, <1>12, Records, Places1 DEF Close, After, Threads
  <2>2. net' \in [Clients -> Links]
    BY <1>1, <1>12, Records DEF Close
  <2>3. file' \in [Fds -> Clients \cup {Nobody}]
    BY <1>1, <1>12 DEF Close
  <2>4. again' \in BOOLEAN
    BY <1>12 DEF Close
  <2> QED
    BY <1>2, <1>12, <2>1, <2>2, <2>3, <2>4 DEF ThreadStep, TypeOK, main, Close
<1>13. CASE LockIds(c)
  <2>1. th' \in [Clients -> Threads]
    BY <1>1, <1>4, <1>13, Places1 DEF LockIds
  <2> QED
    BY <1>2, <1>13, <2>1 DEF ThreadStep, TypeOK, main, LockIds
<1>14. CASE EraseId(c)
  <2>1. th' \in [Clients -> Threads]
    BY <1>1, <1>14, Records, Places1 DEF EraseId, Threads
  <2>2. vthid' \in Seq(Handles)
    <3>1. vthid \in Seq(Handles) /\ Found(c) \subseteq 1 .. Len(vthid)
      BY DEF TypeOK, Found
    <3>2. \A i \in Found(c) : RemoveAt(vthid, i) \in Seq(Handles)
      BY <3>1, OneTakenOut
    <3> QED
      BY <1>14, <3>1, <3>2 DEF EraseId
  <2>3. fast' \in BOOLEAN
    BY <1>14 DEF EraseId
  <2> QED
    BY <1>2, <1>14, <2>1, <2>2, <2>3 DEF ThreadStep, TypeOK, main, EraseId, Unlocked
<1>15. CASE Cancelled(c)
  <2>1. th' \in [Clients -> Threads]
    <3>1. [th[c] EXCEPT !.pc = "close", !.exiting = TRUE] \in Threads
      BY <1>1, Places1, ZenonT(40) DEF Threads
    <3> QED
      BY <1>1, <1>15, <3>1, Records DEF Cancelled
  <2> QED
    BY <1>2, <1>15, <2>1 DEF ThreadStep, TypeOK, main, Cancelled
<1> QED
  BY <1>6, <1>7, <1>8, <1>9, <1>10, <1>11, <1>12, <1>13, <1>14, <1>15 DEF ThreadStep

\* Types, and what main holds while it deals with a client.
THEOREM TypeCorrect == Spec => []TypeInv
<1>1. TypeInv /\ UNCHANGED vars => TypeInv'
  BY DEF TypeInv, TypeOK, MainOK, vars, main, history
<1>2. TypeInv /\ [Next]_vars => TypeInv'
  BY <1>1, TypeClient, TypeMain, TypeThread DEF Next
<1> QED
  BY <1>2, TypeInit, PTL DEF Spec

-----------------------------------------------------------------------------
\* Which places the threads of each program reach.
Kinds ==
  \A c \in Clients :
    /\ prog = "demo20" => th[c].pc \in {"none", "read", "reply", "shut", "find", "erase", "close"}
    /\ prog # "demo20" => th[c].pc \notin {"reply", "shut", "find", "erase"}

\* A client in the queue is there once and has no descriptor and no thread yet.
QueueOK ==
  /\ \A i, k \in 1 .. Len(queue) : queue[i] = queue[k] => i = k
  /\ \A i \in 1 .. Len(queue) : net[queue[i]].st = "queued"
Unserved ==
  \A c \in Clients : net[c].st \in {"new", "queued"} =>
    /\ ~Alive(c) /\ \A f \in Fds : file[f] # c
    /\ mpc = "create" => client # c

\* The client whose thread is to be created owns the descriptor of accept.
Handed == mpc = "create" => ~Alive(client) /\ (~again => file[m_connfd] = client)

HasFd == \A c \in Clients : Alive(c) => th[c].fd \in Fds
OwnInv == TypeInv /\ Kinds /\ QueueOK /\ Unserved /\ Handed /\ HasFd /\ OwnSocket


\* A thread between its creation and the close of its descriptor.
Holds(c) == th[c].pc \in Work \ {"find", "erase"} \/ (th[c].pc = "close" /\ prog # "demo20")

LEMMA OwnHolds == OwnSocket <=> (~again => \A c \in Clients : Holds(c) => Peer(c) = c)
BY DEF OwnSocket, Holds

\* What every step of a thread but Close does to the records of the threads.
LEMMA ThreadMoves ==
  ASSUME TypeInv, Kinds, NEW c \in Clients, ThreadStep(c), ~Close(c)
  PROVE  /\ \A d \in Clients \ {c} : th'[d] = th[d]
         /\ Alive(c)' => th'[c].fd = th[c].fd
         /\ Holds(c)' => Holds(c)
         /\ prog = "demo20" => th'[c].pc \in {"none", "read", "reply", "shut", "find", "erase", "close"}
         /\ prog # "demo20" => th'[c].pc \notin {"reply", "shut", "find", "erase"}
<1>1. th \in [Clients -> Threads] /\ Alive(c) /\ prog' = prog /\ prog \in {"demo20", "bus", "pool"}
  BY DEF TypeInv, TypeOK, ThreadStep
<1>2. /\ prog = "demo20" => th[c].pc \in {"none", "read", "reply", "shut", "find", "erase", "close"}
      /\ prog # "demo20" => th[c].pc \notin {"reply", "shut", "find", "erase"}
  BY DEF Kinds
<1> USE <1>1, <1>2 DEF Holds, Work, Alive, Goes, Quit, NoThread, Threads
<1>3. CASE Read(c)
  BY <1>3 DEF Read
<1>4. CASE Reply(c)
  BY <1>4 DEF Reply
<1>5. CASE Getconns(c)
  BY <1>5 DEF Getconns
<1>6. CASE Login(c)
  BY <1>6 DEF Login, Refuse
<1>7. CASE ExecSQL(c)
  BY <1>7 DEF ExecSQL, Refuse
<1>8. CASE Freeconns(c)
  BY <1>8 DEF Freeconns
<1>9. CASE LockIds(c)
  BY <1>9 DEF LockIds
<1>10. CASE EraseId(c)
  BY <1>10 DEF EraseId
<1>11. CASE Cancelled(c)
  BY <1>11 DEF Cancelled
<1> QED
  BY <1>3, <1>4, <1>5, <1>6, <1>7, <1>8, <1>9, <1>10, <1>11 DEF ThreadStep

LEMMA OwnInit == Init => OwnInv
<1> SUFFICES ASSUME Init PROVE OwnInv
  OBVIOUS
<1>1. \A c \in Clients : th[c].pc = "none"
  BY DEF Init, NoThread
<1>2. Unserved /\ QueueOK
  BY <1>1, WebServerAssumption DEF Init, Unserved, QueueOK, Alive
<1>3. mpc # "create"
  BY DEF Init
<1> QED
  BY <1>1, <1>2, <1>3, TypeInit DEF OwnInv, Kinds, Handed, HasFd, OwnSocket, Alive, Work

LEMMA OwnClient ==
  ASSUME OwnInv, NEW c \in Clients, ClientStep(c) PROVE OwnInv'
<1> USE DEF OwnInv, main, history
<1>1. TypeInv'
  BY TypeClient
<1>2. Kinds' /\ Handed' /\ HasFd' /\ OwnSocket'
  BY DEF ClientStep, Kinds, Handed, HasFd, OwnSocket, Alive, Peer, Work
<1>3. /\ \A d \in Clients \ {c} : net'[d].st = net[d].st
      /\ net'[c].st = net[c].st \/ (net[c].st = "new" /\ net'[c].st = "queued")
  <2> USE DEF TypeInv, TypeOK, Links
  <2>1. CASE Connect(c)
    BY <2>1 DEF Connect
  <2>2. CASE ClientSend(c)
    BY <2>2 DEF ClientSend
  <2>3. CASE ClientStalls(c)
    BY <2>3 DEF ClientStalls
  <2>4. CASE ClientLeaves(c)
    BY <2>4 DEF ClientLeaves
  <2> QED
    BY <2>1, <2>2, <2>3, <2>4 DEF ClientStep
<1>4. Unserved'
  BY <1>3 DEF ClientStep, Unserved, Alive
<1>5. QueueOK'
  <2>0. queue \in Seq(Clients)
    BY DEF TypeInv, TypeOK
  <2>1. CASE Connect(c)
    <3>1. queue' = Append(queue, c) /\ net[c].st = "new" /\ net'[c].st = "queued"
      BY <2>1 DEF Connect, TypeInv, TypeOK, Links
    <3>2. \A i \in 1 .. Len(queue) : queue[i] # c /\ queue[i] \in Clients
      BY <2>0, <3>1 DEF QueueOK
    <3>3. /\ Len(queue') = Len(queue) + 1 /\ queue'[Len(queue) + 1] = c /\ Len(queue) \in Nat
          /\ \A i \in 1 .. Len(queue) : queue'[i] = queue[i]
      BY <2>0, <3>1
    <3>4. \A i \in 1 .. Len(queue') : i \in 1 .. Len(queue) \/ i = Len(queue) + 1
      BY <3>3
    <3> QED
      BY <1>3, <3>1, <3>2, <3>3, <3>4 DEF QueueOK
  <2>2. CASE queue' = queue
    <3>1. \A i \in 1 .. Len(queue) : queue[i] \in Clients
      BY <2>0
    <3> QED
      BY <1>3, <2>2, <3>1 DEF QueueOK
  <2> QED
    BY <2>1, <2>2 DEF ClientStep, ClientSend, ClientStalls, ClientLeaves
<1> QED
  BY <1>1, <1>2, <1>4, <1>5

LEMMA OwnThread ==
  ASSUME OwnInv, NEW c \in Clients, ThreadStep(c) PROVE OwnInv'
<1> USE DEF OwnInv
<1>1. TypeInv'
  BY TypeThread
<1>2. /\ UNCHANGED <<prog, mpc, client, m_connfd, queue>> /\ Alive(c)
      /\ net \in [Clients -> Links] /\ th \in [Clients -> Threads]
      /\ file \in [Fds -> Clients \cup {Nobody}] /\ queue \in Seq(Clients)
      /\ prog \in {"demo20", "bus", "pool"} /\ again \in BOOLEAN
      /\ \A i \in 1 .. Len(queue) : queue[i] \in Clients
  BY DEF ThreadStep, TypeInv, TypeOK, main
<1>3. CASE ~Close(c)
  <2>1. file' = file /\ again' = again
    BY <1>3 DEF ThreadStep, Read, Reply, Getconns, Login, ExecSQL, Freeconns, LockIds, EraseId,
       Cancelled, history
  <2>2. \A d \in Clients : net'[d].st = net[d].st
    <3>2. net' = net \/ \E x : net' = [net EXCEPT ![x].req = FALSE]
      BY <1>3 DEF ThreadStep, Read, Reply, Getconns, Login, ExecSQL, Freeconns, LockIds, EraseId,
         Cancelled
    <3>3. CASE net' = net
      BY <3>3
    <3>4. ASSUME NEW x, net' = [net EXCEPT ![x].req = FALSE] PROVE \A d \in Clients : net'[d].st = net[d].st
      BY <1>2, <3>4 DEF Links
    <3> QED
      BY <3>2, <3>3, <3>4
  <2>3. /\ \A d \in Clients \ {c} : th'[d] = th[d]
        /\ Alive(c)' => th'[c].fd = th[c].fd
        /\ Holds(c)' => Holds(c)
        /\ prog = "demo20" => th'[c].pc \in {"none", "read", "reply", "shut", "find", "erase", "close"}
        /\ prog # "demo20" => th'[c].pc \notin {"reply", "shut", "find", "erase"}
    BY <1>3, ThreadMoves
  <2>4. Kinds'
    BY <1>2, <2>3 DEF Kinds
  <2>5. QueueOK'
    BY <1>2, <2>2 DEF QueueOK
  <2>6. \A d \in Clients : Alive(d)' => Alive(d)
    BY <1>2, <2>3 DEF Alive
  <2>7. Unserved'
    BY <1>2, <2>1, <2>2, <2>6 DEF Unserved
  <2>8. Handed'
    BY <1>2, <2>1, <2>6 DEF Handed, TypeInv, MainOK
  <2>9. HasFd'
    BY <2>3, <2>6 DEF HasFd
  <2>10. \A d \in Clients : Holds(d)' => Holds(d) /\ Peer(d)' = Peer(d)
    BY <1>2, <2>1, <2>3 DEF Holds, Peer, Alive, Work
  <2>11. OwnSocket'
    BY <2>1, <2>10, OwnHolds DEF OwnSocket, Holds
  <2> QED
    BY <1>1, <2>4, <2>5, <2>7, <2>8, <2>9, <2>11
<1>4. CASE Close(c)
  <2>1. /\ file' = [file EXCEPT ![th[c].fd] = Nobody] /\ th[c].fd \in Fds
        /\ th[c].pc \in {"shut", "close"}
        /\ again' = (again \/ (prog = "demo20" /\ Peer(c) \notin {c, Nobody}))
    BY <1>2, <1>4 DEF Close, HasFd
  <2>2. \A d \in Clients : net'[d].st = net[d].st \/ (net'[d].st = "gone" /\ d = Peer(c))
    BY <1>2, <1>4 DEF Close, Gone, Links
  <2>3. /\ \A d \in Clients \ {c} : th'[d] = th[d]
        /\ th'[c].pc \in {"none", "find", "lock"}
        /\ Alive(c)' => th'[c].fd = th[c].fd
        /\ th'[c].pc = "find" => th[c].pc = "shut"
        /\ th'[c].pc = "lock" => prog # "demo20"
    BY <1>2, <1>4 DEF Close, After, Threads, NoThread, Alive, Kinds
  <2>4. Kinds'
    BY <1>2, <2>1, <2>3 DEF Kinds
  <2>5. \A d \in Clients : Alive(d)' => Alive(d)
    BY <1>2, <2>3 DEF Alive
  <2>6. \A d \in Clients : net[d].st \in {"new", "queued"} => d # Peer(c)
    BY <2>1 DEF Unserved, Peer
  <2>7. QueueOK'
    BY <1>2, <2>2, <2>6 DEF QueueOK
  <2>8. Unserved'
    BY <1>2, <2>1, <2>2, <2>5, WebServerAssumption DEF Unserved
  <2>9. ~again' => ~again /\ Peer(c) \in {c, Nobody}
    <3>1. CASE prog = "demo20"
      BY <1>2, <2>1, <3>1
    <3>2. CASE prog # "demo20"
      BY <1>2, <2>1, <3>2, OwnHolds DEF Holds, Work
    <3> QED
      BY <3>1, <3>2
  <2>10. Handed'
    <3> SUFFICES ASSUME mpc = "create" PROVE ~Alive(client)' /\ (~again' => file'[m_connfd] = client)
      BY <1>2 DEF Handed
    <3>1. client \in Clients /\ client # c /\ m_connfd \in Fds /\ client # Nobody
      BY <1>2, WebServerAssumption DEF Handed, TypeInv, MainOK
    <3> QED
      BY <1>2, <2>1, <2>5, <2>9, <3>1 DEF Handed, Peer
  <2>11. HasFd'
    BY <2>3, <2>5 DEF HasFd
  <2>12. OwnSocket'
    <3> SUFFICES ASSUME ~again', NEW d \in Clients, Holds(d)' PROVE Peer(d)' = d
      BY DEF OwnSocket, Holds
    <3>1. d # c
      BY <2>3 DEF Holds, Work
    <3>2. Holds(d) /\ th'[d] = th[d]
      BY <1>2, <2>3, <3>1 DEF Holds
    <3>3. Peer(d) = d /\ d # Nobody
      BY <2>9, <3>2, OwnHolds, WebServerAssumption
    <3> QED
      BY <1>2, <2>1, <2>9, <3>1, <3>2, <3>3 DEF Peer
  <2> QED
    BY <1>1, <2>4, <2>7, <2>8, <2>10, <2>11, <2>12
<1> QED
  BY <1>3, <1>4

LEMMA OwnMain == OwnInv /\ (MainStep \/ Signal) => OwnInv'
<1> SUFFICES ASSUME OwnInv, MainStep \/ Signal PROVE OwnInv'
  OBVIOUS
<1> USE DEF OwnInv
<1>1. TypeInv'
  BY TypeMain
<1>2. /\ net \in [Clients -> Links] /\ th \in [Clients -> Threads]
      /\ file \in [Fds -> Clients \cup {Nobody}] /\ queue \in Seq(Clients)
      /\ \A i \in 1 .. Len(queue) : queue[i] \in Clients
  BY DEF TypeInv, TypeOK
<1>3. ASSUME UNCHANGED <<prog, queue, file, net, again>>, mpc' # "create",
             \A c \in Clients : th'[c].pc = th[c].pc /\ th'[c].fd = th[c].fd
      PROVE  OwnInv'
  BY <1>1, <1>3 DEF Kinds, QueueOK, Unserved, Handed, HasFd, OwnSocket, Alive, Peer
<1>4. ASSUME ProcessEnds, prog' = prog PROVE OwnInv'
  <2>1. \A c \in Clients : th'[c].pc = "none" /\ net'[c].st = "gone"
    BY <1>4 DEF ProcessEnds, NoThread, Gone
  <2>2. mpc' # "create" /\ queue' = <<>>
    BY <1>4 DEF ProcessEnds
  <2> QED
    BY <1>1, <1>4, <2>1, <2>2
    DEF Kinds, QueueOK, Unserved, Handed, HasFd, OwnSocket, Alive, Work
<1>5. CASE Accept
  <2>1. CASE mpc' = "EXIT"
    BY <1>3, <1>5, <2>1 DEF Accept, history
  <2>2. CASE mpc' # "EXIT"
    <3> DEFINE h == Head(queue)
    <3>1. /\ queue # <<>> /\ mpc' = "create" /\ client' = h /\ queue' = Tail(queue)
          /\ net' = [net EXCEPT ![h].st = "open"] /\ th' = th /\ prog' = prog /\ again' = again
      BY <1>5, <2>2 DEF Accept, history
    <3>2. PICK f \in Free : m_connfd' = f /\ file' = [file EXCEPT ![f] = h]
      BY <1>5, <2>2 DEF Accept
    <3>3. f \in Fds /\ file[f] = Nobody
      BY <3>2 DEF Free
    <3>4. /\ h = queue[1] /\ h \in Clients /\ 1 \in 1 .. Len(queue)
          /\ Len(queue') = Len(queue) - 1 /\ Len(queue) \in Nat
          /\ \A i \in 1 .. Len(queue') : queue'[i] = queue[i + 1] /\ i + 1 \in 1 .. Len(queue)
      BY <1>2, <3>1
    <3>5. net[h].st = "queued"
      BY <3>4 DEF QueueOK
    <3> HIDE DEF h
    <3>6. ~Alive(h) /\ \A g \in Fds : file[g] # h
      BY <3>4, <3>5 DEF Unserved
    <3>7. net'[h].st = "open" /\ \A c \in Clients \ {h} : net'[c].st = net[c].st
      BY <1>2, <3>1, <3>4 DEF Links
    <3>8. QueueOK'
      <4>1. \A i \in 1 .. Len(queue') : queue'[i] # h
        BY <3>4 DEF QueueOK
      <4> QED
        BY <1>2, <3>4, <3>7, <4>1, SMTT(20) DEF QueueOK
    <3>9. Unserved'
      BY <1>2, <3>1, <3>2, <3>3, <3>7 DEF Unserved, Alive
    <3>10. Handed'
      BY <1>2, <3>1, <3>2, <3>3, <3>6 DEF Handed, Alive
    <3>11. Kinds' /\ HasFd'
      BY <3>1 DEF Kinds, HasFd, Alive
    <3>12. OwnSocket'
      <4> SUFFICES ASSUME ~again, NEW c \in Clients, Holds(c) PROVE file'[th[c].fd] = c
        BY <3>1 DEF OwnSocket, Holds, Peer
      <4>1. file[th[c].fd] = c /\ th[c].fd \in Fds
        BY OwnHolds DEF Holds, Peer, HasFd, Alive, Work
      <4> QED
        BY <1>2, <3>2, <3>3, <4>1, WebServerAssumption
    <3> QED
      BY <1>1, <3>8, <3>9, <3>10, <3>11, <3>12
  <2> QED
    BY <2>1, <2>2
<1>6. CASE Create
  <2>1. /\ mpc = "create" /\ client \in Clients /\ m_connfd \in Fds /\ ~Alive(client)
        /\ UNCHANGED <<prog, client, m_connfd, queue, file, net, again>> /\ mpc' # "create"
    BY <1>6 DEF Create, history, Handed, TypeInv, MainOK
  <2>2. CASE th' = th
    BY <1>3, <2>1, <2>2
  <2>3. CASE th' # th
    <3>1. PICK id \in Handles :
            th' = [th EXCEPT ![client] = [NoThread EXCEPT !.pc = "read", !.id = id, !.fd = m_connfd]]
      BY <1>6, <2>3 DEF Create
    <3>2. /\ th'[client].pc = "read" /\ th'[client].fd = m_connfd
          /\ \A c \in Clients \ {client} : th'[c] = th[c]
      BY <1>2, <2>1, <3>1 DEF NoThread
    <3>3. Kinds' /\ HasFd'
      BY <2>1, <3>2 DEF Kinds, HasFd, Alive
    <3>4. QueueOK' /\ Handed'
      BY <2>1 DEF QueueOK, Handed
    <3>5. Unserved'
      BY <2>1, <3>2 DEF Unserved, Alive
    <3>6. OwnSocket'
      <4> SUFFICES ASSUME ~again, NEW c \in Clients, Holds(c)' PROVE file[th'[c].fd] = c
        BY <2>1 DEF OwnSocket, Holds, Peer
      <4>1. CASE c = client
        BY <2>1, <3>2, <4>1 DEF Handed
      <4>2. CASE c # client
        BY <2>1, <3>2, <4>2, OwnHolds DEF Holds, Peer
      <4> QED
        BY <4>1, <4>2
    <3> QED
      BY <1>1, <3>3, <3>4, <3>5, <3>6
  <2> QED
    BY <2>2, <2>3
<1>7. CASE Register
  BY <1>3, <1>7 DEF Register, history
<1>8. CASE Push
  <2>1. \A c \in Clients : th'[c].pc = th[c].pc /\ th'[c].fd = th[c].fd
    BY <1>2, <1>8 DEF Push, Threads
  <2> QED
    BY <1>3, <1>8, <2>1 DEF Push, history
<1>9. CASE Lock
  BY <1>3, <1>9 DEF Lock, history
<1>10. CASE Cancel
  <2>1. CASE ProcessEnds
    BY <1>4, <1>10, <2>1 DEF Cancel
  <2>2. CASE ~ProcessEnds
    <3>1. \A c \in Clients : th'[c].pc = th[c].pc /\ th'[c].fd = th[c].fd
      BY <1>2, <1>10, <2>2 DEF Cancel, Threads
    <3> QED
      BY <1>3, <1>10, <2>2, <3>1 DEF Cancel, history
  <2> QED
    BY <2>1, <2>2
<1>11. CASE Unlock
  BY <1>3, <1>11 DEF Unlock, history
<1>12. CASE Exit
  BY <1>4, <1>12 DEF Exit
<1>13. CASE Signal
  BY <1>3, <1>13 DEF Signal, history
<1> QED
  BY <1>5, <1>6, <1>7, <1>8, <1>9, <1>10, <1>11, <1>12, <1>13 DEF MainStep

\* The sockets, the queue and the threads belong together as OwnInv says.
THEOREM OwnInvariant == Spec => []OwnInv
<1>1. OwnInv /\ UNCHANGED vars => OwnInv'
  BY DEF OwnInv, TypeInv, TypeOK, MainOK, Kinds, QueueOK, Unserved, Handed, HasFd, OwnSocket, Alive,
     Peer, vars, main, history
<1>2. OwnInv /\ [Next]_vars => OwnInv'
  BY <1>1, OwnClient, OwnMain, OwnThread DEF Next
<1> QED
  BY <1>2, OwnInit, PTL DEF Spec

\* No thread of the three servers (thmain, thcleanup) closes, reads or writes the
\* socket of another client, whatever the number of clients and descriptors, until
\* in demo20 a second close hits a number in use again.
THEOREM SocketsOwn == Spec => []OwnSocket
BY OwnInvariant, PTL DEF OwnInv

-----------------------------------------------------------------------------
\* Living threads have ids of their own, and nobody is cancelled before EXIT.
IdsApart == \A c, d \in Clients : Alive(c) /\ Alive(d) /\ th[c].id = th[d].id => c = d
Running == mpc \in Loop \cup {"EXIT"}
NotCancelled == Running => \A c \in Clients : ~th[c].cancel
RegAlive == \A c \in Clients : th[c].reg => Alive(c)

\* A registered thread that has not taken itself out.
InList(c) == th[c].reg /\ (prog = "demo20" => th[c].pc # "close")
RegListed ==
  Running => \A c \in Clients : InList(c) => \E i \in 1 .. Len(vthid) : vthid[i] = th[c].id

\* Unless a thread was faster than main, vthid has each of these once and nobody else.
ListedReg ==
  Running /\ ~fast =>
    /\ \A i, k \in 1 .. Len(vthid) : vthid[i] = vthid[k] => i = k
    /\ \A i \in 1 .. Len(vthid) : \E c \in Clients : InList(c) /\ th[c].id = vthid[i]

\* The thread main has created and not yet registered.
Fresh ==
  mpc \in {"register", "push"} =>
    /\ ~th[client].reg
    /\ Alive(client) => th[client].id = thid
    /\ ~fast => Alive(client) /\ (prog = "demo20" => th[client].pc # "close")

RegInv == IdsApart /\ NotCancelled /\ RegAlive /\ RegListed /\ ListedReg /\ Fresh

LEMMA RegInit == Init => RegInv
BY DEF Init, RegInv, IdsApart, NotCancelled, RegAlive, RegListed, ListedReg, Fresh, InList, Alive,
   NoThread, Running

\* A step that leaves threads, ids and registrations as they were.
LEMMA RegKept ==
  ASSUME RegInv, prog' = prog, vthid' = vthid, fast' = fast, Running' => Running,
         mpc' \in {"register", "push"} =>
           mpc \in {"register", "push"} /\ client \in Clients /\ client' = client /\ thid' = thid,
         \A c \in Clients :
           /\ th'[c].id = th[c].id /\ th'[c].reg = th[c].reg
           /\ Running' => th'[c].cancel = th[c].cancel
           /\ Alive(c)' <=> Alive(c)
           /\ prog = "demo20" => (th'[c].pc = "close" <=> th[c].pc = "close")
  PROVE  RegInv'
<1>1. IdsApart' /\ NotCancelled' /\ RegAlive'
  BY DEF RegInv, IdsApart, NotCancelled, RegAlive
<1>2. \A c \in Clients : InList(c)' <=> InList(c)
  BY DEF InList
<1>3. RegListed' /\ ListedReg'
  BY <1>2 DEF RegInv, RegListed, ListedReg
<1>4. Fresh'
  BY DEF RegInv, Fresh
<1> QED
  BY <1>1, <1>3, <1>4 DEF RegInv

LEMMA RegMain == OwnInv /\ RegInv /\ (MainStep \/ Signal) => RegInv'
<1> SUFFICES ASSUME OwnInv, RegInv, MainStep \/ Signal PROVE RegInv'
  OBVIOUS
<1>1. /\ th \in [Clients -> Threads] /\ vthid \in Seq(Handles) /\ MainOK /\ fast \in BOOLEAN
      /\ prog \in {"demo20", "bus", "pool"}
  BY DEF OwnInv, TypeInv, TypeOK
<1> USE DEF Loop, history
<1>2. CASE Accept
  BY <1>2, RegKept DEF Accept, Running, Alive
<1>3. CASE Create
  <2>1. /\ mpc = "create" /\ client \in Clients /\ ~Alive(client)
        /\ UNCHANGED <<prog, client, vthid, fast>> /\ Running
    BY <1>1, <1>3 DEF Create, OwnInv, Handed, MainOK, Running
  <2>2. CASE th' = th /\ mpc' = "accept"
    BY <2>1, <2>2, RegKept DEF Running, Alive
  <2>3. CASE ~(th' = th /\ mpc' = "accept")
    <3>1. PICK id \in Handles \ {th[c].id : c \in {x \in Clients : Alive(x)}} :
            /\ thid' = id /\ mpc' = "register"
            /\ th' = [th EXCEPT ![client] = [NoThread EXCEPT !.pc = "read", !.id = id, !.fd = m_connfd]]
      BY <1>3, <2>3 DEF Create
    <3>2. /\ th'[client].pc = "read" /\ th'[client].id = id /\ ~th'[client].reg
          /\ ~th'[client].cancel
          /\ \A c \in Clients \ {client} : th'[c] = th[c] /\ (Alive(c) => th[c].id # id)
      BY <1>1, <2>1, <3>1 DEF NoThread
    <3>3. ~th[client].reg
      BY <2>1 DEF RegInv, RegAlive
    <3>4. IdsApart' /\ NotCancelled' /\ RegAlive'
      BY <2>1, <3>2 DEF RegInv, IdsApart, NotCancelled, RegAlive, Alive
    <3>5. \A c \in Clients : /\ InList(c)' <=> InList(c)
                             /\ InList(c) => th'[c].id = th[c].id
      BY <2>1, <3>2, <3>3 DEF InList
    <3>6. RegListed' /\ ListedReg'
      BY <2>1, <3>5 DEF RegInv, RegListed, ListedReg
    <3>7. Fresh'
      BY <2>1, <3>1, <3>2 DEF Fresh, Alive
    <3> QED
      BY <3>4, <3>6, <3>7 DEF RegInv
  <2> QED
    BY <2>2, <2>3
<1>4. CASE Register
  BY <1>1, <1>4, RegKept DEF Register, Running, MainOK, Alive
<1>5. CASE Push
  <2>1. /\ mpc = "push" /\ client \in Clients /\ thid \in Handles /\ Running /\ mpc' = "accept"
        /\ UNCHANGED <<prog, fast>> /\ vthid' = Append(vthid, thid)
        /\ th' = [th EXCEPT ![client].reg = Alive(client)]
    BY <1>1, <1>5 DEF Push, MainOK, Running
  <2>2. /\ \A c \in Clients : /\ th'[c].pc = th[c].pc /\ th'[c].id = th[c].id
                              /\ th'[c].cancel = th[c].cancel
        /\ th'[client].reg = Alive(client)
        /\ \A c \in Clients \ {client} : th'[c].reg = th[c].reg
    BY <1>1, <2>1 DEF Threads
  <2>3. /\ Len(vthid') = Len(vthid) + 1 /\ Len(vthid) \in Nat /\ vthid'[Len(vthid) + 1] = thid
        /\ \A i \in 1 .. Len(vthid) : vthid'[i] = vthid[i] /\ i \in 1 .. Len(vthid')
        /\ Len(vthid) + 1 \in 1 .. Len(vthid')
        /\ \A i \in 1 .. Len(vthid') : i \in 1 .. Len(vthid) \/ i = Len(vthid) + 1
    BY <1>1, <2>1
  <2>4. ~th[client].reg /\ (Alive(client) => th[client].id = thid)
    BY <2>1 DEF RegInv, Fresh
  <2>5. IdsApart' /\ NotCancelled'
    BY <2>1, <2>2 DEF RegInv, IdsApart, NotCancelled, Alive
  <2>6. RegAlive'
    BY <2>1, <2>2 DEF RegInv, RegAlive, Alive
  <2>7. \A c \in Clients \ {client} : InList(c)' <=> InList(c)
    BY <2>1, <2>2 DEF InList
  <2>8. RegListed'
    <3> SUFFICES ASSUME NEW c \in Clients, InList(c)' PROVE \E i \in 1 .. Len(vthid') : vthid'[i] = th'[c].id
      BY DEF RegListed
    <3>1. CASE c = client
      BY <2>2, <2>3, <2>4, <3>1 DEF InList
    <3>2. CASE c # client
      <4>1. PICK i \in 1 .. Len(vthid) : vthid[i] = th[c].id
        BY <2>1, <2>7, <3>2 DEF RegInv, RegListed
      <4> QED
        BY <2>2, <2>3, <4>1
    <3> QED
      BY <3>1, <3>2
  <2>9. ListedReg'
    <3> SUFFICES ASSUME ~fast PROVE
           /\ \A i, k \in 1 .. Len(vthid') : vthid'[i] = vthid'[k] => i = k
           /\ \A i \in 1 .. Len(vthid') : \E c \in Clients : InList(c)' /\ th'[c].id = vthid'[i]
      BY <2>1 DEF ListedReg
    <3>1. /\ \A i, k \in 1 .. Len(vthid) : vthid[i] = vthid[k] => i = k
          /\ \A i \in 1 .. Len(vthid) : \E c \in Clients : InList(c) /\ th[c].id = vthid[i]
      BY <2>1 DEF RegInv, ListedReg
    <3>2. Alive(client) /\ (prog = "demo20" => th[client].pc # "close")
      BY <2>1 DEF RegInv, Fresh
    <3>3. /\ th'[client].reg /\ (prog = "demo20" => th'[client].pc # "close")
          /\ th'[client].id = thid
      BY <2>1, <2>2, <2>4, <3>2 DEF Alive
    <3>4. ~InList(client)
      BY <2>4 DEF InList
    <3>5. \A i \in 1 .. Len(vthid) : vthid[i] # thid
      <4> SUFFICES ASSUME NEW i \in 1 .. Len(vthid), vthid[i] = thid PROVE FALSE
        OBVIOUS
      <4>1. PICK c \in Clients : InList(c) /\ th[c].id = thid
        BY <3>1
      <4>2. Alive(c)
        BY <4>1 DEF InList, RegInv, RegAlive
      <4>3. c = client
        BY <2>1, <2>4, <3>2, <4>1, <4>2 DEF RegInv, IdsApart
      <4> QED
        BY <3>4, <4>1, <4>3
    <3>6. \A i, k \in 1 .. Len(vthid') : vthid'[i] = vthid'[k] => i = k
      BY <2>3, <3>1, <3>5
    <3>7. ASSUME NEW i \in 1 .. Len(vthid') PROVE \E c \in Clients : InList(c)' /\ th'[c].id = vthid'[i]
      <4>1. CASE i = Len(vthid) + 1
        BY <2>1, <2>3, <3>3, <4>1 DEF InList
      <4>2. CASE i \in 1 .. Len(vthid)
        <5>1. PICK c \in Clients : InList(c) /\ th[c].id = vthid[i]
          BY <3>1, <4>2
        <5> QED
          BY <2>2, <2>3, <2>7, <3>4, <4>2, <5>1
      <4> QED
        BY <2>3, <4>1, <4>2
    <3> QED
      BY <3>6, <3>7
  <2>10. Fresh'
    BY <2>1 DEF Fresh
  <2> QED
    BY <2>5, <2>6, <2>8, <2>9, <2>10 DEF RegInv
<1>6. CASE Lock
  BY <1>6, RegKept DEF Lock, Running, Alive
<1>7. ASSUME ProcessEnds, prog' = prog PROVE RegInv'
  BY <1>7 DEF ProcessEnds, NoThread, RegInv, IdsApart, NotCancelled, RegAlive, RegListed, ListedReg,
     Fresh, Alive, Running
<1>8. CASE Cancel
  <2>1. CASE ProcessEnds
    BY <1>7, <1>8, <2>1 DEF Cancel
  <2>2. CASE ~ProcessEnds
    <3>1. \A c \in Clients : th'[c].pc = th[c].pc /\ th'[c].id = th[c].id /\ th'[c].reg = th[c].reg
      BY <1>1, <1>8, <2>2 DEF Cancel, Threads
    <3> QED
      BY <1>8, <2>2, <3>1, RegKept DEF Cancel, Running, Alive
  <2> QED
    BY <2>1, <2>2
<1>9. CASE Unlock
  BY <1>9, RegKept DEF Unlock, Running, Alive
<1>10. CASE Exit
  BY <1>7, <1>10 DEF Exit
<1>11. CASE Signal
  BY <1>11, RegKept DEF Signal, Running, Alive
<1> QED
  BY <1>2, <1>3, <1>4, <1>5, <1>6, <1>8, <1>9, <1>10, <1>11 DEF MainStep

LEMMA RegThread ==
  ASSUME OwnInv, RegInv, NEW c \in Clients, ThreadStep(c) PROVE RegInv'
<1>1. /\ th \in [Clients -> Threads] /\ vthid \in Seq(Handles) /\ fast \in BOOLEAN /\ MainOK
      /\ prog \in {"demo20", "bus", "pool"} /\ Alive(c)
      /\ UNCHANGED <<prog, mpc, client, thid>> /\ (Running' <=> Running)
      /\ prog = "demo20" => th[c].pc \in {"none", "read", "reply", "shut", "find", "erase", "close"}
      /\ prog # "demo20" => th[c].pc \notin {"reply", "shut", "find", "erase"}
      /\ Loop \subseteq {"accept", "create", "register", "push"}
  BY DEF OwnInv, TypeInv, TypeOK, ThreadStep, main, Running, Kinds, Loop
<1>2. mpc \in {"register", "push"} => client \in Clients /\ Running
  BY <1>1 DEF MainOK, Running, Loop
<1>3. CASE ~Close(c) /\ ~EraseId(c) /\ ~Cancelled(c)
  <2>1. /\ \A d \in Clients \ {c} : th'[d] = th[d]
        /\ th'[c].id = th[c].id /\ th'[c].reg = th[c].reg /\ th'[c].cancel = th[c].cancel
        /\ th'[c].pc # "none" /\ th[c].pc # "none"
        /\ prog = "demo20" => th'[c].pc # "close" /\ th[c].pc # "close"
        /\ vthid' = vthid /\ fast' = fast
    <3> USE <1>1 DEF Goes, Quit, Threads, Alive, history
    <3>1. CASE Read(c)
      BY <3>1 DEF Read
    <3>2. CASE Reply(c)
      BY <3>2 DEF Reply
    <3>3. CASE Getconns(c)
      BY <3>3 DEF Getconns
    <3>4. CASE Login(c)
      BY <3>4 DEF Login, Refuse
    <3>5. CASE ExecSQL(c)
      BY <3>5 DEF ExecSQL, Refuse
    <3>6. CASE Freeconns(c)
      BY <3>6 DEF Freeconns
    <3>7. CASE LockIds(c)
      BY <3>7 DEF LockIds
    <3> QED
      BY <1>3, <3>1, <3>2, <3>3, <3>4, <3>5, <3>6, <3>7 DEF ThreadStep
  <2> QED
    BY <1>1, <1>2, <2>1, RegKept DEF Alive
<1>4. CASE Cancelled(c)
  <2>1. ~Running
    BY <1>4 DEF Cancelled, RegInv, NotCancelled
  <2>2. /\ \A d \in Clients \ {c} : th'[d] = th[d]
        /\ th'[c] = NoThread \/ (th'[c].id = th[c].id /\ th'[c].reg = th[c].reg /\ th'[c].pc # "none")
    BY <1>1, <1>4 DEF Cancelled, Threads
  <2>3. IdsApart' /\ RegAlive'
    BY <1>1, <2>2 DEF RegInv, IdsApart, RegAlive, Alive, NoThread
  <2> QED
    BY <1>1, <1>2, <2>1, <2>3 DEF RegInv, NotCancelled, RegListed, ListedReg, Fresh
<1>5. CASE Close(c)
  <2>1. /\ \A d \in Clients \ {c} : th'[d] = th[d]
        /\ vthid' = vthid /\ fast' = fast
    BY <1>1, <1>5 DEF Close
  <2>2. CASE th'[c] # NoThread
    <3>1. /\ th'[c].id = th[c].id /\ th'[c].reg = th[c].reg /\ th'[c].cancel = th[c].cancel
          /\ th'[c].pc # "none" /\ th[c].pc # "none" /\ th'[c].pc # "close"
          /\ prog = "demo20" => th[c].pc # "close"
      BY <1>1, <1>5, <2>2 DEF Close, After, Threads, Alive
    <3> QED
      BY <1>1, <1>2, <2>1, <3>1, RegKept DEF Alive
  <2>3. CASE th'[c] = NoThread
    <3>1. prog = "demo20" /\ th[c].pc = "close"
      BY <1>1, <1>5, <2>3 DEF Close, After, Threads, NoThread
    <3>2. th'[c].pc = "none" /\ ~th'[c].reg /\ ~th'[c].cancel
      BY <2>3 DEF NoThread
    <3>3. IdsApart' /\ RegAlive' /\ NotCancelled'
      BY <1>1, <2>1, <3>2 DEF RegInv, IdsApart, RegAlive, NotCancelled, Alive
    <3>4. \A d \in Clients : /\ InList(d)' <=> InList(d)
                             /\ InList(d) => th'[d].id = th[d].id
      BY <1>1, <2>1, <3>1, <3>2 DEF InList
    <3>5. RegListed' /\ ListedReg'
      BY <1>1, <2>1, <3>4 DEF RegInv, RegListed, ListedReg
    <3>6. Fresh'
      BY <1>1, <1>2, <2>1, <3>1, <3>2 DEF RegInv, Fresh, Alive
    <3> QED
      BY <3>3, <3>5, <3>6 DEF RegInv
  <2> QED
    BY <2>2, <2>3
<1>6. CASE EraseId(c)
  <2>1. /\ \A d \in Clients \ {c} : th'[d] = th[d]
        /\ fast' = (fast \/ ~th[c].reg)
        /\ \/ /\ th[c].pc = "erase" /\ prog = "demo20" /\ th'[c].pc = "close" /\ th'[c].id = th[c].id
              /\ th'[c].reg = th[c].reg /\ th'[c].cancel = th[c].cancel
           \/ /\ th'[c].pc = "none" /\ ~th'[c].reg /\ ~th'[c].cancel /\ th[c].pc = "held"
    BY <1>1, <1>6 DEF EraseId, Threads, NoThread
  <2>2. /\ \A d \in Clients : Alive(d)' => Alive(d) /\ th'[d].id = th[d].id
        /\ \A d \in Clients : th'[d].reg => th[d].reg
        /\ \A d \in Clients : th'[d].cancel => th[d].cancel
        /\ \A d \in Clients \ {c} : InList(d)' <=> InList(d)
    BY <1>1, <2>1 DEF Alive, InList
  <2>3. ~InList(c)' /\ (th[c].reg => InList(c))
    BY <1>1, <2>1 DEF InList
  <2>4. IdsApart' /\ NotCancelled'
    BY <1>1, <2>2 DEF RegInv, IdsApart, NotCancelled
  <2>5. RegAlive'
    BY <1>1, <2>1 DEF RegInv, RegAlive, Alive
  <2>6. Fresh'
    <3>1. CASE c = client
      <4>1. mpc \in {"register", "push"} => ~th[c].reg
        BY <3>1 DEF RegInv, Fresh
      <4> QED
        BY <1>1, <1>2, <2>1, <2>2, <3>1, <4>1 DEF RegInv, Fresh
    <3>2. CASE c # client
      BY <1>1, <1>2, <2>1, <3>2 DEF RegInv, Fresh, Alive
    <3> QED
      BY <3>1, <3>2
  <2>7. \A d \in Clients \ {c} : InList(d) => th[d].id # th[c].id /\ th'[d] = th[d]
    BY <1>1, <2>1 DEF RegInv, RegAlive, IdsApart, InList
  <2>8. CASE Found(c) = {}
    <3>1. vthid' = vthid
      BY <1>6, <2>8 DEF EraseId
    <3>2. RegListed'
      BY <1>1, <2>2, <2>3, <2>7, <3>1 DEF RegInv, RegListed
    <3>3. ASSUME Running, ~fast' PROVE \A i \in 1 .. Len(vthid) : vthid[i] # th[c].id
      <4>1. ~fast /\ \A i, k \in 1 .. Len(vthid) : vthid[i] = vthid[k] => i = k
        BY <1>1, <2>1, <3>3 DEF RegInv, ListedReg
      <4> SUFFICES ASSUME NEW i \in 1 .. Len(vthid), vthid[i] = th[c].id PROVE FALSE
        OBVIOUS
      <4>2. \A j \in 1 .. i - 1 : j \in 1 .. Len(vthid) /\ j # i
        BY <1>1
      <4>3. i \in Found(c)
        BY <1>1, <4>1, <4>2 DEF Found
      <4> QED
        BY <2>8, <4>3
    <3>4. ListedReg'
      BY <1>1, <2>1, <2>2, <2>7, <3>1, <3>3 DEF RegInv, ListedReg
    <3> QED
      BY <2>4, <2>5, <2>6, <3>2, <3>4 DEF RegInv
  <2>9. CASE Found(c) # {}
    <3>1. PICK i \in Found(c) : vthid' = RemoveAt(vthid, i)
      BY <1>6, <2>9 DEF EraseId
    <3>2. i \in 1 .. Len(vthid) /\ vthid[i] = th[c].id /\ Len(vthid) \in Nat
      BY <1>1, <3>1 DEF Found
    <3>3. /\ Len(vthid') = Len(vthid) - 1
          /\ \A j \in 1 .. Len(vthid') : vthid'[j] = IF j < i THEN vthid[j] ELSE vthid[j + 1]
      BY <1>1, <3>1, <3>2, OneTakenOut, ZenonT(40)
    <3>4. \A k \in 1 .. Len(vthid) : k # i => \E j \in 1 .. Len(vthid') : vthid'[j] = vthid[k]
      <4> SUFFICES ASSUME NEW k \in 1 .. Len(vthid), k # i
                   PROVE  \E j \in 1 .. Len(vthid') : vthid'[j] = vthid[k]
        OBVIOUS
      <4>1. CASE k < i
        BY <3>2, <3>3, <4>1
      <4>2. CASE k > i
        <5>1. k - 1 \in 1 .. Len(vthid') /\ ~(k - 1 < i) /\ (k - 1) + 1 = k
          BY <3>2, <3>3, <4>2
        <5> QED
          BY <3>3, <5>1
      <4> QED
        BY <3>2, <4>1, <4>2
    <3>5. RegListed'
      <4> SUFFICES ASSUME Running, NEW d \in Clients, InList(d)'
                   PROVE  \E j \in 1 .. Len(vthid') : vthid'[j] = th'[d].id
        BY <1>1 DEF RegListed
      <4>1. d # c /\ InList(d) /\ th'[d] = th[d] /\ th[d].id # th[c].id
        BY <2>2, <2>3, <2>7
      <4>2. PICK k \in 1 .. Len(vthid) : vthid[k] = th[d].id
        BY <4>1 DEF RegInv, RegListed
      <4> QED
        BY <3>2, <3>4, <4>1, <4>2
    <3>6. ListedReg'
      <4> SUFFICES ASSUME Running, ~fast'
                   PROVE  /\ \A j, k \in 1 .. Len(vthid') : vthid'[j] = vthid'[k] => j = k
                          /\ \A j \in 1 .. Len(vthid') : \E d \in Clients : InList(d)' /\ th'[d].id = vthid'[j]
        BY <1>1 DEF ListedReg
      <4>1. /\ \A j, k \in 1 .. Len(vthid) : vthid[j] = vthid[k] => j = k
            /\ \A j \in 1 .. Len(vthid) : \E d \in Clients : InList(d) /\ th[d].id = vthid[j]
        BY <1>1, <2>1 DEF RegInv, ListedReg
      <4> DEFINE at(j) == IF j < i THEN j ELSE j + 1
      <4>2. \A j \in 1 .. Len(vthid') : at(j) \in 1 .. Len(vthid) /\ at(j) # i /\ vthid'[j] = vthid[at(j)]
        BY <3>2, <3>3
      <4>3. \A j, k \in 1 .. Len(vthid') : at(j) = at(k) => j = k
        BY <3>2, <3>3
      <4> HIDE DEF at
      <4>4. \A j, k \in 1 .. Len(vthid') : vthid'[j] = vthid'[k] => j = k
        BY <4>1, <4>2, <4>3
      <4>5. ASSUME NEW j \in 1 .. Len(vthid') PROVE \E d \in Clients : InList(d)' /\ th'[d].id = vthid'[j]
        <5>1. PICK d \in Clients : InList(d) /\ th[d].id = vthid[at(j)]
          BY <4>1, <4>2
        <5>2. d # c
          BY <3>2, <4>1, <4>2, <5>1
        <5> QED
          BY <2>2, <2>7, <4>2, <5>1, <5>2
      <4> QED
        BY <4>4, <4>5
    <3> QED
      BY <2>4, <2>5, <2>6, <3>5, <3>6 DEF RegInv
  <2> QED
    BY <2>8, <2>9
<1> QED
  BY <1>3, <1>4, <1>5, <1>6

\* Ids and registrations belong together as RegInv says.
THEOREM RegInvariant == Spec => []RegInv
<1>1. RegInv /\ UNCHANGED vars => RegInv'
  BY RegKept DEF vars, main, history, Running, Alive, RegInv, IdsApart, NotCancelled, RegAlive,
     RegListed, ListedReg, Fresh, InList
<1>3. ASSUME OwnInv, RegInv, NEW c \in Clients, ClientStep(c) PROVE RegInv'
  BY <1>3 DEF ClientStep, main, history, Running, Alive, RegInv, IdsApart, NotCancelled, RegAlive,
     RegListed, ListedReg, Fresh, InList
<1>4. OwnInv /\ RegInv /\ [Next]_vars => RegInv'
  BY <1>1, <1>3, RegMain, RegThread DEF Next
<1> QED
  BY <1>4, RegInit, OwnInvariant, PTL DEF Spec

\* What EXIT goes by: a registered thread is in vthid until it takes itself out, and
\* nobody else is, unless a thread ended before main had registered it.
THEOREM ThreadsRegistered == Spec => []Registered
<1>1. OwnInv /\ RegInv => Registered
  <2> SUFFICES ASSUME OwnInv, RegInv, Running PROVE
        /\ \A c \in Clients : InList(c) => Contains(vthid, th[c].id)
        /\ ~fast => \A i \in DOMAIN vthid : \E c \in Clients : Alive(c) /\ th[c].id = vthid[i]
    BY DEF Registered, Running, InList
  <2>1. DOMAIN vthid = 1 .. Len(vthid)
    BY DEF OwnInv, TypeInv, TypeOK
  <2> QED
    BY <2>1 DEF RegInv, RegListed, ListedReg, RegAlive, InList, Contains
<1> QED
  BY <1>1, OwnInvariant, RegInvariant, PTL
=============================================================================
