----------------------------- MODULE WebServer ------------------------------
(***************************************************************************)
(* The three thread-per-connection servers of the scheduling chapter:      *)
(* demo20, the data service bus ("bus"), and the bus with a pool of        *)
(* database connections ("pool"). main() accepts, creates a detached       *)
(* thread and registers its id in vthid; a thread that ends takes its id   *)
(* out; EXIT, the handler of SIGINT and SIGTERM, cancels all the threads   *)
(* in vthid and ends the process. vthidlock is a spin lock.                *)
(*                                                                         *)
(* mpc, client, m_connfd, thid and ii are main's place, the client it has  *)
(* accepted, its descriptor, the pthread_t just created and the index of   *)
(* EXIT's loop. th[c] is the thread of client c: its place pc, its         *)
(* pthread_t id, its socket fd, the database connection at it tries or     *)
(* holds, exiting (pthread_exit or a cancellation has begun: it cannot be  *)
(* cancelled any more), cancel (a cancellation is on its way) and the      *)
(* history variable reg, main has registered it. net[c] is client c and    *)
(* its connection, file[f] the client behind descriptor f, mutex[i] who    *)
(* holds conns[i].                                                         *)
(* History variables: fast, a thread looked for its id before main had     *)
(* registered it; again, demo20 closed a descriptor a second time and hit  *)
(* another client.                                                         *)
(***************************************************************************)
EXTENDS Integers, SequencesExt

CONSTANTS
  Clients, Nobody,
  Main,         \* the main thread, as holder of vthidlock
  Handles,      \* the values of pthread_t
  MaxFd,        \* bound: descriptors for connections
  MaxConns,     \* MAXCONNS
  MaxAsk,       \* bound: requests of a client
  CreateFails   \* TRUE if pthread_create may fail

ASSUME WebServerAssumption ==
  /\ Nobody \notin Clients /\ Main \notin Clients \cup {Nobody}
  /\ Handles \subseteq Nat /\ Cardinality(Clients) <= Cardinality(Handles)
  /\ MaxFd \in Nat /\ MaxConns \in Nat \ {0} /\ MaxAsk \in Nat /\ CreateFails \in BOOLEAN

VARIABLES prog, mpc, client, m_connfd, thid, ii, listening, queue, file, net, th, vthid,
          vthidlock, mutex, fast, again

main == <<mpc, client, m_connfd, thid, ii>>
history == <<fast, again>>
vars == <<prog, main, listening, queue, file, net, th, vthid, vthidlock, mutex, history>>

Fds == 1 .. MaxFd
ConnIdx == 1 .. MaxConns
Loop == {"accept", "create", "register", "push"}
Work == {"read", "reply", "conn", "login", "exec", "free", "refuse", "shut", "find", "erase"}
Places == Work \cup {"none", "close", "lock", "held"}
Links == [st : {"new", "queued", "open", "gone"}, asked : 0 .. MaxAsk,
          req : BOOLEAN, left : BOOLEAN, stalled : BOOLEAN]
Threads == [pc : Places, id : Handles \cup {0}, fd : Fds \cup {0}, at : ConnIdx \cup {0},
            exiting : BOOLEAN, cancel : BOOLEAN, reg : BOOLEAN]

\* The type invariant.
TypeOK ==
  /\ prog \in {"demo20", "bus", "pool"}
  /\ mpc \in Loop \cup {"EXIT", "cancel", "sleep", "over"}
  /\ client \in Clients \cup {Nobody} /\ m_connfd \in Fds \cup {0} /\ thid \in Handles \cup {0} /\ ii \in Nat
  /\ listening \in BOOLEAN /\ queue \in Seq(Clients)
  /\ file \in [Fds -> Clients \cup {Nobody}]
  /\ net \in [Clients -> Links] /\ th \in [Clients -> Threads]
  /\ vthid \in Seq(Handles)
  /\ vthidlock \in Clients \cup {Main, Nobody}
  /\ mutex \in [ConnIdx -> Clients \cup {Nobody}]
  /\ fast \in BOOLEAN /\ again \in BOOLEAN

NoThread == [pc |-> "none", id |-> 0, fd |-> 0, at |-> 0, exiting |-> FALSE,
             cancel |-> FALSE, reg |-> FALSE]
Init ==
  /\ prog \in {"demo20", "bus", "pool"}
  /\ mpc = "accept" /\ client = Nobody /\ m_connfd = 0 /\ thid = 0 /\ ii = 1
  /\ listening = TRUE /\ queue = <<>>
  /\ file = [f \in Fds |-> Nobody]
  /\ net = [c \in Clients |-> [st |-> "new", asked |-> 0, req |-> FALSE,
                               left |-> FALSE, stalled |-> FALSE]]
  /\ th = [c \in Clients |-> NoThread]
  /\ vthid = <<>> /\ vthidlock = Nobody
  /\ mutex = [i \in ConnIdx |-> Nobody]
  /\ fast = FALSE /\ again = FALSE

Gone == [st |-> "gone", asked |-> 0, req |-> FALSE, left |-> FALSE, stalled |-> FALSE]

Alive(c) == th[c].pc # "none"

-----------------------------------------------------------------------------
\* The clients.  One that stops reading blocks whoever writes to it until it
\* goes; one that has gone makes reads and writes fail.  A bound: once the server
\* is ending they do nothing new.
Connect(c) ==
  /\ net[c].st = "new" /\ listening
  /\ net' = [net EXCEPT ![c].st = "queued"]
  /\ queue' = Append(queue, c)
ClientSend(c) ==
  /\ net[c].st \in {"queued", "open"} /\ ~net[c].left
  /\ ~net[c].req /\ net[c].asked < MaxAsk
  /\ net' = [net EXCEPT ![c].req = TRUE, ![c].asked = @ + 1]
  /\ UNCHANGED queue
ClientStalls(c) ==
  /\ net[c].st = "open" /\ ~net[c].left /\ net[c].asked > 0 /\ ~net[c].stalled
  /\ net' = [net EXCEPT ![c].stalled = TRUE]
  /\ UNCHANGED queue
ClientLeaves(c) ==
  /\ net[c].st \in {"queued", "open"} /\ ~net[c].left
  /\ net' = [net EXCEPT ![c].left = TRUE, ![c].stalled = FALSE]
  /\ UNCHANGED queue
ClientStep(c) ==
  /\ mpc \in Loop
  /\ Connect(c) \/ ClientSend(c) \/ ClientStalls(c) \/ ClientLeaves(c)
  /\ UNCHANGED <<prog, main, listening, file, th, vthid, vthidlock, mutex, history>>

-----------------------------------------------------------------------------
\* main(): Accept.  It fails when the listening socket has been closed or no
\* descriptor is left, and EXIT(-1) follows.
Free == {f \in Fds : file[f] = Nobody}
Accept ==
  /\ mpc = "accept"
  /\ IF ~listening \/ (queue # <<>> /\ Free = {})
     THEN mpc' = "EXIT" /\ listening' = FALSE /\ UNCHANGED <<client, m_connfd, queue, file, net>>
     ELSE /\ queue # <<>>
          /\ mpc' = "create" /\ client' = Head(queue) /\ queue' = Tail(queue)
          /\ \E f \in Free :
               /\ \A g \in Free : f <= g
               /\ m_connfd' = f
               /\ file' = [file EXCEPT ![f] = Head(queue)]
          /\ net' = [net EXCEPT ![Head(queue)].st = "open"]
          /\ UNCHANGED listening
  /\ UNCHANGED <<prog, thid, ii, th, vthid, vthidlock, mutex, history>>

\* pthread_create, with any pthread_t that no living thread has.  When it fails
\* the listening socket is closed, and not the client's.
Create ==
  /\ mpc = "create"
  /\ \/ /\ \E id \in Handles \ {th[c].id : c \in {x \in Clients : Alive(x)}} :
             /\ thid' = id
             /\ th' = [th EXCEPT ![client] =
                   [NoThread EXCEPT !.pc = "read", !.id = id,
                                    !.fd = m_connfd]]
        /\ mpc' = "register" /\ UNCHANGED listening
     \/ /\ CreateFails
        /\ listening' = FALSE /\ mpc' = "accept" /\ UNCHANGED <<thid, th>>
  /\ UNCHANGED <<prog, client, m_connfd, ii, queue, file, net, vthid, vthidlock, mutex, history>>

Register ==
  /\ mpc = "register" /\ vthidlock = Nobody
  /\ vthidlock' = Main /\ mpc' = "push"
  /\ UNCHANGED <<prog, client, m_connfd, thid, ii, listening, queue, file, net, th, vthid, mutex, history>>

\* push_back and unlock.
Push ==
  /\ mpc = "push"
  /\ vthid' = Append(vthid, thid)
  /\ th' = [th EXCEPT ![client].reg = Alive(client)]
  /\ vthidlock' = Nobody
  /\ mpc' = "accept" /\ client' = Nobody /\ m_connfd' = 0 /\ thid' = 0
  /\ UNCHANGED <<prog, ii, listening, queue, file, net, mutex, history>>

-----------------------------------------------------------------------------
\* SIGINT or SIGTERM interrupts the main thread wherever it is; EXIT closes the
\* listening socket and ignores further signals.  main's own variables are not
\* used any more.
Signal ==
  /\ mpc \in Loop
  /\ mpc' = "EXIT" /\ listening' = FALSE
  /\ client' = Nobody /\ m_connfd' = 0 /\ thid' = 0
  /\ UNCHANGED <<prog, ii, queue, file, net, th, vthid, vthidlock, mutex, history>>

\* EXIT takes vthidlock, which main itself may hold; demo20's does not ask for it.
Lock ==
  /\ mpc = "EXIT"
  /\ IF prog = "demo20" THEN UNCHANGED vthidlock
     ELSE vthidlock = Nobody /\ vthidlock' = Main
  /\ mpc' = "cancel"
  /\ UNCHANGED <<prog, client, m_connfd, thid, ii, listening, queue, file, net, th, vthid, mutex, history>>

\* The process ends, and with it its threads, descriptors and memory; what is left
\* of the clients does not matter any more.
ProcessEnds ==
  /\ mpc' = "over" /\ ii' = 1
  /\ th' = [c \in Clients |-> NoThread]
  /\ queue' = <<>>
  /\ file' = [f \in Fds |-> Nobody]
  /\ net' = [c \in Clients |-> Gone]
  /\ vthid' = <<>> /\ vthidlock' = Nobody
  /\ mutex' = [i \in ConnIdx |-> Nobody]

\* One turn of EXIT's loop.  To cancel a thread that has ended may be a
\* segmentation fault.
Cancel ==
  /\ mpc = "cancel" /\ ii <= Len(vthid)
  /\ LET those == {c \in Clients : Alive(c) /\ th[c].id = vthid[ii]}
     IN  \/ /\ ii' = ii + 1
            /\ th' = [c \in Clients |-> [th[c] EXCEPT !.cancel = @ \/ c \in those]]
            /\ UNCHANGED <<mpc, queue, file, net, vthid, vthidlock, mutex>>
         \/ those = {} /\ ProcessEnds
  /\ UNCHANGED <<prog, client, m_connfd, thid, listening, history>>

\* The end of the loop: unlock.
Unlock ==
  /\ mpc = "cancel" /\ ii > Len(vthid)
  /\ mpc' = "sleep"
  /\ vthidlock' = IF prog = "demo20" THEN vthidlock ELSE Nobody
  /\ UNCHANGED <<prog, client, m_connfd, thid, ii, listening, queue, file, net, th, vthid, mutex, history>>

\* After a second exit(0), whatever the threads do.
Exit ==
  /\ mpc = "sleep" /\ ProcessEnds
  /\ UNCHANGED <<prog, client, m_connfd, thid, listening, history>>

-----------------------------------------------------------------------------
\* The threads.  Peer(c) is the client at the other end of c's descriptor.
Peer(c) == file[th[c].fd]
Goes(c, pc) == th' = [th EXCEPT ![c].pc = pc]

\* A thread of the bus that has nothing more to do calls pthread_exit, which runs
\* thcleanup; one of demo20 breaks out of its loop and cleans up itself first.
Quit(c) ==
  th' = [th EXCEPT ![c].pc = IF prog = "demo20" THEN "shut" ELSE "close",
                   ![c].exiting = (prog # "demo20")]

\* ReadT or TcpRead: a request, which is a GET or not, or the end, an error or a
\* timeout.
Read(c) ==
  /\ th[c].pc = "read"
  /\ IF Peer(c) # Nobody /\ net[Peer(c)].req
     THEN /\ net' = [net EXCEPT ![Peer(c)].req = FALSE]
          /\ IF prog = "demo20" THEN Goes(c, "reply")
             ELSE Quit(c) \/ th' = [th EXCEPT ![c].pc = "conn", ![c].at = 1]
     ELSE Quit(c) /\ UNCHANGED net
  /\ UNCHANGED <<file, vthid, vthidlock, mutex, history>>

\* getconns: trylock of one connection after the other, for ever; the bus without
\* a pool connects to the database, which may fail.
Getconns(c) ==
  /\ th[c].pc = "conn"
  /\ IF prog = "bus" THEN (Goes(c, "login") \/ Quit(c)) /\ UNCHANGED mutex
     ELSE IF mutex[th[c].at] = Nobody
     THEN mutex' = [mutex EXCEPT ![th[c].at] = c] /\ Goes(c, "login")
     ELSE th' = [th EXCEPT ![c].at = (@ % MaxConns) + 1] /\ UNCHANGED mutex
  /\ UNCHANGED <<file, net, vthid, vthidlock, history>>

\* TcpWrite and Writen wait for a client that does not read.
Blocked(c) == Peer(c) # Nobody /\ net[Peer(c)].stalled

\* demo20 answers "ok" and reads on.
Reply(c) ==
  /\ th[c].pc = "reply" /\ ~Blocked(c)
  /\ IF Peer(c) = Nobody \/ net[Peer(c)].left THEN Quit(c) ELSE Goes(c, "read")
  /\ UNCHANGED <<file, net, vthid, vthidlock, mutex, history>>

\* The request is refused: the pool's thread gives back its connection and then
\* calls pthread_exit.
Refuse(c) == IF prog = "bus" THEN Quit(c) ELSE Goes(c, "refuse")

\* Login and CheckPerm: what the database says is open; a refusal is written to
\* the client.
Login(c) ==
  /\ th[c].pc = "login"
  /\ Goes(c, "exec") \/ (~Blocked(c) /\ Refuse(c))
  /\ UNCHANGED <<file, net, vthid, vthidlock, mutex, history>>

\* The header and ExecSQL: the rows are written to the client, or the error of the
\* statement; whether a client that has gone gets them is not asked.
ExecSQL(c) ==
  /\ th[c].pc = "exec" /\ ~Blocked(c)
  /\ Refuse(c) \/ Goes(c, IF prog = "bus" THEN "close" ELSE "free")
  /\ UNCHANGED <<file, net, vthid, vthidlock, mutex, history>>

\* A wrong freeconns: only the thread that succeeded calls it.
Returned_IfServed(c) == IF th[c].pc = "free" THEN [mutex EXCEPT ![th[c].at] = Nobody] ELSE mutex

\* freeconns, on every way out.
Returned(c) == [mutex EXCEPT ![th[c].at] = Nobody]
Freeconns(c) ==
  /\ th[c].pc \in {"free", "refuse"}
  /\ mutex' = Returned(c)
  /\ th' = [th EXCEPT ![c].pc = "close", ![c].exiting = (th[c].pc = "refuse")]
  /\ UNCHANGED <<file, net, vthid, vthidlock, history>>

\* A wrong place to go on: the bus, too, closes its socket before thcleanup does.
After_Shuts(c) == IF th[c].pc = "close" THEN "shut" ELSE "find"

\* close(connfd), in demo20's thmain and in every thcleanup.
After(c) ==
  CASE th[c].pc = "shut" -> "find"
    [] th[c].pc = "close" /\ prog = "demo20" -> "none"
    [] OTHER -> "lock"
Close(c) ==
  /\ th[c].pc \in {"shut", "close"}
  /\ file' = [file EXCEPT ![th[c].fd] = Nobody]
  /\ net' = IF Peer(c) = Nobody THEN net ELSE [net EXCEPT ![Peer(c)] = Gone]
  /\ again' = (again \/ (prog = "demo20" /\ Peer(c) \notin {c, Nobody}))
  /\ th' = IF After(c) = "none" THEN [th EXCEPT ![c] = NoThread] ELSE [th EXCEPT ![c].pc = After(c)]
  /\ UNCHANGED <<vthid, vthidlock, mutex, fast>>

LockIds(c) ==
  /\ th[c].pc \in {"find", "lock"} /\ vthidlock = Nobody
  /\ vthidlock' = c
  /\ Goes(c, IF th[c].pc = "find" THEN "erase" ELSE "held")
  /\ UNCHANGED <<file, net, vthid, mutex, history>>

\* A wrong loop over vthid: it takes out the first id.
Found_First(c) == {1} \cap DOMAIN vthid

\* Wrong: the lock is released only by a thread that has found its id.
Unlocked_IfFound(c) == IF Contains(vthid, th[c].id) THEN Nobody ELSE vthidlock

\* A thread takes its id out of vthid, if it is there, and unlocks.
Found(c) == {i \in DOMAIN vthid : vthid[i] = th[c].id /\ \A j \in 1 .. i - 1 : vthid[j] # th[c].id}
Unlocked(c) == Nobody
EraseId(c) ==
  /\ th[c].pc \in {"erase", "held"}
  /\ IF Found(c) = {} THEN UNCHANGED vthid ELSE \E i \in Found(c) : vthid' = RemoveAt(vthid, i)
  /\ vthidlock' = Unlocked(c)
  /\ fast' = (fast \/ ~th[c].reg)
  /\ th' = [th EXCEPT ![c] = IF @.pc = "erase" THEN [@ EXCEPT !.pc = "close"] ELSE NoThread]
  /\ UNCHANGED <<file, net, mutex, again>>

\* A cancellation takes effect, at any point: the thread runs thcleanup, unless it
\* is in the one that pthread_cleanup_pop has called, where it just ends.  It keeps
\* what it holds.
Cancelled(c) ==
  /\ th[c].cancel /\ ~th[c].exiting
  /\ th' = [th EXCEPT ![c] = IF @.pc \in Work THEN [@ EXCEPT !.pc = "close", !.exiting = TRUE]
                             ELSE NoThread]
  /\ UNCHANGED <<file, net, vthid, vthidlock, mutex, history>>

ThreadStep(c) ==
  /\ Alive(c)
  /\ \/ Read(c) \/ Reply(c) \/ Getconns(c) \/ Login(c) \/ ExecSQL(c)
     \/ Freeconns(c)
     \/ Close(c) \/ LockIds(c) \/ EraseId(c) \/ Cancelled(c)
  /\ UNCHANGED <<prog, main, listening, queue>>

MainStep == Accept \/ Create \/ Register \/ Push \/ Lock \/ Cancel \/ Unlock \/ Exit

Next == MainStep \/ Signal \/ \E c \in Clients : ThreadStep(c) \/ ClientStep(c)

(***************************************************************************)
(* Fairness: every thread of the process keeps running.                    *)
(***************************************************************************)
Spec == Init /\ [][Next]_vars
FairSpec == Spec /\ WF_vars(MainStep) /\ \A c \in Clients : WF_vars(ThreadStep(c))

-----------------------------------------------------------------------------
\* No thread closes, reads or writes the socket of another client: until a thread
\* closes its descriptor it is its own client's, although numbers are used again.
\* In demo20, which closes every descriptor twice, that lasts until a second close
\* hits one in use again.
OwnSocket ==
  ~again => \A c \in Clients :
    /\ th[c].pc \in Work \ {"find", "erase"} => Peer(c) = c
    /\ th[c].pc = "close" /\ prog # "demo20" => Peer(c) = c

\* What EXIT goes by: a thread that main has registered is in vthid until it has
\* taken itself out, and ids of threads that have ended are there only if one of
\* them was faster than main's push_back.  So EXIT cancels all registered threads
\* and cancels dead ones (the segmentation fault its comment warns of) only then.
Registered ==
  mpc \in Loop \cup {"EXIT"} =>
    /\ \A c \in Clients :
         th[c].reg /\ (prog = "demo20" => th[c].pc # "close") => Contains(vthid, th[c].id)
    /\ ~fast => \A i \in DOMAIN vthid : \E c \in Clients : Alive(c) /\ th[c].id = vthid[i]

\* A signal, or a failing accept, ends the process, whoever holds vthidlock and
\* whatever the threads do, unless the signal interrupted main between lock and
\* unlock: then EXIT waits for itself.
EndsOnSignal == mpc = "EXIT" ~> mpc = "over" \/ (mpc = "EXIT" /\ vthidlock = Main)

\* A connection that has a thread ends and the thread with it, until the process
\* ends: nobody waits for ever for a database connection or the lock.  But a client
\* that neither reads nor goes keeps its thread, and that thread its database
\* connection: as many of them as there are connections stop the pool.
Stuck(c) ==
  \/ net[c].stalled
  \/ Cardinality({d \in Clients : net[d].stalled /\ d \in Range(mutex)}) >= MaxConns /\ prog = "pool"
ConnectionsEnd ==
  \A c \in Clients : Alive(c) ~> (~Alive(c) \/ mpc \notin Loop \/ Stuck(c) \/ again)
=============================================================================
