--------------------------- MODULE MulPortServer ---------------------------
(***************************************************************************)
(* The epoll server (mul_port_server_epoll.cpp): main() waits for edge-    *)
(* triggered events, accepts connections and adds a job for every other    *)
(* event; workers run client_job, which reads with nRecv, answers with     *)
(* nSend, or closes the connection.  A job knows its connection by the     *)
(* descriptor number only.  The pool is taken for what JobPool says of it: *)
(* pend[f] jobs wait for descriptor f and are started in any order.        *)
(*                                                                         *)
(* net[c] is the connection of client c: its place st ("new", "queued" at  *)
(* the listener, "accepted", "open" once epoll knows it, "gone" when the   *)
(* server has closed it), the bytes data in its receive buffer, the bytes  *)
(* left the client may still send, and fin when the client has closed.     *)
(* file[f] is the client behind descriptor f.  ready holds the clients     *)
(* with an epoll event to report, and Listener; evs what epoll_wait        *)
(* returned and main has not handled.  curfds is read and written without  *)
(* a lock by main and the workers, so ++ and -- are a load (tmp) and a     *)
(* store.  mpc "einval": epoll_wait failed and main returned; "emfile":    *)
(* accept failed and main returned.                                        *)
(*                                                                         *)
(* job[w] is what worker w does: pc "idle", "recv" in nRecv with n bytes   *)
(* read, "reply", or "load", "store" and "shut" while it closes; src is a  *)
(* history variable, the client whose data or end it has seen.  hist has   *)
(* the other history variables: overlap, two jobs ran on one descriptor;   *)
(* raced, a store to curfds undid another; stray, a job closed another     *)
(* client's connection; crossed, a client got another's data; merged, a    *)
(* client came while the listener's event was not yet reported; partial,   *)
(* the clients whose end or rest of data a job that had data left behind.  *)
(***************************************************************************)
EXTENDS Integers, Sequences, FiniteSetsExt

CONSTANTS
  Clients, NoClient,
  Listener,      \* the listening sockets' events
  Workers,       \* CPU_CORES_SIZE threads
  MaxFd,         \* bound: descriptors for connections
  MaxBuffer,     \* MAX_BUFFER, in units
  MaxSend        \* bound: units a client sends

ASSUME MulPortServerAssumption ==
  /\ NoClient \notin Clients /\ Listener \notin Clients
  /\ Listener \notin Nat
  /\ MaxFd \in Nat \ {0} /\ MaxBuffer \in Nat \ {0} /\ MaxSend \in Nat

VARIABLES net, queue, file, ready, evs, mpc, mtmp, curfds, pend, job, hist

vars == <<net, queue, file, ready, evs, mpc, mtmp, curfds, pend, job, hist>>
mainVars == <<evs, mpc, mtmp>>

\* What hist records is of interest until two jobs have met on a descriptor.
Alone(fact) == fact /\ ~hist.overlap

Fds == 1 .. MaxFd
St == {"new", "queued", "accepted", "open", "gone"}
Conn == [st : St, data : 0 .. MaxSend, left : 0 .. MaxSend, fin : BOOLEAN]
Job == [pc : {"idle", "recv", "reply", "load", "store", "shut"},
        fd : Fds, n : 0 .. MaxBuffer, tmp : Int, src : Clients \cup {NoClient}]
History == [overlap : BOOLEAN, raced : BOOLEAN, stray : BOOLEAN, crossed : BOOLEAN,
            merged : BOOLEAN, partial : SUBSET Clients]

\* The type invariant.
TypeOK ==
  /\ net \in [Clients -> Conn]
  /\ queue \in Seq(Clients)
  /\ file \in [Fds -> Clients \cup {NoClient}]
  /\ ready \subseteq Clients \cup {Listener}
  /\ evs \subseteq Fds \cup {Listener}
  /\ mpc \in {"wait", "loop", "store", "einval", "emfile"}
  /\ mtmp \in Int /\ curfds \in Int
  /\ pend \in [Fds -> Nat]
  /\ job \in [Workers -> Job]
  /\ hist \in History

Idle == [pc |-> "idle", fd |-> 1, n |-> 0, tmp |-> 0, src |-> NoClient]

Init ==
  /\ net = [c \in Clients |-> [st |-> "new", data |-> 0, left |-> MaxSend, fin |-> FALSE]]
  /\ queue = <<>>
  /\ file = [f \in Fds |-> NoClient]
  /\ ready = {} /\ evs = {} /\ mpc = "wait" /\ mtmp = 0
  /\ curfds = 1
  /\ pend = [f \in Fds |-> 0]
  /\ job = [w \in Workers |-> Idle]
  /\ hist = [overlap |-> FALSE, raced |-> FALSE, stray |-> FALSE, crossed |-> FALSE,
             merged |-> FALSE, partial |-> {}]

-----------------------------------------------------------------------------
\* The clients.  An open connection reports every arrival as a new edge.
Edge(c) == ready' = IF net[c].st = "open" THEN ready \cup {c} ELSE ready

Connect(c) ==
  /\ net[c].st = "new"
  /\ net' = [net EXCEPT ![c].st = "queued"]
  /\ queue' = Append(queue, c)
  /\ ready' = ready \cup {Listener}
  /\ hist' = [hist EXCEPT !.merged = @ \/ Listener \in ready \/ queue # <<>>]
  /\ UNCHANGED <<file, mainVars, curfds, pend, job>>

ClientSend(c) ==
  /\ net[c].st \in {"queued", "accepted", "open"} /\ net[c].left > 0 /\ ~net[c].fin
  /\ net' = [net EXCEPT ![c].data = @ + 1, ![c].left = @ - 1]
  /\ Edge(c)
  /\ UNCHANGED <<queue, file, mainVars, curfds, pend, job, hist>>

ClientClose(c) ==
  /\ net[c].st \in {"queued", "accepted", "open"} /\ ~net[c].fin
  /\ net' = [net EXCEPT ![c].fin = TRUE]
  /\ Edge(c)
  /\ UNCHANGED <<queue, file, mainVars, curfds, pend, job, hist>>

-----------------------------------------------------------------------------
\* main: epoll_wait for at most curfds events; a count that is not positive is
\* an error that ends the server.  events[] holds descriptor numbers.
FdOf(c) == CHOOSE f \in Fds : file[f] = c
EpollWait ==
  /\ mpc = "wait"
  /\ \/ /\ curfds <= 0
        /\ mpc' = "einval"
        /\ UNCHANGED <<ready, evs>>
     \/ /\ curfds > 0 /\ ready # {}
        /\ \E b \in SUBSET ready :
             /\ Cardinality(b) = Min({curfds, Cardinality(ready)})
             /\ ready' = ready \ b
             /\ evs' = {IF e = Listener THEN e ELSE FdOf(e) : e \in b}
        /\ mpc' = "loop"
  /\ UNCHANGED <<net, queue, file, mtmp, curfds, pend, job, hist>>

\* main: one accept per event of the listener; curfds++ begins.
FreeFds == {f \in Fds : file[f] = NoClient}
Accept ==
  /\ mpc = "loop" /\ Listener \in evs /\ queue # <<>>
  /\ evs' = evs \ {Listener}
  /\ \/ /\ FreeFds = {}
        /\ mpc' = "emfile"
        /\ UNCHANGED <<net, queue, file, mtmp>>
     \/ /\ \E f \in FreeFds : /\ \A g \in FreeFds : f <= g
                              /\ file' = [file EXCEPT ![f] = Head(queue)]
        /\ net' = [net EXCEPT ![Head(queue)].st = "accepted"]
        /\ queue' = Tail(queue)
        /\ mtmp' = curfds
        /\ mpc' = "store"
  /\ UNCHANGED <<ready, curfds, pend, job, hist>>

\* main: curfds++ ends, epoll_ctl adds the socket, whose EPOLLOUT is an edge.
Register ==
  /\ mpc = "store"
  /\ curfds' = mtmp + 1
  /\ mtmp' = 0
  /\ hist' = [hist EXCEPT !.raced = @ \/ Alone(curfds # mtmp)]
  /\ \E c \in Clients : /\ net[c].st = "accepted"
                        /\ net' = [net EXCEPT ![c].st = "open"]
                        /\ ready' = ready \cup {c}
  /\ mpc' = "loop"
  /\ UNCHANGED <<queue, file, evs, pend, job>>

\* main: any other event becomes a job for its descriptor number.
AddJob ==
  /\ mpc = "loop"
  /\ \E f \in evs \ {Listener} : /\ pend' = [pend EXCEPT ![f] = @ + 1]
                                 /\ evs' = evs \ {f}
  /\ UNCHANGED <<net, queue, file, ready, mpc, mtmp, curfds, job, hist>>

\* A wrong loop: it ends before every event has been handled.
Handled_Early ==
  /\ mpc = "loop"
  /\ mpc' = "wait" /\ evs' = {}
  /\ UNCHANGED <<net, queue, file, ready, mtmp, curfds, pend, job, hist>>

Handled ==
  /\ mpc = "loop" /\ evs = {}
  /\ mpc' = "wait"
  /\ UNCHANGED <<net, queue, file, ready, evs, mtmp, curfds, pend, job, hist>>

-----------------------------------------------------------------------------
\* A worker starts client_job.
Busy(w) == job[w].pc # "idle"
Start(w) ==
  /\ ~Busy(w)
  /\ \E f \in Fds :
       /\ pend[f] > 0
       /\ pend' = [pend EXCEPT ![f] = @ - 1]
       /\ job' = [job EXCEPT ![w] = [Idle EXCEPT !.pc = "recv", !.fd = f]]
       /\ hist' = [hist EXCEPT !.overlap = @ \/ \E v \in Workers : Busy(v) /\ job[v].fd = f]
  /\ UNCHANGED <<net, queue, file, ready, mainVars, curfds>>

Peer(w) == file[job[w].fd]            \* the client behind the job's descriptor
Waiting(w) == net[Peer(w)].data
Full(w) == job[w].n = MaxBuffer

\* left_bytes.
Room(w) == MaxBuffer - job[w].n

\* nRecv: recv() returns what there is, as far as the buffer has room.
Recv(w) ==
  /\ job[w].pc = "recv" /\ ~Full(w)
  /\ Peer(w) # NoClient /\ Waiting(w) > 0
  /\ LET k == Min({Waiting(w), Room(w)})
     IN  /\ job' = [job EXCEPT ![w].n = @ + k, ![w].src = Peer(w)]
         /\ net' = [net EXCEPT ![Peer(w)].data = @ - k]
  /\ hist' = [hist EXCEPT !.crossed = @ \/ Alone(job[w].src \notin {NoClient, Peer(w)})]
  /\ UNCHANGED <<queue, file, ready, mainVars, curfds, pend>>

\* A wrong client_job: the end of the connection is not looked at.
EndOf_Never(w, ended) == IF job[w].n > 0 THEN "reply" ELSE "idle"

\* client_job: data is answered first; only a read without any closes.
EndOf(w, ended) ==
  IF job[w].n > 0 THEN "reply" ELSE IF ended THEN "load" ELSE "idle"

\* nRecv: the buffer is full, recv() returns 0 (ENOTCONN), or poll() times out.
RecvEnds(w) ==
  /\ job[w].pc = "recv"
  /\ \/ /\ Full(w)
        /\ job' = [job EXCEPT ![w].pc = "reply"]
     \/ /\ ~Full(w) /\ Peer(w) # NoClient /\ Waiting(w) = 0
        /\ LET l == EndOf(w, net[Peer(w)].fin)
           IN  job' = [job EXCEPT ![w] = IF l = "idle" THEN Idle
                                         ELSE [@ EXCEPT !.pc = l, !.src = Peer(w)]]
  /\ hist' = [hist EXCEPT !.partial =
       IF Peer(w) # NoClient /\ job[w].n > 0 /\ (net[Peer(w)].fin \/ Waiting(w) > 0)
       THEN @ \cup {Peer(w)} ELSE @]
  /\ UNCHANGED <<net, queue, file, ready, mainVars, curfds, pend>>

\* nRecv on a closed descriptor: recv() fails with EBADF, poll() reports
\* POLLNVAL at once, and the loop goes round until the number is used again.
RecvSpins(w) ==
  /\ job[w].pc = "recv" /\ ~Full(w) /\ Peer(w) = NoClient
  /\ UNCHANGED vars

\* client_job: nSend to whoever is behind the descriptor now, if the data begin
\* with 'a'; the job ends.
Reply(w) ==
  /\ job[w].pc = "reply"
  /\ job' = [job EXCEPT ![w] = Idle]
  /\ \/ UNCHANGED hist
     \/ hist' = [hist EXCEPT !.crossed = @ \/ Alone(Peer(w) \notin {NoClient, job[w].src})]
  /\ UNCHANGED <<net, queue, file, ready, mainVars, curfds, pend>>

\* A wrong nRecv: it closes the descriptor itself, as epoll_et_loop does.
Load_ClosesToo(w) ==
  /\ job[w].pc = "load"
  /\ job' = [job EXCEPT ![w].pc = "store", ![w].tmp = curfds]
  /\ IF Peer(w) = NoClient THEN UNCHANGED <<net, file, ready>>
     ELSE /\ net' = [net EXCEPT ![Peer(w)].st = "gone"]
          /\ file' = [file EXCEPT ![job[w].fd] = NoClient]
          /\ ready' = ready \ {Peer(w)}
  /\ UNCHANGED <<queue, mainVars, curfds, pend, hist>>

\* client_job: curfds--, then close().
Load(w) ==
  /\ job[w].pc = "load"
  /\ job' = [job EXCEPT ![w].pc = "store", ![w].tmp = curfds]
  /\ UNCHANGED <<net, queue, file, ready, mainVars, curfds, pend, hist>>

\* A wrong client_job: it does not count the connection it closes.
Store_Forgotten(w) ==
  /\ job[w].pc = "store"
  /\ job' = [job EXCEPT ![w].pc = "shut"]
  /\ UNCHANGED <<net, queue, file, ready, mainVars, curfds, pend, hist>>

Store(w) ==
  /\ job[w].pc = "store"
  /\ job' = [job EXCEPT ![w].pc = "shut", ![w].tmp = 0]
  /\ curfds' = job[w].tmp - 1
  /\ hist' = [hist EXCEPT !.raced = @ \/ Alone(curfds # job[w].tmp)]
  /\ UNCHANGED <<net, queue, file, ready, mainVars, pend>>

Shut(w) ==
  /\ job[w].pc = "shut"
  /\ job' = [job EXCEPT ![w] = Idle]
  /\ IF Peer(w) = NoClient
     THEN UNCHANGED <<net, file, ready, hist>>
     ELSE /\ net' = [net EXCEPT ![Peer(w)].st = "gone"]
          /\ file' = [file EXCEPT ![job[w].fd] = NoClient]
          /\ ready' = ready \ {Peer(w)}
          /\ hist' = [hist EXCEPT !.stray = @ \/ Alone(Peer(w) # job[w].src)]
  /\ UNCHANGED <<queue, mainVars, curfds, pend>>

Up == mpc \notin {"einval", "emfile"}    \* the process ends with main
MainStep == EpollWait \/ Accept \/ Register \/ AddJob \/ Handled
WorkerStep(w) ==
  \/ Start(w) \/ Recv(w) \/ RecvEnds(w) \/ RecvSpins(w)
  \/ Reply(w) \/ Load(w) \/ Store(w) \/ Shut(w)

Next ==
  /\ Up
  /\ \/ MainStep
     \/ \E w \in Workers : WorkerStep(w)
     \/ \E c \in Clients : Connect(c) \/ ClientSend(c) \/ ClientClose(c)

(***************************************************************************)
(* Fairness: main and the workers keep running.  Clients need do nothing.  *)
(***************************************************************************)
Spec == Init /\ [][Next]_vars
FairSpec == Spec /\ WF_vars(Up /\ MainStep) /\ \A w \in Workers : WF_vars(Up /\ WorkerStep(w))

-----------------------------------------------------------------------------
Open == {f \in Fds : file[f] # NoClient}

\* A job closes only the connection whose end it has read, and answers only the
\* client whose data it has read, although it keeps nothing but a descriptor
\* number and numbers are reused; unless two jobs run on one number at a time.
OwnConnection == ~hist.overlap => ~hist.stray /\ ~hist.crossed

\* curfds is one more than the connections, up to those being opened or closed,
\* so that epoll_wait is never called with a count of 0 and the server does not
\* end itself; unless two jobs close one connection or two updates collide.
CountExact ==
  ~hist.overlap /\ ~hist.raced =>
    /\ curfds = 1 + Cardinality(Open) - Cardinality({w \in Workers : job[w].pc = "shut"})
                  - IF mpc = "store" THEN 1 ELSE 0
    /\ mpc # "einval"

Stuck(w) == job[w].pc = "recv" /\ Peer(w) = NoClient

\* A connection whose client has closed is closed, unless a job read its last
\* data and its end in one go, or left data behind in a full buffer (then no
\* further edge comes), or every worker spins on a closed descriptor.
ClosedInTheEnd ==
  \A c \in Clients :
    (net[c].st = "open" /\ net[c].fin)
      ~> (\/ net[c].st = "gone" \/ c \in hist.partial \/ hist.overlap \/ ~Up
          \/ \A w \in Workers : Stuck(w))

\* A client that connects is accepted, unless another came before its edge was
\* used up: accept is called once per edge.
AcceptedInTheEnd ==
  \A c \in Clients :
    (net[c].st = "queued") ~> (net[c].st # "queued" \/ hist.merged \/ ~Up)

\* Clients do not wait for ever, neither at the beginning nor at the end (epoll_server,
\* client_job), with the exceptions of the two properties.
ClientsServed == AcceptedInTheEnd /\ ClosedInTheEnd
=============================================================================
