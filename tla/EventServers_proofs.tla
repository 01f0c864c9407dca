------------------------ MODULE EventServers_proofs ------------------------
(***************************************************************************)
(* Proofs about the six small servers for any number of clients and        *)
(* descriptors: the single-threaded ones do not block in accept() or       *)
(* recv(), clients that wait for their answers end a server only by        *)
(* overrunning the reactor's buffer, and nobody is answered with what      *)
(* belongs to somebody else.                                               *)
(***************************************************************************)
EXTENDS EventServers, FiniteSetTheorems, SequenceTheorems, TLAPS

Single == Echo /\ prog # "threads"
Busy(i) == task[i].pc \in {"recv", "send"}

-----------------------------------------------------------------------------
\* The kernel: a descriptor's client is open, each has one, the queue has those that
\* wait in it, and no client has sent more than it says.
KernelInv ==
  /\ \A c \in Clients :
       /\ net[c].got <= net[c].sent /\ net[c].sent <= Len(said[c]) /\ Len(said[c]) <= MaxSend
       /\ said[c] \in Seq(IF prog = "http" THEN Names \cup {"post"} ELSE {"unit"})
  /\ \A f \in Fds : file[f] # NoClient => net[file[f]].st = "open"
  /\ \A f, g \in Fds : file[f] = file[g] /\ file[f] # NoClient => f = g
  /\ \A i \in DOMAIN queue : net[queue[i]].st = "queued"
  /\ \A i, j \in DOMAIN queue : queue[i] = queue[j] => i = j

\* Which program runs decides who does anything at all.
RoleInv ==
  /\ ~React => rpc = "loop" /\ evs = {}
  /\ React => \A i \in Tasks : task[i].pc = "none"
  /\ prog = "threads" => task[Main].pc = "accept"
  /\ task[Main].pc # "start"
  /\ Single => \A c \in Clients : task[c].pc = "none"
  /\ \A i \in Tasks : /\ Busy(i) => task[i].fd \in Fds
                      /\ task[i].pc = "start" => cfd \in Fds

\* What a single-threaded loop still has to look at: with poll(), which leaves revents
\* alone, the entries from eventfd on.
Due(f) == prog = "poll" => eventfd <= f /\ (Busy(Main) => f # task[Main].fd)
LoopInv ==
  Single =>
    /\ \A f \in watch : file[f] # NoClient
    /\ Listener \in ready \/ task[Main].pc = "accept" => queue # <<>>
    /\ Busy(Main) => Peer(Main) # NoClient
    /\ task[Main].pc = "recv" => Readable(Peer(Main))
    /\ \A f \in ready \ {Listener} : Due(f) => file[f] # NoClient /\ Readable(file[f])
    /\ prog # "epoll" => \A f \in ready : f <= maxfd
    /\ Busy(Main) => IF prog = "poll" THEN eventfd = task[Main].fd ELSE task[Main].fd \notin ready

\* The reactors: an event still to be handled is still there, and send_cb between its
\* two halves has a client and a file to send.
ReactInv ==
  /\ Listener \in evs => queue # <<>>
  /\ \A f \in evs \ {Listener} : Asked(f)
  /\ rpc = "body" => /\ prog = "http" /\ rfd \in Fds \ evs /\ file[rfd] # NoClient
                     /\ conn[rfd].cb = "send" /\ conn[rfd].res \in Names
  /\ \A f \in Fds : conn[f].flag => conn[f].res \in Names

\* rc counts what has come on a connection, less one after an error; it is within the
\* buffer while the server lives.
RcInv ==
  \A f \in Fds : /\ prog # "reactor" \/ file[f] = NoClient => conn[f].rc = 0
                 /\ file[f] # NoClient => conn[f].rc <= net[file[f]].got
                 /\ up => conn[f].rc \in 0 .. BufferLength

ServedInv == TypeOK /\ KernelInv /\ RoleInv /\ LoopInv /\ ReactInv /\ RcInv

-----------------------------------------------------------------------------
\* Threads that got a descriptor each serve the client they were made for.
ThreadInv ==
  prog = "threads" /\ ~raced =>
    /\ \A c \in Clients : /\ Busy(c) => Peer(c) = c
                          /\ task[c].pc = "start" => file[cfd] = c
    /\ \A c, d \in Clients : task[c].pc = "start" /\ task[d].pc = "start" => c = d

\* As long as every client waits for its answers, a client with something to come has
\* not closed, and so no send() finds a connection that has been reset; only a buffer
\* that has been overrun can have ended the server.
Polite == ~rude /\ ~spun /\ ~raced
LinksPolite ==
  \A c \in Clients : /\ net[c].fin => ~net[c].asks
                     /\ ~net[c].asks => Data(c) = 0
                     /\ net[c].rst # "none" \/ net[c].owed => prog = "http" /\ net[c].fin
InBody(f) == rpc = "body" /\ rfd = f
SendsAsked ==
  /\ \A i \in Tasks : task[i].pc = "send" /\ Peer(i) # NoClient => net[Peer(i)].asks
  /\ \A f \in Fds : React /\ file[f] # NoClient /\ conn[f].cb = "send" =>
                      IF InBody(f) THEN net[file[f]].rst = "none" /\ ~net[file[f]].owed
                      ELSE net[file[f]].asks
PoliteInv == Polite => (up \/ Overrun # {}) /\ LinksPolite /\ SendsAsked

-----------------------------------------------------------------------------
\* A connection after a step: typed, and what has changed of it.
LEMMA LinkSet ==
  ASSUME TypeOK, NEW c \in Clients, NEW n \in Link, net' = [net EXCEPT ![c] = n]
  PROVE  /\ net' \in [Clients -> Link] /\ net'[c] = n
         /\ \A d \in Clients : d # c => net'[d] = net[d]
BY DEF TypeOK, KernelTypeOK

LEMMA LinkOf == ASSUME TypeOK, NEW c \in Clients PROVE net[c] \in Link
BY DEF TypeOK, KernelTypeOK

\* What the clients do to connections.
LEMMA ConnectLink ==
  ASSUME TypeOK, NEW c \in Clients, Connect(c)
  PROVE  /\ net' \in [Clients -> Link]
         /\ \A d \in Clients : d # c => net'[d] = net[d]
         /\ net[c].st = "new" /\ net'[c].st = "queued"
         /\ net'[c].sent = net[c].sent /\ net'[c].got = net[c].got
         /\ net'[c].fin = net[c].fin /\ net'[c].rst = net[c].rst
         /\ net'[c].owed = net[c].owed /\ net'[c].full = net[c].full
         /\ net'[c].asks = net[c].asks
<1>1. PICK n : n = [net[c] EXCEPT !.st = "queued"]
  OBVIOUS
<1>2. n \in Link
  BY <1>1, LinkOf, SMTT(30) DEF Link
<1>3. net' = [net EXCEPT ![c] = n]
  BY <1>1 DEF Connect
<1>4. net[c].st = "new"
  BY DEF Connect
<1> QED
  BY <1>1, <1>2, <1>3, <1>4, LinkOf, LinkSet, ZenonT(40) DEF Link

LEMMA ClientSendLink ==
  ASSUME TypeOK, KernelInv, NEW c \in Clients, ClientSend(c)
  PROVE  /\ net' \in [Clients -> Link]
         /\ \A d \in Clients : d # c => net'[d] = net[d]
         /\ net[c].rst = "none" /\ ~net[c].fin /\ net[c].sent + 1 \in 0 .. MaxSend
         /\ net'[c].sent = net[c].sent + 1 /\ net[c].sent < Len(said[c])
         /\ net'[c].st = net[c].st /\ net'[c].got = net[c].got
         /\ net'[c].fin = net[c].fin /\ net'[c].rst = net[c].rst
         /\ net'[c].owed = net[c].owed /\ net'[c].full = net[c].full
         /\ net'[c].asks = TRUE
<1>1. PICK n : n = [net[c] EXCEPT !.sent = net[c].sent + 1, !.asks = TRUE]
  OBVIOUS
<1>2. net[c].sent + 1 \in 0 .. MaxSend /\ net[c].rst = "none" /\ ~net[c].fin
      /\ net[c].sent < Len(said[c])
  BY SocketKernelAssumption
     DEF SocketKernelAssumption, ClientSend, Live, KernelInv, TypeOK, KernelTypeOK, Link
<1>3. n \in Link
  BY <1>1, <1>2, LinkOf, ZenonT(40) DEF Link
<1>4. net' = [net EXCEPT ![c] = n]
  BY <1>1 DEF ClientSend
<1> QED
  BY <1>1, <1>2, <1>3, <1>4, LinkOf, LinkSet, ZenonT(40) DEF Link

LEMMA ClientCloseLink ==
  ASSUME TypeOK, NEW c \in Clients, ClientClose(c)
  PROVE  /\ net' \in [Clients -> Link]
         /\ \A d \in Clients : d # c => net'[d] = net[d]
         /\ net[c].rst = "none" /\ ~net[c].fin
         /\ \/ net'[c].fin = TRUE /\ net'[c].rst = "none" /\ rude' = (rude \/ net[c].asks)
            \/ net'[c].fin = FALSE /\ net'[c].rst = "err" /\ rude' = TRUE
         /\ net'[c].st = net[c].st /\ net'[c].got = net[c].got
         /\ net'[c].sent = net[c].sent
         /\ net'[c].owed = net[c].owed /\ net'[c].full = net[c].full
         /\ net'[c].asks = net[c].asks
<1>0. net[c].rst = "none" /\ ~net[c].fin /\ net[c].fin \in BOOLEAN
  BY LinkOf DEF ClientClose, Live, Link
<1>1. CASE net' = [net EXCEPT ![c] = [net[c] EXCEPT !.fin = TRUE]] /\ rude' = (rude \/ net[c].asks)
  <2>1. PICK n : n = [net[c] EXCEPT !.fin = TRUE]
    OBVIOUS
  <2>2. n \in Link
    BY <2>1, LinkOf, ZenonT(40) DEF Link
  <2> QED
    BY <1>0, <1>1, <2>1, <2>2, LinkOf, LinkSet, ZenonT(40) DEF Link
<1>2. CASE net' = [net EXCEPT ![c] = [net[c] EXCEPT !.rst = "err"]] /\ rude' = TRUE
  <2>1. PICK n : n = [net[c] EXCEPT !.rst = "err"]
    OBVIOUS
  <2>2. n \in Link
    BY <2>1, LinkOf, SMTT(30) DEF Link
  <2> QED
    BY <1>0, <1>2, <2>1, <2>2, LinkOf, LinkSet, ZenonT(40) DEF Link
<1> QED
  BY <1>1, <1>2 DEF ClientClose

LEMMA ResetArrivesLink ==
  ASSUME TypeOK, NEW c \in Clients, ResetArrives(c)
  PROVE  /\ net' \in [Clients -> Link]
         /\ \A d \in Clients : d # c => net'[d] = net[d]
         /\ net[c].owed /\ net[c].rst = "none" /\ net'[c].rst = "err"
         /\ net'[c].st = net[c].st /\ net'[c].got = net[c].got
         /\ net'[c].sent = net[c].sent /\ net'[c].fin = net[c].fin
         /\ net'[c].owed = net[c].owed /\ net'[c].full = net[c].full
         /\ net'[c].asks = net[c].asks
<1>1. PICK n : n = [net[c] EXCEPT !.rst = "err"]
  OBVIOUS
<1>2. n \in Link
  BY <1>1, LinkOf, SMTT(30) DEF Link
<1>3. net' = [net EXCEPT ![c] = n]
  BY <1>1 DEF ResetArrives
<1>4. net[c].owed /\ net[c].rst = "none"
  BY DEF ResetArrives
<1> QED
  BY <1>1, <1>2, <1>3, <1>4, LinkOf, LinkSet, ZenonT(40) DEF Link

\* What the server's calls do to connections.
LEMMA AcceptLink ==
  ASSUME TypeOK, NEW f \in Fds, AcceptOne(f)
  PROVE  /\ Head(queue) \in Clients /\ queue # <<>> /\ queue' = Tail(queue)
         /\ queue' \in Seq(Clients)
         /\ net' \in [Clients -> Link]
         /\ \A d \in Clients : d # Head(queue) => net'[d] = net[d]
         /\ LET c == Head(queue)
            IN  /\ net'[c].st = "open" /\ net'[c].sent = net[c].sent /\ net'[c].got = net[c].got
                /\ net'[c].fin = net[c].fin /\ net'[c].rst = net[c].rst
                /\ net'[c].owed = net[c].owed /\ net'[c].full = net[c].full
                /\ net'[c].asks = net[c].asks
         /\ file' \in [Fds -> Clients \cup {NoClient}]
         /\ file[f] = NoClient /\ file'[f] = Head(queue)
         /\ \A g \in Fds : g # f => file'[g] = file[g]
<1>1. queue \in Seq(Clients) /\ queue # <<>> /\ queue' = Tail(queue) /\ file[f] = NoClient
      /\ file \in [Fds -> Clients \cup {NoClient}] /\ file' = [file EXCEPT ![f] = Head(queue)]
  BY DEF TypeOK, KernelTypeOK, AcceptOne, Lowest
<1>2. PICK c \in Clients : c = Head(queue)
  BY <1>1
<1>3. PICK n : n = [net[c] EXCEPT !.st = "open"]
  OBVIOUS
<1>4. n \in Link
  BY <1>3, LinkOf, SMTT(30) DEF Link
<1>5. net' = [net EXCEPT ![c] = n]
  BY <1>2, <1>3 DEF AcceptOne
<1>6. /\ net' \in [Clients -> Link] /\ net'[c] = n
      /\ \A d \in Clients : d # c => net'[d] = net[d]
  BY <1>4, <1>5, LinkSet
<1>7. /\ n.st = "open" /\ n.sent = net[c].sent /\ n.got = net[c].got
      /\ n.fin = net[c].fin /\ n.rst = net[c].rst
      /\ n.owed = net[c].owed /\ n.full = net[c].full /\ n.asks = net[c].asks
  BY <1>3, LinkOf, SMTT(30) DEF Link
<1> QED
  BY <1>1, <1>2, <1>6, <1>7

LEMMA GoneLink ==
  ASSUME TypeOK, NEW c \in Clients, net' = [net EXCEPT ![c].st = "gone"]
  PROVE  /\ net' \in [Clients -> Link]
         /\ \A d \in Clients : d # c => net'[d] = net[d]
         /\ net'[c].st = "gone" /\ net'[c].sent = net[c].sent /\ net'[c].got = net[c].got
         /\ net'[c].fin = net[c].fin /\ net'[c].rst = net[c].rst
         /\ net'[c].owed = net[c].owed /\ net'[c].full = net[c].full
         /\ net'[c].asks = net[c].asks
<1>1. PICK n : n = [net[c] EXCEPT !.st = "gone"]
  OBVIOUS
<1>2. n \in Link
  BY <1>1, LinkOf, SMTT(30) DEF Link
<1>3. net' = [net EXCEPT ![c] = n]
  BY <1>1
<1>4. /\ net' \in [Clients -> Link] /\ net'[c] = n
      /\ \A d \in Clients : d # c => net'[d] = net[d]
  BY <1>2, <1>3, LinkSet
<1>5. n = [net[c] EXCEPT !.st = "gone"] /\ net[c] \in Link
  BY <1>1, LinkOf
<1> QED
  BY <1>4, <1>5, Zenon DEF Link

LEMMA GotLink ==
  ASSUME TypeOK, NEW c \in Clients, NEW k \in 0 .. MaxSend, net' = [net EXCEPT ![c].got = k]
  PROVE  /\ net' \in [Clients -> Link]
         /\ \A d \in Clients : d # c => net'[d] = net[d]
         /\ net'[c].got = k /\ net'[c].sent = net[c].sent /\ net'[c].st = net[c].st
         /\ net'[c].fin = net[c].fin /\ net'[c].rst = net[c].rst
         /\ net'[c].owed = net[c].owed /\ net'[c].full = net[c].full
         /\ net'[c].asks = net[c].asks
<1>1. PICK n : n = [net[c] EXCEPT !.got = k]
  OBVIOUS
<1>2. n \in Link
  BY <1>1, LinkOf, SMTT(30) DEF Link
<1>3. net' = [net EXCEPT ![c] = n]
  BY <1>1
<1>4. /\ net' \in [Clients -> Link] /\ net'[c] = n
      /\ \A d \in Clients : d # c => net'[d] = net[d]
  BY <1>2, <1>3, LinkSet
<1>5. n = [net[c] EXCEPT !.got = k] /\ net[c] \in Link
  BY <1>1, LinkOf
<1> QED
  BY <1>4, <1>5, Zenon DEF Link

LEMMA DeadLink ==
  ASSUME TypeOK, NEW c \in Clients, net' = [net EXCEPT ![c].rst = "dead"]
  PROVE  /\ net' \in [Clients -> Link]
         /\ \A d \in Clients : d # c => net'[d] = net[d]
         /\ net'[c].rst = "dead" /\ net'[c].sent = net[c].sent /\ net'[c].got = net[c].got
         /\ net'[c].fin = net[c].fin /\ net'[c].st = net[c].st
         /\ net'[c].owed = net[c].owed /\ net'[c].full = net[c].full
         /\ net'[c].asks = net[c].asks
<1>1. PICK n : n = [net[c] EXCEPT !.rst = "dead"]
  OBVIOUS
<1>2. n \in Link
  BY <1>1, LinkOf, SMTT(30) DEF Link
<1>3. net' = [net EXCEPT ![c] = n]
  BY <1>1
<1>4. /\ net' \in [Clients -> Link] /\ net'[c] = n
      /\ \A d \in Clients : d # c => net'[d] = net[d]
  BY <1>2, <1>3, LinkSet
<1>5. n = [net[c] EXCEPT !.rst = "dead"] /\ net[c] \in Link
  BY <1>1, LinkOf
<1> QED
  BY <1>4, <1>5, Zenon DEF Link

LEMMA AfterSendLink ==
  ASSUME TypeOK, NEW c \in Clients, NEW n \in AfterSend(c)
  PROVE  /\ n \in Link /\ n.sent = net[c].sent /\ n.got = net[c].got /\ n.st = net[c].st
         /\ n.fin = net[c].fin /\ n.rst = (IF net[c].rst = "err" THEN "dead" ELSE net[c].rst)
         /\ n.owed = (net[c].owed \/ net[c].fin) /\ n.asks = net[c].asks
         /\ (net[c].rst # "none" => ~n.full)
<1>1. PICK i \in BOOLEAN :
        /\ n = [net[c] EXCEPT !.rst = IF @ = "err" THEN "dead" ELSE @,
                              !.owed = @ \/ net[c].fin, !.full = i]
        /\ net[c].rst # "none" => ~i
  BY DEF AfterSend
<1> QED
  BY <1>1, LinkOf, ZenonT(40) DEF Link

\* send(): the process dies, or the connection is as AfterSend says.
LEMMA SendToLink ==
  ASSUME TypeOK, NEW c \in Clients, NEW a, SendTo(c, a)
  PROVE  /\ net' \in [Clients -> Link] /\ Writable(c)
         /\ \A d \in Clients : d # c => net'[d] = net[d]
         /\ net'[c].st = net[c].st /\ net'[c].sent = net[c].sent /\ net'[c].got = net[c].got
         /\ net'[c].fin = net[c].fin
         /\ \/ Broken(c) /\ up' = FALSE /\ net' = net /\ back' = back
            \/ /\ ~Broken(c) /\ up' = up
               /\ net'[c].rst = (IF net[c].rst = "err" THEN "dead" ELSE net[c].rst)
               /\ net'[c].owed = (net[c].owed \/ net[c].fin)
               /\ net'[c].asks = (Data(c) > 0)
               /\ back' = IF net[c].rst = "none" THEN [back EXCEPT ![c] = @ \o a] ELSE back
<1>1. CASE Broken(c)
  <2>1. up' = FALSE /\ net' = net /\ back' = back /\ Writable(c)
    BY <1>1 DEF SendTo
  <2> QED
    BY <1>1, <2>1 DEF TypeOK, KernelTypeOK
<1>2. CASE ~Broken(c)
  <2>1. PICK m \in AfterSend(c) : net' = [net EXCEPT ![c] = [m EXCEPT !.asks = Data(c) > 0]]
    BY <1>2 DEF SendTo
  <2>2. /\ up' = up /\ Writable(c)
        /\ back' = IF net[c].rst = "none" THEN [back EXCEPT ![c] = @ \o a] ELSE back
    BY <1>2 DEF SendTo
  <2>3. PICK n : n = [m EXCEPT !.asks = Data(c) > 0]
    OBVIOUS
  <2>4. (Data(c) > 0) \in BOOLEAN
    OBVIOUS
  <2>5. n \in Link
    BY <2>3, <2>4, AfterSendLink, ZenonT(40) DEF Link
  <2>6. net' = [net EXCEPT ![c] = n]
    BY <2>1, <2>3
  <2>7. /\ n.sent = net[c].sent /\ n.got = net[c].got /\ n.st = net[c].st
        /\ n.fin = net[c].fin /\ n.rst = (IF net[c].rst = "err" THEN "dead" ELSE net[c].rst)
        /\ n.owed = (net[c].owed \/ net[c].fin) /\ n.asks = (Data(c) > 0)
    BY <2>3, <2>5, AfterSendLink, SMTT(30) DEF Link
  <2> QED
    BY <1>2, <2>2, <2>5, <2>6, <2>7, LinkSet
<1> QED
  BY <1>1, <1>2

\* Types, when a client does something ...
LEMMA ClientTypes ==
  ASSUME TypeOK, KernelInv, NEW c \in Clients, ClientStep(c), UNCHANGED <<echoVars, reactorVars>>
  PROVE  TypeOK'
<1>e. EchoTypeOK' /\ ReactorTypeOK'
  BY DEF TypeOK, EchoTypeOK, ReactorTypeOK, echoVars, loopVars, reactorVars
<1>k. edge' \subseteq Clients /\ rude' \in BOOLEAN /\ prog' = prog /\ up' = up /\ file' = file
  BY DEF TypeOK, KernelTypeOK, ClientStep, Connect, ClientSend, ClientClose, ResetArrives, Edge
<1>1. net' \in [Clients -> Link]
  BY ConnectLink, ClientSendLink, ClientCloseLink, ResetArrivesLink DEF ClientStep
<1>2. queue' \in Seq(Clients)
  BY DEF TypeOK, KernelTypeOK, ClientStep, Connect, ClientSend, ClientClose, ResetArrives
<1> QED
  BY <1>e, <1>k, <1>1, <1>2 DEF TypeOK, KernelTypeOK

-----------------------------------------------------------------------------
\* The tasks.
LEMMA TaskSet ==
  ASSUME TypeOK, NEW i \in Tasks, NEW t \in Task, task' = [task EXCEPT ![i] = t]
  PROVE  /\ task' \in [Tasks -> Task] /\ task'[i] = t
         /\ \A j \in Tasks : j # i => task'[j] = task[j]
BY DEF TypeOK, EchoTypeOK

LEMMA TaskOf ==
  ASSUME TypeOK, NEW i \in Tasks
  PROVE  /\ task[i] \in Task
         /\ task[i].pc \in Pc /\ task[i].fd \in Fds \cup {Listener, -1}
         /\ task[i].buf \in Seq(Unit)
         /\ task[i].fd \in Fds => Peer(i) \in Clients \cup {NoClient}
BY DEF TypeOK, EchoTypeOK, KernelTypeOK, Task, Peer

LEMMA OffTyped ==
  /\ Off \in Task /\ Off.pc = "none"
  /\ [Off EXCEPT !.pc = "scan"] \in Task /\ [Off EXCEPT !.pc = "scan"].pc = "scan"
<1>1. <<>> \in Seq(Unit)
  OBVIOUS
<1>2. Off = [pc |-> "none", fd |-> -1, buf |-> <<>>] /\ Off \in Task
  BY <1>1 DEF Off, Task, Pc
<1>3. PICK t : t = [Off EXCEPT !.pc = "scan"]
  OBVIOUS
<1>4. t = [pc |-> "scan", fd |-> -1, buf |-> <<>>]
  BY <1>2, <1>3
<1>5. t \in Task /\ t.pc = "scan"
  BY <1>1, <1>4 DEF Task, Pc
<1> QED
  BY <1>2, <1>3, <1>5

LEMMA BackTyped ==
  ASSUME TypeOK, NEW i \in Tasks
  PROVE  /\ Back(i) \in Task
         /\ i = Main => Back(i).pc = "scan"
         /\ i # Main => Back(i).pc = "recv" /\ Back(i).fd = task[i].fd
<1>1. CASE i = Main
  BY <1>1, OffTyped DEF Back
<1>2. CASE i # Main
  <2>1. Back(i) = [task[i] EXCEPT !.pc = "recv", !.buf = <<>>] /\ task[i] \in Task
    BY <1>2, TaskOf DEF Back
  <2>2. <<>> \in Seq(Unit)
    OBVIOUS
  <2>3. Back(i) \in Task /\ Back(i).pc = "recv" /\ Back(i).fd = task[i].fd
    BY <2>1, <2>2 DEF Task, Pc
  <2> QED
    BY <2>3, <1>2
<1> QED
  BY <1>1, <1>2

LEMMA WaitTask ==
  ASSUME TypeOK, Wait
  PROVE  /\ task' \in [Tasks -> Task]
         /\ task'[Main].pc = IF prog # "epoll" /\ Listener \in Reported THEN "accept" ELSE "scan"
         /\ \A i \in Tasks : i # Main => task'[i] = task[i]
<1>1. PICK p \in Pc : p = IF prog # "epoll" /\ Listener \in Reported THEN "accept" ELSE "scan"
  BY DEF Pc
<1>2. PICK t : t = [task[Main] EXCEPT !.pc = p]
  OBVIOUS
<1>3. Main \in Tasks
  BY DEF Tasks
<1>4. t \in Task /\ t.pc = p
  BY <1>2, <1>3, TaskOf, SMTT(30) DEF Task
<1>5. task' = [task EXCEPT ![Main] = t]
  BY <1>1, <1>2 DEF Wait, Goes
<1> QED
  BY <1>1, <1>3, <1>4, <1>5, TaskSet

LEMMA AcceptTask ==
  ASSUME TypeOK, NEW f \in Fds, AcceptOne(f), task[Main].pc = "accept",
         NEW p \in {"start", "failed"},
         task' = IF prog = "threads" THEN [task EXCEPT ![Head(queue)].pc = p]
                 ELSE [task EXCEPT ![Main] = [Off EXCEPT !.pc = "scan"]]
  PROVE  /\ task' \in [Tasks -> Task]
         /\ prog = "threads" => /\ task'[Head(queue)].pc = p
                                /\ \A i \in Tasks : i # Head(queue) => task'[i] = task[i]
         /\ prog # "threads" => /\ task'[Main].pc = "scan"
                                /\ \A i \in Tasks : i # Main => task'[i] = task[i]
<1>1. PICK c \in Clients : c = Head(queue)
  BY AcceptLink
<1>2. c \in Tasks /\ Main \in Tasks
  BY DEF Tasks
<1>3. CASE prog = "threads"
  <2>1. PICK t : t = [task[c] EXCEPT !.pc = p]
    OBVIOUS
  <2>2. t \in Task /\ t.pc = p
    BY <2>1, <1>2, TaskOf, SMTT(30) DEF Task, Pc
  <2>3. task' = [task EXCEPT ![c] = t]
    BY <2>1, <1>1, <1>3
  <2>4. task' \in [Tasks -> Task] /\ task'[c] = t /\ \A j \in Tasks : j # c => task'[j] = task[j]
    BY <2>2, <2>3, <1>2, TaskSet
  <2> QED
    BY <2>2, <2>4, <1>1, <1>3, Zenon
<1>4. CASE prog # "threads"
  <2>1. PICK t : t = [Off EXCEPT !.pc = "scan"]
    OBVIOUS
  <2>2. t \in Task /\ t.pc = "scan"
    BY <2>1, OffTyped
  <2>3. task' = [task EXCEPT ![Main] = t]
    BY <2>1, <1>4
  <2>4. task' \in [Tasks -> Task] /\ task'[Main] = t /\ \A j \in Tasks : j # Main => task'[j] = task[j]
    BY <2>2, <2>3, <1>2, TaskSet
  <2> QED
    BY <2>2, <2>4, <1>4, Zenon
<1> QED
  BY <1>3, <1>4

LEMMA ScanTask ==
  ASSUME TypeOK, NEW f \in Fds \cup {Listener},
         task' = [task EXCEPT ![Main].pc = IF f = Listener THEN "accept" ELSE "recv",
                              ![Main].fd = f]
  PROVE  /\ task' \in [Tasks -> Task]
         /\ task'[Main].pc = (IF f = Listener THEN "accept" ELSE "recv") /\ task'[Main].fd = f
         /\ \A i \in Tasks : i # Main => task'[i] = task[i]
<1>1. PICK p \in Pc : p = IF f = Listener THEN "accept" ELSE "recv"
  BY DEF Pc
<1>2. PICK t : t = [task[Main] EXCEPT !.pc = p, !.fd = f]
  OBVIOUS
<1>3. Main \in Tasks
  BY DEF Tasks
<1>4. t \in Task /\ t.pc = p /\ t.fd = f
  BY <1>2, <1>3, TaskOf, ZenonT(40) DEF Task
<1>5. task' = [task EXCEPT ![Main] = t]
  BY <1>1, <1>2, <1>3, TaskOf
<1>6. task' \in [Tasks -> Task] /\ task'[Main] = t /\ \A j \in Tasks : j # Main => task'[j] = task[j]
  BY <1>3, <1>4, <1>5, TaskSet
<1> QED
  BY <1>1, <1>4, <1>6, Zenon

\* The turns of the loops and of the threads.
LEMMA CloseFacts ==
  ASSUME TypeOK, NEW i \in Tasks, task[i].fd \in Fds, Peer(i) # NoClient, Close(i)
  PROVE  /\ Peer(i) \in Clients
         /\ net' = [net EXCEPT ![Peer(i)].st = "gone"]
         /\ file' \in [Fds -> Clients \cup {NoClient}] /\ file'[task[i].fd] = NoClient
         /\ \A g \in Fds : g # task[i].fd => file'[g] = file[g]
         /\ task' \in [Tasks -> Task] /\ \A j \in Tasks : j # i => task'[j] = task[j]
         /\ task'[i].pc = IF i = Main THEN "scan" ELSE "none"
         /\ watch' = IF i = Main THEN watch \ {task[i].fd} ELSE watch
         /\ maxfd' = maxfd
<1>1. file' = [file EXCEPT ![task[i].fd] = NoClient] /\ Peer(i) \in Clients
      /\ net' = [net EXCEPT ![Peer(i)].st = "gone"]
  BY TaskOf DEF Close, Peer
<1>2. PICK t : t = IF i = Main THEN Back(i) ELSE Off
  OBVIOUS
<1>3. t \in Task /\ t.pc = IF i = Main THEN "scan" ELSE "none"
  BY <1>2, BackTyped, OffTyped
<1>4. task' = [task EXCEPT ![i] = t]
  BY <1>2 DEF Close
<1>5. task' \in [Tasks -> Task] /\ task'[i] = t /\ \A j \in Tasks : j # i => task'[j] = task[j]
  BY <1>3, <1>4, TaskSet
<1>6. /\ watch' = IF i = Main THEN watch \ {task[i].fd} ELSE watch
      /\ maxfd' = maxfd
  BY DEF Close, Shrunk
<1>7. /\ file' \in [Fds -> Clients \cup {NoClient}] /\ file'[task[i].fd] = NoClient
      /\ \A g \in Fds : g # task[i].fd => file'[g] = file[g]
  BY <1>1 DEF TypeOK, KernelTypeOK
<1>8. task'[i].pc = IF i = Main THEN "scan" ELSE "none"
  BY <1>3, <1>5
<1> QED
  BY <1>1, <1>5, <1>6, <1>7, <1>8

LEMMA TakeFacts ==
  ASSUME TypeOK, KernelInv, NEW i \in Tasks, task[i].fd \in Fds, Peer(i) # NoClient,
         Received(Peer(i)) = "data", Take(i)
  PROVE  \E k \in 1 .. MaxSend :
           /\ Peer(i) \in Clients /\ k <= Data(Peer(i)) /\ net[Peer(i)].got + k \in 0 .. MaxSend
           /\ net' = [net EXCEPT ![Peer(i)].got = net[Peer(i)].got + k]
           /\ task' \in [Tasks -> Task] /\ \A j \in Tasks : j # i => task'[j] = task[j]
           /\ task'[i].pc = "send" /\ task'[i].fd = task[i].fd
           /\ Len(task'[i].buf) = k
           /\ \A j \in 1 .. k : task'[i].buf[j] = <<Peer(i), net[Peer(i)].got + j>>
<1> USE SocketKernelAssumption, EchoServersAssumption
    DEF SocketKernelAssumption, EchoServersAssumption
<1>1. PICK c \in Clients : c = Peer(i)
  BY TaskOf
<1>2. PICK g \in Nat : g = net[c].got
  BY <1>1, LinkOf, SMTT(30) DEF Link
<1>3. PICK k : k = IF Data(c) < Buf THEN Data(c) ELSE Buf
  OBVIOUS
<1>4. Data(c) \in Int /\ Data(c) > 0 /\ net[c].got + Data(c) <= MaxSend
  <2>1. net[c].got \in Nat /\ net[c].sent \in Nat /\ net[c].sent <= MaxSend
    BY LinkOf, SMTT(30) DEF Link
  <2>2. Data(c) \in Int
    BY <2>1 DEF Data
  <2>3. Data(c) > 0
    BY <1>1 DEF Received
  <2> QED
    BY <2>1, <2>2, <2>3 DEF Data
<1>5. k \in 1 .. MaxSend /\ k <= Data(c) /\ g + k \in 0 .. MaxSend
  BY <1>2, <1>3, <1>4
<1>6. PICK b : b = [j \in 1 .. k |-> <<c, g + j>>]
  OBVIOUS
<1>7. b \in Seq(Unit) /\ Len(b) = k /\ \A j \in 1 .. k : b[j] = <<c, g + j>>
  <2>1. \A j \in 1 .. k : <<c, g + j>> \in Unit
    BY <1>2, <1>5, SMTT(30) DEF Unit
  <2>0. k \in Nat
    BY <1>5
  <2>2. b \in [1 .. k -> Unit] /\ k \in Nat
    BY <1>6, <2>0, <2>1, Zenon
  <2>3. b \in Seq(Unit) /\ DOMAIN b = 1 .. k
    BY <2>2
  <2>4. Len(b) = k
    BY <2>2, <2>3
  <2>5. \A j \in 1 .. k : b[j] = <<c, g + j>>
    BY <1>6
  <2> QED
    BY <2>3, <2>4, <2>5
<1>8. PICK t : t = [task[i] EXCEPT !.pc = "send", !.buf = b]
  OBVIOUS
<1>9. t \in Task /\ t.pc = "send" /\ t.fd = task[i].fd /\ t.buf = b
  BY <1>7, <1>8, TaskOf, ZenonT(40) DEF Task, Pc
<1>10. task' = [task EXCEPT ![i] = t]
  BY <1>1, <1>2, <1>3, <1>6, <1>8 DEF Take
<1>11. task' \in [Tasks -> Task] /\ task'[i] = t /\ \A j \in Tasks : j # i => task'[j] = task[j]
  BY <1>9, <1>10, TaskSet
<1>12. net' = [net EXCEPT ![c].got = net[c].got + k]
  BY <1>1, <1>3 DEF Take
<1>13. /\ task'[i].pc = "send" /\ task'[i].fd = task[i].fd /\ Len(task'[i].buf) = k
       /\ \A j \in 1 .. k : task'[i].buf[j] = <<c, net[c].got + j>>
  BY <1>2, <1>7, <1>9, <1>11
<1> QED
  BY <1>1, <1>2, <1>5, <1>11, <1>12, <1>13

LEMMA BackTask ==
  ASSUME TypeOK, NEW i \in Tasks, task' = [task EXCEPT ![i] = Back(i)]
  PROVE  /\ task' \in [Tasks -> Task] /\ \A j \in Tasks : j # i => task'[j] = task[j]
         /\ i = Main => task'[i].pc = "scan"
         /\ i # Main => task'[i].pc = "recv" /\ task'[i].fd = task[i].fd
BY BackTyped, TaskSet

LEMMA StartTask ==
  ASSUME TypeOK, NEW i \in Tasks, task' = [task EXCEPT ![i].pc = "recv", ![i].fd = cfd]
  PROVE  /\ task' \in [Tasks -> Task] /\ \A j \in Tasks : j # i => task'[j] = task[j]
         /\ task'[i].pc = "recv" /\ task'[i].fd = cfd
<1>1. PICK t : t = [task[i] EXCEPT !.pc = "recv", !.fd = cfd]
  OBVIOUS
<1>2. t \in Task /\ t.pc = "recv" /\ t.fd = cfd
  <2>1. cfd \in Fds \cup {Listener, -1}
    BY DEF TypeOK, EchoTypeOK
  <2> QED
    BY <1>1, <2>1, TaskOf, ZenonT(40) DEF Task, Pc
<1>3. task' = [task EXCEPT ![i] = t]
  BY <1>1, TaskOf
<1>4. task' \in [Tasks -> Task] /\ task'[i] = t /\ \A j \in Tasks : j # i => task'[j] = task[j]
  BY <1>2, <1>3, TaskSet
<1> QED
  BY <1>2, <1>4, Zenon

-----------------------------------------------------------------------------
\* KernelInv, whatever changed the connections: a step that neither opens nor closes
\* one, ...
LEMMA KernelKept ==
  ASSUME KernelInv, UNCHANGED <<prog, said, file, queue>>,
         \A c \in Clients : /\ net'[c].st = net[c].st
                            /\ net'[c].got <= net'[c].sent /\ net'[c].sent <= Len(said[c]),
         TypeOK
  PROVE  KernelInv'
<1>1. \A f \in Fds : file[f] \in Clients \cup {NoClient}
  BY DEF TypeOK, KernelTypeOK
<1>2. \A i \in DOMAIN queue : queue[i] \in Clients
  BY DEF TypeOK, KernelTypeOK
<1> QED
  BY <1>1, <1>2 DEF KernelInv

\* ... one that calls connect(), ...
LEMMA KernelConnect ==
  ASSUME TypeOK, KernelInv, NEW c \in Clients, Connect(c), prog' = prog
  PROVE  KernelInv'
<1>1. /\ queue \in Seq(Clients) /\ queue' = Append(queue, c) /\ said' = said /\ file' = file
      /\ \A f \in Fds : file[f] \in Clients \cup {NoClient}
  BY DEF Connect, TypeOK, KernelTypeOK
<1>2. /\ Len(queue') = Len(queue) + 1 /\ DOMAIN queue' = 1 .. Len(queue) + 1
      /\ DOMAIN queue = 1 .. Len(queue) /\ Len(queue) \in Nat
      /\ queue'[Len(queue) + 1] = c /\ \A i \in DOMAIN queue : queue'[i] = queue[i]
      /\ \A i \in DOMAIN queue : queue[i] \in Clients
  BY <1>1
<1>3. \A i \in DOMAIN queue : queue[i] # c
  BY ConnectLink DEF KernelInv
<1>4. \A i \in DOMAIN queue' : net'[queue'[i]].st = "queued"
  BY <1>2, <1>3, ConnectLink DEF KernelInv
<1>5. \A i, j \in DOMAIN queue' : queue'[i] = queue'[j] => i = j
  BY <1>2, <1>3 DEF KernelInv
<1>6. \A f \in Fds : file[f] # NoClient => net'[file[f]].st = "open"
  BY <1>1, ConnectLink DEF KernelInv
<1>7. \A d \in Clients : net'[d].got = net[d].got /\ net'[d].sent = net[d].sent
  BY ConnectLink
<1> QED
  BY <1>1, <1>4, <1>5, <1>6, <1>7 DEF KernelInv

\* ... accept(), ...
LEMMA KernelAccept ==
  ASSUME TypeOK, KernelInv, NEW f \in Fds, AcceptOne(f), UNCHANGED <<prog, said>>
  PROVE  KernelInv'
<1>1. queue \in Seq(Clients) /\ queue # <<>> /\ queue' = Tail(queue)
  BY AcceptLink DEF TypeOK, KernelTypeOK
<1>2. PICK c \in Clients : c = Head(queue)
  BY AcceptLink
<1>3. /\ Len(queue) \in Nat \ {0} /\ DOMAIN queue = 1 .. Len(queue)
      /\ DOMAIN queue' = 1 .. Len(queue) - 1
      /\ c = queue[1] /\ \A i \in DOMAIN queue' : queue'[i] = queue[i + 1] /\ i + 1 \in DOMAIN queue
      /\ \A i \in DOMAIN queue : queue[i] \in Clients
  BY <1>1, <1>2
<1>4. net[c].st = "queued" /\ 1 \in DOMAIN queue
  BY <1>3 DEF KernelInv
<1>5. \A i \in DOMAIN queue' : queue'[i] \in Clients \ {c}
  <2>1. SUFFICES ASSUME NEW i \in DOMAIN queue', queue[i + 1] = queue[1] PROVE FALSE
    BY <1>3
  <2> QED
    BY <2>1, <1>3, <1>4 DEF KernelInv
<1>6. \A i \in DOMAIN queue' : net'[queue'[i]].st = "queued"
  BY <1>2, <1>3, <1>5, AcceptLink DEF KernelInv
<1>7. \A i, j \in DOMAIN queue' : queue'[i] = queue'[j] => i = j
  <2>1. SUFFICES ASSUME NEW i \in DOMAIN queue', NEW j \in DOMAIN queue',
                        queue[i + 1] = queue[j + 1]
                 PROVE  i = j
    BY <1>3
  <2>2. i \in Nat /\ j \in Nat
    BY <1>3
  <2>3. i + 1 = j + 1
    BY <2>1, <1>3 DEF KernelInv
  <2> QED
    BY <2>2, <2>3
<1>8. \A g \in Fds : file[g] # c
  BY <1>4, SocketKernelAssumption DEF SocketKernelAssumption, KernelInv
<1>9. \A g \in Fds : file'[g] # NoClient => net'[file'[g]].st = "open"
  BY <1>2, AcceptLink DEF KernelInv, TypeOK, KernelTypeOK
<1>10. \A g, h \in Fds : file'[g] = file'[h] /\ file'[g] # NoClient => g = h
  BY <1>2, <1>8, AcceptLink DEF KernelInv
<1>11. \A d \in Clients : net'[d].got = net[d].got /\ net'[d].sent = net[d].sent
  BY <1>2, AcceptLink
<1> QED
  BY <1>6, <1>7, <1>9, <1>10, <1>11 DEF KernelInv

\* ... close().
LEMMA KernelGone ==
  ASSUME TypeOK, KernelInv, NEW f \in Fds, NEW c \in Clients, file[f] = c,
         net' = [net EXCEPT ![c].st = "gone"],
         file'[f] = NoClient, \A g \in Fds : g # f => file'[g] = file[g],
         UNCHANGED <<prog, said, queue>>
  PROVE  KernelInv'
<1>1. \A d \in Clients : /\ d # c => net'[d] = net[d]
                         /\ net'[d].got = net[d].got /\ net'[d].sent = net[d].sent
  BY GoneLink
<1>2. \A i \in DOMAIN queue : queue[i] \in Clients /\ queue[i] # c
  <2>1. net[c].st = "open"
    BY SocketKernelAssumption DEF SocketKernelAssumption, KernelInv
  <2> QED
    BY <2>1 DEF KernelInv, TypeOK, KernelTypeOK
<1>3. \A g \in Fds : file'[g] # NoClient => g # f /\ file[g] = file'[g] /\ file[g] \in Clients \ {c}
  BY SocketKernelAssumption DEF SocketKernelAssumption, KernelInv, TypeOK, KernelTypeOK
<1>4. \A g \in Fds : file'[g] # NoClient => net'[file'[g]].st = "open"
  BY <1>1, <1>3 DEF KernelInv
<1>5. \A g, h \in Fds : file'[g] = file'[h] /\ file'[g] # NoClient => g = h
  BY <1>3 DEF KernelInv
<1>6. \A i \in DOMAIN queue' : net'[queue'[i]].st = "queued"
  BY <1>1, <1>2 DEF KernelInv
<1> QED
  BY <1>1, <1>4, <1>5, <1>6 DEF KernelInv

-----------------------------------------------------------------------------
\* A step of the reactors changes nothing that a loop goes by, and the other way round.
LEMMA ReactApart ==
  ASSUME ServedInv, React, UNCHANGED <<prog, echoVars>>
  PROVE  RoleInv' /\ LoopInv'
<1>1. ~Single /\ prog # "threads" /\ ~Single' /\ React'
  BY DEF Single, Echo, React
<1>2. task' = task /\ cfd' = cfd
  BY DEF echoVars
<1> QED
  BY <1>1, <1>2 DEF ServedInv, RoleInv, LoopInv, Busy

LEMMA EchoApart ==
  ASSUME ServedInv, Echo, UNCHANGED <<prog, reactorVars>>, TypeOK'
  PROVE  ReactInv' /\ RcInv'
<1>1. rpc = "loop" /\ evs = {} /\ rpc' = "loop" /\ evs' = {} /\ conn' = conn /\ prog' # "reactor"
  BY DEF ServedInv, RoleInv, React, Echo, reactorVars
<1>2. \A f \in Fds : conn'[f].rc = 0
  BY <1>1 DEF ServedInv, RcInv
<1>3. \A f \in Fds : file'[f] # NoClient => 0 <= net'[file'[f]].got
  BY DEF TypeOK, KernelTypeOK, Link
<1>4. 0 \in 0 .. BufferLength
  BY ReactorAssumption DEF ReactorAssumption
<1> QED
  BY <1>1, <1>2, <1>3, <1>4 DEF ServedInv, ReactInv, RcInv

\* A client that does something only adds to what there is to read, to be accepted, and
\* to the room there is.
LEMMA ClientKeeps ==
  ASSUME ServedInv, UNCHANGED <<prog, up, file, echoVars, reactorVars>>, TypeOK',
         queue # <<>> => queue' # <<>>,
         \A c \in Clients : /\ Readable(c) => Readable(c)'
                            /\ Writable(c) => Writable(c)'
                            /\ net'[c].got = net[c].got
  PROVE  RoleInv' /\ LoopInv' /\ ReactInv' /\ RcInv'
<1>1. /\ task' = task /\ watch' = watch /\ ready' = ready /\ eventfd' = eventfd
      /\ maxfd' = maxfd /\ cfd' = cfd /\ rpc' = rpc /\ evs' = evs /\ rfd' = rfd /\ conn' = conn
  BY DEF echoVars, loopVars, reactorVars
<1>2. \A f \in Fds : file[f] \in Clients \cup {NoClient}
  BY DEF ServedInv, TypeOK, KernelTypeOK
<1>3. RoleInv'
  BY <1>1 DEF ServedInv, RoleInv, React, Single, Echo, Busy
<1>4. LoopInv'
  <2>1. SUFFICES ASSUME Single PROVE LoopInv'
    BY <1>1 DEF LoopInv, Single, Echo
  <2>2. /\ watch \subseteq Fds /\ ready \ {Listener} \subseteq Fds
        /\ Busy(Main) => task[Main].fd \in Fds
    <3>1. Main \in Tasks
      BY DEF Tasks
    <3> QED
      BY <3>1 DEF ServedInv, RoleInv, TypeOK, EchoTypeOK
  <2>3. Busy(Main)' = Busy(Main) /\ Peer(Main)' = Peer(Main) /\ \A f \in Fds : Due(f)' = Due(f)
    BY <1>1 DEF Busy, Peer, Due
  <2>4. task[Main].pc = "recv" => Readable(Peer(Main))'
    <3>1. SUFFICES ASSUME task[Main].pc = "recv" PROVE Readable(Peer(Main))'
      OBVIOUS
    <3>2. Peer(Main) \in Clients /\ Readable(Peer(Main))
      BY <2>1, <2>2, <3>1, <1>2 DEF ServedInv, LoopInv, Busy, Peer
    <3> QED
      BY <3>2, <2>3
  <2>5. \A f \in ready \ {Listener} : Due(f) => file[f] # NoClient /\ Readable(file[f])'
    BY <2>1, <2>2, <1>2 DEF ServedInv, LoopInv
  <2> QED
    BY <2>1, <2>2, <2>3, <2>4, <2>5, <1>1 DEF ServedInv, LoopInv, Busy
<1>5. ReactInv'
  <2>1. \A f \in evs \ {Listener} : f \in Fds
    BY DEF ServedInv, TypeOK, ReactorTypeOK
  <2>2. \A f \in evs \ {Listener} : Asked(f)'
    BY <1>1, <1>2, <2>1 DEF ServedInv, ReactInv, Asked
  <2> QED
    BY <1>1, <2>2 DEF ServedInv, ReactInv
<1>6. RcInv'
  BY <1>1, <1>2 DEF ServedInv, RcInv
<1> QED
  BY <1>3, <1>4, <1>5, <1>6

LEMMA ClientServed ==
  ASSUME ServedInv, NEW c \in Clients, ClientStep(c), UNCHANGED <<echoVars, reactorVars>>
  PROVE  ServedInv'
<1> USE SocketKernelAssumption DEF SocketKernelAssumption
<1>1. TypeOK /\ KernelInv /\ net[c] \in Link /\ prog' = prog /\ up' = up
  BY LinkOf DEF ServedInv, ClientStep
<1>2. TypeOK'
  BY <1>1, ClientTypes
<1>3. KernelInv'
  <2>1. CASE Connect(c)
    BY <1>1, <2>1, KernelConnect
  <2>2. CASE ClientSend(c) \/ ClientClose(c) \/ ResetArrives(c)
    <3>1. UNCHANGED <<said, file, queue>>
      BY <2>2 DEF ClientSend, ClientClose, ResetArrives
    <3>2. \A d \in Clients : /\ net'[d].st = net[d].st
                             /\ net'[d].got <= net'[d].sent /\ net'[d].sent <= Len(said[d])
      <4>1. TAKE d \in Clients
      <4>2. /\ net[d].got <= net[d].sent /\ net[d].sent <= Len(said[d])
            /\ net[d].got \in Nat /\ net[d].sent \in Nat /\ Len(said[d]) \in Nat
        BY <1>1, LinkOf DEF KernelInv, Link
      <4>3. d # c => net'[d] = net[d]
        BY <1>1, <2>2, ClientSendLink, ClientCloseLink, ResetArrivesLink
      <4>4. /\ net'[c].st = net[c].st /\ net'[c].got = net[c].got
            /\ \/ net'[c].sent = net[c].sent
               \/ net'[c].sent = net[c].sent + 1 /\ net[c].sent < Len(said[c])
        <5>1. CASE ClientSend(c)
          BY <1>1, <5>1, ClientSendLink
        <5>2. CASE ClientClose(c)
          BY <1>1, <5>2, ClientCloseLink
        <5>3. CASE ResetArrives(c)
          BY <1>1, <5>3, ResetArrivesLink
        <5> QED
          BY <2>2, <5>1, <5>2, <5>3
      <4> QED
        BY <4>2, <4>3, <4>4
    <3> QED
      BY <1>1, <3>1, <3>2, KernelKept
  <2> QED
    BY <2>1, <2>2 DEF ClientStep
<1>4. queue # <<>> => queue' # <<>>
  <2>1. queue \in Seq(Clients)
    BY <1>1 DEF TypeOK, KernelTypeOK
  <2> QED
    BY <2>1 DEF ClientStep, Connect, ClientSend, ClientClose, ResetArrives
<1>5. file' = file
  BY DEF ClientStep, Connect, ClientSend, ClientClose, ResetArrives
<1>6. \A d \in Clients : /\ Readable(d) => Readable(d)'
                         /\ Writable(d) => Writable(d)'
                         /\ net'[d].got = net[d].got
  <2>1. /\ net'[c].got = net[c].got /\ net'[c].full = net[c].full
        /\ net'[c].sent >= net[c].sent /\ (net[c].fin => net'[c].fin)
        /\ net[c].rst # "none" => net'[c].rst # "none"
        /\ \A d \in Clients : d # c => net'[d] = net[d]
    <3>1. net[c].sent \in Int
      BY <1>1 DEF Link
    <3>2. CASE Connect(c)
      BY <1>1, <3>1, <3>2, ConnectLink
    <3>3. CASE ClientSend(c)
      <4>1. /\ net'[c].got = net[c].got /\ net'[c].full = net[c].full
            /\ net'[c].sent = net[c].sent + 1 /\ net'[c].fin = net[c].fin
            /\ net'[c].rst = net[c].rst /\ \A d \in Clients : d # c => net'[d] = net[d]
        BY <1>1, <3>3, ClientSendLink
      <4> QED
        BY <3>1, <4>1
    <3>4. CASE ClientClose(c)
      <4>1. /\ net'[c].got = net[c].got /\ net'[c].full = net[c].full
            /\ net'[c].sent = net[c].sent /\ ~net[c].fin
            /\ net[c].rst = "none" /\ \A d \in Clients : d # c => net'[d] = net[d]
        BY <1>1, <3>4, ClientCloseLink
      <4> QED
        BY <3>1, <4>1
    <3>5. CASE ResetArrives(c)
      BY <1>1, <3>1, <3>5, ResetArrivesLink
    <3> QED
      BY <3>2, <3>3, <3>4, <3>5 DEF ClientStep
  <2>2. net[c].sent \in Int /\ net[c].got \in Int /\ net'[c].sent \in Int
    BY <1>1, <1>2 DEF Link, TypeOK, KernelTypeOK
  <2>3. /\ Readable(c) => Readable(c)'
        /\ Writable(c) => Writable(c)'
    BY <2>1, <2>2 DEF Readable, Data, Writable
  <2>4. \A d \in Clients : d # c => Readable(d)' = Readable(d) /\ Writable(d)' = Writable(d)
    BY <2>1 DEF Readable, Data, Writable
  <2> QED
    BY <2>1, <2>3, <2>4
<1> QED
  BY <1>1, <1>2, <1>3, <1>4, <1>5, <1>6, ClientKeeps DEF ServedInv

-----------------------------------------------------------------------------
\* The steps of the echo servers.
LEMMA EchoOnly ==
  ASSUME ServedInv, NEW i \in Tasks, task[i].pc # "none"
  PROVE  /\ Echo /\ ~React /\ Main \in Tasks /\ TypeOK /\ KernelInv
         /\ Single => i = Main
         /\ prog = "threads" /\ task[i].pc # "accept" => i # Main
BY DEF ServedInv, RoleInv, Echo, React, TypeOK, KernelTypeOK, Programs, Tasks, Single

\* What was readable is, unless somebody reads.
LEMMA StillReadable ==
  ASSUME NEW c, net'[c] = net[c] PROVE Readable(c)' <=> Readable(c)
BY DEF Readable, Data

\* A step of main alone.
LEMMA SoleRole ==
  ASSUME ServedInv, Single, UNCHANGED <<prog, cfd, reactorVars>>,
         \A j \in Tasks : j # Main => task'[j] = task[j],
         task'[Main].pc # "start", Busy(Main)' => task'[Main].fd \in Fds
  PROVE  RoleInv'
<1>1. RoleInv /\ ~React /\ ~React' /\ Single' /\ prog' # "threads" /\ rpc' = rpc /\ evs' = evs
  BY DEF ServedInv, Single, Echo, React, reactorVars
<1>2. \A c \in Clients : c \in Tasks /\ c # Main
  BY EchoServersAssumption DEF EchoServersAssumption, Tasks
<1>3. \A c \in Clients : task'[c].pc = "none"
  BY <1>1, <1>2 DEF RoleInv
<1>4. \A i \in Tasks : /\ Busy(i)' => task'[i].fd \in Fds
                       /\ task'[i].pc = "start" => cfd' \in Fds
  BY <1>1 DEF RoleInv, Busy
<1> QED
  BY <1>1, <1>3, <1>4 DEF RoleInv

\* A step of a thread of socket_server_thread.cpp.
LEMMA ThreadRole ==
  ASSUME ServedInv, prog = "threads", UNCHANGED <<prog, cfd, reactorVars>>,
         NEW i \in Tasks, i # Main,
         \A j \in Tasks : j # i => task'[j] = task[j],
         task'[i].pc # "start", Busy(i)' => task'[i].fd \in Fds
  PROVE  RoleInv' /\ LoopInv'
<1>1. RoleInv /\ ~React /\ ~React' /\ ~Single' /\ prog' = prog /\ rpc' = rpc /\ evs' = evs
  BY DEF ServedInv, Single, Echo, React, reactorVars
<1>2. Main \in Tasks /\ task'[Main] = task[Main]
  BY DEF Tasks
<1>3. \A j \in Tasks : /\ Busy(j)' => task'[j].fd \in Fds
                       /\ task'[j].pc = "start" => cfd' \in Fds
  BY <1>1 DEF RoleInv, Busy
<1> QED
  BY <1>1, <1>2, <1>3 DEF RoleInv, LoopInv

LEMMA WaitServed ==
  ASSUME ServedInv, Wait, UNCHANGED reactorVars
  PROVE  ServedInv'
<1> USE SocketKernelAssumption, EchoServersAssumption
    DEF SocketKernelAssumption, EchoServersAssumption
<1>1. /\ UNCHANGED <<prog, up, net, said, queue, file, back, rude, watch, maxfd, cfd, raced, partial>>
      /\ ready' = Reported \cup Stale
      /\ eventfd' = IF Reported = {Listener} /\ prog # "epoll" THEN MaxFd + 1 ELSE 1
      /\ edge' = edge \ {file[f] : f \in Reported \ {Listener}} /\ task[Main].pc = "scan"
  BY DEF Wait
<1>2. Echo /\ Main \in Tasks /\ TypeOK /\ KernelInv /\ RoleInv /\ LoopInv /\ Single
  <2>1. Main \in Tasks
    BY DEF Tasks
  <2> QED
    BY <2>1, <1>1, EchoOnly DEF ServedInv, RoleInv, Single
<1>3. /\ watch \subseteq Fds /\ ready \subseteq Fds \cup {Listener} /\ maxfd \in Fds \cup {Listener}
      /\ edge \subseteq Clients
  BY <1>2 DEF TypeOK, EchoTypeOK, KernelTypeOK
<1>4. Stale = {}
  <2>1. prog = "poll" => \A f \in ready : f <= maxfd
    BY <1>2 DEF LoopInv
  <2>2. \A f \in ready : f \in Int /\ maxfd \in Int
    BY <1>3 DEF Fds, Listener
  <2>3. \A f \in ready : f <= maxfd => ~(f > maxfd)
    BY <2>2
  <2> QED
    BY <2>1, <2>3 DEF Stale
<1>5. ready' = Reported /\ Reported \subseteq Fds \cup {Listener}
  BY <1>1, <1>3, <1>4 DEF Reported, Waiting, Come
<1>6. /\ task' \in [Tasks -> Task]
      /\ task'[Main].pc = IF prog # "epoll" /\ Listener \in Reported THEN "accept" ELSE "scan"
      /\ \A i \in Tasks : i # Main => task'[i] = task[i]
  BY <1>2, WaitTask
<1>7. TypeOK'
  <2>1. edge' \subseteq Clients
    BY <1>1, <1>3
  <2>2. KernelTypeOK'
    BY <1>1, <1>2, <2>1 DEF TypeOK, KernelTypeOK
  <2>3. eventfd' \in Nat
    BY <1>1
  <2>4. EchoTypeOK'
    BY <1>1, <1>2, <1>5, <1>6, <2>3 DEF TypeOK, EchoTypeOK
  <2>5. ReactorTypeOK'
    BY <1>2 DEF TypeOK, ReactorTypeOK, reactorVars
  <2> QED
    BY <2>2, <2>4, <2>5 DEF TypeOK
<1>8. KernelInv'
  BY <1>1, <1>2, KernelKept DEF KernelInv
<1>9. RoleInv'
  <2>1. task'[Main].pc # "start" /\ ~Busy(Main)'
    BY <1>6 DEF Busy
  <2> QED
    BY <2>1, <1>1, <1>2, <1>6, SoleRole
<1>10. LoopInv'
  <2>1. ~Busy(Main)' /\ task'[Main].pc # "recv"
    BY <1>6 DEF Busy
  <2>2. Listener \in Reported => queue # <<>>
    BY <1>3 DEF Reported, Waiting, Come, Fds, Listener
  <2>3. \A f \in Reported \ {Listener} : f \in watch /\ Readable(file[f])
    BY DEF Reported, Waiting, Come
  <2>4. \A f \in Reported \ {Listener} : file'[f] # NoClient /\ Readable(file[f])'
    BY <1>1, <1>2, <2>3 DEF LoopInv, Readable, Data
  <2>5. prog # "epoll" => \A f \in Reported : f <= maxfd
    BY <1>3 DEF Reported, Waiting, Listener, Fds
  <2>6. task'[Main].pc = "accept" => queue # <<>>
    BY <1>6, <2>2
  <2> QED
    BY <1>1, <1>2, <1>5, <2>1, <2>2, <2>4, <2>5, <2>6 DEF LoopInv
<1> QED
  BY <1>2, <1>7, <1>8, <1>9, <1>10, <1>1, EchoApart DEF ServedInv

LEMMA ScanServed ==
  ASSUME ServedInv, Scan, UNCHANGED reactorVars
  PROVE  ServedInv'
<1> USE SocketKernelAssumption, EchoServersAssumption
    DEF SocketKernelAssumption, EchoServersAssumption
<1>1. PICK f \in Candidates :
       /\ prog # "epoll" => \A x \in Candidates : f <= x
       /\ task' = [task EXCEPT ![Main].pc = IF f = Listener THEN "accept" ELSE "recv",
                               ![Main].fd = f]
       /\ eventfd' = IF prog = "epoll" THEN eventfd ELSE f
       /\ ready' = IF prog = "poll" THEN ready ELSE ready \ {f}
  BY DEF Scan
<1>2. /\ UNCHANGED <<prog, up, net, said, queue, file, edge, back, rude, watch, maxfd, cfd, raced, partial>>
      /\ task[Main].pc = "scan"
  BY DEF Scan, kernel
<1>3. Echo /\ Main \in Tasks /\ TypeOK /\ KernelInv /\ RoleInv /\ LoopInv /\ Single
  <2>1. Main \in Tasks
    BY DEF Tasks
  <2> QED
    BY <2>1, <1>2, EchoOnly DEF ServedInv, RoleInv, Single
<1>4. /\ f \in ready /\ ready \subseteq Fds \cup {Listener} /\ maxfd \in Fds \cup {Listener}
      /\ eventfd \in Nat /\ watch \subseteq Fds
      /\ prog # "epoll" => f \in Fds /\ eventfd <= f
  BY <1>3 DEF TypeOK, EchoTypeOK, Candidates
<1>5. /\ task' \in [Tasks -> Task]
      /\ task'[Main].pc = (IF f = Listener THEN "accept" ELSE "recv") /\ task'[Main].fd = f
      /\ \A i \in Tasks : i # Main => task'[i] = task[i]
  BY <1>1, <1>3, <1>4, ScanTask
<1>6. TypeOK'
  <2>1. KernelTypeOK' /\ ReactorTypeOK'
    BY <1>2, <1>3 DEF TypeOK, KernelTypeOK, ReactorTypeOK, reactorVars
  <2>2. eventfd' \in Nat /\ ready' \subseteq Fds \cup {Listener}
    BY <1>1, <1>4 DEF Fds
  <2> QED
    BY <1>2, <1>3, <1>5, <2>1, <2>2 DEF TypeOK, EchoTypeOK
<1>7. KernelInv'
  BY <1>2, <1>3, KernelKept DEF KernelInv
<1>8. RoleInv'
  <2>1. task'[Main].pc # "start" /\ (Busy(Main)' => task'[Main].fd \in Fds)
    BY <1>4, <1>5 DEF Busy
  <2> QED
    BY <2>1, <1>2, <1>3, <1>5, SoleRole
<1>9. LoopInv'
  <2>1. f # Listener => file[f] # NoClient /\ Readable(file[f])
    BY <1>2, <1>3, <1>4 DEF LoopInv, Due, Busy
  <2>2. f = Listener => queue # <<>>
    BY <1>3, <1>4 DEF LoopInv
  <2>3. \A g \in ready' \ {Listener} : g \in ready \ {Listener} /\ (Due(g)' => Due(g))
    <3>1. SUFFICES ASSUME NEW g \in ready' \ {Listener}, Due(g)' PROVE Due(g)
      BY <1>1
    <3>2. CASE prog = "poll"
      <4>1. eventfd' = f /\ eventfd \in Nat /\ f \in Fds /\ g \in Fds /\ eventfd <= f
        BY <1>1, <1>4, <3>2
      <4>2. eventfd' <= g
        BY <1>2, <3>1, <3>2 DEF Due
      <4>3. eventfd <= g
        BY <4>1, <4>2 DEF Fds
      <4> QED
        BY <4>3, <1>2 DEF Due, Busy
    <3> QED
      BY <3>2 DEF Due
  <2>4. \A g \in ready' \ {Listener} : Due(g)' => file'[g] # NoClient /\ Readable(file[g])'
    <3>1. \A g \in ready \ {Listener} : Due(g) => file[g] # NoClient /\ Readable(file[g])
      BY <1>3 DEF LoopInv
    <3>2. \A c : Readable(c)' <=> Readable(c)
      BY <1>2 DEF Readable, Data
    <3> QED
      BY <2>3, <3>1, <3>2, <1>2
  <2>5. Busy(Main)' => /\ f # Listener /\ Peer(Main)' = file[f]
                       /\ IF prog = "poll" THEN eventfd' = f ELSE f \notin ready'
    BY <1>1, <1>2, <1>5 DEF Busy, Peer
  <2>6. task'[Main].pc = "recv" => Busy(Main)' /\ Readable(Peer(Main))'
    <3>1. task'[Main].pc = "recv" => Busy(Main)'
      BY DEF Busy
    <3>2. Readable(file[f])' <=> Readable(file[f])
      BY <1>2 DEF Readable, Data
    <3>3. Busy(Main)' => file'[f] = Peer(Main)'
      BY <2>5, <1>2
    <3> QED
      BY <2>1, <2>5, <3>1, <3>2, <3>3, <1>2
  <2>7. prog # "epoll" => \A g \in ready' : g <= maxfd
    BY <1>1, <1>3 DEF LoopInv
  <2>8. Listener \in ready' \/ task'[Main].pc = "accept" => queue # <<>>
    BY <1>1, <1>3, <1>5, <2>2 DEF LoopInv
  <2>9. \A g \in watch : file[g] # NoClient
    BY <1>3 DEF LoopInv
  <2> QED
    BY <1>2, <1>5, <2>1, <2>4, <2>5, <2>6, <2>7, <2>8, <2>9 DEF LoopInv
<1> QED
  BY <1>2, <1>3, <1>6, <1>7, <1>8, <1>9, EchoApart DEF ServedInv

LEMMA AcceptServed ==
  ASSUME ServedInv, Accept, UNCHANGED reactorVars
  PROVE  ServedInv'
<1> USE SocketKernelAssumption, EchoServersAssumption
    DEF SocketKernelAssumption, EchoServersAssumption
<1>1. PICK f \in Fds, p \in {"start", "failed"} :
       /\ task[Main].pc = "accept" /\ AcceptOne(f)
       /\ IF prog = "threads"
          THEN /\ cfd' = f
               /\ task' = [task EXCEPT ![Head(queue)].pc = p]
               /\ raced' = (raced \/ \E c \in Clients : task[c].pc = "start")
               /\ UNCHANGED <<edge, loopVars>>
          ELSE /\ watch' = watch \cup {f}
               /\ maxfd' = IF f > maxfd THEN f ELSE maxfd
               /\ ready' = ready \ {Listener}
               /\ edge' = IF prog = "epoll" THEN edge \cup {Head(queue)} ELSE edge
               /\ task' = [task EXCEPT ![Main] = [Off EXCEPT !.pc = "scan"]]
               /\ UNCHANGED <<eventfd, cfd, raced>>
       /\ UNCHANGED <<prog, up, said, back, rude, partial>>
  BY DEF Accept
<1>2. Echo /\ Main \in Tasks /\ TypeOK /\ KernelInv /\ RoleInv /\ LoopInv
  <2>1. Main \in Tasks
    BY DEF Tasks
  <2> QED
    BY <2>1, <1>1, EchoOnly DEF ServedInv
<1>3. PICK c \in Clients : c = Head(queue)
  BY <1>1, <1>2, AcceptLink
<1>4. /\ task' \in [Tasks -> Task]
      /\ prog = "threads" => /\ task'[c].pc = p
                             /\ \A i \in Tasks : i # c => task'[i] = task[i]
      /\ prog # "threads" => /\ task'[Main].pc = "scan"
                             /\ \A i \in Tasks : i # Main => task'[i] = task[i]
  BY <1>1, <1>2, <1>3, AcceptTask
<1>5. /\ net' \in [Clients -> Link] /\ queue' \in Seq(Clients)
      /\ file' \in [Fds -> Clients \cup {NoClient}]
      /\ file[f] = NoClient /\ file'[f] = c /\ \A g \in Fds : g # f => file'[g] = file[g]
      /\ \A d \in Clients : Readable(d)' <=> Readable(d)
  <2>1. /\ net' \in [Clients -> Link] /\ queue' \in Seq(Clients)
        /\ file' \in [Fds -> Clients \cup {NoClient}]
        /\ file[f] = NoClient /\ file'[f] = c /\ \A g \in Fds : g # f => file'[g] = file[g]
    BY <1>1, <1>2, <1>3, AcceptLink
  <2>2. /\ net'[c].sent = net[c].sent /\ net'[c].got = net[c].got
        /\ net'[c].fin = net[c].fin /\ net'[c].rst = net[c].rst
        /\ \A d \in Clients : d # c => net'[d] = net[d]
    BY <1>1, <1>2, <1>3, AcceptLink
  <2>3. \A d \in Clients : Readable(d)' <=> Readable(d)
    BY <2>2 DEF Readable, Data
  <2> QED
    BY <2>1, <2>3
<1>6. KernelInv'
  BY <1>1, <1>2, KernelAccept
<1>7. TypeOK'
  <2>1. edge' \subseteq Clients /\ prog' = prog /\ up' = up /\ rude' = rude
    BY <1>1, <1>2, <1>3 DEF TypeOK, KernelTypeOK, loopVars
  <2>2. KernelTypeOK'
    BY <1>2, <1>5, <2>1 DEF TypeOK, KernelTypeOK
  <2>3. /\ watch' \subseteq Fds /\ ready' \subseteq Fds \cup {Listener}
        /\ eventfd' \in Nat /\ maxfd' \in Fds \cup {Listener} /\ cfd' \in Fds \cup {-1}
        /\ raced' \in BOOLEAN /\ partial' \subseteq Clients
    BY <1>1, <1>2 DEF TypeOK, EchoTypeOK, loopVars
  <2>4. ReactorTypeOK'
    BY <1>2 DEF TypeOK, ReactorTypeOK, reactorVars
  <2> QED
    BY <1>4, <2>2, <2>3, <2>4 DEF TypeOK, EchoTypeOK
<1>8. RoleInv' /\ LoopInv'
  <2>1. CASE prog = "threads"
    <3>1. c \in Tasks /\ c # Main /\ ~Busy(c)'
      BY <1>3, <1>4, <2>1 DEF Tasks, Busy
    <3>2. ~React /\ ~React' /\ ~Single' /\ prog' = prog /\ rpc' = rpc /\ evs' = evs /\ cfd' = f
      BY <1>1, <2>1 DEF React, Single, reactorVars
    <3>3. task'[Main] = task[Main]
      BY <1>2, <1>4, <2>1, <3>1
    <3>4. \A j \in Tasks : /\ Busy(j)' => task'[j].fd \in Fds
                           /\ task'[j].pc = "start" => cfd' \in Fds
      BY <1>1, <1>2, <1>4, <2>1, <3>1, <3>2 DEF RoleInv, Busy
    <3> QED
      BY <1>2, <3>2, <3>3, <3>4 DEF RoleInv, LoopInv
  <2>2. CASE prog # "threads"
    <3>1. Single
      BY <1>2, <2>2 DEF Single
    <3>2. RoleInv'
      <4>1. task'[Main].pc # "start" /\ ~Busy(Main)' /\ prog' = prog /\ cfd' = cfd
        BY <1>1, <1>4, <2>2 DEF Busy
      <4> QED
        BY <3>1, <4>1, <1>4, <2>2, SoleRole
    <3>3. LoopInv'
      <4>1. ~Busy(Main)' /\ ~Busy(Main) /\ task'[Main].pc = "scan"
        BY <1>1, <1>4, <2>2 DEF Busy
      <4>2. \A g \in watch \cup {f} : file'[g] # NoClient
        BY <1>2, <1>5, <3>1 DEF LoopInv, TypeOK, EchoTypeOK
      <4>3. \A g \in ready' \ {Listener} : Due(g)' => file'[g] # NoClient /\ Readable(file[g])'
        <5>1. TAKE g \in ready' \ {Listener}
        <5>2. HAVE Due(g)'
        <5>3. g \in Fds /\ g \in ready \ {Listener}
          BY <1>1, <1>2, <2>2 DEF TypeOK, EchoTypeOK
        <5>4. Due(g)
          BY <5>2, <4>1, <1>1, <2>2 DEF Due
        <5>5. file[g] # NoClient /\ Readable(file[g])
          BY <1>2, <3>1, <5>3, <5>4 DEF LoopInv
        <5>6. g # f /\ file'[g] = file[g] /\ file[g] \in Clients
          BY <1>2, <1>5, <5>3, <5>5 DEF TypeOK, KernelTypeOK
        <5> QED
          BY <5>5, <5>6, <1>5 DEF Readable, Data
      <4>4. prog # "epoll" => \A g \in ready' : g <= maxfd'
        <5>1. SUFFICES ASSUME prog # "epoll", NEW g \in ready' PROVE g <= maxfd'
          OBVIOUS
        <5>2. g \in ready /\ g \in Int /\ maxfd \in Int /\ g <= maxfd
          BY <1>1, <1>2, <2>2, <3>1, <5>1 DEF LoopInv, TypeOK, EchoTypeOK, Fds, Listener
        <5> QED
          BY <5>2, <1>1, <2>2 DEF Fds
      <4>5. Listener \notin ready'
        BY <1>1, <2>2
      <4> QED
        BY <1>1, <2>2, <4>1, <4>2, <4>3, <4>4, <4>5 DEF LoopInv, Single, Echo
    <3> QED
      BY <3>2, <3>3
  <2> QED
    BY <2>1, <2>2
<1> QED
  BY <1>1, <1>2, <1>6, <1>7, <1>8, EchoApart DEF ServedInv

\* The turn of a task that has a descriptor: who it can be, and what it leaves alone.
LEMMA TurnOf ==
  ASSUME ServedInv, NEW i \in Tasks, Busy(i)
  PROVE  /\ Echo /\ TypeOK /\ KernelInv /\ task[i].fd \in Fds /\ task[i].pc # "none"
         /\ Peer(i) = file[task[i].fd] /\ Peer(i) \in Clients \cup {NoClient}
         /\ \/ Single /\ i = Main /\ Peer(i) # NoClient
            \/ ~Single /\ prog = "threads" /\ i # Main
<1>1. task[i].pc # "none" /\ task[i].pc # "accept" /\ task[i].fd \in Fds
  BY DEF Busy, ServedInv, RoleInv
<1>2. Echo /\ TypeOK /\ KernelInv /\ (Single => i = Main) /\ (prog = "threads" => i # Main)
  BY <1>1, EchoOnly
<1>3. Peer(i) \in Clients \cup {NoClient} /\ Peer(i) = file[task[i].fd]
  BY <1>1, <1>2, TaskOf DEF Peer
<1>4. Single => Peer(i) # NoClient
  BY <1>2 DEF ServedInv, LoopInv
<1> QED
  BY <1>1, <1>2, <1>3, <1>4 DEF Single

\* Main, done with a descriptor, goes on to the next.
LEMMA LoopOn ==
  ASSUME ServedInv, Single, Busy(Main), task'[Main].pc = "scan",
         eventfd' = (IF prog # "epoll" THEN eventfd + 1 ELSE eventfd),
         UNCHANGED <<prog, queue, ready, maxfd>>, watch' \subseteq watch,
         \A g \in watch' : file'[g] # NoClient,
         \A g \in Fds : g # task[Main].fd /\ file[g] # NoClient =>
                          file'[g] = file[g] /\ (Readable(file[g]) => Readable(file[g])')
  PROVE  LoopInv'
<1>1. TypeOK /\ LoopInv /\ ready \subseteq Fds \cup {Listener} /\ eventfd \in Nat
  BY DEF ServedInv, TypeOK, EchoTypeOK
<1>2. ~Busy(Main)' /\ task'[Main].pc # "recv" /\ task'[Main].pc # "accept"
  BY DEF Busy
<1>3. \A g \in ready \ {Listener} :
        Due(g)' => file'[g] # NoClient /\ Readable(file[g])'
  <2>1. TAKE g \in ready \ {Listener}
  <2>2. HAVE Due(g)'
  <2>3. g \in Fds /\ g \in Nat
    BY <1>1 DEF Fds
  <2>4. g # task[Main].fd
    <3>1. CASE prog = "poll"
      <4>1. eventfd' = task[Main].fd + 1 /\ eventfd = task[Main].fd
        BY <1>1, <3>1 DEF LoopInv
      <4>2. eventfd' <= g
        BY <2>2, <3>1 DEF Due
      <4> QED
        BY <4>1, <4>2, <1>1, <2>3
    <3>2. CASE prog # "poll"
      BY <1>1, <3>2 DEF LoopInv
    <3> QED
      BY <3>1, <3>2
  <2>5. Due(g)
    <3>1. CASE prog = "poll"
      <4>1. eventfd' = eventfd + 1 /\ eventfd' <= g
        BY <2>2, <3>1 DEF Due
      <4>2. eventfd <= g
        BY <4>1, <1>1, <2>3
      <4> QED
        BY <2>4, <4>2 DEF Due
    <3> QED
      BY <3>1 DEF Due
  <2>6. file[g] # NoClient /\ Readable(file[g])
    BY <1>1, <2>5 DEF LoopInv
  <2> QED
    BY <2>3, <2>4, <2>6
<1>4. Listener \in ready' => queue' # <<>>
  BY <1>1 DEF LoopInv
<1>5. prog' # "epoll" => \A g \in ready' : g <= maxfd'
  BY <1>1 DEF LoopInv
<1> QED
  BY <1>2, <1>3, <1>4, <1>5 DEF LoopInv

\* The types after a turn.
LEMMA TurnTypes ==
  ASSUME TypeOK, UNCHANGED <<prog, queue, rude, cfd, raced, ready, maxfd, reactorVars>>,
         net' \in [Clients -> Link], task' \in [Tasks -> Task], up' \in BOOLEAN,
         file' \in [Fds -> Clients \cup {NoClient}], edge' \subseteq edge,
         watch' \subseteq watch, eventfd' \in {eventfd, eventfd + 1},
         partial' \subseteq Clients
  PROVE  TypeOK'
<1>1. KernelTypeOK'
  BY DEF TypeOK, KernelTypeOK
<1>2. eventfd' \in Nat
  BY DEF TypeOK, EchoTypeOK
<1>3. EchoTypeOK'
  BY <1>2 DEF TypeOK, EchoTypeOK
<1>4. ReactorTypeOK'
  BY DEF TypeOK, ReactorTypeOK, reactorVars
<1> QED
  BY <1>1, <1>3, <1>4 DEF TypeOK

LEMMA StartServed ==
  ASSUME ServedInv, NEW i \in Tasks, Start(i), UNCHANGED reactorVars
  PROVE  ServedInv'
<1>1. /\ task[i].pc = "start" /\ task' = [task EXCEPT ![i].pc = "recv", ![i].fd = cfd]
      /\ UNCHANGED <<prog, up, net, said, queue, file, edge, back, rude, watch, ready, eventfd,
                     maxfd, cfd, raced, partial>>
  BY DEF Start, kernel, loopVars
<1>2. Echo /\ TypeOK /\ KernelInv /\ i # Main /\ ~Single /\ prog = "threads" /\ cfd \in Fds
  <2>1. i # Main /\ cfd \in Fds
    BY <1>1 DEF ServedInv, RoleInv
  <2> QED
    BY <2>1, <1>1, EchoOnly DEF Single
<1>3. /\ task' \in [Tasks -> Task] /\ \A j \in Tasks : j # i => task'[j] = task[j]
      /\ task'[i].pc = "recv" /\ task'[i].fd = cfd
  BY <1>1, <1>2, StartTask
<1>4. TypeOK'
  <2>1. /\ net' \in [Clients -> Link] /\ up' \in BOOLEAN /\ partial' \subseteq Clients
        /\ file' \in [Fds -> Clients \cup {NoClient}]
    BY <1>1, <1>2 DEF TypeOK, KernelTypeOK, EchoTypeOK
  <2> QED
    BY <1>1, <1>2, <1>3, <2>1, TurnTypes
<1>5. KernelInv'
  BY <1>1, <1>2, KernelKept DEF KernelInv
<1>6. RoleInv' /\ LoopInv'
  BY <1>1, <1>2, <1>3, ThreadRole
<1> QED
  BY <1>1, <1>2, <1>4, <1>5, <1>6, EchoApart DEF ServedInv

LEMMA SpinServed ==
  ASSUME ServedInv, NEW i \in Tasks, Spin(i), UNCHANGED reactorVars
  PROVE  ServedInv'
<1>1. /\ Busy(i) /\ Peer(i) = NoClient /\ task' = [task EXCEPT ![i] = Back(i)]
      /\ UNCHANGED <<prog, up, net, said, queue, file, edge, back, rude, watch, ready, eventfd,
                     maxfd, cfd, raced, partial>>
  BY DEF Spin, kernel, loopVars, Busy
<1>2. Echo /\ TypeOK /\ KernelInv /\ i # Main /\ ~Single /\ prog = "threads" /\ task[i].fd \in Fds
  BY <1>1, TurnOf
<1>3. /\ task' \in [Tasks -> Task] /\ \A j \in Tasks : j # i => task'[j] = task[j]
      /\ task'[i].pc = "recv" /\ task'[i].fd = task[i].fd
  BY <1>1, <1>2, BackTask
<1>4. TypeOK'
  <2>1. /\ net' \in [Clients -> Link] /\ up' \in BOOLEAN /\ partial' \subseteq Clients
        /\ file' \in [Fds -> Clients \cup {NoClient}]
    BY <1>1, <1>2 DEF TypeOK, KernelTypeOK, EchoTypeOK
  <2> QED
    BY <1>1, <1>2, <1>3, <2>1, TurnTypes
<1>5. KernelInv'
  BY <1>1, <1>2, KernelKept DEF KernelInv
<1>6. RoleInv' /\ LoopInv'
  BY <1>1, <1>2, <1>3, ThreadRole
<1> QED
  BY <1>1, <1>2, <1>4, <1>5, <1>6, EchoApart DEF ServedInv

LEMMA SendServed ==
  ASSUME ServedInv, NEW i \in Tasks, Send(i), UNCHANGED reactorVars
  PROVE  ServedInv'
<1>1. /\ Busy(i) /\ Peer(i) # NoClient /\ task' = [task EXCEPT ![i] = Back(i)]
      /\ SendTo(Peer(i), task[i].buf)
      /\ eventfd' = IF i = Main /\ prog # "epoll" THEN eventfd + 1 ELSE eventfd
      /\ UNCHANGED <<prog, said, queue, file, edge, rude, watch, ready, maxfd, cfd, raced, partial>>
  BY DEF Send, Onward, Busy
<1>2. /\ Echo /\ TypeOK /\ KernelInv /\ task[i].fd \in Fds /\ task[i].pc # "none"
      /\ Peer(i) \in Clients
      /\ (Single /\ i = Main) \/ (~Single /\ prog = "threads" /\ i # Main)
  BY <1>1, TurnOf
<1>3. /\ task' \in [Tasks -> Task] /\ \A j \in Tasks : j # i => task'[j] = task[j]
      /\ i = Main => task'[i].pc = "scan"
      /\ i # Main => task'[i].pc = "recv" /\ task'[i].fd = task[i].fd
  BY <1>1, <1>2, BackTask
<1>4. /\ net' \in [Clients -> Link] /\ up' \in BOOLEAN
      /\ \A d \in Clients : /\ net'[d].st = net[d].st /\ net'[d].sent = net[d].sent
                            /\ net'[d].got = net[d].got /\ (Readable(d) => Readable(d)')
  <2>1. /\ net' \in [Clients -> Link]
        /\ \A d \in Clients : d # Peer(i) => net'[d] = net[d]
        /\ net'[Peer(i)].st = net[Peer(i)].st /\ net'[Peer(i)].sent = net[Peer(i)].sent
        /\ net'[Peer(i)].got = net[Peer(i)].got /\ net'[Peer(i)].fin = net[Peer(i)].fin
        /\ \/ up' = FALSE /\ net' = net
           \/ /\ up' = up
              /\ net'[Peer(i)].rst = (IF net[Peer(i)].rst = "err" THEN "dead" ELSE net[Peer(i)].rst)
    BY <1>1, <1>2, SendToLink
  <2>2. up' \in BOOLEAN
    BY <1>2, <2>1 DEF TypeOK, KernelTypeOK
  <2>3. \A c \in Clients : c = Peer(i) => (Readable(c) => Readable(c)')
    <3>1. SUFFICES ASSUME NEW c \in Clients, c = Peer(i) PROVE Readable(c) => Readable(c)'
      OBVIOUS
    <3>2. net'[c].sent = net[c].sent /\ net'[c].got = net[c].got /\ net'[c].fin = net[c].fin
          /\ (net[c].rst # "none" => net'[c].rst # "none")
      BY <2>1, <3>1
    <3> QED
      BY <3>2 DEF Readable, Data
  <2> QED
    BY <2>1, <2>2, <2>3 DEF Readable, Data
<1>5. TypeOK'
  <2>1. /\ partial' \subseteq Clients /\ file' \in [Fds -> Clients \cup {NoClient}]
    BY <1>1, <1>2 DEF TypeOK, KernelTypeOK, EchoTypeOK
  <2> QED
    BY <1>1, <1>2, <1>3, <1>4, <2>1, TurnTypes
<1>6. KernelInv'
  <2>1. \A d \in Clients : net[d].got <= net[d].sent /\ net[d].sent <= Len(said[d])
    BY <1>2 DEF KernelInv
  <2> QED
    BY <1>1, <1>2, <1>4, <2>1, KernelKept
<1>7. RoleInv' /\ LoopInv'
  <2>1. CASE ~Single
    <3>1. task'[i].pc # "start" /\ (Busy(i)' => task'[i].fd \in Fds)
      BY <1>2, <1>3, <2>1
    <3> QED
      BY <1>1, <1>2, <1>3, <2>1, <3>1, ThreadRole
  <2>2. CASE Single
    <3>1. i = Main /\ task'[Main].pc = "scan" /\ ~Busy(Main)'
      BY <1>2, <1>3, <2>2 DEF Busy
    <3>2. RoleInv'
      BY <1>1, <1>3, <2>2, <3>1, SoleRole
    <3>3. \A g \in watch : g \in Fds /\ file[g] # NoClient
      BY <1>2, <2>2 DEF ServedInv, LoopInv, TypeOK, EchoTypeOK
    <3>4. \A g \in Fds : file[g] # NoClient => (Readable(file[g]) => Readable(file[g])')
      <4>1. TAKE g \in Fds
      <4>2. file[g] \in Clients \cup {NoClient} /\ file' = file
        BY <1>1, <1>2 DEF TypeOK, KernelTypeOK
      <4> QED
        BY <4>2, <1>4 DEF Readable, Data
    <3>5. LoopInv'
      BY <1>1, <2>2, <3>1, <3>3, <3>4, LoopOn
    <3> QED
      BY <3>2, <3>5
  <2> QED
    BY <2>1, <2>2
<1> QED
  BY <1>1, <1>2, <1>5, <1>6, <1>7, EchoApart DEF ServedInv

LEMMA TakeServed ==
  ASSUME ServedInv, NEW i \in Tasks, Busy(i), Peer(i) # NoClient,
         Received(Peer(i)) = "data", Take(i),
         UNCHANGED <<prog, said, queue, rude, cfd, raced, reactorVars>>
  PROVE  ServedInv'
<1>1. /\ Echo /\ TypeOK /\ KernelInv /\ task[i].fd \in Fds /\ task[i].pc # "none"
      /\ Peer(i) = file[task[i].fd]
      /\ (Single /\ i = Main) \/ (~Single /\ prog = "threads" /\ i # Main)
  BY TurnOf
<1>2. UNCHANGED <<up, file, edge, back, watch, ready, eventfd, maxfd>>
  BY DEF Take, loopVars
<1>3. PICK c \in Clients : c = Peer(i)
  BY <1>1, TakeFacts
<1>4. PICK k \in 1 .. MaxSend :
        /\ k <= Data(c) /\ net[c].got + k \in 0 .. MaxSend
        /\ net' = [net EXCEPT ![c].got = net[c].got + k]
        /\ task' \in [Tasks -> Task] /\ \A j \in Tasks : j # i => task'[j] = task[j]
        /\ task'[i].pc = "send" /\ task'[i].fd = task[i].fd
  BY <1>1, <1>3, TakeFacts
<1>5. /\ net' \in [Clients -> Link] /\ \A d \in Clients : d # c => net'[d] = net[d]
      /\ net'[c].got = net[c].got + k /\ net'[c].sent = net[c].sent /\ net'[c].st = net[c].st
  BY <1>1, <1>4, GotLink
<1>6. TypeOK'
  <2>1. /\ partial' \subseteq Clients /\ file' \in [Fds -> Clients \cup {NoClient}]
        /\ up' \in BOOLEAN
    BY <1>1, <1>2, <1>3 DEF TypeOK, KernelTypeOK, EchoTypeOK, Take
  <2> QED
    BY <1>1, <1>2, <1>4, <1>5, <2>1, TurnTypes
<1>7. KernelInv'
  <2>1. \A d \in Clients : net[d].got <= net[d].sent /\ net[d].sent <= Len(said[d])
    BY <1>1 DEF KernelInv
  <2>2. net[c].got + k <= net[c].sent
    <3>1. net[c].got \in Int /\ net[c].sent \in Int /\ k \in Int /\ k <= net[c].sent - net[c].got
      BY <1>1, <1>4, LinkOf DEF Link, Data
    <3> QED
      BY <3>1
  <2>3. \A d \in Clients : /\ net'[d].st = net[d].st
                           /\ net'[d].got <= net'[d].sent /\ net'[d].sent <= Len(said[d])
    BY <1>5, <2>1, <2>2
  <2> QED
    BY <1>1, <1>2, <2>3, KernelKept
<1>8. RoleInv' /\ LoopInv'
  <2>1. CASE ~Single
    <3>1. task'[i].pc # "start" /\ (Busy(i)' => task'[i].fd \in Fds)
      BY <1>1, <1>4
    <3> QED
      BY <1>1, <1>4, <2>1, <3>1, ThreadRole
  <2>2. CASE Single
    <3>1. i = Main /\ task'[Main].pc = "send" /\ task'[Main].fd = task[Main].fd /\ Busy(Main)'
      BY <1>1, <1>4, <2>2 DEF Busy
    <3>2. RoleInv'
      BY <1>1, <1>4, <2>2, <3>1, SoleRole
    <3>3. LoopInv /\ ready \subseteq Fds \cup {Listener}
      BY <1>1 DEF ServedInv, TypeOK, EchoTypeOK
    <3>4. \A g \in ready \ {Listener} : Due(g) => file[g] # NoClient /\ Readable(file[g])'
      <4>1. TAKE g \in ready \ {Listener}
      <4>2. HAVE Due(g)
      <4>3. g # task[Main].fd /\ g \in Fds
        BY <4>2, <3>1, <3>3, <2>2 DEF LoopInv, Due
      <4>4. file[g] # NoClient /\ Readable(file[g]) /\ file[g] \in Clients
        BY <4>2, <4>3, <3>3, <2>2, <1>1 DEF LoopInv, TypeOK, KernelTypeOK
      <4>5. file[g] # c
        BY <4>3, <4>4, <1>1, <1>3, <3>1 DEF KernelInv
      <4> QED
        BY <4>4, <4>5, <1>2, <1>5 DEF Readable, Data
    <3>5. \A g \in Fds : Due(g)' => Due(g)
      BY <1>2, <3>1 DEF Due, Busy
    <3>6. Peer(Main)' # NoClient /\ ~(task'[Main].pc = "recv") /\ ~(task'[Main].pc = "accept")
      BY <1>1, <1>2, <3>1 DEF Peer
    <3>7. IF prog = "poll" THEN eventfd = task[Main].fd ELSE task[Main].fd \notin ready
      BY <3>1, <3>3, <2>2 DEF LoopInv
    <3>8. /\ \A g \in watch : file[g] # NoClient
          /\ Listener \in ready => queue # <<>>
          /\ prog # "epoll" => \A g \in ready : g <= maxfd
      BY <3>3, <2>2 DEF LoopInv
    <3>9. \A g \in ready' \ {Listener} : Due(g)' => file'[g] # NoClient /\ Readable(file[g])'
      BY <1>2, <3>3, <3>4, <3>5
    <3> QED
      BY <1>2, <3>1, <3>2, <3>6, <3>7, <3>8, <3>9 DEF LoopInv
  <2> QED
    BY <2>1, <2>2
<1> QED
  BY <1>1, <1>2, <1>6, <1>7, <1>8, EchoApart DEF ServedInv

LEMMA CloseServed ==
  ASSUME ServedInv, NEW i \in Tasks, Busy(i), Peer(i) # NoClient, Close(i),
         UNCHANGED <<prog, said, queue, rude, cfd, raced, reactorVars>>
  PROVE  ServedInv'
<1>1. /\ Echo /\ TypeOK /\ KernelInv /\ task[i].fd \in Fds /\ task[i].pc # "none"
      /\ Peer(i) = file[task[i].fd]
      /\ (Single /\ i = Main) \/ (~Single /\ prog = "threads" /\ i # Main)
  BY TurnOf
<1>2. PICK c \in Clients : c = Peer(i)
  BY <1>1, CloseFacts
<1>3. /\ net' = [net EXCEPT ![c].st = "gone"]
      /\ file' \in [Fds -> Clients \cup {NoClient}] /\ file'[task[i].fd] = NoClient
      /\ \A g \in Fds : g # task[i].fd => file'[g] = file[g]
      /\ task' \in [Tasks -> Task] /\ \A j \in Tasks : j # i => task'[j] = task[j]
      /\ task'[i].pc = IF i = Main THEN "scan" ELSE "none"
      /\ watch' = IF i = Main THEN watch \ {task[i].fd} ELSE watch
      /\ maxfd' = maxfd
  BY <1>1, <1>2, CloseFacts
<1>4. /\ UNCHANGED <<up, back, partial, ready>> /\ edge' \subseteq edge
      /\ eventfd' = IF i = Main /\ prog # "epoll" THEN eventfd + 1 ELSE eventfd
  BY DEF Close, Onward
<1>5. /\ net' \in [Clients -> Link]
      /\ \A d \in Clients : Readable(d) => Readable(d)'
  BY <1>1, <1>3, GoneLink DEF Readable, Data
<1>6. TypeOK'
  <2>1. partial' \subseteq Clients /\ up' \in BOOLEAN /\ watch' \subseteq watch
    BY <1>1, <1>3, <1>4 DEF TypeOK, KernelTypeOK, EchoTypeOK
  <2> QED
    BY <1>1, <1>3, <1>4, <1>5, <2>1, TurnTypes
<1>7. KernelInv'
  BY <1>1, <1>2, <1>3, KernelGone
<1>8. RoleInv' /\ LoopInv'
  <2>1. CASE ~Single
    <3>1. task'[i].pc # "start" /\ ~Busy(i)'
      BY <1>1, <1>3, <2>1 DEF Busy
    <3> QED
      BY <1>1, <1>3, <2>1, <3>1, ThreadRole
  <2>2. CASE Single
    <3>1. i = Main /\ task'[Main].pc = "scan" /\ ~Busy(Main)'
      BY <1>1, <1>3, <2>2 DEF Busy
    <3>2. RoleInv'
      BY <1>3, <2>2, <3>1, SoleRole
    <3>3. \A g \in watch' : file'[g] # NoClient
      BY <1>1, <1>3, <2>2, <3>1 DEF ServedInv, LoopInv, TypeOK, EchoTypeOK
    <3>4. \A g \in Fds : g # task[Main].fd /\ file[g] # NoClient =>
                           file'[g] = file[g] /\ (Readable(file[g]) => Readable(file[g])')
      <4>1. TAKE g \in Fds
      <4>2. file[g] \in Clients \cup {NoClient} /\ (g # task[Main].fd => file'[g] = file[g])
        BY <1>1, <1>3, <3>1 DEF TypeOK, KernelTypeOK
      <4> QED
        BY <4>2, <1>5 DEF Readable, Data
    <3>5. LoopInv'
      BY <1>3, <1>4, <2>2, <3>1, <3>3, <3>4, LoopOn
    <3> QED
      BY <3>2, <3>5
  <2> QED
    BY <2>1, <2>2
<1> QED
  BY <1>1, <1>6, <1>7, <1>8, EchoApart DEF ServedInv

LEMMA FailServed ==
  ASSUME ServedInv, NEW i \in Tasks, Busy(i), Peer(i) # NoClient, Fail(i),
         UNCHANGED <<prog, said, queue, rude, cfd, raced, reactorVars>>
  PROVE  ServedInv'
<1>1. /\ Echo /\ TypeOK /\ KernelInv /\ task[i].fd \in Fds /\ task[i].pc # "none"
      /\ Peer(i) \in Clients
      /\ (Single /\ i = Main) \/ (~Single /\ prog = "threads" /\ i # Main)
  BY TurnOf
<1>2. /\ up' \in BOOLEAN /\ net' = [net EXCEPT ![Peer(i)].rst = "dead"]
      /\ task' = [task EXCEPT ![i] = Back(i)]
      /\ eventfd' = IF i = Main /\ prog # "epoll" THEN eventfd + 1 ELSE eventfd
      /\ UNCHANGED <<file, edge, back, watch, ready, maxfd>>
  BY DEF Fail, Onward
<1>3. /\ task' \in [Tasks -> Task] /\ \A j \in Tasks : j # i => task'[j] = task[j]
      /\ i = Main => task'[i].pc = "scan"
      /\ i # Main => task'[i].pc = "recv" /\ task'[i].fd = task[i].fd
  BY <1>1, <1>2, BackTask
<1>4. /\ net' \in [Clients -> Link]
      /\ \A d \in Clients : /\ net'[d].st = net[d].st /\ net'[d].sent = net[d].sent
                            /\ net'[d].got = net[d].got /\ (Readable(d) => Readable(d)')
  BY <1>1, <1>2, DeadLink DEF Readable, Data
<1>5. TypeOK'
  <2>1. /\ partial' \subseteq Clients /\ file' \in [Fds -> Clients \cup {NoClient}]
    BY <1>1, <1>2 DEF TypeOK, KernelTypeOK, EchoTypeOK, Fail
  <2> QED
    BY <1>1, <1>2, <1>3, <1>4, <2>1, TurnTypes
<1>6. KernelInv'
  <2>1. \A d \in Clients : net[d].got <= net[d].sent /\ net[d].sent <= Len(said[d])
    BY <1>1 DEF KernelInv
  <2> QED
    BY <1>1, <1>2, <1>4, <2>1, KernelKept
<1>7. RoleInv' /\ LoopInv'
  <2>1. CASE ~Single
    <3>1. task'[i].pc # "start" /\ (Busy(i)' => task'[i].fd \in Fds)
      BY <1>1, <1>3, <2>1
    <3> QED
      BY <1>1, <1>2, <1>3, <2>1, <3>1, ThreadRole
  <2>2. CASE Single
    <3>1. i = Main /\ task'[Main].pc = "scan" /\ ~Busy(Main)'
      BY <1>1, <1>3, <2>2 DEF Busy
    <3>2. RoleInv'
      BY <1>1, <1>3, <2>2, <3>1, SoleRole
    <3>3. \A g \in watch : g \in Fds /\ file[g] # NoClient
      BY <1>1, <2>2 DEF ServedInv, LoopInv, TypeOK, EchoTypeOK
    <3>4. \A g \in Fds : file[g] # NoClient => (Readable(file[g]) => Readable(file[g])')
      <4>1. TAKE g \in Fds
      <4>2. file[g] \in Clients \cup {NoClient} /\ file' = file
        BY <1>1, <1>2 DEF TypeOK, KernelTypeOK
      <4> QED
        BY <4>2, <1>4 DEF Readable, Data
    <3>5. LoopInv'
      BY <1>2, <2>2, <3>1, <3>3, <3>4, LoopOn
    <3> QED
      BY <3>2, <3>5
  <2> QED
    BY <2>1, <2>2
<1> QED
  BY <1>1, <1>5, <1>6, <1>7, EchoApart DEF ServedInv

LEMMA EchoServed ==
  ASSUME ServedInv, EchoStep, UNCHANGED reactorVars
  PROVE  ServedInv'
<1>1. ASSUME NEW i \in Tasks, Recv(i) PROVE ServedInv'
  <2>1. /\ Busy(i) /\ Peer(i) # NoClient /\ UNCHANGED <<prog, said, queue, rude, cfd, raced>>
        /\ \/ Received(Peer(i)) = "data" /\ Take(i)
           \/ Received(Peer(i)) = "end" /\ Close(i)
           \/ Received(Peer(i)) = "error" /\ Fail(i)
    BY <1>1 DEF Recv, Busy
  <2>2. CASE Received(Peer(i)) = "data" /\ Take(i)
    BY <2>1, <2>2, TakeServed
  <2>3. CASE Received(Peer(i)) = "end" /\ Close(i)
    BY <2>1, <2>3, CloseServed
  <2>4. CASE Received(Peer(i)) = "error" /\ Fail(i)
    BY <2>1, <2>4, FailServed
  <2> QED
    BY <2>1, <2>2, <2>3, <2>4
<1> QED
  BY <1>1, WaitServed, AcceptServed, ScanServed, StartServed, SpinServed, SendServed
     DEF EchoStep, TaskStep

-----------------------------------------------------------------------------
\* The connect_t of a descriptor after a callback.
LEMMA BufferType == BufferLength \in Nat \ {0} /\ Buffer \subseteq Nat \ {0}
BY ReactorAssumption DEF ReactorAssumption, Buffer

LEMMA ConnOf ==
  ASSUME TypeOK, NEW f \in Fds
  PROVE  conn[f] \in Connect_t /\ file[f] \in Clients \cup {NoClient}
BY DEF TypeOK, ReactorTypeOK, KernelTypeOK

LEMMA ConnSet ==
  ASSUME TypeOK, NEW f \in Fds, NEW x \in Connect_t, conn' = [conn EXCEPT ![f] = x]
  PROVE  /\ conn' \in [Fds -> Connect_t] /\ conn'[f] = x
         /\ \A g \in Fds : g # f => conn'[g] = conn[g]
BY DEF TypeOK, ReactorTypeOK

LEMMA CbConn ==
  ASSUME TypeOK, NEW f \in Fds, NEW p \in {"recv", "send"}, conn' = [conn EXCEPT ![f].cb = p]
  PROVE  /\ conn' \in [Fds -> Connect_t] /\ \A g \in Fds : g # f => conn'[g] = conn[g]
         /\ conn'[f].cb = p /\ conn'[f].rc = conn[f].rc /\ conn'[f].rbuf = conn[f].rbuf
         /\ conn'[f].res = conn[f].res /\ conn'[f].hdr = conn[f].hdr /\ conn'[f].flag = conn[f].flag
         /\ conn'[f].ask = conn[f].ask /\ conn'[f].was = conn[f].was /\ conn'[f].still = conn[f].still
<1>1. PICK x : x = [conn[f] EXCEPT !.cb = p]
  OBVIOUS
<1>2. /\ x \in Connect_t /\ x.cb = p /\ x.rc = conn[f].rc /\ x.rbuf = conn[f].rbuf
      /\ x.res = conn[f].res /\ x.hdr = conn[f].hdr /\ x.flag = conn[f].flag
      /\ x.ask = conn[f].ask /\ x.was = conn[f].was /\ x.still = conn[f].still
  BY <1>1, ConnOf, SMTT(30) DEF Connect_t
<1>3. conn' = [conn EXCEPT ![f] = x]
  BY <1>1
<1>4. /\ conn' \in [Fds -> Connect_t] /\ conn'[f] = x
      /\ \A g \in Fds : g # f => conn'[g] = conn[g]
  BY <1>2, <1>3, ConnSet
<1> QED
  BY <1>2, <1>4, Zenon

LEMMA DisconnectConn ==
  ASSUME TypeOK, NEW f \in Fds, conn' = [conn EXCEPT ![f].rc = 0, ![f].hdr = NoHdr]
  PROVE  /\ conn' \in [Fds -> Connect_t] /\ \A g \in Fds : g # f => conn'[g] = conn[g]
         /\ conn'[f].cb = conn[f].cb /\ conn'[f].rc = 0 /\ conn'[f].rbuf = conn[f].rbuf
         /\ conn'[f].res = conn[f].res /\ conn'[f].hdr = NoHdr /\ conn'[f].flag = conn[f].flag
         /\ conn'[f].ask = conn[f].ask /\ conn'[f].was = conn[f].was /\ conn'[f].still = conn[f].still
<1>1. PICK x : x = [conn[f] EXCEPT !.rc = 0, !.hdr = NoHdr]
  OBVIOUS
<1>2. 0 \in -1 .. MaxSend /\ NoHdr \in [name : Names \cup {None}, len : 0 .. MaxSize]
  BY SocketKernelAssumption, ReactorAssumption
     DEF SocketKernelAssumption, ReactorAssumption, NoHdr
<1>3. /\ x \in Connect_t /\ x.cb = conn[f].cb /\ x.rc = 0 /\ x.rbuf = conn[f].rbuf
      /\ x.res = conn[f].res /\ x.hdr = NoHdr /\ x.flag = conn[f].flag
      /\ x.ask = conn[f].ask /\ x.was = conn[f].was /\ x.still = conn[f].still
  BY <1>1, <1>2, ConnOf, ZenonT(40) DEF Connect_t
<1>4. conn' = [conn EXCEPT ![f] = x]
  BY <1>1
<1>5. /\ conn' \in [Fds -> Connect_t] /\ conn'[f] = x
      /\ \A g \in Fds : g # f => conn'[g] = conn[g]
  BY <1>3, <1>4, ConnSet
<1> QED
  BY <1>3, <1>5, Zenon

LEMMA ErrorConn ==
  ASSUME TypeOK, NEW f \in Fds, conn[f].rc >= 0,
         conn' = [conn EXCEPT ![f].cb = "send", ![f].rc = conn[f].rc - 1]
  PROVE  /\ conn' \in [Fds -> Connect_t] /\ \A g \in Fds : g # f => conn'[g] = conn[g]
         /\ conn'[f].cb = "send" /\ conn'[f].rc = conn[f].rc - 1 /\ conn'[f].rbuf = conn[f].rbuf
         /\ conn'[f].res = conn[f].res /\ conn'[f].hdr = conn[f].hdr /\ conn'[f].flag = conn[f].flag
         /\ conn'[f].ask = conn[f].ask /\ conn'[f].was = conn[f].was /\ conn'[f].still = conn[f].still
<1>1. PICK x : x = [conn[f] EXCEPT !.cb = "send", !.rc = conn[f].rc - 1]
  OBVIOUS
<1>2. conn[f].rc - 1 \in -1 .. MaxSend
  BY ConnOf, SocketKernelAssumption DEF Connect_t, SocketKernelAssumption
<1>3. /\ x \in Connect_t /\ x.cb = "send" /\ x.rc = conn[f].rc - 1 /\ x.rbuf = conn[f].rbuf
      /\ x.res = conn[f].res /\ x.hdr = conn[f].hdr /\ x.flag = conn[f].flag
      /\ x.ask = conn[f].ask /\ x.was = conn[f].was /\ x.still = conn[f].still
  BY <1>1, <1>2, ConnOf, ZenonT(40) DEF Connect_t
<1>4. conn' = [conn EXCEPT ![f] = x]
  BY <1>1
<1>5. /\ conn' \in [Fds -> Connect_t] /\ conn'[f] = x
      /\ \A g \in Fds : g # f => conn'[g] = conn[g]
  BY <1>3, <1>4, ConnSet
<1> QED
  BY <1>3, <1>5, Zenon

\* recv_cb of the reactor on descriptor f of client c, that takes k units.
Filled(f, c, k) ==
  /\ k \in Nat /\ 1 <= k /\ k <= BufferLength
  /\ net[c].got + k <= net[c].sent /\ net[c].got + k \in 0 .. MaxSend
  /\ net' = [net EXCEPT ![c].got = net[c].got + k]
  /\ up' = (conn[f].rc + k <= BufferLength)
  /\ conn' \in [Fds -> Connect_t] /\ \A g \in Fds : g # f => conn'[g] = conn[g]
  /\ conn'[f].cb = "send" /\ conn'[f].rc = conn[f].rc + k
  /\ conn'[f].rc <= net[c].got + k
  /\ conn'[f].rbuf = [i \in Buffer |-> IF i <= k THEN <<c, net[c].got + i>>
                                              ELSE conn[f].rbuf[i]]
  /\ conn'[f].res = conn[f].res /\ conn'[f].hdr = conn[f].hdr /\ conn'[f].flag = conn[f].flag
  /\ conn'[f].ask = conn[f].ask /\ conn'[f].was = conn[f].was /\ conn'[f].still = conn[f].still

LEMMA FillConn ==
  ASSUME TypeOK, NEW f \in Fds, NEW c \in Clients, c = file[f], Data(c) > 0,
         conn[f].rc <= net[c].got, net[c].sent <= MaxSend, Fill(f), NEW k, k = Taken(c)
  PROVE  Filled(f, c, k)
<1> USE SocketKernelAssumption DEF SocketKernelAssumption
<1>1. /\ net[c].got \in Nat /\ net[c].sent \in Nat
      /\ conn[f].rc \in Int /\ -1 <= conn[f].rc /\ BufferLength \in Nat \ {0}
  BY LinkOf, ConnOf, BufferType DEF Link, Connect_t
<1>2. k \in Nat /\ 1 <= k /\ k <= BufferLength /\ net[c].got + k <= net[c].sent
  <2>1. PICK d : d = Data(c)
    OBVIOUS
  <2>2. d \in Nat /\ d > 0 /\ net[c].got + d = net[c].sent
    BY <1>1, <2>1 DEF Data
  <2>3. k = IF d < BufferLength THEN d ELSE BufferLength
    BY <2>1 DEF Taken
  <2> QED
    BY <1>1, <2>2, <2>3
<1>3. PICK b : b = [i \in Buffer |-> IF i <= k THEN <<c, net[c].got + i>> ELSE conn[f].rbuf[i]]
  OBVIOUS
<1>4. b \in [Buffer -> (Clients \X (1 .. MaxSend)) \cup {Blank}]
  <2>1. conn[f].rbuf \in [Buffer -> (Clients \X (1 .. MaxSend)) \cup {Blank}]
    BY ConnOf, SMTT(30) DEF Connect_t
  <2>2. \A i \in Buffer : i <= k => net[c].got + i \in 1 .. MaxSend
    <3>1. \A i \in Buffer : i \in Nat \ {0}
      BY BufferType
    <3>2. PICK g \in Nat, n \in Nat : g = net[c].got /\ n = net[c].sent
      BY <1>1
    <3>3. g + k <= n /\ n <= MaxSend /\ k \in Nat
      BY <1>2, <3>2
    <3>4. ASSUME NEW i \in Nat \ {0}, i <= k PROVE g + i \in 1 .. MaxSend
      BY <3>3, <3>4
    <3> QED
      BY <3>1, <3>2, <3>4
  <2> QED
    BY <1>3, <2>1, <2>2
<1>5. PICK x : x = [conn[f] EXCEPT !.cb = "send", !.rc = conn[f].rc + k, !.rbuf = b]
  OBVIOUS
<1>6. /\ conn[f].rc + k \in -1 .. MaxSend /\ conn[f].rc + k <= net[c].got + k
      /\ net[c].got + k \in 0 .. MaxSend
  <2>1. PICK r \in Int, g \in Nat, n \in Nat : r = conn[f].rc /\ g = net[c].got /\ n = net[c].sent
    BY <1>1
  <2>2. -1 <= r /\ r <= g /\ g + k <= n /\ n <= MaxSend /\ k \in Nat
    BY <1>1, <1>2, <2>1
  <2>3. r + k \in -1 .. MaxSend /\ r + k <= g + k /\ g + k \in 0 .. MaxSend
    BY <2>2
  <2> QED
    BY <2>1, <2>3
<1>7. /\ x \in Connect_t /\ x.cb = "send" /\ x.rc = conn[f].rc + k /\ x.rbuf = b
      /\ x.res = conn[f].res /\ x.hdr = conn[f].hdr /\ x.flag = conn[f].flag
      /\ x.ask = conn[f].ask /\ x.was = conn[f].was /\ x.still = conn[f].still
  <2>1. PICK q \in -1 .. MaxSend : q = conn[f].rc + k
    BY <1>6
  <2>2. PICK z \in Connect_t : z = conn[f]
    BY ConnOf
  <2>3. x = [z EXCEPT !.cb = "send", !.rc = q, !.rbuf = b]
    BY <1>5, <2>1, <2>2
  <2>4. /\ x \in Connect_t /\ x.cb = "send" /\ x.rc = q /\ x.rbuf = b
        /\ x.res = z.res /\ x.hdr = z.hdr /\ x.flag = z.flag
        /\ x.ask = z.ask /\ x.was = z.was /\ x.still = z.still
    BY <1>4, <2>3, ZenonT(40) DEF Connect_t
  <2> QED
    BY <2>1, <2>2, <2>4
<1>8. conn' = [conn EXCEPT ![f] = x]
  <2>1. conn' = [conn EXCEPT ![f].cb = "send", ![f].rc = @ + k,
           ![f].rbuf = [i \in Buffer |-> IF i <= k THEN <<c, net[c].got + i>> ELSE @[i]]]
    BY DEF Fill
  <2> QED
    BY <2>1, <1>3, <1>5
<1>9. /\ conn' \in [Fds -> Connect_t] /\ conn'[f] = x
      /\ \A g \in Fds : g # f => conn'[g] = conn[g]
  BY <1>7, <1>8, ConnSet
<1>10. /\ net' = [net EXCEPT ![c].got = net[c].got + k]
       /\ up' = (conn[f].rc + k <= BufferLength)
  BY DEF Fill
<1> QED
  BY <1>2, <1>3, <1>6, <1>7, <1>9, <1>10, Zenon DEF Filled

LEMMA RequestConn ==
  ASSUME TypeOK, NEW f \in Fds, NEW c \in Clients, c = file[f],
         NEW r \in Names \cup {"post"}, r = said[c][net[c].got + 1], Request(f)
  PROVE  /\ net' = [net EXCEPT ![c].got = net[c].sent]
         /\ conn' \in [Fds -> Connect_t] /\ \A g \in Fds : g # f => conn'[g] = conn[g]
         /\ conn'[f].cb = "send" /\ conn'[f].rc = conn[f].rc /\ conn'[f].rbuf = conn[f].rbuf
         /\ conn'[f].res = (IF r = "post" THEN conn[f].res ELSE r)
         /\ conn'[f].hdr = conn[f].hdr /\ conn'[f].flag = conn[f].flag
         /\ conn'[f].ask = r /\ conn'[f].was = (IF r = "post" THEN 0 ELSE size[r])
         /\ conn'[f].still = TRUE
<1>1. PICK w \in 0 .. MaxSize : w = IF r = "post" THEN 0 ELSE size[r]
  BY ReactorAssumption DEF ReactorAssumption, TypeOK, ReactorTypeOK
<1>2. PICK s \in Names \cup {None} : s = IF r = "post" THEN conn[f].res ELSE r
  BY ConnOf, SMTT(30) DEF Connect_t
<1>3. PICK a \in Names \cup {None, "post"} : a = r
  OBVIOUS
<1>4. PICK x : x = [conn[f] EXCEPT !.cb = "send", !.res = s, !.ask = a, !.was = w, !.still = TRUE]
  OBVIOUS
<1>5. /\ x \in Connect_t /\ x.cb = "send" /\ x.rc = conn[f].rc /\ x.rbuf = conn[f].rbuf
      /\ x.res = s /\ x.hdr = conn[f].hdr /\ x.flag = conn[f].flag
      /\ x.ask = a /\ x.was = w /\ x.still = TRUE
  BY <1>4, ConnOf, ZenonT(40) DEF Connect_t
<1>6. conn' = [conn EXCEPT ![f] = x]
  <2>1. conn' = [conn EXCEPT ![f].cb = "send", ![f].res = IF r = "post" THEN @ ELSE r,
                              ![f].ask = r, ![f].was = IF r = "post" THEN 0 ELSE size[r],
                              ![f].still = TRUE]
    BY DEF Request
  <2> QED
    BY <1>4, <1>1, <1>2, <1>3, <2>1
<1>7. /\ conn' \in [Fds -> Connect_t] /\ conn'[f] = x
      /\ \A g \in Fds : g # f => conn'[g] = conn[g]
  BY <1>5, <1>6, ConnSet
<1>8. net' = [net EXCEPT ![c].got = net[c].sent]
  BY DEF Request
<1> QED
  BY <1>1, <1>2, <1>3, <1>5, <1>7, <1>8, Zenon

LEMMA ResponseType ==
  ASSUME TypeOK, NEW f \in Fds
  PROVE  LET x == Response(f)
         IN  /\ x \in Connect_t /\ x.cb = conn[f].cb /\ x.rc = conn[f].rc /\ x.rbuf = conn[f].rbuf
             /\ x.res = conn[f].res /\ x.ask = conn[f].ask /\ x.was = conn[f].was
             /\ x.still = conn[f].still
             /\ IF conn[f].res = None \/ size[conn[f].res] = 0
                THEN x.hdr = conn[f].hdr /\ x.flag = conn[f].flag
                ELSE x.hdr = [name |-> conn[f].res, len |-> size[conn[f].res]] /\ x.flag = TRUE
<1>1. PICK x : x = Response(f)
  OBVIOUS
<1>2. CASE conn[f].res = None \/ size[conn[f].res] = 0
  <2>1. x = conn[f]
    BY <1>1, <1>2 DEF Response
  <2> QED
    BY <1>1, <1>2, <2>1, ConnOf
<1>3. CASE ~(conn[f].res = None \/ size[conn[f].res] = 0)
  <2>1. x = [conn[f] EXCEPT !.hdr = [name |-> conn[f].res, len |-> size[conn[f].res]], !.flag = TRUE]
    BY <1>1, <1>3 DEF Response
  <2>2. PICK h : h = [name |-> conn[f].res, len |-> size[conn[f].res]]
    OBVIOUS
  <2>3. conn[f].res \in Names /\ size[conn[f].res] \in 0 .. MaxSize
    BY <1>3, ConnOf DEF Connect_t, TypeOK, ReactorTypeOK
  <2>4. h \in [name : Names \cup {None}, len : 0 .. MaxSize]
    BY <2>2, <2>3
  <2>5. /\ x \in Connect_t /\ x.cb = conn[f].cb /\ x.rc = conn[f].rc /\ x.rbuf = conn[f].rbuf
        /\ x.res = conn[f].res /\ x.ask = conn[f].ask /\ x.was = conn[f].was
        /\ x.still = conn[f].still /\ x.hdr = h /\ x.flag = TRUE
    BY <2>1, <2>2, <2>4, ConnOf, ZenonT(40) DEF Connect_t
  <2> QED
    BY <1>1, <1>3, <2>2, <2>5, Zenon
<1> QED
  BY <1>2, <1>3

LEMMA ReadsType ==
  ASSUME NEW x \in Connect_t
  PROVE  /\ Reads(x) \in Connect_t /\ Reads(x).cb = "recv" /\ Reads(x).rc = x.rc
         /\ Reads(x).rbuf = x.rbuf /\ Reads(x).res = x.res /\ Reads(x).hdr = x.hdr
         /\ Reads(x).flag = x.flag /\ Reads(x).ask = None /\ Reads(x).was = 0
         /\ Reads(x).still = TRUE
<1>1. 0 \in 0 .. MaxSize
  BY ReactorAssumption DEF ReactorAssumption
<1> QED
  BY <1>1 DEF Reads, Connect_t

\* After the header: send_cb goes on with the body, or reads again.
LEMMA HeaderConn ==
  ASSUME TypeOK, NEW f \in Fds, conn[f].cb = "send",
         conn' = [conn EXCEPT ![f] = IF Response(f).flag THEN Response(f) ELSE Reads(Response(f))]
  PROVE  /\ conn' \in [Fds -> Connect_t] /\ \A g \in Fds : g # f => conn'[g] = conn[g]
         /\ conn'[f].rc = conn[f].rc /\ conn'[f].res = conn[f].res
         /\ conn'[f].hdr = Response(f).hdr /\ conn'[f].flag = Response(f).flag
         /\ Response(f).flag => /\ conn'[f].cb = "send" /\ conn'[f].ask = conn[f].ask
                                /\ conn'[f].was = conn[f].was /\ conn'[f].still = conn[f].still
         /\ ~Response(f).flag => conn'[f].cb = "recv" /\ conn'[f].ask = None
<1>1. PICK x : x = IF Response(f).flag THEN Response(f) ELSE Reads(Response(f))
  OBVIOUS
<1>2. /\ x \in Connect_t /\ x.rc = conn[f].rc /\ x.res = conn[f].res
      /\ x.hdr = Response(f).hdr /\ x.flag = Response(f).flag
      /\ Response(f).flag => /\ x.cb = "send" /\ x.ask = conn[f].ask
                             /\ x.was = conn[f].was /\ x.still = conn[f].still
      /\ ~Response(f).flag => x.cb = "recv" /\ x.ask = None
  BY <1>1, ResponseType, ReadsType
<1>3. conn' = [conn EXCEPT ![f] = x]
  BY <1>1
<1>4. /\ conn' \in [Fds -> Connect_t] /\ conn'[f] = x
      /\ \A g \in Fds : g # f => conn'[g] = conn[g]
  BY <1>2, <1>3, ConnSet
<1> QED
  BY <1>2, <1>4, Zenon

\* After the body: send_cb reads again.
LEMMA BodyConn ==
  ASSUME TypeOK, NEW f \in Fds, conn' = [conn EXCEPT ![f] = [Reads(conn[f]) EXCEPT !.flag = FALSE]]
  PROVE  /\ conn' \in [Fds -> Connect_t] /\ \A g \in Fds : g # f => conn'[g] = conn[g]
         /\ conn'[f].rc = conn[f].rc /\ conn'[f].res = conn[f].res /\ conn'[f].hdr = conn[f].hdr
         /\ conn'[f].flag = FALSE /\ conn'[f].cb = "recv" /\ conn'[f].ask = None
<1>1. PICK x : x = [Reads(conn[f]) EXCEPT !.flag = FALSE]
  OBVIOUS
<1>2. /\ x \in Connect_t /\ x.rc = conn[f].rc /\ x.res = conn[f].res /\ x.hdr = conn[f].hdr
      /\ x.flag = FALSE /\ x.cb = "recv" /\ x.ask = None
  <2>1. PICK y \in Connect_t :
          /\ y = Reads(conn[f]) /\ y.rc = conn[f].rc /\ y.res = conn[f].res /\ y.hdr = conn[f].hdr
          /\ y.cb = "recv" /\ y.ask = None
    BY ConnOf, ReadsType
  <2> QED
    BY <1>1, <2>1 DEF Connect_t
<1>3. conn' = [conn EXCEPT ![f] = x]
  BY <1>1
<1>4. /\ conn' \in [Fds -> Connect_t] /\ conn'[f] = x
      /\ \A g \in Fds : g # f => conn'[g] = conn[g]
  BY <1>2, <1>3, ConnSet
<1> QED
  BY <1>2, <1>4, Zenon

LEMMA ChangeConn ==
  ASSUME TypeOK, NEW y \in Names,
         conn' = [f \in Fds |-> IF conn[f].ask = y THEN [conn[f] EXCEPT !.still = FALSE] ELSE conn[f]]
  PROVE  /\ conn' \in [Fds -> Connect_t]
         /\ \A f \in Fds :
              /\ conn'[f].rc = conn[f].rc /\ conn'[f].rbuf = conn[f].rbuf /\ conn'[f].cb = conn[f].cb
              /\ conn'[f].res = conn[f].res /\ conn'[f].hdr = conn[f].hdr
              /\ conn'[f].flag = conn[f].flag /\ conn'[f].ask = conn[f].ask
              /\ conn'[f].was = conn[f].was
              /\ conn'[f].still = (conn[f].still /\ conn[f].ask # y)
<1>1. \A f \in Fds :
        /\ conn'[f] \in Connect_t
        /\ conn'[f].rc = conn[f].rc /\ conn'[f].rbuf = conn[f].rbuf /\ conn'[f].cb = conn[f].cb
        /\ conn'[f].res = conn[f].res /\ conn'[f].hdr = conn[f].hdr
        /\ conn'[f].flag = conn[f].flag /\ conn'[f].ask = conn[f].ask
        /\ conn'[f].was = conn[f].was
        /\ conn'[f].still = (conn[f].still /\ conn[f].ask # y)
  <2>1. TAKE f \in Fds
  <2>2. PICK x : x = [conn[f] EXCEPT !.still = FALSE]
    OBVIOUS
  <2>3. /\ x \in Connect_t
        /\ x.rc = conn[f].rc /\ x.rbuf = conn[f].rbuf /\ x.cb = conn[f].cb
        /\ x.res = conn[f].res /\ x.hdr = conn[f].hdr
        /\ x.flag = conn[f].flag /\ x.ask = conn[f].ask
        /\ x.was = conn[f].was /\ x.still = FALSE
    BY <2>2, ConnOf, ZenonT(40) DEF Connect_t
  <2>4. conn'[f] = IF conn[f].ask = y THEN x ELSE conn[f]
    BY <2>2
  <2>5. conn[f] \in Connect_t /\ conn[f].still \in BOOLEAN
    BY ConnOf, SMTT(30) DEF Connect_t
  <2>6. CASE conn[f].ask = y
    <3>1. conn'[f] = x
      BY <2>4, <2>6
    <3> QED
      BY <3>1, <2>3, <2>6, Zenon
  <2>7. CASE conn[f].ask # y
    <3>1. conn'[f] = conn[f]
      BY <2>4, <2>7
    <3> QED
      BY <3>1, <2>5, <2>7, Zenon
  <2> QED
    BY <2>6, <2>7
<1>2. conn' \in [Fds -> Connect_t]
  BY <1>1
<1> QED
  BY <1>1, <1>2, Zenon

-----------------------------------------------------------------------------
\* The steps of the reactors.

\* An event that is handled is one of a client, which it alone has.
LEMMA CalledOf ==
  ASSUME ServedInv, NEW f \in Fds, NEW p, Called(f, p)
  PROVE  /\ React /\ TypeOK /\ KernelInv /\ rpc = "loop" /\ conn[f].cb = p
         /\ file[f] \in Clients /\ file[f] # NoClient
         /\ f \in evs /\ evs' = evs \ {f} /\ evs' \subseteq Fds \cup {Listener}
         /\ \A g \in Fds : g # f /\ file[g] # NoClient => file[g] # file[f]
<1>1. rpc = "loop" /\ f \in evs /\ conn[f].cb = p /\ evs' = evs \ {f} /\ f # Listener
  BY DEF Called, Fds, Listener
<1>2. React
  BY <1>1 DEF ServedInv, RoleInv
<1>3. TypeOK /\ KernelInv /\ file[f] # NoClient /\ evs \subseteq Fds \cup {Listener}
  BY <1>1 DEF ServedInv, ReactInv, Asked, TypeOK, ReactorTypeOK
<1>4. file[f] \in Clients
  BY <1>3, ConnOf
<1> QED
  BY <1>1, <1>2, <1>3, <1>4 DEF KernelInv

\* What is left of the events after one of them.
LEMMA EventsKept ==
  ASSUME ServedInv, NEW f \in Fds, evs' \subseteq evs \ {f}, queue' = queue,
         NEW c \in Clients, file[f] = c,
         \A g \in Fds : g # f => file'[g] = file[g] /\ conn'[g] = conn[g],
         \A d \in Clients : d # c => net'[d] = net[d]
  PROVE  (Listener \in evs' => queue' # <<>>) /\ \A g \in evs' \ {Listener} : Asked(g)'
<1>1. ReactInv /\ TypeOK /\ KernelInv /\ evs \subseteq Fds \cup {Listener}
  BY DEF ServedInv, TypeOK, ReactorTypeOK
<1>2. ASSUME NEW g \in evs' \ {Listener} PROVE Asked(g)'
  <2>1. g \in Fds /\ g # f /\ Asked(g)
    BY <1>1, <1>2 DEF ReactInv
  <2>2. file[g] \in Clients /\ file[g] # NoClient /\ file[g] # c
    BY <2>1, <1>1, ConnOf DEF Asked, KernelInv
  <2>3. file'[g] = file[g] /\ conn'[g] = conn[g] /\ net'[file[g]] = net[file[g]]
    BY <2>1, <2>2
  <2> QED
    BY <2>1, <2>3 DEF Asked, Readable, Writable, Data
<1>3. Listener \in evs' => queue' # <<>>
  BY <1>1 DEF ReactInv
<1> QED
  BY <1>2, <1>3

LEMMA RcKept ==
  ASSUME ServedInv, React, NEW f \in Fds, NEW c \in Clients, file[f] = c,
         prog' = prog, up' => up,
         \A g \in Fds : g # f => file'[g] = file[g] /\ conn'[g] = conn[g],
         \A d \in Clients : d # c => net'[d] = net[d],
         prog # "reactor" \/ file'[f] = NoClient => conn'[f].rc = 0,
         file'[f] # NoClient => conn'[f].rc <= net'[file'[f]].got,
         up' => conn'[f].rc \in 0 .. BufferLength
  PROVE  RcInv'
<1>1. TypeOK /\ KernelInv /\ RcInv
  BY DEF ServedInv
<1>2. ASSUME NEW g \in Fds, g # f
      PROVE  /\ prog' # "reactor" \/ file'[g] = NoClient => conn'[g].rc = 0
             /\ file'[g] # NoClient => conn'[g].rc <= net'[file'[g]].got
             /\ up' => conn'[g].rc \in 0 .. BufferLength
  <2>1. file'[g] = file[g] /\ conn'[g] = conn[g]
    BY <1>2
  <2>2. file[g] # NoClient => file[g] \in Clients /\ file[g] # c
    BY <1>1, <1>2, ConnOf DEF KernelInv
  <2> QED
    BY <2>1, <2>2, <1>1 DEF RcInv
<1> QED
  BY <1>2 DEF RcInv

\* The types after a callback.
LEMMA CallTypes ==
  ASSUME TypeOK, UNCHANGED <<prog, queue, edge, rude, size, moves, echoVars>>,
         net' \in [Clients -> Link], file' \in [Fds -> Clients \cup {NoClient}], up' \in BOOLEAN,
         conn' \in [Fds -> Connect_t], rpc' \in {"loop", "body"}, rfd' \in Fds \cup {Listener},
         evs' \subseteq Fds \cup {Listener}, spun' \in BOOLEAN
  PROVE  TypeOK'
<1>1. KernelTypeOK'
  BY DEF TypeOK, KernelTypeOK
<1>2. EchoTypeOK'
  BY DEF TypeOK, EchoTypeOK, echoVars, loopVars
<1>3. ReactorTypeOK'
  BY DEF TypeOK, ReactorTypeOK
<1> QED
  BY <1>1, <1>2, <1>3 DEF TypeOK

LEMMA EpollWaitServed ==
  ASSUME ServedInv, EpollWait, UNCHANGED echoVars
  PROVE  ServedInv'
<1> USE SocketKernelAssumption DEF SocketKernelAssumption
<1>1. /\ React /\ evs' = Events /\ rpc = "loop"
      /\ UNCHANGED <<prog, up, net, said, queue, file, edge, back, rude, rpc, rfd, conn, size, moves, spun>>
  BY DEF EpollWait, kernel
<1>2. TypeOK /\ KernelInv /\ RoleInv /\ ReactInv /\ RcInv
  BY DEF ServedInv
<1>3. Events \subseteq Fds \cup {Listener}
  BY DEF Events
<1>4. TypeOK'
  BY <1>1, <1>2, <1>3, CallTypes DEF TypeOK, KernelTypeOK, ReactorTypeOK
<1>5. KernelInv'
  BY <1>1, <1>2, KernelKept DEF KernelInv
<1>6. ReactInv'
  <2>1. \A g \in Events \ {Listener} : Asked(g)'
    <3>1. \A g \in Events \ {Listener} : Asked(g)
      BY DEF Events
    <3>2. \A g : Asked(g)' <=> Asked(g)
      BY <1>1 DEF Asked, Readable, Writable, Data
    <3> QED
      BY <3>1, <3>2
  <2>2. Listener \in Events => queue # <<>>
    BY DEF Events, Fds, Listener
  <2> QED
    BY <1>1, <1>2, <2>1, <2>2 DEF ReactInv
<1>7. RcInv'
  BY <1>1, <1>2 DEF RcInv
<1> QED
  BY <1>1, <1>2, <1>4, <1>5, <1>6, <1>7, ReactApart DEF ServedInv

LEMMA AcceptCbServed ==
  ASSUME ServedInv, Accept_cb, UNCHANGED echoVars
  PROVE  ServedInv'
<1> USE SocketKernelAssumption DEF SocketKernelAssumption
<1>1. PICK f \in Fds :
        /\ rpc = "loop" /\ Listener \in evs /\ evs' = evs \ {Listener}
        /\ conn' = [conn EXCEPT ![f].cb = "recv"]
        /\ AcceptOne(f)
        /\ UNCHANGED <<prog, up, said, edge, back, rude, rpc, rfd, size, moves, spun>>
  BY DEF Accept_cb
<1>2. TypeOK /\ KernelInv /\ RoleInv /\ ReactInv /\ RcInv /\ React
  BY <1>1 DEF ServedInv, RoleInv
<1>3. PICK c \in Clients : c = Head(queue)
  BY <1>1, <1>2, AcceptLink
<1>4. /\ net' \in [Clients -> Link] /\ queue' \in Seq(Clients)
      /\ file' \in [Fds -> Clients \cup {NoClient}]
      /\ file[f] = NoClient /\ file'[f] = c /\ \A g \in Fds : g # f => file'[g] = file[g]
      /\ \A d \in Clients : d # c => net'[d] = net[d]
      /\ net'[c].got = net[c].got /\ net'[c].sent = net[c].sent /\ net'[c].fin = net[c].fin
      /\ net'[c].rst = net[c].rst /\ net'[c].full = net[c].full
  BY <1>1, <1>2, <1>3, AcceptLink
<1>5. /\ conn' \in [Fds -> Connect_t] /\ \A g \in Fds : g # f => conn'[g] = conn[g]
      /\ conn'[f].rc = conn[f].rc /\ conn'[f].res = conn[f].res /\ conn'[f].flag = conn[f].flag
  BY <1>1, <1>2, CbConn
<1>6. \A d \in Clients : /\ net'[d].got = net[d].got
                         /\ (Readable(d)' <=> Readable(d)) /\ (Writable(d)' <=> Writable(d))
  BY <1>4 DEF Readable, Writable, Data
<1>7. TypeOK'
  <2>1. KernelTypeOK'
    BY <1>1, <1>2, <1>4 DEF TypeOK, KernelTypeOK
  <2>2. EchoTypeOK'
    BY <1>2 DEF TypeOK, EchoTypeOK, echoVars, loopVars
  <2>3. ReactorTypeOK'
    BY <1>1, <1>2, <1>5 DEF TypeOK, ReactorTypeOK
  <2> QED
    BY <2>1, <2>2, <2>3 DEF TypeOK
<1>8. KernelInv'
  BY <1>1, <1>2, KernelAccept
<1>9. ReactInv'
  <2>1. f \notin evs
    BY <1>2, <1>4 DEF ReactInv, Asked, Fds, Listener
  <2>2. ASSUME NEW g \in evs \ {Listener} PROVE Asked(g)'
    <3>1. g \in Fds /\ g # f /\ Asked(g)
      BY <1>2, <2>1, <2>2 DEF ReactInv, TypeOK, ReactorTypeOK
    <3>2. file[g] \in Clients /\ file'[g] = file[g] /\ conn'[g] = conn[g]
      BY <3>1, <1>2, <1>4, <1>5, ConnOf DEF Asked
    <3> QED
      BY <3>1, <3>2, <1>6 DEF Asked, Readable, Writable, Data
  <2> QED
    BY <1>1, <1>2, <1>5, <2>2 DEF ReactInv
<1>10. RcInv'
  <2>1. conn[f].rc = 0
    BY <1>2, <1>4 DEF RcInv
  <2>2. 0 <= net'[c].got
    BY <1>4 DEF Link
  <2>3. ASSUME NEW g \in Fds, g # f
        PROVE  /\ prog' # "reactor" \/ file'[g] = NoClient => conn'[g].rc = 0
               /\ file'[g] # NoClient => conn'[g].rc <= net'[file'[g]].got
               /\ up' => conn'[g].rc \in 0 .. BufferLength
    <3>1. file'[g] = file[g] /\ conn'[g] = conn[g] /\ (file[g] # NoClient => file[g] \in Clients)
      BY <2>3, <1>2, <1>4, <1>5, ConnOf
    <3> QED
      BY <3>1, <1>1, <1>2, <1>6 DEF RcInv
  <2>4. 0 \in 0 .. BufferLength
    BY BufferType
  <2> QED
    BY <1>1, <1>4, <1>5, <2>1, <2>2, <2>3, <2>4 DEF RcInv
<1> QED
  BY <1>1, <1>2, <1>7, <1>8, <1>9, <1>10, ReactApart DEF ServedInv

\* What each callback has to show: the rest follows for the other descriptors.
LEMMA CallServed ==
  ASSUME ServedInv, React, NEW f \in Fds, NEW c \in Clients, file[f] = c,
         UNCHANGED <<prog, said, queue, edge, rude, size, moves, echoVars>>,
         evs' \subseteq evs \ {f}, up' \in BOOLEAN, up' => up, spun' \in BOOLEAN,
         net' \in [Clients -> Link], \A d \in Clients : d # c => net'[d] = net[d],
         file' \in [Fds -> Clients \cup {NoClient}], \A g \in Fds : g # f => file'[g] = file[g],
         conn' \in [Fds -> Connect_t], \A g \in Fds : g # f => conn'[g] = conn[g],
         KernelInv',
         prog # "reactor" \/ file'[f] = NoClient => conn'[f].rc = 0,
         file'[f] # NoClient => conn'[f].rc <= net'[file'[f]].got,
         up' => conn'[f].rc \in 0 .. BufferLength,
         conn'[f].flag => conn'[f].res \in Names,
         \/ rpc' = "loop" /\ rfd' \in Fds \cup {Listener}
         \/ rpc' = "body" /\ prog = "http" /\ rfd' = f /\ file'[f] # NoClient
            /\ conn'[f].cb = "send" /\ conn'[f].res \in Names
  PROVE  ServedInv'
<1>1. TypeOK /\ ReactInv /\ evs \subseteq Fds \cup {Listener}
  BY DEF ServedInv, TypeOK, ReactorTypeOK
<1>2. TypeOK'
  <2>1. rpc' \in {"loop", "body"} /\ rfd' \in Fds \cup {Listener} /\ evs' \subseteq Fds \cup {Listener}
    BY <1>1
  <2> QED
    BY <1>1, <2>1, CallTypes
<1>3. RcInv'
  BY RcKept
<1>4. (Listener \in evs' => queue' # <<>>) /\ \A g \in evs' \ {Listener} : Asked(g)'
  BY EventsKept
<1>5. \A g \in Fds : conn'[g].flag => conn'[g].res \in Names
  BY <1>1 DEF ReactInv
<1>6. ReactInv'
  BY <1>4, <1>5 DEF ReactInv
<1>7. RoleInv' /\ LoopInv'
  BY ReactApart
<1> QED
  BY <1>2, <1>3, <1>6, <1>7 DEF ServedInv

LEMMA RecvCbServed ==
  ASSUME ServedInv, up, NEW f \in Fds, Recv_cb(f), UNCHANGED echoVars
  PROVE  ServedInv'
<1> USE SocketKernelAssumption DEF SocketKernelAssumption
<1>1. /\ Called(f, "recv")
      /\ \/ Received(file[f]) = "data" /\ (IF prog = "http" THEN Request(f) ELSE Fill(f))
            /\ UNCHANGED file
         \/ Received(file[f]) = "end" /\ Disconnect(f) /\ UNCHANGED up
         \/ Received(file[f]) = "error" /\ RecvError(f) /\ UNCHANGED file
      /\ UNCHANGED <<prog, said, queue, edge, back, rude, rpc, rfd, size, moves, spun>>
  BY DEF Recv_cb
<1>2. /\ React /\ TypeOK /\ KernelInv /\ rpc = "loop" /\ file[f] # NoClient
      /\ evs' \subseteq evs \ {f} /\ RcInv /\ ReactInv
  BY <1>1, CalledOf DEF ServedInv
<1>3. PICK c \in Clients : c = file[f]
  BY <1>1, CalledOf
<1>4. /\ rpc' = "loop" /\ rfd' \in Fds \cup {Listener} /\ spun' \in BOOLEAN /\ up \in BOOLEAN
      /\ file \in [Fds -> Clients \cup {NoClient}]
  BY <1>1, <1>2 DEF TypeOK, KernelTypeOK, ReactorTypeOK
<1>5. /\ net[c].got <= net[c].sent /\ net[c].sent <= Len(said[c]) /\ Len(said[c]) <= MaxSend
      /\ said[c] \in Seq(IF prog = "http" THEN Names \cup {"post"} ELSE {"unit"})
      /\ net[c].got \in Nat /\ net[c].sent \in Nat /\ Len(said[c]) \in Nat
      /\ conn[f].rc \in Int
      /\ prog # "reactor" => conn[f].rc = 0
      /\ conn[f].rc <= net[c].got /\ conn[f].rc \in 0 .. BufferLength /\ BufferLength \in Nat
      /\ conn[f].flag => conn[f].res \in Names
  BY <1>2, <1>3, LinkOf, ConnOf, BufferType DEF KernelInv, Link, RcInv, ReactInv, Connect_t
<1>6. CASE Received(c) = "data" /\ prog = "http" /\ Request(f) /\ UNCHANGED file
  <2>1. Data(c) > 0 /\ up' = up
    BY <1>6 DEF Received, Request
  <2>2. net[c].got < net[c].sent
    BY <2>1, <1>5 DEF Data
  <2>3. PICK r \in Names \cup {"post"} : r = said[c][net[c].got + 1]
    <3>1. net[c].got + 1 \in 1 .. Len(said[c])
      BY <2>2, <1>5
    <3> QED
      BY <3>1, <1>5, <1>6
  <2>4. /\ net' = [net EXCEPT ![c].got = net[c].sent]
        /\ conn' \in [Fds -> Connect_t] /\ \A g \in Fds : g # f => conn'[g] = conn[g]
        /\ conn'[f].rc = conn[f].rc /\ conn'[f].flag = conn[f].flag
        /\ conn'[f].res = IF r = "post" THEN conn[f].res ELSE r
    BY <1>2, <1>3, <1>6, <2>3, RequestConn, ZenonT(40)
  <2>5. net[c].sent \in 0 .. MaxSend
    BY <1>5
  <2>6. /\ net' \in [Clients -> Link] /\ \A d \in Clients : d # c => net'[d] = net[d]
        /\ net'[c].got = net[c].sent /\ net'[c].sent = net[c].sent /\ net'[c].st = net[c].st
    BY <1>2, <2>4, <2>5, GotLink
  <2>7. KernelInv'
    <3>1. \A d \in Clients : /\ net'[d].st = net[d].st
                             /\ net'[d].got <= net'[d].sent /\ net'[d].sent <= Len(said[d])
      BY <1>2, <1>5, <2>6 DEF KernelInv
    <3> QED
      BY <1>1, <1>2, <1>6, <3>1, KernelKept
  <2>8. conn'[f].rc <= net'[file'[f]].got
    BY <1>3, <1>5, <1>6, <2>2, <2>4, <2>6
  <2>9. conn'[f].flag => conn'[f].res \in Names
    BY <1>5, <2>4
  <2>10. /\ up' \in BOOLEAN /\ (up' => up) /\ conn'[f].rc \in 0 .. BufferLength
         /\ prog # "reactor" => conn'[f].rc = 0
    BY <1>4, <1>5, <2>1, <2>4
  <2> QED
    BY <1>1, <1>2, <1>3, <1>4, <1>6, <2>4, <2>6, <2>7, <2>8, <2>9, <2>10, CallServed
<1>7. CASE Received(c) = "data" /\ prog # "http" /\ Fill(f) /\ UNCHANGED file
  <2>1. Data(c) > 0 /\ net[c].sent <= MaxSend
    BY <1>5, <1>7 DEF Received
  <2>2. prog = "reactor"
    BY <1>2, <1>7 DEF React
  <2>3. PICK k : k = Taken(c)
    OBVIOUS
  <2>4. /\ k \in Nat /\ net[c].got + k <= net[c].sent /\ net[c].got + k \in 0 .. MaxSend
        /\ net' = [net EXCEPT ![c].got = net[c].got + k]
        /\ up' = (conn[f].rc + k <= BufferLength)
        /\ conn' \in [Fds -> Connect_t] /\ \A g \in Fds : g # f => conn'[g] = conn[g]
        /\ conn'[f].rc = conn[f].rc + k /\ conn'[f].rc <= net[c].got + k
        /\ conn'[f].flag = conn[f].flag /\ conn'[f].res = conn[f].res
    <3>1. Filled(f, c, k)
      BY <1>2, <1>3, <1>5, <1>7, <2>1, <2>3, FillConn
    <3> QED
      BY <3>1 DEF Filled
  <2>5. /\ net' \in [Clients -> Link] /\ \A d \in Clients : d # c => net'[d] = net[d]
        /\ net'[c].got = net[c].got + k /\ net'[c].sent = net[c].sent /\ net'[c].st = net[c].st
    BY <1>2, <2>4, GotLink
  <2>6. KernelInv'
    <3>1. \A d \in Clients : /\ net'[d].st = net[d].st
                             /\ net'[d].got <= net'[d].sent /\ net'[d].sent <= Len(said[d])
      BY <1>2, <1>5, <2>4, <2>5 DEF KernelInv
    <3> QED
      BY <1>1, <1>2, <1>7, <3>1, KernelKept
  <2>7. conn'[f].rc <= net'[file'[f]].got
    BY <1>3, <1>7, <2>4, <2>5
  <2>8. up' \in BOOLEAN /\ (up' => up) /\ (up' => conn'[f].rc \in 0 .. BufferLength)
    <3>0. PICK r \in Nat : r = conn[f].rc + k
      BY <1>5, <2>4
    <3>1. up' \in BOOLEAN /\ (up' => conn[f].rc + k <= BufferLength)
      <4>1. up' = (r <= BufferLength)
        BY <3>0, <2>4
      <4>2. up' \in BOOLEAN
        BY <4>1, <1>5
      <4>3. up' => r <= BufferLength
        BY <4>1, <1>5
      <4> QED
        BY <4>2, <4>3, <3>0
    <3>2. conn[f].rc + k <= BufferLength => conn'[f].rc \in 0 .. BufferLength
      BY <1>5, <2>4
    <3> QED
      BY <3>1, <3>2
  <2>9. conn'[f].flag => conn'[f].res \in Names
    BY <1>5, <2>4
  <2> QED
    BY <1>1, <1>2, <1>3, <1>4, <1>7, <2>2, <2>4, <2>5, <2>6, <2>7, <2>8, <2>9, CallServed
<1>8. CASE Received(c) = "end" /\ Disconnect(f) /\ UNCHANGED up
  <2>1. /\ conn' = [conn EXCEPT ![f].rc = 0, ![f].hdr = NoHdr]
        /\ net' = [net EXCEPT ![c].st = "gone"] /\ file' = [file EXCEPT ![f] = NoClient]
    BY <1>3, <1>8 DEF Disconnect
  <2>2. /\ conn' \in [Fds -> Connect_t] /\ \A g \in Fds : g # f => conn'[g] = conn[g]
        /\ conn'[f].rc = 0 /\ conn'[f].flag = conn[f].flag /\ conn'[f].res = conn[f].res
    BY <1>2, <2>1, DisconnectConn
  <2>3. net' \in [Clients -> Link] /\ \A d \in Clients : d # c => net'[d] = net[d]
    BY <1>2, <2>1, GoneLink
  <2>4. /\ file' \in [Fds -> Clients \cup {NoClient}] /\ file'[f] = NoClient
        /\ \A g \in Fds : g # f => file'[g] = file[g]
    BY <1>4, <2>1
  <2>5. KernelInv'
    BY <1>1, <1>2, <1>3, <2>1, <2>4, KernelGone
  <2>6. conn'[f].flag => conn'[f].res \in Names
    BY <1>5, <2>2
  <2>7. conn'[f].rc \in 0 .. BufferLength
    BY <1>5, <2>2
  <2> QED
    BY <1>1, <1>2, <1>3, <1>4, <1>8, <2>2, <2>3, <2>4, <2>5, <2>6, <2>7, CallServed
<1>9. CASE Received(c) = "error" /\ RecvError(f) /\ UNCHANGED file
  <2>1. /\ net' = [net EXCEPT ![c].rst = "dead"]
        /\ IF prog = "http" THEN UNCHANGED <<up, conn>>
           ELSE /\ up' = (conn[f].rc > 0)
                /\ conn' = [conn EXCEPT ![f].cb = "send", ![f].rc = conn[f].rc - 1]
    BY <1>3, <1>9 DEF RecvError
  <2>2. /\ net' \in [Clients -> Link] /\ \A d \in Clients : d # c => net'[d] = net[d]
        /\ net'[c].got = net[c].got /\ net'[c].sent = net[c].sent /\ net'[c].st = net[c].st
    BY <1>2, <2>1, DeadLink
  <2>3. KernelInv'
    <3>1. \A d \in Clients : /\ net'[d].st = net[d].st
                             /\ net'[d].got <= net'[d].sent /\ net'[d].sent <= Len(said[d])
      BY <1>2, <1>5, <2>2 DEF KernelInv
    <3> QED
      BY <1>1, <1>2, <1>9, <3>1, KernelKept
  <2>4. /\ conn' \in [Fds -> Connect_t] /\ \A g \in Fds : g # f => conn'[g] = conn[g]
        /\ conn'[f].rc = (IF prog = "http" THEN conn[f].rc ELSE conn[f].rc - 1)
        /\ conn'[f].flag = conn[f].flag /\ conn'[f].res = conn[f].res
    <3>1. CASE prog = "http"
      BY <3>1, <2>1, <1>2 DEF TypeOK, ReactorTypeOK
    <3>2. CASE prog # "http"
      BY <3>2, <2>1, <1>2, <1>5, ErrorConn
    <3> QED
      BY <3>1, <3>2
  <2>5. up' \in BOOLEAN /\ (up' => up) /\ (up' => conn'[f].rc \in 0 .. BufferLength)
    <3>1. CASE prog = "http"
      BY <3>1, <2>1, <2>4, <1>4, <1>5
    <3>2. CASE prog # "http"
      <4>1. up' = (conn[f].rc > 0) /\ up' \in BOOLEAN
        BY <3>2, <2>1
      <4>2. up' => conn[f].rc > 0
        BY <4>1
      <4>3. conn[f].rc > 0 => conn'[f].rc \in 0 .. BufferLength
        BY <3>2, <2>4, <1>5
      <4> QED
        BY <4>1, <4>2, <4>3
    <3> QED
      BY <3>1, <3>2
  <2>6. conn'[f].rc <= net'[file'[f]].got /\ (prog # "reactor" => conn'[f].rc = 0)
    <3>1. conn'[f].rc <= net[c].got
      BY <2>4, <1>5
    <3> QED
      BY <3>1, <1>2, <1>3, <1>5, <1>9, <2>2, <2>4 DEF React
  <2>7. conn'[f].flag => conn'[f].res \in Names
    BY <1>5, <2>4
  <2> QED
    BY <1>1, <1>2, <1>3, <1>4, <1>9, <2>2, <2>3, <2>4, <2>5, <2>6, <2>7, CallServed
<1> QED
  BY <1>1, <1>3, <1>6, <1>7, <1>8, <1>9

\* send() to the client of a descriptor leaves its state and its counts alone.
LEMMA SentKernel ==
  ASSUME TypeOK, KernelInv, NEW c \in Clients, NEW a, SendTo(c, a),
         UNCHANGED <<prog, said, queue, file>>
  PROVE  /\ KernelInv' /\ net' \in [Clients -> Link] /\ net'[c].got = net[c].got
         /\ \A d \in Clients : d # c => net'[d] = net[d]
         /\ up' \in BOOLEAN /\ (up' => up)
<1>1. /\ net' \in [Clients -> Link] /\ \A d \in Clients : d # c => net'[d] = net[d]
      /\ net'[c].st = net[c].st /\ net'[c].sent = net[c].sent /\ net'[c].got = net[c].got
      /\ up' = FALSE \/ up' = up
  BY SendToLink
<1>2. \A d \in Clients : /\ net'[d].st = net[d].st
                         /\ net'[d].got <= net'[d].sent /\ net'[d].sent <= Len(said[d])
  BY <1>1 DEF KernelInv
<1>3. KernelInv'
  BY <1>2, KernelKept
<1>4. up' \in BOOLEAN /\ (up' => up)
  <2>1. up \in BOOLEAN /\ (up' = FALSE \/ up' = up)
    BY <1>1 DEF TypeOK, KernelTypeOK
  <2>2. CASE up' = FALSE
    BY <2>2
  <2>3. CASE up' = up
    BY <2>1, <2>3
  <2> QED
    BY <2>1, <2>2, <2>3
<1> QED
  BY <1>1, <1>3, <1>4, Zenon

LEMMA SendCbServed ==
  ASSUME ServedInv, up, NEW f \in Fds, Send_cb(f), UNCHANGED echoVars
  PROVE  ServedInv'
<1>1. /\ prog = "reactor" /\ Called(f, "send")
      /\ SendTo(file[f], [i \in 1 .. conn[f].rc |-> conn[f].rbuf[i]])
      /\ conn' = [conn EXCEPT ![f].cb = "recv"]
      /\ UNCHANGED <<prog, said, queue, file, edge, rude, rpc, rfd, size, moves, spun>>
  BY DEF Send_cb
<1>2. /\ React /\ TypeOK /\ KernelInv /\ rpc = "loop" /\ file[f] # NoClient
      /\ evs' \subseteq evs \ {f} /\ RcInv /\ ReactInv
  BY <1>1, CalledOf DEF ServedInv
<1>3. PICK c \in Clients : c = file[f]
  BY <1>1, CalledOf
<1>4. /\ rpc' = "loop" /\ rfd' \in Fds \cup {Listener} /\ spun' \in BOOLEAN
      /\ file' \in [Fds -> Clients \cup {NoClient}] /\ file' = file
  BY <1>1, <1>2 DEF TypeOK, KernelTypeOK, ReactorTypeOK
<1>5. /\ conn' \in [Fds -> Connect_t] /\ \A g \in Fds : g # f => conn'[g] = conn[g]
      /\ conn'[f].rc = conn[f].rc /\ conn'[f].flag = conn[f].flag /\ conn'[f].res = conn[f].res
  BY <1>1, <1>2, CbConn
<1>6. /\ KernelInv' /\ net' \in [Clients -> Link] /\ net'[c].got = net[c].got
      /\ \A d \in Clients : d # c => net'[d] = net[d]
      /\ up' \in BOOLEAN /\ (up' => up)
  BY <1>1, <1>2, <1>3, SentKernel
<1>7. /\ conn'[f].rc <= net'[file'[f]].got /\ conn'[f].rc \in 0 .. BufferLength
      /\ conn'[f].flag => conn'[f].res \in Names
  BY <1>2, <1>3, <1>4, <1>5, <1>6 DEF RcInv, ReactInv
<1> QED
  BY <1>1, <1>2, <1>3, <1>4, <1>5, <1>6, <1>7, CallServed

LEMMA SendHeaderServed ==
  ASSUME ServedInv, up, NEW f \in Fds, SendHeader(f), UNCHANGED echoVars
  PROVE  ServedInv'
<1>1. PICK x : x = Response(f)
  OBVIOUS
<1>2. /\ prog = "http" /\ Called(f, "send")
      /\ SendTo(file[f], Answer(f, x.hdr))
      /\ conn' = [conn EXCEPT ![f] = IF x.flag THEN x ELSE Reads(x)]
      /\ rpc' = (IF x.flag THEN "body" ELSE "loop")
      /\ rfd' = (IF x.flag THEN f ELSE Listener)
      /\ UNCHANGED <<prog, said, queue, file, edge, rude, size, moves, spun>>
  BY <1>1 DEF SendHeader
<1>3. /\ React /\ TypeOK /\ KernelInv /\ rpc = "loop" /\ file[f] # NoClient
      /\ evs' \subseteq evs \ {f} /\ RcInv /\ ReactInv /\ conn[f].cb = "send"
  BY <1>2, CalledOf DEF ServedInv
<1>4. PICK c \in Clients : c = file[f]
  BY <1>2, CalledOf
<1>5. /\ rfd' \in Fds \cup {Listener} /\ spun' \in BOOLEAN
      /\ file' \in [Fds -> Clients \cup {NoClient}] /\ file' = file
  BY <1>2, <1>3 DEF TypeOK, KernelTypeOK, ReactorTypeOK
<1>6. /\ conn' \in [Fds -> Connect_t] /\ \A g \in Fds : g # f => conn'[g] = conn[g]
      /\ conn'[f].rc = conn[f].rc /\ conn'[f].res = conn[f].res /\ conn'[f].flag = x.flag
      /\ x.flag => conn'[f].cb = "send"
  BY <1>1, <1>2, <1>3, HeaderConn
<1>7. /\ KernelInv' /\ net' \in [Clients -> Link] /\ net'[c].got = net[c].got
      /\ \A d \in Clients : d # c => net'[d] = net[d]
      /\ up' \in BOOLEAN /\ (up' => up)
  BY <1>2, <1>3, <1>4, SentKernel
<1>8. x.flag => conn'[f].res \in Names
  <2>1. x.flag => conn[f].flag \/ conn[f].res # None
    BY <1>1, <1>3, ResponseType
  <2>2. conn[f].res \in Names \cup {None} /\ (conn[f].flag => conn[f].res \in Names)
    BY <1>3, ConnOf DEF Connect_t, ReactInv
  <2> QED
    BY <1>6, <2>1, <2>2
<1>9. conn'[f].rc <= net'[file'[f]].got /\ conn'[f].rc \in 0 .. BufferLength /\ conn'[f].rc = 0
  BY <1>2, <1>3, <1>4, <1>5, <1>6, <1>7 DEF RcInv
<1>10. x.flag \in BOOLEAN
  BY <1>1, <1>3, ResponseType DEF Connect_t
<1>11. CASE x.flag
  <2>1. rpc' = "body" /\ rfd' = f /\ file'[f] # NoClient
    BY <1>2, <1>3, <1>5, <1>11
  <2> QED
    BY <1>2, <1>3, <1>4, <1>5, <1>6, <1>7, <1>8, <1>9, <1>11, <2>1, CallServed
<1>12. CASE ~x.flag
  <2>1. rpc' = "loop"
    BY <1>2, <1>12
  <2> QED
    BY <1>2, <1>3, <1>4, <1>5, <1>6, <1>7, <1>8, <1>9, <1>12, <2>1, CallServed
<1> QED
  BY <1>11, <1>12

\* The connections after the body has been sent, or not.
LEMMA BodyLink ==
  ASSUME TypeOK, KernelInv, NEW c \in Clients, c = file[rfd], SendBody
  PROVE  /\ KernelInv' /\ net' \in [Clients -> Link] /\ net'[c].got = net[c].got
         /\ \A d \in Clients : d # c => net'[d] = net[d]
         /\ up' \in BOOLEAN /\ (up' => up) /\ spun' \in BOOLEAN
         /\ \/ net' = net
            \/ /\ ~Broken(c) /\ up' = up /\ size[conn[rfd].res] # 0
               /\ \E y \in AfterSend(c) : net' = [net EXCEPT ![c] = y]
<1>1. \/ /\ size[conn[rfd].res] = 0 /\ spun' = TRUE /\ up' = up /\ net' = net
      \/ /\ size[conn[rfd].res] # 0 /\ Broken(c) /\ up' = FALSE /\ net' = net /\ spun' = spun
      \/ /\ size[conn[rfd].res] # 0 /\ ~Broken(c) /\ up' = up /\ spun' = spun
         /\ \E y \in AfterSend(c) : net' = [net EXCEPT ![c] = y]
  BY DEF SendBody
<1>2. UNCHANGED <<prog, said, queue, file>>
  BY DEF SendBody
<1>3. /\ net' \in [Clients -> Link] /\ net'[c].got = net[c].got
      /\ net'[c].sent = net[c].sent /\ net'[c].st = net[c].st
      /\ \A d \in Clients : d # c => net'[d] = net[d]
  <2>1. CASE net' = net
    BY <2>1 DEF TypeOK, KernelTypeOK
  <2>2. CASE \E y \in AfterSend(c) : net' = [net EXCEPT ![c] = y]
    <3>1. PICK y \in AfterSend(c) : net' = [net EXCEPT ![c] = y]
      BY <2>2
    <3>2. y \in Link /\ y.sent = net[c].sent /\ y.got = net[c].got /\ y.st = net[c].st
      BY AfterSendLink
    <3> QED
      BY <3>1, <3>2, LinkSet
  <2> QED
    BY <1>1, <2>1, <2>2
<1>4. \A d \in Clients : /\ net'[d].st = net[d].st
                         /\ net'[d].got <= net'[d].sent /\ net'[d].sent <= Len(said[d])
  BY <1>3 DEF KernelInv
<1>5. KernelInv'
  BY <1>2, <1>4, KernelKept
<1>6. up' \in BOOLEAN /\ (up' => up) /\ spun' \in BOOLEAN
  <2>1. /\ up \in BOOLEAN /\ spun \in BOOLEAN
        /\ up' = FALSE \/ up' = up
        /\ spun' = TRUE \/ spun' = spun
    BY <1>1 DEF TypeOK, KernelTypeOK, ReactorTypeOK
  <2>2. up' \in BOOLEAN /\ (up' => up)
    <3>1. CASE up' = FALSE
      BY <3>1
    <3>2. CASE up' = up
      BY <2>1, <3>2
    <3> QED
      BY <2>1, <3>1, <3>2
  <2>3. spun' \in BOOLEAN
    BY <2>1
  <2> QED
    BY <2>2, <2>3
<1>7. \/ net' = net
      \/ /\ ~Broken(c) /\ up' = up /\ size[conn[rfd].res] # 0
         /\ \E y \in AfterSend(c) : net' = [net EXCEPT ![c] = y]
  BY <1>1
<1> QED
  BY <1>3, <1>5, <1>6, <1>7, Zenon

LEMMA SendBodyServed ==
  ASSUME ServedInv, up, SendBody, UNCHANGED echoVars
  PROVE  ServedInv'
<1>1. PICK f \in Fds : f = rfd
  BY DEF ServedInv, ReactInv, SendBody
<1>2. /\ TypeOK /\ KernelInv /\ prog = "http" /\ React /\ f \notin evs
      /\ file[f] \in Clients /\ file[f] # NoClient /\ RcInv /\ ReactInv
  BY <1>1, ConnOf DEF ServedInv, ReactInv, SendBody, React
<1>3. PICK c \in Clients : c = file[f]
  BY <1>2
<1>4. /\ rpc' = "loop" /\ rfd' = Listener
      /\ UNCHANGED <<prog, said, queue, file, edge, rude, evs, size, moves>>
      /\ conn' = conn \/ conn' = [conn EXCEPT ![f] = [Reads(conn[f]) EXCEPT !.flag = FALSE]]
  BY <1>1 DEF SendBody
<1>5. /\ KernelInv' /\ net' \in [Clients -> Link] /\ net'[c].got = net[c].got
      /\ \A d \in Clients : d # c => net'[d] = net[d]
      /\ up' \in BOOLEAN /\ (up' => up) /\ spun' \in BOOLEAN
  BY <1>1, <1>2, <1>3, BodyLink
<1>6. /\ conn' \in [Fds -> Connect_t] /\ \A g \in Fds : g # f => conn'[g] = conn[g]
      /\ conn'[f].rc = conn[f].rc /\ conn'[f].res = conn[f].res
      /\ conn'[f].flag => conn[f].flag
  <2>1. CASE conn' = conn
    BY <2>1, <1>2 DEF TypeOK, ReactorTypeOK
  <2>2. CASE conn' = [conn EXCEPT ![f] = [Reads(conn[f]) EXCEPT !.flag = FALSE]]
    BY <2>2, <1>2, BodyConn
  <2> QED
    BY <1>4, <2>1, <2>2
<1>7. /\ conn'[f].rc <= net'[file'[f]].got /\ conn'[f].rc \in 0 .. BufferLength /\ conn'[f].rc = 0
      /\ conn'[f].flag => conn'[f].res \in Names
  BY <1>2, <1>3, <1>4, <1>5, <1>6 DEF RcInv, ReactInv
<1>8. file' \in [Fds -> Clients \cup {NoClient}] /\ file' = file /\ evs' \subseteq evs \ {f}
      /\ rfd' \in Fds \cup {Listener}
  BY <1>2, <1>4 DEF TypeOK, KernelTypeOK
<1> QED
  BY <1>2, <1>3, <1>4, <1>5, <1>6, <1>7, <1>8, CallServed

LEMMA FileChangeServed ==
  ASSUME ServedInv, NEW y \in Names, FileChange(y), UNCHANGED echoVars
  PROVE  ServedInv'
<1> USE SocketKernelAssumption, ReactorAssumption DEF SocketKernelAssumption, ReactorAssumption
<1>1. /\ prog = "http" /\ moves < MaxMoves /\ moves' = moves + 1
      /\ UNCHANGED <<prog, up, net, said, queue, file, edge, back, rude, rpc, evs, rfd, spun>>
  BY DEF FileChange, kernel
<1>2. TypeOK /\ KernelInv /\ ReactInv /\ RcInv /\ React
  BY <1>1 DEF ServedInv, React
<1>3. /\ conn' \in [Fds -> Connect_t]
      /\ \A f \in Fds : /\ conn'[f].rc = conn[f].rc /\ conn'[f].cb = conn[f].cb
                        /\ conn'[f].res = conn[f].res /\ conn'[f].flag = conn[f].flag
  <2>1. conn' = [f \in Fds |-> IF conn[f].ask = y THEN [conn[f] EXCEPT !.still = FALSE] ELSE conn[f]]
    BY DEF FileChange
  <2> QED
    BY <1>2, <2>1, ChangeConn, ZenonT(40)
<1>4. size' \in [Names -> 0 .. MaxSize]
  <2>1. PICK s \in 0 .. MaxSize : size' = [size EXCEPT ![y] = s]
    BY DEF FileChange
  <2> QED
    BY <1>2, <2>1 DEF TypeOK, ReactorTypeOK
<1>5. TypeOK'
  <2>1. moves' \in 0 .. MaxMoves
    BY <1>1, <1>2 DEF TypeOK, ReactorTypeOK
  <2>2. KernelTypeOK' /\ ReactorTypeOK'
    BY <1>1, <1>2, <1>3, <1>4, <2>1 DEF TypeOK, KernelTypeOK, ReactorTypeOK
  <2>3. EchoTypeOK'
    BY <1>2 DEF TypeOK, EchoTypeOK, echoVars, loopVars
  <2> QED
    BY <2>2, <2>3 DEF TypeOK
<1>6. KernelInv'
  BY <1>1, <1>2, KernelKept DEF KernelInv
<1>7. ReactInv'
  <2>1. ASSUME NEW g \in evs \ {Listener} PROVE Asked(g)'
    <3>1. g \in Fds /\ Asked(g)
      BY <1>2, <2>1 DEF ReactInv, TypeOK, ReactorTypeOK
    <3> QED
      BY <3>1, <1>1, <1>3 DEF Asked, Readable, Writable, Data
  <2> QED
    BY <1>1, <1>2, <1>3, <2>1 DEF ReactInv
<1>8. RcInv'
  BY <1>1, <1>2, <1>3 DEF RcInv
<1> QED
  BY <1>1, <1>2, <1>5, <1>6, <1>7, <1>8, ReactApart DEF ServedInv

-----------------------------------------------------------------------------
LEMMA NextServed == ASSUME ServedInv, [Next]_vars PROVE ServedInv'
<1>1. CASE UNCHANGED vars
  <2>1. /\ UNCHANGED <<prog, up, net, said, queue, file, edge, back, rude>>
        /\ UNCHANGED <<task, watch, ready, eventfd, maxfd, cfd, raced, partial>>
        /\ UNCHANGED <<rpc, evs, rfd, conn, size, moves, spun>>
    BY <1>1 DEF vars, kernel, echoVars, loopVars, reactorVars
  <2>2. TypeOK'
    BY <2>1 DEF ServedInv, TypeOK, KernelTypeOK, EchoTypeOK, ReactorTypeOK
  <2>3. KernelInv' /\ RoleInv' /\ RcInv'
    BY <2>1 DEF ServedInv, KernelInv, RoleInv, RcInv, React, Single, Echo, Busy
  <2>4. LoopInv' /\ ReactInv'
    BY <2>1 DEF ServedInv, LoopInv, ReactInv, Single, Echo, Busy, Due, Peer, Asked, Readable,
                Writable, Data
  <2> QED
    BY <2>2, <2>3, <2>4 DEF ServedInv
<1>2. CASE Next
  <2>1. ASSUME EchoStep, UNCHANGED reactorVars PROVE ServedInv'
    BY <2>1, EchoServed
  <2>2. ASSUME ReactorStep, UNCHANGED echoVars PROVE ServedInv'
    BY <1>2, <2>2, EpollWaitServed, AcceptCbServed, SendBodyServed, RecvCbServed, SendCbServed,
       SendHeaderServed DEF ReactorStep, Next
  <2>3. ASSUME NEW c \in Clients, ClientStep(c), UNCHANGED <<echoVars, reactorVars>>
        PROVE  ServedInv'
    BY <2>3, ClientServed
  <2>4. ASSUME NEW x \in Names, FileChange(x), UNCHANGED echoVars PROVE ServedInv'
    BY <2>4, FileChangeServed
  <2> QED
    BY <1>2, <2>1, <2>2, <2>3, <2>4 DEF Next, ServerStep
<1> QED
  BY <1>1, <1>2

LEMMA InitServed == ASSUME Init PROVE ServedInv /\ up /\ net \in [Clients -> Link]
<1> USE SocketKernelAssumption, EchoServersAssumption, ReactorAssumption
    DEF SocketKernelAssumption, EchoServersAssumption, ReactorAssumption
<1>1. /\ prog \in Programs /\ up = TRUE /\ queue = <<>> /\ file = [f \in Fds |-> NoClient]
      /\ edge = {} /\ rude = FALSE
  BY DEF Init, KernelInit
<1>2. PICK n : n = [st |-> "new", sent |-> 0, got |-> 0, fin |-> FALSE, rst |-> "none",
                    owed |-> FALSE, full |-> FALSE, asks |-> FALSE]
  OBVIOUS
<1>3. n \in Link /\ n.got = 0 /\ n.sent = 0
  BY <1>2 DEF Link
<1>4. net = [c \in Clients |-> n]
  BY <1>2 DEF Init, KernelInit
<1>5. KernelTypeOK
  <2>1. net \in [Clients -> Link] /\ queue \in Seq(Clients)
        /\ file \in [Fds -> Clients \cup {NoClient}] /\ edge \subseteq Clients
    BY <1>1, <1>3, <1>4
  <2>2. up \in BOOLEAN /\ rude \in BOOLEAN
    BY <1>1, Zenon
  <2> QED
    BY <1>1, <2>1, <2>2, Zenon DEF KernelTypeOK
<1>6. EchoTypeOK
  <2>1. Off \in Task /\ [Off EXCEPT !.pc = "scan"] \in Task
    BY OffTyped
  <2>2. [Off EXCEPT !.pc = "accept"] \in Task
    BY <2>1 DEF Task, Pc
  <2>3. \A i \in Tasks : task[i] \in Task
    BY <2>1, <2>2 DEF Init, EchoInit
  <2>4. task \in [Tasks -> Task]
    BY <2>3 DEF Init, EchoInit
  <2> QED
    BY <2>4 DEF Init, EchoInit, EchoTypeOK
<1>7. ReactorTypeOK
  <2>1. PICK x : x = [cb |-> None, rbuf |-> [i \in Buffer |-> Blank], rc |-> 0,
                      res |-> None, hdr |-> NoHdr, flag |-> FALSE,
                      ask |-> None, was |-> 0, still |-> TRUE]
    OBVIOUS
  <2>2. /\ [i \in Buffer |-> Blank] \in [Buffer -> (Clients \X (1 .. MaxSend)) \cup {Blank}]
        /\ NoHdr \in [name : Names \cup {None}, len : 0 .. MaxSize]
        /\ 0 \in -1 .. MaxSend /\ 0 \in 0 .. MaxSize
    BY DEF NoHdr
  <2>3. x \in Connect_t
    BY <2>1, <2>2 DEF Connect_t
  <2>4. conn = [f \in Fds |-> x]
    BY <2>1 DEF Init, ReactorInit
  <2>5. conn \in [Fds -> Connect_t]
    BY <2>3, <2>4
  <2>6. size \in [Names -> 0 .. MaxSize]
    BY DEF Init, ReactorInit
  <2>7. rpc = "loop" /\ evs = {} /\ rfd = Listener /\ moves = 0 /\ spun = FALSE
    BY DEF Init, ReactorInit
  <2>8. moves \in 0 .. MaxMoves
    BY <2>7
  <2> QED
    BY <2>5, <2>6, <2>7, <2>8, Zenon DEF ReactorTypeOK
<1>8. KernelInv
  <2>1. \A c \in Clients : /\ Len(said[c]) <= MaxSend /\ Len(said[c]) \in Nat
                           /\ said[c] \in Seq(IF prog = "http" THEN Names \cup {"post"} ELSE {"unit"})
    <3>1. TAKE c \in Clients
    <3>2. CASE prog = "http"
      <4>1. said \in Scripts
        BY <3>2 DEF Init, KernelInit
      <4>2. said[c] \in Seq(Names \cup {"post"}) /\ Len(said[c]) <= MaxSend
        BY <4>1
      <4> QED
        BY <3>2, <4>2
    <3>3. CASE prog # "http"
      <4>1. said[c] = [i \in 1 .. MaxSend |-> "unit"]
        BY <3>3 DEF Init, KernelInit
      <4>2. said[c] \in Seq({"unit"}) /\ Len(said[c]) = MaxSend
        BY <4>1
      <4> QED
        BY <3>3, <4>2
    <3> QED
      BY <3>2, <3>3
  <2>2. \A c \in Clients : net[c].got = 0 /\ net[c].sent = 0
    BY <1>3, <1>4
  <2>3. DOMAIN queue = {} /\ \A f \in Fds : file[f] = NoClient
    BY <1>1
  <2> QED
    BY <2>1, <2>2, <2>3 DEF KernelInv
<1>9. \A i \in Tasks : ~Busy(i) /\ task[i].pc # "start"
  BY DEF Init, EchoInit, Busy, Off
<1>10. RoleInv
  <2>1. rpc = "loop" /\ evs = {}
    BY DEF Init, ReactorInit
  <2>2. React => \A i \in Tasks : task[i].pc = "none"
    BY DEF Init, EchoInit, Off, React, Echo
  <2>3. Main \in Tasks /\ \A c \in Clients : c \in Tasks /\ c # Main
    BY DEF Tasks
  <2>4. prog = "threads" => task[Main].pc = "accept"
    BY <2>3 DEF Init, EchoInit, Off, Echo
  <2>5. \A c \in Clients : task[c].pc = "none"
    BY <2>3 DEF Init, EchoInit, Off
  <2> QED
    BY <1>9, <2>1, <2>2, <2>3, <2>4, <2>5 DEF RoleInv
<1>11. LoopInv
  <2>1. Main \in Tasks /\ ready = {} /\ watch = {}
    BY DEF Tasks, Init, EchoInit
  <2>2. Single => task[Main].pc = "scan"
    BY <2>1 DEF Init, EchoInit, Off, Single
  <2> QED
    BY <1>9, <2>1, <2>2 DEF LoopInv
<1>12. ReactInv /\ RcInv
  <2>1. \A f \in Fds : conn[f].rc = 0 /\ conn[f].flag = FALSE
    BY DEF Init, ReactorInit
  <2> QED
    BY <1>1, <2>1 DEF Init, ReactorInit, ReactInv, RcInv
<1> QED
  BY <1>1, <1>5, <1>6, <1>7, <1>8, <1>10, <1>11, <1>12 DEF ServedInv, TypeOK, KernelTypeOK

\* Whatever the clients do and however the events come, every program keeps to this.
THEOREM ServedInvariant == Spec => []ServedInv
<1>1. Init => ServedInv
  BY InitServed
<1>2. ServedInv /\ [Next]_vars => ServedInv'
  BY NextServed
<1> QED
  BY <1>1, <1>2, PTL DEF Spec

\* A single-threaded server never calls accept() or recv() when there is nothing to take,
\* and a reactor calls back a descriptor only for an event that is still there.
THEOREM NeverBlocksAlways == Spec => []NeverBlocks
<1>1. ServedInv => NeverBlocks
  BY DEF ServedInv, LoopInv, ReactInv, NeverBlocks, Single, Busy
<1> QED
  BY <1>1, ServedInvariant, PTL

-----------------------------------------------------------------------------
\* A client that waits for an answer has not closed, and nothing has been reset.
LEMMA AsksLink ==
  ASSUME PoliteInv, Polite, NEW c \in Clients, net[c].asks
  PROVE  ~net[c].fin /\ net[c].rst = "none" /\ ~net[c].owed /\ ~Broken(c)
BY DEF PoliteInv, LinksPolite, Broken

\* The steps that change no connection in what PoliteInv says of it.
LEMMA PoliteQuiet ==
  ASSUME up, PoliteInv, Polite' => Polite, UNCHANGED <<prog, up, rpc, rfd>>,
         \A c \in Clients : /\ net'[c].fin = net[c].fin /\ net'[c].asks = net[c].asks
                            /\ net'[c].rst = net[c].rst /\ net'[c].owed = net[c].owed
                            /\ net'[c].sent = net[c].sent /\ net'[c].got = net[c].got,
         Polite' => \A i \in Tasks : task'[i].pc = "send" /\ Peer(i)' # NoClient =>
                      task[i].pc = "send" /\ Peer(i)' = Peer(i) /\ Peer(i) \in Clients,
         React => \A f \in Fds : file'[f] # NoClient /\ conn'[f].cb = "send" =>
                    conn[f].cb = "send" /\ file'[f] = file[f] /\ file[f] \in Clients
  PROVE  PoliteInv'
<1>1. SUFFICES ASSUME Polite' PROVE up' /\ LinksPolite' /\ SendsAsked'
  BY DEF PoliteInv
<1>2. Polite /\ up /\ LinksPolite /\ SendsAsked
  BY <1>1 DEF PoliteInv
<1>3. LinksPolite'
  BY <1>2 DEF LinksPolite, Data
<1>4. \A i \in Tasks : task'[i].pc = "send" /\ Peer(i)' # NoClient => net'[Peer(i)'].asks
  BY <1>1, <1>2 DEF SendsAsked
<1>5. \A f \in Fds : React' /\ file'[f] # NoClient /\ conn'[f].cb = "send" =>
                      IF InBody(f)' THEN net'[file'[f]].rst = "none" /\ ~net'[file'[f]].owed
                      ELSE net'[file'[f]].asks
  BY <1>2 DEF SendsAsked, React, InBody
<1> QED
  BY <1>2, <1>3, <1>4, <1>5 DEF SendsAsked

\* The descriptors and tasks a client finds when it does something.
LEMMA PeerKept ==
  ASSUME ServedInv, UNCHANGED <<file, task>>
  PROVE  \A i \in Tasks : /\ Peer(i)' = Peer(i)
                          /\ task[i].pc = "send" /\ Peer(i) # NoClient => Peer(i) \in Clients
<1>1. TAKE i \in Tasks
<1>2. Peer(i)' = Peer(i)
  BY DEF Peer
<1>3. task[i].pc = "send" => Peer(i) \in Clients \cup {NoClient}
  BY TurnOf DEF Busy
<1> QED
  BY <1>2, <1>3

LEMMA ClientPolite ==
  ASSUME up, ServedInv, PoliteInv, NEW c \in Clients, ClientStep(c), UNCHANGED <<echoVars, reactorVars>>
  PROVE  PoliteInv'
<1>1. /\ TypeOK /\ KernelInv /\ net[c] \in Link
      /\ UNCHANGED <<prog, up, file, task, rpc, rfd, conn, spun, raced>>
  BY LinkOf DEF ServedInv, ClientStep, echoVars, reactorVars, Connect, ClientSend, ClientClose, ResetArrives
<1>2. /\ \A f \in Fds : file[f] \in Clients \cup {NoClient}
      /\ \A i \in Tasks : /\ Peer(i)' = Peer(i)
                          /\ task[i].pc = "send" /\ Peer(i) # NoClient => Peer(i) \in Clients
  BY <1>1, ConnOf, PeerKept
<1>3. CASE Connect(c)
  <2>1. \A d \in Clients : /\ net'[d].fin = net[d].fin /\ net'[d].asks = net[d].asks
                           /\ net'[d].rst = net[d].rst /\ net'[d].owed = net[d].owed
                           /\ net'[d].sent = net[d].sent /\ net'[d].got = net[d].got
    BY <1>1, <1>3, ConnectLink
  <2>2. Polite' => Polite
    BY <1>1, <1>3 DEF Connect, Polite
  <2> QED
    BY <1>1, <1>2, <2>1, <2>2, PoliteQuiet
<1>4. CASE ClientSend(c)
  <2>1. SUFFICES ASSUME Polite' PROVE up' /\ LinksPolite' /\ SendsAsked'
    BY DEF PoliteInv
  <2>2. Polite /\ up /\ LinksPolite /\ SendsAsked
    BY <1>1, <1>4, <2>1 DEF Polite, PoliteInv, ClientSend
  <2>3. /\ net'[c].fin = net[c].fin /\ ~net[c].fin /\ net'[c].asks = TRUE
        /\ net'[c].rst = net[c].rst /\ net'[c].owed = net[c].owed
        /\ \A d \in Clients : d # c => net'[d] = net[d]
    BY <1>1, <1>4, ClientSendLink
  <2>4. LinksPolite'
    BY <1>1, <2>2, <2>3 DEF LinksPolite, Data
  <2>5. \A d \in Clients : /\ net[d].asks => net'[d].asks
                           /\ net'[d].rst = net[d].rst /\ net'[d].owed = net[d].owed
    BY <2>3
  <2> QED
    BY <1>1, <1>2, <2>2, <2>4, <2>5 DEF SendsAsked, React, InBody
<1>5. CASE ClientClose(c)
  <2>1. SUFFICES ASSUME Polite' PROVE up' /\ LinksPolite' /\ SendsAsked'
    BY DEF PoliteInv
  <2>2. rude' = FALSE
    <3>1. rude' \in BOOLEAN
      BY <1>1, ClientTypes DEF ServedInv, TypeOK, KernelTypeOK
    <3> QED
      BY <2>1, <3>1 DEF Polite
  <2>3. /\ net'[c].fin = TRUE /\ net'[c].rst = "none" /\ rude' = (rude \/ net[c].asks)
        /\ net[c].rst = "none" /\ ~net[c].fin
        /\ net'[c].asks = net[c].asks /\ net'[c].owed = net[c].owed
        /\ net'[c].sent = net[c].sent /\ net'[c].got = net[c].got
        /\ \A d \in Clients : d # c => net'[d] = net[d]
    BY <1>1, <1>5, <2>2, ClientCloseLink
  <2>4. ~rude /\ ~net[c].asks
    BY <2>2, <2>3
  <2>5. Polite /\ up /\ LinksPolite /\ SendsAsked
    BY <1>1, <2>1, <2>4 DEF Polite, PoliteInv
  <2>6. LinksPolite'
    BY <1>1, <2>3, <2>4, <2>5 DEF LinksPolite, Data
  <2>7. \A d \in Clients : /\ net[d].asks => net'[d].asks
                           /\ net'[d].rst = net[d].rst /\ net'[d].owed = net[d].owed
    BY <2>3
  <2> QED
    BY <1>1, <1>2, <2>5, <2>6, <2>7 DEF SendsAsked, React, InBody
<1>6. CASE ResetArrives(c)
  <2>1. SUFFICES ASSUME Polite' PROVE up' /\ LinksPolite' /\ SendsAsked'
    BY DEF PoliteInv
  <2>2. Polite /\ up /\ LinksPolite /\ SendsAsked
    BY <1>1, <1>6, <2>1 DEF Polite, PoliteInv, ResetArrives
  <2>3. /\ net[c].owed /\ net'[c].fin = net[c].fin
        /\ net'[c].asks = net[c].asks /\ net'[c].owed = net[c].owed
        /\ net'[c].sent = net[c].sent /\ net'[c].got = net[c].got
        /\ \A d \in Clients : d # c => net'[d] = net[d]
    BY <1>1, <1>6, ResetArrivesLink
  <2>4. LinksPolite'
    BY <1>1, <2>2, <2>3 DEF LinksPolite, Data
  <2>5. \A d \in Clients : /\ net[d].asks => net'[d].asks
                           /\ ~net[d].owed => net'[d].rst = net[d].rst /\ ~net'[d].owed
    BY <2>3
  <2> QED
    BY <1>1, <1>2, <2>2, <2>4, <2>5 DEF SendsAsked, React, InBody
<1> QED
  BY <1>3, <1>4, <1>5, <1>6 DEF ClientStep

\* The threads, when one of them that has a descriptor takes its turn.
LEMMA ThreadTurn ==
  ASSUME ServedInv, ThreadInv, NEW i \in Tasks, i # Main, Busy(i), UNCHANGED <<prog, raced, cfd>>,
         \A j \in Tasks : j # i => task'[j] = task[j],
         task'[i].pc # "start", Busy(i)' => task'[i].fd = task[i].fd,
         \A g \in Fds : file'[g] = file[g] \/ (g = task[i].fd /\ ~Busy(i)')
  PROVE  ThreadInv'
<1>1. SUFFICES ASSUME prog = "threads", ~raced
               PROVE  /\ \A c \in Clients : /\ Busy(c)' => Peer(c)' = c
                                            /\ task'[c].pc = "start" => file'[cfd] = c
                      /\ \A c, d \in Clients : task'[c].pc = "start" /\ task'[d].pc = "start" => c = d
  BY DEF ThreadInv
<1>2. /\ \A c \in Clients : /\ Busy(c) => Peer(c) = c
                            /\ task[c].pc = "start" => file[cfd] = c
      /\ \A c, d \in Clients : task[c].pc = "start" /\ task[d].pc = "start" => c = d
  BY <1>1 DEF ThreadInv
<1>3. i \in Clients /\ \A c \in Clients : c \in Tasks
  BY DEF Tasks
<1>4. task[i].fd \in Fds /\ file[task[i].fd] = i
  BY <1>2, <1>3, TurnOf
<1>5. ASSUME NEW c \in Clients PROVE Busy(c)' => Peer(c)' = c
  <2>1. SUFFICES ASSUME Busy(c)' PROVE file'[task'[c].fd] = c
    BY DEF Peer
  <2>2. CASE c = i
    BY <2>1, <2>2, <1>4
  <2>3. CASE c # i
    <3>1. Busy(c) /\ task'[c] = task[c]
      BY <2>1, <2>3, <1>3 DEF Busy
    <3>2. task[c].fd \in Fds /\ file[task[c].fd] = c
      BY <3>1, <1>2, <1>3, TurnOf
    <3> QED
      BY <3>1, <3>2, <2>3, <1>4
  <2> QED
    BY <2>2, <2>3
<1>6. ASSUME NEW c \in Clients PROVE task'[c].pc = "start" => file'[cfd] = c
  <2>1. SUFFICES ASSUME task'[c].pc = "start" PROVE file'[cfd] = c
    OBVIOUS
  <2>2. c # i /\ task[c].pc = "start" /\ file[cfd] = c /\ cfd \in Fds
    BY <2>1, <1>2, <1>3 DEF ServedInv, RoleInv
  <2> QED
    BY <2>2, <1>4
<1>7. \A c, d \in Clients : task'[c].pc = "start" /\ task'[d].pc = "start" => c = d
  BY <1>2, <1>3
<1> QED
  BY <1>5, <1>6, <1>7

LEMMA ThreadApart ==
  ASSUME ThreadInv, UNCHANGED prog,
         prog # "threads" \/ UNCHANGED <<task, file, cfd, raced>>
  PROVE  ThreadInv'
BY DEF ThreadInv, Busy, Peer

LEMMA WaitScanPolite ==
  ASSUME up, ServedInv, ThreadInv, PoliteInv, Wait \/ Scan, UNCHANGED reactorVars
  PROVE  ThreadInv' /\ PoliteInv'
<1>1. /\ task[Main].pc = "scan" /\ Main \in Tasks
      /\ UNCHANGED <<prog, up, net, file, rude, raced, rpc, rfd, conn, spun>>
  BY DEF Wait, Scan, Tasks, reactorVars, kernel
<1>2. Echo /\ TypeOK /\ ~React /\ prog # "threads"
  BY <1>1, EchoOnly DEF ServedInv, RoleInv
<1>3. task'[Main].pc # "send" /\ \A i \in Tasks : i # Main => task'[i] = task[i]
  <2>1. CASE Wait
    BY <2>1, <1>2, WaitTask
  <2>2. CASE Scan
    <3>1. PICK f \in Fds \cup {Listener} :
            task' = [task EXCEPT ![Main].pc = IF f = Listener THEN "accept" ELSE "recv",
                                 ![Main].fd = f]
      BY <2>2, <1>2 DEF Scan, Candidates, TypeOK, EchoTypeOK
    <3>2. /\ task'[Main].pc = (IF f = Listener THEN "accept" ELSE "recv")
          /\ \A i \in Tasks : i # Main => task'[i] = task[i]
      BY <3>1, <1>2, ScanTask, Zenon
    <3> QED
      BY <3>2
  <2> QED
    BY <2>1, <2>2
<1>4. \A i \in Tasks : task'[i].pc = "send" /\ Peer(i)' # NoClient =>
                         task[i].pc = "send" /\ Peer(i)' = Peer(i) /\ Peer(i) \in Clients
  <2>1. TAKE i \in Tasks
  <2>2. HAVE task'[i].pc = "send" /\ Peer(i)' # NoClient
  <2>3. task'[i] = task[i] /\ Busy(i)
    BY <2>2, <1>3 DEF Busy
  <2>4. Peer(i)' = Peer(i)
    BY <2>3, <1>1 DEF Peer
  <2> QED
    BY <2>2, <2>3, <2>4, TurnOf
<1>5. Polite' => Polite
  BY <1>1 DEF Polite
<1> QED
  BY <1>1, <1>2, <1>4, <1>5, PoliteQuiet, ThreadApart

LEMMA AcceptPolite ==
  ASSUME up, ServedInv, ThreadInv, PoliteInv, Accept, UNCHANGED reactorVars
  PROVE  ThreadInv' /\ PoliteInv'
<1>1. PICK f \in Fds, p \in {"start", "failed"} :
       /\ task[Main].pc = "accept" /\ AcceptOne(f)
       /\ IF prog = "threads"
          THEN /\ cfd' = f
               /\ task' = [task EXCEPT ![Head(queue)].pc = p]
               /\ raced' = (raced \/ \E c \in Clients : task[c].pc = "start")
          ELSE /\ task' = [task EXCEPT ![Main] = [Off EXCEPT !.pc = "scan"]]
               /\ raced' = raced
       /\ UNCHANGED <<prog, up, rude>>
  BY DEF Accept
<1>2. Echo /\ TypeOK /\ ~React /\ RoleInv /\ Main \in Tasks /\ UNCHANGED <<rpc, rfd, conn, spun>>
  <2>1. Main \in Tasks
    BY DEF Tasks
  <2> QED
    BY <2>1, <1>1, EchoOnly DEF ServedInv, reactorVars
<1>3. PICK c \in Clients : c = Head(queue)
  BY <1>1, <1>2, AcceptLink
<1>4. /\ task' \in [Tasks -> Task]
      /\ prog = "threads" => /\ task'[c].pc = p
                             /\ \A i \in Tasks : i # c => task'[i] = task[i]
      /\ prog # "threads" => /\ task'[Main].pc = "scan"
                             /\ \A i \in Tasks : i # Main => task'[i] = task[i]
  BY <1>1, <1>2, <1>3, AcceptTask
<1>5. /\ file[f] = NoClient /\ file'[f] = c /\ \A g \in Fds : g # f => file'[g] = file[g]
      /\ \A d \in Clients : /\ net'[d].fin = net[d].fin /\ net'[d].asks = net[d].asks
                            /\ net'[d].rst = net[d].rst /\ net'[d].owed = net[d].owed
                            /\ net'[d].sent = net[d].sent /\ net'[d].got = net[d].got
  BY <1>1, <1>2, <1>3, AcceptLink
<1>6. ~raced' => ~raced /\ (prog = "threads" => \A d \in Clients : task[d].pc # "start")
  <2>1. CASE prog = "threads"
    <3>1. raced' = (raced \/ \E d \in Clients : task[d].pc = "start")
      BY <1>1, <2>1
    <3> QED
      BY <3>1, Zenon
  <2>2. CASE prog # "threads"
    BY <1>1, <2>2
  <2> QED
    BY <2>1, <2>2
<1>7. \A i \in Tasks : i # Main /\ Busy(i) /\ ~raced /\ prog = "threads" =>
                         task[i].fd \in Fds /\ Peer(i) = i /\ task[i].fd # f
  <2>1. TAKE i \in Tasks
  <2>2. HAVE i # Main /\ Busy(i) /\ ~raced /\ prog = "threads"
  <2>3. i \in Clients /\ task[i].fd \in Fds /\ Peer(i) = file[task[i].fd] /\ Peer(i) = i
    BY <2>2, TurnOf DEF Tasks, ThreadInv
  <2> QED
    BY <2>3, <1>5, SocketKernelAssumption DEF SocketKernelAssumption
<1>8. ThreadInv'
  <2>1. SUFFICES ASSUME prog = "threads", ~raced'
                 PROVE  /\ \A d \in Clients : /\ Busy(d)' => Peer(d)' = d
                                              /\ task'[d].pc = "start" => file'[cfd'] = d
                        /\ \A d, e \in Clients : task'[d].pc = "start" /\ task'[e].pc = "start" => d = e
    BY <1>1 DEF ThreadInv
  <2>2. \A d \in Clients : d \in Tasks /\ d # Main
    BY EchoServersAssumption DEF EchoServersAssumption, Tasks
  <2>3. \A d \in Clients : task'[d].pc = "start" => d = c
    BY <2>1, <2>2, <1>4, <1>6
  <2>4. cfd' = f
    BY <1>1, <2>1
  <2>5. ASSUME NEW d \in Clients, Busy(d)' PROVE Peer(d)' = d
    <3>1. d # c /\ task'[d] = task[d] /\ Busy(d)
      BY <2>1, <2>2, <2>5, <1>4 DEF Busy
    <3>2. task[d].fd \in Fds /\ Peer(d) = d /\ task[d].fd # f
      BY <3>1, <2>1, <2>2, <1>6, <1>7
    <3> QED
      BY <3>1, <3>2, <1>5 DEF Peer
  <2> QED
    BY <2>3, <2>4, <2>5, <1>5
<1>9. Polite' => Polite
  BY <1>1, <1>2, <1>6 DEF Polite
<1>10. Polite' => \A i \in Tasks : task'[i].pc = "send" /\ Peer(i)' # NoClient =>
                      task[i].pc = "send" /\ Peer(i)' = Peer(i) /\ Peer(i) \in Clients
  <2>1. SUFFICES ASSUME Polite', NEW i \in Tasks, task'[i].pc = "send", Peer(i)' # NoClient
                 PROVE  task[i].pc = "send" /\ Peer(i)' = Peer(i) /\ Peer(i) \in Clients
    OBVIOUS
  <2>2. ~raced
    BY <2>1, <1>9 DEF Polite
  <2>3. task'[i] = task[i] /\ task[i].pc = "send" /\ Busy(i)
    BY <2>1, <1>4 DEF Busy
  <2>4. i # Main /\ prog = "threads"
    BY <2>3, <1>1, TurnOf DEF Single
  <2>5. task[i].fd \in Fds /\ Peer(i) = i /\ task[i].fd # f
    BY <2>2, <2>3, <2>4, <1>7
  <2> QED
    BY <2>3, <2>4, <2>5, <1>5 DEF Peer, Tasks
<1> QED
  BY <1>1, <1>2, <1>5, <1>8, <1>9, <1>10, PoliteQuiet

LEMMA StartPolite ==
  ASSUME up, ServedInv, ThreadInv, PoliteInv, NEW i \in Tasks, Start(i), UNCHANGED reactorVars
  PROVE  ThreadInv' /\ PoliteInv'
<1>1. /\ task[i].pc = "start" /\ task' = [task EXCEPT ![i].pc = "recv", ![i].fd = cfd]
      /\ UNCHANGED <<prog, up, net, file, rude, cfd, raced, rpc, rfd, conn, spun>>
  BY DEF Start, kernel, reactorVars
<1>2. ~React /\ TypeOK /\ i # Main
  BY <1>1, EchoOnly DEF ServedInv, RoleInv
<1>3. /\ task' \in [Tasks -> Task] /\ \A j \in Tasks : j # i => task'[j] = task[j]
      /\ task'[i].pc = "recv" /\ task'[i].fd = cfd
  BY <1>1, <1>2, StartTask
<1>4. ThreadInv'
  <2>1. SUFFICES ASSUME prog = "threads", ~raced
                 PROVE  /\ \A d \in Clients : /\ Busy(d)' => Peer(d)' = d
                                              /\ task'[d].pc = "start" => file'[cfd] = d
                        /\ \A d, e \in Clients : task'[d].pc = "start" /\ task'[e].pc = "start" => d = e
    BY <1>1 DEF ThreadInv
  <2>2. /\ \A d \in Clients : /\ Busy(d) => Peer(d) = d
                              /\ task[d].pc = "start" => file[cfd] = d
        /\ \A d, e \in Clients : task[d].pc = "start" /\ task[e].pc = "start" => d = e
    BY <2>1 DEF ThreadInv
  <2>3. i \in Clients /\ \A d \in Clients : d \in Tasks
    BY <1>2 DEF Tasks
  <2>4. \A d \in Clients : task'[d].pc # "start"
    BY <1>1, <1>3, <2>2, <2>3
  <2>5. \A d \in Clients : Busy(d)' => Peer(d)' = d
    BY <1>1, <1>3, <2>2, <2>3 DEF Busy, Peer
  <2> QED
    BY <2>4, <2>5
<1>5. \A j \in Tasks : task'[j].pc = "send" /\ Peer(j)' # NoClient =>
                         task[j].pc = "send" /\ Peer(j)' = Peer(j) /\ Peer(j) \in Clients
  <2>1. TAKE j \in Tasks
  <2>2. HAVE task'[j].pc = "send" /\ Peer(j)' # NoClient
  <2>3. task'[j] = task[j] /\ Busy(j)
    BY <2>2, <1>3 DEF Busy
  <2>4. Peer(j)' = Peer(j)
    BY <2>3, <1>1 DEF Peer
  <2> QED
    BY <2>2, <2>3, <2>4, TurnOf
<1>6. Polite' => Polite
  BY <1>1 DEF Polite
<1> QED
  BY <1>1, <1>2, <1>4, <1>5, <1>6, PoliteQuiet

\* While every client behaves each task that sends has a client of its own.
LEMMA SendsApart ==
  ASSUME ServedInv, ThreadInv, ~raced, NEW i \in Tasks, NEW j \in Tasks, i # j,
         Busy(i), Busy(j)
  PROVE  Peer(i) # Peer(j) /\ task[i].fd # task[j].fd
<1>1. prog = "threads" /\ i # Main /\ j # Main
  BY TurnOf
<1>2. i \in Clients /\ j \in Clients
  BY <1>1 DEF Tasks
<1>3. Peer(i) = i /\ Peer(j) = j
  BY <1>1, <1>2 DEF ThreadInv
<1> QED
  BY <1>3, TurnOf

LEMMA SpinPolite ==
  ASSUME up, ServedInv, ThreadInv, PoliteInv, NEW i \in Tasks, Spin(i), UNCHANGED reactorVars
  PROVE  ThreadInv' /\ PoliteInv'
<1>1. /\ Busy(i) /\ Peer(i) = NoClient /\ UNCHANGED <<prog, raced>>
  BY DEF Spin, Busy
<1>2. prog = "threads" /\ i # Main /\ i \in Clients
  BY <1>1, TurnOf DEF Tasks
<1>3. raced
  BY <1>1, <1>2, SocketKernelAssumption DEF ThreadInv, SocketKernelAssumption
<1> QED
  BY <1>1, <1>3 DEF ThreadInv, PoliteInv, Polite

LEMMA TakePolite ==
  ASSUME up, ServedInv, ThreadInv, PoliteInv, NEW i \in Tasks, Busy(i), Peer(i) # NoClient,
         Received(Peer(i)) = "data", Take(i),
         UNCHANGED <<prog, said, queue, rude, cfd, raced, reactorVars>>
  PROVE  ThreadInv' /\ PoliteInv'
<1>1. /\ Echo /\ TypeOK /\ KernelInv /\ task[i].fd \in Fds
      /\ Peer(i) = file[task[i].fd] /\ (~Single => i # Main) /\ (Single => prog # "threads")
      /\ ~React /\ UNCHANGED <<rpc, rfd, conn, spun>>
  BY TurnOf DEF Single, React, Echo, reactorVars
<1>2. UNCHANGED <<up, file>>
  BY DEF Take
<1>3. PICK c \in Clients : c = Peer(i)
  BY <1>1, TakeFacts
<1>4. PICK k \in 1 .. MaxSend :
        /\ k <= Data(c) /\ net[c].got + k \in 0 .. MaxSend
        /\ net' = [net EXCEPT ![c].got = net[c].got + k]
        /\ task' \in [Tasks -> Task] /\ \A j \in Tasks : j # i => task'[j] = task[j]
        /\ task'[i].pc = "send" /\ task'[i].fd = task[i].fd
  BY <1>1, <1>3, TakeFacts
<1>5. /\ net' \in [Clients -> Link] /\ \A d \in Clients : d # c => net'[d] = net[d]
      /\ net'[c].fin = net[c].fin /\ net'[c].asks = net[c].asks
      /\ net'[c].rst = net[c].rst /\ net'[c].owed = net[c].owed
  BY <1>1, <1>4, GotLink
<1>6. ThreadInv'
  <2>1. CASE Single
    BY <1>1, <2>1, ThreadApart
  <2>2. CASE ~Single
    BY <1>1, <1>2, <1>4, <2>2, ThreadTurn
  <2> QED
    BY <2>1, <2>2
<1>7. PoliteInv'
  <2>1. SUFFICES ASSUME Polite' PROVE up' /\ LinksPolite' /\ SendsAsked'
    BY DEF PoliteInv
  <2>2. Polite /\ up /\ LinksPolite /\ SendsAsked
    BY <1>1, <2>1 DEF Polite, PoliteInv
  <2>3. net[c].asks
    <3>1. Data(c) > 0
      BY <1>3 DEF Received
    <3> QED
      BY <2>2, <3>1 DEF LinksPolite
  <2>4. LinksPolite'
    BY <1>1, <1>5, <2>2, <2>3 DEF LinksPolite, Data
  <2>5. \A j \in Tasks : task'[j].pc = "send" /\ Peer(j)' # NoClient => net'[Peer(j)'].asks
    <3>1. TAKE j \in Tasks
    <3>2. HAVE task'[j].pc = "send" /\ Peer(j)' # NoClient
    <3>3. CASE j = i
      BY <3>3, <1>1, <1>2, <1>3, <1>4, <1>5, <2>3 DEF Peer
    <3>4. CASE j # i
      <4>1. task'[j] = task[j] /\ Busy(j) /\ Peer(j)' = Peer(j)
        BY <3>2, <3>4, <1>2, <1>4 DEF Busy, Peer
      <4>2. Peer(j) \in Clients
        BY <4>1, <3>2, TurnOf
      <4> QED
        BY <3>2, <4>1, <4>2, <1>5, <2>2 DEF SendsAsked
    <3> QED
      BY <3>3, <3>4
  <2> QED
    BY <1>1, <1>2, <2>2, <2>4, <2>5 DEF SendsAsked, React
<1> QED
  BY <1>6, <1>7

LEMMA ClosePolite ==
  ASSUME up, ServedInv, ThreadInv, PoliteInv, NEW i \in Tasks, Busy(i), Peer(i) # NoClient, Close(i),
         UNCHANGED <<prog, said, queue, rude, cfd, raced, reactorVars>>
  PROVE  ThreadInv' /\ PoliteInv'
<1>1. /\ TypeOK /\ KernelInv /\ task[i].fd \in Fds
      /\ Peer(i) = file[task[i].fd] /\ (~Single => i # Main) /\ (Single => prog # "threads")
      /\ ~React /\ UNCHANGED <<up, rpc, rfd, conn, spun>>
  BY TurnOf DEF Single, React, Echo, reactorVars, Close
<1>2. PICK c \in Clients : c = Peer(i)
  BY <1>1, CloseFacts
<1>3. /\ net' = [net EXCEPT ![c].st = "gone"]
      /\ file'[task[i].fd] = NoClient /\ \A g \in Fds : g # task[i].fd => file'[g] = file[g]
      /\ \A j \in Tasks : j # i => task'[j] = task[j]
      /\ task'[i].pc = IF i = Main THEN "scan" ELSE "none"
  BY <1>1, <1>2, CloseFacts
<1>4. \A d \in Clients : /\ net'[d].fin = net[d].fin /\ net'[d].asks = net[d].asks
                         /\ net'[d].rst = net[d].rst /\ net'[d].owed = net[d].owed
                         /\ net'[d].sent = net[d].sent /\ net'[d].got = net[d].got
  BY <1>1, <1>3, GoneLink
<1>5. ~Busy(i)' /\ task'[i].pc # "start" /\ task'[i].pc # "send"
  BY <1>3 DEF Busy
<1>6. ThreadInv'
  <2>1. CASE Single
    BY <1>1, <2>1, ThreadApart
  <2>2. CASE ~Single
    BY <1>1, <1>3, <1>5, <2>2, ThreadTurn
  <2> QED
    BY <2>1, <2>2
<1>7. \A j \in Tasks : task'[j].pc = "send" /\ Peer(j)' # NoClient =>
                         task[j].pc = "send" /\ Peer(j)' = Peer(j) /\ Peer(j) \in Clients
  <2>1. TAKE j \in Tasks
  <2>2. HAVE task'[j].pc = "send" /\ Peer(j)' # NoClient
  <2>3. j # i /\ task'[j] = task[j] /\ Busy(j)
    BY <2>2, <1>3, <1>5 DEF Busy
  <2>4. Peer(j) \in Clients \cup {NoClient} /\ task[j].fd \in Fds
    BY <2>3, TurnOf
  <2>5. task[j].fd # task[i].fd
    BY <2>2, <2>3, <1>3 DEF Peer
  <2>6. Peer(j)' = Peer(j)
    BY <2>3, <2>4, <2>5, <1>3 DEF Peer
  <2> QED
    BY <2>2, <2>3, <2>4, <2>6
<1>8. Polite' => Polite
  BY <1>1 DEF Polite
<1> QED
  BY <1>1, <1>4, <1>6, <1>7, <1>8, PoliteQuiet

LEMMA FailPolite ==
  ASSUME up, ServedInv, ThreadInv, PoliteInv, NEW i \in Tasks, Busy(i), Peer(i) # NoClient,
         Received(Peer(i)) = "error", Fail(i),
         UNCHANGED <<prog, said, queue, rude, cfd, raced, reactorVars>>
  PROVE  ThreadInv' /\ PoliteInv'
<1>1. /\ TypeOK /\ Peer(i) \in Clients /\ prog # "http" /\ (~Single => i # Main)
      /\ (Single => prog # "threads") /\ UNCHANGED <<file, spun>>
      /\ task' = [task EXCEPT ![i] = Back(i)]
  BY TurnOf DEF Single, Echo, reactorVars, Fail
<1>2. /\ \A j \in Tasks : j # i => task'[j] = task[j]
      /\ i = Main => task'[i].pc = "scan"
      /\ i # Main => task'[i].pc = "recv" /\ task'[i].fd = task[i].fd
  BY <1>1, BackTask
<1>3. ThreadInv'
  <2>1. CASE Single
    BY <1>1, <2>1, ThreadApart
  <2>2. CASE ~Single
    BY <1>1, <1>2, <2>2, ThreadTurn
  <2> QED
    BY <2>1, <2>2
<1>4. net[Peer(i)].rst # "none"
  BY <1>1, LinkOf DEF Received, Data, Link
<1>5. ~Polite
  BY <1>1, <1>4 DEF PoliteInv, LinksPolite
<1> QED
  BY <1>1, <1>3, <1>5 DEF PoliteInv, Polite

\* send() to a client that waits for the answer.
LEMMA SentLinks ==
  ASSUME TypeOK, LinksPolite, NEW c \in Clients, prog' = prog,
         \A d \in Clients : d # c => net'[d] = net[d],
         ~net'[c].fin, net'[c].rst = "none", ~net'[c].owed,
         net'[c].asks = (Data(c) > 0), net'[c].sent = net[c].sent, net'[c].got = net[c].got,
         net[c].asks, KernelInv
  PROVE  LinksPolite'
<1>1. net'[c].asks = (Data(c)' > 0) /\ Data(c)' \in Nat
  <2>1. Data(c) \in Nat /\ Data(c)' = Data(c)
    <3>1. net[c].got \in Nat /\ net[c].sent \in Nat /\ net[c].got <= net[c].sent
      BY LinkOf DEF Link, KernelInv
    <3> QED
      BY <3>1 DEF Data
  <2> QED
    BY <2>1
<1>2. ~net'[c].asks => Data(c)' = 0
  <2>1. ~net'[c].asks => ~(Data(c)' > 0)
    BY <1>1, Zenon
  <2>2. PICK k \in Nat : k = Data(c)'
    BY <1>1
  <2>3. ~(k > 0) => k = 0
    OBVIOUS
  <2> QED
    BY <2>1, <2>2, <2>3
<1>3. \A d \in Clients \ {c} : /\ net'[d].fin => ~net'[d].asks
                               /\ ~net'[d].asks => Data(d)' = 0
                               /\ net'[d].rst # "none" \/ net'[d].owed => prog' = "http" /\ net'[d].fin
  BY DEF LinksPolite, Data
<1> QED
  BY <1>2, <1>3 DEF LinksPolite

LEMMA SendPolite ==
  ASSUME up, ServedInv, ThreadInv, PoliteInv, NEW i \in Tasks, Send(i), UNCHANGED reactorVars
  PROVE  ThreadInv' /\ PoliteInv'
<1>1. /\ Busy(i) /\ task[i].pc = "send" /\ Peer(i) # NoClient
      /\ task' = [task EXCEPT ![i] = Back(i)] /\ SendTo(Peer(i), task[i].buf)
      /\ UNCHANGED <<prog, file, rude, cfd, raced, rpc, rfd, conn, spun>>
  BY DEF Send, Busy, reactorVars
<1>2. /\ TypeOK /\ ~React /\ (~Single => i # Main)
      /\ (Single => prog # "threads")
  BY <1>1, TurnOf DEF Single, React, Echo
<1>3. PICK c \in Clients : c = Peer(i)
  BY <1>1, TurnOf
<1>4. /\ \A j \in Tasks : j # i => task'[j] = task[j]
      /\ i = Main => task'[i].pc = "scan"
      /\ i # Main => task'[i].pc = "recv" /\ task'[i].fd = task[i].fd
  BY <1>1, <1>2, BackTask
<1>5. ThreadInv'
  <2>1. CASE Single
    BY <1>1, <1>2, <2>1, ThreadApart
  <2>2. CASE ~Single
    BY <1>1, <1>2, <1>4, <2>2, ThreadTurn
  <2> QED
    BY <2>1, <2>2
<1>6. PoliteInv'
  <2>1. SUFFICES ASSUME Polite' PROVE up' /\ LinksPolite' /\ SendsAsked'
    BY DEF PoliteInv
  <2>2. Polite /\ up /\ LinksPolite /\ SendsAsked
    BY <1>1, <2>1 DEF Polite, PoliteInv
  <2>3. net[c].asks
    BY <1>1, <1>3, <2>2 DEF SendsAsked
  <2>4. ~net[c].fin /\ net[c].rst = "none" /\ ~net[c].owed /\ ~Broken(c)
    BY <2>2, <2>3, AsksLink
  <2>5. /\ up' = up /\ \A d \in Clients : d # c => net'[d] = net[d]
        /\ ~net'[c].fin /\ net'[c].rst = "none" /\ ~net'[c].owed
        /\ net'[c].asks = (Data(c) > 0) /\ net'[c].sent = net[c].sent /\ net'[c].got = net[c].got
    BY <1>1, <1>2, <1>3, <2>4, SendToLink
  <2>6. LinksPolite'
    BY <1>1, <1>2, <2>2, <2>3, <2>5, SentLinks DEF ServedInv
  <2>7. \A j \in Tasks : task'[j].pc = "send" /\ Peer(j)' # NoClient => net'[Peer(j)'].asks
    <3>1. TAKE j \in Tasks
    <3>2. HAVE task'[j].pc = "send" /\ Peer(j)' # NoClient
    <3>3. j # i
      BY <3>2, <1>4
    <3>4. task'[j] = task[j] /\ Busy(j) /\ Peer(j)' = Peer(j)
      BY <3>2, <3>3, <1>1, <1>4 DEF Busy, Peer
    <3>5. Peer(j) # c /\ Peer(j) \in Clients
      BY <3>2, <3>3, <3>4, <1>1, <1>3, <2>2, SendsApart, TurnOf DEF Polite
    <3> QED
      BY <3>2, <3>4, <3>5, <2>2, <2>5 DEF SendsAsked
  <2> QED
    BY <1>2, <1>1, <2>2, <2>5, <2>6, <2>7 DEF SendsAsked, React
<1> QED
  BY <1>5, <1>6

LEMMA EchoPolite ==
  ASSUME up, ServedInv, ThreadInv, PoliteInv, EchoStep, UNCHANGED reactorVars
  PROVE  ThreadInv' /\ PoliteInv'
<1>1. ASSUME NEW i \in Tasks, Recv(i) PROVE ThreadInv' /\ PoliteInv'
  <2>1. /\ Busy(i) /\ Peer(i) # NoClient /\ UNCHANGED <<prog, said, queue, rude, cfd, raced>>
        /\ \/ Received(Peer(i)) = "data" /\ Take(i)
           \/ Received(Peer(i)) = "end" /\ Close(i)
           \/ Received(Peer(i)) = "error" /\ Fail(i)
    BY <1>1 DEF Recv, Busy
  <2> QED
    BY <2>1, TakePolite, ClosePolite, FailPolite
<1> QED
  BY <1>1, WaitScanPolite, AcceptPolite, StartPolite, SpinPolite, SendPolite
     DEF EchoStep, TaskStep

\* The reactors: the connections of the other descriptors are as they were.
LEMMA OthersAsked ==
  ASSUME ServedInv, SendsAsked, React, NEW f \in Fds, NEW c \in Clients, file[f] = c,
         UNCHANGED <<prog, task>>,
         \A g \in Fds : g # f => file'[g] = file[g] /\ conn'[g] = conn[g],
         \A d \in Clients : d # c => net'[d] = net[d],
         \A g \in Fds : g # f => ~InBody(g) /\ ~InBody(g)',
         file'[f] # NoClient /\ conn'[f].cb = "send" =>
           IF InBody(f)' THEN net'[file'[f]].rst = "none" /\ ~net'[file'[f]].owed
           ELSE net'[file'[f]].asks
  PROVE  SendsAsked'
<1>1. \A i \in Tasks : task'[i].pc # "send"
  BY DEF ServedInv, RoleInv
<1>2. ASSUME NEW g \in Fds, g # f, file'[g] # NoClient, conn'[g].cb = "send"
      PROVE  net'[file'[g]].asks
  <2>1. file'[g] = file[g] /\ conn'[g] = conn[g] /\ ~InBody(g)
    BY <1>2
  <2>2. file[g] \in Clients /\ file[g] # c
    BY <2>1, <1>2, ConnOf DEF ServedInv, KernelInv
  <2>3. net[file[g]].asks
    BY <2>1, <1>2 DEF SendsAsked
  <2> QED
    BY <2>1, <2>2, <2>3
<1> QED
  BY <1>1, <1>2 DEF SendsAsked

LEMMA QuietReactPolite ==
  ASSUME up, ServedInv, PoliteInv, EpollWait \/ Accept_cb, UNCHANGED echoVars
  PROVE  PoliteInv'
<1>1. UNCHANGED <<prog, up, rpc, rfd, rude, spun, task, raced>>
  BY DEF EpollWait, Accept_cb, kernel, echoVars
<1>2. TypeOK /\ React
  BY DEF ServedInv, RoleInv, EpollWait, Accept_cb
<1>3. \A i \in Tasks : task'[i].pc # "send"
  BY <1>1, <1>2 DEF ServedInv, RoleInv
<1>4. /\ \A d \in Clients : /\ net'[d].fin = net[d].fin /\ net'[d].asks = net[d].asks
                            /\ net'[d].rst = net[d].rst /\ net'[d].owed = net[d].owed
                            /\ net'[d].sent = net[d].sent /\ net'[d].got = net[d].got
      /\ \A f \in Fds : file'[f] # NoClient /\ conn'[f].cb = "send" =>
                    conn[f].cb = "send" /\ file'[f] = file[f] /\ file[f] \in Clients
  <2>1. CASE EpollWait
    BY <2>1, <1>2, ConnOf DEF EpollWait, kernel
  <2>2. CASE Accept_cb
    <3>1. PICK f \in Fds : AcceptOne(f) /\ conn' = [conn EXCEPT ![f].cb = "recv"]
      BY <2>2 DEF Accept_cb
    <3>2. /\ \A g \in Fds : g # f => conn'[g] = conn[g]
          /\ conn'[f].cb = "recv"
      BY <3>1, <1>2, CbConn
    <3>3. \A g \in Fds : g # f => file'[g] = file[g]
      BY <3>1, <1>2, AcceptLink
    <3>4. \A d \in Clients : /\ net'[d].fin = net[d].fin /\ net'[d].asks = net[d].asks
                             /\ net'[d].rst = net[d].rst /\ net'[d].owed = net[d].owed
                             /\ net'[d].sent = net[d].sent /\ net'[d].got = net[d].got
      BY <3>1, <1>2, AcceptLink
    <3> QED
      BY <1>2, <3>2, <3>3, <3>4, ConnOf
  <2> QED
    BY <2>1, <2>2
<1>5. Polite' => Polite
  BY <1>1 DEF Polite
<1> QED
  BY <1>1, <1>3, <1>4, <1>5, PoliteQuiet

LEMMA RecvCbPolite ==
  ASSUME up, ServedInv, PoliteInv, NEW f \in Fds, Recv_cb(f), UNCHANGED echoVars
  PROVE  PoliteInv'
<1> USE SocketKernelAssumption DEF SocketKernelAssumption
<1>1. /\ Called(f, "recv")
      /\ \/ Received(file[f]) = "data" /\ (IF prog = "http" THEN Request(f) ELSE Fill(f))
            /\ UNCHANGED file
         \/ Received(file[f]) = "end" /\ Disconnect(f) /\ UNCHANGED up
         \/ Received(file[f]) = "error" /\ RecvError(f) /\ UNCHANGED file
      /\ UNCHANGED <<prog, rude, rpc, rfd, spun, task, raced>>
  BY DEF Recv_cb, echoVars
<1>2. /\ React /\ TypeOK /\ KernelInv /\ rpc = "loop" /\ file[f] # NoClient
  BY <1>1, CalledOf DEF ServedInv
<1>3. PICK c \in Clients : c = file[f]
  BY <1>1, CalledOf
<1>4. SUFFICES ASSUME Polite' PROVE (up' \/ Overrun' # {}) /\ LinksPolite' /\ SendsAsked'
  BY DEF PoliteInv
<1>5. Polite /\ up /\ LinksPolite /\ SendsAsked
  BY <1>1, <1>4 DEF Polite, PoliteInv
<1>6. \A g : ~InBody(g) /\ ~InBody(g)'
  BY <1>1, <1>2 DEF InBody
<1>7. CASE Received(c) = "data" /\ (IF prog = "http" THEN Request(f) ELSE Fill(f)) /\ UNCHANGED file
  <2>1. net[c].asks
    <3>1. Data(c) > 0
      BY <1>7 DEF Received
    <3> QED
      BY <1>5, <3>1 DEF LinksPolite
  <2>2. \E k \in 0 .. MaxSend :
          /\ net' = [net EXCEPT ![c].got = k]
          /\ up' \/ (prog = "reactor" /\ k > BufferLength)
    <3>1. /\ net[c].got <= net[c].sent /\ net[c].got \in Nat /\ net[c].sent \in 0 .. MaxSend
          /\ net[c].sent <= MaxSend /\ BufferLength \in Nat
          /\ conn[f].rc \in Int /\ conn[f].rc <= net[c].got
      BY <1>2, <1>3, LinkOf, ConnOf, BufferType DEF KernelInv, Link, ServedInv, RcInv, Connect_t
    <3>2. CASE prog = "http"
      BY <3>1, <3>2, <1>3, <1>5, <1>7 DEF Request
    <3>3. CASE prog # "http"
      <4>1. PICK k : k = Taken(c)
        OBVIOUS
      <4>2. /\ k \in Nat /\ net[c].got + k \in 0 .. MaxSend
            /\ net' = [net EXCEPT ![c].got = net[c].got + k]
            /\ up' = (conn[f].rc + k <= BufferLength)
        <5>1. Data(c) > 0 /\ Fill(f)
          BY <1>7, <3>3 DEF Received
        <5>2. Filled(f, c, k)
          BY <5>1, <4>1, <3>1, <1>2, <1>3, FillConn
        <5> QED
          BY <5>2 DEF Filled
      <4>3. up' \/ net[c].got + k > BufferLength
        <5>1. up' \/ ~(conn[f].rc + k <= BufferLength)
          BY <4>2
        <5>2. conn[f].rc + k <= BufferLength \/ net[c].got + k > BufferLength
          BY <3>1, <4>2
        <5> QED
          BY <5>1, <5>2
      <4> QED
        BY <4>2, <4>3, <3>3, <1>2 DEF React
    <3> QED
      BY <3>2, <3>3
  <2>3. /\ \A d \in Clients : d # c => net'[d] = net[d]
        /\ net'[c].fin = net[c].fin /\ net'[c].asks = net[c].asks
        /\ net'[c].rst = net[c].rst /\ net'[c].owed = net[c].owed
        /\ up' \/ (prog = "reactor" /\ net'[c].got > BufferLength)
    BY <1>2, <2>2, GotLink
  <2>4. LinksPolite'
    BY <1>1, <1>5, <2>1, <2>3 DEF LinksPolite, Data
  <2>5. \A g \in Fds : g # f => conn'[g] = conn[g]
    <3>1. conn \in [Fds -> Connect_t]
      BY <1>2 DEF TypeOK, ReactorTypeOK
    <3>2. CASE Request(f)
      BY <3>1, <3>2 DEF Request
    <3>3. CASE Fill(f)
      BY <3>1, <3>3 DEF Fill
    <3> QED
      BY <1>7, <3>2, <3>3
  <2>6. SendsAsked'
    BY <1>1, <1>2, <1>3, <1>5, <1>6, <1>7, <2>1, <2>3, <2>5, OthersAsked
  <2>7. up' \/ Overrun' # {}
    BY <1>1, <2>3 DEF Overrun
  <2> QED
    BY <2>4, <2>6, <2>7
<1>8. CASE Received(c) = "end" /\ Disconnect(f) /\ UNCHANGED up
  <2>1. /\ conn' = [conn EXCEPT ![f].rc = 0, ![f].hdr = NoHdr]
        /\ net' = [net EXCEPT ![c].st = "gone"] /\ file' = [file EXCEPT ![f] = NoClient]
    BY <1>3, <1>8 DEF Disconnect
  <2>2. /\ \A d \in Clients : d # c => net'[d] = net[d]
        /\ net'[c].fin = net[c].fin /\ net'[c].asks = net[c].asks
        /\ net'[c].rst = net[c].rst /\ net'[c].owed = net[c].owed
        /\ net'[c].sent = net[c].sent /\ net'[c].got = net[c].got
    BY <1>2, <2>1, GoneLink
  <2>3. LinksPolite'
    BY <1>1, <1>5, <2>2 DEF LinksPolite, Data
  <2>4. /\ \A g \in Fds : g # f => conn'[g] = conn[g] /\ file'[g] = file[g]
        /\ file'[f] = NoClient
    <3>1. \A g \in Fds : g # f => conn'[g] = conn[g]
      BY <1>2, <2>1, DisconnectConn
    <3>2. file \in [Fds -> Clients \cup {NoClient}]
      BY <1>2 DEF TypeOK, KernelTypeOK
    <3> QED
      BY <2>1, <3>1, <3>2, Zenon
  <2>5. SendsAsked'
    BY <1>1, <1>2, <1>3, <1>5, <1>6, <2>2, <2>4, OthersAsked
  <2> QED
    BY <1>5, <1>8, <2>3, <2>5
<1>9. CASE Received(c) = "error"
  <2>1. net[c].rst # "none" /\ ~net[c].fin
    BY <1>2, <1>9, LinkOf DEF Received, Data, Link
  <2> QED
    BY <1>5, <2>1 DEF LinksPolite
<1> QED
  BY <1>1, <1>3, <1>7, <1>8, <1>9

LEMMA SendCbPolite ==
  ASSUME up, ServedInv, PoliteInv, NEW f \in Fds, Send_cb(f) \/ SendHeader(f), UNCHANGED echoVars
  PROVE  PoliteInv'
<1>1. /\ Called(f, "send") /\ \E a : SendTo(file[f], a)
      /\ UNCHANGED <<prog, file, rude, spun, task, raced>>
  BY DEF Send_cb, SendHeader, echoVars
<1>2. /\ React /\ TypeOK /\ KernelInv /\ rpc = "loop" /\ file[f] # NoClient /\ conn[f].cb = "send"
  BY <1>1, CalledOf DEF ServedInv
<1>3. PICK c \in Clients : c = file[f]
  BY <1>1, CalledOf
<1>4. PICK a : SendTo(c, a)
  BY <1>1, <1>3
<1>5. SUFFICES ASSUME Polite' PROVE up' /\ LinksPolite' /\ SendsAsked'
  BY DEF PoliteInv
<1>6. Polite /\ up /\ LinksPolite /\ SendsAsked
  BY <1>1, <1>5 DEF Polite, PoliteInv
<1>7. net[c].asks
  BY <1>2, <1>3, <1>6 DEF SendsAsked, InBody
<1>8. ~net[c].fin /\ net[c].rst = "none" /\ ~net[c].owed /\ ~Broken(c)
  BY <1>6, <1>7, AsksLink
<1>9. /\ up' = up /\ \A d \in Clients : d # c => net'[d] = net[d]
      /\ ~net'[c].fin /\ net'[c].rst = "none" /\ ~net'[c].owed
      /\ net'[c].asks = (Data(c) > 0) /\ net'[c].sent = net[c].sent /\ net'[c].got = net[c].got
  BY <1>2, <1>4, <1>8, SendToLink
<1>10. LinksPolite'
  BY <1>1, <1>2, <1>6, <1>7, <1>9, SentLinks DEF ServedInv
<1>11. /\ \A g \in Fds : g # f => conn'[g] = conn[g]
       /\ conn'[f].cb = "send" => InBody(f)'
       /\ \A g \in Fds : g # f => ~InBody(g) /\ ~InBody(g)'
  <2>1. CASE Send_cb(f)
    <3>1. conn' = [conn EXCEPT ![f].cb = "recv"] /\ rpc' = rpc
      BY <2>1 DEF Send_cb
    <3>2. conn'[f].cb = "recv" /\ \A g \in Fds : g # f => conn'[g] = conn[g]
      BY <1>2, <3>1, CbConn
    <3> QED
      BY <1>2, <3>1, <3>2 DEF InBody
  <2>2. CASE SendHeader(f)
    <3>1. /\ conn' = [conn EXCEPT ![f] = IF Response(f).flag THEN Response(f) ELSE Reads(Response(f))]
          /\ rpc' = (IF Response(f).flag THEN "body" ELSE "loop")
          /\ rfd' = (IF Response(f).flag THEN f ELSE Listener)
      BY <2>2 DEF SendHeader
    <3>2. /\ \A g \in Fds : g # f => conn'[g] = conn[g]
          /\ ~Response(f).flag => conn'[f].cb = "recv"
      BY <1>2, <3>1, HeaderConn
    <3>3. conn'[f].cb = "send" => rpc' = "body" /\ rfd' = f
      BY <3>1, <3>2
    <3>4. rpc' = "body" => rfd' = f
      BY <3>1
    <3> QED
      BY <1>2, <3>2, <3>3, <3>4 DEF InBody
  <2> QED
    BY <2>1, <2>2
<1>12. SendsAsked'
  BY <1>1, <1>2, <1>3, <1>6, <1>9, <1>11, OthersAsked
<1> QED
  BY <1>6, <1>9, <1>10, <1>12

LEMMA SendBodyPolite ==
  ASSUME up, ServedInv, PoliteInv, SendBody, UNCHANGED echoVars
  PROVE  PoliteInv'
<1>1. PICK f \in Fds : f = rfd
  BY DEF ServedInv, ReactInv, SendBody
<1>2. /\ TypeOK /\ KernelInv /\ prog = "http" /\ React /\ rpc = "body"
      /\ file[f] \in Clients /\ file[f] # NoClient /\ conn[f].cb = "send"
  BY <1>1, ConnOf DEF ServedInv, ReactInv, SendBody, React
<1>3. PICK c \in Clients : c = file[f]
  BY <1>2
<1>4. /\ rpc' = "loop" /\ UNCHANGED <<prog, file, rude, task, raced>>
      /\ spun' = TRUE \/ (spun' = spun /\ size[conn[f].res] # 0 /\
                          conn' = [conn EXCEPT ![f] = [Reads(conn[f]) EXCEPT !.flag = FALSE]])
  BY <1>1 DEF SendBody, echoVars
<1>5. SUFFICES ASSUME Polite' PROVE up' /\ LinksPolite' /\ SendsAsked'
  BY DEF PoliteInv
<1>6. /\ spun' = spun /\ size[conn[f].res] # 0
      /\ conn' = [conn EXCEPT ![f] = [Reads(conn[f]) EXCEPT !.flag = FALSE]]
  BY <1>4, <1>5 DEF Polite
<1>7. Polite /\ up /\ LinksPolite /\ SendsAsked
  BY <1>4, <1>5, <1>6 DEF Polite, PoliteInv
<1>8. net[c].rst = "none" /\ ~net[c].owed /\ ~Broken(c)
  BY <1>1, <1>2, <1>3, <1>7 DEF SendsAsked, InBody, Broken
<1>9. PICK y \in AfterSend(c) : net' = [net EXCEPT ![c] = y] /\ up' = up
  BY <1>1, <1>3, <1>6, <1>8 DEF SendBody
<1>10. /\ y \in Link /\ y.sent = net[c].sent /\ y.got = net[c].got
       /\ y.fin = net[c].fin /\ y.rst = "none" /\ y.owed = (net[c].owed \/ net[c].fin)
       /\ y.asks = net[c].asks
  BY <1>2, <1>8, AfterSendLink
<1>11. /\ net'[c] = y /\ \A d \in Clients : d # c => net'[d] = net[d]
  BY <1>2, <1>9, <1>10, LinkSet
<1>12. LinksPolite'
  <2>1. /\ y.fin => ~y.asks
        /\ ~y.asks => y.sent - y.got = 0
        /\ y.owed => y.fin
    BY <1>7, <1>8, <1>10 DEF LinksPolite, Data
  <2>2. ASSUME NEW d \in Clients
        PROVE  /\ net'[d].fin => ~net'[d].asks
               /\ ~net'[d].asks => Data(d)' = 0
               /\ net'[d].rst # "none" \/ net'[d].owed => prog' = "http" /\ net'[d].fin
    <3>1. CASE d = c
      BY <3>1, <2>1, <1>2, <1>4, <1>10, <1>11 DEF Data
    <3>2. CASE d # c
      BY <3>2, <1>4, <1>7, <1>11 DEF LinksPolite, Data
    <3> QED
      BY <3>1, <3>2
  <2> QED
    BY <2>2 DEF LinksPolite
<1>13. conn'[f].cb = "recv" /\ \A g \in Fds : g # f => conn'[g] = conn[g]
  BY <1>2, <1>6, BodyConn
<1>14. \A g \in Fds : g # f => ~InBody(g) /\ ~InBody(g)'
  BY <1>1, <1>4 DEF InBody
<1>15. SendsAsked'
  BY <1>2, <1>3, <1>4, <1>7, <1>11, <1>13, <1>14, OthersAsked
<1> QED
  BY <1>7, <1>9, <1>12, <1>15

LEMMA FileChangePolite ==
  ASSUME up, ServedInv, PoliteInv, NEW y \in Names, FileChange(y), UNCHANGED echoVars
  PROVE  PoliteInv'
<1>1. UNCHANGED <<prog, up, net, file, rude, rpc, rfd, spun, task, raced>>
  BY DEF FileChange, kernel, echoVars
<1>2. TypeOK
  BY DEF ServedInv
<1>3. \A f \in Fds : conn'[f].cb = conn[f].cb
  <2>1. conn' = [f \in Fds |-> IF conn[f].ask = y THEN [conn[f] EXCEPT !.still = FALSE] ELSE conn[f]]
    BY DEF FileChange
  <2> QED
    BY <1>2, <2>1, ChangeConn, ZenonT(40)
<1>4. \A f \in Fds : file[f] \in Clients \cup {NoClient}
  BY <1>2, ConnOf
<1>5. \A i \in Tasks : /\ Peer(i)' = Peer(i)
                       /\ task[i].pc = "send" /\ Peer(i) # NoClient => Peer(i) \in Clients
  BY <1>1, PeerKept
<1>6. Polite' => Polite
  BY <1>1 DEF Polite
<1> QED
  BY <1>1, <1>3, <1>4, <1>5, <1>6, PoliteQuiet

LEMMA NextPolite ==
  ASSUME ServedInv, ThreadInv, PoliteInv, [Next]_vars PROVE ThreadInv' /\ PoliteInv'
<1>1. CASE UNCHANGED vars
  <2>1. /\ UNCHANGED <<prog, up, net, said, queue, file, edge, back, rude>>
        /\ UNCHANGED <<task, watch, ready, eventfd, maxfd, cfd, raced, partial>>
        /\ UNCHANGED <<rpc, evs, rfd, conn, size, moves, spun>>
    BY <1>1 DEF vars, kernel, echoVars, loopVars, reactorVars
  <2>2. ThreadInv'
    BY <2>1, ThreadApart
  <2>3. PoliteInv'
    BY <2>1 DEF PoliteInv, Polite, Overrun, LinksPolite, SendsAsked, InBody, Peer, Data, React
  <2> QED
    BY <2>2, <2>3
<1>2. CASE Next
  <2>0. up
    BY <1>2 DEF Next
  <2>1. ASSUME EchoStep, UNCHANGED reactorVars PROVE ThreadInv' /\ PoliteInv'
    BY <2>0, <2>1, EchoPolite
  <2>2. ASSUME ReactorStep, UNCHANGED echoVars PROVE ThreadInv' /\ PoliteInv'
    <3>1. React /\ prog' = prog
      BY <2>2 DEF ServedInv, RoleInv, ReactInv, ReactorStep, EpollWait, Accept_cb, SendBody,
                  Recv_cb, Send_cb, SendHeader, Called, React
    <3>2. ThreadInv'
      BY <3>1, ThreadApart DEF React
    <3>3. PoliteInv'
      BY <2>0, <2>2, QuietReactPolite, RecvCbPolite, SendCbPolite, SendBodyPolite DEF ReactorStep
    <3> QED
      BY <3>2, <3>3
  <2>3. ASSUME NEW c \in Clients, ClientStep(c), UNCHANGED <<echoVars, reactorVars>>
        PROVE  ThreadInv' /\ PoliteInv'
    <3>1. UNCHANGED <<prog, file, task, cfd, raced>>
      BY <2>3 DEF ClientStep, Connect, ClientSend, ClientClose, ResetArrives, echoVars
    <3> QED
      BY <2>0, <2>3, <3>1, ClientPolite, ThreadApart
  <2>4. ASSUME NEW x \in Names, FileChange(x), UNCHANGED echoVars PROVE ThreadInv' /\ PoliteInv'
    <3>1. UNCHANGED prog /\ prog # "threads"
      BY <2>4 DEF FileChange
    <3> QED
      BY <2>0, <2>4, <3>1, FileChangePolite, ThreadApart
  <2> QED
    BY <1>2, <2>1, <2>2, <2>3, <2>4 DEF Next, ServerStep
<1> QED
  BY <1>1, <1>2

LEMMA InitPolite == Init => ServedInv /\ ThreadInv /\ PoliteInv
<1>1. SUFFICES ASSUME Init PROVE ServedInv /\ ThreadInv /\ PoliteInv
  OBVIOUS
<1>2. ServedInv /\ up
  BY <1>1, InitServed
<1>3. \A i \in Tasks : task[i].pc \notin {"start", "recv", "send"}
  BY <1>1 DEF Init, EchoInit, Off
<1>4. \A c \in Clients : c \in Tasks
  BY DEF Tasks
<1>5. ThreadInv
  BY <1>3, <1>4 DEF ThreadInv, Busy
<1>6. \A f \in Fds : file[f] = NoClient
  BY <1>1 DEF Init, KernelInit
<1>7. SendsAsked
  BY <1>3, <1>6 DEF SendsAsked
<1>8. \A c \in Clients : /\ net[c].fin = FALSE /\ net[c].asks = FALSE
                         /\ net[c].rst = "none" /\ net[c].owed = FALSE
                         /\ net[c].sent = 0 /\ net[c].got = 0
  BY <1>1 DEF Init, KernelInit
<1>9. LinksPolite
  BY <1>8 DEF LinksPolite, Data
<1> QED
  BY <1>2, <1>5, <1>7, <1>9 DEF PoliteInv

\* As long as every client closes only after it has read its answers, and none sends the
\* reactor more than its buffer holds, the server lives: it takes a reset, a client gone
\* before its answer, a header sent again and again, two threads on one descriptor, or
\* more than BufferLength from one client of reactor_single_thread.cpp, to end it.
THEOREM SurvivesAlways == Spec => []Survives
<1>1. Init => ServedInv /\ ThreadInv /\ PoliteInv
  BY InitPolite
<1>2. ServedInv /\ ThreadInv /\ PoliteInv /\ [Next]_vars => ServedInv' /\ ThreadInv' /\ PoliteInv'
  BY NextServed, NextPolite
<1>3. PoliteInv => Survives
  BY DEF PoliteInv, Polite, Survives
<1> QED
  BY <1>1, <1>2, <1>3, PTL DEF Spec

-----------------------------------------------------------------------------
\* What has been sent back: units, or answers.
Answers == [ask : Names \cup {None, "post"}, was : Nat, still : BOOLEAN,
            name : Names \cup {None}, len : Nat, body : Nat \cup {-1}]
Sent == IF prog = "http" THEN Answers ELSE Unit \cup {Blank}
BackTypeOK == back \in [Clients -> Seq(Sent)]

\* The echo servers: a client that has not reset its connection has been sent what the
\* server has received from it, less the units a task still holds, which are the next ones.
Sending(i, c) == task[i].pc = "send" /\ Peer(i) = c
EchoInv ==
  Echo /\ ~raced => \A c \in Clients :
    /\ Own(c, back[c])
    /\ net[c].rst = "none" =>
         /\ (\A i \in Tasks : ~Sending(i, c)) => Len(back[c]) = net[c].got
         /\ \A i \in Tasks : Sending(i, c) =>
              /\ Len(back[c]) + Len(task[i].buf) = net[c].got
              /\ \A j \in 1 .. Len(task[i].buf) : task[i].buf[j] = <<c, Len(back[c]) + j>>

\* The reactor, as long as it has sent nothing back on a connection.
Untouched(f) == file[f] # NoClient /\ back[file[f]] = <<>> /\ net[file[f]].rst = "none"
Fresh(f) ==
  /\ conn[f].rc = net[file[f]].got
  /\ conn[f].cb = "recv" => conn[f].rc = 0
  /\ conn[f].cb = "send" => conn[f].rc > 0
  /\ \A i \in 1 .. conn[f].rc : conn[f].rbuf[i] = <<file[f], i>>
FirstInv ==
  prog = "reactor" =>
    /\ \A c \in Clients : net[c].st \in {"new", "queued"} => net[c].got = 0
    /\ \A f \in Fds : Untouched(f) => Fresh(f)

\* The HTTP server: what a descriptor's state has to do with the client it serves.
Told(c, n) == \E j \in 1 .. net[c].got : said[c][j] \in {n, "post"}
Known(f) ==
  /\ conn[f].flag => file[f] # NoClient /\ conn[f].cb = "send" /\ (InBody(f) \/ spun)
  /\ conn[f].hdr # NoHdr => file[f] # NoClient /\ Told(file[f], conn[f].hdr.name)
  /\ file[f] # NoClient /\ conn[f].cb = "send" =>
       /\ conn[f].ask \in Names => conn[f].res = conn[f].ask
       /\ conn[f].was > 0 /\ conn[f].still =>
            conn[f].ask \in Names /\ size[conn[f].ask] = conn[f].was
       /\ Told(file[f], conn[f].res)
RequestInv ==
  prog = "http" => (rpc = "body" => conn[rfd].flag) /\ \A f \in Fds : Known(f)

\* The answers: one without its body is the last, and either nothing more is sent on this
\* connection or send_cb is not yet through with it.
InWork(c, f) == file[f] = c /\ conn[f].flag
Unfinished(c, i) ==
  i = Len(back[c]) /\ (net[c].rst # "none" \/ ~up \/ \E f \in Fds : InWork(c, f))
AnswerOK(c, i) ==
  LET r == back[c][i]
  IN  /\ Told(c, r.name)
      /\ r.was > 0 /\ r.still => /\ r.name = r.ask /\ r.len = r.was
                                 /\ r.body = r.len \/ (r.body = -1 /\ Unfinished(c, i))
LastOf(c, f) ==
  /\ back[c] # <<>>
  /\ LET r == back[c][Len(back[c])]
     IN  r.ask = conn[f].ask /\ r.was = conn[f].was /\ (conn[f].still => r.still)
AnswerInv ==
  prog = "http" =>
    \A c \in Clients :
      /\ \A i \in 1 .. Len(back[c]) : AnswerOK(c, i)
      /\ \A f \in Fds : InWork(c, f) /\ net[c].rst = "none" => LastOf(c, f)

RightInv == BackTypeOK /\ EchoInv /\ FirstInv /\ RequestInv /\ AnswerInv

-----------------------------------------------------------------------------
LEMMA BackOf ==
  ASSUME RightInv, NEW c \in Clients
  PROVE  /\ back[c] \in Seq(Sent) /\ Len(back[c]) \in Nat /\ DOMAIN back[c] = 1 .. Len(back[c])
         /\ back[c] = <<>> <=> Len(back[c]) = 0
<1>1. back[c] \in Seq(Sent)
  BY DEF RightInv, BackTypeOK
<1>2. Len(back[c]) \in Nat /\ DOMAIN back[c] = 1 .. Len(back[c])
  BY <1>1, LenProperties
<1>3. back[c] = <<>> <=> Len(back[c]) = 0
  BY <1>1, EmptySeq
<1> QED
  BY <1>1, <1>2, <1>3

LEMMA OwnEach ==
  ASSUME NEW S, NEW s \in Seq(S), NEW c
  PROVE  Own(c, s) <=> \A j \in 1 .. Len(s) : s[j] = <<c, j>>
<1>1. s \in [1 .. Len(s) -> S]
  BY LenProperties
<1> QED
  BY <1>1 DEF Own

\* Which of the programs runs says which of the parts of RightInv have to be shown.
LEMMA EchoPart ==
  ASSUME Echo, prog' = prog, BackTypeOK', EchoInv' PROVE RightInv'
BY DEF Echo, RightInv, FirstInv, RequestInv, AnswerInv
LEMMA ReactorPart ==
  ASSUME prog = "reactor", prog' = prog, BackTypeOK', FirstInv' PROVE RightInv'
BY DEF Echo, RightInv, EchoInv, RequestInv, AnswerInv
LEMMA HttpPart ==
  ASSUME prog = "http", prog' = prog, BackTypeOK', RequestInv', AnswerInv' PROVE RightInv'
BY DEF Echo, RightInv, EchoInv, FirstInv

LEMMA BackKept == ASSUME RightInv, UNCHANGED <<prog, back>> PROVE BackTypeOK'
BY DEF RightInv, BackTypeOK, Sent

\* The steps of an echo server, and of its clients, that send nothing and take nothing.
LEMMA EchoQuiet ==
  ASSUME RightInv, Echo, UNCHANGED <<prog, back>>, ~raced' => ~raced,
         \A c \in Clients : /\ net'[c].got = net[c].got
                            /\ net'[c].rst = "none" => net[c].rst = "none",
         ~raced' => \A i \in Tasks, c \in Clients : net'[c].rst = "none" =>
                      /\ Sending(i, c)' <=> Sending(i, c)
                      /\ Sending(i, c) => task'[i].buf = task[i].buf
  PROVE  RightInv'
<1>1. SUFFICES EchoInv'
  BY BackKept, EchoPart
<1>2. SUFFICES ASSUME ~raced', NEW c \in Clients
               PROVE  /\ Own(c, back'[c])
                      /\ net'[c].rst = "none" =>
                           /\ (\A i \in Tasks : ~Sending(i, c)') => Len(back'[c]) = net'[c].got
                           /\ \A i \in Tasks : Sending(i, c)' =>
                                /\ Len(back'[c]) + Len(task'[i].buf) = net'[c].got
                                /\ \A j \in 1 .. Len(task'[i].buf) :
                                     task'[i].buf[j] = <<c, Len(back'[c]) + j>>
  BY DEF EchoInv, Own
<1>3. /\ Own(c, back[c])
      /\ net[c].rst = "none" =>
           /\ (\A i \in Tasks : ~Sending(i, c)) => Len(back[c]) = net[c].got
           /\ \A i \in Tasks : Sending(i, c) =>
                /\ Len(back[c]) + Len(task[i].buf) = net[c].got
                /\ \A j \in 1 .. Len(task[i].buf) : task[i].buf[j] = <<c, Len(back[c]) + j>>
  BY <1>2 DEF RightInv, EchoInv
<1>4. SUFFICES ASSUME net'[c].rst = "none"
               PROVE  /\ (\A i \in Tasks : ~Sending(i, c)') => Len(back[c]) = net[c].got
                      /\ \A i \in Tasks : Sending(i, c)' =>
                           /\ Len(back[c]) + Len(task'[i].buf) = net[c].got
                           /\ \A j \in 1 .. Len(task'[i].buf) :
                                task'[i].buf[j] = <<c, Len(back[c]) + j>>
  BY <1>3
<1>5. net[c].rst = "none" /\ \A i \in Tasks : /\ Sending(i, c)' <=> Sending(i, c)
                                              /\ Sending(i, c) => task'[i].buf = task[i].buf
  BY <1>2, <1>4
<1> QED
  BY <1>3, <1>5

\* A task that is not the one that takes its turn: it is sending to whom it was.
LEMMA OtherSending ==
  ASSUME ServedInv, ThreadInv, NEW i \in Tasks, Busy(i), ~raced,
         NEW j \in Tasks, j # i, task'[j] = task[j],
         \A g \in Fds : file'[g] = file[g] \/ g = task[i].fd
  PROVE  \A c \in Clients : /\ Sending(j, c)' <=> Sending(j, c)
                            /\ Sending(j, c) => task'[j].buf = task[j].buf /\ Peer(i) # c
<1>1. CASE task[j].pc = "send"
  <2>1. Busy(j)
    BY <1>1 DEF Busy
  <2>2. task[j].fd \in Fds /\ task[j].fd # task[i].fd /\ Peer(i) # Peer(j)
    BY <2>1, TurnOf, SendsApart
  <2>3. Peer(j)' = Peer(j)
    BY <2>2 DEF Peer
  <2> QED
    BY <2>2, <2>3 DEF Sending
<1>2. CASE task[j].pc # "send"
  BY <1>2 DEF Sending
<1> QED
  BY <1>1, <1>2

LEMMA WaitScanRight ==
  ASSUME ServedInv, RightInv, Wait \/ Scan, UNCHANGED reactorVars
  PROVE  RightInv'
<1>1. /\ task[Main].pc = "scan" /\ Main \in Tasks
      /\ UNCHANGED <<prog, net, file, back, raced>>
  BY DEF Wait, Scan, Tasks, kernel
<1>2. Echo /\ TypeOK
  BY <1>1, EchoOnly DEF ServedInv
<1>3. task'[Main].pc # "send" /\ \A i \in Tasks : i # Main => task'[i] = task[i]
  <2>1. CASE Wait
    BY <2>1, <1>2, WaitTask
  <2>2. CASE Scan
    <3>1. PICK f \in Fds \cup {Listener} :
            task' = [task EXCEPT ![Main].pc = IF f = Listener THEN "accept" ELSE "recv",
                                 ![Main].fd = f]
      BY <2>2, <1>2 DEF Scan, Candidates, TypeOK, EchoTypeOK
    <3>2. /\ task'[Main].pc = (IF f = Listener THEN "accept" ELSE "recv")
          /\ \A i \in Tasks : i # Main => task'[i] = task[i]
      BY <3>1, <1>2, ScanTask, Zenon
    <3> QED
      BY <3>2
  <2> QED
    BY <2>1, <2>2
<1>4. \A i \in Tasks, c \in Clients : /\ Sending(i, c)' <=> Sending(i, c)
                                      /\ Sending(i, c) => task'[i].buf = task[i].buf
  <2>1. TAKE i \in Tasks, c \in Clients
  <2>2. CASE i = Main
    BY <2>2, <1>1, <1>3 DEF Sending
  <2>3. CASE i # Main
    BY <2>3, <1>1, <1>3 DEF Sending, Peer
  <2> QED
    BY <2>2, <2>3
<1> QED
  BY <1>1, <1>2, <1>4, EchoQuiet

LEMMA AcceptRight ==
  ASSUME ServedInv, ThreadInv, RightInv, Accept, UNCHANGED reactorVars
  PROVE  RightInv'
<1>1. PICK f \in Fds, p \in {"start", "failed"} :
       /\ task[Main].pc = "accept" /\ AcceptOne(f)
       /\ IF prog = "threads"
          THEN /\ task' = [task EXCEPT ![Head(queue)].pc = p]
               /\ raced' = (raced \/ \E c \in Clients : task[c].pc = "start")
          ELSE /\ task' = [task EXCEPT ![Main] = [Off EXCEPT !.pc = "scan"]]
               /\ raced' = raced
       /\ UNCHANGED <<prog, back>>
  BY DEF Accept
<1>2. Echo /\ TypeOK /\ RoleInv /\ Main \in Tasks
  <2>1. Main \in Tasks
    BY DEF Tasks
  <2> QED
    BY <2>1, <1>1, EchoOnly DEF ServedInv
<1>3. PICK c \in Clients : c = Head(queue)
  BY <1>1, <1>2, AcceptLink
<1>4. /\ prog = "threads" => /\ task'[c].pc = p
                             /\ \A i \in Tasks : i # c => task'[i] = task[i]
      /\ prog # "threads" => /\ task'[Main].pc = "scan"
                             /\ \A i \in Tasks : i # Main => task'[i] = task[i]
  BY <1>1, <1>2, <1>3, AcceptTask
<1>5. /\ file[f] = NoClient /\ file'[f] = c /\ \A g \in Fds : g # f => file'[g] = file[g]
      /\ \A d \in Clients : net'[d].rst = net[d].rst /\ net'[d].got = net[d].got
  BY <1>1, <1>2, <1>3, AcceptLink
<1>6. ~raced' => ~raced
  <2>1. CASE prog = "threads"
    BY <1>1, <2>1, Zenon
  <2>2. CASE prog # "threads"
    BY <1>1, <2>2
  <2> QED
    BY <2>1, <2>2
<1>7. ASSUME ~raced, NEW i \in Tasks, NEW d \in Clients
      PROVE  /\ Sending(i, d)' <=> Sending(i, d)
             /\ Sending(i, d) => task'[i].buf = task[i].buf
  <2>1. CASE task[i].pc = "send" /\ task'[i] = task[i]
    <3>1. Busy(i)
      BY <2>1 DEF Busy
    <3>2. task[i].fd \in Fds /\ Peer(i) = file[task[i].fd]
      BY <3>1, TurnOf
    <3>3. Peer(i) # NoClient
      <4>1. CASE Single
        BY <4>1, <3>1, TurnOf
      <4>2. CASE ~Single
        <5>1. prog = "threads" /\ i \in Clients
          BY <4>2, <3>1, TurnOf DEF Tasks
        <5> QED
          BY <5>1, <3>1, <1>7, SocketKernelAssumption DEF ThreadInv, SocketKernelAssumption
      <4> QED
        BY <4>1, <4>2
    <3>4. Peer(i)' = Peer(i)
      BY <2>1, <3>2, <3>3, <1>5 DEF Peer
    <3> QED
      BY <2>1, <3>4 DEF Sending
  <2>2. CASE task[i].pc # "send" /\ task'[i] = task[i]
    BY <2>2 DEF Sending
  <2>3. CASE task'[i] # task[i]
    <3>1. CASE prog = "threads"
      <4>1. i = c
        BY <2>3, <3>1, <1>4
      <4>2. task'[i].pc \in {"start", "failed"}
        BY <4>1, <3>1, <1>4
      <4>3. task[i].pc # "send"
        <5>1. SUFFICES ASSUME task[i].pc = "send" PROVE FALSE
          OBVIOUS
        <5>2. Busy(c)
          BY <5>1, <4>1 DEF Busy
        <5>3. Peer(c) = c /\ task[c].fd \in Fds /\ Peer(c) = file[task[c].fd]
          BY <5>2, <4>1, <3>1, <1>7, TurnOf DEF ThreadInv
        <5>4. net[c].st = "open"
          BY <5>3, SocketKernelAssumption DEF ServedInv, KernelInv, SocketKernelAssumption
        <5>5. net[c].st = "queued"
          <6>1. queue \in Seq(Clients) /\ queue # <<>>
            BY <1>1, <1>2 DEF TypeOK, KernelTypeOK, AcceptOne
          <6>2. 1 \in DOMAIN queue /\ queue[1] = Head(queue)
            BY <6>1, EmptySeq, LenProperties
          <6> QED
            BY <6>2, <1>3 DEF ServedInv, KernelInv
        <5> QED
          BY <5>4, <5>5
      <4> QED
        BY <4>2, <4>3 DEF Sending
    <3>2. CASE prog # "threads"
      <4>1. i = Main
        BY <2>3, <3>2, <1>4
      <4> QED
        BY <4>1, <3>2, <1>1, <1>4 DEF Sending
    <3> QED
      BY <3>1, <3>2
  <2> QED
    BY <2>1, <2>2, <2>3
<1> QED
  BY <1>1, <1>2, <1>5, <1>6, <1>7, EchoQuiet

LEMMA StartSpinRight ==
  ASSUME ServedInv, ThreadInv, RightInv, NEW i \in Tasks, Start(i) \/ Spin(i),
         UNCHANGED reactorVars
  PROVE  RightInv'
<1>1. task[i].pc # "none" /\ UNCHANGED <<prog, net, file, back, raced>>
  BY DEF Start, Spin, kernel
<1>2. Echo /\ TypeOK
  BY <1>1, EchoOnly
<1>3. ASSUME ~raced
      PROVE  /\ task[i].pc # "send" /\ task'[i].pc # "send"
             /\ \A j \in Tasks : j # i => task'[j] = task[j]
  <2>1. CASE Start(i)
    BY <2>1, <1>2, StartTask DEF Start
  <2>2. CASE Spin(i)
    <3>1. Busy(i) /\ Peer(i) = NoClient
      BY <2>2 DEF Spin, Busy
    <3>2. prog = "threads" /\ i \in Clients
      BY <3>1, TurnOf DEF Tasks
    <3> QED
      BY <3>1, <3>2, <1>3, SocketKernelAssumption DEF ThreadInv, SocketKernelAssumption
  <2> QED
    BY <2>1, <2>2
<1>4. ~raced => \A j \in Tasks, c \in Clients : /\ Sending(j, c)' <=> Sending(j, c)
                                                /\ Sending(j, c) => task'[j].buf = task[j].buf
  <2>1. SUFFICES ASSUME ~raced, NEW j \in Tasks, NEW c \in Clients
                 PROVE  /\ Sending(j, c)' <=> Sending(j, c)
                        /\ Sending(j, c) => task'[j].buf = task[j].buf
    OBVIOUS
  <2>2. CASE j = i
    BY <2>1, <2>2, <1>3 DEF Sending
  <2>3. CASE j # i
    BY <2>1, <2>3, <1>1, <1>3 DEF Sending, Peer
  <2> QED
    BY <2>2, <2>3
<1> QED
  BY <1>1, <1>2, <1>4, EchoQuiet

LEMMA CloseFailRight ==
  ASSUME ServedInv, ThreadInv, RightInv, NEW i \in Tasks, task[i].pc = "recv", Peer(i) # NoClient,
         Close(i) \/ Fail(i),
         UNCHANGED <<prog, said, queue, rude, cfd, raced, reactorVars>>
  PROVE  RightInv'
<1>0. Busy(i)
  BY DEF Busy
<1>1. /\ TypeOK /\ Echo /\ task[i].fd \in Fds
      /\ Peer(i) = file[task[i].fd] /\ Peer(i) \in Clients
  BY <1>0, TurnOf
<1>2. back' = back
  BY DEF Close, Fail
<1>3. /\ task'[i].pc # "send" /\ \A j \in Tasks : j # i => task'[j] = task[j]
      /\ \A g \in Fds : g # task[i].fd => file'[g] = file[g]
      /\ \A d \in Clients : /\ net'[d].got = net[d].got
                            /\ net'[d].rst = "none" => net[d].rst = "none"
  <2>1. CASE Close(i)
    BY <2>1, <1>1, CloseFacts, GoneLink
  <2>2. CASE Fail(i)
    <3>1. /\ task' = [task EXCEPT ![i] = Back(i)] /\ net' = [net EXCEPT ![Peer(i)].rst = "dead"]
          /\ file' = file
      BY <2>2 DEF Fail
    <3>2. /\ \A j \in Tasks : j # i => task'[j] = task[j]
          /\ task'[i].pc # "send"
      BY <3>1, <1>1, BackTask
    <3>3. \A d \in Clients : /\ net'[d].got = net[d].got
                             /\ net'[d].rst = "none" => net[d].rst = "none"
      BY <3>1, <1>1, DeadLink
    <3> QED
      BY <3>1, <3>2, <3>3
  <2> QED
    BY <2>1, <2>2
<1>4. ~raced => \A j \in Tasks, c \in Clients : /\ Sending(j, c)' <=> Sending(j, c)
                                                /\ Sending(j, c) => task'[j].buf = task[j].buf
  <2>1. SUFFICES ASSUME ~raced, NEW j \in Tasks, NEW c \in Clients
                 PROVE  /\ Sending(j, c)' <=> Sending(j, c)
                        /\ Sending(j, c) => task'[j].buf = task[j].buf
    OBVIOUS
  <2>2. CASE j = i
    BY <2>2, <1>3 DEF Sending
  <2>3. CASE j # i
    BY <2>1, <2>3, <1>0, <1>3, OtherSending
  <2> QED
    BY <2>2, <2>3
<1> QED
  BY <1>1, <1>2, <1>3, <1>4, EchoQuiet

\* What a task has taken are the units after those that went back.
LEMMA TakeRight ==
  ASSUME ServedInv, ThreadInv, RightInv, NEW i \in Tasks, task[i].pc = "recv", Peer(i) # NoClient,
         Received(Peer(i)) = "data", Take(i),
         UNCHANGED <<prog, said, queue, rude, cfd, raced, reactorVars>>
  PROVE  RightInv'
<1>0. Busy(i)
  BY DEF Busy
<1>1. /\ TypeOK /\ KernelInv /\ Echo /\ task[i].fd \in Fds /\ UNCHANGED <<file, back>>
  BY <1>0, TurnOf DEF Take
<1>2. PICK c \in Clients : c = Peer(i)
  BY <1>1, TakeFacts
<1>3. PICK k \in 1 .. MaxSend :
        /\ net[c].got + k \in 0 .. MaxSend
        /\ net' = [net EXCEPT ![c].got = net[c].got + k]
        /\ \A j \in Tasks : j # i => task'[j] = task[j]
        /\ task'[i].pc = "send" /\ task'[i].fd = task[i].fd /\ Len(task'[i].buf) = k
        /\ \A j \in 1 .. k : task'[i].buf[j] = <<c, net[c].got + j>>
  BY <1>1, <1>2, TakeFacts
<1>4. /\ \A d \in Clients : d # c => net'[d] = net[d]
      /\ net'[c].got = net[c].got + k /\ net'[c].rst = net[c].rst
  BY <1>1, <1>3, GotLink
<1>5. SUFFICES EchoInv'
  BY <1>1, BackKept, EchoPart
<1>6. SUFFICES ASSUME ~raced, NEW d \in Clients
               PROVE  /\ Own(d, back[d])
                      /\ net'[d].rst = "none" =>
                           /\ (\A j \in Tasks : ~Sending(j, d)') => Len(back[d]) = net'[d].got
                           /\ \A j \in Tasks : Sending(j, d)' =>
                                /\ Len(back[d]) + Len(task'[j].buf) = net'[d].got
                                /\ \A m \in 1 .. Len(task'[j].buf) :
                                     task'[j].buf[m] = <<d, Len(back[d]) + m>>
  BY <1>1 DEF EchoInv, Own
<1>7. /\ Own(d, back[d])
      /\ net[d].rst = "none" =>
           /\ (\A j \in Tasks : ~Sending(j, d)) => Len(back[d]) = net[d].got
           /\ \A j \in Tasks : Sending(j, d) =>
                /\ Len(back[d]) + Len(task[j].buf) = net[d].got
                /\ \A m \in 1 .. Len(task[j].buf) : task[j].buf[m] = <<d, Len(back[d]) + m>>
  BY <1>1, <1>6 DEF RightInv, EchoInv
<1>8. \A j \in Tasks : j # i => /\ Sending(j, d)' <=> Sending(j, d)
                                /\ Sending(j, d) => task'[j].buf = task[j].buf /\ c # d
  BY <1>0, <1>1, <1>2, <1>3, <1>6, OtherSending
<1>9. ~Sending(i, d) /\ (Sending(i, d)' <=> d = c)
  BY <1>1, <1>2, <1>3 DEF Sending, Peer
<1>10. CASE d = c
  <2>1. /\ \A j \in Tasks : j # i => ~Sending(j, d) /\ ~Sending(j, d)'
        /\ \A j \in Tasks : ~Sending(j, d)
    BY <1>8, <1>9, <1>10
  <2>2. net[c].rst = "none" => Len(back[c]) = net[c].got
    BY <1>7, <1>10, <2>1
  <2>3. net'[c].rst = "none" => /\ Len(back[c]) + Len(task'[i].buf) = net'[c].got
                                /\ \A m \in 1 .. Len(task'[i].buf) :
                                     task'[i].buf[m] = <<c, Len(back[c]) + m>>
    BY <1>3, <1>4, <2>2
  <2> QED
    BY <1>7, <1>9, <1>10, <2>1, <2>3
<1>11. CASE d # c
  <2>1. net'[d] = net[d]
    BY <1>4, <1>11
  <2>2. \A j \in Tasks : /\ Sending(j, d)' <=> Sending(j, d)
                         /\ Sending(j, d) => task'[j].buf = task[j].buf
    BY <1>8, <1>9, <1>11
  <2> QED
    BY <1>7, <2>1, <2>2
<1> QED
  BY <1>10, <1>11

\* The units that a client has got back, with the next ones.
LEMMA OwnMore ==
  ASSUME NEW S, NEW s \in Seq(S), NEW t \in Seq(S), NEW c, Own(c, s),
         \A j \in 1 .. Len(t) : t[j] = <<c, Len(s) + j>>
  PROVE  Own(c, s \o t) /\ Len(s \o t) = Len(s) + Len(t) /\ s \o t \in Seq(S)
<1>1. Len(s) \in Nat /\ Len(t) \in Nat
  BY LenProperties
<1>2. /\ s \o t \in Seq(S) /\ Len(s \o t) = Len(s) + Len(t)
      /\ \A j \in 1 .. Len(s) + Len(t) :
           (s \o t)[j] = IF j <= Len(s) THEN s[j] ELSE t[j - Len(s)]
  BY ConcatProperties
<1>3. PICK m \in Nat, n \in Nat : m = Len(s) /\ n = Len(t)
  BY <1>1
<1>4. ASSUME NEW j \in 1 .. m + n PROVE (s \o t)[j] = <<c, j>>
  <2>1. CASE j <= m
    <3>1. (s \o t)[j] = s[j] /\ j \in 1 .. Len(s)
      BY <2>1, <1>2, <1>3
    <3> QED
      BY <3>1, OwnEach
  <2>2. CASE ~(j <= m)
    <3>1. j - m \in 1 .. n /\ m + (j - m) = j
      BY <2>2, <1>4
    <3>2. (s \o t)[j] = t[j - m]
      BY <2>2, <1>2, <1>3
    <3>3. t[j - m] = <<c, m + (j - m)>>
      BY <3>1, <1>3
    <3> QED
      BY <3>1, <3>2, <3>3
  <2> QED
    BY <2>1, <2>2
<1>5. \A j \in 1 .. Len(s \o t) : (s \o t)[j] = <<c, j>>
  BY <1>2, <1>3, <1>4
<1> QED
  BY <1>2, <1>5, OwnEach

LEMMA SendRight ==
  ASSUME ServedInv, ThreadInv, RightInv, NEW i \in Tasks, Send(i), UNCHANGED reactorVars
  PROVE  RightInv'
<1>0. /\ task[i].pc = "send" /\ Peer(i) # NoClient /\ SendTo(Peer(i), task[i].buf)
      /\ task' = [task EXCEPT ![i] = Back(i)] /\ UNCHANGED <<prog, file, raced>>
  BY DEF Send
<1>1. Busy(i) /\ TypeOK /\ Echo /\ task[i].fd \in Fds /\ Peer(i) \in Clients
  BY <1>0, TurnOf DEF Busy
<1>2. PICK c \in Clients : c = Peer(i)
  BY <1>1
<1>3. /\ \A d \in Clients : d # c => net'[d] = net[d]
      /\ net'[c].got = net[c].got
      /\ net'[c].rst = "none" => net[c].rst = "none"
      /\ \/ Broken(c) /\ net' = net /\ back' = back
         \/ back' = IF net[c].rst = "none" THEN [back EXCEPT ![c] = @ \o task[i].buf] ELSE back
  BY <1>0, <1>1, <1>2, SendToLink
<1>4. task'[i].pc # "send" /\ \A j \in Tasks : j # i => task'[j] = task[j]
  BY <1>0, <1>1, BackTask
<1>5. ~raced => \A j \in Tasks : j # i =>
                  \A d \in Clients : /\ Sending(j, d)' <=> Sending(j, d)
                                     /\ Sending(j, d) => task'[j].buf = task[j].buf /\ c # d
  BY <1>0, <1>1, <1>2, <1>4, OtherSending
<1>6. CASE net[c].rst # "none"
  <2>1. back' = back /\ net'[c].rst # "none"
    BY <1>3, <1>6
  <2>2. ~raced => \A j \in Tasks, d \in Clients : d # c =>
                    /\ Sending(j, d)' <=> Sending(j, d)
                    /\ Sending(j, d) => task'[j].buf = task[j].buf
    <3>1. SUFFICES ASSUME ~raced, NEW j \in Tasks, NEW d \in Clients, d # c
                   PROVE  /\ Sending(j, d)' <=> Sending(j, d)
                          /\ Sending(j, d) => task'[j].buf = task[j].buf
      OBVIOUS
    <3>2. CASE j = i
      BY <3>1, <3>2, <1>2, <1>4 DEF Sending
    <3>3. CASE j # i
      BY <3>1, <3>3, <1>5
    <3> QED
      BY <3>2, <3>3
  <2> QED
    BY <1>0, <1>1, <1>3, <2>1, <2>2, EchoQuiet
<1>7. CASE net[c].rst = "none"
  <2>1. back' = [back EXCEPT ![c] = @ \o task[i].buf]
    BY <1>3, <1>7 DEF Broken
  <2>2. task[i].buf \in Seq(Sent) /\ back[c] \in Seq(Sent) /\ back \in [Clients -> Seq(Sent)]
    <3>1. task[i].buf \in Seq(Unit) /\ Unit \subseteq Sent
      BY <1>1, TaskOf DEF Echo, Sent
    <3>2. task[i].buf \in Seq(Sent)
      BY <3>1, SeqMonotonic
    <3> QED
      BY <3>2 DEF RightInv, BackTypeOK
  <2>3. back[c] \o task[i].buf \in Seq(Sent)
    BY <2>2, ConcatProperties
  <2>4. /\ back' \in [Clients -> Seq(Sent)] /\ back'[c] = back[c] \o task[i].buf
        /\ \A d \in Clients : d # c => back'[d] = back[d]
    BY <2>1, <2>2, <2>3
  <2>5. BackTypeOK'
    BY <2>4, <1>0 DEF BackTypeOK, Sent
  <2>6. EchoInv'
    <3>1. SUFFICES ASSUME ~raced, NEW d \in Clients
                   PROVE  /\ Own(d, back'[d])
                          /\ net'[d].rst = "none" =>
                               /\ (\A j \in Tasks : ~Sending(j, d)') => Len(back'[d]) = net'[d].got
                               /\ \A j \in Tasks : Sending(j, d)' =>
                                    /\ Len(back'[d]) + Len(task'[j].buf) = net'[d].got
                                    /\ \A m \in 1 .. Len(task'[j].buf) :
                                         task'[j].buf[m] = <<d, Len(back'[d]) + m>>
      BY <1>0 DEF EchoInv, Own
    <3>2. /\ Own(d, back[d])
          /\ net[d].rst = "none" =>
               /\ (\A j \in Tasks : ~Sending(j, d)) => Len(back[d]) = net[d].got
               /\ \A j \in Tasks : Sending(j, d) =>
                    /\ Len(back[d]) + Len(task[j].buf) = net[d].got
                    /\ \A m \in 1 .. Len(task[j].buf) : task[j].buf[m] = <<d, Len(back[d]) + m>>
      BY <1>1, <3>1 DEF RightInv, EchoInv
    <3>3. CASE d = c
      <4>1. Sending(i, c)
        BY <1>0, <1>2 DEF Sending
      <4>2. /\ Len(back[c]) + Len(task[i].buf) = net[c].got
            /\ \A m \in 1 .. Len(task[i].buf) : task[i].buf[m] = <<c, Len(back[c]) + m>>
        BY <3>2, <3>3, <4>1, <1>7
      <4>3. Own(c, back'[c]) /\ Len(back'[c]) = net[c].got
        <5>1. Own(c, back[c])
          BY <3>2, <3>3
        <5>2. /\ Own(c, back[c] \o task[i].buf)
              /\ Len(back[c] \o task[i].buf) = Len(back[c]) + Len(task[i].buf)
          BY <5>1, <2>2, <4>2, OwnMore
        <5> QED
          BY <5>2, <2>4, <4>2
      <4>4. \A j \in Tasks : ~Sending(j, c)'
        BY <3>1, <1>4, <1>5 DEF Sending
      <4> QED
        BY <3>3, <4>3, <4>4, <1>3
    <3>4. CASE d # c
      <4>1. net'[d] = net[d] /\ back'[d] = back[d]
        BY <3>4, <1>3, <2>4
      <4>2. ~Sending(i, d)' /\ ~Sending(i, d)
        BY <3>4, <1>2, <1>4 DEF Sending
      <4>3. \A j \in Tasks : /\ Sending(j, d)' <=> Sending(j, d)
                             /\ Sending(j, d) => task'[j].buf = task[j].buf
        BY <3>1, <4>2, <1>5
      <4> QED
        BY <3>2, <4>1, <4>3
    <3> QED
      BY <3>3, <3>4
  <2> QED
    BY <1>0, <1>1, <2>5, <2>6, EchoPart
<1> QED
  BY <1>6, <1>7

LEMMA EchoStepRight ==
  ASSUME ServedInv, ThreadInv, RightInv, EchoStep, UNCHANGED reactorVars
  PROVE  RightInv'
<1>1. ASSUME NEW i \in Tasks, Recv(i) PROVE RightInv'
  <2>1. /\ task[i].pc = "recv" /\ Peer(i) # NoClient
        /\ UNCHANGED <<prog, said, queue, rude, cfd, raced>>
        /\ \/ Received(Peer(i)) = "data" /\ Take(i)
           \/ Close(i) \/ Fail(i)
    BY <1>1 DEF Recv
  <2> QED
    BY <2>1, TakeRight, CloseFailRight
<1> QED
  BY <1>1, WaitScanRight, AcceptRight, StartSpinRight, SendRight DEF EchoStep, TaskStep

-----------------------------------------------------------------------------
\* The answers stay right as long as nothing is sent, and as long as what a descriptor is
\* about to send of a file remains what its client has the header of.
LEMMA ToldMore ==
  ASSUME TypeOK, NEW c \in Clients, NEW n, Told(c, n), said' = said, net'[c].got \in Nat,
         net[c].got <= net'[c].got
  PROVE  Told(c, n)'
<1>1. net[c].got \in Nat
  BY LinkOf DEF Link
<1>2. PICK j \in 1 .. net[c].got : said[c][j] \in {n, "post"}
  BY DEF Told
<1>3. j \in 1 .. net'[c].got
  BY <1>1, <1>2
<1> QED
  BY <1>2, <1>3 DEF Told

LEMMA AnswersKept ==
  ASSUME ServedInv, RightInv, UNCHANGED <<prog, said, back>>, up' => up,
         net' \in [Clients -> Link],
         \A c \in Clients : /\ net[c].got <= net'[c].got
                            /\ net'[c].rst = "none" => net[c].rst = "none",
         up' => \A c \in Clients, f \in Fds :
                  InWork(c, f) => InWork(c, f)' \/ net'[c].rst # "none",
         \A c \in Clients, f \in Fds : InWork(c, f)' /\ net'[c].rst = "none" =>
           /\ InWork(c, f) /\ conn'[f].ask = conn[f].ask /\ conn'[f].was = conn[f].was
           /\ conn'[f].still => conn[f].still
  PROVE  AnswerInv'
<1>1. SUFFICES ASSUME prog = "http", NEW c \in Clients
               PROVE  /\ \A i \in 1 .. Len(back[c]) : AnswerOK(c, i)'
                      /\ \A f \in Fds : InWork(c, f)' /\ net'[c].rst = "none" => LastOf(c, f)'
  BY DEF AnswerInv
<1>2. /\ \A i \in 1 .. Len(back[c]) : AnswerOK(c, i)
      /\ \A f \in Fds : InWork(c, f) /\ net[c].rst = "none" => LastOf(c, f)
  BY <1>1 DEF RightInv, AnswerInv
<1>3. ASSUME NEW i \in 1 .. Len(back[c]) PROVE AnswerOK(c, i)'
  <2>1. PICK r : r = back[c][i]
    OBVIOUS
  <2>2. Told(c, r.name)'
    <3>1. Told(c, r.name)
      BY <1>2, <1>3, <2>1 DEF AnswerOK
    <3>2. net'[c].got \in Nat
      BY DEF Link
    <3> QED
      BY <3>1, <3>2, ToldMore DEF ServedInv
  <2>3. Unfinished(c, i) => Unfinished(c, i)'
    BY DEF Unfinished
  <2>4. r.was > 0 /\ r.still => /\ r.name = r.ask /\ r.len = r.was
                                /\ r.body = r.len \/ (r.body = -1 /\ Unfinished(c, i))
    BY <1>2, <1>3, <2>1 DEF AnswerOK
  <2> QED
    BY <2>1, <2>2, <2>3, <2>4 DEF AnswerOK
<1>4. ASSUME NEW f \in Fds, InWork(c, f)', net'[c].rst = "none" PROVE LastOf(c, f)'
  <2>1. /\ InWork(c, f) /\ conn'[f].ask = conn[f].ask /\ conn'[f].was = conn[f].was
        /\ conn'[f].still => conn[f].still
    BY <1>4
  <2>2. LastOf(c, f)
    BY <2>1, <1>2, <1>4
  <2> QED
    BY <2>1, <2>2 DEF LastOf
<1> QED
  BY <1>3, <1>4

LEMMA KnownKept ==
  ASSUME ServedInv, RightInv, UNCHANGED <<prog, said>>, prog = "http", net' \in [Clients -> Link],
         \A c \in Clients : net[c].got <= net'[c].got,
         NEW f \in Fds, file'[f] = file[f], UNCHANGED size, conn'[f] = conn[f],
         InBody(f)' \/ spun' \/ (~InBody(f) /\ ~spun)
  PROVE  Known(f)'
<1>1. /\ Known(f) /\ file[f] \in Clients \cup {NoClient} /\ TypeOK
  BY ConnOf DEF RightInv, RequestInv, ServedInv
<1>2. \A n : file[f] # NoClient /\ Told(file[f], n) => Told(file[f], n)'
  <2>1. SUFFICES ASSUME NEW n, file[f] # NoClient, Told(file[f], n) PROVE Told(file[f], n)'
    OBVIOUS
  <2>2. PICK c \in Clients : c = file[f]
    BY <1>1, <2>1
  <2>3. net'[c].got \in Nat /\ net[c].got <= net'[c].got
    BY DEF Link
  <2>4. Told(c, n)'
    BY <1>1, <2>1, <2>2, <2>3, ToldMore
  <2> QED
    BY <2>2, <2>4 DEF Told
<1>3. conn[f].flag => file[f] # NoClient /\ conn[f].cb = "send" /\ (InBody(f)' \/ spun')
  BY <1>1 DEF Known
<1>4. conn[f].hdr # NoHdr => file[f] # NoClient /\ Told(file[f], conn[f].hdr.name)'
  BY <1>1, <1>2 DEF Known
<1>5. file[f] # NoClient /\ conn[f].cb = "send" => Told(file[f], conn[f].res)'
  BY <1>1, <1>2 DEF Known
<1> QED
  BY <1>1, <1>3, <1>4, <1>5 DEF Known, Told

\* The clients.
LEMMA ClientMoves ==
  ASSUME TypeOK, KernelInv, NEW c \in Clients, ClientStep(c)
  PROVE  /\ UNCHANGED <<prog, up, said, file, back>> /\ net' \in [Clients -> Link]
         /\ \A d \in Clients : /\ net'[d].got = net[d].got
                               /\ net'[d].rst = "none" => net[d].rst = "none"
                               /\ net'[d].st \in {"new", "queued"} => net[d].st \in {"new", "queued"}
<1>1. UNCHANGED <<prog, up, said, file, back>>
  BY DEF ClientStep, Connect, ClientSend, ClientClose, ResetArrives
<1>2. CASE Connect(c)
  BY <1>1, <1>2, ConnectLink
<1>3. CASE ClientSend(c)
  BY <1>1, <1>3, ClientSendLink
<1>4. CASE ClientClose(c)
  BY <1>1, <1>4, ClientCloseLink
<1>5. CASE ResetArrives(c)
  BY <1>1, <1>5, ResetArrivesLink
<1> QED
  BY <1>2, <1>3, <1>4, <1>5 DEF ClientStep

LEMMA ClientRight ==
  ASSUME ServedInv, RightInv, NEW c \in Clients, ClientStep(c), UNCHANGED <<echoVars, reactorVars>>
  PROVE  RightInv'
<1>1. /\ TypeOK /\ UNCHANGED <<prog, up, said, file, back>> /\ net' \in [Clients -> Link]
      /\ \A d \in Clients : /\ net'[d].got = net[d].got
                            /\ net'[d].rst = "none" => net[d].rst = "none"
                            /\ net'[d].st \in {"new", "queued"} => net[d].st \in {"new", "queued"}
      /\ UNCHANGED <<task, raced, conn, rpc, rfd, spun, size>>
  BY ClientMoves DEF ServedInv, echoVars, reactorVars
<1>2. CASE Echo
  <2>1. \A i \in Tasks, d \in Clients : /\ Sending(i, d)' <=> Sending(i, d)
                                        /\ Sending(i, d) => task'[i].buf = task[i].buf
    BY <1>1 DEF Sending, Peer
  <2> QED
    BY <1>1, <1>2, <2>1, EchoQuiet
<1>3. CASE prog = "reactor"
  <2>1. FirstInv'
    <3>1. /\ \A d \in Clients : net[d].st \in {"new", "queued"} => net[d].got = 0
          /\ \A f \in Fds : Untouched(f) => Fresh(f)
      BY <1>3 DEF RightInv, FirstInv
    <3>2. \A f \in Fds : Untouched(f)' => Untouched(f) /\ (Fresh(f) => Fresh(f)')
      <4>1. TAKE f \in Fds
      <4>2. HAVE Untouched(f)'
      <4>3. file[f] \in Clients
        BY <1>1, <4>2, ConnOf DEF Untouched
      <4> QED
        BY <1>1, <4>2, <4>3 DEF Untouched, Fresh
    <3> QED
      BY <1>1, <3>1, <3>2 DEF FirstInv
  <2> QED
    BY <1>1, <1>3, <2>1, BackKept, ReactorPart
<1>4. CASE prog = "http"
  <2>0. \A d \in Clients : net[d].got <= net'[d].got
    BY <1>1, LinkOf DEF Link
  <2>1. RequestInv'
    <3>1. \A f \in Fds : Known(f)'
      <4>1. TAKE f \in Fds
      <4>2. InBody(f)' \/ spun' \/ (~InBody(f) /\ ~spun)
        BY <1>1 DEF InBody
      <4> QED
        BY <1>1, <1>4, <2>0, <4>2, KnownKept
    <3> QED
      BY <1>1, <3>1 DEF RequestInv, RightInv
  <2>2. AnswerInv'
    <3>1. \A d \in Clients, f \in Fds : InWork(d, f)' <=> InWork(d, f)
      BY <1>1 DEF InWork
    <3> QED
      BY <1>1, <2>0, <3>1, AnswersKept
  <2> QED
    BY <1>1, <1>4, <2>1, <2>2, BackKept, HttpPart
<1> QED
  BY <1>1, <1>2, <1>3, <1>4 DEF TypeOK, KernelTypeOK, Programs, Echo

-----------------------------------------------------------------------------
\* The reactor, on one descriptor.
LEMMA FirstKept ==
  ASSUME ServedInv, RightInv, prog = "reactor", prog' = prog, NEW f \in Fds, NEW c \in Clients,
         file[f] = c \/ file'[f] = c, \A g \in Fds : g # f => file[g] # c,
         \A g \in Fds : g # f => file'[g] = file[g] /\ conn'[g] = conn[g],
         \A d \in Clients : d # c => net'[d] = net[d] /\ back'[d] = back[d],
         net'[c].st \in {"new", "queued"} => net'[c].got = 0,
         Untouched(f)' => Fresh(f)'
  PROVE  FirstInv'
<1>1. /\ \A d \in Clients : net[d].st \in {"new", "queued"} => net[d].got = 0
      /\ \A g \in Fds : Untouched(g) => Fresh(g)
  BY DEF RightInv, FirstInv
<1>2. \A d \in Clients : net'[d].st \in {"new", "queued"} => net'[d].got = 0
  BY <1>1
<1>3. ASSUME NEW g \in Fds, g # f, Untouched(g)' PROVE Fresh(g)'
  <2>1. file'[g] = file[g] /\ conn'[g] = conn[g] /\ file[g] # c /\ file[g] \in Clients
    BY <1>3, ConnOf DEF ServedInv, Untouched
  <2>2. net'[file[g]] = net[file[g]] /\ back'[file[g]] = back[file[g]]
    BY <2>1
  <2>3. Untouched(g)
    BY <1>3, <2>1, <2>2 DEF Untouched
  <2> QED
    BY <1>1, <2>1, <2>2, <2>3 DEF Fresh
<1> QED
  BY <1>2, <1>3 DEF FirstInv

\* A connection that is accepted: nobody has the client yet.
LEMMA Newcomer ==
  ASSUME ServedInv, NEW f \in Fds, AcceptOne(f), UNCHANGED <<prog, up, said>>
  PROVE  \E c \in Clients :
           /\ c = Head(queue) /\ net[c].st = "queued" /\ net' \in [Clients -> Link]
           /\ file[f] = NoClient /\ file'[f] = c /\ \A g \in Fds : g # f => file'[g] = file[g]
           /\ \A g \in Fds : file[g] # c
           /\ \A d \in Clients : d # c => net'[d] = net[d]
           /\ \A d \in Clients : net'[d].got = net[d].got /\ net'[d].rst = net[d].rst
           /\ net'[c].st = "open"
<1>1. TypeOK /\ KernelInv
  BY DEF ServedInv
<1>2. PICK c \in Clients : c = Head(queue)
  BY <1>1, AcceptLink
<1>3. /\ net' \in [Clients -> Link] /\ file[f] = NoClient /\ file'[f] = c
      /\ \A g \in Fds : g # f => file'[g] = file[g]
      /\ \A d \in Clients : d # c => net'[d] = net[d]
      /\ net'[c].st = "open" /\ net'[c].got = net[c].got /\ net'[c].rst = net[c].rst
  BY <1>1, <1>2, AcceptLink
<1>4. net[c].st = "queued"
  <2>1. queue \in Seq(Clients) /\ queue # <<>>
    BY <1>1 DEF TypeOK, KernelTypeOK, AcceptOne
  <2>2. 1 \in DOMAIN queue /\ queue[1] = Head(queue)
    BY <2>1, EmptySeq, LenProperties
  <2> QED
    BY <2>2, <1>1, <1>2 DEF KernelInv
<1>5. \A g \in Fds : file[g] # c
  BY <1>1, <1>4, SocketKernelAssumption DEF KernelInv, SocketKernelAssumption
<1>6. \A d \in Clients : net'[d].got = net[d].got /\ net'[d].rst = net[d].rst
  BY <1>3
<1> QED
  BY <1>2, <1>3, <1>4, <1>5, <1>6

\* A connection that is accepted: what its descriptor keeps does not show.
LEMMA AcceptCbRight ==
  ASSUME ServedInv, RightInv, Accept_cb, UNCHANGED echoVars
  PROVE  RightInv'
<1>1. PICK f \in Fds :
        /\ rpc = "loop" /\ conn' = [conn EXCEPT ![f].cb = "recv"] /\ AcceptOne(f)
        /\ Listener \in evs
        /\ UNCHANGED <<prog, up, said, back, rpc, rfd, size, spun>>
  BY DEF Accept_cb
<1>2. TypeOK /\ React /\ RcInv
  BY <1>1 DEF ServedInv, RoleInv
<1>3. PICK c \in Clients :
        /\ net[c].st = "queued" /\ net' \in [Clients -> Link]
        /\ file[f] = NoClient /\ file'[f] = c /\ \A g \in Fds : g # f => file'[g] = file[g]
        /\ \A g \in Fds : file[g] # c
        /\ \A d \in Clients : d # c => net'[d] = net[d]
        /\ \A d \in Clients : net'[d].got = net[d].got /\ net'[d].rst = net[d].rst
        /\ net'[c].st = "open"
  BY <1>1, Newcomer
<1>4. /\ \A g \in Fds : g # f => conn'[g] = conn[g]
      /\ conn'[f].cb = "recv" /\ conn'[f].rc = conn[f].rc /\ conn'[f].hdr = conn[f].hdr
      /\ conn'[f].flag = conn[f].flag
  BY <1>1, <1>2, CbConn
<1>5. CASE prog = "reactor"
  <2>1. conn[f].rc = 0
    BY <1>2, <1>3 DEF RcInv
  <2>2. net[c].got = 0
    BY <1>3, <1>5 DEF RightInv, FirstInv
  <2>3. Fresh(f)'
    BY <1>3, <1>4, <2>1, <2>2 DEF Fresh
  <2>4. FirstInv'
    BY <1>1, <1>3, <1>4, <1>5, <2>3, FirstKept
  <2> QED
    BY <1>1, <1>5, <2>4, BackKept, ReactorPart
<1>6. CASE prog = "http"
  <2>0. \A d \in Clients : net[d].got <= net'[d].got
    BY <1>2, <1>3, LinkOf DEF Link
  <2>1. ~conn[f].flag /\ conn[f].hdr = NoHdr
    BY <1>3, <1>6 DEF RightInv, RequestInv, Known
  <2>2. Known(f)'
    BY <2>1, <1>3, <1>4 DEF Known
  <2>3. \A g \in Fds : g # f => Known(g)'
    <3>1. TAKE g \in Fds
    <3>2. HAVE g # f
    <3>3. InBody(g)' \/ spun' \/ (~InBody(g) /\ ~spun)
      BY <1>1 DEF InBody
    <3> QED
      BY <1>1, <1>3, <1>4, <1>6, <2>0, <3>2, <3>3, KnownKept
  <2>4. RequestInv'
    BY <1>1, <2>2, <2>3 DEF RequestInv
  <2>5. \A d \in Clients, g \in Fds : /\ InWork(d, g)' <=> InWork(d, g)
                                      /\ InWork(d, g) => conn'[g] = conn[g]
    <3>1. TAKE d \in Clients, g \in Fds
    <3>2. CASE g = f
      BY <3>2, <1>4, <2>1 DEF InWork
    <3>3. CASE g # f
      BY <3>3, <1>3, <1>4 DEF InWork
    <3> QED
      BY <3>2, <3>3
  <2>6. AnswerInv'
    BY <1>1, <1>3, <2>0, <2>5, AnswersKept
  <2> QED
    BY <1>1, <1>6, <2>4, <2>6, BackKept, HttpPart
<1> QED
  BY <1>2, <1>5, <1>6 DEF React

\* recv_cb of the reactor: what it has read is what is there, as long as it has sent nothing.
LEMMA ReactorRecvRight ==
  ASSUME ServedInv, RightInv, prog = "reactor", NEW f \in Fds, Recv_cb(f), UNCHANGED echoVars,
         up
  PROVE  RightInv'
<1> USE SocketKernelAssumption DEF SocketKernelAssumption
<1>1. /\ Called(f, "recv")
      /\ \/ Received(file[f]) = "data" /\ Fill(f) /\ UNCHANGED file
         \/ Received(file[f]) = "end" /\ Disconnect(f) /\ UNCHANGED up
         \/ Received(file[f]) = "error" /\ RecvError(f) /\ UNCHANGED file
      /\ UNCHANGED <<prog, back>>
  BY DEF Recv_cb
<1>2. /\ React /\ TypeOK /\ KernelInv /\ file[f] # NoClient /\ conn[f].cb = "recv" /\ RcInv
      /\ \A g \in Fds : g # f /\ file[g] # NoClient => file[g] # file[f]
  BY <1>1, CalledOf DEF ServedInv
<1>3. PICK c \in Clients : c = file[f]
  BY <1>1, CalledOf
<1>4. /\ net[c].got <= net[c].sent /\ net[c].sent <= MaxSend
      /\ net[c].got \in Nat /\ net[c].sent \in Nat
      /\ conn[f].rc \in Int /\ conn[f].rc <= net[c].got /\ conn[f].rc >= 0
      /\ net[c].st = "open"
  BY <1>2, <1>3, LinkOf, ConnOf DEF KernelInv, Link, RcInv, Connect_t
<1>5. \A g \in Fds : g # f => file[g] # c
  BY <1>2, <1>3
<1>6. SUFFICES FirstInv'
  BY <1>1, BackKept, ReactorPart
<1>7. CASE Received(c) = "data" /\ Fill(f) /\ UNCHANGED file
  <2>0. Data(c) > 0
    BY <1>7 DEF Received
  <2>1. PICK k : k = Taken(c)
    OBVIOUS
  <2>2. /\ k \in Nat /\ 1 <= k /\ k <= BufferLength /\ net[c].got + k \in 0 .. MaxSend
        /\ net' = [net EXCEPT ![c].got = net[c].got + k]
        /\ \A g \in Fds : g # f => conn'[g] = conn[g]
        /\ conn'[f].cb = "send" /\ conn'[f].rc = conn[f].rc + k
        /\ conn'[f].rbuf = [i \in Buffer |-> IF i <= k THEN <<c, net[c].got + i>>
                                             ELSE conn[f].rbuf[i]]
    <3>1. Filled(f, c, k)
      BY <1>2, <1>3, <1>4, <1>7, <2>0, <2>1, FillConn
    <3> QED
      BY <3>1 DEF Filled
  <2>3. /\ \A d \in Clients : d # c => net'[d] = net[d]
        /\ net'[c].got = net[c].got + k /\ net'[c].st = net[c].st /\ net'[c].rst = net[c].rst
    BY <1>2, <2>2, GotLink
  <2>4. ASSUME Untouched(f)' PROVE Fresh(f)'
    <3>1. Untouched(f)
      BY <2>4, <1>1, <1>3, <1>7, <2>3 DEF Untouched
    <3>2. conn[f].rc = net[c].got /\ conn[f].rc = 0
      BY <3>1, <1>2, <1>3 DEF RightInv, FirstInv, Fresh
    <3>3. conn'[f].rc = k /\ net'[c].got = k /\ k > 0
      BY <2>2, <2>3, <3>2
    <3>4. \A i \in 1 .. k : i \in Buffer /\ i <= k /\ net[c].got + i = i
      BY <2>2, <3>2, BufferType DEF Buffer
    <3>5. \A i \in 1 .. k : conn'[f].rbuf[i] = <<c, i>>
      BY <2>2, <3>4
    <3> QED
      BY <1>3, <1>7, <2>2, <3>3, <3>5 DEF Fresh
  <2>5. net'[c].st \notin {"new", "queued"}
    BY <1>4, <2>3
  <2> QED
    BY <1>1, <1>3, <1>5, <1>7, <2>2, <2>3, <2>4, <2>5, FirstKept
<1>8. CASE Received(c) = "end" /\ Disconnect(f)
  <2>1. /\ conn' = [conn EXCEPT ![f].rc = 0, ![f].hdr = NoHdr]
        /\ net' = [net EXCEPT ![c].st = "gone"] /\ file' = [file EXCEPT ![f] = NoClient]
    BY <1>3, <1>8 DEF Disconnect
  <2>2. \A g \in Fds : g # f => conn'[g] = conn[g]
    BY <1>2, <2>1, DisconnectConn
  <2>3. net'[c].st = "gone" /\ \A d \in Clients : d # c => net'[d] = net[d]
    BY <1>2, <2>1, GoneLink
  <2>4. file'[f] = NoClient /\ \A g \in Fds : g # f => file'[g] = file[g]
    BY <2>1, <1>2 DEF TypeOK, KernelTypeOK
  <2>5. ~Untouched(f)'
    BY <2>4 DEF Untouched
  <2> QED
    BY <1>1, <1>3, <1>5, <2>2, <2>3, <2>4, <2>5, FirstKept
<1>9. CASE Received(c) = "error" /\ RecvError(f) /\ UNCHANGED file
  <2>1. /\ net' = [net EXCEPT ![c].rst = "dead"]
        /\ conn' = [conn EXCEPT ![f].cb = "send", ![f].rc = conn[f].rc - 1]
    BY <1>3, <1>9 DEF RecvError
  <2>2. /\ net'[c].rst = "dead" /\ net'[c].st = net[c].st
        /\ \A d \in Clients : d # c => net'[d] = net[d]
    BY <1>2, <2>1, DeadLink
  <2>3. \A g \in Fds : g # f => conn'[g] = conn[g]
    BY <1>2, <1>4, <2>1, ErrorConn
  <2>4. ~Untouched(f)'
    BY <1>3, <1>9, <2>2 DEF Untouched
  <2>5. net'[c].st \notin {"new", "queued"}
    BY <1>4, <2>2
  <2> QED
    BY <1>1, <1>3, <1>5, <1>9, <2>2, <2>3, <2>4, <2>5, FirstKept
<1> QED
  BY <1>1, <1>3, <1>7, <1>8, <1>9

LEMMA ReactorSendRight ==
  ASSUME ServedInv, RightInv, up, NEW f \in Fds, Send_cb(f), UNCHANGED echoVars
  PROVE  RightInv'
<1>0. PICK a : a = [i \in 1 .. conn[f].rc |-> conn[f].rbuf[i]]
  OBVIOUS
<1>1. /\ prog = "reactor" /\ Called(f, "send") /\ SendTo(file[f], a)
      /\ conn' = [conn EXCEPT ![f].cb = "recv"] /\ UNCHANGED <<prog, file>>
  BY <1>0 DEF Send_cb
<1>2. /\ TypeOK /\ KernelInv /\ file[f] # NoClient /\ conn[f].cb = "send" /\ RcInv
      /\ \A g \in Fds : g # f /\ file[g] # NoClient => file[g] # file[f]
  BY <1>1, CalledOf DEF ServedInv
<1>3. PICK c \in Clients : c = file[f]
  BY <1>1, CalledOf
<1>4. /\ net[c].got \in Nat /\ net[c].got <= MaxSend /\ net[c].st = "open"
      /\ conn[f].rc \in Nat /\ conn[f].rc <= BufferLength
      /\ conn[f].rbuf \in [Buffer -> Unit \cup {Blank}]
  <2>1. conn[f].rc \in 0 .. BufferLength /\ BufferLength \in Nat
    BY <1>2, BufferType DEF RcInv
  <2>2. conn[f].rbuf \in [Buffer -> Unit \cup {Blank}]
    BY <1>2, ConnOf DEF Connect_t, Unit
  <2>3. net[c].got \in 0 .. MaxSend /\ net[c].st = "open"
    BY <1>2, <1>3, LinkOf DEF Link, KernelInv
  <2> QED
    BY <2>1, <2>2, <2>3, SocketKernelAssumption DEF SocketKernelAssumption
<1>5. a \in Seq(Sent) /\ Len(a) = conn[f].rc
  <2>1. \A i \in 1 .. conn[f].rc : conn[f].rbuf[i] \in Unit \cup {Blank}
    <3>1. \A i \in 1 .. conn[f].rc : i \in Buffer
      BY <1>4, BufferType DEF Buffer
    <3> QED
      BY <3>1, <1>4
  <2>2. a \in [1 .. conn[f].rc -> Unit \cup {Blank}]
    BY <1>0, <2>1
  <2>3. Sent = Unit \cup {Blank}
    BY <1>1 DEF Sent
  <2> QED
    BY <2>2, <2>3, <1>4
<1>6. /\ \A d \in Clients : d # c => net'[d] = net[d]
      /\ net'[c].got = net[c].got /\ net'[c].st = net[c].st
      /\ net'[c].rst = "none" => net[c].rst = "none"
      /\ \/ Broken(c) /\ back' = back
         \/ back' = IF net[c].rst = "none" THEN [back EXCEPT ![c] = @ \o a] ELSE back
  BY <1>1, <1>2, <1>3, SendToLink
<1>7. back \in [Clients -> Seq(Sent)] /\ back[c] \in Seq(Sent)
  BY DEF RightInv, BackTypeOK
<1>8. /\ back' \in [Clients -> Seq(Sent)] /\ \A d \in Clients : d # c => back'[d] = back[d]
      /\ back'[c] = back[c] \/ back'[c] = back[c] \o a
      /\ net[c].rst = "none" => back'[c] = back[c] \o a
  <2>1. back[c] \o a \in Seq(Sent)
    BY <1>5, <1>7, ConcatProperties
  <2> QED
    BY <1>6, <1>7, <2>1 DEF Broken
<1>9. BackTypeOK'
  BY <1>1, <1>8 DEF BackTypeOK, Sent
<1>10. conn'[f].cb = "recv" /\ \A g \in Fds : g # f => conn'[g] = conn[g]
  BY <1>1, <1>2, CbConn
<1>11. ~Untouched(f)'
  <2>1. SUFFICES ASSUME Untouched(f)' PROVE FALSE
    OBVIOUS
  <2>2. net[c].rst = "none" /\ back'[c] = <<>>
    BY <2>1, <1>1, <1>3, <1>6 DEF Untouched
  <2>3. back[c] = <<>> /\ a = <<>>
    <3>1. back[c] \o a = <<>>
      BY <2>2, <1>8
    <3> QED
      BY <3>1, <1>5, <1>7, ConcatEqualIffEmpty
  <2>4. Untouched(f)
    BY <2>2, <2>3, <1>2, <1>3 DEF Untouched
  <2>5. conn[f].rc > 0
    BY <2>4, <1>1, <1>2 DEF RightInv, FirstInv, Fresh
  <2>6. Len(a) = 0
    BY <2>3
  <2> QED
    BY <2>5, <2>6, <1>5
<1>12. net'[c].st \notin {"new", "queued"}
  BY <1>4, <1>6
<1>13. FirstInv'
  <2>1. \A g \in Fds : g # f => file[g] # c /\ file'[g] = file[g] /\ conn'[g] = conn[g]
    BY <1>1, <1>2, <1>3, <1>10
  <2>2. \A d \in Clients : d # c => net'[d] = net[d] /\ back'[d] = back[d]
    BY <1>6, <1>8
  <2> QED
    BY <1>1, <1>3, <1>11, <1>12, <2>1, <2>2, FirstKept
<1> QED
  BY <1>1, <1>9, <1>13, ReactorPart

-----------------------------------------------------------------------------
\* The HTTP server, on one descriptor.
LEMMA RequestKept ==
  ASSUME ServedInv, RightInv, prog = "http", UNCHANGED <<prog, said, size>>,
         net' \in [Clients -> Link], \A c \in Clients : net[c].got <= net'[c].got,
         NEW f \in Fds, \A g \in Fds : g # f => file'[g] = file[g] /\ conn'[g] = conn[g],
         \A g \in Fds : g # f => ~InBody(g), spun => spun',
         rpc' = "body" => rfd' = f /\ conn'[f].flag,
         Known(f)'
  PROVE  RequestInv'
<1>1. ASSUME NEW g \in Fds, g # f PROVE Known(g)'
  BY <1>1, KnownKept
<1> QED
  BY <1>1 DEF RequestInv

LEMMA HttpRecvRight ==
  ASSUME ServedInv, RightInv, prog = "http", NEW f \in Fds, Recv_cb(f), UNCHANGED echoVars
  PROVE  RightInv'
<1> USE SocketKernelAssumption DEF SocketKernelAssumption
<1>1. /\ Called(f, "recv")
      /\ \/ Received(file[f]) = "data" /\ Request(f) /\ UNCHANGED file
         \/ Received(file[f]) = "end" /\ Disconnect(f) /\ UNCHANGED up
         \/ Received(file[f]) = "error" /\ RecvError(f) /\ UNCHANGED file
      /\ UNCHANGED <<prog, said, back, rpc, rfd, size, spun>>
  BY DEF Recv_cb
<1>2. /\ React /\ TypeOK /\ KernelInv /\ rpc = "loop" /\ file[f] # NoClient /\ conn[f].cb = "recv"
  BY <1>1, CalledOf DEF ServedInv
<1>3. PICK c \in Clients : c = file[f]
  BY <1>1, CalledOf
<1>4. Known(f) /\ ~conn[f].flag
  BY <1>2 DEF RightInv, RequestInv, Known
<1>5. /\ net[c].got <= net[c].sent /\ net[c].sent <= Len(said[c]) /\ Len(said[c]) <= MaxSend
      /\ said[c] \in Seq(Names \cup {"post"})
      /\ net[c].got \in Nat /\ net[c].sent \in Nat /\ Len(said[c]) \in Nat
  BY <1>2, <1>3, LinkOf DEF KernelInv, Link
<1>6. /\ \A g \in Fds : ~InBody(g) /\ ~InBody(g)'
      /\ rpc' # "body" /\ (spun => spun') /\ size' = size
  BY <1>1, <1>2 DEF InBody
\* What is left to show: that the other connections stay, and Known of this one.
<1>7. SUFFICES /\ net' \in [Clients -> Link] /\ up' = up
               /\ \A d \in Clients : /\ net[d].got <= net'[d].got
                                     /\ net'[d].rst = "none" => net[d].rst = "none"
               /\ \A g \in Fds : g # f => file'[g] = file[g] /\ conn'[g] = conn[g]
               /\ conn'[f].flag = conn[f].flag
               /\ Known(f)'
  <2>1. SUFFICES ASSUME net' \in [Clients -> Link], up' = up,
                   \A d \in Clients : /\ net[d].got <= net'[d].got
                                      /\ net'[d].rst = "none" => net[d].rst = "none",
                   \A g \in Fds : g # f => file'[g] = file[g] /\ conn'[g] = conn[g],
                   conn'[f].flag = conn[f].flag,
                   Known(f)'
                 PROVE  RightInv'
    OBVIOUS
  <2>2. RequestInv'
    BY <2>1, <1>1, <1>6, RequestKept
  <2>3. \A d \in Clients, g \in Fds : /\ InWork(d, g)' <=> InWork(d, g)
                                      /\ InWork(d, g) => conn'[g] = conn[g]
    <3>1. TAKE d \in Clients, g \in Fds
    <3>2. CASE g = f
      BY <3>2, <2>1, <1>4 DEF InWork
    <3>3. CASE g # f
      BY <3>3, <2>1 DEF InWork
    <3> QED
      BY <3>2, <3>3
  <2>4. AnswerInv'
    BY <2>1, <2>3, <1>1, AnswersKept
  <2> QED
    BY <2>2, <2>4, <1>1, BackKept, HttpPart
<1>8. CASE Received(c) = "data" /\ Request(f) /\ UNCHANGED file
  <2>0. up' = up
    BY <1>8 DEF Request
  <2>1. net[c].got < net[c].sent
    BY <1>5, <1>8 DEF Received, Data
  <2>2. net[c].got + 1 \in 1 .. Len(said[c]) /\ net[c].got + 1 \in 1 .. net[c].sent
    BY <2>1, <1>5
  <2>3. PICK r \in Names \cup {"post"} : r = said[c][net[c].got + 1]
    BY <2>2, <1>5
  <2>4. /\ net' = [net EXCEPT ![c].got = net[c].sent]
        /\ \A g \in Fds : g # f => conn'[g] = conn[g]
        /\ conn'[f].cb = "send" /\ conn'[f].res = (IF r = "post" THEN conn[f].res ELSE r)
        /\ conn'[f].hdr = conn[f].hdr /\ conn'[f].flag = conn[f].flag
        /\ conn'[f].ask = r /\ conn'[f].was = (IF r = "post" THEN 0 ELSE size[r])
        /\ conn'[f].still = TRUE
    <3>1. TypeOK /\ Request(f)
      BY <1>2, <1>8
    <3> QED
      BY <3>1, <1>3, <2>3, RequestConn, ZenonT(60)
  <2>5. net[c].sent \in 0 .. MaxSend
    BY <1>5
  <2>6. /\ net' \in [Clients -> Link] /\ \A d \in Clients : d # c => net'[d] = net[d]
        /\ net'[c].got = net[c].sent /\ net'[c].rst = net[c].rst
    BY <1>2, <2>4, <2>5, GotLink
  <2>7. \A d \in Clients : /\ net[d].got <= net'[d].got
                           /\ net'[d].rst = "none" => net[d].rst = "none"
    <3>1. \A d \in Clients : net[d].got \in Int
      BY <1>2, LinkOf DEF Link
    <3> QED
      BY <3>1, <2>1, <2>6, <1>5
  <2>8. \A n : Told(c, n) => Told(c, n)'
    BY <1>1, <1>2, <1>5, <2>6, <2>7, ToldMore
  <2>9. Told(c, conn[f].res)'
    <3>1. net[c].got + 1 \in 1 .. net'[c].got /\ said[c][net[c].got + 1] = r
      BY <2>2, <2>3, <2>6
    <3>2. r = "post" \/ r = conn'[f].res
      BY <2>4
    <3> QED
      BY <3>1, <3>2, <1>1 DEF Told
  <2>10. Known(f)'
    <3>1. conn'[f].hdr # NoHdr => Told(c, conn[f].hdr.name)'
      <4>1. SUFFICES ASSUME conn[f].hdr # NoHdr PROVE Told(c, conn[f].hdr.name)'
        BY <2>4
      <4>2. PICK n : n = conn[f].hdr.name
        OBVIOUS
      <4>3. Told(c, n)'
        BY <4>1, <4>2, <1>3, <1>4, <2>8 DEF Known
      <4> QED
        BY <4>2, <4>3, <2>4 DEF Told
    <3>2. /\ conn'[f].ask \in Names => conn'[f].res = conn'[f].ask
          /\ conn'[f].was > 0 /\ conn'[f].still =>
               conn'[f].ask \in Names /\ size'[conn'[f].ask] = conn'[f].was
      BY <2>4, <1>1
    <3>3. file'[f] = c /\ c # NoClient
      BY <1>2, <1>3, <1>8
    <3>4. ~conn'[f].flag
      BY <2>4, <1>4
    <3> QED
      BY <3>1, <3>2, <3>3, <3>4, <2>9 DEF Known, Told
  <2> QED
    BY <1>8, <2>0, <2>4, <2>6, <2>7, <2>10
<1>9. CASE Received(c) = "end" /\ Disconnect(f) /\ UNCHANGED up
  <2>1. /\ conn' = [conn EXCEPT ![f].rc = 0, ![f].hdr = NoHdr]
        /\ net' = [net EXCEPT ![c].st = "gone"] /\ file' = [file EXCEPT ![f] = NoClient]
    BY <1>3, <1>9 DEF Disconnect
  <2>2. /\ \A g \in Fds : g # f => conn'[g] = conn[g]
        /\ conn'[f].cb = "recv" /\ conn'[f].hdr = NoHdr /\ conn'[f].flag = conn[f].flag
    BY <1>2, <2>1, DisconnectConn
  <2>3. /\ net' \in [Clients -> Link]
        /\ \A d \in Clients : net'[d].got = net[d].got /\ net'[d].rst = net[d].rst
    BY <1>2, <2>1, GoneLink
  <2>4. \A g \in Fds : g # f => file'[g] = file[g]
    BY <2>1, <1>2 DEF TypeOK, KernelTypeOK
  <2>5. Known(f)'
    BY <2>2, <1>4 DEF Known
  <2>6. \A d \in Clients : net[d].got <= net'[d].got
    BY <1>2, <2>3, LinkOf DEF Link
  <2> QED
    BY <1>9, <2>2, <2>3, <2>4, <2>5, <2>6
<1>10. CASE Received(c) = "error" /\ RecvError(f) /\ UNCHANGED file
  <2>1. net' = [net EXCEPT ![c].rst = "dead"] /\ UNCHANGED <<up, conn>>
    BY <1>3, <1>10 DEF RecvError
  <2>2. /\ net' \in [Clients -> Link]
        /\ \A d \in Clients : /\ net'[d].got = net[d].got
                              /\ net'[d].rst = "none" => net[d].rst = "none"
    BY <1>2, <2>1, DeadLink
  <2>3. \A d \in Clients : net[d].got <= net'[d].got
    BY <1>2, <2>2, LinkOf DEF Link
  <2>4. Known(f)'
    BY <1>1, <1>6, <1>10, <2>1, <2>2, <2>3, KnownKept
  <2> QED
    BY <1>10, <2>1, <2>2, <2>3, <2>4
<1> QED
  BY <1>1, <1>3, <1>8, <1>9, <1>10

\* send_cb, the header: what it says of the file is what was asked for.
LEMMA HeaderOf ==
  ASSUME ServedInv, RightInv, prog = "http", NEW f \in Fds, NEW c \in Clients, c = file[f],
         c # NoClient, conn[f].cb = "send", NEW x, x = Response(f)
  PROVE  /\ x.hdr \in [name : Names \cup {None}, len : 0 .. MaxSize] /\ x.flag \in BOOLEAN
         /\ x.hdr # NoHdr => Told(c, x.hdr.name)
         /\ conn[f].was > 0 /\ conn[f].still =>
              x.flag /\ x.hdr.name = conn[f].ask /\ x.hdr.len = conn[f].was
         /\ conn[f].flag => x.flag
         /\ x.hdr = NoHdr => x.flag = conn[f].flag
<1>1. /\ Known(f) /\ TypeOK
      /\ conn[f].res \in Names \cup {None} /\ conn[f].hdr \in [name : Names \cup {None}, len : 0 .. MaxSize]
      /\ conn[f].flag \in BOOLEAN
      /\ None \notin Names
  BY ConnOf, ReactorAssumption
     DEF Connect_t, ServedInv, RightInv, RequestInv, ReactorAssumption, None
<1>2. IF conn[f].res = None \/ size[conn[f].res] = 0
      THEN x.hdr = conn[f].hdr /\ x.flag = conn[f].flag
      ELSE x.hdr = [name |-> conn[f].res, len |-> size[conn[f].res]] /\ x.flag = TRUE
  BY <1>1, ResponseType
<1>3. x.hdr \in [name : Names \cup {None}, len : 0 .. MaxSize] /\ x.flag \in BOOLEAN
  BY <1>1, <1>2, ResponseType DEF Connect_t
<1>4. CASE conn[f].res = None \/ size[conn[f].res] = 0
  <2>1. x.hdr = conn[f].hdr /\ x.flag = conn[f].flag
    BY <1>2, <1>4
  <2>2. ~(conn[f].was > 0 /\ conn[f].still)
    <3>1. SUFFICES ASSUME conn[f].was > 0, conn[f].still PROVE FALSE
      OBVIOUS
    <3>2. conn[f].ask \in Names /\ size[conn[f].ask] = conn[f].was /\ conn[f].res = conn[f].ask
      BY <3>1, <1>1 DEF Known
    <3> QED
      BY <3>1, <3>2, <1>1, <1>4
  <2> QED
    BY <1>1, <1>3, <2>1, <2>2 DEF Known
<1>5. CASE ~(conn[f].res = None \/ size[conn[f].res] = 0)
  <2>1. x.hdr = [name |-> conn[f].res, len |-> size[conn[f].res]] /\ x.flag = TRUE
    BY <1>2, <1>5
  <2>2. x.hdr.name = conn[f].res /\ x.hdr.len = size[conn[f].res] /\ x.hdr # NoHdr
    <3>1. x.hdr.name = conn[f].res /\ x.hdr.len = size[conn[f].res]
      BY <2>1
    <3>2. NoHdr.name = None
      BY DEF NoHdr
    <3> QED
      BY <3>1, <3>2, <1>5
  <2>3. Told(c, conn[f].res)
    BY <1>1 DEF Known
  <2>4. conn[f].was > 0 /\ conn[f].still => x.hdr.name = conn[f].ask /\ x.hdr.len = conn[f].was
    BY <2>2, <1>1 DEF Known
  <2> QED
    BY <1>3, <2>1, <2>2, <2>3, <2>4
<1> QED
  BY <1>4, <1>5

LEMMA SendHeaderRight ==
  ASSUME ServedInv, RightInv, up, NEW f \in Fds, SendHeader(f), UNCHANGED echoVars
  PROVE  RightInv'
<1>1. PICK x : x = Response(f)
  OBVIOUS
<1>2. PICK a : a = Answer(f, x.hdr)
  OBVIOUS
<1>3. /\ prog = "http" /\ Called(f, "send") /\ SendTo(file[f], a)
      /\ conn' = [conn EXCEPT ![f] = IF x.flag THEN x ELSE Reads(x)]
      /\ rpc' = (IF x.flag THEN "body" ELSE "loop")
      /\ rfd' = (IF x.flag THEN f ELSE Listener)
      /\ UNCHANGED <<prog, said, file, size, spun>>
  BY <1>1, <1>2 DEF SendHeader
<1>4. /\ TypeOK /\ KernelInv /\ rpc = "loop" /\ file[f] # NoClient /\ conn[f].cb = "send"
      /\ \A g \in Fds : g # f /\ file[g] # NoClient => file[g] # file[f]
  BY <1>3, CalledOf DEF ServedInv
<1>5. PICK c \in Clients : c = file[f]
  BY <1>3, CalledOf
<1>6. /\ x.hdr \in [name : Names \cup {None}, len : 0 .. MaxSize] /\ x.flag \in BOOLEAN
      /\ x.hdr # NoHdr => Told(c, x.hdr.name)
      /\ conn[f].was > 0 /\ conn[f].still =>
           x.flag /\ x.hdr.name = conn[f].ask /\ x.hdr.len = conn[f].was
      /\ conn[f].flag => x.flag
      /\ x.hdr = NoHdr => x.flag = conn[f].flag
  BY <1>1, <1>3, <1>4, <1>5, HeaderOf
<1>7. /\ \A g \in Fds : g # f => conn'[g] = conn[g]
      /\ conn'[f].res = conn[f].res /\ conn'[f].hdr = x.hdr /\ conn'[f].flag = x.flag
      /\ x.flag => /\ conn'[f].cb = "send" /\ conn'[f].ask = conn[f].ask
                   /\ conn'[f].was = conn[f].was /\ conn'[f].still = conn[f].still
      /\ ~x.flag => conn'[f].cb = "recv"
  BY <1>1, <1>3, <1>4, HeaderConn
<1>8. /\ net' \in [Clients -> Link] /\ \A d \in Clients : d # c => net'[d] = net[d]
      /\ net'[c].got = net[c].got /\ (net'[c].rst = "none" => net[c].rst = "none")
      /\ \/ Broken(c) /\ up' = FALSE /\ back' = back
         \/ /\ ~Broken(c) /\ up' = up
            /\ net'[c].rst = (IF net[c].rst = "err" THEN "dead" ELSE net[c].rst)
            /\ back' = IF net[c].rst = "none" THEN [back EXCEPT ![c] = @ \o a] ELSE back
  BY <1>3, <1>4, <1>5, SendToLink
<1>9. /\ \A d \in Clients : net'[d].got = net[d].got /\ net[d].got \in Nat /\ net[d].got <= net'[d].got
      /\ \A d \in Clients : net'[d].rst = "none" => net[d].rst = "none"
      /\ up' => up
  BY <1>4, <1>8, LinkOf DEF Link
<1>10. RequestInv'
  <2>1. \A g \in Fds : g # f => ~InBody(g)
    BY <1>4 DEF InBody
  <2>2. rpc' = "body" => rfd' = f /\ conn'[f].flag
    BY <1>3, <1>7
  <2>3. \A n : Told(c, n) => Told(c, n)'
    BY <1>3, <1>9 DEF Told
  <2>4. Known(f)'
    <3>1. Known(f) /\ c # NoClient
      BY <1>3, <1>4, <1>5 DEF RightInv, RequestInv
    <3>2. x.hdr # NoHdr => Told(c, x.hdr.name)'
      <4>1. PICK n : n = x.hdr.name
        OBVIOUS
      <4>2. x.hdr # NoHdr => Told(c, n)'
        BY <4>1, <1>6, <2>3
      <4> QED
        BY <4>1, <4>2, <1>7 DEF Told
    <3>3. conn'[f].hdr # NoHdr => Told(c, conn[f].hdr.name)'
      BY <3>2, <1>7 DEF Told
    <3>4. Told(c, conn[f].res)'
      <4>1. PICK n : n = conn[f].res
        OBVIOUS
      <4>2. Told(c, n)'
        BY <4>1, <1>4, <1>5, <2>3, <3>1 DEF Known
      <4> QED
        BY <4>1, <4>2, <1>7 DEF Told
    <3>5. x.flag => InBody(f)'
      BY <1>3 DEF InBody
    <3>6. conn'[f].cb = "send" => x.flag
      BY <1>6, <1>7
    <3> QED
      BY <1>3, <1>4, <1>5, <1>7, <3>1, <3>3, <3>4, <3>5, <3>6 DEF Known, Told
  <2> QED
    BY <1>3, <1>7, <1>8, <1>9, <2>1, <2>2, <2>4, RequestKept
<1>11. \A d \in Clients, g \in Fds : g # f => /\ InWork(d, g)' <=> InWork(d, g)
                                              /\ conn'[g] = conn[g]
  BY <1>3, <1>7 DEF InWork
<1>12. \A d \in Clients : /\ InWork(d, f) <=> d = c /\ conn[f].flag
                          /\ InWork(d, f)' <=> d = c /\ x.flag
  BY <1>3, <1>5, <1>7 DEF InWork
<1>13. CASE Broken(c) \/ net[c].rst # "none" \/ a = <<>>
  <2>1. back' = back
    <3>1. CASE a = <<>> /\ ~Broken(c) /\ net[c].rst = "none"
      <4>1. back \in [Clients -> Seq(Sent)] /\ back[c] \in Seq(Sent)
        BY DEF RightInv, BackTypeOK
      <4>2. back[c] \o a = back[c]
        BY <3>1, <4>1, ConcatEmptySeq
      <4>3. back' = [back EXCEPT ![c] = back[c] \o a]
        BY <3>1, <1>8
      <4> QED
        BY <4>1, <4>2, <4>3
    <3> QED
      BY <3>1, <1>8, <1>13
  <2>2. ASSUME net[c].rst = "none", ~Broken(c)
        PROVE  x.flag <=> conn[f].flag
    <3>1. a = <<>>
      BY <2>2, <1>13
    <3>2. x.hdr = NoHdr \/ conn[f].flag
      BY <3>1, <1>2 DEF Answer
    <3> QED
      BY <3>2, <1>6
  <2>3. Broken(c) => net[c].rst # "none"
    BY DEF Broken
  <2>4. net[c].rst # "none" => net'[c].rst # "none"
    BY <1>9
  <2>5. \A d \in Clients, g \in Fds :
          /\ InWork(d, g) => InWork(d, g)' \/ net'[d].rst # "none"
          /\ InWork(d, g)' /\ net'[d].rst = "none" =>
               /\ InWork(d, g) /\ conn'[g].ask = conn[g].ask /\ conn'[g].was = conn[g].was
               /\ conn'[g].still => conn[g].still
    <3>1. TAKE d \in Clients, g \in Fds
    <3>2. CASE g # f
      BY <3>2, <1>11
    <3>3. CASE g = f /\ net[c].rst = "none"
      BY <3>3, <1>7, <1>12, <2>2, <2>3
    <3>4. CASE g = f /\ net[c].rst # "none"
      BY <3>4, <1>12, <2>4
    <3> QED
      BY <3>2, <3>3, <3>4
  <2>6. AnswerInv'
    BY <1>3, <1>8, <1>9, <2>1, <2>5, AnswersKept
  <2> QED
    BY <1>3, <1>10, <2>1, <2>6, BackKept, HttpPart
<1>14. CASE ~Broken(c) /\ net[c].rst = "none" /\ a # <<>>
  <2>1. PICK r : r = [ask |-> conn[f].ask, was |-> conn[f].was, still |-> conn[f].still,
                      name |-> x.hdr.name, len |-> x.hdr.len, body |-> -1]
    OBVIOUS
  <2>2. x.hdr # NoHdr /\ ~conn[f].flag /\ a = <<r>>
    BY <1>2, <1>14, <2>1 DEF Answer
  <2>3. /\ r.ask = conn[f].ask /\ r.was = conn[f].was /\ r.still = conn[f].still
        /\ r.name = x.hdr.name /\ r.len = x.hdr.len /\ r.body = -1
    BY <2>1
  <2>4. r \in Sent
    <3>1. /\ conn[f].ask \in Names \cup {None, "post"} /\ conn[f].was \in Nat
          /\ conn[f].still \in BOOLEAN
      BY <1>4, ConnOf, ReactorAssumption DEF Connect_t, ReactorAssumption
    <3>2. x.hdr.name \in Names \cup {None} /\ x.hdr.len \in Nat
      BY <1>6, ReactorAssumption DEF ReactorAssumption
    <3>3. r \in Answers
      BY <2>1, <3>1, <3>2 DEF Answers
    <3> QED
      BY <3>3, <1>3 DEF Sent
  <2>5. back \in [Clients -> Seq(Sent)] /\ back[c] \in Seq(Sent) /\ a \in Seq(Sent) /\ Len(a) = 1
        /\ a[1] = r
    BY <2>2, <2>4 DEF RightInv, BackTypeOK
  <2>6. PICK n \in Nat : n = Len(back[c])
    BY BackOf
  <2>7. PICK s \in Seq(Sent) : s = back[c] \o a /\ Len(s) = n + 1 /\ s[n + 1] = r
                               /\ \A i \in 1 .. n : s[i] = back[c][i]
    <3>1. /\ back[c] \o a \in Seq(Sent) /\ Len(back[c] \o a) = n + 1
          /\ \A i \in 1 .. n + 1 : (back[c] \o a)[i] = IF i <= n THEN back[c][i] ELSE a[i - n]
      <4>1. /\ back[c] \o a \in Seq(Sent) /\ Len(back[c] \o a) = Len(back[c]) + Len(a)
            /\ \A i \in 1 .. Len(back[c]) + Len(a) :
                 (back[c] \o a)[i] = IF i <= Len(back[c]) THEN back[c][i] ELSE a[i - Len(back[c])]
        BY <2>5, ConcatProperties
      <4> QED
        BY <4>1, <2>5, <2>6
    <3>2. (back[c] \o a)[n + 1] = r
      BY <2>5, <3>1
    <3>3. \A i \in 1 .. n : (back[c] \o a)[i] = back[c][i]
      BY <3>1
    <3> QED
      BY <3>1, <3>2, <3>3
  <2>8. /\ back' \in [Clients -> Seq(Sent)] /\ back'[c] = s /\ up' = up /\ net'[c].rst = "none"
        /\ \A d \in Clients : d # c => back'[d] = back[d]
    BY <1>8, <1>14, <2>5, <2>7
  <2>9. BackTypeOK'
    BY <1>3, <2>8 DEF BackTypeOK, Sent
  <2>10. \A d \in Clients : \A m : Told(d, m) => Told(d, m)'
    BY <1>3, <1>9 DEF Told
  <2>11. /\ \A d \in Clients : \A i \in 1 .. Len(back[d]) : AnswerOK(d, i)
         /\ \A d \in Clients, g \in Fds : InWork(d, g) /\ net[d].rst = "none" => LastOf(d, g)
    BY <1>3 DEF RightInv, AnswerInv
  <2>12. ASSUME NEW d \in Clients, d # c
         PROVE  /\ \A i \in 1 .. Len(back'[d]) : AnswerOK(d, i)'
                /\ \A g \in Fds : InWork(d, g)' /\ net'[d].rst = "none" => LastOf(d, g)'
    <3>1. back'[d] = back[d] /\ net'[d] = net[d] /\ \A g \in Fds : InWork(d, g)' <=> InWork(d, g)
      BY <2>8, <2>12, <1>8, <1>11, <1>12
    <3>2. ASSUME NEW i \in 1 .. Len(back[d]) PROVE AnswerOK(d, i)'
      <4>1. Unfinished(d, i) => Unfinished(d, i)'
        BY <2>8, <3>1 DEF Unfinished
      <4>2. AnswerOK(d, i)
        BY <2>11
      <4>3. Told(d, back[d][i].name)'
        <5>1. PICK m : m = back[d][i].name
          OBVIOUS
        <5>2. Told(d, m)'
          BY <5>1, <4>2, <2>10 DEF AnswerOK
        <5> QED
          BY <5>1, <5>2, <3>1 DEF Told
      <4> QED
        BY <3>1, <4>1, <4>2, <4>3 DEF AnswerOK, Told
    <3>3. ASSUME NEW g \in Fds, InWork(d, g)', net'[d].rst = "none" PROVE LastOf(d, g)'
      <4>1. g # f /\ conn'[g] = conn[g]
        BY <3>3, <2>12, <1>11, <1>12
      <4>2. LastOf(d, g)
        BY <2>11, <3>1, <3>3
      <4> QED
        BY <3>1, <4>1, <4>2 DEF LastOf
    <3> QED
      BY <3>1, <3>2, <3>3
  <2>13. ASSUME NEW i \in 1 .. n PROVE AnswerOK(c, i)'
    <3>1. AnswerOK(c, i) /\ back'[c][i] = back[c][i]
      BY <2>6, <2>7, <2>8, <2>11
    <3>2. ~Unfinished(c, i)
      <4>1. \A g \in Fds : ~InWork(c, g)
        BY <1>4, <1>5, <2>2 DEF InWork
      <4> QED
        BY <4>1, <1>14 DEF Unfinished
    <3>3. Told(c, back[c][i].name)'
      <4>1. PICK m : m = back[c][i].name
        OBVIOUS
      <4>2. Told(c, m)'
        BY <4>1, <3>1, <2>10 DEF AnswerOK
      <4> QED
        BY <4>1, <4>2, <3>1 DEF Told
    <3> QED
      BY <3>1, <3>2, <3>3 DEF AnswerOK, Told
  <2>14. AnswerOK(c, n + 1)'
    <3>1. back'[c][n + 1] = r /\ Len(back'[c]) = n + 1
      BY <2>7, <2>8
    <3>2. Told(c, r.name)'
      <4>1. PICK m : m = x.hdr.name
        OBVIOUS
      <4>2. Told(c, m)'
        BY <4>1, <1>6, <2>2, <2>10
      <4> QED
        BY <4>1, <4>2, <2>3 DEF Told
    <3>3. r.was > 0 /\ r.still => r.name = r.ask /\ r.len = r.was /\ r.body = -1 /\ x.flag
      BY <1>6, <2>3
    <3>4. x.flag => Unfinished(c, n + 1)'
      BY <1>12, <3>1 DEF Unfinished
    <3> QED
      BY <3>1, <3>2, <3>3, <3>4 DEF AnswerOK, Told
  <2>15. ASSUME NEW g \in Fds, InWork(c, g)' PROVE LastOf(c, g)'
    <3>1. g = f /\ x.flag
      BY <1>3, <1>4, <1>5, <1>12, <2>15 DEF InWork
    <3>2. back'[c] # <<>> /\ back'[c][Len(back'[c])] = r
      <4>1. Len(s) # 0
        BY <2>7
      <4> QED
        BY <4>1, <2>7, <2>8, EmptySeq
    <3> QED
      BY <3>1, <3>2, <1>7, <2>3 DEF LastOf
  <2>16. AnswerInv'
    <3>1. \A i \in 1 .. Len(back'[c]) : i \in 1 .. n \/ i = n + 1
      BY <2>7, <2>8
    <3>2. \A i \in 1 .. Len(back'[c]) : AnswerOK(c, i)'
      BY <3>1, <2>13, <2>14
    <3> QED
      BY <3>2, <2>12, <2>15 DEF AnswerInv
  <2> QED
    BY <1>3, <1>10, <2>9, <2>16, HttpPart
<1> QED
  BY <1>13, <1>14

\* send_cb, the body: it is of the size the header said if the file is what it was.
LEMMA BodySentFacts ==
  ASSUME TypeOK, RightInv, prog = "http", NEW c \in Clients, rfd \in Fds, back[c] # <<>>,
         net[c].rst = "none", conn[rfd].res \in Names, NEW n \in Nat, n = Len(back[c])
  PROVE  /\ BodySent(c) \in Seq(Sent) /\ Len(BodySent(c)) = n /\ n \in 1 .. n
         /\ \A i \in 1 .. n : i # n => BodySent(c)[i] = back[c][i]
         /\ LET r == back[c][n]
            IN  /\ BodySent(c)[n].ask = r.ask /\ BodySent(c)[n].was = r.was
                /\ BodySent(c)[n].name = r.name /\ BodySent(c)[n].len = r.len
                /\ BodySent(c)[n].body = size[conn[rfd].res]
                /\ BodySent(c)[n].still = conn[rfd].still
<1>1. back[c] \in Seq(Sent) /\ n # 0
  BY BackOf
<1>2. n \in 1 .. Len(back[c])
  BY <1>1
<1>3. PICK r \in Answers : r = back[c][n]
  BY <1>1, <1>2, ElementOfSeq DEF Sent
<1>4. PICK z, b : z = size[conn[rfd].res] /\ b = conn[rfd].still
  OBVIOUS
<1>5. z \in Nat /\ b \in BOOLEAN
  BY <1>4, ConnOf, ReactorAssumption
     DEF TypeOK, ReactorTypeOK, Connect_t, ReactorAssumption
<1>6. PICK q : q = [r EXCEPT !.body = z, !.still = b]
  OBVIOUS
<1>7. /\ q \in Answers /\ q.ask = r.ask /\ q.was = r.was /\ q.name = r.name /\ q.len = r.len
      /\ q.body = z /\ q.still = b
  BY <1>5, <1>6, ZenonT(40) DEF Answers
<1>8. q \in Sent
  BY <1>7 DEF Sent
<1>9. BodySent(c) = [back[c] EXCEPT ![n] = q]
  <2>1. BodySent(c) = [back[c] EXCEPT ![n].body = z, ![n].still = b]
    BY <1>4 DEF BodySent
  <2>2. back[c] \in [1 .. n -> Sent] /\ n \in 1 .. n
    BY <1>1, <1>2, LenProperties
  <2> QED
    BY <2>1, <2>2, <1>3, <1>6
<1>10. /\ [back[c] EXCEPT ![n] = q] \in Seq(Sent)
       /\ Len([back[c] EXCEPT ![n] = q]) = Len(back[c])
       /\ \A j \in 1 .. Len(back[c]) : [back[c] EXCEPT ![n] = q][j] = IF j = n THEN q ELSE back[c][j]
  BY <1>1, <1>2, <1>8, ExceptSeq
<1>11. /\ BodySent(c) \in Seq(Sent) /\ Len(BodySent(c)) = n /\ n \in 1 .. n
       /\ \A i \in 1 .. n : i # n => BodySent(c)[i] = back[c][i]
       /\ BodySent(c)[n] = q
  BY <1>2, <1>9, <1>10
<1> QED
  BY <1>3, <1>4, <1>7, <1>11

LEMMA SendBodyRight ==
  ASSUME ServedInv, RightInv, up, SendBody, UNCHANGED echoVars
  PROVE  RightInv'
<1>1. PICK f \in Fds : f = rfd
  BY DEF ServedInv, ReactInv, SendBody
<1>2. /\ TypeOK /\ KernelInv /\ prog = "http" /\ rpc = "body" /\ file[f] \in Clients
      /\ file[f] # NoClient /\ conn[f].cb = "send" /\ conn[f].res \in Names /\ conn[f].flag
      /\ \A g \in Fds : g # f => file[g] # file[f]
  BY <1>1, ConnOf DEF ServedInv, ReactInv, KernelInv, SendBody, RightInv, RequestInv
<1>3. PICK c \in Clients : c = file[f]
  BY <1>2
<1>4. /\ rpc' = "loop" /\ UNCHANGED <<prog, said, file, size>>
      /\ \/ size[conn[f].res] = 0 /\ spun' = TRUE /\ UNCHANGED <<up, net, back, conn>>
         \/ /\ conn' = [conn EXCEPT ![f] = [Reads(conn[f]) EXCEPT !.flag = FALSE]]
            /\ spun' = spun
            /\ \/ Broken(c) /\ up' = FALSE /\ UNCHANGED <<net, back>>
               \/ /\ ~Broken(c) /\ up' = up
                  /\ \E y \in AfterSend(c) : net' = [net EXCEPT ![c] = y]
                  /\ back' = [back EXCEPT ![c] = BodySent(c)]
  BY <1>1, <1>3 DEF SendBody
<1>5. /\ net' \in [Clients -> Link] /\ \A d \in Clients : d # c => net'[d] = net[d]
      /\ net'[c].got = net[c].got /\ (up' => up)
  BY <1>2, <1>1, <1>3, BodyLink
<1>6. net'[c].rst = "none" <=> net[c].rst = "none"
  <2>1. CASE net' = net
    BY <2>1
  <2>2. ASSUME NEW y \in AfterSend(c), net' = [net EXCEPT ![c] = y]
        PROVE  net'[c].rst = "none" <=> net[c].rst = "none"
    <3>1. y \in Link /\ y.rst = (IF net[c].rst = "err" THEN "dead" ELSE net[c].rst)
      BY <1>2, AfterSendLink
    <3>2. net'[c] = y
      BY <1>2, <2>2, <3>1, LinkSet
    <3> QED
      BY <3>1, <3>2
  <2> QED
    BY <1>4, <2>1, <2>2
<1>7. /\ \A d \in Clients : net'[d].got = net[d].got /\ net[d].got <= net'[d].got
      /\ \A d \in Clients : net'[d].rst = "none" => net[d].rst = "none"
  BY <1>2, <1>5, <1>6, LinkOf DEF Link
<1>8. /\ \A g \in Fds : g # f => ~InBody(g)
      /\ ~InBody(f)' /\ rpc' # "body"
  BY <1>1, <1>4 DEF InBody
<1>9. Known(f)
  BY <1>2 DEF RightInv, RequestInv
<1>10. CASE spun' = TRUE /\ UNCHANGED <<up, net, back, conn>>
  <2>1. Known(f)'
    BY <1>2, <1>4, <1>5, <1>7, <1>10, KnownKept
  <2>2. RequestInv'
    BY <1>2, <1>4, <1>5, <1>7, <1>8, <1>10, <2>1, RequestKept
  <2>3. \A d \in Clients, g \in Fds : InWork(d, g)' <=> InWork(d, g)
    BY <1>4, <1>10 DEF InWork
  <2>4. AnswerInv'
    BY <1>4, <1>5, <1>7, <1>10, <2>3, AnswersKept
  <2> QED
    BY <1>2, <1>4, <1>10, <2>2, <2>4, BackKept, HttpPart
<1>11. CASE conn' = [conn EXCEPT ![f] = [Reads(conn[f]) EXCEPT !.flag = FALSE]] /\ spun' = spun
  <2>1. /\ \A g \in Fds : g # f => conn'[g] = conn[g]
        /\ conn'[f].hdr = conn[f].hdr /\ conn'[f].flag = FALSE /\ conn'[f].cb = "recv"
    BY <1>2, <1>11, BodyConn
  <2>2. \A n : Told(c, n) => Told(c, n)'
    BY <1>4, <1>7 DEF Told
  <2>3. Known(f)'
    <3>1. conn[f].hdr # NoHdr => Told(c, conn[f].hdr.name)'
      <4>1. PICK n : n = conn[f].hdr.name
        OBVIOUS
      <4>2. conn[f].hdr # NoHdr => Told(c, n)'
        BY <4>1, <1>3, <1>9, <2>2 DEF Known
      <4> QED
        BY <4>1, <4>2, <2>1 DEF Told
    <3> QED
      BY <1>2, <1>3, <1>4, <2>1, <3>1 DEF Known, Told
  <2>4. RequestInv'
    BY <1>2, <1>4, <1>5, <1>7, <1>8, <1>11, <2>1, <2>3, RequestKept
  <2>5. \A d \in Clients, g \in Fds : /\ g # f => (InWork(d, g)' <=> InWork(d, g)) /\ conn'[g] = conn[g]
                                      /\ ~InWork(d, f)' /\ (InWork(d, f) <=> d = c)
    BY <1>2, <1>3, <1>4, <2>1 DEF InWork
  <2>6. CASE net[c].rst # "none"
    <3>1. back' = back
      <4>1. BodySent(c) = back[c] /\ back \in [Clients -> Seq(Sent)]
        BY <2>6 DEF BodySent, RightInv, BackTypeOK
      <4>2. back' = back \/ back' = [back EXCEPT ![c] = BodySent(c)]
        BY <1>4
      <4> QED
        BY <4>1, <4>2
    <3>2. \A d \in Clients, g \in Fds :
            /\ InWork(d, g) => InWork(d, g)' \/ net'[d].rst # "none"
            /\ InWork(d, g)' => InWork(d, g) /\ conn'[g] = conn[g]
      <4>1. TAKE d \in Clients, g \in Fds
      <4>2. CASE g = f
        BY <4>2, <2>5, <2>6, <1>6
      <4>3. CASE g # f
        BY <4>3, <2>5
      <4> QED
        BY <4>2, <4>3
    <3>3. AnswerInv'
      BY <1>4, <1>5, <1>7, <3>1, <3>2, AnswersKept
    <3> QED
      BY <1>2, <1>4, <2>4, <3>1, <3>3, BackKept, HttpPart
  <2>7. CASE net[c].rst = "none"
    <3>1. /\ \A d \in Clients : \A i \in 1 .. Len(back[d]) : AnswerOK(d, i)
          /\ \A d \in Clients, g \in Fds : InWork(d, g) /\ net[d].rst = "none" => LastOf(d, g)
      BY <1>2 DEF RightInv, AnswerInv
    <3>2. LastOf(c, f)
      BY <2>5, <2>7, <3>1
    <3>3. ~Broken(c)
      BY <2>7 DEF Broken
    <3>4. up' = up /\ back' = [back EXCEPT ![c] = BodySent(c)]
      <4>1. conn' # conn
        BY <1>2, <2>1
      <4> QED
        BY <4>1, <1>4, <3>3
    <3>5. PICK n \in Nat : n = Len(back[c])
      BY BackOf
    <3>6. PICK s \in Seq(Sent) : s = BodySent(c)
      BY <1>1, <1>2, <2>7, <3>2, <3>5, BodySentFacts DEF LastOf
    <3>7. /\ Len(s) = n /\ n \in 1 .. n
          /\ \A i \in 1 .. n : i # n => s[i] = back[c][i]
          /\ s[n].ask = back[c][n].ask /\ s[n].was = back[c][n].was
          /\ s[n].name = back[c][n].name /\ s[n].len = back[c][n].len
          /\ s[n].body = size[conn[f].res] /\ s[n].still = conn[f].still
      BY <1>1, <1>2, <2>7, <3>2, <3>5, <3>6, BodySentFacts DEF LastOf
    <3>8. /\ back' \in [Clients -> Seq(Sent)] /\ back'[c] = s
          /\ \A d \in Clients : d # c => back'[d] = back[d]
      BY <3>4, <3>6 DEF RightInv, BackTypeOK
    <3>9. BackTypeOK'
      BY <1>4, <3>8 DEF BackTypeOK, Sent
    <3>10. \A d \in Clients : \A m : Told(d, m) => Told(d, m)'
      BY <1>4, <1>7 DEF Told
    <3>11. ASSUME NEW d \in Clients, d # c
           PROVE  /\ \A i \in 1 .. Len(back'[d]) : AnswerOK(d, i)'
                  /\ \A g \in Fds : InWork(d, g)' /\ net'[d].rst = "none" => LastOf(d, g)'
      <4>1. back'[d] = back[d] /\ net'[d] = net[d] /\ \A g \in Fds : InWork(d, g)' <=> InWork(d, g)
        BY <3>8, <3>11, <1>5, <2>5
      <4>2. ASSUME NEW i \in 1 .. Len(back[d]) PROVE AnswerOK(d, i)'
        <5>1. Unfinished(d, i) => Unfinished(d, i)'
          BY <3>4, <4>1 DEF Unfinished
        <5>2. AnswerOK(d, i)
          BY <3>1
        <5>3. Told(d, back[d][i].name)'
          <6>1. PICK m : m = back[d][i].name
            OBVIOUS
          <6>2. Told(d, m)'
            BY <6>1, <5>2, <3>10 DEF AnswerOK
          <6> QED
            BY <6>1, <6>2, <4>1 DEF Told
        <5> QED
          BY <4>1, <5>1, <5>2, <5>3 DEF AnswerOK, Told
      <4>3. ASSUME NEW g \in Fds, InWork(d, g)', net'[d].rst = "none" PROVE LastOf(d, g)'
        <5>1. g # f /\ conn'[g] = conn[g]
          BY <4>3, <2>5
        <5>2. LastOf(d, g)
          BY <3>1, <4>1, <4>3
        <5> QED
          BY <4>1, <5>1, <5>2 DEF LastOf
      <4> QED
        BY <4>1, <4>2, <4>3
    <3>12. ASSUME NEW i \in 1 .. n PROVE AnswerOK(c, i)'
      <4>1. AnswerOK(c, i)
        BY <3>1, <3>5
      <4>2. back'[c][i].name = back[c][i].name
        BY <3>7, <3>8
      <4>3. Told(c, back[c][i].name)'
        <5>1. PICK m : m = back[c][i].name
          OBVIOUS
        <5>2. Told(c, m)'
          BY <5>1, <4>1, <3>10 DEF AnswerOK
        <5> QED
          BY <5>1, <5>2, <4>2 DEF Told
      <4>4. CASE i # n
        <5>1. ~Unfinished(c, i)
          BY <4>4, <3>5 DEF Unfinished
        <5> QED
          BY <3>7, <3>8, <4>1, <4>3, <4>4, <5>1 DEF AnswerOK, Told
      <4>5. CASE i = n
        <5>1. SUFFICES ASSUME s[n].was > 0, s[n].still
                       PROVE  s[n].name = s[n].ask /\ s[n].len = s[n].was /\ s[n].body = s[n].len
          BY <3>8, <4>2, <4>3, <4>5 DEF AnswerOK, Told
        <5>2. /\ conn[f].still /\ conn[f].was = back[c][n].was /\ conn[f].ask = back[c][n].ask
              /\ back[c][n].still /\ conn[f].was > 0
          BY <5>1, <3>2, <3>5, <3>7 DEF LastOf
        <5>3. back[c][n].name = back[c][n].ask /\ back[c][n].len = back[c][n].was
          BY <5>1, <5>2, <3>7, <4>1, <4>5 DEF AnswerOK
        <5>4. size[conn[f].res] = conn[f].was
          BY <5>2, <1>2, <1>9 DEF Known
        <5> QED
          BY <3>7, <5>2, <5>3, <5>4
      <4> QED
        BY <4>4, <4>5
    <3>13. \A g \in Fds : ~InWork(c, g)'
      BY <1>2, <1>3, <1>4, <2>5 DEF InWork
    <3>14. AnswerInv'
      <4>1. \A i \in 1 .. Len(back'[c]) : AnswerOK(c, i)'
        BY <3>7, <3>8, <3>12
      <4> QED
        BY <4>1, <3>11, <3>13 DEF AnswerInv
    <3> QED
      BY <1>2, <1>4, <2>4, <3>9, <3>14, HttpPart
  <2> QED
    BY <2>6, <2>7
<1> QED
  BY <1>4, <1>10, <1>11

\* A file that changes: what was promised of it is not promised any more.
LEMMA FileChangeRight ==
  ASSUME ServedInv, RightInv, NEW y \in Names, FileChange(y), UNCHANGED echoVars
  PROVE  RightInv'
<1>1. /\ prog = "http" /\ UNCHANGED <<prog, up, net, said, file, back, rpc, rfd, spun>>
      /\ conn' = [f \in Fds |-> IF conn[f].ask = y THEN [conn[f] EXCEPT !.still = FALSE] ELSE conn[f]]
      /\ \E s \in 0 .. MaxSize : size' = [size EXCEPT ![y] = s]
  BY DEF FileChange, kernel
<1>2. TypeOK
  BY DEF ServedInv
<1>3. \A f \in Fds :
        /\ conn'[f].cb = conn[f].cb /\ conn'[f].res = conn[f].res /\ conn'[f].hdr = conn[f].hdr
        /\ conn'[f].flag = conn[f].flag /\ conn'[f].ask = conn[f].ask
        /\ conn'[f].was = conn[f].was
        /\ conn'[f].still = (conn[f].still /\ conn[f].ask # y)
  BY <1>1, <1>2, ChangeConn, ZenonT(40)
<1>4. net \in [Clients -> Link] /\ \A c \in Clients : net[c].got <= net'[c].got
  BY <1>1, <1>2, LinkOf DEF Link, TypeOK, KernelTypeOK
<1>5. \A n \in Names : n # y => size'[n] = size[n]
  BY <1>1, <1>2 DEF TypeOK, ReactorTypeOK
<1>6. ASSUME NEW f \in Fds PROVE Known(f)'
  <2>1. Known(f)
    BY <1>1 DEF RightInv, RequestInv
  <2>2. file[f] # NoClient /\ conn[f].cb = "send" /\ conn'[f].was > 0 /\ conn'[f].still =>
              conn'[f].ask \in Names /\ size'[conn'[f].ask] = conn'[f].was
    <3>1. SUFFICES ASSUME conn'[f].was > 0, conn'[f].still, file[f] # NoClient, conn[f].cb = "send"
                   PROVE  conn'[f].ask \in Names /\ size'[conn'[f].ask] = conn'[f].was
      OBVIOUS
    <3>2. conn[f].still /\ conn[f].ask # y /\ conn[f].was > 0
      BY <3>1, <1>3
    <3> QED
      BY <3>1, <3>2, <2>1, <1>3, <1>5 DEF Known
  <2>3. /\ conn'[f].flag => file[f] # NoClient /\ conn[f].cb = "send" /\ (InBody(f)' \/ spun')
        /\ conn'[f].hdr # NoHdr => file[f] # NoClient /\ Told(file[f], conn[f].hdr.name)'
        /\ file[f] # NoClient /\ conn[f].cb = "send" => Told(file[f], conn[f].res)'
    BY <2>1, <1>1, <1>3 DEF Known, InBody, Told
  <2> QED
    BY <2>1, <2>2, <2>3, <1>1, <1>3 DEF Known, Told
<1>7. RequestInv'
  <2>1. rpc = "body" => rfd \in Fds /\ conn[rfd].flag
    BY <1>1 DEF ServedInv, ReactInv, RightInv, RequestInv
  <2> QED
    BY <2>1, <1>1, <1>3, <1>6 DEF RequestInv
<1>8. AnswerInv'
  <2>1. \A c \in Clients, f \in Fds : InWork(c, f)' <=> InWork(c, f)
    BY <1>1, <1>3 DEF InWork
  <2> QED
    BY <1>1, <1>3, <1>4, <2>1, AnswersKept
<1> QED
  BY <1>1, <1>7, <1>8, BackKept, HttpPart

\* Steps that change nothing of this, and steps that change nothing at all.
LEMMA StillRight ==
  ASSUME RightInv, UNCHANGED <<prog, up, net, said, file, back, task, raced, conn, rpc, rfd, spun, size>>
  PROVE  RightInv'
<1>1. BackTypeOK'
  BY BackKept
<1>2. EchoInv'
  BY DEF RightInv, EchoInv, Echo, Own, Sending, Peer
<1>3. FirstInv'
  BY DEF RightInv, FirstInv, Untouched, Fresh
<1>4. RequestInv'
  BY DEF RightInv, RequestInv, Known, InBody, Told
<1>5. AnswerInv'
  BY DEF RightInv, AnswerInv, AnswerOK, LastOf, InWork, Unfinished, Told
<1> QED
  BY <1>1, <1>2, <1>3, <1>4, <1>5 DEF RightInv

LEMMA NextRight ==
  ASSUME ServedInv, ThreadInv, RightInv, [Next]_vars PROVE RightInv'
<1>1. CASE UNCHANGED vars
  BY <1>1, StillRight DEF vars, kernel, echoVars, loopVars, reactorVars
<1>2. CASE Next
  <2>1. ASSUME EchoStep, UNCHANGED reactorVars PROVE RightInv'
    BY <2>1, EchoStepRight
  <2>2. ASSUME ReactorStep, UNCHANGED echoVars, up PROVE RightInv'
    <3>1. ASSUME EpollWait PROVE RightInv'
      BY <2>2, <3>1, StillRight DEF EpollWait, kernel, echoVars
    <3>2. ASSUME NEW f \in Fds, Recv_cb(f) PROVE RightInv'
      <4>1. prog = "reactor" \/ prog = "http"
        BY <3>2, CalledOf DEF Recv_cb, React
      <4> QED
        BY <2>2, <3>2, <4>1, ReactorRecvRight, HttpRecvRight
    <3> QED
      BY <2>2, <3>1, <3>2, AcceptCbRight, ReactorSendRight, SendHeaderRight, SendBodyRight
         DEF ReactorStep
  <2> QED
    BY <1>2, <2>1, <2>2, ClientRight, FileChangeRight DEF Next, ServerStep
<1> QED
  BY <1>1, <1>2

LEMMA InitRight == ASSUME Init PROVE RightInv
<1> USE SocketKernelAssumption DEF SocketKernelAssumption
<1>1. /\ back = [c \in Clients |-> <<>>] /\ file = [f \in Fds |-> NoClient]
      /\ \A c \in Clients : net[c].got = 0
      /\ \A i \in Tasks : task[i].pc # "send"
      /\ rpc = "loop"
      /\ \A f \in Fds : conn[f].flag = FALSE /\ conn[f].hdr = NoHdr
  BY DEF Init, KernelInit, EchoInit, ReactorInit, Off
<1>2. BackTypeOK
  <2>1. <<>> \in Seq(Sent)
    BY EmptySeq
  <2> QED
    BY <1>1, <2>1 DEF BackTypeOK
<1>3. EchoInv
  <2>1. \A c \in Clients : Own(c, back[c]) /\ Len(back[c]) = 0
    <3>1. TAKE c \in Clients
    <3>2. back[c] = <<>> /\ back[c] \in Seq(Sent) /\ Len(back[c]) = 0
      BY <1>1, <1>2 DEF BackTypeOK
    <3>3. \A j \in 1 .. Len(back[c]) : back[c][j] = <<c, j>>
      BY <3>2
    <3> QED
      BY <3>2, <3>3, OwnEach
  <2> QED
    BY <1>1, <2>1 DEF EchoInv, Sending
<1>4. FirstInv
  BY <1>1 DEF FirstInv, Untouched
<1>5. RequestInv
  BY <1>1 DEF RequestInv, Known
<1>6. AnswerInv
  <2>1. \A c \in Clients : Len(back[c]) = 0
    BY <1>1
  <2> QED
    BY <1>1, <2>1 DEF AnswerInv, InWork
<1> QED
  BY <1>2, <1>3, <1>4, <1>5, <1>6 DEF RightInv

LEMMA RightAnswers == ASSUME ServedInv, RightInv PROVE AnswersRight
<1>1. TypeOK
  BY DEF ServedInv
<1>2. EchoRight
  <2>1. ASSUME prog \in {"select", "poll", "epoll", "threads"}, ~raced, NEW c \in Clients
        PROVE  Own(c, back[c])
    BY <2>1 DEF RightInv, EchoInv, Echo
  <2>2. ASSUME prog = "reactor", NEW f \in Fds, First(f)
        PROVE  conn[f].rc = net[file[f]].got /\ Own(file[f], SubSeq(conn[f].rbuf, 1, conn[f].rc))
    <3>1. Untouched(f) /\ Fresh(f) /\ file[f] \in Clients
      BY <1>1, <2>2, ConnOf DEF First, Untouched, RightInv, FirstInv
    <3>2. PICK n \in Nat : n = conn[f].rc /\ n > 0
      <4>1. conn[f].rc \in Int /\ conn[f].rc > 0
        BY <1>1, <2>2, <3>1, ConnOf, SocketKernelAssumption
           DEF First, Fresh, Connect_t, SocketKernelAssumption
      <4> QED
        BY <4>1
    <3>3. \A i \in 1 .. n : conn[f].rbuf[i] = <<file[f], i>>
      BY <3>1, <3>2 DEF Fresh
    <3>4. PICK s : s = SubSeq(conn[f].rbuf, 1, n)
      OBVIOUS
    <3>5. /\ s \in Seq(Clients \X Nat) /\ Len(s) = n
          /\ \A i \in 1 .. n : s[i] = <<file[f], i>>
      <4>1. \A i \in 1 .. n : conn[f].rbuf[i] \in Clients \X Nat
        <5>1. TAKE i \in 1 .. n
        <5>2. PICK d \in Clients, x \in Nat : d = file[f] /\ x = i
          BY <3>1
        <5>3. conn[f].rbuf[i] = <<d, x>>
          BY <5>2, <3>3
        <5> QED
          BY <5>3
      <4>2. /\ SubSeq(conn[f].rbuf, 1, n) \in Seq(Clients \X Nat)
            /\ Len(SubSeq(conn[f].rbuf, 1, n)) = (IF 1 <= n THEN n - 1 + 1 ELSE 0)
            /\ \A i \in 1 .. n - 1 + 1 : SubSeq(conn[f].rbuf, 1, n)[i] = conn[f].rbuf[1 + i - 1]
        BY <4>1, SubSeqProperties
      <4>3. Len(s) = n
        BY <4>2, <3>2, <3>4
      <4>4. \A i \in 1 .. n : s[i] = conn[f].rbuf[i]
        <5>1. TAKE i \in 1 .. n
        <5>2. i \in 1 .. n - 1 + 1 /\ 1 + i - 1 = i
          OBVIOUS
        <5> QED
          BY <5>2, <4>2, <3>4
      <4> QED
        BY <4>2, <4>3, <4>4, <3>3, <3>4
    <3>6. Own(file[f], s)
      BY <3>5, OwnEach
    <3> QED
      BY <3>1, <3>2, <3>4, <3>6 DEF Fresh
  <2> QED
    BY <2>1, <2>2 DEF EchoRight
<1>3. HttpRight
  <2>1. SUFFICES ASSUME prog = "http", NEW c \in Clients, NEW i \in DOMAIN back[c],
                        NEW r, r = back[c][i]
                 PROVE  IF r.was > 0 /\ r.still
                        THEN /\ r.name = r.ask /\ r.len = r.was
                             /\ r.body = r.len \/ (r.body = -1 /\ Cut(c, i))
                        ELSE r.ask # "post" =>
                               \E j \in 1 .. net[c].got : said[c][j] \in {r.name, "post"}
    BY DEF HttpRight
  <2>2. AnswerOK(c, i)
    BY <2>1, BackOf DEF RightInv, AnswerInv
  <2>3. Unfinished(c, i) => Cut(c, i)
    <3>1. ASSUME NEW f \in Fds, InWork(c, f) PROVE rpc = "body" \/ spun
      BY <2>1, <3>1 DEF InWork, RightInv, RequestInv, Known, InBody
    <3> QED
      BY <3>1 DEF Unfinished, Cut
  <2> QED
    BY <2>1, <2>2, <2>3 DEF AnswerOK, Told
<1> QED
  BY <1>2, <1>3 DEF AnswersRight

\* Nobody is answered with what belongs to somebody else: what has been sent to a client of
\* the echo servers is what it has sent, in order; a connection of the reactor begins with
\* its own data; and an answer of the HTTP server is the file that was asked for, whole
\* unless the connection or the server ends there.
THEOREM AnswersAlwaysRight == Spec => []AnswersRight
<1>1. Init => ServedInv /\ ThreadInv /\ PoliteInv /\ RightInv
  BY InitPolite, InitRight
<1>2. ServedInv /\ ThreadInv /\ PoliteInv /\ RightInv /\ [Next]_vars =>
        ServedInv' /\ ThreadInv' /\ PoliteInv' /\ RightInv'
  BY NextServed, NextPolite, NextRight
<1>3. ServedInv /\ RightInv => AnswersRight
  BY RightAnswers
<1> QED
  BY <1>1, <1>2, <1>3, PTL DEF Spec
=============================================================================
