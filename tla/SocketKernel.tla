---------------------------- MODULE SocketKernel ----------------------------
(***************************************************************************)
(* What the echo servers and the HTTP server of src/linux-server see of    *)
(* the kernel and of their clients: a listening socket with its queue,     *)
(* descriptors that are used again, and one TCP connection per client.     *)
(* prog is the program that runs; all of them share this state.            *)
(*                                                                         *)
(* net[c] is the connection of client c: its place st; sent and got, how   *)
(* many of the units said[c] the client has sent and the server received;  *)
(* fin, the client has closed; rst, a reset has arrived ("err") and the    *)
(* error has been reported ("dead"); owed, the server has sent to a closed *)
(* client, which answers with a reset; full, the client has stopped        *)
(* reading and no more fits. file[f] is the client behind descriptor f,    *)
(* edge the clients with an edge-triggered event to report. History        *)
(* variables: asks, the client waits for the answer to what it has sent;   *)
(* back[c], what client c has been sent; rude, a client closed before it   *)
(* had its answers, or by a reset.                                         *)
(***************************************************************************)
EXTENDS Integers, Sequences, FiniteSets

CONSTANTS
  Clients, NoClient,
  MaxFd,        \* bound: descriptors for connections
  MaxSend,      \* bound: units a client of an echo server sends
  Scripts,      \* what the clients of the HTTP server ask for, in turn
  MayStop,      \* bound: the clients that may stop reading
  Names         \* the files an HTTP client asks for

ASSUME SocketKernelAssumption ==
  /\ NoClient \notin Clients /\ IsFiniteSet(Clients)
  /\ MaxSend \in Nat /\ MaxFd \in Nat
  /\ Cardinality(Clients) <= MaxFd      \* descriptors do not run out
  /\ "post" \notin Names
  /\ \A s \in Scripts : \A c \in Clients : s[c] \in Seq(Names \cup {"post"}) /\ Len(s[c]) <= MaxSend

VARIABLES prog, up, net, said, queue, file, edge, back, rude

kernel == <<net, said, queue, file, edge, back, rude>>

Programs == {"select", "poll", "epoll", "threads", "reactor", "http"}
Fds == 1 .. MaxFd
Listener == 0

KernelInit ==
  /\ prog \in Programs
  /\ up = TRUE
  /\ net = [c \in Clients |-> [st |-> "new", sent |-> 0, got |-> 0, fin |-> FALSE, rst |-> "none",
                               owed |-> FALSE, full |-> FALSE, asks |-> FALSE]]
  /\ said \in IF prog = "http" THEN Scripts
             ELSE {[c \in Clients |-> [i \in 1 .. MaxSend |-> "unit"]]}
  /\ queue = <<>>
  /\ file = [f \in Fds |-> NoClient]
  /\ edge = {}
  /\ back = [c \in Clients |-> <<>>]
  /\ rude = FALSE

Link == [st : {"new", "queued", "open", "gone"}, sent : 0 .. MaxSend, got : 0 .. MaxSend,
         fin : BOOLEAN, rst : {"none", "err", "dead"}, owed : BOOLEAN, full : BOOLEAN,
         asks : BOOLEAN]
KernelTypeOK ==
  /\ prog \in Programs /\ up \in BOOLEAN /\ rude \in BOOLEAN
  /\ net \in [Clients -> Link]
  /\ queue \in Seq(Clients)
  /\ file \in [Fds -> Clients \cup {NoClient}]
  /\ edge \subseteq Clients

-----------------------------------------------------------------------------
\* What the system calls tell the program about client c.
Data(c) == net[c].sent - net[c].got
Readable(c) == Data(c) > 0 \/ net[c].fin \/ net[c].rst # "none"
Writable(c) == ~net[c].full \/ net[c].rst # "none"

\* recv(): data first, then the end, then the error, once.  "wait": it blocks.
Received(c) ==
  CASE Data(c) > 0 -> "data"
    [] Data(c) = 0 /\ (net[c].fin \/ net[c].rst = "dead") -> "end"
    [] Data(c) = 0 /\ ~net[c].fin /\ net[c].rst = "err" -> "error"
    [] OTHER -> "wait"

\* send(): the first call after a reset fails, any other one raises SIGPIPE,
\* which ends the process; so does the first if the client had closed.
Broken(c) == net[c].rst = "dead" \/ (net[c].rst = "err" /\ net[c].fin)

\* The connection of c after send() has taken what it was given.
AfterSend(c) ==
  {[net[c] EXCEPT !.rst = IF @ = "err" THEN "dead" ELSE @,
                  !.owed = @ \/ net[c].fin,
                  !.full = i] :
     i \in IF c \in MayStop /\ net[c].rst = "none" THEN BOOLEAN ELSE {FALSE}}

\* send() of the answer a (a sequence) to client c.
SendTo(c, a) ==
  /\ Writable(c)
  /\ IF Broken(c)
     THEN up' = FALSE /\ UNCHANGED <<net, back>>
     ELSE /\ up' = up
          /\ \E n \in AfterSend(c) : net' = [net EXCEPT ![c] = [n EXCEPT !.asks = Data(c) > 0]]
          /\ back' = IF net[c].rst = "none" THEN [back EXCEPT ![c] = @ \o a] ELSE back

\* accept() of the first client in the queue, on the lowest descriptor.
Lowest(f) == file[f] = NoClient /\ \A g \in Fds : file[g] = NoClient => f <= g
AcceptOne(f) ==
  /\ queue # <<>> /\ Lowest(f)
  /\ file' = [file EXCEPT ![f] = Head(queue)]
  /\ net' = [net EXCEPT ![Head(queue)].st = "open"]
  /\ queue' = Tail(queue)

-----------------------------------------------------------------------------
\* The clients.  An arrival at an open connection is a new edge for epoll.
Live(c) == net[c].st \in {"queued", "open"} /\ ~net[c].fin /\ net[c].rst = "none"
Edge(c) == edge' = IF prog = "epoll" /\ net[c].st = "open" THEN edge \cup {c} ELSE edge

Connect(c) ==
  /\ net[c].st = "new"
  /\ net' = [net EXCEPT ![c].st = "queued"]
  /\ queue' = Append(queue, c)
  /\ UNCHANGED <<said, file, edge, back, rude>>

ClientSend(c) ==
  /\ Live(c) /\ net[c].sent < Len(said[c])
  /\ net' = [net EXCEPT ![c].sent = @ + 1, ![c].asks = TRUE]
  /\ Edge(c)
  /\ UNCHANGED <<said, queue, file, back, rude>>

\* A client closes.  With data unread, or when it is killed by the network, that
\* is a reset.
ClientClose(c) ==
  /\ Live(c)
  /\ \/ /\ ~net[c].full
        /\ net' = [net EXCEPT ![c].fin = TRUE]
        /\ rude' = (rude \/ net[c].asks)
     \/ /\ net' = [net EXCEPT ![c].rst = "err"]
        /\ rude' = TRUE
  /\ Edge(c)
  /\ UNCHANGED <<said, queue, file, back>>

\* The reset a closed client answers data with.
ResetArrives(c) ==
  /\ net[c].owed /\ net[c].rst = "none" /\ net[c].st = "open"
  /\ net' = [net EXCEPT ![c].rst = "err"]
  /\ Edge(c)
  /\ UNCHANGED <<said, queue, file, back, rude>>

ClientStep(c) ==
  /\ \/ Connect(c) \/ ClientSend(c) \/ ClientClose(c) \/ ResetArrives(c)
  /\ UNCHANGED <<prog, up>>
=============================================================================
