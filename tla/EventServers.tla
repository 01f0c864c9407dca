---------------------------- MODULE EventServers ----------------------------
(***************************************************************************)
(* The echo servers and the HTTP server, each with its clients, and what   *)
(* they all promise: one of the programs runs, chosen at the start.        *)
(***************************************************************************)
EXTENDS EchoServers, Reactor

vars == <<prog, up, kernel, echoVars, reactorVars>>

Init == KernelInit /\ EchoInit /\ ReactorInit
TypeOK == KernelTypeOK /\ EchoTypeOK /\ ReactorTypeOK

ServerStep ==
  \/ EchoStep /\ UNCHANGED reactorVars
  \/ ReactorStep /\ UNCHANGED echoVars

Next ==
  /\ up
  /\ \/ ServerStep
     \/ \E c \in Clients : ClientStep(c) /\ UNCHANGED <<echoVars, reactorVars>>
     \/ \E x \in Names : FileChange(x) /\ UNCHANGED echoVars

Spec == Init /\ [][Next]_vars

(***************************************************************************)
(* Fairness: the server's thread, or every thread of                       *)
(* socket_server_thread.cpp, keeps running. Nothing is asked of clients.   *)
(***************************************************************************)
MainStep == \/ (Wait \/ Accept \/ Scan \/ TaskStep(Main)) /\ UNCHANGED reactorVars
            \/ ReactorStep /\ UNCHANGED echoVars
FairSpec ==
  /\ Spec
  /\ WF_vars(up /\ MainStep)
  /\ \A c \in Clients : WF_vars(up /\ TaskStep(c) /\ UNCHANGED reactorVars)

-----------------------------------------------------------------------------
\* A single thread that serves many blocking sockets calls accept() and recv()
\* only when there is something to take, although it goes by what was reported
\* before other events were handled, and the reactors call send() only when there
\* is room.
NeverBlocks ==
  /\ Echo /\ prog # "threads" =>
       /\ task[Main].pc = "accept" => queue # <<>>
       /\ task[Main].pc = "recv" => Peer(Main) # NoClient /\ Readable(Peer(Main))
  /\ Listener \in evs => queue # <<>>
  /\ \A f \in evs \ {Listener} : Asked(f)

Own(c, s) == s = [i \in 1 .. Len(s) |-> <<c, i>>]

\* What a client gets back is what it has sent, in order, whoever used its
\* descriptor before; with two exceptions.  The reactor, which never resets rc, is
\* right about the first answer of a connection only, the one it sends when nothing
\* has been sent back yet; and two threads may have been given one descriptor.
First(f) ==
  /\ file[f] # NoClient /\ conn[f].cb = "send"
  /\ back[file[f]] = <<>> /\ net[file[f]].rst = "none"
EchoRight ==
  /\ prog \in {"select", "poll", "epoll", "threads"} /\ ~raced =>
       \A c \in Clients : Own(c, back[c])
  /\ prog = "reactor" =>
       \A f \in Fds : First(f) =>
         /\ conn[f].rc = net[file[f]].got
         /\ Own(file[f], SubSeq(conn[f].rbuf, 1, conn[f].rc))

Cut(c, i) == i = Len(back[c]) /\ (rpc = "body" \/ net[c].rst # "none" \/ spun \/ ~up)

\* A GET of a file that exists and is not changed meanwhile is answered by its
\* header and all of it, whatever was asked before on this descriptor.  For any
\* other GET a client gets at most the header of a file it has asked for itself, or,
\* once it has sent something else than a GET, of one that was asked for before on its
\* descriptor.
HttpRight ==
  prog = "http" =>
    \A c \in Clients : \A i \in DOMAIN back[c] :
      LET r == back[c][i]
      IN  IF r.was > 0 /\ r.still
          THEN /\ r.name = r.ask /\ r.len = r.was
               /\ r.body = r.len \/ (r.body = -1 /\ Cut(c, i))
          ELSE r.ask # "post" => \E j \in 1 .. net[c].got : said[c][j] \in {r.name, "post"}

\* Nobody is answered with what belongs to somebody else: the state a descriptor
\* keeps when its number is used again (rc, wc, the buffers, resource) does not show.
AnswersRight == EchoRight /\ HttpRight

\* The clients of the reactor that have sent more than its buffer holds, in all.
Overrun == {c \in Clients : prog = "reactor" /\ net[c].got > BufferLength}

\* Clients that close after they have read their answers do not end the server,
\* but one that sends the reactor more than BufferLength in all does, however
\* politely: rc is not reset, and wbuffer overruns.  A reset, or a client gone
\* before its answer, may end any server (SIGPIPE is not ignored), and so may a
\* header that is sent again and again, or threads that share a descriptor.
Survives == ~up => rude \/ spun \/ raced \/ Overrun # {}

Pending(c) ==
  net[c].st = "queued" \/ (net[c].st = "open" /\ (Data(c) > 0 \/ net[c].fin \/ net[c].rst # "none"))

\* The clients that can hold up the server of client c by not reading.
Holds(c) == IF prog \in {"threads", "reactor"} THEN {c} ELSE Clients

\* Every client is accepted, read and, when it goes, closed in the end, unless
\* the server has died, or its buffer has been overrun; a client that does not
\* read stops the single-threaded servers, but the threads and the reactor stop at
\* that client only; a client whose thread could not be created is never read;
\* epoll.cpp leaves what one recv() per edge does not take; http.cpp sends a header
\* for ever while the file is missing.
ServedInTheEnd ==
  \A c \in Clients :
    Pending(c) ~> (\/ ~Pending(c) \/ ~up \/ raced \/ spun \/ c \in partial
                   \/ task[c].pc = "failed" \/ \E d \in Holds(c) : net[d].full)
=============================================================================
