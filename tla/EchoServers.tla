---------------------------- MODULE EchoServers ----------------------------
(***************************************************************************)
(* Four servers that send back what they receive: select.cpp, poll.cpp and *)
(* epoll.cpp, one thread each, and socket_server_thread.cpp with a thread  *)
(* per connection. The sockets are blocking.                               *)
(*                                                                         *)
(* task[Main] is main(); task[c] is the thread created when client c was   *)
(* accepted. pc: "accept" before accept(); "scan" looking for the next     *)
(* event, or waiting for one; "start", a thread that has not read its      *)
(* argument; "recv" before recv() and "send" before send() on descriptor   *)
(* fd; "failed", a thread that could not be created; buf is the answer.    *)
(* watch is what main waits for besides the listener (rfds, fds[].fd, the  *)
(* epoll set); ready the descriptors reported (rset, fds[].revents,        *)
(* events[]); eventfd the loop's; cfd the client_fd whose address the      *)
(* threads get. raced is a history variable: cfd was overwritten before a  *)
(* thread had read it. partial has the clients whose edge a recv() used up *)
(* without taking everything.                                              *)
(***************************************************************************)
EXTENDS SocketKernel

CONSTANTS Main,
  Buf           \* BUFFER_LEN, in units

ASSUME EchoServersAssumption == Main \notin Clients \cup {NoClient} /\ Buf \in Nat \ {0}

VARIABLES task, watch, ready, eventfd, maxfd, cfd, raced, partial

loopVars == <<watch, ready, eventfd, maxfd>>
echoVars == <<task, loopVars, cfd, raced, partial>>

Echo == prog \in {"select", "poll", "epoll", "threads"}
Tasks == Clients \cup {Main}
Pc == {"none", "accept", "scan", "start", "failed", "recv", "send"}
Unit == Clients \X (1 .. MaxSend)

Task == [pc : Pc, fd : Fds \cup {Listener, -1}, buf : Seq(Unit)]
EchoTypeOK ==
  /\ task \in [Tasks -> Task]
  /\ watch \subseteq Fds /\ ready \subseteq Fds \cup {Listener}
  /\ eventfd \in Nat /\ maxfd \in Fds \cup {Listener} /\ cfd \in Fds \cup {-1}
  /\ raced \in BOOLEAN /\ partial \subseteq Clients

Off == [pc |-> "none", fd |-> -1, buf |-> <<>>]
EchoInit ==
  /\ task = [i \in Tasks |->
       IF i = Main /\ Echo
       THEN [Off EXCEPT !.pc = IF prog = "threads" THEN "accept" ELSE "scan"] ELSE Off]
  /\ watch = {} /\ ready = {} /\ eventfd = 1 /\ maxfd = Listener /\ cfd = -1
  /\ raced = FALSE /\ partial = {}

Goes(i, pc) == task' = [task EXCEPT ![i].pc = pc]

-----------------------------------------------------------------------------
\* What the three calls report.  poll() writes revents of the first maxfd + 1
\* entries only, select() copies rfds; epoll reports an edge once, and only
\* while there is something to read.
Come == {f \in watch : Readable(file[f])}
Waiting == IF queue = <<>> THEN {} ELSE {Listener}
Reported ==
  Waiting \cup {f \in Come : IF prog = "epoll" THEN file[f] \in edge ELSE f <= maxfd}
Stale == IF prog = "poll" THEN {f \in ready : f > maxfd} ELSE {}

\* A wrong loop: it asks rfds, not rset.
Candidates_Watched ==
  IF prog = "epoll" THEN ready ELSE {f \in watch : eventfd <= f /\ f <= maxfd}

Candidates ==
  IF prog = "epoll" THEN ready ELSE {f \in ready \ {Listener} : eventfd <= f /\ f <= maxfd}
Wait ==
  /\ task[Main].pc = "scan" /\ Candidates = {}
  /\ Reported # {}
  /\ ready' = Reported \cup Stale
  /\ eventfd' = IF Reported = {Listener} /\ prog # "epoll" THEN MaxFd + 1 ELSE 1
  /\ edge' = edge \ {file[f] : f \in Reported \ {Listener}}
  /\ Goes(Main, IF prog # "epoll" /\ Listener \in Reported THEN "accept" ELSE "scan")
  /\ UNCHANGED <<prog, up, net, said, queue, file, back, rude,
                 watch, maxfd, cfd, raced, partial>>

\* accept() and what follows: the new descriptor is watched, or is handed to a
\* new thread by the address of client_fd, which the loop writes next time.  Whether
\* pthread_create() makes the thread is not asked; if not, the socket stays open.
Accept == \E f \in Fds :
  /\ task[Main].pc = "accept"
  /\ AcceptOne(f)
  /\ IF prog = "threads"
     THEN /\ cfd' = f
          /\ \E pc \in {"start", "failed"} : task' = [task EXCEPT ![Head(queue)].pc = pc]
          /\ raced' = (raced \/ \E c \in Clients : task[c].pc = "start")
          /\ UNCHANGED <<edge, loopVars>>
     ELSE /\ watch' = watch \cup {f}
          /\ maxfd' = IF f > maxfd THEN f ELSE maxfd
          /\ ready' = ready \ {Listener}
          /\ edge' = IF prog = "epoll" THEN edge \cup {Head(queue)} ELSE edge
          /\ task' = [task EXCEPT ![Main] = [Off EXCEPT !.pc = "scan"]]
          /\ UNCHANGED <<eventfd, cfd, raced>>
  /\ UNCHANGED <<prog, up, said, back, rude, partial>>

\* The loop over the events: in the order of the descriptors, or, with epoll,
\* of events[], which is any.  When it ends main waits again.
Scan ==
  /\ task[Main].pc = "scan"
  /\ \E f \in Candidates :
       /\ prog # "epoll" => \A x \in Candidates : f <= x
       /\ task' = [task EXCEPT ![Main].pc = IF f = Listener THEN "accept" ELSE "recv",
                               ![Main].fd = f]
       /\ eventfd' = IF prog = "epoll" THEN eventfd ELSE f
       /\ ready' = IF prog = "poll" THEN ready ELSE ready \ {f}
  /\ UNCHANGED <<prog, up, kernel, watch, maxfd, cfd, raced, partial>>

\* A thread reads the descriptor its argument points to.
Start(i) ==
  /\ task[i].pc = "start"
  /\ task' = [task EXCEPT ![i].pc = "recv", ![i].fd = cfd]
  /\ UNCHANGED <<prog, up, kernel, loopVars, cfd, raced, partial>>

\* After its event is dealt with main goes on with the next descriptor.
Back(i) == IF i = Main THEN [Off EXCEPT !.pc = "scan"] ELSE [task[i] EXCEPT !.pc = "recv", !.buf = <<>>]
Onward(i) == eventfd' = IF i = Main /\ prog # "epoll" THEN eventfd + 1 ELSE eventfd
Peer(i) == file[task[i].fd]

\* A wrong loop over maxfd: it goes on to the listener.
Shrunk_TooFar(f) == IF f = maxfd THEN Listener ELSE maxfd

\* The loop that is to find the new maxfd stops at its first turn, at the
\* descriptor just closed: maxfd stays.
Shrunk(f) == maxfd

\* recv() returns 0: close, and nobody waits for the descriptor any more.
Close(i) ==
  LET f == task[i].fd
  IN  /\ net' = [net EXCEPT ![file[f]].st = "gone"]
      /\ file' = [file EXCEPT ![f] = NoClient]
      /\ edge' = edge \ {file[f]}
      /\ IF i = Main
         THEN /\ watch' = watch \ {f}
              /\ maxfd' = IF prog = "epoll" THEN maxfd ELSE Shrunk(f)
              /\ task' = [task EXCEPT ![i] = Back(i)]
         ELSE task' = [task EXCEPT ![i] = Off] /\ UNCHANGED <<watch, maxfd>>
      /\ Onward(i)
      /\ UNCHANGED <<up, back, partial, ready>>

\* recv() returns k units; they are to be sent back.
Take(i) ==
  LET c == Peer(i)
      k == IF Data(c) < Buf THEN Data(c) ELSE Buf
  IN  /\ net' = [net EXCEPT ![c].got = @ + k]
      /\ task' = [task EXCEPT ![i].pc = "send",
                              ![i].buf = [j \in 1 .. k |-> <<c, net[c].got + j>>]]
      /\ partial' = IF prog = "epoll" /\ c \notin edge /\ (Data(c) > k \/ net[c].fin \/ net[c].rst # "none")
                    THEN partial \cup {c} ELSE partial
      /\ UNCHANGED <<up, file, edge, back, loopVars>>

\* recv() fails after a reset; send() then gets a length of -1, which the kernel
\* refuses (EFAULT), unless it finds the connection broken first: SIGPIPE.
Fail(i) ==
  /\ up' \in BOOLEAN
  /\ net' = [net EXCEPT ![Peer(i)].rst = "dead"]
  /\ task' = [task EXCEPT ![i] = Back(i)]
  /\ partial' = IF prog = "epoll" THEN partial \cup {Peer(i)} ELSE partial
  /\ Onward(i)
  /\ UNCHANGED <<file, edge, back, watch, ready, maxfd>>

Recv(i) ==
  /\ task[i].pc = "recv" /\ Peer(i) # NoClient
  /\ \/ Received(Peer(i)) = "data" /\ Take(i)
     \/ Received(Peer(i)) = "end" /\ Close(i)
     \/ Received(Peer(i)) = "error" /\ Fail(i)
  /\ UNCHANGED <<prog, said, queue, rude, cfd, raced>>

\* A thread whose descriptor another one has closed: recv() and send() fail with
\* EBADF, for ever or until the number is used again.
Spin(i) ==
  /\ task[i].pc \in {"recv", "send"} /\ Peer(i) = NoClient
  /\ task' = [task EXCEPT ![i] = Back(i)]
  /\ UNCHANGED <<prog, up, kernel, loopVars, cfd, raced, partial>>

Send(i) ==
  /\ task[i].pc = "send" /\ Peer(i) # NoClient
  /\ SendTo(Peer(i), task[i].buf)
  /\ task' = [task EXCEPT ![i] = Back(i)]
  /\ Onward(i)
  /\ UNCHANGED <<prog, said, queue, file, edge, rude, watch, ready, maxfd, cfd, raced, partial>>

TaskStep(i) == Start(i) \/ Recv(i) \/ Spin(i) \/ Send(i)
EchoStep == Wait \/ Accept \/ Scan \/ \E i \in Tasks : TaskStep(i)
=============================================================================
