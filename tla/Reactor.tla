------------------------------ MODULE Reactor ------------------------------
(***************************************************************************)
(* The single-threaded reactor of reactor_single_thread.cpp, which echoes, *)
(* and of http.cpp, which serves files: a loop over epoll's level-         *)
(* triggered events that calls conn->cb of each descriptor. recv_cb reads  *)
(* and switches the descriptor to EPOLLOUT and send_cb, which answers and  *)
(* switches back.                                                          *)
(*                                                                         *)
(* rpc is what main does: "loop" over the events evs, and wait when there  *)
(* are none left, or "body", in the second half of http.cpp's send_cb on   *)
(* descriptor rfd. conn[f] is the connect_t of descriptor f, which the     *)
(* next connection on f uses again: cb; rbuf, the receive buffer, and rc   *)
(* (reactor); res, the file the last GET named, hdr, the header in wbuffer *)
(* (NoHdr: wc is 0), and flag, enable_sendfile (http). wbuffer of the      *)
(* reactor is the first rc units of rbuf, which does not change before it  *)
(* is sent; once rc exceeds BufferLength nothing more is modelled (up is   *)
(* FALSE). size[n] is the size of file n, 0 if there is none; moves        *)
(* counts the changes to files. History variables: ask, the request        *)
(* conn[f] is answering, was, the size of its file then, and still, that   *)
(* has not changed since; spun, a send_cb did not switch back. An answer   *)
(* of http.cpp has body -1 as long as only its header has been sent.       *)
(***************************************************************************)
EXTENDS SocketKernel

CONSTANTS
  BufferLength,     \* BUFFER_LENGTH of the reactor, in units
  MaxMoves,         \* bound: changes to the files
  MaxSize           \* bound: the size of a file

ASSUME ReactorAssumption ==
  /\ BufferLength \in Nat \ {0} /\ "none" \notin Names
  /\ MaxMoves \in Nat /\ MaxSize \in Nat \ {0}

VARIABLES rpc, evs, rfd, conn, size, moves, spun

reactorVars == <<rpc, evs, rfd, conn, size, moves, spun>>

React == prog \in {"reactor", "http"}
None == "none"
Blank == <<NoClient, 0>>
Buffer == 1 .. BufferLength
NoHdr == [name |-> None, len |-> 0]

Connect_t ==
  [cb : {None, "recv", "send"}, rbuf : [Buffer -> (Clients \X (1 .. MaxSend)) \cup {Blank}],
   rc : -1 .. MaxSend, res : Names \cup {None},
   hdr : [name : Names \cup {None}, len : 0 .. MaxSize], flag : BOOLEAN,
   ask : Names \cup {None, "post"}, was : 0 .. MaxSize, still : BOOLEAN]
ReactorTypeOK ==
  /\ rpc \in {"loop", "body"} /\ evs \subseteq Fds \cup {Listener} /\ rfd \in Fds \cup {Listener}
  /\ conn \in [Fds -> Connect_t]
  /\ size \in [Names -> 0 .. MaxSize] /\ moves \in 0 .. MaxMoves
  /\ spun \in BOOLEAN

\* The first block of connect_t is so large that malloc takes it fresh from the
\* system: it is zero.
ReactorInit ==
  /\ rpc = "loop" /\ evs = {} /\ rfd = Listener
  /\ conn = [f \in Fds |-> [cb |-> None, rbuf |-> [i \in Buffer |-> Blank], rc |-> 0,
                            res |-> None, hdr |-> NoHdr, flag |-> FALSE,
                            ask |-> None, was |-> 0, still |-> TRUE]]
  /\ size = [x \in Names |-> IF x = CHOOSE y \in Names : TRUE THEN 1 ELSE 0]
  /\ moves = 0 /\ spun = FALSE

-----------------------------------------------------------------------------
\* epoll_wait: EPOLLIN is asked for before recv_cb, EPOLLOUT before send_cb.
Asked(f) ==
  /\ file[f] # NoClient
  /\ IF conn[f].cb = "recv" THEN Readable(file[f]) ELSE Writable(file[f])
Events == {f \in Fds : Asked(f)} \cup IF queue = <<>> THEN {} ELSE {Listener}

EpollWait ==
  /\ React /\ rpc = "loop" /\ evs = {}
  /\ Events # {}
  /\ evs' = Events
  /\ UNCHANGED <<prog, up, kernel, rpc, rfd, conn, size, moves, spun>>

\* accept_cb; rc, wc, the buffers and resource keep what they hold.
Accept_cb == \E f \in Fds :
  /\ rpc = "loop" /\ Listener \in evs
  /\ evs' = evs \ {Listener}
  /\ conn' = [conn EXCEPT ![f].cb = "recv"]
  /\ AcceptOne(f)
  /\ UNCHANGED <<prog, up, said, edge, back, rude, rpc, rfd, size, moves, spun>>

Called(f, cb) ==
  /\ rpc = "loop" /\ f \in evs /\ conn[f].cb = cb
  /\ evs' = evs \ {f}

\* A wrong recv_cb: the lengths are kept when the connection ends.
Disconnect_Keeps(f) ==
  /\ conn' = conn
  /\ net' = [net EXCEPT ![file[f]].st = "gone"]
  /\ file' = [file EXCEPT ![f] = NoClient]

\* Another: the end is taken for a message of length 0.
Disconnect_Ignored(f) ==
  /\ conn' = [conn EXCEPT ![f].cb = "send"]
  /\ UNCHANGED <<net, file>>

\* recv_cb: recv() returned 0.
Disconnect(f) ==
  /\ conn' = [conn EXCEPT ![f].rc = 0, ![f].hdr = NoHdr]
  /\ net' = [net EXCEPT ![file[f]].st = "gone"]
  /\ file' = [file EXCEPT ![f] = NoClient]

\* recv_cb of the reactor: up to BufferLength units are put at the start of
\* rbuffer, whatever it holds, and rc grows by their number; wbuffer is rbuffer up
\* to rc.  If that does not fit, memcpy overwrites the next connect_t, its cb among
\* the rest: the server dies of it, or runs on with what has become of that.
Taken(c) == IF Data(c) < BufferLength THEN Data(c) ELSE BufferLength
Fill(f) ==
  LET c == file[f]
      k == Taken(c)
  IN  /\ net' = [net EXCEPT ![c].got = @ + k]
      /\ up' = (conn[f].rc + k <= BufferLength)
      /\ conn' = [conn EXCEPT
           ![f].cb = "send", ![f].rc = @ + k,
           ![f].rbuf = [i \in Buffer |-> IF i <= k THEN <<c, net[c].got + i>> ELSE @[i]]]

\* recv_cb of http.cpp: http_request looks at the first request in the buffer
\* only.  A GET names the file; anything else leaves resource alone.
Request(f) ==
  LET c == file[f]
      r == said[c][net[c].got + 1]
  IN  /\ net' = [net EXCEPT ![c].got = net[c].sent]
      /\ up' = up
      /\ conn' = [conn EXCEPT ![f].cb = "send", ![f].res = IF r = "post" THEN @ ELSE r,
                              ![f].ask = r, ![f].was = IF r = "post" THEN 0 ELSE size[r],
                              ![f].still = TRUE]

\* recv() fails.  The reactor goes on with a length of -1: rc falls by 1, and
\* memcpy of a negative length ends the process; http.cpp does nothing.
RecvError(f) ==
  /\ net' = [net EXCEPT ![file[f]].rst = "dead"]
  /\ IF prog = "http" THEN UNCHANGED <<up, conn>>
     ELSE /\ up' = (conn[f].rc > 0)
          /\ conn' = [conn EXCEPT ![f].cb = "send", ![f].rc = @ - 1]

Recv_cb(f) ==
  /\ Called(f, "recv")
  /\ \/ Received(file[f]) = "data" /\ (IF prog = "http" THEN Request(f) ELSE Fill(f))
        /\ UNCHANGED file
     \/ Received(file[f]) = "end" /\ Disconnect(f) /\ UNCHANGED up
     \/ Received(file[f]) = "error" /\ RecvError(f) /\ UNCHANGED file
  /\ UNCHANGED <<prog, said, queue, edge, back, rude, rpc, rfd, size, moves, spun>>

\* send_cb of the reactor.  rc is not reset.
Send_cb(f) ==
  /\ prog = "reactor" /\ Called(f, "send")
  /\ SendTo(file[f], [i \in 1 .. conn[f].rc |-> conn[f].rbuf[i]])
  /\ conn' = [conn EXCEPT ![f].cb = "recv"]
  /\ UNCHANGED <<prog, said, queue, file, edge, rude, rpc, rfd, size, moves, spun>>

\* http_response: the header of the file, if it can be opened; otherwise the
\* buffer, and its length, are left as they are.
Response(f) ==
  IF conn[f].res = None \/ size[conn[f].res] = 0 THEN conn[f]
  ELSE [conn[f] EXCEPT !.hdr = [name |-> conn[f].res, len |-> size[conn[f].res]], !.flag = TRUE]

\* send_cb of http.cpp: http_response and send() of the header (recorded once if
\* it is sent again because the file was missing) ...
Reads(x) == [x EXCEPT !.cb = "recv", !.ask = None, !.was = 0, !.still = TRUE]
Answer(f, h) ==
  IF h = NoHdr \/ conn[f].flag THEN <<>>
  ELSE <<[ask |-> conn[f].ask, was |-> conn[f].was, still |-> conn[f].still,
          name |-> h.name, len |-> h.len, body |-> -1]>>
SendHeader(f) ==
  /\ prog = "http" /\ Called(f, "send")
  /\ LET x == Response(f)
     IN  /\ SendTo(file[f], Answer(f, x.hdr))
         /\ conn' = [conn EXCEPT ![f] = IF x.flag THEN x ELSE Reads(x)]
         /\ rpc' = IF x.flag THEN "body" ELSE "loop"
         /\ rfd' = IF x.flag THEN f ELSE Listener
  /\ UNCHANGED <<prog, said, queue, file, edge, rude, size, moves, spun>>

\* ... and the file itself, opened once more.  If that fails send_cb returns
\* without switching back to recv_cb.  A broken connection raises SIGPIPE.
BodySent(c) ==
  IF back[c] = <<>> \/ net[c].rst # "none" THEN back[c]
  ELSE [back[c] EXCEPT ![Len(back[c])].body = size[conn[rfd].res],
                       ![Len(back[c])].still = conn[rfd].still]
SendBody ==
  /\ rpc = "body"
  /\ IF size[conn[rfd].res] = 0
     THEN spun' = TRUE /\ UNCHANGED <<up, net, back, conn>>
     ELSE /\ Writable(file[rfd])
          /\ IF Broken(file[rfd]) THEN up' = FALSE /\ UNCHANGED <<net, back>>
             ELSE /\ up' = up
                  /\ \E y \in AfterSend(file[rfd]) : net' = [net EXCEPT ![file[rfd]] = y]
                  /\ back' = [back EXCEPT ![file[rfd]] = BodySent(file[rfd])]
          /\ conn' = [conn EXCEPT ![rfd] = [Reads(@) EXCEPT !.flag = FALSE]]
          /\ spun' = spun
  /\ rpc' = "loop" /\ rfd' = Listener
  /\ UNCHANGED <<prog, said, queue, file, edge, rude, evs, size, moves>>

\* Somebody creates, removes or rewrites a file.
FileChange(x) ==
  /\ prog = "http" /\ moves < MaxMoves
  /\ moves' = moves + 1
  /\ \E s \in (0 .. MaxSize) \ {size[x]} : size' = [size EXCEPT ![x] = s]
  /\ conn' = [f \in Fds |-> IF conn[f].ask = x THEN [conn[f] EXCEPT !.still = FALSE] ELSE conn[f]]
  /\ UNCHANGED <<prog, up, kernel, rpc, evs, rfd, spun>>

ReactorStep ==
  \/ EpollWait \/ Accept_cb \/ SendBody
  \/ \E f \in Fds : Recv_cb(f) \/ Send_cb(f) \/ SendHeader(f)
=============================================================================
