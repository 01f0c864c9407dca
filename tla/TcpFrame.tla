------------------------------ MODULE TcpFrame ------------------------------
(***************************************************************************)
(* Messages over a TCP connection: tcpwrite, tcpread, writen and readn     *)
(* (public.cpp), one direction of one connection.  A text message is sent  *)
(* as a header with its length and then its body, a binary one as its body *)
(* alone; the two ends agree on what comes next (Script).                  *)
(*                                                                         *)
(* A byte is <<n, i>>, byte i of frame n.  send and recv move one byte per *)
(* step: a call that moves several is several steps with nobody between.   *)
(* wire is what the kernels hold; link is "up", "half" when the writer has *)
(* closed or died, "broken" after a reset, which loses the wire.           *)
(* wn frames have been started and wleft is what is left of the last one.  *)
(*                                                                         *)
(* rpc is the reader's place: "idle", "poll" in tcpread's poll, "head" and *)
(* "body" in its calls of readn (rgot is what readn has, rneed its n).      *)
(* got is what the reads that returned true have returned.                 *)
(* recv() and send() are not interrupted: handlers set with signal(), the  *)
(* only ones of the repository, restart them.                              *)
(***************************************************************************)
EXTENDS Naturals, Sequences

CONSTANTS
  Script,     \* the messages exchanged, records [kind, len]: "text" of any
              \* length, "bin" of a length above 0
  HeadLen,    \* bytes of the header (4 in the code)
  BufSize,    \* bytes the kernels hold
  Breaks      \* TRUE if the connection may be closed or reset

\* The two ends can take part: every frame has a first byte.
ASSUME FrameAssumption ==
  /\ Script \in Seq([kind : {"text", "bin"}, len : Nat])
  /\ \A n \in DOMAIN Script : Script[n].kind = "bin" => Script[n].len > 0
  /\ HeadLen \in Nat \ {0} /\ BufSize \in Nat

VARIABLES wire, link, wn, wleft, rpc, rgot, rneed, got

frameVars == <<wire, link, wn, wleft, rpc, rgot, rneed, got>>
writer == <<wn, wleft>>
reader == <<rpc, rgot, rneed, got>>

HeadOf(n) == IF Script[n].kind = "text" THEN HeadLen ELSE 0
Frame(n) == [i \in 1 .. HeadOf(n) + Script[n].len |-> <<n, i>>]
Body(n) == [i \in 1 .. Script[n].len |-> <<n, HeadOf(n) + i>>]
Lens == {Script[n].len : n \in DOMAIN Script}
Byte == UNION {{Frame(n)[i] : i \in DOMAIN Frame(n)} : n \in DOMAIN Script}

\* The type invariant.
FrameTypeOK ==
  /\ wire \in Seq(Byte) /\ Len(wire) <= BufSize
  /\ link \in {"up", "half", "broken"}
  /\ wn \in 0 .. Len(Script)
  /\ wleft \in Seq(Byte)
  /\ rpc \in {"idle", "poll", "head", "body"}
  /\ rneed \in {0, HeadLen} \cup Lens
  /\ rgot \in Seq(Byte) /\ Len(rgot) <= rneed
  /\ got \in Seq(Seq(Byte))

FrameInit ==
  /\ wire = <<>> /\ link = "up"
  /\ wn = 0 /\ wleft = <<>>
  /\ rpc = "idle" /\ rgot = <<>> /\ rneed = 0
  /\ got = <<>>

-----------------------------------------------------------------------------
\* What tcpwrite sends for message n, header first.
Sent(n) == Frame(n)

\* tcpwrite is called for the next message.
Tcpwrite ==
  /\ wn < Len(Script) /\ wleft = <<>> /\ link # "half"
  /\ wn' = wn + 1
  /\ wleft' = Sent(wn + 1)
  /\ UNCHANGED <<wire, link, reader>>

\* writen: send() takes what there is room for, else it blocks.
Send ==
  /\ wleft # <<>> /\ link = "up" /\ Len(wire) < BufSize
  /\ wire' = Append(wire, Head(wleft))
  /\ wleft' = Tail(wleft)
  /\ UNCHANGED <<link, wn, reader>>

\* writen: send() fails on a broken connection (SIGPIPE is ignored).
SendFails ==
  /\ wleft # <<>> /\ link = "broken"
  /\ wleft' = <<>>
  /\ UNCHANGED <<wire, link, wn, reader>>

\* The writer closes or dies, perhaps inside tcpwrite; or the connection breaks.
Close == /\ Breaks /\ link = "up"
         /\ link' = "half"
         /\ UNCHANGED <<wire, writer, reader>>
Break == /\ Breaks /\ link # "broken"
         /\ link' = "broken"
         /\ wire' = <<>>
         /\ UNCHANGED <<writer, reader>>

\* poll(POLLIN) reports the socket.
Readable == wire # <<>> \/ link # "up"

Next1 == Script[Len(got) + 1]      \* the message the reader expects

\* tcpread's first call of readn: the header, or the body of a binary message.
StartRead ==
  /\ rpc' = IF Next1.kind = "text" THEN "head" ELSE "body"
  /\ rneed' = IF Next1.kind = "text" THEN HeadLen ELSE Next1.len

\* tcpread is called with itimeout 0, or with -1 or a number of seconds.
Tcpread ==
  /\ rpc = "idle" /\ Len(got) < Len(Script)
  /\ \/ StartRead
     \/ rpc' = "poll" /\ UNCHANGED rneed
  /\ UNCHANGED <<wire, link, writer, rgot, got>>

\* poll: the socket is reported, or the time is up and tcpread returns false.
Poll ==
  /\ rpc = "poll"
  /\ \/ Readable /\ StartRead
     \/ ~Readable /\ rpc' = "idle" /\ UNCHANGED rneed
  /\ UNCHANGED <<wire, link, writer, rgot, got>>

\* A wrong readn: it calls recv() once instead of until it has n bytes.
More_Once == rgot = <<>> /\ rneed > 0

\* A wrong readn: it stops one byte too late.
More_TooLong == Len(rgot) <= rneed

\* readn: nleft > 0.
More == Len(rgot) < rneed

\* readn: recv() takes what there is, else it blocks.
Recv ==
  /\ rpc \in {"head", "body"} /\ More /\ wire # <<>>
  /\ rgot' = Append(rgot, Head(wire))
  /\ wire' = Tail(wire)
  /\ UNCHANGED <<link, writer, rpc, rneed, got>>

EndRead == rpc' = "idle" /\ rgot' = <<>> /\ rneed' = 0

\* readn: recv() returns 0 or -1, the connection is over; tcpread returns false.
RecvFails ==
  /\ rpc \in {"head", "body"} /\ More /\ wire = <<>> /\ link # "up"
  /\ EndRead
  /\ UNCHANGED <<wire, link, writer, got>>

\* The length that HeadLen bytes are read as: that of message n if they are its
\* header, otherwise any.
Lengths(bytes) ==
  {l \in Lens : \A n \in DOMAIN Script :
     Script[n].kind = "text" /\ bytes = SubSeq(Frame(n), 1, HeadLen)
       => l = Script[n].len}

\* tcpread has the header: resize, and the second call of readn.
HeadDone ==
  /\ rpc = "head" /\ ~More
  /\ rneed' \in Lengths(rgot)
  /\ rpc' = "body" /\ rgot' = <<>>
  /\ UNCHANGED <<wire, link, writer, got>>

\* tcpread returns true.
BodyDone ==
  /\ rpc = "body" /\ ~More
  /\ got' = Append(got, rgot)
  /\ EndRead
  /\ UNCHANGED <<wire, link, writer>>

Writing == Tcpwrite \/ Send \/ SendFails
Read == Tcpread \/ Poll \/ Recv \/ RecvFails \/ HeadDone \/ BodyDone
FrameNext == Writing \/ Read \/ Close \/ Break

(***************************************************************************)
(* Fairness: both ends keep writing and reading until the script is done.  *)
(***************************************************************************)
FrameSpec == FrameInit /\ [][FrameNext]_frameVars
FrameFairSpec == FrameSpec /\ WF_frameVars(Read) /\ WF_frameVars(Writing)

-----------------------------------------------------------------------------
\* The messages read so far are the first messages sent.
Whole == \A n \in DOMAIN got : got[n] = Body(n)

\* Between reads the next byte in the stream is the first of the next frame.
InStep ==
  rpc \in {"idle", "poll"} /\ wire # <<>> => Head(wire) = <<Len(got) + 1, 1>>

\* A message read is the message sent, whole and in its turn, however sends and
\* receives are split and wherever the connection ended; and after every read that has
\* returned, with a message or with a timeout, the stream is at a frame's first byte,
\* so that a read that timed out can be repeated.
Delivered == Whole /\ InStep

\* Everything sent is read in the end, unless the connection goes down: neither
\* side waits for a byte the other has no reason to send.
AllDelivered == <>(Len(got) = Len(Script) \/ link # "up")
=============================================================================
