------------------------------ MODULE TcpConn ------------------------------
(***************************************************************************)
(* The socket classes ctcpserver and ctcpclient (public.h, public.cpp):    *)
(* one object of each in a process that also opens and closes other files. *)
(* Their read() and write() are in TcpFrame.                               *)
(*                                                                         *)
(* kind[f] is what descriptor f is: "free", "other", or a socket made by   *)
(* initserver ("bound" while it does not listen, then "listen"), by        *)
(* accept ("conn") or by connect ("client").  The kernel gives out the     *)
(* smallest free descriptor.  The process is single-threaded, so a call is *)
(* one step.                                                               *)
(***************************************************************************)
EXTENDS Integers

CONSTANTS
  MaxFd,      \* the process may open descriptors 0 .. MaxFd
  Inherited   \* those open at the start ({} after closeioandsignal(true))
ASSUME TcpConnAssumption == MaxFd \in Nat /\ Inherited \subseteq 0 .. MaxFd

VARIABLES kind, m_listenfd, m_connfd, c_connfd   \* c_connfd: the client's m_connfd
connVars == <<kind, m_listenfd, m_connfd, c_connfd>>

Fds == 0 .. MaxFd
None == -1

\* The type invariant.
ConnTypeOK ==
  /\ kind \in [Fds -> {"free", "other", "bound", "listen", "conn", "client"}]
  /\ {m_listenfd, m_connfd, c_connfd} \subseteq Fds \cup {None}

ConnInit ==
  /\ kind = [f \in Fds |-> IF f \in Inherited THEN "other" ELSE "free"]
  /\ m_listenfd = None /\ m_connfd = None /\ c_connfd = None

Closed(k, f) == IF f = None THEN k ELSE [k EXCEPT ![f] = "free"]

\* The descriptor the kernel gives out next, if there is one.
Lowest(k, fd) == k[fd] = "free" /\ \A f \in Fds : k[f] = "free" => fd <= f

-----------------------------------------------------------------------------
\* The rest of the program opens and closes its own files.
OtherOpen == /\ \E fd \in Fds : /\ Lowest(kind, fd)
                                /\ kind' = [kind EXCEPT ![fd] = "other"]
             /\ UNCHANGED <<m_listenfd, m_connfd, c_connfd>>
OtherClose == /\ \E f \in Fds : kind[f] = "other" /\ kind' = Closed(kind, f)
              /\ UNCHANGED <<m_listenfd, m_connfd, c_connfd>>

\* What connect does with the socket it has.
Previous(k, fd) == Closed(k, fd)

\* ctcpclient::connect: the previous connection is closed; then socket() fails,
\* or gethostbyname or connect fails, or it succeeds.
Connect ==
  LET before == Previous(kind, c_connfd)
  IN  /\ \/ kind' = before /\ c_connfd' = None
         \/ \E fd \in Fds : /\ Lowest(before, fd)
                             /\ kind' = [before EXCEPT ![fd] = "client"]
                             /\ c_connfd' = fd
      /\ UNCHANGED <<m_listenfd, m_connfd>>

\* ctcpclient::close and ~ctcpclient.
ClientClose ==
  /\ kind' = Closed(kind, c_connfd)
  /\ c_connfd' = None
  /\ UNCHANGED <<m_listenfd, m_connfd>>

\* ctcpserver::initserver: a listening socket other than 0 is closed; then
\* socket() fails, or gives 0, which is taken for a failure and kept; or bind
\* or listen fails; or it succeeds.
Initserver ==
  LET before == IF m_listenfd > 0 THEN Closed(kind, m_listenfd) ELSE kind
  IN  /\ \/ kind' = before /\ m_listenfd' = None
         \/ \E fd \in Fds :
              /\ Lowest(before, fd)
              /\ kind' = [before EXCEPT ![fd] = IF fd = 0 THEN "bound" ELSE "listen"]
              /\ m_listenfd' = fd
      /\ UNCHANGED <<m_connfd, c_connfd>>

\* ctcpserver::accept: nothing without a listening socket; otherwise m_connfd
\* becomes what ::accept returns, -1 included, whatever it was.
Accept ==
  /\ m_listenfd # None
  /\ \/ m_connfd' = None /\ UNCHANGED kind
     \/ /\ kind[m_listenfd] = "listen"
        /\ \E fd \in Fds : /\ Lowest(kind, fd)
                            /\ kind' = [kind EXCEPT ![fd] = "conn"]
                            /\ m_connfd' = fd
  /\ UNCHANGED <<m_listenfd, c_connfd>>

Closelisten ==
  /\ kind' = Closed(kind, m_listenfd)
  /\ m_listenfd' = None
  /\ UNCHANGED <<m_connfd, c_connfd>>

\* A wrong closeclient: m_connfd keeps its value.
Closeclient_Keeps ==
  /\ kind' = Closed(kind, m_connfd)
  /\ UNCHANGED <<m_connfd, m_listenfd, c_connfd>>

Closeclient ==
  /\ kind' = Closed(kind, m_connfd)
  /\ m_connfd' = None
  /\ UNCHANGED <<m_listenfd, c_connfd>>

\* ~ctcpserver, and the next ctcpserver is constructed.
Destroy ==
  /\ kind' = Closed(Closed(kind, m_listenfd), m_connfd)
  /\ m_listenfd' = None /\ m_connfd' = None
  /\ UNCHANGED c_connfd

ConnNext ==
  \/ OtherOpen \/ OtherClose \/ Connect \/ ClientClose
  \/ Initserver \/ Accept \/ Closelisten \/ Closeclient \/ Destroy

ConnSpec == ConnInit /\ [][ConnNext]_connVars

-----------------------------------------------------------------------------
\* A handle is -1 or names a socket of its own object: descriptors are reused
\* all the time, and no close() ever hits a file of somebody else.
HandlesValid ==
  /\ m_listenfd # None => kind[m_listenfd] \in {"bound", "listen"}
  /\ m_connfd # None => kind[m_connfd] = "conn"
  /\ c_connfd # None => kind[c_connfd] = "client"

\* The client never leaks a socket, and initserver only one that got number 0.
OnlyTheseLeak ==
  \A f \in Fds :
    /\ kind[f] = "client" => f = c_connfd
    /\ kind[f] \in {"bound", "listen"} => f \in {m_listenfd, 0}

\* Handles and sockets correspond: no handle dangles, only these sockets leak.
HandlesExact == HandlesValid /\ OnlyTheseLeak

=============================================================================
