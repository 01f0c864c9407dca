--------------------------- MODULE MCEventServers ---------------------------
(***************************************************************************)
(* Values for checking EventServers with TLC.                              *)
(***************************************************************************)
EXTENDS EventServers

CONSTANTS c1, c2

TwoClients == {c1, c2}
OneClient == {c1}
TwoFiles == {"a", "b"}

\* Of the two files one exists.  A client asks for both, for one that does not exist,
\* or for something that is no GET and then for a file.
TwoScripts ==
  {[c \in TwoClients |-> IF c = c1 THEN <<"a", "b">> ELSE <<"b">>],
   [c \in TwoClients |-> IF c = c1 THEN <<"a">> ELSE <<"post", "b">>]}

\* One client sends an echo server more than the reactor's buffer holds, the other
\* as much as it holds.
Quiet == net'[c2].sent <= BufferLength
=============================================================================
