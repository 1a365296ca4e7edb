------------------------------ MODULE Sockets ------------------------------
(***************************************************************************)
(* What lies outside the server and every worker depends on: the clients,  *)
(* the kernel's TCP sockets, and the file system with the one file that is *)
(* served.  Nothing here is code of the repository; each definition states *)
(* what the code in handler.c and server.c relies on when it calls accept, *)
(* select, read, write and stat.                                           *)
(***************************************************************************)
EXTENDS Integers, Sequences, FiniteSets

CONSTANTS
  Conns,    \* TCP connections; each client opens one, at most once
  Leavers,  \* the connections whose client may close or reset its end
  SndBuf,   \* capacity of a socket's send buffer
  Sizes     \* the sizes the served file may have

ASSUME SocketsAssumption ==
  /\ Leavers \subseteq Conns
  /\ SndBuf \in Nat \ {0}
  /\ Sizes \subseteq Nat
  /\ Sizes # {}

VARIABLES
  sock,    \* sock[c]: the server's end of the connection
  peer,    \* peer[c]: the client's end, "fin" after a close, "rst" after a reset
  rx,      \* rx[c]: the request in the receive buffer; "part" has no '\r' yet
  sndq,    \* sndq[c]: amount of data waiting in the send buffer
  fsize,   \* current size of the served file
  edited   \* edited[c]: the file changed after c's handler called stat

sockVars == <<sock, peer, rx, sndq, fsize, edited>>

SocketsTypeOK ==
  /\ sock \in [Conns -> {"idle", "backlog", "open", "closed"}]
  /\ peer \in [Conns -> {"up", "fin", "rst"}]
  /\ rx \in [Conns -> {"empty", "part", "whole", "taken"}]
  /\ sndq \in [Conns -> 0..SndBuf]
  /\ fsize \in Sizes
  /\ edited \in [Conns -> BOOLEAN]

SocketsInit ==
  /\ sock = [c \in Conns |-> "idle"]
  /\ peer = [c \in Conns |-> "up"]
  /\ rx = [c \in Conns |-> "empty"]
  /\ sndq = [c \in Conns |-> 0]
  /\ fsize \in Sizes
  /\ edited = [c \in Conns |-> FALSE]

-----------------------------------------------------------------------------
\* What select and accept see.

Backlog == {c \in Conns : sock[c] = "backlog"}

HasRequest(c) == rx[c] \in {"part", "whole"}

\* End of file and errors make a socket readable too.
Readable(c) == HasRequest(c) \/ peer[c] # "up"

\* A socket with a pending error is writable: the write reports the error.
Writable(c) == sndq[c] < SndBuf \/ peer[c] = "rst"

Smaller(m, n) == IF m <= n THEN m ELSE n

\* How much of n units a non-blocking write takes; 0 stands for EAGAIN.
Accepted(c, n) == Smaller(n, SndBuf - sndq[c])

-----------------------------------------------------------------------------
\* The clients.

Attached(c) == sock[c] \in {"backlog", "open"}

Connect(c) ==
  /\ sock[c] = "idle"
  /\ sock' = [sock EXCEPT ![c] = "backlog"]
  /\ UNCHANGED <<peer, rx, sndq, fsize, edited>>

\* The request arrives in one segment, or its first line in two.
SendRequest(c) ==
  /\ Attached(c) /\ peer[c] = "up"
  /\ \/ rx[c] = "empty" /\ rx' \in {[rx EXCEPT ![c] = s] : s \in {"part", "whole"}}
     \/ rx[c] = "part"  /\ rx' = [rx EXCEPT ![c] = "whole"]
  /\ UNCHANGED <<sock, peer, sndq, fsize, edited>>

\* The client receives one unit of the response.
Drain(c) ==
  /\ sock[c] = "open" /\ peer[c] # "rst" /\ sndq[c] > 0
  /\ sndq' = [sndq EXCEPT ![c] = @ - 1]
  /\ UNCHANGED <<sock, peer, rx, fsize, edited>>

\* The client closes its end; a reset may follow, or come at once.
Leave(c) ==
  /\ c \in Leavers /\ Attached(c)
  /\ \/ peer[c] = "up" /\ peer' = [peer EXCEPT ![c] = "fin"]
     \/ peer[c] # "rst" /\ peer' = [peer EXCEPT ![c] = "rst"]
  /\ UNCHANGED <<sock, rx, sndq, fsize, edited>>

\* Somebody truncates or extends the file.
EditFile ==
  /\ \E n \in Sizes \ {fsize} : fsize' = n
  /\ edited' = [c \in Conns |-> TRUE]
  /\ UNCHANGED <<sock, peer, rx, sndq>>
=============================================================================
