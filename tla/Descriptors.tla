---------------------------- MODULE Descriptors ----------------------------
(***************************************************************************)
(* server.c, conn_loop, once more: this time with the numbers that accept, *)
(* open and close give and take, and with the sets of bits that select     *)
(* reads and writes.  The kernel hands out the lowest free number, so one  *)
(* that was closed names something else soon afterwards.  What a handler   *)
(* decides is left open here; module Handler has the reasons.  The ends of *)
(* the process, by a select or an accept that fails among others, are left *)
(* out: the kernel closes everything (module Worker has them).  So is what *)
(* a build without assertions does at server.c:211; see WorkerProps.  A    *)
(* set holds any number: the width of an fd_set is not modelled.           *)
(***************************************************************************)
EXTENDS Integers, Sequences, FiniteSetsExt

CONSTANTS
  Conns,  \* records of type struct active_connection
  NumFds  \* descriptors have the numbers 0 .. NumFds - 1 (RLIMIT_NOFILE)

ASSUME DescriptorsAssumption == NumFds \in Nat /\ NumFds >= 4

VARIABLES
  open,         \* open[n]: what the number n names, <<>> if nothing
  young,        \* history: the numbers given out since select has returned
  state, sock_fd, file_fd,  \* struct active_connection
  active_conns, new_conns,  \* what the round has still to visit, and has built
  read_fset, write_fset, max_fd,
  pc

connVars == <<state, sock_fd, file_fd>>
listVars == <<active_conns, new_conns>>
setVars  == <<read_fset, write_fset, max_fd>>
vars     == <<open, young, connVars, listVars, setVars, pc>>

Numbers == 0..(NumFds - 1)
Listen  == 3   \* master->sock_fd, behind the three standard descriptors
Members(s) == {s[k] : k \in DOMAIN s}
Cur == Head(active_conns)

Init ==
  /\ open = [n \in Numbers |-> IF n < Listen THEN <<"std">>
                               ELSE IF n = Listen THEN <<"listen">> ELSE <<>>]
  /\ young = {}
  /\ state = [c \in Conns |-> "free"]
  /\ sock_fd = [c \in Conns |-> -1] /\ file_fd = [c \in Conns |-> -1]
  /\ active_conns = <<>> /\ new_conns = <<>>
  /\ read_fset = {} /\ write_fset = {} /\ max_fd = 0
  /\ pc = "build"

FreeNumbers == {n \in Numbers : open[n] = <<>>}
Lowest == Min(FreeNumbers)

-----------------------------------------------------------------------------
SocketsOf(s) == {sock_fd[c] : c \in {d \in Members(active_conns) : state[d] = s}}

\* Mutant: only the descriptors to be read count.
MaxRead == Max({Listen} \cup SocketsOf("CONN_WAITING"))

MaxFd == Max({Listen} \cup SocketsOf("CONN_WAITING") \cup SocketsOf("CONN_SENDING"))

BuildSets ==
  /\ pc = "build"
  /\ read_fset' = {Listen} \cup SocketsOf("CONN_WAITING")
  /\ write_fset' = SocketsOf("CONN_SENDING")
  /\ max_fd' = MaxFd
  /\ pc' = "select"
  /\ UNCHANGED <<open, young, connVars, listVars>>

\* Bits above max_fd are not looked at, and stay as they are.
Select ==
  /\ pc = "select"
  /\ \E R \in SUBSET read_fset, W \in SUBSET write_fset :
       /\ R \cup W # {}
       /\ {n \in read_fset : n > max_fd} \subseteq R
       /\ {n \in write_fset : n > max_fd} \subseteq W
       /\ read_fset' = R /\ write_fset' = W
       /\ pc' = IF Listen \in R THEN "accept" ELSE "each"
  /\ young' = {}
  /\ UNCHANGED <<open, connVars, listVars, max_fd>>

SelectInterrupted == pc = "select" /\ pc' = "build" /\ UNCHANGED <<open, young, connVars, listVars, setVars>>

NewConn(c) ==
  /\ state[c] = "free"
  /\ open' = [open EXCEPT ![Lowest] = <<"sock", c>>]
  /\ young' = young \cup {Lowest}
  /\ state' = [state EXCEPT ![c] = "CONN_WAITING"]
  /\ sock_fd' = [sock_fd EXCEPT ![c] = Lowest]

\* Mutants: file_fd keeps the 0 of memset; the connection joins the running round.
NoFileZero(c) == file_fd' = [file_fd EXCEPT ![c] = 0]
JoinRound(c) == active_conns' = Append(active_conns, c) /\ UNCHANGED new_conns

NoFile(c) == file_fd' = [file_fd EXCEPT ![c] = -1]
JoinNext(c) == new_conns' = Append(new_conns, c) /\ UNCHANGED active_conns

Accept ==
  /\ pc = "accept" /\ FreeNumbers # {}
  /\ \E c \in Conns : NewConn(c) /\ NoFile(c) /\ JoinNext(c)
  /\ pc' = "each"
  /\ UNCHANGED setVars

AcceptAgain == pc = "accept" /\ pc' = "each" /\ UNCHANGED <<open, young, connVars, listVars, setVars>>

-----------------------------------------------------------------------------
IsSet(c) ==
  sock_fd[c] \in IF state[c] = "CONN_WAITING" THEN read_fset ELSE write_fset

Keep ==
  /\ new_conns' = Append(new_conns, Cur)
  /\ active_conns' = Tail(active_conns)

NotReady ==
  /\ pc = "each" /\ active_conns # <<>> /\ ~IsSet(Cur)
  /\ Keep
  /\ UNCHANGED <<open, young, connVars, setVars, pc>>

\* A waiting connection is answered without a file, or with one it opens.
Request ==
  /\ pc = "each" /\ active_conns # <<>> /\ IsSet(Cur) /\ state[Cur] = "CONN_WAITING"
  /\ \/ /\ state' = [state EXCEPT ![Cur] = "CONN_COMPLETE"]
        /\ UNCHANGED <<open, young, file_fd>>
     \/ /\ FreeNumbers # {}
        /\ open' = [open EXCEPT ![Lowest] = <<"file", Cur>>]
        /\ young' = young \cup {Lowest}
        /\ file_fd' = [file_fd EXCEPT ![Cur] = Lowest]
        /\ \E s \in {"CONN_SENDING", "CONN_COMPLETE"} : state' = [state EXCEPT ![Cur] = s]
  /\ pc' = "settle"
  /\ UNCHANGED <<sock_fd, listVars, setVars>>

Write ==
  /\ pc = "each" /\ active_conns # <<>> /\ IsSet(Cur) /\ state[Cur] = "CONN_SENDING"
  /\ \E s \in {"CONN_SENDING", "CONN_COMPLETE"} : state' = [state EXCEPT ![Cur] = s]
  /\ pc' = "settle"
  /\ UNCHANGED <<open, young, sock_fd, file_fd, listVars, setVars>>

StillSending ==
  /\ pc = "settle" /\ state[Cur] = "CONN_SENDING"
  /\ Keep
  /\ pc' = "each"
  /\ UNCHANGED <<open, young, connVars, setVars>>

\* The label complete; CONN_COMPLETE stands for the errors, too.
Complete ==
  LET c == Cur IN
  /\ pc = "settle" /\ state[c] = "CONN_COMPLETE"
  /\ open' = [n \in Numbers |-> IF n \in {file_fd[c], sock_fd[c]} THEN <<>> ELSE open[n]]
  /\ state' = [state EXCEPT ![c] = "free"]
  /\ sock_fd' = [sock_fd EXCEPT ![c] = -1] /\ file_fd' = [file_fd EXCEPT ![c] = -1]
  /\ active_conns' = Tail(active_conns)
  /\ pc' = "each"
  /\ UNCHANGED <<young, new_conns, setVars>>

EndRound ==
  /\ pc = "each" /\ active_conns = <<>>
  /\ active_conns' = new_conns /\ new_conns' = <<>>
  /\ pc' = "build"
  /\ UNCHANGED <<open, young, connVars, setVars>>

Next ==
  \/ BuildSets \/ Select \/ SelectInterrupted \/ Accept \/ AcceptAgain
  \/ NotReady \/ Request \/ Write \/ StillSending \/ Complete \/ EndRound

Spec == Init /\ [][Next]_vars

-----------------------------------------------------------------------------
Listed == Members(active_conns) \cup Members(new_conns)

\* A number in a record names what the record thinks it names, and every number
\* beyond the first four is in one record: no close hits a descriptor that was
\* closed before and has got its number again, and none is forgotten.
NumbersOwned ==
  /\ \A c \in Listed :
       /\ open[sock_fd[c]] = <<"sock", c>>
       /\ file_fd[c] # -1 => open[file_fd[c]] = <<"file", c>>
  /\ \A n \in Numbers :
       open[n] # <<>> =>
         n <= Listen \/ \E c \in Listed : n \in {sock_fd[c], file_fd[c]}

\* select is asked about every connection, about each in the set the loop will
\* look at, and about nothing else; and no number in the sets is above max_fd.
SetsComplete ==
  pc = "select" =>
    /\ \A c \in Members(active_conns) : IsSet(c) /\ sock_fd[c] <= max_fd
    /\ read_fset \cup write_fset =
         {Listen} \cup {sock_fd[c] : c \in Members(active_conns)}
    /\ read_fset \cap write_fset = {}

\* The bit that is tested for a connection is about its socket, although numbers
\* are closed, and given out again, between select and the test.
BitsFresh == pc = "each" /\ active_conns # <<>> => sock_fd[Cur] \notin young
=============================================================================
