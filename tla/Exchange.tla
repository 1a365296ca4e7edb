------------------------------ MODULE Exchange ------------------------------
(***************************************************************************)
(* What the server promises to its clients, without its processes, event   *)
(* loop, buffers and descriptors: a connection is taken by one worker, is  *)
(* answered at most once, gets the file's bytes in their order and only    *)
(* after an answer that announces them, and is closed unanswered only if   *)
(* its client is gone, its worker crashes, or the start of the server      *)
(* fails while nobody is served.  A crash closes everything the worker     *)
(* served, and nothing that another worker serves.  Module Worker          *)
(* implements it for a port that is bound (WorkerProps, KeepsPromise), and *)
(* module Server from its first step on (ServerProps, ServesAsPromised).   *)
(***************************************************************************)
EXTENDS Integers, Sequences, FiniteSets

CONSTANTS
  Conns,    \* the connections
  Workers,  \* the processes that serve them
  NULL,     \* no process
  Piece     \* the most bytes of the file that go out in one step

VARIABLES
  port,    \* "unbound", "bound", or "gone" when the start has failed
  phase,   \* phase[c]: "outside", "queued", "served" or "closed"
  gone,    \* the connections whose client has left
  server,  \* server[c]: the worker that has taken c, or NULL
  reply,   \* reply[c]: the answers c has got; one at most
  body     \* body[c]: the bytes of the file c has got; byte i is i

vars == <<port, phase, gone, server, reply, body>>

Init ==
  /\ port \in {"unbound", "bound"}
  /\ phase = [c \in Conns |-> "outside"]
  /\ gone = {}
  /\ server = [c \in Conns |-> NULL]
  /\ reply = [c \in Conns |-> <<>>]
  /\ body = [c \in Conns |-> <<>>]

Bind ==
  /\ port = "unbound" /\ port' = "bound"
  /\ UNCHANGED <<phase, gone, server, reply, body>>

\* Whoever is in the queue is turned away; but nobody is who is being served.
Refuse ==
  /\ port # "gone" /\ port' = "gone"
  /\ \A c \in Conns : phase[c] # "served"
  /\ phase' = [c \in Conns |-> IF phase[c] = "queued" THEN "closed" ELSE phase[c]]
  /\ UNCHANGED <<gone, server, reply, body>>

Arrive(c) ==
  /\ port = "bound"
  /\ phase[c] = "outside" /\ phase' = [phase EXCEPT ![c] = "queued"]
  /\ UNCHANGED <<port, gone, server, reply, body>>

GoAway(c) ==
  /\ phase[c] \in {"queued", "served"} /\ gone' = gone \cup {c}
  /\ UNCHANGED <<port, phase, server, reply, body>>

Take(c) ==
  /\ phase[c] = "queued" /\ phase' = [phase EXCEPT ![c] = "served"]
  /\ \E w \in Workers : server' = [server EXCEPT ![c] = w]
  /\ UNCHANGED <<port, gone, reply, body>>

\* An error, the head of the file's answer alone, or the file to follow.
Answer(c) ==
  /\ phase[c] = "served" /\ reply[c] = <<>>
  /\ \E kind \in {"error", "head", "file"} : reply' = [reply EXCEPT ![c] = <<kind>>]
  /\ UNCHANGED <<port, phase, gone, server, body>>

Deliver(c) ==
  /\ phase[c] = "served" /\ reply[c] = <<"file">>
  /\ \E n \in 1..Piece : body' = [body EXCEPT ![c] = @ \o [k \in 1..n |-> Len(@) + k]]
  /\ UNCHANGED <<port, phase, gone, server, reply>>

Finish(c) ==
  /\ phase[c] = "served" /\ (reply[c] # <<>> \/ c \in gone)
  /\ phase' = [phase EXCEPT ![c] = "closed"]
  /\ UNCHANGED <<port, gone, server, reply, body>>

\* A client that has left may take a queued connection along.
Crash(w) ==
  /\ \E lost \in {{}} \cup {{c} : c \in gone} :
       /\ \A c \in lost : phase[c] = "queued"
       /\ phase' = [c \in Conns |->
                      IF c \in lost \/ (phase[c] = "served" /\ server[c] = w)
                        THEN "closed" ELSE phase[c]]
  /\ UNCHANGED <<port, gone, server, reply, body>>

Next ==
  \/ Bind \/ Refuse
  \/ \E c \in Conns : \/ Arrive(c) \/ GoAway(c) \/ Take(c)
                      \/ Answer(c) \/ Deliver(c) \/ Finish(c)
  \/ \E w \in Workers : Crash(w)

Spec == Init /\ [][Next]_vars
=============================================================================
