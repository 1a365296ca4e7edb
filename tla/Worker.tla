------------------------------- MODULE Worker -------------------------------
(***************************************************************************)
(* server.c, conn_loop: the event loop of the worker processes, which      *)
(* share one listening socket.  A round of the loop is                     *)
(*   select -> accept -> (dispatch -> handler -> settle)* -> next round    *)
(* where dispatch is the first switch over conn->state, the handler is     *)
(* module Handler, and settle is the second switch.                        *)
(***************************************************************************)
EXTENDS Handler

CONSTANTS
  NDEBUG,           \* TRUE in a Release build, where assert does nothing
  MemoryMayRunOut,  \* may an allocation, or the kernel's in select, fail?
  Coop              \* the clients that do send a request and read the response

ASSUME WorkerAssumption ==
  /\ NDEBUG \in BOOLEAN
  /\ MemoryMayRunOut \in BOOLEAN
  /\ Coop \subseteq Conns \ Leavers

vars == <<sockVars, connVars, pc, listVars, g_memory_arena, resp, owner, outVars>>

States == {"CONN_WAITING", "CONN_SENDING", "CONN_COMPLETE",
           "CONN_ERR_RECOVERABLE", "CONN_ERR_UNRECOVERABLE"}
Dead   == {"exited", "aborted", "killed"}
InLoop == {"select", "accept", "dispatch", "settle"}
InCall == {"read", "locate", "open", "respond", "pump"}

Init ==
  /\ SocketsInit
  /\ state = [c \in Conns |-> "CONN_WAITING"]
  /\ file_fd = [c \in Conns |-> -1]
  /\ read_buf_size = [c \in Conns |-> 0]
  /\ read_buf_len = [c \in Conns |-> 0]
  /\ read_buf_cursor = [c \in Conns |-> 0]
  /\ pc = [w \in Workers |-> "select"]
  /\ active_conns = [w \in Workers |-> <<>>]
  /\ new_conns = [w \in Workers |-> <<>>]
  /\ ready = [w \in Workers |-> {}]
  /\ g_memory_arena = [w \in Workers |-> NULL]
  /\ resp = [w \in Workers |-> ErrorResponse("HTTP_INTERNAL_SERVER_ERROR")]
  /\ owner = [c \in Conns |-> NULL]
  /\ hdr = [c \in Conns |-> <<>>]
  /\ wire = [c \in Conns |-> <<>>]

-----------------------------------------------------------------------------
\* select and accept.

Members(s) == {s[i] : i \in DOMAIN s}

\* Mutant: the read set is not consulted for a waiting connection.
ReadyUnasked(c) == state[c] = "CONN_WAITING" \/ Writable(c)

Ready(c) ==
  \/ state[c] = "CONN_WAITING" /\ Readable(c)
  \/ state[c] = "CONN_SENDING" /\ Writable(c)

\* Without a timeout; an EINTR starts the round again and is a stuttering step.
Select(w) ==
  LET R == {c \in Members(active_conns[w]) : Ready(c)} IN
  /\ pc[w] = "select"
  /\ R # {} \/ Backlog # {}
  /\ ready' = [ready EXCEPT ![w] = R]
  /\ Goto(w, IF Backlog # {} THEN "accept" ELSE "dispatch")
  /\ UNCHANGED <<sockVars, connVars, active_conns, new_conns, resp, owner, outVars>>

\* Mutant: EAGAIN is an error like the others.
AcceptNothingFatal(w) == pc[w] = "accept" /\ Backlog = {} /\ Die(w, "exited", {})

\* Another worker was faster: EAGAIN.
AcceptNothing(w) ==
  /\ pc[w] = "accept" /\ Backlog = {}
  /\ Goto(w, "dispatch")
  /\ UNCHANGED <<sockVars, connVars, listVars, resp, owner, outVars>>

AcceptConn(w) ==
  /\ pc[w] = "accept" /\ OpenFds(w) < FdLimit
  /\ \E c \in Backlog :
       /\ sock' = [sock EXCEPT ![c] = "open"]
       /\ owner' = [owner EXCEPT ![c] = w]
       /\ state' = [state EXCEPT ![c] = "CONN_WAITING"]
       /\ file_fd' = [file_fd EXCEPT ![c] = -1]
       /\ new_conns' = [new_conns EXCEPT ![w] = Append(@, c)]
  /\ Goto(w, "dispatch")
  /\ UNCHANGED <<peer, rx, sndq, fsize, edited, read_buf_size, read_buf_len,
                 read_buf_cursor, active_conns, ready, resp, outVars>>

\* Any other error ends the worker: EMFILE, or ECONNABORTED for a connection
\* that was reset in the backlog.
AcceptFails(w) ==
  /\ pc[w] = "accept"
  /\ \/ Backlog # {} /\ OpenFds(w) >= FdLimit /\ Die(w, "exited", {})
     \/ \E c \in Backlog : peer[c] = "rst" /\ Die(w, "exited", {c})

-----------------------------------------------------------------------------
\* The loop over worker->active_conns.

\* Mutant: a connection that is not ready is dropped from the next round.
KeepLosing(w) ==
  active_conns' = [active_conns EXCEPT ![w] = Tail(@)] /\ UNCHANGED new_conns

Keep(w) ==
  /\ new_conns' = [new_conns EXCEPT ![w] = Append(@, Cur(w))]
  /\ active_conns' = [active_conns EXCEPT ![w] = Tail(@)]

DispatchUnready(w) ==
  /\ pc[w] = "dispatch" /\ active_conns[w] # <<>> /\ Cur(w) \notin ready[w]
  /\ Keep(w)
  /\ UNCHANGED <<sockVars, connVars, pc, ready, g_memory_arena, resp, owner, outVars>>

DispatchReady(w) ==
  /\ pc[w] = "dispatch" /\ active_conns[w] # <<>> /\ Cur(w) \in ready[w]
  /\ pc' = [pc EXCEPT ![w] = IF state[Cur(w)] = "CONN_WAITING" THEN "read" ELSE "pump"]
  /\ g_memory_arena' = [g_memory_arena EXCEPT ![w] = Cur(w)]
  /\ UNCHANGED <<sockVars, connVars, listVars, resp, owner, outVars>>

SettleSending(w) ==
  /\ pc[w] = "settle" /\ state[Cur(w)] = "CONN_SENDING"
  /\ Keep(w)
  /\ Goto(w, "dispatch")
  /\ UNCHANGED <<sockVars, connVars, ready, resp, owner, outVars>>

\* The label complete: close the descriptors, clear the arena, free conn.
SettleComplete(w) ==
  LET c == Cur(w) IN
  /\ pc[w] = "settle" /\ state[c] \in {"CONN_COMPLETE", "CONN_ERR_UNRECOVERABLE"}
  /\ sock' = [sock EXCEPT ![c] = "closed"]
  /\ file_fd' = [file_fd EXCEPT ![c] = -1]
  /\ read_buf_size' = [read_buf_size EXCEPT ![c] = 0]
  /\ active_conns' = [active_conns EXCEPT ![w] = Tail(@)]
  /\ Goto(w, "dispatch")
  /\ UNCHANGED <<peer, rx, sndq, fsize, edited, state, read_buf_len, read_buf_cursor,
                 new_conns, ready, resp, owner, outVars>>

\* A second call under a jmpbuf of its own; it ends in complete either way.
SettleRecoverable(w) ==
  /\ pc[w] = "settle" /\ state[Cur(w)] = "CONN_ERR_RECOVERABLE"
  /\ resp' = [resp EXCEPT ![w] = ErrorResponse("HTTP_INTERNAL_SERVER_ERROR")]
  /\ pc' = [pc EXCEPT ![w] = "respond"]
  /\ g_memory_arena' = [g_memory_arena EXCEPT ![w] = Cur(w)]
  /\ UNCHANGED <<sockVars, connVars, listVars, owner, outVars>>

\* assert(0): the process aborts or, in a Release build, forgets the connection.
SettleWaiting(w) ==
  /\ pc[w] = "settle" /\ state[Cur(w)] = "CONN_WAITING"
  /\ \/ ~NDEBUG /\ Die(w, "aborted", {})
     \/ /\ NDEBUG
        /\ active_conns' = [active_conns EXCEPT ![w] = Tail(@)]
        /\ Goto(w, "dispatch")
        /\ UNCHANGED <<sockVars, connVars, new_conns, ready, resp, owner, outVars>>

\* list_free(worker->active_conns); worker->active_conns = new_conns
EndRound(w) ==
  /\ pc[w] = "dispatch" /\ active_conns[w] = <<>>
  /\ active_conns' = [active_conns EXCEPT ![w] = new_conns[w]]
  /\ new_conns' = [new_conns EXCEPT ![w] = <<>>]
  /\ ready' = [ready EXCEPT ![w] = {}]
  /\ Goto(w, "select")
  /\ UNCHANGED <<sockVars, connVars, resp, owner, outVars>>

\* server_alloc finds no memory and calls exit: in the handler, for a list cell, or
\* for the connection just accepted, which is closed with the others.
AllocFails(w) ==
  /\ \/ pc[w] = "dispatch" /\ (active_conns[w] # <<>> \/ new_conns[w] # <<>>)
     \/ pc[w] = "settle" /\ state[Cur(w)] = "CONN_SENDING"
     \/ pc[w] \in InCall \ {"pump"}
  /\ Die(w, "exited", {})

\* Any error but EINTR ends the worker.  The kernel's lack of memory is the one
\* that is left: AssertionsHold (WorkerProps) rules out EBADF.
SelectFails(w) == pc[w] = "select" /\ Die(w, "exited", {})

OutOfMemory(w) == MemoryMayRunOut /\ (AllocFails(w) \/ SelectFails(w))

-----------------------------------------------------------------------------
HandlerStep(w) ==
  \/ ReadAndParse(w) \/ ReadEof(w) \/ ReadError(w)
  \/ Locate(w) \/ OpenFile(w)
  \/ SendHeader(w) \/ SendHeaderFails(w)
  \/ ReadFile(w) \/ WriteSocket(w) \/ WriteSocketFails(w)

LoopStep(w) ==
  \/ Select(w) \/ AcceptNothing(w) \/ AcceptConn(w) \/ AcceptFails(w)
  \/ DispatchUnready(w) \/ DispatchReady(w)
  \/ SettleSending(w) \/ SettleComplete(w) \/ SettleRecoverable(w) \/ SettleWaiting(w)
  \/ EndRound(w)

WorkerStep(w) == HandlerStep(w) \/ LoopStep(w) \/ OutOfMemory(w)

ClientStep(c) == Connect(c) \/ SendRequest(c) \/ Drain(c) \/ Leave(c)

\* The clients and the editor of the file leave the server's state alone.
serverVars == <<connVars, pc, listVars, g_memory_arena, resp, owner, outVars>>

EnvStep ==
  /\ EditFile \/ \E c \in Conns : ClientStep(c)
  /\ UNCHANGED serverVars

Next == EnvStep \/ \E w \in Workers : WorkerStep(w)

Spec == Init /\ [][Next]_vars
=============================================================================
