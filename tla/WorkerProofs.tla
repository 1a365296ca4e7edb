---------------------------- MODULE WorkerProofs ----------------------------
(***************************************************************************)
(* Proofs about the worker processes and their connections, for every      *)
(* number of them and every size of the buffers and of the file.           *)
(*                                                                         *)
(* First the types and the current arena; then descriptors, assertions,    *)
(* responses and bodies; what a client is given, as module Exchange        *)
(* promises it; last, that a round of the loop goes on and ends, and how a *)
(* connection ends.  One inductive invariant serves all of these: it ties  *)
(* the cells of the workers' lists to the states of the connections, and   *)
(* the state of a connection to its buffers and to what was written.       *)
(***************************************************************************)
EXTENDS WorkerProps, FiniteSetTheorems, TLAPS

USE SocketsAssumption, HandlerAssumption, WorkerAssumption

\* While a worker is in a handler or has just left it, it has a connection in
\* hand.
HandFull ==
  \A w \in Workers : pc[w] \in InCall \cup {"settle"} => active_conns[w] # <<>>

\* The control of the workers: where they are, their lists and their arena.
Control ==
  /\ pc \in [Workers -> InLoop \cup InCall \cup Dead]
  /\ active_conns \in [Workers -> Seq(Conns)]
  /\ new_conns \in [Workers -> Seq(Conns)]
  /\ ready \in [Workers -> SUBSET Conns]
  /\ g_memory_arena \in [Workers -> Conns \cup {NULL}]
  /\ HandFull
  /\ ArenaFollowsCall

\* The connections, the response under way, and what lies outside.
Data ==
  /\ SocketsTypeOK
  /\ state \in [Conns -> States]
  /\ file_fd \in [Conns -> Nat \cup {-1}]
  /\ read_buf_size \in [Conns -> {0, BufSize}]
  /\ read_buf_len \in [Conns -> 0..BufSize]
  /\ read_buf_cursor \in [Conns -> 0..BufSize]
  /\ resp \in [Workers -> Responses]
  /\ owner \in [Conns -> Workers \cup {NULL}]
  /\ hdr \in [Conns -> Seq(Headers)]
  /\ wire \in [Conns -> Seq(Int)]

-----------------------------------------------------------------------------
\* The operators the actions share.

LEMMA CurIsConn ==
  ASSUME Control, NEW w \in Workers, active_conns[w] # <<>>
  PROVE  Cur(w) \in Conns /\ Tail(active_conns[w]) \in Seq(Conns)
  BY DEF Control, Cur

LEMMA GotoControl ==
  ASSUME Control, NEW w \in Workers, NEW label \in InLoop \cup InCall,
         pc[w] \in InCall <=> label \in InCall, pc[w] \notin Dead,
         label = "settle" => pc[w] = "settle",
         Goto(w, label), UNCHANGED listVars
  PROVE  Control'
  BY DEF Control, HandFull, ArenaFollowsCall, Goto, listVars, Cur, InLoop, InCall, Dead

LEMMA ReturnControl ==
  ASSUME Control, NEW w \in Workers, pc[w] \in InCall, Return(w), UNCHANGED listVars
  PROVE  Control'
  BY DEF Control, HandFull, ArenaFollowsCall, Return, listVars, Cur, InLoop, InCall, Dead

LEMMA DieControl ==
  ASSUME Control, NEW w \in Workers, NEW how \in Dead, NEW lost, Die(w, how, lost)
  PROVE  Control'
  <1>1. /\ pc' = [pc EXCEPT ![w] = how]
        /\ active_conns' = [active_conns EXCEPT ![w] = <<>>]
        /\ new_conns' = [new_conns EXCEPT ![w] = <<>>]
        /\ ready' = [ready EXCEPT ![w] = {}]
        /\ g_memory_arena' = [g_memory_arena EXCEPT ![w] = NULL]
    BY DEF Die
  <1> QED  BY <1>1 DEF Control, HandFull, ArenaFollowsCall, Cur, InLoop, InCall, Dead

LEMMA DieData ==
  ASSUME Data, NEW w \in Workers, NEW how, NEW lost, Die(w, how, lost)
  PROVE  Data'
  BY DEF Data, SocketsTypeOK, Die

LEMMA KeepControl ==
  ASSUME Control, NEW w \in Workers, active_conns[w] # <<>>, pc[w] \in {"dispatch", "settle"},
         Keep(w), pc' = [pc EXCEPT ![w] = "dispatch"], UNCHANGED <<ready, g_memory_arena>>
  PROVE  Control'
  <1>1. Cur(w) \in Conns /\ Tail(active_conns[w]) \in Seq(Conns)  BY CurIsConn
  <1>2. /\ new_conns' \in [Workers -> Seq(Conns)]
        /\ active_conns' \in [Workers -> Seq(Conns)]
    BY <1>1 DEF Control, Keep
  <1>3. HandFull'
    BY DEF Control, HandFull, Keep, InCall
  <1>4. ArenaFollowsCall'
    BY DEF Control, ArenaFollowsCall, Keep, Cur, InCall, InLoop
  <1> QED  BY <1>2, <1>3, <1>4 DEF Control, InLoop

LEMMA StateData ==
  ASSUME Data, NEW c \in Conns, NEW s \in States, state' = [state EXCEPT ![c] = s],
         UNCHANGED <<sockVars, file_fd, read_buf_size, read_buf_len, read_buf_cursor,
                     resp, owner, outVars>>
  PROVE  Data'
  BY DEF Data, SocketsTypeOK, sockVars, outVars

-----------------------------------------------------------------------------
\* The event loop.

LEMMA ControlInit == Init => Control /\ Data
  <1> SUFFICES ASSUME Init PROVE Control /\ Data  OBVIOUS
  <1>1. Control  BY DEF Init, Control, HandFull, ArenaFollowsCall, InLoop, InCall, Dead
  <1>2. Data
    BY DEF Init, SocketsInit, Data, SocketsTypeOK, States, ErrorResponse, Responses, Codes
  <1> QED  BY <1>1, <1>2

LEMMA SelectOK ==
  ASSUME Control, Data, NEW w \in Workers, Select(w)
  PROVE  Control' /\ Data'
  <1>1. Control'
    BY DEF Select, Goto, Members, Control, HandFull, ArenaFollowsCall, Cur, InLoop, InCall, Dead
  <1>2. Data'
    BY DEF Select, Data, SocketsTypeOK, sockVars, connVars, outVars
  <1> QED  BY <1>1, <1>2

LEMMA AcceptNothingOK ==
  ASSUME Control, Data, NEW w \in Workers, AcceptNothing(w)
  PROVE  Control' /\ Data'
  <1>1. Control'
    BY GotoControl DEF AcceptNothing, InLoop, InCall, Dead
  <1>2. Data'
    BY DEF AcceptNothing, Data, SocketsTypeOK, sockVars, connVars, outVars
  <1> QED  BY <1>1, <1>2

LEMMA AcceptConnOK ==
  ASSUME Control, Data, NEW w \in Workers, AcceptConn(w)
  PROVE  Control' /\ Data'
  <1>1. PICK c \in Backlog :
          /\ sock' = [sock EXCEPT ![c] = "open"]
          /\ owner' = [owner EXCEPT ![c] = w]
          /\ state' = [state EXCEPT ![c] = "CONN_WAITING"]
          /\ file_fd' = [file_fd EXCEPT ![c] = -1]
          /\ new_conns' = [new_conns EXCEPT ![w] = Append(@, c)]
    BY DEF AcceptConn
  <1>2. c \in Conns  BY DEF Backlog
  <1>3. Control'
    BY <1>1, <1>2
    DEF AcceptConn, Goto, Control, HandFull, ArenaFollowsCall, Cur, InLoop, InCall, Dead
  <1>4. Data'
    BY <1>1, <1>2 DEF AcceptConn, Data, SocketsTypeOK, States, outVars
  <1> QED  BY <1>3, <1>4

LEMMA AcceptFailsOK ==
  ASSUME Control, Data, NEW w \in Workers, AcceptFails(w)
  PROVE  Control' /\ Data'
  <1>1. PICK lost : Die(w, "exited", lost)  BY DEF AcceptFails
  <1> QED  BY <1>1, DieControl, DieData DEF Dead

LEMMA DispatchUnreadyOK ==
  ASSUME Control, Data, NEW w \in Workers, DispatchUnready(w)
  PROVE  Control' /\ Data'
  <1>1. pc' = [pc EXCEPT ![w] = "dispatch"]  BY DEF DispatchUnready, Control
  <1>2. Control'  BY <1>1, KeepControl DEF DispatchUnready
  <1>3. Data'  BY DEF DispatchUnready, Data, SocketsTypeOK, sockVars, connVars, outVars
  <1> QED  BY <1>2, <1>3

LEMMA DispatchReadyOK ==
  ASSUME Control, Data, NEW w \in Workers, DispatchReady(w)
  PROVE  Control' /\ Data'
  <1>1. Cur(w) \in Conns  BY CurIsConn DEF DispatchReady
  <1>2. Control'
    BY <1>1 DEF DispatchReady, Control, HandFull, ArenaFollowsCall, listVars, Cur, InLoop,
                InCall, Dead
  <1>3. Data'  BY DEF DispatchReady, Data, SocketsTypeOK, sockVars, connVars, outVars
  <1> QED  BY <1>2, <1>3

LEMMA SettleSendingOK ==
  ASSUME Control, Data, NEW w \in Workers, SettleSending(w)
  PROVE  Control' /\ Data'
  <1>1. active_conns[w] # <<>>  BY DEF SettleSending, Control, HandFull
  <1>2. Control'  BY <1>1, KeepControl DEF SettleSending, Goto
  <1>3. Data'  BY DEF SettleSending, Data, SocketsTypeOK, sockVars, connVars, outVars
  <1> QED  BY <1>2, <1>3

LEMMA SettleCompleteOK ==
  ASSUME Control, Data, NEW w \in Workers, SettleComplete(w)
  PROVE  Control' /\ Data'
  <1>1. Cur(w) \in Conns /\ Tail(active_conns[w]) \in Seq(Conns)
    BY CurIsConn DEF SettleComplete, Control, HandFull
  <1>2. Control'
    BY <1>1 DEF SettleComplete, Goto, Control, HandFull, ArenaFollowsCall, Cur, InLoop,
                InCall, Dead
  <1>3. Data'
    BY <1>1 DEF SettleComplete, Data, SocketsTypeOK, outVars
  <1> QED  BY <1>2, <1>3

LEMMA SettleRecoverableOK ==
  ASSUME Control, Data, NEW w \in Workers, SettleRecoverable(w)
  PROVE  Control' /\ Data'
  <1>1. active_conns[w] # <<>> /\ Cur(w) \in Conns
    BY CurIsConn DEF SettleRecoverable, Control, HandFull
  <1>2. Control'
    BY <1>1 DEF SettleRecoverable, Control, HandFull, ArenaFollowsCall, listVars, Cur, InLoop,
                InCall, Dead
  <1>3. Data'
    BY DEF SettleRecoverable, Data, SocketsTypeOK, sockVars, connVars, outVars,
           ErrorResponse, Responses, Codes
  <1> QED  BY <1>2, <1>3

LEMMA SettleWaitingOK ==
  ASSUME Control, Data, NEW w \in Workers, SettleWaiting(w)
  PROVE  Control' /\ Data'
  <1>1. CASE Die(w, "aborted", {})
    BY <1>1, DieControl, DieData DEF Dead
  <1>2. CASE /\ active_conns' = [active_conns EXCEPT ![w] = Tail(@)]
             /\ Goto(w, "dispatch")
             /\ UNCHANGED <<sockVars, connVars, new_conns, ready, resp, owner, outVars>>
    <2>1. Tail(active_conns[w]) \in Seq(Conns)
      BY CurIsConn DEF SettleWaiting, Control, HandFull
    <2>2. Control'
      BY <1>2, <2>1 DEF SettleWaiting, Goto, Control, HandFull, ArenaFollowsCall, Cur, InLoop,
                        InCall, Dead
    <2>3. Data'
      BY <1>2 DEF Data, SocketsTypeOK, sockVars, connVars, outVars
    <2> QED  BY <2>2, <2>3
  <1> QED  BY <1>1, <1>2 DEF SettleWaiting

LEMMA EndRoundOK ==
  ASSUME Control, Data, NEW w \in Workers, EndRound(w)
  PROVE  Control' /\ Data'
  <1>1. Control'
    BY DEF EndRound, Goto, Control, HandFull, ArenaFollowsCall, Cur, InLoop, InCall, Dead
  <1>2. Data'
    BY DEF EndRound, Data, SocketsTypeOK, sockVars, connVars, outVars
  <1> QED  BY <1>1, <1>2

LEMMA OutOfMemoryOK ==
  ASSUME Control, Data, NEW w \in Workers, OutOfMemory(w)
  PROVE  Control' /\ Data'
  BY DieControl, DieData DEF OutOfMemory, AllocFails, SelectFails, Dead

-----------------------------------------------------------------------------
\* The handler.

LEMMA ReadAndParseOK ==
  ASSUME Control, Data, NEW w \in Workers, ReadAndParse(w)
  PROVE  Control' /\ Data'
  <1>1. \E label \in {"locate", "respond"} : Goto(w, label)
    BY DEF ReadAndParse
  <1>2. Control'
    BY <1>1, GotoControl DEF ReadAndParse, InLoop, InCall, Dead
  <1>3. resp' \in [Workers -> Responses]
    <2>1. \E r \in Responses : resp' = [resp EXCEPT ![w] = r]
      BY DEF ReadAndParse, ErrorResponse, Responses, Codes
    <2> QED  BY <2>1 DEF Data
  <1>4. Data'
    BY <1>3 DEF ReadAndParse, AllocReadBuf, Data, SocketsTypeOK
  <1> QED  BY <1>2, <1>4

LEMMA ReadEofOK ==
  ASSUME Control, Data, NEW w \in Workers, ReadEof(w)
  PROVE  Control' /\ Data'
  <1>1. Control'  BY ReturnControl DEF ReadEof, InCall
  <1>2. Data'
    BY DEF ReadEof, AllocReadBuf, Data, SocketsTypeOK, sockVars, outVars
  <1> QED  BY <1>1, <1>2

LEMMA ReadErrorOK ==
  ASSUME Control, Data, NEW w \in Workers, ReadError(w)
  PROVE  Control' /\ Data'
  <1>1. Control'  BY ReturnControl DEF ReadError, ReturnWith, InCall
  <1>2. Data'
    BY DEF ReadError, ReturnWith, AllocReadBuf, Data, SocketsTypeOK, sockVars, outVars, States
  <1> QED  BY <1>1, <1>2

LEMMA LocateOK ==
  ASSUME Control, Data, NEW w \in Workers, Locate(w)
  PROVE  Control' /\ Data'
  <1>1. \E label \in {"open", "respond"} : Goto(w, label)  BY DEF Locate
  <1>2. Control'  BY <1>1, GotoControl DEF Locate, InLoop, InCall, Dead
  <1>3. resp' \in [Workers -> Responses]
    <2>1. CASE \E code \in Errors : resp' = [resp EXCEPT ![w] = ErrorResponse(code)]
      BY <2>1 DEF Data, ErrorResponse, Responses, Codes
    <2>2. CASE resp' = [resp EXCEPT ![w].size = fsize]
      <3>1. fsize \in Nat /\ resp[w] \in Responses  BY DEF Data, SocketsTypeOK
      <3>2. [resp[w] EXCEPT !.size = fsize] \in Responses  BY <3>1 DEF Responses
      <3>3. resp' = [resp EXCEPT ![w] = [resp[w] EXCEPT !.size = fsize]]  BY <2>2
      <3> QED  BY <3>2, <3>3 DEF Data
    <2> QED  BY <2>1, <2>2 DEF Locate
  <1>4. edited' \in [Conns -> BOOLEAN]  BY DEF Locate, Data, SocketsTypeOK
  <1>5. Data'
    BY <1>3, <1>4 DEF Locate, Data, SocketsTypeOK, connVars, outVars
  <1> QED  BY <1>2, <1>5

LEMMA OpenFileOK ==
  ASSUME Control, Data, NEW w \in Workers, OpenFile(w)
  PROVE  Control' /\ Data'
  <1>1. Control'  BY GotoControl DEF OpenFile, InLoop, InCall, Dead
  <1>2. resp' \in [Workers -> Responses]
    <2>1. \A code \in Errors : ErrorResponse(code) \in Responses
      BY DEF ErrorResponse, Responses, Codes
    <2>2. \/ \E code \in Errors : resp' = [resp EXCEPT ![w] = ErrorResponse(code)]
          \/ resp' = resp
      BY DEF OpenFile
    <2> QED  BY <2>1, <2>2 DEF Data
  <1>3. file_fd' \in [Conns -> Nat \cup {-1}]
    BY DEF OpenFile, Data
  <1>4. Data'
    BY <1>2, <1>3 DEF OpenFile, Data, SocketsTypeOK, sockVars, outVars
  <1> QED  BY <1>1, <1>4

LEMMA WriteFailsOK ==
  ASSUME Control, Data, NEW w \in Workers, pc[w] \in InCall, WriteFails(w)
  PROVE  Control' /\ Data'
  <1>1. CASE Die(w, "killed", {})
    BY <1>1, DieControl, DieData DEF Dead
  <1>2. CASE /\ Abort(w)
             /\ UNCHANGED <<sockVars, file_fd, read_buf_size, read_buf_len, read_buf_cursor,
                            listVars, resp, owner, outVars>>
    <2>1. Cur(w) \in Conns  BY CurIsConn DEF Control, HandFull
    <2>2. Control'  BY <1>2, ReturnControl DEF Abort, ReturnWith
    <2>3. Data'  BY <1>2, <2>1, StateData DEF Abort, ReturnWith, States
    <2> QED  BY <2>2, <2>3
  <1> QED  BY <1>1, <1>2 DEF WriteFails

LEMMA SendHeaderOK ==
  ASSUME Control, Data, NEW w \in Workers, SendHeader(w)
  PROVE  Control' /\ Data'
  <1> DEFINE c == Cur(w)
             n == Accepted(c, HdrLen)
             h == [code |-> resp[w].code, size |-> resp[w].size,
                   whole |-> n = HdrLen, end |-> HasBody(resp[w])]
  <1>1. c \in Conns  BY CurIsConn DEF SendHeader, Control, HandFull, InCall
  <1>2. \/ \E s \in States : ReturnWith(w, s)
        \/ state' = [state EXCEPT ![c] = "CONN_SENDING"] /\ Goto(w, "pump")
    BY DEF SendHeader, Abort, States
  <1>3. Control'
    <2>1. pc[w] \in InCall /\ UNCHANGED listVars  BY DEF SendHeader, InCall
    <2>2. CASE Return(w)  BY <2>1, <2>2, ReturnControl
    <2>3. CASE Goto(w, "pump")
      BY <2>1, <2>3, GotoControl DEF InLoop, InCall, Dead
    <2> QED  BY <1>2, <2>2, <2>3 DEF ReturnWith
  <1>4. state' \in [Conns -> States]  BY <1>1, <1>2 DEF ReturnWith, Data, States
  <1>5. sndq' \in [Conns -> 0..SndBuf]
    <2>1. n \in 0..(SndBuf - sndq[c])
      BY <1>1 DEF SendHeader, Accepted, Smaller, Data, SocketsTypeOK
    <2>2. sndq' = [sndq EXCEPT ![c] = @ + n]  BY DEF SendHeader
    <2> QED  BY <1>1, <2>1, <2>2 DEF Data, SocketsTypeOK
  <1>6. hdr' \in [Conns -> Seq(Headers)]
    <2>1. resp[w] \in Responses  BY DEF Data
    <2>2. h \in Headers  BY <2>1 DEF Responses, Headers, HasBody
    <2>3. hdr' = [hdr EXCEPT ![c] = Append(@, h)]  BY DEF SendHeader
    <2> HIDE DEF h
    <2> QED  BY <1>1, <2>2, <2>3 DEF Data
  <1>7. Data'
    BY <1>4, <1>5, <1>6 DEF SendHeader, Data, SocketsTypeOK
  <1> QED  BY <1>3, <1>7

LEMMA SendHeaderFailsOK ==
  ASSUME Control, Data, NEW w \in Workers, SendHeaderFails(w)
  PROVE  Control' /\ Data'
  BY WriteFailsOK DEF SendHeaderFails, InCall

LEMMA ReadFileOK ==
  ASSUME Control, Data, NEW w \in Workers, ReadFile(w)
  PROVE  Control' /\ Data'
  <1> DEFINE c == Cur(w)
             n == Smaller(read_buf_size[c], fsize - file_fd[c])
  <1>1. c \in Conns  BY CurIsConn DEF ReadFile, Control, HandFull, InCall
  <1>2. pc[w] \in InCall /\ UNCHANGED listVars  BY DEF ReadFile, InCall
  <1>3. CASE /\ n > 0
             /\ read_buf_len' = [read_buf_len EXCEPT ![c] = n]
             /\ read_buf_cursor' = [read_buf_cursor EXCEPT ![c] = 0]
             /\ file_fd' = [file_fd EXCEPT ![c] = @ + n]
             /\ Goto(w, "pump")
             /\ UNCHANGED state
    <2>1. n \in 0..BufSize /\ file_fd[c] \in Nat \cup {-1}
      <3>1. /\ read_buf_size[c] \in {0, BufSize}
            /\ file_fd[c] \in Nat \cup {-1}
            /\ fsize \in Nat
            /\ BufSize \in Nat
        BY <1>1 DEF Data, SocketsTypeOK
      <3> QED  BY <1>3, <3>1 DEF Smaller
    <2>2. Control'  BY <1>2, <1>3, GotoControl DEF InLoop, InCall, Dead
    <2> HIDE DEF c, n
    <2>3. file_fd' \in [Conns -> Nat \cup {-1}]  BY <1>1, <1>3, <2>1 DEF Data
    <2>4. /\ read_buf_len' \in [Conns -> 0..BufSize]
          /\ read_buf_cursor' \in [Conns -> 0..BufSize]
      BY <1>1, <1>3, <2>1 DEF Data
    <2>5. Data'
      BY <1>3, <2>3, <2>4 DEF ReadFile, Data, SocketsTypeOK, sockVars, outVars
    <2> QED  BY <2>2, <2>5
  <1>4. CASE /\ \E s \in States : ReturnWith(w, s)
             /\ UNCHANGED <<read_buf_len, read_buf_cursor, file_fd>>
    <2>1. Control'  BY <1>2, <1>4, ReturnControl DEF ReturnWith
    <2>2. Data'  BY <1>1, <1>4, StateData DEF ReadFile, ReturnWith
    <2> QED  BY <2>1, <2>2
  <1>5. n \in Int
    <2>1. read_buf_size[c] \in Int /\ file_fd[c] \in Int /\ fsize \in Int
      BY <1>1 DEF Data, SocketsTypeOK
    <2> QED  BY <2>1 DEF Smaller
  <1>6. ~(n <= 0) => n > 0
    <2> HIDE DEF n
    <2> QED  BY <1>5
  <1>7. \/ /\ ~(n <= 0)
           /\ read_buf_len' = [read_buf_len EXCEPT ![c] = n]
           /\ read_buf_cursor' = [read_buf_cursor EXCEPT ![c] = 0]
           /\ file_fd' = [file_fd EXCEPT ![c] = @ + n]
           /\ Goto(w, "pump")
           /\ UNCHANGED state
        \/ /\ \E s \in States : ReturnWith(w, s)
           /\ UNCHANGED <<read_buf_len, read_buf_cursor, file_fd>>
    BY DEF ReadFile, EndOfFile, Abort, States
  <1> HIDE DEF c, n
  <1> QED  BY <1>3, <1>4, <1>6, <1>7

LEMMA WriteSocketOK ==
  ASSUME Control, Data, NEW w \in Workers, WriteSocket(w)
  PROVE  Control' /\ Data'
  <1> DEFINE c == Cur(w)
             n == Accepted(c, read_buf_len[c] - read_buf_cursor[c])
             first == file_fd[c] - read_buf_len[c] + read_buf_cursor[c]
  <1>1. c \in Conns  BY CurIsConn DEF WriteSocket, Control, HandFull, InCall
  <1>2. pc[w] \in InCall /\ UNCHANGED listVars  BY DEF WriteSocket, InCall
  <1>3. CASE n = 0 /\ Return(w) /\ UNCHANGED <<sndq, wire, read_buf_cursor>>
    <2>1. Control'  BY <1>2, <1>3, ReturnControl
    <2>2. Data'  BY <1>3 DEF WriteSocket, Data, SocketsTypeOK
    <2> QED  BY <2>1, <2>2
  <1>4. CASE /\ n > 0
             /\ sndq' = [sndq EXCEPT ![c] = @ + n]
             /\ wire' = [wire EXCEPT ![c] = @ \o [i \in 1..n |-> first + i]]
             /\ read_buf_cursor' = [read_buf_cursor EXCEPT ![c] = @ + n]
             /\ Goto(w, "pump")
    <2>1. Control'  BY <1>2, <1>4, GotoControl DEF InLoop, InCall, Dead
    <2>2. /\ n \in Nat
          /\ n <= SndBuf - sndq[c]
          /\ n <= read_buf_len[c] - read_buf_cursor[c]
          /\ first \in Int
      <3>1. /\ read_buf_len[c] \in Int /\ read_buf_cursor[c] \in Int
            /\ file_fd[c] \in Int /\ sndq[c] \in Int /\ SndBuf \in Int
        BY <1>1 DEF Data, SocketsTypeOK
      <3>2. /\ n > 0
            /\ n = Smaller(read_buf_len[c] - read_buf_cursor[c], SndBuf - sndq[c])
        BY <1>4 DEF Accepted
      <3> HIDE DEF c, n
      <3> QED  BY <3>1, <3>2 DEF Smaller
    <2>3. [i \in 1..n |-> first + i] \in Seq(Int)
      <3> HIDE DEF first, n
      <3> QED  BY <2>2
    <2> HIDE DEF c, n, first
    <2>4. sndq' \in [Conns -> 0..SndBuf] /\ read_buf_cursor' \in [Conns -> 0..BufSize]
      <3>1. /\ read_buf_len[c] \in 0..BufSize /\ read_buf_cursor[c] \in 0..BufSize
            /\ sndq[c] \in 0..SndBuf
        BY <1>1 DEF Data, SocketsTypeOK
      <3>2. sndq[c] + n \in 0..SndBuf /\ read_buf_cursor[c] + n \in 0..BufSize
        BY <2>2, <3>1
      <3> QED  BY <1>1, <1>4, <3>2 DEF Data, SocketsTypeOK
    <2>5. wire' \in [Conns -> Seq(Int)]
      <3>1. wire[c] \o [i \in 1..n |-> first + i] \in Seq(Int)
        BY <1>1, <2>3 DEF Data
      <3> QED  BY <1>4, <3>1 DEF Data
    <2>6. Data'
      BY <2>4, <2>5 DEF WriteSocket, Data, SocketsTypeOK
    <2> QED  BY <2>1, <2>6
  <1> QED  BY <1>3, <1>4 DEF WriteSocket

LEMMA WriteSocketFailsOK ==
  ASSUME Control, Data, NEW w \in Workers, WriteSocketFails(w)
  PROVE  Control' /\ Data'
  BY WriteFailsOK DEF WriteSocketFails, InCall

LEMMA EnvOK ==
  ASSUME Control, Data, EnvStep
  PROVE  Control' /\ Data'
  <1>1. Control'
    BY DEF EnvStep, serverVars, listVars, Control, HandFull, ArenaFollowsCall, Cur
  <1>2. SocketsTypeOK'
    <2>1. CASE EditFile  BY <2>1 DEF EditFile, Data, SocketsTypeOK
    <2>2. CASE \E c \in Conns : ClientStep(c)
      <3>1. PICK c \in Conns : ClientStep(c)  BY <2>2
      <3>2. CASE Connect(c)  BY <3>2 DEF Connect, Data, SocketsTypeOK
      <3>3. CASE SendRequest(c)
        <4>1. \E s \in {"part", "whole"} : rx' = [rx EXCEPT ![c] = s]
          BY <3>3 DEF SendRequest
        <4> QED  BY <3>3, <4>1 DEF SendRequest, Data, SocketsTypeOK
      <3>4. CASE Drain(c)  BY <3>4 DEF Drain, Data, SocketsTypeOK
      <3>5. CASE Leave(c)
        <4>1. \E s \in {"fin", "rst"} : peer' = [peer EXCEPT ![c] = s]
          BY <3>5 DEF Leave
        <4> QED  BY <3>5, <4>1 DEF Leave, Data, SocketsTypeOK
      <3> QED  BY <3>1, <3>2, <3>3, <3>4, <3>5 DEF ClientStep
    <2> QED  BY <2>1, <2>2 DEF EnvStep
  <1>3. Data'
    BY <1>2 DEF EnvStep, serverVars, connVars, outVars, Data
  <1> QED  BY <1>1, <1>3

-----------------------------------------------------------------------------
LEMMA NextOK == Control /\ Data /\ [Next]_vars => Control' /\ Data'
  <1> SUFFICES ASSUME Control, Data, [Next]_vars PROVE Control' /\ Data'  OBVIOUS
  <1>1. CASE EnvStep  BY <1>1, EnvOK
  <1>2. CASE \E w \in Workers : WorkerStep(w)
    <2>1. PICK w \in Workers : WorkerStep(w)  BY <1>2
    <2>2. CASE HandlerStep(w)
      BY <2>2, ReadAndParseOK, ReadEofOK, ReadErrorOK, LocateOK, OpenFileOK, SendHeaderOK,
         SendHeaderFailsOK, ReadFileOK, WriteSocketOK, WriteSocketFailsOK DEF HandlerStep
    <2>3. CASE LoopStep(w)
      BY <2>3, SelectOK, AcceptNothingOK, AcceptConnOK, AcceptFailsOK, DispatchUnreadyOK,
         DispatchReadyOK, SettleSendingOK, SettleCompleteOK, SettleRecoverableOK,
         SettleWaitingOK, EndRoundOK DEF LoopStep
    <2>4. CASE OutOfMemory(w)  BY <2>4, OutOfMemoryOK
    <2> QED  BY <2>1, <2>2, <2>3, <2>4 DEF WorkerStep
  <1>3. CASE UNCHANGED vars
    BY <1>3 DEF vars, sockVars, connVars, listVars, outVars, Control, HandFull,
                ArenaFollowsCall, Cur, Data, SocketsTypeOK
  <1> QED  BY <1>1, <1>2, <1>3 DEF Next

\* Whatever the number of workers and connections, the fields of the structures
\* keep their types: in particular read_buf_cursor and read_buf_len never leave
\* the buffer, however reads and short writes alternate (handler.c:75-101).
THEOREM TypeCorrect == Spec => []TypeOK
  <1>1. Control /\ Data => TypeOK  BY DEF Control, Data, TypeOK
  <1> QED  BY <1>1, ControlInit, NextOK, PTL DEF Spec

\* On every path out of a handler, a longjmp included, g_memory_arena is reset
\* before the loop allocates or frees anything (server.c:190, 202, 231).
THEOREM ArenaCorrect == Spec => []ArenaFollowsCall
  <1>1. Control => ArenaFollowsCall  BY DEF Control
  <1> QED  BY <1>1, ControlInit, NextOK, PTL DEF Spec

-----------------------------------------------------------------------------
\* The invariant of a worker.

Busy(w, c) == InHand(w) /\ c = Cur(w)

Fresh(c) == state[c] = "CONN_WAITING" /\ file_fd[c] = -1 /\ read_buf_size[c] = 0

\* The lists have no cell too many, and each points to an open connection.
Tracked(w) ==
  /\ NoDuplicates(w)
  /\ \A c \in Listed(w) : sock[c] = "open" /\ owner[c] = w

\* A connection that is not in hand waits for its request or for its socket.
AtRest(w) ==
  \A c \in Listed(w) : Busy(w, c) \/ Fresh(c) \/ state[c] = "CONN_SENDING"

\* What is known of the connection in hand, and of the response, at each place.
HandOK(w) ==
  /\ resp[w].req # "NULL" => resp[w].code = "HTTP_OK"
  /\ pc[w] = "read" => Fresh(Cur(w))
  /\ pc[w] \in {"locate", "open"} => state[Cur(w)] = "CONN_WAITING" /\ file_fd[Cur(w)] = -1
  /\ pc[w] = "respond" =>
       \/ state[Cur(w)] = "CONN_WAITING" /\ (HasBody(resp[w]) => file_fd[Cur(w)] # -1)
       \/ state[Cur(w)] = "CONN_ERR_RECOVERABLE" /\ ~HasBody(resp[w])
  /\ pc[w] = "pump" => state[Cur(w)] = "CONN_SENDING"
  /\ pc[w] = "settle" /\ state[Cur(w)] = "CONN_WAITING" => peer[Cur(w)] # "up"

-----------------------------------------------------------------------------
\* The invariant of a connection.

FdOK(c) ==
  /\ sock[c] = "open" => owner[c] \in Workers /\ (c \in Listed(owner[c]) \/ Forgotten(c))
  /\ file_fd[c] # -1 => sock[c] = "open"
  /\ sock[c] \in {"idle", "backlog"} => Fresh(c)

\* Nothing has been written as long as the state says that nothing was.
SilentOK(c) ==
  state[c] \in {"CONN_WAITING", "CONN_ERR_RECOVERABLE"} =>
    /\ hdr[c] = <<>> /\ wire[c] = <<>> /\ sndq[c] = 0
    /\ read_buf_len[c] = 0 /\ read_buf_cursor[c] = 0 /\ file_fd[c] \in {-1, 0}

HeaderOK(c) ==
  /\ Len(hdr[c]) <= 1
  /\ state[c] \in {"CONN_SENDING", "CONN_COMPLETE"} => Len(hdr[c]) = 1
  /\ hdr[c] # <<>> => hdr[c][1].whole
  /\ wire[c] # <<>> \/ state[c] = "CONN_SENDING" =>
       hdr[c] # <<>> /\ hdr[c][1].end /\ hdr[c][1].code = "HTTP_OK"

\* The buffer holds the part of the file that ends where the next read begins.
BodyOK(c) ==
  /\ read_buf_cursor[c] <= read_buf_len[c]
  /\ wire[c] = [i \in 1..Len(wire[c]) |-> i]
  /\ state[c] = "CONN_SENDING" /\ sock[c] = "open" =>
       /\ file_fd[c] # -1
       /\ Len(wire[c]) = file_fd[c] - read_buf_len[c] + read_buf_cursor[c]

LifeOK(c) == SilentOK(c) /\ HeaderOK(c) /\ BodyOK(c)

Inv ==
  /\ \A w \in Workers : Tracked(w) /\ AtRest(w) /\ HandOK(w)
  /\ \A c \in Conns : FdOK(c) /\ LifeOK(c)

IInv == Control /\ Data /\ Inv

-----------------------------------------------------------------------------
\* Sequences as lists of connections.

LEMMA MembersAppend ==
  ASSUME NEW S, NEW s \in Seq(S), NEW e \in S
  PROVE  /\ Members(Append(s, e)) = Members(s) \cup {e}
         /\ Injective(s) /\ e \notin Members(s) => Injective(Append(s, e))
  <1>1. /\ DOMAIN Append(s, e) = 1..(Len(s) + 1)
        /\ DOMAIN s = 1..Len(s) /\ Len(s) \in Nat
        /\ \A i \in 1..Len(s) : Append(s, e)[i] = s[i]
        /\ Append(s, e)[Len(s) + 1] = e
    OBVIOUS
  <1>2. \A i \in 1..(Len(s) + 1) : i \in 1..Len(s) \/ i = Len(s) + 1  BY <1>1
  <1>3. Members(Append(s, e)) = Members(s) \cup {e}  BY <1>1, <1>2 DEF Members
  <1>4. ASSUME Injective(s), e \notin Members(s)  PROVE Injective(Append(s, e))
    BY <1>1, <1>2, <1>4 DEF Injective, Members
  <1> QED  BY <1>3, <1>4

LEMMA MembersTail ==
  ASSUME NEW S, NEW s \in Seq(S), s # <<>>
  PROVE  /\ Head(s) \in S
         /\ Members(s) = {Head(s)} \cup Members(Tail(s))
         /\ Injective(s) => Injective(Tail(s)) /\ Head(s) \notin Members(Tail(s))
  <1>1. /\ Len(s) \in Nat \ {0} /\ DOMAIN s = 1..Len(s)
        /\ Head(s) = s[1] /\ s[1] \in S
        /\ DOMAIN Tail(s) = 1..(Len(s) - 1)
        /\ \A i \in 1..(Len(s) - 1) : Tail(s)[i] = s[i + 1]
    OBVIOUS
  <1>2. \A i \in 1..Len(s) : i = 1 \/ i - 1 \in 1..(Len(s) - 1)  BY <1>1
  <1>3. \A i \in 1..(Len(s) - 1) : i + 1 \in 1..Len(s) /\ i + 1 # 1  BY <1>1
  <1>4. \A i \in 1..Len(s) : (i - 1) + 1 = i  BY <1>1
  <1>5. Members(s) = {Head(s)} \cup Members(Tail(s))
    <2>1. ASSUME NEW x \in Members(s) PROVE x = Head(s) \/ x \in Members(Tail(s))
      <3>1. PICK i \in 1..Len(s) : x = s[i]  BY <1>1, <2>1 DEF Members
      <3>2. CASE i = 1  BY <1>1, <3>1, <3>2
      <3>3. CASE i - 1 \in 1..(Len(s) - 1)
        <4>1. Tail(s)[i - 1] = x  BY <1>1, <1>4, <3>1, <3>3
        <4> QED  BY <1>1, <3>3, <4>1 DEF Members
      <3> QED  BY <1>2, <3>2, <3>3
    <2>2. \A x \in Members(Tail(s)) : x \in Members(s)
      BY <1>1, <1>3 DEF Members
    <2>3. Head(s) \in Members(s)  BY <1>1 DEF Members
    <2> QED  BY <2>1, <2>2, <2>3
  <1>6. ASSUME Injective(s) PROVE Injective(Tail(s)) /\ Head(s) \notin Members(Tail(s))
    <2>1. Head(s) \notin Members(Tail(s))
      BY <1>1, <1>3, <1>6 DEF Injective, Members
    <2>2. ASSUME NEW i \in DOMAIN Tail(s), NEW j \in DOMAIN Tail(s), Tail(s)[i] = Tail(s)[j]
          PROVE  i = j
      <3>1. i + 1 = j + 1  BY <1>1, <1>3, <1>6, <2>2 DEF Injective
      <3> QED  BY <1>1, <3>1
    <2> QED  BY <2>1, <2>2 DEF Injective
  <1> QED  BY <1>1, <1>5, <1>6

LEMMA MembersType ==
  ASSUME Control, NEW w \in Workers
  PROVE  /\ Members(active_conns[w]) \subseteq Conns
         /\ Members(new_conns[w]) \subseteq Conns
         /\ Listed(w) \subseteq Conns
  BY DEF Control, Members, Listed

\* The connection in hand is open and nobody else's.
LEMMA InHandOwned ==
  ASSUME Control, Inv, NEW w \in Workers, active_conns[w] # <<>>
  PROVE  /\ Cur(w) \in Conns /\ Cur(w) \in Listed(w)
         /\ Cur(w) \notin Members(Tail(active_conns[w]))
         /\ Cur(w) \notin Members(new_conns[w])
         /\ Members(active_conns[w]) = {Cur(w)} \cup Members(Tail(active_conns[w]))
         /\ Injective(Tail(active_conns[w]))
         /\ sock[Cur(w)] = "open" /\ owner[Cur(w)] = w
         /\ \A v \in Workers \ {w} : Cur(w) \notin Listed(v)
  <1>1. active_conns[w] \in Seq(Conns)  BY DEF Control
  <1>2. Injective(active_conns[w])
        /\ Members(active_conns[w]) \cap Members(new_conns[w]) = {}
    BY DEF Inv, Tracked, NoDuplicates
  <1>3. /\ Cur(w) \in Conns
        /\ Members(active_conns[w]) = {Cur(w)} \cup Members(Tail(active_conns[w]))
        /\ Injective(Tail(active_conns[w])) /\ Cur(w) \notin Members(Tail(active_conns[w]))
    BY <1>1, <1>2, MembersTail DEF Cur
  <1>4. Cur(w) \in Listed(w)  BY <1>3 DEF Listed
  <1>5. sock[Cur(w)] = "open" /\ owner[Cur(w)] = w  BY <1>4 DEF Inv, Tracked
  <1>6. \A v \in Workers \ {w} : Cur(w) \notin Listed(v)  BY <1>5 DEF Inv, Tracked
  <1> QED  BY <1>2, <1>3, <1>4, <1>5, <1>6

-----------------------------------------------------------------------------
\* The parts of the invariant that hold by looking at one worker or connection.

LEMMA ListsSame ==
  ASSUME UNCHANGED <<active_conns, new_conns>>
  PROVE  \A v \in Workers : Listed(v)' = Listed(v) /\ (NoDuplicates(v) => NoDuplicates(v)')
  <1>1. active_conns' = active_conns /\ new_conns' = new_conns  OBVIOUS
  <1>2. \A v \in Workers : Listed(v)' = Listed(v)  BY <1>1 DEF Listed, Members
  <1>3. \A v \in Workers : NoDuplicates(v)' <=> NoDuplicates(v)
    BY <1>1 DEF NoDuplicates, Injective, Members
  <1> QED  BY <1>2, <1>3

Untouched(c) ==
  /\ sock'[c] = sock[c] /\ owner'[c] = owner[c]
  /\ state'[c] = state[c] /\ file_fd'[c] = file_fd[c]
  /\ read_buf_size'[c] = read_buf_size[c] /\ read_buf_len'[c] = read_buf_len[c]
  /\ read_buf_cursor'[c] = read_buf_cursor[c] /\ sndq'[c] = sndq[c]
  /\ hdr'[c] = hdr[c] /\ wire'[c] = wire[c]

\* The other workers do not move, and have none of the connections D.
Aside(w, D) ==
  /\ D \subseteq Conns
  /\ \A v \in Workers \ {w} :
       /\ pc'[v] = pc[v] /\ resp'[v] = resp[v]
       /\ active_conns'[v] = active_conns[v] /\ new_conns'[v] = new_conns[v]
       /\ Listed(v) \cap D = {}

\* A step of w that touches the connections in D, none of which another worker
\* has on its lists, and drops no other connection from its own.
LEMMA StepFrame ==
  ASSUME Control, Inv, NEW w \in Workers, NEW D, Aside(w, D),
         \A d \in Conns \ D : Untouched(d),
         peer' = peer,
         Listed(w) \ D \subseteq Listed(w)',
         Tracked(w)', AtRest(w)', HandOK(w)',
         \A d \in D : FdOK(d)' /\ LifeOK(d)'
  PROVE  Inv'
  <1>1. ASSUME NEW v \in Workers \ {w}
        PROVE  Listed(v)' = Listed(v) /\ Tracked(v)' /\ AtRest(v)' /\ HandOK(v)'
    <2>1. /\ active_conns'[v] = active_conns[v] /\ new_conns'[v] = new_conns[v]
          /\ pc'[v] = pc[v] /\ resp'[v] = resp[v]
          /\ Cur(v)' = Cur(v)
      BY <1>1 DEF Cur, Aside
    <2>2. Listed(v)' = Listed(v) /\ (NoDuplicates(v) => NoDuplicates(v)')
      BY <2>1 DEF Listed, NoDuplicates, Injective, Members
    <2>3. \A d \in Listed(v) : d \in Conns \ D  BY <1>1, MembersType DEF Aside
    <2>4. Tracked(v) /\ AtRest(v) /\ HandOK(v)  BY <1>1 DEF Inv
    <2>5. Tracked(v)'
      BY <2>2, <2>3, <2>4 DEF Tracked, Untouched
    <2>6. AtRest(v)'
      BY <2>1, <2>2, <2>3, <2>4 DEF AtRest, Busy, InHand, Fresh, Untouched
    <2>7. HandOK(v)'
      <3>1. CASE pc[v] \in InCall \cup {"settle"}
        <4>1. active_conns[v] # <<>>  BY <1>1, <3>1 DEF Control, HandFull
        <4>2. Cur(v) \in Conns \ D  BY <1>1, <2>3, <4>1, InHandOwned
        <4> QED  BY <2>1, <2>4, <4>2 DEF HandOK, Fresh, HasBody, Untouched
      <3>2. CASE pc[v] \notin InCall \cup {"settle"}
        BY <2>1, <2>4, <3>2 DEF HandOK, InCall
      <3> QED  BY <3>1, <3>2
    <2> QED  BY <2>2, <2>5, <2>6, <2>7
  <1>2. ASSUME NEW d \in Conns \ D PROVE FdOK(d)' /\ LifeOK(d)'
    <2>1. FdOK(d) /\ LifeOK(d)  BY <1>2 DEF Inv
    <2>2. LifeOK(d)'  BY <1>2, <2>1 DEF LifeOK, SilentOK, HeaderOK, BodyOK, Untouched
    <2>3. \A v \in Workers : d \in Listed(v) => d \in Listed(v)'
      BY <1>1, <1>2
    <2>4. Forgotten(d) => Forgotten(d)'  BY <1>2 DEF Forgotten, Untouched
    <2>5. FdOK(d)'  BY <1>2, <2>1, <2>3, <2>4 DEF FdOK, Fresh, Untouched
    <2> QED  BY <2>2, <2>5
  <1> QED  BY <1>1, <1>2 DEF Inv

\* A step of the handler: it leaves lists and sockets alone and touches at most
\* the connection in hand.
LEMMA HandlerFrame ==
  ASSUME Control, Inv, NEW w \in Workers, active_conns[w] # <<>>,
         pc'[w] \in InCall \cup {"settle"},
         NEW c, c = Cur(w),
         UNCHANGED <<sock, owner, peer, active_conns, new_conns>>,
         \A v \in Workers \ {w} : pc'[v] = pc[v] /\ resp'[v] = resp[v],
         \A d \in Conns \ {c} :
           /\ state'[d] = state[d] /\ file_fd'[d] = file_fd[d]
           /\ read_buf_size'[d] = read_buf_size[d] /\ read_buf_len'[d] = read_buf_len[d]
           /\ read_buf_cursor'[d] = read_buf_cursor[d] /\ sndq'[d] = sndq[d]
           /\ hdr'[d] = hdr[d] /\ wire'[d] = wire[d],
         HandOK(w)', LifeOK(c)'
  PROVE  Inv'
  <1>1. /\ c \in Conns /\ c \in Listed(w) /\ sock[c] = "open" /\ owner[c] = w
        /\ \A v \in Workers \ {w} : Listed(v) \cap {c} = {}
    BY InHandOwned
  <1>2. Listed(w)' = Listed(w) /\ Tracked(w)'
    BY ListsSame DEF Inv, Tracked
  <1>3. AtRest(w)'
    <2>1. InHand(w)' /\ Cur(w)' = c  BY DEF InHand, Cur
    <2>2. ASSUME NEW d \in Listed(w), d # c PROVE Fresh(d)' \/ (state[d] = "CONN_SENDING")'
      <3>1. d \in Conns  BY <2>2, MembersType
      <3>2. Fresh(d) \/ state[d] = "CONN_SENDING"  BY <2>2 DEF Inv, AtRest, Busy
      <3> QED  BY <2>2, <3>1, <3>2 DEF Fresh
    <2> QED  BY <1>2, <2>1, <2>2 DEF AtRest, Busy
  <1>4. FdOK(c)'  BY <1>1, <1>2 DEF FdOK
  <1>5. Aside(w, {c})  BY <1>1 DEF Aside
  <1>6. \A d \in Conns \ {c} : Untouched(d)  BY DEF Untouched
  <1>7. Listed(w) \ {c} \subseteq Listed(w)' /\ \A d \in {c} : FdOK(d)' /\ LifeOK(d)'
    BY <1>2, <1>4
  <1>8. peer' = peer  OBVIOUS
  <1> QED  BY <1>2, <1>3, <1>5, <1>6, <1>7, <1>8, StepFrame

-----------------------------------------------------------------------------
\* The handler.

LEMMA CallFacts ==
  ASSUME Control, Inv, NEW w \in Workers, pc[w] \in InCall \cup {"settle"}
  PROVE  /\ active_conns[w] # <<>> /\ Cur(w) \in Conns /\ Cur(w) \in Listed(w)
         /\ sock[Cur(w)] = "open" /\ owner[Cur(w)] = w
         /\ HandOK(w) /\ LifeOK(Cur(w)) /\ FdOK(Cur(w))
  <1>1. active_conns[w] # <<>>  BY DEF Control, HandFull
  <1>2. /\ Cur(w) \in Conns /\ Cur(w) \in Listed(w)
        /\ sock[Cur(w)] = "open" /\ owner[Cur(w)] = w
    BY <1>1, InHandOwned
  <1> QED  BY <1>1, <1>2 DEF Inv

\* Where a step to label leaves the workers.
LEMMA GotoPc ==
  ASSUME Control, NEW w \in Workers, NEW label, pc' = [pc EXCEPT ![w] = label]
  PROVE  pc'[w] = label /\ \A v \in Workers \ {w} : pc'[v] = pc[v]
  BY DEF Control

LEMMA RespSame ==
  ASSUME Data, NEW w \in Workers, NEW r, resp' = [resp EXCEPT ![w] = r]
  PROVE  resp'[w] = r /\ \A v \in Workers \ {w} : resp'[v] = resp[v]
  BY DEF Data

LEMMA ErrorHasNoBody ==
  \A code : ErrorResponse(code).req = "NULL" /\ ~HasBody(ErrorResponse(code))
  BY DEF ErrorResponse, HasBody

LEMMA ReadAndParseInv ==
  ASSUME Control, Data, Inv, NEW w \in Workers, ReadAndParse(w)
  PROVE  Inv'
  <1> DEFINE c == Cur(w)
  <1>1. /\ active_conns[w] # <<>> /\ c \in Conns
        /\ HandOK(w) /\ LifeOK(c) /\ pc[w] = "read" /\ c' = c
    BY CallFacts DEF ReadAndParse, InCall, listVars, Cur
  <1>2. state[c] = "CONN_WAITING" /\ file_fd[c] = -1  BY <1>1 DEF HandOK, Fresh
  <1>reply. PICK r : \E label \in {"locate", "respond"} :
          /\ resp' = [resp EXCEPT ![w] = r]
          /\ pc' = [pc EXCEPT ![w] = label]
          /\ r.req # "NULL" => r.code = "HTTP_OK"
          /\ label = "respond" => r.req = "NULL"
    <2>1. CASE \E m \in {"HTTP_GET", "HTTP_HEAD"} :
                 /\ resp' = [resp EXCEPT ![w] = [req |-> m, code |-> "HTTP_OK", size |-> 0]]
                 /\ Goto(w, "locate")
      <3>1. PICK m \in {"HTTP_GET", "HTTP_HEAD"} :
              resp' = [resp EXCEPT ![w] = [req |-> m, code |-> "HTTP_OK", size |-> 0]]
        BY <2>1
      <3> DEFINE r == [req |-> m, code |-> "HTTP_OK", size |-> 0]
      <3>2. r.code = "HTTP_OK"  OBVIOUS
      <3>3. resp' = [resp EXCEPT ![w] = r] /\ pc' = [pc EXCEPT ![w] = "locate"]
        BY <2>1, <3>1 DEF Goto
      <3> HIDE DEF r
      <3> QED  BY <3>2, <3>3
    <2>2. CASE \E code : resp' = [resp EXCEPT ![w] = ErrorResponse(code)] /\ Goto(w, "respond")
      BY <2>2, ErrorHasNoBody DEF Goto
    <2> QED  BY <2>1, <2>2 DEF ReadAndParse
  <1>3. PICK label \in {"locate", "respond"} :
          /\ resp' = [resp EXCEPT ![w] = r]
          /\ pc' = [pc EXCEPT ![w] = label]
          /\ r.req # "NULL" => r.code = "HTTP_OK"
          /\ label = "respond" => r.req = "NULL"
    BY <1>reply
  <1>4. pc'[w] = label /\ \A v \in Workers \ {w} : pc'[v] = pc[v]  BY <1>3, GotoPc
  <1>5. resp'[w] = r /\ \A v \in Workers \ {w} : resp'[v] = resp[v]  BY <1>3, RespSame
  <1>6. HandOK(w)'
    BY <1>1, <1>2, <1>3, <1>4, <1>5 DEF HandOK, HasBody, ReadAndParse
  <1>7. LifeOK(c)'
    BY <1>1 DEF ReadAndParse, LifeOK, SilentOK, HeaderOK, BodyOK
  <1>8. \A d \in Conns \ {c} : read_buf_size'[d] = read_buf_size[d]
    BY <1>1 DEF ReadAndParse, AllocReadBuf, Data
  <1> HIDE DEF c
  <1>9. c = Cur(w)  BY DEF c
  <1> QED
    BY <1>1, <1>4, <1>5, <1>6, <1>7, <1>8, <1>9, HandlerFrame DEF ReadAndParse, InCall, listVars

LEMMA ReadEofInv ==
  ASSUME Control, Data, Inv, NEW w \in Workers, ReadEof(w)
  PROVE  Inv'
  <1> DEFINE c == Cur(w)
  <1>1. /\ active_conns[w] # <<>> /\ c \in Conns
        /\ HandOK(w) /\ LifeOK(c) /\ pc[w] = "read" /\ c' = c
    BY CallFacts DEF ReadEof, InCall, listVars, Cur
  <1>2. pc'[w] = "settle" /\ \A v \in Workers \ {w} : pc'[v] = pc[v]
    BY GotoPc DEF ReadEof, Return
  <1>3. HandOK(w)'
    BY <1>1, <1>2 DEF ReadEof, HandOK, HasBody, sockVars
  <1>4. LifeOK(c)'
    BY <1>1 DEF ReadEof, LifeOK, SilentOK, HeaderOK, BodyOK, sockVars, outVars
  <1>5. \A d \in Conns \ {c} : read_buf_size'[d] = read_buf_size[d]
    BY <1>1 DEF ReadEof, AllocReadBuf, Data
  <1> HIDE DEF c
  <1>6. c = Cur(w)  BY DEF c
  <1> QED
    BY <1>1, <1>2, <1>3, <1>4, <1>5, <1>6, HandlerFrame
    DEF ReadEof, listVars, sockVars, outVars

LEMMA ReadErrorInv ==
  ASSUME Control, Data, Inv, NEW w \in Workers, ReadError(w)
  PROVE  Inv'
  <1> DEFINE c == Cur(w)
  <1>1. /\ active_conns[w] # <<>> /\ c \in Conns
        /\ HandOK(w) /\ LifeOK(c) /\ pc[w] = "read" /\ c' = c
    BY CallFacts DEF ReadError, InCall, listVars, Cur
  <1>2. pc'[w] = "settle" /\ \A v \in Workers \ {w} : pc'[v] = pc[v]
    BY GotoPc DEF ReadError, ReturnWith, Return
  <1>3. /\ state[c] = "CONN_WAITING" /\ state'[c] = "CONN_ERR_RECOVERABLE"
        /\ \A d \in Conns \ {c} : state'[d] = state[d]
    BY <1>1 DEF ReadError, ReturnWith, Data, HandOK, Fresh
  <1>4. HandOK(w)'
    BY <1>1, <1>2, <1>3 DEF ReadError, HandOK, HasBody
  <1>5. LifeOK(c)'
    BY <1>1, <1>3 DEF ReadError, LifeOK, SilentOK, HeaderOK, BodyOK, sockVars, outVars
  <1>6. \A d \in Conns \ {c} : read_buf_size'[d] = read_buf_size[d]
    BY <1>1 DEF ReadError, AllocReadBuf, Data
  <1> HIDE DEF c
  <1>7. c = Cur(w)  BY DEF c
  <1> QED
    BY <1>1, <1>2, <1>3, <1>4, <1>5, <1>6, <1>7, HandlerFrame
    DEF ReadError, listVars, sockVars, outVars

LEMMA LocateInv ==
  ASSUME Control, Data, Inv, NEW w \in Workers, Locate(w)
  PROVE  Inv'
  <1> DEFINE c == Cur(w)
  <1>1. /\ active_conns[w] # <<>> /\ c \in Conns
        /\ HandOK(w) /\ LifeOK(c) /\ pc[w] = "locate" /\ c' = c
    BY CallFacts DEF Locate, InCall, listVars, Cur
  <1>2. resp[w] \in Responses  BY DEF Data
  <1>reply. PICK r : \E label \in {"open", "respond"} :
          /\ resp' = [resp EXCEPT ![w] = r]
          /\ pc' = [pc EXCEPT ![w] = label]
          /\ r.req # "NULL" => r.code = "HTTP_OK"
          /\ label = "respond" => ~HasBody(r)
    <2>1. CASE \E code \in Errors :
                 resp' = [resp EXCEPT ![w] = ErrorResponse(code)] /\ Goto(w, "respond")
      BY <2>1, ErrorHasNoBody DEF Goto
    <2>2. CASE /\ resp' = [resp EXCEPT ![w].size = fsize]
               /\ Goto(w, IF resp[w].req = "HTTP_GET" THEN "open" ELSE "respond")
      <3> DEFINE r == [resp[w] EXCEPT !.size = fsize]
      <3>1. resp' = [resp EXCEPT ![w] = r]  BY <2>2
      <3>2. r.req = resp[w].req /\ r.code = resp[w].code  BY <1>2 DEF Responses
      <3>3. r.req # "NULL" => r.code = "HTTP_OK"  BY <1>1, <3>2 DEF HandOK
      <3> HIDE DEF r
      <3>4. CASE resp[w].req = "HTTP_GET"
        BY <2>2, <3>1, <3>2, <3>3, <3>4 DEF Goto
      <3>5. CASE resp[w].req # "HTTP_GET"
        BY <2>2, <3>1, <3>2, <3>3, <3>5 DEF Goto, HasBody
      <3> QED  BY <3>4, <3>5
    <2> QED  BY <2>1, <2>2 DEF Locate
  <1>3. PICK label \in {"open", "respond"} :
          /\ resp' = [resp EXCEPT ![w] = r]
          /\ pc' = [pc EXCEPT ![w] = label]
          /\ r.req # "NULL" => r.code = "HTTP_OK"
          /\ label = "respond" => ~HasBody(r)
    BY <1>reply
  <1>4. pc'[w] = label /\ \A v \in Workers \ {w} : pc'[v] = pc[v]  BY <1>3, GotoPc
  <1>5. resp'[w] = r /\ \A v \in Workers \ {w} : resp'[v] = resp[v]  BY <1>3, RespSame
  <1>6. HandOK(w)'
    BY <1>1, <1>3, <1>4, <1>5 DEF HandOK, HasBody, Locate, connVars
  <1>7. LifeOK(c)'
    BY <1>1 DEF Locate, LifeOK, SilentOK, HeaderOK, BodyOK, connVars, outVars
  <1> HIDE DEF c
  <1>8. c = Cur(w)  BY DEF c
  <1> QED
    BY <1>1, <1>4, <1>5, <1>6, <1>7, <1>8, HandlerFrame
    DEF Locate, InCall, listVars, connVars, outVars

LEMMA OpenFileInv ==
  ASSUME Control, Data, Inv, NEW w \in Workers, OpenFile(w)
  PROVE  Inv'
  <1> DEFINE c == Cur(w)
  <1>1. /\ active_conns[w] # <<>> /\ c \in Conns
        /\ HandOK(w) /\ LifeOK(c) /\ pc[w] = "open" /\ c' = c
    BY CallFacts DEF OpenFile, InCall, listVars, Cur
  <1>2. pc'[w] = "respond" /\ \A v \in Workers \ {w} : pc'[v] = pc[v]
    BY GotoPc DEF OpenFile, Goto
  <1>3. /\ file_fd' = file_fd \/ file_fd'[c] = 0
        /\ \A d \in Conns \ {c} : file_fd'[d] = file_fd[d]
        /\ resp'[w].req # "NULL" => resp'[w].code = "HTTP_OK" /\ file_fd'[c] # -1
        /\ \A v \in Workers \ {w} : resp'[v] = resp[v]
    <2>1. CASE /\ \E code \in Errors : resp' = [resp EXCEPT ![w] = ErrorResponse(code)]
               /\ UNCHANGED file_fd
      BY <2>1 DEF ErrorResponse, Data
    <2>2. CASE file_fd' = [file_fd EXCEPT ![c] = 0] /\ UNCHANGED resp
      BY <1>1, <2>2 DEF Data, HandOK
    <2> QED  BY <2>1, <2>2 DEF OpenFile
  <1>4. HandOK(w)'
    BY <1>1, <1>2, <1>3 DEF OpenFile, HandOK, HasBody
  <1>5. LifeOK(c)'
    <2>1. state[c] = "CONN_WAITING"  BY <1>1 DEF HandOK
    <2> QED
      BY <1>1, <1>3, <2>1
      DEF OpenFile, LifeOK, SilentOK, HeaderOK, BodyOK, sockVars, outVars
  <1> HIDE DEF c
  <1>6. c = Cur(w)  BY DEF c
  <1> QED
    BY <1>1, <1>2, <1>3, <1>4, <1>5, <1>6, HandlerFrame
    DEF OpenFile, InCall, listVars, sockVars, outVars

\* The process ends: its connections are closed, and nobody else's.
LEMMA DieInv ==
  ASSUME Control, Data, Inv, NEW w \in Workers, NEW how \in Dead, NEW lost \in SUBSET Backlog,
         Die(w, how, lost)
  PROVE  Inv'
  <1>1. /\ pc'[w] = how /\ active_conns'[w] = <<>> /\ new_conns'[w] = <<>>
        /\ \A v \in Workers \ {w} :
             /\ pc'[v] = pc[v] /\ active_conns'[v] = active_conns[v]
             /\ new_conns'[v] = new_conns[v]
        /\ UNCHANGED <<peer, state, read_buf_size, read_buf_len, read_buf_cursor, sndq, resp,
                       owner, hdr, wire>>
    BY DEF Die, Control
  <1>2. /\ \A c \in Conns : sock'[c] = IF c \in lost \/ (owner[c] = w /\ sock[c] = "open")
                                       THEN "closed" ELSE sock[c]
        /\ \A c \in Conns : file_fd'[c] = IF owner[c] = w THEN -1 ELSE file_fd[c]
    BY DEF Die
  <1>3. Listed(w)' = {} /\ NoDuplicates(w)'
    BY <1>1 DEF Listed, Members, NoDuplicates, Injective
  <1>4. Tracked(w)' /\ AtRest(w)'  BY <1>3 DEF Tracked, AtRest
  <1>5. HandOK(w)'
    BY <1>1 DEF HandOK, Dead, Inv
  <1>6. ASSUME NEW v \in Workers \ {w} PROVE Tracked(v)' /\ AtRest(v)' /\ HandOK(v)'
    <2>1. Tracked(v) /\ AtRest(v) /\ HandOK(v) /\ Listed(v) \subseteq Conns
      BY <1>6, MembersType DEF Inv
    <2>2. Listed(v)' = Listed(v) /\ (NoDuplicates(v) => NoDuplicates(v)')
      <3>1. active_conns'[v] = active_conns[v] /\ new_conns'[v] = new_conns[v]
        BY <1>1, <1>6
      <3>2. Listed(v)' = Listed(v)  BY <3>1 DEF Listed
      <3>3. NoDuplicates(v) => NoDuplicates(v)'  BY <3>1, <3>2 DEF NoDuplicates, Listed
      <3> QED  BY <3>2, <3>3
    <2>3. \A c \in Listed(v) : sock'[c] = sock[c] /\ file_fd'[c] = file_fd[c]
      BY <1>2, <1>6, <2>1 DEF Tracked, Backlog
    <2>4. Tracked(v)'  BY <1>1, <2>1, <2>2, <2>3 DEF Tracked
    <2>5. AtRest(v)'
      BY <1>1, <1>6, <2>1, <2>2, <2>3 DEF AtRest, Busy, InHand, Cur, Fresh
    <2>6. HandOK(v)'
      <3>1. CASE pc[v] \in InCall \cup {"settle"}
        <4>1. Cur(v) \in Listed(v) /\ Cur(v)' = Cur(v)
          BY <1>1, <1>6, <3>1, CallFacts DEF Cur
        <4> QED  BY <1>1, <1>6, <2>1, <2>3, <4>1 DEF HandOK, Fresh, HasBody
      <3>2. CASE pc[v] \notin InCall \cup {"settle"}
        BY <1>1, <1>6, <2>1, <3>2 DEF HandOK, InCall
      <3> QED  BY <3>1, <3>2
    <2> QED  BY <2>4, <2>5, <2>6
  <1>7. ASSUME NEW c \in Conns PROVE FdOK(c)' /\ LifeOK(c)'
    <2>1. FdOK(c) /\ LifeOK(c)  BY <1>7 DEF Inv
    <2>2. LifeOK(c)'
      BY <1>1, <1>2, <1>7, <2>1 DEF LifeOK, SilentOK, HeaderOK, BodyOK
    <2>3. ASSUME sock'[c] = "open"
          PROVE  owner'[c] \in Workers /\ (c \in Listed(owner[c])' \/ Forgotten(c)')
      <3>1. sock[c] = "open" /\ owner[c] \in Workers \ {w} /\ owner'[c] = owner[c]
        BY <1>1, <1>2, <2>1, <2>3 DEF FdOK
      <3>2. Listed(owner[c])' = Listed(owner[c])
        <4>1. active_conns'[owner[c]] = active_conns[owner[c]]
              /\ new_conns'[owner[c]] = new_conns[owner[c]]
          BY <1>1, <3>1
        <4> QED  BY <1>1, <4>1 DEF Listed, Members
      <3> QED  BY <1>1, <2>1, <3>1, <3>2 DEF FdOK, Forgotten
    <2>4. FdOK(c)'
      <3>1. file_fd'[c] # -1 => sock'[c] = "open"
        BY <1>2, <2>1 DEF FdOK, Backlog
      <3>2. (sock'[c] \in {"idle", "backlog"}) => Fresh(c)'
        BY <1>1, <1>2, <2>1 DEF FdOK, Fresh
      <3> QED  BY <1>1, <2>3, <3>1, <3>2 DEF FdOK
    <2> QED  BY <2>2, <2>4
  <1> QED  BY <1>4, <1>5, <1>6, <1>7 DEF Inv

LEMMA WriteFailsInv ==
  ASSUME Control, Data, Inv, NEW w \in Workers, pc[w] \in InCall, WriteFails(w)
  PROVE  Inv'
  <1>1. CASE Die(w, "killed", {})
    BY <1>1, DieInv DEF Dead
  <1>2. CASE /\ Abort(w)
             /\ UNCHANGED <<sockVars, file_fd, read_buf_size, read_buf_len, read_buf_cursor,
                            listVars, resp, owner, outVars>>
    <2> DEFINE c == Cur(w)
    <2>1. active_conns[w] # <<>> /\ c \in Conns /\ HandOK(w) /\ LifeOK(c) /\ c' = c
      BY <1>2, CallFacts DEF Cur, listVars
    <2>2. pc'[w] = "settle" /\ \A v \in Workers \ {w} : pc'[v] = pc[v]
      BY <1>2, GotoPc DEF Abort, ReturnWith, Return
    <2>3. /\ state'[c] = "CONN_ERR_UNRECOVERABLE"
          /\ \A d \in Conns \ {c} : state'[d] = state[d]
      BY <1>2, <2>1 DEF Abort, ReturnWith, Data
    <2>4. HandOK(w)'
      BY <1>2, <2>1, <2>2, <2>3 DEF HandOK, HasBody
    <2>5. LifeOK(c)'
      BY <1>2, <2>1, <2>3 DEF LifeOK, SilentOK, HeaderOK, BodyOK, sockVars, outVars
    <2> HIDE DEF c
    <2>6. c = Cur(w)  BY DEF c
    <2> QED
      BY <1>2, <2>1, <2>2, <2>3, <2>4, <2>5, <2>6, HandlerFrame
      DEF listVars, sockVars, outVars
  <1> QED  BY <1>1, <1>2 DEF WriteFails

LEMMA SendHeaderInv ==
  ASSUME Control, Data, Inv, NEW w \in Workers, SendHeader(w)
  PROVE  Inv'
  <1> DEFINE c == Cur(w)
             n == Accepted(c, HdrLen)
             h == [code |-> resp[w].code, size |-> resp[w].size,
                   whole |-> n = HdrLen, end |-> HasBody(resp[w])]
  <1>1. /\ active_conns[w] # <<>> /\ c \in Conns /\ sock[c] = "open"
        /\ HandOK(w) /\ LifeOK(c) /\ pc[w] = "respond" /\ c' = c
    BY CallFacts DEF SendHeader, InCall, listVars, Cur
  <1>2. /\ state[c] \in {"CONN_WAITING", "CONN_ERR_RECOVERABLE"}
        /\ HasBody(resp[w]) => file_fd[c] # -1 /\ resp[w].code = "HTTP_OK"
        /\ hdr[c] = <<>> /\ wire[c] = <<>> /\ sndq[c] = 0
        /\ read_buf_len[c] = 0 /\ read_buf_cursor[c] = 0 /\ file_fd[c] \in {-1, 0}
    BY <1>1 DEF HandOK, HasBody, LifeOK, SilentOK
  <1>3. n = HdrLen
    BY <1>2, HandlerAssumption, SocketsAssumption DEF Accepted, Smaller
  <1>4. PICK s \in States, label \in {"pump", "settle"} :
          /\ state' = [state EXCEPT ![c] = s]
          /\ pc' = [pc EXCEPT ![w] = label]
          /\ \/ s = "CONN_COMPLETE" /\ label = "settle"
             \/ s = "CONN_ERR_UNRECOVERABLE" /\ label = "settle"
             \/ s = "CONN_SENDING" /\ label = "pump" /\ HasBody(resp[w])
    BY DEF SendHeader, Abort, ReturnWith, Return, Goto, States
  <1>5. pc'[w] = label /\ \A v \in Workers \ {w} : pc'[v] = pc[v]  BY <1>4, GotoPc
  <1>6. state'[c] = s /\ \A d \in Conns \ {c} : state'[d] = state[d]
    BY <1>1, <1>4 DEF Data
  <1>7. \A d \in Conns \ {c} : sndq'[d] = sndq[d] /\ hdr'[d] = hdr[d]
    BY <1>1 DEF SendHeader, Data, SocketsTypeOK
  <1>8. hdr'[c] = <<h>>
    <2>1. hdr'[c] = Append(hdr[c], h)  BY <1>1 DEF SendHeader, Data
    <2> HIDE DEF h
    <2> QED  BY <1>2, <2>1
  <1>9. h.whole /\ h.end = HasBody(resp[w]) /\ h.code = resp[w].code  BY <1>3
  <1>10. HandOK(w)'
    BY <1>1, <1>4, <1>5, <1>6 DEF SendHeader, HandOK, HasBody
  <1> HIDE DEF c, n, h
  <1>11. LifeOK(c)'
    <2>1. SilentOK(c)'  BY <1>1, <1>4, <1>6 DEF SilentOK
    <2>2. HeaderOK(c)'
      <3>1. Len(hdr'[c]) = 1 /\ hdr'[c][1] = h  BY <1>8
      <3>2. wire'[c] = <<>>  BY <1>2 DEF SendHeader
      <3>3. s = "CONN_SENDING" => h.end /\ h.code = "HTTP_OK"
        BY <1>2, <1>4, <1>9
      <3>4. hdr'[c] # <<>>  BY <1>8
      <3> QED  BY <1>1, <1>6, <1>9, <3>1, <3>2, <3>3, <3>4 DEF HeaderOK
    <2>3. BodyOK(c)'
      <3>1. /\ read_buf_cursor'[c] = 0 /\ read_buf_len'[c] = 0
            /\ wire'[c] = <<>> /\ file_fd'[c] = file_fd[c]
        BY <1>2 DEF SendHeader
      <3>2. Len(<<>>) = 0 /\ <<>> = [i \in 1..Len(<<>>) |-> i]  OBVIOUS
      <3>3. s = "CONN_SENDING" => file_fd[c] = 0  BY <1>2, <1>4
      <3>4. s = "CONN_SENDING" => file_fd'[c] = 0  BY <3>1, <3>3
      <3>5. wire'[c] = [i \in 1..Len(wire'[c]) |-> i]  BY <3>1, <3>2
      <3>6. Len(wire'[c]) = 0  BY <3>1, <3>2
      <3> QED  BY <1>1, <1>6, <3>1, <3>4, <3>5, <3>6 DEF BodyOK
    <2> QED  BY <2>1, <2>2, <2>3 DEF LifeOK
  <1>12. c = Cur(w)  BY DEF c
  <1> QED
    BY <1>1, <1>5, <1>6, <1>7, <1>10, <1>11, <1>12, HandlerFrame
    DEF SendHeader, InCall, listVars

LEMMA SendHeaderFailsInv ==
  ASSUME Control, Data, Inv, NEW w \in Workers, SendHeaderFails(w)
  PROVE  Inv'
  BY WriteFailsInv DEF SendHeaderFails, InCall

\* What is known of the connection to which the file is being sent.
LEMMA PumpFacts ==
  ASSUME Control, Data, Inv, NEW w \in Workers, pc[w] = "pump"
  PROVE  LET c == Cur(w) IN
         /\ active_conns[w] # <<>> /\ c \in Conns /\ sock[c] = "open"
         /\ HandOK(w) /\ LifeOK(c) /\ state[c] = "CONN_SENDING"
         /\ file_fd[c] \in Nat /\ read_buf_size[c] \in 0..BufSize /\ fsize \in Nat
         /\ read_buf_len[c] \in Nat /\ read_buf_cursor[c] \in Nat
         /\ sndq[c] \in 0..SndBuf /\ SndBuf \in Nat
         /\ wire[c] \in Seq(Int)
         /\ read_buf_cursor[c] <= read_buf_len[c]
         /\ Len(wire[c]) = file_fd[c] - read_buf_len[c] + read_buf_cursor[c]
  <1> DEFINE c == Cur(w)
  <1>1. /\ active_conns[w] # <<>> /\ c \in Conns /\ sock[c] = "open"
        /\ HandOK(w) /\ LifeOK(c)
    BY CallFacts DEF InCall
  <1>2. state[c] = "CONN_SENDING"  BY <1>1 DEF HandOK
  <1>3. /\ file_fd[c] # -1
        /\ Len(wire[c]) = file_fd[c] - read_buf_len[c] + read_buf_cursor[c]
        /\ read_buf_cursor[c] <= read_buf_len[c]
    BY <1>1, <1>2 DEF LifeOK, BodyOK
  <1>4. /\ file_fd[c] \in Nat \cup {-1} /\ fsize \in Nat
        /\ read_buf_len[c] \in 0..BufSize /\ read_buf_cursor[c] \in 0..BufSize
        /\ sndq[c] \in 0..SndBuf /\ wire[c] \in Seq(Int)
    <2> HIDE DEF c
    <2>1. fsize \in Nat /\ sndq[c] \in 0..SndBuf
      BY <1>1, SocketsAssumption DEF Data, SocketsTypeOK
    <2>2. file_fd[c] \in Nat \cup {-1} /\ wire[c] \in Seq(Int)  BY <1>1 DEF Data
    <2>3. read_buf_len[c] \in 0..BufSize /\ read_buf_cursor[c] \in 0..BufSize
      BY <1>1 DEF Data
    <2> QED  BY <2>1, <2>2, <2>3
  <1>5. read_buf_size[c] \in 0..BufSize /\ SndBuf \in Nat
    <2> HIDE DEF c
    <2>1. read_buf_size[c] \in {0, BufSize}  BY <1>1 DEF Data
    <2> QED  BY <2>1, HandlerAssumption, SocketsAssumption
  <1>6. read_buf_len[c] \in Nat /\ read_buf_cursor[c] \in Nat  BY <1>4
  <1>7. file_fd[c] \in Nat  BY <1>3, <1>4
  <1> QED  BY <1>1, <1>2, <1>3, <1>4, <1>5, <1>6, <1>7

LEMMA ReadFileInv ==
  ASSUME Control, Data, Inv, NEW w \in Workers, ReadFile(w)
  PROVE  Inv'
  <1> DEFINE c == Cur(w)
             n == Smaller(read_buf_size[c], fsize - file_fd[c])
  <1>1. /\ active_conns[w] # <<>> /\ c \in Conns /\ sock[c] = "open"
        /\ HandOK(w) /\ LifeOK(c) /\ state[c] = "CONN_SENDING" /\ c' = c /\ pc[w] = "pump"
        /\ file_fd[c] \in Nat /\ read_buf_size[c] \in 0..BufSize /\ fsize \in Nat
        /\ read_buf_len[c] \in Nat /\ read_buf_cursor[c] \in Nat
        /\ read_buf_cursor[c] <= read_buf_len[c]
        /\ Len(wire[c]) = file_fd[c] - read_buf_len[c] + read_buf_cursor[c]
    BY PumpFacts DEF ReadFile, listVars, Cur
  <1>2. Len(wire[c]) = file_fd[c]
    <2>1. read_buf_cursor[c] = read_buf_len[c]  BY <1>1 DEF ReadFile, BufferEmpty
    <2> QED  BY <1>1, <2>1
  <1>3. /\ UNCHANGED <<sock, owner, peer, active_conns, new_conns, sndq, hdr, wire, resp,
                       read_buf_size>>
    BY DEF ReadFile, sockVars, listVars, outVars
  <1>4. CASE /\ ~(n <= 0)
             /\ read_buf_len' = [read_buf_len EXCEPT ![c] = n]
             /\ read_buf_cursor' = [read_buf_cursor EXCEPT ![c] = 0]
             /\ file_fd' = [file_fd EXCEPT ![c] = @ + n]
             /\ Goto(w, "pump")
             /\ UNCHANGED state
    <2>1. n \in Nat /\ 0 <= n  BY <1>1, <1>4 DEF Smaller
    <2>2. pc'[w] = "pump" /\ \A v \in Workers \ {w} : pc'[v] = pc[v]
      BY <1>4, GotoPc DEF Goto
    <2> HIDE DEF n
    <2>3. /\ read_buf_len'[c] = n /\ read_buf_cursor'[c] = 0 /\ file_fd'[c] = file_fd[c] + n
          /\ \A d \in Conns \ {c} : /\ read_buf_len'[d] = read_buf_len[d]
                                    /\ read_buf_cursor'[d] = read_buf_cursor[d]
                                    /\ file_fd'[d] = file_fd[d]
      BY <1>1, <1>4 DEF Data
    <2>4. HandOK(w)'  BY <1>1, <1>3, <1>4, <2>2 DEF HandOK
    <2>5. LifeOK(c)'
      <3>1. SilentOK(c)' /\ HeaderOK(c)'
        BY <1>1, <1>3, <1>4 DEF LifeOK, SilentOK, HeaderOK
      <3>2. file_fd'[c] # -1 /\ Len(wire'[c]) = file_fd'[c] - n + 0
        BY <1>1, <1>2, <1>3, <2>1, <2>3
      <3>3. BodyOK(c)'
        BY <1>1, <1>3, <2>1, <2>3, <3>2 DEF LifeOK, BodyOK
      <3> QED  BY <3>1, <3>3 DEF LifeOK
    <2> HIDE DEF c
    <2>6. c = Cur(w)  BY DEF c
    <2> QED
      BY <1>1, <1>3, <1>4, <2>2, <2>3, <2>4, <2>5, <2>6, HandlerFrame DEF InCall
  <1>5. CASE /\ \E s \in {"CONN_COMPLETE", "CONN_ERR_UNRECOVERABLE"} : ReturnWith(w, s)
             /\ UNCHANGED <<read_buf_len, read_buf_cursor, file_fd>>
    <2>1. pc'[w] = "settle" /\ \A v \in Workers \ {w} : pc'[v] = pc[v]
      BY <1>5, GotoPc DEF ReturnWith, Return
    <2>2. /\ state'[c] \in {"CONN_COMPLETE", "CONN_ERR_UNRECOVERABLE"}
          /\ \A d \in Conns \ {c} : state'[d] = state[d]
      BY <1>1, <1>5 DEF ReturnWith, Data
    <2>3. HandOK(w)'  BY <1>1, <1>3, <2>1, <2>2 DEF HandOK, InCall
    <2>4. LifeOK(c)'
      BY <1>1, <1>3, <1>5, <2>2 DEF LifeOK, SilentOK, HeaderOK, BodyOK
    <2> HIDE DEF c
    <2>5. c = Cur(w)  BY DEF c
    <2> QED  BY <1>1, <1>3, <1>5, <2>1, <2>2, <2>3, <2>4, <2>5, HandlerFrame DEF InCall
  <1> QED  BY <1>4, <1>5 DEF ReadFile, EndOfFile, Abort

\* Appending the next n numbers to the first ones gives the first ones.
LEMMA PrefixGrows ==
  ASSUME NEW s \in Seq(Int), s = [i \in 1..Len(s) |-> i], NEW n \in Nat,
         NEW t, t = s \o [i \in 1..n |-> Len(s) + i]
  PROVE  Len(t) = Len(s) + n /\ t = [i \in 1..Len(t) |-> i]
  <1> DEFINE r == [i \in 1..n |-> Len(s) + i]
  <1>1. r \in Seq(Int) /\ Len(r) = n  OBVIOUS
  <1>2. Len(t) = Len(s) + n  BY <1>1
  <1>3. ASSUME NEW i \in 1..(Len(s) + n) PROVE t[i] = i
    <2>1. CASE i <= Len(s)
      <3>1. i \in 1..Len(s)  BY <1>3, <2>1
      <3>2. t[i] = s[i]  BY <1>1, <3>1
      <3> QED  BY <3>1, <3>2
    <2>2. CASE i > Len(s)
      <3>1. i - Len(s) \in 1..n  BY <1>3, <2>2
      <3>2. t[i] = r[i - Len(s)]  BY <1>1, <1>3, <2>2
      <3>3. r[i - Len(s)] = Len(s) + (i - Len(s))  BY <3>1
      <3> QED  BY <3>2, <3>3
    <2> QED  BY <2>1, <2>2
  <1>4. t \in Seq(Int)  BY <1>1
  <1>5. t = [i \in 1..Len(t) |-> i]
    <2>1. t = [i \in 1..Len(t) |-> t[i]]  BY ONLY <1>4
    <2> QED  BY <1>2, <1>3, <2>1
  <1> QED  BY <1>2, <1>5

LEMMA WriteSocketInv ==
  ASSUME Control, Data, Inv, NEW w \in Workers, WriteSocket(w)
  PROVE  Inv'
  <1> DEFINE c == Cur(w)
             n == Accepted(c, read_buf_len[c] - read_buf_cursor[c])
             first == file_fd[c] - read_buf_len[c] + read_buf_cursor[c]
  <1>1. /\ active_conns[w] # <<>> /\ c \in Conns /\ sock[c] = "open"
        /\ HandOK(w) /\ LifeOK(c) /\ state[c] = "CONN_SENDING" /\ c' = c /\ pc[w] = "pump"
        /\ file_fd[c] \in Nat
        /\ read_buf_len[c] \in Nat /\ read_buf_cursor[c] \in Nat
        /\ sndq[c] \in 0..SndBuf /\ SndBuf \in Nat
        /\ wire[c] \in Seq(Int)
        /\ read_buf_cursor[c] <= read_buf_len[c]
        /\ Len(wire[c]) = first
    BY PumpFacts DEF WriteSocket, listVars, Cur
  <1>2. UNCHANGED <<sock, owner, peer, active_conns, new_conns, hdr, state, file_fd, resp,
                    read_buf_len, read_buf_size>>
    BY DEF WriteSocket, listVars
  <1>3. CASE /\ n > 0
             /\ sndq' = [sndq EXCEPT ![c] = @ + n]
             /\ wire' = [wire EXCEPT ![c] = @ \o [i \in 1..n |-> first + i]]
             /\ read_buf_cursor' = [read_buf_cursor EXCEPT ![c] = @ + n]
             /\ Goto(w, "pump")
    <2>1. n \in Nat /\ n <= read_buf_len[c] - read_buf_cursor[c]
      BY <1>1, <1>3 DEF Accepted, Smaller
    <2>2. pc'[w] = "pump" /\ \A v \in Workers \ {w} : pc'[v] = pc[v]
      BY <1>3, GotoPc DEF Goto
    <2> HIDE DEF n
    <2>3. /\ read_buf_cursor'[c] = read_buf_cursor[c] + n
          /\ wire'[c] = wire[c] \o [i \in 1..n |-> Len(wire[c]) + i]
          /\ \A d \in Conns \ {c} : /\ sndq'[d] = sndq[d] /\ wire'[d] = wire[d]
                                    /\ read_buf_cursor'[d] = read_buf_cursor[d]
      BY <1>1, <1>3 DEF Data, SocketsTypeOK
    <2>4. HandOK(w)'  BY <1>1, <1>2, <2>2 DEF HandOK
    <2>5. LifeOK(c)'
      <3>1. SilentOK(c)' /\ HeaderOK(c)'
        BY <1>1, <1>2 DEF LifeOK, SilentOK, HeaderOK
      <3>2. /\ Len(wire'[c]) = Len(wire[c]) + n
            /\ wire'[c] = [i \in 1..Len(wire'[c]) |-> i]
        <4>1. wire[c] \in Seq(Int) /\ wire[c] = [i \in 1..Len(wire[c]) |-> i]
          BY <1>1 DEF LifeOK, BodyOK
        <4>2. n \in Nat  BY <2>1
        <4>3. wire'[c] = wire[c] \o [i \in 1..n |-> Len(wire[c]) + i]  BY <2>3
        <4> HIDE DEF c
        <4> QED  BY <4>1, <4>2, <4>3, PrefixGrows
      <3>3. /\ Len(wire'[c]) = file_fd[c] - read_buf_len[c] + (read_buf_cursor[c] + n)
            /\ read_buf_cursor[c] + n <= read_buf_len[c]
        <4>1. /\ file_fd[c] \in Int /\ read_buf_len[c] \in Int /\ read_buf_cursor[c] \in Int
              /\ Len(wire[c]) = file_fd[c] - read_buf_len[c] + read_buf_cursor[c]
          BY <1>1
        <4> HIDE DEF c
        <4> QED  BY <2>1, <3>2, <4>1
      <3>4. /\ read_buf_len'[c] = read_buf_len[c] /\ file_fd'[c] = file_fd[c]
            /\ state' = state /\ sock' = sock
        BY <1>2
      <3>5. BodyOK(c)'
        <4> HIDE DEF c
        <4>1. read_buf_cursor'[c] <= read_buf_len'[c]  BY <2>3, <3>3, <3>4
        <4>2. Len(wire'[c]) = file_fd'[c] - read_buf_len'[c] + read_buf_cursor'[c]
          BY <2>3, <3>3, <3>4
        <4>3. file_fd'[c] # -1  BY <1>1, <3>4
        <4> QED  BY <1>1, <3>2, <4>1, <4>2, <4>3 DEF BodyOK
      <3> QED  BY <3>1, <3>5 DEF LifeOK
    <2> HIDE DEF c
    <2>6. c = Cur(w)  BY DEF c
    <2> QED  BY <1>1, <1>2, <2>2, <2>3, <2>4, <2>5, <2>6, HandlerFrame DEF InCall
  <1>4. CASE n = 0 /\ Return(w) /\ UNCHANGED <<sndq, wire, read_buf_cursor>>
    <2>1. pc'[w] = "settle" /\ \A v \in Workers \ {w} : pc'[v] = pc[v]
      BY <1>4, GotoPc DEF Return
    <2>2. HandOK(w)'  BY <1>1, <1>2, <2>1 DEF HandOK
    <2>3. LifeOK(c)'  BY <1>1, <1>2, <1>4 DEF LifeOK, SilentOK, HeaderOK, BodyOK
    <2> HIDE DEF c
    <2>4. c = Cur(w)  BY DEF c
    <2> QED  BY <1>1, <1>2, <1>4, <2>1, <2>2, <2>3, <2>4, HandlerFrame
  <1> QED  BY <1>3, <1>4 DEF WriteSocket

LEMMA WriteSocketFailsInv ==
  ASSUME Control, Data, Inv, NEW w \in Workers, WriteSocketFails(w)
  PROVE  Inv'
  BY WriteFailsInv DEF WriteSocketFails, InCall

-----------------------------------------------------------------------------
\* The event loop.

LEMMA InitInv == Init => Inv
  <1> SUFFICES ASSUME Init PROVE Inv  OBVIOUS
  <1>1. ASSUME NEW w \in Workers PROVE Tracked(w) /\ AtRest(w) /\ HandOK(w)
    BY <1>1 DEF Init, Tracked, AtRest, HandOK, Listed, Members, NoDuplicates, Injective,
                ErrorResponse
  <1>2. ASSUME NEW c \in Conns PROVE FdOK(c) /\ LifeOK(c)
    <2>1. FdOK(c)  BY <1>2 DEF Init, SocketsInit, FdOK, Fresh
    <2>2. LifeOK(c)
      BY <1>2 DEF Init, SocketsInit, LifeOK, SilentOK, HeaderOK, BodyOK
    <2> QED  BY <2>1, <2>2
  <1> QED  BY <1>1, <1>2 DEF Inv

\* Steps of the loop that leave the lists and the connections alone.
LEMMA LoopFrame ==
  ASSUME Control, Inv, NEW w \in Workers, HandOK(w)', AtRest(w)',
         \A v \in Workers \ {w} : pc'[v] = pc[v] /\ resp'[v] = resp[v],
         UNCHANGED <<sockVars, connVars, active_conns, new_conns, owner, outVars>>
  PROVE  Inv'
  <1>1. UNCHANGED <<sock, peer, sndq, owner, state, file_fd, read_buf_size, read_buf_len,
                    read_buf_cursor, hdr, wire, active_conns, new_conns>>
    BY DEF sockVars, connVars, outVars
  <1>2. Listed(w)' = Listed(w) /\ Tracked(w)'
    BY <1>1, ListsSame DEF Inv, Tracked
  <1>3. Aside(w, {}) /\ \A d \in Conns \ {} : Untouched(d)
    BY <1>1 DEF Aside, Untouched
  <1>4. Listed(w) \ {} \subseteq Listed(w)' /\ \A d \in {} : FdOK(d)' /\ LifeOK(d)'
    BY <1>2
  <1>5. peer' = peer  BY <1>1
  <1> QED  BY <1>2, <1>3, <1>4, <1>5, StepFrame

LEMMA SelectInv ==
  ASSUME Control, Data, Inv, NEW w \in Workers, Select(w)
  PROVE  Inv'
  <1>1. /\ pc'[w] \in {"accept", "dispatch"} /\ \A v \in Workers \ {w} : pc'[v] = pc[v]
        /\ UNCHANGED <<sockVars, connVars, active_conns, new_conns, resp, owner, outVars>>
    BY DEF Select, Goto, Control
  <1>2. HandOK(w)'  BY <1>1 DEF HandOK, InCall, Inv
  <1>3. AtRest(w)'
    BY <1>1, ListsSame DEF Select, Inv, AtRest, Busy, InHand, InCall, Fresh, connVars
  <1> QED  BY <1>1, <1>2, <1>3, LoopFrame

LEMMA AcceptNothingInv ==
  ASSUME Control, Data, Inv, NEW w \in Workers, AcceptNothing(w)
  PROVE  Inv'
  <1>1. /\ pc'[w] = "dispatch" /\ \A v \in Workers \ {w} : pc'[v] = pc[v]
        /\ UNCHANGED <<sockVars, connVars, active_conns, new_conns, resp, owner, outVars>>
    BY DEF AcceptNothing, Goto, Control, listVars
  <1>2. HandOK(w)'  BY <1>1 DEF HandOK, InCall, Inv
  <1>3. AtRest(w)'
    BY <1>1, ListsSame DEF AcceptNothing, Inv, AtRest, Busy, InHand, InCall, Fresh, connVars
  <1> QED  BY <1>1, <1>2, <1>3, LoopFrame

LEMMA DispatchReadyInv ==
  ASSUME Control, Data, Inv, NEW w \in Workers, DispatchReady(w)
  PROVE  Inv'
  <1>1. /\ pc'[w] = IF state[Cur(w)] = "CONN_WAITING" THEN "read" ELSE "pump"
        /\ \A v \in Workers \ {w} : pc'[v] = pc[v]
        /\ UNCHANGED <<sockVars, connVars, active_conns, new_conns, resp, owner, outVars>>
    BY DEF DispatchReady, Control, listVars
  <1>2. Cur(w) \in Listed(w) /\ Cur(w)' = Cur(w)
    BY <1>1, InHandOwned DEF DispatchReady, Cur
  <1>3. Fresh(Cur(w)) \/ state[Cur(w)] = "CONN_SENDING"
    BY <1>2 DEF DispatchReady, Inv, AtRest, Busy, InHand, InCall
  <1>4. HandOK(w)'
    BY <1>1, <1>2, <1>3 DEF HandOK, Inv, Fresh, connVars
  <1>5. AtRest(w)'
    BY <1>1, ListsSame DEF DispatchReady, Inv, AtRest, Busy, InHand, InCall, Fresh, connVars
  <1> QED  BY <1>1, <1>4, <1>5, LoopFrame

LEMMA SettleRecoverableInv ==
  ASSUME Control, Data, Inv, NEW w \in Workers, SettleRecoverable(w)
  PROVE  Inv'
  <1> DEFINE r == ErrorResponse("HTTP_INTERNAL_SERVER_ERROR")
  <1>1. /\ pc'[w] = "respond" /\ \A v \in Workers \ {w} : pc'[v] = pc[v]
        /\ UNCHANGED <<sockVars, connVars, active_conns, new_conns, owner, outVars>>
    BY DEF SettleRecoverable, Control, listVars
  <1>2. resp'[w] = r /\ \A v \in Workers \ {w} : resp'[v] = resp[v]
    BY RespSame DEF SettleRecoverable
  <1>3. r.req = "NULL" /\ ~HasBody(r)  BY ErrorHasNoBody
  <1> HIDE DEF r
  <1>4. state'[Cur(w)'] = "CONN_ERR_RECOVERABLE"
    BY <1>1 DEF SettleRecoverable, Cur, connVars
  <1>5. HandOK(w)'
    BY <1>1, <1>2, <1>3, <1>4 DEF HandOK, HasBody
  <1>6. active_conns[w] # <<>>  BY CallFacts DEF SettleRecoverable
  <1>7. AtRest(w)'
    BY <1>1, <1>6, ListsSame
    DEF SettleRecoverable, Inv, AtRest, Busy, InHand, InCall, Fresh, connVars, Cur
  <1> QED  BY <1>1, <1>2, <1>5, <1>7, LoopFrame

\* Moving the connection in hand, which is at rest, to the end of the new list.
LEMMA KeepInv ==
  ASSUME Control, Inv, NEW w \in Workers, active_conns[w] # <<>>,
         Fresh(Cur(w)) \/ state[Cur(w)] = "CONN_SENDING",
         Keep(w), pc' = [pc EXCEPT ![w] = "dispatch"],
         UNCHANGED <<sockVars, connVars, resp, owner, outVars>>
  PROVE  Inv'
  <1> DEFINE c == Cur(w)
  <1>1. /\ c \in Conns /\ c \notin Members(new_conns[w])
        /\ c \notin Members(Tail(active_conns[w]))
        /\ Members(active_conns[w]) = {c} \cup Members(Tail(active_conns[w]))
        /\ Injective(Tail(active_conns[w]))
    BY InHandOwned
  <1>2. /\ active_conns'[w] = Tail(active_conns[w])
        /\ new_conns'[w] = Append(new_conns[w], c)
        /\ pc'[w] = "dispatch"
        /\ \A v \in Workers \ {w} : /\ pc'[v] = pc[v]
                                    /\ active_conns'[v] = active_conns[v]
                                    /\ new_conns'[v] = new_conns[v]
    BY DEF Keep, Control
  <1>3. UNCHANGED <<sock, peer, sndq, owner, state, file_fd, read_buf_size, read_buf_len,
                    read_buf_cursor, hdr, wire, resp>>
    BY DEF sockVars, connVars, outVars
  <1>4. Tracked(w) /\ AtRest(w) /\ HandOK(w)  BY DEF Inv
  <1> HIDE DEF c
  <1>5. /\ Members(Append(new_conns[w], c)) = Members(new_conns[w]) \cup {c}
        /\ Injective(Append(new_conns[w], c))
    BY <1>1, <1>4, MembersAppend DEF Control, Tracked, NoDuplicates
  <1>6. Members(active_conns[w])' = Members(Tail(active_conns[w]))
        /\ Members(new_conns[w])' = Members(new_conns[w]) \cup {c}
    BY <1>2, <1>5 DEF Members
  <1>7. Listed(w)' = Listed(w)  BY <1>1, <1>6 DEF Listed
  <1>8. NoDuplicates(w)'
    <2>1. Injective(active_conns[w])' /\ Injective(new_conns[w])'
      BY <1>1, <1>2, <1>5 DEF Injective
    <2>2. Members(active_conns[w]) \cap Members(new_conns[w]) = {}
      BY <1>4 DEF Tracked, NoDuplicates
    <2> QED  BY <1>1, <1>6, <2>1, <2>2 DEF NoDuplicates
  <1>9. Tracked(w)'  BY <1>3, <1>4, <1>7, <1>8 DEF Tracked
  <1>10. AtRest(w)'
    BY <1>3, <1>4, <1>7 DEF AtRest, Busy, Fresh
  <1>11. HandOK(w)'  BY <1>2, <1>3, <1>4 DEF HandOK
  <1>12. Aside(w, {}) /\ \A d \in Conns \ {} : Untouched(d)
    BY <1>2, <1>3 DEF Aside, Untouched
  <1>13. Listed(w) \ {} \subseteq Listed(w)' /\ \A d \in {} : FdOK(d)' /\ LifeOK(d)'
    BY <1>7
  <1>14. peer' = peer  BY <1>3
  <1> QED  BY <1>9, <1>10, <1>11, <1>12, <1>13, <1>14, StepFrame

LEMMA DispatchUnreadyInv ==
  ASSUME Control, Data, Inv, NEW w \in Workers, DispatchUnready(w)
  PROVE  Inv'
  <1>1. active_conns[w] # <<>> /\ pc[w] = "dispatch"  BY DEF DispatchUnready
  <1>2. Cur(w) \in Listed(w)  BY <1>1, InHandOwned
  <1>3. Fresh(Cur(w)) \/ state[Cur(w)] = "CONN_SENDING"
    BY <1>1, <1>2 DEF Inv, AtRest, Busy, InHand, InCall
  <1>4. pc' = [pc EXCEPT ![w] = "dispatch"]  BY DEF DispatchUnready, Control
  <1> QED  BY <1>1, <1>3, <1>4, KeepInv DEF DispatchUnready

LEMMA SettleSendingInv ==
  ASSUME Control, Data, Inv, NEW w \in Workers, SettleSending(w)
  PROVE  Inv'
  <1>1. active_conns[w] # <<>>  BY CallFacts DEF SettleSending
  <1> QED  BY <1>1, KeepInv DEF SettleSending, Goto

LEMMA EndRoundInv ==
  ASSUME Control, Data, Inv, NEW w \in Workers, EndRound(w)
  PROVE  Inv'
  <1>1. /\ active_conns[w] = <<>> /\ active_conns'[w] = new_conns[w] /\ new_conns'[w] = <<>>
        /\ pc'[w] = "select"
        /\ \A v \in Workers \ {w} : /\ pc'[v] = pc[v]
                                    /\ active_conns'[v] = active_conns[v]
                                    /\ new_conns'[v] = new_conns[v]
    BY DEF EndRound, Goto, Control
  <1>2. UNCHANGED <<sock, peer, sndq, owner, state, file_fd, read_buf_size, read_buf_len,
                    read_buf_cursor, hdr, wire, resp>>
    BY DEF EndRound, sockVars, connVars, outVars
  <1>3. Tracked(w) /\ AtRest(w) /\ HandOK(w)  BY DEF Inv
  <1>4. Members(<<>>) = {} /\ Injective(<<>>)  BY DEF Members, Injective
  <1>5. Listed(w) = Members(new_conns[w])  BY <1>1, <1>4 DEF Listed
  <1>6. Members(active_conns[w])' = Members(new_conns[w]) /\ Members(new_conns[w])' = {}
    BY <1>1, <1>4 DEF Members
  <1>7. Listed(w)' = Listed(w)  BY <1>5, <1>6 DEF Listed
  <1>8. NoDuplicates(w)'
    <2>1. Injective(new_conns[w])  BY <1>3 DEF Tracked, NoDuplicates
    <2>2. Injective(active_conns[w])' /\ Injective(new_conns[w])'
      BY <1>1, <1>4, <2>1 DEF Injective
    <2> QED  BY <1>6, <2>2 DEF NoDuplicates
  <1>9. Tracked(w)'  BY <1>2, <1>3, <1>7, <1>8 DEF Tracked
  <1>10. AtRest(w)'
    BY <1>1, <1>2, <1>3, <1>7 DEF AtRest, Busy, InHand, Fresh
  <1>11. HandOK(w)'  BY <1>1, <1>2, <1>3 DEF HandOK
  <1>12. Aside(w, {}) /\ \A d \in Conns \ {} : Untouched(d)
    BY <1>1, <1>2 DEF Aside, Untouched
  <1>13. Listed(w) \ {} \subseteq Listed(w)' /\ \A d \in {} : FdOK(d)' /\ LifeOK(d)'
    BY <1>7
  <1>14. peer' = peer  BY <1>2
  <1> QED  BY <1>9, <1>10, <1>11, <1>12, <1>13, <1>14, StepFrame

LEMMA AcceptConnInv ==
  ASSUME Control, Data, Inv, NEW w \in Workers, AcceptConn(w)
  PROVE  Inv'
  <1>1. PICK c \in Backlog :
          /\ sock' = [sock EXCEPT ![c] = "open"]
          /\ owner' = [owner EXCEPT ![c] = w]
          /\ state' = [state EXCEPT ![c] = "CONN_WAITING"]
          /\ file_fd' = [file_fd EXCEPT ![c] = -1]
          /\ new_conns' = [new_conns EXCEPT ![w] = Append(@, c)]
    BY DEF AcceptConn
  <1>2. /\ c \in Conns /\ sock[c] = "backlog" /\ Fresh(c) /\ LifeOK(c)
        /\ \A v \in Workers : c \notin Listed(v)
    BY DEF Backlog, Inv, Tracked, FdOK
  <1>3. /\ active_conns'[w] = active_conns[w] /\ new_conns'[w] = Append(new_conns[w], c)
        /\ pc'[w] = "dispatch"
        /\ \A v \in Workers \ {w} : /\ pc'[v] = pc[v]
                                    /\ active_conns'[v] = active_conns[v]
                                    /\ new_conns'[v] = new_conns[v]
    BY <1>1 DEF AcceptConn, Goto, Control
  <1>4. UNCHANGED <<peer, sndq, read_buf_size, read_buf_len, read_buf_cursor, hdr, wire, resp>>
    BY DEF AcceptConn, outVars
  <1>5. /\ sock'[c] = "open" /\ owner'[c] = w /\ Fresh(c)'
        /\ \A d \in Conns \ {c} : Untouched(d)
    BY <1>1, <1>2, <1>4 DEF Data, SocketsTypeOK, Fresh, Untouched
  <1>6. /\ Members(Append(new_conns[w], c)) = Members(new_conns[w]) \cup {c}
        /\ Injective(new_conns[w]) /\ c \notin Members(new_conns[w])
             => Injective(Append(new_conns[w], c))
    BY <1>2, MembersAppend DEF Control
  <1>7. /\ Members(active_conns[w])' = Members(active_conns[w])
        /\ Members(new_conns[w])' = Members(new_conns[w]) \cup {c}
        /\ Listed(w)' = Listed(w) \cup {c}
    BY <1>3, <1>6 DEF Members, Listed
  <1>8. Tracked(w) /\ AtRest(w) /\ HandOK(w) /\ Listed(w) \subseteq Conns
    BY MembersType DEF Inv
  <1>9. NoDuplicates(w)'
    <2>1. Injective(active_conns[w])' /\ Injective(new_conns[w])'
      BY <1>2, <1>3, <1>6, <1>8 DEF Injective, Tracked, NoDuplicates, Listed
    <2> QED  BY <1>2, <1>7, <1>8, <2>1 DEF NoDuplicates, Tracked, Listed
  <1>10. Tracked(w)'
    BY <1>2, <1>5, <1>7, <1>8, <1>9 DEF Tracked, Untouched
  <1>11. AtRest(w)'
    <2>1. ~InHand(w)  BY DEF AcceptConn, InHand, InCall
    <2> QED  BY <1>2, <1>5, <1>7, <1>8, <2>1 DEF AtRest, Busy, Untouched, Fresh
  <1>12. HandOK(w)'  BY <1>3, <1>4, <1>8 DEF HandOK
  <1>13. Aside(w, {c})  BY <1>2, <1>3, <1>4 DEF Aside
  <1>14. FdOK(c)'  BY <1>5, <1>7 DEF FdOK
  <1>15. LifeOK(c)'
    BY <1>2, <1>4, <1>5 DEF LifeOK, SilentOK, HeaderOK, BodyOK, Fresh
  <1>16. Listed(w) \ {c} \subseteq Listed(w)' /\ \A d \in {c} : FdOK(d)' /\ LifeOK(d)'
    BY <1>7, <1>14, <1>15
  <1>17. peer' = peer  BY <1>4
  <1> QED  BY <1>5, <1>10, <1>11, <1>12, <1>13, <1>16, <1>17, StepFrame

LEMMA AcceptFailsInv ==
  ASSUME Control, Data, Inv, NEW w \in Workers, AcceptFails(w)
  PROVE  Inv'
  <1>1. PICK lost \in SUBSET Backlog : Die(w, "exited", lost)  BY DEF AcceptFails
  <1> QED  BY <1>1, DieInv DEF Dead

LEMMA OutOfMemoryInv ==
  ASSUME Control, Data, Inv, NEW w \in Workers, OutOfMemory(w)
  PROVE  Inv'
  BY DieInv DEF OutOfMemory, AllocFails, SelectFails, Dead

\* The connection in hand leaves the lists.
LEMMA DropInv ==
  ASSUME Control, Inv, NEW w \in Workers, pc[w] = "settle", NEW c, c = Cur(w),
         active_conns' = [active_conns EXCEPT ![w] = Tail(@)],
         Goto(w, "dispatch"),
         UNCHANGED <<peer, new_conns, resp>>,
         \A d \in Conns \ {c} : Untouched(d),
         FdOK(c)', LifeOK(c)'
  PROVE  Inv'
  <1>1. active_conns[w] # <<>>  BY CallFacts
  <1>2. /\ c \in Conns /\ c \notin Members(new_conns[w])
        /\ c \notin Members(Tail(active_conns[w]))
        /\ Members(active_conns[w]) = {c} \cup Members(Tail(active_conns[w]))
        /\ Injective(Tail(active_conns[w]))
        /\ \A v \in Workers \ {w} : c \notin Listed(v)
    BY <1>1, InHandOwned
  <1>3. /\ active_conns'[w] = Tail(active_conns[w]) /\ new_conns'[w] = new_conns[w]
        /\ pc'[w] = "dispatch" /\ resp'[w] = resp[w]
        /\ \A v \in Workers \ {w} : /\ pc'[v] = pc[v] /\ resp'[v] = resp[v]
                                    /\ active_conns'[v] = active_conns[v]
                                    /\ new_conns'[v] = new_conns[v]
    BY DEF Goto, Control
  <1>4. Tracked(w) /\ AtRest(w) /\ HandOK(w) /\ Listed(w) \subseteq Conns
    BY MembersType DEF Inv
  <1>5. /\ Members(active_conns[w])' = Members(Tail(active_conns[w]))
        /\ Members(new_conns[w])' = Members(new_conns[w])
        /\ Listed(w)' = Listed(w) \ {c}
    <2>1. /\ Members(active_conns[w])' = Members(Tail(active_conns[w]))
          /\ Members(new_conns[w])' = Members(new_conns[w])
      <3>1. Members(active_conns[w])' = Members(Tail(active_conns[w]))
        <4>1. active_conns'[w] = Tail(active_conns[w])  BY <1>3
        <4> QED  BY ONLY <4>1 DEF Members
      <3>2. Members(new_conns[w])' = Members(new_conns[w])  BY <1>3 DEF Members
      <3> QED  BY <3>1, <3>2
    <2>2. Listed(w) = {c} \cup Listed(w)'  BY <1>2, <2>1 DEF Listed
    <2>3. c \notin Listed(w)'  BY <1>2, <2>1 DEF Listed
    <2> QED  BY <2>1, <2>2, <2>3
  <1>6. NoDuplicates(w)'
    <2>1. Injective(active_conns[w])'  BY <1>2, <1>3 DEF Injective
    <2>2. Injective(new_conns[w])'
      <3>1. Injective(new_conns[w])  BY <1>4 DEF Tracked, NoDuplicates
      <3> QED  BY <1>3, <3>1 DEF Injective
    <2> QED  BY <1>2, <1>4, <1>5, <2>1, <2>2 DEF NoDuplicates, Tracked
  <1>7. Tracked(w)'  BY <1>4, <1>5, <1>6 DEF Tracked, Untouched
  <1>8. AtRest(w)'
    BY <1>4, <1>5 DEF AtRest, Busy, Untouched, Fresh
  <1>9. HandOK(w)'  BY <1>3, <1>4 DEF HandOK
  <1>10. Aside(w, {c})  BY <1>2, <1>3 DEF Aside
  <1>11. Listed(w) \ {c} \subseteq Listed(w)' /\ \A d \in {c} : FdOK(d)' /\ LifeOK(d)'
    BY <1>5
  <1>12. peer' = peer  OBVIOUS
  <1> QED  BY <1>7, <1>8, <1>9, <1>10, <1>11, <1>12, StepFrame

LEMMA SettleCompleteInv ==
  ASSUME Control, Data, Inv, NEW w \in Workers, SettleComplete(w)
  PROVE  Inv'
  <1> DEFINE c == Cur(w)
  <1>1. c \in Conns /\ LifeOK(c) /\ pc[w] = "settle"
        /\ state[c] \in {"CONN_COMPLETE", "CONN_ERR_UNRECOVERABLE"}
    BY CallFacts DEF SettleComplete
  <1>2. PICK e \in Conns : e = c  BY <1>1
  <1>3. /\ sock'[e] = "closed" /\ file_fd'[e] = -1
        /\ UNCHANGED <<peer, sndq, state, read_buf_len, read_buf_cursor, new_conns, resp, owner,
                       hdr, wire>>
        /\ \A d \in Conns \ {e} : Untouched(d)
    BY <1>2 DEF SettleComplete, Data, SocketsTypeOK, Untouched, outVars
  <1>4. FdOK(e)'  BY <1>3 DEF FdOK
  <1>5. LifeOK(e)'
    BY <1>1, <1>2, <1>3 DEF LifeOK, SilentOK, HeaderOK, BodyOK
  <1> QED  BY <1>1, <1>2, <1>3, <1>4, <1>5, DropInv DEF SettleComplete

LEMMA SettleWaitingInv ==
  ASSUME Control, Data, Inv, NEW w \in Workers, SettleWaiting(w)
  PROVE  Inv'
  <1>1. CASE Die(w, "aborted", {})
    BY <1>1, DieInv DEF Dead
  <1>2. CASE /\ NDEBUG
             /\ active_conns' = [active_conns EXCEPT ![w] = Tail(@)]
             /\ Goto(w, "dispatch")
             /\ UNCHANGED <<sockVars, connVars, new_conns, ready, resp, owner, outVars>>
    <2> DEFINE c == Cur(w)
    <2>1. /\ c \in Conns /\ LifeOK(c) /\ FdOK(c) /\ pc[w] = "settle" /\ owner[c] = w
          /\ sock[c] = "open" /\ state[c] = "CONN_WAITING" /\ peer[c] # "up"
      BY CallFacts DEF SettleWaiting, HandOK
    <2>2. Forgotten(c)  BY <1>2, <2>1 DEF Forgotten, LifeOK, SilentOK
    <2>3. PICK e \in Conns : e = c  BY <2>1
    <2>4. UNCHANGED <<sock, peer, sndq, owner, state, file_fd, read_buf_size, read_buf_len,
                      read_buf_cursor, hdr, wire, new_conns, resp>>
      BY <1>2 DEF sockVars, connVars, outVars
    <2>5. \A d \in Conns : Untouched(d)  BY <2>4 DEF Untouched
    <2>6. FdOK(e)'
      BY <2>1, <2>2, <2>3, <2>4 DEF FdOK, Forgotten, Fresh
    <2>7. LifeOK(e)'
      BY <2>1, <2>3, <2>4 DEF LifeOK, SilentOK, HeaderOK, BodyOK
    <2> QED  BY <1>2, <2>1, <2>3, <2>4, <2>5, <2>6, <2>7, DropInv
  <1> QED  BY <1>1, <1>2 DEF SettleWaiting

\* Clients and editors of the file.
LEMMA EnvInv ==
  ASSUME Control, Data, Inv, EnvStep
  PROVE  Inv'
  <1>1. UNCHANGED <<owner, state, file_fd, read_buf_size, read_buf_len, read_buf_cursor,
                    hdr, wire, active_conns, new_conns, resp, pc>>
    BY DEF EnvStep, serverVars, connVars, listVars, outVars
  <1>2. \A c \in Conns :
          /\ sock'[c] = sock[c] \/ (sock[c] = "idle" /\ sock'[c] = "backlog")
          /\ peer[c] # "up" => peer'[c] # "up"
          /\ sndq[c] = 0 => sndq'[c] = 0
    <2>1. CASE EditFile  BY <2>1 DEF EditFile
    <2>2. CASE \E c \in Conns : ClientStep(c)
      <3>1. PICK c \in Conns : ClientStep(c)  BY <2>2
      <3>2. CASE Connect(c)  BY <3>2 DEF Connect, Data, SocketsTypeOK
      <3>3. CASE SendRequest(c)  BY <3>3 DEF SendRequest
      <3>4. CASE Drain(c)  BY <3>4 DEF Drain, Data, SocketsTypeOK
      <3>5. CASE Leave(c)  BY <3>5 DEF Leave, Data, SocketsTypeOK
      <3> QED  BY <3>1, <3>2, <3>3, <3>4, <3>5 DEF ClientStep
    <2> QED  BY <2>1, <2>2 DEF EnvStep
  <1>3. ASSUME NEW w \in Workers PROVE Tracked(w)' /\ AtRest(w)' /\ HandOK(w)'
    <2>1. /\ Tracked(w) /\ AtRest(w) /\ HandOK(w) /\ Listed(w) \subseteq Conns
          /\ Listed(w)' = Listed(w) /\ (NoDuplicates(w) => NoDuplicates(w)')
      BY <1>1, ListsSame, MembersType DEF Inv
    <2>2. Cur(w)' = Cur(w)  BY <1>1 DEF Cur
    <2>3. Tracked(w)'  BY <1>1, <1>2, <2>1 DEF Tracked
    <2>4. AtRest(w)'
      BY <1>1, <2>1, <2>2 DEF AtRest, Busy, InHand, Fresh
    <2>5. HandOK(w)'
      <3>1. CASE pc[w] = "settle"
        <4>1. Cur(w) \in Conns  BY <3>1, CallFacts
        <4> QED  BY <1>1, <1>2, <2>1, <2>2, <3>1, <4>1 DEF HandOK
      <3>2. CASE pc[w] # "settle"
        BY <1>1, <2>1, <2>2, <3>2 DEF HandOK, Fresh, HasBody
      <3> QED  BY <3>1, <3>2
    <2> QED  BY <2>3, <2>4, <2>5
  <1>4. ASSUME NEW c \in Conns PROVE FdOK(c)' /\ LifeOK(c)'
    <2>1. FdOK(c) /\ LifeOK(c)  BY <1>4 DEF Inv
    <2>2. LifeOK(c)'
      BY <1>1, <1>2, <1>4, <2>1 DEF LifeOK, SilentOK, HeaderOK, BodyOK
    <2>3. \A v \in Workers : Listed(v)' = Listed(v)  BY <1>1, ListsSame
    <2>4. FdOK(c)'
      BY <1>1, <1>2, <1>4, <2>1, <2>3 DEF FdOK, Forgotten, Fresh
    <2> QED  BY <2>2, <2>4
  <1> QED  BY <1>3, <1>4 DEF Inv

-----------------------------------------------------------------------------
LEMMA NextInv == IInv /\ [Next]_vars => IInv'
  <1> SUFFICES ASSUME Control, Data, Inv, [Next]_vars PROVE Inv'
    BY NextOK DEF IInv
  <1>1. CASE EnvStep  BY <1>1, EnvInv
  <1>2. CASE \E w \in Workers : WorkerStep(w)
    <2>1. PICK w \in Workers : WorkerStep(w)  BY <1>2
    <2>2. CASE HandlerStep(w)
      BY <2>2, ReadAndParseInv, ReadEofInv, ReadErrorInv, LocateInv, OpenFileInv,
         SendHeaderInv, SendHeaderFailsInv, ReadFileInv, WriteSocketInv, WriteSocketFailsInv
      DEF HandlerStep
    <2>3. CASE LoopStep(w)
      BY <2>3, SelectInv, AcceptNothingInv, AcceptConnInv, AcceptFailsInv, DispatchUnreadyInv,
         DispatchReadyInv, SettleSendingInv, SettleCompleteInv, SettleRecoverableInv,
         SettleWaitingInv, EndRoundInv DEF LoopStep
    <2>4. CASE OutOfMemory(w)  BY <2>4, OutOfMemoryInv
    <2> QED  BY <2>1, <2>2, <2>3, <2>4 DEF WorkerStep
  <1>3. CASE UNCHANGED vars
    <2>1. UNCHANGED <<sock, peer, sndq, owner, state, file_fd, read_buf_size, read_buf_len,
                      read_buf_cursor, hdr, wire, active_conns, new_conns, resp, pc>>
      BY <1>3 DEF vars, sockVars, connVars, listVars, outVars
    <2>2. \A w \in Workers : Tracked(w)' /\ AtRest(w)' /\ HandOK(w)'
      BY <2>1, ListsSame DEF Inv, Tracked, AtRest, HandOK, Busy, InHand, Cur, Fresh, HasBody
    <2>3. \A c \in Conns : FdOK(c)'
      BY <2>1, ListsSame DEF Inv, FdOK, Forgotten, Fresh
    <2>4. \A c \in Conns : LifeOK(c)'
      BY <2>1 DEF Inv, LifeOK, SilentOK, HeaderOK, BodyOK
    <2> QED  BY <2>2, <2>3, <2>4 DEF Inv
  <1> QED  BY <1>1, <1>2, <1>3 DEF Next

\* Lists, descriptors, buffers and what was written agree in every reachable
\* state: the facts the following theorems are consequences of.
THEOREM Invariant == Spec => []IInv
  <1>1. Init => IInv  BY ControlInit, InitInv DEF IInv
  <1> QED  BY <1>1, NextInv, PTL DEF Spec

\* Whatever handlers, clients and other workers do, and however many they are: a
\* socket is open exactly as long as one cell of its worker's lists points to it,
\* and a file no longer than its socket; the one connection that a build without
\* assertions forgets is the one that closed before it sent anything.
THEOREM TrackingCorrect == Spec => []EveryFdTracked
  <1>1. IInv => EveryFdTracked  BY DEF IInv, Inv, EveryFdTracked, Tracked, FdOK
  <1> QED  BY <1>1, Invariant, PTL

\* The assertions of handler.c and of conn_loop, but for server.c:211, hold.
THEOREM AssertionsCorrect == Spec => []AssertionsHold
  <1>1. ASSUME IInv PROVE AssertionsHold
    <2> SUFFICES ASSUME NEW w \in Workers
                 PROVE  /\ pc[w] = "select" =>
                             \A c \in Members(active_conns[w]) :
                               sock[c] = "open" /\ state[c] \in {"CONN_WAITING", "CONN_SENDING"}
                        /\ pc[w] = "dispatch" /\ active_conns[w] # <<>> =>
                             state[Cur(w)] \in {"CONN_WAITING", "CONN_SENDING"}
                        /\ pc[w] = "read" => read_buf_size[Cur(w)] = 0
                        /\ pc[w] = "open" => file_fd[Cur(w)] = -1
                        /\ pc[w] = "pump" =>
                             /\ file_fd[Cur(w)] # -1
                             /\ ~BufferEmpty(Cur(w)) =>
                                  read_buf_cursor[Cur(w)] < read_buf_len[Cur(w)]
      BY DEF AssertionsHold
    <2>0. Control /\ Data /\ Inv /\ Tracked(w) /\ AtRest(w) /\ HandOK(w)
      BY <1>1 DEF IInv, Inv
    <2>1. ASSUME pc[w] = "select", NEW c \in Members(active_conns[w])
          PROVE  sock[c] = "open" /\ state[c] \in {"CONN_WAITING", "CONN_SENDING"}
      BY <2>0, <2>1 DEF Tracked, AtRest, Listed, Busy, InHand, InCall, Fresh
    <2>2. ASSUME pc[w] = "dispatch", active_conns[w] # <<>>
          PROVE  state[Cur(w)] \in {"CONN_WAITING", "CONN_SENDING"}
      <3>1. Cur(w) \in Listed(w)  BY <2>0, <2>2, InHandOwned
      <3> QED  BY <2>0, <2>2, <3>1 DEF AtRest, Busy, InHand, InCall, Fresh
    <2>3. pc[w] = "read" => read_buf_size[Cur(w)] = 0  BY <2>0 DEF HandOK, Fresh
    <2>4. pc[w] = "open" => file_fd[Cur(w)] = -1  BY <2>0 DEF HandOK
    <2>5. ASSUME pc[w] = "pump"
          PROVE  /\ file_fd[Cur(w)] # -1
                 /\ ~BufferEmpty(Cur(w)) => read_buf_cursor[Cur(w)] < read_buf_len[Cur(w)]
      <3>1. /\ file_fd[Cur(w)] \in Nat /\ read_buf_len[Cur(w)] \in Nat
            /\ read_buf_cursor[Cur(w)] \in Nat
            /\ read_buf_cursor[Cur(w)] <= read_buf_len[Cur(w)]
        BY <2>0, <2>5, PumpFacts
      <3> QED  BY <3>1 DEF BufferEmpty
    <2> QED  BY <2>1, <2>2, <2>3, <2>4, <2>5
  <1> QED  BY <1>1, Invariant, PTL

\* A client gets one whole header, and bytes of the file only behind a 200 that
\* is closed by an empty line; no error is answered after that.
THEOREM ResponseCorrect == Spec => []OneResponse
  <1>1. IInv => OneResponse  BY DEF IInv, Inv, OneResponse, LifeOK, HeaderOK
  <1> QED  BY <1>1, Invariant, PTL

\* For every size of file, read buffer and send buffer, and all short reads and
\* writes: what was written to a client is a prefix of the file.
THEOREM BodyCorrect == Spec => []BodyInOrder
  <1>1. IInv => BodyInOrder  BY DEF IInv, Inv, BodyInOrder, LifeOK, BodyOK
  <1> QED  BY <1>1, Invariant, PTL

-----------------------------------------------------------------------------
\* The life cycle of a connection: conn->state moves forward.

Forward(from, to) ==
  <<from, to>> \in
    ({"CONN_WAITING"} \X States)
    \cup ({"CONN_SENDING", "CONN_ERR_RECOVERABLE"}
          \X {"CONN_COMPLETE", "CONN_ERR_UNRECOVERABLE"})

LEMMA ForwardOnly ==
  ASSUME Data, NEW c \in Conns, NEW s, Forward(state[c], s), state' = [state EXCEPT ![c] = s]
  PROVE  \A d \in Conns : state'[d] # state[d] => Forward(state[d], state'[d])
  BY DEF Data

LEMMA AbortForward ==
  ASSUME Control, Data, Inv, NEW w \in Workers, pc[w] \in {"respond", "pump"}, Abort(w)
  PROVE  \A d \in Conns : state'[d] # state[d] => Forward(state[d], state'[d])
  <1>1. /\ Cur(w) \in Conns
        /\ state[Cur(w)] \in {"CONN_WAITING", "CONN_SENDING", "CONN_ERR_RECOVERABLE"}
    BY CallFacts DEF HandOK, InCall
  <1>2. Forward(state[Cur(w)], "CONN_ERR_UNRECOVERABLE")  BY <1>1 DEF Forward, States
  <1> QED  BY <1>1, <1>2, ForwardOnly DEF Abort, ReturnWith

LEMMA HandlerForward ==
  ASSUME Control, Data, Inv, NEW w \in Workers, HandlerStep(w)
  PROVE  \A d \in Conns : state'[d] # state[d] => Forward(state[d], state'[d])
  <1>1. CASE ReadAndParse(w) \/ ReadEof(w) \/ Locate(w) \/ OpenFile(w) \/ WriteSocket(w)
    BY <1>1 DEF ReadAndParse, ReadEof, Locate, OpenFile, WriteSocket, connVars
  <1>2. CASE ReadError(w)
    <2>1. Cur(w) \in Conns /\ state[Cur(w)] = "CONN_WAITING"
      BY <1>2, CallFacts DEF ReadError, HandOK, Fresh, InCall
    <2>2. Forward(state[Cur(w)], "CONN_ERR_RECOVERABLE")  BY <2>1 DEF Forward, States
    <2> QED  BY <1>2, <2>1, <2>2, ForwardOnly DEF ReadError, ReturnWith
  <1>3. CASE SendHeader(w)
    <2>1. /\ Cur(w) \in Conns
          /\ \/ state[Cur(w)] = "CONN_WAITING"
             \/ state[Cur(w)] = "CONN_ERR_RECOVERABLE" /\ ~HasBody(resp[w])
      BY <1>3, CallFacts DEF SendHeader, HandOK, InCall
    <2>2. CASE Abort(w)  BY <1>3, <2>2, AbortForward DEF SendHeader
    <2>3. CASE ReturnWith(w, "CONN_COMPLETE")
      <3>1. Forward(state[Cur(w)], "CONN_COMPLETE")  BY <2>1 DEF Forward, States
      <3> QED  BY <2>1, <2>3, <3>1, ForwardOnly DEF ReturnWith
    <2>4. CASE HasBody(resp[w]) /\ state' = [state EXCEPT ![Cur(w)] = "CONN_SENDING"]
      <3>1. Forward(state[Cur(w)], "CONN_SENDING")  BY <2>1, <2>4 DEF Forward, States
      <3> QED  BY <2>1, <2>4, <3>1, ForwardOnly
    <2> QED  BY <1>3, <2>2, <2>3, <2>4 DEF SendHeader
  <1>4. CASE ReadFile(w)
    <2>1. Cur(w) \in Conns /\ state[Cur(w)] = "CONN_SENDING"
      BY <1>4, PumpFacts DEF ReadFile
    <2>2. CASE ReturnWith(w, "CONN_COMPLETE")
      <3>1. Forward(state[Cur(w)], "CONN_COMPLETE")  BY <2>1 DEF Forward
      <3> QED  BY <2>1, <2>2, <3>1, ForwardOnly DEF ReturnWith
    <2>3. CASE Abort(w)  BY <1>4, <2>3, AbortForward DEF ReadFile
    <2>4. CASE UNCHANGED state  BY <2>4
    <2> QED  BY <1>4, <2>2, <2>3, <2>4 DEF ReadFile
  <1>5. CASE SendHeaderFails(w) \/ WriteSocketFails(w)
    <2>1. pc[w] \in {"respond", "pump"} /\ WriteFails(w)
      BY <1>5 DEF SendHeaderFails, WriteSocketFails
    <2>2. CASE Abort(w)  BY <2>1, <2>2, AbortForward
    <2>3. CASE Die(w, "killed", {})  BY <2>3 DEF Die
    <2> QED  BY <2>1, <2>2, <2>3 DEF WriteFails
  <1> QED  BY <1>1, <1>2, <1>3, <1>4, <1>5 DEF HandlerStep

LEMMA NextForward ==
  ASSUME Control, Data, Inv, Next
  PROVE  \A d \in Conns : state'[d] # state[d] => Forward(state[d], state'[d])
  <1>1. CASE EnvStep  BY <1>1 DEF EnvStep, serverVars, connVars
  <1>2. CASE \E w \in Workers : WorkerStep(w)
    <2>1. PICK w \in Workers : WorkerStep(w)  BY <1>2
    <2>2. CASE HandlerStep(w)  BY <2>2, HandlerForward
    <2>3. CASE AcceptConn(w)
      <3>1. PICK c \in Backlog : state' = [state EXCEPT ![c] = "CONN_WAITING"]
        BY <2>3 DEF AcceptConn
      <3>2. c \in Conns /\ state[c] = "CONN_WAITING"
        BY DEF Backlog, Inv, FdOK, Fresh
      <3> QED  BY <3>1, <3>2 DEF Data
    <2>4. CASE AcceptFails(w) \/ SettleWaiting(w) \/ OutOfMemory(w)
      BY <2>4 DEF AcceptFails, SettleWaiting, OutOfMemory, AllocFails, SelectFails, Die, connVars
    <2>5. CASE \/ Select(w) \/ AcceptNothing(w) \/ DispatchUnready(w) \/ DispatchReady(w)
               \/ SettleSending(w) \/ SettleComplete(w) \/ SettleRecoverable(w) \/ EndRound(w)
      BY <2>5 DEF Select, AcceptNothing, DispatchUnready, DispatchReady, SettleSending,
                  SettleComplete, SettleRecoverable, EndRound, connVars
    <2> QED  BY <2>1, <2>2, <2>3, <2>4, <2>5 DEF WorkerStep, LoopStep
  <1> QED  BY <1>1, <1>2 DEF Next

-----------------------------------------------------------------------------
\* Why a worker ends.

LEMMA MembersFinite ==
  ASSUME NEW S, NEW s \in Seq(S)
  PROVE  IsFiniteSet(Members(s))
  <1>1. Len(s) \in Nat /\ DOMAIN s = 1..Len(s)  OBVIOUS
  <1>2. IsFiniteSet(1..Len(s))  BY <1>1, FS_Interval
  <1>3. s \in Surjection(1..Len(s), Members(s))
    BY <1>1 DEF Members, Surjection
  <1> QED  BY <1>2, <1>3, FS_Surjection

\* With assertions no connection is forgotten: all descriptors of a worker, two
\* at most for each, belong to connections on its lists.
LEMMA FdsListed ==
  ASSUME Control, Inv, ~NDEBUG, NEW w \in Workers
  PROVE  OpenFds(w) <= 2 * Cardinality(Listed(w))
  <1> DEFINE S == {c \in Conns : owner[c] = w /\ sock[c] = "open"}
             F == {c \in Conns : owner[c] = w /\ file_fd[c] # -1}
  <1>1. IsFiniteSet(Listed(w))
    BY MembersFinite, FS_Union DEF Listed, Control
  <1>2. S \in SUBSET Listed(w) /\ F \in SUBSET Listed(w)
    BY DEF Inv, FdOK, Forgotten
  <1> HIDE DEF S, F
  <1>3. /\ Cardinality(S) <= Cardinality(Listed(w)) /\ Cardinality(S) \in Nat
        /\ Cardinality(F) <= Cardinality(Listed(w)) /\ Cardinality(F) \in Nat
        /\ Cardinality(Listed(w)) \in Nat
    BY <1>1, <1>2, FS_Subset, FS_CardinalityType
  <1>4. OpenFds(w) = Cardinality(S) + Cardinality(F)  BY DEF OpenFds, S, F
  <1> QED  BY <1>3, <1>4

Excuse(w) ==
  \/ \E c \in Listed(w) \cup Backlog : peer[c] # "up"
  \/ MemoryMayRunOut
  \/ 2 * Cardinality(Listed(w)) >= FdLimit

LEMMA DeathExcused ==
  ASSUME IInv, ~NDEBUG, [Next]_vars, NEW v \in Workers, pc[v] \notin Dead, pc'[v] \in Dead
  PROVE  Excuse(v)
  <1>1. Control /\ Data /\ Inv  BY DEF IInv
  <1>2. PICK w \in Workers : WorkerStep(w)
    BY DEF Next, EnvStep, serverVars, vars
  <1>3. \A label : pc' = [pc EXCEPT ![w] = label] => v = w /\ label \in Dead
    BY <1>1, GotoPc
  <1>4. CASE OutOfMemory(w)  BY <1>4 DEF OutOfMemory, AllocFails, SelectFails, Excuse
  <1>5. CASE SendHeaderFails(w) \/ WriteSocketFails(w)
    <2>1. pc[w] \in InCall /\ peer[Cur(w)] = "rst" /\ WriteFails(w)
      BY <1>5 DEF SendHeaderFails, WriteSocketFails, InCall
    <2>2. Cur(w) \in Listed(w)  BY <1>1, <2>1, CallFacts
    <2>3. v = w
      BY <1>3, <2>1 DEF WriteFails, Abort, ReturnWith, Return, Die
    <2> QED  BY <2>1, <2>2, <2>3 DEF Excuse
  <1>6. CASE AcceptFails(w)
    <2>1. v = w  BY <1>3, <1>6 DEF AcceptFails, Die
    <2>2. CASE \E c \in Backlog : peer[c] = "rst"  BY <2>1, <2>2 DEF Excuse
    <2>3. CASE OpenFds(w) >= FdLimit
      <3>1. OpenFds(w) <= 2 * Cardinality(Listed(w))  BY <1>1, FdsListed
      <3>2. IsFiniteSet(Listed(w))
        BY <1>1, MembersFinite, FS_Union DEF Listed, Control
      <3>3. Cardinality(Listed(w)) \in Nat  BY <3>2, FS_CardinalityType
      <3>4. OpenFds(w) \in Int
        <4>1. /\ IsFiniteSet({c \in Conns : owner[c] = w /\ sock[c] = "open"})
              /\ IsFiniteSet({c \in Conns : owner[c] = w /\ file_fd[c] # -1})
          BY <1>1, <3>2, FS_Subset DEF Inv, FdOK, Forgotten
        <4> QED  BY <4>1, FS_CardinalityType DEF OpenFds
      <3> QED
        BY <2>1, <2>3, <3>1, <3>3, <3>4, HandlerAssumption DEF Excuse
    <2> QED  BY <1>6, <2>2, <2>3 DEF AcceptFails
  <1>7. CASE SettleWaiting(w)
    <2>1. v = w  BY <1>3, <1>7 DEF SettleWaiting, Die
    <2>2. Cur(w) \in Listed(w) /\ HandOK(w)
      BY <1>1, <1>7, CallFacts DEF SettleWaiting
    <2>3. peer[Cur(w)] # "up"  BY <1>7, <2>2 DEF HandOK, SettleWaiting
    <2> QED  BY <2>1, <2>2, <2>3 DEF Excuse
  <1>8. CASE \/ ReadAndParse(w) \/ ReadEof(w) \/ ReadError(w) \/ Locate(w) \/ OpenFile(w)
             \/ SendHeader(w) \/ ReadFile(w) \/ WriteSocket(w)
    <2>1. PICK label \in InCall \cup {"settle"} : pc' = [pc EXCEPT ![w] = label]
      BY <1>8 DEF ReadAndParse, ReadEof, ReadError, Locate, OpenFile, SendHeader, ReadFile,
                  WriteSocket, ReturnWith, Abort, Return, Goto, InCall
    <2> QED  BY <1>3, <2>1 DEF InCall, Dead
  <1>9. CASE \/ Select(w) \/ AcceptNothing(w) \/ AcceptConn(w) \/ DispatchUnready(w)
             \/ DispatchReady(w) \/ SettleSending(w) \/ SettleComplete(w)
             \/ SettleRecoverable(w) \/ EndRound(w)
    <2>1. pc' = pc \/ \E label \in InLoop \cup InCall : pc' = [pc EXCEPT ![w] = label]
      BY <1>9 DEF Select, AcceptNothing, AcceptConn, DispatchUnready, DispatchReady,
                  SettleSending, SettleComplete, SettleRecoverable, EndRound, Goto, InLoop,
                  InCall
    <2> QED  BY <1>3, <2>1 DEF InLoop, InCall, Dead
  <1> QED
    BY <1>2, <1>4, <1>5, <1>6, <1>7, <1>8, <1>9 DEF WorkerStep, HandlerStep, LoopStep

\* In a build with assertions a worker ends because of a client that has left,
\* for want of memory, or because live connections use up its descriptors: an
\* accept lost to another worker and an error of one request are no reason, and
\* no descriptor leaks that would become one in time.
THEOREM DeathsExplained ==
  ASSUME ~NDEBUG
  PROVE  Spec => NoSpuriousDeath
  <1>1. IInv /\ [Next]_vars =>
          [\A w \in Workers : pc[w] \notin Dead /\ pc'[w] \in Dead =>
             \/ \E c \in Listed(w) \cup Backlog : peer[c] # "up"
             \/ MemoryMayRunOut
             \/ 2 * Cardinality(Listed(w)) >= FdLimit]_vars
    BY DeathExcused DEF Excuse
  <1> QED  BY <1>1, Invariant, PTL DEF Spec, NoSpuriousDeath

-----------------------------------------------------------------------------
(***************************************************************************)
(* What a client is given.                                                 *)
(*                                                                         *)
(* First: the event loop implements module Exchange.  Each step of a       *)
(* worker or a client is one action of Exchange or leaves its variables    *)
(* alone.  The mapping is that of WorkerProps; one fact more (Excused) is  *)
(* needed for the connections that are closed without an answer.           *)
(*                                                                         *)
(* Then: the Content-Length a worker announces is what it sends, as long   *)
(* as nobody edits the file.  The invariant ties what was written to the   *)
(* offset in the file; the one added here ties the offset and the number   *)
(* announced to the size of the file.                                      *)
(***************************************************************************)

\* Who is refused an answer has left; the others have one.
Excused ==
  \A c \in Conns :
    state[c] = "CONN_ERR_UNRECOVERABLE" => hdr[c] # <<>> \/ peer[c] # "up"

Mapped == IInv /\ Excused

-----------------------------------------------------------------------------
\* Excused is kept.

LEMMA AbortExcused ==
  ASSUME Data, Excused, NEW w \in Workers, Abort(w), Cur(w) \in Conns,
         peer' = peer, hdr' = hdr, hdr[Cur(w)] # <<>> \/ peer[Cur(w)] # "up"
  PROVE  Excused'
  <1>1. \A d \in Conns \ {Cur(w)} : state'[d] = state[d]
    BY DEF Abort, ReturnWith, Data
  <1> QED  BY <1>1 DEF Excused

LEMMA HandlerExcused ==
  ASSUME Control, Data, Inv, Excused, NEW w \in Workers, HandlerStep(w)
  PROVE  Excused'
  <1>1. CASE ReadAndParse(w) \/ ReadEof(w) \/ Locate(w) \/ OpenFile(w) \/ WriteSocket(w)
    BY <1>1 DEF ReadAndParse, ReadEof, Locate, OpenFile, WriteSocket, connVars, sockVars,
                outVars, Excused
  <1>2. CASE ReadError(w)
    BY <1>2 DEF ReadError, ReturnWith, sockVars, outVars, Data, Excused
  <1>3. CASE SendHeader(w)
    <2>1. Cur(w) \in Conns  BY <1>3, CallFacts DEF SendHeader, InCall
    <2>2. \A d \in Conns \ {Cur(w)} : state'[d] = state[d] /\ hdr'[d] = hdr[d]
      BY <1>3 DEF SendHeader, Abort, ReturnWith, Data
    <2>3. hdr'[Cur(w)] # <<>>
      <3> DEFINE r == resp[w]
                 whole == Accepted(Cur(w), HdrLen) = HdrLen
                 h == [code |-> r.code, size |-> r.size, whole |-> whole, end |-> HasBody(r)]
      <3>1. hdr' = [hdr EXCEPT ![Cur(w)] = Append(@, h)]  BY <1>3 DEF SendHeader
      <3>2. h \in Headers
        <4>1. r.code \in Codes /\ r.size \in Nat  BY DEF Data, Responses
        <4>2. whole \in BOOLEAN /\ HasBody(r) \in BOOLEAN  BY DEF HasBody
        <4> HIDE DEF r, whole
        <4> QED  BY <4>1, <4>2 DEF Headers
      <3> HIDE DEF h
      <3>3. hdr \in [Conns -> Seq(Headers)]  BY DEF Data
      <3>4. hdr'[Cur(w)] = Append(hdr[Cur(w)], h)  BY ONLY <2>1, <3>1, <3>3
      <3>5. Append(hdr[Cur(w)], h) # <<>>  BY ONLY <2>1, <3>2, <3>3
      <3> QED  BY <3>4, <3>5
    <2>4. peer' = peer  BY <1>3 DEF SendHeader
    <2> QED  BY <2>1, <2>2, <2>3, <2>4 DEF Excused
  <1>4. CASE ReadFile(w)
    <2>1. Cur(w) \in Conns /\ hdr[Cur(w)] # <<>>
      BY <1>4, PumpFacts DEF ReadFile, LifeOK, HeaderOK
    <2>2. peer' = peer /\ hdr' = hdr  BY <1>4 DEF ReadFile, sockVars, outVars
    <2>3. CASE Abort(w)  BY <2>1, <2>2, <2>3, AbortExcused
    <2>4. CASE ReturnWith(w, "CONN_COMPLETE")
      BY <2>2, <2>4 DEF ReturnWith, Data, Excused
    <2>5. CASE UNCHANGED state  BY <2>2, <2>5 DEF Excused
    <2> QED  BY <1>4, <2>3, <2>4, <2>5 DEF ReadFile
  <1>5. CASE SendHeaderFails(w) \/ WriteSocketFails(w)
    <2>1. pc[w] \in InCall /\ peer[Cur(w)] = "rst" /\ WriteFails(w)
      BY <1>5 DEF SendHeaderFails, WriteSocketFails, InCall
    <2>2. Cur(w) \in Conns  BY <2>1, CallFacts
    <2>3. CASE Die(w, "killed", {})  BY <2>3 DEF Die, Excused
    <2>4. CASE /\ Abort(w)
               /\ UNCHANGED <<sockVars, file_fd, read_buf_size, read_buf_len,
                              read_buf_cursor, listVars, resp, owner, outVars>>
      BY <2>1, <2>2, <2>4, AbortExcused DEF sockVars, outVars
    <2> QED  BY <2>1, <2>3, <2>4 DEF WriteFails
  <1> QED  BY <1>1, <1>2, <1>3, <1>4, <1>5 DEF HandlerStep

LEMMA NextExcused == Mapped /\ [Next]_vars => Excused'
  <1> SUFFICES ASSUME Control, Data, Inv, Excused, [Next]_vars PROVE Excused'
    BY DEF Mapped, IInv
  <1>1. CASE EnvStep
    <2>1. UNCHANGED <<state, hdr>>  BY <1>1 DEF EnvStep, serverVars, connVars, outVars
    <2>2. \A c \in Conns : peer[c] # "up" => peer'[c] # "up"
      BY <1>1 DEF EnvStep, EditFile, ClientStep, Connect, SendRequest, Drain, Leave,
                  Data, SocketsTypeOK
    <2> QED  BY <2>1, <2>2 DEF Excused
  <1>2. CASE \E w \in Workers : WorkerStep(w)
    <2>1. PICK w \in Workers : WorkerStep(w)  BY <1>2
    <2>2. CASE HandlerStep(w)  BY <2>2, HandlerExcused
    <2>3. CASE AcceptConn(w)
      BY <2>3 DEF AcceptConn, Data, outVars, Excused
    <2>4. CASE AcceptFails(w) \/ SettleWaiting(w) \/ OutOfMemory(w)
      BY <2>4 DEF AcceptFails, SettleWaiting, OutOfMemory, AllocFails, SelectFails, Die, connVars, sockVars, outVars,
                  Excused
    <2>5. CASE \/ Select(w) \/ AcceptNothing(w) \/ DispatchUnready(w) \/ DispatchReady(w)
               \/ SettleSending(w) \/ SettleComplete(w) \/ SettleRecoverable(w) \/ EndRound(w)
      BY <2>5 DEF Select, AcceptNothing, DispatchUnready, DispatchReady, SettleSending,
                  SettleComplete, SettleRecoverable, EndRound, connVars, sockVars, outVars,
                  Excused
    <2> QED  BY <2>1, <2>2, <2>3, <2>4, <2>5 DEF WorkerStep, LoopStep
  <1>3. CASE UNCHANGED vars
    BY <1>3 DEF vars, connVars, sockVars, outVars, Excused
  <1> QED  BY <1>1, <1>2, <1>3 DEF Next

LEMMA MappedInv == Spec => []Mapped
  <1>1. Init => Mapped
    <2>1. Init => Excused  BY DEF Init, Excused
    <2> QED  BY <2>1, ControlInit, InitInv DEF Mapped, IInv
  <1>2. Mapped /\ [Next]_vars => Mapped'  BY NextInv, NextExcused DEF Mapped
  <1> QED  BY <1>1, <1>2, PTL DEF Spec

-----------------------------------------------------------------------------
\* The steps, action by action of module Exchange.

\* Exchange sees of a state only this.
LEMMA Stutter ==
  ASSUME UNCHANGED <<sock, owner, hdr, wire>>,
         \A c \in Conns : (peer'[c] # "up") <=> (peer[c] # "up")
  PROVE  UNCHANGED Promise!vars
  BY DEF Promise!vars

LEMMA DieMaps ==
  ASSUME NEW w \in Workers, NEW how, NEW lost, Die(w, how, lost),
         lost = {} \/ \E c \in Backlog : lost = {c} /\ peer[c] # "up"
  PROVE  Promise!Crash(w)
  <1> DEFINE phase == [c \in Conns |-> Phase(sock[c])]
             gone == {c \in Conns : peer[c] # "up"}
  <1>1. /\ sock' = [c \in Conns |-> IF c \in lost \/ (owner[c] = w /\ sock[c] = "open")
                                   THEN "closed" ELSE sock[c]]
        /\ UNCHANGED <<peer, owner, hdr, wire>>
    BY DEF Die
  <1>2. lost \in {{}} \cup {{c} : c \in gone}  BY DEF Backlog
  <1>3. \A c \in lost : phase[c] = "queued"  BY DEF Backlog, Phase
  <1>4. phase' = [c \in Conns |-> IF c \in lost \/ (phase[c] = "served" /\ owner[c] = w)
                                   THEN "closed" ELSE phase[c]]
    BY <1>1 DEF Phase
  <1> QED  BY <1>1, <1>2, <1>3, <1>4 DEF Promise!Crash

LEMMA ConnectMaps ==
  ASSUME Data, NEW c \in Conns, Connect(c), UNCHANGED serverVars
  PROVE  Promise!Arrive(c)
  <1>1. UNCHANGED <<owner, hdr, wire, peer>>  BY DEF Connect, serverVars, outVars
  <1>2. sock[c] = "idle" /\ sock'[c] = "backlog" /\ \A d \in Conns \ {c} : sock'[d] = sock[d]
    BY DEF Connect, Data, SocketsTypeOK
  <1> QED  BY <1>1, <1>2 DEF Promise!Arrive, Phase

LEMMA LeaveMaps ==
  ASSUME Data, NEW c \in Conns, Leave(c), UNCHANGED serverVars
  PROVE  Promise!GoAway(c)
  <1>1. UNCHANGED <<sock, owner, hdr, wire>> /\ sock[c] \in {"backlog", "open"}
    BY DEF Leave, Attached, serverVars, outVars
  <1>2. PICK s \in {"fin", "rst"} : peer' = [peer EXCEPT ![c] = s]  BY DEF Leave
  <1>3. {d \in Conns : peer[d] # "up"}' = {d \in Conns : peer[d] # "up"} \cup {c}
    BY <1>2 DEF Data, SocketsTypeOK
  <1> QED  BY <1>1, <1>3 DEF Promise!GoAway, Phase

LEMMA AcceptMaps ==
  ASSUME Data, NEW w \in Workers, AcceptConn(w)
  PROVE  \E c \in Conns : Promise!Take(c)
  <1>1. PICK c \in Backlog :
          sock' = [sock EXCEPT ![c] = "open"] /\ owner' = [owner EXCEPT ![c] = w]
    BY DEF AcceptConn
  <1>2. UNCHANGED <<peer, hdr, wire>>  BY DEF AcceptConn, outVars
  <1>3. /\ c \in Conns /\ sock[c] = "backlog" /\ sock'[c] = "open"
        /\ \A d \in Conns \ {c} : sock'[d] = sock[d]
    BY <1>1 DEF Backlog, Data, SocketsTypeOK
  <1> QED  BY <1>1, <1>2, <1>3 DEF Promise!Take, Phase

LEMMA SettleMaps ==
  ASSUME Control, Data, Inv, Excused, NEW w \in Workers, SettleComplete(w)
  PROVE  \E c \in Conns : Promise!Finish(c)
  <1>1. PICK c \in Conns : c = Cur(w)  BY CallFacts DEF SettleComplete
  <1>2. /\ sock[c] = "open" /\ LifeOK(c)
        /\ state[c] \in {"CONN_COMPLETE", "CONN_ERR_UNRECOVERABLE"}
        /\ sock' = [sock EXCEPT ![c] = "closed"]
        /\ UNCHANGED <<peer, owner, hdr, wire>>
    BY <1>1, CallFacts DEF SettleComplete, outVars
  <1>3. Kinds(hdr[c]) # <<>> \/ peer[c] # "up"
    <2>1. hdr[c] \in Seq(Headers)  BY DEF Data
    <2>2. Len(hdr[c]) = 1 \/ hdr[c] # <<>> \/ peer[c] # "up"
      BY <1>2 DEF LifeOK, HeaderOK, Excused
    <2>3. hdr[c] # <<>> => Kinds(hdr[c]) # <<>>  BY <2>1 DEF Kinds
    <2> QED  BY <2>1, <2>2, <2>3
  <1>4. sock'[c] = "closed" /\ \A d \in Conns \ {c} : sock'[d] = sock[d]
    BY <1>2 DEF Data, SocketsTypeOK
  <1> DEFINE phase == [d \in Conns |-> Phase(sock[d])]
  <1>5. phase[c] = "served" /\ phase' = [phase EXCEPT ![c] = "closed"]
    BY <1>2, <1>4 DEF Phase
  <1>6. [d \in Conns |-> Kinds(hdr[d])][c] # <<>> \/ c \in {d \in Conns : peer[d] # "up"}
    BY <1>3
  <1>7. UNCHANGED <<[d \in Conns |-> Kinds(hdr[d])], {d \in Conns : peer[d] # "up"}, owner, wire>>
    BY <1>2
  <1> QED  BY <1>5, <1>6, <1>7 DEF Promise!Finish

LEMMA HeaderMaps ==
  ASSUME Control, Data, Inv, NEW w \in Workers, SendHeader(w)
  PROVE  \E c \in Conns : Promise!Answer(c)
  <1> DEFINE h == [code |-> resp[w].code, size |-> resp[w].size,
                   whole |-> Accepted(Cur(w), HdrLen) = HdrLen, end |-> HasBody(resp[w])]
  <1>1. PICK c \in Conns : c = Cur(w)  BY CallFacts DEF SendHeader, InCall
  <1>2. sock[c] = "open" /\ LifeOK(c) /\ HandOK(w)
    BY <1>1, CallFacts DEF SendHeader, InCall
  <1>3. hdr[c] = <<>> /\ sndq[c] = 0
    BY <1>1, <1>2 DEF SendHeader, HandOK, LifeOK, SilentOK
  <1>4. Accepted(Cur(w), HdrLen) = HdrLen
    BY <1>1, <1>3, HandlerAssumption, SocketsAssumption DEF Accepted, Smaller
  <1>5. UNCHANGED <<sock, peer, owner, wire>> /\ hdr' = [hdr EXCEPT ![c] = Append(@, h)]
    BY <1>1 DEF SendHeader
  <1>6. Kind(h) \in {"error", "head", "file"}  BY <1>4 DEF Kind
  <1> HIDE DEF h
  <1>7. hdr'[c] = <<h>> /\ \A d \in Conns \ {c} : hdr'[d] = hdr[d]
    BY <1>3, <1>5 DEF Data
  <1>8. Kinds(hdr[c]) = <<>> /\ Kinds(hdr'[c]) = <<Kind(h)>>
    BY <1>3, <1>7 DEF Kinds
  <1>9. [d \in Conns |-> Kinds(hdr[d])]'
          = [[d \in Conns |-> Kinds(hdr[d])] EXCEPT ![c] = <<Kind(h)>>]
    BY <1>7, <1>8
  <1>10. \E kind \in {"error", "head", "file"} :
           [d \in Conns |-> Kinds(hdr[d])]'
             = [[d \in Conns |-> Kinds(hdr[d])] EXCEPT ![c] = <<kind>>]
    BY <1>6, <1>9
  <1>11. /\ [d \in Conns |-> Phase(sock[d])][c] = "served"
         /\ [d \in Conns |-> Kinds(hdr[d])][c] = <<>>
    BY <1>2, <1>8 DEF Phase
  <1> QED  BY <1>5, <1>10, <1>11 DEF Promise!Answer

LEMMA WriteMaps ==
  ASSUME Control, Data, Inv, NEW w \in Workers, WriteSocket(w)
  PROVE  UNCHANGED Promise!vars \/ \E c \in Conns : Promise!Deliver(c)
  <1>1. PICK c \in Conns : c = Cur(w)  BY PumpFacts DEF WriteSocket
  <1> DEFINE n == Accepted(c, read_buf_len[c] - read_buf_cursor[c])
  <1>2. /\ sock[c] = "open" /\ LifeOK(c) /\ state[c] = "CONN_SENDING"
        /\ read_buf_len[c] \in Nat /\ read_buf_cursor[c] \in Nat
        /\ sndq[c] \in 0..SndBuf /\ SndBuf \in Nat /\ wire[c] \in Seq(Int)
        /\ Len(wire[c]) = file_fd[c] - read_buf_len[c] + read_buf_cursor[c]
    BY <1>1, PumpFacts DEF WriteSocket
  <1>3. UNCHANGED <<sock, peer, owner, hdr>>  BY DEF WriteSocket
  <1>4. CASE n = 0 /\ UNCHANGED wire
    <2>1. UNCHANGED wire  BY <1>4
    <2> QED  BY <1>3, <2>1, Stutter
  <1>5. CASE n > 0 /\ wire' = [wire EXCEPT ![c] = @ \o [k \in 1..n |-> Len(wire[c]) + k]]
    <2>1. n \in 1..SndBuf  BY <1>2, <1>5 DEF Accepted, Smaller
    <2>2. Kinds(hdr[c]) = <<"file">>
      <3>1. /\ Len(hdr[c]) = 1 /\ hdr[c] \in Seq(Headers)
            /\ hdr[c] # <<>> /\ hdr[c][1].whole /\ hdr[c][1].end
            /\ hdr[c][1].code = "HTTP_OK"
        BY <1>2 DEF LifeOK, HeaderOK, Data
      <3>2. Kind(hdr[c][1]) = "file"  BY <3>1 DEF Kind
      <3> QED  BY <3>1, <3>2 DEF Kinds
    <2> HIDE DEF n
    <2>3. \E m \in 1..SndBuf :
            wire' = [wire EXCEPT ![c] = @ \o [k \in 1..m |-> Len(@) + k]]
      BY <1>5, <2>1
    <2>4. /\ [d \in Conns |-> Phase(sock[d])][c] = "served"
          /\ [d \in Conns |-> Kinds(hdr[d])][c] = <<"file">>
      BY <1>2, <2>2 DEF Phase
    <2> QED  BY <1>3, <2>3, <2>4 DEF Promise!Deliver
  <1> QED  BY <1>1, <1>2, <1>4, <1>5 DEF WriteSocket

\* Every other step of a worker is its end, or shows nothing to Exchange.
LEMMA WorkerMaps ==
  ASSUME Control, Data, Inv, Excused, NEW w \in Workers, WorkerStep(w)
  PROVE  Promise!Next \/ UNCHANGED Promise!vars
  <1>1. CASE \/ ReadAndParse(w) \/ ReadEof(w) \/ ReadError(w) \/ Locate(w)
             \/ OpenFile(w) \/ ReadFile(w) \/ Select(w) \/ AcceptNothing(w)
             \/ DispatchUnready(w) \/ DispatchReady(w) \/ SettleSending(w)
             \/ SettleRecoverable(w) \/ EndRound(w)
    <2>1. UNCHANGED <<sock, peer, owner, hdr, wire>>
      BY <1>1 DEF ReadAndParse, ReadEof, ReadError, Locate, OpenFile, ReadFile, Select,
                  AcceptNothing, DispatchUnready, DispatchReady, SettleSending,
                  SettleRecoverable, EndRound, sockVars, outVars
    <2> QED  BY <2>1, Stutter
  <1>2. CASE AcceptConn(w)  BY <1>2, AcceptMaps DEF Promise!Next
  <1>3. CASE SettleComplete(w)  BY <1>3, SettleMaps DEF Promise!Next
  <1>4. CASE SendHeader(w)  BY <1>4, HeaderMaps DEF Promise!Next
  <1>5. CASE WriteSocket(w)  BY <1>5, WriteMaps DEF Promise!Next
  <1>6. CASE AcceptFails(w) \/ OutOfMemory(w) \/ SendHeaderFails(w) \/ WriteSocketFails(w)
             \/ SettleWaiting(w)
    <2>1. CASE \E how, lost :
                 /\ Die(w, how, lost)
                 /\ lost = {} \/ \E c \in Backlog : lost = {c} /\ peer[c] # "up"
      BY <2>1, DieMaps DEF Promise!Next
    <2>2. CASE UNCHANGED <<sockVars, owner, outVars>>
      <3>1. UNCHANGED <<sock, peer, owner, hdr, wire>>  BY <2>2 DEF sockVars, outVars
      <3> QED  BY <3>1, Stutter
    <2>3. CASE AcceptFails(w)
      <3>1. CASE Die(w, "exited", {})  BY <2>1, <3>1
      <3>2. CASE \E c \in Backlog : peer[c] = "rst" /\ Die(w, "exited", {c})
        BY <2>1, <3>2
      <3> QED  BY <2>3, <3>1, <3>2 DEF AcceptFails
    <2>4. CASE OutOfMemory(w)  BY <2>1, <2>4 DEF OutOfMemory, AllocFails, SelectFails
    <2>5. CASE SettleWaiting(w)  BY <2>1, <2>2, <2>5 DEF SettleWaiting
    <2>6. CASE SendHeaderFails(w) \/ WriteSocketFails(w)
      BY <2>1, <2>2, <2>6 DEF SendHeaderFails, WriteSocketFails, WriteFails
    <2> QED  BY <1>6, <2>3, <2>4, <2>5, <2>6
  <1> QED  BY <1>1, <1>2, <1>3, <1>4, <1>5, <1>6 DEF WorkerStep, HandlerStep, LoopStep

LEMMA EnvMaps ==
  ASSUME Data, EnvStep
  PROVE  Promise!Next \/ UNCHANGED Promise!vars
  <1>1. UNCHANGED serverVars /\ UNCHANGED <<owner, hdr, wire>>
    BY DEF EnvStep, serverVars, outVars
  <1>2. CASE EditFile
    <2>1. UNCHANGED <<sock, peer>>  BY <1>2 DEF EditFile
    <2> QED  BY <1>1, <2>1, Stutter
  <1>3. CASE \E c \in Conns : ClientStep(c)
    <2>1. PICK c \in Conns : ClientStep(c)  BY <1>3
    <2>2. CASE Connect(c)  BY <1>1, <2>2, ConnectMaps DEF Promise!Next
    <2>3. CASE SendRequest(c) \/ Drain(c)
      <3>1. UNCHANGED <<sock, peer>>  BY <2>3 DEF SendRequest, Drain
      <3> QED  BY <1>1, <3>1, Stutter
    <2>4. CASE Leave(c)  BY <1>1, <2>4, LeaveMaps DEF Promise!Next
    <2> QED  BY <2>1, <2>2, <2>3, <2>4 DEF ClientStep
  <1> QED  BY <1>2, <1>3 DEF EnvStep

LEMMA NextMaps == Mapped /\ [Next]_vars => [Promise!Next]_(Promise!vars)
  <1> SUFFICES ASSUME Control, Data, Inv, Excused, [Next]_vars
               PROVE  Promise!Next \/ UNCHANGED Promise!vars
    BY DEF Mapped, IInv
  <1>1. CASE EnvStep  BY <1>1, EnvMaps
  <1>2. CASE \E w \in Workers : WorkerStep(w)  BY <1>2, WorkerMaps
  <1>3. CASE UNCHANGED vars
    <2>1. UNCHANGED <<sock, peer, owner, hdr, wire>>
      BY <1>3 DEF vars, sockVars, outVars
    <2> QED  BY <2>1, Stutter
  <1> QED  BY <1>1, <1>2, <1>3 DEF Next

LEMMA InitMaps == Init => Promise!Init
  BY DEF Init, SocketsInit, Promise!Init, Phase, Kinds

\* For any number of workers and connections, sizes and buffers, the event loop
\* of server.c with the handlers of handler.c implements module Exchange: one
\* worker per connection, one answer, the file's bytes once and in order behind
\* it, no connection closed unanswered but for a client that has left or a crash
\* of the worker, and a crash confined to the connections of that worker.
THEOREM PromiseKept == Spec => KeepsPromise
  <1>1. Spec => Promise!Spec
    BY MappedInv, InitMaps, NextMaps, PTL DEF Spec, Promise!Spec
  <1> QED  BY <1>1 DEF KeepsPromise

-----------------------------------------------------------------------------

\* On the way from stat to the header: the buffer is there, and the size that
\* will be announced is still the size of the file.
Prepared(w) ==
  /\ pc[w] \in {"locate", "open"} \/ (pc[w] = "respond" /\ HasBody(resp[w])) =>
       read_buf_size[Cur(w)] = BufSize
  /\ pc[w] \in {"open", "respond"} /\ HasBody(resp[w]) /\ ~edited[Cur(w)] =>
       resp[w].size = fsize

\* The file is not read beyond its end; the last byte comes before the end.
LengthOK(c) ==
  /\ state[c] = "CONN_SENDING" => read_buf_size[c] = BufSize
  /\ ~edited[c] => file_fd[c] <= fsize
  /\ hdr[c] # <<>> /\ hdr[c][1].end /\ ~edited[c] =>
       /\ hdr[c][1].size = fsize /\ Len(wire[c]) <= fsize
       /\ state[c] = "CONN_COMPLETE" => Len(wire[c]) = fsize

Lengths == (\A w \in Workers : Prepared(w)) /\ (\A c \in Conns : LengthOK(c))

Sized == IInv /\ Lengths

-----------------------------------------------------------------------------
\* What a step leaves as it is.

LEMMA PreparedFrame ==
  ASSUME Control, Inv, NEW v \in Workers, Prepared(v), NEW D, Listed(v) \cap D = {},
         fsize' = fsize, pc'[v] = pc[v], resp'[v] = resp[v],
         active_conns'[v] = active_conns[v],
         \A d \in Conns \ D :
           read_buf_size'[d] = read_buf_size[d] /\ edited'[d] = edited[d]
  PROVE  Prepared(v)'
  <1>1. CASE pc[v] \in InCall
    <2>1. Cur(v) \in Conns \ D  BY <1>1, CallFacts
    <2>2. Cur(v)' = Cur(v)  BY DEF Cur
    <2> QED  BY <2>1, <2>2 DEF Prepared, HasBody
  <1>2. CASE pc[v] \notin InCall  BY <1>2 DEF Prepared, InCall
  <1> QED  BY <1>1, <1>2

LEMMA LengthFrame ==
  ASSUME Data, NEW d \in Conns, LengthOK(d), fsize' = fsize, edited'[d] = edited[d],
         state'[d] = state[d], read_buf_size'[d] = read_buf_size[d],
         file_fd'[d] \in {file_fd[d], -1}, hdr'[d] = hdr[d], wire'[d] = wire[d]
  PROVE  LengthOK(d)'
  <1>1. fsize \in Nat  BY SocketsAssumption DEF Data, SocketsTypeOK
  <1> QED  BY <1>1 DEF LengthOK

\* A step of w that touches at most the connection in hand.
LEMMA HandSized ==
  ASSUME Control, Data, Inv, Lengths, NEW w \in Workers, active_conns[w] # <<>>,
         NEW c, c = Cur(w), fsize' = fsize,
         \A v \in Workers \ {w} :
           pc'[v] = pc[v] /\ resp'[v] = resp[v] /\ active_conns'[v] = active_conns[v],
         \A d \in Conns \ {c} :
           /\ edited'[d] = edited[d] /\ state'[d] = state[d]
           /\ read_buf_size'[d] = read_buf_size[d] /\ file_fd'[d] = file_fd[d]
           /\ hdr'[d] = hdr[d] /\ wire'[d] = wire[d],
         Prepared(w)', LengthOK(c)'
  PROVE  Lengths'
  <1>1. \A v \in Workers \ {w} : Listed(v) \cap {c} = {}  BY InHandOwned
  <1>2. ASSUME NEW v \in Workers \ {w} PROVE Prepared(v)'
    <2>1. Prepared(v)  BY DEF Lengths
    <2>2. \A d \in Conns \ {c} :
            read_buf_size'[d] = read_buf_size[d] /\ edited'[d] = edited[d]
      OBVIOUS
    <2>3. pc'[v] = pc[v] /\ resp'[v] = resp[v] /\ active_conns'[v] = active_conns[v]
      OBVIOUS
    <2>4. fsize' = fsize /\ Listed(v) \cap {c} = {}  BY <1>1
    <2> QED  BY ONLY Control, Inv, v \in Workers, <2>1, <2>2, <2>3, <2>4, PreparedFrame
  <1>3. \A d \in Conns \ {c} : LengthOK(d)'  BY LengthFrame DEF Lengths
  <1> QED  BY <1>2, <1>3 DEF Lengths

\* A step of w after which it is outside its handlers, and which touches the
\* connections only to close them.
LEMMA LoopSized ==
  ASSUME Control, Data, Inv, Lengths, NEW w \in Workers,
         pc'[w] \notin InCall, fsize' = fsize, edited' = edited, hdr' = hdr, wire' = wire,
         state' = state, read_buf_size' = read_buf_size,
         \A d \in Conns : file_fd'[d] \in {file_fd[d], -1},
         \A v \in Workers \ {w} :
           pc'[v] = pc[v] /\ resp'[v] = resp[v] /\ active_conns'[v] = active_conns[v]
  PROVE  Lengths'
  <1>1. \A v \in Workers \ {w} : Listed(v) \cap {} = {}  OBVIOUS
  <1>2. \A v \in Workers \ {w} : Prepared(v)'
    BY <1>1, PreparedFrame DEF Lengths
  <1>3. Prepared(w)'  BY DEF Prepared, InCall
  <1>4. \A d \in Conns : LengthOK(d)'  BY LengthFrame DEF Lengths
  <1> QED  BY <1>2, <1>3, <1>4 DEF Lengths

LEMMA DieSized ==
  ASSUME Control, Data, Inv, Lengths, NEW w \in Workers, NEW how \in Dead, NEW lost,
         Die(w, how, lost)
  PROVE  Lengths'
  <1>1. pc' = [pc EXCEPT ![w] = how] /\ how \notin InCall  BY DEF Die, Dead, InCall
  <1>2. pc'[w] \notin InCall /\ \A v \in Workers \ {w} : pc'[v] = pc[v]  BY <1>1, GotoPc
  <1>3. \A v \in Workers \ {w} : active_conns'[v] = active_conns[v]  BY DEF Die, Control
  <1>4. \A d \in Conns : file_fd'[d] \in {file_fd[d], -1}  BY DEF Die
  <1> QED  BY <1>2, <1>3, <1>4, LoopSized DEF Die

-----------------------------------------------------------------------------
\* The handler.

\* An aborted connection announces nothing more and is read no further.
LEMMA AbortSized ==
  ASSUME Control, Data, Inv, Lengths, NEW w \in Workers, pc[w] \in InCall, Abort(w),
         UNCHANGED <<sockVars, file_fd, read_buf_size, listVars, resp, outVars>>
  PROVE  Lengths'
  <1> DEFINE c == Cur(w)
  <1>1. active_conns[w] # <<>> /\ c \in Conns /\ c' = c
    BY CallFacts DEF listVars, Cur
  <1>2. pc'[w] = "settle" /\ \A v \in Workers \ {w} : pc'[v] = pc[v]
    BY GotoPc DEF Abort, ReturnWith, Return
  <1>3. /\ state'[c] = "CONN_ERR_UNRECOVERABLE"
        /\ \A d \in Conns \ {c} : state'[d] = state[d]
    BY <1>1 DEF Abort, ReturnWith, Data
  <1>4. Prepared(w)'  BY <1>2 DEF Prepared
  <1>5. LengthOK(c)'
    BY <1>1, <1>3 DEF LengthOK, Lengths, sockVars, outVars
  <1> HIDE DEF c
  <1>6. c = Cur(w)  BY DEF c
  <1> QED
    BY <1>1, <1>2, <1>3, <1>4, <1>5, <1>6, HandSized DEF sockVars, listVars, outVars

LEMMA WriteFailsSized ==
  ASSUME Control, Data, Inv, Lengths, NEW w \in Workers, pc[w] \in InCall, WriteFails(w)
  PROVE  Lengths'
  <1>1. CASE Die(w, "killed", {})  BY <1>1, DieSized DEF Dead
  <1> QED  BY <1>1, AbortSized DEF WriteFails

LEMMA ReadSized ==
  ASSUME Control, Data, Inv, Lengths, NEW w \in Workers,
         ReadAndParse(w) \/ ReadEof(w) \/ ReadError(w)
  PROVE  Lengths'
  <1> DEFINE c == Cur(w)
  <1>1. /\ pc[w] = "read" /\ AllocReadBuf(c)
        /\ UNCHANGED <<fsize, edited, file_fd, listVars, outVars>>
    BY DEF ReadAndParse, ReadEof, ReadError, sockVars, outVars
  <1>2. active_conns[w] # <<>> /\ c \in Conns /\ HandOK(w) /\ LifeOK(c) /\ c' = c
    BY <1>1, CallFacts DEF InCall, listVars, Cur
  <1>3. /\ read_buf_size'[c] = BufSize
        /\ \A d \in Conns \ {c} : read_buf_size'[d] = read_buf_size[d]
    BY <1>1, <1>2 DEF AllocReadBuf, Data
  <1>4. /\ \A v \in Workers \ {w} : pc'[v] = pc[v] /\ resp'[v] = resp[v]
        /\ pc'[w] \in {"locate", "respond", "settle"}
        /\ pc'[w] = "respond" => ~HasBody(resp[w])'
    <2>1. CASE ReadAndParse(w)
      <3>1. CASE \E m : /\ resp' = [resp EXCEPT ![w] = [req |-> m, code |-> "HTTP_OK", size |-> 0]]
                        /\ Goto(w, "locate")
        <4>1. PICK r : resp' = [resp EXCEPT ![w] = r]  BY <3>1
        <4>2. \A v \in Workers \ {w} : resp'[v] = resp[v]  BY <4>1, RespSame
        <4>3. pc'[w] = "locate" /\ \A v \in Workers \ {w} : pc'[v] = pc[v]
          BY <3>1, GotoPc DEF Goto
        <4> QED  BY <4>2, <4>3
      <3>2. CASE \E code : resp' = [resp EXCEPT ![w] = ErrorResponse(code)] /\ Goto(w, "respond")
        <4>1. PICK code : resp' = [resp EXCEPT ![w] = ErrorResponse(code)]  BY <3>2
        <4>2. resp'[w] = ErrorResponse(code) /\ \A v \in Workers \ {w} : resp'[v] = resp[v]
          BY <4>1, RespSame
        <4>3. ~HasBody(resp[w])'  BY <4>2 DEF ErrorResponse, HasBody
        <4> QED  BY <3>2, <4>2, <4>3, GotoPc DEF Goto
      <3> QED  BY <2>1, <3>1, <3>2 DEF ReadAndParse
    <2>2. CASE ReadEof(w) \/ ReadError(w)
      BY <2>2, GotoPc DEF ReadEof, ReadError, ReturnWith, Return
    <2> QED  BY <2>1, <2>2
  <1>5. /\ \A d \in Conns \ {c} : state'[d] = state[d]
        /\ state'[c] \in {"CONN_WAITING", "CONN_ERR_RECOVERABLE"}
        /\ hdr[c] = <<>> /\ file_fd[c] = -1
    <2>1. state[c] = "CONN_WAITING" /\ file_fd[c] = -1  BY <1>1, <1>2 DEF HandOK, Fresh
    <2> QED
      BY <1>2, <2>1 DEF ReadAndParse, ReadEof, ReadError, ReturnWith, Data, LifeOK, SilentOK
  <1>6. Prepared(w)'
    BY <1>2, <1>3, <1>4 DEF Prepared, HasBody
  <1>7. LengthOK(c)'
    <2>1. fsize \in Nat  BY SocketsAssumption DEF Data, SocketsTypeOK
    <2> QED  BY <1>1, <1>2, <1>5, <2>1 DEF LengthOK, outVars
  <1> HIDE DEF c
  <1>8. c = Cur(w)  BY DEF c
  <1> QED
    BY <1>1, <1>2, <1>3, <1>4, <1>5, <1>6, <1>7, <1>8, HandSized DEF listVars, outVars

LEMMA LocateSized ==
  ASSUME Control, Data, Inv, Lengths, NEW w \in Workers, Locate(w)
  PROVE  Lengths'
  <1> DEFINE c == Cur(w)
  <1>1. /\ pc[w] = "locate"
        /\ UNCHANGED <<fsize, state, read_buf_size, file_fd, listVars, outVars>>
    BY DEF Locate, connVars
  <1>2. active_conns[w] # <<>> /\ c \in Conns /\ HandOK(w) /\ LifeOK(c) /\ c' = c
    BY <1>1, CallFacts DEF InCall, listVars, Cur
  <1>3. /\ state[c] = "CONN_WAITING" /\ file_fd[c] = -1 /\ hdr[c] = <<>>
        /\ read_buf_size[c] = BufSize
    BY <1>1, <1>2 DEF HandOK, LifeOK, SilentOK, Lengths, Prepared
  <1>4. PICK r : /\ resp' = [resp EXCEPT ![w] = r]
                 /\ \/ ~HasBody(r) /\ Goto(w, "respond")
                    \/ r.size = fsize /\ Goto(w, "open")
                    \/ r.size = fsize /\ Goto(w, "respond")
    <2>1. CASE \E code \in Errors :
                 resp' = [resp EXCEPT ![w] = ErrorResponse(code)] /\ Goto(w, "respond")
      BY <2>1, ErrorHasNoBody
    <2>2. CASE /\ resp' = [resp EXCEPT ![w].size = fsize]
               /\ Goto(w, IF resp[w].req = "HTTP_GET" THEN "open" ELSE "respond")
      <3> DEFINE r == [resp[w] EXCEPT !.size = fsize]
      <3>1. resp' = [resp EXCEPT ![w] = r]  BY <2>2
      <3>2. r.size = fsize
        <4>1. resp[w] \in Responses  BY DEF Data
        <4> QED  BY <4>1 DEF Responses
      <3> HIDE DEF r
      <3> QED  BY <2>2, <3>1, <3>2
    <2> QED  BY <2>1, <2>2 DEF Locate
  <1>5. resp'[w] = r /\ \A v \in Workers \ {w} : resp'[v] = resp[v]  BY <1>4, RespSame
  <1>6. /\ \A v \in Workers \ {w} : pc'[v] = pc[v]
        /\ pc'[w] \in {"open", "respond"}
        /\ (~HasBody(resp[w])' /\ pc'[w] = "respond") \/ resp'[w].size = fsize
    BY <1>4, <1>5, GotoPc DEF Goto, HasBody
  <1>7. Prepared(w)'  BY <1>1, <1>2, <1>3, <1>6 DEF Prepared, HasBody
  <1>8. LengthOK(c)'
    <2>1. fsize \in Nat  BY SocketsAssumption DEF Data, SocketsTypeOK
    <2> QED  BY <1>1, <1>2, <1>3, <2>1 DEF LengthOK, outVars
  <1>9. \A d \in Conns \ {c} : edited'[d] = edited[d]
    BY DEF Locate, Data, SocketsTypeOK
  <1> HIDE DEF c
  <1>10. c = Cur(w)  BY DEF c
  <1> QED
    BY <1>1, <1>2, <1>5, <1>6, <1>7, <1>8, <1>9, <1>10, HandSized DEF listVars, outVars

LEMMA OpenSized ==
  ASSUME Control, Data, Inv, Lengths, NEW w \in Workers, OpenFile(w)
  PROVE  Lengths'
  <1> DEFINE c == Cur(w)
  <1>1. /\ pc[w] = "open" /\ Goto(w, "respond")
        /\ UNCHANGED <<sockVars, state, read_buf_size, listVars, outVars>>
    BY DEF OpenFile
  <1>2. active_conns[w] # <<>> /\ c \in Conns /\ HandOK(w) /\ LifeOK(c) /\ c' = c
    BY <1>1, CallFacts DEF InCall, listVars, Cur
  <1>3. /\ state[c] = "CONN_WAITING" /\ hdr[c] = <<>> /\ read_buf_size[c] = BufSize
    BY <1>1, <1>2 DEF HandOK, LifeOK, SilentOK, Lengths, Prepared
  <1>4. pc'[w] = "respond" /\ \A v \in Workers \ {w} : pc'[v] = pc[v]
    BY <1>1, GotoPc DEF Goto
  <1>5. /\ \A v \in Workers \ {w} : resp'[v] = resp[v]
        /\ ~HasBody(resp[w])' \/ resp'[w] = resp[w]
    <2>1. CASE \E code \in Errors : resp' = [resp EXCEPT ![w] = ErrorResponse(code)]
      <3>1. PICK code \in Errors : resp' = [resp EXCEPT ![w] = ErrorResponse(code)]
        BY <2>1
      <3>2. resp'[w] = ErrorResponse(code) /\ \A v \in Workers \ {w} : resp'[v] = resp[v]
        BY <3>1, RespSame
      <3> QED  BY <3>2 DEF ErrorResponse, HasBody
    <2> QED  BY <2>1 DEF OpenFile
  <1>6. Prepared(w)'
    BY <1>1, <1>2, <1>3, <1>4, <1>5 DEF Prepared, HasBody, Lengths, sockVars
  <1>7. file_fd'[c] \in {file_fd[c], 0} /\ \A d \in Conns \ {c} : file_fd'[d] = file_fd[d]
    BY <1>2 DEF OpenFile, Data
  <1>8. LengthOK(c)'
    <2>1. fsize \in Nat  BY SocketsAssumption DEF Data, SocketsTypeOK
    <2> QED  BY <1>1, <1>2, <1>3, <1>7, <2>1 DEF LengthOK, Lengths, sockVars, outVars
  <1> HIDE DEF c
  <1>9. c = Cur(w)  BY DEF c
  <1> QED
    BY <1>1, <1>2, <1>4, <1>5, <1>6, <1>7, <1>8, <1>9, HandSized
    DEF sockVars, listVars, outVars

LEMMA HeaderSized ==
  ASSUME Control, Data, Inv, Lengths, NEW w \in Workers, SendHeader(w)
  PROVE  Lengths'
  <1> DEFINE c == Cur(w)
             h == [code |-> resp[w].code, size |-> resp[w].size,
                   whole |-> Accepted(c, HdrLen) = HdrLen, end |-> HasBody(resp[w])]
  <1>1. /\ pc[w] = "respond"
        /\ UNCHANGED <<fsize, edited, file_fd, read_buf_size, listVars, resp, wire>>
    BY DEF SendHeader
  <1>2. active_conns[w] # <<>> /\ c \in Conns /\ HandOK(w) /\ LifeOK(c) /\ c' = c
    BY <1>1, CallFacts DEF InCall, listVars, Cur
  <1>3. hdr[c] = <<>> /\ wire[c] = <<>>
    BY <1>1, <1>2 DEF HandOK, LifeOK, SilentOK
  <1>4. hdr'[c] = <<h>> /\ \A d \in Conns \ {c} : hdr'[d] = hdr[d]
    BY <1>2, <1>3 DEF SendHeader, Data
  <1>5. h.size = resp[w].size /\ h.end = HasBody(resp[w])  OBVIOUS
  <1> HIDE DEF h
  <1>6. /\ \A d \in Conns \ {c} : state'[d] = state[d]
        /\ \/ ~HasBody(resp[w])
           \/ state'[c] \in {"CONN_ERR_UNRECOVERABLE", "CONN_SENDING"}
        /\ state'[c] = "CONN_SENDING" => HasBody(resp[w])
    BY <1>2 DEF SendHeader, ReturnWith, Abort, Data
  <1>7. pc'[w] \in {"settle", "pump"} /\ \A v \in Workers \ {w} : pc'[v] = pc[v]
    BY GotoPc DEF SendHeader, ReturnWith, Abort, Return, Goto
  <1>8. Prepared(w)'  BY <1>7 DEF Prepared
  <1>9. LengthOK(c)'
    <2>1. HasBody(resp[w]) => read_buf_size[c] = BufSize
      BY <1>1 DEF Lengths, Prepared
    <2>2. HasBody(resp[w]) /\ ~edited[c] => resp[w].size = fsize
      BY <1>1 DEF Lengths, Prepared
    <2>3. fsize \in Nat /\ Len(wire[c]) = 0
      BY <1>3, SocketsAssumption DEF Data, SocketsTypeOK
    <2>4. ~edited[c] => file_fd[c] <= fsize  BY <1>2 DEF Lengths, LengthOK
    <2>5. hdr'[c][1] = h  BY <1>4
    <2> QED  BY <1>1, <1>2, <1>5, <1>6, <2>1, <2>2, <2>3, <2>4, <2>5 DEF LengthOK
  <1> HIDE DEF c
  <1>10. c = Cur(w)  BY DEF c
  <1> QED
    BY <1>1, <1>2, <1>4, <1>6, <1>7, <1>8, <1>9, <1>10, HandSized DEF listVars

LEMMA ReadFileSized ==
  ASSUME Control, Data, Inv, Lengths, NEW w \in Workers, ReadFile(w)
  PROVE  Lengths'
  <1> DEFINE c == Cur(w)
             n == Smaller(read_buf_size[c], fsize - file_fd[c])
  <1>1. /\ active_conns[w] # <<>> /\ c \in Conns /\ LifeOK(c) /\ state[c] = "CONN_SENDING"
        /\ file_fd[c] \in Nat /\ fsize \in Nat
        /\ read_buf_len[c] \in Nat /\ read_buf_cursor[c] \in Nat
        /\ read_buf_cursor[c] <= read_buf_len[c]
        /\ Len(wire[c]) = file_fd[c] - read_buf_len[c] + read_buf_cursor[c]
    BY PumpFacts DEF ReadFile
  <1>2. read_buf_size[c] = BufSize /\ LengthOK(c)  BY <1>1 DEF Lengths, LengthOK
  <1>3. /\ pc[w] = "pump" /\ BufferEmpty(c) /\ c' = c
        /\ UNCHANGED <<fsize, edited, read_buf_size, listVars, resp, hdr, wire>>
    BY DEF ReadFile, sockVars, outVars, listVars, Cur
  <1>4. CASE Abort(w) /\ UNCHANGED file_fd
    BY <1>3, <1>4, AbortSized DEF ReadFile, InCall
  <1>5. CASE EndOfFile(c, n) /\ ReturnWith(w, "CONN_COMPLETE") /\ UNCHANGED file_fd
    <2>1. ~edited[c] => Len(wire[c]) = fsize
      <3>1. fsize - file_fd[c] <= 0
        BY <1>1, <1>2, <1>5, HandlerAssumption DEF EndOfFile, Smaller
      <3>2. Len(wire[c]) = file_fd[c]  BY <1>1, <1>3 DEF BufferEmpty
      <3>3. ~edited[c] => file_fd[c] <= fsize  BY <1>2 DEF LengthOK
      <3> QED  BY <1>1, <3>1, <3>2, <3>3
    <2>2. /\ state'[c] = "CONN_COMPLETE"
          /\ \A d \in Conns \ {c} : state'[d] = state[d]
      BY <1>1, <1>5 DEF ReturnWith, Data
    <2>3. pc'[w] = "settle" /\ \A v \in Workers \ {w} : pc'[v] = pc[v]
      BY <1>5, GotoPc DEF ReturnWith, Return
    <2>4. Prepared(w)'  BY <2>3 DEF Prepared
    <2>5. LengthOK(c)'  BY <1>2, <1>3, <1>5, <2>1, <2>2 DEF LengthOK
    <2> HIDE DEF c
    <2>6. c = Cur(w)  BY DEF c
    <2> QED
      BY <1>1, <1>3, <1>5, <2>2, <2>3, <2>4, <2>5, <2>6, HandSized DEF listVars
  <1>6. CASE /\ ~EndOfFile(c, n) /\ file_fd' = [file_fd EXCEPT ![c] = @ + n]
             /\ Goto(w, "pump") /\ UNCHANGED state
    <2>1. file_fd[c] + n <= fsize /\ n \in Int
      BY <1>1, <1>2, <1>6, HandlerAssumption DEF Smaller
    <2>2. file_fd'[c] <= fsize /\ \A d \in Conns \ {c} : file_fd'[d] = file_fd[d]
      BY <1>1, <1>6, <2>1 DEF Data
    <2>3. pc'[w] = "pump" /\ \A v \in Workers \ {w} : pc'[v] = pc[v]
      BY <1>6, GotoPc DEF Goto
    <2>4. Prepared(w)'  BY <2>3 DEF Prepared
    <2>5. LengthOK(c)'  BY <1>2, <1>3, <1>6, <2>2 DEF LengthOK
    <2> HIDE DEF c
    <2>6. c = Cur(w)  BY DEF c
    <2> QED
      BY <1>1, <1>3, <1>6, <2>2, <2>3, <2>4, <2>5, <2>6, HandSized DEF listVars
  <1> QED  BY <1>4, <1>5, <1>6 DEF ReadFile

\* The count of what was written is that of BodyOK, before and after the step.
LEMMA WriteSized ==
  ASSUME Control, Data, Inv, Lengths, Inv', NEW w \in Workers, WriteSocket(w)
  PROVE  Lengths'
  <1> DEFINE c == Cur(w)
  <1>1. /\ active_conns[w] # <<>> /\ c \in Conns /\ sock[c] = "open"
        /\ state[c] = "CONN_SENDING" /\ file_fd[c] \in Nat /\ fsize \in Nat
        /\ read_buf_len[c] \in Nat /\ read_buf_cursor[c] \in Nat
        /\ sndq[c] \in 0..SndBuf /\ SndBuf \in Nat
    BY PumpFacts DEF WriteSocket
  <1>2. /\ pc[w] = "pump" /\ c' = c
        /\ UNCHANGED <<sock, fsize, edited, state, file_fd, read_buf_size, read_buf_len,
                       listVars, resp, hdr>>
    BY DEF WriteSocket, listVars, Cur
  <1>3. Len(wire'[c]) <= file_fd[c]
    <2>1. BodyOK(c)'  BY <1>1, <1>2 DEF Inv, LifeOK
    <2>2. read_buf_cursor'[c] \in Nat
      <3> DEFINE n == Accepted(c, read_buf_len[c] - read_buf_cursor[c])
      <3>1. \/ n > 0 /\ read_buf_cursor' = [read_buf_cursor EXCEPT ![c] = @ + n]
            \/ read_buf_cursor' = read_buf_cursor
        BY DEF WriteSocket
      <3>2. n \in Int  BY <1>1 DEF Accepted, Smaller
      <3>3. read_buf_cursor \in [Conns -> 0..BufSize]  BY DEF Data
      <3> HIDE DEF n, c
      <3> QED  BY <1>1, <3>1, <3>2, <3>3
    <2> QED  BY <1>1, <1>2, <2>1, <2>2 DEF BodyOK
  <1>4. \A d \in Conns \ {c} : wire'[d] = wire[d]
    BY DEF WriteSocket, Data
  <1>5. pc'[w] \in {"pump", "settle"} /\ \A v \in Workers \ {w} : pc'[v] = pc[v]
    <2>1. \E label \in {"pump", "settle"} : pc' = [pc EXCEPT ![w] = label]
      BY DEF WriteSocket, Goto, Return
    <2> QED  BY <2>1, GotoPc
  <1>6. Prepared(w)'  BY <1>5 DEF Prepared
  <1>7. LengthOK(c)'
    <2>1. LengthOK(c)  BY <1>1 DEF Lengths
    <2>2. Len(wire'[c]) \in Nat
      <3>1. wire[c] \in Seq(Int)  BY <1>1 DEF Data
      <3> QED  BY <1>1, <1>2, PumpFacts DEF WriteSocket
    <2>3. ~edited[c] => Len(wire'[c]) <= fsize  BY <1>1, <1>3, <2>1, <2>2 DEF LengthOK
    <2> QED  BY <1>1, <1>2, <2>1, <2>3 DEF LengthOK
  <1> HIDE DEF c
  <1>8. c = Cur(w)  BY DEF c
  <1> QED
    BY <1>1, <1>2, <1>4, <1>5, <1>6, <1>7, <1>8, HandSized DEF listVars

-----------------------------------------------------------------------------
\* The loop.

LEMMA AcceptSized ==
  ASSUME Control, Data, Inv, Lengths, NEW w \in Workers, AcceptConn(w)
  PROVE  Lengths'
  <1>1. PICK c \in Backlog :
          /\ state' = [state EXCEPT ![c] = "CONN_WAITING"]
          /\ file_fd' = [file_fd EXCEPT ![c] = -1]
    BY DEF AcceptConn
  <1>2. c \in Conns /\ state[c] = "CONN_WAITING" /\ file_fd[c] = -1
    <2>1. c \in Conns /\ sock[c] = "backlog"  BY DEF Backlog
    <2> QED  BY <2>1 DEF Inv, FdOK, Fresh
  <1>3. state' = state /\ file_fd' = file_fd  BY <1>1, <1>2 DEF Data
  <1>4. pc'[w] \notin InCall /\ \A v \in Workers \ {w} : pc'[v] = pc[v]
    BY GotoPc DEF AcceptConn, Goto, InCall
  <1> QED  BY <1>3, <1>4, LoopSized DEF AcceptConn, outVars

LEMMA SettleSized ==
  ASSUME Control, Data, Inv, Lengths, NEW w \in Workers, SettleComplete(w)
  PROVE  Lengths'
  <1> DEFINE c == Cur(w)
  <1>1. /\ active_conns[w] # <<>> /\ c \in Conns
        /\ state[c] \in {"CONN_COMPLETE", "CONN_ERR_UNRECOVERABLE"}
    BY CallFacts DEF SettleComplete
  <1>2. UNCHANGED <<fsize, edited, state, resp, hdr, wire>>
    BY DEF SettleComplete, outVars
  <1>3. /\ \A d \in Conns \ {c} : file_fd'[d] = file_fd[d] /\ read_buf_size'[d] = read_buf_size[d]
        /\ file_fd'[c] = -1
        /\ \A v \in Workers \ {w} : active_conns'[v] = active_conns[v]
    BY <1>1 DEF SettleComplete, Data, Control
  <1>4. pc'[w] = "dispatch" /\ \A v \in Workers \ {w} : pc'[v] = pc[v]
    BY GotoPc DEF SettleComplete, Goto
  <1>5. Prepared(w)'  BY <1>4 DEF Prepared
  <1> HIDE DEF c
  <1>6. ASSUME NEW d \in Conns, d = c PROVE LengthOK(d)'
    <2>1. fsize \in Nat  BY SocketsAssumption DEF Data, SocketsTypeOK
    <2> QED  BY <1>1, <1>2, <1>3, <1>6, <2>1 DEF LengthOK, Lengths
  <1>7. c = Cur(w)  BY DEF c
  <1>8. \A v \in Workers \ {w} : Listed(v) \cap {c} = {}  BY <1>1, <1>7, InHandOwned
  <1>9. \A v \in Workers \ {w} : Prepared(v)'
    BY <1>2, <1>3, <1>4, <1>8, PreparedFrame DEF Lengths
  <1>10. \A d \in Conns \ {c} : LengthOK(d)'
    BY <1>2, <1>3, LengthFrame DEF Lengths
  <1> QED  BY <1>5, <1>6, <1>9, <1>10 DEF Lengths

LEMMA RecoverSized ==
  ASSUME Control, Data, Inv, Lengths, NEW w \in Workers, SettleRecoverable(w)
  PROVE  Lengths'
  <1>1. UNCHANGED <<sockVars, connVars, listVars, outVars>>  BY DEF SettleRecoverable
  <1>2. /\ resp'[w].req = "NULL"
        /\ \A v \in Workers \ {w} : resp'[v] = resp[v]
    <2>1. resp' = [resp EXCEPT ![w] = ErrorResponse("HTTP_INTERNAL_SERVER_ERROR")]
      BY DEF SettleRecoverable
    <2>2. /\ resp'[w] = ErrorResponse("HTTP_INTERNAL_SERVER_ERROR")
          /\ \A v \in Workers \ {w} : resp'[v] = resp[v]
      BY <2>1, RespSame
    <2>3. ErrorResponse("HTTP_INTERNAL_SERVER_ERROR").req = "NULL"  BY ErrorHasNoBody
    <2> QED  BY <2>2, <2>3
  <1>3. pc'[w] = "respond" /\ \A v \in Workers \ {w} : pc'[v] = pc[v]
    BY GotoPc DEF SettleRecoverable
  <1>4. Prepared(w)'  BY <1>2, <1>3 DEF Prepared, HasBody
  <1>5. \A v \in Workers \ {w} : Listed(v) \cap {} = {}  OBVIOUS
  <1>6. \A v \in Workers \ {w} : Prepared(v)'
    BY <1>1, <1>2, <1>3, <1>5, PreparedFrame DEF Lengths, sockVars, connVars, listVars
  <1>7. \A d \in Conns : LengthOK(d)'
    BY <1>1, LengthFrame DEF Lengths, sockVars, connVars, outVars
  <1> QED  BY <1>4, <1>6, <1>7 DEF Lengths

LEMMA DispatchSized ==
  ASSUME Control, Data, Inv, Lengths, NEW w \in Workers, DispatchReady(w)
  PROVE  Lengths'
  <1>1. UNCHANGED <<sockVars, connVars, listVars, resp, outVars>>  BY DEF DispatchReady
  <1>2. pc'[w] \in {"read", "pump"} /\ \A v \in Workers \ {w} : pc'[v] = pc[v]
    BY GotoPc DEF DispatchReady
  <1>3. Prepared(w)'  BY <1>2 DEF Prepared
  <1>4. \A v \in Workers \ {w} : Listed(v) \cap {} = {}  OBVIOUS
  <1>5. \A v \in Workers \ {w} : Prepared(v)'
    BY <1>1, <1>2, <1>4, PreparedFrame DEF Lengths, sockVars, connVars, listVars
  <1>6. \A d \in Conns : LengthOK(d)'
    BY <1>1, LengthFrame DEF Lengths, sockVars, connVars, outVars
  <1> QED  BY <1>3, <1>5, <1>6 DEF Lengths

\* The steps that touch no connection and lead to no handler.
LEMMA RoundSized ==
  ASSUME Control, Data, Inv, Lengths, NEW w \in Workers,
         \/ Select(w) \/ AcceptNothing(w) \/ DispatchUnready(w) \/ SettleSending(w)
         \/ SettleWaiting(w) \/ EndRound(w)
  PROVE  Lengths'
  <1>1. CASE Die(w, "aborted", {})  BY <1>1, DieSized DEF Dead
  <1>2. CASE ~Die(w, "aborted", {})
    <2>1. UNCHANGED <<sockVars, connVars, resp, outVars>>
      BY <1>2 DEF Select, AcceptNothing, DispatchUnready, SettleSending, SettleWaiting, EndRound
    <2>2. pc'[w] \notin InCall /\ \A v \in Workers \ {w} : pc'[v] = pc[v]
      <3>1. CASE DispatchUnready(w)  BY <3>1 DEF DispatchUnready, InCall
      <3>2. CASE ~DispatchUnready(w)
        <4>1. \E label \in {"accept", "dispatch", "select"} : pc' = [pc EXCEPT ![w] = label]
          BY <1>2, <3>2
          DEF Select, AcceptNothing, SettleSending, SettleWaiting, EndRound, Goto
        <4> QED  BY <4>1, GotoPc DEF InCall
      <3> QED  BY <3>1, <3>2
    <2>3. \A v \in Workers \ {w} : active_conns'[v] = active_conns[v]
      BY <1>2 DEF Select, AcceptNothing, DispatchUnready, SettleSending, SettleWaiting,
                  EndRound, Keep, listVars, Control
    <2> QED  BY <2>1, <2>2, <2>3, LoopSized DEF sockVars, connVars, outVars
  <1> QED  BY <1>1, <1>2

LEMMA EnvSized ==
  ASSUME Control, Data, Inv, Lengths, EnvStep
  PROVE  Lengths'
  <1>1. UNCHANGED serverVars  BY DEF EnvStep
  <1>2. CASE EditFile
    <2>1. \A c \in Conns : edited'[c]  BY <1>2 DEF EditFile
    <2>2. \A c \in Conns : LengthOK(c)'
      BY <1>1, <2>1 DEF LengthOK, Lengths, serverVars, connVars, outVars
    <2>3. ASSUME NEW w \in Workers PROVE Prepared(w)'
      <3>1. pc[w] \in InCall => Cur(w) \in Conns  BY CallFacts
      <3>2. Cur(w)' = Cur(w)  BY <1>1 DEF serverVars, listVars, Cur
      <3> QED
        BY <1>1, <2>1, <3>1, <3>2
        DEF Prepared, HasBody, Lengths, InCall, serverVars, connVars
    <2> QED  BY <2>2, <2>3 DEF Lengths
  <1>3. CASE \E c \in Conns : ClientStep(c)
    <2>1. UNCHANGED <<fsize, edited>>
      BY <1>3 DEF ClientStep, Connect, SendRequest, Drain, Leave
    <2>2. \A c \in Conns : LengthOK(c)'
      BY <1>1, <2>1, LengthFrame DEF Lengths, serverVars, connVars, outVars
    <2>3. \A w \in Workers : Listed(w) \cap {} = {}  OBVIOUS
    <2>4. \A w \in Workers : Prepared(w)'
      BY <1>1, <2>1, <2>3, PreparedFrame DEF Lengths, serverVars, connVars, listVars
    <2> QED  BY <2>2, <2>4 DEF Lengths
  <1> QED  BY <1>2, <1>3 DEF EnvStep

-----------------------------------------------------------------------------
LEMMA NextSized == Sized /\ [Next]_vars => Lengths'
  <1> SUFFICES ASSUME Control, Data, Inv, Lengths, Inv', [Next]_vars PROVE Lengths'
    BY NextInv DEF Sized, IInv
  <1>1. CASE EnvStep  BY <1>1, EnvSized
  <1>2. CASE \E w \in Workers : WorkerStep(w)
    <2>1. PICK w \in Workers : WorkerStep(w)  BY <1>2
    <2>2. CASE HandlerStep(w)
      <3>1. CASE SendHeaderFails(w) \/ WriteSocketFails(w)
        BY <3>1, WriteFailsSized DEF SendHeaderFails, WriteSocketFails, InCall
      <3> QED
        BY <2>2, <3>1, ReadSized, LocateSized, OpenSized, HeaderSized, ReadFileSized,
           WriteSized
        DEF HandlerStep
    <2>3. CASE LoopStep(w)
      <3>1. CASE AcceptFails(w)  BY <3>1, DieSized DEF AcceptFails, Dead
      <3> QED
        BY <2>3, <3>1, RoundSized, AcceptSized, DispatchSized, SettleSized, RecoverSized
        DEF LoopStep
    <2>4. CASE OutOfMemory(w)  BY <2>4, DieSized DEF OutOfMemory, AllocFails, SelectFails, Dead
    <2> QED  BY <2>1, <2>2, <2>3, <2>4 DEF WorkerStep
  <1>3. CASE UNCHANGED vars
    <2>1. \A c \in Conns : LengthOK(c)'
      BY <1>3, LengthFrame DEF Lengths, vars, sockVars, connVars, outVars
    <2>2. \A w \in Workers : Listed(w) \cap {} = {}  OBVIOUS
    <2>3. \A w \in Workers : Prepared(w)'
      BY <1>3, <2>2, PreparedFrame DEF Lengths, vars, sockVars, connVars, listVars
    <2> QED  BY <2>1, <2>3 DEF Lengths
  <1> QED  BY <1>1, <1>2, <1>3 DEF Next

LEMMA InitSized == Init => Sized
  <1> SUFFICES ASSUME Init PROVE Lengths
    BY ControlInit, InitInv DEF Sized, IInv
  <1>1. \A c \in Conns : LengthOK(c)
    BY SocketsAssumption DEF Init, SocketsInit, LengthOK
  <1>2. \A w \in Workers : Prepared(w)  BY DEF Init, Prepared
  <1> QED  BY <1>1, <1>2 DEF Lengths

\* handler.c announces the size that stat reported and sends what read returns
\* later: if nobody edits the file in between, the body has that length, never
\* more, and no less when the connection is complete.  For any number of workers
\* and connections, buffer sizes, file sizes and partial writes.
THEOREM LengthCorrect == Spec => []AnnouncedLength
  <1>1. Sized /\ [Next]_vars => Sized'  BY NextInv, NextSized DEF Sized
  <1>2. Sized => AnnouncedLength
    BY DEF Sized, Lengths, LengthOK, AnnouncedLength
  <1> QED  BY InitSized, <1>1, <1>2, PTL DEF Spec

-----------------------------------------------------------------------------
(***************************************************************************)
(* A round comes to an end.  Outside select every step of a worker lowers  *)
(* five natural numbers in their lexicographic order, and no step of       *)
(* another process raises them while the file keeps its size: so no worker *)
(* takes infinitely many steps without a return to select.                 *)
(***************************************************************************)

LEMMA LowerAt ==
  ASSUME NEW m, NEW n,
         \/ m[1] < n[1]
         \/ m[1] = n[1] /\ m[2] < n[2]
         \/ m[1] = n[1] /\ m[2] = n[2] /\ m[3] < n[3]
         \/ m[1] = n[1] /\ m[2] = n[2] /\ m[3] = n[3] /\ m[4] < n[4]
         \/ m[1] = n[1] /\ m[2] = n[2] /\ m[3] = n[3] /\ m[4] = n[4] /\ m[5] < n[5]
  PROVE  Lower(m, n)
  <1>1. PICK k \in 1..5 : m[k] < n[k] /\ \A j \in 1..5 : j < k => m[j] = n[j]
    OBVIOUS
  <1>2. \A j \in 1..(k - 1) : j \in 1..5 /\ j < k  OBVIOUS
  <1> QED  BY <1>1, <1>2 DEF Lower

\* The order in which a step of w may bring the end closer.
Closer(w) ==
  \/ Stage(w)' < Stage(w)
  \/ /\ Stage(w)' = Stage(w)
     /\ Len(active_conns'[w]) < Len(active_conns[w])
  \/ /\ Stage(w)' = Stage(w) /\ active_conns'[w] = active_conns[w]
     /\ \/ Rank(w)' < Rank(w)
        \/ Rank(w)' = Rank(w) /\ Unread(w)' < Unread(w)
        \/ Rank(w)' = Rank(w) /\ Unread(w)' = Unread(w) /\ Unsent(w)' < Unsent(w)

LEMMA CloserLower ==
  ASSUME NEW w \in Workers, Closer(w)
  PROVE  Lower(Ahead(w)', Ahead(w))
  <1> DEFINE m == Ahead(w)'
             n == Ahead(w)
  <1>1. /\ m[1] = Stage(w)' /\ m[2] = Len(active_conns'[w]) /\ m[3] = Rank(w)'
        /\ m[4] = Unread(w)' /\ m[5] = Unsent(w)'
        /\ n[1] = Stage(w) /\ n[2] = Len(active_conns[w]) /\ n[3] = Rank(w)
        /\ n[4] = Unread(w) /\ n[5] = Unsent(w)
    BY DEF Ahead
  <1>2. \/ m[1] < n[1]
        \/ m[1] = n[1] /\ m[2] < n[2]
        \/ m[1] = n[1] /\ m[2] = n[2] /\ m[3] < n[3]
        \/ m[1] = n[1] /\ m[2] = n[2] /\ m[3] = n[3] /\ m[4] < n[4]
        \/ m[1] = n[1] /\ m[2] = n[2] /\ m[3] = n[3] /\ m[4] = n[4] /\ m[5] < n[5]
    BY <1>1 DEF Closer
  <1> HIDE DEF m, n
  <1>3. Lower(m, n)  BY <1>2, LowerAt
  <1> QED  BY <1>3 DEF m, n

\* The round is over: by select, or with the worker.
LEMMA RoundOver ==
  ASSUME NEW w \in Workers, pc[w] \notin Dead \cup {"select"},
         pc'[w] \in Dead \cup {"select"}
  PROVE  Closer(w)
  <1>1. Stage(w) \in {1, 2} /\ Stage(w)' = 0  BY DEF Stage, Dead
  <1> QED  BY <1>1 DEF Closer

LEMMA DieAdvances ==
  ASSUME Control, NEW w \in Workers, pc[w] \notin Dead \cup {"select"},
         NEW how \in Dead, NEW lost, Die(w, how, lost)
  PROVE  Closer(w)
  <1>1. pc'[w] = how  BY GotoPc DEF Die
  <1> QED  BY <1>1, RoundOver

LEMMA AcceptAdvances ==
  ASSUME Control, NEW w \in Workers, AcceptNothing(w) \/ AcceptConn(w)
  PROVE  Closer(w)
  <1>1. pc[w] = "accept" /\ pc'[w] = "dispatch"
    BY GotoPc DEF AcceptNothing, AcceptConn, Goto
  <1>2. Stage(w) = 2 /\ Stage(w)' = 1  BY <1>1 DEF Stage, Dead
  <1> QED  BY <1>2 DEF Closer

LEMMA TailShorter ==
  ASSUME NEW S, NEW s \in Seq(S), s # <<>>
  PROVE  Len(Tail(s)) < Len(s)
  OBVIOUS

\* One connection fewer to visit.
LEMMA VisitAdvances ==
  ASSUME Control, NEW w \in Workers, active_conns[w] # <<>>,
         pc[w] \in {"dispatch", "settle"}, pc'[w] = "dispatch",
         active_conns' = [active_conns EXCEPT ![w] = Tail(@)]
  PROVE  Closer(w)
  <1>1. Stage(w) = 1 /\ Stage(w)' = 1  BY DEF Stage, Dead
  <1>2. active_conns[w] \in Seq(Conns) /\ active_conns'[w] = Tail(active_conns[w])
    BY DEF Control
  <1>3. Len(active_conns'[w]) < Len(active_conns[w])  BY <1>2, TailShorter
  <1> QED  BY <1>1, <1>3 DEF Closer

\* The next step of a handler's call.
LEMMA CallAdvances ==
  ASSUME NEW w \in Workers, active_conns' = active_conns,
         pc[w] \in InCall \cup {"dispatch", "settle"}, pc'[w] \in InCall \cup {"settle"},
         Rank(w)' < Rank(w)
  PROVE  Closer(w)
  <1>1. Stage(w) = 1 /\ Stage(w)' = 1  BY DEF Stage, Dead, InCall
  <1> QED  BY <1>1 DEF Closer

\* The end of a call, but for a failed read, which a 500 may follow.
LEMMA ReturnAdvances ==
  ASSUME Control, NEW w \in Workers, pc[w] \in InCall, active_conns' = active_conns,
         Return(w), state'[Cur(w)] # "CONN_ERR_RECOVERABLE" \/ pc[w] = "read"
  PROVE  Closer(w)
  <1>1. pc'[w] = "settle" /\ Cur(w)' = Cur(w)  BY GotoPc DEF Return, Cur
  <1>2. Rank(w)' = IF state'[Cur(w)] = "CONN_ERR_RECOVERABLE" THEN 3 ELSE 0
    BY <1>1 DEF Rank
  <1>3. Rank(w) \in 1..5 /\ (pc[w] = "read" => Rank(w) = 5)  BY DEF Rank, InCall
  <1>4. Rank(w)' < Rank(w)  BY <1>2, <1>3
  <1> QED  BY <1>1, <1>4, CallAdvances

LEMMA ReturnWithAdvances ==
  ASSUME Control, Data, Inv, NEW w \in Workers, pc[w] \in InCall, active_conns' = active_conns,
         NEW s, ReturnWith(w, s), s # "CONN_ERR_RECOVERABLE" \/ pc[w] = "read"
  PROVE  Closer(w)
  <1>1. Cur(w) \in Conns  BY CallFacts
  <1>2. state'[Cur(w)] = s  BY <1>1 DEF ReturnWith, Data
  <1> QED  BY <1>2, ReturnAdvances DEF ReturnWith

LEMMA WriteFailsAdvances ==
  ASSUME Control, Data, Inv, NEW w \in Workers, pc[w] \in InCall, WriteFails(w)
  PROVE  Closer(w)
  <1>1. CASE Die(w, "killed", {})  BY <1>1, DieAdvances DEF InCall, Dead
  <1>2. CASE Abort(w) /\ UNCHANGED listVars
    BY <1>2, ReturnWithAdvances DEF Abort, listVars
  <1> QED  BY <1>1, <1>2 DEF WriteFails

\* From place to place in process_request and serve_get_request.
LEMMA RequestAdvances ==
  ASSUME Control, Data, Inv, NEW w \in Workers,
         ReadAndParse(w) \/ ReadEof(w) \/ ReadError(w) \/ Locate(w) \/ OpenFile(w)
  PROVE  Closer(w)
  <1>1. CASE ReadAndParse(w)
    <2>1. pc[w] = "read" /\ pc'[w] \in {"locate", "respond"} /\ active_conns' = active_conns
      BY <1>1, GotoPc DEF ReadAndParse, Goto, listVars
    <2>2. Rank(w)' < Rank(w)  BY <2>1 DEF Rank
    <2> QED  BY <2>1, <2>2, CallAdvances DEF InCall
  <1>2. CASE ReadEof(w)  BY <1>2, ReturnAdvances DEF ReadEof, listVars, InCall
  <1>3. CASE ReadError(w)  BY <1>3, ReturnWithAdvances DEF ReadError, listVars, InCall
  <1>4. CASE Locate(w)
    <2>1. pc[w] = "locate" /\ pc'[w] \in {"open", "respond"} /\ active_conns' = active_conns
      BY <1>4, GotoPc DEF Locate, Goto, listVars
    <2>2. Rank(w)' < Rank(w)  BY <2>1 DEF Rank
    <2> QED  BY <2>1, <2>2, CallAdvances DEF InCall
  <1>5. CASE OpenFile(w)
    <2>1. pc[w] = "open" /\ pc'[w] = "respond" /\ active_conns' = active_conns
      BY <1>5, GotoPc DEF OpenFile, Goto, listVars
    <2>2. Rank(w)' < Rank(w)  BY <2>1 DEF Rank
    <2> QED  BY <2>1, <2>2, CallAdvances DEF InCall
  <1> QED  BY <1>1, <1>2, <1>3, <1>4, <1>5

LEMMA HeaderAdvances ==
  ASSUME Control, Data, Inv, NEW w \in Workers, SendHeader(w)
  PROVE  Closer(w)
  <1>1. pc[w] = "respond" /\ active_conns' = active_conns  BY DEF SendHeader, listVars
  <1>2. CASE ReturnWith(w, "CONN_COMPLETE") \/ Abort(w)
    BY <1>1, <1>2, ReturnWithAdvances DEF Abort, InCall
  <1>3. CASE Goto(w, "pump")
    <2>1. pc'[w] = "pump"  BY <1>3, GotoPc DEF Goto
    <2>2. Rank(w)' < Rank(w)  BY <1>1, <2>1 DEF Rank
    <2> QED  BY <1>1, <2>1, <2>2, CallAdvances DEF InCall
  <1> QED  BY <1>2, <1>3 DEF SendHeader

\* A round of the loop in process_request_write.
LEMMA PumpAdvances ==
  ASSUME Control, NEW w \in Workers, pc[w] = "pump", pc'[w] = "pump",
         active_conns' = active_conns,
         \/ Unread(w)' < Unread(w)
         \/ Unread(w)' = Unread(w) /\ Unsent(w)' < Unsent(w)
  PROVE  Closer(w)
  <1>1. Stage(w)' = Stage(w) /\ Rank(w)' = Rank(w)  BY DEF Stage, Rank
  <1> QED  BY <1>1 DEF Closer

\* What is read is the less to read, and there is an end where nothing is left.
LEMMA ReadFileAdvances ==
  ASSUME Control, Data, Inv, NEW w \in Workers, ReadFile(w)
  PROVE  Closer(w)
  <1>0. PICK c \in Conns : c = Cur(w)  BY PumpFacts DEF ReadFile
  <1> DEFINE n == Smaller(read_buf_size[c], fsize - file_fd[c])
  <1>1. /\ file_fd[c] \in Nat /\ fsize \in Nat
        /\ read_buf_size[c] \in 0..BufSize /\ BufSize \in Nat
        /\ pc[w] = "pump" /\ UNCHANGED <<fsize, active_conns>>
    BY <1>0, PumpFacts DEF ReadFile, sockVars, listVars
  <1>2. Cur(w)' = c  BY <1>0, <1>1 DEF Cur
  <1>3. CASE ~(n <= 0) /\ file_fd' = [file_fd EXCEPT ![c] = @ + n] /\ Goto(w, "pump")
    <2>1. n \in Nat /\ 0 < n /\ n <= fsize - file_fd[c]  BY <1>1, <1>3 DEF Smaller
    <2>2. pc'[w] = "pump"  BY <1>3, GotoPc DEF Goto
    <2> HIDE DEF n
    <2>3. file_fd'[c] = file_fd[c] + n  BY <1>3 DEF Data
    <2>4. Unread(w) = fsize - file_fd[c]  BY <1>0, <1>1, <2>1 DEF Unread
    <2>5. file_fd'[Cur(w)'] <= fsize' /\ file_fd'[Cur(w)'] = file_fd[c] + n
      BY <1>1, <1>2, <2>1, <2>3
    <2>6. Unread(w)' = fsize - (file_fd[c] + n)  BY <1>1, <2>2, <2>5 DEF Unread
    <2>7. Unread(w)' < Unread(w)  BY <1>1, <2>1, <2>4, <2>6
    <2> QED  BY <1>1, <2>2, <2>7, PumpAdvances
  <1>4. CASE ReturnWith(w, "CONN_COMPLETE") \/ Abort(w)
    BY <1>1, <1>4, ReturnWithAdvances DEF Abort, InCall
  <1> QED  BY <1>0, <1>3, <1>4 DEF ReadFile, EndOfFile

\* What is written is the less to write, and a write that takes nothing returns.
LEMMA WriteSocketAdvances ==
  ASSUME Control, Data, Inv, NEW w \in Workers, WriteSocket(w)
  PROVE  Closer(w)
  <1>0. PICK c \in Conns : c = Cur(w)  BY PumpFacts DEF WriteSocket
  <1> DEFINE n == Accepted(c, read_buf_len[c] - read_buf_cursor[c])
  <1>1. /\ state[c] = "CONN_SENDING" /\ pc[w] = "pump"
        /\ read_buf_len[c] \in Nat /\ read_buf_cursor[c] \in Nat
        /\ sndq[c] \in 0..SndBuf /\ SndBuf \in Nat
    BY <1>0, PumpFacts DEF WriteSocket
  <1>2. UNCHANGED <<fsize, active_conns, state, file_fd, read_buf_len>>
    BY DEF WriteSocket, listVars
  <1>3. Cur(w)' = c  BY <1>0, <1>2 DEF Cur
  <1>4. CASE n > 0 /\ read_buf_cursor' = [read_buf_cursor EXCEPT ![c] = @ + n] /\ Goto(w, "pump")
    <2>1. n \in Nat /\ n > 0  BY <1>1, <1>4 DEF Accepted, Smaller
    <2>2. pc'[w] = "pump"  BY <1>4, GotoPc DEF Goto
    <2> HIDE DEF n
    <2>3. read_buf_cursor'[c] = read_buf_cursor[c] + n  BY <1>4 DEF Data
    <2>4. Unread(w)' = Unread(w)  BY <1>0, <1>1, <1>2, <1>3, <2>2 DEF Unread
    <2>5. Unsent(w) = read_buf_len[c] - read_buf_cursor[c]  BY <1>0, <1>1 DEF Unsent
    <2>6. Unsent(w)' = read_buf_len[c] - (read_buf_cursor[c] + n)
      BY <1>2, <1>3, <2>2, <2>3 DEF Unsent
    <2>7. Unsent(w)' < Unsent(w)  BY <1>1, <2>1, <2>5, <2>6
    <2> QED  BY <1>1, <1>2, <2>2, <2>4, <2>7, PumpAdvances
  <1>5. CASE Return(w)  BY <1>0, <1>1, <1>2, <1>5, ReturnAdvances DEF InCall
  <1> QED  BY <1>0, <1>4, <1>5 DEF WriteSocket

\* The loop over the connections, and the second call for a failed read.
LEMMA LoopAdvances ==
  ASSUME Control, Data, Inv, NEW w \in Workers, pc[w] # "select", LoopStep(w)
  PROVE  Closer(w)
  <1>1. CASE AcceptNothing(w) \/ AcceptConn(w)  BY <1>1, AcceptAdvances
  <1>2. CASE AcceptFails(w)
    <2>1. pc[w] = "accept"  BY <1>2 DEF AcceptFails
    <2> QED  BY <1>2, <2>1, DieAdvances DEF AcceptFails, Dead
  <1>3. CASE DispatchUnready(w)  BY <1>3, VisitAdvances DEF DispatchUnready, Keep
  <1>4. CASE SettleSending(w)
    <2>1. /\ pc[w] = "settle" /\ Goto(w, "dispatch")
          /\ active_conns' = [active_conns EXCEPT ![w] = Tail(@)]
      BY <1>4 DEF SettleSending, Keep
    <2>2. pc'[w] = "dispatch"  BY <2>1, GotoPc DEF Goto
    <2>3. active_conns[w] # <<>>  BY <2>1, CallFacts
    <2> QED  BY <2>1, <2>2, <2>3, VisitAdvances
  <1>5. CASE SettleComplete(w)
    <2>1. /\ pc[w] = "settle" /\ Goto(w, "dispatch")
          /\ active_conns' = [active_conns EXCEPT ![w] = Tail(@)]
      BY <1>5 DEF SettleComplete
    <2>2. pc'[w] = "dispatch"  BY <2>1, GotoPc DEF Goto
    <2>3. active_conns[w] # <<>>  BY <2>1, CallFacts
    <2> QED  BY <2>1, <2>2, <2>3, VisitAdvances
  <1>6. CASE SettleWaiting(w)
    <2>1. pc[w] = "settle" /\ active_conns[w] # <<>>  BY <1>6, CallFacts DEF SettleWaiting
    <2>2. CASE Die(w, "aborted", {})  BY <2>1, <2>2, DieAdvances DEF Dead
    <2>3. CASE active_conns' = [active_conns EXCEPT ![w] = Tail(@)] /\ Goto(w, "dispatch")
      <3>1. pc'[w] = "dispatch"  BY <2>3, GotoPc DEF Goto
      <3> QED  BY <2>1, <2>3, <3>1, VisitAdvances
    <2> QED  BY <1>6, <2>2, <2>3 DEF SettleWaiting
  <1>7. CASE DispatchReady(w)
    <2>1. pc[w] = "dispatch" /\ pc'[w] \in {"read", "pump"} /\ active_conns' = active_conns
      BY <1>7, GotoPc DEF DispatchReady, listVars
    <2>2. Rank(w)' < Rank(w)  BY <2>1 DEF Rank
    <2> QED  BY <2>1, <2>2, CallAdvances DEF InCall
  <1>8. CASE SettleRecoverable(w)
    <2>1. pc[w] = "settle" /\ pc'[w] = "respond" /\ active_conns' = active_conns
          /\ state[Cur(w)] = "CONN_ERR_RECOVERABLE"
      BY <1>8, GotoPc DEF SettleRecoverable, listVars
    <2>2. Rank(w)' < Rank(w)  BY <2>1 DEF Rank
    <2> QED  BY <2>1, <2>2, CallAdvances DEF InCall
  <1>9. CASE EndRound(w)
    <2>1. pc[w] = "dispatch" /\ pc'[w] = "select"  BY <1>9, GotoPc DEF EndRound, Goto
    <2> QED  BY <2>1, RoundOver DEF Dead
  <1>10. CASE Select(w)  BY <1>10 DEF Select
  <1> QED
    BY <1>1, <1>2, <1>3, <1>4, <1>5, <1>6, <1>7, <1>8, <1>9, <1>10 DEF LoopStep

LEMMA OwnAdvances ==
  ASSUME Control, Data, Inv, NEW w \in Workers, pc[w] \notin Dead \cup {"select"},
         WorkerStep(w)
  PROVE  Lower(Ahead(w)', Ahead(w))
  <1> SUFFICES Closer(w)  BY CloserLower
  <1>1. CASE LoopStep(w)  BY <1>1, LoopAdvances
  <1>2. CASE OutOfMemory(w)  BY <1>2, DieAdvances DEF OutOfMemory, AllocFails, SelectFails, Dead
  <1>3. CASE SendHeaderFails(w) \/ WriteSocketFails(w)
    BY <1>3, WriteFailsAdvances DEF SendHeaderFails, WriteSocketFails, InCall
  <1>4. CASE HandlerStep(w)
    BY <1>3, <1>4, RequestAdvances, HeaderAdvances, ReadFileAdvances, WriteSocketAdvances
    DEF HandlerStep
  <1> QED  BY <1>1, <1>2, <1>4 DEF WorkerStep

-----------------------------------------------------------------------------
\* The others.

\* What Ahead(w) looks at.
LEMMA AheadSame ==
  ASSUME NEW w \in Workers, pc'[w] = pc[w], active_conns'[w] = active_conns[w],
         pc[w] = "settle" => state'[Cur(w)] = state[Cur(w)],
         pc[w] = "pump" =>
           /\ fsize' = fsize /\ file_fd'[Cur(w)] = file_fd[Cur(w)]
           /\ read_buf_len'[Cur(w)] = read_buf_len[Cur(w)]
           /\ read_buf_cursor'[Cur(w)] = read_buf_cursor[Cur(w)]
  PROVE  Ahead(w)' = Ahead(w)
  <1>1. Cur(w)' = Cur(w)  BY DEF Cur
  <1>2. Stage(w)' = Stage(w)  BY DEF Stage
  <1>3. Rank(w)' = Rank(w)  BY <1>1 DEF Rank
  <1>4. Unread(w)' = Unread(w) /\ Unsent(w)' = Unsent(w)  BY <1>1 DEF Unread, Unsent
  <1> QED  BY <1>2, <1>3, <1>4 DEF Ahead

\* A worker moves only itself along.
LEMMA OthersPlace ==
  ASSUME Control, NEW v \in Workers, WorkerStep(v)
  PROVE  \A w \in Workers \ {v} : pc'[w] = pc[w] /\ active_conns'[w] = active_conns[w]
  <1>1. pc' = pc \/ \E label : pc' = [pc EXCEPT ![v] = label]
    <2>1. CASE HandlerStep(v)
      BY <2>1 DEF HandlerStep, ReadAndParse, ReadEof, ReadError, Locate, OpenFile, SendHeader,
                  SendHeaderFails, ReadFile, WriteSocket, WriteSocketFails, WriteFails, Die,
                  ReturnWith, Abort, Return, Goto
    <2>2. CASE LoopStep(v) \/ OutOfMemory(v)
      BY <2>2 DEF LoopStep, OutOfMemory, AllocFails, SelectFails, Select, AcceptNothing, AcceptConn, AcceptFails,
                  DispatchUnready, DispatchReady, SettleSending, SettleComplete,
                  SettleRecoverable, SettleWaiting, EndRound, Die, Goto
    <2> QED  BY <2>1, <2>2 DEF WorkerStep
  <1>2. active_conns' = active_conns \/ \E s : active_conns' = [active_conns EXCEPT ![v] = s]
    <2>1. CASE HandlerStep(v)
      BY <2>1 DEF HandlerStep, ReadAndParse, ReadEof, ReadError, Locate, OpenFile, SendHeader,
                  SendHeaderFails, ReadFile, WriteSocket, WriteSocketFails, WriteFails, Die,
                  listVars
    <2>2. CASE LoopStep(v) \/ OutOfMemory(v)
      BY <2>2 DEF LoopStep, OutOfMemory, AllocFails, SelectFails, Select, AcceptNothing, AcceptConn, AcceptFails,
                  DispatchUnready, DispatchReady, SettleSending, SettleComplete, Keep,
                  SettleRecoverable, SettleWaiting, EndRound, Die, listVars
    <2> QED  BY <2>1, <2>2 DEF WorkerStep
  <1> QED  BY <1>1, <1>2 DEF Control

\* And it leaves open connections of others, and the file, as they are.
LEMMA OthersConns ==
  ASSUME Control, Data, Inv, NEW v \in Workers, WorkerStep(v)
  PROVE  /\ fsize' = fsize
         /\ \A d \in Conns : sock[d] = "open" /\ owner[d] # v =>
              /\ state'[d] = state[d] /\ file_fd'[d] = file_fd[d]
              /\ read_buf_len'[d] = read_buf_len[d]
              /\ read_buf_cursor'[d] = read_buf_cursor[d]
  <1> DEFINE Goal == /\ fsize' = fsize
                     /\ \A d \in Conns : sock[d] = "open" /\ owner[d] # v =>
                          /\ state'[d] = state[d] /\ file_fd'[d] = file_fd[d]
                          /\ read_buf_len'[d] = read_buf_len[d]
                          /\ read_buf_cursor'[d] = read_buf_cursor[d]
  <1>1. CASE UNCHANGED <<fsize, state, file_fd, read_buf_len, read_buf_cursor>>  BY <1>1
  <1>2. CASE \E how, lost : Die(v, how, lost)  BY <1>2 DEF Die, Data
  <1>3. CASE AcceptConn(v)
    <2>1. PICK c \in Backlog : /\ state' = [state EXCEPT ![c] = "CONN_WAITING"]
                               /\ file_fd' = [file_fd EXCEPT ![c] = -1]
      BY <1>3 DEF AcceptConn
    <2>2. sock[c] = "backlog"  BY DEF Backlog
    <2>3. UNCHANGED <<fsize, read_buf_len, read_buf_cursor>>  BY <1>3 DEF AcceptConn
    <2> QED  BY <2>1, <2>2, <2>3 DEF Data
  <1>4. CASE pc[v] \in InCall \cup {"settle"} /\ fsize' = fsize
             /\ \A d \in Conns : d # Cur(v) =>
                  /\ state'[d] = state[d] /\ file_fd'[d] = file_fd[d]
                  /\ read_buf_len'[d] = read_buf_len[d]
                  /\ read_buf_cursor'[d] = read_buf_cursor[d]
    <2>1. owner[Cur(v)] = v  BY <1>4, CallFacts
    <2> QED  BY <1>4, <2>1
  <1>5. CASE \/ ReadAndParse(v) \/ ReadEof(v) \/ Locate(v) \/ Select(v) \/ AcceptNothing(v)
             \/ DispatchUnready(v) \/ DispatchReady(v) \/ SettleSending(v)
             \/ SettleRecoverable(v) \/ EndRound(v)
    <2>1. UNCHANGED <<fsize, state, file_fd, read_buf_len, read_buf_cursor>>
      BY <1>5 DEF ReadAndParse, ReadEof, Locate, Select, AcceptNothing, DispatchUnready,
                  DispatchReady, SettleSending, SettleRecoverable, EndRound, sockVars, connVars
    <2> QED  BY <1>1, <2>1
  <1>6. CASE ReadError(v) \/ OpenFile(v) \/ SendHeader(v) \/ SettleComplete(v)
    <2>1. /\ pc[v] \in InCall \cup {"settle"} /\ fsize' = fsize
          /\ UNCHANGED <<read_buf_len, read_buf_cursor>>
      BY <1>6 DEF ReadError, OpenFile, SendHeader, SettleComplete, sockVars, InCall
    <2>2. /\ state' = state \/ \E s : state' = [state EXCEPT ![Cur(v)] = s]
          /\ file_fd' = file_fd \/ \E k : file_fd' = [file_fd EXCEPT ![Cur(v)] = k]
      BY <1>6 DEF ReadError, OpenFile, SendHeader, SettleComplete, ReturnWith, Abort
    <2> QED  BY <1>4, <2>1, <2>2 DEF Data
  <1>7. CASE ReadFile(v) \/ WriteSocket(v)
    <2>1. pc[v] \in InCall \cup {"settle"} /\ fsize' = fsize
      BY <1>7 DEF ReadFile, WriteSocket, sockVars, InCall
    <2>2. /\ state' = state \/ \E s : state' = [state EXCEPT ![Cur(v)] = s]
          /\ file_fd' = file_fd \/ \E k : file_fd' = [file_fd EXCEPT ![Cur(v)] = k]
          /\ read_buf_len' = read_buf_len
               \/ \E k : read_buf_len' = [read_buf_len EXCEPT ![Cur(v)] = k]
          /\ read_buf_cursor' = read_buf_cursor
               \/ \E k : read_buf_cursor' = [read_buf_cursor EXCEPT ![Cur(v)] = k]
      BY <1>7 DEF ReadFile, WriteSocket, ReturnWith, Abort
    <2>3. \A d \in Conns : d # Cur(v) => state'[d] = state[d] /\ file_fd'[d] = file_fd[d]
      BY <2>2 DEF Data
    <2>4. \A d \in Conns : d # Cur(v) =>
            read_buf_len'[d] = read_buf_len[d] /\ read_buf_cursor'[d] = read_buf_cursor[d]
      BY <2>2 DEF Data
    <2> QED  BY <1>4, <2>1, <2>3, <2>4
  <1>8. CASE SendHeaderFails(v) \/ WriteSocketFails(v)
    <2>1. pc[v] \in InCall \cup {"settle"} /\ WriteFails(v)
      BY <1>8 DEF SendHeaderFails, WriteSocketFails, InCall
    <2>2. CASE /\ Abort(v)
               /\ UNCHANGED <<sockVars, file_fd, read_buf_len, read_buf_cursor>>
      <3>1. fsize' = fsize /\ state' = [state EXCEPT ![Cur(v)] = "CONN_ERR_UNRECOVERABLE"]
        BY <2>2 DEF Abort, ReturnWith, sockVars
      <3> QED  BY <1>4, <2>1, <2>2, <3>1 DEF Data
    <2> QED  BY <1>2, <2>1, <2>2 DEF WriteFails
  <1>9. CASE AcceptFails(v) \/ SettleWaiting(v) \/ OutOfMemory(v)
    <2>1. \/ \E how, lost : Die(v, how, lost)
          \/ UNCHANGED <<sockVars, connVars>>
      BY <1>9 DEF AcceptFails, SettleWaiting, OutOfMemory, AllocFails, SelectFails
    <2>2. UNCHANGED <<sockVars, connVars>> =>
            UNCHANGED <<fsize, state, file_fd, read_buf_len, read_buf_cursor>>
      BY DEF sockVars, connVars
    <2> QED  BY <1>1, <1>2, <2>1, <2>2
  <1> QED
    BY <1>3, <1>5, <1>6, <1>7, <1>8, <1>9 DEF WorkerStep, HandlerStep, LoopStep

LEMMA OthersStay ==
  ASSUME IInv, [Next]_vars, NEW w \in Workers, ~WorkerStep(w), fsize' = fsize
  PROVE  Ahead(w)' = Ahead(w)
  <1>1. CASE EnvStep \/ UNCHANGED vars
    <2>1. UNCHANGED <<pc, active_conns, state, file_fd, read_buf_len, read_buf_cursor>>
      BY <1>1 DEF EnvStep, serverVars, connVars, listVars, vars
    <2> QED  BY <2>1, AheadSame
  <1>2. ASSUME NEW v \in Workers, WorkerStep(v) PROVE Ahead(w)' = Ahead(w)
    <2>1. v # w  BY <1>2
    <2>2. pc'[w] = pc[w] /\ active_conns'[w] = active_conns[w]
      BY <1>2, <2>1, OthersPlace DEF IInv
    <2>3. ASSUME pc[w] \in {"settle", "pump"}
          PROVE  LET c == Cur(w) IN
                 /\ state'[c] = state[c] /\ file_fd'[c] = file_fd[c]
                 /\ read_buf_len'[c] = read_buf_len[c]
                 /\ read_buf_cursor'[c] = read_buf_cursor[c]
      <3>1. Cur(w) \in Conns /\ sock[Cur(w)] = "open" /\ owner[Cur(w)] = w
        BY <2>3, CallFacts DEF IInv, InCall
      <3> QED  BY <1>2, <2>1, <3>1, OthersConns DEF IInv
    <2> QED  BY <2>2, <2>3, AheadSame
  <1> QED  BY <1>1, <1>2 DEF Next

\* Whatever the connections, their number and their state, a worker that has left
\* select comes back to it or ends: each step brings it closer, through the loop
\* over the connections (server.c:174-239), the second call for a 500, and the
\* unbounded loop of process_request_write (handler.c:75-101), and nobody puts the
\* end off but who changes the file that is being sent.
THEOREM RoundsEnd == Spec => RoundsAdvance
  <1>1. IInv /\ [Next]_vars =>
          [\A w \in Workers : pc[w] \notin Dead \cup {"select"} =>
             IF WorkerStep(w) THEN Lower(Ahead(w)', Ahead(w))
             ELSE fsize' = fsize => Ahead(w)' = Ahead(w)]_vars
    BY OwnAdvances, OthersStay DEF IInv
  <1> QED  BY <1>1, Invariant, PTL DEF Spec, RoundsAdvance

\* The five numbers are natural numbers, so the descent of RoundsEnd comes to an
\* end: no loop of conn_loop or of a handler runs below zero (handler.c:88, 100).
THEOREM DescentEnds ==
  Spec => [](\A w \in Workers : Ahead(w) \in Nat \X Nat \X Nat \X Nat \X Nat)
  <1>1. ASSUME IInv, NEW w \in Workers
        PROVE  Ahead(w) \in Nat \X Nat \X Nat \X Nat \X Nat
    <2>1. Stage(w) \in Nat  BY DEF Stage
    <2>2. Len(active_conns[w]) \in Nat  BY <1>1 DEF IInv, Control
    <2>3. Rank(w) \in Nat  BY DEF Rank
    <2>4. Unread(w) \in Nat /\ Unsent(w) \in Nat
      <3>1. CASE pc[w] = "pump"
        <4>1. /\ file_fd[Cur(w)] \in Nat /\ fsize \in Nat
              /\ read_buf_len[Cur(w)] \in Nat /\ read_buf_cursor[Cur(w)] \in Nat
              /\ read_buf_cursor[Cur(w)] <= read_buf_len[Cur(w)]
          BY <1>1, <3>1, PumpFacts DEF IInv
        <4> QED  BY <4>1 DEF Unread, Unsent
      <3>2. CASE pc[w] # "pump"  BY <3>2 DEF Unread, Unsent
      <3> QED  BY <3>1, <3>2
    <2> QED  BY <2>1, <2>2, <2>3, <2>4 DEF Ahead
  <1>2. IInv => \A w \in Workers : Ahead(w) \in Nat \X Nat \X Nat \X Nat \X Nat
    BY <1>1
  <1> QED  BY <1>2, Invariant, PTL

-----------------------------------------------------------------------------
(***************************************************************************)
(* How a connection ends.  Each of its variables is changed at few places; *)
(* what is added to the invariant is what these places need to know of a   *)
(* connection that waits for its 500.                                      *)
(***************************************************************************)

LEMMA StateChanges ==
  ASSUME IInv, Next, NEW c \in Conns, state'[c] # state[c]
  PROVE  \E v \in Workers :
           /\ c = Cur(v)
           /\ \/ ReadError(v) \/ SendHeader(v) \/ ReadFile(v)
              \/ /\ SendHeaderFails(v) \/ WriteSocketFails(v)
                 /\ state'[c] = "CONN_ERR_UNRECOVERABLE" /\ UNCHANGED hdr
  <1>1. PICK v \in Workers : WorkerStep(v)
    BY DEF Next, EnvStep, serverVars, connVars
  <1>2. CASE AcceptConn(v)
    <2>1. PICK d \in Backlog : state' = [state EXCEPT ![d] = "CONN_WAITING"]
      BY <1>2 DEF AcceptConn
    <2>2. state[d] = "CONN_WAITING"  BY DEF Backlog, IInv, Inv, FdOK, Fresh
    <2> QED  BY <2>1, <2>2 DEF IInv, Data
  <1>3. CASE (LoopStep(v) /\ ~AcceptConn(v)) \/ OutOfMemory(v)
    BY <1>3 DEF LoopStep, OutOfMemory, AllocFails, SelectFails, Select, AcceptNothing, AcceptFails,
                DispatchUnready, DispatchReady, SettleSending, SettleComplete,
                SettleRecoverable, SettleWaiting, EndRound, Die, connVars
  <1>4. CASE ReadAndParse(v) \/ ReadEof(v) \/ Locate(v) \/ OpenFile(v) \/ WriteSocket(v)
    BY <1>4 DEF ReadAndParse, ReadEof, Locate, OpenFile, WriteSocket, connVars
  <1>5. CASE ReadError(v) \/ SendHeader(v) \/ ReadFile(v)
    <2>1. state' = state \/ \E s : state' = [state EXCEPT ![Cur(v)] = s]
      BY <1>5 DEF ReadError, SendHeader, ReadFile, ReturnWith, Abort
    <2>2. c = Cur(v)  BY <2>1 DEF IInv, Data
    <2> QED  BY <1>5, <2>2
  <1>6. CASE SendHeaderFails(v) \/ WriteSocketFails(v)
    <2>1. Abort(v) /\ UNCHANGED outVars
      BY <1>6 DEF SendHeaderFails, WriteSocketFails, WriteFails, Die
    <2>2. state' = [state EXCEPT ![Cur(v)] = "CONN_ERR_UNRECOVERABLE"] /\ UNCHANGED hdr
      BY <2>1 DEF Abort, ReturnWith, outVars
    <2>3. c = Cur(v) /\ state'[c] = "CONN_ERR_UNRECOVERABLE"  BY <2>2 DEF IInv, Data
    <2> QED  BY <1>6, <2>2, <2>3
  <1> QED  BY <1>1, <1>2, <1>3, <1>4, <1>5, <1>6 DEF WorkerStep, HandlerStep

LEMMA FileChanges ==
  ASSUME IInv, Next, NEW c \in Conns, file_fd'[c] # file_fd[c], file_fd'[c] # -1
  PROVE  \E v \in Workers : c = Cur(v) /\ (OpenFile(v) \/ ReadFile(v))
  <1>1. PICK v \in Workers : WorkerStep(v)
    BY DEF Next, EnvStep, serverVars, connVars
  <1>2. CASE \E how, lost : Die(v, how, lost)  BY <1>2 DEF Die
  <1>3. CASE AcceptConn(v) \/ SettleComplete(v)
    <2>1. \E d \in Conns : file_fd' = [file_fd EXCEPT ![d] = -1]
      BY <1>3, CallFacts DEF AcceptConn, Backlog, SettleComplete, IInv
    <2> QED  BY <2>1 DEF IInv, Data
  <1>4. CASE \/ Select(v) \/ AcceptNothing(v) \/ DispatchUnready(v) \/ DispatchReady(v)
             \/ SettleSending(v) \/ SettleRecoverable(v) \/ EndRound(v)
             \/ ReadAndParse(v) \/ ReadEof(v) \/ ReadError(v) \/ Locate(v)
             \/ SendHeader(v) \/ WriteSocket(v)
    BY <1>4 DEF Select, AcceptNothing, DispatchUnready, DispatchReady, SettleSending,
                SettleRecoverable, EndRound, ReadAndParse, ReadEof, ReadError, Locate,
                SendHeader, WriteSocket, connVars
  <1>5. CASE AcceptFails(v) \/ SettleWaiting(v) \/ OutOfMemory(v) \/ SendHeaderFails(v)
             \/ WriteSocketFails(v)
    <2>1. (\E how, lost : Die(v, how, lost)) \/ UNCHANGED file_fd
      BY <1>5 DEF AcceptFails, SettleWaiting, OutOfMemory, AllocFails, SelectFails,
                  SendHeaderFails, WriteSocketFails, WriteFails, connVars
    <2> QED  BY <1>2, <2>1
  <1>6. CASE OpenFile(v) \/ ReadFile(v)
    <2>1. file_fd' = file_fd \/ \E n : file_fd' = [file_fd EXCEPT ![Cur(v)] = n]
      BY <1>6 DEF OpenFile, ReadFile
    <2>2. c = Cur(v)  BY <2>1 DEF IInv, Data
    <2> QED  BY <1>6, <2>2
  <1> QED  BY <1>1, <1>3, <1>4, <1>5, <1>6 DEF WorkerStep, HandlerStep, LoopStep

LEMMA OutputChanges ==
  ASSUME IInv, Next, NEW c \in Conns
  PROVE  /\ hdr'[c] # hdr[c] => \E v \in Workers : c = Cur(v) /\ SendHeader(v)
         /\ wire'[c] # wire[c] => \E v \in Workers : c = Cur(v) /\ WriteSocket(v)
  <1>1. CASE EnvStep  BY <1>1 DEF EnvStep, serverVars, outVars
  <1>2. ASSUME NEW v \in Workers, WorkerStep(v)
        PROVE  /\ hdr'[c] # hdr[c] => c = Cur(v) /\ SendHeader(v)
               /\ wire'[c] # wire[c] => c = Cur(v) /\ WriteSocket(v)
    <2>1. CASE SendHeader(v)
      <3>1. wire' = wire /\ \E h : hdr' = [hdr EXCEPT ![Cur(v)] = h]  BY <2>1 DEF SendHeader
      <3>2. hdr'[c] # hdr[c] => c = Cur(v)  BY <3>1 DEF IInv, Data
      <3> QED  BY <2>1, <3>1, <3>2
    <2>2. CASE WriteSocket(v)
      <3>1. hdr' = hdr /\ (wire' = wire \/ \E s : wire' = [wire EXCEPT ![Cur(v)] = s])
        BY <2>2 DEF WriteSocket
      <3>2. wire'[c] # wire[c] => c = Cur(v)  BY <3>1 DEF IInv, Data
      <3> QED  BY <2>2, <3>1, <3>2
    <2>3. CASE HandlerStep(v) /\ ~SendHeader(v) /\ ~WriteSocket(v)
      BY <2>3 DEF HandlerStep, ReadAndParse, ReadEof, ReadError, Locate, OpenFile,
                  SendHeaderFails, ReadFile, WriteSocketFails, WriteFails, Die, outVars
    <2>4. CASE LoopStep(v) \/ OutOfMemory(v)
      BY <2>4 DEF LoopStep, OutOfMemory, AllocFails, SelectFails, Select, AcceptNothing,
                  AcceptConn, AcceptFails, DispatchUnready, DispatchReady, SettleSending,
                  SettleComplete, SettleRecoverable, SettleWaiting, EndRound, Die, outVars
    <2> QED  BY <1>2, <2>1, <2>2, <2>3, <2>4 DEF WorkerStep
  <1> QED  BY <1>1, <1>2 DEF Next

\* A worker prepares no response but its own.
LEMMA RespOthers ==
  ASSUME Data, NEW v \in Workers, WorkerStep(v)
  PROVE  \A w \in Workers \ {v} : resp'[w] = resp[w]
  <1>1. resp' = resp \/ \E r : resp' = [resp EXCEPT ![v] = r]
    <2>1. CASE HandlerStep(v)
      BY <2>1 DEF HandlerStep, ReadAndParse, ReadEof, ReadError, Locate, OpenFile, SendHeader,
                  SendHeaderFails, ReadFile, WriteSocket, WriteSocketFails, WriteFails, Die
    <2>2. CASE LoopStep(v) \/ OutOfMemory(v)
      BY <2>2 DEF LoopStep, OutOfMemory, AllocFails, SelectFails, Select, AcceptNothing,
                  AcceptConn, AcceptFails, DispatchUnready, DispatchReady, SettleSending,
                  SettleComplete, SettleRecoverable, SettleWaiting, EndRound, Die
    <2> QED  BY <2>1, <2>2 DEF WorkerStep
  <1> QED  BY <1>1 DEF Data

\* What waits for a 500 has no file, and a 500 is what it gets.
Apology(w) ==
  pc[w] = "respond" /\ state[Cur(w)] = "CONN_ERR_RECOVERABLE" =>
    resp[w].code = "HTTP_INTERNAL_SERVER_ERROR"

Fileless(c) == state[c] = "CONN_ERR_RECOVERABLE" => file_fd[c] = -1

Pending == (\A w \in Workers : Apology(w)) /\ (\A c \in Conns : Fileless(c))

LEMMA NextFileless ==
  ASSUME IInv, Pending, Next, NEW c \in Conns
  PROVE  Fileless(c)'
  <1> SUFFICES ASSUME state'[c] = "CONN_ERR_RECOVERABLE" PROVE file_fd'[c] = -1
    BY DEF Fileless
  <1>1. CASE state[c] = "CONN_ERR_RECOVERABLE"
    <2>1. file_fd[c] = -1  BY <1>1 DEF Pending, Fileless
    <2>2. ASSUME NEW v \in Workers, c = Cur(v), OpenFile(v) \/ ReadFile(v) PROVE FALSE
      <3>1. pc[v] \in {"open", "pump"}  BY <2>2 DEF OpenFile, ReadFile
      <3>2. HandOK(v)  BY <3>1, CallFacts DEF IInv, InCall
      <3> QED  BY <1>1, <2>2, <3>1, <3>2 DEF HandOK
    <2> QED  BY <2>1, <2>2, FileChanges
  <1>2. CASE state[c] # "CONN_ERR_RECOVERABLE"
    <2>1. state'[c] # state[c]  BY <1>2
    <2>2. PICK v \in Workers : /\ c = Cur(v)
                               /\ ReadError(v) \/ SendHeader(v) \/ ReadFile(v)
      BY <2>1, StateChanges
    <2>3. ~SendHeader(v) /\ ~ReadFile(v)
      <3>1. SendHeader(v) \/ ReadFile(v) =>
              \/ state' = state
              \/ \E s \in States \ {"CONN_ERR_RECOVERABLE"} : state' = [state EXCEPT ![c] = s]
        BY <2>2 DEF SendHeader, ReadFile, ReturnWith, Abort, States
      <3> QED  BY <2>1, <3>1 DEF IInv, Data
    <2>4. file_fd' = file_fd /\ pc[v] = "read"  BY <2>2, <2>3 DEF ReadError
    <2>5. HandOK(v)  BY <2>4, CallFacts DEF IInv, InCall
    <2> QED  BY <2>2, <2>4, <2>5 DEF HandOK, Fresh
  <1> QED  BY <1>1, <1>2

\* A worker answers what it has read from a connection that still waits.
LEMMA NextApology ==
  ASSUME IInv, Pending, Next, NEW w \in Workers
  PROVE  Apology(w)'
  <1> SUFFICES ASSUME pc'[w] = "respond", state'[Cur(w)'] = "CONN_ERR_RECOVERABLE"
               PROVE  resp'[w].code = "HTTP_INTERNAL_SERVER_ERROR"
    BY DEF Apology, Cur
  <1>1. CASE EnvStep
    <2>1. UNCHANGED <<pc, active_conns, resp, state>>
      BY <1>1 DEF EnvStep, serverVars, connVars, listVars
    <2> QED  BY <2>1 DEF Pending, Apology, Cur
  <1>2. ASSUME NEW v \in Workers \ {w}, WorkerStep(v)
        PROVE  resp'[w].code = "HTTP_INTERNAL_SERVER_ERROR"
    <2>1. /\ pc'[w] = pc[w] /\ active_conns'[w] = active_conns[w] /\ resp'[w] = resp[w]
      BY <1>2, OthersPlace, RespOthers DEF IInv
    <2>2. Cur(w)' = Cur(w) /\ pc[w] = "respond"  BY <2>1 DEF Cur
    <2>3. Cur(w) \in Conns /\ sock[Cur(w)] = "open" /\ owner[Cur(w)] = w
      BY <2>2, CallFacts DEF IInv, InCall
    <2>4. state'[Cur(w)] = state[Cur(w)]  BY <1>2, <2>3, OthersConns DEF IInv
    <2> QED  BY <2>1, <2>2, <2>4 DEF Pending, Apology
  <1>3. CASE WorkerStep(w)
    <2>1. CASE SettleRecoverable(w)
      <3>1. resp' = [resp EXCEPT ![w] = ErrorResponse("HTTP_INTERNAL_SERVER_ERROR")]
        BY <2>1 DEF SettleRecoverable
      <3>2. resp'[w] = ErrorResponse("HTTP_INTERNAL_SERVER_ERROR")
        BY <3>1, RespSame DEF IInv
      <3> QED  BY <3>2 DEF ErrorResponse
    <2>2. CASE ReadAndParse(w) \/ Locate(w) \/ OpenFile(w)
      <3>1. /\ pc[w] \in {"read", "locate", "open"}
            /\ active_conns' = active_conns /\ state' = state
        BY <2>2 DEF ReadAndParse, Locate, OpenFile, listVars, connVars
      <3>2. HandOK(w) /\ Cur(w)' = Cur(w)  BY <3>1, CallFacts DEF IInv, InCall, Cur
      <3> QED  BY <3>1, <3>2 DEF HandOK, Fresh
    <2>3. CASE ~(SettleRecoverable(w) \/ ReadAndParse(w) \/ Locate(w) \/ OpenFile(w))
      <3>1. \E label : label # "respond" /\ pc' = [pc EXCEPT ![w] = label]
        <4>1. CASE HandlerStep(w)
          BY <2>3, <4>1 DEF HandlerStep, ReadEof, ReadError, SendHeader, SendHeaderFails, ReadFile,
                WriteSocket, WriteSocketFails, WriteFails, Die, ReturnWith, Abort, Return, Goto
        <4>2. CASE (LoopStep(w) \/ OutOfMemory(w)) /\ ~DispatchUnready(w)
          BY <2>3, <4>2 DEF LoopStep, OutOfMemory, AllocFails, SelectFails, Select,
                AcceptNothing, AcceptConn, AcceptFails, DispatchReady, SettleSending,
                SettleComplete, SettleWaiting, EndRound, Die, Goto
        <4>3. CASE DispatchUnready(w)
          <5>1. pc' = pc /\ pc[w] = "dispatch"  BY <4>3 DEF DispatchUnready
          <5>2. pc' = [pc EXCEPT ![w] = "dispatch"]  BY <5>1 DEF IInv, Control
          <5> QED  BY <5>2
        <4> QED  BY <1>3, <4>1, <4>2, <4>3 DEF WorkerStep
      <3> QED  BY <3>1 DEF IInv, Control
    <2> QED  BY <2>1, <2>2, <2>3
  <1> QED  BY <1>1, <1>2, <1>3 DEF Next

LEMMA NextPending == IInv /\ Pending /\ [Next]_vars => Pending'
  <1> SUFFICES ASSUME IInv, Pending, [Next]_vars PROVE Pending'  OBVIOUS
  <1>1. CASE Next  BY <1>1, NextFileless, NextApology DEF Pending
  <1>2. CASE UNCHANGED vars
    BY <1>2 DEF vars, connVars, listVars, Pending, Apology, Fileless, Cur
  <1> QED  BY <1>1, <1>2

LEMMA PendingHere == Spec => [](IInv /\ Pending)
  <1>1. Init => Pending  BY DEF Init, Pending, Apology, Fileless
  <1> QED  BY <1>1, NextPending, Invariant, PTL DEF Spec

\* The second call: one whole header, or none.
LEMMA ApologySent ==
  ASSUME IInv, IInv', Pending, Next, NEW c \in Conns,
         state[c] = "CONN_ERR_RECOVERABLE", ~SameReply(c)
  PROVE  /\ wire'[c] = wire[c]
         /\ \/ state'[c] = "CONN_ERR_UNRECOVERABLE" /\ hdr'[c] = <<>>
            \/ /\ state'[c] = "CONN_COMPLETE"
               /\ Kinds(hdr'[c]) = <<"error">>
               /\ hdr'[c][1].code = "HTTP_INTERNAL_SERVER_ERROR"
  <1>1. \A v \in Workers : c = Cur(v) => ~ReadError(v) /\ ~ReadFile(v) /\ ~WriteSocket(v)
    <2> SUFFICES ASSUME NEW v \in Workers, c = Cur(v), pc[v] \in {"read", "pump"} PROVE FALSE
      BY DEF ReadError, ReadFile, WriteSocket
    <2>1. HandOK(v)  BY CallFacts DEF IInv, InCall
    <2> QED  BY <2>1 DEF HandOK, Fresh
  <1>2. wire'[c] = wire[c]  BY <1>1, OutputChanges
  <1>3. hdr[c] = <<>>  BY DEF IInv, Inv, LifeOK, SilentOK
  <1>4. ASSUME NEW v \in Workers, c = Cur(v), SendHeader(v)
        PROVE  /\ state'[c] = "CONN_COMPLETE" /\ Kinds(hdr'[c]) = <<"error">>
               /\ hdr'[c][1].code = "HTTP_INTERNAL_SERVER_ERROR"
    <2> DEFINE h == [code |-> resp[v].code, size |-> resp[v].size,
                     whole |-> Accepted(c, HdrLen) = HdrLen, end |-> HasBody(resp[v])]
    <2>1. pc[v] = "respond" /\ hdr' = [hdr EXCEPT ![c] = Append(@, h)]
      BY <1>4 DEF SendHeader
    <2>2. HandOK(v) /\ Apology(v)  BY <2>1, CallFacts DEF IInv, InCall, Pending
    <2>3. ~HasBody(resp[v])  BY <1>4, <2>1, <2>2 DEF HandOK
    <2>4. h.code = "HTTP_INTERNAL_SERVER_ERROR"  BY <1>4, <2>1, <2>2 DEF Apology
    <2>5. state' = [state EXCEPT ![c] = "CONN_COMPLETE"]
      BY <1>4, <2>3 DEF SendHeader, ReturnWith
    <2>6. state'[c] = "CONN_COMPLETE"  BY <2>5 DEF IInv, Data
    <2> HIDE DEF h
    <2>7. hdr'[c] = <<h>>  BY <1>3, <2>1 DEF IInv, Data
    <2>8. h.whole  BY <2>7 DEF IInv, Inv, LifeOK, HeaderOK
    <2>9. Kind(h) = "error"  BY <2>4, <2>8 DEF Kind
    <2>10. Kinds(hdr'[c]) = <<"error">>  BY <2>7, <2>9 DEF Kinds
    <2> QED  BY <2>4, <2>6, <2>7, <2>10
  <1>5. CASE hdr'[c] # hdr[c]  BY <1>2, <1>4, <1>5, OutputChanges
  <1>6. CASE hdr'[c] = hdr[c]
    <2>1. state'[c] # state[c]  BY <1>2, <1>6 DEF SameReply
    <2>2. PICK v \in Workers :
            /\ c = Cur(v)
            /\ \/ ReadError(v) \/ SendHeader(v) \/ ReadFile(v)
               \/ state'[c] = "CONN_ERR_UNRECOVERABLE"
      BY <2>1, StateChanges
    <2> QED  BY <1>1, <1>2, <1>3, <1>4, <1>6, <2>2
  <1> QED  BY <1>5, <1>6

\* A connection that has ended is the one its worker is about to settle.
LEMMA EndedSettles ==
  ASSUME IInv, Next, NEW c \in Conns, state[c] \in Ended
  PROVE  /\ SameReply(c)
         /\ sock[c] = "open" /\ WorkerStep(owner[c]) =>
              sock'[c] = "closed" /\ file_fd'[c] = -1
  <1>1. \A v \in Workers : c = Cur(v) /\ pc[v] \in InCall => FALSE
    <2> SUFFICES ASSUME NEW v \in Workers, c = Cur(v), pc[v] \in InCall PROVE FALSE  OBVIOUS
    <2>1. HandOK(v)  BY CallFacts DEF IInv
    <2> QED  BY <2>1 DEF HandOK, Fresh, InCall, Ended
  <1>2. \A v \in Workers : c = Cur(v) => ~SendHeader(v) /\ ~WriteSocket(v)
    BY <1>1 DEF SendHeader, WriteSocket, InCall
  <1>3. state'[c] = state[c]  BY NextForward DEF IInv, Forward, Ended
  <1>4. SameReply(c)  BY <1>2, <1>3, OutputChanges DEF SameReply
  <1>5. ASSUME sock[c] = "open", WorkerStep(owner[c])
        PROVE  sock'[c] = "closed" /\ file_fd'[c] = -1
    <2>1. PICK w \in Workers : w = owner[c]  BY <1>5 DEF IInv, Inv, FdOK
    <2>2. c \in Listed(w)  BY <1>5, <2>1 DEF IInv, Inv, FdOK, Forgotten, Ended
    <2>3. InHand(w) /\ c = Cur(w)
      BY <2>2 DEF IInv, Inv, AtRest, Busy, Fresh, Ended
    <2>4. pc[w] = "settle"  BY <1>1, <2>3 DEF InHand
    <2>5. SettleComplete(w)
      BY <1>5, <2>1, <2>3, <2>4 DEF WorkerStep, HandlerStep, LoopStep, OutOfMemory, AllocFails,
         SelectFails, ReadAndParse, ReadEof, ReadError, Locate, OpenFile, SendHeader,
         SendHeaderFails, ReadFile, WriteSocket, WriteSocketFails, Select, AcceptNothing,
         AcceptConn, AcceptFails, DispatchUnready, DispatchReady, SettleSending,
         SettleRecoverable, SettleWaiting, EndRound, InCall, Ended
    <2>6. sock' = [sock EXCEPT ![c] = "closed"] /\ file_fd' = [file_fd EXCEPT ![c] = -1]
      BY <2>3, <2>5 DEF SettleComplete
    <2> QED  BY <2>6 DEF IInv, Data, SocketsTypeOK
  <1> QED  BY <1>4, <1>5

\* Whatever path a longjmp takes, and however many connections and workers there
\* are: a 500 is asked for only where nothing was sent and no file is open, the
\* second call sends just its header or nothing, and a connection that has ended
\* is closed by the next step of its worker (server.c:215-237, handler.c:84).
THEOREM EndsCorrect == Spec => EndsOnce
  <1> DEFINE EndsWell(c) ==
        /\ state'[c] = "CONN_ERR_RECOVERABLE" => hdr'[c] = <<>> /\ file_fd'[c] = -1
        /\ state[c] = "CONN_ERR_RECOVERABLE" /\ ~SameReply(c) =>
             /\ wire'[c] = wire[c]
             /\ \/ state'[c] = "CONN_ERR_UNRECOVERABLE" /\ hdr'[c] = <<>>
                \/ /\ state'[c] = "CONN_COMPLETE"
                   /\ Kinds(hdr'[c]) = <<"error">>
                   /\ hdr'[c][1].code = "HTTP_INTERNAL_SERVER_ERROR"
        /\ state[c] \in Ended =>
             /\ SameReply(c)
             /\ sock[c] = "open" /\ WorkerStep(owner[c]) =>
                  sock'[c] = "closed" /\ file_fd'[c] = -1
  <1>1. ASSUME IInv, IInv', Pending, Pending', Next, NEW c \in Conns
        PROVE  EndsWell(c)
    <2>1. state'[c] = "CONN_ERR_RECOVERABLE" => hdr'[c] = <<>> /\ file_fd'[c] = -1
      BY <1>1 DEF IInv, Inv, LifeOK, SilentOK, Pending, Fileless
    <2> QED  BY <1>1, <2>1, ApologySent, EndedSettles
  <1>2. IInv /\ IInv' /\ Pending /\ Pending' /\ [Next]_vars => [\A c \in Conns : EndsWell(c)]_vars
    BY <1>1
  <1> HIDE DEF EndsWell
  <1>3. (Spec => [][\A c \in Conns : EndsWell(c)]_vars)
    BY <1>2, PendingHere, PTL DEF Spec
  <1> QED  BY <1>3 DEF EndsOnce, EndsWell

-----------------------------------------------------------------------------
(***************************************************************************)
(* And between two selects there is always a next step.                    *)
(***************************************************************************)

\* The guards of the steps of w, place by place.
Able(w) ==
  LET c == Cur(w) IN
  \/ pc[w] = "accept" /\ (Backlog = {} \/ OpenFds(w) < FdLimit \/ OpenFds(w) >= FdLimit)
  \/ pc[w] = "dispatch"
  \/ pc[w] = "settle" /\ state[c] \in States
  \/ pc[w] = "read" /\ (HasRequest(c) \/ peer[c] \in {"fin", "rst"})
  \/ pc[w] = "locate"
  \/ pc[w] = "open" /\ (Errors # {} \/ OpenFds(w) < FdLimit)
  \/ pc[w] = "respond" /\ (peer[c] = "rst" \/ Accepted(c, HdrLen) > 0)
  \/ /\ pc[w] = "pump"
     /\ \/ BufferEmpty(c) \/ peer[c] = "rst"
        \/ Accepted(c, read_buf_len[c] - read_buf_cursor[c]) >= 0

\* What select has said of a waiting connection is still true when its turn comes.
Reported(w) ==
  /\ \A c \in ready[w] \cap Members(active_conns[w]) :
       state[c] = "CONN_WAITING" /\ ~Busy(w, c) => Readable(c)
  /\ pc[w] = "read" => Readable(Cur(w))

FewOpen == IsFiniteSet({c \in Conns : sock[c] = "open"})

Awake == FewOpen /\ \A w \in Workers : Reported(w)

\* Only the read of its worker makes a connection unreadable.
LEMMA StaysReadable ==
  ASSUME Control, Data, Inv, [Next]_vars, NEW c \in Conns, Readable(c)
  PROVE  Readable(c)' \/ \E v \in Workers : ReadAndParse(v) /\ c = Cur(v)
  <1>1. CASE UNCHANGED <<rx, peer>>  BY <1>1 DEF Readable, HasRequest
  <1>2. CASE EnvStep
    <2>1. CASE EditFile  BY <1>1, <2>1 DEF EditFile
    <2>2. ASSUME NEW d \in Conns, ClientStep(d) PROVE Readable(c)'
      <3>1. CASE Connect(d) \/ Drain(d)  BY <1>1, <3>1 DEF Connect, Drain, Readable, HasRequest
      <3>2. CASE SendRequest(d)
        <4>1. PICK s \in {"part", "whole"} : peer' = peer /\ rx' = [rx EXCEPT ![d] = s]
          BY <3>2 DEF SendRequest
        <4>2. \A e \in Conns : rx'[e] \in {rx[e], "part", "whole"}
          BY <4>1 DEF Data, SocketsTypeOK
        <4> QED  BY <4>1, <4>2 DEF Readable, HasRequest
      <3>3. CASE Leave(d)
        <4>1. PICK s \in {"fin", "rst"} : rx' = rx /\ peer' = [peer EXCEPT ![d] = s]
          BY <3>3 DEF Leave
        <4>2. \A e \in Conns : peer'[e] = peer[e] \/ peer'[e] # "up"
          BY <4>1 DEF Data, SocketsTypeOK
        <4> QED  BY <4>1, <4>2 DEF Readable, HasRequest
      <3> QED  BY <2>2, <3>1, <3>2, <3>3 DEF ClientStep
    <2> QED  BY <1>2, <2>1, <2>2 DEF EnvStep
  <1>3. CASE \E w \in Workers : WorkerStep(w)
    <2>1. PICK w \in Workers : WorkerStep(w)  BY <1>3
    <2>2. CASE ReadAndParse(w)
      <3>1. peer' = peer /\ rx' = [rx EXCEPT ![Cur(w)] = "taken"]
        BY <2>2 DEF ReadAndParse
      <3>2. c # Cur(w) => rx'[c] = rx[c]  BY <3>1 DEF Data, SocketsTypeOK
      <3> QED  BY <2>2, <3>1, <3>2 DEF Readable, HasRequest
    <2>3. CASE \E how, lost : Die(w, how, lost)  BY <1>1, <2>3 DEF Die
    <2>4. CASE HandlerStep(w) /\ ~ReadAndParse(w)
      BY <1>1, <2>3, <2>4
      DEF HandlerStep, ReadEof, ReadError, Locate, OpenFile, SendHeader, SendHeaderFails,
          ReadFile, WriteSocket, WriteSocketFails, WriteFails, sockVars
    <2>5. CASE LoopStep(w) \/ OutOfMemory(w)
      BY <1>1, <2>3, <2>5
      DEF LoopStep, OutOfMemory, AllocFails, SelectFails, Select, AcceptNothing, AcceptConn, AcceptFails,
          DispatchUnready, DispatchReady, SettleSending, SettleComplete, SettleRecoverable,
          SettleWaiting, EndRound, sockVars
    <2> QED  BY <2>1, <2>2, <2>4, <2>5 DEF WorkerStep
  <1>4. CASE UNCHANGED vars  BY <1>1, <1>4 DEF vars, sockVars
  <1> QED  BY <1>2, <1>3, <1>4 DEF Next

LEMMA ParsesOnce ==
  ASSUME Control, Data, Inv, NEW w \in Workers, ReadAndParse(w)
  PROVE  pc'[w] # "read" /\ Busy(w, Cur(w))'
  <1>1. pc[w] = "read" /\ pc'[w] \in {"locate", "respond"} /\ active_conns' = active_conns
    BY GotoPc DEF ReadAndParse, Goto, listVars
  <1>2. active_conns[w] # <<>>  BY <1>1, CallFacts DEF InCall
  <1> QED  BY <1>1, <1>2 DEF Busy, InHand, InCall

\* A report stays true where the step adds none and begins no read.
LEMMA ReportedKept ==
  ASSUME Control, Data, Inv, [Next]_vars, NEW w \in Workers, Reported(w),
         ready'[w] \subseteq ready[w],
         Members(active_conns[w])' \subseteq Members(active_conns[w]),
         pc'[w] # "read" \/ (pc[w] = "read" /\ Cur(w)' = Cur(w)),
         \A c \in Members(active_conns[w])' : Busy(w, c) => Busy(w, c)'
  PROVE  Reported(w)'
  <1>1. ASSUME NEW c \in ready'[w] \cap Members(active_conns[w])',
               state'[c] = "CONN_WAITING", ~Busy(w, c)'
        PROVE  Readable(c)'
    <2>1. c \in Members(active_conns[w]) /\ c \in Conns /\ c \in Listed(w)
      BY MembersType DEF Listed
    <2>2. state[c] = "CONN_WAITING"
      <3>1. CASE Next
        <4>1. state'[c] # state[c] => Forward(state[c], state'[c])
          BY <2>1, <3>1, NextForward
        <4> QED  BY <1>1, <4>1 DEF Forward
      <3>2. CASE UNCHANGED vars  BY <1>1, <3>2 DEF vars, connVars
      <3> QED  BY <3>1, <3>2
    <2>3. Readable(c)  BY <1>1, <2>1, <2>2 DEF Reported
    <2>4. ASSUME NEW v \in Workers, ReadAndParse(v), c = Cur(v) PROVE FALSE
      <3>1. owner[Cur(v)] = v  BY <2>4, CallFacts DEF ReadAndParse, InCall
      <3>2. owner[c] = w  BY <2>1 DEF Inv, Tracked
      <3>3. v = w  BY <2>4, <3>1, <3>2
      <3>4. Busy(w, Cur(w))' /\ active_conns' = active_conns
        BY <2>4, <3>3, ParsesOnce DEF ReadAndParse, listVars
      <3> QED  BY <1>1, <2>4, <3>3, <3>4 DEF Busy, Cur
    <2> QED  BY <2>1, <2>3, <2>4, StaysReadable
  <1>2. ASSUME pc'[w] = "read" PROVE Readable(Cur(w))'
    <2>1. /\ pc[w] = "read" /\ Cur(w)' = Cur(w) /\ Readable(Cur(w))
          /\ Cur(w) \in Conns /\ owner[Cur(w)] = w
      BY <1>2, CallFacts DEF Reported, InCall
    <2>2. ASSUME NEW v \in Workers, ReadAndParse(v), Cur(w) = Cur(v) PROVE FALSE
      <3>1. owner[Cur(v)] = v  BY <2>2, CallFacts DEF ReadAndParse, InCall
      <3> QED  BY <1>2, <2>1, <2>2, <3>1, ParsesOnce
    <2>3. PICK c \in Conns : c = Cur(w)  BY <2>1
    <2>4. Readable(c)'  BY <2>1, <2>2, <2>3, StaysReadable
    <2> QED  BY <2>1, <2>3, <2>4
  <1> QED  BY <1>1, <1>2 DEF Reported

\* A handler goes on with the connection in hand, and begins no other read.
LEMMA HandlerReported ==
  ASSUME Control, Data, Inv, Next, NEW w \in Workers, Reported(w), HandlerStep(w)
  PROVE  Reported(w)'
  <1>1. CASE \E how, lost : how \in Dead /\ Die(w, how, lost)
    <2>1. /\ ready'[w] = {} /\ pc'[w] # "read"
      BY <1>1 DEF Die, Control, Dead
    <2> QED  BY <2>1 DEF Reported
  <1>2. CASE /\ pc[w] \in InCall /\ pc'[w] \in (InCall \cup {"settle"}) \ {"read"}
             /\ UNCHANGED listVars
    <2>1. ready' = ready /\ active_conns' = active_conns  BY <1>2 DEF listVars
    <2>2. \A c : Busy(w, c) => Busy(w, c)'  BY <1>2, <2>1 DEF Busy, InHand, Cur
    <2> QED  BY <1>2, <2>1, <2>2, ReportedKept DEF Members
  <1>3. CASE \/ ReadAndParse(w) \/ ReadEof(w) \/ ReadError(w) \/ Locate(w) \/ OpenFile(w)
             \/ SendHeader(w) \/ ReadFile(w) \/ WriteSocket(w)
    <2>1. pc[w] \in InCall /\ UNCHANGED listVars
      BY <1>3 DEF ReadAndParse, ReadEof, ReadError, Locate, OpenFile, SendHeader, ReadFile,
                  WriteSocket, InCall
    <2>2. \E label \in (InCall \cup {"settle"}) \ {"read"} : pc' = [pc EXCEPT ![w] = label]
      BY <1>3 DEF ReadAndParse, ReadEof, ReadError, Locate, OpenFile, SendHeader, ReadFile,
                  WriteSocket, Abort, ReturnWith, Return, Goto, InCall
    <2> QED  BY <1>2, <2>1, <2>2, GotoPc
  <1>4. CASE SendHeaderFails(w) \/ WriteSocketFails(w)
    <2>1. pc[w] \in InCall /\ WriteFails(w)
      BY <1>4 DEF SendHeaderFails, WriteSocketFails, InCall
    <2>2. CASE Die(w, "killed", {})  BY <1>1, <2>2 DEF Dead
    <2>3. CASE Abort(w) /\ UNCHANGED listVars
      <3>1. pc'[w] = "settle"  BY <2>3, GotoPc DEF Abort, ReturnWith, Return
      <3> QED  BY <1>2, <2>1, <2>3, <3>1 DEF InCall
    <2> QED  BY <2>1, <2>2, <2>3 DEF WriteFails
  <1> QED  BY <1>3, <1>4 DEF HandlerStep

\* The loop: select reports, the visits take the connections from the list.
LEMMA LoopReported ==
  ASSUME Control, Data, Inv, Next, NEW w \in Workers, Reported(w),
         LoopStep(w) \/ OutOfMemory(w)
  PROVE  Reported(w)'
  <1>1. CASE \E how, lost : how \in Dead /\ Die(w, how, lost)
    <2>1. /\ ready'[w] = {} /\ pc'[w] # "read"
      BY <1>1 DEF Die, Control, Dead
    <2> QED  BY <2>1 DEF Reported
  <1>2. CASE Select(w)
    <2>1. /\ ready'[w] = {c \in Members(active_conns[w]) : Ready(c)}
          /\ UNCHANGED <<sockVars, connVars>>
          /\ pc'[w] # "read"
      BY <1>2 DEF Select, Goto, Control
    <2>2. \A c \in ready'[w] : state'[c] = "CONN_WAITING" => Readable(c)'
      BY <2>1 DEF Ready, Readable, HasRequest, sockVars, connVars
    <2> QED  BY <2>1, <2>2 DEF Reported
  <1>3. CASE AcceptNothing(w) \/ AcceptConn(w)
    <2>1. /\ pc[w] = "accept" /\ pc'[w] = "dispatch" /\ UNCHANGED <<active_conns, ready>>
      BY <1>3, GotoPc DEF AcceptNothing, AcceptConn, Goto, listVars
    <2>2. \A c : ~Busy(w, c)  BY <2>1 DEF Busy, InHand, InCall
    <2> QED  BY <2>1, <2>2, ReportedKept DEF Members
  <1>4. CASE /\ pc[w] \in {"dispatch", "settle"} /\ pc'[w] = "dispatch" /\ active_conns[w] # <<>>
             /\ active_conns' = [active_conns EXCEPT ![w] = Tail(@)] /\ ready' = ready
    <2>1. active_conns'[w] = Tail(active_conns[w])  BY <1>4 DEF Control
    <2>2. Members(active_conns[w])' = Members(Tail(active_conns[w]))
      BY <2>1 DEF Members
    <2>3. /\ Members(Tail(active_conns[w])) \subseteq Members(active_conns[w])
          /\ Cur(w) \notin Members(Tail(active_conns[w]))
      BY <1>4, InHandOwned
    <2>4. \A c \in Members(active_conns[w])' : ~Busy(w, c)  BY <2>2, <2>3 DEF Busy
    <2> QED  BY <1>4, <2>2, <2>3, <2>4, ReportedKept
  <1>5. CASE DispatchUnready(w)  BY <1>4, <1>5 DEF DispatchUnready, Keep
  <1>6. CASE SettleSending(w) \/ SettleComplete(w)
    <2>1. /\ pc[w] = "settle" /\ Goto(w, "dispatch") /\ ready' = ready
          /\ active_conns' = [active_conns EXCEPT ![w] = Tail(@)]
      BY <1>6 DEF SettleSending, SettleComplete, Keep
    <2>2. pc'[w] = "dispatch"  BY <2>1, GotoPc DEF Goto
    <2>3. active_conns[w] # <<>>  BY <2>1, CallFacts
    <2> QED  BY <1>4, <2>1, <2>2, <2>3
  <1>7. CASE SettleWaiting(w)
    <2>1. CASE Die(w, "aborted", {})  BY <1>1, <2>1 DEF Dead
    <2>2. CASE /\ active_conns' = [active_conns EXCEPT ![w] = Tail(@)] /\ ready' = ready
               /\ Goto(w, "dispatch")
      <3>1. pc[w] = "settle"  BY <1>7 DEF SettleWaiting
      <3>2. pc'[w] = "dispatch"  BY <2>2, GotoPc DEF Goto
      <3>3. active_conns[w] # <<>>  BY <3>1, CallFacts
      <3> QED  BY <1>4, <2>2, <3>1, <3>2, <3>3
    <2> QED  BY <1>7, <2>1, <2>2 DEF SettleWaiting
  <1>8. CASE DispatchReady(w)
    <2>1. /\ pc[w] = "dispatch" /\ active_conns[w] # <<>> /\ Cur(w) \in ready[w]
          /\ UNCHANGED <<sockVars, connVars, active_conns, ready>>
      BY <1>8 DEF DispatchReady, listVars
    <2>2. pc'[w] = IF state[Cur(w)] = "CONN_WAITING" THEN "read" ELSE "pump"
      BY <1>8, GotoPc DEF DispatchReady
    <2>3. Cur(w) \in Members(active_conns[w])  BY <2>1, InHandOwned
    <2>4. \A c : ~Busy(w, c)  BY <2>1 DEF Busy, InHand, InCall
    <2>5. \A c \in ready[w] \cap Members(active_conns[w]) :
            state[c] = "CONN_WAITING" => Readable(c)
      BY <2>4 DEF Reported
    <2>6. \A c : (Readable(c)' <=> Readable(c)) /\ state'[c] = state[c]
      BY <2>1 DEF Readable, HasRequest, sockVars, connVars
    <2>7. Cur(w)' = Cur(w) /\ Members(active_conns[w])' = Members(active_conns[w])
      BY <2>1 DEF Cur, Members
    <2>8. pc'[w] = "read" => Readable(Cur(w))'
      BY <2>1, <2>2, <2>3, <2>5, <2>6, <2>7
    <2>9. \A c \in ready'[w] \cap Members(active_conns[w])' :
            state'[c] = "CONN_WAITING" => Readable(c)'
      BY <2>1, <2>5, <2>6, <2>7
    <2> QED  BY <2>8, <2>9 DEF Reported
  <1>9. CASE SettleRecoverable(w)
    <2>1. /\ pc[w] = "settle" /\ pc'[w] = "respond" /\ UNCHANGED <<active_conns, ready>>
      BY <1>9, GotoPc DEF SettleRecoverable, listVars
    <2>2. \A c : Busy(w, c) => Busy(w, c)'  BY <2>1 DEF Busy, InHand, Cur, InCall
    <2> QED  BY <2>1, <2>2, ReportedKept DEF Members
  <1>10. CASE EndRound(w)
    <2>1. ready'[w] = {} /\ pc'[w] = "select"
      BY <1>10, GotoPc DEF EndRound, Goto, Control
    <2> QED  BY <2>1 DEF Reported
  <1>11. CASE AcceptFails(w) \/ OutOfMemory(w)
    <2>1. \E lost : Die(w, "exited", lost)  BY <1>11 DEF AcceptFails, OutOfMemory, AllocFails, SelectFails
    <2> QED  BY <1>1, <2>1 DEF Dead
  <1> QED
    BY <1>2, <1>3, <1>5, <1>6, <1>7, <1>8, <1>9, <1>10, <1>11 DEF LoopStep

LEMMA OthersReady ==
  ASSUME Control, NEW v \in Workers, WorkerStep(v)
  PROVE  \A w \in Workers \ {v} : ready'[w] = ready[w]
  <1>1. ready' = ready \/ \E s : ready' = [ready EXCEPT ![v] = s]
    <2>1. CASE HandlerStep(v)
      BY <2>1 DEF HandlerStep, ReadAndParse, ReadEof, ReadError, Locate, OpenFile, SendHeader,
                  SendHeaderFails, ReadFile, WriteSocket, WriteSocketFails, WriteFails, Die,
                  listVars
    <2>2. CASE LoopStep(v) \/ OutOfMemory(v)
      BY <2>2 DEF LoopStep, OutOfMemory, AllocFails, SelectFails, Select, AcceptNothing, AcceptConn, AcceptFails,
                  DispatchUnready, DispatchReady, SettleSending, SettleComplete, Keep,
                  SettleRecoverable, SettleWaiting, EndRound, Die, listVars
    <2> QED  BY <2>1, <2>2 DEF WorkerStep
  <1> QED  BY <1>1 DEF Control

LEMMA NextReported ==
  ASSUME Control, Data, Inv, [Next]_vars, NEW w \in Workers, Reported(w)
  PROVE  Reported(w)'
  <1>1. CASE /\ pc'[w] = pc[w] /\ active_conns'[w] = active_conns[w]
             /\ ready'[w] = ready[w]
    <2>1. \A c : Busy(w, c) => Busy(w, c)'  BY <1>1 DEF Busy, InHand, Cur
    <2>2. Cur(w)' = Cur(w) /\ Members(active_conns[w])' = Members(active_conns[w])
      BY <1>1 DEF Cur, Members
    <2> QED  BY <1>1, <2>1, <2>2, ReportedKept
  <1>2. CASE EnvStep \/ UNCHANGED vars
    BY <1>1, <1>2 DEF EnvStep, serverVars, vars, listVars
  <1>3. ASSUME NEW v \in Workers, WorkerStep(v) PROVE Reported(w)'
    <2>1. CASE v # w  BY <1>1, <1>3, <2>1, OthersPlace, OthersReady
    <2>2. CASE v = w
      <3>1. Next  BY <1>3 DEF Next
      <3> QED  BY <1>3, <2>2, <3>1, HandlerReported, LoopReported DEF WorkerStep
    <2> QED  BY <2>1, <2>2
  <1> QED  BY <1>2, <1>3 DEF Next

\* A step opens one connection at most.
LEMMA NextFewOpen ==
  ASSUME Control, Data, FewOpen, [Next]_vars
  PROVE  FewOpen'
  <1> DEFINE Open == {c \in Conns : sock[c] = "open"}
             Then == {c \in Conns : sock'[c] = "open"}
  <1>0. IsFiniteSet(Open)  BY DEF FewOpen
  <1> SUFFICES \E c : Then \subseteq Open \cup {c}
    <2>1. PICK c : Then \subseteq Open \cup {c}  OBVIOUS
    <2>2. IsFiniteSet(Open \cup {c})  BY <1>0, FS_AddElement
    <2>3. IsFiniteSet(Then)  BY <2>1, <2>2, FS_Subset
    <2> QED  BY <2>3 DEF FewOpen
  <1>1. CASE UNCHANGED sock  BY <1>1
  <1>2. CASE \E w, how, lost : Die(w, how, lost)
    <2>1. PICK w, how, lost : Die(w, how, lost)  BY <1>2
    <2>2. \A c \in Conns : sock'[c] \in {sock[c], "closed"}  BY <2>1 DEF Die
    <2>3. Then \subseteq Open  BY <2>2
    <2> QED  BY <2>3
  <1>3. CASE \E c \in Conns : \E s : sock' = [sock EXCEPT ![c] = s]
    <2>1. PICK c \in Conns : \E s : sock' = [sock EXCEPT ![c] = s]  BY <1>3
    <2>2. \A d \in Conns : d # c => sock'[d] = sock[d]
      BY <2>1 DEF Data, SocketsTypeOK
    <2>3. Then \subseteq Open \cup {c}  BY <2>2
    <2> QED  BY <2>3
  <1>4. CASE EnvStep
    BY <1>1, <1>3, <1>4
    DEF EnvStep, EditFile, ClientStep, Connect, SendRequest, Drain, Leave
  <1>5. ASSUME NEW w \in Workers, HandlerStep(w)
        PROVE  UNCHANGED sock \/ \E how, lost : Die(w, how, lost)
    BY <1>5 DEF HandlerStep, ReadAndParse, ReadEof, ReadError, Locate, OpenFile, SendHeader,
                SendHeaderFails, ReadFile, WriteSocket, WriteSocketFails, WriteFails, sockVars
  <1>6. ASSUME NEW w \in Workers, AcceptConn(w) PROVE \E c : Then \subseteq Open \cup {c}
    BY <1>3, <1>6 DEF AcceptConn, Backlog
  <1>7. ASSUME NEW w \in Workers, SettleComplete(w) PROVE \E c : Then \subseteq Open \cup {c}
    <2>1. sock' = [sock EXCEPT ![Cur(w)] = "closed"]  BY <1>7 DEF SettleComplete
    <2>2. \A d \in Conns : sock'[d] \in {sock[d], "closed"}
      BY <2>1 DEF Data, SocketsTypeOK
    <2>3. Then \subseteq Open  BY <2>2
    <2> QED  BY <2>3
  <1>8. ASSUME NEW w \in Workers, LoopStep(w) \/ OutOfMemory(w),
               ~AcceptConn(w), ~SettleComplete(w)
        PROVE  UNCHANGED sock \/ \E how, lost : Die(w, how, lost)
    BY <1>8 DEF LoopStep, OutOfMemory, AllocFails, SelectFails, Select, AcceptNothing, AcceptFails, DispatchUnready,
                DispatchReady, SettleSending, SettleRecoverable, SettleWaiting, EndRound,
                sockVars
  <1>9. CASE UNCHANGED vars  BY <1>1, <1>9 DEF vars, sockVars
  <1> HIDE DEF Open, Then
  <1> QED  BY <1>1, <1>2, <1>4, <1>5, <1>6, <1>7, <1>8, <1>9 DEF Next, WorkerStep

LEMMA InitAwake == Init => Awake
  <1> SUFFICES ASSUME Init PROVE Awake  OBVIOUS
  <1>1. {c \in Conns : sock[c] = "open"} = {}  BY DEF Init, SocketsInit
  <1>2. FewOpen  BY <1>1, FS_EmptySet DEF FewOpen
  <1>3. \A w \in Workers : Reported(w)  BY DEF Init, Reported
  <1> QED  BY <1>2, <1>3 DEF Awake

\* The descriptors of a worker can be counted.
LEMMA CountedFds ==
  ASSUME Inv, FewOpen, NEW w \in Workers
  PROVE  OpenFds(w) \in Nat
  <1> DEFINE Open == {c \in Conns : sock[c] = "open"}
             Socks == {c \in Conns : owner[c] = w /\ sock[c] = "open"}
             Files == {c \in Conns : owner[c] = w /\ file_fd[c] # -1}
  <1>1. IsFiniteSet(Open)  BY DEF FewOpen
  <1>2. Socks \subseteq Open /\ Files \subseteq Open  BY DEF Inv, FdOK
  <1>3. IsFiniteSet(Socks) /\ IsFiniteSet(Files)  BY <1>1, <1>2, FS_Subset
  <1>4. Cardinality(Socks) \in Nat /\ Cardinality(Files) \in Nat
    BY <1>3, FS_CardinalityType
  <1> QED  BY <1>4 DEF OpenFds

LEMMA AwakeAble ==
  ASSUME IInv, Awake, Errors # {}, NEW w \in Workers, pc[w] \notin Dead \cup {"select"}
  PROVE  Able(w)
  <1>1. pc[w] \in {"accept", "dispatch", "settle"} \cup InCall
    BY DEF IInv, Control, InLoop, Dead
  <1>2. CASE pc[w] = "accept"
    <2>1. OpenFds(w) \in Nat /\ FdLimit \in Nat
      BY CountedFds, HandlerAssumption DEF Awake, IInv
    <2> QED  BY <1>2, <2>1 DEF Able
  <1>3. CASE pc[w] = "dispatch"  BY <1>3 DEF Able
  <1>4. CASE pc[w] = "locate"  BY <1>4 DEF Able
  <1>5. CASE pc[w] = "open"  BY <1>5 DEF Able
  <1>6. CASE pc[w] = "settle"
    <2>1. Cur(w) \in Conns  BY <1>6, CallFacts DEF IInv
    <2> QED  BY <1>6, <2>1 DEF Able, IInv, Data
  <1>7. CASE pc[w] = "read"
    <2>1. Cur(w) \in Conns /\ Readable(Cur(w))
      BY <1>7, CallFacts DEF Awake, Reported, IInv, InCall
    <2>2. peer[Cur(w)] \in {"up", "fin", "rst"}  BY <2>1 DEF IInv, Data, SocketsTypeOK
    <2> QED  BY <1>7, <2>1, <2>2 DEF Able, Readable
  <1>8. CASE pc[w] = "respond"
    <2>1. Cur(w) \in Conns /\ SilentOK(Cur(w)) /\ HandOK(w)
      BY <1>8, CallFacts DEF IInv, InCall, LifeOK
    <2>2. sndq[Cur(w)] = 0  BY <1>8, <2>1 DEF SilentOK, HandOK
    <2>3. Accepted(Cur(w), HdrLen) > 0
      BY <2>2, HandlerAssumption, SocketsAssumption DEF Accepted, Smaller
    <2> QED  BY <1>8, <2>3 DEF Able
  <1>9. CASE pc[w] = "pump"
    <2>1. /\ read_buf_len[Cur(w)] \in Nat /\ read_buf_cursor[Cur(w)] \in Nat
          /\ read_buf_cursor[Cur(w)] <= read_buf_len[Cur(w)]
          /\ sndq[Cur(w)] \in 0..SndBuf /\ SndBuf \in Nat
      BY <1>9, PumpFacts DEF IInv
    <2>2. Accepted(Cur(w), read_buf_len[Cur(w)] - read_buf_cursor[Cur(w)]) >= 0
      BY <2>1 DEF Accepted, Smaller
    <2> QED  BY <1>9, <2>2 DEF Able
  <1> QED  BY <1>1, <1>2, <1>3, <1>4, <1>5, <1>6, <1>7, <1>8, <1>9 DEF InCall

\* conn_loop and the handlers wait in select and nowhere else: WaitsOnlyInSelect
\* with the guards of the steps in place of ENABLED.  The read of a request
\* (handler.c:36) is made on a blocking socket, after handlers of other connections
\* have run since select reported it (server.c:181), and the report is still true;
\* the header (handler.c:126) goes to a blocking socket that has taken nothing yet.
\* The assumption: realpath, stat and open have a way to fail.
THEOREM NeverBlocks ==
  ASSUME Errors # {}
  PROVE  Spec => [](\A w \in Workers : pc[w] \in Dead \cup {"select"} \/ Able(w))
  <1>1. IInv /\ Awake /\ [Next]_vars => Awake'
    BY NextReported, NextFewOpen DEF IInv, Awake
  <1>2. IInv /\ Awake => \A w \in Workers : pc[w] \in Dead \cup {"select"} \/ Able(w)
    BY AwakeAble
  <1> QED  BY InitAwake, <1>1, <1>2, Invariant, PTL DEF Spec
=============================================================================
