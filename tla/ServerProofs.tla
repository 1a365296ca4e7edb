---------------------------- MODULE ServerProofs ----------------------------
(***************************************************************************)
(* Proofs about the whole program: the invariant of the workers survives   *)
(* the master, which may kill a worker at any point, and the master's own  *)
(* holds of real workers; together they say which processes hold which     *)
(* connections, and what the clients see.                                  *)
(***************************************************************************)
EXTENDS ServerProps, WorkerProofs

MP == INSTANCE MasterProofs WITH Pids <- Workers

-----------------------------------------------------------------------------
\* Every step is one the master's module knows, or none of the master's.
LEMMA NextManages == [ServerNext]_allVars => [M!Next]_(M!vars)
  <1> SUFFICES ASSUME [ServerNext]_allVars PROVE M!Next \/ UNCHANGED M!vars  OBVIOUS
  <1>1. CASE Client  BY <1>1 DEF Client, masterVars, M!vars
  <1>2. CASE Manage
    BY <1>2 DEF Manage, GiveUp, M!Next, M!MasterStep
  <1>3. CASE \E w \in Workers : Serve(w) \/ Sigkill(w)
    BY <1>3 DEF Serve, Sigkill, masterVars, M!vars, M!Next, M!OthersStep
  <1>4. CASE UNCHANGED allVars  BY <1>4 DEF allVars, masterVars, M!vars
  <1> QED  BY <1>1, <1>2, <1>3, <1>4 DEF ServerNext

LEMMA MasterSteps == ServerSpec => M!Spec
  <1>1. ServerInit => M!Init  BY DEF ServerInit
  <1> QED  BY <1>1, NextManages, PTL DEF ServerSpec, M!Spec

-----------------------------------------------------------------------------
\* The instance of the master's proofs is about the same master.

LEMMA SameActions ==
  /\ M!MasterStep <=> MP!MasterStep
  /\ \A p \in Workers : /\ M!WorkerEnds(p) <=> MP!WorkerEnds(p)
                        /\ M!WorkerDies(p) <=> MP!WorkerDies(p)
                        /\ M!StrangerStarts(p) <=> MP!StrangerStarts(p)
                        /\ M!StrangerEnds(p) <=> MP!StrangerEnds(p)
  <1>1. M!Validate <=> MP!Validate
    BY DEF M!Validate, MP!Validate, M!settingsVars, MP!settingsVars
  <1>2. M!InitMaster <=> MP!InitMaster
    BY DEF M!InitMaster, MP!InitMaster, M!settingsVars, MP!settingsVars, M!EmptyTable, MP!EmptyTable, M!Index, MP!Index
  <1>3. M!Fork <=> MP!Fork
    BY DEF M!Fork, MP!Fork, M!settingsVars, MP!settingsVars, M!Record, MP!Record
  <1>4. M!ForkFails <=> MP!ForkFails
    BY DEF M!ForkFails, MP!ForkFails, M!settingsVars, MP!settingsVars
  <1>5. M!StartSleep <=> MP!StartSleep
    BY DEF M!StartSleep, MP!StartSleep, M!settingsVars, MP!settingsVars
  <1>6. M!SkipPid <=> MP!SkipPid
    BY DEF M!SkipPid, MP!SkipPid, M!settingsVars, MP!settingsVars
  <1>7. M!KillPid <=> MP!KillPid
    BY DEF M!KillPid, MP!KillPid, M!settingsVars, MP!settingsVars, M!Killed, MP!Killed
  <1>8. M!WaitPid <=> MP!WaitPid
    BY DEF M!WaitPid, MP!WaitPid, M!settingsVars, MP!settingsVars
  <1>9. M!GiveUp <=> MP!GiveUp
    BY DEF M!GiveUp, MP!GiveUp, M!settingsVars, MP!settingsVars
  <1>10. ASSUME NEW p \in Workers
        PROVE  /\ M!WorkerEnds(p) <=> MP!WorkerEnds(p)
               /\ M!WorkerDies(p) <=> MP!WorkerDies(p)
               /\ M!StrangerStarts(p) <=> MP!StrangerStarts(p)
               /\ M!StrangerEnds(p) <=> MP!StrangerEnds(p)
    BY DEF M!WorkerEnds, MP!WorkerEnds, M!WorkerDies, MP!WorkerDies, M!StrangerStarts, MP!StrangerStarts, M!StrangerEnds, MP!StrangerEnds, M!settingsVars, MP!settingsVars
  <1> QED  BY <1>1, <1>2, <1>3, <1>4, <1>5, <1>6, <1>7, <1>8, <1>9, <1>10 DEF M!MasterStep, MP!MasterStep

LEMMA SameSpec == M!Spec => MP!Spec
  <1>1. M!Init => MP!Init  BY DEF M!Init, MP!Init
  <1>2. [M!Next]_(M!vars) => [MP!Next]_(MP!vars)
    BY SameActions DEF M!Next, MP!Next, M!OthersStep, MP!OthersStep,
                       M!vars, MP!vars
  <1> QED  BY <1>1, <1>2, PTL DEF M!Spec, MP!Spec

\* So what is proved of the master holds here.
LEMMA MasterHere == ServerSpec => [](MP!TypeOK /\ MP!NoOrphans)
  <1>1. MP!Spec => []MP!TypeOK  BY MP!TypeCorrect, ServerAssumption
  <1>2. MP!Spec => []MP!NoOrphans  BY MP!OrphansCorrect, ServerAssumption
  <1> QED  BY <1>1, <1>2, SameSpec, MasterSteps, PTL

LEMMA MasterInvHere == ServerSpec => []MP!IInv
  <1>1. MP!Spec => []MP!IInv  BY MP!Always, ServerAssumption
  <1> QED  BY <1>1, SameSpec, MasterSteps, PTL

-----------------------------------------------------------------------------
\* The invariant of the workers under a master that may kill them.

LEMMA SigkillOK ==
  ASSUME IInv, NEW w \in Workers, Sigkill(w)
  PROVE  IInv'
  BY DieControl, DieData, DieInv DEF IInv, Sigkill, Dead

\* What is in the backlog belongs to no worker.
LEMMA GiveUpOK ==
  ASSUME IInv, GiveUp
  PROVE  IInv'
  <1> USE DEF IInv
  <1>1. /\ sock' = [c \in Conns |-> IF c \in Backlog THEN "closed" ELSE sock[c]]
        /\ UNCHANGED <<peer, rx, sndq, fsize, edited, serverVars>>
    BY DEF GiveUp
  <1>2. /\ UNCHANGED <<peer, rx, sndq, fsize, edited, state, file_fd, read_buf_size>>
        /\ UNCHANGED <<read_buf_len, read_buf_cursor, pc, active_conns, new_conns, ready>>
        /\ UNCHANGED <<g_memory_arena, resp, owner, hdr, wire>>
    BY <1>1 DEF serverVars, connVars, listVars, outVars
  <1>3. \A c \in Conns : /\ (sock[c] = "open") <=> (sock'[c] = "open")
                         /\ sock'[c] \in {"idle", "backlog"} => sock'[c] = sock[c]
    BY <1>1 DEF Backlog
  <1>4. Control'  BY <1>2 DEF Control, HandFull, ArenaFollowsCall, Cur
  <1>5. Data'  BY <1>1, <1>2 DEF Data, SocketsTypeOK
  <1>6. ASSUME NEW w \in Workers PROVE Tracked(w)' /\ AtRest(w)' /\ HandOK(w)'
    <2>1. /\ Tracked(w) /\ AtRest(w) /\ HandOK(w) /\ Listed(w) \subseteq Conns
          /\ Listed(w)' = Listed(w) /\ (NoDuplicates(w) => NoDuplicates(w)')
      BY <1>2, ListsSame, MembersType DEF Inv
    <2>2. Tracked(w)'  BY <1>2, <1>3, <2>1 DEF Tracked
    <2>3. AtRest(w)' /\ HandOK(w)'
      BY <1>2, <2>1 DEF AtRest, HandOK, Busy, InHand, Cur, Fresh, HasBody
    <2> QED  BY <2>2, <2>3
  <1>7. ASSUME NEW c \in Conns PROVE FdOK(c)' /\ LifeOK(c)'
    <2>1. FdOK(c) /\ LifeOK(c)  BY <1>7 DEF Inv
    <2>2. \A v \in Workers : Listed(v)' = Listed(v)  BY <1>2, ListsSame
    <2>3. FdOK(c)'  BY <1>2, <1>3, <2>1, <2>2 DEF FdOK, Forgotten, Fresh
    <2>4. LifeOK(c)'  BY <1>2, <1>3, <2>1 DEF LifeOK, SilentOK, HeaderOK, BodyOK
    <2> QED  BY <2>3, <2>4
  <1> QED  BY <1>4, <1>5, <1>6, <1>7 DEF Inv

LEMMA ServerNextInv == IInv /\ [ServerNext]_allVars => IInv'
  <1> SUFFICES ASSUME IInv, [ServerNext]_allVars PROVE IInv'  OBVIOUS
  <1>1. CASE Client
    <2>1. EnvStep  BY <1>1 DEF Client, EnvStep
    <2> QED  BY <2>1, NextInv DEF Next
  <1>2. CASE Manage
    <2>1. CASE GiveUp  BY <2>1, GiveUpOK
    <2>2. CASE UNCHANGED vars  BY <2>2, NextInv
    <2> QED  BY <1>2, <2>1, <2>2 DEF Manage
  <1>3. CASE \E w \in Workers : Serve(w)
    <2>1. Next  BY <1>3 DEF Serve, Next
    <2> QED  BY <2>1, NextInv
  <1>4. CASE \E w \in Workers : Sigkill(w)  BY <1>4, SigkillOK
  <1>5. CASE UNCHANGED allVars
    <2>1. UNCHANGED vars  BY <1>5 DEF allVars
    <2> QED  BY <2>1, NextInv
  <1> QED  BY <1>1, <1>2, <1>3, <1>4, <1>5 DEF ServerNext

LEMMA WorkersHere == ServerSpec => []IInv
  <1>1. ServerInit => IInv  BY ControlInit, InitInv DEF ServerInit, IInv
  <1> QED  BY <1>1, ServerNextInv, PTL DEF ServerSpec

-----------------------------------------------------------------------------
\* Who holds the sockets.

\* An open connection has a live process behind it, and one in the backlog the
\* listening socket of the master, which stays open until the master gives up.
Held ==
  /\ \A c \in Conns : /\ sock[c] = "open" => Alive(owner[c])
                      /\ sock[c] = "backlog" => listening
  /\ mpc \in {"fork", "sleep", "kill", "wait"} => listening

Base == IInv /\ MP!IInv /\ Held

\* Only by Die does a worker come to its end.
LEMMA DeadByDie ==
  ASSUME Control, NEW w \in Workers, WorkerStep(w), pc'[w] \in Dead
  PROVE  \E how, lost : Die(w, how, lost) /\ lost \subseteq Backlog
  <1>1. CASE OutOfMemory(w)  BY <1>1 DEF OutOfMemory, AllocFails, SelectFails
  <1>2. CASE AcceptFails(w)
    <2>1. CASE Die(w, "exited", {})  BY <2>1
    <2>2. CASE \E c \in Backlog : Die(w, "exited", {c})
      <3>1. PICK c \in Backlog : Die(w, "exited", {c})  BY <2>2
      <3>2. {c} \subseteq Backlog  BY <3>1
      <3> QED  BY <3>1, <3>2
    <2> QED  BY <1>2, <2>1, <2>2 DEF AcceptFails
  <1>3. CASE SettleWaiting(w)
    <2>1. CASE Goto(w, "dispatch")  BY <2>1 DEF Goto, Control, Dead
    <2> QED  BY <1>3, <2>1 DEF SettleWaiting
  <1>4. CASE SendHeaderFails(w) \/ WriteSocketFails(w)
    <2>1. CASE Abort(w)  BY <2>1 DEF Abort, ReturnWith, Return, Control, Dead
    <2> QED  BY <1>4, <2>1 DEF SendHeaderFails, WriteSocketFails, WriteFails
  <1>5. CASE \/ ReadAndParse(w) \/ ReadEof(w) \/ ReadError(w) \/ Locate(w) \/ OpenFile(w)
             \/ SendHeader(w) \/ ReadFile(w) \/ WriteSocket(w)
    <2>1. \E label \in InLoop \cup InCall : pc' = [pc EXCEPT ![w] = label]
      BY <1>5 DEF ReadAndParse, ReadEof, ReadError, Locate, OpenFile, SendHeader, ReadFile,
                  WriteSocket, Abort, ReturnWith, Return, Goto, InLoop, InCall
    <2> QED  BY <2>1 DEF Control, InLoop, InCall, Dead
  <1>6. CASE \/ Select(w) \/ AcceptNothing(w) \/ AcceptConn(w) \/ DispatchReady(w)
             \/ SettleSending(w) \/ SettleComplete(w) \/ SettleRecoverable(w) \/ EndRound(w)
    <2>1. \E label \in InLoop \cup InCall : pc' = [pc EXCEPT ![w] = label]
      BY <1>6 DEF Select, AcceptNothing, AcceptConn, DispatchReady, SettleSending,
                  SettleComplete, SettleRecoverable, EndRound, Goto, InLoop, InCall
    <2> QED  BY <2>1 DEF Control, InLoop, InCall, Dead
  <1>7. CASE DispatchUnready(w)  BY <1>7 DEF DispatchUnready, Dead
  <1> QED
    BY <1>1, <1>2, <1>3, <1>4, <1>5, <1>6, <1>7 DEF WorkerStep, HandlerStep, LoopStep

\* Where a worker goes on, it has at most accepted a connection of its own.
LEMMA SocketsGrowOwn ==
  ASSUME Data, NEW w \in Workers, WorkerStep(w), NEW c \in Conns
  PROVE  /\ sock'[c] = "open" =>
              owner'[c] = w \/ (sock[c] = "open" /\ owner'[c] = owner[c])
         /\ sock'[c] = "backlog" => sock[c] = "backlog"
  <1>1. CASE AcceptConn(w)
    <2>1. PICK d \in Backlog :
            sock' = [sock EXCEPT ![d] = "open"] /\ owner' = [owner EXCEPT ![d] = w]
      BY <1>1 DEF AcceptConn
    <2> QED  BY <2>1 DEF Backlog, Data, SocketsTypeOK
  <1>2. CASE \/ SettleComplete(w)
    <2>1. owner' = owner /\ \A d \in Conns : sock'[d] \in {"closed", sock[d]}
      BY <1>2 DEF SettleComplete, Data, SocketsTypeOK
    <2> QED  BY <2>1
  <1>3. CASE \E how, lost : Die(w, how, lost)
    <2>1. owner' = owner /\ \A d \in Conns : sock'[d] \in {"closed", sock[d]}
      BY <1>3 DEF Die
    <2> QED  BY <2>1
  <1>4. CASE UNCHANGED <<sock, owner>>  BY <1>4
  <1>5. CASE HandlerStep(w)
    BY <1>3, <1>4, <1>5
    DEF HandlerStep, ReadAndParse, ReadEof, ReadError, Locate, OpenFile, SendHeader,
        SendHeaderFails, ReadFile, WriteSocket, WriteSocketFails, WriteFails, sockVars
  <1>6. CASE \/ Select(w) \/ AcceptNothing(w) \/ DispatchUnready(w) \/ DispatchReady(w)
             \/ SettleSending(w) \/ SettleRecoverable(w) \/ EndRound(w)
    BY <1>4, <1>6 DEF Select, AcceptNothing, DispatchUnready, DispatchReady, SettleSending,
                      SettleRecoverable, EndRound, sockVars
  <1>7. CASE AcceptFails(w) \/ OutOfMemory(w) \/ SettleWaiting(w)
    BY <1>3, <1>4, <1>7 DEF AcceptFails, OutOfMemory, AllocFails, SelectFails, SettleWaiting, sockVars
  <1> QED  BY <1>1, <1>2, <1>5, <1>6, <1>7 DEF WorkerStep, LoopStep

\* While a worker lives, the master listens too.
LEMMA ListeningBound == Base /\ Listening => listening
  <1> SUFFICES ASSUME Base, NEW w \in Workers, Alive(w) PROVE listening  BY DEF Listening
  <1>1. w \in MP!Ours  BY DEF Alive, MP!Ours
  <1>2. mpc \in {"fork", "sleep", "kill", "wait"}  BY <1>1 DEF Base, MP!IInv, MP!TypeOK
  <1> QED  BY <1>2 DEF Base, Held

LEMMA ClientHeld ==
  ASSUME Base, Client
  PROVE  Held'
  <1>1. UNCHANGED <<owner, mpc, listening, proc>>
    BY DEF Client, serverVars, masterVars
  <1>2. \A c \in Conns :
          sock'[c] = sock[c] \/ (sock'[c] = "backlog" /\ Listening)
    BY DEF Client, EditFile, ClientStep, Connect, SendRequest, Drain, Leave, Base, IInv,
           Data, SocketsTypeOK
  <1> QED  BY <1>1, <1>2, ListeningBound DEF Base, Held, Alive

LEMMA WorkerHeld ==
  ASSUME Base, NEW w \in Workers, Serve(w) \/ Sigkill(w)
  PROVE  Held'
  <1>1. UNCHANGED <<mpc, listening>>
    BY DEF Serve, Sigkill, masterVars, M!WorkerDies, M!WorkerEnds
  <1>2. \A v \in Workers \ {w} : proc'[v] = proc[v]
    BY DEF Serve, Sigkill, masterVars, M!WorkerDies, M!WorkerEnds, Base, MP!IInv, MP!TypeOK
  <1>3. \A c \in Conns : sock[c] = "open" => owner[c] \in Workers /\ Alive(owner[c])
    BY DEF Base, Held, IInv, Inv, FdOK
  <1>4. CASE Serve(w) /\ pc'[w] \notin Dead
    <2>1. UNCHANGED proc /\ Alive(w)  BY <1>4 DEF Serve, masterVars, M!WorkerDies, M!WorkerEnds
    <2>2. WorkerStep(w) /\ Data  BY <1>4 DEF Serve, Base, IInv
    <2> QED  BY <1>1, <1>3, <2>1, <2>2, SocketsGrowOwn DEF Base, Held, Alive
  <1>5. CASE \E how, lost : Die(w, how, lost) /\ lost \subseteq Backlog
    <2>1. /\ owner' = owner
          /\ \A c \in Conns : /\ sock'[c] \in {"closed", sock[c]}
                              /\ sock'[c] = "open" => owner[c] # w
      BY <1>5 DEF Die
    <2>2. \A c \in Conns : sock'[c] = "open" => Alive(owner[c]) /\ owner[c] \in Workers \ {w}
      BY <1>3, <2>1
    <2>3. \A c \in Conns : sock'[c] = "open" => proc'[owner'[c]] \in {"child", "dying"}
      BY <1>2, <2>1, <2>2 DEF Alive
    <2>4. \A c \in Conns : sock'[c] = "backlog" => listening'
      BY <1>1, <2>1 DEF Base, Held
    <2> QED  BY <1>1, <2>1, <2>3, <2>4 DEF Base, Held, Alive
  <1>6. CASE Serve(w) /\ pc'[w] \in Dead
    BY <1>5, <1>6, DeadByDie DEF Serve, Base, IInv
  <1>7. CASE Sigkill(w)  BY <1>5, <1>7 DEF Sigkill
  <1> QED  BY <1>4, <1>6, <1>7

LEMMA ManageHeld ==
  ASSUME Base, Manage
  PROVE  Held'
  <1>1. CASE GiveUp
    <2>1. /\ mpc' = "failed" /\ UNCHANGED <<owner, proc>>
          /\ sock' = [c \in Conns |-> IF c \in Backlog THEN "closed" ELSE sock[c]]
      BY <1>1 DEF GiveUp, M!GiveUp, serverVars
    <2>2. \A c \in Conns : sock'[c] # "backlog" /\ (sock'[c] = "open" => sock[c] = "open")
      BY <2>1 DEF Backlog
    <2> QED  BY <2>1, <2>2 DEF Base, Held, Alive
  <1>2. CASE UNCHANGED vars /\ ~GiveUp
    <2>1. UNCHANGED <<sock, owner>>  BY <1>2 DEF vars, sockVars
    <2>2. \A w \in Workers : Alive(w) => Alive(w)'
      <3>1. CASE \/ M!Validate \/ M!InitMaster \/ M!ForkFails \/ M!StartSleep \/ M!SkipPid
        BY <3>1 DEF M!Validate, M!InitMaster, M!ForkFails, M!StartSleep, M!SkipPid, Alive
      <3>2. CASE M!Fork
        BY <3>2 DEF M!Fork, Alive, Base, MP!IInv, MP!TypeOK
      <3>3. CASE M!KillPid
        BY <3>3 DEF M!KillPid, M!Killed, Alive, Base, MP!IInv, MP!TypeOK
      <3>4. CASE M!WaitPid
        BY <3>4 DEF M!WaitPid, Alive, Base, MP!IInv, MP!TypeOK
      <3> QED  BY <1>2, <3>1, <3>2, <3>3, <3>4 DEF Manage
    <2>3. /\ mpc' \in {"fork", "sleep", "kill", "wait"} => listening'
          /\ listening => listening'
      BY <1>2 DEF Manage, M!Validate, M!InitMaster, M!Fork, M!ForkFails, M!StartSleep,
                  M!SkipPid, M!KillPid, M!WaitPid, Base, Held
    <2>4. \A c \in Conns : sock[c] = "open" => owner[c] \in Workers
      BY DEF Base, IInv, Inv, FdOK
    <2>5. \A c \in Conns : sock'[c] = "open" => Alive(owner[c])'
      BY <2>1, <2>2, <2>4 DEF Base, Held, Alive
    <2> QED  BY <2>1, <2>3, <2>5 DEF Base, Held, Alive
  <1> QED  BY <1>1, <1>2 DEF Manage

LEMMA BaseNext == Base /\ [ServerNext]_allVars => Held'
  <1> SUFFICES ASSUME Base, [ServerNext]_allVars PROVE Held'  OBVIOUS
  <1>1. CASE UNCHANGED allVars
    BY <1>1 DEF allVars, vars, sockVars, masterVars, Base, Held, Alive
  <1> QED  BY <1>1, ClientHeld, WorkerHeld, ManageHeld DEF ServerNext

LEMMA BaseHere == ServerSpec => []Base
  <1>1. ServerInit => Held
    BY DEF ServerInit, Init, SocketsInit, M!Init, Held
  <1> QED  BY <1>1, BaseNext, WorkersHere, MasterInvHere, PTL DEF ServerSpec, Base

\* An open connection always has a live worker behind it, whoever is killed, and
\* the failure of run_server leaves nobody connected (server.c:115-127, 261-265).
THEOREM StrandedCorrect == ServerSpec => []NobodyStranded
  <1>1. Base /\ MP!NoOrphans => NobodyStranded
    <2> SUFFICES ASSUME Base, MP!NoOrphans, NEW c \in Conns
                 PROVE  /\ sock[c] = "open" => Alive(owner[c])
                        /\ mpc = "failed" => sock[c] \notin {"backlog", "open"}
      BY DEF NobodyStranded
    <2>1. sock[c] = "open" => owner[c] \in Workers  BY DEF Base, IInv, Inv, FdOK
    <2> QED  BY <2>1 DEF Base, Held, Alive, MP!NoOrphans, MP!Ours
  <1> QED  BY <1>1, BaseHere, MasterHere, PTL

\* kill_workers moves past no worker that still has a connection, and misses none,
\* however many workers there are and whichever of them has died or goes on
\* accepting (server.c:115-127, 257-272): the table and the index of the loop agree
\* with the process table, and the process table with the owners of the sockets.
THEOREM ReachCorrect == ServerSpec => []WithinReach
  <1>1. Base => WithinReach
    <2> SUFFICES ASSUME Base, NEW c \in Conns, sock[c] = "open"
                 PROVE  \E j \in ToVisit : pids[j] = owner[c]
      BY DEF WithinReach
    <2>1. owner[c] \in MP!Ours
      <3>1. owner[c] \in Workers  BY DEF Base, IInv, Inv, FdOK
      <3> QED  BY <3>1 DEF Base, Held, Alive, MP!Ours
    <2>2. MP!TypeOK /\ mpc \in {"fork", "sleep", "kill", "wait"} /\ MP!Agreement
      BY <2>1 DEF Base, MP!IInv, MP!TypeOK
    <2>3. PICK j \in MP!Window : pids[j] = owner[c]  BY <2>1, <2>2 DEF MP!Agreement
    <2>4. MP!Window = ToVisit  BY <2>2 DEF MP!Window, ToVisit
    <2> QED  BY <2>3, <2>4
  <1> QED  BY <1>1, BaseHere, PTL

-----------------------------------------------------------------------------
\* What the clients see of the whole program, as module Exchange promises it.

\* A worker that is killed, and the end of the start, excuse nobody anew.
LEMMA ServerNextExcused == Mapped /\ [ServerNext]_allVars => Excused'
  <1> SUFFICES ASSUME Mapped, [ServerNext]_allVars PROVE Excused'  OBVIOUS
  <1>1. CASE [Next]_vars  BY <1>1, NextExcused
  <1>2. CASE UNCHANGED <<peer, state, hdr>>  BY <1>2 DEF Mapped, Excused
  <1>3. CASE Client
    <2>1. EnvStep  BY <1>3 DEF Client, EnvStep
    <2> QED  BY <1>1, <2>1 DEF Next
  <1>4. CASE Manage
    <2>1. CASE GiveUp  BY <1>2, <2>1 DEF GiveUp, serverVars, connVars, outVars
    <2> QED  BY <1>1, <1>4, <2>1 DEF Manage
  <1>5. CASE \E w \in Workers : Serve(w)  BY <1>1, <1>5 DEF Serve, Next
  <1>6. CASE \E w \in Workers : Sigkill(w)  BY <1>2, <1>6 DEF Sigkill, Die
  <1>7. CASE UNCHANGED allVars  BY <1>1, <1>7 DEF allVars
  <1> QED  BY <1>3, <1>4, <1>5, <1>6, <1>7 DEF ServerNext

Seen == Base /\ Excused

LEMMA SeenHere == ServerSpec => []Seen
  <1>1. ServerInit => Excused  BY DEF ServerInit, Init, Excused
  <1>2. Base /\ Excused /\ [ServerNext]_allVars => Excused'
    BY ServerNextExcused DEF Base, Mapped
  <1> QED  BY <1>1, <1>2, BaseHere, PTL DEF ServerSpec, Seen

\* Where the port stays, module Exchange takes the steps it takes for the workers.
LEMMA SameStep ==
  ASSUME Promise!Next \/ UNCHANGED Promise!vars, Port' = Port,
         \A c \in Conns : sock[c] = "idle" /\ sock'[c] = "backlog" => Port = "bound"
  PROVE  Service!Next \/ UNCHANGED Service!vars
  <1>1. ASSUME NEW c \in Conns, Promise!Arrive(c) PROVE Service!Arrive(c)
    <2> DEFINE phase == [d \in Conns |-> Phase(sock[d])]
    <2>1. phase[c] = "outside" /\ phase' = [phase EXCEPT ![c] = "queued"]
      BY <1>1 DEF Promise!Arrive
    <2>2. phase'[c] = "queued"  BY <2>1
    <2>3. Phase(sock[c]) = "outside" /\ Phase(sock'[c]) = "queued"  BY <2>1, <2>2
    <2>4. sock[c] = "idle" /\ sock'[c] = "backlog"  BY <2>3 DEF Phase
    <2>5. Port = "bound"  BY <2>4
    <2> QED  BY <1>1, <2>5 DEF Promise!Arrive, Service!Arrive
  <1>2. ASSUME NEW c \in Conns
        PROVE  /\ Promise!GoAway(c) => Service!GoAway(c)
               /\ Promise!Take(c) => Service!Take(c)
               /\ Promise!Answer(c) => Service!Answer(c)
               /\ Promise!Deliver(c) => Service!Deliver(c)
               /\ Promise!Finish(c) => Service!Finish(c)
    BY DEF Promise!GoAway, Promise!Take, Promise!Answer, Promise!Deliver, Promise!Finish,
           Service!GoAway, Service!Take, Service!Answer, Service!Deliver, Service!Finish
  <1>3. ASSUME NEW w \in Workers, Promise!Crash(w) PROVE Service!Crash(w)
    BY <1>3 DEF Promise!Crash, Service!Crash
  <1>4. ~Promise!Bind /\ ~Promise!Refuse  BY DEF Promise!Bind, Promise!Refuse
  <1>5. UNCHANGED Promise!vars => UNCHANGED Service!vars
    BY DEF Promise!vars, Service!vars
  <1> QED  BY <1>1, <1>2, <1>3, <1>4, <1>5 DEF Promise!Next, Service!Next

LEMMA ClientSeen ==
  ASSUME Seen, Client
  PROVE  Service!Next \/ UNCHANGED Service!vars
  <1>1. UNCHANGED <<mpc, listening>>  BY DEF Client, masterVars
  <1>2. EnvStep  BY DEF Client, EnvStep
  <1>3. Promise!Next \/ UNCHANGED Promise!vars  BY <1>2, EnvMaps DEF Seen, Base, IInv
  <1>4. ASSUME NEW c \in Conns, sock[c] = "idle", sock'[c] = "backlog"
        PROVE  Port = "bound"
    <2>1. Listening
      BY <1>4 DEF Client, EditFile, ClientStep, Connect, SendRequest, Drain, Leave, Seen, Base,
                  IInv, Data, SocketsTypeOK
    <2>2. listening  BY <2>1, ListeningBound DEF Seen
    <2> QED  BY <2>2 DEF Port, Seen, Base, MP!IInv, MP!Shut
  <1> QED  BY <1>1, <1>3, <1>4, SameStep DEF Port

LEMMA WorkerSeen ==
  ASSUME Seen, NEW w \in Workers, Serve(w) \/ Sigkill(w)
  PROVE  Service!Next \/ UNCHANGED Service!vars
  <1>1. UNCHANGED <<mpc, listening>>
    BY DEF Serve, Sigkill, masterVars, M!WorkerDies, M!WorkerEnds
  <1>2. Promise!Next \/ UNCHANGED Promise!vars
    <2>1. CASE Serve(w)  BY <2>1, WorkerMaps DEF Serve, Seen, Base, IInv
    <2>2. CASE Sigkill(w)
      <3>1. Die(w, "killed", {})  BY <2>2 DEF Sigkill
      <3>2. Promise!Crash(w)  BY <3>1, DieMaps
      <3> QED  BY <3>2 DEF Promise!Next
    <2> QED  BY <2>1, <2>2
  <1>3. \A c \in Conns : sock'[c] = "backlog" => sock[c] = "backlog"
    <2>1. CASE Serve(w)  BY <2>1, SocketsGrowOwn DEF Serve, Seen, Base, IInv
    <2>2. CASE Sigkill(w)  BY <2>2 DEF Sigkill, Die
    <2> QED  BY <2>1, <2>2
  <1> QED  BY <1>1, <1>2, <1>3, SameStep DEF Port

\* The port goes with the master, and by then no worker is left to serve anybody.
LEMMA RefuseSeen ==
  ASSUME Seen, mpc # "failed", mpc' = "failed", MP!Ours = {},
         sock' = [c \in Conns |-> IF c \in Backlog THEN "closed" ELSE sock[c]],
         UNCHANGED <<peer, owner, hdr, wire>>
  PROVE  Service!Refuse
  <1> DEFINE phase == [c \in Conns |-> Phase(sock[c])]
  <1>1. Port # "gone" /\ Port' = "gone"  BY DEF Port
  <1>2. \A c \in Conns : phase[c] # "served"
    <2> SUFFICES ASSUME NEW c \in Conns, sock[c] = "open" PROVE FALSE  BY DEF Phase
    <2>1. owner[c] \in Workers /\ Alive(owner[c])
      BY DEF Seen, Base, Held, IInv, Inv, FdOK
    <2> QED  BY <2>1 DEF Alive, MP!Ours
  <1>3. \A c \in Conns : Phase(sock'[c]) = IF phase[c] = "queued" THEN "closed" ELSE phase[c]
    BY DEF Phase, Backlog
  <1>4. phase' = [c \in Conns |-> IF phase[c] = "queued" THEN "closed" ELSE phase[c]]
    BY <1>3
  <1> QED  BY <1>1, <1>2, <1>4 DEF Service!Refuse

LEMMA ManageSeen ==
  ASSUME Seen, Manage
  PROVE  Service!Next \/ UNCHANGED Service!vars
  <1>1. CASE GiveUp
    <2>1. /\ mpc = "kill" /\ i = process_count /\ mpc' = "failed"
          /\ sock' = [c \in Conns |-> IF c \in Backlog THEN "closed" ELSE sock[c]]
          /\ UNCHANGED <<peer, owner, hdr, wire>>
      BY <1>1 DEF GiveUp, M!GiveUp, serverVars, outVars
    <2>2. process_count \in Nat  BY ServerAssumption DEF Seen, Base, MP!IInv, MP!TypeOK
    <2>3. MP!Window = {}  BY <2>1, <2>2 DEF MP!Window
    <2>4. MP!Ours = {}  BY <2>1, <2>3 DEF Seen, Base, MP!IInv, MP!Agreement
    <2> QED  BY <2>1, <2>4, RefuseSeen DEF Service!Next
  <1>2. CASE UNCHANGED vars
    <2>1. UNCHANGED <<sock, peer, owner, hdr, wire>>
      BY <1>2 DEF vars, sockVars, outVars
    <2>2. CASE mpc \in {"validate", "init"} /\ mpc' = "failed"
      <3>1. \A c \in Conns : c \notin Backlog
        BY <2>2 DEF Backlog, Seen, Base, Held, MP!IInv, MP!Shut
      <3>2. sock' = [c \in Conns |-> IF c \in Backlog THEN "closed" ELSE sock[c]]
        BY <2>1, <3>1 DEF Seen, Base, IInv, Data, SocketsTypeOK
      <3>3. MP!Ours = {}  BY <2>2 DEF Seen, Base, MP!IInv
      <3> QED  BY <2>1, <2>2, <3>2, <3>3, RefuseSeen DEF Service!Next
    <2>3. CASE mpc = "init" /\ mpc' = "fork" /\ listening'
      <3>1. Port = "unbound" /\ Port' = "bound"
        BY <2>3 DEF Port, Seen, Base, MP!IInv, MP!Shut
      <3> QED  BY <2>1, <3>1 DEF Service!Bind, Service!Next
    <2>4. CASE mpc # "failed" /\ mpc' # "failed" /\ listening' = listening
      BY <2>1, <2>4 DEF Port, Service!vars
    <2>5. CASE GiveUp  BY <1>1, <2>5
    <2> QED
      BY <1>2, <2>2, <2>3, <2>4, <2>5
      DEF Manage, M!Validate, M!InitMaster, M!Fork, M!ForkFails, M!StartSleep, M!SkipPid,
          M!KillPid, M!WaitPid
  <1> QED  BY <1>1, <1>2 DEF Manage

\* For any number of processes and connections, master, workers and kernel
\* together implement module Exchange: whatever fails at the start and whoever
\* is killed, every connection is served by one worker, answered once, in order,
\* and the listening socket is not given up under a connection that is being
\* served (server.c:115-127, 256-276, with the loop and the handlers).
THEOREM PromiseServed == ServerSpec => ServesAsPromised
  <1>1. ServerInit => Service!Init
    <2> SUFFICES ASSUME ServerInit PROVE Service!Init  OBVIOUS
    <2>1. Promise!Init  BY InitMaps DEF ServerInit
    <2>2. Port = "unbound"  BY DEF ServerInit, M!Init, Port
    <2> QED  BY <2>1, <2>2 DEF Promise!Init, Service!Init
  <1>2. Seen /\ [ServerNext]_allVars => [Service!Next]_(Service!vars)
    <2> SUFFICES ASSUME Seen, [ServerNext]_allVars
                 PROVE  Service!Next \/ UNCHANGED Service!vars
      OBVIOUS
    <2>1. CASE UNCHANGED allVars
      BY <2>1 DEF allVars, vars, sockVars, outVars, masterVars, Port, Service!vars
    <2> QED  BY <2>1, ClientSeen, WorkerSeen, ManageSeen DEF ServerNext
  <1>3. ServerSpec => Service!Spec
    BY <1>1, <1>2, SeenHere, PTL DEF ServerSpec, Service!Spec
  <1> QED  BY <1>3 DEF ServesAsPromised
=============================================================================
