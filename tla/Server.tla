------------------------------- MODULE Server -------------------------------
(***************************************************************************)
(* The whole program: the master of module Master forks processes, each of *)
(* which runs the event loop of module Worker.  They meet in three places: *)
(* a worker serves from the fork to its end; the master may kill it in the *)
(* middle of whatever it does; and all of them hold the listening socket,  *)
(* which exists as long as one of them does.                               *)
(*                                                                         *)
(* Abstraction: no stranger takes a process id here (module Master is      *)
(* about that), so every id is free until the master's fork takes it.      *)
(***************************************************************************)
EXTENDS Worker

CONSTANT MaxProcesses  \* bound on settings->process_count

ASSUME ServerAssumption ==
  /\ -1 \notin Workers
  /\ MaxProcesses \in Nat

VARIABLES process_count, valid, mpc, listening, pids, i, proc

M == INSTANCE Master WITH Pids <- Workers

masterVars == <<process_count, valid, mpc, listening, pids, i, proc>>
allVars    == <<vars, masterVars>>

ServerInit ==
  /\ Init
  /\ M!Init
  /\ proc = [w \in Workers |-> "free"]

-----------------------------------------------------------------------------
\* A process that is to be killed may still take a step.
Alive(w) == proc[w] \in {"child", "dying"}

Listening == listening \/ \E w \in Workers : Alive(w)

Client ==
  /\ EditFile \/ \E c \in Conns : (sock[c] = "idle" => Listening) /\ ClientStep(c)
  /\ UNCHANGED <<serverVars, masterVars>>

\* run_child: the worker leaves its loop only by the end of its process.
Serve(w) ==
  /\ Alive(w)
  /\ WorkerStep(w)
  /\ \/ pc'[w] \notin Dead /\ UNCHANGED masterVars
     \/ pc'[w] \in Dead /\ (M!WorkerDies(w) \/ M!WorkerEnds(w))

\* SIGKILL arrives, between any two steps of the worker.
Sigkill(w) == M!WorkerEnds(w) /\ Die(w, "killed", {})

\* Mutant: after the failure of run_server the process goes on, and with it the
\* listening socket, which run_server never closes.
GiveUpKeeping == M!GiveUp /\ UNCHANGED vars

\* run_server fails and main ends: the listening socket goes with the master, the
\* last process to hold it, and the kernel drops what is in the backlog.
GiveUp ==
  /\ M!GiveUp
  /\ sock' = [c \in Conns |-> IF c \in Backlog THEN "closed" ELSE sock[c]]
  /\ UNCHANGED <<peer, rx, sndq, fsize, edited, serverVars>>

\* run_server up to its endless sleep.
Manage ==
  \/ GiveUp
  \/ /\ \/ M!Validate \/ M!InitMaster \/ M!Fork \/ M!ForkFails \/ M!StartSleep
        \/ M!SkipPid \/ M!KillPid \/ M!WaitPid
     /\ UNCHANGED vars

ServerNext == Client \/ Manage \/ \E w \in Workers : Serve(w) \/ Sigkill(w)

ServerSpec == ServerInit /\ [][ServerNext]_allVars

\* A process that is not blocked runs, a killed one ends, and a cooperative client
\* sends and reads.  Nothing forces a client to connect or a fork or a select to
\* fail: a worker that waits in select is not scheduled until there is an answer.
ServerFairSpec ==
  /\ ServerSpec
  /\ WF_allVars(Manage)
  /\ \A w \in Workers : WF_allVars(Serve(w) /\ ~SelectFails(w)) /\ WF_allVars(Sigkill(w))
  /\ \A c \in Coop : /\ WF_allVars(SendRequest(c) /\ UNCHANGED <<serverVars, masterVars>>)
                     /\ WF_allVars(Drain(c) /\ UNCHANGED <<serverVars, masterVars>>)
=============================================================================
