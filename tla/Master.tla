------------------------------- MODULE Master -------------------------------
(***************************************************************************)
(* server.c: the master process, from run_server to the endless sleep or   *)
(* the return of false.  It forks the workers; if a fork fails it kills    *)
(* those it has.  What a worker does is the subject of module Worker; here *)
(* it runs until it dies.  The process table is the kernel's, and other    *)
(* processes take and free entries of it at any time.                      *)
(***************************************************************************)
EXTENDS Integers, FiniteSets

CONSTANTS
  Pids,         \* the process ids there are
  MaxProcesses  \* bound on settings->process_count

ASSUME MasterAssumption ==
  /\ -1 \notin Pids
  /\ MaxProcesses \in Nat

VARIABLES
  process_count,  \* settings->process_count
  valid,          \* are uri_length_limit and listen_backlog not 0?
  mpc,            \* where the master is; "failed": run_server has returned false
  listening,      \* is the listening socket open?
  pids,           \* state->pids
  i,              \* the counter of the loop the master is in
  proc            \* the process table

vars == <<process_count, valid, mpc, listening, pids, i, proc>>

settingsVars == <<process_count, valid>>

Index == 0..(process_count - 1)

Init ==
  /\ process_count \in 0..MaxProcesses
  /\ valid \in BOOLEAN
  /\ mpc = "validate"
  /\ listening = FALSE
  /\ pids = <<>>
  /\ i = 0
  /\ proc \in [Pids -> {"free", "other"}]

-----------------------------------------------------------------------------
\* The master.

\* validate_settings
Validate ==
  /\ mpc = "validate"
  /\ mpc' = IF process_count # 0 /\ valid THEN "init" ELSE "failed"
  /\ UNCHANGED <<settingsVars, listening, pids, i, proc>>

\* Mutant: the table is not filled.
UnsetTable == [j \in Index |-> CHOOSE p \in Pids : TRUE]

EmptyTable == [j \in Index |-> -1]

\* init_master: memory for the table, then init_socket, which leaves no socket
\* behind where one of its calls fails.
InitMaster ==
  /\ mpc = "init"
  /\ \/ /\ pids' = EmptyTable
        /\ listening' = TRUE
        /\ mpc' = "fork"
     \/ mpc' = "failed" /\ UNCHANGED <<pids, listening>>
  /\ UNCHANGED <<settingsVars, i, proc>>

\* Mutant: every child is recorded in the first entry.
RecordFirst(p) == pids' = [pids EXCEPT ![0] = p]

Record(p) == pids' = [pids EXCEPT ![i] = p]

Fork ==
  /\ mpc = "fork" /\ i < process_count
  /\ \E p \in Pids :
       /\ proc[p] = "free"
       /\ proc' = [proc EXCEPT ![p] = "child"]
       /\ Record(p)
  /\ i' = i + 1
  /\ UNCHANGED <<settingsVars, mpc, listening>>

\* run_master calls kill_workers.
ForkFails ==
  /\ mpc = "fork" /\ i < process_count
  /\ mpc' = "kill" /\ i' = 0
  /\ UNCHANGED <<settingsVars, listening, pids, proc>>

StartSleep ==
  /\ mpc = "fork" /\ i = process_count
  /\ mpc' = "sleep"
  /\ UNCHANGED <<settingsVars, listening, pids, i, proc>>

SkipPid ==
  /\ mpc = "kill" /\ i < process_count /\ pids[i] = -1
  /\ i' = i + 1
  /\ UNCHANGED <<settingsVars, mpc, listening, pids, proc>>

\* Mutant: a signal that the worker may ignore.
Ignored(s) == s

\* SIGKILL hits whoever has the pid; a zombie does not mind.
Killed(s) ==
  CASE s = "child" -> "dying"
    [] s = "other" -> "free"
    [] OTHER       -> s

KillPid ==
  /\ mpc = "kill" /\ i < process_count /\ pids[i] # -1
  /\ proc' = [proc EXCEPT ![pids[i]] = Killed(@)]
  /\ mpc' = "wait"
  /\ UNCHANGED <<settingsVars, listening, pids, i>>

\* Mutant: the loop does not wait for the worker it has killed.
WaitPidNoHang ==
  /\ mpc = "wait"
  /\ i' = i + 1 /\ mpc' = "kill"
  /\ UNCHANGED <<settingsVars, listening, pids, proc>>

\* waitpid returns when the child has ended, or at once where there is none.
WaitPid ==
  /\ mpc = "wait" /\ proc[pids[i]] \notin {"child", "dying"}
  /\ proc' = [proc EXCEPT ![pids[i]] = IF @ = "zombie" THEN "free" ELSE @]
  /\ i' = i + 1 /\ mpc' = "kill"
  /\ UNCHANGED <<settingsVars, listening, pids>>

\* run_server returns false, and main ends the process.
GiveUp ==
  /\ mpc = "kill" /\ i = process_count
  /\ mpc' = "failed" /\ listening' = FALSE
  /\ UNCHANGED <<settingsVars, pids, i, proc>>

MasterStep ==
  \/ Validate \/ InitMaster \/ Fork \/ ForkFails \/ StartSleep
  \/ SkipPid \/ KillPid \/ WaitPid \/ GiveUp

-----------------------------------------------------------------------------
\* Everybody else.

\* A worker has been killed.
WorkerEnds(p) ==
  /\ proc[p] = "dying" /\ proc' = [proc EXCEPT ![p] = "zombie"]
  /\ UNCHANGED <<settingsVars, mpc, listening, pids, i>>

\* A worker exits or crashes (the dead states of module Worker).
WorkerDies(p) ==
  /\ proc[p] = "child" /\ proc' = [proc EXCEPT ![p] = "zombie"]
  /\ UNCHANGED <<settingsVars, mpc, listening, pids, i>>

StrangerStarts(p) ==
  /\ proc[p] = "free" /\ proc' = [proc EXCEPT ![p] = "other"]
  /\ UNCHANGED <<settingsVars, mpc, listening, pids, i>>

StrangerEnds(p) ==
  /\ proc[p] = "other" /\ proc' = [proc EXCEPT ![p] = "free"]
  /\ UNCHANGED <<settingsVars, mpc, listening, pids, i>>

OthersStep ==
  \E p \in Pids : WorkerEnds(p) \/ WorkerDies(p) \/ StrangerStarts(p) \/ StrangerEnds(p)

Next == MasterStep \/ OthersStep

Spec == Init /\ [][Next]_vars

\* The master is scheduled, and SIGKILL is delivered; no worker need die and no
\* stranger need end.
FairSpec == Spec /\ WF_vars(MasterStep) /\ \A p \in Pids : WF_vars(WorkerEnds(p))

-----------------------------------------------------------------------------
\* Properties.

Ours == {p \in Pids : proc[p] \in {"child", "dying", "zombie"}}

TypeOK ==
  /\ process_count \in 0..MaxProcesses
  /\ valid \in BOOLEAN
  /\ mpc \in {"validate", "init", "fork", "sleep", "kill", "wait", "failed"}
  /\ listening \in BOOLEAN
  /\ pids \in {<<>>} \cup [Index -> Pids \cup {-1}]
  /\ i \in 0..process_count
  /\ proc \in [Pids -> {"free", "other", "child", "dying", "zombie"}]

\* kill_workers signals no process but the master's own children: the pid of a
\* worker that has died long ago is not given to another process, because nobody
\* but kill_workers waits for it.
KillsOnlyChildren ==
  [][\A p \in Pids : mpc = "kill" /\ mpc' = "wait" /\ pids[i] = p =>
       proc[p] \in {"child", "zombie"}]_vars

\* When run_server reports a failure, it leaves no worker behind, neither running
\* and holding the port nor as a zombie.
NoOrphans == mpc = "failed" => Ours = {} /\ ~listening

\* The master knows every worker: those it has not waited for are the entries of
\* its table, each under a pid of its own.
TableComplete ==
  mpc \in {"fork", "sleep"} =>
    /\ Ours = {pids[j] : j \in 0..(i - 1)}
    /\ Cardinality(Ours) = i

\* run_server does not hang before it serves or fails: waitpid always returns,
\* whatever state the worker it waits for was in.
Decides == (mpc = "validate") ~> (mpc \in {"sleep", "failed"})
=============================================================================
