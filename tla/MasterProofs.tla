---------------------------- MODULE MasterProofs ----------------------------
(***************************************************************************)
(* Proofs about the master process: its table of pids and the processes    *)
(* that are its children agree, from the first fork to the last waitpid.   *)
(***************************************************************************)
EXTENDS Master, FiniteSetTheorems, TLAPS

\* The entries of the table that stand for workers not yet waited for.
Window ==
  IF mpc \in {"fork", "sleep"} THEN 0..(i - 1)
  ELSE IF mpc \in {"kill", "wait"} THEN i..(process_count - 1) ELSE {}

\* Those entries are the children, and no child is in the table twice.
Agreement ==
  /\ Ours = {pids[j] : j \in Window} \ {-1}
  /\ \A j, k \in Index : pids[j] = pids[k] /\ pids[j] # -1 => j = k

Allocated ==
  mpc \in {"fork", "sleep", "kill", "wait"} => pids \in [Index -> Pids \cup {-1}]

\* While the master forks, the table is filled up to i.
Filled ==
  mpc \in {"fork", "sleep"} =>
    /\ \A j \in Index : pids[j] # -1 <=> j < i
    /\ IsFiniteSet(Ours) /\ Cardinality(Ours) = i

\* A worker under SIGKILL is the one the master waits for.
Waiting ==
  /\ \A p \in Pids : proc[p] = "dying" => mpc = "wait" /\ pids[i] = p
  /\ mpc = "wait" => /\ i \in Index /\ pids[i] \in Pids
                     /\ proc[pids[i]] \in {"dying", "zombie"}

Shut ==
  /\ mpc = "init" => i = 0 /\ pids = <<>>
  /\ mpc = "validate" => i = 0 /\ pids = <<>>
  /\ mpc \in {"validate", "init", "failed"} => ~listening

IInv ==
  /\ TypeOK
  /\ mpc \in {"validate", "init", "failed"} => Ours = {}
  /\ mpc \in {"fork", "sleep", "kill", "wait"} => Agreement
  /\ Allocated /\ Filled /\ Waiting /\ Shut

LEMMA Numbers ==
  ASSUME TypeOK
  PROVE  process_count \in Nat /\ i \in Nat /\ i <= process_count
  BY MasterAssumption DEF TypeOK

LEMMA InitOK == Init => IInv
  <1> SUFFICES ASSUME Init PROVE IInv  OBVIOUS
  <1>1. TypeOK
    <2>1. process_count \in 0..MaxProcesses /\ valid \in BOOLEAN
          /\ mpc = "validate" /\ listening = FALSE
      BY DEF Init
    <2>2. i \in 0..process_count  BY MasterAssumption DEF Init
    <2>3. proc \in [Pids -> {"free", "other", "child", "dying", "zombie"}]
      BY DEF Init
    <2>4. pids = <<>>  BY DEF Init
    <2> QED  BY <2>1, <2>2, <2>3, <2>4 DEF TypeOK
  <1>2. Ours = {}  BY DEF Init, Ours
  <1>3. Waiting  BY DEF Init, Waiting
  <1> QED  BY <1>1, <1>2, <1>3 DEF Init, IInv, Allocated, Filled, Shut

LEMMA ValidateOK == ASSUME IInv, Validate PROVE IInv'
  <1>1. TypeOK'  BY DEF IInv, TypeOK, Validate, settingsVars, Index
  <1>2. Ours' = Ours  BY DEF Validate, Ours
  <1> QED
    BY <1>1, <1>2 DEF IInv, Validate, Allocated, Filled, Waiting, Shut

LEMMA InitMasterOK == ASSUME IInv, InitMaster PROVE IInv'
  <1>1. TypeOK'
    <2>1. EmptyTable \in [Index -> Pids \cup {-1}]  BY DEF EmptyTable
    <2>2. Index' = Index  BY DEF InitMaster, settingsVars, Index
    <2> QED  BY <2>1, <2>2 DEF IInv, TypeOK, InitMaster, settingsVars
  <1>2. Ours' = {}  BY DEF IInv, InitMaster, Ours
  <1>3. CASE pids' = EmptyTable /\ listening' = TRUE /\ mpc' = "fork"
    <2>1. i' = 0 /\ process_count' = process_count /\ Index' = Index
      BY DEF InitMaster, settingsVars, IInv, Shut, Index
    <2>2. Window' = {}  BY <1>3, <2>1 DEF Window
    <2>3. Agreement'  BY <1>2, <1>3, <2>1, <2>2 DEF Agreement, EmptyTable
    <2>4. Allocated'  BY <1>3, <2>1 DEF Allocated, EmptyTable
    <2>5. Filled'
      BY <1>2, <1>3, <2>1, FS_EmptySet DEF Filled, EmptyTable, Index
    <2>6. Waiting' /\ Shut'
      BY <1>3 DEF IInv, Waiting, Shut, InitMaster
    <2> QED  BY <1>1, <1>3, <2>3, <2>4, <2>5, <2>6 DEF IInv
  <1>4. CASE mpc' = "failed" /\ UNCHANGED <<pids, listening>>
    BY <1>1, <1>2, <1>4 DEF InitMaster, IInv, Allocated, Filled, Waiting, Shut
  <1> QED  BY <1>3, <1>4 DEF InitMaster

LEMMA ForkOK == ASSUME IInv, Fork PROVE IInv'
  <1>1. PICK p \in Pids :
          /\ proc[p] = "free" /\ proc' = [proc EXCEPT ![p] = "child"]
          /\ pids' = [pids EXCEPT ![i] = p]
    BY DEF Fork, Record
  <1>2. /\ process_count \in Nat /\ i \in Nat /\ i < process_count /\ i' = i + 1
        /\ process_count' = process_count /\ Index' = Index /\ mpc = "fork" /\ mpc' = "fork"
    BY Numbers DEF IInv, Fork, settingsVars, Index
  <1>3. i \in Index  BY <1>2 DEF Index
  <1>4. pids \in [Index -> Pids \cup {-1}]  BY <1>2 DEF IInv, Allocated
  <1>5. /\ pids' \in [Index -> Pids \cup {-1}]
        /\ pids'[i] = p /\ \A j \in Index : j # i => pids'[j] = pids[j]
    BY <1>1, <1>3, <1>4
  <1>6. Ours' = Ours \cup {p} /\ p \notin Ours
    BY <1>1 DEF Ours, IInv, TypeOK
  <1>7. TypeOK'
    BY <1>1, <1>2, <1>5 DEF IInv, TypeOK, Fork, settingsVars
  <1>8. p # -1  BY <1>1, MasterAssumption
  <1>9. Filled'
    <2>1. \A j \in Index : pids'[j] # -1 <=> j < i + 1
      <3>1. \A j \in Index : pids[j] # -1 <=> j < i  BY <1>2 DEF IInv, Filled
      <3>2. ASSUME NEW j \in Index PROVE pids'[j] # -1 <=> j < i + 1
        <4>1. j \in Int  BY <3>2 DEF Index
        <4>2. CASE j = i  BY <1>2, <1>5, <1>8, <4>2
        <4>3. CASE j # i  BY <1>2, <1>5, <3>1, <4>1, <4>3
        <4> QED  BY <4>2, <4>3
      <3> QED  BY <3>2
    <2>2. IsFiniteSet(Ours') /\ Cardinality(Ours') = i + 1
      BY <1>2, <1>6, FS_AddElement DEF IInv, Filled
    <2> QED  BY <1>2, <2>1, <2>2 DEF Filled
  <1>10. Agreement'
    <2>1. Window = 0..(i - 1) /\ Window' = 0..i  BY <1>2 DEF Window
    <2>2. Ours = {pids[j] : j \in Window} \ {-1}  BY <1>2 DEF IInv, Agreement
    <2>3. Window \subseteq Index /\ i \notin Window /\ Window' = Window \cup {i}
      BY <1>2, <2>1 DEF Index
    <2>4. {pids'[j] : j \in Window'} = {pids[j] : j \in Window} \cup {p}
      BY <1>5, <2>3
    <2>5. Ours' = {pids'[j] : j \in Window'} \ {-1}
      BY <1>6, <1>8, <2>2, <2>4
    <2>6. \A j, k \in Index : pids'[j] = pids'[k] /\ pids'[j] # -1 => j = k
      <3>1. \A j \in Index : pids[j] # p
        <4>1. \A j \in Index : pids[j] # -1 => j \in Window
          BY <1>2, <2>1 DEF IInv, Filled, Index
        <4> QED  BY <1>6, <1>8, <2>2, <4>1
      <3>2. \A j, k \in Index : pids[j] = pids[k] /\ pids[j] # -1 => j = k
        BY <1>2 DEF IInv, Agreement
      <3> QED  BY <1>5, <3>1, <3>2
    <2> QED  BY <1>2, <2>5, <2>6 DEF Agreement
  <1>11. Waiting'
    <2>1. \A q \in Pids : proc'[q] # "dying"
      BY <1>1, <1>2 DEF IInv, Waiting, TypeOK
    <2> QED  BY <1>2, <2>1 DEF Waiting
  <1> QED  BY <1>2, <1>5, <1>7, <1>9, <1>10, <1>11 DEF IInv, Allocated, Shut

LEMMA ForkFailsOK == ASSUME IInv, ForkFails PROVE IInv'
  <1>1. /\ process_count \in Nat /\ i \in Nat /\ i < process_count /\ i' = 0
        /\ process_count' = process_count /\ Index' = Index /\ mpc = "fork" /\ mpc' = "kill"
        /\ pids' = pids /\ proc' = proc
    BY Numbers DEF IInv, ForkFails, settingsVars, Index
  <1>2. Ours' = Ours  BY <1>1 DEF Ours
  <1>3. TypeOK'
    BY <1>1 DEF IInv, TypeOK, ForkFails, settingsVars
  <1>4. Agreement'
    <2>1. Window = 0..(i - 1) /\ Window' = Index  BY <1>1 DEF Window, Index
    <2>2. Window \subseteq Index /\ \A j \in Index : pids[j] # -1 => j \in Window
      BY <1>1, <2>1 DEF IInv, Filled, Index
    <2>3. {pids[j] : j \in Window} \ {-1} = {pids[j] : j \in Index} \ {-1}
      BY <2>2
    <2> QED  BY <1>1, <1>2, <2>1, <2>3 DEF IInv, Agreement
  <1>5. Waiting'  BY <1>1 DEF IInv, Waiting
  <1> QED  BY <1>1, <1>3, <1>4, <1>5 DEF IInv, Allocated, Filled, Shut

LEMMA StartSleepOK == ASSUME IInv, StartSleep PROVE IInv'
  <1>1. /\ mpc = "fork" /\ mpc' = "sleep" /\ i' = i /\ process_count' = process_count
        /\ Index' = Index /\ pids' = pids /\ proc' = proc
    BY DEF StartSleep, settingsVars, Index
  <1>2. Ours' = Ours /\ Window' = Window  BY <1>1 DEF Ours, Window
  <1>3. TypeOK'  BY <1>1 DEF IInv, TypeOK, StartSleep, settingsVars
  <1> QED
    BY <1>1, <1>2, <1>3 DEF IInv, Agreement, Allocated, Filled, Waiting, Shut

LEMMA SkipPidOK == ASSUME IInv, SkipPid PROVE IInv'
  <1>1. /\ process_count \in Nat /\ i \in Nat /\ i < process_count /\ i' = i + 1
        /\ process_count' = process_count /\ Index' = Index /\ mpc = "kill" /\ mpc' = "kill"
        /\ pids' = pids /\ proc' = proc /\ pids[i] = -1
    BY Numbers DEF IInv, SkipPid, settingsVars, Index
  <1>2. Ours' = Ours  BY <1>1 DEF Ours
  <1>3. TypeOK'  BY <1>1 DEF IInv, TypeOK, SkipPid, settingsVars
  <1>4. Agreement'
    <2>1. Window = i..(process_count - 1) /\ Window' = (i + 1)..(process_count - 1)
      BY <1>1 DEF Window
    <2>2. Window = Window' \cup {i}  BY <1>1, <2>1
    <2>3. {pids[j] : j \in Window} \ {-1} = {pids[j] : j \in Window'} \ {-1}
      BY <1>1, <2>2
    <2> QED  BY <1>1, <1>2, <2>3 DEF IInv, Agreement
  <1>5. Waiting'  BY <1>1 DEF IInv, Waiting
  <1> QED  BY <1>1, <1>3, <1>4, <1>5 DEF IInv, Allocated, Filled, Shut

\* kill_workers signals a child, and one that it has not signalled before.
LEMMA KillsChild ==
  ASSUME IInv, mpc = "kill", i < process_count, pids[i] # -1
  PROVE  i \in Index /\ pids[i] \in Pids /\ proc[pids[i]] \in {"child", "zombie"}
  <1>1. process_count \in Nat /\ i \in Nat  BY Numbers DEF IInv
  <1>2. i \in Index /\ i \in Window  BY <1>1 DEF Index, Window
  <1>3. pids[i] \in Ours  BY <1>2 DEF IInv, Agreement
  <1> QED  BY <1>2, <1>3 DEF IInv, Ours, Waiting

LEMMA KillPidOK == ASSUME IInv, KillPid PROVE IInv'
  <1>1. /\ mpc = "kill" /\ mpc' = "wait" /\ i' = i /\ process_count' = process_count
        /\ Index' = Index /\ pids' = pids
        /\ proc' = [proc EXCEPT ![pids[i]] = Killed(@)]
    BY DEF KillPid, settingsVars, Index
  <1>2. i \in Index /\ pids[i] \in Pids /\ proc[pids[i]] \in {"child", "zombie"}
    BY KillsChild DEF KillPid
  <1>3. /\ proc' \in [Pids -> {"free", "other", "child", "dying", "zombie"}]
        /\ proc'[pids[i]] \in {"dying", "zombie"}
        /\ \A q \in Pids : q # pids[i] => proc'[q] = proc[q]
    BY <1>1, <1>2 DEF Killed, IInv, TypeOK
  <1>4. Ours' = Ours  BY <1>2, <1>3 DEF Ours
  <1>5. TypeOK'  BY <1>1, <1>3 DEF IInv, TypeOK, KillPid, settingsVars
  <1>6. Agreement'
    <2>1. Window' = Window  BY <1>1 DEF Window
    <2> QED  BY <1>1, <1>4, <2>1 DEF IInv, Agreement
  <1>7. Waiting'  BY <1>1, <1>2, <1>3 DEF IInv, Waiting
  <1> QED  BY <1>1, <1>5, <1>6, <1>7 DEF IInv, Allocated, Filled, Shut

LEMMA WaitPidOK == ASSUME IInv, WaitPid PROVE IInv'
  <1>1. /\ process_count \in Nat /\ i \in Nat /\ i' = i + 1
        /\ process_count' = process_count /\ Index' = Index /\ mpc = "wait" /\ mpc' = "kill"
        /\ pids' = pids
    BY Numbers DEF IInv, WaitPid, settingsVars, Index
  <1>2. i \in Index /\ pids[i] \in Pids /\ proc[pids[i]] = "zombie" /\ pids[i] # -1
    BY <1>1, MasterAssumption DEF WaitPid, IInv, Waiting
  <1>3. /\ proc' \in [Pids -> {"free", "other", "child", "dying", "zombie"}]
        /\ proc'[pids[i]] = "free"
        /\ \A q \in Pids : q # pids[i] => proc'[q] = proc[q]
    BY <1>1, <1>2 DEF WaitPid, IInv, TypeOK
  <1>4. Ours' = Ours \ {pids[i]}  BY <1>2, <1>3 DEF Ours
  <1>5. TypeOK'
    <2>1. i < process_count  BY <1>1, <1>2 DEF Index
    <2> QED  BY <1>1, <1>3, <2>1 DEF IInv, TypeOK, WaitPid, settingsVars
  <1>6. Agreement'
    <2>1. Window = i..(process_count - 1) /\ Window' = (i + 1)..(process_count - 1)
      BY <1>1 DEF Window
    <2>2. Window = Window' \cup {i} /\ i \notin Window' /\ Window \subseteq Index
      BY <1>1, <1>2, <2>1 DEF Index
    <2>3. /\ Ours = {pids[j] : j \in Window} \ {-1}
          /\ \A j, k \in Index : pids[j] = pids[k] /\ pids[j] # -1 => j = k
      BY <1>1 DEF IInv, Agreement
    <2>4. \A j \in Window' : pids[j] # pids[i]  BY <1>2, <2>2, <2>3
    <2>5. Ours' = {pids[j] : j \in Window'} \ {-1}
      BY <1>4, <2>2, <2>3, <2>4
    <2> QED  BY <1>1, <2>3, <2>5 DEF Agreement
  <1>7. Waiting'  BY <1>1, <1>2, <1>3 DEF IInv, Waiting
  <1> QED  BY <1>1, <1>5, <1>6, <1>7 DEF IInv, Allocated, Filled, Shut

LEMMA GiveUpOK == ASSUME IInv, GiveUp PROVE IInv'
  <1>1. /\ mpc = "kill" /\ mpc' = "failed" /\ i = process_count /\ ~listening'
        /\ UNCHANGED <<settingsVars, pids, i, proc>>
    BY DEF GiveUp
  <1>2. Window = {}  BY <1>1, Numbers DEF IInv, Window
  <1>3. Ours = {} /\ Ours' = Ours  BY <1>1, <1>2 DEF IInv, Agreement, Ours
  <1>4. TypeOK'  BY <1>1 DEF GiveUp, IInv, TypeOK, settingsVars, Index
  <1> QED  BY <1>1, <1>3, <1>4 DEF IInv, Allocated, Filled, Waiting, Shut

LEMMA OthersOK == ASSUME IInv, OthersStep PROVE IInv'
  <1>1. PICK p \in Pids : WorkerEnds(p) \/ WorkerDies(p) \/ StrangerStarts(p) \/ StrangerEnds(p)
    BY DEF OthersStep
  <1>2. UNCHANGED <<settingsVars, mpc, listening, pids, i>>
    BY <1>1 DEF WorkerEnds, WorkerDies, StrangerStarts, StrangerEnds
  <1>3. /\ \A q \in Pids : q # p => proc'[q] = proc[q]
        /\ \/ proc[p] \in {"child", "dying"} /\ proc'[p] = "zombie"
           \/ proc[p] \in {"free", "other"} /\ proc'[p] \in {"free", "other"}
        /\ proc' \in [Pids -> {"free", "other", "child", "dying", "zombie"}]
    BY <1>1 DEF WorkerEnds, WorkerDies, StrangerStarts, StrangerEnds, IInv, TypeOK
  <1>4. Ours' = Ours  BY <1>3 DEF Ours
  <1>5. Index' = Index /\ Window' = Window
    BY <1>2 DEF settingsVars, Index, Window
  <1>6. TypeOK'  BY <1>2, <1>3, <1>5 DEF IInv, TypeOK, settingsVars
  <1>7. Waiting'  BY <1>2, <1>3, <1>5 DEF IInv, Waiting
  <1> QED
    BY <1>2, <1>4, <1>5, <1>6, <1>7 DEF IInv, Agreement, Allocated, Filled, Shut

LEMMA NextOK == IInv /\ [Next]_vars => IInv'
  <1> SUFFICES ASSUME IInv, [Next]_vars PROVE IInv'  OBVIOUS
  <1>1. CASE MasterStep
    BY <1>1, ValidateOK, InitMasterOK, ForkOK, ForkFailsOK, StartSleepOK, SkipPidOK,
       KillPidOK, WaitPidOK, GiveUpOK DEF MasterStep
  <1>2. CASE OthersStep  BY <1>2, OthersOK
  <1>3. CASE UNCHANGED vars
    <2>1. Index' = Index /\ Window' = Window /\ Ours' = Ours
      BY <1>3 DEF vars, settingsVars, Index, Window, Ours
    <2> QED
      BY <1>3, <2>1 DEF vars, settingsVars, IInv, TypeOK, Agreement, Allocated, Filled,
                        Waiting, Shut
  <1> QED  BY <1>1, <1>2, <1>3 DEF Next

LEMMA Always == Spec => []IInv
  BY InitOK, NextOK, PTL DEF Spec

\* Every variable keeps its type; the loop counter never passes the end of the table
\* (server.c:115-127, 258-272).
THEOREM TypeCorrect == Spec => []TypeOK
  <1>1. IInv => TypeOK  BY DEF IInv
  <1> QED  BY <1>1, Always, PTL

\* For any number of workers and pids: when run_server returns false, however many
\* forks had succeeded and whatever the workers did meanwhile, no worker is left,
\* and the listening socket is closed (server.c:115-127, 261-265).
THEOREM OrphansCorrect == Spec => []NoOrphans
  <1>1. IInv => NoOrphans  BY DEF IInv, NoOrphans, Shut
  <1> QED  BY <1>1, Always, PTL

\* The table of pids is exactly the set of the master's children, without
\* repetition, after every fork (server.c:270).
THEOREM TableCorrect == Spec => []TableComplete
  <1>1. ASSUME IInv PROVE TableComplete
    <2> SUFFICES ASSUME mpc \in {"fork", "sleep"}
                 PROVE  Ours = {pids[j] : j \in 0..(i - 1)} /\ Cardinality(Ours) = i
      BY DEF TableComplete
    <2>1. process_count \in Nat /\ i \in Nat /\ i <= process_count  BY <1>1, Numbers DEF IInv
    <2>2. \A j \in 0..(i - 1) : pids[j] # -1  BY <1>1, <2>1 DEF IInv, Filled, Index
    <2>3. Ours = {pids[j] : j \in 0..(i - 1)} \ {-1}
      BY <1>1 DEF IInv, Agreement, Window
    <2> QED  BY <1>1, <2>2, <2>3 DEF IInv, Filled
  <1> QED  BY <1>1, Always, PTL

\* However pids are reused, kill_workers sends SIGKILL to children only
\* (server.c:119).
THEOREM KillsCorrect == Spec => KillsOnlyChildren
  <1>1. IInv /\ [Next]_vars =>
          [\A p \in Pids : mpc = "kill" /\ mpc' = "wait" /\ pids[i] = p =>
             proc[p] \in {"child", "zombie"}]_vars
    <2> SUFFICES ASSUME IInv, Next, NEW p \in Pids, mpc = "kill", mpc' = "wait", pids[i] = p
                 PROVE  proc[p] \in {"child", "zombie"}
      OBVIOUS
    <2>1. KillPid
      BY DEF Next, MasterStep, Validate, InitMaster, Fork, ForkFails, StartSleep, SkipPid,
             WaitPid, GiveUp, OthersStep, WorkerEnds, WorkerDies, StrangerStarts, StrangerEnds
    <2> QED  BY <2>1, KillsChild DEF KillPid
  <1> QED  BY <1>1, Always, PTL DEF Spec, KillsOnlyChildren

-----------------------------------------------------------------------------
(***************************************************************************)
(* The master comes to a decision.  Its steps lower three natural numbers  *)
(* in their lexicographic order, which nobody else changes, and where it   *)
(* waits, it waits for a process that is dead or under SIGKILL.            *)
(***************************************************************************)

Phase ==
  CASE mpc = "validate"         -> 4
    [] mpc = "init"             -> 3
    [] mpc = "fork"             -> 2
    [] mpc \in {"kill", "wait"} -> 1
    [] OTHER                    -> 0

Left == process_count - i

Unsignalled == IF mpc = "kill" THEN 1 ELSE 0

Nearer ==
  \/ Phase' < Phase
  \/ Phase' = Phase /\ Left' < Left
  \/ Phase' = Phase /\ Left' = Left /\ Unsignalled' < Unsignalled

LEMMA MasterNearer == ASSUME IInv, MasterStep PROVE Nearer
  <1> USE DEF Nearer, Phase, Left, Unsignalled, settingsVars
  <1>1. process_count \in Nat /\ i \in Nat  BY Numbers DEF IInv
  <1>2. CASE Validate  BY <1>2 DEF Validate
  <1>3. CASE InitMaster  BY <1>3 DEF InitMaster
  <1>4. CASE Fork  BY <1>1, <1>4 DEF Fork
  <1>5. CASE ForkFails  BY <1>5 DEF ForkFails
  <1>6. CASE StartSleep  BY <1>6 DEF StartSleep
  <1>7. CASE SkipPid  BY <1>1, <1>7 DEF SkipPid
  <1>8. CASE KillPid  BY <1>1, <1>8 DEF KillPid
  <1>9. CASE WaitPid  BY <1>1, <1>9 DEF WaitPid
  <1>10. CASE GiveUp  BY <1>10 DEF GiveUp
  <1> QED
    BY <1>2, <1>3, <1>4, <1>5, <1>6, <1>7, <1>8, <1>9, <1>10 DEF MasterStep

LEMMA OthersAway == ASSUME OthersStep PROVE UNCHANGED <<Phase, Left, Unsignalled>>
  BY DEF OthersStep, WorkerEnds, WorkerDies, StrangerStarts, StrangerEnds, settingsVars,
         Phase, Left, Unsignalled

\* Every step of run_server, in init_master, in the loop of forks and in that of
\* kill_workers (server.c:115-127, 258-272), brings its end nearer, and no worker and
\* no other process puts it off: with waitpid answered, run_server sleeps or fails
\* after finitely many steps.
THEOREM DecisionNears ==
  Spec => /\ [][IF MasterStep THEN Nearer ELSE UNCHANGED <<Phase, Left, Unsignalled>>]_vars
          /\ [](Phase \in Nat /\ Left \in Nat /\ Unsignalled \in Nat)
  <1>1. IInv /\ [Next]_vars =>
          [IF MasterStep THEN Nearer ELSE UNCHANGED <<Phase, Left, Unsignalled>>]_vars
    BY MasterNearer, OthersAway DEF Next
  <1>2. ASSUME IInv PROVE Phase \in Nat /\ Left \in Nat /\ Unsignalled \in Nat
    BY <1>2, Numbers DEF IInv, Phase, Left, Unsignalled
  <1>3. IInv => Phase \in Nat /\ Left \in Nat /\ Unsignalled \in Nat  BY <1>2
  <1> QED  BY <1>1, <1>3, Always, PTL DEF Spec

\* kill_workers never waits for a process that runs on: whom waitpid waits for
\* (server.c:122) is its own child, and has ended or has been sent SIGKILL, also when
\* the worker had died, and its pid could be somebody's, before the signal.
THEOREM WaitsForTheDead ==
  Spec => [](mpc = "wait" => pids[i] \in Pids /\ proc[pids[i]] \in {"dying", "zombie"})
  <1>1. IInv => (mpc = "wait" => pids[i] \in Pids /\ proc[pids[i]] \in {"dying", "zombie"})
    BY DEF IInv, Waiting
  <1> QED  BY <1>1, Always, PTL
=============================================================================
