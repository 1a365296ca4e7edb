---------------------------- MODULE ServerProps ----------------------------
(***************************************************************************)
(* What the program as a whole promises: the properties of module Server.  *)
(***************************************************************************)
EXTENDS Server, WorkerProps

\* An open connection belongs to a process the master has forked and that still
\* runs; and when run_server has failed, no connection is open or waits to be
\* accepted, in a process nobody will ever serve it from.
NobodyStranded ==
  \A c \in Conns :
    /\ sock[c] = "open" => Alive(owner[c])
    /\ mpc = "failed" => sock[c] \notin {"backlog", "open"}

\* The entries of the table that kill_workers has still to visit if it runs now, or
\* goes on: run_master fills them in order, kill_workers empties none.
ToVisit == IF mpc \in {"fork", "sleep"} THEN 0..(i - 1) ELSE i..(process_count - 1)

\* The master loses sight of no connection: whoever serves an open one is in an
\* entry of the table that a failing start would still reach.  So a worker whose
\* fork has just succeeded is never missed, and kill_workers leaves an entry only
\* when every connection of that worker is closed, be it by the worker's end or
\* by SIGKILL, although the worker went on accepting until the signal arrived
\* (server.c:115-127, 257-272).
WithinReach ==
  \A c \in Conns : sock[c] = "open" => \E j \in ToVisit : pids[j] = owner[c]

\* The port is bound from init_socket on, and gone when run_server has failed.
Port == IF mpc = "failed" THEN "gone" ELSE IF listening THEN "bound" ELSE "unbound"

Service == INSTANCE Exchange WITH
  Piece  <- SndBuf,
  port   <- Port,
  phase  <- [c \in Conns |-> Phase(sock[c])],
  gone   <- {c \in Conns : peer[c] # "up"},
  server <- owner,
  reply  <- [c \in Conns |-> Kinds(hdr[c])],
  body   <- wire

\* The whole program implements module Exchange, from the checks of the settings
\* to the last connection: the master may fork, fail, kill and wait, and what
\* its clients see is a port that is bound once, workers that answer in order,
\* crashes that hit one worker's connections, and, where the start fails, a port
\* that goes only when no connection is being served (server.c:117-127, 256-276).
ServesAsPromised == Service!Spec

\* However slow or silent the others are, a client that sends its request and
\* reads what it gets is answered and closed, also if it connects while the
\* master still forks its workers.  It is closed unanswered only if its worker
\* dies or run_server fails; and it hangs only if every worker has died by
\* itself, for then the master sleeps on, listening (server.c:273).
CoopAnswered ==
  \A c \in Coop :
    sock[c] = "backlog" ~>
      \/ sock[c] = "closed" /\ (hdr[c] # <<>> \/ mpc = "failed" \/ (owner[c] # NULL /\ pc[owner[c]] \in Dead))
      \/ mpc = "sleep" /\ \A w \in Workers : ~Alive(w)
=============================================================================
