---------------------------- MODULE WorkerProps ----------------------------
(***************************************************************************)
(* What the worker processes promise: the properties of module Worker that *)
(* the runs check and module WorkerProofs proves.                          *)
(***************************************************************************)
EXTENDS Worker

\* Every variable has its type: the fields of struct active_connection and of
\* struct worker, the globals, and the environment of module Sockets.
TypeOK ==
  /\ SocketsTypeOK
  /\ state \in [Conns -> States]
  /\ file_fd \in [Conns -> Nat \cup {-1}]
  /\ read_buf_size \in [Conns -> {0, BufSize}]
  /\ read_buf_len \in [Conns -> 0..BufSize]
  /\ read_buf_cursor \in [Conns -> 0..BufSize]
  /\ pc \in [Workers -> InLoop \cup InCall \cup Dead]
  /\ active_conns \in [Workers -> Seq(Conns)]
  /\ new_conns \in [Workers -> Seq(Conns)]
  /\ ready \in [Workers -> SUBSET Conns]
  /\ g_memory_arena \in [Workers -> Conns \cup {NULL}]
  /\ resp \in [Workers -> Responses]
  /\ owner \in [Conns -> Workers \cup {NULL}]
  /\ hdr \in [Conns -> Seq(Headers)]
  /\ wire \in [Conns -> Seq(Int)]

InHand(w) == active_conns[w] # <<>> /\ pc[w] \in InCall \cup {"settle"}

\* The assertions of handler.c and conn_loop hold whatever the clients, the
\* other workers and the file system do in between, except for the assert(0)
\* of server.c:211, which HandlerLeavesWaiting is about.
AssertionsHold ==
  \A w \in Workers :
    /\ pc[w] = "select" =>                               \* server.c:142, EBADF
         \A c \in Members(active_conns[w]) :
           sock[c] = "open" /\ state[c] \in {"CONN_WAITING", "CONN_SENDING"}
    /\ pc[w] = "dispatch" /\ active_conns[w] # <<>> =>   \* server.c:207
         state[Cur(w)] \in {"CONN_WAITING", "CONN_SENDING"}
    /\ pc[w] = "read" => read_buf_size[Cur(w)] = 0       \* handler.c:31
    /\ pc[w] = "open" => file_fd[Cur(w)] = -1            \* handler.c:267
    /\ pc[w] = "pump" =>                                 \* handler.c:73, 90
         /\ file_fd[Cur(w)] # -1
         /\ ~BufferEmpty(Cur(w)) => read_buf_cursor[Cur(w)] < read_buf_len[Cur(w)]

\* server_alloc serves a handler from the arena of the connection in hand, and
\* the loop (its list cells, and server_free of conn) from the heap: the global
\* g_memory_arena follows every return and every longjmp (server.c:213, 218).
ArenaFollowsCall ==
  \A w \in Workers :
    /\ pc[w] \in InCall => active_conns[w] # <<>> /\ g_memory_arena[w] = Cur(w)
    /\ pc[w] \in InLoop => g_memory_arena[w] = NULL

\* The loop waits in select and nowhere else: a handler is never called for a
\* connection on which it would block, although the answer of select is old by
\* then, and no handler is left without a next step.
WaitsOnlyInSelect ==
  \A w \in Workers :
    pc[w] \in Dead \cup {"select"} \/ ENABLED WorkerStep(w)

Listed(w) == Members(active_conns[w]) \cup Members(new_conns[w])

Injective(s) == \A i, j \in DOMAIN s : s[i] = s[j] => i = j

\* No connection is in two cells of a worker's lists.
NoDuplicates(w) ==
  /\ Injective(active_conns[w])
  /\ Injective(new_conns[w])
  /\ Members(active_conns[w]) \cap Members(new_conns[w]) = {}

\* What the assert(0) of server.c:211 leaves behind in a build without
\* assertions: the client has closed its end before it sent anything.
Forgotten(c) ==
  NDEBUG /\ state[c] = "CONN_WAITING" /\ peer[c] # "up" /\ hdr[c] = <<>>

\* Descriptors are not leaked and not closed twice: a socket is open exactly as
\* long as one cell of one list of the worker that accepted it points to its
\* connection, and a file is open only as long as the socket.
EveryFdTracked ==
  /\ \A w \in Workers :
       /\ NoDuplicates(w)
       /\ \A c \in Listed(w) : sock[c] = "open" /\ owner[c] = w
  /\ \A c \in Conns :
       /\ sock[c] = "open" => c \in Listed(owner[c]) \/ Forgotten(c)
       /\ file_fd[c] # -1 => sock[c] = "open"

\* A client gets one response: one header, never cut short, and bytes of the
\* file only after a header that says 200 and is closed by an empty line.  An
\* error after the header ends the connection and is not answered with a 500.
OneResponse ==
  \A c \in Conns :
    /\ Len(hdr[c]) <= 1
    /\ state[c] \in {"CONN_SENDING", "CONN_COMPLETE"} => Len(hdr[c]) = 1
    /\ hdr[c] # <<>> => hdr[c][1].whole
    /\ wire[c] # <<>> => hdr[c] # <<>> /\ hdr[c][1].end /\ hdr[c][1].code = "HTTP_OK"

\* The client receives a prefix of the file: short writes, EAGAIN and the
\* refilling of the buffer lose, repeat and reorder nothing.
BodyInOrder == \A c \in Conns : wire[c] = [i \in 1..Len(wire[c]) |-> i]

\* Content-Length, taken from stat before the file is opened, is what is sent,
\* if nobody changes the file until the last byte is read.
AnnouncedLength ==
  \A c \in Conns :
    hdr[c] # <<>> /\ hdr[c][1].end /\ ~edited[c] =>
      /\ Len(wire[c]) <= hdr[c][1].size
      /\ state[c] = "CONN_COMPLETE" => Len(wire[c]) = hdr[c][1].size

\* A worker goes down only because of a client, one of its own or one in the
\* backlog, that has left; because memory has run out; or because the live
\* connections and their files have used up the descriptors.  A lost accept
\* race, a descriptor that leaks or an error of one file are no such reasons.
NoSpuriousDeath ==
  [][\A w \in Workers : pc[w] \notin Dead /\ pc'[w] \in Dead =>
       \/ \E c \in Listed(w) \cup Backlog : peer[c] # "up"
       \/ MemoryMayRunOut
       \/ 2 * Cardinality(Listed(w)) >= FdLimit]_vars

\* How far a worker is from the end of its round, as five numbers of which the
\* first that differs decides.  A 500 that is still to be sent (server.c:226-233)
\* comes before the response, and a response before the end of its connection.
Stage(w) ==
  CASE pc[w] \in Dead \cup {"select"} -> 0
    [] pc[w] = "accept"               -> 2
    [] OTHER                          -> 1

Rank(w) ==
  CASE pc[w] = "dispatch" -> 6
    [] pc[w] = "read"     -> 5
    [] pc[w] = "locate"   -> 4
    [] pc[w] = "open"     -> 3
    [] pc[w] = "respond"  -> 2
    [] pc[w] = "settle"   -> IF state[Cur(w)] = "CONN_ERR_RECOVERABLE" THEN 3 ELSE 0
    [] OTHER              -> 1

Unread(w) == IF pc[w] = "pump" /\ file_fd[Cur(w)] <= fsize THEN fsize - file_fd[Cur(w)] ELSE 0

Unsent(w) == IF pc[w] = "pump" THEN read_buf_len[Cur(w)] - read_buf_cursor[Cur(w)] ELSE 0

Ahead(w) == <<Stage(w), Len(active_conns[w]), Rank(w), Unread(w), Unsent(w)>>

Lower(m, n) == \E k \in 1..5 : m[k] < n[k] /\ \A j \in 1..(k - 1) : m[j] = n[j]

\* A round of conn_loop comes to an end: every step of a worker between two
\* selects brings the end closer, in the loop over the connections, in the second
\* call for a 500, and in the loop of process_request_write, which has no bound
\* but the file; and no client and no other worker can put it off, except one who
\* extends the file while it is sent.
RoundsAdvance ==
  [][\A w \in Workers : pc[w] \notin Dead \cup {"select"} =>
       IF WorkerStep(w) THEN Lower(Ahead(w)', Ahead(w))
       ELSE fsize' = fsize => Ahead(w)' = Ahead(w)]_vars

\* The mapping of a worker's state to module Exchange.
Phase(s) ==
  CASE s = "idle"    -> "outside"
    [] s = "backlog" -> "queued"
    [] s = "open"    -> "served"
    [] OTHER         -> "closed"

Kind(h) ==
  CASE ~h.whole                               -> "cut"
    [] h.whole /\ h.code # "HTTP_OK"          -> "error"
    [] h.whole /\ h.code = "HTTP_OK" /\ ~h.end -> "head"
    [] OTHER                                  -> "file"

Kinds(hs) == [k \in DOMAIN hs |-> Kind(hs[k])]

Ended == {"CONN_COMPLETE", "CONN_ERR_UNRECOVERABLE"}

\* Nothing of what was sent or left unsent for c changes.
SameReply(c) == hdr'[c] = hdr[c] /\ wire'[c] = wire[c] /\ state'[c] = state[c]

\* What either jmpbuf of conn_loop is for.  A longjmp that asks for a 500
\* (CONN_ERR_RECOVERABLE) starts where nothing has been sent and leaves the file
\* closed; the second call, whose own longjmp must not ask again, sends just that
\* one header or gives up with nothing sent (server.c:226-233).  And a connection
\* that has ended, by the first call or the second, sends nothing more: whatever
\* the clients and the other workers do, the next step its worker takes closes
\* its socket and its file (server.c:215-225).
EndsOnce ==
  [][\A c \in Conns :
       /\ state'[c] = "CONN_ERR_RECOVERABLE" => hdr'[c] = <<>> /\ file_fd'[c] = -1
       /\ state[c] = "CONN_ERR_RECOVERABLE" /\ ~SameReply(c) =>
            /\ wire'[c] = wire[c]
            /\ \/ state'[c] = "CONN_ERR_UNRECOVERABLE" /\ hdr'[c] = <<>>
               \/ /\ state'[c] = "CONN_COMPLETE"
                  /\ Kinds(hdr'[c]) = <<"error">>
                  /\ hdr'[c][1].code = "HTTP_INTERNAL_SERVER_ERROR"
       /\ state[c] \in Ended =>
            /\ SameReply(c)
            /\ sock[c] = "open" /\ WorkerStep(owner[c]) =>
                 sock'[c] = "closed" /\ file_fd'[c] = -1]_vars

Promise == INSTANCE Exchange WITH
  Piece  <- SndBuf,
  port   <- "bound",
  phase  <- [c \in Conns |-> Phase(sock[c])],
  gone   <- {c \in Conns : peer[c] # "up"},
  server <- owner,
  reply  <- [c \in Conns |-> Kinds(hdr[c])],
  body   <- wire

\* The event loop, with its lists, buffers, partial writes, aborts by longjmp
\* and dying processes, implements module Exchange: no connection is served by
\* two workers, answered twice, sent a byte twice, out of order or before its
\* header, or closed unanswered while its client waits and its worker lives;
\* and the death of one worker touches no connection of another.
KeepsPromise == Promise!Spec

\* The assertion of server.c:211: after the handler, conn->state is not
\* CONN_WAITING any more.
HandlerLeavesWaiting ==
  \A w \in Workers : pc[w] = "settle" => state[Cur(w)] # "CONN_WAITING"
=============================================================================
