# A verification of the static file server

The repository is a small HTTP server in C: a master process opens a listening
socket and forks a fixed number of workers; each worker runs an event loop over
`select`, accepts connections, parses one request per connection, and sends a
file of the static directory. There are no threads, no signal handlers, no
retries and no timeouts. All source paths below are relative to `src/src/`.

Contents: [the system](#the-system), [modules](#the-modules-and-the-code),
[runs](#the-runs), [fairness](#fairness), [proofs](#what-is-proved),
[findings](#findings), [what is left out](#what-is-not-modelled),
[plan](#plan).

## The system

### Components

| component | code | state | operations | module |
|---|---|---|---|---|
| master | `server.c` 33-127, 257-291; `main.c` | `master_state`: settings, listening socket, table of pids | `run_server`, `validate_settings`, `init_master`, `init_socket`, `run_master`, `kill_workers` | `Master`, `Server` |
| event loop of a worker | `server.c` 129-255 | `worker`: `active_conns`, `req_jmpbuf`; global `g_memory_arena` | `conn_loop`, `run_child`, `abort_req` | `Worker`, `Descriptors` |
| request handler | `handler.c` | `active_connection`: `state`, `sock_fd`, `file_fd`, read buffer with length and cursor, arena | `process_request`, `process_request_write`, `send_response`, `error_response`, `resolve_path`, `get_file_info` | `Handler` |
| sockets, files, clients | (outside the code) | connections, receive and send buffers, the served file | connect, send, receive, close, reset, edit | `Sockets` |
| request-line parser, status codes | `http.c` 5-65, 161-173 | none | `parse_http_req`, `http_status_code_int` | `HttpParse` |
| connection arena | `memory.c` | list of blocks, newest first | `arena_alloc`, `arena_clear` | `Arena` |
| lists | `pg_list.c`, `pg_list.h` | headers and cells on the heap or in an arena | all functions of `pg_list.h`; the program uses `lappend`, `foreach`, `list_free` | `PgList`, `Lists` |
| content types | `http.c` 90-137 | none | `http_conten_type_from_filename`, `http_conten_type_from_ext` | `ContentType` |
| header text | `http.c` 67-88, 139-160 | none | tables of strings | no |
| logging, settings, build | `server.c` 297-355, `main.c`, `CMakeLists.txt` | none | | no |

### How they interact

- Master and workers share the listening socket, which is non-blocking, and
  nothing else: after `fork` a worker never hears from the master, except when
  `kill_workers` sends SIGKILL. The master sleeps for ever once all forks have
  succeeded; it never reaps or replaces a worker.
- A worker calls the handler with two pieces of global state set up:
  `g_memory_arena` (which allocator `server_alloc` uses) and the `jmp_buf` to
  which `abort_req` returns. The handler answers through `conn->state`. A
  return and a `longjmp` arrive at the same place.
- A connection's buffers, header lists and strings live in its arena and die in
  `arena_clear`; the connections themselves and the loop's list cells are on
  the heap.
- Clients act at any time: between `select` and `accept`, and between any two
  system calls of a handler.

### What is hard here

1. *The answer of `select` is old when it is used.* Other workers may take the
   connection in the backlog, clients close or reset, the file changes, while
   earlier connections of the same round are served.
2. *Error paths by `longjmp`* from any depth, including a second attempt (a 500
   after a failed read) under a `jmp_buf` of its own that jumps into the label
   of another `case`.
3. *Process death by somebody else's fault*: SIGPIPE has no handler, every error
   of `accept` but `EAGAIN` is fatal, an assertion can be reached by a client,
   and memory exhaustion exits. One client then takes all others of the worker
   with it.
4. *Short reads and writes* around the buffer length and cursor.
5. *Descriptors* over all of these paths.
6. *Pointer arithmetic*: the parser's miscounted spaces, the arena's alignment.
7. *Numbers that the kernel reuses*: pids, and descriptors, which are closed and
   given out again while the bits of the last `select` are still being tested.
8. *Death from outside*: a failed `fork` kills the workers that exist in the
   middle of whatever they do, and the listening socket outlives the failure.
9. *Lists that are modified while something else points into them*: cells freed
   while the loop stands on them, tails that point to a deleted cell, lists given
   to a function twice.

`PROJECT.json` lists the hazards at their lines, with the properties that
would notice each.

## The modules and the code

### Sockets (environment)

Not code of the repository. One connection per client, in order *idle*,
*backlog*, *open*, *closed*. A request is in the receive buffer in part (its
first line has no `\r` yet) or whole; the send buffer holds `SndBuf` units; a
client drains it unit by unit, or not at all. Clients in `Leavers` may close
("fin") and reset ("rst") at any moment. One file is served; its size changes
among `Sizes` at any moment, and `edited[c]` records whether that happened
since the `stat` for connection `c`.

`Readable` and `Writable` are what `select` reports: end of file and errors
count as readable, errors as writable.

### Handler

One action per system call of `handler.c`, because between two of them anybody
else may move: `ReadAndParse`, `ReadEof`, `ReadError` (`read_req_data` and the
parser), `Locate` (`realpath`, `stat`), `OpenFile`, `SendHeader`,
`SendHeaderFails` (`send_response`), `ReadFile`, `WriteSocket`,
`WriteSocketFails` (`process_request_write`).

- `Return`, `ReturnWith`, `Abort` are the ways back into the loop. `Die` is the
  end of the process; the kernel closes its descriptors.
- A request is its verdict: GET, HEAD, or a rejection (module `HttpParse` says
  which text earns which). A partial request line is a bad request: the code
  reads once and never again.
- Byte `i` of the file is the number `i`; `file_fd` is the offset of the open
  file, or -1. `wire[c]` is the history of the bytes written, `hdr[c]` that of
  the headers. A response of the socket's buffer is at least one whole header
  (`HdrLen <= SndBuf`): headers are shorter than 4096 bytes and are the first
  thing written to a fresh socket.
- Left out of the model: the branch for `resp->body` (no caller sets it), header
  text, dates and logging.
- Two calls per step: `realpath` and `stat` are one step (both only fix the
  fate of the request; `open` and the reads come later and are separate), and
  `set_nonblocking` is part of `SendHeader`.

### Worker

`conn_loop` as `Select`, `AcceptConn`/`AcceptNothing`/`AcceptFails`, then per
connection of the old list `DispatchUnready` or `DispatchReady` with the
handler's steps and one of the `Settle...` actions (the second `switch`), and
`EndRound`. `active_conns` is the part of the old list that the `foreach` has not
passed, `new_conns` the list under construction: their union is what the worker
knows. A step of a worker is atomic between system calls; workers and clients
interleave freely.

`NDEBUG` decides what `assert(0)` at `server.c:211` does. `MemoryMayRunOut` lets
memory run out (`OutOfMemory`): `server_alloc` exits wherever the code allocates
(`AllocFails`), which after an `accept` closes the connection just accepted with all
others; and `select` fails when the kernel has none (`SelectFails`,
`server.c:152-155`).

### Arena

`arena_alloc` for requests of `Requests` bytes with blocks placed by `calloc` at
any of `Addresses`, and `arena_clear` turn by turn. `used`, rounding, the
alignment offset and the first unrounded piece are as in the code. The pieces
handed out (`chunks`) and the blocks obtained (`heap`) are history. The callers
never ask for 0 bytes; see the last section.

### HttpParse

The parser as a function of the text, pointers being positions, over all texts
of up to `MaxPieces` pieces. A piece is a whole word of the protocol or a single
space, `\r` or other character, so that a few pieces make all combinations of
words and runs of spaces, misplaced ones included. The text only grows, as the
text that one `read` returns grows with the time it is called at.

### Master

`run_server` from validation to sleep or failure, over a process table that
other processes use too: entries are free, *other*, *child*, *dying* (SIGKILL
sent) or *zombie*. Forks fail at any time; workers die at any time; other
processes take free pids at any time.

### Descriptors

`conn_loop` a second time, coarser in the handler (one step) and finer in the
sets: `BuildSets` is the loop of lines 130-146 with `max_fd`, `Select` narrows the
sets as the kernel does, and `accept`, `open` and `close` give and take the lowest
free number. It is a module of its own because numbers multiply the states of
`Worker` without telling its properties apart. It describes a Debug build up to
the end of the process: the steps that end it, a `select` or an `accept` that fails
among them, are in `Worker` only.

### Exchange (abstract)

What the server promises each client and nothing else: a connection is queued,
taken by one worker, answered at most once (an error, the head of a file, or a file),
gets the bytes of the file in order and only behind an answer that announces them,
and is closed. `Finish` needs an answer or a client that has gone; `Crash(w)` closes
what `w` served. Nobody arrives before the port is bound (`Bind`), and the server may
withdraw only while it serves nobody (`Refuse`): whoever waits then is turned away.
`WorkerProps` maps the state of `Worker` to it: `Phase` from the
sockets, `reply` from the headers sent, `body` from the bytes sent; buffers, lists,
arenas, descriptors, program counters and error states disappear. The port of the
workers alone is bound from the beginning; `ServerProps` maps it from the master's
program counter (`Port`).

### Server (composition)

`Server` EXTENDS `Worker` and takes `Master` as an instance whose pids are the
workers. They meet in three places: a worker takes steps from the fork to its end
(`Serve`), its end is one of the master's environment actions (`WorkerDies`,
`WorkerEnds`), and SIGKILL ends it between any two steps (`Sigkill`). The listening
socket exists as long as a process holds it; when the master gives up and is the
last, what waits in the backlog is closed (`GiveUp`). Before `init_master` nobody
can connect. Strangers do not take pids here; that is `Master`'s subject.

### PgList and Lists

`PgList` is `pg_list.c` on a heap: a header has `length`, `head`, `tail`, a cell
`data` and `next`, and freed blocks are reused by the next `server_alloc`. A function
without a loop is one action; the others take one step per round of their loop
(`WalkOn`, `CopyCell`, `EachFound`/`EachMissing`, `SearchOn`, `FreeCell`), so that
the pointers a loop holds while the list changes under it are part of the state
(`call`). The caller follows the comments in the source: it goes on with the pointer
that is returned, and forgets `list2` after `list_concat` and a list it has freed.
`spine` is history: the cells in the order in which they were linked.

- The variants for `int` differ in the type of the data only, and `list_free_deep`
  frees the elements in addition: each pair is one action.
- In an arena `server_free` does nothing; the heap is the harder case.
- Membership tests are one step: the list that is searched does not change. What
  their `foreach` visits is the least set of cells that holds the head and is closed
  under the links (`Visited`).

`Lists` is the specification a caller reads in the comments: sequences of elements,
and for each function its effect on them. A function that loops takes effect in one
step, some time after it was called.

### ContentType

The lookup of the extension in a full path, over all paths of one directory and
one file with names of up to `MaxWords` dots and words.

### The other modules

`MCWorker`, `MCServer`, `MCPgList`, `MCHttp`: instances for TLC. `WorkerProps`,
`ServerProps`, `PgListProps`: the properties. `WorkerProofs`, `ServerProofs`,
`ArenaProofs`, `MasterProofs`, `DescriptorsProofs`, `HttpProofs`, `PgListProofs`,
`ListsProofs`: the proofs.

## The runs

States are distinct states TLC finds.

| run | question | bounds | states |
|---|---|---|---|
| `worker_one` | Debug build: are the assertions, the arena discipline, the responses and the end of a connection that failed right whatever two clients do? Do they get the file, and as much as announced? Does a round end? | 1 worker, 2 connections, file of 0 or 4 bytes changing under way, read buffer 3, send buffer 2 | 1.5M |
| `worker_two` | Does the accept race hurt? Does the descriptor limit? | 2 workers, 3 patient clients, limit of 3 descriptors | 375k |
| `worker_release` | Without assertions and short of memory, where any allocation and `select` may fail, what is leaked? Do the workers implement `Exchange`, crashes included? | 2 workers, 2 connections | 382k |
| `worker_empty_read` | Does a handler always leave CONN_WAITING, as `server.c:211` asserts? (No.) | 1 connection | |
| `arena` | Are pieces aligned, apart, and inside owned blocks? | block 65536, six sizes around its boundaries and around multiples of 16, 5 pieces, 4 addresses | 220k |
| `http_parse` | Does the parser judge lines by their words? What does it accept? Does the name of the file decide on its type? | every text of up to 7 of 7 pieces, uri limit 2; every path with names of up to 3 dots and words, two of the words extensions | 464k |
| `http_status` | Is the status sent the one the declaration names? (No.) | as `http_parse` | |
| `master` | Are workers left behind, or strangers killed? Does `run_server` come to a decision? | up to 3 workers, 4 pids | 4k |
| `descriptors` | Are numbers closed once? Is `select` asked about everybody, and is its answer used for whom it was about? | 3 connections, 4 numbers beside the first four | 118k |
| `server` | Does the master's table reach every process that has a connection, whenever a fork fails? Is a client left connected to nothing? Is the whole, from start to failure, what `Exchange` promises? | 2 processes, 2 clients that may leave | 825k |
| `server_live` | Is a client answered beside a silent or slow one, also while the server starts? | 2 processes, 1 cooperative client and 1 other | 378k |
| `pg_list` | Do the list functions keep their lists linked, apart and allocated, do they end, and do what they say? | 3 variables, 4 cells, 3 headers, 2 elements | 192k |

### Properties of the workers (`WorkerProps`)

- `AssertionsHold`: the assertions of `handler.c` and of `conn_loop` (but for
  the one of the finding) in the states in which they are evaluated.
- `ArenaFollowsCall`: the current arena is that of the connection in hand inside
  a handler and none outside.
- `WaitsOnlyInSelect`: a live worker outside `select` always has a step, so no
  handler is called on a connection on which it would block. (`ENABLED`:
  checked only.)
- `EveryFdTracked`: a socket is open iff exactly one cell of its owner's lists
  points to it, a file only as long as its socket. In a Release build there is
  one exception, named `Forgotten`, which is the leak of the first finding.
- `OneResponse`: one whole header; bytes of the file only behind a 200 that is
  closed by an empty line.
- `BodyInOrder`, `AnnouncedLength`: the client gets a prefix of the file, of
  the announced length unless the file was changed.
- `NoSpuriousDeath` (action): a worker goes down only for one of three named
  reasons: a client has left, memory, descriptors used by live connections.
- `EndsOnce` (action): a 500 is asked for only where nothing has been sent and no
  file is open; the second call, under a `jmp_buf` of its own, sends just that header
  or nothing; and whoever has ended, on whichever path, sends nothing more and is
  closed, socket and file, by the next step of its worker.
- `RoundsAdvance` (action): every step of a worker between two selects brings the
  end of the round closer, and nobody puts it off but who changes the file. `Ahead`
  counts it in five numbers of decreasing weight: the stage of the round, the
  connections to visit, the calls left for the one in hand, the bytes of the file to
  read, and those in the buffer to write.
- `KeepsPromise`: the workers implement `Exchange`.

### Properties of the program (`ServerProps`)

- `NobodyStranded`: an open connection belongs to a running process; after a failed
  start none is open or waits.
- `WithinReach`: whoever serves an open connection is in an entry of the master's
  table that `kill_workers` has still to visit if the start fails now, although the
  workers go on accepting until they are hit. (That the composition implements
  `Master` is so by construction: each step either is one of `Master` or leaves its
  variables alone.)
- `ServesAsPromised`: the composition implements `Exchange`, from before the socket is
  bound to the end of a failed start.
- `CoopAnswered` (liveness): a client that sends and reads is answered, unless its
  worker dies, the start fails, or all workers are dead: then the master sleeps on,
  the socket listens, and the client hangs.

### Properties of the lists (`PgListProps`)

- `AssertionsHold`: `check_list_invariants` and the other assertions of
  `pg_list.c`, in the states in which they are evaluated.
- `WellLinked`: what `check_list_invariants` cannot see, namely that the links
  lead through `length` cells to `tail`.
- `HeapOwned`: no two lists share a cell, and a block is allocated exactly as
  long as one list of the caller, or of the call, holds it.
- `NthRight`: a walk stops at the index asked for.
- `LoopsAdvance` (action): each round leaves fewer cells ahead, so that every loop
  ends, also in `list_concat_unique(l, l)`.
- `Refines`: `PgList` implements `Lists`.

The names of the other modules' properties are in the comments before them:
`Arena` (`RoomForOffset`, `ChunksAligned`, `ChunksInBlocks`, `ChunksDisjoint`,
`BlocksOwned`), `HttpParse` (`ThreeWordsJudged`, `AcceptedShape`,
`HeadersDoNotMatter`), `ContentType` (`NameDecides`), `Master` (`NoOrphans`,
`TableComplete`, `KillsOnlyChildren`, `Decides`), `Descriptors` (`NumbersOwned`,
`SetsComplete`, `BitsFresh`).

### Why the bounds are enough

- Two connections show what one can do to another inside a worker: the loop
  treats the elements of the list alike and keeps no state but the list and the
  arena pointer between them. Two workers and three connections let a worker
  lose the race with and without connections of its own.
- The buffer of `worker_one` (3) is larger than the send buffer (2), so that a
  write is short, full and refused; the sizes 0 and 4 make a file empty, and of a
  full buffer and a rest that is shorter than the send buffer. Where the relation
  does not matter the file is small.
- Arena: a request rounds up or not, fits or not, equals or exceeds the block;
  five pieces give at least two blocks with pieces in each.
- The parser never looks at a character but to compare it with a space, `\r` or
  a word; one other character and words of one or two letters stand for all.
- Master: three workers give a first, middle and last entry; four pids leave a
  free one to be taken while a worker is a zombie.
- Descriptors: two connections with files fill the numbers, and a third is waiting;
  closed numbers are reused within the round by `accept` and by `open`.
- Lists: four cells are a list of two beside a copy of it, two lists with an element
  each and their union, or a list with a first, a middle and a last cell; memory runs
  out in every loop that allocates. Nothing depends on how many elements there are
  beyond equal and different.
- Server: a second process makes a failing fork kill one that serves already.

Deadlock is not checked where the system may stop: all clients gone and the
worker in `select`, all pieces handed out, the text complete, the master asleep.

Every property has a mutant in `PROJECT.json`: a variant of one definition, as
a plausible slip in that code would make it, under which the run fails.

## Fairness

- `Master` (`FairSpec`): weak fairness of the master's step, and of the death of a
  worker to which SIGKILL was sent. Nothing forces a worker to die by itself, a fork
  to fail or another process to end.
- `Server` (`ServerFairSpec`): `WF(Manage)` for the master; `WF(Serve(w) /\ ~SelectFails(w))`:
  a process that is not blocked in `select` is scheduled, and no `select` has to fail; `WF(Sigkill(w))`: a process that was
  killed ends. Weak fairness is enough: the enabled step of a worker is disabled by
  others only in `select`, when another worker empties the backlog. `WF` of
  `SendRequest` and `Drain` for the clients in `Coop`: that is what cooperative
  means. Nothing forces a client to connect, another client to send or read, the
  file to change or a fork to fail.

The liveness run has two processes, one cooperative client, and beside it one that
may be silent or slow. With several workers one may lose every race for the backlog
and starve without harm; but a client that was accepted depends on its own worker.
That the loops of `pg_list.c` and of `conn_loop` end needs no fairness: `LoopsAdvance`
and `RoundsAdvance` are variants.

## What is proved

With TLAPS, for all values of the constants that satisfy the named assumptions
(`SocketsAssumption`, `HandlerAssumption`, `WorkerAssumption`; `ServerAssumption`;
`ArenaAssumption`; `MasterAssumption`; `DescriptorsAssumption`; `HttpParseAssumption`,
`ContentTypeAssumption`; `PgListAssumption`).

**Workers** (`WorkerProofs`), for any number of workers, connections, buffer and
file sizes, Debug or Release, with or without exhaustion of memory:

- `TypeCorrect`: `Spec => []TypeOK`.
- `ArenaCorrect`: `Spec => []ArenaFollowsCall`.

`TypeOK` is not inductive as it stands: an action of the handler changes the
fields of the connection in hand, and without one (`active_conns[w]` empty) its
result has no type. The invariant therefore has two parts. `Control` says where a
worker is: inside a call, and in *settle*, there is a connection in hand, and the
arena is its own in the first case and none in the second. It is inductive alone,
and `ArenaFollowsCall` is one of its conjuncts. `Data` is the rest of `TypeOK`,
inductive under `Control`: a read fills at most the buffer, and a write takes at
most what lies between cursor and length. One lemma per action shows that the
action preserves both.

**Connections** (`WorkerProofs`), under the same assumptions:

- `TrackingCorrect`: `Spec => []EveryFdTracked`.
- `AssertionsCorrect`: `Spec => []AssertionsHold`.
- `ResponseCorrect`: `Spec => []OneResponse`.
- `BodyCorrect`: `Spec => []BodyInOrder`.
- `DeathsExplained`: `Spec => NoSpuriousDeath`, for a build with assertions.

None of the invariants is inductive, and they need each other, so there is one invariant
`IInv` (`Invariant`: `Spec => []IInv`), which adds to `Control` and `Data`:

- of a worker, `Tracked` (no connection is in its lists twice, all are open and
  its own), `AtRest` (a listed connection that is not in hand is *fresh*, without
  data and file, or sends) and `HandOK` (what holds at each step of a handler: a
  500 after an error finds the connection in CONN_ERR_RECOVERABLE, a body is
  announced only with a file open, ...). A worker touches only connections of its
  own lists, so `Tracked` is also why the other workers' invariants survive a step;
- of a connection, `FdOK` (an open socket is listed or forgotten, a file has an open
  socket), `SilentOK` (in CONN_WAITING and CONN_ERR_RECOVERABLE nothing was written
  and the buffer is empty, hence the second attempt cannot be a second response),
  `HeaderOK`, and `BodyOK`: what was written is the first `file_fd - read_buf_len +
  read_buf_cursor` bytes of the file, that is, the buffer ends where the next read
  begins. This is the accounting that short reads and short writes must respect.

`DeathsExplained` counts: without forgotten connections, every descriptor of a worker
belongs to a connection of its lists, and there are at most two for each. In a build
without assertions the forgotten ones use up the limit in time, and the statement is
not claimed.

**Length** (`WorkerProofs`): `LengthCorrect`: `Spec => []AnnouncedLength`. On top of
`IInv`: `Prepared` carries the size that `stat` reported from `Locate` to the header, and
`LengthOK` keeps the offset in the file at or below that size; together with the
accounting of `BodyOK`, a read that returns nothing finds exactly that many bytes
written. Both are conditional on `edited`, and a handler clears `edited` only for a
connection for which nothing was announced yet.

**Ends** (`WorkerProofs`): `EndsCorrect`: `Spec => EndsOnce`. On top of `IInv`:
`Apology`, a worker answers a connection in CONN_ERR_RECOVERABLE with a 500, and
`Fileless`, such a connection has no file. Three lemmas say where a connection's state,
file and output change at all (`StateChanges`, `FileChanges`, `OutputChanges`), and few
steps are left to look at. A connection that has ended is the one in hand, in *settle*
(`EndedSettles`): `AtRest` excludes that it rests in a list, and `HandOK` that its
handler is still running.

**Exchange** (`WorkerProofs`): `PromiseKept`: `Spec => KeepsPromise`, the refinement
mapping of `WorkerProps`. One lemma for each step that is visible (`AcceptMaps`,
`HeaderMaps`, `WriteMaps`, `SettleMaps`, `DieMaps`, and those of the clients) shows that it
is one action of `Exchange`; all others leave its variables alone. Beside `IInv` it
needs `Excused`: who is closed with CONN_ERR_UNRECOVERABLE has an answer or has left.

**Rounds** (`WorkerProofs`), under the same assumptions:

- `RoundsEnd`: `Spec => RoundsAdvance`.
- `DescentEnds`: the five numbers of `Ahead` are natural numbers.
- `NeverBlocks`: a live worker outside `select` has a step (`Able`).

A lexicographic order on natural numbers has no infinite descent, so the first two say
that no worker takes infinitely many steps without a return to `select`, unless the
file is changed infinitely often. The loop of `process_request_write` (`handler.c:75`),
which has no bound of its own, is why the last two numbers are needed: a read moves
bytes of the file from *to read* to *to write*, a write lowers the second, and at the end of
the file a read finishes the call. Other workers leave the numbers alone because a connection is in the lists of one
worker only (`OthersConns`).

`NeverBlocks` says the same as `WaitsOnlyInSelect` with the guards of the steps in place of
`ENABLED`: `Able` spells them out for each place, and a reader can compare them
with the actions. The socket is blocking until the header is sent, so a `read` of an empty
socket or a `write` to a full one would stop the worker with all its clients.
The invariant added, `Reported`, is that what `select` has reported of a waiting
connection stays true until its handler is called: only a `read` takes data from a
socket, only the owner reads, and it does so once (`ParsesOnce`). `SilentOK` makes the
send buffer of a connection without a header empty. `FewOpen` is needed to count
descriptors where there may be infinitely many clients.

**Server** (`ServerProofs`), for any number of processes and clients:

- `ReachCorrect`: `ServerSpec => []WithinReach`.
- `StrandedCorrect`: `ServerSpec => []NobodyStranded`.
- `PromiseServed`: `ServerSpec => ServesAsPromised`.

The proofs of the parts are reused: `MasterProofs` is instantiated with the workers as
pids, and of the workers' `IInv` only the steps that are new, `Sigkill` and `GiveUp`, have
to be looked at. `Held` is the fact that neither part has alone: a connection is open
only with a process of the master's table that still runs. `ReachCorrect` adds the
master's `Agreement`: the entries still to be visited are its children.

`PromiseServed` takes the steps of workers and clients from `PromiseKept`: they happen
only while the port is bound (`ListeningBound`). Of the steps that are new, `Sigkill` is
the `Crash` of its victim, `InitMaster` is `Bind`, and every step after which `run_server`
has failed is `Refuse`, which needs `Held` and the master's invariant: no worker runs
then, so no connection is open (`RefuseSeen`). All other steps of the master leave the
clients alone.

**Descriptors** (`DescriptorsProofs`), for any number of records and descriptors:

- `NumbersCorrect`: `Spec => []NumbersOwned`.
- `SetsCorrect`: `Spec => []SetsComplete`.
- `BitsCorrect`: `Spec => []BitsFresh`.

The invariant relates records, table and lists (`Owned`, `Lists`): the table names each
number's owner, so two records cannot hold the same number, and the lowest free one
is in no record. `Round` says that a record is complete only in hand, and that the
numbers given out since `select` returned are in no record that the round has still
to visit: `accept` puts its record on the other list, and `open` gives its number to a
file.

**Arena** (`ArenaProofs`), for any requests, addresses and any minimum block size
that is a multiple of 16:

- `AssertionsCorrect`: the assertion `memory.c:66` holds (`RoomForOffset`).
- `AlignmentCorrect`, `ContainmentCorrect`, `SeparationCorrect`: pieces are
  aligned, lie in blocks of the arena, and do not overlap.
- `OwnershipCorrect`: the list of blocks is what `calloc` returned and nobody freed.
- `TypeCorrect`: no block is filled beyond its size.

The inductive invariant is `BlocksOK /\ ChunksOK /\ ClearingOK`. `BlocksOK`: blocks
are apart, `used` is within the size, and a block is full or its size is a
multiple of 16. That is why the missing alignment offset in the test of
`memory.c:41` does no harm: where the size is a multiple of 16, rounding `used` up
cannot pass a bound that `used` plus a multiple of 16 respects; where it is not, the
block was made for one large request that fills it. `ChunksOK`: every
piece ends before the place of the next one. `ClearingOK`: inside `arena_clear`
there are no pieces, and there is a block.

**Master** (`MasterProofs`), for any set of pids and any number of workers:

- `TypeCorrect`: `Spec => []TypeOK`.
- `OrphansCorrect`: `Spec => []NoOrphans`.
- `TableCorrect`: `Spec => []TableComplete`.
- `KillsCorrect`: `Spec => KillsOnlyChildren`.

`Agreement` says which entries of the table are the children of the master: while
it forks, those before `i`; while it kills, those from `i` on; and no child is there
twice, or the first `waitpid` would free a pid that a later `kill` hits.
`Filled` counts the entries while forking, `Waiting` says that only the worker at
`i` can be under SIGKILL. Death of a worker does not disturb them: a zombie keeps
its pid until `WaitPid`. That is the whole argument of `KillsOnlyChildren`.

- `DecisionNears`: every step of the master lowers three natural numbers (the phase, the
  entries of the table left, and whether the entry has still to be signalled), and
  nobody else changes them.
- `WaitsForTheDead`: `waitpid` is only called for a child that has ended or is under
  SIGKILL.

The two are what `Decides` rests on apart from fairness.

**Http** (`HttpProofs`), for texts of any length, any limit of the uri, and names of
any words:

- `WordsCorrect`: `HttpSpec => []ThreeWordsJudged`.
- `ShapeCorrect`: `HttpSpec => []AcceptedShape`.
- `HeadersIgnored`: `HttpSpec => HeadersDoNotMatter`.
- `NameCorrect`: `HttpSpec => []NameDecides`.

No induction is needed, because the model defines a scan (`strchr`, `strpbrk`,
`strspn`, `strrchr`) by what it finds. That such a position exists is the least
element of a set of numbers, which the library's theorems on well-founded relations
give, and it is unique. `Verdict` then states the parser's answer in terms of any four
positions with these properties, and each theorem names the positions itself: the ends
of the three words, or, for `AcceptedShape`, those of the text that was accepted.
`HeadersIgnored` takes the positions of the text up to `\r`: a scan that runs on behind
it ends beyond the line however the text goes on. `NameCorrect`: the last dot behind
the last slash is the same in a path with another directory.

**Lists** (`PgListProofs`), for any number of variables, cells, headers and elements,
and any reuse of freed blocks:

- `TypeCorrect`: `Spec => []TypeOK`.
- `ListsLinked`: `Spec => []WellLinked`.
- `NoAssertionFails`: `Spec => []AssertionsHold`.
- `IndexFound`: `Spec => []NthRight`.
- `BlocksOwned`: `Spec => []HeapOwned`.
- `LoopsEnd`: `Spec => LoopsAdvance`.

That links lead through `length` cells to `tail` looks like an induction over the
cells. The history `spine` avoids it: it is the sequence of the cells, and `Chained`
says of each of them alone that its link is the next one, or NULL at the end. What a
function does to a list is then an operation on a sequence (`Insert`, `Delete`, `\o`,
`SubSeq`), and the lemmas of the first part say what these do to the elements.

The invariant (`Invariance`: `Spec => []IInv`) has four parts. `Fields` are the types.
`Heap` is about all lists at once: their spines are without repetition and apart, their
links follow them, and the heap is their cells and headers and nothing else; the lemmas
of the second part (`HeapInsert`, `HeapDelete`, `HeapConcat`, ...) say what keeps it so.
`Variables`: `length`, `head` and `tail` fit the spine, and each of the caller's lists is
in one variable. `Progress` is what a loop knows between two rounds, without which no
step that follows a pointer could be justified: where in the spine `cur` and `prev` are
(`Walking`, `Searching`), that the list under construction is the caller's no
more than the one that is freed (`Private`), and that its length counts the cells
that are still to be copied (`Copying`), so that it fits its spine only when the loop
ends; until then its `tail` is not set either.

`LoopsEnd` compares the cells ahead before and after a round. It needs that `foreach`
visits every cell of a list (by the least cell that it would not visit), and that the
list that is iterated is not the one that grows: in `list_concat_unique(l, l)` it is, but
there every element is found and nothing is appended (`OtherListGrows`).

**What the lists hold** (`ListsProofs`), under the same assumptions:

- `ContractKept`: `Spec => Refines`, that is, `PgList` implements `Lists`.

`IInv` says which cells a list has; the invariant added, `Contract`, says what a loop has
done with their elements when it stands at `cur`. `Copied`: the list under construction
holds the elements of the source from `call.n` to the one before `cur`. `Gathered`: after
`k` cells of a `foreach`, the list that grows is `Merging(...)[k]` or `Sifting(...)[k]`,
the k-th stage of the definition in `Lists`. `Passed`: no element before `cur` is the one
to be deleted, so the one found is the first, as `RemoveFirst` has it. The other loops
move through a list that keeps its elements. With that each step is one action of
`Lists` or leaves its variables alone: the round that ends a loop is `Answer`, the rounds
before it are stutters, because the list that changes is in no variable yet
(`Private`) or, for `list_concat_unique`, the abstract variable still shows the elements
`old` of the call.

The stages are recursive functions, and their defining equation has to be proved before
it can be used. `Iterates` does it without an induction principle over operators: if for
some number no function satisfied the equation up to it, there would be a least such
number, and the function for the number before could be extended by one value.

### Only model-checked

- Liveness (`CoopAnswered`, `Decides`): beyond the prover. The variants proved
  (`RoundsEnd`, `DecisionNears`) are the part of it that is not about fairness.
- `WaitsOnlyInSelect` as it stands, because of `ENABLED`. What is proved is
  `NeverBlocks`; that `Able` implies `ENABLED WorkerStep(w)` is read off the actions.

## Findings

1. `server.c:211` asserts that a handled connection is not in CONN_WAITING. A
   client that connects and closes without sending a byte makes `read` return 0,
   `process_request` returns with the state unchanged (`handler.c:293`), and the
   assertion fails: a Debug build loses the worker with all its connections; a
   Release build drops the connection from its list with the socket open
   (run `worker_empty_read`; `Forgotten` in `EveryFdTracked`).
2. `server.h:48` says 414 for HTTP_URI_TOO_LONG, `http.c:168` sends 514
   (run `http_status`).

Seen while reading, and visible in the models though nothing in the repository says
otherwise: HEAD and error responses lack the empty line that ends the headers
(`handler.c:121-124`; `end` in `hdr`); a client that resets at the wrong moment
ends its worker by SIGPIPE (`WriteFails`); a reset in the backlog or the
descriptor limit ends it at `accept` (`AcceptFails`); `http.c:49` reuses the
number of spaces before the uri for those after it, so that a line with two spaces
before the uri, and a space and any one character after it, is accepted
(`AcceptedShape` states exactly that); a request whose first line arrives in two
segments is rejected.

## What is not modelled

- `arena_realloc`, `server_realloc`: no caller. `server_strdup`, `server_memfmt`:
  copies of text.
- Reason phrases, the strings of content types and methods, dates, header text: no
  state depends on them.
- Logging: `log_msg` and `log_perror` use what `snprintf` would have written as the
  length of what was written, which matters for texts longer than their buffers; the
  texts are not modelled.
- Paths: `realpath` and the comparison with the static directory are the choice
  between the file and an error.
- The width of an `fd_set`: nothing in the code keeps a descriptor below `FD_SETSIZE`
  (`server.c:138`), and where the limit on descriptors is higher `FD_SET` writes
  beyond the set. The sets of `Descriptors` hold any number, so `SetsComplete` says
  what `select` is asked and nothing of this limit.
- The heap outside the arena: the path that `realpath` allocated is lost when
  `error_response` leaves by `longjmp` at `handler.c:211`.
- `read_buf_size` 0, which `validate_settings` lets pass, and which makes
  `server_alloc` take the NULL for exhausted memory: the setting is a literal.
- `accept` is given an uninitialised length (`server.c:159`): it limits only how
  much of an address is copied that nobody reads.

## Plan

Done: the workers, their parts and the master with the proofs; the lists and the parser
with the proofs; the abstract `Exchange`, `Lists` and the composition `Server` with the
proofs of their refinements; the variants of the loops of workers, master and lists.
Left, if the prover comes to support `ENABLED`: `WaitsOnlyInSelect` from `NeverBlocks`,
and `Decides` from `DecisionNears` and `WaitsForTheDead`.
