------------------------------ MODULE Handler ------------------------------
(***************************************************************************)
(* handler.c: what a worker does with the connection in hand, from the     *)
(* read of the request to the last byte of the file.  A step ends at each  *)
(* system call, where clients, the file system and other workers can move. *)
(* The functions run inside the event loop (module Worker), which sets     *)
(* g_memory_arena and jmpbuf before the call and looks at conn->state      *)
(* after it; abort_req's longjmp and a plain return arrive at the same     *)
(* place, so both are the step Return.                                     *)
(*                                                                         *)
(* Abstractions: the static directory holds one file, whose byte i is      *)
(* represented by i; a request is represented by the parser's verdict on   *)
(* it; an open file_fd is represented by the kernel's offset in the file.  *)
(***************************************************************************)
EXTENDS Sockets

CONSTANTS
  Workers,  \* the worker processes
  NULL,     \* a null pointer
  BufSize,  \* settings->read_buf_size
  HdrLen,   \* length of a status line with its headers
  FdLimit,  \* connections and files a process may have open
  Errors,   \* codes for a failure of realpath, stat or open
  Rejections  \* codes for a request the parser does not accept

ASSUME HandlerAssumption ==
  /\ NULL \notin Conns \cup Workers
  /\ BufSize \in Nat \ {0}
  /\ HdrLen \in 1..SndBuf   \* a fresh socket takes a whole header (< 4096 bytes)
  /\ FdLimit \in Nat
  /\ Errors \subseteq {"HTTP_FORBIDDEN", "HTTP_NOT_FOUND", "HTTP_INTERNAL_SERVER_ERROR"}
  /\ Rejections \subseteq {"HTTP_BAD_REQUEST", "HTTP_VERSION_NO_SUPPORTED",
                           "HTTP_URI_TOO_LONG", "HTTP_METHOD_NOT_ALLOWED"}

VARIABLES
  \* struct active_connection
  state,            \* conn->state; CONN_WAITING before the accept
  file_fd,          \* -1, or the offset of the open file
  read_buf_size,    \* 0 as long as read_buf is NULL
  read_buf_len,
  read_buf_cursor,
  \* the worker process
  pc,               \* where the worker is; "exited", "aborted", "killed": dead
  active_conns,     \* what this round has still to visit of worker->active_conns
  new_conns,        \* the list the round builds
  ready,            \* the connections select has reported for this round
  g_memory_arena,   \* NULL, or the connection whose arena is current
  resp,             \* the response being prepared
  \* history
  owner,            \* owner[c]: the worker that accepted c
  hdr,              \* hdr[c]: the headers written to c's socket
  wire              \* wire[c]: the bytes of the file written to c's socket

connVars == <<state, file_fd, read_buf_size, read_buf_len, read_buf_cursor>>
listVars == <<active_conns, new_conns, ready>>
outVars  == <<hdr, wire>>

Codes     == {"HTTP_OK", "HTTP_BAD_REQUEST", "HTTP_INTERNAL_SERVER_ERROR"}
               \cup Errors \cup Rejections
Responses == [req : {"NULL", "HTTP_GET", "HTTP_HEAD"}, code : Codes, size : Nat]
Headers   == [code : Codes, size : Nat, whole : BOOLEAN, end : BOOLEAN]

ErrorResponse(code) == [req |-> "NULL", code |-> code, size |-> 0]

Cur(w) == Head(active_conns[w])

\* Mutant: the loop forgets to reset the arena.
ReturnKeepingArena(w) == pc' = [pc EXCEPT ![w] = "settle"] /\ UNCHANGED g_memory_arena

\* Back in conn_loop, by return or by longjmp; g_memory_arena = NULL follows.
Return(w) ==
  /\ pc' = [pc EXCEPT ![w] = "settle"]
  /\ g_memory_arena' = [g_memory_arena EXCEPT ![w] = NULL]

Goto(w, label) == pc' = [pc EXCEPT ![w] = label] /\ UNCHANGED g_memory_arena

ReturnWith(w, s) == state' = [state EXCEPT ![Cur(w)] = s] /\ Return(w)

\* Mutant: an error after the header is reported as one a 500 can answer.
AbortRecoverable(w) == ReturnWith(w, "CONN_ERR_RECOVERABLE")

\* abort_req with the state that lets the loop only close the connection.
Abort(w) == ReturnWith(w, "CONN_ERR_UNRECOVERABLE")

\* The process ends; the kernel closes its descriptors, memory is gone.  lost
\* is the connection, if any, that is gone with the call that failed.
Die(w, how, lost) ==
  /\ pc' = [pc EXCEPT ![w] = how]
  /\ sock' = [c \in Conns |-> IF c \in lost \/ (owner[c] = w /\ sock[c] = "open")
                             THEN "closed" ELSE sock[c]]
  /\ file_fd' = [c \in Conns |-> IF owner[c] = w THEN -1 ELSE file_fd[c]]
  /\ active_conns' = [active_conns EXCEPT ![w] = <<>>]
  /\ new_conns' = [new_conns EXCEPT ![w] = <<>>]
  /\ ready' = [ready EXCEPT ![w] = {}]
  /\ g_memory_arena' = [g_memory_arena EXCEPT ![w] = NULL]
  /\ UNCHANGED <<peer, rx, sndq, fsize, edited, state, read_buf_size, read_buf_len,
                 read_buf_cursor, resp, owner, hdr, wire>>

OpenFds(w) ==
  Cardinality({c \in Conns : owner[c] = w /\ sock[c] = "open"})
    + Cardinality({c \in Conns : owner[c] = w /\ file_fd[c] # -1})

-----------------------------------------------------------------------------
\* read_req_data and the rest of process_request.

\* Mutant: the byte for a terminating 0 is added to the size but not allocated.
AllocReadBufLong(c) == read_buf_size' = [read_buf_size EXCEPT ![c] = BufSize + 1]

AllocReadBuf(c) == read_buf_size' = [read_buf_size EXCEPT ![c] = BufSize]

\* One read takes what has arrived, and the parser judges just that.
ReadAndParse(w) ==
  LET c == Cur(w) IN
  /\ pc[w] = "read" /\ HasRequest(c)
  /\ AllocReadBuf(c)
  /\ rx' = [rx EXCEPT ![c] = "taken"]
  /\ \/ \E m \in {"HTTP_GET", "HTTP_HEAD"} :
          /\ rx[c] = "whole"
          /\ resp' = [resp EXCEPT ![w] = [req |-> m, code |-> "HTTP_OK", size |-> 0]]
          /\ Goto(w, "locate")
     \/ \E code \in IF rx[c] = "whole" THEN Rejections ELSE {"HTTP_BAD_REQUEST"} :
          /\ resp' = [resp EXCEPT ![w] = ErrorResponse(code)]
          /\ Goto(w, "respond")
  /\ UNCHANGED <<sock, peer, sndq, fsize, edited, state, file_fd, read_buf_len,
                 read_buf_cursor, listVars, owner, hdr, wire>>

\* READ_REQ_DATA_EMPTY: process_request returns and leaves conn->state alone.
ReadEof(w) ==
  /\ pc[w] = "read" /\ ~HasRequest(Cur(w)) /\ peer[Cur(w)] = "fin"
  /\ AllocReadBuf(Cur(w))
  /\ Return(w)
  /\ UNCHANGED <<sockVars, state, file_fd, read_buf_len, read_buf_cursor,
                 listVars, resp, owner, outVars>>

ReadError(w) ==
  /\ pc[w] = "read" /\ peer[Cur(w)] = "rst"
  /\ AllocReadBuf(Cur(w))
  /\ ReturnWith(w, "CONN_ERR_RECOVERABLE")
  /\ UNCHANGED <<sockVars, file_fd, read_buf_len, read_buf_cursor,
                 listVars, resp, owner, outVars>>

-----------------------------------------------------------------------------
\* serve_get_request and serve_head_request.

\* resolve_path and get_file_info: the size of the file is fixed here.
Locate(w) ==
  /\ pc[w] = "locate"
  /\ \/ \E code \in Errors :
          /\ resp' = [resp EXCEPT ![w] = ErrorResponse(code)]
          /\ Goto(w, "respond")
          /\ UNCHANGED edited
     \/ /\ resp' = [resp EXCEPT ![w].size = fsize]
        /\ edited' = [edited EXCEPT ![Cur(w)] = FALSE]
        /\ Goto(w, IF resp[w].req = "HTTP_GET" THEN "open" ELSE "respond")
  /\ UNCHANGED <<sock, peer, rx, sndq, fsize, connVars, listVars, owner, outVars>>

\* open may fail as stat may, and for want of a descriptor.
OpenFile(w) ==
  /\ pc[w] = "open"
  /\ \/ \E code \in Errors :
          /\ resp' = [resp EXCEPT ![w] = ErrorResponse(code)]
          /\ UNCHANGED file_fd
     \/ /\ OpenFds(w) < FdLimit
        /\ file_fd' = [file_fd EXCEPT ![Cur(w)] = 0]
        /\ UNCHANGED resp
  /\ Goto(w, "respond")
  /\ UNCHANGED <<sockVars, state, read_buf_size, read_buf_len, read_buf_cursor,
                 listVars, owner, outVars>>

-----------------------------------------------------------------------------
\* send_response.

\* write on a reset connection: the error the code handles, or SIGPIPE, for
\* which no handler is installed.
WriteFails(w) ==
  \/ /\ Abort(w)
     /\ UNCHANGED <<sockVars, file_fd, read_buf_size, read_buf_len, read_buf_cursor,
                    listVars, resp, owner, outVars>>
  \/ Die(w, "killed", {})

HasBody(r) == r.req = "HTTP_GET"

\* The status line and headers; the empty line only where a body may follow.
\* A short write goes unnoticed.  A response with a body always has file_fd
\* open: no caller sets resp->body.
SendHeader(w) ==
  LET c == Cur(w)
      r == resp[w]
      n == Accepted(c, HdrLen) IN
  /\ pc[w] = "respond" /\ peer[c] # "rst" /\ n > 0
  /\ sndq' = [sndq EXCEPT ![c] = @ + n]
  /\ hdr' = [hdr EXCEPT ![c] = Append(@, [code |-> r.code, size |-> r.size,
                                          whole |-> n = HdrLen, end |-> HasBody(r)])]
  /\ \/ ~HasBody(r) /\ ReturnWith(w, "CONN_COMPLETE")
     \/ HasBody(r) /\ Abort(w)                   \* set_nonblocking failed
     \/ /\ HasBody(r)
        /\ state' = [state EXCEPT ![c] = "CONN_SENDING"]
        /\ Goto(w, "pump")
  /\ UNCHANGED <<sock, peer, rx, fsize, edited, file_fd, read_buf_size, read_buf_len,
                 read_buf_cursor, listVars, resp, owner, wire>>

SendHeaderFails(w) ==
  /\ pc[w] = "respond" /\ peer[Cur(w)] = "rst"
  /\ WriteFails(w)

-----------------------------------------------------------------------------
\* process_request_write: the loop alternates between its two system calls.

\* Mutants: the buffer is refilled after a partial write; the cursor is not
\* compared with the length.
BufferEmptyAfterWrite(c) == read_buf_len[c] = 0 \/ read_buf_cursor[c] > 0
BufferEmptyNoCursor(c) == read_buf_len[c] = 0

BufferEmpty(c) == read_buf_len[c] = 0 \/ read_buf_cursor[c] = read_buf_len[c]

\* Mutant: a read that does not fill the buffer is taken for the last one.
EndOfFileOnShortRead(c, n) == n < read_buf_size[c]

\* Mutant: the empty read is not taken for the end, only an error is.
EndOfFileOnError(c, n) == n < 0

EndOfFile(c, n) == n <= 0

ReadFile(w) ==
  LET c == Cur(w)
      n == Smaller(read_buf_size[c], fsize - file_fd[c]) IN
  /\ pc[w] = "pump" /\ BufferEmpty(c)
  /\ \/ /\ ~EndOfFile(c, n)
        /\ read_buf_len' = [read_buf_len EXCEPT ![c] = n]
        /\ read_buf_cursor' = [read_buf_cursor EXCEPT ![c] = 0]
        /\ file_fd' = [file_fd EXCEPT ![c] = @ + n]
        /\ Goto(w, "pump")
        /\ UNCHANGED state
     \/ /\ \/ EndOfFile(c, n) /\ ReturnWith(w, "CONN_COMPLETE")
           \/ Abort(w)                            \* read failed, e.g. a directory
        /\ UNCHANGED <<read_buf_len, read_buf_cursor, file_fd>>
  /\ UNCHANGED <<sockVars, read_buf_size, listVars, resp, owner, outVars>>

WriteSocket(w) ==
  LET c == Cur(w)
      n == Accepted(c, read_buf_len[c] - read_buf_cursor[c])
      first == file_fd[c] - read_buf_len[c] + read_buf_cursor[c] IN
  /\ pc[w] = "pump" /\ ~BufferEmpty(c) /\ peer[c] # "rst"
  /\ \/ /\ n > 0
        /\ sndq' = [sndq EXCEPT ![c] = @ + n]
        /\ wire' = [wire EXCEPT ![c] = @ \o [i \in 1..n |-> first + i]]
        /\ read_buf_cursor' = [read_buf_cursor EXCEPT ![c] = @ + n]
        /\ Goto(w, "pump")
     \/ /\ n = 0 /\ Return(w)      \* EAGAIN: stay in CONN_SENDING
        /\ UNCHANGED <<sndq, wire, read_buf_cursor>>
  /\ UNCHANGED <<sock, peer, rx, fsize, edited, state, file_fd, read_buf_size,
                 read_buf_len, listVars, resp, owner, hdr>>

WriteSocketFails(w) ==
  /\ pc[w] = "pump" /\ ~BufferEmpty(Cur(w)) /\ peer[Cur(w)] = "rst"
  /\ WriteFails(w)
=============================================================================
