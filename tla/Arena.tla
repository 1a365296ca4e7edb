------------------------------- MODULE Arena -------------------------------
(***************************************************************************)
(* memory.c: the arena of one connection.  Handlers take memory from it    *)
(* piece by piece and never give a piece back; the loop clears it when the *)
(* connection ends.  An address is a number, a block of the arena is the   *)
(* record the code keeps in front of the block's memory.                   *)
(***************************************************************************)
EXTENDS Integers, Sequences

CONSTANTS
  MinBlock,   \* the default of minimum_block_size, 1 << 16
  Requests,   \* the sizes the callers ask for
  Addresses,  \* where calloc may place a block
  MaxChunks   \* bound: pieces handed out before the arena is cleared

ASSUME ArenaAssumption ==
  /\ MinBlock \in Nat \ {0} /\ MinBlock % 16 = 0
  /\ Requests \subseteq Nat \ {0}
  /\ Addresses \subseteq {a \in Nat : a % 16 = 0}   \* what malloc guarantees
  /\ MaxChunks \in Nat

VARIABLES
  blocks,    \* the list from arena->current_block, newest block first
  heap,      \* history: the blocks calloc has returned and nobody has freed
  chunks,    \* history: the pieces handed out since the arena was cleared
  clearing   \* TRUE inside arena_clear

vars == <<blocks, heap, chunks, clearing>>

HeaderSize == 32   \* sizeof(struct memory_arena_block), a multiple of 16

Init ==
  /\ blocks = <<>>
  /\ heap = {}
  /\ chunks = <<>>
  /\ clearing = FALSE

-----------------------------------------------------------------------------
\* arena_alloc.

RoundUp(n) == ((n + 15) \div 16) * 16

Aligned(n) == n % 16 = 0

\* get_alignment_offset: from the first unused byte of b to the next multiple.
AlignOffset(b) ==
  LET result == b.base + b.used
  IN  IF Aligned(result) THEN 0 ELSE 16 - (result % 16)

\* Mutant: room is left for the request as it was made.
FitsUnrounded(b, n) == b.used + n <= b.size

\* The room asked for does not include the alignment offset.
Fits(b, n) == b.used + RoundUp(n) <= b.size

FitsCurrent(n) == blocks # <<>> /\ Fits(Head(blocks), n)

\* Mutant: the piece is placed without the alignment offset.
PlaceUnaligned(b) == b.base + b.used

Place(b) == b.base + b.used + AlignOffset(b)

\* Mutant: two pieces may share the last 16 bytes.
AdvanceOneLess(b, size) == [b EXCEPT !.used = @ + size - 16]

Advance(b, size) == [b EXCEPT !.used = @ + size]

\* size bytes for a request of n in the current block b of the list b, rest.
Bump(b, rest, size, n) ==
  /\ blocks' = <<Advance(b, size)>> \o rest
  /\ chunks' = Append(chunks, [addr |-> Place(b), size |-> n])

Start(b) == b.base - HeaderSize
End(b)   == b.base + b.size

\* Mutant: a block of the minimum size whatever is asked for.
BlockSizeMin(n) == MinBlock

BlockSize(n) == IF MinBlock > n THEN MinBlock ELSE n

\* calloc: zeroed memory that is nobody else's.
Calloc(b) ==
  \A o \in heap : End(b) <= Start(o) \/ End(o) <= Start(b)

AllocFromBlock(n) ==
  /\ ~clearing /\ FitsCurrent(n)
  /\ Bump(Head(blocks), Tail(blocks), RoundUp(n), n)
  /\ UNCHANGED <<heap, clearing>>

\* The first piece of a block is not rounded.  calloc may fail instead: NULL is
\* returned, nothing changes, and server_alloc ends the process (module Worker).
AllocNewBlock(n) ==
  /\ ~clearing /\ ~FitsCurrent(n)
  /\ \E a \in Addresses :
       LET b == [base |-> a + HeaderSize, size |-> BlockSize(n), used |-> 0] IN
       /\ Calloc(b)
       /\ Bump(b, blocks, n, n)
       /\ heap' = heap \cup {[base |-> b.base, size |-> b.size]}
  /\ UNCHANGED clearing

ArenaAlloc(n) ==
  /\ Len(chunks) < MaxChunks
  /\ AllocFromBlock(n) \/ AllocNewBlock(n)

-----------------------------------------------------------------------------
\* arena_clear: one block per turn of its loop.

ArenaClear ==
  /\ ~clearing /\ blocks # <<>>
  /\ clearing' = TRUE
  /\ chunks' = <<>>
  /\ UNCHANGED <<blocks, heap>>

\* Mutant: the loop ends one block early.
LastBlockEarly == Len(blocks) <= 2

LastBlock == Tail(blocks) = <<>>

FreeLastBlock ==
  /\ clearing
  /\ heap' = heap \ {[base |-> Head(blocks).base, size |-> Head(blocks).size]}
  /\ IF LastBlock THEN blocks' = <<>> /\ clearing' = FALSE
                  ELSE blocks' = Tail(blocks) /\ UNCHANGED clearing
  /\ UNCHANGED chunks

Next == (\E n \in Requests : ArenaAlloc(n)) \/ ArenaClear \/ FreeLastBlock

Spec == Init /\ [][Next]_vars

-----------------------------------------------------------------------------
\* Properties.

ChunkEnd(k) == chunks[k].addr + chunks[k].size

\* Fields have their types, and a block is never filled beyond its size.
TypeOK ==
  /\ blocks \in Seq([base : Nat, size : Nat, used : Nat])
  /\ \A i \in DOMAIN blocks : blocks[i].used <= blocks[i].size
  /\ heap \subseteq [base : Nat, size : Nat]
  /\ chunks \in Seq([addr : Nat, size : Nat \ {0}])
  /\ clearing \in BOOLEAN

\* The assertion of memory.c:66 in the next call: the test that lets a request
\* into the current block counts neither the alignment offset nor the bytes the
\* first, unrounded piece has left unaligned, and still there is room for both.
RoomForOffset ==
  blocks # <<>> =>
    LET b == Head(blocks)
    IN  \A n \in Requests : Fits(b, n) => Place(b) + RoundUp(n) <= End(b)

\* Every piece is aligned as malloc's would be: what is kept in it may be a
\* pointer or a structure.
ChunksAligned == \A k \in DOMAIN chunks : Aligned(chunks[k].addr)

\* Every piece lies in the memory of a block that the arena still owns.
ChunksInBlocks ==
  \A k \in DOMAIN chunks : \E i \in DOMAIN blocks :
    blocks[i].base <= chunks[k].addr /\ ChunkEnd(k) <= End(blocks[i])

\* No two pieces overlap: the read buffer, the uri, the path and the headers of
\* a connection live next to each other as long as the connection.
ChunksDisjoint ==
  \A k, m \in DOMAIN chunks :
    k # m => ChunkEnd(k) <= chunks[m].addr \/ ChunkEnd(m) <= chunks[k].addr

\* The arena loses no block and frees none twice: what calloc returned and the
\* list of blocks agree at every moment, so that arena_clear returns all of it.
BlocksOwned ==
  /\ heap = {[base |-> blocks[i].base, size |-> blocks[i].size] : i \in DOMAIN blocks}
  /\ \A i, j \in DOMAIN blocks : blocks[i].base = blocks[j].base => i = j
=============================================================================
