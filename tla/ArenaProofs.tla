---------------------------- MODULE ArenaProofs ----------------------------
(***************************************************************************)
(* Proofs about the arena, for every size of its blocks, all requests and  *)
(* every placement of the blocks by calloc.                                *)
(***************************************************************************)
EXTENDS Arena, TLAPS

-----------------------------------------------------------------------------
\* Arithmetic of the alignment.

LEMMA RoundUpFacts ==
  ASSUME NEW n \in Nat
  PROVE  /\ RoundUp(n) \in Nat
         /\ n <= RoundUp(n) /\ RoundUp(n) < n + 16
         /\ Aligned(RoundUp(n))
  BY DEF RoundUp, Aligned

LEMMA AlignedSum ==
  ASSUME NEW m \in Nat, NEW n \in Nat, Aligned(n)
  PROVE  (m + n) % 16 = m % 16
  BY DEF Aligned

LEMMA AlignedGap ==
  ASSUME NEW m \in Nat, NEW n \in Nat, Aligned(m), Aligned(n), m < n
  PROVE  m + 16 <= n
  BY DEF Aligned

BlockType == [base : Nat, size : Nat, used : Nat]

LEMMA PlaceFacts ==
  ASSUME NEW b \in BlockType
  PROVE  /\ Place(b) \in Nat
         /\ b.base + b.used <= Place(b) /\ Place(b) < b.base + b.used + 16
         /\ Aligned(Place(b))
  <1> DEFINE r == b.base + b.used
             m == r % 16
  <1>1. b.base \in Nat /\ b.used \in Nat  BY DEF BlockType
  <1>2. r \in Nat /\ m \in 0..15  BY <1>1
  <1>3. Place(b) = r + (IF m = 0 THEN 0 ELSE 16 - m)
    BY DEF Place, AlignOffset, Aligned
  <1>4. Aligned(r + (IF m = 0 THEN 0 ELSE 16 - m))
    <2> HIDE DEF r
    <2> QED  BY <1>2 DEF Aligned
  <1> HIDE DEF m
  <1>5. /\ r + (IF m = 0 THEN 0 ELSE 16 - m) \in Nat
        /\ r <= r + (IF m = 0 THEN 0 ELSE 16 - m)
        /\ r + (IF m = 0 THEN 0 ELSE 16 - m) < r + 16
    <2> HIDE DEF r
    <2> QED  BY <1>2
  <1> QED  BY <1>3, <1>4, <1>5

\* After a rounded piece the next one follows without a gap.
LEMMA PlaceAdvance ==
  ASSUME NEW b \in BlockType, NEW size \in Nat, Aligned(size)
  PROVE  /\ Advance(b, size) \in BlockType
         /\ Place(Advance(b, size)) = Place(b) + size
  <1> DEFINE r == b.base + b.used
  <1>1. /\ Advance(b, size) \in BlockType
        /\ Advance(b, size).base = b.base
        /\ Advance(b, size).used = b.used + size
    BY DEF Advance, BlockType
  <1>2. (r + size) % 16 = r % 16  BY AlignedSum DEF BlockType
  <1>3. Advance(b, size).base + Advance(b, size).used = r + size
    BY <1>1 DEF BlockType
  <1>4. AlignOffset(Advance(b, size)) = AlignOffset(b)
    BY <1>2, <1>3 DEF AlignOffset, Aligned
  <1>5. AlignOffset(b) \in Int
    <2>1. r % 16 \in Int  BY DEF BlockType
    <2> QED  BY <2>1 DEF AlignOffset
  <1> QED
    BY <1>1, <1>3, <1>4, <1>5 DEF Place, BlockType

-----------------------------------------------------------------------------
\* Sequences, as the list of blocks uses them.

LEMMA Cons ==
  ASSUME NEW S, NEW b \in S, NEW s \in Seq(S)
  PROVE  /\ <<b>> \o s \in Seq(S)
         /\ Len(<<b>> \o s) = Len(s) + 1
         /\ (<<b>> \o s)[1] = b
         /\ \A i \in 1..Len(s) : (<<b>> \o s)[i + 1] = s[i]
  OBVIOUS

LEMMA TailSeq ==
  ASSUME NEW S, NEW s \in Seq(S), s # <<>>
  PROVE  /\ Head(s) = s[1] /\ Head(s) \in S /\ 1 \in DOMAIN s
         /\ Tail(s) \in Seq(S)
         /\ Len(Tail(s)) = Len(s) - 1
         /\ \A i \in 1..(Len(s) - 1) : Tail(s)[i] = s[i + 1]
  OBVIOUS

-----------------------------------------------------------------------------
\* The inductive invariant.

\* A block is full, or its end is aligned: only a request larger than MinBlock
\* makes a block of an odd size, and fills it at once.
BlockOK(b) ==
  /\ b \in BlockType
  /\ Aligned(b.base)
  /\ HeaderSize <= b.base
  /\ b.used <= b.size
  /\ b.used = b.size \/ Aligned(b.size)

Region(b) == [base |-> b.base, size |-> b.size]

Apart(a, b) == End(a) <= Start(b) \/ End(b) <= Start(a)

BlocksOK ==
  /\ blocks \in Seq(BlockType)
  /\ \A i \in DOMAIN blocks : BlockOK(blocks[i])
  /\ \A i, j \in DOMAIN blocks : i # j => Apart(blocks[i], blocks[j])
  /\ heap = {Region(blocks[i]) : i \in DOMAIN blocks}

\* k lies in b, below the place of the next piece.
Holds(b, k) ==
  /\ b.base <= k.addr
  /\ k.addr + k.size <= End(b)
  /\ k.addr + k.size <= Place(b)

ChunkType == [addr : Nat, size : Nat \ {0}]

ChunksOK ==
  /\ chunks \in Seq(ChunkType)
  /\ \A k \in DOMAIN chunks : \E i \in DOMAIN blocks : Holds(blocks[i], chunks[k])
  /\ ChunksAligned
  /\ ChunksDisjoint

ClearingOK == clearing \in BOOLEAN /\ (clearing => blocks # <<>> /\ chunks = <<>>)

IInv == BlocksOK /\ ChunksOK /\ ClearingOK

-----------------------------------------------------------------------------
\* Where a piece goes when it is taken from block b of room enough: what the
\* two ways to allocate have in common.

LEMMA RoomInBlock ==
  ASSUME NEW b, BlockOK(b), NEW n \in Nat \ {0}, Fits(b, n)
  PROVE  Place(b) + RoundUp(n) <= End(b)
  <1>1. /\ b.base \in Nat /\ b.used \in Nat /\ b.size \in Nat
        /\ RoundUp(n) \in Nat /\ n <= RoundUp(n) /\ Aligned(RoundUp(n))
        /\ Place(b) \in Nat /\ Place(b) < b.base + b.used + 16 /\ Aligned(Place(b))
    BY RoundUpFacts, PlaceFacts DEF BlockOK, BlockType
  <1>2. b.used + RoundUp(n) <= b.size  BY DEF Fits
  <1>3. Aligned(b.size)  BY <1>1, <1>2 DEF BlockOK
  <1>4. End(b) \in Nat /\ Aligned(End(b))
    <2>1. Aligned(b.base)  BY DEF BlockOK
    <2> QED  BY <1>1, <1>3, <2>1 DEF End, Aligned
  <1>5. Place(b) + RoundUp(n) \in Nat /\ Aligned(Place(b) + RoundUp(n))
    BY <1>1 DEF Aligned
  <1>6. Place(b) + RoundUp(n) < End(b) + 16
    BY <1>1, <1>2 DEF End
  <1> QED  BY <1>4, <1>5, <1>6, AlignedGap

LEMMA ChunksSeq ==
  ASSUME IInv
  PROVE  DOMAIN chunks = 1..Len(chunks) /\ Len(chunks) \in Nat
  BY DEF IInv, ChunksOK

LEMMA ChunkTyped ==
  ASSUME IInv, NEW i \in DOMAIN chunks
  PROVE  chunks[i] \in ChunkType
  <1>1. chunks \in Seq(ChunkType)  BY DEF IInv, ChunksOK
  <1> QED  BY <1>1

LEMMA FromBlockOK ==
  ASSUME IInv, NEW n \in Nat \ {0}, AllocFromBlock(n)
  PROVE  IInv'
  <1> DEFINE b  == Head(blocks)
             bb == Advance(b, RoundUp(n))
             k  == [addr |-> Place(b), size |-> n]
  <1>1. /\ blocks # <<>> /\ Fits(b, n) /\ ~clearing
        /\ blocks' = <<bb>> \o Tail(blocks)
        /\ chunks' = Append(chunks, k)
        /\ heap' = heap /\ clearing' = clearing
    BY DEF AllocFromBlock, FitsCurrent, Bump
  <1>2. /\ b = blocks[1] /\ 1 \in DOMAIN blocks /\ BlockOK(b)
        /\ Tail(blocks) \in Seq(BlockType) /\ Len(Tail(blocks)) = Len(blocks) - 1
        /\ \A i \in 1..(Len(blocks) - 1) : Tail(blocks)[i] = blocks[i + 1]
    BY <1>1, TailSeq DEF IInv, BlocksOK
  <1>3. /\ RoundUp(n) \in Nat /\ n <= RoundUp(n) /\ Aligned(RoundUp(n))
        /\ Place(b) \in Nat /\ Aligned(Place(b)) /\ b.base <= Place(b)
        /\ Place(b) + RoundUp(n) <= End(b)
    <2>1. b \in BlockType /\ b.base \in Nat /\ b.used \in Nat
      BY <1>2 DEF BlockOK, BlockType
    <2>2. b.base <= Place(b)  BY <2>1, PlaceFacts
    <2> HIDE DEF b
    <2> QED  BY <1>1, <1>2, <2>1, <2>2, RoundUpFacts, PlaceFacts, RoomInBlock
  <1>4. /\ bb \in BlockType /\ bb.base = b.base /\ bb.size = b.size
        /\ bb.used = b.used + RoundUp(n)
        /\ Place(bb) = Place(b) + RoundUp(n)
    BY <1>2, <1>3, PlaceAdvance DEF BlockOK, BlockType, Advance
  <1>5. BlockOK(bb) /\ Start(bb) = Start(b) /\ End(bb) = End(b) /\ Region(bb) = Region(b)
    <2>1. Aligned(b.size)  BY <1>1, <1>2, <1>3 DEF BlockOK, BlockType, Fits
    <2> QED
      BY <1>1, <1>2, <1>3, <1>4, <2>1 DEF BlockOK, BlockType, Fits, Start, End, Region
  <1>6. /\ blocks' \in Seq(BlockType) /\ DOMAIN blocks' = DOMAIN blocks
        /\ blocks'[1] = bb
        /\ \A i \in DOMAIN blocks : i # 1 => blocks'[i] = blocks[i]
    <2>1. /\ blocks' \in Seq(BlockType) /\ Len(blocks') = Len(Tail(blocks)) + 1
          /\ blocks'[1] = bb
          /\ \A i \in 1..Len(Tail(blocks)) : blocks'[i + 1] = Tail(blocks)[i]
      BY <1>1, <1>2, <1>4, Cons
    <2>2. DOMAIN blocks = 1..Len(blocks) /\ Len(blocks) \in Nat
          /\ DOMAIN blocks' = 1..Len(blocks')
      <3>1. blocks \in Seq(BlockType)  BY DEF IInv, BlocksOK
      <3>2. blocks' \in Seq(BlockType)  BY <2>1
      <3> QED  BY <3>1, <3>2
    <2>3. DOMAIN blocks' = DOMAIN blocks
      BY <1>2, <2>1, <2>2
    <2>4. ASSUME NEW i \in DOMAIN blocks, i # 1
          PROVE  blocks'[i] = blocks[i]
      <3>1. i - 1 \in 1..(Len(blocks) - 1) /\ (i - 1) + 1 = i  BY <2>2, <2>4
      <3>2. blocks'[(i - 1) + 1] = blocks[(i - 1) + 1]  BY <1>2, <2>1, <3>1
      <3> QED  BY <3>1, <3>2
    <2> QED  BY <2>1, <2>3, <2>4
  <1> HIDE DEF b, bb
  <1>7. \A i \in DOMAIN blocks :
          /\ BlockOK(blocks'[i]) /\ Start(blocks'[i]) = Start(blocks[i])
          /\ End(blocks'[i]) = End(blocks[i]) /\ Region(blocks'[i]) = Region(blocks[i])
    BY <1>2, <1>5, <1>6 DEF IInv, BlocksOK
  <1>8. BlocksOK'
    <2>1. heap' = {Region(blocks'[i]) : i \in DOMAIN blocks'}
      BY <1>1, <1>6, <1>7 DEF IInv, BlocksOK
    <2>2. \A i, j \in DOMAIN blocks' : i # j => Apart(blocks'[i], blocks'[j])
      BY <1>6, <1>7 DEF IInv, BlocksOK, Apart
    <2> QED  BY <1>6, <1>7, <2>1, <2>2 DEF BlocksOK
  <1>9. Holds(bb, k)
    <2>1. k.addr = Place(b) /\ k.size = n  OBVIOUS
    <2>2. End(b) \in Int  BY <1>2 DEF BlockOK, BlockType, End
    <2> HIDE DEF k
    <2> QED  BY <1>3, <1>4, <1>5, <2>1, <2>2 DEF Holds
  <1>10. /\ chunks' \in Seq(ChunkType)
         /\ DOMAIN chunks' = 1..(Len(chunks) + 1)
         /\ chunks'[Len(chunks) + 1] = k
         /\ \A i \in DOMAIN chunks : chunks'[i] = chunks[i]
    <2>1. chunks \in Seq(ChunkType)  BY DEF IInv, ChunksOK
    <2>2. k \in ChunkType  BY <1>3 DEF ChunkType
    <2> HIDE DEF k
    <2> QED  BY <1>1, <2>1, <2>2
  <1>11. \A i \in DOMAIN chunks :
           /\ chunks[i] \in ChunkType
           /\ \E j \in DOMAIN blocks : Holds(blocks'[j], chunks[i])
           /\ ChunkEnd(i) <= Place(b) \/ Place(b) + n <= chunks[i].addr
    <2> SUFFICES ASSUME NEW i \in DOMAIN chunks
                 PROVE  /\ chunks[i] \in ChunkType
                        /\ \E j \in DOMAIN blocks : Holds(blocks'[j], chunks[i])
                        /\ ChunkEnd(i) <= Place(b) \/ Place(b) + n <= chunks[i].addr
      OBVIOUS
    <2>1. chunks[i] \in ChunkType  BY ChunkTyped
    <2>2. PICK j \in DOMAIN blocks : Holds(blocks[j], chunks[i])  BY DEF IInv, ChunksOK
    <2>3. CASE j = 1
      <3>1. Holds(bb, chunks[i])
        BY <1>2, <1>3, <1>4, <1>5, <2>1, <2>2, <2>3 DEF Holds, ChunkType
      <3>2. ChunkEnd(i) <= Place(b)  BY <1>2, <2>2, <2>3 DEF Holds, ChunkEnd
      <3> QED  BY <1>6, <2>1, <2>2, <2>3, <3>1, <3>2
    <2>4. CASE j # 1
      <3>1. Apart(blocks[1], blocks[j]) /\ blocks[j] \in BlockType
        BY <1>2, <2>4 DEF IInv, BlocksOK
      <3>2. /\ b.base \in Nat /\ b.size \in Nat
            /\ blocks[j].base \in Nat /\ blocks[j].size \in Nat
            /\ chunks[i].addr \in Nat /\ chunks[i].size \in Nat
        BY <1>2, <2>1, <3>1 DEF BlockOK, BlockType, ChunkType
      <3>3. /\ b.base + b.size <= blocks[j].base - 32
               \/ blocks[j].base + blocks[j].size <= b.base - 32
            /\ blocks[j].base <= chunks[i].addr
            /\ chunks[i].addr + chunks[i].size <= blocks[j].base + blocks[j].size
        BY <1>2, <2>2, <3>1 DEF Apart, Holds, Start, End, HeaderSize
      <3>4. ChunkEnd(i) <= Place(b) \/ Place(b) + n <= chunks[i].addr
        <4>1. Place(b) + n <= b.base + b.size  BY <1>3, <3>2 DEF End
        <4> QED  BY <1>3, <3>2, <3>3, <4>1 DEF ChunkEnd
      <3> QED  BY <1>6, <2>1, <2>2, <2>4, <3>4
    <2> QED  BY <2>3, <2>4
  <1>12. ChunksOK'
    <2>1. \A i \in DOMAIN chunks' : \E j \in DOMAIN blocks' : Holds(blocks'[j], chunks'[i])
      <3> SUFFICES ASSUME NEW i \in DOMAIN chunks'
                   PROVE  \E j \in DOMAIN blocks' : Holds(blocks'[j], chunks'[i])
        OBVIOUS
      <3>1. CASE i \in DOMAIN chunks  BY <1>6, <1>10, <1>11, <3>1
      <3>2. CASE i = Len(chunks) + 1  BY <1>2, <1>6, <1>9, <1>10, <3>2
      <3>3. chunks \in Seq(ChunkType)  BY DEF IInv, ChunksOK
      <3> QED  BY <1>10, <3>1, <3>2, <3>3
    <2>2. ChunksAligned'
      <3>1. k.addr = Place(b)  OBVIOUS
      <3>2. \A i \in DOMAIN chunks' : i \in DOMAIN chunks \/ i = Len(chunks) + 1
        BY <1>10, ChunksSeq
      <3> HIDE DEF k
      <3> QED  BY <1>3, <1>10, <3>1, <3>2 DEF IInv, ChunksOK, ChunksAligned
    <2>3. ChunksDisjoint'
      <3> SUFFICES ASSUME NEW i \in DOMAIN chunks', NEW j \in DOMAIN chunks', i # j
                   PROVE  ChunkEnd(i)' <= (chunks[j].addr)' \/ ChunkEnd(j)' <= (chunks[i].addr)'
        BY DEF ChunksDisjoint
      <3>1. PICK top \in Nat : top = Len(chunks) + 1  BY ChunksSeq
      <3>2. \A m \in DOMAIN chunks' : m \in DOMAIN chunks \/ m = top
        BY <1>10, <3>1, ChunksSeq
      <3>3. k.addr = Place(b) /\ k.size = n  OBVIOUS
      <3> HIDE DEF k
      <3>4. (chunks[top].addr)' = Place(b) /\ ChunkEnd(top)' = Place(b) + n
        BY <1>10, <3>1, <3>3 DEF ChunkEnd
      <3>5. \A m \in DOMAIN chunks :
              ChunkEnd(m)' = ChunkEnd(m) /\ (chunks[m].addr)' = chunks[m].addr
        BY <1>10 DEF ChunkEnd
      <3>6. CASE i \in DOMAIN chunks /\ j \in DOMAIN chunks
        BY <3>5, <3>6 DEF IInv, ChunksOK, ChunksDisjoint
      <3>7. CASE i \in DOMAIN chunks /\ j = top
        BY <1>11, <3>4, <3>5, <3>7
      <3>8. CASE i = top /\ j \in DOMAIN chunks
        BY <1>11, <3>4, <3>5, <3>8
      <3> QED  BY <3>2, <3>6, <3>7, <3>8
    <2> QED  BY <1>10, <2>1, <2>2, <2>3 DEF ChunksOK
  <1>13. ClearingOK'
    BY <1>1 DEF IInv, ClearingOK
  <1> QED  BY <1>8, <1>12, <1>13 DEF IInv

LEMMA NewBlockOK ==
  ASSUME IInv, NEW n \in Nat \ {0}, AllocNewBlock(n)
  PROVE  IInv'
  <1>1. PICK a \in Addresses :
          LET b == [base |-> a + HeaderSize, size |-> BlockSize(n), used |-> 0] IN
          /\ Calloc(b)
          /\ Bump(b, blocks, n, n)
          /\ heap' = heap \cup {[base |-> b.base, size |-> b.size]}
    BY DEF AllocNewBlock
  <1> DEFINE b  == [base |-> a + HeaderSize, size |-> BlockSize(n), used |-> 0]
             bb == Advance(b, n)
             k  == [addr |-> Place(b), size |-> n]
  <1>2. /\ blocks' = <<bb>> \o blocks
        /\ chunks' = Append(chunks, k)
        /\ heap' = heap \cup {Region(b)}
        /\ ~clearing /\ clearing' = clearing
    BY <1>1 DEF AllocNewBlock, Bump, Region
  <1>3. /\ a \in Nat /\ Aligned(a)
        /\ BlockSize(n) \in Nat /\ n <= BlockSize(n)
        /\ n = BlockSize(n) \/ Aligned(BlockSize(n))
    BY ArenaAssumption DEF BlockSize, Aligned
  <1>4. /\ b \in BlockType /\ b.base = a + 32 /\ b.size = BlockSize(n) /\ b.used = 0
        /\ Aligned(b.base)
    BY <1>3 DEF BlockType, HeaderSize, Aligned
  <1>5. bb \in BlockType /\ bb.base = b.base /\ bb.size = b.size /\ bb.used = n
    BY <1>4 DEF Advance, BlockType
  <1>6. \A o \in heap : End(b) <= Start(o) \/ End(o) <= Start(b)
    BY <1>1 DEF Calloc
  <1> HIDE DEF b, bb
  <1>7. BlockOK(bb) /\ Start(bb) = Start(b) /\ End(bb) = End(b) /\ Region(bb) = Region(b)
    BY <1>3, <1>4, <1>5 DEF BlockOK, BlockType, HeaderSize, Start, End, Region
  <1>8. Place(b) = b.base
    BY <1>4 DEF Place, AlignOffset, BlockType
  <1>9. \A i \in DOMAIN blocks : Apart(bb, blocks[i])
    <2> SUFFICES ASSUME NEW i \in DOMAIN blocks PROVE Apart(bb, blocks[i])  OBVIOUS
    <2>1. Region(blocks[i]) \in heap  BY DEF IInv, BlocksOK
    <2>2. /\ Start(Region(blocks[i])) = Start(blocks[i])
          /\ End(Region(blocks[i])) = End(blocks[i])
      BY DEF Region, Start, End
    <2> QED  BY <1>6, <1>7, <2>1, <2>2 DEF Apart
  <1>10. /\ blocks \in Seq(BlockType) /\ blocks' \in Seq(BlockType)
         /\ Len(blocks') = Len(blocks) + 1
         /\ blocks'[1] = bb
         /\ \A i \in DOMAIN blocks : blocks'[i + 1] = blocks[i]
    <2>1. blocks \in Seq(BlockType)  BY DEF IInv, BlocksOK
    <2> QED  BY <1>2, <1>5, <2>1, Cons
  <1>11. /\ 1 \in DOMAIN blocks'
         /\ \A i \in DOMAIN blocks : i + 1 \in DOMAIN blocks'
         /\ \A i \in DOMAIN blocks' : i = 1 \/ \E j \in DOMAIN blocks : i = j + 1
    <2>1. /\ Len(blocks) \in Nat
          /\ DOMAIN blocks = 1..Len(blocks) /\ DOMAIN blocks' = 1..(Len(blocks) + 1)
      BY <1>10
    <2>2. ASSUME NEW i \in DOMAIN blocks', i # 1
          PROVE  \E j \in DOMAIN blocks : i = j + 1
      <3>1. i - 1 \in DOMAIN blocks /\ i = (i - 1) + 1  BY <2>1, <2>2
      <3> QED  BY <3>1
    <2> QED  BY <2>1, <2>2
  <1>12. BlocksOK'
    <2>1. \A i \in DOMAIN blocks' : BlockOK(blocks'[i])
      BY <1>7, <1>10, <1>11 DEF IInv, BlocksOK
    <2>2. \A i, j \in DOMAIN blocks' : i # j => Apart(blocks'[i], blocks'[j])
      <3>1. \A i, j \in DOMAIN blocks : i # j => Apart(blocks[i], blocks[j])
        BY DEF IInv, BlocksOK
      <3>2. \A i \in DOMAIN blocks : Apart(blocks[i], bb)  BY <1>9 DEF Apart
      <3> QED  BY <1>9, <1>10, <1>11, <3>1, <3>2
    <2>3. heap' = {Region(blocks'[i]) : i \in DOMAIN blocks'}
      <3>1. heap = {Region(blocks[i]) : i \in DOMAIN blocks}  BY DEF IInv, BlocksOK
      <3>2. heap' = heap \cup {Region(bb)}  BY <1>2, <1>7
      <3> QED  BY <1>10, <1>11, <3>1, <3>2
    <2> QED  BY <1>10, <2>1, <2>2, <2>3 DEF BlocksOK
  <1>13. /\ chunks' \in Seq(ChunkType)
         /\ DOMAIN chunks' = 1..(Len(chunks) + 1)
         /\ chunks'[Len(chunks) + 1] = k
         /\ \A i \in DOMAIN chunks : chunks'[i] = chunks[i]
    <2>1. chunks \in Seq(ChunkType)  BY DEF IInv, ChunksOK
    <2>2. k \in ChunkType  BY <1>4, <1>8 DEF ChunkType, BlockType
    <2> HIDE DEF k
    <2> QED  BY <1>2, <2>1, <2>2
  <1>14. Holds(bb, k)
    <2>1. k.addr = Place(b) /\ k.size = n  OBVIOUS
    <2>2. bb.base + bb.used <= Place(bb)  BY <1>5, PlaceFacts
    <2> HIDE DEF k
    <2> QED  BY <1>3, <1>4, <1>5, <1>8, <2>1, <2>2 DEF Holds, End, BlockType
  <1>15. \A i \in DOMAIN chunks :
           /\ chunks[i] \in ChunkType
           /\ \E j \in DOMAIN blocks : Holds(blocks[j], chunks[i])
           /\ ChunkEnd(i) <= Place(b) \/ Place(b) + n <= chunks[i].addr
    <2> SUFFICES ASSUME NEW i \in DOMAIN chunks
                 PROVE  /\ chunks[i] \in ChunkType
                        /\ \E j \in DOMAIN blocks : Holds(blocks[j], chunks[i])
                        /\ ChunkEnd(i) <= Place(b) \/ Place(b) + n <= chunks[i].addr
      OBVIOUS
    <2>1. chunks[i] \in ChunkType  BY ChunkTyped
    <2>2. PICK j \in DOMAIN blocks : Holds(blocks[j], chunks[i])  BY DEF IInv, ChunksOK
    <2>3. Apart(bb, blocks[j]) /\ blocks[j] \in BlockType  BY <1>9, <1>10
    <2>4. /\ b.base \in Nat /\ b.size \in Nat
          /\ blocks[j].base \in Nat /\ blocks[j].size \in Nat
          /\ chunks[i].addr \in Nat /\ chunks[i].size \in Nat
      BY <1>4, <2>1, <2>3 DEF BlockType, ChunkType
    <2>5. /\ b.base + b.size <= blocks[j].base - 32
             \/ blocks[j].base + blocks[j].size <= b.base - 32
          /\ blocks[j].base <= chunks[i].addr
          /\ chunks[i].addr + chunks[i].size <= blocks[j].base + blocks[j].size
      BY <1>7, <2>2, <2>3 DEF Apart, Holds, Start, End, HeaderSize
    <2>6. ChunkEnd(i) <= Place(b) \/ Place(b) + n <= chunks[i].addr
      <3>1. Place(b) + n <= b.base + b.size  BY <1>3, <1>4, <1>8, <2>4
      <3> QED  BY <1>8, <2>4, <2>5, <3>1 DEF ChunkEnd
    <2> QED  BY <2>1, <2>2, <2>6
  <1>16. ChunksOK'
    <2>1. PICK top \in Nat : top = Len(chunks) + 1  BY ChunksSeq
    <2>2. \A m \in DOMAIN chunks' : m \in DOMAIN chunks \/ m = top
      BY <1>13, <2>1, ChunksSeq
    <2>3. k.addr = Place(b) /\ k.size = n  OBVIOUS
    <2> HIDE DEF k
    <2>4. \A i \in DOMAIN chunks' : \E j \in DOMAIN blocks' : Holds(blocks'[j], chunks'[i])
      BY <1>10, <1>11, <1>13, <1>14, <1>15, <2>1, <2>2
    <2>5. ChunksAligned'
      BY <1>4, <1>8, <1>13, <2>1, <2>2, <2>3 DEF IInv, ChunksOK, ChunksAligned
    <2>6. (chunks[top].addr)' = Place(b) /\ ChunkEnd(top)' = Place(b) + n
      BY <1>13, <2>1, <2>3 DEF ChunkEnd
    <2>7. \A m \in DOMAIN chunks :
            ChunkEnd(m)' = ChunkEnd(m) /\ (chunks[m].addr)' = chunks[m].addr
      BY <1>13 DEF ChunkEnd
    <2>8. ChunksDisjoint'
      BY <1>15, <2>2, <2>6, <2>7 DEF IInv, ChunksOK, ChunksDisjoint
    <2> QED  BY <1>13, <2>4, <2>5, <2>8 DEF ChunksOK
  <1>17. ClearingOK'
    BY <1>2, <1>10 DEF IInv, ClearingOK
  <1> QED  BY <1>12, <1>16, <1>17 DEF IInv

-----------------------------------------------------------------------------
\* arena_clear.

LEMMA ClearOK ==
  ASSUME IInv, ArenaClear
  PROVE  IInv'
  <1>1. ChunksOK'  BY DEF ArenaClear, ChunksOK, ChunksAligned, ChunksDisjoint
  <1>2. BlocksOK'  BY DEF ArenaClear, IInv, BlocksOK
  <1>3. ClearingOK'  BY DEF ArenaClear, ClearingOK
  <1> QED  BY <1>1, <1>2, <1>3 DEF IInv

LEMMA FreeLastBlockOK ==
  ASSUME IInv, FreeLastBlock
  PROVE  IInv'
  <1>1. clearing /\ blocks # <<>> /\ chunks = <<>> /\ chunks' = <<>>
    BY DEF FreeLastBlock, IInv, ClearingOK
  <1>2. /\ blocks \in Seq(BlockType) /\ Len(blocks) \in Nat
        /\ DOMAIN blocks = 1..Len(blocks) /\ 1 \in DOMAIN blocks
        /\ Head(blocks) = blocks[1]
        /\ Tail(blocks) \in Seq(BlockType) /\ Len(Tail(blocks)) = Len(blocks) - 1
        /\ DOMAIN Tail(blocks) = 1..(Len(blocks) - 1)
        /\ \A i \in 1..(Len(blocks) - 1) : Tail(blocks)[i] = blocks[i + 1]
    <2>1. blocks \in Seq(BlockType)  BY DEF IInv, BlocksOK
    <2>2. /\ Head(blocks) = blocks[1] /\ 1 \in DOMAIN blocks
          /\ Tail(blocks) \in Seq(BlockType) /\ Len(Tail(blocks)) = Len(blocks) - 1
          /\ \A i \in 1..(Len(blocks) - 1) : Tail(blocks)[i] = blocks[i + 1]
      BY <1>1, <2>1, TailSeq
    <2> QED  BY <2>1, <2>2
  <1>3. blocks' = Tail(blocks) /\ heap' = heap \ {Region(blocks[1])}
    BY <1>2 DEF FreeLastBlock, LastBlock, Region
  <1>4. \A i \in DOMAIN blocks : BlockOK(blocks[i])  BY DEF IInv, BlocksOK
  <1>5. \A i \in DOMAIN blocks : i # 1 => Region(blocks[i]) # Region(blocks[1])
    <2> SUFFICES ASSUME NEW i \in DOMAIN blocks, i # 1
                 PROVE  Region(blocks[i]) # Region(blocks[1])
      OBVIOUS
    <2>1. Apart(blocks[i], blocks[1]) /\ blocks[i] \in BlockType /\ blocks[1] \in BlockType
      BY <1>2, <1>4 DEF IInv, BlocksOK, BlockOK
    <2>2. blocks[i].base # blocks[1].base
      BY <2>1 DEF Apart, Start, End, HeaderSize, BlockType
    <2> QED  BY <2>2 DEF Region
  <1>6. BlocksOK'
    <2>1. \A i \in DOMAIN blocks' : i + 1 \in DOMAIN blocks /\ i + 1 # 1
                                   /\ blocks'[i] = blocks[i + 1]
      BY <1>2, <1>3
    <2>2. \A i \in DOMAIN blocks' : BlockOK(blocks'[i])  BY <1>4, <2>1
    <2>3. \A i, j \in DOMAIN blocks' : i # j => Apart(blocks'[i], blocks'[j])
      <3> SUFFICES ASSUME NEW i \in DOMAIN blocks', NEW j \in DOMAIN blocks', i # j
                   PROVE  Apart(blocks'[i], blocks'[j])
        OBVIOUS
      <3>1. i + 1 # j + 1  BY <1>2, <1>3
      <3> QED  BY <2>1, <3>1 DEF IInv, BlocksOK
    <2>4. heap' = {Region(blocks'[i]) : i \in DOMAIN blocks'}
      <3>1. heap = {Region(blocks[i]) : i \in DOMAIN blocks}  BY DEF IInv, BlocksOK
      <3>2. \A i \in DOMAIN blocks : i # 1 =>
              \E j \in DOMAIN blocks' : blocks'[j] = blocks[i]
        <4> SUFFICES ASSUME NEW i \in DOMAIN blocks, i # 1
                     PROVE  \E j \in DOMAIN blocks' : blocks'[j] = blocks[i]
          OBVIOUS
        <4>1. i - 1 \in DOMAIN blocks' /\ (i - 1) + 1 = i  BY <1>2, <1>3
        <4> QED  BY <2>1, <4>1
      <3>3. ASSUME NEW r \in heap' PROVE \E j \in DOMAIN blocks' : r = Region(blocks'[j])
        <4>1. PICK i \in DOMAIN blocks : r = Region(blocks[i]) /\ i # 1
          BY <1>3, <3>1, <3>3
        <4> QED  BY <3>2, <4>1
      <3>4. ASSUME NEW j \in DOMAIN blocks' PROVE Region(blocks'[j]) \in heap'
        <4>1. /\ j + 1 \in DOMAIN blocks /\ j + 1 # 1 /\ blocks'[j] = blocks[j + 1]
          BY <2>1
        <4>2. Region(blocks[j + 1]) \in heap  BY <3>1, <4>1
        <4> QED  BY <1>3, <1>5, <4>1, <4>2
      <3> QED  BY <3>3, <3>4
    <2> QED  BY <1>2, <1>3, <2>2, <2>3, <2>4 DEF BlocksOK
  <1>7. ChunksOK'  BY <1>1 DEF ChunksOK, ChunksAligned, ChunksDisjoint
  <1>8. ClearingOK'
    <2>1. CASE LastBlock
      BY <2>1, <1>1 DEF FreeLastBlock, ClearingOK
    <2>2. CASE ~LastBlock
      BY <2>2, <1>1, <1>3 DEF FreeLastBlock, LastBlock, ClearingOK
    <2> QED  BY <2>1, <2>2
  <1> QED  BY <1>6, <1>7, <1>8 DEF IInv

-----------------------------------------------------------------------------
\* The theorems.

LEMMA InitOK == Init => IInv
  <1> SUFFICES ASSUME Init PROVE IInv  OBVIOUS
  <1>1. /\ DOMAIN blocks = {} /\ blocks \in Seq(BlockType)
        /\ DOMAIN chunks = {} /\ chunks \in Seq(ChunkType)
    BY DEF Init
  <1>2. BlocksOK
    <2>1. heap = {Region(blocks[i]) : i \in DOMAIN blocks}  BY <1>1 DEF Init
    <2> QED  BY <1>1, <2>1 DEF BlocksOK
  <1>3. ChunksOK  BY <1>1 DEF ChunksOK, ChunksAligned, ChunksDisjoint
  <1> QED  BY <1>2, <1>3 DEF Init, IInv, ClearingOK

LEMMA NextOK == IInv /\ [Next]_vars => IInv'
  <1> SUFFICES ASSUME IInv, [Next]_vars PROVE IInv'  OBVIOUS
  <1>1. CASE \E n \in Requests : ArenaAlloc(n)
    <2>1. PICK n \in Requests : ArenaAlloc(n)  BY <1>1
    <2>2. n \in Nat \ {0}  BY ArenaAssumption
    <2> QED  BY <2>1, <2>2, FromBlockOK, NewBlockOK DEF ArenaAlloc
  <1>2. CASE ArenaClear  BY <1>2, ClearOK
  <1>3. CASE FreeLastBlock  BY <1>3, FreeLastBlockOK
  <1>4. CASE UNCHANGED vars
    BY <1>4 DEF vars, IInv, BlocksOK, ChunksOK, ClearingOK, ChunksAligned, ChunksDisjoint,
                ChunkEnd
  <1> QED  BY <1>1, <1>2, <1>3, <1>4 DEF Next

LEMMA Inductive == Spec => []IInv
  BY InitOK, NextOK, PTL DEF Spec

\* No block is ever filled beyond its size, and addresses and sizes stay numbers:
\* the offset never becomes negative, and no size of 0 is handed out.
THEOREM TypeCorrect == Spec => []TypeOK
  <1>1. IInv => TypeOK
    <2> SUFFICES ASSUME IInv PROVE TypeOK  OBVIOUS
    <2>1. /\ blocks \in Seq(BlockType) /\ \A i \in DOMAIN blocks : BlockOK(blocks[i])
          /\ heap = {Region(blocks[i]) : i \in DOMAIN blocks}
          /\ chunks \in Seq(ChunkType) /\ clearing \in BOOLEAN
      BY DEF IInv, BlocksOK, ChunksOK, ClearingOK
    <2>2. heap \subseteq [base : Nat, size : Nat]
      BY <2>1 DEF Region, BlockOK, BlockType
    <2>3. \A i \in DOMAIN blocks : blocks[i].used <= blocks[i].size  BY <2>1 DEF BlockOK
    <2> QED  BY <2>1, <2>2, <2>3 DEF TypeOK, BlockType, ChunkType
  <1> QED  BY <1>1, Inductive, PTL

\* The assertions of arena_alloc hold for every request: a block always has room
\* for the alignment offset that the test at memory.c:41 does not count.
THEOREM AssertionsCorrect == Spec => []RoomForOffset
  <1>1. IInv => RoomForOffset
    <2> SUFFICES ASSUME IInv, blocks # <<>>, NEW n \in Requests, Fits(Head(blocks), n)
                 PROVE  Place(Head(blocks)) + RoundUp(n) <= End(Head(blocks))
      BY DEF RoomForOffset
    <2>1. BlockOK(Head(blocks))
      <3>1. Head(blocks) = blocks[1] /\ 1 \in DOMAIN blocks
        BY TailSeq DEF IInv, BlocksOK
      <3> QED  BY <3>1 DEF IInv, BlocksOK
    <2>2. n \in Nat \ {0}  BY ArenaAssumption
    <2> QED  BY <2>1, <2>2, RoomInBlock
  <1> QED  BY <1>1, Inductive, PTL

\* Pieces of the arena are aligned, whatever was asked for before.
THEOREM AlignmentCorrect == Spec => []ChunksAligned
  <1>1. IInv => ChunksAligned  BY DEF IInv, ChunksOK
  <1> QED  BY <1>1, Inductive, PTL

\* Pieces lie within the arena's own blocks.
THEOREM ContainmentCorrect == Spec => []ChunksInBlocks
  <1>1. IInv => ChunksInBlocks
    BY DEF IInv, ChunksOK, Holds, ChunksInBlocks, ChunkEnd
  <1> QED  BY <1>1, Inductive, PTL

\* No two pieces of an arena overlap.
THEOREM SeparationCorrect == Spec => []ChunksDisjoint
  <1>1. IInv => ChunksDisjoint  BY DEF IInv, ChunksOK
  <1> QED  BY <1>1, Inductive, PTL

\* The list of blocks and the heap agree: arena_clear returns every block, once.
THEOREM OwnershipCorrect == Spec => []BlocksOwned
  <1>1. IInv => BlocksOwned
    <2> SUFFICES ASSUME IInv PROVE BlocksOwned  OBVIOUS
    <2>1. heap = {[base |-> blocks[i].base, size |-> blocks[i].size] : i \in DOMAIN blocks}
      BY DEF IInv, BlocksOK, Region
    <2>2. ASSUME NEW i \in DOMAIN blocks, NEW j \in DOMAIN blocks, i # j
          PROVE  blocks[i].base # blocks[j].base
      <3>1. /\ Apart(blocks[i], blocks[j])
            /\ blocks[i] \in BlockType /\ blocks[j] \in BlockType
        BY <2>2 DEF IInv, BlocksOK, BlockOK
      <3> QED  BY <3>1 DEF Apart, Start, End, HeaderSize, BlockType
    <2> QED  BY <2>1, <2>2 DEF BlocksOwned
  <1> QED  BY <1>1, Inductive, PTL
=============================================================================
