----------------------- MODULE PoolingAllocatorProofs -----------------------
(***************************************************************************)
(* Proofs about PoolingAllocator, for any threads, sizes and places.       *)
(* First that IInv is an inductive invariant: the arithmetic of sizes and  *)
(* what the vector's operations return, then one preservation lemma for    *)
(* each part of IInv (TypeNext, ControlNext, MemoryNext), and the theorems.*)
(* Then what rests on it: deallocate knows its own regions, the circular   *)
(* scan misses no room, a fresh chunk serves the request that asked for    *)
(* it, the bitmaps are the live pooled regions, free memory is zero, and   *)
(* so the pool implements the promise of the Allocator interface.          *)
(***************************************************************************)
EXTENDS PoolingAllocator, WellFoundedInduction, TLAPS

(* Min of the community modules on sets of naturals: what CHOOSE finds.    *)
LEMMA MinProperties ==
  ASSUME NEW S, S \subseteq Nat, S # {}
  PROVE  Min(S) \in S /\ \A x \in S : Min(S) <= x
<1> DEFINE R == {p \in Nat \X Nat : p[1] < p[2]}
<1>1. OpToRel(<, Nat) = R
  BY Zenon DEF OpToRel
<1>2. IsWellFoundedOn(R, Nat)
  BY <1>1, NatLessThanWellFounded, Zenon
<1>3. \E x \in S : \A y \in S : <<y, x>> \notin R
  <2> HIDE DEF R
  <2> QED BY <1>2, WFMin, Zenon
<1>4. PICK x \in S : \A y \in S : <<y, x>> \notin R
  BY <1>3
<1>5. ASSUME NEW y \in S
      PROVE  x <= y
  <2>1. x \in Nat /\ y \in Nat /\ <<y, x>> \in Nat \X Nat
    OBVIOUS
  <2>2. ~(y < x)
    BY <1>4, <2>1
  <2>3. QED
    BY <2>1, <2>2
<1>6. QED
  BY <1>5 DEF Min

(* A multiple divides exactly.                                             *)
LEMMA DivExact ==
  ASSUME NEW a \in Nat \ {0}, NEW k \in Nat
  PROVE  (a * k) \div a = k
  BY Z3

(* round_up yields at least one unit, and no more than fit the bound.      *)
LEMMA RoundedUnits ==
  ASSUME NEW n \in Nat, NEW a \in Nat \ {0}, NEW b \in Nat \ {0}
  PROVE  /\ RoundUp(n, a) \div a \in Nat \ {0}
         /\ n <= b * a => RoundUp(n, a) \div a <= b
<1> DEFINE q == n \div a
           m == n % a
           k == IF m # 0 \/ n = 0 THEN q + 1 ELSE q
<1>1. q \in Nat /\ m \in 0 .. a - 1 /\ n = a * q + m
  BY Z3
<1>2. k \in Nat \ {0}
  BY <1>1
<1>3. RoundUp(n, a) = a * k
  BY <1>1 DEF RoundUp
<1>4. RoundUp(n, a) \div a = k
  <2> HIDE DEF k
  <2>1. QED BY <1>2, <1>3, DivExact
<1>5. ASSUME n <= b * a
      PROVE  k <= b
  <2>1. CASE k = q
    <3>1. a * k <= a * b
      BY <1>1, <1>5, <2>1
    <3>2. QED
      BY <1>2, <3>1, Z3
  <2>2. CASE k = q + 1 /\ n # 0
    <3>1. a * q < a * b
      BY <1>1, <1>5, <2>2
    <3>2. q < b
      BY <1>1, <3>1, Z3
    <3>3. QED
      BY <1>1, <2>2, <3>2
  <2>3. CASE n = 0
    <3>1. q = 0
      BY <1>1, <2>3, Z3
    <3>2. QED
      BY <3>1
  <2>4. QED
    BY <2>1, <2>2, <2>3
<1>6. QED
  <2> HIDE DEF k
  <2> QED BY <1>2, <1>4, <1>5

(* Every request takes a unit; a pooled one fits a Memory_Block.           *)
LEMMA BlockNoProperties ==
  ASSUME NEW n \in Nat
  PROVE  /\ BlockNo(n) \in Nat \ {0}
         /\ IsPooled(n) => BlockNo(n) <= BITMAP_SIZE
  BY SizesAssumption, RoundedUnits, Zenon DEF BlockNo, IsPooled, MaxPooled

(* A chunk holds at least one Memory_Block.                                *)
LEMMA InBlocksType == InBlocks \in Nat \ {0} /\ InBlocks * BITMAP_SIZE \in Nat
<1> DEFINE c == IF CHUNK_SIZE < MAX_CORE THEN CHUNK_SIZE ELSE MAX_CORE
<1>1. BLOCK_SIZE \in Nat \ {0} /\ BITMAP_SIZE \in Nat \ {0} /\ c \in Nat
  BY SizesAssumption
<1>2. RoundUp(c, BLOCK_SIZE) \in Nat /\ c <= RoundUp(c, BLOCK_SIZE)
  BY <1>1 DEF RoundUp
<1>3. MaxPooled \in Nat \ {0} /\ MaxPooled <= c
  <2>1. MaxPooled \in Nat \ {0}
    BY <1>1, Z3 DEF MaxPooled
  <2>2. QED
    BY <2>1, ChunkAssumption, SizesAssumption DEF MaxPooled
<1>4. RoundUp(c, BLOCK_SIZE) \div MaxPooled \in Nat \ {0}
  <2> HIDE DEF c
  <2>1. \A x \in Nat, y \in Nat \ {0} : y <= x => x \div y \in Nat \ {0}
    BY Z3
  <2>2. MaxPooled <= RoundUp(c, BLOCK_SIZE)
    BY <1>1, <1>2, <1>3
  <2>3. QED
    BY <1>2, <1>3, <2>1, <2>2
<1>5. InBlocks \in Nat \ {0}
  BY <1>4 DEF InBlocks
<1>6. QED
  BY <1>1, <1>5, Z3

(* lower_bound: all before it are less, and it is not.                     *)
LEMMA LowerBoundProperties ==
  ASSUME NEW s \in Seq(Block), NEW p \in Nat
  PROVE  /\ LowerBound(s, p) \in 1 .. Len(s) + 1
         /\ \A i \in DOMAIN s : i < LowerBound(s, p) => Less(s[i], p)
         /\ LowerBound(s, p) \in DOMAIN s => ~Less(s[LowerBound(s, p)], p)
<1> DEFINE S == {i \in 1 .. Len(s) + 1 : i = Len(s) + 1 \/ ~Less(s[i], p)}
<1>1. Len(s) \in Nat /\ DOMAIN s = 1 .. Len(s)
  OBVIOUS
<1>2. S \subseteq Nat /\ Len(s) + 1 \in S
  BY <1>1
<1>3. Min(S) \in S /\ \A x \in S : Min(S) <= x
  BY <1>2, MinProperties, Zenon
<1>4. /\ LowerBound(s, p) \in S
      /\ \A x \in S : LowerBound(s, p) <= x
  BY <1>3 DEF LowerBound
<1>5. ASSUME NEW i \in DOMAIN s, i < LowerBound(s, p)
      PROVE  Less(s[i], p)
  <2>1. i \notin S
    BY <1>1, <1>4, <1>5
  <2>2. QED
    BY <1>1, <2>1
<1>6. QED
  BY <1>1, <1>4, <1>5

(* The shifting mask stops inside the bitmap.                              *)
LEMMA MaskStopType ==
  ASSUME NEW b \in Block, NEW n \in 1 .. BITMAP_SIZE
  PROVE  MaskStop(b, n) \in 0 .. BITMAP_SIZE - n
<1> DEFINE S == {off \in 0 .. BITMAP_SIZE - n :
                   IsClear(b, off, n) \/ off + n = BITMAP_SIZE}
<1>1. BITMAP_SIZE \in Nat
  BY SizesAssumption
<1>2. S \subseteq Nat /\ BITMAP_SIZE - n \in S
  BY <1>1
<1>3. Min(S) \in S
  BY <1>2, MinProperties, Zenon
<1>4. QED
  BY <1>3 DEF MaskStop

-----------------------------------------------------------------------------
(* Types.  An allocated run lies inside its block's bitmap.                *)
LEMMA BlockAllocType ==
  ASSUME NEW b \in Block, NEW n \in 1 .. BITMAP_SIZE
  PROVE  BlockAlloc(b, n) \in Block
<1>1. BITMAP_SIZE \in Nat
  BY SizesAssumption
<1>2. Span(MaskStop(b, n), n) \subseteq 0 .. BITMAP_SIZE - 1
  BY <1>1, MaskStopType DEF Span
<1>3. QED
  BY <1>2 DEF BlockAlloc, Block

(* The vector after the sort is a longer vector of Memory_Blocks.          *)
LEMMA SortedInType ==
  ASSUME NEW s \in Seq(Block), NEW p \in Nat
  PROVE  /\ SortedIn(s, p) \in Seq(Block)
         /\ Len(SortedIn(s, p)) = Len(s) + InBlocks
         /\ DOMAIN SortedIn(s, p) = 1 .. Len(s) + InBlocks
<1> DEFINE k == LowerBound(s, p)
           m == Len(s) + InBlocks
<1>1. k \in 1 .. Len(s) + 1 /\ InBlocks \in Nat /\ Len(s) \in Nat /\ m \in Nat
  <2>1. k \in 1 .. Len(s) + 1
    BY LowerBoundProperties, Zenon
  <2>2. InBlocks \in Nat
    BY InBlocksType
  <2>3. QED
    BY <2>1, <2>2
<1>2. ASSUME NEW i \in 1 .. m
      PROVE  SortedIn(s, p)[i] \in Block
  <2>1. CASE i < k
    BY <1>1, <2>1 DEF SortedIn
  <2>2. CASE i >= k /\ i < k + InBlocks
    <3>1. (i - k + 1) - 1 \in Nat /\ BITMAP_SIZE \in Nat
      BY <1>1, <2>2, SizesAssumption
    <3>2. p + ((i - k + 1) - 1) * BITMAP_SIZE \in Nat
      BY <3>1, Z3
    <3>3. SortedIn(s, p)[i] = NewBlock(p, i - k + 1)
      BY <1>1, <2>2 DEF SortedIn
    <3>4. QED
      BY <3>2, <3>3 DEF NewBlock, Block
  <2>3. CASE i >= k + InBlocks
    BY <1>1, <2>3 DEF SortedIn
  <2>4. QED
    BY <1>1, <2>1, <2>2, <2>3
<1>3. SortedIn(s, p) = [i \in 1 .. m |-> SortedIn(s, p)[i]]
  BY DEF SortedIn
<1>4. QED
  <2> HIDE DEF m
  <2>1. SortedIn(s, p) \in Seq(Block)
    BY <1>1, <1>2, <1>3
  <2>2. DOMAIN SortedIn(s, p) = 1 .. m
    BY <1>3
  <2>3. QED
    BY <1>1, <2>1, <2>2 DEF m

(* The constructor's state has its types.                                  *)
LEMMA TypeInit == Init => TypeOK
<1> SUFFICES ASSUME Init PROVE TypeOK
  OBVIOUS
<1>1. NoArg \in [ptr : Nat, size : Nat, owned : BOOLEAN]
  BY DEF NoArg
<1>2. QED
  BY <1>1 DEF Init, TypeOK, Ready, Region

(* The end of a call keeps the types of what it writes.                    *)
LEMMA LeaveType ==
  ASSUME TypeOK, NEW t \in Threads, NEW how \in Ready, Leave(t, how)
  PROVE  /\ mutex' \in Threads \cup {NoThread}
         /\ pc' \in [Threads -> Ready \cup Critical \cup {"allocate", "deallocate"}]
         /\ arg' \in [Threads -> [ptr : Nat, size : Nat, owned : BOOLEAN]]
         /\ iter' \in [Threads -> Nat \ {0}]
  BY DEF TypeOK, Leave, NoArg

(* A run of units is a set of addresses.                                   *)
LEMMA ExtentType ==
  ASSUME NEW p \in Nat, NEW n \in Nat
  PROVE  Span(p, n) \subseteq Nat
  BY DEF Span

(* The block that deallocate finds is one of the vector's.                 *)
LEMMA OwnerInDomain ==
  ASSUME TypeOK, NEW t \in Threads, Owned(arg[t])
  PROVE  Owner(arg[t]) \in DOMAIN blocks
<1>1. blocks \in Seq(Block) /\ arg[t].ptr \in Nat
  BY DEF TypeOK
<1>2. Owner(arg[t]) \in 1 .. Len(blocks) + 1
  BY <1>1, LowerBoundProperties, Zenon DEF Owner
<1>3. QED
  BY <1>1, <1>2 DEF Owned

(* Every step keeps the types.                                             *)
LEMMA TypeNext == IInv /\ [Next]_vars => TypeOK'
<1> SUFFICES ASSUME IInv, [Next]_vars PROVE TypeOK'
  OBVIOUS
<1> USE DEF IInv
<1>1. ASSUME NEW t \in Threads, LockAllocate(t) PROVE TypeOK'
  BY <1>1 DEF LockAllocate, TypeOK, Critical
<1>2. ASSUME NEW t \in Threads, LockDeallocate(t) PROVE TypeOK'
  BY <1>2 DEF LockDeallocate, TypeOK, Critical
<1>3. ASSUME NEW t \in Threads, ScanFinds(t) PROVE TypeOK'
  BY <1>3 DEF ScanFinds, TypeOK, Critical
<1>4. ASSUME NEW t \in Threads, ScanMovesOn(t) PROVE TypeOK'
  <2>1. NextIter(iter[t]) \in Nat \ {0}
    BY DEF TypeOK, NextIter
  <2>2. QED
    BY <1>4, <2>1 DEF ScanMovesOn, TypeOK
<1>5. ASSUME NEW t \in Threads, ScanFails(t) PROVE TypeOK'
  BY <1>5 DEF ScanFails, TypeOK, Critical
<1>7. ASSUME NEW t \in Threads, SystemRefuses(t) PROVE TypeOK'
  <2>1. Leave(t, "exhausted") /\ "exhausted" \in Ready
    BY <1>7 DEF SystemRefuses, Ready
  <2>2. QED
    BY <1>7, <2>1, LeaveType DEF SystemRefuses, TypeOK
<1>8. ASSUME NEW t \in Threads, WrongAllocator(t) PROVE TypeOK'
  <2>1. Leave(t, "rejected") /\ "rejected" \in Ready
    BY <1>8 DEF WrongAllocator, Ready
  <2>2. QED
    BY <1>8, <2>1, LeaveType DEF WrongAllocator, TypeOK
<1>9. ASSUME NEW t \in Threads, Mark(t) PROVE TypeOK'
  <2> DEFINE i == iter[t]
             n == BlockNo(arg[t].size)
             off == MaskStop(blocks[i], n)
  <2>1. i \in DOMAIN blocks /\ blocks[i] \in Block /\ n \in 1 .. BITMAP_SIZE
    BY <1>9 DEF Mark, ControlInv, CursorInv, CanAlloc, TypeOK
  <2>2. off \in Nat /\ BlockAlloc(blocks[i], n) \in Block
    BY <2>1, MaskStopType, BlockAllocType, SizesAssumption
  <2>3. blocks' \in Seq(Block)
    BY <1>9, <2>1, <2>2 DEF Mark, TypeOK
  <2>4. held' \subseteq Region
    BY <1>9, <2>1, <2>2 DEF Mark, TypeOK, Region, Block
  <2>5. last_used' \in Nat \ {0}
    BY <1>9, <2>1 DEF Mark, TypeOK
  <2>6. Leave(t, "idle") /\ "idle" \in Ready /\ UNCHANGED <<allocated, dirty>>
    BY <1>9 DEF Mark, Ready
  <2>7. QED
    BY <2>3, <2>4, <2>5, <2>6, LeaveType DEF TypeOK
<1>10. ASSUME NEW t \in Threads, NEW p \in Places, GetMoreCore(t, p) PROVE TypeOK'
  <2>1. p \in Nat /\ InBlocks * BITMAP_SIZE \in Nat
    BY SizesAssumption, InBlocksType
  <2>2. blocks' \in Seq(Block)
    BY <1>10, <2>1, SortedInType DEF GetMoreCore, TypeOK
  <2>3. last_used' \in Nat \ {0}
    <3>1. LowerBound(blocks', p) \in 1 .. Len(blocks') + 1
      BY <2>1, <2>2, LowerBoundProperties, Zenon
    <3>2. last_used' = LowerBound(blocks', p) /\ Len(blocks') \in Nat
      BY <1>10, <2>2 DEF GetMoreCore
    <3>3. QED
      BY <3>1, <3>2
  <2>4. allocated' \in Seq([ptr : Nat, len : Nat])
    BY <1>10, <2>1 DEF GetMoreCore, TypeOK
  <2>5. QED
    BY <1>10, <2>2, <2>3, <2>4 DEF GetMoreCore, TypeOK, Critical
<1>11. ASSUME NEW t \in Threads, NEW p \in Places, AllocateLarge(t, p) PROVE TypeOK'
  <2>1. p \in Nat /\ Leave(t, "idle") /\ "idle" \in Ready
    BY <1>11, SizesAssumption DEF AllocateLarge, Ready
  <2>2. held' \subseteq Region
    BY <1>11, <2>1 DEF AllocateLarge, TypeOK, Region
  <2>3. QED
    BY <1>11, <2>1, <2>2, LeaveType DEF AllocateLarge, TypeOK
<1>12. ASSUME NEW t \in Threads, FreeLarge(t) PROVE TypeOK'
  <2>1. Leave(t, "idle") /\ "idle" \in Ready
    BY <1>12 DEF FreeLarge, Ready
  <2>2. QED
    BY <1>12, <2>1, LeaveType DEF FreeLarge, TypeOK
<1>13. ASSUME NEW t \in Threads, FreePooled(t) PROVE TypeOK'
  <2>1. Leave(t, "idle") /\ "idle" \in Ready
    BY <1>13 DEF FreePooled, Ready
  <2>2. Owner(arg[t]) \in DOMAIN blocks
    BY <1>13, OwnerInDomain, Zenon DEF FreePooled
  <2>3. BlockFree(blocks[Owner(arg[t])], arg[t].ptr, BlockNo(arg[t].size)) \in Block
    <3>1. blocks[Owner(arg[t])] \in Block
      BY <2>2 DEF TypeOK
    <3>2. QED
      BY <3>1 DEF BlockFree, Block
  <2>4. blocks' \in Seq(Block)
    BY <1>13, <2>2, <2>3 DEF FreePooled, TypeOK
  <2>5. QED
    BY <1>13, <2>1, <2>4, LeaveType DEF FreePooled, TypeOK
<1>14. ASSUME NEW t \in Threads, NEW n \in Sizes, Allocate(t, n) PROVE TypeOK'
  <2>1. [NoArg EXCEPT !.size = n] \in [ptr : Nat, size : Nat, owned : BOOLEAN]
    BY SizesAssumption DEF NoArg
  <2>2. QED
    BY <1>14, <2>1 DEF Allocate, TypeOK
<1>15. ASSUME NEW t \in Threads, NEW r \in held, Deallocate(t, r) PROVE TypeOK'
  BY <1>15 DEF Deallocate, TypeOK, Region
<1>16. ASSUME NEW t \in Threads, NEW p \in Places, NEW n \in Sizes,
              DeallocateForeign(t, p, n)
       PROVE  TypeOK'
  BY <1>16, SizesAssumption DEF DeallocateForeign, TypeOK
<1>17. CASE Destroy
  <2>1. /\ blocks' = <<>> /\ allocated' = <<>> /\ dirty' \subseteq dirty /\ held' \subseteq held
        /\ UNCHANGED <<last_used, mutex, pc, arg, iter>>
    BY <1>17 DEF Destroy
  <2>2. blocks' \in Seq(Block) /\ allocated' \in Seq([ptr : Nat, len : Nat])
    BY <2>1
  <2>3. QED
    BY <2>1, <2>2 DEF TypeOK
<1>18. ASSUME NEW r \in held, Write(r) PROVE TypeOK'
  <2>1. r \in Region
    BY DEF TypeOK
  <2>2. Extent(r) \subseteq Nat
    <3>1. r.ptr \in Nat /\ r.size \in Nat
      BY <2>1 DEF Region
    <3>2. BlockNo(r.size) \in Nat
      BY <3>1, BlockNoProperties
    <3>3. QED
      BY <3>1, <3>2, ExtentType DEF Extent
  <2>3. QED
    BY <1>18, <2>2 DEF Write, TypeOK
<1>19. CASE UNCHANGED vars
  BY <1>19 DEF vars, TypeOK
<1>20. QED
  BY <1>1, <1>2, <1>3, <1>4, <1>5, <1>7, <1>8, <1>9, <1>10, <1>11, <1>12,
     <1>13, <1>14, <1>15, <1>16, <1>17, <1>18, <1>19 DEF Next, Step

-----------------------------------------------------------------------------
(* The mutex, the iterators and the requests.                              *)

(* The blocks cut out of a chunk at p follow each other inside it.         *)
LEMMA NewBlocksApart ==
  ASSUME NEW p \in Nat, NEW j \in 1 .. InBlocks
  PROVE  /\ NewBlock(p, j).buffer \in Nat
         /\ p <= NewBlock(p, j).buffer
         /\ BufferEnd(NewBlock(p, j)) <= p + InBlocks * BITMAP_SIZE
         /\ \A h \in 1 .. InBlocks :
              j < h => BufferEnd(NewBlock(p, j)) <= NewBlock(p, h).buffer
<1> DEFINE K == InBlocks
           n == BITMAP_SIZE
           before(h) == (h - 1) * n
<1>1. K \in Nat \ {0} /\ n \in Nat \ {0} /\ j \in 1 .. K
  BY InBlocksType, SizesAssumption
<1>2. ASSUME NEW h \in 1 .. K
      PROVE  before(h) \in Nat /\ before(h) + n = h * n /\ h * n <= K * n
  <2> HIDE DEF K, n
  <2>1. QED
    BY <1>1, Z3 DEF before
<1>3. ASSUME NEW h \in 1 .. K, j < h
      PROVE  before(j) + n <= before(h)
  <2> HIDE DEF K, n
  <2>1. QED
    BY <1>1, <1>3, Z3 DEF before
<1>4. \A h \in 1 .. K : NewBlock(p, h).buffer = p + before(h)
  BY DEF NewBlock
<1>5. BufferEnd(NewBlock(p, j)) = p + before(j) + n
  BY <1>4 DEF BufferEnd
<1> HIDE DEF before, n, K
<1>6. p + before(j) \in Nat /\ p <= p + before(j)
  BY <1>1, <1>2
<1>7. p + before(j) + n <= p + K * n
  <2>1. before(j) + n <= K * n /\ before(j) \in Nat /\ K * n \in Nat
    BY <1>1, <1>2
  <2>2. QED
    BY <1>1, <2>1
<1>8. ASSUME NEW h \in 1 .. K, j < h
      PROVE  p + before(j) + n <= p + before(h)
  BY <1>1, <1>2, <1>3, <1>8
<1>9. QED
  BY <1>4, <1>5, <1>6, <1>7, <1>8, Zenon DEF K, n

(* lower_bound finds one of the sorted blocks: the new chunk's first, or   *)
(* one before it, is not less than the chunk's address.                    *)
LEMMA CoreCursor ==
  ASSUME NEW s \in Seq(Block), NEW p \in Nat
  PROVE  /\ LowerBound(SortedIn(s, p), p) \in DOMAIN SortedIn(s, p)
         /\ SortedIn(s, p) # <<>>
<1> DEFINE k == LowerBound(s, p)
           w == SortedIn(s, p)
<1>1. k \in 1 .. Len(s) + 1 /\ InBlocks \in Nat \ {0} /\ Len(s) \in Nat
  <2>1. k \in 1 .. Len(s) + 1
    BY LowerBoundProperties, Zenon
  <2>2. InBlocks \in Nat \ {0}
    BY InBlocksType
  <2>3. QED
    BY <2>1, <2>2
<1>2. /\ w \in Seq(Block)
      /\ Len(w) = Len(s) + InBlocks
      /\ DOMAIN w = 1 .. Len(s) + InBlocks
  BY SortedInType, Zenon
<1>3. k \in DOMAIN w /\ w[k] = NewBlock(p, 1)
  BY <1>1 DEF SortedIn
<1>4. ~Less(w[k], p)
  <2>1. w[k].buffer = p
    BY <1>1, <1>3, SizesAssumption DEF NewBlock
  <2>2. QED
    BY <2>1 DEF Less
<1>5. /\ LowerBound(w, p) \in 1 .. Len(w) + 1
      /\ \A i \in DOMAIN w : i < LowerBound(w, p) => Less(w[i], p)
  BY <1>2, LowerBoundProperties, Zenon
<1>6. ~(k < LowerBound(w, p))
  BY <1>3, <1>4, <1>5
<1>7. QED
  <2> HIDE DEF k, w
  <2>1. LowerBound(w, p) \in DOMAIN w
    BY <1>1, <1>2, <1>5, <1>6
  <2>2. w # <<>>
    BY <1>2, <2>1
  <2>3. QED
    BY <2>1, <2>2 DEF w

(* Every step keeps the mutex, the iterators and the requests in order.    *)
LEMMA ControlNext == IInv /\ [Next]_vars => ControlInv'
<1> SUFFICES ASSUME IInv, [Next]_vars PROVE ControlInv'
  OBVIOUS
<1> USE DEF IInv, ControlInv
<1>1. ASSUME NEW t \in Threads,
             LockAllocate(t) \/ LockDeallocate(t) \/ ScanFinds(t) \/ ScanMovesOn(t)
             \/ ScanFails(t) \/ SystemRefuses(t) \/ WrongAllocator(t)
             \/ FreeLarge(t)
      PROVE  ControlInv'
  <2> USE <1>1 DEF LockAllocate, LockDeallocate, ScanFinds, ScanMovesOn, ScanFails,
                   SystemRefuses, WrongAllocator, FreeLarge, Leave, TypeOK
  <2>1. MutexInv'
    <3>1. /\ DOMAIN pc = Threads /\ mutex \in Threads \cup {NoThread}
          /\ \A u \in Threads \ {t} : pc'[u] = pc[u]
      OBVIOUS
    <3>2. \/ mutex = NoThread /\ mutex' = t /\ pc'[t] \in Critical
          \/ pc[t] \in Critical /\ mutex' = mutex /\ pc'[t] \in Critical
          \/ pc[t] \in Critical /\ mutex' = NoThread /\ pc'[t] \notin Critical
      BY DEF Critical
    <3>3. QED
      BY <3>1, <3>2, NoThreadAssumption, Zenon DEF MutexInv
  <2>2. CursorInv'
    <3>1. CASE ScanMovesOn(t)
      <4>1. NextIter(iter[t]) \in DOMAIN blocks
        BY <3>1 DEF CursorInv, NextIter
      <4>2. QED
        BY <3>1, <4>1 DEF CursorInv
    <3>2. CASE ScanFinds(t)
      BY <3>2 DEF CursorInv
    <3>3. CASE LockAllocate(t)
      BY <3>3 DEF CursorInv
    <3>4. CASE ~ScanMovesOn(t) /\ ~ScanFinds(t) /\ ~LockAllocate(t)
      <4>1. /\ UNCHANGED <<blocks, last_used>>
            /\ pc'[t] \notin {"scan", "rescan", "mark"}
            /\ \A u \in Threads \ {t} :
                 pc'[u] = pc[u] /\ iter'[u] = iter[u] /\ arg'[u] = arg[u]
        BY <3>4
      <4>2. QED
        BY <4>1 DEF CursorInv
    <3>5. QED
      BY <3>1, <3>2, <3>3, <3>4
  <2>3. RequestInv'
    BY DEF RequestInv
  <2>4. QED
    BY <2>1, <2>2, <2>3
<1>2. ASSUME NEW t \in Threads,
             \E i \in DOMAIN blocks : \E b \in Block :
               /\ pc[t] \in Critical
               /\ blocks' = [blocks EXCEPT ![i] = b]
               /\ last_used' \in {i, last_used}
               /\ Leave(t, "idle")
      PROVE  ControlInv'
  <2> USE <1>2 DEF Leave, TypeOK
  <2>1. MutexInv'
    BY NoThreadAssumption DEF MutexInv, Critical, Ready
  <2>2. CursorInv'
    <3>1. DOMAIN blocks' = DOMAIN blocks /\ last_used' \in DOMAIN blocks
      BY DEF CursorInv
    <3>2. \A u \in Threads : pc'[u] \notin {"scan", "rescan", "mark"}
      BY DEF MutexInv, Critical
    <3>3. QED
      BY <3>1, <3>2 DEF CursorInv
  <2>3. RequestInv'
    BY DEF RequestInv
  <2>4. QED
    BY <2>1, <2>2, <2>3
<1>3. ASSUME NEW t \in Threads, Mark(t) PROVE ControlInv'
  <2>1. /\ iter[t] \in DOMAIN blocks
        /\ BlockNo(arg[t].size) \in 1 .. BITMAP_SIZE
    BY <1>3 DEF Mark, CursorInv, CanAlloc
  <2>2. blocks[iter[t]] \in Block
    BY <2>1 DEF TypeOK
  <2>3. BlockAlloc(blocks[iter[t]], BlockNo(arg[t].size)) \in Block
    BY <2>1, <2>2, BlockAllocType, Zenon
  <2>4. pc[t] \in Critical
    BY <1>3 DEF Mark, Critical
  <2>5. QED
    BY <1>2, <1>3, <2>1, <2>3, <2>4 DEF Mark
<1>4. ASSUME NEW t \in Threads, FreePooled(t) PROVE ControlInv'
  <2>1. Owner(arg[t]) \in DOMAIN blocks
    BY <1>4, OwnerInDomain, Zenon DEF FreePooled
  <2>2. blocks[Owner(arg[t])] \in Block
    BY <2>1 DEF TypeOK
  <2>3. BlockFree(blocks[Owner(arg[t])], arg[t].ptr, BlockNo(arg[t].size)) \in Block
    BY <2>2 DEF BlockFree, Block
  <2>4. pc[t] \in Critical
    BY <1>4 DEF FreePooled, Critical
  <2>5. QED
    BY <1>2, <1>4, <2>1, <2>3, <2>4 DEF FreePooled
<1>5. ASSUME NEW t \in Threads, NEW p \in Places, AllocateLarge(t, p) PROVE ControlInv'
  <2> USE <1>5 DEF AllocateLarge, Leave, TypeOK
  <2>1. MutexInv'
    BY NoThreadAssumption DEF MutexInv, Critical, Ready
  <2>2. CursorInv'
    BY DEF CursorInv
  <2>3. RequestInv'
    BY DEF RequestInv
  <2>4. QED
    BY <2>1, <2>2, <2>3
<1>6. ASSUME NEW t \in Threads, NEW p \in Places, GetMoreCore(t, p) PROVE ControlInv'
  <2>1. MutexInv'
    BY <1>6 DEF GetMoreCore, MutexInv, Critical, TypeOK
  <2>2. RequestInv'
    BY <1>6 DEF GetMoreCore, RequestInv, TypeOK
  <2>3. last_used' \in DOMAIN blocks'
    <3>1. blocks \in Seq(Block) /\ p \in Nat
      BY SizesAssumption DEF TypeOK
    <3>2. LowerBound(SortedIn(blocks, p), p) \in DOMAIN SortedIn(blocks, p)
      BY <3>1, CoreCursor, Zenon
    <3>3. QED
      BY <1>6, <3>2 DEF GetMoreCore
  <2>4. \A u \in Threads : u # t => pc'[u] \notin {"scan", "rescan", "mark"}
    BY <1>6 DEF GetMoreCore, MutexInv, Critical, TypeOK
  <2>5. pc'[t] = "rescan" /\ iter'[t] = last_used'
    BY <1>6 DEF GetMoreCore, TypeOK
  <2>6. CursorInv'
    BY <2>3, <2>4, <2>5 DEF CursorInv
  <2>7. QED
    BY <2>1, <2>2, <2>6
<1>7. ASSUME NEW t \in Threads,
             \/ \E n \in Sizes : Allocate(t, n)
             \/ \E r \in held : Deallocate(t, r)
             \/ \E p \in Places, n \in Sizes : DeallocateForeign(t, p, n)
      PROVE  ControlInv'
  <2>1. /\ UNCHANGED <<blocks, last_used, mutex, iter>>
        /\ pc[t] \in Ready
        /\ pc' \in {[pc EXCEPT ![t] = "allocate"], [pc EXCEPT ![t] = "deallocate"]}
        /\ \A u \in Threads \ {t} : arg'[u] = arg[u]
    BY <1>7 DEF Allocate, Deallocate, DeallocateForeign, TypeOK
  <2>2. MutexInv'
    BY <2>1 DEF MutexInv, Critical, Ready, TypeOK
  <2>3. CursorInv'
    BY <2>1 DEF CursorInv, TypeOK
  <2>4. RequestInv'
    BY <2>1 DEF RequestInv, TypeOK
  <2>5. QED
    BY <2>2, <2>3, <2>4
<1>8. CASE Destroy
  <2>1. \A t \in Threads : pc'[t] \in Ready
    BY <1>8 DEF Destroy
  <2>2. MutexInv'
    BY <1>8 DEF Destroy, MutexInv
  <2>3. CursorInv' /\ RequestInv'
    BY <1>8, <2>1 DEF Destroy, CursorInv, RequestInv, Ready
  <2>4. QED
    BY <2>2, <2>3
<1>9. CASE \E r \in held : Write(r)
  BY <1>9 DEF Write, MutexInv, CursorInv, RequestInv
<1>10. CASE UNCHANGED vars
  BY <1>10 DEF vars, MutexInv, CursorInv, RequestInv
<1>11. QED
  BY <1>1, <1>3, <1>4, <1>5, <1>6, <1>7, <1>8, <1>9, <1>10 DEF Next, Step

-----------------------------------------------------------------------------
(* The memory: what is live, what is marked, and where the blocks lie.     *)
(* A block of the vector has an address.                                   *)
LEMMA BlockType ==
  ASSUME TypeOK, NEW i \in DOMAIN blocks
  PROVE  /\ blocks[i] \in Block
         /\ blocks[i].buffer \in Nat
         /\ blocks[i].bitmap \subseteq Nat
         /\ i \in Nat
         /\ BITMAP_SIZE \in Nat
<1>1. blocks[i] \in Block /\ i \in Nat
  BY DEF TypeOK
<1>2. QED
  BY <1>1, SizesAssumption DEF Block

(* A live region is a region, and takes at least one unit.                 *)
LEMMA LiveType ==
  ASSUME TypeOK, NEW r \in Live
  PROVE  r \in Region /\ BlockNo(r.size) \in Nat \ {0}
<1>1. r \in Region
  BY DEF TypeOK, Live, Region, AsRegion
<1>2. r.size \in Nat
  BY <1>1 DEF Region
<1>3. QED
  BY <1>1, <1>2, BlockNoProperties

(* A step that only lets go of regions, the memory left as it is.          *)
LEMMA LiveShrinks ==
  ASSUME TypeOK, MemoryInv, UNCHANGED <<blocks, allocated>>, held' \subseteq held,
         \A t \in Threads : IsReleasing(t)' => IsReleasing(t) /\ arg'[t] = arg[t],
         \A t \in Threads : IsForeign(t)' => IsForeign(t) /\ arg'[t] = arg[t]
  PROVE  MemoryInv'
<1> USE DEF MemoryInv
<1>1. Live' \subseteq Live
  BY DEF Live
<1>2. ForeignUnits' \subseteq ForeignUnits
  BY DEF ForeignUnits
<1>3. ChunkUnits' = ChunkUnits
  BY DEF ChunkUnits
<1>4. SortedInv' /\ ChunkInv'
  BY <1>3 DEF SortedInv, ChunkInv
<1>5. PooledInv' /\ LargeInv'
  BY <1>1, <1>3 DEF PooledInv, LargeInv
<1>6. ForeignInv'
  BY <1>2, <1>3 DEF ForeignInv
<1>7. ReleaseInv'
  BY DEF ReleaseInv
<1>8. LiveRegionsDisjoint'
  BY <1>1 DEF LiveRegionsDisjoint
<1>9. QED
  BY <1>4, <1>5, <1>6, <1>7, <1>8

(* Live pooled regions lie inside the chunks.                              *)
LEMMA PooledInChunks ==
  ASSUME TypeOK, MemoryInv, NEW r \in Live, IsPooled(r.size)
  PROVE  Extent(r) \subseteq ChunkUnits
<1>1. PICK i \in DOMAIN blocks : Marked(r, blocks[i])
  BY DEF MemoryInv, PooledInv
<1>2. r.ptr \in Nat /\ BlockNo(r.size) \in Nat
  BY LiveType DEF Region
<1>a. blocks[i].buffer \in Nat /\ BITMAP_SIZE \in Nat
  BY BlockType
<1>3. Extent(r) \subseteq Span(blocks[i].buffer, BITMAP_SIZE)
  BY <1>1, <1>2, <1>a DEF Marked, Contains, BufferEnd, Extent, Span
<1>4. QED
  BY <1>3 DEF MemoryInv, ChunkInv

(* A region disjoint from every live one joins the live regions.           *)
LEMMA LiveGrows ==
  ASSUME TypeOK, MemoryInv, NEW r \in Region,
         held' = held \cup {r},
         \A q \in Live : Extent(q) \cap Extent(r) = {},
         \A t \in Threads : IsReleasing(t)' => IsReleasing(t) /\ arg'[t] = arg[t]
  PROVE  /\ Live' \subseteq Live \cup {r}
         /\ ReleaseInv'
         /\ LiveRegionsDisjoint'
<1>1. Live' \subseteq Live \cup {r}
  BY DEF Live
<1>2. r \notin Live
  <2>1. BlockNo(r.size) \in Nat \ {0} /\ r.ptr \in Nat
    BY BlockNoProperties DEF Region
  <2>2. r.ptr \in Extent(r)
    BY <2>1 DEF Extent, Span
  <2>3. QED
    BY <2>2
<1>3. ReleaseInv'
  <2>1. \A t \in Threads : IsReleasing(t) => AsRegion(arg[t]) # r
    BY <1>2 DEF Live
  <2>2. QED
    BY <2>1 DEF MemoryInv, ReleaseInv
<1>4. LiveRegionsDisjoint'
  BY <1>1 DEF MemoryInv, LiveRegionsDisjoint
<1>5. QED
  BY <1>1, <1>3, <1>4

(* Setting the bits of a run makes one more region, apart from the rest.   *)
LEMMA MarkMemory ==
  ASSUME IInv, NEW t \in Threads, Mark(t)
  PROVE  MemoryInv'
<1> DEFINE i == iter[t]
           n == BlockNo(arg[t].size)
           off == MaskStop(blocks[i], n)
           b == blocks[i]
           r == [ptr |-> b.buffer + off, size |-> arg[t].size]
<1>1. /\ i \in DOMAIN blocks /\ n \in 1 .. BITMAP_SIZE /\ IsClear(b, off, n)
      /\ IsPooled(r.size)
  <2>1. i \in DOMAIN blocks /\ CanAlloc(b, n)
    BY DEF Mark, IInv, ControlInv, CursorInv
  <2>2. IsPooled(r.size)
    BY DEF Mark, IInv, ControlInv, RequestInv
  <2>3. QED
    BY <2>1, <2>2 DEF CanAlloc
<1>2. b \in Block /\ b.buffer \in Nat /\ b.bitmap \subseteq Nat /\ BITMAP_SIZE \in Nat
  BY <1>1, BlockType DEF IInv
<1>3. off \in 0 .. BITMAP_SIZE - n
  BY <1>1, <1>2, MaskStopType, Zenon
<1>4. r \in Region
  BY <1>2, <1>3 DEF IInv, TypeOK, Region
<1>5. blocks' = [blocks EXCEPT ![i] = BlockAlloc(b, n)] /\ held' = held \cup {r}
      /\ allocated' = allocated
  BY DEF Mark
<1>6. /\ \A u \in Threads : IsReleasing(u)' => IsReleasing(u) /\ arg'[u] = arg[u]
      /\ \A u \in Threads : IsForeign(u)' => IsForeign(u) /\ arg'[u] = arg[u]
  BY DEF Mark, Leave, IsReleasing, IsForeign, IInv, TypeOK
<1> HIDE DEF i, off, n
<1>7. Extent(r) = b.buffer + off .. b.buffer + off + n - 1
  BY DEF Extent, Span, n
<1>8. ASSUME NEW q \in Live
      PROVE  Extent(q) \cap Extent(r) = {}
  <2>1. q.ptr \in Nat /\ BlockNo(q.size) \in Nat
    BY LiveType DEF IInv, Region
  <2>2. CASE IsPooled(q.size)
    <3>1. PICK j \in DOMAIN blocks : Marked(q, blocks[j])
      BY <2>2 DEF IInv, MemoryInv, PooledInv
    <3>2. blocks[j].buffer \in Nat /\ j \in Nat /\ i \in Nat
      BY <1>1, BlockType DEF IInv
    <3>3. CASE j = i
      <4>1. ASSUME NEW a \in Extent(q), a \in Extent(r) PROVE FALSE
        <5>1. a - b.buffer \in Span(off, n)
          BY <1>1, <1>2, <1>3, <1>7, <4>1 DEF Span
        <5>2. a - b.buffer \in Span(q.ptr - b.buffer, BlockNo(q.size))
          BY <1>2, <2>1, <4>1 DEF Extent, Span
        <5>3. QED
          BY <1>1, <3>1, <3>3, <5>1, <5>2 DEF Marked, IsClear
      <4>2. QED
        BY <4>1
    <3>4. CASE j # i
      <4>1. \/ BufferEnd(blocks[j]) <= b.buffer
            \/ BufferEnd(b) <= blocks[j].buffer
        BY <1>1, <3>2, <3>4 DEF IInv, MemoryInv, SortedInv
      <4>2. Extent(q) \subseteq Span(blocks[j].buffer, BITMAP_SIZE)
        BY <1>2, <2>1, <3>1, <3>2 DEF Marked, Contains, BufferEnd, Extent, Span
      <4>3. Extent(r) \subseteq Span(b.buffer, BITMAP_SIZE)
        BY <1>1, <1>2, <1>3, <1>7 DEF Span
      <4>4. QED
        BY <1>2, <3>2, <4>1, <4>2, <4>3 DEF BufferEnd, Span
    <3>5. QED
      BY <3>3, <3>4
  <2>3. CASE ~IsPooled(q.size)
    <3>1. Extent(q) \cap ChunkUnits = {}
      BY <2>3 DEF IInv, MemoryInv, LargeInv
    <3>2. Extent(r) \subseteq Span(b.buffer, BITMAP_SIZE)
      BY <1>1, <1>2, <1>3, <1>7 DEF Span
    <3>3. Span(b.buffer, BITMAP_SIZE) \subseteq ChunkUnits
      BY <1>1 DEF IInv, MemoryInv, ChunkInv
    <3>4. QED
      BY <3>1, <3>2, <3>3
  <2>4. QED
    BY <2>2, <2>3
<1>9. Live' \subseteq Live \cup {r} /\ ReleaseInv' /\ LiveRegionsDisjoint'
  BY <1>4, <1>5, <1>6, <1>8, LiveGrows DEF IInv
<1>10. ChunkUnits' = ChunkUnits
  BY <1>5 DEF ChunkUnits
<1>11. /\ DOMAIN blocks' = DOMAIN blocks
       /\ \A j \in DOMAIN blocks : /\ blocks'[j].buffer = blocks[j].buffer
                                   /\ blocks[j].bitmap \subseteq blocks'[j].bitmap
       /\ blocks'[i].bitmap = b.bitmap \cup Span(off, n)
  BY <1>1, <1>2, <1>5 DEF BlockAlloc, off, Block, IInv, TypeOK
<1>12. SortedInv' /\ ChunkInv'
  BY <1>10, <1>11 DEF IInv, MemoryInv, SortedInv, ChunkInv, BufferEnd
<1>13. PooledInv'
  <2>1. ASSUME NEW q \in Live, IsPooled(q.size)
        PROVE  \E j \in DOMAIN blocks' : Marked(q, blocks'[j])
    BY <1>11, <2>1 DEF IInv, MemoryInv, PooledInv, Marked, Contains, BufferEnd
  <2>2. Marked(r, blocks'[i])
    <3>1. BlockNo(r.size) = n
      BY DEF n
    <3>2. Contains(blocks'[i], r.ptr, n)
      BY <1>1, <1>2, <1>3, <1>11 DEF Contains, BufferEnd
    <3>3. r.ptr - blocks'[i].buffer = off
      BY <1>1, <1>2, <1>3, <1>11
    <3>4. QED
      BY <1>11, <3>1, <3>2, <3>3 DEF Marked
  <2>3. QED
    BY <1>1, <1>9, <1>11, <2>1, <2>2 DEF PooledInv
<1>14. LargeInv'
  BY <1>1, <1>9, <1>10 DEF IInv, MemoryInv, LargeInv
<1>15. ForeignInv'
  BY <1>6, <1>10 DEF IInv, MemoryInv, ForeignInv, ForeignUnits
<1>16. QED
  BY <1>9, <1>12, <1>13, <1>14, <1>15 DEF MemoryInv

(* So does the system's own answer to a large request.                     *)
LEMMA AllocateLargeMemory ==
  ASSUME IInv, NEW t \in Threads, NEW p \in Places, AllocateLarge(t, p)
  PROVE  MemoryInv'
<1> DEFINE r == [ptr |-> p, size |-> arg[t].size]
<1>1. r \in Region /\ ~IsPooled(r.size)
  BY SizesAssumption DEF IInv, TypeOK, Region, ControlInv, RequestInv, AllocateLarge
<1>2. Extent(r) \cap (ChunkUnits \cup LargeUnits) = {}
  BY DEF AllocateLarge, SystemHasRoom, Extent
<1>3. held' = held \cup {r} /\ UNCHANGED <<blocks, allocated>>
  BY DEF AllocateLarge
<1>4. /\ \A u \in Threads : IsReleasing(u)' => IsReleasing(u) /\ arg'[u] = arg[u]
      /\ \A u \in Threads : IsForeign(u)' => IsForeign(u) /\ arg'[u] = arg[u]
  BY DEF AllocateLarge, Leave, IsReleasing, IsForeign, IInv, TypeOK
<1> HIDE DEF r
<1>5. ASSUME NEW q \in Live
      PROVE  Extent(q) \cap Extent(r) = {}
  <2>1. CASE IsPooled(q.size)
    BY <1>2, <2>1, PooledInChunks DEF IInv
  <2>2. CASE ~IsPooled(q.size)
    BY <1>2, <2>2 DEF LargeUnits
  <2>3. QED
    BY <2>1, <2>2
<1>6. Live' \subseteq Live \cup {r} /\ ReleaseInv' /\ LiveRegionsDisjoint'
  BY <1>1, <1>3, <1>4, <1>5, LiveGrows DEF IInv
<1>7. ChunkUnits' = ChunkUnits
  BY <1>3 DEF ChunkUnits
<1>8. SortedInv' /\ ChunkInv'
  BY <1>3, <1>7 DEF IInv, MemoryInv, SortedInv, ChunkInv
<1>9. PooledInv' /\ LargeInv'
  BY <1>1, <1>2, <1>3, <1>6, <1>7 DEF IInv, MemoryInv, PooledInv, LargeInv
<1>10. ForeignInv'
  BY <1>4, <1>7 DEF IInv, MemoryInv, ForeignInv, ForeignUnits
<1>11. QED
  BY <1>6, <1>8, <1>9, <1>10 DEF MemoryInv

(* Where the sort puts the blocks of a chunk that meets no older block.    *)
LEMMA SortedInOrder ==
  ASSUME TypeOK, SortedInv, NEW p \in Nat,
         \A i \in DOMAIN blocks :
           Span(blocks[i].buffer, BITMAP_SIZE) \cap Span(p, InBlocks * BITMAP_SIZE) = {}
  PROVE  /\ \A i \in DOMAIN blocks :
              i < LowerBound(blocks, p) => BufferEnd(blocks[i]) <= p
         /\ \A i \in DOMAIN blocks :
              LowerBound(blocks, p) <= i => p + InBlocks * BITMAP_SIZE <= blocks[i].buffer
<1> DEFINE k == LowerBound(blocks, p)
           len == InBlocks * BITMAP_SIZE
<1>1. BITMAP_SIZE \in Nat \ {0} /\ InBlocks \in Nat \ {0}
  BY InBlocksType, SizesAssumption
<1>2. len \in Nat \ {0}
  BY <1>1, Z3
<1>3. /\ k \in 1 .. Len(blocks) + 1
      /\ \A i \in DOMAIN blocks : i < k => Less(blocks[i], p)
      /\ k \in DOMAIN blocks => ~Less(blocks[k], p)
  BY LowerBoundProperties, Zenon DEF TypeOK
<1> HIDE DEF k, len
<1>4. ASSUME NEW i \in DOMAIN blocks, i < k
      PROVE  BufferEnd(blocks[i]) <= p
  <2>1. blocks[i].buffer \in Nat
    BY BlockType
  <2>2. QED
    BY <1>1, <1>3, <1>4, <2>1 DEF Less, BufferEnd
<1>5. ASSUME NEW i \in DOMAIN blocks, k <= i
      PROVE  p + len <= blocks[i].buffer
  <2>1. k \in DOMAIN blocks
    BY <1>3, <1>5 DEF TypeOK
  <2>2. blocks[k].buffer \in Nat /\ blocks[i].buffer \in Nat /\ i \in Nat /\ k \in Nat
    BY <2>1, BlockType
  <2>3. blocks[k].buffer >= p
    <3>1. SUFFICES ASSUME blocks[k].buffer < p
          PROVE  FALSE
      BY <2>2
    <3>2. p < BufferEnd(blocks[k])
      BY <1>3, <2>1, <3>1 DEF Less
    <3>3. p \in Span(blocks[k].buffer, BITMAP_SIZE) /\ p \in Span(p, len)
      BY <1>1, <1>2, <2>2, <3>1, <3>2 DEF Span, BufferEnd
    <3>4. QED
      BY <2>1, <3>3 DEF len
  <2>4. blocks[k].buffer >= p + len
    <3>1. blocks[k].buffer \in Span(blocks[k].buffer, BITMAP_SIZE)
      BY <1>1, <2>2 DEF Span
    <3>2. blocks[k].buffer \notin Span(p, len)
      BY <2>1, <3>1 DEF len
    <3>3. QED
      BY <1>2, <2>2, <2>3, <3>2 DEF Span
  <2>5. CASE i = k
    BY <2>4, <2>5
  <2>6. CASE k < i
    <3>1. BufferEnd(blocks[k]) <= blocks[i].buffer
      BY <2>1, <2>6 DEF SortedInv
    <3>2. QED
      BY <1>1, <1>2, <2>2, <2>4, <3>1 DEF BufferEnd
  <2>7. QED
    BY <1>5, <2>2, <2>5, <2>6
<1>6. QED
  BY <1>4, <1>5 DEF k, len

(* A new chunk sorted in keeps every block and region where it was.        *)
LEMMA GetMoreCoreMemory ==
  ASSUME IInv, NEW t \in Threads, NEW p \in Places, GetMoreCore(t, p)
  PROVE  MemoryInv'
<1> DEFINE k == LowerBound(blocks, p)
           len == InBlocks * BITMAP_SIZE
           K == InBlocks
           N == Len(blocks)
<1>1. /\ BITMAP_SIZE \in Nat \ {0} /\ K \in Nat \ {0} /\ p \in Nat /\ len \in Nat
      /\ N \in Nat /\ DOMAIN blocks = 1 .. N
  BY InBlocksType, SizesAssumption DEF IInv, TypeOK
<1>2. k \in 1 .. N + 1
  BY <1>1, LowerBoundProperties, Zenon DEF IInv, TypeOK
<1>3. Span(p, len) \cap (ChunkUnits \cup LargeUnits \cup ForeignUnits) = {}
  BY DEF GetMoreCore, SystemHasRoom
<1>4. /\ blocks' = [i \in 1 .. N + K |->
                      IF i < k THEN blocks[i]
                      ELSE IF i < k + K THEN NewBlock(p, i - k + 1)
                      ELSE blocks[i - K]]
      /\ allocated' = Append(allocated, [ptr |-> p, len |-> len])
      /\ held' = held
  BY DEF GetMoreCore, SortedIn
<1>5. /\ \A i \in DOMAIN blocks : i < k => BufferEnd(blocks[i]) <= p
      /\ \A i \in DOMAIN blocks : k <= i => p + len <= blocks[i].buffer
  <2>1. \A i \in DOMAIN blocks :
          Span(blocks[i].buffer, BITMAP_SIZE) \cap Span(p, len) = {}
    BY <1>3 DEF IInv, MemoryInv, ChunkInv
  <2>2. QED
    BY <1>1, <2>1, SortedInOrder, Zenon DEF IInv, MemoryInv
<1>6. /\ Live' = Live
      /\ ForeignUnits' = ForeignUnits
      /\ \A u \in Threads : (IsReleasing(u)' <=> IsReleasing(u)) /\ arg'[u] = arg[u]
  <2>1. /\ \A u \in Threads : (IsReleasing(u)' <=> IsReleasing(u)) /\ arg'[u] = arg[u]
        /\ \A u \in Threads : IsForeign(u)' <=> IsForeign(u)
    BY DEF GetMoreCore, IsReleasing, IsForeign, IInv, TypeOK
  <2>2. QED
    BY <1>4, <2>1 DEF Live, ForeignUnits
<1>7. ChunkUnits' = ChunkUnits \cup Span(p, len)
  <2>1. allocated \in Seq([ptr : Nat, len : Nat])
    BY DEF IInv, TypeOK
  <2>2. /\ DOMAIN allocated' = DOMAIN allocated \cup {Len(allocated) + 1}
        /\ \A i \in DOMAIN allocated : allocated'[i] = allocated[i]
        /\ allocated'[Len(allocated) + 1] = [ptr |-> p, len |-> len]
    BY <1>1, <1>4, <2>1
  <2>3. QED
    BY <2>2 DEF ChunkUnits
<1> HIDE DEF k, len, K, N
(* The three stretches of the sorted vector.                               *)
<1>8. /\ DOMAIN blocks' = 1 .. N + K
      /\ \A i \in 1 .. N + K : i < k => i \in DOMAIN blocks /\ blocks'[i] = blocks[i]
      /\ \A i \in 1 .. N + K :
           k <= i /\ i < k + K => blocks'[i] = NewBlock(p, i - k + 1)
      /\ \A i \in 1 .. N + K :
           k + K <= i => i - K \in DOMAIN blocks /\ blocks'[i] = blocks[i - K]
  BY <1>1, <1>2, <1>4
<1>9. ASSUME NEW j \in 1 .. K
      PROVE  /\ NewBlock(p, j).buffer \in Nat
             /\ p <= NewBlock(p, j).buffer
             /\ BufferEnd(NewBlock(p, j)) <= p + len
             /\ \A h \in 1 .. K : j < h => BufferEnd(NewBlock(p, j)) <= NewBlock(p, h).buffer
  BY <1>1, NewBlocksApart, Zenon DEF K, len
<1>10. SortedInv'
  <2>1. SUFFICES ASSUME NEW i \in 1 .. N + K, NEW j \in 1 .. N + K, i < j
                 PROVE  BufferEnd(blocks'[i]) <= blocks'[j].buffer
    BY <1>8 DEF SortedInv, BufferEnd
  <2>2. CASE j < k
    <3>1. /\ i \in DOMAIN blocks /\ blocks'[i] = blocks[i]
          /\ j \in DOMAIN blocks /\ blocks'[j] = blocks[j]
      BY <1>1, <1>2, <1>8, <2>1, <2>2
    <3>2. QED
      BY <2>1, <3>1, Zenon DEF IInv, MemoryInv, SortedInv, BufferEnd
  <2>3. CASE i < k /\ k <= j /\ j < k + K
    <3>1. j - k + 1 \in 1 .. K
      BY <1>1, <1>2, <2>3
    <3>2. BufferEnd(blocks[i]) <= p /\ p <= NewBlock(p, j - k + 1).buffer
      BY <1>5, <1>8, <1>9, <2>3, <3>1
    <3>3. blocks[i].buffer \in Nat /\ NewBlock(p, j - k + 1).buffer \in Nat
      BY <1>8, <1>9, <2>3, <3>1, BlockType DEF IInv
    <3>4. QED
      BY <1>1, <1>8, <2>3, <3>2, <3>3 DEF BufferEnd
  <2>4. CASE i < k /\ k + K <= j
    <3>1. /\ i \in DOMAIN blocks /\ j - K \in DOMAIN blocks /\ i < j - K
          /\ blocks'[i] = blocks[i] /\ blocks'[j] = blocks[j - K]
      BY <1>1, <1>2, <1>8, <2>4
    <3>2. QED
      BY <3>1 DEF IInv, MemoryInv, SortedInv
  <2>5. CASE k <= i /\ j < k + K
    <3>1. /\ i - k + 1 \in 1 .. K
          /\ j - k + 1 \in 1 .. K
          /\ i - k + 1 < j - k + 1
          /\ blocks'[i] = NewBlock(p, i - k + 1)
          /\ blocks'[j] = NewBlock(p, j - k + 1)
      BY <1>1, <1>2, <1>8, <2>1, <2>5
    <3>2. QED
      BY <1>9, <3>1
  <2>6. CASE k <= i /\ i < k + K /\ k + K <= j
    <3>1. i - k + 1 \in 1 .. K /\ j - K \in DOMAIN blocks /\ k <= j - K
      BY <1>1, <1>2, <1>8, <2>6
    <3>2. BufferEnd(NewBlock(p, i - k + 1)) <= p + len /\ p + len <= blocks[j - K].buffer
      BY <1>5, <1>9, <3>1
    <3>3. blocks[j - K].buffer \in Nat /\ NewBlock(p, i - k + 1).buffer \in Nat
      BY <1>9, <3>1, BlockType DEF IInv
    <3>4. QED
      BY <1>1, <1>8, <2>6, <3>2, <3>3 DEF BufferEnd
  <2>7. CASE k + K <= i
    <3>1. /\ i - K \in DOMAIN blocks /\ j - K \in DOMAIN blocks /\ i - K < j - K
          /\ blocks'[i] = blocks[i - K] /\ blocks'[j] = blocks[j - K]
      BY <1>1, <1>2, <1>8, <2>1, <2>7
    <3>2. QED
      BY <3>1 DEF IInv, MemoryInv, SortedInv
  <2>8. QED
    BY <1>1, <1>2, <2>1, <2>2, <2>3, <2>4, <2>5, <2>6, <2>7
<1>11. ChunkInv'
  <2>1. SUFFICES ASSUME NEW i \in 1 .. N + K
                 PROVE  Span(blocks'[i].buffer, BITMAP_SIZE) \subseteq ChunkUnits'
    BY <1>8 DEF ChunkInv
  <2>2. CASE i < k \/ k + K <= i
    BY <1>7, <1>8, <2>2 DEF IInv, MemoryInv, ChunkInv
  <2>3. CASE k <= i /\ i < k + K
    <3>1. i - k + 1 \in 1 .. K
      BY <1>1, <1>2, <2>3
    <3>2. Span(NewBlock(p, i - k + 1).buffer, BITMAP_SIZE) \subseteq Span(p, len)
      BY <1>1, <1>9, <3>1 DEF Span, BufferEnd
    <3>3. QED
      BY <1>7, <1>8, <2>3, <3>2
  <2>4. QED
    BY <1>1, <1>2, <2>2, <2>3
<1>12. PooledInv'
  <2>1. \A i \in DOMAIN blocks : \E j \in DOMAIN blocks' : blocks'[j] = blocks[i]
    <3>1. SUFFICES ASSUME NEW i \in DOMAIN blocks
                   PROVE  \E j \in DOMAIN blocks' : blocks'[j] = blocks[i]
      OBVIOUS
    <3>2. CASE i < k
      BY <1>1, <1>8, <3>2
    <3>3. CASE k <= i
      <4>1. i + K \in 1 .. N + K /\ k + K <= i + K /\ (i + K) - K = i
        BY <1>1, <1>2, <3>3
      <4>2. QED
        BY <1>8, <4>1
    <3>4. QED
      BY <1>1, <1>2, <3>2, <3>3
  <2>2. QED
    BY <1>6, <2>1 DEF IInv, MemoryInv, PooledInv, Marked
<1>13. LargeInv'
  BY <1>3, <1>6, <1>7 DEF IInv, MemoryInv, LargeInv, LargeUnits
<1>14. ForeignInv'
  BY <1>3, <1>6, <1>7 DEF IInv, MemoryInv, ForeignInv
<1>15. ReleaseInv' /\ LiveRegionsDisjoint'
  BY <1>4, <1>6 DEF IInv, MemoryInv, ReleaseInv, LiveRegionsDisjoint
<1>16. QED
  BY <1>10, <1>11, <1>12, <1>13, <1>14, <1>15 DEF MemoryInv

(* Clearing a region's bits leaves those of the other regions set.         *)
LEMMA FreePooledMemory ==
  ASSUME IInv, NEW t \in Threads, FreePooled(t)
  PROVE  MemoryInv'
<1> DEFINE o == Owner(arg[t])
           b == blocks[o]
           n == BlockNo(arg[t].size)
           r == AsRegion(arg[t])
<1>1. o \in DOMAIN blocks /\ Contains(b, arg[t].ptr, n)
  <2>1. Owned(arg[t])
    BY DEF FreePooled
  <2>2. o \in DOMAIN blocks
    BY <2>1, OwnerInDomain, Zenon DEF IInv
  <2>3. QED
    BY <2>1, <2>2 DEF Owned
<1>2. b.buffer \in Nat /\ BITMAP_SIZE \in Nat
  BY <1>1, BlockType DEF IInv
<1>3. arg[t].ptr \in Nat /\ n \in Nat \ {0} /\ IsPooled(arg[t].size)
  BY BlockNoProperties DEF IInv, TypeOK, FreePooled
<1>4. /\ blocks' = [blocks EXCEPT ![o] = BlockFree(b, arg[t].ptr, n)]
      /\ held' = held /\ allocated' = allocated
  BY DEF FreePooled
<1>5. /\ ~IsReleasing(t)' /\ ~IsForeign(t)'
      /\ \A u \in Threads : IsReleasing(u)' => IsReleasing(u) /\ arg'[u] = arg[u]
      /\ \A u \in Threads : IsForeign(u)' => IsForeign(u) /\ arg'[u] = arg[u]
  BY DEF FreePooled, Leave, IsReleasing, IsForeign, IInv, TypeOK
<1>6. ChunkUnits' = ChunkUnits /\ ForeignUnits' \subseteq ForeignUnits
  BY <1>4, <1>5 DEF ChunkUnits, ForeignUnits
(* The pointer is the caller's own: a foreign one is in no chunk.          *)
<1>7. IsReleasing(t)
  <2>1. SUFFICES ASSUME IsForeign(t) PROVE FALSE
    BY DEF IsReleasing, IsForeign, FreePooled
  <2>2. arg[t].ptr \in Extent(arg[t])
    BY <1>3 DEF Extent, Span
  <2>3. arg[t].ptr \in Span(b.buffer, BITMAP_SIZE)
    <3>1. /\ b.buffer <= arg[t].ptr
          /\ arg[t].ptr + n <= b.buffer + BITMAP_SIZE
      BY <1>1, Zenon DEF Contains, BufferEnd
    <3> HIDE DEF b, n
    <3>2. QED
      BY <1>2, <1>3, <3>1 DEF Span
  <2>4. QED
    BY <1>1, <2>1, <2>2, <2>3 DEF IInv, MemoryInv, ChunkInv, ForeignInv, ForeignUnits
<1>8. Live' \subseteq Live /\ r \in Live /\ r \notin Live'
  BY <1>4, <1>5, <1>7 DEF Live, IInv, MemoryInv, ReleaseInv
<1>9. /\ DOMAIN blocks' = DOMAIN blocks
      /\ \A j \in DOMAIN blocks : blocks'[j].buffer = blocks[j].buffer
      /\ \A j \in DOMAIN blocks : j # o => blocks'[j] = blocks[j]
      /\ blocks'[o].bitmap = b.bitmap \ Span(arg[t].ptr - b.buffer, n)
  <2>1. b \in Block
    BY <1>1, BlockType DEF IInv
  <2>2. /\ BlockFree(b, arg[t].ptr, n).buffer = b.buffer
        /\ BlockFree(b, arg[t].ptr, n).bitmap = b.bitmap \ Span(arg[t].ptr - b.buffer, n)
    BY <2>1 DEF BlockFree, Block
  <2>3. QED
    BY <1>1, <1>4, <2>2 DEF IInv, TypeOK
<1>10. SortedInv' /\ ChunkInv'
  BY <1>6, <1>9 DEF IInv, MemoryInv, SortedInv, ChunkInv, BufferEnd
<1>11. PooledInv'
  <2>1. SUFFICES ASSUME NEW q \in Live', IsPooled(q.size)
                 PROVE  \E j \in DOMAIN blocks' : Marked(q, blocks'[j])
    BY DEF PooledInv
  <2>2. q \in Live /\ q # r
    BY <1>8
  <2>3. PICK j \in DOMAIN blocks : Marked(q, blocks[j])
    BY <2>1, <2>2 DEF IInv, MemoryInv, PooledInv
  <2>4. CASE j # o
    BY <1>9, <2>3, <2>4
  <2>5. CASE j = o
    <3>1. q.ptr \in Nat /\ BlockNo(q.size) \in Nat
      BY <2>2, LiveType DEF IInv, Region
    <3>2. Extent(q) \cap Span(arg[t].ptr, n) = {}
      BY <1>8, <2>2 DEF IInv, MemoryInv, LiveRegionsDisjoint, Extent, AsRegion
    <3> HIDE DEF n, b, o
    <3>3. Span(q.ptr - b.buffer, BlockNo(q.size)) \cap Span(arg[t].ptr - b.buffer, n) = {}
      <4>1. ASSUME NEW a \in Span(q.ptr - b.buffer, BlockNo(q.size)),
                   a \in Span(arg[t].ptr - b.buffer, n)
            PROVE  FALSE
        <5>1. a + b.buffer \in Span(q.ptr, BlockNo(q.size))
          BY <1>2, <3>1, <4>1 DEF Span
        <5>2. a + b.buffer \in Span(arg[t].ptr, n)
          BY <1>2, <1>3, <3>1, <4>1 DEF Span
        <5>3. QED
          BY <3>2, <5>1, <5>2 DEF Extent
      <4>2. QED
        BY <4>1
    <3>4. Contains(b, q.ptr, BlockNo(q.size))
          /\ Span(q.ptr - b.buffer, BlockNo(q.size)) \subseteq b.bitmap
      BY <2>3, <2>5 DEF Marked, b
    <3>5. Marked(q, blocks'[o])
      BY <1>1, <1>9, <3>3, <3>4 DEF Marked, Contains, BufferEnd, b
    <3>6. QED
      BY <1>1, <1>9, <3>5
  <2>6. QED
    BY <2>4, <2>5
<1>12. LargeInv' /\ ForeignInv' /\ LiveRegionsDisjoint'
  BY <1>6, <1>8 DEF IInv, MemoryInv, LargeInv, ForeignInv, LiveRegionsDisjoint
<1>13. ReleaseInv'
  BY <1>4, <1>5 DEF IInv, MemoryInv, ReleaseInv
<1>14. QED
  BY <1>10, <1>11, <1>12, <1>13 DEF MemoryInv

(* Handing a region to deallocate leaves the live regions as they are.     *)
LEMMA DeallocateMemory ==
  ASSUME IInv, NEW t \in Threads, NEW r \in held, Deallocate(t, r)
  PROVE  MemoryInv'
<1>1. UNCHANGED <<blocks, allocated>> /\ held' = held \ {r}
  BY DEF Deallocate
<1>2. r \in Region /\ AsRegion(arg'[t]) = r
  BY DEF Deallocate, IInv, TypeOK, Region, AsRegion
<1>3. /\ ~IsReleasing(t) /\ ~IsForeign(t) /\ IsReleasing(t)' /\ ~IsForeign(t)'
      /\ \A u \in Threads \ {t} : /\ IsReleasing(u)' <=> IsReleasing(u)
                                  /\ IsForeign(u)' <=> IsForeign(u)
                                  /\ arg'[u] = arg[u]
  BY DEF Deallocate, IsReleasing, IsForeign, IInv, TypeOK, Ready
<1>4. Live' = Live
  <2>1. Live' \subseteq Live
    BY <1>1, <1>2, <1>3 DEF Live
  <2>2. Live \subseteq Live'
    BY <1>1, <1>2, <1>3 DEF Live
  <2>3. QED
    BY <2>1, <2>2
<1>5. ChunkUnits' = ChunkUnits /\ ForeignUnits' = ForeignUnits
  BY <1>1, <1>3 DEF ChunkUnits, ForeignUnits
<1>6. SortedInv' /\ ChunkInv'
  BY <1>1, <1>5 DEF IInv, MemoryInv, SortedInv, ChunkInv
<1>7. PooledInv' /\ LargeInv' /\ ForeignInv' /\ LiveRegionsDisjoint'
  BY <1>1, <1>4, <1>5
     DEF IInv, MemoryInv, PooledInv, LargeInv, ForeignInv, LiveRegionsDisjoint
<1>8. ReleaseInv'
  BY <1>1, <1>2, <1>3 DEF IInv, MemoryInv, ReleaseInv
<1>9. QED
  BY <1>6, <1>7, <1>8 DEF MemoryInv

(* A foreign pointer meets no chunk.                                       *)
LEMMA DeallocateForeignMemory ==
  ASSUME IInv, NEW t \in Threads, NEW p \in Places, NEW n \in Sizes,
         DeallocateForeign(t, p, n)
  PROVE  MemoryInv'
<1>1. UNCHANGED <<blocks, allocated, held>> /\ Span(p, BlockNo(n)) \cap ChunkUnits = {}
  BY DEF DeallocateForeign
<1>2. /\ ~IsReleasing(t) /\ ~IsReleasing(t)'
      /\ Extent(arg'[t]) = Span(p, BlockNo(n))
      /\ \A u \in Threads \ {t} : /\ IsReleasing(u)' <=> IsReleasing(u)
                                  /\ IsForeign(u)' <=> IsForeign(u)
                                  /\ arg'[u] = arg[u]
  BY DEF DeallocateForeign, IsReleasing, IsForeign, IInv, TypeOK, Ready, Extent
<1>3. Live' = Live
  BY <1>1, <1>2 DEF Live
<1>4. /\ ChunkUnits' = ChunkUnits
      /\ ForeignUnits' \subseteq ForeignUnits \cup Span(p, BlockNo(n))
  BY <1>1, <1>2 DEF ChunkUnits, ForeignUnits
<1>5. SortedInv' /\ ChunkInv' /\ ForeignInv'
  BY <1>1, <1>4 DEF IInv, MemoryInv, SortedInv, ChunkInv, ForeignInv
<1>6. PooledInv' /\ LargeInv' /\ LiveRegionsDisjoint'
  BY <1>1, <1>3, <1>4 DEF IInv, MemoryInv, PooledInv, LargeInv, LiveRegionsDisjoint
<1>7. ReleaseInv'
  BY <1>1, <1>2 DEF IInv, MemoryInv, ReleaseInv
<1>8. QED
  BY <1>5, <1>6, <1>7 DEF MemoryInv

(* The tear-down takes every chunk and every pooled region.                *)
LEMMA DestroyMemory ==
  ASSUME IInv, Destroy
  PROVE  MemoryInv'
<1>1. /\ blocks' = <<>> /\ allocated' = <<>>
      /\ held' = {r \in held : ~IsPooled(r.size)}
      /\ UNCHANGED <<pc, arg>>
      /\ \A t \in Threads : pc[t] \in Ready
  BY DEF Destroy
<1>2. \A t \in Threads : ~IsReleasing(t)' /\ ~IsForeign(t)'
  BY <1>1 DEF IsReleasing, IsForeign, Ready
<1>3. Live' = held' /\ ChunkUnits' = {} /\ ForeignUnits' = {}
  BY <1>1, <1>2 DEF Live, ChunkUnits, ForeignUnits
<1>4. SortedInv' /\ ChunkInv' /\ PooledInv'
  BY <1>1, <1>3 DEF SortedInv, ChunkInv, PooledInv
<1>5. LargeInv' /\ ForeignInv' /\ ReleaseInv'
  BY <1>2, <1>3 DEF LargeInv, ForeignInv, ReleaseInv
<1>6. LiveRegionsDisjoint'
  BY <1>1, <1>3 DEF IInv, MemoryInv, LiveRegionsDisjoint, Live
<1>7. QED
  BY <1>4, <1>5, <1>6 DEF MemoryInv

(* Every step keeps the memory in order.                                   *)
LEMMA MemoryNext == IInv /\ [Next]_vars => MemoryInv'
<1> SUFFICES ASSUME IInv, [Next]_vars PROVE MemoryInv'
  OBVIOUS
<1>1. ASSUME NEW t \in Threads,
             LockAllocate(t) \/ LockDeallocate(t) \/ ScanFinds(t) \/ ScanMovesOn(t)
             \/ ScanFails(t) \/ SystemRefuses(t) \/ WrongAllocator(t)
             \/ FreeLarge(t) \/ \E n \in Sizes : Allocate(t, n)
      PROVE  MemoryInv'
  <2> USE DEF LockAllocate, LockDeallocate, ScanFinds, ScanMovesOn, ScanFails,
              SystemRefuses, WrongAllocator, FreeLarge, Allocate
  <2>1. UNCHANGED <<blocks, allocated, held>>
    BY <1>1
  <2>2. \A u \in Threads : IsReleasing(u)' => IsReleasing(u) /\ arg'[u] = arg[u]
    BY <1>1 DEF IInv, TypeOK, Leave, IsReleasing, Ready
  <2>3. \A u \in Threads : IsForeign(u)' => IsForeign(u) /\ arg'[u] = arg[u]
    BY <1>1 DEF IInv, TypeOK, Leave, IsForeign, Ready
  <2>4. QED
    BY <2>1, <2>2, <2>3, LiveShrinks DEF IInv
<1>2. CASE (\E r \in held : Write(r)) \/ UNCHANGED vars
  <2>1. UNCHANGED <<blocks, allocated, held, pc, arg>>
    BY <1>2 DEF Write, vars
  <2>2. QED
    BY <2>1, LiveShrinks DEF IInv, IsReleasing, IsForeign
<1>3. QED
  BY <1>1, <1>2, MarkMemory, AllocateLargeMemory, GetMoreCoreMemory, FreePooledMemory,
     DeallocateMemory, DeallocateForeignMemory, DestroyMemory DEF Next, Step

-----------------------------------------------------------------------------
(* The inductive invariant.                                                *)

(* The constructor's state satisfies the inductive invariant.              *)
LEMMA InvariantInit == Init => IInv
<1> SUFFICES ASSUME Init PROVE IInv
  OBVIOUS
<1>1. TypeOK
  BY TypeInit
<1>2. /\ blocks = <<>> /\ allocated = <<>> /\ held = {} /\ mutex = NoThread
      /\ \A t \in Threads : pc[t] = "idle"
  BY DEF Init
<1>3. ControlInv
  BY <1>2, NoThreadAssumption DEF ControlInv, MutexInv, CursorInv, RequestInv, Critical
<1>4. MemoryInv
  <2>1. \A t \in Threads : ~IsReleasing(t) /\ ~IsForeign(t)
    BY <1>2 DEF IsReleasing, IsForeign
  <2>2. Live = {} /\ ForeignUnits = {}
    BY <1>2, <2>1 DEF Live, ForeignUnits
  <2>3. QED
    BY <1>2, <2>1, <2>2 DEF MemoryInv, SortedInv, ChunkInv, PooledInv, LargeInv,
                            ForeignInv, ReleaseInv, LiveRegionsDisjoint
<1>5. QED
  BY <1>1, <1>3, <1>4 DEF IInv

(* Every reachable state of the pool satisfies the inductive invariant:    *)
(* the mutex has one holder, the blocks are sorted and lie in the chunks,  *)
(* and every live pooled region has its bits set in one block.             *)
THEOREM InductiveInvariant == Spec => []IInv
<1>1. IInv /\ [Next]_vars => IInv'
  BY TypeNext, ControlNext, MemoryNext DEF IInv
<1>2. QED
  BY InvariantInit, <1>1, PTL DEF Spec

(* The allocator's variables keep their types, and last_used and every     *)
(* thread's iterator point into the vector of blocks, which another thread *)
(* may have grown and sorted since they were set (mem_pool.cpp:212, 261).  *)
THEOREM TypeCorrect == Spec => [](TypeOK /\ CursorInv)
<1>1. IInv => TypeOK /\ CursorInv
  BY DEF IInv, ControlInv
<1>2. QED
  BY InductiveInvariant, <1>1, PTL

(* No two regions in use overlap, for any number of threads, any sizes and *)
(* any places the system picks for its chunks: the memory that allocate    *)
(* returns is nobody else's.                                               *)
THEOREM NoOverlap == Spec => []LiveRegionsDisjoint
<1>1. IInv => LiveRegionsDisjoint
  BY DEF IInv, MemoryInv
<1>2. QED
  BY InductiveInvariant, <1>1, PTL
-----------------------------------------------------------------------------
(* deallocate.                                                             *)

(* The binary search finds the block of every region the pool handed out.  *)
LEMMA OwnRegionIsOwned ==
  ASSUME IInv, NEW t \in Threads, IsReleasing(t), IsPooled(arg[t].size)
  PROVE  Owned(arg[t])
<1> DEFINE p == arg[t].ptr
           n == BlockNo(arg[t].size)
           o == LowerBound(blocks, p)
<1>1. AsRegion(arg[t]) \in Live
  BY DEF Live
<1>2. /\ AsRegion(arg[t]).ptr = p /\ AsRegion(arg[t]).size = arg[t].size
      /\ p \in Nat /\ n \in Nat \ {0}
  BY BlockNoProperties DEF IInv, TypeOK, AsRegion
<1>3. PICK j \in DOMAIN blocks : Contains(blocks[j], p, n)
  BY <1>1, <1>2 DEF IInv, MemoryInv, PooledInv, Marked
<1>4. blocks[j].buffer \in Nat /\ BITMAP_SIZE \in Nat /\ j \in Nat
  BY BlockType DEF IInv
<1>5. /\ o \in 1 .. Len(blocks) + 1
      /\ \A i \in DOMAIN blocks : i < o => Less(blocks[i], p)
      /\ o \in DOMAIN blocks => ~Less(blocks[o], p)
  BY <1>2, LowerBoundProperties, Zenon DEF IInv, TypeOK
<1>6. DOMAIN blocks = 1 .. Len(blocks) /\ Len(blocks) \in Nat
  BY DEF IInv, TypeOK
<1> HIDE DEF p, n, o
<1>7. blocks[j].buffer <= p /\ p < BufferEnd(blocks[j])
  BY <1>2, <1>3, <1>4 DEF Contains, BufferEnd
<1>8. ~Less(blocks[j], p)
  BY <1>7, <1>4, <1>2 DEF Less
<1>9. o <= j /\ o \in DOMAIN blocks
  BY <1>4, <1>5, <1>6, <1>8
<1>10. o = j
  <2>1. SUFFICES ASSUME o < j PROVE FALSE
    BY <1>4, <1>5, <1>9
  <2>2. BufferEnd(blocks[o]) <= blocks[j].buffer
    BY <1>9, <2>1 DEF IInv, MemoryInv, SortedInv
  <2>3. blocks[o].buffer \in Nat /\ BITMAP_SIZE \in Nat \ {0}
    BY <1>9, BlockType, SizesAssumption DEF IInv
  <2>4. blocks[o].buffer < p /\ BufferEnd(blocks[o]) <= p
    BY <1>2, <1>4, <1>7, <2>2, <2>3 DEF BufferEnd
  <2>5. Less(blocks[o], p)
    BY <1>2, <2>3, <2>4 DEF Less, BufferEnd
  <2>6. QED
    BY <1>5, <1>9, <2>5
<1>11. QED
  BY <1>3, <1>6, <1>9, <1>10 DEF Owned, Owner, p, n, o

(* No block holds a foreign pointer: what deallocate finds is its own.     *)
LEMMA OwnedIsReleasing ==
  ASSUME IInv, NEW t \in Threads, pc[t] = "free", Owned(arg[t])
  PROVE  IsReleasing(t)
<1> DEFINE o == Owner(arg[t])
           b == blocks[o]
           n == BlockNo(arg[t].size)
<1>1. SUFFICES ASSUME IsForeign(t) PROVE FALSE
  BY DEF IsReleasing, IsForeign
<1>2. o \in DOMAIN blocks /\ Contains(b, arg[t].ptr, n)
  <2>1. o \in DOMAIN blocks
    BY OwnerInDomain, Zenon DEF IInv
  <2>2. QED
    BY <2>1 DEF Owned
<1>3. b.buffer \in Nat /\ BITMAP_SIZE \in Nat
  BY <1>2, BlockType DEF IInv
<1>4. arg[t].ptr \in Nat /\ n \in Nat \ {0}
  BY BlockNoProperties DEF IInv, TypeOK
<1>5. arg[t].ptr \in Extent(arg[t])
  BY <1>4 DEF Extent, Span
<1>6. Span(b.buffer, BITMAP_SIZE) \subseteq ChunkUnits
  BY <1>2 DEF IInv, MemoryInv, ChunkInv
<1>7. b.buffer <= arg[t].ptr /\ arg[t].ptr + n <= b.buffer + BITMAP_SIZE
  BY <1>2, Zenon DEF Contains, BufferEnd
<1> HIDE DEF b, n
<1>8. arg[t].ptr \in Span(b.buffer, BITMAP_SIZE)
  BY <1>3, <1>4, <1>7 DEF Span
<1>9. QED
  BY <1>1, <1>5, <1>6, <1>8 DEF IInv, MemoryInv, ForeignInv, ForeignUnits

-----------------------------------------------------------------------------
(* The bitmap search.                                                      *)

(* The shifting mask finds a run whenever there is one.                    *)
LEMMA MaskFindsRun ==
  ASSUME NEW b \in Block, NEW n \in 1 .. BITMAP_SIZE
  PROVE  CanAlloc(b, n) <=> HasRun(b, n)
<1> DEFINE S == {off \in 0 .. BITMAP_SIZE - n :
                   IsClear(b, off, n) \/ off + n = BITMAP_SIZE}
<1>1. BITMAP_SIZE \in Nat
  BY SizesAssumption
<1>2. S \subseteq Nat /\ BITMAP_SIZE - n \in S
  BY <1>1
<1>3. Min(S) \in S /\ \A x \in S : Min(S) <= x
  BY <1>2, MinProperties, Zenon
<1>4. MaskStop(b, n) = Min(S)
  BY DEF MaskStop
<1>5. ASSUME HasRun(b, n) PROVE IsClear(b, Min(S), n)
  <2>1. PICK off \in 0 .. BITMAP_SIZE - n : IsClear(b, off, n)
    BY <1>5 DEF HasRun
  <2>2. Min(S) <= off
    BY <1>3, <2>1
  <2>3. Min(S) + n = BITMAP_SIZE => Min(S) = off
    BY <1>1, <1>3, <2>1, <2>2
  <2>4. QED
    BY <1>3, <2>1, <2>3
<1>6. QED
  BY <1>3, <1>4, <1>5 DEF CanAlloc, HasRun

(* An empty block has room for any pooled request.                         *)
LEMMA EmptyBlockHasRoom ==
  ASSUME NEW b \in Block, b.bitmap = {}, NEW n \in 1 .. BITMAP_SIZE
  PROVE  CanAlloc(b, n)
<1>1. IsClear(b, 0, n) /\ 0 \in 0 .. BITMAP_SIZE - n
  BY SizesAssumption DEF IsClear
<1>2. QED
  BY <1>1, MaskFindsRun DEF HasRun

(* After a chunk has been fetched, last_used is at its first block.        *)
LEMMA CoreAtNewChunk ==
  ASSUME NEW s \in Seq(Block), NEW p \in Nat
  PROVE  SortedIn(s, p)[LowerBound(SortedIn(s, p), p)] = NewBlock(p, 1)
<1> DEFINE k == LowerBound(s, p)
           w == SortedIn(s, p)
<1>1. /\ k \in 1 .. Len(s) + 1 /\ InBlocks \in Nat \ {0} /\ Len(s) \in Nat
      /\ DOMAIN s = 1 .. Len(s)
      /\ \A i \in DOMAIN s : i < k => Less(s[i], p)
  <2>1. k \in 1 .. Len(s) + 1 /\ \A i \in DOMAIN s : i < k => Less(s[i], p)
    BY LowerBoundProperties, Zenon
  <2>2. InBlocks \in Nat \ {0}
    BY InBlocksType
  <2>3. QED
    BY <2>1, <2>2
<1>2. /\ w \in Seq(Block)
      /\ Len(w) = Len(s) + InBlocks
      /\ DOMAIN w = 1 .. Len(s) + InBlocks
  BY SortedInType, Zenon
<1>3. k \in DOMAIN w /\ w[k] = NewBlock(p, 1)
  BY <1>1 DEF SortedIn
<1>4. ~Less(w[k], p)
  <2>1. w[k].buffer = p
    BY <1>1, <1>3, SizesAssumption DEF NewBlock
  <2>2. QED
    BY <2>1 DEF Less
<1>5. ASSUME NEW i \in DOMAIN w, i < k PROVE Less(w[i], p)
  <2>1. i \in DOMAIN s /\ w[i] = s[i]
    BY <1>1, <1>2, <1>5 DEF SortedIn
  <2>2. QED
    BY <1>1, <1>5, <2>1
<1>6. /\ LowerBound(w, p) \in 1 .. Len(w) + 1
      /\ \A i \in DOMAIN w : i < LowerBound(w, p) => Less(w[i], p)
      /\ LowerBound(w, p) \in DOMAIN w => ~Less(w[LowerBound(w, p)], p)
  BY <1>2, LowerBoundProperties, Zenon
<1> HIDE DEF k, w
<1>7. LowerBound(w, p) = k
  <2>1. ~(k < LowerBound(w, p))
    BY <1>3, <1>4, <1>6
  <2>2. ~(LowerBound(w, p) < k)
    BY <1>1, <1>2, <1>3, <1>5, <1>6
  <2>3. QED
    BY <1>1, <1>2, <1>6, <2>1, <2>2
<1>8. QED
  BY <1>3, <1>7 DEF w

-----------------------------------------------------------------------------
(* The circular scan.                                                      *)

(* A pooled request is for 1 to BITMAP_SIZE units.                         *)
LEMMA RequestUnits ==
  ASSUME IInv, NEW t \in Threads, pc[t] \in {"scan", "rescan", "mark", "core"}
  PROVE  BlockNo(arg[t].size) \in 1 .. BITMAP_SIZE
<1>1. arg[t].size \in Nat /\ IsPooled(arg[t].size)
  BY DEF IInv, TypeOK, ControlInv, RequestInv
<1>2. BlockNo(arg[t].size) \in Nat \ {0} /\ BlockNo(arg[t].size) <= BITMAP_SIZE
  BY <1>1, BlockNoProperties
<1>3. QED
  BY <1>2, SizesAssumption

(* Where the iterator goes next, and what is then behind it.               *)
LEMMA BehindProperties ==
  ASSUME blocks \in Seq(Block), last_used \in DOMAIN blocks, NEW k \in DOMAIN blocks
  PROVE  /\ \A i \in DOMAIN blocks : ~Behind(i, k, k)
         /\ NextIter(k) # last_used =>
              \A i \in DOMAIN blocks :
                Behind(i, last_used, NextIter(k)) => Behind(i, last_used, k) \/ i = k
         /\ NextIter(k) = last_used =>
              \A i \in DOMAIN blocks : Behind(i, last_used, k) \/ i = k
<1>1. DOMAIN blocks = 1 .. Len(blocks) /\ Len(blocks) \in Nat
  OBVIOUS
<1>2. QED
  BY <1>1 DEF Behind, NextIter

(* A thread's part of ScanInv.                                             *)
Scanned(t) ==
  /\ pc[t] = "scan" => \A i \in DOMAIN blocks :
       Behind(i, last_used, iter[t]) => ~CanAlloc(blocks[i], BlockNo(arg[t].size))
  /\ pc[t] = "core" => \A i \in DOMAIN blocks : ~CanAlloc(blocks[i], BlockNo(arg[t].size))
  /\ pc[t] = "rescan" =>
       blocks # <<>> /\ CanAlloc(blocks[iter[t]], BlockNo(arg[t].size))

(* A step that leaves the blocks and a thread's scan alone keeps its part. *)
LEMMA ScanUnchanged ==
  ASSUME NEW t \in Threads, Scanned(t), UNCHANGED <<blocks, last_used>>,
         pc'[t] = pc[t], arg'[t] = arg[t], iter'[t] = iter[t]
  PROVE  Scanned(t)'
  BY DEF Scanned, Behind, CanAlloc, MaskStop, IsClear

(* The thread in the critical section; the others scan nothing.            *)
LEMMA OtherNotScanning ==
  ASSUME IInv, NEW t \in Threads, pc[t] \in Critical, NEW u \in Threads \ {t}
  PROVE  pc[u] \notin Critical
  BY DEF IInv, ControlInv, MutexInv

(* The scan misses no block, and a new chunk starts with room.             *)
LEMMA ScanNext == ASSUME IInv, ScanInv, [Next]_vars PROVE ScanInv'
<1>0. /\ TypeOK /\ DOMAIN pc = Threads /\ DOMAIN arg = Threads /\ DOMAIN iter = Threads
      /\ \A t \in Threads : Scanned(t)
  BY DEF IInv, TypeOK, ScanInv, Scanned
<1>1. ASSUME NEW t \in Threads, LockAllocate(t), NEW u \in Threads PROVE Scanned(u)'
  <2>1. CASE u = t
    <3>1. /\ pc'[t] \in {"scan", "large"} /\ iter'[t] = last_used
          /\ UNCHANGED <<blocks, last_used>>
      BY <1>0, <1>1 DEF LockAllocate
    <3>2. \A i \in DOMAIN blocks : ~Behind(i, last_used, last_used)
      <4>1. ASSUME NEW i \in DOMAIN blocks PROVE ~Behind(i, last_used, last_used)
        <5>1. i \in Nat /\ last_used \in Nat
          BY <1>0 DEF TypeOK
        <5>2. QED
          BY <5>1 DEF Behind
      <4>2. QED
        BY <4>1
    <3>3. QED
      BY <2>1, <3>1, <3>2 DEF Scanned
  <2>2. CASE u # t
    BY <1>0, <1>1, <2>2, ScanUnchanged DEF LockAllocate
  <2>3. QED
    BY <2>1, <2>2
<1>2. ASSUME NEW t \in Threads, NEW u \in Threads,
             \/ LockDeallocate(t)
             \/ \E n \in Sizes : Allocate(t, n)
             \/ \E r \in held : Deallocate(t, r)
             \/ \E p \in Places, n \in Sizes : DeallocateForeign(t, p, n)
      PROVE  Scanned(u)'
  <2>1. /\ UNCHANGED <<blocks, last_used, iter>>
        /\ pc'[t] \in {"free", "allocate", "deallocate"}
        /\ u # t => pc'[u] = pc[u] /\ arg'[u] = arg[u]
    BY <1>0, <1>2 DEF LockDeallocate, Allocate, Deallocate, DeallocateForeign
  <2>2. CASE u = t
    BY <2>1, <2>2 DEF Scanned
  <2>3. CASE u # t
    BY <1>0, <2>1, <2>3, ScanUnchanged
  <2>4. QED
    BY <2>2, <2>3
<1>3. ASSUME NEW t \in Threads, NEW u \in Threads, ScanFinds(t) PROVE Scanned(u)'
  <2>1. CASE u = t
    BY <1>0, <1>3, <2>1 DEF ScanFinds, Scanned
  <2>2. CASE u # t
    BY <1>0, <1>3, <2>2, ScanUnchanged DEF ScanFinds
  <2>3. QED
    BY <2>1, <2>2
<1>4. ASSUME NEW t \in Threads, NEW u \in Threads, ScanMovesOn(t) PROVE Scanned(u)'
  <2>1. CASE u = t
    <3>1. pc[t] = "scan"
      BY <1>0, <1>4 DEF ScanMovesOn, Scanned
    <3>2. iter[t] \in DOMAIN blocks /\ last_used \in DOMAIN blocks /\ blocks \in Seq(Block)
      BY <1>4, <3>1 DEF ScanMovesOn, IInv, TypeOK, ControlInv, CursorInv
    <3>3. /\ pc'[t] = "scan" /\ iter'[t] = NextIter(iter[t]) /\ arg'[t] = arg[t]
          /\ UNCHANGED <<blocks, last_used>>
          /\ ~CanAlloc(blocks[iter[t]], BlockNo(arg[t].size))
          /\ NextIter(iter[t]) # last_used
      BY <1>0, <1>4, <3>1 DEF ScanMovesOn
    <3>4. \A i \in DOMAIN blocks :
            Behind(i, last_used, NextIter(iter[t])) => Behind(i, last_used, iter[t]) \/ i = iter[t]
      BY <3>2, <3>3, BehindProperties
    <3>5. ASSUME NEW i \in DOMAIN blocks, Behind(i, last_used, NextIter(iter[t]))
          PROVE  ~CanAlloc(blocks[i], BlockNo(arg[t].size))
      BY <1>0, <3>1, <3>3, <3>4, <3>5 DEF Scanned
    <3>6. QED
      BY <2>1, <3>3, <3>5 DEF Scanned, Behind, CanAlloc, MaskStop, IsClear
  <2>2. CASE u # t
    BY <1>0, <1>4, <2>2, ScanUnchanged DEF ScanMovesOn
  <2>3. QED
    BY <2>1, <2>2
<1>5. ASSUME NEW t \in Threads, NEW u \in Threads, ScanFails(t) PROVE Scanned(u)'
  <2>1. CASE u = t
    <3>1. /\ pc'[t] = "core" /\ arg'[t] = arg[t] /\ UNCHANGED <<blocks, last_used>>
      BY <1>0, <1>5 DEF ScanFails
    <3>2. ASSUME NEW i \in DOMAIN blocks PROVE ~CanAlloc(blocks[i], BlockNo(arg[t].size))
      <4>1. blocks \in Seq(Block) /\ blocks # <<>>
        BY <1>0 DEF TypeOK
      <4>2. /\ iter[t] \in DOMAIN blocks /\ last_used \in DOMAIN blocks
            /\ ~CanAlloc(blocks[iter[t]], BlockNo(arg[t].size))
            /\ NextIter(iter[t]) = last_used
        BY <1>5, <4>1 DEF ScanFails, ScanExhausted, IInv, ControlInv, CursorInv
      <4>3. Behind(i, last_used, iter[t]) \/ i = iter[t]
        BY <4>1, <4>2, BehindProperties
      <4>4. QED
        BY <1>0, <1>5, <4>2, <4>3 DEF ScanFails, Scanned
    <3>3. QED
      BY <2>1, <3>1, <3>2 DEF Scanned, CanAlloc, MaskStop, IsClear
  <2>2. CASE u # t
    BY <1>0, <1>5, <2>2, ScanUnchanged DEF ScanFails
  <2>3. QED
    BY <2>1, <2>2
<1>6. ASSUME NEW t \in Threads, NEW u \in Threads, pc[t] \in Critical,
             \E how \in Ready : Leave(t, how)
      PROVE  Scanned(u)'
  <2>1. pc'[u] \notin {"scan", "core", "rescan"}
    BY <1>0, <1>6, OtherNotScanning DEF Leave, Ready, Critical
  <2>2. QED
    BY <2>1 DEF Scanned
<1>7. ASSUME NEW t \in Threads, NEW u \in Threads,
             \/ Mark(t) \/ SystemRefuses(t) \/ FreeLarge(t) \/ FreePooled(t) \/ WrongAllocator(t)
             \/ \E p \in Places : AllocateLarge(t, p)
      PROVE  Scanned(u)'
  <2>1. pc[t] \in Critical /\ \E how \in Ready : Leave(t, how)
    BY <1>7 DEF Mark, SystemRefuses, FreeLarge, FreePooled, WrongAllocator, AllocateLarge,
                Critical, Ready
  <2>2. QED
    BY <1>6, <2>1
<1>8. ASSUME NEW t \in Threads, NEW u \in Threads, NEW p \in Places, GetMoreCore(t, p)
      PROVE  Scanned(u)'
  <2>1. CASE u = t
    <3>1. /\ pc'[t] = "rescan" /\ iter'[t] = last_used' /\ arg'[t] = arg[t]
          /\ blocks' = SortedIn(blocks, p) /\ last_used' = LowerBound(blocks', p)
          /\ pc[t] = "core"
      BY <1>0, <1>8 DEF GetMoreCore
    <3>2. p \in Nat /\ blocks \in Seq(Block)
      BY <1>0, SizesAssumption DEF TypeOK
    <3>3. blocks'[iter'[t]] = NewBlock(p, 1) /\ blocks' # <<>>
      BY <3>1, <3>2, CoreAtNewChunk, CoreCursor
    <3>4. NewBlock(p, 1) \in Block /\ NewBlock(p, 1).bitmap = {}
      BY <3>2, SizesAssumption DEF NewBlock, Block
    <3>5. CanAlloc(NewBlock(p, 1), BlockNo(arg[t].size))
      BY <3>1, <3>4, RequestUnits, EmptyBlockHasRoom
    <3>6. QED
      BY <2>1, <3>1, <3>3, <3>5 DEF Scanned, CanAlloc, MaskStop, IsClear
  <2>2. CASE u # t
    <3>1. pc'[u] \notin {"scan", "core", "rescan"}
      BY <1>0, <1>8, <2>2, OtherNotScanning DEF GetMoreCore, Critical
    <3>2. QED
      BY <3>1 DEF Scanned
  <2>3. QED
    BY <2>1, <2>2
<1>9. ASSUME NEW u \in Threads, Destroy PROVE Scanned(u)'
  BY <1>0, <1>9 DEF Destroy, Scanned, Ready
<1>10. ASSUME NEW u \in Threads, (\E r \in held : Write(r)) \/ UNCHANGED vars PROVE Scanned(u)'
  BY <1>0, <1>10, ScanUnchanged DEF Write, vars
<1>11. \A u \in Threads : Scanned(u)'
  BY <1>1, <1>2, <1>3, <1>4, <1>5, <1>7, <1>8, <1>9, <1>10 DEF Next, Step
<1>12. QED
  BY <1>11, Zenon DEF ScanInv, Scanned

-----------------------------------------------------------------------------
(* The bits that are set.                                                  *)

(* A unit lies in one block, at one offset.                                *)
LEMMA BlocksApart ==
  ASSUME IInv, NEW i \in DOMAIN blocks, NEW j \in DOMAIN blocks,
         NEW a \in 0 .. BITMAP_SIZE - 1, NEW c \in 0 .. BITMAP_SIZE - 1,
         blocks[i].buffer + a = blocks[j].buffer + c
  PROVE  i = j /\ a = c
<1>1. /\ blocks[i].buffer \in Nat /\ blocks[j].buffer \in Nat /\ BITMAP_SIZE \in Nat
      /\ i \in Nat /\ j \in Nat
  BY BlockType DEF IInv
<1>2. CASE i = j
  BY <1>1, <1>2
<1>3. CASE i < j
  <2>1. BufferEnd(blocks[i]) <= blocks[j].buffer
    BY <1>3 DEF IInv, MemoryInv, SortedInv
  <2>2. QED
    BY <1>1, <2>1 DEF BufferEnd
<1>4. CASE j < i
  <2>1. BufferEnd(blocks[j]) <= blocks[i].buffer
    BY <1>4 DEF IInv, MemoryInv, SortedInv
  <2>2. QED
    BY <1>1, <2>1 DEF BufferEnd
<1>5. QED
  BY <1>1, <1>2, <1>3, <1>4

(* Bits are units of the chunks.                                           *)
LEMMA UsedInChunks ==
  ASSUME IInv
  PROVE  UsedUnits \subseteq ChunkUnits
<1>1. SUFFICES ASSUME NEW i \in DOMAIN blocks, NEW a \in blocks[i].bitmap
               PROVE  blocks[i].buffer + a \in ChunkUnits
  BY DEF UsedUnits
<1>2. blocks[i].buffer \in Nat /\ a \in 0 .. BITMAP_SIZE - 1 /\ BITMAP_SIZE \in Nat
  <2>1. blocks[i] \in Block /\ blocks[i].buffer \in Nat /\ BITMAP_SIZE \in Nat
    BY BlockType DEF IInv
  <2>2. QED
    BY <2>1 DEF Block
<1>3. blocks[i].buffer + a \in Span(blocks[i].buffer, BITMAP_SIZE)
  BY <1>2 DEF Span
<1>4. QED
  BY <1>3 DEF IInv, MemoryInv, ChunkInv

(* The run that a step marks: free before, used after.                     *)
LEMMA MarkUsed ==
  ASSUME IInv, NEW t \in Threads, Mark(t)
  PROVE  \E r \in Region :
           /\ r.size = arg[t].size /\ r.ptr \in ChunkUnits
           /\ held' = held \cup {r} /\ Extent(r) \subseteq ChunkUnits
           /\ Extent(r) \cap UsedUnits = {} /\ UsedUnits' = UsedUnits \cup Extent(r)
<1> DEFINE i == iter[t]
           n == BlockNo(arg[t].size)
           off == MaskStop(blocks[i], n)
           b == blocks[i]
           r == [ptr |-> b.buffer + off, size |-> arg[t].size]
<1>1. i \in DOMAIN blocks /\ n \in 1 .. BITMAP_SIZE /\ IsClear(b, off, n)
  BY DEF Mark, IInv, ControlInv, CursorInv, CanAlloc
<1>2. b \in Block /\ b.buffer \in Nat /\ b.bitmap \subseteq Nat /\ BITMAP_SIZE \in Nat
  BY <1>1, BlockType DEF IInv
<1>3. off \in 0 .. BITMAP_SIZE - n
  BY <1>1, <1>2, MaskStopType, Zenon
<1>4. r \in Region
  BY <1>2, <1>3 DEF IInv, TypeOK, Region
<1>5. blocks' = [blocks EXCEPT ![i] = BlockAlloc(b, n)] /\ held' = held \cup {r}
  BY DEF Mark
<1>6. /\ DOMAIN blocks' = DOMAIN blocks
      /\ \A j \in DOMAIN blocks : blocks'[j].buffer = blocks[j].buffer
      /\ \A j \in DOMAIN blocks : j # i => blocks'[j].bitmap = blocks[j].bitmap
      /\ blocks'[i].bitmap = b.bitmap \cup Span(off, n)
  BY <1>1, <1>2, <1>5 DEF BlockAlloc, off, Block, IInv, TypeOK
<1>7. Extent(r) = Span(b.buffer + off, n) /\ r.size = arg[t].size
  BY DEF Extent, n
<1>8. Span(b.buffer, BITMAP_SIZE) \subseteq ChunkUnits
  BY <1>1 DEF IInv, MemoryInv, ChunkInv
<1> HIDE DEF i, n, off, b, r
<1>9. Extent(r) = {b.buffer + a : a \in Span(off, n)}
  <2>1. ASSUME NEW x \in Extent(r) PROVE x \in {b.buffer + a : a \in Span(off, n)}
    <3>1. x - b.buffer \in Span(off, n) /\ x = b.buffer + (x - b.buffer)
      BY <1>1, <1>2, <1>3, <1>7, <2>1 DEF Span
    <3>2. QED
      BY <3>1
  <2>2. ASSUME NEW a \in Span(off, n) PROVE b.buffer + a \in Extent(r)
    BY <1>1, <1>2, <1>3, <1>7, <2>2 DEF Span
  <2>3. QED
    BY <2>1, <2>2
<1>10. Extent(r) \subseteq ChunkUnits /\ r.ptr \in ChunkUnits
  <2>1. Extent(r) \subseteq Span(b.buffer, BITMAP_SIZE)
    BY <1>1, <1>2, <1>3, <1>7 DEF Span
  <2>2. r.ptr \in Extent(r)
    BY <1>1, <1>2, <1>3, <1>7 DEF r, Span
  <2>3. QED
    BY <1>8, <2>1, <2>2
<1>11. Extent(r) \cap UsedUnits = {}
  <2>1. SUFFICES ASSUME NEW a \in Span(off, n), NEW j \in DOMAIN blocks, NEW c \in blocks[j].bitmap,
                        b.buffer + a = blocks[j].buffer + c
                 PROVE  FALSE
    BY <1>9 DEF UsedUnits
  <2>2. a \in 0 .. BITMAP_SIZE - 1 /\ c \in 0 .. BITMAP_SIZE - 1
    <3>1. blocks[j] \in Block
      BY BlockType DEF IInv
    <3>2. QED
      BY <1>1, <1>2, <1>3, <3>1 DEF Span, Block
  <2>3. i = j /\ a = c
    BY <1>1, <2>1, <2>2, BlocksApart DEF b
  <2>4. QED
    BY <1>1, <2>3 DEF IsClear, b
<1>12. UsedUnits' = UsedUnits \cup Extent(r)
  <2>1. \A j \in DOMAIN blocks :
          {blocks'[j].buffer + a : a \in blocks'[j].bitmap} =
            {blocks[j].buffer + a : a \in blocks[j].bitmap} \cup (IF j = i THEN Extent(r) ELSE {})
    BY <1>1, <1>6, <1>9 DEF b
  <2>2. QED
    BY <1>1, <1>6, <2>1 DEF UsedUnits
<1>13. QED
  BY <1>4, <1>5, <1>7, <1>10, <1>11, <1>12

(* The bits of a region that is taken back are cleared, and no others.     *)
LEMMA FreeUsed ==
  ASSUME IInv, NEW t \in Threads, FreePooled(t)
  PROVE  UsedUnits' = UsedUnits \ Extent(arg[t])
<1> DEFINE o == Owner(arg[t])
           b == blocks[o]
           n == BlockNo(arg[t].size)
           p == arg[t].ptr
<1>1. o \in DOMAIN blocks /\ Contains(b, p, n)
  <2>1. Owned(arg[t])
    BY DEF FreePooled
  <2>2. o \in DOMAIN blocks
    BY <2>1, OwnerInDomain, Zenon DEF IInv
  <2>3. QED
    BY <2>1, <2>2 DEF Owned
<1>2. b \in Block /\ b.buffer \in Nat /\ BITMAP_SIZE \in Nat
  BY <1>1, BlockType DEF IInv
<1>3. p \in Nat /\ n \in Nat \ {0}
  BY BlockNoProperties DEF IInv, TypeOK, FreePooled
<1>4. blocks' = [blocks EXCEPT ![o] = BlockFree(b, p, n)]
  BY DEF FreePooled
<1>5. /\ DOMAIN blocks' = DOMAIN blocks
      /\ \A j \in DOMAIN blocks : blocks'[j].buffer = blocks[j].buffer
      /\ \A j \in DOMAIN blocks : j # o => blocks'[j].bitmap = blocks[j].bitmap
      /\ blocks'[o].bitmap = b.bitmap \ Span(p - b.buffer, n)
  <2>1. /\ BlockFree(b, p, n).buffer = b.buffer
        /\ BlockFree(b, p, n).bitmap = b.bitmap \ Span(p - b.buffer, n)
    BY <1>2 DEF BlockFree, Block
  <2>2. QED
    BY <1>1, <1>4, <2>1 DEF IInv, TypeOK
<1>6. Extent(arg[t]) = Span(p, n)
  BY DEF Extent
<1>7. p - b.buffer \in Nat /\ (p - b.buffer) + n <= BITMAP_SIZE
  BY <1>1, <1>2, <1>3 DEF Contains, BufferEnd
<1> HIDE DEF o, b, n, p
<1>8. Extent(arg[t]) = {b.buffer + a : a \in Span(p - b.buffer, n)}
  <2>1. ASSUME NEW x \in Span(p, n) PROVE x \in {b.buffer + a : a \in Span(p - b.buffer, n)}
    <3>1. x - b.buffer \in Span(p - b.buffer, n) /\ x = b.buffer + (x - b.buffer)
      BY <1>2, <1>3, <1>7, <2>1 DEF Span
    <3>2. QED
      BY <3>1
  <2>2. ASSUME NEW a \in Span(p - b.buffer, n) PROVE b.buffer + a \in Span(p, n)
    BY <1>2, <1>3, <1>7, <2>2 DEF Span
  <2>3. QED
    BY <1>6, <2>1, <2>2
<1>9. ASSUME NEW j \in DOMAIN blocks, NEW c \in blocks[j].bitmap
      PROVE  blocks[j].buffer + c \in Extent(arg[t]) <=> j = o /\ c \in Span(p - b.buffer, n)
  <2>1. c \in 0 .. BITMAP_SIZE - 1
    BY BlockType DEF IInv, Block
  <2>2. ASSUME NEW a \in Span(p - b.buffer, n), blocks[j].buffer + c = b.buffer + a
        PROVE  j = o /\ c = a
    <3>1. a \in 0 .. BITMAP_SIZE - 1
      BY <1>2, <1>3, <1>7 DEF Span
    <3>2. QED
      BY <1>1, <2>1, <2>2, <3>1, BlocksApart DEF b
  <2>3. QED
    BY <1>8, <2>2 DEF b
<1>10. ASSUME NEW x
       PROVE  x \in UsedUnits' <=> x \in UsedUnits /\ x \notin Extent(arg[t])
  <2>1. x \in UsedUnits' <=>
          \E j \in DOMAIN blocks : \E c \in blocks'[j].bitmap : x = blocks[j].buffer + c
    BY <1>5 DEF UsedUnits
  <2>2. \A j \in DOMAIN blocks : \A c :
          c \in blocks'[j].bitmap <=>
            c \in blocks[j].bitmap /\ ~(j = o /\ c \in Span(p - b.buffer, n))
    BY <1>1, <1>5 DEF b
  <2>3. x \in UsedUnits' <=>
          \E j \in DOMAIN blocks : \E c \in blocks[j].bitmap :
            x = blocks[j].buffer + c /\ x \notin Extent(arg[t])
    BY <1>9, <2>1, <2>2
  <2>4. QED
    BY <2>3 DEF UsedUnits
<1>11. QED
  BY <1>10

(* A new chunk's bits are clear.                                           *)
LEMMA CoreUsed ==
  ASSUME IInv, NEW t \in Threads, NEW p \in Places, GetMoreCore(t, p)
  PROVE  /\ UsedUnits' = UsedUnits
         /\ ChunkUnits' = ChunkUnits \cup Span(p, InBlocks * BITMAP_SIZE)
<1> DEFINE k == LowerBound(blocks, p)
           K == InBlocks
           N == Len(blocks)
<1>1. /\ blocks \in Seq(Block) /\ p \in Nat /\ N \in Nat /\ DOMAIN blocks = 1 .. N
      /\ K \in Nat \ {0} /\ k \in 1 .. N + 1
  <2>1. blocks \in Seq(Block) /\ p \in Nat
    BY SizesAssumption DEF IInv, TypeOK
  <2>2. k \in 1 .. N + 1
    BY <2>1, LowerBoundProperties, Zenon
  <2>3. QED
    BY <2>1, <2>2, InBlocksType
<1>2. blocks' = SortedIn(blocks, p)
      /\ allocated' = Append(allocated, [ptr |-> p, len |-> InBlocks * BITMAP_SIZE])
  BY DEF GetMoreCore
<1>3. blocks' = [i \in 1 .. N + K |->
         IF i < k THEN blocks[i]
         ELSE IF i < k + K THEN NewBlock(p, i - k + 1)
         ELSE blocks[i - K]]
  BY <1>2 DEF SortedIn
<1> HIDE DEF k, K, N
<1>4. \A i \in DOMAIN blocks : \E j \in DOMAIN blocks' : blocks'[j] = blocks[i]
  <2>1. SUFFICES ASSUME NEW i \in DOMAIN blocks
                 PROVE  \E j \in DOMAIN blocks' : blocks'[j] = blocks[i]
    OBVIOUS
  <2>2. CASE i < k
    BY <1>1, <1>3, <2>2
  <2>3. CASE k <= i
    <3>1. /\ i + K \in 1 .. N + K /\ (i + K) - K = i
          /\ ~(i + K < k) /\ ~(i + K < k + K)
      BY <1>1, <2>3
    <3>2. i + K \in DOMAIN blocks' /\ blocks'[i + K] = blocks[(i + K) - K]
      BY <1>3, <3>1
    <3>3. QED
      BY <3>1, <3>2
  <2>4. QED
    BY <1>1, <2>2, <2>3
<1>5. ASSUME NEW j \in DOMAIN blocks'
      PROVE  blocks'[j].bitmap = {} \/ \E i \in DOMAIN blocks : blocks'[j] = blocks[i]
  <2>1. CASE j < k
    BY <1>1, <1>3, <2>1
  <2>2. CASE k <= j /\ j < k + K
    BY <1>1, <1>3, <2>2 DEF NewBlock
  <2>3. CASE k + K <= j
    <3>1. j - K \in DOMAIN blocks /\ blocks'[j] = blocks[j - K]
      BY <1>1, <1>3, <2>3
    <3>2. QED
      BY <3>1
  <2>4. QED
    BY <1>1, <1>3, <2>1, <2>2, <2>3
<1>6. UsedUnits' = UsedUnits
  BY <1>4, <1>5 DEF UsedUnits
<1>7. ChunkUnits' = ChunkUnits \cup Span(p, InBlocks * BITMAP_SIZE)
  <2> DEFINE c == [ptr |-> p, len |-> InBlocks * BITMAP_SIZE]
  <2>1. allocated \in Seq([ptr : Nat, len : Nat]) /\ Len(allocated) \in Nat
    BY DEF IInv, TypeOK
  <2>2. /\ DOMAIN allocated = 1 .. Len(allocated)
        /\ DOMAIN allocated' = 1 .. Len(allocated) + 1
        /\ \A i \in 1 .. Len(allocated) : allocated'[i] = allocated[i]
        /\ allocated'[Len(allocated) + 1] = c
    BY <1>2, <2>1
  <2>3. Len(allocated) + 1 \in DOMAIN allocated'
    BY <2>1, <2>2
  <2>4. \A i \in DOMAIN allocated' : i \in DOMAIN allocated \/ i = Len(allocated) + 1
    BY <2>1, <2>2
  <2>5. \A i \in DOMAIN allocated : i \in DOMAIN allocated'
    BY <2>1, <2>2
  <2>6. c.ptr = p /\ c.len = InBlocks * BITMAP_SIZE
    OBVIOUS
  <2> HIDE DEF c
  <2>7. QED
    BY <2>2, <2>3, <2>4, <2>5, <2>6 DEF ChunkUnits
<1>8. QED
  BY <1>6, <1>7

-----------------------------------------------------------------------------
(* What a step does to the memory, as its clients see it.                  *)

(* What clients ask for stays as they gave it; chunks lie where the system *)
(* may place them.                                                         *)
LEMMA ClientNext == ASSUME IInv, ClientInv, [Next]_vars PROVE ClientInv'
<1> DEFINE Asking == {"allocate", "scan", "rescan", "mark", "core", "large"}
           Good(t) == /\ pc[t] \in Asking => arg[t].size \in Sizes
                      /\ IsForeign(t) => IsPooled(arg[t].size)
<1>0. DOMAIN pc = Threads /\ DOMAIN arg = Threads /\ \A t \in Threads : Good(t)
  BY DEF IInv, TypeOK, ClientInv
<1>1. ASSUME NEW t \in Threads, NEW u \in Threads,
             \/ LockAllocate(t) \/ LockDeallocate(t) \/ ScanFinds(t) \/ ScanMovesOn(t)
             \/ ScanFails(t) \/ \E p \in Places : GetMoreCore(t, p)
      PROVE  Good(u)'
  <2>1. /\ arg' = arg /\ \A v \in Threads \ {t} : pc'[v] = pc[v]
        /\ pc[t] \in Asking \/ pc'[t] \notin Asking
        /\ pc'[t] = "free" => pc[t] = "deallocate"
        /\ pc'[t] # "deallocate"
    BY <1>0, <1>1 DEF LockAllocate, LockDeallocate, ScanFinds, ScanMovesOn, ScanFails, GetMoreCore
  <2>2. QED
    BY <1>0, <2>1 DEF IsForeign, IsPooled, MaxPooled
<1>2. ASSUME NEW t \in Threads, NEW u \in Threads, NEW how \in Ready, Leave(t, how)
      PROVE  Good(u)'
  BY <1>0, <1>2 DEF Leave, IsForeign, Ready, IsPooled, MaxPooled
<1>3. ASSUME NEW t \in Threads, NEW u \in Threads,
             \/ Mark(t) \/ SystemRefuses(t) \/ FreeLarge(t) \/ FreePooled(t) \/ WrongAllocator(t)
             \/ \E p \in Places : AllocateLarge(t, p)
      PROVE  Good(u)'
  <2>1. \E how \in Ready : Leave(t, how)
    BY <1>3 DEF Mark, SystemRefuses, FreeLarge, FreePooled, WrongAllocator, AllocateLarge, Ready
  <2>2. QED
    BY <1>2, <2>1
<1>4. ASSUME NEW t \in Threads, NEW u \in Threads, NEW n \in Sizes, Allocate(t, n)
      PROVE  Good(u)'
  <2>1. pc'[t] = "allocate" /\ arg'[t].size = n
    BY <1>0, <1>4 DEF Allocate, NoArg
  <2>2. QED
    BY <1>0, <1>4, <2>1 DEF Allocate, IsForeign, IsPooled, MaxPooled
<1>5. ASSUME NEW t \in Threads, NEW u \in Threads,
             \/ \E r \in held : Deallocate(t, r)
             \/ \E p \in Places, n \in Sizes : DeallocateForeign(t, p, n)
      PROVE  Good(u)'
  BY <1>0, <1>5 DEF Deallocate, DeallocateForeign, IsForeign, IsPooled, MaxPooled
<1>6. ASSUME NEW u \in Threads, Destroy \/ (\E r \in held : Write(r)) \/ UNCHANGED vars
      PROVE  Good(u)'
  BY <1>0, <1>6 DEF Destroy, Write, vars, IsForeign, IsPooled, MaxPooled
<1>7. ChunkUnits' \subseteq Addresses
  <2>1. CASE UNCHANGED allocated
    BY <2>1 DEF ClientInv, ChunkUnits
  <2>2. ASSUME NEW t \in Threads, NEW p \in Places, GetMoreCore(t, p)
        PROVE  ChunkUnits' \subseteq Addresses
    BY <2>2, CoreUsed DEF ClientInv, Addresses
  <2>3. CASE Destroy
    BY <2>3 DEF Destroy, ChunkUnits
  <2>4. ASSUME NEW t \in Threads,
               \/ LockAllocate(t) \/ LockDeallocate(t) \/ ScanFinds(t) \/ ScanMovesOn(t)
               \/ ScanFails(t) \/ Mark(t) \/ SystemRefuses(t) \/ FreeLarge(t) \/ FreePooled(t)
               \/ WrongAllocator(t) \/ \E p \in Places : AllocateLarge(t, p)
               \/ \E n \in Sizes : Allocate(t, n)
               \/ \E r \in held : Deallocate(t, r)
               \/ \E p \in Places, n \in Sizes : DeallocateForeign(t, p, n)
        PROVE  UNCHANGED allocated
    BY <2>4 DEF LockAllocate, LockDeallocate, ScanFinds, ScanMovesOn, ScanFails, Mark,
                SystemRefuses, FreeLarge, FreePooled, WrongAllocator, AllocateLarge, Allocate,
                Deallocate, DeallocateForeign
  <2>5. (\E r \in held : Write(r)) \/ UNCHANGED vars => UNCHANGED allocated
    BY DEF Write, vars
  <2>6. QED
    BY <2>1, <2>2, <2>3, <2>4, <2>5 DEF Next, Step
<1>8. \A u \in Threads : Good(u)'
  BY <1>1, <1>3, <1>4, <1>5, <1>6 DEF Next, Step
<1>9. QED
  BY <1>7, <1>8, Zenon DEF ClientInv

(* A call hands a new region out, or takes one back; the tear-down takes   *)
(* all pooled ones; a client writes; or nothing of this changes.           *)
Bits(r) == IF IsPooled(r.size) THEN Extent(r) ELSE {}
Invisible == UsedUnits' = UsedUnits /\ Live' = Live /\ dirty' = dirty
HandsOut(r) ==
  /\ Extent(r) \in PoolRuns /\ Extent(r) \cap (UsedUnits \cup LargeUnits) = {}
  /\ Live' = Live \cup {r} /\ dirty' = dirty /\ UsedUnits' = UsedUnits \cup Bits(r)
TakesBack(r) ==
  /\ Live' = Live \ {r} /\ dirty' = dirty \ Extent(r) /\ UsedUnits' = UsedUnits \ Bits(r)
TakesAll ==
  /\ Live' = {r \in Live : ~IsPooled(r.size)} /\ dirty' = dirty \ ChunkUnits /\ UsedUnits' = {}
Writes(r) == Live' = Live /\ dirty' = dirty \cup Extent(r) /\ UsedUnits' = UsedUnits

(* The steps between calls, and those that only move a thread on.          *)
LEMMA InvisibleSteps ==
  ASSUME IInv, NEW t \in Threads,
         \/ LockAllocate(t) \/ LockDeallocate(t) \/ ScanFinds(t) \/ ScanMovesOn(t)
         \/ ScanFails(t) \/ SystemRefuses(t) \/ WrongAllocator(t)
         \/ \E p \in Places : GetMoreCore(t, p)
         \/ \E n \in Sizes : Allocate(t, n)
         \/ \E r \in held : Deallocate(t, r)
         \/ \E p \in Places, n \in Sizes : DeallocateForeign(t, p, n)
  PROVE  Invisible
<1>0. DOMAIN pc = Threads /\ DOMAIN arg = Threads /\ held \subseteq Region
  BY DEF IInv, TypeOK
<1>1. dirty' = dirty
  BY DEF LockAllocate, LockDeallocate, ScanFinds, ScanMovesOn, ScanFails, SystemRefuses,
         WrongAllocator, GetMoreCore, Allocate, Deallocate, DeallocateForeign
<1>2. UsedUnits' = UsedUnits
  <2>1. CASE UNCHANGED blocks
    BY <2>1 DEF UsedUnits
  <2>2. CASE \E p \in Places : GetMoreCore(t, p)
    BY <2>2, CoreUsed
  <2>3. QED
    BY <2>1, <2>2 DEF LockAllocate, LockDeallocate, ScanFinds, ScanMovesOn, ScanFails,
       SystemRefuses, WrongAllocator, Allocate, Deallocate, DeallocateForeign
<1>3. Live' = Live
  <2>1. ASSUME NEW r \in held, Deallocate(t, r) PROVE Live' = Live
    <3>1. r \in Region /\ AsRegion(arg'[t]) = r /\ held' = held \ {r}
      BY <1>0, <2>1 DEF Deallocate, Region, AsRegion
    <3>2. /\ ~IsReleasing(t) /\ IsReleasing(t)'
          /\ \A u \in Threads \ {t} : (IsReleasing(u)' <=> IsReleasing(u)) /\ arg'[u] = arg[u]
      BY <1>0, <2>1 DEF Deallocate, IsReleasing, Ready
    <3>3. Live' \subseteq Live /\ Live \subseteq Live'
      BY <2>1, <3>1, <3>2 DEF Live
    <3>4. QED
      BY <3>3
  <2>2. ASSUME ~(\E r \in held : Deallocate(t, r)) PROVE Live' = Live
    <3>1. held' = held
      BY <2>2 DEF LockAllocate, LockDeallocate, ScanFinds, ScanMovesOn, ScanFails,
         SystemRefuses, WrongAllocator, GetMoreCore, Allocate, DeallocateForeign
    <3>2. \A u \in Threads : /\ IsReleasing(u)' <=> IsReleasing(u)
                             /\ IsReleasing(u) => arg'[u] = arg[u]
      <4>1. CASE WrongAllocator(t)
        <5>1. ~IsReleasing(t)
          BY <4>1, OwnRegionIsOwned DEF WrongAllocator
        <5>2. QED
          BY <1>0, <4>1, <5>1 DEF WrongAllocator, Leave, IsReleasing
      <4>2. CASE LockDeallocate(t)
        BY <1>0, <4>2 DEF LockDeallocate, IsReleasing
      <4>3. CASE \E p \in Places, n \in Sizes : DeallocateForeign(t, p, n)
        BY <1>0, <4>3 DEF DeallocateForeign, IsReleasing, Ready
      <4>4. CASE \/ LockAllocate(t) \/ ScanFinds(t) \/ ScanMovesOn(t) \/ ScanFails(t)
                 \/ SystemRefuses(t) \/ \E p \in Places : GetMoreCore(t, p)
                 \/ \E n \in Sizes : Allocate(t, n)
        <5>1. /\ pc[t] \notin {"deallocate", "free"} /\ pc'[t] \notin {"deallocate", "free"}
              /\ \A u \in Threads \ {t} : pc'[u] = pc[u] /\ arg'[u] = arg[u]
          BY <1>0, <4>4 DEF LockAllocate, ScanFinds, ScanMovesOn, ScanFails, SystemRefuses,
             GetMoreCore, Allocate, Leave, Ready
        <5>2. QED
          BY <5>1 DEF IsReleasing
      <4>5. QED
        BY <2>2, <4>1, <4>2, <4>3, <4>4
    <3>3. QED
      BY <3>1, <3>2 DEF Live
  <2>3. QED
    BY <2>1, <2>2
<1>4. QED
  BY <1>1, <1>2, <1>3 DEF Invisible

(* The other steps.                                                        *)
LEMMA StepEffects ==
  ASSUME IInv, ClientInv, [Next]_vars
  PROVE  \/ Invisible \/ TakesAll
         \/ \E r \in Region : HandsOut(r)
         \/ \E r \in Live : TakesBack(r) \/ Writes(r)
<1>0. DOMAIN pc = Threads /\ DOMAIN arg = Threads /\ TypeOK
  BY DEF IInv, TypeOK
<1>1. ASSUME NEW t \in Threads, NEW how \in Ready, Leave(t, how), ~IsReleasing(t)
      PROVE  \A u \in Threads : (IsReleasing(u)' <=> IsReleasing(u)) /\ (IsReleasing(u) => arg'[u] = arg[u])
  BY <1>0, <1>1 DEF Leave, IsReleasing, Ready
<1>2. ASSUME NEW t \in Threads, Mark(t) PROVE \E r \in Region : HandsOut(r)
  <2>1. PICK r \in Region :
          /\ r.size = arg[t].size /\ r.ptr \in ChunkUnits
          /\ held' = held \cup {r} /\ Extent(r) \subseteq ChunkUnits
          /\ Extent(r) \cap UsedUnits = {} /\ UsedUnits' = UsedUnits \cup Extent(r)
    BY <1>2, MarkUsed
  <2>2. IsPooled(r.size) /\ r.size \in Sizes /\ r.ptr \in Addresses
    BY <1>2, <2>1 DEF Mark, IInv, ControlInv, RequestInv, ClientInv
  <2>3. Extent(r) \in PoolRuns
    BY <2>2 DEF PoolRuns, Extent
  <2>4. Extent(r) \cap LargeUnits = {}
    BY <2>1 DEF LargeUnits, IInv, MemoryInv, LargeInv
  <2>5. Live' = Live \cup {r} /\ dirty' = dirty
    <3>1. ~IsReleasing(t) /\ Leave(t, "idle") /\ "idle" \in Ready /\ dirty' = dirty
      BY <1>2 DEF Mark, IsReleasing, Ready
    <3>2. \A u \in Threads : (IsReleasing(u)' <=> IsReleasing(u)) /\ (IsReleasing(u) => arg'[u] = arg[u])
      BY <1>1, <3>1
    <3>3. QED
      BY <2>1, <3>1, <3>2 DEF Live
  <2>6. QED
    BY <2>1, <2>2, <2>3, <2>4, <2>5 DEF HandsOut, Bits
<1>3. ASSUME NEW t \in Threads, NEW p \in Places, AllocateLarge(t, p)
      PROVE  \E r \in Region : HandsOut(r)
  <2>1. PICK r : r = [ptr |-> p, size |-> arg[t].size]
    OBVIOUS
  <2>2. r \in Region /\ r.ptr = p /\ r.size = arg[t].size
    BY <1>0, <2>1, SizesAssumption DEF TypeOK, Region
  <2>3. ~IsPooled(r.size) /\ r.size \in Sizes
    BY <1>3, <2>2 DEF AllocateLarge, IInv, ControlInv, RequestInv, ClientInv
  <2>4. p \in Addresses
    <3>1. InBlocks * BITMAP_SIZE \in Nat \ {0} /\ p \in Nat
      <4>1. InBlocks \in Nat \ {0} /\ BITMAP_SIZE \in Nat \ {0}
        BY InBlocksType, SizesAssumption
      <4>2. QED
        BY <4>1, SizesAssumption, Z3
    <3>2. p \in Span(p, InBlocks * BITMAP_SIZE)
      BY <3>1 DEF Span
    <3>3. QED
      BY <3>2 DEF Addresses
  <2>5. Extent(r) \in PoolRuns
    BY <2>2, <2>3, <2>4 DEF PoolRuns, Extent
  <2>6. Extent(r) \cap (UsedUnits \cup LargeUnits) = {}
    <3>1. Extent(r) \cap (ChunkUnits \cup LargeUnits) = {}
      BY <1>3, <2>2 DEF AllocateLarge, SystemHasRoom, Extent
    <3>2. QED
      BY <3>1, UsedInChunks
  <2>7. Live' = Live \cup {r} /\ dirty' = dirty
    <3>1. ~IsReleasing(t) /\ Leave(t, "idle") /\ "idle" \in Ready /\ dirty' = dirty
          /\ held' = held \cup {r}
      BY <1>3, <2>1 DEF AllocateLarge, IsReleasing, Ready
    <3>2. \A u \in Threads : (IsReleasing(u)' <=> IsReleasing(u)) /\ (IsReleasing(u) => arg'[u] = arg[u])
      BY <1>1, <3>1
    <3>3. QED
      BY <3>1, <3>2 DEF Live
  <2>8. UsedUnits' = UsedUnits \cup Bits(r)
    BY <1>3, <2>3 DEF AllocateLarge, Bits, UsedUnits
  <2>9. QED
    BY <2>2, <2>5, <2>6, <2>7, <2>8 DEF HandsOut
<1>4. ASSUME NEW t \in Threads, FreeLarge(t) \/ FreePooled(t)
      PROVE  \E r \in Live : TakesBack(r)
  <2>1. IsReleasing(t)
    <3>1. CASE FreePooled(t)
      BY <3>1, OwnedIsReleasing DEF FreePooled
    <3>2. CASE FreeLarge(t)
      BY <3>2 DEF FreeLarge, IsReleasing, IsForeign, ClientInv
    <3>3. QED
      BY <1>4, <3>1, <3>2
  <2>2. PICK r : r = AsRegion(arg[t])
    OBVIOUS
  <2>3. r \in Live /\ Extent(r) = Extent(arg[t]) /\ r.size = arg[t].size
    BY <2>1, <2>2 DEF Live, Extent, AsRegion
  <2>4. dirty' = dirty \ Extent(r) /\ held' = held /\ Leave(t, "idle")
    BY <1>4, <2>3 DEF FreeLarge, FreePooled
  <2>5. UsedUnits' = UsedUnits \ Bits(r)
    <3>1. CASE FreePooled(t)
      BY <2>3, <3>1, FreeUsed DEF FreePooled, Bits
    <3>2. CASE FreeLarge(t)
      BY <2>3, <3>2 DEF FreeLarge, Bits, UsedUnits
    <3>3. QED
      BY <1>4, <3>1, <3>2
  <2>6. Live' = Live \ {r}
    <3>1. /\ ~IsReleasing(t)'
          /\ \A u \in Threads \ {t} : (IsReleasing(u)' <=> IsReleasing(u)) /\ arg'[u] = arg[u]
      BY <1>0, <2>4 DEF Leave, IsReleasing
    <3>2. r \notin held /\ \A u \in Threads \ {t} : IsReleasing(u) => AsRegion(arg[u]) # r
      BY <2>1, <2>2 DEF IInv, MemoryInv, ReleaseInv
    <3>3. QED
      BY <2>1, <2>2, <2>4, <3>1, <3>2 DEF Live
  <2>7. QED
    BY <2>3, <2>4, <2>5, <2>6 DEF TakesBack
<1>5. CASE Destroy
  <2>1. /\ \A t \in Threads : ~IsReleasing(t) /\ ~IsReleasing(t)'
        /\ held' = {r \in held : ~IsPooled(r.size)} /\ blocks' = <<>>
        /\ dirty' = dirty \ ChunkUnits
    BY <1>5 DEF Destroy, IsReleasing, Ready
  <2>2. Live = held /\ Live' = held' /\ UsedUnits' = {}
    BY <2>1 DEF Live, UsedUnits
  <2>3. QED
    BY <2>1, <2>2 DEF TakesAll
<1>6. ASSUME NEW r \in held, Write(r) PROVE r \in Live /\ Writes(r)
  BY <1>6 DEF Write, Writes, Live, UsedUnits, IsReleasing
<1>7. CASE UNCHANGED vars
  BY <1>7 DEF vars, Invisible, Live, UsedUnits, IsReleasing
<1>8. QED
  BY <1>2, <1>3, <1>4, <1>5, <1>6, <1>7, InvisibleSteps DEF Next, Step

-----------------------------------------------------------------------------
(* What is used, what is live and what is zero.                            *)

RunsOf(L) == {Extent(r) : r \in L}
UnitsOf(L) == UNION RunsOf(L)
PooledOf(L) == {r \in L : IsPooled(r.size)}
LargeOf(L) == {r \in L : ~IsPooled(r.size)}

(* The properties in these terms.                                          *)
LEMMA LiveSeen ==
  /\ BitmapsMatchLive <=> UsedUnits = UnitsOf(PooledOf(Live))
  /\ FreeMemoryIsZero <=> dirty \subseteq UnitsOf(Live)
  /\ LargeUnits = UnitsOf(LargeOf(Live))
BY DEF BitmapsMatchLive, FreeMemoryIsZero, LargeUnits, UnitsOf, RunsOf, PooledOf, LargeOf

(* The same of the state after a step.                                     *)
LEMMA LiveSeenNext ==
  /\ BitmapsMatchLive' <=> UsedUnits' = UnitsOf(PooledOf(Live'))
  /\ FreeMemoryIsZero' <=> dirty' \subseteq UnitsOf(Live')
  /\ LargeUnits' = UnitsOf(LargeOf(Live'))
BY DEF BitmapsMatchLive, FreeMemoryIsZero, LargeUnits, UnitsOf, RunsOf, PooledOf, LargeOf,
       Extent, IsPooled, Span, BlockNo, RoundUp, MaxPooled

(* Units of sets of regions add up.                                        *)
LEMMA UnitsSplit ==
  ASSUME NEW L
  PROVE  /\ UnitsOf(L) = UnitsOf(PooledOf(L)) \cup UnitsOf(LargeOf(L))
         /\ UnitsOf(PooledOf(LargeOf(L))) = {}
         /\ \A r \in L : Extent(r) \subseteq UnitsOf(L)
BY DEF UnitsOf, RunsOf, PooledOf, LargeOf

(* One region more brings its own units.                                   *)
LEMMA UnitsAdd ==
  ASSUME NEW L, NEW r
  PROVE  /\ RunsOf(L \cup {r}) = RunsOf(L) \cup {Extent(r)}
         /\ UnitsOf(L \cup {r}) = UnitsOf(L) \cup Extent(r)
         /\ UnitsOf(PooledOf(L \cup {r})) = UnitsOf(PooledOf(L)) \cup Bits(r)
<1>1. RunsOf(L \cup {r}) = RunsOf(L) \cup {Extent(r)}
  BY DEF RunsOf
<1>2. UnitsOf(L \cup {r}) = UnitsOf(L) \cup Extent(r)
  BY <1>1 DEF UnitsOf
<1>3. UnitsOf(PooledOf(L \cup {r})) = UnitsOf(PooledOf(L)) \cup Bits(r)
  <2>1. CASE IsPooled(r.size)
    BY <2>1 DEF UnitsOf, RunsOf, PooledOf, Bits
  <2>2. CASE ~IsPooled(r.size)
    BY <2>2 DEF UnitsOf, RunsOf, PooledOf, Bits
  <2>3. QED
    BY <2>1, <2>2
<1>4. QED
  BY <1>1, <1>2, <1>3

(* Live regions are apart, none is empty, and the pooled ones alone are in *)
(* the chunks.                                                             *)
LEMMA LiveApart ==
  ASSUME IInv
  PROVE  /\ \A r \in Live : Extent(r) # {}
         /\ \A q, r \in Live : q # r => Extent(q) \cap Extent(r) = {} /\ Extent(q) # Extent(r)
         /\ \A r \in Live : IF IsPooled(r.size) THEN Extent(r) \subseteq ChunkUnits
                            ELSE Extent(r) \cap ChunkUnits = {}
<1>1. ASSUME NEW r \in Live PROVE Extent(r) # {}
  <2>1. r.ptr \in Nat /\ BlockNo(r.size) \in Nat \ {0}
    BY LiveType DEF IInv, Region
  <2>2. r.ptr \in Extent(r)
    BY <2>1 DEF Extent, Span
  <2>3. QED
    BY <2>2
<1>2. \A q, r \in Live : q # r => Extent(q) \cap Extent(r) = {}
  BY DEF IInv, MemoryInv, LiveRegionsDisjoint
<1>3. \A q, r \in Live : q # r => Extent(q) # Extent(r)
  BY <1>1, <1>2
<1>4. \A r \in Live : IF IsPooled(r.size) THEN Extent(r) \subseteq ChunkUnits
                      ELSE Extent(r) \cap ChunkUnits = {}
  BY PooledInChunks DEF IInv, MemoryInv, LargeInv
<1>5. QED
  BY <1>1, <1>2, <1>3, <1>4

(* Taking a region back leaves exactly the others' units.                  *)
LEMMA UnitsLeft ==
  ASSUME IInv, NEW r \in Live
  PROVE  /\ UnitsOf(Live \ {r}) = UnitsOf(Live) \ Extent(r)
         /\ UnitsOf(PooledOf(Live \ {r})) = UnitsOf(PooledOf(Live)) \ Bits(r)
         /\ RunsOf(Live \ {r}) = RunsOf(Live) \ {Extent(r)}
<1>1. \A q \in Live \ {r} : Extent(q) \cap Extent(r) = {} /\ Extent(q) # Extent(r)
  BY LiveApart
<1>2. RunsOf(Live \ {r}) = RunsOf(Live) \ {Extent(r)}
  BY <1>1 DEF RunsOf
<1>3. UnitsOf(Live \ {r}) = UnitsOf(Live) \ Extent(r)
  BY <1>1 DEF UnitsOf, RunsOf
<1>4. UnitsOf(PooledOf(Live \ {r})) = UnitsOf(PooledOf(Live)) \ Bits(r)
  <2>1. CASE IsPooled(r.size)
    BY <1>1, <2>1 DEF UnitsOf, RunsOf, PooledOf, Bits
  <2>2. CASE ~IsPooled(r.size)
    BY <2>2 DEF UnitsOf, RunsOf, PooledOf, Bits
  <2>3. QED
    BY <2>1, <2>2
<1>5. QED
  BY <1>2, <1>3, <1>4

(* Without the chunks what is left of a set of units is the large regions. *)
LEMMA ChunksLeft ==
  ASSUME IInv
  PROVE  UnitsOf(LargeOf(Live)) = UnitsOf(Live) \ ChunkUnits
BY LiveApart DEF UnitsOf, RunsOf, LargeOf

(* Every step keeps the bitmaps to the live pooled regions.                *)
LEMMA BitmapsNext ==
  ASSUME IInv, ClientInv, BitmapsMatchLive, [Next]_vars
  PROVE  BitmapsMatchLive'
<1> DEFINE Matched == UsedUnits' = UnitsOf(PooledOf(Live'))
<1>0. UsedUnits = UnitsOf(PooledOf(Live))
  BY LiveSeen
<1>1. ASSUME Invisible PROVE Matched
  BY <1>0, <1>1 DEF Invisible
<1>2. ASSUME NEW r \in Region, HandsOut(r) PROVE Matched
  <2>1. UnitsOf(PooledOf(Live \cup {r})) = UnitsOf(PooledOf(Live)) \cup Bits(r)
    BY UnitsAdd
  <2>2. QED
    BY <1>0, <1>2, <2>1 DEF HandsOut
<1>3. ASSUME NEW r \in Live, TakesBack(r) PROVE Matched
  BY <1>0, <1>3, UnitsLeft DEF TakesBack
<1>4. ASSUME TakesAll PROVE Matched
  <2>1. Live' = LargeOf(Live) /\ UsedUnits' = {}
    BY <1>4 DEF TakesAll, LargeOf
  <2>2. UnitsOf(PooledOf(LargeOf(Live))) = {}
    BY UnitsSplit
  <2>3. QED
    BY <2>1, <2>2
<1>5. ASSUME NEW r \in Live, Writes(r) PROVE Matched
  BY <1>0, <1>5 DEF Writes
<1>6. Matched
  BY <1>1, <1>2, <1>3, <1>4, <1>5, StepEffects
<1>7. QED
  BY <1>6, LiveSeenNext

(* Every step keeps the free memory zero.                                  *)
LEMMA ZeroNext ==
  ASSUME IInv, ClientInv, FreeMemoryIsZero, [Next]_vars
  PROVE  FreeMemoryIsZero'
<1> DEFINE Zero == dirty' \subseteq UnitsOf(Live')
<1>0. dirty \subseteq UnitsOf(Live)
  BY LiveSeen
<1>1. ASSUME Invisible PROVE Zero
  BY <1>0, <1>1 DEF Invisible
<1>2. ASSUME NEW r \in Region, HandsOut(r) PROVE Zero
  <2>1. Live' = Live \cup {r} /\ dirty' = dirty
    BY <1>2 DEF HandsOut
  <2>2. UnitsOf(Live \cup {r}) = UnitsOf(Live) \cup Extent(r)
    BY UnitsAdd
  <2>3. QED
    BY <1>0, <2>1, <2>2
<1>3. ASSUME NEW r \in Live, TakesBack(r) PROVE Zero
  <2>1. Live' = Live \ {r} /\ dirty' = dirty \ Extent(r)
    BY <1>3 DEF TakesBack
  <2>2. QED
    BY <1>0, <2>1, UnitsLeft
<1>4. ASSUME TakesAll PROVE Zero
  <2>1. Live' = LargeOf(Live) /\ dirty' = dirty \ ChunkUnits
    BY <1>4 DEF TakesAll, LargeOf
  <2>2. QED
    BY <1>0, <2>1, ChunksLeft
<1>5. ASSUME NEW r \in Live, Writes(r) PROVE Zero
  <2>1. Live' = Live /\ dirty' = dirty \cup Extent(r)
    BY <1>5 DEF Writes
  <2>2. QED
    BY <1>0, <2>1, UnitsSplit
<1>6. Zero
  BY <1>1, <1>2, <1>3, <1>4, <1>5, StepEffects
<1>7. QED
  BY <1>6, LiveSeenNext

-----------------------------------------------------------------------------
(* The promise.                                                            *)

(* The pool starts as the promise does.                                    *)
LEMMA PromiseInit == Init => Promise!Init
<1> SUFFICES ASSUME Init PROVE Promise!Init
  OBVIOUS
<1>1. \A t \in Threads : ~IsReleasing(t)
  BY DEF Init, IsReleasing
<1>2. Live = {} /\ blocks = <<>> /\ dirty = {}
  BY <1>1 DEF Init, Live
<1>3. UsedUnits = {} /\ LargeUnits = {}
  BY <1>2 DEF UsedUnits, LargeUnits
<1>4. QED
  BY <1>2, <1>3 DEF Promise!Init

(* Each step of the pool is one of the promise, or shows nothing.          *)
LEMMA PromiseNext ==
  ASSUME IInv, ClientInv, BitmapsMatchLive, FreeMemoryIsZero, [Next]_vars
  PROVE  [Promise!Next]_(Promise!vars)
<1>1. /\ UsedUnits \cup LargeUnits = UnitsOf(Live)
      /\ (UsedUnits \cup LargeUnits)' = UnitsOf(Live')
      /\ dirty \subseteq UnitsOf(Live)
  <2>1. BitmapsMatchLive'
    BY BitmapsNext
  <2>2. QED
    BY <2>1, LiveSeen, LiveSeenNext, UnitsSplit
<1>2. {Extent(r) : r \in Live} = RunsOf(Live) /\ {Extent(r) : r \in Live}' = RunsOf(Live')
  BY DEF RunsOf, Extent, Span, BlockNo, RoundUp
<1>3. CASE Invisible
  BY <1>1, <1>2, <1>3 DEF Promise!vars, Invisible
<1>4. ASSUME NEW r \in Region, HandsOut(r)
      PROVE  Extent(r) \in PoolRuns /\ Promise!Allocate(Extent(r))
  <2>1. /\ Extent(r) \in PoolRuns /\ Extent(r) \cap (UsedUnits \cup LargeUnits) = {}
        /\ Live' = Live \cup {r} /\ dirty' = dirty
    BY <1>4 DEF HandsOut
  <2>2. Extent(r) # {}
    <3>1. r.ptr \in Nat /\ BlockNo(r.size) \in Nat \ {0}
      BY BlockNoProperties DEF Region
    <3>2. r.ptr \in Extent(r)
      BY <3>1 DEF Extent, Span
    <3>3. QED
      BY <3>2
  <2>3. Extent(r) \cap dirty = {}
    BY <1>1, <2>1
  <2>4. /\ RunsOf(Live') = RunsOf(Live) \cup {Extent(r)}
        /\ UnitsOf(Live') = UnitsOf(Live) \cup Extent(r)
    <3>1. /\ RunsOf(Live \cup {r}) = RunsOf(Live) \cup {Extent(r)}
          /\ UnitsOf(Live \cup {r}) = UnitsOf(Live) \cup Extent(r)
      BY UnitsAdd
    <3>2. QED
      BY <2>1, <3>1
  <2>5. QED
    BY <1>1, <1>2, <2>1, <2>2, <2>3, <2>4 DEF Promise!Allocate
<1>5. ASSUME NEW r \in Live, TakesBack(r)
      PROVE  Extent(r) \in RunsOf(Live) /\ Promise!Deallocate(Extent(r))
  <2>1. Live' = Live \ {r} /\ dirty' = dirty \ Extent(r)
    BY <1>5 DEF TakesBack
  <2>2. /\ RunsOf(Live') = RunsOf(Live) \ {Extent(r)}
        /\ UnitsOf(Live') = UnitsOf(Live) \ Extent(r)
    BY <2>1, UnitsLeft
  <2>3. Extent(r) \in RunsOf(Live)
    BY DEF RunsOf
  <2>4. QED
    BY <1>1, <1>2, <2>1, <2>2, <2>3 DEF Promise!Deallocate
<1>6. CASE TakesAll
  <2>1. PICK keep : keep = RunsOf(LargeOf(Live))
    OBVIOUS
  <2>2. Live' = LargeOf(Live) /\ dirty' = dirty \ ChunkUnits
    BY <1>6 DEF TakesAll, LargeOf
  <2>3. keep \in SUBSET RunsOf(Live)
    BY <2>1 DEF RunsOf, LargeOf
  <2>4. RunsOf(Live') = keep /\ UnitsOf(Live') = UNION keep
    BY <2>1, <2>2 DEF UnitsOf
  <2>5. dirty' = dirty \cap UNION keep
    <3>1. UNION keep = UnitsOf(Live) \ ChunkUnits
      BY <2>1, ChunksLeft DEF UnitsOf
    <3>2. QED
      BY <1>1, <2>2, <3>1
  <2>6. Promise!Destroy(keep)
    BY <1>1, <1>2, <2>4, <2>5 DEF Promise!Destroy
  <2>7. QED
    BY <1>2, <2>3, <2>6 DEF Promise!Next
<1>7. ASSUME NEW r \in Live, Writes(r)
      PROVE  Extent(r) \in RunsOf(Live) /\ Promise!Write(Extent(r))
  <2>1. Live' = Live /\ dirty' = dirty \cup Extent(r)
    BY <1>7 DEF Writes
  <2>2. Extent(r) \in RunsOf(Live)
    BY DEF RunsOf
  <2>3. QED
    BY <1>1, <1>2, <2>1, <2>2 DEF Promise!Write
<1>8. QED
  BY <1>2, <1>3, <1>4, <1>5, <1>6, <1>7, StepEffects DEF Promise!Next

-----------------------------------------------------------------------------
(* The theorems.                                                           *)

(* The pool starts in the invariants.                                      *)
LEMMA PoolInit ==
  ASSUME Init
  PROVE  PoolInv /\ BitmapsMatchLive /\ FreeMemoryIsZero
<1>1. \A t \in Threads : pc[t] = "idle"
  BY DEF Init
<1>2. IInv
  BY InvariantInit
<1>3. ChunkUnits = {} /\ blocks = <<>> /\ dirty = {}
  BY DEF Init, ChunkUnits
<1>4. ClientInv /\ ScanInv
  BY <1>1, <1>3 DEF ClientInv, ScanInv, IsForeign
<1>5. Live = {} /\ UsedUnits = {}
  BY <1>1, <1>3 DEF Init, Live, IsReleasing, UsedUnits
<1>6. BitmapsMatchLive /\ FreeMemoryIsZero
  BY <1>3, <1>5 DEF BitmapsMatchLive, FreeMemoryIsZero
<1>7. QED
  BY <1>2, <1>4, <1>6 DEF PoolInv

(* Besides the layout of the memory, the pool knows of every request that  *)
(* a client made it, of every chunk where it lies, and of every scan that  *)
(* what it has left behind has no room.                                    *)
THEOREM PoolInvariant == Spec => []PoolInv
<1>1. Init => PoolInv
  BY PoolInit
<1>2. PoolInv /\ [Next]_vars => PoolInv'
  <2>1. IInv /\ [Next]_vars => IInv'
    BY TypeNext, ControlNext, MemoryNext DEF IInv
  <2>2. QED
    BY <2>1, ClientNext, ScanNext DEF PoolInv
<1>3. QED
  BY <1>1, <1>2, PTL DEF Spec

(* The bitmaps are the live pooled regions, unit by unit: no unit is lost  *)
(* and none is free while a client holds it.                               *)
THEOREM BitmapsAreExact == Spec => []BitmapsMatchLive
<1>1. Init => BitmapsMatchLive
  BY PoolInit
<1>2. PoolInv /\ BitmapsMatchLive /\ [Next]_vars => BitmapsMatchLive'
  BY BitmapsNext DEF PoolInv
<1>3. QED
  BY <1>1, <1>2, PoolInvariant, PTL DEF Spec

(* A unit that no client holds is zero, so that what allocate hands out is *)
(* zero, as MemoryRegion::create relies on.                                *)
THEOREM FreeIsZero == Spec => []FreeMemoryIsZero
<1>1. Init => FreeMemoryIsZero
  BY PoolInit
<1>2. PoolInv /\ FreeMemoryIsZero /\ [Next]_vars => FreeMemoryIsZero'
  BY ZeroNext DEF PoolInv
<1>3. QED
  BY <1>1, <1>2, PoolInvariant, PTL DEF Spec

(* allocate_blocks gives up only when no block has a run that fits: the    *)
(* circular scan leaves out no block, nor the shifting mask an offset.     *)
THEOREM ScanIsComplete == Spec => []ScanMissesNothing
<1>1. PoolInv => ScanMissesNothing
  <2>1. SUFFICES ASSUME PoolInv, NEW t \in Threads, pc[t] = "core", NEW i \in DOMAIN blocks
                 PROVE  ~HasRun(blocks[i], BlockNo(arg[t].size))
    BY DEF ScanMissesNothing
  <2>2. BlockNo(arg[t].size) \in 1 .. BITMAP_SIZE
    BY <2>1, RequestUnits DEF PoolInv
  <2>3. blocks[i] \in Block
    BY <2>1 DEF PoolInv, IInv, TypeOK
  <2>4. ~CanAlloc(blocks[i], BlockNo(arg[t].size))
    BY <2>1 DEF PoolInv, ScanInv
  <2>5. QED
    BY <2>2, <2>3, <2>4, MaskFindsRun
<1>2. QED
  BY <1>1, PoolInvariant, PTL

(* The second allocate_blocks always finds room in the chunk fetched for   *)
(* it: the Memory_Exhaustion behind it is never thrown.                    *)
THEOREM RescanFindsRoom == Spec => []RescanSucceeds
<1>1. PoolInv => RescanSucceeds
  BY DEF PoolInv, ScanInv, RescanSucceeds, ScanExhausted
<1>2. QED
  BY <1>1, PoolInvariant, PTL

(* deallocate rejects the pointers that are not the pool's, and no other.  *)
THEOREM RejectsForeign == Spec => RejectsExactlyForeign
<1> DEFINE Rejects == \A t \in Threads :
             pc[t] = "free" /\ pc'[t] # "free" => (pc'[t] = "rejected" <=> ~arg[t].owned)
<1>1. ASSUME PoolInv, [Next]_vars PROVE Rejects
  <2>1. SUFFICES ASSUME NEW t \in Threads, pc[t] = "free", pc'[t] # "free"
                 PROVE  pc'[t] = "rejected" <=> ~arg[t].owned
    OBVIOUS
  <2>2. DOMAIN pc = Threads /\ IInv /\ ClientInv /\ arg[t].owned \in BOOLEAN
    BY <1>1 DEF PoolInv, IInv, TypeOK
  <2>3. FreeLarge(t) \/ FreePooled(t) \/ WrongAllocator(t)
    <3>1. ASSUME NEW u \in Threads \ {t},
                 \/ Step(u) \/ (\E n \in Sizes : Allocate(u, n))
                 \/ (\E r \in held : Deallocate(u, r))
                 \/ (\E p \in Places, n \in Sizes : DeallocateForeign(u, p, n))
          PROVE  FALSE
      BY <2>1, <2>2, <3>1 DEF Step, LockAllocate, LockDeallocate, ScanFinds, ScanMovesOn, ScanFails,
         Mark, SystemRefuses, GetMoreCore, AllocateLarge, FreeLarge, FreePooled, WrongAllocator,
         Allocate, Deallocate, DeallocateForeign, Leave
    <3>2. ~(\/ LockAllocate(t) \/ LockDeallocate(t) \/ ScanFinds(t) \/ ScanMovesOn(t)
            \/ ScanFails(t) \/ Mark(t) \/ SystemRefuses(t)
            \/ (\E p \in Places : GetMoreCore(t, p) \/ AllocateLarge(t, p))
            \/ (\E n \in Sizes : Allocate(t, n)) \/ (\E r \in held : Deallocate(t, r))
            \/ (\E p \in Places, n \in Sizes : DeallocateForeign(t, p, n)))
      BY <2>1 DEF LockAllocate, LockDeallocate, ScanFinds, ScanMovesOn, ScanFails, Mark,
         SystemRefuses, GetMoreCore, AllocateLarge, Allocate, Deallocate, DeallocateForeign, Ready
    <3>3. ~(Destroy \/ (\E r \in held : Write(r)) \/ UNCHANGED vars)
      BY <2>1 DEF Destroy, Write, vars
    <3>4. QED
      BY <1>1, <3>1, <3>2, <3>3 DEF Next, Step
  <2>4. CASE FreeLarge(t)
    <3>1. pc'[t] = "idle" /\ arg[t].owned
      BY <2>1, <2>2, <2>4 DEF FreeLarge, Leave, ClientInv, IsForeign
    <3>2. QED
      BY <3>1
  <2>5. CASE FreePooled(t)
    <3>1. pc'[t] = "idle" /\ IsReleasing(t)
      BY <2>2, <2>5, OwnedIsReleasing DEF FreePooled, Leave
    <3>2. QED
      BY <3>1 DEF IsReleasing
  <2>6. CASE WrongAllocator(t)
    <3>1. pc'[t] = "rejected" /\ ~IsReleasing(t)
      BY <2>2, <2>6, OwnRegionIsOwned DEF WrongAllocator, Leave
    <3>2. QED
      BY <2>1, <2>2, <3>1 DEF IsReleasing
  <2>7. QED
    BY <2>3, <2>4, <2>5, <2>6
<1>2. QED
  BY <1>1, PoolInvariant, PTL DEF Spec, RejectsExactlyForeign

(* The pool implements the Allocator interface: seen as the runs that its  *)
(* clients hold, the units its bitmaps and the system account for and the  *)
(* units that are not zero, every step of it is a step of AllocatorPromise *)
(* or shows nothing.                                                       *)
THEOREM ImplementsPromise == Spec => KeepsPromise
<1>1. PoolInv /\ BitmapsMatchLive /\ FreeMemoryIsZero /\ [Next]_vars
        => [Promise!Next]_(Promise!vars)
  BY PromiseNext DEF PoolInv
<1>2. QED
  BY <1>1, PromiseInit, PoolInvariant, BitmapsAreExact, FreeIsZero, PTL
     DEF Spec, KeepsPromise, Promise!Spec
=============================================================================
