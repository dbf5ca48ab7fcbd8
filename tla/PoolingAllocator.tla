-------------------------- MODULE PoolingAllocator --------------------------
(***************************************************************************)
(* Pooling_Allocator (alloc/mem_pool): the secure-memory pool under the    *)
(* Locking and MemoryMapping allocators.  Chunks obtained from the system  *)
(* are cut into Memory_Blocks of BITMAP_SIZE units; a unit is BLOCK_SIZE   *)
(* bytes and has one bit in its block's bitmap.  Requests that do not fit  *)
(* a Memory_Block go straight to the system.                               *)
(*                                                                         *)
(* Addresses are counted in units: every pointer the pool hands out is on  *)
(* a unit boundary of its chunk.  A bitmap is the set of its 1-bits.  The  *)
(* critical sections are split where another thread could be seen if the   *)
(* mutex did not hold it out: between finding a free run of bits and       *)
(* setting it, and between two Memory_Blocks of the circular scan.         *)
(***************************************************************************)
EXTENDS Integers, Sequences, FiniteSets, FiniteSetsExt

CONSTANTS
  Threads,       \* threads that share the allocator
  NoThread,      \* the mutex is free
  BLOCK_SIZE,    \* bytes per unit (64 in the code)
  BITMAP_SIZE,   \* units per Memory_Block (64 in the code)
  CHUNK_SIZE,    \* BOTAN_MEM_POOL_CHUNK_SIZE, in bytes
  MAX_CORE,      \* the cap of get_more_core (1 MiB in the code)
  Sizes,         \* request sizes in bytes that the clients use
  Places,        \* addresses at which the system may place memory
  MaxRegions     \* bound: regions held by clients at once

ASSUME SizesAssumption ==
  /\ BLOCK_SIZE \in Nat \ {0} /\ BITMAP_SIZE \in Nat \ {0}
  /\ CHUNK_SIZE \in Nat /\ MAX_CORE \in Nat
  /\ Sizes \subseteq Nat /\ Places \subseteq Nat
(* A chunk holds at least one Memory_Block (64 KiB against 4 KiB).         *)
ASSUME ChunkAssumption ==
  BITMAP_SIZE * BLOCK_SIZE <= CHUNK_SIZE /\ BITMAP_SIZE * BLOCK_SIZE <= MAX_CORE
ASSUME NoThreadAssumption == NoThread \notin Threads
ASSUME BoundAssumption == MaxRegions \in Nat

VARIABLES
  blocks,     \* vector<Memory_Block>, sorted by address
  last_used,  \* iterator into blocks, as an index
  allocated,  \* vector of the chunks obtained from the system
  mutex,      \* the thread that holds *mutex, or NoThread
  pc,         \* where each thread is in allocate() or deallocate()
  arg,        \* each thread's argument: a request, or the region to release
  iter,       \* allocate_blocks's local iterator
  held,       \* regions the clients own (ghost)
  dirty       \* units whose content is not all zero

vars == <<blocks, last_used, allocated, mutex, pc, arg, iter, held, dirty>>

-----------------------------------------------------------------------------
(* Arithmetic of sizes and addresses.                                      *)

RoundUp(n, a) == IF n % a # 0 \/ n = 0 THEN n + (a - (n % a)) ELSE n
BlockNo(n) == RoundUp(n, BLOCK_SIZE) \div BLOCK_SIZE
MaxPooled == BITMAP_SIZE * BLOCK_SIZE
InBlocks == RoundUp(IF CHUNK_SIZE < MAX_CORE THEN CHUNK_SIZE ELSE MAX_CORE,
                    BLOCK_SIZE) \div MaxPooled

Span(p, n) == p .. (p + n - 1)
Extent(r) == Span(r.ptr, BlockNo(r.size))
IsPooled(n) == n <= MaxPooled

BufferEnd(b) == b.buffer + BITMAP_SIZE
Contains(b, p, n) == b.buffer <= p /\ p + n <= BufferEnd(b)
(* Faulty variant: no test for a pointer inside the block.                 *)
LessIgnoresInside(b, p) == b.buffer < p
Less(b, p) == /\ ~(b.buffer < p /\ p < BufferEnd(b))
              /\ b.buffer < p
LowerBound(s, p) ==
  Min({i \in 1 .. Len(s) + 1 : i = Len(s) + 1 \/ ~Less(s[i], p)})

-----------------------------------------------------------------------------
(* Memory_Block::alloc and free on one bitmap.                             *)

IsClear(b, off, n) == b.bitmap \cap Span(off, n) = {}
(* The shifting mask stops at the first clear run, or with its top bit in  *)
(* the bitmap's top bit.                                                   *)
MaskStop(b, n) ==
  Min({off \in 0 .. BITMAP_SIZE - n : IsClear(b, off, n) \/ off + n = BITMAP_SIZE})
(* Faulty variant: a request for all of the block is refused.              *)
CanAllocNotAll(b, n) == n \in 1 .. BITMAP_SIZE - 1 /\ IsClear(b, MaskStop(b, n), n)
CanAlloc(b, n) == n \in 1 .. BITMAP_SIZE /\ IsClear(b, MaskStop(b, n), n)
(* Faulty variant: the mask lacks its "- 1".                               *)
BlockAllocOneBit(b, n) == [b EXCEPT !.bitmap = @ \cup {MaskStop(b, n) + n - 1}]
BlockAlloc(b, n) == [b EXCEPT !.bitmap = @ \cup Span(MaskStop(b, n), n)]
(* Faulty variant: the loop over the bits stops one short.                 *)
BlockFreeShort(b, p, n) == [b EXCEPT !.bitmap = @ \ Span(p - b.buffer, n - 1)]
BlockFree(b, p, n) == [b EXCEPT !.bitmap = @ \ Span(p - b.buffer, n)]

-----------------------------------------------------------------------------
(* What the system has given out; alloc_block picks a place outside it.    *)

Ready == {"idle", "exhausted", "rejected"}
Critical == {"scan", "rescan", "mark", "core", "large", "free"}
AsRegion(a) == [ptr |-> a.ptr, size |-> a.size]
IsReleasing(t) == pc[t] \in {"deallocate", "free"} /\ arg[t].owned
IsForeign(t) == pc[t] \in {"deallocate", "free"} /\ ~arg[t].owned
Live == held \cup {AsRegion(arg[t]) : t \in {u \in Threads : IsReleasing(u)}}

ChunkUnits == UNION {Span(allocated[i].ptr, allocated[i].len) : i \in DOMAIN allocated}
LargeUnits == UNION {Extent(r) : r \in {q \in Live : ~IsPooled(q.size)}}
ForeignUnits == UNION {Extent(arg[t]) : t \in {u \in Threads : IsForeign(u)}}
SystemHasRoom(p, n) ==
  Span(p, n) \cap (ChunkUnits \cup LargeUnits \cup ForeignUnits) = {}

NoArg == [ptr |-> 0, size |-> 0, owned |-> FALSE]

Init ==
  /\ blocks = <<>> /\ last_used = 1 /\ allocated = <<>>
  /\ mutex = NoThread
  /\ pc = [t \in Threads |-> "idle"]
  /\ arg = [t \in Threads |-> NoArg]
  /\ iter = [t \in Threads |-> 1]
  /\ held = {} /\ dirty = {}

(* The end of a call: Mutex_Holder's destructor unlocks, on a return and   *)
(* on an exception alike.                                                  *)
Leave(t, how) ==
  /\ mutex' = NoThread
  /\ pc' = [pc EXCEPT ![t] = how]
  /\ arg' = [arg EXCEPT ![t] = NoArg]
  /\ iter' = [iter EXCEPT ![t] = 1]

-----------------------------------------------------------------------------
(* allocate(n)                                                             *)

Allocate(t, n) ==
  /\ pc[t] \in Ready
  /\ Cardinality(Live) + Cardinality({u \in Threads : pc[u] \notin Ready}) < MaxRegions
  /\ pc' = [pc EXCEPT ![t] = "allocate"]
  /\ arg' = [arg EXCEPT ![t] = [NoArg EXCEPT !.size = n]]
  /\ UNCHANGED <<blocks, last_used, allocated, mutex, iter, held, dirty>>

(* Faulty variant: the free-list is read before the Mutex_Holder is made.  *)
LockAllocateUnheld(t) ==
  /\ pc[t] = "allocate"
  /\ mutex' = t
  /\ pc' = [pc EXCEPT ![t] = IF IsPooled(arg[t].size) THEN "scan" ELSE "large"]
  /\ iter' = [iter EXCEPT ![t] = last_used]
  /\ UNCHANGED <<blocks, last_used, allocated, arg, held, dirty>>
LockAllocate(t) ==
  /\ pc[t] = "allocate" /\ mutex = NoThread
  /\ mutex' = t
  /\ pc' = [pc EXCEPT ![t] = IF IsPooled(arg[t].size) THEN "scan" ELSE "large"]
  /\ iter' = [iter EXCEPT ![t] = last_used]
  /\ UNCHANGED <<blocks, last_used, allocated, arg, held, dirty>>

(* allocate_blocks: the body of the do-while for one Memory_Block.         *)
ScanFinds(t) ==
  /\ pc[t] \in {"scan", "rescan"}
  /\ blocks # <<>>
  /\ CanAlloc(blocks[iter[t]], BlockNo(arg[t].size))
  /\ pc' = [pc EXCEPT ![t] = "mark"]
  /\ UNCHANGED <<blocks, last_used, allocated, mutex, arg, iter, held, dirty>>

NextIter(i) == IF i = Len(blocks) THEN 1 ELSE i + 1

ScanMovesOn(t) ==
  /\ pc[t] \in {"scan", "rescan"}
  /\ blocks # <<>>
  /\ ~CanAlloc(blocks[iter[t]], BlockNo(arg[t].size))
  /\ NextIter(iter[t]) # last_used
  /\ iter' = [iter EXCEPT ![t] = NextIter(@)]
  /\ UNCHANGED <<blocks, last_used, allocated, mutex, pc, arg, held, dirty>>

(* Faulty variant: the loop stops at the end of the vector, unwrapped.     *)
ScanExhaustedAtEnd(t) ==
  blocks # <<>> => /\ ~CanAlloc(blocks[iter[t]], BlockNo(arg[t].size))
                   /\ iter[t] = Len(blocks)
(* The scan has come full circle, or there is nothing to scan.             *)
ScanExhausted(t) ==
  \/ blocks = <<>>
  \/ /\ blocks # <<>>
     /\ ~CanAlloc(blocks[iter[t]], BlockNo(arg[t].size))
     /\ NextIter(iter[t]) = last_used

ScanFails(t) ==
  /\ pc[t] = "scan" /\ ScanExhausted(t)
  /\ pc' = [pc EXCEPT ![t] = "core"]
  /\ UNCHANGED <<blocks, last_used, allocated, mutex, arg, iter, held, dirty>>

(* bitmap |= mask; last_used = i; return the run's address.                *)
Mark(t) ==
  /\ pc[t] = "mark"
  /\ LET i == iter[t]
         n == BlockNo(arg[t].size)
         off == MaskStop(blocks[i], n)
     IN /\ blocks' = [blocks EXCEPT ![i] = BlockAlloc(@, n)]
        /\ last_used' = i
        /\ held' = held \cup {[ptr |-> blocks[i].buffer + off, size |-> arg[t].size]}
  /\ Leave(t, "idle")
  /\ UNCHANGED <<allocated, dirty>>

(* get_more_core: the new chunk's blocks, pushed back and sorted in.       *)
NewBlock(p, j) == [buffer |-> p + (j - 1) * BITMAP_SIZE, bitmap |-> {}]
(* Faulty variant: the new blocks are pushed back and not sorted.          *)
SortedInUnsorted(s, p) == s \o [j \in 1 .. InBlocks |-> NewBlock(p, j)]
SortedIn(s, p) ==
  LET k == LowerBound(s, p)
  IN [i \in 1 .. Len(s) + InBlocks |->
        IF i < k THEN s[i]
        ELSE IF i < k + InBlocks THEN NewBlock(p, i - k + 1)
        ELSE s[i - InBlocks]]

GetMoreCore(t, p) ==
  /\ pc[t] = "core"
  /\ SystemHasRoom(p, InBlocks * BITMAP_SIZE)
  /\ allocated' = Append(allocated, [ptr |-> p, len |-> InBlocks * BITMAP_SIZE])
  /\ blocks' = SortedIn(blocks, p)
  /\ last_used' = LowerBound(blocks', p)
  /\ iter' = [iter EXCEPT ![t] = last_used']
  /\ pc' = [pc EXCEPT ![t] = "rescan"]
  /\ UNCHANGED <<mutex, arg, held, dirty>>

(* n > BITMAP_SIZE * BLOCK_SIZE: the system's block is returned as it is.  *)
AllocateLarge(t, p) ==
  /\ pc[t] = "large"
  /\ SystemHasRoom(p, BlockNo(arg[t].size))
  /\ held' = held \cup {[ptr |-> p, size |-> arg[t].size]}
  /\ Leave(t, "idle")
  /\ UNCHANGED <<blocks, last_used, allocated, dirty>>

(* Faulty variant: the exception leaves without unlocking.                 *)
SystemRefusesLocked(t) ==
  /\ pc[t] \in {"core", "large"}
  /\ pc' = [pc EXCEPT ![t] = "exhausted"]
  /\ arg' = [arg EXCEPT ![t] = NoArg]
  /\ iter' = [iter EXCEPT ![t] = 1]
  /\ UNCHANGED <<blocks, last_used, allocated, mutex, held, dirty>>
(* alloc_block returns 0, or throws.                                       *)
SystemRefuses(t) ==
  /\ pc[t] \in {"core", "large"}
  /\ Leave(t, "exhausted")
  /\ UNCHANGED <<blocks, last_used, allocated, held, dirty>>

-----------------------------------------------------------------------------
(* deallocate(ptr, n)                                                      *)

Deallocate(t, r) ==
  /\ pc[t] \in Ready
  /\ held' = held \ {r}
  /\ pc' = [pc EXCEPT ![t] = "deallocate"]
  /\ arg' = [arg EXCEPT ![t] = [ptr |-> r.ptr, size |-> r.size, owned |-> TRUE]]
  /\ UNCHANGED <<blocks, last_used, allocated, mutex, iter, dirty>>

(* A pointer that came from another allocator.                             *)
DeallocateForeign(t, p, n) ==
  /\ pc[t] \in Ready
  /\ IsPooled(n)
  /\ Span(p, BlockNo(n)) \cap (ChunkUnits \cup LargeUnits) = {}
  /\ pc' = [pc EXCEPT ![t] = "deallocate"]
  /\ arg' = [arg EXCEPT ![t] = [ptr |-> p, size |-> n, owned |-> FALSE]]
  /\ UNCHANGED <<blocks, last_used, allocated, mutex, iter, held, dirty>>

LockDeallocate(t) ==
  /\ pc[t] = "deallocate" /\ mutex = NoThread
  /\ mutex' = t
  /\ pc' = [pc EXCEPT ![t] = "free"]
  /\ UNCHANGED <<blocks, last_used, allocated, arg, iter, held, dirty>>

(* dealloc_block: the system's implementations wipe what they give back.   *)
FreeLarge(t) ==
  /\ pc[t] = "free" /\ ~IsPooled(arg[t].size)
  /\ dirty' = dirty \ Extent(arg[t])
  /\ Leave(t, "idle")
  /\ UNCHANGED <<blocks, last_used, allocated, held>>

Owner(r) == LowerBound(blocks, r.ptr)
Owned(r) == /\ Owner(r) # Len(blocks) + 1
            /\ Contains(blocks[Owner(r)], r.ptr, BlockNo(r.size))

(* Faulty variant: the bits are cleared and the bytes are not.             *)
FreePooledUnwiped(t) ==
  /\ pc[t] = "free" /\ IsPooled(arg[t].size)
  /\ Owned(arg[t])
  /\ blocks' = [blocks EXCEPT ![Owner(arg[t])] =
                  BlockFree(@, arg[t].ptr, BlockNo(arg[t].size))]
  /\ Leave(t, "idle")
  /\ UNCHANGED <<last_used, allocated, held, dirty>>
FreePooled(t) ==
  /\ pc[t] = "free" /\ IsPooled(arg[t].size)
  /\ Owned(arg[t])
  /\ blocks' = [blocks EXCEPT ![Owner(arg[t])] =
                  BlockFree(@, arg[t].ptr, BlockNo(arg[t].size))]
  /\ dirty' = dirty \ Extent(arg[t])
  /\ Leave(t, "idle")
  /\ UNCHANGED <<last_used, allocated, held>>

(* Invalid_State("Pointer released to the wrong allocator").               *)
WrongAllocator(t) ==
  /\ pc[t] = "free" /\ IsPooled(arg[t].size)
  /\ ~Owned(arg[t])
  /\ Leave(t, "rejected")
  /\ UNCHANGED <<blocks, last_used, allocated, held, dirty>>

-----------------------------------------------------------------------------
(* destroy(), called by the teardown of the library when no other call is  *)
(* under way.  The pooled regions go with their chunks; last_used is left  *)
(* as it is, and dangles.                                                  *)
Destroy ==
  /\ \A t \in Threads : pc[t] \in Ready
  /\ mutex = NoThread
  /\ blocks' = <<>> /\ allocated' = <<>>
  /\ dirty' = dirty \ ChunkUnits
  /\ held' = {r \in held : ~IsPooled(r.size)}
  /\ UNCHANGED <<last_used, mutex, pc, arg, iter>>

(* A client stores into a region it owns.                                  *)
Write(r) ==
  /\ dirty' = dirty \cup Extent(r)
  /\ UNCHANGED <<blocks, last_used, allocated, mutex, pc, arg, iter, held>>

Step(t) ==
  \/ LockAllocate(t) \/ LockDeallocate(t)
  \/ ScanFinds(t) \/ ScanMovesOn(t) \/ ScanFails(t)
  \/ Mark(t) \/ SystemRefuses(t)
  \/ \E p \in Places : GetMoreCore(t, p) \/ AllocateLarge(t, p)
  \/ FreeLarge(t) \/ FreePooled(t) \/ WrongAllocator(t)

Next ==
  \/ \E t \in Threads :
       \/ Step(t)
       \/ \E n \in Sizes : Allocate(t, n)
       \/ \E r \in held : Deallocate(t, r)
       \/ \E p \in Places, n \in Sizes : DeallocateForeign(t, p, n)
  \/ Destroy
  \/ \E r \in held : Write(r)

Spec == Init /\ [][Next]_vars

(* A thread inside the critical section is running, and leaves it.  No     *)
(* fairness of the mutex itself is assumed.                                *)
FairSpec == Spec /\ \A t \in Threads : WF_vars(pc[t] \in Critical /\ Step(t))

-----------------------------------------------------------------------------
Region == [ptr : Nat, size : Nat]
Block == [buffer : Nat, bitmap : SUBSET (0 .. BITMAP_SIZE - 1)]

(* Type invariant of the allocator's state.                                *)
TypeOK ==
  /\ blocks \in Seq(Block)
  /\ last_used \in Nat \ {0}
  /\ allocated \in Seq([ptr : Nat, len : Nat])
  /\ mutex \in Threads \cup {NoThread}
  /\ pc \in [Threads -> Ready \cup Critical \cup {"allocate", "deallocate"}]
  /\ arg \in [Threads -> [ptr : Nat, size : Nat, owned : BOOLEAN]]
  /\ iter \in [Threads -> Nat \ {0}]
  /\ held \subseteq Region
  /\ dirty \subseteq Nat

(* Two regions that clients hold, or are releasing, never share a unit,    *)
(* whoever allocated and released around them: allocate never returns      *)
(* memory that is in use, whether pooled or straight from the system.      *)
LiveRegionsDisjoint ==
  \A q, r \in Live : q # r => Extent(q) \cap Extent(r) = {}

(* The bitmaps are exactly the live pooled regions: no unit is lost (set   *)
(* with no owner) and none is free while a client holds it.                *)
UsedUnits == UNION {{blocks[i].buffer + off : off \in blocks[i].bitmap} : i \in DOMAIN blocks}
BitmapsMatchLive ==
  UsedUnits = UNION {Extent(r) : r \in {q \in Live : IsPooled(q.size)}}

(* Memory that no client holds is zero: free() and dealloc_block wipe it,  *)
(* which MemoryRegion::create relies on for "initialized to zero bytes".   *)
FreeMemoryIsZero == dirty \subseteq UNION {Extent(r) : r \in Live}

(* allocate_blocks gives up only when no Memory_Block has a run that fits: *)
(* the circular scan from last_used visits every block, and the shifting   *)
(* mask every offset.                                                      *)
HasRun(b, n) == \E off \in 0 .. BITMAP_SIZE - n : IsClear(b, off, n)
ScanMissesNothing ==
  \A t \in Threads : pc[t] = "core" =>
    \A i \in DOMAIN blocks : ~HasRun(blocks[i], BlockNo(arg[t].size))

(* A fresh chunk satisfies the request that asked for it: the second       *)
(* allocate_blocks never fails, so that the Memory_Exhaustion after it is  *)
(* dead code and allocate throws only when the system refuses.             *)
RescanSucceeds == \A t \in Threads : pc[t] = "rescan" => ~ScanExhausted(t)

(* deallocate throws "Pointer released to the wrong allocator" exactly for *)
(* the pointers that are not its own: the binary search finds the owner of *)
(* every region the pool handed out, and none for another's.               *)
RejectsExactlyForeign ==
  [][\A t \in Threads :
       pc[t] = "free" /\ pc'[t] # "free" => (pc'[t] = "rejected" <=> ~arg[t].owned)]_vars

(* The strengthening under which LiveRegionsDisjoint is inductive: the     *)
(* mutex keeps iter and last_used valid, the blocks stay sorted and inside *)
(* the chunks, and every live pooled region has its bits set.              *)
MutexInv == \A t \in Threads : pc[t] \in Critical <=> mutex = t
SortedInv ==
  \A i, j \in DOMAIN blocks : i < j => BufferEnd(blocks[i]) <= blocks[j].buffer
ChunkInv ==
  \A i \in DOMAIN blocks : Span(blocks[i].buffer, BITMAP_SIZE) \subseteq ChunkUnits
CursorInv ==
  /\ blocks # <<>> => last_used \in DOMAIN blocks
  /\ \A t \in Threads : pc[t] \in {"scan", "rescan", "mark"} /\ blocks # <<>> =>
       iter[t] \in DOMAIN blocks
  /\ \A t \in Threads : pc[t] = "mark" =>
       blocks # <<>> /\ CanAlloc(blocks[iter[t]], BlockNo(arg[t].size))
RequestInv ==
  \A t \in Threads : /\ pc[t] \in {"scan", "rescan", "mark", "core"} => IsPooled(arg[t].size)
                     /\ pc[t] = "large" => ~IsPooled(arg[t].size)
Marked(r, b) ==
  /\ Contains(b, r.ptr, BlockNo(r.size))
  /\ Span(r.ptr - b.buffer, BlockNo(r.size)) \subseteq b.bitmap
PooledInv ==
  \A r \in Live : IsPooled(r.size) => \E i \in DOMAIN blocks : Marked(r, blocks[i])
LargeInv ==
  \A r \in Live : ~IsPooled(r.size) => Extent(r) \cap ChunkUnits = {}
ForeignInv == ForeignUnits \cap ChunkUnits = {}
ReleaseInv ==
  \A t \in Threads : IsReleasing(t) =>
    /\ AsRegion(arg[t]) \notin held
    /\ \A u \in Threads \ {t} : IsReleasing(u) => AsRegion(arg[u]) # AsRegion(arg[t])
ControlInv == MutexInv /\ CursorInv /\ RequestInv
MemoryInv ==
  /\ SortedInv /\ ChunkInv /\ PooledInv /\ LargeInv /\ ForeignInv
  /\ ReleaseInv /\ LiveRegionsDisjoint
IInv == TypeOK /\ ControlInv /\ MemoryInv

(* What a client gives the pool: a request of a known size, a foreign      *)
(* pointer of a pooled one; and chunks lie where the system places them.   *)
Addresses == UNION {Span(p, InBlocks * BITMAP_SIZE) : p \in Places}
ClientInv ==
  /\ \A t \in Threads :
       /\ pc[t] \in {"allocate", "scan", "rescan", "mark", "core", "large"} =>
            arg[t].size \in Sizes
       /\ IsForeign(t) => IsPooled(arg[t].size)
  /\ ChunkUnits \subseteq Addresses

(* The blocks that a scan has left behind since last_used, round the end   *)
(* of the vector if need be, have no room; the chunk that was fetched      *)
(* because none had starts with one that has.                              *)
Behind(i, from, to) ==
  IF from <= to THEN from <= i /\ i < to ELSE from <= i \/ i < to
ScanInv ==
  \A t \in Threads :
    /\ pc[t] = "scan" => \A i \in DOMAIN blocks :
         Behind(i, last_used, iter[t]) => ~CanAlloc(blocks[i], BlockNo(arg[t].size))
    /\ pc[t] = "core" => \A i \in DOMAIN blocks : ~CanAlloc(blocks[i], BlockNo(arg[t].size))
    /\ pc[t] = "rescan" =>
         blocks # <<>> /\ CanAlloc(blocks[iter[t]], BlockNo(arg[t].size))

(* All of it: what holds in every state between two steps.                 *)
PoolInv == IInv /\ ClientInv /\ ScanInv

(* Seen through its bitmaps the pool keeps the promise of the Allocator    *)
(* interface: every step hands out a free zeroed run, takes one back, or   *)
(* is invisible, an exhausted or rejected call included.                   *)
PoolRuns == {Span(a, BlockNo(n)) : a \in Addresses, n \in Sizes}
Promise == INSTANCE AllocatorPromise WITH
  Runs <- PoolRuns,
  live <- {Extent(r) : r \in Live},
  used <- UsedUnits \cup LargeUnits
KeepsPromise == Promise!Spec

(* The mutex is released however the call ends, an exception included.     *)
MutexIsReleased == (mutex # NoThread) ~> (mutex = NoThread)
=============================================================================
