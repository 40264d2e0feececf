--------------------------------- MODULE Heap ---------------------------------
(***************************************************************************)
(* The heap of os/mem.c: a chain of headers in one piece of memory, first  *)
(* fit from the lowest free block, neighbours joined when a block is       *)
(* freed.  heap_sem makes each operation one step; rt_realloc may be three *)
(* of them, between which other threads use the heap.  An address is an    *)
(* offset from heap_ptr, and a block is known by the address of its data.  *)
(***************************************************************************)
EXTENDS Integers, FiniteSets, FiniteSetsExt

CONSTANTS
    RT_ALIGN_SIZE, SIZEOF_STRUCT_MEM, MIN_SIZE,
    mem_size_aligned,  \* of the heap, without its first and last header
    Sizes,             \* the sizes programs ask for; RT_ALIGN does not overflow
    HeapThread         \* the threads that call rt_realloc

\* RT_ALIGN rounds up to a multiple of RT_ALIGN_SIZE, a power of two: it adds
\* RT_ALIGN_SIZE - 1 and masks the low bits.
RT_ALIGN(n) == LET x == n + RT_ALIGN_SIZE - 1 IN x - (x % RT_ALIGN_SIZE)

MIN_SIZE_ALIGNED == RT_ALIGN(MIN_SIZE)

heap_end == mem_size_aligned + SIZEOF_STRUCT_MEM

Offset == {n \in 0 .. heap_end : n % RT_ALIGN_SIZE = 0}

ASSUME HeapAssumption ==
    /\ {RT_ALIGN_SIZE, SIZEOF_STRUCT_MEM, MIN_SIZE} \subseteq Nat \ {0}
    /\ {SIZEOF_STRUCT_MEM, mem_size_aligned} \subseteq {RT_ALIGN(n) : n \in 0 .. mem_size_aligned}
    /\ MIN_SIZE_ALIGNED <= mem_size_aligned
    /\ Sizes \subseteq Nat

VARIABLES
    heap,    \* the headers, lfree and used_mem
    held,    \* what programs hold: the size asked for, by address
    realloc  \* the rt_realloc each thread is in the middle of

memory == <<heap, held, realloc>>

None == -1

Idling == [at |-> "none", rmem |-> None, newsize |-> 0]

\* Memory that is no header of the chain: nobody reads it.
Stale == [used |-> FALSE, next |-> heap_end, prev |-> 0]

HeapTypeOK ==
    /\ heap \in [mem : [Offset -> [used : BOOLEAN, next : Offset, prev : Offset]],
                 lfree : Offset, used_mem : 0 .. heap_end]
    /\ DOMAIN held \subseteq Offset /\ \A b \in DOMAIN held : held[b] \in Sizes
    /\ realloc \in [HeapThread -> [at : {"none", "expand", "free"},
                                   rmem : Offset \union {None},
                                   newsize : Sizes \union {0}]]

\* rt_system_heap_init: one free block, and the header at the end, in use.
HeapInit ==
    /\ heap = [mem |-> [[p \in Offset |-> Stale] EXCEPT
                           ![heap_end].used = TRUE, ![heap_end].prev = heap_end],
               lfree |-> 0, used_mem |-> 0]
    /\ held = [b \in {} |-> 0]
    /\ realloc = [t \in HeapThread |-> Idling]

-----------------------------------------------------------------------------
(* The chain of headers *)

\* What the block at p has for data.
Room(h, p) == h.mem[p].next - p - SIZEOF_STRUCT_MEM

\* The block at p takes in the one after it, at n.
Join(h, p, n) ==
    [h EXCEPT !.mem[p].next = h.mem[n].next,
              !.mem[h.mem[n].next].prev = p,
              !.mem[n] = Stale,
              !.lfree = IF @ = n THEN p ELSE @]

PlugForward(h, p) ==
    LET n == h.mem[p].next
    IN  IF p # n /\ ~h.mem[n].used /\ n # heap_end THEN Join(h, p, n) ELSE h

PlugBackward(h, p) ==
    LET q == h.mem[p].prev
    IN  IF q # p /\ ~h.mem[q].used THEN Join(h, q, p) ELSE h

\* Mutant: only the block after the freed one is looked at.
plug_holes_forward(h, p) == PlugForward(h, p)

plug_holes(h, p) == PlugBackward(PlugForward(h, p), p)

\* The block at p is cut after size bytes; the rest is a free block.
Split(h, p, size) ==
    LET p2 == p + SIZEOF_STRUCT_MEM + size
        n  == h.mem[p].next
        s  == [h EXCEPT !.mem[p2] = [used |-> FALSE, next |-> n, prev |-> p],
                        !.mem[p].next = p2]
    IN  IF n # heap_end THEN [s EXCEPT !.mem[n].prev = p2] ELSE s

-----------------------------------------------------------------------------
(* rt_malloc *)

\* From p on, the first free block of the size that begins before limit.
FirstFit(h, size, limit) ==
    LET fit[p \in Offset] ==
            CASE p >= limit -> None
              [] p < limit /\ ~h.mem[p].used /\ Room(h, p) >= size -> p
              [] OTHER -> fit[h.mem[p].next]
    IN  fit[h.lfree]

\* lfree moves on to the next free block, or to the end.
NextFree(h) ==
    LET free[p \in Offset] ==
            IF h.mem[p].used /\ p # heap_end THEN free[h.mem[p].next] ELSE p
    IN  [h EXCEPT !.lfree = free[@]]

\* The block at p is given away, cut if what is left can hold a block.
Grant(h, p, size) ==
    LET split == Room(h, p) >= size + SIZEOF_STRUCT_MEM + MIN_SIZE_ALIGNED
        s == IF split THEN Split(h, p, size) ELSE h
        u == [s EXCEPT !.mem[p].used = TRUE, !.used_mem = @ + s.mem[p].next - p]
    IN  IF p = h.lfree THEN NextFree(u) ELSE u

\* "every data block must be at least MIN_SIZE_ALIGNED long".
Size(request) == Max({RT_ALIGN(request), MIN_SIZE_ALIGNED})

\* The header rt_malloc finds for a request, or None for RT_NULL.
Found(h, request) ==
    IF request = 0 \/ RT_ALIGN(request) > mem_size_aligned
    THEN None
    ELSE FirstFit(h, Size(request), mem_size_aligned - Size(request))

Data(p) == p + SIZEOF_STRUCT_MEM
Header(b) == b - SIZEOF_STRUCT_MEM

Owns(b, size) == [c \in DOMAIN held \union {b} |-> IF c = b THEN size ELSE held[c]]

\* The caller gets a block of the requested size, or RT_NULL.
Malloc(request) ==
    LET p == Found(heap, request)
    IN  IF p = None
        THEN UNCHANGED <<heap, held>>
        ELSE /\ heap' = Grant(heap, p, Size(request))
             /\ held' = Owns(Data(p), request)

\* rt_malloc, and rt_calloc.
rt_malloc(request) == Malloc(request) /\ UNCHANGED realloc

-----------------------------------------------------------------------------
(* rt_free *)

\* Mutant: a block freed below lfree does not become the lowest.
Release_keeps_lfree(h, p) ==
    plug_holes([h EXCEPT !.mem[p].used = FALSE,
                         !.used_mem = @ - (h.mem[p].next - p)], p)

Release(h, p) ==
    plug_holes([h EXCEPT !.mem[p].used = FALSE,
                         !.lfree = IF p < @ THEN p ELSE @,
                         !.used_mem = @ - (h.mem[p].next - p)], p)

Free(b) ==
    /\ heap' = Release(heap, Header(b))
    /\ held' = [c \in DOMAIN held \ {b} |-> held[c]]

\* A program frees and reallocates what it holds and nobody is reallocating.
Mine(b) == b \in DOMAIN held /\ \A t \in HeapThread : realloc[t].rmem # b

rt_free(b) == Mine(b) /\ Free(b) /\ UNCHANGED realloc

-----------------------------------------------------------------------------
(* rt_realloc *)

\* The block at p is cut, without regard to MIN_SIZE_ALIGNED.
Shrunk(h, p, size) ==
    LET s == Split(h, p, size)
        r == p + SIZEOF_STRUCT_MEM + size
    IN  plug_holes([s EXCEPT !.used_mem = @ - (Room(h, p) - size),
                             !.lfree = IF r < @ THEN r ELSE @], r)

\* A request the heap could never grant changes nothing, one for nothing frees
\* the block; without a block it is rt_malloc.
rt_realloc(t, b, request) ==
    /\ Mine(b) /\ realloc[t] = Idling
    /\ LET size == RT_ALIGN(request)
           p == Header(b)
       IN  /\ size <= mem_size_aligned
           /\ \/ /\ size = 0
                 /\ Free(b)
                 /\ UNCHANGED realloc
              \/ /\ size > 0 /\ size = Room(heap, p)
                 /\ held' = Owns(b, request)
                 /\ UNCHANGED <<heap, realloc>>
              \/ /\ size > 0 /\ size + SIZEOF_STRUCT_MEM + MIN_SIZE < Room(heap, p)
                 /\ heap' = Shrunk(heap, p, size)
                 /\ held' = Owns(b, request)
                 /\ UNCHANGED realloc
              \/ /\ size > 0 /\ size # Room(heap, p)
                 /\ size + SIZEOF_STRUCT_MEM + MIN_SIZE >= Room(heap, p)
                 /\ realloc' = [realloc EXCEPT ![t] = [at |-> "expand", rmem |-> b,
                                                       newsize |-> request]]
                 /\ UNCHANGED <<heap, held>>

\* The lock was given up; rt_malloc takes it again.  Without memory the call
\* returns RT_NULL and the old block stays, also when it was to become smaller.
ReallocMalloc(t) ==
    /\ realloc[t].at = "expand"
    /\ LET request == RT_ALIGN(realloc[t].newsize)
       IN  /\ heap' = IF Found(heap, request) = None THEN heap
                      ELSE Grant(heap, Found(heap, request), Size(request))
           /\ held' = IF Found(heap, request) = None THEN held
                        ELSE Owns(Data(Found(heap, request)), realloc[t].newsize)
           /\ realloc' = [realloc EXCEPT
                  ![t] = IF Found(heap, request) = None THEN Idling
                         ELSE [@ EXCEPT !.at = "free"]]

\* The data is copied and the old block freed.
ReallocFree(t) ==
    /\ realloc[t].at = "free"
    /\ Free(realloc[t].rmem)
    /\ realloc' = [realloc EXCEPT ![t] = Idling]

HeapNext ==
    \/ \E request \in Sizes : rt_malloc(request)
    \/ \E b \in DOMAIN held :
           rt_free(b) \/ \E t \in HeapThread, request \in Sizes : rt_realloc(t, b, request)
    \/ \E t \in HeapThread : ReallocMalloc(t) \/ ReallocFree(t)

HeapSpec == HeapInit /\ [][HeapNext]_memory

-----------------------------------------------------------------------------
(* Properties *)

\* The headers of the chain from the start of the heap.
Headers ==
    LET from[p \in Offset] ==
            IF heap.mem[p].next <= p THEN {p} ELSE {p} \union from[heap.mem[p].next]
    IN  from[0]

FreeHeaders == {p \in Headers \ {heap_end} : ~heap.mem[p].used}

\* The chain runs through the whole heap, and what programs hold are the data of
\* its used blocks, each large enough for its request: no two blocks overlap and
\* none is lost, however blocks are cut, joined and moved.
BlocksApart ==
    /\ heap_end \in Headers
    /\ {Header(b) : b \in DOMAIN held} = Headers \ (FreeHeaders \union {heap_end})
    /\ \A b \in DOMAIN held : Room(heap, Header(b)) >= held[b]

\* "if not we have 2 unused structs in a row, plug_holes should have take care of
\* this": a free block has no free neighbour.
Coalesced == \A p \in FreeHeaders : heap.mem[p].next \notin FreeHeaders

\* lfree is the lowest free block, where every search begins.
LowestFree == heap.lfree = Min(FreeHeaders \union {heap_end})

\* The bytes of blocks and of their headers.
Bytes(h, blocks) ==
    {x \in 0 .. heap_end - 1 : \E p \in blocks : p <= x /\ x < h.mem[p].next}

\* used_mem, which rt_memory_info reports, is what the used blocks take.
UsedCounted ==
    heap.used_mem = Cardinality(Bytes(heap, Headers \ (FreeHeaders \union {heap_end})))

\* rt_malloc returns RT_NULL only if no free block is large enough; one that the
\* request would fill to the very end of the heap is not found.
RefusesOnlyWhenFull ==
    \A request \in Sizes \ {0} :
        RT_ALIGN(request) <= mem_size_aligned /\ Found(heap, request) = None
            => \A p \in FreeHeaders : Room(heap, p) >= Size(request)
                   => p + SIZEOF_STRUCT_MEM + Size(request) = heap_end

\* The structure of the heap survives every sequence of rt_malloc, rt_free and
\* rt_realloc, the splits and the merges of plug_holes included.
HeapConsistent == BlocksApart /\ Coalesced /\ LowestFree /\ UsedCounted
=============================================================================
