------------------------------- MODULE Malloc -------------------------------
(***************************************************************************)
(* The memory allocator of the L1 heap of the cluster                      *)
(* (libc/malloc/malloc_internal.c, cl_l1_malloc.c).  Free memory is a list  *)
(* of chunks in the order of their addresses, with no data about what is    *)
(* allocated: who frees a block gives its size back.                       *)
(*                                                                         *)
(* A call to the allocator is one step, as pi_cl_l1_malloc and              *)
(* pi_cl_l1_free mask interrupts.  A call that gives the list memory its    *)
(* caller does not own overwrites what is there: the model records that as  *)
(* corrupt and stops.                                                      *)
(***************************************************************************)
EXTENDS Integers, SequencesExt

CONSTANTS
  HEAP_START, HEAP_SIZE,  \* the memory region given to __malloc_init
  Request,                \* what is asked of the allocator
  MAX_LIVE                \* a bound on the blocks given away at a time

MIN_CHUNK_SIZE == 8
SIZEOF_CHUNK == 12        \* sizeof(malloc_chunk_t)

AlignUp(n, m) == ((n + m - 1) \div m) * m
AlignDown(n, m) == (n \div m) * m

\* align is 1 for a call of __malloc, otherwise that of __malloc_align: a power of
\* two no larger than a heap.
Alignment == {1, 2, 4, 8, 16, 32, 64, 128, 256, 512, 1024, 2048, 4096, 8192,
              16384, 32768, 65536}

ASSUME RequestAssumption == Request \subseteq [size : Nat, align : Alignment]
ASSUME HeapAssumption ==
  /\ MAX_LIVE \in Nat
  /\ HEAP_START \in Nat \ {0}
  /\ HEAP_SIZE \in Nat /\ HEAP_SIZE >= 2 * MIN_CHUNK_SIZE

VARIABLES
  free,    \* the free list from first_free on
  live,    \* the blocks given to callers and not given back
  last,    \* the last request to have been answered, and the answer
  corrupt  \* memory its caller does not own was given back

vars == <<free, live, last, corrupt>>

NULL == 0

Chunk == [addr : Nat \ {0}, size : Nat]

\* room is what lies between a block and the next thing in memory.
Block == [addr : Nat \ {0}, size : Nat, room : Nat]

TypeOK ==
  /\ free \in Seq(Chunk) /\ live \subseteq Block
  /\ last \in [size : Nat, align : Nat, addr : Nat] /\ corrupt \in BOOLEAN

Up(n) == AlignUp(n, MIN_CHUNK_SIZE)

HeapAddr == Up(HEAP_START)
HeapSize == AlignDown(HEAP_SIZE - (HeapAddr - HEAP_START), MIN_CHUNK_SIZE)

\* __malloc_init.
Init ==
  /\ free = << [addr |-> HeapAddr, size |-> HeapSize] >>
  /\ live = {} /\ corrupt = FALSE
  /\ last = [size |-> 0, align |-> 1, addr |-> NULL]

(***************************************************************************)
(* __malloc and __malloc_free, on a list f and sizes that are rounded up    *)
(***************************************************************************)

End(c) == c.addr + c.size

Fits(f, n) == \E i \in DOMAIN f : f[i].size >= n

\* The first chunk that is large enough.
FirstFit(f, n) ==
  CHOOSE i \in DOMAIN f :
    /\ f[i].size >= n
    /\ \A j \in 1..(i - 1) : f[j].size < n

\* The end of the chunk is given away: the chunk itself, if it is just as large.
Taken(f, n) ==
  LET i == FirstFit(f, n) IN
  IF f[i].size = n THEN RemoveAt(f, i)
                   ELSE ReplaceAt(f, i, [f[i] EXCEPT !.size = @ - n])

Result_Start(f, n) == f[FirstFit(f, n)].addr

Result(f, n) == LET c == f[FirstFit(f, n)] IN End(c) - n

\* How many chunks the search for the place of an address passes.
Passed(f, a) ==
  CHOOSE k \in 0..Len(f) : /\ \A i \in 1..k : f[i].addr < a
                           /\ k < Len(f) => f[k + 1].addr >= a

JoinsNext_Never(f, a, n) == FALSE

\* The chunk at a touches the one behind it.
JoinsNext(f, a, n) ==
  LET k == Passed(f, a) IN k < Len(f) /\ a + n = f[k + 1].addr

\* The chunk before it touches the one at a.
JoinsPrevious(f, a) == LET k == Passed(f, a) IN k > 0 /\ End(f[k]) = a

\* The list with the chunk of n bytes at a, coalesced with its neighbours.
Freed(f, a, n) ==
  LET k == Passed(f, a)
      next == JoinsNext(f, a, n)
      chunk == [addr |-> a, size |-> IF next THEN n + f[k + 1].size ELSE n]
      f1 == IF next THEN ReplaceAt(f, k + 1, chunk) ELSE InsertAt(f, k + 1, chunk)
  IN
  IF JoinsPrevious(f, a)
    THEN RemoveAt(ReplaceAt(f1, k, [f[k] EXCEPT !.size = @ + chunk.size]), k + 1)
    ELSE f1

\* A free writes the header of the chunk and gives all of it to the list: that is
\* sound if the caller owns it, from lo up to hi.
Owned(a, n, lo, hi) == n > 0 /\ lo <= a /\ a + Up(n) <= hi

(***************************************************************************)
(* Calls                                                                   *)
(***************************************************************************)

\* The size a request is looked for with.
Need(r) == Up(IF r.align < SIZEOF_CHUNK THEN r.size
              ELSE r.size + r.align + 2 * SIZEOF_CHUNK)

Answer(r, a) == last' = [size |-> r.size, align |-> r.align, addr |-> a]

Grant(r, a, room) ==
  /\ Cardinality(live) < MAX_LIVE
  /\ Answer(r, a)
  /\ live' = live \cup {[addr |-> a, size |-> r.size, room |-> room]}

\* No chunk is large enough.
Refuse(r) ==
  /\ ~corrupt
  /\ ~Fits(free, Need(r))
  /\ Answer(r, NULL)
  /\ UNCHANGED <<free, live, corrupt>>

\* __malloc.
Malloc(r) ==
  /\ ~corrupt
  /\ r.align < SIZEOF_CHUNK /\ Fits(free, Need(r))
  /\ free' = Taken(free, Need(r))
  /\ Grant(r, Result(free, Need(r)), Need(r))
  /\ UNCHANGED corrupt

\* __malloc_align takes a larger block and frees what is before and behind the
\* aligned one.  When the room before it is too small it takes the next aligned
\* address, and goes on with the room there was before the first.
HeaderSize(r) ==
  LET result == Result(free, Need(r)) IN AlignUp(result, r.align) - result

ResultAlign(r) ==
  LET result == Result(free, Need(r))
      skip == HeaderSize(r) # 0 /\ HeaderSize(r) < SIZEOF_CHUNK
  IN AlignUp(result, r.align) + IF skip THEN r.align ELSE 0

TailAddr(r) == ResultAlign(r) + r.size

TailSize_OneHeader(r) == r.align + SIZEOF_CHUNK - HeaderSize(r)

TailSize(r) == r.align + 2 * SIZEOF_CHUNK - HeaderSize(r)

AlignSound(r) ==
  LET result == Result(free, Need(r)) IN
  /\ HeaderSize(r) # 0 => Owned(result, HeaderSize(r), result, ResultAlign(r))
  /\ Owned(TailAddr(r), TailSize(r), TailAddr(r), result + Need(r))

MallocAlign(r) ==
  LET f1 == Taken(free, Need(r))
      f2 == IF HeaderSize(r) = 0 THEN f1
            ELSE Freed(f1, Result(free, Need(r)), Up(HeaderSize(r)))
  IN
  /\ ~corrupt
  /\ r.align >= SIZEOF_CHUNK /\ Fits(free, Need(r))
  /\ IF AlignSound(r)
       THEN /\ free' = Freed(f2, TailAddr(r), Up(TailSize(r)))
            /\ Grant(r, ResultAlign(r), r.size)
            /\ UNCHANGED corrupt
       ELSE corrupt' = TRUE /\ UNCHANGED <<free, live, last>>

\* What the caller gives back is the size it asked for.
FreedSize(b) == b.size

\* __malloc_free.
Free(b) ==
  /\ ~corrupt
  /\ IF Owned(b.addr, FreedSize(b), b.addr, b.addr + b.room)
       THEN /\ free' = Freed(free, b.addr, Up(FreedSize(b)))
            /\ live' = live \ {b}
            /\ UNCHANGED <<last, corrupt>>
       ELSE corrupt' = TRUE /\ UNCHANGED <<free, live, last>>

Next ==
  \/ \E r \in Request : Refuse(r) \/ Malloc(r) \/ MallocAlign(r)
  \/ \E b \in live : Free(b)

Spec == Init /\ [][Next]_vars

(***************************************************************************)
(* Properties                                                              *)
(***************************************************************************)

\* The list is in the order of the addresses and coalesced: between two chunks
\* there is always memory that is not free.  Each chunk can hold a header, and
\* none leaves the heap (malloc_internal.c 165-206).
FreeListCoalesced ==
  /\ \A i \in DOMAIN free :
       /\ free[i].size >= MIN_CHUNK_SIZE
       /\ HeapAddr <= free[i].addr /\ End(free[i]) <= HeapAddr + HeapSize
  /\ \A i, j \in DOMAIN free : i < j => End(free[i]) < free[j].addr

Apart(a, n, b, m) == n = 0 \/ m = 0 \/ a + n <= b \/ b + m <= a

\* A block given to a caller overlaps no other block and no free chunk, from the
\* call that returns it to the one that gives it back, whatever the list went
\* through in between (malloc_internal.c 117-255).
BlocksIntact ==
  \A b \in live :
    /\ b.size <= b.room
    /\ HeapAddr <= b.addr /\ b.addr + b.room <= HeapAddr + HeapSize
    /\ \A c \in live : b # c => Apart(b.addr, b.room, c.addr, c.room)
    /\ \A i \in DOMAIN free : Apart(b.addr, b.room, free[i].addr, free[i].size)

Bytes(a, n) == a..(a + n - 1)

FreeBytes == UNION {Bytes(free[i].addr, free[i].size) : i \in DOMAIN free}
LiveBytes == UNION {Bytes(b.addr, b.room) : b \in live}

\* Every byte of the heap is in the list or in a block: no sequence of calls loses
\* memory.  (Requests for aligned blocks of sizes that are no multiple of
\* MIN_CHUNK_SIZE do.)
NothingLost == FreeBytes \cup LiveBytes = Bytes(HeapAddr, HeapSize)

\* "We reserve enough space to free the remaining room before and after the
\* aligned chunk" (malloc_internal.c 221): nothing is freed that is not owned.
NoCorruption == ~corrupt

=============================================================================
