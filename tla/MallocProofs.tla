---------------------------- MODULE MallocProofs ----------------------------
(***************************************************************************)
(* For any heap and any requests, the free list stays ordered and           *)
(* coalesced, no block overlaps another or a free chunk, and the allocator  *)
(* implements HeapService; and which calls corrupt memory, and that no     *)
(* other does.                                                             *)
(***************************************************************************)
EXTENDS MallocRefinement, SequenceTheorems, WellFoundedInduction, TLAPS

(***************************************************************************)
(* Numbers                                                                 *)
(***************************************************************************)

\* Rounding up reaches the next multiple of MIN_CHUNK_SIZE.
LEMMA UpFacts ==
  ASSUME NEW n \in Nat
  PROVE  /\ Up(n) \in Nat /\ n <= Up(n) /\ Up(n) % 8 = 0
         /\ n > 0 => Up(n) >= 8
         /\ n % 8 = 0 => Up(n) = n
BY Z3 DEF Up, AlignUp, MIN_CHUNK_SIZE

\* A set of numbers has a least one.
LEMMA LeastNumber ==
  ASSUME NEW T, T \subseteq Nat, T # {}
  PROVE  \E x \in T : \A y \in T : x <= y
<1>1. PICK x \in T : \A y \in T : <<y, x>> \notin OpToRel(<, Nat)
  BY NatLessThanWellFounded, WFMin, Zenon
<1>2. \A y \in T : ~(y < x)
  BY <1>1 DEF OpToRel
<1> QED
  BY <1>2

(***************************************************************************)
(* Sequences                                                               *)
(***************************************************************************)

\* The list f with the 1 + d elements behind the first p replaced by the chunk c.
Splice(f, p, c, d) ==
  [j \in 1..(Len(f) - d) |-> IF j <= p THEN f[j] ELSE IF j = p + 1 THEN c ELSE f[j + d]]

IsSplice(g, S, f, p, c, d) ==
  /\ g \in Seq(S)
  /\ Len(g) = Len(f) - d
  /\ \A j \in 1..(Len(f) - d) :
       g[j] = IF j <= p THEN f[j] ELSE IF j = p + 1 THEN c ELSE f[j + d]

LEMMA SpliceSeq ==
  ASSUME NEW S, NEW f \in Seq(S), NEW c \in S,
         NEW p \in 0..Len(f), NEW d \in {-1, 0, 1}, p + 1 + d <= Len(f)
  PROVE  IsSplice(Splice(f, p, c, d), S, f, p, c, d)
<1>1. PICK n \in Nat : n = Len(f) - d
  OBVIOUS
<1>2. Splice(f, p, c, d) \in [1..n -> S]
  <2> SUFFICES ASSUME NEW j \in 1..n
               PROVE  (IF j <= p THEN f[j] ELSE IF j = p + 1 THEN c ELSE f[j + d]) \in S
    BY <1>1 DEF Splice
  <2> QED
    BY <1>1
<1>3. Splice(f, p, c, d) \in UNION {[1..m -> S] : m \in Nat}
  BY <1>2
<1>4. Splice(f, p, c, d) \in Seq(S)
  BY <1>3, SeqDef
<1> QED
  BY <1>1, <1>2, <1>4 DEF Splice, IsSplice

LEMMA ReplaceAtSplice ==
  ASSUME NEW S, NEW f \in Seq(S), NEW p \in 0..Len(f), p < Len(f), NEW c \in S
  PROVE  ReplaceAt(f, p + 1, c) = Splice(f, p, c, 0)
<1>1. Len(f) - 0 = Len(f) /\ Len(f) \in Nat /\ DOMAIN f = 1..Len(f)
  OBVIOUS
<1>2. \A j \in 1..Len(f) :
        (IF j <= p THEN f[j] ELSE IF j = p + 1 THEN c ELSE f[j + 0])
        = IF j = p + 1 THEN c ELSE f[j]
  OBVIOUS
<1>3. Splice(f, p, c, 0) = [j \in 1..Len(f) |-> IF j = p + 1 THEN c ELSE f[j]]
  BY <1>1, <1>2 DEF Splice
<1>4. ReplaceAt(f, p + 1, c) = [j \in 1..Len(f) |-> IF j = p + 1 THEN c ELSE f[j]]
  BY <1>1 DEF ReplaceAt
<1> QED
  BY <1>3, <1>4

LEMMA InsertAtFacts ==
  ASSUME NEW S, NEW f \in Seq(S), NEW i \in 1..(Len(f) + 1), NEW c \in S
  PROVE  /\ InsertAt(f, i, c) \in Seq(S)
         /\ Len(InsertAt(f, i, c)) = Len(f) + 1
         /\ \A j \in 1..(Len(f) + 1) :
              InsertAt(f, i, c)[j] =
                IF j < i THEN f[j] ELSE IF j = i THEN c ELSE f[j - 1]
<1> DEFINE a == SubSeq(f, 1, i - 1)  b == SubSeq(f, i, Len(f))  d == a \o <<c>>
<1>1. /\ a \in Seq(S) /\ Len(a) = i - 1
      /\ \A j \in 1..(i - 1) : a[j] = f[j]
  OBVIOUS
<1>2. /\ b \in Seq(S) /\ Len(b) = Len(f) - i + 1
      /\ \A j \in 1..(Len(f) - i + 1) : b[j] = f[j + i - 1]
  OBVIOUS
<1>3. <<c>> \in Seq(S) /\ Len(<<c>>) = 1 /\ <<c>>[1] = c
  OBVIOUS
<1> HIDE DEF a, b
<1>4. /\ d \in Seq(S) /\ Len(d) = i
      /\ \A j \in 1..i : d[j] = IF j < i THEN a[j] ELSE c
  BY <1>1, <1>3
<1> HIDE DEF d
<1>5. /\ d \o b \in Seq(S) /\ Len(d \o b) = Len(d) + Len(b)
      /\ \A j \in 1..(Len(d) + Len(b)) :
           (d \o b)[j] = IF j <= Len(d) THEN d[j] ELSE b[j - Len(d)]
  BY <1>2, <1>4, ConcatProperties
<1>6. InsertAt(f, i, c) = d \o b
  BY DEF InsertAt, a, b, d
<1> DEFINE e == d \o b
<1> HIDE DEF e
<1>7. /\ e \in Seq(S) /\ Len(e) = Len(f) + 1
      /\ \A j \in 1..(Len(f) + 1) :
           e[j] = IF j < i THEN f[j] ELSE IF j = i THEN c ELSE f[j - 1]
  <2>1. Len(d) = i /\ Len(b) = Len(f) - i + 1 /\ Len(f) \in Nat
    BY <1>2, <1>4
  <2>2. ASSUME NEW j \in 1..(Len(f) + 1), j < i  PROVE  e[j] = f[j]
    BY <1>1, <1>4, <1>5, <2>1, <2>2 DEF e
  <2>3. e[i] = c
    BY <1>4, <1>5, <2>1 DEF e
  <2>4. ASSUME NEW j \in 1..(Len(f) + 1), j > i  PROVE  e[j] = f[j - 1]
    BY <1>2, <1>5, <2>1, <2>4 DEF e
  <2> QED
    BY <1>5, <2>1, <2>2, <2>3, <2>4 DEF e
<1> QED
  BY <1>6, <1>7 DEF e

LEMMA RemoveAtFacts ==
  ASSUME NEW S, NEW f \in Seq(S), NEW i \in 1..Len(f)
  PROVE  /\ RemoveAt(f, i) \in Seq(S)
         /\ Len(RemoveAt(f, i)) = Len(f) - 1
         /\ \A j \in 1..(Len(f) - 1) :
              RemoveAt(f, i)[j] = IF j < i THEN f[j] ELSE f[j + 1]
<1> DEFINE a == SubSeq(f, 1, i - 1)  b == SubSeq(f, i + 1, Len(f))
<1>1. /\ a \in Seq(S) /\ Len(a) = i - 1
      /\ \A j \in 1..(i - 1) : a[j] = f[j]
  OBVIOUS
<1>2. /\ b \in Seq(S) /\ Len(b) = Len(f) - i
      /\ \A j \in 1..(Len(f) - i) : b[j] = f[j + i]
  OBVIOUS
<1> HIDE DEF a, b
<1>3. /\ a \o b \in Seq(S) /\ Len(a \o b) = Len(a) + Len(b)
      /\ \A j \in 1..(Len(a) + Len(b)) :
           (a \o b)[j] = IF j <= Len(a) THEN a[j] ELSE b[j - Len(a)]
  BY <1>1, <1>2, ConcatProperties
<1>4. RemoveAt(f, i) = a \o b
  BY DEF RemoveAt, a, b
<1> DEFINE e == a \o b
<1> HIDE DEF e
<1>5. /\ e \in Seq(S) /\ Len(e) = Len(f) - 1
      /\ \A j \in 1..(Len(f) - 1) : e[j] = IF j < i THEN f[j] ELSE f[j + 1]
  BY <1>1, <1>2, <1>3 DEF e
<1> QED
  BY <1>4, <1>5 DEF e

(***************************************************************************)
(* Free lists                                                              *)
(***************************************************************************)

HeapEnd == HeapAddr + HeapSize

\* A whole number of units.
Units(n) == n % MIN_CHUNK_SIZE = 0

\* What is asked for with an alignment of its own is of whole units.
Aligned == \A r \in Request : r.align >= SIZEOF_CHUNK => Units(r.size)

\* Then every address is on a unit.
Placed(a) == Aligned => Units(a)

ChunkOK(c) ==
  /\ c \in Chunk /\ Placed(c.addr)
  /\ c.size >= MIN_CHUNK_SIZE /\ Units(c.size)
  /\ HeapAddr <= c.addr /\ End(c) <= HeapEnd

\* What __malloc and __malloc_free keep true of the list.
ListOK(f) ==
  /\ f \in Seq(Chunk)
  /\ \A i \in 1..Len(f) : ChunkOK(f[i])
  /\ \A i, j \in 1..Len(f) : i < j => End(f[i]) < f[j].addr

\* No chunk of the list holds a byte of the n at a.
Clear(f, a, n) == \A i \in 1..Len(f) : Apart(a, n, f[i].addr, f[i].size)

\* A region the list may be given.
Region(a, n) ==
  /\ a \in Nat \ {0} /\ n \in Nat /\ Placed(a)
  /\ n >= MIN_CHUNK_SIZE /\ Units(n)
  /\ HeapAddr <= a /\ a + n <= HeapEnd

LEMMA HeapFacts ==
  /\ HeapAddr \in Nat \ {0} /\ HeapSize \in Nat /\ HeapEnd \in Nat
  /\ HeapSize >= 8 /\ Units(HeapSize) /\ Placed(HeapAddr)
<1>1. /\ HEAP_START \in Nat \ {0} /\ HEAP_SIZE \in Nat /\ HEAP_SIZE >= 16
  BY HeapAssumption DEF MIN_CHUNK_SIZE
<1>2. HeapAddr \in Nat /\ HEAP_START <= HeapAddr /\ HeapAddr < HEAP_START + 8
  BY <1>1, Z3 DEF HeapAddr, Up, AlignUp, MIN_CHUNK_SIZE
<1>3. PICK n \in Nat : n = HEAP_SIZE - (HeapAddr - HEAP_START) /\ n > 8
  BY <1>1, <1>2
<1>4. HeapSize = (n \div 8) * 8
  BY <1>3 DEF HeapSize, AlignDown, MIN_CHUNK_SIZE
<1>5. (n \div 8) * 8 \in Nat /\ (n \div 8) * 8 >= 8 /\ ((n \div 8) * 8) % 8 = 0
  BY <1>3, Z3
<1>6. Placed(HeapAddr)
  BY <1>1, UpFacts DEF HeapAddr, Placed, Units, MIN_CHUNK_SIZE
<1> QED
  BY <1>1, <1>2, <1>4, <1>5, <1>6 DEF HeapEnd, Units, MIN_CHUNK_SIZE

LEMMA ChunkFacts ==
  ASSUME NEW c, ChunkOK(c)
  PROVE  /\ c \in Chunk
         /\ c.addr \in Nat \ {0} /\ c.size \in Nat /\ c.size >= 8 /\ Units(c.size)
         /\ End(c) = c.addr + c.size
         /\ HeapAddr <= c.addr /\ c.addr + c.size <= HeapEnd /\ Placed(c.addr)
BY DEF ChunkOK, Chunk, End, MIN_CHUNK_SIZE

\* The chunks of a list one by one.
LEMMA ListFacts ==
  ASSUME NEW f, ListOK(f)
  PROVE  /\ f \in Seq(Chunk) /\ Len(f) \in Nat
         /\ \A i \in 1..Len(f) :
              /\ ChunkOK(f[i])
              /\ f[i].addr \in Nat /\ End(f[i]) \in Nat /\ f[i].addr < End(f[i])
         /\ \A i, j \in 1..Len(f) : i < j => End(f[i]) < f[j].addr
<1>1. f \in Seq(Chunk) /\ Len(f) \in Nat
  BY DEF ListOK
<1>2. ASSUME NEW i \in 1..Len(f)
      PROVE  /\ ChunkOK(f[i])
             /\ f[i].addr \in Nat /\ End(f[i]) \in Nat /\ f[i].addr < End(f[i])
  <2>1. ChunkOK(f[i])
    BY DEF ListOK
  <2> QED
    BY <2>1, ChunkFacts
<1>3. \A i, j \in 1..Len(f) : i < j => End(f[i]) < f[j].addr
  BY DEF ListOK
<1> QED
  BY <1>1, <1>2, <1>3

\* A list in which one chunk takes the place of those between p and q is a list
\* if the chunk fits between p and q.
LEMMA SpliceFacts ==
  ASSUME NEW f, ListOK(f), NEW p \in 0..Len(f), NEW d \in {-1, 0, 1},
         p + 1 + d <= Len(f),
         NEW c, ChunkOK(c),
         p > 0 => End(f[p]) < c.addr,
         p + 1 + d < Len(f) => End(c) < f[p + 2 + d].addr
  PROVE  /\ ListOK(Splice(f, p, c, d))
         /\ \A a, n \in Nat :
              /\ Apart(a, n, c.addr, c.size)
              /\ \A i \in 1..Len(f) :
                   i <= p \/ i > p + 1 + d => Apart(a, n, f[i].addr, f[i].size)
              <=> Clear(Splice(f, p, c, d), a, n)
<1> DEFINE g == Splice(f, p, c, d)
<1>1. f \in Seq(Chunk) /\ c \in Chunk
  BY ListFacts, ChunkFacts
<1>2. IsSplice(g, Chunk, f, p, c, d)
  BY <1>1, SpliceSeq, Zenon
<1> HIDE DEF g
<1>3. PICK m \in Nat, len \in Nat, q \in Nat :
        m = Len(f) /\ len = m - d /\ q = p + 2 + d
  BY <1>1
<1>4. p \in 0..m /\ q \in (p + 1)..(m + 1) /\ p \in Nat
  BY <1>3
<1>5. g \in Seq(Chunk) /\ Len(g) = len
  BY <1>2, <1>3 DEF IsSplice
<1>6. /\ \A j \in 1..len : j <= p => g[j] = f[j]
      /\ \A j \in 1..len : j = p + 1 => g[j] = c
      /\ \A j \in 1..len : j > p + 1 => g[j] = f[j + d] /\ j + d \in q..m
  <2> SUFFICES ASSUME NEW j \in 1..len
               PROVE  /\ j <= p => g[j] = f[j]
                      /\ j = p + 1 => g[j] = c
                      /\ j > p + 1 => g[j] = f[j + d] /\ j + d \in q..m
    OBVIOUS
  <2>1. g[j] = IF j <= p THEN f[j] ELSE IF j = p + 1 THEN c ELSE f[j + d]
    BY <1>2, <1>3 DEF IsSplice
  <2>2. j > p + 1 => j + d \in q..m
    BY <1>3, <1>4
  <2> QED
    BY <1>4, <2>1, <2>2
<1>7. /\ \A i \in 1..m : ChunkOK(f[i]) /\ f[i].addr \in Nat /\ End(f[i]) \in Nat
                         /\ f[i].addr < End(f[i])
      /\ \A i, j \in 1..m : i < j => End(f[i]) < f[j].addr
  BY <1>3, ListFacts
<1>8. c.addr \in Nat /\ End(c) \in Nat /\ c.addr < End(c)
  BY ChunkFacts
<1>9. \A i \in 1..p : End(f[i]) < c.addr
  <2> TAKE i \in 1..p
  <2>1. End(f[p]) < c.addr /\ i \in 1..m /\ p \in 1..m
    BY <1>4
  <2>2. CASE i = p
    BY <2>1, <2>2
  <2>3. CASE i < p
    <3>1. End(f[i]) < f[p].addr /\ f[p].addr < End(f[p])
      BY <1>7, <2>1, <2>3
    <3> QED
      BY <1>7, <1>8, <2>1, <3>1
  <2> QED
    BY <1>4, <2>2, <2>3
<1>10. \A i \in q..m : End(c) < f[i].addr
  <2> TAKE i \in q..m
  <2>1. End(c) < f[q].addr /\ i \in 1..m /\ q \in 1..m
    BY <1>3, <1>4
  <2>2. CASE i = q
    BY <2>1, <2>2
  <2>3. CASE i > q
    <3>1. End(f[q]) < f[i].addr /\ f[q].addr < End(f[q])
      BY <1>7, <2>1, <2>3
    <3>2. f[q].addr \in Nat /\ End(f[q]) \in Nat /\ f[i].addr \in Nat
      BY <1>7, <2>1
    <3>3. f[q].addr < f[i].addr
      BY <3>1, <3>2
    <3> QED
      BY <1>8, <2>1, <3>2, <3>3
  <2> QED
    BY <1>4, <2>2, <2>3
<1>11. ASSUME NEW i \in 1..len, NEW j \in 1..len, i < j  PROVE  End(g[i]) < g[j].addr
  <2>1. CASE j <= p
    <3>1. g[i] = f[i] /\ g[j] = f[j] /\ i \in 1..m /\ j \in 1..m
      BY <1>4, <1>6, <1>11, <2>1
    <3> QED
      BY <1>7, <1>11, <3>1
  <2>2. CASE j = p + 1
    <3>1. g[i] = f[i] /\ g[j] = c /\ i \in 1..p
      BY <1>4, <1>6, <1>11, <2>2
    <3> QED
      BY <1>9, <3>1
  <2>3. CASE j > p + 1
    <3>1. g[j] = f[j + d] /\ j + d \in q..m /\ j + d \in 1..m
      BY <1>4, <1>6, <2>3
    <3>2. CASE i <= p
      <4>1. g[i] = f[i] /\ i < j + d /\ i \in 1..m
        BY <1>4, <1>6, <3>1, <3>2
      <4> QED
        BY <1>7, <3>1, <4>1
    <3>3. CASE i = p + 1
      <4>1. g[i] = c
        BY <1>6, <3>3
      <4> QED
        BY <1>10, <3>1, <4>1
    <3>4. CASE i > p + 1
      <4>1. g[i] = f[i + d] /\ i + d \in q..m /\ i + d \in 1..m
        BY <1>4, <1>6, <3>4
      <4>2. i + d < j + d
        BY <1>3, <1>11
      <4> QED
        BY <1>7, <3>1, <4>1, <4>2
    <3> QED
      BY <1>4, <3>2, <3>3, <3>4
  <2> QED
    BY <1>4, <2>1, <2>2, <2>3
<1>12. \A j \in 1..len : g[j] = c \/ \E i \in 1..m : (i <= p \/ i > p + 1 + d) /\ g[j] = f[i]
  <2> TAKE j \in 1..len
  <2>1. CASE j <= p
    <3>1. j \in 1..m /\ g[j] = f[j]
      BY <1>4, <1>6, <2>1
    <3> QED
      BY <2>1, <3>1, Zenon
  <2>2. CASE j = p + 1
    BY <1>6, <2>2
  <2>3. CASE j > p + 1
    <3>1. g[j] = f[j + d] /\ j + d \in 1..m /\ j + d > p + 1 + d
      BY <1>4, <1>6, <2>3
    <3> QED
      BY <3>1, Zenon
  <2> QED
    BY <1>4, <2>1, <2>2, <2>3
<1>13. \A j \in 1..len : ChunkOK(g[j])
  BY <1>7, <1>12
<1>14. ListOK(g)
  BY <1>5, <1>11, <1>13 DEF ListOK
<1>15. ASSUME NEW a \in Nat, NEW n \in Nat, Apart(a, n, c.addr, c.size),
              \A i \in 1..Len(f) : i <= p \/ i > p + 1 + d => Apart(a, n, f[i].addr, f[i].size)
       PROVE  Clear(g, a, n)
  BY <1>3, <1>5, <1>12, <1>15 DEF Clear
<1>16. p + 1 \in 1..len /\ g[p + 1] = c
  <2>1. p + 1 \in 1..len
    BY <1>3, <1>4
  <2> QED
    BY <1>6, <2>1
<1>17. ASSUME NEW i \in 1..m, i <= p \/ i > p + 1 + d
       PROVE  \E j \in 1..len : g[j] = f[i]
  <2>1. CASE i <= p
    <3>1. i \in 1..len
      BY <1>3, <1>4, <2>1
    <3> QED
      BY <1>6, <2>1, <3>1
  <2>2. CASE i > p + 1 + d
    <3>1. i - d \in 1..len /\ i - d > p + 1 /\ (i - d) + d = i
      BY <1>3, <1>4, <2>2
    <3>2. g[i - d] = f[(i - d) + d]
      BY <1>6, <3>1
    <3> QED
      BY <3>1, <3>2
  <2> QED
    BY <1>17, <2>1, <2>2
<1>18. ASSUME NEW a \in Nat, NEW n \in Nat, Clear(g, a, n)
       PROVE  /\ Apart(a, n, c.addr, c.size)
              /\ \A i \in 1..Len(f) :
                   i <= p \/ i > p + 1 + d => Apart(a, n, f[i].addr, f[i].size)
  BY <1>3, <1>5, <1>16, <1>17, <1>18 DEF Clear
<1> QED
  BY <1>14, <1>15, <1>18 DEF g

LEMMA ApartFar ==
  ASSUME NEW a \in Nat, NEW n \in Nat, NEW b \in Nat, NEW m \in Nat,
         a + n < b \/ b + m < a
  PROVE  Apart(a, n, b, m)
BY DEF Apart

\* A list without one of its chunks is a list.
LEMMA RemovedFacts ==
  ASSUME NEW f, ListOK(f), NEW i \in 1..Len(f)
  PROVE  /\ ListOK(RemoveAt(f, i))
         /\ \A a, n \in Nat : Clear(f, a, n) => Clear(RemoveAt(f, i), a, n)
         /\ \A a, n \in Nat :
              Clear(RemoveAt(f, i), a, n) /\ Apart(a, n, f[i].addr, f[i].size) => Clear(f, a, n)
         /\ Clear(RemoveAt(f, i), f[i].addr, f[i].size)
<1> DEFINE g == RemoveAt(f, i)
<1>1. f \in Seq(Chunk)
  BY ListFacts
<1>2. /\ g \in Seq(Chunk) /\ Len(g) = Len(f) - 1
      /\ \A j \in 1..(Len(f) - 1) : g[j] = IF j < i THEN f[j] ELSE f[j + 1]
  BY <1>1, RemoveAtFacts
<1> HIDE DEF g
<1>3. PICK m \in Nat : m = Len(f) /\ Len(g) = m - 1 /\ i \in 1..m
  BY <1>1, <1>2
<1>4. \A j \in 1..(m - 1) : \/ j < i /\ g[j] = f[j]
                            \/ j >= i /\ g[j] = f[j + 1]
  BY <1>2, <1>3
<1>5. /\ \A k \in 1..m : ChunkOK(f[k]) /\ f[k].addr \in Nat /\ End(f[k]) \in Nat
                         /\ f[k].addr < End(f[k])
      /\ \A k, l \in 1..m : k < l => End(f[k]) < f[l].addr
  BY <1>3, ListFacts
<1>6. \A j \in 1..(m - 1) : \E k \in 1..m : k # i /\ g[j] = f[k]
  <2> TAKE j \in 1..(m - 1)
  <2>1. CASE j < i
    BY <1>3, <1>4, <2>1
  <2>2. CASE j >= i
    <3>1. j + 1 \in 1..m /\ j + 1 # i /\ g[j] = f[j + 1]
      BY <1>3, <1>4, <2>2
    <3> QED
      BY <3>1, Zenon
  <2> QED
    BY <1>3, <2>1, <2>2
<1>7. ASSUME NEW j \in 1..(m - 1), NEW l \in 1..(m - 1), j < l
      PROVE  End(g[j]) < g[l].addr
  <2>1. CASE l < i
    <3>1. g[j] = f[j] /\ g[l] = f[l] /\ j \in 1..m /\ l \in 1..m
      BY <1>3, <1>4, <1>7, <2>1
    <3> QED
      BY <1>5, <1>7, <3>1
  <2>2. CASE l >= i
    <3>1. g[l] = f[l + 1] /\ l + 1 \in 1..m
      <4>1. l + 1 \in 1..m /\ ~(l < i)
        BY <1>3, <2>2
      <4> QED
        BY <1>4, <4>1
    <3>2. PICK k \in 1..m : k < l + 1 /\ g[j] = f[k]
      <4>1. CASE j < i
        BY <1>3, <1>4, <1>7, <4>1
      <4>2. CASE j >= i
        <5>1. j + 1 \in 1..m /\ j + 1 < l + 1 /\ g[j] = f[j + 1]
          BY <1>3, <1>4, <1>7, <4>2
        <5> QED
          BY <5>1, Zenon
      <4> QED
        BY <1>3, <4>1, <4>2
    <3> QED
      BY <1>5, <3>1, <3>2
  <2> QED
    BY <1>3, <2>1, <2>2
<1>8. \A j \in 1..(m - 1) : ChunkOK(g[j])
  BY <1>5, <1>6
<1>9. ListOK(g)
  BY <1>2, <1>3, <1>7, <1>8 DEF ListOK
<1>10. \A a, n \in Nat : Clear(f, a, n) => Clear(g, a, n)
  BY <1>3, <1>6 DEF Clear
<1>11. ASSUME NEW j \in 1..(m - 1)
       PROVE  Apart(f[i].addr, f[i].size, g[j].addr, g[j].size)
  <2>1. PICK k \in 1..m : k # i /\ g[j] = f[k]
    BY <1>6
  <2>2. End(f[i]) < f[k].addr \/ End(f[k]) < f[i].addr
    BY <1>3, <1>5, <2>1
  <2>3. /\ End(f[i]) = f[i].addr + f[i].size /\ End(f[k]) = f[k].addr + f[k].size
        /\ f[i].addr \in Nat /\ f[i].size \in Nat /\ f[k].addr \in Nat /\ f[k].size \in Nat
    BY <1>3, <1>5, ChunkFacts
  <2>4. PICK a \in Nat, n \in Nat, b \in Nat, l \in Nat :
          /\ a = f[i].addr /\ n = f[i].size /\ b = f[k].addr /\ l = f[k].size
          /\ a + n < b \/ b + l < a
    BY <2>2, <2>3
  <2>5. Apart(a, n, b, l)
    BY <2>4, ApartFar
  <2> QED
    BY <2>1, <2>4, <2>5
<1>12. \A k \in 1..m : k # i => \E j \in 1..(m - 1) : g[j] = f[k]
  <2> TAKE k \in 1..m
  <2>1. CASE k < i
    <3>1. k \in 1..(m - 1)
      BY <1>3, <2>1
    <3> QED
      BY <1>4, <2>1, <3>1
  <2>2. CASE k > i
    <3>1. k - 1 \in 1..(m - 1) /\ ~(k - 1 < i) /\ (k - 1) + 1 = k
      BY <1>3, <2>2
    <3>2. g[k - 1] = f[(k - 1) + 1]
      BY <1>4, <3>1
    <3> QED
      BY <3>1, <3>2
  <2> QED
    BY <1>3, <2>1, <2>2
<1>13. ASSUME NEW a \in Nat, NEW n \in Nat, Clear(g, a, n),
              Apart(a, n, f[i].addr, f[i].size)
       PROVE  Clear(f, a, n)
  BY <1>3, <1>12, <1>13 DEF Clear
<1> QED
  BY <1>3, <1>9, <1>10, <1>11, <1>13 DEF g, Clear

(***************************************************************************)
(* __malloc takes a chunk                                                  *)
(***************************************************************************)

LEMMA FirstFitFacts ==
  ASSUME NEW f, ListOK(f), NEW n \in Nat, Fits(f, n)
  PROVE  FirstFit(f, n) \in 1..Len(f) /\ f[FirstFit(f, n)].size >= n
<1> DEFINE T == {i \in 1..Len(f) : f[i].size >= n}
<1>1. DOMAIN f = 1..Len(f) /\ Len(f) \in Nat
  BY ListFacts, LenProperties
<1>2. PICK i \in T : \A j \in T : i <= j
  <2>1. T \subseteq Nat /\ T # {}
    BY <1>1 DEF Fits
  <2> HIDE DEF T
  <2> QED
    BY <2>1, LeastNumber
<1>3. \A j \in 1..Len(f) : f[j].size \in Nat
  BY ListFacts, ChunkFacts
<1>4. \A j \in 1..(i - 1) : f[j].size < n
  <2> TAKE j \in 1..(i - 1)
  <2>1. j \in 1..Len(f) /\ j \notin T
    BY <1>1, <1>2
  <2> QED
    BY <1>3, <2>1
<1> QED
  BY <1>1, <1>2, <1>4 DEF FirstFit

\* Two regions that touch.
LEMMA ApartJoin ==
  ASSUME NEW a \in Nat, NEW n \in Nat, NEW x \in Nat, NEW y \in Nat, NEW z \in Nat,
         y > 0, z > 0, Apart(a, n, x, y), Apart(a, n, x + y, z)
  PROVE  Apart(a, n, x, y + z)
BY DEF Apart

\* The list a request leaves is a list, and the chunk it is given was free, is free
\* no more, and does not touch what was not free before.
LEMMA TakenFacts ==
  ASSUME NEW f, ListOK(f), NEW n \in Nat, Units(n), Fits(f, n)
  PROVE  /\ ListOK(Taken(f, n))
         /\ Result(f, n) \in Nat \ {0}
         /\ HeapAddr <= Result(f, n) /\ Result(f, n) + n <= HeapEnd
         /\ Placed(Result(f, n))
         /\ \A y \in Nat : Result(f, n) <= y /\ y < Result(f, n) + n => ~Clear(f, y, 1)
         /\ Clear(Taken(f, n), Result(f, n), n)
         /\ \A a, m \in Nat :
              Clear(f, a, m) <=> Clear(Taken(f, n), a, m) /\ Apart(a, m, Result(f, n), n)
<1> DEFINE i == FirstFit(f, n)  rest == [f[i] EXCEPT !.size = @ - n]
<1>1. i \in 1..Len(f) /\ f[i].size >= n
  BY FirstFitFacts
<1>2. Result(f, n) = End(f[i]) - n
  BY DEF Result
<1>3. Taken(f, n) = IF f[i].size = n THEN RemoveAt(f, i) ELSE ReplaceAt(f, i, rest)
  BY DEF Taken
<1> HIDE DEF i
<1>4. /\ f \in Seq(Chunk) /\ Len(f) \in Nat /\ ChunkOK(f[i])
      /\ \A j \in 1..Len(f) : ChunkOK(f[j])
  BY <1>1, ListFacts
<1>5. /\ f[i] \in Chunk /\ f[i].addr \in Nat \ {0} /\ f[i].size \in Nat
      /\ f[i].size >= 8 /\ Units(f[i].size) /\ End(f[i]) = f[i].addr + f[i].size
      /\ HeapAddr <= f[i].addr /\ f[i].addr + f[i].size <= HeapEnd /\ Placed(f[i].addr)
  BY <1>4, ChunkFacts
<1>6. PICK x \in Nat \ {0}, z \in Nat : x = f[i].addr /\ z = f[i].size
  BY <1>5
<1>7. Result(f, n) = (x + z) - n /\ n <= z
  BY <1>1, <1>2, <1>5, <1>6
<1>8. /\ Result(f, n) \in Nat \ {0}
      /\ HeapAddr <= Result(f, n) /\ Result(f, n) + n <= HeapEnd
      /\ Placed(Result(f, n))
      /\ \A y \in Nat : Result(f, n) <= y /\ y < Result(f, n) + n => ~Clear(f, y, 1)
  <2>1. /\ Result(f, n) \in Nat \ {0}
        /\ HeapAddr <= Result(f, n) /\ Result(f, n) + n <= HeapEnd
    BY <1>5, <1>6, <1>7, HeapFacts
  <2>2. Aligned => ((x + z) - n) % 8 = 0
    <3> SUFFICES ASSUME Aligned  PROVE  ((x + z) - n) % 8 = 0
      OBVIOUS
    <3>1. x % 8 = 0 /\ z % 8 = 0 /\ n % 8 = 0
      BY <1>5, <1>6 DEF Placed, Units, MIN_CHUNK_SIZE
    <3> QED
      BY <1>7, <3>1, Z3
  <2>3. ASSUME NEW y \in Nat, Result(f, n) <= y, y < Result(f, n) + n  PROVE  ~Clear(f, y, 1)
    <3>1. ~Apart(y, 1, x, z)
      BY <1>7, <2>3 DEF Apart
    <3> QED
      BY <1>1, <1>6, <3>1 DEF Clear
  <2> QED
    BY <1>7, <2>1, <2>2, <2>3 DEF Placed, Units, MIN_CHUNK_SIZE
<1>9. ASSUME NEW a \in Nat, NEW m \in Nat, Clear(f, a, m)  PROVE  Apart(a, m, Result(f, n), n)
  <2>1. Apart(a, m, x, z)
    BY <1>1, <1>6, <1>9 DEF Clear
  <2> QED
    BY <1>7, <2>1 DEF Apart
<1>10. CASE z = n
  <2>1. Taken(f, n) = RemoveAt(f, i) /\ Result(f, n) = x
    BY <1>3, <1>6, <1>7, <1>10
  <2>2. /\ ListOK(RemoveAt(f, i))
        /\ \A a, m \in Nat : Clear(f, a, m) => Clear(RemoveAt(f, i), a, m)
        /\ \A a, m \in Nat : Clear(RemoveAt(f, i), a, m) /\ Apart(a, m, x, n) => Clear(f, a, m)
        /\ Clear(RemoveAt(f, i), x, n)
    <3>1. f[i].addr = x /\ f[i].size = n
      BY <1>6, <1>10
    <3>2. /\ ListOK(RemoveAt(f, i))
          /\ \A a, m \in Nat : Clear(f, a, m) => Clear(RemoveAt(f, i), a, m)
          /\ \A a, m \in Nat :
               Clear(RemoveAt(f, i), a, m) /\ Apart(a, m, f[i].addr, f[i].size) => Clear(f, a, m)
          /\ Clear(RemoveAt(f, i), f[i].addr, f[i].size)
      BY <1>1, RemovedFacts, Zenon
    <3> QED
      BY <3>1, <3>2
  <2> QED
    BY <1>8, <1>9, <2>1, <2>2
<1>11. CASE z # n
  <2>1. rest = [addr |-> x, size |-> z - n]
    BY <1>5, <1>6 DEF Chunk
  <2>2. z - n \in Nat /\ z - n >= 8 /\ Units(z - n)
    <3>1. n % 8 = 0 /\ z % 8 = 0
      BY <1>5, <1>6 DEF Units, MIN_CHUNK_SIZE
    <3>2. z - n \in Nat /\ z - n >= 8 /\ (z - n) % 8 = 0
      BY <1>6, <1>7, <1>11, <3>1, Z3
    <3> QED
      BY <3>2 DEF Units, MIN_CHUNK_SIZE
  <2>3. ChunkOK(rest)
    BY <1>5, <1>6, <2>1, <2>2, HeapFacts DEF ChunkOK, Chunk, End, MIN_CHUNK_SIZE
  <2>4. rest.addr = x /\ rest.size = z - n /\ End(rest) = (x + z) - n /\ rest \in Chunk
    BY <2>1, <2>3 DEF ChunkOK, End
  <2> HIDE DEF rest
  <2>5. PICK p \in 0..Len(f) : i = p + 1 /\ p < Len(f) /\ p + 1 + 0 <= Len(f)
    BY <1>1, <1>4
  <2>6. Taken(f, n) = Splice(f, p, rest, 0)
    BY <1>1, <1>3, <1>4, <1>6, <1>11, <2>4, <2>5, ReplaceAtSplice
  <2>7. /\ \A j \in 1..Len(f) : f[j].addr \in Nat /\ End(f[j]) \in Nat
        /\ \A j, k \in 1..Len(f) : j < k => End(f[j]) < f[k].addr
    BY ListFacts
  <2>8. p > 0 => End(f[p]) < rest.addr
    <3> SUFFICES ASSUME p > 0  PROVE  End(f[p]) < rest.addr
      OBVIOUS
    <3>1. p \in 1..Len(f) /\ p < i
      BY <1>1, <1>4, <2>5
    <3> QED
      BY <1>1, <1>6, <2>4, <2>7, <3>1
  <2>9. p + 1 + 0 < Len(f) => End(rest) < f[p + 2 + 0].addr
    <3> SUFFICES ASSUME p + 1 + 0 < Len(f)  PROVE  End(rest) < f[p + 2 + 0].addr
      OBVIOUS
    <3>1. i + 1 \in 1..Len(f) /\ i < i + 1 /\ p + 2 + 0 = i + 1
      BY <1>1, <1>4, <2>5
    <3>2. PICK y \in Nat : y = f[i + 1].addr /\ x + z < y
      BY <1>1, <1>5, <1>6, <2>7, <3>1
    <3>3. (x + z) - n < y
      <4>1. x + z \in Nat /\ (x + z) - n <= x + z
        OBVIOUS
      <4> QED
        BY <3>2, <4>1
    <3> QED
      BY <2>4, <3>1, <3>2, <3>3
  <2>10. /\ ListOK(Splice(f, p, rest, 0))
         /\ \A a, m \in Nat :
              /\ Apart(a, m, rest.addr, rest.size)
              /\ \A j \in 1..Len(f) :
                   j <= p \/ j > p + 1 + 0 => Apart(a, m, f[j].addr, f[j].size)
              <=> Clear(Splice(f, p, rest, 0), a, m)
    BY <2>3, <2>5, <2>8, <2>9, SpliceFacts
  <2>11. ASSUME NEW a \in Nat, NEW m \in Nat, Clear(f, a, m)
         PROVE  Clear(Taken(f, n), a, m)
    <3>1. Apart(a, m, x, z)
      BY <1>1, <1>6, <2>11 DEF Clear
    <3>2. Apart(a, m, rest.addr, rest.size)
      BY <1>7, <2>2, <2>4, <3>1 DEF Apart
    <3>3. \A j \in 1..Len(f) : Apart(a, m, f[j].addr, f[j].size)
      BY <2>11 DEF Clear
    <3> QED
      BY <2>6, <2>10, <3>2, <3>3
  <2>12. Clear(Taken(f, n), Result(f, n), n)
    <3>1. Apart(Result(f, n), n, rest.addr, rest.size)
      BY <1>6, <1>7, <2>4 DEF Apart
    <3>2. ASSUME NEW j \in 1..Len(f), j <= p \/ j > p + 1 + 0
          PROVE  Apart(Result(f, n), n, f[j].addr, f[j].size)
      <4>1. j < i \/ i < j
        BY <1>1, <1>4, <2>5, <3>2
      <4>2. End(f[j]) < x \/ x + z < f[j].addr
        BY <1>1, <1>5, <1>6, <2>7, <4>1
      <4>3. End(f[j]) = f[j].addr + f[j].size /\ f[j].addr \in Nat /\ f[j].size \in Nat
        BY <1>4, ChunkFacts
      <4>4. PICK y \in Nat, w \in Nat : y = f[j].addr /\ w = f[j].size
        BY <4>3
      <4>5. y + w < x \/ x + z < y
        BY <4>2, <4>3, <4>4
      <4>6. PICK e \in Nat : e = Result(f, n)
        BY <1>8
      <4>7. x <= e /\ e + n = x + z
        BY <1>7, <4>6
      <4>8. Apart(e, n, y, w)
        BY <4>5, <4>7 DEF Apart
      <4> QED
        BY <4>4, <4>6, <4>8
    <3> QED
      BY <1>8, <2>6, <2>10, <3>1, <3>2
  <2>13. ASSUME NEW a \in Nat, NEW m \in Nat, Clear(Taken(f, n), a, m),
                Apart(a, m, Result(f, n), n)
         PROVE  Clear(f, a, m)
    <3>1. PICK w \in Nat : w = z - n /\ w > 0 /\ x + w = (x + z) - n /\ w + n = z
      <4>1. z - n \in Nat /\ z - n > 0
        BY <1>7, <1>11
      <4> QED
        BY <4>1
    <3>2. Apart(a, m, x, w) /\ Apart(a, m, x + w, n)
      BY <1>7, <2>4, <2>6, <2>10, <2>13, <3>1
    <3>3. Apart(a, m, x, z)
      BY <3>1, <3>2 DEF Apart
    <3>4. \A j \in 1..Len(f) : j <= p \/ j > p + 1 + 0 \/ j = i
      BY <1>4, <2>5
    <3>5. \A j \in 1..Len(f) : Apart(a, m, f[j].addr, f[j].size)
      BY <1>6, <2>6, <2>10, <2>13, <3>3, <3>4
    <3> QED
      BY <3>5 DEF Clear
  <2> QED
    BY <1>8, <1>9, <2>6, <2>10, <2>11, <2>12, <2>13
<1> QED
  BY <1>10, <1>11

(***************************************************************************)
(* __malloc_free gives a chunk back                                        *)
(***************************************************************************)

LEMMA InsertAtSplice ==
  ASSUME NEW S, NEW f \in Seq(S), NEW k \in 0..Len(f), NEW c \in S
  PROVE  InsertAt(f, k + 1, c) = Splice(f, k, c, -1)
<1> DEFINE g == InsertAt(f, k + 1, c)  h == Splice(f, k, c, -1)
<1>1. PICK m \in Nat, i \in 1..(Len(f) + 1) : m = Len(f) /\ i = k + 1 /\ k \in Nat
  OBVIOUS
<1>2. /\ g \in Seq(S) /\ Len(g) = m + 1
      /\ \A j \in 1..(m + 1) : g[j] = IF j < i THEN f[j] ELSE IF j = i THEN c ELSE f[j - 1]
  <2>1. g = InsertAt(f, i, c)
    BY <1>1
  <2>2. /\ InsertAt(f, i, c) \in Seq(S)
        /\ Len(InsertAt(f, i, c)) = Len(f) + 1
        /\ \A j \in 1..(Len(f) + 1) :
             InsertAt(f, i, c)[j] =
               IF j < i THEN f[j] ELSE IF j = i THEN c ELSE f[j - 1]
    BY InsertAtFacts
  <2> HIDE DEF g
  <2> QED
    BY <1>1, <2>1, <2>2
<1>3. /\ h \in Seq(S) /\ Len(h) = Len(f) - (-1)
      /\ \A j \in 1..(Len(f) - (-1)) :
           h[j] = IF j <= k THEN f[j] ELSE IF j = k + 1 THEN c ELSE f[j + (-1)]
  <2>1. k + 1 + (-1) <= Len(f) /\ -1 \in {-1, 0, 1}
    BY <1>1
  <2>2. IsSplice(h, S, f, k, c, -1)
    BY <2>1, SpliceSeq
  <2> QED
    BY <2>2 DEF IsSplice
<1> HIDE DEF g, h
<1>4. Len(f) - (-1) = m + 1
  BY <1>1
<1>5. ASSUME NEW j \in 1..(m + 1)  PROVE  g[j] = h[j]
  <2>1. j + (-1) = j - 1 /\ (j < i <=> j <= k)
    BY <1>1
  <2> QED
    BY <1>1, <1>2, <1>3, <1>4, <2>1
<1>6. g = h
  BY <1>2, <1>3, <1>4, <1>5, SeqEqual
<1> QED
  BY <1>6 DEF g, h

\* Coalescing the chunk behind the first k with the one before it.
LEMMA MergeSplice ==
  ASSUME NEW S, NEW f \in Seq(S), NEW k \in 1..Len(f), NEW p \in 0..Len(f), k = p + 1,
         NEW b \in {-1, 0}, k + 1 + b <= Len(f), NEW c \in S, NEW e \in S
  PROVE  RemoveAt(ReplaceAt(Splice(f, k, c, b), k, e), k + 1) = Splice(f, p, e, b + 1)
<1> DEFINE g == Splice(f, k, c, b)  r == ReplaceAt(g, k, e)
           d == RemoveAt(r, k + 1)  h == Splice(f, p, e, b + 1)
<1>1. PICK m \in Nat, len \in Nat :
        m = Len(f) /\ len = m - b /\ k + 1 \in 1..len /\ k \in 0..m /\ k \in 1..m /\ p \in Nat
  OBVIOUS
<1>2. /\ g \in Seq(S) /\ Len(g) = len
      /\ \A j \in 1..len : g[j] = IF j <= k THEN f[j] ELSE IF j = k + 1 THEN c ELSE f[j + b]
  <2>1. b \in {-1, 0, 1} /\ k \in 0..Len(f)
    BY <1>1
  <2>2. IsSplice(g, S, f, k, c, b)
    BY <2>1, SpliceSeq, Zenon
  <2> HIDE DEF g
  <2> QED
    BY <1>1, <2>2 DEF IsSplice
<1> HIDE DEF g
<1>3. /\ r \in Seq(S) /\ Len(r) = len
      /\ \A j \in 1..len : r[j] = IF j = k THEN e ELSE g[j]
  BY <1>1, <1>2 DEF ReplaceAt
<1> HIDE DEF r
<1>4. /\ d \in Seq(S) /\ Len(d) = len - 1
      /\ \A j \in 1..(len - 1) : d[j] = IF j < k + 1 THEN r[j] ELSE r[j + 1]
  <2>1. k + 1 \in 1..Len(r)
    BY <1>1, <1>3
  <2>2. /\ d \in Seq(S) /\ Len(d) = Len(r) - 1
        /\ \A j \in 1..(Len(r) - 1) : d[j] = IF j < k + 1 THEN r[j] ELSE r[j + 1]
    BY <1>3, <2>1, RemoveAtFacts
  <2> HIDE DEF d
  <2> QED
    BY <1>3, <2>2
<1> HIDE DEF d
<1>5. /\ h \in Seq(S) /\ Len(h) = len - 1
      /\ \A j \in 1..(len - 1) :
           h[j] = IF j <= p THEN f[j] ELSE IF j = p + 1 THEN e ELSE f[j + (b + 1)]
  <2>1. b + 1 \in {-1, 0, 1} /\ p + 1 + (b + 1) <= Len(f) /\ Len(f) - (b + 1) = len - 1
    BY <1>1
  <2>2. IsSplice(h, S, f, p, e, b + 1)
    BY <2>1, SpliceSeq, Zenon
  <2> HIDE DEF h
  <2> QED
    BY <2>1, <2>2 DEF IsSplice
<1> HIDE DEF h
<1>6. ASSUME NEW j \in 1..(len - 1)  PROVE  d[j] = h[j]
  <2>1. j \in Nat /\ j \in 1..len
    BY <1>1
  <2>2. CASE j < k
    <3>1. j < k + 1 /\ j # k /\ j <= k /\ j <= p
      BY <1>1, <2>1, <2>2
    <3> QED
      BY <1>2, <1>3, <1>4, <1>5, <2>1, <3>1
  <2>3. CASE j = k
    <3>1. j < k + 1 /\ ~(j <= p) /\ j = p + 1
      BY <1>1, <2>1, <2>3
    <3> QED
      BY <1>3, <1>4, <1>5, <2>1, <2>3, <3>1
  <2>4. CASE j > k
    <3>1. /\ ~(j < k + 1) /\ j + 1 \in 1..len /\ j + 1 # k /\ ~(j + 1 <= k) /\ j + 1 # k + 1
          /\ ~(j <= p) /\ j # p + 1
      BY <1>1, <2>1, <2>4
    <3>2. d[j] = f[(j + 1) + b]
      BY <1>2, <1>3, <1>4, <3>1
    <3>3. h[j] = f[j + (b + 1)]
      BY <1>5, <3>1
    <3>4. (j + 1) + b = j + (b + 1)
      BY <2>1
    <3> QED
      BY <3>2, <3>3, <3>4
  <2> QED
    BY <1>1, <2>1, <2>2, <2>3, <2>4
<1>7. d = h
  BY <1>4, <1>5, <1>6, SeqEqual
<1> QED
  BY <1>7 DEF d, h, r, g

LEMMA UnitsAdd ==
  ASSUME NEW m \in Nat, NEW n \in Nat, Units(m), Units(n)
  PROVE  Units(m + n)
<1>1. m % 8 = 0 /\ n % 8 = 0
  BY DEF Units, MIN_CHUNK_SIZE
<1>2. (m + n) % 8 = 0
  BY <1>1, Z3
<1> QED
  BY <1>2 DEF Units, MIN_CHUNK_SIZE

\* The place of a region that is not in the list.
LEMMA PassedFacts ==
  ASSUME NEW f, ListOK(f), NEW a, NEW n, Region(a, n), Clear(f, a, n)
  PROVE  /\ Passed(f, a) \in 0..Len(f)
         /\ \A i \in 1..Passed(f, a) : End(f[i]) <= a
         /\ \A i \in (Passed(f, a) + 1)..Len(f) : a + n <= f[i].addr
<1> DEFINE T == {k \in 0..Len(f) : k < Len(f) => f[k + 1].addr >= a}
<1>1. PICK m \in Nat : m = Len(f)
  BY ListFacts
<1>2. PICK k \in T : \A j \in T : k <= j
  <2>1. T \subseteq Nat /\ Len(f) \in T
    BY <1>1
  <2> HIDE DEF T
  <2> QED
    BY <2>1, LeastNumber
<1>3. /\ \A i \in 1..m : ChunkOK(f[i]) /\ f[i].addr \in Nat /\ End(f[i]) \in Nat
                         /\ f[i].addr < End(f[i])
      /\ \A i, j \in 1..m : i < j => End(f[i]) < f[j].addr
  BY <1>1, ListFacts
<1>4. a \in Nat /\ n \in Nat /\ n >= 8
  BY DEF Region, MIN_CHUNK_SIZE
<1>5. \A i \in 1..k : f[i].addr < a
  <2> TAKE i \in 1..k
  <2>1. i - 1 \in 0..m /\ i - 1 \notin T /\ i - 1 < m /\ i - 1 + 1 = i /\ i \in 1..m
    BY <1>1, <1>2
  <2> QED
    BY <1>1, <1>3, <1>4, <2>1
<1> DEFINE l == Passed(f, a)
<1>6. /\ l \in 0..Len(f) /\ \A i \in 1..l : f[i].addr < a
      /\ l < Len(f) => f[l + 1].addr >= a
  BY <1>2, <1>5 DEF Passed
<1> HIDE DEF l
<1>7. \A i \in 1..m : f[i].addr + f[i].size = End(f[i]) /\ (a + n <= f[i].addr \/ End(f[i]) <= a)
  <2> TAKE i \in 1..m
  <2>1. Apart(a, n, f[i].addr, f[i].size)
    BY <1>1 DEF Clear
  <2>2. f[i].size \in Nat /\ f[i].size >= 8 /\ End(f[i]) = f[i].addr + f[i].size
    BY <1>3, ChunkFacts
  <2> QED
    BY <1>4, <2>1, <2>2 DEF Apart
<1>8. \A i \in 1..l : End(f[i]) <= a
  <2> TAKE i \in 1..l
  <2>1. i \in 1..m /\ f[i].addr < a
    BY <1>1, <1>6
  <2> QED
    BY <1>3, <1>4, <1>7, <2>1
<1>9. \A i \in (l + 1)..m : a + n <= f[i].addr
  <2> TAKE i \in (l + 1)..m
  <2>1. /\ i \in 1..m /\ l + 1 \in 1..m /\ f[l + 1].addr >= a
        /\ i = l + 1 \/ l + 1 < i
    BY <1>1, <1>6
  <2>2. f[i].addr >= a
    <3>1. CASE i = l + 1
      BY <2>1, <3>1
    <3>2. CASE l + 1 < i
      <4>1. End(f[l + 1]) < f[i].addr /\ f[l + 1].addr < End(f[l + 1])
        BY <1>3, <2>1, <3>2
      <4>2. f[l + 1].addr \in Nat /\ End(f[l + 1]) \in Nat /\ f[i].addr \in Nat
        BY <1>3, <2>1
      <4>3. f[l + 1].addr < f[i].addr
        BY <4>1, <4>2
      <4> QED
        BY <1>4, <2>1, <4>2, <4>3
    <3> QED
      BY <2>1, <3>1, <3>2
  <2>3. f[i].addr < End(f[i]) /\ f[i].addr \in Nat /\ End(f[i]) \in Nat
    BY <1>3, <2>1
  <2>4. a + n <= f[i].addr \/ End(f[i]) <= a
    BY <1>7, <2>1
  <2> QED
    BY <1>4, <2>2, <2>3, <2>4
<1> QED
  BY <1>1, <1>6, <1>8, <1>9 DEF l

\* A list given a region it does not hold is a list, and holds no more than before
\* and that region.
LEMMA FreedFacts ==
  ASSUME NEW f, ListOK(f), NEW a, NEW n, Region(a, n), Clear(f, a, n)
  PROVE  /\ ListOK(Freed(f, a, n))
         /\ \A b, l \in Nat :
              Clear(f, b, l) /\ Apart(b, l, a, n) <=> Clear(Freed(f, a, n), b, l)
<1> DEFINE k == Passed(f, a)  next == JoinsNext(f, a, n)  prev == JoinsPrevious(f, a)
           up == IF next THEN n + f[k + 1].size ELSE n
           chunk == [addr |-> a, size |-> up]
           f1 == IF next THEN ReplaceAt(f, k + 1, chunk) ELSE InsertAt(f, k + 1, chunk)
           merged == [f[k] EXCEPT !.size = @ + up]
           b0 == IF next THEN 0 ELSE -1
<1>1. /\ k \in 0..Len(f)
      /\ \A i \in 1..k : End(f[i]) <= a
      /\ \A i \in (k + 1)..Len(f) : a + n <= f[i].addr
  BY PassedFacts
<1>2. /\ next <=> k < Len(f) /\ a + n = f[k + 1].addr
      /\ prev <=> k > 0 /\ End(f[k]) = a
  BY DEF JoinsNext, JoinsPrevious
<1>3. Freed(f, a, n) = IF prev THEN RemoveAt(ReplaceAt(f1, k, merged), k + 1) ELSE f1
  BY DEF Freed
<1> HIDE DEF k, next, prev
<1>4. /\ a \in Nat /\ n \in Nat /\ n >= 8 /\ n > 0 /\ a > 0 /\ Units(n)
      /\ HeapAddr <= a /\ a + n <= HeapEnd /\ Placed(a)
  BY DEF Region, MIN_CHUNK_SIZE
<1>5. f \in Seq(Chunk) /\ Len(f) \in Nat /\ k \in Nat
  BY <1>1, ListFacts
<1>6. \A i \in 1..Len(f) :
        /\ f[i] \in Chunk /\ f[i].addr \in Nat /\ f[i].addr > 0 /\ f[i].size \in Nat
        /\ f[i].size >= 8 /\ Units(f[i].size) /\ End(f[i]) = f[i].addr + f[i].size
        /\ HeapAddr <= f[i].addr /\ f[i].addr + f[i].size <= HeapEnd
        /\ Placed(f[i].addr)
  BY ListFacts, ChunkFacts
<1>7. \A i, j \in 1..Len(f) : i < j => End(f[i]) < f[j].addr
  BY ListFacts
<1>8. HeapAddr \in Nat /\ HeapEnd \in Nat
  BY HeapFacts
\* The chunk with what is joined behind it.
<1>9. /\ up \in Nat /\ up >= n /\ Units(up) /\ a + up <= HeapEnd
      /\ k + 1 + b0 <= Len(f) /\ b0 \in {-1, 0}
      /\ k + 1 + b0 < Len(f) => a + up < f[k + 2 + b0].addr
      /\ \A b, l \in Nat : Clear(f, b, l) /\ Apart(b, l, a, n) => Apart(b, l, a, up)
      /\ \A b, l \in Nat : Apart(b, l, a, up) => Apart(b, l, a, n)
      /\ \A b, l \in Nat : \A i \in (k + 1)..(k + 1 + b0) :
           Apart(b, l, a, up) => Apart(b, l, f[i].addr, f[i].size)
  <2>1. CASE next
    <3>1. k + 1 \in 1..Len(f) /\ a + n = f[k + 1].addr
      BY <1>1, <1>2, <1>5, <2>1
    <3>2. PICK z \in Nat : /\ z = f[k + 1].size /\ z >= 8 /\ Units(z)
                          /\ (a + n) + z <= HeapEnd /\ End(f[k + 1]) = (a + n) + z
      BY <1>6, <3>1
    <3>3. up = n + z /\ b0 = 0
      BY <2>1, <3>2
    <3>4. k + 1 < Len(f) => a + up < f[k + 2].addr
      <4> SUFFICES ASSUME k + 1 < Len(f)  PROVE  a + up < f[k + 2].addr
        OBVIOUS
      <4>1. k + 2 \in 1..Len(f) /\ k + 1 < k + 2
        BY <1>5
      <4>2. End(f[k + 1]) < f[k + 2].addr
        BY <1>7, <3>1, <4>1
      <4>3. a + up = (a + n) + z
        BY <1>4, <3>3
      <4> QED
        BY <3>2, <4>2, <4>3
    <3>5. ASSUME NEW b \in Nat, NEW l \in Nat, Clear(f, b, l), Apart(b, l, a, n)
          PROVE  Apart(b, l, a, up)
      <4>1. Apart(b, l, a + n, z)
        BY <3>1, <3>2, <3>5 DEF Clear
      <4> QED
        BY <1>4, <3>2, <3>3, <3>5, <4>1, ApartJoin
    <3>6. Units(up)
      BY <1>4, <3>2, <3>3, UnitsAdd
    <3> HIDE DEF up, b0
    <3>7. up \in Nat /\ up >= n /\ a + up <= HeapEnd
      BY <1>4, <1>8, <3>2, <3>3
    <3>8. k + 1 + b0 = k + 1 /\ k + 2 + b0 = k + 2 /\ k + 1 <= Len(f) /\ b0 \in {-1, 0}
      BY <1>5, <3>1, <3>3
    <3>9. ASSUME NEW b \in Nat, NEW l \in Nat, Apart(b, l, a, up)
          PROVE  /\ Apart(b, l, a, n)
                 /\ \A i \in (k + 1)..(k + 1 + b0) : Apart(b, l, f[i].addr, f[i].size)
      <4>1. Apart(b, l, a, n) /\ Apart(b, l, a + n, z)
        BY <1>4, <3>2, <3>3, <3>9 DEF Apart
      <4>2. \A i \in (k + 1)..(k + 1 + b0) : i = k + 1
        BY <1>5, <3>8
      <4> QED
        BY <3>1, <3>2, <4>1, <4>2
    <3> QED
      BY <3>4, <3>5, <3>6, <3>7, <3>8, <3>9
  <2>2. CASE ~next
    <3>1. up = n /\ b0 = -1
      BY <2>2
    <3>2. k < Len(f) => a + n < f[k + 1].addr
      <4> SUFFICES ASSUME k < Len(f)  PROVE  a + n < f[k + 1].addr
        OBVIOUS
      <4>1. k + 1 \in (k + 1)..Len(f) /\ k + 1 \in 1..Len(f)
        BY <1>5
      <4>2. a + n <= f[k + 1].addr /\ a + n # f[k + 1].addr /\ f[k + 1].addr \in Nat
        BY <1>1, <1>2, <1>6, <2>2, <4>1
      <4> QED
        BY <1>4, <4>2
    <3> HIDE DEF up, b0
    <3>3. k + 1 + b0 = k /\ k + 2 + b0 = k + 1 /\ k <= Len(f) /\ b0 \in {-1, 0}
      BY <1>1, <1>5, <3>1
    <3>4. (k + 1)..(k + 1 + b0) = {}
      BY <1>5, <3>3
    <3> QED
      BY <1>4, <3>1, <3>2, <3>3, <3>4
  <2> QED
    BY <2>1, <2>2
<1>10. f1 = Splice(f, k, chunk, b0) /\ chunk \in Chunk /\ chunk.addr = a /\ chunk.size = up
  <2>1. chunk \in Chunk /\ chunk.addr = a /\ chunk.size = up
    BY <1>4, <1>9 DEF Chunk
  <2> HIDE DEF chunk
  <2>2. CASE next
    BY <1>1, <1>2, <1>5, <2>1, <2>2, ReplaceAtSplice
  <2>3. CASE ~next
    BY <1>1, <1>5, <2>1, <2>3, InsertAtSplice
  <2> QED
    BY <2>1, <2>2, <2>3
<1> HIDE DEF up, b0, f1, chunk
<1>11. b0 \in {-1, 0, 1}
  BY <1>9
<1>12. CASE ~prev
  <2>1. Freed(f, a, n) = Splice(f, k, chunk, b0)
    BY <1>3, <1>10, <1>12
  <2>2. End(chunk) = a + up /\ up >= 8
    BY <1>4, <1>9, <1>10 DEF End
  <2>3. ChunkOK(chunk)
    BY <1>4, <1>9, <1>10, <2>2 DEF ChunkOK, MIN_CHUNK_SIZE
  <2>4. k > 0 => End(f[k]) < chunk.addr
    <3> SUFFICES ASSUME k > 0  PROVE  End(f[k]) < a
      BY <1>10
    <3>1. k \in 1..k /\ k \in 1..Len(f)
      BY <1>1, <1>5
    <3>2. End(f[k]) <= a /\ End(f[k]) # a /\ End(f[k]) \in Nat
      BY <1>1, <1>2, <1>6, <1>12, <3>1
    <3> QED
      BY <1>4, <3>2
  <2>5. /\ ListOK(Splice(f, k, chunk, b0))
        /\ \A b, l \in Nat :
             /\ Apart(b, l, chunk.addr, chunk.size)
             /\ \A i \in 1..Len(f) :
                  i <= k \/ i > k + 1 + b0 => Apart(b, l, f[i].addr, f[i].size)
             <=> Clear(Splice(f, k, chunk, b0), b, l)
    BY <1>1, <1>9, <1>10, <1>11, <2>2, <2>3, <2>4, SpliceFacts
  <2>6. ASSUME NEW b \in Nat, NEW l \in Nat, Clear(f, b, l), Apart(b, l, a, n)
        PROVE  Clear(Freed(f, a, n), b, l)
    BY <1>9, <1>10, <2>1, <2>5, <2>6 DEF Clear
  <2>7. ASSUME NEW b \in Nat, NEW l \in Nat, Clear(Freed(f, a, n), b, l)
        PROVE  Clear(f, b, l) /\ Apart(b, l, a, n)
    <3>1. Apart(b, l, a, up)
      BY <1>10, <2>1, <2>5, <2>7
    <3>2. \A i \in 1..Len(f) : (i <= k \/ i > k + 1 + b0) \/ i \in (k + 1)..(k + 1 + b0)
      BY <1>5, <1>9
    <3>3. \A i \in 1..Len(f) : Apart(b, l, f[i].addr, f[i].size)
      BY <1>9, <2>1, <2>5, <2>7, <3>1, <3>2
    <3> QED
      BY <1>9, <3>1, <3>3 DEF Clear
  <2> QED
    BY <2>1, <2>5, <2>6, <2>7
<1>13. CASE prev
  <2>1. PICK p \in 0..Len(f) : k = p + 1 /\ k \in 1..Len(f) /\ p \in Nat /\ p < k
    <3>1. k > 0 /\ k <= Len(f)
      BY <1>1, <1>2, <1>13
    <3>2. k - 1 \in 0..Len(f) /\ k = (k - 1) + 1 /\ k \in 1..Len(f) /\ k - 1 < k
      BY <1>5, <3>1
    <3> QED
      BY <3>2
  <2>2. PICK x \in Nat, z \in Nat : x = f[k].addr /\ z = f[k].size /\ x > 0 /\ z >= 8 /\ Units(z)
                                    /\ x + z = a /\ HeapAddr <= x /\ Placed(x)
    BY <1>2, <1>6, <1>13, <2>1
  <2>3. merged = [addr |-> x, size |-> z + up]
    <3>1. f[k] \in Chunk
      BY <1>6, <2>1
    <3>2. f[k] = [addr |-> x, size |-> z]
      BY <2>2, <3>1 DEF Chunk
    <3> QED
      BY <2>2, <3>2
  <2> HIDE DEF merged
  <2>4. merged \in Chunk /\ merged.addr = x /\ merged.size = z + up /\ End(merged) = a + up
    <3>1. z + up \in Nat /\ x \in Nat \ {0} /\ x + (z + up) = a + up
      <4>1. up \in Nat /\ x + z = a /\ x > 0
        BY <1>9, <2>2
      <4> QED
        BY <4>1
    <3> QED
      BY <2>3, <3>1 DEF Chunk, End
  <2>5. Freed(f, a, n) = Splice(f, p, merged, b0 + 1)
    BY <1>3, <1>5, <1>9, <1>10, <1>13, <2>1, <2>4, MergeSplice
  <2>6. Units(merged.size)
    BY <1>9, <2>2, <2>4, UnitsAdd
  <2>7. ChunkOK(merged)
    <3>1. HeapAddr <= x /\ Placed(x) /\ z \in Nat /\ z >= 8
      BY <2>2
    <3>2. up \in Nat /\ a + up <= HeapEnd
      BY <1>9
    <3>3. z + up >= 8
      BY <3>1, <3>2
    <3> QED
      BY <2>4, <2>6, <3>1, <3>2, <3>3 DEF ChunkOK, MIN_CHUNK_SIZE
  <2>8. p > 0 => End(f[p]) < merged.addr
    BY <1>5, <1>7, <2>1, <2>2, <2>4
  <2>9. b0 + 1 \in {-1, 0, 1} /\ p + 1 + (b0 + 1) = k + 1 + b0 /\ p + 2 + (b0 + 1) = k + 2 + b0
    BY <1>9, <2>1
  <2>10. p + 1 + (b0 + 1) < Len(f) => End(merged) < f[p + 2 + (b0 + 1)].addr
    BY <1>9, <2>4, <2>9
  <2>11. p + 1 + (b0 + 1) <= Len(f)
    BY <1>9, <2>9
  <2>12. /\ ListOK(Splice(f, p, merged, b0 + 1))
         /\ \A b, l \in Nat :
              /\ Apart(b, l, merged.addr, merged.size)
              /\ \A i \in 1..Len(f) :
                   i <= p \/ i > p + 1 + (b0 + 1) => Apart(b, l, f[i].addr, f[i].size)
              <=> Clear(Splice(f, p, merged, b0 + 1), b, l)
    BY <2>7, <2>8, <2>9, <2>10, <2>11, SpliceFacts
  <2>13. ASSUME NEW b \in Nat, NEW l \in Nat, Clear(f, b, l), Apart(b, l, a, n)
         PROVE  Apart(b, l, x, z + up)
    <3>1. Apart(b, l, x, z)
      BY <2>1, <2>2, <2>13 DEF Clear
    <3>2. Apart(b, l, x + z, up)
      BY <1>9, <2>2, <2>13
    <3>3. z > 0 /\ up > 0 /\ up \in Nat
      <4>1. up \in Nat /\ up >= n /\ z >= 8
        BY <1>9, <2>2
      <4> QED
        BY <1>4, <4>1
    <3> QED
      BY <2>13, <3>1, <3>2, <3>3, ApartJoin
  <2>14. ASSUME NEW b \in Nat, NEW l \in Nat, Clear(f, b, l), Apart(b, l, a, n)
         PROVE  Clear(Freed(f, a, n), b, l)
    BY <2>4, <2>5, <2>12, <2>13, <2>14 DEF Clear
  <2>15. ASSUME NEW b \in Nat, NEW l \in Nat, Clear(Freed(f, a, n), b, l)
         PROVE  Clear(f, b, l) /\ Apart(b, l, a, n)
    <3>1. Apart(b, l, x, z + up)
      BY <2>4, <2>5, <2>12, <2>15
    <3>2. Apart(b, l, x, z) /\ Apart(b, l, a, up)
      <4>1. PICK w \in Nat : w = up /\ w > 0
        <5>1. up \in Nat /\ up >= n
          BY <1>9
        <5> QED
          BY <1>4, <5>1
      <4>2. x \in Nat /\ z \in Nat /\ z > 0 /\ x + z = a
        BY <2>2
      <4>3. Apart(b, l, x, z + w)
        BY <3>1, <4>1
      <4>4. Apart(b, l, x, z) /\ Apart(b, l, x + z, w)
        BY <4>1, <4>2, <4>3 DEF Apart
      <4> QED
        BY <4>1, <4>2, <4>4
    <3>3. \A i \in 1..Len(f) : \/ i <= p \/ i > p + 1 + (b0 + 1)
                               \/ i = k \/ i \in (k + 1)..(k + 1 + b0)
      BY <1>5, <1>9, <2>1, <2>9
    <3>4. \A i \in 1..Len(f) : Apart(b, l, f[i].addr, f[i].size)
      BY <1>9, <2>2, <2>5, <2>12, <2>15, <3>2, <3>3
    <3> QED
      BY <1>9, <3>2, <3>4 DEF Clear
  <2> QED
    BY <2>5, <2>12, <2>14, <2>15
<1> QED
  BY <1>12, <1>13

(***************************************************************************)
(* The inductive invariant                                                 *)
(***************************************************************************)

\* A block lies in the heap, as large as it was asked for.
BlockOK(b) ==
  /\ b.size <= b.room /\ b.room <= Up(b.size) /\ Placed(b.addr)
  /\ HeapAddr <= b.addr /\ b.addr + b.room <= HeapEnd

\* No two of the blocks l overlap, and none overlaps a chunk of f.
LiveOK(f, l) ==
  /\ l \subseteq Block
  /\ \A b \in l : BlockOK(b) /\ Clear(f, b.addr, b.room)
  /\ \A b, c \in l : b # c => Apart(b.addr, b.room, c.addr, c.room)

IInv == TypeOK /\ ListOK(free) /\ LiveOK(free, live)

LEMMA InitIInv == Init => IInv
<1> SUFFICES ASSUME Init  PROVE  IInv
  OBVIOUS
<1> DEFINE c == [addr |-> HeapAddr, size |-> HeapSize]
<1>1. /\ free = <<c>> /\ live = {} /\ corrupt = FALSE
      /\ last = [size |-> 0, align |-> 1, addr |-> 0]
  BY DEF Init, NULL
<1>2. c \in Chunk /\ ChunkOK(c)
  BY HeapFacts DEF Chunk, ChunkOK, End, HeapEnd, MIN_CHUNK_SIZE
<1> HIDE DEF c
<1>3. <<c>> \in Seq(Chunk) /\ Len(<<c>>) = 1 /\ <<c>>[1] = c
  BY <1>2
<1>4. ListOK(free)
  BY <1>1, <1>2, <1>3 DEF ListOK
<1>5. LiveOK(free, live)
  BY <1>1 DEF LiveOK
<1>6. TypeOK
  BY <1>1, <1>3 DEF TypeOK
<1> QED
  BY <1>4, <1>5, <1>6 DEF IInv

\* A block out of memory that was free disturbs no other.
LEMMA Granted ==
  ASSUME NEW f, NEW g, ListOK(f), NEW l, LiveOK(f, l),
         NEW b \in Block, BlockOK(b), Clear(g, b.addr, b.room),
         \A a, n \in Nat : Clear(f, a, n) => Clear(g, a, n) /\ Apart(a, n, b.addr, b.room)
  PROVE  LiveOK(g, l \cup {b})
<1>1. \A c \in l : /\ c \in Block /\ BlockOK(c) /\ Clear(f, c.addr, c.room)
                   /\ c.addr \in Nat /\ c.room \in Nat
  BY DEF LiveOK, Block
<1>2. \A c \in l : Clear(g, c.addr, c.room) /\ Apart(c.addr, c.room, b.addr, b.room)
  BY <1>1
<1>3. \A c \in l : Apart(b.addr, b.room, c.addr, c.room)
  BY <1>2 DEF Apart
<1>4. \A c, d \in l : c # d => Apart(c.addr, c.room, d.addr, d.room)
  BY DEF LiveOK
<1> QED
  BY <1>1, <1>2, <1>3, <1>4 DEF LiveOK

\* A part of a region is apart from what the region is apart from.
LEMMA ApartPart ==
  ASSUME NEW a \in Nat, NEW n \in Nat, NEW x \in Nat, NEW z \in Nat,
         NEW y \in Nat, NEW w \in Nat, x <= y, y + w <= x + z, Apart(a, n, x, z)
  PROVE  Apart(a, n, y, w)
BY DEF Apart

LEMMA ApartSym ==
  ASSUME NEW a, NEW n, NEW b, NEW m, Apart(a, n, b, m)
  PROVE  Apart(b, m, a, n)
BY DEF Apart

(***************************************************************************)
(* The steps                                                               *)
(***************************************************************************)

LEMMA RequestFacts ==
  ASSUME NEW r \in Request
  PROVE  r.size \in Nat /\ r.align \in Alignment /\ r.align \in Nat /\ r.align > 0
<1>1. r.size \in Nat /\ r.align \in Alignment
  BY RequestAssumption
<1> QED
  BY <1>1 DEF Alignment

\* Rounding up to an alignment that is asked for gives a multiple of it, on a unit.
LEMMA AlignUpFacts ==
  ASSUME NEW n \in Nat, NEW m \in Alignment, m >= SIZEOF_CHUNK
  PROVE  /\ AlignUp(n, m) \in Int /\ m % 8 = 0 /\ AlignUp(n, m) % 8 = 0
         /\ AlignUp(n, m) % m = 0 /\ (AlignUp(n, m) + m) % m = 0
<1>1. PICK x \in Int : AlignUp(n, m) = x * m
  <2>1. (n + m - 1) \div m \in Int
    BY DEF Alignment
  <2> QED
    BY <2>1 DEF AlignUp
<1>2. m \in Alignment \ {1, 2, 4, 8}
  BY DEF SIZEOF_CHUNK
<1>3. /\ x * m \in Int /\ m % 8 = 0 /\ (x * m) % 8 = 0
      /\ (x * m) % m = 0 /\ (x * m + m) % m = 0
  BY <1>2, Z3 DEF Alignment
<1> QED
  BY <1>1, <1>3, Zenon

LEMMA NeedFacts ==
  ASSUME NEW r \in Request
  PROVE  /\ Need(r) \in Nat /\ Units(Need(r))
         /\ r.align < SIZEOF_CHUNK => r.size <= Need(r) /\ Need(r) = Up(r.size)
<1>1. r.size \in Nat /\ r.align \in Nat
  BY RequestFacts
<1>2. CASE r.align < SIZEOF_CHUNK
  <2>1. Need(r) = Up(r.size)
    BY <1>2 DEF Need
  <2> QED
    BY <1>1, <2>1, UpFacts DEF Units, MIN_CHUNK_SIZE
<1>3. CASE ~(r.align < SIZEOF_CHUNK)
  <2>1. PICK n \in Nat : n = r.size + r.align + 2 * SIZEOF_CHUNK
    BY <1>1 DEF SIZEOF_CHUNK
  <2>2. Need(r) = Up(n)
    BY <1>3, <2>1 DEF Need
  <2> QED
    BY <1>3, <2>2, UpFacts DEF Units, MIN_CHUNK_SIZE
<1> QED
  BY <1>2, <1>3

LEMMA RefuseIInv ==
  ASSUME IInv, NEW r \in Request, Refuse(r)
  PROVE  IInv'
<1>1. last' \in [size : Nat, align : Nat, addr : Nat]
  BY RequestFacts DEF Refuse, Answer, NULL
<1> QED
  BY <1>1 DEF Refuse, IInv, TypeOK

LEMMA MallocIInv ==
  ASSUME IInv, NEW r \in Request, Malloc(r)
  PROVE  IInv'
<1> DEFINE n == Need(r)  a == Result(free, n)  g == Taken(free, n)
           b == [addr |-> a, size |-> r.size, room |-> n]
<1>1. /\ free' = g /\ live' = live \cup {b} /\ corrupt' = corrupt
      /\ last' = [size |-> r.size, align |-> r.align, addr |-> a]
      /\ r.align < SIZEOF_CHUNK /\ Fits(free, n)
  BY DEF Malloc, Grant, Answer
<1>2. /\ r.size \in Nat /\ r.align \in Nat /\ n \in Nat /\ Units(n)
      /\ r.size <= n /\ n <= Up(r.size)
  BY <1>1, RequestFacts, NeedFacts
<1>3. ListOK(free) /\ LiveOK(free, live) /\ TypeOK
  BY DEF IInv
<1>4. /\ ListOK(g) /\ a \in Nat \ {0} /\ HeapAddr <= a /\ a + n <= HeapEnd /\ Placed(a)
      /\ Clear(g, a, n)
      /\ \A x, m \in Nat : Clear(free, x, m) => Clear(g, x, m) /\ Apart(x, m, a, n)
  BY <1>1, <1>2, <1>3, TakenFacts
<1> HIDE DEF n, a, g
<1>5. b \in Block /\ BlockOK(b) /\ b.addr = a /\ b.room = n
  BY <1>2, <1>4 DEF Block, BlockOK
<1> HIDE DEF b
<1>6. LiveOK(g, live \cup {b})
  BY <1>3, <1>4, <1>5, Granted
<1>7. TypeOK'
  BY <1>1, <1>2, <1>3, <1>4, <1>5 DEF TypeOK, ListOK
<1> QED
  BY <1>1, <1>4, <1>6, <1>7 DEF IInv

LEMMA ClearPart ==
  ASSUME NEW f, ListOK(f), NEW x \in Nat, NEW z \in Nat, Clear(f, x, z),
         NEW y \in Nat, NEW w \in Nat, x <= y, y + w <= x + z
  PROVE  Clear(f, y, w)
<1> SUFFICES ASSUME NEW i \in 1..Len(f)
             PROVE  Apart(y, w, f[i].addr, f[i].size)
  BY DEF Clear
<1>1. f[i].addr \in Nat /\ f[i].size \in Nat
  BY ListFacts, ChunkFacts
<1>2. Apart(f[i].addr, f[i].size, x, z)
  BY ApartSym DEF Clear
<1>3. Apart(f[i].addr, f[i].size, y, w)
  BY <1>1, <1>2, ApartPart
<1> QED
  BY <1>3, ApartSym

\* Where __malloc_align puts its block, and what it gives back around it.
LEMMA AlignFacts ==
  ASSUME IInv, NEW r \in Request, r.align >= SIZEOF_CHUNK, Fits(free, Need(r)),
         AlignSound(r)
  PROVE  LET res == Result(free, Need(r)) IN
         /\ HeaderSize(r) \in Int /\ TailSize(r) \in Nat /\ TailSize(r) > 0
         /\ ResultAlign(r) \in Nat \ {0} /\ res <= ResultAlign(r)
         /\ HeaderSize(r) # 0 => HeaderSize(r) > 0 /\ res + Up(HeaderSize(r)) <= ResultAlign(r)
         /\ TailAddr(r) = ResultAlign(r) + r.size
         /\ TailAddr(r) + Up(TailSize(r)) <= res + Need(r)
         /\ ResultAlign(r) % r.align = 0 /\ Placed(ResultAlign(r)) /\ Placed(TailAddr(r))
<1> DEFINE n == Need(r)  res == Result(free, n)  h == HeaderSize(r)
           t == TailSize(r)  a == ResultAlign(r)
<1>1. /\ r.size \in Nat /\ r.align \in Nat /\ r.align > 0 /\ n \in Nat /\ Units(n)
      /\ r.align \in Alignment
  BY RequestFacts, NeedFacts
<1>2. res \in Nat \ {0}
  BY <1>1, TakenFacts DEF IInv
<1>3. PICK y \in Int : /\ y = AlignUp(res, r.align) /\ y % 8 = 0 /\ r.align % 8 = 0
                      /\ y % r.align = 0 /\ (y + r.align) % r.align = 0
  BY <1>1, <1>2, AlignUpFacts
<1>4. h = AlignUp(res, r.align) - res
  BY DEF HeaderSize
<1>5. a = AlignUp(res, r.align) + (IF h # 0 /\ h < SIZEOF_CHUNK THEN r.align ELSE 0)
  BY DEF ResultAlign
<1>6. t = r.align + 2 * SIZEOF_CHUNK - h
  BY DEF TailSize
<1>7. /\ h # 0 => Owned(res, h, res, a)
      /\ Owned(TailAddr(r), t, TailAddr(r), res + n)
  BY DEF AlignSound
<1> HIDE DEF n, res, h, t, a
<1>8. h \in Int /\ t \in Int /\ a \in Int
  <2>1. h \in Int
    BY <1>2, <1>3, <1>4
  <2>2. a = y \/ a = y + r.align
    BY <1>1, <1>3, <1>5
  <2> QED
    BY <1>1, <1>6, <2>1, <2>2 DEF SIZEOF_CHUNK
<1>9. t \in Nat /\ t > 0 /\ TailAddr(r) + Up(t) <= res + n
  BY <1>7, <1>8 DEF Owned
<1>10. h # 0 => h > 0 /\ res + Up(h) <= a
  BY <1>7 DEF Owned
<1>11. res <= a
  <2>1. CASE h = 0
    BY <1>2, <1>3, <1>4, <1>5, <2>1
  <2>2. CASE h # 0
    <3>1. h \in Nat /\ Up(h) \in Nat
      BY <1>8, <1>10, <2>2, UpFacts
    <3> QED
      BY <1>2, <1>8, <1>10, <2>2, <3>1
  <2> QED
    BY <2>1, <2>2
<1>12. TailAddr(r) = a + r.size
  BY DEF TailAddr, a
<1>13. a % r.align = 0 /\ a % 8 = 0
  <2>1. a = y \/ a = y + r.align
    BY <1>1, <1>3, <1>5
  <2>2. (y + r.align) % 8 = 0
    BY <1>1, <1>3, Z3
  <2> QED
    BY <1>3, <2>1, <2>2
<1>14. a \in Nat
  BY <1>2, <1>8, <1>11
<1>15. Placed(a) /\ Placed(TailAddr(r))
  <2>1. Units(a)
    BY <1>13 DEF Units, MIN_CHUNK_SIZE
  <2>2. Aligned => Units(a + r.size)
    BY <1>1, <1>14, <2>1, UnitsAdd DEF Aligned
  <2> QED
    BY <1>12, <2>1, <2>2 DEF Placed
<1> QED
  BY <1>2, <1>8, <1>9, <1>10, <1>11, <1>12, <1>13, <1>15 DEF n, res, h, t, a

\* The list in between is one that the header and the tail may be given to.
LEMMA AlignSteps ==
  ASSUME IInv, NEW r \in Request, r.align >= SIZEOF_CHUNK, Fits(free, Need(r)),
         AlignSound(r)
  PROVE  LET n == Need(r)  res == Result(free, n)  h == HeaderSize(r)  u == Up(h)
             a == ResultAlign(r)  s == r.size  ta == TailAddr(r)  v == Up(TailSize(r))
             f1 == Taken(free, n)
             f2 == IF h = 0 THEN f1 ELSE Freed(f1, res, u)
         IN
         /\ n \in Nat /\ s \in Nat /\ res \in Nat \ {0} /\ a \in Nat \ {0}
         /\ ta = a + s /\ v \in Nat /\ v >= 8
         /\ res <= a /\ a + s <= res + n /\ ta + v <= res + n
         /\ HeapAddr <= a /\ a + s <= HeapEnd
         /\ ListOK(f1) /\ Clear(f1, res, n)
         /\ h # 0 => /\ u \in Nat /\ u >= 8 /\ res + u <= a
                     /\ Region(res, u) /\ Clear(f1, res, u)
         /\ ListOK(f2) /\ Clear(f2, a, s)
         /\ Region(ta, v) /\ Clear(f2, ta, v)
<1> DEFINE n == Need(r)  res == Result(free, n)  h == HeaderSize(r)  u == Up(h)
           a == ResultAlign(r)  s == r.size  ta == TailAddr(r)  v == Up(TailSize(r))
           f1 == Taken(free, n)
           f2 == IF h = 0 THEN f1 ELSE Freed(f1, res, u)
<1>1. s \in Nat /\ n \in Nat /\ Units(n)
  BY RequestFacts, NeedFacts
<1>2. ListOK(free)
  BY DEF IInv
<1>3. /\ ListOK(f1) /\ res \in Nat \ {0} /\ HeapAddr <= res /\ res + n <= HeapEnd
      /\ Placed(res) /\ Clear(f1, res, n)
  BY <1>1, <1>2, TakenFacts
<1>4. /\ h \in Int /\ TailSize(r) \in Nat /\ TailSize(r) > 0
      /\ a \in Nat \ {0} /\ res <= a
      /\ h # 0 => h > 0 /\ res + u <= a
      /\ ta = a + s /\ ta + v <= res + n
      /\ Placed(a) /\ Placed(ta)
  BY AlignFacts
<1>5. v \in Nat /\ v >= 8 /\ Units(v)
  BY <1>4, UpFacts DEF Units, MIN_CHUNK_SIZE
<1>6. h # 0 => u \in Nat /\ u >= 8 /\ Units(u)
  BY <1>4, UpFacts DEF Units, MIN_CHUNK_SIZE
<1>7. HeapAddr \in Nat /\ HeapEnd \in Nat
  BY HeapFacts
<1> HIDE DEF n, res, h, u, a, s, ta, v, f1
\* The header.
<1>8. ASSUME h # 0  PROVE  Region(res, u) /\ Clear(f1, res, u)
  <2>1. res + u <= res + n /\ u \in Nat /\ u >= 8 /\ Units(u)
    BY <1>1, <1>3, <1>4, <1>5, <1>6, <1>8
  <2>2. res + u <= HeapEnd
    BY <1>1, <1>3, <1>7, <2>1
  <2>3. Region(res, u)
    BY <1>3, <2>1, <2>2 DEF Region, MIN_CHUNK_SIZE
  <2>4. Clear(f1, res, u)
    BY <1>1, <1>3, <2>1, ClearPart
  <2> QED
    BY <2>3, <2>4
<1>9. /\ ListOK(f2)
      /\ \A x, m \in Nat :
           Clear(f1, x, m) /\ (h # 0 => Apart(x, m, res, u)) => Clear(f2, x, m)
  <2>1. CASE h = 0
    BY <1>3, <2>1
  <2>2. CASE h # 0
    BY <1>3, <1>8, <2>2, FreedFacts
  <2> QED
    BY <2>1, <2>2
<1> HIDE DEF f2
\* The block and the tail.
<1>10. a + s <= res + n /\ res <= ta /\ ta \in Nat \ {0}
  BY <1>1, <1>3, <1>4, <1>5
<1>11. Clear(f1, a, s) /\ Clear(f1, ta, v)
  BY <1>1, <1>3, <1>4, <1>5, <1>10, ClearPart
<1>12. h # 0 => Apart(a, s, res, u) /\ Apart(ta, v, res, u)
  BY <1>1, <1>3, <1>4, <1>5, <1>6, <1>10 DEF Apart
<1>13. Clear(f2, a, s) /\ Clear(f2, ta, v)
  BY <1>1, <1>4, <1>5, <1>9, <1>10, <1>11, <1>12
<1>14. Region(ta, v)
  BY <1>1, <1>3, <1>4, <1>5, <1>7, <1>10 DEF Region, MIN_CHUNK_SIZE
<1>15. HeapAddr <= a /\ a + s <= HeapEnd
  BY <1>1, <1>3, <1>4, <1>7, <1>10
<1> QED
  BY <1>1, <1>3, <1>4, <1>5, <1>6, <1>8, <1>9, <1>10, <1>13, <1>14, <1>15
     DEF n, res, h, u, a, s, ta, v, f1, f2

LEMMA MallocAlignIInv ==
  ASSUME IInv, NEW r \in Request, MallocAlign(r)
  PROVE  IInv'
<1> DEFINE n == Need(r)  res == Result(free, n)  h == HeaderSize(r)  u == Up(h)
           a == ResultAlign(r)  s == r.size  ta == TailAddr(r)  v == Up(TailSize(r))
           f1 == Taken(free, n)
           f2 == IF h = 0 THEN f1 ELSE Freed(f1, res, u)
           f3 == Freed(f2, ta, v)
           b == [addr |-> a, size |-> s, room |-> s]
<1>1. CASE ~AlignSound(r)
  BY <1>1 DEF MallocAlign, IInv, TypeOK
<1>2. CASE AlignSound(r)
  <2>1. /\ free' = f3 /\ live' = live \cup {b} /\ corrupt' = corrupt
        /\ last' = [size |-> s, align |-> r.align, addr |-> a]
        /\ Fits(free, n) /\ r.align >= SIZEOF_CHUNK
    BY <1>2 DEF MallocAlign, Grant, Answer
  <2>2. r.align \in Nat /\ Units(n) /\ s <= Up(s)
    BY RequestFacts, NeedFacts, UpFacts
  <2>3. ListOK(free) /\ LiveOK(free, live) /\ TypeOK
    BY DEF IInv
  <2>4. /\ n \in Nat /\ s \in Nat /\ res \in Nat \ {0} /\ a \in Nat \ {0}
        /\ ta = a + s /\ v \in Nat /\ v >= 8
        /\ res <= a /\ a + s <= res + n /\ ta + v <= res + n
        /\ HeapAddr <= a /\ a + s <= HeapEnd
        /\ ListOK(f1)
        /\ h # 0 => /\ u \in Nat /\ u >= 8 /\ res + u <= a
                    /\ Region(res, u) /\ Clear(f1, res, u)
        /\ ListOK(f2) /\ Clear(f2, a, s)
        /\ Region(ta, v) /\ Clear(f2, ta, v)
    BY <1>2, <2>1, AlignSteps
  <2>5. \A x, m \in Nat : Clear(free, x, m) => Clear(f1, x, m) /\ Apart(x, m, res, n)
    BY <2>1, <2>2, <2>3, <2>4, TakenFacts
  <2>6. Placed(a)
    BY <1>2, <2>1, AlignFacts
  <2> HIDE DEF n, res, h, u, a, s, ta, v, f1
  <2>7. ASSUME NEW x \in Nat, NEW m \in Nat, Clear(f1, x, m), h # 0 => Apart(x, m, res, u)
        PROVE  Clear(f2, x, m)
    <3>1. CASE h = 0
      BY <2>7, <3>1
    <3>2. CASE h # 0
      BY <2>4, <2>7, <3>2, FreedFacts
    <3> QED
      BY <3>1, <3>2
  <2> HIDE DEF f2
  <2>8. /\ ListOK(f3)
        /\ \A x, m \in Nat : Clear(f2, x, m) /\ Apart(x, m, ta, v) => Clear(f3, x, m)
    BY <2>4, FreedFacts
  <2> HIDE DEF f3
  <2>9. Clear(f3, a, s)
    <3>1. Apart(a, s, ta, v)
      BY <2>4 DEF Apart
    <3> QED
      BY <2>4, <2>8, <3>1
  <2>10. ASSUME NEW x \in Nat, NEW m \in Nat, Clear(free, x, m)
         PROVE  Clear(f3, x, m) /\ Apart(x, m, a, s)
    <3>1. Clear(f1, x, m) /\ Apart(x, m, res, n)
      BY <2>5, <2>10
    <3>2. ta \in Nat /\ res <= ta
      BY <2>4
    <3>3. Apart(x, m, a, s) /\ Apart(x, m, ta, v)
      BY <2>4, <3>1, <3>2, ApartPart
    <3>4. h # 0 => Apart(x, m, res, u)
      <4> SUFFICES ASSUME h # 0  PROVE  Apart(x, m, res, u)
        OBVIOUS
      <4>1. u \in Nat /\ res <= res /\ res + u <= res + n
        BY <2>4
      <4> QED
        BY <2>4, <3>1, <4>1, ApartPart
    <3> QED
      BY <2>7, <2>8, <3>1, <3>3, <3>4
  <2>11. b \in Block /\ BlockOK(b) /\ b.addr = a /\ b.room = s
    BY <2>2, <2>4, <2>6 DEF Block, BlockOK
  <2> HIDE DEF b
  <2>12. LiveOK(f3, live \cup {b})
    BY <2>3, <2>9, <2>10, <2>11, Granted
  <2>13. TypeOK'
    BY <2>1, <2>2, <2>3, <2>4, <2>8, <2>11 DEF TypeOK, ListOK
  <2> QED
    BY <2>1, <2>8, <2>12, <2>13 DEF IInv
<1> QED
  BY <1>1, <1>2

LEMMA FreeIInv ==
  ASSUME IInv, NEW b \in live, Free(b)
  PROVE  IInv'
<1> DEFINE u == Up(b.size)  g == Freed(free, b.addr, u)
           sound == Owned(b.addr, FreedSize(b), b.addr, b.addr + b.room)
<1>1. CASE ~sound
  BY <1>1 DEF Free, IInv, TypeOK
<1>2. CASE sound
  <2>1. free' = g /\ live' = live \ {b} /\ last' = last /\ corrupt' = corrupt
    BY <1>2 DEF Free, FreedSize
  <2>2. ListOK(free) /\ LiveOK(free, live) /\ TypeOK
    BY DEF IInv
  <2>3. /\ b.addr \in Nat \ {0} /\ b.size \in Nat /\ b.room \in Nat
        /\ BlockOK(b) /\ Clear(free, b.addr, b.room)
    BY <2>2 DEF LiveOK, Block
  <2>4. b.size > 0 /\ b.addr + u <= b.addr + b.room
    BY <1>2 DEF Owned, FreedSize
  <2>5. u \in Nat /\ u >= 8 /\ Units(u)
    BY <2>3, <2>4, UpFacts DEF Units, MIN_CHUNK_SIZE
  <2> HIDE DEF u
  <2>6. Region(b.addr, u)
    BY <2>3, <2>4, <2>5, HeapFacts DEF Region, BlockOK, MIN_CHUNK_SIZE
  <2>7. Clear(free, b.addr, u)
    BY <2>2, <2>3, <2>4, <2>5, ClearPart
  <2>8. /\ ListOK(g)
        /\ \A x, m \in Nat : Clear(free, x, m) /\ Apart(x, m, b.addr, u) => Clear(g, x, m)
    BY <2>2, <2>6, <2>7, FreedFacts
  <2> HIDE DEF g
  <2>9. ASSUME NEW c \in live, c # b  PROVE  Clear(g, c.addr, c.room)
    <3>1. /\ c.addr \in Nat /\ c.room \in Nat /\ Clear(free, c.addr, c.room)
          /\ Apart(c.addr, c.room, b.addr, b.room)
      BY <2>2, <2>9 DEF LiveOK, Block
    <3>2. Apart(c.addr, c.room, b.addr, u)
      <4>1. b.addr \in Nat /\ b.room \in Nat /\ u \in Nat /\ b.addr <= b.addr
        BY <2>3, <2>5
      <4> QED
        BY <2>4, <3>1, <4>1, ApartPart
    <3> QED
      BY <2>8, <3>1, <3>2
  <2>10. LiveOK(g, live \ {b})
    BY <2>2, <2>9 DEF LiveOK
  <2>11. TypeOK'
    BY <2>1, <2>2, <2>8 DEF TypeOK, ListOK
  <2> QED
    BY <2>1, <2>8, <2>10, <2>11 DEF IInv
<1> QED
  BY <1>1, <1>2

(***************************************************************************)
(* Theorems                                                                *)
(***************************************************************************)

THEOREM Invariance == Spec => []IInv
<1>1. ASSUME IInv, [Next]_vars  PROVE  IInv'
  <2>1. ASSUME NEW r \in Request, Refuse(r)  PROVE  IInv'
    BY <1>1, <2>1, RefuseIInv
  <2>2. ASSUME NEW r \in Request, Malloc(r)  PROVE  IInv'
    BY <1>1, <2>2, MallocIInv
  <2>3. ASSUME NEW r \in Request, MallocAlign(r)  PROVE  IInv'
    BY <1>1, <2>3, MallocAlignIInv
  <2>4. ASSUME NEW b \in live, Free(b)  PROVE  IInv'
    BY <1>1, <2>4, FreeIInv
  <2>5. CASE UNCHANGED vars
    BY <1>1, <2>5 DEF vars, IInv, TypeOK
  <2> QED
    BY <1>1, <2>1, <2>2, <2>3, <2>4, <2>5 DEF Next
<1> QED
  BY <1>1, InitIInv, PTL DEF Spec

\* For any heap and any requests the state is well typed.
THEOREM TypeCorrect == Spec => []TypeOK
<1>1. IInv => TypeOK
  BY DEF IInv
<1> QED
  BY <1>1, Invariance, PTL

\* For any heap and any requests, after any sequence of calls, the list of __malloc
\* is ordered and coalesced and does not leave the heap.
THEOREM FreeListCorrect == Spec => []FreeListCoalesced
<1>1. IInv => FreeListCoalesced
  <2> SUFFICES ASSUME ListOK(free)  PROVE  FreeListCoalesced
    BY DEF IInv
  <2>1. DOMAIN free = 1..Len(free)
    BY ListFacts, LenProperties
  <2> QED
    BY <2>1 DEF ListOK, ChunkOK, FreeListCoalesced, HeapEnd
<1> QED
  BY <1>1, Invariance, PTL

\* For any heap and any requests, a block is disturbed neither by another one nor
\* by what __malloc and __malloc_free write in the free chunks.
THEOREM BlocksCorrect == Spec => []BlocksIntact
<1>1. IInv => BlocksIntact
  <2> SUFFICES ASSUME ListOK(free), LiveOK(free, live)  PROVE  BlocksIntact
    BY DEF IInv
  <2>1. DOMAIN free = 1..Len(free)
    BY ListFacts, LenProperties
  <2> QED
    BY <2>1 DEF LiveOK, BlockOK, Clear, BlocksIntact, HeapEnd
<1> QED
  BY <1>1, Invariance, PTL

(***************************************************************************)
(* The addresses a list holds                                              *)
(***************************************************************************)

Held(f) == UNION {Bytes(f[i].addr, f[i].size) : i \in DOMAIN f}

LEMMA HeldFacts ==
  ASSUME NEW f, ListOK(f)
  PROVE  \A x : x \in Held(f) <=> x \in Nat /\ ~Clear(f, x, 1)
<1>1. DOMAIN f = 1..Len(f)
  BY ListFacts, LenProperties
<1>2. \A i \in 1..Len(f) : f[i].addr \in Nat /\ f[i].size \in Nat /\ f[i].size >= 8
  BY ListFacts, ChunkFacts
<1>3. ASSUME NEW a \in Nat, NEW n \in Nat, n >= 8, NEW x
      PROVE  x \in Bytes(a, n) <=> x \in Nat /\ ~Apart(x, 1, a, n)
  <2>1. x \in Bytes(a, n) => x \in Nat /\ ~Apart(x, 1, a, n)
    BY <1>3 DEF Bytes, Apart
  <2>2. ASSUME x \in Nat, ~Apart(x, 1, a, n)  PROVE  x \in Bytes(a, n)
    BY <1>3, <2>2 DEF Bytes, Apart
  <2> QED
    BY <2>1, <2>2
<1>4. \A i \in 1..Len(f) : \A x :
        x \in Bytes(f[i].addr, f[i].size) <=> x \in Nat /\ ~Apart(x, 1, f[i].addr, f[i].size)
  BY <1>2, <1>3
<1>5. \A x : x \in Held(f) <=> \E i \in 1..Len(f) : x \in Bytes(f[i].addr, f[i].size)
  BY <1>1 DEF Held
<1> QED
  BY <1>4, <1>5 DEF Clear

\* A request that no chunk is large enough for has no hole either: between two chunks
\* there is always a byte that is not free.
LEMMA NoHole ==
  ASSUME NEW f, ListOK(f), NEW n \in Nat, ~Fits(f, n), NEW x \in Held(f)
  PROVE  ~(Bytes(x, n) \subseteq Held(f))
<1>1. x \in Nat /\ ~Clear(f, x, 1)
  BY HeldFacts
<1>2. PICK i \in 1..Len(f) : ~Apart(x, 1, f[i].addr, f[i].size)
  BY <1>1 DEF Clear
<1>3. /\ \A j \in 1..Len(f) : f[j].addr \in Nat /\ f[j].size \in Nat /\ f[j].size >= 8
                              /\ End(f[j]) = f[j].addr + f[j].size
      /\ \A j, k \in 1..Len(f) : j < k => End(f[j]) < f[k].addr
      /\ DOMAIN f = 1..Len(f)
  BY ListFacts, ChunkFacts, LenProperties
<1>4. PICK a \in Nat, m \in Nat : /\ a = f[i].addr /\ m = f[i].size /\ End(f[i]) = a + m
                                  /\ m < n
  BY <1>3 DEF Fits
<1>5. a <= x /\ x < a + m
  BY <1>1, <1>2, <1>4 DEF Apart
<1>6. a + m \in Bytes(x, n)
  BY <1>1, <1>4, <1>5 DEF Bytes
<1>7. ASSUME a + m \in Held(f)  PROVE  FALSE
  <2>1. ~Clear(f, a + m, 1)
    BY <1>7, HeldFacts
  <2>2. PICK j \in 1..Len(f) : ~Apart(a + m, 1, f[j].addr, f[j].size)
    BY <2>1 DEF Clear
  <2>3. PICK b \in Nat, l \in Nat : b = f[j].addr /\ l = f[j].size /\ End(f[j]) = b + l
    BY <1>3
  <2>4. b <= a + m /\ a + m < b + l
    BY <2>2, <2>3 DEF Apart
  <2>5. ~(i < j) /\ ~(j < i)
    <3>1. i < j => a + m < b
      BY <1>3, <1>4, <2>3
    <3>2. j < i => b + l < a
      BY <1>3, <1>4, <2>3
    <3> QED
      BY <2>4, <3>1, <3>2
  <2>6. i = j
    BY <2>5
  <2> QED
    BY <1>4, <2>3, <2>4, <2>6
<1> QED
  BY <1>6, <1>7

\* What __malloc takes was free, and is no more.
LEMMA TakenHeld ==
  ASSUME NEW f, ListOK(f), NEW n \in Nat, Units(n), Fits(f, n)
  PROVE  /\ Bytes(Result(f, n), n) \subseteq Held(f)
         /\ Held(Taken(f, n)) = Held(f) \ Bytes(Result(f, n), n)
<1> DEFINE a == Result(f, n)  g == Taken(f, n)
<1>1. /\ ListOK(g) /\ a \in Nat /\ Clear(g, a, n)
      /\ \A y \in Nat : a <= y /\ y < a + n => ~Clear(f, y, 1)
      /\ \A x, m \in Nat : Clear(f, x, m) <=> Clear(g, x, m) /\ Apart(x, m, a, n)
  BY TakenFacts
<1> HIDE DEF a, g
<1>2. ASSUME NEW y \in Bytes(a, n)  PROVE  y \in Held(f) /\ y \notin Held(g)
  <2>1. y \in Nat /\ a <= y /\ y < a + n
    BY <1>1 DEF Bytes
  <2>2. Clear(g, y, 1)
    BY <1>1, <2>1, ClearPart
  <2> QED
    BY <1>1, <2>1, <2>2, HeldFacts
<1>3. Held(g) \subseteq Held(f)
  BY <1>1, HeldFacts
<1>4. ASSUME NEW y \in Held(f), y \notin Bytes(a, n)  PROVE  y \in Held(g)
  <2>1. y \in Nat /\ ~Clear(f, y, 1)
    BY HeldFacts
  <2>2. Apart(y, 1, a, n)
    BY <1>1, <1>4, <2>1 DEF Apart, Bytes
  <2> QED
    BY <1>1, <2>1, <2>2, HeldFacts
<1> QED
  BY <1>2, <1>3, <1>4 DEF a, g

\* What __malloc_free is given is free, and nothing else changes.
LEMMA FreedHeld ==
  ASSUME NEW f, ListOK(f), NEW a, NEW n, Region(a, n), Clear(f, a, n)
  PROVE  Held(Freed(f, a, n)) = Held(f) \cup Bytes(a, n)
<1> DEFINE g == Freed(f, a, n)
<1>1. /\ ListOK(g)
      /\ \A x \in Nat : Clear(f, x, 1) /\ Apart(x, 1, a, n) <=> Clear(g, x, 1)
  BY FreedFacts
<1> HIDE DEF g
<1>2. a \in Nat /\ n \in Nat /\ n >= 8
  BY DEF Region, MIN_CHUNK_SIZE
<1>3. \A x \in Nat : x \in Bytes(a, n) <=> ~Apart(x, 1, a, n)
  BY <1>2 DEF Bytes, Apart
<1>4. Bytes(a, n) \subseteq Nat
  BY <1>2 DEF Bytes
<1>5. \A x : x \in Held(g) <=> x \in Held(f) \/ x \in Bytes(a, n)
  BY <1>1, <1>3, <1>4, HeldFacts
<1> QED
  BY <1>5 DEF g

(***************************************************************************)
(* The refinement                                                          *)
(***************************************************************************)

LEMMA HeldFree == FreeBytes = Held(free) /\ FreeBytes' = Held(free')
BY DEF FreeBytes, Held

LEMMA RefuseServes ==
  ASSUME IInv, NEW r \in Request, Refuse(r)
  PROVE  Service!Refuse(r)
<1>1. ~Fits(free, Need(r)) /\ free' = free /\ live' = live
  BY DEF Refuse
<1>2. last' = [size |-> r.size, align |-> r.align, addr |-> 0]
  BY DEF Refuse, Answer, NULL
<1>3. ListOK(free) /\ Need(r) \in Nat
  BY NeedFacts DEF IInv
<1>4. ~Service!Hole(Need(r))
  BY <1>1, <1>3, NoHole, HeldFree DEF Service!Hole, Service!Bytes, Bytes
<1>5. FreeBytes' = FreeBytes
  BY <1>1, HeldFree
<1> QED
  BY <1>1, <1>2, <1>4, <1>5 DEF Service!Refuse

\* A call that gives a caller the block b of what was free is a grant.
LEMMA Serves ==
  ASSUME NEW r, NEW b,
         last' = [size |-> r.size, align |-> r.align, addr |-> b.addr],
         b.addr % r.align = 0, b.size = r.size, b.size <= b.room,
         live' = live \cup {b},
         Bytes(b.addr, b.room) \subseteq FreeBytes,
         FreeBytes' \subseteq FreeBytes \ Bytes(b.addr, b.room)
  PROVE  Service!Grant(r)
<1>1. last'.size = r.size /\ last'.align = r.align /\ last'.addr = b.addr
  OBVIOUS
<1>2. b \in live'
  OBVIOUS
<1>3. Service!Bytes(b.addr, b.room) = Bytes(b.addr, b.room)
  BY DEF Service!Bytes, Bytes
<1> HIDE DEF FreeBytes
<1> QED
  BY <1>1, <1>2, <1>3 DEF Service!Grant

LEMMA MallocServes ==
  ASSUME Aligned, IInv, NEW r \in Request, Malloc(r)
  PROVE  Service!Grant(r)
<1> DEFINE n == Need(r)  a == Result(free, n)
           b == [addr |-> a, size |-> r.size, room |-> n]
<1>1. /\ free' = Taken(free, n) /\ live' = live \cup {b}
      /\ last' = [size |-> r.size, align |-> r.align, addr |-> a]
      /\ r.align < SIZEOF_CHUNK /\ Fits(free, n)
  BY DEF Malloc, Grant, Answer
<1>2. ListOK(free) /\ n \in Nat /\ Units(n) /\ r.size <= n /\ r.align \in Alignment
  BY <1>1, NeedFacts, RequestFacts DEF IInv
<1>3. a \in Nat /\ Placed(a)
  BY <1>1, <1>2, TakenFacts
<1>4. /\ Bytes(a, n) \subseteq FreeBytes
      /\ FreeBytes' \subseteq FreeBytes \ Bytes(a, n)
  BY <1>1, <1>2, TakenHeld, HeldFree
<1> HIDE DEF a, n
<1>5. a % r.align = 0
  <2>1. a % 8 = 0
    BY <1>3 DEF Placed, Units, MIN_CHUNK_SIZE
  <2>2. r.align \in {1, 2, 4, 8}
    BY <1>1, <1>2 DEF Alignment, SIZEOF_CHUNK
  <2>3. \A x \in Nat : x % 8 = 0 => x % 1 = 0 /\ x % 2 = 0 /\ x % 4 = 0
    BY Z3
  <2> QED
    BY <1>3, <2>1, <2>2, <2>3
<1>6. b.addr = a /\ b.size = r.size /\ b.room = n
  OBVIOUS
<1> HIDE DEF b
<1> QED
  BY <1>1, <1>2, <1>4, <1>5, <1>6, Serves

LEMMA MallocAlignServes ==
  ASSUME IInv, NEW r \in Request, MallocAlign(r)
  PROVE  [Service!Next]_Service!vars
<1> DEFINE n == Need(r)  res == Result(free, n)  h == HeaderSize(r)  u == Up(h)
           a == ResultAlign(r)  s == r.size  ta == TailAddr(r)  v == Up(TailSize(r))
           f1 == Taken(free, n)
           f2 == IF h = 0 THEN f1 ELSE Freed(f1, res, u)
           f3 == Freed(f2, ta, v)
           b == [addr |-> a, size |-> s, room |-> s]
<1>1. CASE ~AlignSound(r)
  <2>1. free' = free /\ live' = live /\ last' = last
    BY <1>1 DEF MallocAlign
  <2> QED
    BY <2>1, HeldFree DEF Service!vars
<1>2. CASE AlignSound(r)
  <2>1. /\ free' = f3 /\ live' = live \cup {b}
        /\ last' = [size |-> s, align |-> r.align, addr |-> a]
        /\ Fits(free, n) /\ r.align >= SIZEOF_CHUNK
    BY <1>2 DEF MallocAlign, Grant, Answer
  <2>2. /\ n \in Nat /\ s \in Nat /\ res \in Nat \ {0} /\ a \in Nat \ {0}
        /\ ta = a + s /\ v \in Nat /\ v >= 8
        /\ res <= a /\ a + s <= res + n /\ ta + v <= res + n
        /\ ListOK(f1)
        /\ h # 0 => /\ u \in Nat /\ u >= 8 /\ res + u <= a
                    /\ Region(res, u) /\ Clear(f1, res, u)
        /\ ListOK(f2) /\ Region(ta, v) /\ Clear(f2, ta, v)
    BY <1>2, <2>1, AlignSteps
  <2>3. a % r.align = 0
    BY <1>2, <2>1, AlignFacts
  <2>4. ListOK(free) /\ Units(n)
    BY NeedFacts DEF IInv
  <2>5. /\ Bytes(res, n) \subseteq Held(free)
        /\ Held(f1) \subseteq Held(free) \ Bytes(res, n)
    BY <2>1, <2>2, <2>4, TakenHeld
  <2> HIDE DEF n, res, h, u, a, s, ta, v, f1
  <2>6. Held(f2) \subseteq Held(f1) \cup (Bytes(res, n) \ Bytes(a, s))
    <3>1. CASE h = 0
      BY <3>1
    <3>2. CASE h # 0
      <4>1. Held(f2) = Held(f1) \cup Bytes(res, u)
        BY <2>2, <3>2, FreedHeld
      <4>2. Bytes(res, u) \subseteq Bytes(res, n) \ Bytes(a, s)
        BY <2>2, <3>2 DEF Bytes
      <4> QED
        BY <4>1, <4>2
    <3> QED
      BY <3>1, <3>2
  <2> HIDE DEF f2
  <2>7. Held(f3) = Held(f2) \cup Bytes(ta, v)
    BY <2>2, FreedHeld
  <2> HIDE DEF f3
  <2>8. /\ Bytes(ta, v) \subseteq Bytes(res, n) \ Bytes(a, s)
        /\ Bytes(a, s) \subseteq Bytes(res, n)
    BY <2>2 DEF Bytes
  <2>9. /\ Bytes(a, s) \subseteq FreeBytes
        /\ FreeBytes' \subseteq FreeBytes \ Bytes(a, s)
    BY <2>1, <2>5, <2>6, <2>7, <2>8, HeldFree
  <2>10. b.addr = a /\ b.size = r.size /\ b.room = s /\ b.size <= b.room
    BY <2>2 DEF s
  <2> HIDE DEF b
  <2>11. Service!Grant(r)
    <3>1. last' = [size |-> r.size, align |-> r.align, addr |-> b.addr]
      BY <2>1, <2>10 DEF s
    <3> QED
      BY <2>1, <2>3, <2>9, <2>10, <3>1, Serves
  <2> QED
    BY <2>11 DEF Service!Next
<1> QED
  BY <1>1, <1>2

\* A block that is given back is free.
LEMMA FreeGives ==
  ASSUME IInv, NEW b \in live, Free(b),
         Owned(b.addr, FreedSize(b), b.addr, b.addr + b.room)
  PROVE  FreeBytes' = FreeBytes \cup Bytes(b.addr, b.room)
<1> DEFINE u == Up(b.size)  g == Freed(free, b.addr, u)
<1>1. free' = g
  BY DEF Free, FreedSize
<1>2. ListOK(free) /\ LiveOK(free, live)
  BY DEF IInv
<1>3. /\ b.addr \in Nat \ {0} /\ b.size \in Nat /\ b.room \in Nat
      /\ BlockOK(b) /\ Clear(free, b.addr, b.room)
  BY <1>2 DEF LiveOK, Block
<1>4. b.size > 0 /\ b.addr + u <= b.addr + b.room /\ b.room <= u
  BY <1>3 DEF Owned, FreedSize, BlockOK
<1>5. u \in Nat /\ u >= 8 /\ Units(u)
  BY <1>3, <1>4, UpFacts DEF Units, MIN_CHUNK_SIZE
<1> HIDE DEF u
<1>6. u = b.room
  BY <1>3, <1>4, <1>5
<1>7. Region(b.addr, u)
  BY <1>3, <1>5, <1>6, HeapFacts DEF Region, BlockOK, MIN_CHUNK_SIZE
<1>8. Held(g) = Held(free) \cup Bytes(b.addr, b.room)
  BY <1>2, <1>3, <1>6, <1>7, FreedHeld
<1> HIDE DEF g
<1> QED
  BY <1>1, <1>8, HeldFree

LEMMA FreeServes ==
  ASSUME IInv, NEW b \in live, Free(b)
  PROVE  [Service!Next]_Service!vars
<1> DEFINE sound == Owned(b.addr, FreedSize(b), b.addr, b.addr + b.room)
<1>1. CASE ~sound
  <2>1. free' = free /\ live' = live /\ last' = last
    BY <1>1 DEF Free
  <2> QED
    BY <2>1, HeldFree DEF Service!vars
<1>2. CASE sound
  <2>1. live' = live \ {b} /\ last' = last
    BY <1>2 DEF Free
  <2>2. FreeBytes' = FreeBytes \cup Service!Bytes(b.addr, b.room)
    BY <1>2, FreeGives DEF Service!Bytes, Bytes
  <2>3. Service!Release(b)
    BY <2>1, <2>2 DEF Service!Release
  <2> QED
    BY <2>3 DEF Service!Next
<1> QED
  BY <1>1, <1>2

\* For any heap and any requests of whole units, the allocator is an abstract one that
\* has no list: what it gives away was free and is aligned as asked, what it takes
\* back can be given away again, and it refuses a request only if the free memory has
\* no hole for it (__malloc, __malloc_align, __malloc_free).
THEOREM Implementation ==
  ASSUME Aligned
  PROVE  Spec => ImplementsHeap
<1>1. Init => Service!Init
  BY DEF Init, Service!Init, NULL
<1>2. ASSUME IInv, [Next]_vars  PROVE  [Service!Next]_Service!vars
  <2>1. ASSUME NEW r \in Request, Refuse(r)  PROVE  [Service!Next]_Service!vars
    BY <1>2, <2>1, RefuseServes DEF Service!Next
  <2>2. ASSUME NEW r \in Request, Malloc(r)  PROVE  [Service!Next]_Service!vars
    BY <1>2, <2>2, MallocServes DEF Service!Next
  <2>3. ASSUME NEW r \in Request, MallocAlign(r)  PROVE  [Service!Next]_Service!vars
    BY <1>2, <2>3, MallocAlignServes
  <2>4. ASSUME NEW b \in live, Free(b)  PROVE  [Service!Next]_Service!vars
    BY <1>2, <2>4, FreeServes
  <2>5. CASE UNCHANGED vars
    BY <2>5, HeldFree DEF vars, Service!vars
  <2> QED
    BY <1>2, <2>1, <2>2, <2>3, <2>4, <2>5 DEF Next
<1> QED
  BY <1>1, <1>2, Invariance, PTL DEF Spec, ImplementsHeap, Service!Spec

(***************************************************************************)
(* No memory is lost                                                       *)
(***************************************************************************)

\* An aligned block, its header and its tail are all of what was taken.
LEMMA AlignTight ==
  ASSUME Aligned, IInv, NEW r \in Request, r.align >= SIZEOF_CHUNK,
         Fits(free, Need(r)), AlignSound(r)
  PROVE  LET res == Result(free, Need(r)) IN
         /\ HeaderSize(r) = 0 => ResultAlign(r) = res
         /\ HeaderSize(r) # 0 => res + Up(HeaderSize(r)) = ResultAlign(r)
         /\ TailAddr(r) + Up(TailSize(r)) = res + Need(r)
<1> DEFINE n == Need(r)  res == Result(free, n)  h == HeaderSize(r)
           t == TailSize(r)  a == ResultAlign(r)  s == r.size  l == r.align
<1>1. /\ s \in Nat /\ l \in Nat /\ l > 0 /\ l \in Alignment /\ n \in Nat /\ Units(n)
      /\ s % 8 = 0
  BY RequestFacts, NeedFacts DEF Aligned, Units, MIN_CHUNK_SIZE
<1>2. res \in Nat \ {0} /\ res % 8 = 0
  BY <1>1, TakenFacts DEF IInv, Placed, Units, MIN_CHUNK_SIZE
<1>3. PICK y \in Int : y = AlignUp(res, l) /\ y % 8 = 0 /\ l % 8 = 0
  BY <1>1, <1>2, AlignUpFacts
<1>4. n = s + l + 24
  <2>1. n = Up(s + l + 24)
    BY <1>1 DEF Need, SIZEOF_CHUNK
  <2>2. s + l + 24 \in Nat /\ (s + l + 24) % 8 = 0
    BY <1>1, <1>3, Z3
  <2> QED
    BY <2>1, <2>2, UpFacts
<1>5. /\ h = y - res /\ t = l + 24 - h
      /\ a = y + (IF h # 0 /\ h < 12 THEN l ELSE 0)
      /\ TailAddr(r) = a + s
  BY <1>3 DEF HeaderSize, TailSize, ResultAlign, TailAddr, SIZEOF_CHUNK
<1>6. /\ t \in Nat /\ t > 0
      /\ h # 0 => h > 0
      /\ TailAddr(r) + Up(t) <= res + n
  BY AlignFacts
<1> HIDE DEF n, res, h, t, a
<1>7. h \in Nat /\ h % 8 = 0 /\ t % 8 = 0
  <2>1. h \in Nat
    <3>1. h \in Int
      BY <1>2, <1>5
    <3> QED
      BY <1>6, <3>1
  <2>2. (y - res) % 8 = 0
    BY <1>2, <1>3, Z3
  <2>3. (l + 24 - h) % 8 = 0
    <3>1. h % 8 = 0
      BY <1>5, <2>2
    <3>2. l % 8 = 0
      BY <1>3
    <3> QED
      BY <1>1, <2>1, <3>1, <3>2, Z3
  <2> QED
    BY <1>5, <2>1, <2>2, <2>3
<1>8. Up(h) = h /\ Up(t) = t
  BY <1>6, <1>7, UpFacts
<1>9. a = y
  <2> SUFFICES ASSUME h # 0 /\ h < 12  PROVE  FALSE
    BY <1>3, <1>5
  <2>1. a = y + l
    BY <1>5
  <2> QED
    BY <1>1, <1>2, <1>3, <1>4, <1>5, <1>6, <1>7, <1>8, <2>1
<1>10. /\ h = 0 => a = res
       /\ res + h = a /\ (a + s) + t = res + n
  <2>1. h = y - res /\ t = l + 24 - h /\ a = y /\ n = s + l + 24
    BY <1>4, <1>5, <1>9
  <2>2. s \in Nat /\ l \in Nat /\ res \in Nat
    BY <1>1, <1>2
  <2> HIDE DEF s, l
  <2> QED
    BY <2>1, <2>2
<1> QED
  BY <1>5, <1>8, <1>10 DEF n, res, h, t, a

LEMMA LiveGrown ==
  ASSUME NEW b, live' = live \cup {b}
  PROVE  LiveBytes' = LiveBytes \cup Bytes(b.addr, b.room)
BY DEF LiveBytes

\* A call moves bytes between the list and the blocks.
LEMMA BytesKept ==
  ASSUME Aligned, IInv, [Next]_vars
  PROVE  FreeBytes' \cup LiveBytes' = FreeBytes \cup LiveBytes
<1> DEFINE Goal == FreeBytes' \cup LiveBytes' = FreeBytes \cup LiveBytes
<1>0. ListOK(free) /\ LiveOK(free, live)
  BY DEF IInv
<1>1. ASSUME free' = free, live' = live  PROVE  Goal
  BY <1>1 DEF FreeBytes, LiveBytes
<1>2. ASSUME NEW r \in Request, Malloc(r)  PROVE  Goal
  <2> DEFINE n == Need(r)  a == Result(free, n)
             b == [addr |-> a, size |-> r.size, room |-> n]
  <2>1. free' = Taken(free, n) /\ live' = live \cup {b} /\ Fits(free, n)
    BY <1>2 DEF Malloc, Grant
  <2>2. n \in Nat /\ Units(n)
    BY NeedFacts
  <2>3. LiveBytes' = LiveBytes \cup Bytes(a, n)
    <3>1. b.addr = a /\ b.room = n
      OBVIOUS
    <3> HIDE DEF a, n, b
    <3> QED
      BY <2>1, <3>1, LiveGrown
  <2>4. Bytes(a, n) \subseteq Held(free) /\ Held(free') = Held(free) \ Bytes(a, n)
    BY <1>0, <2>1, <2>2, TakenHeld
  <2> QED
    BY <2>3, <2>4, HeldFree
<1>3. ASSUME NEW r \in Request, MallocAlign(r), AlignSound(r)  PROVE  Goal
  <2> DEFINE n == Need(r)  res == Result(free, n)  h == HeaderSize(r)  u == Up(h)
             a == ResultAlign(r)  s == r.size  ta == TailAddr(r)  v == Up(TailSize(r))
             f1 == Taken(free, n)
             f2 == IF h = 0 THEN f1 ELSE Freed(f1, res, u)
             f3 == Freed(f2, ta, v)
             b == [addr |-> a, size |-> s, room |-> s]
             header == IF h = 0 THEN {} ELSE Bytes(res, u)
  <2>1. /\ free' = f3 /\ live' = live \cup {b} /\ Fits(free, n) /\ r.align >= SIZEOF_CHUNK
    BY <1>3 DEF MallocAlign, Grant
  <2>2. /\ n \in Nat /\ s \in Nat /\ res \in Nat \ {0} /\ a \in Nat \ {0}
        /\ ta = a + s /\ v \in Nat /\ v >= 8
        /\ ListOK(f1)
        /\ h # 0 => /\ u \in Nat /\ u >= 8
                    /\ Region(res, u) /\ Clear(f1, res, u)
        /\ ListOK(f2) /\ Region(ta, v) /\ Clear(f2, ta, v)
    BY <1>3, <2>1, AlignSteps
  <2>3. /\ h = 0 => a = res
        /\ h # 0 => res + u = a
        /\ ta + v = res + n
    BY <1>3, <2>1, AlignTight
  <2>4. Units(n)
    BY NeedFacts
  <2>5. Bytes(res, n) \subseteq Held(free) /\ Held(f1) = Held(free) \ Bytes(res, n)
    BY <1>0, <2>1, <2>2, <2>4, TakenHeld
  <2>6. LiveBytes' = LiveBytes \cup Bytes(a, s)
    <3>1. b.addr = a /\ b.room = s
      OBVIOUS
    <3> HIDE DEF a, s, b
    <3> QED
      BY <2>1, <3>1, LiveGrown
  <2> HIDE DEF n, res, h, u, a, s, ta, v, f1
  <2>7. Held(f2) = Held(f1) \cup header
    <3>1. h # 0 => Held(Freed(f1, res, u)) = Held(f1) \cup Bytes(res, u)
      BY <2>2, FreedHeld
    <3> QED
      BY <3>1
  <2>8. Bytes(res, n) = header \cup Bytes(a, s) \cup Bytes(ta, v)
    <3>1. CASE h = 0
      BY <2>2, <2>3, <3>1 DEF Bytes
    <3>2. CASE h # 0
      BY <2>2, <2>3, <3>2 DEF Bytes
    <3> QED
      BY <3>1, <3>2
  <2> HIDE DEF f2, header
  <2>9. Held(f3) = Held(f2) \cup Bytes(ta, v)
    BY <2>2, FreedHeld
  <2> QED
    BY <2>1, <2>5, <2>6, <2>7, <2>8, <2>9, HeldFree
<1>4. ASSUME NEW b \in live, Free(b), Owned(b.addr, FreedSize(b), b.addr, b.addr + b.room)
      PROVE  Goal
  <2>1. FreeBytes' = FreeBytes \cup Bytes(b.addr, b.room) /\ live' = live \ {b}
    BY <1>4, FreeGives DEF Free
  <2>2. LiveBytes = LiveBytes' \cup Bytes(b.addr, b.room)
    BY <2>1 DEF LiveBytes
  <2> QED
    BY <2>1, <2>2
<1>5. ASSUME NEW r \in Request, Refuse(r)  PROVE  Goal
  BY <1>1, <1>5 DEF Refuse
<1>6. ASSUME NEW r \in Request, MallocAlign(r), ~AlignSound(r)  PROVE  Goal
  BY <1>1, <1>6 DEF MallocAlign
<1>7. ASSUME NEW b \in live, Free(b), ~Owned(b.addr, FreedSize(b), b.addr, b.addr + b.room)
      PROVE  Goal
  BY <1>1, <1>7 DEF Free
<1>8. CASE UNCHANGED vars
  BY <1>1, <1>8 DEF vars
<1> QED
  BY <1>2, <1>3, <1>4, <1>5, <1>6, <1>7, <1>8 DEF Next

\* For any heap and any requests of whole units, every byte of the heap stays in the
\* list or in a block: neither __malloc_align nor the coalescing of __malloc_free
\* loses any.
THEOREM NoByteLost ==
  ASSUME Aligned
  PROVE  Spec => []NothingLost
<1>1. ASSUME Init  PROVE  NothingLost
  <2> DEFINE c == [addr |-> HeapAddr, size |-> HeapSize]
  <2>1. free = <<c>> /\ live = {}
    BY <1>1 DEF Init
  <2>2. c.addr = HeapAddr /\ c.size = HeapSize
    OBVIOUS
  <2> HIDE DEF c
  <2>3. DOMAIN free = {1} /\ free[1] = c
    BY <2>1
  <2>4. FreeBytes = Bytes(HeapAddr, HeapSize)
    BY <2>2, <2>3 DEF FreeBytes
  <2>5. LiveBytes = {}
    BY <2>1 DEF LiveBytes
  <2> QED
    BY <2>4, <2>5 DEF NothingLost
<1>2. ASSUME IInv, NothingLost, [Next]_vars  PROVE  NothingLost'
  BY <1>2, BytesKept DEF NothingLost, Bytes, HeapAddr, HeapSize
<1> QED
  BY <1>1, <1>2, Invariance, PTL DEF Spec

(***************************************************************************)
(* Where the allocator corrupts memory                                     *)
(***************************************************************************)

\* The room before the aligned address cannot hold a header.
TooNear(r) == r.align >= SIZEOF_CHUNK /\ HeaderSize(r) \in 1..(SIZEOF_CHUNK - 1)

\* A block is as large as the size it is given back with, which was asked for.
Roomy == \A b \in live : Up(b.size) <= b.room /\ \E r \in Request : b.size = r.size

\* Rounding up goes up, by less than the alignment.
LEMMA AlignUpNear ==
  ASSUME NEW n \in Nat, NEW m \in Alignment, m >= SIZEOF_CHUNK
  PROVE  n <= AlignUp(n, m) /\ AlignUp(n, m) < n + m
<1>1. m \in Alignment \ {1, 2, 4, 8}
  BY DEF SIZEOF_CHUNK
<1>2. /\ n <= ((n + m - 1) \div m) * m
      /\ ((n + m - 1) \div m) * m < n + m
  BY <1>1, Z3 DEF Alignment
<1> QED
  BY <1>2 DEF AlignUp

\* Unless the room is too small, __malloc_align gives back what it owns.
LEMMA SoundWhenFar ==
  ASSUME Aligned, IInv, NEW r \in Request, r.align >= SIZEOF_CHUNK,
         Fits(free, Need(r)), ~TooNear(r)
  PROVE  AlignSound(r)
<1> DEFINE n == Need(r)  res == Result(free, n)  h == HeaderSize(r)
           t == TailSize(r)  a == ResultAlign(r)  s == r.size  l == r.align
<1>1. /\ s \in Nat /\ l \in Nat /\ l > 0 /\ l \in Alignment /\ n \in Nat /\ Units(n)
      /\ s % 8 = 0
  BY RequestFacts, NeedFacts DEF Aligned, Units, MIN_CHUNK_SIZE
<1>2. res \in Nat \ {0} /\ res % 8 = 0
  BY <1>1, TakenFacts DEF IInv, Placed, Units, MIN_CHUNK_SIZE
<1>3. PICK y \in Int : /\ y = AlignUp(res, l) /\ y % 8 = 0 /\ l % 8 = 0
                      /\ res <= y /\ y < res + l
  BY <1>1, <1>2, AlignUpFacts, AlignUpNear
<1>4. n = s + l + 24
  <2>1. n = Up(s + l + 24)
    BY <1>1 DEF Need, SIZEOF_CHUNK
  <2>2. s + l + 24 \in Nat /\ (s + l + 24) % 8 = 0
    BY <1>1, <1>3, Z3
  <2> QED
    BY <2>1, <2>2, UpFacts
<1>5. /\ h = y - res /\ t = l + 24 - h
      /\ a = y + (IF h # 0 /\ h < 12 THEN l ELSE 0)
      /\ TailAddr(r) = a + s
  BY <1>3 DEF HeaderSize, TailSize, ResultAlign, TailAddr, SIZEOF_CHUNK
<1>6. h \notin 1..11
  BY DEF TooNear, SIZEOF_CHUNK
<1> HIDE DEF n, res, h, t, a, s, l
<1>7. h \in Nat /\ t \in Nat /\ t > 0 /\ h % 8 = 0 /\ t % 8 = 0
  <2>1. h \in Nat /\ h < l /\ t \in Nat /\ t > 0
    <3>1. y \in Int /\ res \in Nat /\ l \in Nat /\ res <= y /\ y < res + l
      BY <1>1, <1>2, <1>3
    <3>2. y - res \in Nat /\ y - res < l
      BY <3>1
    <3>3. h = y - res /\ t = l + 24 - h
      BY <1>5
    <3>4. h \in Nat /\ h < l
      BY <3>2, <3>3
    <3>5. l + 24 - h \in Nat /\ l + 24 - h > 0
      BY <3>1, <3>4
    <3> QED
      BY <3>3, <3>4, <3>5
  <2>2. (y - res) % 8 = 0
    BY <1>2, <1>3, Z3
  <2>3. (l + 24 - h) % 8 = 0
    <3>1. h % 8 = 0 /\ l % 8 = 0
      BY <1>3, <1>5, <2>2
    <3> QED
      BY <1>1, <2>1, <3>1, Z3
  <2> QED
    BY <1>5, <2>1, <2>2, <2>3
<1>8. Up(h) = h /\ Up(t) = t
  BY <1>7, UpFacts
<1>9. h # 0 => Owned(res, h, res, a)
  <2> SUFFICES ASSUME h # 0
               PROVE  h > 0 /\ res <= res /\ res + Up(h) <= a
    BY DEF Owned
  <2>1. h > 0 /\ ~(h < 12)
    BY <1>6, <1>7
  <2>2. a = y + 0
    BY <1>5, <2>1
  <2> QED
    BY <1>2, <1>3, <1>5, <1>8, <2>1, <2>2
<1>10. Owned(TailAddr(r), t, TailAddr(r), res + n)
  <2>1. ~(h # 0 /\ h < 12)
    BY <1>6, <1>7
  <2>2. a = y /\ TailAddr(r) = y + s
    BY <1>1, <1>3, <1>5, <2>1
  <2>3. (y + s) + t <= res + n /\ y + s <= y + s
    <3>1. y \in Int /\ res \in Nat /\ l \in Nat /\ s \in Nat
      BY <1>1, <1>2, <1>3
    <3>2. t = l + 24 - (y - res) /\ n = s + l + 24
      BY <1>4, <1>5
    <3>3. (y + s) + (l + 24 - (y - res)) <= res + (s + l + 24) /\ y + s <= y + s
      BY <3>1
    <3> QED
      BY <3>2, <3>3
  <2> QED
    BY <1>7, <1>8, <2>2, <2>3 DEF Owned
<1> QED
  BY <1>9, <1>10 DEF AlignSound, n, res, h, t, a

LEMMA NextRoomy ==
  ASSUME Aligned, IInv, Roomy, [Next]_vars
  PROVE  Roomy'
<1>1. ASSUME NEW r \in Request, NEW b, Up(b.size) <= b.room, b.size = r.size,
             live' \subseteq live \cup {b}
      PROVE  Roomy'
  BY <1>1 DEF Roomy
<1>2. ASSUME live' \subseteq live
      PROVE  Roomy'
  BY <1>2 DEF Roomy
<1>3. ASSUME NEW r \in Request, Malloc(r)
      PROVE  Roomy'
  <2> DEFINE b == [addr |-> Result(free, Need(r)), size |-> r.size, room |-> Need(r)]
  <2>1. live' = live \cup {b} /\ Need(r) = Up(r.size) /\ Need(r) \in Nat
    BY <1>3, NeedFacts DEF Malloc, Grant
  <2>2. b.size = r.size /\ Up(b.size) <= b.room
    BY <2>1
  <2> HIDE DEF b
  <2> QED
    BY <1>1, <2>1, <2>2
<1>4. ASSUME NEW r \in Request, MallocAlign(r)
      PROVE  Roomy'
  <2>1. CASE ~AlignSound(r)
    BY <1>2, <1>4, <2>1 DEF MallocAlign
  <2>2. CASE AlignSound(r)
    <3> DEFINE b == [addr |-> ResultAlign(r), size |-> r.size, room |-> r.size]
    <3>1. live' = live \cup {b} /\ r.align >= SIZEOF_CHUNK
      BY <1>4, <2>2 DEF MallocAlign, Grant
    <3>2. r.size \in Nat /\ Up(r.size) = r.size
      BY <3>1, RequestFacts, UpFacts DEF Aligned, Units, MIN_CHUNK_SIZE
    <3>3. b.size = r.size /\ Up(b.size) <= b.room
      BY <3>2
    <3> HIDE DEF b
    <3> QED
      BY <1>1, <3>1, <3>3
  <2> QED
    BY <2>1, <2>2
<1>5. ASSUME NEW r \in Request, Refuse(r)
      PROVE  Roomy'
  BY <1>2, <1>5 DEF Refuse
<1>6. ASSUME NEW b \in live, Free(b)
      PROVE  Roomy'
  BY <1>2, <1>6 DEF Free
<1>7. CASE UNCHANGED vars
  BY <1>2, <1>7 DEF vars
<1> QED
  BY <1>3, <1>4, <1>5, <1>6, <1>7 DEF Next

\* What corrupts memory is an aligned block that starts too near its alignment, or a
\* block of no bytes that is given back.
Corrupts ==
  \/ \E r \in Request : MallocAlign(r) /\ TooNear(r)
  \/ \E b \in live : Free(b) /\ b.size = 0

OnlyThere == ~corrupt /\ corrupt' => Corrupts

LEMMA CorruptsOnlyThere ==
  ASSUME Aligned, IInv, Roomy, Next
  PROVE  OnlyThere
<1> SUFFICES ASSUME ~corrupt, corrupt'
             PROVE  Corrupts
  BY DEF OnlyThere
<1>1. ASSUME NEW r \in Request, Refuse(r) \/ Malloc(r)
      PROVE  FALSE
  BY <1>1 DEF Refuse, Malloc
<1>2. ASSUME NEW r \in Request, MallocAlign(r)
      PROVE  TooNear(r)
  <2>1. r.align >= SIZEOF_CHUNK /\ Fits(free, Need(r)) /\ ~AlignSound(r)
    BY <1>2 DEF MallocAlign
  <2> QED
    BY <2>1, SoundWhenFar
<1>3. ASSUME NEW b \in live, Free(b)
      PROVE  b.size = 0
  <2>1. ~Owned(b.addr, b.size, b.addr, b.addr + b.room)
    BY <1>3 DEF Free, FreedSize
  <2>2. b.addr \in Nat /\ b.size \in Nat /\ b.room \in Nat /\ Up(b.size) <= b.room
    BY DEF IInv, LiveOK, Block, Roomy
  <2>3. Up(b.size) \in Nat
    BY <2>2, UpFacts
  <2>4. b.addr <= b.addr /\ b.addr + Up(b.size) <= b.addr + b.room
    BY <2>2, <2>3
  <2> QED
    BY <2>1, <2>2, <2>4 DEF Owned
<1> QED
  BY <1>1, <1>2, <1>3 DEF Next, Corrupts

\* The invariant Roomy holds of every reachable state.
LEMMA RoomyInvariance == ASSUME Aligned PROVE Spec => []Roomy
<1>1. Init => Roomy
  BY DEF Init, Roomy
<1>2. IInv /\ Roomy /\ [Next]_vars => Roomy'
  BY NextRoomy
<1> QED
  BY <1>1, <1>2, Invariance, PTL DEF Spec

\* For any heap and any requests of whole units there are two ways to corrupt memory
\* and no third: __malloc_align on a block less than a header before the alignment,
\* and __malloc_free of a block of no bytes.
THEOREM CorruptionOnlyThere == ASSUME Aligned PROVE Spec => [][OnlyThere]_vars
<1>1. IInv /\ Roomy /\ [Next]_vars => [OnlyThere]_vars
  BY CorruptsOnlyThere
<1> QED
  BY <1>1, Invariance, RoomyInvariance, PTL DEF Spec

\* A program that asks for no aligned and no empty blocks corrupts no memory, whatever
\* sizes it takes and gives back in whatever order (__malloc, __malloc_free).
THEOREM PlainRequestsSound ==
  ASSUME \A r \in Request : r.align < SIZEOF_CHUNK /\ r.size > 0
  PROVE  Spec => []NoCorruption
<1>1. Aligned
  <2>1. \A r \in Request : ~(r.align >= SIZEOF_CHUNK)
    BY RequestFacts DEF SIZEOF_CHUNK
  <2> QED
    BY <2>1 DEF Aligned
<1>2. Init => NoCorruption
  BY DEF Init, NoCorruption
<1>3. IInv /\ Roomy /\ NoCorruption /\ [Next]_vars => NoCorruption'
  <2> SUFFICES ASSUME IInv, Roomy, NoCorruption, [Next]_vars, corrupt'
               PROVE  FALSE
    BY DEF NoCorruption
  <2>1. ~corrupt /\ Next
    BY DEF NoCorruption, vars
  <2>2. Corrupts
    BY <1>1, <2>1, CorruptsOnlyThere DEF OnlyThere
  <2>3. \A r \in Request : ~TooNear(r)
    BY RequestFacts DEF TooNear, SIZEOF_CHUNK
  <2>4. \A b \in live : b.size # 0
    BY RequestFacts DEF Roomy
  <2> QED
    BY <2>2, <2>3, <2>4 DEF Corrupts
<1> QED
  BY <1>1, <1>2, <1>3, Invariance, RoomyInvariance, PTL DEF Spec

=============================================================================
