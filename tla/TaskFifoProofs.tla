--------------------------- MODULE TaskFifoProofs ---------------------------
(***************************************************************************)
(* What the list operations of the drivers do to the sequence a list       *)
(* represents.                                                             *)
(***************************************************************************)
EXTENDS TaskFifo, SequenceTheorems, TLAPS

LEMMA EmptyOnce ==
  Elements(<<>>) = {} /\ Once(<<>>)
BY EmptySeq DEF Elements, Once

\* Appending a new element: the result, its elements, and that it stays free of
\* repetitions (the sequence side of __pi_uart_task_fifo_enqueue).
LEMMA AppendOnce ==
  ASSUME NEW S, NEW s \in Seq(S), NEW x \in S
  PROVE  /\ Append(s, x) \in Seq(S)
         /\ Append(s, x) # <<>>
         /\ Elements(Append(s, x)) = Elements(s) \cup {x}
         /\ Once(s) /\ x \notin Elements(s) => Once(Append(s, x))
<1> DEFINE r == Append(s, x)
<1>1. /\ r \in Seq(S) /\ Len(r) = Len(s) + 1 /\ DOMAIN r = 1..(Len(s) + 1)
      /\ DOMAIN s = 1..Len(s) /\ Len(s) \in Nat
      /\ \A i \in 1..Len(s) : r[i] = s[i]
      /\ r[Len(s) + 1] = x
  BY AppendProperties, LenProperties
<1>2. r # <<>>
  BY <1>1, EmptySeq
<1> HIDE DEF r
<1>3. Elements(r) = Elements(s) \cup {x}
  BY <1>1 DEF Elements
<1>4. Once(s) /\ x \notin Elements(s) => Once(r)
  BY <1>1 DEF Elements, Once
<1> QED
  BY <1>1, <1>2, <1>3, <1>4 DEF r

\* Removing the first element (the sequence side of __pi_uart_task_fifo_pop).
LEMMA TailOnce ==
  ASSUME NEW S, NEW s \in Seq(S), s # <<>>, Once(s)
  PROVE  /\ Tail(s) \in Seq(S)
         /\ Once(Tail(s))
         /\ Head(s) = s[1] /\ s[1] \in Elements(s) /\ s[1] \in S
         /\ Elements(Tail(s)) = Elements(s) \ {Head(s)}
<1> DEFINE r == Tail(s)
<1>1. /\ r \in Seq(S) /\ Len(r) = Len(s) - 1 /\ DOMAIN r = 1..(Len(s) - 1)
      /\ DOMAIN s = 1..Len(s) /\ Len(s) \in Nat \ {0}
      /\ \A i \in 1..(Len(s) - 1) : r[i] = s[i + 1]
  BY HeadTailProperties, LenProperties, EmptySeq
<1>2. Head(s) = s[1] /\ s[1] \in S
  BY HeadTailProperties, <1>1
<1> HIDE DEF r
<1>3. Once(r)
  BY <1>1 DEF Once
<1>4. s[1] \in Elements(s)
  BY <1>1 DEF Elements
<1>5. ASSUME NEW x \in Elements(r) PROVE x \in Elements(s) \ {s[1]}
  BY <1>1 DEF Elements, Once
<1>6. ASSUME NEW x \in Elements(s) \ {s[1]} PROVE x \in Elements(r)
  <2>1. PICK i \in 1..Len(s) : x = s[i]
    BY <1>1 DEF Elements
  <2>2. i # 1
    BY <2>1
  <2>3. i - 1 \in 1..(Len(s) - 1) /\ r[i - 1] = s[i]
    BY <1>1, <2>2
  <2> QED
    BY <1>1, <2>1, <2>3 DEF Elements
<1> QED
  BY <1>1, <1>2, <1>3, <1>4, <1>5, <1>6 DEF r

\* The list of an empty fifo, and what its head and tail are otherwise.
LEMMA RepresentsEnds ==
  ASSUME NEW S, NEW q \in Seq(S), NEW null, null \notin S,
         NEW h, NEW t, NEW nxt, Represents(q, h, t, nxt, null)
  PROVE  /\ h = null <=> q = <<>>
         /\ q # <<>> => /\ h = Head(q) /\ h = q[1] /\ h \in S
                        /\ t \in Elements(q) /\ t \in S
<1>1. CASE q = <<>>
  BY <1>1 DEF Represents
<1>2. CASE q # <<>>
  <2>1. /\ DOMAIN q = 1..Len(q) /\ Len(q) \in Nat \ {0}
        /\ q[1] \in S /\ q[Len(q)] \in S /\ Head(q) = q[1]
    BY <1>2, LenProperties, EmptySeq, HeadTailProperties
  <2> QED
    BY <1>2, <2>1 DEF Represents, Elements
<1> QED
  BY <1>1, <1>2

\* A list is not affected by changes to links outside it.
LEMMA RepresentsFrame ==
  ASSUME NEW q, NEW h, NEW t, NEW nxt, NEW nxt2, NEW null,
         Represents(q, h, t, nxt, null),
         \A x \in Elements(q) : nxt2[x] = nxt[x]
  PROVE  Represents(q, h, t, nxt2, null)
BY DEF Represents, Elements

\* __pi_uart_task_fifo_enqueue on an empty fifo.
LEMMA RepresentsFirst ==
  ASSUME NEW S, NEW p \in S, NEW nxt, NEW null, nxt[p] = null
  PROVE  Represents(Append(<<>>, p), p, p, nxt, null)
<1> DEFINE r == Append(<<>>, p)
<1>1. r \in Seq(S) /\ Len(r) = 1 /\ r[1] = p /\ DOMAIN r = 1..1 /\ r # <<>>
  BY AppendProperties, EmptySeq, LenProperties
<1> HIDE DEF r
<1> QED
  BY <1>1 DEF Represents, r

\* __pi_uart_task_fifo_enqueue behind the tail.
LEMMA RepresentsAppend ==
  ASSUME NEW S, NEW q \in Seq(S), q # <<>>, Once(q), NEW null, null \notin S,
         NEW nxt \in [S -> S \cup {null}], NEW h, NEW t,
         Represents(q, h, t, nxt, null),
         NEW p \in S, p \notin Elements(q),
         NEW nxt2 \in [S -> S \cup {null}], nxt2[p] = null, nxt2[t] = p,
         \A x \in S \ {p, t} : nxt2[x] = nxt[x]
  PROVE  Represents(Append(q, p), h, p, nxt2, null)
<1> DEFINE r == Append(q, p)
<1>1. /\ r \in Seq(S) /\ Len(r) = Len(q) + 1 /\ DOMAIN r = 1..(Len(q) + 1)
      /\ DOMAIN q = 1..Len(q) /\ Len(q) \in Nat \ {0} /\ r # <<>>
      /\ \A i \in 1..Len(q) : r[i] = q[i]
      /\ r[Len(q) + 1] = p
      /\ \A i \in 1..Len(q) : q[i] \in S
  BY AppendProperties, LenProperties, EmptySeq, ElementOfSeq
<1> HIDE DEF r
<1>2. h = r[1] /\ p = r[Len(r)] /\ t = q[Len(q)]
  BY <1>1 DEF Represents
<1>3. ASSUME NEW i \in DOMAIN r
      PROVE  nxt2[r[i]] = IF i = Len(r) THEN null ELSE r[i + 1]
  <2>1. CASE i = Len(q) + 1
    BY <1>1, <2>1
  <2>2. CASE i = Len(q)
    <3>1. r[Len(q)] = q[Len(q)] /\ q[Len(q)] = t
      BY <1>1, <1>2
    <3>2. r[Len(q) + 1] = p
      BY <1>1
    <3>3. Len(q) # Len(r)
      BY <1>1, \A n \in Nat : n # n + 1
    <3> QED
      BY <2>2, <3>1, <3>2, <3>3
  <2>3. CASE i \in 1..(Len(q) - 1)
    <3>1. r[i] = q[i] /\ r[i + 1] = q[i + 1] /\ q[i] \in S
      BY <1>1, <2>3
    <3>2. q[i] # p
      BY <1>1, <2>3 DEF Elements
    <3>3. q[i] # t
      BY <1>1, <1>2, <2>3 DEF Once
    <3>4. nxt[q[i]] = q[i + 1]
      BY <1>1, <2>3 DEF Represents
    <3> QED
      BY <1>1, <2>3, <3>1, <3>2, <3>3, <3>4
  <2> QED
    BY <1>1, <2>1, <2>2, <2>3
<1> QED
  BY <1>1, <1>2, <1>3 DEF Represents, r

\* __pi_uart_task_fifo_pop.
LEMMA RepresentsTail ==
  ASSUME NEW S, NEW q \in Seq(S), q # <<>>, NEW null, null \notin S,
         NEW h, NEW t, NEW nxt, Represents(q, h, t, nxt, null)
  PROVE  /\ Represents(Tail(q), nxt[h], IF nxt[h] = null THEN null ELSE t, nxt, null)
         /\ nxt[h] = null <=> Tail(q) = <<>>
<1> DEFINE r == Tail(q)
<1>1. /\ r \in Seq(S) /\ Len(r) = Len(q) - 1 /\ DOMAIN r = 1..(Len(q) - 1)
      /\ DOMAIN q = 1..Len(q) /\ Len(q) \in Nat \ {0}
      /\ \A i \in 1..(Len(q) - 1) : r[i] = q[i + 1]
      /\ \A i \in 1..Len(q) : q[i] \in S
  BY HeadTailProperties, LenProperties, EmptySeq, ElementOfSeq
<1> HIDE DEF r
<1>2. r = <<>> <=> Len(q) = 1
  <2>1. r = <<>> => Len(r) = 0
    BY EmptySeq
  <2>2. r # <<>> => Len(r) # 0
    BY <1>1, EmptySeq
  <2> QED
    BY <1>1, <2>1, <2>2
<1>3. nxt[h] = IF Len(q) = 1 THEN null ELSE q[2]
  BY <1>1 DEF Represents
<1>4. nxt[h] = null <=> r = <<>>
  BY <1>1, <1>2, <1>3
<1>5. nxt[h] = IF r = <<>> THEN null ELSE r[1]
  BY <1>1, <1>2, <1>3
<1>6. r # <<>> => t = r[Len(r)]
  BY <1>1, <1>2 DEF Represents
<1>7. ASSUME NEW i \in DOMAIN r
      PROVE  nxt[r[i]] = IF i = Len(r) THEN null ELSE r[i + 1]
  BY <1>1 DEF Represents
<1> QED
  BY <1>4, <1>5, <1>6, <1>7 DEF Represents, r

(***************************************************************************)
(* Places in a queue                                                       *)
(***************************************************************************)

\* Where x is in the sequence s.
Place(s, x) == CHOOSE i \in DOMAIN s : s[i] = x

\* An element that occurs once is at its place.
LEMMA PlaceFacts ==
  ASSUME NEW S, NEW s \in Seq(S), NEW x \in Elements(s)
  PROVE  /\ Place(s, x) \in 1..Len(s) /\ s[Place(s, x)] = x
         /\ \A i \in 1..Len(s) : Once(s) /\ s[i] = x => i = Place(s, x)
<1>1. DOMAIN s = 1..Len(s)
  BY LenProperties
<1>2. \E i \in DOMAIN s : s[i] = x
  BY DEF Elements
<1>3. Place(s, x) \in DOMAIN s /\ s[Place(s, x)] = x
  BY <1>2, Zenon DEF Place
<1> QED
  BY <1>1, <1>3 DEF Once

\* An element that is appended leaves the others at their places.
LEMMA PlaceAppend ==
  ASSUME NEW S, NEW s \in Seq(S), NEW y \in S, Once(Append(s, y)),
         NEW x \in Elements(s)
  PROVE  x \in Elements(Append(s, y)) /\ Place(Append(s, y), x) = Place(s, x)
<1> DEFINE r == Append(s, y)  i == Place(s, x)
<1>1. /\ r \in Seq(S) /\ Len(r) = Len(s) + 1 /\ Len(s) \in Nat
      /\ \A j \in 1..Len(s) : r[j] = s[j]
      /\ Elements(r) = Elements(s) \cup {y}
  BY AppendOnce, AppendProperties, LenProperties
<1>2. i \in 1..Len(s) /\ s[i] = x
  BY PlaceFacts
<1> HIDE DEF r, i
<1>3. i \in 1..Len(r) /\ r[i] = x /\ x \in Elements(r)
  BY <1>1, <1>2
<1>4. Once(r)
  BY DEF r
<1>5. i = Place(r, x)
  BY <1>1, <1>3, <1>4, PlaceFacts
<1> QED
  BY <1>3, <1>5 DEF r, i

\* When the head leaves, every other element moves up by one.
LEMMA PlaceTail ==
  ASSUME NEW S, NEW s \in Seq(S), Once(s), NEW x \in Elements(s)
  PROVE  /\ s # <<>> /\ (x = Head(s) <=> Place(s, x) = 1)
         /\ x # Head(s) => /\ x \in Elements(Tail(s))
                           /\ Place(Tail(s), x) = Place(s, x) - 1
<1> DEFINE r == Tail(s)  i == Place(s, x)
<1>1. s # <<>>
  BY EmptyOnce
<1>2. /\ r \in Seq(S) /\ Len(r) = Len(s) - 1 /\ Len(s) \in Nat \ {0}
      /\ \A j \in 1..(Len(s) - 1) : r[j] = s[j + 1]
      /\ Head(s) = s[1] /\ Once(r) /\ Elements(r) = Elements(s) \ {Head(s)}
  BY <1>1, TailOnce, HeadTailProperties, LenProperties, EmptySeq
<1>3. /\ i \in 1..Len(s) /\ s[i] = x
      /\ \A j \in 1..Len(s) : s[j] = x => j = i
  BY PlaceFacts
<1>4. ASSUME x \in Elements(r)
      PROVE  \A j \in 1..Len(r) : r[j] = x => j = Place(r, x)
  <2> HIDE DEF r
  <2> QED
    BY <1>2, <1>4, PlaceFacts
<1> HIDE DEF r, i
<1>5. x = Head(s) <=> i = 1
  BY <1>2, <1>3
<1>6. ASSUME x # Head(s)
      PROVE  x \in Elements(r) /\ Place(r, x) = i - 1
  <2>1. i - 1 \in 1..Len(r) /\ r[i - 1] = x
    <3>1. i \in 2..Len(s)
      BY <1>2, <1>3, <1>5, <1>6
    <3>2. i - 1 \in 1..(Len(s) - 1) /\ (i - 1) + 1 = i
      BY <1>2, <3>1
    <3> QED
      BY <1>2, <1>3, <3>2
  <2>2. x \in Elements(r)
    BY <1>2, <1>6
  <2> QED
    BY <1>4, <2>1, <2>2
<1> QED
  BY <1>1, <1>5, <1>6 DEF r, i

=============================================================================
