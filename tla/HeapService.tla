----------------------------- MODULE HeapService -----------------------------
(***************************************************************************)
(* What an allocator promises, with no list of chunks: a block is made of   *)
(* memory that was free, a request is refused only if there is no hole of   *)
(* the bytes it needs, and what is given back is free again.               *)
(***************************************************************************)
EXTENDS Naturals

CONSTANTS
  Request,      \* what may be asked: sizes and alignments
  Need(_)       \* the bytes a request is searched for with

VARIABLES
  avail,   \* the addresses that are free
  live,    \* the blocks given away
  last     \* the last request, and the address it was given or 0

vars == <<avail, live, last>>

Bytes(a, n) == a..(a + n - 1)

\* A hole of n bytes.
Hole(n) == \E a \in avail : Bytes(a, n) \subseteq avail

Init == live = {} /\ last.addr = 0

Grant(r) ==
  /\ last'.size = r.size /\ last'.align = r.align
  /\ last'.addr % r.align = 0
  /\ \E b \in live' :
       /\ b.addr = last'.addr /\ b.size = r.size /\ b.size <= b.room
       /\ live' = live \cup {b}
       /\ Bytes(b.addr, b.room) \subseteq avail
       /\ avail' \subseteq avail \ Bytes(b.addr, b.room)

Refuse(r) ==
  /\ last' = [size |-> r.size, align |-> r.align, addr |-> 0]
  /\ ~Hole(Need(r))
  /\ UNCHANGED <<avail, live>>

Release(b) ==
  /\ live' = live \ {b}
  /\ avail' = avail \cup Bytes(b.addr, b.room)
  /\ UNCHANGED last

Next ==
  \/ \E r \in Request : Grant(r) \/ Refuse(r)
  \/ \E b \in live : Release(b)

Spec == Init /\ [][Next]_vars

=============================================================================
