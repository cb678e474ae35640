--------------------------- MODULE TransferService ---------------------------
(***************************************************************************)
(* What an asynchronous uDMA driver promises its callers, with no lists,   *)
(* interrupts or hardware: on every line, accepted transfers are served    *)
(* one at a time and in the order they were accepted; a transfer is        *)
(* reported done once, after the last of its bytes has moved, and no byte  *)
(* moves for a transfer that is not the one being served.                  *)
(***************************************************************************)
EXTENDS Naturals, Sequences

CONSTANTS Client, Line

VARIABLES
  queue,   \* for each line, the clients waiting or being served, oldest first
  left,    \* the bytes of each client's transfer that have not moved
  done     \* the clients whose transfer has been reported done

vars == <<queue, left, done>>

Waiting == UNION {{queue[l][i] : i \in DOMAIN queue[l]} : l \in Line}

Init ==
  /\ queue = [l \in Line |-> <<>>]
  /\ left = [p \in Client |-> 0]
  /\ done = {}

\* A client prepares a notification for its next transfer.
Begin(p) ==
  /\ p \notin Waiting
  /\ done' = done \ {p}
  /\ UNCHANGED <<queue, left>>

\* A transfer of some bytes is accepted.
Accept(p, l) ==
  /\ p \notin Waiting /\ p \notin done
  /\ queue' = [queue EXCEPT ![l] = Append(queue[l], p)]
  /\ left'[p] \in Nat \ {0}
  /\ left' = [left EXCEPT ![p] = left'[p]]
  /\ UNCHANGED done

\* Some bytes move for the transfer at the head of line l.
Move(l) ==
  LET p == Head(queue[l]) IN
  /\ queue[l] # <<>>
  /\ left'[p] \in Nat /\ left'[p] < left[p]
  /\ left' = [left EXCEPT ![p] = left'[p]]
  /\ UNCHANGED <<queue, done>>

\* The transfer at the head of line l, all of it moved, is reported done.
Complete(l) ==
  /\ queue[l] # <<>>
  /\ left[Head(queue[l])] = 0
  /\ queue' = [queue EXCEPT ![l] = Tail(queue[l])]
  /\ done' = done \cup {Head(queue[l])}
  /\ UNCHANGED left

\* The transfers of line l are aborted, unreported.
Flush(l) ==
  /\ queue' = [queue EXCEPT ![l] = <<>>]
  /\ left' = [p \in Client |->
                IF p \in {queue[l][i] : i \in DOMAIN queue[l]} THEN 0 ELSE left[p]]
  /\ UNCHANGED done

Next ==
  \/ \E p \in Client : Begin(p) \/ \E l \in Line : Accept(p, l)
  \/ \E l \in Line : Move(l) \/ Complete(l) \/ Flush(l)

Spec == Init /\ [][Next]_vars

=============================================================================
