------------------------------ MODULE TaskFifo ------------------------------
(***************************************************************************)
(* When a linked list of pi_task_t objects is a given sequence.  The       *)
(* drivers keep their transfer fifos as a head pointer, a tail pointer and *)
(* the next field of the tasks in between; the invariants of their modules *)
(* relate those to the sequence of accepted transfers.                     *)
(***************************************************************************)
EXTENDS Naturals, Sequences

Elements(s) == {s[i] : i \in DOMAIN s}

\* No element occurs at two positions.
Once(s) == \A i, j \in DOMAIN s : s[i] = s[j] => i = j

\* The list from head h to tail t along the links nxt is the sequence q.
Represents(q, h, t, nxt, null) ==
  /\ h = IF q = <<>> THEN null ELSE q[1]
  /\ t = IF q = <<>> THEN null ELSE q[Len(q)]
  /\ \A i \in DOMAIN q : nxt[q[i]] = IF i = Len(q) THEN null ELSE q[i + 1]

=============================================================================
