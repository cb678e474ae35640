--------------------------- MODULE I2cRefinement ---------------------------
(***************************************************************************)
(* The I2C driver implements TransferService, with the interface as its    *)
(* only line.  What is left of a transfer is counted in buffers: its        *)
(* commands, and what it writes or reads.                                  *)
(***************************************************************************)
EXTENDS I2c

\* The buffers a transfer needs.
Needed(c) == IF c.kind = "write" /\ c.size = 0 THEN 1 ELSE 2

\* Those of the transfer in the slot that the uDMA has still to move.
ToMove(p) ==
  Cardinality({i \in DOMAIN tx : tx[i].owner = p})
    + Cardinality({i \in DOMAIN rx : rx[i] = p})

Left(p) ==
  IF p \notin Elements(queue) THEN 0
  ELSE IF p = Head(queue) THEN ToMove(p) ELSE Needed(call[p])

\* A transfer with a callback is never reported: it counts as done when the
\* driver is done with it.
Done == {p \in Thread : \/ task[p].done
                        \/ pc[p] = "detached" /\ p \notin Elements(queue)}

Service == INSTANCE TransferService
             WITH Client <- Thread, Line <- {"i2c"},
                  queue <- [l \in {"i2c"} |-> queue],
                  left <- [p \in Thread |-> Left(p)],
                  done <- Done

\* Seen through that mapping, every behaviour of the driver is one of the
\* service: whatever events the buffers of a transfer, its stop sequence and
\* its end raise, each transfer ends once, in its turn, and after its own
\* buffers have moved (i2c.c 350-418).
ImplementsService == Service!Spec

=============================================================================
