--------------------------- MODULE SpiRefinement ---------------------------
(***************************************************************************)
(* The SPI driver implements TransferService, with the interface as its    *)
(* only line: the one place end_of_transfer, the fifo behind it and the    *)
(* handler that moves transfers from one to the other serve the callers as *)
(* a single queue would.                                                   *)
(***************************************************************************)
EXTENDS Spi

\* What the uDMA has still to move of p's transfer.
Left(p) ==
  IF p \notin Elements(queue) \/ (p = Head(queue) /\ spim = <<>>)
    THEN 0 ELSE call[p].len

\* A transfer with a callback is never reported, as spim_eot_handler only
\* releases a task that blocks: it counts as done when the driver is done with it.
Done == {p \in Thread : \/ task[p].done
                        \/ pc[p] = "detached" /\ p \notin Elements(queue)}

Service == INSTANCE TransferService
             WITH Client <- Thread, Line <- {"spim"},
                  queue <- [l \in {"spim"} |-> queue],
                  left <- [p \in Thread |-> Left(p)],
                  done <- Done

\* Seen through that mapping, every behaviour of the driver is one of the
\* service: no transfer overtakes another between the slot and the fifo, each
\* is over once and only after the uDMA moved it (spi.c 302-345, 378-590).
ImplementsService == Service!Spec

=============================================================================
