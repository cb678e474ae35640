--------------------------- MODULE UartRefinement ---------------------------
(***************************************************************************)
(* The UART driver implements TransferService.  A line is a channel; the   *)
(* queue is the history variable queue; a client is done when its task is; *)
(* the bytes left of a transfer are those its task still accounts for,     *)
(* less the window that has moved but whose event is yet to be serviced.   *)
(***************************************************************************)
EXTENDS Uart

\* The bytes of p's transfer that the uDMA has not moved.
Left(p) ==
  IF p \notin InFlight THEN 0
  ELSE IF \E c \in Channel : fifo_head[c] = p /\ ~udma[c].busy
       THEN data[p].size - ExecWindow(p, data[p]).size
       ELSE data[p].size

Service == INSTANCE TransferService
             WITH Client <- Thread, Line <- Channel, queue <- queue,
                  left <- [p \in Thread |-> Left(p)],
                  done <- {p \in Thread : task[p].done}

\* Seen through that mapping, every behaviour of the driver is one of the
\* service: transfers complete in the order __pi_uart_copy accepted them, each
\* once, and only after all their bytes moved, with any interleaving of
\* callers, uDMA, interrupt handler and aborts (uart.c 303-439).
ImplementsService == Service!Spec

=============================================================================
