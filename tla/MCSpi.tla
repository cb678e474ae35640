-------------------------------- MODULE MCSpi --------------------------------
(* Chip selects and calls for the runs of Spi. *)
EXTENDS SpiRefinement

CONSTANTS t1, t2, t3, b1, b2, b3

\* The first two devices share a chip select.
MCChipSelect == [p \in {t1, t2, t3} |-> IF p = t3 THEN 1 ELSE 0]

MCCall(api, kind, len) == [api |-> api, kind |-> kind, len |-> len]
MCCalls == {MCCall("async", "send", 1), MCCall("callback", "receive", 1),
            MCCall("blocking", "xfer", 1), MCCall("blocking", "receive", 2)}
=============================================================================
