-------------------------------- MODULE MCI2c --------------------------------
(* Calls for the runs of I2c. *)
EXTENDS I2cRefinement

CONSTANTS t1, t2, t3

MCCall(api, kind, size, stop) ==
  [api |-> api, kind |-> kind, size |-> size, stop |-> stop]
MCDetect == MCCall("blocking", "detect", 1, TRUE)
MCRefused == MCCall("blocking", "refused", 1, TRUE)

\* Without end-of-transfer events: reads and detections.
MCReads == {MCCall("async", "read", 1, TRUE), MCDetect, MCRefused}

\* With them: reads and writes with and without a stop, one of no bytes, one of
\* several commands, and one with a callback.
MCAll == {MCCall("async", "write", 1, TRUE), MCCall("blocking", "write", 0, FALSE),
          MCCall("callback", "read", 1, FALSE), MCCall("blocking", "write", 5, TRUE),
          MCDetect}
=============================================================================
