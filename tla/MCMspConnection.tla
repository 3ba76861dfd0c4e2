--------------------------- MODULE MCMspConnection ---------------------------
(* A launched connection with two callers, both of which write and retry.    *)
(* c1 runs inside an HTTP handler and may be dropped; c2 in a spawned        *)
(* driver, and its frame may also be one that is over the wire cap.          *)
EXTENDS MspConnection

CONSTANTS c1, c2

MCCallers == {c1, c2}
MCDroppable == {c1}
MCOversized == {c2}
=============================================================================
