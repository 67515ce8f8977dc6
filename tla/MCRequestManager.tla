------------------------- MODULE MCRequestManager -------------------------
(* Three ordinary requests, one of them of a higher priority and one whose *)
(* memory a dialog manages.                                                *)
EXTENDS RequestManager

CONSTANTS r1, r2, r3

MCRequests  == {r1, r2, r3}
MCUnmanaged == {r1}
MCPriority  == [r \in MCRequests |-> IF r = r3 THEN 2 ELSE 1]
=============================================================================
