----------------------------- MODULE MCReports -----------------------------
(* Bounds for TLC: a bidirectional test has two streams, and twice the     *)
(* threads, so it is given less to do.  Three intervals let the ring of the*)
(* server's rate limit wrap around.                                        *)
EXTENDS Reports

Bound(up, down, both) ==
    [m \in Modes |-> CASE m = "SENDER" -> up [] m = "RECEIVER" -> down [] OTHER -> both]

Blocks == Bound(2, 2, 1)
Intervals == Bound(3, 2, 0)
Retransmits == Bound(1, 1, 1)
=============================================================================
