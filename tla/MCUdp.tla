------------------------------- MODULE MCUdp -------------------------------
(* Constants for TLC: a test of one stream has data, a test of two has the *)
(* order of its streams.                                                   *)
EXTENDS UdpTest

PacketBounds == [n \in StreamCounts |-> IF n = 1 THEN 5 ELSE 1]
SmallKernel == [usual |-> 2, most |-> 1000]
LargeKernel == [usual |-> 1000, most |-> 1000]
TightKernel == [usual |-> 2, most |-> 3]
SomeKernels == {SmallKernel, LargeKernel, TightKernel}
=============================================================================
