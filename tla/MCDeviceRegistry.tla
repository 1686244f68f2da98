------------------------- MODULE MCDeviceRegistry -------------------------
(* A small instance of DeviceRegistry for TLC: devices are interchangeable,  *)
(* and so are handlers; letters and invites are used in order.               *)
EXTENDS DeviceRegistry, TLC

CONSTANTS d1, d2, d3, q1, q2

Symmetry == Permutations(Devices) \cup Permutations(Requests)
=============================================================================
