------------------------- MODULE MCUdpEventHandler -------------------------
(* UdpEventHandler on small instances.                                     *)
EXTENDS UdpEventHandler, TLC

CONSTANTS a, b, h1, h2, h3, h4

MCSymmetry == Permutations(Handles) \cup Permutations(Ids)
=============================================================================
