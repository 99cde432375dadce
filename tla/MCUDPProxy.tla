----------------------------- MODULE MCUDPProxy -----------------------------
(* UDPProxy on small instances.                                            *)
EXTENDS UDPProxy, TLC

CONSTANTS a, b, h1, h2, h3, h4

MCSymmetry == Permutations(Handles) \cup Permutations(Ids)
=============================================================================
