---------------------------- MODULE MCLifecycle ----------------------------
(* Lifecycle on small instances.                                           *)
EXTENDS Lifecycle

CONSTANTS a, h1, h2
=============================================================================
