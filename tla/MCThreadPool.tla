---------------------------- MODULE MCThreadPool ----------------------------
(* ThreadPool on a small instance.                                         *)
EXTENDS ThreadPool

CONSTANTS t1, t2, j1, j2, j3

MCCounts == {-1, 2}        \* -1: as many as there are processors
=============================================================================
