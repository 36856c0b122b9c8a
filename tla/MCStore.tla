------------------------------ MODULE MCStore ------------------------------
(* A store of two threads.                                                 *)
EXTENDS Store

CONSTANTS t1, t2
=============================================================================
