--------------------------- MODULE MCRunLifecycle ---------------------------
(* Two or three threads that compete for the slots, and a memory pass.               *)
EXTENDS RunLifecycle

CONSTANTS t1, t2, t3, s
=============================================================================
