--------------------------- MODULE MCOrchNotices ---------------------------
(* A lead with two workers, which are interchangeable.                      *)
EXTENDS OrchNotices, TLC

CONSTANTS L, w1, w2

WorkerSymmetry == Permutations({w1, w2})
=============================================================================
