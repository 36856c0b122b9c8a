------------------------------ MODULE CrewBoard ------------------------------
(***************************************************************************)
(* What the crew task board promises, without dependencies, histories or   *)
(* the order in which self-claims pick: every task is a lock that at most  *)
(* one member holds, that is taken a bounded number of times, that only    *)
(* its holder gives back, and that is closed once, by its holder or the    *)
(* root, or by anyone while nobody holds it.                               *)
(***************************************************************************)
EXTENDS Integers

CONSTANTS Members, Root, NoOne, Ids, AttemptCap

VARIABLES
    holder,       \* who works on each task
    tries,        \* how often each task was taken
    closed        \* the finished tasks

bvars == <<holder, tries, closed>>

Acquire(w, i) ==
    /\ i \notin closed
    /\ holder[i] \in {NoOne, w}
    /\ tries[i] < AttemptCap
    /\ holder' = [holder EXCEPT ![i] = w]
    /\ tries' = [tries EXCEPT ![i] = @ + 1]
    /\ UNCHANGED closed

Yield(w, given) ==
    /\ \A i \in given : holder[i] = w
    /\ holder' = [i \in Ids |-> IF i \in given THEN NoOne ELSE holder[i]]
    /\ UNCHANGED <<tries, closed>>

Close(w, i) ==
    /\ i \notin closed
    /\ w = Root \/ holder[i] \in {NoOne, w}
    /\ holder' = [holder EXCEPT ![i] = NoOne]
    /\ closed' = closed \cup {i}
    /\ UNCHANGED tries

Init ==
    /\ holder = [i \in Ids |-> NoOne]
    /\ tries = [i \in Ids |-> 0]
    /\ closed = {}

Next ==
    \E w \in Members :
        \/ \E i \in Ids : Acquire(w, i) \/ Close(w, i)
        \/ \E given \in SUBSET Ids : Yield(w, given)

Spec == Init /\ [][Next]_bvars
=============================================================================
