----------------------------- MODULE MCCrewTasks -----------------------------
(* A crew of a root and one worker, who compete for tasks as any two        *)
(* members do, with a board of at most three tasks.                         *)
EXTENDS CrewTasks

CONSTANT w1

\* Independent tasks, chains, a task with two needs, needs of a later task,
\* a cycle, an unknown id and a task that needs itself (both refused).
MCBatches == {<<{}>>, <<{1}>>, <<{1, 2}>>, <<{}, {}>>, <<{2}, {1}>>, <<{3}>>}
=============================================================================
