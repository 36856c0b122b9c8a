------------------------------ MODULE CrewTasks ------------------------------
(***************************************************************************)
(* The shared task board of one crew (electron/services-crew.js): the      *)
(* orchestrator thread and the workers under it add tasks with             *)
(* dependencies, claim them, complete them and hand them back.  Each call  *)
(* runs to completion on the main process's event loop: it reads a copy of *)
(* the list, validates, and writes the list back only when nothing threw.  *)
(*                                                                         *)
(* Abstracted: titles, notes and timestamps; the walk that finds the crew  *)
(* root (the crew is the constant Members); debounced persistence.  A      *)
(* refused or throwing call changes nothing and is no step.                *)
(***************************************************************************)
EXTENDS Integers, Sequences

CONSTANTS
    Workers,      \* worker threads of the crew
    Root,         \* the orchestrator thread at the top of the handoff chain
    NoOne,        \* owner of an unclaimed task
    MaxTasks,     \* CREW_TASKS_MAX
    AttemptCap,   \* CREW_TASK_ATTEMPT_CAP
    Batches       \* the task_add calls that may be made, as sequences of needs

Members == Workers \cup {Root}

ASSUME MembersAssumption == NoOne \notin Members
ASSUME BoundsAssumption == MaxTasks \in Nat /\ AttemptCap \in Nat

VARIABLE tasks    \* the list; the position of a task is its id ("t1", "t2", ...)

vars == <<tasks>>

Ids == 1..MaxTasks
Status == {"open", "claimed", "done"}

ASSUME BatchesAssumption == Batches \subseteq Seq(SUBSET Nat)

\* An entry of task.attempts; failed says that an outcome text was recorded.
Attempt == [by: Members, failed: BOOLEAN]

Task == [needs: SUBSET Ids, status: Status, owner: Members \cup {NoOne},
         attempts: Seq(Attempt)]

TypeOK ==
    /\ tasks \in Seq(Task)
    /\ Len(tasks) <= MaxTasks

-----------------------------------------------------------------------------
(* Reading the board.                                                      *)

\* Derived on every read, never stored; an unknown id blocks.
IsBlocked(i) ==
    \E n \in tasks[i].needs : n \notin DOMAIN tasks \/ tasks[n].status # "done"

\* Mutant: forgets the needs.
ClaimableAnyOpen == {i \in DOMAIN tasks : tasks[i].status = "open"}
Claimable == {i \in DOMAIN tasks : tasks[i].status = "open" /\ ~IsBlocked(i)}

HeldBy(w) == {i \in DOMAIN tasks : tasks[i].status = "claimed" /\ tasks[i].owner = w}

NewTask(needs) == [needs |-> needs, status |-> "open", owner |-> NoOne, attempts |-> <<>>]

-----------------------------------------------------------------------------
(* The operations.                                                         *)

\* Mutant: forgets the cap.
AddPastCap(batch) ==
    LET list == tasks \o [k \in DOMAIN batch |-> NewTask(batch[k])]
    IN  /\ batch # <<>>
        /\ \A i \in DOMAIN list : list[i].needs \subseteq DOMAIN list \ {i}
        /\ tasks' = list

\* A batch is appended whole or not at all: the list may not outgrow its cap,
\* and every need names another task of the resulting list.  Needs may name
\* tasks of the same batch, in any order.
AddCrewTasks(batch) ==
    LET list == tasks \o [k \in DOMAIN batch |-> NewTask(batch[k])]
    IN  /\ batch # <<>>
        /\ Len(list) <= MaxTasks
        /\ \A i \in DOMAIN list : list[i].needs \subseteq DOMAIN list \ {i}
        /\ tasks' = list

\* Mutant: one attempt too many.
TakeOnceMore(w, i) ==
    /\ Len(tasks[i].attempts) <= AttemptCap
    /\ tasks' = [tasks EXCEPT
         ![i].status = "claimed",
         ![i].owner = w,
         ![i].attempts = Append(@, [by |-> w, failed |-> FALSE])]

\* The tail shared by both ways to claim: refused at the attempt cap.
Take(w, i) ==
    /\ Len(tasks[i].attempts) < AttemptCap
    /\ tasks' = [tasks EXCEPT
         ![i].status = "claimed",
         ![i].owner = w,
         ![i].attempts = Append(@, [by |-> w, failed |-> FALSE])]

\* Mutant: takes the task of a peer.
ClaimFromPeer(w, i) ==
    /\ i \in DOMAIN tasks
    /\ tasks[i].status # "done"
    /\ ~IsBlocked(i)
    /\ Take(w, i)

\* task_claim with a task id.  A thread may claim again what it holds.
ClaimNamed(w, i) ==
    /\ i \in DOMAIN tasks
    /\ tasks[i].status # "done"
    /\ tasks[i].status = "claimed" => tasks[i].owner = w
    /\ ~IsBlocked(i)
    /\ Take(w, i)

\* task_claim without one: the first open task whose needs are all done.
SelfClaim(w) ==
    \E i \in Claimable :
        /\ \A j \in Claimable : i <= j
        /\ Take(w, i)

ClaimCrewTask(w) == SelfClaim(w) \/ \E i \in Ids : ClaimNamed(w, i)

\* Mutant: the finished task keeps its owner.
CompleteKeepsOwner(w, i) ==
    /\ i \in DOMAIN tasks
    /\ tasks[i].status # "done"
    /\ w = Root \/ tasks[i].owner \in {NoOne, w}
    /\ tasks' = [tasks EXCEPT ![i].status = "done"]

\* The root closes anything; another thread anything no peer owns.
CompleteCrewTask(w, i) ==
    /\ i \in DOMAIN tasks
    /\ tasks[i].status # "done"
    /\ w = Root \/ tasks[i].owner \in {NoOne, w}
    /\ tasks' = [tasks EXCEPT ![i].status = "done", ![i].owner = NoOne]

\* Mutant: the attempt that failed no longer counts.
OutcomeDropsAttempt(attempts, w, outcome) ==
    IF outcome /\ attempts # <<>> /\ attempts[Len(attempts)].by = w
    THEN SubSeq(attempts, 1, Len(attempts) - 1)
    ELSE attempts

\* The attempts of a task that w hands back: an outcome is recorded on the
\* last attempt, when that attempt is w's.
WithOutcome(attempts, w, outcome) ==
    IF outcome /\ attempts # <<>> /\ attempts[Len(attempts)].by = w
    THEN [attempts EXCEPT ![Len(attempts)].failed = TRUE]
    ELSE attempts

\* Of the tasks in wanted, the ones w holds go back to open.
ReleaseCrewTasks(w, wanted, outcome) ==
    /\ HeldBy(w) \cap wanted # {}
    /\ tasks' = [i \in DOMAIN tasks |->
         IF i \in HeldBy(w) \cap wanted
         THEN [tasks[i] EXCEPT !.status = "open", !.owner = NoOne,
                               !.attempts = WithOutcome(@, w, outcome)]
         ELSE tasks[i]]

\* task_release: one task, or every task the thread holds.
TaskRelease(w) ==
    \E wanted \in {{i} : i \in Ids} \cup {Ids}, outcome \in BOOLEAN :
        ReleaseCrewTasks(w, wanted, outcome)

\* afterFailedTurn: a failed run gives back everything, with its error.
RunFailed(w) == ReleaseCrewTasks(w, Ids, TRUE)

-----------------------------------------------------------------------------
Init == tasks = <<>>

Next ==
    \/ \E batch \in Batches : AddCrewTasks(batch)
    \/ \E w \in Members :
        \/ ClaimCrewTask(w)
        \/ \E i \in Ids : CompleteCrewTask(w, i)
        \/ TaskRelease(w)
        \/ RunFailed(w)

Spec == Init /\ [][Next]_vars

-----------------------------------------------------------------------------
(* Properties.                                                             *)

\* Nobody works on a task before everything it needs is done, whatever is
\* added, closed by the root or handed back meanwhile.
ClaimedIsReady ==
    \A i \in DOMAIN tasks : tasks[i].status = "claimed" => ~IsBlocked(i)

\* The owner of a claimed task is the thread of its last attempt, so the
\* outcome of a failed run lands on the attempt that failed; a task that is
\* not claimed belongs to nobody.
OwnerIsLastClaimant ==
    \A i \in DOMAIN tasks :
        LET a == tasks[i].attempts
        IN  IF tasks[i].status = "claimed"
            THEN a # <<>> /\ tasks[i].owner = a[Len(a)].by
            ELSE tasks[i].owner = NoOne

\* The loop guardrail: no task is ever claimed more often than the cap.
AttemptsCapped == \A i \in DOMAIN tasks : Len(tasks[i].attempts) <= AttemptCap

\* The record of a task is never rewritten: done is final, and the attempts
\* before the last one keep their thread and their outcome.
HistoryIsKept ==
    [][\A i \in DOMAIN tasks :
         LET old == tasks[i].attempts
             new == tasks'[i].attempts
         IN  /\ tasks[i].status = "done" => tasks'[i] = tasks[i]
             /\ Len(old) <= Len(new)
             /\ \A k \in DOMAIN old :
                  /\ new[k].by = old[k].by
                  /\ old[k].failed => new[k].failed]_vars

(* The board as locks: who holds each task, how often it was taken, what   *)
(* is finished.  Adding tasks is invisible.                                *)
HolderOf == [i \in Ids |-> IF i \in DOMAIN tasks THEN tasks[i].owner ELSE NoOne]
TriesOf == [i \in Ids |-> IF i \in DOMAIN tasks THEN Len(tasks[i].attempts) ELSE 0]
ClosedOf == {i \in DOMAIN tasks : tasks[i].status = "done"}

Board == INSTANCE CrewBoard
    WITH holder <- HolderOf, tries <- TriesOf, closed <- ClosedOf

\* The calls of services-crew.js implement the board of locks: no claim
\* takes a task from its holder, no peer releases or closes it, and nothing
\* reopens a finished task.
BoardSpec == Board!Spec
=============================================================================
