-------------------------- MODULE CrewTasks_proofs --------------------------
(***************************************************************************)
(* Proofs about the crew task board, for every crew, cap and set of        *)
(* batches.  Each operation first gets an effect lemma: it keeps the type  *)
(* invariant, and says of every task what became of it.  The invariants    *)
(* then follow task by task.                                               *)
(***************************************************************************)
EXTENDS CrewTasks, SequenceTheorems, TLAPS

-----------------------------------------------------------------------------
(* What the operations do, task by task.                                   *)

Taken(t, w) ==
    [t EXCEPT !.status = "claimed", !.owner = w,
              !.attempts = Append(@, [by |-> w, failed |-> FALSE])]

Closed(t) == [t EXCEPT !.status = "done", !.owner = NoOne]

HandedBack(t, w, outcome) ==
    [t EXCEPT !.status = "open", !.owner = NoOne,
              !.attempts = WithOutcome(@, w, outcome)]

\* Reading the list as a function.
LEMMA ListDomain ==
    ASSUME TypeOK
    PROVE  /\ Len(tasks) \in Nat
           /\ DOMAIN tasks = 1..Len(tasks)
           /\ DOMAIN tasks \subseteq Ids
           /\ \A i \in DOMAIN tasks : tasks[i] \in Task
BY LenProperties, ElementOfSeq, BoundsAssumption DEF TypeOK, Ids

\* A list with the length of the old one and tasks for elements.
LEMMA SameLength ==
    ASSUME TypeOK, NEW e, DOMAIN e = DOMAIN tasks, e = [i \in DOMAIN tasks |-> e[i]],
           \A i \in DOMAIN tasks : e[i] \in Task
    PROVE  e \in Seq(Task) /\ Len(e) = Len(tasks)
<1>1. Len(tasks) \in Nat /\ DOMAIN tasks = 1..Len(tasks)
  BY ListDomain
<1>2. e \in [1..Len(tasks) -> Task]
  BY <1>1
<1>3. e \in Seq(Task)
  BY <1>1, <1>2, SeqDef
<1> QED
  BY <1>1, <1>3, LenProperties

\* AddCrewTasks appends open tasks and leaves the others alone.
LEMMA AddEffect ==
    ASSUME TypeOK, NEW batch \in Batches, AddCrewTasks(batch)
    PROVE  /\ TypeOK'
           /\ DOMAIN tasks \subseteq DOMAIN tasks'
           /\ \A i \in DOMAIN tasks : tasks'[i] = tasks[i]
           /\ \A i \in DOMAIN tasks' \ DOMAIN tasks :
                \E needs : tasks'[i] = NewTask(needs)
<1> DEFINE added == [k \in DOMAIN batch |-> NewTask(batch[k])]
           Draft == [needs: SUBSET Nat, status: Status, owner: Members \cup {NoOne},
                     attempts: Seq(Attempt)]
<1>1. batch \in Seq(SUBSET Nat)
  BY BatchesAssumption
<1>2. Len(batch) \in Nat /\ DOMAIN batch = 1..Len(batch)
  BY <1>1, LenProperties
<1>3. \A k \in 1..Len(batch) : NewTask(batch[k]) \in Draft
  <2>1. TAKE k \in 1..Len(batch)
  <2>2. batch[k] \in SUBSET Nat
    BY <1>1, ElementOfSeq
  <2>3. <<>> \in Seq(Attempt)
    BY EmptySeq
  <2> QED
    BY <2>2, <2>3 DEF NewTask, Status
<1>4. added \in Seq(Draft) /\ Len(added) = Len(batch)
  <2>1. added \in [1..Len(batch) -> Draft]
    BY <1>2, <1>3
  <2>2. added \in Seq(Draft)
    BY <2>1, <1>2, SeqDef
  <2> QED
    BY <2>2, <1>2, LenProperties
<1>5. tasks \in Seq(Draft)
  <2>1. Task \subseteq Draft
    BY DEF Task, Ids
  <2> QED
    BY <2>1, SeqMonotonic DEF TypeOK
<1>6. /\ tasks' \in Seq(Draft)
      /\ Len(tasks') = Len(tasks) + Len(batch)
      /\ \A i \in 1..Len(tasks) + Len(batch) :
            tasks'[i] = IF i <= Len(tasks) THEN tasks[i] ELSE added[i - Len(tasks)]
  <2>1. tasks' = tasks \o added
    BY DEF AddCrewTasks
  <2>2. /\ tasks \o added \in Seq(Draft)
        /\ Len(tasks \o added) = Len(tasks) + Len(added)
        /\ \A i \in 1..Len(tasks) + Len(added) :
              (tasks \o added)[i] = IF i <= Len(tasks) THEN tasks[i] ELSE added[i - Len(tasks)]
    <3> HIDE DEF added, Draft
    <3> QED BY <1>4, <1>5, ConcatProperties
  <2> HIDE DEF added, Draft
  <2> QED
    BY <2>1, <2>2, <1>4
<1>7. Len(tasks') <= MaxTasks /\ \A i \in DOMAIN tasks' : tasks'[i].needs \subseteq DOMAIN tasks'
  BY DEF AddCrewTasks
<1>8. DOMAIN tasks' = 1..Len(tasks') /\ Len(tasks') \in Nat
  BY <1>6, LenProperties
<1>9. \A i \in 1..Len(tasks') : tasks'[i] \in Task
  <2>1. TAKE i \in 1..Len(tasks')
  <2>2. tasks'[i] \in Draft
    BY <1>6, <2>1, ElementOfSeq
  <2>3. tasks'[i].needs \subseteq Ids
    BY <1>7, <1>8, <2>1, BoundsAssumption DEF Ids
  <2> QED
    BY <2>2, <2>3 DEF Task
<1>10. TypeOK'
  <2>1. tasks' \in [1..Len(tasks') -> Task]
    BY <1>6, <1>8, <1>9, LenProperties
  <2>2. tasks' \in Seq(Task)
    BY <2>1, <1>8, SeqDef
  <2> QED
    BY <2>2, <1>7 DEF TypeOK, Task, Ids, Status, Attempt, Members
<1>11. DOMAIN tasks = 1..Len(tasks) /\ Len(tasks) \in Nat
  BY ListDomain
<1>12. ASSUME NEW i \in DOMAIN tasks' \ DOMAIN tasks
       PROVE  \E needs : tasks'[i] = NewTask(needs)
  <2>1. i - Len(tasks) \in DOMAIN batch
    BY <1>2, <1>6, <1>8, <1>11
  <2>2. added[i - Len(tasks)] = NewTask(batch[i - Len(tasks)])
    BY <2>1
  <2>3. tasks'[i] = added[i - Len(tasks)]
    <3> HIDE DEF added
    <3> QED BY <1>2, <1>6, <1>8, <1>11
  <2> QED
    BY <2>2, <2>3
<1>13. DOMAIN tasks \subseteq DOMAIN tasks' /\ \A i \in DOMAIN tasks : tasks'[i] = tasks[i]
  <2> HIDE DEF added
  <2> QED BY <1>2, <1>6, <1>8, <1>11
<1> QED
  BY <1>10, <1>12, <1>13

\* Take changes one task.
LEMMA TakeEffect ==
    ASSUME TypeOK, NEW w \in Members, NEW i \in DOMAIN tasks, Take(w, i)
    PROVE  /\ TypeOK'
           /\ DOMAIN tasks' = DOMAIN tasks
           /\ tasks'[i] = Taken(tasks[i], w)
           /\ \A j \in DOMAIN tasks \ {i} : tasks'[j] = tasks[j]
<1>1. tasks[i] \in Task
  BY ListDomain
<1>2. tasks' = [tasks EXCEPT ![i] = Taken(tasks[i], w)]
  BY DEF Take, Taken
<1>3. Append(tasks[i].attempts, [by |-> w, failed |-> FALSE]) \in Seq(Attempt)
  BY <1>1, AppendProperties DEF Task, Attempt
<1>4. Taken(tasks[i], w) \in Task
  BY <1>1, <1>3 DEF Taken, Task, Status
<1>5. tasks' \in Seq(Task) /\ Len(tasks') = Len(tasks)
  BY <1>2, <1>4, ListDomain, ExceptSeq DEF TypeOK
<1> QED
  BY <1>2, <1>5 DEF TypeOK, Task, Ids, Status, Attempt, Members

\* So does CompleteCrewTask.
LEMMA CompleteEffect ==
    ASSUME TypeOK, NEW w \in Members, NEW i \in Ids, CompleteCrewTask(w, i)
    PROVE  /\ TypeOK'
           /\ i \in DOMAIN tasks
           /\ DOMAIN tasks' = DOMAIN tasks
           /\ tasks'[i] = Closed(tasks[i])
           /\ \A j \in DOMAIN tasks \ {i} : tasks'[j] = tasks[j]
<1>1. i \in DOMAIN tasks /\ tasks[i] \in Task
  BY ListDomain DEF CompleteCrewTask
<1>2. tasks' = [tasks EXCEPT ![i] = Closed(tasks[i])]
  BY DEF CompleteCrewTask, Closed
<1>3. Closed(tasks[i]) \in Task
  BY <1>1 DEF Closed, Task, Status
<1>4. tasks' \in Seq(Task) /\ Len(tasks') = Len(tasks)
  BY <1>1, <1>2, <1>3, ListDomain, ExceptSeq DEF TypeOK
<1> QED
  BY <1>1, <1>2, <1>4 DEF TypeOK, Task, Ids, Status, Attempt, Members

\* Recording an outcome keeps the number of attempts and who made them.
LEMMA OutcomeEffect ==
    ASSUME NEW attempts \in Seq(Attempt), NEW w, NEW outcome \in BOOLEAN
    PROVE  LET new == WithOutcome(attempts, w, outcome)
           IN  /\ new \in Seq(Attempt)
               /\ Len(new) = Len(attempts)
               /\ \A k \in DOMAIN attempts :
                    /\ new[k].by = attempts[k].by
                    /\ attempts[k].failed => new[k].failed
<1> DEFINE last == Len(attempts)
<1>1. CASE outcome /\ attempts # <<>> /\ attempts[last].by = w
  <2>1. last \in 1..Len(attempts) /\ DOMAIN attempts = 1..Len(attempts)
    BY <1>1, EmptySeq, LenProperties
  <2>2. attempts[last] \in Attempt
    BY <2>1, ElementOfSeq
  <2>3. [attempts[last] EXCEPT !.failed = TRUE] \in Attempt
    BY <2>2 DEF Attempt
  <2>4. WithOutcome(attempts, w, outcome)
            = [attempts EXCEPT ![last] = [attempts[last] EXCEPT !.failed = TRUE]]
    BY <1>1 DEF WithOutcome
  <2> QED
    BY <2>1, <2>2, <2>3, <2>4, ExceptSeq DEF Attempt
<1>2. CASE ~(outcome /\ attempts # <<>> /\ attempts[last].by = w)
  BY <1>2 DEF WithOutcome
<1> QED
  BY <1>1, <1>2

\* ReleaseCrewTasks hands back tasks that the thread holds and no others.
LEMMA ReleaseEffect ==
    ASSUME TypeOK, NEW w \in Members, NEW wanted, NEW outcome \in BOOLEAN,
           ReleaseCrewTasks(w, wanted, outcome)
    PROVE  /\ TypeOK'
           /\ DOMAIN tasks' = DOMAIN tasks
           /\ \A i \in HeldBy(w) \cap wanted : tasks'[i] = HandedBack(tasks[i], w, outcome)
           /\ \A i \in DOMAIN tasks \ (HeldBy(w) \cap wanted) : tasks'[i] = tasks[i]
<1>1. /\ DOMAIN tasks' = DOMAIN tasks
      /\ tasks' = [i \in DOMAIN tasks |-> tasks'[i]]
      /\ \A i \in DOMAIN tasks :
            tasks'[i] = IF i \in HeldBy(w) \cap wanted
                        THEN HandedBack(tasks[i], w, outcome) ELSE tasks[i]
  BY DEF ReleaseCrewTasks, HandedBack
<1>2. \A i \in DOMAIN tasks : tasks[i] \in Task
  BY ListDomain
<1>3. ASSUME NEW i \in DOMAIN tasks
      PROVE  tasks'[i] \in Task
  <2>1. tasks[i].attempts \in Seq(Attempt)
    BY <1>2 DEF Task
  <2>2. WithOutcome(tasks[i].attempts, w, outcome) \in Seq(Attempt)
    BY <2>1, OutcomeEffect
  <2>3. HandedBack(tasks[i], w, outcome) \in Task
    BY <1>2, <2>2 DEF HandedBack, Task, Status
  <2> QED
    BY <1>1, <1>2, <2>3
<1>4. tasks' \in Seq(Task) /\ Len(tasks') = Len(tasks)
  BY <1>1, <1>3, SameLength
<1>5. HeldBy(w) \subseteq DOMAIN tasks
  BY DEF HeldBy
<1> QED
  BY <1>1, <1>4, <1>5 DEF TypeOK, Task, Ids, Status, Attempt, Members

-----------------------------------------------------------------------------
(* What one step makes of one task.                                        *)

IsTaken(i, w) ==
    /\ tasks'[i] = Taken(tasks[i], w)
    /\ tasks[i].status # "done"
    /\ tasks[i].status = "claimed" => tasks[i].owner = w
    /\ ~IsBlocked(i)
    /\ Len(tasks[i].attempts) < AttemptCap

IsClosed(i) == tasks[i].status # "done" /\ tasks'[i] = Closed(tasks[i])

IsHandedBack(i, w, outcome) ==
    i \in HeldBy(w) /\ tasks'[i] = HandedBack(tasks[i], w, outcome)

Fate(i) ==
    \/ tasks'[i] = tasks[i]
    \/ \E w \in Members : IsTaken(i, w)
    \/ IsClosed(i)
    \/ \E w \in Members, outcome \in BOOLEAN : IsHandedBack(i, w, outcome)

StepEffect ==
    /\ TypeOK'
    /\ DOMAIN tasks \subseteq DOMAIN tasks'
    /\ \A i \in DOMAIN tasks : Fate(i)
    /\ \A i \in DOMAIN tasks' \ DOMAIN tasks : \E needs : tasks'[i] = NewTask(needs)

\* Both ways to claim meet the conditions of a claim.
LEMMA ClaimIsTake ==
    ASSUME TypeOK, NEW w \in Members, ClaimCrewTask(w)
    PROVE  \E i \in DOMAIN tasks :
              /\ Take(w, i)
              /\ tasks[i].status # "done"
              /\ tasks[i].status = "claimed" => tasks[i].owner = w
              /\ ~IsBlocked(i)
<1>1. CASE SelfClaim(w)
  BY <1>1 DEF SelfClaim, Claimable
<1>2. CASE \E i \in Ids : ClaimNamed(w, i)
  BY <1>2 DEF ClaimNamed
<1> QED
  BY <1>1, <1>2 DEF ClaimCrewTask

\* Every call of services-crew.js is one of the effects above.
LEMMA NextEffect ==
    ASSUME TypeOK, Next
    PROVE  StepEffect
<1>1. CASE \E batch \in Batches : AddCrewTasks(batch)
  <2>1. PICK batch \in Batches : AddCrewTasks(batch)
    BY <1>1
  <2> QED
    BY <2>1, AddEffect DEF StepEffect, Fate
<1>2. ASSUME NEW w \in Members, ClaimCrewTask(w)
      PROVE  StepEffect
  <2>1. PICK i \in DOMAIN tasks :
              /\ Take(w, i)
              /\ tasks[i].status # "done"
              /\ tasks[i].status = "claimed" => tasks[i].owner = w
              /\ ~IsBlocked(i)
    BY <1>2, ClaimIsTake
  <2>2. /\ TypeOK'
        /\ DOMAIN tasks' = DOMAIN tasks
        /\ tasks'[i] = Taken(tasks[i], w)
        /\ \A j \in DOMAIN tasks \ {i} : tasks'[j] = tasks[j]
    BY <2>1, TakeEffect
  <2>3. Len(tasks[i].attempts) < AttemptCap
    BY <2>1 DEF Take
  <2>4. IsTaken(i, w)
    BY <2>1, <2>2, <2>3 DEF IsTaken
  <2> QED
    BY <2>2, <2>4 DEF StepEffect, Fate
<1>3. ASSUME NEW w \in Members, NEW i \in Ids, CompleteCrewTask(w, i)
      PROVE  StepEffect
  <2>1. IsClosed(i)
    BY <1>3, CompleteEffect DEF IsClosed, CompleteCrewTask
  <2> QED
    BY <1>3, <2>1, CompleteEffect DEF StepEffect, Fate
<1>4. ASSUME NEW w \in Members, NEW wanted, NEW outcome \in BOOLEAN,
             ReleaseCrewTasks(w, wanted, outcome)
      PROVE  StepEffect
  <2>1. \A i \in HeldBy(w) \cap wanted : IsHandedBack(i, w, outcome)
    BY <1>4, ReleaseEffect DEF IsHandedBack
  <2> QED
    BY <1>4, <2>1, ReleaseEffect DEF StepEffect, Fate
<1>5. ASSUME NEW w \in Members, TaskRelease(w)
      PROVE  StepEffect
  BY <1>4, <1>5 DEF TaskRelease
<1>6. ASSUME NEW w \in Members, RunFailed(w)
      PROVE  StepEffect
  BY <1>4, <1>6 DEF RunFailed
<1> QED
  BY <1>1, <1>2, <1>3, <1>5, <1>6 DEF Next

-----------------------------------------------------------------------------
(* The type invariant.                                                     *)

\* The empty board is well formed.
LEMMA InitType == Init => TypeOK
BY EmptySeq, BoundsAssumption DEF Init, TypeOK

\* A step that leaves the board alone leaves it well formed.
LEMMA StutterType == TypeOK /\ UNCHANGED vars => TypeOK'
BY DEF TypeOK, vars, Task, Ids, Status, Attempt, Members

\* The board stays well formed whatever is called: every need, owner and
\* attempt names a task or a member, and the list never outgrows its cap.
THEOREM TypeCorrect == Spec => []TypeOK
<1>1. TypeOK /\ [Next]_vars => TypeOK'
  BY NextEffect, StutterType DEF StepEffect
<1> QED
  BY InitType, <1>1, PTL DEF Spec

-----------------------------------------------------------------------------
(* Claims and dependencies.                                                *)

\* No call changes a finished task.
LEMMA DoneIsFinal ==
    ASSUME TypeOK, StepEffect, NEW i \in DOMAIN tasks, tasks[i].status = "done"
    PROVE  tasks'[i] = tasks[i]
BY DEF StepEffect, Fate, IsTaken, IsClosed, IsHandedBack, HeldBy

\* No call changes what a task needs, or removes a task.
LEMMA NeedsAreFixed ==
    ASSUME TypeOK, StepEffect, NEW i \in DOMAIN tasks
    PROVE  tasks'[i].needs = tasks[i].needs
BY ListDomain
   DEF StepEffect, Fate, IsTaken, IsClosed, IsHandedBack, Taken, Closed, HandedBack, Task

\* Once claimable, a task is never blocked again.
LEMMA UnblockedStays ==
    ASSUME TypeOK, StepEffect, NEW i \in DOMAIN tasks, ~IsBlocked(i)
    PROVE  ~IsBlocked(i)'
<1> SUFFICES ASSUME NEW n \in tasks'[i].needs
             PROVE  n \in DOMAIN tasks' /\ tasks'[n].status = "done"
  BY DEF IsBlocked
<1>1. n \in DOMAIN tasks /\ tasks[n].status = "done"
  BY NeedsAreFixed DEF IsBlocked
<1> QED
  BY <1>1, DoneIsFinal DEF StepEffect

\* No call makes a claimed task blocked: needs are fixed and done is final.
LEMMA ReadyStep ==
    ASSUME TypeOK, StepEffect, ClaimedIsReady
    PROVE  ClaimedIsReady'
<1> SUFFICES ASSUME NEW i \in DOMAIN tasks', tasks'[i].status = "claimed"
             PROVE  ~IsBlocked(i)'
  BY DEF ClaimedIsReady
<1>1. i \in DOMAIN tasks
  BY DEF StepEffect, NewTask
<1>2. tasks[i].status = "claimed" \/ \E w \in Members : IsTaken(i, w)
  BY <1>1, ListDomain
     DEF StepEffect, Fate, IsClosed, IsHandedBack, Closed, HandedBack, Task
<1>3. ~IsBlocked(i)
  BY <1>1, <1>2 DEF ClaimedIsReady, IsTaken
<1> QED
  BY <1>1, <1>3, UnblockedStays

\* No task is worked on before everything it needs is done.
THEOREM Readiness == Spec => []ClaimedIsReady
<1>1. Init => ClaimedIsReady
  BY DEF Init, ClaimedIsReady
<1>2. TypeOK /\ ClaimedIsReady /\ [Next]_vars => ClaimedIsReady'
  <2>1. TypeOK /\ ClaimedIsReady /\ UNCHANGED vars => ClaimedIsReady'
    BY DEF ClaimedIsReady, IsBlocked, vars
  <2> QED
    BY <2>1, NextEffect, ReadyStep
<1> QED
  BY <1>1, <1>2, TypeCorrect, PTL DEF Spec

-----------------------------------------------------------------------------
(* Attempts.                                                               *)

\* The fields of a task that was taken, and of one that was handed back.
LEMMA TakenTask ==
    ASSUME NEW t \in Task, NEW w \in Members
    PROVE  /\ Taken(t, w).status = "claimed" /\ Taken(t, w).owner = w
           /\ Len(t.attempts) \in Nat
           /\ Len(Taken(t, w).attempts) = Len(t.attempts) + 1
           /\ Taken(t, w).attempts[Len(t.attempts) + 1].by = w
           /\ \A k \in DOMAIN t.attempts : Taken(t, w).attempts[k] = t.attempts[k]
<1>1. t.attempts \in Seq(Attempt)
  BY DEF Task
<1>2. [by |-> w, failed |-> FALSE] \in Attempt
  BY DEF Attempt
<1>3. Taken(t, w).attempts = Append(t.attempts, [by |-> w, failed |-> FALSE])
  BY DEF Taken, Task
<1>4. Len(t.attempts) \in Nat /\ DOMAIN t.attempts = 1..Len(t.attempts)
  BY <1>1, LenProperties
<1>5. LET a == Append(t.attempts, [by |-> w, failed |-> FALSE])
      IN  /\ Len(a) = Len(t.attempts) + 1
          /\ \A k \in 1..Len(t.attempts) : a[k] = t.attempts[k]
          /\ a[Len(t.attempts) + 1].by = w
  BY <1>1, <1>2, AppendProperties
<1>6. Taken(t, w).status = "claimed" /\ Taken(t, w).owner = w
  BY DEF Taken, Task
<1> QED
  BY <1>3, <1>4, <1>5, <1>6

\* A task that is handed back is open and unowned, and keeps who tried it.
LEMMA HandedBackTask ==
    ASSUME NEW t \in Task, NEW w \in Members, NEW outcome \in BOOLEAN
    PROVE  LET a == HandedBack(t, w, outcome).attempts
           IN  /\ HandedBack(t, w, outcome).status = "open"
               /\ HandedBack(t, w, outcome).owner = NoOne
               /\ Len(a) = Len(t.attempts)
               /\ \A k \in DOMAIN t.attempts :
                    /\ a[k].by = t.attempts[k].by
                    /\ t.attempts[k].failed => a[k].failed
<1>1. t.attempts \in Seq(Attempt)
  BY DEF Task
<1>2. HandedBack(t, w, outcome).attempts = WithOutcome(t.attempts, w, outcome)
  BY DEF HandedBack, Task
<1>3. HandedBack(t, w, outcome).status = "open" /\ HandedBack(t, w, outcome).owner = NoOne
  BY DEF HandedBack, Task
<1> QED
  BY <1>1, <1>2, <1>3, OutcomeEffect

\* A closed task is done and unowned.
LEMMA ClosedTask ==
    ASSUME NEW t \in Task
    PROVE  /\ Closed(t).status = "done" /\ Closed(t).owner = NoOne
           /\ Closed(t).attempts = t.attempts
BY DEF Closed, Task

\* A new task is open, unowned and untried.
LEMMA FreshTask ==
    ASSUME NEW needs
    PROVE  /\ NewTask(needs).status = "open" /\ NewTask(needs).owner = NoOne
           /\ NewTask(needs).attempts = <<>> /\ Len(NewTask(needs).attempts) = 0
BY EmptySeq DEF NewTask

\* No call parts the owner of a claimed task from its last attempt.
LEMMA OwnerStep ==
    ASSUME TypeOK, StepEffect, OwnerIsLastClaimant
    PROVE  OwnerIsLastClaimant'
<1> SUFFICES ASSUME NEW i \in DOMAIN tasks'
             PROVE  LET a == tasks'[i].attempts
                    IN  IF tasks'[i].status = "claimed"
                        THEN a # <<>> /\ tasks'[i].owner = a[Len(a)].by
                        ELSE tasks'[i].owner = NoOne
  BY DEF OwnerIsLastClaimant
<1>1. CASE i \notin DOMAIN tasks
  BY <1>1, FreshTask DEF StepEffect
<1>2. CASE i \in DOMAIN tasks /\ tasks'[i] = tasks[i]
  BY <1>2 DEF OwnerIsLastClaimant
<1>3. ASSUME i \in DOMAIN tasks, NEW w \in Members, IsTaken(i, w)
      PROVE  tasks'[i].attempts # <<>>
             /\ tasks'[i].status = "claimed"
             /\ tasks'[i].owner = tasks'[i].attempts[Len(tasks'[i].attempts)].by
  <2>1. tasks[i] \in Task /\ tasks'[i] = Taken(tasks[i], w)
    BY <1>3, ListDomain DEF IsTaken
  <2>2. /\ tasks'[i].status = "claimed" /\ tasks'[i].owner = w
        /\ Len(tasks[i].attempts) \in Nat
        /\ Len(tasks'[i].attempts) = Len(tasks[i].attempts) + 1
        /\ tasks'[i].attempts[Len(tasks[i].attempts) + 1].by = w
    BY <2>1, <1>3, TakenTask
  <2>3. tasks'[i].attempts # <<>>
    BY <2>2, EmptySeq
  <2> QED
    BY <2>2, <2>3
<1>4. CASE i \in DOMAIN tasks /\ IsClosed(i)
  BY <1>4, ListDomain, ClosedTask DEF IsClosed
<1>5. ASSUME i \in DOMAIN tasks, NEW w \in Members, NEW outcome \in BOOLEAN,
             IsHandedBack(i, w, outcome)
      PROVE  tasks'[i].status = "open" /\ tasks'[i].owner = NoOne
  BY <1>5, ListDomain, HandedBackTask DEF IsHandedBack
<1>6. i \in DOMAIN tasks => Fate(i)
  BY DEF StepEffect
<1> QED
  BY <1>1, <1>2, <1>3, <1>4, <1>5, <1>6 DEF Fate

\* A claimed task belongs to the thread of its last attempt, any other task
\* to nobody.
THEOREM Ownership == Spec => []OwnerIsLastClaimant
<1>1. Init => OwnerIsLastClaimant
  BY DEF Init, OwnerIsLastClaimant
<1>2. TypeOK /\ OwnerIsLastClaimant /\ [Next]_vars => OwnerIsLastClaimant'
  <2>1. OwnerIsLastClaimant /\ UNCHANGED vars => OwnerIsLastClaimant'
    BY DEF OwnerIsLastClaimant, vars
  <2> QED
    BY <2>1, NextEffect, OwnerStep
<1> QED
  BY <1>1, <1>2, TypeCorrect, PTL DEF Spec

\* No call adds an attempt past the cap: only a claim adds one, below it.
LEMMA CapStep ==
    ASSUME TypeOK, StepEffect, AttemptsCapped
    PROVE  AttemptsCapped'
<1> SUFFICES ASSUME NEW i \in DOMAIN tasks'
             PROVE  Len(tasks'[i].attempts) <= AttemptCap
  BY DEF AttemptsCapped
<1>1. CASE i \notin DOMAIN tasks
  BY <1>1, FreshTask, BoundsAssumption DEF StepEffect
<1>2. CASE i \in DOMAIN tasks /\ tasks'[i] = tasks[i]
  BY <1>2 DEF AttemptsCapped
<1>3. ASSUME i \in DOMAIN tasks, NEW w \in Members, IsTaken(i, w)
      PROVE  Len(tasks'[i].attempts) <= AttemptCap
  <2>1. tasks[i] \in Task /\ tasks'[i] = Taken(tasks[i], w) /\ Len(tasks[i].attempts) < AttemptCap
    BY <1>3, ListDomain DEF IsTaken
  <2>2. Len(tasks'[i].attempts) = Len(tasks[i].attempts) + 1 /\ Len(tasks[i].attempts) \in Nat
    BY <2>1, <1>3, TakenTask
  <2> QED
    BY <2>1, <2>2, BoundsAssumption
<1>4. CASE i \in DOMAIN tasks /\ IsClosed(i)
  BY <1>4, ListDomain, ClosedTask DEF IsClosed, AttemptsCapped
<1>5. ASSUME i \in DOMAIN tasks, NEW w \in Members, NEW outcome \in BOOLEAN,
             IsHandedBack(i, w, outcome)
      PROVE  Len(tasks'[i].attempts) <= AttemptCap
  BY <1>5, ListDomain, HandedBackTask DEF IsHandedBack, AttemptsCapped
<1>6. i \in DOMAIN tasks => Fate(i)
  BY DEF StepEffect
<1> QED
  BY <1>1, <1>2, <1>3, <1>4, <1>5, <1>6 DEF Fate

\* The loop guardrail: no task is claimed more often than the cap.
THEOREM Guardrail == Spec => []AttemptsCapped
<1>1. Init => AttemptsCapped
  BY DEF Init, AttemptsCapped
<1>2. TypeOK /\ AttemptsCapped /\ [Next]_vars => AttemptsCapped'
  <2>1. AttemptsCapped /\ UNCHANGED vars => AttemptsCapped'
    BY DEF AttemptsCapped, vars
  <2> QED
    BY <2>1, NextEffect, CapStep
<1> QED
  BY <1>1, <1>2, TypeCorrect, PTL DEF Spec

-----------------------------------------------------------------------------
(* The record of a task.                                                   *)

\* What HistoryIsKept says of one task.
KeepsHistory(i) ==
    LET old == tasks[i].attempts
        new == tasks'[i].attempts
    IN  /\ tasks[i].status = "done" => tasks'[i] = tasks[i]
        /\ Len(old) <= Len(new)
        /\ \A k \in DOMAIN old :
             /\ new[k].by = old[k].by
             /\ old[k].failed => new[k].failed

\* Every call keeps finished tasks and the attempts of all tasks.
LEMMA HistoryStep ==
    ASSUME TypeOK, StepEffect, NEW i \in DOMAIN tasks
    PROVE  KeepsHistory(i)
<1>1. tasks[i] \in Task /\ Len(tasks[i].attempts) \in Nat
  <2>1. tasks[i] \in Task
    BY ListDomain
  <2> QED
    BY <2>1, LenProperties DEF Task
<1>2. tasks[i].status = "done" => tasks'[i] = tasks[i]
  BY DoneIsFinal
<1>3. CASE tasks'[i] = tasks[i]
  BY <1>1, <1>3 DEF KeepsHistory
<1>4. ASSUME NEW w \in Members, IsTaken(i, w)
      PROVE  KeepsHistory(i)
  <2>1. /\ Len(tasks'[i].attempts) = Len(tasks[i].attempts) + 1
        /\ \A k \in DOMAIN tasks[i].attempts : tasks'[i].attempts[k] = tasks[i].attempts[k]
    BY <1>1, <1>4, TakenTask DEF IsTaken
  <2> QED
    BY <1>1, <1>2, <2>1 DEF KeepsHistory
<1>5. CASE IsClosed(i)
  <2>1. tasks'[i].attempts = tasks[i].attempts
    BY <1>1, <1>5, ClosedTask DEF IsClosed
  <2> QED
    BY <1>1, <1>2, <2>1 DEF KeepsHistory
<1>6. ASSUME NEW w \in Members, NEW outcome \in BOOLEAN, IsHandedBack(i, w, outcome)
      PROVE  KeepsHistory(i)
  <2>1. /\ Len(tasks'[i].attempts) = Len(tasks[i].attempts)
        /\ \A k \in DOMAIN tasks[i].attempts :
             /\ tasks'[i].attempts[k].by = tasks[i].attempts[k].by
             /\ tasks[i].attempts[k].failed => tasks'[i].attempts[k].failed
    BY <1>1, <1>6, HandedBackTask DEF IsHandedBack
  <2> QED
    BY <1>1, <1>2, <2>1 DEF KeepsHistory
<1> QED
  BY <1>3, <1>4, <1>5, <1>6 DEF StepEffect, Fate

\* Done is final, and no call rewrites or drops an attempt.
THEOREM History == Spec => HistoryIsKept
<1>1. TypeOK /\ [Next]_vars => [\A i \in DOMAIN tasks : KeepsHistory(i)]_vars
  BY NextEffect, HistoryStep
<1> QED
  BY <1>1, TypeCorrect, PTL DEF Spec, HistoryIsKept, KeepsHistory

-----------------------------------------------------------------------------
(* The board of locks.                                                     *)

\* An empty list is a board of free locks.
LEMMA BoardInit == Init => Board!Init
BY DEF Init, Board!Init, HolderOf, TriesOf, ClosedOf

\* Tasks outside the list are free, untried and open.
LEMMA BoardStep ==
    ASSUME TypeOK, OwnerIsLastClaimant, Next
    PROVE  Board!Next \/ UNCHANGED <<HolderOf, TriesOf, ClosedOf>>
<1>0. TypeOK' /\ DOMAIN tasks \subseteq DOMAIN tasks' /\ DOMAIN tasks' \subseteq Ids
  <2>1. TypeOK' /\ DOMAIN tasks \subseteq DOMAIN tasks'
    BY NextEffect DEF StepEffect
  <2>2. DOMAIN tasks' = 1..Len(tasks') /\ Len(tasks') \in Nat /\ Len(tasks') <= MaxTasks
    BY <2>1, LenProperties DEF TypeOK
  <2> QED
    BY <2>1, <2>2, BoundsAssumption DEF Ids
<1>1. ASSUME NEW batch \in Batches, AddCrewTasks(batch)
      PROVE  UNCHANGED <<HolderOf, TriesOf, ClosedOf>>
  <2>1. /\ \A i \in DOMAIN tasks : tasks'[i] = tasks[i]
        /\ \A i \in DOMAIN tasks' \ DOMAIN tasks :
              /\ tasks'[i].status = "open" /\ tasks'[i].owner = NoOne
              /\ Len(tasks'[i].attempts) = 0
    BY <1>1, AddEffect, FreshTask
  <2>2. HolderOf' = HolderOf
    BY <1>0, <2>1 DEF HolderOf
  <2>3. TriesOf' = TriesOf
    BY <1>0, <2>1 DEF TriesOf
  <2>4. ClosedOf' = ClosedOf
    BY <1>0, <2>1 DEF ClosedOf
  <2> QED
    BY <2>2, <2>3, <2>4
<1>2. ASSUME NEW w \in Members, ClaimCrewTask(w)
      PROVE  Board!Next
  <2>1. PICK i \in DOMAIN tasks :
              /\ Take(w, i)
              /\ tasks[i].status # "done"
              /\ tasks[i].status = "claimed" => tasks[i].owner = w
              /\ ~IsBlocked(i)
    BY <1>2, ClaimIsTake
  <2>2. /\ DOMAIN tasks' = DOMAIN tasks
        /\ tasks'[i] = Taken(tasks[i], w)
        /\ \A j \in DOMAIN tasks \ {i} : tasks'[j] = tasks[j]
    BY <2>1, TakeEffect
  <2>3. i \in Ids /\ tasks[i] \in Task
    BY ListDomain
  <2>4. /\ tasks'[i].status = "claimed" /\ tasks'[i].owner = w
        /\ Len(tasks'[i].attempts) = Len(tasks[i].attempts) + 1
    BY <2>2, <2>3, TakenTask
  <2>5. tasks[i].owner \in {NoOne, w}
    BY <2>1 DEF OwnerIsLastClaimant
  <2>6. HolderOf' = [HolderOf EXCEPT ![i] = w]
    BY <2>2, <2>3, <2>4 DEF HolderOf
  <2>7. TriesOf' = [TriesOf EXCEPT ![i] = @ + 1]
    BY <2>2, <2>3, <2>4 DEF TriesOf
  <2>8. ClosedOf' = ClosedOf /\ i \notin ClosedOf
    BY <2>1, <2>2, <2>4 DEF ClosedOf
  <2>9. HolderOf[i] \in {NoOne, w} /\ TriesOf[i] < AttemptCap
    BY <2>1, <2>3, <2>5 DEF HolderOf, TriesOf, Take
  <2>10. Board!Acquire(w, i)
    BY <2>6, <2>7, <2>8, <2>9 DEF Board!Acquire
  <2> QED
    BY <2>3, <2>10 DEF Board!Next
<1>3. ASSUME NEW w \in Members, NEW i \in Ids, CompleteCrewTask(w, i)
      PROVE  Board!Next
  <2>1. /\ i \in DOMAIN tasks
        /\ DOMAIN tasks' = DOMAIN tasks
        /\ tasks'[i] = Closed(tasks[i])
        /\ \A j \in DOMAIN tasks \ {i} : tasks'[j] = tasks[j]
    BY <1>3, CompleteEffect
  <2>2. /\ tasks'[i].status = "done" /\ tasks'[i].owner = NoOne
        /\ tasks'[i].attempts = tasks[i].attempts
    BY <2>1, ListDomain, ClosedTask
  <2>3. HolderOf' = [HolderOf EXCEPT ![i] = NoOne]
    BY <2>1, <2>2 DEF HolderOf
  <2>4. TriesOf' = TriesOf
    BY <2>1, <2>2 DEF TriesOf
  <2>5. ClosedOf' = ClosedOf \cup {i} /\ i \notin ClosedOf
    BY <1>3, <2>1, <2>2 DEF ClosedOf, CompleteCrewTask
  <2>6. w = Root \/ HolderOf[i] \in {NoOne, w}
    BY <1>3, <2>1 DEF HolderOf, CompleteCrewTask
  <2>7. Board!Close(w, i)
    BY <2>3, <2>4, <2>5, <2>6 DEF Board!Close
  <2> QED
    BY <2>7 DEF Board!Next
<1>4. ASSUME NEW w \in Members, NEW wanted, NEW outcome \in BOOLEAN,
             ReleaseCrewTasks(w, wanted, outcome)
      PROVE  Board!Next
  <2> DEFINE given == HeldBy(w) \cap wanted
  <2>1. /\ DOMAIN tasks' = DOMAIN tasks
        /\ \A i \in given : tasks'[i] = HandedBack(tasks[i], w, outcome)
        /\ \A i \in DOMAIN tasks \ given : tasks'[i] = tasks[i]
    BY <1>4, ReleaseEffect
  <2>2. /\ given \subseteq DOMAIN tasks /\ given \in SUBSET Ids
        /\ \A i \in given : tasks[i].status = "claimed" /\ tasks[i].owner = w
    BY ListDomain DEF HeldBy
  <2>3. \A i \in given : /\ tasks'[i].status = "open" /\ tasks'[i].owner = NoOne
                         /\ Len(tasks'[i].attempts) = Len(tasks[i].attempts)
    BY <2>1, <2>2, ListDomain, HandedBackTask
  <2> HIDE DEF given
  <2>4. HolderOf' = [i \in Ids |-> IF i \in given THEN NoOne ELSE HolderOf[i]]
    BY <2>1, <2>2, <2>3 DEF HolderOf
  <2>5. TriesOf' = TriesOf
    BY <2>1, <2>2, <2>3 DEF TriesOf
  <2>6. ClosedOf' = ClosedOf
    BY <2>1, <2>2, <2>3 DEF ClosedOf
  <2>7. \A i \in given : HolderOf[i] = w
    BY <2>2 DEF HolderOf
  <2>8. Board!Yield(w, given)
    BY <2>4, <2>5, <2>6, <2>7 DEF Board!Yield
  <2> QED
    BY <2>2, <2>8 DEF Board!Next
<1> QED
  BY <1>1, <1>2, <1>3, <1>4 DEF Next, TaskRelease, RunFailed

\* The calls of services-crew.js implement the board of locks.
THEOREM Refinement == Spec => BoardSpec
<1>1. TypeOK /\ OwnerIsLastClaimant /\ [Next]_vars => [Board!Next]_Board!bvars
  <2>1. UNCHANGED vars => UNCHANGED <<HolderOf, TriesOf, ClosedOf>>
    BY DEF vars, HolderOf, TriesOf, ClosedOf
  <2> QED
    BY <2>1, BoardStep DEF Board!bvars
<1> QED
  BY <1>1, BoardInit, TypeCorrect, Ownership, PTL DEF Spec, BoardSpec, Board!Spec
=============================================================================
