------------------------- MODULE RunLifecycle_proofs -------------------------
(***************************************************************************)
(* Proofs about the run lifecycle, for any number of threads, any cap and  *)
(* any bound.                                                              *)
(***************************************************************************)
EXTENDS RunLifecycle, FiniteSetTheorems, SequenceTheorems, TLAPS

-----------------------------------------------------------------------------
(* Well-formed tasks and queues.                                           *)

\* The three kinds of start, and the admission, may be put on the queue.
LEMMA TaskType ==
    /\ Admit \in Task
    /\ \A t \in Threads, from \in Source, msgs \in Seq(Msg) : StartOf(t, from, msgs) \in Start
BY DEF Admit, StartOf, Task, Start

\* A start of one message.
LEMMA OneMessage ==
    ASSUME NEW t \in Threads, NEW from \in Source, NEW m \in Msg
    PROVE  <<m>> \in Seq(Msg) /\ StartOf(t, from, <<m>>) \in Start
<1>1. <<m>> \in Seq(Msg)
  OBVIOUS
<1> QED
  BY <1>1, TaskType

\* A sequence of one or two tasks.
LEMMA ShortQueue ==
    ASSUME NEW a \in Task, NEW b \in Task
    PROVE  <<>> \in Seq(Task) /\ <<a>> \in Seq(Task) /\ <<a, b>> \in Seq(Task)
OBVIOUS

\* The head of the microtask queue, when it is a start, is well formed.
LEMMA HeadStart ==
    ASSUME TypeOK, ~Idle, Head(micro).op = "start"
    PROVE  /\ Head(micro) \in Start
           /\ Tail(micro) \in Seq(Task)
<1>1. Head(micro) \in Task /\ Tail(micro) \in Seq(Task)
  BY HeadTailProperties DEF TypeOK, Idle
<1> QED
  BY <1>1 DEF Task

\* The messages of a start, with those it folds in.
LEMMA FoldedType ==
    ASSUME TypeOK, NEW in \in Start
    PROVE  /\ in.t \in Threads /\ in.from \in Source /\ in.msgs \in Seq(Msg)
           /\ Folded(in) \in Seq(Msg)
           /\ Folded(in) \o in.msgs \in Seq(Msg)
<1>1. in.t \in Threads /\ in.from \in Source /\ in.msgs \in Seq(Msg)
  BY DEF Start
<1>2. Folded(in) \in Seq(Msg)
  BY <1>1 DEF TypeOK, Folded
<1> QED
  BY <1>1, <1>2, ConcatProperties

\* The elements of a list of messages are messages.
LEMMA ElemsType ==
    ASSUME NEW s \in Seq(Msg)
    PROVE  Elems(s) \subseteq Msg
BY ElementOfSeq DEF Elems

\* Taking an entry out of the run queue.
LEMMA WithoutType ==
    ASSUME TypeOK, NEW i \in DOMAIN runQueue
    PROVE  /\ WithoutEntry(i) \in Seq([t: Threads, msgs: Seq(Msg)])
           /\ Len(WithoutEntry(i)) = Len(runQueue) - 1
           /\ \A j \in 1..(Len(runQueue) - 1) :
                WithoutEntry(i)[j] = runQueue[IF j < i THEN j ELSE j + 1]
<1> DEFINE QEntry == [t: Threads, msgs: Seq(Msg)]
           n == Len(runQueue)
           front == SubSeq(runQueue, 1, i - 1)
           back == SubSeq(runQueue, i + 1, n)
<1>1. /\ runQueue \in Seq(QEntry) /\ n \in Nat /\ i \in 1..n
      /\ \A j \in 1..n : runQueue[j] \in QEntry
  BY LenProperties, ElementOfSeq DEF TypeOK
<1>2. /\ front \in Seq(QEntry) /\ Len(front) = i - 1
      /\ \A j \in 1..(i - 1) : front[j] = runQueue[j]
  <2>1. /\ front \in Seq(QEntry)
        /\ Len(front) = IF 1 <= i - 1 THEN (i - 1) - 1 + 1 ELSE 0
        /\ \A j \in 1..((i - 1) - 1 + 1) : front[j] = runQueue[1 + j - 1]
    BY <1>1, SubSeqProperties
  <2> HIDE DEF front
  <2> QED
    BY <1>1, <2>1
<1>3. /\ back \in Seq(QEntry) /\ Len(back) = n - i
      /\ \A j \in 1..(n - i) : back[j] = runQueue[i + j]
  <2>1. /\ back \in Seq(QEntry)
        /\ Len(back) = IF i + 1 <= n THEN n - (i + 1) + 1 ELSE 0
        /\ \A j \in 1..(n - (i + 1) + 1) : back[j] = runQueue[(i + 1) + j - 1]
    <3>1. i + 1 \in Int /\ n \in Int /\ \A j \in (i + 1)..n : runQueue[j] \in QEntry
      BY <1>1
    <3> QED
      BY <3>1, SubSeqProperties
  <2> HIDE DEF back
  <2>2. i \in Nat /\ n \in Nat /\ i <= n
    BY <1>1
  <2> HIDE DEF n
  <2>3. n - (i + 1) + 1 = n - i
    BY <2>2
  <2>4. (IF i + 1 <= n THEN n - (i + 1) + 1 ELSE 0) = n - i
    BY <2>2
  <2>5. \A j \in 1..(n - i) : (i + 1) + j - 1 = i + j
    BY <2>2
  <2> QED
    BY <2>1, <2>3, <2>4, <2>5
<1>4. WithoutEntry(i) = front \o back
  BY DEF WithoutEntry
<1> HIDE DEF front, back
<1>5. /\ front \o back \in Seq(QEntry)
      /\ Len(front \o back) = Len(front) + Len(back)
      /\ \A j \in 1..(Len(front) + Len(back)) :
           (front \o back)[j] = IF j <= Len(front) THEN front[j] ELSE back[j - Len(front)]
  BY <1>2, <1>3, ConcatProperties
<1>6. (i - 1) + (n - i) = n - 1
  BY <1>1
<1>7. ASSUME NEW j \in 1..(n - 1)
      PROVE  (front \o back)[j] = runQueue[IF j < i THEN j ELSE j + 1]
  <2>1. (front \o back)[j] = IF j <= i - 1 THEN front[j] ELSE back[j - (i - 1)]
    BY <1>2, <1>3, <1>5, <1>6
  <2>2. CASE j < i
    BY <1>1, <1>2, <2>1, <2>2
  <2>3. CASE ~(j < i)
    <3> DEFINE k == j - (i - 1)
    <3>1. k \in 1..(n - i) /\ i + k = j + 1
      BY <1>1, <2>3
    <3>2. (front \o back)[j] = back[k]
      BY <1>1, <2>1, <2>3
    <3> HIDE DEF k
    <3>3. back[k] = runQueue[i + k]
      BY <1>3, <3>1
    <3> QED
      BY <2>3, <3>1, <3>2, <3>3
  <2> QED
    BY <2>2, <2>3
<1> QED
  BY <1>2, <1>3, <1>4, <1>5, <1>6, <1>7

\* The run id of a new run is not in use.
LEMMA FreeIdIsFree ==
    ASSUME TypeOK, UsedIds # RunId
    PROVE  FreeId \in RunId /\ FreeId \notin UsedIds
<1>1. \A t \in Running : active[t] \in Entry
  BY DEF TypeOK, Running
<1>2. UsedIds \subseteq RunId
  BY <1>1 DEF TypeOK, UsedIds, Entry, Launch, Pending, Running
<1>3. \E r \in RunId : r \notin UsedIds
  BY <1>2
<1> QED
  BY <1>3 DEF FreeId

-----------------------------------------------------------------------------
(* Type correctness, one lemma per group of actions.                       *)

\* A start that is refused, parked or queued.
LEMMA StartParkedType ==
    ASSUME TypeOK, ~Idle, Head(micro).op = "start"
    PROVE  /\ StartWaitsForPath(Head(micro)) => TypeOK'
           /\ \A worktree \in BOOLEAN : StartRefused(Head(micro), worktree) => TypeOK'
           /\ StartQueued(Head(micro)) => TypeOK'
<1> DEFINE in == Head(micro)
<1>1. in \in Start /\ Tail(micro) \in Seq(Task)
  BY HeadStart
<1>2. /\ in.t \in Threads /\ in.from \in Source /\ in.msgs \in Seq(Msg)
      /\ Folded(in) \in Seq(Msg)
      /\ Folded(in) \o in.msgs \in Seq(Msg)
  BY <1>1, FoldedType
<1>3. Elems(in.msgs) \subseteq Msg /\ Elems(Folded(in) \o in.msgs) \subseteq Msg
  BY <1>2, ElemsType
<1> HIDE DEF in
<1>4. ASSUME StartWaitsForPath(in)
      PROVE  TypeOK'
  <2>1. pathWait' \in Seq(Start) /\ micro' \in Seq(Task)
    BY <1>1, <1>4, AppendProperties DEF StartWaitsForPath, TypeOK
  <2> QED
    BY <1>4, <2>1 DEF StartWaitsForPath, TypeOK, runVars, queueVars, histVars
<1>5. ASSUME NEW worktree \in BOOLEAN, StartRefused(in, worktree)
      PROVE  TypeOK'
  <2>1. typeAhead' \in [Threads -> Seq(Msg)]
    <3>1. in.msgs \o typeAhead[in.t] \in Seq(Msg)
      BY <1>2, ConcatProperties DEF TypeOK
    <3> QED
      BY <1>2, <1>5, <3>1 DEF StartRefused, TypeOK
  <2>2. status' \in [Threads -> {"idle", "working", "done", "failed"}]
    BY <1>2, <1>5 DEF StartRefused, TypeOK
  <2>3. bounced' \subseteq Msg /\ recorded' \subseteq Msg
    BY <1>3, <1>5 DEF StartRefused, TypeOK
  <2> QED
    BY <1>1, <1>5, <2>1, <2>2, <2>3 DEF StartRefused, TypeOK, pathVars
<1>6. ASSUME StartQueued(in)
      PROVE  TypeOK'
  <2> DEFINE QEntry == [t: Threads, msgs: Seq(Msg)]
             msgs == Folded(in) \o in.msgs
  <2>1. typeAhead' \in [Threads -> Seq(Msg)]
    BY <1>2, <1>6 DEF StartQueued, TypeOK
  <2>2. NextTry(in, in.from = "fix" /\ Folded(in) = <<>>) \in Nat
    BY <1>2 DEF NextTry, TypeOK
  <2>3. tries' \in [Threads -> Nat]
    BY <1>6, <2>2 DEF StartQueued, TypeOK
  <2>4. micro' \in Seq(Task)
    BY <1>1, <1>6, TaskType, AppendProperties DEF StartQueued
  <2>5. runQueue' \in Seq(QEntry)
    <3>1. CASE in.t \in Waiting
      <4> DEFINE e(i) == IF runQueue[i].t = in.t
                         THEN [runQueue[i] EXCEPT !.msgs = @ \o msgs]
                         ELSE runQueue[i]
      <4>1. runQueue \in Seq(QEntry) /\ DOMAIN runQueue = 1..Len(runQueue) /\ Len(runQueue) \in Nat
        BY LenProperties DEF TypeOK
      <4>2. ASSUME NEW i \in 1..Len(runQueue)
            PROVE  e(i) \in QEntry
        <5>1. runQueue[i] \in QEntry
          BY <4>1, ElementOfSeq
        <5>2. runQueue[i].msgs \o msgs \in Seq(Msg)
          BY <1>2, <5>1, ConcatProperties
        <5> QED
          BY <5>1, <5>2
      <4>3. runQueue' = [i \in 1..Len(runQueue) |-> e(i)]
        BY <1>6, <3>1, <4>1 DEF StartQueued
      <4> HIDE DEF e
      <4> QED
        BY <4>1, <4>2, <4>3, IsASeq
    <3>2. CASE in.t \notin Waiting
      BY <1>2, <1>6, <3>2, AppendProperties DEF StartQueued, TypeOK
    <3> QED
      BY <3>1, <3>2
  <2>6. recorded' \subseteq Msg
    BY <1>3, <1>6 DEF StartQueued, TypeOK
  <2> QED
    BY <1>6, <2>1, <2>3, <2>4, <2>5, <2>6 DEF StartQueued, TypeOK, pathVars
<1> QED
  BY <1>4, <1>5, <1>6 DEF in

\* A start that is accepted.
LEMMA StartAcceptedType ==
    ASSUME TypeOK, ~Idle, Head(micro).op = "start", StartAccepted(Head(micro))
    PROVE  TypeOK'
<1> DEFINE in == Head(micro)
<1>1. in \in Start /\ Tail(micro) \in Seq(Task)
  BY HeadStart
<1>2. /\ in.t \in Threads /\ in.from \in Source /\ in.msgs \in Seq(Msg)
      /\ Folded(in) \in Seq(Msg)
      /\ Folded(in) \o in.msgs \in Seq(Msg)
  BY <1>1, FoldedType
<1>3. Elems(in.msgs) \subseteq Msg
  BY <1>2, ElemsType
<1>4. StartAccepted(in)
  OBVIOUS
<1> HIDE DEF in
<1>5. FreeId \in RunId
  BY <1>4, FreeIdIsFree DEF StartAccepted
<1>6. status' \in [Threads -> {"idle", "working", "done", "failed"}]
  BY <1>2, <1>4 DEF StartAccepted, TypeOK
<1>7. active' \in [Threads -> Entry \cup {NoRun}]
  <2>1. active' = [active EXCEPT ![in.t] = [rid |-> FreeId, kind |-> "preparing"]]
    BY <1>4 DEF StartAccepted
  <2>2. [rid |-> FreeId, kind |-> "preparing"] \in Entry
    BY <1>5 DEF Entry
  <2>3. active \in [Threads -> Entry \cup {NoRun}]
    BY DEF TypeOK
  <2> QED
    BY <2>1, <2>2, <2>3
<1>8. launches' \subseteq Launch
  <2> DEFINE msgs == Folded(in) \o in.msgs
  <2>1. launches' = launches \cup
          {[t |-> in.t, rid |-> FreeId, from |-> in.from, msgs |-> msgs]}
    BY <1>4 DEF StartAccepted
  <2>2. msgs \in Seq(Msg)
    BY <1>2
  <2> HIDE DEF msgs
  <2> QED
    BY <1>2, <1>5, <2>1, <2>2 DEF TypeOK, Launch
<1>9. NextTry(in, in.from = "fix") \in Nat
  BY <1>2 DEF NextTry, TypeOK
<1>10. tries' \in [Threads -> Nat] /\ typeAhead' \in [Threads -> Seq(Msg)]
  <2>1. tries' = [tries EXCEPT ![in.t] = NextTry(in, in.from = "fix")]
    BY <1>4 DEF StartAccepted
  <2>2. typeAhead' = IF Folds(in) THEN [typeAhead EXCEPT ![in.t] = <<>>] ELSE typeAhead
    BY <1>4 DEF StartAccepted
  <2>3. <<>> \in Seq(Msg)
    OBVIOUS
  <2>4. tries' \in [Threads -> Nat]
    BY <1>9, <2>1 DEF TypeOK
  <2>5. typeAhead' \in [Threads -> Seq(Msg)]
    BY <2>2, <2>3 DEF TypeOK
  <2> QED
    BY <2>4, <2>5
<1>11. recorded' \subseteq Msg /\ micro' \in Seq(Task)
  BY <1>1, <1>3, <1>4 DEF StartAccepted, TypeOK
<1> QED
  BY <1>4, <1>6, <1>7, <1>8, <1>10, <1>11 DEF StartAccepted, TypeOK, pathVars

-----------------------------------------------------------------------------

\* The admissions keep the type invariant.
LEMMA AdmitType ==
    ASSUME TypeOK, AdmitQueuedRuns
    PROVE  TypeOK'
<1> DEFINE QEntry == [t: Threads, msgs: Seq(Msg)]
<1>1. micro \in Seq(Task) /\ micro # <<>> /\ Tail(micro) \in Seq(Task)
  BY HeadTailProperties DEF AdmitQueuedRuns, Idle, TypeOK
<1>2. runQueue \in Seq(QEntry) /\ Len(runQueue) \in Nat /\ DOMAIN runQueue = 1..Len(runQueue)
  BY LenProperties DEF TypeOK
<1>3. CASE AdmitEnds
  BY <1>1, <1>3 DEF AdmitEnds, TypeOK, runVars, queueVars, pathVars, histVars
<1>4. CASE AdmitNext
  <2>1. PICK i \in DOMAIN runQueue :
          /\ micro' = <<StartOf(runQueue[i].t, "slot", runQueue[i].msgs)>> \o micro
          /\ runQueue' = WithoutEntry(i)
    BY <1>4 DEF AdmitNext, Admissible
  <2>2. runQueue[i] \in QEntry
    BY <1>2, ElementOfSeq
  <2>3. StartOf(runQueue[i].t, "slot", runQueue[i].msgs) \in Task
    BY <2>2, TaskType DEF Task, Source
  <2>4. micro' \in Seq(Task)
    BY <1>1, <2>1, <2>3, ConcatProperties
  <2>5. runQueue' \in Seq(QEntry)
    BY <2>1, WithoutType
  <2> QED
    BY <1>4, <2>4, <2>5 DEF AdmitNext, TypeOK, runVars, pathVars, histVars
<1> QED
  BY <1>3, <1>4 DEF AdmitQueuedRuns

\* So does what the user does.
LEMMA UserType ==
    ASSUME TypeOK, UserActs
    PROVE  TypeOK'
<1> USE BoundsAssumption
<1>1. PICK t \in Threads :
         \/ UserSends(t) \/ UserTypesAhead(t) \/ UserSendsQueued(t)
         \/ StopWaiting(t) \/ StopRunning(t)
  BY DEF UserActs
<1>2. typeAhead[t] \in Seq(Msg)
  BY DEF TypeOK
<1>3. CASE UserSends(t)
  <2>1. nmsg + 1 \in Msg /\ nmsg' \in 0..MaxMsgs
    BY <1>3 DEF UserSends, TypeOK, Msg
  <2>2. StartOf(t, "send", <<nmsg + 1>>) \in Task
    BY <2>1, OneMessage DEF Task, Source
  <2>3. micro' \in Seq(Task)
    BY <1>3, <2>2, ShortQueue DEF UserSends
  <2> QED
    BY <1>3, <2>1, <2>3 DEF UserSends, TypeOK, runVars, queueVars, pathVars
<1>4. CASE UserTypesAhead(t)
  <2>1. nmsg + 1 \in Msg /\ nmsg' \in 0..MaxMsgs
    BY <1>4 DEF UserTypesAhead, TypeOK, Msg
  <2>2. Append(typeAhead[t], nmsg + 1) \in Seq(Msg)
    BY <1>2, <2>1, AppendProperties
  <2>3. typeAhead' \in [Threads -> Seq(Msg)]
    BY <1>4, <2>2 DEF UserTypesAhead, TypeOK
  <2> QED
    BY <1>4, <2>1, <2>3 DEF UserTypesAhead, TypeOK, runVars, pathVars
<1>5. CASE UserSendsQueued(t)
  <2>1. Head(typeAhead[t]) \in Msg /\ Tail(typeAhead[t]) \in Seq(Msg)
    BY <1>2, <1>5, HeadTailProperties DEF UserSendsQueued
  <2>2. StartOf(t, "drain", <<Head(typeAhead[t])>>) \in Task
    BY <2>1, OneMessage DEF Task, Source
  <2>3. micro' \in Seq(Task)
    BY <1>5, <2>2, ShortQueue DEF UserSendsQueued
  <2>4. typeAhead' \in [Threads -> Seq(Msg)]
    BY <1>5, <2>1 DEF UserSendsQueued, TypeOK
  <2> QED
    BY <1>5, <2>3, <2>4 DEF UserSendsQueued, TypeOK, runVars, pathVars, histVars
<1>6. CASE StopWaiting(t)
  <2>1. runQueue' \in Seq([t: Threads, msgs: Seq(Msg)])
    BY <1>6, WithoutType DEF StopWaiting
  <2> QED
    BY <1>6, <2>1 DEF StopWaiting, TypeOK, runVars, pathVars, histVars
<1>7. CASE StopRunning(t)
  <2>1. micro' \in Seq(Task)
    BY <1>7, TaskType, ShortQueue DEF StopRunning
  <2> QED
    BY <1>7, <2>1 DEF StopRunning, TypeOK, queueVars, pathVars, histVars
<1> QED
  BY <1>1, <1>3, <1>4, <1>5, <1>6, <1>7

-----------------------------------------------------------------------------

\* So do launches that resume.
LEMMA LaunchType ==
    ASSUME TypeOK, LaunchSettles
    PROVE  TypeOK'
<1>1. PICK l \in launches : LaunchCancelled(l) \/ LaunchSpawns(l) \/ LaunchThrows(l)
  BY DEF LaunchSettles
<1>2. /\ l.t \in Threads /\ l.rid \in RunId /\ l.from \in Source /\ l.msgs \in Seq(Msg)
      /\ launches \ {l} \subseteq Launch
      /\ Elems(l.msgs) \subseteq Msg
  BY ElemsType DEF TypeOK, Launch
<1>3. CASE LaunchCancelled(l)
  <2>1. status' \in [Threads -> {"idle", "working", "done", "failed"}]
    BY <1>2, <1>3 DEF LaunchCancelled, TypeOK
  <2> QED
    BY <1>2, <1>3, <2>1 DEF LaunchCancelled, Forgets, TypeOK, queueVars, pathVars
<1>4. CASE LaunchSpawns(l)
  <2>1. active[l.t] = [rid |-> l.rid, kind |-> "preparing"]
    BY <1>4 DEF LaunchSpawns, Owns
  <2>2. active' = [active EXCEPT ![l.t].kind = "live"]
    BY <1>4 DEF LaunchSpawns
  <2>3. active' = [active EXCEPT ![l.t] = [rid |-> l.rid, kind |-> "live"]]
    <3>1. [active[l.t] EXCEPT !.kind = "live"] = [rid |-> l.rid, kind |-> "live"]
      BY <2>1
    <3>2. active' = [active EXCEPT ![l.t] = [active[l.t] EXCEPT !.kind = "live"]]
      BY <2>2
    <3> QED
      BY <3>1, <3>2
  <2>4. active' \in [Threads -> Entry \cup {NoRun}]
    BY <1>2, <2>3 DEF TypeOK, Entry
  <2>5. agents' \subseteq Pending
    BY <1>2, <1>4 DEF LaunchSpawns, TypeOK, Pending
  <2> QED
    BY <1>2, <1>4, <2>4, <2>5 DEF LaunchSpawns, TypeOK, queueVars, pathVars
<1>5. CASE LaunchThrows(l)
  <2>1. status' \in [Threads -> {"idle", "working", "done", "failed"}]
    BY <1>2, <1>5 DEF LaunchThrows, TypeOK
  <2>2. active' \in [Threads -> Entry \cup {NoRun}]
    BY <1>2, <1>5 DEF LaunchThrows, TypeOK
  <2>3. typeAhead' \in [Threads -> Seq(Msg)]
    <3>1. l.msgs \o typeAhead[l.t] \in Seq(Msg)
      BY <1>2, ConcatProperties DEF TypeOK
    <3> QED
      BY <1>2, <1>5, <3>1 DEF LaunchThrows, TypeOK
  <2>4. micro' \in Seq(Task)
    BY <1>5, TaskType, ShortQueue DEF LaunchThrows
  <2> QED
    BY <1>2, <1>5, <2>1, <2>2, <2>3, <2>4 DEF LaunchThrows, Forgets, TypeOK, pathVars
<1> QED
  BY <1>1, <1>3, <1>4, <1>5

\* Draining takes a prefix of the follow-ups, and puts a start in front.
LEMMA DrainType ==
    ASSUME TypeOK, NEW t \in Threads, NEW held \in BOOLEAN,
           NEW later \in Seq(Task), Drain(t, held, later)
    PROVE  /\ typeAhead' \in [Threads -> Seq(Msg)]
           /\ micro' \in Seq(Task)
<1>1. typeAhead[t] \in Seq(Msg) /\ Len(typeAhead[t]) \in Nat
      /\ \A i \in 1..Len(typeAhead[t]) : typeAhead[t][i] \in Msg
  BY LenProperties, ElementOfSeq DEF TypeOK
<1>2. CASE held \/ typeAhead[t] = <<>>
  BY <1>2 DEF Drain, TypeOK
<1>3. CASE ~(held \/ typeAhead[t] = <<>>)
  <2>1. PICK n \in {1, Len(typeAhead[t])} :
          /\ micro' = <<StartOf(t, "drain", SubSeq(typeAhead[t], 1, n))>> \o later
          /\ typeAhead' = [typeAhead EXCEPT
               ![t] = SubSeq(@, n + 1, Len(@))]
    BY <1>3 DEF Drain
  <2>2. n \in 1..Len(typeAhead[t])
    BY <1>1, <1>3, <2>1, EmptySeq
  <2>3. SubSeq(typeAhead[t], 1, n) \in Seq(Msg)
    <3>1. 1 \in Int /\ n \in Int /\ \A i \in 1..n : typeAhead[t][i] \in Msg
      BY <1>1, <2>2
    <3> QED
      BY <3>1, SubSeqProperties
  <2>4. SubSeq(typeAhead[t], n + 1, Len(typeAhead[t])) \in Seq(Msg)
    <3>1. /\ n + 1 \in Int /\ Len(typeAhead[t]) \in Int
          /\ \A i \in (n + 1)..Len(typeAhead[t]) : typeAhead[t][i] \in Msg
      BY <1>1, <2>2
    <3> QED
      BY <3>1, SubSeqProperties
  <2>5. typeAhead' \in [Threads -> Seq(Msg)]
    BY <2>1, <2>4 DEF TypeOK
  <2>6. StartOf(t, "drain", SubSeq(typeAhead[t], 1, n)) \in Task
    BY <2>3, TaskType DEF Task, Source
  <2>7. micro' \in Seq(Task)
    BY <2>1, <2>6, ShortQueue, ConcatProperties
  <2> QED
    BY <2>5, <2>7
<1> QED
  BY <1>2, <1>3

\* So do agents that end.
LEMMA AgentType ==
    ASSUME TypeOK, AgentEnds
    PROVE  TypeOK'
<1>1. PICK a \in agents : AgentLate(a) \/ AgentDone(a) \/ AgentFails(a)
  BY DEF AgentEnds
<1>2. a \in Pending /\ a.t \in Threads /\ a.rid \in RunId
  BY DEF TypeOK, Pending
<1>3. <<Admit>> \in Seq(Task)
  BY TaskType, ShortQueue
<1>4. CASE AgentLate(a)
  BY <1>4 DEF AgentLate, TypeOK, queueVars, pathVars, histVars
<1>5. CASE AgentDone(a)
  <2>1. active[a.t] = [rid |-> a.rid, kind |-> "live"]
    BY <1>5 DEF AgentDone, Owns
  <2>2. CASE a.t \in VerifyThreads
    <3>1. active' = [active EXCEPT ![a.t] = [active[a.t] EXCEPT !.kind = "verify"]]
      BY <1>5, <2>2 DEF AgentDone
    <3>2. [active[a.t] EXCEPT !.kind = "verify"] \in Entry
      BY <1>2, <2>1 DEF Entry
    <3>3. active' \in [Threads -> Entry \cup {NoRun}]
      BY <3>1, <3>2 DEF TypeOK
    <3>4. verifies' \subseteq Pending
      BY <1>2, <1>5, <2>2 DEF AgentDone, TypeOK
    <3> QED
      BY <1>3, <1>5, <2>2, <3>3, <3>4 DEF AgentDone, TypeOK, queueVars, pathVars, histVars
  <2>3. CASE a.t \notin VerifyThreads
    <3>1. active' \in [Threads -> Entry \cup {NoRun}]
      BY <1>5, <2>3 DEF AgentDone, TypeOK
    <3>2. status' \in [Threads -> {"idle", "working", "done", "failed"}]
      BY <1>5, <2>3 DEF AgentDone, TypeOK
    <3>3. checkpoints' \subseteq Pending
      BY <1>2, <1>5, <2>3 DEF AgentDone, TypeOK
    <3> QED
      BY <1>3, <1>5, <2>3, <3>1, <3>2, <3>3
      DEF AgentDone, TypeOK, queueVars, pathVars, histVars
  <2> QED
    BY <2>2, <2>3
<1>6. CASE AgentFails(a)
  <2>1. active' \in [Threads -> Entry \cup {NoRun}]
    BY <1>6 DEF AgentFails, TypeOK
  <2>2. status' \in [Threads -> {"idle", "working", "done", "failed"}]
    BY <1>6 DEF AgentFails, TypeOK
  <2> QED
    BY <1>3, <1>6, <2>1, <2>2 DEF AgentFails, TypeOK, queueVars, pathVars, histVars
<1> QED
  BY <1>1, <1>4, <1>5, <1>6

\* So do commits and verifications that settle.
LEMMA TurnEndType ==
    ASSUME TypeOK, TurnCommits \/ VerifyEnds
    PROVE  TypeOK'
<1>1. Admit \in Task /\ <<>> \in Seq(Task) /\ <<Admit>> \in Seq(Task)
  BY TaskType, ShortQueue
<1>2. ASSUME NEW c \in checkpoints, CheckpointSettles(c)
      PROVE  TypeOK'
  <2>1. c.t \in Threads
    BY DEF TypeOK, Pending
  <2>2. PICK held \in BOOLEAN : Drain(c.t, held \/ status[c.t] = "working", <<>>)
    BY <1>2 DEF CheckpointSettles
  <2>3. (held \/ status[c.t] = "working") \in BOOLEAN
    OBVIOUS
  <2>4. typeAhead' \in [Threads -> Seq(Msg)] /\ micro' \in Seq(Task)
    BY <1>1, <2>1, <2>2, <2>3, DrainType
  <2> QED
    BY <1>2, <2>4 DEF CheckpointSettles, TypeOK, pathVars, histVars
<1>3. ASSUME NEW v \in verifies
      PROVE  /\ VerifyStale(v) => TypeOK'
             /\ VerifyPasses(v) => TypeOK'
             /\ VerifyHandsBack(v) => TypeOK'
             /\ VerifyFails(v) => TypeOK'
  <2>1. v.t \in Threads
    BY DEF TypeOK, Pending
  <2>2. ASSUME VerifyStale(v)
        PROVE  TypeOK'
    BY <2>2 DEF VerifyStale, TypeOK, queueVars, pathVars, histVars
  <2>3. ASSUME VerifyPasses(v)
        PROVE  TypeOK'
    <3>1. active' \in [Threads -> Entry \cup {NoRun}]
      BY <2>3 DEF VerifyPasses, TypeOK
    <3>2. status' \in [Threads -> {"idle", "working", "done", "failed"}]
      BY <2>3 DEF VerifyPasses, TypeOK
    <3>3. typeAhead' \in [Threads -> Seq(Msg)] /\ micro' \in Seq(Task)
      BY <1>1, <2>1, <2>3, DrainType DEF VerifyPasses
    <3> QED
      BY <2>3, <3>1, <3>2, <3>3 DEF VerifyPasses, TypeOK, pathVars, histVars
  <2>4. ASSUME VerifyHandsBack(v)
        PROVE  TypeOK'
    <3>1. active' \in [Threads -> Entry \cup {NoRun}]
      BY <2>4 DEF VerifyHandsBack, TypeOK
    <3>2. StartOf(v.t, "fix", <<>>) \in Task
      <4>1. <<>> \in Seq(Msg)
        OBVIOUS
      <4> QED
        BY <2>1, <4>1, TaskType DEF Task, Source
    <3>3. micro' \in Seq(Task)
      BY <1>1, <2>4, <3>2, ShortQueue DEF VerifyHandsBack
    <3> QED
      BY <2>4, <3>1, <3>3 DEF VerifyHandsBack, TypeOK, queueVars, pathVars, histVars
  <2>5. ASSUME VerifyFails(v)
        PROVE  TypeOK'
    <3>1. active' \in [Threads -> Entry \cup {NoRun}]
      BY <2>5 DEF VerifyFails, TypeOK
    <3>2. status' \in [Threads -> {"idle", "working", "done", "failed"}]
      BY <2>5 DEF VerifyFails, TypeOK
    <3> QED
      BY <1>1, <2>5, <3>1, <3>2 DEF VerifyFails, TypeOK, queueVars, pathVars, histVars
  <2> QED
    BY <2>2, <2>3, <2>4, <2>5
<1> QED
  BY <1>2, <1>3 DEF TurnCommits, VerifyEnds

\* So do the login PATH, a quit and a boot.
LEMMA ProcessType ==
    ASSUME TypeOK, PathSettles \/ Quit \/ Reboot
    PROVE  TypeOK'
<1>1. <<>> \in Seq(Task) /\ <<Admit>> \in Seq(Task) /\ <<>> \in Seq(Start)
  BY TaskType, ShortQueue
<1>2. CASE PathSettles
  <2>1. pathWait \in Seq(Task)
    BY DEF TypeOK, Task
  <2> QED
    BY <1>1, <1>2, <2>1 DEF PathSettles, TypeOK, runVars, queueVars, histVars
<1>3. CASE Quit
  <2>1. active' \in [Threads -> Entry \cup {NoRun}]
    BY <1>3 DEF Quit
  <2>2. status' \in [Threads -> {"idle", "working", "done", "failed"}]
    BY <1>3 DEF Quit, TypeOK
  <2> QED
    BY <1>1, <1>3, <2>1, <2>2 DEF Quit, TypeOK, queueVars, pathVars, histVars
<1>4. CASE Reboot
  <2>1. active' \in [Threads -> Entry \cup {NoRun}]
    BY <1>4 DEF Reboot
  <2>2. status' \in [Threads -> {"idle", "working", "done", "failed"}]
    BY <1>4 DEF Reboot, TypeOK
  <2>3. restarts' \in 0..MaxRestarts
    BY <1>4, BoundsAssumption DEF Reboot, TypeOK
  <2>4. \A i \in DOMAIN pathWait : Elems(pathWait[i].msgs) \subseteq Msg
    <3>1. \A i \in DOMAIN pathWait : pathWait[i] \in Start
      BY ElementOfSeq, LenProperties DEF TypeOK
    <3> QED
      BY <3>1, ElemsType DEF Start
  <2>5. bounced' \subseteq Msg
    BY <1>4, <2>4 DEF Reboot, TypeOK
  <2>6. dropped' \subseteq Msg
    <3>1. \A l \in launches : Elems(l.msgs) \subseteq Msg
      BY ElemsType DEF TypeOK, Launch
    <3> QED
      BY <1>4, <3>1 DEF Reboot, TypeOK
  <2> QED
    BY <1>1, <1>4, <2>1, <2>2, <2>3, <2>5, <2>6, PathAssumption DEF Reboot, TypeOK, queueVars
<1> QED
  BY <1>2, <1>3, <1>4

\* Every step keeps the type invariant.
LEMMA TypeStep ==
    ASSUME TypeOK, [Next]_vars
    PROVE  TypeOK'
<1>1. CASE RunStart
  BY <1>1, StartParkedType, StartAcceptedType DEF RunStart
<1>2. CASE UNCHANGED vars
  BY <1>2 DEF TypeOK, vars, runVars, queueVars, pathVars, histVars
<1> QED
  BY <1>1, <1>2, AdmitType, LaunchType, AgentType, TurnEndType, UserType, ProcessType DEF Next

\* The initial state is well formed.
LEMMA InitType == Init => TypeOK
<1>1. <<>> \in Seq(Msg) /\ <<>> \in Seq([t: Threads, msgs: Seq(Msg)]) /\ <<>> \in Seq(Start)
      /\ <<Admit>> \in Seq(Task)
  BY TaskType, ShortQueue
<1> QED
  BY <1>1, PathAssumption, BoundsAssumption DEF Init, TypeOK

\* Whatever happens, the state of runner.js stays well formed; in particular
\* no thread ever gets a status that the renderer does not know.
THEOREM TypeCorrect == Spec => []TypeOK
BY InitType, TypeStep, PTL DEF Spec

-----------------------------------------------------------------------------
(* Slots and their owners.                                                 *)

\* What the entry of thread t waits for.
Mine(t, p) == p.t = t /\ p.rid = active[t].rid

\* The thread's entry, if any, is backed by what it waits for.
Backed(t) ==
    active[t] # NoRun =>
        /\ active[t].kind = "preparing" => \E l \in launches : Mine(t, l)
        /\ active[t].kind = "live" => \E a \in agents : Mine(t, a)
        /\ active[t].kind = "verify" => \E v \in verifies : Mine(t, v)

\* A thread that runs has an entry with one of three kinds.
LEMMA RunningEntry ==
    ASSUME TypeOK, NEW t \in Threads
    PROVE  /\ t \in Running <=> active[t] # NoRun
           /\ t \in Running => /\ active[t] \in Entry
                               /\ active[t].kind \in {"preparing", "live", "verify"}
                               /\ active[t] = [rid |-> active[t].rid, kind |-> active[t].kind]
BY DEF TypeOK, Running, Entry

\* SlotIsOwned, thread by thread.
LEMMA BackedIsOwned == TypeOK => (SlotIsOwned <=> \A t \in Threads : Backed(t))
<1> SUFFICES ASSUME TypeOK
             PROVE  SlotIsOwned <=> \A t \in Threads : Backed(t)
  OBVIOUS
<1>1. ASSUME NEW t \in Threads, active[t] # NoRun
      PROVE  active[t].kind \in {"preparing", "live", "verify"} /\ t \in Running
  BY <1>1, RunningEntry
<1> QED
  BY <1>1, RunningEntry DEF SlotIsOwned, Backed, Mine, Running

\* A step leaves a thread backed when it leaves the entry alone and takes
\* nothing away that the entry waits for, or when it clears the entry.
LEMMA BackedStays ==
    ASSUME NEW t \in Threads, Backed(t),
           \/ active'[t] = NoRun
           \/ /\ active'[t] = active[t]
              /\ active[t] # NoRun =>
                   /\ active[t].kind = "preparing" =>
                        \A l \in launches : Mine(t, l) => l \in launches'
                   /\ active[t].kind = "live" =>
                        \A a \in agents : Mine(t, a) => a \in agents'
                   /\ active[t].kind = "verify" =>
                        \A v \in verifies : Mine(t, v) => v \in verifies'
    PROVE  Backed(t)'
BY DEF Backed, Mine

\* No step parts an entry from what it waits for.
LEMMA BackedStep ==
    ASSUME TypeOK, TypeOK', [Next]_vars, NEW t \in Threads, Backed(t)
    PROVE  Backed(t)'
<1>1. CASE RunStart
  <2> DEFINE in == Head(micro)
  <2>1. in.t \in Threads
    BY <1>1, HeadStart, FoldedType DEF RunStart
  <2>2. CASE StartAccepted(in)
    <3> DEFINE msgs == Folded(in) \o in.msgs
    <3>1. /\ active' = [active EXCEPT ![in.t] = [rid |-> FreeId, kind |-> "preparing"]]
          /\ launches' = launches \cup
               {[t |-> in.t, rid |-> FreeId, from |-> in.from, msgs |-> msgs]}
          /\ UNCHANGED <<agents, verifies>>
      BY <2>2 DEF StartAccepted
    <3> HIDE DEF in, msgs
    <3>2. CASE t = in.t
      <4>1. active'[t] = [rid |-> FreeId, kind |-> "preparing"]
        BY <2>1, <3>1, <3>2 DEF TypeOK
      <4>2. [t |-> in.t, rid |-> FreeId, from |-> in.from, msgs |-> msgs] \in launches'
        BY <3>1
      <4> QED
        BY <3>2, <4>1, <4>2 DEF Backed, Mine
    <3>3. CASE t # in.t
      <4>1. active'[t] = active[t]
        BY <2>1, <3>1, <3>3 DEF TypeOK
      <4> QED
        BY <3>1, <4>1, BackedStays
    <3> QED
      BY <3>2, <3>3
  <2>3. CASE ~StartAccepted(in)
    <3>1. UNCHANGED <<active, launches, agents, verifies>>
      BY <1>1, <2>3 DEF RunStart, StartWaitsForPath, StartRefused, StartQueued, runVars
    <3> QED
      BY <3>1, BackedStays
  <2> QED
    BY <2>2, <2>3
<1>2. CASE AdmitQueuedRuns
  BY <1>2, BackedStays DEF AdmitQueuedRuns, AdmitNext, AdmitEnds, runVars
<1>3. CASE LaunchSettles
  <2>1. PICK l \in launches : LaunchCancelled(l) \/ LaunchSpawns(l) \/ LaunchThrows(l)
    BY <1>3 DEF LaunchSettles
  <2>2. l.t \in Threads /\ l.rid \in RunId
    BY DEF TypeOK, Launch
  <2>3. CASE LaunchCancelled(l)
    <3>1. active[l.t] # [rid |-> l.rid, kind |-> "preparing"]
      BY <2>3 DEF LaunchCancelled, Owns
    <3>2. active[t] # NoRun /\ active[t].kind = "preparing" => ~Mine(t, l)
      BY <3>1, RunningEntry DEF Mine
    <3> QED
      BY <2>3, <3>2, BackedStays DEF LaunchCancelled
  <2>4. CASE LaunchSpawns(l)
    <3>1. /\ active[l.t] = [rid |-> l.rid, kind |-> "preparing"]
          /\ active' = [active EXCEPT ![l.t] = [active[l.t] EXCEPT !.kind = "live"]]
          /\ launches' = launches \ {l}
          /\ agents' = agents \cup {[t |-> l.t, rid |-> l.rid]}
          /\ verifies' = verifies
      BY <2>4 DEF LaunchSpawns, Owns
    <3>2. CASE t = l.t
      <4>1. active'[t] = [rid |-> l.rid, kind |-> "live"]
        BY <3>1, <3>2 DEF TypeOK
      <4>2. [t |-> l.t, rid |-> l.rid] \in agents'
        BY <3>1
      <4> QED
        BY <3>2, <4>1, <4>2 DEF Backed, Mine
    <3>3. CASE t # l.t
      <4>1. active'[t] = active[t]
        BY <3>1, <3>3 DEF TypeOK
      <4> QED
        BY <3>1, <3>3, <4>1, BackedStays DEF Mine
    <3> QED
      BY <3>2, <3>3
  <2>5. CASE LaunchThrows(l)
    <3>1. /\ active' = [active EXCEPT ![l.t] = NoRun]
          /\ launches' = launches \ {l}
          /\ UNCHANGED <<agents, verifies>>
      BY <2>5 DEF LaunchThrows
    <3>2. CASE t = l.t
      BY <3>1, <3>2, BackedStays DEF TypeOK
    <3>3. CASE t # l.t
      <4>1. active'[t] = active[t]
        BY <3>1, <3>3 DEF TypeOK
      <4> QED
        BY <3>1, <3>3, <4>1, BackedStays DEF Mine
    <3> QED
      BY <3>2, <3>3
  <2> QED
    BY <2>1, <2>3, <2>4, <2>5
<1>4. CASE AgentEnds
  <2>1. PICK a \in agents : AgentLate(a) \/ AgentDone(a) \/ AgentFails(a)
    BY <1>4 DEF AgentEnds
  <2>2. a.t \in Threads /\ a.rid \in RunId /\ a = [t |-> a.t, rid |-> a.rid]
    BY DEF TypeOK, Pending
  <2>3. CASE AgentLate(a)
    <3>1. active[a.t] # [rid |-> a.rid, kind |-> "live"]
      BY <2>3 DEF AgentLate, Owns
    <3>2. active[t] # NoRun /\ active[t].kind = "live" => ~Mine(t, a)
      BY <3>1, RunningEntry DEF Mine
    <3> QED
      BY <2>3, <3>2, BackedStays DEF AgentLate
  <2>4. CASE AgentDone(a) \/ AgentFails(a)
    <3>1. CASE t # a.t
      <4>1. active'[t] = active[t]
        BY <2>4, <3>1 DEF TypeOK, AgentDone, AgentFails
      <4>2. launches' = launches /\ agents' = agents \ {a} /\ verifies \subseteq verifies'
        BY <2>4 DEF AgentDone, AgentFails
      <4> QED
        BY <3>1, <4>1, <4>2, BackedStays DEF Mine
    <3>2. CASE t = a.t /\ AgentDone(a) /\ a.t \in VerifyThreads
      <4>1. /\ active[a.t] = [rid |-> a.rid, kind |-> "live"]
            /\ active' = [active EXCEPT ![a.t] = [active[a.t] EXCEPT !.kind = "verify"]]
            /\ a \in verifies'
        BY <3>2 DEF AgentDone, Owns
      <4>2. active'[t] = [rid |-> a.rid, kind |-> "verify"]
        BY <3>2, <4>1 DEF TypeOK
      <4> QED
        BY <3>2, <4>1, <4>2 DEF Backed, Mine
    <3>3. CASE t = a.t /\ ~(AgentDone(a) /\ a.t \in VerifyThreads)
      <4>1. active'[t] = NoRun
        BY <2>4, <3>3 DEF AgentDone, AgentFails, TypeOK
      <4> QED
        BY <4>1, BackedStays
    <3> QED
      BY <3>1, <3>2, <3>3
  <2> QED
    BY <2>1, <2>3, <2>4
<1>5. CASE TurnCommits
  BY <1>5, BackedStays DEF TurnCommits, CheckpointSettles
<1>6. CASE VerifyEnds
  <2>1. PICK v \in verifies :
          VerifyStale(v) \/ VerifyPasses(v) \/ VerifyHandsBack(v) \/ VerifyFails(v)
    BY <1>6 DEF VerifyEnds
  <2>2. v.t \in Threads /\ v.rid \in RunId
    BY DEF TypeOK, Pending
  <2>3. CASE VerifyStale(v)
    <3>1. active[v.t] # [rid |-> v.rid, kind |-> "verify"]
      BY <2>3 DEF VerifyStale, Owns
    <3>2. active[t] # NoRun /\ active[t].kind = "verify" => ~Mine(t, v)
      BY <3>1, RunningEntry DEF Mine
    <3> QED
      BY <2>3, <3>2, BackedStays DEF VerifyStale
  <2>4. CASE ~VerifyStale(v)
    <3>1. /\ active' = [active EXCEPT ![v.t] = NoRun]
          /\ verifies' = verifies \ {v}
          /\ UNCHANGED <<launches, agents>>
      BY <2>1, <2>4 DEF VerifyPasses, VerifyHandsBack, VerifyFails
    <3>2. CASE t = v.t
      BY <3>1, <3>2, BackedStays DEF TypeOK
    <3>3. CASE t # v.t
      <4>1. active'[t] = active[t]
        BY <3>1, <3>3 DEF TypeOK
      <4> QED
        BY <3>1, <3>3, <4>1, BackedStays DEF Mine
    <3> QED
      BY <3>2, <3>3
  <2> QED
    BY <2>3, <2>4
<1>7. CASE UserActs
  <2>1. PICK u \in Threads :
          \/ UserSends(u) \/ UserTypesAhead(u) \/ UserSendsQueued(u)
          \/ StopWaiting(u) \/ StopRunning(u)
    BY <1>7 DEF UserActs
  <2>2. CASE StopRunning(u)
    <3>1. active' = [active EXCEPT ![u] = NoRun] /\ UNCHANGED <<launches, agents, verifies>>
      BY <2>2 DEF StopRunning
    <3>2. active'[t] = NoRun \/ active'[t] = active[t]
      BY <3>1 DEF TypeOK
    <3> QED
      BY <3>1, <3>2, BackedStays
  <2>3. CASE ~StopRunning(u)
    <3>1. UNCHANGED <<active, launches, agents, verifies>>
      BY <2>1, <2>3 DEF UserSends, UserTypesAhead, UserSendsQueued, StopWaiting, runVars
    <3> QED
      BY <3>1, BackedStays
  <2> QED
    BY <2>2, <2>3
<1>8. CASE PathSettles
  BY <1>8, BackedStays DEF PathSettles, runVars
<1>9. CASE Quit \/ Reboot
  <2>1. active'[t] = NoRun
    BY <1>9 DEF Quit, Reboot
  <2> QED
    BY <2>1, BackedStays
<1>10. CASE UNCHANGED vars
  BY <1>10, BackedStays DEF vars, runVars
<1> QED
  BY <1>1, <1>2, <1>3, <1>4, <1>5, <1>6, <1>7, <1>8, <1>9, <1>10 DEF Next

\* No slot leaks (#1430 R5): every entry of `active' is waiting for an event
\* of its own that is still to come, for any number of threads and runs.
THEOREM NoLeakedSlot == Spec => []SlotIsOwned
<1>1. Init => SlotIsOwned
  BY DEF Init, SlotIsOwned, Running
<1>2. TypeOK /\ TypeOK' /\ SlotIsOwned /\ [Next]_vars => SlotIsOwned'
  <2>1. (TypeOK => (SlotIsOwned <=> \A t \in Threads : Backed(t)))'
    BY BackedIsOwned, PTL
  <2> QED
    BY <2>1, BackedIsOwned, BackedStep
<1> QED
  BY <1>1, <1>2, TypeCorrect, PTL DEF Spec

-----------------------------------------------------------------------------
(* A run ends by its own event.                                            *)

\* What EntryEndsItself says of one thread.
EndsItself(t) ==
    \/ active'[t] = active[t]
    \/ StopRunning(t) \/ Quit \/ Reboot
    \/ \E l \in launches \ launches' : Mine(t, l)
    \/ \E p \in (agents \ agents') \cup (verifies \ verifies') : Mine(t, p)

\* Each action that changes a thread's entry takes away what the entry was
\* waiting for, or is a Stop, a quit or a boot.
LEMMA EndsItselfStep ==
    ASSUME TypeOK, Next, NEW t \in Running
    PROVE  EndsItself(t)
<1>1. t \in Threads
  BY DEF Running
<1>2. CASE RunStart
  <2>1. Head(micro).t \in Threads
    BY <1>2, HeadStart, FoldedType DEF RunStart
  <2>2. CASE StartAccepted(Head(micro))
    <3>1. t # Head(micro).t
      BY <2>2 DEF StartAccepted
    <3>2. active'[t] = active[t]
      BY <1>1, <2>1, <2>2, <3>1 DEF StartAccepted, TypeOK
    <3> QED
      BY <3>2 DEF EndsItself
  <2>3. CASE ~StartAccepted(Head(micro))
    BY <1>2, <2>3 DEF RunStart, StartWaitsForPath, StartRefused, StartQueued, runVars, EndsItself
  <2> QED
    BY <2>2, <2>3
<1>3. CASE AdmitQueuedRuns
  BY <1>3 DEF AdmitQueuedRuns, AdmitNext, AdmitEnds, runVars, EndsItself
<1>4. CASE LaunchSettles
  <2>1. PICK l \in launches : LaunchCancelled(l) \/ LaunchSpawns(l) \/ LaunchThrows(l)
    BY <1>4 DEF LaunchSettles
  <2>2. CASE LaunchCancelled(l)
    BY <2>2 DEF LaunchCancelled, EndsItself
  <2>3. CASE LaunchSpawns(l) \/ LaunchThrows(l)
    <3>1. l \in launches \ launches' /\ active[l.t] = [rid |-> l.rid, kind |-> "preparing"]
      BY <2>3 DEF LaunchSpawns, LaunchThrows, Owns
    <3>2. CASE t = l.t
      BY <3>1, <3>2 DEF EndsItself, Mine
    <3>3. CASE t # l.t
      <4>1. active'[t] = active[t]
        BY <1>1, <2>3, <3>3 DEF LaunchSpawns, LaunchThrows, TypeOK
      <4> QED
        BY <4>1 DEF EndsItself
    <3> QED
      BY <3>2, <3>3
  <2> QED
    BY <2>1, <2>2, <2>3
<1>5. CASE AgentEnds
  <2>1. PICK a \in agents : AgentLate(a) \/ AgentDone(a) \/ AgentFails(a)
    BY <1>5 DEF AgentEnds
  <2>2. CASE AgentLate(a)
    BY <2>2 DEF AgentLate, EndsItself
  <2>3. CASE AgentDone(a) \/ AgentFails(a)
    <3>1. a \in agents \ agents' /\ active[a.t] = [rid |-> a.rid, kind |-> "live"]
      BY <2>3 DEF AgentDone, AgentFails, Owns
    <3>2. CASE t = a.t
      BY <3>1, <3>2 DEF EndsItself, Mine
    <3>3. CASE t # a.t
      <4>1. active'[t] = active[t]
        BY <1>1, <2>3, <3>3 DEF AgentDone, AgentFails, TypeOK
      <4> QED
        BY <4>1 DEF EndsItself
    <3> QED
      BY <3>2, <3>3
  <2> QED
    BY <2>1, <2>2, <2>3
<1>6. CASE TurnCommits
  BY <1>6 DEF TurnCommits, CheckpointSettles, EndsItself
<1>7. CASE VerifyEnds
  <2>1. PICK v \in verifies :
          VerifyStale(v) \/ VerifyPasses(v) \/ VerifyHandsBack(v) \/ VerifyFails(v)
    BY <1>7 DEF VerifyEnds
  <2>2. CASE VerifyStale(v)
    BY <2>2 DEF VerifyStale, EndsItself
  <2>3. CASE ~VerifyStale(v)
    <3>1. v \in verifies \ verifies' /\ active[v.t] = [rid |-> v.rid, kind |-> "verify"]
      BY <2>1, <2>3 DEF VerifyPasses, VerifyHandsBack, VerifyFails, Owns
    <3>2. CASE t = v.t
      BY <3>1, <3>2 DEF EndsItself, Mine
    <3>3. CASE t # v.t
      <4>1. active'[t] = active[t]
        BY <1>1, <2>1, <2>3, <3>3 DEF VerifyPasses, VerifyHandsBack, VerifyFails, TypeOK
      <4> QED
        BY <4>1 DEF EndsItself
    <3> QED
      BY <3>2, <3>3
  <2> QED
    BY <2>2, <2>3
<1>8. CASE UserActs
  <2>1. PICK u \in Threads :
          \/ UserSends(u) \/ UserTypesAhead(u) \/ UserSendsQueued(u)
          \/ StopWaiting(u) \/ StopRunning(u)
    BY <1>8 DEF UserActs
  <2>2. CASE StopRunning(u)
    <3>1. t # u => active'[t] = active[t]
      BY <1>1, <2>2 DEF StopRunning, TypeOK
    <3> QED
      BY <2>2, <3>1 DEF EndsItself
  <2>3. CASE ~StopRunning(u)
    BY <2>1, <2>3 DEF UserSends, UserTypesAhead, UserSendsQueued, StopWaiting, runVars, EndsItself
  <2> QED
    BY <2>2, <2>3
<1>9. CASE PathSettles
  BY <1>9 DEF PathSettles, runVars, EndsItself
<1>10. CASE Quit \/ Reboot
  BY <1>10 DEF EndsItself
<1> QED
  BY <1>2, <1>3, <1>4, <1>5, <1>6, <1>7, <1>8, <1>9, <1>10 DEF Next

\* The late result of an earlier run, launch or verification never ends, or
\* changes, the run that its thread has now.
THEOREM OwnEvents == Spec => EntryEndsItself
<1>1. TypeOK /\ [Next]_vars =>
        [\A t \in Running :
           LET Own(p) == p.t = t /\ p.rid = active[t].rid
           IN  \/ active'[t] = active[t]
               \/ StopRunning(t) \/ Quit \/ Reboot
               \/ \E l \in launches \ launches' : Own(l)
               \/ \E p \in (agents \ agents') \cup (verifies \ verifies') : Own(p)]_vars
  BY EndsItselfStep DEF EndsItself, Mine
<1> QED
  BY <1>1, TypeCorrect, PTL DEF Spec, EntryEndsItself

-----------------------------------------------------------------------------
(* The cap, the queue and lost wake-ups, once the login PATH is known.     *)

NoSlotStart(s) == \A i \in DOMAIN s : s[i].op = "start" => s[i].from # "slot"

HasAdmit(s) == \E i \in DOMAIN s : s[i].op = "admit"

\* No thread waits twice.
QueueOnce ==
    \A i, j \in DOMAIN runQueue : runQueue[i].t = runQueue[j].t => i = j

\* Only the next microtask can be a start that admitQueuedRuns made, and
\* then a slot is free and the thread neither runs nor waits.
AdmittedIsNext ==
    micro # <<>> =>
        /\ NoSlotStart(Tail(micro))
        /\ Head(micro).op = "start" /\ Head(micro).from = "slot" =>
             RunSlotsFree /\ Head(micro).t \notin Running \cup Waiting

\* A turn waits beside a free slot only while an admission is queued.
WakeUpQueued == runQueue # <<>> /\ RunSlotsFree => HasAdmit(micro)

PathKnown == pathReady /\ pathWait = <<>>

\* A memory pass never waits for a slot.
PassesSkipQueue == Waiting \cap SystemThreads = {}

QueueInv ==
    /\ PathKnown
    /\ PassesSkipQueue
    /\ QueueOnce
    /\ AdmittedIsNext
    /\ WakeUpQueued
    /\ RunningIsWorking
    /\ CapRespected

\* The threads that run are finitely many.
LEMMA RunningFinite ==
    /\ IsFiniteSet(Running) /\ Cardinality(Running) \in Nat
    /\ IsFiniteSet(Running') /\ Cardinality(Running') \in Nat
    /\ IsFiniteSet(Running \ SystemThreads) /\ Cardinality(Running \ SystemThreads) \in Nat
    /\ IsFiniteSet(Running' \ SystemThreads) /\ Cardinality(Running' \ SystemThreads) \in Nat
<1>1. /\ Running \subseteq Threads /\ Running' \subseteq Threads
      /\ Running \ SystemThreads \subseteq Threads /\ Running' \ SystemThreads \subseteq Threads
  BY DEF Running
<1> QED
  BY <1>1, ThreadsAssumption, FS_Subset, FS_CardinalityType

\* Fewer runs leave the cap respected; as many leave as many slots free.
LEMMA RunningShrinks ==
    ASSUME Running' \subseteq Running
    PROVE  /\ CapRespected => CapRespected'
           /\ Running' = Running => (RunSlotsFree' <=> RunSlotsFree)
<1>1. Running' \ SystemThreads \subseteq Running \ SystemThreads
  OBVIOUS
<1>2. /\ Cardinality(Running') <= Cardinality(Running)
      /\ Cardinality(Running' \ SystemThreads) <= Cardinality(Running \ SystemThreads)
  BY <1>1, RunningFinite, FS_Subset
<1>3. CapRespected => CapRespected'
  BY <1>2, RunningFinite, CapAssumption DEF CapRespected
<1>4. Running' = Running => (RunSlotsFree' <=> RunSlotsFree)
  BY DEF RunSlotsFree
<1> QED
  BY <1>3, <1>4

\* What the microtask queue holds after its head has run.
LEMMA AfterHead ==
    ASSUME TypeOK, ~Idle
    PROVE  /\ Head(micro) = micro[1]
           /\ Len(micro) \in Nat /\ Len(micro) > 0 /\ DOMAIN micro = 1..Len(micro)
           /\ DOMAIN Tail(micro) = 1..(Len(micro) - 1)
           /\ \A i \in DOMAIN Tail(micro) : Tail(micro)[i] = micro[i + 1]
           /\ HasAdmit(micro) /\ Head(micro).op # "admit" => HasAdmit(Tail(micro))
<1>1. /\ micro \in Seq(Task) /\ micro # <<>> /\ Len(micro) \in Nat
      /\ DOMAIN micro = 1..Len(micro)
  BY LenProperties DEF TypeOK, Idle
<1>2. /\ Tail(micro) \in Seq(Task) /\ Len(Tail(micro)) = Len(micro) - 1
      /\ \A i \in 1..Len(Tail(micro)) : Tail(micro)[i] = micro[i + 1]
  BY <1>1, HeadTailProperties
<1>3. DOMAIN Tail(micro) = 1..(Len(micro) - 1)
  BY <1>2, LenProperties
<1>4. Head(micro) = micro[1] /\ Len(micro) > 0
  BY <1>1, EmptySeq
<1>5. ASSUME HasAdmit(micro), Head(micro).op # "admit"
      PROVE  HasAdmit(Tail(micro))
  <2>1. PICK i \in 1..Len(micro) : micro[i].op = "admit"
    BY <1>1, <1>5 DEF HasAdmit
  <2>2. i # 1
    BY <1>4, <1>5, <2>1
  <2>3. i - 1 \in DOMAIN Tail(micro) /\ (i - 1) + 1 = i
    BY <1>1, <1>3, <2>2
  <2>4. Tail(micro)[i - 1] = micro[(i - 1) + 1]
    BY <1>2, <1>3, <2>3
  <2> QED
    BY <2>1, <2>3, <2>4 DEF HasAdmit
<1> QED
  BY <1>1, <1>2, <1>3, <1>4, <1>5

\* Short queues.
LEMMA ShortFacts ==
    /\ NoSlotStart(<<>>) /\ ~HasAdmit(<<>>)
    /\ NoSlotStart(<<Admit>>) /\ HasAdmit(<<Admit>>)
    /\ \A t, from, msgs : from # "slot" => NoSlotStart(<<StartOf(t, from, msgs)>>)
    /\ \A t, from, msgs : from # "slot" =>
         NoSlotStart(<<Admit, StartOf(t, from, msgs)>>) /\ HasAdmit(<<Admit, StartOf(t, from, msgs)>>)
BY DEF NoSlotStart, HasAdmit, Admit, StartOf

\* A queue without a start of admitQueuedRuns needs no free slot.
LEMMA NoSlotIsSafe ==
    ASSUME TypeOK', NoSlotStart(micro')
    PROVE  AdmittedIsNext'
<1>1. CASE micro' = <<>>
  BY <1>1 DEF AdmittedIsNext
<1>2. CASE micro' # <<>>
  <2>1. micro' \in Seq(Task)
    BY DEF TypeOK
  <2>2. /\ Len(micro') \in Nat /\ DOMAIN micro' = 1..Len(micro') /\ Len(micro') > 0
        /\ Head(micro') = micro'[1]
        /\ Len(Tail(micro')) = Len(micro') - 1
        /\ DOMAIN Tail(micro') = 1..Len(Tail(micro'))
        /\ \A i \in 1..Len(Tail(micro')) : Tail(micro')[i] = micro'[i + 1]
    BY <1>2, <2>1, HeadTailProperties, LenProperties, EmptySeq
  <2>3. NoSlotStart(Tail(micro'))
    BY <2>2 DEF NoSlotStart
  <2>4. Head(micro').op = "start" => Head(micro').from # "slot"
    BY <2>2 DEF NoSlotStart
  <2> QED
    BY <2>3, <2>4 DEF AdmittedIsNext
<1> QED
  BY <1>1, <1>2

\* The run queue stays, or loses an entry.
QueueKeepsOrLoses ==
    runQueue' = runQueue \/ \E i \in DOMAIN runQueue : runQueue' = WithoutEntry(i)

\* Then no thread waits twice, or waits that did not wait before.
LEMMA QueueLoses ==
    ASSUME TypeOK, TypeOK', QueueOnce, QueueKeepsOrLoses
    PROVE  /\ QueueOnce'
           /\ Waiting' \subseteq Waiting
           /\ runQueue' # <<>> => runQueue # <<>>
<1>1. CASE runQueue' = runQueue
  BY <1>1 DEF QueueOnce, Waiting
<1>2. CASE runQueue' # runQueue
  <2>1. PICK i \in DOMAIN runQueue : runQueue' = WithoutEntry(i)
    BY <1>2 DEF QueueKeepsOrLoses
  <2>2. Len(runQueue) \in Nat /\ DOMAIN runQueue = 1..Len(runQueue)
    BY LenProperties DEF TypeOK
  <2>3. DOMAIN runQueue' = 1..(Len(runQueue) - 1)
    BY <2>1, WithoutType, LenProperties
  <2>4. \A j \in DOMAIN runQueue' :
          /\ (IF j < i THEN j ELSE j + 1) \in DOMAIN runQueue
          /\ runQueue'[j] = runQueue[IF j < i THEN j ELSE j + 1]
    <3>1. \A j \in 1..(Len(runQueue) - 1) :
            runQueue'[j] = runQueue[IF j < i THEN j ELSE j + 1]
      BY <2>1, WithoutType
    <3> QED
      BY <2>2, <2>3, <3>1
  <2>5. QueueOnce'
    <3> SUFFICES ASSUME NEW j \in DOMAIN runQueue', NEW k \in DOMAIN runQueue',
                        runQueue'[j].t = runQueue'[k].t
                 PROVE  j = k
      BY DEF QueueOnce
    <3>1. (IF j < i THEN j ELSE j + 1) = (IF k < i THEN k ELSE k + 1)
      BY <2>4 DEF QueueOnce
    <3> QED
      BY <2>2, <2>3, <3>1
  <2>6. Waiting' \subseteq Waiting
    BY <2>4 DEF Waiting
  <2>7. runQueue # <<>>
    BY <2>2, EmptySeq
  <2> QED
    BY <2>5, <2>6, <2>7
<1> QED
  BY <1>1, <1>2

\* A step that starts nothing: no entry appears, the threads that still run
\* keep their status, and a freed slot queues an admission.
QuietStep ==
    /\ PathKnown'
    /\ Running' \subseteq Running
    /\ \A t \in Running' : status'[t] = status[t]
    /\ QueueKeepsOrLoses
    /\ NoSlotStart(micro')
    /\ HasAdmit(micro') \/ (Running' = Running /\ ~HasAdmit(micro))

\* Such a step keeps the invariant.
LEMMA QuietKeeps ==
    ASSUME TypeOK, TypeOK', QueueInv, QuietStep
    PROVE  QueueInv'
<1>1. QueueOnce' /\ Waiting' \subseteq Waiting /\ (runQueue' # <<>> => runQueue # <<>>)
  BY QueueLoses DEF QueueInv, QuietStep
<1>2. AdmittedIsNext'
  BY NoSlotIsSafe DEF QuietStep
<1>3. WakeUpQueued'
  BY <1>1, RunningShrinks DEF QuietStep, QueueInv, WakeUpQueued, HasAdmit
<1>4. RunningIsWorking'
  BY <1>1 DEF QuietStep, QueueInv, RunningIsWorking
<1>5. CapRespected' /\ PassesSkipQueue'
  BY <1>1, RunningShrinks DEF QuietStep, QueueInv, PassesSkipQueue
<1> QED
  BY <1>1, <1>2, <1>3, <1>4, <1>5 DEF QuietStep, QueueInv

\* Starts.
LEMMA StartKeepsQueue ==
    ASSUME TypeOK, TypeOK', QueueInv, RunStart
    PROVE  QueueInv'
<1> DEFINE in == Head(micro)
<1>1. ~Idle /\ in.op = "start"
  BY DEF RunStart
<1>2. in.t \in Threads /\ in.from \in Source
  BY <1>1, HeadStart, FoldedType
<1>3. /\ NoSlotStart(Tail(micro))
      /\ in.from = "slot" => RunSlotsFree /\ in.t \notin Running \cup Waiting
      /\ HasAdmit(micro) => HasAdmit(Tail(micro))
  BY <1>1, AfterHead DEF QueueInv, AdmittedIsNext, Idle
<1>4. pathReady /\ pathWait = <<>>
  BY DEF QueueInv, PathKnown
<1>5. PICK worktree \in BOOLEAN :
        StartRefused(in, worktree) \/ StartQueued(in) \/ StartAccepted(in)
  BY <1>4 DEF RunStart, StartWaitsForPath
<1> HIDE DEF in
<1>6. CASE StartRefused(in, worktree)
  <2>1. /\ UNCHANGED <<active, runQueue, pathReady, pathWait>>
        /\ micro' = Tail(micro)
    BY <1>6 DEF StartRefused, pathVars
  <2>2. Running' = Running /\ Waiting' = Waiting
    BY <2>1 DEF Running, Waiting
  <2>3. \A t \in Running : status'[t] = status[t]
    <3>1. in.t \in Running => ~worktree /\ in.from # "slot" /\ status' = status
      BY <1>3, <1>6 DEF StartRefused
    <3>2. \A t \in Threads : t # in.t => status'[t] = status[t]
      BY <1>2, <1>6 DEF StartRefused, TypeOK
    <3> QED
      BY <3>1, <3>2 DEF Running
  <2>4. /\ AdmittedIsNext'
        /\ WakeUpQueued'
    <3>1. AdmittedIsNext'
      BY <1>3, <2>1, NoSlotIsSafe
    <3>2. RunSlotsFree' <=> RunSlotsFree
      BY <2>2, RunningShrinks
    <3>3. HasAdmit(micro) => HasAdmit(micro)'
      BY <1>3, <2>1 DEF HasAdmit
    <3> QED
      BY <2>1, <3>1, <3>2, <3>3 DEF QueueInv, WakeUpQueued
  <2>5. RunningIsWorking'
    BY <2>2, <2>3 DEF QueueInv, RunningIsWorking
  <2>6. CapRespected'
    BY <2>2, RunningShrinks DEF QueueInv
  <2> QED
    BY <2>1, <2>2, <2>4, <2>5, <2>6 DEF QueueInv, PathKnown, PassesSkipQueue, QueueOnce
<1>7. CASE StartQueued(in)
  <2>1. /\ UNCHANGED <<active, status, pathReady, pathWait>>
        /\ micro' = Append(Tail(micro), Admit)
        /\ in.t \notin Running /\ in.t \notin SystemThreads
    BY <1>7 DEF StartQueued, MustQueue, pathVars
  <2>2. Running' = Running
    BY <2>1 DEF Running
  <2>3. Tail(micro) \in Seq(Task)
    BY <1>1, HeadStart DEF in
  <2>4. NoSlotStart(micro') /\ HasAdmit(micro')
    <3>1. /\ DOMAIN micro' = 1..(Len(Tail(micro)) + 1)
          /\ DOMAIN Tail(micro) = 1..Len(Tail(micro)) /\ Len(Tail(micro)) \in Nat
          /\ \A i \in 1..Len(Tail(micro)) : micro'[i] = Tail(micro)[i]
          /\ micro'[Len(Tail(micro)) + 1] = Admit
      BY <2>1, <2>3, TaskType, AppendProperties, LenProperties
    <3> QED
      BY <1>3, <3>1 DEF NoSlotStart, HasAdmit, Admit
  <2>5. Len(runQueue) \in Nat /\ DOMAIN runQueue = 1..Len(runQueue)
        /\ runQueue \in Seq([t: Threads, msgs: Seq(Msg)])
    BY LenProperties DEF TypeOK
  <2>6. QueueOnce' /\ Waiting' \subseteq Waiting \cup {in.t}
    <3>1. CASE in.t \in Waiting
      <4>1. /\ DOMAIN runQueue' = DOMAIN runQueue
            /\ \A i \in DOMAIN runQueue : runQueue'[i].t = runQueue[i].t
        <5> DEFINE msgs == Folded(in) \o in.msgs
        <5>1. runQueue' = [i \in DOMAIN runQueue |->
                             IF runQueue[i].t = in.t
                             THEN [runQueue[i] EXCEPT !.msgs = @ \o msgs]
                             ELSE runQueue[i]]
          BY <1>7, <3>1 DEF StartQueued
        <5>2. \A i \in DOMAIN runQueue : runQueue[i] \in [t: Threads, msgs: Seq(Msg)]
          BY <2>5, ElementOfSeq
        <5> HIDE DEF msgs
        <5> QED
          BY <5>1, <5>2
      <4> QED
        BY <4>1 DEF QueueInv, QueueOnce, Waiting
    <3>2. CASE in.t \notin Waiting
      <4> DEFINE e == [t |-> in.t, msgs |-> Folded(in) \o in.msgs]
      <4>1. runQueue' = Append(runQueue, e)
        BY <1>7, <3>2 DEF StartQueued
      <4>2. e.t = in.t /\ e \in [t: Threads, msgs: Seq(Msg)]
        <5>1. Folded(in) \o in.msgs \in Seq(Msg)
          BY <1>1, HeadStart, FoldedType DEF in
        <5> QED
          BY <1>2, <5>1
      <4> HIDE DEF e
      <4>3. /\ DOMAIN runQueue' = 1..(Len(runQueue) + 1)
            /\ \A i \in 1..Len(runQueue) : runQueue'[i] = runQueue[i]
            /\ runQueue'[Len(runQueue) + 1] = e
        BY <2>5, <4>1, <4>2, AppendProperties, LenProperties
      <4>4. \A i \in 1..Len(runQueue) : runQueue[i].t # in.t
        BY <2>5, <3>2 DEF Waiting
      <4>5. QueueOnce'
        <5> SUFFICES ASSUME NEW i \in DOMAIN runQueue', NEW j \in DOMAIN runQueue',
                            runQueue'[i].t = runQueue'[j].t
                     PROVE  i = j
          BY DEF QueueOnce
        <5>1. CASE i \in 1..Len(runQueue) /\ j \in 1..Len(runQueue)
          <6>1. runQueue[i].t = runQueue[j].t
            BY <4>3, <5>1
          <6> QED
            BY <2>5, <5>1, <6>1 DEF QueueInv, QueueOnce
        <5>2. CASE i = Len(runQueue) + 1 /\ j \in 1..Len(runQueue)
          BY <4>2, <4>3, <4>4, <5>2
        <5>3. CASE i \in 1..Len(runQueue) /\ j = Len(runQueue) + 1
          BY <4>2, <4>3, <4>4, <5>3
        <5>4. CASE i = Len(runQueue) + 1 /\ j = Len(runQueue) + 1
          BY <5>4
        <5>5. /\ i \in 1..Len(runQueue) \/ i = Len(runQueue) + 1
              /\ j \in 1..Len(runQueue) \/ j = Len(runQueue) + 1
          BY <2>5, <4>3
        <5> QED
          BY <5>1, <5>2, <5>3, <5>4, <5>5
      <4>6. Waiting' \subseteq Waiting \cup {in.t}
        <5> SUFFICES ASSUME NEW i \in DOMAIN runQueue'
                     PROVE  runQueue'[i].t \in Waiting \cup {in.t}
          BY DEF Waiting
        <5>1. CASE i \in 1..Len(runQueue)
          BY <2>5, <4>3, <5>1 DEF Waiting
        <5>2. CASE i = Len(runQueue) + 1
          BY <4>2, <4>3, <5>2
        <5> QED
          BY <2>5, <4>3, <5>1, <5>2
      <4> QED
        BY <4>5, <4>6
    <3> QED
      BY <3>1, <3>2
  <2>7. AdmittedIsNext' /\ WakeUpQueued'
    BY <2>4, NoSlotIsSafe DEF WakeUpQueued, HasAdmit
  <2>8. RunningIsWorking'
    BY <2>1, <2>2, <2>6 DEF QueueInv, RunningIsWorking
  <2>9. CapRespected'
    BY <2>2, RunningShrinks DEF QueueInv
  <2> QED
    BY <2>1, <2>6, <2>7, <2>8, <2>9 DEF QueueInv, PathKnown, PassesSkipQueue
<1>8. CASE StartAccepted(in)
  <2>1. /\ active' = [active EXCEPT ![in.t] = [rid |-> FreeId, kind |-> "preparing"]]
        /\ status' = [status EXCEPT ![in.t] = "working"]
        /\ UNCHANGED <<runQueue, pathReady, pathWait>>
        /\ micro' = Tail(micro)
        /\ in.t \notin Running
        /\ ~MustQueue(in)
    BY <1>8 DEF StartAccepted, pathVars
  <2>2. Running' = Running \cup {in.t}
    <3>1. FreeId \in RunId
      BY <1>8, FreeIdIsFree DEF StartAccepted
    <3>2. [rid |-> FreeId, kind |-> "preparing"] # NoRun
      BY <3>1, NoRunAssumption DEF Entry
    <3>3. \A t \in Threads : active'[t] = IF t = in.t
                                          THEN [rid |-> FreeId, kind |-> "preparing"]
                                          ELSE active[t]
      BY <1>2, <2>1 DEF TypeOK
    <3> QED
      BY <1>2, <3>2, <3>3 DEF Running
  <2>3. /\ in.t \notin SystemThreads => RunSlotsFree
        /\ in.t \notin Waiting
    BY <1>3, <2>1 DEF MustQueue, QueueInv, PassesSkipQueue
  <2>4. CapRespected' /\ (RunSlotsFree' => RunSlotsFree)
    <3>1. Cardinality(Running') = Cardinality(Running) + 1
      BY <2>1, <2>2, RunningFinite, FS_AddElement
    <3>2. RunSlotsFree' => RunSlotsFree
      BY <3>1, RunningFinite, CapAssumption DEF RunSlotsFree
    <3>3. CASE in.t \in SystemThreads
      <4>1. Running' \ SystemThreads = Running \ SystemThreads
        BY <2>2, <3>3
      <4> QED
        BY <3>2, <4>1 DEF QueueInv, CapRespected
    <3>4. CASE in.t \notin SystemThreads
      <4>1. Cardinality(Running' \ SystemThreads) <= Cardinality(Running')
        BY RunningFinite, FS_Subset
      <4>2. Cardinality(Running) < Cap
        BY <2>3, <3>4 DEF RunSlotsFree
      <4>3. Cardinality(Running' \ SystemThreads) <= Cap
        BY <3>1, <4>1, <4>2, RunningFinite, CapAssumption
      <4> QED
        BY <3>2, <4>3 DEF CapRespected
    <3> QED
      BY <3>3, <3>4
  <2>5. AdmittedIsNext'
    BY <1>3, <2>1, NoSlotIsSafe
  <2>6. WakeUpQueued'
    <3>1. HasAdmit(micro) => HasAdmit(micro)'
      BY <1>3, <2>1 DEF HasAdmit
    <3> QED
      BY <2>1, <2>4, <3>1 DEF QueueInv, WakeUpQueued
  <2>7. RunningIsWorking'
    <3>1. Waiting' = Waiting
      BY <2>1 DEF Waiting
    <3>2. status'[in.t] = "working" /\ \A t \in Threads : t # in.t => status'[t] = status[t]
      BY <1>2, <2>1 DEF TypeOK
    <3> QED
      BY <2>2, <2>3, <3>1, <3>2 DEF QueueInv, RunningIsWorking, Running
  <2> QED
    BY <2>1, <2>4, <2>5, <2>6, <2>7
      DEF QueueInv, PathKnown, PassesSkipQueue, QueueOnce, Waiting
<1> QED
  BY <1>5, <1>6, <1>7, <1>8

\* admitQueuedRuns.
LEMMA AdmitKeepsQueue ==
    ASSUME TypeOK, TypeOK', QueueInv, AdmitQueuedRuns
    PROVE  QueueInv'
<1>1. /\ ~Idle /\ Head(micro).op = "admit"
      /\ UNCHANGED <<active, status, pathReady, pathWait>>
  BY DEF AdmitQueuedRuns, AdmitNext, AdmitEnds, runVars, pathVars
<1>2. Running' = Running
  BY <1>1 DEF Running
<1>3. /\ NoSlotStart(Tail(micro)) /\ Head(micro) = micro[1]
      /\ Len(micro) \in Nat /\ Len(micro) > 0 /\ DOMAIN micro = 1..Len(micro)
      /\ DOMAIN Tail(micro) = 1..(Len(micro) - 1)
      /\ \A i \in DOMAIN Tail(micro) : Tail(micro)[i] = micro[i + 1]
  BY <1>1, AfterHead DEF QueueInv, AdmittedIsNext, Idle
<1>4. micro \in Seq(Task) /\ runQueue \in Seq([t: Threads, msgs: Seq(Msg)])
      /\ Len(runQueue) \in Nat /\ DOMAIN runQueue = 1..Len(runQueue)
  BY LenProperties DEF TypeOK
<1>5. CASE AdmitNext
  <2>1. PICK i \in Admissible :
          /\ micro' = <<StartOf(runQueue[i].t, "slot", runQueue[i].msgs)>> \o micro
          /\ runQueue' = WithoutEntry(i)
    BY <1>5 DEF AdmitNext
  <2> DEFINE s == StartOf(runQueue[i].t, "slot", runQueue[i].msgs)
  <2>2. i \in DOMAIN runQueue /\ runQueue[i].t \notin Running /\ RunSlotsFree
    BY <1>5 DEF AdmitNext, Admissible
  <2>3. s.op = "start" /\ s.t = runQueue[i].t /\ s \in Task
    <3>1. runQueue[i] \in [t: Threads, msgs: Seq(Msg)]
      BY <1>4, <2>2, ElementOfSeq
    <3> QED
      BY <3>1, TaskType DEF StartOf, Task, Source
  <2>4. micro' = <<s>> \o micro
    BY <2>1
  <2> HIDE DEF s
  <2>5. /\ Head(micro') = s /\ Tail(micro') = micro
        /\ DOMAIN micro' = 1..(Len(micro) + 1)
        /\ \A j \in 1..Len(micro) : micro'[j + 1] = micro[j]
    <3>1. /\ <<s>> \in Seq(Task) /\ Len(<<s>>) = 1 /\ <<s>>[1] = s
      BY <2>3
    <3>2. /\ micro' \in Seq(Task) /\ Len(micro') = Len(micro) + 1
          /\ \A j \in 1..(Len(micro) + 1) :
               micro'[j] = IF j <= 1 THEN s ELSE micro[j - 1]
      BY <1>3, <1>4, <2>4, <3>1, ConcatProperties
    <3>3. micro' # <<>>
      BY <1>3, <3>2, EmptySeq
    <3>4. Head(micro') = micro'[1] /\ Len(Tail(micro')) = Len(micro)
          /\ Tail(micro') \in Seq(Task)
          /\ \A j \in 1..Len(micro) : Tail(micro')[j] = micro'[j + 1]
      BY <1>3, <3>2, <3>3, HeadTailProperties
    <3>5. \A j \in 1..Len(micro) : micro'[j + 1] = micro[j]
      BY <1>3, <3>2
    <3>6. \A j \in 1..Len(micro) : Tail(micro')[j] = micro[j]
      BY <3>4, <3>5
    <3>7. Tail(micro') = micro
      BY <1>4, <3>4, <3>6, SeqEqual
    <3> QED
      BY <1>3, <3>2, <3>4, <3>5, <3>7, LenProperties
  <2>6. QueueOnce' /\ Waiting' \subseteq Waiting
    BY <2>1, <2>2, QueueLoses DEF QueueKeepsOrLoses, QueueInv
  <2>7. runQueue[i].t \notin Waiting'
    <3> SUFFICES ASSUME NEW j \in DOMAIN runQueue', runQueue'[j].t = runQueue[i].t
                 PROVE  FALSE
      BY DEF Waiting
    <3>1. DOMAIN runQueue' = 1..(Len(runQueue) - 1)
      BY <1>4, <2>1, <2>2, WithoutType, LenProperties
    <3>2. runQueue'[j] = runQueue[IF j < i THEN j ELSE j + 1]
      BY <2>1, <2>2, <3>1, WithoutType
    <3>3. (IF j < i THEN j ELSE j + 1) \in DOMAIN runQueue
      BY <1>4, <2>2, <3>1
    <3>4. (IF j < i THEN j ELSE j + 1) = i
      BY <2>2, <3>2, <3>3 DEF QueueInv, QueueOnce
    <3> QED
      BY <1>4, <2>2, <3>1, <3>4
  <2>8. AdmittedIsNext'
    <3>1. NoSlotStart(micro)
      <4> SUFFICES ASSUME NEW j \in DOMAIN micro, micro[j].op = "start"
                   PROVE  micro[j].from # "slot"
        BY DEF NoSlotStart
      <4>1. j # 1
        BY <1>1, <1>3
      <4>2. j - 1 \in DOMAIN Tail(micro) /\ (j - 1) + 1 = j
        BY <1>3, <4>1
      <4>3. Tail(micro)[j - 1] = micro[j]
        BY <1>3, <4>2
      <4> QED
        BY <1>3, <4>2, <4>3 DEF NoSlotStart
    <3>2. RunSlotsFree'
      BY <1>2, <2>2, RunningShrinks
    <3> QED
      BY <1>2, <2>2, <2>3, <2>5, <2>7, <3>1, <3>2 DEF AdmittedIsNext
  <2>9. HasAdmit(micro')
    <3>1. micro'[1 + 1] = micro[1] /\ 1 + 1 \in DOMAIN micro'
      BY <1>3, <2>5
    <3> QED
      BY <1>1, <1>3, <3>1 DEF HasAdmit
  <2>10. RunningIsWorking'
    BY <1>1, <1>2, <2>6 DEF QueueInv, RunningIsWorking
  <2>11. CapRespected'
    BY <1>2, RunningShrinks DEF QueueInv
  <2> QED
    BY <1>1, <2>6, <2>8, <2>9, <2>10, <2>11
      DEF QueueInv, PathKnown, PassesSkipQueue, WakeUpQueued, HasAdmit
<1>6. CASE AdmitEnds
  <2>1. micro' = Tail(micro) /\ runQueue' = runQueue /\ (~RunSlotsFree \/ Admissible = {})
    BY <1>6 DEF AdmitEnds, queueVars
  <2>2. AdmittedIsNext'
    BY <1>3, <2>1, NoSlotIsSafe
  <2>3. runQueue = <<>> \/ ~RunSlotsFree
    <3> SUFFICES ASSUME runQueue # <<>>, RunSlotsFree
                 PROVE  FALSE
      OBVIOUS
    <3>1. 1 \in DOMAIN runQueue
      BY <1>4, EmptySeq
    <3>2. runQueue[1].t \in Running
      BY <2>1, <3>1 DEF Admissible
    <3> QED
      BY <3>1, <3>2 DEF QueueInv, RunningIsWorking, Waiting
  <2>4. WakeUpQueued'
    BY <1>2, <2>1, <2>3, RunningShrinks DEF WakeUpQueued
  <2>5. RunningIsWorking' /\ CapRespected'
    BY <1>1, <1>2, <2>1, RunningShrinks DEF QueueInv, RunningIsWorking, Waiting
  <2> QED
    BY <1>1, <2>1, <2>2, <2>4, <2>5 DEF QueueInv, PathKnown, PassesSkipQueue, QueueOnce, Waiting
<1> QED
  BY <1>5, <1>6 DEF AdmitQueuedRuns

\* Drain puts at most one start in front, and it is not one of
\* admitQueuedRuns.
LEMMA DrainIsQuiet ==
    ASSUME NEW t, NEW held, Drain(t, held, <<>>) \/ Drain(t, held, <<Admit>>)
    PROVE  /\ NoSlotStart(micro')
           /\ Drain(t, held, <<Admit>>) => HasAdmit(micro')
<1>1. ASSUME NEW later \in {<<>>, <<Admit>>}, Drain(t, held, later)
      PROVE  NoSlotStart(micro') /\ (later = <<Admit>> => HasAdmit(micro'))
  <2>1. CASE micro' = later
    BY <2>1, ShortFacts
  <2>2. CASE micro' # later
    <3>1. PICK msgs : micro' = <<StartOf(t, "drain", msgs)>> \o later
      BY <1>1, <2>2 DEF Drain
    <3> DEFINE s == StartOf(t, "drain", msgs)
    <3>2. s.op = "start" /\ s.from = "drain"
      BY DEF StartOf
    <3>3. micro' = <<s>> \o later
      BY <3>1
    <3> HIDE DEF s
    <3>4. CASE later = <<>>
      <4>1. micro' = <<s>>
        BY <3>3, <3>4
      <4> QED
        BY <3>2, <3>4, <4>1 DEF NoSlotStart
    <3>5. CASE later = <<Admit>>
      <4>1. /\ <<s>> \in Seq({s, Admit}) /\ Len(<<s>>) = 1 /\ <<s>>[1] = s
            /\ <<Admit>> \in Seq({s, Admit}) /\ Len(<<Admit>>) = 1 /\ <<Admit>>[1] = Admit
        OBVIOUS
      <4>2. DOMAIN micro' = 1..2 /\ micro'[1] = s /\ micro'[2] = Admit
        <5>1. /\ micro' \in Seq({s, Admit}) /\ Len(micro') = 2
              /\ \A i \in 1..2 : micro'[i] = IF i <= 1 THEN <<s>>[i] ELSE <<Admit>>[i - 1]
          BY <3>3, <3>5, <4>1, ConcatProperties
        <5> QED
          BY <4>1, <5>1, LenProperties
      <4> QED
        BY <3>2, <4>2 DEF NoSlotStart, HasAdmit, Admit
    <3> QED
      BY <3>4, <3>5
  <2> QED
    BY <2>1, <2>2
<1> QED
  BY <1>1

\* Nothing waits for the PATH, and between two macrotasks no microtask is
\* queued: what the other actions find.
LEMMA QuietStart ==
    ASSUME QueueInv, Idle
    PROVE  ~HasAdmit(micro) /\ NoSlotStart(micro)
BY ShortFacts DEF Idle

\* Taking a thread's entry away.
LEMMA EntryGoes ==
    ASSUME TypeOK, NEW t \in Threads, active' = [active EXCEPT ![t] = NoRun]
    PROVE  Running' \subseteq Running /\ t \notin Running'
<1>1. \A u \in Threads : active'[u] = IF u = t THEN NoRun ELSE active[u]
  BY DEF TypeOK
<1> QED
  BY <1>1 DEF Running

\* An entry that goes to another state keeps its slot.
LEMMA Renamed ==
    ASSUME TypeOK, NEW t \in Threads, NEW r \in RunId, NEW k,
           NEW kind \in {"preparing", "live", "verify"},
           active[t] = [rid |-> r, kind |-> k], k \in {"preparing", "live", "verify"},
           active' = [active EXCEPT ![t].kind = kind]
    PROVE  Running' = Running
<1>1. active'[t] = [rid |-> r, kind |-> kind]
  <2>1. [active[t] EXCEPT !.kind = kind] = [rid |-> r, kind |-> kind]
    OBVIOUS
  <2>2. active' = [active EXCEPT ![t] = [active[t] EXCEPT !.kind = kind]]
    OBVIOUS
  <2> QED
    BY <2>1, <2>2 DEF TypeOK
<1>2. active'[t] # NoRun
  BY <1>1, NoRunAssumption DEF Entry
<1>3. \A u \in Threads : u # t => active'[u] = active[u]
  BY DEF TypeOK
<1>4. active[t] # NoRun
  BY NoRunAssumption DEF Entry
<1> QED
  BY <1>2, <1>3, <1>4 DEF Running

\* Launches, agents and verifications that settle start nothing.
LEMMA SettlesIsQuiet ==
    ASSUME TypeOK, TypeOK', QueueInv,
           LaunchSettles \/ AgentEnds \/ TurnCommits \/ VerifyEnds
    PROVE  QuietStep
<1>1. Idle /\ ~HasAdmit(micro) /\ NoSlotStart(micro)
  <2>1. Idle
    BY DEF LaunchSettles, LaunchCancelled, LaunchSpawns, LaunchThrows, AgentEnds, AgentLate,
           AgentDone, AgentFails, TurnCommits, CheckpointSettles, VerifyEnds, VerifyStale,
           VerifyPasses, VerifyHandsBack, VerifyFails
  <2> QED
    BY <2>1, QuietStart
<1>2. /\ pathReady' = pathReady /\ pathWait' = pathWait /\ runQueue' = runQueue
  BY DEF LaunchSettles, LaunchCancelled, LaunchSpawns, LaunchThrows, AgentEnds, AgentLate,
         AgentDone, AgentFails, TurnCommits, CheckpointSettles, VerifyEnds, VerifyStale,
         VerifyPasses, VerifyHandsBack, VerifyFails, queueVars, pathVars
<1>3. PathKnown' /\ QueueKeepsOrLoses
  BY <1>2 DEF QueueInv, PathKnown, QueueKeepsOrLoses
<1> DEFINE Rest ==
      /\ Running' \subseteq Running
      /\ \A t \in Running' : status'[t] = status[t]
      /\ NoSlotStart(micro')
      /\ HasAdmit(micro') \/ (Running' = Running /\ ~HasAdmit(micro))
<1>4. SUFFICES Rest
  BY <1>3 DEF QuietStep
\* A step that keeps the entries and the microtasks.
<1>5. ASSUME active' = active, micro' = micro, NEW u \in Threads,
             \A t \in Running : status'[t] = status[t]
      PROVE  Rest
  <2>1. Running' = Running
    BY <1>5 DEF Running
  <2> QED
    BY <1>1, <1>5, <2>1
\* A step that ends the run of thread u and queues an admission.
<1>6. ASSUME NEW u \in Threads, active' = [active EXCEPT ![u] = NoRun],
             \A t \in Threads : t # u => status'[t] = status[t],
             NoSlotStart(micro'), HasAdmit(micro')
      PROVE  Rest
  <2>1. Running' \subseteq Running /\ u \notin Running'
    BY <1>6, EntryGoes
  <2>2. Running' \subseteq Threads
    BY DEF Running
  <2> QED
    BY <1>6, <2>1, <2>2
<1>7. CASE LaunchSettles
  <2>1. PICK l \in launches : LaunchCancelled(l) \/ LaunchSpawns(l) \/ LaunchThrows(l)
    BY <1>7 DEF LaunchSettles
  <2>2. l.t \in Threads /\ l.rid \in RunId
    BY DEF TypeOK, Launch
  <2>3. CASE LaunchCancelled(l)
    <3>1. active' = active /\ micro' = micro
      BY <2>3 DEF LaunchCancelled
    <3>2. \A t \in Running : status'[t] = status[t]
      BY <2>2, <2>3 DEF LaunchCancelled, TypeOK, Running
    <3> QED
      BY <1>5, <2>2, <3>1, <3>2
  <2>4. CASE LaunchSpawns(l)
    <3>1. /\ active[l.t] = [rid |-> l.rid, kind |-> "preparing"]
          /\ active' = [active EXCEPT ![l.t].kind = "live"]
          /\ status' = status /\ micro' = micro
      BY <2>4 DEF LaunchSpawns, Owns
    <3>2. Running' = Running
      BY <2>2, <3>1, Renamed
    <3> QED
      BY <1>1, <3>1, <3>2
  <2>5. CASE LaunchThrows(l)
    <3>1. /\ active' = [active EXCEPT ![l.t] = NoRun] /\ micro' = <<Admit>>
          /\ status' = [status EXCEPT ![l.t] = "failed"]
      BY <2>5 DEF LaunchThrows
    <3>2. \A t \in Threads : t # l.t => status'[t] = status[t]
      BY <2>2, <3>1 DEF TypeOK
    <3> QED
      BY <1>6, <2>2, <3>1, <3>2, ShortFacts
  <2> QED
    BY <2>1, <2>3, <2>4, <2>5
<1>8. CASE AgentEnds
  <2>1. PICK a \in agents : AgentLate(a) \/ AgentDone(a) \/ AgentFails(a)
    BY <1>8 DEF AgentEnds
  <2>2. a.t \in Threads /\ a.rid \in RunId
    BY DEF TypeOK, Pending
  <2>3. CASE AgentLate(a)
    BY <1>5, <2>2, <2>3 DEF AgentLate
  <2>4. CASE AgentDone(a) /\ a.t \in VerifyThreads
    <3>1. /\ active[a.t] = [rid |-> a.rid, kind |-> "live"]
          /\ active' = [active EXCEPT ![a.t].kind = "verify"]
          /\ status' = status /\ micro' = <<Admit>>
      BY <2>4 DEF AgentDone, Owns
    <3>2. Running' = Running
      BY <2>2, <3>1, Renamed
    <3>3. NoSlotStart(micro') /\ HasAdmit(micro')
      BY <3>1, ShortFacts
    <3> QED
      BY <3>1, <3>2, <3>3
  <2>5. CASE (AgentDone(a) /\ a.t \notin VerifyThreads) \/ AgentFails(a)
    <3>1. /\ active' = [active EXCEPT ![a.t] = NoRun] /\ micro' = <<Admit>>
          /\ \E s \in {"done", "failed"} : status' = [status EXCEPT ![a.t] = s]
      BY <2>5 DEF AgentDone, AgentFails
    <3>2. \A t \in Threads : t # a.t => status'[t] = status[t]
      BY <2>2, <3>1 DEF TypeOK
    <3> QED
      BY <1>6, <2>2, <3>1, <3>2, ShortFacts
  <2> QED
    BY <2>1, <2>3, <2>4, <2>5
<1>9. CASE TurnCommits
  <2>1. PICK c \in checkpoints : CheckpointSettles(c)
    BY <1>9 DEF TurnCommits
  <2>2. /\ active' = active /\ status' = status
        /\ \E held \in BOOLEAN : Drain(c.t, held \/ status[c.t] = "working", <<>>)
    BY <2>1 DEF CheckpointSettles
  <2>3. NoSlotStart(micro')
    BY <2>2, DrainIsQuiet
  <2>4. Running' = Running
    BY <2>2 DEF Running
  <2> QED
    BY <1>1, <2>2, <2>3, <2>4
<1>10. CASE VerifyEnds
  <2>1. PICK v \in verifies :
          VerifyStale(v) \/ VerifyPasses(v) \/ VerifyHandsBack(v) \/ VerifyFails(v)
    BY <1>10 DEF VerifyEnds
  <2>2. v.t \in Threads
    BY DEF TypeOK, Pending
  <2>3. CASE VerifyStale(v)
    BY <1>5, <2>2, <2>3 DEF VerifyStale
  <2>4. CASE ~VerifyStale(v)
    <3>1. /\ active' = [active EXCEPT ![v.t] = NoRun]
          /\ status' = status \/ \E s \in {"done", "failed"} : status' = [status EXCEPT ![v.t] = s]
      BY <2>1, <2>4 DEF VerifyPasses, VerifyHandsBack, VerifyFails
    <3>2. \A t \in Threads : t # v.t => status'[t] = status[t]
      BY <2>2, <3>1 DEF TypeOK
    <3>3. NoSlotStart(micro') /\ HasAdmit(micro')
      BY <2>1, <2>4, ShortFacts, DrainIsQuiet DEF VerifyPasses, VerifyHandsBack, VerifyFails
    <3> QED
      BY <1>6, <2>2, <3>1, <3>2, <3>3
  <2> QED
    BY <2>3, <2>4
<1> QED
  BY <1>7, <1>8, <1>9, <1>10

\* So does the user, a quit and a boot: starts wait for the next microtask.
LEMMA OthersAreQuiet ==
    ASSUME TypeOK, TypeOK', QueueInv, PathCaptured, UserActs \/ Quit \/ Reboot
    PROVE  QuietStep
<1>1. Idle /\ ~HasAdmit(micro) /\ NoSlotStart(micro)
  <2>1. Idle
    BY DEF UserActs, UserSends, UserTypesAhead, UserSendsQueued, StopWaiting, StopRunning,
           Quit, Reboot
  <2> QED
    BY <2>1, QuietStart
<1>2. CASE UserActs
  <2>1. PICK t \in Threads :
          \/ UserSends(t) \/ UserTypesAhead(t) \/ UserSendsQueued(t)
          \/ StopWaiting(t) \/ StopRunning(t)
    BY <1>2 DEF UserActs
  <2>2. PathKnown'
    BY <2>1 DEF UserSends, UserTypesAhead, UserSendsQueued, StopWaiting, StopRunning,
                pathVars, QueueInv, PathKnown
  <2>3. QueueKeepsOrLoses
    BY <2>1 DEF UserSends, UserTypesAhead, UserSendsQueued, StopWaiting, StopRunning,
                queueVars, QueueKeepsOrLoses
  <2>4. CASE StopRunning(t)
    <3>1. /\ active' = [active EXCEPT ![t] = NoRun] /\ micro' = <<Admit>>
          /\ status' = [status EXCEPT ![t] = "idle"]
      BY <2>4 DEF StopRunning
    <3>2. Running' \subseteq Running /\ t \notin Running'
      BY <3>1, EntryGoes
    <3>3. \A u \in Threads : u # t => status'[u] = status[u]
      BY <3>1 DEF TypeOK
    <3>4. Running' \subseteq Threads
      BY DEF Running
    <3>5. NoSlotStart(micro') /\ HasAdmit(micro')
      BY <3>1, ShortFacts
    <3> QED
      BY <2>2, <2>3, <3>2, <3>3, <3>4, <3>5 DEF QuietStep
  <2>5. CASE ~StopRunning(t)
    <3>1. active' = active /\ status' = status
      BY <2>1, <2>5 DEF UserSends, UserTypesAhead, UserSendsQueued, StopWaiting, runVars
    <3>2. NoSlotStart(micro')
      BY <1>1, <2>1, <2>5, ShortFacts
        DEF UserSends, UserTypesAhead, UserSendsQueued, StopWaiting
    <3>3. Running' = Running
      BY <3>1 DEF Running
    <3> QED
      BY <1>1, <2>2, <2>3, <3>1, <3>2, <3>3 DEF QuietStep
  <2> QED
    BY <2>4, <2>5
<1>3. CASE Quit \/ Reboot
  <2>1. Running' = {}
    BY <1>3 DEF Quit, Reboot, Running
  <2>2. QueueKeepsOrLoses /\ PathKnown'
    BY <1>3, PathAssumption
      DEF Quit, Reboot, queueVars, pathVars, QueueInv, PathKnown, QueueKeepsOrLoses
  <2>3. micro' = <<Admit>> \/ (micro' = <<>> /\ Running = {})
    <3>1. Quit => micro' = IF Running = {} THEN <<>> ELSE <<Admit>>
      BY DEF Quit
    <3>2. Reboot => micro' = <<Admit>>
      BY DEF Reboot
    <3> QED
      BY <1>3, <3>1, <3>2
  <2> QED
    BY <1>1, <2>1, <2>2, <2>3, ShortFacts DEF QuietStep
<1> QED
  BY <1>2, <1>3

\* Every step keeps the queue invariant.
LEMMA QueueStep ==
    ASSUME TypeOK, TypeOK', PathCaptured, QueueInv, [Next]_vars
    PROVE  QueueInv'
<1>1. CASE RunStart
  BY <1>1, StartKeepsQueue
<1>2. CASE AdmitQueuedRuns
  BY <1>2, AdmitKeepsQueue
<1>3. CASE LaunchSettles \/ AgentEnds \/ TurnCommits \/ VerifyEnds
  BY <1>3, SettlesIsQuiet, QuietKeeps
<1>4. CASE UserActs \/ Quit \/ Reboot
  BY <1>4, OthersAreQuiet, QuietKeeps
<1>5. CASE PathSettles
  BY <1>5 DEF PathSettles, QueueInv, PathKnown
<1>6. CASE UNCHANGED vars
  BY <1>6 DEF vars, runVars, queueVars, pathVars, QueueInv, PathKnown, PassesSkipQueue, QueueOnce,
              AdmittedIsNext, WakeUpQueued, RunningIsWorking, CapRespected, RunSlotsFree, Running, Waiting
<1> QED
  BY <1>1, <1>2, <1>3, <1>4, <1>5, <1>6 DEF Next

\* A boot with nothing to wait for satisfies it.
LEMMA QueueStarts ==
    ASSUME PathCaptured, Init
    PROVE  QueueInv
<1>1. Running = {} /\ runQueue = <<>> /\ micro = <<Admit>>
  BY DEF Init, Running
<1>2. Cardinality(Running) = 0 /\ Running \ SystemThreads = Running
  BY <1>1, FS_EmptySet
<1>3. AdmittedIsNext
  <2>1. Head(<<Admit>>) = Admit /\ DOMAIN Tail(<<Admit>>) = {}
    OBVIOUS
  <2> QED
    BY <1>1, <2>1 DEF AdmittedIsNext, NoSlotStart, Admit
<1>4. QueueOnce
  BY <1>1 DEF QueueOnce
<1>5. CapRespected /\ WakeUpQueued /\ RunningIsWorking /\ PassesSkipQueue
  BY <1>1, <1>2, CapAssumption
    DEF CapRespected, WakeUpQueued, RunningIsWorking, PassesSkipQueue, Waiting
<1> QED
  BY <1>3, <1>4, <1>5 DEF Init, QueueInv, PathKnown

\* The queue invariant is one.
THEOREM QueueInvariant ==
    ASSUME PathCaptured
    PROVE  Spec => []QueueInv
<1>1. Init => QueueInv
  BY QueueStarts
<1>2. TypeOK /\ TypeOK' /\ QueueInv /\ [Next]_vars => QueueInv'
  BY QueueStep
<1> QED
  BY <1>1, <1>2, TypeCorrect, PTL DEF Spec

\* runSlotsFree caps the runs: whatever drains, is admitted, handed back or
\* restarted, and however many memory passes run beside them, there are never
\* more than maxConcurrentRuns, for any cap and any number of threads, unless
\* a boot still waits for the login PATH.
THEOREM CapKept ==
    ASSUME PathCaptured
    PROVE  Spec => []CapRespected
<1>1. QueueInv => CapRespected
  BY DEF QueueInv
<1> QED
  BY <1>1, QueueInvariant, PTL

\* No wake-up is lost: once the microtasks have run, a turn waits only while
\* every slot is taken.
THEOREM NoLostWakeUp ==
    ASSUME PathCaptured
    PROVE  Spec => []NoIdleSlot
<1>1. QueueInv => NoIdleSlot
  BY ShortFacts DEF QueueInv, WakeUpQueued, NoIdleSlot, Idle
<1> QED
  BY <1>1, QueueInvariant, PTL

\* A thread that owns a slot reads working and does not wait for another.
THEOREM SlotMeansWorking ==
    ASSUME PathCaptured
    PROVE  Spec => []RunningIsWorking
<1>1. QueueInv => RunningIsWorking
  BY DEF QueueInv
<1> QED
  BY <1>1, QueueInvariant, PTL

-----------------------------------------------------------------------------
(* Strict FIFO.                                                            *)

\* Only an accepted start adds an entry to `active', and a memory pass apart
\* only a turn off the run queue is accepted while any waits.
LEMMA StepOvertakesNobody ==
    ASSUME TypeOK, Next, NEW t \in (Running' \ Running) \ SystemThreads
    PROVE  Head(micro).from = "slot" \/ runQueue = <<>>
<1>1. t \in Threads /\ active[t] = NoRun /\ active'[t] # NoRun
  BY DEF Running
<1>2. CASE RunStart
  <2>1. StartAccepted(Head(micro))
    BY <1>1, <1>2 DEF RunStart, StartWaitsForPath, StartRefused, StartQueued, runVars
  <2>2. active' = [active EXCEPT ![Head(micro).t] = [rid |-> FreeId, kind |-> "preparing"]]
    BY <2>1 DEF StartAccepted
  <2>3. t = Head(micro).t
    BY <1>1, <2>2 DEF TypeOK
  <2> QED
    BY <2>1, <2>3 DEF StartAccepted, MustQueue
<1>3. CASE AdmitQueuedRuns
  BY <1>1, <1>3 DEF AdmitQueuedRuns, AdmitNext, AdmitEnds, runVars
<1>4. CASE LaunchSettles
  <2>1. PICK l \in launches : LaunchCancelled(l) \/ LaunchSpawns(l) \/ LaunchThrows(l)
    BY <1>4 DEF LaunchSettles
  <2>2. t = l.t => active'[t] = active[t] \/ active[t] # NoRun
    <3>1. active' = active \/ active[l.t] = [rid |-> l.rid, kind |-> "preparing"]
      BY <2>1 DEF LaunchCancelled, LaunchSpawns, LaunchThrows, Owns
    <3>2. l.rid \in RunId
      BY DEF TypeOK, Launch
    <3> QED
      BY <3>1, <3>2, NoRunAssumption DEF Entry
  <2>3. t # l.t => active'[t] = active[t]
    BY <2>1, <1>1 DEF LaunchCancelled, LaunchSpawns, LaunchThrows, TypeOK
  <2> QED
    BY <1>1, <2>2, <2>3
<1>5. CASE AgentEnds
  <2>1. PICK a \in agents : AgentLate(a) \/ AgentDone(a) \/ AgentFails(a)
    BY <1>5 DEF AgentEnds
  <2>2. t = a.t => active'[t] = active[t] \/ active[t] # NoRun
    BY <2>1, <1>1, NoRunAssumption
      DEF AgentLate, AgentDone, AgentFails, Owns, TypeOK, Pending, Entry
  <2>3. t # a.t => active'[t] = active[t]
    BY <2>1, <1>1 DEF AgentLate, AgentDone, AgentFails, TypeOK
  <2> QED
    BY <1>1, <2>2, <2>3
<1>6. CASE TurnCommits
  BY <1>1, <1>6 DEF TurnCommits, CheckpointSettles
<1>7. CASE VerifyEnds
  <2>1. PICK v \in verifies :
          VerifyStale(v) \/ VerifyPasses(v) \/ VerifyHandsBack(v) \/ VerifyFails(v)
    BY <1>7 DEF VerifyEnds
  <2>2. active' = active \/ active' = [active EXCEPT ![v.t] = NoRun]
    BY <2>1 DEF VerifyStale, VerifyPasses, VerifyHandsBack, VerifyFails
  <2> QED
    BY <1>1, <2>2 DEF TypeOK
<1>8. CASE UserActs
  <2>1. PICK u \in Threads :
          \/ UserSends(u) \/ UserTypesAhead(u) \/ UserSendsQueued(u)
          \/ StopWaiting(u) \/ StopRunning(u)
    BY <1>8 DEF UserActs
  <2>2. active' = active \/ active' = [active EXCEPT ![u] = NoRun]
    BY <2>1 DEF UserSends, UserTypesAhead, UserSendsQueued, StopWaiting, StopRunning, runVars
  <2> QED
    BY <1>1, <2>2 DEF TypeOK
<1>9. CASE PathSettles
  BY <1>1, <1>9 DEF PathSettles, runVars
<1>10. CASE Quit \/ Reboot
  BY <1>1, <1>10 DEF Quit, Reboot
<1> QED
  BY <1>2, <1>3, <1>4, <1>5, <1>6, <1>7, <1>8, <1>9, <1>10 DEF Next

\* admitQueuedRuns takes the head, since no thread that waits also runs.
LEMMA HeadIsAdmitted ==
    ASSUME TypeOK, RunningIsWorking, AdmitQueuedRuns
    PROVE  runQueue' = runQueue \/ runQueue' = Tail(runQueue)
<1> DEFINE QEntry == [t: Threads, msgs: Seq(Msg)]
<1>1. CASE AdmitEnds
  BY <1>1 DEF AdmitEnds, queueVars
<1>2. CASE AdmitNext
  <2>1. PICK i \in Admissible :
          /\ \A j \in Admissible : i <= j
          /\ runQueue' = WithoutEntry(i)
    BY <1>2 DEF AdmitNext
  <2>2. /\ runQueue \in Seq(QEntry) /\ Len(runQueue) \in Nat
        /\ DOMAIN runQueue = 1..Len(runQueue) /\ i \in DOMAIN runQueue
    BY <2>1, LenProperties DEF TypeOK, Admissible
  <2>3. 1 \in Admissible
    <3>1. 1 \in DOMAIN runQueue
      BY <2>2
    <3>2. runQueue[1].t \in Waiting
      BY <3>1 DEF Waiting
    <3>3. runQueue[1].t \notin Running
      BY <3>2 DEF RunningIsWorking
    <3> QED
      BY <3>1, <3>3 DEF Admissible
  <2>4. i = 1
    BY <2>1, <2>2, <2>3
  <2>5. /\ WithoutEntry(1) \in Seq(QEntry)
        /\ Len(WithoutEntry(1)) = Len(runQueue) - 1
        /\ \A j \in 1..(Len(runQueue) - 1) : WithoutEntry(1)[j] = runQueue[j + 1]
    <3>1. 1 \in DOMAIN runQueue
      BY <2>2, <2>4
    <3>2. /\ WithoutEntry(1) \in Seq(QEntry)
          /\ Len(WithoutEntry(1)) = Len(runQueue) - 1
          /\ \A j \in 1..(Len(runQueue) - 1) :
               WithoutEntry(1)[j] = runQueue[IF j < 1 THEN j ELSE j + 1]
      BY <3>1, WithoutType
    <3> HIDE DEF QEntry
    <3>3. ASSUME NEW j \in 1..(Len(runQueue) - 1)
          PROVE  WithoutEntry(1)[j] = runQueue[j + 1]
      <4>1. ~(j < 1)
        OBVIOUS
      <4> QED
        BY <3>2, <4>1
    <3> QED
      BY <3>2, <3>3
  <2>6. /\ Tail(runQueue) \in Seq(QEntry) /\ Len(Tail(runQueue)) = Len(runQueue) - 1
        /\ \A j \in 1..Len(Tail(runQueue)) : Tail(runQueue)[j] = runQueue[j + 1]
    <3>1. runQueue # <<>>
      BY <2>2, EmptySeq
    <3> QED
      BY <2>2, <3>1, HeadTailProperties
  <2>7. WithoutEntry(1) = Tail(runQueue)
    BY <2>5, <2>6, SeqEqual
  <2> QED
    BY <2>1, <2>4, <2>7
<1> QED
  BY <1>1, <1>2 DEF AdmitQueuedRuns

\* Only the head of the run queue is admitted, and no other start but a memory
\* pass takes a slot while threads wait, not even the follow-up a finishing
\* turn starts inline.
THEOREM FirstComeFirstServed ==
    ASSUME PathCaptured
    PROVE  Spec => NoOvertaking
<1>1. ASSUME TypeOK, QueueInv, [Next]_vars
      PROVE  [/\ \A t \in (Running' \ Running) \ SystemThreads :
                   Head(micro).from = "slot" \/ runQueue = <<>>
              /\ AdmitQueuedRuns => runQueue' = runQueue \/ runQueue' = Tail(runQueue)]_vars
  BY <1>1, StepOvertakesNobody, HeadIsAdmitted DEF QueueInv
<1> QED
  BY <1>1, TypeCorrect, QueueInvariant, PTL DEF Spec, NoOvertaking

-----------------------------------------------------------------------------
(* The fix attempts, for every capture of the login PATH.                  *)

\* The fix prompts of a queue.
Fixes(s) == {i \in DOMAIN s : s[i].op = "start" /\ s[i].from = "fix"}

\* A verification runs only once starts no longer wait for the PATH, so no
\* fix prompt ever waits for it; one at most is about to start, and its
\* thread has an attempt left.
FixInv ==
    /\ launches # {} \/ agents # {} \/ verifies # {} => pathReady
    /\ Fixes(pathWait) = {}
    /\ \A i, j \in Fixes(micro) : i = j
    /\ \A i \in Fixes(micro) : pathReady /\ tries[micro[i].t] < MaxFix
    /\ FixesBounded

\* Once the head has run, the fix prompts behind it are those there were; if
\* the head was one, there are none.
LEMMA FixesAfterHead ==
    ASSUME TypeOK, ~Idle, \A i, j \in Fixes(micro) : i = j
    PROVE  /\ \A i \in Fixes(Tail(micro)) :
                i + 1 \in Fixes(micro) /\ Tail(micro)[i] = micro[i + 1]
           /\ \A i, j \in Fixes(Tail(micro)) : i = j
           /\ Head(micro).op = "start" /\ Head(micro).from = "fix" =>
                1 \in Fixes(micro) /\ Head(micro) = micro[1] /\ Fixes(Tail(micro)) = {}
<1>1. /\ Head(micro) = micro[1]
      /\ Len(micro) \in Nat /\ Len(micro) > 0 /\ DOMAIN micro = 1..Len(micro)
      /\ DOMAIN Tail(micro) = 1..(Len(micro) - 1)
      /\ \A i \in DOMAIN Tail(micro) : Tail(micro)[i] = micro[i + 1]
  BY AfterHead
<1>2. ASSUME NEW i \in Fixes(Tail(micro))
      PROVE  i \in Nat \ {0} /\ i + 1 \in Fixes(micro) /\ Tail(micro)[i] = micro[i + 1]
  BY <1>1 DEF Fixes
<1>3. ASSUME NEW i \in Fixes(Tail(micro)), NEW j \in Fixes(Tail(micro))
      PROVE  i = j
  <2>1. i \in Nat /\ j \in Nat /\ i + 1 = j + 1
    BY <1>2
  <2> QED
    BY <2>1
<1>4. ASSUME Head(micro).op = "start", Head(micro).from = "fix"
      PROVE  1 \in Fixes(micro) /\ Fixes(Tail(micro)) = {}
  <2>1. 1 \in Fixes(micro)
    BY <1>1, <1>4 DEF Fixes
  <2>2. \A i \in Fixes(Tail(micro)) : i + 1 = 1 /\ i \in Nat \ {0}
    BY <1>2, <2>1
  <2> QED
    BY <2>1, <2>2
<1> QED
  BY <1>1, <1>2, <1>3, <1>4

\* Queues without a fix prompt.
LEMMA NoFixes ==
    /\ Fixes(<<>>) = {} /\ Fixes(<<Admit>>) = {}
    /\ \A t, from, msgs : from # "fix" => Fixes(<<StartOf(t, from, msgs)>>) = {}
BY DEF Fixes, Admit, StartOf

\* The start of a fix prompt spends one attempt; every other start spends
\* none.
LEMMA StartKeepsFix ==
    ASSUME TypeOK, TypeOK', FixInv, RunStart
    PROVE  FixInv'
<1> DEFINE in == Head(micro)
           rest == Tail(micro)
<1>1. /\ ~Idle /\ in.op = "start" /\ \A i, j \in Fixes(micro) : i = j
      /\ in.t \in Threads /\ in.from \in Source
  BY HeadStart, FoldedType DEF RunStart, FixInv
<1>2. /\ \A i \in Fixes(rest) : i + 1 \in Fixes(micro) /\ rest[i] = micro[i + 1]
      /\ \A i, j \in Fixes(rest) : i = j
      /\ in.from = "fix" => 1 \in Fixes(micro) /\ in = micro[1] /\ Fixes(rest) = {}
  BY <1>1, FixesAfterHead
<1>3. /\ \A i \in Fixes(rest) : pathReady /\ tries[rest[i].t] < MaxFix
      /\ in.from = "fix" => pathReady /\ tries[in.t] < MaxFix
  BY <1>2 DEF FixInv
<1>4. rest \in Seq(Task)
  BY <1>1, HeadStart
<1>5. PICK worktree \in BOOLEAN :
        \/ StartWaitsForPath(in) \/ StartRefused(in, worktree)
        \/ StartQueued(in) \/ StartAccepted(in)
  BY DEF RunStart
<1>6. \A t \in Threads : tries[t] \in Nat
  BY DEF TypeOK
<1> HIDE DEF in, rest
<1>7. CASE StartWaitsForPath(in)
  <2>1. /\ pathWait' = Append(pathWait, in) /\ micro' = rest /\ ~pathReady
        /\ UNCHANGED <<launches, agents, verifies, pathReady, tries>>
    BY <1>7 DEF StartWaitsForPath, runVars, rest
  <2>2. in.from # "fix"
    BY <1>3, <2>1
  <2>3. Fixes(pathWait') = {}
    <3>1. in \in Start
      BY <1>1, HeadStart DEF in
    <3>2. /\ DOMAIN pathWait = 1..Len(pathWait) /\ Len(pathWait) \in Nat
          /\ DOMAIN pathWait' = 1..(Len(pathWait) + 1)
          /\ \A i \in 1..Len(pathWait) : pathWait'[i] = pathWait[i]
          /\ pathWait'[Len(pathWait) + 1] = in
      BY <2>1, <3>1, AppendProperties, LenProperties DEF TypeOK
    <3> QED
      BY <2>2, <3>2 DEF FixInv, Fixes
  <2> QED
    BY <1>2, <1>3, <2>1, <2>3 DEF FixInv, FixesBounded
<1>8. CASE StartRefused(in, worktree)
  <2>1. /\ micro' = rest
        /\ UNCHANGED <<launches, agents, verifies, pathReady, pathWait, tries>>
    BY <1>8 DEF StartRefused, pathVars, rest
  <2> QED
    BY <1>2, <1>3, <2>1 DEF FixInv, FixesBounded
\* A start that is queued or accepted: what it does to the attempts.
<1>9. ASSUME NEW n \in Nat, tries' = [tries EXCEPT ![in.t] = n],
             n <= tries[in.t] \/ (in.from = "fix" /\ n = tries[in.t] + 1),
             pathReady, pathReady' = pathReady, pathWait' = pathWait,
             Fixes(micro') = Fixes(rest),
             \A i \in Fixes(rest) : micro'[i] = rest[i]
      PROVE  FixInv'
  <2>1. \A t \in Threads : tries'[t] = IF t = in.t THEN n ELSE tries[t]
    BY <1>9 DEF TypeOK
  <2>2. FixesBounded'
    BY <1>1, <1>3, <1>6, <1>9, <2>1, VerifyAssumption DEF FixInv, FixesBounded
  <2>3. ASSUME NEW i \in Fixes(micro')
        PROVE  tries'[micro'[i].t] < MaxFix
    <3>1. micro'[i] = rest[i] /\ tries[rest[i].t] < MaxFix /\ in.from # "fix"
      BY <1>2, <1>3, <1>9, <2>3
    <3>2. rest[i].t \in Threads
      <4>1. rest[i] \in Task /\ rest[i].op = "start"
        BY <1>4, <1>9, <2>3, LenProperties, ElementOfSeq DEF Fixes
      <4> QED
        BY <4>1 DEF Task, Start
    <3> QED
      BY <1>6, <1>9, <2>1, <3>1, <3>2, VerifyAssumption
  <2> QED
    BY <1>2, <1>9, <2>2, <2>3 DEF FixInv
<1>10. CASE StartQueued(in)
  <2> DEFINE last == in.from = "fix" /\ Folded(in) = <<>>
  <2>1. /\ micro' = Append(rest, Admit) /\ tries' = [tries EXCEPT ![in.t] = NextTry(in, last)]
        /\ pathReady /\ UNCHANGED <<pathReady, pathWait>>
    BY <1>10 DEF StartQueued, pathVars, rest
  <2>2. /\ NextTry(in, last) \in Nat
        /\ NextTry(in, last) <= tries[in.t]
             \/ (in.from = "fix" /\ NextTry(in, last) = tries[in.t] + 1)
    BY <1>1, <1>6 DEF NextTry
  <2>3. Fixes(micro') = Fixes(rest) /\ \A i \in Fixes(rest) : micro'[i] = rest[i]
    <3>1. /\ DOMAIN rest = 1..Len(rest) /\ Len(rest) \in Nat
          /\ DOMAIN micro' = 1..(Len(rest) + 1)
          /\ \A i \in 1..Len(rest) : micro'[i] = rest[i]
          /\ micro'[Len(rest) + 1] = Admit
      BY <1>4, <2>1, TaskType, AppendProperties, LenProperties
    <3> QED
      BY <3>1 DEF Fixes, Admit
  <2> QED
    BY <1>9, <2>1, <2>2, <2>3
<1>11. CASE StartAccepted(in)
  <2> DEFINE last == in.from = "fix"
  <2>1. /\ micro' = rest /\ tries' = [tries EXCEPT ![in.t] = NextTry(in, last)]
        /\ pathReady /\ UNCHANGED <<pathReady, pathWait>>
    BY <1>11 DEF StartAccepted, pathVars, rest
  <2>2. /\ NextTry(in, last) \in Nat
        /\ NextTry(in, last) <= tries[in.t]
             \/ (in.from = "fix" /\ NextTry(in, last) = tries[in.t] + 1)
    BY <1>1, <1>6 DEF NextTry
  <2> QED
    BY <1>9, <2>1, <2>2
<1> QED
  BY <1>5, <1>7, <1>8, <1>10, <1>11

\* admitQueuedRuns puts no fix prompt on the queue.
LEMMA AdmitKeepsFix ==
    ASSUME TypeOK, TypeOK', FixInv, AdmitQueuedRuns
    PROVE  FixInv'
<1>1. /\ ~Idle /\ UNCHANGED <<launches, agents, verifies, pathReady, pathWait, tries>>
  BY DEF AdmitQueuedRuns, AdmitNext, AdmitEnds, runVars, pathVars
<1>2. SUFFICES /\ \A i, j \in Fixes(micro') : i = j
               /\ \A i \in Fixes(micro') : pathReady /\ tries[micro'[i].t] < MaxFix
  BY <1>1 DEF FixInv, FixesBounded
<1>3. \A i, j \in Fixes(micro) : i = j
  BY DEF FixInv
<1>4. CASE AdmitNext
  <2>1. PICK i \in DOMAIN runQueue :
          micro' = <<StartOf(runQueue[i].t, "slot", runQueue[i].msgs)>> \o micro
    BY <1>4 DEF AdmitNext, Admissible
  <2> DEFINE s == StartOf(runQueue[i].t, "slot", runQueue[i].msgs)
  <2>2. s \in Task /\ s.from = "slot"
    <3>1. runQueue[i] \in [t: Threads, msgs: Seq(Msg)]
      <4>1. /\ runQueue \in Seq([t: Threads, msgs: Seq(Msg)])
            /\ DOMAIN runQueue = 1..Len(runQueue)
        BY LenProperties DEF TypeOK
      <4> QED
        BY <4>1, ElementOfSeq
    <3> QED
      BY <3>1, TaskType DEF StartOf, Task, Source
  <2>3. micro' = <<s>> \o micro
    BY <2>1
  <2> HIDE DEF s
  <2>4. /\ micro \in Seq(Task) /\ Len(micro) \in Nat /\ DOMAIN micro = 1..Len(micro)
        /\ <<s>> \in Seq(Task) /\ Len(<<s>>) = 1 /\ <<s>>[1] = s
    BY <2>2, LenProperties DEF TypeOK
  <2>5. /\ DOMAIN micro' = 1..(Len(micro) + 1)
        /\ \A j \in 1..(Len(micro) + 1) : micro'[j] = IF j <= 1 THEN s ELSE micro[j - 1]
    <3>1. /\ micro' \in Seq(Task) /\ Len(micro') = 1 + Len(micro)
          /\ \A j \in 1..(1 + Len(micro)) :
               micro'[j] = IF j <= 1 THEN <<s>>[j] ELSE micro[j - 1]
      BY <2>3, <2>4, ConcatProperties
    <3> QED
      BY <2>4, <3>1, LenProperties
  <2>6. \A j \in Fixes(micro') : j \in Nat /\ j - 1 \in Fixes(micro) /\ micro'[j] = micro[j - 1]
    BY <2>2, <2>4, <2>5 DEF Fixes
  <2>7. ASSUME NEW j \in Fixes(micro'), NEW k \in Fixes(micro')
        PROVE  j = k
    <3>1. j - 1 = k - 1 /\ j \in Nat /\ k \in Nat
      BY <1>3, <2>6
    <3> QED
      BY <3>1
  <2>8. ASSUME NEW j \in Fixes(micro')
        PROVE  pathReady /\ tries[micro'[j].t] < MaxFix
    BY <2>6 DEF FixInv
  <2> QED
    BY <2>7, <2>8
<1>5. CASE AdmitEnds
  <2>1. micro' = Tail(micro)
    BY <1>5 DEF AdmitEnds
  <2>2. /\ \A i \in Fixes(Tail(micro)) : i + 1 \in Fixes(micro) /\ Tail(micro)[i] = micro[i + 1]
        /\ \A i, j \in Fixes(Tail(micro)) : i = j
    BY <1>1, <1>3, FixesAfterHead
  <2> QED
    BY <2>1, <2>2 DEF FixInv
<1> QED
  BY <1>4, <1>5 DEF AdmitQueuedRuns

\* Drain puts no fix prompt on the queue either.
LEMMA DrainHasNoFix ==
    ASSUME NEW t, NEW held, NEW later \in {<<>>, <<Admit>>}, Drain(t, held, later)
    PROVE  Fixes(micro') = {}
<1>1. CASE micro' = later
  BY <1>1, NoFixes
<1>2. CASE micro' # later
  <2>1. PICK msgs : micro' = <<StartOf(t, "drain", msgs)>> \o later
    BY <1>2 DEF Drain
  <2> DEFINE s == StartOf(t, "drain", msgs)
  <2>2. s.from # "fix"
    BY DEF StartOf
  <2>3. micro' = <<s>> \o later
    BY <2>1
  <2> HIDE DEF s
  <2>4. /\ <<s>> \in Seq({s, Admit}) /\ Len(<<s>>) = 1 /\ <<s>>[1] = s
        /\ <<Admit>> \in Seq({s, Admit}) /\ Len(<<Admit>>) = 1 /\ <<Admit>>[1] = Admit
    OBVIOUS
  <2>5. CASE later = <<Admit>>
    <3>1. /\ micro' \in Seq({s, Admit}) /\ Len(micro') = 2
          /\ \A i \in 1..2 : micro'[i] = IF i <= 1 THEN <<s>>[i] ELSE <<Admit>>[i - 1]
      BY <2>3, <2>4, <2>5, ConcatProperties
    <3>2. DOMAIN micro' = 1..2 /\ micro'[1] = s /\ micro'[2] = Admit
      BY <2>4, <3>1, LenProperties
    <3> QED
      BY <2>2, <3>2 DEF Fixes, Admit
  <2>6. CASE later = <<>>
    <3>1. micro' = <<s>>
      BY <2>3, <2>6
    <3> QED
      BY <2>2, <3>1 DEF Fixes
  <2> QED
    BY <2>5, <2>6
<1> QED
  BY <1>1, <1>2

\* Between two macrotasks only VerifyHandsBack queues a fix prompt, and it
\* checks the attempts.
LEMMA MacrotasksKeepFix ==
    ASSUME TypeOK, TypeOK', FixInv,
           \/ LaunchSettles \/ AgentEnds \/ TurnCommits \/ VerifyEnds
           \/ UserActs \/ PathSettles \/ Quit \/ Reboot
    PROVE  FixInv'
<1>1. tries' = tries
  BY DEF LaunchSettles, LaunchCancelled, LaunchSpawns, LaunchThrows, AgentEnds, AgentLate,
         AgentDone, AgentFails, TurnCommits, CheckpointSettles, VerifyEnds, VerifyStale,
         VerifyPasses, VerifyHandsBack, VerifyFails, UserActs, UserSends, UserTypesAhead,
         UserSendsQueued, StopWaiting, StopRunning, PathSettles, Quit, Reboot, runVars
<1>2. FixesBounded'
  BY <1>1 DEF FixInv, FixesBounded
<1>3. Fixes(pathWait') = {}
  <2>1. pathWait' = pathWait \/ pathWait' = <<>>
    BY DEF LaunchSettles, LaunchCancelled, LaunchSpawns, LaunchThrows, AgentEnds, AgentLate,
           AgentDone, AgentFails, TurnCommits, CheckpointSettles, VerifyEnds, VerifyStale,
           VerifyPasses, VerifyHandsBack, VerifyFails, UserActs, UserSends, UserTypesAhead,
           UserSendsQueued, StopWaiting, StopRunning, PathSettles, Quit, Reboot, pathVars
  <2> QED
    BY <2>1, NoFixes DEF FixInv
<1>4. launches' # {} \/ agents' # {} \/ verifies' # {} => pathReady'
  <2>1. CASE LaunchSettles \/ AgentEnds \/ TurnCommits \/ VerifyEnds
    <3>1. pathReady' = pathReady
      BY <2>1 DEF LaunchSettles, LaunchCancelled, LaunchSpawns, LaunchThrows, AgentEnds,
         AgentLate, AgentDone, AgentFails, TurnCommits, CheckpointSettles, VerifyEnds,
         VerifyStale, VerifyPasses, VerifyHandsBack, VerifyFails, pathVars
    <3>2. pathReady \/ (TurnCommits /\ UNCHANGED <<launches, agents, verifies>>)
      BY <2>1 DEF FixInv, LaunchSettles, AgentEnds, VerifyEnds, TurnCommits, CheckpointSettles
    <3> QED
      BY <3>1, <3>2 DEF FixInv
  <2>2. CASE UserActs \/ Quit
    BY <2>2 DEF UserActs, UserSends, UserTypesAhead, UserSendsQueued, StopWaiting, StopRunning,
         Quit, runVars, pathVars, FixInv
  <2>3. CASE PathSettles
    BY <2>3 DEF PathSettles
  <2>4. CASE Reboot
    BY <2>4 DEF Reboot
  <2> QED
    BY <2>1, <2>2, <2>3, <2>4
<1> DEFINE Fit ==
      /\ \A i, j \in Fixes(micro') : i = j
      /\ \A i \in Fixes(micro') : pathReady' /\ tries'[micro'[i].t] < MaxFix
<1>5. SUFFICES Fit
  BY <1>2, <1>3, <1>4 DEF FixInv
<1>6. Fixes(micro') = {} => Fit
  OBVIOUS
<1> HIDE DEF Fit
<1>7. CASE LaunchSettles
  <2>1. micro' = <<>> \/ micro' = <<Admit>>
    BY <1>7 DEF LaunchSettles, LaunchCancelled, LaunchSpawns, LaunchThrows, Idle
  <2> QED
    BY <1>6, <2>1, NoFixes
<1>8. CASE AgentEnds
  <2>1. micro' = <<>> \/ micro' = <<Admit>>
    BY <1>8 DEF AgentEnds, AgentLate, AgentDone, AgentFails, Idle
  <2> QED
    BY <1>6, <2>1, NoFixes
<1>9. CASE TurnCommits
  <2>1. \E c \in checkpoints, held \in BOOLEAN : Drain(c.t, held \/ status[c.t] = "working", <<>>)
    BY <1>9 DEF TurnCommits, CheckpointSettles
  <2> QED
    BY <1>6, <2>1, DrainHasNoFix
<1>10. CASE VerifyEnds
  <2>1. PICK v \in verifies :
          VerifyStale(v) \/ VerifyPasses(v) \/ VerifyHandsBack(v) \/ VerifyFails(v)
    BY <1>10 DEF VerifyEnds
  <2>2. CASE VerifyStale(v) \/ VerifyFails(v)
    <3>1. micro' = <<>> \/ micro' = <<Admit>>
      BY <2>2 DEF VerifyStale, VerifyFails, Idle
    <3> QED
      BY <1>6, <3>1, NoFixes
  <2>3. CASE VerifyPasses(v)
    <3>1. \E held \in BOOLEAN : Drain(v.t, held, <<Admit>>)
      BY <2>3 DEF VerifyPasses
    <3> QED
      BY <1>6, <3>1, DrainHasNoFix
  <2>4. CASE VerifyHandsBack(v)
    <3> DEFINE s == StartOf(v.t, "fix", <<>>)
    <3>1. micro' = <<Admit, s>> /\ tries[v.t] < MaxFix /\ pathReady' = pathReady /\ pathReady
      BY <2>4 DEF VerifyHandsBack, pathVars, FixInv
    <3>2. s.op = "start" /\ s.t = v.t
      BY DEF StartOf
    <3> HIDE DEF s
    <3>3. DOMAIN micro' = 1..2 /\ micro'[1] = Admit /\ micro'[2] = s
      BY <3>1
    <3>4. \A i \in Fixes(micro') : i = 2
      BY <3>3 DEF Fixes, Admit
    <3> QED
      BY <1>1, <3>1, <3>2, <3>3, <3>4 DEF Fit
  <2> QED
    BY <2>1, <2>2, <2>3, <2>4
<1>11. CASE UserActs
  <2>1. PICK t \in Threads :
          \/ UserSends(t) \/ UserTypesAhead(t) \/ UserSendsQueued(t)
          \/ StopWaiting(t) \/ StopRunning(t)
    BY <1>11 DEF UserActs
  <2>2. \/ micro' = <<>> \/ micro' = <<Admit>>
        \/ \E from \in {"send", "drain"} : \E msgs : micro' = <<StartOf(t, from, msgs)>>
    BY <2>1 DEF UserSends, UserTypesAhead, UserSendsQueued, StopWaiting, StopRunning, Idle
  <2> QED
    BY <1>6, <2>2, NoFixes
<1>12. CASE PathSettles
  <2>1. micro' = pathWait
    BY <1>12 DEF PathSettles
  <2> QED
    BY <1>6, <2>1 DEF FixInv
<1>13. CASE Quit \/ Reboot
  <2>1. micro' = <<>> \/ micro' = <<Admit>>
    <3>1. Quit => micro' = IF Running = {} THEN <<>> ELSE <<Admit>>
      BY DEF Quit
    <3>2. Reboot => micro' = <<Admit>>
      BY DEF Reboot
    <3> QED
      BY <1>13, <3>1, <3>2
  <2> QED
    BY <1>6, <2>1, NoFixes
<1> QED
  BY <1>7, <1>8, <1>9, <1>10, <1>11, <1>12, <1>13

\* The user's command goes back to the agent at most MAX_FIX_ATTEMPTS times
\* between two turns of the user, for any MaxFix and however a boot captures
\* the login PATH: a fix prompt spends the attempt it was queued for.
THEOREM FixesStayBounded == Spec => []FixesBounded
<1>1. Init => FixInv
  BY NoFixes, VerifyAssumption DEF Init, FixInv, FixesBounded
<1>2. TypeOK /\ TypeOK' /\ FixInv /\ [Next]_vars => FixInv'
  <2>1. ASSUME TypeOK, FixInv, UNCHANGED vars
        PROVE  FixInv'
    BY <2>1 DEF vars, runVars, pathVars, FixInv, FixesBounded
  <2> QED
    BY <2>1, StartKeepsFix, AdmitKeepsFix, MacrotasksKeepFix DEF Next
<1>3. FixInv => FixesBounded
  BY DEF FixInv
<1> QED
  BY <1>1, <1>2, <1>3, TypeCorrect, PTL DEF Spec

=============================================================================
