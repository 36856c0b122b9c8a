-------------------------- MODULE TurnRetry_proofs --------------------------
(***************************************************************************)
(* Proofs about the retries of a turn, for every chain of providers and    *)
(* all bounds.                                                             *)
(*                                                                         *)
(* The storm is bounded by what is still due: every replay that may yet    *)
(* begin (a parked turn, an armed timer, a queued or a waiting start) has  *)
(* its wake or its hop put aside beforehand, an edit by the user and a     *)
(* restart put more aside, and beginning the replay spends it.             *)
(***************************************************************************)
EXTENDS TurnRetry, FiniteSetTheorems, SequenceTheorems, TLAPS

-----------------------------------------------------------------------------
(* The starts that wait, as a set.                                         *)

Start == [by : Callers, kind : Kinds]
Entries(h) == {h[i] : i \in DOMAIN h}

LEMMA EntriesAppend ==
    ASSUME NEW h \in Seq(Start), NEW e \in Start
    PROVE  /\ Append(h, e) \in Seq(Start) /\ Len(Append(h, e)) = Len(h) + 1
           /\ Entries(Append(h, e)) = Entries(h) \cup {e}
<1>1. /\ Append(h, e) \in Seq(Start) /\ Len(Append(h, e)) = Len(h) + 1
      /\ \A i \in 1..Len(h) : Append(h, e)[i] = h[i]
      /\ Append(h, e)[Len(h) + 1] = e
  BY AppendProperties
<1>2. /\ DOMAIN Append(h, e) = 1..(Len(h) + 1) /\ DOMAIN h = 1..Len(h) /\ Len(h) \in Nat
  BY <1>1, LenProperties
<1> QED
  BY <1>1, <1>2 DEF Entries

LEMMA EntriesTail ==
    ASSUME NEW h \in Seq(Start), h # <<>>
    PROVE  /\ Tail(h) \in Seq(Start) /\ Len(Tail(h)) <= Len(h)
           /\ Head(h) \in Entries(h) /\ Entries(Tail(h)) \subseteq Entries(h)
           /\ Entries(h) \subseteq Entries(Tail(h)) \cup {Head(h)}
<1>1. /\ Tail(h) \in Seq(Start) /\ Len(Tail(h)) = Len(h) - 1 /\ Head(h) = h[1]
      /\ \A i \in 1..Len(Tail(h)) : Tail(h)[i] = h[i + 1]
  BY HeadTailProperties
<1>2. /\ DOMAIN Tail(h) = 1..(Len(h) - 1) /\ DOMAIN h = 1..Len(h) /\ Len(h) \in Nat /\ Len(h) > 0
  BY <1>1, LenProperties, EmptySeq
<1>3. \A i \in DOMAIN h : i = 1 \/ (i - 1 \in DOMAIN Tail(h) /\ h[i] = Tail(h)[i - 1])
  BY <1>1, <1>2
<1>4. Head(h) \in Entries(h)
  BY <1>1, <1>2 DEF Entries
<1>5. Entries(Tail(h)) \subseteq Entries(h)
  BY <1>1, <1>2 DEF Entries
<1>6. Entries(h) \subseteq Entries(Tail(h)) \cup {Head(h)}
  <2>1. ASSUME NEW i \in DOMAIN h PROVE h[i] \in Entries(Tail(h)) \cup {Head(h)}
    BY <1>1, <1>2, <1>3 DEF Entries
  <2> QED
    BY <2>1 DEF Entries
<1> QED
  BY <1>1, <1>2, <1>4, <1>5, <1>6

LEMMA EntriesEmpty == Entries(<<>>) = {} /\ <<>> \in Seq(Start) /\ Len(<<>>) = 0
BY EmptySeq, LenProperties DEF Entries

LEMMA EntriesType ==
    ASSUME NEW h \in Seq(Start)
    PROVE  Entries(h) \subseteq Start
BY LenProperties, ElementOfSeq DEF Entries

-----------------------------------------------------------------------------
(* What happens to a row.                                                  *)

\* A row but for what its settling may change.
SameTurn(q, r) ==
    /\ q.provider = r.provider /\ q.tried = r.tried /\ q.runQueue = r.runQueue
    /\ q.interrupted = r.interrupted /\ q.autoResumed = r.autoResumed
    /\ q.auto = r.auto /\ q.trashed = r.trashed
    /\ q.status \in {r.status, "failed"} /\ (r.quotaWaitResumed => q.quotaWaitResumed)

LEMMA ThrownFields ==
    ASSUME NEW r \in Row, NEW by \in Callers
    PROVE  /\ Thrown(r, by) \in Row /\ SameTurn(Thrown(r, by), r)
           /\ by \in {"send", "banner"} \/ (by = "notice" /\ live) => Thrown(r, by) = r
           /\ by \in {"wake", "failover", "admit"} \/ (by = "notice" /\ ~live) =>
                Thrown(r, by).status = "failed"
BY DEF Thrown, Row, SameTurn, Callers

LEMMA AcceptFields ==
    ASSUME NEW r \in Row, NEW kind \in Kinds
    PROVE  LET q == Accept(r, kind) IN
           /\ q \in Row /\ q.status = "working"
           /\ q.provider = r.provider /\ q.runQueue = r.runQueue /\ q.trashed = r.trashed
           /\ q.tried = IF kind \in Replays THEN r.tried ELSE {}
           /\ q.quotaWaitResumed <=> kind = "wait"
           /\ q.autoResumed <=> r.autoResumed /\ kind # "human"
<1> DEFINE wait == kind = "wait"
           again == r.autoResumed /\ kind # "human"
           tried == IF kind \in Replays THEN r.tried ELSE {}
<1>1. /\ Accept(r, kind).status = "working"
      /\ Accept(r, kind).provider = r.provider /\ Accept(r, kind).runQueue = r.runQueue
      /\ Accept(r, kind).trashed = r.trashed
      /\ Accept(r, kind).tried = tried
      /\ Accept(r, kind).quotaWaitResumed = wait /\ Accept(r, kind).autoResumed = again
  BY DEF Accept, Row
<1>2. wait \in BOOLEAN /\ again \in BOOLEAN /\ tried \in SUBSET Providers
  BY DEF Row
<1>3. ASSUME NEW a \in BOOLEAN, NEW w \in BOOLEAN, NEW T \in SUBSET Providers
      PROVE  [r EXCEPT !.status = "working", !.interrupted = FALSE, !.autoResumed = a,
                       !.quotaWaitResumed = w, !.switching = FALSE, !.tried = T] \in Row
  BY DEF Row
<1>4. Accept(r, kind) \in Row
  <2>1. Accept(r, kind) = [r EXCEPT !.status = "working", !.interrupted = FALSE, !.autoResumed = again,
                       !.quotaWaitResumed = wait, !.switching = FALSE, !.tried = tried]
    BY DEF Accept
  <2> HIDE DEF wait, again, tried
  <2> QED
    BY <1>2, <1>3, <2>1
<1> QED
  BY <1>1, <1>4

LEMMA EnqueueFields ==
    ASSUME NEW r \in Row, NEW kind \in Kinds
    PROVE  LET q == EnqueueRun(r, kind) IN
           /\ q \in Row
           /\ q.status = r.status /\ q.provider = r.provider /\ q.tried = r.tried
           /\ q.quotaWaitResumed = r.quotaWaitResumed /\ q.trashed = r.trashed
           /\ q.autoResumed = r.autoResumed
           /\ q.runQueue = (IF r.runQueue = NoInput THEN kind ELSE r.runQueue)
BY DEF EnqueueRun, Row, Kinds

\* The three outcomes of a start.
Refused(r, by, t) ==
    /\ row' \in Row /\ SameTurn(row', r)
    /\ by \in {"send", "banner", "notice"} /\ live => row' = r
    /\ by \in {"wake", "failover", "admit"} \/ (by = "notice" /\ ~live) => row'.status = "failed"
    /\ timer' = t \/ (~live /\ timer' = "none")
    /\ UNCHANGED <<live, wakes, hops, resumes>>

Queued(r, by, kind) ==
    /\ ~live /\ by # "admit" /\ timer' = "none"
    /\ row' = EnqueueRun(r, kind)
    /\ UNCHANGED <<live, wakes, hops, resumes>>

Accepted(r, by, kind) ==
    /\ ~live /\ ~r.trashed /\ (by = "admit" \/ r.runQueue = NoInput)
    /\ timer' = "none" /\ live' = TRUE
    /\ row' = Accept(r, kind)
    /\ Counted(kind)

LEMMA BeginOutcomes ==
    ASSUME NEW r \in Row, NEW by \in Callers, NEW kind, NEW t, Begin(r, by, kind, t)
    PROVE  Refused(r, by, t) \/ Queued(r, by, kind) \/ Accepted(r, by, kind)
<1>1. CASE live \/ r.trashed
  <2>1. row' = Thrown(r, by) /\ timer' = t /\ UNCHANGED <<live, wakes, hops, resumes>>
    BY <1>1 DEF Begin, history
  <2> QED
    BY <2>1, ThrownFields DEF Refused
<1>2. CASE ~live /\ ~r.trashed
  <2>1. ASSUME NEW s \in {r.status, "failed"}, row' = Thrown([r EXCEPT !.status = s], by),
               timer' = "none", UNCHANGED <<live, history>>
        PROVE  Refused(r, by, t)
    <3>1. [r EXCEPT !.status = s] \in Row /\ SameTurn([r EXCEPT !.status = s], r)
      BY DEF Row, SameTurn
    <3> DEFINE q == [r EXCEPT !.status = s]
    <3> HIDE DEF q
    <3>2. row' \in Row /\ SameTurn(row', q) /\ SameTurn(q, r) /\ q.status \in {r.status, "failed"}
      BY <2>1, <3>1, ThrownFields DEF q, Row
    <3>3. by \in {"wake", "failover", "admit"} \/ (by = "notice" /\ ~live) => row'.status = "failed"
      BY <2>1, <3>1, ThrownFields
    <3>4. SameTurn(row', r)
      BY <3>2 DEF SameTurn
    <3> QED
      BY <1>2, <2>1, <3>2, <3>3, <3>4 DEF Refused, history
  <2> QED
    BY <1>2, <2>1 DEF Begin, Queued, Accepted, history
<1> QED
  BY <1>1, <1>2

-----------------------------------------------------------------------------
(* The inductive invariant.                                                *)

\* The process is too young to have started anything since its boot.
Early == ~pathReady \/ held # <<>>

\* A run is alone, and its row works unless a refused start has failed it.  A
\* queued failover has had its run: its timer went when the run was accepted.
RunInv ==
    live => /\ timer = "none" /\ ~row.trashed /\ pathReady
            /\ row.status \in {"working", "failed"} /\ row.runQueue # "failover"

\* What waits for the PATH: no failover timer is armed before the first run of
\* a process, and before the first restart there is nothing to replay.
HeldInv ==
    /\ \A e \in Entries(held) :
          /\ e.by # "failover"
          /\ e.by = "admit" => row.runQueue # "failover"
          /\ e.by = "send" => e.kind = "human"
          /\ e.by = "notice" => e.kind = "notice"
          /\ e.by \in {"wake", "banner"} => e.kind = "wait"
    /\ Early => timer # "failover"
    /\ Early /\ restarts = 0 => /\ ~Parked /\ row.runQueue \notin Replays /\ timer = "none"
                                /\ \A e \in Entries(held) : e.kind \notin Replays

\* A resume that was counted is marked in memory and on disk.
ResumeInv == resumes \in {0, 1} /\ (resumes = 1 => row.autoResumed /\ disk.autoResumed)

\* A failover that is due has tried a provider of the chain, also the one that
\* the disk would bring back.
SomeTried(r) == \E i \in DOMAIN Chain : Chain[i] \in r.tried

TriedInv ==
    /\ timer = "failover" \/ row.runQueue = "failover" => SomeTried(row)
    /\ disk.runQueue = "failover" => SomeTried(disk)

\* The providers of the chain that the turn has not tried.
Ahead(r) == {i \in DOMAIN Chain : Chain[i] \notin r.tried}
HopDue == timer = "failover" \/ row.runQueue = "failover"
          \/ (~live /\ \E e \in Entries(held) : e.kind = "failover")
Budget == Len(Chain) * (1 + restarts)
One(b) == IF b THEN 1 ELSE 0

\* The hops, the one that is due and the providers ahead stay in the budget.
HopsInv == hops + One(HopDue) + Cardinality(Ahead(row)) <= Budget

\* A wake is due while the thread is parked or a wake waits in the queue; a
\* switch is due until its run begins.
Slack == 1 + edits + 3 * restarts
WakeDue == Parked \/ row.runQueue = "wait"
SwitchDue == timer = "failover" \/ row.runQueue = "failover"

\* Whether the run that is live, or the next one, may park the thread again.
WaitQueued == row.runQueue = "wait"
RunMayPark == ~row.quotaWaitResumed \/ Untried(row) # {}
NextMayPark == SwitchDue \/ (WakeDue /\ Untried(row) # {})

\* The wakes and those that may still come stay in the slack; a new process
\* has the three wakes that its restart put aside.
WakesInv ==
    /\ live => wakes + One(RunMayPark) + One(WaitQueued) <= Slack
    /\ ~live /\ Early /\ restarts = 0 => wakes = 0
    /\ ~live /\ Early /\ restarts # 0 => wakes + 3 <= Slack
    /\ ~live /\ ~Early => wakes + One(NextMayPark) + One(WakeDue) <= Slack

\* The resume after a restart begins when the PATH is there.
PathInv == resuming # "boot" => pathReady

\* The inductive invariant.
IInv == TypeOK /\ PathInv /\ RunInv /\ HeldInv /\ ResumeInv /\ TriedInv /\ HopsInv /\ WakesInv

-----------------------------------------------------------------------------
(* Counting.                                                               *)

LEMMA OneFacts ==
    ASSUME NEW b, NEW c, b => c
    PROVE  One(b) \in {0, 1} /\ One(c) \in {0, 1} /\ One(b) <= One(c) /\ (~b => One(b) = 0) /\ (c => One(c) = 1)
BY DEF One

LEMMA OneTypes ==
    /\ One(RunMayPark) \in {0, 1} /\ One(WaitQueued) \in {0, 1}
    /\ One(NextMayPark) \in {0, 1} /\ One(WakeDue) \in {0, 1}
    /\ One(RunMayPark') \in {0, 1} /\ One(WaitQueued') \in {0, 1}
    /\ One(NextMayPark') \in {0, 1} /\ One(WakeDue') \in {0, 1}
BY DEF One

LEMMA ChainFacts ==
    /\ Len(Chain) \in Nat /\ DOMAIN Chain = 1..Len(Chain)
    /\ \A i \in DOMAIN Chain : Chain[i] \in Providers
BY ChainAssumption, LenProperties, ElementOfSeq

LEMMA AheadSize ==
    ASSUME NEW r
    PROVE  /\ IsFiniteSet(Ahead(r)) /\ Cardinality(Ahead(r)) \in Nat
           /\ Cardinality(Ahead(r)) <= Len(Chain)
           /\ SomeTried(r) => Cardinality(Ahead(r)) + 1 <= Len(Chain)
<1>1. IsFiniteSet(DOMAIN Chain) /\ Cardinality(DOMAIN Chain) = Len(Chain) /\ Len(Chain) \in Nat
  BY ChainFacts, FS_Interval
<1>2. Ahead(r) \subseteq DOMAIN Chain
  BY DEF Ahead
<1>3. /\ IsFiniteSet(Ahead(r)) /\ Cardinality(Ahead(r)) \in Nat
      /\ Cardinality(Ahead(r)) <= Len(Chain)
      /\ Cardinality(Ahead(r)) = Len(Chain) => Ahead(r) = DOMAIN Chain
  BY <1>1, <1>2, FS_Subset, FS_CardinalityType
<1>4. SomeTried(r) => Ahead(r) # DOMAIN Chain
  BY DEF SomeTried, Ahead
<1> QED
  BY <1>1, <1>3, <1>4

\* A provider of the chain that is tried for the first time.
LEMMA AheadShrinks ==
    ASSUME NEW q, NEW r, NEW i \in Ahead(r), Chain[i] \in q.tried, r.tried \subseteq q.tried
    PROVE  Cardinality(Ahead(q)) + 1 <= Cardinality(Ahead(r))
<1>1. Ahead(q) \subseteq Ahead(r) /\ i \in Ahead(r) /\ i \notin Ahead(q)
  BY DEF Ahead
<1>2. /\ IsFiniteSet(Ahead(r)) /\ Cardinality(Ahead(r)) \in Nat /\ Cardinality(Ahead(q)) \in Nat
  BY AheadSize
<1>3. /\ Cardinality(Ahead(q)) <= Cardinality(Ahead(r))
      /\ Cardinality(Ahead(q)) = Cardinality(Ahead(r)) => Ahead(q) = Ahead(r)
  BY <1>1, <1>2, FS_Subset
<1> QED
  BY <1>1, <1>2, <1>3

LEMMA SameAhead ==
    ASSUME NEW q, NEW r, q.tried = r.tried
    PROVE  /\ Ahead(q) = Ahead(r) /\ (SomeTried(q) <=> SomeTried(r))
           /\ q.provider = r.provider => Untried(q) = Untried(r)
BY DEF Ahead, SomeTried, Untried

LEMMA BudgetFacts ==
    ASSUME restarts \in Nat
    PROVE  Budget \in Nat /\ Budget >= Len(Chain) /\ Len(Chain) \in Nat
<1>1. Len(Chain) \in Nat
  BY ChainFacts
<1>2. \A n, m \in Nat : n * m \in Nat
  OBVIOUS
<1>3. Len(Chain) * (1 + restarts) = Len(Chain) + Len(Chain) * restarts
  BY <1>1
<1> QED
  BY <1>1, <1>2, <1>3 DEF Budget

-----------------------------------------------------------------------------
(* Starts keep the invariant.                                              *)

\* What a caller of startRun guarantees when the PATH is there: the row is the
\* thread's, but for a queue entry that the admission has taken; a replay
\* begins only where one is due; and of the starts that waited the first one
\* is on.
Starting(r, by, kind, t) ==
    /\ by \in Callers /\ kind \in Kinds /\ t \in {timer, "none"}
    /\ pathReady /\ pathReady'
    /\ r \in Row
    /\ r.status = row.status /\ r.provider = row.provider /\ r.tried = row.tried
    /\ r.quotaWaitResumed = row.quotaWaitResumed /\ r.autoResumed = row.autoResumed
    /\ r.trashed = row.trashed
    /\ r.runQueue = row.runQueue \/ (by = "admit" /\ r.runQueue = NoInput)
    /\ by = "admit" => r.runQueue # "failover"
    /\ by = "send" => kind = "human"
    /\ by = "notice" => kind = "notice"
    /\ by \in {"wake", "banner"} => kind = "wait"
    /\ by = "failover" => kind = "failover" /\ held = <<>> /\ timer = "failover"
    /\ \/ /\ held = <<>> /\ held' = <<>>
          /\ by = "admit" => r.runQueue = NoInput
          /\ kind = "wait" => WakeDue
          /\ kind = "failover" => SwitchDue
       \/ /\ held # <<>> /\ held' = Tail(held) /\ r = row
          /\ Head(held) = [by |-> by, kind |-> kind]
    /\ UNCHANGED <<disk, edits, restarts>>

LEMMA StartingHeld ==
    ASSUME TypeOK, NEW r, NEW by, NEW kind, NEW t, Starting(r, by, kind, t)
    PROVE  /\ Entries(held') \subseteq Entries(held)
           /\ held = <<>> => Entries(held) = {} /\ held' = <<>>
           /\ held # <<>> => [by |-> by, kind |-> kind] \in Entries(held)
           /\ held' # <<>> => held # <<>>
           /\ held' \in Seq(Start) /\ Len(held') <= Len(held)
<1>1. CASE held = <<>>
  BY <1>1, EntriesEmpty DEF Starting
<1>2. CASE held # <<>>
  <2>1. held \in Seq(Start) /\ held' = Tail(held) /\ Head(held) = [by |-> by, kind |-> kind]
    BY <1>2 DEF Starting, TypeOK, Start
  <2> QED
    BY <1>2, <2>1, EntriesTail
<1> QED
  BY <1>1, <1>2

LEMMA BeginRun ==
    ASSUME IInv, NEW r, NEW by, NEW kind, NEW t, Starting(r, by, kind, t), Begin(r, by, kind, t)
    PROVE  RunInv'
<1>1. Refused(r, by, t) \/ Queued(r, by, kind) \/ Accepted(r, by, kind)
  BY BeginOutcomes DEF Starting
<1>2. CASE Refused(r, by, t)
  BY <1>2 DEF Refused, SameTurn, IInv, RunInv, Starting
<1>3. CASE Queued(r, by, kind)
  BY <1>3 DEF Queued, RunInv
<1>4. CASE Accepted(r, by, kind)
  BY <1>4, AcceptFields, NoInputAssumption DEF Accepted, RunInv, Starting, Kinds
<1> QED
  BY <1>1, <1>2, <1>3, <1>4

LEMMA BeginHeld ==
    ASSUME IInv, NEW r, NEW by, NEW kind, NEW t, Starting(r, by, kind, t), Begin(r, by, kind, t)
    PROVE  HeldInv'
<1>1. Refused(r, by, t) \/ Queued(r, by, kind) \/ Accepted(r, by, kind)
  BY BeginOutcomes DEF Starting
<1>2. /\ Entries(held') \subseteq Entries(held)
      /\ held = <<>> => Entries(held) = {} /\ held' = <<>>
      /\ held # <<>> => [by |-> by, kind |-> kind] \in Entries(held)
      /\ held' # <<>> => held # <<>>
  BY StartingHeld DEF IInv
<1>3. /\ Early' => Early /\ held # <<>> /\ r = row
      /\ Early /\ held # <<>> => kind \notin Replays \/ restarts # 0
      /\ by # "admit" /\ held # <<>> => kind # "failover"
      /\ timer' \in {t, "none"}
  <2>1. timer' \in {t, "none"}
    BY <1>1 DEF Refused, Queued, Accepted
  <2>2. held # <<>> => ([by |-> by, kind |-> kind]).kind = kind /\ ([by |-> by, kind |-> kind]).by = by
    OBVIOUS
  <2> QED
    BY <1>2, <2>1, <2>2 DEF Early, Starting, IInv, HeldInv, Callers
<1>4. CASE Refused(r, by, t)
  BY <1>2, <1>3, <1>4 DEF Refused, SameTurn, IInv, HeldInv, Starting, Parked, Replays
<1>5. CASE Queued(r, by, kind)
  BY <1>2, <1>3, <1>5, EnqueueFields DEF Queued, IInv, HeldInv, Starting, Parked, Replays
<1>6. CASE Accepted(r, by, kind)
  BY <1>2, <1>3, <1>6, AcceptFields DEF Accepted, IInv, HeldInv, Starting, Parked, Replays
<1> QED
  BY <1>1, <1>4, <1>5, <1>6

LEMMA BeginResume ==
    ASSUME IInv, NEW r, NEW by, NEW kind, NEW t, Starting(r, by, kind, t), Begin(r, by, kind, t)
    PROVE  ResumeInv'
<1>1. Refused(r, by, t) \/ Queued(r, by, kind) \/ Accepted(r, by, kind)
  BY BeginOutcomes DEF Starting
<1>2. CASE Refused(r, by, t)
  BY <1>2 DEF Refused, SameTurn, IInv, ResumeInv, Starting
<1>3. CASE Queued(r, by, kind)
  BY <1>3, EnqueueFields DEF Queued, IInv, ResumeInv, Starting
<1>4. CASE Accepted(r, by, kind)
  BY <1>4, AcceptFields DEF Accepted, Counted, IInv, ResumeInv, Starting
<1> QED
  BY <1>1, <1>2, <1>3, <1>4

LEMMA BeginTried ==
    ASSUME IInv, NEW r, NEW by, NEW kind, NEW t, Starting(r, by, kind, t), Begin(r, by, kind, t)
    PROVE  TriedInv'
<1>1. Refused(r, by, t) \/ Queued(r, by, kind) \/ Accepted(r, by, kind)
  BY BeginOutcomes DEF Starting
<1>2. kind = "failover" /\ by # "admit" /\ held = <<>> => timer = "failover" \/ row.runQueue = "failover"
  BY DEF Starting, SwitchDue
<1>3. kind = "failover" /\ by # "admit" => held = <<>>
  BY DEF Starting, Callers
<1>4. CASE Refused(r, by, t)
  BY <1>4, NoInputAssumption DEF Refused, SameTurn, IInv, TriedInv, Starting, SomeTried, Kinds
<1>5. CASE Queued(r, by, kind)
  BY <1>2, <1>3, <1>5, EnqueueFields, NoInputAssumption
     DEF Queued, IInv, TriedInv, Starting, SomeTried, Kinds
<1>6. CASE Accepted(r, by, kind)
  <2>1. timer' = "none" /\ row'.runQueue # "failover"
    BY <1>6, AcceptFields, NoInputAssumption DEF Accepted, Starting, Kinds
  <2> QED
    BY <2>1 DEF IInv, TriedInv, Starting, SomeTried
<1> QED
  BY <1>1, <1>4, <1>5, <1>6

LEMMA BeginHops ==
    ASSUME IInv, NEW r, NEW by, NEW kind, NEW t, Starting(r, by, kind, t), Begin(r, by, kind, t)
    PROVE  HopsInv'
<1>1. Refused(r, by, t) \/ Queued(r, by, kind) \/ Accepted(r, by, kind)
  BY BeginOutcomes DEF Starting
<1>2. /\ Entries(held') \subseteq Entries(held)
      /\ held # <<>> => [by |-> by, kind |-> kind] \in Entries(held)
  BY StartingHeld DEF IInv
<1>3. /\ Budget' = Budget /\ Budget \in Nat /\ Len(Chain) \in Nat /\ Budget >= Len(Chain)
      /\ hops \in Nat
      /\ hops + One(HopDue) + Cardinality(Ahead(row)) <= Budget
      /\ \A q : Cardinality(Ahead(q)) \in Nat /\ Cardinality(Ahead(q)) <= Len(Chain)
  BY BudgetFacts, AheadSize DEF Starting, Budget, IInv, HopsInv, TypeOK
<1>4. kind = "failover" /\ ~live => HopDue
  <2>1. held # <<>> => ([by |-> by, kind |-> kind]).kind = kind
    OBVIOUS
  <2> QED
    BY <1>2, <2>1 DEF Starting, HopDue, SwitchDue
<1>5. CASE Refused(r, by, t)
  <2>1. HopDue' => HopDue
    BY <1>2, <1>5, NoInputAssumption DEF Refused, SameTurn, HopDue, Starting, Kinds
  <2>2. Ahead(row') = Ahead(row)
    BY <1>5, SameAhead DEF Refused, SameTurn, Starting
  <2> QED
    BY <1>3, <1>5, <2>1, <2>2 DEF HopsInv, One, Refused
<1>6. CASE Queued(r, by, kind)
  <2>1. HopDue' => HopDue
    BY <1>2, <1>4, <1>6, EnqueueFields, NoInputAssumption DEF Queued, HopDue, Starting, Kinds
  <2>2. Ahead(row') = Ahead(row)
    BY <1>6, SameAhead, EnqueueFields DEF Queued, Starting
  <2> QED
    BY <1>3, <1>6, <2>1, <2>2 DEF HopsInv, One, Queued
<1>7. CASE Accepted(r, by, kind)
  <2>1. ~HopDue'
    BY <1>7, AcceptFields, NoInputAssumption DEF Accepted, HopDue, Starting, Kinds
  <2>2. CASE kind \in Replays
    <3>1. Ahead(row') = Ahead(row)
      BY <1>7, <2>2, SameAhead, AcceptFields DEF Accepted, Starting
    <3>2. (kind = "wait" /\ hops' = hops) \/ (kind = "failover" /\ hops' = hops + 1)
      BY <1>7, <2>2 DEF Accepted, Counted, Replays
    <3>3. kind = "failover" => HopDue
      BY <1>4, <1>7 DEF Accepted
    <3> QED
      BY <1>3, <2>1, <3>1, <3>2, <3>3 DEF HopsInv, One
  <2>3. CASE kind \notin Replays
    <3>1. hops' = 0
      BY <1>7, <2>3 DEF Accepted, Counted, Replays
    <3> QED
      BY <1>3, <2>1, <3>1 DEF HopsInv, One
  <2> QED
    BY <2>2, <2>3
<1> QED
  BY <1>1, <1>5, <1>6, <1>7

LEMMA BeginWakes ==
    ASSUME IInv, NEW r, NEW by, NEW kind, NEW t, Starting(r, by, kind, t), Begin(r, by, kind, t)
    PROVE  WakesInv'
<1>1. Refused(r, by, t) \/ Queued(r, by, kind) \/ Accepted(r, by, kind)
  BY BeginOutcomes DEF Starting
<1>2. /\ Entries(held') \subseteq Entries(held)
      /\ held = <<>> => Entries(held) = {} /\ held' = <<>>
      /\ held # <<>> => [by |-> by, kind |-> kind] \in Entries(held)
      /\ held' # <<>> => held # <<>>
  BY StartingHeld DEF IInv
<1>3. /\ Slack' = Slack /\ wakes \in Nat /\ edits \in Nat /\ restarts \in Nat
      /\ restarts' = restarts
  BY DEF Starting, Slack, IInv, TypeOK
<1>4. /\ Early <=> held # <<>>
      /\ Early' <=> held' # <<>>
      /\ Early' => Early
      /\ Early => r = row
  BY <1>2 DEF Early, Starting
<1>5. held # <<>> /\ restarts = 0 => /\ kind \notin Replays /\ ~Parked /\ row.runQueue \notin Replays
                                     /\ timer = "none"
  <2>1. held # <<>> => ([by |-> by, kind |-> kind]).kind = kind
    OBVIOUS
  <2> QED
    BY <1>2, <1>4, <2>1 DEF IInv, HeldInv
<1>6. held = <<>> => (kind = "wait" => WakeDue) /\ (kind = "failover" => SwitchDue)
  BY DEF Starting
<1>7. CASE Refused(r, by, t)
  <2>1. Untried(row') = Untried(row)
    BY <1>7, SameAhead DEF Refused, SameTurn, Starting
  <2>2. /\ live' = live /\ wakes' = wakes
        /\ row'.quotaWaitResumed \/ ~row.quotaWaitResumed
        /\ row'.runQueue \in {row.runQueue, NoInput}
        /\ Parked' => Parked
        /\ timer' \in {timer, "none"}
    BY <1>7 DEF Refused, SameTurn, Starting, Parked
  <2>3. (WakeDue' => WakeDue) /\ (SwitchDue' => SwitchDue)
    BY <2>2, NoInputAssumption DEF WakeDue, SwitchDue, Kinds
  <2>4. CASE live
    <3>1. (RunMayPark' => RunMayPark) /\ (WaitQueued' => WaitQueued)
      BY <2>1, <2>2, NoInputAssumption DEF RunMayPark, WaitQueued, Kinds
    <3>2. One(RunMayPark') <= One(RunMayPark) /\ One(WaitQueued') <= One(WaitQueued)
      BY <3>1, OneFacts
    <3>3. wakes + One(RunMayPark) + One(WaitQueued) <= Slack
      BY <2>4 DEF IInv, WakesInv
    <3> QED
      BY <1>3, <2>2, <2>4, <3>2, <3>3, OneTypes DEF WakesInv, Slack
  <2>5. CASE ~live /\ Early
    <3>1. restarts = 0 => ~WakeDue' /\ ~SwitchDue'
      BY <1>4, <1>5, <2>3, <2>5 DEF WakeDue, SwitchDue, Replays
    <3>2. restarts = 0 => One(NextMayPark') = 0 /\ One(WakeDue') = 0
      BY <3>1 DEF NextMayPark, One
    <3> QED
      BY <1>3, <1>4, <2>2, <2>5, <3>2, OneTypes DEF IInv, WakesInv, Slack
  <2>6. CASE ~live /\ ~Early
    <3>1. (NextMayPark' => NextMayPark) /\ (WakeDue' => WakeDue)
      BY <2>1, <2>3 DEF NextMayPark
    <3>2. One(NextMayPark') <= One(NextMayPark) /\ One(WakeDue') <= One(WakeDue)
      BY <3>1, OneFacts
    <3> QED
      BY <1>3, <1>4, <2>2, <2>6, <3>2, OneTypes DEF IInv, WakesInv, Slack
  <2> QED
    BY <2>4, <2>5, <2>6
<1>8. CASE Queued(r, by, kind)
  <2>1. Untried(row') = Untried(row)
    BY <1>8, SameAhead, EnqueueFields DEF Queued, Starting
  <2>2. /\ ~live /\ live' = live /\ wakes' = wakes /\ timer' = "none" /\ by # "admit"
        /\ row'.runQueue = IF row.runQueue = NoInput THEN kind ELSE row.runQueue
        /\ Parked' <=> Parked
    BY <1>8, EnqueueFields DEF Queued, Starting, Parked
  <2>3. CASE Early
    <3>1. restarts = 0 => ~WakeDue' /\ ~SwitchDue'
      BY <1>4, <1>5, <2>2, <2>3 DEF WakeDue, SwitchDue, Replays
    <3>2. restarts = 0 => One(NextMayPark') = 0 /\ One(WakeDue') = 0
      BY <3>1 DEF NextMayPark, One
    <3> QED
      BY <1>3, <1>4, <2>2, <2>3, <3>2, OneTypes DEF IInv, WakesInv, Slack
  <2>4. CASE ~Early
    <3>1. (WakeDue' => WakeDue) /\ (SwitchDue' => SwitchDue)
      BY <1>4, <1>6, <2>2, <2>4 DEF WakeDue, SwitchDue
    <3>2. NextMayPark' => NextMayPark
      BY <2>1, <3>1 DEF NextMayPark
    <3>3. One(NextMayPark') <= One(NextMayPark) /\ One(WakeDue') <= One(WakeDue)
      BY <3>1, <3>2, OneFacts
    <3> QED
      BY <1>3, <1>4, <2>2, <2>4, <3>3, OneTypes DEF IInv, WakesInv, Slack
  <2> QED
    BY <2>3, <2>4
<1>9. CASE Accepted(r, by, kind)
  <2>1. /\ ~live /\ live' = TRUE
        /\ row'.runQueue \in {row.runQueue, NoInput}
        /\ row'.quotaWaitResumed <=> kind = "wait"
        /\ held = <<>> => row'.runQueue = NoInput \/ by = "admit"
    BY <1>9, AcceptFields DEF Accepted, Starting
  <2>2. kind \in Replays => Untried(row') = Untried(row)
    BY <1>9, SameAhead, AcceptFields DEF Accepted, Starting
  <2>3. wakes' = IF kind = "wait" THEN wakes + 1 ELSE IF kind = "failover" THEN wakes ELSE 0
    BY <1>9 DEF Accepted, Counted
  <2>4. CASE Early
    <3>1. restarts = 0 => One(WaitQueued') = 0
      BY <1>4, <1>5, <2>1, <2>4, NoInputAssumption DEF WaitQueued, One, Replays, Kinds
    <3> QED
      BY <1>3, <1>4, <1>5, <2>1, <2>3, <2>4, <3>1, OneTypes DEF IInv, WakesInv, Slack, Replays
  <2>5. CASE ~Early
    <3>1. held = <<>>
      BY <1>4, <2>5
    <3>2. row'.runQueue = NoInput
      BY <1>9, <3>1, AcceptFields DEF Accepted, Starting
    <3>3. One(WaitQueued') = 0
      BY <3>2, NoInputAssumption DEF WaitQueued, One, Kinds
    <3>4. kind = "wait" => One(RunMayPark') <= One(NextMayPark) /\ One(WakeDue) = 1
      <4>1. kind = "wait" => WakeDue
        BY <1>6, <3>1
      <4>2. kind = "wait" => (RunMayPark' => NextMayPark)
        BY <2>1, <2>2, <4>1 DEF RunMayPark, NextMayPark, Replays
      <4>3. kind = "wait" => One(RunMayPark') <= One(NextMayPark)
        BY <4>2 DEF One
      <4>4. kind = "wait" => One(WakeDue) = 1
        BY <4>1 DEF One
      <4> QED
        BY <4>3, <4>4
    <3>5. kind = "failover" => One(NextMayPark) = 1
      BY <1>6, <3>1 DEF NextMayPark, One
    <3> QED
      BY <1>3, <1>4, <2>1, <2>3, <2>5, <3>3, <3>4, <3>5, OneTypes DEF IInv, WakesInv, Slack
  <2> QED
    BY <2>4, <2>5
<1> QED
  BY <1>1, <1>7, <1>8, <1>9

\* The variables that a start does not touch keep their types.
RestTyped ==
    /\ disk \in Row /\ full \in BOOLEAN /\ pathReady \in BOOLEAN
    /\ resuming \in {"boot", "queued", "over"} /\ PathInv
    /\ turns \in 0..MaxTurns /\ edits \in 0..MaxEdits /\ restarts \in 0..MaxRestarts

LEMMA BeginTypes ==
    ASSUME IInv, NEW r, NEW by, NEW kind, NEW t, Starting(r, by, kind, t), Begin(r, by, kind, t),
           RestTyped'
    PROVE  TypeOK'
<1>1. Refused(r, by, t) \/ Queued(r, by, kind) \/ Accepted(r, by, kind)
  BY BeginOutcomes DEF Starting
<1>2. held' \in Seq([by : Callers, kind : Kinds]) /\ Len(held') <= MaxHeld
  <2>1. held' \in Seq(Start) /\ Len(held') <= Len(held) /\ Len(held) <= MaxHeld
        /\ held \in Seq(Start)
    BY StartingHeld DEF IInv, TypeOK, Start
  <2>2. Len(held) \in Nat /\ Len(held') \in Nat /\ MaxHeld \in Nat
    BY <2>1, LenProperties, BoundsAssumption
  <2> QED
    BY <2>1, <2>2 DEF Start
<1>3. row' \in Row /\ (row'.status = "working" => live')
  <2>1. row.status = "working" => live
    BY DEF IInv, TypeOK
  <2>2. CASE Refused(r, by, t)
    BY <2>1, <2>2 DEF Refused, SameTurn, Starting
  <2>3. CASE Queued(r, by, kind)
    BY <2>1, <2>3, EnqueueFields DEF Queued, Starting
  <2>4. CASE Accepted(r, by, kind)
    BY <2>4, AcceptFields DEF Accepted, Starting
  <2> QED
    BY <1>1, <2>2, <2>3, <2>4
<1>4. live' \in BOOLEAN /\ timer' \in {"none", "wake", "failover"}
  BY <1>1 DEF Refused, Queued, Accepted, Starting, IInv, TypeOK
<1>5. wakes' \in Nat /\ hops' \in Nat /\ resumes' \in Nat
  <2>1. wakes \in Nat /\ hops \in Nat /\ resumes \in Nat
    BY DEF IInv, TypeOK
  <2> QED
    BY <1>1, <2>1 DEF Refused, Queued, Accepted, Counted
<1> QED
  BY <1>2, <1>3, <1>4, <1>5 DEF RestTyped, TypeOK

LEMMA BeginKeeps ==
    ASSUME IInv, NEW r, NEW by, NEW kind, NEW t, Starting(r, by, kind, t), Begin(r, by, kind, t),
           RestTyped'
    PROVE  IInv'
BY BeginTypes, BeginRun, BeginHeld, BeginResume, BeginTried, BeginHops, BeginWakes DEF IInv, RestTyped

\* A caller of startRun: a timer, the admission, a notice or a user, while no
\* continuation of an earlier start is pending and no run is live.
Calling(r, by, kind, t) ==
    /\ by \in Callers /\ kind \in Kinds /\ t \in {timer, "none"}
    /\ Turn /\ ~live
    /\ r \in Row
    /\ r.status = row.status /\ r.provider = row.provider /\ r.tried = row.tried
    /\ r.quotaWaitResumed = row.quotaWaitResumed /\ r.autoResumed = row.autoResumed
    /\ r.trashed = row.trashed
    /\ IF by = "admit" THEN r.runQueue = NoInput ELSE r = row
    /\ by = "send" => kind = "human"
    /\ by = "notice" => kind = "notice"
    /\ by \in {"wake", "banner"} => kind = "wait"
    /\ by = "failover" => kind = "failover" /\ timer = "failover"
    /\ kind = "wait" => WakeDue
    /\ kind = "failover" => SwitchDue
    /\ UNCHANGED <<disk, pathReady, edits, restarts>>

\* A start that has to wait for the PATH of the login shell.
LEMMA WaitKeeps ==
    ASSUME IInv, NEW r, NEW by, NEW kind, NEW t, Calling(r, by, kind, t), ~pathReady,
           StartRun(r, by, kind, t), RestTyped'
    PROVE  IInv'
<1> DEFINE e == [by |-> by, kind |-> kind]
<1>1. /\ Len(held) < MaxHeld /\ held' = Append(held, e)
      /\ row' = r /\ timer' = t /\ live' = live
      /\ wakes' = wakes /\ hops' = hops /\ resumes' = resumes
  BY DEF StartRun, history
<1>2. held \in Seq(Start) /\ e \in Start /\ Len(held) \in Nat /\ MaxHeld \in Nat
  BY BoundsAssumption, LenProperties DEF IInv, TypeOK, Start, Calling
<1>3. /\ held' \in Seq(Start) /\ Len(held') <= MaxHeld
      /\ Entries(held') = Entries(held) \cup {e}
      /\ e.by = by /\ e.kind = kind
  BY <1>1, <1>2, EntriesAppend
<1>5. Early /\ Early' /\ ~live /\ ~live' /\ by # "failover"
  BY <1>1 DEF Early, Calling, IInv, HeldInv
<1>6. /\ r.runQueue = row.runQueue \/ (by = "admit" /\ r.runQueue = NoInput)
      /\ r.status = row.status /\ r.tried = row.tried /\ r.autoResumed = row.autoResumed
      /\ t \in {timer, "none"}
  BY DEF Calling
<1>7. TypeOK'
  <2>1. row' \in Row /\ timer' \in {"none", "wake", "failover"} /\ live' \in BOOLEAN
        /\ (row'.status = "working" => live')
    BY <1>1, <1>6 DEF Calling, IInv, TypeOK
  <2> QED
    BY <1>1, <1>3, <2>1 DEF IInv, TypeOK, RestTyped, Start
<1>8. RunInv'
  BY <1>5 DEF RunInv
<1>9. HeldInv'
  <2>1. restarts' = restarts
    BY DEF Calling
  <2>2. restarts = 0 => kind \notin Replays
    BY <1>5 DEF IInv, HeldInv, Calling, WakeDue, SwitchDue, Replays
  <2>3. by = "admit" => row'.runQueue # "failover"
    BY <1>1, NoInputAssumption DEF Calling, Kinds
  <2>4. row'.runQueue \in {row.runQueue, NoInput} /\ NoInput \notin Kinds /\ Replays \subseteq Kinds
    BY <1>1, <1>6, NoInputAssumption DEF Kinds, Replays
  <2>5. \A x \in Entries(held') :
          /\ x.by # "failover"
          /\ x.by = "admit" => row'.runQueue # "failover"
          /\ x.by = "send" => x.kind = "human"
          /\ x.by = "notice" => x.kind = "notice"
          /\ x.by \in {"wake", "banner"} => x.kind = "wait"
    <3>1. ASSUME NEW x \in Entries(held)
          PROVE  /\ x.by # "failover"
                 /\ x.by = "admit" => row'.runQueue # "failover"
                 /\ x.by = "send" => x.kind = "human"
                 /\ x.by = "notice" => x.kind = "notice"
                 /\ x.by \in {"wake", "banner"} => x.kind = "wait"
      BY <2>4, NoInputAssumption DEF IInv, HeldInv, Kinds
    <3> HIDE DEF e
    <3> QED
      BY <1>3, <1>5, <2>3, <3>1 DEF Calling
  <2>6. timer' # "failover"
    BY <1>1, <1>5, <1>6 DEF IInv, HeldInv
  <2>7. restarts' = 0 => /\ ~Parked' /\ row'.runQueue \notin Replays /\ timer' = "none"
                         /\ \A x \in Entries(held') : x.kind \notin Replays
    BY <1>1, <1>3, <1>5, <1>6, <2>1, <2>2, <2>4 DEF IInv, HeldInv, Parked
  <2> QED
    BY <2>5, <2>6, <2>7 DEF HeldInv
<1>10. ResumeInv'
  BY <1>1, <1>6 DEF IInv, ResumeInv, Calling
<1>11. TriedInv'
  BY <1>1, <1>6, NoInputAssumption DEF IInv, TriedInv, SomeTried, Calling, Kinds
<1>12. HopsInv'
  <2>1. HopDue' => HopDue
    BY <1>1, <1>3, <1>5, <1>6, NoInputAssumption DEF HopDue, Calling, SwitchDue, Kinds
  <2>2. Ahead(row') = Ahead(row) /\ Budget' = Budget
    BY <1>1, <1>6, SameAhead DEF Calling, Budget
  <2>3. /\ Budget \in Nat /\ hops \in Nat /\ Cardinality(Ahead(row)) \in Nat
        /\ hops + One(HopDue) + Cardinality(Ahead(row)) <= Budget
    BY BudgetFacts, AheadSize DEF IInv, HopsInv, TypeOK
  <2> QED
    BY <1>1, <2>1, <2>2, <2>3 DEF HopsInv, One
<1>13. WakesInv'
  BY <1>1, <1>5 DEF IInv, WakesInv, Slack, Calling
<1> QED
  BY <1>7, <1>8, <1>9, <1>10, <1>11, <1>12, <1>13 DEF IInv, RestTyped

LEMMA StartRunKeeps ==
    ASSUME IInv, NEW r, NEW by, NEW kind, NEW t, Calling(r, by, kind, t),
           StartRun(r, by, kind, t), RestTyped'
    PROVE  IInv'
<1>1. CASE pathReady
  <2>1. Begin(r, by, kind, t) /\ held' = held /\ held = <<>>
    BY <1>1 DEF StartRun, Calling, Turn
  <2>2. Starting(r, by, kind, t)
    BY <1>1, <2>1, NoInputAssumption DEF Starting, Calling, Kinds
  <2> QED
    BY <2>1, <2>2, BeginKeeps
<1>2. CASE ~pathReady
  BY <1>2, WaitKeeps
<1> QED
  BY <1>1, <1>2

-----------------------------------------------------------------------------
(* The other steps keep it.                                                *)

\* A step that starts nothing, ends nothing and restarts nothing: the row keeps
\* its turn, a queued start may leave, a park may end and the timer may be
\* refreshed.
Calm ==
    /\ row' \in Row
    /\ row'.provider = row.provider /\ row'.tried = row.tried
    /\ row'.quotaWaitResumed = row.quotaWaitResumed
    /\ row'.runQueue \in {row.runQueue, NoInput}
    /\ row.autoResumed => row'.autoResumed
    /\ row'.status # row.status => ~live /\ row'.status = "idle"
    /\ live => ~row'.trashed
    /\ timer' \in {timer, "none", Refreshed(row')}
    /\ disk' = disk \/ disk' = row'
    /\ UNCHANGED <<live, held, pathReady, restarts, wakes, hops>>
    /\ edits' >= edits

LEMMA CalmKeeps ==
    ASSUME IInv, Calm, RestTyped',
           resumes' = resumes \/ (resumes = 0 /\ resumes' = 1 /\ row'.autoResumed /\ disk' = row')
    PROVE  IInv'
<1>1. Parked' => Parked
  BY DEF Calm, Parked
<1>2. /\ timer' \in {timer, "none"} \/ (timer' = "wake" /\ Parked')
      /\ timer' \in {"none", "wake", "failover"}
      /\ timer' = "failover" => timer = "failover"
  BY DEF Calm, Refreshed, Parked, IInv, TypeOK
<1>3. row'.runQueue \in {row.runQueue, NoInput} /\ NoInput \notin Kinds
  BY NoInputAssumption DEF Calm
<1>4. (Early' <=> Early) /\ restarts' = restarts /\ Entries(held') = Entries(held)
  BY DEF Calm, Early
<1>5. TypeOK'
  BY <1>2 DEF Calm, RestTyped, IInv, TypeOK
<1>6. RunInv'
  BY <1>2, <1>3 DEF Calm, IInv, RunInv, Parked, Kinds
<1>7. HeldInv'
  <2>1. /\ row'.runQueue = "failover" => row.runQueue = "failover"
        /\ row'.runQueue \in Replays => row.runQueue \in Replays
    BY <1>3 DEF Kinds, Replays
  <2> QED
    BY <1>1, <1>2, <1>4, <2>1 DEF IInv, HeldInv
<1>8. ResumeInv'
  BY DEF Calm, IInv, ResumeInv
<1>9. TriedInv'
  BY <1>2, <1>3 DEF Calm, IInv, TriedInv, SomeTried, Kinds
<1>10. HopsInv'
  <2>1. HopDue' => HopDue
    BY <1>2, <1>3, <1>4 DEF HopDue, Calm, Kinds
  <2>2. Ahead(row') = Ahead(row) /\ Budget' = Budget
    BY SameAhead DEF Calm, Budget
  <2>3. /\ Budget \in Nat /\ hops \in Nat /\ Cardinality(Ahead(row)) \in Nat
        /\ hops + One(HopDue) + Cardinality(Ahead(row)) <= Budget /\ hops' = hops
    BY BudgetFacts, AheadSize DEF IInv, HopsInv, TypeOK, Calm
  <2> QED
    BY <2>1, <2>2, <2>3 DEF HopsInv, One
<1>11. WakesInv'
  <2>1. Untried(row') = Untried(row)
    BY SameAhead DEF Calm
  <2>2. (WakeDue' => WakeDue) /\ (SwitchDue' => SwitchDue) /\ (WaitQueued' => WaitQueued)
    BY <1>1, <1>2, <1>3 DEF WakeDue, SwitchDue, WaitQueued, Kinds
  <2>3. (NextMayPark' => NextMayPark) /\ (RunMayPark' => RunMayPark)
    BY <2>1, <2>2 DEF NextMayPark, RunMayPark, Calm
  <2>4. /\ One(NextMayPark') <= One(NextMayPark) /\ One(RunMayPark') <= One(RunMayPark)
        /\ One(WakeDue') <= One(WakeDue) /\ One(WaitQueued') <= One(WaitQueued)
    BY <2>2, <2>3 DEF One
  <2>5. /\ wakes' = wakes /\ wakes \in Nat /\ edits \in Nat /\ restarts \in Nat /\ edits' \in Nat
        /\ edits' >= edits /\ live' = live
    BY DEF Calm, IInv, TypeOK, RestTyped
  <2>6. Slack \in Nat /\ Slack' \in Nat /\ Slack <= Slack'
    <3>1. \A a, b, n \in Nat : b >= a => /\ 1 + a + 3 * n \in Nat /\ 1 + b + 3 * n \in Nat
                                         /\ 1 + a + 3 * n <= 1 + b + 3 * n
      OBVIOUS
    <3>2. Slack = 1 + edits + 3 * restarts /\ Slack' = 1 + edits' + 3 * restarts
      BY <1>4 DEF Slack
    <3> QED
      BY <2>5, <3>1, <3>2
  <2>7. CASE live
    <3>1. wakes + One(RunMayPark) + One(WaitQueued) <= Slack
      BY <2>7 DEF IInv, WakesInv
    <3> QED
      BY <2>4, <2>5, <2>6, <2>7, <3>1, OneTypes DEF WakesInv
  <2>8. CASE ~live
    BY <1>4, <2>4, <2>5, <2>6, <2>8, OneTypes DEF IInv, WakesInv
  <2> QED
    BY <2>7, <2>8
<1> QED
  BY <1>5, <1>6, <1>7, <1>8, <1>9, <1>10, <1>11 DEF IInv, RestTyped

\* The end of a run, but for a switch of the provider or a park.
LEMMA EndKeeps ==
    ASSUME IInv, Turn, live, ~live', row' \in Row, row'.status \in {"idle", "done", "failed"},
           row'.provider = row.provider, row'.tried = row.tried,
           row'.quotaWaitResumed = row.quotaWaitResumed, row'.runQueue = row.runQueue,
           row'.autoResumed = row.autoResumed, RestTyped', live' \in BOOLEAN,
           UNCHANGED <<disk, timer, held, pathReady, edits, restarts, history>>
    PROVE  IInv'
<1>1. pathReady /\ held = <<>> /\ timer = "none" /\ row.runQueue # "failover" /\ ~Early /\ ~Early'
      /\ Entries(held) = {} /\ Entries(held') = {}
  BY EntriesEmpty DEF IInv, RunInv, Turn, Early
<1>2. ~Parked' /\ ~SwitchDue' /\ ~HopDue' /\ (WakeDue' <=> WaitQueued)
  BY <1>1 DEF Parked, SwitchDue, HopDue, WakeDue, WaitQueued
<1>3. TypeOK'
  BY DEF RestTyped, IInv, TypeOK, history
<1>4. RunInv' /\ HeldInv' /\ ResumeInv' /\ TriedInv'
  BY <1>1 DEF IInv, RunInv, HeldInv, ResumeInv, TriedInv, SomeTried, history
<1>5. HopsInv'
  <2>1. Ahead(row') = Ahead(row) /\ Budget' = Budget
    BY SameAhead DEF Budget
  <2>2. /\ Budget \in Nat /\ hops \in Nat /\ Cardinality(Ahead(row)) \in Nat
        /\ hops + One(HopDue) + Cardinality(Ahead(row)) <= Budget /\ hops' = hops
    BY BudgetFacts, AheadSize DEF IInv, HopsInv, TypeOK, history
  <2> QED
    BY <1>2, <2>1, <2>2 DEF HopsInv, One
<1>6. WakesInv'
  <2>1. Untried(row') = Untried(row)
    BY SameAhead
  <2>2. NextMayPark' => RunMayPark
    BY <1>2, <2>1 DEF NextMayPark, RunMayPark
  <2>3. One(NextMayPark') <= One(RunMayPark) /\ One(WakeDue') <= One(WaitQueued)
    BY <1>2, <2>2 DEF One
  <2>4. wakes' = wakes /\ wakes \in Nat /\ edits \in Nat /\ restarts \in Nat
    BY DEF IInv, TypeOK, history
  <2> QED
    BY <1>1, <2>3, <2>4, OneTypes DEF IInv, WakesInv, Slack
<1> QED
  BY <1>3, <1>4, <1>5, <1>6 DEF IInv, RestTyped

\* A run that hits a quota while a provider of the chain is untried.
LEMMA SwitchKeeps ==
    ASSUME IInv, Turn, live, ~live', live' \in BOOLEAN, RestTyped', NEW i \in Untried(row),
           row' = [row EXCEPT !.status = "idle", !.provider = Chain[i],
                              !.tried = @ \cup {row.provider, Chain[i]}, !.switching = TRUE],
           timer' = "failover", UNCHANGED <<disk, held, pathReady, edits, restarts, history>>
    PROVE  IInv'
<1>1. pathReady /\ held = <<>> /\ timer = "none" /\ row.runQueue # "failover" /\ ~Early /\ ~Early'
      /\ Entries(held) = {} /\ Entries(held') = {}
  BY EntriesEmpty DEF IInv, RunInv, Turn, Early
<1>2. i \in DOMAIN Chain /\ i \in Ahead(row) /\ Chain[i] \in Providers /\ row \in Row
  BY ChainFacts DEF Untried, Ahead, IInv, TypeOK
<1>3. /\ row' \in Row /\ row'.status = "idle" /\ row'.runQueue = row.runQueue
      /\ row'.tried = row.tried \cup {row.provider, Chain[i]}
      /\ row'.autoResumed = row.autoResumed
  BY <1>2 DEF Row
<1>4. TypeOK'
  BY <1>3 DEF RestTyped, IInv, TypeOK, history
<1>5. SomeTried(row')
  BY <1>2, <1>3 DEF SomeTried
<1>6. RunInv' /\ HeldInv' /\ ResumeInv' /\ TriedInv'
  BY <1>1, <1>3, <1>5 DEF IInv, RunInv, HeldInv, ResumeInv, TriedInv, history
<1>7. HopsInv'
  <2>1. Cardinality(Ahead(row')) + 1 <= Cardinality(Ahead(row)) /\ Budget' = Budget
    BY <1>2, <1>3, AheadShrinks DEF Budget
  <2>2. /\ Budget \in Nat /\ hops \in Nat /\ Cardinality(Ahead(row)) \in Nat
        /\ Cardinality(Ahead(row')) \in Nat
        /\ hops + One(HopDue) + Cardinality(Ahead(row)) <= Budget /\ hops' = hops
    BY BudgetFacts, AheadSize DEF IInv, HopsInv, TypeOK, history
  <2> QED
    BY <2>1, <2>2 DEF HopsInv, One
<1>8. WakesInv'
  <2>1. ~Parked' /\ (WakeDue' <=> WaitQueued) /\ RunMayPark
    BY <1>3 DEF Parked, WakeDue, WaitQueued, RunMayPark
  <2>2. One(NextMayPark') <= One(RunMayPark) /\ One(WakeDue') <= One(WaitQueued)
    BY <2>1 DEF One
  <2>3. wakes' = wakes /\ wakes \in Nat /\ edits \in Nat /\ restarts \in Nat
    BY DEF IInv, TypeOK, history
  <2> QED
    BY <1>1, <2>2, <2>3, OneTypes DEF IInv, WakesInv, Slack
<1> QED
  BY <1>4, <1>6, <1>7, <1>8 DEF IInv, RestTyped

\* A run that parks: it has not woken from a quota, and the chain is tried.
LEMMA ParkKeeps ==
    ASSUME IInv, Turn, live, ~live', live' \in BOOLEAN, RestTyped', Untried(row) = {},
           ~row.quotaWaitResumed, row' = [row EXCEPT !.status = "quota-wait"],
           timer' = "wake", UNCHANGED <<disk, held, pathReady, edits, restarts, history>>
    PROVE  IInv'
<1>1. pathReady /\ held = <<>> /\ timer = "none" /\ row.runQueue # "failover" /\ ~Early /\ ~Early'
      /\ Entries(held) = {} /\ Entries(held') = {}
  BY EntriesEmpty DEF IInv, RunInv, Turn, Early
<1>2. /\ row' \in Row /\ row'.status = "quota-wait" /\ row'.runQueue = row.runQueue
      /\ row'.tried = row.tried /\ row'.provider = row.provider
      /\ row'.autoResumed = row.autoResumed
  BY DEF Row, IInv, TypeOK
<1>3. TypeOK'
  BY <1>2 DEF RestTyped, IInv, TypeOK, history
<1>4. RunInv' /\ HeldInv' /\ ResumeInv' /\ TriedInv'
  BY <1>1, <1>2 DEF IInv, RunInv, HeldInv, ResumeInv, TriedInv, SomeTried, history
<1>5. HopsInv'
  <2>1. Ahead(row') = Ahead(row) /\ Budget' = Budget /\ ~HopDue'
    BY <1>1, <1>2, SameAhead DEF Budget, HopDue
  <2>2. /\ Budget \in Nat /\ hops \in Nat /\ Cardinality(Ahead(row)) \in Nat
        /\ hops + One(HopDue) + Cardinality(Ahead(row)) <= Budget /\ hops' = hops
    BY BudgetFacts, AheadSize DEF IInv, HopsInv, TypeOK, history
  <2> QED
    BY <2>1, <2>2 DEF HopsInv, One
<1>6. WakesInv'
  <2>1. Untried(row') = {}
    BY <1>2, SameAhead
  <2>2. ~NextMayPark' /\ RunMayPark
    BY <1>1, <1>2, <2>1 DEF NextMayPark, SwitchDue, RunMayPark
  <2>3. One(NextMayPark') = 0 /\ One(RunMayPark) = 1
    BY <2>2 DEF One
  <2>4. wakes' = wakes /\ wakes \in Nat /\ edits \in Nat /\ restarts \in Nat
    BY DEF IInv, TypeOK, history
  <2> QED
    BY <1>1, <2>3, <2>4, OneTypes DEF IInv, WakesInv, Slack
<1> QED
  BY <1>3, <1>4, <1>5, <1>6 DEF IInv, RestTyped

LEMMA SetProviderKeeps ==
    ASSUME IInv, NEW p \in Providers, SetProvider(p), RestTyped'
    PROVE  IInv'
<1>1. /\ row' = [row EXCEPT !.provider = p]
      /\ edits' = edits + 1
      /\ UNCHANGED <<disk, live, timer, held, pathReady, restarts, wakes, hops, resumes>>
  BY DEF SetProvider, Edit, history
<1>2. /\ row' \in Row /\ row'.status = row.status /\ row'.runQueue = row.runQueue
      /\ row'.tried = row.tried /\ row'.trashed = row.trashed
      /\ row'.quotaWaitResumed = row.quotaWaitResumed
      /\ row'.autoResumed = row.autoResumed
  BY <1>1 DEF Row, IInv, TypeOK
<1>3. TypeOK'
  BY <1>1, <1>2 DEF RestTyped, IInv, TypeOK
<1>4. RunInv' /\ HeldInv' /\ ResumeInv' /\ TriedInv'
  BY <1>1, <1>2 DEF IInv, RunInv, HeldInv, Early, Parked, ResumeInv, TriedInv, SomeTried
<1>5. HopsInv'
  <2>1. Ahead(row') = Ahead(row) /\ Budget' = Budget /\ (HopDue' <=> HopDue)
    BY <1>1, <1>2, SameAhead DEF Budget, HopDue
  <2> QED
    BY <1>1, <2>1 DEF IInv, HopsInv, One
<1>6. WakesInv'
  <2>1. wakes' = wakes /\ wakes \in Nat /\ edits \in Nat /\ restarts \in Nat /\ Slack' = Slack + 1
    BY <1>1 DEF IInv, TypeOK, Slack
  <2>2. (WakeDue' <=> WakeDue) /\ (WaitQueued' <=> WaitQueued) /\ (Early' <=> Early)
    BY <1>1, <1>2 DEF WakeDue, WaitQueued, Parked, Early
  <2>3. One(WakeDue') = One(WakeDue) /\ One(WaitQueued') = One(WaitQueued)
    BY <2>2 DEF One
  <2> QED
    BY <1>1, <2>1, <2>2, <2>3, OneTypes DEF IInv, WakesInv, Slack
<1> QED
  BY <1>3, <1>4, <1>5, <1>6 DEF IInv, RestTyped

LEMMA PathCapturedKeeps ==
    ASSUME IInv, PathCaptured
    PROVE  IInv'
<1>1. /\ ~pathReady /\ pathReady'
      /\ UNCHANGED <<row, disk, live, timer, held, full, resuming, turns, edits, restarts, wakes, hops,
                     resumes>>
  BY DEF PathCaptured, counters, history
<1>2. ~live /\ Early /\ (Early' <=> held # <<>>) /\ (Early' => Early)
  BY <1>1 DEF Early, IInv, RunInv
<1>3. TypeOK' /\ RunInv' /\ ResumeInv' /\ TriedInv'
  BY <1>1 DEF IInv, TypeOK, RunInv, ResumeInv, TriedInv
<1>4. HeldInv'
  BY <1>1, <1>2 DEF IInv, HeldInv, Parked
<1>5. HopsInv'
  BY <1>1 DEF IInv, HopsInv, HopDue, Budget
<1>6. WakesInv'
  <2>1. restarts = 0 => ~WakeDue' /\ ~SwitchDue'
    BY <1>1, <1>2 DEF IInv, HeldInv, WakeDue, SwitchDue, Parked, Replays
  <2>2. restarts = 0 => One(NextMayPark') = 0 /\ One(WakeDue') = 0
    BY <2>1 DEF NextMayPark, One
  <2> QED
    BY <1>1, <1>2, <2>2, OneTypes DEF IInv, WakesInv, Slack, TypeOK
<1> QED
  BY <1>1, <1>3, <1>4, <1>5, <1>6 DEF IInv, PathInv

\* A boot takes a row on which no queued failover has an untouched chain, and
\* which remembers the resume that was counted.
LEMMA BootKeeps ==
    ASSUME IInv, NEW r \in Row, Boot(r), r.status # "working",
           r.runQueue = "failover" => SomeTried(r),
           resumes = 1 => r.autoResumed,
           disk' = disk \/ disk' = r
    PROVE  IInv'
<1>1. /\ restarts < MaxRestarts /\ restarts' = restarts + 1
      /\ row' = r /\ timer' = Refreshed(r) /\ ~live' /\ live' \in BOOLEAN /\ held' = <<>>
      /\ ~pathReady' /\ pathReady' \in BOOLEAN /\ full' \in BOOLEAN /\ resuming' = "boot"
      /\ UNCHANGED <<turns, edits, wakes, hops, resumes>>
  BY DEF Boot, history
<1>2. timer' \in {"none", "wake"} /\ Early' /\ restarts \in Nat /\ restarts' \in Nat /\ restarts' # 0
      /\ MaxRestarts \in Nat /\ MaxHeld \in Nat /\ restarts' \in 0..MaxRestarts
  BY <1>1, BoundsAssumption DEF Refreshed, Early, IInv, TypeOK
<1>3. TypeOK'
  BY <1>1, <1>2, EntriesEmpty, EmptySeq DEF IInv, TypeOK
<1>4. RunInv' /\ ResumeInv' /\ TriedInv'
  BY <1>1, <1>2 DEF RunInv, IInv, ResumeInv, TriedInv, SomeTried
<1>5. HeldInv'
  BY <1>1, <1>2, EntriesEmpty DEF HeldInv
<1>6. HopsInv'
  <2>1. Len(Chain) \in Nat /\ Budget \in Nat /\ Budget' = Budget + Len(Chain)
    <3>1. \A n, m \in Nat : n * (1 + (m + 1)) = n * (1 + m) + n
      OBVIOUS
    <3> QED
      BY <1>1, <1>2, <3>1, BudgetFacts DEF Budget, IInv, TypeOK
  <2>2. HopDue' => SomeTried(row')
    BY <1>1, <1>2, EntriesEmpty DEF HopDue
  <2>3. One(HopDue') + Cardinality(Ahead(row')) <= Len(Chain) /\ Cardinality(Ahead(row')) \in Nat
    BY <2>1, <2>2, AheadSize DEF One
  <2>4. hops \in Nat /\ hops <= Budget
    <3>1. /\ hops + One(HopDue) + Cardinality(Ahead(row)) <= Budget
          /\ hops \in Nat /\ Cardinality(Ahead(row)) \in Nat /\ One(HopDue) \in {0, 1}
      BY AheadSize DEF IInv, HopsInv, TypeOK, One
    <3> QED
      BY <2>1, <3>1
  <2>5. One(HopDue') \in {0, 1}
    BY DEF One
  <2> QED
    BY <1>1, <2>1, <2>3, <2>4, <2>5 DEF HopsInv
<1>7. WakesInv'
  <2>1. wakes \in Nat /\ edits \in Nat /\ live \in BOOLEAN /\ Slack \in Nat
    BY <1>2 DEF IInv, TypeOK, Slack
  <2>2. wakes <= Slack
    BY <2>1, OneTypes DEF IInv, WakesInv
  <2>3. wakes' = wakes /\ Slack' = Slack + 3
    BY <1>1, <1>2, <2>1 DEF Slack
  <2> QED
    BY <1>1, <1>2, <2>1, <2>2, <2>3 DEF WakesInv
<1> QED
  BY <1>1, <1>3, <1>4, <1>5, <1>6, <1>7 DEF IInv, PathInv

-----------------------------------------------------------------------------
(* Every action keeps the invariant.                                       *)

LEMMA SendKeeps == ASSUME IInv, Send PROVE IInv'
<1>1. RestTyped'
  BY BoundsAssumption DEF Send, NewTurn, IInv, TypeOK, RestTyped, PathInv
<1>2. StartRun(row, "send", "human", timer)
  BY DEF Send
<1>3. Calling(row, "send", "human", timer)
  BY DEF Send, Calling, Callers, Kinds, IInv, TypeOK
<1> QED
  BY <1>1, <1>2, <1>3, StartRunKeeps

LEMMA NoticeKeeps == ASSUME IInv, Notice PROVE IInv'
<1>1. RestTyped'
  BY BoundsAssumption DEF Notice, NewTurn, IInv, TypeOK, RestTyped, PathInv
<1>2. StartRun(row, "notice", "notice", timer)
  BY DEF Notice
<1>3. Calling(row, "notice", "notice", timer)
  BY DEF Notice, Calling, Callers, Kinds, IInv, TypeOK
<1> QED
  BY <1>1, <1>2, <1>3, StartRunKeeps

LEMMA ResumeQuotaWaitKeeps == ASSUME IInv, ResumeQuotaWait PROVE IInv'
<1>1. RestTyped'
  BY BoundsAssumption DEF ResumeQuotaWait, NewTurn, IInv, TypeOK, RestTyped, PathInv
<1>2. StartRun(row, "banner", "wait", "none")
  BY DEF ResumeQuotaWait
<1>3. Calling(row, "banner", "wait", "none")
  BY DEF ResumeQuotaWait, Calling, Callers, Kinds, IInv, TypeOK, WakeDue
<1> QED
  BY <1>1, <1>2, <1>3, StartRunKeeps

LEMMA StopRunKeeps == ASSUME IInv, StopRun PROVE IInv'
<1>1. /\ RestTyped'
      /\ UNCHANGED <<disk, timer, held, pathReady, edits, restarts, wakes, hops, resumes>>
  BY DEF StopRun, IInv, TypeOK, RestTyped, PathInv, counters, history
<1>2. CASE ~live /\ row.runQueue # NoInput
  <2>1. row' = [row EXCEPT !.runQueue = NoInput] /\ live' = live
    BY <1>2 DEF StopRun
  <2>2. Calm
    BY <1>1, <1>2, <2>1 DEF Calm, Row, IInv, TypeOK
  <2> QED
    BY <1>1, <2>2, CalmKeeps
<1>3. CASE ~live /\ row.runQueue = NoInput
  <2>1. row' = row /\ live' = live
    BY <1>3 DEF StopRun, IInv, TypeOK
  <2>2. Calm
    BY <1>1, <1>3, <2>1 DEF Calm, IInv, TypeOK
  <2> QED
    BY <1>1, <2>2, CalmKeeps
<1>4. CASE live
  <2>1. row' = [row EXCEPT !.status = "idle"] /\ live' = FALSE /\ Turn
    BY <1>4 DEF StopRun
  <2>2. /\ row' \in Row /\ row'.status = "idle" /\ row'.provider = row.provider
        /\ row'.tried = row.tried /\ row'.quotaWaitResumed = row.quotaWaitResumed
        /\ row'.runQueue = row.runQueue /\ row'.autoResumed = row.autoResumed
    BY <2>1 DEF Row, IInv, TypeOK
  <2> QED
    BY <1>1, <1>4, <2>1, <2>2, EndKeeps DEF history
<1> QED
  BY <1>2, <1>3, <1>4

LEMMA SetQuotaWaitAutoResumeKeeps == ASSUME IInv, SetQuotaWaitAutoResume PROVE IInv'
<1>1. /\ RestTyped' /\ edits' = edits + 1 /\ edits \in Nat
      /\ UNCHANGED <<disk, live, held, pathReady, restarts, wakes, hops, resumes>>
  BY BoundsAssumption
     DEF SetQuotaWaitAutoResume, Edit, IInv, TypeOK, RestTyped, PathInv, history
<1>2. row' = [row EXCEPT !.auto = ~@] /\ timer' = Refreshed(row') /\ row \in Row
  BY DEF SetQuotaWaitAutoResume, IInv, TypeOK
<1>3. /\ row' \in Row /\ row'.provider = row.provider /\ row'.tried = row.tried
      /\ row'.quotaWaitResumed = row.quotaWaitResumed /\ row'.runQueue = row.runQueue
      /\ row'.autoResumed = row.autoResumed
      /\ row'.status = row.status /\ row'.trashed = row.trashed
  BY <1>2 DEF Row
<1>4. Calm
  BY <1>1, <1>2, <1>3 DEF Calm, IInv, RunInv
<1> QED
  BY <1>1, <1>4, CalmKeeps

LEMMA SettingsSavedKeeps == ASSUME IInv, SettingsSaved PROVE IInv'
<1>1. /\ RestTyped'
      /\ timer' = Refreshed(row)
      /\ UNCHANGED <<row, disk, live, held, pathReady, edits, restarts, wakes, hops, resumes>>
  BY DEF SettingsSaved, IInv, TypeOK, RestTyped, PathInv, counters, history
<1>2. Calm
  BY <1>1 DEF Calm, IInv, TypeOK, RunInv
<1> QED
  BY <1>1, <1>2, CalmKeeps

LEMMA TrashThreadKeeps == ASSUME IInv, TrashThread PROVE IInv'
<1>1. /\ row' = [row EXCEPT !.trashed = TRUE] /\ disk' = row' /\ ~live /\ row \in Row
      /\ edits' = edits + 1 /\ edits \in Nat
      /\ UNCHANGED <<live, timer, held, pathReady, restarts, wakes, hops, resumes>>
  BY DEF TrashThread, Edit, IInv, TypeOK, history
<1>2. Calm
  <2>1. /\ row' \in Row /\ row'.provider = row.provider /\ row'.tried = row.tried
        /\ row'.quotaWaitResumed = row.quotaWaitResumed /\ row'.runQueue = row.runQueue
        /\ row'.autoResumed = row.autoResumed
        /\ row'.status = row.status
    BY <1>1 DEF Row
  <2> QED
    BY <1>1, <2>1 DEF Calm
<1>3. RestTyped'
  BY <1>1, <1>2, BoundsAssumption
     DEF Calm, TrashThread, Edit, IInv, TypeOK, RestTyped, PathInv
<1> QED
  BY <1>1, <1>2, <1>3, CalmKeeps

LEMMA RestoreThreadKeeps == ASSUME IInv, RestoreThread PROVE IInv'
<1>1. /\ row' = [row EXCEPT !.trashed = FALSE, !.status = IF Parked THEN "idle" ELSE @]
      /\ disk' = row' /\ row.trashed /\ row \in Row
      /\ UNCHANGED <<live, timer, held, pathReady, turns, edits, restarts, wakes, hops, resumes>>
  BY DEF RestoreThread, IInv, TypeOK, counters, history
<1>2. ~live /\ edits \in Nat
  BY <1>1 DEF IInv, RunInv, TypeOK
<1>3. Calm
  <2>1. /\ row' \in Row /\ row'.provider = row.provider /\ row'.tried = row.tried
        /\ row'.quotaWaitResumed = row.quotaWaitResumed /\ row'.runQueue = row.runQueue
        /\ row'.autoResumed = row.autoResumed
        /\ row'.status # row.status => row'.status = "idle"
    BY <1>1 DEF Row
  <2> QED
    BY <1>1, <1>2, <2>1 DEF Calm
<1>4. RestTyped'
  BY <1>1, <1>3 DEF Calm, RestoreThread, IInv, TypeOK, RestTyped, PathInv
<1> QED
  BY <1>1, <1>3, <1>4, CalmKeeps

LEMMA RunEndsKeeps == ASSUME IInv, RunDone \/ RunFails PROVE IInv'
<1>1. /\ Turn /\ live /\ live' = FALSE
      /\ \E s \in {"done", "failed"} : row' = [row EXCEPT !.status = s]
      /\ UNCHANGED <<disk, timer, held, pathReady, edits, restarts, history>>
  BY DEF RunDone, RunFails, counters
<1>2. RestTyped'
  BY DEF RunDone, RunFails, IInv, TypeOK, RestTyped, PathInv, counters
<1>3. /\ row' \in Row /\ row'.status \in {"idle", "done", "failed"} /\ row'.provider = row.provider
      /\ row'.tried = row.tried /\ row'.quotaWaitResumed = row.quotaWaitResumed
      /\ row'.runQueue = row.runQueue /\ row'.autoResumed = row.autoResumed
  BY <1>1 DEF Row, IInv, TypeOK
<1> QED
  BY <1>1, <1>2, <1>3, EndKeeps

LEMMA RunHitsQuotaKeeps == ASSUME IInv, NEW clock \in BOOLEAN, RunHitsQuota(clock) PROVE IInv'
<1>1. /\ Turn /\ live /\ ~live' /\ live' \in BOOLEAN
      /\ UNCHANGED <<disk, held, pathReady, edits, restarts, history>>
  BY DEF RunHitsQuota, counters
<1>2. RestTyped'
  BY DEF RunHitsQuota, IInv, TypeOK, RestTyped, PathInv, counters
<1>3. ASSUME NEW i \in Untried(row),
             row' = [row EXCEPT !.status = "idle", !.provider = Chain[i],
                                !.tried = @ \cup {row.provider, Chain[i]}, !.switching = TRUE],
             timer' = "failover"
      PROVE  IInv'
  BY <1>1, <1>2, <1>3, SwitchKeeps
<1>4. ASSUME Untried(row) = {}, ~row.quotaWaitResumed,
             row' = [row EXCEPT !.status = "quota-wait"], timer' = "wake"
      PROVE  IInv'
  BY <1>1, <1>2, <1>4, ParkKeeps
<1>5. ASSUME row' = [row EXCEPT !.status = "failed"], timer' = timer
      PROVE  IInv'
  <2>1. /\ row' \in Row /\ row'.status = "failed" /\ row'.provider = row.provider
        /\ row'.tried = row.tried /\ row'.quotaWaitResumed = row.quotaWaitResumed
        /\ row'.runQueue = row.runQueue /\ row'.autoResumed = row.autoResumed
    BY <1>5 DEF Row, IInv, TypeOK
  <2> QED
    BY <1>1, <1>2, <1>5, <2>1, EndKeeps
<1> QED
  BY <1>3, <1>4, <1>5 DEF RunHitsQuota, DecideQuotaWait

LEMMA FireQuotaWakeKeeps == ASSUME IInv, FireQuotaWake PROVE IInv'
<1>1. RestTyped'
  BY DEF FireQuotaWake, IInv, TypeOK, RestTyped, PathInv, counters
<1>2. UNCHANGED <<disk, pathReady, edits, restarts>> /\ Turn
  BY DEF FireQuotaWake, counters
<1>3. CASE Parked /\ row.auto /\ ~live
  <2>1. StartRun(row, "wake", "wait", "none")
    BY <1>3 DEF FireQuotaWake
  <2>2. Calling(row, "wake", "wait", "none")
    BY <1>2, <1>3 DEF Calling, Callers, Kinds, IInv, TypeOK, WakeDue
  <2> QED
    BY <1>1, <2>1, <2>2, StartRunKeeps
<1>4. CASE ~(Parked /\ row.auto /\ ~live)
  <2>1. timer' = "none" /\ UNCHANGED <<row, live, held, wakes, hops, resumes>>
    BY <1>4 DEF FireQuotaWake, history
  <2>2. Calm
    BY <1>2, <2>1 DEF Calm, IInv, TypeOK, RunInv
  <2> QED
    BY <1>1, <2>1, <2>2, CalmKeeps
<1> QED
  BY <1>3, <1>4

LEMMA FireFailoverResumeKeeps == ASSUME IInv, FireFailoverResume PROVE IInv'
<1>1. RestTyped'
  BY DEF FireFailoverResume, IInv, TypeOK, RestTyped, PathInv, counters
<1>2. UNCHANGED <<disk, pathReady, edits, restarts>> /\ Turn /\ timer = "failover"
  BY DEF FireFailoverResume, counters
<1>3. CASE row.switching /\ ~live
  <2>1. StartRun(row, "failover", "failover", "none")
    BY <1>3 DEF FireFailoverResume
  <2>2. Calling(row, "failover", "failover", "none")
    BY <1>2, <1>3 DEF Calling, Callers, Kinds, IInv, TypeOK, SwitchDue
  <2> QED
    BY <1>1, <2>1, <2>2, StartRunKeeps
<1>4. CASE ~(row.switching /\ ~live)
  <2>1. timer' = "none" /\ UNCHANGED <<row, live, held, wakes, hops, resumes>>
    BY <1>4 DEF FireFailoverResume, history
  <2>2. Calm
    BY <1>2, <2>1 DEF Calm, IInv, TypeOK, RunInv
  <2> QED
    BY <1>1, <2>1, <2>2, CalmKeeps
<1> QED
  BY <1>3, <1>4

LEMMA AdmitQueuedRunsKeeps == ASSUME IInv, AdmitQueuedRuns PROVE IInv'
<1> DEFINE r == [row EXCEPT !.runQueue = NoInput]
<1>1. RestTyped'
  BY DEF AdmitQueuedRuns, IInv, TypeOK, RestTyped, PathInv, counters
<1>2. /\ UNCHANGED <<disk, pathReady, edits, restarts>> /\ Turn /\ ~live
      /\ StartRun(r, "admit", row.runQueue, timer)
      /\ row \in Row /\ row.runQueue \in Kinds
  BY DEF AdmitQueuedRuns, Admits, counters, IInv, TypeOK, Row
<1>3. /\ r \in Row /\ r.runQueue = NoInput
      /\ r.status = row.status /\ r.provider = row.provider /\ r.tried = row.tried
      /\ r.quotaWaitResumed = row.quotaWaitResumed /\ r.autoResumed = row.autoResumed
      /\ r.trashed = row.trashed
  BY <1>2 DEF Row
<1> HIDE DEF r
<1>4. Calling(r, "admit", row.runQueue, timer)
  BY <1>2, <1>3 DEF Calling, Callers, WakeDue, SwitchDue
<1> QED
  BY <1>1, <1>2, <1>4, StartRunKeeps

LEMMA OthersKeep == ASSUME IInv, OthersFill \/ OthersEnd \/ Flush PROVE IInv'
<1>1. RestTyped'
  BY DEF OthersFill, OthersEnd, Flush, IInv, TypeOK, RestTyped, PathInv, counters
<1>2. /\ UNCHANGED <<row, live, timer, held, pathReady, edits, restarts, wakes, hops, resumes>>
      /\ disk' = disk \/ disk' = row
  BY DEF OthersFill, OthersEnd, Flush, counters, history
<1>3. Calm
  BY <1>2 DEF Calm, IInv, TypeOK, RunInv
<1> QED
  BY <1>1, <1>2, <1>3, CalmKeeps

LEMMA ReleaseKeeps == ASSUME IInv, Release PROVE IInv'
<1>1. RestTyped'
  BY DEF Release, IInv, TypeOK, RestTyped, PathInv, counters
<1>2. /\ pathReady /\ held # <<>> /\ held' = Tail(held)
      /\ Begin(row, Head(held).by, Head(held).kind, timer)
      /\ UNCHANGED <<disk, pathReady, edits, restarts>>
  BY DEF Release, counters
<1> DEFINE e == Head(held)
<1>3. e \in Entries(held) /\ e \in Start
  BY <1>2, EntriesTail, EntriesType DEF IInv, TypeOK, Start
<1> HIDE DEF e
<1>4. e.by \in Callers /\ e.kind \in Kinds /\ e = [by |-> e.by, kind |-> e.kind]
  BY <1>3 DEF Start
<1>5. Starting(row, e.by, e.kind, timer)
  <2>1. /\ e.by # "failover"
        /\ e.by = "admit" => row.runQueue # "failover"
        /\ e.by = "send" => e.kind = "human"
        /\ e.by = "notice" => e.kind = "notice"
        /\ e.by \in {"wake", "banner"} => e.kind = "wait"
    BY <1>3 DEF IInv, HeldInv
  <2>2. Head(held) = [by |-> e.by, kind |-> e.kind]
    BY <1>4 DEF e
  <2>3. row \in Row /\ pathReady'
    BY <1>2 DEF IInv, TypeOK
  <2> QED
    BY <1>2, <1>4, <2>1, <2>2, <2>3 DEF Starting
<1>6. Begin(row, e.by, e.kind, timer)
  BY <1>2 DEF e
<1> QED
  BY <1>1, <1>5, <1>6, BeginKeeps

LEMMA ResumeInterruptedRunsKeeps == ASSUME IInv, ResumeInterruptedRuns PROVE IInv'
<1>1. /\ row' = [row EXCEPT !.autoResumed = @ \/ Resumable] /\ row \in Row
      /\ disk' = IF Resumable THEN row' ELSE disk
      /\ resumes' = IF Resumable THEN resumes + 1 ELSE resumes
      /\ pathReady
      /\ UNCHANGED <<live, timer, held, pathReady, full, turns, edits, restarts, wakes, hops>>
  BY DEF ResumeInterruptedRuns, IInv, TypeOK, counters
<1>2. Resumable \in BOOLEAN /\ row.autoResumed \in BOOLEAN
  BY <1>1 DEF Resumable, Row, IInv, TypeOK
<1>3. /\ row' \in Row /\ (row'.autoResumed <=> row.autoResumed \/ Resumable)
      /\ row'.provider = row.provider /\ row'.tried = row.tried
      /\ row'.quotaWaitResumed = row.quotaWaitResumed
      /\ row'.runQueue = row.runQueue /\ row'.status = row.status /\ row'.trashed = row.trashed
  <2> DEFINE a == row.autoResumed \/ Resumable
  <2>1. a \in BOOLEAN /\ row' = [row EXCEPT !.autoResumed = a]
    BY <1>1, <1>2
  <2>2. (a <=> row.autoResumed \/ Resumable)
    OBVIOUS
  <2> HIDE DEF a
  <2>3. row'.autoResumed = a
    BY <1>1, <2>1 DEF Row
  <2> QED
    BY <1>1, <2>1, <2>2, <2>3 DEF Row
<1>4. edits \in Nat /\ timer' = timer
  BY <1>1 DEF IInv, TypeOK
<1>5. Calm
  BY <1>1, <1>3, <1>4 DEF Calm, IInv, RunInv
<1>6. RestTyped'
  BY <1>1, <1>3 DEF ResumeInterruptedRuns, IInv, TypeOK, RestTyped, PathInv
<1>7. resumes' = resumes \/ (resumes = 0 /\ resumes' = 1 /\ row'.autoResumed /\ disk' = row')
  BY <1>1, <1>3 DEF Resumable, IInv, ResumeInv
<1> QED
  BY <1>5, <1>6, <1>7, CalmKeeps

LEMMA ResumeOneKeeps == ASSUME IInv, ResumeOne PROVE IInv'
<1>1. RestTyped'
  BY DEF ResumeOne, IInv, TypeOK, RestTyped, PathInv, counters
<1>2. /\ UNCHANGED <<disk, pathReady, edits, restarts>> /\ Turn /\ pathReady /\ held = <<>>
  BY DEF ResumeOne, IInv, PathInv, Turn, counters
<1>3. CASE live \/ row.trashed
  <2>1. UNCHANGED <<row, live, timer, held, wakes, hops, resumes>>
    BY <1>3 DEF ResumeOne, history
  <2>2. Calm
    BY <1>2, <2>1 DEF Calm, IInv, TypeOK, RunInv
  <2> QED
    BY <1>1, <2>1, <2>2, CalmKeeps
<1>4. CASE ~(live \/ row.trashed)
  <2>1. Begin(row, "notice", "notice", timer) /\ held' = held
    BY <1>4 DEF ResumeOne
  <2>2. Starting(row, "notice", "notice", timer)
    BY <1>2, <1>4, <2>1 DEF Starting, Callers, Kinds, IInv, TypeOK
  <2> QED
    BY <1>1, <2>1, <2>2, BeginKeeps
<1> QED
  BY <1>3, <1>4

LEMMA CrashKeeps == ASSUME IInv, Crash PROVE IInv'
<1> DEFINE r == Recovered(disk)
<1>1. Boot(r) /\ disk' = disk /\ disk \in Row
  BY DEF Crash, IInv, TypeOK
<1>2. /\ r \in Row /\ r.status # "working" /\ r.runQueue = disk.runQueue /\ r.tried = disk.tried
      /\ r.autoResumed = disk.autoResumed
  <2> DEFINE a == disk.interrupted \/ disk.status = "working"
             s == IF disk.status = "working" THEN "failed" ELSE disk.status
  <2>1. a \in BOOLEAN /\ s \in {"idle", "quota-wait", "done", "failed"}
        /\ r = [disk EXCEPT !.interrupted = a, !.status = s]
    BY <1>1 DEF Recovered, Row
  <2> HIDE DEF a, s, r
  <2> QED
    BY <1>1, <2>1 DEF Row
<1> HIDE DEF r
<1>3. r.runQueue = "failover" => SomeTried(r)
  BY <1>2 DEF IInv, TriedInv, SomeTried
<1>4. resumes = 1 => r.autoResumed
  BY <1>2 DEF IInv, ResumeInv
<1> QED
  BY <1>1, <1>2, <1>3, <1>4, BootKeeps

LEMMA QuitKeeps == ASSUME IInv, Quit PROVE IInv'
<1> DEFINE a == row.interrupted \/ live
           s == IF live THEN "idle" ELSE row.status
           r == [row EXCEPT !.interrupted = a, !.status = s]
<1>1. Boot(r) /\ disk' = r /\ row \in Row
  BY DEF Quit, IInv, TypeOK
<1>2. a \in BOOLEAN /\ s \in {"idle", "quota-wait", "done", "failed"}
  BY <1>1 DEF Row, IInv, TypeOK
<1>3. /\ r \in Row /\ r.status # "working" /\ r.runQueue = row.runQueue /\ r.tried = row.tried
      /\ r.autoResumed = row.autoResumed
  <2> HIDE DEF a, s
  <2> QED
    BY <1>1, <1>2 DEF Row
<1> HIDE DEF r
<1>4. r.runQueue = "failover" => SomeTried(r)
  BY <1>3 DEF IInv, TriedInv, SomeTried
<1>5. resumes = 1 => r.autoResumed
  BY <1>3 DEF IInv, ResumeInv
<1> QED
  BY <1>1, <1>3, <1>4, <1>5, BootKeeps

-----------------------------------------------------------------------------

LEMMA InitKeeps == ASSUME Init PROVE IInv
<1>1. /\ row \in Row /\ row.status = "idle" /\ row.tried = {} /\ row.runQueue = NoInput
      /\ ~row.quotaWaitResumed
  <2>1. PICK auto \in BOOLEAN : row = Row0(auto)
    BY DEF Init
  <2>2. (CHOOSE p \in Providers : TRUE) \in Providers
    BY ChainAssumption
  <2> QED
    BY <2>1, <2>2 DEF Row0, Row
<1>2. /\ disk = row /\ live = FALSE /\ timer = "none" /\ held = <<>> /\ pathReady = FALSE
      /\ full = FALSE /\ resuming = "boot" /\ turns = 0 /\ edits = 0 /\ restarts = 0
      /\ wakes = 0 /\ hops = 0 /\ resumes = 0
  BY DEF Init
<1>3. Entries(held) = {} /\ Len(held) = 0 /\ Early
  BY <1>2, EntriesEmpty DEF Early
<1>4. TypeOK /\ PathInv /\ RunInv
  <2>1. held \in Seq([by : Callers, kind : Kinds]) /\ Len(held) <= MaxHeld
    BY <1>2, <1>3, EmptySeq, BoundsAssumption
  <2>2. 0 \in 0..MaxTurns /\ 0 \in 0..MaxEdits /\ 0 \in 0..MaxRestarts
    BY BoundsAssumption
  <2> QED
    BY <1>1, <1>2, <2>1, <2>2 DEF TypeOK, PathInv, RunInv
<1>5. HeldInv /\ ResumeInv /\ TriedInv
  BY <1>1, <1>2, <1>3, NoInputAssumption DEF HeldInv, ResumeInv, TriedInv, Parked, Kinds, Replays
<1>6. HopsInv
  <2>1. ~HopDue
    BY <1>1, <1>2, <1>3, NoInputAssumption DEF HopDue, Kinds
  <2> QED
    BY <1>2, <2>1, AheadSize, BudgetFacts DEF HopsInv, One
<1>7. WakesInv
  BY <1>2, <1>3 DEF WakesInv
<1> QED
  BY <1>4, <1>5, <1>6, <1>7 DEF IInv

LEMMA NextKeeps == ASSUME IInv, [Next]_vars PROVE IInv'
<1>1. CASE UNCHANGED vars
  <2>1. UNCHANGED <<row, disk, live, timer, held, pathReady, full, resuming, turns, edits, restarts,
                    wakes, hops, resumes>>
    BY <1>1 DEF vars, counters, history
  <2>2. TypeOK' /\ PathInv' /\ RunInv'
    BY <2>1 DEF IInv, TypeOK, PathInv, RunInv
  <2>3. HeldInv' /\ ResumeInv' /\ TriedInv'
    BY <2>1 DEF IInv, HeldInv, ResumeInv, TriedInv, Early, Parked
  <2>4. HopsInv' /\ WakesInv'
    BY <2>1 DEF IInv, HopsInv, HopDue, Budget, WakesInv, RunMayPark, WaitQueued, NextMayPark, WakeDue,
                SwitchDue, Slack, Early, Parked
  <2> QED
    BY <2>2, <2>3, <2>4 DEF IInv
<1>2. ASSUME NEW p \in Providers, SetProvider(p) PROVE IInv'
  <2>1. RestTyped'
    BY <1>2, BoundsAssumption DEF SetProvider, Edit, IInv, TypeOK, RestTyped, PathInv
  <2> QED
    BY <1>2, <2>1, SetProviderKeeps
<1>3. CASE Next
  BY <1>2, <1>3, SendKeeps, NoticeKeeps, ResumeQuotaWaitKeeps, StopRunKeeps,
     SetQuotaWaitAutoResumeKeeps, SettingsSavedKeeps, TrashThreadKeeps, RestoreThreadKeeps,
     RunEndsKeeps, RunHitsQuotaKeeps, FireQuotaWakeKeeps, FireFailoverResumeKeeps,
     AdmitQueuedRunsKeeps, OthersKeep, PathCapturedKeeps, ReleaseKeeps,
     ResumeInterruptedRunsKeeps, ResumeOneKeeps, CrashKeeps, QuitKeeps DEF Next
<1> QED
  BY <1>1, <1>3

\* The inductive invariant holds, for every chain and all bounds.
THEOREM Invariant == Spec => []IInv
BY InitKeeps, NextKeeps, PTL DEF Spec

\* Every variable keeps its type, and only a live run has a row that works.
THEOREM TypeCorrect == Spec => []TypeOK
<1>1. IInv => TypeOK
  BY DEF IInv
<1> QED
  BY <1>1, Invariant, PTL

\* No retry is armed beside a live run, and its thread is not in the trash,
\* whatever waited for the PATH while the run was started (startRun's checks
\* after whenPathReady, clearQuotaTimer before a launch).
THEOREM Alone == Spec => []RunsAlone
<1>1. IInv => RunsAlone
  BY DEF IInv, RunInv, RunsAlone
<1> QED
  BY <1>1, Invariant, PTL

\* A turn wakes from a quota once, and goes through the chain of providers
\* once, but for what the user's switches and the restarts add.
THEOREM NoStorm == Spec => []NoRetryStorm
<1>1. IInv => NoRetryStorm
  <2>1. ASSUME IInv PROVE wakes <= 1 + edits + 3 * restarts
    <3>1. wakes \in Nat /\ Slack \in Nat /\ live \in BOOLEAN
      <4>1. \A a, n \in Nat : 1 + a + 3 * n \in Nat
        OBVIOUS
      <4> QED
        BY <2>1, <4>1 DEF IInv, TypeOK, Slack
    <3>2. wakes <= Slack
      BY <2>1, <3>1, OneTypes DEF IInv, WakesInv
    <3> QED
      BY <3>2 DEF Slack
  <2>2. ASSUME IInv PROVE hops <= Len(Chain) * (1 + restarts)
    <3>1. /\ hops + One(HopDue) + Cardinality(Ahead(row)) <= Budget /\ Budget \in Nat
          /\ hops \in Nat /\ Cardinality(Ahead(row)) \in Nat /\ One(HopDue) \in {0, 1}
      BY <2>2, AheadSize, BudgetFacts DEF IInv, HopsInv, TypeOK, One
    <3>2. hops <= Budget
      BY <3>1
    <3> QED
      BY <3>2 DEF Budget
  <2> QED
    BY <2>1, <2>2 DEF NoRetryStorm
<1> QED
  BY <1>1, Invariant, PTL

\* After a human turn at most one restart resumes the thread by itself: the
\* marker that resumeInterruptedRuns sets is on disk before anything starts.
THEOREM OneResume == Spec => []ResumedOnce
<1>1. IInv => ResumedOnce
  BY DEF IInv, ResumeInv, ResumedOnce
<1> QED
  BY <1>1, Invariant, PTL

-----------------------------------------------------------------------------
(* What no step does.                                                      *)

LEMMA StatusKept ==
    ASSUME IInv, [Next]_vars, live, live', row.status = "working"
    PROVE  row'.status = "working" \/ (Release /\ Head(held).by \in {"wake", "failover", "admit"})
<1>1. timer = "none" /\ ~row.trashed /\ row \in Row
  BY DEF IInv, RunInv, TypeOK
<1>2. CASE UNCHANGED vars
  BY <1>2 DEF vars
<1>3. CASE \/ Send \/ Notice \/ ResumeQuotaWait \/ TrashThread \/ RestoreThread \/ FireQuotaWake
           \/ FireFailoverResume \/ AdmitQueuedRuns \/ (\E p \in Providers : SetProvider(p))
  BY <1>1, <1>3 DEF Send, Notice, ResumeQuotaWait, TrashThread, RestoreThread, FireQuotaWake,
                    FireFailoverResume, AdmitQueuedRuns, Admits, SetProvider
<1>4. CASE StopRun \/ RunDone \/ RunFails \/ (\E clock \in BOOLEAN : RunHitsQuota(clock)) \/ Crash \/ Quit
  BY <1>4 DEF StopRun, RunDone, RunFails, RunHitsQuota, Crash, Quit, Boot
<1>5. CASE SettingsSaved \/ OthersFill \/ OthersEnd \/ Flush \/ PathCaptured
  BY <1>5 DEF SettingsSaved, OthersFill, OthersEnd, Flush, PathCaptured
<1>6. CASE SetQuotaWaitAutoResume
  <2>1. row' = [row EXCEPT !.auto = ~@]
    BY <1>6 DEF SetQuotaWaitAutoResume
  <2> QED
    BY <1>1, <2>1 DEF Row
<1>7. CASE ResumeInterruptedRuns
  <2>1. row' = [row EXCEPT !.autoResumed = @ \/ Resumable]
    BY <1>7 DEF ResumeInterruptedRuns
  <2> QED
    BY <1>1, <2>1 DEF Row
<1>8. CASE ResumeOne
  BY <1>8 DEF ResumeOne
<1>9. CASE Release
  <2>1. Head(held) \in Start
    BY <1>9, EntriesTail, EntriesType DEF Release, IInv, TypeOK, Start
  <2>2. Head(held).by \in Callers /\ Begin(row, Head(held).by, Head(held).kind, timer)
    BY <1>9, <2>1 DEF Release, Start
  <2>3. CASE Head(held).by \in {"send", "banner", "notice"}
    <3>1. row' = row
      BY <1>1, <2>2, <2>3, BeginOutcomes DEF Refused, Queued, Accepted
    <3> QED
      BY <3>1
  <2> QED
    BY <1>9, <2>2, <2>3 DEF Callers
<1> QED
  BY <1>2, <1>3, <1>4, <1>5, <1>6, <1>7, <1>8, <1>9 DEF Next

\* The row of a live run keeps saying that it works, but for a start that waited
\* for the PATH behind the one that won the thread (the catch of the timers and
\* of the admission).
THEOREM StatusKeeps == Spec => LiveRunKeepsStatus
<1>1. IInv /\ [Next]_vars =>
        [live /\ live' /\ row.status = "working" =>
            \/ row'.status = "working"
            \/ Release /\ Head(held).by \in {"wake", "failover", "admit"}]_vars
  BY StatusKept
<1> QED
  BY <1>1, Invariant, PTL DEF Spec, LiveRunKeepsStatus

LEMMA WatchedIs ==
    /\ Watched <=> \/ timer = "wake" \/ row.runQueue # NoInput
                   \/ \E e \in Entries(held) : e.by \in {"wake", "admit"}
    /\ Watched' <=> \/ timer' = "wake" \/ row'.runQueue # NoInput
                    \/ \E e \in Entries(held') : e.by \in {"wake", "admit"}
BY DEF Watched, Entries

LEMMA BeginWatched ==
    ASSUME NEW r \in Row, NEW by \in {"notice", "wake", "failover", "admit"}, NEW kind \in Kinds, NEW t,
           ~live, Begin(r, by, kind, t)
    PROVE  ShouldWake' => Watched'
<1>1. by \in Callers
  BY DEF Callers
<1>2. CASE Refused(r, by, t)
  BY <1>2 DEF Refused, ShouldWake, Parked
<1>3. CASE Queued(r, by, kind)
  BY <1>3, EnqueueFields, NoInputAssumption DEF Queued, Watched
<1>4. CASE Accepted(r, by, kind)
  BY <1>4, AcceptFields DEF Accepted, ShouldWake, Parked
<1> QED
  BY <1>1, <1>2, <1>3, <1>4, BeginOutcomes

LEMMA StartWatched ==
    ASSUME IInv, NEW r \in Row, NEW by \in {"notice", "wake", "failover", "admit"}, NEW kind \in Kinds,
           NEW t, ~live, StartRun(r, by, kind, t), ShouldWake => Watched,
           pathReady \/ by \in {"wake", "admit"} \/ (r = row /\ t = timer)
    PROVE  ShouldWake' => Watched'
<1>1. CASE pathReady
  BY <1>1, BeginWatched DEF StartRun
<1>2. CASE ~pathReady
  <2> DEFINE e == [by |-> by, kind |-> kind]
  <2>1. held' = Append(held, e) /\ row' = r /\ timer' = t
    BY <1>2 DEF StartRun
  <2>2. Entries(held') = Entries(held) \cup {e} /\ e.by = by
    <3>1. held \in Seq(Start) /\ e \in Start
      BY DEF IInv, TypeOK, Start, Callers
    <3> QED
      BY <2>1, <3>1, EntriesAppend
  <2>3. CASE by \in {"wake", "admit"}
    BY <2>2, <2>3, WatchedIs
  <2>4. CASE r = row /\ t = timer
    <3>1. ShouldWake' <=> ShouldWake
      BY <2>1, <2>4 DEF ShouldWake, Parked
    <3> QED
      BY <2>1, <2>2, <2>4, <3>1, WatchedIs
  <2> QED
    BY <1>2, <2>3, <2>4
<1> QED
  BY <1>1, <1>2

\* A step that leaves the row's status, switch and queue alone, and the timer
\* and the starts that wait.
LEMMA SameWatched ==
    ASSUME ShouldWake => Watched, UNCHANGED <<timer, held>>,
           ~ShouldWake' \/ (/\ row'.status = row.status /\ row'.auto = row.auto
                            /\ row'.trashed = row.trashed /\ row'.runQueue = row.runQueue)
    PROVE  ShouldWake' => Watched'
BY DEF ShouldWake, Watched, Parked

LEMMA WatchKept ==
    ASSUME IInv, [Next]_vars, ShouldWake => Watched
    PROVE  \/ ShouldWake' => Watched'
           \/ Send \/ ResumeQuotaWait \/ StopRun
           \/ (Release /\ Head(held).by \in {"send", "banner"})
<1>1. row \in Row
  BY DEF IInv, TypeOK
<1>2. CASE UNCHANGED vars
  <2>1. UNCHANGED <<row, timer, held>>
    BY <1>2 DEF vars
  <2> QED
    BY <2>1, SameWatched
<1>3. CASE Notice
  <2>1. StartRun(row, "notice", "notice", timer) /\ ~live
    BY <1>3 DEF Notice
  <2> QED
    BY <1>1, <2>1, StartWatched DEF Kinds
<1>4. CASE \E p \in Providers : SetProvider(p)
  <2>1. PICK p \in Providers : row' = [row EXCEPT !.provider = p]
    BY <1>4 DEF SetProvider
  <2>2. /\ row'.status = row.status /\ row'.auto = row.auto
        /\ row'.trashed = row.trashed /\ row'.runQueue = row.runQueue
    BY <1>1, <2>1 DEF Row
  <2> QED
    BY <1>4, <2>2, SameWatched DEF SetProvider
<1>5. CASE SetQuotaWaitAutoResume \/ SettingsSaved
  <2>1. timer' = Refreshed(row')
    BY <1>5 DEF SetQuotaWaitAutoResume, SettingsSaved
  <2> QED
    BY <2>1 DEF Refreshed, ShouldWake, Parked, Watched
<1>6. CASE TrashThread
  <2>1. row'.trashed
    BY <1>1, <1>6 DEF TrashThread, Row
  <2> QED
    BY <2>1 DEF ShouldWake
<1>7. CASE RestoreThread
  <2>1. row' = [row EXCEPT !.trashed = FALSE, !.status = IF Parked THEN "idle" ELSE @]
    BY <1>7 DEF RestoreThread
  <2>2. row'.status # "quota-wait"
    BY <1>1, <2>1 DEF Row, Parked
  <2> QED
    BY <2>2 DEF ShouldWake, Parked
<1>8. CASE RunDone \/ RunFails
  <2>1. row'.status \in {"done", "failed"}
    BY <1>1, <1>8 DEF RunDone, RunFails, Row
  <2> QED
    BY <2>1 DEF ShouldWake, Parked
<1>9. ASSUME NEW clock \in BOOLEAN, RunHitsQuota(clock) PROVE ShouldWake' => Watched'
  <2>1. row'.status \in {"idle", "failed"} \/ timer' = "wake"
    BY <1>1, <1>9 DEF RunHitsQuota, Row
  <2> QED
    BY <2>1 DEF ShouldWake, Parked, Watched
<1>10. CASE FireQuotaWake
  <2>1. CASE Parked /\ row.auto /\ ~live
    <3>1. StartRun(row, "wake", "wait", "none")
      BY <1>10, <2>1 DEF FireQuotaWake
    <3> QED
      BY <1>1, <2>1, <3>1, StartWatched DEF Kinds
  <2>2. CASE ~(Parked /\ row.auto /\ ~live)
    <3>1. timer = "wake" /\ row' = row
      BY <1>10, <2>2 DEF FireQuotaWake
    <3>2. ~live
      BY <3>1 DEF IInv, RunInv
    <3> QED
      BY <2>2, <3>1, <3>2 DEF ShouldWake, Parked
  <2> QED
    BY <2>1, <2>2
<1>11. CASE FireFailoverResume
  <2>1. timer = "failover" /\ pathReady /\ held = <<>>
    BY <1>11 DEF FireFailoverResume, IInv, HeldInv, Early
  <2>2. CASE row.switching /\ ~live
    <3>1. StartRun(row, "failover", "failover", "none")
      BY <1>11, <2>2 DEF FireFailoverResume
    <3> QED
      BY <1>1, <2>1, <2>2, <3>1, StartWatched DEF Kinds
  <2>3. CASE ~(row.switching /\ ~live)
    <3>1. row' = row /\ held' = held
      BY <1>11, <2>3 DEF FireFailoverResume
    <3>2. ShouldWake' <=> ShouldWake
      BY <3>1 DEF ShouldWake, Parked
    <3> QED
      BY <2>1, <3>1, <3>2 DEF Watched
  <2> QED
    BY <2>2, <2>3
<1>12. CASE AdmitQueuedRuns
  <2> DEFINE r == [row EXCEPT !.runQueue = NoInput]
  <2>1. StartRun(r, "admit", row.runQueue, timer) /\ ~live /\ row.runQueue \in Kinds /\ r \in Row
    BY <1>1, <1>12 DEF AdmitQueuedRuns, Admits, Row
  <2> HIDE DEF r
  <2> QED
    BY <2>1, StartWatched
<1>13. CASE OthersFill \/ OthersEnd \/ Flush \/ PathCaptured
  <2>1. UNCHANGED <<row, timer, held>>
    BY <1>13 DEF OthersFill, OthersEnd, Flush, PathCaptured
  <2> QED
    BY <2>1, SameWatched
<1>14. CASE Release
  <2>1. Head(held) \in Start
    BY <1>14, EntriesTail, EntriesType DEF Release, IInv, TypeOK, Start
  <2>2. /\ Head(held).by \in Callers /\ Head(held).kind \in Kinds
        /\ Begin(row, Head(held).by, Head(held).kind, timer)
        /\ Head(held) \in Entries(held)
    BY <1>14, <2>1, EntriesTail DEF Release, Start, IInv, TypeOK
  <2>3. CASE Head(held).by \in {"notice", "wake", "admit"} /\ ~live
    BY <1>1, <2>2, <2>3, BeginWatched
  <2>4. CASE live
    <3>1. ~Parked
      BY <2>4 DEF IInv, RunInv, Parked
    <3>2. row'.status \in {row.status, "failed"}
      BY <1>1, <2>2, <2>4, BeginOutcomes DEF Refused, SameTurn, Queued, Accepted
    <3> QED
      BY <3>1, <3>2 DEF Parked, ShouldWake
  <2>5. Head(held).by # "failover"
    BY <2>2 DEF IInv, HeldInv
  <2> QED
    BY <1>14, <2>2, <2>3, <2>4, <2>5 DEF Callers
<1>15. CASE ResumeInterruptedRuns
  <2>1. row' = [row EXCEPT !.autoResumed = @ \/ Resumable] /\ UNCHANGED <<timer, held>>
    BY <1>15 DEF ResumeInterruptedRuns
  <2>2. /\ row'.status = row.status /\ row'.auto = row.auto
        /\ row'.trashed = row.trashed /\ row'.runQueue = row.runQueue
    BY <1>1, <2>1 DEF Row
  <2> QED
    BY <2>1, <2>2, SameWatched
<1>16. CASE ResumeOne
  <2>1. CASE live \/ row.trashed
    <3>1. UNCHANGED <<row, timer, held>>
      BY <1>16, <2>1 DEF ResumeOne
    <3> QED
      BY <3>1, SameWatched
  <2>2. CASE ~(live \/ row.trashed)
    <3>1. Begin(row, "notice", "notice", timer)
      BY <1>16, <2>2 DEF ResumeOne
    <3> QED
      BY <1>1, <2>2, <3>1, BeginWatched DEF Kinds
  <2> QED
    BY <2>1, <2>2
<1>17. CASE Crash \/ Quit
  <2>1. timer' = Refreshed(row')
    BY <1>17 DEF Crash, Quit, Boot
  <2> QED
    BY <2>1 DEF Refreshed, ShouldWake, Parked, Watched
<1> QED
  BY <1>2, <1>3, <1>4, <1>5, <1>6, <1>7, <1>8, <1>9, <1>10, <1>11, <1>12, <1>13, <1>14, <1>15,
     <1>16, <1>17 DEF Next

\* A parked thread that may wake itself keeps something that will wake it: only
\* the user's own step loses it (a send or a resume that is refused after
\* clearQuotaTimer, or Stop on the queued start).
THEOREM WatchKeeps == Spec => WatchLostByUser
<1>1. IInv /\ [Next]_vars =>
        [(ShouldWake => Watched) =>
            \/ (ShouldWake => Watched)'
            \/ Send \/ ResumeQuotaWait \/ StopRun
            \/ Release /\ Head(held).by \in {"send", "banner"}]_vars
  BY WatchKept
<1> QED
  BY <1>1, Invariant, PTL DEF Spec, WatchLostByUser
=============================================================================
