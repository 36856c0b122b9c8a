------------------------- MODULE OrchNotices_proofs -------------------------
(***************************************************************************)
(* Proofs about the notices of a crew, for every set of workers, every cap *)
(* and all bounds.                                                         *)
(***************************************************************************)
EXTENDS OrchNotices, FiniteSetTheorems, SequenceTheorems, TLAPS

-----------------------------------------------------------------------------
(* Sequences as sets.                                                      *)

LEMMA AppendSet ==
    ASSUME NEW S, NEW s \in Seq(S), NEW e \in S
    PROVE  /\ Append(s, e) \in Seq(S) /\ Append(s, e) # <<>>
           /\ ToSet(Append(s, e)) = ToSet(s) \cup {e}
<1>1. /\ Append(s, e) \in Seq(S) /\ Len(Append(s, e)) = Len(s) + 1
      /\ \A i \in 1..Len(s) : Append(s, e)[i] = s[i]
      /\ Append(s, e)[Len(s) + 1] = e
  BY AppendProperties
<1>2. DOMAIN Append(s, e) = 1..(Len(s) + 1) /\ DOMAIN s = 1..Len(s) /\ Len(s) \in Nat
  BY <1>1, LenProperties
<1>3. ToSet(Append(s, e)) = ToSet(s) \cup {e}
  BY <1>1, <1>2 DEF ToSet
<1>4. Append(s, e) # <<>>
  <2>1. Len(<<>>) = 0 /\ Len(Append(s, e)) # 0
    BY <1>1, <1>2, EmptySeq
  <2> QED
    BY <2>1
<1> QED
  BY <1>1, <1>3, <1>4

LEMMA ConcatSet ==
    ASSUME NEW S, NEW s \in Seq(S), NEW t \in Seq(S)
    PROVE  /\ s \o t \in Seq(S) /\ ToSet(s \o t) = ToSet(s) \cup ToSet(t)
           /\ s \o t = <<>> <=> s = <<>> /\ t = <<>>
<1>1. /\ s \o t \in Seq(S) /\ Len(s \o t) = Len(s) + Len(t)
      /\ \A i \in 1..Len(s) + Len(t) : (s \o t)[i] = IF i <= Len(s) THEN s[i] ELSE t[i - Len(s)]
  BY ConcatProperties
<1>2. /\ DOMAIN (s \o t) = 1..(Len(s) + Len(t)) /\ DOMAIN s = 1..Len(s) /\ DOMAIN t = 1..Len(t)
      /\ Len(s) \in Nat /\ Len(t) \in Nat
  BY <1>1, LenProperties
<1>3. \A i \in DOMAIN t : i + Len(s) \in DOMAIN (s \o t) /\ (s \o t)[i + Len(s)] = t[i]
  BY <1>1, <1>2
<1>4. \A i \in DOMAIN s : i \in DOMAIN (s \o t) /\ (s \o t)[i] = s[i]
  BY <1>1, <1>2
<1>5. \A i \in DOMAIN (s \o t) : \/ i \in DOMAIN s /\ (s \o t)[i] = s[i]
                                 \/ i - Len(s) \in DOMAIN t /\ (s \o t)[i] = t[i - Len(s)]
  BY <1>1, <1>2
<1>6. ToSet(s \o t) = ToSet(s) \cup ToSet(t)
  <2>1. ToSet(s) \subseteq ToSet(s \o t)
    BY <1>4 DEF ToSet
  <2>2. ToSet(t) \subseteq ToSet(s \o t)
    BY <1>3 DEF ToSet
  <2>3. ToSet(s \o t) \subseteq ToSet(s) \cup ToSet(t)
    BY <1>5 DEF ToSet
  <2> QED
    BY <2>1, <2>2, <2>3
<1> QED
  BY <1>1, <1>6, ConcatEqualIffEmpty

LEMMA EmptySet == \A S : <<>> \in Seq(S) /\ Len(<<>>) = 0 /\ ToSet(<<>>) = {}
BY EmptySeq, LenProperties DEF ToSet

LEMMA SetType ==
    ASSUME NEW S, NEW s \in Seq(S)
    PROVE  ToSet(s) \subseteq S /\ (ToSet(s) = {} => s = <<>>)
<1>1. DOMAIN s = 1..Len(s) /\ Len(s) \in Nat /\ \A i \in 1..Len(s) : s[i] \in S
  BY LenProperties, ElementOfSeq
<1>2. ToSet(s) \subseteq S
  BY <1>1 DEF ToSet
<1>3. ASSUME ToSet(s) = {} PROVE s = <<>>
  <2>1. 1 \notin DOMAIN s
    BY <1>3 DEF ToSet
  <2>2. Len(s) = 0
    BY <1>1, <2>1
  <2> QED
    BY <2>2, EmptySeq
<1> QED
  BY <1>2, <1>3

LEMMA OneBatch ==
    ASSUME NEW S, NEW s \in Seq(S)
    PROVE  /\ <<s>> \in Seq(Seq(S)) /\ Len(<<s>>) = 1 /\ <<s>> # <<>>
           /\ Head(<<s>>) = s /\ Tail(<<s>>) = <<>>
           /\ Append(<<>>, s) = <<s>>
           /\ UNION {ToSet(b) : b \in ToSet(<<s>>)} = ToSet(s)
<1>1. ToSet(<<s>>) = {s}
  BY DEF ToSet
<1> QED
  BY <1>1

LEMMA SetOfSeq ==
    ASSUME NEW S, IsFiniteSet(S), NEW f \in SetToSeqs(S)
    PROVE  f \in Seq(S) /\ ToSet(f) = S
<1>1. f \in Injection(1..Cardinality(S), S) /\ Cardinality(S) \in Nat
  BY FS_CardinalityType DEF SetToSeqs, Injection, IsInjective
<1>2. f \in Surjection(1..Cardinality(S), S)
  BY <1>1, FS_Injection, FS_CardinalityType, FS_Interval
<1>3. f \in [1..Cardinality(S) -> S]
  BY <1>1 DEF Injection
<1> QED
  BY <1>1, <1>2, <1>3 DEF Surjection, ToSet

-----------------------------------------------------------------------------
(* Notices and their keys.                                                 *)

LEMMA Keys ==
    /\ \A r \in Turn : RunKey(r) \in Key
    /\ \A b \in Boot : CutKey(b) \in Key
    /\ \A k \in 1..MaxPeers : PeerKey(k) \in Key
    /\ \A r, q : RunKey(r) = RunKey(q) <=> r = q
    /\ \A r, q : CutKey(r) = CutKey(q) <=> r = q
    /\ \A r, q : PeerKey(r) = PeerKey(q) <=> r = q
    /\ \A r, q : RunKey(r) # CutKey(q) /\ RunKey(r) # PeerKey(q) /\ CutKey(r) # PeerKey(q)
    /\ \A r : RunKey(r) # NoKey /\ CutKey(r) # NoKey
BY DEF RunKey, CutKey, PeerKey, NoKey, Key

LEMMA KeyCases ==
    ASSUME NEW k \in Key
    PROVE  \/ \E r \in Turn : k = RunKey(r)
           \/ \E b \in Boot : k = CutKey(b)
           \/ \E p \in 1..MaxPeers : k = PeerKey(p)
BY DEF RunKey, CutKey, PeerKey, Key

LEMMA Notes ==
    /\ \A w, v, k, l : Note(w, k) = Note(v, l) <=> w = v /\ k = l
    /\ \A w \in Workers, k \in Key : Note(w, k) \in Notice
    /\ \A n \in Notice :
          \/ n.from \in Workers /\ n.key \in Key /\ n = Note(n.from, n.key)
          \/ n.from = Lead /\ \E b \in Boot : n = ResumeNote(b)
<1>1. ASSUME NEW w, NEW v, NEW k, NEW l PROVE Note(w, k) = Note(v, l) <=> w = v /\ k = l
  <2>1. Note(w, k).from = w /\ Note(w, k).key = k /\ Note(v, l).from = v /\ Note(v, l).key = l
    BY DEF Note
  <2> QED
    BY <2>1 DEF Note
<1> QED
  BY <1>1 DEF Note, Notice, ResumeNote

LEMMA ResumeNotes ==
    /\ \A b \in Boot : ResumeNote(b) \in Notice
    /\ \A a, b : ResumeNote(a) = ResumeNote(b) <=> a = b
    /\ \A w \in Workers : \A k, b : ResumeNote(b) # Note(w, k)
<1>1. \A a, b : ResumeKey(a) = ResumeKey(b) <=> a = b
  BY DEF ResumeKey
<1> QED
  BY <1>1, Notes, WorkersAssumption DEF ResumeNote, Notice

-----------------------------------------------------------------------------
(* What happens to the store and the batches.                              *)

\* A record of the store that differs in the queue at most.
SameRest(q, m) ==
    /\ q.lead = m.lead /\ q.held = m.held /\ q.auto = m.auto /\ q.told = m.told
    /\ q.status = m.status /\ q.key = m.key /\ q.cut = m.cut

LEMMA EnqueuedFields ==
    ASSUME NEW m \in Stored, NEW n \in Notice
    PROVE  LET q == Enqueued(m, n, FALSE) IN
           /\ q \in Stored /\ SameRest(q, m) /\ q.queue # <<>>
           /\ ToSet(q.queue) = ToSet(m.queue) \cup {n}
<1> DEFINE s == Append(m.queue, n)
<1>1. s \in Seq(Notice) /\ s # <<>> /\ ToSet(s) = ToSet(m.queue) \cup {n}
  BY AppendSet DEF Stored
<1>2. Enqueued(m, n, FALSE) = [m EXCEPT !.queue = s, !.held = m.held]
  BY DEF Enqueued, Stored
<1> HIDE DEF s
<1>3. [m EXCEPT !.queue = s, !.held = m.held] = [m EXCEPT !.queue = s]
  BY DEF Stored
<1> QED
  BY <1>1, <1>2, <1>3 DEF Stored, SameRest

\* A queue that is flushed is the one batch that is about to start.
Sent(m) ==
    /\ m.queue # <<>> /\ m.lead # "working" /\ ~m.held
    /\ mem'.queue = <<>>
    /\ deferred' = <<m.queue>> /\ deferred' # <<>> /\ Len(deferred') = 1
    /\ Flushed' = ToSet(m.queue)
    /\ starting' /\ ~stranded'

Unsent(m) ==
    /\ m.queue = <<>> \/ m.lead = "working" \/ m.held
    /\ mem'.queue = m.queue
    /\ deferred' = <<>> /\ Flushed' = {}
    /\ starting' = starting /\ stranded' = stranded

LEMMA FlushedEmpty ==
    /\ deferred = <<>> => Flushed = {}
    /\ deferred' = <<>> => Flushed' = {}
BY EmptySet DEF Flushed, ToSet

LEMMA FlushFields ==
    ASSUME NEW m \in Stored, Idle, starting \in BOOLEAN, stranded \in BOOLEAN, Flush(m)
    PROVE  /\ mem' \in Stored /\ SameRest(mem', m)
           /\ Sent(m) \/ Unsent(m)
           /\ deferred' \in Seq(Seq(Notice)) /\ starting' \in BOOLEAN /\ stranded' \in BOOLEAN
           /\ Flushed' \cup ToSet(mem'.queue) = ToSet(m.queue)
<1>1. CASE Deliverable(m)
  <2>1. /\ mem' = [m EXCEPT !.queue = <<>>] /\ deferred' = Append(<<>>, m.queue)
        /\ starting' = TRUE /\ stranded' = FALSE
    BY <1>1 DEF Flush, Idle
  <2>2. m.queue \in Seq(Notice)
    BY DEF Stored
  <2>3. /\ deferred' = <<m.queue>> /\ deferred' \in Seq(Seq(Notice)) /\ Len(deferred') = 1
        /\ deferred' # <<>>
        /\ UNION {ToSet(b) : b \in ToSet(deferred')} = ToSet(m.queue)
    BY <2>1, <2>2, OneBatch
  <2>4. Flushed' = ToSet(m.queue)
    BY <2>3 DEF Flushed, ToSet
  <2>5. mem' \in Stored /\ SameRest(mem', m) /\ mem'.queue = <<>> /\ ToSet(mem'.queue) = {}
    BY <2>1, EmptySet DEF Stored, SameRest
  <2> QED
    BY <1>1, <2>1, <2>3, <2>4, <2>5 DEF Sent, Deliverable
<1>2. CASE ~Deliverable(m)
  <2>1. mem' = m /\ deferred' = <<>> /\ starting' = starting /\ stranded' = stranded
    BY <1>2 DEF Flush, Idle
  <2>2. deferred' \in Seq(Seq(Notice)) /\ Flushed' = {}
    BY <2>1, EmptySet, FlushedEmpty
  <2>3. SameRest(mem', m)
    BY <2>1 DEF SameRest
  <2> QED
    BY <1>2, <2>1, <2>2, <2>3 DEF Unsent, Deliverable
<1> QED
  BY <1>1, <1>2

\* What a notice that is queued leaves behind.
LEMMA PostFields ==
    ASSUME NEW m \in Stored, NEW n \in Notice, Idle, starting \in BOOLEAN, stranded \in BOOLEAN,
           sent \in [Notice -> Nat], Post(m, n)
    PROVE  /\ mem' \in Stored /\ SameRest(mem', m)
           /\ disk' \in Stored /\ SameRest(disk', m)
           /\ ToSet(disk'.queue) = ToSet(m.queue) \cup {n}
           /\ Flushed' \cup ToSet(mem'.queue) = ToSet(m.queue) \cup {n}
           /\ deferred' \in Seq(Seq(Notice)) /\ starting' \in BOOLEAN /\ stranded' \in BOOLEAN
           /\ sent' \in [Notice -> Nat] /\ sent'[n] = sent[n] + 1
           /\ \A x \in Notice : x # n => sent'[x] = sent[x]
           /\ \/ /\ m.lead # "working" /\ ~m.held /\ mem'.queue = <<>>
                 /\ deferred' # <<>> /\ Len(deferred') = 1
              \/ /\ m.lead = "working" \/ m.held
                 /\ deferred' = <<>> /\ Flushed' = {} /\ stranded' = stranded
<1> DEFINE q == Enqueued(m, n, FALSE)
<1>1. q \in Stored /\ SameRest(q, m) /\ q.queue # <<>> /\ ToSet(q.queue) = ToSet(m.queue) \cup {n}
  BY EnqueuedFields
<1>2. disk' = q /\ Flush(q) /\ sent' = [sent EXCEPT ![n] = @ + 1]
  BY DEF Post
<1> HIDE DEF q
<1>3. /\ mem' \in Stored /\ SameRest(mem', q)
      /\ Sent(q) \/ Unsent(q)
      /\ deferred' \in Seq(Seq(Notice)) /\ starting' \in BOOLEAN /\ stranded' \in BOOLEAN
      /\ Flushed' \cup ToSet(mem'.queue) = ToSet(q.queue)
  BY <1>1, <1>2, FlushFields
<1>4. /\ sent' \in [Notice -> Nat] /\ sent'[n] = sent[n] + 1
      /\ \A x \in Notice : x # n => sent'[x] = sent[x]
  BY <1>2
<1>5. SameRest(mem', m)
  BY <1>1, <1>3 DEF SameRest
<1>6. \/ /\ m.lead # "working" /\ ~m.held /\ mem'.queue = <<>>
         /\ deferred' # <<>> /\ Len(deferred') = 1
      \/ /\ m.lead = "working" \/ m.held
         /\ deferred' = <<>> /\ Flushed' = {} /\ stranded' = stranded
  BY <1>1, <1>3 DEF Sent, Unsent, SameRest
<1> QED
  BY <1>1, <1>2, <1>3, <1>4, <1>5, <1>6

-----------------------------------------------------------------------------
(* The inductive invariant.                                                *)

\* One batch is about to start at most, for a lead that does not run, and
\* nothing is queued behind it.
NoticeInv ==
    deferred # <<>> => ~LeadRuns /\ mem.queue = <<>> /\ Len(deferred) = 1

\* What a boot restored is held, and nothing is about to start.
HeldInv == restored # {} => mem.held /\ deferred = <<>>

\* A transcript on disk is no longer than the one in memory.
KeptInv == disk.told \subseteq mem.told /\ NoticesSurvive

\* The count on disk is one turn behind at most, and not at all while a further
\* notice is under way.
CountInv ==
    /\ streak <= mem.auto /\ streak <= disk.auto + 1
    /\ mem.queue # <<>> \/ deferred # <<>> => streak <= disk.auto

\* After the Stop of a lead no worker runs, and the commits that have not
\* settled are those of that moment.
StopInv ==
    /\ halt.on => /\ \A w \in Workers : ~Works(w)
                  /\ commits \subseteq halt.late
    /\ OnlyLateCommitsWake

\* A worker that runs has a run id, and no mark of an interruption.
TurnInv ==
    /\ \A w \in Workers : Works(w) => turns[w] # 0 /\ mem.cut[w] = 0
    /\ \A c \in commits : c.r <= turns[c.w]

\* The claim of a run id is kept for as long as its turn may ask again.
RunKeyInv ==
    /\ mem.key = disk.key
    /\ \A w \in Workers, r \in Turn :
          LET told == sent[Note(w, RunKey(r))] IN
          /\ told <= 1
          /\ mem.key[w] = RunKey(r) => told > 0
          /\ told > 0 => r <= turns[w]
          /\ told > 0 /\ r = turns[w] /\ (Works(w) \/ \E c \in commits : c.w = w) =>
                mem.key[w] = RunKey(r)

\* The claim of an interruption is kept for as long as a row, in memory or on
\* disk, bears its mark.
CutKeyInv ==
    \A w \in Workers :
        /\ mem.cut[w] <= restarts + 1 /\ disk.cut[w] <= restarts + 1
        /\ \A b \in Boot :
              LET told == sent[Note(w, CutKey(b))] IN
              /\ told <= 1
              /\ told > 0 => /\ b <= restarts
                             /\ mem.cut[w] = b \/ disk.cut[w] = b => mem.key[w] = CutKey(b)
                             /\ mem.cut[w] = b => \A c \in commits : c.w # w

\* A message of a peer is queued once.
PeerInv ==
    \A w \in Workers, k \in 1..MaxPeers :
        LET told == sent[Note(w, PeerKey(k))] IN told <= 1 /\ (told > 0 => k <= peers)

\* The last turn of a worker.
LastTurn(w) == [w |-> w, r |-> turns[w]]

\* Turns that overlap apart, the run id of a turn whose hooks have still to run
\* is not claimed, and a checkpoint that is being committed is of the last turn.
OverlapInv ==
    \A w \in Workers :
        /\ LastTurn(w) \notin overlapped /\ (Works(w) \/ LastTurn(w) \in commits) =>
              mem.key[w] # RunKey(turns[w])
        /\ \A c \in commits : c.w = w /\ (Works(w) \/ c # LastTurn(w)) =>
              c \in overlapped /\ LastTurn(w) \in overlapped

\* A boot resumes the lead once at most, and not after the lead was stopped.
ResumeInv ==
    /\ \A b \in Boot :
          LET told == sent[ResumeNote(b)] IN
          told <= 1 /\ (told > 0 => b <= restarts /\ (b = restarts => resume = "done"))
    /\ resume # "done" => restarts \in Boot
    /\ halt.on => resume # "queued"

DeliveryInv == NoticeInv /\ HeldInv /\ NoIdleNotices
ClaimInv == TurnInv /\ RunKeyInv /\ CutKeyInv /\ PeerInv /\ OverlapInv
IInv == TypeOK /\ DeliveryInv /\ KeptInv /\ CountInv /\ StopInv /\ ClaimInv /\ ResumeInv

-----------------------------------------------------------------------------
(* Steps that a part of the invariant does not mind.                       *)

\* No notice is lost between the queue, the batches and the transcript.
KeptStep ==
    /\ sent' = sent
    /\ mem.told \subseteq mem'.told
    /\ mem.told \cup ToSet(mem.queue) \cup Flushed
         \subseteq mem'.told \cup ToSet(mem'.queue) \cup Flushed'
    /\ \/ disk' = disk
       \/ disk'.told = mem'.told /\ disk'.queue = disk.queue
       \/ disk' = mem' /\ Flushed' = {}

LEMMA KeptKeeps ==
    ASSUME KeptInv, KeptStep
    PROVE  KeptInv'
<1>1. disk'.told \subseteq mem'.told
  BY DEF KeptInv, KeptStep
<1>2. ASSUME NEW n \in Notice, sent'[n] > 0
      PROVE  /\ n \in disk'.told \cup ToSet(disk'.queue)
             /\ n \in mem'.told \cup ToSet(mem'.queue) \cup Flushed'
  <2>1. /\ n \in disk.told \cup ToSet(disk.queue)
        /\ n \in mem.told \cup ToSet(mem.queue) \cup Flushed
    BY <1>2 DEF KeptInv, KeptStep, NoticesSurvive
  <2>2. n \in mem'.told \cup ToSet(mem'.queue) \cup Flushed'
    BY <2>1 DEF KeptStep
  <2> QED
    BY <2>1, <2>2 DEF KeptInv, KeptStep
<1> QED
  BY <1>1, <1>2 DEF KeptInv, NoticesSurvive

\* No machine-delivered turn starts.
CountStep ==
    /\ streak' = 0 \/ (streak' = streak /\ mem'.auto >= mem.auto)
    /\ disk'.auto = disk.auto \/ disk'.auto = mem'.auto
    /\ mem'.queue # <<>> \/ deferred' # <<>> =>
          mem.queue # <<>> \/ deferred # <<>> \/ disk'.auto = mem'.auto

LEMMA CountKeeps ==
    ASSUME TypeOK, CountInv, CountStep, TypeOK'
    PROVE  CountInv'
<1>1. /\ mem.auto \in Nat /\ disk.auto \in Nat /\ streak \in Nat
      /\ mem'.auto \in Nat /\ disk'.auto \in Nat /\ streak' \in Nat
  BY CapAssumption DEF TypeOK, Stored
<1> QED
  BY <1>1 DEF CountInv, CountStep

\* Nothing that could start the lead comes about, or somebody acted.
StopStep ==
    \/ ~halt'.on
    \/ /\ halt' = halt /\ commits' \subseteq commits
       /\ \A w \in Workers : mem'.status[w] = "working" => Works(w)
       /\ ToSet(mem'.queue) \cup Flushed' \subseteq ToSet(mem.queue) \cup Flushed

LEMMA StopKeeps ==
    ASSUME StopInv, StopStep
    PROVE  StopInv'
BY DEF StopInv, StopStep, OnlyLateCommitsWake, Works

\* No claim is made, and no turn begins.
ClaimStep ==
    /\ UNCHANGED <<sent, turns, peers, restarts, overlapped>> /\ commits' \subseteq commits
    /\ mem'.key = mem.key /\ mem'.cut = mem.cut
    /\ \A w \in Workers : mem'.status[w] = "working" => Works(w)
    /\ disk'.key = disk.key \/ disk'.key = mem.key
    /\ disk'.cut = disk.cut \/ disk'.cut = mem.cut

LEMMA ClaimKeeps ==
    ASSUME ClaimInv, ClaimStep
    PROVE  ClaimInv'
<1>1. TurnInv' /\ PeerInv' /\ OverlapInv'
  BY DEF ClaimInv, ClaimStep, TurnInv, PeerInv, OverlapInv, LastTurn, Works
<1>2. RunKeyInv'
  BY DEF ClaimInv, ClaimStep, RunKeyInv, Works
<1>3. CutKeyInv'
  BY DEF ClaimInv, ClaimStep, CutKeyInv, RunKeyInv
<1> QED
  BY <1>1, <1>2, <1>3 DEF ClaimInv

\* Nothing is resumed.
ResumeStep ==
    /\ UNCHANGED <<sent, restarts>> /\ resume' \in {resume, "done"}
    /\ halt'.on => halt.on \/ resume' # "queued"

LEMMA ResumeKeeps ==
    ASSUME ResumeInv, ResumeStep
    PROVE  ResumeInv'
BY DEF ResumeInv, ResumeStep

\* The same when notices of workers are queued.
LEMMA ResumeKept ==
    ASSUME ResumeInv, UNCHANGED <<resume, restarts>>, halt' = halt \/ ~halt'.on,
           NEW w \in Workers, NEW k \in Key,
           \A x \in Notice : x # Note(w, k) => sent'[x] = sent[x]
    PROVE  ResumeInv'
<1>1. \A b \in Boot : sent'[ResumeNote(b)] = sent[ResumeNote(b)]
  BY ResumeNotes
<1> QED
  BY <1>1 DEF ResumeInv

-----------------------------------------------------------------------------
(* Workers and peers.                                                      *)

LEMMA Types ==
    ASSUME TypeOK
    PROVE  /\ mem \in Stored /\ disk \in Stored /\ sent \in [Notice -> Nat]
           /\ starting \in BOOLEAN /\ stranded \in BOOLEAN
           /\ turns \in [Workers -> 0..MaxTurns] /\ restarts \in Nat /\ peers \in Nat
           /\ MaxTurns \in Nat /\ MaxPeers \in Nat /\ MaxPending \in Nat /\ MaxRestarts \in Nat
           /\ \A w \in Workers : turns[w] \in Nat /\ (turns[w] # 0 => turns[w] \in Turn)
BY BoundsAssumption DEF TypeOK, Turn

\* The end of a worker's turn is announced, unless its run id was: m is the
\* store with the end in it.
Announcing(m, w, e) ==
    /\ m \in Stored /\ w \in Workers /\ e \in [w: Workers, r: Turn]
    /\ e.w = w /\ e.r <= turns[w] /\ turns[w] # 0
    /\ m.lead = mem.lead /\ m.queue = mem.queue /\ m.held = mem.held /\ m.auto = mem.auto
    /\ m.told = mem.told /\ m.key = mem.key /\ m.cut = mem.cut
    /\ \A v \in Workers : m.status[v] = "working" => Works(v)
    /\ Works(w) \/ \E c \in commits : c.w = w
    /\ commits' \subseteq commits
    /\ m.status[w] = "working" \/ LastTurn(w) \in commits' => LastTurn(w) \in overlapped
    /\ halt.on => e \in halt.late
    /\ Idle
    /\ UNCHANGED <<leadVars, typed, resume, phase, countVars, overlapped, streak, restored, halt>>

LEMMA PostKeeps ==
    ASSUME IInv, NEW m, NEW w, NEW e, Announcing(m, w, e), mem.key[w] # RunKey(turns[w]),
           Post([m EXCEPT !.key[w] = RunKey(turns[w])], Note(w, RunKey(turns[w])))
    PROVE  IInv'
<1> DEFINE k == RunKey(turns[w])
           n == Note(w, k)
           q == [m EXCEPT !.key[w] = k]
<1>1. /\ mem \in Stored /\ disk \in Stored /\ sent \in [Notice -> Nat]
      /\ starting \in BOOLEAN /\ stranded \in BOOLEAN
      /\ turns[w] \in Turn /\ w \in Workers /\ m \in Stored
  BY Types DEF IInv, Announcing
<1>2. k \in Key /\ n \in Notice
  BY <1>1, Keys, Notes
<1>3. /\ q \in Stored /\ q.lead = mem.lead /\ q.queue = mem.queue /\ q.held = mem.held
      /\ q.auto = mem.auto /\ q.told = mem.told /\ q.cut = mem.cut /\ q.status = m.status
      /\ q.key = [mem.key EXCEPT ![w] = k]
  BY <1>1, <1>2 DEF Stored, Announcing
<1>4. Post(q, n) /\ Idle
  BY DEF Announcing
<1>5. sent[n] = 0
  <2>1. sent[n] > 0 => mem.key[w] = k
    BY <1>1 DEF IInv, ClaimInv, RunKeyInv, Announcing
  <2>2. sent[n] \in Nat
    BY <1>1, <1>2
  <2> QED
    BY <2>1, <2>2
<1> HIDE DEF q
<1>6. /\ mem' \in Stored /\ SameRest(mem', q)
      /\ disk' \in Stored /\ SameRest(disk', q)
      /\ ToSet(disk'.queue) = ToSet(q.queue) \cup {n}
      /\ Flushed' \cup ToSet(mem'.queue) = ToSet(q.queue) \cup {n}
      /\ deferred' \in Seq(Seq(Notice)) /\ starting' \in BOOLEAN /\ stranded' \in BOOLEAN
      /\ sent' \in [Notice -> Nat] /\ sent'[n] = sent[n] + 1
      /\ \A x \in Notice : x # n => sent'[x] = sent[x]
      /\ \/ /\ q.lead # "working" /\ ~q.held /\ mem'.queue = <<>>
            /\ deferred' # <<>> /\ Len(deferred') = 1
         \/ /\ q.lead = "working" \/ q.held
            /\ deferred' = <<>> /\ Flushed' = {} /\ stranded' = stranded
  BY <1>1, <1>2, <1>3, <1>4, PostFields
<1>7. TypeOK'
  BY <1>6 DEF IInv, TypeOK, Announcing, leadVars, countVars
<1>8. DeliveryInv'
  <2>1. mem'.lead = mem.lead /\ mem'.held = mem.held /\ restored' = restored
    BY <1>3, <1>6 DEF SameRest, Announcing
  <2> QED
    BY <1>3, <1>6, <2>1 DEF IInv, DeliveryInv, NoticeInv, HeldInv, NoIdleNotices, LeadRuns
<1>9. KeptInv'
  <2>1. mem'.told = mem.told /\ disk'.told = mem.told /\ q.queue = mem.queue
    BY <1>3, <1>6 DEF SameRest
  <2>2. Flushed = {}
    BY <1>4, FlushedEmpty DEF Idle
  <2>3. ASSUME NEW x \in Notice, sent'[x] > 0
        PROVE  x \in mem.told \cup ToSet(mem.queue) \cup {n}
    BY <1>6, <2>2, <2>3 DEF IInv, KeptInv, NoticesSurvive
  <2>4. NoticesSurvive'
    BY <1>6, <2>1, <2>3 DEF NoticesSurvive
  <2> QED
    BY <2>1, <2>4 DEF KeptInv
<1>10. CountInv'
  <2>1. CountStep
    <3>1. streak' = streak /\ mem'.auto = mem.auto /\ disk'.auto = mem'.auto /\ mem.auto \in Nat
      BY <1>1, <1>3, <1>6, CapAssumption DEF SameRest, Announcing, Stored
    <3> QED
      BY <3>1 DEF CountStep
  <2> QED
    BY <1>7, <2>1, CountKeeps DEF IInv
<1>11. StopInv'
  <2>1. halt' = halt /\ commits' \subseteq commits /\ q.queue = mem.queue
    BY <1>3 DEF Announcing
  <2>2. \A v \in Workers : mem'.status[v] = "working" => Works(v)
    BY <1>3, <1>6 DEF SameRest, Announcing
  <2>3. ASSUME halt.on, NEW x \in ToSet(mem'.queue) \cup Flushed'
        PROVE  \E c \in halt.late, r \in Turn : c.r <= r /\ x = Note(c.w, RunKey(r))
    <3>1. CASE x = n
      <4>1. e \in halt.late /\ e.r <= turns[w] /\ e.w = w
        BY <2>3 DEF Announcing
      <4> QED
        BY <1>1, <3>1, <4>1
    <3>2. CASE x # n
      <4>1. x \in ToSet(mem.queue)
        BY <1>6, <2>1, <2>3, <3>2
      <4> QED
        BY <2>3, <4>1 DEF IInv, StopInv, OnlyLateCommitsWake
    <3> QED
      BY <3>1, <3>2
  <2> QED
    BY <2>1, <2>2, <2>3 DEF IInv, StopInv, OnlyLateCommitsWake, Works
<1>12. ClaimInv'
  <2>1. /\ turns' = turns /\ peers' = peers /\ restarts' = restarts /\ commits' \subseteq commits
    BY DEF Announcing, countVars
  <2>2. /\ mem'.key = [mem.key EXCEPT ![w] = k] /\ disk'.key = mem'.key
        /\ mem'.cut = mem.cut /\ disk'.cut = mem.cut
        /\ \A v \in Workers : mem'.status[v] = "working" => Works(v)
    BY <1>3, <1>6 DEF SameRest, Announcing
  <2>3. /\ \A v \in Workers : mem'.key[v] = IF v = w THEN k ELSE mem.key[v]
        /\ mem'.key[w] = k
    BY <1>1, <2>2 DEF Stored
  <2>4. TurnInv'
    BY <2>1, <2>2 DEF IInv, ClaimInv, TurnInv, Works
  <2>5. RunKeyInv'
    <3>1. ASSUME NEW v \in Workers, NEW r \in Turn
          PROVE  LET told == sent'[Note(v, RunKey(r))] IN
                 /\ told <= 1
                 /\ mem'.key[v] = RunKey(r) => told > 0
                 /\ told > 0 => r <= turns'[v]
                 /\ told > 0 /\ r = turns'[v] /\ (Works(v)' \/ \E c \in commits' : c.w = v) =>
                       mem'.key[v] = RunKey(r)
      <4>1. CASE v = w /\ r = turns[w]
        <5>1. sent'[Note(v, RunKey(r))] = 1 /\ r <= turns'[v] /\ mem'.key[v] = RunKey(r)
          BY <1>1, <1>5, <1>6, <2>1, <2>3, <4>1 DEF Turn
        <5> QED
          BY <5>1
      <4>2. CASE ~(v = w /\ r = turns[w])
        <5>1. Note(v, RunKey(r)) \in Notice /\ Note(v, RunKey(r)) # n
          BY <4>2, Keys, Notes
        <5>2. sent'[Note(v, RunKey(r))] = sent[Note(v, RunKey(r))]
          BY <1>6, <5>1
        <5>3. mem'.key[v] = RunKey(r) => mem.key[v] = RunKey(r)
          BY <2>3, <4>2, Keys
        <5>4. r = turns'[v] => mem'.key[v] = mem.key[v]
          BY <2>1, <2>3, <4>2
        <5> QED
          BY <2>1, <2>2, <5>2, <5>3, <5>4 DEF IInv, ClaimInv, RunKeyInv, Works
      <4> QED
        BY <4>1, <4>2
    <3> QED
      BY <2>2, <3>1 DEF RunKeyInv
  <2>6. CutKeyInv'
    <3>1. ASSUME NEW v \in Workers, NEW b \in Boot
          PROVE  LET told == sent'[Note(v, CutKey(b))] IN
                 /\ told <= 1
                 /\ told > 0 => /\ b <= restarts'
                                /\ mem'.cut[v] = b \/ disk'.cut[v] = b => mem'.key[v] = CutKey(b)
                                /\ mem'.cut[v] = b => \A c \in commits' : c.w # v
      <4>1. sent'[Note(v, CutKey(b))] = sent[Note(v, CutKey(b))]
        <5>1. Note(v, CutKey(b)) \in Notice /\ Note(v, CutKey(b)) # n
          <6>1. CutKey(b) \in Key /\ CutKey(b) # k
            BY Keys
          <6> HIDE DEF k
          <6> QED
            BY <6>1, Notes
        <5> QED
          BY <1>6, <5>1
      <4>2. /\ sent[Note(v, CutKey(b))] <= 1
            /\ sent[Note(v, CutKey(b))] > 0 =>
                 /\ b <= restarts
                 /\ mem.cut[v] = b => mem.key[v] = CutKey(b) /\ \A c \in commits : c.w # v
        BY DEF IInv, ClaimInv, CutKeyInv
      <4>3. v = w /\ mem.cut[w] = b => \E c \in commits : c.w = w
        BY DEF IInv, ClaimInv, TurnInv, Announcing, Boot
      <4> QED
        BY <2>1, <2>2, <2>3, <4>1, <4>2, <4>3
    <3> QED
      BY <2>1, <2>2, <3>1 DEF IInv, ClaimInv, CutKeyInv
  <2>7. PeerInv'
    <3>1. \A v \in Workers, j \in 1..MaxPeers : sent'[Note(v, PeerKey(j))] = sent[Note(v, PeerKey(j))]
      BY <1>6, Keys, Notes
    <3> QED
      BY <2>1, <3>1 DEF IInv, ClaimInv, PeerInv
  <2>8. OverlapInv'
    <3>1. ASSUME NEW v \in Workers
          PROVE  /\ LastTurn(v) \notin overlapped /\ (Works(v)' \/ LastTurn(v) \in commits') =>
                       mem'.key[v] # RunKey(turns[v])
                 /\ \A c \in commits' : c.w = v /\ (Works(v)' \/ c # LastTurn(v)) =>
                       c \in overlapped /\ LastTurn(v) \in overlapped
      <4>1. \A c \in commits' : c.w = v /\ (Works(v)' \/ c # LastTurn(v)) =>
                c \in overlapped /\ LastTurn(v) \in overlapped
        BY <2>1, <2>2 DEF IInv, ClaimInv, OverlapInv, Works
      <4>2. CASE v = w
        <5>1. mem'.status[w] = m.status[w]
          BY <1>3, <1>6 DEF SameRest
        <5> QED
          BY <4>1, <4>2, <5>1 DEF Announcing, Works
      <4>3. CASE v # w
        BY <2>1, <2>2, <2>3, <4>1, <4>3 DEF IInv, ClaimInv, OverlapInv, Works
      <4> QED
        BY <4>2, <4>3
    <3>2. UNCHANGED <<turns, overlapped>>
      BY <2>1 DEF Announcing
    <3> QED
      BY <3>1, <3>2 DEF OverlapInv, LastTurn
  <2> QED
    BY <2>4, <2>5, <2>6, <2>7, <2>8 DEF ClaimInv
<1>13. ResumeInv'
  <2>1. UNCHANGED <<resume, restarts, halt>>
    BY DEF Announcing, countVars
  <2> QED
    BY <1>1, <1>2, <1>6, <2>1, ResumeKept DEF IInv
<1> QED
  BY <1>7, <1>8, <1>9, <1>10, <1>11, <1>12, <1>13 DEF IInv

LEMMA CalmKeeps ==
    ASSUME IInv, TypeOK', DeliveryInv', KeptStep, CountStep, StopStep, ClaimStep, ResumeStep
    PROVE  IInv'
BY KeptKeeps, CountKeeps, StopKeeps, ClaimKeeps, ResumeKeeps DEF IInv

LEMMA AnnounceKeeps ==
    ASSUME IInv, NEW m, NEW w, NEW e, Announcing(m, w, e), QueueOrchNotice(m, w)
    PROVE  IInv'
<1> DEFINE k == RunKey(turns[w])
<1>1. m.key = mem.key
  BY DEF Announcing
<1>2. CASE mem.key[w] # k
  <2>1. Post([m EXCEPT !.key[w] = k], Note(w, k))
    BY <1>1, <1>2 DEF QueueOrchNotice
  <2> QED
    BY <1>2, <2>1, PostKeeps
<1>3. CASE mem.key[w] = k
  <2>1. mem' = m /\ UNCHANGED <<disk, deferred, starting, stranded, sent>>
    BY <1>1, <1>3 DEF QueueOrchNotice
  <2>2. Flushed' = Flushed
    BY <2>1 DEF Flushed
  <2>3. /\ mem \in Stored /\ w \in Workers /\ turns[w] \in Turn /\ MaxTurns \in Nat
        /\ turns[w] \in Nat
    BY Types DEF IInv, Announcing
  <2>4. TypeOK'
    BY <2>1 DEF IInv, TypeOK, Announcing, leadVars, countVars
  <2>5. DeliveryInv'
    BY <2>1 DEF IInv, DeliveryInv, NoticeInv, HeldInv, NoIdleNotices, LeadRuns, Up, Idle, Announcing,
                leadVars
  <2>6. KeptStep
    BY <2>1, <2>2 DEF KeptStep, Announcing
  <2>7. CountStep
    BY <2>1, CapAssumption DEF CountStep, Announcing, IInv, TypeOK, Stored
  <2>8. StopStep
    BY <2>1, <2>2 DEF StopStep, Announcing
  <2>9. ClaimStep
    BY <2>1 DEF ClaimStep, Announcing, countVars
  <2>10. ResumeStep
    BY <2>1 DEF ResumeStep, Announcing, countVars
  <2> QED
    BY <2>4, <2>5, <2>6, <2>7, <2>8, <2>9, <2>10, CalmKeeps
<1> QED
  BY <1>2, <1>3

LEMMA CommitSettlesKeeps ==
    ASSUME IInv, NEW c \in commits, CommitSettles(c)
    PROVE  IInv'
<1>1. c \in [w: Workers, r: Turn] /\ c.r <= turns[c.w] /\ c.w \in Workers /\ c.r \in Turn
  BY DEF IInv, TypeOK, ClaimInv, TurnInv
<1>2. turns[c.w] # 0
  BY <1>1, Types DEF IInv, Turn
<1>3. halt.on => c \in halt.late
  BY DEF IInv, StopInv
<1>4. Works(c.w) \/ LastTurn(c.w) \in commits' => LastTurn(c.w) \in overlapped
  BY <1>1 DEF IInv, ClaimInv, OverlapInv, CommitSettles
<1>5. Announcing(mem, c.w, c) /\ QueueOrchNotice(mem, c.w)
  BY <1>1, <1>2, <1>3, <1>4, Types DEF CommitSettles, Announcing, IInv, Works
<1> QED
  BY <1>5, AnnounceKeeps

LEMMA WorkerFailsKeeps ==
    ASSUME IInv, NEW w \in Workers, WorkerFails(w)
    PROVE  IInv'
<1> DEFINE m == [mem EXCEPT !.status[w] = "failed"]
           e == [w |-> w, r |-> turns[w]]
<1>1. mem \in Stored /\ turns[w] # 0 /\ turns[w] \in Turn /\ turns[w] \in Nat /\ Works(w)
  BY Types DEF IInv, ClaimInv, TurnInv, WorkerFails
<1>2. /\ m \in Stored
      /\ m.lead = mem.lead /\ m.queue = mem.queue /\ m.held = mem.held /\ m.auto = mem.auto
      /\ m.told = mem.told /\ m.key = mem.key /\ m.cut = mem.cut
      /\ \A v \in Workers : m.status[v] = "working" => Works(v)
  BY <1>1 DEF Stored, Status, Works
<1>3. e \in [w: Workers, r: Turn] /\ e.w = w /\ e.r = turns[w] /\ e.r <= turns[w]
  BY <1>1
<1>4. ~halt.on
  BY <1>1 DEF IInv, StopInv
<1>5. /\ QueueOrchNotice(m, w) /\ Idle
      /\ UNCHANGED <<leadVars, commits, typed, resume, phase, countVars, overlapped, streak,
                     restored, halt>>
  BY DEF WorkerFails, Up
<1>6. /\ m.status[w] # "working"
      /\ LastTurn(w) \in commits => LastTurn(w) \in overlapped
  BY <1>1 DEF IInv, ClaimInv, OverlapInv, LastTurn, Stored
<1> HIDE DEF m, e
<1>7. Announcing(m, w, e)
  BY <1>1, <1>2, <1>3, <1>4, <1>5, <1>6 DEF Announcing
<1> QED
  BY <1>5, <1>7, AnnounceKeeps

LEMMA PeerSendsKeeps ==
    ASSUME IInv, NEW w \in Workers, PeerSends(w)
    PROVE  IInv'
<1> DEFINE n == Note(w, PeerKey(peers + 1))
<1>1. /\ mem \in Stored /\ disk \in Stored /\ sent \in [Notice -> Nat]
      /\ starting \in BOOLEAN /\ stranded \in BOOLEAN /\ peers \in Nat /\ MaxPeers \in Nat
  BY Types DEF IInv
<1>2. /\ peers < MaxPeers /\ peers' = peers + 1 /\ Post(mem, n) /\ halt' = NoHalt /\ Idle
      /\ UNCHANGED <<leadVars, commits, typed, resume, phase, turns, restarts, overlapped, streak, restored>>
  BY DEF PeerSends, Up
<1>3. n \in Notice /\ peers + 1 \in 1..MaxPeers
  BY <1>1, <1>2, Keys, Notes
<1>4. sent[n] = 0
  BY <1>1, <1>3 DEF IInv, ClaimInv, PeerInv
<1>5. /\ mem' \in Stored /\ SameRest(mem', mem)
      /\ disk' \in Stored /\ SameRest(disk', mem)
      /\ ToSet(disk'.queue) = ToSet(mem.queue) \cup {n}
      /\ Flushed' \cup ToSet(mem'.queue) = ToSet(mem.queue) \cup {n}
      /\ deferred' \in Seq(Seq(Notice)) /\ starting' \in BOOLEAN /\ stranded' \in BOOLEAN
      /\ sent' \in [Notice -> Nat] /\ sent'[n] = sent[n] + 1
      /\ \A x \in Notice : x # n => sent'[x] = sent[x]
      /\ \/ /\ mem.lead # "working" /\ ~mem.held /\ mem'.queue = <<>>
            /\ deferred' # <<>> /\ Len(deferred') = 1
         \/ /\ mem.lead = "working" \/ mem.held
            /\ deferred' = <<>> /\ Flushed' = {} /\ stranded' = stranded
  BY <1>1, <1>2, <1>3, PostFields
<1> HIDE DEF n
<1>6. TypeOK'
  BY <1>1, <1>2, <1>5 DEF IInv, TypeOK, leadVars, NoHalt
<1>7. DeliveryInv'
  BY <1>2, <1>5 DEF IInv, DeliveryInv, NoticeInv, HeldInv, NoIdleNotices, LeadRuns, SameRest
<1>8. KeptInv'
  <2>1. Flushed = {} /\ mem'.told = mem.told /\ disk'.told = mem.told
    BY <1>2, <1>5, FlushedEmpty DEF Idle, SameRest
  <2>2. ASSUME NEW x \in Notice, sent'[x] > 0
        PROVE  x \in mem.told \cup ToSet(mem.queue) \cup {n}
    BY <1>5, <2>1, <2>2 DEF IInv, KeptInv, NoticesSurvive
  <2>3. NoticesSurvive'
    BY <1>5, <2>1, <2>2 DEF NoticesSurvive
  <2> QED
    BY <2>1, <2>3 DEF KeptInv
<1>9. CountInv'
  <2>1. CountStep
    <3>1. streak' = streak /\ mem'.auto = mem.auto /\ disk'.auto = mem'.auto /\ mem.auto \in Nat
      BY <1>1, <1>2, <1>5, CapAssumption DEF SameRest, Stored
    <3> QED
      BY <3>1 DEF CountStep
  <2> QED
    BY <1>6, <2>1, CountKeeps DEF IInv
<1>10. StopInv'
  <2>1. StopStep
    BY <1>2 DEF StopStep, NoHalt
  <2> QED
    BY <2>1, StopKeeps DEF IInv
<1>11. ClaimInv'
  <2>1. \A v \in Workers, k \in Key : k # PeerKey(peers + 1) => sent'[Note(v, k)] = sent[Note(v, k)]
    BY <1>5, Notes DEF n
  <2>2. /\ \A v \in Workers, r \in Turn : sent'[Note(v, RunKey(r))] = sent[Note(v, RunKey(r))]
        /\ \A v \in Workers, b \in Boot : sent'[Note(v, CutKey(b))] = sent[Note(v, CutKey(b))]
    BY <2>1, Keys
  <2>3. /\ mem'.key = mem.key /\ disk'.key = mem.key /\ mem'.cut = mem.cut /\ disk'.cut = mem.cut
        /\ mem'.status = mem.status
    BY <1>5 DEF SameRest
  <2>4. TurnInv' /\ RunKeyInv'
    BY <1>2, <2>2, <2>3 DEF IInv, ClaimInv, TurnInv, RunKeyInv, Works
  <2>5. CutKeyInv'
    BY <1>2, <2>2, <2>3 DEF IInv, ClaimInv, CutKeyInv
  <2>6. PeerInv'
    <3>1. ASSUME NEW v \in Workers, NEW k \in 1..MaxPeers
          PROVE  sent'[Note(v, PeerKey(k))] <= 1 /\ (sent'[Note(v, PeerKey(k))] > 0 => k <= peers')
      <4>1. CASE v = w /\ k = peers + 1
        BY <1>2, <1>4, <1>5, <1>3, <4>1 DEF n
      <4>2. CASE ~(v = w /\ k = peers + 1)
        <5>1. sent'[Note(v, PeerKey(k))] = sent[Note(v, PeerKey(k))]
          <6>1. Note(v, PeerKey(k)) \in Notice /\ Note(v, PeerKey(k)) # n
            BY <4>2, Keys, Notes DEF n
          <6> QED
            BY <1>5, <6>1
        <5> QED
          BY <1>1, <1>2, <5>1 DEF IInv, ClaimInv, PeerInv
      <4> QED
        BY <4>1, <4>2
    <3> QED
      BY <3>1 DEF PeerInv
  <2>7. OverlapInv'
    BY <1>2, <2>3 DEF IInv, ClaimInv, OverlapInv, LastTurn, Works
  <2> QED
    BY <2>4, <2>5, <2>6, <2>7 DEF ClaimInv
<1>12. ResumeInv'
  <2>1. halt' = halt \/ ~halt'.on
    BY <1>2 DEF NoHalt
  <2>2. PeerKey(peers + 1) \in Key
    BY <1>3, Keys
  <2> QED
    BY <1>2, <1>5, <2>1, <2>2, ResumeKept DEF IInv, n
<1> QED
  BY <1>6, <1>7, <1>8, <1>9, <1>10, <1>11, <1>12 DEF IInv

LEMMA WorkerStartsKeeps ==
    ASSUME IInv, NEW w \in Workers, WorkerStarts(w)
    PROVE  IInv'
<1>1. /\ mem \in Stored /\ disk \in Stored /\ MaxTurns \in Nat
      /\ turns \in [Workers -> 0..MaxTurns] /\ turns[w] \in Nat /\ restarts \in Nat
  BY Types DEF IInv
<1>2. /\ turns' = [turns EXCEPT ![w] = @ + 1]
      /\ mem' = [mem EXCEPT !.status[w] = "working", !.cut[w] = 0]
      /\ halt' = NoHalt /\ Idle
      /\ overlapped' = {e \in overlapped : e.w # w} \cup
           IF Committing(w) = {} THEN {}
           ELSE Committing(w) \cup {[w |-> w, r |-> turns[w] + 1]}
      /\ UNCHANGED <<disk, leadVars, commits, deferred, starting, typed, resume, phase, peers,
                     restarts, sent, streak, restored, stranded>>
  BY DEF WorkerStarts, Up
<1>3. turns[w] < MaxTurns
  <2> DEFINE one == {[w |-> w, r |-> i] : i \in 1..turns[w]}
             f == [i \in 1..turns[w] |-> [w |-> w, r |-> i]]
  <2>1. IsFiniteSet(TurnsTaken) /\ Cardinality(TurnsTaken) \in Nat
    <3> DEFINE g == [p \in Workers \X Turn |-> [w |-> p[1], r |-> p[2]]]
    <3>1. IsFiniteSet(Workers \X Turn)
      <4>1. IsFiniteSet(Turn)
        BY <1>1, FS_Interval DEF Turn
      <4> QED
        BY WorkersAssumption, <4>1, FS_Product
    <3>2. g \in Surjection(Workers \X Turn, [w: Workers, r: Turn])
      <4>1. g \in [Workers \X Turn -> [w: Workers, r: Turn]]
        OBVIOUS
      <4>2. ASSUME NEW e \in [w: Workers, r: Turn] PROVE \E p \in Workers \X Turn : g[p] = e
        <5>1. <<e.w, e.r>> \in Workers \X Turn /\ g[<<e.w, e.r>>] = e
          OBVIOUS
        <5> QED
          BY <5>1
      <4> QED
        BY <4>1, <4>2 DEF Surjection
    <3>3. IsFiniteSet([w: Workers, r: Turn])
      BY <3>1, <3>2, FS_Surjection
    <3>4. TurnsTaken \subseteq [w: Workers, r: Turn]
      BY DEF TurnsTaken
    <3> QED
      BY <3>3, <3>4, FS_Subset, FS_CardinalityType
  <2>2. f \in Injection(1..turns[w], TurnsTaken)
    <3>1. ASSUME NEW i \in 1..turns[w] PROVE f[i] \in TurnsTaken /\ f[i].r = i
      BY <1>1, <3>1 DEF TurnsTaken, Turn
    <3>2. f \in [1..turns[w] -> TurnsTaken]
      BY <3>1
    <3>3. \A i, j \in 1..turns[w] : f[i] = f[j] => i = j
      BY <3>1
    <3> QED
      BY <3>2, <3>3 DEF Injection, IsInjective
  <2>3. Cardinality(1..turns[w]) <= Cardinality(TurnsTaken)
    BY <2>1, <2>2, FS_Injection
  <2>4. Cardinality(1..turns[w]) = turns[w]
    BY <1>1, FS_Interval
  <2> QED
    BY <1>1, <2>1, <2>3, <2>4 DEF WorkerStarts
<1>4. /\ mem' \in Stored
      /\ mem'.lead = mem.lead /\ mem'.queue = mem.queue /\ mem'.held = mem.held
      /\ mem'.auto = mem.auto /\ mem'.told = mem.told /\ mem'.key = mem.key
      /\ mem'.status = [mem.status EXCEPT ![w] = "working"] /\ mem'.cut = [mem.cut EXCEPT ![w] = 0]
  <2> DEFINE s == [mem.status EXCEPT ![w] = "working"]
             c == [mem.cut EXCEPT ![w] = 0]
  <2>1. s \in [Workers -> Status] /\ c \in [Workers -> 0..MaxRestarts]
    BY <1>1, BoundsAssumption DEF Stored, Status
  <2>2. mem' = [mem EXCEPT !.status = s, !.cut = c]
    BY <1>1, <1>2 DEF Stored
  <2> HIDE DEF s, c
  <2>3. /\ mem' \in Stored /\ mem'.status = s /\ mem'.cut = c
        /\ mem'.lead = mem.lead /\ mem'.queue = mem.queue /\ mem'.held = mem.held
        /\ mem'.auto = mem.auto /\ mem'.told = mem.told /\ mem'.key = mem.key
    BY <1>1, <2>1, <2>2 DEF Stored
  <2> QED
    BY <2>3 DEF s, c
<1>5. /\ turns' \in [Workers -> 0..MaxTurns] /\ turns'[w] = turns[w] + 1
      /\ \A v \in Workers : v # w => turns'[v] = turns[v]
      /\ \A v \in Workers : turns[v] <= turns'[v]
  BY <1>1, <1>2, <1>3
<1>6. Flushed' = Flushed
  BY <1>2 DEF Flushed
<1>7. TypeOK'
  <2>1. turns[w] + 1 \in Turn /\ commits \subseteq [w: Workers, r: Turn]
        /\ overlapped \subseteq [w: Workers, r: Turn]
    BY <1>1, <1>3 DEF Turn, IInv, TypeOK
  <2>2. overlapped' \subseteq [w: Workers, r: Turn]
    BY <1>2, <2>1 DEF Committing
  <2> QED
    BY <1>2, <1>4, <1>5, <2>2 DEF IInv, TypeOK, leadVars, NoHalt
<1>8. DeliveryInv'
  BY <1>2, <1>4 DEF IInv, DeliveryInv, NoticeInv, HeldInv, NoIdleNotices, LeadRuns, Up, Idle, leadVars
<1>9. KeptStep
  BY <1>2, <1>4, <1>6 DEF KeptStep
<1>10. CountStep
  BY <1>1, <1>2, <1>4, CapAssumption DEF CountStep, Stored
<1>11. StopStep
  BY <1>2 DEF StopStep, NoHalt
<1>12. ClaimInv'
  <2>1. /\ \A v \in Workers : v # w => mem'.cut[v] = mem.cut[v] /\ (Works(v)' <=> Works(v))
        /\ mem'.cut[w] = 0
    BY <1>1, <1>4 DEF Stored, Works
  <2>2. TurnInv'
    <3>1. \A c \in commits : c.w \in Workers /\ c.r \in Nat /\ turns[c.w] \in Nat
      BY <1>1 DEF IInv, TypeOK, Turn
    <3> QED
      BY <1>1, <1>2, <1>5, <2>1, <3>1 DEF IInv, ClaimInv, TurnInv
  <2>3. RunKeyInv'
    <3>1. ASSUME NEW v \in Workers, NEW r \in Turn
          PROVE  LET told == sent'[Note(v, RunKey(r))] IN
                 /\ told <= 1
                 /\ mem'.key[v] = RunKey(r) => told > 0
                 /\ told > 0 => r <= turns'[v]
                 /\ told > 0 /\ r = turns'[v] /\ (Works(v)' \/ \E c \in commits' : c.w = v) =>
                       mem'.key[v] = RunKey(r)
      <4>1. /\ sent[Note(v, RunKey(r))] <= 1
            /\ mem.key[v] = RunKey(r) => sent[Note(v, RunKey(r))] > 0
            /\ sent[Note(v, RunKey(r))] > 0 => r <= turns[v]
            /\ sent[Note(v, RunKey(r))] > 0 /\ r = turns[v] /\ (Works(v) \/ \E c \in commits : c.w = v) =>
                  mem.key[v] = RunKey(r)
        BY DEF IInv, ClaimInv, RunKeyInv
      <4>2. turns[v] \in Nat /\ turns'[v] \in Nat /\ r \in Nat
        BY <1>1, <1>5 DEF Turn
      <4>3. v = w /\ r = turns'[v] => ~(sent[Note(v, RunKey(r))] > 0)
        BY <1>5, <4>1, <4>2
      <4> QED
        BY <1>2, <1>4, <1>5, <2>1, <4>1, <4>2, <4>3
    <3> QED
      BY <1>2, <1>4, <3>1 DEF RunKeyInv, IInv, ClaimInv
  <2>4. CutKeyInv'
    <3>1. ASSUME NEW v \in Workers, NEW b \in Boot
          PROVE  LET told == sent'[Note(v, CutKey(b))] IN
                 /\ told <= 1
                 /\ told > 0 => /\ b <= restarts'
                                /\ mem'.cut[v] = b \/ disk'.cut[v] = b => mem'.key[v] = CutKey(b)
                                /\ mem'.cut[v] = b => \A c \in commits' : c.w # v
      <4>1. mem'.cut[v] = b => mem.cut[v] = b
        BY <2>1 DEF Boot
      <4> QED
        BY <1>2, <1>4, <4>1 DEF IInv, ClaimInv, CutKeyInv
    <3>2. \A v \in Workers : mem'.cut[v] <= restarts' + 1 /\ disk'.cut[v] <= restarts' + 1
      BY <1>1, <1>2, <2>1 DEF IInv, ClaimInv, CutKeyInv
    <3> QED
      BY <3>1, <3>2 DEF CutKeyInv
  <2>5. PeerInv'
    BY <1>2 DEF IInv, ClaimInv, PeerInv
  <2>6. OverlapInv'
    <3>1. ASSUME NEW v \in Workers
          PROVE  /\ LastTurn(v)' \notin overlapped' /\ (Works(v)' \/ LastTurn(v)' \in commits') =>
                       mem'.key[v] # RunKey(turns'[v])
                 /\ \A c \in commits' : c.w = v /\ (Works(v)' \/ c # LastTurn(v)') =>
                       c \in overlapped' /\ LastTurn(v)' \in overlapped'
      <4>1. CASE v = w
        <5>1. LastTurn(w)' = [w |-> w, r |-> turns[w] + 1]
          BY <1>5 DEF LastTurn
        <5>2. \A c \in commits : c.w = w => c \in overlapped' /\ LastTurn(w)' \in overlapped'
          BY <1>2, <5>1 DEF Committing
        <5>3. mem.key[w] # RunKey(turns[w] + 1)
          <6>1. turns[w] + 1 \in Turn
            BY <1>1, <1>3 DEF Turn
          <6>2. ~(turns[w] + 1 <= turns[w])
            BY <1>1
          <6> QED
            BY <6>1, <6>2 DEF IInv, ClaimInv, RunKeyInv
        <5> QED
          BY <1>2, <1>4, <1>5, <4>1, <5>2, <5>3
      <4>2. CASE v # w
        <5>1. LastTurn(v)' = LastTurn(v) /\ LastTurn(v).w = v
          BY <1>5, <4>2 DEF LastTurn
        <5>2. \A e : e.w = v => (e \in overlapped' <=> e \in overlapped)
          BY <1>2, <4>2 DEF Committing
        <5> QED
          BY <1>2, <1>4, <1>5, <2>1, <4>2, <5>1, <5>2 DEF IInv, ClaimInv, OverlapInv
      <4> QED
        BY <4>1, <4>2
    <3> QED
      BY <3>1 DEF OverlapInv
  <2> QED
    BY <2>2, <2>3, <2>4, <2>5, <2>6 DEF ClaimInv
<1>13. ResumeStep
  BY <1>2 DEF ResumeStep, NoHalt
<1> QED
  BY <1>7, <1>8, <1>9, <1>10, <1>11, <1>12, <1>13, KeptKeeps, CountKeeps, StopKeeps, ResumeKeeps DEF IInv

LEMMA WorkerDoneKeeps ==
    ASSUME IInv, NEW w \in Workers, WorkerDone(w)
    PROVE  IInv'
<1> DEFINE e == [w |-> w, r |-> turns[w]]
<1>1. /\ mem \in Stored /\ turns[w] \in Turn /\ turns[w] \in Nat /\ restarts \in Nat
      /\ Works(w) /\ mem.cut[w] = 0
  BY Types DEF IInv, ClaimInv, TurnInv, WorkerDone
<1>2. /\ mem' = [mem EXCEPT !.status[w] = "done"] /\ commits' = commits \cup {e} /\ Idle
      /\ UNCHANGED <<disk, leadVars, deferred, starting, typed, resume, phase, countVars, histVars>>
  BY DEF WorkerDone, Up
<1>3. /\ mem' \in Stored
      /\ mem'.lead = mem.lead /\ mem'.queue = mem.queue /\ mem'.held = mem.held
      /\ mem'.auto = mem.auto /\ mem'.told = mem.told /\ mem'.key = mem.key /\ mem'.cut = mem.cut
      /\ \A v \in Workers : mem'.status[v] = "working" => Works(v)
  BY <1>1, <1>2 DEF Stored, Status, Works
<1>4. e \in [w: Workers, r: Turn] /\ e.w = w /\ e.r = turns[w] /\ e.r <= turns[w]
  BY <1>1
<1> HIDE DEF e
<1>5. Flushed' = Flushed
  BY <1>2 DEF Flushed
<1>6. TypeOK'
  BY <1>2, <1>3, <1>4 DEF IInv, TypeOK, leadVars, countVars, histVars
<1>7. DeliveryInv'
  BY <1>2, <1>3 DEF IInv, DeliveryInv, NoticeInv, HeldInv, NoIdleNotices, LeadRuns, Up, Idle, leadVars,
                    histVars
<1>8. KeptStep
  BY <1>2, <1>3, <1>5 DEF KeptStep, histVars
<1>9. CountStep
  BY <1>1, <1>2, <1>3, CapAssumption DEF CountStep, Stored, histVars
<1>10. StopStep
  BY <1>1, <1>2 DEF StopStep, histVars, IInv, StopInv
<1>11. ClaimInv'
  <2>1. UNCHANGED <<disk, sent, overlapped, turns, peers, restarts>>
    BY <1>2 DEF countVars, histVars
  <2>2. \A v \in Workers : Works(v)' \/ (\E c \in commits' : c.w = v)
                            => Works(v) \/ (\E c \in commits : c.w = v)
    BY <1>1, <1>2, <1>3, <1>4 DEF Works
  <2>3. TurnInv'
    BY <1>2, <1>3, <1>4, <2>1 DEF IInv, ClaimInv, TurnInv, Works
  <2>4. RunKeyInv'
    BY <1>3, <2>1, <2>2 DEF IInv, ClaimInv, RunKeyInv
  <2>5. CutKeyInv'
    <3>1. ASSUME NEW v \in Workers, NEW b \in Boot, sent[Note(v, CutKey(b))] > 0, mem.cut[v] = b
          PROVE  \A c \in commits' : c.w # v
      <4>1. v # w
        BY <1>1, <3>1 DEF Boot
      <4>2. \A c \in commits : c.w # v
        BY <3>1 DEF IInv, ClaimInv, CutKeyInv
      <4> QED
        BY <1>2, <1>4, <4>1, <4>2
    <3> QED
      BY <1>3, <2>1, <3>1 DEF IInv, ClaimInv, CutKeyInv
  <2>6. PeerInv'
    BY <2>1 DEF IInv, ClaimInv, PeerInv
  <2>7. OverlapInv'
    <3>1. e = LastTurn(w) /\ ~Works(w)'
      BY <1>1, <1>2 DEF e, LastTurn, Works, Stored
    <3>2. \A v \in Workers : v # w => e # LastTurn(v)
      BY <3>1 DEF LastTurn
    <3> QED
      BY <1>1, <1>2, <1>3, <1>4, <2>1, <3>1, <3>2 DEF IInv, ClaimInv, OverlapInv, LastTurn, Works
  <2> QED
    BY <2>3, <2>4, <2>5, <2>6, <2>7 DEF ClaimInv
<1>12. ResumeStep
  BY <1>2 DEF ResumeStep, countVars, histVars
<1> QED
  BY <1>6, <1>7, <1>8, <1>9, <1>10, <1>11, <1>12, KeptKeeps, CountKeeps, StopKeeps, ResumeKeeps DEF IInv

\* A step of the lead that leaves the queue, the batches and the disk alone.
LEMMA QuietKeeps ==
    ASSUME IInv, TypeOK', DeliveryInv',
           UNCHANGED <<disk, deferred, sent, overlapped, turns, peers, restarts, resume>>,
           commits' \subseteq commits,
           mem'.queue = mem.queue, mem'.told = mem.told, mem'.key = mem.key, mem'.cut = mem.cut,
           \A w \in Workers : mem'.status[w] = "working" => Works(w),
           streak' = 0 \/ (streak' = streak /\ mem'.auto = mem.auto),
           halt' = halt \/ ~halt'.on
    PROVE  IInv'
<1>1. Flushed' = Flushed
  BY DEF Flushed
<1>2. KeptStep /\ StopStep /\ ClaimStep /\ ResumeStep
  BY <1>1 DEF KeptStep, StopStep, ClaimStep, ResumeStep
<1>3. mem.auto \in Nat
  BY CapAssumption DEF IInv, TypeOK, Stored
<1>4. CountStep
  BY <1>3 DEF CountStep
<1> QED
  BY <1>2, <1>4, CalmKeeps

LEMMA StopWorkerKeeps ==
    ASSUME IInv, NEW w \in Workers, StopWorker(w)
    PROVE  IInv'
<1>1. /\ mem' = [mem EXCEPT !.status[w] = "idle"] /\ mem \in Stored /\ Idle
      /\ UNCHANGED <<disk, leadVars, commits, deferred, starting, typed, resume, phase, countVars, histVars>>
  BY Types DEF StopWorker, Up, IInv
<1>2. /\ mem' \in Stored
      /\ mem'.lead = mem.lead /\ mem'.queue = mem.queue /\ mem'.held = mem.held
      /\ mem'.auto = mem.auto /\ mem'.told = mem.told /\ mem'.key = mem.key /\ mem'.cut = mem.cut
      /\ \A v \in Workers : mem'.status[v] = "working" => Works(v)
  BY <1>1 DEF Stored, Status, Works
<1>3. TypeOK'
  BY <1>1, <1>2 DEF IInv, TypeOK, leadVars, countVars, histVars
<1>4. DeliveryInv'
  BY <1>1, <1>2 DEF IInv, DeliveryInv, NoticeInv, HeldInv, NoIdleNotices, LeadRuns, Up, Idle, leadVars,
                    histVars
<1> QED
  BY <1>1, <1>2, <1>3, <1>4, QuietKeeps DEF countVars, histVars

-----------------------------------------------------------------------------
(* The lead.                                                               *)

LEMMA Single ==
    ASSUME NEW S, NEW s \in Seq(S), Len(s) = 1
    PROVE  Head(s) \in S /\ Tail(s) = <<>> /\ ToSet(s) = {Head(s)}
<1>1. s # <<>> /\ DOMAIN s = 1..1
  <2>1. Len(<<>>) = 0
    BY EmptySet
  <2>2. s # <<>>
    BY <2>1
  <2>3. DOMAIN s = 1..Len(s)
    BY LenProperties
  <2> QED
    BY <2>2, <2>3
<1>2. Head(s) = s[1] /\ s[1] \in S /\ Tail(s) \in Seq(S) /\ Len(Tail(s)) = 0
  BY <1>1, HeadTailProperties, ElementOfSeq
<1>3. ToSet(s) = {s[1]}
  BY <1>1 DEF ToSet
<1> QED
  BY <1>2, <1>3, EmptySeq

LEMMA DeliverNoticesKeeps ==
    ASSUME IInv, DeliverNotices
    PROVE  IInv'
<1> DEFINE T == ToSet(Head(deferred))
<1>1. /\ deferred # <<>> /\ deferred' = Tail(deferred)
      /\ UNCHANGED <<disk, cancelled, leadCommits, commits, typed, resume, phase, countVars,
                     sent, overlapped, restored, stranded, halt>>
  BY DEF DeliverNotices, Idle
<1>2. /\ mem \in Stored /\ disk \in Stored /\ mem.auto \in Nat /\ disk.auto \in Nat /\ streak \in Nat
      /\ AutoCap \in Nat
  BY CapAssumption DEF IInv, TypeOK, Stored
<1>3. mem.lead # "working" /\ mem.queue = <<>> /\ Len(deferred) = 1
  BY <1>1 DEF IInv, DeliveryInv, NoticeInv, LeadRuns
<1>4. /\ Head(deferred) \in Seq(Notice) /\ deferred' = <<>> /\ ToSet(deferred) = {Head(deferred)}
  BY <1>1, <1>3, Single DEF IInv, TypeOK
<1>5. Flushed = T /\ Flushed' = {} /\ T \subseteq Notice
  BY <1>4, FlushedEmpty, SetType DEF Flushed
<1> HIDE DEF T
<1>6. ASSUME NEW a \in 0..AutoCap, NEW l \in Status, mem.auto <= a,
             NEW i \in {"none", "cut", "resumed"},
             mem' = [mem EXCEPT !.auto = a, !.told = @ \cup T, !.lead = l, !.resumable = i],
             launching' \in BOOLEAN, starting' \in BOOLEAN,
             \/ streak' = streak
             \/ streak' = streak + 1 /\ a = mem.auto + 1
      PROVE  IInv'
  <2>1. /\ mem' \in Stored /\ mem'.queue = mem.queue /\ mem'.held = mem.held
        /\ mem'.auto = a /\ mem'.told = mem.told \cup T
        /\ mem'.key = mem.key /\ mem'.cut = mem.cut /\ mem'.status = mem.status
    BY <1>2, <1>5, <1>6 DEF Stored
  <2>2. streak' \in Nat
    BY <1>2, <1>6
  <2>3. TypeOK'
    BY <1>1, <1>4, <1>6, <2>1, <2>2, EmptySet DEF IInv, TypeOK, countVars
  <2>4. DeliveryInv'
    BY <1>1, <1>3, <1>4, <2>1 DEF IInv, DeliveryInv, NoticeInv, HeldInv, NoIdleNotices
  <2>5. KeptStep
    BY <1>1, <1>5, <2>1 DEF KeptStep
  <2>6. StopStep
    BY <1>1, <1>5, <2>1 DEF StopStep, Works
  <2>7. ClaimStep
    BY <1>1, <2>1 DEF ClaimStep, Works, countVars
  <2>8. CountInv'
    <3>1. streak <= mem.auto /\ streak <= disk.auto
      BY <1>1 DEF IInv, CountInv
    <3> QED
      BY <1>1, <1>2, <1>3, <1>4, <1>6, <2>1, <3>1 DEF CountInv
  <2>9. ResumeStep
    BY <1>1 DEF ResumeStep, countVars
  <2> QED
    BY <2>3, <2>4, <2>5, <2>6, <2>7, <2>8, <2>9, KeptKeeps, StopKeeps, ClaimKeeps, ResumeKeeps
    DEF IInv
<1>7. CASE NoticeRefused
  <2>1. PICK n \in {mem.auto} \cup ({mem.auto + 1} \cap (0..AutoCap)) :
          mem' = [mem EXCEPT !.auto = n, !.told = @ \cup T,
                             !.lead = IF @ = "working" THEN @ ELSE "failed"]
    BY <1>7 DEF NoticeRefused, T
  <2>2. mem' = [mem EXCEPT !.auto = n, !.told = @ \cup T, !.lead = "failed",
                           !.resumable = mem.resumable]
        /\ mem.resumable \in {"none", "cut", "resumed"}
    BY <1>2, <1>3, <2>1 DEF Stored
  <2>3. n \in 0..AutoCap /\ mem.auto <= n
    BY <1>2 DEF Stored
  <2>4. launching' \in BOOLEAN /\ starting' \in BOOLEAN /\ streak' = streak
    BY <1>7 DEF NoticeRefused, IInv, TypeOK
  <2> QED
    BY <1>6, <2>2, <2>3, <2>4 DEF Status
<1>8. CASE NoticeStarts
  <2>1. /\ mem.auto < AutoCap /\ streak' = streak + 1
        /\ mem' = [mem EXCEPT !.auto = @ + 1, !.told = @ \cup T, !.lead = "working",
                              !.resumable = IF @ = "cut" THEN "none" ELSE @]
        /\ launching' \in BOOLEAN /\ starting' \in BOOLEAN
    BY <1>8 DEF NoticeStarts, T, IInv, TypeOK
  <2>2. PICK i \in {"none", "cut", "resumed"} :
          mem' = [mem EXCEPT !.auto = mem.auto + 1, !.told = @ \cup T, !.lead = "working",
                             !.resumable = i]
    BY <1>2, <2>1 DEF Stored
  <2>3. mem.auto + 1 \in 0..AutoCap /\ mem.auto <= mem.auto + 1
    BY <1>2, <2>1
  <2> QED
    BY <1>6, <2>1, <2>2, <2>3 DEF Status
<1> QED
  BY <1>7, <1>8 DEF DeliverNotices

\* What a start of the user's changes.
LEMMA UserTurnFields ==
    ASSUME NEW m \in Stored, typed \in BOOLEAN, streak \in Nat,
           halt \in [on: BOOLEAN, late: SUBSET [w: Workers, r: Turn]], UserTurn(m)
    PROVE  /\ mem' \in Stored /\ mem'.lead \in {m.lead, "working"} /\ mem'.queue = m.queue
           /\ mem'.held = m.held /\ mem'.told = m.told /\ mem'.status = m.status
           /\ mem'.key = m.key /\ mem'.cut = m.cut
           /\ streak' = 0 \/ (streak' = streak /\ mem'.auto = m.auto)
           /\ halt' = halt \/ ~halt'.on
           /\ typed' \in BOOLEAN /\ streak' \in Nat
           /\ halt' \in [on: BOOLEAN, late: SUBSET [w: Workers, r: Turn]]
<1>1. 0 \in 0..AutoCap
  BY CapAssumption
<1>2. NoHalt \in [on: BOOLEAN, late: SUBSET [w: Workers, r: Turn]] /\ ~NoHalt.on
  BY DEF NoHalt
<1>3. CASE mem' = [m EXCEPT !.lead = "working", !.auto = 0, !.resumable = "none"] /\ typed' = FALSE /\ streak' = 0 /\ halt' = NoHalt
  BY <1>1, <1>2, <1>3 DEF Stored, Status
<1>4. CASE mem' = [m EXCEPT !.auto = 0] /\ streak' = 0 /\ UNCHANGED <<typed, halt>>
  BY <1>1, <1>4 DEF Stored
<1>5. CASE mem' = m /\ UNCHANGED <<typed, streak, halt>>
  BY <1>5
<1> QED
  BY <1>3, <1>4, <1>5 DEF UserTurn

\* The same for the drain, which does nothing while a notice is starting.
LEMMA DrainFields ==
    ASSUME NEW m \in Stored, typed \in BOOLEAN, streak \in Nat,
           halt \in [on: BOOLEAN, late: SUBSET [w: Workers, r: Turn]], MaybeDrainQueued(m)
    PROVE  /\ mem' \in Stored /\ mem'.lead \in {m.lead, "working"} /\ mem'.queue = m.queue
           /\ mem'.held = m.held /\ mem'.told = m.told /\ mem'.status = m.status
           /\ mem'.key = m.key /\ mem'.cut = m.cut
           /\ streak' = 0 \/ (streak' = streak /\ mem'.auto = m.auto)
           /\ halt' = halt \/ ~halt'.on
           /\ typed' \in BOOLEAN /\ streak' \in Nat
           /\ halt' \in [on: BOOLEAN, late: SUBSET [w: Workers, r: Turn]]
           /\ starting' => mem' = m
<1>1. CASE UserTurn(m) /\ ~starting'
  BY <1>1, UserTurnFields
<1>2. CASE mem' = m /\ UNCHANGED <<typed, streak, halt>>
  BY <1>2
<1> QED
  BY <1>1, <1>2 DEF MaybeDrainQueued

LEMMA UserSendsKeeps ==
    ASSUME IInv, UserSends
    PROVE  IInv'
<1>1. /\ UserTurn(mem) /\ Idle
      /\ UNCHANGED <<disk, leadVars, commits, deferred, starting, resume, phase, countVars,
                     sent, overlapped, restored, stranded>>
  BY DEF UserSends, Up
<1>2. /\ mem' \in Stored /\ mem'.lead \in {mem.lead, "working"} /\ mem'.queue = mem.queue
      /\ mem'.held = mem.held /\ mem'.told = mem.told /\ mem'.status = mem.status
      /\ mem'.key = mem.key /\ mem'.cut = mem.cut
      /\ streak' = 0 \/ (streak' = streak /\ mem'.auto = mem.auto)
      /\ halt' = halt \/ ~halt'.on
      /\ typed' \in BOOLEAN /\ streak' \in Nat
      /\ halt' \in [on: BOOLEAN, late: SUBSET [w: Workers, r: Turn]]
  BY <1>1, UserTurnFields DEF IInv, TypeOK
<1>3. TypeOK'
  BY <1>1, <1>2 DEF IInv, TypeOK, leadVars, countVars
<1>4. DeliveryInv'
  BY <1>1, <1>2 DEF IInv, DeliveryInv, NoticeInv, HeldInv, NoIdleNotices, LeadRuns, Up, Idle, leadVars
<1> QED
  BY <1>1, <1>2, <1>3, <1>4, QuietKeeps DEF countVars, Works

LEMMA CancelledSettlesKeeps ==
    ASSUME IInv, CancelledSettles
    PROVE  IInv'
<1>1. /\ cancelled > 0 /\ cancelled' = cancelled - 1 /\ starting' = FALSE /\ Idle
      /\ UNCHANGED <<disk, launching, leadCommits, commits, deferred, resume, phase, countVars,
                     sent, overlapped, restored, stranded>>
  BY DEF CancelledSettles
<1>2. /\ mem' \in Stored /\ (mem.lead = "working" => mem'.lead = "working") /\ mem'.queue = mem.queue
      /\ mem'.held = mem.held /\ mem'.told = mem.told /\ mem'.status = mem.status
      /\ mem'.key = mem.key /\ mem'.cut = mem.cut
      /\ streak' = 0 \/ (streak' = streak /\ mem'.auto = mem.auto)
      /\ halt' = halt \/ ~halt'.on
      /\ typed' \in BOOLEAN /\ streak' \in Nat
      /\ halt' \in [on: BOOLEAN, late: SUBSET [w: Workers, r: Turn]]
  <2>1. CASE MaybeDrainQueued(mem)
    BY <2>1, DrainFields DEF IInv, TypeOK
  <2>2. CASE /\ mem' = [mem EXCEPT !.lead = IF @ = "working" THEN @ ELSE "failed"]
             /\ UNCHANGED <<typed, streak, halt>>
    BY <2>2 DEF IInv, TypeOK, Stored, Status
  <2> QED
    BY <2>1, <2>2 DEF CancelledSettles
<1>3. cancelled' \in 0..MaxPending
  BY <1>1, BoundsAssumption DEF IInv, TypeOK
<1>4. TypeOK'
  BY <1>1, <1>2, <1>3 DEF IInv, TypeOK, countVars
<1>5. DeliveryInv'
  BY <1>1, <1>2 DEF IInv, DeliveryInv, NoticeInv, HeldInv, NoIdleNotices, LeadRuns, Up, Idle
<1> QED
  BY <1>1, <1>2, <1>4, <1>5, QuietKeeps DEF countVars, Works

LEMMA LaunchesKeep ==
    ASSUME IInv, UserTypesAhead \/ LaunchSettles \/ LaunchThrows \/ LeadDone
    PROVE  IInv'
<1>1. /\ Idle
      /\ UNCHANGED <<disk, cancelled, commits, deferred, resume, phase, countVars, sent, overlapped, streak,
                     restored, halt>>
      /\ launching' \in BOOLEAN /\ starting' \in BOOLEAN /\ typed' \in BOOLEAN
  BY DEF UserTypesAhead, LaunchSettles, LaunchThrows, LeadDone, leadVars, histVars, Up, IInv, TypeOK
<1>2. /\ mem \in Stored /\ leadCommits \in 0..MaxPending /\ leadCommits \in Nat /\ MaxPending \in Nat
      /\ stranded \in BOOLEAN
  BY BoundsAssumption DEF IInv, TypeOK
<1>3. CASE UserTypesAhead \/ LaunchSettles
  <2>1. mem' = mem /\ UNCHANGED <<leadCommits, stranded>>
    BY <1>3 DEF UserTypesAhead, LaunchSettles, leadVars, histVars
  <2>2. TypeOK'
    BY <1>1, <2>1 DEF IInv, TypeOK, countVars
  <2>3. DeliveryInv'
    BY <1>1, <2>1 DEF IInv, DeliveryInv, NoticeInv, HeldInv, NoIdleNotices, LeadRuns, Up, Idle
  <2> QED
    BY <1>1, <2>1, <2>2, <2>3, QuietKeeps DEF countVars, Works
<1>4. ASSUME NEW l \in Status, mem' = [mem EXCEPT !.lead = l], leadCommits' \in 0..MaxPending,
             stranded' \in BOOLEAN, mem.queue = <<>> \/ stranded' \/ leadCommits' > 0
      PROVE  IInv'
  <2>1. /\ mem' \in Stored /\ mem'.queue = mem.queue /\ mem'.held = mem.held /\ mem'.auto = mem.auto
        /\ mem'.told = mem.told /\ mem'.status = mem.status /\ mem'.key = mem.key
        /\ mem'.cut = mem.cut
    BY <1>2, <1>4 DEF Stored
  <2>2. TypeOK'
    BY <1>1, <1>4, <2>1 DEF IInv, TypeOK, countVars
  <2>3. DeliveryInv'
    BY <1>1, <1>4, <2>1 DEF IInv, DeliveryInv, NoticeInv, HeldInv, NoIdleNotices, Idle
  <2> QED
    BY <1>1, <2>1, <2>2, <2>3, QuietKeeps DEF countVars, Works
<1>5. CASE LaunchThrows
  <2>1. /\ mem' = [mem EXCEPT !.lead = "failed"] /\ leadCommits' = leadCommits
        /\ stranded' = (mem.queue # <<>>)
    BY <1>5 DEF LaunchThrows
  <2>2. "failed" \in Status /\ stranded' \in BOOLEAN /\ (mem.queue = <<>> \/ stranded')
    BY <2>1 DEF Status
  <2> QED
    BY <1>2, <1>4, <2>1, <2>2
<1>6. CASE LeadDone
  <2>1. /\ mem' = [mem EXCEPT !.lead = "done"] /\ leadCommits < MaxPending
        /\ leadCommits' = leadCommits + 1 /\ stranded' = stranded
    BY <1>6 DEF LeadDone, histVars
  <2>2. "done" \in Status /\ leadCommits' \in 0..MaxPending /\ leadCommits' > 0
    BY <1>2, <2>1 DEF Status
  <2> QED
    BY <1>2, <1>4, <2>1, <2>2
<1> QED
  BY <1>3, <1>5, <1>6

\* finishSuccessfulTurn of the lead: the drain finds noticeStarting raised when
\* the notices were flushed.
LEMMA LeadCommitSettlesKeeps ==
    ASSUME IInv, LeadCommitSettles
    PROVE  IInv'
<1> DEFINE m == IF Deliverable(mem) THEN [mem EXCEPT !.queue = <<>>] ELSE mem
<1>1. /\ Idle /\ leadCommits > 0 /\ leadCommits' = leadCommits - 1
      /\ deferred' = IF Deliverable(mem) THEN <<mem.queue>> ELSE <<>>
      /\ starting' = (starting \/ Deliverable(mem))
      /\ stranded' = (stranded /\ ~Deliverable(mem))
      /\ MaybeDrainQueued(m)
      /\ UNCHANGED <<disk, launching, cancelled, commits, resume, phase, countVars, sent, overlapped, restored>>
  BY DEF LeadCommitSettles
<1>2. /\ mem \in Stored /\ typed \in BOOLEAN /\ streak \in Nat
      /\ starting \in BOOLEAN /\ stranded \in BOOLEAN
      /\ halt \in [on: BOOLEAN, late: SUBSET [w: Workers, r: Turn]]
  BY DEF IInv, TypeOK
<1>3. /\ m \in Stored /\ m.lead = mem.lead /\ m.held = mem.held /\ m.auto = mem.auto
      /\ m.told = mem.told /\ m.status = mem.status /\ m.key = mem.key /\ m.cut = mem.cut
      /\ IF Deliverable(mem) THEN m.queue = <<>> ELSE m.queue = mem.queue
  BY <1>2, EmptySet DEF Stored
<1>4. starting' \in BOOLEAN /\ stranded' \in BOOLEAN /\ (starting' <=> starting \/ Deliverable(mem))
  BY <1>1, <1>2
<1> HIDE DEF m
<1>5. /\ mem' \in Stored /\ mem'.lead \in {m.lead, "working"} /\ mem'.queue = m.queue
      /\ mem'.held = m.held /\ mem'.told = m.told /\ mem'.status = m.status
      /\ mem'.key = m.key /\ mem'.cut = m.cut
      /\ streak' = 0 \/ (streak' = streak /\ mem'.auto = m.auto)
      /\ halt' = halt \/ ~halt'.on
      /\ typed' \in BOOLEAN /\ streak' \in Nat
      /\ halt' \in [on: BOOLEAN, late: SUBSET [w: Workers, r: Turn]]
      /\ starting' => mem' = m
  BY <1>1, <1>2, <1>3, DrainFields
<1>6. /\ deferred' \in Seq(Seq(Notice))
      /\ Flushed' \cup ToSet(mem'.queue) = ToSet(mem.queue)
      /\ Deliverable(mem) => Len(deferred') = 1 /\ mem'.lead = mem.lead /\ mem'.queue = <<>>
      /\ ~Deliverable(mem) => deferred' = <<>> /\ mem'.queue = mem.queue
  <2>1. CASE Deliverable(mem)
    <3>1. /\ deferred' = <<mem.queue>> /\ mem'.lead = mem.lead /\ mem'.queue = <<>>
          /\ mem.queue \in Seq(Notice)
      BY <1>1, <1>2, <1>3, <1>4, <1>5, <2>1 DEF Stored
    <3>2. /\ deferred' \in Seq(Seq(Notice)) /\ Len(deferred') = 1
          /\ UNION {ToSet(b) : b \in ToSet(deferred')} = ToSet(mem.queue)
      BY <3>1, OneBatch
    <3>3. Flushed' = ToSet(mem.queue)
      BY <3>2 DEF Flushed, ToSet
    <3> QED
      BY <2>1, <3>1, <3>2, <3>3, EmptySet
  <2>2. CASE ~Deliverable(mem)
    BY <1>1, <1>3, <1>5, <2>2, EmptySet, FlushedEmpty
  <2> QED
    BY <2>1, <2>2
<1>7. leadCommits' \in 0..MaxPending
  BY <1>1, BoundsAssumption DEF IInv, TypeOK
<1>8. TypeOK'
  BY <1>1, <1>4, <1>5, <1>6, <1>7 DEF IInv, TypeOK, countVars
<1>9. DeliveryInv'
  <2>1. NoticeInv'
    BY <1>6 DEF NoticeInv, LeadRuns, Deliverable
  <2>2. HeldInv'
    BY <1>1, <1>3, <1>5, <1>6 DEF IInv, DeliveryInv, HeldInv, Deliverable
  <2>3. NoIdleNotices'
    <3>1. mem.queue # <<>> /\ ~mem.held => Deliverable(mem) \/ mem.lead = "working"
      BY DEF Deliverable
    <3> QED
      BY <1>3, <1>5, <1>6, <3>1 DEF NoIdleNotices, LeadRuns
  <2> QED
    BY <2>1, <2>2, <2>3 DEF DeliveryInv
<1>10. Flushed = {}
  BY <1>1, FlushedEmpty DEF Idle
<1>11. KeptStep
  BY <1>1, <1>3, <1>5, <1>6, <1>10 DEF KeptStep
<1>12. CountStep
  <2>1. mem.auto \in Nat
    BY <1>2, CapAssumption DEF Stored
  <2> QED
    BY <1>1, <1>3, <1>5, <1>6, <2>1 DEF CountStep, Deliverable
<1>13. StopStep
  BY <1>1, <1>3, <1>5, <1>6, <1>10 DEF StopStep, Works
<1>14. ClaimStep
  BY <1>1, <1>3, <1>5 DEF ClaimStep, Works, countVars
<1>15. ResumeStep
  BY <1>1, <1>5 DEF ResumeStep, countVars
<1> QED
  BY <1>8, <1>9, <1>11, <1>12, <1>13, <1>14, <1>15, CalmKeeps

\* A queue that is flushed for an idle lead: m is the store before the flush.
LEMMA FlushKeeps ==
    ASSUME IInv, NEW m \in Stored, Flush(m), Idle,
           m.queue = mem.queue, m.auto = mem.auto, m.told = mem.told, m.status = mem.status,
           m.key = mem.key, m.cut = mem.cut,
           m.held \/ restored' = {}, restored' \subseteq Notice, m.held = mem.held \/ restored' = {},
           halt' = halt \/ halt' = NoHalt,
           UNCHANGED <<disk, commits, typed, resume, phase, countVars, sent, overlapped, streak>>,
           launching' \in BOOLEAN, cancelled' \in 0..MaxPending, leadCommits' \in 0..MaxPending
    PROVE  IInv'
<1>1. starting \in BOOLEAN /\ stranded \in BOOLEAN
  BY DEF IInv, TypeOK
<1>2. /\ mem' \in Stored /\ SameRest(mem', m)
      /\ Sent(m) \/ Unsent(m)
      /\ deferred' \in Seq(Seq(Notice)) /\ starting' \in BOOLEAN /\ stranded' \in BOOLEAN
      /\ Flushed' \cup ToSet(mem'.queue) = ToSet(m.queue)
  BY <1>1, FlushFields
<1>3. Flushed = {}
  BY FlushedEmpty DEF Idle
<1>4. /\ mem'.lead = m.lead /\ mem'.held = m.held /\ mem'.auto = mem.auto /\ mem'.told = mem.told
      /\ mem'.status = mem.status /\ mem'.key = mem.key /\ mem'.cut = mem.cut
  BY <1>2 DEF SameRest
<1>5. /\ halt' \in [on: BOOLEAN, late: SUBSET [w: Workers, r: Turn]]
      /\ halt' = halt \/ ~halt'.on
  <2>1. NoHalt \in [on: BOOLEAN, late: SUBSET [w: Workers, r: Turn]] /\ ~NoHalt.on
    BY DEF NoHalt
  <2> QED
    BY <2>1 DEF IInv, TypeOK
<1>6. TypeOK'
  BY <1>2, <1>5 DEF IInv, TypeOK, countVars
<1>7. DeliveryInv'
  BY <1>2, <1>4 DEF Sent, Unsent, DeliveryInv, NoticeInv, HeldInv, NoIdleNotices, LeadRuns, Up, Idle
<1>8. KeptStep
  BY <1>2, <1>3, <1>4 DEF KeptStep
<1>9. CountStep
  <2>1. mem.auto \in Nat
    BY CapAssumption DEF IInv, TypeOK, Stored
  <2> QED
    BY <1>2, <1>4, <2>1 DEF CountStep, Sent, Unsent
<1>10. StopStep
  BY <1>2, <1>3, <1>4, <1>5 DEF StopStep, Works
<1>11. ClaimStep
  BY <1>4 DEF ClaimStep, Works, countVars
<1>12. ResumeStep
  BY <1>5 DEF ResumeStep, countVars
<1> QED
  BY <1>6, <1>7, <1>8, <1>9, <1>10, <1>11, <1>12, CalmKeeps

LEMMA LeadFailsKeeps ==
    ASSUME IInv, LeadFails
    PROVE  IInv'
<1> DEFINE m == [mem EXCEPT !.lead = "failed"]
<1>1. /\ Flush(m) /\ Idle
      /\ UNCHANGED <<disk, leadVars, commits, typed, resume, phase, countVars, sent, overlapped, streak,
                     restored, halt>>
  BY DEF LeadFails, Up
<1>2. /\ m \in Stored /\ m.queue = mem.queue /\ m.auto = mem.auto /\ m.told = mem.told
      /\ m.status = mem.status /\ m.key = mem.key /\ m.cut = mem.cut /\ m.held = mem.held
  BY DEF IInv, TypeOK, Stored, Status
<1> HIDE DEF m
<1>3. /\ m.held \/ restored' = {}
      /\ restored' \subseteq Notice
      /\ launching' \in BOOLEAN /\ cancelled' \in 0..MaxPending /\ leadCommits' \in 0..MaxPending
  BY <1>1, <1>2 DEF IInv, TypeOK, DeliveryInv, HeldInv, leadVars
<1> QED
  BY <1>1, <1>2, <1>3, FlushKeeps

LEMMA ResumeCrewKeeps ==
    ASSUME IInv, ResumeCrew
    PROVE  IInv'
<1> DEFINE m == [mem EXCEPT !.held = FALSE]
<1>1. /\ Flush(m) /\ Idle /\ restored' = {} /\ halt' = NoHalt
      /\ UNCHANGED <<disk, leadVars, commits, typed, resume, phase, countVars, sent, overlapped, streak>>
  BY DEF ResumeCrew, Up
<1>2. /\ m \in Stored /\ m.queue = mem.queue /\ m.auto = mem.auto /\ m.told = mem.told
      /\ m.status = mem.status /\ m.key = mem.key /\ m.cut = mem.cut
  BY DEF IInv, TypeOK, Stored
<1> HIDE DEF m
<1>3. launching' \in BOOLEAN /\ cancelled' \in 0..MaxPending /\ leadCommits' \in 0..MaxPending
  BY <1>1 DEF IInv, TypeOK, leadVars
<1> QED
  BY <1>1, <1>2, <1>3, FlushKeeps

\* resumeInterruptedRuns marks the lead on disk.
LEMMA ResumeInterruptedKeeps ==
    ASSUME IInv, ResumeInterrupted
    PROVE  IInv'
<1>1. /\ Idle /\ resume = "boot" /\ mem \in Stored
      /\ UNCHANGED <<leadVars, commits, deferred, starting, typed, phase, countVars,
                     sent, overlapped, streak, restored, stranded>>
  BY DEF ResumeInterrupted, Up, IInv, TypeOK
<1>2. CASE resume' = "done" /\ UNCHANGED <<mem, disk, halt>>
  <2>1. TypeOK'
    BY <1>1, <1>2 DEF IInv, TypeOK, leadVars, countVars
  <2>2. DeliveryInv'
    BY <1>1, <1>2 DEF IInv, DeliveryInv, NoticeInv, HeldInv, NoIdleNotices, LeadRuns, Up, Idle,
                      leadVars
  <2>3. Flushed' = Flushed
    BY <1>1 DEF Flushed
  <2>4. KeptStep /\ StopStep /\ ClaimStep /\ ResumeStep
    BY <1>1, <1>2, <2>3 DEF KeptStep, StopStep, ClaimStep, ResumeStep, Works, countVars
  <2>5. CountStep
    BY <1>1, <1>2, CapAssumption DEF CountStep, Stored
  <2> QED
    BY <2>1, <2>2, <2>4, <2>5, CalmKeeps
<1>3. CASE /\ resume' = "queued" /\ mem' = [mem EXCEPT !.resumable = "resumed"] /\ disk' = mem'
           /\ halt' = NoHalt
  <2>1. /\ mem' \in Stored /\ mem'.lead = mem.lead /\ mem'.queue = mem.queue /\ mem'.held = mem.held
        /\ mem'.auto = mem.auto /\ mem'.told = mem.told /\ mem'.status = mem.status
        /\ mem'.key = mem.key /\ mem'.cut = mem.cut
    BY <1>1, <1>3 DEF Stored
  <2>2. TypeOK'
    BY <1>1, <1>3, <2>1 DEF IInv, TypeOK, leadVars, countVars, NoHalt
  <2>3. DeliveryInv'
    BY <1>1, <2>1 DEF IInv, DeliveryInv, NoticeInv, HeldInv, NoIdleNotices, LeadRuns, Up, Idle,
                      leadVars
  <2>4. Flushed' = {} /\ Flushed = {}
    BY <1>1, FlushedEmpty DEF Idle
  <2>5. KeptStep /\ StopStep /\ ClaimStep
    BY <1>1, <1>3, <2>1, <2>4 DEF KeptStep, StopStep, ClaimStep, Works, countVars, NoHalt
  <2>6. CountStep
    BY <1>1, <1>3, <2>1, CapAssumption DEF CountStep, Stored
  <2>7. ResumeInv'
    BY <1>1, <1>3 DEF IInv, ResumeInv, countVars, NoHalt
  <2> QED
    BY <2>2, <2>3, <2>5, <2>6, <2>7, KeptKeeps, CountKeeps, StopKeeps, ClaimKeeps DEF IInv
<1> QED
  BY <1>2, <1>3 DEF ResumeInterrupted

\* resumeOne lifts the hold and queues the line that resumes the lead; or finds
\* the lead running.
LEMMA ResumeLeadKeeps ==
    ASSUME IInv, ResumeLead
    PROVE  IInv'
<1> DEFINE n == ResumeNote(restarts)
           m == [mem EXCEPT !.held = FALSE]
<1>1. /\ Idle /\ resume = "queued" /\ resume' = "done"
      /\ UNCHANGED <<leadVars, commits, typed, phase, countVars, overlapped, streak, halt>>
  BY DEF ResumeLead, Up
<1>2. /\ mem \in Stored /\ disk \in Stored /\ sent \in [Notice -> Nat]
      /\ starting \in BOOLEAN /\ stranded \in BOOLEAN
  BY Types DEF IInv
<1>3. CASE UNCHANGED <<mem, disk, deferred, starting, stranded, sent, restored>>
  <2>1. TypeOK'
    BY <1>1, <1>3 DEF IInv, TypeOK, leadVars, countVars
  <2>2. DeliveryInv'
    BY <1>1, <1>3 DEF IInv, DeliveryInv, NoticeInv, HeldInv, NoIdleNotices, LeadRuns, Up, Idle,
                      leadVars
  <2>3. Flushed' = Flushed
    BY <1>3 DEF Flushed
  <2>4. KeptStep /\ StopStep /\ ClaimStep /\ ResumeStep
    BY <1>1, <1>3, <2>3 DEF KeptStep, StopStep, ClaimStep, ResumeStep, Works, countVars
  <2>5. CountStep
    BY <1>1, <1>2, <1>3, CapAssumption DEF CountStep, Stored
  <2> QED
    BY <2>1, <2>2, <2>4, <2>5, CalmKeeps
<1>4. CASE Post(m, n) /\ restored' = {}
  <2>1. restarts \in Boot /\ n \in Notice /\ sent[n] = 0 /\ ~halt.on
    <3>1. restarts \in Boot /\ ~(sent[n] > 0) /\ ~halt.on
      BY <1>1 DEF IInv, ResumeInv
    <3>2. n \in Notice
      BY <3>1, ResumeNotes
    <3> QED
      BY <1>2, <3>1, <3>2
  <2>2. \A w \in Workers, k \in Key : n # Note(w, k)
    BY ResumeNotes
  <2>3. \A b \in Boot : ResumeNote(b) = n => b = restarts
    BY ResumeNotes
  <2>4. /\ m \in Stored /\ m.lead = mem.lead /\ m.queue = mem.queue /\ ~m.held
        /\ m.auto = mem.auto /\ m.told = mem.told /\ m.status = mem.status
        /\ m.key = mem.key /\ m.cut = mem.cut
    BY <1>2 DEF Stored
  <2> HIDE DEF n, m
  <2>5. /\ mem' \in Stored /\ SameRest(mem', m)
        /\ disk' \in Stored /\ SameRest(disk', m)
        /\ ToSet(disk'.queue) = ToSet(m.queue) \cup {n}
        /\ Flushed' \cup ToSet(mem'.queue) = ToSet(m.queue) \cup {n}
        /\ deferred' \in Seq(Seq(Notice)) /\ starting' \in BOOLEAN /\ stranded' \in BOOLEAN
        /\ sent' \in [Notice -> Nat] /\ sent'[n] = sent[n] + 1
        /\ \A x \in Notice : x # n => sent'[x] = sent[x]
        /\ \/ /\ m.lead # "working" /\ ~m.held /\ mem'.queue = <<>>
              /\ deferred' # <<>> /\ Len(deferred') = 1
           \/ /\ m.lead = "working" \/ m.held
              /\ deferred' = <<>> /\ Flushed' = {} /\ stranded' = stranded
    BY <1>1, <1>2, <1>4, <2>1, <2>4, PostFields
  <2>6. TypeOK'
    BY <1>1, <1>4, <2>5 DEF IInv, TypeOK, leadVars, countVars
  <2>7. DeliveryInv'
    BY <1>4, <2>4, <2>5 DEF DeliveryInv, NoticeInv, HeldInv, NoIdleNotices, LeadRuns, SameRest
  <2>8. KeptInv'
    <3>1. Flushed = {} /\ mem'.told = mem.told /\ disk'.told = mem.told
      BY <1>1, <2>4, <2>5, FlushedEmpty DEF Idle, SameRest
    <3>2. ASSUME NEW x \in Notice, sent'[x] > 0
          PROVE  x \in mem.told \cup ToSet(mem.queue) \cup {n}
      BY <2>5, <3>1, <3>2 DEF IInv, KeptInv, NoticesSurvive
    <3>3. NoticesSurvive'
      BY <2>4, <2>5, <3>1, <3>2 DEF NoticesSurvive
    <3> QED
      BY <3>1, <3>3 DEF KeptInv
  <2>9. CountStep
    <3>1. streak' = streak /\ mem'.auto = mem.auto /\ disk'.auto = mem'.auto /\ mem.auto \in Nat
      BY <1>1, <1>2, <2>4, <2>5, CapAssumption DEF SameRest, Stored
    <3> QED
      BY <3>1 DEF CountStep
  <2>10. StopStep
    BY <1>1, <2>1 DEF StopStep
  <2>11. ClaimInv'
    <3>1. \A v \in Workers, k \in Key : sent'[Note(v, k)] = sent[Note(v, k)]
      BY <2>2, <2>5, Notes
    <3>2. /\ mem'.key = mem.key /\ disk'.key = mem.key /\ mem'.cut = mem.cut /\ disk'.cut = mem.cut
          /\ mem'.status = mem.status
      BY <2>4, <2>5 DEF SameRest
    <3>3. UNCHANGED <<turns, peers, restarts, commits, overlapped>>
      BY <1>1 DEF countVars
    <3>4. TurnInv' /\ RunKeyInv'
      BY <3>1, <3>2, <3>3, Keys DEF IInv, ClaimInv, TurnInv, RunKeyInv, Works
    <3>5. CutKeyInv' /\ PeerInv'
      BY <3>1, <3>2, <3>3, Keys DEF IInv, ClaimInv, CutKeyInv, PeerInv
    <3>6. OverlapInv'
      BY <3>2, <3>3 DEF IInv, ClaimInv, OverlapInv, LastTurn, Works
    <3> QED
      BY <3>4, <3>5, <3>6 DEF ClaimInv
  <2>12. ResumeInv'
    <3>1. UNCHANGED <<restarts, halt>>
      BY <1>1 DEF countVars
    <3>2. ASSUME NEW b \in Boot
          PROVE  /\ sent'[ResumeNote(b)] <= 1
                 /\ sent'[ResumeNote(b)] > 0 => b <= restarts
      <4>1. CASE b = restarts
        BY <2>1, <2>5, <4>1 DEF n, Boot
      <4>2. CASE b # restarts
        <5>1. ResumeNote(b) \in Notice /\ ResumeNote(b) # n
          BY <2>3, <4>2, ResumeNotes
        <5> QED
          BY <2>5, <5>1 DEF IInv, ResumeInv
      <4> QED
        BY <4>1, <4>2
    <3> QED
      BY <1>1, <3>1, <3>2 DEF ResumeInv
  <2> QED
    BY <2>6, <2>7, <2>8, <2>9, <2>10, <2>11, <2>12, CountKeeps, StopKeeps DEF IInv
<1> QED
  BY <1>3, <1>4 DEF ResumeLead

\* stopCrew moves what is queued into the transcript.
LEMMA StopLeadKeeps ==
    ASSUME IInv, StopLead
    PROVE  IInv'
<1>1. /\ mem' = [mem EXCEPT !.status = [w \in Workers |-> IF Works(w) THEN "idle" ELSE @[w]],
                            !.told = @ \cup ToSet(mem.queue), !.queue = <<>>, !.held = FALSE,
                            !.lead = IF @ = "working" THEN "idle" ELSE @]
      /\ launching' = FALSE /\ restored' = {} /\ stranded' = FALSE
      /\ halt' = [on |-> TRUE, late |-> commits] /\ Idle
      /\ resume' = IF resume = "queued" THEN "done" ELSE resume
      /\ UNCHANGED <<disk, leadCommits, commits, deferred, starting, typed, phase, countVars,
                     sent, overlapped, streak>>
  BY DEF StopLead, Up
<1>2. mem \in Stored /\ mem.queue \in Seq(Notice) /\ ToSet(mem.queue) \subseteq Notice
      /\ mem.auto \in Nat
  <2>1. mem \in Stored /\ mem.queue \in Seq(Notice) /\ mem.auto \in Nat
    BY CapAssumption DEF IInv, TypeOK, Stored
  <2> QED
    BY <2>1, SetType
<1>3. /\ mem' \in Stored /\ mem'.queue = <<>> /\ mem'.told = mem.told \cup ToSet(mem.queue)
      /\ mem'.auto = mem.auto /\ mem'.key = mem.key /\ mem'.cut = mem.cut
      /\ \A w \in Workers : mem'.status[w] # "working"
  BY <1>1, <1>2, EmptySet DEF Stored, Status, Works
<1>4. cancelled' \in 0..MaxPending
  BY BoundsAssumption DEF StopLead, IInv, TypeOK
<1>5. halt'.on /\ halt'.late = commits /\ halt' \in [on: BOOLEAN, late: SUBSET [w: Workers, r: Turn]]
  BY <1>1 DEF IInv, TypeOK
<1>6. TypeOK'
  BY <1>1, <1>3, <1>4, <1>5 DEF IInv, TypeOK, countVars
<1>7. DeliveryInv'
  BY <1>1, <1>3 DEF DeliveryInv, NoticeInv, HeldInv, NoIdleNotices, Idle
<1>8. Flushed = {} /\ Flushed' = {} /\ ToSet(mem'.queue) = {}
  BY <1>1, <1>3, FlushedEmpty, EmptySet DEF Idle
<1>9. KeptStep
  BY <1>1, <1>3, <1>8 DEF KeptStep
<1>10. CountStep
  BY <1>1, <1>2, <1>3 DEF CountStep, Idle
<1>11. StopInv'
  BY <1>1, <1>3, <1>5, <1>8 DEF StopInv, OnlyLateCommitsWake, Works
<1>12. ClaimStep
  BY <1>1, <1>3 DEF ClaimStep, countVars
<1>13. ResumeStep
  BY <1>1 DEF ResumeStep, countVars
<1> QED
  BY <1>6, <1>7, <1>9, <1>10, <1>11, <1>12, <1>13, KeptKeeps, CountKeeps, ClaimKeeps, ResumeKeeps
  DEF IInv

-----------------------------------------------------------------------------
(* The disk, a quit and the next boot.                                     *)

LEMMA FlushesKeep ==
    ASSUME IInv, FlushTranscripts \/ FlushStore
    PROVE  IInv'
<1>1. /\ Idle /\ mem \in Stored /\ disk \in Stored
      /\ UNCHANGED <<mem, leadVars, commits, deferred, starting, typed, resume, phase, countVars, histVars>>
  BY DEF FlushTranscripts, FlushStore, IInv, TypeOK
<1>2. /\ disk' \in Stored
      /\ disk'.key \in {disk.key, mem.key} /\ disk'.cut \in {disk.cut, mem.cut}
      /\ disk'.auto \in {disk.auto, mem.auto}
      /\ \/ disk' = mem
         \/ disk'.told = mem.told /\ disk'.queue = disk.queue
  BY <1>1 DEF FlushTranscripts, FlushStore, Stored
<1>3. Flushed = {} /\ Flushed' = {}
  BY <1>1, FlushedEmpty DEF Idle
<1>4. TypeOK'
  BY <1>1, <1>2 DEF IInv, TypeOK, leadVars, countVars, histVars
<1>5. DeliveryInv'
  BY <1>1 DEF IInv, DeliveryInv, NoticeInv, HeldInv, NoIdleNotices, LeadRuns, Up, Idle, leadVars,
              histVars
<1>6. KeptStep
  BY <1>1, <1>2, <1>3 DEF KeptStep, histVars
<1>7. CountStep
  <2>1. mem.auto \in Nat
    BY <1>1, CapAssumption DEF Stored
  <2> QED
    BY <1>1, <1>2, <2>1 DEF CountStep, histVars
<1>8. StopStep
  BY <1>1, <1>3 DEF StopStep, Works, histVars
<1>9. ClaimStep
  BY <1>1, <1>2 DEF ClaimStep, Works, countVars, histVars
<1>10. ResumeStep
  BY <1>1 DEF ResumeStep, countVars, histVars
<1> QED
  BY <1>4, <1>5, <1>6, <1>7, <1>8, <1>9, <1>10, CalmKeeps

\* stopAll marks the workers that run with the boot to come.
LEMMA QuitKeeps ==
    ASSUME IInv, Quit
    PROVE  IInv'
<1>1. /\ mem' = [mem EXCEPT !.lead = IF @ = "working" THEN "idle" ELSE @,
                            !.resumable = IF LeadRuns /\ @ = "none" THEN "cut" ELSE @,
                            !.status = [w \in Workers |-> IF Works(w) THEN "idle" ELSE @[w]],
                            !.cut = [w \in Workers |-> IF Works(w) THEN restarts + 1 ELSE @[w]]]
      /\ disk' = mem' /\ phase' = "quitting" /\ launching' = FALSE /\ Idle
      /\ resume' = "done"
      /\ restarts < MaxRestarts
      /\ UNCHANGED <<leadCommits, commits, deferred, starting, typed, countVars, histVars>>
  BY DEF Quit, Up
<1>2. mem \in Stored /\ restarts \in Nat /\ MaxRestarts \in Nat /\ mem.auto \in Nat
  <2>1. mem \in Stored /\ restarts \in Nat /\ MaxRestarts \in Nat
    BY Types DEF IInv
  <2> QED
    BY <2>1, CapAssumption DEF Stored
<1>3. restarts + 1 \in 0..MaxRestarts
  BY <1>1, <1>2
<1>4. /\ mem' \in Stored /\ mem'.queue = mem.queue /\ mem'.told = mem.told /\ mem'.held = mem.held
      /\ mem'.auto = mem.auto /\ mem'.key = mem.key
      /\ \A w \in Workers : /\ mem'.status[w] # "working"
                            /\ mem'.cut[w] = IF Works(w) THEN restarts + 1 ELSE mem.cut[w]
  BY <1>1, <1>2, <1>3 DEF Stored, Status, Works
<1>5. cancelled' \in 0..MaxPending
  BY BoundsAssumption DEF Quit, IInv, TypeOK
<1>6. TypeOK'
  BY <1>1, <1>4, <1>5 DEF IInv, TypeOK, countVars, histVars
<1>7. DeliveryInv'
  BY <1>1, <1>4 DEF IInv, DeliveryInv, NoticeInv, HeldInv, NoIdleNotices, Up, Idle, histVars
<1>8. Flushed = {} /\ Flushed' = {}
  BY <1>1, FlushedEmpty DEF Idle
<1>9. KeptStep
  BY <1>1, <1>4, <1>8 DEF KeptStep, histVars
<1>10. CountStep
  BY <1>1, <1>2, <1>4 DEF CountStep, histVars
<1>11. StopStep
  BY <1>1, <1>4, <1>8 DEF StopStep, histVars
<1>12. ClaimInv'
  <2>1. UNCHANGED <<sent, overlapped, turns, peers, restarts, commits>>
    BY <1>1 DEF countVars, histVars
  <2>2. TurnInv' /\ PeerInv' /\ OverlapInv'
    BY <1>4, <2>1 DEF IInv, ClaimInv, TurnInv, PeerInv, OverlapInv, LastTurn, Works
  <2>3. RunKeyInv'
    BY <1>1, <1>4, <2>1 DEF IInv, ClaimInv, RunKeyInv, Works
  <2>4. CutKeyInv'
    <3>1. ASSUME NEW w \in Workers, NEW b \in Boot, sent[Note(w, CutKey(b))] > 0, mem'.cut[w] = b
          PROVE  mem.cut[w] = b
      <4>1. b <= restarts
        BY <3>1 DEF IInv, ClaimInv, CutKeyInv
      <4>2. mem'.cut[w] # restarts + 1
        BY <1>2, <3>1, <4>1
      <4> QED
        BY <1>4, <3>1, <4>2
    <3>2. \A w \in Workers : mem'.cut[w] <= restarts + 1
      BY <1>2, <1>4 DEF IInv, ClaimInv, CutKeyInv
    <3> QED
      BY <1>1, <1>4, <2>1, <3>1, <3>2 DEF IInv, ClaimInv, CutKeyInv
  <2> QED
    BY <2>2, <2>3, <2>4 DEF ClaimInv
<1>13. ResumeStep
  BY <1>1 DEF ResumeStep, countVars, histVars
<1> QED
  BY <1>6, <1>7, <1>9, <1>10, <1>11, <1>12, <1>13, KeptKeeps, CountKeeps, StopKeeps, ResumeKeeps
  DEF IInv

LEMMA RecoveredFields ==
    ASSUME IInv, restarts < MaxRestarts, NEW m, m = Recovered(disk, restarts + 1)
    PROVE  /\ m \in Stored /\ m.queue = disk.queue /\ m.held = (disk.queue # <<>>)
           /\ m.auto = disk.auto /\ m.told = disk.told /\ m.key = disk.key
           /\ \A w \in Workers :
                 /\ m.status[w] # "working"
                 /\ m.cut[w] = IF disk.status[w] = "working" THEN restarts + 1 ELSE disk.cut[w]
                 /\ m.cut[w] \in 0..MaxRestarts /\ m.cut[w] <= restarts + 1
<1>1. disk \in Stored /\ restarts + 1 \in 0..MaxRestarts /\ restarts \in Nat
  BY Types DEF IInv
<1>2. \A w \in Workers : disk.cut[w] \in 0..MaxRestarts /\ disk.cut[w] <= restarts + 1
  BY <1>1 DEF Stored, IInv, ClaimInv, CutKeyInv
<1>3. /\ m \in Stored /\ m.queue = disk.queue /\ m.held = (disk.queue # <<>>)
      /\ m.auto = disk.auto /\ m.told = disk.told /\ m.key = disk.key
      /\ m.status = [w \in Workers |->
                       IF disk.status[w] = "working" THEN "failed" ELSE disk.status[w]]
      /\ m.cut = [w \in Workers |->
                    IF disk.status[w] = "working" THEN restarts + 1 ELSE disk.cut[w]]
  BY <1>1 DEF Recovered, Stored, Status
<1> QED
  BY <1>1, <1>2, <1>3

\* The notices of the workers that were cut off.
CutNotes(m) == {Note(w, CutKey(m.cut[w])) : w \in Unnoticed(m)}

LEMMA InterruptedFields ==
    ASSUME NEW m \in Stored, NEW rows \in SetToSeqs(Unnoticed(m)),
           NEW q, q = NoticeInterruptedWorkers(m, rows)
    PROVE  /\ q \in Stored /\ q.auto = m.auto /\ q.told = m.told /\ q.status = m.status
           /\ q.cut = m.cut /\ q.held = (m.held \/ Unnoticed(m) # {})
           /\ ToSet(q.queue) = ToSet(m.queue) \cup CutNotes(m)
           /\ \A w \in Workers :
                 q.key[w] = IF w \in Unnoticed(m) THEN CutKey(m.cut[w]) ELSE m.key[w]
<1> DEFINE notes == [i \in DOMAIN rows |-> Note(rows[i], CutKey(m.cut[rows[i]]))]
           s == m.queue \o notes
           key == [w \in Workers |-> IF w \in Unnoticed(m) THEN CutKey(m.cut[w]) ELSE m.key[w]]
<1>1. Unnoticed(m) \subseteq Workers /\ IsFiniteSet(Unnoticed(m))
  BY WorkersAssumption, FS_Subset DEF Unnoticed
<1>2. rows \in Seq(Unnoticed(m)) /\ ToSet(rows) = Unnoticed(m)
  BY <1>1, SetOfSeq
<1>3. /\ DOMAIN rows = 1..Len(rows) /\ Len(rows) \in Nat
      /\ \A i \in DOMAIN rows : rows[i] \in Unnoticed(m)
  BY <1>2, LenProperties, ElementOfSeq
<1>4. \A w \in Unnoticed(m) : CutKey(m.cut[w]) \in Key /\ Note(w, CutKey(m.cut[w])) \in Notice
  <2>1. ASSUME NEW w \in Unnoticed(m)
        PROVE  CutKey(m.cut[w]) \in Key /\ Note(w, CutKey(m.cut[w])) \in Notice
    <3>1. w \in Workers /\ m.cut[w] \in 0..MaxRestarts /\ m.cut[w] # 0
      BY <2>1 DEF Unnoticed, Stored
    <3>2. m.cut[w] \in Boot
      BY <3>1, BoundsAssumption DEF Boot
    <3>3. CutKey(m.cut[w]) \in Key
      BY <3>2, Keys
    <3> QED
      BY <3>1, <3>3, Notes
  <2> QED
    BY <2>1
<1>5. notes \in [1..Len(rows) -> Notice]
  BY <1>3, <1>4
<1>6. notes \in Seq(Notice)
  BY <1>3, <1>5
<1>7. ToSet(notes) = CutNotes(m)
  <2>1. ToSet(notes) = {Note(rows[i], CutKey(m.cut[rows[i]])) : i \in DOMAIN rows}
    BY DEF ToSet
  <2>2. Unnoticed(m) = {rows[i] : i \in DOMAIN rows}
    BY <1>2 DEF ToSet
  <2> QED
    BY <2>1, <2>2 DEF CutNotes
<1> HIDE DEF notes
<1>8. s \in Seq(Notice) /\ ToSet(s) = ToSet(m.queue) \cup CutNotes(m)
  BY <1>6, <1>7, ConcatSet DEF Stored
<1>9. key \in [Workers -> Key \cup {NoKey}]
  BY <1>4 DEF Stored
<1>10. q = [m EXCEPT !.queue = s, !.held = (m.held \/ Unnoticed(m) # {}), !.key = key]
  BY DEF NoticeInterruptedWorkers, Stored, notes
<1> HIDE DEF s, key
<1>11. /\ q \in Stored /\ q.auto = m.auto /\ q.told = m.told /\ q.status = m.status
       /\ q.cut = m.cut /\ q.held = (m.held \/ Unnoticed(m) # {}) /\ q.queue = s /\ q.key = key
  BY <1>8, <1>9, <1>10 DEF Stored
<1> QED
  BY <1>8, <1>11 DEF key

\* What a boot finds: m is the store as recovered, N the notices it adds.
LEMMA RebootFields ==
    ASSUME IInv, Reboot
    PROVE  \E m \in Stored :
           /\ restarts' = restarts + 1 /\ restarts < MaxRestarts
           /\ m.queue = disk.queue /\ m.held = (disk.queue # <<>>) /\ m.key = disk.key
           /\ mem' \in Stored /\ disk' \in Stored
           /\ mem'.auto = disk.auto /\ disk'.auto = disk.auto
           /\ mem'.told = disk.told /\ disk'.told = disk.told
           /\ disk' = disk \/ disk' = mem'
           /\ mem'.held = (m.held \/ Unnoticed(m) # {})
           /\ ToSet(mem'.queue) = ToSet(disk.queue) \cup CutNotes(m)
           /\ ToSet(disk'.queue) = ToSet(mem'.queue)
           /\ disk'.key = mem'.key /\ mem'.cut = m.cut
           /\ \A w \in Workers :
                 /\ mem'.status[w] # "working"
                 /\ m.cut[w] \in 0..MaxRestarts /\ m.cut[w] <= restarts + 1
                 /\ m.cut[w] = restarts + 1 \/ m.cut[w] = disk.cut[w]
                 /\ mem'.key[w] = IF w \in Unnoticed(m) THEN CutKey(m.cut[w]) ELSE mem.key[w]
           /\ sent' = [n \in Notice |->
                        IF n.from \in Unnoticed(m) /\ n.key = CutKey(m.cut[n.from])
                        THEN sent[n] + 1 ELSE sent[n]]
<1> DEFINE m == Recovered(disk, restarts + 1)
           cut == Unnoticed(m)
<1>1. /\ restarts < MaxRestarts /\ restarts' = restarts + 1
      /\ disk' = IF cut = {} THEN disk ELSE mem'
      /\ sent' = [n \in Notice |->
           IF n.from \in cut /\ n.key = CutKey(m.cut[n.from]) THEN sent[n] + 1 ELSE sent[n]]
  BY DEF Reboot
<1>2. PICK rows \in SetToSeqs(cut) : mem' = NoticeInterruptedWorkers(m, rows)
  BY DEF Reboot
<1>3. /\ m \in Stored /\ m.queue = disk.queue /\ m.held = (disk.queue # <<>>)
      /\ m.auto = disk.auto /\ m.told = disk.told /\ m.key = disk.key
      /\ \A w \in Workers :
            /\ m.status[w] # "working"
            /\ m.cut[w] = IF disk.status[w] = "working" THEN restarts + 1 ELSE disk.cut[w]
            /\ m.cut[w] \in 0..MaxRestarts /\ m.cut[w] <= restarts + 1
  BY <1>1, RecoveredFields
<1> HIDE DEF m
<1>4. /\ mem' \in Stored /\ mem'.auto = m.auto /\ mem'.told = m.told /\ mem'.status = m.status
      /\ mem'.cut = m.cut /\ mem'.held = (m.held \/ cut # {})
      /\ ToSet(mem'.queue) = ToSet(m.queue) \cup CutNotes(m)
      /\ \A w \in Workers : mem'.key[w] = IF w \in cut THEN CutKey(m.cut[w]) ELSE m.key[w]
  BY <1>2, <1>3, InterruptedFields
<1>5. disk \in Stored /\ mem.key = disk.key /\ mem \in Stored
  BY Types DEF IInv, ClaimInv, RunKeyInv
<1>6. /\ disk' \in Stored /\ disk'.auto = disk.auto /\ disk'.told = disk.told
      /\ disk' = disk \/ disk' = mem'
      /\ ToSet(disk'.queue) = ToSet(mem'.queue) /\ disk'.key = mem'.key
  <2>1. CASE cut = {}
    <3>1. disk' = disk /\ CutNotes(m) = {} /\ \A w \in Workers : mem'.key[w] = disk.key[w]
      BY <1>1, <1>3, <1>4, <2>1 DEF CutNotes
    <3>2. mem'.key = disk.key
      <4>1. mem'.key \in [Workers -> Key \cup {NoKey}] /\ disk.key \in [Workers -> Key \cup {NoKey}]
        BY <1>4, <1>5 DEF Stored
      <4> QED
        BY <3>1, <4>1
    <3> QED
      BY <1>3, <1>4, <1>5, <3>1, <3>2
  <2>2. CASE cut # {}
    BY <1>1, <1>3, <1>4, <2>2
  <2> QED
    BY <2>1, <2>2
<1>7. \A w \in Workers :
        /\ mem'.status[w] # "working"
        /\ m.cut[w] \in 0..MaxRestarts /\ m.cut[w] <= restarts + 1
        /\ m.cut[w] = restarts + 1 \/ m.cut[w] = disk.cut[w]
        /\ mem'.key[w] = IF w \in cut THEN CutKey(m.cut[w]) ELSE mem.key[w]
  BY <1>3, <1>4, <1>5
<1> QED
  BY <1>1, <1>3, <1>4, <1>6, <1>7

LEMMA RebootKeeps ==
    ASSUME IInv, Reboot
    PROVE  IInv'
<1>1. PICK m \in Stored :
           /\ restarts' = restarts + 1 /\ restarts < MaxRestarts
           /\ m.queue = disk.queue /\ m.held = (disk.queue # <<>>) /\ m.key = disk.key
           /\ mem' \in Stored /\ disk' \in Stored
           /\ mem'.auto = disk.auto /\ disk'.auto = disk.auto
           /\ mem'.told = disk.told /\ disk'.told = disk.told
           /\ disk' = disk \/ disk' = mem'
           /\ mem'.held = (m.held \/ Unnoticed(m) # {})
           /\ ToSet(mem'.queue) = ToSet(disk.queue) \cup CutNotes(m)
           /\ ToSet(disk'.queue) = ToSet(mem'.queue)
           /\ disk'.key = mem'.key /\ mem'.cut = m.cut
           /\ \A w \in Workers :
                 /\ mem'.status[w] # "working"
                 /\ m.cut[w] \in 0..MaxRestarts /\ m.cut[w] <= restarts + 1
                 /\ m.cut[w] = restarts + 1 \/ m.cut[w] = disk.cut[w]
                 /\ mem'.key[w] = IF w \in Unnoticed(m) THEN CutKey(m.cut[w]) ELSE mem.key[w]
           /\ sent' = [n \in Notice |->
                        IF n.from \in Unnoticed(m) /\ n.key = CutKey(m.cut[n.from])
                        THEN sent[n] + 1 ELSE sent[n]]
  BY RebootFields
<1> DEFINE cut == Unnoticed(m)
<1>2. /\ restored' = ToSet(mem'.queue) /\ launching' = FALSE /\ starting' = FALSE
      /\ cancelled' = 0 /\ leadCommits' = 0 /\ commits' = {} /\ deferred' = <<>>
      /\ phase' = "up" /\ stranded' = FALSE /\ halt' = NoHalt
      /\ streak' = IF disk.auto < mem.auto /\ streak > 0 THEN streak - 1 ELSE streak
      /\ resume' \in {"boot", "done"}
      /\ UNCHANGED <<typed, turns, peers, overlapped>>
  BY DEF Reboot
<1>3. /\ mem \in Stored /\ disk \in Stored /\ sent \in [Notice -> Nat] /\ restarts \in Nat
      /\ MaxRestarts \in Nat /\ MaxPending \in Nat
  BY Types DEF IInv
<1>4. cut \subseteq Workers /\ \A w \in cut : m.cut[w] \in Boot /\ mem.key[w] # CutKey(m.cut[w])
  <2>1. m.key = mem.key
    BY <1>1 DEF IInv, ClaimInv, RunKeyInv
  <2>2. ASSUME NEW w \in cut PROVE w \in Workers /\ m.cut[w] \in Boot /\ mem.key[w] # CutKey(m.cut[w])
    <3>1. w \in Workers /\ m.cut[w] # 0 /\ m.key[w] # CutKey(m.cut[w])
      BY <2>2 DEF Unnoticed
    <3> QED
      BY <1>1, <1>3, <2>1, <3>1 DEF Boot
  <2> QED
    BY <2>2
<1> HIDE DEF cut
\* The notices a boot queues are new.
<1>5. \A w \in cut : sent[Note(w, CutKey(m.cut[w]))] = 0
  <2>1. ASSUME NEW w \in cut PROVE sent[Note(w, CutKey(m.cut[w]))] = 0
    <3>1. /\ w \in Workers /\ m.cut[w] \in Boot /\ mem.key[w] # CutKey(m.cut[w])
          /\ m.cut[w] = restarts + 1 \/ m.cut[w] = disk.cut[w]
      BY <1>1, <1>4
    <3>2. sent[Note(w, CutKey(m.cut[w]))] \in Nat
      BY <1>3, <3>1, Keys, Notes
    <3>3. ~(sent[Note(w, CutKey(m.cut[w]))] > 0)
      BY <1>3, <3>1 DEF IInv, ClaimInv, CutKeyInv
    <3> QED
      BY <3>2, <3>3
  <2> QED
    BY <2>1
<1>6. \A w \in Workers, k \in Key :
        sent'[Note(w, k)] = IF w \in cut /\ k = CutKey(m.cut[w]) THEN sent[Note(w, k)] + 1
                            ELSE sent[Note(w, k)]
  <2>1. ASSUME NEW w \in Workers, NEW k \in Key
        PROVE  sent'[Note(w, k)] = IF w \in cut /\ k = CutKey(m.cut[w]) THEN sent[Note(w, k)] + 1
                                   ELSE sent[Note(w, k)]
    <3>1. Note(w, k) \in Notice
      BY Notes
    <3>2. Note(w, k).from = w /\ Note(w, k).key = k
      BY DEF Note
    <3> HIDE DEF Note
    <3> QED
      BY <1>1, <3>1, <3>2 DEF cut
  <2> QED
    BY <2>1
<1>7. sent' \in [Notice -> Nat]
  BY <1>1, <1>3
<1>8. /\ mem.auto \in Nat /\ disk.auto \in Nat /\ streak \in Nat /\ streak <= mem.auto
      /\ streak <= disk.auto + 1
  BY <1>3, CapAssumption DEF Stored, IInv, TypeOK, CountInv
<1>9. streak' \in Nat /\ streak' <= disk.auto
  BY <1>2, <1>8
<1>10. ToSet(mem'.queue) \subseteq Notice /\ (ToSet(mem'.queue) # {} => mem'.held)
       /\ (mem'.queue # <<>> => ToSet(mem'.queue) # {})
  <2>1. mem'.queue \in Seq(Notice)
    BY <1>1 DEF Stored
  <2>2. ToSet(disk.queue) # {} => disk.queue # <<>>
    BY EmptySet
  <2>3. CutNotes(m) # {} => Unnoticed(m) # {}
    BY DEF CutNotes
  <2> QED
    BY <1>1, <2>1, <2>2, <2>3, SetType
<1>11. TypeOK'
  <2>1. restarts' \in 0..MaxRestarts /\ cancelled' \in 0..MaxPending /\ leadCommits' \in 0..MaxPending
    BY <1>1, <1>2, <1>3
  <2>2. /\ deferred' \in Seq(Seq(Notice)) /\ commits' \subseteq [w: Workers, r: Turn]
        /\ restored' \subseteq Notice /\ halt' \in [on: BOOLEAN, late: SUBSET [w: Workers, r: Turn]]
    BY <1>2, <1>10, EmptySet DEF NoHalt
  <2> QED
    BY <1>1, <1>2, <1>7, <1>9, <2>1, <2>2 DEF IInv, TypeOK
<1>12. DeliveryInv'
  BY <1>2, <1>10 DEF DeliveryInv, NoticeInv, HeldInv, NoIdleNotices
<1>13. KeptInv'
  <2>1. ASSUME NEW n \in Notice, sent'[n] > 0
        PROVE  n \in disk.told \cup ToSet(mem'.queue)
    <3>1. CASE n.from \in cut /\ n.key = CutKey(m.cut[n.from])
      <4>1. n.from \in Workers
        BY <1>4, <3>1
      <4>2. n = Note(n.from, n.key)
        BY <4>1, Notes, WorkersAssumption
      <4>3. n \in CutNotes(m)
        BY <3>1, <4>2 DEF CutNotes, cut
      <4> QED
        BY <1>1, <4>3
    <3>2. CASE ~(n.from \in cut /\ n.key = CutKey(m.cut[n.from]))
      <4>1. sent[n] > 0
        BY <1>1, <2>1, <3>2 DEF cut
      <4>2. n \in disk.told \cup ToSet(disk.queue)
        BY <4>1 DEF IInv, KeptInv, NoticesSurvive
      <4> QED
        BY <1>1, <4>2
    <3> QED
      BY <3>1, <3>2
  <2> QED
    BY <1>1, <2>1 DEF KeptInv, NoticesSurvive
<1>14. CountInv'
  BY <1>1, <1>8, <1>9 DEF CountInv
<1>15. StopInv'
  BY <1>2 DEF StopInv, OnlyLateCommitsWake, NoHalt
<1>16. ClaimInv'
  <2>1. TurnInv'
    BY <1>1, <1>2 DEF TurnInv, Works
  <2>2. RunKeyInv'
    <3>1. ASSUME NEW w \in Workers, NEW r \in Turn
          PROVE  LET told == sent'[Note(w, RunKey(r))] IN
                 /\ told <= 1
                 /\ mem'.key[w] = RunKey(r) => told > 0
                 /\ told > 0 => r <= turns'[w]
      <4>1. sent'[Note(w, RunKey(r))] = sent[Note(w, RunKey(r))]
        BY <1>6, Keys
      <4>2. mem'.key[w] = RunKey(r) => mem.key[w] = RunKey(r)
        <5>1. CASE w \in cut
          <6>1. mem'.key[w] = CutKey(m.cut[w])
            BY <1>1, <5>1 DEF cut
          <6> QED
            BY <6>1, Keys
        <5>2. CASE w \notin cut
          BY <1>1, <5>2 DEF cut
        <5> QED
          BY <5>1, <5>2
      <4> QED
        BY <1>2, <4>1, <4>2 DEF IInv, ClaimInv, RunKeyInv
    <3> QED
      BY <1>1, <1>2, <3>1 DEF RunKeyInv, Works
  <2>3. CutKeyInv'
    <3>1. \A w \in Workers : mem'.cut[w] <= restarts' + 1 /\ disk'.cut[w] <= restarts' + 1
      <4>1. \A w \in Workers : /\ m.cut[w] \in Nat /\ m.cut[w] <= restarts + 1
                              /\ disk.cut[w] \in Nat /\ disk.cut[w] <= restarts + 1
        BY <1>1, <1>3 DEF Stored, IInv, ClaimInv, CutKeyInv
      <4> QED
        BY <1>1, <1>3, <4>1
    <3>2. ASSUME NEW w \in Workers, NEW b \in Boot, sent'[Note(w, CutKey(b))] > 0
          PROVE  /\ sent'[Note(w, CutKey(b))] <= 1 /\ b <= restarts'
                 /\ mem'.cut[w] = b \/ disk'.cut[w] = b => mem'.key[w] = CutKey(b)
      <4>1. mem'.cut[w] = b => mem'.key[w] = CutKey(b)
        <5>1. w \notin cut /\ m.cut[w] # 0 => m.key[w] = CutKey(m.cut[w])
          BY DEF cut, Unnoticed
        <5>2. m.key = mem.key /\ b # 0
          BY <1>1 DEF IInv, ClaimInv, RunKeyInv, Boot
        <5> QED
          BY <1>1, <5>1, <5>2 DEF cut
      <4>2. CASE w \in cut /\ b = m.cut[w]
        <5>1. sent'[Note(w, CutKey(b))] = 1 /\ b <= restarts'
          <6>1. CutKey(b) \in Key /\ CutKey(b) = CutKey(m.cut[w])
            BY <4>2, Keys
          <6>2. sent[Note(w, CutKey(b))] = 0
            BY <1>5, <4>2
          <6>3. sent'[Note(w, CutKey(b))] = 1
            BY <1>6, <4>2, <6>1, <6>2
          <6> QED
            BY <1>1, <4>2, <6>3
        <5>2. mem'.key[w] = CutKey(b)
          BY <1>1, <4>2 DEF cut
        <5> QED
          BY <5>1, <5>2
      <4>3. CASE ~(w \in cut /\ b = m.cut[w])
        <5>1. sent'[Note(w, CutKey(b))] = sent[Note(w, CutKey(b))]
          BY <1>6, <4>3, Keys
        <5>2. sent[Note(w, CutKey(b))] <= 1 /\ b <= restarts /\ (disk.cut[w] = b => mem.key[w] = CutKey(b))
          BY <3>2, <5>1 DEF IInv, ClaimInv, CutKeyInv
        <5>3. disk'.cut[w] = b => mem'.key[w] = CutKey(b)
          <6>1. CASE disk' = mem'
            BY <4>1, <6>1
          <6>2. CASE disk' = disk /\ disk'.cut[w] = b
            <7>1. mem.key[w] = CutKey(b) /\ mem.key = disk.key /\ disk'.key = mem'.key
              BY <1>1, <5>2, <6>2 DEF IInv, ClaimInv, RunKeyInv
            <7> QED
              BY <6>2, <7>1
          <6> QED
            BY <1>1, <6>1, <6>2
        <5> QED
          BY <1>1, <1>3, <4>1, <5>1, <5>2, <5>3 DEF Boot
      <4> QED
        BY <4>2, <4>3
    <3>3. \A w \in Workers, b \in Boot : sent'[Note(w, CutKey(b))] \in Nat
      BY <1>7, Keys, Notes
    <3> QED
      BY <1>2, <3>1, <3>2, <3>3 DEF CutKeyInv
  <2>4. PeerInv'
    <3>1. \A w \in Workers, k \in 1..MaxPeers : sent'[Note(w, PeerKey(k))] = sent[Note(w, PeerKey(k))]
      BY <1>6, Keys
    <3> QED
      BY <1>2, <3>1 DEF IInv, ClaimInv, PeerInv
  <2>5. OverlapInv'
    BY <1>1, <1>2 DEF OverlapInv, Works
  <2> QED
    BY <2>1, <2>2, <2>3, <2>4, <2>5 DEF ClaimInv
<1>17. ResumeInv'
  <2>1. \A b \in Boot : sent'[ResumeNote(b)] = sent[ResumeNote(b)]
    <3>1. ASSUME NEW b \in Boot PROVE sent'[ResumeNote(b)] = sent[ResumeNote(b)]
      <4>1. ResumeNote(b) \in Notice /\ ResumeNote(b).from = Lead
        BY ResumeNotes DEF ResumeNote, Note
      <4>2. Lead \notin Unnoticed(m)
        BY WorkersAssumption DEF Unnoticed
      <4> QED
        BY <1>1, <4>1, <4>2
    <3> QED
      BY <3>1
  <2>2. \A b \in Boot : b <= restarts => b <= restarts + 1 /\ b # restarts + 1
    BY <1>3 DEF Boot
  <2>3. restarts' \in Boot
    BY <1>1, <1>3 DEF Boot
  <2> QED
    BY <1>1, <1>2, <2>1, <2>2, <2>3 DEF IInv, ResumeInv, NoHalt
<1> QED
  BY <1>11, <1>12, <1>13, <1>14, <1>15, <1>16, <1>17 DEF IInv

-----------------------------------------------------------------------------
(* The specification.                                                      *)

LEMMA InitHolds == Init => IInv
<1> SUFFICES ASSUME Init PROVE IInv
  OBVIOUS
<1>1. Fresh \in Stored
  BY CapAssumption, BoundsAssumption, EmptySet DEF Fresh, Stored, Status
<1>2. /\ mem = Fresh /\ disk = Fresh /\ Flushed = {} /\ ToSet(Fresh.queue) = {}
      /\ Fresh.queue = <<>> /\ ~Fresh.held /\ Fresh.told = {} /\ Fresh.auto = 0
  BY FlushedEmpty, EmptySet DEF Init, Fresh
<1>3. \A w \in Workers : Fresh.status[w] = "idle" /\ Fresh.key[w] = NoKey /\ Fresh.cut[w] = 0
  BY DEF Fresh
<1>4. /\ launching = FALSE /\ starting = FALSE /\ typed = FALSE
      /\ cancelled = 0 /\ leadCommits = 0
      /\ commits = {} /\ deferred = <<>> /\ phase = "up"
      /\ turns = [w \in Workers |-> 0]
      /\ peers = 0 /\ restarts = 0 /\ sent = [n \in Notice |-> 0]
      /\ resume = "done" /\ overlapped = {} /\ streak = 0 /\ restored = {} /\ stranded = FALSE /\ halt = NoHalt
  BY DEF Init
<1> HIDE DEF Fresh
<1>5. TypeOK
  <2>1. /\ deferred \in Seq(Seq(Notice)) /\ halt \in [on: BOOLEAN, late: SUBSET [w: Workers, r: Turn]]
    BY <1>4, EmptySet DEF NoHalt
  <2>2. sent \in [Notice -> Nat] /\ turns \in [Workers -> 0..MaxTurns]
    BY <1>4, BoundsAssumption
  <2>3. mem \in Stored /\ disk \in Stored
    BY <1>1, <1>2
  <2>4. 0 \in 0..MaxPending /\ 0 \in 0..MaxPeers /\ 0 \in 0..MaxRestarts
    BY BoundsAssumption
  <2> QED
    BY <1>4, <2>1, <2>2, <2>3, <2>4 DEF TypeOK
<1>6. DeliveryInv
  BY <1>2, <1>4 DEF DeliveryInv, NoticeInv, HeldInv, NoIdleNotices
<1>7. KeptInv
  BY <1>2, <1>4 DEF KeptInv, NoticesSurvive
<1>8. CountInv
  BY <1>2, <1>4 DEF CountInv
<1>9. StopInv
  BY <1>4 DEF StopInv, OnlyLateCommitsWake, NoHalt
<1>10. ClaimInv
  <2>1. \A w \in Workers, k \in Key : sent[Note(w, k)] = 0
    BY <1>4, Notes
  <2>2. TurnInv
    BY <1>2, <1>3, <1>4 DEF TurnInv, Works
  <2>3. RunKeyInv
    BY <1>2, <1>3, <2>1, Keys DEF RunKeyInv
  <2>4. CutKeyInv
    BY <1>2, <1>3, <1>4, <2>1, Keys DEF CutKeyInv
  <2>5. PeerInv
    BY <2>1, Keys DEF PeerInv
  <2>6. OverlapInv
    BY <1>2, <1>3, <1>4 DEF OverlapInv, Works
  <2> QED
    BY <2>2, <2>3, <2>4, <2>5, <2>6 DEF ClaimInv
<1>11. ResumeInv
  BY <1>4, ResumeNotes DEF ResumeInv, NoHalt
<1> QED
  BY <1>5, <1>6, <1>7, <1>8, <1>9, <1>10, <1>11 DEF IInv

LEMMA StutterKeeps ==
    ASSUME IInv, UNCHANGED vars
    PROVE  IInv'
<1>1. UNCHANGED <<mem, disk, launching, cancelled, leadCommits, commits, deferred, starting, typed,
                  resume, phase, turns, peers, restarts, sent, overlapped, streak, restored, stranded, halt>>
  BY DEF vars, leadVars, countVars, histVars
<1>2. TypeOK'
  BY <1>1 DEF IInv, TypeOK
<1>3. DeliveryInv'
  BY <1>1 DEF IInv, DeliveryInv, NoticeInv, HeldInv, NoIdleNotices, LeadRuns, Up, Idle
<1>4. KeptInv' /\ CountInv' /\ StopInv'
  BY <1>1 DEF IInv, KeptInv, NoticesSurvive, CountInv, StopInv, OnlyLateCommitsWake, Works, Flushed
<1>5. ClaimInv'
  BY <1>1 DEF IInv, ClaimInv, TurnInv, RunKeyInv, CutKeyInv, PeerInv, OverlapInv, LastTurn, Works
<1>6. ResumeInv'
  BY <1>1 DEF IInv, ResumeInv
<1> QED
  BY <1>2, <1>3, <1>4, <1>5, <1>6 DEF IInv

LEMMA NextKeeps ==
    ASSUME IInv, [Next]_vars
    PROVE  IInv'
<1>1. CASE DeliverNotices
  BY <1>1, DeliverNoticesKeeps
<1>2. CASE WorkerActs
  <2>1. ASSUME NEW w \in Workers,
               WorkerStarts(w) \/ WorkerDone(w) \/ WorkerFails(w) \/ StopWorker(w) \/ PeerSends(w)
        PROVE  IInv'
    BY <2>1, WorkerStartsKeeps, WorkerDoneKeeps, WorkerFailsKeeps, StopWorkerKeeps, PeerSendsKeeps
  <2>2. ASSUME NEW c \in commits, CommitSettles(c) PROVE IInv'
    BY <2>2, CommitSettlesKeeps
  <2> QED
    BY <1>2, <2>1, <2>2 DEF WorkerActs
<1>3. CASE LeadActs
  BY <1>3, LaunchesKeep, CancelledSettlesKeeps, LeadCommitSettlesKeeps, LeadFailsKeeps DEF LeadActs
<1>4. CASE UserActs
  BY <1>4, UserSendsKeeps, LaunchesKeep, StopLeadKeeps, ResumeCrewKeeps DEF UserActs
<1>5. CASE FlushTranscripts \/ FlushStore
  BY <1>5, FlushesKeep
<1>6. CASE Quit
  BY <1>6, QuitKeeps
<1>7. CASE Reboot
  BY <1>7, RebootKeeps
<1>8. CASE UNCHANGED vars
  BY <1>8, StutterKeeps
<1>9. CASE AutoResume
  BY <1>9, ResumeInterruptedKeeps, ResumeLeadKeeps DEF AutoResume
<1> QED
  BY <1>1, <1>2, <1>3, <1>4, <1>5, <1>6, <1>7, <1>8, <1>9 DEF Next

\* The parts of the invariant hold in every reachable state, for every crew,
\* cap and bound: what runner-orch-notices.js relies on between any two steps.
THEOREM Invariant == Spec => []IInv
<1>1. Init => IInv
  BY InitHolds
<1>2. IInv /\ [Next]_vars => IInv'
  BY NextKeeps
<1> QED
  BY <1>1, <1>2, PTL DEF Spec

\* Every variable keeps its type: in particular autoTurns never leaves 0..cap.
THEOREM TypeCorrect == Spec => []TypeOK
<1>1. IInv => TypeOK
  BY DEF IInv
<1> QED
  BY <1>1, Invariant, PTL

\* No crash or flush order loses a notice that was queued (#1426).
THEOREM Survive == Spec => []NoticesSurvive
<1>1. IInv => NoticesSurvive
  BY DEF IInv, KeptInv
<1> QED
  BY <1>1, Invariant, PTL

\* claimNoticeKey holds over quits, crashes and late checkpoints.
THEOREM Once == Spec => []AnnouncedOnce
<1>1. ASSUME IInv, NEW n \in Notice, n.from \in Workers PROVE sent[n] <= 1
  <2>1. n.key \in Key /\ n = Note(n.from, n.key)
    BY <1>1, Notes, WorkersAssumption
  <2>2. CASE \E r \in Turn : n.key = RunKey(r)
    BY <1>1, <2>1, <2>2 DEF IInv, ClaimInv, RunKeyInv
  <2>3. CASE \E b \in Boot : n.key = CutKey(b)
    BY <1>1, <2>1, <2>3 DEF IInv, ClaimInv, CutKeyInv
  <2>4. CASE \E p \in 1..MaxPeers : n.key = PeerKey(p)
    BY <1>1, <2>1, <2>4 DEF IInv, ClaimInv, PeerInv
  <2> QED
    BY <2>1, <2>2, <2>3, <2>4, KeyCases
<1>2. ASSUME IInv, NEW b \in Boot PROVE sent[ResumeNote(b)] <= 1
  BY <1>2 DEF IInv, ResumeInv
<1>3. IInv => AnnouncedOnce
  BY <1>1, <1>2, Notes DEF AnnouncedOnce
<1> QED
  BY <1>3, Invariant, PTL

-----------------------------------------------------------------------------
(* The end of a turn.                                                      *)

LEMMA NoEnd ==
    ASSUME restarts' # restarts
           \/ (/\ commits \subseteq commits'
               /\ \A w \in Workers : Works(w) => mem'.status[w] # "failed"),
           NEW e \in TurnsTaken
    PROVE  ~Ends(e)
BY DEF Ends, TurnsTaken

\* The notice of an end that is queued bears the run id of the last turn.
LEMMA EndIsQueued ==
    ASSUME IInv, NEW w \in Workers, NEW m, m.key = mem.key, QueueOrchNotice(m, w),
           mem.key[w] # RunKey(turns[w]), turns[w] \in Turn
    PROVE  sent'[Note(w, RunKey(turns[w]))] = sent[Note(w, RunKey(turns[w]))] + 1
<1>1. sent' = [sent EXCEPT ![Note(w, RunKey(turns[w]))] = @ + 1]
  BY DEF QueueOrchNotice, Post
<1>2. Note(w, RunKey(turns[w])) \in Notice /\ sent \in [Notice -> Nat]
  BY Keys, Notes DEF IInv, TypeOK
<1> QED
  BY <1>1, <1>2

LEMMA EndsAnnounced ==
    ASSUME IInv, [Next]_vars, NEW e \in TurnsTaken, e \notin overlapped, Ends(e)
    PROVE  sent'[Note(e.w, RunKey(e.r))] = sent[Note(e.w, RunKey(e.r))] + 1
<1>1. /\ e \in [w: Workers, r: Turn] /\ e.w \in Workers /\ e.r \in Turn /\ mem \in Stored
      /\ starting \in BOOLEAN /\ stranded \in BOOLEAN
  BY DEF TurnsTaken, IInv, TypeOK
<1>2. ASSUME NEW c \in commits, CommitSettles(c)
      PROVE  sent'[Note(e.w, RunKey(e.r))] = sent[Note(e.w, RunKey(e.r))] + 1
  <2>1. QueueOrchNotice(mem, c.w) /\ commits' = commits \ {c} /\ Idle
    BY <1>2 DEF CommitSettles
  <2>2. c \in [w: Workers, r: Turn]
    BY DEF IInv, TypeOK
  <2>3. mem'.status = mem.status
    <3>1. CASE mem' = mem
      BY <3>1
    <3>2. CASE Post([mem EXCEPT !.key[c.w] = RunKey(turns[c.w])], Note(c.w, RunKey(turns[c.w])))
      BY <1>1, <2>2, <3>2 DEF Post, Flush, Enqueued, Stored
    <3> QED
      BY <2>1, <3>1, <3>2 DEF QueueOrchNotice
  <2>4. e = c
    BY <1>1, <2>1, <2>3 DEF Ends, Works
  <2>5. e = LastTurn(e.w) /\ mem.key[e.w] # RunKey(turns[e.w])
    BY <1>1, <2>4 DEF IInv, ClaimInv, OverlapInv
  <2>6. e.r = turns[e.w]
    BY <2>5 DEF LastTurn
  <2> QED
    BY <1>1, <2>1, <2>4, <2>5, <2>6, EndIsQueued
<1>3. ASSUME NEW w \in Workers, WorkerFails(w)
      PROVE  sent'[Note(e.w, RunKey(e.r))] = sent[Note(e.w, RunKey(e.r))] + 1
  <2> DEFINE m == [mem EXCEPT !.status[w] = "failed"]
  <2>1. QueueOrchNotice(m, w) /\ commits' = commits /\ m.key = mem.key
    BY <1>1, <1>3 DEF WorkerFails, Stored
  <2>2. mem'.status = [mem.status EXCEPT ![w] = "failed"]
    <3>1. CASE mem' = m
      BY <1>1, <3>1 DEF Stored
    <3>2. CASE Post([m EXCEPT !.key[w] = RunKey(turns[w])], Note(w, RunKey(turns[w])))
      BY <1>1, <3>2 DEF Post, Flush, Enqueued, Stored
    <3> QED
      BY <2>1, <3>1, <3>2 DEF QueueOrchNotice
  <2>3. e.r = turns[e.w] /\ Works(e.w) /\ mem'.status[e.w] = "failed"
    BY <2>1 DEF Ends
  <2>4. e.w = w
    BY <1>1, <2>2, <2>3 DEF Works, Stored
  <2>5. e = LastTurn(w)
    BY <1>1, <2>3, <2>4 DEF LastTurn
  <2>6. mem.key[w] # RunKey(turns[w])
    BY <2>3, <2>4, <2>5 DEF IInv, ClaimInv, OverlapInv
  <2> HIDE DEF m
  <2> QED
    BY <1>1, <2>1, <2>3, <2>4, <2>6, EndIsQueued
\* No other step is an end.
<1>4. ASSUME commits \subseteq commits', mem'.status = mem.status
      PROVE  FALSE
  BY <1>1, <1>4, NoEnd DEF Works
<1>5. ASSUME restarts' # restarts \/ (/\ commits \subseteq commits'
                                   /\ \A w \in Workers : Works(w) => mem'.status[w] # "failed")
      PROVE  FALSE
  BY <1>5, NoEnd
<1>6. ASSUME NEW w \in Workers, WorkerStarts(w) \/ WorkerDone(w) \/ StopWorker(w)
      PROVE  FALSE
  <2>1. commits \subseteq commits'
    BY <1>6 DEF WorkerStarts, WorkerDone, StopWorker
  <2>2. \E s \in {"working", "done", "idle"} : mem'.status = [mem.status EXCEPT ![w] = s]
    BY <1>1, <1>6 DEF WorkerStarts, WorkerDone, StopWorker, Stored
  <2>3. \A v \in Workers : Works(v) => mem'.status[v] # "failed"
    BY <1>1, <2>2 DEF Works, Stored
  <2> QED
    BY <1>5, <2>1, <2>3
<1>7. ASSUME NEW w \in Workers, PeerSends(w) PROVE FALSE
  BY <1>1, <1>4, <1>7 DEF PeerSends, Post, Flush, Enqueued, Stored
<1>8. CASE DeliverNotices
  BY <1>1, <1>4, <1>8 DEF DeliverNotices, NoticeRefused, NoticeStarts, Stored
<1>9. CASE LeadActs
  <2>1. commits' = commits
    BY <1>9 DEF LeadActs, LaunchSettles, LaunchThrows, CancelledSettles, LeadDone,
                LeadCommitSettles, LeadFails
  <2>2. ASSUME NEW m \in Stored, m.status = mem.status, MaybeDrainQueued(m)
        PROVE  mem'.status = mem.status
    BY <2>2 DEF MaybeDrainQueued, UserTurn, Stored
  <2>3. CASE LaunchSettles \/ LaunchThrows \/ LeadDone \/ LeadFails
    <3>1. mem'.status = mem.status
      BY <1>1, <2>3 DEF LaunchSettles, LaunchThrows, LeadDone, LeadFails, Flush, Stored
    <3> QED
      BY <1>4, <2>1, <3>1
  <2>4. CASE CancelledSettles
    <3>1. mem'.status = mem.status
      BY <1>1, <2>2, <2>4 DEF CancelledSettles, Stored
    <3> QED
      BY <1>4, <2>1, <3>1
  <2>5. CASE LeadCommitSettles
    <3> DEFINE m == IF Deliverable(mem) THEN [mem EXCEPT !.queue = <<>>] ELSE mem
    <3>1. m \in Stored /\ m.status = mem.status
      BY <1>1, EmptySet DEF Stored
    <3>2. MaybeDrainQueued(m)
      BY <2>5 DEF LeadCommitSettles
    <3> HIDE DEF m
    <3>3. mem'.status = mem.status
      BY <2>2, <3>1, <3>2
    <3> QED
      BY <1>4, <2>1, <3>3
  <2> QED
    BY <1>9, <2>3, <2>4, <2>5 DEF LeadActs
<1>10. CASE UserActs
  <2>1. CASE UserSends \/ UserTypesAhead \/ ResumeCrew
    <3>1. commits' = commits /\ mem'.status = mem.status
      BY <1>1, <2>1 DEF UserSends, UserTurn, UserTypesAhead, ResumeCrew, Flush, Stored
    <3> QED
      BY <1>4, <3>1
  <2>2. CASE StopLead
    <3>1. /\ commits' = commits
          /\ mem'.status = [w \in Workers |-> IF Works(w) THEN "idle" ELSE mem.status[w]]
      BY <1>1, <2>2 DEF StopLead, Stored
    <3> QED
      BY <1>5, <3>1
  <2> QED
    BY <1>10, <2>1, <2>2 DEF UserActs
<1>11. CASE AutoResume
  <2>1. commits' = commits /\ mem'.status = mem.status
    BY <1>1, <1>11 DEF AutoResume, ResumeInterrupted, ResumeLead, Post, Flush, Enqueued, Stored
  <2> QED
    BY <1>4, <2>1
<1>12. CASE FlushTranscripts \/ FlushStore \/ UNCHANGED vars
  <2>1. commits' = commits /\ mem' = mem
    BY <1>12 DEF FlushTranscripts, FlushStore, vars
  <2> QED
    BY <1>4, <2>1
<1>13. CASE Quit
  <2>1. /\ commits' = commits
        /\ mem'.status = [w \in Workers |-> IF Works(w) THEN "idle" ELSE mem.status[w]]
    BY <1>1, <1>13 DEF Quit, Stored
  <2> QED
    BY <1>5, <2>1
<1>14. CASE Reboot
  <2>1. restarts' # restarts
    BY <1>14 DEF Reboot, IInv, TypeOK
  <2> QED
    BY <1>5, <2>1
<1> QED
  BY <1>2, <1>3, <1>6, <1>7, <1>8, <1>9, <1>10, <1>11, <1>12, <1>13, <1>14 DEF Next, WorkerActs

\* The terminal hooks of a turn that overlaps no other tell the lead of it in
\* the same step, whatever was queued, claimed, restored or stopped before.
THEOREM Announced == Spec => EndIsAnnounced
<1> DEFINE Tells == \A e \in TurnsTaken \ overlapped : Ends(e) =>
                       sent'[Note(e.w, RunKey(e.r))] = sent[Note(e.w, RunKey(e.r))] + 1
<1>1. IInv /\ [Next]_vars => [Tells]_vars
  BY EndsAnnounced
<1>2. Spec => [][Tells]_vars
  <2> HIDE DEF Tells
  <2> QED
    BY <1>1, Invariant, PTL DEF Spec
<1> QED
  BY <1>2 DEF EndIsAnnounced

\* flushOrchNotices is called wherever a lead comes to rest but after a launch
\* that threw.
THEOREM NoLostWakeUp == Spec => []NoIdleNotices
<1>1. IInv => NoIdleNotices
  BY DEF IInv, DeliveryInv
<1> QED
  BY <1>1, Invariant, PTL

\* noticeStarting keeps the lead free for the deferred start (#1501).
THEOREM NeverBounces == Spec => []NoticeNeverBounces
<1>1. IInv => NoticeNeverBounces
  BY DEF IInv, DeliveryInv, NoticeInv, NoticeNeverBounces
<1> QED
  BY <1>1, Invariant, PTL

\* What holdRestoredNotices held is in no batch before the user acts, or the
\* auto-resume that the user opted into.
THEOREM NeedConsent == Spec => []RestoredNeedConsent
<1>1. IInv => RestoredNeedConsent
  BY FlushedEmpty DEF IInv, DeliveryInv, HeldInv, RestoredNeedConsent
<1> QED
  BY <1>1, Invariant, PTL

\* CREW_AUTO_TURN_CAP bounds the machine-delivered turns in a row, for every
\* cap and any number of restarts.
THEOREM Capped == Spec => []AutoTurnsCapped
<1>1. IInv => AutoTurnsCapped
  BY CapAssumption DEF IInv, TypeOK, Stored, CountInv, AutoTurnsCapped
<1> QED
  BY <1>1, Invariant, PTL

\* After stopCrew nothing waits that could start the lead again, but for the
\* commits of that moment (#32).
THEOREM StopIsSacred == Spec => []OnlyLateCommitsWake
<1>1. IInv => OnlyLateCommitsWake
  BY DEF IInv, StopInv
<1> QED
  BY <1>1, Invariant, PTL
=============================================================================
