------------------------- MODULE RunMessages_proofs -------------------------
(***************************************************************************)
(* Proofs about what the user wrote: where each message is on its way from *)
(* the composer to the agent, and in which order the follow-ups wait.      *)
(*                                                                         *)
(* As for the cap, the login PATH is known when the process boots.  While  *)
(* starts wait for it (runner.js whenPathReady) both properties are false. *)
(***************************************************************************)
EXTENDS RunLifecycle_proofs

-----------------------------------------------------------------------------
(* Lists of messages.                                                      *)

\* A list is in the order the user wrote it, without repetitions; all of one
\* list was written before all of another.
InOrder(s) == \A i, j \in DOMAIN s : i < j => s[i] < s[j]
Distinct(s) == \A i, j \in DOMAIN s : s[i] = s[j] => i = j
Before(s, r) == \A i \in DOMAIN s, j \in DOMAIN r : s[i] < r[j]

\* A list of messages is indexed from one.
LEMMA ListFacts ==
    ASSUME NEW s \in Seq(Msg)
    PROVE  /\ Len(s) \in Nat /\ DOMAIN s = 1..Len(s)
           /\ \A i \in DOMAIN s : s[i] \in Msg /\ s[i] \in Int
           /\ s = <<>> <=> Len(s) = 0
           /\ \A m : m \in Elems(s) <=> \E i \in DOMAIN s : s[i] = m
<1>1. Len(s) \in Nat /\ DOMAIN s = 1..Len(s)
  BY LenProperties
<1>2. \A i \in DOMAIN s : s[i] \in Msg
  BY <1>1, ElementOfSeq
<1>3. Msg \subseteq Int
  BY BoundsAssumption DEF Msg
<1>4. s = <<>> <=> Len(s) = 0
  BY EmptySeq
<1>5. \A m : m \in Elems(s) <=> \E i \in DOMAIN s : s[i] = m
  BY DEF Elems
<1> QED
  BY <1>1, <1>2, <1>3, <1>4, <1>5

\* An empty list and a list of one message.
LEMMA ShortLists ==
    /\ <<>> \in Seq(Msg) /\ Elems(<<>>) = {} /\ InOrder(<<>>) /\ Distinct(<<>>)
    /\ \A m \in Msg : /\ <<m>> \in Seq(Msg) /\ Elems(<<m>>) = {m}
                      /\ InOrder(<<m>>) /\ Distinct(<<m>>)
<1>1. \A m \in Msg : DOMAIN <<m>> = {1} /\ <<m>>[1] = m /\ <<m>> \in Seq(Msg)
  OBVIOUS
<1>2. DOMAIN <<>> = {}
  OBVIOUS
<1>3. <<>> \in Seq(Msg)
  OBVIOUS
<1> QED
  BY <1>1, <1>2, <1>3 DEF Elems, InOrder, Distinct

\* A list in order repeats nothing.
LEMMA OrderIsDistinct ==
    ASSUME NEW s \in Seq(Msg), InOrder(s)
    PROVE  Distinct(s)
<1> SUFFICES ASSUME NEW i \in DOMAIN s, NEW j \in DOMAIN s, s[i] = s[j], i # j
             PROVE  FALSE
  BY DEF Distinct
<1>1. i \in Int /\ j \in Int /\ s[i] \in Int /\ s[j] \in Int
  BY ListFacts
<1>2. i < j \/ j < i
  BY <1>1
<1> QED
  BY <1>1, <1>2 DEF InOrder

\* Each place of a concatenation is a place of one of its parts.
LEMMA ConcatPlaces ==
    ASSUME NEW s \in Seq(Msg), NEW r \in Seq(Msg)
    PROVE  /\ s \o r \in Seq(Msg)
           /\ \A i \in DOMAIN (s \o r) :
                \/ i \in DOMAIN s /\ (s \o r)[i] = s[i]
                \/ i > Len(s) /\ i - Len(s) \in DOMAIN r /\ (s \o r)[i] = r[i - Len(s)]
           /\ \A i \in DOMAIN s : i \in DOMAIN (s \o r) /\ (s \o r)[i] = s[i]
           /\ \A i \in DOMAIN r :
                i + Len(s) \in DOMAIN (s \o r) /\ (s \o r)[i + Len(s)] = r[i]
<1> DEFINE c == s \o r
<1>1. /\ c \in Seq(Msg) /\ DOMAIN c = 1..(Len(s) + Len(r))
      /\ Len(s) \in Nat /\ Len(r) \in Nat /\ DOMAIN s = 1..Len(s) /\ DOMAIN r = 1..Len(r)
      /\ \A i \in 1..(Len(s) + Len(r)) : c[i] = IF i <= Len(s) THEN s[i] ELSE r[i - Len(s)]
  BY ConcatProperties, LenProperties
<1> HIDE DEF c
<1>2. ASSUME NEW i \in DOMAIN c
      PROVE  \/ i \in DOMAIN s /\ c[i] = s[i]
             \/ i > Len(s) /\ i - Len(s) \in DOMAIN r /\ c[i] = r[i - Len(s)]
  BY <1>1
<1>3. ASSUME NEW i \in DOMAIN s
      PROVE  i \in DOMAIN c /\ c[i] = s[i]
  BY <1>1
<1>4. ASSUME NEW i \in DOMAIN r
      PROVE  i + Len(s) \in DOMAIN c /\ c[i + Len(s)] = r[i]
  <2>1. i + Len(s) \in 1..(Len(s) + Len(r)) /\ ~(i + Len(s) <= Len(s)) /\ (i + Len(s)) - Len(s) = i
    BY <1>1
  <2> QED
    BY <1>1, <2>1
<1> QED
  BY <1>1, <1>2, <1>3, <1>4 DEF c

\* What a concatenation holds, and when it is in order or repeats nothing.
LEMMA ConcatFacts ==
    ASSUME NEW s \in Seq(Msg), NEW r \in Seq(Msg)
    PROVE  /\ s \o r \in Seq(Msg)
           /\ Elems(s \o r) = Elems(s) \cup Elems(r)
           /\ InOrder(s) /\ InOrder(r) /\ Before(s, r) => InOrder(s \o r)
           /\ Distinct(s) /\ Distinct(r) /\ Elems(s) \cap Elems(r) = {} => Distinct(s \o r)
<1> DEFINE c == s \o r
<1>1. /\ c \in Seq(Msg)
      /\ \A i \in DOMAIN c : \/ i \in DOMAIN s /\ c[i] = s[i]
                             \/ i > Len(s) /\ i - Len(s) \in DOMAIN r /\ c[i] = r[i - Len(s)]
      /\ \A i \in DOMAIN s : i \in DOMAIN c /\ c[i] = s[i]
      /\ \A i \in DOMAIN r : i + Len(s) \in DOMAIN c /\ c[i + Len(s)] = r[i]
  BY ConcatPlaces
<1> HIDE DEF c
<1>2. /\ Len(s) \in Nat /\ DOMAIN s = 1..Len(s) /\ DOMAIN c \subseteq Int /\ DOMAIN r \subseteq Int
  BY <1>1, ListFacts
<1>3. Elems(c) = Elems(s) \cup Elems(r)
  BY <1>1 DEF Elems
<1>4. ASSUME InOrder(s), InOrder(r), Before(s, r), NEW i \in DOMAIN c, NEW j \in DOMAIN c, i < j
      PROVE  c[i] < c[j]
  <2>1. CASE i \in DOMAIN s /\ c[i] = s[i] /\ j \in DOMAIN s /\ c[j] = s[j]
    BY <1>4, <2>1 DEF InOrder
  <2>2. CASE i \in DOMAIN s /\ c[i] = s[i] /\ j - Len(s) \in DOMAIN r /\ c[j] = r[j - Len(s)]
    BY <1>4, <2>2 DEF Before
  <2>3. CASE i > Len(s) /\ i - Len(s) \in DOMAIN r /\ c[i] = r[i - Len(s)]
    <3>1. j - Len(s) \in DOMAIN r /\ c[j] = r[j - Len(s)] /\ i - Len(s) < j - Len(s)
      BY <1>1, <1>2, <1>4, <2>3
    <3> QED
      BY <1>4, <2>3, <3>1 DEF InOrder
  <2> QED
    BY <1>1, <2>1, <2>2, <2>3
<1>5. ASSUME Distinct(s), Distinct(r), Elems(s) \cap Elems(r) = {},
             NEW i \in DOMAIN c, NEW j \in DOMAIN c, c[i] = c[j]
      PROVE  i = j
  <2>1. CASE i \in DOMAIN s /\ c[i] = s[i] /\ j \in DOMAIN s /\ c[j] = s[j]
    BY <1>5, <2>1 DEF Distinct
  <2>2. CASE i - Len(s) \in DOMAIN r /\ c[i] = r[i - Len(s)] /\ j - Len(s) \in DOMAIN r
             /\ c[j] = r[j - Len(s)]
    <3>1. i - Len(s) = j - Len(s)
      BY <1>5, <2>2 DEF Distinct
    <3> QED
      BY <1>2, <3>1
  <2>3. ~(i \in DOMAIN s /\ c[i] = s[i] /\ j - Len(s) \in DOMAIN r /\ c[j] = r[j - Len(s)])
    BY <1>5 DEF Elems
  <2>4. ~(j \in DOMAIN s /\ c[j] = s[j] /\ i - Len(s) \in DOMAIN r /\ c[i] = r[i - Len(s)])
    BY <1>5 DEF Elems
  <2> QED
    BY <1>1, <2>1, <2>2, <2>3, <2>4
<1>6. InOrder(s) /\ InOrder(r) /\ Before(s, r) => InOrder(c)
  BY <1>4 DEF InOrder
<1>7. Distinct(s) /\ Distinct(r) /\ Elems(s) \cap Elems(r) = {} => Distinct(c)
  BY <1>5 DEF Distinct
<1> QED
  BY <1>1, <1>3, <1>6, <1>7 DEF c

\* Taking the first n of a list that is in order.
LEMMA SplitFacts ==
    ASSUME NEW s \in Seq(Msg), InOrder(s), NEW n \in 1..Len(s)
    PROVE  LET a == SubSeq(s, 1, n)
               b == SubSeq(s, n + 1, Len(s))
           IN  /\ a \in Seq(Msg) /\ b \in Seq(Msg)
               /\ Elems(a) \cup Elems(b) = Elems(s) /\ Elems(a) \cap Elems(b) = {}
               /\ InOrder(a) /\ InOrder(b) /\ Before(a, b)
<1> DEFINE a == SubSeq(s, 1, n)
           b == SubSeq(s, n + 1, Len(s))
           k == Len(s) - n
<1>1. /\ Len(s) \in Nat /\ DOMAIN s = 1..Len(s) /\ n \in Nat /\ n <= Len(s)
      /\ \A i \in DOMAIN s : s[i] \in Msg /\ s[i] \in Int
  BY ListFacts
<1>2. a \in Seq(Msg) /\ Len(a) = n /\ \A i \in 1..n : a[i] = s[i]
  <2>1. /\ a \in Seq(Msg)
        /\ Len(a) = IF 1 <= n THEN n - 1 + 1 ELSE 0
        /\ \A i \in 1..(n - 1 + 1) : a[i] = s[1 + i - 1]
    BY <1>1, SubSeqProperties
  <2> HIDE DEF a
  <2> QED
    BY <1>1, <2>1
<1>3. b \in Seq(Msg) /\ Len(b) = k /\ \A i \in 1..k : b[i] = s[i + n]
  <2>1. /\ b \in Seq(Msg)
        /\ Len(b) = IF n + 1 <= Len(s) THEN Len(s) - (n + 1) + 1 ELSE 0
        /\ \A i \in 1..(Len(s) - (n + 1) + 1) : b[i] = s[(n + 1) + i - 1]
    <3>1. n + 1 \in Int /\ Len(s) \in Int /\ \A i \in (n + 1)..Len(s) : s[i] \in Msg
      BY <1>1
    <3> QED
      BY <3>1, SubSeqProperties
  <2> HIDE DEF b
  <2>2. /\ Len(s) - (n + 1) + 1 = k
        /\ (IF n + 1 <= Len(s) THEN Len(s) - (n + 1) + 1 ELSE 0) = k
    <3> DEFINE len == Len(s)
    <3>1. len \in Nat /\ n \in Nat /\ n <= len
      BY <1>1
    <3> HIDE DEF len
    <3>2. len - (n + 1) + 1 = len - n
      BY <3>1
    <3>3. (IF n + 1 <= len THEN len - (n + 1) + 1 ELSE 0) = len - n
      BY <3>1
    <3> QED
      BY <3>2, <3>3 DEF len
  <2>3. \A i \in 1..k : (n + 1) + i - 1 = i + n
    BY <1>1
  <2> HIDE DEF k
  <2> QED
    BY <2>1, <2>2, <2>3
<1>4. DOMAIN a = 1..n /\ DOMAIN b = 1..k
  BY <1>2, <1>3, ListFacts
<1> HIDE DEF a, b
<1>5. \A i \in 1..Len(s) : i \in 1..n \/ (i - n \in 1..k /\ (i - n) + n = i)
  BY <1>1
<1>6. \A i \in 1..n : i \in 1..Len(s)
  BY <1>1
<1>7. \A i \in 1..k : i + n \in 1..Len(s) /\ \A j \in 1..n : j < i + n
  BY <1>1
<1>8. k \in Nat /\ \A i, j \in 1..k : i < j => i + n < j + n
  BY <1>1
<1> HIDE DEF k
<1>9. Elems(a) \cup Elems(b) = Elems(s)
  <2>1. \A i \in DOMAIN s : s[i] \in Elems(a) \cup Elems(b)
    <3> SUFFICES ASSUME NEW i \in 1..Len(s)
                 PROVE  s[i] \in Elems(a) \cup Elems(b)
      BY <1>1
    <3>1. CASE i \in 1..n
      BY <1>2, <1>4, <3>1 DEF Elems
    <3>2. CASE i - n \in 1..k /\ (i - n) + n = i
      <4>1. b[i - n] = s[i]
        BY <1>3, <3>2
      <4> QED
        BY <1>4, <3>2, <4>1 DEF Elems
    <3> QED
      BY <1>5, <3>1, <3>2
  <2>2. \A i \in 1..n : a[i] \in Elems(s)
    BY <1>1, <1>2, <1>6 DEF Elems
  <2>3. \A i \in 1..k : b[i] \in Elems(s)
    BY <1>1, <1>3, <1>7 DEF Elems
  <2> QED
    BY <1>4, <2>1, <2>2, <2>3 DEF Elems
<1>10. Before(a, b)
  <2> SUFFICES ASSUME NEW i \in 1..n, NEW j \in 1..k
               PROVE  a[i] < b[j]
    BY <1>4 DEF Before
  <2>1. i \in DOMAIN s /\ j + n \in DOMAIN s /\ i < j + n
    BY <1>1, <1>6, <1>7
  <2> QED
    BY <1>2, <1>3, <2>1 DEF InOrder
<1>11. InOrder(a)
  BY <1>1, <1>2, <1>4, <1>6 DEF InOrder
<1>12. InOrder(b)
  <2> SUFFICES ASSUME NEW i \in 1..k, NEW j \in 1..k, i < j
               PROVE  b[i] < b[j]
    BY <1>4 DEF InOrder
  <2>1. i + n \in DOMAIN s /\ j + n \in DOMAIN s /\ i + n < j + n
    BY <1>1, <1>7, <1>8
  <2> QED
    BY <1>3, <2>1 DEF InOrder
<1>13. Elems(a) \cap Elems(b) = {}
  <2> SUFFICES ASSUME NEW i \in DOMAIN a, NEW j \in DOMAIN b, a[i] = b[j]
               PROVE  FALSE
    BY DEF Elems
  <2>1. a[i] < b[j] /\ a[i] \in Int
    BY <1>2, <1>10, ListFacts DEF Before
  <2> QED
    BY <2>1
<1> QED
  BY <1>2, <1>3, <1>9, <1>10, <1>11, <1>12, <1>13 DEF a, b

-----------------------------------------------------------------------------
(* Where a message is.                                                     *)

\* The next microtask is a start.
Starts == micro # <<>> /\ Head(micro).op = "start"

\* A drained turn whose launch owns the thread: LaunchThrows puts it back.
Holds(l, t) == l.from = "drain" /\ l.t = t /\ Owns(t, l.rid, "preparing")

\* The messages of thread t that wait in its composer, wait in its run queue
\* entry, start now, or launch and may yet come back.
Kind == {"typed", "queued", "starting", "launching"}
At(k, t) ==
    {m \in Msg :
        \/ k = "typed" /\ m \in Elems(typeAhead[t])
        \/ k = "queued" /\ \E i \in DOMAIN runQueue :
             runQueue[i].t = t /\ m \in Elems(runQueue[i].msgs)
        \/ k = "starting" /\ Starts /\ Head(micro).t = t /\ m \in Elems(Head(micro).msgs)
        \/ k = "launching" /\ \E l \in launches : Holds(l, t) /\ m \in Elems(l.msgs)}

\* A queue of tasks that carries no message.
NoHand(s) == \A i \in DOMAIN s : s[i].op = "start" => s[i].from = "fix" /\ s[i].msgs = <<>>

\* Only the next microtask carries messages, and a fix prompt has none.
HandInv ==
    micro # <<>> =>
        /\ NoHand(Tail(micro))
        /\ Head(micro).op = "start" /\ Head(micro).from = "fix" => Head(micro).msgs = <<>>

\* No message is in two places.
PlaceInv ==
    /\ \A k, l \in Kind, t, u \in Threads : k # l \/ t # u => At(k, t) \cap At(l, u) = {}
    /\ \A k \in Kind, t \in Threads : At(k, t) \subseteq 1..nmsg

\* Or twice in the same one.
DistinctInv ==
    /\ \A i \in DOMAIN runQueue : Distinct(runQueue[i].msgs)
    /\ Starts => Distinct(Head(micro).msgs)

\* What was drained was written before what still waits, and what a refusal
\* would give back finds no other drained turn of its thread.
OrderInv ==
    /\ \A t \in Threads : InOrder(typeAhead[t])
    /\ \A t \in Threads : \A l \in launches :
         Holds(l, t) => InOrder(l.msgs) /\ Before(l.msgs, typeAhead[t])
    /\ Starts /\ Head(micro).from = "drain" =>
         /\ Head(micro).t \notin Running
         /\ InOrder(Head(micro).msgs)
         /\ Before(Head(micro).msgs, typeAhead[Head(micro).t])

\* What is in a transcript, reached an agent, was refused, launches, or was
\* folded into a turn that reached none.
Taken == recorded \cup bounced \cup dropped \cup UNION {Elems(l.msgs) : l \in launches}

\* The rest waits in a composer, or starts now.
Accounted(m) ==
    \/ m \in Taken
    \/ \E t \in Threads : m \in At("typed", t) \cup At("starting", t)

SeenInv ==
    /\ \A m \in 1..nmsg : Accounted(m)
    /\ \A t \in Threads : At("queued", t) \subseteq recorded
    /\ Starts /\ Head(micro).from = "slot" => Elems(Head(micro).msgs) \subseteq recorded

MessageInv == HandInv /\ PlaceInv /\ DistinctInv /\ OrderInv /\ SeenInv

\* Most steps leave those alone.
LEMMA TakenSame ==
    ASSUME UNCHANGED <<launches, recorded, dropped, bounced>>
    PROVE  Taken' = Taken
BY DEF Taken, Elems

\* Where they are, before and after a step.
LEMMA TakenParts ==
    /\ recorded \subseteq Taken /\ bounced \subseteq Taken
    /\ recorded' \subseteq Taken' /\ bounced' \subseteq Taken'
BY DEF Taken

\* A step that records and refuses more, and remembers what its launches drop.
LEMMA TakenGrows ==
    ASSUME recorded \subseteq recorded', bounced \subseteq bounced', dropped \subseteq dropped',
           \A l \in launches : l \in launches' \/ Elems(l.msgs) \subseteq recorded' \cup dropped'
    PROVE  Taken \subseteq Taken'
<1> SUFFICES ASSUME NEW m \in Taken
             PROVE  m \in Taken'
  OBVIOUS
<1>1. CASE m \in recorded \cup bounced \cup dropped
  BY <1>1 DEF Taken
<1>2. CASE \E l \in launches : m \in Elems(l.msgs)
  <2>1. PICK l \in launches : m \in Elems(l.msgs)
    BY <1>2
  <2>2. Taken' = recorded' \cup bounced' \cup dropped' \cup UNION {Elems(k.msgs) : k \in launches'}
    BY DEF Taken, Elems
  <2> QED
    BY <2>1, <2>2
<1> QED
  BY <1>1, <1>2 DEF Taken

\* The places, one by one.
LEMMA AtKinds ==
    ASSUME NEW t, NEW m \in Msg
    PROVE  /\ m \in At("typed", t) <=> m \in Elems(typeAhead[t])
           /\ m \in At("queued", t) <=>
                \E i \in DOMAIN runQueue : runQueue[i].t = t /\ m \in Elems(runQueue[i].msgs)
           /\ m \in At("starting", t) <=>
                Starts /\ Head(micro).t = t /\ m \in Elems(Head(micro).msgs)
           /\ m \in At("launching", t) <=>
                \E l \in launches : Holds(l, t) /\ m \in Elems(l.msgs)
BY DEF At

LEMMA AtKindsNext ==
    ASSUME NEW t, NEW m \in Msg
    PROVE  /\ m \in At("typed", t)' <=> m \in Elems(typeAhead'[t])
           /\ m \in At("queued", t)' <=>
                \E i \in DOMAIN runQueue' : runQueue'[i].t = t /\ m \in Elems(runQueue'[i].msgs)
           /\ m \in At("starting", t)' <=>
                Starts' /\ Head(micro').t = t /\ m \in Elems(Head(micro').msgs)
           /\ m \in At("launching", t)' <=>
                \E l \in launches' : Holds(l, t)' /\ m \in Elems(l.msgs)
BY DEF At, Elems

\* Every place holds messages only.
LEMMA AtMessages ==
    ASSUME NEW k, NEW t
    PROVE  At(k, t) \subseteq Msg /\ At(k, t)' \subseteq Msg
BY DEF At

\* The queues the places are read from are well typed.
LEMMA PlaceTypes ==
    ASSUME TypeOK
    PROVE  /\ \A t \in Threads : typeAhead[t] \in Seq(Msg)
           /\ \A i \in DOMAIN runQueue : runQueue[i].t \in Threads /\ runQueue[i].msgs \in Seq(Msg)
           /\ \A l \in launches : l \in Launch /\ l.t \in Threads /\ l.msgs \in Seq(Msg)
           /\ \A i \in DOMAIN micro : micro[i] \in Task
           /\ \A i \in DOMAIN micro : micro[i].op = "start" =>
                micro[i].t \in Threads /\ micro[i].msgs \in Seq(Msg) /\ micro[i].from \in Source
           /\ nmsg \in Nat /\ nmsg <= MaxMsgs
<1>1. ASSUME NEW i \in DOMAIN runQueue
      PROVE  runQueue[i].t \in Threads /\ runQueue[i].msgs \in Seq(Msg)
  <2> DEFINE QEntry == [t: Threads, msgs: Seq(Msg)]
  <2>1. runQueue \in Seq(QEntry)
    BY DEF TypeOK
  <2>2. runQueue[i] \in QEntry
    BY <2>1, LenProperties, ElementOfSeq
  <2> QED
    BY <2>2
<1>2. \A i \in DOMAIN micro : micro[i] \in Task
  BY LenProperties, ElementOfSeq DEF TypeOK
<1>3. ASSUME NEW i \in DOMAIN micro, micro[i].op = "start"
      PROVE  micro[i] \in Start
  BY <1>2, <1>3 DEF Task
<1>4. \A l \in launches : l \in Launch /\ l.t \in Threads /\ l.msgs \in Seq(Msg)
  BY DEF TypeOK, Launch
<1>5. nmsg \in Nat /\ nmsg <= MaxMsgs
  BY BoundsAssumption DEF TypeOK
<1>6. \A i \in DOMAIN micro : micro[i].op = "start" =>
         micro[i].t \in Threads /\ micro[i].msgs \in Seq(Msg) /\ micro[i].from \in Source
  BY <1>3 DEF Start
<1>7. \A t \in Threads : typeAhead[t] \in Seq(Msg)
  BY DEF TypeOK
<1> QED
  BY <1>1, <1>2, <1>4, <1>5, <1>6, <1>7

\* A step that leaves a queue that carries no message starts none.
LEMMA NoHandFacts ==
    ASSUME TypeOK', NoHand(micro')
    PROVE  /\ HandInv'
           /\ Starts' => Head(micro').from = "fix" /\ Head(micro').msgs = <<>>
           /\ \A t : At("starting", t)' = {}
<1>1. CASE micro' = <<>>
  BY <1>1 DEF HandInv, Starts, At
<1>2. CASE micro' # <<>>
  <2>1. micro' \in Seq(Task)
    BY DEF TypeOK
  <2>2. /\ Len(micro') \in Nat /\ DOMAIN micro' = 1..Len(micro') /\ Len(micro') > 0
        /\ Head(micro') = micro'[1]
        /\ DOMAIN Tail(micro') = 1..(Len(micro') - 1)
        /\ \A i \in 1..(Len(micro') - 1) : Tail(micro')[i] = micro'[i + 1]
    BY <1>2, <2>1, HeadTailProperties, LenProperties, EmptySeq
  <2>3. NoHand(Tail(micro'))
    BY <2>2 DEF NoHand
  <2>4. Starts' => Head(micro').from = "fix" /\ Head(micro').msgs = <<>>
    BY <2>2 DEF NoHand, Starts
  <2>5. \A t : At("starting", t)' = {}
    BY <2>4 DEF At, Elems
  <2> QED
    BY <2>3, <2>4, <2>5 DEF HandInv, Starts
<1> QED
  BY <1>1, <1>2

\* Short queues.
LEMMA ShortHands ==
    /\ NoHand(<<>>) /\ NoHand(<<Admit>>)
    /\ \A t : NoHand(<<Admit, StartOf(t, "fix", <<>>)>>)
BY DEF NoHand, Admit, StartOf

\* Moving messages to one place keeps the places apart, when every other
\* place loses them.
LEMMA MoveStep ==
    ASSUME PlaceInv, NEW k0 \in Kind, NEW t0 \in Threads, NEW M,
           M \subseteq 1..nmsg', nmsg \in Nat, nmsg' \in Nat, nmsg <= nmsg',
           \A k \in Kind, t \in Threads :
             k # k0 \/ t # t0 => At(k, t)' \subseteq At(k, t) \ M,
           At(k0, t0)' \subseteq At(k0, t0) \cup M
    PROVE  PlaceInv'
<1>1. \A k \in Kind, t \in Threads : At(k, t) \subseteq 1..nmsg'
  BY DEF PlaceInv
<1>2. ASSUME NEW k \in Kind, NEW l \in Kind, NEW t \in Threads, NEW u \in Threads,
             k # l \/ t # u
      PROVE  At(k, t)' \cap At(l, u)' = {}
  <2>1. At(k, t) \cap At(l, u) = {}
    BY <1>2 DEF PlaceInv
  <2>2. CASE k = k0 /\ t = t0
    BY <1>2, <2>1, <2>2
  <2>3. CASE l = k0 /\ u = t0
    BY <1>2, <2>1, <2>3
  <2>4. CASE (k # k0 \/ t # t0) /\ (l # k0 \/ u # t0)
    BY <2>1, <2>4
  <2> QED
    BY <2>2, <2>3, <2>4
<1>3. ASSUME NEW k \in Kind, NEW t \in Threads
      PROVE  At(k, t)' \subseteq 1..nmsg'
  BY <1>1
<1> QED
  BY <1>2, <1>3 DEF PlaceInv

-----------------------------------------------------------------------------
(* Steps that move no message to where it was not.                         *)

\* The other entries are what is left of the run queue when it loses one.
LEMMA WithoutHeld ==
    ASSUME TypeOK, NEW i \in DOMAIN runQueue
    PROVE  \A j \in DOMAIN WithoutEntry(i) :
             \E k \in DOMAIN runQueue : k # i /\ WithoutEntry(i)[j] = runQueue[k]
<1>1. Len(runQueue) \in Nat /\ DOMAIN runQueue = 1..Len(runQueue)
  BY LenProperties DEF TypeOK
<1>2. DOMAIN WithoutEntry(i) = 1..(Len(runQueue) - 1)
  BY WithoutType, LenProperties
<1>3. \A j \in 1..(Len(runQueue) - 1) :
        WithoutEntry(i)[j] = runQueue[IF j < i THEN j ELSE j + 1]
  BY WithoutType
<1>4. \A j \in 1..(Len(runQueue) - 1) :
        (IF j < i THEN j ELSE j + 1) \in DOMAIN runQueue /\ (IF j < i THEN j ELSE j + 1) # i
  BY <1>1
<1> QED
  BY <1>2, <1>3, <1>4

\* What the run queue holds after it lost an entry, it held before.
LEMMA QueueHeld ==
    ASSUME TypeOK, QueueKeepsOrLoses
    PROVE  \A j \in DOMAIN runQueue' : \E i \in DOMAIN runQueue : runQueue'[j] = runQueue[i]
BY WithoutHeld DEF QueueKeepsOrLoses

\* The composers stay as they are, the run queue and the launches only lose,
\* no launch comes to own a thread, and what started is recorded or refused.
QuietMessages ==
    /\ typeAhead' = typeAhead
    /\ QueueKeepsOrLoses
    /\ launches' \subseteq launches
    /\ \A t \in Threads, l \in launches' : Holds(l, t)' => Holds(l, t)
    /\ NoHand(micro')
    /\ nmsg' = nmsg /\ recorded \subseteq recorded' /\ Taken \subseteq Taken'
    /\ Starts => Elems(Head(micro).msgs) \subseteq Taken'

LEMMA QuietKeepsMessages ==
    ASSUME TypeOK, TypeOK', MessageInv, QuietMessages
    PROVE  MessageInv'
<1>1. /\ HandInv'
      /\ Starts' => Head(micro').from = "fix" /\ Head(micro').msgs = <<>>
      /\ \A t : At("starting", t)' = {}
  BY NoHandFacts DEF QuietMessages
<1>2. \A j \in DOMAIN runQueue' : \E i \in DOMAIN runQueue : runQueue'[j] = runQueue[i]
  BY QueueHeld DEF QuietMessages
<1>3. ASSUME NEW k \in Kind, NEW t \in Threads, NEW m \in At(k, t)'
      PROVE  m \in At(k, t)
  <2>1. m \in Msg
    BY AtMessages
  <2>2. CASE k = "typed"
    BY <1>3, <2>1, <2>2, AtKinds, AtKindsNext DEF QuietMessages
  <2>3. CASE k = "queued"
    <3>1. PICK j \in DOMAIN runQueue' : runQueue'[j].t = t /\ m \in Elems(runQueue'[j].msgs)
      BY <1>3, <2>1, <2>3, AtKindsNext
    <3>2. PICK i \in DOMAIN runQueue : runQueue'[j] = runQueue[i]
      BY <1>2
    <3> QED
      BY <2>1, <2>3, <3>1, <3>2, AtKinds
  <2>4. CASE k = "starting"
    BY <1>1, <1>3, <2>4
  <2>5. CASE k = "launching"
    <3>1. PICK l \in launches' : Holds(l, t)' /\ m \in Elems(l.msgs)
      BY <1>3, <2>1, <2>5, AtKindsNext
    <3>2. l \in launches /\ Holds(l, t)
      BY <3>1 DEF QuietMessages
    <3> QED
      BY <2>1, <2>5, <3>1, <3>2, AtKinds
  <2> QED
    BY <2>2, <2>3, <2>4, <2>5 DEF Kind
<1>4. PlaceInv'
  <2>1. \A k \in Kind, t \in Threads : At(k, t)' \subseteq At(k, t)
    BY <1>3
  <2>2. nmsg' = nmsg /\ PlaceInv
    BY DEF QuietMessages, MessageInv
  <2>3. \A k \in Kind, t \in Threads : At(k, t)' \subseteq 1..nmsg'
    BY <2>1, <2>2 DEF PlaceInv
  <2>4. ASSUME NEW k \in Kind, NEW l \in Kind, NEW t \in Threads, NEW u \in Threads,
               k # l \/ t # u
        PROVE  At(k, t)' \cap At(l, u)' = {}
    <3>1. At(k, t) \cap At(l, u) = {}
      BY <2>2, <2>4 DEF PlaceInv
    <3> QED
      BY <2>1, <3>1
  <2> QED
    BY <2>3, <2>4 DEF PlaceInv
<1>5. DistinctInv'
  <2>1. \A j \in DOMAIN runQueue' : Distinct(runQueue'[j].msgs)
    BY <1>2 DEF MessageInv, DistinctInv
  <2>2. Starts' => Distinct(Head(micro').msgs)
    BY <1>1, ShortLists
  <2> QED
    BY <2>1, <2>2 DEF DistinctInv, Distinct
<1>6. OrderInv'
  <2>1. \A t \in Threads : InOrder(typeAhead[t])'
    BY DEF QuietMessages, MessageInv, OrderInv, InOrder
  <2>2. \A t \in Threads : \A l \in launches' :
          Holds(l, t)' => InOrder(l.msgs) /\ Before(l.msgs, typeAhead'[t])
    BY DEF QuietMessages, MessageInv, OrderInv
  <2>3. Starts' => Head(micro').from # "drain"
    BY <1>1
  <2> QED
    BY <2>1, <2>2, <2>3 DEF OrderInv, InOrder, Before
<1>7. SeenInv'
  <2>1. ASSUME NEW m \in 1..nmsg
        PROVE  Accounted(m)'
    <3>1. CASE m \in Taken
      BY <3>1 DEF QuietMessages, Accounted
    <3>2. CASE \E t \in Threads : m \in At("typed", t)
      <4>1. PICK t \in Threads : m \in At("typed", t)
        BY <3>2
      <4>2. m \in At("typed", t)'
        BY <4>1, AtMessages, AtKinds, AtKindsNext DEF QuietMessages
      <4> QED
        BY <4>2 DEF Accounted
    <3>3. CASE \E t \in Threads : m \in At("starting", t)
      <4>1. Starts /\ m \in Elems(Head(micro).msgs)
        BY <3>3 DEF At
      <4> QED
        BY <4>1 DEF QuietMessages, Accounted
    <3> QED
      BY <2>1, <3>1, <3>2, <3>3 DEF MessageInv, SeenInv, Accounted
  <2>2. \A t \in Threads : At("queued", t)' \subseteq recorded'
    BY <1>3 DEF QuietMessages, MessageInv, SeenInv, Kind
  <2>3. Starts' => Head(micro').from # "slot"
    BY <1>1
  <2> QED
    BY <2>1, <2>2, <2>3 DEF SeenInv, QuietMessages
<1> QED
  BY <1>1, <1>4, <1>5, <1>6, <1>7 DEF MessageInv

\* The entry of a launch is one.
LEMMA LaunchedEntry ==
    ASSUME TypeOK, NEW l \in launches
    PROVE  [rid |-> l.rid, kind |-> "preparing"] # NoRun
<1>1. l.rid \in RunId
  BY DEF TypeOK, Launch
<1> QED
  BY <1>1, NoRunAssumption DEF Entry

\* An entry that goes, or leaves the launch, gives no launch a thread.
LEMMA NoNewOwner ==
    ASSUME TypeOK, NEW x \in Threads,
           \/ active' = active
           \/ active' = [active EXCEPT ![x] = NoRun]
           \/ active' = [u \in Threads |-> NoRun]
           \/ /\ x \in Running
              /\ \E kind \in {"live", "verify"} : active' = [active EXCEPT ![x].kind = kind]
    PROVE  \A t \in Threads, l \in launches : Holds(l, t)' => Holds(l, t)
<1> SUFFICES ASSUME NEW t \in Threads, NEW l \in launches, Holds(l, t)'
             PROVE  Holds(l, t)
  OBVIOUS
<1>1. [rid |-> l.rid, kind |-> "preparing"] # NoRun
  BY LaunchedEntry
<1>2. l.from = "drain" /\ l.t = t /\ active'[t] = [rid |-> l.rid, kind |-> "preparing"]
  BY DEF Holds, Owns
<1>3. active \in [Threads -> Entry \cup {NoRun}]
  BY DEF TypeOK
<1>4. active'[t] = active[t]
  <2>1. CASE active' = [active EXCEPT ![x] = NoRun] \/ active' = [u \in Threads |-> NoRun]
    BY <1>1, <1>2, <1>3, <2>1
  <2>2. ASSUME NEW kind \in {"live", "verify"}, active' = [active EXCEPT ![x].kind = kind],
               x \in Running, t = x
        PROVE  FALSE
    <3>1. active[x] \in Entry
      BY <2>2, RunningEntry
    <3>2. active'[x].kind = kind
      BY <1>3, <2>2, <3>1 DEF Entry
    <3> QED
      BY <1>2, <2>2, <3>2
  <2>3. CASE \E kind \in {"live", "verify"} : active' = [active EXCEPT ![x].kind = kind]
    BY <1>3, <2>1, <2>2, <2>3
  <2> QED
    BY <2>1, <2>2, <2>3
<1> QED
  BY <1>2, <1>4 DEF Holds, Owns

\* Between two macrotasks nothing starts.
LEMMA IdleStartsNothing ==
    ASSUME Idle
    PROVE  /\ ~Starts /\ NoHand(micro)
           /\ \A t : At("starting", t) = {}
BY ShortHands DEF Idle, Starts, At

\* A launch that does not give its messages back.
LEMMA LaunchIsQuiet ==
    ASSUME TypeOK, NEW l \in launches,
           \/ LaunchCancelled(l) \/ LaunchSpawns(l)
           \/ LaunchThrows(l) /\ l.from # "drain"
    PROVE  QuietMessages
<1>1. /\ ~Starts /\ NoHand(micro')
  BY IdleStartsNothing, ShortHands DEF LaunchCancelled, LaunchSpawns, LaunchThrows
<1>2. /\ UNCHANGED <<typeAhead, runQueue, nmsg>>
      /\ launches' = launches \ {l}
      /\ recorded \subseteq recorded' /\ bounced' = bounced /\ dropped \subseteq dropped'
      /\ Elems(l.msgs) \subseteq recorded' \cup dropped'
  BY DEF LaunchCancelled, LaunchSpawns, LaunchThrows, Forgets, queueVars
<1>3. l.t \in Threads /\ (LaunchSpawns(l) => l.t \in Running)
  BY NoRunAssumption DEF TypeOK, Launch, LaunchSpawns, Owns, Running, Entry
<1>4. \A t \in Threads, k \in launches : Holds(k, t)' => Holds(k, t)
  BY <1>3, NoNewOwner DEF LaunchCancelled, LaunchSpawns, LaunchThrows
<1>5. Taken \subseteq Taken'
  BY <1>2, TakenGrows
<1> QED
  BY <1>1, <1>2, <1>4, <1>5 DEF QuietMessages, QueueKeepsOrLoses

\* An agent that ends.
LEMMA AgentIsQuiet ==
    ASSUME TypeOK, AgentEnds
    PROVE  QuietMessages
<1>1. PICK a \in agents : AgentLate(a) \/ AgentDone(a) \/ AgentFails(a)
  BY DEF AgentEnds
<1>2. ~Starts /\ NoHand(micro')
  BY <1>1, IdleStartsNothing, ShortHands DEF AgentLate, AgentDone, AgentFails
<1>3. UNCHANGED <<typeAhead, runQueue, nmsg, recorded, dropped, bounced, launches>>
  BY <1>1 DEF AgentLate, AgentDone, AgentFails, queueVars, histVars
<1>4. a.t \in Threads /\ (AgentDone(a) => a.t \in Running)
  <2>1. a.t \in Threads /\ a.rid \in RunId
    BY DEF TypeOK, Pending
  <2> QED
    BY <2>1, NoRunAssumption DEF AgentDone, Owns, Running, Entry
<1>5. \A t \in Threads, l \in launches : Holds(l, t)' => Holds(l, t)
  BY <1>1, <1>4, NoNewOwner DEF AgentLate, AgentDone, AgentFails
<1> QED
  BY <1>2, <1>3, <1>5, TakenSame DEF QuietMessages, QueueKeepsOrLoses

\* A stop, a verification that hands back or fails, a quit and a boot.
LEMMA StopIsQuiet ==
    ASSUME TypeOK, TypeOK', QueueInv,
           \/ \E t \in Threads : StopWaiting(t) \/ StopRunning(t)
           \/ \E v \in verifies : VerifyStale(v) \/ VerifyHandsBack(v) \/ VerifyFails(v)
           \/ Quit \/ Reboot
    PROVE  QuietMessages
<1>1. ~Starts /\ NoHand(micro')
  BY IdleStartsNothing, ShortHands
     DEF StopWaiting, StopRunning, VerifyStale, VerifyHandsBack, VerifyFails, Quit, Reboot
<1>2. /\ UNCHANGED <<typeAhead, nmsg, recorded>>
      /\ QueueKeepsOrLoses
      /\ launches' \subseteq launches
  BY DEF StopWaiting, StopRunning, VerifyStale, VerifyHandsBack, VerifyFails, Quit, Reboot,
         queueVars, histVars, runVars, QueueKeepsOrLoses
<1>3. Taken \subseteq Taken'
  <2>1. CASE Reboot
    <3>1. /\ UNCHANGED recorded /\ bounced \subseteq bounced' /\ dropped \subseteq dropped'
          /\ \A l \in launches : Elems(l.msgs) \subseteq recorded' \cup dropped'
      BY <2>1 DEF Reboot
    <3> QED
      BY <3>1, TakenGrows
  <2>2. CASE ~Reboot
    <3>1. UNCHANGED <<launches, recorded, dropped, bounced>>
      BY <2>2 DEF StopWaiting, StopRunning, VerifyStale, VerifyHandsBack, VerifyFails, Quit,
                  runVars, histVars
    <3> QED
      BY <3>1, TakenSame
  <2> QED
    BY <2>1, <2>2
<1>4. \A v \in verifies : v.t \in Threads
  BY DEF TypeOK, Pending
<1>5. ASSUME NEW t \in Threads
      PROVE  \A l \in launches : Holds(l, t)' => Holds(l, t)
  BY <1>4, NoNewOwner
     DEF StopWaiting, StopRunning, VerifyStale, VerifyHandsBack, VerifyFails, Quit, Reboot, runVars
<1> QED
  BY <1>1, <1>2, <1>3, <1>5 DEF QuietMessages

\* admitQueuedRuns ends, and a start that is refused and was not drained.
LEMMA HeadIsQuiet ==
    ASSUME TypeOK, MessageInv, ~Idle,
           \/ Head(micro).op = "admit" /\ AdmitEnds
           \/ /\ Head(micro).op = "start" /\ Head(micro).from # "drain"
              /\ \E worktree \in BOOLEAN : StartRefused(Head(micro), worktree)
    PROVE  QuietMessages
<1>1. NoHand(Tail(micro)) /\ micro' = Tail(micro)
  BY DEF MessageInv, HandInv, Idle, AdmitEnds, StartRefused
<1>2. /\ UNCHANGED <<typeAhead, runQueue, launches, active, nmsg>>
      /\ recorded \subseteq recorded' /\ bounced \subseteq bounced' /\ dropped' = dropped
  BY DEF AdmitEnds, StartRefused, runVars, queueVars, histVars
<1>3. \A t \in Threads, l \in launches' : Holds(l, t)' => Holds(l, t)
  BY <1>2 DEF Holds, Owns
<1>4. Starts => Elems(Head(micro).msgs) \subseteq recorded' \cup bounced'
  <2> SUFFICES ASSUME Head(micro).op = "start"
               PROVE  Elems(Head(micro).msgs) \subseteq recorded' \cup bounced'
    BY DEF Starts
  <2>1. Head(micro).from \in Source /\ Head(micro).from # "drain" /\ Starts
    BY HeadStart, FoldedType DEF Idle, Starts
  <2>2. CASE Head(micro).from = "send"
    BY <2>2 DEF StartRefused
  <2>3. CASE Head(micro).from = "slot"
    BY <1>2, <2>1, <2>3 DEF MessageInv, SeenInv
  <2>4. CASE Head(micro).from = "fix"
    BY <2>1, <2>4, ShortLists DEF MessageInv, HandInv, Starts
  <2> QED
    BY <2>1, <2>2, <2>3, <2>4 DEF Source
<1>5. Taken \subseteq Taken'
  BY <1>2, TakenGrows
<1> QED
  BY <1>1, <1>2, <1>3, <1>4, <1>5, TakenParts DEF QuietMessages, QueueKeepsOrLoses

-----------------------------------------------------------------------------
(* Steps that put a start in front of the microtask queue.                 *)

\* What a step leaves that puts a start in front of tasks without messages.
LEMMA FrontStart ==
    ASSUME NEW in \in Start, NEW later \in Seq(Task), micro' = <<in>> \o later, NoHand(later),
           in.from = "fix" => in.msgs = <<>>
    PROVE  /\ Starts' /\ Head(micro') = in
           /\ HandInv'
           /\ \A t, m : m \in At("starting", t)' <=> m \in Msg /\ in.t = t /\ m \in Elems(in.msgs)
<1>1. /\ micro' \in Seq(Task) /\ Len(micro') = 1 + Len(later) /\ Len(later) \in Nat
      /\ \A i \in 1..(1 + Len(later)) : micro'[i] = IF i <= 1 THEN in ELSE later[i - 1]
  <2>1. <<in>> \in Seq(Task) /\ Len(<<in>>) = 1 /\ <<in>>[1] = in
    BY DEF Task
  <2> QED
    BY <2>1, ConcatProperties, LenProperties
<1>2. micro' # <<>> /\ Head(micro') = in
  <2>1. micro' # <<>> /\ micro'[1] = in
    BY <1>1, EmptySeq
  <2> QED
    BY <1>1, <2>1
<1>3. Tail(micro') = later
  <2>1. /\ Tail(micro') \in Seq(Task) /\ Len(Tail(micro')) = Len(later)
        /\ \A i \in 1..Len(later) : Tail(micro')[i] = micro'[i + 1]
    BY <1>1, <1>2, HeadTailProperties
  <2>2. \A i \in 1..Len(later) : micro'[i + 1] = later[i]
    <3> SUFFICES ASSUME NEW i \in 1..Len(later)
                 PROVE  micro'[i + 1] = later[i]
      OBVIOUS
    <3>1. i + 1 \in 1..(1 + Len(later)) /\ ~(i + 1 <= 1) /\ (i + 1) - 1 = i
      BY <1>1
    <3> QED
      BY <1>1, <3>1
  <2> QED
    BY <2>1, <2>2, SeqEqual
<1>4. in.op = "start"
  BY DEF Start
<1>5. Starts'
  BY <1>2, <1>4 DEF Starts
<1>6. HandInv'
  BY <1>2, <1>3 DEF HandInv, NoHand
<1>7. ASSUME NEW t, NEW m
      PROVE  m \in At("starting", t)' <=> m \in Msg /\ in.t = t /\ m \in Elems(in.msgs)
  BY <1>2, <1>5 DEF At, Elems
<1> QED
  BY <1>2, <1>5, <1>6, <1>7

\* A drain: the first n follow-ups of a thread that runs nothing start.
LEMMA DrainMoves ==
    ASSUME TypeOK, TypeOK', MessageInv, Idle,
           NEW t \in Threads, NEW n \in 1..Len(typeAhead[t]), NEW later \in {<<>>, <<Admit>>},
           micro' = <<StartOf(t, "drain", SubSeq(typeAhead[t], 1, n))>> \o later,
           typeAhead' = [typeAhead EXCEPT ![t] =
                           SubSeq(typeAhead[t], n + 1, Len(typeAhead[t]))],
           UNCHANGED <<runQueue, launches, nmsg, recorded, dropped, bounced>>,
           \A u \in Threads, l \in launches : Holds(l, u)' => Holds(l, u),
           t \notin Running'
    PROVE  MessageInv'
<1> DEFINE old == typeAhead[t]
           a == SubSeq(old, 1, n)
           b == SubSeq(old, n + 1, Len(old))
           in == StartOf(t, "drain", a)
<1>1. old \in Seq(Msg) /\ InOrder(old)
  BY DEF TypeOK, MessageInv, OrderInv
<1>2. /\ a \in Seq(Msg) /\ b \in Seq(Msg)
      /\ Elems(a) \cup Elems(b) = Elems(old) /\ Elems(a) \cap Elems(b) = {}
      /\ InOrder(a) /\ InOrder(b) /\ Before(a, b)
  BY <1>1, SplitFacts
<1>3. /\ typeAhead'[t] = b
      /\ \A u \in Threads : u # t => typeAhead'[u] = typeAhead[u]
  BY DEF TypeOK
<1>4. in \in Start /\ in.t = t /\ in.from = "drain" /\ in.msgs = a /\ micro' = <<in>> \o later
  BY <1>2, TaskType DEF StartOf, Source
<1> HIDE DEF a, b, in
<1>5. /\ Starts' /\ Head(micro') = in
      /\ HandInv'
      /\ \A u, m : m \in At("starting", u)' <=> m \in Msg /\ in.t = u /\ m \in Elems(in.msgs)
  <2>1. later \in Seq(Task) /\ NoHand(later)
    BY ShortHands, TaskType, ShortQueue
  <2> QED
    BY <1>4, <2>1, FrontStart
<1>6. PlaceInv
  BY DEF MessageInv
<1>7. Elems(a) \subseteq At("typed", t) /\ Elems(a) \subseteq Msg
  BY <1>1, <1>2, ElemsType DEF At
<1>8. ASSUME NEW k \in Kind, NEW u \in Threads, k # "starting" \/ u # t
      PROVE  At(k, u)' \subseteq At(k, u) \ Elems(a)
  <2>1. k # "typed" \/ u # t => At(k, u) \cap Elems(a) = {}
    BY <1>6, <1>7 DEF PlaceInv, Kind
  <2> SUFFICES ASSUME NEW m \in At(k, u)'
               PROVE  m \in At(k, u) \ Elems(a)
    OBVIOUS
  <2>2. m \in Msg
    BY AtMessages
  <2>3. CASE k = "typed" /\ u = t
    BY <1>2, <1>3, <2>2, <2>3, AtKinds, AtKindsNext
  <2>4. CASE k = "typed" /\ u # t
    BY <1>3, <2>1, <2>2, <2>4, AtKinds, AtKindsNext
  <2>5. CASE k = "queued"
    <3>1. m \in At(k, u)
      BY <2>2, <2>5, AtKinds, AtKindsNext
    <3> QED
      BY <2>1, <2>5, <3>1
  <2>6. CASE k = "starting"
    BY <1>4, <1>5, <1>8, <2>6
  <2>7. CASE k = "launching"
    <3>1. PICK l \in launches : Holds(l, u)' /\ m \in Elems(l.msgs)
      BY <2>2, <2>7, AtKindsNext
    <3>2. Holds(l, u)
      BY <3>1
    <3> QED
      BY <2>1, <2>2, <2>7, <3>1, <3>2, AtKinds
  <2> QED
    BY <2>3, <2>4, <2>5, <2>6, <2>7 DEF Kind
<1>9. PlaceInv'
  <2>1. nmsg \in Nat /\ nmsg' = nmsg
    BY PlaceTypes
  <2>2. Elems(a) \subseteq 1..nmsg'
    BY <1>6, <1>7, <2>1 DEF PlaceInv, Kind
  <2>3. At("starting", t)' \subseteq At("starting", t) \cup Elems(a)
    BY <1>4, <1>5
  <2>4. "starting" \in Kind
    BY DEF Kind
  <2>5. \A k \in Kind, u \in Threads :
          k # "starting" \/ u # t => At(k, u)' \subseteq At(k, u) \ Elems(a)
    BY <1>8
  <2>6. nmsg' \in Nat /\ nmsg <= nmsg'
    BY <2>1
  <2> HIDE DEF old
  <2> QED
    BY <1>6, <2>1, <2>2, <2>3, <2>4, <2>5, <2>6, MoveStep
<1>10. DistinctInv'
  <2>1. Distinct(a)
    BY <1>2, OrderIsDistinct
  <2> QED
    BY <1>4, <1>5, <2>1 DEF MessageInv, DistinctInv, Distinct
<1>11. OrderInv'
  <2>1. \A u \in Threads : InOrder(typeAhead'[u])
    BY <1>2, <1>3 DEF MessageInv, OrderInv
  <2>2. ASSUME NEW u \in Threads, NEW l \in launches', Holds(l, u)'
        PROVE  InOrder(l.msgs) /\ Before(l.msgs, typeAhead'[u])
    <3>1. u # t
      <4>1. active'[t] = NoRun
        BY DEF Running
      <4>2. [rid |-> l.rid, kind |-> "preparing"] # NoRun
        BY LaunchedEntry
      <4> QED
        BY <2>2, <4>1, <4>2 DEF Holds, Owns
    <3> QED
      BY <1>3, <2>2, <3>1 DEF MessageInv, OrderInv
  <2> QED
    BY <1>2, <1>3, <1>4, <1>5, <2>1, <2>2 DEF OrderInv, InOrder, Before
<1>12. SeenInv'
  <2>1. ASSUME NEW m \in 1..nmsg
        PROVE  Accounted(m)'
    <3>1. CASE m \in Taken
      BY <3>1, TakenSame DEF Accounted
    <3>2. ASSUME NEW u \in Threads, m \in At("typed", u)
          PROVE  m \in At("typed", u)' \cup At("starting", u)'
      <4>1. m \in Msg /\ m \in Elems(typeAhead[u])
        BY <3>2, AtMessages, AtKinds
      <4> QED
        BY <1>2, <1>3, <1>4, <1>5, <4>1, AtKindsNext
    <3>3. \A u : At("starting", u) = {}
      BY IdleStartsNothing
    <3> QED
      BY <2>1, <3>1, <3>2, <3>3 DEF MessageInv, SeenInv, Accounted
  <2>2. \A u \in Threads : At("queued", u)' \subseteq recorded'
    <3> SUFFICES ASSUME NEW u \in Threads, NEW m \in At("queued", u)'
                 PROVE  m \in recorded
      OBVIOUS
    <3>1. m \in At("queued", u)
      BY AtMessages, AtKinds, AtKindsNext
    <3> QED
      BY <3>1 DEF MessageInv, SeenInv
  <2> QED
    BY <1>4, <1>5, <2>1, <2>2 DEF SeenInv
<1> QED
  BY <1>5, <1>9, <1>10, <1>11, <1>12 DEF MessageInv

\* An admission: the oldest entry whose thread does not run starts.
LEMMA AdmitMoves ==
    ASSUME TypeOK, TypeOK', QueueInv, MessageInv, ~Idle, Head(micro).op = "admit", AdmitNext
    PROVE  MessageInv'
<1>1. PICK i \in DOMAIN runQueue :
        /\ micro' = <<StartOf(runQueue[i].t, "slot", runQueue[i].msgs)>> \o micro
        /\ runQueue' = WithoutEntry(i)
  BY DEF AdmitNext, Admissible
<1>2. UNCHANGED <<typeAhead, launches, active, nmsg, recorded, dropped, bounced>>
  BY DEF AdmitNext, runVars, histVars
<1>3. PICK t \in Threads, msgs \in Seq(Msg) : runQueue[i].t = t /\ runQueue[i].msgs = msgs
  BY PlaceTypes
<1> DEFINE in == StartOf(t, "slot", msgs)
<1>4. in \in Start /\ in.t = t /\ in.from = "slot" /\ in.msgs = msgs /\ micro' = <<in>> \o micro
  BY <1>1, <1>3, TaskType DEF StartOf, Source
<1>5. micro \in Seq(Task) /\ NoHand(micro)
  <2>1. NoHand(Tail(micro))
    BY DEF MessageInv, HandInv, Idle
  <2>2. /\ Head(micro) = micro[1] /\ Len(micro) \in Nat /\ DOMAIN micro = 1..Len(micro)
        /\ DOMAIN Tail(micro) = 1..(Len(micro) - 1)
        /\ \A j \in DOMAIN Tail(micro) : Tail(micro)[j] = micro[j + 1]
    BY AfterHead
  <2> SUFFICES ASSUME NEW j \in DOMAIN micro, micro[j].op = "start"
               PROVE  micro[j].from = "fix" /\ micro[j].msgs = <<>>
    BY DEF NoHand, TypeOK
  <2>3. j # 1
    BY <2>2
  <2>4. j - 1 \in DOMAIN Tail(micro) /\ (j - 1) + 1 = j
    BY <2>2, <2>3
  <2>5. Tail(micro)[j - 1] = micro[j]
    BY <2>2, <2>4
  <2> QED
    BY <2>1, <2>4, <2>5 DEF NoHand
<1>6. Elems(msgs) \subseteq Msg /\ Elems(msgs) \subseteq At("queued", t) /\ Distinct(msgs)
  BY <1>3, ElemsType DEF At, MessageInv, DistinctInv
<1>7. \A j \in DOMAIN runQueue' :
        \E k \in DOMAIN runQueue : k # i /\ runQueue'[j] = runQueue[k]
  BY <1>1, WithoutHeld
<1>8. \A k \in DOMAIN runQueue : runQueue[k].t = t => k = i
  BY <1>3 DEF QueueInv, QueueOnce
<1>9. \A j \in DOMAIN runQueue' : Distinct(runQueue'[j].msgs)
  BY <1>7 DEF MessageInv, DistinctInv
<1>10. Elems(msgs) \subseteq recorded
  BY <1>6 DEF MessageInv, SeenInv
<1> HIDE DEF in
<1>11. /\ Starts' /\ Head(micro') = in
       /\ HandInv'
       /\ \A u, m : m \in At("starting", u)' <=> m \in Msg /\ in.t = u /\ m \in Elems(in.msgs)
  BY <1>4, <1>5, FrontStart
<1>12. \A u : At("starting", u) = {}
  BY DEF At, Starts
<1>13. PlaceInv
  BY DEF MessageInv
<1>14. ASSUME NEW k \in Kind, NEW u \in Threads, k # "starting" \/ u # t
       PROVE  At(k, u)' \subseteq At(k, u) \ Elems(msgs)
  <2>1. k # "queued" \/ u # t => At(k, u) \cap Elems(msgs) = {}
    BY <1>6, <1>13 DEF PlaceInv, Kind
  <2> SUFFICES ASSUME NEW m \in At(k, u)'
               PROVE  m \in At(k, u) \ Elems(msgs)
    OBVIOUS
  <2>2. m \in Msg
    BY AtMessages
  <2>3. CASE k = "typed"
    BY <1>2, <2>1, <2>2, <2>3, AtKinds, AtKindsNext
  <2>4. CASE k = "queued"
    <3>1. PICK j \in DOMAIN runQueue' : runQueue'[j].t = u /\ m \in Elems(runQueue'[j].msgs)
      BY <2>2, <2>4, AtKindsNext
    <3>2. PICK e \in DOMAIN runQueue : e # i /\ runQueue'[j] = runQueue[e]
      BY <1>7
    <3>3. m \in At(k, u) /\ u # t
      BY <1>8, <2>2, <2>4, <3>1, <3>2, AtKinds
    <3> QED
      BY <2>1, <3>3
  <2>5. CASE k = "starting"
    BY <1>4, <1>11, <1>14, <2>5
  <2>6. CASE k = "launching"
    <3>1. PICK l \in launches : Holds(l, u)' /\ m \in Elems(l.msgs)
      BY <1>2, <2>2, <2>6, AtKindsNext
    <3>2. Holds(l, u)
      BY <1>2, <3>1 DEF Holds, Owns
    <3> QED
      BY <2>1, <2>2, <2>6, <3>1, <3>2, AtKinds
  <2> QED
    BY <2>3, <2>4, <2>5, <2>6 DEF Kind
<1>15. PlaceInv'
  <2>1. nmsg \in Nat /\ nmsg' = nmsg /\ nmsg' \in Nat /\ nmsg <= nmsg'
    BY <1>2, PlaceTypes
  <2>2. Elems(msgs) \subseteq 1..nmsg'
    BY <1>6, <1>13, <2>1 DEF PlaceInv, Kind
  <2>3. At("starting", t)' \subseteq At("starting", t) \cup Elems(msgs)
    BY <1>4, <1>11
  <2>4. "starting" \in Kind
    BY DEF Kind
  <2>5. \A k \in Kind, u \in Threads :
          k # "starting" \/ u # t => At(k, u)' \subseteq At(k, u) \ Elems(msgs)
    BY <1>14
  <2> QED
    BY <1>13, <2>1, <2>2, <2>3, <2>4, <2>5, MoveStep
<1>16. DistinctInv'
  BY <1>4, <1>6, <1>9, <1>11 DEF DistinctInv, Distinct
<1>17. OrderInv'
  BY <1>2, <1>4, <1>11 DEF MessageInv, OrderInv, InOrder, Before, Holds, Owns
<1>18. SeenInv'
  <2>1. ASSUME NEW m \in 1..nmsg
        PROVE  Accounted(m)'
    <3>1. \A u \in Threads : m \in At("typed", u) => m \in At("typed", u)'
      BY <1>2, AtMessages, AtKinds, AtKindsNext
    <3> QED
      BY <1>2, <1>12, <2>1, <3>1, TakenSame DEF MessageInv, SeenInv, Accounted
  <2>2. \A u \in Threads : At("queued", u)' \subseteq recorded'
    <3> SUFFICES ASSUME NEW u \in Threads, NEW m \in At("queued", u)'
                 PROVE  m \in At("queued", u)
      BY <1>2 DEF MessageInv, SeenInv
    <3>1. u # t \/ "queued" # "starting"
      OBVIOUS
    <3> QED
      BY <1>14, <3>1 DEF Kind
  <2> QED
    BY <1>2, <1>4, <1>10, <1>11, <2>1, <2>2 DEF SeenInv
<1> QED
  BY <1>11, <1>15, <1>16, <1>17, <1>18 DEF MessageInv

\* threads:send: a new message starts.
LEMMA SendMoves ==
    ASSUME TypeOK, TypeOK', MessageInv, NEW t \in Threads, UserSends(t)
    PROVE  MessageInv'
<1>0. PICK n \in Msg : n = nmsg + 1
  BY BoundsAssumption DEF TypeOK, UserSends, Msg
<1> DEFINE in == StartOf(t, "send", <<n>>)
<1>1. /\ UNCHANGED <<typeAhead, runQueue, launches, active, recorded, dropped, bounced>>
      /\ nmsg' = n /\ micro' = <<in>> /\ Idle
  BY <1>0 DEF UserSends, runVars, queueVars
<1>2. /\ nmsg \in Nat /\ n \in Nat /\ nmsg <= n
      /\ n \notin 1..nmsg /\ n \in 1..n /\ 1..n = 1..nmsg \cup {n}
  <2>1. nmsg \in Nat
    BY BoundsAssumption DEF TypeOK
  <2> QED
    BY <1>0, <2>1
<1>3. <<n>> \in Seq(Msg) /\ Elems(<<n>>) = {n} /\ Distinct(<<n>>)
  BY ShortLists
<1>4. /\ in \in Start /\ in.t = t /\ in.from = "send" /\ in.msgs = <<n>>
      /\ micro' = <<in>> \o <<>>
  <2>1. in \in Start /\ in.t = t /\ in.from = "send" /\ in.msgs = <<n>>
    BY <1>3, TaskType DEF StartOf, Source
  <2> HIDE DEF in
  <2>2. <<in>> \o <<>> = <<in>>
    BY <2>1, ConcatEmptySeq DEF Task
  <2> QED
    BY <1>1, <2>1, <2>2
<1> HIDE DEF in
<1>5. /\ Starts' /\ Head(micro') = in
      /\ HandInv'
      /\ \A u, m : m \in At("starting", u)' <=> m \in Msg /\ in.t = u /\ m \in Elems(in.msgs)
  BY <1>4, ShortQueue, ShortHands, TaskType, FrontStart
<1>6. PlaceInv /\ \A u : At("starting", u) = {}
  BY <1>1, IdleStartsNothing DEF MessageInv
<1>7. ASSUME NEW k \in Kind, NEW u \in Threads, k # "starting" \/ u # t
      PROVE  At(k, u)' \subseteq At(k, u) \ {n}
  <2>1. n \notin At(k, u)
    BY <1>2, <1>6 DEF PlaceInv
  <2> SUFFICES ASSUME NEW m \in At(k, u)'
               PROVE  m \in At(k, u)
    BY <2>1
  <2>2. m \in Msg
    BY AtMessages
  <2>3. CASE k = "typed" \/ k = "queued"
    BY <1>1, <2>2, <2>3, AtKinds, AtKindsNext
  <2>4. CASE k = "starting"
    BY <1>4, <1>5, <1>7, <2>4
  <2>5. CASE k = "launching"
    BY <1>1, <2>2, <2>5, AtKinds, AtKindsNext DEF Holds, Owns
  <2> QED
    BY <2>3, <2>4, <2>5 DEF Kind
<1>8. PlaceInv'
  <2>1. nmsg \in Nat /\ nmsg' \in Nat /\ nmsg <= nmsg' /\ {n} \subseteq 1..nmsg'
    BY <1>1, <1>2
  <2>2. At("starting", t)' \subseteq At("starting", t) \cup {n}
    BY <1>3, <1>4, <1>5
  <2>3. "starting" \in Kind
    BY DEF Kind
  <2>4. \A k \in Kind, u \in Threads :
          k # "starting" \/ u # t => At(k, u)' \subseteq At(k, u) \ {n}
    BY <1>7
  <2> QED
    BY <1>6, <2>1, <2>2, <2>3, <2>4, MoveStep
<1>9. DistinctInv'
  BY <1>1, <1>3, <1>4, <1>5 DEF MessageInv, DistinctInv, Distinct
<1>10. OrderInv'
  BY <1>1, <1>4, <1>5 DEF MessageInv, OrderInv, InOrder, Before, Holds, Owns
<1>11. SeenInv'
  <2>1. \A m \in 1..nmsg : Accounted(m)'
    <3> SUFFICES ASSUME NEW m \in 1..nmsg
                 PROVE  Accounted(m)'
      OBVIOUS
    <3>1. \A u \in Threads : m \in At("typed", u) => m \in At("typed", u)'
      BY <1>1, AtMessages, AtKinds, AtKindsNext
    <3> QED
      BY <1>1, <1>6, <3>1, TakenSame DEF MessageInv, SeenInv, Accounted
  <2>2. Accounted(n)'
    <3>1. n \in At("starting", t)'
      BY <1>2, <1>3, <1>4, <1>5
    <3> QED
      BY <3>1 DEF Accounted
  <2>3. \A m \in 1..nmsg' : Accounted(m)'
    BY <1>1, <1>2, <2>1, <2>2
  <2>4. \A u \in Threads : At("queued", u)' \subseteq recorded'
    BY <1>1, <1>7 DEF MessageInv, SeenInv, Kind
  <2> QED
    BY <1>4, <1>5, <2>3, <2>4 DEF SeenInv
<1> QED
  BY <1>5, <1>8, <1>9, <1>10, <1>11 DEF MessageInv

-----------------------------------------------------------------------------
(* Steps that put messages into a composer.                                *)

\* A list written before two others was written before both in a row.
LEMMA BeforeConcat ==
    ASSUME NEW s \in Seq(Msg), NEW a \in Seq(Msg), NEW b \in Seq(Msg), Before(s, a), Before(s, b)
    PROVE  Before(s, a \o b)
<1>1. \A j \in DOMAIN (a \o b) :
        \/ j \in DOMAIN a /\ (a \o b)[j] = a[j]
        \/ j - Len(a) \in DOMAIN b /\ (a \o b)[j] = b[j - Len(a)]
  BY ConcatPlaces
<1> QED
  BY <1>1 DEF Before

\* threads:setQueued: a new message waits behind the others.
LEMMA TypeAheadMoves ==
    ASSUME TypeOK, TypeOK', MessageInv, NEW t \in Threads, UserTypesAhead(t)
    PROVE  MessageInv'
<1>1. PICK n \in Msg : n = nmsg + 1
  BY BoundsAssumption DEF TypeOK, UserTypesAhead, Msg
<1> DEFINE old == typeAhead[t]
<1>2. /\ UNCHANGED <<runQueue, launches, active, micro, recorded, dropped, bounced>>
      /\ nmsg' = n /\ Idle
  BY <1>1 DEF UserTypesAhead, runVars
<1>3. /\ nmsg \in Nat /\ n \in Nat /\ nmsg <= n
      /\ n \notin 1..nmsg /\ n \in 1..n /\ 1..n = 1..nmsg \cup {n}
      /\ \A k \in 1..nmsg : k < n
  <2>1. nmsg \in Nat
    BY BoundsAssumption DEF TypeOK
  <2> QED
    BY <1>1, <2>1
<1>4. <<n>> \in Seq(Msg) /\ Elems(<<n>>) = {n} /\ InOrder(<<n>>)
  BY ShortLists
<1>5. old \in Seq(Msg) /\ InOrder(old)
  BY DEF TypeOK, MessageInv, OrderInv
<1>6. /\ typeAhead'[t] = old \o <<n>>
      /\ \A u \in Threads : u # t => typeAhead'[u] = typeAhead[u]
  <2>1. typeAhead'[t] = Append(old, n)
    BY <1>1 DEF TypeOK, UserTypesAhead
  <2>2. \A u \in Threads : u # t => typeAhead'[u] = typeAhead[u]
    BY DEF TypeOK, UserTypesAhead
  <2> QED
    BY <1>5, <2>1, <2>2, AppendIsConcat
<1>7. PlaceInv /\ (\A u : At("starting", u) = {}) /\ ~Starts
  BY <1>2, IdleStartsNothing DEF MessageInv
<1>8. ASSUME NEW s \in Seq(Msg), Elems(s) \subseteq 1..nmsg
      PROVE  Before(s, <<n>>)
  <2>1. \A i \in DOMAIN s : s[i] < n
    BY <1>3, <1>8 DEF Elems
  <2>2. DOMAIN <<n>> = {1} /\ <<n>>[1] = n
    OBVIOUS
  <2> QED
    BY <2>1, <2>2 DEF Before
<1>9. \A m : m \in Elems(old) => m \in Msg /\ m \in At("typed", t)
  BY <1>5, ElemsType DEF At
<1> HIDE DEF old
<1>10. Elems(typeAhead'[t]) = Elems(old) \cup {n}
  BY <1>4, <1>5, <1>6, ConcatFacts
<1>11. ASSUME NEW k \in Kind, NEW u \in Threads, k # "typed" \/ u # t
       PROVE  At(k, u)' \subseteq At(k, u) \ {n}
  <2>1. n \notin At(k, u)
    BY <1>3, <1>7 DEF PlaceInv
  <2> SUFFICES ASSUME NEW m \in At(k, u)'
               PROVE  m \in At(k, u)
    BY <2>1
  <2>2. m \in Msg
    BY AtMessages
  <2>3. CASE k = "typed"
    BY <1>6, <1>11, <2>2, <2>3, AtKinds, AtKindsNext
  <2>4. CASE k = "queued" \/ k = "starting"
    BY <1>2, <2>2, <2>4, AtKinds, AtKindsNext DEF Starts
  <2>5. CASE k = "launching"
    BY <1>2, <2>2, <2>5, AtKinds, AtKindsNext DEF Holds, Owns
  <2> QED
    BY <2>3, <2>4, <2>5 DEF Kind
<1>12. At("typed", t)' = At("typed", t) \cup {n}
  <2>1. \A m \in Msg : m \in At("typed", t)' <=> m \in At("typed", t) \cup {n}
    BY <1>10, AtKinds, AtKindsNext DEF old
  <2>2. At("typed", t)' \subseteq Msg /\ At("typed", t) \subseteq Msg
    BY AtMessages
  <2> QED
    BY <2>1, <2>2
<1>13. PlaceInv'
  <2>1. nmsg \in Nat /\ nmsg' \in Nat /\ nmsg <= nmsg' /\ {n} \subseteq 1..nmsg'
    BY <1>2, <1>3
  <2>2. "typed" \in Kind
    BY DEF Kind
  <2>3. \A k \in Kind, u \in Threads :
          k # "typed" \/ u # t => At(k, u)' \subseteq At(k, u) \ {n}
    BY <1>11
  <2> QED
    BY <1>7, <1>12, <2>1, <2>2, <2>3, MoveStep
<1>14. HandInv' /\ DistinctInv'
  BY <1>2 DEF MessageInv, HandInv, DistinctInv, Distinct, NoHand, Starts
<1>15. OrderInv'
  <2>1. InOrder(typeAhead'[t])
    <3>1. Elems(old) \subseteq 1..nmsg
      BY <1>7, <1>9 DEF PlaceInv, Kind
    <3>2. Before(old, <<n>>)
      BY <1>5, <1>8, <3>1
    <3> QED
      BY <1>4, <1>5, <1>6, <3>2, ConcatFacts
  <2>2. \A u \in Threads : InOrder(typeAhead'[u])
    BY <1>6, <2>1 DEF MessageInv, OrderInv
  <2>3. ASSUME NEW u \in Threads, NEW l \in launches, Holds(l, u)'
        PROVE  InOrder(l.msgs) /\ Before(l.msgs, typeAhead'[u])
    <3>1. /\ Holds(l, u) /\ l.msgs \in Seq(Msg)
          /\ InOrder(l.msgs) /\ Before(l.msgs, typeAhead[u])
      BY <1>2, <2>3, PlaceTypes DEF Holds, Owns, MessageInv, OrderInv
    <3>2. CASE u # t
      BY <1>6, <3>1, <3>2
    <3>3. CASE u = t
      <4>1. Elems(l.msgs) \subseteq At("launching", t)
        BY <3>1, <3>3, ElemsType DEF At
      <4>2. Elems(l.msgs) \subseteq 1..nmsg
        BY <1>7, <4>1 DEF PlaceInv, Kind
      <4>3. Before(l.msgs, <<n>>) /\ Before(l.msgs, old)
        BY <1>8, <3>1, <3>3, <4>2 DEF old
      <4> QED
        BY <1>4, <1>5, <1>6, <3>1, <3>3, <4>3, BeforeConcat
    <3> QED
      BY <3>2, <3>3
  <2>4. ~Starts'
    BY <1>2, <1>7 DEF Starts
  <2> QED
    BY <1>2, <2>2, <2>3, <2>4 DEF OrderInv, InOrder, Before
<1>16. SeenInv'
  <2>1. \A m \in 1..nmsg : Accounted(m)'
    <3> SUFFICES ASSUME NEW m \in 1..nmsg
                 PROVE  Accounted(m)'
      OBVIOUS
    <3>1. \A u \in Threads : m \in At("typed", u) => m \in At("typed", u)'
      <4>1. \A u \in Threads : u # t /\ m \in At("typed", u) => m \in At("typed", u)'
        BY <1>6, AtMessages, AtKinds, AtKindsNext
      <4> QED
        BY <1>12, <4>1
    <3> QED
      BY <1>2, <1>7, <3>1, TakenSame DEF MessageInv, SeenInv, Accounted
  <2>2. Accounted(n)'
    BY <1>12 DEF Accounted
  <2>3. \A m \in 1..nmsg' : Accounted(m)'
    BY <1>2, <1>3, <2>1, <2>2
  <2>4. \A u \in Threads : At("queued", u)' \subseteq recorded'
    BY <1>2, <1>11 DEF MessageInv, SeenInv, Kind
  <2> QED
    BY <1>2, <1>7, <2>3, <2>4 DEF SeenInv, Starts
<1> QED
  BY <1>13, <1>14, <1>15, <1>16 DEF MessageInv

\* Messages that a refused or thrown turn gives back to the composer of a
\* thread that runs nothing, in front of what waits there.
LEMMA GiveBack ==
    ASSUME TypeOK, TypeOK', MessageInv, NEW t \in Threads, NEW msgs \in Seq(Msg),
           NEW k0 \in {"starting", "launching"}, Elems(msgs) \subseteq At(k0, t),
           InOrder(msgs), Before(msgs, typeAhead[t]),
           typeAhead' = [typeAhead EXCEPT ![t] = msgs \o @],
           UNCHANGED <<runQueue, nmsg>>,
           launches' \subseteq launches, recorded \subseteq recorded', Taken \subseteq Taken',
           \A u \in Threads, l \in launches : Holds(l, u)' => Holds(l, u) /\ u # t,
           NoHand(micro'), \A u, m : m \in At("starting", u) => u = t /\ m \in Elems(msgs)
    PROVE  MessageInv'
<1> DEFINE old == typeAhead[t]
<1>1. old \in Seq(Msg) /\ InOrder(old)
  BY DEF TypeOK, MessageInv, OrderInv
<1>2. /\ typeAhead'[t] = msgs \o old
      /\ \A u \in Threads : u # t => typeAhead'[u] = typeAhead[u]
  BY DEF TypeOK
<1>3. Elems(msgs \o old) = Elems(msgs) \cup Elems(old) /\ InOrder(msgs \o old)
  BY <1>1, ConcatFacts
<1>4. /\ HandInv'
      /\ Starts' => Head(micro').from = "fix" /\ Head(micro').msgs = <<>>
      /\ \A u : At("starting", u)' = {}
  BY NoHandFacts
<1>5. PlaceInv
  BY DEF MessageInv
<1>6. At("typed", t)' = At("typed", t) \cup Elems(msgs)
  <2>1. \A m \in Msg : m \in At("typed", t)' <=> m \in At("typed", t) \cup Elems(msgs)
    BY <1>2, <1>3, AtKinds, AtKindsNext
  <2>2. At("typed", t)' \subseteq Msg /\ At("typed", t) \subseteq Msg /\ Elems(msgs) \subseteq Msg
    BY AtMessages, ElemsType
  <2> QED
    BY <2>1, <2>2
<1> HIDE DEF old
<1>7. ASSUME NEW k \in Kind, NEW u \in Threads, k # "typed" \/ u # t
      PROVE  At(k, u)' \subseteq At(k, u) \ Elems(msgs)
  <2>1. k # k0 \/ u # t => At(k, u) \cap Elems(msgs) = {}
    <3>1. k0 \in Kind
      BY DEF Kind
    <3> QED
      BY <1>5, <3>1 DEF PlaceInv
  <2> SUFFICES ASSUME NEW m \in At(k, u)'
               PROVE  m \in At(k, u) /\ (k # k0 \/ u # t)
    BY <2>1
  <2>2. m \in Msg
    BY AtMessages
  <2>3. CASE k = "typed"
    BY <1>2, <1>7, <2>2, <2>3, AtKinds, AtKindsNext
  <2>4. CASE k = "queued"
    BY <2>2, <2>4, AtKinds, AtKindsNext
  <2>5. CASE k = "starting"
    BY <1>4, <2>5
  <2>6. CASE k = "launching"
    <3>1. PICK l \in launches' : Holds(l, u)' /\ m \in Elems(l.msgs)
      BY <2>2, <2>6, AtKindsNext
    <3>2. l \in launches /\ Holds(l, u) /\ u # t
      BY <3>1
    <3> QED
      BY <2>2, <2>6, <3>1, <3>2, AtKinds
  <2> QED
    BY <2>3, <2>4, <2>5, <2>6 DEF Kind
<1>8. PlaceInv'
  <2>1. nmsg \in Nat /\ nmsg' \in Nat /\ nmsg <= nmsg'
    BY PlaceTypes
  <2>2. Elems(msgs) \subseteq 1..nmsg'
    BY <1>5 DEF PlaceInv, Kind
  <2>3. "typed" \in Kind
    BY DEF Kind
  <2>4. \A k \in Kind, u \in Threads :
          k # "typed" \/ u # t => At(k, u)' \subseteq At(k, u) \ Elems(msgs)
    BY <1>7
  <2> QED
    BY <1>5, <1>6, <2>1, <2>2, <2>3, <2>4, MoveStep
<1>9. DistinctInv'
  <2>1. Starts' => Distinct(Head(micro').msgs)
    BY <1>4, ShortLists
  <2> QED
    BY <2>1 DEF MessageInv, DistinctInv, Distinct
<1>10. OrderInv'
  <2>1. \A u \in Threads : InOrder(typeAhead'[u])
    BY <1>2, <1>3 DEF MessageInv, OrderInv, old
  <2>2. \A u \in Threads : \A l \in launches' :
          Holds(l, u)' => InOrder(l.msgs) /\ Before(l.msgs, typeAhead'[u])
    BY <1>2 DEF MessageInv, OrderInv
  <2>3. Starts' => Head(micro').from # "drain"
    BY <1>4
  <2> QED
    BY <2>1, <2>2, <2>3 DEF OrderInv, InOrder, Before
<1>11. SeenInv'
  <2>1. ASSUME NEW m \in 1..nmsg
        PROVE  Accounted(m)'
    <3>1. \A u \in Threads : m \in At("typed", u) => m \in At("typed", u)'
      <4>1. \A u \in Threads : u # t /\ m \in At("typed", u) => m \in At("typed", u)'
        BY <1>2, AtMessages, AtKinds, AtKindsNext
      <4> QED
        BY <1>6, <4>1
    <3>2. \A u \in Threads : m \in At("starting", u) => m \in At("typed", t)'
      BY <1>6
    <3> QED
      BY <2>1, <3>1, <3>2 DEF MessageInv, SeenInv, Accounted
  <2>2. \A u \in Threads : At("queued", u)' \subseteq recorded'
    BY <1>7 DEF MessageInv, SeenInv, Kind
  <2>3. Starts' => Head(micro').from # "slot"
    BY <1>4
  <2> QED
    BY <2>1, <2>2, <2>3 DEF SeenInv
<1> QED
  BY <1>4, <1>8, <1>9, <1>10, <1>11 DEF MessageInv

\* A drained start that is refused: drainQueued puts its messages back.
LEMMA RefusedMoves ==
    ASSUME TypeOK, TypeOK', MessageInv, ~Idle, Head(micro).op = "start",
           Head(micro).from = "drain", NEW worktree \in BOOLEAN,
           StartRefused(Head(micro), worktree)
    PROVE  MessageInv'
<1>1. PICK t \in Threads, msgs \in Seq(Msg) : Head(micro).t = t /\ Head(micro).msgs = msgs
  BY HeadStart, FoldedType
<1>2. /\ NoHand(micro')
      /\ Starts
  BY DEF MessageInv, HandInv, Idle, Starts, StartRefused
<1>3. /\ typeAhead' = [typeAhead EXCEPT ![t] = msgs \o @]
      /\ UNCHANGED <<runQueue, nmsg, dropped, bounced, active, launches>>
      /\ recorded \subseteq recorded' /\ Taken \subseteq Taken'
  BY <1>1, TakenGrows DEF StartRefused
<1>4. t \notin Running /\ InOrder(msgs) /\ Before(msgs, typeAhead[t])
  BY <1>1, <1>2 DEF MessageInv, OrderInv
<1>5. \A u \in Threads, l \in launches : Holds(l, u)' => Holds(l, u) /\ u # t
  <2> SUFFICES ASSUME NEW u \in Threads, NEW l \in launches, Holds(l, u)'
               PROVE  Holds(l, u) /\ u # t
    OBVIOUS
  <2>1. Holds(l, u) /\ active[u] = [rid |-> l.rid, kind |-> "preparing"]
    BY <1>3 DEF Holds, Owns
  <2>2. [rid |-> l.rid, kind |-> "preparing"] # NoRun
    BY LaunchedEntry
  <2> QED
    BY <1>4, <2>1, <2>2 DEF Running
<1>6. /\ Elems(msgs) \subseteq At("starting", t)
      /\ \A u, m : m \in At("starting", u) => u = t /\ m \in Elems(msgs)
  BY <1>1, <1>2, ElemsType DEF At
<1> QED
  BY <1>2, <1>3, <1>4, <1>5, <1>6, GiveBack

\* A launch of a drained turn that throws.
LEMMA ThrowMoves ==
    ASSUME TypeOK, TypeOK', MessageInv, NEW l \in launches, l.from = "drain", LaunchThrows(l)
    PROVE  MessageInv'
<1>1. PICK t \in Threads, msgs \in Seq(Msg) : l.t = t /\ l.msgs = msgs
  BY PlaceTypes
<1>2. /\ typeAhead' = [typeAhead EXCEPT ![t] = msgs \o @]
      /\ UNCHANGED <<runQueue, nmsg, bounced, recorded>>
      /\ launches' = launches \ {l}
      /\ dropped \subseteq dropped' /\ Elems(l.msgs) \subseteq recorded' \cup dropped'
      /\ active' = [active EXCEPT ![t] = NoRun]
      /\ NoHand(micro') /\ Idle /\ Holds(l, t)
  BY <1>1, ShortHands DEF LaunchThrows, Forgets, Holds
<1>3. InOrder(msgs) /\ Before(msgs, typeAhead[t])
  BY <1>1, <1>2 DEF MessageInv, OrderInv
<1>4. \A u \in Threads, k \in launches : Holds(k, u)' => Holds(k, u) /\ u # t
  <2> SUFFICES ASSUME NEW u \in Threads, NEW k \in launches, Holds(k, u)'
               PROVE  Holds(k, u) /\ u # t
    OBVIOUS
  <2>1. Holds(k, u)
    BY <1>2, NoNewOwner
  <2>2. active'[u] = [rid |-> k.rid, kind |-> "preparing"] /\ active'[t] = NoRun
    BY <1>2 DEF Holds, Owns, TypeOK
  <2>3. [rid |-> k.rid, kind |-> "preparing"] # NoRun
    BY LaunchedEntry
  <2> QED
    BY <2>1, <2>2, <2>3
<1>5. Elems(msgs) \subseteq At("launching", t)
  BY <1>1, <1>2, ElemsType DEF At
<1>6. \A u, m : m \in At("starting", u) => u = t /\ m \in Elems(msgs)
  BY <1>2, IdleStartsNothing
<1>7. Taken \subseteq Taken'
  BY <1>2, TakenGrows
<1> QED
  BY <1>2, <1>3, <1>4, <1>5, <1>6, <1>7, GiveBack

-----------------------------------------------------------------------------
(* Starts that are taken up.                                               *)

\* The messages of a start, with those it folds in.
LEMMA TakenUp ==
    ASSUME TypeOK, MessageInv, ~Idle, Head(micro).op = "start",
           NEW t \in Threads, Head(micro).t = t
    PROVE  LET in == Head(micro)
               all == Folded(in) \o in.msgs
           IN  /\ in.msgs \in Seq(Msg) /\ all \in Seq(Msg) /\ Starts
               /\ Elems(all) = Elems(Folded(in)) \cup Elems(in.msgs)
               /\ Elems(in.msgs) = At("starting", t)
               /\ \A u : u # t => At("starting", u) = {}
               /\ Elems(Folded(in)) = IF Folds(in) THEN At("typed", t) ELSE {}
               /\ Distinct(all)
<1> DEFINE in == Head(micro)
           fold == Folded(in)
<1>1. /\ in \in Start /\ in.msgs \in Seq(Msg) /\ fold \in Seq(Msg)
      /\ fold \o in.msgs \in Seq(Msg)
  BY HeadStart, FoldedType
<1>2. Starts
  BY DEF Idle, Starts
<1>3. Elems(fold \o in.msgs) = Elems(fold) \cup Elems(in.msgs)
  BY <1>1, ConcatFacts
<1>4. Elems(in.msgs) = At("starting", t)
  BY <1>1, <1>2, ElemsType DEF At
<1>5. \A u : u # t => At("starting", u) = {}
  BY DEF At
<1>6. Elems(fold) = IF Folds(in) THEN At("typed", t) ELSE {}
  <2>1. CASE Folds(in)
    <3>1. fold = typeAhead[t] /\ typeAhead[t] \in Seq(Msg)
      BY <2>1 DEF Folded, TypeOK
    <3> QED
      BY <2>1, <3>1, ElemsType DEF At
  <2>2. CASE ~Folds(in)
    BY <2>2, ShortLists DEF Folded
  <2> QED
    BY <2>1, <2>2
<1>7. Distinct(fold)
  <2>1. InOrder(fold)
    BY ShortLists DEF Folded, MessageInv, OrderInv
  <2> QED
    BY <1>1, <2>1, OrderIsDistinct
<1>8. Distinct(in.msgs)
  BY <1>2 DEF MessageInv, DistinctInv
<1>9. Elems(fold) \cap Elems(in.msgs) = {}
  <2>1. At("typed", t) \cap At("starting", t) = {}
    BY DEF MessageInv, PlaceInv, Kind
  <2> QED
    BY <1>4, <1>6, <2>1
<1>10. Distinct(fold \o in.msgs)
  BY <1>1, <1>7, <1>8, <1>9, ConcatFacts
<1> QED
  BY <1>1, <1>2, <1>3, <1>4, <1>5, <1>6, <1>10

\* enqueueRun: the messages of a start join the run queue.
LEMMA QueuedMoves ==
    ASSUME TypeOK, TypeOK', QueueInv, MessageInv, ~Idle, Head(micro).op = "start",
           StartQueued(Head(micro))
    PROVE  MessageInv'
<1> DEFINE in == Head(micro)
<1>1. PICK t \in Threads : in.t = t
  BY HeadStart, FoldedType
<1>2. PICK all \in Seq(Msg) : all = Folded(in) \o in.msgs
  BY HeadStart, FoldedType
<1>3. /\ Starts
      /\ Elems(all) = Elems(Folded(in)) \cup At("starting", t)
      /\ Elems(Folded(in)) = IF Folds(in) THEN At("typed", t) ELSE {}
      /\ \A u : u # t => At("starting", u) = {}
      /\ Distinct(all)
  BY <1>1, <1>2, TakenUp
<1>4. /\ typeAhead' = IF Folds(in) THEN [typeAhead EXCEPT ![t] = <<>>] ELSE typeAhead
      /\ UNCHANGED <<launches, active, nmsg, dropped, bounced>>
      /\ recorded' = recorded \cup Elems(all)
      /\ micro' = Append(Tail(micro), Admit)
  BY <1>1, <1>2 DEF StartQueued
<1>5. NoHand(micro')
  <2>1. NoHand(Tail(micro)) /\ Tail(micro) \in Seq(Task)
    BY HeadStart DEF MessageInv, HandInv, Idle
  <2>2. /\ DOMAIN micro' = 1..(Len(Tail(micro)) + 1)
        /\ DOMAIN Tail(micro) = 1..Len(Tail(micro)) /\ Len(Tail(micro)) \in Nat
        /\ \A i \in 1..Len(Tail(micro)) : micro'[i] = Tail(micro)[i]
        /\ micro'[Len(Tail(micro)) + 1] = Admit
    BY <1>4, <2>1, TaskType, AppendProperties, LenProperties
  <2> SUFFICES ASSUME NEW i \in DOMAIN micro', micro'[i].op = "start"
               PROVE  micro'[i].from = "fix" /\ micro'[i].msgs = <<>>
    BY DEF NoHand
  <2>3. i # Len(Tail(micro)) + 1
    BY <2>2 DEF Admit
  <2>4. i \in 1..Len(Tail(micro))
    BY <2>2, <2>3
  <2> QED
    BY <2>1, <2>2, <2>4 DEF NoHand
<1>6. \A j \in DOMAIN runQueue' :
        \/ \E i \in DOMAIN runQueue : runQueue'[j] = runQueue[i]
        \/ \E i \in DOMAIN runQueue : /\ runQueue[i].t = t /\ runQueue'[j].t = t
                                      /\ runQueue'[j].msgs = runQueue[i].msgs \o all
        \/ runQueue'[j].t = t /\ runQueue'[j].msgs = all
  <2> DEFINE QEntry == [t: Threads, msgs: Seq(Msg)]
  <2>1. runQueue \in Seq(QEntry) /\ Len(runQueue) \in Nat /\ DOMAIN runQueue = 1..Len(runQueue)
    BY LenProperties DEF TypeOK
  <2>2. CASE in.t \in Waiting
    <3>1. runQueue' = [i \in DOMAIN runQueue |->
                         IF runQueue[i].t = t
                         THEN [runQueue[i] EXCEPT !.msgs = @ \o all]
                         ELSE runQueue[i]]
      BY <1>1, <1>2, <2>2 DEF StartQueued
    <3>2. \A i \in DOMAIN runQueue : runQueue[i] \in QEntry
      BY <2>1, ElementOfSeq
    <3> QED
      BY <3>1, <3>2
  <2>3. CASE in.t \notin Waiting
    <3> DEFINE e == [t |-> t, msgs |-> all]
    <3>1. runQueue' = Append(runQueue, e)
      BY <1>1, <1>2, <2>3 DEF StartQueued
    <3>2. e \in QEntry /\ e.t = t /\ e.msgs = all
      OBVIOUS
    <3> HIDE DEF e, QEntry
    <3>3. /\ DOMAIN runQueue' = 1..(Len(runQueue) + 1)
          /\ \A i \in 1..Len(runQueue) : runQueue'[i] = runQueue[i]
          /\ runQueue'[Len(runQueue) + 1] = e
      BY <2>1, <3>1, <3>2, AppendProperties, LenProperties
    <3>4. \A j \in 1..(Len(runQueue) + 1) : j \in 1..Len(runQueue) \/ j = Len(runQueue) + 1
      BY <2>1
    <3> QED
      BY <2>1, <3>2, <3>3, <3>4
  <2> QED
    BY <2>2, <2>3
<1> HIDE DEF in
<1>7. /\ HandInv'
      /\ Starts' => Head(micro').from = "fix" /\ Head(micro').msgs = <<>>
      /\ \A u : At("starting", u)' = {}
  BY <1>5, NoHandFacts
<1>8. PlaceInv
  BY DEF MessageInv
<1>9. /\ \A u \in Threads : u # t => typeAhead'[u] = typeAhead[u]
      /\ typeAhead'[t] = IF Folds(in) THEN <<>> ELSE typeAhead[t]
  BY <1>4 DEF TypeOK
<1>10. \A i \in DOMAIN runQueue :
         runQueue[i].msgs \in Seq(Msg) /\ Elems(runQueue[i].msgs) \subseteq Msg
  BY PlaceTypes, ElemsType
<1>11. ASSUME NEW m, NEW u \in Threads, m \in At("queued", u)'
       PROVE  m \in At("queued", u) \/ (u = t /\ m \in Elems(all))
  <2>1. m \in Msg
    BY <1>11, AtMessages
  <2>2. PICK j \in DOMAIN runQueue' : runQueue'[j].t = u /\ m \in Elems(runQueue'[j].msgs)
    BY <1>11, <2>1, AtKindsNext
  <2>3. CASE \E i \in DOMAIN runQueue : runQueue'[j] = runQueue[i]
    BY <2>1, <2>2, <2>3, AtKinds
  <2>4. ASSUME NEW i \in DOMAIN runQueue, runQueue[i].t = t, runQueue'[j].t = t,
               runQueue'[j].msgs = runQueue[i].msgs \o all
        PROVE  m \in At("queued", u) \/ (u = t /\ m \in Elems(all))
    <3>1. m \in Elems(runQueue[i].msgs) \cup Elems(all)
      BY <1>10, <2>2, <2>4, ConcatFacts
    <3> QED
      BY <2>1, <2>2, <2>4, <3>1, AtKinds
  <2>5. CASE runQueue'[j].t = t /\ runQueue'[j].msgs = all
    BY <2>2, <2>5
  <2> QED
    BY <1>6, <2>3, <2>4, <2>5
<1>12. \A u \in Threads : At("queued", u)' \subseteq At("queued", u) \cup Elems(all)
  BY <1>11
<1>13. ASSUME NEW k \in Kind, NEW u \in Threads, k # "queued" \/ u # t
       PROVE  At(k, u)' \subseteq At(k, u) \ Elems(all)
  <2>1. k \notin {"starting", "typed"} \/ u # t => At(k, u) \cap Elems(all) = {}
    BY <1>3, <1>8 DEF PlaceInv, Kind
  <2> SUFFICES ASSUME NEW m \in At(k, u)'
               PROVE  m \in At(k, u) \ Elems(all)
    OBVIOUS
  <2>2. m \in Msg
    BY AtMessages
  <2>3. CASE k = "typed" /\ u # t
    BY <1>9, <2>1, <2>2, <2>3, AtKinds, AtKindsNext
  <2>4. CASE k = "typed" /\ u = t
    <3>1. ~Folds(in) /\ m \in At(k, u)
      BY <1>9, <2>2, <2>4, ShortLists, AtKinds, AtKindsNext
    <3>2. At("typed", t) \cap At("starting", t) = {}
      BY <1>8 DEF PlaceInv, Kind
    <3> QED
      BY <1>3, <2>4, <3>1, <3>2
  <2>5. CASE k = "queued"
    BY <1>11, <1>13, <2>1, <2>5
  <2>6. CASE k = "starting"
    BY <1>7, <2>6
  <2>7. CASE k = "launching"
    <3>1. m \in At(k, u)
      BY <1>4, <2>2, <2>7, AtKinds, AtKindsNext DEF Holds, Owns
    <3> QED
      BY <2>1, <2>7, <3>1
  <2> QED
    BY <2>3, <2>4, <2>5, <2>6, <2>7 DEF Kind
<1>14. PlaceInv'
  <2>1. nmsg \in Nat /\ nmsg' \in Nat /\ nmsg <= nmsg'
    BY <1>4, PlaceTypes
  <2>2. Elems(all) \subseteq 1..nmsg'
    BY <1>3, <1>4, <1>8 DEF PlaceInv, Kind
  <2>3. "queued" \in Kind
    BY DEF Kind
  <2>4. \A k \in Kind, u \in Threads :
          k # "queued" \/ u # t => At(k, u)' \subseteq At(k, u) \ Elems(all)
    BY <1>13
  <2> QED
    BY <1>8, <1>12, <2>1, <2>2, <2>3, <2>4, MoveStep
<1>15. DistinctInv'
  <2>1. Starts' => Distinct(Head(micro').msgs)
    BY <1>7, ShortLists
  <2>2. ASSUME NEW j \in DOMAIN runQueue'
        PROVE  Distinct(runQueue'[j].msgs)
    <3>1. \A i \in DOMAIN runQueue : Distinct(runQueue[i].msgs)
      BY DEF MessageInv, DistinctInv
    <3>2. ASSUME NEW i \in DOMAIN runQueue, runQueue[i].t = t,
                 runQueue'[j].msgs = runQueue[i].msgs \o all
          PROVE  Distinct(runQueue'[j].msgs)
      <4>1. Elems(runQueue[i].msgs) \subseteq At("queued", t)
        BY <1>10, <3>2 DEF At
      <4>2. At("queued", t) \cap Elems(all) = {}
        BY <1>3, <1>8 DEF PlaceInv, Kind
      <4> QED
        BY <1>3, <1>10, <3>1, <3>2, <4>1, <4>2, ConcatFacts
    <3> QED
      BY <1>3, <1>6, <3>1, <3>2
  <2> QED
    BY <2>1, <2>2 DEF DistinctInv, Distinct
<1>16. OrderInv'
  <2>1. \A u \in Threads : InOrder(typeAhead'[u])
    BY <1>9, ShortLists DEF MessageInv, OrderInv
  <2>2. \A u \in Threads : \A l \in launches' :
          Holds(l, u)' => InOrder(l.msgs) /\ Before(l.msgs, typeAhead'[u])
    <3> SUFFICES ASSUME NEW u \in Threads, NEW l \in launches, Holds(l, u)'
                 PROVE  InOrder(l.msgs) /\ Before(l.msgs, typeAhead'[u])
      BY <1>4
    <3>1. InOrder(l.msgs) /\ Before(l.msgs, typeAhead[u])
      BY <1>4 DEF Holds, Owns, MessageInv, OrderInv
    <3>2. Before(l.msgs, <<>>)
      BY DEF Before
    <3> QED
      BY <1>9, <3>1, <3>2
  <2>3. Starts' => Head(micro').from # "drain"
    BY <1>7
  <2> QED
    BY <2>1, <2>2, <2>3 DEF OrderInv, InOrder, Before
<1>17. SeenInv'
  <2>1. ASSUME NEW m \in 1..nmsg
        PROVE  Accounted(m)'
    <3>1. \A u \in Threads : m \in At("typed", u) => m \in At("typed", u)' \cup recorded'
      <4>1. \A u \in Threads : u # t /\ m \in At("typed", u) => m \in At("typed", u)'
        BY <1>9, AtMessages, AtKinds, AtKindsNext
      <4>2. ~Folds(in) /\ m \in At("typed", t) => m \in At("typed", t)'
        BY <1>9, AtMessages, AtKinds, AtKindsNext
      <4> QED
        BY <1>3, <1>4, <4>1, <4>2
    <3>2. \A u \in Threads : m \in At("starting", u) => m \in recorded'
      BY <1>3, <1>4
    <3> QED
      BY <1>4, <2>1, <3>1, <3>2, TakenGrows, TakenParts DEF MessageInv, SeenInv, Accounted
  <2>2. \A u \in Threads : At("queued", u)' \subseteq recorded'
    BY <1>4, <1>12 DEF MessageInv, SeenInv
  <2>3. Starts' => Head(micro').from # "slot"
    BY <1>7
  <2> QED
    BY <1>4, <2>1, <2>2, <2>3 DEF SeenInv
<1> QED
  BY <1>7, <1>14, <1>15, <1>16, <1>17 DEF MessageInv

\* A start that is accepted: the turn launches.
LEMMA AcceptedMoves ==
    ASSUME TypeOK, TypeOK', MessageInv, ~Idle, Head(micro).op = "start",
           StartAccepted(Head(micro))
    PROVE  MessageInv'
<1> DEFINE in == Head(micro)
<1>1. PICK t \in Threads, msgs \in Seq(Msg) : in.t = t /\ in.msgs = msgs
  BY HeadStart, FoldedType
<1>2. PICK all \in Seq(Msg) : all = Folded(in) \o in.msgs
  BY HeadStart, FoldedType
<1>3. /\ Starts
      /\ Elems(all) = Elems(Folded(in)) \cup At("starting", t)
      /\ Elems(Folded(in)) = IF Folds(in) THEN At("typed", t) ELSE {}
      /\ Elems(msgs) = At("starting", t)
      /\ \A u : u # t => At("starting", u) = {}
  BY <1>1, <1>2, TakenUp
<1>4. PICK r \in RunId : r = FreeId /\ r \notin UsedIds
  BY FreeIdIsFree DEF StartAccepted
<1>5. /\ typeAhead' = IF Folds(in) THEN [typeAhead EXCEPT ![t] = <<>>] ELSE typeAhead
      /\ UNCHANGED <<runQueue, nmsg, dropped, bounced>>
      /\ recorded' = recorded \cup Elems(msgs)
      /\ micro' = Tail(micro)
      /\ active' = [active EXCEPT ![t] = [rid |-> r, kind |-> "preparing"]]
      /\ launches' = launches \cup {[t |-> t, rid |-> r, from |-> in.from, msgs |-> all]}
  BY <1>1, <1>2, <1>4 DEF StartAccepted
<1>6. NoHand(micro')
  BY <1>5 DEF MessageInv, HandInv, Idle
<1>7. in.from = "drain" =>
        InOrder(msgs) /\ Before(msgs, typeAhead[t]) /\ ~Folds(in) /\ all = msgs
  <2>1. ~Folds(in) => all = msgs
    BY <1>1, <1>2, ConcatEmptySeq DEF Folded
  <2> QED
    BY <1>1, <1>3, <2>1 DEF MessageInv, OrderInv, Folds
<1> HIDE DEF in
<1>8. /\ HandInv'
      /\ Starts' => Head(micro').from = "fix" /\ Head(micro').msgs = <<>>
      /\ \A u : At("starting", u)' = {}
  BY <1>6, NoHandFacts
<1>9. PlaceInv
  BY DEF MessageInv
<1>10. /\ \A u \in Threads : u # t => typeAhead'[u] = typeAhead[u] /\ active'[u] = active[u]
       /\ typeAhead'[t] = IF Folds(in) THEN <<>> ELSE typeAhead[t]
       /\ active'[t] = [rid |-> r, kind |-> "preparing"]
  BY <1>5 DEF TypeOK
<1>11. ASSUME NEW u \in Threads, NEW l \in launches', Holds(l, u)'
       PROVE  \/ u # t /\ l \in launches /\ Holds(l, u)
              \/ u = t /\ l.msgs = msgs /\ in.from = "drain"
  <2>1. l.from = "drain" /\ l.t = u /\ active'[u] = [rid |-> l.rid, kind |-> "preparing"]
    BY <1>11 DEF Holds, Owns
  <2>2. CASE l \in launches
    <3>1. l.rid \in UsedIds
      BY <2>2 DEF UsedIds
    <3>2. u # t
      BY <1>4, <1>10, <2>1, <3>1
    <3> QED
      BY <1>10, <2>1, <2>2, <3>2 DEF Holds, Owns
  <2>3. CASE l = [t |-> t, rid |-> r, from |-> in.from, msgs |-> all]
    BY <1>7, <2>1, <2>3
  <2> QED
    BY <1>5, <2>2, <2>3
<1>12. At("launching", t)' \subseteq At("launching", t) \cup Elems(msgs)
  <2> SUFFICES ASSUME NEW m \in At("launching", t)'
               PROVE  m \in Elems(msgs)
    OBVIOUS
  <2>1. PICK l \in launches' : Holds(l, t)' /\ m \in Elems(l.msgs)
    BY AtMessages, AtKindsNext
  <2> QED
    BY <1>11, <2>1
<1>13. ASSUME NEW k \in Kind, NEW u \in Threads, k # "launching" \/ u # t
       PROVE  At(k, u)' \subseteq At(k, u) \ Elems(msgs)
  <2>1. k # "starting" \/ u # t => At(k, u) \cap Elems(msgs) = {}
    BY <1>3, <1>9 DEF PlaceInv, Kind
  <2> SUFFICES ASSUME NEW m \in At(k, u)'
               PROVE  m \in At(k, u) /\ (k # "starting" \/ u # t)
    BY <2>1
  <2>2. m \in Msg
    BY AtMessages
  <2>3. CASE k = "typed"
    BY <1>10, <2>2, <2>3, ShortLists, AtKinds, AtKindsNext
  <2>4. CASE k = "queued"
    BY <1>5, <2>2, <2>4, AtKinds, AtKindsNext
  <2>5. CASE k = "starting"
    BY <1>8, <2>5
  <2>6. CASE k = "launching"
    <3>1. PICK l \in launches' : Holds(l, u)' /\ m \in Elems(l.msgs)
      BY <2>2, <2>6, AtKindsNext
    <3>2. l \in launches /\ Holds(l, u)
      BY <1>11, <1>13, <2>6, <3>1
    <3> QED
      BY <2>2, <2>6, <3>1, <3>2, AtKinds
  <2> QED
    BY <2>3, <2>4, <2>5, <2>6 DEF Kind
<1>14. PlaceInv'
  <2>1. nmsg \in Nat /\ nmsg' \in Nat /\ nmsg <= nmsg'
    BY <1>5, PlaceTypes
  <2>2. Elems(msgs) \subseteq 1..nmsg'
    BY <1>3, <1>5, <1>9 DEF PlaceInv, Kind
  <2>3. "launching" \in Kind
    BY DEF Kind
  <2>4. \A k \in Kind, u \in Threads :
          k # "launching" \/ u # t => At(k, u)' \subseteq At(k, u) \ Elems(msgs)
    BY <1>13
  <2> QED
    BY <1>9, <1>12, <2>1, <2>2, <2>3, <2>4, MoveStep
<1>15. DistinctInv'
  <2>1. Starts' => Distinct(Head(micro').msgs)
    BY <1>8, ShortLists
  <2> QED
    BY <1>5, <2>1 DEF MessageInv, DistinctInv, Distinct
<1>16. OrderInv'
  <2>1. \A u \in Threads : InOrder(typeAhead'[u])
    BY <1>10, ShortLists DEF MessageInv, OrderInv
  <2>2. ASSUME NEW u \in Threads, NEW l \in launches', Holds(l, u)'
        PROVE  InOrder(l.msgs) /\ Before(l.msgs, typeAhead'[u])
    <3>1. CASE u # t /\ l \in launches /\ Holds(l, u)
      BY <1>10, <3>1 DEF MessageInv, OrderInv
    <3>2. CASE u = t /\ l.msgs = msgs /\ in.from = "drain"
      BY <1>7, <1>10, <3>2
    <3> QED
      BY <1>11, <2>2, <3>1, <3>2
  <2>3. Starts' => Head(micro').from # "drain"
    BY <1>8
  <2> QED
    BY <2>1, <2>2, <2>3 DEF OrderInv, InOrder, Before
<1>17. SeenInv'
  <2>1. ASSUME NEW m \in 1..nmsg
        PROVE  Accounted(m)'
    <3>1. Elems(all) \subseteq Taken'
      <4>1. [t |-> t, rid |-> r, from |-> in.from, msgs |-> all] \in launches'
        BY <1>5
      <4>2. Taken' = recorded' \cup bounced' \cup dropped' \cup UNION {Elems(l.msgs) : l \in launches'}
        BY DEF Taken, Elems
      <4> QED
        BY <4>1, <4>2
    <3>2. \A u \in Threads : m \in At("typed", u) => m \in At("typed", u)' \cup Taken'
      <4>1. \A u \in Threads : u # t /\ m \in At("typed", u) => m \in At("typed", u)'
        BY <1>10, AtMessages, AtKinds, AtKindsNext
      <4>2. ~Folds(in) /\ m \in At("typed", t) => m \in At("typed", t)'
        BY <1>10, AtMessages, AtKinds, AtKindsNext
      <4> QED
        BY <1>3, <3>1, <4>1, <4>2
    <3>3. \A u \in Threads : m \in At("starting", u) => m \in Taken'
      BY <1>3, <3>1
    <3>4. Taken \subseteq Taken'
      BY <1>5, TakenGrows
    <3> QED
      BY <2>1, <3>2, <3>3, <3>4 DEF MessageInv, SeenInv, Accounted
  <2>2. \A u \in Threads : At("queued", u)' \subseteq recorded'
    BY <1>5, <1>13 DEF MessageInv, SeenInv, Kind
  <2>3. Starts' => Head(micro').from # "slot"
    BY <1>8
  <2> QED
    BY <1>5, <2>1, <2>2, <2>3 DEF SeenInv
<1> QED
  BY <1>8, <1>14, <1>15, <1>16, <1>17 DEF MessageInv

-----------------------------------------------------------------------------
(* Every step.                                                             *)

\* A drain that is held, or finds nothing, moves nothing.
LEMMA DrainStep ==
    ASSUME TypeOK, TypeOK', MessageInv, Idle, NEW t \in Threads, NEW held \in BOOLEAN,
           NEW later \in {<<>>, <<Admit>>}, Drain(t, held, later),
           UNCHANGED <<runQueue, launches, nmsg, recorded, dropped, bounced>>,
           \A u \in Threads, l \in launches : Holds(l, u)' => Holds(l, u),
           ~held => t \notin Running'
    PROVE  MessageInv'
<1>1. CASE held \/ typeAhead[t] = <<>>
  <2>1. micro' = later /\ typeAhead' = typeAhead
    BY <1>1 DEF Drain
  <2>2. QuietMessages
    BY <2>1, ShortHands, IdleStartsNothing, TakenSame DEF QuietMessages, QueueKeepsOrLoses
  <2> QED
    BY <2>2, QuietKeepsMessages
<1>2. CASE ~held /\ typeAhead[t] # <<>>
  <2>1. PICK n \in {1, Len(typeAhead[t])} :
          /\ micro' = <<StartOf(t, "drain", SubSeq(typeAhead[t], 1, n))>> \o later
          /\ typeAhead' = [typeAhead EXCEPT ![t] = SubSeq(@, n + 1, Len(@))]
    BY <1>2 DEF Drain
  <2>2. n \in 1..Len(typeAhead[t])
    <3>1. typeAhead[t] \in Seq(Msg)
      BY DEF TypeOK
    <3>2. Len(typeAhead[t]) \in Nat /\ Len(typeAhead[t]) # 0
      BY <1>2, <3>1, ListFacts
    <3> QED
      BY <3>2
  <2>3. typeAhead' = [typeAhead EXCEPT ![t] =
                        SubSeq(typeAhead[t], n + 1, Len(typeAhead[t]))]
    BY <2>1
  <2> QED
    BY <1>2, <2>1, <2>2, <2>3, DrainMoves
<1> QED
  BY <1>1, <1>2

\* sendQueued takes the head.
LEMMA SendQueuedMoves ==
    ASSUME TypeOK, TypeOK', MessageInv, NEW t \in Threads, UserSendsQueued(t)
    PROVE  MessageInv'
<1> DEFINE old == typeAhead[t]
<1>1. old \in Seq(Msg) /\ old # <<>> /\ Len(old) \in Nat /\ Len(old) >= 1
  <2>1. old \in Seq(Msg) /\ old # <<>>
    BY DEF TypeOK, UserSendsQueued
  <2> HIDE DEF old
  <2>2. Len(old) \in Nat /\ Len(old) # 0
    BY <2>1, ListFacts
  <2> QED
    BY <2>1, <2>2
<1>2. /\ Idle /\ t \notin Running
      /\ UNCHANGED <<active, runQueue, launches, nmsg, recorded, dropped, bounced>>
      /\ typeAhead' = [typeAhead EXCEPT ![t] = Tail(old)]
      /\ micro' = <<StartOf(t, "drain", <<Head(old)>>)>>
  BY DEF UserSendsQueued, runVars, histVars
<1> HIDE DEF old
<1>3. Tail(old) = SubSeq(old, 1 + 1, Len(old))
  <2>1. Tail(old) = SubSeq(old, 2, Len(old))
    BY <1>1, TailIsSubSeq
  <2>2. 1 + 1 = 2
    OBVIOUS
  <2> QED
    BY <2>1, <2>2
<1>4. <<Head(old)>> = SubSeq(old, 1, 1)
  <2>1. 1 \in 1..Len(old) /\ Head(old) = old[1] /\ old[1] \in Msg
    BY <1>1, ListFacts
  <2>2. SubSeq(old, 1, 1) \in Seq(Msg) /\ Len(SubSeq(old, 1, 1)) = 1 /\ SubSeq(old, 1, 1)[1] = old[1]
    <3>1. /\ SubSeq(old, 1, 1) \in Seq(Msg)
          /\ Len(SubSeq(old, 1, 1)) = IF 1 <= 1 THEN 1 - 1 + 1 ELSE 0
          /\ \A i \in 1..(1 - 1 + 1) : SubSeq(old, 1, 1)[i] = old[1 + i - 1]
      <4>1. \A i \in 1..1 : old[i] \in Msg
        BY <2>1
      <4> QED
        BY <4>1, SubSeqProperties
    <3> QED
      BY <3>1
  <2>3. <<old[1]>> \in Seq(Msg) /\ Len(<<old[1]>>) = 1 /\ <<old[1]>>[1] = old[1]
    BY <2>1
  <2>4. \A i \in 1..1 : <<old[1]>>[i] = SubSeq(old, 1, 1)[i]
    BY <2>2, <2>3
  <2>5. <<old[1]>> = SubSeq(old, 1, 1)
    BY <2>2, <2>3, <2>4, SeqEqual
  <2> QED
    BY <2>1, <2>5
<1>5. micro' = <<StartOf(t, "drain", SubSeq(old, 1, 1))>> \o <<>>
  <2>1. StartOf(t, "drain", SubSeq(old, 1, 1)) \in Task
    <3>1. Head(old) \in Msg
      BY <1>1, HeadTailProperties
    <3> QED
      BY <1>4, <3>1, OneMessage DEF Task, Source
  <2> QED
    <3> DEFINE in == StartOf(t, "drain", SubSeq(old, 1, 1))
    <3>1. micro' = <<in>>
      BY <1>2, <1>4
    <3> HIDE DEF in
    <3>2. <<in>> \in Seq(Task)
      BY <2>1 DEF in
    <3>3. <<in>> \o <<>> = <<in>>
      BY <3>2, ConcatEmptySeq
    <3> QED
      BY <3>1, <3>3 DEF in
<1>6. \A u \in Threads, l \in launches : Holds(l, u)' => Holds(l, u)
  BY <1>2 DEF Holds, Owns
<1>7. t \notin Running'
  BY <1>2 DEF Running
<1>8. 1 \in 1..Len(typeAhead[t])
  BY <1>1 DEF old
<1> QED
  BY <1>2, <1>3, <1>5, <1>6, <1>7, <1>8, DrainMoves DEF old

\* The invariant is inductive.
LEMMA MessageStep ==
    ASSUME TypeOK, TypeOK', QueueInv, MessageInv, [Next]_vars
    PROVE  MessageInv'
<1>1. CASE RunStart
  <2>1. ~Idle /\ Head(micro).op = "start"
    BY <1>1 DEF RunStart
  <2>2. CASE \E worktree \in BOOLEAN : StartRefused(Head(micro), worktree)
    <3>1. CASE Head(micro).from = "drain"
      BY <2>1, <2>2, <3>1, RefusedMoves
    <3>2. CASE Head(micro).from # "drain"
      BY <2>1, <2>2, <3>2, HeadIsQuiet, QuietKeepsMessages
    <3> QED
      BY <3>1, <3>2
  <2>3. CASE StartQueued(Head(micro))
    BY <2>1, <2>3, QueuedMoves
  <2>4. CASE StartAccepted(Head(micro))
    BY <2>1, <2>4, AcceptedMoves
  <2>5. ~StartWaitsForPath(Head(micro))
    BY DEF StartWaitsForPath, QueueInv, PathKnown
  <2> QED
    BY <1>1, <2>2, <2>3, <2>4, <2>5 DEF RunStart
<1>2. CASE AdmitQueuedRuns
  <2>1. ~Idle /\ Head(micro).op = "admit" /\ (AdmitNext \/ AdmitEnds)
    BY <1>2 DEF AdmitQueuedRuns
  <2>2. CASE AdmitNext
    BY <2>1, <2>2, AdmitMoves
  <2>3. CASE AdmitEnds
    BY <2>1, <2>3, HeadIsQuiet, QuietKeepsMessages
  <2> QED
    BY <2>1, <2>2, <2>3
<1>3. CASE LaunchSettles
  <2>1. PICK l \in launches : LaunchCancelled(l) \/ LaunchSpawns(l) \/ LaunchThrows(l)
    BY <1>3 DEF LaunchSettles
  <2>2. CASE LaunchThrows(l) /\ l.from = "drain"
    BY <2>2, ThrowMoves
  <2>3. CASE ~(LaunchThrows(l) /\ l.from = "drain")
    BY <2>1, <2>3, LaunchIsQuiet, QuietKeepsMessages
  <2> QED
    BY <2>2, <2>3
<1>4. CASE AgentEnds
  BY <1>4, AgentIsQuiet, QuietKeepsMessages
<1>5. CASE TurnCommits
  <2>1. PICK c \in checkpoints : CheckpointSettles(c)
    BY <1>5 DEF TurnCommits
  <2>2. PICK held \in BOOLEAN : Drain(c.t, held \/ status[c.t] = "working", <<>>)
    BY <2>1 DEF CheckpointSettles
  <2>3. PICK hold \in BOOLEAN : hold = (held \/ status[c.t] = "working")
    OBVIOUS
  <2>4. /\ Idle /\ c.t \in Threads /\ Drain(c.t, hold, <<>>)
        /\ UNCHANGED <<active, runQueue, launches, nmsg, recorded, dropped, bounced>>
    BY <2>1, <2>2, <2>3 DEF CheckpointSettles, histVars, TypeOK, Pending
  <2>5. ~hold => c.t \notin Running'
    <3>1. c.t \in Running => status[c.t] = "working"
      BY DEF QueueInv, RunningIsWorking
    <3> QED
      BY <2>3, <2>4, <3>1 DEF Running
  <2>6. \A u \in Threads, l \in launches : Holds(l, u)' => Holds(l, u)
    BY <2>4 DEF Holds, Owns
  <2> QED
    BY <2>4, <2>5, <2>6, DrainStep
<1>6. CASE VerifyEnds
  <2>1. PICK v \in verifies :
          VerifyStale(v) \/ VerifyPasses(v) \/ VerifyHandsBack(v) \/ VerifyFails(v)
    BY <1>6 DEF VerifyEnds
  <2>2. CASE VerifyPasses(v)
    <3>1. PICK held \in BOOLEAN : Drain(v.t, held, <<Admit>>)
      BY <2>2 DEF VerifyPasses
    <3>2. /\ Idle /\ v.t \in Threads
          /\ active' = [active EXCEPT ![v.t] = NoRun]
          /\ UNCHANGED <<runQueue, launches, nmsg, recorded, dropped, bounced>>
      BY <2>2 DEF VerifyPasses, histVars, TypeOK, Pending
    <3>3. v.t \notin Running'
      BY <3>2, EntryGoes
    <3>4. \A u \in Threads, l \in launches : Holds(l, u)' => Holds(l, u)
      BY <3>2, NoNewOwner
    <3> QED
      BY <3>1, <3>2, <3>3, <3>4, DrainStep
  <2>3. CASE VerifyStale(v) \/ VerifyHandsBack(v) \/ VerifyFails(v)
    BY <2>3, StopIsQuiet, QuietKeepsMessages
  <2> QED
    BY <2>1, <2>2, <2>3
<1>7. CASE UserActs
  <2>1. PICK t \in Threads :
          \/ UserSends(t) \/ UserTypesAhead(t) \/ UserSendsQueued(t)
          \/ StopWaiting(t) \/ StopRunning(t)
    BY <1>7 DEF UserActs
  <2>2. CASE StopWaiting(t) \/ StopRunning(t)
    BY <2>2, StopIsQuiet, QuietKeepsMessages
  <2> QED
    BY <2>1, <2>2, SendMoves, TypeAheadMoves, SendQueuedMoves
<1>8. CASE PathSettles
  BY <1>8 DEF PathSettles, QueueInv, PathKnown
<1>9. CASE Quit \/ Reboot
  BY <1>9, StopIsQuiet, QuietKeepsMessages
<1>10. CASE UNCHANGED vars
  <2>1. UNCHANGED <<active, runQueue, typeAhead, launches, micro, nmsg, recorded, dropped, bounced>>
    BY <1>10 DEF vars, runVars, queueVars, histVars
  <2>2. \A k, t : At(k, t)' = At(k, t)
    BY <2>1 DEF At, Starts, Holds, Owns, Elems
  <2>3. HandInv' /\ PlaceInv' /\ DistinctInv'
    BY <2>1, <2>2 DEF MessageInv, HandInv, NoHand, PlaceInv, DistinctInv, Distinct, Starts
  <2>4. OrderInv'
    BY <2>1 DEF MessageInv, OrderInv, InOrder, Before, Holds, Owns, Starts, Running
  <2>5. SeenInv'
    BY <2>1, <2>2, TakenSame DEF MessageInv, SeenInv, Accounted, Starts, Elems
  <2> QED
    BY <2>3, <2>4, <2>5 DEF MessageInv
<1> QED
  BY <1>1, <1>2, <1>3, <1>4, <1>5, <1>6, <1>7, <1>8, <1>9, <1>10 DEF Next

\* At the first start nothing is written.
LEMMA MessageStarts ==
    ASSUME Init
    PROVE  MessageInv
<1>1. /\ micro = <<Admit>> /\ runQueue = <<>> /\ launches = {} /\ nmsg = 0
      /\ \A t \in Threads : typeAhead[t] = <<>>
  BY DEF Init
<1>2. ~Starts /\ HandInv
  <2>1. Head(<<Admit>>) = Admit /\ DOMAIN Tail(<<Admit>>) = {}
    OBVIOUS
  <2> QED
    BY <1>1, <2>1 DEF Starts, HandInv, NoHand, Admit
<1>3. \A k \in Kind, t \in Threads : At(k, t) = {}
  BY <1>1, <1>2, ShortLists DEF At
<1>4. PlaceInv
  BY <1>3 DEF PlaceInv
<1>5. DistinctInv /\ OrderInv
  BY <1>1, <1>2, ShortLists DEF DistinctInv, OrderInv
<1>6. SeenInv
  BY <1>1, <1>2, <1>3 DEF SeenInv, Kind
<1> QED
  BY <1>2, <1>4, <1>5, <1>6 DEF MessageInv

\* The invariant of the messages.
THEOREM MessageInvariant ==
    ASSUME PathCaptured
    PROVE  Spec => []MessageInv
<1>1. Init => MessageInv
  BY MessageStarts
<1>2. TypeOK /\ TypeOK' /\ QueueInv /\ MessageInv /\ [Next]_vars => MessageInv'
  BY MessageStep
<1> QED
  BY <1>1, <1>2, TypeCorrect, QueueInvariant, PTL DEF Spec

\* A failed start never reorders the follow-ups (#1501): whatever drainQueued
\* took, whatever was refused or thrown and put back, the follow-ups of a
\* thread wait in the order in which they were written.
THEOREM OrderKept ==
    ASSUME PathCaptured
    PROVE  Spec => []FollowUpsInOrder
<1>1. MessageInv => FollowUpsInOrder
  BY DEF MessageInv, OrderInv, InOrder, FollowUpsInOrder
<1> QED
  BY <1>1, MessageInvariant, PTL

-----------------------------------------------------------------------------
(* Once in one queue.                                                      *)

\* A queue that holds a message is the one place where it is.
LEMMA HeldPlace ==
    ASSUME TypeOK, QueueInv, MessageInv, NEW h \in Held, NEW m \in Msg, m \in Elems(h[3])
    PROVE  /\ Distinct(h[3])
           /\ \/ \E t \in Threads : h = <<"typed", t, typeAhead[t]>> /\ m \in At("typed", t)
              \/ \E i \in DOMAIN runQueue :
                   /\ h = <<"waiting", i, runQueue[i].msgs>>
                   /\ runQueue[i].t \in Threads /\ m \in At("queued", runQueue[i].t)
              \/ /\ h = <<"starting", 1, micro[1].msgs>>
                 /\ \E t \in Threads : m \in At("starting", t)
<1>1. CASE h \in {<<"typed", t, typeAhead[t]>> : t \in Threads}
  <2>1. PICK t \in Threads : h = <<"typed", t, typeAhead[t]>>
    BY <1>1
  <2>2. m \in At("typed", t)
    BY <2>1, AtKinds
  <2>3. Distinct(h[3])
    BY <2>1, OrderIsDistinct DEF TypeOK, MessageInv, OrderInv
  <2> QED
    BY <2>1, <2>2, <2>3
<1>2. CASE h \in {<<"waiting", i, runQueue[i].msgs>> : i \in DOMAIN runQueue}
  <2>1. PICK i \in DOMAIN runQueue : h = <<"waiting", i, runQueue[i].msgs>>
    BY <1>2
  <2>2. m \in At("queued", runQueue[i].t)
    BY <2>1, AtKinds
  <2>3. Distinct(h[3]) /\ runQueue[i].t \in Threads
    BY <2>1, PlaceTypes DEF MessageInv, DistinctInv
  <2> QED
    BY <2>1, <2>2, <2>3
<1>3. CASE h \in {<<"starting", i, micro[i].msgs>> : i \in {j \in DOMAIN micro : micro[j].op = "start"}}
  <2>1. PICK i \in DOMAIN micro : micro[i].op = "start" /\ h = <<"starting", i, micro[i].msgs>>
    BY <1>3
  <2>2. micro # <<>> /\ ~Idle
    BY <2>1 DEF Idle
  <2>3. /\ Head(micro) = micro[1] /\ Len(micro) \in Nat /\ DOMAIN micro = 1..Len(micro)
        /\ DOMAIN Tail(micro) = 1..(Len(micro) - 1)
        /\ \A j \in DOMAIN Tail(micro) : Tail(micro)[j] = micro[j + 1]
    BY <2>2, AfterHead
  <2>4. i = 1
    <3> SUFFICES ASSUME i # 1
                 PROVE  FALSE
      OBVIOUS
    <3>1. i - 1 \in DOMAIN Tail(micro) /\ (i - 1) + 1 = i
      BY <2>1, <2>3
    <3>2. Tail(micro)[i - 1] = micro[i]
      BY <2>3, <3>1
    <3>3. micro[i].msgs = <<>>
      BY <2>1, <2>2, <3>1, <3>2 DEF MessageInv, HandInv, NoHand
    <3> QED
      BY <2>1, <3>3, ShortLists
  <2>5. Starts /\ Head(micro).t \in Threads
    BY <2>1, <2>2, <2>3, <2>4, PlaceTypes DEF Starts
  <2>6. m \in At("starting", Head(micro).t) /\ Distinct(h[3])
    BY <2>1, <2>3, <2>4, <2>5, AtKinds DEF MessageInv, DistinctInv
  <2> QED
    BY <2>1, <2>4, <2>5, <2>6
<1>4. h \notin {<<"path", i, pathWait[i].msgs>> : i \in DOMAIN pathWait}
  <2>1. DOMAIN pathWait = {}
    BY DEF QueueInv, PathKnown
  <2> QED
    BY <2>1
<1> QED
  BY <1>1, <1>2, <1>3, <1>4 DEF Held

\* A set whose elements are all the same has at most one.
LEMMA AtMostOne ==
    ASSUME NEW S, \A x, y \in S : x = y
    PROVE  Cardinality(S) <= 1
<1>1. CASE S = {}
  BY <1>1, FS_EmptySet
<1>2. CASE S # {}
  <2>1. PICK x \in S : TRUE
    BY <1>2
  <2>2. S = {x}
    BY <2>1
  <2> QED
    BY <2>2, FS_Singleton
<1> QED
  BY <1>1, <1>2

\* Two queues that hold the same message are the same.
LEMMA HeldOnce ==
    ASSUME TypeOK, QueueInv, MessageInv, NEW m \in Msg,
           NEW h \in Held, NEW g \in Held, m \in Elems(h[3]), m \in Elems(g[3])
    PROVE  h = g
<1>1. \/ \E t \in Threads : h = <<"typed", t, typeAhead[t]>> /\ m \in At("typed", t)
      \/ \E i \in DOMAIN runQueue :
           /\ h = <<"waiting", i, runQueue[i].msgs>>
           /\ runQueue[i].t \in Threads /\ m \in At("queued", runQueue[i].t)
      \/ /\ h = <<"starting", 1, micro[1].msgs>>
         /\ \E t \in Threads : m \in At("starting", t)
  BY HeldPlace
<1>2. \/ \E t \in Threads : g = <<"typed", t, typeAhead[t]>> /\ m \in At("typed", t)
      \/ \E i \in DOMAIN runQueue :
           /\ g = <<"waiting", i, runQueue[i].msgs>>
           /\ runQueue[i].t \in Threads /\ m \in At("queued", runQueue[i].t)
      \/ /\ g = <<"starting", 1, micro[1].msgs>>
         /\ \E t \in Threads : m \in At("starting", t)
  BY HeldPlace
<1>3. \A k, l \in Kind, t, u \in Threads : m \in At(k, t) /\ m \in At(l, u) => k = l /\ t = u
  BY DEF MessageInv, PlaceInv
<1>4. \A i, j \in DOMAIN runQueue : runQueue[i].t = runQueue[j].t => i = j
  BY DEF QueueInv, QueueOnce
<1>5. "typed" \in Kind /\ "queued" \in Kind /\ "starting" \in Kind
  BY DEF Kind
<1>6. CASE \E t \in Threads : h = <<"typed", t, typeAhead[t]>> /\ m \in At("typed", t)
  BY <1>2, <1>3, <1>5, <1>6
<1>7. CASE \E i \in DOMAIN runQueue :
             /\ h = <<"waiting", i, runQueue[i].msgs>>
             /\ runQueue[i].t \in Threads /\ m \in At("queued", runQueue[i].t)
  BY <1>2, <1>3, <1>4, <1>5, <1>7
<1>8. CASE /\ h = <<"starting", 1, micro[1].msgs>>
           /\ \E t \in Threads : m \in At("starting", t)
  BY <1>2, <1>3, <1>5, <1>8
<1> QED
  BY <1>1, <1>6, <1>7, <1>8

\* No message is lost between the composer and the agent, and none is queued
\* twice: each is in a transcript or reached an agent, was refused to the
\* user's face, launches, or sits once in one queue, through every drain,
\* refusal, admission, launch that throws, stop, quit and crash; only what was
\* folded into an accepted turn that reached no agent is gone.
THEOREM NothingLost ==
    ASSUME PathCaptured
    PROVE  Spec => []MessagesKept
<1>1. TypeOK /\ QueueInv /\ MessageInv => MessagesKept
  <2> SUFFICES ASSUME TypeOK, QueueInv, MessageInv, NEW m \in 1..nmsg
               PROVE  /\ \/ m \in recorded \cup bounced \cup dropped
                         \/ \E h \in Held : m \in Elems(h[3])
                         \/ \E l \in launches : m \in Elems(l.msgs)
                      /\ Cardinality({x \in {<<h, k>> : h \in Held, k \in 1..nmsg} :
                                        x[2] \in DOMAIN x[1][3] /\ x[1][3][x[2]] = m}) <= 1
    BY DEF MessagesKept
  <2>1. m \in Msg
    BY PlaceTypes, BoundsAssumption DEF Msg
  <2>2. m \in Taken \/ \E h \in Held : m \in Elems(h[3])
    <3>1. ASSUME NEW t \in Threads, m \in At("typed", t)
          PROVE  \E h \in Held : m \in Elems(h[3])
      <4>1. <<"typed", t, typeAhead[t]>> \in Held
        BY DEF Held
      <4>2. m \in Elems(typeAhead[t])
        BY <2>1, <3>1, AtKinds
      <4> QED
        BY <4>1, <4>2
    <3>2. ASSUME NEW t \in Threads, m \in At("starting", t)
          PROVE  \E h \in Held : m \in Elems(h[3])
      <4>1. Starts /\ m \in Elems(Head(micro).msgs)
        BY <2>1, <3>2, AtKinds
      <4>2. Head(micro) = micro[1] /\ 1 \in DOMAIN micro
        BY <4>1, AfterHead DEF Starts, Idle
      <4>3. <<"starting", 1, micro[1].msgs>> \in Held
        BY <4>1, <4>2 DEF Held, Starts
      <4> QED
        BY <4>1, <4>2, <4>3
    <3> QED
      BY <3>1, <3>2 DEF MessageInv, SeenInv, Accounted
  <2>3. ASSUME NEW h \in Held, NEW g \in Held, NEW i, NEW j,
               i \in DOMAIN h[3], h[3][i] = m, j \in DOMAIN g[3], g[3][j] = m
        PROVE  h = g /\ i = j
    <3>1. m \in Elems(h[3]) /\ m \in Elems(g[3])
      BY <2>3 DEF Elems
    <3>2. h = g
      BY <2>1, <3>1, HeldOnce
    <3>3. Distinct(h[3])
      BY <2>1, <3>1, HeldPlace
    <3> QED
      BY <2>3, <3>2, <3>3 DEF Distinct
  <2> DEFINE S == {x \in {<<h, k>> : h \in Held, k \in 1..nmsg} :
                     x[2] \in DOMAIN x[1][3] /\ x[1][3][x[2]] = m}
  <2>4. \A x, y \in S : x = y
    <3> SUFFICES ASSUME NEW h \in Held, NEW i \in 1..nmsg, NEW g \in Held, NEW j \in 1..nmsg,
                        i \in DOMAIN h[3], h[3][i] = m, j \in DOMAIN g[3], g[3][j] = m
                 PROVE  <<h, i>> = <<g, j>>
      OBVIOUS
    <3> QED
      BY <2>3
  <2> HIDE DEF S
  <2>5. Cardinality(S) <= 1
    BY <2>4, AtMostOne
  <2> QED
    BY <2>2, <2>5 DEF S, Taken
<1> QED
  BY <1>1, TypeCorrect, QueueInvariant, MessageInvariant, PTL

=============================================================================
