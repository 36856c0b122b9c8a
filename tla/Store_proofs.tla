---------------------------- MODULE Store_proofs ----------------------------
(***************************************************************************)
(* Proofs about the store, for every set of threads and all bounds.        *)
(* First what each operation does to the fields of the state, and types;   *)
(* then the inductive invariant, thread by thread and for the envelope;    *)
(* then that every operation keeps it, and what follows from it.           *)
(***************************************************************************)
EXTENDS Store, FiniteSetTheorems, TLAPS

-----------------------------------------------------------------------------
(* Types, and what the operations do field by field.                       *)

\* No version is newer than the number of appends allows.
Bounded(t) ==
    /\ hydrated[t] <= 1 + appends /\ disk.file[t] <= 1 + appends
    /\ flush.writes[t] <= 1 + appends /\ latest[t] <= 1 + appends

TypeInv == TypeOK /\ \A t \in Threads : Bounded(t)

MarksType == [dirtyIds: SUBSET Threads, deletedIds: SUBSET Threads,
              dirty: BOOLEAN, envelope: BOOLEAN]

\* No flush is a flush that does nothing.
LEMMA NoFlushType ==
    NoFlush \in [on: BOOLEAN, stale: BOOLEAN, writes: [Threads -> Version],
                 deleted: SUBSET Threads, env: Envelope \cup {NoEnvelope}]
BY BoundsAssumption DEF NoFlush, Version

\* A snapshot without an envelope is not mistaken for one with.
LEMMA NoEnvelopeIsNone == NoEnvelope \notin Envelope
BY BoundsAssumption DEF NoEnvelope, Envelope

\* A shard that is marked is written with a version.
LEMMA ContentType ==
    ASSUME TypeOK, NEW t \in Threads
    PROVE  /\ Content(t) \in Version
           /\ hydrated[t] # 0 => Content(t) = hydrated[t]
           /\ t \notin Logs => Content(t) = hydrated[t]
           /\ Content(t) \in {hydrated[t], 1}
BY BoundsAssumption DEF Content, TypeOK, Version

\* What a saveNow takes over from a flush under way, thread by thread.
LEMMA ReplayedFields ==
    ASSUME TypeOK
    PROVE  /\ Replayed \in MarksType
           /\ Replayed.dirty = marks.dirty /\ Replayed.envelope = marks.envelope
           /\ \A t \in Threads :
                /\ t \in Replayed.deletedIds <=>
                     \/ t \in marks.deletedIds
                     \/ flush.on /\ t \in flush.deleted /\ t \notin marks.dirtyIds
                /\ t \in Replayed.dirtyIds <=>
                     \/ t \in marks.dirtyIds
                     \/ t \in InFlight /\ t \notin Replayed.deletedIds
<1> DEFINE deletes == IF flush.on THEN flush.deleted \ marks.dirtyIds ELSE {}
           deleted == marks.deletedIds \cup deletes
           writes == InFlight \ deleted
<1>1. Replayed = [marks EXCEPT !.dirtyIds = (@ \ deletes) \cup writes, !.deletedIds = deleted]
  BY DEF Replayed
<1>2. /\ marks \in MarksType
      /\ InFlight \subseteq Threads /\ deletes \subseteq Threads
      /\ \A t \in deletes : t \notin marks.dirtyIds
  BY DEF TypeOK, MarksType, InFlight
<1>3. \A t : t \in deletes <=> flush.on /\ t \in flush.deleted /\ t \notin marks.dirtyIds
  OBVIOUS
<1> HIDE DEF deletes
<1>4. Replayed = [dirtyIds |-> (marks.dirtyIds \ deletes) \cup writes, deletedIds |-> deleted,
                  dirty |-> marks.dirty, envelope |-> marks.envelope]
  BY <1>1, <1>2 DEF MarksType
<1> QED
  BY <1>2, <1>3, <1>4 DEF MarksType

\* The files that a saveNow leaves.
LEMMA AllWrittenFields ==
    ASSUME TypeOK
    PROVE  /\ AllWritten \in Files
           /\ AllWritten.rows = mem.rows /\ AllWritten.meta = mem.meta
           /\ \A t \in Threads :
                /\ t \in NonEmpty(Writes(Replayed)) <=>
                     /\ t \in Replayed.dirtyIds /\ t \notin Replayed.deletedIds
                     /\ Content(t) # 0
                /\ AllWritten.file[t] =
                     IF t \in NonEmpty(Writes(Replayed)) THEN Content(t)
                     ELSE IF t \in Replayed.deletedIds THEN 0 ELSE disk.file[t]
<1> DEFINE r == Replayed
<1> HIDE DEF r
<1>1. \A t \in Threads : /\ Writes(r)[t] = IF t \in r.dirtyIds \ r.deletedIds THEN Content(t) ELSE 0
                         /\ Writes(r)[t] \in Version
  BY ContentType, BoundsAssumption DEF Writes, Version
<1>2. \A t \in Threads : t \in NonEmpty(Writes(r)) <=> /\ t \in r.dirtyIds /\ t \notin r.deletedIds
                                                      /\ Content(t) # 0
  BY <1>1 DEF NonEmpty
<1>3. \A t \in Threads : Written(Unlinked(disk.file, r.deletedIds), Writes(r), NonEmpty(Writes(r)))[t] =
                     IF t \in NonEmpty(Writes(r)) THEN Content(t)
                     ELSE IF t \in r.deletedIds THEN 0 ELSE disk.file[t]
  BY <1>1, <1>2 DEF Written, Unlinked
<1>4. Written(Unlinked(disk.file, r.deletedIds), Writes(r), NonEmpty(Writes(r))) \in [Threads -> Version]
  BY <1>1, BoundsAssumption DEF Written, Unlinked, TypeOK, Files, Version
<1> QED
  BY <1>2, <1>3, <1>4 DEF r, AllWritten, Files, TypeOK, Envelope

\* The marks that a saveNow leaves.
LEMMA AfterSaveNowFields ==
    ASSUME NEW m \in MarksType
    PROVE  /\ AfterSaveNow(m) \in MarksType
           /\ AfterSaveNow(m).dirtyIds = m.dirtyIds
           /\ AfterSaveNow(m).deletedIds = m.deletedIds
           /\ m.dirtyIds \cup m.deletedIds # {} => AfterSaveNow(m).dirty /\ AfterSaveNow(m).envelope
           /\ m.dirtyIds \cup m.deletedIds = {} =>
                AfterSaveNow(m).dirty = FALSE /\ AfterSaveNow(m).envelope = m.envelope
BY DEF AfterSaveNow, Marked, MarksType

\* A saveNow makes the flush under way stale and leaves it otherwise alone.
LEMMA StaledFields ==
    ASSUME TypeOK, NEW t \in Threads, flush' = [flush EXCEPT !.stale = @ \/ flush.on]
    PROVE  /\ flush'.on <=> flush.on
           /\ flush'.stale <=> flush.stale \/ flush.on
           /\ flush'.writes = flush.writes /\ flush'.deleted = flush.deleted
           /\ flush'.env = flush.env
           /\ t \in InFlight' <=> t \in InFlight
<1>1. /\ flush'.on = flush.on /\ flush'.stale = (flush.stale \/ flush.on)
      /\ flush'.writes = flush.writes /\ flush'.deleted = flush.deleted
      /\ flush'.env = flush.env
  BY DEF TypeOK
<1> QED
  BY <1>1 DEF InFlight

\* saveNow leaves a mark only where memory had nothing to write.
LEMMA SaveNowEffect ==
    ASSUME TypeOK, SaveNow
    PROVE  /\ marks' \in MarksType
           /\ marks'.deletedIds = {}
           /\ \A t \in Threads : t \in marks'.dirtyIds <=>
                t \in Replayed.dirtyIds /\ t \notin NonEmpty(Writes(Replayed))
           /\ ShardsDirty' \/ marks'.envelope => marks'.dirty
           /\ flush' = [on |-> flush.on, stale |-> flush.stale \/ flush.on, writes |-> flush.writes,
                        deleted |-> flush.deleted, env |-> flush.env]
<1> DEFINE m == [dirtyIds |-> Replayed.dirtyIds \ NonEmpty(Writes(Replayed)), deletedIds |-> {},
                 dirty |-> marks.dirty, envelope |-> FALSE]
<1>1. m \in MarksType
  BY ReplayedFields DEF TypeOK, MarksType
<1>2. marks' = AfterSaveNow(m)
  BY DEF SaveNow
<1>3. /\ m.deletedIds = {} /\ m.envelope = FALSE
      /\ m.dirtyIds = Replayed.dirtyIds \ NonEmpty(Writes(Replayed))
  OBVIOUS
<1> HIDE DEF m
<1>4. flush' = [on |-> flush.on, stale |-> flush.stale \/ flush.on, writes |-> flush.writes,
                deleted |-> flush.deleted, env |-> flush.env]
  BY DEF SaveNow, TypeOK
<1> QED
  BY <1>1, <1>2, <1>3, <1>4, AfterSaveNowFields DEF ShardsDirty

\* saveNow keeps the types; so do the other operations, below.
LEMMA TypeSaveNow == TypeInv /\ SaveNow => TypeInv'
<1> SUFFICES ASSUME TypeInv, SaveNow PROVE TypeInv'
  OBVIOUS
<1>1. TypeOK
  BY DEF TypeInv
<1>2. TypeOK'
  BY <1>1, SaveNowEffect, AllWrittenFields, ReplayedFields
     DEF SaveNow, TypeOK, MarksType, NonEmpty, InFlight, ShardsReplayed, countVars,
         Promise, Promises, StillFresh
<1>3. (\A t \in Threads : Bounded(t))'
  BY <1>1, SaveNowEffect, AllWrittenFields, ContentType, BoundsAssumption
     DEF TypeInv, Bounded, SaveNow, TypeOK, Files, Version, countVars
<1> QED
  BY <1>2, <1>3 DEF TypeInv

\* A saveNow that fails: gone is what it unlinked, some what it wrote.
LEMMA SaveNowFailsEffect ==
    ASSUME TypeOK, SaveNowFails
    PROVE  \E gone \in SUBSET Replayed.deletedIds, some \in SUBSET NonEmpty(Writes(Replayed)) :
             /\ marks' = [dirtyIds |-> Replayed.dirtyIds \ some,
                          deletedIds |-> Replayed.deletedIds \ gone,
                          dirty |-> TRUE, envelope |-> TRUE]
             /\ marks' \in MarksType
             /\ shards' = ShardsReplayed \cup some
             /\ disk'.rows = disk.rows /\ disk'.meta = disk.meta /\ disk' \in Files
             /\ \A t \in Threads : disk'.file[t] = IF t \in some THEN Content(t)
                                                   ELSE IF t \in gone THEN 0 ELSE disk.file[t]
             /\ flush' = [on |-> flush.on, stale |-> flush.stale \/ flush.on,
                          writes |-> flush.writes, deleted |-> flush.deleted, env |-> flush.env]
<1>1. PICK gone \in SUBSET Replayed.deletedIds, some \in SUBSET NonEmpty(Writes(Replayed)) :
        /\ disk' = [disk EXCEPT !.file = Written(Unlinked(@, gone), Writes(Replayed), some)]
        /\ marks' = Marked([Replayed EXCEPT !.dirtyIds = @ \ some, !.deletedIds = @ \ gone])
        /\ shards' = ShardsReplayed \cup some
  BY Zenon DEF SaveNowFails
<1>2. /\ marks' = [dirtyIds |-> Replayed.dirtyIds \ some, deletedIds |-> Replayed.deletedIds \ gone,
                   dirty |-> TRUE, envelope |-> TRUE]
      /\ marks' \in MarksType
  BY <1>1, ReplayedFields DEF Marked, MarksType
<1>3. \A t \in Threads : t \in some => Writes(Replayed)[t] = Content(t)
  BY AllWrittenFields DEF Writes
<1> DEFINE file == [t \in Threads |-> IF t \in some THEN Content(t)
                                      ELSE IF t \in gone THEN 0 ELSE disk.file[t]]
<1>4. file = Written(Unlinked(disk.file, gone), Writes(Replayed), some)
  BY <1>3 DEF Written, Unlinked
<1>5. file \in [Threads -> Version]
  BY ContentType, BoundsAssumption DEF TypeOK, Files, Version
<1>6. disk' = [rows |-> disk.rows, meta |-> disk.meta, file |-> file]
  BY <1>1, <1>4 DEF TypeOK, Files
<1>7. /\ disk'.rows = disk.rows /\ disk'.meta = disk.meta /\ disk' \in Files
      /\ \A t \in Threads : disk'.file[t] = IF t \in some THEN Content(t)
                                            ELSE IF t \in gone THEN 0 ELSE disk.file[t]
  BY <1>5, <1>6 DEF TypeOK, Files
<1>8. flush' = [on |-> flush.on, stale |-> flush.stale \/ flush.on, writes |-> flush.writes,
                deleted |-> flush.deleted, env |-> flush.env]
  BY DEF SaveNowFails, TypeOK
<1> QED
  BY <1>1, <1>2, <1>7, <1>8

\* The files after a flush that failed: some of them are written.
SomeLanded(some) ==
    /\ disk'.rows = disk.rows /\ disk'.meta = disk.meta /\ disk' \in Files
    /\ shards' = shards \cup some
    /\ \A t \in Threads :
         \/ t \in some /\ disk'.file[t] = flush.writes[t]
         \/ t \notin some /\ t \in flush.deleted /\ disk'.file[t] = 0
         \/ t \notin some /\ disk'.file[t] = disk.file[t]

\* A flush that fails marks all of its snapshot again.
LEMMA FlushFailsEffect ==
    ASSUME TypeOK, FlushFails
    PROVE  /\ flush.on /\ ~flush.stale /\ flush' = NoFlush
           /\ fails' \in 0..MaxFails
           /\ marks' \in MarksType
           /\ marks'.dirtyIds = marks.dirtyIds \cup InFlight
           /\ marks'.deletedIds = marks.deletedIds \cup flush.deleted
           /\ marks'.dirty
           /\ marks'.envelope <=> marks.envelope \/ flush.env # NoEnvelope
           /\ timer' \in BOOLEAN
           /\ UNCHANGED <<window, mem, hydrated, ageVars, historyVars, appends, restarts>>
           /\ \E some \in SUBSET InFlight : SomeLanded(some)
<1>1. /\ flush.on /\ ~flush.stale /\ flush' = NoFlush
      /\ fails' = fails + 1 /\ fails < MaxFails
      /\ timer' = (timer \/ TRUE)
      /\ UNCHANGED <<window, mem, hydrated, ageVars, historyVars, appends, restarts>>
  BY DEF FlushFails, FlushOver
<1>2. /\ fails' \in 0..MaxFails /\ timer' \in BOOLEAN
  BY <1>1, BoundsAssumption DEF TypeOK
<1>3. /\ marks' = [dirtyIds |-> marks.dirtyIds \cup InFlight,
                   deletedIds |-> marks.deletedIds \cup flush.deleted,
                   dirty |-> TRUE, envelope |-> marks.envelope \/ flush.env # NoEnvelope]
  BY DEF FlushFails, FlushOver
<1>4. /\ marks' \in MarksType
      /\ marks'.dirtyIds = marks.dirtyIds \cup InFlight
      /\ marks'.deletedIds = marks.deletedIds \cup flush.deleted
      /\ marks'.dirty
      /\ marks'.envelope <=> marks.envelope \/ flush.env # NoEnvelope
  BY <1>3 DEF MarksType, TypeOK, InFlight
<1>5. CASE UNCHANGED <<disk, shards>>
  <2>1. SomeLanded({})
    BY <1>5 DEF SomeLanded, TypeOK
  <2> QED
    BY <1>1, <1>2, <1>4, <2>1
<1>6. CASE \E some \in SUBSET InFlight :
             /\ disk' = [disk EXCEPT
                   !.file = Written(Unlinked(@, flush.deleted), flush.writes, some)]
             /\ shards' = shards \cup some
  <2>1. PICK some \in SUBSET InFlight :
             /\ disk' = [disk EXCEPT
                   !.file = Written(Unlinked(@, flush.deleted), flush.writes, some)]
             /\ shards' = shards \cup some
    BY <1>6
  <2> DEFINE file == Written(Unlinked(disk.file, flush.deleted), flush.writes, some)
  <2>2. /\ file \in [Threads -> Version]
        /\ \A t \in Threads : file[t] = IF t \in some THEN flush.writes[t]
                                        ELSE IF t \in flush.deleted THEN 0 ELSE disk.file[t]
    BY BoundsAssumption DEF Written, Unlinked, TypeOK, Files, Version
  <2>3. disk' = [rows |-> disk.rows, meta |-> disk.meta, file |-> file]
    BY <2>1 DEF TypeOK, Files
  <2> HIDE DEF file
  <2>4. SomeLanded(some)
    BY <2>1, <2>2, <2>3 DEF SomeLanded, TypeOK, Files
  <2> QED
    BY <1>1, <1>2, <1>4, <2>4
<1> QED
  BY <1>5, <1>6 DEF FlushFails

\* What a boot finds after an exit or a crash.
Left(d) ==
    /\ d.rows = disk.rows /\ d.meta = disk.meta
    /\ \A t \in Threads :
         \/ d.file[t] = disk.file[t]
         \/ flush.on /\ ~flush.stale /\ t \in flush.deleted /\ d.file[t] = 0
         \/ flush.on /\ ~flush.stale /\ t \in InFlight /\ d.file[t] = flush.writes[t]

\* The exit hook leaves what saveNow would, or the files as they are.
LEMMA ExitEffect ==
    ASSUME TypeOK, Exit
    PROVE  \E d \in Files :
             /\ Load(d)
             /\ \/ d = AllWritten /\ promised' = Promise /\ fresh' = StillFresh
                \/ d = disk /\ promised' = promised /\ fresh' = fresh
<1>1. CASE marks.dirty = TRUE
  <2>1. Load(AllWritten) /\ promised' = Promise /\ fresh' = StillFresh
    BY <1>1 DEF Exit
  <2> QED
    BY <2>1, AllWrittenFields
<1>2. CASE marks.dirty = FALSE
  <2>1. Load(disk) /\ promised' = promised /\ fresh' = fresh
    BY <1>2 DEF Exit
  <2> QED
    BY <2>1 DEF TypeOK
<1> QED
  BY <1>1, <1>2 DEF TypeOK

\* A crash leaves the files, with a part of the live flush carried out.
LEMMA CrashEffect ==
    ASSUME TypeOK, Crash
    PROVE  /\ promised' = promised /\ fresh' = fresh
           /\ \E d \in Files : Load(d) /\ Left(d)
<1>1. promised' = promised /\ fresh' = fresh
  BY DEF Crash
<1>2. CASE Load(disk)
  BY <1>1, <1>2 DEF Left, TypeOK
<1>3. CASE \E gone \in SUBSET flush.deleted :
             flush.on /\ ~flush.stale /\ Load([disk EXCEPT !.file = Unlinked(@, gone)])
  <2>1. PICK gone \in SUBSET flush.deleted :
             flush.on /\ ~flush.stale /\ Load([disk EXCEPT !.file = Unlinked(@, gone)])
    BY <1>3
  <2> DEFINE file == Unlinked(disk.file, gone)
             d == [rows |-> disk.rows, meta |-> disk.meta, file |-> file]
  <2>2. /\ file \in [Threads -> Version]
        /\ \A t \in Threads : file[t] = IF t \in gone THEN 0 ELSE disk.file[t]
    BY BoundsAssumption DEF Unlinked, TypeOK, Files, Version
  <2>3. d = [disk EXCEPT !.file = Unlinked(@, gone)]
    BY DEF TypeOK, Files
  <2>4. Load(d)
    BY <2>1, <2>3
  <2>5. d \in Files /\ d.rows = disk.rows /\ d.meta = disk.meta /\ d.file = file
    BY <2>2 DEF TypeOK, Files
  <2> HIDE DEF d, file
  <2> QED
    BY <1>1, <2>1, <2>2, <2>4, <2>5 DEF Left
<1>4. CASE \E some \in SUBSET InFlight :
             flush.on /\ ~flush.stale
             /\ Load([disk EXCEPT !.file = Written(Unlinked(@, flush.deleted), flush.writes, some)])
  <2>1. PICK some \in SUBSET InFlight :
             flush.on /\ ~flush.stale
             /\ Load([disk EXCEPT !.file = Written(Unlinked(@, flush.deleted), flush.writes, some)])
    BY <1>4
  <2> DEFINE file == Written(Unlinked(disk.file, flush.deleted), flush.writes, some)
             d == [rows |-> disk.rows, meta |-> disk.meta, file |-> file]
  <2>2. /\ file \in [Threads -> Version]
        /\ \A t \in Threads : file[t] = IF t \in some THEN flush.writes[t]
                                        ELSE IF t \in flush.deleted THEN 0 ELSE disk.file[t]
    BY BoundsAssumption DEF Written, Unlinked, TypeOK, Files, Version
  <2>3. d = [disk EXCEPT !.file = Written(Unlinked(@, flush.deleted), flush.writes, some)]
    BY DEF TypeOK, Files
  <2>4. Load(d)
    BY <2>1, <2>3
  <2>5. d \in Files /\ d.rows = disk.rows /\ d.meta = disk.meta /\ d.file = file
    BY <2>2 DEF TypeOK, Files
  <2> HIDE DEF d, file
  <2> QED
    BY <1>1, <2>1, <2>2, <2>4, <2>5 DEF Left
<1> QED
  BY <1>1, <1>2, <1>3, <1>4 DEF Crash

\* A boot from well-formed files gives a well-formed store.
LEMMA LoadType ==
    ASSUME TypeInv, NEW d \in Files, Load(d), promised' \in Promises, fresh' \subseteq Threads,
           restarts < MaxRestarts,
           \A t \in Threads : d.file[t] <= 1 + appends
    PROVE  TypeInv'
<1>1. TypeOK'
  <2>1. /\ mem' \in Envelope /\ hydrated' \in [Threads -> Version] /\ shards' \subseteq Threads
        /\ latest' \in [Threads -> Version] /\ disk' \in Files
    BY BoundsAssumption DEF Load, Files, Envelope, Version
  <2>2. /\ marks' \in MarksType /\ timer' \in BOOLEAN /\ window' \in BOOLEAN /\ broke' \in BOOLEAN
        /\ flush' = NoFlush
    BY DEF Load, MarksType
  <2>3. restarts' \in 0..MaxRestarts /\ UNCHANGED <<unborn, purged, appends, fails>>
    BY BoundsAssumption DEF Load, TypeInv, TypeOK
  <2> QED
    BY <2>1, <2>2, <2>3, NoFlushType DEF TypeInv, TypeOK, MarksType
<1>2. (\A t \in Threads : Bounded(t))'
  BY BoundsAssumption DEF TypeInv, TypeOK, Load, Files, Version, Bounded, NoFlush
<1> QED
  BY <1>1, <1>2 DEF TypeInv

LEMMA TypeExit == TypeInv /\ Exit => TypeInv'
<1> SUFFICES ASSUME TypeInv, Exit PROVE TypeInv'
  OBVIOUS
<1>1. PICK d \in Files :
             /\ Load(d)
             /\ \/ d = AllWritten /\ promised' = Promise /\ fresh' = StillFresh
                \/ d = disk /\ promised' = promised /\ fresh' = fresh
  BY ExitEffect DEF TypeInv
<1>2. \A t \in Threads : d.file[t] <= 1 + appends
  BY <1>1, AllWrittenFields, ContentType, BoundsAssumption DEF TypeInv, TypeOK, Bounded
<1>3. promised' \in Promises /\ fresh' \subseteq Threads
  BY <1>1, AllWrittenFields DEF TypeInv, TypeOK, Promise, Promises, StillFresh
<1> QED
  BY <1>1, <1>2, <1>3, LoadType DEF TypeInv, TypeOK, Exit

LEMMA TypeCrash == TypeInv /\ Crash => TypeInv'
<1> SUFFICES ASSUME TypeInv, Crash PROVE TypeInv'
  OBVIOUS
<1>1. PICK d \in Files : Load(d) /\ Left(d)
  BY CrashEffect DEF TypeInv
<1>2. \A t \in Threads : d.file[t] <= 1 + appends
  BY <1>1, BoundsAssumption DEF TypeInv, TypeOK, Bounded, Left
<1> QED
  BY <1>1, <1>2, LoadType DEF TypeInv, TypeOK, Crash

LEMMA TypeFlushFails == TypeInv /\ FlushFails => TypeInv'
<1> SUFFICES ASSUME TypeInv, FlushFails PROVE TypeInv'
  OBVIOUS
<1>1. TypeOK
  BY DEF TypeInv
<1>2. PICK some \in SUBSET InFlight : SomeLanded(some)
  BY <1>1, FlushFailsEffect
<1>3. some \subseteq Threads
  BY <1>2 DEF InFlight
<1>4. TypeOK'
  BY <1>1, <1>2, <1>3, FlushFailsEffect, NoFlushType DEF TypeOK, ageVars, historyVars, SomeLanded, MarksType
<1>5. (\A t \in Threads : Bounded(t))'
  BY <1>1, <1>2, FlushFailsEffect, BoundsAssumption
     DEF TypeInv, TypeOK, Bounded, historyVars, NoFlush, SomeLanded
<1> QED
  BY <1>4, <1>5 DEF TypeInv

LEMMA TypeSaveNowFails == TypeInv /\ SaveNowFails => TypeInv'
<1> SUFFICES ASSUME TypeInv, SaveNowFails PROVE TypeInv'
  OBVIOUS
<1>1. TypeOK
  BY DEF TypeInv
<1>2. /\ UNCHANGED <<mem, hydrated, window, unborn, fresh, latest, promised, purged, appends, restarts>>
      /\ timer' = FALSE /\ broke' = TRUE /\ fails' \in 0..MaxFails
  BY <1>1, BoundsAssumption DEF SaveNowFails, TypeOK, ageVars
<1>3. TypeOK'
  <2>1. ShardsReplayed \subseteq Threads
    BY <1>1 DEF ShardsReplayed, InFlight, TypeOK
  <2>2. /\ marks' \in MarksType /\ disk' \in Files
        /\ flush' = [on |-> flush.on, stale |-> flush.stale \/ flush.on, writes |-> flush.writes,
                     deleted |-> flush.deleted, env |-> flush.env]
        /\ shards' \subseteq Threads
    BY <1>1, <2>1, SaveNowFailsEffect DEF NonEmpty
  <2> QED
    BY <1>1, <1>2, <2>2 DEF TypeOK, MarksType
<1>4. (\A t \in Threads : Bounded(t))'
  <2>1. /\ \A t \in Threads : disk'.file[t] \in {hydrated[t], 1, 0, disk.file[t]}
        /\ flush'.writes = flush.writes
    BY <1>1, SaveNowFailsEffect, ContentType
  <2> QED
    BY <1>1, <1>2, <2>1, BoundsAssumption DEF TypeInv, TypeOK, Bounded
<1> QED
  BY <1>3, <1>4 DEF TypeInv

\* markDirty.
LEMMA MarkedFields ==
    ASSUME NEW m \in MarksType
    PROVE  /\ Marked(m) \in MarksType
           /\ Marked(m).dirtyIds = m.dirtyIds /\ Marked(m).deletedIds = m.deletedIds
           /\ Marked(m).dirty /\ Marked(m).envelope
BY DEF Marked, MarksType

\* The marks after a message and after a removal.
LEMMA MarksEffect ==
    ASSUME TypeOK, NEW t \in Threads
    PROVE  /\ AppendMessage(t) =>
                /\ marks' \in MarksType /\ marks'.dirty /\ marks'.envelope
                /\ marks'.dirtyIds = marks.dirtyIds \cup {t}
                /\ marks'.deletedIds = marks.deletedIds \ {t}
           /\ CreateThread(t) =>
                /\ marks' \in MarksType /\ marks'.dirty /\ marks'.envelope
                /\ marks'.dirtyIds = marks.dirtyIds \cup {t}
                /\ marks'.deletedIds = marks.deletedIds \ {t}
                /\ mem' \in Envelope /\ mem'.rows = mem.rows \cup {t} /\ mem'.meta = mem.meta
           /\ RemoveThread(t) =>
                /\ marks' \in MarksType /\ marks'.dirty /\ marks'.envelope
                /\ marks'.dirtyIds = marks.dirtyIds \ {t}
                /\ marks'.deletedIds = marks.deletedIds \cup {t}
                /\ mem' \in Envelope /\ mem'.rows = mem.rows \ {t} /\ mem'.meta = mem.meta
           /\ UpdateThread =>
                /\ marks' \in MarksType /\ marks'.dirty /\ marks'.envelope
                /\ marks'.dirtyIds = marks.dirtyIds
                /\ marks'.deletedIds = marks.deletedIds
                /\ mem' \in Envelope /\ mem'.rows = mem.rows /\ mem'.meta = mem.meta + 1
<1>1. marks \in MarksType
  BY DEF TypeOK, MarksType
<1>2. LET m == [marks EXCEPT !.dirtyIds = @ \cup {t}, !.deletedIds = @ \ {t}]
      IN  /\ m \in MarksType /\ m.dirtyIds = marks.dirtyIds \cup {t}
          /\ m.deletedIds = marks.deletedIds \ {t}
  BY <1>1 DEF MarksType
<1>3. LET m == [marks EXCEPT !.dirtyIds = @ \ {t}, !.deletedIds = @ \cup {t}]
      IN  /\ m \in MarksType /\ m.dirtyIds = marks.dirtyIds \ {t}
          /\ m.deletedIds = marks.deletedIds \cup {t}
  BY <1>1 DEF MarksType
<1>4. RemoveThread(t) => mem' \in Envelope /\ mem'.rows = mem.rows \ {t} /\ mem'.meta = mem.meta
  BY DEF RemoveThread, TypeOK, Envelope
<1>5. UpdateThread => mem' \in Envelope /\ mem'.rows = mem.rows /\ mem'.meta = mem.meta + 1
  BY BoundsAssumption DEF UpdateThread, TypeOK, Envelope
<1>6. CreateThread(t) => mem' \in Envelope /\ mem'.rows = mem.rows \cup {t} /\ mem'.meta = mem.meta
  BY DEF CreateThread, TypeOK, Envelope
<1>7. CreateThread(t) => /\ marks' \in MarksType /\ marks'.dirty /\ marks'.envelope
                         /\ marks'.dirtyIds = marks.dirtyIds \cup {t}
                         /\ marks'.deletedIds = marks.deletedIds \ {t}
  BY <1>2, MarkedFields DEF CreateThread
<1>8. AppendMessage(t) => /\ marks' \in MarksType /\ marks'.dirty /\ marks'.envelope
                          /\ marks'.dirtyIds = marks.dirtyIds \cup {t}
                          /\ marks'.deletedIds = marks.deletedIds \ {t}
  BY <1>2, MarkedFields DEF AppendMessage
<1>9. RemoveThread(t) => /\ marks' \in MarksType /\ marks'.dirty /\ marks'.envelope
                         /\ marks'.dirtyIds = marks.dirtyIds \ {t}
                         /\ marks'.deletedIds = marks.deletedIds \cup {t}
  BY <1>3, MarkedFields DEF RemoveThread
<1>10. UpdateThread => /\ marks' \in MarksType /\ marks'.dirty /\ marks'.envelope
                       /\ marks'.dirtyIds = marks.dirtyIds
                       /\ marks'.deletedIds = marks.deletedIds
  BY <1>1, MarkedFields DEF UpdateThread
<1> QED
  BY <1>4, <1>5, <1>6, <1>7, <1>8, <1>9, <1>10

LEMMA TypeRemove == ASSUME TypeInv, NEW t \in Threads, RemoveThread(t) PROVE TypeInv'
<1>1. TypeOK'
  <2>1. /\ hydrated' \in [Threads -> Version] /\ latest' \in [Threads -> Version]
        /\ shards' \subseteq Threads /\ purged' \subseteq Threads
        /\ timer' = TRUE /\ broke' = FALSE
        /\ UNCHANGED <<window, flush, disk, promised, unborn, fresh, appends, fails, restarts>>
    BY BoundsAssumption DEF RemoveThread, TypeInv, TypeOK, countVars, ageVars, Version
  <2>2. marks' \in MarksType /\ mem' \in Envelope
    BY MarksEffect DEF TypeInv
  <2> QED
    BY <2>1, <2>2 DEF TypeInv, TypeOK, MarksType
<1>2. (\A u \in Threads : Bounded(u))'
  BY BoundsAssumption DEF RemoveThread, TypeInv, TypeOK, Bounded, countVars, Version
<1> QED
  BY <1>1, <1>2 DEF TypeInv

LEMMA TypeUpdate == TypeInv /\ UpdateThread => TypeInv'
<1> SUFFICES ASSUME TypeInv, UpdateThread PROVE TypeInv'
  OBVIOUS
<1>1. TypeOK'
  <2>1. /\ timer' \in BOOLEAN /\ broke' \in BOOLEAN
        /\ UNCHANGED <<hydrated, shards, window, flush, disk, latest, promised, purged,
                       unborn, fresh, appends, fails, restarts>>
    BY DEF UpdateThread, TypeInv, TypeOK, countVars, ageVars
  <2>2. marks' \in MarksType /\ mem' \in Envelope
    <3>1. marks \in MarksType
      BY DEF TypeInv, TypeOK, MarksType
    <3> QED
      BY <3>1, MarkedFields, BoundsAssumption DEF UpdateThread, TypeInv, TypeOK, Envelope
  <2> QED
    BY <2>1, <2>2 DEF TypeInv, TypeOK, MarksType
<1>2. (\A u \in Threads : Bounded(u))'
  BY DEF UpdateThread, TypeInv, Bounded, countVars
<1> QED
  BY <1>1, <1>2 DEF TypeInv

LEMMA TypeWindow == TypeInv /\ WindowOpens => TypeInv'
BY DEF WindowOpens, TypeInv, TypeOK, Bounded, countVars, historyVars, ageVars

LEMMA TypeFlushStale == TypeInv /\ FlushStale => TypeInv'
BY NoFlushType, BoundsAssumption
   DEF FlushStale, FlushOver, TypeInv, TypeOK, Bounded, countVars, historyVars, ageVars, NoFlush

\* The snapshot of a flush that starts.
Starts ==
    /\ ~flush.on /\ marks.dirty /\ (WriteEnvelope \/ ShardsDirty)
    /\ timer' = FALSE
    /\ marks' = [dirtyIds |-> {}, deletedIds |-> {},
                 dirty |-> marks.envelope /\ ~WriteEnvelope,
                 envelope |-> marks.envelope /\ ~WriteEnvelope]
    /\ flush' = [on |-> TRUE, stale |-> FALSE, writes |-> Writes(marks),
                 deleted |-> marks.deletedIds,
                 env |-> IF WriteEnvelope THEN mem ELSE NoEnvelope]

\* A timer that fires leaves the marks, waits for the window, or starts.
LEMMA FlushAsyncEffect ==
    ASSUME TypeOK, FlushAsync
    PROVE  /\ UNCHANGED <<mem, hydrated, shards, window, disk, ageVars, historyVars, countVars>>
           /\ \/ UNCHANGED <<marks, flush>> /\ timer' \in BOOLEAN
              \/ /\ ~ShardsDirty /\ timer' \in BOOLEAN /\ UNCHANGED flush
                 /\ marks' \in MarksType
                 /\ marks'.dirtyIds = marks.dirtyIds /\ marks'.deletedIds = marks.deletedIds
                 /\ (marks'.dirty <=> marks.envelope) /\ (marks'.envelope <=> marks.envelope)
              \/ Starts
<1>1. UNCHANGED <<mem, hydrated, shards, window, disk, ageVars, historyVars, countVars>>
  BY DEF FlushAsync
<1>2. CASE timer' = (flush.on /\ marks.dirty) /\ UNCHANGED <<marks, flush>>
  BY <1>1, <1>2
<1>3. CASE /\ ~ShardsDirty /\ timer' = marks.envelope
           /\ marks' = [marks EXCEPT !.dirty = marks.envelope]
           /\ UNCHANGED flush
  BY <1>1, <1>3 DEF TypeOK, MarksType
<1> QED
  BY <1>1, <1>2, <1>3 DEF FlushAsync, Starts

\* A flush that starts takes every mark but that of a throttled envelope.
LEMMA StartsFields ==
    ASSUME TypeOK, Starts
    PROVE  /\ marks' \in MarksType /\ marks'.dirtyIds = {} /\ marks'.deletedIds = {}
           /\ marks'.dirty <=> marks.envelope /\ ~WriteEnvelope
           /\ marks'.envelope <=> marks.envelope /\ ~WriteEnvelope
           /\ flush' \in [on: BOOLEAN, stale: BOOLEAN, writes: [Threads -> Version],
                          deleted: SUBSET Threads, env: Envelope \cup {NoEnvelope}]
           /\ flush'.on /\ ~flush'.stale
           /\ flush'.deleted = marks.deletedIds
           /\ WriteEnvelope => flush'.env = mem
           /\ ~WriteEnvelope => flush'.env = NoEnvelope
           /\ \A t \in Threads : flush'.writes[t] = IF t \in marks.dirtyIds \ marks.deletedIds
                                                    THEN Content(t) ELSE 0
<1>1. /\ marks' \in MarksType /\ marks'.dirtyIds = {} /\ marks'.deletedIds = {}
      /\ marks'.dirty <=> marks.envelope /\ ~WriteEnvelope
      /\ marks'.envelope <=> marks.envelope /\ ~WriteEnvelope
  BY DEF Starts, MarksType
<1>2. /\ Writes(marks) \in [Threads -> Version]
      /\ \A t \in Threads : Writes(marks)[t] = IF t \in marks.dirtyIds \ marks.deletedIds
                                               THEN Content(t) ELSE 0
  BY ContentType, BoundsAssumption DEF Writes, Version
<1>3. /\ flush'.on = TRUE /\ flush'.stale = FALSE /\ flush'.writes = Writes(marks)
      /\ flush'.deleted = marks.deletedIds
      /\ flush'.env = IF WriteEnvelope THEN mem ELSE NoEnvelope
      /\ flush' \in [on: BOOLEAN, stale: BOOLEAN, writes: [Threads -> Version],
                     deleted: SUBSET Threads, env: Envelope \cup {NoEnvelope}]
  BY <1>2 DEF Starts, TypeOK
<1> QED
  BY <1>1, <1>2, <1>3

LEMMA TypeFlushAsync == TypeInv /\ FlushAsync => TypeInv'
<1> SUFFICES ASSUME TypeInv, FlushAsync PROVE TypeInv'
  OBVIOUS
<1>1. TypeOK
  BY DEF TypeInv
<1>2. CASE Starts
  <2>1. TypeOK'
    BY <1>1, <1>2, FlushAsyncEffect, StartsFields
       DEF TypeOK, MarksType, ageVars, historyVars, countVars, Starts
  <2>2. (\A t \in Threads : Bounded(t))'
    BY <1>1, <1>2, FlushAsyncEffect, StartsFields, ContentType, BoundsAssumption
       DEF TypeInv, TypeOK, Bounded, historyVars, countVars
  <2> QED
    BY <2>1, <2>2 DEF TypeInv
<1>3. CASE ~Starts
  <2>1. TypeOK'
    BY <1>1, <1>3, FlushAsyncEffect DEF TypeOK, MarksType, ageVars, historyVars, countVars
  <2>2. (\A t \in Threads : Bounded(t))'
    BY <1>1, <1>3, FlushAsyncEffect DEF TypeInv, Bounded, historyVars, countVars
  <2> QED
    BY <2>1, <2>2 DEF TypeInv
<1> QED
  BY <1>2, <1>3

\* Reading and what makes room for it: only clean transcripts that are
\* not being written go.
LEMMA HydratedEffect ==
    ASSUME TypeOK, NEW t \in Threads, NEW v, Hydrated(t, v)
    PROVE  /\ hydrated'[t] = v
           /\ DOMAIN hydrated' = Threads /\ hydrated' = [u \in Threads |-> hydrated'[u]]
           /\ \A u \in Threads \ {t} :
                \/ hydrated'[u] = hydrated[u]
                \/ u \in Evictable(t) /\ hydrated'[u] = 0
BY DEF Hydrated, TypeOK

\* What getMessages returns is a version.
LEMMA ViewBounded ==
    ASSUME TypeInv, NEW t \in Threads
    PROVE  View(t) \in Nat /\ View(t) <= 1 + appends
BY BoundsAssumption DEF View, TypeInv, TypeOK, Bounded, Files, Version

LEMMA TypeRead == ASSUME TypeInv, NEW t \in Threads, ReadMessages(t) PROVE TypeInv'
<1>1. /\ Hydrated(t, View(t))
      /\ UNCHANGED <<mem, shards, marks, timer, window, flush, disk, ageVars, historyVars, countVars>>
  BY DEF ReadMessages
<1>2. TypeOK
  BY DEF TypeInv
<1>3. /\ hydrated' \in [Threads -> Version]
      /\ \A u \in Threads : hydrated'[u] <= 1 + appends
  BY <1>1, <1>2, HydratedEffect, ViewBounded, BoundsAssumption DEF TypeInv, TypeOK, Bounded, Version
<1> QED
  BY <1>1, <1>2, <1>3 DEF TypeInv, TypeOK, Bounded, ageVars, historyVars, countVars

LEMMA TypeCreate == ASSUME TypeInv, NEW t \in Threads, CreateThread(t) PROVE TypeInv'
<1>1. /\ Hydrated(t, 1)
      /\ latest' = [latest EXCEPT ![t] = 1]
      /\ unborn' = unborn \ {t} /\ fresh' = fresh \cup {t}
      /\ timer' = TRUE /\ broke' = FALSE /\ shards' = shards \cup {t}
      /\ UNCHANGED <<window, flush, disk, promised, purged, appends, fails, restarts>>
  BY DEF CreateThread, countVars
<1>2. TypeOK
  BY DEF TypeInv
<1>3. /\ hydrated' \in [Threads -> Version]
      /\ \A u \in Threads : hydrated'[u] <= 1 + appends
  BY <1>1, <1>2, HydratedEffect, BoundsAssumption DEF TypeInv, TypeOK, Bounded, Version
<1>4. /\ latest' \in [Threads -> Version]
      /\ \A u \in Threads : latest'[u] <= 1 + appends
  BY <1>1, <1>2, BoundsAssumption DEF TypeInv, TypeOK, Bounded, Version
<1> QED
  BY <1>1, <1>2, <1>3, <1>4, MarksEffect DEF TypeInv, TypeOK, Bounded, MarksType

LEMMA TypeAppend == ASSUME TypeInv, NEW t \in Threads, AppendMessage(t) PROVE TypeInv'
<1>1. /\ Hydrated(t, View(t) + 1)
      /\ appends < MaxAppends /\ appends' = appends + 1
      /\ latest' = [latest EXCEPT ![t] = @ + 1]
      /\ timer' = TRUE /\ broke' = FALSE /\ shards' = shards \cup {t}
      /\ UNCHANGED <<mem, window, flush, disk, promised, purged, unborn, fresh, fails, restarts>>
  BY DEF AppendMessage, ageVars
<1>2. TypeOK
  BY DEF TypeInv
<1>3. /\ hydrated' \in [Threads -> Version]
      /\ \A u \in Threads : hydrated'[u] <= 1 + appends'
  BY <1>1, <1>2, HydratedEffect, ViewBounded, BoundsAssumption DEF TypeInv, TypeOK, Bounded, Version
<1>4. /\ latest' \in [Threads -> Version]
      /\ \A u \in Threads : latest'[u] <= 1 + appends'
  BY <1>1, <1>2, BoundsAssumption DEF TypeInv, TypeOK, Bounded, Version
<1>5. \A u \in Threads : disk.file[u] <= 1 + appends' /\ flush.writes[u] <= 1 + appends'
  BY <1>1, BoundsAssumption DEF TypeInv, TypeOK, Bounded, Files, Version
<1>6. appends' \in 0..MaxAppends
  BY <1>1, <1>2, BoundsAssumption DEF TypeOK
<1> QED
  BY <1>1, <1>2, <1>3, <1>4, <1>5, <1>6, MarksEffect DEF TypeInv, TypeOK, Bounded, MarksType

\* What a commit leaves: stuck is what it could not unlink.
LEMMA FlushCommitsEffect ==
    ASSUME TypeOK, FlushCommits
    PROVE  /\ flush.on /\ ~flush.stale /\ flush' = NoFlush
           /\ timer' \in BOOLEAN /\ fails' \in 0..MaxFails
           /\ UNCHANGED <<mem, hydrated, unborn, historyVars, appends, restarts>>
           /\ shards' = shards \cup InFlight
           /\ disk' \in Files
           /\ \E stuck \in SUBSET flush.deleted :
                /\ stuck = {} => marks' = marks
                /\ stuck # {} => /\ marks' \in MarksType
                                 /\ marks'.dirtyIds = marks.dirtyIds
                                 /\ marks'.deletedIds = marks.deletedIds \cup stuck
                                 /\ marks'.dirty
                                 /\ marks'.envelope <=> marks.envelope \/ flush.env # NoEnvelope
                /\ IF stuck = {} /\ flush.env # NoEnvelope
                   THEN /\ disk'.rows = flush.env.rows /\ disk'.meta = flush.env.meta
                        /\ window' = FALSE
                        /\ fresh' = fresh \ (flush.env.rows \cup flush.deleted)
                   ELSE /\ disk'.rows = disk.rows /\ disk'.meta = disk.meta /\ window' = window
                        /\ fresh' = fresh
                /\ \A t \in Threads :
                     disk'.file[t] = IF t \in InFlight THEN flush.writes[t]
                                     ELSE IF t \in flush.deleted \ stuck THEN 0 ELSE disk.file[t]
<1>1. PICK stuck \in SUBSET flush.deleted :
        LET env == stuck = {} /\ flush.env # NoEnvelope
            file == Written(Unlinked(disk.file, flush.deleted \ stuck), flush.writes, InFlight)
        IN  /\ fails + Cardinality(stuck) <= MaxFails
            /\ fails' = fails + Cardinality(stuck)
            /\ disk' = IF env THEN [rows |-> flush.env.rows, meta |-> flush.env.meta, file |-> file]
                       ELSE [disk EXCEPT !.file = file]
            /\ fresh' = IF env THEN fresh \ (flush.env.rows \cup flush.deleted) ELSE fresh
            /\ window' = (window /\ ~env)
            /\ FlushOver(IF stuck = {} THEN marks
                         ELSE [marks EXCEPT !.deletedIds = @ \cup stuck, !.dirty = TRUE,
                                            !.envelope = @ \/ flush.env # NoEnvelope])
  BY Zenon DEF FlushCommits
<1> DEFINE file == Written(Unlinked(disk.file, flush.deleted \ stuck), flush.writes, InFlight)
<1>2. /\ file \in [Threads -> Version]
      /\ \A t \in Threads : file[t] = IF t \in InFlight THEN flush.writes[t]
                                      ELSE IF t \in flush.deleted \ stuck THEN 0 ELSE disk.file[t]
  BY BoundsAssumption DEF Written, Unlinked, TypeOK, Files, Version
<1>3. fails' \in 0..MaxFails
  <2>1. Cardinality(stuck) \in Nat
    BY ThreadsAssumption, FS_Subset, FS_CardinalityType DEF TypeOK
  <2> QED
    BY <1>1, <2>1, BoundsAssumption DEF TypeOK
<1>4. /\ flush.on /\ ~flush.stale /\ flush' = NoFlush
      /\ UNCHANGED <<mem, hydrated, unborn, historyVars, appends, restarts>>
      /\ shards' = shards \cup InFlight
      /\ timer' \in BOOLEAN
  BY <1>1 DEF FlushCommits, FlushOver, TypeOK
<1> HIDE DEF file
<1>5. CASE stuck = {}
  <2>1. marks' = marks
    BY <1>1, <1>5 DEF FlushOver
  <2>2. CASE flush.env # NoEnvelope
    <3>1. /\ disk' = [rows |-> flush.env.rows, meta |-> flush.env.meta, file |-> file]
          /\ window' = FALSE /\ fresh' = fresh \ (flush.env.rows \cup flush.deleted)
      BY <1>1, <1>5, <2>2 DEF file
    <3>2. flush.env \in Envelope
      BY <2>2 DEF TypeOK
    <3> QED
      BY <1>2, <1>3, <1>4, <1>5, <2>1, <2>2, <3>1, <3>2 DEF Files, Envelope
  <2>3. CASE flush.env = NoEnvelope
    <3>1. /\ disk' = [rows |-> disk.rows, meta |-> disk.meta, file |-> file]
          /\ window' = window /\ fresh' = fresh
      BY <1>1, <1>5, <2>3 DEF file, TypeOK, Files
    <3> QED
      BY <1>2, <1>3, <1>4, <1>5, <2>1, <2>3, <3>1 DEF Files, TypeOK
  <2> QED
    BY <2>2, <2>3
<1>6. CASE stuck # {}
  <2>1. marks' = [marks EXCEPT !.deletedIds = @ \cup stuck, !.dirty = TRUE,
                               !.envelope = @ \/ flush.env # NoEnvelope]
    BY <1>1, <1>6 DEF FlushOver
  <2>2. /\ marks' \in MarksType
        /\ marks'.dirtyIds = marks.dirtyIds
        /\ marks'.deletedIds = marks.deletedIds \cup stuck
        /\ marks'.dirty
        /\ marks'.envelope <=> marks.envelope \/ flush.env # NoEnvelope
    BY <2>1 DEF TypeOK, MarksType
  <2>3. /\ disk' = [rows |-> disk.rows, meta |-> disk.meta, file |-> file]
        /\ window' = window /\ fresh' = fresh
    BY <1>1, <1>6 DEF file, TypeOK, Files
  <2> QED
    BY <1>2, <1>3, <1>4, <1>6, <2>2, <2>3 DEF Files, TypeOK
<1> QED
  BY <1>5, <1>6

LEMMA TypeFlushCommits == TypeInv /\ FlushCommits => TypeInv'
<1> SUFFICES ASSUME TypeInv, FlushCommits PROVE TypeInv'
  OBVIOUS
<1>1. TypeOK
  BY DEF TypeInv
<1>2. /\ window' \in BOOLEAN /\ marks' \in MarksType /\ fresh' \subseteq Threads
      /\ \A t \in Threads : disk'.file[t] \in {flush.writes[t], 0, disk.file[t]}
  BY <1>1, FlushCommitsEffect DEF TypeOK, MarksType
<1>3. TypeOK'
  BY <1>1, <1>2, FlushCommitsEffect, NoFlushType DEF TypeOK, historyVars, MarksType, InFlight
<1>4. (\A t \in Threads : Bounded(t))'
  <2>1. /\ flush' = NoFlush /\ UNCHANGED <<hydrated, latest, appends>>
    BY <1>1, FlushCommitsEffect DEF historyVars
  <2> QED
    BY <1>1, <1>2, <2>1, BoundsAssumption DEF TypeInv, TypeOK, Bounded, NoFlush
<1> QED
  BY <1>3, <1>4 DEF TypeInv

LEMMA InitType == Init => TypeInv
<1> SUFFICES ASSUME Init PROVE TypeInv
  OBVIOUS
<1>1. FirstBoot \in Files /\ mem \in Envelope
  BY BoundsAssumption, ThreadsAssumption DEF Init, FirstBoot, Version, Envelope, Files
<1>2. TypeOK
  <2>1. /\ marks \in MarksType /\ shards \subseteq Threads /\ purged \subseteq Threads
        /\ timer \in BOOLEAN /\ window \in BOOLEAN /\ broke \in BOOLEAN
        /\ unborn \subseteq Threads /\ fresh \subseteq Threads
    BY ThreadsAssumption DEF Init, MarksType
  <2>3. hydrated \in [Threads -> Version] /\ latest \in [Threads -> Version]
    BY BoundsAssumption DEF Init, FirstBoot, Version
  <2>2. /\ disk \in Files /\ promised \in Promises /\ flush = NoFlush
        /\ appends \in 0..MaxAppends /\ fails \in 0..MaxFails /\ restarts \in 0..MaxRestarts
    BY <1>1, BoundsAssumption DEF Init, Promises
  <2> QED
    BY <1>1, <2>1, <2>2, <2>3, NoFlushType DEF TypeOK, MarksType
<1>3. \A t \in Threads : Bounded(t)
  BY BoundsAssumption DEF Init, Bounded, FirstBoot, NoFlush
<1> QED
  BY <1>2, <1>3 DEF TypeInv

LEMMA TypeStep == TypeInv /\ [Next]_vars => TypeInv'
<1> SUFFICES ASSUME TypeInv, [Next]_vars PROVE TypeInv'
  OBVIOUS
<1>1. CASE UNCHANGED vars
  BY <1>1 DEF TypeInv, TypeOK, Bounded, vars, ageVars, historyVars, countVars
<1> QED
  BY <1>1, TypeCreate, TypeRead, TypeAppend, TypeRemove, TypeUpdate, TypeFlushAsync, TypeFlushStale, TypeFlushCommits,
     TypeFlushFails, TypeWindow, TypeSaveNow, TypeSaveNowFails, TypeExit, TypeCrash DEF Next, FlushEnds

-----------------------------------------------------------------------------
(* The inductive invariant.                                                *)

\* A flush is under way that may still reach the disk.
Live == flush.on /\ ~flush.stale

\* A parsed transcript is the latest; what is marked or being written is
\* parsed, so that eviction never meets it; what is not parsed is on disk.
MemoryInv(t) ==
    /\ hydrated[t] # 0 => t \in mem.rows /\ hydrated[t] = latest[t]
    /\ t \in mem.rows /\ (t \in marks.dirtyIds \/ t \in InFlight) => hydrated[t] # 0
    /\ t \in mem.rows /\ hydrated[t] = 0 =>
          disk.file[t] = latest[t] /\ (t \in shards \/ latest[t] = 0)

\* An old file is marked or being written, and a snapshot that has grown old
\* is marked: whichever way the flush ends, the mark outlives it.
ShardInv(t) ==
    /\ t \in mem.rows /\ disk.file[t] # latest[t] =>
          t \in marks.dirtyIds \/ (Live /\ t \in InFlight)
    /\ t \in mem.rows /\ Live /\ t \in InFlight =>
          t \in marks.dirtyIds \/ flush.writes[t] = latest[t]

\* Nothing is known of a thread that was never created.
UnbornInv(t) ==
    t \in unborn =>
        /\ t \notin mem.rows /\ t \notin disk.rows /\ t \notin fresh /\ t \notin purged
        /\ disk.file[t] = 0 /\ flush.writes[t] = 0
        /\ Live /\ flush.env # NoEnvelope => t \notin flush.env.rows
        /\ t \in promised.unborn /\ t \notin promised.files.rows /\ promised.files.file[t] = 0

\* A row of memory is in every envelope that may be on disk, unless it is
\* fresh; rows go only by removal, or with a crash while they are fresh; and
\* what is marked has a row, or had one that was removed.
RowInv(t) ==
    /\ t \in mem.rows \/ t \in purged \/ t \in unborn \/ t \in fresh
    /\ t \in mem.rows => t \in disk.rows \/ t \in fresh
    /\ Live /\ flush.env # NoEnvelope =>
          /\ t \in mem.rows => t \in flush.env.rows \/ t \in fresh
          /\ t \in flush.env.rows => t \in mem.rows \/ t \in marks.deletedIds
    /\ t \in marks.dirtyIds \/ flush.writes[t] # 0 => t \in mem.rows \/ t \in purged
    /\ t \in marks.deletedIds \/ t \in flush.deleted => t \in purged /\ t \notin mem.rows
    /\ Live => ~(t \in flush.deleted /\ (t \in marks.dirtyIds \/ flush.writes[t] # 0))

\* A transcript's file has a row in every envelope that may be on disk while
\* the file is, or the deletion that rides with that envelope, or comes after
\* it, takes the file along; only the row of a fresh thread is missing.
FileInv(t) ==
    /\ disk.file[t] # 0 /\ t \notin fresh =>
          /\ t \in disk.rows
          /\ t \in mem.rows \/ t \in marks.deletedIds \/ (Live /\ t \in flush.deleted)
          /\ Live /\ flush.env # NoEnvelope => t \in flush.env.rows \/ t \in flush.deleted
    /\ Live /\ flush.writes[t] # 0 =>
          /\ t \in mem.rows \/ t \in marks.deletedIds
          /\ t \in disk.rows \/ t \in fresh
          /\ flush.env # NoEnvelope => t \in flush.env.rows

\* What a saveNow promised bounds the disk, the memory and a live snapshot.
PromiseInv(t) ==
    /\ t \in disk.rows \/ t \in mem.rows => t \in promised.files.rows \/ t \in promised.unborn
    /\ t \in promised.files.rows => t \notin fresh
    /\ Live /\ flush.env # NoEnvelope =>
          (t \in flush.env.rows => t \in promised.files.rows \/ t \in promised.unborn)
    /\ t \notin purged =>
          /\ promised.files.file[t] <= disk.file[t]
          /\ t \in mem.rows => promised.files.file[t] <= latest[t]
          /\ Live /\ t \in InFlight => promised.files.file[t] <= flush.writes[t]

\* The same for the envelope, and the marks read dirty.
EnvelopeInv ==
    /\ flush.on \/ flush = NoFlush
    /\ Live /\ flush.env # NoEnvelope => flush.env = mem \/ marks.envelope
    /\ [rows |-> disk.rows, meta |-> disk.meta] # mem => marks.envelope \/ (Live /\ flush.env = mem)
    /\ ShardsDirty \/ marks.envelope => marks.dirty
    /\ promised.files.meta <= disk.meta /\ promised.files.meta <= mem.meta
    /\ Live /\ flush.env # NoEnvelope => promised.files.meta <= flush.env.meta

ThreadInv(t) ==
    /\ MemoryInv(t) /\ ShardInv(t) /\ UnbornInv(t) /\ RowInv(t) /\ PromiseInv(t)
    /\ t \notin Logs => FileInv(t)

IInv == TypeInv /\ EnvelopeInv /\ \A t \in Threads : ThreadInv(t)

-----------------------------------------------------------------------------
(* Every operation keeps the invariant.                                    *)

LEMMA InFlightDef == ASSUME NEW t \in Threads PROVE t \in InFlight <=> flush.on /\ flush.writes[t] # 0
BY DEF InFlight

LEMMA InitInv == Init => IInv
<1> SUFFICES ASSUME Init PROVE IInv
  OBVIOUS
<1>1. EnvelopeInv
  BY DEF Init, EnvelopeInv, FirstBoot, NoFlush, ShardsDirty, Live
<1>2. ASSUME NEW t \in Threads PROVE ThreadInv(t)
  <2>1. ~Live /\ t \notin InFlight /\ flush.writes[t] = 0 /\ flush.deleted = {}
    BY DEF Init, NoFlush, Live, InFlight
  <2>2. disk.file[t] = (IF t \in FirstThreads THEN 1 ELSE 0) /\ latest[t] = disk.file[t]
    BY DEF Init, FirstBoot
  <2> QED
    BY <2>1, <2>2, ThreadsAssumption
       DEF Init, ThreadInv, MemoryInv, ShardInv, UnbornInv, RowInv, FileInv, PromiseInv, FirstBoot
<1> QED
  BY <1>1, <1>2, InitType DEF IInv

LEMMA InvSaveNow == ASSUME IInv, SaveNow PROVE IInv'
<1>1. TypeInv' /\ TypeOK /\ TypeOK'
  BY TypeSaveNow DEF IInv, TypeInv
<1>2. /\ disk' = AllWritten /\ promised'.files = AllWritten /\ promised'.unborn = unborn
      /\ fresh' = fresh \ (mem.rows \cup Replayed.deletedIds)
      /\ shards' = ShardsReplayed \cup NonEmpty(Writes(Replayed))
      /\ flush' = [flush EXCEPT !.stale = @ \/ flush.on]
      /\ UNCHANGED <<mem, hydrated, unborn, latest, purged>>
  BY DEF SaveNow, Promise, StillFresh
<1>3. EnvelopeInv'
  <2>1. (flush.on \/ flush = NoFlush)' /\ ~Live'
    <3>1. CASE flush.on
      BY <1>1, <1>2, <3>1 DEF TypeOK, Live
    <3>2. CASE ~flush.on
      BY <1>1, <1>2, <3>2 DEF TypeOK, Live, IInv, EnvelopeInv, NoFlush
    <3> QED
      BY <3>1, <3>2
  <2>2. [rows |-> disk.rows, meta |-> disk.meta]' = mem'
    BY <1>1, <1>2, AllWrittenFields DEF TypeOK, Envelope
  <2>3. promised'.files.meta <= disk'.meta /\ promised'.files.meta <= mem'.meta
    BY <1>1, <1>2, AllWrittenFields, BoundsAssumption DEF TypeOK, Envelope
  <2> QED
    BY <1>1, <2>1, <2>2, <2>3, SaveNowEffect DEF EnvelopeInv
<1>4. ASSUME NEW t \in Threads PROVE ThreadInv(t)'
  <2>1. /\ flush'.writes = flush.writes /\ flush'.deleted = flush.deleted
        /\ ~Live' /\ (t \in InFlight' <=> t \in InFlight)
    BY <1>1, <1>2, StaledFields DEF Live
  <2>2. /\ t \in mem.rows => /\ t \notin Replayed.deletedIds
                             /\ t \in Replayed.dirtyIds <=> t \in marks.dirtyIds \/ t \in InFlight
        /\ t \in Replayed.deletedIds => t \in purged /\ t \notin mem.rows
        /\ t \in Replayed.dirtyIds => t \in mem.rows \/ t \in purged
    BY <1>1, ReplayedFields, InFlightDef DEF IInv, ThreadInv, RowInv
  <2>3. t \in mem.rows => AllWritten.file[t] = latest[t]
    BY <1>1, <2>2, AllWrittenFields, ContentType DEF IInv, ThreadInv, MemoryInv, ShardInv
  <2>4. t \notin Logs /\ AllWritten.file[t] # 0 => t \in mem.rows \/ t \in fresh'
    <3>1. t \notin Logs /\ t \in NonEmpty(Writes(Replayed)) => t \in mem.rows
      BY <1>1, AllWrittenFields, ContentType DEF IInv, ThreadInv, MemoryInv
    <3>2. t \notin NonEmpty(Writes(Replayed)) /\ AllWritten.file[t] # 0 =>
             disk.file[t] # 0 /\ t \notin Replayed.deletedIds
      BY <1>1, AllWrittenFields
    <3>3. t \notin Logs /\ disk.file[t] # 0 /\ t \notin Replayed.deletedIds =>
             t \in mem.rows \/ t \in fresh'
      BY <1>1, <1>2, ReplayedFields DEF IInv, ThreadInv, RowInv, FileInv, Live
    <3> QED
      BY <3>1, <3>2, <3>3
  <2>5. MemoryInv(t)'
    <3>1. t \in mem.rows => hydrated[t] # 0 \/ t \notin Replayed.dirtyIds
      BY <2>2 DEF IInv, ThreadInv, MemoryInv
    <3>2. t \in mem.rows /\ hydrated[t] = 0 => t \in shards \/ latest[t] = 0
      BY DEF IInv, ThreadInv, MemoryInv
    <3>3. t \in mem.rows /\ t \in shards => t \in shards'
      BY <1>2, <2>2 DEF ShardsReplayed
    <3>4. t \in marks'.dirtyIds => t \in Replayed.dirtyIds
      BY <1>1, SaveNowEffect
    <3>5. t \in mem.rows /\ t \in InFlight => hydrated[t] # 0
      BY DEF IInv, ThreadInv, MemoryInv
    <3>6. hydrated[t] # 0 => t \in mem.rows /\ hydrated[t] = latest[t]
      BY DEF IInv, ThreadInv, MemoryInv
    <3> QED
      BY <1>2, <2>1, <2>3, <3>1, <3>2, <3>3, <3>4, <3>5, <3>6 DEF MemoryInv
  <2>6. ShardInv(t)'
    BY <1>1, <1>2, <2>1, <2>3 DEF ShardInv
  <2>7. UnbornInv(t)'
    <3>1. t \in unborn => AllWritten.file[t] = 0
      BY <1>1, <2>2, AllWrittenFields, ContentType DEF IInv, ThreadInv, UnbornInv, RowInv
    <3> QED
      BY <1>1, <1>2, <2>1, <3>1, AllWrittenFields DEF IInv, ThreadInv, UnbornInv
  <2>8. RowInv(t)'
    BY <1>1, <1>2, <2>1, <2>2, SaveNowEffect, AllWrittenFields DEF IInv, ThreadInv, RowInv
  <2>9. t \notin Logs => FileInv(t)'
    BY <1>1, <1>2, <2>1, <2>4, AllWrittenFields DEF FileInv
  <2>10. PromiseInv(t)'
    BY <1>1, <1>2, <2>1, <2>3, AllWrittenFields DEF PromiseInv, TypeOK, Files, Version
  <2> QED
    BY <2>5, <2>6, <2>7, <2>8, <2>9, <2>10 DEF ThreadInv
<1> QED
  BY <1>1, <1>3, <1>4 DEF IInv

LEMMA InvSaveNowFails == ASSUME IInv, SaveNowFails PROVE IInv'
<1>1. TypeInv' /\ TypeOK /\ TypeOK'
  BY TypeSaveNowFails DEF IInv, TypeInv
<1>2. /\ flush' = [flush EXCEPT !.stale = @ \/ flush.on]
      /\ UNCHANGED <<mem, hydrated, unborn, fresh, latest, purged, promised>>
  BY DEF SaveNowFails, ageVars
<1>3. PICK gone \in SUBSET Replayed.deletedIds, some \in SUBSET NonEmpty(Writes(Replayed)) :
        /\ marks' = [dirtyIds |-> Replayed.dirtyIds \ some,
                     deletedIds |-> Replayed.deletedIds \ gone,
                     dirty |-> TRUE, envelope |-> TRUE]
        /\ shards' = ShardsReplayed \cup some
        /\ disk'.rows = disk.rows /\ disk'.meta = disk.meta
        /\ \A t \in Threads : disk'.file[t] = IF t \in some THEN Content(t)
                                              ELSE IF t \in gone THEN 0 ELSE disk.file[t]
  BY <1>1, SaveNowFailsEffect, Zenon
<1>4. EnvelopeInv'
  BY <1>1, <1>2, <1>3 DEF IInv, EnvelopeInv, Live, TypeOK, NoFlush
<1>5. ASSUME NEW t \in Threads PROVE ThreadInv(t)'
  <2>1. /\ flush'.writes = flush.writes /\ flush'.deleted = flush.deleted
        /\ ~Live' /\ (t \in InFlight' <=> t \in InFlight)
    BY <1>1, <1>2, StaledFields DEF Live
  <2>2. /\ t \in mem.rows => /\ t \notin Replayed.deletedIds
                             /\ t \in Replayed.dirtyIds <=> t \in marks.dirtyIds \/ t \in InFlight
        /\ t \in Replayed.deletedIds => t \in purged /\ t \notin mem.rows
        /\ t \in Replayed.dirtyIds => t \in mem.rows \/ t \in purged
    BY <1>1, ReplayedFields, InFlightDef DEF IInv, ThreadInv, RowInv
  <2>3. t \in some => /\ t \in Replayed.dirtyIds /\ Content(t) # 0
                      /\ t \in mem.rows => hydrated[t] # 0
                      /\ t \notin Logs => hydrated[t] # 0
    BY <1>1, <1>3, <2>2, AllWrittenFields, ContentType DEF IInv, ThreadInv, MemoryInv
  <2>4. /\ t \in some /\ hydrated[t] # 0 =>
               t \in mem.rows /\ Content(t) = hydrated[t] /\ hydrated[t] = latest[t]
        /\ t \in gone => t \in purged /\ t \notin mem.rows
    BY <1>1, <1>3, <2>2, ContentType DEF IInv, ThreadInv, MemoryInv
  <2>5. MemoryInv(t)'
    BY <1>1, <1>2, <1>3, <2>1, <2>2, <2>3, <2>4 DEF IInv, ThreadInv, MemoryInv, ShardsReplayed
  <2>6. ShardInv(t)'
    BY <1>1, <1>2, <1>3, <2>1, <2>2, <2>3, <2>4 DEF IInv, ThreadInv, ShardInv
  <2>7. UnbornInv(t)'
    BY <1>1, <1>2, <1>3, <2>1, <2>2, <2>3, <2>4 DEF IInv, ThreadInv, UnbornInv
  <2>8. RowInv(t)'
    BY <1>1, <1>2, <1>3, <2>1, <2>2 DEF IInv, ThreadInv, RowInv
  <2>9. t \notin Logs => FileInv(t)'
    <3>1. t \notin Logs /\ disk.file[t] # 0 /\ t \notin fresh =>
             /\ t \in disk.rows
             /\ t \in mem.rows \/ t \in Replayed.deletedIds
      BY <1>1, ReplayedFields DEF IInv, ThreadInv, RowInv, FileInv, Live
    <3>2. t \in mem.rows => t \in disk.rows \/ t \in fresh
      BY DEF IInv, ThreadInv, RowInv
    <3> QED
      BY <1>2, <1>3, <2>1, <2>3, <2>4, <3>1, <3>2 DEF FileInv
  <2>10. PromiseInv(t)'
    BY <1>1, <1>2, <1>3, <2>1, <2>2, <2>3, <2>4 DEF IInv, ThreadInv, PromiseInv
  <2> QED
    BY <2>5, <2>6, <2>7, <2>8, <2>9, <2>10 DEF ThreadInv
<1> QED
  BY <1>1, <1>4, <1>5 DEF IInv

LEMMA InvFlushFails == ASSUME IInv, FlushFails PROVE IInv'
<1>1. TypeInv' /\ TypeOK /\ TypeOK'
  BY TypeFlushFails DEF IInv, TypeInv
<1>2. /\ Live /\ flush' = NoFlush
      /\ marks'.dirtyIds = marks.dirtyIds \cup InFlight
      /\ marks'.deletedIds = marks.deletedIds \cup flush.deleted
      /\ marks'.dirty
      /\ marks'.envelope <=> marks.envelope \/ flush.env # NoEnvelope
      /\ UNCHANGED <<mem, hydrated, unborn, fresh, latest, purged, promised>>
  BY <1>1, FlushFailsEffect DEF Live, ageVars, historyVars
<1>3. PICK some \in SUBSET InFlight : SomeLanded(some)
  BY <1>1, FlushFailsEffect
<1>4. /\ ~Live' /\ flush'.deleted = {} /\ InFlight' = {}
      /\ \A t \in Threads : flush'.writes[t] = 0
  BY <1>2 DEF Live, NoFlush, InFlight
<1>5. EnvelopeInv'
  BY <1>1, <1>2, <1>3, <1>4, NoEnvelopeIsNone DEF IInv, EnvelopeInv, TypeOK, SomeLanded
<1>6. ASSUME NEW t \in Threads PROVE ThreadInv(t)'
  <2>1. t \in InFlight <=> flush.writes[t] # 0
    BY <1>2 DEF InFlight, Live
  <2>2. MemoryInv(t)'
    BY <1>1, <1>2, <1>3, <1>4 DEF IInv, ThreadInv, MemoryInv, ShardInv, RowInv, SomeLanded
  <2>3. ShardInv(t)'
    BY <1>1, <1>2, <1>3, <1>4 DEF IInv, ThreadInv, ShardInv, RowInv, SomeLanded
  <2>4. UnbornInv(t)'
    BY <1>1, <1>2, <1>3, <1>4, <2>1 DEF IInv, ThreadInv, UnbornInv, SomeLanded
  <2>5. RowInv(t)'
    BY <1>1, <1>2, <1>3, <1>4, <2>1 DEF IInv, ThreadInv, RowInv, SomeLanded
  <2>6. t \notin Logs => FileInv(t)'
    BY <1>1, <1>2, <1>3, <1>4, <2>1 DEF IInv, ThreadInv, FileInv, SomeLanded
  <2>7. PromiseInv(t)'
    BY <1>1, <1>2, <1>3, <1>4 DEF IInv, ThreadInv, PromiseInv, RowInv, SomeLanded
  <2> QED
    BY <2>2, <2>3, <2>4, <2>5, <2>6, <2>7 DEF ThreadInv
<1> QED
  BY <1>1, <1>5, <1>6 DEF IInv

LEMMA InvFlushCommits == ASSUME IInv, FlushCommits PROVE IInv'
<1>1. TypeInv' /\ TypeOK /\ TypeOK'
  BY TypeFlushCommits DEF IInv, TypeInv
<1>2. /\ Live /\ flush' = NoFlush
      /\ shards' = shards \cup InFlight
      /\ UNCHANGED <<mem, hydrated, unborn, latest, purged, promised>>
  BY <1>1, FlushCommitsEffect DEF Live, historyVars
<1>3. PICK stuck \in SUBSET flush.deleted :
        /\ stuck = {} => marks' = marks
        /\ stuck # {} => /\ marks'.dirtyIds = marks.dirtyIds
                         /\ marks'.deletedIds = marks.deletedIds \cup stuck
                         /\ marks'.dirty
                         /\ marks'.envelope <=> marks.envelope \/ flush.env # NoEnvelope
        /\ IF stuck = {} /\ flush.env # NoEnvelope
           THEN /\ disk'.rows = flush.env.rows /\ disk'.meta = flush.env.meta
                /\ fresh' = fresh \ (flush.env.rows \cup flush.deleted)
           ELSE disk'.rows = disk.rows /\ disk'.meta = disk.meta /\ fresh' = fresh
        /\ \A t \in Threads :
             disk'.file[t] = IF t \in InFlight THEN flush.writes[t]
                             ELSE IF t \in flush.deleted \ stuck THEN 0 ELSE disk.file[t]
  BY <1>1, FlushCommitsEffect
<1>4. /\ ~Live' /\ flush'.deleted = {} /\ InFlight' = {}
      /\ \A t \in Threads : flush'.writes[t] = 0
  BY <1>2 DEF Live, NoFlush, InFlight
<1>5. /\ marks'.dirtyIds = marks.dirtyIds /\ marks'.deletedIds = marks.deletedIds \cup stuck
  BY <1>3
<1>6. EnvelopeInv'
  BY <1>1, <1>2, <1>3, <1>4, NoEnvelopeIsNone DEF IInv, EnvelopeInv, TypeOK, Envelope, ShardsDirty
<1>7. ASSUME NEW t \in Threads PROVE ThreadInv(t)'
  <2>1. t \in InFlight <=> flush.writes[t] # 0
    BY <1>2 DEF InFlight, Live
  <2>2. MemoryInv(t)'
    BY <1>1, <1>2, <1>3, <1>4, <1>5 DEF IInv, ThreadInv, MemoryInv, ShardInv, RowInv
  <2>3. ShardInv(t)'
    BY <1>1, <1>2, <1>3, <1>4, <1>5 DEF IInv, ThreadInv, ShardInv, RowInv
  <2>4. UnbornInv(t)'
    BY <1>1, <1>2, <1>3, <1>4, <2>1 DEF IInv, ThreadInv, UnbornInv
  <2>5. RowInv(t)'
    BY <1>1, <1>2, <1>3, <1>4, <1>5, <2>1 DEF IInv, ThreadInv, RowInv
  <2>6. t \notin Logs => FileInv(t)'
    BY <1>1, <1>2, <1>3, <1>4, <1>5, <2>1 DEF IInv, ThreadInv, RowInv, FileInv
  <2>7. PromiseInv(t)'
    BY <1>1, <1>2, <1>3, <1>4, <1>5 DEF IInv, ThreadInv, PromiseInv, RowInv
  <2> QED
    BY <2>2, <2>3, <2>4, <2>5, <2>6, <2>7 DEF ThreadInv
<1> QED
  BY <1>1, <1>6, <1>7 DEF IInv

LEMMA InvFlushStale == ASSUME IInv, FlushStale PROVE IInv'
<1>1. TypeInv' /\ TypeOK
  BY TypeFlushStale DEF IInv, TypeInv
<1>2. /\ ~Live /\ flush' = NoFlush /\ marks' = marks
      /\ UNCHANGED <<mem, hydrated, unborn, fresh, latest, purged, promised, disk, shards>>
  BY DEF FlushStale, FlushOver, historyVars, ageVars, Live
<1>3. /\ ~Live' /\ flush'.deleted = {} /\ InFlight' = {}
      /\ \A t \in Threads : flush'.writes[t] = 0
  BY <1>2 DEF Live, NoFlush, InFlight
<1>4. EnvelopeInv'
  BY <1>1, <1>2, <1>3 DEF IInv, EnvelopeInv, ShardsDirty
<1>5. ASSUME NEW t \in Threads PROVE ThreadInv(t)'
  BY <1>1, <1>2, <1>3
     DEF IInv, ThreadInv, MemoryInv, ShardInv, UnbornInv, RowInv, FileInv, PromiseInv
<1> QED
  BY <1>1, <1>4, <1>5 DEF IInv

LEMMA InvFlushAsync == ASSUME IInv, FlushAsync PROVE IInv'
<1>1. TypeInv' /\ TypeOK
  BY TypeFlushAsync DEF IInv, TypeInv
<1>2. UNCHANGED <<mem, hydrated, unborn, fresh, latest, purged, promised, disk, shards>>
  BY <1>1, FlushAsyncEffect DEF historyVars, ageVars
<1>3. CASE Starts
  <2>1. /\ Live' /\ ~flush.on /\ ~Live /\ InFlight = {}
        /\ marks'.dirtyIds = {} /\ marks'.deletedIds = {}
        /\ marks'.dirty <=> marks.envelope /\ ~WriteEnvelope
        /\ marks'.envelope <=> marks.envelope /\ ~WriteEnvelope
        /\ flush'.on /\ flush'.deleted = marks.deletedIds
        /\ WriteEnvelope => flush'.env = mem
        /\ ~WriteEnvelope => flush'.env = NoEnvelope
    BY <1>1, <1>3, StartsFields DEF Starts, Live, InFlight
  <2>2. EnvelopeInv'
    BY <1>1, <1>2, <2>1, NoEnvelopeIsNone DEF IInv, EnvelopeInv, ShardsDirty, TypeOK, WriteEnvelope
  <2>3. ASSUME NEW t \in Threads PROVE ThreadInv(t)'
    <3>1. /\ flush'.writes[t] = IF t \in marks.dirtyIds \ marks.deletedIds THEN Content(t) ELSE 0
          /\ t \in InFlight' <=> flush'.writes[t] # 0
          /\ t \in mem.rows /\ t \in marks.dirtyIds => Content(t) = hydrated[t] /\ hydrated[t] # 0
          /\ t \notin Logs /\ Content(t) # 0 => hydrated[t] # 0
      BY <1>1, <1>3, <2>1, StartsFields, ContentType DEF InFlight, IInv, ThreadInv, MemoryInv
    <3>2. MemoryInv(t)'
      BY <1>1, <1>2, <2>1, <3>1 DEF IInv, ThreadInv, MemoryInv
    <3>3. ShardInv(t)'
      BY <1>1, <1>2, <2>1, <3>1 DEF IInv, ThreadInv, MemoryInv, ShardInv, RowInv
    <3>4. UnbornInv(t)'
      BY <1>1, <1>2, <2>1, <3>1 DEF IInv, ThreadInv, UnbornInv, RowInv
    <3>5. RowInv(t)'
      BY <1>1, <1>2, <2>1, <3>1 DEF IInv, ThreadInv, RowInv
    <3>6. t \notin Logs => FileInv(t)'
      BY <1>1, <1>2, <2>1, <3>1 DEF IInv, ThreadInv, MemoryInv, RowInv, FileInv
    <3>7. PromiseInv(t)'
      BY <1>1, <1>2, <2>1, <3>1 DEF IInv, ThreadInv, MemoryInv, RowInv, PromiseInv
    <3> QED
      BY <3>2, <3>3, <3>4, <3>5, <3>6, <3>7 DEF ThreadInv
  <2> QED
    BY <1>1, <2>2, <2>3 DEF IInv
<1>4. CASE ~Starts
  <2>1. /\ flush' = flush /\ marks'.dirtyIds = marks.dirtyIds /\ marks'.deletedIds = marks.deletedIds
        /\ marks'.envelope <=> marks.envelope
    BY <1>1, <1>4, FlushAsyncEffect
  <2>2. (Live' <=> Live) /\ InFlight' = InFlight
    BY <2>1 DEF Live, InFlight
  <2>3. EnvelopeInv'
    <3>1. (ShardsDirty \/ marks.envelope => marks.dirty)'
      BY <1>1, <1>4, FlushAsyncEffect DEF IInv, EnvelopeInv, ShardsDirty
    <3> QED
      BY <1>2, <2>1, <2>2, <3>1 DEF IInv, EnvelopeInv
  <2>4. ASSUME NEW t \in Threads PROVE ThreadInv(t)'
    BY <1>1, <1>2, <2>1, <2>2
       DEF IInv, ThreadInv, MemoryInv, ShardInv, UnbornInv, RowInv, FileInv, PromiseInv
  <2> QED
    BY <1>1, <2>3, <2>4 DEF IInv
<1> QED
  BY <1>3, <1>4

LEMMA InvRead == ASSUME IInv, NEW t \in Threads, ReadMessages(t) PROVE IInv'
<1>1. TypeInv' /\ TypeOK
  BY TypeRead DEF IInv, TypeInv
<1>2. /\ Hydrated(t, View(t)) /\ t \in mem.rows /\ hydrated[t] = 0 /\ View(t) # 0
      /\ UNCHANGED <<mem, shards, marks, flush, disk, unborn, fresh, latest, purged, promised>>
  BY DEF ReadMessages, historyVars, ageVars
<1>3. (Live' <=> Live) /\ InFlight' = InFlight /\ EnvelopeInv'
  BY <1>2 DEF Live, InFlight, IInv, EnvelopeInv, ShardsDirty
<1>4. ASSUME NEW u \in Threads PROVE ThreadInv(u)'
  <2>1. MemoryInv(u)'
    BY <1>1, <1>2, <1>3, HydratedEffect DEF IInv, ThreadInv, MemoryInv, ShardInv, View, Evictable
  <2>2. ShardInv(u)' /\ UnbornInv(u)' /\ RowInv(u)' /\ (u \notin Logs => FileInv(u)') /\ PromiseInv(u)'
    BY <1>2, <1>3 DEF IInv, ThreadInv, ShardInv, UnbornInv, RowInv, FileInv, PromiseInv
  <2> QED
    BY <2>1, <2>2 DEF ThreadInv
<1> QED
  BY <1>1, <1>3, <1>4 DEF IInv

LEMMA InvAppend == ASSUME IInv, NEW t \in Threads, AppendMessage(t) PROVE IInv'
<1>1. TypeInv' /\ TypeOK
  BY TypeAppend DEF IInv, TypeInv
<1>2. /\ Hydrated(t, View(t) + 1) /\ t \in mem.rows
      /\ latest' = [latest EXCEPT ![t] = @ + 1]
      /\ shards' = shards \cup {t}
      /\ UNCHANGED <<mem, flush, disk, unborn, fresh, purged, promised>>
  BY DEF AppendMessage, ageVars
<1>3. /\ marks'.dirty /\ marks'.envelope
      /\ marks'.dirtyIds = marks.dirtyIds \cup {t}
      /\ marks'.deletedIds = marks.deletedIds \ {t}
  BY <1>1, MarksEffect
<1>4. (Live' <=> Live) /\ InFlight' = InFlight
  BY <1>2 DEF Live, InFlight
<1>5. EnvelopeInv'
  BY <1>2, <1>3, <1>4 DEF IInv, EnvelopeInv
<1>6. /\ View(t) = latest[t] /\ View(t) \in Nat
      /\ latest'[t] = latest[t] + 1 /\ \A u \in Threads \ {t} : latest'[u] = latest[u]
  BY <1>1, <1>2, ViewBounded DEF IInv, ThreadInv, MemoryInv, View, TypeOK
<1>7. ASSUME NEW u \in Threads PROVE ThreadInv(u)'
  <2>1. MemoryInv(u)'
    BY <1>1, <1>2, <1>3, <1>4, <1>6, HydratedEffect
       DEF IInv, ThreadInv, MemoryInv, ShardInv, Evictable
  <2>2. ShardInv(u)'
    BY <1>1, <1>2, <1>3, <1>4, <1>6 DEF IInv, ThreadInv, ShardInv
  <2>3. UnbornInv(u)'
    BY <1>1, <1>2, <1>3, <1>4 DEF IInv, ThreadInv, UnbornInv
  <2>4. RowInv(u)'
    BY <1>1, <1>2, <1>3, <1>4 DEF IInv, ThreadInv, RowInv
  <2>5. u \notin Logs => FileInv(u)'
    BY <1>1, <1>2, <1>3, <1>4 DEF IInv, ThreadInv, FileInv
  <2>6. PromiseInv(u)'
    BY <1>1, <1>2, <1>3, <1>4, <1>6 DEF IInv, ThreadInv, PromiseInv, TypeOK, Promises, Files, Version
  <2> QED
    BY <2>1, <2>2, <2>3, <2>4, <2>5, <2>6 DEF ThreadInv
<1> QED
  BY <1>1, <1>5, <1>7 DEF IInv

LEMMA InvCreate == ASSUME IInv, NEW t \in Threads, CreateThread(t) PROVE IInv'
<1>1. TypeInv' /\ TypeOK
  BY TypeCreate DEF IInv, TypeInv
<1>2. /\ Hydrated(t, 1) /\ t \in unborn
      /\ unborn' = unborn \ {t} /\ fresh' = fresh \cup {t}
      /\ latest' = [latest EXCEPT ![t] = 1]
      /\ shards' = shards \cup {t}
      /\ UNCHANGED <<flush, disk, purged, promised>>
  BY DEF CreateThread
<1>3. /\ marks'.dirty /\ marks'.envelope
      /\ marks'.dirtyIds = marks.dirtyIds \cup {t}
      /\ marks'.deletedIds = marks.deletedIds \ {t}
      /\ mem'.rows = mem.rows \cup {t} /\ mem'.meta = mem.meta
  BY <1>1, MarksEffect
<1>4. (Live' <=> Live) /\ InFlight' = InFlight
  BY <1>2 DEF Live, InFlight
<1>5. EnvelopeInv'
  BY <1>2, <1>3, <1>4 DEF IInv, EnvelopeInv
<1>6. /\ latest'[t] = 1 /\ \A u \in Threads \ {t} : latest'[u] = latest[u]
      /\ t \notin InFlight
  BY <1>1, <1>2 DEF IInv, ThreadInv, UnbornInv, TypeOK, InFlight
<1>7. ASSUME NEW u \in Threads PROVE ThreadInv(u)'
  <2>1. MemoryInv(u)'
    BY <1>1, <1>2, <1>3, <1>4, <1>6, HydratedEffect
       DEF IInv, ThreadInv, MemoryInv, ShardInv, Evictable
  <2>2. ShardInv(u)'
    BY <1>1, <1>2, <1>3, <1>4, <1>6 DEF IInv, ThreadInv, ShardInv
  <2>3. UnbornInv(u)'
    BY <1>1, <1>2, <1>3, <1>4 DEF IInv, ThreadInv, UnbornInv
  <2>4. RowInv(u)'
    BY <1>1, <1>2, <1>3, <1>4 DEF IInv, ThreadInv, UnbornInv, RowInv
  <2>5. u \notin Logs => FileInv(u)'
    BY <1>1, <1>2, <1>3, <1>4 DEF IInv, ThreadInv, UnbornInv, FileInv
  <2>6. PromiseInv(u)'
    BY <1>1, <1>2, <1>3, <1>4, <1>6 DEF IInv, ThreadInv, UnbornInv, PromiseInv
  <2> QED
    BY <2>1, <2>2, <2>3, <2>4, <2>5, <2>6 DEF ThreadInv
<1> QED
  BY <1>1, <1>5, <1>7 DEF IInv

LEMMA InvRemove == ASSUME IInv, NEW t \in Threads, RemoveThread(t) PROVE IInv'
<1>1. TypeInv' /\ TypeOK
  BY TypeRemove DEF IInv, TypeInv
<1>2. /\ t \in mem.rows
      /\ hydrated' = [hydrated EXCEPT ![t] = 0] /\ latest' = [latest EXCEPT ![t] = 0]
      /\ shards' = shards \ {t} /\ purged' = purged \cup {t}
      /\ UNCHANGED <<flush, disk, unborn, fresh, promised>>
  BY DEF RemoveThread, ageVars
<1>3. /\ marks'.dirty /\ marks'.envelope
      /\ marks'.dirtyIds = marks.dirtyIds \ {t}
      /\ marks'.deletedIds = marks.deletedIds \cup {t}
      /\ mem'.rows = mem.rows \ {t} /\ mem'.meta = mem.meta
  BY <1>1, MarksEffect
<1>4. (Live' <=> Live) /\ InFlight' = InFlight
  BY <1>2 DEF Live, InFlight
<1>5. EnvelopeInv'
  BY <1>2, <1>3, <1>4 DEF IInv, EnvelopeInv
<1>6. ASSUME NEW u \in Threads PROVE ThreadInv(u)'
  BY <1>1, <1>2, <1>3, <1>4
     DEF IInv, ThreadInv, MemoryInv, ShardInv, UnbornInv, RowInv, FileInv, PromiseInv, TypeOK
<1> QED
  BY <1>1, <1>5, <1>6 DEF IInv

LEMMA InvUpdate == ASSUME IInv, UpdateThread PROVE IInv'
<1>1. TypeInv' /\ TypeOK
  BY TypeUpdate DEF IInv, TypeInv
<1>2. UNCHANGED <<hydrated, shards, flush, disk, unborn, fresh, latest, promised, purged>>
  BY DEF UpdateThread, ageVars
<1>3. /\ marks'.dirty /\ marks'.envelope
      /\ marks'.dirtyIds = marks.dirtyIds /\ marks'.deletedIds = marks.deletedIds
      /\ mem'.rows = mem.rows /\ mem'.meta = mem.meta + 1
  <2>1. marks \in MarksType /\ marks' = Marked(marks) /\ mem' = [mem EXCEPT !.meta = @ + 1]
    BY <1>1 DEF TypeOK, MarksType, UpdateThread
  <2> QED
    BY <1>1, <2>1, MarkedFields DEF TypeOK, Envelope
<1>4. (Live' <=> Live) /\ InFlight' = InFlight
  BY <1>2 DEF Live, InFlight
<1>5. EnvelopeInv'
  BY <1>1, <1>2, <1>3, <1>4 DEF IInv, EnvelopeInv, TypeOK, Promises, Envelope, Files
<1>6. ASSUME NEW u \in Threads PROVE ThreadInv(u)'
  BY <1>2, <1>3, <1>4
     DEF IInv, ThreadInv, MemoryInv, ShardInv, UnbornInv, RowInv, FileInv, PromiseInv
<1> QED
  BY <1>1, <1>5, <1>6 DEF IInv

\* What a boot needs of the files that it finds, thread by thread.
Bootable(d, t) ==
    /\ t \in d.rows => t \in promised'.files.rows \/ t \in promised'.unborn
    /\ t \in promised'.files.rows => t \notin fresh'
    /\ t \notin purged => promised'.files.file[t] <= d.file[t]
    /\ t \in d.rows \/ t \in purged \/ t \in unborn \/ t \in fresh'
    /\ t \notin Logs /\ d.file[t] # 0 => t \in d.rows \/ t \in fresh'
    /\ t \in unborn =>
          /\ t \notin d.rows /\ t \notin fresh' /\ t \notin purged /\ d.file[t] = 0
          /\ t \in promised'.unborn /\ t \notin promised'.files.rows
          /\ promised'.files.file[t] = 0

LEMMA InvLoad ==
    ASSUME IInv, TypeInv', NEW d \in Files, Load(d), promised'.files.meta <= d.meta,
           \A t \in Threads : Bootable(d, t)
    PROVE  IInv'
<1>1. /\ disk' = d /\ mem' = [rows |-> d.rows, meta |-> d.meta] /\ flush' = NoFlush
      /\ purged' = purged /\ unborn' = unborn
      /\ marks' = [dirtyIds |-> {}, deletedIds |-> {}, dirty |-> FALSE, envelope |-> FALSE]
  BY DEF Load
<1>2. /\ ~Live' /\ InFlight' = {} /\ flush'.deleted = {}
      /\ \A t \in Threads : flush'.writes[t] = 0
  BY <1>1 DEF Live, NoFlush, InFlight
<1>3. EnvelopeInv'
  BY <1>1, <1>2 DEF EnvelopeInv, ShardsDirty
<1>4. ASSUME NEW t \in Threads PROVE ThreadInv(t)'
  <2>1. /\ hydrated'[t] = 0 /\ latest'[t] = IF t \in d.rows THEN d.file[t] ELSE 0
        /\ t \in shards' <=> d.file[t] # 0
    BY DEF Load
  <2>2. Bootable(d, t)
    OBVIOUS
  <2> QED
    BY <1>1, <1>2, <2>1, <2>2
       DEF Bootable, ThreadInv, MemoryInv, ShardInv, UnbornInv, RowInv, FileInv, PromiseInv
<1> QED
  BY <1>3, <1>4 DEF IInv

LEMMA InvExit == ASSUME IInv, Exit PROVE IInv'
<1>1. TypeInv' /\ TypeOK
  BY TypeExit DEF IInv, TypeInv
<1>2. PICK d \in Files :
             /\ Load(d)
             /\ \/ d = AllWritten /\ promised' = Promise /\ fresh' = StillFresh
                \/ d = disk /\ promised' = promised /\ fresh' = fresh
  BY <1>1, ExitEffect
<1>3. CASE d = AllWritten /\ promised' = Promise /\ fresh' = StillFresh
  <2>1. /\ d.rows = mem.rows /\ d.meta \in Nat /\ \A t \in Threads : d.file[t] \in Nat
        /\ promised'.files = d /\ promised'.unborn = unborn
        /\ fresh' = fresh \ (mem.rows \cup Replayed.deletedIds)
    BY <1>1, <1>2, <1>3, AllWrittenFields, BoundsAssumption DEF Files, Version, Promise, StillFresh
  <2>2. ASSUME NEW t \in Threads PROVE Bootable(d, t)
    <3>1. /\ t \in Replayed.deletedIds => t \in purged /\ t \notin mem.rows
          /\ t \in Replayed.dirtyIds => t \in mem.rows \/ t \in purged
      BY <1>1, ReplayedFields, InFlightDef DEF IInv, ThreadInv, RowInv
    <3>2. t \notin Logs /\ d.file[t] # 0 => t \in mem.rows \/ t \in fresh'
      <4>1. t \notin Logs /\ t \in NonEmpty(Writes(Replayed)) => t \in mem.rows
        BY <1>1, AllWrittenFields, ContentType DEF IInv, ThreadInv, MemoryInv
      <4>2. t \notin NonEmpty(Writes(Replayed)) /\ d.file[t] # 0 =>
               disk.file[t] # 0 /\ t \notin Replayed.deletedIds
        BY <1>1, <1>3, AllWrittenFields
      <4>3. t \notin Logs /\ disk.file[t] # 0 /\ t \notin Replayed.deletedIds =>
               t \in mem.rows \/ t \in fresh'
        BY <1>1, <2>1, ReplayedFields DEF IInv, ThreadInv, RowInv, FileInv, Live
      <4> QED
        BY <4>1, <4>2, <4>3
    <3>3. t \in unborn => d.file[t] = 0
      BY <1>1, <1>3, <3>1, AllWrittenFields, ContentType DEF IInv, ThreadInv, UnbornInv
    <3>4. /\ t \in mem.rows \/ t \in purged \/ t \in unborn \/ t \in fresh
          /\ t \in unborn => t \notin mem.rows /\ t \notin fresh /\ t \notin purged
      BY DEF IInv, ThreadInv, RowInv, UnbornInv
    <3> QED
      BY <2>1, <3>1, <3>2, <3>3, <3>4 DEF Bootable
  <2> QED
    BY <1>1, <1>2, <2>1, <2>2, InvLoad
<1>4. CASE d = disk /\ promised' = promised /\ fresh' = fresh
  <2>1. promised.files.meta <= disk.meta
    BY DEF IInv, EnvelopeInv
  <2>2. ASSUME NEW t \in Threads PROVE Bootable(d, t)
    <3>1. t \in disk.rows \/ t \in purged \/ t \in unborn \/ t \in fresh
      BY DEF IInv, ThreadInv, RowInv
    <3> QED
      BY <1>4, <3>1 DEF Bootable, IInv, ThreadInv, UnbornInv, FileInv, PromiseInv
  <2> QED
    BY <1>1, <1>2, <1>4, <2>1, <2>2, InvLoad
<1> QED
  BY <1>2, <1>3, <1>4

LEMMA InvCrash == ASSUME IInv, Crash PROVE IInv'
<1>1. TypeInv' /\ TypeOK
  BY TypeCrash DEF IInv, TypeInv
<1>2. PICK d \in Files : Load(d) /\ Left(d)
  BY <1>1, CrashEffect
<1>3. promised' = promised /\ fresh' = fresh
  BY <1>1, CrashEffect
<1>4. promised.files.meta <= d.meta
  BY <1>2 DEF Left, IInv, EnvelopeInv
<1>5. ASSUME NEW t \in Threads PROVE Bootable(d, t)
  <2>1. d.rows = disk.rows
    BY <1>2 DEF Left
  <2>2. \/ d.file[t] = disk.file[t]
        \/ Live /\ t \in flush.deleted /\ d.file[t] = 0
        \/ Live /\ t \in InFlight /\ d.file[t] = flush.writes[t] /\ flush.writes[t] # 0
    BY <1>2, InFlightDef DEF Left, Live
  <2>3. t \in disk.rows \/ t \in purged \/ t \in unborn \/ t \in fresh
    BY DEF IInv, ThreadInv, RowInv
  <2>4. t \notin purged => promised.files.file[t] <= d.file[t]
    BY <2>2 DEF IInv, ThreadInv, RowInv, PromiseInv
  <2>5. t \notin Logs /\ d.file[t] # 0 => t \in disk.rows \/ t \in fresh
    BY <2>2 DEF IInv, ThreadInv, FileInv
  <2>6. t \in unborn => d.file[t] = 0
    BY <2>2 DEF IInv, ThreadInv, UnbornInv
  <2> QED
    BY <1>3, <2>1, <2>3, <2>4, <2>5, <2>6 DEF Bootable, IInv, ThreadInv, UnbornInv, PromiseInv
<1> QED
  BY <1>1, <1>2, <1>3, <1>4, <1>5, InvLoad

LEMMA InvStep == IInv /\ [Next]_vars => IInv'
<1> SUFFICES ASSUME IInv, [Next]_vars PROVE IInv'
  OBVIOUS
<1>1. CASE UNCHANGED vars
  <2>1. UNCHANGED <<mem, hydrated, shards, marks, flush, disk, unborn, fresh, latest, purged, promised>>
    BY <1>1 DEF vars, historyVars, ageVars
  <2>2. TypeInv'
    BY <1>1, TypeStep DEF IInv
  <2>3. (Live' <=> Live) /\ InFlight' = InFlight
    BY <2>1 DEF Live, InFlight
  <2> QED
    BY <2>1, <2>2, <2>3
       DEF IInv, EnvelopeInv, ShardsDirty, ThreadInv, MemoryInv, ShardInv, UnbornInv, RowInv,
           FileInv, PromiseInv
<1>2. CASE WindowOpens
  <2>1. UNCHANGED <<mem, hydrated, shards, marks, flush, disk, unborn, fresh, latest, purged, promised>>
    BY <1>2 DEF WindowOpens, historyVars, ageVars
  <2>2. TypeInv'
    BY <1>2, TypeWindow DEF IInv
  <2>3. (Live' <=> Live) /\ InFlight' = InFlight
    BY <2>1 DEF Live, InFlight
  <2> QED
    BY <2>1, <2>2, <2>3
       DEF IInv, EnvelopeInv, ShardsDirty, ThreadInv, MemoryInv, ShardInv, UnbornInv, RowInv,
           FileInv, PromiseInv
<1> QED
  BY <1>1, <1>2, InvCreate, InvRead, InvAppend, InvRemove, InvUpdate, InvFlushAsync, InvFlushStale,
     InvFlushCommits, InvFlushFails, InvSaveNow, InvSaveNowFails, InvExit, InvCrash DEF Next, FlushEnds

-----------------------------------------------------------------------------
(* The theorems.                                                           *)

\* The invariant holds in every behaviour of the store.
THEOREM Invariant == Spec => []IInv
<1>1. Init => IInv
  BY InitInv
<1>2. IInv /\ [Next]_vars => IInv'
  BY InvStep
<1> QED
  BY <1>1, <1>2, PTL DEF Spec

\* Every variable has its type: no read, append, flush, saveNow or boot leaves
\* a version that was never given, or a mark for a thread there is not.
THEOREM TypeCorrect == Spec => []TypeOK
<1>1. IInv => TypeOK
  BY DEF IInv, TypeInv
<1> QED
  BY <1>1, Invariant, PTL

\* getMessages returns a transcript as it was last written, whatever was
\* evicted, flushed, dropped as stale or failed in between.
THEOREM ReadsCorrect == Spec => []ReadsAreCurrent
<1>1. IInv => ReadsAreCurrent
  BY DEF IInv, TypeInv, TypeOK, Envelope, ThreadInv, MemoryInv, ReadsAreCurrent, View
<1> QED
  BY <1>1, Invariant, PTL

\* Memory and disk differ only where a mark or a live flush says so, and a
\* mark reads dirty: no path of _flushAsync and saveNow drops a change.
THEOREM NothingLost == Spec => []NothingForgotten
<1>1. IInv => NothingForgotten
  BY DEF IInv, TypeInv, TypeOK, Envelope, ThreadInv, ShardInv, EnvelopeInv, Live, NothingForgotten
<1> QED
  BY <1>1, Invariant, PTL

\* What a saveNow wrote, no flush that was under way takes back, in whatever
\* order they end, fail or are cut short by a crash.
THEOREM Durable == Spec => []SaveNowIsDurable
<1>1. ASSUME IInv PROVE SaveNowIsDurable
  <2>1. disk.meta >= promised.files.meta
    BY <1>1 DEF IInv, EnvelopeInv, TypeInv, TypeOK, Promises, Files
  <2>2. disk.rows \subseteq promised.files.rows \cup promised.unborn
    BY <1>1 DEF IInv, TypeInv, TypeOK, Files, ThreadInv, PromiseInv
  <2>3. promised.files.rows \subseteq disk.rows \cup purged
    BY <1>1 DEF IInv, TypeInv, TypeOK, Promises, Files, ThreadInv, UnbornInv, RowInv, PromiseInv
  <2>4. \A t \in Threads \ purged : disk.file[t] >= promised.files.file[t]
    BY <1>1 DEF IInv, TypeInv, TypeOK, Promises, Files, ThreadInv, PromiseInv
  <2> QED
    BY <2>1, <2>2, <2>3, <2>4 DEF SaveNowIsDurable
<1> QED
  BY <1>1, Invariant, PTL

\* A transcript's file belongs to a row on disk or is marked for deletion, also
\* when its thread is removed while it is being written, or an unlink fails;
\* but for the file of a new thread, which may be there before its row.
THEOREM NoOrphans == Spec => []NoOrphanShard
<1>1. IInv => NoOrphanShard
  BY DEF IInv, ThreadInv, RowInv, FileInv, NoOrphanShard, Live
<1> QED
  BY <1>1, Invariant, PTL
=============================================================================
