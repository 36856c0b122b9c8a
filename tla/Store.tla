------------------------------- MODULE Store -------------------------------
(***************************************************************************)
(* The persistence of electron/store.js: an envelope (thread rows and all  *)
(* that is small) and one shard file for each thread's transcript.         *)
(*                                                                         *)
(* save() marks what changed and arms a timer.  The timer starts a flush:  *)
(* a snapshot, written off the event loop, and renamed into place in one   *)
(* piece when it is complete.  The envelope rides along when its throttle  *)
(* window is open.  saveNow() writes everything before it returns, and     *)
(* makes a flush that is under way stale.  Transcripts that are clean may  *)
(* be dropped from memory and read again from their shards.                *)
(*                                                                         *)
(* A thread has a second shard, its work log, with marks of its own.  It   *)
(* is written like a transcript but for two things: the LRU never drops    *)
(* it, and a mark for a log that was removed writes an empty one.  Here a  *)
(* thread stands for one of its shards: Logs are those whose shard is a    *)
(* work log.                                                               *)
(*                                                                         *)
(* Abstracted: a shard's content is a version number, 0 when there is no   *)
(* shard and 1 for what it is created with; the rest of the envelope is a  *)
(* version number too, and side files ride with it.  Which clean           *)
(* transcripts the LRU drops is free, and so is time.  Not here: the       *)
(* unparsed text of a shard, the split of old envelopes, corrupt files and *)
(* their backup, what recovery adds at load.                               *)
(***************************************************************************)
EXTENDS Naturals, FiniteSets

CONSTANTS
    Threads,      \* all threads
    FirstThreads, \* those in the store at the first boot
    Logs,         \* those that stand for a work log
    MaxAppends,   \* bound: messages appended to all transcripts together
    MaxMeta,      \* bound: versions of the rest of the envelope
    MaxFails,     \* bound: failed writes
    MaxRestarts   \* bound: exits and crashes

ASSUME ThreadsAssumption ==
    IsFiniteSet(Threads) /\ FirstThreads \subseteq Threads /\ Logs \subseteq Threads
ASSUME BoundsAssumption ==
    /\ MaxAppends \in Nat /\ MaxMeta \in Nat
    /\ MaxFails \in Nat /\ MaxRestarts \in Nat

VARIABLES
    mem,          \* the envelope in memory
    hydrated,     \* _messagesHydrated; 0 for a thread that is not parsed
    shards,       \* _messageShards: threads that are believed to have a file
    marks,        \* what is to be written
    timer,        \* the flush timer is armed
    window,       \* the throttle window of the envelope is open
    flush,        \* the flush under way
    disk,         \* the files
    unborn,       \* threads that were never created
    latest,       \* history: the last version given to each transcript
    promised,     \* history: what the last saveNow that returned has written
    purged,       \* history: threads that were ever removed
    fresh,        \* history: created, and in no envelope written since
    broke,        \* history: a saveNow failed, and no save() came since
    appends, fails, restarts

ageVars == <<unborn, fresh>>
countVars == <<appends, fails, restarts>>
historyVars == <<latest, promised, purged, broke>>
vars == <<mem, hydrated, shards, marks, timer, window, flush, disk, ageVars, historyVars, countVars>>

Version == 0..(1 + MaxAppends)
Envelope == [rows: SUBSET Threads, meta: 0..MaxMeta]
Files == [rows: SUBSET Threads, meta: 0..MaxMeta, file: [Threads -> Version]]
Promises == [files: Files, unborn: SUBSET Threads]
NoEnvelope == [rows |-> {}, meta |-> MaxMeta + 1]
NoFlush == [on |-> FALSE, stale |-> FALSE, writes |-> [t \in Threads |-> 0], deleted |-> {},
            env |-> NoEnvelope]

TypeOK ==
    /\ mem \in Envelope
    /\ hydrated \in [Threads -> Version]
    /\ shards \subseteq Threads
    /\ marks \in [dirtyIds: SUBSET Threads, deletedIds: SUBSET Threads,
                  dirty: BOOLEAN, envelope: BOOLEAN]
    /\ timer \in BOOLEAN /\ window \in BOOLEAN
    /\ flush \in [on: BOOLEAN, stale: BOOLEAN, writes: [Threads -> Version],
                  deleted: SUBSET Threads, env: Envelope \cup {NoEnvelope}]
    /\ disk \in Files /\ promised \in Promises
    /\ latest \in [Threads -> Version]
    /\ unborn \subseteq Threads /\ fresh \subseteq Threads
    /\ purged \subseteq Threads /\ broke \in BOOLEAN
    /\ appends \in 0..MaxAppends /\ fails \in 0..MaxFails /\ restarts \in 0..MaxRestarts

-----------------------------------------------------------------------------
(* Changes in memory.                                                      *)

\* What getMessages returns.
View(t) ==
    CASE hydrated[t] # 0 -> hydrated[t]
      [] hydrated[t] = 0 /\ t \in shards -> disk.file[t]
      [] OTHER -> 0

\* Threads whose transcript is part of the flush under way.
InFlight == IF flush.on THEN {t \in Threads : flush.writes[t] # 0} ELSE {}

\* Mutant: a transcript that is being written counts as clean.
EvictsInFlight(t) ==
    {u \in shards \ ({t} \cup Logs) : hydrated[u] # 0 /\ u \notin marks.dirtyIds \cup marks.deletedIds}

\* _evictHydrated may drop these when t has just been read.
Evictable(t) ==
    {u \in shards \ ({t} \cup Logs) : /\ hydrated[u] # 0
                                      /\ u \notin marks.dirtyIds \cup marks.deletedIds
                                      /\ u \notin InFlight}

\* markDirty: every mark counts as a change of the envelope.
Marked(m) == [m EXCEPT !.dirty = TRUE, !.envelope = TRUE]

\* _hydrateMessages, and what it drops to make room; a work log makes none.
Hydrated(t, v) ==
    \E gone \in SUBSET (IF hydrated[t] = 0 /\ t \notin Logs THEN Evictable(t) ELSE {}) :
        hydrated' = [u \in Threads |-> IF u = t THEN v
                                       ELSE IF u \in gone THEN 0 ELSE hydrated[u]]

ReadMessages(t) ==
    /\ t \in mem.rows /\ hydrated[t] = 0 /\ View(t) # 0
    /\ Hydrated(t, View(t))
    /\ UNCHANGED <<mem, shards, marks, timer, window, flush, disk, ageVars, historyVars, countVars>>

\* createThread and forkThread: the row, its shard and the save() of both.
CreateThread(t) ==
    /\ t \in unborn
    /\ unborn' = unborn \ {t}
    /\ fresh' = fresh \cup {t}
    /\ mem' = [mem EXCEPT !.rows = @ \cup {t}]
    /\ Hydrated(t, 1)
    /\ shards' = shards \cup {t}
    /\ marks' = Marked([marks EXCEPT !.dirtyIds = @ \cup {t}, !.deletedIds = @ \ {t}])
    /\ timer' = TRUE
    /\ latest' = [latest EXCEPT ![t] = 1]
    /\ broke' = FALSE
    /\ UNCHANGED <<window, flush, disk, promised, purged, countVars>>

\* appendMessage and the caller's save().
AppendMessage(t) ==
    /\ t \in mem.rows
    /\ appends < MaxAppends
    /\ appends' = appends + 1
    /\ Hydrated(t, View(t) + 1)
    /\ shards' = shards \cup {t}
    /\ marks' = Marked([marks EXCEPT !.dirtyIds = @ \cup {t}, !.deletedIds = @ \ {t}])
    /\ timer' = TRUE
    /\ latest' = [latest EXCEPT ![t] = @ + 1]
    /\ broke' = FALSE
    /\ UNCHANGED <<mem, window, flush, disk, promised, purged, ageVars, fails, restarts>>

\* updateThread and the like; cheap bookkeeping only marks, and arms no timer.
UpdateThread ==
    /\ mem.meta < MaxMeta
    /\ mem' = [mem EXCEPT !.meta = @ + 1]
    /\ marks' = Marked(marks)
    /\ \/ timer' = TRUE /\ broke' = FALSE
       \/ UNCHANGED <<timer, broke>>
    /\ UNCHANGED <<hydrated, shards, window, flush, disk, latest, promised, purged, ageVars,
                   countVars>>

\* Mutant: the shard is forgotten, and not marked for deletion.
RemoveLeavesShard(t) ==
    /\ t \in mem.rows
    /\ mem' = [mem EXCEPT !.rows = @ \ {t}]
    /\ hydrated' = [hydrated EXCEPT ![t] = 0]
    /\ shards' = shards \ {t}
    /\ marks' = Marked([marks EXCEPT !.dirtyIds = @ \ {t}])
    /\ timer' = TRUE
    /\ latest' = [latest EXCEPT ![t] = 0]
    /\ purged' = purged \cup {t}
    /\ broke' = FALSE
    /\ UNCHANGED <<window, flush, disk, promised, ageVars, countVars>>

\* removeThread, through purgeThread and its callers' save().
RemoveThread(t) ==
    /\ t \in mem.rows
    /\ mem' = [mem EXCEPT !.rows = @ \ {t}]
    /\ hydrated' = [hydrated EXCEPT ![t] = 0]
    /\ shards' = shards \ {t}
    /\ marks' = Marked([marks EXCEPT !.dirtyIds = @ \ {t}, !.deletedIds = @ \cup {t}])
    /\ timer' = TRUE
    /\ latest' = [latest EXCEPT ![t] = 0]
    /\ purged' = purged \cup {t}
    /\ broke' = FALSE
    /\ UNCHANGED <<window, flush, disk, promised, ageVars, countVars>>

-----------------------------------------------------------------------------
(* The debounced flush.                                                    *)

\* What a marked shard is written with: a work log that is gone gives [].
Content(t) == IF t \in Logs /\ hydrated[t] = 0 THEN 1 ELSE hydrated[t]

\* _snapshotDirtyShards: the shards to write; those to unlink are marked.
Writes(m) ==
    [t \in Threads |-> IF t \in m.dirtyIds \ m.deletedIds THEN Content(t) ELSE 0]

Written(file, writes, some) == [t \in Threads |-> IF t \in some THEN writes[t] ELSE file[t]]
Unlinked(file, gone) == [t \in Threads |-> IF t \in gone THEN 0 ELSE file[t]]
NonEmpty(writes) == {t \in Threads : writes[t] # 0}

ShardsDirty == marks.dirtyIds # {} \/ marks.deletedIds # {}

\* The envelope is written in an open window, or together with a delete.
WriteEnvelope == marks.envelope /\ (marks.deletedIds # {} \/ window)

\* _flushAsync up to its first await.
FlushAsync ==
    /\ timer
    /\ \/ \* The flush under way looks again when it is done.
          /\ flush.on \/ ~marks.dirty
          /\ timer' = (flush.on /\ marks.dirty)
          /\ UNCHANGED <<marks, flush>>
       \/ \* Nothing but a throttled envelope, if that.
          /\ ~flush.on /\ marks.dirty /\ ~WriteEnvelope /\ ~ShardsDirty
          /\ timer' = marks.envelope
          /\ marks' = [marks EXCEPT !.dirty = marks.envelope]
          /\ UNCHANGED flush
       \/ /\ ~flush.on /\ marks.dirty /\ (WriteEnvelope \/ ShardsDirty)
          /\ timer' = FALSE
          /\ marks' = [dirtyIds |-> {}, deletedIds |-> {},
                       dirty |-> marks.envelope /\ ~WriteEnvelope,
                       envelope |-> marks.envelope /\ ~WriteEnvelope]
          /\ flush' = [on |-> TRUE, stale |-> FALSE, writes |-> Writes(marks),
                       deleted |-> marks.deletedIds,
                       env |-> IF WriteEnvelope THEN mem ELSE NoEnvelope]
    /\ UNCHANGED <<mem, hydrated, shards, window, disk, ageVars, historyVars, countVars>>

\* Mutant: nobody looks again.
FlushOverAtOnce(m) ==
    /\ marks' = m
    /\ flush' = NoFlush
    /\ UNCHANGED <<timer, mem, hydrated, historyVars, appends, restarts>>

\* The tail of a flush: what is dirty again is flushed again.
FlushOver(m) ==
    /\ marks' = m
    /\ flush' = NoFlush
    /\ timer' = (timer \/ m.dirty)
    /\ UNCHANGED <<mem, hydrated, historyVars, appends, restarts>>

\* A saveNow came in between: the snapshot is dropped.
FlushStale ==
    /\ flush.on /\ flush.stale
    /\ FlushOver(marks)
    /\ UNCHANGED <<shards, window, disk, fails, ageVars>>

\* Mutant: an envelope is written that was never serialized.
CommitsNoEnvelope ==
    /\ flush.on /\ ~flush.stale
    /\ disk' = [rows |-> flush.env.rows, meta |-> flush.env.meta,
                 file |-> Written(Unlinked(disk.file, flush.deleted), flush.writes, InFlight)]
    /\ window' = FALSE
    /\ FlushOver(marks)
    /\ shards' = shards \cup InFlight
    /\ UNCHANGED <<fails, ageVars>>

\* The renames, all in one piece; the envelope waits if a file cannot be
\* unlinked.
FlushCommits ==
    /\ flush.on /\ ~flush.stale
    /\ \E stuck \in SUBSET flush.deleted :
        LET env == stuck = {} /\ flush.env # NoEnvelope
            file == Written(Unlinked(disk.file, flush.deleted \ stuck), flush.writes, InFlight)
        IN  /\ fails + Cardinality(stuck) <= MaxFails
            /\ fails' = fails + Cardinality(stuck)
            /\ disk' = IF env THEN [rows |-> flush.env.rows, meta |-> flush.env.meta, file |-> file]
                       ELSE [disk EXCEPT !.file = file]
            /\ fresh' = IF env THEN fresh \ (flush.env.rows \cup flush.deleted) ELSE fresh
            /\ window' = (window /\ ~env)
            /\ FlushOver(IF stuck = {} THEN marks
                         ELSE [marks EXCEPT !.deletedIds = @ \cup stuck, !.dirty = TRUE,
                                            !.envelope = @ \/ flush.env # NoEnvelope])
    /\ shards' = shards \cup InFlight
    /\ UNCHANGED unborn

\* Mutant: what failed is not marked again.
FailsSilently ==
    /\ flush.on /\ ~flush.stale
    /\ fails < MaxFails
    /\ fails' = fails + 1
    /\ FlushOver([marks EXCEPT !.dirty = TRUE, !.envelope = @ \/ flush.env # NoEnvelope])
    /\ UNCHANGED <<disk, shards, window, ageVars>>

\* A write fails, or a rename after some others: all of it is marked again.
FlushFails ==
    /\ flush.on /\ ~flush.stale
    /\ fails < MaxFails
    /\ fails' = fails + 1
    /\ \/ UNCHANGED <<disk, shards>>
       \/ \E some \in SUBSET InFlight :
             /\ disk' = [disk EXCEPT
                   !.file = Written(Unlinked(@, flush.deleted), flush.writes, some)]
             /\ shards' = shards \cup some
    /\ FlushOver([dirtyIds |-> marks.dirtyIds \cup InFlight,
                  deletedIds |-> marks.deletedIds \cup flush.deleted,
                  dirty |-> TRUE, envelope |-> marks.envelope \/ flush.env # NoEnvelope])
    /\ UNCHANGED <<window, ageVars>>

\* ENVELOPE_THROTTLE_MS have passed.
WindowOpens ==
    /\ ~window
    /\ window' = TRUE
    /\ UNCHANGED <<mem, hydrated, shards, marks, timer, flush, disk, ageVars, historyVars, countVars>>

-----------------------------------------------------------------------------
(* saveNow.                                                                *)

\* What a flush under way was to write is to be written again, unless it was
\* written or deleted since.
Replayed ==
    LET deletes == IF flush.on THEN flush.deleted \ marks.dirtyIds ELSE {}
        deleted == marks.deletedIds \cup deletes
        writes == InFlight \ deleted
    IN  [marks EXCEPT !.dirtyIds = (@ \ deletes) \cup writes, !.deletedIds = deleted]

\* A transcript that a flush was writing when its thread was removed counts
\* as a shard again; reading it finds no file.
ShardsReplayed ==
    (shards \ (Replayed.deletedIds \ marks.deletedIds)) \cup (InFlight \ Replayed.deletedIds)

\* All deletes, all shards, then the envelope.
AllWritten ==
    [rows |-> mem.rows, meta |-> mem.meta,
     file |-> Written(Unlinked(disk.file, Replayed.deletedIds), Writes(Replayed),
                      NonEmpty(Writes(Replayed)))]

\* What a saveNow that returns promises, and whom it gave a row or unlinked.
Promise == [files |-> AllWritten, unborn |-> unborn]
StillFresh == fresh \ (mem.rows \cup Replayed.deletedIds)

AfterSaveNow(m) == IF m.dirtyIds \cup m.deletedIds = {} THEN [m EXCEPT !.dirty = FALSE] ELSE Marked(m)

\* Mutant: a flush under way is not made stale.
SaveNowKeepsFlush ==
    LET r == Replayed
        left == r.dirtyIds \ NonEmpty(Writes(r))
    IN  /\ disk' = AllWritten
        /\ promised' = Promise
        /\ fresh' = StillFresh
        /\ marks' = AfterSaveNow([dirtyIds |-> left, deletedIds |-> {},
                                  dirty |-> marks.dirty, envelope |-> FALSE])
        /\ shards' = ShardsReplayed \cup NonEmpty(Writes(r))
        /\ timer' = FALSE
        /\ UNCHANGED <<mem, hydrated, window, flush, unborn, latest, purged, broke, countVars>>

SaveNow ==
    LET r == Replayed
        left == r.dirtyIds \ NonEmpty(Writes(r))
    IN  /\ disk' = AllWritten
        /\ promised' = Promise
        /\ fresh' = StillFresh
        /\ marks' = AfterSaveNow([dirtyIds |-> left, deletedIds |-> {},
                                  dirty |-> marks.dirty, envelope |-> FALSE])
        /\ shards' = ShardsReplayed \cup NonEmpty(Writes(r))
        /\ timer' = FALSE
        /\ flush' = [flush EXCEPT !.stale = @ \/ flush.on]
        /\ UNCHANGED <<mem, hydrated, window, unborn, latest, purged, broke, countVars>>

\* It throws half way, or a file cannot be unlinked: what did not land stays
\* marked, and no timer is armed.
SaveNowFails ==
    LET r == Replayed
        writes == Writes(r)
    IN  /\ fails < MaxFails
        /\ fails' = fails + 1
        /\ \E gone \in SUBSET r.deletedIds, some \in SUBSET NonEmpty(writes) :
              /\ disk' = [disk EXCEPT !.file = Written(Unlinked(@, gone), writes, some)]
              /\ marks' = Marked([r EXCEPT !.dirtyIds = @ \ some, !.deletedIds = @ \ gone])
              /\ shards' = ShardsReplayed \cup some
        /\ timer' = FALSE
        /\ flush' = [flush EXCEPT !.stale = @ \/ flush.on]
        /\ broke' = TRUE
        /\ UNCHANGED <<mem, hydrated, window, ageVars, latest, promised, purged, appends, restarts>>

-----------------------------------------------------------------------------
(* The end of the process and the next boot.                               *)

\* _load: the rows of the envelope, and whatever shard files there are.
Load(d) ==
    /\ disk' = d
    /\ mem' = [rows |-> d.rows, meta |-> d.meta]
    /\ hydrated' = [t \in Threads |-> 0]
    /\ shards' = {t \in Threads : d.file[t] # 0}
    /\ marks' = [dirtyIds |-> {}, deletedIds |-> {}, dirty |-> FALSE, envelope |-> FALSE]
    /\ timer' = FALSE /\ window' = TRUE
    /\ flush' = NoFlush
    /\ latest' = [t \in Threads |-> IF t \in d.rows THEN d.file[t] ELSE 0]
    /\ broke' = FALSE
    /\ restarts' = restarts + 1
    /\ UNCHANGED <<unborn, purged, appends, fails>>

\* The exit hook saves what is marked.
Exit ==
    /\ restarts < MaxRestarts
    /\ promised' = IF marks.dirty THEN Promise ELSE promised
    /\ fresh' = IF marks.dirty THEN StillFresh ELSE fresh
    /\ Load(IF marks.dirty THEN AllWritten ELSE disk)

\* The process dies, perhaps between two renames of a flush.
Crash ==
    /\ restarts < MaxRestarts
    /\ \/ Load(disk)
       \/ /\ flush.on /\ ~flush.stale
          /\ \E gone \in SUBSET flush.deleted :
                Load([disk EXCEPT !.file = Unlinked(@, gone)])
       \/ /\ flush.on /\ ~flush.stale
          /\ \E some \in SUBSET InFlight :
                Load([disk EXCEPT
                   !.file = Written(Unlinked(@, flush.deleted), flush.writes, some)])
    /\ UNCHANGED <<promised, fresh>>

-----------------------------------------------------------------------------

FirstBoot == [rows |-> FirstThreads, meta |-> 0,
              file |-> [t \in Threads |-> IF t \in FirstThreads THEN 1 ELSE 0]]

Init ==
    /\ disk = FirstBoot /\ promised = [files |-> FirstBoot, unborn |-> Threads \ FirstThreads]
    /\ mem = [rows |-> FirstThreads, meta |-> 0]
    /\ hydrated = [t \in Threads |-> 0]
    /\ shards = FirstThreads
    /\ marks = [dirtyIds |-> {}, deletedIds |-> {}, dirty |-> FALSE, envelope |-> FALSE]
    /\ timer = FALSE /\ window = TRUE
    /\ flush = NoFlush
    /\ unborn = Threads \ FirstThreads /\ fresh = {}
    /\ latest = FirstBoot.file
    /\ purged = {} /\ broke = FALSE
    /\ appends = 0 /\ fails = 0 /\ restarts = 0

FlushEnds == FlushStale \/ FlushCommits \/ FlushFails

Next ==
    \/ \E t \in Threads : CreateThread(t) \/ ReadMessages(t) \/ AppendMessage(t) \/ RemoveThread(t)
    \/ UpdateThread
    \/ FlushAsync \/ FlushEnds \/ WindowOpens
    \/ SaveNow \/ SaveNowFails
    \/ Exit \/ Crash

Spec == Init /\ [][Next]_vars

FairSpec == Spec /\ WF_vars(FlushAsync) /\ WF_vars(FlushEnds) /\ WF_vars(WindowOpens)

-----------------------------------------------------------------------------
(* Safety.                                                                 *)

\* Whatever was evicted, flushed, dropped as stale or failed, a thread's
\* transcript reads as it was last written: _evictHydrated drops only what
\* its shard holds.
ReadsAreCurrent == \A t \in mem.rows : View(t) = latest[t]

\* What is on disk and what is in memory differ only where a mark or the
\* flush under way says so, and a mark always reads dirty, so that the timer,
\* the next save or the exit hook will write it.
NothingForgotten ==
    LET live == flush.on /\ ~flush.stale IN
    /\ \A t \in mem.rows : disk.file[t] # latest[t] =>
          t \in marks.dirtyIds \/ (live /\ flush.writes[t] = latest[t])
    /\ [rows |-> disk.rows, meta |-> disk.meta] # mem =>
          marks.envelope \/ (live /\ flush.env = mem)
    /\ ShardsDirty \/ marks.envelope => marks.dirty

\* What saveNow wrote stays written: a flush that was under way never puts an
\* older shard, an older envelope or a removed thread back, nor takes away a
\* row that was saved, whatever fails and whenever the process dies.
SaveNowIsDurable ==
    /\ disk.meta >= promised.files.meta
    /\ disk.rows \subseteq promised.files.rows \cup promised.unborn
    /\ promised.files.rows \subseteq disk.rows \cup purged
    /\ \A t \in Threads \ purged : disk.file[t] >= promised.files.file[t]

\* No transcript outlives its thread on disk: removing a thread while its
\* last messages are being written leaves no file that nobody would delete.
\* Only a new thread's shard may be there before its row, which the throttle
\* of the envelope holds back, and a crash at that point leaves it behind.  A
\* work log may come back empty, when saveNow's replay of a flush marks it
\* after another saveNow has deleted it.
NoOrphanShard ==
    \A t \in Threads \ Logs :
        disk.file[t] # 0 => t \in disk.rows \/ t \in marks.deletedIds \/ t \in fresh

-----------------------------------------------------------------------------
(* Liveness.                                                               *)

Saved == disk.rows = mem.rows /\ disk.meta = mem.meta /\ \A t \in mem.rows : disk.file[t] = latest[t]

\* What was saved with the debounce reaches the disk, also after failed
\* flushes and through the throttle of the envelope.  Only a saveNow that
\* failed leaves it waiting, for the next save() or the exit hook.
SavesReachDisk == timer ~> Saved \/ broke

-----------------------------------------------------------------------------
(* What the comments say, and the code does not do.                        *)

\* _scheduleFlush: "the exit hook is what guarantees the write".  A clean
\* exit loses nothing.
ExitLosesNothing ==
    [][Exit => /\ disk'.rows = mem.rows /\ disk'.meta = mem.meta
               /\ \A t \in mem.rows : disk'.file[t] = latest[t]]_vars
=============================================================================
