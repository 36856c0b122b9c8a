---------------------------- MODULE OrchNotices ----------------------------
(***************************************************************************)
(* The notices of an agent crew: electron/runner-orch-notices.js with its  *)
(* callers in runner.js and runner-verify-gate.js, and the parts of        *)
(* store.js that decide what a crash keeps of them, and the auto-resume of *)
(* runner-auto-resume.js, which may release at boot what a restart held.   *)
(*                                                                         *)
(* Workers run turns.  The end of a turn, or a message from a peer, is a   *)
(* notice for the crew's lead.  Notices wait in the lead's persisted queue *)
(* while the lead runs, and are flushed as one machine-delivered turn when *)
(* it is idle.  A flush empties the queue and starts the turn in the next  *)
(* microtask (`deferred').                                                 *)
(*                                                                         *)
(* The persisted part of the store is the record `mem'; `disk' is what the *)
(* last writes put on disk: save() is debounced, a transcript is written   *)
(* before the envelope that holds the rest, saveNow() writes all of it.    *)
(*                                                                         *)
(* Abstracted: a notice is its worker and its key; budget, binary and      *)
(* worktree checks refuse a start or not as they like; turns run without   *)
(* a verify command and without a cap on concurrent runs; the login PATH   *)
(* is captured; only the launch awaits of a machine-delivered turn are     *)
(* told apart from the turn itself.  Not here: Codex sessions shared with  *)
(* other programs (parkCodexFromNotice), reviewers' notices, the sweep of  *)
(* finished workers, leads that are workers, inbound cross-thread turns.   *)
(***************************************************************************)
EXTENDS Integers, Sequences, FiniteSets, SequencesExt

CONSTANTS
    Lead,         \* the crew's orchestrator
    Workers,      \* threads with orchWorker and handoffFrom the lead
    AutoCap,      \* CREW_AUTO_TURN_CAP
    MaxTurns,     \* bound: turns of all workers together
    MaxPeers,     \* bound: messages of peers
    MaxEvents,    \* bound: turns of workers and messages of peers together
    MaxPending,   \* bound: unsettled checkpoints or cancelled launches of the lead
    MaxRestarts   \* bound: quits and crashes

ASSUME WorkersAssumption == IsFiniteSet(Workers) /\ Lead \notin Workers
ASSUME CapAssumption == AutoCap \in Nat \ {0}
ASSUME BoundsAssumption ==
    /\ MaxTurns \in Nat /\ MaxPeers \in Nat /\ MaxEvents \in Nat
    /\ MaxPending \in Nat /\ MaxRestarts \in Nat

VARIABLES
    mem,          \* the persisted part of the store, in memory
    disk,         \* what a boot would load
    launching,    \* the lead's machine-delivered turn is in its launch awaits
    cancelled,    \* stopped launches whose awaits have not settled
    leadCommits,  \* done turns of the lead whose checkpoint commit is in flight
    commits,      \* the same of the workers
    deferred,     \* batches flushed, whose start is the next microtask
    starting,     \* noticeStarting holds the lead
    typed,        \* a follow-up of the user waits for the lead
    resume,       \* auto-resume after this boot: not looked at yet ("boot"), the
                  \* lead's turn is to be delivered ("queued"), or "done"
    phase,        \* "up", or "quitting" once stopAll has run
    turns,        \* run id of each worker's last turn
    peers,        \* messages of peers so far
    restarts,
    sent,         \* history: how often each notice was queued
    overlapped,   \* history: turns of a worker that began while an earlier one was
                  \* in its checkpoint commit, and those earlier ones
    streak,       \* history: machine-delivered turns of the lead since the user's
                  \* last, but for one whose count a crash lost
    restored,     \* history: notices that a boot found, which nobody released yet
    stranded,     \* history: a launch threw while notices were queued
    halt          \* history: whether the user stopped the lead and nobody acted
                  \* since, and the commits that were in flight at that Stop

leadVars == <<launching, cancelled, leadCommits>>
countVars == <<turns, peers, restarts>>
histVars == <<sent, overlapped, streak, restored, stranded, halt>>
vars == <<mem, disk, leadVars, commits, deferred, starting, typed, resume, phase, countVars,
          histVars>>

Status == {"idle", "working", "done", "failed"}
Turn == 1..MaxTurns
Boot == 1..MaxRestarts

\* The dedupe key of claimNoticeKey, or the identity of a peer's message or of
\* the line that resumes the lead after a boot.
RunKey(r) == <<"run", r>>
CutKey(i) == <<"cut", i>>
PeerKey(k) == <<"peer", k>>
ResumeKey(b) == <<"resume", b>>
NoKey == <<"none", 0>>
Key == ({"run"} \X Turn) \cup ({"cut"} \X Boot) \cup ({"peer"} \X (1..MaxPeers))
Note(w, k) == [from |-> w, key |-> k]
ResumeNote(b) == Note(Lead, ResumeKey(b))
Notice == [from: Workers, key: Key] \cup {ResumeNote(b) : b \in Boot}
NoHalt == [on |-> FALSE, late |-> {}]

\* auto is the lead's autoTurns, held its heldNotices, told what its transcript
\* says of notices, cut a worker's interruptedAt.  resumable is what of the lead's
\* interruptedAt and autoResumedAt counts: "cut" off, and not yet "resumed".
Stored == [lead: Status, queue: Seq(Notice), held: BOOLEAN, auto: 0..AutoCap,
           told: SUBSET Notice, status: [Workers -> Status],
           key: [Workers -> Key \cup {NoKey}], cut: [Workers -> 0..MaxRestarts],
           resumable: {"none", "cut", "resumed"}]

TypeOK ==
    /\ mem \in Stored /\ disk \in Stored
    /\ launching \in BOOLEAN /\ starting \in BOOLEAN /\ typed \in BOOLEAN
    /\ cancelled \in 0..MaxPending /\ leadCommits \in 0..MaxPending
    /\ commits \subseteq [w: Workers, r: Turn]
    /\ deferred \in Seq(Seq(Notice))
    /\ phase \in {"up", "quitting"} /\ resume \in {"boot", "queued", "done"}
    /\ turns \in [Workers -> 0..MaxTurns]
    /\ peers \in 0..MaxPeers /\ restarts \in 0..MaxRestarts
    /\ sent \in [Notice -> Nat]
    /\ overlapped \subseteq [w: Workers, r: Turn]
    /\ streak \in Nat
    /\ restored \subseteq Notice
    /\ stranded \in BOOLEAN /\ halt \in [on: BOOLEAN, late: SUBSET [w: Workers, r: Turn]]

\* The loop is between two macrotasks.
Idle == deferred = <<>>
Up == Idle /\ phase = "up"
LeadRuns == mem.lead = "working"
Works(w) == mem.status[w] = "working"

\* The notices of the batches that are about to start.
Flushed == UNION {ToSet(batch) : batch \in ToSet(deferred)}

-----------------------------------------------------------------------------
(* The queue of notices.                                                   *)

\* enqueueNotice; a queue that is held stays held.
Enqueued(m, n, hold) == [m EXCEPT !.queue = Append(@, n), !.held = @ \/ hold]

\* Mutant: the hold is looked at when a notice is queued, not when one is sent.
DeliverableHeld(m) == m.queue # <<>> /\ m.lead # "working"

\* flushOrchNotices delivers: not while the lead runs, not while the queue
\* is held for "Resume crew".
Deliverable(m) == m.queue # <<>> /\ m.lead # "working" /\ ~m.held

\* flushOrchNotices up to its deferred start.
Flush(m) ==
    /\ mem' = IF Deliverable(m) THEN [m EXCEPT !.queue = <<>>] ELSE m
    /\ deferred' = IF Deliverable(m) THEN Append(deferred, m.queue) ELSE deferred
    /\ starting' = (starting \/ Deliverable(m))
    /\ stranded' = (stranded /\ ~Deliverable(m))

\* Mutant: the queue waits for the debounced save.
PostSavesLater(m, n) ==
    /\ UNCHANGED disk
    /\ Flush(Enqueued(m, n, FALSE))
    /\ sent' = [sent EXCEPT ![n] = @ + 1]

\* enqueueNotice puts the queue on disk at once; then the flush, whose
\* emptied queue is saved with the usual delay.
Post(m, n) ==
    /\ disk' = Enqueued(m, n, FALSE)
    /\ Flush(Enqueued(m, n, FALSE))
    /\ sent' = [sent EXCEPT ![n] = @ + 1]

\* Mutant: no key is claimed.
QueueEveryEnd(m, w) == Post(m, Note(w, RunKey(turns[w])))

\* Mutant: a lead that runs is not told.
QueueForIdleLead(m, w) ==
    LET k == RunKey(turns[w]) IN
    \/ /\ m.key[w] # k /\ m.lead # "working"
       /\ Post([m EXCEPT !.key[w] = k], Note(w, k))
    \/ /\ m.key[w] = k \/ m.lead = "working"
       /\ mem' = [m EXCEPT !.key[w] = k]
       /\ UNCHANGED <<disk, deferred, starting, stranded, sent>>

\* queueOrchNotice: once per run id, which is that of the worker's last
\* message.
QueueOrchNotice(m, w) ==
    LET k == RunKey(turns[w]) IN
    \/ /\ m.key[w] # k
       /\ Post([m EXCEPT !.key[w] = k], Note(w, k))
    \/ /\ m.key[w] = k
       /\ mem' = m
       /\ UNCHANGED <<disk, deferred, starting, stranded, sent>>

\* The deferred start is refused by the budget, by the cap, or by startRun
\* after the counter was raised: the batch becomes an event of the
\* transcript, and an idle lead reads failed.
NoticeRefused ==
    /\ \E n \in {mem.auto} \cup ({mem.auto + 1} \cap (0..AutoCap)) :
         mem' = [mem EXCEPT !.auto = n, !.told = @ \cup ToSet(Head(deferred)),
                            !.lead = IF @ = "working" THEN @ ELSE "failed"]
    /\ starting' = FALSE
    /\ UNCHANGED <<launching, streak>>

\* Mutant: the cap is off by one.
StartsAtCap ==
    /\ ~LeadRuns
    /\ mem' = [mem EXCEPT !.auto = @ + 1, !.told = @ \cup ToSet(Head(deferred)),
                          !.lead = "working",
                          !.resumable = IF @ = "cut" THEN "none" ELSE @]
    /\ launching' = TRUE
    /\ streak' = streak + 1
    /\ UNCHANGED starting

\* The deferred start owns the lead.  noticeStarting is released when the
\* launch has settled.
NoticeStarts ==
    /\ ~LeadRuns
    /\ mem.auto < AutoCap
    /\ mem' = [mem EXCEPT !.auto = @ + 1, !.told = @ \cup ToSet(Head(deferred)),
                          !.lead = "working",
                          !.resumable = IF @ = "cut" THEN "none" ELSE @]
    /\ launching' = TRUE
    /\ streak' = streak + 1
    /\ UNCHANGED starting

DeliverNotices ==
    /\ ~Idle
    /\ deferred' = Tail(deferred)
    /\ NoticeRefused \/ NoticeStarts
    /\ UNCHANGED <<disk, cancelled, leadCommits, commits, typed, resume, phase, countVars,
                   sent, overlapped, restored, stranded, halt>>

-----------------------------------------------------------------------------
(* Workers and peers.                                                      *)

TurnsTaken == {e \in [w: Workers, r: Turn] : e.r <= turns[e.w]}

Committing(w) == {c \in commits : c.w = w}

\* thread_send of the lead's agent, the user, or auto-resume of the worker.
WorkerStarts(w) ==
    /\ Up /\ ~Works(w)
    /\ Cardinality(TurnsTaken) < MaxTurns
    /\ Cardinality(TurnsTaken) + peers < MaxEvents
    /\ turns' = [turns EXCEPT ![w] = @ + 1]
    /\ mem' = [mem EXCEPT !.status[w] = "working", !.cut[w] = 0]
    /\ overlapped' = {e \in overlapped : e.w # w} \cup
         IF Committing(w) = {} THEN {}
         ELSE Committing(w) \cup {[w |-> w, r |-> turns[w] + 1]}
    /\ halt' = NoHalt
    /\ UNCHANGED <<disk, leadVars, commits, deferred, starting, typed, resume, phase, peers,
                   restarts, sent, streak, restored, stranded>>

\* afterSuccessfulTurn: the lead hears of it when the checkpoint is committed.
WorkerDone(w) ==
    /\ Up /\ Works(w)
    /\ mem' = [mem EXCEPT !.status[w] = "done"]
    /\ commits' = commits \cup {[w |-> w, r |-> turns[w]]}
    /\ UNCHANGED <<disk, leadVars, deferred, starting, typed, resume, phase, countVars,
                   histVars>>

\* finishSuccessfulTurn.
CommitSettles(c) ==
    /\ Idle
    /\ commits' = commits \ {c}
    /\ QueueOrchNotice(mem, c.w)
    /\ UNCHANGED <<leadVars, typed, resume, phase, countVars, overlapped, streak, restored, halt>>

\* afterFailedTurn.
WorkerFails(w) ==
    /\ Up /\ Works(w)
    /\ QueueOrchNotice([mem EXCEPT !.status[w] = "failed"], w)
    /\ UNCHANGED <<leadVars, commits, typed, resume, phase, countVars, overlapped, streak,
                   restored, halt>>

StopWorker(w) ==
    /\ Up /\ Works(w)
    /\ mem' = [mem EXCEPT !.status[w] = "idle"]
    /\ UNCHANGED <<disk, leadVars, commits, deferred, starting, typed, resume, phase, countVars,
                   histVars>>

\* peer_send and task_complete: deliverNotice.
PeerSends(w) ==
    /\ Up /\ Works(w)
    /\ peers < MaxPeers
    /\ Cardinality(TurnsTaken) + peers < MaxEvents
    /\ peers' = peers + 1
    /\ Post(mem, Note(w, PeerKey(peers + 1)))
    /\ halt' = NoHalt
    /\ UNCHANGED <<leadVars, commits, typed, resume, phase, turns, restarts, overlapped,
                   streak, restored>>

-----------------------------------------------------------------------------
(* The lead.                                                               *)

\* A start of the user's is accepted, or refused after or before it reset
\* the counter.  Any start forgets the interruption; the user's also forgets
\* that it was resumed.
UserTurn(m) ==
    \/ /\ mem' = [m EXCEPT !.lead = "working", !.auto = 0, !.resumable = "none"]
       /\ typed' = FALSE
       /\ streak' = 0
       /\ halt' = NoHalt
    \/ /\ mem' = [m EXCEPT !.auto = 0]
       /\ streak' = 0
       /\ UNCHANGED <<typed, halt>>
    \/ mem' = m /\ UNCHANGED <<typed, streak, halt>>

UserSends ==
    /\ Up /\ ~LeadRuns
    /\ UserTurn(mem)
    /\ UNCHANGED <<disk, leadVars, commits, deferred, starting, resume, phase, countVars,
                   sent, overlapped, restored, stranded>>

UserTypesAhead ==
    /\ Up /\ LeadRuns
    /\ typed' = TRUE
    /\ UNCHANGED <<mem, disk, leadVars, commits, deferred, starting, resume, phase, countVars,
                   histVars>>

\* Mutant: the drain does not look at noticeStarting.
DrainBeforeNotice(m) ==
    \/ typed /\ m.lead # "working" /\ UserTurn(m)
    \/ /\ ~(typed /\ m.lead # "working")
       /\ mem' = m
       /\ UNCHANGED <<typed, streak, halt>>

\* maybeDrainQueued, which a notice about to start holds back (#1501).
MaybeDrainQueued(m) ==
    \/ typed /\ m.lead # "working" /\ ~starting' /\ UserTurn(m)
    \/ /\ ~(typed /\ m.lead # "working" /\ ~starting')
       /\ mem' = m
       /\ UNCHANGED <<typed, streak, halt>>

LaunchSettles ==
    /\ Idle /\ launching
    /\ launching' = FALSE
    /\ starting' = FALSE
    /\ UNCHANGED <<mem, disk, cancelled, leadCommits, commits, deferred, typed, resume, phase,
                   countVars, histVars>>

\* The launch throws: the slot is given back without a terminal event, so
\* what was queued meanwhile waits for the next notice.
LaunchThrows ==
    /\ Idle /\ launching
    /\ launching' = FALSE
    /\ starting' = FALSE
    /\ mem' = [mem EXCEPT !.lead = "failed"]
    /\ stranded' = (mem.queue # <<>>)
    /\ UNCHANGED <<disk, cancelled, leadCommits, commits, deferred, typed, resume, phase, countVars,
                   sent, overlapped, streak, restored, halt>>

\* A stopped launch: startRun returns, and the drain it held back runs; or
\* it throws, and the notice counts as not delivered.
CancelledSettles ==
    /\ Idle /\ cancelled > 0
    /\ cancelled' = cancelled - 1
    /\ starting' = FALSE
    /\ \/ MaybeDrainQueued(mem)
       \/ /\ mem' = [mem EXCEPT !.lead = IF @ = "working" THEN @ ELSE "failed"]
          /\ UNCHANGED <<typed, streak, halt>>
    /\ UNCHANGED <<disk, launching, leadCommits, commits, deferred, resume, phase, countVars,
                   sent, overlapped, restored, stranded>>

LeadDone ==
    /\ Up /\ LeadRuns /\ ~launching
    /\ leadCommits < MaxPending
    /\ leadCommits' = leadCommits + 1
    /\ mem' = [mem EXCEPT !.lead = "done"]
    /\ UNCHANGED <<disk, launching, cancelled, commits, deferred, starting, typed, resume, phase,
                   countVars, histVars>>

\* finishSuccessfulTurn of the lead: its own notices first, then the user's
\* follow-up, in one macrotask.
LeadCommitSettles ==
    LET m == IF Deliverable(mem) THEN [mem EXCEPT !.queue = <<>>] ELSE mem IN
    /\ Idle /\ leadCommits > 0
    /\ leadCommits' = leadCommits - 1
    /\ deferred' = IF Deliverable(mem) THEN <<mem.queue>> ELSE <<>>
    /\ starting' = (starting \/ Deliverable(mem))
    /\ stranded' = (stranded /\ ~Deliverable(mem))
    /\ MaybeDrainQueued(m)
    /\ UNCHANGED <<disk, launching, cancelled, commits, resume, phase, countVars, sent, overlapped, restored>>

\* Mutant: a failed lead does not flush.
FailsWithoutFlush ==
    /\ Up /\ LeadRuns /\ ~launching
    /\ mem' = [mem EXCEPT !.lead = "failed"]
    /\ UNCHANGED <<disk, leadVars, commits, deferred, starting, typed, resume, phase, countVars,
                   histVars>>

\* afterFailedTurn of the lead.
LeadFails ==
    /\ Up /\ LeadRuns /\ ~launching
    /\ Flush([mem EXCEPT !.lead = "failed"])
    /\ UNCHANGED <<disk, leadVars, commits, typed, resume, phase, countVars, sent, overlapped, streak, restored, halt>>

\* Mutant: what is queued stays queued.
StopKeepsQueue ==
    /\ Up
    /\ launching => cancelled < MaxPending
    /\ mem' = [mem EXCEPT !.status = [w \in Workers |-> IF Works(w) THEN "idle" ELSE @[w]],
                          !.lead = IF @ = "working" THEN "idle" ELSE @]
    /\ launching' = FALSE
    /\ cancelled' = IF launching THEN cancelled + 1 ELSE cancelled
    /\ halt' = [on |-> TRUE, late |-> commits]
    /\ resume' = IF resume = "queued" THEN "done" ELSE resume
    /\ UNCHANGED <<disk, leadCommits, commits, deferred, starting, typed, phase, countVars,
                   sent, overlapped, streak, restored, stranded>>

\* stopRun on the lead: stopCrew stops the workers and demotes what is queued
\* to an event, then the lead's own run goes; a resume that waits is dropped.
StopLead ==
    /\ Up
    /\ launching => cancelled < MaxPending
    /\ mem' = [mem EXCEPT !.status = [w \in Workers |-> IF Works(w) THEN "idle" ELSE @[w]],
                          !.told = @ \cup ToSet(mem.queue),
                          !.queue = <<>>, !.held = FALSE,
                          !.lead = IF @ = "working" THEN "idle" ELSE @]
    /\ launching' = FALSE
    /\ cancelled' = IF launching THEN cancelled + 1 ELSE cancelled
    /\ restored' = {}
    /\ stranded' = FALSE
    /\ halt' = [on |-> TRUE, late |-> commits]
    /\ resume' = IF resume = "queued" THEN "done" ELSE resume
    /\ UNCHANGED <<disk, leadCommits, commits, deferred, starting, typed, phase, countVars,
                   sent, overlapped, streak>>

\* "Resume crew" releases the hold.
ResumeCrew ==
    /\ Up /\ mem.held
    /\ Flush([mem EXCEPT !.held = FALSE])
    /\ restored' = {}
    /\ halt' = NoHalt
    /\ UNCHANGED <<disk, leadVars, commits, typed, resume, phase, countVars, sent, overlapped, streak>>

\* resumeInterruptedRuns, once after a boot: the setting is off or the run was
\* not resumable; or the lead was cut off, does not run, and was not resumed
\* since the user's last turn, and is marked on disk before its turn.
ResumeInterrupted ==
    /\ Up /\ resume = "boot"
    /\ \/ /\ resume' = "done"
          /\ UNCHANGED <<mem, disk, halt>>
       \/ /\ mem.resumable = "cut" /\ ~LeadRuns
          /\ resume' = "queued"
          /\ mem' = [mem EXCEPT !.resumable = "resumed"]
          /\ disk' = mem'
          /\ halt' = NoHalt
    /\ UNCHANGED <<leadVars, commits, deferred, starting, typed, phase, countVars,
                   sent, overlapped, streak, restored, stranded>>

\* resumeOne, in one of the two lanes: deliverNotice with resume lifts the hold,
\* unless a turn of the lead has begun.
ResumeLead ==
    /\ Up /\ resume = "queued"
    /\ resume' = "done"
    /\ \/ /\ ~LeadRuns
          /\ Post([mem EXCEPT !.held = FALSE], ResumeNote(restarts))
          /\ restored' = {}
       \/ /\ LeadRuns
          /\ UNCHANGED <<mem, disk, deferred, starting, stranded, sent, restored>>
    /\ UNCHANGED <<leadVars, commits, typed, phase, countVars, overlapped, streak, halt>>

-----------------------------------------------------------------------------
(* The disk, a quit and the next boot.                                     *)

\* A debounced flush writes the transcripts, and the envelope when its
\* throttle window is open.
FlushTranscripts ==
    /\ Idle
    /\ disk' = [disk EXCEPT !.told = mem.told]
    /\ UNCHANGED <<mem, leadVars, commits, deferred, starting, typed, resume, phase, countVars,
                   histVars>>

FlushStore ==
    /\ Idle
    /\ disk' = mem
    /\ UNCHANGED <<mem, leadVars, commits, deferred, starting, typed, resume, phase, countVars,
                   histVars>>

\* stopAll marks every run, drops the resumes that wait, and saves at once.  The
\* process lives on for the rest of its teardown.
Quit ==
    /\ Up /\ restarts < MaxRestarts
    /\ launching => cancelled < MaxPending
    /\ phase' = "quitting"
    /\ resume' = "done"
    /\ mem' = [mem EXCEPT !.lead = IF @ = "working" THEN "idle" ELSE @,
                          !.resumable = IF LeadRuns /\ @ = "none" THEN "cut" ELSE @,
                          !.status = [w \in Workers |-> IF Works(w) THEN "idle" ELSE @[w]],
                          !.cut = [w \in Workers |-> IF Works(w) THEN restarts + 1 ELSE @[w]]]
    /\ disk' = mem'
    /\ launching' = FALSE
    /\ cancelled' = IF launching THEN cancelled + 1 ELSE cancelled
    /\ UNCHANGED <<leadCommits, commits, deferred, starting, typed, countVars, histVars>>

\* Mutant: the count of machine-delivered turns is not persisted.
RecoversUncounted(m, boot) ==
    LET Cut(w) == m.status[w] = "working" IN
    [m EXCEPT !.lead = IF @ = "working" THEN "failed" ELSE @, !.auto = 0,
              !.status = [w \in Workers |-> IF Cut(w) THEN "failed" ELSE @[w]],
              !.cut = [w \in Workers |-> IF Cut(w) THEN boot ELSE @[w]],
              !.held = (m.queue # <<>>),
              !.resumable = IF m.lead = "working" /\ @ = "none" THEN "cut" ELSE @]

\* recoverInterruptedRuns and holdRestoredNotices at load.
Recovered(m, boot) ==
    LET Cut(w) == m.status[w] = "working" IN
    [m EXCEPT !.lead = IF @ = "working" THEN "failed" ELSE @,
              !.status = [w \in Workers |-> IF Cut(w) THEN "failed" ELSE @[w]],
              !.cut = [w \in Workers |-> IF Cut(w) THEN boot ELSE @[w]],
              !.held = (m.queue # <<>>),
              !.resumable = IF m.lead = "working" /\ @ = "none" THEN "cut" ELSE @]

\* noticeInterruptedWorkers: one held notice for each worker that was cut
\* off, once per interruption, in the order of their rows.
Unnoticed(m) == {w \in Workers : m.cut[w] # 0 /\ m.key[w] # CutKey(m.cut[w])}

NoticeInterruptedWorkers(m, rows) ==
    LET cut == Unnoticed(m)
        notes == [i \in DOMAIN rows |-> Note(rows[i], CutKey(m.cut[rows[i]]))]
    IN  [m EXCEPT !.queue = @ \o notes, !.held = @ \/ cut # {},
                  !.key = [w \in Workers |-> IF w \in cut THEN CutKey(m.cut[w]) ELSE @[w]]]

\* The process ends, cleanly or not, and the next one loads the store.  Only a
\* boot leaves a lead to resume.
Reboot ==
    LET m == Recovered(disk, restarts + 1)
        cut == Unnoticed(m)
    IN  /\ restarts < MaxRestarts
        /\ restarts' = restarts + 1
        /\ \E rows \in SetToSeqs(cut) : mem' = NoticeInterruptedWorkers(m, rows)
        /\ disk' = IF cut = {} THEN disk ELSE mem'
        /\ sent' = [n \in Notice |->
             IF n.from \in cut /\ n.key = CutKey(m.cut[n.from]) THEN sent[n] + 1 ELSE sent[n]]
        /\ restored' = ToSet(mem'.queue)
        /\ launching' = FALSE /\ starting' = FALSE
        /\ cancelled' = 0 /\ leadCommits' = 0
        /\ commits' = {} /\ deferred' = <<>>
        /\ phase' = "up"
        /\ resume' = IF m.resumable = "cut" THEN "boot" ELSE "done"
        /\ stranded' = FALSE /\ halt' = NoHalt
        /\ streak' = IF disk.auto < mem.auto /\ streak > 0 THEN streak - 1 ELSE streak
        /\ UNCHANGED <<typed, turns, peers, overlapped>>

-----------------------------------------------------------------------------

Fresh == [lead |-> "idle", queue |-> <<>>, held |-> FALSE, auto |-> 0, told |-> {},
          status |-> [w \in Workers |-> "idle"], key |-> [w \in Workers |-> NoKey],
          cut |-> [w \in Workers |-> 0], resumable |-> "none"]

Init ==
    /\ mem = Fresh /\ disk = Fresh
    /\ launching = FALSE /\ starting = FALSE /\ typed = FALSE
    /\ cancelled = 0 /\ leadCommits = 0
    /\ commits = {} /\ deferred = <<>>
    /\ phase = "up" /\ resume = "done"
    /\ turns = [w \in Workers |-> 0]
    /\ peers = 0 /\ restarts = 0
    /\ sent = [n \in Notice |-> 0]
    /\ overlapped = {} /\ streak = 0 /\ restored = {}
    /\ stranded = FALSE /\ halt = NoHalt

WorkerActs ==
    \/ \E w \in Workers :
         WorkerStarts(w) \/ WorkerDone(w) \/ WorkerFails(w) \/ StopWorker(w) \/ PeerSends(w)
    \/ \E c \in commits : CommitSettles(c)

LeadActs ==
    \/ LaunchSettles \/ LaunchThrows \/ CancelledSettles
    \/ LeadDone \/ LeadCommitSettles \/ LeadFails

UserActs == UserSends \/ UserTypesAhead \/ StopLead \/ ResumeCrew

AutoResume == ResumeInterrupted \/ ResumeLead

Next ==
    \/ DeliverNotices
    \/ WorkerActs \/ LeadActs \/ UserActs \/ AutoResume
    \/ FlushTranscripts \/ FlushStore
    \/ Quit \/ Reboot

Spec == Init /\ [][Next]_vars

-----------------------------------------------------------------------------
(* Safety.                                                                 *)

\* Owed work survives a crash (#1426): a notice that was ever queued is on
\* disk in the queue or in the lead's transcript, and in memory there or in
\* the batch that is about to start, whatever flush was last.
NoticesSurvive ==
    \A n \in Notice : sent[n] > 0 =>
        /\ n \in disk.told \cup ToSet(disk.queue)
        /\ n \in mem.told \cup ToSet(mem.queue) \cup Flushed

\* claimNoticeKey over restarts: no turn and no interruption of a worker is
\* announced twice, though a failed turn and the late checkpoint of an
\* earlier one, or two boots, may both want to; and no boot resumes the lead
\* twice.
AnnouncedOnce == \A n \in Notice : sent[n] <= 1

\* The step runs the terminal hooks of the turn e.
Ends(e) ==
    /\ restarts' = restarts
    /\ \/ e \in commits \ commits'
       \/ e.r = turns[e.w] /\ Works(e.w) /\ mem'.status[e.w] = "failed"

\* A turn whose terminal hooks run is announced there and then, with its own run
\* id, unless another turn of the worker began before the checkpoint of an
\* earlier one was committed: the run id is read from the transcript, and by
\* then it is the later turn's, whose own end is afterwards taken for a replay
\* ("a missed wake is cheaper than a duplicate one").
EndIsAnnounced ==
    [][\A e \in TurnsTaken \ overlapped : Ends(e) =>
          sent'[Note(e.w, RunKey(e.r))] = sent[Note(e.w, RunKey(e.r))] + 1]_vars

\* No lost wake-up: between two macrotasks, notices that nothing holds wait
\* only while the lead runs or its last turn is being committed; the one
\* exception is a launch that threw (LaunchThrows).
NoIdleNotices ==
    Up /\ mem.queue # <<>> /\ ~mem.held => LeadRuns \/ leadCommits > 0 \/ stranded

\* The flushed notices are never turned away because something else took the
\* idle lead before the deferred start (#1501).
NoticeNeverBounces == deferred # <<>> => ~LeadRuns /\ Len(deferred) = 1

\* Notices that a boot found start no turn until the user resumes or stops the
\* crew, or the auto-resume that the user opted into delivers the lead's turn;
\* new ones that come before do not take them along.
RestoredNeedConsent == Flushed \cap restored = {}

\* The cap on consecutive machine-delivered turns holds over restarts (#277,
\* #1426): the count that a crash loses is at most one turn behind, since
\* every further notice saves it.
AutoTurnsCapped == streak <= AutoCap

\* After the user stopped the lead, nothing waits that could start it again but
\* the notices of turns that were done and still in their checkpoint commit
\* when stopCrew walked the crew.
OnlyLateCommitsWake ==
    halt.on => \A n \in ToSet(mem.queue) \cup Flushed :
                  \E c \in halt.late, r \in Turn : c.r <= r /\ n = Note(c.w, RunKey(r))

\* What the comment of stopCrew says, that nothing restarts the orchestrator the
\* user just stopped (#32): no notice waits for it.  Violated by those commits.
StopHolds == halt.on => mem.queue = <<>> /\ Flushed = {}
=============================================================================
