------------------------------ MODULE TurnRetry ------------------------------
(***************************************************************************)
(* How one thread retries a turn by itself: it parks on a provider's quota *)
(* and wakes when the quota resets, it fails over to the next provider of  *)
(* the chain, and a run that a restart cut off is resumed once             *)
(* (electron/runner-quota-wait.js, quotaWait.js, runner-auto-resume.js and *)
(* the parts of runner.js they meet: markRunFailed, startRun, the run      *)
(* queue).                                                                 *)
(*                                                                         *)
(* `row' is the thread in memory and `disk' what the debounced save has    *)
(* written of it.  Runs, the retry timer, the starts that wait for the     *)
(* login shell's PATH and the queued resume live in the process only.  The *)
(* launch of a run is one step here; RunLifecycle has its phases.          *)
(***************************************************************************)
EXTENDS Naturals, Sequences

CONSTANTS
    Providers,      \* the providers of the application
    Chain,          \* settings.quotaFailover, in order
    NoInput,        \* no queued start
    MaxTurns,       \* bound: turns that users and notices start or resume
    MaxEdits,       \* bound: switches of provider or mode, and deletions
    MaxHeld,        \* bound: starts that wait for the PATH together
    MaxRestarts     \* bound: quits and crashes

ASSUME ChainAssumption == Providers # {} /\ Chain \in Seq(Providers)
ASSUME BoundsAssumption ==
    MaxTurns \in Nat /\ MaxEdits \in Nat /\ MaxHeld \in Nat /\ MaxRestarts \in Nat

VARIABLES
    row,            \* the thread's row in memory
    disk,           \* the row as it is on disk
    live,           \* the thread is in `active'
    timer,          \* quotaTimers: "wake", "failover" or "none"
    held,           \* starts that wait in whenPathReady()
    pathReady,      \* the login shell's PATH is there
    full,           \* the other threads take every run slot
    resuming,       \* resumeInterruptedRuns: "boot", "queued" or "over"
    turns, edits, restarts,          \* bounded counters
    wakes, hops, resumes                \* history, see the properties

counters == <<turns, edits, restarts>>
history == <<wakes, hops, resumes>>
vars == <<row, disk, live, timer, held, pathReady, full, resuming, counters, history>>

Kinds == {"human", "notice", "wait", "failover"}
Replays == {"wait", "failover"}
Callers == {"send", "notice", "banner", "wake", "failover", "admit"}

ASSUME NoInputAssumption == NoInput \notin Kinds

Parked == row.status = "quota-wait"

-----------------------------------------------------------------------------
(* The start of a run.                                                     *)

\* The row of an accepted start.  Only a human turn re-arms the resume after a
\* restart, and only a turn that is no replay forgets the providers tried.
Accept(r, kind) ==
    [r EXCEPT !.status = "working",
              !.interrupted = FALSE,
              !.autoResumed = @ /\ kind # "human",
              !.quotaWaitResumed = (kind = "wait"),
              !.switching = FALSE,
              !.tried = IF kind \in Replays THEN @ ELSE {}]

\* A start beyond the cap waits in the row; a second one joins the first.
EnqueueRun(r, kind) ==
    [r EXCEPT !.runQueue = IF @ = NoInput THEN kind ELSE @]

\* Mutant: an undeliverable notice settles the thread without a look at it.
ThrownBlind(r, by) ==
    CASE by \in {"send", "banner"} -> r
      [] by = "wake" -> [r EXCEPT !.status = "failed", !.quotaWaitResumed = TRUE]
      [] by = "failover" -> [r EXCEPT !.status = "failed", !.switching = FALSE]
      [] by \in {"admit", "notice"} -> [r EXCEPT !.status = "failed"]

\* What the caller of startRun does with its error: the user sees it, the
\* timers and the admission settle the thread as failed, and a notice does so
\* unless a run owns the thread.
Thrown(r, by) ==
    CASE by \in {"send", "banner"} -> r
      [] by = "wake" -> [r EXCEPT !.status = "failed", !.quotaWaitResumed = TRUE]
      [] by = "failover" -> [r EXCEPT !.status = "failed", !.switching = FALSE]
      [] by = "admit" -> [r EXCEPT !.status = "failed"]
      [] by = "notice" -> IF live THEN r ELSE [r EXCEPT !.status = "failed"]

\* History: the replays of a turn, and the resumes since the last human turn.
Counted(kind) ==
    /\ wakes' = CASE kind = "wait" -> wakes + 1 [] kind = "failover" -> wakes [] OTHER -> 0
    /\ hops' = CASE kind = "failover" -> hops + 1 [] kind = "wait" -> hops [] OTHER -> 0
    /\ resumes' = IF kind = "human" THEN 0 ELSE resumes

\* Mutant: the trash is checked before the wait for the PATH only.
BeginInTrash(r, by, kind, t) ==
    \/ /\ live
       /\ row' = Thrown(r, by)
       /\ timer' = t
       /\ UNCHANGED <<live, history>>
    \/ /\ ~live
       /\ timer' = "none"
       /\ row' = Accept(r, kind)
       /\ live' = TRUE
       /\ Counted(kind)

\* startRun once the PATH is there.  A busy or a deleted thread refuses it at
\* once, the budget, the CLI and the worktree (which marks the thread failed)
\* after the retry timer was cancelled, and the cap puts it in the queue.
Begin(r, by, kind, t) ==
    \/ /\ live \/ r.trashed
       /\ row' = Thrown(r, by)
       /\ timer' = t
       /\ UNCHANGED <<live, history>>
    \/ /\ ~live /\ ~r.trashed
       /\ timer' = "none"
       /\ \/ /\ \E s \in {r.status, "failed"} : row' = Thrown([r EXCEPT !.status = s], by)
             /\ UNCHANGED <<live, history>>
          \/ /\ by # "admit" /\ (full \/ r.runQueue # NoInput)
             /\ row' = EnqueueRun(r, kind)
             /\ UNCHANGED <<live, history>>
          \/ /\ by = "admit" \/ (~full /\ r.runQueue = NoInput)
             /\ row' = Accept(r, kind)
             /\ live' = TRUE
             /\ Counted(kind)

\* A caller of startRun on the row r, with the timer as the caller leaves it.
StartRun(r, by, kind, t) ==
    IF pathReady
    THEN Begin(r, by, kind, t) /\ UNCHANGED held
    ELSE /\ Len(held) < MaxHeld
         /\ held' = Append(held, [by |-> by, kind |-> kind])
         /\ row' = r
         /\ timer' = t
         /\ UNCHANGED <<live, history>>

-----------------------------------------------------------------------------
(* Timers.                                                                 *)

\* Mutant: the boot and the settings only cancel the timer.
RefreshedCancels(r) == "none"

\* refreshQuotaWait: armed exactly for a parked thread that may wake itself.
Refreshed(r) ==
    IF r.status = "quota-wait" /\ r.auto /\ ~r.trashed THEN "wake" ELSE "none"

\* Where in the chain the providers are that this turn has not tried.
Untried(r) == {i \in DOMAIN Chain : Chain[i] \notin r.tried \cup {r.provider}}

\* Mutant: a thread that has woken once parks again.
DecideQuotaWaitAgain(r) == r.auto

\* decideQuotaWait, on an error that carries a reset clock.
DecideQuotaWait(r) == r.auto /\ ~r.quotaWaitResumed

\* Mutant: the wake is not admitted while the row says that it waits.
AdmitsIdle == row.runQueue # NoInput /\ ~row.trashed /\ ~full /\ ~live /\ ~Parked

\* admitQueuedRuns finds the thread in the queue and a slot free.
Admits == row.runQueue # NoInput /\ ~row.trashed /\ ~full /\ ~live

\* The continuations of the starts that waited for the PATH run first.
Turn == pathReady => held = <<>>

-----------------------------------------------------------------------------
(* Users and notices.                                                      *)

NewTurn == turns < MaxTurns /\ turns' = turns + 1
Edit == edits < MaxEdits /\ edits' = edits + 1

Send ==
    /\ Turn /\ NewTurn
    /\ ~live
    /\ StartRun(row, "send", "human", timer)
    /\ UNCHANGED <<disk, pathReady, full, resuming, edits, restarts>>

\* A notice of the crew wakes the thread.
Notice ==
    /\ Turn /\ NewTurn
    /\ ~live
    /\ StartRun(row, "notice", "notice", timer)
    /\ UNCHANGED <<disk, pathReady, full, resuming, edits, restarts>>

\* The banner: resume the parked turn now.
ResumeQuotaWait ==
    /\ Turn /\ NewTurn
    /\ Parked /\ ~live
    /\ StartRun(row, "banner", "wait", "none")
    /\ UNCHANGED <<disk, pathReady, full, resuming, edits, restarts>>

\* Stop takes the thread out of the run queue, or ends its run.
StopRun ==
    /\ Turn
    /\ IF ~live /\ row.runQueue # NoInput
       THEN row' = [row EXCEPT !.runQueue = NoInput] /\ UNCHANGED <<live, resuming>>
       ELSE /\ resuming' = IF resuming = "queued" THEN "over" ELSE resuming
            /\ row' = IF live THEN [row EXCEPT !.status = "idle"] ELSE row
            /\ live' = FALSE
    /\ UNCHANGED <<disk, timer, held, pathReady, full, counters, history>>

SetProvider(p) ==
    /\ Turn
    /\ Edit
    /\ row.status # "working" /\ p # row.provider
    /\ row' = [row EXCEPT !.provider = p]
    /\ UNCHANGED <<disk, live, timer, held, pathReady, full, resuming, turns, restarts, history>>

\* The thread's own switch for waking up by itself.
SetQuotaWaitAutoResume ==
    /\ Turn /\ Edit
    /\ row' = [row EXCEPT !.auto = ~@]
    /\ timer' = Refreshed(row')
    /\ UNCHANGED <<disk, live, held, pathReady, full, resuming, turns, restarts, history>>

\* Saving the settings looks at every parked thread again.
SettingsSaved ==
    /\ Turn
    /\ Parked
    /\ timer' = Refreshed(row)
    /\ UNCHANGED <<row, disk, live, held, pathReady, full, resuming, counters, history>>

\* Deletion keeps the row, and the timer; restoring it leaves the park.
TrashThread ==
    /\ Turn /\ Edit
    /\ ~live /\ ~row.trashed
    /\ row' = [row EXCEPT !.trashed = TRUE]
    /\ disk' = row'
    /\ UNCHANGED <<live, timer, held, pathReady, full, resuming, turns, restarts, history>>

RestoreThread ==
    /\ Turn
    /\ row.trashed
    /\ row' = [row EXCEPT !.trashed = FALSE, !.status = IF Parked THEN "idle" ELSE @]
    /\ disk' = row'
    /\ UNCHANGED <<live, timer, held, pathReady, full, resuming, counters, history>>

-----------------------------------------------------------------------------
(* The end of a run.                                                       *)

RunDone ==
    /\ Turn /\ live
    /\ live' = FALSE
    /\ row' = [row EXCEPT !.status = "done"]
    /\ UNCHANGED <<disk, timer, held, pathReady, full, resuming, counters, history>>

\* An error that says nothing of a quota.
RunFails ==
    /\ Turn /\ live
    /\ live' = FALSE
    /\ row' = [row EXCEPT !.status = "failed"]
    /\ UNCHANGED <<disk, timer, held, pathReady, full, resuming, counters, history>>

\* markRunFailed on a quota error, with or without a reset clock: the first
\* untried provider of the chain, else the park, else a failure.
RunHitsQuota(clock) ==
    /\ Turn /\ live
    /\ live' = FALSE
    /\ \/ \E i \in Untried(row) :
             /\ \A j \in Untried(row) : i <= j
             /\ row' = [row EXCEPT !.status = "idle",
                                   !.provider = Chain[i],
                                   !.tried = @ \cup {row.provider, Chain[i]},
                                   !.switching = TRUE]
             /\ timer' = "failover"
       \/ /\ Untried(row) = {} /\ clock /\ DecideQuotaWait(row)
          /\ row' = [row EXCEPT !.status = "quota-wait"]
          /\ timer' = "wake"
       \/ /\ Untried(row) = {} /\ ~(clock /\ DecideQuotaWait(row))
          /\ row' = [row EXCEPT !.status = "failed"]
          /\ timer' = timer
    /\ UNCHANGED <<disk, held, pathReady, full, resuming, counters, history>>

-----------------------------------------------------------------------------
(* What the application does by itself.                                    *)

FireQuotaWake ==
    /\ Turn
    /\ timer = "wake"
    /\ IF Parked /\ row.auto /\ ~live
       THEN StartRun(row, "wake", "wait", "none")
       ELSE timer' = "none" /\ UNCHANGED <<row, live, held, history>>
    /\ UNCHANGED <<disk, pathReady, full, resuming, counters>>

FireFailoverResume ==
    /\ Turn
    /\ timer = "failover"
    /\ IF row.switching /\ ~live
       THEN StartRun(row, "failover", "failover", "none")
       ELSE timer' = "none" /\ UNCHANGED <<row, live, held, history>>
    /\ UNCHANGED <<disk, pathReady, full, resuming, counters>>

\* A queued start leaves the queue before it begins.
AdmitQueuedRuns ==
    /\ Turn
    /\ Admits
    /\ StartRun([row EXCEPT !.runQueue = NoInput], "admit", row.runQueue, timer)
    /\ UNCHANGED <<disk, pathReady, full, resuming, counters>>

\* The runs of other threads.  A slot that is free goes to the queue first.
OthersFill ==
    /\ Turn /\ ~full /\ ~Admits
    /\ full' = TRUE
    /\ UNCHANGED <<row, disk, live, timer, held, pathReady, resuming, counters, history>>

OthersEnd ==
    /\ Turn /\ full
    /\ full' = FALSE
    /\ UNCHANGED <<row, disk, live, timer, held, pathReady, resuming, counters, history>>

\* The debounced save.
Flush ==
    /\ Turn
    /\ disk # row
    /\ disk' = row
    /\ UNCHANGED <<row, live, timer, held, pathReady, full, resuming, counters, history>>

PathCaptured ==
    /\ ~pathReady
    /\ pathReady' = TRUE
    /\ UNCHANGED <<row, disk, live, timer, held, full, resuming, counters, history>>

\* The starts that waited go on in the order in which they came.
Release ==
    /\ pathReady /\ held # <<>>
    /\ held' = Tail(held)
    /\ Begin(row, Head(held).by, Head(held).kind, timer)
    /\ UNCHANGED <<disk, pathReady, full, resuming, counters>>

Resumable == ~live /\ row.interrupted /\ ~row.autoResumed /\ ~row.trashed

\* Mutant: the marker is left to the debounced save.
ResumeSavesLater ==
    /\ Turn /\ pathReady
    /\ resuming = "boot"
    /\ resuming' = IF Resumable THEN "queued" ELSE "over"
    /\ row' = [row EXCEPT !.autoResumed = @ \/ Resumable]
    /\ resumes' = IF Resumable THEN resumes + 1 ELSE resumes
    /\ UNCHANGED <<disk, live, timer, held, pathReady, full, counters, wakes, hops>>

\* resumeInterruptedRuns: the marker is on disk before anything starts.
ResumeInterruptedRuns ==
    /\ Turn /\ pathReady
    /\ resuming = "boot"
    /\ resuming' = IF Resumable THEN "queued" ELSE "over"
    /\ row' = [row EXCEPT !.autoResumed = @ \/ Resumable]
    /\ disk' = IF Resumable THEN row' ELSE disk
    /\ resumes' = IF Resumable THEN resumes + 1 ELSE resumes
    /\ UNCHANGED <<live, timer, held, pathReady, full, counters, wakes, hops>>

\* resumeOne, when a lane is free: the notice that resumes the thread.
ResumeOne ==
    /\ Turn
    /\ resuming = "queued"
    /\ resuming' = "over"
    /\ IF live \/ row.trashed
       THEN UNCHANGED <<row, live, timer, held, history>>
       ELSE /\ Begin(row, "notice", "notice", timer)
            /\ UNCHANGED held
    /\ UNCHANGED <<disk, pathReady, full, counters>>

-----------------------------------------------------------------------------
(* Restarts.                                                               *)

Boot(r) ==
    /\ restarts < MaxRestarts /\ restarts' = restarts + 1
    /\ row' = r
    /\ timer' = Refreshed(r)
    /\ live' = FALSE
    /\ held' = <<>>
    /\ pathReady' = FALSE
    /\ full' = FALSE
    /\ resuming' = "boot"
    /\ UNCHANGED <<turns, edits, history>>

\* Mutant: the boot takes the row as the crash left it.
RecoveredAsIs(r) == r

\* recoverInterruptedRuns: a run that the crash cut off has failed.
Recovered(r) ==
    [r EXCEPT !.interrupted = @ \/ r.status = "working",
              !.status = IF @ = "working" THEN "failed" ELSE @]

\* A crash loses what was not saved.
Crash ==
    /\ Boot(Recovered(disk))
    /\ UNCHANGED disk

\* stopAll marks the live run and writes everything.
Quit ==
    /\ Turn
    /\ LET r == [row EXCEPT !.interrupted = @ \/ live,
                            !.status = IF live THEN "idle" ELSE @]
       IN  Boot(r) /\ disk' = r

-----------------------------------------------------------------------------

\* A thread before its first turn; its user may have switched the wake off.
Row0(auto) == [status |-> "idle", provider |-> CHOOSE p \in Providers : TRUE, tried |-> {},
               quotaWaitResumed |-> FALSE, switching |-> FALSE, runQueue |-> NoInput,
               interrupted |-> FALSE, autoResumed |-> FALSE, auto |-> auto, trashed |-> FALSE]

Init ==
    /\ \E auto \in BOOLEAN : row = Row0(auto)
    /\ disk = row
    /\ live = FALSE
    /\ timer = "none"
    /\ held = <<>>
    /\ pathReady = FALSE
    /\ full = FALSE
    /\ resuming = "boot"
    /\ turns = 0 /\ edits = 0 /\ restarts = 0
    /\ wakes = 0 /\ hops = 0 /\ resumes = 0

Next ==
    \/ Send \/ Notice \/ ResumeQuotaWait \/ StopRun
    \/ \E p \in Providers : SetProvider(p)
    \/ SetQuotaWaitAutoResume \/ SettingsSaved \/ TrashThread \/ RestoreThread
    \/ RunDone \/ RunFails
    \/ \E clock \in BOOLEAN : RunHitsQuota(clock)
    \/ FireQuotaWake \/ FireFailoverResume \/ AdmitQueuedRuns
    \/ OthersFill \/ OthersEnd \/ Flush
    \/ PathCaptured \/ Release \/ ResumeInterruptedRuns \/ ResumeOne
    \/ Crash \/ Quit

Spec == Init /\ [][Next]_vars

\* Timers fire, the login shell answers, microtasks run, and the runs of the
\* other threads end.
Fairness ==
    /\ WF_vars(FireQuotaWake) /\ WF_vars(FireFailoverResume)
    /\ WF_vars(PathCaptured) /\ WF_vars(Release)
    /\ WF_vars(AdmitQueuedRuns) /\ WF_vars(OthersEnd)

FairSpec == Spec /\ Fairness

-----------------------------------------------------------------------------
(* Properties.                                                             *)

Row == [status : {"idle", "working", "quota-wait", "done", "failed"},
        provider : Providers, tried : SUBSET Providers,
        quotaWaitResumed : BOOLEAN, switching : BOOLEAN,
        runQueue : Kinds \cup {NoInput}, interrupted : BOOLEAN,
        autoResumed : BOOLEAN, auto : BOOLEAN, trashed : BOOLEAN]

\* Every variable has its type, and a thread that runs was started.
TypeOK ==
    /\ row \in Row /\ disk \in Row
    /\ live \in BOOLEAN /\ full \in BOOLEAN /\ pathReady \in BOOLEAN
    /\ timer \in {"none", "wake", "failover"}
    /\ held \in Seq([by : Callers, kind : Kinds]) /\ Len(held) <= MaxHeld
    /\ resuming \in {"boot", "queued", "over"}
    /\ turns \in 0..MaxTurns /\ edits \in 0..MaxEdits /\ restarts \in 0..MaxRestarts
    /\ wakes \in Nat /\ hops \in Nat /\ resumes \in Nat
    /\ row.status = "working" => live

\* A run is alone: no retry is armed beside it, and its thread is not in the
\* trash, also when the thread was deleted or retried while the start of the
\* run still waited for the PATH.
RunsAlone == live => timer = "none" /\ ~row.trashed

\* No retry storm: a turn wakes once from a quota, and goes through the chain
\* of providers once.  A switch by the user that leaves a provider of the chain
\* untried adds a wake.  A crash adds one wake that the row on disk has
\* forgotten, one when the queued wake and the banner both wait for the PATH of
\* the new process, and one when that row lies before such a switch's failover.
NoRetryStorm ==
    /\ wakes <= 1 + edits + 3 * restarts
    /\ hops <= Len(Chain) * (1 + restarts)

\* After a human turn at most one restart resumes the thread by itself,
\* whatever was saved before the crashes that follow.
ResumedOnce == resumes <= 1

\* The row of a live run keeps saying that it works.  The exception is the
\* code's: a timer or an admission that waited for the PATH behind the start
\* that won the thread fails it without a look at the run.
LiveRunKeepsStatus ==
    [][live /\ live' /\ row.status = "working" =>
          \/ row'.status = "working"
          \/ Release /\ Head(held).by \in {"wake", "failover", "admit"}]_vars

ShouldWake == Parked /\ row.auto /\ ~row.trashed
Watched == \/ timer = "wake"
           \/ row.runQueue # NoInput
           \/ \E i \in DOMAIN held : held[i].by \in {"wake", "admit"}

\* A parked thread keeps something that will wake it.  Only the user's own
\* step loses it: a send or a resume that is refused after the timer was
\* cancelled, or Stop on the queued start.
WatchLostByUser ==
    [][(ShouldWake => Watched) =>
          \/ (ShouldWake => Watched)'
          \/ Send \/ ResumeQuotaWait \/ StopRun
          \/ Release /\ Head(held).by \in {"send", "banner"}]_vars

\* A thread that waits for its quota does not wait for ever: it wakes, also
\* through the run queue and the wait for the PATH, unless the user takes it
\* out of the queue again and again.
WaitsEnd == []<>~(ShouldWake /\ Watched) \/ []<><<StopRun>>_vars
=============================================================================
