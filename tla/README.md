# Solenta, specified in TLA+

Solenta is a desktop program that runs coding agents (Claude, Codex, Kimi, OpenCode, Cursor, Muse)
on a user's projects. Its Electron main process owns all lasting state: conversation threads, the
runs that work on them, the queues of turns that wait, the shared task lists of agent crews, git
worktrees and merges. These modules specify that main process, `src/electron/`.

- [Inventory](#inventory): the parts of the system and what makes each correct
- [Plan](#plan): what is modelled now, what comes next
- [RunLifecycle](#runlifecycle), [CrewTasks and CrewBoard](#crewtasks-and-crewboard),
  [OrchNotices](#orchnotices), [Store](#store), [TurnRetry](#turnretry): the models
- [Runs](#runs): what the model checker is asked, bounds and fairness
- [Where code and comments disagree](#where-code-and-comments-disagree)
- [Proofs](#proofs): what holds for every value of the constants, and why
- [Limits](#limits)

Run `tlc -config X.cfg M` for the configuration `X` of module `M` in the table under *Runs*, and
`tlapm M.tla` for a module whose name ends in `_proofs`.

## Inventory

The main process is one JavaScript event loop. Nothing runs in parallel, and everything that awaits
is an interleaving: IPC calls of the renderer, events of child processes, settled git, hook and file
operations, and timers arrive in any order. Code that resumes after an await finds the state that
others left. The store writes with a delay, and a process that dies leaves what it had written.

| component | source | state | operations | what makes it correct |
|---|---|---|---|---|
| run lifecycle | `runner.js`, `runner-verify-gate.js`, the follow-up queue of `services-thread-state.js`, `pathEnv.js` | `active` map (thread to run), `thread.status`, `thread.runQueue`, `thread.queued`, pending launches, agents, verifications | startRun, enqueueRun, admitQueuedRuns, drainQueued, stopRun, terminal events, verify gate, stopAll, boot | cap respected; no slot idle while turns wait; no slot leaked; late events harmless; FIFO; no message lost, doubled or reordered; fix prompts bounded; every waiting turn gets its slot |
| provider streams | `runner-provider-*.js` | one child or session per run | spawn, stream, end, fail | a stream's event touches only its own run |
| crew task board | `services-crew.js` | `crewTasks` of the root thread | add, claim, self-claim, complete, release, release on failure | exclusive claims, needs done first, attempts capped, histories never rewritten |
| crew notices | `runner-orch-notices.js` | per-lead queue of notices, claim keys, deferred start, `autoTurns` | queueOrchNotice, deliverNotice, flushOrchNotices, stopCrew, resumeCrew, noticeInterruptedWorkers | each worker's end is announced once and survives a crash; no lost wake-up; Stop and a restart's hold are respected; the auto-turn cap holds |
| merge queue, lanes, previews | `mergeQueue.js`, `worktrees-conflicts.js` | `project.mergeQueue`, lanes with heartbeats, preview record | integrateNext, promote, claimLane, recycle, preview, restore | one integration at a time, none lost; a lane has one holder; restore undoes the preview |
| quota waits and failover | `quotaWait.js`, `runner-quota-wait.js` | `quota-wait` status, `quotaWaitResumed`, `quotaFailoverTried`, wake timers | park, wake, resume by hand, fail over, re-arm at boot | a parked run wakes, once, and not beside a newer one; no retry storm |
| thrash detector | `runner-thrash.js`, `thrash.js` | counters of a run | detect, stop, restore, retry | acts only on the run it watched |
| auto resume | `runner-auto-resume.js` | marker of a resumed run | resume after boot | an interrupted run resumes at most once |
| watchdogs | `runner-watchdogs.js` | timers | stall notes, budgets, lane heartbeats | nothing after the run's end |
| permissions | `runner-permissions.js` | pending approvals, questions, plan cards | ask, answer, abort, restore | every question answered once or dropped with its run |
| post-merge pipeline | `postmerge.js` | persisted step list | run, resume | each step at most once over restarts |
| store | `store.js`, `jsonEnvelope.js` | envelope, transcripts and work logs, dirty marks, flush under way | load, save, flush, saveNow, evict, remove, recover | what is read is current; what is saved reaches the disk and stays; interrupted runs are recovered; corrupt files do not lose the rest |
| orchestration server | `orchServer.js` | none of its own | the tools that agents call | each tool acts within its caller's crew |
| worktrees and checkpoints | `worktrees.js`, `worktrees-checkpoints.js` | git refs and directories | checkpoint, rewind, safety commit | no work of the user is lost |
| workflow engine | `workflow.js` | phase graph | run a phase, resume | phases run in dependency order |
| automations, PR watch, subagent pool | `automations.js`, `automation-triggers.js`, `prWatch.js`, `subagentPool.js` | schedules, polled states, configuration | fire, poll, choose | schedules fire once |
| Codex JSON-RPC client | `codexJsonRpc.js` | pending requests | call, answer, time out, close | each request settles once |
| remote hosts, terminals, updater, shutdown | `remoteConnections.js`, `pairing.js`, `hostHub.js`, `terminal.js`, `updater.js`, `shutdown.js` | connections, ptys | | teardown in order |
| renderer, memory server, web services, iOS helper | `src/src/`, `src/memory-server/`, `src/stats-api/`, `src/feedback-api/`, `src/native/` | | | outside the main process |

How they meet: `orchServer.js` is how an agent reaches the others (spawn and message threads, claim
tasks, merge). A run's end goes, in this order, to the verify gate, the checkpoint commit, the crew
board (a failed run hands back its tasks), the crew notices (its lead is woken by a new run) and
`drainQueued` (the user's own follow-ups), and every freed slot queues `admitQueuedRuns`. The thrash
detector and quota waits stop a run and start another. All of them start work by the same
`startRun`, which is why the run lifecycle is the core of the system and of this project.

The hard behaviours, each at its source line, are the `hazards` of `PROJECT.json`.

## Plan

Done, in the order of their weight for the program: the run lifecycle (`RunLifecycle`), the crew board
(`CrewTasks`, its abstract form `CrewBoard`), the crew's notices (`OrchNotices`), the persistence
(`Store`), and how a turn retries itself (`TurnRetry`). Each has its proof module, and every safety and
action property that a passing run checks is a theorem.

Next, in this order:

1. `MergeQueue`: the queue with integrateNext and promote, which run to their end without an await, and
   what is shared between calls: lanes, heartbeats and the recycler; then the preview. Theorem: a lane has
   one holder.
2. The thrash detector's interrupt, in `TurnRetry`.
3. A worker's retry beside its crew: `TurnRetry` and `OrchNotices` in one model, for the failed wake that
   never tells the lead (`runner-quota-wait.js:229`).
4. `Permissions`, `PostMerge`, `WorkflowPhases`, `JsonRpc`: small protocols.

## RunLifecycle

`active`, `status`, `runQueue` and `typeAhead` are the code's `active` map, `thread.status`, the
threads that have a `runQueue` field (sorted by its `at`) and `thread.queued`. `tries` is the
attempt number that `nextVerifyAttempt` reads off the transcript.

The event loop is explicit. A *macrotask* is one action that needs the microtask queue empty
(`Idle`); `micro` holds the microtasks it left: `admitQueuedRuns` calls and starts. A start that the
code makes inline (a drained follow-up, the turn that `admitQueuedRuns` has just picked) is put at
the *front* of `micro`: it runs before any microtask queued earlier, as inline code does. An await
that outlives a macrotask is a record (`launches`, `agents`, `verifies`, `checkpoints`, `pathWait`),
and its settling is an action of its own that compares its run id with the entry of its thread.

| actions | code |
|---|---|
| `RunStart`: `StartWaitsForPath`, `StartRefused`, `StartQueued`, `StartAccepted` | `startRun` and `startRunFolded` up to the first await after the `active` entry, `enqueueRun`, and the caller's handler when it throws |
| `AdmitQueuedRuns`: `AdmitNext`, `AdmitEnds` | one turn of the loop of `admitQueuedRuns` |
| `UserSends`, `UserTypesAhead`, `UserSendsQueued`, `StopWaiting`, `StopRunning` | `runs:start`, `setQueued`, `sendQueued`, `dropQueuedRun`, `stopRun` |
| `LaunchCancelled`, `LaunchSpawns`, `LaunchThrows` | `startRunFolded` after its awaits, `settleCancelledLaunch`, its catch block |
| `AgentLate`, `AgentDone`, `AgentFails` | the guard and terminal handlers of the providers, `afterSuccessfulTurn`, `afterFailedTurn` |
| `CheckpointSettles`, `VerifyStale`, `VerifyPasses`, `VerifyHandsBack`, `VerifyFails` | `finishSuccessfulTurn`, `runVerifyGate`, `releaseVerify`; `Drain` is `maybeDrainQueued` with `drainQueued` |
| `PathSettles`, `Quit`, `Reboot` | the login-PATH capture, `stopAll` in `shutdown.js`'s sequence, death of the process and load of the store with `recoverInterruptedRuns` and the boot admission |

`SystemThreads` are the sleep-time memory passes (`thread.memoryConsolidate`). They skip the run queue and
take a slot whatever the cap says (`MustQueue`, `runner.js:2118-2127`); every other start then finds that
slot taken. The cap and the FIFO are therefore stated of the other threads, with memory passes running
beside them.

A start takes the type-ahead queue into its prompt (`Folded`), but the transcript gets only the turn's own
text. A folded follow-up is out of danger when its launch has spawned; a launch that throws or is stopped
before takes it along (`Forgets`, recorded in `dropped`).

Three constants bound a behaviour and not the code: `MaxMsgs` (messages the user writes), `MaxRuns`
(run ids in use at once; an id is free again when nothing refers to it) and `MaxRestarts`.
`PathCaptured` says whether a boot still has to capture the login PATH (it never does on Windows, and
`whenPathReady` resolves at once after the capture).

What is abstracted. A prompt is a message number. The awaits of one launch are one; each check that
can refuse a start (budget, binary, worktree, already active) refuses or not as it likes, except
that a refusal for a worktree has its own effect. What `maybeDrainQueued` looks at besides the queue
and the status (an open plan card, the inbound policy, a notice about to start) holds the drain or
not as it likes. The promise hops between a rejection and its handler are one step. The user does
nothing while the app quits. A crash keeps everything written so far.

## CrewTasks and CrewBoard

`tasks` is the sequence of task records of a crew's root: state, owner, needs and attempts. The
actions are the calls of `services-crew.js`: `AddCrewTasks` (batches validated as the code validates
them, capped), `ClaimCrewTask` (`ClaimNamed`, `SelfClaim`), `CompleteCrewTask`, the release by
`task_release`, and the release that a failed run makes with its outcome written into the last
attempt. `ClaimNamed` includes the re-claim by the holder.
`Batches` is the set of batches that may be added, a constant.

`CrewBoard` is what the board promises: a set of locks. A free task may be taken by anyone, only the
holder or the root takes, closes or frees a held one, and closed is final. `CrewTasks` implements it
with `holder` and `closed` computed from `tasks` (property `BoardSpec`).

Abstracted: titles, notes, timestamps, the walk from a thread to its crew's root, persistence.

## OrchNotices

One lead and its workers (`runner-orch-notices.js`). `mem` is what the store holds of them in memory:
the lead's queue of notices, its hold, its count of machine-delivered turns, what its transcript says
of notices, each worker's status, claimed key and interruption. `disk` is the same record as a boot
would load it. The process has the rest: launches, checkpoint commits in flight, `deferred` (the batch
whose start is the next microtask) and `starting` (`noticeStarting`).

| actions | code |
|---|---|
| `WorkerStarts`, `WorkerDone`, `CommitSettles`, `WorkerFails`, `StopWorker` | a worker's turn; `afterSuccessfulTurn` and, when the commit settles, `finishSuccessfulTurn`; `afterFailedTurn`. The last two call `queueOrchNotice` |
| `PeerSends` | `peer_send` and `task_complete`, through `deliverNotice` |
| `DeliverNotices`: `NoticeStarts`, `NoticeRefused` | the deferred part of `flushOrchNotices`, with its catch |
| `UserSends`, `UserTypesAhead`, `LaunchSettles`, `LaunchThrows`, `CancelledSettles`, `LeadDone`, `LeadCommitSettles`, `LeadFails` | the lead's turns and launches; `MaybeDrainQueued` is the drain that a notice about to start holds back |
| `StopLead`, `ResumeCrew` | `stopRun` with `stopCrew`; "Resume crew" |
| `AutoResume`: `ResumeInterrupted`, `ResumeLead` | `resumeInterruptedRuns`, if the user has opted into it: the marker saved at once, then the lane's `deliverNotice` with `resume`, which lifts the hold of a lead that was cut off |
| `FlushTranscripts`, `FlushStore`, `Quit`, `Reboot` | the debounced flush, whose transcripts reach the disk before the envelope; `stopAll`; load with `recoverInterruptedRuns`, `holdRestoredNotices` and `noticeInterruptedWorkers` |

Every other save is one of two kinds, and the difference is what the module is about: `enqueueNotice`
writes at once (`Post`), everything else waits for the debounced flush.

The variables `sent`, `overlapped`, `streak`, `restored`, `stranded` and `halt` are history: no guard reads
them. `overlapped` are the turns of a worker whose commits and starts crossed, so that one's run id may
stand for the other.

## Store

The protocol of `store.js` between memory and files. A thread is there from the first boot
(`FirstThreads`) or created on the way (`CreateThread`: row, empty transcript, `save()`), and may be
removed. A transcript is a version number, and so is the rest of the envelope. A member of `Logs` is a work
log instead of a transcript: it goes through the same marks and files, but it is never evicted, and when
it is marked dirty after its thread is gone it is written as an empty list (`Content`), where a transcript
is not written at all. `marks` is `_dirty`, `_envelopeDirty`, `_dirtyMessageIds` and
`_deletedMessageIds`; `flush` is the flush under way with its snapshot, stale once a `saveNow` has
raised `_writeGen`; `window` says whether the throttle lets the envelope be written. `FlushAsync` is
`_flushAsync` up to its first await, `FlushCommits`, `FlushFails` and `FlushStale` its three ends.
`SaveNow` and `SaveNowFails` are `saveNow` with its replay of the flush under way. A crash may fall between any two renames of a flush. A
read hydrates a transcript and may evict others (`Evictable`). `latest`, `promised`, `purged`, `fresh` and
`broke` are history.

## TurnRetry

One thread and what may start a turn on it without its user: the wake from a quota wait, failover to
the next provider, the admission from the run queue, a notice, and the resume after a restart. `row` is
the thread's row, `disk` what was saved of it, `timer` the entry of `quotaTimers`, `held` the starts
that wait for the login PATH in the order in which they will go on. `StartRun` and `Begin` are
`startRun` before and after that wait; `Thrown` is what each caller does when it throws, which is where
they differ. `full` stands for the other threads' runs.

`DecideQuotaWait` and `Untried` are `decideQuotaWait` and `nextQuotaFailover`; a quota error with a
reset clock and one without are the two inputs of `RunHitsQuota`. The launch of a run is one step here,
since `RunLifecycle` has its phases, and the chain of providers is a constant, although the settings
may change it.

## Runs

| run | asks | bounds | states |
|---|---|---|---|
| `run_lifecycle` | ten properties of `RunLifecycle`, with `PathCaptured` | 3 threads and a memory pass, 1 verified, cap 1, 1 fix attempt, 3 messages, 1 restart | 1,342,115 |
| `run_liveness` | every waiting turn leaves the queue, every slot comes back | 2 threads, cap 1, 2 messages, 1 restart, PATH pending at boot | 8,396 |
| `crew_tasks` | five properties and the refinement of `CrewBoard` | root and a worker, 3 tasks, attempt cap 2, six batches | 384,837 |
| `crew_notices` | nine properties of `OrchNotices` | 2 workers, 2 turns, or 1 turn with a peer's message, auto-turn cap 1, 1 restart, 1 unsettled launch or commit of the lead; symmetric workers | 1,802,363 |
| `store_writes` | six properties of `Store`, one of them liveness | 2 transcripts, one of a thread created on the way, 2 appends, 1 change of the envelope, 1 failed write, 1 restart | 1,178,467 |
| `turn_retry` | seven properties of `TurnRetry`, one of them liveness | 2 providers, a chain of one, 2 turns of users and notices, 1 switch or deletion, 2 starts that wait together, 2 restarts | 801,661 |
| `run_quit`, `run_boot_cap`, `run_stuck`, `run_fold`, `crew_stop`, `store_exit` | one stated property each, violated | as small as shows it | |

Why the bounds are enough. With cap 1 two threads already compete for the slot; the third makes
the order of two waiting threads visible (FIFO, overtaking, a second admission after the first).
Three messages are a running turn, a waiting turn and a follow-up, or two follow-ups of one thread
behind its running turn, whose order can then be disturbed. One memory pass is enough to exceed the cap
while others run, wait and end. One verified thread with one fix attempt
goes through every outcome of the gate beside unverified threads. Six run ids are more than
launches, agents, verifications and checkpoints of stopped and new runs ever use at once with three
messages (at most four). On the board, three tasks hold a chain, a shared need, a cycle and a batch that
refers to tasks added before; two attempts make the guardrail bite after one release.
What the bounds leave open, the theorems below close for the properties they name.

Of the crew, two turns are two workers' ends, or one worker's failed turn beside the late commit of
the turn before; `MaxEvents` lets a peer's message take the place of one of them, since all three
together with a restart make four times as many states and more. Two ends, the interruptions and the lead's
own resumption meet an auto-turn cap of one, so that the cap is hit, reset and hit again. One restart is a
quit or a crash at any point, with the recovered notices joined by new ones after it. In the store, two threads let one be evicted, removed or written
while the flush holds the other; two appends let a transcript change while it is being flushed; the thread that is created on the way
makes a shard reach the disk before its row; a failed
write meets every other step once. With a chain of one provider a turn that hits its quota fails over
once and then waits; the user's one switch, to the other provider, makes the chain's provider untried
again, which is what adds a wake, and a crash after it replays the failover that the row still had ahead.
A longer chain is left to the proof. Two restarts are what it takes to resume a thread, crash in the resumed run and be tempted to
resume it again; two waiting starts are what it takes for one of them to be refused.

The properties, in the words of the hazards they are for:

- `CapRespected`, `NoIdleSlot`, `NoOvertaking`: the cap, the wake-up and the FIFO of the run queue,
  whoever frees a slot and whatever starts inline before the admission runs. `admitQueuedRuns` takes only
  the head, and nobody else takes a slot while threads wait; memory passes are apart.
- `SlotIsOwned`, `EntryEndsItself`, `RunningIsWorking`: ownership of a thread by one run, against
  late events, cancelled launches, aborted verifications and failed starts.
- `MessagesKept`, `FollowUpsInOrder`: nothing the user wrote is lost, doubled or reordered between
  composer, follow-up queue, run queue and agent, but for what `run_fold` shows.
- `FixesBounded`: the verify gate hands back at most `MAX_FIX_ATTEMPTS` times between user turns.
- `QueuedRunStarts`, `SlotComesBack`: liveness of the queue and the slots.
- `NoticesSurvive`, `AnnouncedOnce`, `EndIsAnnounced`: the end of a turn is announced in the step of its
  terminal hooks, with its own run id, and never twice; a notice that was ever queued is on disk and in
  memory, in the queue or in the transcript, whichever flush came last. Turns that overlapped with a commit
  of the same worker are excepted, see below.
- `NoIdleNotices`, `NoticeNeverBounces`: no lost wake-up of the lead, and no notice turned away because
  the drain of the same macrotask took the lead first.
- `RestoredNeedConsent`, `OnlyLateCommitsWake`, `AutoTurnsCapped`: what the user decides. Notices of
  before a restart wait for the user or for the auto-resume that the user opted into; Stop leaves nothing
  that starts the lead again but the late commits of `crew_stop`; machine-delivered turns are capped, also
  over restarts.
- `ReadsAreCurrent`, `NothingForgotten`, `SaveNowIsDurable`, `NoOrphanShard`, `SavesReachDisk`: eviction
  never shows an old transcript; what differs from the disk is marked or being written; no older snapshot
  is renamed over what `saveNow` wrote, and no row it saved goes; no transcript outlives its thread
  unmarked, nor precedes its row unless the thread is new; saves reach the disk.
- `RunsAlone`, `LiveRunKeepsStatus`: no retry is armed beside a run, and no late start or failed retry
  disturbs the row of a live run.
- `NoRetryStorm`, `ResumedOnce`: wakes, failovers and resumes after restarts are bounded, through
  provider switches, queued wakes and crashes that forget the row.
- `WatchLostByUser`, `WaitsEnd`: a parked thread keeps something that will wake it until the user's own
  step takes it away, and it does wake.
- `ClaimedIsReady`, `OwnerIsLastClaimant`, `AttemptsCapped`, `HistoryIsKept`, `BoardSpec`: the board.

`CHECK_DEADLOCK FALSE`: the system may rest, when the user has nothing more to say and no run is on,
or when every task is closed; likewise
when no worker has a turn left, when everything is saved, when the thread is done.

Fairness, in `FairSpec`. The microtasks run to the end before anything else (weak fairness of
`RunStart` and `AdmitQueuedRuns`, which nothing disables). A settled promise or an exited child is
delivered by the event loop however many user calls come first; since a macrotask is disabled while
microtasks run, that is strong fairness of `PathSettles`, `LaunchSettles`, `AgentEnds`, `TurnCommits`
and `VerifyEnds`. That git, hooks, verify commands (which have a timeout) and agents end at all is
the assumption; an agent that never ends is one the user stops. No fairness is assumed of the user,
of a quit or of a crash. `FairSpec` says which settling action happens, not with which outcome.

In `Store`, timers fire (`FlushAsync`), file operations settle (`FlushEnds`) and time passes
(`WindowOpens`), each weakly fair: once armed they stay so until they happen. The flush may settle by
failing; that it does not fail for ever is the bound `MaxFails`. In `TurnRetry` the timers fire, the login
shell answers or times out (`PathCaptured`), what waited for it goes on (`Release`), a turn at the head
of the run queue is admitted when a slot is free (`AdmitQueuedRuns`, which `NoIdleSlot` of `RunLifecycle`
justifies), and other threads' runs end (`OthersEnd`). A slot that another thread takes again and again
does not starve the queue, since `OthersFill` takes none that the queue could have. `WaitsEnd` excepts
a user who stops the queued wake for ever.

## Where code and comments disagree

Each of these runs ends in a counterexample; `PROJECT.json` quotes the line that says otherwise.

- `run_quit`: `stopAll` frees the slots while the process still awaits its teardown, so queued
  admissions take waiting turns off the persisted queue. A restart does not keep the run queue.
- `run_boot_cap`: before the login PATH is captured a start yields before it takes its slot, so the
  boot's admission loop counts none of what it admits, and more runs start than the cap allows.
- `run_stuck`: Stop on a thread whose fix prompt waits for a slot empties the queue entry and leaves
  the thread `working` with nothing behind it, until the next boot.
- `run_fold`: a follow-up folded into a turn whose launch then throws, or is stopped before its agent
  spawns, was read by no agent and is in no queue and no transcript.
- `crew_stop`: a worker whose checkpoint commit was in flight when the user stopped the crew still queues
  its notice, which starts the stopped lead.
- `store_exit`: a normal exit while a flush is under way saves nothing, because the flush has cleared the
  flag that the exit hook reads; what the flush was writing is lost. `stopAll` saves at once, so a quit
  is exposed only for what is flushed during the teardown after it.

`MessagesKept` and `OnlyLateCommitsWake` hold but for what `run_fold` and `crew_stop` show: they except
`dropped` and the commits in flight, and nothing more.

Three more disagreements, read off the code while modelling; no run asks for them:

- a worker can close an open task that nobody ever claimed (`services-crew.js:280`, against the comment two
  lines above it);
- a checkpoint that settles after its thread was started and stopped again sends the parked follow-up
  (`runner-verify-gate.js:174`), although stopped turns never do (`runner.js:1024`): the continuation that
  wakes the lead in `crew_stop`;
- a flush and a `saveNow` unlink a removed thread's transcript before they rename the envelope
  (`store.js:1865`, `store.js:1991`): a crash in between leaves a row whose transcript is gone, which
  `store.js:1788` rules out.

Some properties name an exception of their own, which is what the code does and no comment rules out in so
many words. They are worth a look:

- `NoIdleNotices`: a launch of the lead that throws has no terminal hook, so notices queued during it wait
  for the next one.
- `EndIsAnnounced`: the key is the run id of the worker's last message when the commit settles. When the
  worker's next turn has begun by then, the first end is announced with the next turn's id, and the next
  turn's own end is taken for a replay: the lead never hears of it. The comment on the key accepts a missed
  wake rather than a duplicate one (`runner-orch-notices.js:286`).
- `LiveRunKeepsStatus`: a wake, failover or admission that waited for the PATH behind another start is
  refused, and its handler marks the live run's thread failed; the handler of notices checks for that.
- `WatchLostByUser`: a send that is refused after `cancelQuotaWake` leaves a parked thread without a timer
  until the next boot or change of the settings.
- `SavesReachDisk`: a `saveNow` that throws has cleared the timer and arms none.
- `NoOrphanShard`: a new thread's file may reach the disk while the throttle holds its row back; a crash
  then leaves the file without a row (`services-threads.js:376`, `store.js:1793`). Work logs are excepted: a
  `saveNow` that follows the one that deleted a removed thread's log, with the flush that was writing the
  log still under way, marks it dirty again (`store.js:1979`) and writes an empty one that nothing deletes.

While a boot waits for the PATH, `NoIdleSlot` and `RunningIsWorking` fail for the same cause as
`CapRespected`: a thread that is admitted twice is refused the second time, and the refusal marks
the running thread failed. `MessagesKept` fails too, since a follow-up that a start took off its queue is
nowhere until the PATH is there and a crash then loses it (`runner.js:1821`), and so does
`FollowUpsInOrder`: two queued follow-ups that the user sends one after the other wait for the PATH
together, and when both are refused they are put back the wrong way round. All five are therefore
checked, and proved, with `PathCaptured`; so is `NoOvertaking`, whose proof rests on the same invariant.

## Proofs

All proof modules are checked by `tlapm` to the last leaf. Nothing is assumed but the named
assumptions on constants in the modules themselves (`Threads` is finite, `Cap` is positive, and so on),
which TLC evaluates in the runs, and `PathCaptured` where a theorem says so. Each inductive invariant was
checked by TLC on the instance of its run before it was proved.

**RunLifecycle_proofs.**

- `TypeCorrect`: the type invariant, one lemma per group of actions. It carries two facts the rest
  needs: run ids stay within bounds (`FreeIdIsFree`: a new run's id is used nowhere), and the queues
  stay sequences of well-formed tasks.
- `NoLeakedSlot` (`SlotIsOwned`): the invariant is inductive relative to the types. `Backed(t)` is
  what it says of one thread; `BackedStays` says a step keeps it that leaves the entry and what the
  entry waits for, or clears the entry. Each action is one of these or installs both parts at once.
- `OwnEvents` (`EntryEndsItself`): each action that changes an entry has just compared run ids.
- `CapKept`, `NoLostWakeUp`, `SlotMeansWorking` (with `PathCaptured`): none of the three is inductive
  by itself. `CapKept` counts the entries that are no memory passes, although the code's own test
  (`RunSlotsFree`) counts them all: what that test lets through is within the cap either way. `QueueInv` adds that no thread waits twice (`QueueOnce`), that a turn waits beside a free
  slot only while an admission is queued (`WakeUpQueued`), and that a start picked by
  `admitQueuedRuns` is the very next microtask, its thread neither runs nor waits, and its slot is
  still free (`AdmittedIsNext`): that is why it may skip the cap check. All the actions that start
  nothing are dealt with at once: `QuietStep` is what they have in common and `QuietKeeps` shows that it
  suffices; `StartKeepsQueue` and `AdmitKeepsQueue` are the two that need an argument.
- `FirstComeFirstServed` (`NoOvertaking`, with `PathCaptured`): only an accepted start adds an entry, and
  it checked the queue or comes from `admitQueuedRuns`, which takes the head or nothing.
- `FixesStayBounded` (`FixesBounded`, for either value of `PathCaptured`): `FixInv` adds that a
  verification exists only once the PATH is known, so that no fix prompt is ever parked in `pathWait`;
  that one fix prompt at most is about to start; and that its thread has an attempt left.

**RunMessages_proofs** goes on from there, with `PathCaptured`: `NothingLost` (`MessagesKept`) and
`OrderKept` (`FollowUpsInOrder`).

- `At(k, t)` is where the messages of thread t are: typed into its composer, queued in its run queue
  entry, starting (the very next microtask), or launching under a run that owns the thread and may still
  give them back; what was dropped is in none of them. `MessageInv` says that these places are disjoint (`PlaceInv`), that no place repeats a
  message (`DistinctInv`), that a message in no transcript and not refused is typed or starting
  (`SeenInv`), and that what was drained was written before what is still typed (`OrderInv`).
- The launching place is in no queue and no property names it, yet the two properties are not inductive
  without it: `LaunchThrows` puts a drained turn back in front of the composer, and only `OrderInv` knows
  that it belongs there and `PlaceInv` that it is not there already. For the same reason a drained start
  must find its thread without a run, and `FreeIdIsFree` must keep an older launch from owning it again.
- `HandInv` is the event loop's part: only the next microtask carries messages, so that a drain or an
  admission that starts inline meets no other message in flight.
- `MoveStep` is the argument of every step that moves messages: they may join one place if every other
  place loses them. Steps that move none are `QuietMessages`.

**CrewTasks_proofs.** The calls are first reduced to their effect on one task (the effect lemmas and
`StepEffect`); every theorem is then a case split on that effect.

- `TypeCorrect`: the board is well formed and never outgrows `CREW_TASKS_MAX`, for any batches.
- `Readiness`, `Ownership`, `Guardrail`: `ClaimedIsReady` (done is final, so what is unblocked stays so),
  `OwnerIsLastClaimant`, `AttemptsCapped`.
- `History` (`HistoryIsKept`) and `Refinement` (`BoardSpec`): no call rewrites an attempt, and every step
  is a step of `CrewBoard` or leaves it alone.

**OrchNotices_proofs.** For any number of workers, any cap, any bound. `IInv` has four parts.

- Delivery: one batch at most is about to start, for a lead that does not run and with nothing queued
  behind it (`NoticeInv`); while notices of before a restart wait, the crew is held and none is about to
  start (`HeldInv`), until the user or auto-resume lifts the hold. `NeverBounces`, `NeedConsent` and `NoLostWakeUp` (`NoticeNeverBounces`,
  `RestoredNeedConsent`, `NoIdleNotices`) follow.
- `KeptInv`: the transcript on disk is never longer than the one in memory. With it `NoticesSurvive`
  (theorem `Survive`) is inductive over flushes in any order, quits and crashes.
- `CountInv` and `StopInv`: the saved auto-turn count is one behind at most, and not at all while another
  notice is under way, which is what caps the turns over restarts (`Capped`); after Stop no worker runs, and
  the commits still to settle are those of that moment (`StopIsSacred`, of `OnlyLateCommitsWake`).
- Claims: `AnnouncedOnce` and `EndIsAnnounced` (theorems `Once`, `Announced`) need to know how long a key
  lives. `RunKeyInv` keeps a run's key while its turn may ask again; `CutKeyInv` keeps an interruption's key
  while a row, in memory *or on disk*, bears its mark, because a crash brings the row on disk back.

**Store_proofs.** For any number of threads, old and new, versions, failures and restarts; `IInv` is
`EnvelopeInv` and, thread by thread, `MemoryInv`, `ShardInv`, `UnbornInv` (a thread that was not created yet
is in no file, mark or flush), `RowInv`, `FileInv` and `PromiseInv`.

- `ReadsCorrect` and `NothingLost` (`ReadsAreCurrent`, `NothingForgotten`): together they are nearly
  inductive. Missing is that a marked or snapshotted transcript is parsed, so that eviction never meets it,
  and that a snapshot that has grown old is marked, so that the mark outlives either end of the flush.
- `Durable` (`SaveNowIsDurable`): what a `saveNow` promised bounds not only the disk but also every snapshot
  that is still live; a stale one is never renamed.
- `NoOrphans` (`NoOrphanShard`): the thread of a transcript's file is in *every* envelope that may be the
  one on disk while the file is there, or the deletion that goes with that envelope takes the file along,
  or the thread is new and in no envelope written since (`FileInv`, which work logs do not satisfy).

**TurnRetry_proofs.** For every chain of providers and all bounds.

- `Alone`, `OneResume` (`RunsAlone`, `ResumedOnce`) and the action properties `StatusKeeps` and `WatchKeeps`
  (`LiveRunKeepsStatus`, `WatchLostByUser`): `RunInv` says what the acceptance of a run has cleared,
  `HeldInv` what may wait for the PATH, `ResumeInv` that a counted resume is marked on disk as well.
- `NoStorm` (`NoRetryStorm`): a budget. Every wake and every failover that is still due, in the timer, in
  the run queue or among the starts that wait, has its share of the bound set aside (`WakesInv`, `HopsInv`),
  and a restart sets aside three more. `TriedInv` keeps the row on disk from bringing back a chain with
  nothing tried and a failover due.
- A first bound of two wakes per restart held in a run whose chain had both providers, and was false: with
  a chain of one provider, a crash may bring back a row from before the failover that a switch of the user
  had made possible, and that failover ends in one more wake. The step that could not be proved showed it,
  and the bound and the run are now what they are.

Only model-checked: the liveness properties `QueuedRunStarts`, `SlotComesBack`, `SavesReachDisk` and
`WaitsEnd`, since fairness and ENABLED are beyond the prover.

## Limits

Not modelled in `RunLifecycle`: ask, btw and workflow runs and orchestrator hops; thrash interrupts;
archive and removal of threads; a change of the cap while runs are on; changes that a crash loses
because they were not yet flushed. Crew notices with the cascade of Stop are in `OrchNotices`, quota
parking, auto resume and deletion in `TurnRetry`; there the run lifecycle is reduced to what they see of
it, and the modules are not composed formally.

`OrchNotices` has one lead, starts with the PATH captured and leaves out Codex sessions shared with other
programs, reviewers' notices, the sweep of finished workers and leads that are workers themselves. `Store`
leaves out migrations, corrupt files and side files; of work logs it says what differs from transcripts.
The passing run has transcripts only, the theorems any set `Logs`, and `NoOrphanShard` is about transcripts.
`TurnRetry` has one thread with a fixed chain of providers; the hold of restored notices is
`OrchNotices`' matter.

`PROJECT.json` lists the main hazards with the properties that cover them. Smaller ones, met while
modelling and covered by none:

- a task batch may hold a cycle (`services-crew.js:141`), and a task at its attempt cap at the front hides
  the claimable ones behind it from self-claim (`services-crew.js:184`);
- an inbound turn counts against the auto-turn cap once more when it is admitted (`runner.js:1885`);
- what a start took off a queue before it waited for the PATH is lost by a crash during the wait
  (`runner.js:1821`);
- a failover that was pending is not re-armed at boot (`runner-quota-wait.js:292`); a wake replays the
  last user message, which may be one that Stop took out of the run queue (`runner-quota-wait.js:57`); a
  send that joins a queued wake counts as a replay (`runner.js:1136`);
- the recycler frees a lane by the age of a heartbeat (`mergeQueue.js:629`), and a preview copies files
  before it saves what it copied (`mergeQueue.js:537`).

Components that are pure I/O, rendering, or separate programs are listed in `PROJECT.json` as not
modelled.
