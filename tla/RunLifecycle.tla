---------------------------- MODULE RunLifecycle ----------------------------
(***************************************************************************)
(* The run lifecycle of electron/runner.js and runner-verify-gate.js: how  *)
(* a thread's turn is started, waits for a run slot, launches its agent,   *)
(* ends, is verified, is stopped, and hands over to the follow-ups typed   *)
(* meanwhile; and what a quit, a crash and the next boot do to all of it.  *)
(*                                                                         *)
(* The main process is one JavaScript event loop.  A macrotask (an IPC     *)
(* call, a child process event, an awaited git or hook call that settles)  *)
(* runs to completion, then the microtasks it queued run in order, then    *)
(* the next macrotask.  `micro' is that queue; code that runs inline after *)
(* the modelled step is put at its front.  What outlives an await is a     *)
(* record in launches, agents, verifies or checkpoints, and is compared    *)
(* with the thread's `active' entry when it resumes.                       *)
(*                                                                         *)
(* Abstracted: prompts are message numbers; the awaits of a launch are     *)
(* one; budget, binary and worktree checks refuse or pass as they like;    *)
(* so do the holds of maybeDrainQueued (plan card, inbound policy, a       *)
(* notice about to start); the promise hops of a rejection are one step;   *)
(* run ids are reused once nothing refers to them.  Not here: ask, btw,    *)
(* workflow and orchestrator-hop runs, quota parking, crew notices, turns  *)
(* that other threads send, removal of threads, and the loss of unflushed  *)
(* writes in a crash.                                                      *)
(***************************************************************************)
EXTENDS Integers, Sequences, FiniteSets

CONSTANTS
    Threads,        \* conversation threads
    SystemThreads,  \* thread.memoryConsolidate: the sleep-time memory passes
    Cap,            \* settings.maxConcurrentRuns
    VerifyThreads,  \* threads with a verify command
    MaxFix,         \* MAX_FIX_ATTEMPTS
    MaxRuns,        \* bound: run ids in use at one time
    PathCaptured,   \* no login-PATH capture is pending at boot (win32)
    NoRun,          \* no entry in `active'
    MaxMsgs,        \* bound: messages the user writes
    MaxRestarts     \* bound: quits and crashes

ASSUME ThreadsAssumption == IsFiniteSet(Threads)
ASSUME SystemAssumption == SystemThreads \subseteq Threads
ASSUME CapAssumption == Cap \in Nat \ {0}
ASSUME VerifyAssumption == VerifyThreads \subseteq Threads /\ MaxFix \in Nat
ASSUME PathAssumption == PathCaptured \in BOOLEAN
ASSUME BoundsAssumption == MaxMsgs \in Nat /\ MaxRestarts \in Nat /\ MaxRuns \in Nat

VARIABLES
    status,       \* thread.status
    active,       \* the `active' map: the entry that owns each thread
    runQueue,     \* threads waiting for a run slot, by runQueue.at
    typeAhead,    \* thread.queued: the follow-ups typed during a turn
    tries,        \* fix attempts behind the thread's last prompt
    launches,     \* starts that wait on git, hooks or memory before spawning
    agents,       \* agent processes whose terminal event is still to come
    verifies,     \* verify commands in flight
    checkpoints,  \* done turns whose checkpoint commit is in flight
    micro,        \* the microtask queue
    pathReady,    \* whenPathReady() has nothing to wait for
    pathWait,     \* starts that await the login PATH
    phase,        \* "up", or "quitting" once stopAll has run
    nmsg,         \* messages written so far
    recorded,     \* history: messages in a transcript or handed to an agent
    dropped,      \* history: messages folded into a turn that reached no agent
    bounced,      \* history: messages refused to the user's face
    restarts

runVars == <<status, active, tries, launches, agents, verifies, checkpoints>>
queueVars == <<runQueue, typeAhead>>
pathVars == <<pathReady, pathWait>>
histVars == <<nmsg, recorded, dropped, bounced, restarts>>
vars == <<runVars, queueVars, micro, pathVars, phase, histVars>>

Msg == 1..MaxMsgs
RunId == 1..MaxRuns
Entry == [rid: RunId, kind: {"preparing", "live", "verify"}]
Pending == [t: Threads, rid: RunId]

ASSUME NoRunAssumption == NoRun \notin Entry

Source == {"send", "drain", "slot", "fix"}
Launch == [t: Threads, rid: RunId, from: Source, msgs: Seq(Msg)]
Start == [op: {"start"}, t: Threads, from: Source, msgs: Seq(Msg)]
Task == Start \cup [op: {"admit"}]

TypeOK ==
    /\ status \in [Threads -> {"idle", "working", "done", "failed"}]
    /\ active \in [Threads -> Entry \cup {NoRun}]
    /\ runQueue \in Seq([t: Threads, msgs: Seq(Msg)])
    /\ typeAhead \in [Threads -> Seq(Msg)]
    /\ tries \in [Threads -> Nat]
    /\ launches \subseteq Launch
    /\ agents \subseteq Pending
    /\ verifies \subseteq Pending
    /\ checkpoints \subseteq Pending
    /\ micro \in Seq(Task)
    /\ pathReady \in BOOLEAN
    /\ pathWait \in Seq(Start)
    /\ phase \in {"up", "quitting"}
    /\ nmsg \in 0..MaxMsgs
    /\ recorded \subseteq Msg
    /\ dropped \subseteq Msg
    /\ bounced \subseteq Msg
    /\ restarts \in 0..MaxRestarts

-----------------------------------------------------------------------------
(* Helpers.                                                                *)

Admit == [op |-> "admit"]
StartOf(t, from, msgs) == [op |-> "start", t |-> t, from |-> from, msgs |-> msgs]

Elems(s) == {s[i] : i \in DOMAIN s}

Running == {t \in Threads : active[t] # NoRun}
\* Mutant: one run too many.
OneSlotMore == Cardinality(Running) <= Cap
RunSlotsFree == Cardinality(Running) < Cap
Waiting == {runQueue[i].t : i \in DOMAIN runQueue}

\* Mutant: does not compare the run id.
OwnsAny(t, rid, kind) == active[t] # NoRun /\ active[t].kind = kind

\* The entry of thread t is the one run rid put there, in the given state.
Owns(t, rid, kind) == active[t] = [rid |-> rid, kind |-> kind]

UsedIds ==
    {active[t].rid : t \in Running} \cup {p.rid : p \in launches}
        \cup {p.rid : p \in agents \cup verifies \cup checkpoints}

\* A run id is free again once nothing refers to it.
FreeId == CHOOSE r \in RunId : r \notin UsedIds

\* The loop is between two macrotasks.
Idle == micro = <<>>

-----------------------------------------------------------------------------
(* startRun.  The head of the microtask queue is a start; what its caller  *)
(* does when it throws is part of the step.                                *)

\* Which starts take the type-ahead queue into their own prompt.
Folds(in) == in.from \in {"send", "fix"}
Folded(in) == IF Folds(in) THEN typeAhead[in.t] ELSE <<>>

\* Mutant: any free slot will do.
TakesFreeSlot(in) ==
    /\ in.t \notin SystemThreads
    /\ in.from # "slot"
    /\ in.t \in Waiting \/ ~RunSlotsFree

\* Strict FIFO: a start that did not come from the run queue also waits
\* behind anything queued.  A memory pass skips the line.
MustQueue(in) ==
    /\ in.t \notin SystemThreads
    /\ in.from # "slot"
    /\ in.t \in Waiting \/ ~RunSlotsFree \/ runQueue # <<>>

\* The next verification's attempt number, read off the last user message:
\* one more when that is a fix prompt, zero when the user spoke.
NextTry(in, fixIsLast) ==
    CASE in.from = "slot" -> tries[in.t]
      [] fixIsLast        -> tries[in.t] + 1
      [] OTHER            -> 0

StartWaitsForPath(in) ==
    /\ ~pathReady
    /\ pathWait' = Append(pathWait, in)
    /\ micro' = Tail(micro)
    /\ UNCHANGED <<runVars, queueVars, pathReady, phase, histVars>>

\* A throw before the turn is accepted.  The fold is undone; the sender is
\* told, drainQueued puts the items back in front, admitQueuedRuns marks the
\* thread failed, and so does an undelivered fix prompt unless the thread
\* runs.  failWorktreeSetup also records the prompt and marks the thread; a
\* memory pass gets no worktree.
StartRefused(in, worktree) ==
    /\ pathReady
    /\ in.t \in Running => ~worktree
    /\ worktree => in.t \notin SystemThreads /\ ~MustQueue(in)
    /\ micro' = Tail(micro)
    /\ typeAhead' = IF in.from = "drain"
                    THEN [typeAhead EXCEPT ![in.t] = in.msgs \o @]
                    ELSE typeAhead
    /\ bounced' = IF in.from = "send" THEN bounced \cup Elems(in.msgs) ELSE bounced
    /\ recorded' = IF worktree THEN recorded \cup Elems(in.msgs) ELSE recorded
    /\ status' = IF \/ worktree
                    \/ in.from = "slot"
                    \/ in.from = "fix" /\ in.t \notin Running
                 THEN [status EXCEPT ![in.t] = "failed"]
                 ELSE status
    /\ UNCHANGED <<active, tries, launches, agents, verifies, checkpoints,
                   runQueue, pathVars, phase, nmsg, dropped, restarts>>

\* enqueueRun: a second start of a waiting thread joins its entry.
StartQueued(in) ==
    LET msgs == Folded(in) \o in.msgs
        Join(e) == IF e.t = in.t THEN [e EXCEPT !.msgs = @ \o msgs] ELSE e
    IN  /\ pathReady
        /\ in.t \notin Running
        /\ MustQueue(in)
        /\ runQueue' = IF in.t \in Waiting
                       THEN [i \in DOMAIN runQueue |-> Join(runQueue[i])]
                       ELSE Append(runQueue, [t |-> in.t, msgs |-> msgs])
        /\ typeAhead' = IF Folds(in) THEN [typeAhead EXCEPT ![in.t] = <<>>] ELSE typeAhead
        /\ tries' = [tries EXCEPT
             ![in.t] = NextTry(in, in.from = "fix" /\ Folded(in) = <<>>)]
        /\ recorded' = recorded \cup Elems(msgs)
        /\ micro' = Append(Tail(micro), Admit)
        /\ UNCHANGED <<status, active, launches, agents, verifies, checkpoints,
                       pathVars, phase, nmsg, dropped, bounced, restarts>>

\* The turn is accepted: status, then a preparing entry, then the awaits.
\* The transcript gets the turn's own prompt only: what was folded into it
\* goes with the launch, and no longer back to the type-ahead queue.
StartAccepted(in) ==
    LET rid == FreeId
    IN  /\ pathReady
        /\ in.t \notin Running
        /\ ~MustQueue(in)
        /\ UsedIds # RunId
        /\ status' = [status EXCEPT ![in.t] = "working"]
        /\ active' = [active EXCEPT ![in.t] = [rid |-> rid, kind |-> "preparing"]]
        /\ launches' = launches \cup
             {[t |-> in.t, rid |-> rid, from |-> in.from, msgs |-> Folded(in) \o in.msgs]}
        /\ typeAhead' = IF Folds(in) THEN [typeAhead EXCEPT ![in.t] = <<>>] ELSE typeAhead
        /\ tries' = [tries EXCEPT ![in.t] = NextTry(in, in.from = "fix")]
        /\ recorded' = recorded \cup Elems(in.msgs)
        /\ micro' = Tail(micro)
        /\ UNCHANGED <<agents, verifies, checkpoints, runQueue, pathVars, phase,
                       nmsg, dropped, bounced, restarts>>

RunStart ==
    /\ ~Idle
    /\ Head(micro).op = "start"
    /\ \/ StartWaitsForPath(Head(micro))
       \/ \E worktree \in BOOLEAN : StartRefused(Head(micro), worktree)
       \/ StartQueued(Head(micro))
       \/ StartAccepted(Head(micro))

-----------------------------------------------------------------------------
(* admitQueuedRuns, one turn of its loop at a time: the oldest entry whose *)
(* thread is not running starts inline, before the loop goes on.           *)

\* A thread has one runQueue field: clearing it takes one entry out.
WithoutEntry(i) == SubSeq(runQueue, 1, i - 1) \o SubSeq(runQueue, i + 1, Len(runQueue))

Admissible == {i \in DOMAIN runQueue : runQueue[i].t \notin Running}

\* Mutant: one admission per microtask.
AdmitsOnce ==
    /\ RunSlotsFree
    /\ \E i \in Admissible :
         /\ \A j \in Admissible : i <= j
         /\ micro' = <<StartOf(runQueue[i].t, "slot", runQueue[i].msgs)>> \o Tail(micro)
         /\ runQueue' = WithoutEntry(i)
    /\ UNCHANGED <<runVars, typeAhead, pathVars, phase, histVars>>

AdmitNext ==
    /\ RunSlotsFree
    /\ \E i \in Admissible :
         /\ \A j \in Admissible : i <= j
         /\ micro' = <<StartOf(runQueue[i].t, "slot", runQueue[i].msgs)>> \o micro
         /\ runQueue' = WithoutEntry(i)
    /\ UNCHANGED <<runVars, typeAhead, pathVars, phase, histVars>>

AdmitEnds ==
    /\ ~RunSlotsFree \/ Admissible = {}
    /\ micro' = Tail(micro)
    /\ UNCHANGED <<runVars, queueVars, pathVars, phase, histVars>>

AdmitQueuedRuns ==
    /\ ~Idle
    /\ Head(micro).op = "admit"
    /\ AdmitNext \/ AdmitEnds

-----------------------------------------------------------------------------
(* What the user does.                                                     *)

\* threads:send while the composer believes the thread is free, or the prompt
\* that the scheduler gives a memory pass.
UserSends(t) ==
    /\ Idle /\ phase = "up" /\ nmsg < MaxMsgs
    /\ nmsg' = nmsg + 1
    /\ micro' = <<StartOf(t, "send", <<nmsg + 1>>)>>
    /\ UNCHANGED <<runVars, queueVars, pathVars, phase, recorded, dropped,
                   bounced, restarts>>

\* threads:setQueued, at any moment: the turn may just have ended.
UserTypesAhead(t) ==
    /\ Idle /\ phase = "up" /\ nmsg < MaxMsgs
    /\ nmsg' = nmsg + 1
    /\ typeAhead' = [typeAhead EXCEPT ![t] = Append(@, nmsg + 1)]
    /\ UNCHANGED <<runVars, runQueue, micro, pathVars, phase, recorded, dropped,
                   bounced, restarts>>

\* sendQueued: the head goes as a turn of its own.
UserSendsQueued(t) ==
    /\ Idle /\ phase = "up"
    /\ t \notin Running
    /\ typeAhead[t] # <<>>
    /\ typeAhead' = [typeAhead EXCEPT ![t] = Tail(@)]
    /\ micro' = <<StartOf(t, "drain", <<Head(typeAhead[t])>>)>>
    /\ UNCHANGED <<runVars, runQueue, pathVars, phase, histVars>>

\* stopRun on a waiting thread only takes it out of the run queue.
StopWaiting(t) ==
    /\ Idle /\ phase = "up"
    /\ t \notin Running
    /\ \E i \in DOMAIN runQueue : runQueue[i].t = t /\ runQueue' = WithoutEntry(i)
    /\ UNCHANGED <<runVars, typeAhead, micro, pathVars, phase, histVars>>

\* Mutants: stores the name of the terminal; forgets the turns that wait.
StopSaysStopped(t) ==
    /\ Idle /\ phase = "up" /\ t \in Running
    /\ active' = [active EXCEPT ![t] = NoRun]
    /\ status' = [status EXCEPT ![t] = "stopped"]
    /\ micro' = <<Admit>>
    /\ UNCHANGED <<tries, launches, agents, verifies, checkpoints, queueVars, pathVars,
                   phase, histVars>>

StopAdmitsNobody(t) ==
    /\ Idle /\ phase = "up" /\ t \in Running
    /\ active' = [active EXCEPT ![t] = NoRun]
    /\ status' = [status EXCEPT ![t] = "idle"]
    /\ UNCHANGED <<tries, launches, agents, verifies, checkpoints, queueVars, micro,
                   pathVars, phase, histVars>>

\* stopRun on a run: the entry goes at once; what it launched finds out when
\* it resumes.
StopRunning(t) ==
    /\ Idle /\ phase = "up"
    /\ t \in Running
    /\ active' = [active EXCEPT ![t] = NoRun]
    /\ status' = [status EXCEPT ![t] = "idle"]
    /\ micro' = <<Admit>>
    /\ UNCHANGED <<tries, launches, agents, verifies, checkpoints, queueVars, pathVars,
                   phase, histVars>>

-----------------------------------------------------------------------------
(* The launch, after its awaits.                                           *)

\* What a launch that reaches no agent takes with it.
Forgets(l) == dropped' = dropped \cup (Elems(l.msgs) \ recorded)

\* Mutant: settles whatever runs there now.
CancelledIdlesThread(l) ==
    /\ Idle
    /\ ~Owns(l.t, l.rid, "preparing")
    /\ launches' = launches \ {l}
    /\ status' = [status EXCEPT ![l.t] = IF @ = "working" THEN "idle" ELSE @]
    /\ Forgets(l)
    /\ UNCHANGED <<active, tries, agents, verifies, checkpoints, queueVars, micro,
                   pathVars, phase, nmsg, recorded, bounced, restarts>>

\* settleCancelledLaunch: a newer run on the thread is left alone.
LaunchCancelled(l) ==
    /\ Idle
    /\ ~Owns(l.t, l.rid, "preparing")
    /\ launches' = launches \ {l}
    /\ status' = IF l.t \notin Running /\ status[l.t] = "working"
                 THEN [status EXCEPT ![l.t] = "idle"]
                 ELSE status
    /\ Forgets(l)
    /\ UNCHANGED <<active, tries, agents, verifies, checkpoints, queueVars, micro,
                   pathVars, phase, nmsg, recorded, bounced, restarts>>

LaunchSpawns(l) ==
    /\ Idle
    /\ Owns(l.t, l.rid, "preparing")
    /\ launches' = launches \ {l}
    /\ active' = [active EXCEPT ![l.t].kind = "live"]
    /\ agents' = agents \cup {[t |-> l.t, rid |-> l.rid]}
    /\ recorded' = recorded \cup Elems(l.msgs)
    /\ UNCHANGED <<status, tries, verifies, checkpoints, queueVars, micro, pathVars,
                   phase, nmsg, dropped, bounced, restarts>>

\* Mutants: keeps the entry; puts the drained turn behind newer ones.
ThrowLeaksSlot(l) ==
    /\ Idle
    /\ Owns(l.t, l.rid, "preparing")
    /\ launches' = launches \ {l}
    /\ status' = [status EXCEPT ![l.t] = "failed"]
    /\ Forgets(l)
    /\ UNCHANGED <<active, tries, agents, verifies, checkpoints, queueVars, micro,
                   pathVars, phase, nmsg, recorded, bounced, restarts>>

ThrowRequeuesLast(l) ==
    /\ Idle
    /\ Owns(l.t, l.rid, "preparing")
    /\ launches' = launches \ {l}
    /\ active' = [active EXCEPT ![l.t] = NoRun]
    /\ status' = [status EXCEPT ![l.t] = "failed"]
    /\ typeAhead' = IF l.from = "drain"
                    THEN [typeAhead EXCEPT ![l.t] = @ \o l.msgs]
                    ELSE typeAhead
    /\ micro' = <<Admit>>
    /\ Forgets(l)
    /\ UNCHANGED <<tries, agents, verifies, checkpoints, runQueue, pathVars, phase,
                   nmsg, recorded, bounced, restarts>>

\* A blocking hook or a provider that cannot start.  The caller's handler
\* runs too: a drained turn goes back to the type-ahead queue.  The fold of
\* startRun does not: its turn was accepted.
LaunchThrows(l) ==
    /\ Idle
    /\ Owns(l.t, l.rid, "preparing")
    /\ launches' = launches \ {l}
    /\ active' = [active EXCEPT ![l.t] = NoRun]
    /\ status' = [status EXCEPT ![l.t] = "failed"]
    /\ typeAhead' = IF l.from = "drain"
                    THEN [typeAhead EXCEPT ![l.t] = l.msgs \o @]
                    ELSE typeAhead
    /\ micro' = <<Admit>>
    /\ Forgets(l)
    /\ UNCHANGED <<tries, agents, verifies, checkpoints, runQueue, pathVars, phase,
                   nmsg, recorded, bounced, restarts>>

-----------------------------------------------------------------------------
(* The end of a turn.                                                      *)

\* Mutant: clears the queue when only its head was taken.
DrainClearsAll(t, held, later) ==
    IF held \/ typeAhead[t] = <<>>
    THEN micro' = later /\ UNCHANGED typeAhead
    ELSE \E n \in {1, Len(typeAhead[t])} :
         /\ micro' = <<StartOf(t, "drain", SubSeq(typeAhead[t], 1, n))>> \o later
         /\ typeAhead' = [typeAhead EXCEPT ![t] = <<>>]

\* drainQueued, unless something holds the thread: what is waiting, or its
\* head when the user does not combine follow-ups, is taken synchronously
\* and starts inline, ahead of the queued microtasks.
Drain(t, held, later) ==
    IF held \/ typeAhead[t] = <<>>
    THEN /\ micro' = later
         /\ UNCHANGED typeAhead
    ELSE \E n \in {1, Len(typeAhead[t])} :
         /\ micro' = <<StartOf(t, "drain", SubSeq(typeAhead[t], 1, n))>> \o later
         /\ typeAhead' = [typeAhead EXCEPT ![t] = SubSeq(@, n + 1, Len(@))]

\* The guard of every provider callback: an event of a run that is not the
\* thread's current one is dropped.
AgentLate(a) ==
    /\ Idle
    /\ ~Owns(a.t, a.rid, "live")
    /\ agents' = agents \ {a}
    /\ UNCHANGED <<status, active, tries, launches, verifies, checkpoints, queueVars,
                   micro, pathVars, phase, histVars>>

\* afterSuccessfulTurn: a thread with a verify command goes back to working
\* under a verify entry; another one commits its checkpoint first.
AgentDone(a) ==
    /\ Idle
    /\ Owns(a.t, a.rid, "live")
    /\ agents' = agents \ {a}
    /\ IF a.t \in VerifyThreads
       THEN /\ active' = [active EXCEPT ![a.t].kind = "verify"]
            /\ verifies' = verifies \cup {a}
            /\ UNCHANGED <<status, checkpoints>>
       ELSE /\ active' = [active EXCEPT ![a.t] = NoRun]
            /\ status' = [status EXCEPT ![a.t] = "done"]
            /\ checkpoints' = checkpoints \cup {a}
            /\ UNCHANGED verifies
    /\ micro' = <<Admit>>
    /\ UNCHANGED <<tries, launches, queueVars, pathVars, phase, histVars>>

\* afterFailedTurn does not drain.
AgentFails(a) ==
    /\ Idle
    /\ Owns(a.t, a.rid, "live")
    /\ agents' = agents \ {a}
    /\ active' = [active EXCEPT ![a.t] = NoRun]
    /\ status' = [status EXCEPT ![a.t] = "failed"]
    /\ micro' = <<Admit>>
    /\ UNCHANGED <<tries, launches, verifies, checkpoints, queueVars, pathVars, phase,
                   histVars>>

\* finishSuccessfulTurn once the checkpoint is committed.
CheckpointSettles(c) ==
    /\ Idle
    /\ checkpoints' = checkpoints \ {c}
    /\ \E held \in BOOLEAN : Drain(c.t, held \/ status[c.t] = "working", <<>>)
    /\ UNCHANGED <<status, active, tries, launches, agents, verifies, runQueue, pathVars,
                   phase, histVars>>

VerifyStale(v) ==
    /\ Idle
    /\ ~Owns(v.t, v.rid, "verify")
    /\ verifies' = verifies \ {v}
    /\ UNCHANGED <<status, active, tries, launches, agents, checkpoints, queueVars, micro,
                   pathVars, phase, histVars>>

VerifyPasses(v) ==
    /\ Idle
    /\ Owns(v.t, v.rid, "verify")
    /\ verifies' = verifies \ {v}
    /\ active' = [active EXCEPT ![v.t] = NoRun]
    /\ status' = [status EXCEPT ![v.t] = "done"]
    /\ \E held \in BOOLEAN : Drain(v.t, held, <<Admit>>)
    /\ UNCHANGED <<tries, launches, agents, checkpoints, runQueue, pathVars, phase, histVars>>

\* Mutant: one fix attempt too many.
HandsBackAgain(v) ==
    /\ Idle
    /\ Owns(v.t, v.rid, "verify")
    /\ tries[v.t] <= MaxFix
    /\ verifies' = verifies \ {v}
    /\ active' = [active EXCEPT ![v.t] = NoRun]
    /\ micro' = <<Admit, StartOf(v.t, "fix", <<>>)>>
    /\ UNCHANGED <<status, tries, launches, agents, checkpoints, queueVars, pathVars, phase,
                   histVars>>

\* The fix prompt starts behind the admissions that the freed slot queued;
\* the thread keeps reading working until then.
VerifyHandsBack(v) ==
    /\ Idle
    /\ Owns(v.t, v.rid, "verify")
    /\ tries[v.t] < MaxFix
    /\ verifies' = verifies \ {v}
    /\ active' = [active EXCEPT ![v.t] = NoRun]
    /\ micro' = <<Admit, StartOf(v.t, "fix", <<>>)>>
    /\ UNCHANGED <<status, tries, launches, agents, checkpoints, queueVars, pathVars, phase,
                   histVars>>

\* Out of attempts, or the gate itself crashed.
VerifyFails(v) ==
    /\ Idle
    /\ Owns(v.t, v.rid, "verify")
    /\ verifies' = verifies \ {v}
    /\ active' = [active EXCEPT ![v.t] = NoRun]
    /\ status' = [status EXCEPT ![v.t] = "failed"]
    /\ micro' = <<Admit>>
    /\ UNCHANGED <<tries, launches, agents, checkpoints, queueVars, pathVars, phase, histVars>>

-----------------------------------------------------------------------------
(* The login PATH, quit, crash and boot.                                   *)

PathSettles ==
    /\ Idle
    /\ ~pathReady
    /\ pathReady' = TRUE
    /\ pathWait' = <<>>
    /\ micro' = pathWait
    /\ UNCHANGED <<runVars, queueVars, phase, histVars>>

\* stopAll: every run is marked idle and its slot freed.  Other teardown
\* steps are awaited before the process exits.
Quit ==
    /\ Idle /\ phase = "up"
    /\ restarts < MaxRestarts
    /\ phase' = "quitting"
    /\ active' = [t \in Threads |-> NoRun]
    /\ status' = [t \in Threads |-> IF t \in Running THEN "idle" ELSE status[t]]
    /\ micro' = IF Running = {} THEN <<>> ELSE <<Admit>>
    /\ UNCHANGED <<tries, launches, agents, verifies, checkpoints, queueVars, pathVars, histVars>>

\* The process is gone.  The next one loads the store, where a thread that
\* still reads working was cut off (recoverInterruptedRuns), and admits what
\* waits for a slot.  Sends in flight never answered their sender, and what
\* was folded into a launch is gone with it.
Reboot ==
    /\ Idle
    /\ restarts < MaxRestarts
    /\ restarts' = restarts + 1
    /\ phase' = "up"
    /\ status' = [t \in Threads |-> IF status[t] = "working" THEN "failed" ELSE status[t]]
    /\ active' = [t \in Threads |-> NoRun]
    /\ launches' = {} /\ agents' = {} /\ verifies' = {} /\ checkpoints' = {}
    /\ pathReady' = PathCaptured
    /\ pathWait' = <<>>
    /\ micro' = <<Admit>>
    /\ bounced' = bounced \cup
         UNION {Elems(pathWait[i].msgs) : i \in {j \in DOMAIN pathWait : pathWait[j].from = "send"}}
    /\ dropped' = dropped \cup ((UNION {Elems(l.msgs) : l \in launches}) \ recorded)
    /\ UNCHANGED <<tries, queueVars, nmsg, recorded>>

-----------------------------------------------------------------------------
Init ==
    /\ status = [t \in Threads |-> "idle"]
    /\ active = [t \in Threads |-> NoRun]
    /\ runQueue = <<>>
    /\ typeAhead = [t \in Threads |-> <<>>]
    /\ tries = [t \in Threads |-> 0]
    /\ launches = {} /\ agents = {} /\ verifies = {} /\ checkpoints = {}
    /\ micro = <<Admit>>
    /\ pathReady = PathCaptured
    /\ pathWait = <<>>
    /\ phase = "up"
    /\ nmsg = 0
    /\ recorded = {} /\ dropped = {} /\ bounced = {}
    /\ restarts = 0

LaunchSettles == \E l \in launches : LaunchCancelled(l) \/ LaunchSpawns(l) \/ LaunchThrows(l)
AgentEnds == \E a \in agents : AgentLate(a) \/ AgentDone(a) \/ AgentFails(a)
TurnCommits == \E c \in checkpoints : CheckpointSettles(c)
VerifyEnds ==
    \E v \in verifies :
        VerifyStale(v) \/ VerifyPasses(v) \/ VerifyHandsBack(v) \/ VerifyFails(v)
UserActs ==
    \E t \in Threads :
        \/ UserSends(t) \/ UserTypesAhead(t) \/ UserSendsQueued(t)
        \/ StopWaiting(t) \/ StopRunning(t)

Next ==
    \/ RunStart \/ AdmitQueuedRuns
    \/ LaunchSettles \/ AgentEnds \/ TurnCommits \/ VerifyEnds
    \/ UserActs
    \/ PathSettles \/ Quit \/ Reboot

Spec == Init /\ [][Next]_vars

\* Microtasks run as long as there are any.  Awaited calls settle and agents
\* end (one that never does is one the user stops), and the event loop gets
\* to every settled event however often user calls come first: strong
\* fairness, because a macrotask is disabled while microtasks run.
Fairness ==
    /\ WF_vars(RunStart) /\ WF_vars(AdmitQueuedRuns)
    /\ SF_vars(PathSettles) /\ SF_vars(LaunchSettles) /\ SF_vars(AgentEnds)
    /\ SF_vars(TurnCommits) /\ SF_vars(VerifyEnds)

FairSpec == Spec /\ Fairness

-----------------------------------------------------------------------------
(* Safety.                                                                 *)

\* The cap of runSlotsFree: never more entries in `active' than
\* maxConcurrentRuns, memory passes apart, whatever drains, is admitted,
\* handed back by a verification or restarted in between.
CapRespected == Cardinality(Running \ SystemThreads) <= Cap

\* No lost wake-up: once the microtasks have run, a turn waits for a slot
\* only while every slot is taken.  Every path that frees a slot must reach
\* admitQueuedRuns.
NoIdleSlot == Idle /\ runQueue # <<>> => ~RunSlotsFree

\* No leaked slot (#1430 R5): what the entry of a thread waits for is under
\* way under the entry's own run id, so a Stop, a late event or a cancelled
\* launch never leaves an entry that nothing will clear.
SlotIsOwned ==
    \A t \in Running :
        LET Mine(p) == p.t = t /\ p.rid = active[t].rid
        IN  CASE active[t].kind = "preparing" -> \E l \in launches : Mine(l)
              [] active[t].kind = "live"      -> \E a \in agents : Mine(a)
              [] active[t].kind = "verify"    -> \E v \in verifies : Mine(v)

\* A run ends by its own event: the entry of a thread changes only when what
\* that entry waits for settles, or when the user stops it, the app quits or
\* dies.  The late result of an earlier run, launch or verification on the
\* same thread is dropped.
EntryEndsItself ==
    [][\A t \in Running :
         LET Mine(p) == p.t = t /\ p.rid = active[t].rid
         IN  \/ active'[t] = active[t]
             \/ StopRunning(t) \/ Quit \/ Reboot
             \/ \E l \in launches \ launches' : Mine(l)
             \/ \E p \in (agents \ agents') \cup (verifies \ verifies') : Mine(p)]_vars

\* A thread that owns a slot reads working, and does not also wait for one.
RunningIsWorking ==
    \A t \in Running : status[t] = "working" /\ t \notin Waiting

\* The queues that hold what no run has taken yet.
Held ==
    {<<"typed", t, typeAhead[t]>> : t \in Threads}
        \cup {<<"waiting", i, runQueue[i].msgs>> : i \in DOMAIN runQueue}
        \cup {<<"starting", i, micro[i].msgs>> :
                i \in {j \in DOMAIN micro : micro[j].op = "start"}}
        \cup {<<"path", i, pathWait[i].msgs>> : i \in DOMAIN pathWait}

\* No message is lost between the composer and the agent, and none is queued
\* twice: what the user wrote is in a transcript or reached an agent, was
\* refused to the user's face, is on its way with a launch, or sits once in
\* one queue.  The exception is a follow-up folded into a turn that was
\* accepted and then reached no agent (FoldsAreRead).
MessagesKept ==
    \A m \in 1..nmsg :
        LET At == {<<h, k>> : h \in Held, k \in 1..nmsg} IN
        /\ \/ m \in recorded \cup bounced \cup dropped
           \/ \E h \in Held : m \in Elems(h[3])
           \/ \E l \in launches : m \in Elems(l.msgs)
        /\ Cardinality({x \in At : x[2] \in DOMAIN x[1][3] /\ x[1][3][x[2]] = m}) <= 1

\* Strict FIFO: only admitQueuedRuns takes threads off the run queue to start
\* them, always its head, and no other start but a memory pass takes a slot
\* while threads wait, not even the follow-up that a finishing turn starts
\* inline before admitQueuedRuns has run.
NoOvertaking ==
    [][/\ \A t \in (Running' \ Running) \ SystemThreads :
             Head(micro).from = "slot" \/ runQueue = <<>>
       /\ AdmitQueuedRuns => runQueue' = runQueue \/ runQueue' = Tail(runQueue)]_vars

\* The user's command goes back to the agent at most MAX_FIX_ATTEMPTS times
\* between two turns of the user, although a fix prompt may wait for a slot,
\* be joined by other messages there, or start after a restart.
FixesBounded == \A t \in Threads : tries[t] <= MaxFix

\* A failed start never reorders the follow-ups (#1501): they wait in the
\* order they were written, whatever was taken, refused and put back.
FollowUpsInOrder ==
    \A t \in Threads : \A i, j \in DOMAIN typeAhead[t] :
        i < j => typeAhead[t][i] < typeAhead[t][j]

-----------------------------------------------------------------------------
(* Liveness, under FairSpec.                                               *)

\* A turn that waits for a slot gets one, or is stopped or refused: neither
\* stale events nor the starts of other threads keep it waiting for ever.
QueuedRunStarts == \A t \in Threads : t \in Waiting ~> t \notin Waiting

\* Every slot comes back: whatever happens to a run (stopped while it
\* launches, handed to verification, cut off by a quit) its entry goes.
SlotComesBack == \A t \in Threads : t \in Running ~> t \notin Running

-----------------------------------------------------------------------------
(* What the code's comments and tests say, and the code does not do.       *)

\* runner.js on the run queue: "Persisted, so a restart keeps it."  No
\* waiting turn leaves the queue between a quit and the next boot.
RestartKeepsQueue == [][phase = "quitting" => Waiting \subseteq Waiting']_vars

\* run-queue.test.js, "Stop on a queued thread leaves the queue": the thread
\* is idle then.  A thread reads working only while it runs or waits.
WorkingIsOwned ==
    \A t \in Threads : Idle /\ status[t] = "working" => t \in Running \cup Waiting

\* runner.js on the fold: it happens "so a queue-only message sitting on an
\* idle thread is actually read".  No follow-up folded into an accepted turn
\* is gone before an agent got it or the transcript has it.
FoldsAreRead == dropped = {}
=============================================================================
