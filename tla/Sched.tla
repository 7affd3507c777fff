------------------------------- MODULE Sched -------------------------------
(***************************************************************************)
(* The daemon of kranq: the scheduler's admission loop, the store of task  *)
(* records, the supervisor that runs every job as a process of its own,    *)
(* the usage gate, cancellation, retention, and the restart of the daemon. *)
(*                                                                         *)
(* The processes that interleave are the admission loop (one goroutine),   *)
(* one worker goroutine per launched or re-adopted attempt, the callers of *)
(* the API, the job processes, and the crash that ends every goroutine at  *)
(* once while the jobs and the disk survive.                               *)
(***************************************************************************)
EXTENDS Integers, FiniteSets, FiniteSetsExt

CONSTANTS
    Tasks,         \* task identities; t < u means t has the earlier CreatedAt
    NeedsClaude,   \* tasks whose spec has a claude step
    BringsToken,   \* tasks submitted with a claude token of their own
    CPUs, Memory,  \* what each task asks for
    HostCPUs,      \* cores of the machine
    Probes,        \* free memory a probe may report, 0 where the probe fails
    Headroom,      \* memory to keep free
    MaxVMs,        \* configured number of job VMs
    MaxAttempts,   \* bound: attempts of one task
    MaxCrashes,    \* bound: crashes and restarts of the daemon
    FaultyDisk     \* whether a write of a task record may fail

ASSUME TasksAssumption    == Tasks \subseteq Nat /\ IsFiniteSet(Tasks)
ASSUME BoundsAssumption   == MaxAttempts \in Nat /\ MaxCrashes \in Nat /\ MaxVMs \in Nat
ASSUME ResourceAssumption == /\ CPUs \in [Tasks -> Nat]
                             /\ Memory \in [Tasks -> Nat]
                             /\ HostCPUs \in Nat /\ Headroom \in Nat
                             /\ Probes \subseteq Nat
ASSUME DiskAssumption     == FaultyDisk \in BOOLEAN

VARIABLES
    store,       \* task records: the index in memory and task.json are one
    result,      \* the result file in the task directory, and who wrote it
    job,         \* the process of each attempt
    daemon,      \* "down", "recovering", "probing" (a task's process) or "up"
    recover,     \* tasks Recover has still to look at
    running,     \* the running map: the attempt whose cancel is registered, 0: no entry
    worker,      \* the goroutine and context of each attempt
    tick,        \* the admission loop
    cancelling,  \* cancel calls between the lookup and the update
    gate,        \* whether the claude gate is open
    wake,        \* the wake channel holds a token
    crashes

vars == <<store, result, job, daemon, recover, running, worker, tick,
          cancelling, gate, wake, crashes>>

Attempts == 1..MaxAttempts
Outcomes == {"ok", "fail", "limit", "err"}    \* exit 0, other, 75, runner error
Final    == {"succeeded", "failed", "lost"}
Terminal == Final \cup {"cancelled"}
Pending  == {"queued", "blocked"}
Statuses == Terminal \cup Pending \cup {"none", "running", "pruned"}
Blockers == {"nothing", "claude", "memory", "slots"}

\* A task spends the machine's claude usage when it brought no token.
OwnUsage(t) == t \in NeedsClaude /\ t \notin BringsToken

Exists(t) == store[t].status \notin {"none", "pruned"}

NewRecord == [status |-> "none", on |-> "nothing", attempts |-> 0, pgid |-> 0]
NoResult  == [out |-> "none", by |-> 0]
NoWorker  == [pc |-> "none", over |-> FALSE, out |-> "none", pg |-> 0]
IdleTick  == [todo |-> {}, seen |-> [t \in Tasks |-> "nothing"], launching |-> FALSE,
              inUse |-> {}, taken |-> {}, free |-> 0]

Init ==
    /\ store = [t \in Tasks |-> NewRecord]
    /\ result = [t \in Tasks |-> NoResult]
    /\ job = [t \in Tasks |-> [a \in Attempts |-> "none"]]
    /\ daemon = "down"
    /\ recover = {}
    /\ running = [t \in Tasks |-> 0]
    /\ worker = [t \in Tasks |-> [a \in Attempts |-> NoWorker]]
    /\ tick = IdleTick
    /\ cancelling = {}
    /\ gate = TRUE
    /\ wake = FALSE
    /\ crashes = 0

-----------------------------------------------------------------------------
(* The store.                                                              *)

\* One Update under the store's lock.  A failed write leaves the index and
\* the file as they were, and most callers drop the error.
Update(t, record) ==
    \/ store' = IF Exists(t) THEN [store EXCEPT ![t] = record] ELSE store
    \/ FaultyDisk /\ store' = store

\* Mutant: without the guard.
UpdateAnyway(t, status) == Update(t, [store[t] EXCEPT !.status = status])

\* The guarded updates leave a terminal record alone.
UpdateUnlessTerminal(t, status) ==
    IF store[t].status \in Terminal THEN store' = store
    ELSE Update(t, [store[t] EXCEPT !.status = status])

Submit(t) ==
    /\ daemon = "up"
    /\ store[t].status = "none"
    /\ store' = [store EXCEPT ![t].status = "queued"]
    /\ wake' = TRUE
    /\ UNCHANGED <<result, job, daemon, recover, running, worker, tick,
                   cancelling, gate, crashes>>

\* Retention counts from the submission, so any terminal record may be due.
Prune(t) ==
    /\ daemon = "up"
    /\ store[t].status \in Terminal
    /\ store' = [store EXCEPT ![t].status = "pruned"]
    /\ result' = [result EXCEPT ![t] = NoResult]
    /\ UNCHANGED <<job, daemon, recover, running, worker, tick, cancelling,
                   gate, wake, crashes>>

-----------------------------------------------------------------------------
(* Cancellation: two steps, the lookup of the run and the update.          *)

CancelLookup(t) ==
    /\ daemon = "up"
    /\ Exists(t) /\ t \notin cancelling
    /\ store[t].status \notin Terminal \/ running[t] # 0
    /\ cancelling' = cancelling \cup {t}
    /\ worker' = IF running[t] = 0 THEN worker
                 ELSE [worker EXCEPT ![t][running[t]].over = TRUE]
    /\ UNCHANGED <<store, result, job, daemon, recover, running, tick, gate,
                   wake, crashes>>

CancelUpdate(t) ==
    /\ t \in cancelling
    /\ UpdateUnlessTerminal(t, "cancelled")
    /\ cancelling' = cancelling \ {t}
    /\ UNCHANGED <<result, job, daemon, recover, running, worker, tick, gate,
                   wake, crashes>>

-----------------------------------------------------------------------------
(* The admission loop.  A tick walks the pending tasks of one List oldest  *)
(* first; the records may change under it.                                 *)

CPUsOf(S)   == MapThenSumSet(LAMBDA t : CPUs[t], S)
MemoryOf(S) == MapThenSumSet(LAMBDA t : Memory[t], S)

Oldest(S)  == CHOOSE t \in S : \A u \in S : t <= u
InRunning  == {t \in Tasks : running[t] # 0}
\* Mutant: one slot too many.
SlotsOverfull == Cardinality(InRunning) > MaxVMs

SlotsFull  == Cardinality(InRunning) >= MaxVMs
FitsMemory(t) ==
    Memory[t] = 0 \/ tick.free - MemoryOf(tick.taken) - Memory[t] >= Headroom
FitsCPU(t) ==
    CPUs[t] = 0 \/ (tick.free > 0 /\ CPUsOf(tick.inUse) + CPUs[t] <= HostCPUs)

\* Mutant: the running tasks are taken for pending ones.
SnapshotOfLive == {t \in Tasks : Exists(t) /\ store[t].status \notin Terminal
                                            /\ store[t].attempts < MaxAttempts}

\* Mutant: a task that was held back once is not looked at again.
SnapshotOfQueued == {t \in Tasks : store[t].status = "queued"
                                      /\ store[t].attempts < MaxAttempts}

\* A task out of modelled attempts is left out of the snapshot.
Snapshot == {t \in Tasks : store[t].status \in Pending /\ store[t].attempts < MaxAttempts}

TickStart(free) ==
    /\ daemon = "up"
    /\ tick.todo = {}
    /\ tick' = IF Snapshot = {} THEN IdleTick
               ELSE [todo |-> Snapshot,
                     seen |-> [t \in Tasks |-> IF t \in Snapshot THEN store[t].on
                                                                 ELSE "nothing"],
                     launching |-> FALSE,
                     inUse |-> {t \in InRunning : Exists(t)},
                     taken |-> {},
                     free |-> free]
    /\ UNCHANGED <<store, result, job, daemon, recover, running, worker,
                   cancelling, gate, crashes>>

TickOnTimer(free) == TickStart(free) /\ UNCHANGED wake
TickOnWake(free)  == wake /\ TickStart(free) /\ wake' = FALSE

\* Mutant: the sums of the tick forget what it launched.
AdvanceForgetting(t, launched) ==
    tick' = IF tick.todo = {t} THEN IdleTick
            ELSE [tick EXCEPT !.todo = @ \ {t}, !.seen[t] = "nothing", !.launching = FALSE]

\* The loop goes on to the next task; t joined the tick's sums if launched.
Advance(t, launched) ==
    tick' = IF tick.todo = {t} THEN IdleTick
            ELSE [tick EXCEPT !.todo = @ \ {t},
                              !.seen[t] = "nothing",
                              !.launching = FALSE,
                              !.inUse = @ \cup launched,
                              !.taken = @ \cup launched]

\* The record is rewritten from the snapshot's view, whatever it is by now.
Block(t, on) ==
    IF tick.seen[t] = on THEN store' = store
    ELSE Update(t, [store[t] EXCEPT !.status = "blocked", !.on = on])

Considering(t) == t \in tick.todo /\ t = Oldest(tick.todo) /\ ~tick.launching
Launching(t)   == t \in tick.todo /\ t = Oldest(tick.todo) /\ tick.launching

TickFull(t) ==
    /\ Considering(t) /\ SlotsFull
    /\ tick' = IdleTick
    /\ UNCHANGED <<store, result, job, daemon, recover, running, worker,
                   cancelling, gate, wake, crashes>>

TickGated(t) ==
    /\ Considering(t) /\ ~SlotsFull
    /\ OwnUsage(t) /\ ~gate
    /\ Block(t, "claude")
    /\ Advance(t, {})
    /\ UNCHANGED <<result, job, daemon, recover, running, worker, cancelling,
                   gate, wake, crashes>>

Admissible(t) == Considering(t) /\ ~SlotsFull /\ (OwnUsage(t) => gate)

\* Mutant: the tick goes on past a task that does not fit.
TickSkipsMemory(t) ==
    /\ Admissible(t) /\ ~FitsMemory(t)
    /\ Block(t, "memory")
    /\ Advance(t, {})
    /\ UNCHANGED <<result, job, daemon, recover, running, worker, cancelling,
                   gate, wake, crashes>>

TickNoMemory(t) ==
    /\ Admissible(t) /\ ~FitsMemory(t)
    /\ Block(t, "memory")
    /\ tick' = IdleTick
    /\ UNCHANGED <<result, job, daemon, recover, running, worker, cancelling,
                   gate, wake, crashes>>

TickNoCPU(t) ==
    /\ Admissible(t) /\ FitsMemory(t) /\ ~FitsCPU(t)
    /\ Block(t, "slots")
    /\ tick' = IdleTick
    /\ UNCHANGED <<result, job, daemon, recover, running, worker, cancelling,
                   gate, wake, crashes>>

\* launch, first half: the cancel function enters the running map.
LaunchRegister(t) ==
    LET a == store[t].attempts + 1 IN
    /\ Admissible(t) /\ FitsMemory(t) /\ FitsCPU(t)
    /\ running' = [running EXCEPT ![t] = a]
    /\ worker' = [worker EXCEPT ![t][a] = [NoWorker EXCEPT !.pc = "registered"]]
    /\ tick' = [tick EXCEPT !.launching = TRUE]
    /\ UNCHANGED <<store, result, job, daemon, recover, cancelling, gate, wake,
                   crashes>>

\* launch, second half: the record says running and the goroutine starts.
LaunchUpdate(t) ==
    LET a == store[t].attempts + 1 IN
    /\ Launching(t)
    /\ Exists(t)
    /\ store' = [store EXCEPT ![t] = [@ EXCEPT !.status = "running",
                                               !.on = "nothing",
                                               !.attempts = a]]
    /\ worker' = [worker EXCEPT ![t][a].pc = "launched"]
    /\ Advance(t, {t})
    /\ UNCHANGED <<result, job, daemon, recover, running, cancelling, gate,
                   wake, crashes>>

\* Mutant: the goroutine starts although the record could not be written.
LaunchRegardless(t) ==
    /\ Launching(t)
    /\ ~Exists(t) \/ FaultyDisk
    /\ worker' = [worker EXCEPT ![t][store[t].attempts + 1].pc = "launched"]
    /\ Advance(t, {t})
    /\ UNCHANGED <<store, result, job, daemon, recover, running, cancelling, gate,
                   wake, crashes>>

LaunchAbandoned(t) ==
    /\ Launching(t)
    /\ ~Exists(t) \/ FaultyDisk
    /\ running' = [running EXCEPT ![t] = 0]
    /\ worker' = [worker EXCEPT ![t][store[t].attempts + 1] = NoWorker]
    /\ Advance(t, {t})
    /\ UNCHANGED <<store, result, job, daemon, recover, cancelling, gate, wake,
                   crashes>>

Tick ==
    \/ \E free \in Probes : TickOnTimer(free) \/ TickOnWake(free)
    \/ \E t \in Tasks : \/ TickFull(t) \/ TickGated(t)
                        \/ TickNoMemory(t) \/ TickNoCPU(t)
                        \/ LaunchRegister(t) \/ LaunchUpdate(t) \/ LaunchAbandoned(t)

-----------------------------------------------------------------------------
(* A worker goroutine: Execute or Adopt under settle, then Wake and finish. *)

Alive(t, pg) == pg \in Attempts /\ job[t][pg] = "live"

\* From the start of the goroutine until the task is settled.
Watching == {"launched", "cleared", "started", "readopted", "awaiting", "parked",
             "teardown", "settling"}

At(t, a, pc) == worker[t][a].pc = pc
Goto(t, a, pc) == worker' = [worker EXCEPT ![t][a].pc = pc]
Ended(t, a, out) ==
    worker' = [worker EXCEPT ![t][a].pc = "settling", ![t][a].out = out]

\* An invalid spec or a log that cannot be opened fails the task at once.
ExecuteFails(t, a) ==
    /\ At(t, a, "launched")
    /\ UpdateUnlessTerminal(t, "failed")
    /\ Goto(t, a, "waking")
    /\ UNCHANGED <<result, job, daemon, recover, running, tick, cancelling,
                   gate, wake, crashes>>

\* Mutant: the result of an earlier attempt stays.
KeepResult(t, a) ==
    /\ At(t, a, "launched")
    /\ Goto(t, a, "cleared")
    /\ UNCHANGED <<store, result, job, daemon, recover, running, tick, cancelling,
                   gate, wake, crashes>>

ClearResult(t, a) ==
    /\ At(t, a, "launched")
    /\ result' = [result EXCEPT ![t] = NoResult]
    /\ Goto(t, a, "cleared")
    /\ UNCHANGED <<store, job, daemon, recover, running, tick, cancelling,
                   gate, wake, crashes>>

StartFails(t, a) ==
    /\ At(t, a, "launched") \/ At(t, a, "cleared")
    /\ Ended(t, a, "err")
    /\ UNCHANGED <<store, result, job, daemon, recover, running, tick,
                   cancelling, gate, wake, crashes>>

StartJob(t, a) ==
    /\ At(t, a, "cleared") /\ Exists(t)
    /\ job' = [job EXCEPT ![t][a] = "live"]
    /\ Goto(t, a, "started")
    /\ UNCHANGED <<store, result, daemon, recover, running, tick, cancelling,
                   gate, wake, crashes>>

RecordPGID(t, a) ==
    /\ At(t, a, "started")
    /\ Update(t, [store[t] EXCEPT !.pgid = a])
    /\ worker' = [worker EXCEPT ![t][a].pc = "awaiting", ![t][a].pg = a]
    /\ UNCHANGED <<result, job, daemon, recover, running, tick, cancelling,
                   gate, wake, crashes>>

\* Mutant: a job that is gone is taken for one that went well.
AwaitBlindly(t, a) ==
    /\ At(t, a, "awaiting")
    /\ IF result[t].out # "none" THEN Ended(t, a, result[t].out)
       ELSE IF Alive(t, worker[t][a].pg) THEN Goto(t, a, "parked")
       ELSE Ended(t, a, "ok")
    /\ UNCHANGED <<store, result, job, daemon, recover, running, tick,
                   cancelling, gate, wake, crashes>>

\* One look at the result file and at the process, then the worker parks.
Await(t, a) ==
    /\ At(t, a, "awaiting")
    /\ IF result[t].out # "none" THEN Ended(t, a, result[t].out)
       ELSE IF Alive(t, worker[t][a].pg) THEN Goto(t, a, "parked")
       ELSE Ended(t, a, "err")
    /\ UNCHANGED <<store, result, job, daemon, recover, running, tick,
                   cancelling, gate, wake, crashes>>

PollTicks(t, a) ==
    /\ At(t, a, "parked")
    /\ Goto(t, a, "awaiting")
    /\ UNCHANGED <<store, result, job, daemon, recover, running, tick,
                   cancelling, gate, wake, crashes>>

\* The context is over, by cancel or by deadline: SIGTERM to the group.
\* A group that is already gone ends the teardown.
TeardownStart(t, a) ==
    /\ At(t, a, "parked") /\ worker[t][a].over
    /\ IF Alive(t, worker[t][a].pg) THEN Goto(t, a, "teardown")
       ELSE Ended(t, a, "err")
    /\ UNCHANGED <<store, result, job, daemon, recover, running, tick,
                   cancelling, gate, wake, crashes>>

\* The job went within the grace, or it is killed at the end of it.
TeardownEnd(t, a) ==
    /\ At(t, a, "teardown")
    /\ job' = IF Alive(t, worker[t][a].pg)
              THEN [job EXCEPT ![t][worker[t][a].pg] = "done"] ELSE job
    /\ Ended(t, a, "err")
    /\ UNCHANGED <<store, result, daemon, recover, running, tick, cancelling,
                   gate, wake, crashes>>

\* The task's own deadline.
Timeout(t, a) ==
    /\ worker[t][a].pc \in Watching /\ ~worker[t][a].over
    /\ worker' = [worker EXCEPT ![t][a].over = TRUE]
    /\ UNCHANGED <<store, result, job, daemon, recover, running, tick,
                   cancelling, gate, wake, crashes>>

SettleError(t, a) ==
    /\ At(t, a, "settling") /\ worker[t][a].out = "err"
    /\ UpdateUnlessTerminal(t, IF worker[t][a].over THEN "lost" ELSE "failed")
    /\ Goto(t, a, "waking")
    /\ UNCHANGED <<result, job, daemon, recover, running, tick, cancelling,
                   gate, wake, crashes>>

\* Exit 75 on the machine's usage closes the gate and puts the task back,
\* with no look at what the record says by now.
SettleExhausted(t, a) ==
    /\ At(t, a, "settling") /\ worker[t][a].out = "limit" /\ OwnUsage(t)
    /\ gate' = FALSE
    /\ Update(t, [store[t] EXCEPT !.status = "blocked", !.on = "claude", !.pgid = 0])
    /\ Goto(t, a, "waking")
    /\ UNCHANGED <<result, job, daemon, recover, running, tick, cancelling,
                   wake, crashes>>

SettleExit(t, a) ==
    LET out == worker[t][a].out
        final == [store[t] EXCEPT !.status = IF out = "ok" THEN "succeeded" ELSE "failed",
                                  !.pgid = 0]
    IN
    /\ At(t, a, "settling")
    /\ out \in {"ok", "fail"} \/ (out = "limit" /\ ~OwnUsage(t))
    /\ gate' = (gate \/ (out = "ok" /\ OwnUsage(t)))
    /\ Update(t, IF store[t].status \in Terminal THEN store[t] ELSE final)
    /\ Goto(t, a, "waking")
    /\ UNCHANGED <<result, job, daemon, recover, running, tick, cancelling,
                   wake, crashes>>

\* The wake-up comes before the slot is given back.
WakeUp(t, a) ==
    /\ At(t, a, "waking")
    /\ wake' = TRUE
    /\ Goto(t, a, "finishing")
    /\ UNCHANGED <<store, result, job, daemon, recover, running, tick,
                   cancelling, gate, crashes>>

\* Mutant: the slot is not given back.
FinishLeaks(t, a) ==
    /\ At(t, a, "finishing")
    /\ worker' = [worker EXCEPT ![t][a] = NoWorker]
    /\ UNCHANGED <<store, result, job, daemon, recover, running, tick, cancelling,
                   gate, wake, crashes>>

\* finish removes the task's entry, whichever attempt it belongs to.
Finish(t, a) ==
    /\ At(t, a, "finishing")
    /\ running' = [running EXCEPT ![t] = 0]
    /\ worker' = [worker EXCEPT ![t][a] = NoWorker]
    /\ UNCHANGED <<store, result, job, daemon, recover, tick, cancelling, gate,
                   wake, crashes>>

\* Mutant: the task is left behind as running.
ReadoptGivesUp(t, a) ==
    /\ At(t, a, "readopted")
    /\ Goto(t, a, "waking")
    /\ UNCHANGED <<store, result, job, daemon, recover, running, tick, cancelling,
                   gate, wake, crashes>>

\* A re-adopted run whose log cannot be opened gives its job up as lost.
ReadoptFails(t, a) ==
    /\ At(t, a, "readopted")
    /\ UpdateUnlessTerminal(t, "lost")
    /\ Goto(t, a, "waking")
    /\ UNCHANGED <<result, job, daemon, recover, running, tick, cancelling,
                   gate, wake, crashes>>

ReadoptRun(t, a) ==
    /\ At(t, a, "readopted")
    /\ Goto(t, a, "awaiting")
    /\ UNCHANGED <<store, result, job, daemon, recover, running, tick,
                   cancelling, gate, wake, crashes>>

\* The steps of a worker that need nothing but its own turn.
Runs(t, a) ==
    \/ ExecuteFails(t, a) \/ ClearResult(t, a) \/ StartFails(t, a)
    \/ StartJob(t, a) \/ RecordPGID(t, a)
    \/ ReadoptFails(t, a) \/ ReadoptRun(t, a) \/ Await(t, a) \/ PollTicks(t, a)
    \/ TeardownStart(t, a) \/ TeardownEnd(t, a)
    \/ SettleError(t, a) \/ SettleExhausted(t, a) \/ SettleExit(t, a)
    \/ WakeUp(t, a) \/ Finish(t, a)

Work == \E t \in Tasks, a \in Attempts : Runs(t, a) \/ Timeout(t, a)

-----------------------------------------------------------------------------
(* The job processes, which outlive the daemon.                            *)

\* The job records its outcome and ends; a pruned directory takes no record.
JobReports(t, a, out) ==
    /\ job[t][a] = "live"
    /\ job' = [job EXCEPT ![t][a] = "done"]
    /\ result' = IF Exists(t) THEN [result EXCEPT ![t] = [out |-> out, by |-> a]]
                 ELSE result
    /\ UNCHANGED <<store, daemon, recover, running, worker, tick, cancelling,
                   gate, wake, crashes>>

\* The job ends without a record: an early error, or a kill from outside.
JobDies(t, a) ==
    /\ job[t][a] = "live"
    /\ job' = [job EXCEPT ![t][a] = "done"]
    /\ UNCHANGED <<store, result, daemon, recover, running, worker, tick,
                   cancelling, gate, wake, crashes>>

Jobs == \E t \in Tasks, a \in Attempts :
            JobDies(t, a) \/ \E out \in Outcomes : JobReports(t, a, out)

\* The time the gate waits for has come.
GateReopens ==
    /\ ~gate
    /\ gate' = TRUE
    /\ UNCHANGED <<store, result, job, daemon, recover, running, worker, tick,
                   cancelling, wake, crashes>>

-----------------------------------------------------------------------------
(* The daemon's life.  A shutdown waits for nothing, so it is a crash.     *)

Crash ==
    /\ daemon # "down" /\ crashes < MaxCrashes
    /\ daemon' = "down"
    /\ crashes' = crashes + 1
    /\ recover' = {}
    /\ running' = [t \in Tasks |-> 0]
    /\ worker' = [t \in Tasks |-> [a \in Attempts |-> NoWorker]]
    /\ tick' = IdleTick
    /\ cancelling' = {}
    /\ wake' = FALSE
    /\ UNCHANGED <<store, result, job, gate>>

Start ==
    /\ daemon = "down"
    /\ daemon' = "recovering"
    /\ recover' = {t \in Tasks : store[t].status = "running"}
    /\ UNCHANGED <<store, result, job, running, worker, tick, cancelling, gate,
                   wake, crashes>>

\* Recover takes the running tasks oldest first.  Adoptable reads the result
\* file and, only if there was none, looks for the process.
NextToRecover(t) == t \in recover /\ t = Oldest(recover)

RecoverLook(t) ==
    /\ daemon = "recovering" /\ NextToRecover(t)
    /\ result[t].out = "none"
    /\ daemon' = "probing"
    /\ UNCHANGED <<store, result, job, recover, running, worker, tick, cancelling,
                   gate, wake, crashes>>

\* Mutant: a restart begins the running attempts anew.
ReadoptAnew(t) ==
    LET a == store[t].attempts IN
    /\ NextToRecover(t)
    /\ \/ daemon = "recovering" /\ result[t].out # "none"
       \/ daemon = "probing" /\ Alive(t, store[t].pgid)
    /\ daemon' = "recovering"
    /\ recover' = recover \ {t}
    /\ running' = [running EXCEPT ![t] = a]
    /\ worker' = [worker EXCEPT ![t][a] = [NoWorker EXCEPT !.pc = "launched"]]
    /\ UNCHANGED <<store, result, job, tick, cancelling, gate, wake, crashes>>

\* Mutant: the re-adopted run does not enter the running map.
ReadoptUnregistered(t) ==
    /\ NextToRecover(t)
    /\ \/ daemon = "recovering" /\ result[t].out # "none"
       \/ daemon = "probing" /\ Alive(t, store[t].pgid)
    /\ daemon' = "recovering"
    /\ recover' = recover \ {t}
    /\ worker' = [worker EXCEPT ![t][store[t].attempts] =
                     [NoWorker EXCEPT !.pc = "readopted", !.pg = store[t].pgid]]
    /\ UNCHANGED <<store, result, job, running, tick, cancelling, gate, wake, crashes>>

Readopt(t) ==
    LET a == store[t].attempts IN
    /\ NextToRecover(t)
    /\ \/ daemon = "recovering" /\ result[t].out # "none"
       \/ daemon = "probing" /\ Alive(t, store[t].pgid)
    /\ daemon' = "recovering"
    /\ recover' = recover \ {t}
    /\ running' = [running EXCEPT ![t] = a]
    /\ worker' = [worker EXCEPT ![t][a] =
                     [NoWorker EXCEPT !.pc = "readopted", !.pg = store[t].pgid]]
    /\ UNCHANGED <<store, result, job, tick, cancelling, gate, wake, crashes>>

\* Mutant: a task whose job is not found is queued again.
RecoverRequeues(t) ==
    /\ NextToRecover(t)
    /\ daemon = "probing" /\ ~Alive(t, store[t].pgid)
    /\ daemon' = "recovering"
    /\ recover' = recover \ {t}
    /\ UpdateUnlessTerminal(t, "queued")
    /\ UNCHANGED <<result, job, running, worker, tick, cancelling, gate, wake,
                   crashes>>

RecoverLost(t) ==
    /\ NextToRecover(t)
    /\ daemon = "probing" /\ ~Alive(t, store[t].pgid)
    /\ daemon' = "recovering"
    /\ recover' = recover \ {t}
    /\ UpdateUnlessTerminal(t, "lost")
    /\ UNCHANGED <<result, job, running, worker, tick, cancelling, gate, wake,
                   crashes>>

Serve ==
    /\ daemon = "recovering" /\ recover = {}
    /\ daemon' = "up"
    /\ UNCHANGED <<store, result, job, recover, running, worker, tick,
                   cancelling, gate, wake, crashes>>

Recover == Start \/ Serve \/ \E t \in Tasks : RecoverLook(t) \/ Readopt(t) \/ RecoverLost(t)

Next ==
    \/ \E t \in Tasks : Submit(t) \/ Prune(t) \/ CancelLookup(t) \/ CancelUpdate(t)
    \/ Tick \/ Work \/ Jobs \/ GateReopens \/ Crash \/ Recover

Spec == Init /\ [][Next]_vars

(***************************************************************************)
(* Fairness: the goroutines that can go on do, the poll timer keeps        *)
(* ticking and infinitely often finds the most memory, a select with two   *)
(* ready cases takes each of them in the end, deadlines and the gate's     *)
(* time come, and a daemon that is down is started.  Nothing is asked of   *)
(* the jobs, of the callers, of the disk or of crashes.                    *)
(***************************************************************************)
Fairness ==
    /\ WF_vars(Recover)
    /\ WF_vars(GateReopens)
    /\ SF_vars(TickOnTimer(Max(Probes)))
    /\ WF_vars(\E t \in Tasks :
          \/ TickFull(t) \/ TickGated(t) \/ TickNoMemory(t) \/ TickNoCPU(t)
          \/ LaunchRegister(t) \/ LaunchUpdate(t) \/ LaunchAbandoned(t))
    /\ WF_vars(\E t \in Tasks, a \in Attempts : Runs(t, a))
    /\ WF_vars(\E t \in Tasks, a \in Attempts : Timeout(t, a))
    /\ SF_vars(\E t \in Tasks, a \in Attempts : TeardownStart(t, a))

FairSpec == Spec /\ Fairness

-----------------------------------------------------------------------------
(* Properties.                                                             *)

Records == [status : Statuses, on : Blockers, attempts : 0..MaxAttempts,
            pgid : 0..MaxAttempts]
Results == [out : Outcomes \cup {"none"}, by : 0..MaxAttempts]
PCs == {"none", "registered", "launched", "cleared", "started", "readopted",
        "awaiting", "parked", "teardown", "settling", "waking", "finishing"}
Workers == [pc : PCs, over : BOOLEAN, out : Outcomes \cup {"none"}, pg : 0..MaxAttempts]
Ticks == [todo : SUBSET Tasks, seen : [Tasks -> Blockers], launching : BOOLEAN,
          inUse : SUBSET Tasks, taken : SUBSET Tasks, free : Nat]

\* Every variable keeps its type.
TypeOK ==
    /\ store \in [Tasks -> Records]
    /\ result \in [Tasks -> Results]
    /\ job \in [Tasks -> [Attempts -> {"none", "live", "done"}]]
    /\ daemon \in {"down", "recovering", "probing", "up"}
    /\ recover \subseteq Tasks
    /\ running \in [Tasks -> 0..MaxAttempts]
    /\ worker \in [Tasks -> [Attempts -> Workers]]
    /\ tick \in Ticks
    /\ cancelling \subseteq Tasks
    /\ gate \in BOOLEAN /\ wake \in BOOLEAN
    /\ crashes \in 0..MaxCrashes

\* Two attempts of one task are never alive together, whatever crashes,
\* cancels and retries come in between (Scheduler.launch and Recover).
AtMostOneJob ==
    \A t \in Tasks : \A a, b \in Attempts :
        job[t][a] = "live" /\ job[t][b] = "live" => a = b

\* A task is started again only when its last job reported that the claude
\* usage ran out: a restart never re-runs what may have had effects
\* (Scheduler.Recover).
StartsOnce ==
    \A t \in Tasks : store'[t].attempts # store[t].attempts =>
        /\ store[t].attempts = 0 \/ result[t].out = "limit"
        /\ \A a \in Attempts : job[t][a] # "live"
NoRerun == [][StartsOnce]_vars

\* Succeeded, failed and lost are the last word on a task until retention
\* removes its record (Scheduler.settle, fail, markLost, Cancel).
FinalStays ==
    \A t \in Tasks : store[t].status \in Final =>
        store'[t].status \in {store[t].status, "pruned"}
FinalOutcome == [][FinalStays]_vars

\* A task the records call running is looked after by the goroutine of its
\* latest attempt, from launch or re-adoption until it is settled.
RunningIsSupervised ==
    ~FaultyDisk /\ daemon # "down" =>
        \A t \in Tasks \ recover : store[t].status = "running" =>
            /\ store[t].attempts # 0
            /\ worker[t][store[t].attempts].pc \in Watching

\* A task is recorded as succeeded only on the word of the job of its
\* latest attempt, also when the daemon that reads it never started it.
SucceededByItsJob ==
    \A t \in Tasks : store[t].status = "succeeded" =>
        result[t] = [out |-> "ok", by |-> store[t].attempts]

\* The inductive invariant behind these, task by task.
LiveIsLatest(t) == \A a \in Attempts : job[t][a] = "live" => a = store[t].attempts

ReportIsLast(t) ==
    result[t].out # "none" =>
        /\ \A a \in Attempts : job[t][a] # "live"
        /\ result[t].by \in 1..store[t].attempts
        /\ result[t].by # store[t].attempts => result[t].out = "limit"

Fresh(t) == store[t].attempts = 0 \/ result[t].out = "limit"

PendingIsFresh(t) ==
    /\ store[t].status = "none" => store[t].attempts = 0
    /\ store[t].status = "running" => store[t].attempts # 0
    /\ store[t].status \in Pending => Fresh(t)

TodoIsFresh(t) ==
    t \in tick.todo =>
        /\ daemon = "up"
        /\ store[t].status \in Pending \cup {"cancelled", "pruned"}
        /\ store[t].attempts < MaxAttempts
        /\ store[t].status = "pruned" \/ Fresh(t)

WatchedIsLatest(t) ==
    \A a \in Attempts : worker[t][a].pc \in Watching =>
        /\ a = store[t].attempts
        /\ store[t].status \in {"running", "cancelled", "pruned"}
        /\ daemon # "down" /\ t \notin recover /\ t \notin tick.todo

WorkerReadsResult(t) ==
    \A a \in Attempts :
        /\ At(t, a, "launched") \/ At(t, a, "cleared") =>
               \A b \in Attempts : job[t][b] # "live"
        /\ At(t, a, "cleared") => result[t].out = "none"
        /\ At(t, a, "settling") =>
               /\ worker[t][a].out # "none"
               /\ \/ worker[t][a].out \in {"err", result[t].out}
                  \/ store[t].status = "pruned"

RecoverIsRunning(t) ==
    t \in recover => daemon \in {"recovering", "probing"} /\ store[t].status = "running"

Consistent(t) ==
    /\ LiveIsLatest(t) /\ ReportIsLast(t) /\ PendingIsFresh(t) /\ TodoIsFresh(t)
    /\ WatchedIsLatest(t) /\ WorkerReadsResult(t) /\ RecoverIsRunning(t)

\* Every step of the daemon, the jobs and a crash keeps these together: what a
\* task's record, its result file, its processes and its goroutines say of one
\* another (Scheduler.Tick, launch, settle, Recover; Supervisor.Execute, Adopt).
Inv ==
    /\ TypeOK
    /\ daemon # "up" => cancelling = {}
    /\ \A t \in Tasks : Consistent(t)

RunningTasks == {t \in Tasks : store[t].status = "running"}

\* The records never show more running tasks than there are slots, across
\* restarts (Scheduler.Tick, Recover): with one slot, or where no task is run
\* again.  With more, the finish of an attempt that ran out of usage takes the
\* next attempt out of the running map, and with it a slot that is in use.
RunningWithinSlots == Cardinality(RunningTasks) <= MaxVMs

\* Nor more cores promised than the machine has, although a tick adds up the
\* cores in use only once (Scheduler.cpusInUse); the same finish loses them too.
RunningWithinCPUs == CPUsOf(RunningTasks) <= HostCPUs

\* A running task has its own cancel function in the running map, so a cancel
\* finds it (Scheduler.Cancel).
Cancellable ==
    daemon = "up" => \A t \in RunningTasks : running[t] = store[t].attempts

\* A task held back for memory or cores is not overtaken by a later one: the
\* tick stops at it (Scheduler.Tick).
NoOvertaking ==
    [][\A t, u \in Tasks :
           /\ u < t
           /\ store[u].status = "blocked" /\ store[u].on \in {"memory", "slots"}
           /\ store[u].attempts < MaxAttempts
           => ~(store[t].status # "running" /\ store'[t].status = "running")]_vars

OutOfAttempts(t) == store[t].status \in Pending /\ store[t].attempts = MaxAttempts

\* Every task that was submitted comes to an end and stays there, through
\* restarts, blocked resources, the closed gate, cancels and jobs that hang, or
\* has used the attempts the model allows it.
EventuallySettled ==
    <>[](\A t \in Tasks : \/ store[t].status \in Terminal \cup {"none", "pruned"}
                           \/ OutOfAttempts(t))

-----------------------------------------------------------------------------
(* The abstract specification.                                             *)

\* A record as whoever submitted the task sees it.
Phase(t) ==
    IF store[t].status \in Pending THEN "waiting"
    ELSE IF store[t].status = "pruned" THEN "gone" ELSE store[t].status

Life == INSTANCE TaskLife WITH
            phase <- [t \in Tasks |-> Phase(t)],
            begun <- [t \in Tasks |-> store[t].attempts],
            word  <- result

\* The daemon, its workers, the jobs and the restarts keep what TaskLife promises
\* of every task, also when writes of records fail (Scheduler, Supervisor, Recover).
KeepsToLife == Life!Spec
=============================================================================
