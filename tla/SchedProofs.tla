---------------------------- MODULE SchedProofs ----------------------------
(* Theorems about the scheduler, for every set of tasks and every bound.   *)
EXTENDS Sched, FiniteSetTheorems, NaturalsInduction, WellFoundedInduction, TLAPS

-----------------------------------------------------------------------------
(* Types.                                                                  *)

\* The values the variables start from and are reset to.
LEMMA ResetTypes ==
    NoResult \in Results /\ NoWorker \in Workers /\ IdleTick \in Ticks
BY BoundsAssumption
DEF NoResult, Results, NoWorker, Workers, PCs, IdleTick, Ticks, Blockers, BoundsAssumption

\* A record with one field changed within its range.
LEMMA RecordTypes ==
    ASSUME NEW r \in Records
    PROVE  /\ \A s \in Statuses : [r EXCEPT !.status = s] \in Records
           /\ \A b \in Blockers : [r EXCEPT !.on = b] \in Records
           /\ \A n \in 0..MaxAttempts : [r EXCEPT !.attempts = n] \in Records
           /\ \A n \in 0..MaxAttempts : [r EXCEPT !.pgid = n] \in Records
           /\ r.status \in Statuses /\ r.on \in Blockers
           /\ r.attempts \in 0..MaxAttempts /\ r.pgid \in 0..MaxAttempts
BY DEF Records

\* A worker with one field changed within its range.
LEMMA WorkerTypes ==
    ASSUME NEW w \in Workers
    PROVE  /\ \A pc \in PCs : [w EXCEPT !.pc = pc] \in Workers
           /\ \A b \in BOOLEAN : [w EXCEPT !.over = b] \in Workers
           /\ \A out \in Outcomes \cup {"none"} : [w EXCEPT !.out = out] \in Workers
           /\ \A n \in 0..MaxAttempts : [w EXCEPT !.pg = n] \in Workers
BY DEF Workers

\* An update of a record leaves a store of records.
LEMMA UpdateType ==
    ASSUME TypeOK, NEW t \in Tasks, NEW r \in Records, Update(t, r)
    PROVE  store' \in [Tasks -> Records]
BY DEF Update, TypeOK

\* So does a guarded one.
LEMMA GuardedUpdateType ==
    ASSUME TypeOK, NEW t \in Tasks, NEW s \in Statuses, UpdateUnlessTerminal(t, s)
    PROVE  store' \in [Tasks -> Records]
<1>1. store[t] \in Records
    BY DEF TypeOK
<1>2. [store[t] EXCEPT !.status = s] \in Records
    BY <1>1, RecordTypes
<1> QED
    BY <1>2, UpdateType DEF UpdateUnlessTerminal, TypeOK

\* The callers of the API keep the types.
LEMMA CallersType ==
    ASSUME TypeOK, NEW t \in Tasks,
           Submit(t) \/ Prune(t) \/ CancelLookup(t) \/ CancelUpdate(t)
    PROVE  TypeOK'
<1>0. store[t] \in Records /\ "queued" \in Statuses /\ "pruned" \in Statuses
                           /\ "cancelled" \in Statuses
    BY DEF TypeOK, Statuses, Pending, Terminal
<1>1. CASE Submit(t)
    <2>1. [store[t] EXCEPT !.status = "queued"] \in Records
        BY <1>0, RecordTypes
    <2> QED
        BY <1>1, <2>1 DEF Submit, TypeOK
<1>2. CASE Prune(t)
    <2>1. [store[t] EXCEPT !.status = "pruned"] \in Records
        BY <1>0, RecordTypes
    <2>2. store' \in [Tasks -> Records]
        BY <1>2, <2>1 DEF Prune, TypeOK
    <2>3. result' \in [Tasks -> Results]
        BY <1>2, ResetTypes DEF Prune, TypeOK
    <2> QED
        BY <1>2, <2>2, <2>3 DEF Prune, TypeOK
<1>3. CASE CancelLookup(t)
    <2>1. running[t] # 0 => running[t] \in Attempts
        BY BoundsAssumption DEF Attempts, TypeOK, BoundsAssumption
    <2>2. ASSUME NEW a \in Attempts
          PROVE  [worker[t][a] EXCEPT !.over = TRUE] \in Workers
        <3>1. worker[t][a] \in Workers
            BY DEF TypeOK
        <3> QED
            BY <3>1, WorkerTypes
    <2>3. worker' \in [Tasks -> [Attempts -> Workers]]
        BY <1>3, <2>1, <2>2 DEF CancelLookup, TypeOK
    <2> QED
        BY <1>3, <2>3 DEF CancelLookup, TypeOK
<1>4. CASE CancelUpdate(t)
    <2>1. store' \in [Tasks -> Records]
        BY <1>0, <1>4, GuardedUpdateType DEF CancelUpdate
    <2> QED
        BY <1>4, <2>1 DEF CancelUpdate, TypeOK
<1> QED
    BY <1>1, <1>2, <1>3, <1>4

\* The admission loop keeps the types; a task it launches has attempts left.
LEMMA TickType ==
    ASSUME TypeOK, \A t \in Tasks : TodoIsFresh(t), Tick
    PROVE  TypeOK'
<1>1. ASSUME NEW free \in Probes, TickStart(free), wake' \in BOOLEAN PROVE TypeOK'
    <2>1. \A t \in Tasks : store[t].on \in Blockers
        BY RecordTypes DEF TypeOK
    <2>2. tick' \in Ticks
        BY <1>1, <2>1, ResetTypes, ResourceAssumption
        DEF TickStart, Snapshot, InRunning, Ticks, Blockers, ResourceAssumption
    <2> QED
        BY <1>1, <2>2 DEF TickStart, TypeOK
<1>2. ASSUME NEW t \in Tasks, NEW S \in SUBSET Tasks, Advance(t, S)
      PROVE  tick' \in Ticks
    BY <1>2, ResetTypes DEF Advance, Ticks, Blockers, TypeOK
<1>3. ASSUME NEW t \in Tasks, NEW on \in Blockers, Block(t, on)
      PROVE  store' \in [Tasks -> Records]
    <2>1. [store[t] EXCEPT !.status = "blocked", !.on = on] \in Records
        BY DEF Records, Statuses, Pending, TypeOK
    <2> QED
        BY <1>3, <2>1, UpdateType DEF Block, TypeOK
<1>4. ASSUME NEW t \in Tasks, TickFull(t) PROVE TypeOK'
    BY <1>4, ResetTypes DEF TickFull, TypeOK
<1>5. ASSUME NEW t \in Tasks, TickGated(t) PROVE TypeOK'
    <2>1. store' \in [Tasks -> Records]
        BY <1>3, <1>5 DEF TickGated, Blockers
    <2>2. tick' \in Ticks
        BY <1>2, <1>5 DEF TickGated
    <2> QED
        BY <1>5, <2>1, <2>2 DEF TickGated, TypeOK
<1>6. ASSUME NEW t \in Tasks, TickNoMemory(t) \/ TickNoCPU(t) PROVE TypeOK'
    <2>1. store' \in [Tasks -> Records]
        BY <1>3, <1>6 DEF TickNoMemory, TickNoCPU, Blockers
    <2> QED
        BY <1>6, <2>1, ResetTypes DEF TickNoMemory, TickNoCPU, TypeOK
<1>8. ASSUME NEW t \in Tasks, t \in tick.todo
      PROVE  store[t].attempts + 1 \in Attempts /\ store[t].attempts + 1 \in 0..MaxAttempts
    <2>1. store[t].attempts \in 0..MaxAttempts /\ store[t].attempts < MaxAttempts
        BY <1>8, RecordTypes DEF TodoIsFresh, TypeOK
    <2> QED
        BY <2>1, BoundsAssumption DEF Attempts, BoundsAssumption
<1>9. ASSUME NEW t \in Tasks, LaunchRegister(t) PROVE TypeOK'
    <2>1. store[t].attempts + 1 \in Attempts /\ store[t].attempts + 1 \in 0..MaxAttempts
        BY <1>8, <1>9 DEF LaunchRegister, Admissible, Considering
    <2>2. [NoWorker EXCEPT !.pc = "registered"] \in Workers
        BY ResetTypes, WorkerTypes DEF PCs
    <2>3. tick' \in Ticks
        BY <1>9 DEF LaunchRegister, Ticks, TypeOK
    <2>4. worker' \in [Tasks -> [Attempts -> Workers]]
        BY <1>9, <2>1, <2>2 DEF LaunchRegister, TypeOK
    <2> QED
        BY <1>9, <2>1, <2>3, <2>4 DEF LaunchRegister, TypeOK
<1>10. ASSUME NEW t \in Tasks, LaunchUpdate(t) PROVE TypeOK'
    <2> DEFINE a == store[t].attempts + 1
    <2>1. a \in Attempts /\ a \in 0..MaxAttempts
        BY <1>8, <1>10 DEF LaunchUpdate, Launching
    <2>2. tick' \in Ticks
        BY <1>2, <1>10 DEF LaunchUpdate
    <2>3. [store[t] EXCEPT !.status = "running", !.on = "nothing", !.attempts = a] \in Records
        <3>1. store[t] \in Records /\ "running" \in Statuses /\ "nothing" \in Blockers
            BY DEF TypeOK, Statuses, Blockers
        <3> QED
            BY <2>1, <3>1 DEF Records
    <2>4. store' \in [Tasks -> Records]
        BY <1>10, <2>3 DEF LaunchUpdate, TypeOK
    <2>5. [worker[t][a] EXCEPT !.pc = "launched"] \in Workers
        <3>1. worker[t][a] \in Workers /\ "launched" \in PCs
            BY <2>1 DEF TypeOK, PCs
        <3> QED
            BY <3>1, WorkerTypes
    <2>6. worker' \in [Tasks -> [Attempts -> Workers]]
        BY <1>10, <2>1, <2>5 DEF LaunchUpdate, TypeOK
    <2> QED
        BY <1>10, <2>2, <2>4, <2>6 DEF LaunchUpdate, TypeOK
<1>11. ASSUME NEW t \in Tasks, LaunchAbandoned(t) PROVE TypeOK'
    <2>1. tick' \in Ticks
        BY <1>2, <1>11 DEF LaunchAbandoned
    <2>2. worker' \in [Tasks -> [Attempts -> Workers]]
        BY <1>11, ResetTypes DEF LaunchAbandoned, TypeOK
    <2>3. running' \in [Tasks -> 0..MaxAttempts]
        BY <1>11, BoundsAssumption DEF LaunchAbandoned, TypeOK, BoundsAssumption
    <2> QED
        BY <1>11, <2>1, <2>2, <2>3 DEF LaunchAbandoned, TypeOK
<1> QED
    BY <1>1, <1>4, <1>5, <1>6, <1>9, <1>10, <1>11
    DEF Tick, TickOnTimer, TickOnWake, TypeOK

\* A worker that moves on, with or without an outcome.
LEMMA GotoType ==
    ASSUME TypeOK, NEW t \in Tasks, NEW a \in Attempts, NEW pc \in PCs, Goto(t, a, pc)
    PROVE  worker' \in [Tasks -> [Attempts -> Workers]]
<1>1. [worker[t][a] EXCEPT !.pc = pc] \in Workers
    BY WorkerTypes DEF TypeOK
<1> QED
    BY <1>1 DEF Goto, TypeOK

\* An attempt that ended leaves a worker that settles.
LEMMA EndedType ==
    ASSUME TypeOK, NEW t \in Tasks, NEW a \in Attempts,
           NEW out \in Outcomes \cup {"none"}, Ended(t, a, out)
    PROVE  worker' \in [Tasks -> [Attempts -> Workers]]
<1>0. worker[t][a] \in Workers
    BY DEF TypeOK
<1>1. [worker[t][a] EXCEPT !.pc = "settling", !.out = out] \in Workers
    BY <1>0 DEF Workers, PCs
<1> QED
    BY <1>1 DEF Ended, TypeOK

\* The workers keep the types.
LEMMA WorkType ==
    ASSUME TypeOK, Work
    PROVE  TypeOK'
<1>1. PICK t \in Tasks, a \in Attempts : Runs(t, a) \/ Timeout(t, a)
    BY DEF Work
<1>2. /\ store[t] \in Records /\ worker[t][a] \in Workers /\ result[t] \in Results
      /\ a \in 0..MaxAttempts /\ 0 \in 0..MaxAttempts
      /\ {"launched", "cleared", "started", "awaiting", "parked", "teardown",
          "settling", "waking", "finishing"} \subseteq PCs
      /\ {"failed", "lost", "blocked", "succeeded"} \subseteq Statuses
      /\ "claude" \in Blockers /\ "err" \in Outcomes
    BY BoundsAssumption
    DEF TypeOK, Attempts, PCs, Statuses, Terminal, Final, Pending, Blockers,
        Outcomes, BoundsAssumption
<1>3. ASSUME NEW pc \in PCs, Goto(t, a, pc),
             UNCHANGED <<store, result, job, daemon, recover, running, tick,
                         cancelling, gate>>,
             wake' \in BOOLEAN, UNCHANGED crashes
      PROVE  TypeOK'
    BY <1>3, GotoType DEF TypeOK
<1>4. ASSUME NEW pc \in PCs, Goto(t, a, pc), store' \in [Tasks -> Records],
             gate' \in BOOLEAN,
             UNCHANGED <<result, job, daemon, recover, running, tick,
                         cancelling, wake, crashes>>
      PROVE  TypeOK'
    BY <1>4, GotoType DEF TypeOK
<1>5. ASSUME NEW out \in Outcomes \cup {"none"}, Ended(t, a, out),
             UNCHANGED <<store, result, daemon, recover, running, tick,
                         cancelling, gate, wake, crashes>>,
             job' \in [Tasks -> [Attempts -> {"none", "live", "done"}]]
      PROVE  TypeOK'
    BY <1>5, EndedType DEF TypeOK
<1>6. CASE ExecuteFails(t, a)
    BY <1>2, <1>4, <1>6, GuardedUpdateType DEF ExecuteFails, TypeOK
<1>7. CASE ClearResult(t, a)
    <2>1. worker' \in [Tasks -> [Attempts -> Workers]]
        BY <1>2, <1>7, GotoType DEF ClearResult
    <2> QED
        BY <1>7, <2>1, ResetTypes DEF ClearResult, TypeOK
<1>8. CASE StartFails(t, a)
    BY <1>2, <1>5, <1>8 DEF StartFails, TypeOK
<1>9. CASE StartJob(t, a)
    <2>1. worker' \in [Tasks -> [Attempts -> Workers]]
        BY <1>2, <1>9, GotoType DEF StartJob
    <2> QED
        BY <1>9, <2>1 DEF StartJob, TypeOK
<1>10. CASE RecordPGID(t, a)
    <2>1. [worker[t][a] EXCEPT !.pc = "awaiting", !.pg = a] \in Workers
        BY <1>2 DEF Workers
    <2>2. worker' \in [Tasks -> [Attempts -> Workers]]
        BY <1>10, <2>1 DEF RecordPGID, TypeOK
    <2>3. [store[t] EXCEPT !.pgid = a] \in Records
        BY <1>2, RecordTypes
    <2>4. store' \in [Tasks -> Records]
        BY <1>10, <2>3, UpdateType DEF RecordPGID
    <2> QED
        BY <1>10, <2>2, <2>4 DEF RecordPGID, TypeOK
<1>11. CASE Await(t, a)
    <2>1. result[t].out \in Outcomes \cup {"none"}
        BY <1>2 DEF Results
    <2>2. worker' \in [Tasks -> [Attempts -> Workers]]
        BY <1>2, <1>11, <2>1, EndedType, GotoType DEF Await
    <2> QED
        BY <1>11, <2>2 DEF Await, TypeOK
<1>12. CASE PollTicks(t, a) \/ ReadoptRun(t, a)
    BY <1>2, <1>3, <1>12 DEF PollTicks, ReadoptRun, TypeOK
<1>13. CASE TeardownStart(t, a)
    <2>1. worker' \in [Tasks -> [Attempts -> Workers]]
        BY <1>2, <1>13, EndedType, GotoType DEF TeardownStart
    <2> QED
        BY <1>13, <2>1 DEF TeardownStart, TypeOK
<1>14. CASE TeardownEnd(t, a)
    BY <1>2, <1>5, <1>14 DEF TeardownEnd, TypeOK
<1>15. CASE Timeout(t, a)
    <2>1. [worker[t][a] EXCEPT !.over = TRUE] \in Workers
        BY <1>2, WorkerTypes
    <2> QED
        BY <1>15, <2>1 DEF Timeout, TypeOK
<1>16. CASE SettleError(t, a)
    <2>1. store' \in [Tasks -> Records]
        BY <1>2, <1>16, GuardedUpdateType DEF SettleError
    <2> QED
        BY <1>2, <1>4, <1>16, <2>1 DEF SettleError, TypeOK
<1>17. CASE SettleExhausted(t, a)
    <2>1. [store[t] EXCEPT !.status = "blocked", !.on = "claude", !.pgid = 0] \in Records
        BY <1>2 DEF Records
    <2>2. store' \in [Tasks -> Records]
        BY <1>17, <2>1, UpdateType DEF SettleExhausted
    <2> QED
        BY <1>2, <1>4, <1>17, <2>2 DEF SettleExhausted, TypeOK
<1>18. CASE SettleExit(t, a)
    <2>1. \A s \in Statuses : [store[t] EXCEPT !.status = s, !.pgid = 0] \in Records
        BY <1>2 DEF Records
    <2>2. store' \in [Tasks -> Records]
        BY <1>2, <1>18, <2>1, UpdateType DEF SettleExit
    <2> QED
        BY <1>2, <1>4, <1>18, <2>2 DEF SettleExit, TypeOK
<1>19. CASE WakeUp(t, a)
    BY <1>2, <1>3, <1>19 DEF WakeUp, TypeOK
<1>20. CASE Finish(t, a)
    BY <1>2, <1>20, ResetTypes DEF Finish, TypeOK
<1>21. CASE ReadoptFails(t, a)
    <2>1. store' \in [Tasks -> Records]
        BY <1>2, <1>21, GuardedUpdateType DEF ReadoptFails
    <2> QED
        BY <1>2, <1>4, <1>21, <2>1 DEF ReadoptFails, TypeOK
<1> QED
    BY <1>1, <1>6, <1>7, <1>8, <1>9, <1>10, <1>11, <1>12, <1>13, <1>14, <1>15,
       <1>16, <1>17, <1>18, <1>19, <1>20, <1>21 DEF Runs

\* So do the jobs, the crash and the recovery; a re-adopted task was running
\* and so has an attempt.
LEMMA LifeType ==
    ASSUME TypeOK, Jobs \/ GateReopens \/ Crash \/ Recover
    PROVE  TypeOK'
<1>1. CASE Jobs
    <2>1. ASSUME NEW t \in Tasks, NEW a \in Attempts, JobDies(t, a) PROVE TypeOK'
        BY <2>1 DEF JobDies, TypeOK
    <2>2. ASSUME NEW t \in Tasks, NEW a \in Attempts, NEW out \in Outcomes,
                 JobReports(t, a, out)
          PROVE  TypeOK'
        <3>1. [out |-> out, by |-> a] \in Results
            BY BoundsAssumption DEF Results, Attempts, BoundsAssumption
        <3> QED
            BY <2>2, <3>1 DEF JobReports, TypeOK
    <2> QED
        BY <1>1, <2>1, <2>2 DEF Jobs
<1>2. CASE GateReopens
    BY <1>2 DEF GateReopens, TypeOK
<1>3. CASE Crash
    <2>1. 0 \in 0..MaxAttempts /\ (crashes < MaxCrashes => crashes + 1 \in 0..MaxCrashes)
        BY BoundsAssumption DEF TypeOK, BoundsAssumption
    <2> QED
        BY <1>3, <2>1, ResetTypes DEF Crash, TypeOK
<1>4. CASE Start \/ Serve \/ \E t \in Tasks : RecoverLook(t)
    BY <1>4 DEF Start, Serve, RecoverLook, TypeOK
<1>5. ASSUME NEW t \in Tasks, RecoverLost(t) PROVE TypeOK'
    <2>1. store' \in [Tasks -> Records]
        BY <1>5, GuardedUpdateType DEF RecoverLost, Statuses, Terminal, Final
    <2> QED
        BY <1>5, <2>1 DEF RecoverLost, TypeOK
<1>6. ASSUME NEW t \in Tasks, Readopt(t) PROVE TypeOK'
    <2>1. store[t].attempts \in 0..MaxAttempts /\ store[t].pgid \in 0..MaxAttempts
        BY RecordTypes DEF TypeOK
    <2>2. [NoWorker EXCEPT !.pc = "readopted", !.pg = store[t].pgid] \in Workers
        BY <2>1, ResetTypes DEF Workers, PCs
    <2> QED
        BY <1>6, <2>1, <2>2 DEF Readopt, TypeOK
<1> QED
    BY <1>1, <1>2, <1>3, <1>4, <1>5, <1>6 DEF Recover

\* Every step keeps the types.
LEMMA TypeStep ==
    ASSUME TypeOK, \A t \in Tasks : TodoIsFresh(t), [Next]_vars
    PROVE  TypeOK'
<1>1. CASE Next
    BY <1>1, CallersType, TickType, WorkType, LifeType DEF Next
<1>2. CASE UNCHANGED vars
    BY <1>2 DEF vars, TypeOK
<1> QED
    BY <1>1, <1>2
-----------------------------------------------------------------------------
(* The inductive invariant.                                                *)

\* A task the step does not touch stays consistent.
LEMMA Frame ==
    ASSUME Inv, NEW u \in Tasks,
           store'[u] = store[u], result'[u] = result[u], job'[u] = job[u],
           worker'[u] = worker[u],
           u \in tick'.todo => u \in tick.todo,
           u \in recover' => u \in recover,
           \/ daemon' = daemon
           \/ {daemon, daemon'} \subseteq {"recovering", "probing"}
    PROVE  Consistent(u)'
BY DEF Inv, Consistent, LiveIsLatest, ReportIsLast, PendingIsFresh, TodoIsFresh,
       WatchedIsLatest, WorkerReadsResult, RecoverIsRunning, Fresh, At, Attempts

\* A worker's own move between program counters, on an unchanged task.
LEMMA Move ==
    ASSUME Inv, NEW t \in Tasks, NEW a \in Attempts, NEW pc \in PCs, Goto(t, a, pc),
           pc \in Watching => worker[t][a].pc \in Watching,
           pc \notin {"launched", "cleared", "settling"},
           UNCHANGED <<store, result, job, daemon, recover, tick>>,
           NEW u \in Tasks
    PROVE  Consistent(u)'
<1>1. /\ \A v \in Tasks : v # t => worker'[v] = worker[v]
      /\ \A b \in Attempts : b # a => worker'[t][b] = worker[t][b]
      /\ worker'[t][a].pc = pc
    BY DEF Goto, Inv, TypeOK, Workers
<1>2. CASE u # t
    BY <1>1, <1>2, Frame
<1>3. CASE u = t
    BY <1>1, <1>3
    DEF Inv, Consistent, LiveIsLatest, ReportIsLast, PendingIsFresh, TodoIsFresh,
        WatchedIsLatest, WorkerReadsResult, RecoverIsRunning, Fresh, At
<1> QED
    BY <1>2, <1>3

\* A worker that has its outcome: an error, or what the result file says.
LEMMA End ==
    ASSUME Inv, NEW t \in Tasks, NEW a \in Attempts,
           NEW out \in Outcomes \cup {"none"}, Ended(t, a, out),
           worker[t][a].pc \in Watching,
           out \in {"err", result[t].out}, out # "none",
           \A b \in Attempts : job'[t][b] = "live" => job[t][b] = "live",
           \A v \in Tasks \ {t} : job'[v] = job[v],
           UNCHANGED <<store, result, daemon, recover, tick>>,
           NEW u \in Tasks
    PROVE  Consistent(u)'
<1>1. /\ \A v \in Tasks : v # t => worker'[v] = worker[v]
      /\ \A b \in Attempts : b # a => worker'[t][b] = worker[t][b]
      /\ worker'[t][a].pc = "settling" /\ worker'[t][a].out = out
    BY DEF Ended, Inv, TypeOK, Workers
<1>2. CASE u # t
    BY <1>1, <1>2, Frame
<1>3. CASE u = t
    BY <1>1, <1>3
    DEF Inv, Consistent, LiveIsLatest, ReportIsLast, PendingIsFresh, TodoIsFresh,
        WatchedIsLatest, WorkerReadsResult, RecoverIsRunning, Fresh, At
<1> QED
    BY <1>2, <1>3

\* A worker that settles: the record changes, and the worker watches no more.
LEMMA Settled ==
    ASSUME Inv, NEW t \in Tasks, NEW a \in Attempts, Goto(t, a, "waking"),
           worker[t][a].pc \in Watching,
           \A v \in Tasks \ {t} : store'[v] = store[v],
           store'[t].attempts = store[t].attempts,
           store'[t].status \in {store[t].status} \cup Final
               \/ (store'[t].status = "blocked" /\ result[t].out = "limit"),
           UNCHANGED <<result, job, daemon, recover, tick>>,
           NEW u \in Tasks
    PROVE  Consistent(u)'
<1>1. /\ \A v \in Tasks : v # t => worker'[v] = worker[v]
      /\ \A b \in Attempts : b # a => worker'[t][b] = worker[t][b]
      /\ worker'[t][a].pc = "waking"
    BY DEF Goto, Inv, TypeOK, Workers
<1>2. CASE u # t
    BY <1>1, <1>2, Frame
<1>3. CASE u = t
    <2>1. \A b \in Attempts : worker'[t][b].pc \notin Watching
        BY <1>1 DEF Inv, Consistent, WatchedIsLatest, Watching
    <2>2. t \notin recover /\ t \notin tick.todo
        BY DEF Inv, Consistent, WatchedIsLatest
    <2> QED
        BY <1>3, <2>1, <2>2
        DEF Inv, Consistent, LiveIsLatest, ReportIsLast, PendingIsFresh, TodoIsFresh,
            WatchedIsLatest, WorkerReadsResult, RecoverIsRunning, Fresh, At,
            Watching, Final, Pending
<1> QED
    BY <1>2, <1>3

\* The callers of the API keep every task consistent: a cancel and retention
\* only ever take a record out of the loop's reach.
LEMMA CallersStep ==
    ASSUME Inv, NEW t \in Tasks, NEW u \in Tasks,
           Submit(t) \/ Prune(t) \/ CancelLookup(t) \/ CancelUpdate(t)
    PROVE  Consistent(u)'
<1> USE DEF Inv, Consistent, LiveIsLatest, ReportIsLast, PendingIsFresh, TodoIsFresh,
            WatchedIsLatest, WorkerReadsResult, RecoverIsRunning, Fresh, At
<1>0. store[t] \in Records
    BY DEF TypeOK
<1>1. CASE Submit(t)
    <2>1. /\ \A v \in Tasks : v # t => store'[v] = store[v]
          /\ store'[t].status = "queued" /\ store'[t].attempts = store[t].attempts
        BY <1>0, <1>1 DEF Submit, TypeOK, Records
    <2>2. CASE u # t
        BY <1>1, <2>1, <2>2, Frame DEF Submit
    <2>3. CASE u = t
        BY <1>1, <2>1, <2>3 DEF Submit, Pending
    <2> QED
        BY <2>2, <2>3
<1>2. CASE Prune(t)
    <2>1. /\ \A v \in Tasks : v # t => store'[v] = store[v] /\ result'[v] = result[v]
          /\ store'[t].status = "pruned" /\ store'[t].attempts = store[t].attempts
          /\ result'[t].out = "none"
        BY <1>0, <1>2 DEF Prune, TypeOK, Records, NoResult
    <2>2. CASE u # t
        BY <1>2, <2>1, <2>2, Frame DEF Prune
    <2>3. CASE u = t
        BY <1>2, <2>1, <2>3 DEF Prune, Terminal, Final, Pending
    <2> QED
        BY <2>2, <2>3
<1>3. CASE CancelLookup(t)
    <2>1. \A v \in Tasks, b \in Attempts : /\ worker'[v][b].pc = worker[v][b].pc
                                           /\ worker'[v][b].out = worker[v][b].out
        <3>1. \A v \in Tasks, b \in Attempts : worker[v][b] \in Workers
            BY DEF TypeOK
        <3>2. \A w \in Workers : /\ [w EXCEPT !.over = TRUE].pc = w.pc
                                 /\ [w EXCEPT !.over = TRUE].out = w.out
            BY DEF Workers
        <3> QED
            BY <1>3, <3>1, <3>2 DEF CancelLookup, TypeOK
    <2>2. Consistent(u)
        OBVIOUS
    <2>3. WorkerReadsResult(u)'
        <3>1. UNCHANGED <<store, result, job>>
            BY <1>3 DEF CancelLookup
        <3>2. WorkerReadsResult(u)
            BY <2>2 DEF Consistent
        <3> QED
            BY <2>1, <3>1, <3>2 DEF WorkerReadsResult
    <2>4. WatchedIsLatest(u)'
        BY <1>3, <2>1, <2>2 DEF CancelLookup
    <2> QED
        BY <1>3, <2>2, <2>3, <2>4 DEF CancelLookup
<1>4. CASE CancelUpdate(t)
    <2>1. /\ \A v \in Tasks : v # t => store'[v] = store[v]
          /\ store'[t].attempts = store[t].attempts
          /\ \/ store'[t].status = store[t].status
             \/ store'[t].status = "cancelled" /\ store[t].status # "pruned"
        BY <1>0, <1>4
        DEF CancelUpdate, UpdateUnlessTerminal, Update, Exists, TypeOK, Records
    <2>2. CASE u # t
        BY <1>4, <2>1, <2>2, Frame DEF CancelUpdate
    <2>3. CASE u = t
        <3>1. t \notin recover
            BY <1>4 DEF CancelUpdate, TypeOK
        <3> QED
            BY <1>4, <2>1, <2>3, <3>1 DEF CancelUpdate, Pending
    <2> QED
        BY <2>2, <2>3
<1> QED
    BY <1>1, <1>2, <1>3, <1>4

\* What the loop leaves of a record it holds back, and of its own snapshot.
LEMMA BlockShape ==
    ASSUME Inv, NEW t \in Tasks, NEW on, Block(t, on), t \in tick.todo
    PROVE  /\ \A v \in Tasks : v # t => store'[v] = store[v]
           /\ store'[t].attempts = store[t].attempts
           /\ store'[t].status \in {store[t].status, "blocked"}
           /\ store[t].status = "pruned" => store'[t].status = "pruned"
<1>1. store \in [Tasks -> Records] /\ store[t] \in Records
    BY DEF Inv, TypeOK
<1>2. /\ [store[t] EXCEPT !.status = "blocked", !.on = on].status = "blocked"
      /\ [store[t] EXCEPT !.status = "blocked", !.on = on].attempts = store[t].attempts
    BY <1>1 DEF Records
<1>3. store' = store
          \/ (Exists(t) /\ store' = [store EXCEPT ![t] =
                  [store[t] EXCEPT !.status = "blocked", !.on = on]])
    BY DEF Block, Update
<1> QED
    BY <1>1, <1>2, <1>3 DEF Exists

\* The tick goes on to the tasks that are left.
LEMMA AdvanceShape ==
    ASSUME Inv, NEW t \in Tasks, NEW S, Advance(t, S)
    PROVE  tick'.todo \subseteq tick.todo \ {t}
BY DEF Advance, IdleTick, Inv, TypeOK, Ticks

\* The admission loop keeps every task consistent: what it launches is fresh,
\* although the record may have changed since the tick read it.
LEMMA TickStep ==
    ASSUME Inv, Tick, NEW u \in Tasks
    PROVE  Consistent(u)'
<1> USE DEF Consistent, LiveIsLatest, ReportIsLast, PendingIsFresh, TodoIsFresh,
            WatchedIsLatest, WorkerReadsResult, RecoverIsRunning, Fresh, At
<1>0. Consistent(u)
    BY DEF Inv
<1>1. ASSUME NEW free \in Probes, TickStart(free) PROVE Consistent(u)'
    <2>1. u \in tick'.todo => /\ daemon = "up" /\ store[u].status \in Pending
                              /\ store[u].attempts < MaxAttempts
        BY <1>1 DEF TickStart, Snapshot, IdleTick
    <2>2. daemon = "up"
        BY <1>1 DEF TickStart
    <2>3. u \in tick'.todo => \A b \in Attempts : worker[u][b].pc \notin Watching
        BY <1>0, <2>1 DEF Pending
    <2> QED
        BY <1>0, <1>1, <2>1, <2>2, <2>3 DEF TickStart
<1>2. ASSUME NEW t \in Tasks, TickFull(t) PROVE Consistent(u)'
    BY <1>0, <1>2, Frame DEF TickFull, IdleTick
<1>3. ASSUME NEW t \in Tasks, NEW on, Block(t, on), t \in tick.todo,
             tick'.todo \subseteq tick.todo \ {t},
             UNCHANGED <<result, job, daemon, recover, worker>>
      PROVE  Consistent(u)'
    <2>1. CASE u # t
        BY <1>3, <2>1, BlockShape, Frame
    <2>2. CASE u = t
        <3>1. \A b \in Attempts : worker[t][b].pc \notin Watching
            BY <1>0, <1>3, <2>2
        <3>2. t \notin recover /\ t \notin tick'.todo
            BY <1>0, <1>3, <2>2
        <3>3. store[t].status # "pruned" => Fresh(t)
            BY <1>0, <1>3, <2>2
        <3> QED
            BY <1>0, <1>3, <2>2, <3>1, <3>2, <3>3, BlockShape DEF Pending, Watching
    <2> QED
        BY <2>1, <2>2
<1>4. ASSUME NEW t \in Tasks, TickGated(t) \/ TickNoMemory(t) \/ TickNoCPU(t)
      PROVE  Consistent(u)'
    <2>1. t \in tick.todo /\ \E on : Block(t, on)
        BY <1>4 DEF TickGated, TickNoMemory, TickNoCPU, Admissible, Considering
    <2>2. tick'.todo \subseteq tick.todo \ {t}
        BY <1>4, AdvanceShape DEF TickGated, TickNoMemory, TickNoCPU, IdleTick
    <2> QED
        BY <1>3, <1>4, <2>1, <2>2 DEF TickGated, TickNoMemory, TickNoCPU
<1>5. ASSUME NEW t \in Tasks, t \in tick.todo
      PROVE  /\ store[t].attempts + 1 \in Attempts /\ store[t].attempts \in Nat
             /\ \A b \in Attempts : worker[t][b].pc \notin Watching
             /\ t \notin recover /\ daemon = "up"
             /\ store[t].status = "pruned" \/ Fresh(t)
    <2>1. TodoIsFresh(t) /\ WatchedIsLatest(t) /\ RecoverIsRunning(t)
        BY DEF Inv
    <2>2. store[t].attempts \in 0..MaxAttempts /\ store[t].attempts < MaxAttempts
        BY <1>5, <2>1, RecordTypes DEF Inv, TypeOK
    <2>3. store[t].attempts + 1 \in Attempts /\ store[t].attempts \in Nat
        BY <2>2, BoundsAssumption DEF Attempts, BoundsAssumption
    <2> QED
        BY <1>5, <2>1, <2>3
<1>6. ASSUME NEW t \in Tasks, LaunchRegister(t) PROVE Consistent(u)'
    <2>0. t \in tick.todo
        BY <1>6 DEF LaunchRegister, Admissible, Considering
    <2>1. /\ \A v \in Tasks : v # t => worker'[v] = worker[v]
          /\ \A b \in Attempts : \/ worker'[t][b] = worker[t][b]
                                 \/ worker'[t][b].pc = "registered"
          /\ tick'.todo = tick.todo
        BY <1>6 DEF LaunchRegister, NoWorker, Inv, TypeOK, Ticks
    <2>2. CASE u # t
        BY <1>6, <2>1, <2>2, Frame DEF LaunchRegister
    <2>3. CASE u = t
        BY <1>0, <1>6, <2>1, <2>3 DEF LaunchRegister, Watching
    <2> QED
        BY <2>2, <2>3
<1>7. ASSUME NEW t \in Tasks, LaunchAbandoned(t) PROVE Consistent(u)'
    <2>0. t \in tick.todo
        BY <1>7 DEF LaunchAbandoned, Launching
    <2>1. /\ \A v \in Tasks : v # t => worker'[v] = worker[v]
          /\ \A b \in Attempts : \/ worker'[t][b] = worker[t][b]
                                 \/ worker'[t][b].pc = "none"
          /\ tick'.todo \subseteq tick.todo
        BY <1>7, AdvanceShape DEF LaunchAbandoned, NoWorker, Inv, TypeOK, Ticks
    <2>2. CASE u # t
        BY <1>7, <2>1, <2>2, Frame DEF LaunchAbandoned
    <2>3. CASE u = t
        BY <1>0, <1>7, <2>1, <2>3 DEF LaunchAbandoned, Watching
    <2> QED
        BY <2>2, <2>3
<1>8. ASSUME NEW t \in Tasks, LaunchUpdate(t) PROVE Consistent(u)'
    <2> DEFINE a == store[t].attempts + 1
    <2>0. t \in tick.todo /\ store[t].status # "pruned"
        BY <1>8 DEF LaunchUpdate, Launching, Exists
    <2>1. /\ a \in Attempts /\ store[t].attempts \in Nat
          /\ \A b \in Attempts : worker[t][b].pc \notin Watching
          /\ t \notin recover /\ daemon = "up" /\ Fresh(t)
        BY <1>5, <2>0
    <2>2. /\ \A v \in Tasks : v # t => worker'[v] = worker[v] /\ store'[v] = store[v]
          /\ \A b \in Attempts : b # a => worker'[t][b] = worker[t][b]
          /\ worker'[t][a].pc = "launched"
          /\ store'[t].status = "running" /\ store'[t].attempts = a
        BY <1>8, <2>1 DEF LaunchUpdate, Inv, TypeOK, Records, Workers
    <2>3. tick'.todo \subseteq tick.todo \ {t}
        BY <1>8, AdvanceShape DEF LaunchUpdate
    <2>4. CASE u # t
        BY <1>8, <2>2, <2>3, <2>4, Frame DEF LaunchUpdate
    <2>5. CASE u = t
        <3>1. \A b \in Attempts : job[t][b] # "live"
            BY <1>0, <2>1, <2>5 DEF Attempts
        <3>2. ReportIsLast(t)'
            BY <1>0, <1>8, <2>1, <2>2, <2>5, <3>1 DEF LaunchUpdate
        <3>3. LiveIsLatest(t)' /\ PendingIsFresh(t)' /\ TodoIsFresh(t)' /\ RecoverIsRunning(t)'
            BY <1>8, <2>1, <2>2, <2>3, <3>1 DEF LaunchUpdate, Pending
        <3>4. WatchedIsLatest(t)'
            BY <1>8, <2>1, <2>2, <2>3 DEF LaunchUpdate
        <3>5. WorkerReadsResult(t)'
            BY <1>8, <2>1, <2>2, <3>1 DEF LaunchUpdate, Watching
        <3> QED
            BY <2>5, <3>2, <3>3, <3>4, <3>5
    <2> QED
        BY <2>4, <2>5
<1> QED
    BY <1>1, <1>2, <1>4, <1>6, <1>7, <1>8 DEF Tick, TickOnTimer, TickOnWake

\* What an update makes of the record of a task that stays.
LEMMA UpdateShape ==
    ASSUME Inv, NEW t \in Tasks, NEW r \in Records, Update(t, r)
    PROVE  /\ \A v \in Tasks : v # t => store'[v] = store[v]
           /\ store'[t] = store[t] \/ (store'[t] = r /\ Exists(t))
BY DEF Update, Inv, TypeOK

\* A guarded update touches one record, and none that is final.
LEMMA GuardedUpdateShape ==
    ASSUME Inv, NEW t \in Tasks, NEW s \in Statuses, UpdateUnlessTerminal(t, s)
    PROVE  /\ \A v \in Tasks : v # t => store'[v] = store[v]
           /\ store'[t].attempts = store[t].attempts
           /\ \/ store'[t] = store[t]
              \/ /\ store'[t].status = s
                 /\ store[t].status \notin Terminal \cup {"none", "pruned"}
<1>1. store[t] \in Records
    BY DEF Inv, TypeOK
<1>2. /\ [store[t] EXCEPT !.status = s] \in Records
      /\ [store[t] EXCEPT !.status = s].status = s
      /\ [store[t] EXCEPT !.status = s].attempts = store[t].attempts
    BY <1>1, RecordTypes DEF Records
<1> QED
    BY <1>2, UpdateShape DEF UpdateUnlessTerminal, Exists

\* The record of a settled attempt.
LEMMA SettledRecord ==
    ASSUME NEW r \in Records, NEW s \in Statuses
    PROVE  /\ [r EXCEPT !.status = s, !.pgid = 0] \in Records
           /\ [r EXCEPT !.status = s, !.pgid = 0].status = s
           /\ [r EXCEPT !.status = s, !.pgid = 0].attempts = r.attempts
<1>1. 0 \in 0..MaxAttempts
    BY BoundsAssumption DEF BoundsAssumption
<1> QED
    BY <1>1 DEF Records

\* The workers keep every task consistent.
LEMMA WorkStep ==
    ASSUME Inv, Work, NEW u \in Tasks
    PROVE  Consistent(u)'
<1> USE DEF Consistent, LiveIsLatest, ReportIsLast, PendingIsFresh, TodoIsFresh,
            WatchedIsLatest, WorkerReadsResult, RecoverIsRunning, Fresh
<1>1. PICK t \in Tasks, a \in Attempts : Runs(t, a) \/ Timeout(t, a)
    BY DEF Work
<1>2. /\ store[t] \in Records /\ Consistent(t) /\ Consistent(u)
      /\ {"cleared", "started", "awaiting", "parked", "teardown",
          "settling", "waking", "finishing"} \subseteq PCs
      /\ {"failed", "lost", "blocked", "succeeded"} \subseteq Statuses
      /\ Final \subseteq Statuses
      /\ "err" \in Outcomes
    BY DEF Inv, TypeOK, PCs, Statuses, Terminal, Final, Pending, Outcomes
<1>3. CASE ExecuteFails(t, a) \/ ReadoptFails(t, a) \/ SettleError(t, a)
    <2>1. PICK s \in Final : UpdateUnlessTerminal(t, s)
        BY <1>3 DEF ExecuteFails, ReadoptFails, SettleError, Final
    <2>2. worker[t][a].pc \in Watching /\ Goto(t, a, "waking")
        BY <1>3 DEF ExecuteFails, ReadoptFails, SettleError, At, Watching
    <2>3. /\ \A v \in Tasks : v # t => store'[v] = store[v]
          /\ store'[t].attempts = store[t].attempts
          /\ store'[t].status \in {store[t].status} \cup Final
        BY <1>2, <2>1, GuardedUpdateShape
    <2> QED
        BY <1>3, <2>2, <2>3, Settled DEF ExecuteFails, ReadoptFails, SettleError
<1>4. CASE SettleExhausted(t, a)
    <2>1. /\ [store[t] EXCEPT !.status = "blocked", !.on = "claude", !.pgid = 0] \in Records
          /\ [store[t] EXCEPT !.status = "blocked", !.on = "claude", !.pgid = 0].status
                = "blocked"
          /\ [store[t] EXCEPT !.status = "blocked", !.on = "claude", !.pgid = 0].attempts
                = store[t].attempts
        <3>1. "blocked" \in Statuses /\ "claude" \in Blockers /\ store[t] \in Records
            BY <1>2 DEF Blockers
        <3>2. 0 \in 0..MaxAttempts
            BY BoundsAssumption DEF BoundsAssumption
        <3> QED
            BY <3>1, <3>2 DEF Records
    <2>2. /\ \A v \in Tasks : v # t => store'[v] = store[v]
          /\ store'[t].attempts = store[t].attempts
          /\ \/ store'[t].status = store[t].status
             \/ store'[t].status = "blocked" /\ Exists(t)
        BY <1>4, <2>1, UpdateShape DEF SettleExhausted
    <2>3. Exists(t) => result[t].out = "limit"
        BY <1>2, <1>4 DEF SettleExhausted, Exists, At
    <2>4. worker[t][a].pc \in Watching /\ Goto(t, a, "waking")
        BY <1>4 DEF SettleExhausted, At, Watching
    <2> QED
        BY <1>4, <2>2, <2>3, <2>4, Settled DEF SettleExhausted
<1>5. CASE SettleExit(t, a)
    <2> DEFINE final(s) == [store[t] EXCEPT !.status = s, !.pgid = 0]
    <2>1. ASSUME NEW s \in Final
          PROVE  /\ final(s) \in Records /\ final(s).status = s
                 /\ final(s).attempts = store[t].attempts
        <3>1. s \in Statuses /\ store[t] \in Records
            BY <1>2
        <3> QED
            BY <3>1, SettledRecord
    <2>2. \/ Update(t, store[t]) \/ \E s \in Final : Update(t, final(s))
        BY <1>5 DEF SettleExit, Final
    <2>3. /\ \A v \in Tasks : v # t => store'[v] = store[v]
          /\ store'[t].attempts = store[t].attempts
          /\ store'[t].status \in {store[t].status} \cup Final
        <3> HIDE DEF final
        <3> QED
            BY <1>2, <2>1, <2>2, UpdateShape
    <2>4. worker[t][a].pc \in Watching /\ Goto(t, a, "waking")
        BY <1>5 DEF SettleExit, At, Watching
    <2> QED
        BY <1>5, <2>3, <2>4, Settled DEF SettleExit
<1>6. CASE ClearResult(t, a)
    <2>1. /\ \A v \in Tasks : v # t => worker'[v] = worker[v] /\ result'[v] = result[v]
          /\ \A b \in Attempts : b # a => worker'[t][b] = worker[t][b]
          /\ worker'[t][a].pc = "cleared" /\ worker[t][a].pc = "launched"
          /\ result'[t].out = "none"
        BY <1>6 DEF ClearResult, Goto, At, NoResult, Inv, TypeOK, Workers
    <2>2. CASE u # t
        BY <1>6, <2>1, <2>2, Frame DEF ClearResult
    <2>3. CASE u = t
        <3>1. worker[t][a].pc \in Watching
            BY <2>1 DEF Watching
        <3>2. a = store[t].attempts /\ store[t].status \notin Pending /\ t \notin tick.todo
            BY <1>2, <3>1 DEF Pending
        <3>3. WatchedIsLatest(t)'
            BY <1>2, <1>6, <2>1, <3>1 DEF ClearResult
        <3>4. WorkerReadsResult(t)'
            BY <1>2, <1>6, <2>1, <3>2 DEF ClearResult, At, Watching
        <3> QED
            BY <1>2, <1>6, <2>1, <2>3, <3>2, <3>3, <3>4 DEF ClearResult
    <2> QED
        BY <2>2, <2>3
<1>7. CASE StartFails(t, a) \/ TeardownEnd(t, a)
    <2>1. worker[t][a].pc \in Watching /\ Ended(t, a, "err")
        BY <1>7 DEF StartFails, TeardownEnd, At, Watching
    <2>2. /\ \A b \in Attempts : job'[t][b] = "live" => job[t][b] = "live"
          /\ \A v \in Tasks \ {t} : job'[v] = job[v]
        BY <1>7 DEF StartFails, TeardownEnd, Inv, TypeOK
    <2> QED
        BY <1>2, <1>7, <2>1, <2>2, End DEF StartFails, TeardownEnd
<1>8. CASE StartJob(t, a)
    <2>1. /\ \A v \in Tasks : v # t => worker'[v] = worker[v] /\ job'[v] = job[v]
          /\ \A b \in Attempts : b # a => worker'[t][b] = worker[t][b]
                                          /\ job'[t][b] = job[t][b]
          /\ worker'[t][a].pc = "started" /\ worker[t][a].pc = "cleared"
          /\ job'[t][a] = "live"
        BY <1>8 DEF StartJob, Goto, At, Inv, TypeOK, Workers
    <2>2. CASE u # t
        BY <1>8, <2>1, <2>2, Frame DEF StartJob
    <2>3. CASE u = t
        <3>1. worker[t][a].pc \in Watching
            BY <2>1 DEF Watching
        <3>2. a = store[t].attempts /\ result[t].out = "none"
            BY <1>2, <2>1, <3>1 DEF At
        <3>3. WatchedIsLatest(t)'
            BY <1>2, <1>8, <2>1, <3>1 DEF StartJob
        <3>4. LiveIsLatest(t)' /\ ReportIsLast(t)'
            BY <1>2, <1>8, <2>1, <3>2 DEF StartJob
        <3>5. \A b \in Attempts : b # a => worker[t][b].pc \notin Watching
            BY <1>2, <3>2
        <3>6. WorkerReadsResult(t)'
            BY <1>2, <1>8, <2>1, <3>5 DEF StartJob, At, Watching
        <3> QED
            BY <1>2, <1>8, <2>3, <3>3, <3>4, <3>6 DEF StartJob
    <2> QED
        BY <2>2, <2>3
<1>9. CASE RecordPGID(t, a)
    <2>1. /\ [store[t] EXCEPT !.pgid = a] \in Records
          /\ [store[t] EXCEPT !.pgid = a].status = store[t].status
          /\ [store[t] EXCEPT !.pgid = a].attempts = store[t].attempts
        BY <1>2, BoundsAssumption DEF Records, Attempts, BoundsAssumption
    <2>2. /\ \A v \in Tasks : v # t => store'[v] = store[v]
          /\ store'[t].attempts = store[t].attempts
          /\ store'[t].status = store[t].status
        BY <1>9, <2>1, UpdateShape DEF RecordPGID
    <2>3. /\ \A v \in Tasks : v # t => worker'[v] = worker[v]
          /\ \A b \in Attempts : b # a => worker'[t][b] = worker[t][b]
          /\ worker'[t][a].pc = "awaiting" /\ worker[t][a].pc = "started"
        BY <1>9 DEF RecordPGID, At, Inv, TypeOK, Workers
    <2>4. CASE u # t
        BY <1>9, <2>2, <2>3, <2>4, Frame DEF RecordPGID
    <2>5. CASE u = t
        <3>1. worker[t][a].pc \in Watching
            BY <2>3 DEF Watching
        <3>2. WatchedIsLatest(t)'
            BY <1>2, <1>9, <2>2, <2>3, <3>1 DEF RecordPGID
        <3>3. WorkerReadsResult(t)'
            <4>1. UNCHANGED <<result, job>> /\ WorkerReadsResult(t)
                BY <1>2, <1>9 DEF RecordPGID
            <4>2. ASSUME NEW b \in Attempts, b # a
                  PROVE  worker'[t][b] = worker[t][b]
                BY <2>3, <4>2
            <4> QED
                BY <2>2, <2>3, <4>1, <4>2 DEF At
        <3>4. LiveIsLatest(t)' /\ ReportIsLast(t)'
            BY <1>2, <1>9, <2>2 DEF RecordPGID
        <3>5. PendingIsFresh(t)' /\ TodoIsFresh(t)' /\ RecoverIsRunning(t)'
            BY <1>2, <1>9, <2>2 DEF RecordPGID
        <3>6. Consistent(u)' = Consistent(t)'
            BY <2>5
        <3> QED
            BY <3>2, <3>3, <3>4, <3>5, <3>6
    <2> QED
        BY <2>4, <2>5
<1>10. CASE Await(t, a) \/ TeardownStart(t, a)
    <2>1. worker[t][a].pc \in Watching
        BY <1>10 DEF Await, TeardownStart, At, Watching
    <2>2. \/ \E pc \in {"parked", "teardown"} : Goto(t, a, pc)
          \/ \E out \in {"err", result[t].out} : Ended(t, a, out) /\ out # "none"
        BY <1>10 DEF Await, TeardownStart
    <2>3. result[t].out \in Outcomes \cup {"none"}
        BY DEF Inv, TypeOK, Results
    <2>4. CASE \E pc \in {"parked", "teardown"} : Goto(t, a, pc)
        BY <1>2, <1>10, <2>1, <2>4, Move DEF Await, TeardownStart
    <2>5. CASE \E out \in {"err", result[t].out} : Ended(t, a, out) /\ out # "none"
        <3>1. PICK out \in {"err", result[t].out} : Ended(t, a, out) /\ out # "none"
            BY <2>5
        <3> QED
            BY <1>2, <1>10, <2>1, <2>3, <3>1, End DEF Await, TeardownStart
    <2> QED
        BY <2>2, <2>4, <2>5
<1>11. CASE PollTicks(t, a) \/ ReadoptRun(t, a) \/ WakeUp(t, a)
    <2>1. \/ Goto(t, a, "awaiting") /\ worker[t][a].pc \in Watching
          \/ Goto(t, a, "finishing")
        BY <1>11 DEF PollTicks, ReadoptRun, WakeUp, At, Watching
    <2>2. "finishing" \notin Watching
        BY DEF Watching
    <2> QED
        BY <1>2, <1>11, <2>1, <2>2, Move DEF PollTicks, ReadoptRun, WakeUp
<1>12. CASE Timeout(t, a)
    <2>1. \A v \in Tasks, b \in Attempts : /\ worker'[v][b].pc = worker[v][b].pc
                                           /\ worker'[v][b].out = worker[v][b].out
        BY <1>12 DEF Timeout, Inv, TypeOK, Workers
    <2> QED
        BY <1>2, <1>12, <2>1 DEF Timeout, At
<1>13. CASE Finish(t, a)
    <2>1. /\ \A v \in Tasks : v # t => worker'[v] = worker[v]
          /\ \A b \in Attempts : b # a => worker'[t][b] = worker[t][b]
          /\ worker'[t][a].pc = "none"
        BY <1>13 DEF Finish, NoWorker, Inv, TypeOK
    <2>2. CASE u # t
        BY <1>13, <2>1, <2>2, Frame DEF Finish
    <2>3. CASE u = t
        BY <1>2, <1>13, <2>1, <2>3 DEF Finish, At, Watching
    <2> QED
        BY <2>2, <2>3
<1> QED
    BY <1>1, <1>3, <1>4, <1>5, <1>6, <1>7, <1>8, <1>9, <1>10, <1>11, <1>12, <1>13
    DEF Runs

\* The jobs, the crash and the recovery keep every task consistent.
LEMMA LifeStep ==
    ASSUME Inv, Jobs \/ GateReopens \/ Crash \/ Recover, NEW u \in Tasks
    PROVE  Consistent(u)'
<1> USE DEF Consistent, LiveIsLatest, ReportIsLast, PendingIsFresh, TodoIsFresh,
            WatchedIsLatest, WorkerReadsResult, RecoverIsRunning, Fresh, At
<1>0. Consistent(u)
    BY DEF Inv
<1>1. ASSUME NEW t \in Tasks, NEW a \in Attempts, job[t][a] = "live",
             job' = [job EXCEPT ![t][a] = "done"],
             UNCHANGED <<store, daemon, recover, worker, tick>>,
             \A v \in Tasks : v # t => result'[v] = result[v],
             result'[t] = result[t] \/ result'[t].by = a
      PROVE  Consistent(u)'
    <2>1. /\ \A v \in Tasks : v # t => job'[v] = job[v]
          /\ \A b \in Attempts : b # a => job'[t][b] = job[t][b]
          /\ job'[t][a] # "live"
        BY <1>1 DEF Inv, TypeOK
    <2>2. CASE u # t
        BY <1>1, <2>1, <2>2, Frame
    <2>3. CASE u = t
        <3>1. /\ \A b \in Attempts : job'[t][b] # "live"
              /\ a = store[t].attempts /\ a \in 1..store[t].attempts
            BY <1>0, <1>1, <2>1, <2>3, BoundsAssumption DEF Attempts, BoundsAssumption
        <3>2. result[t].out = "none"
            BY <1>0, <1>1, <2>3
        <3>3. LiveIsLatest(t)' /\ ReportIsLast(t)'
            BY <1>0, <1>1, <2>3, <3>1
        <3>4. store[t].status \notin Pending /\ (t \in tick.todo => store[t].status = "pruned")
            BY <1>0, <1>1, <2>3, <3>1, <3>2 DEF Attempts
        <3>5. WorkerReadsResult(t)'
            BY <1>0, <1>1, <2>3, <3>1, <3>2
        <3> QED
            BY <1>0, <1>1, <2>3, <3>3, <3>4, <3>5
    <2> QED
        BY <2>2, <2>3
<1>2. CASE GateReopens
    BY <1>0, <1>2 DEF GateReopens
<1>3. CASE Crash
    <2>1. /\ tick'.todo = {} /\ recover' = {}
          /\ \A v \in Tasks, b \in Attempts : worker'[v][b].pc = "none"
        BY <1>3 DEF Crash, IdleTick, NoWorker
    <2> QED
        BY <1>0, <1>3, <2>1 DEF Crash, Watching
<1>4. CASE Start
    <2>1. \A b \in Attempts : worker[u][b].pc \notin Watching
        BY <1>0, <1>4 DEF Start
    <2> QED
        BY <1>0, <1>4, <2>1 DEF Start
<1>5. CASE Serve
    BY <1>0, <1>5 DEF Serve
<1>6. ASSUME NEW t \in Tasks, RecoverLost(t) PROVE Consistent(u)'
    <2>1. /\ \A v \in Tasks : v # t => store'[v] = store[v]
          /\ store'[t].attempts = store[t].attempts
          /\ store'[t].status \in {store[t].status, "lost"}
        BY <1>6, GuardedUpdateShape DEF RecoverLost, Statuses, Terminal, Final
    <2>2. CASE u # t
        BY <1>6, <2>1, <2>2, Frame DEF RecoverLost
    <2>3. CASE u = t
        <3>1. daemon = "probing" /\ t \in recover /\ recover' = recover \ {t}
            BY <1>6 DEF RecoverLost, NextToRecover
        <3>2. \A b \in Attempts : worker[t][b].pc \notin Watching
            BY <1>0, <2>3, <3>1
        <3> QED
            BY <1>0, <1>6, <2>1, <2>3, <3>1, <3>2 DEF RecoverLost, Pending, Watching
    <2> QED
        BY <2>2, <2>3
<1>7. ASSUME NEW t \in Tasks, Readopt(t) PROVE Consistent(u)'
    <2> DEFINE a == store[t].attempts
    <2>1. /\ Consistent(t) /\ store[t].status = "running" /\ t \in recover
          /\ daemon \in {"recovering", "probing"} /\ daemon' = "recovering"
          /\ recover' = recover \ {t}
        BY <1>7 DEF Readopt, NextToRecover, Inv
    <2>2. a \in Attempts
        BY <2>1, RecordTypes, BoundsAssumption DEF Inv, TypeOK, Attempts, BoundsAssumption
    <2>3. /\ \A v \in Tasks : v # t => worker'[v] = worker[v]
          /\ \A b \in Attempts : b # a => worker'[t][b] = worker[t][b]
          /\ worker'[t][a].pc = "readopted"
        BY <1>7, <2>2 DEF Readopt, NoWorker, Inv, TypeOK
    <2>4. CASE u # t
        BY <1>7, <2>3, <2>4, Frame DEF Readopt
    <2>5. CASE u = t
        <3>1. WatchedIsLatest(t)'
            BY <1>7, <2>1, <2>3 DEF Readopt
        <3>2. WorkerReadsResult(t)'
            BY <1>7, <2>1, <2>3 DEF Readopt
        <3> QED
            BY <1>7, <2>1, <2>5, <3>1, <3>2 DEF Readopt
    <2> QED
        BY <2>4, <2>5
<1>8. ASSUME NEW t \in Tasks, RecoverLook(t) PROVE Consistent(u)'
    BY <1>8, Frame DEF RecoverLook
<1>9. CASE Jobs
    <2>1. ASSUME NEW t \in Tasks, NEW a \in Attempts, JobDies(t, a) PROVE Consistent(u)'
        BY <1>1, <2>1 DEF JobDies
    <2>2. ASSUME NEW t \in Tasks, NEW a \in Attempts, NEW out \in Outcomes,
                 JobReports(t, a, out)
          PROVE  Consistent(u)'
        <3>1. /\ \A v \in Tasks : v # t => result'[v] = result[v]
              /\ result'[t] = result[t] \/ result'[t].by = a
            BY <2>2 DEF JobReports, Inv, TypeOK
        <3> QED
            BY <1>1, <2>2, <3>1 DEF JobReports
    <2> QED
        BY <1>9, <2>1, <2>2 DEF Jobs
<1> QED
    BY <1>2, <1>3, <1>4, <1>5, <1>6, <1>7, <1>8, <1>9 DEF Recover

\* No cancel is under way while the daemon is not up.
LEMMA CancellingStep ==
    ASSUME Inv, Next
    PROVE  daemon' # "up" => cancelling' = {}
<1>1. CASE Work
    BY <1>1
    DEF Work, Runs, Inv, ExecuteFails, ClearResult, StartFails, StartJob, RecordPGID,
        Await, PollTicks, TeardownStart, TeardownEnd, Timeout, SettleError,
        SettleExhausted, SettleExit, WakeUp, Finish, ReadoptFails, ReadoptRun
<1>2. CASE Tick
    BY <1>2
    DEF Tick, Inv, TickOnTimer, TickOnWake, TickStart, TickFull, TickGated,
        TickNoMemory, TickNoCPU, LaunchRegister, LaunchUpdate, LaunchAbandoned
<1>3. CASE Jobs \/ GateReopens \/ Crash \/ Recover
    BY <1>3
    DEF Inv, Jobs, JobReports, JobDies, GateReopens, Crash, Recover, Start, Serve,
        RecoverLook, Readopt, RecoverLost
<1>4. ASSUME NEW t \in Tasks,
             Submit(t) \/ Prune(t) \/ CancelLookup(t) \/ CancelUpdate(t)
      PROVE  daemon' # "up" => cancelling' = {}
    BY <1>4 DEF Inv, Submit, Prune, CancelLookup, CancelUpdate
<1> QED
    BY <1>1, <1>2, <1>3, <1>4 DEF Next

\* The invariant holds at first.
LEMMA InvInit == Init => Inv
<1> SUFFICES ASSUME Init PROVE Inv
    OBVIOUS
<1>1. NewRecord \in Records /\ 0 \in 0..MaxAttempts /\ 0 \in 0..MaxCrashes
    BY BoundsAssumption
    DEF NewRecord, Records, Statuses, Blockers, BoundsAssumption
<1>2. TypeOK
    BY <1>1, ResetTypes DEF Init, TypeOK
<1>3. ASSUME NEW t \in Tasks PROVE Consistent(t)
    BY DEF Init, Consistent, LiveIsLatest, ReportIsLast, PendingIsFresh, TodoIsFresh,
           WatchedIsLatest, WorkerReadsResult, RecoverIsRunning, Fresh, At, NewRecord,
           NoResult, NoWorker, IdleTick, Pending, Watching
<1> QED
    BY <1>2, <1>3 DEF Inv, Init

\* Every step keeps it.
LEMMA InvStep ==
    ASSUME Inv, [Next]_vars
    PROVE  Inv'
<1>1. CASE Next
    <2>1. TypeOK'
        BY TypeStep DEF Inv, Consistent
    <2>2. ASSUME NEW u \in Tasks PROVE Consistent(u)'
        BY <1>1, CallersStep, TickStep, WorkStep, LifeStep DEF Next
    <2> QED
        BY <1>1, <2>1, <2>2, CancellingStep DEF Inv
<1>2. CASE UNCHANGED vars
    <2>1. ASSUME NEW u \in Tasks PROVE Consistent(u)'
        BY <1>2, Frame DEF vars
    <2>2. TypeOK'
        BY <1>2, TypeStep DEF Inv, Consistent
    <2> QED
        BY <1>2, <2>1, <2>2 DEF Inv, vars
<1> QED
    BY <1>1, <1>2

\* What the record, the result file, the processes and the goroutines of a task
\* say of one another fits together in every reachable state.
THEOREM Invariance == Spec => []Inv
<1>1. Inv /\ [Next]_vars => Inv'
    BY InvStep
<1> QED
    BY <1>1, InvInit, PTL DEF Spec

\* Every variable keeps its type.
THEOREM TypeCorrect == Spec => []TypeOK
<1>1. Inv => TypeOK
    BY DEF Inv
<1> QED
    BY <1>1, Invariance, PTL

\* At most one attempt of a task is alive, through crashes, cancels and retries.
THEOREM OneJob == Spec => []AtMostOneJob
<1>1. Inv => AtMostOneJob
    BY DEF Inv, Consistent, LiveIsLatest, AtMostOneJob
<1> QED
    BY <1>1, Invariance, PTL

-----------------------------------------------------------------------------
(* The history of a record.                                                *)

\* A step starts an attempt of a fresh task, or it leaves the attempts alone
\* and a final outcome too.
LEMMA HistoryStep ==
    ASSUME Inv, Next, NEW u \in Tasks
    PROVE  \/ /\ store'[u].attempts = store[u].attempts
              /\ store[u].status \in Final => store'[u].status \in {store[u].status, "pruned"}
           \/ /\ Fresh(u) /\ store[u].status \notin Final
              /\ \A a \in Attempts : job[u][a] # "live"
<1> DEFINE Keeps == /\ store'[u].attempts = store[u].attempts
                    /\ store[u].status \in Final =>
                          store'[u].status \in {store[u].status, "pruned"}
<1>0. /\ store[u] \in Records /\ store \in [Tasks -> Records] /\ Consistent(u)
      /\ \A t \in Tasks : Consistent(t)
    BY DEF Inv, TypeOK
<1>1. CASE store' = store
    BY <1>1
<1>2. ASSUME NEW t \in Tasks, NEW s \in Statuses, UpdateUnlessTerminal(t, s)
      PROVE  Keeps
    BY <1>2, GuardedUpdateShape DEF Terminal
<1>3. CASE \E t \in Tasks : Submit(t) \/ Prune(t) \/ CancelLookup(t) \/ CancelUpdate(t)
    <2>1. CASE \E t \in Tasks : Submit(t) \/ Prune(t)
        <3>1. PICK t \in Tasks : Submit(t) \/ Prune(t)
            BY <2>1
        <3>2. \A s \in Statuses : [store[t] EXCEPT !.status = s].attempts = store[t].attempts
            BY <1>0 DEF Records
        <3>3. "queued" \in Statuses /\ "pruned" \in Statuses
            BY DEF Statuses, Pending
        <3>4. store'[u] = store[u] \/ (u = t /\ store'[u].attempts = store[u].attempts)
            BY <1>0, <3>1, <3>2, <3>3 DEF Submit, Prune
        <3>5. store[u].status \in Final => store'[u].status \in {store[u].status, "pruned"}
            BY <1>0, <3>1 DEF Submit, Prune, Final, Records
        <3> QED
            BY <3>4, <3>5
    <2>2. CASE \E t \in Tasks : CancelLookup(t) \/ CancelUpdate(t)
        BY <1>1, <1>2, <2>2 DEF CancelLookup, CancelUpdate, Statuses, Terminal
    <2> QED
        BY <1>3, <2>1, <2>2
<1>4. CASE Tick
    <2>1. ASSUME NEW t \in Tasks, NEW on, Block(t, on), t \in tick.todo PROVE Keeps
        <3>1. store[t].status \notin Final
            BY <1>0, <2>1 DEF Consistent, TodoIsFresh, Final, Pending
        <3> QED
            BY <2>1, <3>1, BlockShape
    <2>2. CASE \E t \in Tasks : TickGated(t) \/ TickNoMemory(t) \/ TickNoCPU(t)
        BY <2>1, <2>2 DEF TickGated, TickNoMemory, TickNoCPU, Admissible, Considering
    <2>3. ASSUME NEW t \in Tasks, LaunchUpdate(t)
          PROVE  \/ Keeps
                 \/ /\ Fresh(u) /\ store[u].status \notin Final
                    /\ \A a \in Attempts : job[u][a] # "live"
        <3>1. CASE u # t
            BY <2>3, <3>1 DEF LaunchUpdate
        <3>2. CASE u = t
            <4>1. Fresh(t) /\ store[t].status \notin Final
                BY <1>0, <2>3
                DEF LaunchUpdate, Launching, Exists, Consistent, TodoIsFresh, Pending, Final
            <4> QED
                BY <1>0, <3>2, <4>1
                DEF Fresh, Consistent, LiveIsLatest, ReportIsLast, Attempts
        <3> QED
            BY <3>1, <3>2
    <2> QED
        BY <1>1, <1>4, <2>2, <2>3
        DEF Tick, TickOnTimer, TickOnWake, TickStart, TickFull, LaunchRegister, LaunchAbandoned
<1>5. CASE Work
    <2>1. PICK t \in Tasks, a \in Attempts : Runs(t, a) \/ Timeout(t, a)
        BY <1>5 DEF Work
    <2>2. CASE ExecuteFails(t, a) \/ ReadoptFails(t, a) \/ SettleError(t, a)
        BY <1>2, <2>2 DEF ExecuteFails, ReadoptFails, SettleError, Statuses, Terminal, Final
    <2>3. CASE RecordPGID(t, a) \/ SettleExhausted(t, a) \/ SettleExit(t, a)
        <3>1. PICK r : /\ Update(t, r)
                       /\ r.attempts = store[t].attempts
                       /\ \/ r = store[t]
                          \/ r.status = store[t].status
                          \/ store[t].status \notin Final
            <4>1. RecordPGID(t, a) =>
                    LET r == [store[t] EXCEPT !.pgid = a] IN
                    Update(t, r) /\ r.attempts = store[t].attempts /\ r.status = store[t].status
                BY <1>0 DEF RecordPGID, Records
            <4>2. SettleExhausted(t, a) =>
                    LET r == [store[t] EXCEPT !.status = "blocked", !.on = "claude", !.pgid = 0]
                    IN  Update(t, r) /\ r.attempts = store[t].attempts
                BY <1>0 DEF SettleExhausted, Records
            <4>3. SettleExhausted(t, a) => store[t].status \notin Final
                BY <1>0 DEF SettleExhausted, Consistent, WatchedIsLatest, At, Watching, Final
            <4>4. SettleExit(t, a) =>
                    \/ Update(t, store[t])
                    \/ \E s \in Final :
                         LET r == [store[t] EXCEPT !.status = s, !.pgid = 0]
                         IN  Update(t, r) /\ r.attempts = store[t].attempts
                             /\ store[t].status \notin Final
                BY <1>0 DEF SettleExit, Records, Final, Terminal
            <4> QED
                BY <2>3, <4>1, <4>2, <4>3, <4>4
        <3> QED
            BY <1>0, <3>1 DEF Update
    <2> QED
        BY <1>1, <2>1, <2>2, <2>3
        DEF Runs, ClearResult, StartFails, StartJob, Await, PollTicks, TeardownStart,
            TeardownEnd, Timeout, WakeUp, Finish, ReadoptRun
<1>6. CASE Jobs \/ GateReopens \/ Crash \/ Recover
    BY <1>1, <1>2, <1>6
    DEF Jobs, JobReports, JobDies, GateReopens, Crash, Recover, Start, Serve, RecoverLook,
        Readopt, RecoverLost, Statuses, Terminal, Final
<1> QED
    BY <1>3, <1>4, <1>5, <1>6 DEF Next

\* A restart, a cancel or a lost wake-up never runs a task a second time: only
\* a report that the claude usage ran out does.
THEOREM NeverRerun == Spec => NoRerun
<1>1. Inv /\ [Next]_vars => [StartsOnce]_vars
    BY HistoryStep DEF StartsOnce, Fresh
<1> QED
    BY <1>1, Invariance, PTL DEF Spec, NoRerun

\* A task that succeeded, failed or was lost stays so until it is pruned.
THEOREM FinalForever == Spec => FinalOutcome
<1>1. Inv /\ [Next]_vars => [FinalStays]_vars
    BY HistoryStep DEF FinalStays
<1> QED
    BY <1>1, Invariance, PTL DEF Spec, FinalOutcome
-----------------------------------------------------------------------------
(* The word of the job.                                                    *)

\* A step by which a record comes to say succeeded, or goes on saying it, leaves the
\* task's result file alone; it comes to say so from a file that says "ok".
LEMMA SuccessStep ==
    ASSUME Inv, Next, NEW u \in Tasks, store'[u].status = "succeeded",
           store[u].status = "succeeded" => result[u].out = "ok"
    PROVE  /\ result'[u] = result[u]
           /\ \/ store[u].status = "succeeded"
              \/ result[u].out = "ok" /\ store'[u].attempts = store[u].attempts
<1>0. /\ store \in [Tasks -> Records] /\ result \in [Tasks -> Results]
      /\ \A t \in Tasks : Consistent(t) /\ store[t] \in Records
    BY DEF Inv, TypeOK
<1>1. CASE store'[u] = store[u] /\ result'[u] = result[u]
    BY <1>1
<1>2. ASSUME NEW t \in Tasks, NEW s \in Statuses \ {"succeeded"},
             UpdateUnlessTerminal(t, s), result' = result
      PROVE  /\ result'[u] = result[u]
             /\ store[u].status = "succeeded"
    BY <1>2, GuardedUpdateShape
<1>3. CASE \E t \in Tasks : Submit(t) \/ Prune(t) \/ CancelLookup(t) \/ CancelUpdate(t)
    <2>1. CASE \E t \in Tasks : Submit(t) \/ Prune(t)
        <3>1. PICK t \in Tasks : Submit(t) \/ Prune(t)
            BY <2>1
        <3>2. /\ [store[t] EXCEPT !.status = "queued"].status = "queued"
              /\ [store[t] EXCEPT !.status = "pruned"].status = "pruned"
            BY <1>0 DEF Records
        <3>3. u # t
            BY <1>0, <3>1, <3>2 DEF Submit, Prune
        <3> QED
            BY <1>0, <1>1, <3>1, <3>3 DEF Submit, Prune
    <2>2. CASE \E t \in Tasks : CancelLookup(t) \/ CancelUpdate(t)
        BY <1>1, <1>2, <2>2 DEF CancelLookup, CancelUpdate, Statuses, Terminal
    <2> QED
        BY <1>3, <2>1, <2>2
<1>4. CASE Tick
    <2>1. ASSUME NEW t \in Tasks, NEW on, Block(t, on), t \in tick.todo, result' = result
          PROVE  store[u].status = "succeeded" /\ result'[u] = result[u]
        BY <2>1, BlockShape
    <2>2. CASE \E t \in Tasks : TickGated(t) \/ TickNoMemory(t) \/ TickNoCPU(t)
        BY <2>1, <2>2 DEF TickGated, TickNoMemory, TickNoCPU, Admissible, Considering
    <2>3. ASSUME NEW t \in Tasks, LaunchUpdate(t)
          PROVE  store'[u] = store[u] /\ result'[u] = result[u]
        <3>1. [store[t] EXCEPT !.status = "running", !.on = "nothing",
                               !.attempts = store[t].attempts + 1].status = "running"
            BY <1>0 DEF Records
        <3>2. u # t
            BY <1>0, <2>3, <3>1 DEF LaunchUpdate
        <3> QED
            BY <1>0, <2>3, <3>2 DEF LaunchUpdate
    <2> QED
        BY <1>1, <1>4, <2>2, <2>3
        DEF Tick, TickOnTimer, TickOnWake, TickStart, TickFull, LaunchRegister, LaunchAbandoned
<1>5. CASE Work
    <2>1. PICK t \in Tasks, a \in Attempts : Runs(t, a) \/ Timeout(t, a)
        BY <1>5 DEF Work
    <2>2. CASE ExecuteFails(t, a) \/ ReadoptFails(t, a) \/ SettleError(t, a)
        BY <1>2, <2>2 DEF ExecuteFails, ReadoptFails, SettleError, Statuses, Terminal, Final
    <2>3. CASE RecordPGID(t, a)
        <3>1. [store[t] EXCEPT !.pgid = a].status = store[t].status
            BY <1>0 DEF Records
        <3> QED
            BY <1>0, <2>3, <3>1 DEF RecordPGID, Update
    <2>4. CASE SettleExhausted(t, a)
        <3>1. [store[t] EXCEPT !.status = "blocked", !.on = "claude", !.pgid = 0].status
                  = "blocked"
            BY <1>0 DEF Records
        <3> QED
            BY <1>0, <2>4, <3>1 DEF SettleExhausted, Update
    <2>5. CASE SettleExit(t, a)
        <3>1. \A s : /\ [store[t] EXCEPT !.status = s, !.pgid = 0].status = s
                     /\ [store[t] EXCEPT !.status = s, !.pgid = 0].attempts = store[t].attempts
            BY <1>0 DEF Records
        <3>2. CASE store'[u] # store[u]
            <4> DEFINE s == IF worker[t][a].out = "ok" THEN "succeeded" ELSE "failed"
                       final == [store[t] EXCEPT !.status = s, !.pgid = 0]
            <4>1. final.status = s /\ final.attempts = store[t].attempts
                BY <3>1
            <4>2. store[t].status \in Terminal => store' = store
                BY <1>0, <2>5 DEF SettleExit, Update
            <4>3. Update(t, final)
                BY <2>5, <3>2, <4>2 DEF SettleExit
            <4> HIDE DEF final
            <4>4. u = t /\ Exists(t) /\ store'[u] = final
                BY <1>0, <3>2, <4>3 DEF Update
            <4>5. /\ u = t /\ worker[t][a].out = "ok" /\ Exists(t)
                  /\ store'[u].attempts = store[u].attempts
                BY <4>1, <4>4
            <4>6. worker[t][a].out \in {"err", result[t].out}
                BY <1>0, <2>5, <4>5
                DEF SettleExit, Consistent, WorkerReadsResult, Exists
            <4> QED
                BY <2>5, <4>5, <4>6 DEF SettleExit
        <3> QED
            BY <1>1, <2>5, <3>2 DEF SettleExit
    <2>6. CASE ClearResult(t, a)
        <3>1. store[t].status \in {"running", "cancelled", "pruned"}
            BY <1>0, <2>6 DEF ClearResult, Consistent, WatchedIsLatest, At, Watching
        <3> QED
            BY <1>0, <1>1, <2>6, <3>1 DEF ClearResult
    <2> QED
        BY <1>1, <2>1, <2>2, <2>3, <2>4, <2>5, <2>6
        DEF Runs, StartFails, StartJob, Await, PollTicks, TeardownStart,
            TeardownEnd, Timeout, WakeUp, Finish, ReadoptRun
<1>6. CASE Jobs
    <2>1. CASE result' = result
        BY <1>1, <1>6, <2>1 DEF Jobs, JobReports, JobDies
    <2>2. CASE result' # result
        <3>1. PICK t \in Tasks, a \in Attempts, out \in Outcomes : JobReports(t, a, out)
            BY <1>6, <2>2 DEF Jobs, JobDies
        <3>2. CASE u # t
            BY <1>0, <1>1, <3>1, <3>2 DEF JobReports
        <3>3. CASE u = t
            <4>1. store[u].status = "succeeded" /\ job[u][a] = "live"
                BY <3>1, <3>3 DEF JobReports
            <4> QED
                BY <1>0, <4>1 DEF Consistent, ReportIsLast
        <3> QED
            BY <3>2, <3>3
    <2> QED
        BY <2>1, <2>2
<1>7. CASE GateReopens \/ Crash \/ Recover
    BY <1>1, <1>2, <1>7
    DEF GateReopens, Crash, Recover, Start, Serve, RecoverLook,
        Readopt, RecoverLost, Statuses, Terminal, Final
<1> QED
    BY <1>3, <1>4, <1>5, <1>6, <1>7 DEF Next


\* A task is recorded as succeeded on the word of its last attempt's job, whoever
\* reads that word: the daemon that started the job or one that adopted it (settle).
THEOREM SuccessIsEarned == Spec => []SucceededByItsJob
<1>1. Init => SucceededByItsJob
    BY DEF Init, NewRecord, SucceededByItsJob
<1>2. ASSUME Inv, SucceededByItsJob, [Next]_vars
      PROVE  SucceededByItsJob'
    <2>1. CASE UNCHANGED vars
        BY <1>2, <2>1 DEF vars, SucceededByItsJob
    <2>2. ASSUME Next, NEW u \in Tasks, store'[u].status = "succeeded"
          PROVE  result'[u] = [out |-> "ok", by |-> store'[u].attempts]
        <3>1. store[u].status = "succeeded" =>
                  result[u] = [out |-> "ok", by |-> store[u].attempts]
            BY <1>2 DEF SucceededByItsJob
        <3>2. /\ result'[u] = result[u]
              /\ \/ store[u].status = "succeeded"
                 \/ result[u].out = "ok" /\ store'[u].attempts = store[u].attempts
            BY <1>2, <2>2, <3>1, SuccessStep
        <3>3. CASE store[u].status = "succeeded"
            <4>1. store'[u].attempts = store[u].attempts
                BY <1>2, <2>2, <3>3, HistoryStep DEF Final
            <4> QED
                BY <3>1, <3>2, <3>3, <4>1
        <3>4. CASE result[u].out = "ok" /\ store'[u].attempts = store[u].attempts
            <4>1. ReportIsLast(u) /\ result[u] \in Results
                BY <1>2 DEF Inv, Consistent, TypeOK
            <4>2. result[u].by = store[u].attempts
                BY <3>4, <4>1 DEF ReportIsLast
            <4> QED
                BY <3>2, <3>4, <4>1, <4>2 DEF Results
        <3> QED
            BY <3>2, <3>3, <3>4
    <2> QED
        BY <1>2, <2>1, <2>2 DEF SucceededByItsJob
<1> QED
    BY <1>1, <1>2, Invariance, PTL DEF Spec

-----------------------------------------------------------------------------
(* Who looks after a running task.                                         *)

\* One task of RunningIsSupervised.
Supervised(t) ==
    daemon # "down" /\ t \notin recover /\ store[t].status = "running" =>
        /\ store[t].attempts # 0
        /\ worker[t][store[t].attempts].pc \in Watching

\* A guarded update that reaches the disk leaves no task running.
LEMMA StopsRunning ==
    ASSUME Inv, ~FaultyDisk, NEW t \in Tasks, NEW s \in Statuses \ {"running"},
           UpdateUnlessTerminal(t, s)
    PROVE  /\ \A v \in Tasks : v # t => store'[v] = store[v]
           /\ store'[t].attempts = store[t].attempts
           /\ store'[t].status # "running"
<1>1. store[t] \in Records /\ store \in [Tasks -> Records]
    BY DEF Inv, TypeOK
<1>2. [store[t] EXCEPT !.status = s].status = s
    BY <1>1 DEF Records
<1>3. CASE store[t].status \in Terminal \cup {"none", "pruned"}
    BY <1>3, GuardedUpdateShape DEF Terminal, Final
<1>4. CASE store[t].status \notin Terminal \cup {"none", "pruned"}
    BY <1>1, <1>2, <1>4, GuardedUpdateShape DEF UpdateUnlessTerminal, Update, Exists
<1> QED
    BY <1>3, <1>4

\* What a worker does to its task while its latest attempt is watched.
LEMMA WorkShape ==
    ASSUME Inv, ~FaultyDisk, NEW t \in Tasks, NEW a \in Attempts, Runs(t, a) \/ Timeout(t, a)
    PROVE  /\ \A v \in Tasks : v # t => store'[v] = store[v] /\ worker'[v] = worker[v]
           /\ \A b \in Attempts : b # a => worker'[t][b] = worker[t][b]
           /\ store'[t].attempts = store[t].attempts
           /\ \/ /\ store'[t].status = store[t].status
                 /\ worker[t][a].pc \in Watching => worker'[t][a].pc \in Watching
              \/ store'[t].status # "running"
           /\ store'[t].status = "running" => store[t].status = "running"
           /\ UNCHANGED <<daemon, recover, tick>>
<1>0. /\ store[t] \in Records /\ store \in [Tasks -> Records]
      /\ worker \in [Tasks -> [Attempts -> Workers]] /\ worker[t][a] \in Workers
    BY DEF Inv, TypeOK
<1>1. ASSUME NEW pc, Goto(t, a, pc)
      PROVE  /\ \A v \in Tasks : v # t => worker'[v] = worker[v]
             /\ \A b \in Attempts : b # a => worker'[t][b] = worker[t][b]
             /\ worker'[t][a].pc = pc
    BY <1>0, <1>1 DEF Goto, Workers
<1>2. ASSUME NEW out, Ended(t, a, out)
      PROVE  /\ \A v \in Tasks : v # t => worker'[v] = worker[v]
             /\ \A b \in Attempts : b # a => worker'[t][b] = worker[t][b]
             /\ worker'[t][a].pc \in Watching
    BY <1>0, <1>2 DEF Ended, Workers, Watching
<1>3. CASE ExecuteFails(t, a) \/ ReadoptFails(t, a) \/ SettleError(t, a)
    <2>1. PICK s \in Statuses \ {"running"} : UpdateUnlessTerminal(t, s)
        BY <1>3 DEF ExecuteFails, ReadoptFails, SettleError, Statuses, Terminal, Final
    <2> QED
        BY <1>1, <1>3, <2>1, StopsRunning DEF ExecuteFails, ReadoptFails, SettleError
<1>4. CASE RecordPGID(t, a)
    <2>1. /\ [store[t] EXCEPT !.pgid = a].status = store[t].status
          /\ [store[t] EXCEPT !.pgid = a].attempts = store[t].attempts
        BY <1>0 DEF Records
    <2>2. /\ [worker[t][a] EXCEPT !.pc = "awaiting", !.pg = a].pc = "awaiting"
        BY <1>0 DEF Workers
    <2> QED
        BY <1>0, <1>4, <2>1, <2>2 DEF RecordPGID, Update, Watching
<1>5. CASE SettleExhausted(t, a)
    <2>1. /\ [store[t] EXCEPT !.status = "blocked", !.on = "claude", !.pgid = 0].status
                = "blocked"
          /\ [store[t] EXCEPT !.status = "blocked", !.on = "claude", !.pgid = 0].attempts
                = store[t].attempts
        BY <1>0 DEF Records
    <2>2. /\ \A v \in Tasks : v # t => store'[v] = store[v]
          /\ store'[t].attempts = store[t].attempts
          /\ store'[t].status # "running"
        BY <1>0, <1>5, <2>1 DEF SettleExhausted, Update, Exists
    <2> QED
        BY <1>1, <1>5, <2>2 DEF SettleExhausted
<1>6. CASE SettleExit(t, a)
    <2> DEFINE s == IF worker[t][a].out = "ok" THEN "succeeded" ELSE "failed"
               final == [store[t] EXCEPT !.status = s, !.pgid = 0]
    <2>1. final.status = s /\ final.attempts = store[t].attempts
        BY <1>0 DEF Records
    <2>2. CASE store[t].status \in Terminal
        <3>1. store' = store
            BY <1>0, <1>6, <2>2 DEF SettleExit, Update
        <3> QED
            BY <1>1, <1>6, <2>2, <3>1 DEF SettleExit, Terminal, Final
    <2>3. CASE store[t].status \notin Terminal
        <3>1. Update(t, final)
            BY <1>6, <2>3 DEF SettleExit
        <3> HIDE DEF final
        <3>2. /\ \A v \in Tasks : v # t => store'[v] = store[v]
              /\ store'[t].attempts = store[t].attempts
              /\ store'[t].status # "running"
            BY <1>0, <2>1, <3>1 DEF Update, Exists
        <3> QED
            BY <1>1, <1>6, <3>2 DEF SettleExit
    <2> QED
        BY <2>2, <2>3
<1>7. CASE \/ ClearResult(t, a) \/ StartJob(t, a) \/ ReadoptRun(t, a) \/ PollTicks(t, a)
    <2>1. PICK pc \in Watching : Goto(t, a, pc)
        BY <1>7 DEF ClearResult, StartJob, ReadoptRun, PollTicks, Watching
    <2> QED
        BY <1>1, <1>7, <2>1 DEF ClearResult, StartJob, ReadoptRun, PollTicks
<1>8. CASE StartFails(t, a) \/ TeardownEnd(t, a)
    <2>1. Ended(t, a, "err")
        BY <1>8 DEF StartFails, TeardownEnd
    <2> QED
        BY <1>2, <1>8, <2>1 DEF StartFails, TeardownEnd
<1>9. CASE Await(t, a) \/ TeardownStart(t, a)
    <2>1. \/ \E pc \in Watching : Goto(t, a, pc)
          \/ \E out : Ended(t, a, out)
        BY <1>9 DEF Await, TeardownStart, Watching
    <2>2. UNCHANGED <<store, daemon, recover, tick>>
        BY <1>9 DEF Await, TeardownStart
    <2>3. CASE \E pc \in Watching : Goto(t, a, pc)
        BY <1>1, <2>2, <2>3
    <2>4. CASE \E out : Ended(t, a, out)
        BY <1>2, <2>2, <2>4
    <2> QED
        BY <2>1, <2>3, <2>4
<1>10. CASE Timeout(t, a)
    <2>1. [worker[t][a] EXCEPT !.over = TRUE].pc = worker[t][a].pc
        BY <1>0 DEF Workers
    <2> QED
        BY <1>0, <1>10, <2>1 DEF Timeout
<1>11. CASE WakeUp(t, a)
    BY <1>1, <1>11 DEF WakeUp, At, Watching
<1>12. CASE Finish(t, a)
    BY <1>0, <1>12 DEF Finish, At, Watching
<1> QED
    BY <1>3, <1>4, <1>5, <1>6, <1>7, <1>8, <1>9, <1>10, <1>11, <1>12 DEF Runs

\* Every step leaves a running task with the goroutine that looks after it.
LEMMA SupervisedStep ==
    ASSUME Inv, ~FaultyDisk, Next, NEW u \in Tasks, Supervised(u)
    PROVE  Supervised(u)'
<1>0. /\ store[u] \in Records /\ store \in [Tasks -> Records]
      /\ worker \in [Tasks -> [Attempts -> Workers]]
      /\ \A t \in Tasks : Consistent(t) /\ store[t] \in Records
    BY DEF Inv, TypeOK
<1>1. CASE \E t \in Tasks : Submit(t) \/ Prune(t)
    <2>1. PICK t \in Tasks : Submit(t) \/ Prune(t)
        BY <1>1
    <2>2. /\ [store[t] EXCEPT !.status = "queued"].status = "queued"
          /\ [store[t] EXCEPT !.status = "pruned"].status = "pruned"
        BY <1>0 DEF Records
    <2>3. /\ store'[u].status = "running" => store'[u] = store[u]
          /\ UNCHANGED <<worker, daemon, recover>>
        BY <1>0, <2>1, <2>2 DEF Submit, Prune
    <2> QED
        BY <2>3 DEF Supervised
<1>2. CASE \E t \in Tasks : CancelLookup(t)
    <2>1. PICK t \in Tasks : CancelLookup(t)
        BY <1>2
    <2>2. \A v \in Tasks, b \in Attempts : [worker[v][b] EXCEPT !.over = TRUE].pc = worker[v][b].pc
        BY <1>0 DEF Workers
    <2>3. \A b \in Attempts : worker'[u][b].pc = worker[u][b].pc
        BY <1>0, <2>1, <2>2 DEF CancelLookup
    <2>4. store[u].attempts # 0 => store[u].attempts \in Attempts
        BY <1>0, BoundsAssumption DEF Records, Attempts
    <2> QED
        BY <2>1, <2>3, <2>4 DEF CancelLookup, Supervised
<1>3. CASE \E t \in Tasks : CancelUpdate(t)
    <2>1. PICK t \in Tasks : CancelUpdate(t)
        BY <1>3
    <2>2. store'[u].status = "running" => store'[u] = store[u]
        BY <2>1, StopsRunning DEF CancelUpdate, Statuses, Terminal
    <2> QED
        BY <2>1, <2>2 DEF CancelUpdate, Supervised
<1>4. CASE Tick
    <2>1. ASSUME NEW t \in Tasks, NEW on, Block(t, on), UNCHANGED <<worker, daemon, recover>>
          PROVE  Supervised(u)'
        <3>1. [store[t] EXCEPT !.status = "blocked", !.on = on].status = "blocked"
            BY <1>0 DEF Records
        <3>2. store'[u].status = "running" => store'[u] = store[u]
            BY <1>0, <2>1, <3>1 DEF Block, Update
        <3> QED
            BY <2>1, <3>2 DEF Supervised
    <2>2. CASE \E t \in Tasks : TickGated(t) \/ TickNoMemory(t) \/ TickNoCPU(t)
        BY <2>1, <2>2 DEF TickGated, TickNoMemory, TickNoCPU
    <2>3. ASSUME NEW t \in Tasks, LaunchRegister(t) \/ LaunchAbandoned(t)
          PROVE  Supervised(u)'
        <3>1. \A b \in Attempts : b # store[t].attempts + 1 => worker'[t][b] = worker[t][b]
            BY <1>0, <2>3 DEF LaunchRegister, LaunchAbandoned
        <3>2. \A v \in Tasks : v # t => worker'[v] = worker[v]
            BY <1>0, <2>3 DEF LaunchRegister, LaunchAbandoned
        <3>3. store[u].attempts # 0 =>
                  worker'[u][store[u].attempts] = worker[u][store[u].attempts]
            <4>1. /\ store[u].attempts # 0 => store[u].attempts \in Attempts
                  /\ store[u].attempts # store[u].attempts + 1
                BY <1>0, BoundsAssumption DEF Records, Attempts
            <4> QED
                BY <3>1, <3>2, <4>1
        <3> QED
            BY <2>3, <3>3 DEF LaunchRegister, LaunchAbandoned, Supervised
    <2>4. ASSUME NEW t \in Tasks, LaunchUpdate(t)
          PROVE  Supervised(u)'
        <3>1. CASE u # t
            BY <1>0, <2>4, <3>1 DEF LaunchUpdate, Supervised
        <3>2. CASE u = t
            <4> DEFINE a == store[t].attempts + 1
            <4>1. a \in Attempts /\ a # 0
                <5>1. TodoIsFresh(t) /\ t \in tick.todo
                    BY <1>0, <2>4 DEF LaunchUpdate, Launching, Consistent
                <5> QED
                    BY <1>0, <3>2, <5>1, BoundsAssumption DEF TodoIsFresh, Records, Attempts
            <4>2. store'[t].attempts = a
                BY <1>0, <2>4, <3>2 DEF LaunchUpdate, Records
            <4>3. [worker[t][a] EXCEPT !.pc = "launched"].pc = "launched"
                BY <1>0, <4>1 DEF Workers
            <4>4. worker'[t][a].pc = "launched"
                BY <1>0, <2>4, <4>1, <4>3 DEF LaunchUpdate
            <4> QED
                BY <3>2, <4>1, <4>2, <4>4 DEF Supervised, Watching
        <3> QED
            BY <3>1, <3>2
    <2>5. CASE \/ \E free \in Probes : TickOnTimer(free) \/ TickOnWake(free)
               \/ \E t \in Tasks : TickFull(t)
        BY <2>5 DEF TickOnTimer, TickOnWake, TickStart, TickFull, Supervised
    <2> QED
        BY <1>4, <2>2, <2>3, <2>4, <2>5 DEF Tick
<1>5. CASE Work
    <2>1. PICK t \in Tasks, a \in Attempts : Runs(t, a) \/ Timeout(t, a)
        BY <1>5 DEF Work
    <2>2. CASE u # t
        BY <2>1, <2>2, WorkShape DEF Supervised
    <2>3. CASE u = t
        <3>1. store[t].attempts # 0 => store[t].attempts \in Attempts
            BY <1>0, BoundsAssumption DEF Records, Attempts
        <3>2. /\ store'[t].status = "running" =>
                     /\ store[t].status = "running" /\ store'[t].attempts = store[t].attempts
                     /\ store[t].attempts # 0 /\ worker[t][store[t].attempts].pc \in Watching =>
                            worker'[t][store[t].attempts].pc \in Watching
              /\ UNCHANGED <<daemon, recover>>
            BY <2>1, <3>1, WorkShape
        <3> QED
            BY <2>3, <3>2 DEF Supervised
    <2> QED
        BY <2>2, <2>3
<1>6. CASE Jobs \/ GateReopens \/ Crash \/ Start \/ Serve \/ \E t \in Tasks : RecoverLook(t)
    BY <1>6 DEF Jobs, JobReports, JobDies, GateReopens, Crash, Start, Serve, RecoverLook, Supervised
<1>7. ASSUME NEW t \in Tasks, RecoverLost(t) PROVE Supervised(u)'
    <2>1. /\ \A v \in Tasks : v # t => store'[v] = store[v]
          /\ store'[t].status # "running"
        BY <1>7, StopsRunning DEF RecoverLost, Statuses, Terminal, Final
    <2> QED
        BY <1>7, <2>1 DEF RecoverLost, Supervised
<1>8. ASSUME NEW t \in Tasks, Readopt(t) PROVE Supervised(u)'
    <2> DEFINE a == store[t].attempts
    <2>1. t \in recover /\ store[t].status = "running" /\ daemon # "down"
        BY <1>0, <1>8 DEF Readopt, NextToRecover, Consistent, RecoverIsRunning
    <2>2. a \in Attempts /\ a # 0
        BY <1>0, <2>1, BoundsAssumption DEF Consistent, PendingIsFresh, Records, Attempts
    <2>3. CASE u # t
        <3>1. worker'[u] = worker[u]
            BY <1>0, <1>8, <2>3 DEF Readopt
        <3> QED
            BY <1>8, <2>1, <2>3, <3>1 DEF Readopt, Supervised
    <2>4. CASE u = t
        <3>1. worker'[t][a].pc = "readopted"
            BY <1>0, <1>8, <2>2 DEF Readopt, NoWorker
        <3> QED
            BY <1>8, <2>2, <2>4, <3>1 DEF Readopt, Supervised, Watching
    <2> QED
        BY <2>3, <2>4
<1> QED
    BY <1>1, <1>2, <1>3, <1>4, <1>5, <1>6, <1>7, <1>8 DEF Next, Recover

\* Where writes reach the disk, whatever the records call running has the goroutine
\* of its last attempt, across crashes and re-adoption (launch, Recover, settle).
LEMMA SupervisionHolds == ~FaultyDisk => (Spec => []\A t \in Tasks : Supervised(t))
<1> SUFFICES ASSUME ~FaultyDisk PROVE Spec => []\A t \in Tasks : Supervised(t)
    OBVIOUS
<1>1. Init => \A t \in Tasks : Supervised(t)
    BY DEF Init, Supervised
<1>2. Inv /\ (\A t \in Tasks : Supervised(t)) /\ [Next]_vars
          => (\A t \in Tasks : Supervised(t))'
    <2> SUFFICES ASSUME Inv, \A t \in Tasks : Supervised(t), [Next]_vars
                 PROVE  (\A t \in Tasks : Supervised(t))'
        OBVIOUS
    <2>1. CASE UNCHANGED vars
        BY <2>1 DEF vars, Supervised
    <2> QED
        BY <2>1, SupervisedStep
<1> QED
    BY <1>1, <1>2, Invariance, PTL DEF Spec

\* A task the records call running is looked after, if its record can be written.
THEOREM RunningIsLookedAfter == Spec => []RunningIsSupervised
<1>1. CASE FaultyDisk
    <2>1. RunningIsSupervised
        BY <1>1 DEF RunningIsSupervised
    <2> QED
        BY <2>1, PTL
<1>2. CASE ~FaultyDisk
    <2>1. (\A t \in Tasks : Supervised(t)) => RunningIsSupervised
        BY DEF Supervised, RunningIsSupervised
    <2> QED
        BY <1>2, <2>1, SupervisionHolds, PTL
<1> QED
    BY <1>1, <1>2

-----------------------------------------------------------------------------
(* Who is not overtaken.                                                   *)

\* A set of tasks that is not empty has an oldest one.
LEMMA OldestIsFirst ==
    ASSUME NEW S \in SUBSET Tasks, S # {}
    PROVE  Oldest(S) \in S /\ \A u \in S : Oldest(S) <= u
<1>1. S \subseteq Nat
    BY TasksAssumption
<1>2. PICK t \in S : \A u \in S : <<u, t>> \notin OpToRel(<, Nat)
    BY <1>1, NatLessThanWellFounded, WFMin
<1>3. ASSUME NEW u \in S PROVE t <= u
    <2>1. <<u, t>> \in Nat \X Nat /\ <<u, t>>[1] = u /\ <<u, t>>[2] = t
        BY <1>1
    <2>2. ~(u < t)
        BY <1>2, <2>1, Zenon DEF OpToRel
    <2> QED
        BY <1>1, <2>2
<1> QED
    BY <1>3 DEF Oldest

\* Nobody is held back for memory or cores behind the back of a tick: it has every
\* such task before it, and it remembers what each pending one was blocked on.
HeldBack(t) ==
    /\ store[t].status = "blocked" /\ store[t].on \in {"memory", "slots"}
    /\ store[t].attempts < MaxAttempts

OrderInv ==
    /\ tick.todo # {} => \A t \in Tasks : HeldBack(t) => t \in tick.todo
    /\ \A t \in tick.todo : store[t].status \in Pending => tick.seen[t] = store[t].on

\* A step that is not the tick's own, or that ends it.
LEMMA OrderKept ==
    ASSUME Inv, OrderInv,
           tick'.todo = {} \/ tick' = tick,
           \A t \in Tasks :
               \/ store'[t].status \notin Pending
               \/ /\ store'[t].status = store[t].status /\ store'[t].on = store[t].on
                  /\ store'[t].attempts = store[t].attempts
               \/ t \notin tick.todo /\ store'[t].on \notin {"memory", "slots"}
               \/ t \notin tick.todo /\ store'[t].status = "queued"
    PROVE  OrderInv'
<1>1. tick.todo \subseteq Tasks
    BY DEF Inv, TypeOK, Ticks
<1>2. ASSUME NEW t \in Tasks, HeldBack(t)' PROVE HeldBack(t)
    BY <1>2 DEF HeldBack, Pending
<1> QED
    BY <1>1, <1>2 DEF OrderInv

\* The tick goes on to its next task and leaves this one not held back.
LEMMA OrderAdvanced ==
    ASSUME Inv, OrderInv, NEW t \in Tasks, NEW S, Advance(t, S),
           \A v \in Tasks : v # t => store'[v] = store[v],
           ~HeldBack(t)'
    PROVE  OrderInv'
<1>1. tick \in Ticks /\ tick.todo \subseteq Tasks
    BY DEF Inv, TypeOK, Ticks
<1>2. CASE tick.todo = {t}
    BY <1>2 DEF Advance, IdleTick, OrderInv
<1>3. CASE tick.todo # {t}
    <2>1. /\ tick'.todo = tick.todo \ {t}
          /\ \A v \in Tasks : v # t => tick'.seen[v] = tick.seen[v]
        BY <1>1, <1>3 DEF Advance, Ticks
    <2>2. \A v \in Tasks : v # t => (HeldBack(v)' => HeldBack(v))
        BY DEF HeldBack
    <2> QED
        BY <1>1, <2>1, <2>2 DEF OrderInv
<1> QED
    BY <1>2, <1>3

\* The tick's own steps.
LEMMA OrderTick ==
    ASSUME Inv, OrderInv, ~FaultyDisk, Tick
    PROVE  OrderInv'
<1>0. /\ store \in [Tasks -> Records] /\ \A t \in Tasks : store[t] \in Records
      /\ tick \in Ticks /\ tick.todo \subseteq Tasks
    BY DEF Inv, TypeOK, Ticks
<1>1. ASSUME NEW free \in Probes, TickStart(free) PROVE OrderInv'
    <2>1. CASE Snapshot = {}
        BY <1>1, <2>1 DEF TickStart, IdleTick, OrderInv
    <2>2. CASE Snapshot # {}
        <3>1. /\ tick'.todo = Snapshot /\ store' = store
              /\ \A t \in Snapshot : tick'.seen[t] = store[t].on
            BY <1>1, <2>2 DEF TickStart, Snapshot
        <3>2. \A t \in Tasks : HeldBack(t)' => t \in Snapshot
            BY <3>1 DEF HeldBack, Snapshot, Pending
        <3> QED
            BY <3>1, <3>2 DEF OrderInv
    <2> QED
        BY <2>1, <2>2
<1>2. ASSUME NEW t \in Tasks, TickFull(t) \/ TickNoMemory(t) \/ TickNoCPU(t)
      PROVE  OrderInv'
    BY <1>2 DEF TickFull, TickNoMemory, TickNoCPU, IdleTick, OrderInv
<1>3. ASSUME NEW t \in Tasks, TickGated(t) PROVE OrderInv'
    <2> DEFINE r == [store[t] EXCEPT !.status = "blocked", !.on = "claude"]
    <2>1. r.status = "blocked" /\ r.on = "claude"
        BY <1>0 DEF Records
    <2>2. t \in tick.todo /\ Block(t, "claude")
        BY <1>3 DEF TickGated, Considering
    <2>3. CASE tick.seen[t] = "claude"
        <3>1. store' = store
            BY <2>2, <2>3 DEF Block
        <3>2. ~HeldBack(t)'
            BY <2>2, <2>3, <3>1 DEF HeldBack, OrderInv, Pending
        <3> QED
            BY <1>3, <3>1, <3>2, OrderAdvanced DEF TickGated
    <2>4. CASE tick.seen[t] # "claude"
        <3>1. Update(t, r)
            BY <2>2, <2>4 DEF Block
        <3> HIDE DEF r
        <3>2. /\ \A v \in Tasks : v # t => store'[v] = store[v]
              /\ ~HeldBack(t)'
            BY <1>0, <2>1, <3>1 DEF Update, HeldBack, Exists
        <3> QED
            BY <1>3, <3>2, OrderAdvanced DEF TickGated
    <2> QED
        BY <2>3, <2>4
<1>4. ASSUME NEW t \in Tasks, LaunchRegister(t) PROVE OrderInv'
    <2>1. tick'.todo = tick.todo /\ tick'.seen = tick.seen /\ store' = store
        BY <1>0, <1>4 DEF LaunchRegister, Ticks
    <2> QED
        BY <2>1 DEF OrderInv, HeldBack
<1>5. ASSUME NEW t \in Tasks, LaunchUpdate(t) PROVE OrderInv'
    <2>1. [store[t] EXCEPT !.status = "running", !.on = "nothing",
                           !.attempts = store[t].attempts + 1].status = "running"
        BY <1>0 DEF Records
    <2>2. /\ \A v \in Tasks : v # t => store'[v] = store[v]
          /\ ~HeldBack(t)'
        BY <1>0, <1>5, <2>1 DEF LaunchUpdate, HeldBack
    <2> QED
        BY <1>5, <2>2, OrderAdvanced DEF LaunchUpdate
<1>6. ASSUME NEW t \in Tasks, LaunchAbandoned(t) PROVE OrderInv'
    BY <1>6, OrderAdvanced DEF LaunchAbandoned, HeldBack, Exists
<1> QED
    BY <1>1, <1>2, <1>3, <1>4, <1>5, <1>6 DEF Tick, TickOnTimer, TickOnWake

\* What a worker leaves in its task's record: what was there, a final status, or
\* that the task waits for claude again; and a task it settles is in no tick.
LEMMA WorkLeaves ==
    ASSUME Inv, NEW t \in Tasks, NEW a \in Attempts, Runs(t, a) \/ Timeout(t, a)
    PROVE  /\ \A v \in Tasks : v # t => store'[v] = store[v]
           /\ \/ /\ store'[t].status = store[t].status /\ store'[t].on = store[t].on
                 /\ store'[t].attempts = store[t].attempts
              \/ store'[t].status \notin Pending
              \/ t \notin tick.todo /\ store'[t].on = "claude"
           /\ store'[t].status = "running" => store[t].status = "running"
           /\ UNCHANGED <<daemon, recover, tick>>
<1>0. /\ store[t] \in Records /\ store \in [Tasks -> Records] /\ Consistent(t)
    BY DEF Inv, TypeOK
<1>1. CASE ExecuteFails(t, a) \/ ReadoptFails(t, a) \/ SettleError(t, a)
    <2>1. PICK s \in Final : UpdateUnlessTerminal(t, s)
        BY <1>1 DEF ExecuteFails, ReadoptFails, SettleError, Final
    <2>2. s \in Statuses /\ s \notin Pending /\ s # "running"
        BY DEF Final, Statuses, Terminal, Pending
    <2> QED
        BY <1>1, <2>1, <2>2, GuardedUpdateShape DEF ExecuteFails, ReadoptFails, SettleError
<1>2. CASE RecordPGID(t, a)
    <2>1. /\ [store[t] EXCEPT !.pgid = a].status = store[t].status
          /\ [store[t] EXCEPT !.pgid = a].on = store[t].on
          /\ [store[t] EXCEPT !.pgid = a].attempts = store[t].attempts
        BY <1>0 DEF Records
    <2> QED
        BY <1>0, <1>2, <2>1 DEF RecordPGID, Update
<1>3. CASE SettleExhausted(t, a)
    <2>1. /\ [store[t] EXCEPT !.status = "blocked", !.on = "claude", !.pgid = 0].on = "claude"
          /\ [store[t] EXCEPT !.status = "blocked", !.on = "claude", !.pgid = 0].status
                 = "blocked"
        BY <1>0 DEF Records
    <2>2. t \notin tick.todo
        BY <1>0, <1>3 DEF SettleExhausted, Consistent, WatchedIsLatest, At, Watching
    <2> QED
        BY <1>0, <1>3, <2>1, <2>2 DEF SettleExhausted, Update
<1>4. CASE SettleExit(t, a)
    <2> DEFINE s == IF worker[t][a].out = "ok" THEN "succeeded" ELSE "failed"
               final == [store[t] EXCEPT !.status = s, !.pgid = 0]
    <2>1. final.status = s /\ s \notin Pending /\ s # "running"
        BY <1>0 DEF Records, Pending
    <2>2. Update(t, store[t]) \/ Update(t, final)
        BY <1>4 DEF SettleExit
    <2> HIDE DEF final, s
    <2> QED
        BY <1>0, <1>4, <2>1, <2>2 DEF Update, SettleExit
<1> QED
    BY <1>1, <1>2, <1>3, <1>4
    DEF Runs, ClearResult, StartFails, StartJob, Await, PollTicks, TeardownStart,
        TeardownEnd, Timeout, WakeUp, Finish, ReadoptRun

\* Every step keeps the order.
LEMMA OrderStep ==
    ASSUME Inv, OrderInv, ~FaultyDisk, Next
    PROVE  OrderInv'
<1>0. /\ store \in [Tasks -> Records]
      /\ \A t \in Tasks : Consistent(t) /\ store[t] \in Records
    BY DEF Inv, TypeOK
<1>1. ASSUME NEW t \in Tasks, NEW s \in Statuses \ Pending, UpdateUnlessTerminal(t, s),
             tick' = tick
      PROVE  OrderInv'
    BY <1>1, GuardedUpdateShape, OrderKept
<1>2. CASE \E t \in Tasks : Submit(t)
    <2>1. PICK t \in Tasks : Submit(t)
        BY <1>2
    <2>2. [store[t] EXCEPT !.status = "queued"].status = "queued"
        BY <1>0 DEF Records
    <2>3. t \notin tick.todo
        BY <1>0, <2>1 DEF Submit, Consistent, TodoIsFresh, Pending
    <2>4. /\ \A v \in Tasks : v # t => store'[v] = store[v]
          /\ store'[t].status = "queued" /\ tick' = tick
        BY <1>0, <2>1, <2>2 DEF Submit
    <2> QED
        BY <2>3, <2>4, OrderKept
<1>3. CASE \E t \in Tasks : Prune(t)
    <2>1. PICK t \in Tasks : Prune(t)
        BY <1>3
    <2>2. [store[t] EXCEPT !.status = "pruned"].status = "pruned"
        BY <1>0 DEF Records
    <2>3. /\ \A v \in Tasks : v # t => store'[v] = store[v]
          /\ store'[t].status \notin Pending /\ tick' = tick
        BY <1>0, <2>1, <2>2 DEF Prune, Pending
    <2> QED
        BY <2>3, OrderKept
<1>4. CASE \E t \in Tasks : CancelLookup(t) \/ CancelUpdate(t)
    BY <1>1, <1>4, OrderKept DEF CancelLookup, CancelUpdate, Statuses, Terminal, Pending
<1>5. CASE Work
    <2>1. PICK t \in Tasks, a \in Attempts : Runs(t, a) \/ Timeout(t, a)
        BY <1>5 DEF Work
    <2> QED
        BY <2>1, WorkLeaves, OrderKept
<1>6. CASE Jobs \/ GateReopens \/ Start \/ Serve \/ \E t \in Tasks : RecoverLook(t) \/ Readopt(t)
    BY <1>6, OrderKept
    DEF Jobs, JobReports, JobDies, GateReopens, Start, Serve, RecoverLook, Readopt
<1>7. CASE Crash
    BY <1>7, OrderKept DEF Crash, IdleTick
<1>8. CASE \E t \in Tasks : RecoverLost(t)
    BY <1>1, <1>8 DEF RecoverLost, Statuses, Terminal, Final, Pending
<1> QED
    BY <1>2, <1>3, <1>4, <1>5, <1>6, <1>7, <1>8, OrderTick DEF Next, Recover

\* Only the second half of a launch makes a task run.
LEMMA LaunchedBy ==
    ASSUME Inv, Next, NEW t \in Tasks,
           store[t].status # "running", store'[t].status = "running"
    PROVE  LaunchUpdate(t)
<1>0. store \in [Tasks -> Records] /\ \A v \in Tasks : store[v] \in Records
    BY DEF Inv, TypeOK
<1>1. ASSUME NEW v \in Tasks, NEW s \in Statuses \ {"running"}, UpdateUnlessTerminal(v, s)
      PROVE  FALSE
    BY <1>1, GuardedUpdateShape
<1>2. CASE \E v \in Tasks : Submit(v) \/ Prune(v)
    <2>1. PICK v \in Tasks : Submit(v) \/ Prune(v)
        BY <1>2
    <2>2. /\ [store[v] EXCEPT !.status = "queued"].status = "queued"
          /\ [store[v] EXCEPT !.status = "pruned"].status = "pruned"
        BY <1>0 DEF Records
    <2> QED
        BY <1>0, <2>1, <2>2 DEF Submit, Prune
<1>3. CASE \E v \in Tasks : CancelLookup(v) \/ CancelUpdate(v)
    BY <1>1, <1>3 DEF CancelLookup, CancelUpdate, Statuses, Terminal
<1>4. CASE Tick
    <2>1. ASSUME NEW v \in Tasks, NEW on, Block(v, on) PROVE FALSE
        <3>1. [store[v] EXCEPT !.status = "blocked", !.on = on].status = "blocked"
            BY <1>0 DEF Records
        <3> QED
            BY <1>0, <2>1, <3>1 DEF Block, Update
    <2>2. ASSUME NEW v \in Tasks, LaunchUpdate(v)
          PROVE  t = v
        BY <1>0, <2>2 DEF LaunchUpdate
    <2> QED
        BY <1>4, <2>1, <2>2
        DEF Tick, TickOnTimer, TickOnWake, TickStart, TickFull, TickGated, TickNoMemory,
            TickNoCPU, LaunchRegister, LaunchAbandoned
<1>5. CASE Work
    <2>1. PICK v \in Tasks, a \in Attempts : Runs(v, a) \/ Timeout(v, a)
        BY <1>5 DEF Work
    <2> QED
        BY <2>1, WorkLeaves
<1>6. CASE Jobs \/ GateReopens \/ Crash \/ Recover
    BY <1>1, <1>6
    DEF Jobs, JobReports, JobDies, GateReopens, Crash, Recover, Start, Serve, RecoverLook,
        Readopt, RecoverLost, Statuses, Terminal, Final
<1> QED
    BY <1>2, <1>3, <1>4, <1>5, <1>6 DEF Next

\* Where writes reach the disk, a task that was held back for memory or cores is not
\* overtaken: the tick has it before it, and takes the oldest first (Tick).
THEOREM NeverOvertaken == ~FaultyDisk => (Spec => NoOvertaking)
<1> SUFFICES ASSUME ~FaultyDisk PROVE Spec => NoOvertaking
    OBVIOUS
<1>1. Init => OrderInv
    BY DEF Init, OrderInv, IdleTick
<1>2. Inv /\ OrderInv /\ [Next]_vars => OrderInv'
    <2> SUFFICES ASSUME Inv, OrderInv, [Next]_vars PROVE OrderInv'
        OBVIOUS
    <2>1. CASE UNCHANGED vars
        BY <2>1, OrderKept DEF vars
    <2> QED
        BY <2>1, OrderStep
<1> DEFINE Turn == \A t, u \in Tasks :
                       /\ u < t
                       /\ store[u].status = "blocked" /\ store[u].on \in {"memory", "slots"}
                       /\ store[u].attempts < MaxAttempts
                       => ~(store[t].status # "running" /\ store'[t].status = "running")
<1>3. Inv /\ OrderInv /\ [Next]_vars => [Turn]_vars
    <2> SUFFICES ASSUME Inv, OrderInv, Next,
                        NEW t \in Tasks, NEW u \in Tasks, u < t, HeldBack(u),
                        store[t].status # "running", store'[t].status = "running"
                 PROVE  FALSE
        BY DEF HeldBack
    <2>1. t \in tick.todo /\ t = Oldest(tick.todo)
        BY LaunchedBy DEF LaunchUpdate, Launching
    <2>2. tick.todo \in SUBSET Tasks /\ u \in tick.todo
        BY <2>1 DEF OrderInv, Inv, TypeOK, Ticks
    <2>3. t <= u
        BY <2>1, <2>2, OldestIsFirst
    <2> QED
        BY <2>3, TasksAssumption
<1> QED
    BY <1>1, <1>2, <1>3, Invariance, PTL DEF Spec, NoOvertaking

-----------------------------------------------------------------------------
(* Slots, cores and cancel functions, where a task has one entry at a time. *)

\* A task whose next attempt never starts before the last one has left the running
\* map: it does not spend the machine's usage, so it is run once, or there is one slot.
OneEntry(t) == ~OwnUsage(t) \/ MaxVMs <= 1

\* No goroutine works on a task.
Idle(t) == \A a \in Attempts : worker[t][a].pc = "none"

\* The entry of a task in the running map, from the launch or the re-adoption of
\* an attempt to the end of that attempt's goroutine.
Entry(t) ==
    /\ \A a \in Attempts :
           /\ worker[t][a].pc # "none" => running[t] = a
           /\ worker[t][a].pc \notin {"none", "registered"} => a <= store[t].attempts
           /\ worker[t][a].pc = "registered" => Launching(t) /\ a = store[t].attempts + 1
    /\ Launching(t) => worker[t][store[t].attempts + 1].pc = "registered"
    /\ daemon = "down" \/ t \in recover => Idle(t)
    /\ ~OwnUsage(t) /\ (store[t].status \in Pending \/ t \in tick.todo) =>
           store[t].attempts = 0
    /\ store[t].status = "none" => running[t] = 0

\* A task nobody works on, and which is not being launched, has a right entry.
LEMMA EntryOfIdle ==
    ASSUME NEW t \in Tasks, Idle(t), ~Launching(t),
           ~OwnUsage(t) /\ (store[t].status \in Pending \/ t \in tick.todo) =>
               store[t].attempts = 0,
           store[t].status = "none" => running[t] = 0
    PROVE  Entry(t)
BY DEF Entry, Idle

\* A step that launches nothing, adopts nothing and ends no goroutine.
LEMMA EntryKept ==
    ASSUME Inv, NEW u \in Tasks, Entry(u),
           store'[u].attempts = store[u].attempts,
           store'[u].status \in Pending =>
               store[u].status \in Pending \/ OwnUsage(u) \/ store[u].attempts = 0,
           store'[u].status = "none" => store[u].status = "none",
           u \in tick'.todo => u \in tick.todo \/ store[u].status \in Pending,
           Launching(u)' <=> Launching(u),
           running'[u] = running[u],
           \A a \in Attempts :
               \/ worker'[u][a].pc = worker[u][a].pc
               \/ /\ worker[u][a].pc \notin {"none", "registered"}
                  /\ worker'[u][a].pc \notin {"none", "registered"},
           daemon' = "down" \/ u \in recover' => daemon = "down" \/ u \in recover
    PROVE  Entry(u)'
<1>1. ASSUME NEW a \in Attempts
      PROVE  /\ worker'[u][a].pc # "none" => running'[u] = a
             /\ worker'[u][a].pc \notin {"none", "registered"} => a <= store'[u].attempts
             /\ worker'[u][a].pc = "registered" =>
                    Launching(u)' /\ a = store'[u].attempts + 1
    <2>1. CASE worker'[u][a].pc = worker[u][a].pc
        BY <2>1 DEF Entry
    <2>2. CASE /\ worker[u][a].pc \notin {"none", "registered"}
               /\ worker'[u][a].pc \notin {"none", "registered"}
        BY <2>2 DEF Entry
    <2> QED
        BY <2>1, <2>2
<1>2. Launching(u)' => worker'[u][store'[u].attempts + 1].pc = "registered"
    <2> SUFFICES ASSUME Launching(u) PROVE worker'[u][store[u].attempts + 1].pc = "registered"
        OBVIOUS
    <2>1. worker[u][store[u].attempts + 1].pc = "registered"
        BY DEF Entry
    <2>2. store[u].attempts < MaxAttempts /\ store[u].attempts \in Nat
        BY DEF Inv, TypeOK, Records, Consistent, TodoIsFresh, Launching
    <2>3. store[u].attempts + 1 \in Attempts
        BY <2>2, BoundsAssumption DEF Attempts
    <2> QED
        BY <2>1, <2>3
<1>3. daemon' = "down" \/ u \in recover' => Idle(u)'
    BY DEF Entry, Idle
<1>4. ~OwnUsage(u) /\ (store'[u].status \in Pending \/ u \in tick'.todo) =>
          store'[u].attempts = 0
    BY DEF Entry
<1>5. store'[u].status = "none" => running'[u] = 0
    BY DEF Entry
<1> QED
    BY <1>1, <1>2, <1>3, <1>4, <1>5 DEF Entry

\* The callers of the API.
LEMMA EntryCallers ==
    ASSUME Inv, ~FaultyDisk, NEW u \in Tasks, Entry(u), NEW t \in Tasks,
           Submit(t) \/ Prune(t) \/ CancelLookup(t) \/ CancelUpdate(t)
    PROVE  Entry(u)'
<1>0. /\ store \in [Tasks -> Records] /\ Consistent(t)
      /\ \A v \in Tasks : store[v] \in Records
      /\ worker \in [Tasks -> [Attempts -> Workers]]
    BY DEF Inv, TypeOK
<1>1. CASE Submit(t) \/ Prune(t)
    <2>1. \A s : /\ [store[t] EXCEPT !.status = s].status = s
                 /\ [store[t] EXCEPT !.status = s].attempts = store[t].attempts
        BY <1>0 DEF Records
    <2>2. /\ store'[u].attempts = store[u].attempts
          /\ store'[u].status \in Pending =>
                 store[u].status \in Pending \/ store[u].attempts = 0
          /\ store'[u].status = "none" => store[u].status = "none"
        <3>1. CASE u # t
            BY <1>0, <1>1, <3>1 DEF Submit, Prune
        <3>2. CASE u = t /\ Submit(t)
            <4>1. store[t].attempts = 0
                BY <1>0, <3>2 DEF Submit, Consistent, PendingIsFresh
            <4> QED
                BY <1>0, <2>1, <3>2, <4>1 DEF Submit
        <3>3. CASE u = t /\ Prune(t)
            BY <1>0, <2>1, <3>3 DEF Prune, Pending
        <3> QED
            BY <1>1, <3>1, <3>2, <3>3
    <2>3. /\ UNCHANGED <<daemon, recover, running, worker, tick>>
          /\ Launching(u)' <=> Launching(u)
        BY <1>1 DEF Submit, Prune, Launching
    <2> QED
        BY <2>2, <2>3, EntryKept
<1>2. CASE CancelLookup(t)
    <2>1. \A v \in Tasks, b \in Attempts :
              [worker[v][b] EXCEPT !.over = TRUE].pc = worker[v][b].pc
        BY <1>0 DEF Workers
    <2>2. \A b \in Attempts : worker'[u][b].pc = worker[u][b].pc
        BY <1>0, <1>2, <2>1 DEF CancelLookup
    <2>3. /\ UNCHANGED <<store, daemon, recover, running, tick>>
          /\ Launching(u)' <=> Launching(u)
        BY <1>2 DEF CancelLookup, Launching
    <2> QED
        BY <2>2, <2>3, EntryKept
<1>3. CASE CancelUpdate(t)
    <2>1. "cancelled" \in Statuses /\ "cancelled" \notin Pending
        BY DEF Statuses, Terminal, Pending
    <2>2. /\ store'[u].attempts = store[u].attempts
          /\ store'[u] = store[u] \/ store'[u].status = "cancelled"
        BY <1>3, <2>1, GuardedUpdateShape DEF CancelUpdate
    <2>3. /\ UNCHANGED <<worker, daemon, recover, running, tick>>
          /\ Launching(u)' <=> Launching(u)
        BY <1>3 DEF CancelUpdate, Launching
    <2> QED
        BY <2>1, <2>2, <2>3, EntryKept
<1> QED
    BY <1>1, <1>2, <1>3

\* A launch finds no goroutine at work on its task: it was never run before, or the
\* one slot is free.
LEMMA LaunchFindsIdle ==
    ASSUME Inv, NEW t \in Tasks, OneEntry(t), Entry(t), LaunchRegister(t)
    PROVE  Idle(t)
<1>1. ~SlotsFull /\ t \in tick.todo /\ ~tick.launching
    BY DEF LaunchRegister, Admissible, Considering
<1>2. CASE ~OwnUsage(t)
    <2>1. store[t].attempts = 0
        BY <1>1, <1>2 DEF Entry
    <2> QED
        BY <1>1, <2>1 DEF Entry, Idle, Attempts, Launching
<1>3. CASE MaxVMs <= 1
    <2>1. IsFiniteSet(InRunning)
        BY FS_Subset, TasksAssumption DEF InRunning
    <2>2. Cardinality(InRunning) \in Nat
        BY <2>1, FS_CardinalityType
    <2>3. Cardinality(InRunning) = 0
        BY <1>1, <1>3, <2>2, BoundsAssumption DEF SlotsFull
    <2>4. running[t] = 0
        BY <2>1, <2>3, FS_EmptySet DEF InRunning
    <2> QED
        BY <2>4 DEF Entry, Idle, Attempts
<1> QED
    BY <1>2, <1>3 DEF OneEntry

\* The tick: what it launches has its entry before it is running.
LEMMA EntryTick ==
    ASSUME Inv, ~FaultyDisk, NEW u \in Tasks, OneEntry(u), Entry(u), Tick
    PROVE  Entry(u)'
<1>0. /\ store \in [Tasks -> Records] /\ \A v \in Tasks : store[v] \in Records
      /\ \A v \in Tasks : Consistent(v)
      /\ worker \in [Tasks -> [Attempts -> Workers]]
      /\ running \in [Tasks -> 0..MaxAttempts]
      /\ tick \in Ticks
    BY DEF Inv, TypeOK
<1>1. ASSUME NEW free \in Probes, TickStart(free) PROVE Entry(u)'
    <2>1. /\ u \in tick'.todo => store[u].status \in Pending
          /\ ~Launching(u) /\ ~Launching(u)'
          /\ UNCHANGED <<store, worker, daemon, recover, running>>
        BY <1>1 DEF TickStart, Snapshot, IdleTick, Launching
    <2> QED
        BY <2>1, EntryKept
<1>2. ASSUME NEW t \in Tasks, NEW S, Advance(t, S)
      PROVE  tick'.todo \subseteq tick.todo \ {t} /\ ~tick'.launching
    BY <1>0, <1>2 DEF Advance, IdleTick, Ticks
<1>3. ASSUME NEW t \in Tasks, NEW on, Block(t, on), t \in tick.todo,
             ~tick.launching, tick'.todo \subseteq tick.todo, ~tick'.launching,
             UNCHANGED <<worker, daemon, recover, running>>
      PROVE  Entry(u)'
    <2>1. /\ store'[u].attempts = store[u].attempts
          /\ store'[u].status = store[u].status \/ (u = t /\ store'[u].status = "blocked")
        BY <1>3, BlockShape
    <2>2. ~OwnUsage(t) /\ u = t => store[u].attempts = 0
        BY <1>3 DEF Entry
    <2>3. ~Launching(u) /\ ~Launching(u)'
        BY <1>3 DEF Launching
    <2> QED
        BY <1>3, <2>1, <2>2, <2>3, EntryKept
<1>4. CASE \E t \in Tasks : TickGated(t) \/ TickNoMemory(t) \/ TickNoCPU(t)
    BY <1>2, <1>3, <1>4
    DEF TickGated, TickNoMemory, TickNoCPU, Admissible, Considering, IdleTick
<1>5. CASE \E t \in Tasks : TickFull(t)
    <2>1. /\ ~Launching(u) /\ ~Launching(u)' /\ tick'.todo = {}
          /\ UNCHANGED <<store, worker, daemon, recover, running>>
        BY <1>5 DEF TickFull, IdleTick, Considering, Launching
    <2> QED
        BY <2>1, EntryKept
<1>6. ASSUME NEW t \in Tasks, LaunchRegister(t) PROVE Entry(u)'
    <2> DEFINE a == store[t].attempts + 1
    <2>1. /\ t \in tick.todo /\ t = Oldest(tick.todo) /\ ~tick.launching
          /\ tick'.todo = tick.todo /\ tick'.launching
          /\ UNCHANGED <<store, daemon, recover>>
        BY <1>0, <1>6 DEF LaunchRegister, Admissible, Considering, Ticks
    <2>2. /\ daemon = "up" /\ store[t].status # "none"
          /\ a \in Attempts /\ a \in 0..MaxAttempts
        <3>1. TodoIsFresh(t)
            BY <1>0 DEF Consistent
        <3> QED
            BY <1>0, <2>1, <3>1, BoundsAssumption
            DEF TodoIsFresh, Pending, Records, Attempts
    <2>3. /\ \A v \in Tasks : v # t => worker'[v] = worker[v] /\ running'[v] = running[v]
          /\ \A b \in Attempts : b # a => worker'[t][b] = worker[t][b]
          /\ worker'[t][a].pc = "registered"
          /\ running'[t] = a
        BY <1>0, <1>6, <2>2 DEF LaunchRegister, NoWorker
    <2>4. CASE u = t
        <3>1. \A b \in Attempts : b # a => worker'[t][b].pc = "none"
            BY <1>6, <2>3, <2>4, LaunchFindsIdle DEF Idle
        <3>2. Launching(t)'
            BY <2>1 DEF Launching
        <3>3. t \notin recover
            BY <1>0, <2>2 DEF Consistent, RecoverIsRunning
        <3>4. ASSUME NEW b \in Attempts
              PROVE  /\ worker'[t][b].pc # "none" => b = a /\ running'[t] = b
                     /\ worker'[t][b].pc \notin {"none", "registered"} => FALSE
            BY <2>3, <3>1
        <3>5. ~OwnUsage(t) /\ (store[t].status \in Pending \/ t \in tick.todo) =>
                  store[t].attempts = 0
            BY <2>4 DEF Entry
        <3> HIDE DEF a
        <3>6. a = store'[t].attempts + 1
            BY <2>1 DEF a
        <3> QED
            BY <2>1, <2>2, <2>3, <2>4, <3>2, <3>3, <3>4, <3>5, <3>6 DEF Entry
    <2>5. CASE u # t
        <3>1. ~Launching(u) /\ ~Launching(u)'
            BY <2>1, <2>5 DEF Launching
        <3> QED
            BY <2>1, <2>3, <2>5, <3>1, EntryKept
    <2> QED
        BY <2>4, <2>5
<1>7. ASSUME NEW t \in Tasks, LaunchUpdate(t) PROVE Entry(u)'
    <2> DEFINE a == store[t].attempts + 1
    <2>1. /\ Launching(t) /\ t = Oldest(tick.todo) /\ t \in tick.todo
          /\ tick'.todo \subseteq tick.todo \ {t} /\ ~tick'.launching
          /\ UNCHANGED <<running, daemon, recover>>
        BY <1>2, <1>7 DEF LaunchUpdate, Launching
    <2>2. ~Launching(u)'
        BY <2>1 DEF Launching
    <2>3. CASE u # t
        <3>1. ~Launching(u)
            BY <2>1, <2>3 DEF Launching
        <3> QED
            BY <1>0, <1>7, <2>1, <2>2, <2>3, <3>1, EntryKept DEF LaunchUpdate
    <2>4. CASE u = t
        <3>1. /\ daemon = "up" /\ t \notin recover /\ a \in Attempts
            <4>1. TodoIsFresh(t) /\ RecoverIsRunning(t) /\ store[t].attempts \in Nat
                BY <1>0 DEF Consistent, Records
            <4> QED
                BY <2>1, <4>1, BoundsAssumption DEF TodoIsFresh, RecoverIsRunning, Attempts
        <3>2. worker[t][a].pc = "registered" /\ running[t] = a
            BY <2>1, <2>4, <3>1 DEF Entry
        <3>3. \A b \in Attempts : b # a => worker[t][b].pc = "none"
            BY <2>4, <3>2 DEF Entry
        <3>4. /\ store'[t].status = "running" /\ store'[t].attempts = a
              /\ worker'[t][a].pc = "launched"
              /\ \A b \in Attempts : b # a => worker'[t][b].pc = "none"
            BY <1>0, <1>7, <3>1, <3>3 DEF LaunchUpdate, Records, Workers
        <3>5. a \in Nat
            BY <3>1 DEF Attempts
        <3> HIDE DEF a
        <3> QED
            BY <2>1, <2>2, <2>4, <3>1, <3>2, <3>4, <3>5 DEF Entry, Pending
    <2> QED
        BY <2>3, <2>4
<1>8. ASSUME NEW t \in Tasks, LaunchAbandoned(t) PROVE Entry(u)'
    <2> DEFINE a == store[t].attempts + 1
    <2>1. /\ Launching(t) /\ t = Oldest(tick.todo) /\ t \in tick.todo
          /\ tick'.todo \subseteq tick.todo \ {t} /\ ~tick'.launching
          /\ UNCHANGED <<store, daemon, recover>>
        BY <1>2, <1>8 DEF LaunchAbandoned, Launching
    <2>2. ~Launching(u)'
        BY <2>1 DEF Launching
    <2>3. CASE u # t
        <3>1. ~Launching(u)
            BY <2>1, <2>3 DEF Launching
        <3> QED
            BY <1>0, <1>8, <2>1, <2>2, <2>3, <3>1, EntryKept DEF LaunchAbandoned
    <2>4. CASE u = t
        <3>1. a \in Attempts
            BY <1>0, <2>1, BoundsAssumption DEF Consistent, TodoIsFresh, Records, Attempts
        <3>2. worker[t][a].pc = "registered" /\ running[t] = a
            BY <2>1, <2>4, <3>1 DEF Entry
        <3>3. \A b \in Attempts : b # a => worker[t][b].pc = "none"
            BY <2>4, <3>2 DEF Entry
        <3>4. Idle(t)' /\ running'[t] = 0
            BY <1>0, <1>8, <3>1, <3>3 DEF LaunchAbandoned, NoWorker, Idle
        <3>5. ~OwnUsage(t) /\ (store'[t].status \in Pending \/ t \in tick'.todo) =>
                  store'[t].attempts = 0
            BY <2>1, <2>4 DEF Entry
        <3> QED
            BY <2>2, <2>4, <3>4, <3>5 DEF Entry, Idle
    <2> QED
        BY <2>3, <2>4
<1> QED
    BY <1>1, <1>4, <1>5, <1>6, <1>7, <1>8 DEF Tick, TickOnTimer, TickOnWake

\* A worker touches the running map only when it finishes.
LEMMA OnlyFinishFrees ==
    ASSUME NEW t \in Tasks, NEW a \in Attempts, Runs(t, a) \/ Timeout(t, a)
    PROVE  running' = running \/ Finish(t, a)
BY DEF Runs, ExecuteFails, ClearResult, StartFails, StartJob, RecordPGID,
       Await, PollTicks, TeardownStart, TeardownEnd, Timeout, SettleError,
       SettleExhausted, SettleExit, WakeUp, ReadoptFails, ReadoptRun

\* And it is at work before that and stays at work.
LEMMA WorkerStays ==
    ASSUME Inv, NEW t \in Tasks, NEW a \in Attempts, Runs(t, a) \/ Timeout(t, a)
    PROVE  /\ worker[t][a].pc \notin {"none", "registered"}
           /\ Finish(t, a) \/ worker'[t][a].pc \notin {"none", "registered"}
<1>0. worker \in [Tasks -> [Attempts -> Workers]] /\ worker[t][a] \in Workers
    BY DEF Inv, TypeOK
<1>1. worker[t][a].pc \notin {"none", "registered"}
    BY DEF Runs, At, Watching, ExecuteFails, ClearResult, StartFails, StartJob, RecordPGID,
        Await, PollTicks, TeardownStart, TeardownEnd, Timeout, SettleError,
        SettleExhausted, SettleExit, WakeUp, Finish, ReadoptFails, ReadoptRun
<1>2. ASSUME NEW pc, Goto(t, a, pc) PROVE worker'[t][a].pc = pc
    BY <1>0, <1>2 DEF Goto, Workers
<1>3. ASSUME NEW out, Ended(t, a, out) PROVE worker'[t][a].pc = "settling"
    BY <1>0, <1>3 DEF Ended, Workers
<1>4. CASE Timeout(t, a)
    <2>1. worker'[t][a].pc = worker[t][a].pc
        BY <1>0, <1>4 DEF Timeout, Workers
    <2> QED
        BY <1>1, <2>1
<1>5. CASE RecordPGID(t, a)
    <2>1. worker'[t][a].pc = "awaiting"
        BY <1>0, <1>5 DEF RecordPGID, Workers
    <2> QED
        BY <1>1, <2>1
<1>6. CASE StartFails(t, a) \/ Await(t, a) \/ TeardownStart(t, a) \/ TeardownEnd(t, a)
    BY <1>1, <1>2, <1>3, <1>6 DEF StartFails, Await, TeardownStart, TeardownEnd
<1>7. CASE \/ ExecuteFails(t, a) \/ ClearResult(t, a) \/ StartJob(t, a) \/ PollTicks(t, a)
           \/ SettleError(t, a) \/ SettleExhausted(t, a) \/ SettleExit(t, a) \/ WakeUp(t, a)
           \/ ReadoptFails(t, a) \/ ReadoptRun(t, a)
    BY <1>1, <1>2, <1>7
    DEF ExecuteFails, ClearResult, StartJob, PollTicks, SettleError, SettleExhausted,
        SettleExit, WakeUp, ReadoptFails, ReadoptRun
<1> QED
    BY <1>1, <1>4, <1>5, <1>6, <1>7 DEF Runs

\* The only worker that puts its task back has spent the machine's usage.
LEMMA WorkPutsBack ==
    ASSUME Inv, NEW t \in Tasks, NEW a \in Attempts, Runs(t, a) \/ Timeout(t, a)
    PROVE  /\ store'[t].status \in Pending => store[t].status \in Pending \/ OwnUsage(t)
           /\ store'[t].status = "none" => store[t].status = "none"
<1>0. store[t] \in Records /\ store \in [Tasks -> Records]
    BY DEF Inv, TypeOK
<1>1. CASE SettleExhausted(t, a)
    <2> DEFINE back == [store[t] EXCEPT !.status = "blocked", !.on = "claude", !.pgid = 0]
    <2>1. back.status = "blocked"
        BY <1>0 DEF Records
    <2>2. Update(t, back) /\ OwnUsage(t)
        BY <1>1 DEF SettleExhausted
    <2> HIDE DEF back
    <2> QED
        BY <1>0, <2>1, <2>2 DEF Update
<1>2. CASE ExecuteFails(t, a) \/ ReadoptFails(t, a) \/ SettleError(t, a)
    <2>1. PICK s \in Final : UpdateUnlessTerminal(t, s)
        BY <1>2 DEF ExecuteFails, ReadoptFails, SettleError, Final
    <2>2. s \in Statuses /\ s \notin Pending /\ s # "none"
        BY DEF Final, Statuses, Terminal, Pending
    <2> QED
        BY <2>1, <2>2, GuardedUpdateShape
<1>3. CASE RecordPGID(t, a)
    <2>1. [store[t] EXCEPT !.pgid = a].status = store[t].status
        BY <1>0 DEF Records
    <2> QED
        BY <1>0, <1>3, <2>1 DEF RecordPGID, Update
<1>4. CASE SettleExit(t, a)
    <2> DEFINE s == IF worker[t][a].out = "ok" THEN "succeeded" ELSE "failed"
               final == [store[t] EXCEPT !.status = s, !.pgid = 0]
    <2>1. final.status = s /\ s \notin Pending /\ s # "none"
        BY <1>0 DEF Records, Pending
    <2>2. Update(t, store[t]) \/ Update(t, final)
        BY <1>4 DEF SettleExit
    <2> HIDE DEF final, s
    <2> QED
        BY <1>0, <2>1, <2>2 DEF Update
<1> QED
    BY <1>1, <1>2, <1>3, <1>4
    DEF Runs, ClearResult, StartFails, StartJob, Await, PollTicks, TeardownStart,
        TeardownEnd, Timeout, WakeUp, Finish, ReadoptRun

\* The workers: a goroutine takes its own entry out, and there is no other.
LEMMA EntryWork ==
    ASSUME Inv, ~FaultyDisk, NEW u \in Tasks, Entry(u), Work
    PROVE  Entry(u)'
<1>1. PICK t \in Tasks, a \in Attempts : Runs(t, a) \/ Timeout(t, a)
    BY DEF Work
<1>0. /\ worker \in [Tasks -> [Attempts -> Workers]]
      /\ running \in [Tasks -> 0..MaxAttempts]
    BY DEF Inv, TypeOK
<1>2. /\ \A v \in Tasks : v # t => store'[v] = store[v] /\ worker'[v] = worker[v]
      /\ \A b \in Attempts : b # a => worker'[t][b] = worker[t][b]
      /\ store'[t].attempts = store[t].attempts
      /\ UNCHANGED <<daemon, recover, tick>>
    BY <1>1, WorkShape
<1>3. /\ worker[t][a].pc \notin {"none", "registered"}
      /\ Finish(t, a) \/ worker'[t][a].pc \notin {"none", "registered"}
      /\ store'[t].status \in Pending => store[t].status \in Pending \/ OwnUsage(t)
      /\ store'[t].status = "none" => store[t].status = "none"
    BY <1>1, WorkerStays, WorkPutsBack
<1>4. running' = running \/ Finish(t, a)
    BY <1>1, OnlyFinishFrees
<1>5. Launching(u)' <=> Launching(u)
    BY <1>2 DEF Launching
<1>6. CASE u # t
    <2>1. running'[u] = running[u]
        BY <1>0, <1>4, <1>6 DEF Finish
    <2> QED
        BY <1>2, <1>5, <1>6, <2>1, EntryKept
<1>7. CASE u = t /\ ~Finish(t, a)
    <2>1. running'[u] = running[u]
        BY <1>4, <1>7
    <2>2. \A b \in Attempts :
              \/ worker'[u][b].pc = worker[u][b].pc
              \/ /\ worker[u][b].pc \notin {"none", "registered"}
                 /\ worker'[u][b].pc \notin {"none", "registered"}
        BY <1>2, <1>3, <1>7
    <2> QED
        BY <1>2, <1>3, <1>5, <1>7, <2>1, <2>2, EntryKept
<1>8. CASE u = t /\ Finish(t, a)
    <2>1. \A b \in Attempts : b # a => worker[t][b].pc = "none"
        BY <1>3, <1>8 DEF Entry
    <2>2. Idle(t)' /\ running'[t] = 0
        BY <1>0, <1>8, <2>1 DEF Finish, NoWorker, Idle
    <2>3. ~Launching(t)
        <3>1. Launching(t) => store[t].attempts + 1 \in Attempts
            BY BoundsAssumption
            DEF Inv, TypeOK, Records, Consistent, TodoIsFresh, Launching, Attempts
        <3>2. a <= store[t].attempts /\ store[t].attempts \in Nat
            BY <1>3, <1>8 DEF Entry, Inv, TypeOK, Records
        <3>3. a # store[t].attempts + 1
            BY <3>2 DEF Attempts
        <3> QED
            BY <1>8, <2>1, <3>1, <3>3 DEF Entry
    <2>4. ~Launching(t)' /\ store' = store
        BY <1>5, <1>8, <2>3 DEF Finish
    <2>5. ~OwnUsage(t) /\ (store'[t].status \in Pending \/ t \in tick'.todo) =>
              store'[t].attempts = 0
        BY <1>2, <1>8, <2>4 DEF Entry
    <2> QED
        BY <1>8, <2>2, <2>4, <2>5 DEF Entry, Idle
<1> QED
    BY <1>6, <1>7, <1>8

\* The jobs, the crash and the recovery: what is adopted has its entry at once.
LEMMA EntryLife ==
    ASSUME Inv, ~FaultyDisk, NEW u \in Tasks, Entry(u), Jobs \/ GateReopens \/ Crash \/ Recover
    PROVE  Entry(u)'
<1>0. /\ store \in [Tasks -> Records] /\ store[u] \in Records
      /\ \A v \in Tasks : Consistent(v)
      /\ worker \in [Tasks -> [Attempts -> Workers]]
      /\ running \in [Tasks -> 0..MaxAttempts]
    BY DEF Inv, TypeOK
<1>1. CASE Jobs \/ GateReopens \/ Start \/ Serve \/ \E t \in Tasks : RecoverLook(t)
    <2>1. /\ UNCHANGED <<store, worker, running, tick>>
          /\ Launching(u)' <=> Launching(u)
          /\ daemon' # "down"
             \/ UNCHANGED <<daemon, recover>>
          /\ u \in recover' => daemon = "down" \/ u \in recover
        BY <1>1
        DEF Jobs, JobReports, JobDies, GateReopens, Start, Serve, RecoverLook, Launching
    <2> QED
        BY <2>1, EntryKept
<1>2. CASE Crash
    <2>1. /\ tick'.todo = {} /\ store' = store /\ Idle(u)' /\ running'[u] = 0
          /\ ~Launching(u)'
        BY <1>2 DEF Crash, IdleTick, NoWorker, Idle, Launching
    <2>2. ~OwnUsage(u) /\ (store'[u].status \in Pending \/ u \in tick'.todo) =>
              store'[u].attempts = 0
        BY <2>1 DEF Entry
    <2> QED
        BY <2>1, <2>2 DEF Entry, Idle
<1>3. ASSUME NEW t \in Tasks, RecoverLost(t) PROVE Entry(u)'
    <2>1. "lost" \in Statuses \ {"running"} /\ "lost" \notin Pending
        BY DEF Statuses, Terminal, Final, Pending
    <2>2. /\ store'[u].attempts = store[u].attempts
          /\ store'[u] = store[u] \/ store'[u].status = "lost"
        BY <1>3, <2>1, GuardedUpdateShape DEF RecoverLost
    <2>3. /\ UNCHANGED <<running, worker, tick>> /\ recover' = recover \ {t}
          /\ daemon' = "recovering"
          /\ Launching(u)' <=> Launching(u)
        BY <1>3 DEF RecoverLost, Launching
    <2> QED
        BY <2>1, <2>2, <2>3, EntryKept
<1>4. ASSUME NEW t \in Tasks, Readopt(t) PROVE Entry(u)'
    <2> DEFINE a == store[t].attempts
    <2>1. /\ t \in recover /\ store[t].status = "running" /\ daemon # "up"
          /\ daemon' = "recovering"
          /\ recover' = recover \ {t} /\ UNCHANGED <<store, tick>>
        BY <1>0, <1>4 DEF Readopt, NextToRecover, Consistent, RecoverIsRunning
    <2>2. /\ \A v \in Tasks : v # t => worker'[v] = worker[v] /\ running'[v] = running[v]
          /\ \A b \in Attempts : b # a => worker'[t][b] = worker[t][b]
          /\ a \in Attempts => worker'[t][a].pc = "readopted"
          /\ running'[t] = a
        BY <1>0, <1>4 DEF Readopt, NoWorker
    <2>3. Launching(u)' <=> Launching(u)
        BY <2>1 DEF Launching
    <2>4. CASE u # t
        BY <2>1, <2>2, <2>3, <2>4, EntryKept
    <2>5. CASE u = t
        <3>1. t \notin tick.todo /\ ~Launching(t)'
            BY <1>0, <2>1 DEF Consistent, TodoIsFresh, Launching
        <3>2. a \in Nat
            BY <1>0, <2>5 DEF Records
        <3>3. \A b \in Attempts : worker[t][b].pc = "none"
            BY <2>1, <2>5 DEF Entry, Idle
        <3>4. \A b \in Attempts : /\ worker'[t][b].pc # "none" => b = a
                                  /\ worker'[t][b].pc # "registered"
            BY <2>2, <3>3
        <3> HIDE DEF a
        <3>5. store'[t].attempts = a
            BY <2>1 DEF a
        <3> QED
            BY <2>1, <2>2, <2>5, <3>1, <3>2, <3>4, <3>5 DEF Entry, Pending
    <2> QED
        BY <2>4, <2>5
<1> QED
    BY <1>1, <1>2, <1>3, <1>4 DEF Recover

\* Every such task has a right entry.
EntryInv == \A t \in Tasks : OneEntry(t) => Entry(t)

\* In every reachable state.
LEMMA EntriesHold == ~FaultyDisk => (Spec => []EntryInv)
<1> SUFFICES ASSUME ~FaultyDisk PROVE Spec => []EntryInv
    OBVIOUS
<1>1. Init => EntryInv
    BY EntryOfIdle
    DEF Init, EntryInv, Idle, Launching, NewRecord, IdleTick, NoWorker, Pending
<1>2. Inv /\ EntryInv /\ [Next]_vars => EntryInv'
    <2> SUFFICES ASSUME Inv, EntryInv, [Next]_vars, NEW u \in Tasks, OneEntry(u)
                 PROVE  Entry(u)'
        BY DEF EntryInv, OneEntry, OwnUsage
    <2>0. Entry(u)
        BY DEF EntryInv
    <2>1. CASE UNCHANGED vars
        BY <2>0, <2>1 DEF vars, Entry, Idle, Launching
    <2>2. CASE Next
        BY <2>0, <2>2, EntryCallers, EntryTick, EntryWork, EntryLife DEF Next
    <2> QED
        BY <2>1, <2>2
<1> QED
    BY <1>1, <1>2, Invariance, PTL DEF Spec

\* Where records are written, a running task has the entry of its latest attempt.
LEMMA RunningHasEntry ==
    ASSUME Inv, NEW t \in Tasks, Entry(t), Supervised(t),
           daemon # "down", t \notin recover, store[t].status = "running"
    PROVE  running[t] = store[t].attempts /\ running[t] # 0
<1>1. store[t].attempts \in Attempts
    BY BoundsAssumption DEF Supervised, Inv, TypeOK, Records, Attempts
<1>2. worker[t][store[t].attempts].pc # "none"
    BY DEF Supervised, Watching
<1> QED
    BY <1>1, <1>2 DEF Entry, Attempts

\* And so has one that is about to be running.
LEMMA LaunchedHasEntry ==
    ASSUME Inv, NEW t \in Tasks, Entry(t), Launching(t)
    PROVE  running[t] # 0
<1>1. store[t].attempts + 1 \in Attempts
    BY BoundsAssumption DEF Inv, TypeOK, Records, Consistent, TodoIsFresh, Launching, Attempts
<1> QED
    BY <1>1 DEF Entry, Attempts

\* Whoever holds a slot: what is in the running map or running by its record.
Held == InRunning \cup RunningTasks

\* Finitely many tasks hold a slot.
LEMMA HeldFinite ==
    /\ IsFiniteSet(InRunning) /\ IsFiniteSet(Held)
    /\ Cardinality(InRunning) \in Nat /\ Cardinality(Held) \in Nat
<1>1. InRunning \subseteq Tasks /\ Held \subseteq Tasks
    BY DEF InRunning, Held, RunningTasks
<1>2. IsFiniteSet(InRunning) /\ IsFiniteSet(Held)
    BY <1>1, FS_Subset, TasksAssumption
<1> QED
    BY <1>2, FS_CardinalityType

\* Only the first half of a launch takes a slot.
LEMMA OnlyLaunchHolds ==
    ASSUME Inv, \A t \in Tasks : Entry(t), Next, ~\E t \in Tasks : LaunchRegister(t)
    PROVE  Held' \subseteq Held
<1>0. /\ store \in [Tasks -> Records] /\ \A v \in Tasks : Consistent(v)
      /\ running \in [Tasks -> 0..MaxAttempts]
    BY DEF Inv, TypeOK
<1> SUFFICES ASSUME NEW u \in Tasks, u \in Held' PROVE u \in Held
    BY DEF Held, InRunning, RunningTasks
<1>1. CASE store'[u].status = "running" /\ store[u].status # "running"
    <2>1. Launching(u)
        BY <1>1, LaunchedBy DEF LaunchUpdate
    <2> QED
        BY <2>1, LaunchedHasEntry DEF Held, InRunning
<1>2. CASE running'[u] # 0 /\ running[u] = 0
    <2>1. \A t \in Tasks : ~(Submit(t) \/ Prune(t) \/ CancelLookup(t) \/ CancelUpdate(t))
        BY <1>2 DEF Submit, Prune, CancelLookup, CancelUpdate
    <2>2. \A t \in Tasks : ~LaunchAbandoned(t)
        BY <1>0, <1>2 DEF LaunchAbandoned
    <2>3. ~Tick
        BY <1>2, <2>2
        DEF Tick, TickOnTimer, TickOnWake, TickStart, TickFull, TickGated,
            TickNoMemory, TickNoCPU, LaunchUpdate
    <2>4. \A t \in Tasks, a \in Attempts : ~Finish(t, a)
        BY <1>0, <1>2 DEF Finish
    <2>5. ~Work
        BY <1>2, <2>4, OnlyFinishFrees DEF Work
    <2>6. ~(Crash \/ Jobs \/ GateReopens \/ Start \/ Serve
              \/ \E t \in Tasks : RecoverLook(t) \/ RecoverLost(t))
        BY <1>2
        DEF Crash, Jobs, JobReports, JobDies, GateReopens, Start, Serve, RecoverLook,
            RecoverLost
    <2>7. PICK t \in Tasks : Readopt(t)
        BY <2>1, <2>3, <2>5, <2>6 DEF Next, Recover
    <2>8. t = u
        BY <1>0, <1>2, <2>7 DEF Readopt
    <2>9. store[u].status = "running"
        BY <1>0, <2>7, <2>8 DEF Readopt, NextToRecover, Consistent, RecoverIsRunning
    <2> QED
        BY <2>9 DEF Held, RunningTasks
<1> QED
    BY <1>1, <1>2 DEF Held, InRunning, RunningTasks

\* While the daemon is up, what is running is in the running map.
LEMMA UpCounts ==
    ASSUME Inv, \A t \in Tasks : Entry(t) /\ Supervised(t), daemon = "up"
    PROVE  RunningTasks \subseteq InRunning
<1>1. \A t \in Tasks : t \notin recover
    BY DEF Inv, Consistent, RecoverIsRunning
<1> QED
    BY <1>1, RunningHasEntry DEF RunningTasks, InRunning

\* A launch takes a slot that is free; nothing else takes one.
LEMMA HeldStep ==
    ASSUME Inv, \A t \in Tasks : Entry(t) /\ Supervised(t), Next,
           Cardinality(Held) <= MaxVMs
    PROVE  Cardinality(Held') <= MaxVMs
<1>0. /\ \A v \in Tasks : Consistent(v)
      /\ running \in [Tasks -> 0..MaxAttempts]
    BY DEF Inv, TypeOK
<1>1. CASE ~\E t \in Tasks : LaunchRegister(t)
    <2>1. Held' \subseteq Held
        BY <1>1, OnlyLaunchHolds
    <2>2. IsFiniteSet(Held) /\ Cardinality(Held) \in Nat
        BY HeldFinite
    <2>3. /\ IsFiniteSet(Held') /\ Cardinality(Held') <= Cardinality(Held)
          /\ Cardinality(Held') \in Nat
        BY <2>1, <2>2, FS_Subset, FS_CardinalityType
    <2> QED
        BY <2>2, <2>3, BoundsAssumption
<1>2. ASSUME NEW t \in Tasks, LaunchRegister(t) PROVE Cardinality(Held') <= MaxVMs
    <2>1. /\ ~SlotsFull /\ t \in tick.todo /\ store' = store
          /\ \A v \in Tasks : v # t => running'[v] = running[v]
        BY <1>0, <1>2 DEF LaunchRegister, Admissible, Considering
    <2>2. RunningTasks \subseteq InRunning
        BY <1>0, <2>1, UpCounts DEF Consistent, TodoIsFresh
    <2>3. Held' \subseteq InRunning \cup {t}
        BY <2>1, <2>2 DEF Held, InRunning, RunningTasks
    <2>4. /\ IsFiniteSet(InRunning \cup {t})
          /\ \/ Cardinality(InRunning \cup {t}) = Cardinality(InRunning)
             \/ Cardinality(InRunning \cup {t}) = Cardinality(InRunning) + 1
        BY HeldFinite, FS_AddElement
    <2>5. Cardinality(Held') <= Cardinality(InRunning \cup {t}) /\ Cardinality(Held') \in Nat
        BY <2>3, <2>4, FS_Subset, FS_CardinalityType
    <2>6. Cardinality(InRunning) < MaxVMs
        BY <2>1, HeldFinite, BoundsAssumption DEF SlotsFull
    <2> QED
        BY <2>4, <2>5, <2>6, HeldFinite, BoundsAssumption
<1> QED
    BY <1>1, <1>2

\* What the entries rest on and what they are, together.
Tended == Inv /\ EntryInv /\ \A t \in Tasks : Supervised(t)

\* In every reachable state.
LEMMA TendedHolds == ~FaultyDisk => (Spec => []Tended)
<1>1. Inv /\ EntryInv /\ (\A t \in Tasks : Supervised(t)) => Tended
    BY DEF Tended
<1> QED
    BY <1>1, Invariance, EntriesHold, SupervisionHolds, PTL

\* There is a slot for whoever holds one.
SlotInv == Cardinality(Held) <= MaxVMs

\* In every reachable state.
LEMMA SlotsHold ==
    ~FaultyDisk /\ (\A t \in Tasks : OneEntry(t)) => (Spec => []SlotInv)
<1> SUFFICES ASSUME ~FaultyDisk, \A t \in Tasks : OneEntry(t) PROVE Spec => []SlotInv
    OBVIOUS
<1>1. Init => SlotInv
    <2> SUFFICES ASSUME Init PROVE SlotInv
        OBVIOUS
    <2>1. Held = {}
        BY DEF Init, Held, InRunning, RunningTasks, NewRecord
    <2> QED
        BY <2>1, FS_EmptySet, BoundsAssumption DEF SlotInv
<1>2. Tended /\ SlotInv /\ [Next]_vars => SlotInv'
    <2> SUFFICES ASSUME Tended, SlotInv, [Next]_vars PROVE SlotInv'
        OBVIOUS
    <2>1. CASE UNCHANGED vars
        BY <2>1 DEF vars, SlotInv, Held, InRunning, RunningTasks
    <2>2. CASE Next
        BY <2>2, HeldStep DEF Tended, EntryInv, SlotInv
    <2> QED
        BY <2>1, <2>2
<1> QED
    BY <1>1, <1>2, TendedHolds, PTL DEF Spec

\* With one slot, or where no task is put back to be run again, the records never
\* show more running tasks than there are slots, whatever a restart adopts (Tick,
\* launch, Recover).
THEOREM SlotsSuffice ==
    ~FaultyDisk /\ (\A t \in Tasks : OneEntry(t)) => (Spec => []RunningWithinSlots)
<1> SUFFICES ASSUME ~FaultyDisk, \A t \in Tasks : OneEntry(t)
             PROVE  Spec => []RunningWithinSlots
    OBVIOUS
<1>1. SlotInv => RunningWithinSlots
    <2>1. /\ Cardinality(RunningTasks) <= Cardinality(Held)
          /\ Cardinality(RunningTasks) \in Nat
        BY HeldFinite, FS_Subset, FS_CardinalityType DEF Held
    <2> QED
        BY <2>1, HeldFinite, BoundsAssumption DEF RunningWithinSlots, SlotInv
<1> QED
    BY <1>1, SlotsHold, PTL

\* A cancel finds the cancel function of a running task that does not spend the
\* machine's usage, whatever becomes of the others (Cancel, Tick, Recover).
THEOREM OwnCancelFound ==
    ASSUME ~FaultyDisk, NEW t \in Tasks, OneEntry(t)
    PROVE  Spec => [](daemon = "up" /\ t \in RunningTasks => running[t] = store[t].attempts)
<1>1. Tended => (daemon = "up" /\ t \in RunningTasks => running[t] = store[t].attempts)
    <2> SUFFICES ASSUME Tended, daemon = "up", t \in RunningTasks
                 PROVE  running[t] = store[t].attempts
        OBVIOUS
    <2>1. t \notin recover
        BY DEF Tended, Inv, Consistent, RecoverIsRunning
    <2> QED
        BY <2>1, RunningHasEntry DEF Tended, EntryInv, RunningTasks
<1> QED
    BY <1>1, TendedHolds, PTL

\* And of every running task, with one slot or where none is run again.
THEOREM RunningCanBeCancelled ==
    ~FaultyDisk /\ (\A t \in Tasks : OneEntry(t)) => (Spec => []Cancellable)
<1> SUFFICES ASSUME ~FaultyDisk, \A t \in Tasks : OneEntry(t) PROVE Spec => []Cancellable
    OBVIOUS
<1>1. Tended => Cancellable
    <2> SUFFICES ASSUME Tended, daemon = "up", NEW t \in RunningTasks
                 PROVE  running[t] = store[t].attempts
        BY DEF Cancellable
    <2>1. t \in Tasks /\ t \notin recover
        BY DEF Tended, Inv, Consistent, RecoverIsRunning, RunningTasks
    <2> QED
        BY <2>1, RunningHasEntry DEF Tended, EntryInv, RunningTasks
<1> QED
    BY <1>1, TendedHolds, PTL

-----------------------------------------------------------------------------
(* Sums of cores.  The fold behind CPUsOf is taken apart here: the library's  *)
(* theorems on folds would need an operator as a parameter.                    *)

\* A set of numbers that is not empty has a least element.
LEMMA Least ==
    ASSUME NEW S \in SUBSET Nat, S # {}
    PROVE  \E n \in S : \A m \in S : n <= m
<1> DEFINE R == OpToRel(<, Nat)
<1>1. PICK n \in S : \A m \in S : ~ (<<m, n>> \in R)
    BY NatLessThanWellFounded, WFMin
<1>2. SUFFICES ASSUME NEW m \in S PROVE n <= m
    OBVIOUS
<1>3. m < n => <<m, n>> \in R
    BY DEF OpToRel
<1>4. ~ (<<m, n>> \in R)
    BY <1>1
<1> HIDE DEF R
<1> QED
    BY <1>3, <1>4

\* What passes from all smaller subsets to a set holds of all subsets of a finite
\* set: the smallest one it did not hold of would have no smaller ones.
LEMMA Subsets ==
    ASSUME NEW T, IsFiniteSet(T), NEW G,
           \A s \in SUBSET T : (\A v \in SUBSET s : v # s => v \in G) => s \in G
    PROVE  \A s \in SUBSET T : s \in G
<1> SUFFICES ASSUME NEW s0 \in SUBSET T, s0 \notin G PROVE FALSE
    OBVIOUS
<1> DEFINE bad == {s \in SUBSET T : s \notin G}
           sizes == {Cardinality(s) : s \in bad}
<1>1. \A s \in SUBSET T : IsFiniteSet(s) /\ Cardinality(s) \in Nat
    BY FS_Subset, FS_CardinalityType
<1>2. sizes \in SUBSET Nat /\ sizes # {}
    BY <1>1
<1>3. PICK n \in sizes : \A m \in sizes : n <= m
    BY <1>2, Least
<1>4. PICK s \in bad : n = Cardinality(s)
    BY <1>3
<1>5. ASSUME NEW v \in SUBSET s, v # s PROVE v \in G
    <2>1. Cardinality(v) < Cardinality(s)
        BY <1>1, <1>5, FS_Subset
    <2>2. v \in SUBSET T /\ Cardinality(v) \in Nat /\ Cardinality(s) \in Nat
        BY <1>1
    <2>3. v \notin bad
        BY <1>3, <1>4, <2>1, <2>2
    <2> QED
        BY <2>2, <2>3
<1> QED
    BY <1>4, <1>5

\* The element of a set a sum takes first.
First(s) == CHOOSE x \in s : TRUE

\* The recursive function behind a sum of cores over the subsets of S.
IsSum(f, S) ==
    f = [s \in SUBSET S |-> IF s = {} THEN 0 ELSE CPUs[First(s)] + f[s \ {First(s)}]]

\* A sum is what such a function says of the whole set.
LEMMA Unfolded ==
    ASSUME NEW S, NEW g, IsSum(g, S)
    PROVE  \E f : IsSum(f, S) /\ CPUsOf(S) = f[S]
<1> DEFINE h == CHOOSE f : IsSum(f, S)
<1>1. IsSum(h, S)
    BY Zenon
<1>2. CPUsOf(S) = h[S]
    BY DEF CPUsOf, MapThenSumSet, MapThenFoldSet, IsSum, First
<1> QED
    BY <1>1, <1>2

\* The sum of a set by the sum without its first element.
Telescopes(s) ==
    CPUsOf(s) = IF s = {} THEN 0 ELSE CPUs[First(s)] + CPUsOf(s \ {First(s)})

\* The recursive function exists for every finite set, so the sums telescope.
LEMMA SumsTelescope ==
    ASSUME NEW S, IsFiniteSet(S)
    PROVE  Telescopes(S)
<1> DEFINE G == {s \in SUBSET S : Telescopes(s)}
<1>1. ASSUME NEW s \in SUBSET S, \A v \in SUBSET s : v # s => v \in G
      PROVE  s \in G
    <2> DEFINE val(u) == IF u = {} THEN 0 ELSE CPUs[First(u)] + CPUsOf(u \ {First(u)})
               f == [u \in SUBSET s |-> IF u = s THEN val(s) ELSE CPUsOf(u)]
    <2>1. ASSUME NEW u \in SUBSET s, u # {}
          PROVE  First(u) \in u /\ u \ {First(u)} \in SUBSET s /\ u \ {First(u)} # s
        <3>1. First(u) \in u
            BY <2>1 DEF First
        <3> QED
            BY <3>1
    <2>2. ASSUME NEW u \in SUBSET s
          PROVE  f[u] = IF u = {} THEN 0 ELSE CPUs[First(u)] + f[u \ {First(u)}]
        <3>1. f[u] = val(u)
            BY <1>1 DEF Telescopes
        <3>2. u # {} => f[u \ {First(u)}] = CPUsOf(u \ {First(u)})
            BY <2>1
        <3> QED
            BY <3>1, <3>2
    <2>3. IsSum(f, s)
        BY <2>2 DEF IsSum
    <2> HIDE DEF f
    <2>4. PICK h : IsSum(h, s) /\ CPUsOf(s) = h[s]
        BY <2>3, Unfolded
    <2> DEFINE E == {u \in SUBSET s : h[u] = f[u]}
    <2>5. ASSUME NEW u \in SUBSET s, \A v \in SUBSET u : v # u => v \in E PROVE u \in E
        <3>1. CASE u = {}
            BY <2>3, <2>4, <3>1 DEF IsSum
        <3>2. CASE u # {}
            <4>1. First(u) \in u
                BY <3>2 DEF First
            <4>2. u \ {First(u)} \in E
                BY <2>5, <4>1
            <4>3. h[u] = CPUs[First(u)] + h[u \ {First(u)}]
                BY <2>4, <3>2 DEF IsSum
            <4>4. f[u] = CPUs[First(u)] + f[u \ {First(u)}]
                BY <2>3, <3>2 DEF IsSum
            <4> QED
                BY <4>2, <4>3, <4>4
        <3> QED
            BY <3>1, <3>2
    <2> HIDE DEF E
    <2>6. IsFiniteSet(s)
        BY FS_Subset
    <2>7. s \in E
        BY <2>5, <2>6, Subsets
    <2>8. CPUsOf(s) = f[s]
        BY <2>4, <2>7 DEF E
    <2>9. f[s] = val(s)
        BY DEF f
    <2> QED
        BY <2>8, <2>9 DEF Telescopes
<1> HIDE DEF G
<1>2. S \in G
    BY <1>1, Subsets
<1> QED
    BY <1>2 DEF G

\* A sum is a number, whatever element is taken from it first.
LEMMA SumWithout ==
    ASSUME NEW S \in SUBSET Tasks
    PROVE  /\ CPUsOf(S) \in Nat
           /\ S = {} => CPUsOf(S) = 0
           /\ \A t \in S : CPUsOf(S) = CPUs[t] + CPUsOf(S \ {t})
<1> DEFINE Good(s) == /\ CPUsOf(s) \in Nat
                      /\ \A t \in s : CPUsOf(s) = CPUs[t] + CPUsOf(s \ {t})
           G == {s \in SUBSET Tasks : Good(s)}
<1>0. /\ IsFiniteSet(Tasks) /\ \A t \in Tasks : CPUs[t] \in Nat
      /\ \A s \in SUBSET Tasks : IsFiniteSet(s)
    BY FS_Subset, TasksAssumption, ResourceAssumption
<1>1. ASSUME NEW s \in SUBSET Tasks, \A v \in SUBSET s : v # s => v \in G
      PROVE  s \in G
    <2>1. CASE s = {}
        <3>1. CPUsOf(s) = 0
            BY <1>0, <2>1, SumsTelescope DEF Telescopes
        <3> QED
            BY <2>1, <3>1
    <2>2. CASE s # {}
        <3> DEFINE z == First(s)
        <3>1. z \in s
            BY <2>2 DEF First
        <3>2. CPUsOf(s) = CPUs[z] + CPUsOf(s \ {z})
            BY <1>0, <2>2, SumsTelescope DEF Telescopes
        <3> HIDE DEF z
        <3>3. \A t \in s : s \ {t} \in G
            BY <1>1
        <3>4. CPUsOf(s) \in Nat
            BY <1>0, <3>1, <3>2, <3>3
        <3>5. ASSUME NEW t \in s PROVE CPUsOf(s) = CPUs[t] + CPUsOf(s \ {t})
            <4>1. CASE t = z
                BY <3>2, <4>1
            <4>2. CASE t # z
                <5>1. CPUsOf(s \ {z}) = CPUs[t] + CPUsOf((s \ {z}) \ {t})
                    BY <3>1, <3>3, <4>2
                <5>2. CPUsOf(s \ {t}) = CPUs[z] + CPUsOf((s \ {t}) \ {z})
                    BY <3>1, <3>3, <4>2
                <5>3. (s \ {z}) \ {t} = (s \ {t}) \ {z}
                    OBVIOUS
                <5>4. CPUsOf((s \ {t}) \ {z}) \in Nat
                    <6>1. (s \ {t}) \ {z} \in SUBSET s /\ (s \ {t}) \ {z} # s
                        OBVIOUS
                    <6> QED
                        BY <1>1, <6>1
                <5> QED
                    BY <1>0, <3>1, <3>2, <5>1, <5>2, <5>3, <5>4
            <4> QED
                BY <4>1, <4>2
        <3> QED
            BY <3>4, <3>5
    <2> QED
        BY <2>1, <2>2
<1> HIDE DEF G
<1>2. S \in G
    BY <1>0, <1>1, Subsets
<1>3. S = {} => CPUsOf(S) = 0
    BY <1>0, SumsTelescope DEF Telescopes
<1> QED
    BY <1>2, <1>3 DEF G

\* One task more adds at most its own cores.
LEMMA SumWith ==
    ASSUME NEW S \in SUBSET Tasks, NEW t \in Tasks
    PROVE  CPUsOf(S \cup {t}) = IF t \in S THEN CPUsOf(S) ELSE CPUsOf(S) + CPUs[t]
<1>1. CASE t \in S
    <2>1. S \cup {t} = S
        BY <1>1
    <2> QED
        BY <1>1, <2>1
<1>2. CASE t \notin S
    <2>1. (S \cup {t}) \ {t} = S /\ S \cup {t} \in SUBSET Tasks
        BY <1>2
    <2>2. CPUsOf(S \cup {t}) = CPUs[t] + CPUsOf(S)
        BY <2>1, SumWithout
    <2>3. CPUs[t] \in Nat /\ CPUsOf(S) \in Nat
        BY SumWithout, ResourceAssumption
    <2> QED
        BY <1>2, <2>2, <2>3
<1> QED
    BY <1>1, <1>2

\* A subset asks for no more cores.
LEMMA SumGrows ==
    ASSUME NEW B \in SUBSET Tasks, NEW A \in SUBSET B
    PROVE  CPUsOf(A) <= CPUsOf(B)
<1> DEFINE G == {s \in SUBSET B : A \subseteq s => CPUsOf(A) <= CPUsOf(s)}
<1>0. IsFiniteSet(B)
    BY FS_Subset, TasksAssumption
<1>1. ASSUME NEW s \in SUBSET B, \A v \in SUBSET s : v # s => v \in G
      PROVE  s \in G
    <2> SUFFICES ASSUME A \subseteq s PROVE CPUsOf(A) <= CPUsOf(s)
        OBVIOUS
    <2>1. CPUsOf(A) \in Nat
        BY SumWithout
    <2>2. CASE A = s
        BY <2>1, <2>2
    <2>3. CASE A # s
        <3>1. PICK t \in s : t \notin A
            BY <2>3
        <3>2. s \ {t} \in G /\ A \subseteq s \ {t}
            BY <1>1, <3>1
        <3>3. /\ CPUsOf(s) = CPUs[t] + CPUsOf(s \ {t})
              /\ CPUsOf(s \ {t}) \in Nat /\ CPUs[t] \in Nat
            BY SumWithout, ResourceAssumption
        <3> QED
            BY <2>1, <3>2, <3>3
    <2> QED
        BY <2>2, <2>3
<1> HIDE DEF G
<1>2. B \in G
    BY <1>0, <1>1, Subsets
<1> QED
    BY <1>2 DEF G

-----------------------------------------------------------------------------
(* The cores promised to running tasks.                                    *)

\* Whose cores are promised: who holds a slot and has a record to read them from.
Promised == {t \in Held : Exists(t)}

\* Whose cores the tick counts: what it read at its start and has launched since,
\* and what it is launching.
Counted == tick.inUse \cup {t \in Tasks : Launching(t)}

\* The machine has the cores that are promised, and a tick on its way counts them all.
CoresInv ==
    /\ CPUsOf(Promised) <= HostCPUs
    /\ tick.todo # {} => Promised \subseteq Counted /\ CPUsOf(Counted) <= HostCPUs

\* Both are sets of tasks.
LEMMA CoreSets ==
    ASSUME Inv
    PROVE  Promised \in SUBSET Tasks /\ Counted \in SUBSET Tasks
BY DEF Inv, TypeOK, Ticks, Promised, Held, InRunning, RunningTasks, Counted

\* A record that is not there, or not any more, appears by a submission only.
LEMMA OnlySubmitBrings ==
    ASSUME Inv, Next, NEW t \in Tasks, ~Exists(t), ~Submit(t)
    PROVE  store'[t] = store[t]
<1>0. store \in [Tasks -> Records]
    BY DEF Inv, TypeOK
<1>1. ASSUME NEW v \in Tasks, NEW r, Update(v, r) PROVE store'[t] = store[t]
    BY <1>0, <1>1 DEF Update
<1>2. ASSUME NEW v \in Tasks, NEW s, UpdateUnlessTerminal(v, s) PROVE store'[t] = store[t]
    BY <1>1, <1>2 DEF UpdateUnlessTerminal
<1>3. ASSUME NEW v \in Tasks, Submit(v) \/ Prune(v) \/ CancelLookup(v) \/ CancelUpdate(v)
      PROVE  store'[t] = store[t]
    BY <1>0, <1>2, <1>3
    DEF Submit, Prune, CancelLookup, CancelUpdate, Exists, Terminal, Final
<1>4. CASE Tick
    <2>1. ASSUME NEW v \in Tasks, NEW on, Block(v, on) PROVE store'[t] = store[t]
        BY <1>1, <2>1 DEF Block
    <2>2. ASSUME NEW v \in Tasks, LaunchUpdate(v) PROVE store'[t] = store[t]
        BY <1>0, <2>2 DEF LaunchUpdate
    <2> QED
        BY <1>4, <2>1, <2>2
        DEF Tick, TickOnTimer, TickOnWake, TickStart, TickFull, TickGated, TickNoMemory,
            TickNoCPU, LaunchRegister, LaunchAbandoned
<1>5. ASSUME NEW v \in Tasks, NEW a \in Attempts, Runs(v, a) \/ Timeout(v, a)
      PROVE  store'[t] = store[t]
    BY <1>1, <1>2, <1>5
    DEF Runs, ExecuteFails, ClearResult, StartFails, StartJob, RecordPGID, Await,
        PollTicks, TeardownStart, TeardownEnd, Timeout, SettleError, SettleExhausted,
        SettleExit, WakeUp, Finish, ReadoptFails, ReadoptRun
<1>6. CASE Jobs \/ GateReopens \/ Crash \/ Recover
    BY <1>2, <1>6
    DEF Jobs, JobReports, JobDies, GateReopens, Crash, Recover, Start, Serve,
        RecoverLook, Readopt, RecoverLost
<1> QED
    BY <1>3, <1>4, <1>5, <1>6 DEF Next, Work

\* Only the first half of a launch promises cores.
LEMMA OnlyLaunchPromises ==
    ASSUME Inv, \A t \in Tasks : Entry(t), Next, ~\E t \in Tasks : LaunchRegister(t)
    PROVE  Promised' \subseteq Promised
<1> SUFFICES ASSUME NEW u \in Tasks, u \in Promised' PROVE u \in Promised
    BY DEF Promised, Held, InRunning, RunningTasks
<1>1. u \in Held /\ Exists(u)'
    BY OnlyLaunchHolds DEF Promised
<1>2. CASE Exists(u)
    BY <1>1, <1>2 DEF Promised
<1>3. CASE ~Exists(u)
    <2>1. Submit(u)
        BY <1>1, <1>3, OnlySubmitBrings DEF Exists
    <2>2. running[u] = 0 /\ store[u].status # "running"
        BY <2>1 DEF Submit, Entry
    <2> QED
        BY <1>1, <2>2 DEF Held, InRunning, RunningTasks
<1> QED
    BY <1>2, <1>3

\* Only a launch and the start of a tick change whom the tick counts.
LEMMA CountedStep ==
    ASSUME Inv, Next, ~\E t \in Tasks : LaunchRegister(t),
           ~\E free \in Probes : TickStart(free), tick'.todo # {}
    PROVE  tick.todo # {} /\ Counted' = Counted
<1>0. tick \in Ticks
    BY DEF Inv, TypeOK
<1>1. CASE tick' = tick
    BY <1>1 DEF Counted, Launching
<1>2. ASSUME NEW t \in Tasks, NEW S, Advance(t, S)
      PROVE  tick.todo # {t} /\ tick'.inUse = tick.inUse \cup S /\ ~tick'.launching
    BY <1>0, <1>2 DEF Advance, IdleTick, Ticks
<1>3. CASE \E t \in Tasks : TickGated(t)
    BY <1>2, <1>3 DEF TickGated, Considering, Counted, Launching
<1>4. CASE \E t \in Tasks : LaunchUpdate(t) \/ LaunchAbandoned(t)
    <2>1. PICK t \in Tasks : Launching(t) /\ Advance(t, {t})
        BY <1>4 DEF LaunchUpdate, LaunchAbandoned
    <2>2. {v \in Tasks : Launching(v)} = {t}
        BY <2>1 DEF Launching
    <2>3. {v \in Tasks : Launching(v)}' = {}
        BY <1>2, <2>1 DEF Launching
    <2>4. tick'.inUse = tick.inUse \cup {t} /\ tick.todo # {}
        BY <1>2, <2>1 DEF Launching
    <2> QED
        BY <2>2, <2>3, <2>4 DEF Counted
<1>5. ~\E t \in Tasks : TickFull(t) \/ TickNoMemory(t) \/ TickNoCPU(t)
    BY DEF TickFull, TickNoMemory, TickNoCPU, IdleTick
<1>6. ~Crash
    BY DEF Crash, IdleTick
<1>7. CASE Work
    BY <1>1, <1>7
    DEF Work, Runs, ExecuteFails, ClearResult, StartFails, StartJob, RecordPGID, Await,
        PollTicks, TeardownStart, TeardownEnd, Timeout, SettleError, SettleExhausted,
        SettleExit, WakeUp, Finish, ReadoptFails, ReadoptRun
<1>8. CASE \/ \E t \in Tasks : Submit(t) \/ Prune(t) \/ CancelLookup(t) \/ CancelUpdate(t)
           \/ Jobs \/ GateReopens \/ Recover
    BY <1>1, <1>8
    DEF Submit, Prune, CancelLookup, CancelUpdate, Jobs, JobReports, JobDies, GateReopens,
        Recover, Start, Serve, RecoverLook, Readopt, RecoverLost
<1> QED
    BY <1>3, <1>4, <1>5, <1>6, <1>7, <1>8 DEF Next, Tick, TickOnTimer, TickOnWake

\* A launch promises the cores that the tick found free; a tick that starts counts
\* what is promised.
LEMMA CoresStep ==
    ASSUME Inv, \A t \in Tasks : Entry(t) /\ Supervised(t), CoresInv, Next
    PROVE  CoresInv'
<1>0. /\ Promised \in SUBSET Tasks /\ Counted \in SUBSET Tasks
      /\ Inv'
    BY CoreSets, InvStep
<1>1. Promised' \in SUBSET Tasks /\ Counted' \in SUBSET Tasks
    BY <1>0 DEF Inv, TypeOK, Ticks, Promised, Held, InRunning, RunningTasks, Counted
<1>2. /\ CPUsOf(Promised) \in Nat /\ CPUsOf(Promised') \in Nat
      /\ CPUsOf(Counted) \in Nat /\ CPUsOf(Counted') \in Nat
    BY <1>0, <1>1, SumWithout
<1>3. ASSUME NEW t \in Tasks, LaunchRegister(t) PROVE CoresInv'
    <2>1. /\ FitsCPU(t) /\ t \in tick.todo /\ t = Oldest(tick.todo) /\ ~tick.launching
          /\ tick'.todo = tick.todo /\ tick'.inUse = tick.inUse /\ tick'.launching
          /\ UNCHANGED store
        BY <1>3 DEF LaunchRegister, Admissible, Considering, Inv, TypeOK, Ticks
    <2>2. Counted = tick.inUse
        BY <2>1 DEF Counted, Launching
    <2>3. Counted' = tick.inUse \cup {t}
        BY <2>1 DEF Counted, Launching
    <2>4. Promised' \subseteq Promised \cup {t}
        BY <1>3, <2>1
        DEF LaunchRegister, Inv, TypeOK, Promised, Held, InRunning, RunningTasks, Exists
    <2>5. Promised \subseteq Counted /\ CPUsOf(Counted) <= HostCPUs
        BY <2>1 DEF CoresInv
    <2>6. Promised' \subseteq Counted'
        BY <2>2, <2>3, <2>4, <2>5
    <2>7. CPUsOf(tick.inUse \cup {t}) <= HostCPUs
        <3>1. /\ tick.inUse \in SUBSET Tasks /\ CPUs[t] \in Nat
              /\ CPUsOf(tick.inUse) \in Nat /\ CPUsOf(tick.inUse) <= HostCPUs
            BY <1>0, <1>2, <2>2, <2>5, ResourceAssumption
        <3>2. \/ CPUsOf(tick.inUse \cup {t}) = CPUsOf(tick.inUse)
              \/ CPUsOf(tick.inUse \cup {t}) = CPUsOf(tick.inUse) + CPUs[t]
            BY <3>1, SumWith
        <3> QED
            BY <2>1, <3>1, <3>2, ResourceAssumption DEF FitsCPU
    <2>8. CPUsOf(Promised') <= CPUsOf(Counted')
        BY <1>1, <2>6, SumGrows
    <2>9. CPUsOf(Promised') <= HostCPUs /\ CPUsOf(Counted') <= HostCPUs
        BY <1>2, <2>3, <2>7, <2>8, ResourceAssumption
    <2> QED
        BY <2>6, <2>9 DEF CoresInv
<1>4. CASE ~\E t \in Tasks : LaunchRegister(t)
    <2>1. Promised' \subseteq Promised
        BY <1>4, OnlyLaunchPromises
    <2>2. CPUsOf(Promised') <= CPUsOf(Promised)
        BY <1>0, <2>1, SumGrows
    <2>3. CPUsOf(Promised') <= HostCPUs
        BY <1>2, <2>2, ResourceAssumption DEF CoresInv
    <2>4. ASSUME NEW free \in Probes, TickStart(free), tick'.todo # {}
          PROVE  Promised' \subseteq Counted' /\ CPUsOf(Counted') <= HostCPUs
        <3>1. /\ daemon = "up" /\ tick'.inUse = {v \in InRunning : Exists(v)}
              /\ ~tick'.launching
              /\ UNCHANGED <<store, running>>
            BY <2>4 DEF TickStart, IdleTick
        <3>2. RunningTasks \subseteq InRunning
            BY <3>1, UpCounts
        <3>3. Counted' = Promised
            BY <3>1, <3>2 DEF Counted, Launching, Promised, Held
        <3> QED
            BY <2>1, <3>3 DEF CoresInv
    <2>5. ASSUME ~\E free \in Probes : TickStart(free), tick'.todo # {}
          PROVE  Promised' \subseteq Counted' /\ CPUsOf(Counted') <= HostCPUs
        <3>1. tick.todo # {} /\ Counted' = Counted
            BY <1>4, <2>5, CountedStep
        <3> QED
            BY <2>1, <3>1 DEF CoresInv
    <2> QED
        BY <2>3, <2>4, <2>5 DEF CoresInv
<1> QED
    BY <1>3, <1>4

\* Cores suffice in every reachable state.
LEMMA CoresHold ==
    ~FaultyDisk /\ (\A t \in Tasks : OneEntry(t)) => (Spec => []CoresInv)
<1> SUFFICES ASSUME ~FaultyDisk, \A t \in Tasks : OneEntry(t) PROVE Spec => []CoresInv
    OBVIOUS
<1>1. Init => CoresInv
    <2> SUFFICES ASSUME Init PROVE CoresInv
        OBVIOUS
    <2>1. Promised = {} /\ tick.todo = {}
        BY DEF Init, Promised, Held, InRunning, RunningTasks, NewRecord, IdleTick
    <2>2. CPUsOf({}) = 0
        BY SumWithout
    <2> QED
        BY <2>1, <2>2, ResourceAssumption DEF CoresInv
<1>2. Tended /\ CoresInv /\ [Next]_vars => CoresInv'
    <2> SUFFICES ASSUME Tended, CoresInv, [Next]_vars PROVE CoresInv'
        OBVIOUS
    <2>1. CASE UNCHANGED vars
        <3>1. Promised' = Promised /\ Counted' = Counted /\ tick' = tick
            BY <2>1
            DEF vars, Promised, Held, InRunning, RunningTasks, Exists, Counted, Launching
        <3> QED
            BY <3>1 DEF CoresInv
    <2>2. CASE Next
        BY <2>2, CoresStep DEF Tended, EntryInv
    <2> QED
        BY <2>1, <2>2
<1> QED
    BY <1>1, <1>2, TendedHolds, PTL DEF Spec

\* With one slot, or where no task is put back to be run again, the running tasks are
\* never promised more cores than the machine has, although a tick adds them up once
\* and launches and restarts come in between (Scheduler.cpusInUse, Tick).
THEOREM CoresSuffice ==
    ~FaultyDisk /\ (\A t \in Tasks : OneEntry(t)) => (Spec => []RunningWithinCPUs)
<1> SUFFICES ASSUME ~FaultyDisk, \A t \in Tasks : OneEntry(t)
             PROVE  Spec => []RunningWithinCPUs
    OBVIOUS
<1>1. Tended /\ CoresInv => RunningWithinCPUs
    <2> SUFFICES ASSUME Tended, CoresInv PROVE RunningWithinCPUs
        OBVIOUS
    <2>1. Promised \in SUBSET Tasks /\ RunningTasks \in SUBSET Promised
        BY CoreSets DEF Tended, Promised, Held, RunningTasks, Exists
    <2>2. /\ CPUsOf(RunningTasks) <= CPUsOf(Promised)
          /\ CPUsOf(RunningTasks) \in Nat /\ CPUsOf(Promised) \in Nat
        BY <2>1, SumGrows, SumWithout
    <2> QED
        BY <2>2, ResourceAssumption DEF CoresInv, RunningWithinCPUs
<1> QED
    BY <1>1, CoresHold, TendedHolds, PTL
-----------------------------------------------------------------------------
(* The life of a task.                                                     *)

\* What the goroutine of an attempt knows of the job: there is none before it starts
\* one, the one it watches is the only one alive, and at the end none is.
Worked(t) ==
    \A a \in Attempts :
        /\ job[t][a] # "none" => a <= store[t].attempts
        /\ At(t, a, "launched") \/ At(t, a, "cleared") => job[t][a] = "none"
        /\ worker[t][a].pc \in {"readopted", "awaiting", "parked", "teardown"} =>
               \A b \in Attempts : job[t][b] = "live" => b = worker[t][a].pg
        /\ At(t, a, "settling") => \A b \in Attempts : job[t][b] # "live"

\* A step that begins no attempt, starts no job and moves no watcher on.
LEMMA WorkedKept ==
    ASSUME NEW u \in Tasks, Worked(u),
           store'[u].attempts = store[u].attempts,
           \A a \in Attempts : \/ job'[u][a] = job[u][a]
                               \/ job[u][a] = "live" /\ job'[u][a] = "done",
           \A a \in Attempts :
               \/ worker'[u][a].pc \in {"none", "registered", "waking", "finishing"}
               \/ worker'[u][a].pc = worker[u][a].pc /\ worker'[u][a].pg = worker[u][a].pg
    PROVE  Worked(u)'
<1> SUFFICES ASSUME NEW a \in Attempts
             PROVE  /\ job'[u][a] # "none" => a <= store'[u].attempts
                    /\ worker'[u][a].pc \in {"launched", "cleared"} => job'[u][a] = "none"
                    /\ worker'[u][a].pc \in {"readopted", "awaiting", "parked", "teardown"} =>
                           \A b \in Attempts : job'[u][b] = "live" => b = worker'[u][a].pg
                    /\ worker'[u][a].pc = "settling" => \A b \in Attempts : job'[u][b] # "live"
    BY DEF Worked, At
<1>1. job'[u][a] # "none" => a <= store'[u].attempts
    BY DEF Worked
<1>2. CASE worker'[u][a].pc \in {"none", "registered", "waking", "finishing"}
    BY <1>1, <1>2
<1>3. CASE worker'[u][a].pc = worker[u][a].pc /\ worker'[u][a].pg = worker[u][a].pg
    <2>1. worker'[u][a].pc \in {"launched", "cleared"} => job'[u][a] = "none"
        BY <1>3 DEF Worked, At
    <2>2. worker'[u][a].pc \in {"readopted", "awaiting", "parked", "teardown"} =>
              \A b \in Attempts : job'[u][b] = "live" => b = worker'[u][a].pg
        BY <1>3 DEF Worked
    <2>3. worker'[u][a].pc = "settling" => \A b \in Attempts : job'[u][b] # "live"
        BY <1>3 DEF Worked, At
    <2> QED
        BY <1>1, <2>1, <2>2, <2>3
<1> QED
    BY <1>2, <1>3

\* A step of one worker that keeps to the rules keeps the others to them.
LEMMA WorkedMoves ==
    ASSUME NEW t \in Tasks, NEW a \in Attempts, Worked(t),
           store'[t].attempts = store[t].attempts,
           \A b \in Attempts : b # a => worker'[t][b] = worker[t][b],
           \A b \in Attempts : \/ job'[t][b] = job[t][b]
                               \/ job[t][b] = "live" /\ job'[t][b] = "done",
           /\ worker'[t][a].pc \in {"launched", "cleared"} => job'[t][a] = "none"
           /\ worker'[t][a].pc \in {"readopted", "awaiting", "parked", "teardown"} =>
                  \A b \in Attempts : job'[t][b] = "live" => b = worker'[t][a].pg
           /\ worker'[t][a].pc = "settling" => \A b \in Attempts : job'[t][b] # "live"
    PROVE  Worked(t)'
<1> SUFFICES ASSUME NEW c \in Attempts
             PROVE  /\ job'[t][c] # "none" => c <= store'[t].attempts
                    /\ worker'[t][c].pc \in {"launched", "cleared"} => job'[t][c] = "none"
                    /\ worker'[t][c].pc \in {"readopted", "awaiting", "parked", "teardown"} =>
                           \A b \in Attempts : job'[t][b] = "live" => b = worker'[t][c].pg
                    /\ worker'[t][c].pc = "settling" => \A b \in Attempts : job'[t][b] # "live"
    BY DEF Worked, At
<1>1. job'[t][c] # "none" => c <= store'[t].attempts
    BY DEF Worked
<1>2. CASE c = a
    BY <1>1, <1>2
<1>3. CASE c # a
    <2>1. worker'[t][c] = worker[t][c]
        BY <1>3
    <2>2. worker'[t][c].pc \in {"launched", "cleared"} => job'[t][c] = "none"
        BY <2>1 DEF Worked, At
    <2>3. worker'[t][c].pc \in {"readopted", "awaiting", "parked", "teardown"} =>
              \A b \in Attempts : job'[t][b] = "live" => b = worker'[t][c].pg
        BY <2>1 DEF Worked
    <2>4. worker'[t][c].pc = "settling" => \A b \in Attempts : job'[t][b] # "live"
        BY <2>1 DEF Worked, At
    <2> QED
        BY <1>1, <2>2, <2>3, <2>4
<1> QED
    BY <1>2, <1>3


\* A worker touches one task, and nobody but itself; it begins no attempt.
LEMMA RunShape ==
    ASSUME Inv, NEW t \in Tasks, NEW a \in Attempts, Runs(t, a) \/ Timeout(t, a)
    PROVE  /\ \A v \in Tasks : v # t => store'[v] = store[v] /\ worker'[v] = worker[v]
           /\ \A v \in Tasks : v # t => job'[v] = job[v]
           /\ \A b \in Attempts : b # a => worker'[t][b] = worker[t][b]
           /\ store'[t].attempts = store[t].attempts
<1>0. /\ store[t] \in Records /\ store \in [Tasks -> Records]
      /\ worker \in [Tasks -> [Attempts -> Workers]] /\ worker[t][a] \in Workers
      /\ job \in [Tasks -> [Attempts -> {"none", "live", "done"}]]
    BY DEF Inv, TypeOK
<1>1. /\ \A v \in Tasks : v # t => worker'[v] = worker[v]
      /\ \A b \in Attempts : b # a => worker'[t][b] = worker[t][b]
    BY <1>0
    DEF Runs, ExecuteFails, ClearResult, StartFails, StartJob, RecordPGID, ReadoptFails,
        ReadoptRun, Await, PollTicks, TeardownStart, TeardownEnd, SettleError,
        SettleExhausted, SettleExit, WakeUp, Finish, Timeout, Goto, Ended
<1>2. \A v \in Tasks : v # t => job'[v] = job[v]
    BY <1>0
    DEF Runs, ExecuteFails, ClearResult, StartFails, StartJob, RecordPGID, ReadoptFails,
        ReadoptRun, Await, PollTicks, TeardownStart, TeardownEnd, SettleError,
        SettleExhausted, SettleExit, WakeUp, Finish, Timeout
<1>3. CASE ExecuteFails(t, a) \/ ReadoptFails(t, a) \/ SettleError(t, a)
    BY <1>1, <1>2, <1>3, GuardedUpdateShape
    DEF ExecuteFails, ReadoptFails, SettleError, Statuses, Terminal, Final
<1>4. CASE RecordPGID(t, a) \/ SettleExhausted(t, a) \/ SettleExit(t, a)
    <2>1. PICK r : Update(t, r) /\ r.attempts = store[t].attempts
        <3>1. /\ [store[t] EXCEPT !.pgid = a].attempts = store[t].attempts
              /\ [store[t] EXCEPT !.status = "blocked", !.on = "claude",
                                  !.pgid = 0].attempts = store[t].attempts
              /\ \A s : [store[t] EXCEPT !.status = s, !.pgid = 0].attempts = store[t].attempts
            BY <1>0 DEF Records
        <3> QED
            BY <1>4, <3>1 DEF RecordPGID, SettleExhausted, SettleExit
    <2> QED
        BY <1>0, <1>1, <1>2, <2>1 DEF Update
<1>5. CASE store' = store
    BY <1>1, <1>2, <1>5
<1> QED
    BY <1>3, <1>4, <1>5
    DEF Runs, ClearResult, StartFails, StartJob, ReadoptRun, Await, PollTicks,
        TeardownStart, TeardownEnd, WakeUp, Finish, Timeout

\* A worker keeps to the rules.
LEMMA WorkedWork ==
    ASSUME Inv, NEW u \in Tasks, Worked(u), Work
    PROVE  Worked(u)'
<1>1. PICK t \in Tasks, a \in Attempts : Runs(t, a) \/ Timeout(t, a)
    BY DEF Work
<1>2. /\ \A v \in Tasks : v # t => store'[v] = store[v] /\ worker'[v] = worker[v]
      /\ \A v \in Tasks : v # t => job'[v] = job[v]
      /\ \A b \in Attempts : b # a => worker'[t][b] = worker[t][b]
      /\ store'[t].attempts = store[t].attempts
    BY <1>1, RunShape
<1>3. CASE u # t
    BY <1>2, <1>3, WorkedKept
<1>4. ASSUME u = t PROVE Worked(t)'
    <2>0. /\ worker \in [Tasks -> [Attempts -> Workers]] /\ worker[t][a] \in Workers
          /\ job \in [Tasks -> [Attempts -> {"none", "live", "done"}]]
          /\ Consistent(t) /\ Worked(t)
        BY <1>4 DEF Inv, TypeOK
    <2>1. ASSUME NEW pc, Goto(t, a, pc)
          PROVE  worker'[t][a].pc = pc /\ worker'[t][a].pg = worker[t][a].pg
        BY <2>0, <2>1 DEF Goto, Workers
    <2>2. ASSUME NEW out, Ended(t, a, out) PROVE worker'[t][a].pc = "settling"
        BY <2>0, <2>2 DEF Ended, Workers
    <2>3. ASSUME UNCHANGED job, worker'[t][a].pc \in {"none", "waking", "finishing"}
          PROVE  Worked(t)'
        BY <1>2, <2>0, <2>3, WorkedMoves
    <2>4. ASSUME UNCHANGED job, worker'[t][a].pc = "settling",
                 \A b \in Attempts : job[t][b] # "live"
          PROVE  Worked(t)'
        BY <1>2, <2>0, <2>4, WorkedMoves
    <2>5. ASSUME UNCHANGED job, worker'[t][a].pc \in {"awaiting", "parked", "teardown"},
                 \A b \in Attempts : job[t][b] = "live" => b = worker'[t][a].pg
          PROVE  Worked(t)'
        BY <1>2, <2>0, <2>5, WorkedMoves
    <2>6. worker[t][a].pc \in {"readopted", "awaiting", "parked", "teardown"} =>
              \A b \in Attempts : job[t][b] = "live" => b = worker[t][a].pg
        BY <2>0 DEF Worked
    <2>7. worker[t][a].pc \in {"readopted", "awaiting", "parked", "teardown"}
              /\ ~Alive(t, worker[t][a].pg) => \A b \in Attempts : job[t][b] # "live"
        BY <2>6 DEF Alive
    <2>8. CASE \/ ExecuteFails(t, a) \/ ReadoptFails(t, a) \/ SettleError(t, a)
               \/ SettleExhausted(t, a) \/ SettleExit(t, a) \/ WakeUp(t, a)
        BY <2>1, <2>3, <2>8
        DEF ExecuteFails, ReadoptFails, SettleError, SettleExhausted, SettleExit, WakeUp
    <2>9. CASE Finish(t, a)
        BY <2>0, <2>3, <2>9 DEF Finish, NoWorker
    <2>10. CASE ClearResult(t, a)
        <3>1. worker'[t][a].pc = "cleared" /\ job' = job /\ job[t][a] = "none"
            BY <2>0, <2>1, <2>10 DEF ClearResult, Worked
        <3> QED
            BY <1>2, <2>0, <3>1, WorkedMoves
    <2>11. CASE StartFails(t, a)
        BY <2>0, <2>2, <2>4, <2>11 DEF StartFails, Consistent, WorkerReadsResult
    <2>12. CASE StartJob(t, a)
        <3>1. /\ worker'[t][a].pc = "started" /\ a = store[t].attempts
              /\ \A b \in Attempts : b # a => job'[t][b] = job[t][b]
            BY <2>0, <2>1, <2>12 DEF StartJob, Consistent, WatchedIsLatest, At, Watching
        <3>2. \A b \in Attempts : b # a => worker[t][b].pc \notin Watching
            BY <2>0, <3>1 DEF Consistent, WatchedIsLatest
        <3>3. \A b \in Attempts : worker'[t][b].pc \notin Watching \ {"started"}
            BY <1>2, <3>1, <3>2
        <3>4. \A b \in Attempts : job'[t][b] # "none" => b <= store'[t].attempts
            <4> SUFFICES ASSUME NEW b \in Attempts, job'[t][b] # "none"
                         PROVE  b <= store[t].attempts
                BY <1>2
            <4>1. CASE b = a
                BY <3>1, <4>1, BoundsAssumption DEF Attempts, BoundsAssumption
            <4>2. CASE b # a
                BY <2>0, <3>1, <4>2 DEF Worked
            <4> QED
                BY <4>1, <4>2
        <3> QED
            BY <3>3, <3>4 DEF Worked, At, Watching
    <2>13. CASE RecordPGID(t, a)
        <3>1. worker'[t][a].pc = "awaiting" /\ worker'[t][a].pg = a /\ job' = job
            BY <2>0, <2>13 DEF RecordPGID, Workers
        <3>2. a = store[t].attempts
            BY <2>0, <2>13 DEF RecordPGID, Consistent, WatchedIsLatest, At, Watching
        <3> QED
            BY <2>0, <2>5, <3>1, <3>2 DEF Consistent, LiveIsLatest
    <2>14. CASE Await(t, a)
        <3>1. job' = job /\ worker[t][a].pc = "awaiting"
            BY <2>14 DEF Await, At
        <3>2. CASE result[t].out # "none"
            BY <2>0, <2>2, <2>4, <2>14, <3>1, <3>2 DEF Await, Consistent, ReportIsLast
        <3>3. CASE result[t].out = "none" /\ Alive(t, worker[t][a].pg)
            BY <2>1, <2>5, <2>6, <2>14, <3>1, <3>3 DEF Await
        <3>4. CASE result[t].out = "none" /\ ~Alive(t, worker[t][a].pg)
            BY <2>2, <2>4, <2>7, <2>14, <3>1, <3>4 DEF Await
        <3> QED
            BY <3>2, <3>3, <3>4
    <2>15. CASE PollTicks(t, a) \/ ReadoptRun(t, a)
        BY <2>1, <2>5, <2>6, <2>15 DEF PollTicks, ReadoptRun, At
    <2>16. CASE TeardownStart(t, a)
        <3>1. job' = job /\ worker[t][a].pc = "parked"
            BY <2>16 DEF TeardownStart, At
        <3>2. CASE Alive(t, worker[t][a].pg)
            BY <2>1, <2>5, <2>6, <2>16, <3>1, <3>2 DEF TeardownStart
        <3>3. CASE ~Alive(t, worker[t][a].pg)
            BY <2>2, <2>4, <2>7, <2>16, <3>1, <3>3 DEF TeardownStart
        <3> QED
            BY <3>2, <3>3
    <2>17. CASE TeardownEnd(t, a)
        <3>1. worker[t][a].pc = "teardown" /\ worker'[t][a].pc = "settling"
            BY <2>2, <2>17 DEF TeardownEnd, At
        <3>2. \A b \in Attempts : /\ job'[t][b] # "live"
                                  /\ \/ job'[t][b] = job[t][b]
                                     \/ job[t][b] = "live" /\ job'[t][b] = "done"
            BY <2>0, <2>6, <2>7, <2>17, <3>1 DEF TeardownEnd, Alive
        <3> QED
            BY <1>2, <2>0, <3>1, <3>2, WorkedMoves
    <2>18. CASE Timeout(t, a)
        <3>1. /\ worker'[t][a].pc = worker[t][a].pc /\ worker'[t][a].pg = worker[t][a].pg
              /\ job' = job
            BY <2>0, <2>18 DEF Timeout, Workers
        <3>2. \A b \in Attempts : /\ worker'[t][b].pc = worker[t][b].pc
                                  /\ worker'[t][b].pg = worker[t][b].pg
            BY <1>2, <3>1
        <3> QED
            BY <1>2, <2>0, <3>1, <3>2, WorkedKept
    <2> QED
        BY <1>1, <2>8, <2>9, <2>10, <2>11, <2>12, <2>13, <2>14, <2>15, <2>16, <2>17, <2>18
        DEF Runs
<1> QED
    BY <1>3, <1>4

\* So do the callers, the admission loop, the jobs, a crash and the recovery: a
\* launch begins an attempt that has had no job, a re-adopted attempt is the last.
LEMMA WorkedStep ==
    ASSUME Inv, NEW u \in Tasks, Worked(u), [Next]_vars
    PROVE  Worked(u)'
<1>0. /\ store \in [Tasks -> Records] /\ \A v \in Tasks : store[v] \in Records
      /\ worker \in [Tasks -> [Attempts -> Workers]]
      /\ job \in [Tasks -> [Attempts -> {"none", "live", "done"}]]
      /\ \A v \in Tasks : Consistent(v)
    BY DEF Inv, TypeOK
<1>1. ASSUME UNCHANGED <<job, worker>>, store'[u].attempts = store[u].attempts
      PROVE  Worked(u)'
    BY <1>1, WorkedKept
<1>2. ASSUME NEW t \in Tasks, NEW s \in Statuses, UpdateUnlessTerminal(t, s),
             UNCHANGED <<job, worker>>
      PROVE  Worked(u)'
    BY <1>1, <1>2, GuardedUpdateShape
<1>3. CASE \E t \in Tasks : Submit(t) \/ Prune(t) \/ CancelLookup(t) \/ CancelUpdate(t)
    <2>1. PICK t \in Tasks : Submit(t) \/ Prune(t) \/ CancelLookup(t) \/ CancelUpdate(t)
        BY <1>3
    <2>2. CASE Submit(t) \/ Prune(t)
        <3>1. \A s : [store[t] EXCEPT !.status = s].attempts = store[t].attempts
            BY <1>0 DEF Records
        <3>2. PICK s : store' = [store EXCEPT ![t] = [store[t] EXCEPT !.status = s]]
            BY <1>0, <2>2 DEF Submit, Prune
        <3>3. store'[u].attempts = store[u].attempts
            BY <1>0, <3>1, <3>2
        <3> QED
            BY <1>1, <2>2, <3>3 DEF Submit, Prune
    <2>3. CASE CancelLookup(t)
        <3>1. \A a \in Attempts : /\ worker'[u][a].pc = worker[u][a].pc
                                  /\ worker'[u][a].pg = worker[u][a].pg
            BY <1>0, <2>3 DEF CancelLookup, Workers
        <3> QED
            BY <2>3, <3>1, WorkedKept DEF CancelLookup
    <2>4. CASE CancelUpdate(t)
        BY <1>2, <2>4 DEF CancelUpdate, Statuses, Terminal
    <2> QED
        BY <2>1, <2>2, <2>3, <2>4
<1>4. CASE Tick
    <2>1. CASE \E t \in Tasks : TickGated(t) \/ TickNoMemory(t) \/ TickNoCPU(t)
        <3>1. PICK t \in Tasks : TickGated(t) \/ TickNoMemory(t) \/ TickNoCPU(t)
            BY <2>1
        <3>2. t \in tick.todo /\ \E on : Block(t, on)
            BY <3>1 DEF TickGated, TickNoMemory, TickNoCPU, Admissible, Considering
        <3>3. store'[u].attempts = store[u].attempts
            BY <3>2, BlockShape
        <3> QED
            BY <1>1, <3>1, <3>3 DEF TickGated, TickNoMemory, TickNoCPU
    <2>2. ASSUME NEW t \in Tasks, LaunchUpdate(t) PROVE Worked(u)'
        <3> DEFINE a == store[t].attempts + 1
        <3>1. store[t].attempts \in Nat /\ store[t].attempts < MaxAttempts /\ t \in tick.todo
            BY <1>0, <2>2 DEF LaunchUpdate, Launching, Consistent, TodoIsFresh, Records
        <3>2. a \in Attempts
            BY <3>1, BoundsAssumption DEF Attempts, BoundsAssumption
        <3>3. CASE u # t
            BY <1>0, <2>2, <3>3, WorkedKept DEF LaunchUpdate
        <3>4. CASE u = t
            <4>1. /\ store'[t].attempts = a
                  /\ worker'[t][a].pc = "launched"
                  /\ \A b \in Attempts : b # a => worker'[t][b] = worker[t][b]
                  /\ job' = job
                <5>1. [store[t] EXCEPT !.status = "running", !.on = "nothing",
                                       !.attempts = a].attempts = a
                    BY <1>0 DEF Records
                <5>2. [worker[t][a] EXCEPT !.pc = "launched"].pc = "launched"
                    BY <1>0, <3>2 DEF Workers
                <5> QED
                    BY <1>0, <2>2, <3>2, <5>1, <5>2 DEF LaunchUpdate
            <4>2. \A b \in Attempts : job[t][b] # "none" => b <= store[t].attempts
                BY <3>4 DEF Worked
            <4>3. \A b \in Attempts : job'[t][b] # "none" => b <= a
                BY <3>1, <4>1, <4>2 DEF Attempts
            <4>4. job'[t][a] = "none"
                BY <1>0, <3>1, <3>2, <4>1, <4>2
            <4>5. \A b \in Attempts : b # a => worker'[t][b].pc \notin Watching
                BY <1>0, <3>1, <4>1 DEF Consistent, WatchedIsLatest
            <4> QED
                BY <3>4, <4>1, <4>3, <4>4, <4>5 DEF Worked, At, Watching
        <3> QED
            BY <3>3, <3>4
    <2>3. ASSUME NEW t \in Tasks, LaunchRegister(t) \/ LaunchAbandoned(t) PROVE Worked(u)'
        <3>1. /\ [NoWorker EXCEPT !.pc = "registered"].pc = "registered"
              /\ NoWorker.pc = "none"
            BY DEF NoWorker
        <3>2. PICK a, w : /\ worker' = [worker EXCEPT ![t][a] = w]
                          /\ w.pc \in {"none", "registered"}
            BY <2>3, <3>1 DEF LaunchRegister, LaunchAbandoned
        <3>3. \A b \in Attempts : \/ worker'[u][b].pc \in {"none", "registered"}
                                  \/ worker'[u][b] = worker[u][b]
            BY <1>0, <3>2
        <3>4. UNCHANGED <<store, job>>
            BY <2>3 DEF LaunchRegister, LaunchAbandoned
        <3> QED
            BY <3>3, <3>4, WorkedKept
    <2> QED
        BY <1>1, <1>4, <2>1, <2>2, <2>3
        DEF Tick, TickOnTimer, TickOnWake, TickStart, TickFull
<1>5. CASE Work
    BY <1>5, WorkedWork
<1>6. CASE Jobs
    <2>1. \A a \in Attempts : \/ job'[u][a] = job[u][a]
                              \/ job[u][a] = "live" /\ job'[u][a] = "done"
        BY <1>0, <1>6 DEF Jobs, JobReports, JobDies
    <2> QED
        BY <1>6, <2>1, WorkedKept DEF Jobs, JobReports, JobDies
<1>7. CASE Crash
    <2>1. \A a \in Attempts : worker'[u][a].pc = "none"
        BY <1>7 DEF Crash, NoWorker
    <2> QED
        BY <1>7, <2>1, WorkedKept DEF Crash
<1>8. ASSUME NEW t \in Tasks, Readopt(t) PROVE Worked(u)'
    <2> DEFINE a == store[t].attempts
               w == [NoWorker EXCEPT !.pc = "readopted", !.pg = store[t].pgid]
    <2>1. CASE u # t
        BY <1>0, <1>8, <2>1, WorkedKept DEF Readopt
    <2>2. CASE u = t
        <3>1. a \in Attempts
            <4>1. a # 0 /\ a \in 0..MaxAttempts
                BY <1>0, <1>8 DEF Readopt, NextToRecover, Consistent, RecoverIsRunning,
                   PendingIsFresh, Records
            <4> QED
                BY <4>1, BoundsAssumption DEF Attempts, BoundsAssumption
        <3>2. w.pc = "readopted" /\ w.pg = store[t].pgid
            BY DEF NoWorker
        <3>3. /\ worker'[t][a].pc = "readopted" /\ worker'[t][a].pg = store[t].pgid
              /\ \A b \in Attempts : b # a => worker'[t][b] = worker[t][b]
              /\ UNCHANGED <<store, job>>
            BY <1>0, <1>8, <3>1, <3>2 DEF Readopt
        <3>4. \A b \in Attempts : job[t][b] = "live" => b = store[t].pgid
            <4>1. CASE result[t].out # "none"
                BY <1>0, <4>1 DEF Consistent, ReportIsLast
            <4>2. CASE Alive(t, store[t].pgid)
                BY <1>0, <4>2 DEF Alive, Consistent, LiveIsLatest
            <4> QED
                BY <1>8, <4>1, <4>2 DEF Readopt
        <3> HIDE DEF a
        <3> QED
            BY <2>2, <3>1, <3>3, <3>4, WorkedMoves
    <2> QED
        BY <2>1, <2>2
<1>9. CASE GateReopens \/ Recover
    BY <1>1, <1>2, <1>8, <1>9
    DEF GateReopens, Recover, Start, Serve, RecoverLook, RecoverLost, Statuses, Terminal, Final
<1>10. CASE UNCHANGED vars
    BY <1>1, <1>10 DEF vars
<1> QED
    BY <1>3, <1>4, <1>5, <1>6, <1>7, <1>9, <1>10 DEF Next

\* What the goroutines know, in every reachable state.
AllWorked == \A t \in Tasks : Worked(t)

\* The goroutines are never wrong about it.
LEMMA WorkedHolds == Spec => []AllWorked
<1>1. Init => AllWorked
    BY BoundsAssumption
    DEF Init, AllWorked, Worked, At, NoWorker, NewRecord, Attempts, BoundsAssumption
<1>2. Inv /\ AllWorked /\ [Next]_vars => AllWorked'
    BY WorkedStep DEF AllWorked
<1> QED
    BY <1>1, <1>2, Invariance, PTL DEF Spec

-----------------------------------------------------------------------------
(* The scheduler implements the life of a task.                            *)

Phases == [t \in Tasks |-> Phase(t)]
Begun  == [t \in Tasks |-> store[t].attempts]

\* What the life of a task does not see.
LEMMA LifeStutter ==
    ASSUME \A v \in Tasks : Phase(v)' = Phase(v) /\ store'[v].attempts = store[v].attempts,
           UNCHANGED <<job, result>>
    PROVE  UNCHANGED Life!vars
<1>1. Phases' = Phases /\ Begun' = Begun
    BY DEF Phases, Begun
<1> QED
    BY <1>1 DEF Life!vars, Phases, Begun

\* Nor does it see a step that leaves the records alone.
LEMMA LifeKept ==
    ASSUME UNCHANGED <<store, job, result>>
    PROVE  UNCHANGED Life!vars
<1>1. \A v \in Tasks : Phase(v)' = Phase(v) /\ store'[v].attempts = store[v].attempts
    BY DEF Phase
<1> QED
    BY <1>1, LifeStutter

\* A step that changes the record of one task changes the phase of that task only.
LEMMA LifeMove ==
    ASSUME NEW t \in Tasks, NEW p, Phase(t)' = p,
           \A v \in Tasks : v # t => store'[v] = store[v],
           store'[t].attempts = store[t].attempts
    PROVE  Life!Enter(t, p) /\ Begun' = Begun
<1>1. \A v \in Tasks : v # t => Phase(v)' = Phase(v)
    BY DEF Phase
<1>2. Phases' = [Phases EXCEPT ![t] = p]
    BY <1>1 DEF Phases
<1>3. Begun' = Begun
    BY DEF Begun
<1> QED
    BY <1>2, <1>3 DEF Life!Enter, Phases

\* A record that keeps its phase keeps the life as it is.
LEMMA LifeStays ==
    ASSUME NEW t \in Tasks, Phase(t)' = Phase(t),
           \A v \in Tasks : v # t => store'[v] = store[v],
           store'[t].attempts = store[t].attempts,
           UNCHANGED <<job, result>>
    PROVE  UNCHANGED Life!vars
<1>1. \A v \in Tasks : v # t => Phase(v)' = Phase(v)
    BY DEF Phase
<1> QED
    BY <1>1, LifeStutter

\* A fresh task may be begun.
LEMMA FreshMayBegin ==
    ASSUME Inv, NEW t \in Tasks, Fresh(t)
    PROVE  Life!MayBegin(t)
<1>1. \A a \in Attempts : job[t][a] # "live"
    BY DEF Inv, Consistent, LiveIsLatest, ReportIsLast, Fresh, Attempts
<1> QED
    BY <1>1 DEF Life!MayBegin, Life!Quiet, Fresh

\* A guarded update ends a task that is not over yet, or does nothing.
LEMMA GuardedLife ==
    ASSUME Inv, NEW t \in Tasks, NEW s \in {"cancelled", "failed", "lost"},
           UpdateUnlessTerminal(t, s), UNCHANGED <<job, result>>,
           s # "cancelled" => store[t].status \notin Pending,
           s = "failed" => \A a \in Attempts : job[t][a] # "live"
    PROVE  [Life!Next]_Life!vars
<1>0. s \in Statuses /\ store[t] \in Records
    BY DEF Statuses, Terminal, Final, Inv, TypeOK
<1>1. /\ \A v \in Tasks : v # t => store'[v] = store[v]
      /\ store'[t].attempts = store[t].attempts
      /\ \/ store'[t] = store[t]
         \/ /\ store'[t].status = s
            /\ store[t].status \notin Terminal \cup {"none", "pruned"}
    BY <1>0, GuardedUpdateShape
<1>2. CASE store'[t] = store[t]
    <2>1. Phase(t)' = Phase(t)
        BY <1>2 DEF Phase
    <2> QED
        BY <1>1, <2>1, LifeStays
<1>3. CASE store'[t] # store[t]
    <2>1. store'[t].status = s /\ store[t].status \in Pending \cup {"running"}
        BY <1>0, <1>1, <1>3 DEF Records, Statuses
    <2>2. Phase(t)' = s /\ Phase(t) \in {"waiting", "running"}
        BY <2>1 DEF Phase, Pending
    <2>3. s # "cancelled" => Phase(t) = "running"
        BY <2>1 DEF Phase, Pending
    <2>4. Life!Enter(t, s) /\ Begun' = Begun
        BY <1>1, <2>2, LifeMove
    <2>5. Life!Cancel(t) \/ Life!Fail(t) \/ Life!Lose(t)
        BY <2>2, <2>3, <2>4 DEF Life!Cancel, Life!Fail, Life!Lose, Life!Quiet, Begun
    <2> QED
        BY <2>5 DEF Life!Next
<1> QED
    BY <1>2, <1>3

\* What the callers do to the life of a task.
LEMMA CallersLife ==
    ASSUME Inv, NEW t \in Tasks,
           Submit(t) \/ Prune(t) \/ CancelLookup(t) \/ CancelUpdate(t)
    PROVE  [Life!Next]_Life!vars
<1>0. store \in [Tasks -> Records] /\ store[t] \in Records /\ result \in [Tasks -> Results]
    BY DEF Inv, TypeOK
<1>1. \A s : /\ [store[t] EXCEPT !.status = s].attempts = store[t].attempts
             /\ [store[t] EXCEPT !.status = s].status = s
    BY <1>0 DEF Records
<1>2. CASE Submit(t)
    <2>1. /\ \A v \in Tasks : v # t => store'[v] = store[v]
          /\ store'[t].attempts = store[t].attempts /\ store'[t].status = "queued"
          /\ store[t].status = "none" /\ UNCHANGED <<job, result>>
        BY <1>0, <1>1, <1>2 DEF Submit
    <2>2. Phase(t)' = "waiting" /\ Phase(t) = "none"
        BY <2>1 DEF Phase, Pending
    <2>3. Life!Enter(t, "waiting") /\ Begun' = Begun
        BY <2>1, <2>2, LifeMove
    <2>4. Life!Submit(t)
        BY <2>1, <2>2, <2>3 DEF Life!Submit, Begun
    <2> QED
        BY <2>4 DEF Life!Next
<1>3. CASE Prune(t)
    <2>1. /\ \A v \in Tasks : v # t => store'[v] = store[v]
          /\ store'[t].attempts = store[t].attempts /\ store'[t].status = "pruned"
          /\ store[t].status \in Terminal /\ job' = job
          /\ result' = [result EXCEPT ![t] = NoResult]
        BY <1>0, <1>1, <1>3 DEF Prune
    <2>2. Phase(t)' = "gone" /\ Phase(t) \in Life!Over
        BY <2>1 DEF Phase, Pending, Terminal, Final, Life!Over
    <2>3. Life!Enter(t, "gone") /\ Begun' = Begun
        BY <2>1, <2>2, LifeMove
    <2>4. Life!Drop(t)
        BY <2>1, <2>2, <2>3 DEF Life!Drop, Life!Nothing, NoResult, Begun
    <2> QED
        BY <2>4 DEF Life!Next
<1>4. CASE CancelLookup(t)
    BY <1>4, LifeKept DEF CancelLookup
<1>5. CASE CancelUpdate(t)
    BY <1>5, GuardedLife DEF CancelUpdate
<1> QED
    BY <1>2, <1>3, <1>4, <1>5

\* The admission loop begins an attempt of a task that may be begun; where it blocks a
\* task that a cancel has just ended, it puts it back.
LEMMA TickLife ==
    ASSUME Inv, AllWorked, Tick
    PROVE  [Life!Next]_Life!vars
<1>0. /\ store \in [Tasks -> Records] /\ \A v \in Tasks : store[v] \in Records
      /\ \A v \in Tasks : Consistent(v)
    BY DEF Inv, TypeOK
<1>1. ASSUME NEW t \in Tasks, t \in tick.todo
      PROVE  /\ store[t].status \in Pending \cup {"cancelled", "pruned"}
             /\ store[t].status = "pruned" \/ Life!MayBegin(t)
    <2>1. TodoIsFresh(t)
        BY <1>0 DEF Consistent
    <2> QED
        BY <1>1, <2>1, FreshMayBegin DEF TodoIsFresh
<1>2. ASSUME NEW t \in Tasks, NEW on, Block(t, on), t \in tick.todo, UNCHANGED <<job, result>>
      PROVE  [Life!Next]_Life!vars
    <2>1. /\ \A v \in Tasks : v # t => store'[v] = store[v]
          /\ store'[t].attempts = store[t].attempts
          /\ store'[t].status \in {store[t].status, "blocked"}
          /\ store[t].status = "pruned" => store'[t].status = "pruned"
        BY <1>2, BlockShape
    <2>2. CASE Phase(t)' = Phase(t)
        BY <1>2, <2>1, <2>2, LifeStays
    <2>3. CASE Phase(t)' # Phase(t)
        <3>1. store'[t].status = "blocked" /\ store[t].status = "cancelled"
            BY <1>1, <1>2, <2>1, <2>3 DEF Phase, Pending
        <3>2. Phase(t)' = "waiting" /\ Phase(t) = "cancelled"
            BY <3>1 DEF Phase, Pending
        <3>3. Life!Enter(t, "waiting") /\ Begun' = Begun
            BY <2>1, <3>2, LifeMove
        <3>4. Life!PutBack(t)
            BY <1>1, <1>2, <3>1, <3>2, <3>3 DEF Life!PutBack, Begun
        <3> QED
            BY <3>4 DEF Life!Next
    <2> QED
        BY <2>2, <2>3
<1>3. ASSUME NEW t \in Tasks, TickGated(t) \/ TickNoMemory(t) \/ TickNoCPU(t)
      PROVE  [Life!Next]_Life!vars
    <2>1. t \in tick.todo /\ \E on : Block(t, on)
        BY <1>3 DEF TickGated, TickNoMemory, TickNoCPU, Admissible, Considering
    <2> QED
        BY <1>2, <1>3, <2>1 DEF TickGated, TickNoMemory, TickNoCPU
<1>4. ASSUME NEW t \in Tasks, LaunchUpdate(t) PROVE [Life!Next]_Life!vars
    <2> DEFINE r == [store[t] EXCEPT !.status = "running", !.on = "nothing",
                                     !.attempts = store[t].attempts + 1]
    <2>1. t \in tick.todo /\ store' = [store EXCEPT ![t] = r] /\ UNCHANGED <<job, result>>
          /\ store[t].status # "pruned"
        BY <1>4 DEF LaunchUpdate, Launching, Exists
    <2>2. r.status = "running" /\ r.attempts = store[t].attempts + 1
        BY <1>0 DEF Records
    <2> HIDE DEF r
    <2>3. /\ \A v \in Tasks : v # t => store'[v] = store[v]
          /\ store'[t].status = "running" /\ store'[t].attempts = store[t].attempts + 1
        BY <1>0, <2>1, <2>2
    <2>4. Phase(t)' = "running" /\ \A v \in Tasks : v # t => Phase(v)' = Phase(v)
        BY <2>3 DEF Phase, Pending
    <2>5. Phase(t) \in {"waiting", "cancelled"} /\ Life!MayBegin(t)
        BY <1>1, <2>1 DEF Phase, Pending
    <2>6. Phases' = [Phases EXCEPT ![t] = "running"]
        BY <2>4 DEF Phases
    <2>7. Begun' = [Begun EXCEPT ![t] = @ + 1]
        BY <2>3 DEF Begun
    <2>8. Life!Begin(t)
        BY <2>1, <2>5, <2>6, <2>7 DEF Life!Begin, Life!Enter, Phases, Begun
    <2> QED
        BY <2>8 DEF Life!Next
<1>5. CASE UNCHANGED <<store, job, result>>
    BY <1>5, LifeKept
<1> QED
    BY <1>3, <1>4, <1>5
    DEF Tick, TickOnTimer, TickOnWake, TickStart, TickFull, LaunchRegister, LaunchAbandoned

\* What a worker says of its task is what the task's job has said, or that no job of it
\* is alive any more.
LEMMA RunLife ==
    ASSUME Inv, AllWorked, NEW t \in Tasks, NEW a \in Attempts, Runs(t, a) \/ Timeout(t, a)
    PROVE  [Life!Next]_Life!vars
<1>0. /\ store \in [Tasks -> Records] /\ store[t] \in Records /\ result[t] \in Results
      /\ job \in [Tasks -> [Attempts -> {"none", "live", "done"}]]
      /\ Consistent(t) /\ Worked(t)
    BY DEF Inv, TypeOK, AllWorked
<1>1. worker[t][a].pc \in Watching =>
          a = store[t].attempts /\ store[t].status \in {"running", "cancelled", "pruned"}
    BY <1>0 DEF Consistent, WatchedIsLatest
<1>2. At(t, a, "settling") => \A b \in Attempts : job[t][b] # "live"
    BY <1>0 DEF Worked
<1>3. CASE ExecuteFails(t, a)
    <2>1. \A b \in Attempts : job[t][b] # "live"
        BY <1>0, <1>3 DEF ExecuteFails, Consistent, WorkerReadsResult
    <2> QED
        BY <1>1, <1>3, <2>1, GuardedLife DEF ExecuteFails, At, Watching, Pending
<1>4. CASE ReadoptFails(t, a)
    BY <1>1, <1>4, GuardedLife DEF ReadoptFails, At, Watching, Pending
<1>5. CASE SettleError(t, a)
    BY <1>1, <1>2, <1>5, GuardedLife DEF SettleError, At, Watching, Pending
<1>6. CASE ClearResult(t, a)
    <2>1. a = store[t].attempts /\ a # 0 /\ job[t][a] = "none"
          /\ store[t].status \in {"running", "cancelled", "pruned"}
        BY <1>0, <1>1, <1>6 DEF ClearResult, At, Watching, Worked, Attempts
    <2>2. Phase(t) \in {"running", "cancelled", "gone"}
        BY <2>1 DEF Phase, Pending
    <2>3. Phases' = Phases /\ Begun' = Begun /\ job' = job
          /\ result' = [result EXCEPT ![t] = NoResult]
        BY <1>6 DEF ClearResult, Phases, Begun, Phase
    <2>4. Life!Forget(t)
        BY <2>1, <2>2, <2>3
        DEF Life!Forget, Life!Idle, Life!Nothing, NoResult, Phases, Begun
    <2> QED
        BY <2>4 DEF Life!Next
<1>7. CASE StartJob(t, a)
    <2>1. /\ a = store[t].attempts /\ a # 0 /\ job[t][a] = "none"
          /\ store[t].status \in {"running", "cancelled"}
          /\ result[t].out = "none" /\ \A b \in Attempts : job[t][b] # "live"
        BY <1>0, <1>1, <1>7
        DEF StartJob, At, Watching, Worked, Attempts, Exists, Consistent, WorkerReadsResult
    <2>2. Phase(t) \in {"running", "cancelled"}
        BY <2>1 DEF Phase, Pending
    <2>3. Phases' = Phases /\ Begun' = Begun /\ result' = result
          /\ job' = [job EXCEPT ![t][a] = "live"]
        BY <1>7 DEF StartJob, Phases, Begun, Phase
    <2>4. Life!StartJob(t)
        BY <2>1, <2>2, <2>3
        DEF Life!StartJob, Life!Idle, Life!Quiet, Phases, Begun
    <2> QED
        BY <2>4 DEF Life!Next
<1>8. CASE RecordPGID(t, a)
    <2>1. /\ [store[t] EXCEPT !.pgid = a].status = store[t].status
          /\ [store[t] EXCEPT !.pgid = a].attempts = store[t].attempts
        BY <1>0 DEF Records
    <2>2. /\ \A v \in Tasks : v # t => store'[v] = store[v]
          /\ store'[t].status = store[t].status /\ store'[t].attempts = store[t].attempts
          /\ UNCHANGED <<job, result>>
        BY <1>0, <1>8, <2>1 DEF RecordPGID, Update
    <2>3. Phase(t)' = Phase(t)
        BY <2>2 DEF Phase
    <2> QED
        BY <2>2, <2>3, LifeStays
<1>9. CASE SettleExhausted(t, a)
    <2> DEFINE back == [store[t] EXCEPT !.status = "blocked", !.on = "claude", !.pgid = 0]
    <2>1. back.status = "blocked" /\ back.attempts = store[t].attempts
        BY <1>0 DEF Records
    <2>2. Update(t, back) /\ UNCHANGED <<job, result>>
        BY <1>9 DEF SettleExhausted
    <2> HIDE DEF back
    <2>3. store' = store \/ (Exists(t) /\ store' = [store EXCEPT ![t] = back])
        BY <2>2 DEF Update
    <2>4. CASE store' = store
        BY <2>2, <2>4, LifeKept
    <2>5. CASE Exists(t) /\ store' = [store EXCEPT ![t] = back]
        <3>1. /\ \A v \in Tasks : v # t => store'[v] = store[v]
              /\ store'[t].status = "blocked" /\ store'[t].attempts = store[t].attempts
            BY <1>0, <2>1, <2>5
        <3>2. store[t].status \in {"running", "cancelled"}
            BY <1>1, <1>9, <2>5 DEF SettleExhausted, At, Watching, Exists
        <3>3. result[t].out = "limit"
            BY <1>0, <1>9, <3>2 DEF SettleExhausted, Consistent, WorkerReadsResult
        <3>4. Life!MayBegin(t)
            BY <3>3, FreshMayBegin DEF Fresh
        <3>5. Phase(t)' = "waiting" /\ Phase(t) \in {"running", "cancelled"}
            BY <3>1, <3>2 DEF Phase, Pending
        <3>6. Life!Enter(t, "waiting") /\ Begun' = Begun
            BY <3>1, <3>5, LifeMove
        <3>7. Life!PutBack(t)
            BY <2>2, <3>4, <3>5, <3>6 DEF Life!PutBack, Begun
        <3> QED
            BY <3>7 DEF Life!Next
    <2> QED
        BY <2>3, <2>4, <2>5
<1>10. CASE SettleExit(t, a)
    <2> DEFINE s == IF worker[t][a].out = "ok" THEN "succeeded" ELSE "failed"
               final == [store[t] EXCEPT !.status = s, !.pgid = 0]
    <2>1. final.status = s /\ final.attempts = store[t].attempts
        BY <1>0 DEF Records
    <2>2. /\ Update(t, IF store[t].status \in Terminal THEN store[t] ELSE final)
          /\ UNCHANGED <<job, result>> /\ At(t, a, "settling")
        BY <1>10 DEF SettleExit
    <2> HIDE DEF final
    <2>3. store' = store \/ ( /\ Exists(t) /\ store[t].status \notin Terminal
                              /\ store' = [store EXCEPT ![t] = final])
        BY <1>0, <2>2 DEF Update
    <2>4. CASE store' = store
        BY <2>2, <2>4, LifeKept
    <2>5. CASE Exists(t) /\ store[t].status \notin Terminal
               /\ store' = [store EXCEPT ![t] = final]
        <3>1. /\ \A v \in Tasks : v # t => store'[v] = store[v]
              /\ store'[t].status = s /\ store'[t].attempts = store[t].attempts
            BY <1>0, <2>1, <2>5
        <3>2. store[t].status = "running"
            BY <1>1, <2>2, <2>5 DEF At, Watching, Exists, Terminal
        <3>3. Phase(t)' = s /\ Phase(t) = "running"
            BY <3>1, <3>2 DEF Phase, Pending
        <3>4. Life!Enter(t, s) /\ Begun' = Begun
            BY <3>1, <3>3, LifeMove
        <3>5. Life!Quiet(t)
            BY <1>2, <2>2 DEF Life!Quiet
        <3>6. CASE worker[t][a].out # "ok"
            <4>1. Life!Fail(t)
                BY <2>2, <3>3, <3>4, <3>5, <3>6 DEF Life!Fail, Begun
            <4> QED
                BY <4>1 DEF Life!Next
        <3>7. CASE worker[t][a].out = "ok"
            <4>1. result[t].out = "ok"
                BY <1>0, <2>2, <3>2, <3>7 DEF Consistent, WorkerReadsResult
            <4>2. result[t].by = store[t].attempts
                BY <1>0, <4>1 DEF Consistent, ReportIsLast
            <4>3. result[t] = [out |-> "ok", by |-> store[t].attempts]
                BY <1>0, <4>1, <4>2 DEF Results
            <4>4. Life!Succeed(t)
                BY <2>2, <3>3, <3>4, <3>5, <3>7, <4>3 DEF Life!Succeed, Begun
            <4> QED
                BY <4>4 DEF Life!Next
        <3> QED
            BY <3>6, <3>7
    <2> QED
        BY <2>3, <2>4, <2>5
<1>11. CASE TeardownEnd(t, a)
    <2> DEFINE pg == worker[t][a].pg
    <2>1. CASE ~Alive(t, pg)
        BY <1>11, <2>1, LifeKept DEF TeardownEnd
    <2>2. CASE Alive(t, pg)
        <3>1. pg \in Attempts /\ job[t][pg] = "live" /\ job' = [job EXCEPT ![t][pg] = "done"]
            BY <1>11, <2>2 DEF TeardownEnd, Alive
        <3>2. Phases' = Phases /\ Begun' = Begun /\ result' = result
            BY <1>11 DEF TeardownEnd, Phases, Begun, Phase
        <3>3. Life!End(t, pg)
            BY <3>1, <3>2 DEF Life!End, Phases, Begun
        <3> QED
            BY <3>1, <3>3 DEF Life!Next
    <2> QED
        BY <2>1, <2>2
<1>12. CASE UNCHANGED <<store, job, result>>
    BY <1>12, LifeKept
<1> QED
    BY <1>3, <1>4, <1>5, <1>6, <1>7, <1>8, <1>9, <1>10, <1>11, <1>12
    DEF Runs, StartFails, ReadoptRun, Await, PollTicks, TeardownStart, WakeUp, Finish, Timeout

\* A job speaks or ends; where its task is gone, it only ends.
LEMMA JobsLife ==
    ASSUME Inv, Jobs
    PROVE  [Life!Next]_Life!vars
<1>1. PICK t \in Tasks, a \in Attempts :
          JobDies(t, a) \/ \E out \in Outcomes : JobReports(t, a, out)
    BY DEF Jobs
<1>2. /\ job[t][a] = "live" /\ job' = [job EXCEPT ![t][a] = "done"]
      /\ Phases' = Phases /\ Begun' = Begun
    BY <1>1 DEF JobDies, JobReports, Phases, Begun, Phase
<1>3. CASE result' = result
    <2>1. Life!End(t, a)
        BY <1>2, <1>3 DEF Life!End, Phases, Begun
    <2> QED
        BY <2>1 DEF Life!Next
<1>4. CASE result' # result
    <2>1. PICK out \in Outcomes : JobReports(t, a, out)
        BY <1>1, <1>4 DEF JobDies
    <2>2. Exists(t) /\ result' = [result EXCEPT ![t] = [out |-> out, by |-> a]]
        BY <1>4, <2>1 DEF JobReports
    <2>3. a = store[t].attempts
        BY <1>2 DEF Inv, Consistent, LiveIsLatest
    <2>4. Phase(t) # "gone"
        <3>1. store[t].status \in Statuses
            BY RecordTypes DEF Inv, TypeOK
        <3> QED
            BY <2>2, <3>1 DEF Phase, Exists, Statuses, Terminal, Final, Pending
    <2>5. Life!Speak(t, a)
        BY <1>2, <2>2, <2>3, <2>4 DEF Life!Speak, Phases, Begun
    <2> QED
        BY <2>5 DEF Life!Next
<1> QED
    BY <1>3, <1>4

\* A restart gives up a job it does not find, and leaves all else as it is.
LEMMA RecoverLife ==
    ASSUME Inv, GateReopens \/ Crash \/ Recover
    PROVE  [Life!Next]_Life!vars
<1>1. ASSUME NEW t \in Tasks, RecoverLost(t) PROVE [Life!Next]_Life!vars
    <2>1. store[t].status = "running"
        BY <1>1 DEF RecoverLost, NextToRecover, Inv, Consistent, RecoverIsRunning
    <2> QED
        BY <1>1, <2>1, GuardedLife DEF RecoverLost, Pending
<1> QED
    BY <1>1, LifeKept
    DEF GateReopens, Crash, Recover, Start, Serve, RecoverLook, Readopt

\* The scheduler, the supervisor, the jobs and the restarts implement the life of a
\* task, whatever writes of records fail.
THEOREM LifeIsKept == Spec => KeepsToLife
<1>1. Init => Life!Init
    BY DEF Init, Life!Init, Life!Nothing, Phase, Pending, NewRecord, NoResult
<1>2. Inv /\ AllWorked /\ [Next]_vars => [Life!Next]_Life!vars
    <2> SUFFICES ASSUME Inv, AllWorked, [Next]_vars PROVE [Life!Next]_Life!vars
        OBVIOUS
    <2>1. CASE UNCHANGED vars
        BY <2>1, LifeKept DEF vars
    <2>2. CASE Next
        BY <2>2, CallersLife, TickLife, RunLife, JobsLife, RecoverLife DEF Next, Work
    <2> QED
        BY <2>1, <2>2
<1> QED
    BY <1>1, <1>2, Invariance, WorkedHolds, PTL DEF Spec, KeepsToLife, Life!Spec
=============================================================================
