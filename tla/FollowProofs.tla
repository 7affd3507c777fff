---------------------------- MODULE FollowProofs ----------------------------
(***************************************************************************)
(* Theorems about the commands that follow a task, for any number of them, *)
(* any exit codes, any length of the log and any number of troubles.       *)
(***************************************************************************)
EXTENDS Follow, TLAPS

-----------------------------------------------------------------------------
(* The inductive invariant.                                                *)

\* A verdict that nothing takes back; a cancel is none, because the job that was
\* cancelled may still report the end of usage.
Lasting == {"succeeded", "failed", "lost"}

\* A task with a verdict has no job that would settle it again, a task that waits
\* has none at all, and what an attempt has left half copied is not passed on.
TaskInv ==
    /\ task.status \in Lasting => job \in {"none", "left"}
    /\ task.status \in {"none", "queued"} => job = "none"
    /\ task.status = "failed" /\ ~task.error => task.exit # 0
    /\ (\/ task.status \in {"none", "queued", "succeeded"}
        \/ job \in {"starting", "runs", "collected", "reported"})
           => artifacts # "partial" \/ warned

\* What a command has read of a verdict is still so, what it exits with is made of
\* that, and if the task succeeded its artifacts are not half copied, neither while
\* they are sent nor when they are there.
ClientInv(c) ==
    /\ client[c].final.status \in Lasting =>
           /\ client[c].final.status = task.status /\ client[c].final.exit = task.exit
           /\ client[c].final.error = task.error
    /\ client[c].kind = "run" /\ client[c].pc = "over" =>
           \/ client[c].told \in {InvalidSpec, Unreachable, InternalError}
           \/ client[c].told = Report(client[c].final)
    /\ client[c].kind = "run" /\ client[c].pc = "over" /\ client[c].told = OK =>
           client[c].got # "partial" \/ warned
    /\ client[c].kind = "run" /\ client[c].pc = "walk" /\ Report(client[c].final) = OK =>
           client[c].got # "partial" \/ warned

IInv == TypeOK /\ TaskInv /\ \A c \in Clients : ClientInv(c)

-----------------------------------------------------------------------------
(* The records, and what changes them.                                     *)

Records == [status : Statuses, exit : Codes, error : BOOLEAN, stored : BOOLEAN]

PCs == {"idle", "wait", "open", "ask", "fetch", "walk", "over"} \cup Streaming

Kinds == {"none", "run", "detach", "print", "follow", "fetch", "unpack", "cancel"}

Tolds == {OK, InvalidSpec, NoSuchFile, Unreachable, InternalError, Cancelled, CouldNotStart}
             \cup (Codes \ (64..127)) \cup {1}

Commands == [pc : PCs, kind : Kinds, offset : 0..MaxLog, told : Tolds,
             final : Outcome, got : Gots]

\* The daemon's part of the type invariant.
DaemonOK ==
    /\ up \in BOOLEAN /\ warned \in BOOLEAN /\ task \in Records
    /\ log \in 0..MaxLog /\ atEnd \in 0..log
    /\ artifacts \in {"none", "partial", "whole"}
    /\ job \in {"none", "starting", "runs", "collects", "collected", "reported", "broken",
               "gone", "told", "left"}
    /\ result \in Codes

\* The type invariant is that of the daemon, of the commands and of the troubles.
LEMMA TypeParts ==
    TypeOK <=> /\ DaemonOK /\ client \in [Clients -> Commands]
               /\ trouble \in 0..MaxTrouble
BY DEF TypeOK, DaemonOK, Commands, PCs, Kinds, Tolds, Records

\* What `kranq run` reports is an exit code of its own or one of a script.
LEMMA ReportType ==
    ASSUME NEW t \in Outcome
    PROVE  Report(t) \in Tolds
<1>1. t.exit \in Codes
  BY DEF Outcome
<1>2. FromTask(t.exit) \in Tolds
  BY <1>1 DEF FromTask, Tolds
<1>. QED
  BY <1>2 DEF Report, Tolds, OK, Cancelled, CouldNotStart, InternalError

\* Settle leaves the record and the end alone, or gives it its first final status.
LEMMA SettleFacts ==
    ASSUME DaemonOK, NEW s \in Final, NEW e \in Codes, NEW b \in BOOLEAN, Settle(s, e, b)
    PROVE  /\ task' \in Records /\ atEnd' \in 0..log
           /\ \/ task' = task
              \/ /\ task.status \notin Final
                 /\ task'.status = s /\ task'.exit = e /\ task'.error = b
<1>1. task \in Records /\ log \in 0..MaxLog /\ atEnd \in 0..log
  BY DEF DaemonOK
<1>2. CASE task.stored /\ task.status \notin Final
  <2>1. task' = [task EXCEPT !.status = s, !.exit = e, !.error = b] /\ atEnd' = log
    BY <1>2 DEF Settle
  <2>2. s \in Statuses
    BY DEF Statuses
  <2>3. task'.status = s /\ task'.exit = e /\ task'.error = b /\ task' \in Records
    BY <1>1, <2>1, <2>2 DEF Records
  <2>. QED
    BY <1>1, <1>2, <2>1, <2>3, BoundsAssumption
<1>3. CASE ~(task.stored /\ task.status \notin Final)
  BY <1>1, <1>3 DEF Settle
<1>. QED
  BY <1>2, <1>3

\* One record field changed: the others are as they were.
LEMMA StatusFacts ==
    ASSUME NEW r \in Records, NEW s \in Statuses
    PROVE  LET n == [r EXCEPT !.status = s]
           IN  /\ n \in Records /\ n.status = s
               /\ n.exit = r.exit /\ n.error = r.error
BY DEF Records

-----------------------------------------------------------------------------
(* The daemon's part of a step.                                            *)

Good == DaemonOK /\ TaskInv

\* A verdict stays what it is, and a warning stays in the log.
Stays ==
    /\ warned => warned'
    /\ task.status \in Lasting =>
           task'.status = task.status /\ task'.exit = task.exit /\ task'.error = task.error

\* Nothing changes but what the commands know.
LEMMA NothingMoves ==
    ASSUME Good, UNCHANGED daemonVars
    PROVE  Good' /\ Stays
BY DEF Good, Stays, DaemonOK, TaskInv, daemonVars

\* What the record, the job and the log have to do with one another after a step
\* that settles the task and leaves nothing to settle it again.
LEMMA SettledMoves ==
    ASSUME Good, NEW s \in Final, NEW e \in Codes, NEW b \in BOOLEAN, Settle(s, e, b),
           job' \in {"none", "left"}, task.status \notin {"none", "queued"},
           s = "failed" /\ ~b => e # 0,
           s = "succeeded" => artifacts # "partial" \/ warned,
           up' \in BOOLEAN, UNCHANGED <<log, artifacts, warned, result>>
    PROVE  Good' /\ Stays
<1>1. DaemonOK /\ TaskInv
  BY DEF Good
<1>2. /\ task' \in Records /\ atEnd' \in 0..log
      /\ \/ task' = task
         \/ /\ task.status \notin Final
            /\ task'.status = s /\ task'.exit = e /\ task'.error = b
  BY <1>1, SettleFacts
<1>3. DaemonOK'
  BY <1>1, <1>2 DEF DaemonOK
<1>4. CASE task' = task
  BY <1>1, <1>3, <1>4 DEF Good, Stays, TaskInv, Lasting
<1>5. CASE /\ task.status \notin Final
           /\ task'.status = s /\ task'.exit = e /\ task'.error = b
  <2>1. Stays
    BY <1>5 DEF Stays, Lasting, Final
  <2>2. TaskInv'
    BY <1>1, <1>5 DEF TaskInv, Lasting, Final
  <2>. QED
    BY <1>3, <2>1, <2>2 DEF Good
<1>. QED
  BY <1>2, <1>4, <1>5

\* What the job does: the record waits for it to be over.
LEMMA JobMoves ==
    ASSUME Good,
           StartJob \/ JobWrites \/ Collect \/ Collected \/ JobReports \/ JobBreaks
               \/ SettleErrorSays
    PROVE  Good' /\ Stays
<1>1. DaemonOK /\ TaskInv
  BY DEF Good
<1>2. task' = task
  BY DEF StartJob, JobWrites, Collect, Collected, JobReports, JobBreaks, SettleErrorSays
<1>3. log' \in 0..MaxLog /\ log <= log' /\ atEnd' = atEnd /\ up' = up
  BY <1>1, BoundsAssumption
     DEF DaemonOK, StartJob, JobWrites, Collect, Collected, JobReports, JobBreaks,
         SettleErrorSays, Says
<1>4. /\ artifacts' \in {"none", "partial", "whole"} /\ warned' \in BOOLEAN
      /\ result' \in Codes
  BY <1>1 DEF DaemonOK, StartJob, JobWrites, Collect, Collected, JobReports, JobBreaks,
              SettleErrorSays
<1>10. warned => warned'
  BY <1>1 DEF DaemonOK, StartJob, JobWrites, Collect, Collected, JobReports, JobBreaks,
              SettleErrorSays
<1>5. /\ job' \in {"runs", "left", "collects", "collected", "reported", "broken", "gone", "told"}
      /\ job' = "left" => job = "left"
      /\ job = "none" => FALSE
      /\ job = "left" => job' = "left" /\ artifacts' = artifacts /\ warned' = warned
  BY DEF StartJob, JobWrites, Collect, Collected, JobReports, JobBreaks, SettleErrorSays, Alive
<1>6. DaemonOK'
  <2>1. atEnd' \in 0..log'
    BY <1>1, <1>3, BoundsAssumption DEF DaemonOK
  <2>2. up' \in BOOLEAN /\ task' \in Records
    BY <1>1, <1>2, <1>3 DEF DaemonOK
  <2>3. job' \in {"none", "starting", "runs", "collects", "collected", "reported", "broken",
                 "gone", "told", "left"}
    BY <1>5
  <2>. QED
    BY <1>3, <1>4, <2>1, <2>2, <2>3 DEF DaemonOK
<1>7. Stays
  BY <1>2, <1>10 DEF Stays
<1>8. job' \in {"starting", "runs", "collected", "reported"} => artifacts' # "partial" \/ warned'
  BY <1>1 DEF TaskInv, DaemonOK, StartJob, JobWrites, Collect, Collected, JobReports, JobBreaks,
              SettleErrorSays
<1>9. TaskInv'
  BY <1>1, <1>2, <1>5, <1>8 DEF TaskInv, Lasting
<1>. QED
  BY <1>6, <1>7, <1>9 DEF Good

\* A launch, and a task that is queued again.
LEMMA QueueMoves ==
    ASSUME Good, Launch \/ SettleExhausted
    PROVE  Good' /\ Stays
<1>1. DaemonOK /\ TaskInv /\ task \in Records
  BY DEF Good, DaemonOK
<1>2. CASE Launch
  <2>1. /\ task' = [task EXCEPT !.status = "running"] /\ task.status = "queued"
        /\ job = "none" /\ job' = "starting"
    BY <1>2 DEF Launch
  <2>2. task' \in Records /\ task'.status = "running"
    BY <1>1, <2>1, StatusFacts DEF Statuses
  <2>3. DaemonOK'
    BY <1>1, <1>2, <2>1, <2>2 DEF Launch, DaemonOK
  <2>4. TaskInv'
    BY <1>1, <1>2, <2>1, <2>2 DEF Launch, TaskInv, Lasting
  <2>. QED
    BY <1>2, <2>1, <2>3, <2>4 DEF Good, Stays, Lasting, Launch
<1>3. CASE SettleExhausted
  <2>1. /\ job = "reported" /\ job' = "none" /\ log' = log + 1 /\ log' <= MaxLog
        /\ UNCHANGED <<result, up, atEnd, artifacts, warned>>
        /\ task' = IF task.stored THEN [task EXCEPT !.status = "queued"] ELSE task
    BY <1>3 DEF SettleExhausted, Says
  <2>2. task.status \notin Lasting /\ (artifacts # "partial" \/ warned)
    BY <1>1, <2>1 DEF TaskInv
  <2>3. /\ task' \in Records
        /\ task'.status = "queued" \/ task' = task
    BY <1>1, <2>1, StatusFacts DEF Statuses
  <2>4. DaemonOK'
    BY <1>1, <2>1, <2>3, BoundsAssumption DEF DaemonOK
  <2>5. TaskInv'
    BY <1>1, <2>1, <2>2, <2>3 DEF TaskInv, Lasting
  <2>. QED
    BY <2>1, <2>2, <2>4, <2>5 DEF Good, Stays
<1>. QED
  BY <1>2, <1>3

\* The goroutine of an attempt settles its task.
LEMMA SettleMoves ==
    ASSUME Good, SettleExit \/ SettleError
    PROVE  Good' /\ Stays
<1>1. DaemonOK /\ TaskInv /\ task \in Records
  BY DEF Good, DaemonOK
<1>2. task.exit \in Codes /\ task.error \in BOOLEAN /\ result \in Codes
  BY <1>1 DEF Records, DaemonOK
<1>3. /\ job' \in {"none", "left"} /\ task.status \notin {"none", "queued"}
      /\ UNCHANGED <<log, artifacts, warned, result>>
  BY <1>1 DEF SettleExit, SettleError, TaskInv
<1>4. up' \in BOOLEAN
  BY <1>1 DEF SettleExit, SettleError, DaemonOK
<1>5. CASE SettleExit
  <2>1. artifacts # "partial" \/ warned
    BY <1>1, <1>5 DEF SettleExit, TaskInv
  <2>2. CASE result = 0
    <3>1. Settle("succeeded", result, FALSE)
      BY <1>5, <2>2 DEF SettleExit
    <3>. QED
      BY <1>2, <1>3, <1>4, <2>1, <3>1, SettledMoves DEF Final
  <2>3. CASE result # 0
    <3>1. Settle("failed", result, FALSE)
      BY <1>5, <2>3 DEF SettleExit
    <3>. QED
      BY <1>2, <1>3, <1>4, <2>3, <3>1, SettledMoves DEF Final
  <2>. QED
    BY <2>2, <2>3
<1>6. CASE SettleError
  <2>1. CASE Settle("failed", task.exit, TRUE)
    BY <1>2, <1>3, <1>4, <2>1, SettledMoves DEF Final
  <2>2. CASE Settle("lost", task.exit, task.error)
    BY <1>2, <1>3, <1>4, <2>2, SettledMoves DEF Final
  <2>. QED
    BY <1>6, <2>1, <2>2 DEF SettleError
<1>. QED
  BY <1>5, <1>6

\* What people and time do to the record: it is submitted, cancelled or pruned.
LEMMA RecordMoves ==
    ASSUME Good, Prune \/ \E c \in Clients : Submit(c) \/ Cancel(c)
    PROVE  Good' /\ Stays
<1>1. DaemonOK /\ TaskInv /\ task \in Records
  BY DEF Good, DaemonOK
<1>2. ASSUME NEW c \in Clients, Submit(c)
      PROVE  Good' /\ Stays
  <2>1. /\ task.status = "none" /\ up' \in BOOLEAN
        /\ UNCHANGED <<log, atEnd, artifacts, warned, job, result>>
    BY <1>1, <1>2 DEF Submit, DaemonOK
  <2>2. task' = [task EXCEPT !.status = "queued", !.stored = TRUE] \/ task' = task
    BY <1>2 DEF Submit
  <2>3. task' \in Records /\ task'.status \in {"none", "queued"}
    BY <1>1, <2>1, <2>2 DEF Records, Statuses
  <2>4. DaemonOK'
    BY <1>1, <2>1, <2>3 DEF DaemonOK
  <2>5. TaskInv'
    BY <1>1, <2>1, <2>3 DEF TaskInv, Lasting
  <2>. QED
    BY <2>1, <2>4, <2>5 DEF Good, Stays, Lasting
<1>3. ASSUME NEW c \in Clients, Cancel(c)
      PROVE  Good' /\ Stays
  <2>1. /\ task.status # "none" /\ UNCHANGED <<up, log, artifacts, warned, job, result>>
        /\ \/ Settle("cancelled", task.exit, task.error)
           \/ UNCHANGED <<task, atEnd>>
    BY <1>3 DEF Cancel
  <2>2. CASE UNCHANGED <<task, atEnd>>
    BY <2>1, <2>2, NothingMoves DEF daemonVars
  <2>3. CASE Settle("cancelled", task.exit, task.error)
    <3>1. /\ task' \in Records /\ atEnd' \in 0..log
          /\ \/ task' = task
             \/ task.status \notin Final /\ task'.status = "cancelled"
      BY <1>1, <2>3, SettleFacts DEF Final, Records
    <3>2. DaemonOK'
      BY <1>1, <2>1, <3>1 DEF DaemonOK
    <3>3. TaskInv' /\ Stays
      BY <1>1, <2>1, <3>1 DEF TaskInv, Stays, Lasting, Final
    <3>. QED
      BY <3>2, <3>3 DEF Good
  <2>. QED
    BY <2>1, <2>2, <2>3
<1>4. CASE Prune
  <2>1. /\ task' = [task EXCEPT !.stored = FALSE]
        /\ UNCHANGED <<result, up, log, atEnd, artifacts, warned, job>>
    BY <1>4 DEF Prune
  <2>2. /\ task' \in Records /\ task'.status = task.status
        /\ task'.exit = task.exit /\ task'.error = task.error
    BY <1>1, <2>1 DEF Records
  <2>3. DaemonOK'
    BY <1>1, <2>1, <2>2 DEF DaemonOK
  <2>4. TaskInv' /\ Stays
    BY <1>1, <2>1, <2>2 DEF TaskInv, Stays
  <2>. QED
    BY <2>3, <2>4 DEF Good
<1>. QED
  BY <1>2, <1>3, <1>4

\* The daemon stops, and comes back to what is left of the job.
LEMMA RestartMoves ==
    ASSUME Good, DaemonStops \/ DaemonStarts
    PROVE  Good' /\ Stays
<1>1. DaemonOK /\ TaskInv /\ task \in Records
  BY DEF Good, DaemonOK
<1>2. CASE DaemonStops
  <2>1. /\ UNCHANGED <<result, task, log, atEnd, artifacts, warned>> /\ up' = FALSE
        /\ job' = IF job \in {"starting", "told"} THEN "gone" ELSE job
    BY <1>2 DEF DaemonStops
  <2>2. DaemonOK'
    BY <1>1, <2>1 DEF DaemonOK
  <2>3. TaskInv' /\ Stays
    BY <1>1, <2>1 DEF TaskInv, Stays, Lasting
  <2>. QED
    BY <2>2, <2>3 DEF Good
<1>3. CASE DaemonStarts
  <2>1. up' = TRUE /\ UNCHANGED <<artifacts, warned, result>>
    BY <1>3 DEF DaemonStarts
  <2>2. CASE /\ task.status # "running" /\ job' = IF Alive THEN "left" ELSE "none"
             /\ UNCHANGED <<task, log, atEnd, trouble>>
    <3>1. DaemonOK'
      BY <1>1, <2>1, <2>2 DEF DaemonOK
    <3>2. TaskInv' /\ Stays
      BY <1>1, <2>1, <2>2 DEF TaskInv, Stays, Lasting, Alive
    <3>. QED
      BY <3>1, <3>2 DEF Good
  <2>3. CASE task.status = "running" /\ Says(1) /\ UNCHANGED <<task, atEnd, job, trouble>>
    <3>1. DaemonOK'
      BY <1>1, <2>1, <2>3, BoundsAssumption DEF DaemonOK, Says
    <3>2. TaskInv' /\ Stays
      BY <1>1, <2>1, <2>3 DEF TaskInv, Stays, Lasting
    <3>. QED
      BY <3>1, <3>2 DEF Good
  <2>4. CASE /\ task.status = "running" /\ Settle("lost", task.exit, task.error)
             /\ job' = IF Alive THEN "left" ELSE "none"
             /\ UNCHANGED log
    <3>1. task.exit \in Codes /\ task.error \in BOOLEAN /\ up' \in BOOLEAN
      BY <1>1, <2>1 DEF Records
    <3>. QED
      BY <2>1, <2>4, <3>1, SettledMoves DEF Final
  <2>. QED
    BY <1>3, <2>2, <2>3, <2>4 DEF DaemonStarts
<1>. QED
  BY <1>2, <1>3

\* The daemon's part of any step.
LEMMA DaemonMoves ==
    ASSUME Good, [Next]_vars
    PROVE  Good' /\ Stays
<1>1. CASE UNCHANGED vars
  BY <1>1, NothingMoves DEF vars, daemonVars
<1>2. ASSUME NEW c \in Clients, Submit(c) \/ Cancel(c)
      PROVE  Good' /\ Stays
  BY <1>2, RecordMoves
<1>3. ASSUME NEW c \in Clients, Ask(c) \/ Command(c)
      PROVE  Good' /\ Stays
  <2>1. UNCHANGED daemonVars
    BY <1>3 DEF Ask, Command, Serve, WaitForStart, Open, Copy, Look, Last, GetFinal,
                FetchArtifacts, Walk
  <2>. QED
    BY <2>1, NothingMoves
<1>4. CASE Launch \/ SettleExhausted
  BY <1>4, QueueMoves
<1>5. CASE StartJob \/ JobWrites \/ Collect \/ Collected \/ JobReports \/ JobBreaks
               \/ SettleErrorSays
  BY <1>5, JobMoves
<1>6. CASE SettleExit \/ SettleError
  BY <1>6, SettleMoves
<1>7. CASE Prune
  BY <1>7, RecordMoves
<1>8. CASE DaemonStops \/ DaemonStarts
  BY <1>8, RestartMoves
<1>. QED
  BY <1>1, <1>2, <1>3, <1>4, <1>5, <1>6, <1>7, <1>8 DEF Next, Task

-----------------------------------------------------------------------------
(* The commands' part of a step.                                           *)

\* A step of one command leaves the others where they are.
Moves(c, n) ==
    /\ client' \in [Clients -> Commands]
    /\ client'[c] = n /\ \A d \in Clients \ {c} : client'[d] = client[d]

\* A command whose record is exchanged for another.
LEMMA Moving ==
    ASSUME client \in [Clients -> Commands], NEW c \in Clients, NEW n \in Commands,
           client' = [client EXCEPT ![c] = n]
    PROVE  Moves(c, n)
BY DEF Moves

\* A command that goes on.
LEMMA Going ==
    ASSUME client \in [Clients -> Commands], NEW c \in Clients, NEW pc \in PCs, Goto(c, pc)
    PROVE  /\ Moves(c, [client[c] EXCEPT !.pc = pc])
           /\ client'[c].pc = pc /\ client'[c].final = client[c].final
           /\ client'[c].kind = client[c].kind
<1>. DEFINE n == [client[c] EXCEPT !.pc = pc]
<1>1. n \in Commands /\ n.pc = pc /\ n.final = client[c].final /\ n.kind = client[c].kind
  BY DEF Commands
<1>2. client' = [client EXCEPT ![c] = n]
  BY DEF Goto
<1>3. Moves(c, n)
  BY <1>1, <1>2, Moving
<1>. QED
  BY <1>1, <1>3 DEF Moves

\* A command that ends.
LEMMA Ending ==
    ASSUME client \in [Clients -> Commands], NEW c \in Clients, NEW code \in Tolds,
           End(c, code)
    PROVE  /\ Moves(c, [client[c] EXCEPT !.pc = "over", !.told = code])
           /\ client'[c].pc = "over" /\ client'[c].told = code
           /\ client'[c].final = client[c].final /\ client'[c].kind = client[c].kind
<1>. DEFINE n == [client[c] EXCEPT !.pc = "over", !.told = code]
<1>1. /\ n \in Commands /\ n.pc = "over" /\ n.told = code
      /\ n.final = client[c].final /\ n.kind = client[c].kind
  BY DEF Commands, PCs
<1>2. client' = [client EXCEPT ![c] = n]
  BY DEF End
<1>3. Moves(c, n)
  BY <1>1, <1>2, Moving
<1>. QED
  BY <1>1, <1>3 DEF Moves

\* A command that begins.
LEMMA Entering ==
    ASSUME client \in [Clients -> Commands], NEW c \in Clients, NEW kind \in Kinds,
           NEW pc \in PCs, NEW code \in Tolds, Enter(c, kind, pc, code)
    PROVE  /\ Moves(c, [client[c] EXCEPT !.pc = pc, !.kind = kind, !.told = code])
           /\ client[c].pc = "idle" /\ client'[c].pc = pc /\ client'[c].told = code
           /\ client'[c].final = client[c].final /\ client'[c].kind = kind
<1>. DEFINE n == [client[c] EXCEPT !.pc = pc, !.kind = kind, !.told = code]
<1>1. /\ n \in Commands /\ n.pc = pc /\ n.told = code
      /\ n.final = client[c].final /\ n.kind = kind
  BY DEF Commands
<1>2. client' = [client EXCEPT ![c] = n] /\ client[c].pc = "idle"
  BY DEF Enter
<1>3. Moves(c, n)
  BY <1>1, <1>2, Moving
<1>. QED
  BY <1>1, <1>2, <1>3 DEF Moves

\* A command knows what it knew of the verdict, and if it is a `kranq run` that is
\* over it was so before, could not learn how the task ended, or was cut off while
\* its artifacts were sent.
Kept(c) ==
    /\ client'[c].final = client[c].final
    /\ client'[c].kind = "run" /\ client'[c].pc = "over" =>
           \/ client'[c].told \in {InvalidSpec, Unreachable, InternalError}
           \/ /\ client[c].kind = "run" /\ client[c].pc = "over"
              /\ client'[c].told = client[c].told /\ client'[c].got = client[c].got
           \/ client'[c].told = Report(client[c].final) /\ client'[c].got = "none"
    /\ client'[c].kind = "run" /\ client'[c].pc = "walk" =>
           /\ client[c].kind = "run" /\ client[c].pc = "walk"
           /\ client'[c].got = client[c].got

\* What is so of a command stays so while it is kept.
LEMMA KeptHolds ==
    ASSUME TypeOK, NEW c \in Clients, ClientInv(c), Stays, Kept(c)
    PROVE  ClientInv(c)'
<1>1. client[c].final.status \in Lasting =>
          /\ client'[c].final.status = task'.status /\ client'[c].final.exit = task'.exit
          /\ client'[c].final.error = task'.error
  BY DEF ClientInv, Stays, Kept
<1>2. client'[c].final = client[c].final
  BY DEF Kept
<1>3. Report(client[c].final)' = Report(client[c].final)
  BY <1>2 DEF Report, FromTask
<1>4. client'[c].kind = "run" /\ client'[c].pc = "walk" /\ Report(client[c].final)' = OK =>
          client'[c].got # "partial" \/ warned'
  BY <1>3 DEF Kept, ClientInv, Stays
<1>5. client'[c].kind = "run" /\ client'[c].pc = "over" =>
          \/ client'[c].told \in {InvalidSpec, Unreachable, InternalError}
          \/ client'[c].told = Report(client[c].final)'
  BY <1>3 DEF ClientInv, Kept
<1>6. client'[c].kind = "run" /\ client'[c].pc = "over" /\ client'[c].told = OK =>
          client'[c].got # "partial" \/ warned'
  <2>1. OK \notin {InvalidSpec, Unreachable, InternalError}
    BY DEF InvalidSpec, Unreachable, InternalError, OK
  <2>. QED
    BY <2>1 DEF ClientInv, Kept, Stays
<1>7. /\ (client[c].final.status \in Lasting =>
              /\ client[c].final.status = task.status /\ client[c].final.exit = task.exit
              /\ client[c].final.error = task.error)'
      /\ (client[c].kind = "run" /\ client[c].pc = "over" =>
              \/ client[c].told \in {InvalidSpec, Unreachable, InternalError}
              \/ client[c].told = Report(client[c].final))'
      /\ (client[c].kind = "run" /\ client[c].pc = "over" /\ client[c].told = OK =>
              client[c].got # "partial" \/ warned)'
      /\ (client[c].kind = "run" /\ client[c].pc = "walk" /\ Report(client[c].final) = OK =>
              client[c].got # "partial" \/ warned)'
  <2>1. (client[c].final.status \in Lasting =>
              /\ client[c].final.status = task.status /\ client[c].final.exit = task.exit
              /\ client[c].final.error = task.error)'
    BY <1>1, <1>2
  <2>. QED
    BY <2>1, <1>4, <1>5, <1>6
<1>. QED
  BY <1>7 DEF ClientInv

\* The other commands are kept.
LEMMA OthersKept ==
    ASSUME NEW c, NEW n, Moves(c, n), NEW d \in Clients \ {c}
    PROVE  Kept(d)
BY DEF Moves, Kept

\* A stream that ends leaves a `kranq run` to ask, and ends any other command.
LEMMA StreamEndsKeeps ==
    ASSUME client \in [Clients -> Commands], NEW c \in Clients, NEW code \in Tolds,
           StreamEnds(c, code)
    PROVE  client' \in [Clients -> Commands] /\ \A d \in Clients : Kept(d)
<1>1. CASE client[c].kind = "run"
  <2>1. Goto(c, "ask") /\ "ask" \in PCs
    BY <1>1 DEF StreamEnds, PCs
  <2>2. /\ Moves(c, [client[c] EXCEPT !.pc = "ask"]) /\ client'[c].pc = "ask"
        /\ client'[c].final = client[c].final
    BY <2>1, Going
  <2>. QED
    BY <2>2, OthersKept DEF Kept, Moves
<1>2. CASE client[c].kind # "run"
  <2>1. /\ Moves(c, [client[c] EXCEPT !.pc = "over", !.told = code])
        /\ client'[c].final = client[c].final /\ client'[c].kind = client[c].kind
    BY <1>2, Ending DEF StreamEnds
  <2>. QED
    BY <1>2, <2>1, OthersKept DEF Kept, Moves
<1>. QED
  BY <1>1, <1>2

\* A command that begins, and is over at once only if it is no `kranq run` or
\* could not submit its task.
LEMMA EnterKeeps ==
    ASSUME client \in [Clients -> Commands], NEW c \in Clients, NEW kind \in Kinds,
           NEW pc \in PCs, NEW code \in Tolds, Enter(c, kind, pc, code),
           kind = "run" /\ pc = "over" => code \in {InvalidSpec, Unreachable, InternalError},
           pc # "walk"
    PROVE  client' \in [Clients -> Commands] /\ \A d \in Clients : Kept(d)
<1>1. /\ Moves(c, [client[c] EXCEPT !.pc = pc, !.kind = kind, !.told = code])
      /\ client'[c].pc = pc /\ client'[c].told = code
      /\ client'[c].final = client[c].final /\ client'[c].kind = kind
  BY Entering
<1>. QED
  BY <1>1, OthersKept DEF Kept, Moves

\* A command that goes on without being over.
LEMMA GotoKeeps ==
    ASSUME client \in [Clients -> Commands], NEW c \in Clients,
           NEW pc \in PCs \ {"over", "walk"},
           Goto(c, pc)
    PROVE  client' \in [Clients -> Commands] /\ \A d \in Clients : Kept(d)
<1>1. /\ Moves(c, [client[c] EXCEPT !.pc = pc]) /\ client'[c].pc = pc
      /\ client'[c].final = client[c].final
  BY Going
<1>. QED
  BY <1>1, OthersKept DEF Kept, Moves

\* The commands that begin.
LEMMA BeginningKeeps ==
    ASSUME client \in [Clients -> Commands], NEW c \in Clients,
           Submit(c) \/ Ask(c) \/ Cancel(c)
    PROVE  client' \in [Clients -> Commands] /\ \A d \in Clients : Kept(d)
<1>1. \E kind \in Kinds, pc \in PCs, code \in Tolds :
          /\ Enter(c, kind, pc, code)
          /\ kind = "run" /\ pc = "over" => code \in {InvalidSpec, Unreachable, InternalError}
          /\ pc # "walk"
  <2>1. CASE Submit(c)
    <3>1. \/ Enter(c, "run", "wait", OK) \/ Enter(c, "detach", "over", OK)
          \/ Enter(c, "run", "over", Unreachable) \/ Enter(c, "run", "over", InvalidSpec)
          \/ Enter(c, "run", "over", InternalError)
      BY <2>1 DEF Submit
    <3>. QED
      BY <3>1 DEF Kinds, PCs, Tolds
  <2>2. CASE Ask(c)
    <3>1. \/ Enter(c, "print", "open", OK) \/ Enter(c, "follow", "open", OK)
          \/ Enter(c, "fetch", "fetch", OK) \/ Enter(c, "unpack", "fetch", OK)
          \/ Enter(c, "print", "over", Unreachable) \/ Enter(c, "follow", "over", Unreachable)
          \/ Enter(c, "fetch", "over", Unreachable) \/ Enter(c, "unpack", "over", Unreachable)
      BY <2>2 DEF Ask
    <3>. QED
      BY <3>1 DEF Kinds, PCs, Tolds
  <2>3. CASE Cancel(c)
    <3>1. \/ Enter(c, "cancel", "over", OK) \/ Enter(c, "cancel", "over", NoSuchFile)
          \/ Enter(c, "cancel", "over", Unreachable)
      BY <2>3 DEF Cancel
    <3>. QED
      BY <3>1 DEF Kinds, PCs, Tolds
  <2>. QED
    BY <2>1, <2>2, <2>3
<1>. QED
  BY <1>1, EnterKeeps

\* What a copy has brought is of the log.
LEMMA CopyRestType ==
    ASSUME TypeOK, NEW c \in Clients
    PROVE  CopyRest(c) \in 0..MaxLog
BY TypeParts DEF CopyRest, DaemonOK, Commands

\* The commands that wait, and the streams.
LEMMA StreamKeeps ==
    ASSUME TypeOK, NEW c \in Clients, WaitForStart(c) \/ Serve(c)
    PROVE  client' \in [Clients -> Commands] /\ \A d \in Clients : Kept(d)
<1>1. client \in [Clients -> Commands]
  BY TypeParts
<1>2. CASE WaitForStart(c)
  BY <1>1, <1>2, GotoKeeps DEF WaitForStart, PCs
<1>3. CASE Open(c)
  <2>1. \/ StreamEnds(c, Unreachable) \/ StreamEnds(c, NoSuchFile) \/ Goto(c, "copy")
    BY <1>3 DEF Open
  <2>2. Unreachable \in Tolds /\ NoSuchFile \in Tolds /\ "copy" \in PCs \ {"over", "walk"}
    BY DEF Tolds, PCs, Streaming
  <2>. QED
    BY <1>1, <2>1, <2>2, GotoKeeps, StreamEndsKeeps
<1>4. CASE Look(c)
  <2>1. Goto(c, "last") \/ Goto(c, "copy")
    BY <1>4 DEF Look
  <2>. QED
    BY <1>1, <2>1, GotoKeeps DEF PCs, Streaming
<1>5. ASSUME NEW pc \in PCs \ {"walk"}, pc = "over" => client[c].kind # "run",
             client' = [client EXCEPT ![c].offset = CopyRest(c), ![c].pc = pc]
      PROVE  client' \in [Clients -> Commands] /\ \A d \in Clients : Kept(d)
  <2>. DEFINE n == [client[c] EXCEPT !.offset = CopyRest(c), !.pc = pc]
  <2>1. /\ n \in Commands /\ n.pc = pc /\ n.kind = client[c].kind
        /\ n.final = client[c].final
    BY <1>1, CopyRestType DEF Commands
  <2>2. client' = [client EXCEPT ![c] = n]
    BY <1>5
  <2>. HIDE DEF n
  <2>3. Moves(c, n)
    BY <1>1, <2>1, <2>2, Moving
  <2>. QED
    BY <1>5, <2>1, <2>3, OthersKept DEF Kept, Moves
<1>6. CASE Copy(c)
  <2>1. CASE client[c].kind = "print"
    <3>1. client' = [client EXCEPT ![c].offset = CopyRest(c), ![c].pc = "over"]
      BY <1>6, <2>1 DEF Copy
    <3>2. "over" \in PCs \ {"walk"} /\ ("over" = "over" => client[c].kind # "run")
      BY <2>1 DEF PCs
    <3>. QED
      BY <1>5, <3>1, <3>2
  <2>2. CASE client[c].kind # "print"
    <3>1. client' = [client EXCEPT ![c].offset = CopyRest(c), ![c].pc = "look"]
      BY <1>6, <2>2 DEF Copy
    <3>2. "look" \in PCs \ {"walk"} /\ ("look" = "over" => client[c].kind # "run")
      BY <2>2 DEF PCs, Streaming
    <3>. QED
      BY <1>5, <3>1, <3>2
  <2>. QED
    BY <2>1, <2>2
<1>7. CASE Last(c)
  <2>1. CASE client[c].kind = "run"
    <3>1. client' = [client EXCEPT ![c].offset = CopyRest(c), ![c].pc = "ask"]
      BY <1>7, <2>1 DEF Last
    <3>2. "ask" \in PCs \ {"walk"} /\ ("ask" = "over" => client[c].kind # "run")
      BY <2>1 DEF PCs
    <3>. QED
      BY <1>5, <3>1, <3>2
  <2>2. CASE client[c].kind # "run"
    <3>1. client' = [client EXCEPT ![c].offset = CopyRest(c), ![c].pc = "over"]
      BY <1>7, <2>2 DEF Last
    <3>2. "over" \in PCs \ {"walk"} /\ ("over" = "over" => client[c].kind # "run")
      BY <2>2 DEF PCs, Streaming
    <3>. QED
      BY <1>5, <3>1, <3>2
  <2>. QED
    BY <2>1, <2>2
<1>. QED
  BY <1>2, <1>3, <1>4, <1>6, <1>7 DEF Serve

\* What a command is told once it has looked for artifacts.
LEMMA FetchedType ==
    ASSUME client \in [Clients -> Commands], NEW c \in Clients
    PROVE  Fetched(c) \in Tolds
<1>1. Report(client[c].final) \in Tolds
  BY ReportType DEF Commands
<1>. QED
  BY <1>1 DEF Fetched, Tolds

\* A daemon that stops cuts the streams and the archives off.
LEMMA CutKeeps ==
    ASSUME client \in [Clients -> Commands], DaemonStops
    PROVE  client' \in [Clients -> Commands] /\ \A d \in Clients : Kept(d)
<1>1. client' = [c \in Clients |-> Cut(c)]
  BY DEF DaemonStops
<1>2. ASSUME NEW c \in Clients
      PROVE  Cut(c) \in Commands /\ Kept(c)
  <2>1. client'[c] = Cut(c) /\ client[c] \in Commands
    BY <1>1
  <2>2. Streaming \cap {"walk"} = {}
    BY DEF Streaming
  <2>3. CASE client[c].pc \notin Streaming \cup {"walk"}
    <3>1. Cut(c) = client[c]
      BY <2>3 DEF Cut
    <3>. QED
      BY <2>1, <3>1 DEF Kept
  <2>4. CASE client[c].pc \in Streaming /\ client[c].kind = "run"
    <3>1. Cut(c) = [client[c] EXCEPT !.pc = "ask"]
      BY <2>2, <2>4 DEF Cut
    <3>2. Cut(c) \in Commands /\ Cut(c).pc = "ask" /\ Cut(c).final = client[c].final
      BY <2>1, <3>1 DEF Commands, PCs
    <3>. QED
      BY <2>1, <3>2 DEF Kept
  <2>5. CASE client[c].pc \in Streaming /\ client[c].kind # "run"
    <3>1. Cut(c) = [client[c] EXCEPT !.pc = "over", !.told = Unreachable]
      BY <2>2, <2>5 DEF Cut
    <3>2. /\ Cut(c) \in Commands /\ Cut(c).kind = client[c].kind
          /\ Cut(c).final = client[c].final
      BY <2>1, <3>1 DEF Commands, PCs, Tolds
    <3>. QED
      BY <2>1, <2>5, <3>2 DEF Kept
  <2>6. CASE client[c].pc = "walk" /\ client[c].kind = "fetch"
    <3>1. Cut(c) = [client[c] EXCEPT !.pc = "over", !.told = Unreachable, !.got = Rest(c, "cut")]
      BY <2>2, <2>6 DEF Cut
    <3>2. Rest(c, "cut") \in Gots
      BY DEF Rest, Gots
    <3>3. /\ Cut(c) \in Commands /\ Cut(c).kind = client[c].kind
          /\ Cut(c).final = client[c].final
      BY <2>1, <3>1, <3>2 DEF Commands, PCs, Tolds
    <3>. QED
      BY <2>1, <2>6, <3>3 DEF Kept
  <2>7. CASE client[c].pc = "walk" /\ client[c].kind # "fetch"
    <3>1. Cut(c) = [client[c] EXCEPT !.pc = "over", !.told = Fetched(c), !.got = "none"]
      BY <2>2, <2>7 DEF Cut
    <3>2. Fetched(c) \in Tolds
      BY FetchedType
    <3>3. /\ Cut(c) \in Commands /\ Cut(c).kind = client[c].kind /\ Cut(c).pc = "over"
          /\ Cut(c).final = client[c].final
          /\ Cut(c).told = Fetched(c) /\ Cut(c).got = "none"
      BY <2>1, <3>1, <3>2 DEF Commands, PCs, Gots
    <3>. QED
      BY <2>1, <3>3 DEF Kept, Fetched
  <2>. QED
    BY <2>3, <2>4, <2>5, <2>6, <2>7
<1>. QED
  BY <1>1, <1>2

\* The record that a command reads last is the one there is.
LEMMA GetFinalHolds ==
    ASSUME IInv, Stays, NEW c \in Clients, GetFinal(c)
    PROVE  client' \in [Clients -> Commands] /\ \A d \in Clients : ClientInv(d)'
<1>1. TypeOK /\ client \in [Clients -> Commands] /\ task \in Records
  BY TypeParts DEF IInv, DaemonOK
<1>2. CASE up /\ task.stored
  <2>. DEFINE f == [status |-> task.status, exit |-> task.exit, error |-> task.error]
              n == [client[c] EXCEPT !.pc = "fetch", !.final = f]
  <2>1. f \in Outcome
    BY <1>1 DEF Records, Outcome
  <2>2. client' = [client EXCEPT ![c] = n]
    BY <1>2 DEF GetFinal
  <2>3. n.pc = "fetch" /\ n.final = f /\ n \in Commands
    BY <1>1, <2>1 DEF Commands, PCs
  <2>4. task' = task
    BY DEF GetFinal, daemonVars
  <2>5. f.status = task.status /\ f.exit = task.exit /\ f.error = task.error
    OBVIOUS
  <2>. HIDE DEF n, f
  <2>6. Moves(c, n)
    BY <1>1, <2>2, <2>3, Moving
  <2>7. ClientInv(c)'
    BY <2>3, <2>4, <2>5, <2>6 DEF ClientInv, Moves
  <2>8. ASSUME NEW d \in Clients \ {c}
        PROVE  ClientInv(d)'
    BY <1>1, <2>6, OthersKept, KeptHolds DEF IInv
  <2>. QED
    BY <2>6, <2>7, <2>8 DEF Moves
<1>3. CASE ~(up /\ task.stored)
  <2>1. End(c, Unreachable) /\ Unreachable \in Tolds
    BY <1>3 DEF GetFinal, Tolds
  <2>2. /\ Moves(c, [client[c] EXCEPT !.pc = "over", !.told = Unreachable])
        /\ client'[c].pc = "over"
        /\ client'[c].told = Unreachable /\ client'[c].final = client[c].final
    BY <1>1, <2>1, Ending
  <2>3. \A d \in Clients : Kept(d)
    BY <2>2, OthersKept DEF Kept
  <2>. QED
    BY <1>1, <2>2, <2>3, KeptHolds DEF IInv, Moves
<1>. QED
  BY <1>2, <1>3

\* `kranq run` says 0 only of a task that has succeeded, and one below 64 only of
\* a script that has failed.
LEMMA ReportTells ==
    ASSUME IInv, NEW c \in Clients
    PROVE  /\ Report(client[c].final) = OK => task.status = "succeeded"
           /\ Report(client[c].final) \in 1..63 => task.status = "failed" /\ ~task.error
<1>. DEFINE t == client[c].final
<1>1. t \in Outcome /\ task \in Records /\ TaskInv /\ ClientInv(c)
  BY TypeParts DEF IInv, DaemonOK, Commands
<1>2. t.exit \in Nat
  BY <1>1, CodesAssumption DEF Outcome
<1>3. FromTask(t.exit) = OK => t.exit = 0
  BY <1>2 DEF FromTask, OK
<1>4. CASE t.status = "succeeded"
  <2>1. Report(t) = OK
    BY <1>4 DEF Report
  <2>. QED
    BY <1>1, <1>4, <2>1 DEF ClientInv, Lasting, OK
<1>5. CASE t.status = "failed"
  <2>1. Report(t) = IF t.error THEN CouldNotStart ELSE FromTask(t.exit)
    BY <1>5 DEF Report
  <2>2. task.status = "failed" /\ task.exit = t.exit /\ task.error = t.error
    BY <1>1, <1>5 DEF ClientInv, Lasting
  <2>3. ~t.error => t.exit # 0
    BY <1>1, <2>2 DEF TaskInv
  <2>. QED
    BY <1>3, <2>1, <2>2, <2>3 DEF CouldNotStart, OK
<1>6. CASE t.status \notin {"succeeded", "failed"}
  <2>1. Report(t) \in {Cancelled, InternalError}
    BY <1>6 DEF Report
  <2>. QED
    BY <2>1 DEF Cancelled, InternalError, OK
<1>. QED
  BY <1>4, <1>5, <1>6

\* The artifacts of a success are not half copied when they are sent.
LEMMA SuccessIsCopied ==
    ASSUME IInv, NEW c \in Clients, Report(client[c].final) = OK
    PROVE  artifacts # "partial" \/ warned
BY ReportTells DEF IInv, TaskInv

\* What is so of a command whose record is exchanged, and of all the others.
LEMMA ExchangeHolds ==
    ASSUME IInv, Stays, NEW c \in Clients, NEW n \in Commands, UNCHANGED <<task, warned>>,
           client' = [client EXCEPT ![c] = n], n.final = client[c].final,
           n.kind = client[c].kind, n.pc \in {"over", "walk"},
           n.kind = "run" /\ n.pc = "over" => n.told = Report(n.final),
           n.kind = "run" /\ n.pc \in {"over", "walk"} /\ Report(n.final) = OK =>
               n.got # "partial" \/ warned
    PROVE  client' \in [Clients -> Commands] /\ \A d \in Clients : ClientInv(d)'
<1>1. TypeOK /\ client \in [Clients -> Commands] /\ \A d \in Clients : ClientInv(d)
  BY TypeParts DEF IInv
<1>2. Moves(c, n)
  BY <1>1, Moving
<1>3. ClientInv(c)'
  BY <1>1, <1>2 DEF ClientInv, Moves
<1>4. ASSUME NEW d \in Clients \ {c}
      PROVE  ClientInv(d)'
  BY <1>1, <1>2, OthersKept, KeptHolds
<1>. QED
  BY <1>2, <1>3, <1>4 DEF Moves

\* A command asks for the artifacts.
LEMMA FetchHolds ==
    ASSUME IInv, Stays, NEW c \in Clients, FetchArtifacts(c)
    PROVE  client' \in [Clients -> Commands] /\ \A d \in Clients : ClientInv(d)'
<1>1. client \in [Clients -> Commands] /\ UNCHANGED <<task, warned>>
  BY TypeParts DEF IInv, FetchArtifacts, daemonVars
<1>2. CASE up /\ task.stored /\ artifacts # "none"
  <2>. DEFINE got == IF artifacts = "partial" THEN "partial" ELSE "sofar"
              n == [client[c] EXCEPT !.pc = "walk", !.got = got]
  <2>1. client' = [client EXCEPT ![c] = n]
    BY <1>2 DEF FetchArtifacts
  <2>2. /\ n \in Commands /\ n.kind = client[c].kind /\ n.final = client[c].final
        /\ n.pc = "walk" /\ n.got = got
    BY <1>1 DEF Commands, PCs, Gots
  <2>3. got = "partial" => artifacts = "partial"
    OBVIOUS
  <2>. HIDE DEF n, got
  <2>4. Report(n.final) = OK => n.got # "partial" \/ warned
    BY <2>2, <2>3, SuccessIsCopied
  <2>. QED
    BY <1>1, <2>1, <2>2, <2>4, ExchangeHolds
<1>3. CASE ~(up /\ task.stored /\ artifacts # "none")
  <2>. DEFINE code == IF ~up /\ client[c].kind = "fetch" THEN Unreachable ELSE Fetched(c)
              n == [client[c] EXCEPT !.pc = "over", !.got = "none", !.told = code]
  <2>1. code \in Tolds
    BY <1>1, FetchedType DEF Tolds
  <2>2. client' = [client EXCEPT ![c] = n]
    BY <1>3 DEF FetchArtifacts
  <2>3. /\ n \in Commands /\ n.kind = client[c].kind /\ n.final = client[c].final
        /\ n.told = code /\ n.got = "none" /\ n.pc = "over"
    BY <1>1, <2>1 DEF Commands, PCs, Gots
  <2>4. client[c].kind = "run" => code = Report(client[c].final)
    BY DEF Fetched
  <2>. HIDE DEF n, code
  <2>. QED
    BY <1>1, <2>2, <2>3, <2>4, ExchangeHolds
<1>. QED
  BY <1>2, <1>3

\* The archive ends, wherever that is.
LEMMA WalkHolds ==
    ASSUME IInv, Stays, NEW c \in Clients, Walk(c)
    PROVE  client' \in [Clients -> Commands] /\ \A d \in Clients : ClientInv(d)'
<1>1. client \in [Clients -> Commands] /\ UNCHANGED <<task, warned>> /\ client[c].pc = "walk"
  BY TypeParts DEF IInv, Walk, daemonVars
<1>2. PICK ending \in {"cut", "whole"} :
          client' = [client EXCEPT ![c].pc = "over", ![c].told = Fetched(c),
                                   ![c].got = Rest(c, ending)]
  BY DEF Walk
<1>. DEFINE n == [client[c] EXCEPT !.pc = "over", !.told = Fetched(c), !.got = Rest(c, ending)]
<1>3. Fetched(c) \in Tolds /\ Rest(c, ending) \in Gots
  BY <1>1, FetchedType DEF Rest, Gots
<1>4. client' = [client EXCEPT ![c] = n]
  BY <1>2
<1>5. /\ n \in Commands /\ n.kind = client[c].kind /\ n.final = client[c].final
      /\ n.told = Fetched(c) /\ n.got = Rest(c, ending) /\ n.pc = "over"
  BY <1>1, <1>3 DEF Commands, PCs
<1>6. client[c].kind = "run" => Fetched(c) = Report(client[c].final)
  BY DEF Fetched
<1>. HIDE DEF n
<1>7. ASSUME n.kind = "run", Report(n.final) = OK
      PROVE  n.got # "partial" \/ warned
  <2>1. artifacts # "partial" \/ warned
    BY <1>5, <1>7, SuccessIsCopied
  <2>2. client[c].got # "partial" \/ warned
    BY <1>1, <1>5, <1>7 DEF IInv, ClientInv
  <2>. QED
    BY <1>5, <2>1, <2>2 DEF Rest
<1>. QED
  BY <1>1, <1>4, <1>5, <1>6, <1>7, ExchangeHolds

-----------------------------------------------------------------------------
(* The theorems.                                                           *)

\* The commands' part of any step.
LEMMA CommandsMove ==
    ASSUME IInv, Next, Stays
    PROVE  client' \in [Clients -> Commands] /\ \A d \in Clients : ClientInv(d)'
<1>1. TypeOK /\ client \in [Clients -> Commands] /\ \A d \in Clients : ClientInv(d)
  BY TypeParts DEF IInv
<1>2. SUFFICES ASSUME ~\E c \in Clients : GetFinal(c) \/ FetchArtifacts(c) \/ Walk(c)
               PROVE  client' \in [Clients -> Commands] /\ \A d \in Clients : Kept(d)
  <2>1. ASSUME NEW c \in Clients, GetFinal(c) \/ FetchArtifacts(c) \/ Walk(c)
        PROVE  client' \in [Clients -> Commands] /\ \A d \in Clients : ClientInv(d)'
    BY <2>1, GetFinalHolds, FetchHolds, WalkHolds
  <2>. QED
    BY <1>1, <2>1, KeptHolds
<1>3. ASSUME NEW c \in Clients, Submit(c) \/ Ask(c) \/ Cancel(c)
      PROVE  client' \in [Clients -> Commands] /\ \A d \in Clients : Kept(d)
  BY <1>1, <1>3, BeginningKeeps
<1>4. ASSUME NEW c \in Clients, WaitForStart(c) \/ Serve(c)
      PROVE  client' \in [Clients -> Commands] /\ \A d \in Clients : Kept(d)
  BY <1>1, <1>4, StreamKeeps
<1>5. CASE DaemonStops
  BY <1>1, <1>5, CutKeeps
<1>6. CASE Task \/ DaemonStarts
  <2>1. client' = client
    BY <1>6 DEF Task, DaemonStarts, Launch, StartJob, JobWrites, Collect, Collected, JobReports,
                JobBreaks, SettleExhausted, SettleExit, SettleErrorSays, SettleError, Prune
  <2>. QED
    BY <1>1, <2>1 DEF Kept
<1>. QED
  BY <1>2, <1>3, <1>4, <1>5, <1>6 DEF Next, Command

\* A step is one trouble, or none.
LEMMA TroubleMoves ==
    ASSUME trouble \in 0..MaxTrouble, Next
    PROVE  trouble' \in 0..MaxTrouble
<1>1. UNCHANGED trouble \/ Trouble
  BY DEF Next, Submit, Ask, Cancel, Command, WaitForStart, Serve, Open, Copy, Look, Last,
         GetFinal, FetchArtifacts, Walk, Task, Launch, StartJob, JobWrites, Collect, Collected,
         JobReports, JobBreaks, SettleExhausted, SettleExit, SettleErrorSays, SettleError,
         Prune, DaemonStops, DaemonStarts
<1>. QED
  BY <1>1, BoundsAssumption DEF Trouble

\* The invariant holds at first.
LEMMA InitInv == Init => IInv
<1>. SUFFICES ASSUME Init
              PROVE  IInv
  OBVIOUS
<1>1. /\ task \in Records /\ task.status = "none" /\ Unread \in Outcome
  BY CodesAssumption DEF Init, Records, Statuses, Outcome, Unread, OK
<1>2. DaemonOK
  <2>1. up \in BOOLEAN /\ warned \in BOOLEAN
    BY DEF Init
  <2>2. log \in 0..MaxLog /\ atEnd \in 0..log
    BY BoundsAssumption DEF Init
  <2>3. /\ artifacts = "none" /\ job = "none" /\ result \in Codes
    BY CodesAssumption DEF Init, OK
  <2>. QED
    BY <1>1, <2>1, <2>2, <2>3 DEF DaemonOK
<1>3. Idle \in Commands
  BY <1>1, BoundsAssumption DEF Idle, Commands, PCs, Kinds, Tolds, Gots
<1>4. client \in [Clients -> Commands]
  BY <1>3 DEF Init
<1>5. TypeOK
  BY <1>2, <1>4, BoundsAssumption, TypeParts DEF Init
<1>6. TaskInv
  BY <1>1 DEF Init, TaskInv, Lasting
<1>7. ASSUME NEW c \in Clients
      PROVE  ClientInv(c)
  <2>1. client[c].pc = "idle" /\ client[c].final.status = "none"
    BY DEF Init, Idle, Unread
  <2>. QED
    BY <2>1 DEF ClientInv, Lasting
<1>. QED
  BY <1>5, <1>6, <1>7 DEF IInv

\* Every step keeps it.
LEMMA NextInv == IInv /\ [Next]_vars => IInv'
<1>. SUFFICES ASSUME IInv, [Next]_vars
              PROVE  IInv'
  OBVIOUS
<1>1. Good /\ trouble \in 0..MaxTrouble
  BY TypeParts DEF IInv, Good
<1>2. Good' /\ Stays
  BY <1>1, DaemonMoves
<1>3. CASE Next
  <2>1. client' \in [Clients -> Commands] /\ \A d \in Clients : ClientInv(d)'
    BY <1>2, <1>3, CommandsMove
  <2>2. trouble' \in 0..MaxTrouble
    BY <1>1, <1>3, TroubleMoves
  <2>3. TypeOK'
    BY <1>2, <2>1, <2>2
       DEF Good, TypeOK, DaemonOK, Commands, PCs, Kinds, Tolds, Records
  <2>. QED
    BY <1>2, <2>1, <2>3 DEF IInv, Good
<1>4. CASE UNCHANGED vars
  BY <1>4 DEF vars, daemonVars, IInv, TypeOK, TaskInv, ClientInv
<1>. QED
  BY <1>3, <1>4

\* The invariant holds of every behaviour of the commands, the task and the daemon.
THEOREM Invariance == Spec => []IInv
BY InitInv, NextInv, PTL DEF Spec

\* Every variable keeps its type: offsets stay within the log, and a command is
\* told one of kranq's own exit codes or one that a script may use.
THEOREM TypeCorrect == Spec => []TypeOK
<1>1. IInv => TypeOK
  BY DEF IInv
<1>. QED
  BY <1>1, Invariance, PTL

\* `kranq run` exits with 0 only if the task succeeded, and with a code below 64
\* only if its script failed (submitAndFollow), whatever is cancelled, pruned or
\* restarted between the record that it reads and its exit.
THEOREM ExitTellsTheVerdict == Spec => []ExitIsVerdict
<1>1. IInv => ExitIsVerdict
  <2>. SUFFICES ASSUME IInv, NEW c \in Clients, client[c].pc = "over", client[c].kind = "run"
                PROVE  /\ client[c].told = OK => task.status = "succeeded"
                       /\ client[c].told \in 1..63 => task.status = "failed" /\ ~task.error
    BY DEF ExitIsVerdict
  <2>1. \/ client[c].told \in {InvalidSpec, Unreachable, InternalError}
        \/ client[c].told = Report(client[c].final)
    BY DEF IInv, ClientInv
  <2>2. CASE client[c].told \in {InvalidSpec, Unreachable, InternalError}
    BY <2>2 DEF InvalidSpec, Unreachable, InternalError, OK
  <2>3. CASE client[c].told = Report(client[c].final)
    BY <2>3, ReportTells
  <2>. QED
    BY <2>1, <2>2, <2>3
<1>. QED
  BY <1>1, Invariance, PTL

\* What `kranq run` brings back with a success is never what the job had only half
\* copied, unless the log warns of it (collect, settle): a result is written after
\* the artifacts are copied.  That the archive may be cut short is another matter.
THEOREM ArtifactsCameWhole == Spec => []ArtifactsAreWhole
<1>1. IInv => ArtifactsAreWhole
  BY DEF IInv, ClientInv, ArtifactsAreWhole
<1>. QED
  BY <1>1, Invariance, PTL

\* A stream that ends by itself has copied once more after it saw that the task
\* was over, and so has all of the log (logs).
THEOREM StreamShowsAll == Spec => StreamHasAll
<1>. DEFINE Shown(c) ==
         (client[c].pc \in {"look", "last"} /\ client'[c].pc \in {"ask", "over"}
            /\ up' /\ task.stored) =>
               /\ client'[c].offset >= atEnd
               /\ task.status = "succeeded" => client'[c].offset = log
<1>1. IInv /\ [Next]_vars => [\A c \in Clients : Shown(c)]_vars
  <2>. SUFFICES ASSUME IInv, Next, NEW c \in Clients,
                       client[c].pc \in {"look", "last"}, client'[c].pc \in {"ask", "over"},
                       up', task.stored
                PROVE  client'[c].offset = log
    <3>1. IInv => log >= atEnd
      BY BoundsAssumption, TypeParts DEF IInv, DaemonOK
    <3>. QED
      BY <3>1
  <2>1. client \in [Clients -> Commands]
    BY TypeParts DEF IInv
  <2>2. ASSUME NEW d \in Clients, Last(d)
        PROVE  client'[c].offset = log
    <3>1. c = d
      BY <2>1, <2>2 DEF Last
    <3>. QED
      BY <2>1, <2>2, <3>1 DEF Last, CopyRest, Commands
  <2>3. ASSUME NEW d \in Clients, Command(d), ~Last(d)
        PROVE  FALSE
    BY <2>1, <2>3 DEF Command, Serve, WaitForStart, Open, Copy, Look, GetFinal, FetchArtifacts,
                      Walk, Goto, End, StreamEnds, Commands
  <2>4. ASSUME NEW d \in Clients, Submit(d) \/ Ask(d) \/ Cancel(d)
        PROVE  FALSE
    BY <2>1, <2>4 DEF Submit, Ask, Cancel, Enter, Commands
  <2>5. CASE Task \/ DaemonStarts
    BY <2>5 DEF Task, DaemonStarts, Launch, StartJob, JobWrites, Collect, Collected, JobReports,
                JobBreaks, SettleExhausted, SettleExit, SettleErrorSays, SettleError, Prune
  <2>6. CASE DaemonStops
    BY <2>6 DEF DaemonStops
  <2>. QED
    BY <2>2, <2>3, <2>4, <2>5, <2>6 DEF Next
<1>. QED
  BY <1>1, Invariance, PTL DEF Spec, StreamHasAll
=============================================================================
