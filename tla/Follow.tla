------------------------------- MODULE Follow -------------------------------
(***************************************************************************)
(* Clients of the daemon's API that submit a task, follow its log and      *)
(* report how it ended (internal/ipc, internal/cli/run.go, tasks.go), while *)
(* the task runs, is cancelled or pruned, and the daemon comes and goes.   *)
(*                                                                         *)
(* A stream of a log is a goroutine of the daemon that reopens the file at *)
(* every poll and copies from an offset of its own; it looks at the record *)
(* after it has copied, and copies once more when the task is over.        *)
(*                                                                         *)
(* The artifacts are walked file by file while the answer is sent.         *)
(*                                                                         *)
(* Abstracted: there is one task; a log is its length; a request that reads *)
(* one record is one step, and a walk is its beginning and its end.  The queue *)
(* and the job are reduced to what they do to the record, the log and the  *)
(* artifacts; that a launch may overwrite a cancel is in module Sched.     *)
(***************************************************************************)
EXTENDS Integers

CONSTANTS
    Clients,      \* commands that people run
    Codes,        \* what a script may exit with
    MaxLog,       \* bound: how long a log grows
    MaxTrouble    \* bound: how often something goes wrong

ASSUME CodesAssumption == Codes \subseteq Nat /\ 0 \in Codes

ASSUME BoundsAssumption == MaxLog \in Nat /\ MaxTrouble \in Nat

VARIABLES
    up,         \* whether the daemon answers
    task,       \* the record of the task, and whether retention has kept it
    log,        \* how long the log is
    atEnd,      \* how long it was when the task ended
    artifacts,  \* what the artifact directory holds
    warned,     \* whether the log says that artifacts could not be copied
    job,        \* the attempt that runs
    result,     \* the exit code in its result file
    client,     \* each command: where it is, and what it has been told
    trouble     \* how many troubles there have been

daemonVars == <<up, task, log, atEnd, artifacts, warned, job, result>>
vars == <<daemonVars, client, trouble>>

-----------------------------------------------------------------------------
(* Exit codes *)

OK == 0
InvalidSpec == 65
NoSuchFile == 66
Unreachable == 69
InternalError == 70
Exhausted == 75
Cancelled == 125
CouldNotStart == 126

\* A script may not exit with a code that kranq keeps for itself.
FromTask(code) == IF code \in 64..127 THEN 1 ELSE code

-----------------------------------------------------------------------------
(* The record, and the commands that ask for it *)

Final == {"succeeded", "failed", "cancelled", "lost"}
Statuses == {"none", "queued", "running"} \cup Final

Outcome == [status : Statuses, exit : Codes, error : BOOLEAN]
Unread == [status |-> "none", exit |-> OK, error |-> FALSE]

\* Mutant: only what failed is reported as failed.
ReportFailures(t) ==
    IF t.status = "failed" /\ t.error THEN CouldNotStart ELSE FromTask(t.exit)

\* What `kranq run` makes of the record it reads last.
Report(t) ==
    CASE t.status = "succeeded" -> OK
      [] t.status = "cancelled" -> Cancelled
      [] t.status = "failed" -> IF t.error THEN CouldNotStart ELSE FromTask(t.exit)
      [] OTHER -> InternalError

Streaming == {"copy", "look", "last"}

\* What a command has of the artifacts: "sofar" while they are sent, "cut" if the
\* archive or its unpacking ended early.
Gots == {"none", "sofar", "partial", "cut", "whole"}

Idle == [pc |-> "idle", kind |-> "none", offset |-> 0, told |-> OK,
         final |-> Unread, got |-> "none"]

TypeOK ==
    /\ up \in BOOLEAN /\ warned \in BOOLEAN
    /\ task \in [status : Statuses, exit : Codes, error : BOOLEAN, stored : BOOLEAN]
    /\ log \in 0..MaxLog /\ atEnd \in 0..log
    /\ artifacts \in {"none", "partial", "whole"}
    /\ job \in {"none", "starting", "runs", "collects", "collected", "reported", "broken",
               "gone", "told", "left"}
    /\ result \in Codes
    /\ client \in [Clients -> [pc : {"idle", "wait", "open", "ask", "fetch", "walk", "over"} \cup Streaming,
                               kind : {"none", "run", "detach", "print", "follow", "fetch", "unpack",
                                       "cancel"},
                               offset : 0..MaxLog,
                               told : {OK, InvalidSpec, NoSuchFile, Unreachable, InternalError,
                                       Cancelled, CouldNotStart} \cup (Codes \ (64..127)) \cup {1},
                               final : Outcome,
                               got : Gots]]
    /\ trouble \in 0..MaxTrouble

Init ==
    /\ up \in BOOLEAN
    /\ task = [status |-> "none", exit |-> OK, error |-> FALSE, stored |-> FALSE]
    /\ log = 0 /\ atEnd = 0
    /\ artifacts = "none" /\ warned = FALSE
    /\ job = "none" /\ result = OK
    /\ client = [c \in Clients |-> Idle]
    /\ trouble = 0

Trouble == trouble < MaxTrouble /\ trouble' = trouble + 1

Says(n) == log + n <= MaxLog /\ log' = log + n

\* Only the first final status counts, and only while there is a record.
Settle(status, exit, error) ==
    IF task.stored /\ task.status \notin Final
    THEN /\ task' = [task EXCEPT !.status = status, !.exit = exit, !.error = error]
         /\ atEnd' = log
    ELSE UNCHANGED <<task, atEnd>>

-----------------------------------------------------------------------------
(* Commands: each starts from nothing and ends with an exit code *)

Goto(c, pc) == client' = [client EXCEPT ![c].pc = pc]

End(c, code) == client' = [client EXCEPT ![c].pc = "over", ![c].told = code]

Enter(c, kind, pc, code) ==
    /\ client[c].pc = "idle"
    /\ client' = [client EXCEPT ![c].pc = pc, ![c].kind = kind, ![c].told = code]

\* `kranq run`: a daemon that is not there is started, or the command gives up; the
\* task may be refused, and the answer may be lost with the daemon.
Submit(c) ==
    /\ task.status = "none"
    /\ \/ /\ up /\ task' = [task EXCEPT !.status = "queued", !.stored = TRUE]
          /\ \/ Enter(c, "run", "wait", OK) /\ UNCHANGED <<up, trouble>>
             \/ Enter(c, "detach", "over", OK) /\ UNCHANGED <<up, trouble>>
             \/ Enter(c, "run", "over", Unreachable) /\ up' = FALSE /\ Trouble
       \/ /\ Trouble /\ UNCHANGED <<up, task>>
          /\ \E code \in IF up THEN {InvalidSpec, InternalError} ELSE {Unreachable} :
                 Enter(c, "run", "over", code)
    /\ UNCHANGED <<log, atEnd, artifacts, warned, job, result>>

\* `kranq logs`, with -f or without, and `kranq fetch`, to its output or unpacked, of
\* a task that somebody has submitted.
Ask(c) ==
    /\ task.status # "none"
    /\ \/ up /\ \E kind \in {"print", "follow"} : Enter(c, kind, "open", OK)
       \/ up /\ \E kind \in {"fetch", "unpack"} : Enter(c, kind, "fetch", OK)
       \/ ~up /\ \E kind \in {"print", "follow", "fetch", "unpack"} : Enter(c, kind, "over", Unreachable)
    /\ UNCHANGED <<daemonVars, trouble>>

\* `kranq cancel`: the record says so at once, the job is torn down later.
Cancel(c) ==
    /\ task.status # "none" /\ Trouble
    /\ \/ /\ up /\ task.stored
          /\ Settle("cancelled", task.exit, task.error)
          /\ Enter(c, "cancel", "over", OK)
       \/ /\ ~(up /\ task.stored) /\ UNCHANGED <<task, atEnd>>
          /\ Enter(c, "cancel", "over", IF up THEN NoSuchFile ELSE Unreachable)
    /\ UNCHANGED <<up, log, artifacts, warned, job, result>>

\* Mutant: it waits for a task that runs, however it ended.
WaitForRunning(c) ==
    /\ client[c].pc = "wait"
    /\ ~up \/ ~task.stored \/ task.status = "running"
    /\ Goto(c, "open")
    /\ UNCHANGED <<daemonVars, trouble>>

\* It polls until the task has started, or has ended, or nobody answers.
WaitForStart(c) ==
    /\ client[c].pc = "wait"
    /\ ~up \/ ~task.stored \/ task.status \in {"running"} \cup Final
    /\ Goto(c, "open")
    /\ UNCHANGED <<daemonVars, trouble>>

\* `kranq run` asks how the task ended whatever became of the stream.
StreamEnds(c, code) ==
    IF client[c].kind = "run" THEN Goto(c, "ask") ELSE End(c, code)

Open(c) ==
    /\ client[c].pc = "open"
    /\ CASE ~up -> StreamEnds(c, Unreachable)
         [] up /\ ~task.stored -> StreamEnds(c, NoSuchFile)
         [] OTHER -> Goto(c, "copy")
    /\ UNCHANGED <<daemonVars, trouble>>

\* Retention takes the log with the record: there is nothing more to copy.
CopyRest(c) == IF task.stored THEN log ELSE client[c].offset

Copy(c) ==
    /\ client[c].pc = "copy"
    /\ client' = [client EXCEPT
           ![c].offset = CopyRest(c),
           ![c].pc = IF client[c].kind = "print" THEN "over" ELSE "look"]
    /\ UNCHANGED <<daemonVars, trouble>>

\* Mutant: what has been copied is everything.
LookAndLeave(c) ==
    /\ client[c].pc = "look"
    /\ IF task.stored /\ task.status \in Final THEN StreamEnds(c, OK) ELSE Goto(c, "copy")
    /\ UNCHANGED <<daemonVars, trouble>>

\* A record that is gone is not the end of a task: the poll goes on.
Look(c) ==
    /\ client[c].pc = "look"
    /\ Goto(c, IF task.stored /\ task.status \in Final THEN "last" ELSE "copy")
    /\ UNCHANGED <<daemonVars, trouble>>

\* What was written between the copy and the look.
Last(c) ==
    /\ client[c].pc = "last"
    /\ client' = [client EXCEPT
           ![c].offset = CopyRest(c),
           ![c].pc = IF client[c].kind = "run" THEN "ask" ELSE "over"]
    /\ UNCHANGED <<daemonVars, trouble>>

GetFinal(c) ==
    /\ client[c].pc = "ask"
    /\ IF up /\ task.stored
       THEN client' = [client EXCEPT
                ![c].pc = "fetch",
                ![c].final = [status |-> task.status, exit |-> task.exit, error |-> task.error]]
       ELSE End(c, Unreachable)
    /\ UNCHANGED <<daemonVars, trouble>>

\* `kranq run` only mentions artifacts that it cannot fetch or unpack, and so does
\* `kranq fetch` that unpacks them.
Fetched(c) == IF client[c].kind = "run" THEN Report(client[c].final) ELSE OK

\* A task without artifacts is no error; a daemon that does not answer is one.
FetchArtifacts(c) ==
    /\ client[c].pc = "fetch"
    /\ IF up /\ task.stored /\ artifacts # "none"
       THEN client' = [client EXCEPT
                ![c].pc = "walk",
                ![c].got = IF artifacts = "partial" THEN "partial" ELSE "sofar"]
       ELSE client' = [client EXCEPT
                ![c].pc = "over", ![c].got = "none",
                ![c].told = IF ~up /\ client[c].kind = "fetch" THEN Unreachable
                            ELSE Fetched(c)]
    /\ UNCHANGED <<daemonVars, trouble>>

\* Half-copied artifacts make a half-copied archive, wherever it ends.
Rest(c, ending) ==
    IF client[c].got = "partial" \/ artifacts = "partial" THEN "partial" ELSE ending

\* The walk goes on over the other files.  What retention has taken, or what cannot
\* be read, ends the archive as if that were all, and a file that cannot be unpacked
\* ends the unpacking; the exit code is the same.
Walk(c) ==
    /\ client[c].pc = "walk"
    /\ \E ending \in {"cut", "whole"} :
           /\ client' = [client EXCEPT ![c].pc = "over", ![c].told = Fetched(c),
                                      ![c].got = Rest(c, ending)]
           /\ IF ending = "whole" THEN task.stored /\ UNCHANGED trouble
              ELSE IF task.stored THEN Trouble ELSE UNCHANGED trouble
    /\ UNCHANGED daemonVars

-----------------------------------------------------------------------------
(* The task: its job, and the goroutine of the daemon that settles it *)

Alive == job \in {"runs", "collects", "collected"}

\* The record says running before the log is opened and the job started.
Launch ==
    /\ up /\ task.stored /\ task.status = "queued" /\ job = "none"
    /\ task' = [task EXCEPT !.status = "running"]
    /\ job' = "starting"
    /\ UNCHANGED <<result, up, log, atEnd, artifacts, warned, client, trouble>>

StartJob ==
    /\ up /\ job = "starting"
    /\ Says(1) /\ job' = "runs"
    /\ UNCHANGED <<result, up, task, atEnd, artifacts, warned, client, trouble>>

JobWrites ==
    /\ job \in {"runs", "left"} /\ Says(1)
    /\ UNCHANGED <<result, up, task, atEnd, artifacts, warned, job, client, trouble>>

\* The script has ended: there is an artifact directory in the VM, or there is not.
Collect ==
    /\ job = "runs"
    /\ \/ job' = "collects" /\ artifacts' = "partial"
       \/ job' = "collected" /\ UNCHANGED artifacts
    /\ UNCHANGED <<result, up, task, log, atEnd, warned, client, trouble>>

\* A copy that fails is a warning in the log, and what it has left stays.
Collected ==
    /\ job = "collects" /\ job' = "collected"
    /\ \/ artifacts' = "whole" /\ UNCHANGED <<log, warned, trouble>>
       \/ Trouble /\ Says(1) /\ warned' = TRUE /\ UNCHANGED artifacts
    /\ UNCHANGED <<result, up, task, atEnd, client>>

\* Mutant: the result is written as soon as the script has ended.
JobReportsEarly ==
    /\ job \in {"collects", "collected"} /\ job' = "reported"
    /\ result' \in Codes
    /\ UNCHANGED <<up, task, log, atEnd, artifacts, warned, client, trouble>>

JobReports ==
    /\ job = "collected" /\ job' = "reported"
    /\ result' \in Codes
    /\ UNCHANGED <<up, task, log, atEnd, artifacts, warned, client, trouble>>

\* The job cannot do its work and says so, or it is killed and says nothing; a
\* job whose task was cancelled is torn down either way.
JobBreaks ==
    /\ Alive /\ job' \in {"broken", "gone"}
    /\ IF task.status = "cancelled" THEN UNCHANGED trouble ELSE Trouble
    /\ UNCHANGED <<result, up, task, log, atEnd, artifacts, warned, client>>

\* A script that ran out of claude usage queues its task again, whatever the
\* record says by now.
SettleExhausted ==
    /\ up /\ job = "reported" /\ result = Exhausted /\ Trouble
    /\ Says(1)
    /\ task' = IF task.stored THEN [task EXCEPT !.status = "queued"] ELSE task
    /\ job' = "none"
    /\ UNCHANGED <<result, up, atEnd, artifacts, warned, client>>

SettleExit ==
    /\ up /\ job = "reported"
    /\ Settle(IF result = 0 THEN "succeeded" ELSE "failed", result, FALSE)
    /\ job' = "none"
    /\ UNCHANGED <<result, up, log, artifacts, warned, client, trouble>>

\* The log has the error before the record does.
SettleErrorSays ==
    /\ up /\ job \in {"gone", "broken"} /\ Says(1)
    /\ job' = "told"
    /\ UNCHANGED <<result, up, task, atEnd, artifacts, warned, client, trouble>>

\* A task whose time was up is lost, any other has failed.
SettleError ==
    /\ up /\ job = "told" /\ job' = "none"
    /\ \/ Settle("failed", task.exit, TRUE)
       \/ Settle("lost", task.exit, task.error)
    /\ UNCHANGED <<result, up, log, artifacts, warned, client, trouble>>

\* Retention, by the time that has passed since the task was submitted.
Prune ==
    /\ up /\ task.stored /\ task.status \in Final /\ Trouble
    /\ task' = [task EXCEPT !.stored = FALSE]
    /\ UNCHANGED <<result, up, log, atEnd, artifacts, warned, job, client>>

-----------------------------------------------------------------------------
(* The daemon stops and comes back *)

\* Whoever reads an answer notices that it was cut off; nothing of it is unpacked.
Cut(c) ==
    CASE client[c].pc \in Streaming /\ client[c].kind = "run" ->
             [client[c] EXCEPT !.pc = "ask"]
      [] client[c].pc \in Streaming /\ client[c].kind # "run" ->
             [client[c] EXCEPT !.pc = "over", !.told = Unreachable]
      [] client[c].pc = "walk" /\ client[c].kind = "fetch" ->
             [client[c] EXCEPT !.pc = "over", !.told = Unreachable, !.got = Rest(c, "cut")]
      [] client[c].pc = "walk" /\ client[c].kind # "fetch" ->
             [client[c] EXCEPT !.pc = "over", !.told = Fetched(c), !.got = "none"]
      [] OTHER -> client[c]

\* A job runs on, unless it had not been started.
DaemonStops ==
    /\ up /\ Trouble
    /\ up' = FALSE
    /\ client' = [c \in Clients |-> Cut(c)]
    /\ job' = IF job \in {"starting", "told"} THEN "gone" ELSE job
    /\ UNCHANGED <<result, task, log, atEnd, artifacts, warned>>

\* A running task is re-adopted, which its log says, or given up as lost: its job
\* is gone, or cannot be found.
DaemonStarts ==
    /\ ~up /\ up' = TRUE
    /\ \/ /\ task.status # "running" /\ job' = IF Alive THEN "left" ELSE "none"
          /\ UNCHANGED <<task, log, atEnd, trouble>>
       \/ /\ task.status = "running" /\ job # "gone" /\ Says(1)
          /\ UNCHANGED <<task, atEnd, job, trouble>>
       \/ /\ task.status = "running" /\ Settle("lost", task.exit, task.error)
          /\ job' = IF Alive THEN "left" ELSE "none"
          /\ IF job = "gone" THEN UNCHANGED trouble ELSE Trouble
          /\ UNCHANGED log
    /\ UNCHANGED <<artifacts, warned, result, client>>

Serve(c) == Open(c) \/ Copy(c) \/ Look(c) \/ Last(c)
Command(c) == WaitForStart(c) \/ Serve(c) \/ GetFinal(c) \/ FetchArtifacts(c) \/ Walk(c)

Task == \/ Launch \/ StartJob \/ JobWrites \/ Collect \/ Collected \/ JobReports
        \/ JobBreaks \/ SettleExhausted \/ SettleExit \/ SettleErrorSays \/ SettleError
        \/ Prune

Next == \/ \E c \in Clients : Submit(c) \/ Ask(c) \/ Cancel(c) \/ Command(c)
        \/ Task \/ DaemonStops \/ DaemonStarts

\* A command and the goroutine that serves it go on by themselves; nothing is
\* assumed of jobs, of the daemon's coming back, or of whoever types commands.
Spec == Init /\ [][Next]_vars /\ \A c \in Clients : WF_vars(Command(c))

-----------------------------------------------------------------------------
(* Properties *)

\* A stream that ends by itself has shown all that was written by the time the
\* task ended, and of a task that succeeded all there is (logs, settle).
StreamHasAll ==
    [][\A c \in Clients :
           (client[c].pc \in {"look", "last"} /\ client'[c].pc \in {"ask", "over"}
              /\ up' /\ task.stored) =>
                 /\ client'[c].offset >= atEnd
                 /\ task.status = "succeeded" => client'[c].offset = log]_vars

\* `kranq run` "exits with the task's own exit code" (docs/commands.md), and with
\* a code of its own only for what the script did not do: 0 means that the task
\* succeeded, and a code below 64 that its script failed.
ExitIsVerdict ==
    \A c \in Clients : client[c].pc = "over" /\ client[c].kind = "run" =>
        /\ client[c].told = OK => task.status = "succeeded"
        /\ client[c].told \in 1..63 => task.status = "failed" /\ ~task.error

\* What comes back with a success is never what the job had only half copied,
\* unless the log warns of it (collect, settle, submitAndFollow).  The archive
\* itself may be cut short without a word: by retention, by a file that the daemon
\* cannot read, or by one that cannot be unpacked (artifacts, untarInto).
ArtifactsAreWhole ==
    \A c \in Clients :
        (client[c].kind = "run" /\ client[c].told = OK /\ client[c].pc = "over" /\ ~warned) =>
            client[c].got # "partial"

\* "`-f` follows until it finishes" (docs/commands.md): whoever follows a task
\* that is over gets to an end, unless its record is pruned first, or the task
\* was cancelled and SettleExhausted queues it again.
FollowersEnd ==
    \A c \in Clients :
        (client[c].pc # "idle" /\ task.status \in Final)
            ~> (client[c].pc = "over" \/ ~task.stored \/ task.status \notin Final)
=============================================================================
