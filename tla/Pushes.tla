------------------------------- MODULE Pushes -------------------------------
(***************************************************************************)
(* A push that runs a task (internal/cli/githook.go, internal/gitsrv,      *)
(* internal/run/result.go): git receives the objects, the pre-receive hook *)
(* validates, the ref moves, and the post-receive hook submits the task,   *)
(* gives the run its ref, sweeps what has aged out, follows the task and   *)
(* publishes its result and verdict.  Every hook is a process of its own,  *)
(* and all of them and the jobs write the refs of one bare repository,     *)
(* one git command at a time.  The client sees only what the hook prints.  *)
(*                                                                         *)
(* Abstracted: a push and the task it submits share an identity, and a run *)
(* name that was minted is the push that minted it; dates are reduced to   *)
(* whether a name sorts before the cutoff; the queue to what it does to    *)
(* the record of a task (module Sched has the rest).                       *)
(***************************************************************************)
EXTENDS Integers, FiniteSets

CONSTANTS
    Pushes,       \* pushes, and the tasks they submit
    Commits,      \* what is pushed
    Names,        \* run names people choose
    Branches,     \* refs/heads/... that are neither `tasks` nor under task/
    RunOf,        \* the last segment of each branch
    Low,          \* chosen names that sort before any date, like 0042-fix-the-login
    Open,         \* the refs that clients push to
    None,         \* no object
    MaxTrouble    \* bound: how often something goes wrong or takes long

ASSUME NamesAssumption == RunOf \in [Branches -> Names] /\ Low \subseteq Names

ASSUME DistinctAssumption ==
    /\ Names \cap Pushes = {} /\ None \notin Commits \cup (Pushes \X Nat)

ASSUME BoundsAssumption == MaxTrouble \in Nat

VARIABLES
    refs,    \* the refs of the bare repository
    hook,    \* each push: its git process, then its hook
    task,    \* the records of the tasks, as the daemon serves them
    job,     \* the tasks a tick has listed, and the attempts that run
    told,    \* what the client of each push has read, and where from
    aged,    \* the pushes whose names are older than the time to live
    trouble  \* how many troubles there have been

vars == <<refs, hook, task, job, told, aged, trouble>>

-----------------------------------------------------------------------------
(* Refs *)

Runs == Names \cup Pushes

AnonRef == <<"tasks", None>>
TaskRef(run) == <<"task", run>>
OKRef(run) == <<"ok", run>>
SrcRef(p) == <<"src", p>>
ResultRef(p) == <<"result", p>>
RunBranch(p) == <<"kranq", p>>

\* Refs that are named after the id of a task.
OfTasks == {"src", "result", "kranq"}

Refs == {AnonRef} \cup ({"heads"} \X Branches) \cup ({"task", "ok"} \X Runs)
          \cup (OfTasks \X Pushes)

ASSUME OpenAssumption == Open \subseteq Refs

\* The hook looks at no name: all of Refs may be open.  The id of a task is known
\* once it has been submitted.
Targets(p) == {AnonRef} \cup {ref \in Open : ref[1] \in OfTasks => ref[2] # p}

\* What attempt n of p commits on top of what was pushed.
Product(p, n) == <<p, n>>
Objects == Commits \cup (Pushes \X Nat)

RunName(p, ref) == CASE ref = AnonRef -> p
                     [] ref[1] = "heads" -> RunOf[ref[2]]
                     [] OTHER -> ref[2]

UpdateRef(ref, object) == refs' = [refs EXCEPT ![ref] = object]

\* update-ref -d with the value the ref must have.
DeleteIf(ref, object) == UpdateRef(ref, IF refs[ref] = object THEN None ELSE refs[ref])

Kept == {"src", "task", "ok", "result"}

\* The refs of the kept namespaces whose name sorts before the cutoff.
Expired == {ref \in Refs : ref[1] \in Kept /\ ref[2] \in Low \cup aged}

Swept == [ref \in Refs |-> IF ref \in Expired THEN None ELSE refs[ref]]

-----------------------------------------------------------------------------
(* Tasks, their records and what is printed of them *)

Final == {"succeeded", "failed", "cancelled", "lost"}

\* A cancel does not last: a launch and an exhausted run overwrite it.
Settled == Final \ {"cancelled"}

Statuses == {"none", "queued", "running"} \cup Final

\* A record's exit code is 0 until a result sets it; cancel and markLost do not.
NewTask == [status |-> "queued", exit |-> 0, result |-> FALSE, attempts |-> 0]
NoTask == [NewTask EXCEPT !.status = "none"]

Read(record) == [status |-> record.status, exit |-> record.exit, result |-> record.result]
Unread == Read(NoTask)

Unheard == [status |-> "none", exit |-> 0]

Refusal == [status |-> "refused", exit |-> 65]

Marker(record) == [status |-> record.status, exit |-> record.exit]

\* What `kranq push` exits with: the marker's code, or that nothing came back.
PushExit(p) == CASE hook[p].pc = "declined" -> 65
                 [] told[p].status # "none" -> told[p].exit
                 [] hook[p].detach -> 0
                 [] OTHER -> 69

Idle == [pc |-> "idle", ref |-> AnonRef, commit |-> None, old |-> None, detach |-> FALSE,
         failed |-> FALSE, final |-> Unread]

Received == {"moved", "submitted", "retained", "named", "released", "swept",
             "read", "published", "marked", "leaving"}
Over == {"uptodate", "declined", "done", "uncleared", "dead", "asked"}

Run(p) == RunName(p, hook[p].ref)

InHook(p) == hook[p].pc \in Received

TypeOK ==
    /\ refs \in [Refs -> Objects \cup {None}]
    /\ hook \in [Pushes -> [pc : {"idle", "sent"} \cup Received \cup Over,
                            ref : Refs, commit : Commits \cup {None},
                            old : Objects \cup {None}, detach : BOOLEAN, failed : BOOLEAN,
                            final : [status : Statuses, exit : 0..1, result : BOOLEAN]]]
    /\ \A p \in Pushes : hook[p].ref \in Targets(p)
    /\ task \in [Pushes -> [status : Statuses, exit : 0..1, result : BOOLEAN,
                            attempts : Nat]]
    /\ job \in [Pushes -> {"none", "listed", "runs"}]
    /\ told \in [Pushes -> [status : Statuses \cup {"refused"}, exit : {0, 1, 65}]]
    /\ aged \subseteq Pushes
    /\ trouble \in 0..MaxTrouble

Init ==
    /\ refs = [ref \in Refs |-> None]
    /\ hook = [p \in Pushes |-> Idle]
    /\ task = [p \in Pushes |-> NoTask]
    /\ job = [p \in Pushes |-> "none"]
    /\ told = [p \in Pushes |-> Unheard]
    /\ aged = {}
    /\ trouble = 0

-----------------------------------------------------------------------------
(* git, before the hook has anything to run *)

Trouble == trouble < MaxTrouble /\ trouble' = trouble + 1

Step(p, pc) == hook' = [hook EXCEPT ![p].pc = pc]

Decline(p) == hook' = [hook EXCEPT ![p] = [Idle EXCEPT !.pc = "declined"]]

\* A ref that already points at the commit runs no hook at all.
Send(p) ==
    /\ hook[p].pc = "idle" /\ p \notin aged
    /\ \E ref \in Targets(p), c \in Commits, detach \in BOOLEAN :
           /\ ref[1] \in OfTasks => task[ref[2]].status # "none"
           /\ hook' = [hook EXCEPT ![p] =
               IF refs[ref] = c THEN [Idle EXCEPT !.pc = "uptodate"]
               ELSE [Idle EXCEPT !.pc = "sent", !.ref = ref, !.commit = c,
                                 !.old = refs[ref], !.detach = detach]]
    /\ UNCHANGED <<refs, task, job, told, aged, trouble>>

\* The pre-receive hook accepts the push, and git moves the ref if nobody else
\* has since the client saw it.
Receive(p) ==
    /\ hook[p].pc = "sent"
    /\ \/ /\ refs[hook[p].ref] = hook[p].old
          /\ UpdateRef(hook[p].ref, hook[p].commit)
          /\ hook' = [hook EXCEPT ![p].pc = "moved", ![p].old = None]
       \/ /\ refs[hook[p].ref] # hook[p].old
          /\ Decline(p) /\ UNCHANGED refs
    /\ UNCHANGED <<task, job, told, aged, trouble>>

\* It refuses: the options, more or less than one live ref, a spec that is not
\* in the commit or does not parse.
HookValidate(p) ==
    /\ hook[p].pc = "sent"
    /\ Decline(p)
    /\ UNCHANGED <<refs, task, job, told, aged, trouble>>

-----------------------------------------------------------------------------
(* The post-receive hook *)

Submit(p) ==
    /\ hook[p].pc = "moved"
    /\ task' = [task EXCEPT ![p] = NewTask]
    /\ Step(p, "submitted")
    /\ UNCHANGED <<refs, job, told, aged, trouble>>

\* The daemon is down, or says no: a run that never started owes a verdict too.
Refused(p) ==
    /\ hook[p].pc = "moved" /\ Trouble
    /\ told' = [told EXCEPT ![p] = Refusal]
    /\ Step(p, "leaving")
    /\ UNCHANGED <<refs, task, job, aged>>

ReleaseRetain(p) ==
    /\ hook[p].pc = "submitted"
    /\ UpdateRef(SrcRef(p), hook[p].commit)
    /\ Step(p, IF TaskRef(Run(p)) = hook[p].ref THEN "released" ELSE "retained")
    /\ UNCHANGED <<task, job, told, aged, trouble>>

ReleaseName(p) ==
    /\ hook[p].pc = "retained"
    /\ UpdateRef(TaskRef(Run(p)), hook[p].commit)
    /\ Step(p, "named")
    /\ UNCHANGED <<task, job, told, aged, trouble>>

\* Another push may have landed there since.
ReleaseClear(p) ==
    /\ hook[p].pc = "named"
    /\ DeleteIf(hook[p].ref, hook[p].commit)
    /\ Step(p, "released")
    /\ UNCHANGED <<task, job, told, aged, trouble>>

Sweep(p) ==
    /\ hook[p].pc = "released"
    /\ refs' = Swept
    /\ Step(p, IF hook[p].detach THEN "leaving" ELSE "swept")
    /\ UNCHANGED <<task, job, told, aged, trouble>>

\* The log stream has ended, with the task or early: a restart of the daemon
\* cuts it.  The record is read all the same.
GetFinal(p) ==
    /\ hook[p].pc = "swept"
    /\ IF task[p].status \in Final THEN UNCHANGED trouble ELSE Trouble
    /\ hook' = [hook EXCEPT ![p].pc = "read", ![p].final = Read(task[p])]
    /\ UNCHANGED <<refs, task, job, told, aged>>

\* The daemon cannot be reached: no verdict is printed.
GetFails(p) ==
    /\ hook[p].pc = "swept" /\ Trouble
    /\ Step(p, "leaving")
    /\ UNCHANGED <<refs, task, job, told, aged>>

\* Mutant: the run's own name keeps what was pushed.
PublishNoResult(p) ==
    /\ hook[p].pc = "read"
    /\ Step(p, "published")
    /\ UNCHANGED <<refs, task, job, told, aged, trouble>>

\* git resolves the name of the result; a swept one is an error and is only said.
PublishResult(p) ==
    /\ hook[p].pc = "read"
    /\ IF hook[p].final.result /\ refs[ResultRef(p)] # None
       THEN UpdateRef(TaskRef(Run(p)), refs[ResultRef(p)])
       ELSE UNCHANGED refs
    /\ Step(p, "published")
    /\ UNCHANGED <<task, job, told, aged, trouble>>

\* Mutant: every verdict leaves the pass marker.
PublishAlways(p) ==
    /\ hook[p].pc = "published"
    /\ IF refs[TaskRef(Run(p))] # None
       THEN UpdateRef(OKRef(Run(p)), refs[TaskRef(Run(p))])
       ELSE UNCHANGED refs
    /\ Step(p, "marked")
    /\ UNCHANGED <<task, job, told, aged, trouble>>

\* The pass marker is made from whatever the run's ref points at by now.
PublishOK(p) ==
    /\ hook[p].pc = "published"
    /\ IF hook[p].final.status = "succeeded" /\ refs[TaskRef(Run(p))] # None
       THEN UpdateRef(OKRef(Run(p)), refs[TaskRef(Run(p))])
       ELSE UNCHANGED refs
    /\ Step(p, "marked")
    /\ UNCHANGED <<task, job, told, aged, trouble>>

\* Mutant: the landing pad keeps what landed there.
LeavePad(p) ==
    /\ hook[p].pc \in {"marked", "leaving"}
    /\ told' = IF hook[p].pc = "marked"
               THEN [told EXCEPT ![p] = Marker(hook[p].final)] ELSE told
    /\ hook' = [hook EXCEPT ![p].pc = "done", ![p].final = Unread]
    /\ UNCHANGED <<refs, task, job, aged, trouble>>

\* It does not say what it expects to delete.
ClearAnon(p) == IF hook[p].ref = AnonRef THEN UpdateRef(AnonRef, None) ELSE UNCHANGED refs

\* The verdict is printed, and the deferred clearAnon runs.
Leave(p) ==
    /\ hook[p].pc \in {"marked", "leaving"}
    /\ told' = IF hook[p].pc = "marked"
               THEN [told EXCEPT ![p] = Marker(hook[p].final)] ELSE told
    /\ ClearAnon(p)
    /\ hook' = [hook EXCEPT ![p].pc = "done", ![p].final = Unread]
    /\ UNCHANGED <<task, job, aged, trouble>>

\* That git could not clear it is not even said.
LeaveUncleared(p) ==
    /\ hook[p].pc \in {"marked", "leaving"} /\ hook[p].ref = AnonRef /\ Trouble
    /\ told' = IF hook[p].pc = "marked"
               THEN [told EXCEPT ![p] = Marker(hook[p].final)] ELSE told
    /\ hook' = [hook EXCEPT ![p].pc = "uncleared", ![p].final = Unread]
    /\ UNCHANGED <<refs, task, job, aged>>

\* Where a hook goes on when its git command fails; it only says so.
AfterFailure(pc) == CASE pc \in {"submitted", "retained", "named"} -> "released"
                      [] pc = "released" -> "swept"
                      [] pc = "read" -> "published"
                      [] pc = "published" -> "marked"

GitFails(p) ==
    /\ Trouble
    /\ hook[p].pc \in {"submitted", "retained", "named", "released", "read", "published"}
    /\ hook' = [hook EXCEPT ![p].failed = TRUE,
           ![p].pc = IF @ = "released" /\ hook[p].detach THEN "leaving" ELSE AfterFailure(@)]
    /\ UNCHANGED <<refs, task, job, told, aged>>

\* The connection drops and takes the hook with it; deferred calls do not run.
Die(p) ==
    /\ InHook(p) /\ Trouble
    /\ hook' = [hook EXCEPT ![p].pc = "dead", ![p].final = Unread]
    /\ UNCHANGED <<refs, task, job, told, aged>>

-----------------------------------------------------------------------------
(* The task: what the queue and the job do to its record and to the refs *)

\* A clone looks for the commit under refs/heads.
Stage(p) == UpdateRef(RunBranch(p), hook[p].commit)

\* A tick takes a list of the tasks, and walks it.
List(p) ==
    /\ task[p].status = "queued" /\ job[p] = "none"
    /\ job' = [job EXCEPT ![p] = "listed"]
    /\ UNCHANGED <<refs, hook, task, told, aged, trouble>>

\* It holds the task back, which may block it, whatever the record is by now; or
\* it ends before it gets there.
HoldBack(p) ==
    /\ job[p] = "listed" /\ job' = [job EXCEPT ![p] = "none"]
    /\ task' \in {task, [task EXCEPT ![p].status = "queued"]}
    /\ UNCHANGED <<refs, hook, told, aged, trouble>>

\* It launches an attempt, whatever the record is by now, and the job stages what
\* was pushed.
StartAttempt(p) ==
    /\ job[p] = "listed"
    /\ task' = [task EXCEPT ![p].status = "running", ![p].attempts = @ + 1]
    /\ job' = [job EXCEPT ![p] = "runs"]
    /\ Stage(p)
    /\ UNCHANGED <<hook, told, aged, trouble>>

\* What an attempt that has ended leaves under the task's id.  Changes are
\* fetched without force: on top of what an earlier attempt left, which is no
\* ancestor, that is refused.  There may be none, or packaging them may fail.
CommitResult(p, recorded) ==
    \/ ~recorded /\ UNCHANGED refs
    \/ /\ recorded /\ refs[ResultRef(p)] = None
       /\ UpdateRef(ResultRef(p), Product(p, task[p].attempts))

\* The script has ended and the job reports: the result is recorded whatever the
\* status is by now.  "queued" is a task that ran out of claude usage and is to be
\* resumed, even if it was cancelled; any other end leaves a final status alone.
EndAttempt(p) ==
    /\ job[p] = "runs" /\ job' = [job EXCEPT ![p] = "none"]
    /\ \E recorded \in BOOLEAN, status \in {"succeeded", "failed", "queued"} :
           /\ IF status = "queued" THEN Trouble ELSE UNCHANGED trouble
           /\ CommitResult(p, recorded)
           /\ task' = [task EXCEPT
                  ![p].result = recorded,
                  ![p].status = IF @ \in Final /\ status # "queued" THEN @ ELSE status,
                  ![p].exit = IF task[p].status \notin Final /\ status = "failed" THEN 1 ELSE @]
    /\ UNCHANGED <<hook, told, aged>>

\* The job is torn down or dies, perhaps after it committed; its task is over, or
\* is given up with an error or as lost.
LoseAttempt(p) ==
    /\ Trouble
    /\ job[p] = "runs" /\ job' = [job EXCEPT ![p] = "none"]
    /\ \E committed \in BOOLEAN : CommitResult(p, committed)
    /\ \/ task[p].status \in Final /\ UNCHANGED task
       \/ /\ task[p].status = "running"
          /\ \/ task' = [task EXCEPT ![p].status = "failed", ![p].exit = 1]
             \/ task' = [task EXCEPT ![p].status = "lost"]
    /\ UNCHANGED <<hook, told, aged>>

\* Mutant: a cancel does not look whether the task is over.
CancelAnything(p) ==
    /\ task[p].status # "none" /\ Trouble
    /\ task' = [task EXCEPT ![p].status = "cancelled"]
    /\ UNCHANGED <<refs, hook, job, told, aged>>

Cancel(p) ==
    /\ task[p].status \in {"queued", "running"} /\ Trouble
    /\ task' = [task EXCEPT ![p].status = "cancelled"]
    /\ UNCHANGED <<refs, hook, job, told, aged>>

-----------------------------------------------------------------------------
(* The client, and time *)

\* `kranq result`, over a fresh connection, once the hook has said the task's id.
AskAgain(p) ==
    /\ hook[p].pc \in {"done", "uncleared", "dead"} /\ task[p].status \in Final
    /\ told[p].status \notin Final
    /\ told' = [told EXCEPT ![p] = Marker(task[p])]
    /\ Step(p, IF hook[p].pc = "done" THEN "asked" ELSE hook[p].pc)
    /\ UNCHANGED <<refs, task, job, aged, trouble>>

\* A push, its task and the name minted for it are older than what is kept: only
\* to follow a task takes a hook that long.
Age(p) ==
    /\ hook[p].pc \in {"swept"} \cup Over /\ p \notin aged /\ Trouble
    /\ aged' = aged \cup {p}
    /\ UNCHANGED <<refs, hook, task, job, told>>

Hook(p) == \/ Receive(p) \/ HookValidate(p) \/ Submit(p) \/ Refused(p)
           \/ ReleaseRetain(p) \/ ReleaseName(p) \/ ReleaseClear(p) \/ Sweep(p)
           \/ GetFinal(p) \/ GetFails(p) \/ PublishResult(p)
           \/ PublishOK(p) \/ Leave(p) \/ LeaveUncleared(p)

Task(p) == \/ List(p) \/ HoldBack(p) \/ StartAttempt(p) \/ EndAttempt(p) \/ LoseAttempt(p) \/ Cancel(p)

Next == \E p \in Pushes : \/ Send(p) \/ Hook(p) \/ GitFails(p) \/ Die(p)
                          \/ Task(p) \/ AskAgain(p) \/ Age(p)

Spec == Init /\ [][Next]_vars

-----------------------------------------------------------------------------
(* Properties *)

\* A run whose name and result nobody else pushes to, and one that the sweep
\* leaves alone.
Alone(p) == \A q \in Pushes \ {p} :
                hook[q].pc = "idle" \/ (Run(q) # Run(p) /\ hook[q].ref # ResultRef(p))
Fresh(p) == p \notin aged /\ Run(p) \notin Low \cup aged

\* "ok/<run> exists only if the task succeeded" (README.md): if it exists, a
\* push of that name did succeed, and it is that push's commit or the product of
\* the attempt that succeeded, unless another push has used the name.  Who pushes
\* to ok/<run> itself has made it before any task runs, and it is that commit.
OkIsEarned ==
    \A run \in Runs : refs[OKRef(run)] # None =>
        \E p \in Pushes :
            \/ /\ hook[p].ref = OKRef(run) /\ hook[p].pc \in Received \cup Over
               /\ refs[OKRef(run)] = hook[p].commit
            \/ /\ Run(p) = run /\ task[p].status = "succeeded"
               /\ Alone(p) => refs[OKRef(run)] \in {hook[p].commit, Product(p, task[p].attempts)}

\* The anonymous landing pad holds a commit only while a hook that will clear it
\* runs, or after one was killed or git would not clear it for one: otherwise a
\* retry is never answered "Everything up-to-date" in silence (hookRun, release).
AnonIsCleared ==
    refs[AnonRef] # None =>
        \E p \in Pushes : /\ hook[p].ref = AnonRef
                          /\ hook[p].pc \in Received \cup {"dead", "uncleared"}

\* Whoever pushed pulls the result from the run's own name, and the verdict of
\* a run that succeeded is there: once a hook has followed its task to the end
\* and published, unless a git command failed (release, publish).
Delivered ==
    \A p \in Pushes :
        (/\ hook[p].pc = "done" /\ ~hook[p].detach /\ told[p].status = "succeeded"
         /\ Alone(p) /\ Fresh(p) /\ ~hook[p].failed) =>
            LET object == IF task[p].result THEN Product(p, task[p].attempts)
                          ELSE hook[p].commit
            IN  refs[TaskRef(Run(p))] = object /\ refs[OKRef(Run(p))] = object

\* What the client reads of a task that is over is what the record says for
\* good, and the exit code tells success from failure (hookRun, runResult).  The
\* one word that may be taken back is "cancelled": a tick that had listed the task
\* launches or blocks it all the same, and so does a job that has run out of usage.
VerdictIsTrue ==
    \A p \in Pushes :
        /\ told[p].status \in Settled => told[p] = Marker(task[p])
        /\ told[p].status = "failed" <=> told[p].exit = 1

\* docs/advanced/push.md: "`kranq push` reads it and exits with the task's own
\* code": 0 after the verdict on a task that is over means that it succeeded.
ZeroMeansSucceeded ==
    \A p \in Pushes :
        told[p].status \in Final /\ PushExit(p) = 0 => task[p].status = "succeeded"
=============================================================================
