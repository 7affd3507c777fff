# kranq in TLA+

kranq runs CI tasks in throw-away virtual machines on one machine: a daemon
queues tasks, admits them while memory, cores and slots last, and runs each in a
job process of its own, which builds images, clones a VM, runs the task's script
and fences its effects at the git server. This directory specifies the parts of
kranq whose correctness depends on what happens *between* processes: modules that
TLC checks on small instances, and theorems that TLAPS proves for all of them.

Paths below are relative to `src/internal/`. `PROJECT.json` lists, for every
definition that models code, the lines it stands for.

## The system

| Component | State | Operations | Talks to | What makes it correct |
| --- | --- | --- | --- | --- |
| scheduler (`sched/`) | the running map, the wake channel | Tick, launch, settle, Recover, Cancel | store, supervisor, gate, hostres | no attempt is repeated that may have had effects; slots and cores hold; every task ends |
| state store (`state/`) | one JSON record per task and an index | Create, Update, List, Prune | scheduler, API | a final status is final |
| supervisor (`daemon/supervise.go`) | none beside a goroutine per attempt | Execute, Adoptable, Adopt, await, teardown | job process through files and signals | the result that is read is that of this attempt |
| job process (`jobproc/`, `cli/exec.go`, `daemon/runner.go`) | the result file | runs the engine, writes the result once | everything below | outlives the daemon; a missing result means it died |
| usage gate (`gate/`) | closed until when, per token | Available, MarkExhaustedUntil, MarkHealthy | scheduler | only the machine's own usage closes it |
| fence (`fence/`, `run/fence.go`, `task/fence.go`) | a ref at the git server | Claim, Adopt, Release, Break, kranq_push | git server, from host and VM | effects of different runs do not mix |
| run engine (`run/engine.go`) | a VM | Execute | fence, images, VM driver | the fence is settled and the VM removed on every way out |
| run results (`run/result.go`, `run/source.go`) | refs of staged sources and results | Stage, commitScript, commitResult | git server | a result belongs to its run |
| images (`image/`) | VM images, metadata, one lock per image | Ensure, Prune, Destroy | VM driver | a half-built image is never cloned |
| git hook (`cli/githook.go`) | refs of the bare repository, one hook process per push | validate, submit, release, sweep, follow, publish, clearAnon | git server, API | the verdict and the pass marker say what happened; the result is under the run's own name |
| git server (`gitsrv/`, `cli/gitreceive.go`, `daemon/githttp.go`) | repositories: HEAD, objects, config, hooks | Ensure, serve, create, remove | git hook, registries | git serves only what is ready |
| API and its clients (`ipc/`, `cli/run.go`, `cli/tasks.go`) | followers of logs | submit, cancel, get, logs, artifacts | scheduler, store | a follower ends, with all of the log and the task's code |
| daemon's life, upgrade (`daemon/lock.go`, `ipc/server.go`, `cli/daemon.go`, `upgrade/`) | lock file, socket, the binary and its copies | start, stop, install, roll back, restart | processes and signals | one daemon at a time, which can be reached; a whole binary and a way back |
| registries (`peer/`, `authkeys/`, `token/`) | one small file each | add, remove, create, revoke, touch | git server | one default; whole updates |
| project file, specs, names (`project/`, `task/`, `image/name.go`) | none | parsers and hashes | | pure |
| set-up, doctor, dependencies, installation | files of an installation | one command at a time | limactl, launchd | I/O |

The daemon is the middle. A task comes in over the API, from a command or from the
post-receive hook of a push; the scheduler runs it as a job; the job works through
images, VM and fence and leaves a result ref; the hook or the command follows the log
and reports. Each module below takes one of these meetings and keeps of its
neighbours what the meeting depends on: `Pushes` and `Follow` have the queue and the
job reduced to what they do to a record, which `Sched` has in full.

What is hard in this code, and hence the order of the work: the daemon may die
between any two steps while jobs run on; the admission loop decides over a
snapshot while cancels and settles change the records; a task stopped by the
usage limit is run again by itself, and only that one may be; the fence's
requests may be carried out late, twice by different parties, or never; the VM
may run on after its job is gone; pushes share refs and die between two git
commands; a follower reads a log and a record that change apart; commands that
replace the daemon or its files overlap and are killed. `PROJECT.json` lists every such hazard at its
line with the properties that cover it.

## The modules

### Sched

The daemon. Each goroutine is a program counter: the admission loop (`tick`), one
worker per attempt (`worker`), the callers of Cancel between their two steps
(`cancelling`), the start-up (`daemon`, `recover`). The jobs (`job`) and the disk
(`store`, `result`) survive `Crash`; everything else is lost with it. The steps
are the points where the code gives up its lock, touches the disk or starts
something:

- `TickStart` takes the List; then, task by task, one of `TickFull`, `TickGated`,
  `TickNoMemory`, `TickNoCPU`, or a launch in two halves, `LaunchRegister` (the
  running map) and `LaunchUpdate` or `LaunchAbandoned` (the record and the
  goroutine). The snapshot's `BlockedOn` is kept (`tick.seen`), because the code
  compares with it; the sums over cores and memory are kept as the sets of tasks
  that were counted.
- A worker goes launched, cleared, started, awaiting, settling, waking, finishing;
  `parked` is the wait for the poll timer, `teardown` the time between SIGTERM and
  the last look at the result. `Timeout` and a cancel both end its context (`over`).
- `RecoverLook`, `Readopt` and `RecoverLost` are Adoptable's two looks and what
  follows; the tasks are taken oldest first.
- `JobReports` and `JobDies` are the two ways a job ends. What it reports is any of
  "ok", "fail", "limit" (exit 75) and "err".

The index in memory and `task.json` are one variable: both change under one lock,
and a write that fails (`FaultyDisk`) changes neither. The socket, the text of the
logs, time stamps, labels and environment are left out. Whether the gate is open,
how much memory a probe finds and when timers fire are choices; a probe that fails is
one that finds 0 (`FitsCPU`, `FitsMemory`). A process group id
is the number of the attempt whose job has it: `jobproc.Alive` checks the
command line, so a reused number does not pass for the job.

The end of the module maps all this to `TaskLife` (`KeepsToLife`).

`MCSched` gives the resource functions for TLC. The proofs are in `SchedProofs`, those of
the other modules likewise in `FenceProofs`, `ImagesProofs` and so on.

### TaskLife

The abstract life of a task, as whoever submits it may rely on it: a phase (waiting,
running, how it ended, gone), the attempts begun, the job of each attempt, and the last
word of a job. A task is begun only while none of its jobs is alive, the first time or
after a job that said "limit"; an attempt has one job; only the last job's "ok" makes a
task succeed; a task has not failed while a job of it is alive. Two of its actions are
concessions the code needs: `Begin` and `PutBack` also take a cancelled task, because the
tick decides from its List and a worker settles the end of usage without a look at the
record; and `Lose` asks nothing of the job. There is no daemon in it, no crash and no
goroutine: `Sched` implements it through all of them, with queued and blocked records as
one phase, `begun <- attempts` and `word <- result`.

### Fence

One effect's fence ref and the runs that contend for it. A commit is the run that
made it and its number, 0 being the host's claim. Every write is a request on
`wire` that carries its lease; `Serve` is the git server, `GiveUp` an error that is
no rejection, after which the request may still be carried out. Reads are answered
at once or fail. The host's job is `host`: claiming, working, ending (the VM),
settling and adopting (the two reads of Adopt), releasing; then how it ended. The
script in the VM is `vm`, and kranq_push is `PushRead` (ls-remote), `PushFetch` or
`PushFetchFails`, and the push. `Interrupt` returns the shell while the script runs
on, `EndVM` removes or keeps the VM, `Collect` removes one nobody looks after,
`BreakShow` and `BreakPush` are `kranq fence break` before and after the operator
reads. A task resumed after the usage limit is two runs of one task (`Task`).

`Tolerant` says whether kranq_push runs where a failing command does not end the
script: inside `continue_on` steps, which `BuildScript` wraps in `if ! ( ... )`, and
in conditions. There the failure of one command leaves the next with a stale or
an empty value, and the model follows it.

`sent` counts the calls that reached the push; commits that differ only in their
second are not told apart from their numbers. The git protocol's two checks of the
lease, at the client against the advertised refs and at the server, are one.

### AtMostOnce

The abstract promise of the fence in terms of an owner, numbered effects, runs
that finished well, runs that are over, and what a person was shown. `Fence`
implements it under `owner <- ref.run, effects <- landed, ...` (`Implements`).

### Images

Models `image/manager.go`, `image/meta.go`, `image/lock.go` and the two commands of
`cli/image.go` that change images. The processes are jobs that call `Ensure`
(`Begin` ... `CloneForRun`), bare `kranq image build`s (`BeginBare`, then the steps
of `BuildBase` without lock and record) and one `kranq image prune`. A process is
replaced by a new one when it has ended, any number of times; `Crash` and
`PruneCrash` kill one between any two steps.

| State | In the code |
| --- | --- |
| `image`, `up` | limactl's instances: absent, half built, whole, or whole on a parent that was not ("poor"); and which run |
| `record`, `part` | the record of each image in `$KRANQ_HOME/layers`, and the `<name>.json.tmp` it is written to first: absent, empty, torn or whole; `meta` are those that can be read |
| `open[j]` | how far a process is with a record: the temporary file open, that file under the record's name by now, or under none, or written |
| `shared` | the images whose temporary file two processes have had in use at once |
| `lock` | the flock of each image; the kernel lets it go with the process |
| `job[j]` | the process: where it is in `Ensure`, at which image of its chain, what its parent was when it was cloned, what follows a `Destroy` |
| `prune` | what `Prune` listed, and what it has still to destroy or forget |
| `unlocked` | how many prunes and bare builds there were: those take no lock |

`Destroy` is two steps, instance and record, with a crash or a failure between; its
error is dropped where the code drops it, so that a record can outlive its instance.
A limactl command may fail, a creation half-way. The two looks of `once` and the prune's
list, choice and deletions are steps of their own. A record is saved by `OpenRecord`
(made or truncated), `WriteRecord` and the rename, in `Save` under the lock and in
`TouchSave` with none; each of the three may fail or be the last thing a process does
(`InstallFails`, `Crash`). Two savers of one record share the temporary file, as in the
code: the second truncates what the first has written, the rename of one leaves the other
writing to the record itself, and a write over something longer can leave a mixture
(`torn`). `Guarded` is the condition under which the properties hold: no prune, no bare build,
and no two savers of one record at once. The last is not something the code sees to; what
happens without it is in the table of differences below. Not
modelled: projects whose base has a disk of its own, bases of earlier fortnights and
legacy images in `Prune` (with one base, `Keep >= 1` always keeps it), the names as
hashes, times of use (the choice of the kept heads is free within their order),
limactl children that outlive their kranq, and the running of prune twice at once.

### Pushes

A push from the moment git has its objects until the client has its verdict
(`cli/githook.go`, `gitsrv/retain.go`, `run/result.go`), with the task it submits. Every
hook is a process (`hook[p].pc`) and every git command a step of it:

| Step | In the code |
| --- | --- |
| `Send`, `Receive`, `HookValidate` | git's advertisement and its compare-and-swap of the pushed ref; the pre-receive hook's refusals, none of which is about the name of the ref: `Open` is any set of refs, markers and results of others included |
| `Submit`, `Refused` | `client.Submit`, and the marker a refused run is owed |
| `ReleaseRetain`, `ReleaseName`, `ReleaseClear` | the three update-refs of `release` |
| `Sweep` | `sweep`, over `Expired` |
| `GetFinal`, `GetFails` | the end of the log stream, early or not, and the record that is read after it |
| `PublishResult`, `PublishOK` | `publish` |
| `Leave`, `LeaveUncleared` | the verdict line and the deferred `clearAnon`, whose error nobody sees |
| `GitFails`, `Die` | a git command that fails and is only mentioned; a hook that goes with its connection |
| `List`, `HoldBack`, `StartAttempt` | a tick takes its list, and blocks or launches from it whatever the record says by then; the job stages what was pushed (`Stage`) |
| `EndAttempt`, `LoseAttempt`, `Cancel` | what job, scheduler and `kranq cancel` do to the record, and `CommitResult` to the refs. An attempt that ran out of claude usage puts its task back, over a cancel too |

`refs` is the repository, by namespace and name. A push and the task it submits share
an identity, a minted run name is the push that minted it, and a date is only older or
newer than the cutoff (`aged`, `Low`: chosen names such as `0042` that sort before every
date and so are swept by their own push, `retain.go:82-97`). `Alone` and `Fresh` are the
two things `Delivered` asks of a run's name and result. `refs/heads/kranq/<id>` is never
dropped by the code, nor here. A push to a ref named after a task's id (`OfTasks`) needs a task
that was submitted before.

### Follow

One task and the commands that follow it: `kranq run`, with or without `--detach`,
`logs`, `logs -f`, `fetch`, `cancel` (`client[c]`), the goroutines of the daemon that
serve them (`copy`, `look`, `last` are the loop of `ipc/server.go:123-152`), the job that
writes log, artifacts and result, the goroutine that settles it, retention, and a
daemon that stops and comes back, with which every open stream ends. A log is its
length; `atEnd` is its length when the record became final. The artifacts are none, a
part, or whole; `artifacts` are asked for in every run. An answer with artifacts is a
walk over the directory, file by file (`FetchArtifacts`, `Walk`), while the job may be copying,
retention may remove the directory and the daemon may stop. Whatever the walk cannot read
ends it, and what has been sent is closed as if it were all; `kranq run` and `kranq fetch`
(to its output or, kind "unpack", to a directory) drop or only mention an error of unpacking. A
command has then what the archive had so far ("cut"), or part of what the job had so far
("partial"). Not modelled: an error while the
log file is read (`ipc/server.go:129`), and the retries of a client, of which there are
none: an answer to a submission that is lost leaves a queued task and a client that
exits 69.

### Daemons

Daemon processes over one lock file and one socket, and the commands that start, stop
and replace them. An inode of the lock file is the daemon that created it: `path` is
what its name leads to, `daemon[d].fd` what a process has open, `pid[i]` what it holds.
The steps of a daemon are those of `Lock`, `Listen`, `Serve` and their undoing, in order:
`OpenLock`, `Flock`, `WritePID`, `Dial`, `RemoveStale`, `Listen`; `Close`,
`RemoveSocket`, `Unlock`, `Unlink`. `Spawn`, `Interrupt` and `Crash` are launchd, a person or a
command that found no daemon. One command (`cmd`) is under way at a time; its steps are
those of `daemonStart`, `daemonStop`, `runUpgrade` and `Install` or `Rollback`, and `Abort`
kills it at any of them. A file is a version, absent, or torn while it is copied. `Rollback`
holds the target in `.rolled` if it runs and goes on without a copy if it does not; after
the rename, `KeepRolled` makes that copy the next `.prev`, or fails (`Fail` at "swapped") and the
copy is removed. `cmd.lost` says that the binary rolled away is nowhere. Not
modelled: two upgrades at once (they share `.new`).

### Registries

`peer/registry.go`, `token/token.go` and `authkeys/authkeys.go` change a file in the same
way: load, change in memory, write to one temporary path, rename. `kind` says which list
it is, `After` what each command makes of it, and `Load`, `OpenTmp`, `WriteTmp` and `Rename` are
the steps, by any number of processes, with `Stop` for a kill at any of them. A process
that still has the temporary file open when another renames it writes on into the list
(`fd`). Names are numbers because peers are sorted by name.

### Endpoint

One repository and the requests for it (`gitsrv/repo.go`, `http.go`, `ssh.go`,
`cli/gitreceive.go`, `cli/repo.go`): over http, over ssh, `repo create` and `repo rm`. The
steps of `Ensure` are the files it and git make: the directory, `HEAD`, the config under
its `config.lock`, the objects, each hook truncated and then written. `RemovePart` is
`os.RemoveAll` in the order in which the directory is read. `Killed` is a client that
hangs up (its context kills the git command that is running) or a process that dies.
`Settings` stands for the five of `repoConfig`. Only ssh asks `KRANQ_AUTO_CREATE_REPOS`;
`http.go:72` creates without asking, which is not what `docs/advanced/push.md:141-145` says.
The order of what `git init` makes is that of git 2.39. A plain push to a path, which
never refreshes the hooks, is left out.

## The runs

| Run | Instance | Shows |
| --- | --- | --- |
| `sched_core` | 2 tasks on one slot, one on the machine's usage and one with its own token; 2 attempts; 1 crash | `Inv`, `AtMostOneJob`, `RunningIsSupervised`, `RunningWithinSlots`, `NoRerun`, `FinalOutcome`, `KeepsToLife` |
| `sched_disk` | 1 task, 3 attempts, 2 crashes, every record write may fail | `SucceededByItsJob`, `KeepsToLife` |
| `sched_resources` | 2 tasks that ask for 1 and 2 units of cores and memory, 2 slots, 2 cores, probes of 2 and 3; 1 crash; `FairSpec` | `RunningWithinCPUs`, `Cancellable`, `NoOvertaking`, `EventuallySettled` |
| `sched_live` | 2 tasks on one slot, one using claude, 2 attempts, so that the gate is closed before the second; 1 crash; `FairSpec` | `EventuallySettled` |
| `fence_core` | 2 runs of different tasks, 1 push each, strict scripts | `Implements`, `ReleasedIsOver`, `HeldForAReason` |
| `images_core` | a base, a layer on it and a layer on that; one process wants the last, the other the one before, each replaced when it has ended; at most one stale record at first; one head kept; one prune or bare build | `BuiltOnce`, `FinishedStays`, `WholeUnderLocks`, `ClonesAreWhole`, `AncestryIsKept` |
| `push_core` | 2 pushes of 2 commits to the anonymous ref, the names `web` and `0042`, a branch that ends in `web`, the marker `ok/web`, or the other's result; 1 trouble | `OkIsEarned`, `AnonIsCleared`, `Delivered`, `VerdictIsTrue` |
| `push_zero` | 1 push | the statement of the docs in the next section, and its counterexample |
| `follow_core` | 2 commands, any of `run`, `run --detach`, `logs`, `logs -f`, `fetch` to output or unpacked, `cancel`; scripts that exit 0, 1, 64 or 75, a log of up to 4 units, 2 troubles | `ExitIsVerdict`, `ArtifactsAreWhole`, `StreamHasAll`, `FollowersEnd` |
| `daemon_core` | 2 daemons at a time, each replaced when it has gone, 2 versions; commands one after the other without end | `ServingIsReachable`, `StoppedLetGo`, `TargetIsWhole`, `WayBack`, `UpgradedIsServed` |
| `registry_core` | 2 processes, 3 names and 1 foreign line, any number of commands, each list | `TypeOK`, `OneDefault`, `AllOrNothing` |
| `endpoint_core` | 2 requests at a time, each replaced when it has ended, 2 settings, 2 kills | `ServedIsReady`, `FailsForCause` |

Two tasks are enough for one to hold what the other wants and to be older or
younger; two attempts for one to be left over while the next begins, three for one
to be neither first nor last; one crash for an attempt to be watched by a daemon
that did not start it, two for a recovery to be interrupted itself. Two
contending runs are the two sides of every race at the ref: a third meets a
ref that is absent, its own or somebody else's, as the second does. One push of
each separates "moved" from "not moved", which is all that settling looks at.
`MaxAttempts`, `MaxCrashes`, `MaxPushes` bound these modules; a task out of attempts
is left out of the snapshot, and `EventuallySettled` lets it go. `sched_live` has two
attempts because the gate closes on the first: with one, nothing would be left that it
holds back. `sched_resources` asks the same of a task that waits for memory or cores.

A chain of three images is the smallest where one process builds on what another has
built and runs in, where touches of a layer meet (both processes touch the middle one), and
where a prune with one head to keep has an ancestor to keep that is not the base.
`MaxUnlocked` bounds the prunes and bare builds only; the other
properties of `Images` hold with any number of processes one after the other. The `VIEW` of
`images_core` forgets what is in a temporary file nobody has open, which is truncated before it is
used again, and why a record nobody has open cannot be read: no action and no property
depends on either.

In the other modules the actors come two at a time, because what goes wrong there goes
wrong between two: two hooks at one ref, a follower and the job, a daemon that leaves
and one that comes, two writers of one temporary file, a request and a removal. In
`Daemons`, `Registries` and `Endpoint` an actor that has ended is replaced by a new one, so
that sequences of any length are covered. `MaxTrouble` counts what goes wrong by itself
(a failing git command, a death, a cancel, a cut stream, a kill), and `MaxLog` the units of a
log: a line for a restart, one for a warning and two of the script's own. In `Pushes`
two pushes have one trouble between them; one push alone passes with three.

Every module has its type invariant. That of `Sched` is a conjunct of `Inv`; `Registries`
checks its own in the run above; those of `Fence`, `Images`, `Pushes`, `Follow`, `Daemons` and `Endpoint` hold in the same
instances (add `INVARIANT TypeOK` to the .cfg). All eight are proved (`TypeCorrect`).

Deadlock is checked wherever the system goes on for ever: in the scheduler's runs,
`images_core`, `daemon_core`, `registry_core` and `endpoint_core`. In `fence_core`, `push_core`, `push_zero`
and `follow_core` it is not: there every run, push or command comes to an end, and nothing is left to do.

### What the code does against its own words

`push_zero` checks a sentence of the docs and ends in a counterexample: a task is
cancelled, which leaves its exit code 0, the hook prints `status=cancelled exit=0`, and
`kranq push` exits 0, "the task's own code". The same goes for `lost`, and for a stream cut by
a restart, after which the hook prints `status=running exit=0`. `kranq run` maps these by
status, to 125 and 70 (`ExitIsVerdict`).

The models contain, and their properties step around, further places where code and
words differ. None is an accident of the models; each was found as a counterexample to
the plain statement:

| Where | Statement | What happens |
| --- | --- | --- |
| `sched/sched.go:233`, `:331` | cancelled is final; a cancelled task is not admitted | the tick takes its List, the task is cancelled, the tick launches or blocks it from the List; or the job of a cancelled task reports the end of usage, and the task waits again. A client that was told "cancelled" may later find that the task succeeded (`VerdictIsTrue` leaves this one word out) |
| `daemon/supervise.go:69` | a task is lost only if its job did not survive | the job reports and exits between Adoptable's two looks, or the daemon dies before the pid is recorded |
| `sched/sched.go:251` | a running task can be cancelled | the finish of an attempt that ran out of usage removes the entry of the next attempt, which its own Wake let in |
| `sched/sched.go:251` | "how many job VMs may run at once" (`cli/config.go:18`, `docs/commands.md:211`) | with two slots or more, the same finish gives back a slot that the next attempt is using: three tasks run in two slots (three tasks of which one uses claude, two attempts). And as `cpusInUse` reads the same map, the next tick promises the cores of that attempt once more (two slots, two cores, a task with one core that is run again and one with two: three cores of two). `RunningWithinSlots` and `RunningWithinCPUs` hold with one slot, and where no task is run again |
| `task/fence.go:39` | a push lands only if the fence is still ours | under `continue_on` the fence is broken and another run claims it; the fetch of the tolerated kranq_push fails, the record fetched earlier passes the check, and the empty refspec source deletes the other run's fence with the push |
| `run/fence.go:64` | a task resumes when usage returns | the run pushed and exited 75: its fence is held, and the resumed run is refused by it |
| `cli/image.go:119` | what is recorded is finished | a bare base build deletes the base a job is about to record and makes it anew. Without bare builds the same comes of a touch that writes back a record a prune has just removed (`image/meta.go:94`) |
| `image/meta.go:70-102` | a finished image is recorded and stays so; who needs it finds it (`cli/image.go:119`) | touches take no lock and share `<name>.json.tmp`: while one has just truncated it the other renames it, and a finished image has an empty record. The next job takes the image for unfinished and builds it again, while others build on it or clone it; and where it is being built again, a touch that is late may put a whole record beside a half-built image |
| `daemon/lock.go:33-36` | one daemon at a time | the lock is let go before its file is removed: a daemon that had the file open locks an inode no name leads to, the next one locks a new file, and `daemon stop` finds no pid |
| `cli/githook.go:365` | `ok/<run>` exists only if the task succeeded (`README.md:95`, `docs/pipelines.md:121`) | a failing run leaves the marker of an earlier one with its name |
| `cli/githook.go:128-168` | the same | the hooks look at no ref name: a push to `refs/heads/ok/<run>` makes the marker before any task has run, and a submission that is refused leaves it |
| `cli/githook.go:341` | the anonymous ref is cleared on every way out (`cli/githook.go:204-207`) | the error of `update-ref -d` is dropped: the ref keeps the commit, and the next push of it is answered "Everything up-to-date" |
| `ipc/server.go:181-208`, `cli/tasks.go:194-198` | the artifacts of a task | the error of the walk is dropped and the archive closed as if it were complete; an error of unpacking is only mentioned. A success may come with some of its files and exit code 0 |
| `upgrade/upgrade.go:120`, `:137-139` | rolling back twice returns to where you were (`upgrade/upgrade.go:106`) | a target that does not run is not held, and where the last rename fails the held copy is removed and the command has failed, with the target replaced all the same |
| `ipc/server.go:136` | `-f` follows until the task finishes | a record pruned under a follower is never final, and the follower polls for ever; a cancelled task that reports the end of usage is queued again |
| `cli/upgrade.go:135` | the daemon was restarted (`docs/commands.md:394-399`) | whoever answers first is taken for it |
| `sched/sched.go:85` | a restart marks running tasks lost (`docs/advanced/operations.md:40`) | it adopts them if their jobs live |

## Fairness

`FairSpec` asks for what the Go runtime and the timers give. Goroutines that can go on do:
weak fairness of the tick's steps and of the workers' steps, each taken together, so that
*some* task's step is taken (`\E t`, `\E t, a`), and likewise of `Timeout` (each attempt has a
deadline). Strong fairness of a tick by the timer with the most memory: the ticker
goes on for ever, and the model lets a launch and a wake-up take its turn in
between, so it is enabled again and again rather than continuously. Strong
fairness of `TeardownStart`: in a select with a ready poll timer and an ended
context Go picks either, so a worker that is parked again and again
sees its context in the end. Weak fairness of `GateReopens` (the gate has a reset time or
an interval) and of `Recover` (launchd restarts the daemon). Jobs, callers, the disk and crashes are
not fair: a job may hang for ever, and a cancel may stop between its two steps.
`EventuallySettled` is `<>[]`: from some state on every task that was submitted is over
(or pruned, or out of the attempts of the model) and stays so.

`Follow` asks for weak fairness of each command's own steps, `WF_vars(Command(c))`: the polls
of a client and of the goroutine that serves it go on. Nothing is asked of the job, of
the daemon, which may stay away, or of retention; so `FollowersEnd` speaks of a task that
is over, and every way out of the loop is the code's. The other properties are all safety.

## The proofs

Each of the eight modules has a proof module (`SchedProofs`, `FenceProofs`, ...) with one
inductive invariant, found by strengthening what the runs check and checked by TLC on the
run's own instance before it was proved. The theorems hold for every value of the
constants that the `ASSUME`s of the modules allow: any number of tasks, runs, images,
processes, pushes, commands or requests, and any bounds. Of the properties that the
passing runs check, all but the two of liveness are theorems.

Three hypotheses occur, each written in the theorem:

- `~Tolerant` (`FenceProofs` but for `TypeCorrect` and `FenceKeepsTask`): kranq_push runs
  where a failing command ends the script. With `continue_on` the promise does not hold, as the table above says.
- `~FaultyDisk` (`NeverOvertaken`, `SlotsSuffice`, `RunningCanBeCancelled`, `OwnCancelFound`,
  `CoresSuffice`, and within `RunningIsSupervised`): the writes of records succeed. The code
  has nothing short of a restart for one that does not. The other theorems of `SchedProofs`,
  `LifeIsKept` among them, hold with failing writes.
- `OneEntry` of every task (`SlotsSuffice`, `RunningCanBeCancelled`, `CoresSuffice`) or of the task in question
  (`OwnCancelFound`): there is one slot, or the task does not spend the machine's claude
  usage and so is not put back to be run again. Without it all four are false: see
  `sched/sched.go:251` in the table above.

### SchedProofs

`Invariance` (`Inv`), `TypeCorrect`, `OneJob` (`AtMostOneJob`), `NeverRerun` (`NoRerun`),
`FinalForever` (`FinalOutcome`), `SuccessIsEarned` (`SucceededByItsJob`),
`RunningIsLookedAfter` (`RunningIsSupervised`), `NeverOvertaken` (`NoOvertaking`),
`SlotsSuffice` (`RunningWithinSlots`), `RunningCanBeCancelled` (`Cancellable`), `OwnCancelFound`
(the same of one task, whatever the others do), `CoresSuffice` (`RunningWithinCPUs`),
`LifeIsKept` (`KeepsToLife`, the refinement of `TaskLife`).

`Inv` is inductive. What follows from it is not: that two jobs are never
alive together needs to know that a launch finds no live job, which needs that
whatever is pending is fresh (never tried, or its last attempt said "limit"),
which needs that a worker settles with what its own job said, which needs that
the result file was cleared before the job began and that no other job of
the task can write it; and the tick's snapshot must stay fresh although the
records change under it, because only the tick itself makes a pending task run
(`TodoIsFresh`). Recovery keeps it all because a task that is still to be recovered
has no worker (`RecoverIsRunning`, `WatchedIsLatest`). The proof has one lemma per
group of actions (store, cancel, tick, worker, job, life) and, under it, one step
per action; untouched tasks are dealt with once, by a frame lemma.

Beside it stand invariants for what `Inv` does not say. `OrderInv`: a tick that has
tasks left to look at has every task that was held back among them, and what it
remembers of a pending task's blocker is what the record says; so the oldest of them is
launched before any younger one. `Entry`: a task with `OneEntry` is in the running map under
the attempt that is at work, from its registration or re-adoption until its goroutine ends,
and a launch finds no goroutine of the task. With one slot this holds of a task that is run
again too: the next attempt is not admitted before the entry of the last one is gone.
`SlotInv`: whoever is in the running map or running by its record, together, are no more
than the slots; the sum of the two is needed because a launch registers a task before the
record says so, and a finish removes it after.

`CoresInv` is about what is promised: the cores of everybody who runs or is being launched
fit the machine, and during a tick all of them are among those the tick has counted. The cores are
summed with a fold over a set. What the proof needs of the sum (it grows with the set, and
by one task's cores with one task) is proved by induction over finite sets, written out as
a descent from a least counterexample, since the library's induction theorems cannot be
instantiated: `SumsTelescope`, `SumWith`, `SumGrows`.

The refinement needs one more invariant, `Worked`: what the goroutine of an attempt knows of
the job. There is none before it starts one, while it waits the job it watches is the only
one alive, and when it settles none is, although the watcher may have adopted a job by a
pid in a record that an earlier daemon wrote, or did not get written. With `Worked` and
`Inv` each action is mapped: `LaunchUpdate` to `Begin`, `ClearResult` to `Forget`, the three
settlings to `Succeed`, `Fail`, `Lose` or `PutBack`, a tick's blocking of a task just cancelled
to `PutBack`, `Prune` to `Drop`; crash, start, re-adoption and all of the bookkeeping to nothing.

### FenceProofs

`ReleaseIsFinal` (`ReleasedIsOver`), `HeldWithReason` (`HeldForAReason`), `KeepsThePromise`
(`Implements`, the refinement of `AtMostOnce`). The invariant is about the wire: each
request is a claim of a run that has done nothing yet, a release of the commit its host
saw first, or a push on top of a commit of the same run (`WireInv`); no two requests make
the same commit (`OneMaker`), and a commit that has been the ref is never made again
(`RefInv`, `SeenInv`), so that a late request either meets exactly the state it was made
for or fails its lease. Runs of one task do not overlap (`Exclusive`), which is what lets a
claim take over a fence of its own task. The refinement is proved step by step: `Serve` of
a push, a claim, a release or a break is a step of `AtMostOnce`, every other action a
stutter or a bookkeeping step.

The last section holds for any script. Where a failed command is tolerated a push may lease
a commit that it did not check, since the record it looks at may be one that an earlier
call fetched. What remains is that a push which makes a commit has seen
the commit it leases, and that the trailer of that one names its own task (`OnOwnTask`, with
the types in `Typed`); a push without that makes no commit and can only delete the
ref. `FenceKeepsTask` follows: no step puts a fence that stands under another task. That
is all: a tolerant push may still land on another run's fence and remove it.

### ImagesProofs

`NeverBuiltTwice` (`BuiltOnce`), `CompleteIsWhole` (`WholeUnderLocks`), `MadeFromWhole`
(`ClonesAreWhole`), `NeverRebuilt` (`FinishedStays`), `AncestryKept` (`AncestryIsKept`), for any
tree of images. Who builds an image holds its lock (`LockInv`); as long as it is `Guarded`
(everybody takes the locks, and no temporary file was in two hands at once), what a job has
passed on its chain stays complete, and what it
builds has no record until it is whole (`SoundJob`). For the records this needs that whoever
writes one is alone with its temporary file and finds there what it wrote, and that a touch
only ever writes back the record of an image that is complete (`SoundFiles`, `SoundJob`).
That the parent is still whole when
the child is cloned needs the first of these for every job at once: a job deletes only
under the lock and only what does not pass for complete.

### PushesProofs

`VerdictStands` (`VerdictIsTrue`), `PadIsCleared` (`AnonIsCleared`), `MarkerIsEarned`
(`OkIsEarned`), `ResultIsDelivered` (`Delivered`), for any number of pushes to any refs
(`Open`). A final record that a hook has read is the record for good unless it is a cancel:
a task with another verdict is neither listed nor at work (`RecordInv`); the result ref of a
success is that of the attempt that succeeded, unless it was swept or pushed to (`ResultInv`); where a
run's name is used by one push, the ref of that name holds at each step of the hook what
the steps before have put there (`NameInv`, and `DeliveryInv` if no git command failed and
the name has not aged); and a marker was pushed as such or is owed to a push of its name that
succeeded (`RunInv`). The properties say "alone" of the pushes there have been (`Alone`); the
invariant needs the same of the pushes whose hooks have begun (`Sole`).

### FollowProofs

`ExitTellsTheVerdict` (`ExitIsVerdict`), `ArtifactsCameWhole` (`ArtifactsAreWhole`),
`StreamShowsAll` (`StreamHasAll`). The heart is that succeeded, failed and lost stay
(`Lasting`): a task with such a verdict has no job left that would settle it (`TaskInv`), so
that what a command read is still so when it exits (`ClientInv`). A cancel does not last in
this sense, and is not in the set: the cancelled job may still report the end of usage.
`TaskInv` also says when the artifact directory cannot hold half a copy: while a task waits,
before its script ends, and from the end of the copy to the success; so what a command
has read of them after a success, walk included, is not half a copy (`ClientInv`).

### DaemonsProofs

`Reachable` (`ServingIsReachable`), `TargetStaysWhole` (`TargetIsWhole`), `StoppedHasLetGo`
(`StoppedLetGo`), `WayBackLeft` (`WayBack`), `ServesWhatIsInstalled` (`UpgradedIsServed`). Holders of
a lock have inodes of their own with their pid in them, and unless one was orphaned that is
the inode the path leads to (`LockInv`); the daemon that answered a command is on its way
out and is the one that is signalled (`StopInv`); the files have, at each step of an
installation, a rollback or the retry after a failed start, the version they should, with
what is left of it when the binary rolled away was lost (`FirstInv`, `RetryInv`); and while nobody else starts a daemon, the only one there is after the swap runs
the new binary (`AloneInv`).

### RegistriesProofs

`TypeCorrect` (`TypeOK`), `DefaultKept` (`OneDefault`), `ChangedAtOnce` (`AllOrNothing`). `PeersInv` says
that every whole list of peers, in a file or in the memory of a process, has one default
and each name once; its heart are the lemmas on what `Add` and `Remove` make of such a list,
where the peer that inherits the default is the one whose name sorts first.
`CleanInv` follows a process that is alone from load to rename.

### EndpointProofs

`TypeCorrect` (`TypeOK`), `ReadyWhenServed` (`ServedIsReady`), `NoFailureAlone` (`FailsForCause`). `ReadyInv` says
how much of the repository is there when a request that nobody disturbed is at each step
of `Ensure`, where the hooks may be in the hands of another request that rewrites them
(`Hooked`); `AloneInv` and `LeftInv` say who is alone and what a removal that is alone has seen.

### Only model-checked

`EventuallySettled` and `FollowersEnd`: liveness under fairness, and ENABLED.

## Plan

1. Done: the eight modules, `AtMostOnce` and `TaskLife`; a proof of every safety property of
   the runs, and of both refinements.
2. Left: an abstract specification of the images, as `TaskLife` is one of the tasks.

## Not modelled, and why

Parsing (project file, spec, push options), rendering, flag handling, printing, set-up,
doctor, the download of limactl and the first installation are sequential and
pure or plain I/O: what they compute depends on their input alone, and the tests beside
them cover it. The VM driver, limactl and the operating system are there only
as the choices the code must live with. Memory that a VM will use but does not use
yet is not kept: the probe may report anything, so no property of memory across
ticks is claimed. The reported exit code -1 of a run whose cancel arrives as its
script exits 0 (`daemon/runner.go:99`) is not told apart from the 0 `settleFence`
works with.
