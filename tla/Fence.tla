-------------------------------- MODULE Fence --------------------------------
(***************************************************************************)
(* The fence of one effect (internal/fence, internal/run/fence.go and the  *)
(* kranq_push of internal/task/fence.go): a ref at the git server that a   *)
(* run's job claims on the host, advances from inside the VM in the same   *)
(* push that lands the effect, and settles when the run is over.           *)
(*                                                                         *)
(* Every write is a compare-and-swap on the object the ref points at.  The *)
(* request travels: it is carried out later, perhaps after its sender gave *)
(* up or died, and perhaps never.  Reads are answered at once or not at    *)
(* all, and the ref may move between any two of them.                      *)
(*                                                                         *)
(* A run is one execution of a task by a job; a task that was interrupted  *)
(* by a usage limit has several, one after the other.  Abstracted: commit  *)
(* objects to their run and number, the branches pushed to the number of   *)
(* the push that landed them, the record to the task of its run, an exit   *)
(* code to "ok" (0), "limit" (75) or "fail".                               *)
(***************************************************************************)
EXTENDS Integers, FiniteSets

CONSTANTS
    Runs,        \* the runs that contend for the effect
    Task,        \* the task of each run
    MaxPushes,   \* bound: how often a run calls kranq_push
    Tolerant     \* kranq_push is called where a failing command does not stop the script

ASSUME RunsAssumption == Runs \subseteq Nat \ {0}

ASSUME BoundsAssumption == MaxPushes \in Nat /\ Tolerant \in BOOLEAN

ASSUME TaskAssumption == Task \in [Runs -> Runs]

VARIABLES
    ref,      \* the commit the fence ref points at
    landed,   \* the number of each run's last push that landed
    wire,     \* the compare-and-swap requests that may still be carried out
    shown,    \* the commit `fence break` has just shown to the operator
    host,     \* where the job of each run is
    exit,     \* the exit code the job works with (res.ExitCode)
    seen,     \* the commit the job read when it began to settle
    vm,       \* where the script of each run is, inside the VM
    code,     \* the code the script exited with
    at,       \* the commit kranq_push read
    copy,     \* the commit refs/kranq/held of the VM's clone points at
    sent,     \* how many commits kranq_push has made
    unsure    \* the runs one of whose requests to the server went unanswered

server == <<ref, landed, wire>>
job == <<host, exit, seen>>
script == <<vm, code, at, copy, sent>>

vars == <<server, shown, job, script, unsure>>

Commits == [run : Runs, n : 0..MaxPushes]

\* No commit: the ref does not exist.
None == [run |-> 0, n |-> 0]

Commit(r, n) == [run |-> r, n |-> n]

\* The commit a host claims the fence with.
ClaimOf(r) == Commit(r, 0)

NewTask(r, c) == c = None \/ Task[c.run] # Task[r]

Requests == [from : {"host", "vm"}, run : Runs, lease : Commits \cup {None},
             to : Commits \cup {None}, push : 0..MaxPushes]

\* The job has a fence to look after.
Holding == {"working", "ending", "settling", "adopting", "releasing"}

\* The job is over: how it left the fence, or why it never had one.
Over == {"released", "held", "refused", "failed", "killed"}

\* The script is running.
Inside == {"ready", "checking", "pushing"}

TypeOK ==
    /\ ref \in Commits \cup {None}
    /\ landed \in [Runs -> 0..MaxPushes]
    /\ wire \subseteq Requests
    /\ shown \in Commits \cup {None}
    /\ host \in [Runs -> {"idle", "claiming"} \cup Holding \cup Over]
    /\ exit \in [Runs -> {"ok", "limit", "fail"}]
    /\ seen \in [Runs -> Commits \cup {None}]
    /\ vm \in [Runs -> {"off", "exited", "gone"} \cup Inside]
    /\ code \in [Runs -> {"none", "ok", "limit", "fail"}]
    /\ at \in [Runs -> Commits \cup {None}]
    /\ copy \in [Runs -> Commits \cup {None}]
    /\ sent \in [Runs -> 0..MaxPushes]
    /\ unsure \subseteq Runs
    /\ \A r \in Runs :
         /\ host[r] \in {"adopting", "releasing"} => seen[r] # None
         /\ vm[r] \in {"checking", "pushing"} => at[r] # None

Init ==
    /\ ref = None /\ landed = [r \in Runs |-> 0] /\ wire = {}
    /\ shown = None
    /\ host = [r \in Runs |-> "idle"] /\ exit = [r \in Runs |-> "ok"]
    /\ seen = [r \in Runs |-> None]
    /\ vm = [r \in Runs |-> "off"] /\ code = [r \in Runs |-> "none"]
    /\ at = [r \in Runs |-> None] /\ copy = [r \in Runs |-> None]
    /\ sent = [r \in Runs |-> 0]
    /\ unsure = {}

-----------------------------------------------------------------------------
(* The job on the host.                                                    *)

Enter(r, pc) == host' = [host EXCEPT ![r] = pc]

Send(from, r, lease, to, push) ==
    wire' = wire \cup {[from |-> from, run |-> r, lease |-> lease, to |-> to, push |-> push]}

\* A run begins when no other run of its task is under way: the scheduler has
\* one job of a task at a time, and starts another only after a usage limit.
MayStart(r) ==
    \A q \in Runs \ {r} : Task[q] = Task[r] =>
        \/ host[q] = "idle"
        \/ host[q] \in {"released", "held"} /\ exit[q] = "limit"

\* The lease is empty: the ref must not exist.
Claim(r) ==
    /\ host[r] = "idle" /\ MayStart(r)
    /\ Enter(r, "claiming")
    /\ Send("host", r, None, ClaimOf(r), 0)
    /\ UNCHANGED <<ref, landed, shown, exit, seen, script, unsure>>

\* The image, the clone or the upload fails; the result's exit code is still 0.
SetUpFails(r) ==
    /\ host[r] = "working" /\ vm[r] = "off"
    /\ Enter(r, "ending")
    /\ UNCHANGED <<server, shown, exit, seen, script, unsure>>

ShellReturns(r) ==
    /\ host[r] = "working" /\ vm[r] = "exited"
    /\ Enter(r, "ending")
    /\ exit' = [exit EXCEPT ![r] = code[r]]
    /\ UNCHANGED <<server, shown, seen, script, unsure>>

\* The job is told to stop: the shell is signalled and its exit status is not
\* 0, while the script may run on inside the VM.
Interrupt(r) ==
    /\ host[r] = "working" /\ vm[r] # "off"
    /\ Enter(r, "ending")
    /\ exit' = [exit EXCEPT ![r] = "fail"]
    /\ UNCHANGED <<server, shown, seen, script, unsure>>

\* The VM is kept, by policy or because it could not be destroyed, or destroyed.
EndVM(r) ==
    /\ host[r] = "ending"
    /\ Enter(r, "settling")
    /\ vm' \in {vm, [vm EXCEPT ![r] = "gone"]}
    /\ UNCHANGED <<server, shown, exit, seen, code, at, copy, sent, unsure>>

\* Adopt, first call: which object the ref points at.
SettleRead(r) ==
    /\ host[r] = "settling"
    /\ IF ref = None
       THEN Enter(r, "held") /\ UNCHANGED seen
       ELSE Enter(r, "adopting") /\ seen' = [seen EXCEPT ![r] = ref]
    /\ UNCHANGED <<server, shown, exit, script, unsure>>

\* Mutant: a failed run holds the fence whether or not it pushed.
HoldsOnFailure(r) == exit[r] # "ok"

\* Mutant: a failed run holds the fence if it did not push.
HoldsUnmoved(r) == seen[r] = ClaimOf(r) /\ exit[r] # "ok"

\* Something landed and the run then failed.
Holds(r) == seen[r] # ClaimOf(r) /\ exit[r] # "ok"

\* Adopt, second call: the record is fetched by the name of the ref, so it is
\* that of the commit the ref points at now.  Then the verdict, and the release
\* of the object that was read first.
SettleAdopt(r) ==
    /\ host[r] = "adopting"
    /\ IF NewTask(r, ref) \/ Holds(r)
       THEN Enter(r, "held") /\ UNCHANGED wire
       ELSE Enter(r, "releasing") /\ Send("host", r, seen[r], None, 0)
    /\ UNCHANGED <<ref, landed, shown, exit, seen, script, unsure>>

\* A read is not answered: the fence is taken to be held.
SettleFails(r) ==
    /\ host[r] \in {"settling", "adopting"}
    /\ Enter(r, "held")
    /\ unsure' = unsure \cup {r}
    /\ UNCHANGED <<server, shown, exit, seen, script>>

\* The job dies before it has settled; its requests may still arrive.
JobKilled(r) ==
    /\ host[r] \in {"claiming"} \cup Holding
    /\ Enter(r, "killed")
    /\ unsure' = unsure \cup {r}
    /\ UNCHANGED <<server, shown, exit, seen, script>>

-----------------------------------------------------------------------------
(* The script inside the VM, and kranq_push.                               *)

Boot(r) ==
    /\ host[r] = "working" /\ vm[r] = "off"
    /\ vm' = [vm EXCEPT ![r] = "ready"]
    /\ UNCHANGED <<server, shown, job, code, at, copy, sent, unsure>>

\* A VM nobody looks after any more is removed, or goes down with the machine.
Collect(r) ==
    /\ host[r] \in Over /\ vm[r] \in Inside \cup {"exited"}
    /\ vm' = [vm EXCEPT ![r] = "gone"]
    /\ UNCHANGED <<server, shown, job, code, at, copy, sent, unsure>>

ScriptExits(r, c) ==
    /\ vm[r] = "ready"
    /\ vm' = [vm EXCEPT ![r] = "exited"]
    /\ code' = [code EXCEPT ![r] = c]
    /\ UNCHANGED <<server, shown, job, at, copy, sent, unsure>>

\* kranq_push fails: the script stops (set -e), unless the call tolerates it.
PushFailed(r) ==
    IF Tolerant
    THEN vm' = [vm EXCEPT ![r] = "ready"] /\ UNCHANGED code
    ELSE vm' = [vm EXCEPT ![r] = "exited"] /\ code' = [code EXCEPT ![r] = "fail"]

\* ls-remote names the object; without an answer, or a ref, kranq_push refuses.
PushRead(r) ==
    /\ vm[r] = "ready" /\ sent[r] < MaxPushes
    /\ \/ PushFailed(r) /\ UNCHANGED at
       \/ /\ ref # None
          /\ vm' = [vm EXCEPT ![r] = "checking"]
          /\ at' = [at EXCEPT ![r] = ref]
          /\ UNCHANGED code
    /\ UNCHANGED <<server, shown, job, copy, sent, unsure>>

\* The object is in the VM's clone: fetched, an ancestor of what was fetched,
\* or made there.
HasObject(r, c, fetched) ==
    \/ c.run = fetched.run /\ c.n <= fetched.n
    \/ c.run = r /\ c.n \in 1..sent[r]

\* With the record at hand: refused if it names another task; else a commit on
\* top of the object is made and pushed together with the effect.  Where failing
\* commands are tolerated, a commit that could not be made leaves its name empty
\* and the refspec deletes the ref.
PushWith(r, fetched) ==
    IF NewTask(r, fetched) \/ (~HasObject(r, at[r], fetched) /\ ~Tolerant)
    THEN PushFailed(r) /\ UNCHANGED <<sent, wire>>
    ELSE /\ sent' = [sent EXCEPT ![r] = @ + 1]
         /\ vm' = [vm EXCEPT ![r] = "pushing"]
         /\ Send("vm", r, at[r],
                 IF HasObject(r, at[r], fetched) THEN Commit(r, sent[r] + 1) ELSE None,
                 sent[r] + 1)
         /\ UNCHANGED code

\* The record is fetched by the name of the ref.
PushFetch(r) ==
    /\ vm[r] = "checking" /\ ref # None
    /\ copy' = [copy EXCEPT ![r] = ref]
    /\ PushWith(r, ref)
    /\ UNCHANGED <<ref, landed, shown, job, at, unsure>>

\* The fetch fails, for want of an answer or of the ref.  Where that does not
\* stop the script, the record fetched by an earlier call is taken for it.
PushFetchFails(r) ==
    /\ vm[r] = "checking"
    /\ IF Tolerant
       THEN PushWith(r, copy[r])
       ELSE PushFailed(r) /\ UNCHANGED <<sent, wire>>
    /\ UNCHANGED <<ref, landed, shown, job, at, copy, unsure>>

-----------------------------------------------------------------------------
(* The git server, and the network between.                                *)

\* The sender still waits for the answer to this request.
Awaits(m) ==
    IF m.from = "vm"
    THEN vm[m.run] = "pushing" /\ m.push = sent[m.run]
    ELSE host[m.run] = IF m.to = None THEN "releasing" ELSE "claiming"

\* Mutant: a rejected release is taken for a release.
ToHostEitherWay(m, accepted) ==
    Enter(m.run, IF m.to = None THEN "released"
                 ELSE IF accepted THEN "working" ELSE "refused")

\* What the answer makes of the host's claim or release.
ToHost(m, accepted) ==
    Enter(m.run, IF m.to = None THEN (IF accepted THEN "released" ELSE "held")
                 ELSE IF accepted THEN "working" ELSE "refused")

ToScript(m, accepted) ==
    IF accepted THEN vm' = [vm EXCEPT ![m.run] = "ready"] /\ UNCHANGED code
    ELSE PushFailed(m.run)

\* The server carries a request out if the ref is where the lease says, the
\* effect and the fence together (--atomic), and answers a sender that waits.
Serve(m) ==
    /\ m \in wire
    /\ wire' = wire \ {m}
    /\ IF ref = m.lease
       THEN /\ ref' = m.to
            /\ landed' = IF m.push = 0 THEN landed ELSE [landed EXCEPT ![m.run] = m.push]
       ELSE UNCHANGED <<ref, landed>>
    /\ IF ~Awaits(m) THEN UNCHANGED <<host, vm, code>>
       ELSE IF m.from = "host" THEN ToHost(m, ref = m.lease) /\ UNCHANGED <<vm, code>>
       ELSE ToScript(m, ref = m.lease) /\ UNCHANGED host
    /\ UNCHANGED <<shown, exit, seen, at, copy, sent, unsure>>

\* A push comes back with an error that is no rejection.  The request may have
\* been carried out, may yet be, or never will.
GiveUp(m) ==
    /\ m \in wire /\ Awaits(m)
    /\ IF m.from = "host"
       THEN Enter(m.run, IF m.to = None THEN "held" ELSE "failed") /\ UNCHANGED <<vm, code>>
       ELSE PushFailed(m.run) /\ UNCHANGED host
    /\ unsure' = unsure \cup {m.run}
    /\ UNCHANGED <<server, shown, exit, seen, at, copy, sent>>

-----------------------------------------------------------------------------
(* The operator: kranq fence break.                                        *)

BreakShow ==
    /\ ref # None
    /\ shown' = ref
    /\ UNCHANGED <<server, job, script, unsure>>

BreakPush ==
    /\ shown # None
    /\ ref' = IF ref = shown THEN None ELSE ref
    /\ shown' = None
    /\ UNCHANGED <<landed, wire, job, script, unsure>>

-----------------------------------------------------------------------------

JobStep(r) ==
    \/ Claim(r) \/ SetUpFails(r) \/ ShellReturns(r) \/ Interrupt(r) \/ EndVM(r)
    \/ SettleRead(r) \/ SettleAdopt(r) \/ SettleFails(r) \/ JobKilled(r)

ScriptStep(r) ==
    \/ Boot(r) \/ Collect(r) \/ PushRead(r) \/ PushFetch(r) \/ PushFetchFails(r)
    \/ \E c \in {"ok", "limit", "fail"} : ScriptExits(r, c)

Next ==
    \/ \E r \in Runs : JobStep(r) \/ ScriptStep(r)
    \/ \E m \in wire : Serve(m) \/ GiveUp(m)
    \/ BreakShow \/ BreakPush

Spec == Init /\ [][Next]_vars

-----------------------------------------------------------------------------
(* Properties.                                                             *)

\* The runs whose job no longer touches the fence's ownership on their behalf.
Done == {r \in Runs : host[r] \in {"releasing"} \cup Over}

\* The fence keeps the promise of AtMostOnce (docs/advanced/fence.md): an effect
\* lands only for the owner, and the owner of a landed effect loses the fence
\* only by a clean finish or by `fence break` of the very commit that was shown.
Promise == INSTANCE AtMostOnce WITH
    owner <- ref.run, effects <- landed, well <- {r \in Runs : code[r] = "ok"},
    over <- Done, shown <- <<shown.run, shown.n>>

Implements == Promise!Spec

\* A job that reports its fence released (settleFence) speaks of it for good: the
\* ref is not the run's again, and nothing it still has on the wire, from a VM
\* left running too, can land.
ReleasedIsOver ==
    \A r \in Runs : host[r] = "released" =>
        /\ ref.run # r
        /\ \A m \in wire : m.run = r => m.lease # ref

\* A fence is left standing for a reason (settleFence): its run pushed and failed,
\* or something went unanswered, or the ref moved after the job had read it.
HeldForAReason ==
    \A r \in Runs : host[r] \in Over /\ ref.run = r =>
        \/ (ref.n > 0 /\ exit[r] # "ok")
        \/ r \in unsure
        \/ seen[r] # ref

=============================================================================
