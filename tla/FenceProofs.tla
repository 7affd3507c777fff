---------------------------- MODULE FenceProofs ----------------------------
(***************************************************************************)
(* Theorems about the fence, for any runs, tasks and number of pushes,     *)
(* where kranq_push runs under errexit (~Tolerant); the last section is    *)
(* about any script.                                                       *)
(***************************************************************************)
EXTENDS Fence, TLAPS

-----------------------------------------------------------------------------
(* The inductive invariant.                                                *)

\* The three requests there are: the host's claim, its release of the commit it
\* saw first, and a push on top of a commit of the same run.
IsClaim(m) == /\ m.from = "host" /\ m.to = ClaimOf(m.run)
              /\ m.lease = None /\ m.push = 0

IsRelease(m) == /\ m.from = "host" /\ m.to = None
                /\ m.lease = seen[m.run] /\ m.lease # None /\ m.push = 0

IsPush(m) == /\ m.from = "vm" /\ m.to = Commit(m.run, m.push)
             /\ m.lease.run = m.run /\ m.lease.n < m.push
             /\ m.push \in 1..sent[m.run]

\* A run whose claim is still on the wire has done nothing yet.
ClaimIsFirst(m) == /\ host[m.run] \in {"claiming", "failed", "killed"}
                   /\ vm[m.run] = "off" /\ landed[m.run] = 0

\* A release is sent at the end, and if the ref has not moved since it was read
\* then it is the run's own, and nothing has landed or the script did well.
ReleaseIsLast(m) ==
    /\ host[m.run] \in {"releasing", "held", "killed"}
    /\ ref = m.lease => ref.run = m.run /\ (ref.n = 0 \/ code[m.run] = "ok")

WireInv ==
    \A m \in wire : \/ IsClaim(m) /\ ClaimIsFirst(m)
                    \/ IsRelease(m) /\ ReleaseIsLast(m)
                    \/ IsPush(m)

\* No two requests make the same commit.
OneMaker == \A m, o \in wire : m.to = o.to /\ m.to # None => m = o

\* A commit that has been the ref is not made again.
Issued(c) == /\ c.n <= sent[c.run]
             /\ c.n = 0 => host[c.run] # "idle"
             /\ \A m \in wire : m.to # c

RefInv == ref # None => Issued(ref) /\ landed[ref.run] = ref.n

SeenInv == \A r \in Runs : seen[r] # None => Issued(seen[r])

\* A run that gave way to the next one of its task, after the usage limit.
Finished(r) == host[r] \in {"released", "held"} /\ exit[r] = "limit"

\* The runs of one task do not overlap.
Exclusive == \A r, q \in Runs : r # q /\ Task[r] = Task[q] =>
                 \E s \in {r, q} : host[s] = "idle" \/ Finished(s)

\* A run that may still act on the fence.
Live(r) == host[r] \in Holding \/ vm[r] \in Inside

RunInv(r) ==
    /\ landed[r] <= sent[r]
    /\ at[r].run = r => at[r].n <= sent[r]
    /\ vm[r] = "checking" => sent[r] < MaxPushes
    /\ vm[r] \in Inside => code[r] = "none"
    /\ vm[r] = "off" => code[r] = "none" /\ sent[r] = 0
    /\ host[r] \in {"idle", "claiming", "refused", "failed"} => vm[r] = "off"
    /\ vm[r] = "exited" => code[r] # "none"
    /\ exit[r] = "limit" => vm[r] \in {"exited", "gone"}
    /\ Live(r) /\ ref # None /\ Task[ref.run] = Task[r] => ref.run = r
    /\ host[r] \in {"ending", "settling", "adopting", "releasing"} /\ exit[r] = "ok" =>
           code[r] = "ok" \/ (sent[r] = 0 /\ vm[r] \in {"off", "gone"})
    /\ host[r] \in {"failed", "killed"} => r \in unsure

IInv == /\ TypeOK /\ WireInv /\ OneMaker /\ RefInv /\ SeenInv /\ Exclusive
        /\ \A r \in Runs : RunInv(r)
        /\ ReleasedIsOver /\ HeldForAReason

-----------------------------------------------------------------------------
(* Commits and requests.                                                   *)

\* A commit is never the missing one, and is known by its run and number.
LEMMA CommitFacts ==
    /\ None.run = 0 /\ None.n = 0 /\ None \notin Commits
    /\ \A c \in Commits : /\ c.run \in Runs /\ c.run \in Nat \ {0} /\ c # None
                          /\ c.n \in 0..MaxPushes /\ c = Commit(c.run, c.n)
    /\ \A r \in Runs, n \in 0..MaxPushes :
          Commit(r, n) \in Commits /\ Commit(r, n).run = r /\ Commit(r, n).n = n
    /\ \A r \in Runs : r \in Nat \ {0} /\ ClaimOf(r) = Commit(r, 0)
    /\ MaxPushes \in Nat /\ 0 \in 0..MaxPushes
<1>1. None.run = 0 /\ None.n = 0
    BY DEF None
<1>2. ASSUME NEW c \in Commits
      PROVE  /\ c.run \in Runs /\ c.run \in Nat \ {0}
             /\ c.n \in 0..MaxPushes /\ c = Commit(c.run, c.n)
    BY RunsAssumption DEF RunsAssumption, Commits, Commit
<1>3. \A r \in Runs, n \in 0..MaxPushes :
          Commit(r, n) \in Commits /\ Commit(r, n).run = r /\ Commit(r, n).n = n
    BY DEF Commits, Commit
<1>4. MaxPushes \in Nat /\ 0 \in 0..MaxPushes
    BY BoundsAssumption DEF BoundsAssumption
<1> QED
    BY <1>1, <1>2, <1>3, <1>4, RunsAssumption DEF ClaimOf, RunsAssumption

\* The fields of a request.
LEMMA RequestFacts ==
    ASSUME NEW m \in Requests
    PROVE  /\ m.from \in {"host", "vm"} /\ m.run \in Runs /\ m.push \in 0..MaxPushes
           /\ m.lease \in Commits \cup {None} /\ m.to \in Commits \cup {None}
BY DEF Requests

\* What a request makes is a commit of its run.
LEMMA MakesItsOwn ==
    ASSUME IInv, NEW m \in wire
    PROVE  m \in Requests /\ (m.to # None => m.to \in Commits /\ m.to.run = m.run)
<1>1. m \in Requests
    BY DEF IInv, TypeOK
<1> QED
    BY <1>1, RequestFacts, CommitFacts DEF IInv, WireInv, IsClaim, IsRelease, IsPush

\* A run that has not begun has left no trace.
LEMMA IdleIsNew ==
    ASSUME IInv, NEW r \in Runs, host[r] = "idle"
    PROVE  /\ sent[r] = 0 /\ vm[r] = "off" /\ code[r] = "none" /\ landed[r] = 0
           /\ ref.run # r
           /\ \A m \in wire : m.run # r
           /\ \A q \in Runs : seen[q].run # r
<1>1. sent[r] = 0 /\ vm[r] = "off" /\ code[r] = "none" /\ landed[r] = 0
    BY CommitFacts DEF IInv, RunInv, TypeOK
<1>2. ASSUME NEW c \in Commits, Issued(c) PROVE c.run # r
    BY <1>1, <1>2, CommitFacts DEF Issued
<1>3. ref.run # r
    BY <1>2, CommitFacts DEF IInv, RefInv, TypeOK
<1>3a. ASSUME NEW q \in Runs PROVE seen[q].run # r
    <2>1. seen[q] \in Commits \cup {None}
        BY DEF IInv, TypeOK
    <2> QED
        BY <1>2, <2>1, CommitFacts DEF IInv, SeenInv
<1>4. ASSUME NEW m \in wire, m.run = r PROVE FALSE
    BY <1>1, <1>4, RequestFacts DEF IInv, WireInv, TypeOK, ClaimIsFirst, ReleaseIsLast, IsPush
<1> QED
    BY <1>1, <1>3, <1>3a, <1>4

-----------------------------------------------------------------------------
(* The job on the host.                                                    *)

\* The claim of a run is the first request there is of it.
LEMMA ClaimKeeps ==
    ASSUME IInv, NEW r \in Runs, Claim(r)
    PROVE  IInv'
<1> DEFINE c == [from |-> "host", run |-> r, lease |-> None, to |-> ClaimOf(r), push |-> 0]
<1>1. c \in Requests /\ c.from = "host" /\ c.run = r /\ c.lease = None
                     /\ c.to = ClaimOf(r) /\ c.push = 0
    BY CommitFacts DEF Requests
<1>2. wire' = wire \cup {c} /\ host[r] = "idle" /\ host' = [host EXCEPT ![r] = "claiming"]
    BY DEF Claim, Send, Enter
<1> HIDE DEF c
<1>3. UNCHANGED <<ref, landed, shown, exit, seen, vm, code, at, copy, sent, unsure>>
    BY DEF Claim, script
<1>4. TypeOK'
    BY <1>1, <1>2, <1>3 DEF IInv, TypeOK
<1>5. /\ sent[r] = 0 /\ vm[r] = "off" /\ code[r] = "none" /\ landed[r] = 0 /\ ref.run # r
      /\ \A m \in wire : m.run # r
      /\ \A q \in Runs : seen[q].run # r
    BY <1>2, IdleIsNew
<1>6. WireInv'
    <2>1. ASSUME NEW m \in wire
          PROVE  (\/ IsClaim(m) /\ ClaimIsFirst(m)
                  \/ IsRelease(m) /\ ReleaseIsLast(m)
                  \/ IsPush(m))'
        BY <1>2, <1>3, <1>5 DEF IInv, WireInv, TypeOK, IsClaim, IsRelease, IsPush,
           ClaimIsFirst, ReleaseIsLast
    <2>2. (IsClaim(c) /\ ClaimIsFirst(c))'
        BY <1>1, <1>2, <1>3, <1>5 DEF IInv, TypeOK, IsClaim, ClaimIsFirst
    <2> QED
        BY <1>2, <2>1, <2>2 DEF WireInv
<1>7. \A m \in wire : m.to # c.to \/ m.to = None
    BY <1>1, <1>5, CommitFacts, MakesItsOwn
<1>8. OneMaker'
    BY <1>2, <1>7 DEF IInv, OneMaker
<1>9. ASSUME NEW d \in Commits, Issued(d), d.run # r PROVE Issued(d)'
    BY <1>1, <1>2, <1>3, <1>9, CommitFacts DEF IInv, TypeOK, Issued
<1>10. RefInv'
    BY <1>3, <1>5, <1>9 DEF IInv, TypeOK, RefInv
<1>11. Exclusive'
    BY <1>2, <1>3 DEF IInv, TypeOK, Exclusive, Finished, Claim, MayStart
<1>11a. SeenInv'
    BY <1>3, <1>5, <1>9 DEF IInv, TypeOK, SeenInv
<1>12. ASSUME NEW q \in Runs PROVE RunInv(q)'
    BY <1>2, <1>3, <1>5 DEF IInv, TypeOK, RunInv, Live, Holding, Inside
<1>13. ReleasedIsOver'
    BY <1>1, <1>2, <1>3, <1>5 DEF IInv, TypeOK, ReleasedIsOver
<1>14. HeldForAReason'
    BY <1>2, <1>3 DEF IInv, TypeOK, HeldForAReason, Over
<1> QED
    BY <1>4, <1>6, <1>8, <1>10, <1>11, <1>11a, <1>12, <1>13, <1>14 DEF IInv

\* The steps of the job and of the script that send nothing and make no commit.
Quiet(r) ==
    \/ SetUpFails(r) \/ ShellReturns(r) \/ Interrupt(r) \/ EndVM(r) \/ SettleRead(r)
    \/ SettleFails(r) \/ JobKilled(r) \/ Boot(r) \/ Collect(r) \/ PushRead(r)
    \/ PushFetchFails(r) \/ \E c \in {"ok", "limit", "fail"} : ScriptExits(r, c)

\* They keep the types.
LEMMA QuietType ==
    ASSUME IInv, ~Tolerant, NEW r \in Runs, Quiet(r)
    PROVE  TypeOK'
<1> USE DEF IInv, TypeOK, Holding, Over, Inside, Enter, server, job, script
<1>1. CASE SetUpFails(r) \/ ShellReturns(r) \/ Interrupt(r)
    BY <1>1 DEF SetUpFails, ShellReturns, Interrupt, RunInv
<1>2. CASE EndVM(r)
    BY <1>2 DEF EndVM
<1>3. CASE SettleRead(r)
    BY <1>3 DEF SettleRead
<1>4. CASE SettleFails(r) \/ JobKilled(r)
    BY <1>4 DEF SettleFails, JobKilled
<1>5. CASE Boot(r) \/ Collect(r)
    BY <1>5 DEF Boot, Collect
<1>6. CASE PushRead(r)
    BY <1>6 DEF PushRead, PushFailed
<1>7. CASE PushFetchFails(r)
    BY <1>7 DEF PushFetchFails, PushFailed
<1>8. CASE \E c \in {"ok", "limit", "fail"} : ScriptExits(r, c)
    BY <1>8 DEF ScriptExits
<1> QED
    BY <1>1, <1>2, <1>3, <1>4, <1>5, <1>6, <1>7, <1>8 DEF Quiet

\* They keep the fence's side of the invariant.
LEMMA QuietKeepsServer ==
    ASSUME IInv, ~Tolerant, NEW r \in Runs, Quiet(r)
    PROVE  WireInv' /\ OneMaker' /\ RefInv' /\ SeenInv'
<1>1. UNCHANGED <<ref, landed, wire, sent>>
    BY DEF Quiet, SetUpFails, ShellReturns, Interrupt, EndVM, SettleRead, SettleFails, JobKilled,
       Boot, Collect, PushRead, PushFetchFails, ScriptExits, server, script
<1>2. /\ \A q \in Runs : host[q] # "idle" => host'[q] # "idle"
      /\ \A q \in Runs : host[q] \in {"claiming", "failed", "killed"} =>
             host'[q] \in {"claiming", "failed", "killed"} /\ (vm[q] = "off" => vm'[q] = "off")
      /\ \A q \in Runs : host[q] \in {"releasing", "held", "killed"} =>
             host'[q] \in {"releasing", "held", "killed"} /\ seen'[q] = seen[q]
      /\ \A q \in Runs : code[q] = "ok" => code'[q] = "ok"
    <2> USE DEF IInv, TypeOK, RunInv, Holding, Over, Inside, Enter, server, job, script
    <2>1. CASE SetUpFails(r) \/ ShellReturns(r) \/ Interrupt(r)
        BY <2>1 DEF SetUpFails, ShellReturns, Interrupt
    <2>2. CASE EndVM(r)
        BY <2>2 DEF EndVM
    <2>3. CASE SettleRead(r)
        BY <2>3 DEF SettleRead
    <2>4. CASE SettleFails(r) \/ JobKilled(r)
        BY <2>4 DEF SettleFails, JobKilled
    <2>5. CASE Boot(r) \/ Collect(r)
        BY <2>5 DEF Boot, Collect
    <2>6. CASE PushRead(r)
        BY <2>6 DEF PushRead, PushFailed
    <2>7. CASE PushFetchFails(r)
        BY <2>7 DEF PushFetchFails, PushFailed
    <2>8. CASE \E c \in {"ok", "limit", "fail"} : ScriptExits(r, c)
        BY <2>8 DEF ScriptExits
    <2> QED
        BY <2>1, <2>2, <2>3, <2>4, <2>5, <2>6, <2>7, <2>8 DEF Quiet
<1>3. WireInv'
    <2> SUFFICES ASSUME NEW m \in wire
                 PROVE  (\/ IsClaim(m) /\ ClaimIsFirst(m)
                         \/ IsRelease(m) /\ ReleaseIsLast(m)
                         \/ IsPush(m))'
        BY <1>1 DEF WireInv
    <2> QED
        BY <1>1, <1>2, MakesItsOwn, RequestFacts
        DEF IInv, WireInv, IsClaim, IsRelease, IsPush, ClaimIsFirst, ReleaseIsLast
<1>4. OneMaker' /\ RefInv'
    BY <1>1, <1>2, CommitFacts DEF IInv, TypeOK, OneMaker, RefInv, Issued
<1>5. \A q \in Runs : seen'[q] \in {seen[q], ref}
    BY DEF Quiet, SetUpFails, ShellReturns, Interrupt, EndVM, SettleRead, SettleFails, JobKilled,
       Boot, Collect, PushRead, PushFetchFails, ScriptExits, job, IInv, TypeOK
<1>6. ASSUME NEW c \in Commits, Issued(c) PROVE Issued(c)'
    BY <1>1, <1>2, <1>6, CommitFacts DEF Issued
<1>7. SeenInv'
    BY <1>5, <1>6 DEF IInv, TypeOK, SeenInv, RefInv
<1> QED
    BY <1>3, <1>4, <1>7

\* They keep the order of the runs of a task.
LEMMA QuietKeepsRuns ==
    ASSUME IInv, ~Tolerant, NEW r \in Runs, Quiet(r)
    PROVE  Exclusive' /\ \A q \in Runs : RunInv(q)'
<1>1. \A q \in Runs : host[q] = "idle" \/ Finished(q) => (host[q] = "idle" \/ Finished(q))'
    <2> USE DEF IInv, TypeOK, Finished, Holding, Over, Inside, Enter, server, job, script
    <2>1. CASE SetUpFails(r) \/ ShellReturns(r) \/ Interrupt(r)
        BY <2>1 DEF SetUpFails, ShellReturns, Interrupt
    <2>2. CASE EndVM(r)
        BY <2>2 DEF EndVM
    <2>3. CASE SettleRead(r)
        BY <2>3 DEF SettleRead
    <2>4. CASE SettleFails(r) \/ JobKilled(r)
        BY <2>4 DEF SettleFails, JobKilled
    <2>5. CASE Boot(r) \/ Collect(r)
        BY <2>5 DEF Boot, Collect
    <2>6. CASE PushRead(r)
        BY <2>6 DEF PushRead, PushFailed
    <2>7. CASE PushFetchFails(r)
        BY <2>7 DEF PushFetchFails, PushFailed
    <2>8. CASE \E c \in {"ok", "limit", "fail"} : ScriptExits(r, c)
        BY <2>8 DEF ScriptExits
    <2> QED
        BY <2>1, <2>2, <2>3, <2>4, <2>5, <2>6, <2>7, <2>8 DEF Quiet
<1>1a. Exclusive'
  BY <1>1 DEF IInv, Exclusive
<1>2. ASSUME NEW q \in Runs PROVE RunInv(q)'
    <2> USE DEF IInv, TypeOK, RunInv, Live, Holding, Over, Inside, Enter, server, job, script
    <2>1. CASE SetUpFails(r) \/ ShellReturns(r) \/ Interrupt(r)
        <3>1. CASE SetUpFails(r)
            BY <3>1 DEF SetUpFails
        <3>2. CASE ShellReturns(r)
            BY <3>2 DEF ShellReturns
        <3>3. CASE Interrupt(r)
            BY <3>3 DEF Interrupt
        <3> QED
            BY <2>1, <3>1, <3>2, <3>3
    <2>2. CASE EndVM(r)
        BY <2>2 DEF EndVM
    <2>3. CASE SettleRead(r)
        BY <2>3 DEF SettleRead
    <2>4. CASE SettleFails(r) \/ JobKilled(r)
        BY <2>4 DEF SettleFails, JobKilled
    <2>5. CASE Boot(r) \/ Collect(r)
        <3>1. CASE Boot(r)
            BY <3>1 DEF Boot
        <3>2. CASE Collect(r)
            BY <3>2 DEF Collect
        <3> QED
            BY <2>5, <3>1, <3>2
    <2>6. CASE PushRead(r)
        BY <2>6, CommitFacts DEF PushRead, PushFailed, RefInv, Issued
    <2>7. CASE PushFetchFails(r)
        BY <2>7 DEF PushFetchFails, PushFailed
    <2>8. CASE \E c \in {"ok", "limit", "fail"} : ScriptExits(r, c)
        BY <2>8 DEF ScriptExits
    <2> QED
        BY <2>1, <2>2, <2>3, <2>4, <2>5, <2>6, <2>7, <2>8 DEF Quiet
<1> QED
    BY <1>1a, <1>2

\* What the promise says of one run that is over.
LEMMA QuietKeepsPromise ==
    ASSUME IInv, ~Tolerant, NEW r \in Runs, Quiet(r)
    PROVE  ReleasedIsOver' /\ HeldForAReason'
<1>1. ReleasedIsOver'
    <2> USE DEF IInv, TypeOK, ReleasedIsOver, Holding, Over, Inside, Enter, server, job, script
    <2>1. CASE SetUpFails(r) \/ ShellReturns(r) \/ Interrupt(r)
        BY <2>1 DEF SetUpFails, ShellReturns, Interrupt
    <2>2. CASE EndVM(r)
        BY <2>2 DEF EndVM
    <2>3. CASE SettleRead(r)
        BY <2>3 DEF SettleRead
    <2>4. CASE SettleFails(r) \/ JobKilled(r)
        BY <2>4 DEF SettleFails, JobKilled
    <2>5. CASE Boot(r) \/ Collect(r)
        BY <2>5 DEF Boot, Collect
    <2>6. CASE PushRead(r)
        BY <2>6 DEF PushRead, PushFailed
    <2>7. CASE PushFetchFails(r)
        BY <2>7 DEF PushFetchFails, PushFailed
    <2>8. CASE \E c \in {"ok", "limit", "fail"} : ScriptExits(r, c)
        BY <2>8 DEF ScriptExits
    <2> QED
        BY <2>1, <2>2, <2>3, <2>4, <2>5, <2>6, <2>7, <2>8 DEF Quiet
<1>2. HeldForAReason'
    <2> USE DEF IInv, TypeOK, HeldForAReason, RunInv, Holding, Over, Inside, Enter, server, job, script
    <2>1. CASE SetUpFails(r) \/ ShellReturns(r) \/ Interrupt(r)
        BY <2>1 DEF SetUpFails, ShellReturns, Interrupt
    <2>2. CASE EndVM(r)
        BY <2>2 DEF EndVM
    <2>3. CASE SettleRead(r)
        BY <2>3, CommitFacts DEF SettleRead
    <2>4. CASE SettleFails(r) \/ JobKilled(r)
        BY <2>4 DEF SettleFails, JobKilled
    <2>5. CASE Boot(r) \/ Collect(r)
        BY <2>5 DEF Boot, Collect
    <2>6. CASE PushRead(r)
        BY <2>6 DEF PushRead, PushFailed
    <2>7. CASE PushFetchFails(r)
        BY <2>7 DEF PushFetchFails, PushFailed
    <2>8. CASE \E c \in {"ok", "limit", "fail"} : ScriptExits(r, c)
        BY <2>8 DEF ScriptExits
    <2> QED
        BY <2>1, <2>2, <2>3, <2>4, <2>5, <2>6, <2>7, <2>8 DEF Quiet
<1> QED
    BY <1>1, <1>2

\* A release is sent only for the run's own commit, unless the ref has moved.
LEMMA SettleKeeps ==
    ASSUME IInv, ~Tolerant, NEW r \in Runs, SettleAdopt(r)
    PROVE  IInv'
<1>0. seen[r] \in Commits
    BY DEF IInv, TypeOK, SettleAdopt
<1>1. PICK c \in Requests : /\ c.from = "host" /\ c.run = r /\ c.lease = seen[r]
                           /\ c.to = None /\ c.push = 0
                           /\ c = [from |-> "host", run |-> r, lease |-> seen[r],
                                   to |-> None, push |-> 0]
    BY <1>0, CommitFacts DEF Requests
<1>2. /\ UNCHANGED <<ref, landed, shown, exit, seen, vm, code, at, copy, sent, unsure>>
      /\ host[r] = "adopting"
      /\ \/ /\ NewTask(r, ref) \/ Holds(r)
            /\ wire' = wire /\ host' = [host EXCEPT ![r] = "held"]
         \/ /\ ~NewTask(r, ref) /\ ~Holds(r)
            /\ wire' = wire \cup {c} /\ host' = [host EXCEPT ![r] = "releasing"]
    BY <1>1 DEF SettleAdopt, Enter, Send, script
<1>3. TypeOK'
    BY <1>1, <1>2 DEF IInv, TypeOK, Holding, Over
<1>4. ~NewTask(r, ref) => ref # None /\ ref.run = r
    BY <1>2 DEF IInv, RunInv, Live, Holding, NewTask
<1>5. ASSUME ~NewTask(r, ref), ~Holds(r), ref = seen[r]
      PROVE  ref.n = 0 \/ code[r] = "ok"
    <2>1. ref.n <= sent[r]
        BY <1>4, <1>5 DEF IInv, RefInv, Issued
    <2>2. seen[r] = ClaimOf(r) => ref.n = 0
        BY <1>5, CommitFacts
    <2>3. exit[r] = "ok" => code[r] = "ok" \/ sent[r] = 0
        BY <1>2 DEF IInv, RunInv
    <2> QED
        BY <1>0, <1>5, <2>1, <2>2, <2>3, CommitFacts DEF Holds
<1>6. WireInv'
    <2>1. ASSUME NEW m \in wire
          PROVE  (\/ IsClaim(m) /\ ClaimIsFirst(m)
                  \/ IsRelease(m) /\ ReleaseIsLast(m)
                  \/ IsPush(m))'
        BY <1>2, MakesItsOwn, RequestFacts DEF IInv, WireInv, TypeOK, IsClaim, IsRelease, IsPush,
           ClaimIsFirst, ReleaseIsLast
    <2>2. wire' # wire => (IsRelease(c) /\ ReleaseIsLast(c))'
        BY <1>0, <1>1, <1>2, <1>4, <1>5, CommitFacts DEF IInv, TypeOK, IsRelease, ReleaseIsLast
    <2> QED
        BY <1>2, <2>1, <2>2 DEF WireInv
<1>7. OneMaker'
    BY <1>1, <1>2 DEF IInv, OneMaker
<1>8. ASSUME NEW d \in Commits, Issued(d) PROVE Issued(d)'
    BY <1>1, <1>2, <1>8, CommitFacts DEF IInv, TypeOK, Issued
<1>9. RefInv' /\ SeenInv'
    BY <1>2, <1>8 DEF IInv, TypeOK, RefInv, SeenInv
<1>10. Exclusive'
    BY <1>2 DEF IInv, TypeOK, Exclusive, Finished
<1>11. ASSUME NEW q \in Runs PROVE RunInv(q)'
    BY <1>2 DEF IInv, TypeOK, RunInv, Live, Holding, Inside
<1>12. ReleasedIsOver'
    BY <1>1, <1>2 DEF IInv, TypeOK, ReleasedIsOver
<1>13. HeldForAReason'
    <2>1. Holds(r) /\ ref = seen[r] /\ ref.run = r => ref.n > 0 /\ exit[r] # "ok"
        BY <1>0, CommitFacts DEF Holds
    <2>2. ref.run = r => ~NewTask(r, ref)
        BY CommitFacts DEF NewTask
    <2> QED
        BY <1>2, <2>1, <2>2 DEF IInv, TypeOK, HeldForAReason, Over
<1> QED
    BY <1>3, <1>6, <1>7, <1>9, <1>10, <1>11, <1>12, <1>13 DEF IInv

-----------------------------------------------------------------------------
(* kranq_push.                                                             *)

\* A push goes on top of a commit of its own run, and makes a commit nobody made.
LEMMA PushKeeps ==
    ASSUME IInv, ~Tolerant, NEW r \in Runs, PushFetch(r)
    PROVE  IInv'
<1>0. /\ vm[r] = "checking" /\ ref # None /\ ref \in Commits /\ at[r] \in Commits
      /\ sent[r] \in Nat /\ sent[r] + 1 \in 1..MaxPushes /\ MaxPushes \in Nat
    BY CommitFacts DEF IInv, TypeOK, RunInv, PushFetch
<1>1. UNCHANGED <<ref, landed, shown, host, exit, seen, at, unsure>>
      /\ copy' = [copy EXCEPT ![r] = ref]
    BY DEF PushFetch, job
<1>2. CASE NewTask(r, ref) \/ ~HasObject(r, at[r], ref)
    <2>1. /\ UNCHANGED <<sent, wire>>
          /\ vm' = [vm EXCEPT ![r] = "exited"] /\ code' = [code EXCEPT ![r] = "fail"]
        BY <1>2 DEF PushFetch, PushWith, PushFailed
    <2>2. TypeOK'
        BY <1>0, <1>1, <2>1 DEF IInv, TypeOK, Inside
    <2>3. WireInv'
        <3> SUFFICES ASSUME NEW m \in wire
                     PROVE  (\/ IsClaim(m) /\ ClaimIsFirst(m)
                             \/ IsRelease(m) /\ ReleaseIsLast(m)
                             \/ IsPush(m))'
            BY <2>1 DEF WireInv
        <3> QED
            BY <1>0, <1>1, <2>1, MakesItsOwn, RequestFacts DEF IInv, TypeOK, WireInv, IsClaim,
               IsRelease, IsPush, ClaimIsFirst, ReleaseIsLast, RunInv, Inside
    <2>4. OneMaker' /\ RefInv' /\ SeenInv' /\ Exclusive' /\ ReleasedIsOver' /\ HeldForAReason'
        BY <1>1, <2>1 DEF IInv, OneMaker, RefInv, SeenInv, Issued, Exclusive, Finished,
           ReleasedIsOver, HeldForAReason
    <2>5. ASSUME NEW q \in Runs PROVE RunInv(q)'
        BY <1>0, <1>1, <2>1 DEF IInv, TypeOK, RunInv, Live, Holding, Inside
    <2> QED
        BY <2>2, <2>3, <2>4, <2>5 DEF IInv
<1>3. CASE ~NewTask(r, ref) /\ HasObject(r, at[r], ref)
    <2>0. PICK n \in 1..MaxPushes : n = sent[r] + 1
        BY <1>0
    <2>3. Commit(r, n) \in Commits /\ Commit(r, n).run = r /\ Commit(r, n).n = n
        BY <1>0, CommitFacts
    <2>2. PICK c \in Requests : /\ c.from = "vm" /\ c.run = r /\ c.lease = at[r]
                               /\ c.to = Commit(r, n) /\ c.push = n
                               /\ c = [from |-> "vm", run |-> r, lease |-> at[r],
                                       to |-> Commit(r, n), push |-> n]
        <3>1. [from |-> "vm", run |-> r, lease |-> at[r], to |-> Commit(r, n), push |-> n]
                  \in Requests
            BY <1>0, <2>3 DEF Requests
        <3> QED
            BY <3>1
    <2>1. /\ sent' = [sent EXCEPT ![r] = n] /\ vm' = [vm EXCEPT ![r] = "pushing"]
          /\ wire' = wire \cup {c} /\ code' = code
        BY <1>3, <2>0, <2>2 DEF PushFetch, PushWith, Send
    <2>4. ref.run = r
        BY <1>0, <1>3 DEF IInv, RunInv, Live, Inside, NewTask
    <2>5. at[r].run = r /\ at[r].n <= sent[r]
        BY <1>0, <1>3, <2>4 DEF IInv, RunInv, HasObject
    <2>6. TypeOK'
        BY <1>0, <2>0, <1>1, <2>1, <2>2 DEF IInv, TypeOK, Inside
    <2>7. ASSUME NEW m \in wire
          PROVE  (\/ IsClaim(m) /\ ClaimIsFirst(m)
                  \/ IsRelease(m) /\ ReleaseIsLast(m)
                  \/ IsPush(m))'
        BY <1>0, <2>0, <1>1, <2>1, MakesItsOwn, RequestFacts DEF IInv, TypeOK, WireInv, IsClaim,
           IsRelease, IsPush, ClaimIsFirst, ReleaseIsLast
    <2>8. IsPush(c)'
        <3>1. c.lease.run = r /\ c.lease.n < n /\ n \in 1..sent'[r]
            BY <1>0, <2>0, <2>1, <2>2, <2>5, CommitFacts DEF IInv, TypeOK
        <3> QED
            BY <2>2, <3>1 DEF IsPush
    <2>9. WireInv'
        BY <2>1, <2>7, <2>8 DEF WireInv
    <2>10. ASSUME NEW m \in wire PROVE m.to # c.to
        BY <1>0, <2>0, <2>2, <2>3, MakesItsOwn, RequestFacts, CommitFacts
        DEF IInv, WireInv, IsClaim, IsRelease, IsPush
    <2>11. OneMaker'
        BY <2>1, <2>10 DEF IInv, OneMaker
    <2>12. ASSUME NEW d \in Commits, Issued(d) PROVE Issued(d)'
        BY <1>0, <2>0, <1>1, <2>1, <2>2, <2>3, <2>12, CommitFacts DEF IInv, TypeOK, Issued
    <2>13. RefInv' /\ SeenInv'
        BY <1>1, <2>12 DEF IInv, TypeOK, RefInv, SeenInv
    <2>14. Exclusive' /\ HeldForAReason'
        BY <1>1 DEF IInv, Exclusive, Finished, HeldForAReason
    <2>15. ASSUME NEW q \in Runs PROVE RunInv(q)'
        <3>1. sent[q] <= sent'[q] /\ sent[q] \in Nat /\ sent'[q] \in Nat
            BY <1>0, <2>0, <2>1 DEF IInv, TypeOK
        <3>2. at[q].n \in Nat /\ landed[q] \in Nat
            BY <1>0, CommitFacts DEF IInv, TypeOK
        <3> QED
            BY <1>0, <2>0, <1>1, <2>1, <3>1, <3>2
            DEF IInv, TypeOK, RunInv, Live, Holding, Inside
    <2>16. ReleasedIsOver'
        BY <1>1, <2>1, <2>2, <2>4 DEF IInv, ReleasedIsOver
    <2> QED
        BY <2>6, <2>9, <2>11, <2>13, <2>14, <2>15, <2>16 DEF IInv
<1> QED
    BY <1>2, <1>3

-----------------------------------------------------------------------------
(* The git server.                                                         *)

\* A request on the wire, and what its being of one of three kinds excludes.
LEMMA WireFacts ==
    ASSUME IInv, NEW m \in wire
    PROVE  /\ m \in Requests /\ m.run \in Runs
           /\ (m.to # None => m.to \in Commits /\ m.to.run = m.run /\ m.to.n = m.push)
           /\ m.push <= sent[m.run]
           /\ m.push # 0 => m.lease.run = m.run /\ m.from = "vm" /\ m.to # None
           /\ m.push = 0 => m.from = "host"
           /\ m.from = "host" /\ m.to # None => IsClaim(m) /\ ClaimIsFirst(m)
           /\ m.to = None => IsRelease(m) /\ ReleaseIsLast(m)
           /\ m.from = "vm" => IsPush(m) /\ m.push > 0
BY MakesItsOwn, RequestFacts, CommitFacts
DEF IInv, TypeOK, WireInv, IsClaim, IsRelease, IsPush

\* What a request that is carried out makes of the server, and its answer of the
\* sender.
LEMMA ServeEffects ==
    ASSUME IInv, ~Tolerant, NEW m \in wire, Serve(m)
    PROVE  /\ UNCHANGED <<shown, exit, seen, at, copy, sent, unsure>>
           /\ wire' = wire \ {m}
           /\ \/ ref = m.lease /\ ref' = m.to
              \/ ref # m.lease /\ ref' = ref
           /\ \A q \in Runs : landed'[q] = IF q = m.run /\ ref = m.lease /\ m.push # 0
                                           THEN m.push ELSE landed[q]
           /\ \A q \in Runs : q # m.run =>
                  host'[q] = host[q] /\ vm'[q] = vm[q] /\ code'[q] = code[q]
           /\ \/ host' = host
              \/ /\ m.to = None /\ host[m.run] = "releasing"
                 /\ host'[m.run] = IF ref = m.lease THEN "released" ELSE "held"
              \/ /\ m.from = "host" /\ m.to # None /\ host[m.run] = "claiming"
                 /\ host'[m.run] = IF ref = m.lease THEN "working" ELSE "refused"
           /\ \/ vm' = vm /\ code' = code
              \/ /\ m.from = "vm" /\ vm[m.run] = "pushing"
                 /\ \/ vm'[m.run] = "ready" /\ code' = code
                    \/ vm'[m.run] = "exited" /\ code'[m.run] = "fail"
           /\ TypeOK'
<1>1. /\ m.run \in Runs /\ m.to \in Commits \cup {None} /\ m.push \in 0..MaxPushes
      /\ m.from = "vm" => m.to # None
    BY RequestFacts, WireFacts
<1>2. /\ UNCHANGED <<shown, exit, seen, at, copy, sent, unsure>>
      /\ wire' = wire \ {m}
      /\ \/ ref = m.lease /\ ref' = m.to
         \/ ref # m.lease /\ ref' = ref
    BY DEF Serve
<1>3. \A q \in Runs : landed'[q] = IF q = m.run /\ ref = m.lease /\ m.push # 0
                                   THEN m.push ELSE landed[q]
    BY <1>1 DEF Serve, IInv, TypeOK
<1>4. CASE ~Awaits(m)
    <2>1. UNCHANGED <<host, vm, code>>
        BY <1>4 DEF Serve
    <2>2. TypeOK'
        BY <1>1, <2>1 DEF Serve, IInv, TypeOK
    <2> QED
        BY <1>2, <1>3, <2>1, <2>2
<1>5. CASE Awaits(m) /\ m.from = "host"
    <2>1. /\ UNCHANGED <<vm, code>>
          /\ \/ /\ m.to = None /\ host[m.run] = "releasing"
                /\ host' = [host EXCEPT ![m.run] = IF ref = m.lease THEN "released" ELSE "held"]
             \/ /\ m.to # None /\ host[m.run] = "claiming"
                /\ host' = [host EXCEPT ![m.run] = IF ref = m.lease THEN "working" ELSE "refused"]
        BY <1>5 DEF Serve, Awaits, ToHost, Enter
    <2>2. TypeOK'
        BY <1>1, <2>1 DEF Serve, IInv, TypeOK, Holding, Over
    <2>3. /\ \A q \in Runs : q # m.run => host'[q] = host[q]
          /\ \/ host'[m.run] = IF ref = m.lease THEN "released" ELSE "held"
             \/ host'[m.run] = IF ref = m.lease THEN "working" ELSE "refused"
        BY <1>1, <2>1 DEF IInv, TypeOK
    <2> QED
        BY <1>1, <1>2, <1>3, <1>5, <2>1, <2>2 DEF IInv, TypeOK
<1>6. CASE Awaits(m) /\ m.from # "host"
    <2>1. /\ UNCHANGED host /\ m.from = "vm" /\ vm[m.run] = "pushing"
          /\ \/ vm' = [vm EXCEPT ![m.run] = "ready"] /\ code' = code
             \/ /\ vm' = [vm EXCEPT ![m.run] = "exited"]
                /\ code' = [code EXCEPT ![m.run] = "fail"]
        BY <1>1, <1>6, RequestFacts, WireFacts DEF Serve, Awaits, ToScript, PushFailed
    <2>2. TypeOK'
        BY <1>1, <2>1 DEF Serve, IInv, TypeOK, Inside
    <2> QED
        BY <1>1, <1>2, <1>3, <2>1, <2>2 DEF IInv, TypeOK
<1> QED
    BY <1>4, <1>5, <1>6

\* No request but one makes the commit it makes; a sender has one release.
LEMMA OneOfAKind ==
    ASSUME IInv, NEW m \in wire, NEW o \in wire, o # m, o.run = m.run
    PROVE  ~(IsClaim(m) /\ IsClaim(o)) /\ ~(IsRelease(m) /\ IsRelease(o))
<1>1. IsClaim(m) /\ IsClaim(o) => m.to = o.to /\ m.to # None
    BY WireFacts, CommitFacts DEF IsClaim
<1>2. ~(IsClaim(m) /\ IsClaim(o))
    BY <1>1 DEF IInv, OneMaker
<1>3. IsRelease(m) /\ IsRelease(o) => m = o
    BY WireFacts DEF IsRelease, Requests
<1> QED
    BY <1>2, <1>3

\* A request that has been served makes its commit for good.
LEMMA ServeKeepsServer ==
    ASSUME IInv, ~Tolerant, NEW m \in wire, Serve(m)
    PROVE  WireInv' /\ OneMaker' /\ RefInv' /\ SeenInv'
<1>1. wire' = wire \ {m} /\ sent' = sent /\ seen' = seen /\ m.run \in Runs
    BY ServeEffects, WireFacts
<1>2. OneMaker'
    BY <1>1 DEF IInv, OneMaker
<1>3. ASSUME NEW c \in Commits, Issued(c) PROVE Issued(c)' /\ m.to # c
    <2>1. host'[c.run] # "idle" \/ host[c.run] = "idle"
        BY CommitFacts, ServeEffects
    <2> QED
        BY <1>1, <1>3, <2>1, CommitFacts DEF Issued
<1>4. ASSUME m.to # None PROVE Issued(m.to)' /\ m.to \in Commits
    <2>1. /\ m.to \in Commits /\ m.to.run = m.run /\ m.to.n = m.push /\ m.push <= sent[m.run]
          /\ \A o \in wire' : o.to # m.to
        BY <1>1, <1>4, WireFacts DEF IInv, OneMaker
    <2>2. host[m.run] # "idle" \/ m.push # 0
        BY <1>4, WireFacts DEF ClaimIsFirst
    <2>3. host'[m.run] # "idle" \/ m.push # 0
        BY <2>2, ServeEffects
    <2> QED
        BY <1>1, <2>1, <2>3 DEF Issued
<1>5. RefInv'
    <2>1. CASE ref # m.lease
        <3>1. ref' = ref /\ \A q \in Runs : landed'[q] = landed[q]
            BY <2>1, ServeEffects
        <3> QED
            BY <3>1, <1>3, CommitFacts DEF RefInv, IInv, TypeOK
    <2>2. CASE ref = m.lease /\ m.to # None
        <3>1. ref' = m.to /\ landed'[m.run] = IF m.push # 0 THEN m.push ELSE landed[m.run]
            BY <1>1, <2>2, ServeEffects
        <3>2. m.push = 0 => landed[m.run] = 0
            BY <2>2, WireFacts DEF ClaimIsFirst
        <3> QED
            BY <1>4, <2>2, <3>1, <3>2, WireFacts DEF RefInv
    <2>3. CASE ref = m.lease /\ m.to = None
        BY <2>3, ServeEffects DEF RefInv
    <2> QED
        BY <2>1, <2>2, <2>3
<1>6. SeenInv'
    BY <1>1, <1>3 DEF IInv, SeenInv, TypeOK
<1>7. WireInv'
    <2> SUFFICES ASSUME NEW o \in wire, o # m
                 PROVE  (\/ IsClaim(o) /\ ClaimIsFirst(o)
                         \/ IsRelease(o) /\ ReleaseIsLast(o)
                         \/ IsPush(o))'
        BY <1>1 DEF WireInv
    <2>0. o.run \in Runs /\ m.push \in Nat
        BY WireFacts, RequestFacts
    <2>1. CASE IsClaim(o) /\ ClaimIsFirst(o)
        <3>1. host'[o.run] = host[o.run] /\ vm'[o.run] = vm[o.run] /\ landed'[o.run] = landed[o.run]
            <4>1. CASE o.run # m.run
                BY <2>0, <4>1, ServeEffects
            <4>2. CASE o.run = m.run
                <5>1. m.from = "host" /\ m.to = None
                    BY <2>0, <2>1, <4>2, OneOfAKind, WireFacts, RequestFacts
                    DEF ClaimIsFirst, IInv, RunInv
                <5>2. m.push = 0 /\ host[m.run] # "releasing"
                    BY <2>1, <4>2, <5>1, WireFacts DEF ClaimIsFirst, IsRelease
                <5> QED
                    BY <2>0, <4>2, <5>1, <5>2, ServeEffects
            <4> QED
                BY <4>1, <4>2
        <3> QED
            BY <2>1, <3>1 DEF IsClaim, ClaimIsFirst
    <2>2. CASE IsRelease(o) /\ ReleaseIsLast(o)
        <3>1. host'[o.run] \in {"releasing", "held", "killed"}
            <4>1. CASE o.run # m.run
                BY <2>0, <2>2, <4>1, ServeEffects DEF ReleaseIsLast
            <4>2. CASE o.run = m.run
                <5>1. m.to # None
                    BY <2>2, <4>2, OneOfAKind, WireFacts
                <5> QED
                    BY <2>0, <2>2, <4>2, <5>1, ServeEffects DEF ReleaseIsLast
            <4> QED
                BY <4>1, <4>2
        <3>2. code[o.run] = "ok" => code'[o.run] = "ok"
            BY <2>0, ServeEffects DEF IInv, RunInv, Inside
        <3>3. ref' = o.lease => ref' = ref
            <4>1. o.lease = seen[o.run] /\ o.lease # None /\ o.lease \in Commits
                BY <2>0, <2>2 DEF IsRelease, IInv, TypeOK
            <4>2. m.to # o.lease
                BY <1>3, <2>0, <4>1 DEF IInv, SeenInv
            <4> QED
                BY <4>2, ServeEffects
        <3> QED
            BY <1>1, <2>2, <3>1, <3>2, <3>3 DEF IsRelease, ReleaseIsLast
    <2>3. CASE IsPush(o)
        BY <1>1, <2>3 DEF IsPush
    <2> QED
        BY <2>1, <2>2, <2>3 DEF IInv, WireInv
<1> QED
    BY <1>2, <1>5, <1>6, <1>7

\* An accepted request finds no other run of its task at work.
LEMMA ServeKeepsRuns ==
    ASSUME IInv, ~Tolerant, NEW m \in wire, Serve(m)
    PROVE  Exclusive' /\ \A q \in Runs : RunInv(q)'
<1>1. /\ UNCHANGED <<exit, at, sent, unsure>> /\ m.run \in Runs
      /\ m.push \in Nat /\ m.push <= sent[m.run]
    BY ServeEffects, WireFacts, RequestFacts
<1>2. \A q \in Runs : host[q] = "idle" \/ Finished(q) => (host[q] = "idle" \/ Finished(q))'
    BY <1>1, ServeEffects DEF Finished
<1>3. Exclusive'
    BY <1>2 DEF IInv, Exclusive
<1>4. ASSUME NEW q \in Runs PROVE RunInv(q)'
    <2>1. landed'[q] <= sent'[q]
        BY <1>1, ServeEffects DEF IInv, RunInv
    <2>2. (Live(q) /\ ref # None /\ Task[ref.run] = Task[q] => ref.run = q)'
        <3> SUFFICES ASSUME Live(q)', ref' # None, Task[ref'.run] = Task[q]
                     PROVE  ref'.run = q
            OBVIOUS
        <3>1. CASE ref # m.lease
            <4>1. ref' = ref /\ Live(q)
                BY <1>1, <3>1, ServeEffects DEF Live, Holding, Inside
            <4> QED
                BY <4>1 DEF IInv, RunInv
        <3>2. CASE ref = m.lease /\ q # m.run
            <4>1. Live(q) /\ ref' = m.to /\ m.to.run = m.run
                BY <3>2, ServeEffects, WireFacts DEF Live
            <4>2. m.from # "host"
                <5>1. m.from = "host" => host[m.run] \in {"claiming", "failed", "killed"}
                    BY <4>1, WireFacts DEF ClaimIsFirst
                <5>2. ~Finished(q) /\ host[q] # "idle"
                    BY <4>1 DEF IInv, RunInv, Live, Holding, Inside, Finished
                <5> QED
                    BY <1>1, <3>2, <4>1, <5>1, <5>2 DEF IInv, Exclusive, Finished
            <4>3. ref.run = m.run
                BY <3>2, <4>2, WireFacts, RequestFacts
            <4> QED
                BY <1>1, <4>1, <4>3, CommitFacts DEF IInv, RunInv
        <3>3. CASE ref = m.lease /\ q = m.run
            BY <3>3, ServeEffects, WireFacts
        <3> QED
            BY <3>1, <3>2, <3>3
    <2>3. CASE q # m.run
        BY <1>1, <2>1, <2>2, <2>3, ServeEffects DEF IInv, RunInv
    <2>4. CASE q = m.run /\ m.from = "host"
        BY <1>1, <2>1, <2>2, <2>4, WireFacts, ServeEffects DEF IInv, RunInv, Inside
    <2>5. CASE q = m.run /\ m.from = "vm"
        BY <1>1, <2>1, <2>2, <2>5, ServeEffects DEF IInv, RunInv, Inside
    <2> QED
        BY <2>3, <2>4, <2>5, WireFacts, RequestFacts
<1> QED
    BY <1>3, <1>4

\* A release is the last word of its run, and the fence stays where somebody put it.
LEMMA ServeKeepsPromise ==
    ASSUME IInv, ~Tolerant, NEW m \in wire, Serve(m)
    PROVE  ReleasedIsOver' /\ HeldForAReason'
<1>1. /\ UNCHANGED <<exit, seen, unsure>> /\ m.run \in Runs /\ wire' = wire \ {m}
      /\ m.from \in {"host", "vm"}
    BY ServeEffects, WireFacts, RequestFacts
<1>2. ASSUME NEW q \in Runs, host'[q] = "released"
      PROVE  /\ ref'.run # q
             /\ \A o \in wire' : o.run = q => o.lease # ref'
    <2>1. CASE host[q] # "released"
        <3>1. ref' = None /\ host[q] = "releasing"
            BY <1>2, <2>1, ServeEffects
        <3>2. \A o \in wire : o.run = q => o.lease # None
            BY <3>1, CommitFacts, WireFacts, RequestFacts DEF IsRelease, IsPush, ClaimIsFirst
        <3> QED
            BY <1>1, <3>1, <3>2, CommitFacts
    <2>2. CASE host[q] = "released"
        <3>1. /\ ref.run # q
              /\ \A o \in wire : o.run = q => o.lease # ref
            BY <2>2 DEF IInv, ReleasedIsOver
        <3>2. ref' # ref => ref' = m.to /\ m.run # q
            BY <3>1, ServeEffects
        <3>3. ref'.run # q
            BY <3>1, <3>2, WireFacts, CommitFacts
        <3>4. ASSUME NEW o \in wire, o.run = q PROVE o.lease.run = q
            BY <2>2, <3>4, WireFacts, RequestFacts DEF ClaimIsFirst, ReleaseIsLast, IsPush
        <3> QED
            BY <1>1, <3>3, <3>4
    <2> QED
        BY <2>1, <2>2
<1>3. ASSUME NEW q \in Runs, host'[q] \in Over, ref'.run = q
      PROVE  \/ ref'.n > 0 /\ exit[q] # "ok"
             \/ q \in unsure
             \/ seen[q] # ref'
    <2>1. CASE ref' # ref
        <3>1. ref' = m.to /\ m.to # None
            BY <1>3, <2>1, CommitFacts, ServeEffects
        <3>2. m.run = q
            BY <1>3, <3>1, WireFacts
        <3>3. seen[q] # m.to
            BY <3>1 DEF IInv, SeenInv, Issued
        <3> QED
            BY <3>1, <3>3
    <2>2. CASE ref' = ref /\ host[q] \in Over
        BY <1>3, <2>2 DEF IInv, HeldForAReason
    <2>3. CASE ref' = ref /\ host[q] \notin Over
        <3>1. \/ /\ m.to = None /\ m.run = q
              \/ /\ m.from = "host" /\ m.to # None /\ host[q] = "claiming" /\ ref # m.lease
            BY <1>1, <1>3, <2>3, ServeEffects DEF Over
        <3>2. CASE m.to = None /\ m.run = q
            BY <1>3, <2>3, <3>2, ServeEffects, WireFacts, CommitFacts DEF IsRelease
        <3>3. CASE m.from = "host" /\ m.to # None /\ host[q] = "claiming" /\ ref # m.lease
            <4>1. sent[q] = 0 /\ m.run = q
                BY <1>1, <1>3, <2>3, <3>3, ServeEffects DEF IInv, RunInv, Over
            <4>2. ref \in Commits /\ ref.n <= 0
                BY <1>3, <2>3, <4>1, CommitFacts DEF IInv, TypeOK, RefInv, Issued
            <4>3. ref = ClaimOf(q)
                BY <1>3, <2>3, <4>2, CommitFacts
            <4>4. m.to = ClaimOf(q)
                BY <3>3, <4>1, WireFacts DEF IsClaim
            <4> QED
                BY <4>2, <4>3, <4>4, CommitFacts DEF IInv, RefInv, Issued
        <3> QED
            BY <3>1, <3>2, <3>3
    <2> QED
        BY <2>1, <2>2, <2>3
<1> QED
    BY <1>1, <1>2, <1>3 DEF ReleasedIsOver, HeldForAReason

\* A push that goes unanswered changes nothing but what its sender knows.
LEMMA GiveUpKeeps ==
    ASSUME IInv, ~Tolerant, NEW m \in wire, GiveUp(m)
    PROVE  IInv'
<1>1. /\ UNCHANGED <<ref, landed, wire, shown, exit, seen, at, copy, sent>>
      /\ m.run \in Runs /\ unsure' = unsure \cup {m.run}
    BY WireFacts DEF GiveUp, server
<1>2. \/ /\ m.from = "host" /\ UNCHANGED <<vm, code>>
         /\ \/ /\ m.to = None /\ host[m.run] = "releasing"
               /\ host' = [host EXCEPT ![m.run] = "held"]
            \/ /\ m.to # None /\ host[m.run] = "claiming"
               /\ host' = [host EXCEPT ![m.run] = "failed"]
      \/ /\ m.from = "vm" /\ UNCHANGED host /\ vm[m.run] = "pushing"
         /\ vm' = [vm EXCEPT ![m.run] = "exited"] /\ code' = [code EXCEPT ![m.run] = "fail"]
    BY WireFacts, RequestFacts DEF GiveUp, Awaits, Enter, PushFailed
<1>3. TypeOK'
    BY <1>1, <1>2 DEF IInv, TypeOK, Holding, Over, Inside
<1>4. WireInv'
    <2> SUFFICES ASSUME NEW o \in wire
                 PROVE  (\/ IsClaim(o) /\ ClaimIsFirst(o)
                         \/ IsRelease(o) /\ ReleaseIsLast(o)
                         \/ IsPush(o))'
        BY <1>1 DEF WireInv
    <2>0. o.run \in Runs
        BY WireFacts
    <2>1. CASE IsClaim(o) /\ ClaimIsFirst(o)
        BY <1>1, <1>2, <2>0, <2>1 DEF IInv, TypeOK, IsClaim, ClaimIsFirst
    <2>2. CASE IsRelease(o) /\ ReleaseIsLast(o)
        BY <1>1, <1>2, <2>0, <2>2 DEF IInv, TypeOK, IsRelease, ReleaseIsLast, RunInv, Inside
    <2>3. CASE IsPush(o)
        BY <1>1, <2>3 DEF IsPush
    <2> QED
        BY <2>1, <2>2, <2>3 DEF IInv, WireInv
<1>5. \A q \in Runs : host[q] # "idle" <=> host'[q] # "idle"
    BY <1>1, <1>2 DEF IInv, TypeOK
<1>6. OneMaker' /\ RefInv' /\ SeenInv'
    BY <1>1, <1>5, CommitFacts DEF IInv, TypeOK, OneMaker, RefInv, SeenInv, Issued
<1>7. Exclusive'
    BY <1>1, <1>2 DEF IInv, TypeOK, Exclusive, Finished
<1>8. ASSUME NEW q \in Runs PROVE RunInv(q)'
    BY <1>1, <1>2 DEF IInv, TypeOK, RunInv, Live, Holding, Inside
<1>9. ReleasedIsOver' /\ HeldForAReason'
    BY <1>1, <1>2 DEF IInv, TypeOK, ReleasedIsOver, HeldForAReason, Over
<1> QED
    BY <1>3, <1>4, <1>6, <1>7, <1>8, <1>9 DEF IInv

-----------------------------------------------------------------------------
(* The operator, and the whole.                                            *)

\* Breaking a fence leaves no commit to speak of.
LEMMA BreakKeeps ==
    ASSUME IInv, BreakShow \/ BreakPush
    PROVE  IInv'
<1>1. /\ UNCHANGED <<landed, wire, host, exit, seen, vm, code, at, copy, sent, unsure>>
      /\ ref' \in {ref, None} /\ shown' \in {ref, None}
    BY DEF BreakShow, BreakPush, server, job, script
<1>2. TypeOK'
    BY <1>1 DEF IInv, TypeOK
<1>3. WireInv'
    <2> SUFFICES ASSUME NEW o \in wire
                 PROVE  (\/ IsClaim(o) /\ ClaimIsFirst(o)
                         \/ IsRelease(o) /\ ReleaseIsLast(o)
                         \/ IsPush(o))'
        BY <1>1 DEF WireInv
    <2> QED
        BY <1>1 DEF IInv, WireInv, IsClaim, ClaimIsFirst, IsRelease, ReleaseIsLast, IsPush
<1>4. OneMaker' /\ RefInv' /\ SeenInv' /\ Exclusive'
    BY <1>1 DEF IInv, OneMaker, RefInv, SeenInv, Issued, Exclusive, Finished
<1>5. ASSUME NEW q \in Runs PROVE RunInv(q)'
    BY <1>1 DEF IInv, RunInv, Live
<1>6. ReleasedIsOver'
    <2>1. ASSUME NEW q \in Runs, host[q] = "released", NEW o \in wire, o.run = q
          PROVE  o.lease # None
        BY <2>1, WireFacts, RequestFacts, CommitFacts DEF ClaimIsFirst, IsRelease, IsPush
    <2> QED
        BY <1>1, <2>1, CommitFacts DEF IInv, ReleasedIsOver
<1>7. HeldForAReason'
    BY <1>1, CommitFacts DEF IInv, HeldForAReason
<1> QED
    BY <1>2, <1>3, <1>4, <1>5, <1>6, <1>7 DEF IInv

\* The invariant holds at the start.
LEMMA InitInv == Init => IInv
<1> SUFFICES ASSUME Init PROVE IInv
    OBVIOUS
<1>1. TypeOK
    BY CommitFacts DEF Init, TypeOK, Holding, Over, Inside
<1> QED
    BY <1>1, CommitFacts DEF Init, IInv, WireInv, OneMaker, RefInv, SeenInv, Exclusive, RunInv, Live,
       Holding, Inside, ReleasedIsOver, HeldForAReason, Over

\* Every step keeps it.
LEMMA NextInv ==
    ASSUME IInv, ~Tolerant, [Next]_vars
    PROVE  IInv'
<1>1. ASSUME NEW r \in Runs, Claim(r) PROVE IInv'
    BY <1>1, ClaimKeeps
<1>2. ASSUME NEW r \in Runs, Quiet(r) PROVE IInv'
    BY <1>2, QuietType, QuietKeepsServer, QuietKeepsRuns, QuietKeepsPromise DEF IInv
<1>3. ASSUME NEW r \in Runs, SettleAdopt(r) PROVE IInv'
    BY <1>3, SettleKeeps
<1>4. ASSUME NEW r \in Runs, PushFetch(r) PROVE IInv'
    BY <1>4, PushKeeps
<1>5. ASSUME NEW m \in wire, Serve(m) PROVE IInv'
    BY <1>5, ServeEffects, ServeKeepsServer, ServeKeepsRuns, ServeKeepsPromise DEF IInv
<1>6. ASSUME NEW m \in wire, GiveUp(m) PROVE IInv'
    BY <1>6, GiveUpKeeps
<1>7. CASE UNCHANGED vars
    BY <1>7 DEF vars, server, job, script, IInv, TypeOK, WireInv, IsClaim, ClaimIsFirst, IsRelease,
       ReleaseIsLast, IsPush, OneMaker, RefInv, SeenInv, Issued, Exclusive, Finished, RunInv, Live,
       ReleasedIsOver, HeldForAReason
<1> QED
    BY <1>1, <1>2, <1>3, <1>4, <1>5, <1>6, <1>7, BreakKeeps DEF Next, JobStep, ScriptStep, Quiet

\* The state of the fence, of its requests, jobs and scripts is consistent in
\* every reachable state.
THEOREM Invariance == ~Tolerant => (Spec => []IInv)
<1> SUFFICES ASSUME ~Tolerant PROVE Spec => []IInv
    OBVIOUS
<1>1. IInv /\ [Next]_vars => IInv'
    BY NextInv
<1> QED
    BY <1>1, InitInv, PTL DEF Spec

\* A released fence is not the run's again, and nothing of the run can land, from a
\* VM that was left running or from a late request (settleFence, Release).
THEOREM ReleaseIsFinal == ~Tolerant => (Spec => []ReleasedIsOver)
BY Invariance, PTL DEF IInv

\* A fence that was left standing has a reason (settleFence).
THEOREM HeldWithReason == ~Tolerant => (Spec => []HeldForAReason)
BY Invariance, PTL DEF IInv

-----------------------------------------------------------------------------
(* The fence keeps its promise.                                            *)

\* The runs whose script exited well.
Well == {r \in Runs : code[r] = "ok"}

\* What the promise does not see.
LEMMA Stutter ==
    ASSUME UNCHANGED <<ref, landed, shown>>, Well' = Well, Done' = Done
    PROVE  UNCHANGED Promise!vars
BY DEF Promise!vars, Well

\* A job that is over stops for the promise.
LEMMA StopStep ==
    ASSUME NEW r \in Runs, r \notin Done, Done' = Done \cup {r},
           UNCHANGED <<ref, landed, shown>>, Well' = Well
    PROVE  Promise!Next
<1>1. Promise!Stop(r)
    BY DEF Promise!Stop, Well
<1> QED
    BY <1>1 DEF Promise!Next

\* The steps of a job that are no end of it.
LEMMA JobSteps ==
    ASSUME IInv, NEW r \in Runs, JobStep(r)
    PROVE  [Promise!Next]_Promise!vars
<1> USE DEF IInv, TypeOK, Enter, server, job, script, Done, Over, Holding, Well
<1>1. UNCHANGED <<ref, landed, shown>> /\ Well' = Well
    BY DEF JobStep, Claim, SetUpFails, ShellReturns, Interrupt, EndVM, SettleRead, SettleAdopt,
       SettleFails, JobKilled, Send
<1>2. CASE Claim(r) \/ SetUpFails(r) \/ ShellReturns(r) \/ Interrupt(r) \/ EndVM(r)
    <2>1. Done' = Done
        BY <1>2 DEF Claim, SetUpFails, ShellReturns, Interrupt, EndVM
    <2> QED
        BY <1>1, <2>1, Stutter
<1>3. CASE SettleRead(r) \/ SettleAdopt(r) \/ SettleFails(r) \/ JobKilled(r)
    <2>1. Done' = Done \/ (r \notin Done /\ Done' = Done \cup {r})
        BY <1>3 DEF SettleRead, SettleAdopt, SettleFails, JobKilled
    <2> QED
        BY <1>1, <2>1, Stutter, StopStep
<1> QED
    BY <1>2, <1>3 DEF JobStep

\* The steps of a script: it may do well.
LEMMA ScriptSteps ==
    ASSUME IInv, ~Tolerant, NEW r \in Runs, ScriptStep(r)
    PROVE  [Promise!Next]_Promise!vars
<1> USE DEF IInv, TypeOK, server, job, script, Done
<1>1. UNCHANGED <<ref, landed, shown>> /\ Done' = Done
    BY DEF ScriptStep, Boot, Collect, PushRead, PushFetch, PushFetchFails, ScriptExits
<1>2. CASE ScriptExits(r, "ok")
    <2>1. r \notin Well /\ Well' = Well \cup {r}
        BY <1>2 DEF ScriptExits, Well, RunInv, Inside
    <2>2. Promise!FinishWell(r)
        BY <1>1, <2>1 DEF Promise!FinishWell, Well
    <2> QED
        BY <2>2 DEF Promise!Next
<1>3. CASE ~ScriptExits(r, "ok")
    <2>1. code' = code \/ (code' = [code EXCEPT ![r] = "fail"] /\ vm[r] \in Inside)
                       \/ (code' = [code EXCEPT ![r] = "limit"] /\ vm[r] \in Inside)
        BY <1>3 DEF ScriptStep, Boot, Collect, PushRead, PushFetch, PushFetchFails, ScriptExits,
           PushWith, PushFailed, Inside
    <2>2. Well' = Well
        BY <2>1 DEF Well, RunInv
    <2> QED
        BY <1>1, <2>2, Stutter
<1> QED
    BY <1>2, <1>3

\* An accepted request takes the fence, lands an effect or gives the fence back.
LEMMA ServeStep ==
    ASSUME IInv, ~Tolerant, NEW m \in wire, Serve(m)
    PROVE  [Promise!Next]_Promise!vars
<1>1. m.run \in Runs /\ m.push \in 0..MaxPushes /\ shown' = shown /\ UNCHANGED <<exit, sent>>
    BY ServeEffects, WireFacts, RequestFacts
<1>2. Well' = Well
    BY ServeEffects DEF Well, IInv, RunInv, Inside
<1>3. CASE ref # m.lease
    <2>1. ref' = ref /\ landed' = landed
        BY <1>3 DEF Serve
    <2>2. Done' = Done \/ (m.run \notin Done /\ Done' = Done \cup {m.run})
        BY <1>1, <1>3, ServeEffects DEF Done, Over
    <2> QED
        BY <1>1, <1>2, <2>1, <2>2, Stutter, StopStep
<1>4. CASE ref = m.lease
    <2>1. Done' = Done
        BY <1>1, <1>4, ServeEffects DEF Done, Over
    <2>2. ref' = m.to /\ landed' = IF m.push = 0 THEN landed ELSE [landed EXCEPT ![m.run] = m.push]
        BY <1>4 DEF Serve
    <2>3. CASE m.from = "host" /\ m.to # None
        <3>1. m.lease = None /\ landed[m.run] = 0 /\ m.push = 0 /\ m.to.run = m.run
            BY <2>3, WireFacts DEF IsClaim, ClaimIsFirst
        <3>2. Promise!Take(m.run)
            BY <1>1, <1>2, <1>4, <2>1, <2>2, <3>1, CommitFacts DEF Promise!Take, Well
        <3> QED
            BY <1>1, <3>2 DEF Promise!Next
    <2>4. CASE m.to = None
        <3>1. /\ m.push = 0 /\ ref.run = m.run /\ ref # None
              /\ ref.n = 0 \/ code[m.run] = "ok"
              /\ host[m.run] \in {"releasing"} \cup Over
            BY <1>4, <2>4, WireFacts DEF IsRelease, ReleaseIsLast, Over
        <3>2. landed[m.run] = 0 \/ m.run \in Well
            BY <1>1, <3>1 DEF IInv, RefInv, Well
        <3>3. Promise!Leave(m.run)
            BY <1>1, <1>2, <2>1, <2>2, <2>4, <3>1, <3>2, CommitFacts
            DEF Promise!Leave, Well, Done
        <3> QED
            BY <1>1, <3>3 DEF Promise!Next
    <2>5. CASE m.from = "vm"
        <3>1. /\ m.lease.run = m.run /\ m.lease.n < m.push /\ m.push # 0
              /\ m.to.run = m.run
            BY <2>5, WireFacts, RequestFacts DEF IsPush
        <3>2. landed[m.run] = ref.n
            BY <1>1, <1>4, <3>1, CommitFacts DEF IInv, RefInv
        <3>3. m.push \in 1..MaxPushes /\ m.push > landed[m.run]
            BY <1>1, <1>4, <3>1, <3>2, CommitFacts
        <3>4. Promise!Land(m.run)
            BY <1>1, <1>2, <1>4, <2>1, <2>2, <3>1, <3>3 DEF Promise!Land, Well
        <3> QED
            BY <1>1, <3>4 DEF Promise!Next
    <2> QED
        BY <2>3, <2>4, <2>5, WireFacts, RequestFacts
<1> QED
    BY <1>3, <1>4

\* Giving up is an end of the job, or nothing.
LEMMA GiveUpStep ==
    ASSUME IInv, ~Tolerant, NEW m \in wire, GiveUp(m)
    PROVE  [Promise!Next]_Promise!vars
<1>1. m.run \in Runs /\ UNCHANGED <<ref, landed, shown>>
    BY WireFacts DEF GiveUp, server
<1>2. Well' = Well
    BY <1>1, WireFacts DEF GiveUp, Awaits, PushFailed, Well, IInv, TypeOK, RunInv, Inside
<1>3. Done' = Done \/ (m.run \notin Done /\ Done' = Done \cup {m.run})
    BY <1>1 DEF GiveUp, Awaits, Enter, Done, Over, IInv, TypeOK
<1> QED
    BY <1>1, <1>2, <1>3, Stutter, StopStep

\* The operator looks, and breaks what was shown or lets it be.
LEMMA OperatorStep ==
    ASSUME IInv, BreakShow \/ BreakPush
    PROVE  Promise!Next
<1>1. UNCHANGED <<landed, host, code>> /\ Well' = Well /\ Done' = Done
    BY DEF BreakShow, BreakPush, server, job, script, Well, Done
<1>2. ref # None => ref.run \in Runs /\ landed[ref.run] = ref.n
    BY CommitFacts DEF IInv, TypeOK, RefInv
<1>3. CASE BreakShow
    <2>1. Promise!Look(ref.run)
        BY <1>1, <1>2, <1>3 DEF BreakShow, server, Promise!Look, Well
    <2> QED
        BY <1>2, <1>3, <2>1 DEF BreakShow, Promise!Next
<1>4. CASE BreakPush /\ ref = shown
    <2>1. Promise!Break(ref.run)
        BY <1>1, <1>2, <1>4, CommitFacts DEF BreakPush, Promise!Break, Well
    <2> QED
        BY <1>2, <1>4, <2>1 DEF BreakPush, Promise!Next
<1>5. CASE BreakPush /\ ref # shown
    <2>1. Promise!Forget
        BY <1>1, <1>5, CommitFacts DEF BreakPush, Promise!Forget, Well
    <2> QED
        BY <2>1 DEF Promise!Next
<1> QED
    BY <1>3, <1>4, <1>5

\* The fence implements the promise: an effect lands only for the owner, and an
\* owner with a landed effect makes way only after a clean finish or a break of
\* the commit that was shown.
THEOREM KeepsThePromise == ~Tolerant => (Spec => Implements)
<1> SUFFICES ASSUME ~Tolerant PROVE Spec => Implements
    OBVIOUS
<1>1. Init => Promise!Init
    BY CommitFacts DEF Init, Promise!Init, Done, Over
<1>2. IInv /\ [Next]_vars => [Promise!Next]_Promise!vars
    <2> SUFFICES ASSUME IInv, [Next]_vars PROVE [Promise!Next]_Promise!vars
        OBVIOUS
    <2>1. CASE UNCHANGED vars
        BY <2>1, Stutter DEF vars, server, job, script, Well, Done
    <2> QED
        BY <2>1, JobSteps, ScriptSteps, ServeStep, GiveUpStep, OperatorStep DEF Next
<1> QED
    BY <1>1, <1>2, Invariance, PTL DEF Spec, Implements, Promise!Spec

-----------------------------------------------------------------------------
(* Whatever the script tolerates.                                          *)

\* The types, and what keeps them where kranq_push goes on after a failure.
Typed ==
    /\ TypeOK
    /\ \A r \in Runs : /\ vm[r] = "checking" => sent[r] < MaxPushes
                       /\ vm[r] = "exited" => code[r] # "none"

\* A request that makes a commit makes its own run's, on top of none or of one of
\* its own task.
OnOwnTask ==
    \A m \in wire : m.to # None =>
        m.to.run = m.run /\ (m.lease = None \/ Task[m.lease.run] = Task[m.run])

\* A record that is fetched late, or taken over from an earlier call, still names the
\* task that the new commit is for.
LEMMA PushIsForTask ==
    ASSUME Typed, NEW r \in Runs, NEW fetched \in Commits \cup {None},
           vm[r] = "checking", PushWith(r, fetched)
    PROVE  \/ PushFailed(r) /\ UNCHANGED <<sent, wire>>
           \/ /\ vm' = [vm EXCEPT ![r] = "pushing"] /\ code' = code
              /\ sent' = [sent EXCEPT ![r] = @ + 1] /\ sent[r] + 1 \in 0..MaxPushes
              /\ \E m \in Requests :
                   /\ wire' = wire \cup {m} /\ m.run = r
                   /\ m.to # None => m.to.run = r /\ Task[m.lease.run] = Task[r]
<1>0. /\ at[r] \in Commits /\ sent[r] \in 0..MaxPushes /\ sent[r] < MaxPushes
      /\ sent \in [Runs -> 0..MaxPushes]
    BY DEF Typed, TypeOK
<1>1. CASE NewTask(r, fetched) \/ (~HasObject(r, at[r], fetched) /\ ~Tolerant)
    BY <1>1 DEF PushWith
<1>2. CASE ~(NewTask(r, fetched) \/ (~HasObject(r, at[r], fetched) /\ ~Tolerant))
    <2> DEFINE n == sent[r] + 1
               to == IF HasObject(r, at[r], fetched) THEN Commit(r, n) ELSE None
               m == [from |-> "vm", run |-> r, lease |-> at[r], to |-> to, push |-> n]
    <2>1. n \in 0..MaxPushes
        BY <1>0, CommitFacts
    <2>2. to \in Commits \cup {None} /\ (to # None => HasObject(r, at[r], fetched) /\ to.run = r)
        BY <2>1, CommitFacts
    <2>3. to # None => Task[at[r].run] = Task[r]
        BY <1>2, <2>2 DEF HasObject, NewTask
    <2>4. /\ vm' = [vm EXCEPT ![r] = "pushing"] /\ code' = code
          /\ sent' = [sent EXCEPT ![r] = @ + 1] /\ wire' = wire \cup {m}
        BY <1>2 DEF PushWith, Send
    <2>5. /\ m.run = r /\ m.to = to /\ m.lease = at[r]
          /\ m \in Requests
        BY <1>0, <2>1, <2>2 DEF Requests
    <2> HIDE DEF m, to
    <2> QED
        BY <2>1, <2>2, <2>3, <2>4, <2>5
<1> QED
    BY <1>1, <1>2

\* A failed call is where its caller goes on, or the end of the script.
LEMMA FailedType ==
    ASSUME Typed, NEW r \in Runs, PushFailed(r)
    PROVE  \/ vm' = [vm EXCEPT ![r] = "ready"] /\ code' = code
           \/ vm' = [vm EXCEPT ![r] = "exited"] /\ code' = [code EXCEPT ![r] = "fail"]
BY DEF PushFailed

\* The steps of a job.
LEMMA JobTyped ==
    ASSUME Typed, OnOwnTask, NEW r \in Runs, JobStep(r)
    PROVE  Typed' /\ OnOwnTask'
<1> USE DEF Typed, TypeOK, Holding, Over, Inside, Enter, server, job, script
<1>1. CASE Claim(r)
    <2> DEFINE m == [from |-> "host", run |-> r, lease |-> None, to |-> ClaimOf(r), push |-> 0]
    <2>1. m \in Requests /\ m.to.run = m.run /\ m.lease = None
        BY CommitFacts DEF Requests
    <2>2. wire' = wire \cup {m}
        BY <1>1 DEF Claim, Send
    <2> HIDE DEF m
    <2>3. OnOwnTask'
        BY <2>1, <2>2 DEF OnOwnTask
    <2>4. Typed'
        BY <1>1, <2>1, <2>2 DEF Claim
    <2> QED
        BY <2>3, <2>4
<1>2. CASE SettleAdopt(r)
    <2> DEFINE m == [from |-> "host", run |-> r, lease |-> seen[r], to |-> None, push |-> 0]
    <2>1. m \in Requests /\ m.to = None
        BY CommitFacts DEF Requests
    <2>2. wire' \in {wire, wire \cup {m}}
        BY <1>2 DEF SettleAdopt, Send
    <2> HIDE DEF m
    <2>3. OnOwnTask'
        BY <2>1, <2>2 DEF OnOwnTask
    <2>4. Typed'
        BY <1>2, <2>1, <2>2 DEF SettleAdopt
    <2> QED
        BY <2>3, <2>4
<1>3. CASE SetUpFails(r) \/ ShellReturns(r) \/ Interrupt(r) \/ EndVM(r) \/ SettleRead(r)
           \/ SettleFails(r) \/ JobKilled(r)
    <2>1. OnOwnTask'
        BY <1>3 DEF OnOwnTask, SetUpFails, ShellReturns, Interrupt, EndVM, SettleRead,
           SettleFails, JobKilled
    <2>2. CASE SetUpFails(r) \/ ShellReturns(r) \/ Interrupt(r)
        BY <2>1, <2>2 DEF SetUpFails, ShellReturns, Interrupt
    <2>3. CASE EndVM(r)
        BY <2>1, <2>3 DEF EndVM
    <2>4. CASE SettleRead(r)
        BY <2>1, <2>4 DEF SettleRead
    <2>5. CASE SettleFails(r) \/ JobKilled(r)
        BY <2>1, <2>5 DEF SettleFails, JobKilled
    <2> QED
        BY <1>3, <2>2, <2>3, <2>4, <2>5
<1> QED
    BY <1>1, <1>2, <1>3 DEF JobStep

\* The steps of a script, strict or tolerant.
LEMMA ScriptTyped ==
    ASSUME Typed, OnOwnTask, NEW r \in Runs, ScriptStep(r)
    PROVE  Typed' /\ OnOwnTask'
<1> USE DEF Typed, TypeOK, Inside, server, job, script
<1>1. ASSUME PushFailed(r), UNCHANGED <<server, shown, job, sent, unsure>>,
             at' = at, copy' \in [Runs -> Commits \cup {None}], vm[r] \in Inside
      PROVE  Typed' /\ OnOwnTask'
    BY <1>1, FailedType DEF OnOwnTask
<1>2. ASSUME NEW fetched \in Commits \cup {None}, vm[r] = "checking", PushWith(r, fetched),
             UNCHANGED <<ref, landed, shown, job, at, unsure>>,
             copy' \in [Runs -> Commits \cup {None}]
      PROVE  Typed' /\ OnOwnTask'
    <2>1. CASE PushFailed(r) /\ UNCHANGED <<sent, wire>>
        BY <1>1, <1>2, <2>1
    <2>2. CASE /\ vm' = [vm EXCEPT ![r] = "pushing"] /\ code' = code
               /\ sent' = [sent EXCEPT ![r] = @ + 1] /\ sent[r] + 1 \in 0..MaxPushes
               /\ \E m \in Requests :
                    /\ wire' = wire \cup {m} /\ m.run = r
                    /\ m.to # None => m.to.run = r /\ Task[m.lease.run] = Task[r]
        <3>1. PICK m \in Requests :
                    /\ wire' = wire \cup {m} /\ m.run = r
                    /\ m.to # None => m.to.run = r /\ Task[m.lease.run] = Task[r]
            BY <2>2
        <3>2. OnOwnTask'
            BY <3>1 DEF OnOwnTask
        <3>3. Typed'
            BY <1>2, <2>2, <3>1
        <3> QED
            BY <3>2, <3>3
    <2> QED
        BY <1>2, <2>1, <2>2, PushIsForTask
<1>3. CASE Boot(r) \/ Collect(r)
    BY <1>3 DEF Boot, Collect, OnOwnTask
<1>4. CASE PushRead(r)
    <2>1. CASE PushFailed(r) /\ UNCHANGED at
        BY <1>1, <1>4, <2>1 DEF PushRead
    <2>2. CASE ~(PushFailed(r) /\ UNCHANGED at)
        BY <1>4, <2>2 DEF PushRead, OnOwnTask
    <2> QED
        BY <2>1, <2>2
<1>5. CASE PushFetch(r)
    BY <1>2, <1>5 DEF PushFetch
<1>6. CASE PushFetchFails(r)
    <2>1. CASE Tolerant
        BY <1>2, <1>6, <2>1 DEF PushFetchFails
    <2>2. CASE ~Tolerant
        BY <1>1, <1>6, <2>2 DEF PushFetchFails
    <2> QED
        BY <2>1, <2>2
<1>7. CASE \E c \in {"ok", "limit", "fail"} : ScriptExits(r, c)
    BY <1>7 DEF ScriptExits, OnOwnTask
<1> QED
    BY <1>3, <1>4, <1>5, <1>6, <1>7 DEF ScriptStep

\* The server and the network.
LEMMA ServerTyped ==
    ASSUME Typed, OnOwnTask, NEW m \in wire, Serve(m) \/ GiveUp(m)
    PROVE  Typed' /\ OnOwnTask'
<1> USE DEF Typed, TypeOK
<1>1. /\ m \in Requests /\ m.run \in Runs /\ m.to \in Commits \cup {None}
      /\ m.push \in 0..MaxPushes
    BY RequestFacts
<1>2. /\ UNCHANGED <<shown, exit, seen, at, copy, sent>>
      /\ wire' \subseteq wire /\ unsure' \subseteq Runs
      /\ ref' \in {ref, m.to} /\ landed' \in [Runs -> 0..MaxPushes]
    BY <1>1 DEF Serve, GiveUp, server
<1>3. \/ UNCHANGED <<host, vm, code>>
      \/ /\ UNCHANGED <<vm, code>>
         /\ \E pc \in {"released", "held", "working", "refused", "failed"} : Enter(m.run, pc)
      \/ UNCHANGED <<host, code>> /\ vm' = [vm EXCEPT ![m.run] = "ready"]
      \/ /\ UNCHANGED host /\ vm' = [vm EXCEPT ![m.run] = "exited"]
         /\ code' = [code EXCEPT ![m.run] = "fail"]
    BY <1>1 DEF Serve, GiveUp, ToHost, ToScript, PushFailed, server
<1>4. /\ host' \in [Runs -> {"idle", "claiming"} \cup Holding \cup Over]
      /\ \A r \in Runs : host'[r] \in {"adopting", "releasing"} => seen[r] # None
    BY <1>1, <1>3 DEF Enter, Holding, Over
<1>5. /\ vm' \in [Runs -> {"off", "exited", "gone"} \cup Inside]
      /\ code' \in [Runs -> {"none", "ok", "limit", "fail"}]
      /\ \A r \in Runs : /\ vm'[r] \in {"checking", "pushing"} => at[r] # None
                         /\ vm'[r] = "checking" => sent[r] < MaxPushes
                         /\ vm'[r] = "exited" => code'[r] # "none"
    BY <1>1, <1>3 DEF Inside
<1>6. OnOwnTask'
    BY <1>2 DEF OnOwnTask
<1>7. Typed'
    BY <1>1, <1>2, <1>4, <1>5
<1> QED
    BY <1>6, <1>7

\* Every step keeps both.
LEMMA TypedStep ==
    ASSUME Typed, OnOwnTask, [Next]_vars
    PROVE  Typed' /\ OnOwnTask'
<1>1. CASE BreakShow \/ BreakPush \/ UNCHANGED vars
    <2>1. /\ UNCHANGED <<landed, wire, host, exit, seen, vm, code, at, copy, sent, unsure>>
          /\ ref' \in {ref, None} /\ shown' \in {ref, shown, None}
        BY <1>1 DEF BreakShow, BreakPush, vars, server, job, script
    <2> QED
        BY <2>1 DEF Typed, TypeOK, OnOwnTask
<1> QED
    BY <1>1, JobTyped, ScriptTyped, ServerTyped DEF Next

\* They hold in every reachable state, of strict scripts and tolerant ones.
LEMMA TypedHolds == Spec => [](Typed /\ OnOwnTask)
<1>1. Init => Typed /\ OnOwnTask
    BY CommitFacts DEF Init, Typed, TypeOK, OnOwnTask, Holding, Over, Inside
<1>2. Typed /\ OnOwnTask /\ [Next]_vars => (Typed /\ OnOwnTask)'
    BY TypedStep
<1> QED
    BY <1>1, <1>2, PTL DEF Spec

\* Every variable keeps its type.
THEOREM TypeCorrect == Spec => []TypeOK
<1>1. Typed => TypeOK
    BY DEF Typed
<1> QED
    BY <1>1, TypedHolds, PTL

\* A fence that stands is never put under the name of another task, not by a script
\* that goes on with what an earlier call fetched either: it can only be deleted.
KeepsTask == ref # None /\ ref' # None => Task[ref'.run] = Task[ref.run]

\* kranq_push checks the record it fetched, not the commit it leases (BuildScript,
\* kranq_push): that suffices for this much, whatever fails and is tolerated.
THEOREM FenceKeepsTask == Spec => [][KeepsTask]_vars
<1>1. Typed /\ OnOwnTask /\ [Next]_vars => [KeepsTask]_vars
    <2> SUFFICES ASSUME OnOwnTask, Next, ref # None, ref' # None
                 PROVE  Task[ref'.run] = Task[ref.run]
        BY DEF KeepsTask
    <2>1. CASE ref' = ref
        BY <2>1
    <2>2. CASE ref' # ref
        <3>1. PICK m \in wire : Serve(m)
            BY <2>2 DEF Next, JobStep, ScriptStep, Claim, SetUpFails, ShellReturns, Interrupt,
               EndVM, SettleRead, SettleAdopt, SettleFails, JobKilled, Boot, Collect, PushRead,
               PushFetch, PushFetchFails, ScriptExits, GiveUp, BreakShow, BreakPush, server
        <3>2. ref = m.lease /\ ref' = m.to
            BY <2>2, <3>1 DEF Serve
        <3> QED
            BY <3>2 DEF OnOwnTask
    <2> QED
        BY <2>1, <2>2
<1> QED
    BY <1>1, TypedHolds, PTL DEF Spec

=============================================================================
