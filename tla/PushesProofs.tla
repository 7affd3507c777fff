---------------------------- MODULE PushesProofs ----------------------------
(***************************************************************************)
(* Theorems about pushes that run tasks, for any number of pushes, of      *)
(* commits, of names and of troubles.                                      *)
(***************************************************************************)
EXTENDS Pushes, TLAPS

-----------------------------------------------------------------------------
(* The inductive invariant.                                                *)

\* A push that git has accepted, and a name and a result that only one of those
\* has to do with.
Began(p) == hook[p].pc \notin {"idle", "sent", "uptodate", "declined"}
Sole(p) == \A q \in Pushes \ {p} :
               Began(q) => Run(q) # Run(p) /\ hook[q].ref # ResultRef(p)

\* Before a task is submitted there is none, and nobody has heard of it.
StartInv(p) ==
    /\ ~Began(p) \/ hook[p].pc = "moved" =>
           task[p] = NoTask /\ job[p] = "none" /\ told[p] = Unheard
    /\ hook[p].pc = "sent" \/ Began(p) => hook[p].commit \in Commits

\* A verdict once read is the record's for good, unless the task was cancelled.
RecordInv(p) ==
    /\ task[p].status = "failed" <=> task[p].exit = 1
    /\ job[p] = "runs" => task[p].status \in {"running", "cancelled"}
    /\ job[p] = "listed" => task[p].status \in {"queued", "cancelled"}
    /\ hook[p].pc \notin {"read", "published", "marked"} => hook[p].final = Unread
    /\ hook[p].final.status \in Settled =>
           hook[p].final.status = task[p].status /\ hook[p].final.exit = task[p].exit
    /\ hook[p].final.status = "failed" <=> hook[p].final.exit = 1
    /\ hook[p].final.status = "succeeded" => hook[p].final.result = task[p].result
    /\ told[p].status \in Final => hook[p].pc \in {"done", "uncleared", "dead", "asked"}
    /\ told[p].status \in Settled => told[p] = Marker(task[p])
    /\ told[p].status = "failed" <=> told[p].exit = 1

\* What a task that succeeded has left, unless it was swept or pushed over.
ResultInv(p) ==
    Sole(p) /\ task[p].status = "succeeded" /\ task[p].result =>
        \/ refs[ResultRef(p)] = Product(p, task[p].attempts)
        \/ refs[ResultRef(p)] = None /\ p \in aged

\* Who made the marker of a run: a push that landed on it, or one that earned it.
Pushed(q, run) == Began(q) /\ hook[q].ref = OKRef(run) /\ refs[OKRef(run)] = hook[q].commit

Marked(q, run) ==
    /\ Run(q) = run /\ task[q].status = "succeeded"
    /\ Sole(q) => refs[OKRef(run)] \in {hook[q].commit, Product(q, task[q].attempts)}

\* A run's refs are somebody's.
RunInv(run) ==
    /\ refs[TaskRef(run)] # None => \E q \in Pushes : Began(q) /\ Run(q) = run
    /\ refs[OKRef(run)] # None => \E q \in Pushes : Pushed(q, run) \/ Marked(q, run)

\* What the run's own name can point at until its hook publishes.
NameInv(p) ==
    Began(p) /\ Sole(p) =>
        /\ hook[p].pc \in {"moved", "submitted", "retained", "named", "released", "swept", "read"}
               => refs[TaskRef(Run(p))] \in {None, hook[p].commit}
        /\ hook[p].pc = "published" /\ hook[p].final.status = "succeeded"
               => refs[TaskRef(Run(p))]
                      \in {None, hook[p].commit, Product(p, task[p].attempts)}

\* What it does point at, if no sweep and no failing command was in the way.
Made(p) == IF task[p].result THEN Product(p, task[p].attempts) ELSE hook[p].commit

DeliveryInv(p) ==
    Began(p) /\ Sole(p) /\ Fresh(p) /\ ~hook[p].failed =>
        /\ hook[p].pc \in {"moved", "submitted"} /\ hook[p].ref = TaskRef(Run(p))
               => refs[TaskRef(Run(p))] = hook[p].commit
        /\ hook[p].pc \in {"retained", "named"} => hook[p].ref # TaskRef(Run(p))
        /\ hook[p].pc \in {"named", "released", "swept", "read"}
               => refs[TaskRef(Run(p))] = hook[p].commit
        /\ hook[p].pc = "published" /\ hook[p].final.status = "succeeded"
               => refs[TaskRef(Run(p))] = Made(p)
        /\ (\/ hook[p].pc = "marked" /\ hook[p].final.status = "succeeded"
            \/ hook[p].pc = "done" /\ told[p].status = "succeeded")
               => refs[TaskRef(Run(p))] = Made(p) /\ refs[OKRef(Run(p))] = Made(p)

IInv == /\ TypeOK
        /\ \A p \in Pushes : /\ StartInv(p) /\ RecordInv(p) /\ ResultInv(p)
                             /\ NameInv(p) /\ DeliveryInv(p)
        /\ \A run \in Runs : RunInv(run)
        /\ AnonIsCleared

-----------------------------------------------------------------------------
(* Refs and names.                                                         *)

Hooks == [pc : {"idle", "sent"} \cup Received \cup Over, ref : Refs,
          commit : Commits \cup {None}, old : Objects \cup {None}, detach : BOOLEAN,
          failed : BOOLEAN,
          final : [status : Statuses, exit : 0..1, result : BOOLEAN]]

Records == [status : Statuses, exit : 0..1, result : BOOLEAN, attempts : Nat]
Tolds == [status : Statuses \cup {"refused"}, exit : {0, 1, 65}]

\* What the invariant says of the types.
LEMMA TypeFacts ==
    ASSUME IInv
    PROVE  /\ refs \in [Refs -> Objects \cup {None}] /\ hook \in [Pushes -> Hooks]
           /\ \A p \in Pushes : hook[p].ref \in Targets(p)
           /\ task \in [Pushes -> Records] /\ job \in [Pushes -> {"none", "listed", "runs"}]
           /\ told \in [Pushes -> Tolds] /\ aged \subseteq Pushes
           /\ trouble \in 0..MaxTrouble
<1> QED  BY DEF IInv, TypeOK, Hooks, Records, Tolds

\* Each ref is of one kind and has one name.
LEMMA RefFacts ==
    /\ AnonRef \in Refs /\ AnonRef[1] = "tasks"
    /\ \A run \in Runs : /\ TaskRef(run) \in Refs /\ OKRef(run) \in Refs
                         /\ TaskRef(run)[1] = "task" /\ TaskRef(run)[2] = run
                         /\ OKRef(run)[1] = "ok" /\ OKRef(run)[2] = run
    /\ \A p \in Pushes : /\ SrcRef(p) \in Refs /\ ResultRef(p) \in Refs /\ RunBranch(p) \in Refs
                         /\ SrcRef(p)[1] = "src" /\ RunBranch(p)[1] = "kranq"
                         /\ ResultRef(p)[1] = "result" /\ ResultRef(p)[2] = p
                         /\ p \in Runs
<1> QED  BY DEF AnonRef, TaskRef, OKRef, SrcRef, ResultRef, RunBranch, Refs, Runs, OfTasks

\* What a push's target makes of its run's name.
LEMMA TargetFacts ==
    ASSUME NEW p \in Pushes, NEW ref \in Targets(p)
    PROVE  /\ ref \in Refs /\ RunName(p, ref) \in Runs /\ ref # ResultRef(p)
           /\ ref[1] = "tasks" => ref = AnonRef
           /\ ref[1] = "task" => ref = TaskRef(RunName(p, ref))
           /\ ref[1] = "ok" => ref = OKRef(RunName(p, ref))
<1>1. /\ ref \in Refs /\ (ref = AnonRef \/ (ref[1] \in OfTasks => ref[2] # p))
  BY RefFacts, OpenAssumption DEF Targets
<1>2. CASE ref = AnonRef
  <2>1. RunName(p, ref) = p /\ ref[1] = "tasks"
    BY <1>2, RefFacts DEF RunName
  <2> QED  BY <1>1, <1>2, <2>1, RefFacts
<1>3. CASE ref \in {"heads"} \X Branches
  <2>1. ref[1] = "heads" /\ ref[2] \in Branches /\ ref # AnonRef
    BY <1>3 DEF AnonRef
  <2>2. RunName(p, ref) = RunOf[ref[2]]
    BY <2>1 DEF RunName
  <2> QED  BY <1>1, <2>1, <2>2, NamesAssumption, RefFacts DEF Runs
<1>4. CASE ref \in {"task", "ok"} \X Runs
  <2> PICK kind \in {"task", "ok"}, run \in Runs : ref = <<kind, run>>
    BY <1>4
  <2>1. ref[1] = kind /\ ref[2] = run /\ ref # AnonRef
    BY DEF AnonRef
  <2>2. RunName(p, ref) = run
    BY <2>1 DEF RunName
  <2> QED  BY <1>1, <2>1, <2>2, RefFacts DEF TaskRef, OKRef
<1>5. CASE ref \in OfTasks \X Pushes
  <2> PICK kind \in OfTasks, q \in Pushes : ref = <<kind, q>>
    BY <1>5
  <2>1. ref[1] = kind /\ ref[2] = q /\ ref # AnonRef /\ ref[1] # "heads"
    BY DEF AnonRef, OfTasks
  <2>2. RunName(p, ref) = q
    BY <2>1 DEF RunName
  <2>3. q # p
    BY <1>1, <2>1
  <2> QED  BY <1>1, <2>1, <2>2, <2>3, RefFacts DEF OfTasks, Runs
<1> QED  BY <1>1, <1>2, <1>3, <1>4, <1>5 DEF Refs

\* The same of a push's hook.
LEMMA RunFacts ==
    ASSUME IInv, NEW p \in Pushes
    PROVE  /\ hook[p].ref \in Refs /\ Run(p) \in Runs /\ hook[p].ref # ResultRef(p)
           /\ hook[p].ref[1] = "tasks" => hook[p].ref = AnonRef
           /\ hook[p].ref[1] = "task" => hook[p].ref = TaskRef(Run(p))
           /\ hook[p].ref[1] = "ok" => hook[p].ref = OKRef(Run(p))
<1>1. hook[p].ref \in Targets(p)
  BY TypeFacts
<1> QED  BY <1>1, TargetFacts DEF Run

\* A push and its name that are young enough lose nothing to a sweep.
LEMMA FreshFacts ==
    ASSUME IInv, NEW p \in Pushes
    PROVE  /\ ResultRef(p) \in Expired => p \in aged
           /\ Fresh(p) => /\ ResultRef(p) \notin Expired
                          /\ TaskRef(Run(p)) \notin Expired /\ OKRef(Run(p)) \notin Expired
<1>1. p \notin Low
  BY NamesAssumption, DistinctAssumption
<1> QED  BY <1>1, RunFacts, RefFacts DEF Expired, Fresh

-----------------------------------------------------------------------------
(* A step of one push or of its task.                                      *)

\* Nothing of the others changes, and nothing about p that is settled.
Steady(p) ==
    /\ \A q \in Pushes \ {p} : /\ hook'[q] = hook[q] /\ task'[q] = task[q]
                               /\ job'[q] = job[q] /\ told'[q] = told[q]
    /\ Began(p) => /\ Began(p)' /\ hook'[p].ref = hook[p].ref
                   /\ hook'[p].commit = hook[p].commit
    /\ task[p].status = "succeeded" => task'[p] = task[p]
    /\ aged \subseteq aged'

\* A sweep deletes what has expired; anything else is p's own.
Mine(p) ==
    \A ref \in Refs : \/ refs'[ref] = refs[ref]
                      \/ ref \in Expired /\ refs'[ref] = None
                      \/ ref[1] \in {"tasks", "heads", "src", "kranq"}
                      \/ /\ Began(p)'
                         /\ ref \in {TaskRef(Run(p)'), OKRef(Run(p)'), ResultRef(p), hook'[p].ref}

\* The pass marker is pushed, or made from what the run's own name points at.
Earned(p) ==
    \/ refs'[OKRef(Run(p)')] \in {None, refs[OKRef(Run(p)')]}
    \/ Pushed(p, Run(p))'
    \/ /\ task'[p].status = "succeeded"
       /\ Sole(p)' => refs'[OKRef(Run(p)')] \in {hook'[p].commit, Product(p, task'[p].attempts)}

\* The landing pad is cleared by who landed there.
Clears(p) ==
    refs'[AnonRef] # None =>
        \/ hook'[p].ref = AnonRef /\ hook'[p].pc \in Received \cup {"dead", "uncleared"}
        \/ /\ refs[AnonRef] # None
           /\ ~(hook[p].ref = AnonRef /\ hook[p].pc \in Received \cup {"dead", "uncleared"})

\* Who has its name for itself had it before.
LEMMA SoleBefore ==
    ASSUME NEW p \in Pushes, NEW q \in Pushes, Steady(p), Began(q), Sole(q)'
    PROVE  /\ Sole(q) /\ Run(q)' = Run(q)
           /\ q # p /\ Began(p)' => Run(p)' # Run(q) /\ hook'[p].ref # ResultRef(q)
<1>1. \A r \in Pushes : Began(r) => Began(r)' /\ Run(r)' = Run(r) /\ hook'[r].ref = hook[r].ref
  BY DEF Steady, Began, Run
<1> QED  BY <1>1 DEF Sole, ResultRef

\* What a step of p leaves of the refs of another push.
LEMMA OthersRefs ==
    ASSUME IInv, NEW p \in Pushes, NEW q \in Pushes \ {p}, Steady(p), Mine(p),
           hook'[p].ref \in Targets(p), Began(q), Sole(q)'
    PROVE  /\ \/ refs'[ResultRef(q)] = refs[ResultRef(q)]
              \/ q \in aged /\ refs'[ResultRef(q)] = None
           /\ refs'[TaskRef(Run(q))] \in {refs[TaskRef(Run(q))], None}
           /\ Fresh(q) => /\ refs'[TaskRef(Run(q))] = refs[TaskRef(Run(q))]
                          /\ refs'[OKRef(Run(q))] = refs[OKRef(Run(q))]
<1>1. /\ Run(q) \in Runs
      /\ Began(p)' => Run(p)' # Run(q) /\ hook'[p].ref # ResultRef(q)
  BY SoleBefore, RunFacts
<1>2. /\ hook'[p].ref[1] = "task" => hook'[p].ref = TaskRef(Run(p)')
      /\ hook'[p].ref[1] = "ok" => hook'[p].ref = OKRef(Run(p)')
      /\ Run(p)' \in Runs
  BY TargetFacts DEF Run
<1>3. \A ref \in {TaskRef(Run(q)), OKRef(Run(q)), ResultRef(q)} :
          /\ ref \in Refs /\ ref[1] \in {"task", "ok", "result"}
          /\ Began(p)' => ref \notin {TaskRef(Run(p)'), OKRef(Run(p)'), ResultRef(p), hook'[p].ref}
  BY <1>1, <1>2, RefFacts
<1>4. \A ref \in {TaskRef(Run(q)), OKRef(Run(q)), ResultRef(q)} :
          refs'[ref] = refs[ref] \/ (ref \in Expired /\ refs'[ref] = None)
  BY <1>3 DEF Mine
<1> QED  BY <1>4, FreshFacts

\* What holds of another push still does.
LEMMA OtherKept ==
    ASSUME IInv, NEW p \in Pushes, NEW q \in Pushes \ {p}, Steady(p), Mine(p),
           hook'[p].ref \in Targets(p)
    PROVE  StartInv(q)' /\ RecordInv(q)' /\ ResultInv(q)' /\ NameInv(q)' /\ DeliveryInv(q)'
<1>1. /\ hook'[q] = hook[q] /\ task'[q] = task[q] /\ job'[q] = job[q] /\ told'[q] = told[q]
      /\ aged \subseteq aged'
  BY DEF Steady
<1>2. StartInv(q) /\ RecordInv(q) /\ ResultInv(q) /\ NameInv(q) /\ DeliveryInv(q)
  BY DEF IInv
<1>3. (Began(q)' <=> Began(q)) /\ Run(q)' = Run(q) /\ (Fresh(q)' => Fresh(q))
  BY <1>1 DEF Began, Run, Fresh
<1>4. StartInv(q)' /\ RecordInv(q)'
  BY <1>1, <1>2, <1>3 DEF StartInv, RecordInv, Marker
<1>5. ResultInv(q)'
  <2> SUFFICES ASSUME Sole(q)', task[q].status = "succeeded", task[q].result
               PROVE  ResultInv(q)'
    BY <1>1 DEF ResultInv
  <2>1. Began(q)
    BY <1>2 DEF StartInv, NoTask, NewTask
  <2>2. Sole(q) /\ (\/ refs'[ResultRef(q)] = refs[ResultRef(q)]
                    \/ q \in aged /\ refs'[ResultRef(q)] = None)
    BY <2>1, SoleBefore, OthersRefs
  <2> QED  BY <1>1, <1>2, <2>2 DEF ResultInv, Product, ResultRef
<1>6. NameInv(q)'
  <2> SUFFICES ASSUME Began(q), Sole(q)' PROVE NameInv(q)'
    BY <1>3 DEF NameInv
  <2>1. Sole(q) /\ refs'[TaskRef(Run(q))] \in {refs[TaskRef(Run(q))], None}
    BY SoleBefore, OthersRefs
  <2> QED  BY <1>1, <1>2, <1>3, <2>1 DEF NameInv
<1>7. DeliveryInv(q)'
  <2> SUFFICES ASSUME Began(q), Sole(q)', Fresh(q)' PROVE DeliveryInv(q)'
    BY <1>3 DEF DeliveryInv
  <2>1. /\ Sole(q) /\ refs'[TaskRef(Run(q))] = refs[TaskRef(Run(q))]
        /\ refs'[OKRef(Run(q))] = refs[OKRef(Run(q))]
    BY <1>3, SoleBefore, OthersRefs
  <2>2. Made(q)' = Made(q)
    BY <1>1 DEF Made
  <2> QED  BY <1>1, <1>2, <1>3, <2>1, <2>2 DEF DeliveryInv
<1> QED  BY <1>4, <1>5, <1>6, <1>7

\* Every run's refs still are somebody's.
LEMMA RunKept ==
    ASSUME IInv, NEW p \in Pushes, NEW run \in Runs, Steady(p), Mine(p), Earned(p),
           hook'[p].ref \in Targets(p)
    PROVE  RunInv(run)'
<1>1. RunInv(run)
  BY DEF IInv
<1>2. \A q \in Pushes : Began(q) => Began(q)' /\ Run(q)' = Run(q)
  BY DEF Steady, Began, Run
<1>3. /\ TaskRef(run) \in Refs /\ OKRef(run) \in Refs /\ TaskRef(run) # OKRef(run)
      /\ TaskRef(run)[1] = "task" /\ OKRef(run)[1] = "ok"
      /\ TaskRef(run) # ResultRef(p) /\ OKRef(run) # ResultRef(p)
      /\ Run(p)' # run => TaskRef(run) # TaskRef(Run(p)') /\ OKRef(run) # OKRef(Run(p)')
      /\ TaskRef(run) # OKRef(Run(p)') /\ OKRef(run) # TaskRef(Run(p)')
      /\ Run(p)' # run => hook'[p].ref \notin {TaskRef(run), OKRef(run)}
  <2>1. /\ hook'[p].ref[1] = "task" => hook'[p].ref = TaskRef(Run(p)')
        /\ hook'[p].ref[1] = "ok" => hook'[p].ref = OKRef(Run(p)')
        /\ Run(p)' \in Runs
    BY TargetFacts DEF Run
  <2> QED  BY <2>1, RefFacts
<1>4. refs'[TaskRef(run)] # None => \E q \in Pushes : Began(q)' /\ Run(q)' = run
  <2> SUFFICES ASSUME refs'[TaskRef(run)] # None
               PROVE  \E q \in Pushes : Began(q)' /\ Run(q)' = run
    OBVIOUS
  <2>1. refs[TaskRef(run)] # None \/ (Began(p)' /\ Run(p)' = run)
    BY <1>3 DEF Mine
  <2> QED  BY <1>1, <1>2, <2>1 DEF RunInv
<1>5. ASSUME refs'[OKRef(run)] = refs[OKRef(run)], refs[OKRef(run)] # None
      PROVE  \E q \in Pushes : Pushed(q, run)' \/ Marked(q, run)'
  <2> PICK q \in Pushes : Pushed(q, run) \/ Marked(q, run)
    BY <1>1, <1>5 DEF RunInv
  <2>1. Began(q)
    BY DEF IInv, StartInv, NoTask, NewTask, Pushed, Marked
  <2>2. /\ Began(q)' /\ Run(q)' = Run(q) /\ hook'[q].ref = hook[q].ref
        /\ hook'[q].commit = hook[q].commit /\ (Sole(q)' => Sole(q))
    BY <1>2, <2>1, SoleBefore DEF Steady
  <2>3. Pushed(q, run) => Pushed(q, run)'
    BY <1>5, <2>2 DEF Pushed, OKRef
  <2>4. Marked(q, run) => Marked(q, run)'
    <3>1. task[q].status = "succeeded" => task'[q] = task[q]
      BY DEF Steady
    <3> QED  BY <1>5, <2>2, <3>1 DEF Marked, OKRef, Product
  <2> QED  BY <2>3, <2>4
<1>6. ASSUME refs'[OKRef(run)] # None, refs'[OKRef(run)] # refs[OKRef(run)]
      PROVE  \E q \in Pushes : Pushed(q, run)' \/ Marked(q, run)'
  <2>1. Run(p)' = run
    BY <1>3, <1>6 DEF Mine
  <2>2. Pushed(p, run)' \/ Marked(p, run)'
    BY <1>6, <2>1 DEF Earned, Pushed, Marked, OKRef, Product
  <2> QED  BY <2>2
<1>7. refs'[OKRef(run)] # None => \E q \in Pushes : Pushed(q, run)' \/ Marked(q, run)'
  BY <1>5, <1>6
<1> QED  BY <1>4, <1>7 DEF RunInv, TaskRef, OKRef

\* The landing pad still belongs to a hook.
LEMMA PadKept ==
    ASSUME IInv, NEW p \in Pushes, Steady(p), Clears(p)
    PROVE  AnonIsCleared'
<1> SUFFICES ASSUME refs'[AnonRef] # None
             PROVE  \E q \in Pushes : /\ hook'[q].ref = AnonRef
                                      /\ hook'[q].pc \in Received \cup {"dead", "uncleared"}
  BY DEF AnonIsCleared
<1>1. CASE hook'[p].ref = AnonRef /\ hook'[p].pc \in Received \cup {"dead", "uncleared"}
  BY <1>1
<1>2. CASE /\ refs[AnonRef] # None
           /\ ~(hook[p].ref = AnonRef /\ hook[p].pc \in Received \cup {"dead", "uncleared"})
  <2> PICK q \in Pushes : hook[q].ref = AnonRef /\ hook[q].pc \in Received \cup {"dead", "uncleared"}
    BY <1>2 DEF IInv, AnonIsCleared
  <2>1. q # p
    BY <1>2
  <2> QED  BY <2>1 DEF Steady
<1> QED  BY <1>1, <1>2 DEF Clears

\* The invariant, when one push or its task has made a step.
LEMMA StepKept ==
    ASSUME IInv, NEW p \in Pushes, TypeOK', Steady(p), Mine(p), Earned(p), Clears(p),
           StartInv(p)', RecordInv(p)', ResultInv(p)', NameInv(p)', DeliveryInv(p)'
    PROVE  IInv'
<1>1. hook'[p].ref \in Targets(p)
  BY DEF TypeOK
<1>2. \A run \in Runs : RunInv(run)'
  BY <1>1, RunKept
<1>3. \A q \in Pushes \ {p} :
          /\ StartInv(q)' /\ RecordInv(q)' /\ ResultInv(q)'
          /\ NameInv(q)' /\ DeliveryInv(q)'
  BY <1>1, OtherKept
<1>4. AnonIsCleared'
  BY PadKept
<1> QED  BY <1>2, <1>3, <1>4 DEF IInv

-----------------------------------------------------------------------------
(* A step of a hook.                                                       *)

\* The hook becomes new, and the task is as it was.
HookStep(p, new) == hook' = [hook EXCEPT ![p] = new] /\ UNCHANGED <<task, job>>

\* The hook is at pc next, all else of it as before but what is given.
Turned(old, new, pc, failed, final) ==
    /\ new \in Hooks /\ new.pc = pc /\ new.ref = old.ref /\ new.commit = old.commit
    /\ new.detach = old.detach /\ new.failed = failed /\ new.final = final

\* The types, when a hook has made a step.
LEMMA HookTypes ==
    ASSUME IInv, NEW p \in Pushes, NEW new \in Hooks, HookStep(p, new), new.ref \in Targets(p),
           refs' \in [Refs -> Objects \cup {None}], told' \in [Pushes -> Tolds],
           aged' \subseteq Pushes, trouble' \in 0..MaxTrouble
    PROVE  /\ TypeOK' /\ hook'[p] = new /\ \A q \in Pushes \ {p} : hook'[q] = hook[q]
           /\ task' = task /\ job' = job
<1>1. hook'[p] = new /\ \A q \in Pushes \ {p} : hook'[q] = hook[q]
  BY TypeFacts DEF HookStep
<1>2. hook' \in [Pushes -> Hooks]
  BY TypeFacts DEF HookStep
<1>3. \A q \in Pushes : hook'[q].ref \in Targets(q)
  BY <1>1, TypeFacts
<1> QED  BY <1>1, <1>2, <1>3, TypeFacts DEF TypeOK, Hooks, Records, Tolds, HookStep

\* One ref is moved.
LEMMA UpdateFacts ==
    ASSUME IInv, NEW ref \in Refs, NEW object \in Objects \cup {None}, UpdateRef(ref, object)
    PROVE  /\ refs' \in [Refs -> Objects \cup {None}] /\ refs'[ref] = object
           /\ \A other \in Refs : other # ref => refs'[other] = refs[other]
<1> QED  BY TypeFacts DEF UpdateRef

\* What the run's own name and its marker may point at when the hook of p is at
\* pc, has read status, has seen a command fail or not and has told said.
NamedAt(p, pc, status, object) ==
    Sole(p) =>
        /\ pc \in {"moved", "submitted", "retained", "named", "released", "swept", "read"}
               => object \in {None, hook[p].commit}
        /\ pc = "published" /\ status = "succeeded"
               => object \in {None, hook[p].commit, Product(p, task[p].attempts)}

DeliveredAt(p, pc, status, failed, said, object, ok) ==
    Sole(p) /\ Fresh(p) /\ ~failed =>
        /\ pc \in {"moved", "submitted"} /\ hook[p].ref = TaskRef(Run(p))
               => object = hook[p].commit
        /\ pc \in {"retained", "named"} => hook[p].ref # TaskRef(Run(p))
        /\ pc \in {"named", "released", "swept", "read"} => object = hook[p].commit
        /\ pc = "published" /\ status = "succeeded" => object = Made(p)
        /\ (pc = "marked" /\ status = "succeeded") \/ (pc = "done" /\ said = "succeeded")
               => object = Made(p) /\ ok = Made(p)

\* What the invariant says of a run's name, where its push is.
LEMMA Now ==
    ASSUME IInv, NEW p \in Pushes, Began(p)
    PROVE  /\ NamedAt(p, hook[p].pc, hook[p].final.status, refs[TaskRef(Run(p))])
           /\ DeliveredAt(p, hook[p].pc, hook[p].final.status, hook[p].failed, told[p].status,
                          refs[TaskRef(Run(p))], refs[OKRef(Run(p))])
<1>1. NameInv(p) /\ DeliveryInv(p)
  BY DEF IInv
<1>2. NamedAt(p, hook[p].pc, hook[p].final.status, refs[TaskRef(Run(p))])
  BY <1>1 DEF NameInv, NamedAt
<1>3. DeliveredAt(p, hook[p].pc, hook[p].final.status, hook[p].failed, told[p].status,
                  refs[TaskRef(Run(p))], refs[OKRef(Run(p))])
  BY <1>1 DEF DeliveryInv, DeliveredAt
<1> QED  BY <1>2, <1>3

\* A hook that git has started goes on, and touches only what is its own.
LEMMA WalkKept ==
    ASSUME IInv, NEW p \in Pushes, NEW new, NEW pc \in Received \cup {"done", "dead", "uncleared"},
           NEW failed \in BOOLEAN, NEW final,
           hook[p].pc \in Received, Turned(hook[p], new, pc, failed, final), HookStep(p, new),
           pc # "moved", aged' = aged, trouble' \in 0..MaxTrouble,
           told' \in [Pushes -> Tolds], \A q \in Pushes \ {p} : told'[q] = told[q],
           refs' \in [Refs -> Objects \cup {None}],
           refs'[AnonRef] \in {None, refs[AnonRef]},
           pc = "done" /\ hook[p].ref = AnonRef => refs'[AnonRef] = None,
           \A ref \in Refs : \/ refs'[ref] = refs[ref]
                             \/ ref \in Expired /\ refs'[ref] = None
                             \/ ref[1] \in {"tasks", "heads", "src", "kranq"}
                             \/ ref \in {TaskRef(Run(p)), OKRef(Run(p)), hook[p].ref},
           \/ refs'[OKRef(Run(p))] \in {None, refs[OKRef(Run(p))]}
           \/ /\ task[p].status = "succeeded"
              /\ Sole(p) => refs'[OKRef(Run(p))] \in {hook[p].commit, Product(p, task[p].attempts)},
           RecordInv(p)',
           NamedAt(p, pc, final.status, refs'[TaskRef(Run(p))]),
           DeliveredAt(p, pc, final.status, failed, told'[p].status,
                       refs'[TaskRef(Run(p))], refs'[OKRef(Run(p))])
    PROVE  IInv'
<1>1. /\ new \in Hooks /\ new.pc = pc /\ new.ref = hook[p].ref /\ new.commit = hook[p].commit
      /\ new.failed = failed /\ new.final = final
  BY DEF Turned
<1>2. new.ref \in Targets(p)
  BY <1>1, TypeFacts
<1>3. /\ TypeOK' /\ hook'[p] = new /\ \A q \in Pushes \ {p} : hook'[q] = hook[q]
      /\ task' = task /\ job' = job
  <2>1. aged' \subseteq Pushes
    BY TypeFacts
  <2> QED  BY <1>1, <1>2, <2>1, HookTypes
<1>4. Began(p) /\ Began(p)' /\ pc \notin {"idle", "sent", "uptodate", "declined"}
  BY <1>1, <1>3 DEF Began, Received
<1>5. /\ Run(p)' = Run(p)
      /\ \A q \in Pushes \ {p} : (Began(q)' <=> Began(q)) /\ Run(q)' = Run(q)
  BY <1>1, <1>3 DEF Run, Began
<1>6. Sole(p)' = Sole(p)
  BY <1>3, <1>5 DEF Sole, ResultRef
<1>7. Steady(p)
  BY <1>1, <1>3, <1>4 DEF Steady
<1>8. Mine(p)
  BY <1>1, <1>3, <1>4, <1>5 DEF Mine
<1>9. Earned(p)
  BY <1>1, <1>3, <1>5, <1>6 DEF Earned
<1>10. Clears(p)
  BY <1>1, <1>3 DEF Clears
<1>11. StartInv(p)'
  BY <1>1, <1>3, <1>4 DEF IInv, StartInv
<1>12. ResultInv(p)'
  <2>1. \/ refs'[ResultRef(p)] = refs[ResultRef(p)]
        \/ p \in aged /\ refs'[ResultRef(p)] = None
    <3>1. /\ ResultRef(p) \in Refs /\ ResultRef(p)[1] = "result"
          /\ ResultRef(p) # TaskRef(Run(p)) /\ ResultRef(p) # OKRef(Run(p))
          /\ ResultRef(p) # hook[p].ref
      BY RefFacts, RunFacts
    <3> QED  BY <3>1, FreshFacts
  <2> QED  BY <1>3, <1>6, <2>1 DEF IInv, ResultInv, Product, ResultRef
<1>13. NameInv(p)'
  BY <1>1, <1>3, <1>4, <1>5, <1>6 DEF NameInv, NamedAt, Product
<1>14. DeliveryInv(p)'
  <2>1. Made(p)' = Made(p) /\ Fresh(p)' = Fresh(p)
    BY <1>1, <1>3, <1>5 DEF Made, Fresh, Product
  <2> QED  BY <1>1, <1>3, <1>4, <1>5, <1>6, <2>1 DEF DeliveryInv, DeliveredAt
<1> QED  BY <1>3, <1>7, <1>8, <1>9, <1>10, <1>11, <1>12, <1>13, <1>14, StepKept

\* What a hook is after a step.
LEMMA TurnFacts ==
    ASSUME NEW old \in Hooks, NEW pc \in Received \cup Over, NEW failed \in BOOLEAN,
           NEW final \in [status : Statuses, exit : 0..1, result : BOOLEAN]
    PROVE  /\ Turned(old, [old EXCEPT !.pc = pc], pc, old.failed, old.final)
           /\ Turned(old, [old EXCEPT !.pc = pc, !.final = final], pc, old.failed, final)
           /\ Turned(old, [old EXCEPT !.failed = failed, !.pc = pc], pc, failed, old.final)
<1>1. [old EXCEPT !.pc = pc] \in Hooks
  BY DEF Hooks
<1>2. [old EXCEPT !.pc = pc, !.final = final] \in Hooks
  BY DEF Hooks
<1>3. [old EXCEPT !.failed = failed, !.pc = pc] \in Hooks
  BY DEF Hooks
<1> QED  BY <1>1, <1>2, <1>3 DEF Turned, Hooks

\* What a hook under way has read, and that it has said nothing final.
LEMMA WayFacts ==
    ASSUME IInv, NEW p \in Pushes, hook[p].pc \in Received
    PROVE  /\ Began(p) /\ hook[p] \in Hooks /\ hook[p].commit \in Commits
           /\ hook[p].commit \in Objects \cup {None} /\ hook[p].commit # None
           /\ told[p].status \notin Final /\ told[p].exit # 1
           /\ hook[p].pc \notin {"read", "published", "marked"} => hook[p].final = Unread
           /\ hook[p].failed \in BOOLEAN /\ Unread.status = "none" /\ Unread.exit = 0
<1>1. Began(p)
  BY DEF Began, Received
<1>2. hook[p].commit \in Commits
  BY <1>1 DEF IInv, StartInv
<1>3. told[p].status \notin Final /\ told[p].exit # 1
  BY DEF IInv, RecordInv, Received, Final
<1> QED  BY <1>1, <1>2, <1>3, TypeFacts, DistinctAssumption
         DEF IInv, RecordInv, Hooks, Objects, Unread, Read, NoTask, NewTask

\* The record of a hook that has read nothing new.
LEMMA RecordSame ==
    ASSUME IInv, NEW p \in Pushes, hook[p].pc \in Received, UNCHANGED <<task, job>>,
           told'[p].status \notin Final /\ told'[p].exit # 1,
           hook'[p].final = hook[p].final,
           hook'[p].pc \notin {"read", "published", "marked"} => hook[p].final = Unread
    PROVE  RecordInv(p)'
<1> QED  BY DEF IInv, RecordInv, Final, Settled

\* A hook goes on, and the refs are as they were.
LEMMA QuietKept ==
    ASSUME IInv, NEW p \in Pushes, NEW new, NEW pc \in Received \cup {"dead", "uncleared"},
           NEW failed \in BOOLEAN, NEW final,
           hook[p].pc \in Received, Turned(hook[p], new, pc, failed, final), HookStep(p, new),
           pc # "moved", UNCHANGED <<refs, aged>>, trouble' \in 0..MaxTrouble,
           told' \in [Pushes -> Tolds], \A q \in Pushes \ {p} : told'[q] = told[q],
           RecordInv(p)',
           NamedAt(p, pc, final.status, refs[TaskRef(Run(p))]),
           DeliveredAt(p, pc, final.status, failed, told'[p].status,
                       refs[TaskRef(Run(p))], refs[OKRef(Run(p))])
    PROVE  IInv'
<1>1. refs' \in [Refs -> Objects \cup {None}] /\ refs' = refs
  BY TypeFacts
<1>2. pc \in Received \cup {"done", "dead", "uncleared"} /\ pc # "done"
  BY DEF Received
<1>3. aged' = aged
  OBVIOUS
<1> QED  BY <1>1, <1>2, <1>3, WalkKept

\* Where a hook goes next, all else being as it was.
LEMMA StepFacts ==
    ASSUME IInv, NEW p \in Pushes, hook[p].pc \in Received, NEW pc \in Received \cup Over,
           Step(p, pc), UNCHANGED <<task, job>>
    PROVE  LET new == [hook[p] EXCEPT !.pc = pc]
           IN  /\ HookStep(p, new) /\ Turned(hook[p], new, pc, hook[p].failed, hook[p].final)
               /\ hook'[p].pc = pc /\ hook'[p].final = hook[p].final
<1> DEFINE new == [hook[p] EXCEPT !.pc = pc]
<1>1. hook[p] \in Hooks /\ hook[p].failed \in BOOLEAN
      /\ hook[p].final \in [status : Statuses, exit : 0..1, result : BOOLEAN]
  BY TypeFacts DEF Hooks
<1>2. Turned(hook[p], new, pc, hook[p].failed, hook[p].final)
  BY <1>1, TurnFacts
<1>3. hook' = [hook EXCEPT ![p] = new]
  BY TypeFacts DEF Step
<1> HIDE DEF new
<1>4. hook'[p] = new
  BY <1>3, TypeFacts
<1> QED  BY <1>2, <1>3, <1>4 DEF HookStep, Turned, new

\* A trouble is one more, within the bound.
LEMMA TroubleFacts ==
    ASSUME IInv
    PROVE  /\ trouble \in 0..MaxTrouble
           /\ Trouble => trouble' \in 0..MaxTrouble
<1> QED  BY TypeFacts, BoundsAssumption DEF Trouble

\* A task is refused.
LEMMA RefusedKept ==
    ASSUME IInv, NEW p \in Pushes, Refused(p)
    PROVE  IInv'
<1> DEFINE new == [hook[p] EXCEPT !.pc = "leaving"]
<1>1. /\ hook[p].pc = "moved" /\ hook[p].pc \in Received /\ trouble' \in 0..MaxTrouble
      /\ Step(p, "leaving") /\ UNCHANGED <<refs, task, job, aged>>
      /\ told' = [told EXCEPT ![p] = Refusal]
  BY TroubleFacts DEF Refused, Received
<1>2. /\ HookStep(p, new) /\ Turned(hook[p], new, "leaving", hook[p].failed, hook[p].final)
      /\ hook'[p].pc = "leaving" /\ hook'[p].final = hook[p].final
  BY <1>1, StepFacts DEF Received
<1> HIDE DEF new
<1>3. /\ told' \in [Pushes -> Tolds] /\ \A q \in Pushes \ {p} : told'[q] = told[q]
      /\ told'[p].status \notin Final /\ told'[p].exit # 1
  BY <1>1, TypeFacts DEF Tolds, Refusal, Statuses, Final
<1>4. RecordInv(p)'
  BY <1>1, <1>2, <1>3, WayFacts, RecordSame
<1>5. /\ NamedAt(p, "leaving", hook[p].final.status, refs[TaskRef(Run(p))])
      /\ DeliveredAt(p, "leaving", hook[p].final.status, hook[p].failed, told'[p].status,
                     refs[TaskRef(Run(p))], refs[OKRef(Run(p))])
  BY DEF NamedAt, DeliveredAt
<1> QED  BY <1>1, <1>2, <1>3, <1>4, <1>5, WayFacts, QuietKept DEF Received

\* The record cannot be read.
LEMMA GetFailsKept ==
    ASSUME IInv, NEW p \in Pushes, GetFails(p)
    PROVE  IInv'
<1> DEFINE new == [hook[p] EXCEPT !.pc = "leaving"]
<1>1. /\ hook[p].pc = "swept" /\ hook[p].pc \in Received /\ trouble' \in 0..MaxTrouble
      /\ Step(p, "leaving") /\ UNCHANGED <<refs, task, job, aged, told>>
  BY TroubleFacts DEF GetFails, Received
<1>2. /\ HookStep(p, new) /\ Turned(hook[p], new, "leaving", hook[p].failed, hook[p].final)
      /\ hook'[p].pc = "leaving" /\ hook'[p].final = hook[p].final
  BY <1>1, StepFacts DEF Received
<1> HIDE DEF new
<1>3. told' \in [Pushes -> Tolds]
  BY <1>1, TypeFacts
<1>4. RecordInv(p)'
  BY <1>1, <1>2, WayFacts, RecordSame
<1>5. /\ NamedAt(p, "leaving", hook[p].final.status, refs[TaskRef(Run(p))])
      /\ DeliveredAt(p, "leaving", hook[p].final.status, hook[p].failed, told'[p].status,
                     refs[TaskRef(Run(p))], refs[OKRef(Run(p))])
  BY DEF NamedAt, DeliveredAt
<1> QED  BY <1>1, <1>2, <1>3, <1>4, <1>5, WayFacts, QuietKept DEF Received

\* A hook goes with its connection.
LEMMA DieKept ==
    ASSUME IInv, NEW p \in Pushes, Die(p)
    PROVE  IInv'
<1> DEFINE new == [hook[p] EXCEPT !.pc = "dead", !.final = Unread]
<1>1. /\ hook[p].pc \in Received /\ trouble' \in 0..MaxTrouble
      /\ hook' = [hook EXCEPT ![p] = new] /\ UNCHANGED <<refs, task, job, aged, told>>
  BY TypeFacts, TroubleFacts DEF Die, InHook
<1>2. Unread \in [status : Statuses, exit : 0..1, result : BOOLEAN]
  BY DEF Unread, Read, NoTask, NewTask, Statuses
<1>3. Turned(hook[p], new, "dead", hook[p].failed, Unread)
  BY <1>1, <1>2, WayFacts, TurnFacts DEF Over
<1> HIDE DEF new
<1>4. hook'[p] = new /\ new.pc = "dead" /\ new.final = Unread
  BY <1>1, <1>3, TypeFacts DEF Turned
<1>5. RecordInv(p)'
  BY <1>1, <1>4, WayFacts DEF IInv, RecordInv, Final, Settled
<1>6. /\ NamedAt(p, "dead", Unread.status, refs[TaskRef(Run(p))])
      /\ DeliveredAt(p, "dead", Unread.status, hook[p].failed, told'[p].status,
                     refs[TaskRef(Run(p))], refs[OKRef(Run(p))])
  BY DEF NamedAt, DeliveredAt
<1>7. HookStep(p, new) /\ told' \in [Pushes -> Tolds]
  BY <1>1, TypeFacts DEF HookStep
<1> QED  BY <1>1, <1>3, <1>5, <1>6, <1>7, WayFacts, QuietKept DEF Received

\* The command failed, and the refs are not what they would have been.
LEMMA GitFailsKept ==
    ASSUME IInv, NEW p \in Pushes, GitFails(p)
    PROVE  IInv'
<1> DEFINE pc == IF hook[p].pc = "released" /\ hook[p].detach THEN "leaving"
                 ELSE AfterFailure(hook[p].pc)
           new == [hook[p] EXCEPT !.failed = TRUE, !.pc = pc]
<1>1. /\ hook[p].pc \in {"submitted", "retained", "named", "released", "read", "published"}
      /\ hook[p].pc \in Received /\ trouble' \in 0..MaxTrouble
      /\ hook' = [hook EXCEPT ![p] = new] /\ UNCHANGED <<refs, task, job, aged, told>>
  BY TypeFacts, TroubleFacts DEF GitFails, Received
<1>2. \/ hook[p].pc \in {"submitted", "retained", "named"} /\ pc = "released"
      \/ hook[p].pc = "released" /\ pc \in {"swept", "leaving"}
      \/ hook[p].pc = "read" /\ pc = "published"
      \/ hook[p].pc = "published" /\ pc = "marked"
  BY <1>1 DEF AfterFailure
<1> HIDE DEF pc
<1>3. pc \in Received /\ pc # "moved"
  BY <1>2 DEF Received
<1>4. Turned(hook[p], new, pc, TRUE, hook[p].final)
  BY <1>1, <1>3, WayFacts, TypeFacts, TurnFacts DEF Hooks
<1> HIDE DEF new
<1>5. hook'[p] = new /\ new.pc = pc /\ new.final = hook[p].final
  BY <1>1, <1>4, TypeFacts DEF Turned
<1>6. RecordInv(p)'
  BY <1>1, <1>2, <1>5, WayFacts, RecordSame
<1>7. NamedAt(p, pc, hook[p].final.status, refs[TaskRef(Run(p))])
  BY <1>1, <1>2, WayFacts, Now DEF NamedAt
<1>8. DeliveredAt(p, pc, hook[p].final.status, TRUE, told'[p].status,
                  refs[TaskRef(Run(p))], refs[OKRef(Run(p))])
  BY DEF DeliveredAt
<1>9. HookStep(p, new) /\ told' \in [Pushes -> Tolds]
  BY <1>1, TypeFacts DEF HookStep
<1> QED  BY <1>1, <1>3, <1>4, <1>6, <1>7, <1>8, <1>9, WayFacts, QuietKept

\* A hook goes on to pc and moves one ref, which is nobody's marker.
LEMMA MoveKept ==
    ASSUME IInv, NEW p \in Pushes, NEW pc \in Received, NEW ref \in Refs,
           NEW object \in Objects \cup {None},
           hook[p].pc \in Received, Step(p, pc), pc # "moved", UpdateRef(ref, object),
           UNCHANGED <<task, job, told, aged, trouble>>,
           \/ ref[1] = "src"
           \/ ref = hook[p].ref /\ object \in {None, refs[ref]}
           \/ ref = TaskRef(Run(p))
           \/ /\ ref = OKRef(Run(p)) /\ task[p].status = "succeeded"
              /\ Sole(p) => object \in {hook[p].commit, Product(p, task[p].attempts)},
           pc \notin {"read", "published", "marked"} => hook[p].final = Unread,
           NamedAt(p, pc, hook[p].final.status, refs'[TaskRef(Run(p))]),
           DeliveredAt(p, pc, hook[p].final.status, hook[p].failed, told[p].status,
                       refs'[TaskRef(Run(p))], refs'[OKRef(Run(p))])
    PROVE  IInv'
<1> DEFINE new == [hook[p] EXCEPT !.pc = pc]
<1>1. /\ HookStep(p, new) /\ Turned(hook[p], new, pc, hook[p].failed, hook[p].final)
      /\ hook'[p].pc = pc /\ hook'[p].final = hook[p].final
  BY StepFacts
<1> HIDE DEF new
<1>2. /\ refs' \in [Refs -> Objects \cup {None}] /\ refs'[ref] = object
      /\ \A other \in Refs : other # ref => refs'[other] = refs[other]
  BY UpdateFacts
<1>3. /\ AnonRef \in Refs /\ AnonRef[1] = "tasks"
      /\ TaskRef(Run(p))[1] = "task" /\ OKRef(Run(p))[1] = "ok" /\ OKRef(Run(p)) \in Refs
  BY RefFacts, RunFacts
<1>4. refs'[AnonRef] \in {None, refs[AnonRef]}
  BY <1>2, <1>3
<1>5. \A other \in Refs : \/ refs'[other] = refs[other]
                          \/ other[1] \in {"tasks", "heads", "src", "kranq"}
                          \/ other \in {TaskRef(Run(p)), OKRef(Run(p)), hook[p].ref}
  BY <1>2, <1>3
<1>6. \/ refs'[OKRef(Run(p))] \in {None, refs[OKRef(Run(p))]}
      \/ /\ task[p].status = "succeeded"
         /\ Sole(p) => refs'[OKRef(Run(p))] \in {hook[p].commit, Product(p, task[p].attempts)}
  BY <1>2, <1>3
<1>7. RecordInv(p)'
  BY <1>1, WayFacts, RecordSame
<1>8. told' \in [Pushes -> Tolds] /\ told' = told /\ aged' = aged /\ trouble' \in 0..MaxTrouble
  BY TypeFacts
<1>9. pc # "done" /\ pc \in Received \cup {"done", "dead", "uncleared"}
  BY DEF Received
<1> QED  BY <1>1, <1>2, <1>4, <1>5, <1>6, <1>7, <1>8, <1>9, WayFacts, WalkKept

\* What was pushed is kept under a ref of the task.
LEMMA ReleaseRetainKept ==
    ASSUME IInv, NEW p \in Pushes, ReleaseRetain(p)
    PROVE  IInv'
<1> DEFINE pc == IF TaskRef(Run(p)) = hook[p].ref THEN "released" ELSE "retained"
<1>1. /\ hook[p].pc = "submitted" /\ hook[p].pc \in Received
      /\ UpdateRef(SrcRef(p), hook[p].commit) /\ Step(p, pc)
      /\ UNCHANGED <<task, job, told, aged, trouble>>
  BY DEF ReleaseRetain, Received
<1>2. \/ pc = "released" /\ hook[p].ref = TaskRef(Run(p))
      \/ pc = "retained" /\ hook[p].ref # TaskRef(Run(p))
  OBVIOUS
<1> HIDE DEF pc
<1>3. /\ pc \in Received /\ pc # "moved" /\ SrcRef(p) \in Refs /\ SrcRef(p)[1] = "src"
      /\ SrcRef(p) # TaskRef(Run(p)) /\ TaskRef(Run(p)) \in Refs
  BY <1>2, RefFacts, RunFacts DEF Received
<1>4. refs'[TaskRef(Run(p))] = refs[TaskRef(Run(p))]
  BY <1>1, <1>3, WayFacts, UpdateFacts
<1>5. NamedAt(p, pc, hook[p].final.status, refs'[TaskRef(Run(p))])
  BY <1>1, <1>2, <1>4, WayFacts, Now DEF NamedAt
<1>6. DeliveredAt(p, pc, hook[p].final.status, hook[p].failed, told[p].status,
                  refs'[TaskRef(Run(p))], refs'[OKRef(Run(p))])
  BY <1>1, <1>2, <1>4, WayFacts, Now DEF DeliveredAt
<1> QED  BY <1>1, <1>3, <1>5, <1>6, WayFacts, MoveKept

\* The run's own name is put on the commit.
LEMMA ReleaseNameKept ==
    ASSUME IInv, NEW p \in Pushes, ReleaseName(p)
    PROVE  IInv'
<1>1. /\ hook[p].pc = "retained" /\ hook[p].pc \in Received
      /\ UpdateRef(TaskRef(Run(p)), hook[p].commit) /\ Step(p, "named")
      /\ UNCHANGED <<task, job, told, aged, trouble>>
  BY DEF ReleaseName, Received
<1>2. "named" \in Received /\ TaskRef(Run(p)) \in Refs
  BY RefFacts, RunFacts DEF Received
<1>3. refs'[TaskRef(Run(p))] = hook[p].commit
  BY <1>1, <1>2, WayFacts, UpdateFacts
<1>4. NamedAt(p, "named", hook[p].final.status, refs'[TaskRef(Run(p))])
  BY <1>3 DEF NamedAt
<1>5. DeliveredAt(p, "named", hook[p].final.status, hook[p].failed, told[p].status,
                  refs'[TaskRef(Run(p))], refs'[OKRef(Run(p))])
  BY <1>1, <1>3, WayFacts, Now DEF DeliveredAt
<1> QED  BY <1>1, <1>2, <1>4, <1>5, WayFacts, MoveKept

\* What is deleted is the ref that was pushed to, and not the run's own name
\* once that is all there is.
LEMMA ReleaseClearKept ==
    ASSUME IInv, NEW p \in Pushes, ReleaseClear(p)
    PROVE  IInv'
<1> DEFINE object == IF refs[hook[p].ref] = hook[p].commit THEN None ELSE refs[hook[p].ref]
<1>1. /\ hook[p].pc = "named" /\ hook[p].pc \in Received
      /\ UpdateRef(hook[p].ref, object) /\ Step(p, "released")
      /\ UNCHANGED <<task, job, told, aged, trouble>>
  BY DEF ReleaseClear, Received, DeleteIf
<1>2. "released" \in Received /\ TaskRef(Run(p)) \in Refs /\ hook[p].ref \in Refs
  BY RefFacts, RunFacts DEF Received
<1>3. object \in Objects \cup {None} /\ object \in {refs[hook[p].ref], None}
  BY <1>2, TypeFacts
<1> HIDE DEF object
<1>4. refs'[TaskRef(Run(p))] \in {refs[TaskRef(Run(p))], None}
  BY <1>1, <1>2, <1>3, UpdateFacts
<1>5. hook[p].ref # TaskRef(Run(p)) => refs'[TaskRef(Run(p))] = refs[TaskRef(Run(p))]
  BY <1>1, <1>2, <1>3, UpdateFacts
<1>6. NamedAt(p, "released", hook[p].final.status, refs'[TaskRef(Run(p))])
  BY <1>1, <1>4, WayFacts, Now DEF NamedAt
<1>7. DeliveredAt(p, "released", hook[p].final.status, hook[p].failed, told[p].status,
                  refs'[TaskRef(Run(p))], refs'[OKRef(Run(p))])
  BY <1>1, <1>5, WayFacts, Now DEF DeliveredAt
<1> QED  BY <1>1, <1>2, <1>3, <1>6, <1>7, WayFacts, MoveKept

\* The result is put under the run's own name.
LEMMA PublishResultKept ==
    ASSUME IInv, NEW p \in Pushes, PublishResult(p)
    PROVE  IInv'
<1> DEFINE object == IF hook[p].final.result /\ refs[ResultRef(p)] # None
                     THEN refs[ResultRef(p)] ELSE refs[TaskRef(Run(p))]
<1>1. /\ hook[p].pc = "read" /\ hook[p].pc \in Received /\ Step(p, "published")
      /\ UNCHANGED <<task, job, told, aged, trouble>>
  BY DEF PublishResult, Received
<1>2. /\ "published" \in Received /\ TaskRef(Run(p)) \in Refs /\ ResultRef(p) \in Refs
      /\ OKRef(Run(p)) \in Refs
  BY RefFacts, RunFacts DEF Received
<1>3. object \in Objects \cup {None}
  BY <1>2, TypeFacts
<1>4. UpdateRef(TaskRef(Run(p)), object)
  <2>1. CASE hook[p].final.result /\ refs[ResultRef(p)] # None
    BY <2>1 DEF PublishResult
  <2>2. CASE ~(hook[p].final.result /\ refs[ResultRef(p)] # None)
    BY <1>2, <2>2, TypeFacts DEF PublishResult, UpdateRef
  <2> QED  BY <2>1, <2>2
<1>5. /\ hook[p].final.status = "succeeded" =>
             task[p].status = "succeeded" /\ hook[p].final.result = task[p].result
      /\ ResultInv(p) /\ hook[p].commit # None
  BY <1>1, WayFacts DEF IInv, RecordInv, Final, Settled
<1>6. Product(p, task[p].attempts) # None
  BY TypeFacts, DistinctAssumption DEF Product, Records
<1>7. Sole(p) /\ hook[p].final.status = "succeeded" =>
          \/ object = Product(p, task[p].attempts)
          \/ object = refs[TaskRef(Run(p))]
  BY <1>5 DEF ResultInv
<1>8. Sole(p) /\ hook[p].final.status = "succeeded" /\ p \notin aged =>
          object = IF task[p].result THEN Product(p, task[p].attempts)
                   ELSE refs[TaskRef(Run(p))]
  BY <1>5, <1>6 DEF ResultInv
<1> HIDE DEF object
<1>9. refs'[TaskRef(Run(p))] = object
  BY <1>2, <1>3, <1>4, UpdateFacts
<1>10. NamedAt(p, "published", hook[p].final.status, refs'[TaskRef(Run(p))])
  BY <1>1, <1>7, <1>9, WayFacts, Now DEF NamedAt
<1>11. DeliveredAt(p, "published", hook[p].final.status, hook[p].failed, told[p].status,
                   refs'[TaskRef(Run(p))], refs'[OKRef(Run(p))])
  BY <1>1, <1>8, <1>9, WayFacts, Now DEF DeliveredAt, Made, Fresh
<1> QED  BY <1>1, <1>2, <1>3, <1>4, <1>10, <1>11, WayFacts, MoveKept

\* A marker is made only of what succeeded, and of what its name points at.
LEMMA PublishOKKept ==
    ASSUME IInv, NEW p \in Pushes, PublishOK(p)
    PROVE  IInv'
<1> DEFINE makes == hook[p].final.status = "succeeded" /\ refs[TaskRef(Run(p))] # None
           object == IF makes THEN refs[TaskRef(Run(p))] ELSE refs[OKRef(Run(p))]
<1>1. /\ hook[p].pc = "published" /\ hook[p].pc \in Received /\ Step(p, "marked")
      /\ UNCHANGED <<task, job, told, aged, trouble>>
  BY DEF PublishOK, Received
<1>2. /\ "marked" \in Received /\ TaskRef(Run(p)) \in Refs /\ OKRef(Run(p)) \in Refs
      /\ TaskRef(Run(p)) # OKRef(Run(p))
  BY RefFacts, RunFacts DEF Received
<1>3. object \in Objects \cup {None}
  BY <1>2, TypeFacts
<1>4. UpdateRef(OKRef(Run(p)), object)
  <2>1. CASE makes
    BY <2>1 DEF PublishOK
  <2>2. CASE ~makes
    BY <1>2, <2>2, TypeFacts DEF PublishOK, UpdateRef
  <2> QED  BY <2>1, <2>2
<1>5. hook[p].final.status = "succeeded" => task[p].status = "succeeded"
  BY DEF IInv, RecordInv, Final, Settled
<1>6. Made(p) # None
  <2>1. hook[p].commit # None
    BY <1>1, WayFacts
  <2>2. Product(p, task[p].attempts) # None
    BY TypeFacts, DistinctAssumption DEF Product, Records
  <2> QED  BY <2>1, <2>2 DEF Made
<1>7. /\ refs'[OKRef(Run(p))] = object
      /\ refs'[TaskRef(Run(p))] = refs[TaskRef(Run(p))]
  BY <1>2, <1>3, <1>4, UpdateFacts
<1>8. NamedAt(p, "marked", hook[p].final.status, refs'[TaskRef(Run(p))])
  BY DEF NamedAt
<1>9. DeliveredAt(p, "marked", hook[p].final.status, hook[p].failed, told[p].status,
                  refs'[TaskRef(Run(p))], refs'[OKRef(Run(p))])
  <2> SUFFICES ASSUME Sole(p), Fresh(p), ~hook[p].failed, hook[p].final.status = "succeeded"
               PROVE  refs'[TaskRef(Run(p))] = Made(p) /\ refs'[OKRef(Run(p))] = Made(p)
    BY DEF DeliveredAt
  <2>1. refs[TaskRef(Run(p))] = Made(p)
    BY <1>1, WayFacts, Now DEF DeliveredAt
  <2> QED  BY <1>6, <1>7, <2>1
<1>10. CASE makes
  <2>1. Sole(p) => object \in {hook[p].commit, Product(p, task[p].attempts)}
    BY <1>1, <1>10, WayFacts, Now DEF NamedAt
  <2> HIDE DEF object
  <2> QED  BY <1>1, <1>2, <1>3, <1>4, <1>5, <1>8, <1>9, <1>10, <2>1, MoveKept
<1>11. CASE ~makes
  <2>1. refs' = refs
    BY <1>11 DEF PublishOK
  <2> DEFINE new == [hook[p] EXCEPT !.pc = "marked"]
  <2>2. /\ HookStep(p, new) /\ Turned(hook[p], new, "marked", hook[p].failed, hook[p].final)
        /\ hook'[p].pc = "marked" /\ hook'[p].final = hook[p].final
    BY <1>1, <1>2, StepFacts
  <2> HIDE DEF new
  <2>3. RecordInv(p)'
    BY <1>1, <2>2, WayFacts, RecordSame
  <2>4. told' \in [Pushes -> Tolds] /\ trouble' \in 0..MaxTrouble /\ told' = told
    BY <1>1, TypeFacts
  <2>5. /\ NamedAt(p, "marked", hook[p].final.status, refs[TaskRef(Run(p))])
        /\ DeliveredAt(p, "marked", hook[p].final.status, hook[p].failed, told'[p].status,
                       refs[TaskRef(Run(p))], refs[OKRef(Run(p))])
    BY <1>8, <1>9, <2>1, <2>4
  <2> QED  BY <1>1, <1>2, <2>1, <2>2, <2>3, <2>4, <2>5, WayFacts, QuietKept
<1> QED  BY <1>10, <1>11

\* Expired names go.
LEMMA SweepKept ==
    ASSUME IInv, NEW p \in Pushes, Sweep(p)
    PROVE  IInv'
<1> DEFINE pc == IF hook[p].detach THEN "leaving" ELSE "swept"
           new == [hook[p] EXCEPT !.pc = pc]
<1>1. /\ hook[p].pc = "released" /\ hook[p].pc \in Received /\ Step(p, pc)
      /\ refs' = Swept /\ UNCHANGED <<task, job, told, aged, trouble>>
  BY DEF Sweep, Received
<1>2. pc \in {"leaving", "swept"} /\ pc \in Received
  BY DEF Received
<1> HIDE DEF pc
<1>3. /\ HookStep(p, new) /\ Turned(hook[p], new, pc, hook[p].failed, hook[p].final)
      /\ hook'[p].pc = pc /\ hook'[p].final = hook[p].final
  BY <1>1, <1>2, StepFacts
<1> HIDE DEF new
<1>4. /\ refs' \in [Refs -> Objects \cup {None}]
      /\ \A ref \in Refs : /\ ref \in Expired => refs'[ref] = None
                           /\ ref \notin Expired => refs'[ref] = refs[ref]
  BY <1>1, TypeFacts DEF Swept
<1>5. AnonRef \notin Expired /\ AnonRef \in Refs
  BY RefFacts DEF Expired, Kept
<1>6. /\ TaskRef(Run(p)) \in Refs /\ OKRef(Run(p)) \in Refs
  BY RefFacts, RunFacts
<1>7. /\ refs'[TaskRef(Run(p))] \in {None, refs[TaskRef(Run(p))]}
      /\ refs'[OKRef(Run(p))] \in {None, refs[OKRef(Run(p))]}
      /\ Fresh(p) => refs'[TaskRef(Run(p))] = refs[TaskRef(Run(p))]
  BY <1>4, <1>6, FreshFacts
<1>8. RecordInv(p)'
  BY <1>1, <1>2, <1>3, WayFacts, RecordSame
<1>9. NamedAt(p, pc, hook[p].final.status, refs'[TaskRef(Run(p))])
  BY <1>1, <1>2, <1>7, WayFacts, Now DEF NamedAt
<1>10. DeliveredAt(p, pc, hook[p].final.status, hook[p].failed, told'[p].status,
                   refs'[TaskRef(Run(p))], refs'[OKRef(Run(p))])
  BY <1>1, <1>2, <1>7, WayFacts, Now DEF DeliveredAt
<1>11. told' \in [Pushes -> Tolds] /\ told' = told /\ aged' = aged /\ trouble' \in 0..MaxTrouble
  BY <1>1, TypeFacts
<1>12. /\ refs'[AnonRef] \in {None, refs[AnonRef]}
       /\ \A ref \in Refs : refs'[ref] = refs[ref] \/ (ref \in Expired /\ refs'[ref] = None)
  BY <1>4, <1>5
<1>13. pc \in Received \cup {"done", "dead", "uncleared"} /\ pc # "moved" /\ pc # "done"
  BY <1>2
<1> QED  BY <1>1, <1>3, <1>4, <1>7, <1>8, <1>9, <1>10, <1>11, <1>12, <1>13, WayFacts, WalkKept

\* What is read of a task that is over stays so.
LEMMA GetFinalKept ==
    ASSUME IInv, NEW p \in Pushes, GetFinal(p)
    PROVE  IInv'
<1> DEFINE final == Read(task[p])
           new == [hook[p] EXCEPT !.pc = "read", !.final = final]
<1>1. /\ hook[p].pc = "swept" /\ hook[p].pc \in Received
      /\ hook' = [hook EXCEPT ![p] = new] /\ UNCHANGED <<refs, task, job, told, aged>>
      /\ trouble' \in 0..MaxTrouble
  BY TypeFacts, TroubleFacts DEF GetFinal, Received
<1>2. /\ final \in [status : Statuses, exit : 0..1, result : BOOLEAN]
      /\ final.status = task[p].status /\ final.exit = task[p].exit
      /\ final.result = task[p].result
  BY TypeFacts DEF Read, Records
<1> HIDE DEF final
<1>3. Turned(hook[p], new, "read", hook[p].failed, final) /\ "read" \in Received
  BY <1>1, <1>2, WayFacts, TurnFacts DEF Received
<1> HIDE DEF new
<1>4. hook'[p] = new /\ new.pc = "read" /\ new.final = final
  BY <1>1, <1>3, TypeFacts DEF Turned
<1>5. RecordInv(p)'
  BY <1>1, <1>2, <1>4, WayFacts DEF IInv, RecordInv, Final, Settled
<1>6. /\ NamedAt(p, "read", final.status, refs[TaskRef(Run(p))])
      /\ DeliveredAt(p, "read", final.status, hook[p].failed, told'[p].status,
                     refs[TaskRef(Run(p))], refs[OKRef(Run(p))])
  BY <1>1, WayFacts, Now DEF NamedAt, DeliveredAt
<1>7. HookStep(p, new) /\ told' \in [Pushes -> Tolds] /\ told' = told
  BY <1>1, TypeFacts DEF HookStep
<1> QED  BY <1>1, <1>3, <1>5, <1>6, <1>7, WayFacts, QuietKept

\* What the client has read after the last of a hook.
LEMMA ToldFacts ==
    ASSUME IInv, NEW p \in Pushes, hook[p].pc \in {"marked", "leaving"},
           told' = IF hook[p].pc = "marked"
                   THEN [told EXCEPT ![p] = Marker(hook[p].final)] ELSE told
    PROVE  /\ told' \in [Pushes -> Tolds] /\ \A q \in Pushes \ {p} : told'[q] = told[q]
           /\ told'[p].status \in Final =>
                  hook[p].pc = "marked" /\ told'[p].status = hook[p].final.status
           /\ told'[p].status \in Settled => told'[p] = Marker(task[p])
           /\ told'[p].status = "failed" <=> told'[p].exit = 1
<1>1. Marker(hook[p].final) \in Tolds
  BY TypeFacts DEF Marker, Hooks, Tolds
<1>2. /\ told' \in [Pushes -> Tolds] /\ \A q \in Pushes \ {p} : told'[q] = told[q]
      /\ hook[p].pc = "marked" => told'[p] = Marker(hook[p].final)
      /\ hook[p].pc = "leaving" => told'[p] = told[p]
  BY <1>1, TypeFacts
<1>3. /\ Marker(hook[p].final).status = hook[p].final.status
      /\ Marker(hook[p].final).exit = hook[p].final.exit
      /\ hook[p].final.status = "failed" <=> hook[p].final.exit = 1
      /\ hook[p].final.status \in Settled => Marker(hook[p].final) = Marker(task[p])
  BY DEF IInv, RecordInv, Marker
<1>4. hook[p].pc \in Received
  BY DEF Received
<1>5. CASE hook[p].pc = "marked"
  BY <1>2, <1>3, <1>5
<1>6. CASE hook[p].pc = "leaving"
  BY <1>2, <1>4, <1>6, WayFacts DEF Final, Settled
<1> QED  BY <1>2, <1>5, <1>6

\* The client reads the verdict, and the landing pad is cleared.
LEMMA LeaveKept ==
    ASSUME IInv, NEW p \in Pushes, Leave(p)
    PROVE  IInv'
<1> DEFINE new == [hook[p] EXCEPT !.pc = "done", !.final = Unread]
<1>1. /\ hook[p].pc \in {"marked", "leaving"} /\ hook[p].pc \in Received
      /\ hook' = [hook EXCEPT ![p] = new] /\ UNCHANGED <<task, job, aged, trouble>>
      /\ ClearAnon(p)
  BY TypeFacts DEF Leave, Received
<1>2. Unread \in [status : Statuses, exit : 0..1, result : BOOLEAN]
  BY DEF Unread, Read, NoTask, NewTask, Statuses
<1>3. Turned(hook[p], new, "done", hook[p].failed, Unread)
  BY <1>1, <1>2, WayFacts, TurnFacts DEF Over
<1> HIDE DEF new
<1>4. hook'[p] = new /\ new.pc = "done" /\ new.final = Unread
  BY <1>1, <1>3, TypeFacts DEF Turned
<1>5. /\ told' \in [Pushes -> Tolds] /\ \A q \in Pushes \ {p} : told'[q] = told[q]
      /\ told'[p].status \in Final =>
             hook[p].pc = "marked" /\ told'[p].status = hook[p].final.status
      /\ told'[p].status \in Settled => told'[p] = Marker(task[p])
      /\ told'[p].status = "failed" <=> told'[p].exit = 1
  BY <1>1, ToldFacts DEF Leave
<1>6. RecordInv(p)'
  <2>1. UNCHANGED <<task, job>> /\ Marker(task[p])' = Marker(task[p])
    BY <1>1 DEF Marker
  <2>2. /\ Unread.status \notin Final /\ Unread.status \notin Settled /\ Unread.exit = 0
        /\ Unread.status = "none"
    BY <1>1, WayFacts DEF Final, Settled
  <2>3. RecordInv(p)
    BY DEF IInv
  <2> QED  BY <1>4, <1>5, <2>1, <2>2, <2>3 DEF RecordInv
<1>7. /\ refs' \in [Refs -> Objects \cup {None}]
      /\ refs'[AnonRef] \in {None, refs[AnonRef]}
      /\ hook[p].ref = AnonRef => refs'[AnonRef] = None
      /\ \A ref \in Refs : ref # AnonRef => refs'[ref] = refs[ref]
  BY <1>1, RefFacts, TypeFacts DEF ClearAnon, UpdateRef
<1>8. /\ TaskRef(Run(p)) \in Refs /\ OKRef(Run(p)) \in Refs /\ AnonRef[1] = "tasks"
      /\ TaskRef(Run(p)) # AnonRef /\ OKRef(Run(p)) # AnonRef
  BY RefFacts, RunFacts
<1>9. refs'[TaskRef(Run(p))] = refs[TaskRef(Run(p))] /\ refs'[OKRef(Run(p))] = refs[OKRef(Run(p))]
  BY <1>7, <1>8
<1>10. NamedAt(p, "done", Unread.status, refs'[TaskRef(Run(p))])
  BY DEF NamedAt
<1>11. DeliveredAt(p, "done", Unread.status, hook[p].failed, told'[p].status,
                   refs'[TaskRef(Run(p))], refs'[OKRef(Run(p))])
  BY <1>5, <1>9, WayFacts, <1>1, Now DEF DeliveredAt, Final, Settled
<1>12. HookStep(p, new) /\ aged' = aged /\ trouble' \in 0..MaxTrouble
  BY <1>1, TypeFacts DEF HookStep
<1>13. \A ref \in Refs : refs'[ref] = refs[ref] \/ ref[1] \in {"tasks", "heads", "src", "kranq"}
  BY <1>7, <1>8
<1> QED  BY <1>1, <1>3, <1>5, <1>6, <1>7, <1>9, <1>10, <1>11, <1>12, <1>13, WayFacts, WalkKept

\* The client reads the verdict, and the landing pad is not cleared.
LEMMA LeaveUnclearedKept ==
    ASSUME IInv, NEW p \in Pushes, LeaveUncleared(p)
    PROVE  IInv'
<1> DEFINE new == [hook[p] EXCEPT !.pc = "uncleared", !.final = Unread]
<1>1. /\ hook[p].pc \in {"marked", "leaving"} /\ hook[p].pc \in Received
      /\ hook' = [hook EXCEPT ![p] = new] /\ UNCHANGED <<refs, task, job, aged>>
      /\ trouble' \in 0..MaxTrouble
  BY TypeFacts, TroubleFacts DEF LeaveUncleared, Received
<1>2. Unread \in [status : Statuses, exit : 0..1, result : BOOLEAN]
  BY DEF Unread, Read, NoTask, NewTask, Statuses
<1>3. Turned(hook[p], new, "uncleared", hook[p].failed, Unread)
  BY <1>1, <1>2, WayFacts, TurnFacts DEF Over
<1> HIDE DEF new
<1>4. hook'[p] = new /\ new.pc = "uncleared" /\ new.final = Unread
  BY <1>1, <1>3, TypeFacts DEF Turned
<1>5. /\ told' \in [Pushes -> Tolds] /\ \A q \in Pushes \ {p} : told'[q] = told[q]
      /\ told'[p].status \in Settled => told'[p] = Marker(task[p])
      /\ told'[p].status = "failed" <=> told'[p].exit = 1
  BY <1>1, ToldFacts DEF LeaveUncleared
<1>6. RecordInv(p)'
  <2>1. UNCHANGED <<task, job>> /\ Marker(task[p])' = Marker(task[p])
    BY <1>1 DEF Marker
  <2>2. /\ Unread.status \notin Final /\ Unread.status \notin Settled /\ Unread.exit = 0
        /\ Unread.status = "none"
    BY <1>1, WayFacts DEF Final, Settled
  <2>3. RecordInv(p)
    BY DEF IInv
  <2> QED  BY <1>4, <1>5, <2>1, <2>2, <2>3 DEF RecordInv
<1>7. /\ NamedAt(p, "uncleared", Unread.status, refs[TaskRef(Run(p))])
      /\ DeliveredAt(p, "uncleared", Unread.status, hook[p].failed, told'[p].status,
                     refs[TaskRef(Run(p))], refs[OKRef(Run(p))])
  BY DEF NamedAt, DeliveredAt
<1>8. HookStep(p, new)
  BY <1>1, TypeFacts DEF HookStep
<1> QED  BY <1>1, <1>3, <1>5, <1>6, <1>7, <1>8, WayFacts, QuietKept DEF Received

-----------------------------------------------------------------------------
(* Before a hook runs.                                                     *)

\* What a push is before its hook, and what is heard of it.
LEMMA BlankFacts ==
    /\ Idle \in Hooks /\ Idle.final = Unread /\ Idle.ref = AnonRef
    /\ \A p \in Pushes : AnonRef \in Targets(p)
    /\ Unread.status \notin Final /\ NoTask.status \notin Final /\ Unheard.status \notin Final
    /\ Unread.exit = 0 /\ NoTask.exit = 0 /\ Unheard.exit = 0 /\ NewTask.exit = 0
    /\ NewTask \in Records /\ NewTask.status = "queued"
<1>1. Unread \in [status : Statuses, exit : 0..1, result : BOOLEAN]
  BY DEF Unread, Read, NoTask, NewTask, Statuses
<1>2. Idle \in Hooks
  BY <1>1, RefFacts DEF Idle, Hooks
<1>3. \A p \in Pushes : AnonRef \in Targets(p)
  BY DEF Targets
<1>4. Unread.status \notin Final /\ NoTask.status \notin Final /\ Unheard.status \notin Final
  BY DEF Unread, Read, NoTask, NewTask, Unheard, Final
<1>5. NewTask \in Records /\ NewTask.status = "queued"
  BY DEF NewTask, Records, Statuses
<1>6. Unread.exit = 0 /\ NoTask.exit = 0 /\ Unheard.exit = 0 /\ NewTask.exit = 0
  BY DEF Unread, Read, NoTask, NewTask, Unheard
<1> QED  BY <1>2, <1>3, <1>4, <1>5, <1>6 DEF Idle

\* A push that has run no hook, and runs none yet.
LEMMA NotYetKept ==
    ASSUME IInv, NEW p \in Pushes, ~Began(p), NEW new \in Hooks,
           hook' = [hook EXCEPT ![p] = new], new.ref \in Targets(p),
           new.pc \in {"sent", "uptodate", "declined"}, new.final = Unread,
           new.pc = "sent" => new.commit \in Commits,
           UNCHANGED <<refs, task, job, told, aged, trouble>>
    PROVE  IInv'
<1>1. /\ TypeOK' /\ hook'[p] = new /\ \A q \in Pushes \ {p} : hook'[q] = hook[q]
      /\ task' = task /\ job' = job
  <2>1. HookStep(p, new)
    BY DEF HookStep
  <2>2. /\ refs' \in [Refs -> Objects \cup {None}] /\ told' \in [Pushes -> Tolds]
        /\ aged' \subseteq Pushes /\ trouble' \in 0..MaxTrouble
    BY TypeFacts
  <2> QED  BY <2>1, <2>2, HookTypes
<1>2. ~Began(p)'
  BY <1>1 DEF Began
<1>3. Steady(p) /\ Mine(p) /\ Earned(p)
  BY <1>1, RefFacts DEF Steady, Mine, Earned
<1>4. Clears(p)
  BY DEF Clears, Began, Received
<1>5. task[p] = NoTask /\ job[p] = "none" /\ told[p] = Unheard
  BY DEF IInv, StartInv
<1>6. StartInv(p)'
  BY <1>1, <1>2, <1>5 DEF StartInv
<1>7. RecordInv(p)' /\ ResultInv(p)'
  <2>1. RecordInv(p)'
    BY <1>1, <1>5, BlankFacts DEF RecordInv, Final, Settled
  <2>2. ResultInv(p)'
    BY <1>1, <1>5, BlankFacts DEF ResultInv, Final
  <2> QED  BY <2>1, <2>2
<1>8. NameInv(p)' /\ DeliveryInv(p)'
  BY <1>2 DEF NameInv, DeliveryInv
<1> QED  BY <1>1, <1>3, <1>4, <1>6, <1>7, <1>8, StepKept

\* The pre-receive hook declines a push.
LEMMA DeclineKept ==
    ASSUME IInv, NEW p \in Pushes, hook[p].pc = "sent", Decline(p),
           UNCHANGED <<refs, task, job, told, aged, trouble>>
    PROVE  IInv'
<1> DEFINE new == [Idle EXCEPT !.pc = "declined"]
<1>3. new \in Hooks /\ new.pc = "declined" /\ new.final = Unread /\ new.ref \in Targets(p)
  BY BlankFacts DEF Hooks, Over
<1>4. hook' = [hook EXCEPT ![p] = new] /\ ~Began(p)
  BY DEF Decline, Began
<1> HIDE DEF new
<1> QED  BY <1>3, <1>4, NotYetKept

\* A client sends what it has.
LEMMA SendKept ==
    ASSUME IInv, NEW p \in Pushes, Send(p)
    PROVE  IInv'
<1> PICK ref \in Targets(p), c \in Commits, detach \in BOOLEAN :
        hook' = [hook EXCEPT ![p] =
               IF refs[ref] = c THEN [Idle EXCEPT !.pc = "uptodate"]
               ELSE [Idle EXCEPT !.pc = "sent", !.ref = ref, !.commit = c,
                                 !.old = refs[ref], !.detach = detach]]
  BY DEF Send
<1>1. ~Began(p) /\ UNCHANGED <<refs, task, job, told, aged, trouble>>
  BY DEF Send, Began
<1>2. refs[ref] \in Objects \cup {None}
  BY TypeFacts, TargetFacts
<1>3. CASE refs[ref] = c
  <2> DEFINE new == [Idle EXCEPT !.pc = "uptodate"]
  <2>1. new \in Hooks /\ new.pc = "uptodate" /\ new.final = Unread /\ new.ref \in Targets(p)
    BY BlankFacts DEF Hooks, Over
  <2>2. hook' = [hook EXCEPT ![p] = new]
    BY <1>3
  <2> HIDE DEF new
  <2> QED  BY <1>1, <2>1, <2>2, NotYetKept
<1>4. CASE refs[ref] # c
  <2> DEFINE old == refs[ref]
             new == [Idle EXCEPT !.pc = "sent", !.ref = ref, !.commit = c,
                                 !.old = old, !.detach = detach]
  <2>1. hook' = [hook EXCEPT ![p] = new]
    BY <1>4
  <2> HIDE DEF old
  <2>2. /\ new \in Hooks /\ new.pc = "sent" /\ new.final = Unread
        /\ new.ref \in Targets(p) /\ new.commit \in Commits
    <3>1. old \in Objects \cup {None} /\ ref \in Refs
      BY <1>2, TargetFacts DEF old
    <3> QED  BY <3>1, BlankFacts DEF Hooks
  <2> HIDE DEF new
  <2> QED  BY <1>1, <2>1, <2>2, NotYetKept
<1> QED  BY <1>3, <1>4

\* The ref moves, and a run's name that nobody had is the push's own.
LEMMA ReceiveKept ==
    ASSUME IInv, NEW p \in Pushes, Receive(p)
    PROVE  IInv'
<1>1. /\ hook[p].pc = "sent" /\ UNCHANGED <<task, job, told, aged, trouble>>
      /\ ~Began(p)
  BY DEF Receive, Began
<1>2. CASE Decline(p) /\ UNCHANGED refs
  BY <1>1, <1>2, DeclineKept
<1>3. CASE /\ UpdateRef(hook[p].ref, hook[p].commit)
           /\ hook' = [hook EXCEPT ![p].pc = "moved", ![p].old = None]
  <2> DEFINE new == [hook[p] EXCEPT !.pc = "moved", !.old = None]
  <2>1. /\ hook[p].commit \in Commits /\ hook[p].commit \in Objects \cup {None}
        /\ hook[p].final = Unread
        /\ task[p] = NoTask /\ job[p] = "none" /\ told[p] = Unheard
    BY <1>1 DEF IInv, StartInv, RecordInv, Objects
  <2>2. /\ new \in Hooks /\ new.pc = "moved" /\ new.ref = hook[p].ref
        /\ new.commit = hook[p].commit /\ new.final = hook[p].final
    BY TypeFacts DEF Hooks, Received
  <2>3. hook' = [hook EXCEPT ![p] = new]
    BY <1>3, TypeFacts
  <2> HIDE DEF new
  <2>4. hook[p].ref \in Targets(p) /\ hook[p].ref \in Refs
    BY TypeFacts, RunFacts
  <2>5. /\ refs' \in [Refs -> Objects \cup {None}] /\ refs'[hook[p].ref] = hook[p].commit
        /\ \A other \in Refs : other # hook[p].ref => refs'[other] = refs[other]
    BY <1>3, <2>1, <2>4, UpdateFacts
  <2>6. /\ TypeOK' /\ hook'[p] = new /\ \A q \in Pushes \ {p} : hook'[q] = hook[q]
        /\ task' = task /\ job' = job
    <3>1. HookStep(p, new)
      BY <1>1, <2>3 DEF HookStep
    <3>2. /\ told' \in [Pushes -> Tolds] /\ aged' \subseteq Pushes /\ trouble' \in 0..MaxTrouble
      BY <1>1, TypeFacts
    <3> QED  BY <2>2, <2>4, <2>5, <3>1, <3>2, HookTypes
  <2>7. Began(p)' /\ Run(p)' = Run(p) /\ told'[p] = Unheard
    BY <1>1, <2>1, <2>2, <2>6 DEF Began, Run
  <2>8. OKRef(Run(p)) \in Refs /\ TaskRef(Run(p)) \in Refs /\ AnonRef \in Refs
    BY RefFacts, RunFacts
  <2>9. Steady(p)
    BY <1>1, <2>6 DEF Steady
  <2>10. Mine(p)
    BY <2>2, <2>5, <2>6, <2>7 DEF Mine
  <2>11. Earned(p)
    BY <2>2, <2>5, <2>6, <2>7, <2>8 DEF Earned, Pushed, OKRef
  <2>12. Clears(p)
    BY <1>1, <2>2, <2>5, <2>6, <2>8 DEF Clears, Received
  <2>13. StartInv(p)'
    BY <1>1, <2>1, <2>2, <2>6, <2>7 DEF StartInv
  <2>14. RecordInv(p)' /\ ResultInv(p)'
    BY <2>1, <2>2, <2>6, <2>7, BlankFacts DEF RecordInv, ResultInv, Final, Settled
  <2>15. Sole(p)' => refs[TaskRef(Run(p))] = None
    <3> SUFFICES ASSUME Sole(p)', refs[TaskRef(Run(p))] # None PROVE FALSE
      OBVIOUS
    <3> PICK q \in Pushes : Began(q) /\ Run(q) = Run(p)
      BY RunFacts DEF IInv, RunInv
    <3>1. q # p /\ hook'[q] = hook[q]
      BY <1>1, <2>6
    <3>2. Began(q)' /\ Run(q)' = Run(q)
      BY <3>1 DEF Began, Run
    <3> QED  BY <2>7, <3>1, <3>2 DEF Sole
  <2>16. NameInv(p)'
    BY <2>2, <2>5, <2>6, <2>7, <2>8, <2>15 DEF NameInv
  <2>17. DeliveryInv(p)'
    BY <2>2, <2>5, <2>6, <2>7 DEF DeliveryInv
  <2> QED  BY <2>6, <2>9, <2>10, <2>11, <2>12, <2>13, <2>14, <2>16, <2>17, StepKept
<1> QED  BY <1>2, <1>3 DEF Receive

-----------------------------------------------------------------------------
(* The task.                                                               *)

\* Only the task of p changes, one that a hook has submitted and that has not
\* succeeded, and of the refs only what its attempts write.
LEMMA TaskKept ==
    ASSUME IInv, NEW p \in Pushes, NEW record \in Records, NEW running \in {"none", "listed", "runs"},
           Began(p), hook[p].pc # "moved", task[p].status # "succeeded",
           task' = [task EXCEPT ![p] = record], job' = [job EXCEPT ![p] = running],
           UNCHANGED <<hook, told, aged>>, trouble' \in 0..MaxTrouble,
           refs' \in [Refs -> Objects \cup {None}],
           \A ref \in Refs : ref \notin {ResultRef(p), RunBranch(p)} => refs'[ref] = refs[ref],
           record.status = "failed" <=> record.exit = 1,
           running = "runs" => record.status \in {"running", "cancelled"},
           running = "listed" => record.status \in {"queued", "cancelled"},
           task[p].status \in Settled =>
               record.status = task[p].status /\ record.exit = task[p].exit,
           record.status = "succeeded" /\ record.result =>
               refs'[ResultRef(p)] = Product(p, record.attempts)
    PROVE  IInv'
<1>1. /\ task'[p] = record /\ job'[p] = running /\ hook' = hook /\ told' = told /\ aged' = aged
      /\ \A q \in Pushes \ {p} : task'[q] = task[q] /\ job'[q] = job[q]
  BY TypeFacts
<1>2. TypeOK'
  <2>1. task' \in [Pushes -> Records] /\ job' \in [Pushes -> {"none", "listed", "runs"}]
    BY TypeFacts
  <2> QED  BY <1>1, <2>1, TypeFacts DEF TypeOK, Hooks, Records, Tolds
<1>3. Steady(p)
  BY <1>1 DEF Steady, Began
<1>4. /\ AnonRef \in Refs /\ AnonRef # ResultRef(p) /\ AnonRef # RunBranch(p)
      /\ RunBranch(p)[1] = "kranq" /\ Run(p) \in Runs
      /\ \A ref \in {TaskRef(Run(p)), OKRef(Run(p))} :
             ref \in Refs /\ ref # ResultRef(p) /\ ref # RunBranch(p)
  BY RefFacts, RunFacts
<1>5. /\ Run(p)' = Run(p) /\ Began(p)' /\ (Sole(p)' <=> Sole(p)) /\ (Fresh(p)' <=> Fresh(p))
  BY <1>1 DEF Run, Began, Sole, Fresh, ResultRef
<1>6. Mine(p)
  BY <1>4, <1>5 DEF Mine
<1>7. refs'[TaskRef(Run(p))] = refs[TaskRef(Run(p))] /\ refs'[OKRef(Run(p))] = refs[OKRef(Run(p))]
  BY <1>4
<1>8. Earned(p)
  BY <1>5, <1>7 DEF Earned
<1>9. Clears(p)
  BY <1>1, <1>4 DEF Clears
<1>10. StartInv(p) /\ RecordInv(p) /\ NameInv(p) /\ DeliveryInv(p)
  BY DEF IInv
<1>11. StartInv(p)'
  BY <1>1, <1>5, <1>10 DEF StartInv
<1>12. /\ hook[p].final.status # "succeeded"
       /\ told[p].status # "succeeded"
  BY <1>10 DEF RecordInv, Final, Settled, Marker
<1>13. RecordInv(p)'
  <2>1. hook[p].final.status \in Settled =>
            hook[p].final.status = record.status /\ hook[p].final.exit = record.exit
    BY <1>10 DEF RecordInv
  <2>2. told[p].status \in Settled => told[p] = Marker(record)
    BY <1>10 DEF RecordInv, Marker
  <2> QED  BY <1>1, <1>10, <1>12, <2>1, <2>2 DEF RecordInv, Marker
<1>14. ResultInv(p)'
  BY <1>1 DEF ResultInv, Product
<1>15. NameInv(p)' /\ DeliveryInv(p)'
  BY <1>1, <1>5, <1>7, <1>10, <1>12 DEF NameInv, DeliveryInv
<1> QED  BY <1>2, <1>3, <1>6, <1>8, <1>9, <1>11, <1>13, <1>14, <1>15, StepKept

\* Whose task there is has been submitted.
LEMMA TaskFacts ==
    ASSUME IInv, NEW p \in Pushes, task[p].status # "none" \/ job[p] # "none"
    PROVE  /\ Began(p) /\ hook[p].pc # "moved" /\ task[p] \in Records
           /\ job[p] = "runs" => task[p].status \in {"running", "cancelled"}
           /\ job[p] = "listed" => task[p].status \in {"queued", "cancelled"}
           /\ task[p].status = "failed" <=> task[p].exit = 1
           /\ ResultRef(p) \in Refs /\ RunBranch(p) \in Refs /\ ResultRef(p) # RunBranch(p)
           /\ hook[p].commit \in Objects \cup {None}
           /\ Product(p, task[p].attempts) \in Objects \cup {None}
<1>1. Began(p) /\ hook[p].pc # "moved"
  BY DEF IInv, StartInv, NoTask, NewTask
<1>2. task[p] \in Records
  BY TypeFacts
<1>3. hook[p].commit \in Objects \cup {None}
  BY TypeFacts DEF Hooks, Objects
<1>4. Product(p, task[p].attempts) \in Objects \cup {None}
  BY <1>2 DEF Product, Objects, Records
<1> QED  BY <1>1, <1>2, <1>3, <1>4, RefFacts DEF IInv, RecordInv

\* A hook submits its task, which has done nothing yet.
LEMMA SubmitKept ==
    ASSUME IInv, NEW p \in Pushes, Submit(p)
    PROVE  IInv'
<1> DEFINE new == [hook[p] EXCEPT !.pc = "submitted"]
<1>1. /\ hook[p].pc = "moved" /\ hook[p].pc \in Received
      /\ hook' = [hook EXCEPT ![p] = new] /\ task' = [task EXCEPT ![p] = NewTask]
      /\ UNCHANGED <<refs, job, told, aged, trouble>>
  BY TypeFacts DEF Submit, Step, Received
<1>2. /\ new \in Hooks /\ new.pc = "submitted" /\ new.ref = hook[p].ref
      /\ new.commit = hook[p].commit /\ new.final = hook[p].final /\ new.failed = hook[p].failed
  BY TypeFacts DEF Hooks, Received
<1> HIDE DEF new
<1>3. /\ hook'[p] = new /\ task'[p] = NewTask /\ job' = job /\ told' = told /\ aged' = aged
      /\ refs' = refs
      /\ \A q \in Pushes \ {p} : hook'[q] = hook[q] /\ task'[q] = task[q]
  BY <1>1, TypeFacts
<1>4. TypeOK'
  <2>1. hook' \in [Pushes -> Hooks] /\ task' \in [Pushes -> Records]
    BY <1>1, <1>2, BlankFacts, TypeFacts
  <2>2. \A q \in Pushes : hook'[q].ref \in Targets(q)
    BY <1>2, <1>3, TypeFacts
  <2> QED  BY <1>1, <2>1, <2>2, TypeFacts DEF TypeOK, Hooks, Records, Tolds
<1>5. /\ Began(p) /\ Began(p)' /\ Run(p)' = Run(p) /\ (Fresh(p)' <=> Fresh(p))
      /\ \A q \in Pushes \ {p} : (Began(q)' <=> Began(q)) /\ Run(q)' = Run(q)
  BY <1>1, <1>2, <1>3 DEF Began, Run, Fresh
<1>6. Sole(p)' <=> Sole(p)
  BY <1>3, <1>5 DEF Sole, ResultRef
<1>7. /\ StartInv(p) /\ RecordInv(p) /\ NameInv(p) /\ DeliveryInv(p)
      /\ task[p] = NoTask /\ job[p] = "none" /\ told[p] = Unheard /\ hook[p].final = Unread
  BY <1>1, <1>5 DEF IInv, StartInv, RecordInv
<1>8. Steady(p)
  BY <1>2, <1>3, <1>5, <1>7, BlankFacts DEF Steady, Final
<1>9. Mine(p) /\ Earned(p)
  BY <1>3 DEF Mine, Earned
<1>10. Clears(p)
  BY <1>1, <1>2, <1>3 DEF Clears, Received
<1>11. StartInv(p)'
  BY <1>2, <1>3, <1>5, <1>7 DEF StartInv
<1>12. RecordInv(p)' /\ ResultInv(p)'
  BY <1>2, <1>3, <1>7, BlankFacts DEF RecordInv, ResultInv, Final, Settled
<1>13. NameInv(p)' /\ DeliveryInv(p)'
  BY <1>1, <1>2, <1>3, <1>5, <1>6, <1>7 DEF NameInv, DeliveryInv
<1> QED  BY <1>4, <1>8, <1>9, <1>10, <1>11, <1>12, <1>13, StepKept

\* A tick lists a task.
LEMMA ListKept ==
    ASSUME IInv, NEW p \in Pushes, List(p)
    PROVE  IInv'
<1>1. /\ task[p].status = "queued" /\ UNCHANGED <<refs, hook, task, told, aged, trouble>>
      /\ job' = [job EXCEPT ![p] = "listed"]
  BY DEF List
<1>2. task' = [task EXCEPT ![p] = task[p]] /\ refs' \in [Refs -> Objects \cup {None}]
      /\ trouble' \in 0..MaxTrouble
  BY <1>1, TypeFacts
<1>3. task[p].status \notin Final
  BY <1>1 DEF Final
<1> QED  BY <1>1, <1>2, <1>3, TaskFacts, TaskKept DEF Final, Settled

\* A tick holds back a task it has listed.
LEMMA HoldBackKept ==
    ASSUME IInv, NEW p \in Pushes, HoldBack(p)
    PROVE  IInv'
<1> DEFINE queued == [task[p] EXCEPT !.status = "queued"]
<1>1. /\ job[p] = "listed" /\ job' = [job EXCEPT ![p] = "none"]
      /\ UNCHANGED <<refs, hook, told, aged, trouble>>
  BY DEF HoldBack
<1>2. task[p] \in Records /\ task[p].status \in {"queued", "cancelled"} /\ task[p].exit # 1
  BY <1>1, TaskFacts
<1>3. queued \in Records /\ queued.status = "queued" /\ queued.exit = task[p].exit
  BY <1>2 DEF Records, Statuses
<1>4. \E record \in {task[p], queued} : task' = [task EXCEPT ![p] = record]
  <2>1. CASE task' = task
    BY <2>1, TypeFacts
  <2>2. CASE task' = [task EXCEPT ![p].status = "queued"]
    BY <2>2, TypeFacts
  <2> QED  BY <2>1, <2>2 DEF HoldBack
<1> HIDE DEF queued
<1>5. PICK record \in Records :
          /\ task' = [task EXCEPT ![p] = record] /\ record.exit # 1
          /\ record.status \in {"queued", "cancelled"}
  BY <1>2, <1>3, <1>4
<1>6. /\ refs' = refs /\ refs' \in [Refs -> Objects \cup {None}] /\ trouble' \in 0..MaxTrouble
      /\ task[p].status \notin Settled /\ task[p].status # "succeeded"
      /\ record.status # "failed" /\ record.status # "succeeded"
  BY <1>1, <1>2, <1>5, TypeFacts DEF Settled, Final
<1>7. Began(p) /\ hook[p].pc # "moved"
  BY <1>1, TaskFacts
<1> QED  BY <1>1, <1>5, <1>6, <1>7, TaskKept

\* An attempt starts.
LEMMA StartAttemptKept ==
    ASSUME IInv, NEW p \in Pushes, StartAttempt(p)
    PROVE  IInv'
<1> DEFINE record == [task[p] EXCEPT !.status = "running", !.attempts = @ + 1]
<1>1. /\ job[p] = "listed" /\ UNCHANGED <<hook, told, aged, trouble>>
      /\ task' = [task EXCEPT ![p] = record] /\ job' = [job EXCEPT ![p] = "runs"]
      /\ UpdateRef(RunBranch(p), hook[p].commit)
  BY TypeFacts DEF StartAttempt, Stage
<1>2. task[p] \in Records /\ task[p].status \in {"queued", "cancelled"} /\ task[p].exit # 1
  BY <1>1, TaskFacts
<1>3. record \in Records /\ record.status = "running" /\ record.exit = task[p].exit
  <2>1. "running" \in Statuses /\ task[p].attempts + 1 \in Nat
    BY <1>2 DEF Records, Statuses
  <2> QED  BY <1>2, <2>1 DEF Records
<1> HIDE DEF record
<1>4. /\ refs' \in [Refs -> Objects \cup {None}]
      /\ \A ref \in Refs : ref # RunBranch(p) => refs'[ref] = refs[ref]
  BY <1>1, TaskFacts, UpdateFacts
<1>5. /\ trouble' \in 0..MaxTrouble /\ task[p].status \notin Settled
      /\ task[p].status # "succeeded" /\ Began(p) /\ hook[p].pc # "moved"
  BY <1>1, <1>2, TypeFacts, TaskFacts DEF Settled, Final
<1> QED  BY <1>1, <1>2, <1>3, <1>4, <1>5, TaskKept

\* What an attempt that ends does to the refs.
LEMMA CommitFacts ==
    ASSUME IInv, NEW p \in Pushes, NEW recorded \in BOOLEAN, CommitResult(p, recorded),
           job[p] = "runs"
    PROVE  /\ refs' \in [Refs -> Objects \cup {None}]
           /\ \A ref \in Refs : ref \notin {ResultRef(p), RunBranch(p)} => refs'[ref] = refs[ref]
           /\ recorded => refs'[ResultRef(p)] = Product(p, task[p].attempts)
<1>1. CASE ~recorded /\ UNCHANGED refs
  BY <1>1, TypeFacts
<1>2. CASE recorded /\ UpdateRef(ResultRef(p), Product(p, task[p].attempts))
  BY <1>2, TaskFacts, UpdateFacts
<1> QED  BY <1>1, <1>2 DEF CommitResult

\* An attempt ends, with its result committed or not.
LEMMA EndAttemptKept ==
    ASSUME IInv, NEW p \in Pushes, EndAttempt(p)
    PROVE  IInv'
<1> PICK recorded \in BOOLEAN, status \in {"succeeded", "failed", "queued"} :
        /\ IF status = "queued" THEN Trouble ELSE UNCHANGED trouble
        /\ CommitResult(p, recorded)
        /\ task' = [task EXCEPT
               ![p].result = recorded,
               ![p].status = IF @ \in Final /\ status # "queued" THEN @ ELSE status,
               ![p].exit = IF task[p].status \notin Final /\ status = "failed" THEN 1 ELSE @]
  BY DEF EndAttempt
<1> DEFINE became == IF task[p].status \in Final /\ status # "queued"
                     THEN task[p].status ELSE status
           exit == IF task[p].status \notin Final /\ status = "failed" THEN 1 ELSE task[p].exit
           record == [task[p] EXCEPT !.result = recorded, !.status = became, !.exit = exit]
<1>1. /\ job[p] = "runs" /\ job' = [job EXCEPT ![p] = "none"]
      /\ UNCHANGED <<hook, told, aged>> /\ trouble' \in 0..MaxTrouble
  BY TroubleFacts DEF EndAttempt
<1>2. task' = [task EXCEPT ![p] = record]
  BY TypeFacts
<1>3. /\ task[p] \in Records /\ task[p].status \in {"running", "cancelled"}
      /\ task[p].status = "failed" <=> task[p].exit = 1
  BY <1>1, TaskFacts
<1>4. /\ became \in Statuses /\ exit \in 0..1
      /\ became = "failed" <=> exit = 1
      /\ task[p].status \notin Settled
  BY <1>3 DEF Records, Statuses, Final, Settled
<1> HIDE DEF became, exit
<1>5. /\ record \in Records /\ record.status = became /\ record.exit = exit
      /\ record.result = recorded /\ record.attempts = task[p].attempts
  BY <1>3, <1>4 DEF Records
<1> HIDE DEF record
<1>6. task[p].status # "succeeded"
  BY <1>3
<1>7. /\ refs' \in [Refs -> Objects \cup {None}]
      /\ \A ref \in Refs : ref \notin {ResultRef(p), RunBranch(p)} => refs'[ref] = refs[ref]
      /\ recorded => refs'[ResultRef(p)] = Product(p, task[p].attempts)
  BY <1>1, CommitFacts
<1>8. record.status = "failed" <=> record.exit = 1
  BY <1>4, <1>5
<1>9. task[p].status \notin Settled
  BY <1>4
<1>10. record.status = "succeeded" /\ record.result =>
           refs'[ResultRef(p)] = Product(p, record.attempts)
  BY <1>5, <1>7
<1>11. Began(p) /\ hook[p].pc # "moved"
  BY <1>1, TaskFacts
<1> QED  BY <1>1, <1>2, <1>5, <1>6, <1>7, <1>8, <1>9, <1>10, <1>11, TaskKept

\* An attempt is lost.
LEMMA LoseAttemptKept ==
    ASSUME IInv, NEW p \in Pushes, LoseAttempt(p)
    PROVE  IInv'
<1> PICK committed \in BOOLEAN : CommitResult(p, committed)
  BY DEF LoseAttempt
<1>1. /\ job[p] = "runs" /\ job' = [job EXCEPT ![p] = "none"]
      /\ UNCHANGED <<hook, told, aged>> /\ trouble' \in 0..MaxTrouble
  BY TroubleFacts DEF LoseAttempt
<1>2. /\ task[p] \in Records /\ task[p].status \in {"running", "cancelled"}
      /\ task[p].status = "failed" <=> task[p].exit = 1
  BY <1>1, TaskFacts
<1>3. \E record \in Records :
          /\ task' = [task EXCEPT ![p] = record]
          /\ record.status # "succeeded" /\ (record.status = "failed" <=> record.exit = 1)
  <2>1. CASE UNCHANGED task
    <3>1. task' = [task EXCEPT ![p] = task[p]]
      BY <2>1, TypeFacts
    <3> QED  BY <1>2, <3>1
  <2>2. CASE /\ task[p].status = "running"
             /\ task' = [task EXCEPT ![p].status = "failed", ![p].exit = 1]
    <3> DEFINE record == [task[p] EXCEPT !.status = "failed", !.exit = 1]
    <3>1. task' = [task EXCEPT ![p] = record]
      BY <2>2, TypeFacts
    <3>2. record \in Records /\ record.status = "failed" /\ record.exit = 1
      <4>1. "failed" \in Statuses /\ 1 \in 0..1
        BY DEF Statuses, Final
      <4> QED  BY <1>2, <4>1 DEF Records
    <3> HIDE DEF record
    <3> QED  BY <3>1, <3>2
  <2>3. CASE task[p].status = "running" /\ task' = [task EXCEPT ![p].status = "lost"]
    <3> DEFINE record == [task[p] EXCEPT !.status = "lost"]
    <3>1. task' = [task EXCEPT ![p] = record]
      BY <2>3, TypeFacts
    <3>2. record \in Records /\ record.status = "lost" /\ record.exit = task[p].exit
      BY <1>2 DEF Records, Statuses, Final
    <3>3. task[p].exit # 1
      BY <1>2, <2>3
    <3> HIDE DEF record
    <3> QED  BY <3>1, <3>2, <3>3
  <2> QED  BY <2>1, <2>2, <2>3 DEF LoseAttempt
<1>4. task[p].status # "succeeded" /\ task[p].status \notin Settled
  BY <1>2 DEF Settled, Final
<1> QED  BY <1>1, <1>3, <1>4, TaskFacts, CommitFacts, TaskKept

\* A task is cancelled.
LEMMA CancelKept ==
    ASSUME IInv, NEW p \in Pushes, Cancel(p)
    PROVE  IInv'
<1> DEFINE record == [task[p] EXCEPT !.status = "cancelled"]
<1>1. /\ task[p].status \in {"queued", "running"} /\ trouble' \in 0..MaxTrouble
      /\ task' = [task EXCEPT ![p] = record] /\ UNCHANGED <<refs, hook, job, told, aged>>
  BY TypeFacts, TroubleFacts DEF Cancel
<1>2. record \in Records /\ record.status = "cancelled" /\ record.exit # 1
  BY <1>1, TaskFacts DEF Records, Statuses, Final
<1> HIDE DEF record
<1>3. job' = [job EXCEPT ![p] = job[p]] /\ job[p] \in {"none", "listed", "runs"}
      /\ refs' \in [Refs -> Objects \cup {None}] /\ refs' = refs
  BY <1>1, TypeFacts
<1>4. task[p].status \notin Settled /\ task[p].status # "none" /\ task[p].status # "succeeded"
  BY <1>1 DEF Settled, Final
<1> QED  BY <1>1, <1>2, <1>3, <1>4, TaskFacts, TaskKept

-----------------------------------------------------------------------------
(* The client, and time.                                                   *)

\* A client asks for the result later.
LEMMA AskAgainKept ==
    ASSUME IInv, NEW p \in Pushes, AskAgain(p)
    PROVE  IInv'
<1> DEFINE pc == IF hook[p].pc = "done" THEN "asked" ELSE hook[p].pc
           new == [hook[p] EXCEPT !.pc = pc]
<1>1. /\ hook[p].pc \in {"done", "uncleared", "dead"} /\ task[p].status \in Final
      /\ told' = [told EXCEPT ![p] = Marker(task[p])]
      /\ hook' = [hook EXCEPT ![p] = new] /\ UNCHANGED <<refs, task, job, aged, trouble>>
  BY TypeFacts DEF AskAgain, Step
<1>2. /\ pc \in {"dead", "uncleared", "asked"} /\ pc \in Over
      /\ hook[p].pc # "done" => pc = hook[p].pc
  BY <1>1 DEF Over
<1> HIDE DEF pc
<1>3. /\ new \in Hooks /\ new.pc = pc /\ new.ref = hook[p].ref
      /\ new.commit = hook[p].commit /\ new.final = hook[p].final
  BY <1>2, TypeFacts DEF Hooks
<1> HIDE DEF new
<1>4. Marker(task[p]) \in Tolds
  BY TypeFacts DEF Marker, Tolds, Records
<1>5. /\ told' \in [Pushes -> Tolds] /\ told'[p] = Marker(task[p])
      /\ \A q \in Pushes \ {p} : told'[q] = told[q]
  BY <1>1, <1>4, TypeFacts
<1>6. /\ TypeOK' /\ hook'[p] = new /\ \A q \in Pushes \ {p} : hook'[q] = hook[q]
      /\ task' = task /\ job' = job
  <2>1. HookStep(p, new)
    BY <1>1 DEF HookStep
  <2>2. /\ new.ref \in Targets(p) /\ refs' \in [Refs -> Objects \cup {None}]
        /\ aged' \subseteq Pushes /\ trouble' \in 0..MaxTrouble
    BY <1>1, <1>3, TypeFacts
  <2> QED  BY <1>3, <1>5, <2>1, <2>2, HookTypes
<1>7. Began(p) /\ Began(p)'
  BY <1>1, <1>2, <1>3, <1>6 DEF Began
<1>8. Steady(p)
  BY <1>1, <1>3, <1>5, <1>6, <1>7 DEF Steady
<1>9. Mine(p) /\ Earned(p)
  BY <1>1 DEF Mine, Earned
<1>10. Clears(p)
  BY <1>1, <1>2, <1>3, <1>6 DEF Clears, Received
<1>11. StartInv(p) /\ RecordInv(p) /\ ResultInv(p)
  BY DEF IInv
<1>12. StartInv(p)'
  BY <1>1, <1>2, <1>3, <1>6, <1>7, <1>11 DEF StartInv
<1>13. RecordInv(p)'
  <2>1. /\ Marker(task[p])' = Marker(task[p]) /\ Marker(task[p]).status = task[p].status
        /\ Marker(task[p]).exit = task[p].exit
    BY <1>6 DEF Marker
  <2> QED  BY <1>1, <1>2, <1>3, <1>5, <1>6, <1>11, <2>1 DEF RecordInv, Settled
<1>14. ResultInv(p)'
  <2>1. Sole(p)' => Sole(p)
    BY <1>7, <1>8, SoleBefore
  <2> QED  BY <1>1, <1>11, <2>1 DEF ResultInv, Product, ResultRef
<1>15. NameInv(p)' /\ DeliveryInv(p)'
  BY <1>2, <1>3, <1>6 DEF NameInv, DeliveryInv
<1> QED  BY <1>6, <1>8, <1>9, <1>10, <1>12, <1>13, <1>14, <1>15, StepKept

\* Time passes.
LEMMA AgeKept ==
    ASSUME IInv, NEW p \in Pushes, Age(p)
    PROVE  IInv'
<1>1. /\ aged' = aged \cup {p} /\ trouble' \in 0..MaxTrouble
      /\ UNCHANGED <<refs, hook, task, job, told>>
  BY TroubleFacts DEF Age
<1>2. TypeOK'
  BY <1>1, TypeFacts DEF TypeOK, Hooks, Records, Tolds
<1>3. Steady(p) /\ Mine(p) /\ Earned(p)
  BY <1>1 DEF Steady, Mine, Earned, Began
<1>4. Clears(p)
  BY <1>1 DEF Clears
<1>5. (Began(p)' <=> Began(p)) /\ Run(p)' = Run(p) /\ (Sole(p)' <=> Sole(p)) /\ ~Fresh(p)'
  BY <1>1 DEF Began, Run, Sole, Fresh, ResultRef
<1>6. StartInv(p) /\ RecordInv(p) /\ ResultInv(p) /\ NameInv(p)
  BY DEF IInv
<1>7. StartInv(p)' /\ RecordInv(p)'
  BY <1>1, <1>5, <1>6 DEF StartInv, RecordInv, Marker
<1>8. ResultInv(p)' /\ NameInv(p)'
  BY <1>1, <1>5, <1>6 DEF ResultInv, NameInv, Product, ResultRef
<1>9. DeliveryInv(p)'
  BY <1>5 DEF DeliveryInv
<1> QED  BY <1>2, <1>3, <1>4, <1>7, <1>8, <1>9, StepKept

-----------------------------------------------------------------------------
(* The theorems.                                                           *)

\* The invariant holds at first: no push, no task, no ref.
LEMMA InitHolds == Init => IInv
<1> SUFFICES ASSUME Init PROVE IInv
  OBVIOUS
<1>1. \A p \in Pushes : /\ hook[p] = Idle /\ ~Began(p) /\ task[p] = NoTask
                        /\ job[p] = "none" /\ told[p] = Unheard
  BY DEF Init, Began, Idle
<1>2. \A ref \in Refs : refs[ref] = None
  BY DEF Init
<1>3. TypeOK
  <2>1. NoTask \in Records /\ Unheard \in Tolds
    <3>1. NoTask \in Records
      BY BlankFacts DEF NoTask, Records, Statuses
    <3>2. Unheard \in Tolds
      BY DEF Unheard, Tolds, Statuses
    <3> QED  BY <3>1, <3>2
  <2>2. /\ hook \in [Pushes -> Hooks] /\ task \in [Pushes -> Records]
        /\ told \in [Pushes -> Tolds] /\ job \in [Pushes -> {"none", "listed", "runs"}]
        /\ refs \in [Refs -> Objects \cup {None}]
    BY <2>1, BlankFacts DEF Init
  <2>3. \A p \in Pushes : hook[p].ref \in Targets(p)
    BY <1>1, BlankFacts
  <2>4. trouble \in 0..MaxTrouble /\ aged \subseteq Pushes
    BY BoundsAssumption DEF Init
  <2> QED  BY <2>2, <2>3, <2>4 DEF TypeOK, Hooks, Records, Tolds
<1>4. ASSUME NEW p \in Pushes
      PROVE  /\ StartInv(p) /\ RecordInv(p) /\ ResultInv(p)
             /\ NameInv(p) /\ DeliveryInv(p)
  <2>1. hook[p].pc = "idle"
    BY <1>1 DEF Idle
  <2>2. StartInv(p)
    BY <1>1, <2>1 DEF StartInv
  <2>3. RecordInv(p) /\ ResultInv(p)
    BY <1>1, BlankFacts DEF RecordInv, ResultInv, Final, Settled
  <2> QED  BY <1>1, <2>2, <2>3 DEF NameInv, DeliveryInv
<1>5. \A run \in Runs : RunInv(run)
  BY <1>2, RefFacts DEF RunInv
<1>6. AnonIsCleared
  BY <1>2, RefFacts DEF AnonIsCleared
<1> QED  BY <1>3, <1>4, <1>5, <1>6 DEF IInv

\* Every operation keeps it.
LEMMA NextHolds == IInv /\ [Next]_vars => IInv'
<1> SUFFICES ASSUME IInv, [Next]_vars PROVE IInv'
  OBVIOUS
<1>1. CASE UNCHANGED vars
  <2>1. UNCHANGED <<refs, hook, task, job, told, aged, trouble>>
    BY <1>1 DEF vars
  <2>2. TypeOK' /\ AnonIsCleared'
    BY <2>1 DEF IInv, TypeOK, AnonIsCleared
  <2>3. \A p \in Pushes : /\ Began(p)' = Began(p) /\ Run(p)' = Run(p) /\ Sole(p)' = Sole(p)
                          /\ Fresh(p)' = Fresh(p) /\ Made(p)' = Made(p)
    BY <2>1 DEF Began, Run, Sole, Fresh, Made, Product, ResultRef
  <2>4. \A p \in Pushes : StartInv(p)' /\ RecordInv(p)' /\ ResultInv(p)'
    BY <2>1, <2>3 DEF IInv, StartInv, RecordInv, ResultInv, Marker, Product
  <2>5. \A p \in Pushes : NameInv(p)' /\ DeliveryInv(p)'
    BY <2>1, <2>3 DEF IInv, NameInv, DeliveryInv, Product
  <2>6. \A run \in Runs : RunInv(run)'
    BY <2>1, <2>3 DEF IInv, RunInv, Pushed, Marked, Product
  <2> QED  BY <2>2, <2>4, <2>5, <2>6 DEF IInv
<1>2. ASSUME NEW p \in Pushes, Send(p) \/ GitFails(p) \/ Die(p) \/ AskAgain(p) \/ Age(p)
      PROVE  IInv'
  BY <1>2, SendKept, GitFailsKept, DieKept, AskAgainKept, AgeKept
<1>3. ASSUME NEW p \in Pushes, Hook(p) PROVE IInv'
  <2>1. CASE HookValidate(p)
    BY <2>1, DeclineKept DEF HookValidate
  <2> QED  BY <1>3, <2>1, ReceiveKept, SubmitKept, RefusedKept, ReleaseRetainKept,
              ReleaseNameKept, ReleaseClearKept, SweepKept, GetFinalKept, GetFailsKept,
              PublishResultKept, PublishOKKept, LeaveKept, LeaveUnclearedKept DEF Hook
<1>4. ASSUME NEW p \in Pushes, Task(p) PROVE IInv'
  BY <1>4, ListKept, HoldBackKept, StartAttemptKept, EndAttemptKept, LoseAttemptKept,
     CancelKept DEF Task
<1> QED  BY <1>1, <1>2, <1>3, <1>4 DEF Next

\* However the hooks of several pushes interleave with each other and with the
\* jobs, and whatever fails or is cut off (hookRun, release, publish).
THEOREM Invariance == Spec => []IInv
<1> QED  BY InitHolds, NextHolds, PTL DEF Spec

\* The state keeps its shape.
THEOREM TypeCorrect == Spec => []TypeOK
<1>1. IInv => TypeOK
  BY DEF IInv
<1> QED  BY <1>1, Invariance, PTL

\* What a client reads of a task that is over is its record's last word, the
\* exit code included, unless that word is "cancelled" (hookRun, runResult).
THEOREM VerdictStands == Spec => []VerdictIsTrue
<1>1. IInv => VerdictIsTrue
  BY DEF IInv, RecordInv, VerdictIsTrue, Marker
<1> QED  BY <1>1, Invariance, PTL

\* A landing pad that holds a commit has a hook that will clear it, or one that
\* was killed or could not (hookRun, clearAnon).
THEOREM PadIsCleared == Spec => []AnonIsCleared
<1>1. IInv => AnonIsCleared
  BY DEF IInv
<1> QED  BY <1>1, Invariance, PTL

\* Who has the name for itself has it for itself among those that git accepted.
LEMMA AloneIsSole ==
    ASSUME NEW p \in Pushes, Alone(p)
    PROVE  Sole(p)
<1> QED  BY DEF Alone, Sole, Began

\* A pass marker was pushed as such, or made by a push whose task succeeded, of
\* what that push brought or of what the attempt that succeeded made (publish).
THEOREM MarkerIsEarned == Spec => []OkIsEarned
<1>1. IInv => OkIsEarned
  <2> SUFFICES ASSUME IInv, NEW run \in Runs, refs[OKRef(run)] # None
               PROVE  \E p \in Pushes :
                          \/ /\ hook[p].ref = OKRef(run) /\ hook[p].pc \in Received \cup Over
                             /\ refs[OKRef(run)] = hook[p].commit
                          \/ /\ Run(p) = run /\ task[p].status = "succeeded"
                             /\ Alone(p) => refs[OKRef(run)]
                                    \in {hook[p].commit, Product(p, task[p].attempts)}
    BY DEF OkIsEarned
  <2> PICK q \in Pushes : Pushed(q, run) \/ Marked(q, run)
    BY DEF IInv, RunInv
  <2>1. CASE Pushed(q, run)
    <3>1. hook[q].pc \in Received \cup Over
      BY <2>1, TypeFacts DEF Pushed, Began, Hooks
    <3> QED  BY <2>1, <3>1 DEF Pushed
  <2>2. CASE Marked(q, run)
    BY <2>2, AloneIsSole DEF Marked
  <2> QED  BY <2>1, <2>2
<1> QED  BY <1>1, Invariance, PTL

\* Who pulls the run's own name after the verdict gets what the attempt that
\* succeeded made, and the marker is on it (release, publish).
THEOREM ResultIsDelivered == Spec => []Delivered
<1>1. IInv => Delivered
  <2> SUFFICES ASSUME IInv, NEW p \in Pushes, hook[p].pc = "done", told[p].status = "succeeded",
                      Alone(p), Fresh(p), ~hook[p].failed
               PROVE  refs[TaskRef(Run(p))] = Made(p) /\ refs[OKRef(Run(p))] = Made(p)
    BY DEF Delivered, Made
  <2>1. DeliveryInv(p) /\ Began(p)
    BY DEF IInv, Began
  <2> QED  BY <2>1, AloneIsSole DEF DeliveryInv
<1> QED  BY <1>1, Invariance, PTL
=============================================================================
