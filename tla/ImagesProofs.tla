---------------------------- MODULE ImagesProofs ----------------------------
(***************************************************************************)
(* Theorems about the images, for any tree of images and any processes     *)
(* that build, use and prune them.                                         *)
(***************************************************************************)
EXTENDS Images, TLAPS

-----------------------------------------------------------------------------
(* The inductive invariant.                                                *)

\* A bare build is about the base, and is no part of Ensure.
BareInv(j) ==
    job[j].bare => job[j].level = 1 /\ job[j].pc \in {"delete", "forget", "make", "apply", "stop"}

\* Who builds an image has its lock, except a bare build.
LockInv(j) == job[j].pc \in Building /\ ~job[j].bare => lock[Name(j)] = j

\* What a job has passed on its way along the chain.
Passed(j) == {i \in 1..Len(Chain(j)) :
                  i < job[j].level \/ job[j].pc \in {"touch", "touching", "use"}}

\* A job among others that take the locks: what is behind it is complete, what it
\* builds does not pass for complete before it is.
SoundJob(j) ==
    /\ ~job[j].bare
    /\ \A i \in Passed(j) : Complete(Chain(j)[i])
    /\ job[j].pc \in Building \ {"recheck", "delete", "forget"} => Name(j) \notin meta
    /\ job[j].pc = "delete" => ~Complete(Name(j))
    /\ job[j].pc = "forget" => image[Name(j)] = "none"
    /\ job[j].pc \in {"start", "apply"} => job[j].from = "whole"
    /\ job[j].pc \in {"stop", "save"} => image[Name(j)] = "whole"
    /\ job[j].pc \notin {"half", "poor"} /\ job[j].from \in {"none", "whole"}

Sound ==
    /\ \A n \in Images : Complete(n) => image[n] = "whole"
    /\ \A j \in Jobs : SoundJob(j)

\* Who writes a record is alone with its temporary file, and finds there what it wrote.
SoundFiles ==
    /\ \A j \in Jobs : /\ open[j] \in {"no", "part", "written"}
                       /\ open[j] = "part" => part[Name(j)] = "empty"
                       /\ open[j] = "written" => part[Name(j)] = "whole"
    /\ \A j, k \in Jobs : j # k /\ open[j] # "no" /\ open[k] # "no" => Name(j) # Name(k)

IInv ==
    /\ TypeOK
    /\ prune.pc # "idle" => unlocked # 0
    /\ \A j \in Jobs : BareInv(j) /\ LockInv(j)
    /\ Guarded => Sound /\ SoundFiles

-----------------------------------------------------------------------------
(* Chains, and what becomes of a job's record.                             *)

JobPCs == {"look", "lock", "touch", "touching", "use"} \cup Building \cup Ended

JobRecords == [pc : JobPCs, level : Nat \ {0}, from : {"none", "half", "whole", "poor"},
               then : {"make", "fail"}, bare : BOOLEAN]

\* A chain is not empty and begins with the base.
LEMMA ChainFacts ==
    ASSUME NEW j \in Jobs
    PROVE  /\ Len(Chain(j)) \in Nat \ {0} /\ Chain(j)[1] = Base
           /\ \A i \in 1..Len(Chain(j)) : Chain(j)[i] \in Images
           /\ Wants[j] \in Images /\ Base \in Images
<1>1. Wants[j] \in Images /\ Base \in Images
    BY PathAssumption, JobsAssumption DEF PathAssumption, JobsAssumption
<1>2. CASE job[j].bare
    BY <1>1, <1>2 DEF Chain
<1>3. CASE ~job[j].bare
    <2>1. /\ Path[Wants[j]] \in Seq(Images) /\ Path[Wants[j]] # <<>>
          /\ Path[Wants[j]][1] = Base
        BY <1>1, PathAssumption DEF PathAssumption
    <2> QED
        BY <1>1, <1>3, <2>1 DEF Chain
<1> QED
    BY <1>2, <1>3

\* Whatever becomes of a job, its chain is not empty.
LEMMA NextChain ==
    ASSUME NEW j \in Jobs
    PROVE  Len(Chain(j)') \in Nat \ {0}
<1>1. Wants[j] \in Images
    BY ChainFacts
<1>2. Path[Wants[j]] \in Seq(Images) /\ Path[Wants[j]] # <<>>
    BY <1>1, PathAssumption DEF PathAssumption
<1>3. Len(Path[Wants[j]]) \in Nat \ {0}
    BY <1>2
<1>4. Len(<<Base>>) \in Nat \ {0}
    OBVIOUS
<1>5. Chain(j)' = <<Base>> \/ Chain(j)' = Path[Wants[j]]
    BY DEF Chain
<1> QED
    BY <1>3, <1>4, <1>5

\* The name of the image a job is at depends on the job alone.
LEMMA NameFacts ==
    ASSUME TypeOK, NEW j \in Jobs
    PROVE  /\ job[j] \in JobRecords
           /\ job[j].level \in 1..Len(Chain(j)) => Name(j) \in Images
           /\ job[j].pc \in {"look", "lock", "touching"} \cup Building =>
                  job[j].level \in 1..Len(Chain(j)) /\ Name(j) \in Images
           /\ job[j].level \in 1..(Len(Chain(j)) + 1)
           /\ job'[j] = job[j] => Chain(j)' = Chain(j) /\ Name(j)' = Name(j)
           /\ job'[j].bare = job[j].bare => Chain(j)' = Chain(j)
           /\ job'[j].bare = job[j].bare /\ job'[j].level = job[j].level => Name(j)' = Name(j)
<1>1. job[j] \in JobRecords
    BY DEF TypeOK, JobRecords, JobPCs
<1>2. /\ job[j].level \in 1..(Len(Chain(j)) + 1)
      /\ job[j].pc \in {"look", "lock", "touching"} \cup Building => job[j].level \in 1..Len(Chain(j))
    <2>1. job[j].level \in Nat \ {0} /\ Len(Chain(j)) \in Nat \ {0}
        BY <1>1, ChainFacts DEF JobRecords
    <2>2. /\ job[j].level <= Len(Chain(j)) + 1
          /\ job[j].pc \in {"look", "lock", "touching"} \cup Building =>
                 job[j].level <= Len(Chain(j))
        BY DEF TypeOK
    <2> QED
        BY <2>1, <2>2
<1>3. job[j].level \in 1..Len(Chain(j)) => Name(j) \in Images
    BY ChainFacts DEF Name
<1>4. job'[j].bare = job[j].bare => Chain(j)' = Chain(j)
    BY DEF Chain
<1>5. job'[j].bare = job[j].bare /\ job'[j].level = job[j].level => Name(j)' = Name(j)
    BY <1>4 DEF Name
<1> QED
    BY <1>1, <1>2, <1>3, <1>4, <1>5

\* The ways in which the record of a job changes.
LEMMA GotoShape ==
    ASSUME job \in [Jobs -> JobRecords], NEW j \in Jobs, NEW pc \in JobPCs, Goto(j, pc)
    PROVE  /\ job' \in [Jobs -> JobRecords]
           /\ \A k \in Jobs \ {j} : job'[k] = job[k]
           /\ job'[j].pc = pc /\ job'[j].level = job[j].level /\ job'[j].from = job[j].from
           /\ job'[j].then = job[j].then /\ job'[j].bare = job[j].bare
<1>1. [job[j] EXCEPT !.pc = pc] \in JobRecords
    BY DEF JobRecords
<1> QED
    BY <1>1 DEF Goto, JobRecords

\* So does a step that also notes what the clone was made from.
LEMMA MoveShape ==
    ASSUME job \in [Jobs -> JobRecords], NEW j \in Jobs, NEW pc \in JobPCs,
           NEW from \in {"none", "half", "whole", "poor"},
           job' = [job EXCEPT ![j].pc = pc, ![j].from = from]
    PROVE  /\ job' \in [Jobs -> JobRecords]
           /\ \A k \in Jobs \ {j} : job'[k] = job[k]
           /\ job'[j].pc = pc /\ job'[j].level = job[j].level /\ job'[j].from = from
           /\ job'[j].then = job[j].then /\ job'[j].bare = job[j].bare
<1>1. [job[j] EXCEPT !.pc = pc, !.from = from] \in JobRecords
    BY DEF JobRecords
<1> QED
    BY <1>1 DEF JobRecords

\* And a step that goes on to the next layer.
LEMMA ClimbShape ==
    ASSUME job \in [Jobs -> JobRecords], NEW j \in Jobs, NEW pc \in JobPCs,
           \/ job' = [job EXCEPT ![j].pc = pc, ![j].level = @ + 1]
           \/ job' = [job EXCEPT ![j].level = @ + 1] /\ pc = job[j].pc
    PROVE  /\ job' \in [Jobs -> JobRecords]
           /\ \A k \in Jobs \ {j} : job'[k] = job[k]
           /\ job'[j].pc = pc /\ job'[j].level = job[j].level + 1 /\ job'[j].from = job[j].from
           /\ job'[j].then = job[j].then /\ job'[j].bare = job[j].bare
<1>1. job[j] \in JobRecords /\ job[j].level + 1 \in Nat \ {0}
    BY DEF JobRecords
<1>2. /\ [job[j] EXCEPT !.pc = pc, !.level = job[j].level + 1] \in JobRecords
      /\ [job[j] EXCEPT !.level = job[j].level + 1] \in JobRecords
    BY <1>1 DEF JobRecords
<1>3. CASE job' = [job EXCEPT ![j].pc = pc, ![j].level = @ + 1]
    BY <1>1, <1>2, <1>3 DEF JobRecords
<1>4. CASE job' = [job EXCEPT ![j].level = @ + 1] /\ pc = job[j].pc
    BY <1>1, <1>2, <1>4 DEF JobRecords
<1> QED
    BY <1>3, <1>4

\* A new process begins with nothing, and one that ended has nothing.
LEMMA IdleType == Idle \in JobRecords /\ [Idle EXCEPT !.pc = "look"] \in JobRecords
<1>1. "idle" \in JobPCs /\ "look" \in JobPCs
    BY DEF JobPCs, Ended
<1>2. Idle \in JobRecords
    BY <1>1 DEF Idle, JobRecords
<1>3. [Idle EXCEPT !.pc = "look"] \in JobRecords
    BY <1>1, <1>2 DEF JobRecords
<1> QED
    BY <1>2, <1>3

\* A process ends.
LEMMA EndShape ==
    ASSUME job \in [Jobs -> JobRecords], NEW j \in Jobs, End(j)
    PROVE  /\ job' \in [Jobs -> JobRecords]
           /\ \A k \in Jobs \ {j} : job'[k] = job[k]
           /\ job'[j].pc = "idle" /\ job'[j].level = 1 /\ job'[j].from = "none"
           /\ job'[j].then = "make" /\ ~job'[j].bare
BY IdleType DEF End, Idle

\* A job goes on along its chain.
LEMMA NextLevelShape ==
    ASSUME job \in [Jobs -> JobRecords], NEW j \in Jobs, NextLevel(j)
    PROVE  /\ job' \in [Jobs -> JobRecords]
           /\ \A k \in Jobs \ {j} : job'[k] = job[k]
           /\ job'[j].from = "none" /\ job'[j].then = job[j].then /\ job'[j].bare = job[j].bare
           /\ \/ /\ job[j].level < Len(Chain(j))
                 /\ job'[j].pc = "look" /\ job'[j].level = job[j].level + 1
              \/ /\ ~(job[j].level < Len(Chain(j)))
                 /\ job'[j].pc = "touch" /\ job'[j].level = 2
<1>0. job[j] \in JobRecords /\ job[j].level + 1 \in Nat \ {0} /\ 2 \in Nat \ {0}
    BY DEF JobRecords
<1>1. /\ [job[j] EXCEPT !.pc = "look", !.level = job[j].level + 1, !.from = "none"] \in JobRecords
      /\ [job[j] EXCEPT !.pc = "touch", !.level = 2, !.from = "none"] \in JobRecords
    BY <1>0 DEF JobRecords, JobPCs
<1> QED
    BY <1>1 DEF NextLevel, JobRecords

\* A job gives up what it was making.
LEMMA UndoShape ==
    ASSUME job \in [Jobs -> JobRecords], NEW j \in Jobs, Undo(j)
    PROVE  /\ job' \in [Jobs -> JobRecords]
           /\ \A k \in Jobs \ {j} : job'[k] = job[k]
           /\ job'[j].pc = "delete" /\ job'[j].from = "none" /\ job'[j].then = "fail"
           /\ job'[j].level = job[j].level /\ job'[j].bare = job[j].bare
<1>1. [job[j] EXCEPT !.pc = "delete", !.from = "none", !.then = "fail"] \in JobRecords
    BY DEF JobRecords, JobPCs, Building
<1> QED
    BY <1>1 DEF Undo, JobRecords

\* What a job leaves alone when it lets go of its locks.
LEMMA ReleaseShape ==
    ASSUME TypeOK, NEW j \in Jobs, Release(j)
    PROVE  /\ lock' \in [Images -> Jobs \cup {"nobody"}]
           /\ \A n \in Images : lock[n] # j => lock'[n] = lock[n]
BY DEF Release, TypeOK

\* The files and who has them open.
FilesTyped ==
    /\ record \in [Images -> Contents] /\ part \in [Images -> Contents]
    /\ open \in [Jobs -> {"no", "part", "record", "gone", "written"}]
    /\ shared \subseteq Images
    /\ \A j \in Jobs : open[j] # "no" => job[j].pc \in {"touching", "save"}

\* What a step does to the records, in terms of those that can be read.
LEMMA MetaFacts ==
    ASSUME FilesTyped
    PROVE  /\ record' = record => meta' = meta
           /\ \A n \in Images : Forget(n) => meta' = meta \ {n}
           /\ \A j \in Jobs : Install(j) /\ Name(j) \in Images =>
                  IF part[Name(j)] = "whole" THEN meta' = meta \cup {Name(j)}
                                             ELSE meta' = meta \ {Name(j)}
BY DEF meta, Forget, Install, FilesTyped

\* The files of the others may get other names, or lose them.
LEMMA FilesKept ==
    ASSUME FilesTyped, NEW j \in Jobs, Name(j) \in Images,
           \A k \in Jobs \ {j} : job'[k] = job[k],
           Install(j) \/ InstallFails(j) \/ Close(j) \/ (Forget(Name(j)) /\ open[j] = "no")
    PROVE  FilesTyped' /\ open'[j] = "no"
<1>1. CASE Install(j)
    <2>1. part[Name(j)] \in Contents
        BY DEF FilesTyped
    <2>2. record' \in [Images -> Contents] /\ part' \in [Images -> Contents] /\ shared' = shared
        BY <1>1, <2>1 DEF Install, FilesTyped, Contents
    <2>3. /\ open' \in [Jobs -> {"no", "part", "record", "gone", "written"}] /\ open'[j] = "no"
          /\ \A k \in Jobs : open'[k] # "no" => open[k] # "no" /\ k # j
        BY <1>1 DEF Install, FilesTyped, Writers
    <2> QED
        BY <2>2, <2>3 DEF FilesTyped
<1>2. CASE InstallFails(j)
    BY <1>2 DEF InstallFails, Put, FilesTyped, Contents
<1>3. CASE Close(j)
    BY <1>3 DEF Close, FilesTyped
<1>4. CASE Forget(Name(j)) /\ open[j] = "no"
    <2>1. j \notin Writers(Name(j), "record")
        BY <1>4 DEF Writers
    <2> QED
        BY <1>4, <2>1 DEF Forget, FilesTyped, Contents, Writers
<1> QED
    BY <1>1, <1>2, <1>3, <1>4

\* Types, the bare builds and the locks only ask of the job that steps.
LEMMA JobTypes ==
    ASSUME IInv, NEW j \in Jobs,
           job' \in [Jobs -> JobRecords], \A k \in Jobs \ {j} : job'[k] = job[k],
           BareInv(j)', LockInv(j)',
           job'[j].level <= Len(Chain(j)') + 1,
           job'[j].pc \in {"look", "lock", "touching"} \cup Building =>
               job'[j].level <= Len(Chain(j)'),
           lock' \in [Images -> Jobs \cup {"nobody"}],
           \A n \in Images : \A k \in Jobs \ {j} : lock[n] = k => lock'[n] = k,
           image' \in [Images -> {"none", "half", "whole", "poor"}],
           up' \subseteq {n \in Images : image'[n] # "none"},
           FilesTyped', prune' = prune, unlocked' \in 0..MaxUnlocked
    PROVE  TypeOK' /\ \A k \in Jobs : BareInv(k)' /\ LockInv(k)'
<1>1. ASSUME NEW k \in Jobs \ {j}
      PROVE  /\ job'[k] = job[k] /\ Chain(k)' = Chain(k) /\ Name(k)' = Name(k)
             /\ job[k].pc \in Building => Name(k) \in Images
    BY NameFacts DEF IInv
<1>2. ASSUME NEW k \in Jobs \ {j} PROVE BareInv(k)' /\ LockInv(k)'
    <2>1. BareInv(k)'
        BY <1>1 DEF IInv, BareInv
    <2>2. LockInv(k)'
        <3> SUFFICES ASSUME job[k].pc \in Building, ~job[k].bare
                     PROVE  lock'[Name(k)] = k
            BY <1>1 DEF LockInv
        <3> QED
            BY <1>1 DEF IInv, LockInv
    <2> QED
        BY <2>1, <2>2
<1>3. ASSUME NEW k \in Jobs
      PROVE  /\ job'[k].level <= Len(Chain(k)') + 1
             /\ job'[k].pc \in {"look", "lock", "touching"} \cup Building =>
                    job'[k].level <= Len(Chain(k)')
    BY <1>1 DEF IInv, TypeOK
<1>4. TypeOK'
    BY <1>3 DEF IInv, TypeOK, JobRecords, JobPCs, FilesTyped
<1> QED
    BY <1>2, <1>4

-----------------------------------------------------------------------------
(* Types, bare builds and locks.                                           *)

\* What a step of a job must do with its own record to keep them.
JobKept(j) ==
    /\ job' \in [Jobs -> JobRecords] /\ \A k \in Jobs \ {j} : job'[k] = job[k]
    /\ BareInv(j)' /\ LockInv(j)'
    /\ job'[j].level <= Len(Chain(j)') + 1
    /\ job'[j].pc \in {"look", "lock", "touching"} \cup Building =>
           job'[j].level <= Len(Chain(j)')

\* It stays at its image: it must have the lock if it is to build.
LEMMA StayKept ==
    ASSUME IInv, NEW j \in Jobs,
           job' \in [Jobs -> JobRecords], \A k \in Jobs \ {j} : job'[k] = job[k],
           job[j].pc \in {"look", "lock", "touching"} \cup Building,
           job'[j].level = job[j].level, job'[j].bare = job[j].bare,
           job[j].bare => job'[j].pc \in {"delete", "forget", "make", "apply", "stop"},
           job'[j].pc \in Building /\ ~job[j].bare => lock'[Name(j)] = j
    PROVE  JobKept(j)
<1>1. Chain(j)' = Chain(j) /\ Name(j)' = Name(j) /\ job[j].level \in 1..Len(Chain(j))
    BY NameFacts DEF IInv
<1>2. BareInv(j)'
    BY DEF BareInv, IInv
<1>3. LockInv(j)'
    BY <1>1 DEF LockInv
<1>4. Len(Chain(j)) \in Nat /\ job'[j].level <= Len(Chain(j)) + 1
    BY <1>1, ChainFacts
<1> QED
    BY <1>1, <1>2, <1>3, <1>4 DEF JobKept

\* It ends.
LEMMA EndKept ==
    ASSUME IInv, NEW j \in Jobs, End(j)
    PROVE  JobKept(j)
<1>1. job \in [Jobs -> JobRecords]
    BY DEF IInv, TypeOK, JobRecords, JobPCs
<1>2. Len(Chain(j)') \in Nat \ {0}
    BY NextChain
<1>3. "idle" \notin {"look", "lock", "touching"} \cup Building
    BY DEF Building
<1> QED
    BY <1>1, <1>2, <1>3, EndShape DEF JobKept, BareInv, LockInv

\* It goes on to the next image, or to the touching of the layers.
LEMMA NextLevelKept ==
    ASSUME IInv, NEW j \in Jobs, NextLevel(j), ~job[j].bare,
           job[j].pc \in {"look", "lock"} \cup Building
    PROVE  JobKept(j)
<1>1. job \in [Jobs -> JobRecords]
    BY DEF IInv, TypeOK, JobRecords, JobPCs
<1>2. Chain(j)' = Chain(j) /\ job[j].level \in Nat /\ Len(Chain(j)) \in Nat \ {0}
    BY <1>1, NameFacts, NextLevelShape, ChainFacts DEF IInv, JobRecords
<1>3. {"look", "touch"} \cap Building = {}
    BY DEF Building
<1> QED
    BY <1>1, <1>2, <1>3, NextLevelShape DEF JobKept, BareInv, LockInv

\* The locks of the others are their own.
LEMMA LocksKept ==
    ASSUME IInv, NEW j \in Jobs,
           \/ lock' = lock
           \/ Release(j)
           \/ Acquire(j)
    PROVE  /\ lock' \in [Images -> Jobs \cup {"nobody"}]
           /\ \A n \in Images : \A k \in Jobs \ {j} : lock[n] = k => lock'[n] = k
<1>1. CASE Acquire(j)
    <2>1. Name(j) \in Images
        BY <1>1, NameFacts DEF Acquire, At, IInv
    <2> QED
        BY <1>1, <2>1, JobsAssumption DEF Acquire, IInv, TypeOK, JobsAssumption
<1> QED
    BY <1>1, ReleaseShape DEF IInv, TypeOK

\* The images and their records keep their types.
LEMMA StepEnv ==
    ASSUME IInv, NEW j \in Jobs, Begin(j) \/ BeginBare(j) \/ Step(j) \/ Crash(j)
    PROVE  /\ image' \in [Images -> {"none", "half", "whole", "poor"}]
           /\ up' \subseteq {n \in Images : image'[n] # "none"}
           /\ prune' = prune /\ unlocked' \in 0..MaxUnlocked
           /\ unlocked' = 0 => unlocked = 0
           /\ lock' = lock \/ Release(j) \/ Acquire(j)
<1>1. /\ image \in [Images -> {"none", "half", "whole", "poor"}]
      /\ up \subseteq {n \in Images : image[n] # "none"}
      /\ unlocked \in 0..MaxUnlocked /\ MaxUnlocked \in Nat
      /\ job[j].pc \in {"look", "lock", "touching"} \cup Building => Name(j) \in Images
    BY NameFacts, BoundsAssumption DEF IInv, TypeOK, BoundsAssumption
<1> USE DEF At, Building
<1>2. CASE Begin(j) \/ BeginBare(j)
    BY <1>1, <1>2 DEF Begin, BeginBare
<1>3. CASE Look(j) \/ Acquire(j) \/ Recheck(j) \/ TouchLoad(j) \/ CloneForRun(j)
    BY <1>1, <1>3 DEF Look, Acquire, Recheck, TouchLoad, CloneForRun
<1>4. CASE DeleteImage(j) \/ DeleteFails(j) \/ RemoveMeta(j)
    BY <1>1, <1>4 DEF DeleteImage, DeleteFails, RemoveMeta, Delete, GiveUp
<1>5. CASE Make(j)
    BY <1>1, <1>5 DEF Make
<1>6. CASE MakeFails(j)
    BY <1>1, <1>6 DEF MakeFails, GiveUp, Undo
<1>7. CASE StartVM(j) \/ BuildFails(j)
    BY <1>1, <1>7 DEF StartVM, BuildFails, GiveUp, Undo
<1>7a. CASE Apply(j)
    BY <1>1, <1>7a DEF Apply
<1>8. CASE StopVM(j) \/ StopFails(j)
    BY <1>1, <1>8 DEF StopVM, StopFails, GiveUp, Undo
<1>9. CASE OpenRecord(j) \/ WriteRecord(j) \/ Save(j) \/ SaveFails(j) \/ TouchSave(j)
    BY <1>1, <1>9 DEF OpenRecord, WriteRecord, Save, SaveFails, TouchSave, GiveUp
<1>10. CASE Crash(j)
    BY <1>1, <1>10 DEF Crash, GiveUp
<1> QED
    BY <1>2, <1>3, <1>4, <1>5, <1>6, <1>7, <1>7a, <1>8, <1>9, <1>10 DEF Step

\* The files keep their types.
LEMMA StepFiles ==
    ASSUME IInv, NEW j \in Jobs, Begin(j) \/ BeginBare(j) \/ Step(j) \/ Crash(j),
           JobKept(j)
    PROVE  FilesTyped'
<1>1. /\ FilesTyped /\ \A k \in Jobs \ {j} : job'[k] = job[k]
      /\ job[j].pc \in {"look", "lock", "touching"} \cup Building => Name(j) \in Images
    BY NameFacts DEF IInv, TypeOK, FilesTyped, JobKept
<1> USE DEF At, Building
<1>2. ASSUME UNCHANGED files, job[j].pc \notin {"touching", "save"} PROVE FilesTyped'
    BY <1>1, <1>2 DEF files, FilesTyped
<1>3. CASE Begin(j) \/ BeginBare(j)
    BY <1>2, <1>3 DEF Begin, BeginBare, Ended
<1>4. CASE Look(j) \/ Acquire(j) \/ Recheck(j) \/ TouchLoad(j) \/ CloneForRun(j)
    BY <1>2, <1>4 DEF Look, Acquire, Recheck, TouchLoad, CloneForRun
<1>5. CASE DeleteImage(j) \/ DeleteFails(j) \/ Make(j) \/ MakeFails(j) \/ StartVM(j)
           \/ Apply(j) \/ BuildFails(j) \/ StopVM(j) \/ StopFails(j)
    BY <1>2, <1>5 DEF DeleteImage, DeleteFails, Make, MakeFails, StartVM, Apply, BuildFails,
       StopVM, StopFails
<1>6. CASE RemoveMeta(j)
    <2>1. open[j] = "no" /\ Forget(Name(j)) /\ Name(j) \in Images
        BY <1>1, <1>6 DEF RemoveMeta, FilesTyped
    <2> QED
        BY <1>1, <2>1, FilesKept
<1>7. CASE OpenRecord(j)
    BY <1>1, <1>7 DEF OpenRecord, FilesTyped, Contents
<1>8. CASE WriteRecord(j)
    BY <1>1, <1>8 DEF WriteRecord, Put, FilesTyped, Contents
<1>9. CASE Save(j) \/ SaveFails(j) \/ TouchSave(j)
    BY <1>1, <1>9, FilesKept DEF Save, SaveFails, TouchSave
<1>10. CASE Crash(j)
    BY <1>1, <1>10 DEF Crash, Close, FilesTyped
<1> QED
    BY <1>3, <1>4, <1>5, <1>6, <1>7, <1>8, <1>9, <1>10 DEF Step

\* The step of a job keeps them.
LEMMA StepTypes ==
    ASSUME IInv, NEW j \in Jobs, Begin(j) \/ BeginBare(j) \/ Step(j) \/ Crash(j)
    PROVE  /\ TypeOK' /\ \A k \in Jobs : BareInv(k)' /\ LockInv(k)'
           /\ JobKept(j)
<1> SUFFICES JobKept(j)
    BY StepEnv, StepFiles, LocksKept, JobTypes DEF JobKept
<1>0. /\ job \in [Jobs -> JobRecords] /\ job[j] \in JobRecords
      /\ BareInv(j) /\ LockInv(j)
      /\ job[j].pc \in {"look", "lock", "touching"} \cup Building => Name(j) \in Images
    BY NameFacts DEF IInv, TypeOK, JobRecords, JobPCs
<1>a. {"look", "lock"} \cup Building \subseteq JobPCs
    BY DEF JobPCs
<1> USE DEF At
<1>1. CASE Begin(j)
    <2>1. /\ job' \in [Jobs -> JobRecords] /\ \A k \in Jobs \ {j} : job'[k] = job[k]
          /\ job'[j].pc = "look" /\ job'[j].level = 1 /\ ~job'[j].bare
        BY <1>0, <1>1, IdleType DEF Begin, Idle
    <2>2. Len(Chain(j)') \in Nat \ {0}
        BY <2>1, ChainFacts, PathAssumption DEF Chain, PathAssumption
    <2> QED
        BY <2>1, <2>2 DEF JobKept, BareInv, LockInv, Building
<1>2. CASE BeginBare(j)
    <2>1. CASE image[Base] # "none"
        BY <1>2, <2>1, EndKept DEF BeginBare
    <2>2. CASE image[Base] = "none"
        <3>1. [Idle EXCEPT !.pc = "delete", !.bare = TRUE] \in JobRecords
            BY <1>a, IdleType DEF JobRecords, Building
        <3>2. /\ job' \in [Jobs -> JobRecords] /\ \A k \in Jobs \ {j} : job'[k] = job[k]
              /\ job'[j].pc = "delete" /\ job'[j].level = 1 /\ job'[j].bare
            BY <1>0, <1>2, <2>2, <3>1 DEF BeginBare, Idle
        <3>3. Len(Chain(j)') = 1
            BY <3>2 DEF Chain
        <3> QED
            BY <3>2, <3>3 DEF JobKept, BareInv, LockInv, Building
    <2> QED
        BY <2>1, <2>2
<1>3. CASE Look(j)
    <2>1. ~job[j].bare
        BY <1>0, <1>3 DEF Look, BareInv
    <2> QED
        BY <1>0, <1>a, <1>3, <2>1, NextLevelKept, GotoShape, StayKept DEF Look, Building
<1>4. CASE Acquire(j)
    <2>1. ~job[j].bare /\ lock'[Name(j)] = j
        BY <1>0, <1>4 DEF Acquire, BareInv, IInv, TypeOK
    <2> QED
        BY <1>0, <1>a, <1>4, <2>1, GotoShape, StayKept DEF Acquire, Building
<1>5. CASE Recheck(j)
    <2>1. ~job[j].bare
        BY <1>0, <1>5 DEF Recheck, BareInv
    <2>2. Complete(Name(j)) => JobKept(j)
        BY <1>5, <2>1, NextLevelKept DEF Recheck, Building
    <2>3. ~Complete(Name(j)) => JobKept(j)
        BY <1>0, <1>a, <1>5, <2>1, GotoShape, StayKept DEF Recheck, Building, LockInv
    <2> QED
        BY <2>2, <2>3
<1>6. ASSUME NEW pc \in {"forget", "make", "apply", "stop"}, Goto(j, pc), lock' = lock,
             job[j].pc \in Building
      PROVE  JobKept(j)
    BY <1>0, <1>a, <1>6, GotoShape, StayKept DEF Building, LockInv
<1>7. ASSUME Undo(j), job[j].pc \in Building PROVE JobKept(j)
    BY <1>0, <1>7, UndoShape, StayKept DEF Building, LockInv, Undo
<1>8. CASE DeleteImage(j) \/ DeleteFails(j) \/ RemoveMeta(j)
    BY <1>6, <1>8, EndKept DEF DeleteImage, DeleteFails, RemoveMeta, GiveUp, Building
<1>9. CASE Make(j)
    <2>1. PICK pc \in {"start", "apply"}, from \in {"none", "half", "whole", "poor"} :
              /\ job' = [job EXCEPT ![j].pc = pc, ![j].from = from]
              /\ job[j].bare => pc = "apply"
        <3>1. Name(j) # Base => image[Parent(j)] \in {"none", "half", "whole", "poor"}
            <4>1. job[j].level \in 1..Len(Chain(j))
                BY <1>9, NameFacts DEF Make, Building, IInv
            <4>2. Name(j) # Base => job[j].level - 1 \in 1..Len(Chain(j))
                BY <4>1, ChainFacts DEF Name
            <4> QED
                BY <4>2, ChainFacts DEF Parent, IInv, TypeOK
        <3>2. job[j].bare => Name(j) = Base
            BY <1>0 DEF BareInv, Name, Chain
        <3> QED
            BY <1>9, <3>1, <3>2 DEF Make
    <2>2. /\ job[j].pc \in Building /\ lock' = lock /\ pc \in JobPCs /\ pc \in Building
          /\ job[j].level \in Nat \ {0}
        BY <1>a, <1>0, <1>9 DEF Make, Building, JobRecords
    <2>3. /\ job' \in [Jobs -> JobRecords] /\ \A k \in Jobs \ {j} : job'[k] = job[k]
          /\ job'[j].pc = pc /\ job'[j].level = job[j].level /\ job'[j].bare = job[j].bare
        BY <1>0, <2>1, <2>2, MoveShape
    <2> QED
        BY <1>0, <2>1, <2>2, <2>3, StayKept DEF LockInv
<1>10. CASE MakeFails(j) \/ BuildFails(j) \/ StopFails(j)
    BY <1>7, <1>10, EndKept DEF MakeFails, BuildFails, StopFails, GiveUp, Building
<1>11. CASE StartVM(j)
    BY <1>6, <1>11 DEF StartVM, Building
<1>12. CASE Apply(j)
    <2>1. /\ job' \in [Jobs -> JobRecords] /\ \A k \in Jobs \ {j} : job'[k] = job[k]
          /\ job'[j].pc = "stop" /\ job'[j].level = job[j].level /\ job'[j].bare = job[j].bare
        <3>1. "stop" \in JobPCs /\ job[j].level \in Nat \ {0}
            BY <1>0, <1>a DEF Building, JobRecords
        <3> QED
            BY <1>0, <1>12, <3>1, MoveShape DEF Apply
    <2> QED
        BY <1>0, <1>12, <2>1, StayKept DEF Apply, Building, LockInv
<1>13. CASE StopVM(j)
    <2>1. CASE job[j].bare
        BY <1>13, <2>1, EndKept DEF StopVM
    <2>2. CASE ~job[j].bare
        BY <1>0, <1>a, <1>13, <2>2, GotoShape, StayKept DEF StopVM, Building, LockInv
    <2> QED
        BY <2>1, <2>2
<1>14. CASE Save(j)
    BY <1>0, <1>14, NextLevelKept DEF Save, Building, BareInv
<1>14a. CASE OpenRecord(j) \/ WriteRecord(j)
    <2>1. /\ job' = job /\ lock' = lock /\ job[j].pc \in {"touching", "save"}
          /\ job[j].bare => job[j].pc \in {"delete", "forget", "make", "apply", "stop"}
        BY <1>0, <1>14a DEF OpenRecord, WriteRecord, BareInv, IInv, TypeOK
    <2> QED
        BY <1>0, <2>1, StayKept DEF Building, LockInv
<1>15. CASE SaveFails(j) \/ Crash(j)
    BY <1>15, EndKept DEF SaveFails, Crash, GiveUp
<1>16. CASE TouchLoad(j)
    <2>1. /\ ~job[j].bare /\ job[j].level \in Nat \ {0} /\ Len(Chain(j)) \in Nat
          /\ job[j].level \in 1..(Len(Chain(j)) + 1)
        BY <1>0, <1>16, ChainFacts, NameFacts DEF TouchLoad, BareInv, JobRecords, IInv
    <2>2. CASE job[j].level > Len(Chain(j))
        <3>1. Goto(j, "use") /\ "use" \in JobPCs
            BY <1>16, <2>2 DEF TouchLoad, JobPCs
        <3> QED
            BY <1>0, <2>1, <3>1, GotoShape, NameFacts DEF JobKept, BareInv, LockInv, Building, IInv
    <2>3. CASE ~(job[j].level > Len(Chain(j))) /\ Name(j) \in meta
        <3>1. Goto(j, "touching") /\ "touching" \in JobPCs
            BY <1>16, <2>3 DEF TouchLoad, JobPCs
        <3> QED
            BY <1>0, <2>1, <2>3, <3>1, GotoShape, NameFacts
            DEF JobKept, BareInv, LockInv, Building, IInv
    <2>4. CASE ~(job[j].level > Len(Chain(j))) /\ Name(j) \notin meta
        <3>1. job' = [job EXCEPT ![j].level = @ + 1] /\ job[j].pc \in JobPCs
            BY <1>0, <1>16, <2>4 DEF TouchLoad, JobPCs
        <3>2. /\ job' \in [Jobs -> JobRecords] /\ \A k \in Jobs \ {j} : job'[k] = job[k]
              /\ job'[j].pc = "touch" /\ job'[j].level = job[j].level + 1
              /\ job'[j].bare = job[j].bare
            BY <1>0, <1>16, <3>1, ClimbShape DEF TouchLoad
        <3> QED
            BY <2>1, <2>4, <3>2, NameFacts DEF JobKept, BareInv, LockInv, Building, IInv
    <2> QED
        BY <2>2, <2>3, <2>4
<1>17. CASE TouchSave(j)
    <2>1. /\ ~job[j].bare /\ job[j].level \in 1..Len(Chain(j)) /\ Len(Chain(j)) \in Nat
        BY <1>0, <1>17, ChainFacts, NameFacts DEF TouchSave, BareInv, JobRecords, IInv
    <2>2. /\ job' = [job EXCEPT ![j].pc = "touch", ![j].level = @ + 1]
          /\ "touch" \in JobPCs
        BY <1>17 DEF TouchSave, JobPCs
    <2>3. /\ job' \in [Jobs -> JobRecords] /\ \A k \in Jobs \ {j} : job'[k] = job[k]
          /\ job'[j].pc = "touch" /\ job'[j].level = job[j].level + 1
          /\ job'[j].bare = job[j].bare
        BY <1>0, <2>2, ClimbShape
    <2> QED
        BY <2>1, <2>3, NameFacts DEF JobKept, BareInv, LockInv, Building, IInv
<1>18. CASE CloneForRun(j)
    <2>1. PICK pc \in {"idle", "half", "poor"} : job' = [job EXCEPT ![j] = [Idle EXCEPT !.pc = pc]]
        BY <1>18 DEF CloneForRun, Idle
    <2>2. [Idle EXCEPT !.pc = pc] \in JobRecords
        BY IdleType DEF JobRecords, JobPCs, Ended
    <2>3. /\ job' \in [Jobs -> JobRecords] /\ \A k \in Jobs \ {j} : job'[k] = job[k]
          /\ job'[j].pc = pc /\ job'[j].level = 1 /\ ~job'[j].bare
        BY <1>0, <2>1, <2>2 DEF Idle
    <2>4. Len(Chain(j)') \in Nat \ {0}
        BY NextChain
    <2> QED
        BY <2>3, <2>4 DEF JobKept, BareInv, LockInv, Building
<1> QED
    BY <1>1, <1>2, <1>3, <1>4, <1>5, <1>8, <1>9, <1>10, <1>11, <1>12, <1>13, <1>14, <1>14a, <1>15,
       <1>16, <1>17, <1>18 DEF Step

PruneRecords == [pc : {"idle", "listed", "sweep", "forget"}, seen : SUBSET Images,
                 up : SUBSET Images, todo : SUBSET Layers, ghosts : SUBSET Images, at : Images]

\* The record of prune keeps its type.
LEMMA PruneRecordTypes ==
    ASSUME NEW p \in PruneRecords, NEW n \in Images,
           NEW pc \in {"idle", "listed", "sweep", "forget"},
           NEW T \in SUBSET Layers, NEW G \in SUBSET Images, NEW U \in SUBSET Images
    PROVE  /\ [p EXCEPT !.pc = pc, !.at = n] \in PruneRecords
           /\ [p EXCEPT !.pc = pc, !.up = U, !.seen = G] \in PruneRecords
           /\ [p EXCEPT !.pc = pc, !.todo = T, !.at = n] \in PruneRecords
           /\ [p EXCEPT !.pc = pc, !.todo = T, !.ghosts = G] \in PruneRecords
           /\ [p EXCEPT !.todo = T] \in PruneRecords
           /\ [p EXCEPT !.ghosts = G] \in PruneRecords
BY DEF PruneRecords

\* A step of prune keeps them, and is none while nobody does without the locks.
LEMMA PruneTypes ==
    ASSUME IInv, Prune
    PROVE  /\ TypeOK' /\ \A k \in Jobs : BareInv(k)' /\ LockInv(k)'
           /\ unlocked' # 0
<1>1. UNCHANGED <<job, lock>>
    BY DEF Prune, PruneList, PruneChoose, PruneForget, PruneEnds, PruneCrash, PruneDelete,
       PruneSkip, PruneGhost
<1>2. \A k \in Jobs : BareInv(k)' /\ LockInv(k)'
    <2>1. ASSUME NEW k \in Jobs PROVE Name(k)' = Name(k)
        BY <1>1 DEF Name, Chain
    <2> QED
        BY <1>1, <2>1 DEF IInv, BareInv, LockInv
<1>3. \A k \in Jobs : Len(Chain(k)') = Len(Chain(k))
    BY <1>1 DEF Chain
<1>4. /\ image' \in [Images -> {"none", "half", "whole", "poor"}]
      /\ up' \subseteq {n \in Images : image'[n] # "none"}
    BY DEF IInv, TypeOK, Prune, PruneList, PruneChoose, PruneForget, PruneEnds, PruneCrash,
       PruneDelete, PruneSkip, PruneGhost, Delete
<1>5. prune' \in PruneRecords
    <2>0. /\ Base \in Images /\ prune \in PruneRecords /\ NotPruning \in PruneRecords
          /\ up \in SUBSET Images /\ meta \in SUBSET Images
          /\ prune.pc \in {"idle", "listed", "sweep", "forget"}
          /\ prune.todo \in SUBSET Layers /\ prune.seen \in SUBSET Images
          /\ prune.ghosts \in SUBSET Images
        BY PathAssumption DEF PathAssumption, IInv, TypeOK, PruneRecords, NotPruning, meta
    <2>1. CASE PruneList
        BY <2>0, <2>1, PruneRecordTypes DEF PruneList
    <2>2. CASE PruneChoose
        <3>1. PICK todo \in SUBSET Layers, ghosts \in SUBSET Images :
                  prune' = [NotPruning EXCEPT !.pc = "sweep", !.todo = todo, !.ghosts = ghosts]
            BY <2>0, <2>2 DEF PruneChoose
        <3> QED
            BY <2>0, <3>1, PruneRecordTypes
    <2>3. CASE PruneForget
        BY <2>0, <2>3, PruneRecordTypes DEF PruneForget
    <2>4. CASE PruneEnds \/ PruneCrash
        BY <2>0, <2>4 DEF PruneEnds, PruneCrash
    <2>5. CASE \E n \in Images : PruneDelete(n)
        <3>1. PICK n \in Images : PruneDelete(n)
            BY <2>5
        <3>2. prune.todo \ {n} \in SUBSET Layers
            BY <2>0
        <3> QED
            BY <2>0, <3>1, <3>2, PruneRecordTypes DEF PruneDelete
    <2>6. CASE \E n \in Images : PruneSkip(n)
        <3>1. PICK n \in Images : PruneSkip(n)
            BY <2>6
        <3>2. prune.todo \ {n} \in SUBSET Layers
            BY <2>0
        <3> QED
            BY <2>0, <3>1, <3>2, PruneRecordTypes DEF PruneSkip
    <2>7. CASE \E n \in Images : PruneGhost(n)
        <3>1. PICK n \in Images : PruneGhost(n)
            BY <2>7
        <3>2. prune.ghosts \ {n} \in SUBSET Images
            BY <2>0
        <3> QED
            BY <2>0, <3>1, <3>2, PruneRecordTypes DEF PruneGhost
    <2> QED
        BY <2>1, <2>2, <2>3, <2>4, <2>5, <2>6, <2>7 DEF Prune
<1>5a. unlocked' \in 0..MaxUnlocked /\ unlocked' # 0
    <2>1. unlocked \in 0..MaxUnlocked /\ MaxUnlocked \in Nat /\ (prune.pc # "idle" => unlocked # 0)
        BY BoundsAssumption DEF BoundsAssumption, IInv, TypeOK
    <2>2. CASE PruneList
        BY <2>1, <2>2 DEF PruneList
    <2>3. CASE ~PruneList
        <3>1. unlocked' = unlocked /\ prune.pc # "idle"
            BY <2>3 DEF Prune, PruneChoose, PruneForget, PruneEnds, PruneCrash,
               PruneDelete, PruneSkip, PruneGhost
        <3> QED
            BY <2>1, <3>1
    <2> QED
        BY <2>2, <2>3
<1>5b. FilesTyped'
    <2>0. FilesTyped
        BY DEF IInv, TypeOK, FilesTyped
    <2>1. CASE PruneForget
        BY <1>1, <2>0, <2>1 DEF PruneForget, Forget, FilesTyped, Contents, Writers
    <2>2. ASSUME NEW n \in Images, PruneGhost(n) PROVE FilesTyped'
        BY <1>1, <2>0, <2>2 DEF PruneGhost, Forget, FilesTyped, Contents, Writers
    <2>3. CASE ~PruneForget /\ \A n \in Images : ~PruneGhost(n)
        <3>1. UNCHANGED files
            BY <2>3 DEF Prune, PruneList, PruneChoose, PruneEnds, PruneCrash, PruneDelete, PruneSkip
        <3> QED
            BY <1>1, <2>0, <3>1 DEF FilesTyped, files
    <2> QED
        BY <2>1, <2>2, <2>3
<1>6. TypeOK'
    BY <1>1, <1>3, <1>4, <1>5, <1>5a, <1>5b DEF IInv, TypeOK, PruneRecords, FilesTyped
<1> QED
    BY <1>2, <1>5a, <1>6

-----------------------------------------------------------------------------
(* What passes for complete is whole, while everybody takes the locks and  *)
(* no two write one record at once.                                        *)

\* A job's step is sound if it touches but the image it has locked, loses nothing
\* that is complete, and leaves the job itself sound.
LEMMA SoundFrame ==
    ASSUME IInv, Sound, NEW j \in Jobs,
           \A k \in Jobs \ {j} : job'[k] = job[k],
           prune' = prune,
           \A n \in Images : Complete(n) => Complete(n)',
           \A n \in Images : Complete(n)' => image'[n] = "whole",
           \A n \in Images : lock[n] # j => image'[n] = image[n] /\ (n \in meta' => n \in meta),
           SoundJob(j)'
    PROVE  Sound'
<1>1. ASSUME NEW k \in Jobs \ {j} PROVE SoundJob(k)'
    <2>1. /\ job'[k] = job[k] /\ Chain(k)' = Chain(k) /\ Name(k)' = Name(k)
          /\ SoundJob(k) /\ Passed(k)' = Passed(k)
        BY NameFacts DEF IInv, Sound, Passed, Chain
    <2>2. \A i \in Passed(k) : Complete(Chain(k)[i])'
        <3> SUFFICES ASSUME NEW i \in Passed(k) PROVE Complete(Chain(k)[i])'
            OBVIOUS
        <3>1. Chain(k)[i] \in Images /\ Complete(Chain(k)[i])
            BY <2>1, ChainFacts DEF Passed, SoundJob
        <3> QED
            BY <2>1, <3>1 DEF Complete
    <2>3. job[k].pc \in Building =>
              /\ Name(k) \in Images /\ image'[Name(k)] = image[Name(k)]
              /\ Name(k) \in meta' => Name(k) \in meta
        BY <2>1, NameFacts DEF IInv, LockInv, SoundJob
    <2> QED
        BY <2>1, <2>2, <2>3 DEF SoundJob, Complete, Building
<1> QED
    BY <1>1 DEF Sound

\* Where a job stays at its image, what is behind it stays complete.
LEMMA BehindKept ==
    ASSUME IInv, NEW j \in Jobs, SoundJob(j),
           job'[j].level = job[j].level, job'[j].bare = job[j].bare,
           job[j].pc \notin {"touch", "touching", "use"},
           job'[j].pc \notin {"touch", "touching", "use"},
           \A n \in Images : Complete(n) => Complete(n)'
    PROVE  /\ \A i \in Passed(j)' : Complete(Chain(j)[i])'
           /\ Chain(j)' = Chain(j) /\ Name(j)' = Name(j)
<1>1. Passed(j)' = Passed(j) /\ Chain(j)' = Chain(j) /\ Name(j)' = Name(j)
    BY NameFacts DEF IInv, Passed
<1>2. ASSUME NEW i \in Passed(j) PROVE Complete(Chain(j)[i])'
    <2>1. Chain(j)[i] \in Images /\ Complete(Chain(j)[i])
        BY ChainFacts DEF Passed, SoundJob
    <2> QED
        BY <1>1, <2>1 DEF Complete
<1> QED
    BY <1>1, <1>2

\* An image more is complete.
LEMMA NextLevelSound ==
    ASSUME IInv, NEW j \in Jobs, SoundJob(j), NextLevel(j),
           job[j].pc \in {"look"} \cup Building,
           \A n \in Images : Complete(n) => Complete(n)',
           image'[Name(j)] # "none", Name(j) \in meta'
    PROVE  SoundJob(j)' /\ \A k \in Jobs \ {j} : job'[k] = job[k]
<1>1. /\ job \in [Jobs -> JobRecords] /\ job[j].level \in 1..Len(Chain(j))
      /\ Len(Chain(j)) \in Nat
    BY NameFacts, ChainFacts DEF IInv, TypeOK, JobRecords, JobPCs
<1>2. /\ Chain(j)' = Chain(j) /\ ~job'[j].bare /\ job'[j].from = "none"
      /\ job'[j].pc \in {"look", "touch"}
      /\ job'[j].pc = "look" => job'[j].level = job[j].level + 1
      /\ job'[j].pc = "touch" => job[j].level = Len(Chain(j))
      /\ \A k \in Jobs \ {j} : job'[k] = job[k]
    BY <1>1, NextLevelShape, NameFacts DEF IInv, SoundJob
<1>3. ASSUME NEW i \in 1..Len(Chain(j)), i <= job[j].level PROVE Complete(Chain(j)[i])'
    <2>1. CASE i = job[j].level
        BY <2>1, <1>2 DEF Complete, Name
    <2>2. CASE i < job[j].level
        <3>1. Complete(Chain(j)[i]) /\ Chain(j)[i] \in Images
            BY <2>2, ChainFacts DEF SoundJob, Passed
        <3> QED
            BY <3>1, <1>2 DEF Complete
    <2> QED
        BY <1>1, <1>3, <2>1, <2>2
<1>4. \A i \in Passed(j)' : i \in 1..Len(Chain(j)) /\ i <= job[j].level
    BY <1>1, <1>2 DEF Passed
<1>5. \A i \in Passed(j)' : Complete(Chain(j)[i])'
    BY <1>3, <1>4
<1> QED
    BY <1>2, <1>5 DEF SoundJob, Building

\* A job that has nothing behind it.
LEMMA FreshSound ==
    ASSUME NEW j \in Jobs, job'[j].level = 1, job'[j].pc \in {"idle", "look"}, ~job'[j].bare,
           job'[j].from = "none"
    PROVE  SoundJob(j)'
<1>1. Len(Chain(j)') \in Nat
    <2>1. Chain(j)' = Path[Wants[j]]
        BY DEF Chain
    <2>2. Path[Wants[j]] \in Seq(Images)
        BY ChainFacts, PathAssumption DEF PathAssumption
    <2> QED
        BY <2>1, <2>2
<1>2. Passed(j)' = {}
    BY <1>1 DEF Passed
<1> QED
    BY <1>2 DEF SoundJob, Building

\* The step of a job is sound if nobody has done without the locks or written into
\* the record of another.
LEMMA StepSound ==
    ASSUME IInv, Guarded, unlocked' = 0, NEW j \in Jobs,
           Begin(j) \/ BeginBare(j) \/ Step(j) \/ Crash(j)
    PROVE  Sound'
<1>0. /\ Sound /\ SoundJob(j) /\ ~job[j].bare /\ job \in [Jobs -> JobRecords]
      /\ job[j] \in JobRecords /\ image \in [Images -> {"none", "half", "whole", "poor"}]
      /\ prune' = prune /\ unlocked \in Nat /\ up \subseteq {n \in Images : image[n] # "none"}
      /\ job[j].pc \in {"look", "lock", "touching"} \cup Building =>
             job[j].level \in 1..Len(Chain(j)) /\ Name(j) \in Images
      /\ job[j].pc \in Building => lock[Name(j)] = j
      /\ open[j] \in {"no", "part", "written"} /\ (open[j] = "written" => part[Name(j)] = "whole")
    BY NameFacts, StepEnv DEF IInv, TypeOK, JobRecords, JobPCs, Sound, SoundJob, LockInv, SoundFiles
<1>k. FilesTyped /\ (record' = record => meta' = meta) /\ (UNCHANGED files => meta' = meta)
    BY MetaFacts DEF IInv, TypeOK, FilesTyped, files
<1>a. \A n \in Images : Complete(n) => image[n] = "whole"
    BY <1>0 DEF Sound
<1>b. {"look", "lock"} \cup Building \subseteq JobPCs
    BY DEF JobPCs
<1> USE <1>k DEF At
\* Where no image and no record changes, only the job itself is in question.
<1>c. ASSUME image' = image, meta' = meta, SoundJob(j)', \A k \in Jobs \ {j} : job'[k] = job[k]
      PROVE  Sound'
    BY <1>0, <1>a, <1>c, SoundFrame DEF Complete
<1>d. ASSUME End(j), image' = image, meta' = meta PROVE Sound'
    BY <1>0, <1>c, <1>d, EndShape, FreshSound
<1>e. ASSUME NEW pc \in {"lock", "recheck"}, Goto(j, pc), image' = image, meta' = meta,
             job[j].pc \in {"look", "lock"}
      PROVE  Sound'
    <2>1. SoundJob(j)'
        BY <1>0, <1>b, <1>e, GotoShape, BehindKept DEF SoundJob, Complete, Building
    <2> QED
        BY <1>0, <1>b, <1>c, <1>e, <2>1, GotoShape DEF Building
<1>f. ASSUME NextLevel(j), image' = image, meta' = meta, Complete(Name(j)),
             job[j].pc \in {"look"} \cup Building
      PROVE  Sound'
    BY <1>0, <1>c, <1>f, NextLevelSound DEF Complete
\* Where the image under the job's lock changes, and does not pass for complete.
<1>g. ASSUME job[j].pc \in Building, Name(j) \notin meta',
             \A n \in Images \ {Name(j)} : image'[n] = image[n],
             \A n \in Images \ {Name(j)} : n \in meta' <=> n \in meta,
             ~Complete(Name(j)), SoundJob(j)', \A k \in Jobs \ {j} : job'[k] = job[k]
      PROVE  Sound'
    BY <1>0, <1>a, <1>g, SoundFrame DEF Complete
\* A step of a builder that stays at its image.
<1>h. ASSUME job[j].pc \in Building, job'[j].pc \in Building,
             job'[j].level = job[j].level, job'[j].bare = job[j].bare,
             \A k \in Jobs \ {j} : job'[k] = job[k],
             \A n \in Images \ {Name(j)} : image'[n] = image[n],
             \A n \in Images \ {Name(j)} : n \in meta' <=> n \in meta,
             ~Complete(Name(j)), Name(j) \notin meta' \/ image'[Name(j)] = "none",
             job'[j].pc \notin {"recheck", "delete", "forget"} => Name(j) \notin meta',
             job'[j].pc = "forget" => image'[Name(j)] = "none",
             job'[j].pc \in {"start", "apply"} => job'[j].from = "whole",
             job'[j].pc \in {"stop", "save"} => image'[Name(j)] = "whole",
             job'[j].from \in {"none", "whole"}
      PROVE  Sound'
    <2>1. \A n \in Images : (Complete(n) => Complete(n)') /\ (Complete(n)' => image'[n] = "whole")
        BY <1>0, <1>a, <1>h DEF Complete
    <2>2. /\ \A i \in Passed(j)' : Complete(Chain(j)[i])'
          /\ Chain(j)' = Chain(j) /\ Name(j)' = Name(j)
        BY <1>0, <1>h, <2>1, BehindKept DEF Building
    <2>3. SoundJob(j)'
        BY <1>0, <1>h, <2>2 DEF SoundJob, Complete, Building
    <2> QED
        BY <1>0, <1>h, <2>1, <2>3, SoundFrame
<1>i. ASSUME Undo(j), job[j].pc \in {"make", "start", "apply", "stop"}, meta' = meta,
             \A n \in Images \ {Name(j)} : image'[n] = image[n]
      PROVE  Sound'
    BY <1>0, <1>h, <1>i, UndoShape DEF SoundJob, Complete, Building
<1>1. CASE Begin(j)
    <2>1. /\ \A k \in Jobs \ {j} : job'[k] = job[k]
          /\ job'[j].pc = "look" /\ job'[j].level = 1 /\ ~job'[j].bare /\ job'[j].from = "none"
        BY <1>0, <1>1, IdleType DEF Begin, Idle
    <2> QED
        BY <1>1, <1>c, <2>1, FreshSound DEF Begin
<1>2. CASE BeginBare(j)
    BY <1>0, <1>2 DEF BeginBare
<1>3. CASE Look(j)
    <2>1. CASE Complete(Name(j))
        BY <1>3, <1>f, <2>1 DEF Look
    <2>2. CASE ~Complete(Name(j))
        BY <1>3, <1>e, <2>2 DEF Look
    <2> QED
        BY <2>1, <2>2
<1>4. CASE Acquire(j)
    BY <1>4, <1>e DEF Acquire
<1>5. CASE Recheck(j)
    <2>1. CASE Complete(Name(j))
        BY <1>5, <1>f, <2>1 DEF Recheck, Building
    <2>2. CASE ~Complete(Name(j))
        <3>1. Goto(j, "delete") /\ "delete" \in JobPCs /\ image' = image /\ meta' = meta
            BY <1>5, <1>b, <1>k, <2>2 DEF Recheck, Building
        <3> QED
            BY <1>0, <1>5, <2>2, <3>1, <1>h, GotoShape DEF Recheck, Building, SoundJob, Complete
    <2> QED
        BY <2>1, <2>2
<1>6. CASE DeleteImage(j)
    <2>1. Goto(j, "forget") /\ "forget" \in JobPCs /\ meta' = meta /\ image' = [image EXCEPT ![Name(j)] = "none"]
        BY <1>6, <1>b DEF DeleteImage, Delete, Building
    <2> QED
        BY <1>0, <1>6, <2>1, <1>h, GotoShape DEF DeleteImage, Building, SoundJob
<1>7. CASE DeleteFails(j)
    <2>1. CASE job[j].then = "make"
        <3>1. Goto(j, "make") /\ "make" \in JobPCs /\ meta' = meta /\ image' = image
            BY <1>7, <1>b, <2>1 DEF DeleteFails, Building
        <3> QED
            BY <1>0, <1>7, <3>1, <1>h, GotoShape DEF DeleteFails, Building, SoundJob, Complete
    <2>2. CASE job[j].then # "make"
        BY <1>7, <1>d, <2>2 DEF DeleteFails, GiveUp
    <2> QED
        BY <2>1, <2>2
<1>8. CASE RemoveMeta(j)
    <2>0. image[Name(j)] = "none" /\ image' = image /\ meta' = meta \ {Name(j)}
        <3>1. Name(j) \in Images /\ Forget(Name(j))
            BY <1>0, <1>8 DEF RemoveMeta, Building
        <3> QED
            BY <1>0, <1>8, <3>1, MetaFacts DEF RemoveMeta, SoundJob
    <2>1. CASE job[j].then = "make"
        <3>1. Goto(j, "make") /\ "make" \in JobPCs
            BY <1>8, <1>b, <2>1 DEF RemoveMeta, Building
        <3> QED
            BY <1>0, <1>8, <2>0, <3>1, <1>h, GotoShape DEF RemoveMeta, Building, SoundJob, Complete
    <2>2. CASE job[j].then # "make"
        <3>1. End(j)
            BY <1>8, <2>2 DEF RemoveMeta, GiveUp
        <3>2. SoundJob(j)' /\ \A k \in Jobs \ {j} : job'[k] = job[k]
            BY <1>0, <3>1, EndShape, FreshSound
        <3> QED
            BY <1>0, <1>8, <1>g, <2>0, <3>2 DEF RemoveMeta, Building, Complete
    <2> QED
        BY <2>1, <2>2
<1>9. CASE Make(j)
    <2>0. /\ Name(j) \notin meta /\ image[Name(j)] = "none" /\ meta' = meta
          /\ image' = [image EXCEPT ![Name(j)] = "half"]
        BY <1>0, <1>9 DEF Make, SoundJob, Building
    <2>1. PICK pc \in {"start", "apply"} : job' = [job EXCEPT ![j].pc = pc, ![j].from = "whole"]
        <3>1. CASE Name(j) = Base
            BY <1>9, <3>1 DEF Make
        <3>2. CASE Name(j) # Base
            <4>1. job[j].level - 1 \in Passed(j)
                <5>1. job[j].level \in 1..Len(Chain(j)) /\ job[j].level # 1 /\ Len(Chain(j)) \in Nat
                    BY <1>0, <1>9, <3>2, ChainFacts DEF Make, Building, Name
                <5> QED
                    BY <5>1 DEF Passed
            <4>2. Parent(j) \in Images /\ Complete(Parent(j))
                BY <1>0, <4>1, ChainFacts DEF SoundJob, Parent, Passed
            <4>3. image[Parent(j)] = "whole"
                BY <1>a, <4>2
            <4> QED
                BY <1>9, <3>2, <4>3 DEF Make
        <3> QED
            BY <3>1, <3>2
    <2>2. /\ \A k \in Jobs \ {j} : job'[k] = job[k]
          /\ job'[j].pc = pc /\ job'[j].level = job[j].level /\ job'[j].from = "whole"
          /\ job'[j].bare = job[j].bare /\ pc \in Building
        BY <1>0, <1>b, <2>1, MoveShape DEF Building
    <2> QED
        BY <1>0, <1>9, <1>h, <2>0, <2>2 DEF Make, Building, Complete
<1>10. CASE MakeFails(j)
    <2>1. /\ Name(j) \notin meta /\ meta' = meta
          /\ \A n \in Images \ {Name(j)} : image'[n] = image[n]
        BY <1>0, <1>10 DEF MakeFails, SoundJob, Building
    <2>2. CASE Name(j) = Base
        BY <1>10, <1>i, <2>1, <2>2 DEF MakeFails
    <2>3. CASE Name(j) # Base
        <3>1. SoundJob(j)' /\ \A k \in Jobs \ {j} : job'[k] = job[k]
            BY <1>0, <1>10, <2>3, EndShape, FreshSound DEF MakeFails, GiveUp
        <3> QED
            BY <1>10, <1>g, <2>1, <3>1 DEF MakeFails, Building, Complete
    <2> QED
        BY <2>2, <2>3
<1>11. CASE StartVM(j)
    <2>1. Goto(j, "apply") /\ "apply" \in JobPCs /\ meta' = meta /\ image' = image
        BY <1>11, <1>b DEF StartVM, Building
    <2> QED
        BY <1>0, <1>11, <2>1, <1>h, GotoShape DEF StartVM, Building, SoundJob, Complete
<1>12. CASE Apply(j)
    <2>0. /\ Name(j) \notin meta /\ meta' = meta
          /\ image' = [image EXCEPT ![Name(j)] = "whole"]
        BY <1>0, <1>12 DEF Apply, SoundJob, Building
    <2>1. /\ \A k \in Jobs \ {j} : job'[k] = job[k]
          /\ job'[j].pc = "stop" /\ job'[j].level = job[j].level /\ job'[j].from = "none"
          /\ job'[j].bare = job[j].bare
        BY <1>0, <1>b, <1>12, MoveShape DEF Apply, Building
    <2> QED
        BY <1>0, <1>12, <1>h, <2>0, <2>1 DEF Apply, Building, Complete
<1>13. CASE BuildFails(j)
    BY <1>13, <1>i DEF BuildFails
<1>14. CASE StopVM(j)
    <2>1. Goto(j, "save") /\ "save" \in JobPCs /\ meta' = meta /\ image' = image
        BY <1>0, <1>14, <1>b DEF StopVM, Building
    <2> QED
        BY <1>0, <1>14, <2>1, <1>h, GotoShape DEF StopVM, Building, SoundJob, Complete
<1>15. CASE StopFails(j)
    BY <1>15, <1>d, <1>i DEF StopFails, GiveUp
<1>16. CASE Save(j)
    <2>1. /\ meta' = meta \cup {Name(j)} /\ image' = image /\ image[Name(j)] = "whole"
          /\ Name(j) \notin meta /\ NextLevel(j)
        <3>1. Install(j) /\ Name(j) \in Images /\ part[Name(j)] = "whole"
            BY <1>0, <1>16 DEF Save, Install, Building
        <3>2. meta' = meta \cup {Name(j)}
            BY <3>1, MetaFacts
        <3> QED
            BY <1>0, <1>16, <3>2 DEF Save, SoundJob, Building
    <2>2. SoundJob(j)' /\ \A k \in Jobs \ {j} : job'[k] = job[k]
        BY <1>0, <1>16, <2>1, NextLevelSound DEF Save, Building, Complete
    <2> QED
        BY <1>0, <1>16, <1>a, <2>1, <2>2, SoundFrame DEF Save, Building, Complete
<1>17. CASE SaveFails(j) \/ Crash(j)
    <2>1. record' = record
        BY <1>0, <1>17 DEF SaveFails, Crash, InstallFails, Put, Close
    <2> QED
        BY <1>17, <1>d, <2>1 DEF SaveFails, Crash, GiveUp
<1>j. ASSUME job[j].pc \in {"touch", "touching"}, job'[j].pc \in {"touch", "touching", "use"},
             job'[j].bare = job[j].bare, job'[j].from = job[j].from, image' = image, meta' = meta,
             \A k \in Jobs \ {j} : job'[k] = job[k]
      PROVE  Sound'
    <2>1. Passed(j)' = Passed(j) /\ Chain(j)' = Chain(j)
        BY <1>j, NameFacts DEF IInv, Passed
    <2>2. SoundJob(j)'
        BY <1>0, <1>j, <2>1 DEF SoundJob, Complete, Building
    <2> QED
        BY <1>c, <1>j, <2>2
<1>18. CASE TouchLoad(j)
    <2>1. CASE job[j].level > Len(Chain(j))
        <3>1. Goto(j, "use") /\ "use" \in JobPCs
            BY <1>18, <2>1 DEF TouchLoad, JobPCs
        <3> QED
            BY <1>0, <1>18, <1>j, <3>1, GotoShape DEF TouchLoad
    <2>2. CASE ~(job[j].level > Len(Chain(j))) /\ Name(j) \in meta
        <3>1. Goto(j, "touching") /\ "touching" \in JobPCs
            BY <1>18, <2>2 DEF TouchLoad, JobPCs
        <3> QED
            BY <1>0, <1>18, <1>j, <3>1, GotoShape DEF TouchLoad
    <2>3. CASE ~(job[j].level > Len(Chain(j))) /\ Name(j) \notin meta
        <3>1. job' = [job EXCEPT ![j].level = @ + 1] /\ job[j].pc \in JobPCs
            BY <1>18, <2>3 DEF TouchLoad, JobPCs
        <3> QED
            BY <1>0, <1>18, <1>j, <3>1, ClimbShape DEF TouchLoad
    <2> QED
        BY <2>1, <2>2, <2>3
<1>19. CASE TouchSave(j)
    <2>1. job[j].level \in Passed(j)
        BY <1>0, <1>19 DEF TouchSave, Passed
    <2>2. Name(j) \in meta
        BY <1>0, <2>1 DEF SoundJob, Name, Complete
    <2>2a. meta' = meta
        <3>1. CASE Install(j)
            BY <1>0, <1>19, <2>2, <3>1, MetaFacts DEF TouchSave, Install
        <3>2. CASE InstallFails(j)
            BY <1>0, <3>2 DEF InstallFails, Put
        <3> QED
            BY <1>19, <3>1, <3>2 DEF TouchSave
    <2>3. /\ "touch" \in JobPCs /\ meta' = meta /\ image' = image /\ job[j].pc = "touching"
          /\ job' = [job EXCEPT ![j].pc = "touch", ![j].level = @ + 1]
        BY <1>19, <2>2a DEF TouchSave, JobPCs
    <2> QED
        BY <1>0, <1>j, <2>3, ClimbShape
<1>20. CASE CloneForRun(j)
    <2>1. Len(Chain(j)) \in Passed(j) /\ Chain(j)[Len(Chain(j))] \in Images
        BY <1>20, ChainFacts DEF CloneForRun, Passed
    <2>2. image[Chain(j)[Len(Chain(j))]] = "whole"
        BY <1>0, <1>a, <2>1 DEF SoundJob
    <2>3. End(j) /\ image' = image /\ meta' = meta
        BY <1>20, <2>2 DEF CloneForRun, End
    <2> QED
        BY <1>d, <2>3
<1>21. CASE OpenRecord(j) \/ WriteRecord(j)
    <2>1. record' = record /\ image' = image /\ job' = job
        BY <1>0, <1>21 DEF OpenRecord, WriteRecord, Put
    <2>2. SoundJob(j)'
        BY <1>0, <1>k, <2>1 DEF SoundJob, Passed, Complete, Chain, Name
    <2> QED
        BY <1>c, <1>k, <2>1, <2>2
<1> QED
    BY <1>1, <1>2, <1>3, <1>4, <1>5, <1>6, <1>7, <1>8, <1>9, <1>10, <1>11, <1>12, <1>13, <1>14,
       <1>15, <1>16, <1>17, <1>18, <1>19, <1>20, <1>21 DEF Step

\* And nobody gets at the temporary file of another.
LEMMA StepSoundFiles ==
    ASSUME IInv, Guarded, shared' = {}, NEW j \in Jobs,
           Begin(j) \/ BeginBare(j) \/ Step(j) \/ Crash(j)
    PROVE  SoundFiles'
<1>0. /\ FilesTyped /\ SoundFiles /\ \A k \in Jobs \ {j} : job'[k] = job[k]
      /\ job[j].pc \in {"look", "lock", "touching"} \cup Building => Name(j) \in Images
    BY NameFacts, StepTypes DEF IInv, TypeOK, FilesTyped, JobKept
<1>1. ASSUME NEW k \in Jobs \ {j} PROVE Name(k)' = Name(k)
    BY <1>0, NameFacts DEF IInv
<1> USE DEF At, Building
<1>2. ASSUME UNCHANGED files, job[j].pc \notin {"touching", "save"} PROVE SoundFiles'
    <2>1. open[j] = "no"
        BY <1>0, <1>2 DEF FilesTyped
    <2> QED
        BY <1>0, <1>1, <1>2, <2>1 DEF files, SoundFiles
\* A writer that is through with its file.
<1>3. ASSUME Install(j) \/ InstallFails(j) \/ Close(j) PROVE SoundFiles'
    <2>1. /\ open'[j] = "no" /\ \A k \in Jobs \ {j} : open'[k] = open[k]
          /\ \A n \in Images : (open[j] = "no" \/ n # Name(j)) => part'[n] = part[n]
        <3>1. CASE Install(j)
            <4>1. \A k \in Jobs \ {j} : k \notin Writers(Name(j), "part") \cup Writers(Name(j), "record")
                BY <1>0, <3>1 DEF Install, Writers, SoundFiles
            <4> QED
                BY <1>0, <3>1, <4>1 DEF Install, FilesTyped
        <3>2. CASE InstallFails(j)
            BY <1>0, <3>2 DEF InstallFails, Put, FilesTyped
        <3>3. CASE Close(j)
            BY <1>0, <3>3 DEF Close, FilesTyped
        <3> QED
            BY <1>3, <3>1, <3>2, <3>3
    <2>2. ASSUME NEW k \in Jobs \ {j}, open[k] # "no" PROVE part'[Name(k)] = part[Name(k)]
        <3>1. Name(k) \in Images
            BY <1>0, <2>2, NameFacts DEF FilesTyped, IInv
        <3> QED
            BY <1>0, <2>1, <2>2, <3>1 DEF SoundFiles
    <2> QED
        BY <1>0, <1>1, <2>1, <2>2 DEF SoundFiles
<1>4. CASE Begin(j) \/ BeginBare(j)
    BY <1>2, <1>4 DEF Begin, BeginBare, Ended
<1>5. CASE Look(j) \/ Acquire(j) \/ Recheck(j) \/ TouchLoad(j) \/ CloneForRun(j)
    BY <1>2, <1>5 DEF Look, Acquire, Recheck, TouchLoad, CloneForRun
<1>6. CASE DeleteImage(j) \/ DeleteFails(j) \/ Make(j) \/ MakeFails(j) \/ StartVM(j)
           \/ Apply(j) \/ BuildFails(j) \/ StopVM(j) \/ StopFails(j)
    BY <1>2, <1>6 DEF DeleteImage, DeleteFails, Make, MakeFails, StartVM, Apply, BuildFails,
       StopVM, StopFails
<1>7. CASE RemoveMeta(j)
    <2>1. open[j] = "no" /\ Writers(Name(j), "record") = {}
        BY <1>0, <1>7 DEF RemoveMeta, FilesTyped, SoundFiles, Writers
    <2>2. \A k \in Jobs : open'[k] = open[k]
        BY <1>0, <1>7, <2>1 DEF RemoveMeta, Forget
    <2>3. part' = part
        BY <1>7 DEF RemoveMeta, Forget
    <2> QED
        BY <1>0, <1>1, <2>1, <2>2, <2>3 DEF SoundFiles
<1>8. CASE OpenRecord(j)
    <2>1. /\ \A k \in Jobs \ {j} : open[k] # "no" => Name(k) # Name(j)
          /\ \A k \in Jobs : Name(k)' = Name(k)
          /\ part' = [part EXCEPT ![Name(j)] = "empty"] /\ open' = [open EXCEPT ![j] = "part"]
        BY <1>0, <1>8 DEF OpenRecord, Name, Chain
    <2>2. Name(j) \in Images
        BY <1>0, <1>8 DEF OpenRecord
    <2>3. \A k \in Jobs \ {j} : open'[k] = open[k] /\ (open[k] # "no" => part'[Name(k)] = part[Name(k)])
        BY <1>0, <2>1 DEF FilesTyped
    <2>4. open'[j] = "part" /\ part'[Name(j)] = "empty"
        BY <1>0, <2>1, <2>2 DEF FilesTyped
    <2> QED
        BY <1>0, <2>1, <2>3, <2>4 DEF SoundFiles
<1>9. CASE WriteRecord(j)
    <2>1. /\ open[j] = "part" /\ part[Name(j)] = "empty" /\ Name(j) \in Images
          /\ job[j].pc \in {"touching", "save"}
        BY <1>0, <1>9 DEF WriteRecord, SoundFiles, FilesTyped
    <2>2. /\ part' = [part EXCEPT ![Name(j)] = "whole"] /\ open' = [open EXCEPT ![j] = "written"]
          /\ \A k \in Jobs : Name(k)' = Name(k)
        BY <1>9, <2>1 DEF WriteRecord, Put, Name, Chain
    <2>3. \A k \in Jobs \ {j} : open'[k] = open[k] /\ (open[k] # "no" => part'[Name(k)] = part[Name(k)])
        BY <1>0, <2>1, <2>2 DEF FilesTyped, SoundFiles
    <2>4. open'[j] = "written" /\ part'[Name(j)] = "whole"
        BY <1>0, <2>1, <2>2 DEF FilesTyped
    <2> QED
        BY <1>0, <2>1, <2>2, <2>3, <2>4 DEF SoundFiles
<1>10. CASE Save(j) \/ SaveFails(j) \/ TouchSave(j) \/ Crash(j)
    BY <1>3, <1>10 DEF Save, SaveFails, TouchSave, Crash
<1> QED
    BY <1>4, <1>5, <1>6, <1>7, <1>8, <1>9, <1>10 DEF Step

-----------------------------------------------------------------------------
(* The theorems.                                                           *)

\* The invariant holds at the start.
LEMMA InitInv == Init => IInv
<1> SUFFICES ASSUME Init PROVE IInv
    OBVIOUS
<1>1. /\ job \in [Jobs -> JobRecords]
      /\ \A j \in Jobs : job[j].pc = "idle" /\ job[j].level = 1 /\ ~job[j].bare
                                            /\ job[j].from = "none"
    BY IdleType DEF Init, Idle
<1>2. /\ "idle" \notin Building \cup {"look", "lock", "touching", "touch", "use"}
      /\ Base \in Images /\ MaxUnlocked \in Nat
    BY PathAssumption, BoundsAssumption DEF PathAssumption, BoundsAssumption, Building
<1>3. \A j \in Jobs : Len(Chain(j)) \in Nat \ {0}
    BY ChainFacts
<1>4. TypeOK
    <2>1. \A j \in Jobs : job[j].level <= Len(Chain(j)) + 1
        BY <1>1, <1>3
    <2>2. prune \in PruneRecords
        BY <1>2 DEF Init, NotPruning, PruneRecords
    <2>3. /\ image \in [Images -> {"none", "half", "whole", "poor"}] /\ up = {}
          /\ FilesTyped /\ lock \in [Images -> Jobs \cup {"nobody"}]
          /\ unlocked \in 0..MaxUnlocked
        <3>1. image \in [Images -> {"none", "half", "whole", "poor"}]
            BY DEF Init
        <3>2. FilesTyped
            BY DEF Init, FilesTyped, Contents
        <3>3. lock \in [Images -> Jobs \cup {"nobody"}]
            BY DEF Init
        <3>4. up = {} /\ unlocked = 0
            BY DEF Init
        <3> QED
            BY <1>2, <3>1, <3>2, <3>3, <3>4
    <2> QED
        BY <1>1, <1>2, <2>1, <2>2, <2>3 DEF TypeOK, PruneRecords, JobRecords, JobPCs, FilesTyped
<1>5. \A j \in Jobs : BareInv(j) /\ LockInv(j)
    BY <1>1, <1>2 DEF BareInv, LockInv
<1>6. \A j \in Jobs : Passed(j) = {}
    BY <1>1, <1>2, <1>3 DEF Passed
<1>7. \A n \in Images : Complete(n) => image[n] = "whole"
    BY DEF Init, Complete
<1>8. Sound
    BY <1>1, <1>2, <1>6, <1>7 DEF Sound, SoundJob, Building
<1>9. SoundFiles /\ prune.pc = "idle"
    BY DEF Init, SoundFiles, NotPruning
<1> QED
    BY <1>4, <1>5, <1>8, <1>9 DEF IInv

\* Every step keeps it.
LEMMA NextInv ==
    ASSUME IInv, [Next]_vars
    PROVE  IInv'
<1>1. CASE Prune
    BY <1>1, PruneTypes DEF IInv, Guarded
<1>2. ASSUME NEW j \in Jobs, Begin(j) \/ BeginBare(j) \/ Step(j) \/ Crash(j)
      PROVE  IInv'
    <2>1. /\ unlocked' = 0 => unlocked = 0
          /\ prune' = prune /\ unlocked \in Nat /\ unlocked' \in Nat
        BY <1>2, StepEnv DEF IInv, TypeOK
    <2>2. shared' = {} => shared = {}
        BY <1>2 DEF Begin, BeginBare, Step, Crash, Look, Acquire, Recheck,
           DeleteImage, DeleteFails, RemoveMeta, Make, MakeFails, StartVM, Apply, BuildFails,
           StopVM, StopFails, OpenRecord, WriteRecord, Save, SaveFails, TouchLoad, TouchSave,
           CloneForRun, files, Forget, Install, InstallFails, Close
    <2>3. prune'.pc # "idle" => unlocked' # 0
        BY <2>1 DEF IInv
    <2>4. Guarded' => Guarded /\ Sound' /\ SoundFiles'
        BY <1>2, <2>1, <2>2, StepSound, StepSoundFiles DEF Guarded
    <2> QED
        BY <1>2, <2>3, <2>4, StepTypes DEF IInv
<1>3. CASE UNCHANGED vars
    <2>1. UNCHANGED <<image, up, meta, record, part, open, shared, lock, job, prune, unlocked>>
        BY <1>3 DEF vars, files, meta
    <2>2. ASSUME NEW j \in Jobs
          PROVE  /\ Chain(j)' = Chain(j) /\ Name(j)' = Name(j) /\ Passed(j)' = Passed(j)
        BY <2>1 DEF Chain, Name, Passed
    <2>3. TypeOK'
        BY <2>1, <2>2 DEF IInv, TypeOK
    <2>4. \A j \in Jobs : BareInv(j)' /\ LockInv(j)'
        BY <2>1, <2>2 DEF IInv, BareInv, LockInv
    <2>5. ASSUME NEW j \in Jobs, SoundJob(j) PROVE SoundJob(j)'
        BY <2>1, <2>2, <2>5 DEF SoundJob, Complete
    <2>6. Sound => Sound'
        BY <2>1, <2>5 DEF Sound, Complete
    <2>7. SoundFiles => SoundFiles'
        BY <2>1, <2>2 DEF SoundFiles
    <2> QED
        BY <2>1, <2>3, <2>4, <2>6, <2>7 DEF IInv, Guarded
<1> QED
    BY <1>1, <1>2, <1>3 DEF Next

\* The invariant holds in every reachable state.
THEOREM Invariance == Spec => []IInv
<1>1. IInv /\ [Next]_vars => IInv'
    BY NextInv
<1> QED
    BY <1>1, InitInv, PTL DEF Spec

\* Every variable keeps its type.
THEOREM TypeCorrect == Spec => []TypeOK
BY Invariance, PTL DEF IInv

\* Two jobs never build one image at the same time, for any tree and any number of
\* jobs, crashes and prunes (once, acquire).
THEOREM NeverBuiltTwice == Spec => []BuiltOnce
<1>1. IInv => BuiltOnce
    BY DEF IInv, LockInv, BuiltOnce
<1> QED
    BY <1>1, Invariance, PTL

\* Where everybody takes the locks and no two write one record at once, what passes
\* for complete is whole (complete), through every failure of a write.
THEOREM CompleteIsWhole == Spec => []WholeUnderLocks
<1>1. IInv => WholeUnderLocks
    BY DEF IInv, Sound, WholeUnderLocks
<1> QED
    BY <1>1, Invariance, PTL

\* And nothing is made from an image that is not whole (Ensure, CloneForRun).
THEOREM MadeFromWhole == Spec => []ClonesAreWhole
<1>1. IInv => ClonesAreWhole
    BY DEF IInv, Sound, SoundJob, ClonesAreWhole
<1> QED
    BY <1>1, Invariance, PTL

\* Nor is an image that passes for complete deleted under the lock (once looks
\* again inside).
THEOREM NeverRebuilt == Spec => FinishedStays
<1>1. IInv => (Guarded => \A j \in Jobs : DeleteImage(j) => ~Complete(Name(j)))
    BY DEF IInv, Sound, SoundJob, DeleteImage, At
<1> QED
    BY <1>1, Invariance, PTL DEF FinishedStays

-----------------------------------------------------------------------------
(* What prune keeps.                                                       *)

\* A chain that ends in an image runs through that image's own chain.
LEMMA ChainOfAncestor ==
    ASSUME NEW h \in Images, NEW i \in 1..Len(Path[h])
    PROVE  /\ Path[h][i] \in Images /\ Len(Path[Path[h][i]]) = i
           /\ \A k \in 1..i : Path[Path[h][i]][k] = Path[h][k]
<1>1. Path[h] \in Seq(Images)
    BY PathAssumption DEF PathAssumption
<1>2. Path[Path[h][i]] = SubSeq(Path[h], 1, i)
    BY PathAssumption DEF PathAssumption
<1> QED
    BY <1>1, <1>2

\* The kept chains are kept whole, whatever else the sweep takes (Prune).
THEOREM AncestryKept == Spec => AncestryIsKept
<1>1. ASSUME IInv, PruneChoose, NEW n \in (prune.seen \cap Layers) \ prune'.todo,
             ChainWhole(n), NEW i \in 2..Len(Path[n])
      PROVE  Path[n][i] \notin prune'.todo
    <2>0. n \in Images /\ n # Base /\ Len(Path[n]) \in Nat /\ i \in 1..Len(Path[n])
        BY <1>1, PathAssumption DEF Layers, PathAssumption
    <2>1. PICK heads \in SUBSET Heads(prune.seen, meta) :
              prune'.todo = (prune.seen \cap Layers) \ Kept(heads, meta, prune.up)
        BY <1>1 DEF PruneChoose, NotPruning
    <2>2. n \in Kept(heads, meta, prune.up)
        BY <1>1, <2>1
    <2>3. /\ Len(Path[n]) # 1 /\ Len(Path[n]) # 0 /\ Path[n][Len(Path[n])] = n
        <3>1. /\ Path[n] \in Seq(Images) /\ Path[n] # <<>> /\ Path[n][1] = Base
              /\ Path[n][Len(Path[n])] = n
            BY <2>0, PathAssumption DEF PathAssumption
        <3> QED
            BY <2>0, <3>1
    <2>4. n \notin prune.up
        BY <1>1, <2>0, <2>3 DEF ChainWhole
    <2>5. PICK h \in heads : n \in Lineage(h, meta, prune.up)
        BY <2>2, <2>4 DEF Kept
    <2>6. h \in Images
        BY <2>5, <1>1 DEF Heads, IInv, TypeOK
    <2>7. PICK m \in 1..Len(Path[h]) :
              /\ n = Path[h][m]
              /\ \A k \in m + 1..Len(Path[h]) : Path[h][k] \in meta /\ Path[h][k] \notin prune.up
        BY <2>5 DEF Lineage
    <2>8. Len(Path[n]) = m /\ \A k \in 1..m : Path[n][k] = Path[h][k]
        BY <2>6, <2>7, ChainOfAncestor
    <2>9. Path[h] \in Seq(Images) /\ Len(Path[h]) \in Nat
        BY <2>6, PathAssumption DEF PathAssumption
    <2>10. ASSUME NEW k \in i + 1..Len(Path[h])
           PROVE  Path[h][k] \in meta /\ Path[h][k] \notin prune.up
        <3>1. CASE k > m
            BY <2>0, <2>7, <2>8, <2>9, <3>1
        <3>2. CASE k <= m
            BY <1>1, <2>0, <2>8, <2>9, <3>2 DEF ChainWhole
        <3> QED
            BY <2>7, <2>9, <3>1, <3>2
    <2>11. Path[n][i] = Path[h][i] /\ i \in 1..Len(Path[h])
        BY <2>0, <2>7, <2>8, <2>9
    <2>12. Path[n][i] \in Lineage(h, meta, prune.up)
        BY <2>10, <2>11 DEF Lineage
    <2> QED
        BY <2>1, <2>5, <2>12 DEF Kept
<1>2. IInv => (PruneChoose => \A n \in (prune.seen \cap Layers) \ prune'.todo :
           ChainWhole(n) => \A i \in 2..Len(Path[n]) : Path[n][i] \notin prune'.todo)
    BY <1>1
<1> QED
    BY <1>2, Invariance, PTL DEF AncestryIsKept
=============================================================================
