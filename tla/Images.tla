------------------------------- MODULE Images -------------------------------
(***************************************************************************)
(* The VM images a job is cloned from (internal/image, internal/cli/       *)
(* image.go): a shared base and layers, each a clone of its parent with    *)
(* one more step applied.  Builders are processes of their own that share  *)
(* nothing but limactl's instances, one metadata file per image and one    *)
(* flock per image; `kranq image prune` and the bare `kranq image build`   *)
(* take no lock.                                                           *)
(*                                                                         *)
(* Abstracted: an image to how far its content can be trusted, times of    *)
(* last use to a choice among the orders they may have, the commands of    *)
(* limactl to what they do to an instance.  What a builder does to an      *)
(* instance that another has made anew under its name counts as its own;   *)
(* a metadata file to whether there is one and whether it can be read.     *)
(***************************************************************************)
EXTENDS Integers, Sequences, FiniteSets, FiniteSetsExt

CONSTANTS
    Images,      \* image names
    Base,        \* the one that is built from the template
    Jobs,        \* processes that need an image, one after the other
    Wants,       \* the image each needs, unless it is a bare `kranq image build`
    Path,        \* how each image is built: its ancestors, base first, and itself
    Keep,        \* how many heads prune keeps
    MaxUnlocked  \* bound: how many prunes and bare builds, which take no lock

ASSUME PathAssumption ==
    /\ Base \in Images /\ Path \in [Images -> Seq(Images)]
    /\ \A n \in Images : /\ Path[n] # <<>> /\ Path[n][1] = Base /\ Path[n][Len(Path[n])] = n
                         /\ \A i \in 1..Len(Path[n]) : Path[Path[n][i]] = SubSeq(Path[n], 1, i)

ASSUME JobsAssumption == Wants \in [Jobs -> Images] /\ "nobody" \notin Jobs

ASSUME BoundsAssumption == Keep \in Nat \ {0} /\ MaxUnlocked \in Nat

VARIABLES
    image,     \* "none", "half" built, "whole", or "poor": built on less than whole
    up,        \* the instances that are running
    record,    \* the metadata file of each image: absent, empty, torn, or whole
    part,      \* the temporary file it is written to first, one name for everybody
    open,      \* how far each job's write of a record is, and where its open file is now
    lock,      \* the job that holds the flock of each image, "nobody" if none
    job,       \* where each job is
    prune,     \* where prune is, and what it found
    unlocked,  \* how many prunes and bare builds there have been
    shared     \* the images whose temporary file two writers have used at once

files == <<record, part, open, shared>>

vars == <<image, up, files, lock, job, prune, unlocked>>

Contents == {"none", "empty", "torn", "whole"}

\* The images whose record can be read.
meta == {n \in Images : record[n] = "whole"}

Chain(j) == IF job[j].bare THEN <<Base>> ELSE Path[Wants[j]]

Layers == Images \ {Base}

Idle == [pc |-> "idle", level |-> 1, from |-> "none", then |-> "make", bare |-> FALSE]

NotPruning == [pc |-> "idle", seen |-> {}, up |-> {}, todo |-> {}, ghosts |-> {}, at |-> Base]

\* There is no process, or it ended; or it runs in a clone that is not whole.
Ended == {"idle", "half", "poor"}

\* Under the lock, from the second look to the release.
Building == {"recheck", "delete", "forget", "make", "start", "apply", "stop", "save"}

TypeOK ==
    /\ image \in [Images -> {"none", "half", "whole", "poor"}]
    /\ up \subseteq {n \in Images : image[n] # "none"}
    /\ record \in [Images -> Contents] /\ part \in [Images -> Contents]
    /\ open \in [Jobs -> {"no", "part", "record", "gone", "written"}]
    /\ shared \subseteq Images
    /\ lock \in [Images -> Jobs \cup {"nobody"}]
    /\ job \in [Jobs -> [pc : {"look", "lock", "touch", "touching", "use"} \cup Building \cup Ended,
                         level : Nat \ {0},
                         from : {"none", "half", "whole", "poor"},
                         then : {"make", "fail"}, bare : BOOLEAN]]
    /\ \A j \in Jobs :
         /\ job[j].level <= Len(Chain(j)) + 1
         /\ job[j].pc \in {"look", "lock", "touching"} \cup Building =>
                job[j].level <= Len(Chain(j))
         /\ open[j] # "no" => job[j].pc \in {"touching", "save"}
    /\ prune \in [pc : {"idle", "listed", "sweep", "forget"}, seen : SUBSET Images,
                  up : SUBSET Images, todo : SUBSET Layers, ghosts : SUBSET Images,
                  at : Images]
    /\ unlocked \in 0..MaxUnlocked

\* What earlier jobs and prunes left behind, one of which died between the two
\* halves of a Destroy, or none.
Init ==
    /\ image \in [Images -> {"none", "whole"}]
    /\ up = {}
    /\ record \in {[n \in Images |-> IF image[n] = "whole" \/ n \in ghost THEN "whole" ELSE "none"] :
                      ghost \in {{}} \cup {{n} : n \in {n \in Images : image[n] = "none"}}}
    /\ part = [n \in Images |-> "none"]
    /\ open = [j \in Jobs |-> "no"]
    /\ shared = {}
    /\ lock = [n \in Images |-> "nobody"]
    /\ job = [j \in Jobs |-> Idle]
    /\ prune = NotPruning
    /\ unlocked = 0

-----------------------------------------------------------------------------
(* Destroy, and what is asked about an image.                              *)

\* The instance exists and its record can be read.
Complete(n) == image[n] # "none" /\ n \in meta

\* limactl stop -f and delete -f.
Delete(n) == image' = [image EXCEPT ![n] = "none"] /\ up' = up \ {n}

Name(j) == Chain(j)[job[j].level]
Parent(j) == Chain(j)[job[j].level - 1]

At(j, pc) == job[j].pc = pc
Goto(j, pc) == job' = [job EXCEPT ![j].pc = pc]
End(j) == job' = [job EXCEPT ![j] = Idle]

Release(j) == lock' = [n \in Images |-> IF lock[n] = j THEN "nobody" ELSE lock[n]]

\* A job goes on to the next image of its chain; after the last, the layers are
\* touched.
NextLevel(j) ==
    job' = [job EXCEPT ![j] =
               IF @.level < Len(Chain(j))
               THEN [@ EXCEPT !.pc = "look", !.level = job[j].level + 1, !.from = "none"]
               ELSE [@ EXCEPT !.pc = "touch", !.level = 2, !.from = "none"]]

-----------------------------------------------------------------------------
(* The record of an image: save writes a temporary file of a fixed name    *)
(* and renames it.  Under the lock of the image or, for touch, without.    *)

\* Whose open file is the temporary file, or the record, of an image.
Writers(n, at) == {k \in Jobs : open[k] = at /\ Name(k) = n}

\* The temporary file is made, or emptied under whoever else writes to it.
OpenRecord(j) ==
    /\ job[j].pc \in {"save", "touching"} /\ open[j] = "no"
    /\ part' = [part EXCEPT ![Name(j)] = "empty"]
    /\ open' = [open EXCEPT ![j] = "part"]
    /\ shared' = IF \E k \in Jobs \ {j} : open[k] # "no" /\ Name(k) = Name(j)
                 THEN shared \cup {Name(j)} ELSE shared
    /\ UNCHANGED <<image, up, record, lock, job, prune, unlocked>>

\* What a file may hold once a job has written to it, all of it or not: over
\* something longer, the rest of that stays.
Put(j, content) ==
    /\ record' = IF open[j] = "record" THEN [record EXCEPT ![Name(j)] = content] ELSE record
    /\ part' = IF open[j] = "part" THEN [part EXCEPT ![Name(j)] = content] ELSE part

WriteRecord(j) ==
    /\ open[j] \in {"part", "record", "gone"}
    /\ \/ Put(j, "whole")
       \/ /\ \/ open[j] = "part" /\ part[Name(j)] # "empty"
             \/ open[j] = "record" /\ record[Name(j)] # "empty"
          /\ Put(j, "torn")
    /\ open' = [open EXCEPT ![j] = "written"]
    /\ UNCHANGED <<image, up, lock, job, prune, unlocked, shared>>

\* The rename.  Who has one of the two files open keeps it, whatever its name now.
Install(j) ==
    LET n == Name(j) IN
    /\ open[j] = "written" /\ part[n] # "none"
    /\ record' = [record EXCEPT ![n] = part[n]]
    /\ part' = [part EXCEPT ![n] = "none"]
    /\ open' = [k \in Jobs |-> IF k = j THEN "no"
                               ELSE IF k \in Writers(n, "part") THEN "record"
                               ELSE IF k \in Writers(n, "record") THEN "gone" ELSE open[k]]
    /\ UNCHANGED shared

\* One of the three fails, the write perhaps half-way, the rename because there is
\* no such file any more.
InstallFails(j) ==
    /\ \/ UNCHANGED <<record, part>>
       \/ open[j] \in {"part", "record", "gone"} /\ Put(j, "torn")
    /\ open' = [open EXCEPT ![j] = "no"]
    /\ UNCHANGED shared

\* A process that ends leaves the files as they are.
Close(j) ==
    /\ open' = [open EXCEPT ![j] = "no"]
    /\ UNCHANGED <<record, part, shared>>

\* The record of an image is removed.
Forget(n) ==
    /\ record' = [record EXCEPT ![n] = "none"]
    /\ open' = [k \in Jobs |-> IF k \in Writers(n, "record") THEN "gone" ELSE open[k]]
    /\ UNCHANGED <<part, shared>>

-----------------------------------------------------------------------------
(* Ensure: one image after the other.                                      *)

\* A new process, in the place of an ended one.
Begin(j) ==
    /\ job[j].pc \in Ended
    /\ job' = [job EXCEPT ![j] = [Idle EXCEPT !.pc = "look"]]
    /\ UNCHANGED <<image, up, files, lock, prune, unlocked>>

\* `kranq image build` of no repository only asks whether there is a base, and
\* builds it with no lock and no record.
BeginBare(j) ==
    /\ job[j].pc \in Ended /\ unlocked < MaxUnlocked
    /\ unlocked' = unlocked + 1
    /\ IF image[Base] # "none" THEN End(j)
       ELSE job' = [job EXCEPT ![j] = [Idle EXCEPT !.pc = "delete", !.bare = TRUE]]
    /\ UNCHANGED <<image, up, files, lock, prune>>

\* Mutant: a bare instance is enough.
LookForInstance(j) ==
    /\ At(j, "look")
    /\ IF image[Name(j)] # "none" THEN NextLevel(j) ELSE Goto(j, "lock")
    /\ UNCHANGED <<image, up, files, lock, prune, unlocked>>

\* The first look, without the lock.
Look(j) ==
    /\ At(j, "look")
    /\ IF Complete(Name(j)) THEN NextLevel(j) ELSE Goto(j, "lock")
    /\ UNCHANGED <<image, up, files, lock, prune, unlocked>>

\* Mutant: the lock is shared.
AcquireShared(j) ==
    /\ At(j, "lock")
    /\ lock' = [lock EXCEPT ![Name(j)] = j]
    /\ Goto(j, "recheck")
    /\ UNCHANGED <<image, up, files, prune, unlocked>>

Acquire(j) ==
    /\ At(j, "lock") /\ lock[Name(j)] = "nobody"
    /\ lock' = [lock EXCEPT ![Name(j)] = j]
    /\ Goto(j, "recheck")
    /\ UNCHANGED <<image, up, files, prune, unlocked>>

\* Mutant: the lock is taken but the image is not looked at again.
RecheckNothing(j) ==
    /\ At(j, "recheck")
    /\ Goto(j, "delete") /\ UNCHANGED <<lock, image, up, files, prune, unlocked>>

\* The second look, inside the lock.
Recheck(j) ==
    /\ At(j, "recheck")
    /\ IF Complete(Name(j)) THEN NextLevel(j) /\ Release(j)
       ELSE Goto(j, "delete") /\ UNCHANGED lock
    /\ UNCHANGED <<image, up, files, prune, unlocked>>

\* A step fails: what was built is destroyed, or left behind.
Undo(j) ==
    /\ job' = [job EXCEPT ![j] = [@ EXCEPT !.pc = "delete", !.from = "none", !.then = "fail"]]
    /\ UNCHANGED lock
GiveUp(j) == End(j) /\ Release(j)

\* Destroy, first half.
DeleteImage(j) ==
    /\ At(j, "delete")
    /\ Delete(Name(j))
    /\ Goto(j, "forget")
    /\ UNCHANGED <<files, lock, prune, unlocked>>

\* Its error is dropped, and the record stays with the image, which may have been
\* stopped.  To delete an instance that is not there succeeds.
DeleteFails(j) ==
    /\ At(j, "delete") /\ image[Name(j)] # "none"
    /\ IF job[j].then = "make" THEN Goto(j, "make") /\ UNCHANGED lock
       ELSE GiveUp(j)
    /\ up' \in {up, up \ {Name(j)}}
    /\ UNCHANGED <<image, files, prune, unlocked>>

\* Mutant: the image is deleted and its record is left.
RemoveNothing(j) ==
    /\ At(j, "forget")
    /\ IF job[j].then = "make" THEN Goto(j, "make") /\ UNCHANGED lock
       ELSE GiveUp(j)
    /\ UNCHANGED <<image, up, files, prune, unlocked>>

RemoveMeta(j) ==
    /\ At(j, "forget")
    /\ Forget(Name(j))
    /\ IF job[j].then = "make" THEN Goto(j, "make") /\ UNCHANGED lock
       ELSE GiveUp(j)
    /\ UNCHANGED <<image, up, prune, unlocked>>

\* The instance appears, from the template or as a clone of its stopped parent.
Make(j) ==
    /\ At(j, "make")
    /\ image[Name(j)] = "none"
    /\ \/ /\ Name(j) = Base
          /\ job' = [job EXCEPT ![j].pc = "apply", ![j].from = "whole"]
          /\ up' = up \cup {Base}
       \/ /\ Name(j) # Base
          /\ image[Parent(j)] # "none" /\ Parent(j) \notin up
          /\ job' = [job EXCEPT ![j].pc = "start", ![j].from = image[Parent(j)]]
          /\ UNCHANGED up
    /\ image' = [image EXCEPT ![Name(j)] = "half"]
    /\ UNCHANGED <<files, lock, prune, unlocked>>

\* It does not: the name is taken, the parent is gone or up, or limactl fails,
\* perhaps half-way.
MakeFails(j) ==
    /\ At(j, "make")
    /\ IF Name(j) = Base THEN Undo(j) ELSE GiveUp(j)
    /\ \/ UNCHANGED <<image, up>>
       \/ /\ image[Name(j)] = "none" /\ image' = [image EXCEPT ![Name(j)] = "half"]
          /\ up' \in IF Name(j) = Base THEN {up, up \cup {Base}} ELSE {up}
    /\ UNCHANGED <<files, prune, unlocked>>

StartVM(j) ==
    /\ At(j, "start") /\ image[Name(j)] # "none"
    /\ up' = up \cup {Name(j)}
    /\ Goto(j, "apply")
    /\ UNCHANGED <<image, files, lock, prune, unlocked>>

\* The step of the layer, or the settling of the base.
Apply(j) ==
    /\ At(j, "apply") /\ Name(j) \in up
    /\ image' = [image EXCEPT ![Name(j)] = IF job[j].from = "whole" THEN "whole" ELSE "poor"]
    /\ job' = [job EXCEPT ![j].pc = "stop", ![j].from = "none"]
    /\ UNCHANGED <<up, files, lock, prune, unlocked>>

BuildFails(j) ==
    /\ job[j].pc \in {"start", "apply"}
    /\ Undo(j)
    /\ UNCHANGED <<image, up, files, prune, unlocked>>

StopVM(j) ==
    /\ At(j, "stop") /\ image[Name(j)] # "none"
    /\ up' = up \ {Name(j)}
    /\ IF job[j].bare THEN End(j) ELSE Goto(j, "save")
    /\ UNCHANGED <<image, files, lock, prune, unlocked>>

StopFails(j) ==
    /\ At(j, "stop")
    /\ IF Name(j) = Base THEN Undo(j) ELSE GiveUp(j)
    /\ UNCHANGED <<image, up, files, prune, unlocked>>

\* The record is in place and the lock released.
Save(j) ==
    /\ At(j, "save")
    /\ Install(j)
    /\ NextLevel(j) /\ Release(j)
    /\ UNCHANGED <<image, up, prune, unlocked>>

SaveFails(j) ==
    /\ At(j, "save")
    /\ InstallFails(j)
    /\ GiveUp(j)
    /\ UNCHANGED <<image, up, prune, unlocked>>

\* touch reads the record of a layer, if there is one ...
TouchLoad(j) ==
    /\ At(j, "touch")
    /\ IF job[j].level > Len(Chain(j)) THEN Goto(j, "use")
       ELSE IF Name(j) \in meta THEN Goto(j, "touching")
       ELSE job' = [job EXCEPT ![j].level = @ + 1]
    /\ UNCHANGED <<image, up, files, lock, prune, unlocked>>

\* ... and writes it back, with no lock and no look at whether that worked.
TouchSave(j) ==
    /\ At(j, "touching")
    /\ Install(j) \/ InstallFails(j)
    /\ job' = [job EXCEPT ![j].pc = "touch", ![j].level = @ + 1]
    /\ UNCHANGED <<image, up, lock, prune, unlocked>>

\* The run's own VM is cloned from the last image of the chain.
CloneForRun(j) ==
    LET last == Chain(j)[Len(Chain(j))] IN
    /\ At(j, "use")
    /\ job' = [job EXCEPT ![j] = IF image[last] \in {"half", "poor"} /\ last \notin up
                                 THEN [Idle EXCEPT !.pc = image[last]] ELSE Idle]
    /\ UNCHANGED <<image, up, files, lock, prune, unlocked>>

\* The kernel releases the lock; what limactl had begun stays.
Crash(j) ==
    /\ job[j].pc \in {"look", "lock", "touch", "touching", "use"} \cup Building
    /\ GiveUp(j) /\ Close(j)
    /\ up' \in IF At(j, "delete") THEN {up, up \ {Name(j)}} ELSE {up}
    /\ UNCHANGED <<image, prune, unlocked>>

-----------------------------------------------------------------------------
(* kranq image prune.                                                      *)

\* The instances are listed.  The records are read after them.
PruneList ==
    /\ prune.pc = "idle" /\ unlocked < MaxUnlocked
    /\ unlocked' = unlocked + 1
    /\ prune' = [prune EXCEPT !.pc = "listed", !.up = up,
                              !.seen = {n \in Images : image[n] # "none"}]
    /\ UNCHANGED <<image, up, files, lock, job>>

\* The layers no other is built on, as far as the records tell.
Heads(seen, metas) ==
    {n \in seen \cap Layers :
        \A c \in seen \cap Layers \cap metas : Path[c][Len(Path[c]) - 1] # n}

\* A head and, parent by parent, what it is built on; the walk ends where there
\* is no record and at what is kept already because it runs.
Lineage(h, metas, running) ==
    {Path[h][i] : i \in {i \in 1..Len(Path[h]) :
        \A k \in i + 1..Len(Path[h]) : Path[h][k] \in metas /\ Path[h][k] \notin running}}

\* Mutant: only the heads themselves are kept.
KeptHeads(heads, metas, running) == running \cup heads

Kept(heads, metas, running) ==
    running \cup UNION {Lineage(h, metas, running) : h \in heads}

\* The most recently used heads are kept, those without a record last of all.
PruneChoose ==
    /\ prune.pc = "listed"
    /\ \E heads \in SUBSET Heads(prune.seen, meta) :
         LET rest == Heads(prune.seen, meta) \ heads IN
         /\ Cardinality(heads) = Keep \/ (rest = {} /\ Cardinality(heads) < Keep)
         /\ (rest \cap meta # {} => heads \subseteq meta)
         /\ prune' = [NotPruning EXCEPT
                        !.pc = "sweep",
                        !.todo = (prune.seen \cap Layers) \ Kept(heads, meta, prune.up),
                        !.ghosts = meta \ prune.seen]
    /\ UNCHANGED <<image, up, files, lock, job, unlocked>>

\* Destroy, in its two halves, or its failure, for each image not kept.
PruneDelete(n) ==
    /\ prune.pc = "sweep" /\ n \in prune.todo
    /\ Delete(n)
    /\ prune' = [prune EXCEPT !.pc = "forget", !.todo = @ \ {n}, !.at = n]
    /\ UNCHANGED <<files, lock, job, unlocked>>

PruneSkip(n) ==
    /\ prune.pc = "sweep" /\ n \in prune.todo /\ image[n] # "none"
    /\ prune' = [prune EXCEPT !.todo = @ \ {n}]
    /\ up' \in {up, up \ {n}}
    /\ UNCHANGED <<image, files, lock, job, unlocked>>

PruneForget ==
    /\ prune.pc = "forget"
    /\ Forget(prune.at)
    /\ prune' = [prune EXCEPT !.pc = "sweep", !.at = Base]
    /\ UNCHANGED <<image, up, lock, job, unlocked>>

\* Then the records of images that were not listed.
PruneGhost(n) ==
    /\ prune.pc = "sweep" /\ prune.todo = {} /\ n \in prune.ghosts
    /\ Forget(n)
    /\ prune' = [prune EXCEPT !.ghosts = @ \ {n}]
    /\ UNCHANGED <<image, up, lock, job, unlocked>>

PruneEnds ==
    /\ prune.pc = "sweep" /\ prune.todo = {} /\ prune.ghosts = {}
    /\ prune' = NotPruning
    /\ UNCHANGED <<image, up, files, lock, job, unlocked>>

PruneCrash ==
    /\ prune.pc # "idle"
    /\ prune' = NotPruning
    /\ UNCHANGED <<image, up, files, lock, job, unlocked>>

-----------------------------------------------------------------------------

Step(j) ==
    \/ Look(j) \/ Acquire(j) \/ Recheck(j) \/ DeleteImage(j) \/ DeleteFails(j)
    \/ RemoveMeta(j) \/ Make(j) \/ MakeFails(j) \/ StartVM(j) \/ Apply(j) \/ BuildFails(j)
    \/ StopVM(j) \/ StopFails(j) \/ OpenRecord(j) \/ WriteRecord(j) \/ Save(j) \/ SaveFails(j)
    \/ TouchLoad(j) \/ TouchSave(j) \/ CloneForRun(j)

Prune == PruneList \/ PruneChoose \/ PruneForget \/ PruneEnds \/ PruneCrash
             \/ \E n \in Images : PruneDelete(n) \/ PruneSkip(n) \/ PruneGhost(n)

Next == Prune \/ \E j \in Jobs : Begin(j) \/ BeginBare(j) \/ Step(j) \/ Crash(j)

Spec == Init /\ [][Next]_vars

-----------------------------------------------------------------------------
(* Properties.                                                             *)

\* Two jobs never build one image at the same time, through crashes of the holder
\* and whatever is pruned meanwhile (Manager.once, metaStore.acquire).
BuiltOnce ==
    \A j, k \in {j \in Jobs : ~job[j].bare} :
        j # k /\ job[j].pc \in Building /\ job[k].pc \in Building => Name(j) # Name(k)

\* Everybody who made or deleted an image took its lock, and no two wrote the record
\* of one image at once.  touch takes no lock, so that is luck and not the code's
\* doing: two at once can leave a whole image with an empty record, and where a third
\* job builds the image again a late touch can pass it for complete half-way.
Guarded == unlocked = 0 /\ shared = {}

\* Nor does one build again what another has just finished: under the lock nobody
\* deletes an image that passes for complete (Manager.once re-checks inside).
FinishedStays ==
    [][Guarded => \A j \in Jobs : DeleteImage(j) => ~Complete(Name(j))]_vars

\* An image that passes for complete, because it is there and recorded, is whole:
\* through crashes, failing commands, writes that are cut short and what they leave
\* behind, as long as it is Guarded (Manager.complete).
WholeUnderLocks == Guarded => \A n \in Images : Complete(n) => image[n] = "whole"

\* And so no layer is built on, and no job runs in, an image that is not whole:
\* nothing happens to a parent between the look and the clone (Manager.Ensure).
ClonesAreWhole ==
    Guarded => \A j \in Jobs : {job[j].pc, job[j].from} \cap {"half", "poor"} = {}

\* Prune chooses the kept chains whole: what is recorded and stays loses no
\* ancestor to the sweep (Manager.Prune: "ancestry is protected rather than aged
\* out").  Chains with a gap in their records, or with an image that ran when they
\* were listed, are excepted: there the walk to the base ends early.
ChainWhole(n) == \A i \in 2..Len(Path[n]) : Path[n][i] \in meta \ prune.up

AncestryIsKept ==
    [][PruneChoose => \A n \in (prune.seen \cap Layers) \ prune'.todo :
           ChainWhole(n) => \A i \in 2..Len(Path[n]) : Path[n][i] \notin prune'.todo]_vars
=============================================================================
