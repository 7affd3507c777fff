--------------------------- MODULE DaemonsProofs ---------------------------
(***************************************************************************)
(* Theorems about daemons and the commands that start, stop and replace    *)
(* them, for any number of processes and of versions.                      *)
(***************************************************************************)
EXTENDS Daemons, TLAPS

-----------------------------------------------------------------------------
(* The inductive invariant.                                                *)

\* Where a daemon goes from serving, and where it never serves again.
Past == {"closed", "cleared", "unlocked", "gone"}
Leaving == Past \cup {"serving"}

\* Who has a lock has an inode that it shares with no other holder and that has
\* its pid, and if no lock file is orphaned that inode has the path.
LockInv ==
    /\ \A d \in Daemons : daemon[d].pc \notin {"gone", "new"} => daemon[d].fd \in Daemons
    /\ \A d, e \in Daemons :
           Holds(d) /\ Holds(e) /\ daemon[d].fd = daemon[e].fd => d = e
    /\ \A d \in Daemons :
           Holds(d) /\ daemon[d].pc # "held" => pid[daemon[d].fd] = d
    /\ ~orphaned => \A d \in Daemons : /\ Holds(d) => daemon[d].fd = path
                                       /\ Serves(d) => sock = d

\* How far each kind of command can get.
KindInv ==
    /\ cmd.pc # "idle" => cmd.kind # "none" /\ cmd.told = "none"
    /\ cmd.kind = "start" => cmd.pc \in {"idle", "ask", "replaced", "starting"}
    /\ cmd.kind = "stop" => cmd.pc \in {"idle", "status", "pidfile", "kill", "wait"}
    /\ cmd.pc \in {"staging", "staged", "keeping"} => Installing
    /\ cmd.pc \in {"holding", "held", "again", "swapped"} => RollingBack
    /\ cmd.pc = "ask" => ~cmd.was
    /\ cmd.retry => /\ cmd.was /\ cmd.kind \in {"upgrade", "rollback"}
                    /\ cmd.pc \in {"apply", "holding", "held", "again", "ready", "swapped",
                                   "replaced", "starting"}
    /\ cmd.kind # "start" /\ cmd.pc = "starting" => cmd.was

\* The daemon that answered is on its way out and does not come back, and if it
\* still has the lock, it is the one that gets the signal.
StopInv ==
    /\ cmd.pc \in {"pidfile", "kill", "wait"} =>
           cmd.answered \in Daemons /\ daemon[cmd.answered].pc \in Leaving
    /\ cmd.pc \in {"kill", "wait"} =>
           /\ cmd.victim \in Daemons
           /\ ~orphaned /\ Holds(cmd.answered) => cmd.victim = cmd.answered

\* What the copies hold before a rename, the first time and after a retry.
Unchanged == {"ask", "status", "pidfile", "kill", "wait", "apply", "staging", "staged",
              "keeping", "holding", "held", "again", "ready", "failed"}

CopyInv ==
    /\ file["target"] \in Versions
    /\ cmd.pc \in {"staged", "keeping"} => file["new"] = cmd.source
    /\ cmd.pc = "ready" /\ Installing => file["new"] = cmd.source /\ file["prev"] = cmd.from
    /\ cmd.pc \in {"holding", "held", "again"} => file["prev"] \in Versions
    /\ cmd.pc = "ready" => file["new"] \in Versions
    /\ cmd.pc = "ready" /\ RollingBack => file["new"] = file["prev"]

FirstInv ==
    cmd.pc # "idle" /\ ~cmd.retry =>
        /\ cmd.pc \in Unchanged /\ cmd.pc # "failed" => ~cmd.lost
        /\ cmd.pc \in Unchanged /\ ~cmd.lost => file["target"] = cmd.from
        /\ cmd.pc \in {"held", "again"} => file["rolled"] \in {cmd.from, None}
        /\ cmd.pc = "ready" /\ RollingBack => file["rolled"] \in {cmd.from, None}
        /\ cmd.pc = "swapped" => file["rolled"] = cmd.from /\ cmd.lost
        /\ cmd.pc \in {"replaced", "starting"} /\ cmd.kind # "start" /\ ~cmd.lost =>
               file["prev"] = cmd.from
        /\ cmd.pc \in {"replaced", "starting"} /\ cmd.kind = "upgrade" =>
               file["target"] = cmd.source

\* A retry returns to what the command found, unless that was lost: the way back
\* is then to what is installed already.
RetryInv ==
    /\ cmd.retry /\ ~cmd.lost =>
        /\ cmd.pc \in {"apply", "holding", "held", "again"} => file["prev"] = cmd.from
        /\ cmd.pc = "ready" => file["new"] = cmd.from
        /\ cmd.pc \in {"swapped", "replaced", "starting"} => file["target"] = cmd.from
    /\ cmd.lost =>
        /\ cmd.kind = "rollback" /\ file["target"] = file["prev"]
        /\ cmd.retry /\ cmd.pc \in {"held", "again", "ready"} =>
               file["rolled"] \in {file["prev"], None}
        /\ cmd.retry /\ cmd.pc = "swapped" => file["rolled"] = file["prev"]

FilesInv == CopyInv /\ FirstInv /\ RetryInv

\* If nobody else starts a daemon, the only one there is goes before the target
\* is replaced, and the only one there is after that runs the target.
Replacing == {"apply", "staging", "staged", "keeping", "holding", "held", "again", "ready",
              "swapped", "replaced", "failed"}

AloneInv ==
    cmd.alone /\ cmd.was /\ ~cmd.retry =>
        /\ cmd.pc = "status" => \A d, e \in Daemons : Alive(d) /\ Alive(e) => d = e
        /\ cmd.pc = "status" =>
               \A d \in Daemons : daemon[d].pc \in Leaving /\ (Serves(d) => sock = d)
        /\ cmd.pc \in {"pidfile", "kill", "wait"} =>
               \A d \in Daemons : Alive(d) => d = cmd.answered
        /\ cmd.pc = "wait" => cmd.victim = cmd.answered
        /\ cmd.pc \in Replacing =>
               \A d \in Daemons : daemon[d].pc \in Past
        /\ cmd.pc = "starting" =>
               \A d \in Daemons : daemon[d].pc \in Past \/ daemon[d].version = file["target"]

IInv == TypeOK /\ LockInv /\ KindInv /\ StopInv /\ FilesInv /\ AloneInv

-----------------------------------------------------------------------------
(* A step of one daemon.                                                   *)

Recs == [pc : Pcs, version : Versions, fd : Daemons \cup {None}, term : BOOLEAN]

\* A daemon that is gone, and one that is spawned in its place.
LEMMA GoneFacts ==
    /\ Gone \in Recs /\ Gone.pc = "gone" /\ Gone.fd = None
    /\ \A v \in Versions : /\ [Gone EXCEPT !.pc = "new", !.version = v] \in Recs
                           /\ [Gone EXCEPT !.pc = "new", !.version = v].pc = "new"
                           /\ [Gone EXCEPT !.pc = "new", !.version = v].version = v
                           /\ [Gone EXCEPT !.pc = "new", !.version = v].fd = None
<1> QED  BY VersionsAssumption DEF Gone, Recs, Pcs

\* Where a daemon goes next, all else being as it was.
LEMMA StepFacts ==
    ASSUME NEW r \in Recs, NEW pc \in Pcs
    PROVE  /\ [r EXCEPT !.pc = pc] \in Recs /\ [r EXCEPT !.pc = pc].pc = pc
           /\ [r EXCEPT !.pc = pc].fd = r.fd /\ [r EXCEPT !.pc = pc].version = r.version
<1> QED  BY DEF Recs

\* What the invariant says of the types.
LEMMA TypeFacts ==
    ASSUME IInv
    PROVE  /\ daemon \in [Daemons -> Recs]
           /\ path \in Daemons \cup {None} /\ sock \in Daemons \cup {None}
           /\ pid \in [Daemons -> Daemons \cup {None}]
           /\ orphaned \in BOOLEAN
<1> QED  BY DEF IInv, TypeOK, Recs

\* A daemon only ever goes on its way, and the command sees no more of it than
\* that.
Onward(old, new) ==
    /\ old.pc # "gone"
    /\ new.pc = "gone" \/ new.version = old.version
    /\ old.pc \in Leaving => new.pc \in Leaving
    /\ old.pc \in Past => new.pc \in Past
    /\ old.pc = "unlocked" => new.pc \in {"unlocked", "gone"}

\* A step of one daemon keeps the invariant if it keeps the locks' part of it.
LEMMA DaemonKept ==
    ASSUME IInv, NEW d \in Daemons, NEW new \in Recs, daemon' = [daemon EXCEPT ![d] = new],
           Onward(daemon[d], new), UNCHANGED <<file, cmd>>,
           path' \in Daemons \cup {None}, sock' \in Daemons \cup {None},
           pid' \in [Daemons -> Daemons \cup {None}], orphaned' \in BOOLEAN,
           orphaned => orphaned',
           daemon[d].pc = "serving" /\ new.pc = "serving" => sock' = sock,
           LockInv'
    PROVE  IInv'
<1>1. daemon \in [Daemons -> Recs]
  BY TypeFacts
<1>2. daemon'[d] = new /\ \A e \in Daemons : e # d => daemon'[e] = daemon[e]
  BY <1>1
<1>3. TypeOK'
  <2>1. daemon' \in [Daemons -> Recs]
    BY <1>1
  <2> QED  BY <2>1 DEF IInv, TypeOK, Recs
<1>4. KindInv' /\ FilesInv'
  BY DEF IInv, KindInv, FilesInv, CopyInv, FirstInv, RetryInv, Installing, RollingBack
<1>5. StopInv'
  <2> SUFFICES ASSUME cmd.pc \in {"pidfile", "kill", "wait"} PROVE StopInv'
    BY DEF StopInv
  <2>1. cmd.answered \in Daemons /\ daemon[cmd.answered].pc \in Leaving
    BY DEF IInv, StopInv
  <2>2. daemon'[cmd.answered].pc \in Leaving
    BY <1>2, <2>1 DEF Onward
  <2>3. Holds(cmd.answered)' => Holds(cmd.answered)
    BY <1>2, <2>1, <2>2 DEF Onward, Holds, Locked, Leaving, Past
  <2> QED  BY <2>1, <2>2, <2>3 DEF IInv, StopInv
<1>6. AloneInv'
  <2> SUFFICES ASSUME cmd.alone, cmd.was, ~cmd.retry PROVE AloneInv'
    BY DEF AloneInv
  <2>1. AloneInv
    BY DEF IInv
  <2>2. \A e \in Daemons : /\ Alive(e)' => Alive(e)
                           /\ daemon[e].pc \in Leaving => daemon'[e].pc \in Leaving
                           /\ daemon[e].pc \in Past => daemon'[e].pc \in Past
                           /\ daemon'[e].pc \in Past \/ daemon'[e].version = daemon[e].version
    BY <1>2 DEF Onward, Alive, Past
  <2>3. ASSUME cmd.pc = "status", NEW e \in Daemons, daemon'[e].pc = "serving"
        PROVE  sock' = e
    <3>1. Alive(d) /\ Alive(e)
      BY <2>2, <2>3 DEF Onward, Alive
    <3>2. e = d
      BY <2>1, <2>3, <3>1 DEF AloneInv
    <3>3. daemon[d].pc = "serving" /\ sock = d
      BY <1>2, <2>1, <2>3, <3>2 DEF AloneInv, Onward, Leaving, Past, Serves
    <3> QED  BY <1>2, <2>3, <3>2, <3>3
  <2>4. cmd.pc = "status" =>
          /\ \A e, f \in Daemons : Alive(e)' /\ Alive(f)' => e = f
          /\ \A e \in Daemons : daemon'[e].pc \in Leaving /\ (Serves(e)' => sock' = e)
    BY <2>1, <2>2, <2>3 DEF AloneInv, Serves
  <2>5. /\ cmd.pc \in {"pidfile", "kill", "wait"} =>
             \A e \in Daemons : Alive(e)' => e = cmd.answered
        /\ cmd.pc = "wait" => cmd.victim = cmd.answered
    BY <2>1, <2>2 DEF AloneInv
  <2>6. cmd.pc \in Replacing => \A e \in Daemons : daemon'[e].pc \in Past
    BY <2>1, <2>2 DEF AloneInv
  <2>7. cmd.pc = "starting" =>
             \A e \in Daemons : daemon'[e].pc \in Past \/ daemon'[e].version = file["target"]
    BY <2>1, <2>2 DEF AloneInv
  <2> QED  BY <2>4, <2>5, <2>6, <2>7 DEF AloneInv
<1> QED  BY <1>3, <1>4, <1>5, <1>6 DEF IInv

\* A holder goes on, and nothing it has changes.
LEMMA HolderKept ==
    ASSUME IInv, NEW d \in Daemons, NEW pc \in Locked, Holds(d), daemon[d].pc # "held",
           pc # "held", Step(d, pc), UNCHANGED <<path, pid, file, cmd, orphaned>>,
           daemon[d].pc \in Leaving => pc \in Past,
           daemon[d].pc \in Past => pc \in Past,
           sock' \in Daemons \cup {None}, pc = "serving" => sock' = d
    PROVE  IInv'
<1> DEFINE new == [daemon[d] EXCEPT !.pc = pc]
<1>1. daemon' = [daemon EXCEPT ![d] = new] /\ daemon[d] \in Recs
  BY TypeFacts DEF Step
<1>2. /\ new \in Recs /\ new.pc = pc /\ new.fd = daemon[d].fd
      /\ new.version = daemon[d].version
  BY <1>1, StepFacts DEF Pcs
<1> HIDE DEF new
<1>3. daemon'[d] = new /\ \A e \in Daemons : e # d => daemon'[e] = daemon[e]
  BY <1>1, TypeFacts
<1>4. Onward(daemon[d], new)
  BY <1>2 DEF Onward, Holds, Locked, Leaving
<1>5. LockInv'
  <2>1. LockInv
    BY DEF IInv
  <2>2. \A e \in Daemons : daemon'[e].fd = daemon[e].fd /\ (Holds(e)' <=> Holds(e))
    BY <1>2, <1>3 DEF Holds
  <2>3. \A e \in Daemons : daemon'[e].pc \notin {"gone", "new"} => daemon'[e].fd \in Daemons
    BY <1>3, <2>1, <2>2 DEF LockInv, Holds, Locked
  <2>4. \A e, f \in Daemons :
            Holds(e)' /\ Holds(f)' /\ daemon'[e].fd = daemon'[f].fd => e = f
    BY <2>1, <2>2 DEF LockInv
  <2>5. \A e \in Daemons : Holds(e)' /\ daemon'[e].pc # "held" => pid'[daemon'[e].fd] = e
    BY <1>3, <2>1, <2>2 DEF LockInv
  <2>6. ASSUME ~orphaned', NEW e \in Daemons
        PROVE  /\ Holds(e)' => daemon'[e].fd = path'
               /\ Serves(e)' => sock' = e
    <3>1. Holds(e)' => daemon'[e].fd = path'
      BY <2>1, <2>2, <2>6 DEF LockInv
    <3>2. ASSUME daemon'[e].pc = "serving" PROVE e = d
      <4>1. Holds(e)'
        BY <3>2 DEF Holds, Locked
      <4> QED  BY <2>1, <2>2, <2>6, <4>1 DEF LockInv
    <3> QED  BY <1>2, <1>3, <3>1, <3>2 DEF Serves
  <2> QED  BY <2>3, <2>4, <2>5, <2>6 DEF LockInv
<1> QED  BY <1>1, <1>2, <1>4, <1>5, TypeFacts, DaemonKept DEF Leaving, Past

\* A daemon that has no lock afterwards takes nothing from the others.
LEMMA LockLeft ==
    ASSUME IInv, NEW d \in Daemons, NEW new \in Recs, daemon' = [daemon EXCEPT ![d] = new],
           new.pc \notin Locked, new.pc \notin {"gone", "new"} => new.fd \in Daemons,
           UNCHANGED <<pid, sock>>, orphaned => orphaned',
           ~orphaned' => path' = path \/ \A e \in Daemons \ {d} : Holds(e) => daemon[e].fd = path'
    PROVE  LockInv'
<1>1. daemon'[d] = new /\ \A e \in Daemons : e # d => daemon'[e] = daemon[e]
  BY TypeFacts
<1>2. LockInv
  BY DEF IInv
<1>3. \A e \in Daemons : Holds(e)' => e # d /\ Holds(e) /\ daemon'[e] = daemon[e]
  BY <1>1 DEF Holds
<1>4. \A e \in Daemons : daemon'[e].pc \notin {"gone", "new"} => daemon'[e].fd \in Daemons
  BY <1>1, <1>2 DEF LockInv
<1>5. \A e, f \in Daemons : Holds(e)' /\ Holds(f)' /\ daemon'[e].fd = daemon'[f].fd => e = f
  BY <1>2, <1>3 DEF LockInv
<1>6. \A e \in Daemons : Holds(e)' /\ daemon'[e].pc # "held" => pid'[daemon'[e].fd] = e
  BY <1>2, <1>3 DEF LockInv
<1>7. ASSUME ~orphaned', NEW e \in Daemons
      PROVE  /\ Holds(e)' => daemon'[e].fd = path'
             /\ Serves(e)' => sock' = e
  <2>1. Serves(e)' => Holds(e)'
    BY DEF Serves, Holds, Locked
  <2>2. Holds(e)' => daemon'[e].fd = path'
    BY <1>2, <1>3, <1>7 DEF LockInv
  <2>3. Serves(e)' => Serves(e)
    BY <1>3, <2>1 DEF Serves
  <2> QED  BY <1>2, <1>7, <2>2, <2>3 DEF LockInv
<1> QED  BY <1>4, <1>5, <1>6, <1>7 DEF LockInv

\* An inode is found under the path, or put there.
LEMMA OpenLockKept ==
    ASSUME IInv, NEW d \in Daemons, OpenLock(d)
    PROVE  IInv'
<1> DEFINE fd == IF path = None THEN d ELSE path
           new == [daemon[d] EXCEPT !.pc = "opened", !.fd = fd]
<1>1. /\ daemon' = [daemon EXCEPT ![d] = new] /\ path' = fd /\ daemon[d].pc = "new"
      /\ UNCHANGED <<pid, sock, file, cmd, orphaned>>
  BY TypeFacts DEF OpenLock
<1>2. fd \in Daemons /\ (fd = path \/ path = None)
  BY TypeFacts
<1>3. new \in Recs /\ new.pc = "opened" /\ new.fd = fd /\ new.version = daemon[d].version
  BY <1>2, TypeFacts DEF Recs, Pcs
<1> HIDE DEF new, fd
<1>4. Onward(daemon[d], new)
  BY <1>1, <1>3 DEF Onward, Leaving, Past
<1>5. ~orphaned => path' = path \/ \A e \in Daemons : ~Holds(e)
  BY <1>1, <1>2, DaemonsAssumption DEF IInv, LockInv, Holds, Locked
<1>6. LockInv'
  BY <1>1, <1>2, <1>3, <1>5, LockLeft DEF Locked
<1> QED  BY <1>1, <1>2, <1>3, <1>4, <1>6, TypeFacts, DaemonKept

\* What becomes of a daemon that dies, wherever it was.
LEMMA GoneKept ==
    ASSUME IInv, NEW d \in Daemons, Alive(d), daemon' = [daemon EXCEPT ![d] = Gone],
           UNCHANGED <<pid, sock, file, cmd>>, path' \in {path, None},
           orphaned' \in BOOLEAN, orphaned => orphaned',
           ~orphaned' => path' = path \/ \A e \in Daemons \ {d} : Holds(e) => daemon[e].fd = path'
    PROVE  IInv'
<1>1. Onward(daemon[d], Gone)
  BY GoneFacts DEF Onward, Alive, Leaving, Past
<1>2. LockInv'
  BY GoneFacts, LockLeft DEF Locked
<1> QED  BY <1>1, <1>2, GoneFacts, TypeFacts, DaemonKept

\* An inode is locked by one daemon, or nobody can tell that it was orphaned.
LEMMA FlockKept ==
    ASSUME IInv, NEW d \in Daemons, Flock(d)
    PROVE  IInv'
<1>1. /\ daemon[d].pc = "opened" /\ UNCHANGED <<path, pid, sock, file, cmd>>
      /\ orphaned' = (orphaned \/ Orphaned')
  BY DEF Flock
<1>2. CASE daemon' = [daemon EXCEPT ![d] = Gone]
  BY <1>1, <1>2, TypeFacts, GoneKept DEF Alive
<1>3. CASE /\ \A e \in Daemons : Holds(e) => daemon[e].fd # daemon[d].fd
           /\ Step(d, "held")
  <2> DEFINE new == [daemon[d] EXCEPT !.pc = "held"]
  <2>1. daemon' = [daemon EXCEPT ![d] = new]
    BY <1>3, TypeFacts DEF Step
  <2>2. /\ new \in Recs /\ new.pc = "held" /\ new.fd = daemon[d].fd
        /\ new.version = daemon[d].version
    BY TypeFacts, StepFacts DEF Pcs, Locked
  <2> HIDE DEF new
  <2>3. daemon'[d] = new /\ \A e \in Daemons : e # d => daemon'[e] = daemon[e]
    BY <2>1, TypeFacts
  <2>4. Onward(daemon[d], new)
    BY <1>1, <2>2 DEF Onward, Leaving, Past
  <2>5. LockInv
    BY DEF IInv
  <2>6. \A e \in Daemons : daemon'[e].fd = daemon[e].fd
    BY <2>2, <2>3
  <2>7. \A e \in Daemons : Holds(e)' => e = d \/ Holds(e)
    BY <2>3 DEF Holds
  <2>8. \A e \in Daemons : daemon'[e].pc \notin {"gone", "new"} => daemon'[e].fd \in Daemons
    BY <1>1, <2>3, <2>5, <2>6 DEF LockInv
  <2>9. \A e, f \in Daemons :
            Holds(e)' /\ Holds(f)' /\ daemon'[e].fd = daemon'[f].fd => e = f
    BY <1>3, <2>5, <2>6, <2>7 DEF LockInv
  <2>10. \A e \in Daemons : Holds(e)' /\ daemon'[e].pc # "held" => pid'[daemon'[e].fd] = e
    <3> SUFFICES ASSUME NEW e \in Daemons, Holds(e)', daemon'[e].pc # "held"
                 PROVE  pid'[daemon'[e].fd] = e
      OBVIOUS
    <3>1. e # d /\ daemon'[e] = daemon[e] /\ Holds(e)
      BY <2>2, <2>3, <2>7
    <3> QED  BY <1>1, <2>5, <3>1 DEF LockInv
  <2>11. ASSUME ~orphaned', NEW e \in Daemons
         PROVE  /\ Holds(e)' => daemon'[e].fd = path'
                /\ Serves(e)' => sock' = e
    <3>1. Holds(e)' => daemon'[e].fd = path'
      BY <1>1, <2>11 DEF Orphaned
    <3>2. Serves(e)' => Serves(e)
      BY <2>2, <2>3 DEF Serves
    <3>3. ~orphaned
      BY <1>1, <2>11
    <3> QED  BY <1>1, <2>5, <3>1, <3>2, <3>3 DEF LockInv
  <2>12. LockInv'
    BY <2>8, <2>9, <2>10, <2>11 DEF LockInv
  <2>13. orphaned' \in BOOLEAN
    BY <1>1, TypeFacts DEF Orphaned
  <2> QED  BY <1>1, <2>1, <2>2, <2>4, <2>12, <2>13, TypeFacts, DaemonKept
<1> QED  BY <1>2, <1>3 DEF Flock

\* The holder of an inode writes its pid there.
LEMMA WritePIDKept ==
    ASSUME IInv, NEW d \in Daemons, WritePID(d)
    PROVE  IInv'
<1> DEFINE new == [daemon[d] EXCEPT !.pc = "written"]
<1>1. /\ daemon[d].pc = "held" /\ UNCHANGED <<path, sock, file, cmd, orphaned>>
      /\ pid' = [pid EXCEPT ![daemon[d].fd] = d]
      /\ daemon' = [daemon EXCEPT ![d] = new]
  BY TypeFacts DEF WritePID, Step
<1>2. /\ new \in Recs /\ new.pc = "written" /\ new.fd = daemon[d].fd
      /\ new.version = daemon[d].version
  BY TypeFacts, StepFacts DEF Pcs, Locked
<1> HIDE DEF new
<1>3. daemon'[d] = new /\ \A e \in Daemons : e # d => daemon'[e] = daemon[e]
  BY <1>1, TypeFacts
<1>4. Onward(daemon[d], new)
  BY <1>1, <1>2 DEF Onward, Leaving, Past
<1>5. LockInv
  BY DEF IInv
<1>6. \A e \in Daemons : daemon'[e].fd = daemon[e].fd /\ (Holds(e)' <=> Holds(e))
  BY <1>1, <1>2, <1>3 DEF Holds, Locked
<1>7. Holds(d) /\ daemon[d].fd \in Daemons
  BY <1>1, <1>5 DEF LockInv, Holds, Locked
<1>8. pid' \in [Daemons -> Daemons \cup {None}]
      /\ pid'[daemon[d].fd] = d
      /\ \A i \in Daemons : i # daemon[d].fd => pid'[i] = pid[i]
  BY <1>1, <1>7, TypeFacts
<1>9. LockInv'
  <2>1. \A e \in Daemons : daemon'[e].pc \notin {"gone", "new"} => daemon'[e].fd \in Daemons
    BY <1>3, <1>5, <1>6, <1>7 DEF LockInv
  <2>2. \A e, f \in Daemons :
            Holds(e)' /\ Holds(f)' /\ daemon'[e].fd = daemon'[f].fd => e = f
    BY <1>5, <1>6 DEF LockInv
  <2>3. ASSUME NEW e \in Daemons, Holds(e)', daemon'[e].pc # "held"
        PROVE  pid'[daemon'[e].fd] = e
    <3>1. CASE e = d
      BY <1>6, <1>8, <3>1
    <3>2. CASE e # d
      <4>1. Holds(e) /\ daemon[e].pc # "held" /\ daemon[e].fd # daemon[d].fd
        BY <1>3, <1>5, <1>6, <1>7, <2>3, <3>2 DEF LockInv
      <4>2. daemon[e].fd \in Daemons /\ pid[daemon[e].fd] = e
        BY <1>5, <4>1 DEF LockInv, Holds, Locked
      <4> QED  BY <1>6, <1>8, <4>1, <4>2
    <3> QED  BY <3>1, <3>2
  <2>4. \A e \in Daemons : Serves(e)' => Serves(e)
    BY <1>2, <1>3 DEF Serves
  <2>5. ~orphaned' => \A e \in Daemons : /\ Holds(e)' => daemon'[e].fd = path'
                                         /\ Serves(e)' => sock' = e
    BY <1>1, <1>5, <1>6, <2>4 DEF LockInv
  <2> QED  BY <2>1, <2>2, <2>3, <2>5 DEF LockInv
<1> QED  BY <1>1, <1>2, <1>4, <1>8, <1>9, TypeFacts, DaemonKept

\* The lock goes before its path does.
LEMMA UnlockKept ==
    ASSUME IInv, NEW d \in Daemons, Unlock(d)
    PROVE  IInv'
<1> DEFINE new == [daemon[d] EXCEPT !.pc = "unlocked"]
<1>1. /\ daemon' = [daemon EXCEPT ![d] = new] /\ daemon[d].pc = "cleared"
      /\ UNCHANGED <<path, pid, sock, file, cmd, orphaned>>
  BY TypeFacts DEF Unlock, Step
<1>2. /\ new \in Recs /\ new.pc = "unlocked" /\ new.fd = daemon[d].fd
      /\ new.version = daemon[d].version
  BY TypeFacts, StepFacts DEF Pcs
<1> HIDE DEF new
<1>3. Onward(daemon[d], new)
  BY <1>1, <1>2 DEF Onward, Leaving, Past
<1>4. new.fd \in Daemons
  BY <1>1, <1>2 DEF IInv, LockInv
<1>5. LockInv'
  BY <1>1, <1>2, <1>4, LockLeft DEF Locked
<1> QED  BY <1>1, <1>2, <1>3, <1>5, TypeFacts, DaemonKept

\* A daemon that removes its lock file may leave a newcomer with an orphan.
LEMMA UnlinkKept ==
    ASSUME IInv, NEW d \in Daemons, Unlink(d)
    PROVE  IInv'
<1>1. /\ daemon[d].pc = "unlocked" /\ path' = None /\ daemon' = [daemon EXCEPT ![d] = Gone]
      /\ orphaned' = (orphaned \/ Orphaned') /\ UNCHANGED <<pid, sock, file, cmd>>
  BY DEF Unlink
<1>2. \A e \in Daemons : e # d => daemon'[e] = daemon[e]
  BY <1>1, TypeFacts
<1>3. ~orphaned' => \A e \in Daemons \ {d} : Holds(e) => daemon[e].fd = path'
  BY <1>1, <1>2 DEF Orphaned, Holds
<1>4. orphaned' \in BOOLEAN
  BY <1>1, TypeFacts DEF Orphaned
<1> QED  BY <1>1, <1>3, <1>4, GoneKept DEF Alive

\* A daemon gets SIGTERM, from a command or from anybody.
LEMMA KillFacts ==
    ASSUME IInv, NEW d \in Daemons, Alive(d), Kill(d), UNCHANGED <<path, pid, sock, orphaned>>
    PROVE  \E new \in Recs : /\ daemon' = [daemon EXCEPT ![d] = new]
                             /\ Onward(daemon[d], new)
                             /\ LockInv'
<1>1. CASE daemon[d].pc = "new"
  <2>1. daemon' = [daemon EXCEPT ![d] = Gone]
    BY <1>1, TypeFacts DEF Kill
  <2>2. Onward(daemon[d], Gone)
    BY GoneFacts DEF Onward, Alive, Leaving, Past
  <2>3. LockInv'
    BY <2>1, GoneFacts, LockLeft DEF Locked
  <2> QED  BY <2>1, <2>2, <2>3, GoneFacts
<1>2. CASE daemon[d].pc # "new"
  <2> DEFINE new == [daemon[d] EXCEPT !.term = TRUE]
  <2>1. daemon' = [daemon EXCEPT ![d] = new]
    BY <1>2, TypeFacts DEF Kill
  <2>2. /\ new \in Recs /\ new.pc = daemon[d].pc /\ new.fd = daemon[d].fd
        /\ new.version = daemon[d].version
    BY TypeFacts DEF Recs
  <2> HIDE DEF new
  <2>3. Onward(daemon[d], new)
    BY <2>2 DEF Onward, Alive, Leaving, Past
  <2>4. \A e \in Daemons : daemon'[e].pc = daemon[e].pc /\ daemon'[e].fd = daemon[e].fd
    BY <2>1, <2>2, TypeFacts
  <2>5. LockInv'
    BY <2>4 DEF IInv, LockInv, Holds, Serves
  <2> QED  BY <2>1, <2>2, <2>3, <2>5
<1> QED  BY <1>1, <1>2

\* A signal only asks a daemon to leave.
LEMMA InterruptKept ==
    ASSUME IInv, NEW d \in Daemons, Interrupt(d)
    PROVE  IInv'
<1>1. PICK new \in Recs : /\ daemon' = [daemon EXCEPT ![d] = new]
                          /\ Onward(daemon[d], new)
                          /\ LockInv'
  BY KillFacts DEF Interrupt
<1> QED  BY <1>1, TypeFacts, DaemonKept DEF Interrupt

\* A process that nobody knows of yet.
LEMMA SpawnedFacts ==
    ASSUME IInv, NEW d \in Daemons, Spawned(d), UNCHANGED <<path, sock, orphaned>>
    PROVE  /\ daemon' \in [Daemons -> Recs] /\ pid' \in [Daemons -> Daemons \cup {None}]
           /\ daemon'[d].pc = "new" /\ daemon'[d].version = file["target"]
           /\ \A e \in Daemons : e # d => daemon'[e] = daemon[e]
           /\ ~Alive(d) /\ d # cmd.answered /\ d # cmd.victim
           /\ LockInv'
<1> DEFINE new == [Gone EXCEPT !.pc = "new", !.version = file["target"]]
<1>1. daemon' = [daemon EXCEPT ![d] = new] /\ pid' = [pid EXCEPT ![d] = None]
  BY DEF Spawned
<1>2. file["target"] \in Versions
  BY DEF IInv, FilesInv, CopyInv
<1>3. new \in Recs /\ new.pc = "new" /\ new.version = file["target"]
  BY <1>2, GoneFacts
<1> HIDE DEF new
<1>4. daemon'[d] = new /\ \A e \in Daemons : e # d => daemon'[e] = daemon[e]
  BY <1>1, TypeFacts
<1>5. ~Alive(d) /\ d \notin {path, sock, cmd.answered, cmd.victim}
      /\ \A e \in Daemons : daemon[e].fd # d
  BY DEF Spawned, Forgotten
<1>6. LockInv
  BY DEF IInv
<1>7. \A e \in Daemons : Holds(e)' => e # d /\ Holds(e) /\ daemon'[e] = daemon[e]
  BY <1>3, <1>4 DEF Holds, Locked
<1>8. \A e \in Daemons : Serves(e)' => Holds(e)' /\ Serves(e)
  BY <1>3, <1>4 DEF Serves, Holds, Locked
<1>9. LockInv'
  <2>1. \A e \in Daemons : daemon'[e].pc \notin {"gone", "new"} => daemon'[e].fd \in Daemons
    BY <1>3, <1>4, <1>6 DEF LockInv
  <2>2. \A e, f \in Daemons :
            Holds(e)' /\ Holds(f)' /\ daemon'[e].fd = daemon'[f].fd => e = f
    BY <1>6, <1>7 DEF LockInv
  <2>3. ASSUME NEW e \in Daemons, Holds(e)', daemon'[e].pc # "held"
        PROVE  pid'[daemon'[e].fd] = e
    <3>1. Holds(e) /\ daemon'[e] = daemon[e] /\ daemon[e].pc # "held" /\ daemon[e].fd # d
      BY <1>5, <1>7, <2>3
    <3>2. pid[daemon[e].fd] = e /\ daemon[e].fd \in Daemons
      BY <1>6, <3>1 DEF LockInv, Holds, Locked
    <3> QED  BY <1>1, <3>1, <3>2, TypeFacts
  <2>4. ~orphaned' => \A e \in Daemons : /\ Holds(e)' => daemon'[e].fd = path'
                                         /\ Serves(e)' => sock' = e
    BY <1>6, <1>7, <1>8 DEF LockInv
  <2> QED  BY <2>1, <2>2, <2>3, <2>4 DEF LockInv
<1>10. daemon' \in [Daemons -> Recs] /\ pid' \in [Daemons -> Daemons \cup {None}]
  BY <1>1, <1>3, TypeFacts
<1> QED  BY <1>3, <1>4, <1>5, <1>9, <1>10

CmdRecs == [pc : Steps, kind : {"none", "start", "stop", "upgrade", "rollback"},
            told : {"none", "refused", "error", "already", "unreachable", "started",
                    "stopped", "ok", "failed", "rolledback"},
            was : BOOLEAN, retry : BOOLEAN, alone : BOOLEAN, lost : BOOLEAN,
            from : Versions, source : Versions,
            answered : Daemons \cup {None}, victim : Daemons \cup {None}]

\* Somebody else starts a daemon, and a command is no longer alone.
LEMMA SpawnKept ==
    ASSUME IInv, NEW d \in Daemons, Spawn(d)
    PROVE  IInv'
<1>1. Spawned(d) /\ cmd' = [cmd EXCEPT !.alone = FALSE] /\ UNCHANGED <<path, sock, file, orphaned>>
  BY DEF Spawn
<1>2. cmd \in CmdRecs
  BY DEF IInv, TypeOK, CmdRecs
<1>3. /\ cmd' \in CmdRecs /\ cmd'.alone = FALSE
      /\ cmd'.pc = cmd.pc /\ cmd'.kind = cmd.kind /\ cmd'.was = cmd.was /\ cmd'.told = cmd.told
      /\ cmd'.retry = cmd.retry /\ cmd'.from = cmd.from /\ cmd'.source = cmd.source
      /\ cmd'.answered = cmd.answered /\ cmd'.victim = cmd.victim /\ cmd'.lost = cmd.lost
  BY <1>1, <1>2 DEF CmdRecs
<1>4. /\ daemon' \in [Daemons -> Recs] /\ pid' \in [Daemons -> Daemons \cup {None}]
      /\ \A e \in Daemons : e # d => daemon'[e] = daemon[e]
      /\ d # cmd.answered /\ LockInv'
  BY <1>1, SpawnedFacts
<1>5. TypeOK'
  <2>1. file' \in [Files -> Versions \cup {Torn, None}]
    BY <1>1 DEF IInv, TypeOK
  <2> QED  BY <1>1, <1>3, <1>4, <2>1, TypeFacts DEF TypeOK, Recs, CmdRecs
<1>6. KindInv'
  BY <1>3 DEF IInv, KindInv, Installing, RollingBack
<1>7. FilesInv'
  <2>1. CopyInv'
    BY <1>1, <1>3 DEF IInv, FilesInv, CopyInv, Installing, RollingBack
  <2>2. FirstInv'
    BY <1>1, <1>3 DEF IInv, FilesInv, FirstInv, RollingBack
  <2>3. RetryInv'
    BY <1>1, <1>3 DEF IInv, FilesInv, RetryInv
  <2> QED  BY <2>1, <2>2, <2>3 DEF FilesInv
<1>8. StopInv'
  <2> SUFFICES ASSUME cmd.pc \in {"pidfile", "kill", "wait"} PROVE StopInv'
    BY <1>3 DEF StopInv
  <2>1. cmd.answered \in Daemons /\ daemon'[cmd.answered] = daemon[cmd.answered]
    BY <1>4 DEF IInv, StopInv
  <2>2. Holds(cmd.answered)' <=> Holds(cmd.answered)
    BY <1>3, <2>1 DEF Holds
  <2> QED  BY <1>1, <1>3, <2>1, <2>2 DEF IInv, StopInv
<1>9. AloneInv'
  BY <1>3 DEF AloneInv
<1> QED  BY <1>4, <1>5, <1>6, <1>7, <1>8, <1>9 DEF IInv

\* All that daemons do by themselves.
LEMMA LifeKept ==
    ASSUME IInv, NEW d \in Daemons, Life(d)
    PROVE  IInv'
<1>1. CASE Dial(d)
  <2>1. PICK pc \in {"cleared", "dialled"} : Step(d, pc)
    BY <1>1 DEF Dial
  <2> QED  BY <1>1, <2>1, HolderKept, TypeFacts DEF Dial, Holds, Locked, Leaving, Past
<1>2. CASE RemoveStale(d)
  BY <1>2, HolderKept DEF RemoveStale, Holds, Locked, Leaving, Past
<1>3. CASE Listen(d)
  <2>1. daemon[d].pc = "free" /\ UNCHANGED <<path, pid, file, cmd, orphaned>>
    BY <1>3 DEF Listen
  <2>2. PICK pc \in {"serving", "cleared"} :
            Step(d, pc) /\ sock' \in {sock, d} /\ (pc = "serving" => sock' = d)
    BY <1>3 DEF Listen
  <2> QED  BY <2>1, <2>2, HolderKept, TypeFacts DEF Holds, Locked, Leaving, Past
<1>4. CASE Close(d)
  BY <1>4, HolderKept DEF Close, Serves, Holds, Locked, Leaving, Past
<1>5. CASE RemoveSocket(d)
  BY <1>5, HolderKept DEF RemoveSocket, Holds, Locked, Leaving, Past
<1>6. CASE Crash(d)
  BY <1>6, GoneKept, TypeFacts DEF Crash
<1> QED  BY <1>1, <1>2, <1>3, <1>4, <1>5, <1>6, SpawnKept, OpenLockKept, FlockKept,
            WritePIDKept, UnlockKept, UnlinkKept, InterruptKept DEF Life

-----------------------------------------------------------------------------
(* A step of a command.                                                    *)

Tolds == {"none", "refused", "error", "already", "unreachable", "started", "stopped", "ok",
          "failed", "rolledback"}

Stored == [Files -> Versions \cup {Torn, None}]

\* What the invariant says of the command.
LEMMA CmdFacts ==
    ASSUME IInv
    PROVE  cmd \in CmdRecs /\ file \in Stored /\ file["target"] \in Versions
<1> QED  BY DEF IInv, TypeOK, CmdRecs, Stored, FilesInv, CopyInv

\* The command that is not there, and one that has ended.
LEMMA QuietFacts ==
    /\ Quiet \in CmdRecs /\ Quiet.pc = "idle" /\ Quiet.kind = "none" /\ Quiet.told = "none"
    /\ Quiet.was = FALSE /\ Quiet.retry = FALSE /\ Quiet.lost = FALSE
    /\ \A told \in Tolds : LET c == [Quiet EXCEPT !.told = told] IN
           /\ c \in CmdRecs /\ c.pc = "idle" /\ c.kind = "none"
           /\ c.was = FALSE /\ c.retry = FALSE /\ c.lost = FALSE
<1> QED  BY VersionsAssumption DEF Quiet, CmdRecs, Tolds, Steps

\* What a command goes on with.
Same(c, e) == /\ c.kind = e.kind /\ c.told = e.told /\ c.was = e.was /\ c.retry = e.retry
              /\ c.alone = e.alone /\ c.lost = e.lost /\ c.from = e.from /\ c.source = e.source
              /\ c.answered = e.answered /\ c.victim = e.victim

\* The command goes on.
LEMMA GotoFacts ==
    ASSUME IInv, NEW pc \in Steps, Goto(pc)
    PROVE  cmd' \in CmdRecs /\ cmd'.pc = pc /\ Same(cmd', cmd)
<1>1. cmd' = [cmd EXCEPT !.pc = pc] /\ cmd \in CmdRecs
  BY CmdFacts DEF Goto
<1> QED  BY <1>1 DEF CmdRecs, Same

\* A file is written.
LEMMA WriteFacts ==
    ASSUME IInv, NEW f \in Files, NEW what \in Versions \cup {Torn, None}, Write(f, what)
    PROVE  file' \in Stored /\ file'[f] = what /\ \A g \in Files : g # f => file'[g] = file[g]
<1> QED  BY CmdFacts DEF Write, Stored

\* The parts of the invariant that are about a command.
LEMMA CmdKept ==
    ASSUME IInv, cmd' \in CmdRecs, file' \in Stored, UNCHANGED <<daemon, path, pid, sock, orphaned>>,
           KindInv', StopInv', CopyInv', FirstInv', RetryInv', AloneInv'
    PROVE  IInv'
<1>1. TypeOK'
  BY DEF IInv, TypeOK, CmdRecs, Stored
<1>2. LockInv'
  BY DEF IInv, LockInv, Holds, Serves
<1> QED  BY <1>1, <1>2 DEF IInv, FilesInv

\* Nothing is left of a command that is over.
LEMMA EndKept ==
    ASSUME IInv, cmd' = Quiet \/ \E told \in Tolds : End(told),
           daemon' \in [Daemons -> Recs], pid' \in [Daemons -> Daemons \cup {None}],
           UNCHANGED <<path, sock, orphaned>>, LockInv',
           file' \in Stored, file'["target"] = file["target"]
    PROVE  IInv'
<1>1. cmd' \in CmdRecs /\ cmd'.pc = "idle" /\ cmd'.kind = "none" /\ cmd'.was = FALSE
      /\ cmd'.retry = FALSE /\ cmd'.lost = FALSE
  BY QuietFacts DEF End
<1>2. TypeOK'
  BY <1>1, TypeFacts DEF TypeOK, CmdRecs, Stored, Recs
<1>3. KindInv' /\ StopInv' /\ AloneInv'
  BY <1>1 DEF KindInv, StopInv, AloneInv
<1>4. CopyInv' /\ FirstInv' /\ RetryInv'
  BY <1>1, CmdFacts DEF CopyInv, FirstInv, RetryInv
<1> QED  BY <1>2, <1>3, <1>4 DEF IInv, FilesInv

\* A command that is over and has changed nothing.
LEMMA EndedKept ==
    ASSUME IInv, cmd' = Quiet \/ \E told \in Tolds : End(told),
           UNCHANGED <<daemon, path, pid, sock, orphaned>>,
           file' \in Stored, file'["target"] = file["target"]
    PROVE  IInv'
<1>1. LockInv'
  BY DEF IInv, LockInv, Holds, Serves
<1> QED  BY <1>1, TypeFacts, EndKept

\* A command begins, and takes note of the binary it finds.
LEMMA BeginKept ==
    ASSUME IInv, NEW kind \in {"start", "stop", "upgrade", "rollback"}, NEW source \in Versions,
           Begin(kind, source)
    PROVE  IInv'
<1> DEFINE pc == IF kind = "stop" THEN "status" ELSE "ask"
<1>1. /\ cmd' = [Quiet EXCEPT !.kind = kind, !.source = source, !.from = file["target"], !.pc = pc]
      /\ UNCHANGED <<daemon, path, pid, sock, file, orphaned>>
  BY DEF Begin
<1>2. pc \in Steps
  BY DEF Steps
<1> HIDE DEF pc
<1>3. /\ cmd' \in CmdRecs /\ cmd'.pc = pc /\ cmd'.kind = kind /\ cmd'.was = FALSE
      /\ cmd'.retry = FALSE /\ cmd'.lost = FALSE /\ cmd'.from = file["target"] /\ cmd'.source = source
      /\ cmd'.told = "none"
  BY <1>1, <1>2, CmdFacts, VersionsAssumption DEF CmdRecs, Quiet
<1>4. KindInv' /\ StopInv' /\ AloneInv'
  BY <1>3 DEF KindInv, StopInv, AloneInv, pc
<1>5. CopyInv' /\ FirstInv' /\ RetryInv'
  BY <1>1, <1>3, CmdFacts DEF CopyInv, FirstInv, RetryInv, pc
<1> QED  BY <1>1, <1>3, <1>4, <1>5, CmdKept, CmdFacts

\* `daemon start` asks whether there is a daemon.
LEMMA AskKept ==
    ASSUME IInv, Ask
    PROVE  IInv'
<1>1. cmd.pc = "ask" /\ UNCHANGED <<daemon, path, pid, sock, file, orphaned>>
  BY DEF Ask
<1>2. /\ ~cmd.was /\ ~cmd.retry /\ cmd.kind \in {"start", "upgrade", "rollback"}
      /\ cmd.told = "none"
      /\ file["target"] = cmd.from
  BY <1>1, CmdFacts DEF IInv, KindInv, FilesInv, FirstInv, CmdRecs, Unchanged
<1>6. ~cmd.lost
  BY <1>1, <1>2 DEF IInv, FilesInv, FirstInv, Unchanged
<1>3. CASE End("already") \/ End("refused")
  BY <1>1, <1>3, EndedKept, CmdFacts DEF Tolds
<1>4. CASE (cmd.kind = "start" /\ Goto("replaced")) \/ (cmd.kind # "start" /\ Goto("apply"))
  <2>1. /\ cmd' \in CmdRecs /\ Same(cmd', cmd)
        /\ IF cmd.kind = "start" THEN cmd'.pc = "replaced" ELSE cmd'.pc = "apply"
    BY <1>4, GotoFacts DEF Steps
  <2>2. KindInv' /\ StopInv' /\ AloneInv'
    BY <1>2, <2>1 DEF KindInv, StopInv, AloneInv, Same
  <2>3. CopyInv' /\ FirstInv' /\ RetryInv'
    BY <1>1, <1>2, <1>6, <2>1, CmdFacts DEF CopyInv, FirstInv, RetryInv, Same
  <2> QED  BY <1>1, <2>1, <2>2, <2>3, CmdKept, CmdFacts
<1>5. CASE /\ cmd.kind # "start" /\ Answered
           /\ cmd' = [cmd EXCEPT !.pc = "status", !.was = TRUE,
                                 !.alone = \A d \in Daemons \ {sock} : ~Alive(d)]
  <2> DEFINE alone == \A d \in Daemons \ {sock} : ~Alive(d)
  <2>1. cmd' = [cmd EXCEPT !.pc = "status", !.was = TRUE, !.alone = alone]
    BY <1>5
  <2>2. alone \in BOOLEAN
    OBVIOUS
  <2>3. sock \in Daemons /\ Serves(sock)
    BY <1>5, TypeFacts DEF Answered
  <2>4. alone => /\ \A d, e \in Daemons : Alive(d) /\ Alive(e) => d = e
                 /\ \A d \in Daemons : daemon[d].pc \in Leaving /\ (Serves(d) => sock = d)
    BY <2>3 DEF Alive, Leaving, Past, Serves
  <2> HIDE DEF alone
  <2>5. /\ cmd' \in CmdRecs /\ cmd'.pc = "status" /\ cmd'.was = TRUE /\ cmd'.alone = alone
        /\ cmd'.kind = cmd.kind /\ cmd'.retry = cmd.retry /\ cmd'.from = cmd.from
        /\ cmd'.told = cmd.told /\ cmd'.lost = cmd.lost
    BY <2>1, <2>2, CmdFacts DEF CmdRecs, Steps
  <2>6. KindInv' /\ StopInv'
    BY <1>2, <1>5, <2>5 DEF KindInv, StopInv
  <2>7. AloneInv'
    BY <1>1, <2>4, <2>5 DEF AloneInv, Replacing, Alive, Serves
  <2>8. CopyInv' /\ FirstInv' /\ RetryInv'
    BY <1>1, <1>2, <1>6, <2>5, CmdFacts DEF CopyInv, FirstInv, RetryInv
  <2> QED  BY <1>1, <2>5, <2>6, <2>7, <2>8, CmdKept, CmdFacts
<1> QED  BY <1>3, <1>4, <1>5, Zenon DEF Ask

\* A command starts a daemon from the target.
LEMMA StartedKept ==
    ASSUME IInv, Start \/ Restart
    PROVE  IInv'
<1>1. /\ cmd.pc = "replaced" /\ (cmd.kind # "start" => cmd.was)
      /\ Goto("starting") /\ UNCHANGED <<path, sock, file, orphaned>>
  BY DEF Start, Restart, Started
<1>2. PICK d \in Daemons : Spawned(d)
  BY DEF Start, Restart, Started
<1>3. cmd' \in CmdRecs /\ cmd'.pc = "starting" /\ Same(cmd', cmd)
  BY <1>1, GotoFacts DEF Steps
<1>4. /\ daemon' \in [Daemons -> Recs] /\ pid' \in [Daemons -> Daemons \cup {None}]
      /\ daemon'[d].version = file["target"]
      /\ \A e \in Daemons : e # d => daemon'[e] = daemon[e]
      /\ LockInv'
  BY <1>1, <1>2, SpawnedFacts
<1>5. TypeOK'
  BY <1>1, <1>3, <1>4, TypeFacts, CmdFacts DEF TypeOK, Recs, CmdRecs, Stored
<1>6. KindInv'
  BY <1>1, <1>3 DEF IInv, KindInv, Same
<1>7. StopInv'
  BY <1>3 DEF StopInv
<1>8. FilesInv'
  <2>1. CopyInv'
    BY <1>1, <1>3, CmdFacts DEF CopyInv
  <2>2. FirstInv' /\ RetryInv'
    BY <1>1, <1>3 DEF IInv, FilesInv, FirstInv, RetryInv, Same, Unchanged
  <2> QED  BY <2>1, <2>2 DEF FilesInv
<1>9. AloneInv'
  <2> SUFFICES ASSUME cmd'.alone, cmd'.was, ~cmd'.retry
               PROVE  \A e \in Daemons :
                          daemon'[e].pc \in Past \/ daemon'[e].version = file'["target"]
    BY <1>3 DEF AloneInv, Replacing
  <2>1. \A e \in Daemons : daemon[e].pc \in Past
    BY <1>1, <1>3 DEF IInv, AloneInv, Same, Replacing
  <2> QED  BY <1>1, <1>4, <2>1
<1> QED  BY <1>4, <1>5, <1>6, <1>7, <1>8, <1>9 DEF IInv

\* A daemon answers the command that waits for one.
LEMMA WaitReadyKept ==
    ASSUME IInv, WaitReady
    PROVE  IInv'
<1>1. \E told \in Tolds : End(told)
  BY DEF WaitReady, Tolds
<1> QED  BY <1>1, EndedKept, CmdFacts DEF WaitReady

\* Nobody answers in time: a failure, or the way back.
LEMMA NotReadyKept ==
    ASSUME IInv, NotReady
    PROVE  IInv'
<1>1. cmd.pc = "starting" /\ UNCHANGED <<daemon, path, pid, sock, file, orphaned>>
  BY DEF NotReady
<1>2. CASE End("unreachable") \/ End("error")
  BY <1>1, <1>2, EndedKept, CmdFacts DEF Tolds
<1>3. CASE /\ cmd.kind # "start" /\ ~cmd.retry
           /\ cmd' = [cmd EXCEPT !.pc = "apply", !.retry = TRUE]
  <2>1. /\ cmd' \in CmdRecs /\ cmd'.pc = "apply" /\ cmd'.retry = TRUE /\ cmd'.kind = cmd.kind
        /\ cmd'.was = cmd.was /\ cmd'.from = cmd.from /\ cmd'.told = cmd.told
        /\ cmd'.lost = cmd.lost
    BY <1>3, CmdFacts DEF CmdRecs, Steps
  <2>2. cmd.kind \in {"upgrade", "rollback"} /\ cmd.was /\ cmd.told = "none"
    BY <1>1, <1>3, CmdFacts DEF IInv, KindInv, CmdRecs
  <2>3. ~cmd.lost => file["prev"] = cmd.from
    BY <1>1, <1>3 DEF IInv, FilesInv, FirstInv
  <2>4. KindInv' /\ StopInv' /\ AloneInv'
    BY <2>1, <2>2 DEF KindInv, StopInv, AloneInv
  <2>5. CopyInv' /\ FirstInv' /\ RetryInv'
    BY <1>1, <2>1, <2>3, CmdFacts DEF IInv, FilesInv, CopyInv, FirstInv, RetryInv
  <2> QED  BY <1>1, <2>1, <2>4, <2>5, CmdKept, CmdFacts
<1> QED  BY <1>2, <1>3 DEF NotReady

\* The daemon that answers is the one to be stopped.
LEMMA StatusKept ==
    ASSUME IInv, Status
    PROVE  IInv'
<1>1. cmd.pc = "status" /\ UNCHANGED <<daemon, path, pid, sock, file, orphaned>> /\ ~cmd.retry
  BY DEF Status, IInv, KindInv
<1>2. file["target"] = cmd.from /\ ~cmd.lost
  BY <1>1 DEF IInv, FilesInv, FirstInv, Unchanged
<1>3. CASE End("refused") \/ End("stopped")
  BY <1>1, <1>3, EndedKept, CmdFacts DEF Tolds
<1>4. CASE Answered /\ cmd' = [cmd EXCEPT !.pc = "pidfile", !.answered = sock]
  <2>1. sock \in Daemons /\ Serves(sock)
    BY <1>4, TypeFacts DEF Answered
  <2>2. /\ cmd' \in CmdRecs /\ cmd'.pc = "pidfile" /\ cmd'.answered = sock
        /\ cmd'.kind = cmd.kind /\ cmd'.was = cmd.was /\ cmd'.retry = cmd.retry
        /\ cmd'.alone = cmd.alone /\ cmd'.from = cmd.from /\ cmd'.told = cmd.told
        /\ cmd'.lost = cmd.lost
    BY <1>4, <2>1, CmdFacts DEF CmdRecs, Steps
  <2>3. KindInv'
    BY <1>1, <2>2 DEF IInv, KindInv
  <2>4. StopInv'
    BY <1>1, <2>1, <2>2 DEF StopInv, Serves, Leaving
  <2>5. CopyInv' /\ FirstInv' /\ RetryInv'
    BY <1>1, <1>2, <2>2, CmdFacts DEF CopyInv, FirstInv, RetryInv
  <2>6. AloneInv'
    <3> SUFFICES ASSUME cmd.alone, cmd.was PROVE \A d \in Daemons : Alive(d) => d = sock
      BY <1>1, <2>2 DEF AloneInv, Replacing, Alive
    <3>1. Alive(sock)
      BY <2>1 DEF Serves, Alive
    <3> QED  BY <1>1, <2>1, <3>1 DEF IInv, AloneInv
  <2> QED  BY <1>1, <2>2, <2>3, <2>4, <2>5, <2>6, CmdKept, CmdFacts
<1>5. CASE ~Answered /\ cmd.kind # "stop" /\ Goto("apply")
  <2>1. cmd' \in CmdRecs /\ cmd'.pc = "apply" /\ Same(cmd', cmd)
    BY <1>5, GotoFacts DEF Steps
  <2>2. KindInv' /\ StopInv'
    BY <1>1, <1>5, <2>1 DEF IInv, KindInv, StopInv, Same
  <2>3. CopyInv' /\ FirstInv' /\ RetryInv'
    BY <1>1, <1>2, <2>1, CmdFacts DEF CopyInv, FirstInv, RetryInv, Same
  <2>4. AloneInv'
    <3> SUFFICES ASSUME cmd.alone, cmd.was, NEW d \in Daemons PROVE daemon[d].pc \in Past
      BY <1>1, <2>1 DEF AloneInv, Same
    <3>1. daemon[d].pc \in Leaving /\ (Serves(d) => sock = d)
      BY <1>1 DEF IInv, AloneInv
    <3>2. ~Serves(d)
      BY <1>5, <3>1, DaemonsAssumption DEF Answered
    <3> QED  BY <3>1, <3>2 DEF Leaving, Serves
  <2> QED  BY <1>1, <2>1, <2>2, <2>3, <2>4, CmdKept, CmdFacts
<1> QED  BY <1>3, <1>4, <1>5, Zenon DEF Status

\* If the daemon that answered still has the lock, its pid is in the file.
LEMMA ReadPIDKept ==
    ASSUME IInv, ReadPID
    PROVE  IInv'
<1>1. cmd.pc = "pidfile" /\ UNCHANGED <<daemon, path, pid, sock, file, orphaned>> /\ ~cmd.retry
  BY DEF ReadPID, IInv, KindInv
<1>2. file["target"] = cmd.from /\ ~cmd.lost
  BY <1>1 DEF IInv, FilesInv, FirstInv, Unchanged
<1>3. CASE path = None \/ (path # None /\ pid[path] = None)
  BY <1>1, <1>3, EndedKept, CmdFacts DEF ReadPID, Tolds
<1>4. CASE ~(path = None \/ (path # None /\ pid[path] = None))
  <2>1. cmd' = [cmd EXCEPT !.pc = "kill", !.victim = pid[path]]
    BY <1>4 DEF ReadPID
  <2>2. path \in Daemons /\ pid[path] \in Daemons
    BY <1>4, TypeFacts
  <2>3. /\ cmd' \in CmdRecs /\ cmd'.pc = "kill" /\ cmd'.victim = pid[path]
        /\ cmd'.answered = cmd.answered /\ cmd'.from = cmd.from
        /\ cmd'.kind = cmd.kind /\ cmd'.was = cmd.was /\ cmd'.retry = cmd.retry
        /\ cmd'.alone = cmd.alone /\ cmd'.told = cmd.told /\ cmd'.lost = cmd.lost
    BY <2>1, <2>2, CmdFacts DEF CmdRecs, Steps
  <2>4. KindInv'
    BY <1>1, <2>3 DEF IInv, KindInv
  <2>5. StopInv'
    <3>1. cmd.answered \in Daemons /\ daemon[cmd.answered].pc \in Leaving
      BY <1>1 DEF IInv, StopInv
    <3>2. ~orphaned /\ Holds(cmd.answered) => pid[path] = cmd.answered
      BY <3>1 DEF IInv, LockInv, Leaving, Past
    <3> QED  BY <1>1, <2>2, <2>3, <3>1, <3>2 DEF StopInv, Holds
  <2>6. CopyInv' /\ FirstInv' /\ RetryInv'
    BY <1>1, <1>2, <2>3, CmdFacts DEF CopyInv, FirstInv, RetryInv
  <2>7. AloneInv'
    BY <1>1, <2>3 DEF IInv, AloneInv, Replacing, Alive
  <2> QED  BY <1>1, <2>3, <2>4, <2>5, <2>6, <2>7, CmdKept, CmdFacts
<1> QED  BY <1>3, <1>4

\* The pid in the file is read, and signalled.
LEMMA SignalKept ==
    ASSUME IInv, Signal
    PROVE  IInv'
<1>1. /\ cmd.pc = "kill" /\ UNCHANGED <<path, pid, sock, file, orphaned>>
      /\ ~cmd.retry /\ cmd.victim \in Daemons /\ cmd.answered \in Daemons
  BY DEF Signal, IInv, KindInv, StopInv
<1>2. CASE End("error") /\ UNCHANGED daemon
  BY <1>1, <1>2, EndedKept, CmdFacts DEF Tolds
<1>3. CASE Alive(cmd.victim) /\ Kill(cmd.victim) /\ Goto("wait")
  <2>1. PICK new \in Recs : /\ daemon' = [daemon EXCEPT ![cmd.victim] = new]
                            /\ Onward(daemon[cmd.victim], new)
                            /\ LockInv'
    BY <1>1, <1>3, KillFacts
  <2>2. /\ daemon'[cmd.victim] = new
        /\ \A e \in Daemons : e # cmd.victim => daemon'[e] = daemon[e]
    BY <1>1, <2>1, TypeFacts
  <2>3. cmd' \in CmdRecs /\ cmd'.pc = "wait" /\ Same(cmd', cmd)
    BY <1>3, GotoFacts DEF Steps
  <2>4. TypeOK'
    <3>1. daemon' \in [Daemons -> Recs]
      BY <1>1, <2>1, TypeFacts
    <3> QED  BY <1>1, <2>3, <3>1, TypeFacts, CmdFacts DEF TypeOK, Recs, CmdRecs, Stored
  <2>5. KindInv'
    BY <1>1, <2>3 DEF IInv, KindInv, Same
  <2>6. StopInv'
    <3>1. daemon[cmd.answered].pc \in Leaving
          /\ (~orphaned /\ Holds(cmd.answered) => cmd.victim = cmd.answered)
      BY <1>1 DEF IInv, StopInv
    <3>2. daemon'[cmd.answered].pc \in Leaving
      BY <1>1, <2>1, <2>2, <3>1 DEF Onward
    <3>3. Holds(cmd.answered)' => cmd'.victim = cmd'.answered \/ Holds(cmd.answered)
      BY <1>1, <2>2, <2>3 DEF Holds, Same
    <3> QED  BY <1>1, <2>3, <3>1, <3>2, <3>3 DEF StopInv, Same
  <2>7. FilesInv'
    <3>1. file["target"] = cmd.from /\ ~cmd.lost
      BY <1>1 DEF IInv, FilesInv, FirstInv, Unchanged
    <3> QED  BY <1>1, <2>3, <3>1, CmdFacts DEF FilesInv, CopyInv, FirstInv, RetryInv, Same
  <2>8. AloneInv'
    <3> SUFFICES ASSUME cmd.alone, cmd.was
                 PROVE  /\ \A d \in Daemons : Alive(d)' => d = cmd.answered
                        /\ cmd.victim = cmd.answered
      BY <1>1, <2>3 DEF AloneInv, Same, Replacing
    <3>1. \A d \in Daemons : Alive(d) => d = cmd.answered
      BY <1>1 DEF IInv, AloneInv
    <3>2. \A d \in Daemons : Alive(d)' => Alive(d)
      BY <1>3, <2>2 DEF Alive
    <3> QED  BY <1>1, <1>3, <3>1, <3>2
  <2> QED  BY <2>1, <2>4, <2>5, <2>6, <2>7, <2>8 DEF IInv
<1> QED  BY <1>2, <1>3, Zenon DEF Signal

\* The command waits for the lock to be let go.
LEMMA WaitForExitKept ==
    ASSUME IInv, WaitForExit
    PROVE  IInv'
<1>1. /\ cmd.pc = "wait" /\ UNCHANGED <<daemon, path, pid, sock, file, orphaned>>
      /\ ~cmd.retry /\ cmd.victim \in Daemons
  BY DEF WaitForExit, IInv, KindInv, StopInv
<1>2. CASE End("error") \/ End("stopped")
  BY <1>1, <1>2, EndedKept, CmdFacts DEF Tolds
<1>3. CASE ~Alive(cmd.victim) /\ cmd.kind # "stop" /\ Goto("apply")
  <2>1. cmd' \in CmdRecs /\ cmd'.pc = "apply" /\ Same(cmd', cmd)
    BY <1>3, GotoFacts DEF Steps
  <2>2. KindInv' /\ StopInv'
    BY <1>1, <1>3, <2>1 DEF IInv, KindInv, StopInv, Same
  <2>3. file["target"] = cmd.from /\ ~cmd.lost
    BY <1>1 DEF IInv, FilesInv, FirstInv, Unchanged
  <2>4. CopyInv' /\ FirstInv' /\ RetryInv'
    BY <1>1, <2>1, <2>3, CmdFacts DEF CopyInv, FirstInv, RetryInv, Same
  <2>5. AloneInv'
    <3> SUFFICES ASSUME cmd.alone, cmd.was, NEW d \in Daemons PROVE daemon[d].pc \in Past
      BY <1>1, <2>1 DEF AloneInv, Same
    <3>1. ~Alive(d)
      BY <1>1, <1>3 DEF IInv, AloneInv
    <3> QED  BY <3>1 DEF Alive, Past
  <2> QED  BY <1>1, <2>1, <2>2, <2>4, <2>5, CmdKept, CmdFacts
<1> QED  BY <1>2, <1>3, Zenon DEF WaitForExit

\* A step of the installation: the daemons and what the command knows of them
\* stay.
LEMMA PlacedKept ==
    ASSUME IInv, cmd.pc \in Replacing, cmd' \in CmdRecs, cmd'.pc \in Replacing,
           cmd'.alone = cmd.alone, cmd'.was = cmd.was, cmd'.retry = cmd.retry,
           file' \in Stored, UNCHANGED <<daemon, path, pid, sock, orphaned>>,
           KindInv', CopyInv', FirstInv', RetryInv'
    PROVE  IInv'
<1>1. StopInv'
  BY DEF StopInv, Replacing
<1>2. AloneInv'
  BY DEF IInv, AloneInv, Replacing
<1> QED  BY <1>1, <1>2, CmdKept

\* A step that changes nothing else of the command.
LEMMA InstallStepKept ==
    ASSUME IInv, cmd.pc \in Replacing, NEW to \in Replacing, Goto(to), file' \in Stored,
           UNCHANGED <<daemon, path, pid, sock, orphaned>>,
           KindInv', CopyInv', FirstInv', RetryInv'
    PROVE  IInv'
<1>1. cmd' \in CmdRecs /\ cmd'.pc = to /\ Same(cmd', cmd)
  BY GotoFacts DEF Replacing, Steps
<1> QED  BY <1>1, PlacedKept DEF Same

\* A copy is torn until it is whole.
LEMMA CopyFacts ==
    ASSUME IInv, NEW from, NEW to \in Replacing, NEW f \in Files,
           NEW what \in Versions \cup {Torn, None}, Copy(from, to, f, what)
    PROVE  /\ cmd.pc = from /\ Goto(to) /\ UNCHANGED <<daemon, path, pid, sock, orphaned>>
           /\ cmd'.pc = to /\ Same(cmd', cmd)
           /\ file' \in Stored /\ file'[f] = what /\ \A g \in Files : g # f => file'[g] = file[g]
<1>1. to \in Steps
  BY DEF Replacing, Steps
<1> QED  BY <1>1, GotoFacts, WriteFacts DEF Copy

\* A rename puts a copy in its place.
LEMMA PlaceFacts ==
    /\ "apply" \in Replacing /\ "staging" \in Replacing /\ "staged" \in Replacing
    /\ "keeping" \in Replacing /\ "holding" \in Replacing /\ "held" \in Replacing
    /\ "again" \in Replacing /\ "ready" \in Replacing
    /\ "target" \in Files /\ "new" \in Files /\ "prev" \in Files /\ "rolled" \in Files
<1> QED  BY DEF Replacing, Files

\* The steps of Install.
LEMMA InstallKept ==
    ASSUME IInv, Install
    PROVE  IInv'
<1>1. cmd.kind = "upgrade" /\ ~cmd.retry
  BY DEF Install, Installing
<1>2. CASE Copy("apply", "staging", "new", Torn)
  <2>1. /\ cmd.pc = "apply" /\ Goto("staging") /\ UNCHANGED <<daemon, path, pid, sock, orphaned>>
        /\ cmd'.pc = "staging" /\ Same(cmd', cmd)
        /\ file' \in Stored /\ file'["target"] = file["target"]
    BY <1>2, CopyFacts, PlaceFacts
  <2>2. KindInv' /\ CopyInv' /\ FirstInv' /\ RetryInv'
    BY <1>1, <2>1, CmdFacts DEF IInv, KindInv, FilesInv, CopyInv, FirstInv, RetryInv, Same,
                                Installing, RollingBack, Unchanged
  <2> QED  BY <2>1, <2>2, InstallStepKept, PlaceFacts
<1>3. CASE Copy("staging", "staged", "new", cmd.source)
  <2>1. cmd.source \in Versions
    BY CmdFacts DEF CmdRecs
  <2>2. /\ cmd.pc = "staging" /\ Goto("staged") /\ UNCHANGED <<daemon, path, pid, sock, orphaned>>
        /\ cmd'.pc = "staged" /\ Same(cmd', cmd)
        /\ file' \in Stored /\ file'["target"] = file["target"] /\ file'["new"] = cmd.source
    <3> DEFINE what == cmd.source
    <3>1. what \in Versions \cup {Torn, None} /\ Copy("staging", "staged", "new", what)
      BY <1>3, <2>1
    <3> HIDE DEF what
    <3>2. /\ cmd.pc = "staging" /\ Goto("staged") /\ UNCHANGED <<daemon, path, pid, sock, orphaned>>
          /\ cmd'.pc = "staged" /\ Same(cmd', cmd)
          /\ file' \in Stored /\ file'["target"] = file["target"] /\ file'["new"] = what
      BY <3>1, CopyFacts, PlaceFacts
    <3> QED  BY <3>2 DEF what
  <2>3. KindInv' /\ CopyInv' /\ FirstInv' /\ RetryInv'
    BY <1>1, <2>2, CmdFacts DEF IInv, KindInv, FilesInv, CopyInv, FirstInv, RetryInv, Same,
                                Installing, RollingBack, Unchanged
  <2> QED  BY <2>2, <2>3, InstallStepKept, PlaceFacts
<1>4. CASE Copy("staged", "keeping", "prev", Torn)
  <2>1. /\ cmd.pc = "staged" /\ Goto("keeping") /\ UNCHANGED <<daemon, path, pid, sock, orphaned>>
        /\ cmd'.pc = "keeping" /\ Same(cmd', cmd)
        /\ file' \in Stored /\ file'["target"] = file["target"] /\ file'["new"] = file["new"]
    BY <1>4, CopyFacts, PlaceFacts
  <2>2. KindInv' /\ CopyInv' /\ FirstInv' /\ RetryInv'
    BY <1>1, <2>1, CmdFacts DEF IInv, KindInv, FilesInv, CopyInv, FirstInv, RetryInv, Same,
                                Installing, RollingBack, Unchanged
  <2> QED  BY <2>1, <2>2, InstallStepKept, PlaceFacts
<1>5. CASE Copy("keeping", "ready", "prev", file["target"])
  <2>1. /\ cmd.pc = "keeping" /\ Goto("ready") /\ UNCHANGED <<daemon, path, pid, sock, orphaned>>
        /\ cmd'.pc = "ready" /\ Same(cmd', cmd)
        /\ file' \in Stored /\ file'["target"] = file["target"] /\ file'["new"] = file["new"]
        /\ file'["prev"] = file["target"]
    BY <1>5, CopyFacts, PlaceFacts, CmdFacts
  <2>2. file["new"] = cmd.source /\ cmd.source \in Versions /\ file["target"] = cmd.from
    BY <1>1, <2>1, CmdFacts DEF IInv, FilesInv, CopyInv, FirstInv, Unchanged, CmdRecs
  <2>3. KindInv' /\ CopyInv' /\ FirstInv' /\ RetryInv'
    BY <1>1, <2>1, <2>2, CmdFacts DEF IInv, KindInv, FilesInv, CopyInv, FirstInv, RetryInv, Same,
                                Installing, RollingBack, Unchanged
  <2> QED  BY <2>1, <2>3, InstallStepKept, PlaceFacts
<1> QED  BY <1>2, <1>3, <1>4, <1>5 DEF Install

\* The steps of Rollback.
LEMMA RollbackKept ==
    ASSUME IInv, Rollback
    PROVE  IInv'
<1>1. RollingBack
  BY DEF Rollback
<1>2. CASE file["prev"] \in Versions /\ Copy("apply", "holding", "rolled", Torn)
  <2>1. /\ cmd.pc = "apply" /\ Goto("holding") /\ UNCHANGED <<daemon, path, pid, sock, orphaned>>
        /\ cmd'.pc = "holding" /\ Same(cmd', cmd)
        /\ file' \in Stored /\ file'["target"] = file["target"] /\ file'["prev"] = file["prev"]
    BY <1>2, CopyFacts, PlaceFacts
  <2>2. KindInv' /\ CopyInv' /\ FirstInv' /\ RetryInv'
    BY <1>1, <1>2, <2>1, CmdFacts DEF IInv, KindInv, FilesInv, CopyInv, FirstInv, RetryInv, Same,
                                Installing, RollingBack, Unchanged
  <2> QED  BY <2>1, <2>2, InstallStepKept, PlaceFacts
<1>3. CASE Copy("holding", "held", "rolled", file["target"])
  <2>1. /\ cmd.pc = "holding" /\ Goto("held") /\ UNCHANGED <<daemon, path, pid, sock, orphaned>>
        /\ cmd'.pc = "held" /\ Same(cmd', cmd)
        /\ file' \in Stored /\ file'["target"] = file["target"] /\ file'["prev"] = file["prev"]
        /\ file'["rolled"] = file["target"]
    BY <1>3, CopyFacts, PlaceFacts, CmdFacts
  <2>2. KindInv' /\ CopyInv' /\ FirstInv' /\ RetryInv'
    BY <1>1, <2>1, CmdFacts DEF IInv, KindInv, FilesInv, CopyInv, FirstInv, RetryInv, Same,
                                Installing, RollingBack, Unchanged
  <2> QED  BY <2>1, <2>2, InstallStepKept, PlaceFacts
<1>4. CASE Copy("held", "again", "new", Torn)
  <2>1. /\ cmd.pc = "held" /\ Goto("again") /\ UNCHANGED <<daemon, path, pid, sock, orphaned>>
        /\ cmd'.pc = "again" /\ Same(cmd', cmd)
        /\ file' \in Stored /\ file'["target"] = file["target"] /\ file'["prev"] = file["prev"]
        /\ file'["rolled"] = file["rolled"]
    BY <1>4, CopyFacts, PlaceFacts
  <2>2. KindInv' /\ CopyInv' /\ FirstInv' /\ RetryInv'
    BY <1>1, <2>1, CmdFacts DEF IInv, KindInv, FilesInv, CopyInv, FirstInv, RetryInv, Same,
                                Installing, RollingBack, Unchanged
  <2> QED  BY <2>1, <2>2, InstallStepKept, PlaceFacts
<1>5. CASE Copy("again", "ready", "new", file["prev"])
  <2>1. file["prev"] \in Versions \cup {Torn, None}
    BY CmdFacts, PlaceFacts DEF Stored
  <2>2. /\ cmd.pc = "again" /\ Goto("ready") /\ UNCHANGED <<daemon, path, pid, sock, orphaned>>
        /\ cmd'.pc = "ready" /\ Same(cmd', cmd)
        /\ file' \in Stored /\ file'["target"] = file["target"] /\ file'["prev"] = file["prev"]
        /\ file'["rolled"] = file["rolled"] /\ file'["new"] = file["prev"]
    BY <1>5, <2>1, CopyFacts, PlaceFacts
  <2>3. file["prev"] \in Versions
    BY <2>2 DEF IInv, FilesInv, CopyInv
  <2>4. KindInv' /\ CopyInv' /\ FirstInv' /\ RetryInv'
    BY <1>1, <2>2, <2>3, CmdFacts DEF IInv, KindInv, FilesInv, CopyInv, FirstInv, RetryInv, Same,
                                Installing, RollingBack, Unchanged
  <2> QED  BY <2>2, <2>4, InstallStepKept, PlaceFacts
<1>6. CASE file["prev"] \in Versions /\ Copy("apply", "held", "rolled", None)
  <2>1. /\ cmd.pc = "apply" /\ Goto("held") /\ UNCHANGED <<daemon, path, pid, sock, orphaned>>
        /\ cmd'.pc = "held" /\ Same(cmd', cmd)
        /\ file' \in Stored /\ file'["target"] = file["target"] /\ file'["prev"] = file["prev"]
        /\ file'["rolled"] = None
    BY <1>6, CopyFacts, PlaceFacts
  <2>2. KindInv' /\ CopyInv' /\ FirstInv' /\ RetryInv'
    BY <1>1, <1>6, <2>1, CmdFacts DEF IInv, KindInv, FilesInv, CopyInv, FirstInv, RetryInv, Same,
                                Installing, RollingBack, Unchanged
  <2> QED  BY <2>1, <2>2, InstallStepKept, PlaceFacts
<1> QED  BY <1>2, <1>3, <1>4, <1>5, <1>6 DEF Rollback

\* What is the same of a command whose place and whose loss may differ.
Alike(c, e) == /\ c.kind = e.kind /\ c.told = e.told /\ c.was = e.was /\ c.retry = e.retry
               /\ c.alone = e.alone /\ c.from = e.from /\ c.source = e.source

\* Where a rename leads, and what it may have lost.
LEMMA SwappedFacts ==
    ASSUME IInv, NEW pc \in Steps, NEW lost \in BOOLEAN,
           cmd' = [cmd EXCEPT !.pc = pc, !.lost = lost]
    PROVE  cmd' \in CmdRecs /\ cmd'.pc = pc /\ cmd'.lost = lost /\ Alike(cmd', cmd)
<1> QED  BY CmdFacts DEF CmdRecs, Alike

\* One binary takes the place of the other.
LEMMA RenameKept ==
    ASSUME IInv, Rename
    PROVE  IInv'
<1> DEFINE to == IF RollingBack /\ file["rolled"] # None THEN "swapped" ELSE "replaced"
           lost == IF cmd.retry THEN cmd.lost ELSE cmd.kind = "rollback"
<1>1. /\ cmd.pc = "ready" /\ cmd' = [cmd EXCEPT !.pc = to, !.lost = lost]
      /\ UNCHANGED <<daemon, path, pid, sock, orphaned>>
      /\ file' = [file EXCEPT !["target"] = file["new"], !["new"] = None]
  BY CmdFacts DEF Rename, Swapped
<1>2. to \in Steps /\ to \in Replacing /\ to \in {"swapped", "replaced"}
  BY DEF Steps, Replacing
<1>3. lost \in BOOLEAN
  BY CmdFacts DEF CmdRecs
<1>4. cmd' \in CmdRecs /\ cmd'.pc = to /\ cmd'.lost = lost /\ Alike(cmd', cmd)
  <2> HIDE DEF to, lost
  <2> QED  BY <1>1, <1>2, <1>3, SwappedFacts
<1>5. file["new"] \in Versions
  BY <1>1 DEF IInv, FilesInv, CopyInv
<1>6. /\ file' \in Stored /\ file'["target"] = file["new"]
      /\ file'["prev"] = file["prev"] /\ file'["rolled"] = file["rolled"]
  BY <1>1, <1>5, CmdFacts DEF Stored, Files
<1>7. cmd.kind \in {"upgrade", "rollback"} /\ cmd.told = "none"
  BY <1>1, CmdFacts DEF IInv, KindInv, CmdRecs
<1>8. KindInv'
  BY <1>1, <1>4, <1>7 DEF IInv, KindInv, Alike, Installing, RollingBack
<1>9. CopyInv'
  BY <1>2, <1>4, <1>5, <1>6 DEF CopyInv
<1>10. CopyInv /\ FirstInv /\ RetryInv /\ (RollingBack <=> ~Installing)
  BY <1>7 DEF IInv, FilesInv, KindInv, RollingBack, Installing
<1>11. /\ cmd.retry => (cmd'.lost <=> cmd.lost)
       /\ ~cmd.retry => (cmd'.lost <=> cmd.kind = "rollback")
  BY <1>4
<1>12. /\ RollingBack /\ file["rolled"] # None => cmd'.pc = "swapped"
       /\ ~(RollingBack /\ file["rolled"] # None) => cmd'.pc = "replaced"
  BY <1>4
<1>13. /\ cmd'.retry = cmd.retry /\ cmd'.kind = cmd.kind /\ cmd'.from = cmd.from
       /\ cmd'.source = cmd.source
  BY <1>4 DEF Alike
<1> HIDE DEF to, lost
<1>14. FirstInv'
  <2> SUFFICES ASSUME ~cmd.retry PROVE FirstInv'
    BY <1>13 DEF FirstInv
  <2>1. CASE RollingBack
    <3>1. cmd.kind = "rollback" /\ cmd'.lost /\ file["rolled"] \in {cmd.from, None}
      BY <1>1, <1>10, <1>11, <2>1 DEF FirstInv, RollingBack
    <3> QED  BY <1>6, <1>12, <1>13, <2>1, <3>1 DEF FirstInv, Unchanged
  <2>2. CASE ~RollingBack
    <3>1. cmd'.pc = "replaced" /\ file["new"] = cmd.source /\ file["prev"] = cmd.from
      BY <1>1, <1>10, <1>12, <2>2 DEF CopyInv
    <3> QED  BY <1>6, <1>13, <3>1 DEF FirstInv, Unchanged
  <2> QED  BY <2>1, <2>2
<1>15. RetryInv'
  <2>1. ASSUME cmd'.retry, ~cmd'.lost PROVE file'["target"] = cmd'.from
    BY <1>1, <1>6, <1>10, <1>11, <1>13, <2>1 DEF RetryInv
  <2>2. ASSUME cmd'.lost
        PROVE  /\ cmd'.kind = "rollback" /\ file'["target"] = file'["prev"]
               /\ cmd'.retry /\ cmd'.pc = "swapped" => file'["rolled"] = file'["prev"]
    <3>1. cmd.kind = "rollback" /\ RollingBack
      BY <1>10, <1>11, <2>2 DEF RetryInv, RollingBack
    <3>2. cmd.retry => file["rolled"] \in {file["prev"], None}
      BY <1>1, <1>10, <1>11, <2>2 DEF RetryInv
    <3>3. file["new"] = file["prev"]
      BY <1>1, <1>10, <3>1 DEF CopyInv
    <3> QED  BY <1>6, <1>12, <1>13, <3>1, <3>2, <3>3
  <2>3. cmd'.pc \in {"swapped", "replaced"}
    BY <1>12
  <2> QED  BY <2>1, <2>2, <2>3 DEF RetryInv
<1> QED  BY <1>1, <1>2, <1>4, <1>6, <1>8, <1>9, <1>14, <1>15, PlacedKept DEF Replacing, Alike

\* What was rolled back from becomes the way back.
LEMMA KeepRolledKept ==
    ASSUME IInv, KeepRolled
    PROVE  IInv'
<1> DEFINE lost == cmd.retry /\ cmd.lost
<1>1. /\ cmd.pc = "swapped" /\ cmd' = [cmd EXCEPT !.pc = "replaced", !.lost = lost]
      /\ UNCHANGED <<daemon, path, pid, sock, orphaned>>
      /\ file' = [file EXCEPT !["prev"] = file["rolled"], !["rolled"] = None]
  BY CmdFacts DEF KeepRolled
<1>2. lost \in BOOLEAN
  BY CmdFacts DEF CmdRecs
<1>3. cmd' \in CmdRecs /\ cmd'.pc = "replaced" /\ cmd'.lost = lost /\ Alike(cmd', cmd)
  <2> HIDE DEF lost
  <2> QED  BY <1>1, <1>2, SwappedFacts DEF Steps
<1>4. /\ file' \in Stored /\ file'["target"] = file["target"] /\ file'["prev"] = file["rolled"]
  BY <1>1, CmdFacts DEF Stored, Files
<1>5. KindInv'
  BY <1>1, <1>3 DEF IInv, KindInv, Alike, Installing, RollingBack
<1>6. CopyInv'
  BY <1>3, <1>4, CmdFacts DEF CopyInv
<1>7. FirstInv'
  BY <1>1, <1>3, <1>4 DEF IInv, KindInv, FilesInv, FirstInv, Alike, RollingBack, Unchanged
<1>8. RetryInv'
  BY <1>1, <1>3, <1>4 DEF IInv, KindInv, FilesInv, RetryInv, Alike
<1> QED  BY <1>1, <1>3, <1>4, <1>5, <1>6, <1>7, <1>8, PlacedKept DEF Replacing, Alike

\* A step of a replacement fails.
LEMMA FailKept ==
    ASSUME IInv, Fail
    PROVE  IInv'
<1> DEFINE new == IF cmd.pc \in {"staged", "keeping", "ready"} THEN None ELSE file["new"]
           rolled == IF cmd.pc \in {"held", "again", "ready", "swapped"} THEN None ELSE file["rolled"]
<1>1. /\ cmd.pc \in {"apply", "staging", "staged", "keeping", "holding", "held", "again", "ready",
                    "swapped"}
      /\ UNCHANGED <<daemon, path, pid, sock, orphaned>>
      /\ file' = [file EXCEPT !["new"] = new, !["rolled"] = rolled]
  BY CmdFacts DEF Fail, Stored, Files
<1>2. new \in Versions \cup {Torn, None} /\ rolled \in Versions \cup {Torn, None}
  BY CmdFacts DEF Stored, Files
<1> HIDE DEF new, rolled
<1>3. file' \in Stored /\ file'["target"] = file["target"] /\ file'["prev"] = file["prev"]
  BY <1>1, <1>2, CmdFacts DEF Stored, Files
<1>4. CASE cmd.retry
  BY <1>1, <1>3, <1>4, EndedKept DEF Fail, Tolds
<1>5. CASE ~cmd.retry
  <2>1. Goto("failed")
    BY <1>5 DEF Fail
  <2>2. cmd' \in CmdRecs /\ cmd'.pc = "failed" /\ Same(cmd', cmd)
    BY <2>1, GotoFacts DEF Steps
  <2>3. KindInv'
    BY <1>1, <1>5, <2>2 DEF IInv, KindInv, Same
  <2>4. CopyInv'
    BY <1>3, <2>2, CmdFacts DEF CopyInv
  <2>5. ~cmd.lost => file["target"] = cmd.from
    BY <1>1, <1>5 DEF IInv, FilesInv, FirstInv, Unchanged
  <2>6. FirstInv'
    BY <1>3, <2>2, <2>5 DEF FirstInv, Same
  <2>7. RetryInv'
    BY <1>3, <1>5, <2>2 DEF IInv, FilesInv, RetryInv, Same
  <2> QED  BY <1>1, <1>3, <2>1, <2>3, <2>4, <2>6, <2>7, InstallStepKept DEF Replacing
<1> QED  BY <1>4, <1>5

\* After a failed replacement what is installed is started again.
LEMMA RestartAnywayKept ==
    ASSUME IInv, RestartAnyway
    PROVE  IInv'
<1>1. UNCHANGED <<path, sock, file, orphaned>> /\ End("failed")
  BY DEF RestartAnyway
<1>2. CASE UNCHANGED <<daemon, pid>>
  BY <1>1, <1>2, EndedKept, CmdFacts DEF Tolds
<1>3. ASSUME NEW d \in Daemons, Spawned(d) PROVE IInv'
  <2>1. daemon' \in [Daemons -> Recs] /\ pid' \in [Daemons -> Daemons \cup {None}] /\ LockInv'
    BY <1>1, <1>3, SpawnedFacts
  <2> QED  BY <1>1, <2>1, EndKept, CmdFacts DEF Tolds
<1> QED  BY <1>2, <1>3 DEF RestartAnyway

\* The command is killed.
LEMMA AbortKept ==
    ASSUME IInv, Abort
    PROVE  IInv'
<1>1. file' \in Stored /\ file'["target"] = file["target"]
  BY CmdFacts DEF Abort, Stored, Files
<1> QED  BY <1>1, EndedKept DEF Abort

\* All that a command does.
LEMMA CommandKept ==
    ASSUME IInv, Command
    PROVE  IInv'
<1>1. ASSUME Done PROVE IInv'
  BY <1>1, EndedKept, CmdFacts DEF Done, Tolds
<1>2. Installed \in Versions
  BY VersionsAssumption
<1> QED  BY <1>1, <1>2, BeginKept, AskKept, StartedKept, WaitReadyKept, NotReadyKept,
            StatusKept, ReadPIDKept, SignalKept, WaitForExitKept, InstallKept, RollbackKept,
            RenameKept, KeepRolledKept, FailKept, RestartAnywayKept, AbortKept DEF Command

\* Every step keeps the invariant.
LEMMA NextKept ==
    ASSUME IInv, [Next]_vars
    PROVE  IInv'
<1>1. CASE UNCHANGED vars
  <2>1. TypeOK' /\ LockInv'
    BY <1>1 DEF IInv, vars, TypeOK, LockInv, Holds, Serves
  <2>2. KindInv' /\ StopInv'
    BY <1>1 DEF IInv, vars, KindInv, StopInv, Holds, Installing, RollingBack
  <2>3. FilesInv'
    BY <1>1 DEF IInv, vars, FilesInv, CopyInv, FirstInv, RetryInv, Installing, RollingBack
  <2>4. AloneInv'
    BY <1>1 DEF IInv, vars, AloneInv, Alive, Serves
  <2> QED  BY <2>1, <2>2, <2>3, <2>4 DEF IInv
<1> QED  BY <1>1, LifeKept, CommandKept DEF Next

\* It holds at first.
LEMMA InitSound == Init => IInv
<1> SUFFICES ASSUME Init PROVE IInv
  OBVIOUS
<1>1. /\ daemon = [d \in Daemons |-> Gone] /\ cmd = Quiet /\ file \in Stored
      /\ file["target"] = Installed
      /\ path = None /\ sock = None /\ pid = [d \in Daemons |-> None] /\ orphaned = FALSE
  BY VersionsAssumption DEF Init, Stored, Files
<1>2. \A d \in Daemons : daemon[d].pc = "gone"
  BY <1>1, GoneFacts
<1>3. TypeOK
  <2>1. daemon \in [Daemons -> Recs] /\ cmd \in CmdRecs
    BY <1>1, GoneFacts, QuietFacts
  <2> QED  BY <1>1, <2>1 DEF TypeOK, Recs, CmdRecs, Stored
<1>4. LockInv
  BY <1>2 DEF LockInv, Holds, Serves, Locked
<1>5. KindInv /\ StopInv /\ AloneInv
  BY <1>1, QuietFacts DEF KindInv, StopInv, AloneInv
<1>6. FilesInv
  BY <1>1, QuietFacts, VersionsAssumption DEF FilesInv, CopyInv, FirstInv, RetryInv
<1> QED  BY <1>3, <1>4, <1>5, <1>6 DEF IInv

-----------------------------------------------------------------------------
(* Theorems.                                                               *)

\* Locks, sockets, copies and commands stay in step.
THEOREM Invariance == Spec => []IInv
<1>1. Init => IInv
  BY InitSound
<1>2. IInv /\ [Next]_vars => IInv'
  BY NextKept
<1> QED  BY <1>1, <1>2, PTL DEF Spec

\* Daemons, files and commands are always what the model takes them for.
THEOREM TypeCorrect == Spec => []TypeOK
<1>1. IInv => TypeOK
  BY DEF IInv
<1> QED  BY <1>1, Invariance, PTL

\* Whoever starts, stops, dies or is killed, the daemon that serves is the one that
\* the socket and the pid file name, unless a lock file is orphaned (lock.go).
THEOREM Reachable == Spec => []ServingIsReachable
<1>1. IInv => ServingIsReachable
  <2> SUFFICES ASSUME IInv, ~orphaned, NEW d \in Daemons, Serves(d)
               PROVE  sock = d /\ pid[path] = d
    BY DEF ServingIsReachable
  <2>1. Holds(d) /\ daemon[d].pc # "held"
    BY DEF Serves, Holds, Locked
  <2> QED  BY <2>1 DEF IInv, LockInv
<1> QED  BY <1>1, Invariance, PTL

\* Wherever an upgrade or a rollback is killed or fails, the target is a binary
\* that somebody installed and all of it (Install, Rollback).
THEOREM TargetStaysWhole == Spec => []TargetIsWhole
<1>1. IInv => TargetIsWhole
  BY DEF IInv, FilesInv, CopyInv, TargetIsWhole
<1> QED  BY <1>1, Invariance, PTL

\* Nothing a daemon does ends a command.
LEMMA LifeAside ==
    ASSUME IInv, NEW d \in Daemons, Life(d)
    PROVE  cmd'.pc = cmd.pc /\ cmd'.told = cmd.told
<1>1. CASE Spawn(d)
  BY <1>1, CmdFacts DEF Spawn, CmdRecs
<1>2. CASE ~Spawn(d)
  <2>1. cmd' = cmd
    BY <1>2 DEF Life, OpenLock, Flock, WritePID, Dial, RemoveStale, Listen, Close, RemoveSocket,
                Unlock, Unlink, Interrupt, Crash
  <2> QED  BY <2>1
<1> QED  BY <1>1, <1>2

\* What a command can say where it ends.
LEMMA EndFacts ==
    ASSUME NEW told \in Tolds, End(told)
    PROVE  cmd'.pc = "idle" /\ cmd'.told = told
<1> QED  BY DEF End, Quiet

\* A command that has stopped a daemon has seen the one that answered let go of its
\* lock, for any number of daemons that come and go meanwhile (daemonStop).
THEOREM StoppedHasLetGo == Spec => StoppedLetGo
<1>1. ASSUME IInv, [Next]_vars, cmd.pc = "wait", cmd'.told = "stopped" \/ cmd'.pc = "apply",
             ~orphaned
      PROVE  ~Holds(cmd.answered)
  <2>1. cmd.told = "none"
    BY <1>1 DEF IInv, KindInv
  <2>2. ~UNCHANGED vars /\ ~ \E d \in Daemons : Life(d)
    BY <1>1, <2>1, LifeAside DEF vars
  <2>3. ~Abort
    BY <1>1, QuietFacts DEF Abort
  <2>4. Command
    BY <1>1, <2>2 DEF Next
  <2>5. WaitForExit
    BY <1>1, <2>3, <2>4 DEF Command, Begin, Ask, Start, Restart, WaitReady, NotReady, Status,
                            ReadPID, Signal, Install, Rollback, Copy, Rename, KeepRolled, Fail,
                            RestartAnyway, Done
  <2>6. ~Alive(cmd.victim)
    <3>1. Alive(cmd.victim) => End("error")
      BY <2>5 DEF WaitForExit
    <3>2. ~End("error")
      BY <1>1, EndFacts DEF Tolds
    <3> QED  BY <3>1, <3>2
  <2>7. Holds(cmd.answered) => cmd.victim = cmd.answered
    BY <1>1 DEF IInv, StopInv
  <2>8. Holds(cmd.answered) => Alive(cmd.answered)
    BY DEF Holds, Locked, Alive
  <2> QED  BY <2>6, <2>7, <2>8
<1> QED  BY <1>1, Invariance, PTL DEF Spec, StoppedLetGo

\* What a command says when a daemon answers.
LEMMA ReadySays ==
    ASSUME WaitReady
    PROVE  /\ cmd.kind = "start" /\ ~cmd.retry => cmd'.told = "started"
           /\ cmd.kind # "start" /\ cmd.retry => cmd'.told = "rolledback"
           /\ cmd.kind # "start" /\ ~cmd.retry => cmd'.told = "ok"
<1> DEFINE told == CASE cmd.kind = "start" -> "started"
                     [] cmd.retry -> "rolledback"
                     [] OTHER -> "ok"
<1>1. cmd' = [Quiet EXCEPT !.told = told]
  BY DEF WaitReady, End
<1>2. /\ cmd.kind = "start" /\ ~cmd.retry => told = "started"
      /\ cmd.kind # "start" /\ cmd.retry => told = "rolledback"
      /\ cmd.kind # "start" /\ ~cmd.retry => told = "ok"
  OBVIOUS
<1> HIDE DEF told
<1>3. cmd'.told = told
  BY <1>1 DEF Quiet
<1> QED  BY <1>2, <1>3

\* Which command says "ok", "failed" or "rolledback", and where it is then.
LEMMA EndedHow ==
    ASSUME IInv, [Next]_vars, cmd.pc # "idle", cmd'.told \in {"ok", "failed", "rolledback"}
    PROVE  Done \/ WaitReady \/ RestartAnyway
<1>1. cmd.told = "none"
  BY DEF IInv, KindInv
<1>2. ~UNCHANGED vars /\ ~ \E d \in Daemons : Life(d)
  BY <1>1, LifeAside DEF vars
<1>3. \A told \in Tolds \ {"ok", "failed", "rolledback"} : ~End(told)
  BY EndFacts
<1>4. \A pc \in Steps : ~Goto(pc)
  <2> SUFFICES ASSUME NEW pc \in Steps, Goto(pc) PROVE FALSE
    OBVIOUS
  <2>1. Same(cmd', cmd)
    BY GotoFacts
  <2> QED  BY <1>1, <2>1 DEF Same
<1>5. ~Ask /\ ~Status /\ ~NotReady
  <2>1. ~Ask
    <3>1. ASSUME Ask PROVE cmd'.told = cmd.told \/ cmd'.told \in {"already", "refused"}
      <4>1. \/ End("already") \/ End("refused") \/ Goto("replaced") \/ Goto("apply")
            \/ cmd' = [cmd EXCEPT !.pc = "status", !.was = TRUE,
                                  !.alone = \A d \in Daemons \ {sock} : ~Alive(d)]
        BY <3>1, Zenon DEF Ask
      <4>2. ASSUME cmd' = [cmd EXCEPT !.pc = "status", !.was = TRUE,
                                      !.alone = \A d \in Daemons \ {sock} : ~Alive(d)]
            PROVE  cmd'.told = cmd.told
        BY <4>2, CmdFacts DEF CmdRecs
      <4> QED  BY <1>4, <4>1, <4>2, EndFacts DEF Tolds, Steps
    <3> QED  BY <1>1, <3>1
  <2>2. ~Status
    <3>1. ASSUME Status
          PROVE  \/ End("refused") \/ End("stopped") \/ Goto("apply")
                 \/ cmd' = [cmd EXCEPT !.pc = "pidfile", !.answered = sock]
      BY <3>1 DEF Status
    <3>2. cmd' # [cmd EXCEPT !.pc = "pidfile", !.answered = sock]
      BY <1>1, CmdFacts DEF CmdRecs
    <3> QED  BY <1>3, <1>4, <3>1, <3>2 DEF Tolds, Steps
  <2>3. ~NotReady
    <3>1. cmd' # [cmd EXCEPT !.pc = "apply", !.retry = TRUE]
      BY <1>1, CmdFacts DEF CmdRecs
    <3> QED  BY <1>3, <3>1 DEF NotReady, Tolds
  <2> QED  BY <2>1, <2>2, <2>3
<1>6. ~ReadPID
  <2>1. cmd' # [cmd EXCEPT !.pc = "kill", !.victim = pid[path]]
    BY <1>1, CmdFacts DEF CmdRecs
  <2> QED  BY <1>3, <2>1 DEF ReadPID, Tolds
<1>7. ~Start /\ ~Restart /\ ~Signal /\ ~WaitForExit
  BY <1>3, <1>4 DEF Start, Restart, Started, Signal, WaitForExit, Tolds, Steps
<1>8. ~Install /\ ~Rollback /\ ~Rename /\ ~KeepRolled
  <2>1. ~Install /\ ~Rollback
    BY <1>4 DEF Install, Rollback, Copy, Steps
  <2>2. \A pc \in Steps, lost \in BOOLEAN : cmd' # [cmd EXCEPT !.pc = pc, !.lost = lost]
    <3> SUFFICES ASSUME NEW pc \in Steps, NEW lost \in BOOLEAN,
                        cmd' = [cmd EXCEPT !.pc = pc, !.lost = lost]
                 PROVE  FALSE
      OBVIOUS
    <3>1. Alike(cmd', cmd)
      BY SwappedFacts
    <3> QED  BY <1>1, <3>1 DEF Alike
  <2>3. ~KeepRolled
    <3>1. (cmd.retry /\ cmd.lost) \in BOOLEAN /\ "replaced" \in Steps
      BY DEF Steps
    <3>2. ASSUME KeepRolled
          PROVE  cmd' = [cmd EXCEPT !.pc = "replaced", !.lost = cmd.retry /\ cmd.lost]
      BY <3>2, CmdFacts DEF KeepRolled
    <3> QED  BY <2>2, <3>1, <3>2
  <2>4. ~Rename
    <3> DEFINE to == IF RollingBack /\ file["rolled"] # None THEN "swapped" ELSE "replaced"
               lost == IF cmd.retry THEN cmd.lost ELSE cmd.kind = "rollback"
    <3>1. to \in Steps /\ lost \in BOOLEAN
      BY CmdFacts DEF Steps, CmdRecs
    <3>2. ASSUME Rename
          PROVE  cmd' = [cmd EXCEPT !.pc = to, !.lost = lost]
      BY <3>2, CmdFacts DEF Rename, Swapped
    <3> HIDE DEF to, lost
    <3> QED  BY <2>2, <3>1, <3>2
  <2> QED  BY <2>1, <2>3, <2>4
<1>9. ~Fail /\ ~Abort
  BY <1>3, <1>4, QuietFacts DEF Fail, Abort, Tolds, Steps
<1>10. Command
  BY <1>2 DEF Next
<1> QED  BY <1>5, <1>6, <1>7, <1>8, <1>9, <1>10 DEF Command, Begin

\* A command that replaced the binary has left the way back to the one it found,
\* and one that failed or rolled back has left that one in its place (swap); a
\* rollback that could not keep it has at least left what it went back to in both.
THEOREM WayBackLeft == Spec => WayBack
<1> DEFINE Left ==
      /\ ~cmd.lost /\ cmd'.told = "ok" => file'["prev"] = cmd.from
      /\ ~cmd.lost /\ cmd'.told \in {"failed", "rolledback"} => file'["target"] = cmd.from
      /\ cmd.lost /\ cmd'.told \in {"ok", "failed", "rolledback"} =>
             cmd.kind = "rollback" /\ file'["target"] = file'["prev"]
<1>1. ASSUME IInv, [Next]_vars, cmd.pc # "idle", cmd'.pc = "idle"
      PROVE  Left
  <2> SUFFICES ASSUME cmd'.told \in {"ok", "failed", "rolledback"}
               PROVE  Left
    OBVIOUS
  <2>1. Done \/ WaitReady \/ RestartAnyway
    BY <1>1, EndedHow
  <2>2. file' = file
    BY <2>1 DEF Done, WaitReady, RestartAnyway
  <2>3. cmd.lost => cmd.kind = "rollback" /\ file["target"] = file["prev"]
    BY <1>1 DEF IInv, FilesInv, RetryInv
  <2>4. CASE Done
    <3>1. cmd.pc = "replaced" /\ ~cmd.was /\ cmd.kind # "start" /\ End("ok")
      BY <2>4 DEF Done
    <3>2. ~cmd.retry
      BY <1>1, <3>1 DEF IInv, KindInv
    <3>3. cmd'.told = "ok"
      BY <3>1, EndFacts DEF Tolds
    <3>4. ~cmd.lost => file["prev"] = cmd.from
      BY <1>1, <3>1, <3>2 DEF IInv, FilesInv, FirstInv
    <3> QED  BY <2>2, <2>3, <3>3, <3>4
  <2>5. CASE RestartAnyway
    <3>1. cmd.pc = "failed" /\ End("failed")
      BY <2>5 DEF RestartAnyway
    <3>2. ~cmd.retry
      BY <1>1, <3>1 DEF IInv, KindInv
    <3>3. cmd'.told = "failed"
      BY <3>1, EndFacts DEF Tolds
    <3>4. ~cmd.lost => file["target"] = cmd.from
      BY <1>1, <3>1, <3>2 DEF IInv, FilesInv, FirstInv, Unchanged
    <3> QED  BY <2>2, <2>3, <3>3, <3>4
  <2>6. CASE WaitReady
    <3>1. cmd.pc = "starting"
      BY <2>6 DEF WaitReady
    <3>2. cmd.kind = "start" => ~cmd.retry
      BY <1>1 DEF IInv, KindInv
    <3>3. /\ cmd.kind = "start" => cmd'.told = "started"
          /\ cmd.kind # "start" /\ cmd.retry => cmd'.told = "rolledback"
          /\ cmd.kind # "start" /\ ~cmd.retry => cmd'.told = "ok"
      BY <2>6, <3>2, ReadySays
    <3>4. /\ cmd.kind # "start" /\ cmd.retry /\ ~cmd.lost => file["target"] = cmd.from
          /\ cmd.kind # "start" /\ ~cmd.retry /\ ~cmd.lost => file["prev"] = cmd.from
      BY <1>1, <3>1 DEF IInv, FilesInv, FirstInv, RetryInv
    <3> QED  BY <2>2, <2>3, <3>3, <3>4
  <2> QED  BY <2>1, <2>4, <2>5, <2>6
<1>2. IInv /\ [Next]_vars => [(cmd.pc # "idle" /\ cmd'.pc = "idle") => Left]_vars
  BY <1>1
<1> QED  BY <1>2, Invariance, PTL DEF Spec, WayBack

\* The daemon that answers after an upgrade runs what was installed, if nobody
\* else started one meanwhile (restart).
THEOREM ServesWhatIsInstalled == Spec => UpgradedIsServed
<1>1. ASSUME IInv, [Next]_vars, cmd.pc = "starting", cmd'.told = "ok", cmd.alone
      PROVE  /\ daemon[sock].version = file["target"]
             /\ cmd.kind = "upgrade" => daemon[sock].version = cmd.source
  <2>1. WaitReady
    BY <1>1, EndedHow DEF Done, RestartAnyway
  <2>2. Answered
    BY <2>1 DEF WaitReady
  <2>3. cmd.kind # "start" /\ ~cmd.retry
    <3>1. cmd.kind = "start" => ~cmd.retry
      BY <1>1 DEF IInv, KindInv
    <3> QED  BY <1>1, <2>1, <3>1, ReadySays
  <2>4. sock \in Daemons /\ daemon[sock].pc = "serving"
    BY <1>1, <2>2, TypeFacts DEF Answered, Serves
  <2>5. cmd.was
    BY <1>1, <2>3 DEF IInv, KindInv
  <2>6. daemon[sock].version = file["target"]
    BY <1>1, <2>3, <2>4, <2>5 DEF IInv, AloneInv, Past
  <2> QED  BY <1>1, <2>3, <2>6 DEF IInv, FilesInv, FirstInv
<1> QED  BY <1>1, Invariance, PTL DEF Spec, UpgradedIsServed
=============================================================================
