------------------------------ MODULE Daemons ------------------------------
(***************************************************************************)
(* The life of a daemon and the replacement of its binary                  *)
(* (internal/daemon/lock.go, daemon.go, internal/ipc/server.go,            *)
(* internal/cli/daemon.go, upgrade.go, internal/upgrade/upgrade.go).       *)
(*                                                                         *)
(* A daemon opens the lock file, locks the inode it opened, writes its pid *)
(* there, and takes over the socket if nobody answers on it.  It leaves in *)
(* the opposite order.  Anybody may start one at any time: launchd, a      *)
(* command that found no daemon, `kranq daemon run`.  One command at a     *)
(* time starts, stops or upgrades; it may be killed at any step.           *)
(*                                                                         *)
(* Abstracted: an inode of the lock file is the daemon that created it, a  *)
(* listener the daemon that listens; a copy of a binary is torn while it   *)
(* is written.  What a daemon does while it serves is module Sched.        *)
(***************************************************************************)
EXTENDS FiniteSets

CONSTANTS
    Daemons,     \* daemon processes
    Versions,    \* what a binary can be
    Installed,   \* what the target holds at first
    Torn,        \* a file that is only partly written
    None         \* no file, no process

ASSUME VersionsAssumption ==
    Installed \in Versions /\ {Torn, None} \cap Versions = {} /\ Torn # None

ASSUME DaemonsAssumption == None \notin Daemons

VARIABLES
    daemon,    \* each process: where it is, its binary, the inode it opened, SIGTERM
    path,      \* the inode that the path of the lock file names
    pid,       \* what each inode holds
    sock,      \* the listener that the path of the socket names
    file,      \* the installed binary and its copies
    cmd,       \* the command being run, and what the last one said
    orphaned   \* whether some daemon ever had a lock that its path did not name

vars == <<daemon, path, pid, sock, file, cmd, orphaned>>

-----------------------------------------------------------------------------

Gone == [pc |-> "gone", version |-> Installed, fd |-> None, term |-> FALSE]

\* Mutant: a daemon lets go of its lock before the socket is gone.
LockedTooShort == {"held", "written", "dialled", "free", "serving"}

\* Where a process has its lock.
Locked == {"held", "written", "dialled", "free", "serving", "closed", "cleared"}
Pcs == {"gone", "new", "opened", "unlocked"} \cup Locked

Alive(d) == daemon[d].pc # "gone"
Holds(d) == daemon[d].pc \in Locked
Serves(d) == daemon[d].pc = "serving"

\* Somebody answers a request: Ping, Status.
Answered == sock # None /\ Serves(sock)

\* The path of the lock file goes after the lock, so that the next daemon may
\* have locked an inode that no path names.
Orphaned == \E d \in Daemons : Holds(d) /\ daemon[d].fd # path

Files == {"target", "new", "prev", "rolled"}

Quiet == [pc |-> "idle", kind |-> "none", told |-> "none", was |-> FALSE,
          retry |-> FALSE, alone |-> TRUE, lost |-> FALSE,
          from |-> Installed, source |-> Installed, answered |-> None, victim |-> None]

Steps == {"idle", "ask", "status", "pidfile", "kill", "wait", "apply", "staging",
          "staged", "keeping", "kept", "holding", "held", "again", "ready", "swapped",
          "replaced", "starting", "failed"}

TypeOK ==
    /\ daemon \in [Daemons -> [pc : Pcs, version : Versions,
                               fd : Daemons \cup {None}, term : BOOLEAN]]
    /\ path \in Daemons \cup {None}
    /\ pid \in [Daemons -> Daemons \cup {None}]
    /\ sock \in Daemons \cup {None}
    /\ file \in [Files -> Versions \cup {Torn, None}]
    /\ cmd \in [pc : Steps, kind : {"none", "start", "stop", "upgrade", "rollback"},
                told : {"none", "refused", "error", "already", "unreachable", "started",
                        "stopped", "ok", "failed", "rolledback"},
                was : BOOLEAN, retry : BOOLEAN, alone : BOOLEAN, lost : BOOLEAN,
                from : Versions, source : Versions,
                answered : Daemons \cup {None}, victim : Daemons \cup {None}]
    /\ orphaned \in BOOLEAN

Init ==
    /\ daemon = [d \in Daemons |-> Gone]
    /\ path = None
    /\ pid = [d \in Daemons |-> None]
    /\ sock = None
    /\ file = [f \in Files |-> IF f = "target" THEN Installed ELSE None]
    /\ cmd = Quiet
    /\ orphaned = FALSE

-----------------------------------------------------------------------------
(* A daemon comes up *)

\* Neither a file nor the command knows d any more: its pid may come back.
Forgotten(d) ==
    /\ ~Alive(d) /\ d \notin {path, sock, cmd.answered, cmd.victim}
    /\ \A e \in Daemons : daemon[e].fd # d /\ (e = path => pid[e] # d)

\* The process runs whatever the target is at this moment.
Spawned(d) ==
    /\ Forgotten(d)
    /\ daemon' = [daemon EXCEPT ![d] = [Gone EXCEPT !.pc = "new", !.version = file["target"]]]
    /\ pid' = [pid EXCEPT ![d] = None]

\* By launchd, by hand, or by a command that has found no daemon.
Spawn(d) ==
    /\ Spawned(d)
    /\ cmd' = [cmd EXCEPT !.alone = FALSE]
    /\ UNCHANGED <<path, sock, file, orphaned>>

Step(d, pc) == daemon' = [daemon EXCEPT ![d].pc = pc]

OpenLock(d) ==
    /\ daemon[d].pc = "new"
    /\ path' = IF path = None THEN d ELSE path
    /\ daemon' = [daemon EXCEPT ![d].pc = "opened", ![d].fd = path']
    /\ UNCHANGED <<pid, sock, file, cmd, orphaned>>

\* It does not wait for the lock.
Flock(d) ==
    /\ daemon[d].pc = "opened"
    /\ \/ /\ \A e \in Daemons : Holds(e) => daemon[e].fd # daemon[d].fd
          /\ Step(d, "held")
       \/ /\ \E e \in Daemons : Holds(e) /\ daemon[e].fd = daemon[d].fd
          /\ daemon' = [daemon EXCEPT ![d] = Gone]
    /\ UNCHANGED <<path, pid, sock, file, cmd>>
    /\ orphaned' = (orphaned \/ Orphaned')

WritePID(d) ==
    /\ daemon[d].pc = "held"
    /\ pid' = [pid EXCEPT ![daemon[d].fd] = d]
    /\ Step(d, "written")
    /\ UNCHANGED <<path, sock, file, cmd, orphaned>>

\* A daemon that answers is left alone.
Dial(d) ==
    /\ daemon[d].pc = "written"
    /\ Step(d, IF Answered THEN "cleared" ELSE "dialled")
    /\ UNCHANGED <<path, pid, sock, file, cmd, orphaned>>

RemoveStale(d) ==
    /\ daemon[d].pc = "dialled"
    /\ sock' = None
    /\ Step(d, "free")
    /\ UNCHANGED <<path, pid, file, cmd, orphaned>>

Listen(d) ==
    /\ daemon[d].pc = "free"
    /\ \/ sock = None /\ sock' = d /\ Step(d, "serving")
       \/ sock # None /\ UNCHANGED sock /\ Step(d, "cleared")
    /\ UNCHANGED <<path, pid, file, cmd, orphaned>>

-----------------------------------------------------------------------------
(* It leaves: the listener takes the path of the socket with it, which is then
   removed once more; the lock goes last, and its path after the lock. *)

Close(d) ==
    /\ Serves(d) /\ daemon[d].term
    /\ sock' = None
    /\ Step(d, "closed")
    /\ UNCHANGED <<path, pid, file, cmd, orphaned>>

RemoveSocket(d) ==
    /\ daemon[d].pc = "closed"
    /\ sock' = None
    /\ Step(d, "cleared")
    /\ UNCHANGED <<path, pid, file, cmd, orphaned>>

Unlock(d) ==
    /\ daemon[d].pc = "cleared"
    /\ Step(d, "unlocked")
    /\ UNCHANGED <<path, pid, sock, file, cmd, orphaned>>

Unlink(d) ==
    /\ daemon[d].pc = "unlocked"
    /\ path' = None
    /\ daemon' = [daemon EXCEPT ![d] = Gone]
    /\ orphaned' = (orphaned \/ Orphaned')
    /\ UNCHANGED <<pid, sock, file, cmd>>

Kill(d) == daemon' = [daemon EXCEPT ![d] = IF @.pc = "new" THEN Gone
                                           ELSE [@ EXCEPT !.term = TRUE]]

\* SIGTERM from launchd, or an interrupt at a terminal; a process that has not
\* asked for signals yet dies of it.
Interrupt(d) ==
    /\ Alive(d) /\ ~daemon[d].term
    /\ Kill(d)
    /\ UNCHANGED <<path, pid, sock, file, cmd, orphaned>>

\* Killed, or its binary does not work; the files stay.
Crash(d) ==
    /\ Alive(d)
    /\ daemon' = [daemon EXCEPT ![d] = Gone]
    /\ UNCHANGED <<path, pid, sock, file, cmd, orphaned>>

-----------------------------------------------------------------------------
(* Commands: start, or the start that another command makes *)

Goto(pc) == cmd' = [cmd EXCEPT !.pc = pc]

\* Only what it says last is left of a command.
End(told) == cmd' = [Quiet EXCEPT !.told = told]

Begin(kind, source) ==
    /\ cmd.pc = "idle"
    /\ cmd' = [Quiet EXCEPT !.kind = kind, !.source = source, !.from = file["target"],
                            !.pc = IF kind = "stop" THEN "status" ELSE "ask"]
    /\ UNCHANGED <<daemon, path, pid, sock, file, orphaned>>

\* Work in flight stops a command that is not forced.
Ask ==
    /\ cmd.pc = "ask"
    /\ \/ cmd.kind = "start" /\ IF Answered THEN End("already") ELSE Goto("replaced")
       \/ /\ cmd.kind # "start" /\ Answered
          /\ \/ End("refused")
             \/ cmd' = [cmd EXCEPT !.pc = "status", !.was = TRUE,
                            !.alone = \A d \in Daemons \ {sock} : ~Alive(d)]
       \/ cmd.kind # "start" /\ ~Answered /\ Goto("apply")
    /\ UNCHANGED <<daemon, path, pid, sock, file, orphaned>>

Started ==
    /\ \E d \in Daemons : Spawned(d)
    /\ Goto("starting")
    /\ UNCHANGED <<path, sock, file, orphaned>>

\* From the path it is to run, and only then is anybody asked.
Start == cmd.pc = "replaced" /\ cmd.kind = "start" /\ Started

\* After the target was replaced, if a daemon was running before.
Restart == cmd.pc = "replaced" /\ cmd.kind # "start" /\ cmd.was /\ Started

\* Whoever answers first is the daemon that was started.
WaitReady ==
    /\ cmd.pc = "starting" /\ Answered
    /\ End(CASE cmd.kind = "start" -> "started"
              [] cmd.retry -> "rolledback"
              [] OTHER -> "ok")
    /\ UNCHANGED <<daemon, path, pid, sock, file, orphaned>>

\* Nobody has answered in time: the binary that was replaced is put back, once.
NotReady ==
    /\ cmd.pc = "starting"
    /\ \/ cmd.kind = "start" /\ End("unreachable")
       \/ cmd.kind # "start" /\ cmd.retry /\ End("error")
       \/ /\ cmd.kind # "start" /\ ~cmd.retry
          /\ cmd' = [cmd EXCEPT !.pc = "apply", !.retry = TRUE]
    /\ UNCHANGED <<daemon, path, pid, sock, file, orphaned>>

-----------------------------------------------------------------------------
(* Stop *)

Status ==
    /\ cmd.pc = "status"
    /\ \/ /\ Answered
          /\ \/ End("refused")
             \/ cmd' = [cmd EXCEPT !.pc = "pidfile", !.answered = sock]
       \/ ~Answered /\ IF cmd.kind = "stop" THEN End("stopped") ELSE Goto("apply")
    /\ UNCHANGED <<daemon, path, pid, sock, file, orphaned>>

ReadPID ==
    /\ cmd.pc = "pidfile"
    /\ IF path = None \/ (path # None /\ pid[path] = None) THEN End("error")
       ELSE cmd' = [cmd EXCEPT !.pc = "kill", !.victim = pid[path]]
    /\ UNCHANGED <<daemon, path, pid, sock, file, orphaned>>

Signal ==
    /\ cmd.pc = "kill"
    /\ \/ Alive(cmd.victim) /\ Kill(cmd.victim) /\ Goto("wait")
       \/ ~Alive(cmd.victim) /\ End("error") /\ UNCHANGED daemon
    /\ UNCHANGED <<path, pid, sock, file, orphaned>>

\* Mutant: an answer that stops is enough.
WaitForSilence ==
    /\ cmd.pc = "wait"
    /\ \/ ~Answered /\ IF cmd.kind = "stop" THEN End("stopped") ELSE Goto("apply")
       \/ Answered /\ End("error")
    /\ UNCHANGED <<daemon, path, pid, sock, file, orphaned>>

\* An answer that stops is not enough: the process still has the lock.
WaitForExit ==
    /\ cmd.pc = "wait"
    /\ \/ ~Alive(cmd.victim) /\ IF cmd.kind = "stop" THEN End("stopped") ELSE Goto("apply")
       \/ Alive(cmd.victim) /\ End("error")
    /\ UNCHANGED <<daemon, path, pid, sock, file, orphaned>>

-----------------------------------------------------------------------------
(* Install: the candidate is staged, what is there is kept, and a rename puts
   one in the place of the other *)

Installing == cmd.kind = "upgrade" /\ ~cmd.retry
RollingBack == cmd.kind = "rollback" \/ cmd.retry

Write(f, what) == file' = [file EXCEPT ![f] = what]

Copy(from, to, f, what) ==
    /\ cmd.pc = from /\ Goto(to) /\ Write(f, what)
    /\ UNCHANGED <<daemon, path, pid, sock, orphaned>>

\* Mutant: the candidate is copied over what is there.
InstallInPlace ==
    /\ Installing
    /\ \/ Copy("apply", "staging", "new", Torn)
       \/ Copy("staging", "staged", "new", cmd.source)
       \/ Copy("staged", "keeping", "target", Torn)
       \/ Copy("keeping", "ready", "target", cmd.source)

\* Mutant: what is there is not kept.
InstallOver ==
    /\ Installing
    /\ \/ Copy("apply", "staging", "new", Torn)
       \/ Copy("staging", "ready", "new", cmd.source)

Install ==
    /\ Installing
    /\ \/ Copy("apply", "staging", "new", Torn)
       \/ Copy("staging", "staged", "new", cmd.source)
       \/ Copy("staged", "keeping", "prev", Torn)
       \/ Copy("keeping", "ready", "prev", file["target"])

\* What is rolled away is held first, to be what a second rollback returns to, if it
\* runs; a copy that an earlier command left behind is not used.
Rollback ==
    /\ RollingBack
    /\ \/ file["prev"] \in Versions /\ Copy("apply", "holding", "rolled", Torn)
       \/ file["prev"] \in Versions /\ Copy("apply", "held", "rolled", None)
       \/ Copy("holding", "held", "rolled", file["target"])
       \/ Copy("held", "again", "new", Torn)
       \/ Copy("again", "ready", "new", file["prev"])

\* What was installed is nowhere, until KeepRolled puts it where prev was.
Swapped ==
    cmd' = [cmd EXCEPT
        !.pc = IF RollingBack /\ file["rolled"] # None THEN "swapped" ELSE "replaced",
        !.lost = IF cmd.retry THEN @ ELSE cmd.kind = "rollback"]

\* Mutant: the candidate stays where it was staged.
RenameNothing ==
    /\ cmd.pc = "ready"
    /\ Swapped
    /\ UNCHANGED <<daemon, path, pid, sock, file, orphaned>>

Rename ==
    /\ cmd.pc = "ready"
    /\ file' = [file EXCEPT !["target"] = file["new"], !["new"] = None]
    /\ Swapped
    /\ UNCHANGED <<daemon, path, pid, sock, orphaned>>

KeepRolled ==
    /\ cmd.pc = "swapped"
    /\ file' = [file EXCEPT !["prev"] = file["rolled"], !["rolled"] = None]
    /\ cmd' = [cmd EXCEPT !.pc = "replaced", !.lost = cmd.retry /\ @]
    /\ UNCHANGED <<daemon, path, pid, sock, orphaned>>

\* The candidate does not run, there is nothing to go back to, or a copy or a rename
\* fails, which may be the one after the target was replaced; the copies made so far
\* are removed, except one that was not finished.
Fail ==
    /\ cmd.pc \in {"apply", "staging", "staged", "keeping", "holding", "held", "again", "ready",
                  "swapped"}
    /\ IF cmd.retry THEN End("error") ELSE Goto("failed")
    /\ file' = [file EXCEPT !["new"] = IF cmd.pc \in {"staged", "keeping", "ready"} THEN None ELSE @,
                            !["rolled"] = IF cmd.pc \in {"held", "again", "ready", "swapped"}
                                          THEN None ELSE @]
    /\ UNCHANGED <<daemon, path, pid, sock, orphaned>>

\* What was running is started again, and the command has failed all the same.
RestartAnyway ==
    /\ cmd.pc = "failed"
    /\ IF cmd.was THEN \E d \in Daemons : Spawned(d) ELSE UNCHANGED <<daemon, pid>>
    /\ End("failed")
    /\ UNCHANGED <<path, sock, file, orphaned>>

Done ==
    /\ cmd.pc = "replaced" /\ ~cmd.was /\ cmd.kind # "start"
    /\ End("ok")
    /\ UNCHANGED <<daemon, path, pid, sock, file, orphaned>>

\* The command is killed; nothing it has begun is undone.  The copies it leaves
\* behind are forgotten: whoever writes them next truncates them first.
Abort ==
    /\ cmd.pc # "idle"
    /\ cmd' = Quiet
    /\ file' = [file EXCEPT !["new"] = None, !["rolled"] = None]
    /\ UNCHANGED <<daemon, path, pid, sock, orphaned>>

Life(d) == \/ Spawn(d) \/ OpenLock(d) \/ Flock(d) \/ WritePID(d) \/ Dial(d)
           \/ RemoveStale(d) \/ Listen(d) \/ Close(d) \/ RemoveSocket(d)
           \/ Unlock(d) \/ Unlink(d) \/ Interrupt(d) \/ Crash(d)

Command == \/ \E kind \in {"start", "stop", "rollback"} : Begin(kind, Installed)
           \/ \E source \in Versions : Begin("upgrade", source)
           \/ Ask \/ Start \/ Restart \/ WaitReady \/ NotReady
           \/ Status \/ ReadPID \/ Signal \/ WaitForExit
           \/ Install \/ Rollback \/ Rename \/ KeepRolled
           \/ Fail \/ RestartAnyway \/ Done \/ Abort

Next == Command \/ \E d \in Daemons : Life(d)

Spec == Init /\ [][Next]_vars

-----------------------------------------------------------------------------
(* Properties *)

\* A daemon that serves can be reached, and can be stopped: the socket and the
\* pid file name it, whoever else came or went, unless a lock file is orphaned.
ServingIsReachable ==
    ~orphaned => \A d \in Daemons : Serves(d) => sock = d /\ pid[path] = d

\* daemonStop: whoever starts a daemon after it was told "daemon stopped" finds
\* the lock of the daemon that answered released.
StoppedLetGo ==
    [][(cmd.pc = "wait" /\ (cmd'.told = "stopped" \/ cmd'.pc = "apply") /\ ~orphaned) =>
            ~Holds(cmd.answered)]_vars

\* "a target is never briefly absent or half-written" (Install), whenever the
\* command is killed or a copy fails.
TargetIsWhole == file["target"] \in Versions

\* A command that replaced the binary left a way back to it, and one that failed or
\* rolled back left it in its place (Install, Rollback, swap).  Only a rollback may
\* lose what it rolled away: if that did not run, or if the last rename failed; the
\* target is then the binary that it went back to, and so is the way back.
WayBack ==
    [][(cmd.pc # "idle" /\ cmd'.pc = "idle") =>
           /\ ~cmd.lost /\ cmd'.told = "ok" => file'["prev"] = cmd.from
           /\ ~cmd.lost /\ cmd'.told \in {"failed", "rolledback"} =>
                  file'["target"] = cmd.from
           /\ cmd.lost /\ cmd'.told \in {"ok", "failed", "rolledback"} =>
                  cmd.kind = "rollback" /\ file'["target"] = file'["prev"]]_vars

\* The daemon that answers after an upgrade runs what was installed, if nobody
\* else started one in the meantime (swap, restart).
UpgradedIsServed ==
    [][(cmd.pc = "starting" /\ cmd'.told = "ok" /\ cmd.alone) =>
           /\ daemon[sock].version = file["target"]
           /\ cmd.kind = "upgrade" => daemon[sock].version = cmd.source]_vars
=============================================================================
