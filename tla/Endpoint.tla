------------------------------ MODULE Endpoint ------------------------------
(***************************************************************************)
(* Requests for one repository of the git endpoint, over http              *)
(* (internal/gitsrv/http.go, internal/daemon/githttp.go) and over ssh      *)
(* (internal/cli/gitreceive.go), beside `kranq repo create` and            *)
(* `kranq repo rm` (internal/cli/repo.go).  Each makes sure that the       *)
(* repository is there, is configured and has kranq's hooks                *)
(* (internal/gitsrv/repo.go) before git serves it; nothing is locked but   *)
(* what git itself locks, and any of them may be killed at any step, by a  *)
(* client that hangs up for one.                                           *)
(*                                                                         *)
(* Abstracted: a request whose repository name, token or ssh command is    *)
(* refused has changed nothing and is left out; what the hooks do when git *)
(* runs them is module Pushes.                                             *)
(***************************************************************************)
EXTENDS Integers

CONSTANTS
    Requests,     \* requests and commands
    Settings,     \* bound: the settings of a repository are 1..Settings
    None,         \* nobody
    Stale,        \* somebody who was killed
    MaxTrouble    \* bound: how often somebody is killed

ASSUME SettingsAssumption == Settings \in Nat \ {0} /\ MaxTrouble \in Nat

ASSUME DistinctAssumption == None # Stale /\ {None, Stale} \cap Requests = {}

VARIABLES
    repo,          \* what is in the repository
    lock,          \* who has made git's config.lock
    req,           \* each request
    autoCreate,    \* KRANQ_AUTO_CREATE_REPOS
    trouble        \* how often somebody was killed

vars == <<repo, lock, req, autoCreate, trouble>>

-----------------------------------------------------------------------------

Phases == {"pre-receive", "post-receive"}

\* What git init itself puts into the config, and what kranq adds to it.
Core == 0
AllSettings == Core..Settings

Nothing == [dir |-> FALSE, head |-> FALSE, objects |-> FALSE, config |-> {},
            hook |-> [phase \in Phases |-> "none"]]

\* What git takes for a repository, and what is one that git init has finished.
IsRepository == repo.head /\ repo.objects

\* Nobody repairs these: an interrupted git init that got as far as HEAD, and the
\* lock of a git config that was killed.
Broken == (repo.head /\ ~repo.objects) \/ lock = Stale

Idle == [pc |-> "idle", way |-> "none", n |-> 0, phase |-> "pre-receive",
         left |-> {}, alone |-> TRUE, upset |-> FALSE, told |-> "none"]

Active(r) == req[r].pc # "idle"
Parts == {"head", "objects", "config", "lock", "hooks"}

Present(part) == CASE part = "head"    -> repo.head
                   [] part = "objects" -> repo.objects
                   [] part = "config"  -> repo.config # {}
                   [] part = "lock"    -> lock # None
                   [] part = "hooks"   -> \E phase \in Phases : repo.hook[phase] # "none"

TypeOK ==
    /\ repo \in [dir : BOOLEAN, head : BOOLEAN, objects : BOOLEAN,
                 config : SUBSET AllSettings,
                 hook : [Phases -> {"none", "empty", "whole"}]]
    /\ lock \in Requests \cup {None, Stale}
    /\ req \in [Requests -> [pc : {"idle", "check", "stat", "mkdir", "init", "core", "objects",
                                   "config", "locked", "hook", "write", "serve", "rm"},
                             way : {"none", "http", "ssh", "create", "rm"},
                             n : AllSettings, phase : Phases, left : SUBSET Parts,
                             alone : BOOLEAN, upset : BOOLEAN,
                             told : {"none", "served", "failed", "refused"}]]
    /\ autoCreate \in BOOLEAN
    /\ trouble \in 0..MaxTrouble
    /\ ~repo.dir => \A part \in Parts : ~Present(part)
    /\ lock \in Requests => req[lock].pc = "locked"

Init ==
    /\ repo = Nothing
    /\ lock = None
    /\ req = [r \in Requests |-> Idle]
    /\ autoCreate \in BOOLEAN
    /\ trouble = 0

-----------------------------------------------------------------------------
(* A request begins *)

Goto(r, pc) == req' = [req EXCEPT ![r].pc = pc]

Answered(told) == [Idle EXCEPT !.told = told]
End(r, told) == req' = [req EXCEPT ![r] = Answered(told)]

Arrive(r, way) ==
    /\ ~Active(r)
    /\ way = "rm" => repo.dir
    /\ LET others == {q \in Requests \ {r} : Active(q)}
           new == [Idle EXCEPT !.way = way, !.alone = others = {},
                      !.upset = \E q \in others : req[q].way = "rm",
                      !.pc = CASE way = "ssh" -> "check" [] way = "rm" -> "rm" [] OTHER -> "stat",
                      !.left = IF way = "rm" THEN {part \in Parts : Present(part)} ELSE {}]
       IN  req' = [q \in Requests |->
                      CASE q = r -> new
                        [] q \in others -> [req[q] EXCEPT !.alone = FALSE,
                                                          !.upset = @ \/ way = "rm"]
                        [] OTHER -> req[q]]
    /\ UNCHANGED <<repo, lock, autoCreate, trouble>>

HTTP(r) == Arrive(r, "http")
GitReceive(r) == Arrive(r, "ssh")
RepoCreate(r) == Arrive(r, "create")
RepoRemove(r) == Arrive(r, "rm")

\* Only a push over ssh asks whether it may create what is not there.
Check(r) ==
    /\ req[r].pc = "check"
    /\ IF autoCreate \/ repo.dir THEN Goto(r, "stat") ELSE End(r, "refused")
    /\ UNCHANGED <<repo, lock, autoCreate, trouble>>

-----------------------------------------------------------------------------
(* Ensure *)

\* Mutant: a directory is taken for a repository.
StatDir(r) ==
    /\ req[r].pc = "stat"
    /\ req' = [req EXCEPT ![r].pc = IF repo.dir THEN "config" ELSE "mkdir", ![r].n = 1]
    /\ UNCHANGED <<repo, lock, autoCreate, trouble>>

\* HEAD stands for a repository that git init has finished.
Stat(r) ==
    /\ req[r].pc = "stat"
    /\ req' = [req EXCEPT ![r].pc = IF repo.head THEN "config" ELSE "mkdir", ![r].n = 1]
    /\ UNCHANGED <<repo, lock, autoCreate, trouble>>

MkDir(r) ==
    /\ req[r].pc = "mkdir"
    /\ repo' = [repo EXCEPT !.dir = TRUE]
    /\ Goto(r, "init")
    /\ UNCHANGED <<lock, autoCreate, trouble>>

\* git init makes HEAD, then its config, then the objects.
InitHead(r) ==
    /\ req[r].pc = "init"
    /\ repo' = [repo EXCEPT !.dir = TRUE, !.head = TRUE]
    /\ req' = [req EXCEPT ![r].pc = "core", ![r].n = Core]
    /\ UNCHANGED <<lock, autoCreate, trouble>>

InitObjects(r) ==
    /\ req[r].pc = "objects"
    /\ IF repo.dir
       THEN /\ repo' = [repo EXCEPT !.objects = TRUE]
            /\ req' = [req EXCEPT ![r].pc = "config", ![r].n = 1]
       ELSE End(r, "failed") /\ UNCHANGED repo
    /\ UNCHANGED <<lock, autoCreate, trouble>>

\* git does not wait for the lock of its config; git config wants a repository.
LockConfig(r) ==
    /\ req[r].pc \in {"core", "config"}
    /\ IF lock = None /\ repo.dir /\ (req[r].pc = "config" => IsRepository)
       THEN lock' = r /\ Goto(r, "locked")
       ELSE End(r, "failed") /\ UNCHANGED lock
    /\ UNCHANGED <<repo, autoCreate, trouble>>

AfterSetting(n) == CASE n = Core -> "objects" [] n = Settings -> "hook" [] OTHER -> "config"

\* The lock becomes the config, unless somebody has removed it.
StoreConfig(r) ==
    /\ req[r].pc = "locked"
    /\ IF lock = r
       THEN /\ repo' = [repo EXCEPT !.config = @ \cup {req[r].n}]
            /\ lock' = None
            /\ req' = [req EXCEPT ![r].pc = AfterSetting(req[r].n),
                                  ![r].n = IF @ = Settings THEN 0 ELSE @ + 1]
       ELSE End(r, "failed") /\ UNCHANGED <<repo, lock>>
    /\ UNCHANGED <<autoCreate, trouble>>

NextPhase(r) == IF req[r].phase = "pre-receive"
                THEN req' = [req EXCEPT ![r].pc = "hook", ![r].phase = "post-receive"]
                ELSE req' = [req EXCEPT ![r].pc = "serve", ![r].phase = "pre-receive"]

\* Mutant: a hook that is there is left alone.
TruncateMissing(r) ==
    /\ req[r].pc = "hook"
    /\ IF repo.hook[req[r].phase] # "none" THEN NextPhase(r) /\ UNCHANGED repo
       ELSE /\ repo' = [repo EXCEPT !.dir = TRUE, !.hook[req[r].phase] = "empty"]
            /\ Goto(r, "write")
    /\ UNCHANGED <<lock, autoCreate, trouble>>

\* Each hook is written where it is; the directory is made before the first.
TruncateHook(r) ==
    /\ req[r].pc = "hook"
    /\ IF req[r].phase = "post-receive" /\ ~Present("hooks")
       THEN End(r, "failed") /\ UNCHANGED repo
       ELSE /\ repo' = [repo EXCEPT !.dir = TRUE, !.hook[req[r].phase] = "empty"]
            /\ Goto(r, "write")
    /\ UNCHANGED <<lock, autoCreate, trouble>>

WriteHook(r) ==
    /\ req[r].pc = "write"
    /\ repo' = [repo EXCEPT !.hook[req[r].phase] = IF @ = "none" THEN @ ELSE "whole"]
    /\ NextPhase(r)
    /\ UNCHANGED <<lock, autoCreate, trouble>>

Leave(r, way, told) ==
    /\ req[r].pc = "serve" /\ req[r].way = way
    /\ End(r, told)
    /\ UNCHANGED <<repo, lock, autoCreate, trouble>>

Served == IF IsRepository THEN "served" ELSE "failed"

\* git-http-backend, git-receive-pack or git-upload-pack take over, and
\* `kranq repo create` has done its work.
Backend(r) == Leave(r, "http", Served)
Exec(r) == Leave(r, "ssh", Served)
Created(r) == Leave(r, "create", "served")

-----------------------------------------------------------------------------
(* `kranq repo rm`, in the order in which the directory is read *)

Disturb(r, new) == req' = [q \in Requests |-> IF q = r THEN new
                                              ELSE [req[q] EXCEPT !.upset = @ \/ Active(q)]]

RemovePart(r) ==
    /\ req[r].pc = "rm"
    /\ \E part \in req[r].left :
           /\ repo' = CASE part = "head"    -> [repo EXCEPT !.head = FALSE]
                        [] part = "objects" -> [repo EXCEPT !.objects = FALSE]
                        [] part = "config"  -> [repo EXCEPT !.config = {}]
                        [] part = "hooks"   -> [repo EXCEPT !.hook = Nothing.hook]
                        [] OTHER -> repo
           /\ lock' = IF part = "lock" THEN None ELSE lock
           /\ Disturb(r, [req[r] EXCEPT !.left = @ \ {part}])
    /\ UNCHANGED <<autoCreate, trouble>>

\* What somebody has put there since stays, and the command fails.
RemoveDir(r) ==
    /\ req[r].pc = "rm" /\ req[r].left = {}
    /\ LET empty == \A part \in Parts : ~Present(part)
       IN  /\ repo' = [repo EXCEPT !.dir = ~empty]
           /\ Disturb(r, Answered(IF empty THEN "served" ELSE "failed"))
    /\ UNCHANGED <<lock, autoCreate, trouble>>

\* A client hangs up, which kills the git command that runs for it, or the whole
\* process goes; a git config that survives it stores its setting.
Killed(r) ==
    /\ Active(r) /\ trouble < MaxTrouble
    /\ trouble' = trouble + 1
    /\ \/ lock = r /\ lock' = Stale /\ UNCHANGED repo
       \/ lock = r /\ lock' = None /\ repo' = [repo EXCEPT !.config = @ \cup {req[r].n}]
       \/ lock # r /\ UNCHANGED <<lock, repo>>
    /\ Disturb(r, Idle)
    /\ UNCHANGED autoCreate

Ensure(r) == \/ Stat(r) \/ MkDir(r) \/ InitHead(r) \/ InitObjects(r) \/ LockConfig(r)
             \/ StoreConfig(r) \/ TruncateHook(r) \/ WriteHook(r)

Next == \E r \in Requests :
            \/ HTTP(r) \/ GitReceive(r) \/ RepoCreate(r) \/ RepoRemove(r)
            \/ Check(r) \/ Ensure(r) \/ Backend(r) \/ Exec(r) \/ Created(r)
            \/ RemovePart(r) \/ RemoveDir(r) \/ Killed(r)

Spec == Init /\ [][Next]_vars

-----------------------------------------------------------------------------
(* Properties *)

Rewrites(q, phase) == req[q].pc = "write" /\ req[q].phase = phase

\* What git is given to serve is a repository with kranq's settings and with its
\* hooks, whatever earlier requests left unfinished: a push is not accepted with
\* no run, or refused for a setting.  Excepted are a hook that another request
\* rewrites at this moment, and a removal or a kill meanwhile (Ensure).
ServedIsReady ==
    \A r \in Requests : req[r].pc = "serve" /\ ~req[r].upset =>
        /\ IsRepository /\ 1..Settings \subseteq repo.config
        /\ \A phase \in Phases :
               repo.hook[phase] = "whole" \/ \E q \in Requests \ {r} : Rewrites(q, phase)

\* A request fails only because another one was in its way, or because of what
\* nobody repairs; one after another, they all succeed (Ensure).
FailsForCause ==
    [][\A r \in Requests :
           (Active(r) /\ req'[r].told = "failed") => ~req[r].alone \/ req[r].upset \/ Broken]_vars

=============================================================================
