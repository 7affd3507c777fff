--------------------------- MODULE EndpointProofs ---------------------------
(***************************************************************************)
(* Theorems about the requests for a repository of the git endpoint, for   *)
(* any number of requests, of settings and of kills.                       *)
(***************************************************************************)
EXTENDS Endpoint, TLAPS

-----------------------------------------------------------------------------
(* The inductive invariant.                                                *)

Reqs == [pc : {"idle", "check", "stat", "mkdir", "init", "core", "objects",
               "config", "locked", "hook", "write", "serve", "rm"},
         way : {"none", "http", "ssh", "create", "rm"},
         n : AllSettings, phase : Phases, left : SUBSET Parts,
         alone : BOOLEAN, upset : BOOLEAN,
         told : {"none", "served", "failed", "refused"}]

\* What is in a request while it is under way.
WayInv(r) ==
    /\ Active(r) => req[r].told = "none"
    /\ req[r].pc = "rm" <=> req[r].way = "rm"
    /\ req[r].pc \notin {"hook", "write"} => req[r].phase = "pre-receive"

\* Who is alone is, and no request goes on undisturbed beside a removal.
AloneInv(r) ==
    \A q \in Requests \ {r} : Active(r) /\ Active(q) =>
        /\ ~req[r].alone
        /\ req[q].pc = "rm" => req[r].upset

\* Nothing is in the way of a removal that is alone but what it has seen.
LeftInv(r) ==
    req[r].pc = "rm" /\ req[r].alone =>
        \A part \in Parts : Present(part) => part \in req[r].left

\* A hook that one request has put there may be rewritten by another.
Hooked(r, phase) ==
    /\ repo.hook[phase] # "none"
    /\ repo.hook[phase] = "whole" \/ \E q \in Requests \ {r} : Rewrites(q, phase)

\* How far the repository is when a request that nobody disturbed is that far.
Initialised == {"core", "objects", "config", "locked", "hook", "write", "serve"}

ReadyInv(r) ==
    ~req[r].upset =>
        /\ req[r].pc \in Initialised => repo.dir /\ repo.head
        /\ req[r].pc = "core" => req[r].n = Core
        /\ req[r].pc = "config" =>
               req[r].n # Core /\ \A n \in 1..Settings : n < req[r].n => n \in repo.config
        /\ req[r].pc = "locked" =>
               /\ lock = r
               /\ req[r].n # Core =>
                      /\ repo.objects
                      /\ \A n \in 1..Settings : n < req[r].n => n \in repo.config
        /\ req[r].pc \in {"hook", "write", "serve"} =>
               repo.objects /\ 1..Settings \subseteq repo.config
        /\ req[r].pc \in {"hook", "write"} /\ req[r].phase = "post-receive" =>
               Hooked(r, "pre-receive")
        /\ req[r].pc = "write" => repo.hook[req[r].phase] # "none"
        /\ req[r].pc = "serve" => \A phase \in Phases : Hooked(r, phase)

IInv == /\ TypeOK
        /\ \A r \in Requests : WayInv(r) /\ AloneInv(r) /\ LeftInv(r) /\ ReadyInv(r)

-----------------------------------------------------------------------------
(* What requests and the repository look like.                             *)

Repos == [dir : BOOLEAN, head : BOOLEAN, objects : BOOLEAN, config : SUBSET AllSettings,
          hook : [Phases -> {"none", "empty", "whole"}]]

\* What the invariant says of the types.
LEMMA TypeFacts ==
    ASSUME IInv
    PROVE  /\ req \in [Requests -> Reqs] /\ repo \in Repos
           /\ lock \in Requests \cup {None, Stale}
           /\ lock \in Requests => req[lock].pc = "locked"
           /\ ~repo.dir => /\ ~repo.head /\ ~repo.objects /\ repo.config = {} /\ lock = None
                           /\ \A phase \in Phases : repo.hook[phase] = "none"
<1>1. TypeOK
  BY DEF IInv
<1>2. \A part \in Parts : ~repo.dir => ~Present(part)
  BY <1>1 DEF TypeOK
<1>3. ~repo.dir => ~Present("head") /\ ~Present("objects") /\ ~Present("config")
                   /\ ~Present("lock") /\ ~Present("hooks")
  BY <1>2 DEF Parts
<1> QED  BY <1>1, <1>3 DEF TypeOK, Reqs, Repos, Present

\* An empty directory has none of the parts.
LEMMA EmptyFacts ==
    ASSUME ~repo.head, ~repo.objects, repo.config = {}, lock = None,
           \A phase \in Phases : repo.hook[phase] = "none"
    PROVE  \A part \in Parts : ~Present(part)
<1> QED  BY DEF Present, Parts

\* What a request is when it has been answered.
LEMMA IdleFacts ==
    /\ Idle \in Reqs /\ Idle.pc = "idle" /\ Idle.way = "none" /\ Idle.phase = "pre-receive"
    /\ ~Idle.upset
    /\ \A told \in {"none", "served", "failed", "refused"} :
           /\ Answered(told) \in Reqs /\ Answered(told).pc = "idle"
           /\ Answered(told).way = "none" /\ Answered(told).phase = "pre-receive"
           /\ Answered(told).told = told
<1>1. Core \in AllSettings
  BY SettingsAssumption DEF AllSettings, Core
<1>2. Idle \in Reqs
  BY <1>1, SettingsAssumption DEF Idle, Reqs, Phases, AllSettings, Core
<1>3. \A told \in {"none", "served", "failed", "refused"} :
          Answered(told) \in Reqs /\ Answered(told).told = told
  BY <1>2 DEF Answered, Reqs
<1> QED  BY <1>2, <1>3 DEF Idle, Answered

-----------------------------------------------------------------------------
(* A step that takes nothing from the other requests.                      *)

\* The repository grows, and a hook is whole until r rewrites it.
Grows(r) ==
    /\ (repo.dir => repo'.dir) /\ (repo.head => repo'.head) /\ (repo.objects => repo'.objects)
    /\ repo.config \subseteq repo'.config
    /\ \A phase \in Phases :
           /\ repo.hook[phase] # "none" => repo'.hook[phase] # "none"
           /\ repo.hook[phase] = "whole" => repo'.hook[phase] = "whole" \/ Rewrites(r, phase)'
           /\ Rewrites(r, phase) /\ repo.hook[phase] # "none" =>
                  repo'.hook[phase] = "whole" \/ Rewrites(r, phase)'

\* A hook that another request can count on stays one.
LEMMA HookedKept ==
    ASSUME NEW r \in Requests, NEW q \in Requests \ {r}, NEW phase \in Phases, Grows(r),
           \A p \in Requests \ {r} : req'[p] = req[p], Hooked(q, phase)
    PROVE  Hooked(q, phase)'
<1>1. repo'.hook[phase] # "none"
  BY DEF Grows, Hooked
<1>2. CASE repo.hook[phase] = "whole"
  BY <1>1, <1>2 DEF Grows, Hooked
<1>3. CASE \E p \in Requests \ {q} : Rewrites(p, phase)
  <2> PICK p \in Requests \ {q} : Rewrites(p, phase)
    BY <1>3
  <2>1. CASE p = r
    BY <1>1, <2>1 DEF Grows, Hooked
  <2>2. CASE p # r
    <3>1. Rewrites(p, phase)'
      BY <2>2 DEF Rewrites
    <3> QED  BY <1>1, <3>1 DEF Hooked
  <2> QED  BY <2>1, <2>2
<1> QED  BY <1>2, <1>3 DEF Hooked

\* Another request is as far as it was.
LEMMA ReadyKept ==
    ASSUME IInv, NEW r \in Requests, NEW q \in Requests \ {r}, Grows(r),
           \A p \in Requests \ {r} : req'[p] = req[p], lock = q => lock' = q
    PROVE  ReadyInv(q)'
<1> SUFFICES ASSUME ~req[q].upset PROVE ReadyInv(q)'
  BY DEF ReadyInv
<1>1. ReadyInv(q) /\ req'[q] = req[q]
  BY DEF IInv
<1>2. \A phase \in Phases : Hooked(q, phase) => Hooked(q, phase)'
  BY HookedKept
<1>3. /\ req[q].pc \in Initialised => repo'.dir /\ repo'.head
      /\ req[q].pc = "core" => req[q].n = Core
      /\ req[q].pc = "config" =>
             req[q].n # Core /\ \A n \in 1..Settings : n < req[q].n => n \in repo'.config
  BY <1>1 DEF ReadyInv, Grows
<1>4. req[q].pc = "locked" =>
          /\ lock' = q
          /\ req[q].n # Core =>
                 /\ repo'.objects
                 /\ \A n \in 1..Settings : n < req[q].n => n \in repo'.config
  BY <1>1 DEF ReadyInv, Grows
<1>5. req[q].pc \in {"hook", "write", "serve"} =>
          repo'.objects /\ 1..Settings \subseteq repo'.config
  BY <1>1 DEF ReadyInv, Grows
<1>6. req[q].pc \in {"hook", "write"} /\ req[q].phase = "post-receive" =>
          Hooked(q, "pre-receive")'
  BY <1>1, <1>2 DEF ReadyInv, Phases
<1>7. req[q].pc = "write" => repo'.hook[req[q].phase] # "none"
  <2>1. req[q].phase \in Phases
    BY TypeFacts DEF Reqs
  <2> QED  BY <1>1, <2>1 DEF ReadyInv, Grows
<1>8. req[q].pc = "serve" => \A phase \in Phases : Hooked(q, phase)'
  BY <1>1, <1>2 DEF ReadyInv
<1> QED  BY <1>1, <1>3, <1>4, <1>5, <1>6, <1>7, <1>8 DEF ReadyInv

\* The invariant, when one request has gone on or is answered.
LEMMA StepKept ==
    ASSUME IInv, NEW r \in Requests, NEW new \in Reqs, req' = [req EXCEPT ![r] = new],
           Active(r), req[r].pc # "rm", Grows(r), TypeOK',
           \A q \in Requests \ {r} : lock = q => lock' = q,
           new.pc = "idle" \/ /\ new.pc # "rm" /\ new.way = req[r].way /\ new.told = "none"
                              /\ new.alone = req[r].alone /\ new.upset = req[r].upset,
           new.pc = "idle" => new.way = "none",
           new.pc \notin {"hook", "write"} => new.phase = "pre-receive",
           ReadyInv(r)'
    PROVE  IInv'
<1>1. req'[r] = new /\ \A q \in Requests \ {r} : req'[q] = req[q]
  BY TypeFacts
<1>2. \A q \in Requests : WayInv(q) /\ AloneInv(q) /\ LeftInv(q)
  BY DEF IInv
<1>3. \A q \in Requests : WayInv(q)'
  BY <1>1, <1>2 DEF WayInv, Active
<1>4. \A q \in Requests : AloneInv(q)'
  BY <1>1, <1>2 DEF AloneInv, Active
<1>5. \A q \in Requests : LeftInv(q)'
  <2> SUFFICES ASSUME NEW q \in Requests, req'[q].pc = "rm", req'[q].alone PROVE FALSE
    BY DEF LeftInv
  <2>1. q # r /\ req'[q] = req[q]
    BY <1>1
  <2> QED  BY <1>2, <2>1 DEF AloneInv, Active
<1>6. \A q \in Requests \ {r} : ReadyInv(q)'
  BY <1>1, ReadyKept
<1> QED  BY <1>3, <1>4, <1>5, <1>6 DEF IInv

\* A request that is answered leaves everything as it is.
LEMMA EndKept ==
    ASSUME IInv, NEW r \in Requests, Active(r), req[r].pc \notin {"rm", "write"}, lock # r,
           NEW told \in {"none", "served", "failed", "refused"},
           End(r, told), UNCHANGED <<repo, lock, autoCreate, trouble>>
    PROVE  IInv'
<1> DEFINE new == Answered(told)
<1>1. /\ new \in Reqs /\ new.pc = "idle" /\ new.way = "none"
      /\ new.phase = "pre-receive"
  BY IdleFacts
<1>2. req' = [req EXCEPT ![r] = new]
  BY DEF End
<1> HIDE DEF new
<1>3. req'[r] = new /\ \A q \in Requests \ {r} : req'[q] = req[q]
  BY <1>2, TypeFacts
<1>4. TypeOK'
  <2>1. req' \in [Requests -> Reqs]
    BY <1>1, <1>2, TypeFacts
  <2>2. lock' \in Requests => req'[lock'].pc = "locked"
    BY <1>3, TypeFacts
  <2> QED  BY <2>1, <2>2 DEF IInv, TypeOK, Reqs, Present
<1>5. Grows(r)
  BY DEF Grows, Rewrites
<1>6. ReadyInv(r)'
  BY <1>1, <1>3 DEF ReadyInv, Initialised
<1> QED  BY <1>1, <1>2, <1>4, <1>5, <1>6, StepKept

-----------------------------------------------------------------------------
(* Every operation of Ensure keeps the invariant.                          *)

\* Where a request goes on to.
Places == {"check", "stat", "mkdir", "init", "core", "objects", "config", "locked", "hook",
           "write", "serve"}

\* What a request is that goes on.
Onward(old, new, pc, n, phase) ==
    /\ new \in Reqs /\ new.pc = pc /\ new.n = n /\ new.phase = phase
    /\ new.way = old.way /\ new.told = old.told /\ new.left = old.left
    /\ new.alone = old.alone /\ new.upset = old.upset

\* The record of a request that goes on.
LEMMA OnFacts ==
    ASSUME NEW old \in Reqs, NEW pc \in Places, NEW n \in AllSettings, NEW phase \in Phases
    PROVE  Onward(old, [old EXCEPT !.pc = pc, !.n = n, !.phase = phase], pc, n, phase)
<1> QED  BY DEF Reqs, Places, Onward

GoesOn(r, pc, n, phase) ==
    req' = [req EXCEPT ![r] = [req[r] EXCEPT !.pc = pc, !.n = n, !.phase = phase]]

\* The same of the request in its place, the others being as they were.
LEMMA Became ==
    ASSUME IInv, NEW r \in Requests, NEW pc \in Places, NEW n \in AllSettings,
           NEW phase \in Phases,
           GoesOn(r, pc, n, phase)
    PROVE  /\ Onward(req[r], req'[r], pc, n, phase)
           /\ \A q \in Requests \ {r} : req'[q] = req[q]
<1> DEFINE new == [req[r] EXCEPT !.pc = pc, !.n = n, !.phase = phase]
<1>1. Onward(req[r], new, pc, n, phase)
  BY TypeFacts, OnFacts
<1>2. req' = [req EXCEPT ![r] = new]
  BY DEF GoesOn
<1> HIDE DEF new
<1> QED  BY <1>1, <1>2, TypeFacts

\* The invariant, when one request has gone on.
LEMMA OnKept ==
    ASSUME IInv, NEW r \in Requests, Active(r), req[r].pc # "rm",
           NEW pc \in Places, NEW n \in AllSettings, NEW phase \in Phases,
           pc \notin {"hook", "write"} => phase = "pre-receive",
           GoesOn(r, pc, n, phase),
           Grows(r), repo' \in Repos, UNCHANGED <<autoCreate, trouble>>,
           lock' \in {lock, r, None}, lock' = r <=> pc = "locked",
           \A q \in Requests \ {r} : lock = q => lock' = q,
           ~repo'.dir => /\ ~repo'.head /\ ~repo'.objects /\ repo'.config = {} /\ lock' = None
                         /\ \A p \in Phases : repo'.hook[p] = "none",
           ReadyInv(r)'
    PROVE  IInv'
<1> DEFINE new == [req[r] EXCEPT !.pc = pc, !.n = n, !.phase = phase]
<1>0. Onward(req[r], new, pc, n, phase)
  BY TypeFacts, OnFacts
<1>2. req' = [req EXCEPT ![r] = new]
  BY DEF GoesOn
<1> HIDE DEF new
<1>1. /\ new \in Reqs /\ new.pc = pc /\ new.n = n /\ new.phase = phase
      /\ new.way = req[r].way /\ new.told = req[r].told /\ new.left = req[r].left
      /\ new.alone = req[r].alone /\ new.upset = req[r].upset
  BY <1>0 DEF Onward
<1>3. req'[r] = new /\ \A q \in Requests \ {r} : req'[q] = req[q]
  BY <1>2, TypeFacts
<1>4. req[r].told = "none"
  BY DEF IInv, WayInv
<1>5. TypeOK'
  <2>1. req' \in [Requests -> Reqs]
    BY <1>1, <1>2, TypeFacts
  <2>2. lock' \in Requests \cup {None, Stale}
    BY TypeFacts
  <2>3. lock' \in Requests => req'[lock'].pc = "locked"
    BY <1>1, <1>3, TypeFacts, DistinctAssumption
  <2>4. ~repo'.dir => \A part \in Parts : ~Present(part)'
    BY DEF Present, Parts
  <2> QED  BY <2>1, <2>2, <2>3, <2>4 DEF IInv, TypeOK, Reqs, Repos
<1>6. /\ new.pc # "rm" /\ new.pc # "idle"
      /\ new.way = req[r].way /\ new.told = "none"
      /\ new.alone = req[r].alone /\ new.upset = req[r].upset
      /\ new.pc \notin {"hook", "write"} => new.phase = "pre-receive"
  BY <1>1, <1>4 DEF Places
<1> QED  BY <1>1, <1>2, <1>5, <1>6, StepKept

\* The repository is as it was.
LEMMA SameGrows ==
    ASSUME IInv, NEW r \in Requests, req[r].pc # "write", UNCHANGED repo
    PROVE  /\ Grows(r) /\ repo' \in Repos
           /\ ~repo'.dir => /\ ~repo'.head /\ ~repo'.objects /\ repo'.config = {} /\ lock = None
                            /\ \A p \in Phases : repo'.hook[p] = "none"
<1> QED  BY TypeFacts DEF Grows, Rewrites

\* Where a request is in its fields, written out.
LEMMA Written ==
    ASSUME IInv, NEW r \in Requests, NEW pc
    PROVE  /\ [req[r] EXCEPT !.pc = pc]
                  = [req[r] EXCEPT !.pc = pc, !.n = req[r].n, !.phase = req[r].phase]
           /\ \A n : [req[r] EXCEPT !.pc = pc, !.n = n]
                         = [req[r] EXCEPT !.pc = pc, !.n = n, !.phase = req[r].phase]
           /\ \A phase : [req[r] EXCEPT !.pc = pc, !.phase = phase]
                             = [req[r] EXCEPT !.pc = pc, !.n = req[r].n, !.phase = phase]
<1>1. req[r] \in Reqs
  BY TypeFacts
<1> QED  BY <1>1 DEF Reqs

\* The fields of a request before a step.
LEMMA ReqFacts ==
    ASSUME IInv, NEW r \in Requests
    PROVE  /\ req[r] \in Reqs /\ req[r].n \in AllSettings /\ req[r].phase \in Phases
           /\ req[r].pc \notin {"hook", "write"} => req[r].phase = "pre-receive"
           /\ lock = r => req[r].pc = "locked"
           /\ lock # None /\ None \notin Requests /\ Stale \notin Requests => repo.dir
           /\ None \notin Requests /\ Stale \notin Requests /\ None # Stale
           /\ 1 \in AllSettings /\ Core \in AllSettings
<1> QED  BY TypeFacts, DistinctAssumption, SettingsAssumption
         DEF IInv, WayInv, Reqs, AllSettings, Core

\* An ssh request may be refused.
LEMMA CheckKept ==
    ASSUME IInv, NEW r \in Requests, Check(r)
    PROVE  IInv'
<1>1. req[r].pc = "check" /\ Active(r) /\ UNCHANGED <<repo, lock, autoCreate, trouble>>
  BY DEF Check, Active
<1>2. CASE End(r, "refused")
  BY <1>1, <1>2, ReqFacts, EndKept
<1>3. CASE Goto(r, "stat")
  <2>1. GoesOn(r, "stat", req[r].n, req[r].phase)
    BY <1>3, TypeFacts, Written DEF Goto, GoesOn
  <2>2. ReadyInv(r)'
    BY <2>1, Became, ReqFacts DEF Onward, Places, ReadyInv, Initialised
  <2> QED  BY <1>1, <2>1, <2>2, SameGrows, ReqFacts, OnKept DEF Places
<1> QED  BY <1>2, <1>3 DEF Check

\* The repository is there, or has to be made.
LEMMA StatKept ==
    ASSUME IInv, NEW r \in Requests, Stat(r)
    PROVE  IInv'
<1> DEFINE pc == IF repo.head THEN "config" ELSE "mkdir"
<1>1. req[r].pc = "stat" /\ Active(r) /\ UNCHANGED <<repo, lock, autoCreate, trouble>>
  BY DEF Stat, Active
<1>2. GoesOn(r, pc, 1, req[r].phase)
  BY TypeFacts, Written DEF Stat, GoesOn
<1>3. (pc = "config" /\ repo.head) \/ pc = "mkdir"
  OBVIOUS
<1> HIDE DEF pc
<1>4. req'[r].pc = pc /\ req'[r].n = 1
  BY <1>2, <1>3, Became, ReqFacts DEF Onward, Places
<1>5. ReadyInv(r)'
  BY <1>1, <1>3, <1>4, TypeFacts DEF ReadyInv, Initialised, Core
<1> QED  BY <1>1, <1>2, <1>3, <1>5, SameGrows, ReqFacts, OnKept DEF Places

\* The directory is made.
LEMMA MkDirKept ==
    ASSUME IInv, NEW r \in Requests, MkDir(r)
    PROVE  IInv'
<1>1. /\ req[r].pc = "mkdir" /\ Active(r) /\ UNCHANGED <<lock, autoCreate, trouble>>
      /\ repo' = [repo EXCEPT !.dir = TRUE]
  BY DEF MkDir, Active
<1>2. GoesOn(r, "init", req[r].n, req[r].phase)
  BY TypeFacts, Written DEF MkDir, Goto, GoesOn
<1>3. repo' \in Repos /\ repo'.dir /\ UNCHANGED <<repo.head, repo.objects, repo.config, repo.hook>>
  BY <1>1, TypeFacts DEF Repos
<1>4. Grows(r)
  BY <1>1, <1>3 DEF Grows, Rewrites
<1>5. req'[r].pc = "init"
  BY <1>2, Became, ReqFacts DEF Onward, Places
<1>6. ReadyInv(r)'
  BY <1>5 DEF ReadyInv, Initialised
<1> QED  BY <1>1, <1>2, <1>3, <1>4, <1>6, ReqFacts, OnKept DEF Places

\* git init writes HEAD.
LEMMA InitHeadKept ==
    ASSUME IInv, NEW r \in Requests, InitHead(r)
    PROVE  IInv'
<1>1. /\ req[r].pc = "init" /\ Active(r) /\ UNCHANGED <<lock, autoCreate, trouble>>
      /\ repo' = [repo EXCEPT !.dir = TRUE, !.head = TRUE]
  BY DEF InitHead, Active
<1>2. GoesOn(r, "core", Core, req[r].phase)
  BY TypeFacts, Written DEF InitHead, GoesOn
<1>3. /\ repo' \in Repos /\ repo'.dir /\ repo'.head
      /\ UNCHANGED <<repo.objects, repo.config, repo.hook>>
  BY <1>1, TypeFacts DEF Repos
<1>4. Grows(r)
  BY <1>1, <1>3 DEF Grows, Rewrites
<1>5. req'[r].pc = "core" /\ req'[r].n = Core
  BY <1>2, Became, ReqFacts DEF Onward, Places
<1>6. ReadyInv(r)'
  BY <1>3, <1>5 DEF ReadyInv, Initialised
<1> QED  BY <1>1, <1>2, <1>3, <1>4, <1>6, ReqFacts, OnKept DEF Places

\* git init makes the objects.
LEMMA InitObjectsKept ==
    ASSUME IInv, NEW r \in Requests, InitObjects(r)
    PROVE  IInv'
<1>1. req[r].pc = "objects" /\ Active(r) /\ UNCHANGED <<lock, autoCreate, trouble>>
  BY DEF InitObjects, Active
<1>2. CASE End(r, "failed") /\ UNCHANGED repo
  BY <1>1, <1>2, ReqFacts, EndKept
<1>3. CASE /\ repo.dir /\ repo' = [repo EXCEPT !.objects = TRUE]
           /\ req' = [req EXCEPT ![r].pc = "config", ![r].n = 1]
  <2>2. GoesOn(r, "config", 1, req[r].phase)
    BY <1>3, TypeFacts, Written DEF GoesOn
  <2>3. /\ repo' \in Repos /\ repo'.dir /\ repo'.objects
        /\ UNCHANGED <<repo.dir, repo.head, repo.config, repo.hook>>
    BY <1>3, TypeFacts DEF Repos
  <2>4. Grows(r)
    BY <1>1, <2>3 DEF Grows, Rewrites
  <2>5. req'[r].pc = "config" /\ req'[r].n = 1 /\ req'[r].upset = req[r].upset
    BY <2>2, Became, ReqFacts DEF Onward, Places
  <2>6. ReadyInv(r)'
    BY <1>1, <2>3, <2>5 DEF IInv, ReadyInv, Initialised, Core
  <2> QED  BY <1>1, <2>2, <2>3, <2>4, <2>6, ReqFacts, OnKept DEF Places
<1> QED  BY <1>2, <1>3 DEF InitObjects

\* git config takes its lock, or fails if another has it.
LEMMA LockConfigKept ==
    ASSUME IInv, NEW r \in Requests, LockConfig(r)
    PROVE  IInv'
<1>1. /\ req[r].pc \in {"core", "config"} /\ Active(r)
      /\ UNCHANGED <<repo, autoCreate, trouble>>
  BY DEF LockConfig, Active
<1>2. CASE End(r, "failed") /\ UNCHANGED lock
  <2>1. lock # r /\ req[r].pc \notin {"rm", "write"}
    BY <1>1, ReqFacts
  <2> QED  BY <1>1, <1>2, <2>1, EndKept
<1>3. CASE /\ lock = None /\ repo.dir /\ (req[r].pc = "config" => IsRepository)
           /\ lock' = r /\ Goto(r, "locked")
  <2>1. GoesOn(r, "locked", req[r].n, req[r].phase)
    BY <1>3, TypeFacts, Written DEF Goto, GoesOn
  <2>2. req'[r].pc = "locked" /\ req'[r].n = req[r].n /\ req'[r].upset = req[r].upset
    BY <2>1, Became, ReqFacts DEF Onward, Places
  <2>3. ReadyInv(r)'
    <3> SUFFICES ASSUME ~req[r].upset PROVE ReadyInv(r)'
      BY <2>2 DEF ReadyInv
    <3>1. ReadyInv(r)
      BY DEF IInv
    <3> QED  BY <1>1, <1>3, <2>2, <3>1 DEF ReadyInv, Initialised, IsRepository
  <2>4. /\ Grows(r) /\ repo' \in Repos /\ repo'.dir /\ req[r].pc # "rm"
        /\ req[r].phase = "pre-receive" /\ None \notin Requests
    BY <1>1, <1>3, SameGrows, ReqFacts
  <2> QED  BY <1>1, <1>3, <2>1, <2>3, <2>4, ReqFacts, OnKept DEF Places
<1> QED  BY <1>2, <1>3 DEF LockConfig

\* What follows the settings that have been made.
LEMMA AfterFacts ==
    ASSUME NEW n \in AllSettings
    PROVE  LET next == IF n = Settings THEN 0 ELSE n + 1
           IN  /\ AfterSetting(n) \in Places /\ next \in AllSettings
               /\ \/ n = Core /\ AfterSetting(n) = "objects"
                  \/ n = Settings /\ AfterSetting(n) = "hook"
                  \/ n \in 1..(Settings - 1) /\ AfterSetting(n) = "config" /\ next = n + 1
<1> QED  BY SettingsAssumption DEF AfterSetting, AllSettings, Places, Core

\* git config renames its lock over the config.
LEMMA StoreConfigKept ==
    ASSUME IInv, NEW r \in Requests, StoreConfig(r)
    PROVE  IInv'
<1>1. req[r].pc = "locked" /\ Active(r) /\ UNCHANGED <<autoCreate, trouble>>
  BY DEF StoreConfig, Active
<1>2. CASE lock # r /\ End(r, "failed") /\ UNCHANGED <<repo, lock>>
  BY <1>1, <1>2, EndKept
<1>3. CASE lock = r
  <2> DEFINE n == req[r].n
             next == IF n = Settings THEN 0 ELSE n + 1
             pc == AfterSetting(n)
  <2>1. /\ repo' = [repo EXCEPT !.config = @ \cup {n}] /\ lock' = None
        /\ GoesOn(r, pc, next, req[r].phase)
    <3>1. req' = [req EXCEPT ![r] = [req[r] EXCEPT !.pc = pc, !.n = next]]
      BY <1>3, TypeFacts DEF StoreConfig
    <3> QED  BY <1>3, <3>1, Written DEF StoreConfig, GoesOn
  <2>2. /\ pc \in Places /\ next \in AllSettings /\ n \in AllSettings
        /\ \/ n = Core /\ pc = "objects"
           \/ n = Settings /\ pc = "hook"
           \/ n \in 1..(Settings - 1) /\ pc = "config" /\ next = n + 1
    BY ReqFacts, AfterFacts
  <2> HIDE DEF n, next, pc
  <2>3. /\ repo' \in Repos /\ repo'.config = repo.config \cup {n}
        /\ UNCHANGED <<repo.dir, repo.head, repo.objects, repo.hook>>
    BY <2>1, <2>2, TypeFacts DEF Repos
  <2>4. /\ req'[r].pc = pc /\ req'[r].n = next /\ req'[r].upset = req[r].upset
        /\ req'[r].phase = "pre-receive" /\ req[r].phase = "pre-receive"
    BY <1>1, <2>1, <2>2, Became, ReqFacts DEF Onward
  <2>5. Grows(r)
    BY <1>1, <2>3 DEF Grows, Rewrites
  <2>6. repo.dir
    BY <1>3, ReqFacts
  <2>7. ReadyInv(r)'
    <3> SUFFICES ASSUME ~req[r].upset PROVE ReadyInv(r)'
      BY <2>4 DEF ReadyInv
    <3>1. /\ repo.dir /\ repo.head
          /\ n # Core => repo.objects /\ \A m \in 1..Settings : m < n => m \in repo.config
      BY <1>1 DEF IInv, ReadyInv, Initialised, n
    <3>2. CASE n = Core /\ pc = "objects"
      BY <2>3, <2>4, <3>1, <3>2 DEF ReadyInv, Initialised
    <3>3. CASE n = Settings /\ pc = "hook"
      <4>1. n # Core
        BY <3>3, SettingsAssumption DEF Core
      <4>2. 1..Settings \subseteq repo'.config
        BY <2>3, <3>1, <3>3, <4>1, SettingsAssumption
      <4> QED  BY <2>3, <2>4, <3>1, <3>3, <4>1, <4>2 DEF ReadyInv, Initialised
    <3>4. CASE n \in 1..(Settings - 1) /\ pc = "config" /\ next = n + 1
      <4>1. n # Core /\ next # Core
        BY <3>4, SettingsAssumption DEF Core
      <4>2. \A m \in 1..Settings : m < next => m \in repo'.config
        BY <2>3, <3>1, <3>4, <4>1, SettingsAssumption
      <4> QED  BY <2>3, <2>4, <3>1, <3>4, <4>1, <4>2 DEF ReadyInv, Initialised
    <3> QED  BY <2>2, <3>2, <3>3, <3>4
  <2>8. pc # "locked" /\ None \notin Requests /\ req[r].pc # "rm"
    BY <1>1, <2>2, ReqFacts
  <2>9. \A q \in Requests \ {r} : lock = q => lock' = q
    BY <1>3
  <2> QED  BY <1>1, <2>1, <2>2, <2>3, <2>4, <2>5, <2>6, <2>7, <2>8, <2>9, ReqFacts, OnKept
<1> QED  BY <1>2, <1>3 DEF StoreConfig

\* A hook is truncated.
LEMMA TruncateHookKept ==
    ASSUME IInv, NEW r \in Requests, TruncateHook(r)
    PROVE  IInv'
<1> DEFINE phase == req[r].phase
<1>1. req[r].pc = "hook" /\ Active(r) /\ UNCHANGED <<lock, autoCreate, trouble>>
  BY DEF TruncateHook, Active
<1>2. CASE End(r, "failed") /\ UNCHANGED repo
  BY <1>1, <1>2, ReqFacts, EndKept
<1>3. CASE /\ repo' = [repo EXCEPT !.dir = TRUE, !.hook[phase] = "empty"]
           /\ Goto(r, "write")
  <2>1. GoesOn(r, "write", req[r].n, phase)
    BY <1>3, TypeFacts, Written DEF Goto, GoesOn
  <2>2. /\ phase \in Phases /\ lock # r
        /\ req[r].n \in AllSettings /\ req[r].pc # "rm"
    BY <1>1, ReqFacts
  <2> HIDE DEF phase
  <2>3. /\ repo' \in Repos /\ repo'.dir /\ repo'.hook[phase] = "empty"
        /\ UNCHANGED <<repo.head, repo.objects, repo.config>>
        /\ \A p \in Phases : p # phase => repo'.hook[p] = repo.hook[p]
    BY <1>3, <2>2, TypeFacts DEF Repos
  <2>4. /\ req'[r].pc = "write" /\ req'[r].upset = req[r].upset /\ req'[r].phase = phase
        /\ \A q \in Requests \ {r} : req'[q] = req[q]
    BY <2>1, <2>2, Became DEF Onward, Places
  <2>5. Grows(r)
    BY <1>1, <2>3, <2>4 DEF Grows, Rewrites
  <2>6. ReadyInv(r)'
    <3> SUFFICES ASSUME ~req[r].upset PROVE ReadyInv(r)'
      BY <2>4 DEF ReadyInv
    <3>1. /\ repo.head /\ repo.objects /\ 1..Settings \subseteq repo.config
          /\ phase = "post-receive" => Hooked(r, "pre-receive")
      BY <1>1 DEF IInv, ReadyInv, Initialised, phase
    <3>2. phase = "post-receive" => Hooked(r, "pre-receive")'
      BY <2>3, <2>4, <3>1 DEF Hooked, Rewrites, Phases
    <3> QED  BY <2>3, <2>4, <3>1, <3>2 DEF ReadyInv, Initialised
  <2> QED  BY <1>1, <2>1, <2>2, <2>3, <2>5, <2>6, OnKept DEF Places
<1> QED  BY <1>2, <1>3 DEF TruncateHook

\* A hook is written, and the next one follows.
LEMMA WriteHookKept ==
    ASSUME IInv, NEW r \in Requests, WriteHook(r)
    PROVE  IInv'
<1> DEFINE phase == req[r].phase
           pc == IF phase = "pre-receive" THEN "hook" ELSE "serve"
           next == IF phase = "pre-receive" THEN "post-receive" ELSE "pre-receive"
<1>1. /\ req[r].pc = "write" /\ Active(r) /\ UNCHANGED <<lock, autoCreate, trouble>>
      /\ repo' = [repo EXCEPT !.hook[phase] = IF @ = "none" THEN @ ELSE "whole"]
  BY DEF WriteHook, Active
<1>2. GoesOn(r, pc, req[r].n, next)
  <2>1. req' = [req EXCEPT ![r] = [req[r] EXCEPT !.pc = pc, !.phase = next]]
    <3>1. CASE phase = "pre-receive"
      BY <3>1, TypeFacts DEF WriteHook, NextPhase
    <3>2. CASE phase # "pre-receive"
      BY <3>2, TypeFacts DEF WriteHook, NextPhase
    <3> QED  BY <3>1, <3>2
  <2> QED  BY <2>1, Written DEF GoesOn
<1>3. /\ phase \in Phases /\ lock # r /\ req[r].n \in AllSettings /\ req[r].pc # "rm"
      /\ pc \in Places /\ next \in Phases /\ pc # "locked"
      /\ \/ phase = "pre-receive" /\ pc = "hook" /\ next = "post-receive"
         \/ phase = "post-receive" /\ pc = "serve" /\ next = "pre-receive"
  BY <1>1, ReqFacts DEF Phases, Places
<1>4. Rewrites(r, phase) /\ \A p \in Phases : Rewrites(r, p) => p = phase
  BY <1>1 DEF Rewrites
<1> HIDE DEF phase, pc, next
<1>5. /\ repo' \in Repos
      /\ UNCHANGED <<repo.dir, repo.head, repo.objects, repo.config>>
      /\ repo.hook[phase] = "none" => repo'.hook[phase] = "none"
      /\ repo.hook[phase] # "none" => repo'.hook[phase] = "whole"
      /\ \A p \in Phases : p # phase => repo'.hook[p] = repo.hook[p]
  BY <1>1, <1>3, TypeFacts DEF Repos
<1>6. /\ req'[r].pc = pc /\ req'[r].upset = req[r].upset /\ req'[r].phase = next
      /\ \A q \in Requests \ {r} : req'[q] = req[q]
  BY <1>2, <1>3, Became DEF Onward
<1>7. Grows(r)
  BY <1>4, <1>5 DEF Grows
<1>8. ReadyInv(r)'
  <2> SUFFICES ASSUME ~req[r].upset PROVE ReadyInv(r)'
    BY <1>6 DEF ReadyInv
  <2>1. /\ repo.dir /\ repo.head /\ repo.objects /\ 1..Settings \subseteq repo.config
        /\ phase = "post-receive" => Hooked(r, "pre-receive")
        /\ repo.hook[phase] # "none"
    BY <1>1 DEF IInv, ReadyInv, Initialised, phase
  <2>2. \A p \in Phases : p = phase => Hooked(r, p)'
    BY <1>5, <2>1 DEF Hooked
  <2>3. phase = "post-receive" => Hooked(r, "pre-receive")'
    BY <1>5, <1>6, <2>1 DEF Hooked, Rewrites, Phases
  <2>4. CASE phase = "pre-receive" /\ pc = "hook" /\ next = "post-receive"
    <3>1. Hooked(r, "pre-receive")'
      BY <2>2, <2>4 DEF Phases
    <3> QED  BY <1>5, <1>6, <2>1, <2>4, <3>1 DEF ReadyInv, Initialised
  <2>5. CASE phase = "post-receive" /\ pc = "serve" /\ next = "pre-receive"
    <3>1. \A p \in Phases : Hooked(r, p)'
      BY <2>2, <2>3, <2>5 DEF Phases
    <3> QED  BY <1>5, <1>6, <2>1, <2>5, <3>1 DEF ReadyInv, Initialised
  <2> QED  BY <1>3, <2>4, <2>5
<1>9. ~repo'.dir => /\ ~repo'.head /\ ~repo'.objects /\ repo'.config = {} /\ lock' = None
                    /\ \A p \in Phases : repo'.hook[p] = "none"
  BY <1>1, <1>5, TypeFacts
<1> QED  BY <1>1, <1>2, <1>3, <1>5, <1>7, <1>8, <1>9, OnKept

\* A request that was served leaves.
LEMMA LeaveKept ==
    ASSUME IInv, NEW r \in Requests, Backend(r) \/ Exec(r) \/ Created(r)
    PROVE  IInv'
<1>1. /\ req[r].pc = "serve" /\ Active(r) /\ UNCHANGED <<repo, lock, autoCreate, trouble>>
      /\ End(r, "served") \/ End(r, "failed")
  BY DEF Backend, Exec, Created, Leave, Served, Active
<1>2. lock # r /\ req[r].pc \notin {"rm", "write"}
  BY <1>1, ReqFacts
<1>3. CASE End(r, "served")
  BY <1>1, <1>2, <1>3, EndKept
<1>4. CASE End(r, "failed")
  BY <1>1, <1>2, <1>4, EndKept
<1> QED  BY <1>1, <1>3, <1>4

-----------------------------------------------------------------------------
(* A request arrives.                                                      *)

\* What an arriving request is.
Arrived(new, way, left, alone, upset, pc) ==
    /\ new \in Reqs /\ new.pc = pc /\ new.way = way /\ new.told = "none"
    /\ new.alone = alone /\ new.upset = upset /\ new.left = left
    /\ new.phase = "pre-receive"

\* What becomes of a request that another one joins or disturbs.
Altered(old, new, alone, upset) ==
    /\ new \in Reqs /\ new.pc = old.pc /\ new.way = old.way /\ new.n = old.n
    /\ new.phase = old.phase /\ new.left = old.left /\ new.told = old.told
    /\ new.alone = alone /\ new.upset = upset

\* A request arrives, alone or beside others.
LEMMA ArriveKept ==
    ASSUME IInv, NEW r \in Requests, NEW way \in {"http", "ssh", "create", "rm"},
           Arrive(r, way)
    PROVE  IInv'
<1> DEFINE others == {q \in Requests \ {r} : Active(q)}
           alone == others = {}
           upset == \E q \in others : req[q].way = "rm"
           pc == CASE way = "ssh" -> "check" [] way = "rm" -> "rm" [] OTHER -> "stat"
           left == IF way = "rm" THEN {part \in Parts : Present(part)} ELSE {}
           new == [Idle EXCEPT !.way = way, !.alone = alone, !.upset = upset,
                               !.pc = pc, !.left = left]
<1>1. /\ ~Active(r) /\ UNCHANGED <<repo, lock, autoCreate, trouble>>
      /\ req' = [q \in Requests |->
                    CASE q = r -> new
                      [] q \in others -> [req[q] EXCEPT !.alone = FALSE,
                                                        !.upset = @ \/ way = "rm"]
                      [] OTHER -> req[q]]
  BY DEF Arrive
<1>2. /\ alone \in BOOLEAN /\ upset \in BOOLEAN /\ pc \in {"check", "rm", "stat"}
      /\ left \in SUBSET Parts /\ (pc = "rm" <=> way = "rm")
      /\ pc = "rm" => left = {part \in Parts : Present(part)}
  OBVIOUS
<1>3. /\ new \in Reqs /\ new.pc = pc /\ new.way = way /\ new.told = "none"
      /\ new.alone = alone /\ new.upset = upset /\ new.left = left
      /\ new.phase = "pre-receive"
  <2> HIDE DEF alone, upset, pc, left
  <2>1. /\ alone \in BOOLEAN /\ upset \in BOOLEAN /\ pc \in {"check", "rm", "stat"}
        /\ left \in SUBSET Parts
    BY <1>2, Zenon
  <2>2. Idle \in Reqs /\ Idle.told = "none" /\ Idle.phase = "pre-receive"
    BY IdleFacts DEF Idle
  <2>3. Arrived(new, way, left, alone, upset, pc)
    BY <2>1, <2>2 DEF Reqs, Arrived
  <2> HIDE DEF new
  <2> QED  BY <2>3 DEF Arrived
<1>4. /\ alone => \A q \in Requests \ {r} : ~Active(q)
      /\ \A q \in Requests \ {r} : Active(q) /\ req[q].pc = "rm" => upset
  BY DEF IInv, WayInv
<1> HIDE DEF alone, upset, pc, left, new
<1>5. req'[r] = new
  BY <1>1
<1>6. ASSUME NEW q \in Requests \ {r}
      PROVE  /\ req'[q] \in Reqs /\ req'[q].pc = req[q].pc /\ req'[q].way = req[q].way
             /\ req'[q].n = req[q].n /\ req'[q].phase = req[q].phase
             /\ req'[q].left = req[q].left /\ req'[q].told = req[q].told
             /\ Active(q) => ~req'[q].alone /\ (way = "rm" => req'[q].upset)
             /\ req[q].upset => req'[q].upset
  <2>1. CASE q \in others
    <3> DEFINE up == req[q].upset \/ way = "rm"
    <3>1. req'[q] = [req[q] EXCEPT !.alone = FALSE, !.upset = up]
      BY <1>1, <2>1
    <3>2. req[q] \in Reqs /\ up \in BOOLEAN /\ (way = "rm" \/ req[q].upset => up)
      BY TypeFacts
    <3> HIDE DEF up
    <3>3. Altered(req[q], req'[q], FALSE, up)
      BY <3>1, <3>2 DEF Reqs, Altered
    <3> QED  BY <3>2, <3>3 DEF Altered
  <2>2. CASE q \notin others
    <3>1. req'[q] = req[q] /\ ~Active(q)
      BY <1>1, <2>2
    <3> QED  BY <3>1, TypeFacts
  <2> QED  BY <2>1, <2>2
<1>7. TypeOK'
  <2>1. req' \in [Requests -> Reqs]
    BY <1>1, <1>3, <1>5, <1>6
  <2>2. lock' \in Requests => req'[lock'].pc = "locked"
    <3>1. lock \in Requests => req[lock].pc = "locked" /\ lock # r
      BY <1>1, TypeFacts DEF Active
    <3>2. lock' = lock
      BY <1>1
    <3>3. \A q \in Requests \ {r} : req'[q].pc = req[q].pc
      BY <1>6
    <3> QED  BY <3>1, <3>2, <3>3
  <2> QED  BY <1>1, <2>1, <2>2 DEF IInv, TypeOK, Reqs, Present
<1>8. \A q \in Requests : WayInv(q)'
  <2>1. WayInv(r)'
    BY <1>2, <1>3, <1>5 DEF WayInv
  <2>2. \A q \in Requests \ {r} : WayInv(q)'
    BY <1>6 DEF IInv, WayInv, Active
  <2> QED  BY <2>1, <2>2
<1>9. \A q \in Requests : AloneInv(q)'
  <2> SUFFICES ASSUME NEW q \in Requests, NEW p \in Requests \ {q}, Active(q)', Active(p)'
               PROVE  ~req'[q].alone /\ (req'[p].pc = "rm" => req'[q].upset)
    BY DEF AloneInv
  <2>1. CASE q = r
    BY <1>3, <1>4, <1>5, <1>6, <2>1 DEF Active
  <2>2. CASE q # r /\ p = r
    BY <1>2, <1>3, <1>5, <1>6, <2>2 DEF Active
  <2>3. CASE q # r /\ p # r
    <3>1. AloneInv(q)
      BY DEF IInv
    <3>2. /\ Active(q) /\ Active(p) /\ req'[p].pc = req[p].pc
          /\ req[q].upset => req'[q].upset
          /\ Active(q) => ~req'[q].alone
      BY <1>6, <2>3 DEF Active
    <3> QED  BY <2>3, <3>1, <3>2 DEF AloneInv
  <2> QED  BY <2>1, <2>2, <2>3
<1>10. \A q \in Requests : LeftInv(q)'
  <2>1. \A part \in Parts : Present(part)' <=> Present(part)
    BY <1>1 DEF Present
  <2>2. LeftInv(r)'
    BY <1>2, <1>3, <1>5, <2>1 DEF LeftInv
  <2>3. \A q \in Requests \ {r} : LeftInv(q)'
    BY <1>6 DEF LeftInv, Active
  <2> QED  BY <2>2, <2>3
<1>11. \A q \in Requests : ReadyInv(q)'
  <2>1. ReadyInv(r)'
    BY <1>2, <1>3, <1>5 DEF ReadyInv, Initialised
  <2>2. ASSUME NEW q \in Requests \ {r}, ~req[q].upset PROVE ReadyInv(q)'
    <3>1. ReadyInv(q)
      BY DEF IInv
    <3>2. \A p \in Requests, phase \in Phases : Rewrites(p, phase) => Rewrites(p, phase)'
      BY <1>1, <1>6 DEF Rewrites, Active
    <3>3. \A phase \in Phases : Hooked(q, phase) => Hooked(q, phase)'
      BY <1>1, <3>2 DEF Hooked
    <3>4. req'[q].pc = req[q].pc /\ req'[q].n = req[q].n /\ req'[q].phase = req[q].phase
      BY <1>6
    <3> QED  BY <1>1, <2>2, <3>1, <3>3, <3>4 DEF ReadyInv, Phases
  <2>3. ASSUME NEW q \in Requests \ {r}, req[q].upset PROVE ReadyInv(q)'
    BY <1>6, <2>3 DEF ReadyInv
  <2> QED  BY <2>1, <2>2, <2>3
<1> QED  BY <1>7, <1>8, <1>9, <1>10, <1>11 DEF IInv

-----------------------------------------------------------------------------
(* A step that disturbs whoever is there.                                  *)

\* A step that disturbs the others keeps the invariant of all.
LEMMA DisturbKept ==
    ASSUME IInv, NEW r \in Requests, NEW new \in Reqs, Active(r), Disturb(r, new),
           new.pc = "idle" \/ /\ new.pc = "rm" /\ req[r].pc = "rm" /\ new.way = "rm"
                              /\ new.told = "none" /\ new.alone = req[r].alone
                              /\ new.upset = req[r].upset,
           new.pc = "idle" => new.way = "none",
           new.phase = "pre-receive",
           repo' \in Repos, lock' \in Requests \cup {None, Stale}, lock' # r,
           lock' \in Requests => lock' = lock, autoCreate' \in BOOLEAN,
           trouble' \in 0..MaxTrouble,
           ~repo'.dir => /\ ~repo'.head /\ ~repo'.objects /\ repo'.config = {} /\ lock' = None
                         /\ \A p \in Phases : repo'.hook[p] = "none",
           LeftInv(r)'
    PROVE  IInv'
<1>1. req'[r] = new
  BY DEF Disturb
<1>2. ASSUME NEW q \in Requests \ {r}
      PROVE  /\ req'[q] \in Reqs /\ req'[q].pc = req[q].pc /\ req'[q].way = req[q].way
             /\ req'[q].phase = req[q].phase /\ req'[q].told = req[q].told
             /\ req'[q].alone = req[q].alone /\ (Active(q) => req'[q].upset)
             /\ req[q].upset => req'[q].upset
  <2> DEFINE up == req[q].upset \/ Active(q)
  <2>1. req'[q] = [req[q] EXCEPT !.upset = up]
    BY DEF Disturb
  <2>2. req[q] \in Reqs /\ up \in BOOLEAN /\ (Active(q) \/ req[q].upset => up)
    BY TypeFacts DEF Active
  <2> HIDE DEF up
  <2>3. Altered(req[q], req'[q], req[q].alone, up)
    BY <2>1, <2>2 DEF Reqs, Altered
  <2> QED  BY <2>2, <2>3 DEF Altered
<1>3. TypeOK'
  <2>1. req' \in [Requests -> Reqs]
    BY <1>1, <1>2 DEF Disturb
  <2>2. lock' \in Requests => req'[lock'].pc = "locked"
    BY <1>2, TypeFacts
  <2>3. ~repo'.dir => \A part \in Parts : ~Present(part)'
    BY DEF Present, Parts
  <2> QED  BY <2>1, <2>2, <2>3 DEF TypeOK, Reqs, Repos
<1>4. \A q \in Requests : WayInv(q) /\ AloneInv(q) /\ LeftInv(q)
  BY DEF IInv
<1>5. \A q \in Requests : WayInv(q)'
  BY <1>1, <1>2, <1>4 DEF WayInv, Active
<1>6. \A q \in Requests : AloneInv(q)'
  BY <1>1, <1>2, <1>4 DEF AloneInv, Active
<1>7. \A q \in Requests \ {r} : LeftInv(q)'
  BY <1>2, <1>4 DEF LeftInv, AloneInv, Active
<1>8. ReadyInv(r)'
  BY <1>1 DEF ReadyInv, Initialised
<1>9. \A q \in Requests \ {r} : ReadyInv(q)'
  BY <1>2 DEF ReadyInv, Initialised, Active
<1> QED  BY <1>3, <1>5, <1>6, <1>7, <1>8, <1>9 DEF IInv

\* A part that is removed is no longer there, and no other comes.
LEMMA RemovePartKept ==
    ASSUME IInv, NEW r \in Requests, RemovePart(r)
    PROVE  IInv'
<1> PICK part \in req[r].left :
        /\ repo' = CASE part = "head"    -> [repo EXCEPT !.head = FALSE]
                     [] part = "objects" -> [repo EXCEPT !.objects = FALSE]
                     [] part = "config"  -> [repo EXCEPT !.config = {}]
                     [] part = "hooks"   -> [repo EXCEPT !.hook = Nothing.hook]
                     [] OTHER -> repo
        /\ lock' = IF part = "lock" THEN None ELSE lock
        /\ Disturb(r, [req[r] EXCEPT !.left = @ \ {part}])
  BY DEF RemovePart
<1> DEFINE new == [req[r] EXCEPT !.left = @ \ {part}]
<1>1. req[r].pc = "rm" /\ Active(r) /\ UNCHANGED <<autoCreate, trouble>>
  BY DEF RemovePart, Active
<1>2. /\ req[r] \in Reqs /\ req[r].way = "rm" /\ req[r].told = "none"
      /\ req[r].phase = "pre-receive" /\ LeftInv(r) /\ lock # r /\ part \in Parts
  BY <1>1, TypeFacts DEF IInv, WayInv, Reqs
<1>3. /\ new \in Reqs /\ new.pc = "rm" /\ new.way = "rm" /\ new.told = "none"
      /\ new.alone = req[r].alone /\ new.upset = req[r].upset
      /\ new.left = req[r].left \ {part} /\ new.phase = "pre-receive"
  BY <1>1, <1>2 DEF Reqs
<1> HIDE DEF new
<1>4. \A phase \in Phases : Nothing.hook[phase] = "none"
  BY DEF Nothing
<1>5. /\ repo' \in Repos /\ repo'.dir = repo.dir
      /\ repo'.head = (repo.head /\ part # "head")
      /\ repo'.objects = (repo.objects /\ part # "objects")
      /\ repo'.config = IF part = "config" THEN {} ELSE repo.config
      /\ \A phase \in Phases :
             repo'.hook[phase] = IF part = "hooks" THEN "none" ELSE repo.hook[phase]
  <2>1. CASE part = "head"
    BY <2>1, TypeFacts DEF Repos
  <2>2. CASE part = "objects"
    BY <2>2, TypeFacts DEF Repos
  <2>3. CASE part = "config"
    BY <2>3, TypeFacts DEF Repos
  <2>4. CASE part = "hooks"
    BY <1>4, <2>4, TypeFacts DEF Repos, Nothing
  <2>5. CASE part = "lock"
    BY <2>5, TypeFacts DEF Repos
  <2> QED  BY <1>2, <2>1, <2>2, <2>3, <2>4, <2>5 DEF Parts
<1>6. \A other \in Parts : Present(other)' => Present(other) /\ other # part
  BY <1>5 DEF Present, Parts
<1>7. LeftInv(r)'
  <2>1. req'[r] = new
    BY DEF Disturb, new
  <2> QED  BY <1>1, <1>2, <1>3, <1>6, <2>1 DEF LeftInv
<1>8. ~repo'.dir => /\ ~repo'.head /\ ~repo'.objects /\ repo'.config = {} /\ lock' = None
                    /\ \A p \in Phases : repo'.hook[p] = "none"
  BY <1>5, TypeFacts
<1>9. /\ lock' \in Requests \cup {None, Stale} /\ lock' # r
      /\ lock' \in Requests => lock' = lock
  BY <1>2, TypeFacts, DistinctAssumption
<1>10. autoCreate' \in BOOLEAN /\ trouble' \in 0..MaxTrouble
  BY <1>1 DEF IInv, TypeOK
<1>11. Disturb(r, new)
  BY DEF new
<1> QED  BY <1>1, <1>3, <1>5, <1>7, <1>8, <1>9, <1>10, <1>11, DisturbKept

\* The directory itself goes last.
LEMMA RemoveDirKept ==
    ASSUME IInv, NEW r \in Requests, RemoveDir(r)
    PROVE  IInv'
<1> DEFINE empty == \A part \in Parts : ~Present(part)
           told == IF empty THEN "served" ELSE "failed"
<1>1. /\ req[r].pc = "rm" /\ Active(r) /\ UNCHANGED <<lock, autoCreate, trouble>>
      /\ repo' = [repo EXCEPT !.dir = ~empty] /\ Disturb(r, Answered(told))
  BY DEF RemoveDir, Active
<1>2. told \in {"none", "served", "failed", "refused"} /\ empty \in BOOLEAN
  OBVIOUS
<1>3. empty => /\ ~repo.head /\ ~repo.objects /\ repo.config = {} /\ lock = None
               /\ \A p \in Phases : repo.hook[p] = "none"
  <2> SUFFICES ASSUME empty PROVE /\ ~repo.head /\ ~repo.objects /\ repo.config = {}
                                  /\ lock = None
                                  /\ \A p \in Phases : repo.hook[p] = "none"
    OBVIOUS
  <2>1. /\ ~Present("head") /\ ~Present("objects") /\ ~Present("config")
        /\ ~Present("lock") /\ ~Present("hooks")
    BY DEF Parts
  <2>2. \A p \in Phases : repo.hook[p] \in {"none", "empty", "whole"}
    BY TypeFacts DEF Repos
  <2> QED  BY <2>1, <2>2, TypeFacts DEF Present
<1> HIDE DEF empty, told
<1>4. /\ repo' \in Repos /\ repo'.dir = ~empty
      /\ UNCHANGED <<repo.head, repo.objects, repo.config, repo.hook>>
  BY <1>1, <1>2, TypeFacts DEF Repos
<1>5. LeftInv(r)'
  <2>1. req'[r].pc = "idle"
    BY <1>1, <1>2, IdleFacts DEF Disturb
  <2> QED  BY <2>1 DEF LeftInv
<1>6. lock \in Requests \cup {None, Stale} /\ lock # r
  BY <1>1, TypeFacts
<1>7. autoCreate' \in BOOLEAN /\ trouble' \in 0..MaxTrouble
  BY <1>1 DEF IInv, TypeOK
<1>8. ~repo'.dir => /\ ~repo'.head /\ ~repo'.objects /\ repo'.config = {} /\ lock' = None
                    /\ \A p \in Phases : repo'.hook[p] = "none"
  BY <1>1, <1>3, <1>4
<1>9. /\ Answered(told) \in Reqs /\ Answered(told).pc = "idle"
      /\ Answered(told).way = "none" /\ Answered(told).phase = "pre-receive"
  BY <1>2, IdleFacts
<1> QED  BY <1>1, <1>4, <1>5, <1>6, <1>7, <1>8, <1>9, DisturbKept

\* A request is killed at any step.
LEMMA KilledKept ==
    ASSUME IInv, NEW r \in Requests, Killed(r)
    PROVE  IInv'
<1>1. /\ Active(r) /\ trouble < MaxTrouble /\ trouble' = trouble + 1
      /\ Disturb(r, Idle) /\ UNCHANGED autoCreate
  BY DEF Killed
<1>2. autoCreate' \in BOOLEAN /\ trouble' \in 0..MaxTrouble
  BY <1>1, SettingsAssumption DEF IInv, TypeOK
<1>3. LeftInv(r)'
  <2>1. req'[r].pc = "idle"
    BY <1>1, IdleFacts DEF Disturb
  <2> QED  BY <2>1 DEF LeftInv
<1>4. /\ repo' \in Repos /\ lock' \in Requests \cup {None, Stale} /\ lock' # r
      /\ lock' \in Requests => lock' = lock
      /\ ~repo'.dir => /\ ~repo'.head /\ ~repo'.objects /\ repo'.config = {} /\ lock' = None
                       /\ \A p \in Phases : repo'.hook[p] = "none"
  <2>1. CASE lock = r /\ lock' = Stale /\ UNCHANGED repo
    BY <2>1, TypeFacts, DistinctAssumption
  <2>2. CASE lock = r /\ lock' = None /\ repo' = [repo EXCEPT !.config = @ \cup {req[r].n}]
    <3>1. req[r].n \in AllSettings /\ repo.dir
      BY <2>2, ReqFacts
    <3>2. repo' \in Repos /\ repo'.dir
      BY <2>2, <3>1, TypeFacts DEF Repos
    <3> QED  BY <2>2, <3>2, DistinctAssumption
  <2>3. CASE lock # r /\ UNCHANGED <<lock, repo>>
    BY <2>3, TypeFacts
  <2> QED  BY <2>1, <2>2, <2>3 DEF Killed
<1> QED  BY <1>1, <1>2, <1>3, <1>4, IdleFacts, DisturbKept

-----------------------------------------------------------------------------
(* The theorems.                                                           *)

\* The invariant holds at first: nothing is there and nobody has come.
LEMMA InitHolds == Init => IInv
<1> SUFFICES ASSUME Init PROVE IInv
  OBVIOUS
<1>1. \A r \in Requests : req[r] = Idle /\ Idle.told = "none"
  BY DEF Init, Idle
<1>2. /\ ~repo.dir /\ ~repo.head /\ ~repo.objects /\ repo.config = {} /\ lock = None
      /\ \A phase \in Phases : repo.hook[phase] = "none"
      /\ repo \in Repos
  BY DEF Init, Nothing, Repos
<1>3. TypeOK
  <2>1. req \in [Requests -> Reqs]
    BY <1>1, IdleFacts DEF Init
  <2>2. lock \notin Requests
    BY <1>2, DistinctAssumption
  <2>3. trouble \in 0..MaxTrouble /\ autoCreate \in BOOLEAN
    BY SettingsAssumption DEF Init
  <2> QED  BY <1>2, <2>1, <2>2, <2>3, EmptyFacts DEF TypeOK, Reqs, Repos
<1>4. \A r \in Requests : WayInv(r) /\ AloneInv(r) /\ LeftInv(r) /\ ReadyInv(r)
  BY <1>1, IdleFacts DEF WayInv, AloneInv, LeftInv, ReadyInv, Active, Initialised
<1> QED  BY <1>3, <1>4 DEF IInv

\* Every operation keeps it.
LEMMA NextHolds == IInv /\ [Next]_vars => IInv'
<1> SUFFICES ASSUME IInv, [Next]_vars PROVE IInv'
  OBVIOUS
<1>1. CASE UNCHANGED vars
  <2>1. UNCHANGED <<repo, lock, req, autoCreate, trouble>>
    BY <1>1 DEF vars
  <2>2. TypeOK'
    BY <2>1 DEF IInv, TypeOK, Present
  <2>3. \A r \in Requests : WayInv(r)' /\ AloneInv(r)' /\ LeftInv(r)'
    BY <2>1 DEF IInv, WayInv, AloneInv, LeftInv, Active, Present
  <2>4. \A r \in Requests : ReadyInv(r)'
    BY <2>1 DEF IInv, ReadyInv, Hooked, Rewrites
  <2> QED  BY <2>2, <2>3, <2>4 DEF IInv
<1>2. ASSUME NEW r \in Requests, HTTP(r) \/ GitReceive(r) \/ RepoCreate(r) \/ RepoRemove(r)
      PROVE  IInv'
  BY <1>2, ArriveKept DEF HTTP, GitReceive, RepoCreate, RepoRemove
<1>3. ASSUME NEW r \in Requests, Check(r) PROVE IInv'
  BY <1>3, CheckKept
<1>4. ASSUME NEW r \in Requests, Ensure(r) PROVE IInv'
  BY <1>4, StatKept, MkDirKept, InitHeadKept, InitObjectsKept, LockConfigKept,
     StoreConfigKept, TruncateHookKept, WriteHookKept DEF Ensure
<1>5. ASSUME NEW r \in Requests, Backend(r) \/ Exec(r) \/ Created(r) PROVE IInv'
  BY <1>5, LeaveKept
<1>6. ASSUME NEW r \in Requests, RemovePart(r) \/ RemoveDir(r) \/ Killed(r) PROVE IInv'
  BY <1>6, RemovePartKept, RemoveDirKept, KilledKept
<1> QED  BY <1>1, <1>2, <1>3, <1>4, <1>5, <1>6 DEF Next

\* Whatever requests come together and whoever is killed, each is as far as the
\* repository is, unless it was disturbed (Ensure, RemoveAll).
THEOREM Invariance == Spec => []IInv
<1> QED  BY InitHolds, NextHolds, PTL DEF Spec

\* The state keeps its shape, and nothing is in a directory that is not there.
THEOREM TypeCorrect == Spec => []TypeOK
<1>1. IInv => TypeOK
  BY DEF IInv
<1> QED  BY <1>1, Invariance, PTL

\* Git is given a repository with every setting and both hooks, unless somebody
\* removed it, was killed or rewrites a hook at this moment (Ensure).
THEOREM ReadyWhenServed == Spec => []ServedIsReady
<1>1. IInv => ServedIsReady
  <2> SUFFICES ASSUME IInv, NEW r \in Requests, req[r].pc = "serve", ~req[r].upset
               PROVE  /\ IsRepository /\ 1..Settings \subseteq repo.config
                      /\ \A phase \in Phases :
                             \/ repo.hook[phase] = "whole"
                             \/ \E q \in Requests \ {r} : Rewrites(q, phase)
    BY DEF ServedIsReady
  <2>1. ReadyInv(r)
    BY DEF IInv
  <2> QED  BY <2>1 DEF ReadyInv, Initialised, IsRepository, Hooked
<1> QED  BY <1>1, Invariance, PTL

\* Who is alone and undisturbed finds git's lock free.
LEMMA LockIsFree ==
    ASSUME IInv, NEW r \in Requests, Active(r), req[r].alone, ~Broken, req[r].pc # "locked"
    PROVE  lock = None
<1>1. lock \in Requests \cup {None, Stale} /\ lock # Stale
  BY TypeFacts DEF Broken
<1>2. ASSUME lock \in Requests PROVE FALSE
  <2>1. req[lock].pc = "locked" /\ lock # r
    BY <1>2, TypeFacts
  <2> QED  BY <1>2, <2>1 DEF IInv, AloneInv, Active
<1> QED  BY <1>1, <1>2

\* A request that is alone and undisturbed does not fail at any of its steps.
LEMMA StepSucceeds ==
    ASSUME IInv, NEW r \in Requests, Active(r), req[r].alone, ~req[r].upset, ~Broken,
           InitObjects(r) \/ LockConfig(r) \/ StoreConfig(r) \/ TruncateHook(r) \/ RemoveDir(r)
           \/ Backend(r) \/ Exec(r) \/ Created(r)
    PROVE  req'[r].told # "failed"
<1>1. ReadyInv(r) /\ LeftInv(r) /\ req[r].told = "none"
  BY DEF IInv, WayInv
<1>2. req[r] \in Reqs
  BY TypeFacts
<1>3. CASE InitObjects(r)
  <2>1. repo.dir
    BY <1>1, <1>3 DEF ReadyInv, Initialised, InitObjects
  <2>2. req'[r] = [req[r] EXCEPT !.pc = "config", !.n = 1]
    BY <1>3, <2>1, TypeFacts DEF InitObjects
  <2> QED  BY <1>1, <1>2, <2>2 DEF Reqs
<1>4. CASE LockConfig(r)
  <2>1. lock = None
    BY <1>4, LockIsFree DEF LockConfig
  <2>2. repo.dir /\ (req[r].pc = "config" => IsRepository)
    BY <1>1, <1>4 DEF LockConfig, ReadyInv, Initialised, IsRepository, Broken
  <2>3. req'[r] = [req[r] EXCEPT !.pc = "locked"]
    BY <1>4, <2>1, <2>2, TypeFacts DEF LockConfig, Goto
  <2> QED  BY <1>1, <1>2, <2>3 DEF Reqs
<1>5. CASE StoreConfig(r)
  <2>1. lock = r
    BY <1>1, <1>5 DEF ReadyInv, StoreConfig
  <2> DEFINE n == req[r].n
             next == IF n = Settings THEN 0 ELSE n + 1
             pc == AfterSetting(n)
  <2>2. req'[r] = [req[r] EXCEPT !.pc = pc, !.n = next]
    BY <1>5, <2>1, TypeFacts DEF StoreConfig
  <2> HIDE DEF pc, next
  <2> QED  BY <1>1, <1>2, <2>2 DEF Reqs
<1>6. CASE TruncateHook(r)
  <2>1. req[r].phase = "post-receive" => Present("hooks")
    BY <1>1, <1>6 DEF ReadyInv, TruncateHook, Hooked, Present, Phases
  <2>2. req'[r] = [req[r] EXCEPT !.pc = "write"]
    BY <1>6, <2>1, TypeFacts DEF TruncateHook, Goto
  <2> QED  BY <1>1, <1>2, <2>2 DEF Reqs
<1>7. CASE RemoveDir(r)
  <2>1. \A part \in Parts : ~Present(part)
    BY <1>1, <1>7 DEF LeftInv, RemoveDir
  <2>2. req'[r] = Answered("served")
    BY <1>7, <2>1 DEF RemoveDir, Disturb
  <2> QED  BY <2>2, IdleFacts
<1>8. CASE Backend(r) \/ Exec(r) \/ Created(r)
  <2>1. req[r].pc = "serve"
    BY <1>8 DEF Backend, Exec, Created, Leave
  <2>2. Served = "served"
    BY <1>1, <2>1 DEF ReadyInv, Initialised, IsRepository, Served
  <2>3. req'[r] = Answered("served")
    BY <1>8, <2>2, TypeFacts DEF Backend, Exec, Created, Leave, End
  <2> QED  BY <2>3, IdleFacts
<1> QED  BY <1>3, <1>4, <1>5, <1>6, <1>7, <1>8

\* Nor at the others, which cannot fail.
LEMMA OtherSteps ==
    ASSUME IInv, NEW r \in Requests, Active(r),
           Check(r) \/ Stat(r) \/ MkDir(r) \/ InitHead(r) \/ WriteHook(r) \/ RemovePart(r)
           \/ Killed(r)
    PROVE  req'[r].told # "failed"
<1>1. req[r].told = "none" /\ req[r] \in Reqs
  BY TypeFacts DEF IInv, WayInv
<1>2. CASE Check(r)
  BY <1>1, <1>2, TypeFacts, IdleFacts DEF Check, Goto, End, Reqs
<1>3. CASE Stat(r)
  BY <1>1, <1>3, TypeFacts DEF Stat, Reqs
<1>4. CASE MkDir(r) \/ InitHead(r)
  BY <1>1, <1>4, TypeFacts DEF MkDir, InitHead, Goto, Reqs
<1>5. CASE WriteHook(r)
  BY <1>1, <1>5, TypeFacts DEF WriteHook, NextPhase, Reqs
<1>6. CASE RemovePart(r)
  <2> PICK part \in req[r].left : req'[r] = [req[r] EXCEPT !.left = @ \ {part}]
    BY <1>6 DEF RemovePart, Disturb
  <2> QED  BY <1>1 DEF Reqs
<1>7. CASE Killed(r)
  BY <1>7 DEF Killed, Disturb, Idle
<1> QED  BY <1>2, <1>3, <1>4, <1>5, <1>6, <1>7

\* What another request does tells this one nothing.
LEMMA OthersTellNothing ==
    ASSUME IInv, NEW r \in Requests, NEW q \in Requests \ {r}, Active(r),
           \/ HTTP(q) \/ GitReceive(q) \/ RepoCreate(q) \/ RepoRemove(q)
           \/ Check(q) \/ Ensure(q) \/ Backend(q) \/ Exec(q) \/ Created(q)
           \/ RemovePart(q) \/ RemoveDir(q) \/ Killed(q)
    PROVE  req'[r].told = "none"
<1>1. req[r].told = "none" /\ req[r] \in Reqs
  BY TypeFacts DEF IInv, WayInv
<1>2. CASE HTTP(q) \/ GitReceive(q) \/ RepoCreate(q) \/ RepoRemove(q)
  <2> PICK way \in {"http", "ssh", "create", "rm"} : Arrive(q, way)
    BY <1>2 DEF HTTP, GitReceive, RepoCreate, RepoRemove
  <2>1. req'[r] = [req[r] EXCEPT !.alone = FALSE, !.upset = @ \/ way = "rm"]
    BY DEF Arrive
  <2> QED  BY <1>1, <2>1 DEF Reqs
<1>3. CASE RemovePart(q) \/ RemoveDir(q) \/ Killed(q)
  <2>1. req'[r] = [req[r] EXCEPT !.upset = @ \/ Active(r)]
    BY <1>3 DEF RemovePart, RemoveDir, Killed, Disturb
  <2> QED  BY <1>1, <2>1 DEF Reqs
<1>4. CASE Check(q) \/ Ensure(q) \/ Backend(q) \/ Exec(q) \/ Created(q)
  <2>1. req'[r] = req[r]
    BY <1>4, TypeFacts DEF Check, Ensure, Stat, MkDir, InitHead, InitObjects, LockConfig,
       StoreConfig, TruncateHook, WriteHook, NextPhase, Backend, Exec, Created, Leave,
       Goto, End
  <2> QED  BY <1>1, <2>1
<1> QED  BY <1>2, <1>3, <1>4

\* Requests that come one after another all succeed, unless one of them was
\* killed where nobody repairs it (Ensure).
THEOREM NoFailureAlone == Spec => FailsForCause
<1>1. IInv /\ [Next]_vars =>
          [\A r \in Requests :
               (Active(r) /\ req'[r].told = "failed") => ~req[r].alone \/ req[r].upset \/ Broken]_vars
  <2> SUFFICES ASSUME IInv, Next, NEW r \in Requests, Active(r), req[r].alone,
                      ~req[r].upset, ~Broken
               PROVE  req'[r].told # "failed"
    BY DEF vars
  <2> PICK q \in Requests :
          \/ HTTP(q) \/ GitReceive(q) \/ RepoCreate(q) \/ RepoRemove(q)
          \/ Check(q) \/ Ensure(q) \/ Backend(q) \/ Exec(q) \/ Created(q)
          \/ RemovePart(q) \/ RemoveDir(q) \/ Killed(q)
    BY DEF Next
  <2>1. CASE q # r
    BY <2>1, OthersTellNothing
  <2>2. CASE q = r
    <3>1. ~(HTTP(r) \/ GitReceive(r) \/ RepoCreate(r) \/ RepoRemove(r))
      BY DEF HTTP, GitReceive, RepoCreate, RepoRemove, Arrive
    <3> QED  BY <2>2, <3>1, StepSucceeds, OtherSteps DEF Ensure
  <2> QED  BY <2>1, <2>2
<1> QED  BY <1>1, Invariance, PTL DEF Spec, FailsForCause
=============================================================================
