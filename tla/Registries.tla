----------------------------- MODULE Registries -----------------------------
(***************************************************************************)
(* The three lists that commands keep in a file: the tokens               *)
(* (internal/token, internal/cli/token.go, and internal/daemon/githttp.go, *)
(* which notes every use of one), the peers (internal/peer,                *)
(* internal/cli/peer.go) and the keys in the authorized_keys of the        *)
(* machine (internal/authkeys, internal/cli/key.go).                       *)
(*                                                                         *)
(* Every change reads the file, changes the list in memory, writes it to a *)
(* file beside it, always the same one, and renames that over the list.    *)
(* Nothing is locked, so that commands, and the daemon, may be at it at    *)
(* the same time; any of them may be killed between two steps.             *)
(*                                                                         *)
(* Abstracted: one list at a time; a list is a set of entries, ordered by  *)
(* name; of an entry only the name and one mark are kept: the default      *)
(* peer, a token that has been used, a key that kranq has added.           *)
(***************************************************************************)
EXTENDS Integers, FiniteSets

CONSTANTS
    Procs,       \* processes that change the list
    Names,       \* names of entries, by which they are ordered
    Foreign,     \* lines that somebody else wrote into authorized_keys
    None         \* no file

ASSUME NamesAssumption == Names \subseteq Nat /\ Foreign \subseteq Nat /\ Names \cap Foreign = {}

ASSUME FilesAssumption == None \notin [list : SUBSET [name : Nat, mark : BOOLEAN], whole : BOOLEAN]

VARIABLES
    kind,    \* which list it is
    file,    \* what the file of the list holds, and the file beside it
    cmd,     \* each process: where it is and what it is to change
    clean    \* whether no two processes have been at it at the same time

vars == <<kind, file, cmd, clean>>

-----------------------------------------------------------------------------
(* Lists and what commands make of them *)

Kinds == {"tokens", "peers", "keys"}
Entries == [name : Names \cup Foreign, mark : BOOLEAN]

Entry(name, mark) == [name |-> name, mark |-> mark]
Named(list, name) == {e \in list : e.name = name}
Marked(list) == {e \in list : e.mark}
Mark(list, mark) == {[e EXCEPT !.mark = mark] : e \in list}

\* Mutant: adding a peer again makes it what the command says.
AddPeerAnew(list, name, asDefault) ==
    LET default == asDefault \/ list = {}
        others  == list \ Named(list, name)
    IN  {Entry(name, default)} \cup (IF default THEN Mark(others, FALSE) ELSE others)

\* Adding a peer again edits its address and not its role.
AddPeer(list, name, asDefault) ==
    LET default == asDefault \/ list = {} \/ Marked(Named(list, name)) # {}
        others  == list \ Named(list, name)
    IN  {Entry(name, default)} \cup (IF default THEN Mark(others, FALSE) ELSE others)

First(list) == {e \in list : \A f \in list : e.name <= f.name}

\* Another peer becomes the default when that one goes.
RemovePeer(list, name) ==
    LET rest == list \ Named(list, name)
    IN  IF Marked(Named(list, name)) = {} THEN rest
        ELSE (rest \ First(rest)) \cup Mark(First(rest), TRUE)

CreateToken(list, name) == list \cup {Entry(name, FALSE)}
RevokeToken(list, name) == list \ Named(list, name)
Touch(list, name) == RevokeToken(list, name) \cup Mark(Named(list, name), TRUE)

\* Lines that kranq did not write stay as they are.
AddKey(list, name) == list \cup {Entry(name, TRUE)}
RemoveKey(list, name) == list \ Named(Marked(list), name)

\* The name of a token or of a key can be used once; only what is there can go.
Allowed(list, c) ==
    CASE c.op = "add"    -> kind = "peers" \/ Named(list, c.name) = {}
      [] c.op = "remove" -> Named(list, c.name) # {}
      [] c.op = "touch"  -> TRUE

After(list, c) ==
    CASE c.op = "touch"                     -> Touch(list, c.name)
      [] c.op = "add" /\ kind = "tokens"    -> CreateToken(list, c.name)
      [] c.op = "add" /\ kind = "peers"     -> AddPeer(list, c.name, c.mark)
      [] c.op = "add" /\ kind = "keys"      -> AddKey(list, c.name)
      [] c.op = "remove" /\ kind = "tokens" -> RevokeToken(list, c.name)
      [] c.op = "remove" /\ kind = "peers"  -> RemovePeer(list, c.name)
      [] c.op = "remove" /\ kind = "keys"   -> RemoveKey(list, c.name)

-----------------------------------------------------------------------------
(* Files *)

\* What a file holds, and whether one process wrote all of it.
Whole(list) == [list |-> list, whole |-> TRUE]
Torn(list) == [list |-> list, whole |-> FALSE]
Truncated == Torn({})

\* A list without a file is empty.
Content == IF file["list"] = None THEN Whole({}) ELSE file["list"]

Idle == [pc |-> "idle", op |-> "none", name |-> 0, mark |-> FALSE, list |-> {},
         fd |-> "closed"]

TypeOK ==
    /\ kind \in Kinds
    /\ file \in [{"list", "tmp"} -> [list : SUBSET Entries, whole : BOOLEAN] \cup {None}]
    /\ cmd \in [Procs -> [pc : {"idle", "load", "open", "write", "rename"},
                          op : {"none", "add", "remove", "touch"},
                          name : Names \cup {0}, mark : BOOLEAN, list : SUBSET Entries,
                          fd : {"closed", "tmp", "list", "unlinked"}]]
    /\ clean \in BOOLEAN
    /\ \A p \in Procs : cmd[p].fd \in {"tmp", "list"} => file[cmd[p].fd] # None

\* authorized_keys may have been there before kranq.
Init ==
    /\ kind \in Kinds
    /\ file = [f \in {"list", "tmp"} |->
                  IF f = "list" /\ kind = "keys"
                  THEN Whole({Entry(n, FALSE) : n \in Foreign}) ELSE None]
    /\ cmd = [p \in Procs |-> Idle]
    /\ clean = TRUE

-----------------------------------------------------------------------------
(* A change, step by step *)

End(p) == cmd' = [cmd EXCEPT ![p] = Idle]

Begin(p, op, name, mark) ==
    /\ cmd[p].pc = "idle"
    /\ cmd' = [cmd EXCEPT ![p] = [Idle EXCEPT !.pc = "load", !.op = op, !.name = name,
                                              !.mark = mark]]
    /\ clean' = (clean /\ \A q \in Procs : cmd[q].pc = "idle")
    /\ UNCHANGED <<kind, file>>

TokenCreate(p) == kind = "tokens" /\ \E name \in Names : Begin(p, "add", name, FALSE)
TokenRevoke(p) == kind = "tokens" /\ \E name \in Names : Begin(p, "remove", name, FALSE)

\* A request whose token is in the file is let in, and then its use is noted.
Verify(p) ==
    /\ kind = "tokens" /\ Content.whole
    /\ \E e \in Content.list : Begin(p, "touch", e.name, FALSE)

PeerAdd(p) == kind = "peers" /\ \E name \in Names, asDefault \in BOOLEAN :
                                  Begin(p, "add", name, asDefault)
PeerRemove(p) == kind = "peers" /\ \E name \in Names : Begin(p, "remove", name, FALSE)

KeyAdd(p) == kind = "keys" /\ \E name \in Names : Begin(p, "add", name, FALSE)
KeyRemove(p) == kind = "keys" /\ \E name \in Names : Begin(p, "remove", name, FALSE)

\* json does not parse what is not whole; lines of authorized_keys are taken as
\* they are.
Readable == kind = "keys" \/ Content.whole

Load(p) ==
    /\ cmd[p].pc = "load"
    /\ IF Readable /\ Allowed(Content.list, cmd[p])
       THEN cmd' = [cmd EXCEPT ![p].pc = "open", ![p].list = After(Content.list, cmd[p])]
       ELSE End(p)
    /\ UNCHANGED <<kind, file, clean>>

Open(p, f) ==
    /\ cmd[p].pc = "open"
    /\ file' = [file EXCEPT ![f] = Truncated]
    /\ cmd' = [cmd EXCEPT ![p].pc = "write", ![p].fd = f]
    /\ UNCHANGED <<kind, clean>>

\* Mutant: the list is written where it is.
OpenInPlace(p) == Open(p, "list")

\* Another process may be writing the same file.
OpenTmp(p) == Open(p, "tmp")

\* Over what another has written since, of which the end may stick out.
Written(p, old) ==
    {Whole(cmd[p].list)} \cup
        (IF old.list = {} THEN {}
         ELSE {Torn(IF kind = "keys" THEN cmd[p].list \cup {e \in old.list : e.name >= n} ELSE {})
                   : n \in Names \cup Foreign})

WriteTmp(p) ==
    /\ cmd[p].pc = "write"
    /\ IF cmd[p].fd = "unlinked" THEN UNCHANGED file
       ELSE \E content \in Written(p, file[cmd[p].fd]) :
                file' = [file EXCEPT ![cmd[p].fd] = content]
    /\ cmd' = [cmd EXCEPT ![p].pc = "rename", ![p].fd = "closed", ![p].list = {}]
    /\ UNCHANGED <<kind, clean>>

\* What a process has open once the file beside the list has become the list.
Moved(fd) == CASE fd = "tmp" -> "list" [] fd = "list" -> "unlinked" [] OTHER -> fd

\* Whatever is there by then; nothing is, when another's rename took it.
Rename(p) ==
    /\ cmd[p].pc = "rename"
    /\ IF file["tmp"] = None THEN End(p) /\ UNCHANGED file
       ELSE /\ file' = [file EXCEPT !["list"] = file["tmp"], !["tmp"] = None]
            /\ cmd' = [q \in Procs |-> IF q = p THEN Idle
                                       ELSE [cmd[q] EXCEPT !.fd = Moved(@)]]
    /\ UNCHANGED <<kind, clean>>

\* Mutant: a process that gives up removes the file beside the list.
StopTidy(p) ==
    /\ cmd[p].pc # "idle"
    /\ End(p)
    /\ file' = [file EXCEPT !["tmp"] = None]
    /\ UNCHANGED <<kind, clean>>

\* Killed, or the disk is full: what is in the file beside the list stays there.
Stop(p) ==
    /\ cmd[p].pc # "idle"
    /\ End(p)
    /\ UNCHANGED <<kind, file, clean>>

Change(p) == Load(p) \/ OpenTmp(p) \/ WriteTmp(p) \/ Rename(p) \/ Stop(p)

Next == \E p \in Procs : \/ TokenCreate(p) \/ TokenRevoke(p) \/ Verify(p)
                        \/ PeerAdd(p) \/ PeerRemove(p)
                        \/ KeyAdd(p) \/ KeyRemove(p)
                        \/ Change(p)

Spec == Init /\ [][Next]_vars

-----------------------------------------------------------------------------
(* Properties *)

\* "The list must never be left without a default" (Remove): a list of peers that
\* can be read has one default and every name once, whatever was added, added
\* again and removed, and however processes overlapped or were killed.
OneDefault ==
    kind = "peers" /\ Content.whole /\ Content.list # {} =>
        /\ Cardinality(Marked(Content.list)) = 1
        /\ \A e, f \in Content.list : e.name = f.name => e = f

\* A list changes in one step, by all that one command asked for and nothing
\* else, wherever a process was killed, as long as they did not overlap: whoever
\* administers the machine keeps their key, a revoked token stays away (Save,
\* authkeys.Write).
AllOrNothing ==
    [][clean' =>
          \/ Content' = Content
          \/ \E p \in Procs :
                 /\ cmd[p].pc = "rename" /\ cmd'[p].pc = "idle"
                 /\ Allowed(Content.list, cmd[p])
                 /\ Content' = Whole(After(Content.list, cmd[p]))]_vars
=============================================================================
