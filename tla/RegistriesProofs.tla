-------------------------- MODULE RegistriesProofs --------------------------
(***************************************************************************)
(* Theorems about the lists that commands keep in a file, for any number   *)
(* of processes and any names.                                             *)
(***************************************************************************)
EXTENDS Registries, WellFoundedInduction, FiniteSetTheorems, TLAPS

-----------------------------------------------------------------------------
(* The inductive invariant.                                                *)

\* Peers as they are to be kept: every name once, and one default.
Unique(list) == \A e, f \in list : e.name = f.name => e = f
AtMostOneDefault(list) == \A e, f \in list : e.mark /\ f.mark => e = f
WithDefault(list) == list # {} => \E e \in list : e.mark
Good(list) == Unique(list) /\ AtMostOneDefault(list) /\ WithDefault(list)

\* What a process was asked for, and what it has open.
StepInv(p) ==
    /\ cmd[p].pc # "idle" => cmd[p].op # "none" /\ cmd[p].name \in Names
    /\ cmd[p].op = "touch" => kind = "tokens"
    /\ cmd[p].pc = "write" <=> cmd[p].fd # "closed"

\* Only authorized_keys has lines that kranq did not write.
OfKind(list) == list \in SUBSET Entries /\ (kind # "keys" => \A e \in list : e.name \in Names)

NamesInv ==
    /\ \A f \in {"list", "tmp"} : file[f] # None => OfKind(file[f].list)
    /\ \A p \in Procs : OfKind(cmd[p].list)

\* No list of peers that is whole, in a file or in memory, was ever without its
\* default.
PeersInv ==
    kind = "peers" =>
        /\ \A f \in {"list", "tmp"} : file[f] # None /\ file[f].whole => Good(file[f].list)
        /\ \A p \in Procs : Good(cmd[p].list)

\* What a process that is alone has done so far.
Progress(p) ==
    /\ cmd[p].pc \in {"open", "write", "rename"} => Allowed(Content.list, cmd[p])
    /\ cmd[p].pc \in {"open", "write"} => cmd[p].list = After(Content.list, cmd[p])
    /\ cmd[p].pc = "write" => cmd[p].fd = "tmp" /\ file["tmp"] = Truncated
    /\ cmd[p].pc = "rename" => file["tmp"] = Whole(After(Content.list, cmd[p]))

\* As long as no two processes have overlapped, the list is whole and the file
\* beside it belongs to the one that is at it.
CleanInv ==
    clean => /\ Content.whole
             /\ \A p, q \in Procs : cmd[p].pc # "idle" /\ cmd[q].pc # "idle" => p = q
             /\ \A p \in Procs : Progress(p)

IInv == TypeOK /\ (\A p \in Procs : StepInv(p)) /\ NamesInv /\ PeersInv /\ CleanInv

-----------------------------------------------------------------------------
(* Lists.                                                                  *)

\* A set of natural numbers has a least one.
LEMMA Least ==
    ASSUME NEW S \in SUBSET Nat, S # {}
    PROVE  \E n \in S : \A m \in S : n <= m
<1> DEFINE R == OpToRel(<, Nat)
<1>1. PICK n \in S : \A m \in S : ~ (<<m, n>> \in R)
  BY NatLessThanWellFounded, WFMin
<1>2. SUFFICES ASSUME NEW m \in S PROVE n <= m
  OBVIOUS
<1>3. m < n => <<m, n>> \in R
  BY DEF OpToRel
<1>4. ~ (<<m, n>> \in R)
  BY <1>1
<1>5. m \in Nat /\ n \in Nat
  OBVIOUS
<1> HIDE DEF R
<1>6. ~(m < n)
  BY <1>3, <1>4
<1> QED  BY <1>5, <1>6

\* Every entry is known by its name and its mark, and the name is a number.
LEMMA EntryFacts ==
    /\ \A e \in Entries : e.name \in Names \cup Foreign /\ e.name \in Nat /\ e.mark \in BOOLEAN
    /\ \A e, f \in Entries : e.name = f.name /\ e.mark = f.mark => e = f
    /\ \A n \in Names, b \in BOOLEAN : /\ Entry(n, b) \in Entries
                                      /\ Entry(n, b).name = n
                                      /\ Entry(n, b).mark = b
<1>1. ASSUME NEW e \in Entries
      PROVE  e.name \in Names \cup Foreign /\ e.name \in Nat /\ e.mark \in BOOLEAN
  BY NamesAssumption DEF Entries
<1>2. ASSUME NEW e \in Entries, NEW f \in Entries, e.name = f.name, e.mark = f.mark
      PROVE  e = f
  BY <1>2 DEF Entries
<1>3. ASSUME NEW n \in Names, NEW b \in BOOLEAN
      PROVE  Entry(n, b) \in Entries /\ Entry(n, b).name = n /\ Entry(n, b).mark = b
  BY DEF Entries, Entry
<1> QED  BY <1>1, <1>2, <1>3, Zenon

\* Marking a list again changes nothing but the marks.
LEMMA MarkFacts ==
    ASSUME NEW list \in SUBSET Entries, NEW b \in BOOLEAN
    PROVE  /\ Mark(list, b) \in SUBSET Entries
           /\ \A e \in Mark(list, b) : e.mark = b /\ \E f \in list : f.name = e.name
           /\ \A f \in list : \E e \in Mark(list, b) : e.name = f.name
<1>1. ASSUME NEW e \in Entries
      PROVE  /\ [e EXCEPT !.mark = b] \in Entries
             /\ [e EXCEPT !.mark = b].mark = b
             /\ [e EXCEPT !.mark = b].name = e.name
  BY DEF Entries
<1>2. \A e \in Mark(list, b) : \E f \in list : e = [f EXCEPT !.mark = b]
  BY Zenon DEF Mark
<1>3. \A f \in list : [f EXCEPT !.mark = b] \in Mark(list, b)
  BY Zenon DEF Mark
<1>4. ASSUME NEW e \in Mark(list, b)
      PROVE  e \in Entries /\ e.mark = b /\ \E f \in list : f.name = e.name
  <2>1. PICK f \in list : e = [f EXCEPT !.mark = b]
    BY <1>2
  <2>2. f \in Entries
    OBVIOUS
  <2> QED  BY <1>1, <2>1, <2>2, Zenon
<1>5. ASSUME NEW f \in list PROVE \E e \in Mark(list, b) : e.name = f.name
  BY <1>1, <1>3, Zenon
<1> QED  BY <1>4, <1>5, Zenon

\* The first entry of a list of peers is one of them, if there are any.
LEMMA FirstFacts ==
    ASSUME NEW list \in SUBSET Entries, Unique(list)
    PROVE  /\ First(list) \subseteq list
           /\ list # {} => First(list) # {}
           /\ \A e, f \in First(list) : e = f
<1>1. First(list) \subseteq list
  BY DEF First
<1>2. ASSUME list # {} PROVE First(list) # {}
  <2> DEFINE S == {e.name : e \in list}
  <2>1. S \in SUBSET Nat /\ S # {}
    BY <1>2, EntryFacts
  <2>2. PICK n \in S : \A m \in S : n <= m
    BY <2>1, Least
  <2>3. PICK e \in list : e.name = n
    BY <2>2
  <2>4. e \in First(list)
    BY <2>2, <2>3 DEF First
  <2> QED  BY <2>4
<1>3. ASSUME NEW e \in First(list), NEW f \in First(list) PROVE e = f
  <2>1. e \in list /\ f \in list /\ e.name <= f.name /\ f.name <= e.name
    BY DEF First
  <2>2. e.name \in Nat /\ f.name \in Nat
    BY <2>1, EntryFacts
  <2>3. e.name = f.name
    BY <2>1, <2>2
  <2> QED  BY <2>1, <2>3 DEF Unique
<1> QED  BY <1>1, <1>2, <1>3

\* Adding a peer, or adding it again, leaves one default (peer.Add).
LEMMA AddPeerGood ==
    ASSUME NEW list \in SUBSET Entries, Good(list), NEW name \in Names, NEW b \in BOOLEAN
    PROVE  AddPeer(list, name, b) \in SUBSET Entries /\ Good(AddPeer(list, name, b))
<1> DEFINE default == b \/ list = {} \/ Marked(Named(list, name)) # {}
           others  == list \ Named(list, name)
           added   == Entry(name, default)
           new     == AddPeer(list, name, b)
<1>1. new = {added} \cup (IF default THEN Mark(others, FALSE) ELSE others)
  BY DEF AddPeer
<1>2. added \in Entries /\ added.name = name /\ added.mark = default
  BY EntryFacts
<1>3. others \in SUBSET Entries /\ \A e \in others : e \in list /\ e.name # name
  BY DEF Named
<1>4. CASE default
  <2>1. new = {added} \cup Mark(others, FALSE)
    BY <1>1, <1>4
  <2>2. /\ Mark(others, FALSE) \in SUBSET Entries
        /\ \A e \in Mark(others, FALSE) : e.mark = FALSE /\ \E f \in others : f.name = e.name
    BY <1>3, MarkFacts, Zenon
  <2>3. new \in SUBSET Entries
    BY <2>1, <2>2, <1>2
  <2>4. \A e \in new : e = added \/ (e.mark = FALSE /\ e.name # name)
    BY <2>1, <2>2, <1>3
  <2> HIDE DEF new, added
  <2>5. Unique(new)
    BY <2>3, <2>4, <1>2, EntryFacts DEF Unique
  <2>6. AtMostOneDefault(new)
    BY <2>4 DEF AtMostOneDefault
  <2>7. WithDefault(new)
    BY <2>1, <1>2, <1>4 DEF WithDefault
  <2> QED  BY <2>3, <2>5, <2>6, <2>7 DEF Good, new
<1>5. CASE ~default
  <2>1. new = {added} \cup others
    BY <1>1, <1>5
  <2>2. new \in SUBSET Entries
    BY <2>1, <1>2, <1>3
  <2>3. PICK d \in list : d.mark
    BY <1>5 DEF Good, WithDefault
  <2>4. d \in others
    BY <2>3, <1>5 DEF Marked, Named
  <2> HIDE DEF default
  <2>5. ~added.mark
    BY <1>2, <1>5
  <2>6. Unique(new)
    BY <2>1, <1>2, <1>3 DEF Good, Unique
  <2>7. AtMostOneDefault(new)
    BY <2>1, <2>5, <1>3 DEF Good, AtMostOneDefault
  <2>8. WithDefault(new)
    BY <2>1, <2>3, <2>4 DEF WithDefault
  <2> QED  BY <2>2, <2>6, <2>7, <2>8 DEF Good
<1> QED  BY <1>4, <1>5

\* Removing a peer leaves one default, if it leaves any peer (peer.Remove).
LEMMA RemovePeerGood ==
    ASSUME NEW list \in SUBSET Entries, Good(list), NEW name
    PROVE  RemovePeer(list, name) \in SUBSET Entries /\ Good(RemovePeer(list, name))
<1> DEFINE rest  == list \ Named(list, name)
           first == First(rest)
           new   == RemovePeer(list, name)
<1>1. rest \in SUBSET Entries /\ rest \subseteq list
  OBVIOUS
<1>2. Unique(rest) /\ AtMostOneDefault(rest)
  BY <1>1 DEF Good, Unique, AtMostOneDefault
<1>3. CASE Marked(Named(list, name)) = {}
  <2>1. new = rest
    BY <1>3 DEF RemovePeer
  <2>2. WithDefault(rest)
    BY <1>3 DEF Good, WithDefault, Marked, Named
  <2> QED  BY <1>1, <1>2, <2>1, <2>2 DEF Good
<1>4. CASE Marked(Named(list, name)) # {}
  <2>1. new = (rest \ first) \cup Mark(first, TRUE)
    BY <1>4 DEF RemovePeer
  <2>2. /\ first \subseteq rest
        /\ rest # {} => first # {}
        /\ \A e, f \in first : e = f
    BY <1>1, <1>2, FirstFacts, Zenon
  <2>3. \A e \in rest : ~e.mark
    BY <1>4 DEF Good, AtMostOneDefault, Marked, Named
  <2>4. first \in SUBSET Entries
    BY <1>1, <2>2
  <2>5. /\ Mark(first, TRUE) \in SUBSET Entries
        /\ \A e \in Mark(first, TRUE) : e.mark = TRUE /\ \E f \in first : f.name = e.name
        /\ \A f \in first : \E e \in Mark(first, TRUE) : e.name = f.name
    BY <2>4, MarkFacts, Zenon
  <2> HIDE DEF new, rest, first
  <2>6. new \in SUBSET Entries
    BY <1>1, <2>1, <2>5
  <2>7. ASSUME NEW e \in Mark(first, TRUE), NEW f \in Mark(first, TRUE) PROVE e = f
    <3>1. PICK g \in first : g.name = e.name
      BY <2>5, Zenon
    <3>2. PICK h \in first : h.name = f.name
      BY <2>5, Zenon
    <3>3. e.name = f.name /\ e.mark = f.mark
      BY <3>1, <3>2, <2>2, <2>5, Zenon
    <3> QED  BY <3>3, <2>5, EntryFacts, Zenon
  <2>8. \A e \in rest \ first, f \in Mark(first, TRUE) : e.name # f.name
    BY <2>2, <2>5, <1>2 DEF Unique
  <2>9. Unique(new)
    BY <2>1, <2>7, <2>8, <1>2 DEF Unique
  <2>10. AtMostOneDefault(new)
    BY <2>1, <2>3, <2>7 DEF AtMostOneDefault
  <2>11. WithDefault(new)
    BY <2>1, <2>2, <2>5 DEF WithDefault
  <2> QED  BY <2>6, <2>9, <2>10, <2>11 DEF Good, new
<1> QED  BY <1>3, <1>4

\* A list of tokens, of peers or of keys stays one.
LEMMA AfterOfKind ==
    ASSUME NEW list, OfKind(list), NEW c, kind \in Kinds,
           c.op \in {"add", "remove", "touch"}, c.op = "touch" => kind = "tokens",
           c.name \in Names, c.mark \in BOOLEAN
    PROVE  OfKind(After(list, c))
<1> DEFINE name == c.name
           From(new) == new \in SUBSET Entries
                        /\ \A e \in new : e.name = name \/ \E f \in list : f.name = e.name
<1>1. list \in SUBSET Entries
  BY DEF OfKind
<1>2. Named(list, name) \subseteq list
  BY DEF Named
<1>3. \A b \in BOOLEAN : Entry(name, b) \in Entries /\ Entry(name, b).name = name
  BY EntryFacts, Zenon
<1>4. \A S : S \subseteq list => From(S)
  BY <1>1
<1>5. \A S : \A b \in BOOLEAN : S \subseteq list => From(Mark(S, b))
  <2> SUFFICES ASSUME NEW S, NEW b \in BOOLEAN, S \subseteq list PROVE From(Mark(S, b))
    OBVIOUS
  <2>1. S \in SUBSET Entries
    BY <1>1
  <2>2. /\ Mark(S, b) \in SUBSET Entries
        /\ \A e \in Mark(S, b) : \E f \in S : f.name = e.name
    BY <2>1, MarkFacts
  <2> QED  BY <2>2
<1>6. \A S, T : From(S) /\ From(T) => From(S \cup T)
  OBVIOUS
<1>7. \A b \in BOOLEAN : From({Entry(name, b)})
  BY <1>3
<1>8. \A S : From(S) => OfKind(S)
  BY DEF OfKind
<1> HIDE DEF From
<1>9. CASE c.op = "touch"
  <2>1. list \ Named(list, name) \subseteq list
    OBVIOUS
  <2>2. From((list \ Named(list, name)) \cup Mark(Named(list, name), TRUE))
    BY <2>1, <1>2, <1>4, <1>5, <1>6, Zenon
  <2>3. After(list, c) = (list \ Named(list, name)) \cup Mark(Named(list, name), TRUE)
    BY <1>9 DEF After, Touch, RevokeToken
  <2> QED  BY <2>2, <2>3, <1>8
<1>10. CASE c.op = "add" /\ kind = "tokens"
  <2>1. After(list, c) = list \cup {Entry(name, FALSE)}
    BY <1>10 DEF After, CreateToken
  <2> QED  BY <2>1, <1>4, <1>6, <1>7, <1>8
<1>11. CASE c.op = "add" /\ kind = "keys"
  <2>1. After(list, c) = list \cup {Entry(name, TRUE)}
    BY <1>11 DEF After, AddKey
  <2> QED  BY <2>1, <1>4, <1>6, <1>7, <1>8
<1>12. CASE c.op = "add" /\ kind = "peers"
  <2> DEFINE default == c.mark \/ list = {} \/ Marked(Named(list, name)) # {}
             others  == list \ Named(list, name)
  <2>1. After(list, c) = {Entry(name, default)}
                           \cup (IF default THEN Mark(others, FALSE) ELSE others)
    BY <1>12 DEF After, AddPeer
  <2>2. others \subseteq list
    OBVIOUS
  <2>3. default \in BOOLEAN
    OBVIOUS
  <2> HIDE DEF others, default
  <2>4. From(IF default THEN Mark(others, FALSE) ELSE others)
    BY <2>2, <1>4, <1>5
  <2>5. From({Entry(name, default)})
    BY <2>3, <1>7
  <2> QED  BY <2>1, <2>4, <2>5, <1>6, <1>8
<1>13. CASE c.op = "remove" /\ kind # "peers"
  <2>1. After(list, c) \subseteq list
    BY <1>13 DEF After, RevokeToken, RemoveKey, Kinds
  <2> QED  BY <2>1, <1>4, <1>8
<1>14. CASE c.op = "remove" /\ kind = "peers"
  <2> DEFINE rest == list \ Named(list, name)
  <2>1. After(list, c) = RemovePeer(list, name)
    BY <1>14 DEF After
  <2>2. rest \subseteq list /\ First(rest) \subseteq list
    BY DEF First
  <2>3. From(rest) /\ From(rest \ First(rest)) /\ From(Mark(First(rest), TRUE))
    <3>1. rest \ First(rest) \subseteq list
      OBVIOUS
    <3> HIDE DEF rest
    <3> QED  BY <2>2, <3>1, <1>4, <1>5, Zenon
  <2>4. \/ RemovePeer(list, name) = rest
        \/ RemovePeer(list, name) = (rest \ First(rest)) \cup Mark(First(rest), TRUE)
    BY DEF RemovePeer
  <2> HIDE DEF rest
  <2>5. From((rest \ First(rest)) \cup Mark(First(rest), TRUE))
    BY <2>3, <1>6, Zenon
  <2>6. From(RemovePeer(list, name))
    BY <2>3, <2>4, <2>5
  <2> QED  BY <2>1, <2>6, <1>8
<1> QED  BY <1>9, <1>10, <1>11, <1>12, <1>13, <1>14 DEF Kinds

\* Whatever a command makes of a list of peers has its default.
LEMMA AfterGood ==
    ASSUME NEW list \in SUBSET Entries, Good(list), NEW c, kind = "peers",
           c.op \in {"add", "remove"}, c.name \in Names, c.mark \in BOOLEAN
    PROVE  Good(After(list, c))
<1>1. CASE c.op = "add"
  <2>1. After(list, c) = AddPeer(list, c.name, c.mark)
    BY <1>1 DEF After
  <2>2. Good(AddPeer(list, c.name, c.mark))
    BY AddPeerGood
  <2> QED  BY <2>1, <2>2
<1>2. CASE c.op = "remove"
  <2>1. After(list, c) = RemovePeer(list, c.name)
    BY <1>2 DEF After
  <2>2. Good(RemovePeer(list, c.name))
    BY RemovePeerGood
  <2> QED  BY <2>1, <2>2
<1> QED  BY <1>1, <1>2

-----------------------------------------------------------------------------
(* One step.                                                               *)

Cmds == [pc : {"idle", "load", "open", "write", "rename"},
         op : {"none", "add", "remove", "touch"},
         name : Names \cup {0}, mark : BOOLEAN, list : SUBSET Entries,
         fd : {"closed", "tmp", "list", "unlinked"}]

Contents == [list : SUBSET Entries, whole : BOOLEAN]

\* What a file holds is not "no file".
LEMMA ContentsFacts ==
    /\ None \notin Contents
    /\ \A list \in SUBSET Entries :
           /\ Whole(list) \in Contents /\ Whole(list).list = list /\ Whole(list).whole
           /\ Torn(list) \in Contents /\ Torn(list).list = list /\ ~Torn(list).whole
    /\ Truncated \in Contents /\ Truncated.list = {} /\ ~Truncated.whole
<1>1. Entries \subseteq [name : Nat, mark : BOOLEAN]
  BY NamesAssumption DEF Entries
<1>2. Contents \subseteq [list : SUBSET [name : Nat, mark : BOOLEAN], whole : BOOLEAN]
  BY <1>1 DEF Contents
<1>3. None \notin Contents
  BY <1>2, FilesAssumption
<1>4. ASSUME NEW list \in SUBSET Entries
      PROVE  /\ Whole(list) \in Contents /\ Whole(list).list = list /\ Whole(list).whole
             /\ Torn(list) \in Contents /\ Torn(list).list = list /\ ~Torn(list).whole
  BY DEF Whole, Torn, Contents
<1>5. Truncated = Torn({}) /\ {} \in SUBSET Entries
  BY DEF Truncated
<1> QED  BY <1>3, <1>4, <1>5, Zenon

\* A process that has nothing to do.
LEMMA IdleFacts ==
    /\ Idle \in Cmds /\ Idle.pc = "idle" /\ Idle.op = "none" /\ Idle.name = 0
    /\ Idle.mark = FALSE /\ Idle.list = {} /\ Idle.fd = "closed"
<1> QED  BY DEF Idle, Cmds

\* The list is one that some process wrote, or nothing.
LEMMA ContentFacts ==
    ASSUME IInv
    PROVE  /\ Content \in Contents /\ OfKind(Content.list)
           /\ kind = "peers" /\ Content.whole => Good(Content.list)
<1>1. CASE file["list"] = None
  <2>1. Content = Whole({})
    BY <1>1 DEF Content
  <2>2. Content \in Contents /\ Content.list = {}
    BY <2>1, ContentsFacts
  <2> QED  BY <2>2 DEF OfKind, Good, Unique, AtMostOneDefault, WithDefault
<1>2. CASE file["list"] # None
  <2>1. Content = file["list"]
    BY <1>2 DEF Content
  <2>2. Content \in Contents
    BY <1>2, <2>1 DEF IInv, TypeOK, Contents
  <2> QED  BY <1>2, <2>1, <2>2 DEF IInv, NamesInv, PeersInv
<1> QED  BY <1>1, <1>2

\* A file that a command may leave behind.
Sound(f) == file[f] # None => /\ OfKind(file[f].list)
                              /\ kind = "peers" /\ file[f].whole => Good(file[f].list)

\* The parts of the invariant that one process can break, when it takes no file
\* away.
LEMMA CmdKept ==
    ASSUME IInv, NEW p \in Procs, NEW c \in Cmds, cmd' = [cmd EXCEPT ![p] = c],
           UNCHANGED kind, clean' \in BOOLEAN,
           file' \in [{"list", "tmp"} -> Contents \cup {None}],
           \A f \in {"list", "tmp"} : Sound(f)' /\ (file[f] # None => file'[f] # None),
           c.pc # "idle" => c.op # "none" /\ c.name \in Names,
           c.op = "touch" => kind = "tokens",
           c.pc = "write" <=> c.fd # "closed",
           c.fd \in {"tmp", "list"} => file'[c.fd] # None,
           OfKind(c.list), kind = "peers" => Good(c.list),
           CleanInv'
    PROVE  IInv'
<1> USE DEF IInv
<1>1. cmd \in [Procs -> Cmds]
  BY DEF TypeOK, Cmds
<1>2. cmd'[p] = c /\ \A q \in Procs : q # p => cmd'[q] = cmd[q]
  BY <1>1
<1>3. TypeOK'
  <2>1. cmd' \in [Procs -> Cmds]
    BY <1>1
  <2>2. kind' \in Kinds
    BY DEF TypeOK
  <2>3. file' \in [{"list", "tmp"} -> [list : SUBSET Entries, whole : BOOLEAN] \cup {None}]
    BY DEF Contents
  <2>4. ASSUME NEW q \in Procs, cmd'[q].fd \in {"tmp", "list"}
        PROVE  file'[cmd'[q].fd] # None
    <3>1. CASE q = p
      BY <1>2, <2>4, <3>1
    <3>2. CASE q # p
      <4>1. cmd'[q] = cmd[q] /\ file[cmd[q].fd] # None
        BY <1>2, <2>4, <3>2 DEF TypeOK
      <4> QED  BY <2>4, <4>1
    <3> QED  BY <3>1, <3>2
  <2> QED  BY <2>1, <2>2, <2>3, <2>4 DEF TypeOK, Cmds
<1>4. \A q \in Procs : StepInv(q)'
  BY <1>2 DEF StepInv
<1>5. NamesInv'
  BY <1>2 DEF NamesInv, OfKind, Sound
<1>6. PeersInv'
  BY <1>2 DEF PeersInv, Sound
<1> QED  BY <1>3, <1>4, <1>5, <1>6

\* What holds of the files as they are.
LEMMA FilesFacts ==
    ASSUME IInv
    PROVE  /\ file \in [{"list", "tmp"} -> Contents \cup {None}]
           /\ \A f \in {"list", "tmp"} : Sound(f)
           /\ cmd \in [Procs -> Cmds]
<1> QED  BY DEF IInv, TypeOK, Contents, Cmds, NamesInv, PeersInv, Sound

\* Nothing else is under way beside a process that has always been alone.
LEMMA OthersIdle ==
    ASSUME IInv, clean, NEW p \in Procs, cmd[p].pc # "idle", NEW q \in Procs, q # p
    PROVE  cmd[q].pc = "idle"
<1> QED  BY DEF IInv, CleanInv

\* An idle process is not in the way of the invariant.
LEMMA CleanKept ==
    ASSUME IInv, NEW p \in Procs, cmd[p].pc # "idle", UNCHANGED clean,
           \A q \in Procs : q # p => cmd'[q].pc = cmd[q].pc,
           clean => Content'.whole /\ Progress(p)'
    PROVE  CleanInv'
<1> SUFFICES ASSUME clean PROVE CleanInv'
  BY DEF CleanInv
<1>1. \A q \in Procs : q # p => cmd'[q].pc = "idle"
  BY OthersIdle
<1> QED  BY <1>1 DEF CleanInv, Progress

\* A process that has stopped leaves the invariant as it was.
LEMMA EndKept ==
    ASSUME IInv, NEW p \in Procs, cmd[p].pc # "idle", End(p), UNCHANGED <<kind, file, clean>>
    PROVE  IInv'
<1>1. cmd' = [cmd EXCEPT ![p] = Idle]
  BY DEF End
<1>2. cmd'[p] = Idle /\ \A q \in Procs : q # p => cmd'[q] = cmd[q]
  BY <1>1, FilesFacts
<1>3. CleanInv'
  <2>1. Content' = Content
    BY DEF Content
  <2>2. Progress(p)'
    BY <1>2, IdleFacts DEF Progress
  <2> QED  BY <1>2, <2>1, <2>2, CleanKept DEF IInv, CleanInv
<1>4. OfKind({}) /\ Good({})
  BY DEF OfKind, Good, Unique, AtMostOneDefault, WithDefault
<1>5. file' \in [{"list", "tmp"} -> Contents \cup {None}]
      /\ \A f \in {"list", "tmp"} : Sound(f)' /\ (file[f] # None => file'[f] # None)
  BY FilesFacts DEF Sound, OfKind
<1> QED  BY <1>1, <1>3, <1>4, <1>5, IdleFacts, CmdKept DEF IInv, TypeOK

\* A command, or the use of a token, begins.
LEMMA BeginKept ==
    ASSUME IInv, NEW p \in Procs, NEW op \in {"add", "remove", "touch"}, NEW name \in Names,
           NEW mark \in BOOLEAN, op = "touch" => kind = "tokens", Begin(p, op, name, mark)
    PROVE  IInv'
<1> DEFINE c == [Idle EXCEPT !.pc = "load", !.op = op, !.name = name, !.mark = mark]
<1>1. cmd' = [cmd EXCEPT ![p] = c]
  BY DEF Begin
<1>2. c \in Cmds /\ c.pc = "load" /\ c.op = op /\ c.name = name /\ c.list = {} /\ c.fd = "closed"
  BY DEF Idle, Cmds
<1> HIDE DEF c
<1>3. cmd'[p] = c /\ \A q \in Procs : q # p => cmd'[q] = cmd[q]
  BY <1>1, FilesFacts
<1>4. CleanInv'
  <2> SUFFICES ASSUME clean' PROVE CleanInv'
    BY DEF CleanInv
  <2>1. clean /\ \A q \in Procs : cmd[q].pc = "idle"
    BY DEF Begin
  <2>2. Content' = Content
    BY DEF Content, Begin
  <2>3. \A q \in Procs : Progress(q)'
    BY <1>2, <1>3, <2>1 DEF Progress
  <2> QED  BY <1>3, <2>1, <2>2, <2>3 DEF IInv, CleanInv
<1>5. OfKind({}) /\ Good({})
  BY DEF OfKind, Good, Unique, AtMostOneDefault, WithDefault
<1>6. file' \in [{"list", "tmp"} -> Contents \cup {None}]
      /\ \A f \in {"list", "tmp"} : Sound(f)' /\ (file[f] # None => file'[f] # None)
  BY FilesFacts DEF Sound, OfKind, Begin
<1>7. kind' = kind /\ clean' \in BOOLEAN
  BY DEF Begin, IInv, TypeOK
<1> QED  BY <1>1, <1>2, <1>4, <1>5, <1>6, <1>7, CmdKept

\* The list is read, and what it is to become is worked out.
LEMMA LoadKept ==
    ASSUME IInv, NEW p \in Procs, Load(p)
    PROVE  IInv'
<1>1. CASE Readable /\ Allowed(Content.list, cmd[p])
  <2> DEFINE new == After(Content.list, cmd[p])
             c   == [cmd[p] EXCEPT !.pc = "open", !.list = new]
  <2>1. cmd[p] \in Cmds /\ cmd[p].pc = "load" /\ UNCHANGED <<kind, file, clean>>
    BY FilesFacts DEF Load
  <2>2. cmd[p].op \in {"add", "remove", "touch"} /\ cmd[p].name \in Names
        /\ (cmd[p].op = "touch" => kind = "tokens") /\ cmd[p].fd = "closed"
        /\ cmd[p].mark \in BOOLEAN
    BY <2>1 DEF IInv, StepInv, Cmds
  <2>3. OfKind(new)
    BY <2>2, AfterOfKind, ContentFacts DEF IInv, TypeOK
  <2>4. kind = "peers" => Good(new)
    <3> SUFFICES ASSUME kind = "peers" PROVE Good(new)
      OBVIOUS
    <3>1. Good(Content.list) /\ Content.list \in SUBSET Entries
      BY <1>1, ContentFacts DEF Readable, OfKind
    <3> QED  BY <2>2, <3>1, AfterGood
  <2>5. cmd' = [cmd EXCEPT ![p] = c]
    BY <1>1, FilesFacts DEF Load
  <2>6. new \in SUBSET Entries
    BY <2>3 DEF OfKind
  <2> HIDE DEF new
  <2>7. /\ c \in Cmds /\ c.pc = "open" /\ c.list = new /\ c.op = cmd[p].op
        /\ c.name = cmd[p].name /\ c.mark = cmd[p].mark /\ c.fd = cmd[p].fd
    BY <2>1, <2>6 DEF Cmds
  <2> HIDE DEF c
  <2>8. cmd'[p] = c /\ \A q \in Procs : q # p => cmd'[q] = cmd[q]
    BY <2>5, FilesFacts
  <2>9. CleanInv'
    <3>1. Content' = Content
      BY <2>1 DEF Content
    <3>2. /\ kind' = kind
          /\ cmd'[p].op = cmd[p].op /\ cmd'[p].name = cmd[p].name
          /\ cmd'[p].mark = cmd[p].mark
      BY <2>1, <2>7, <2>8
    <3>3. Allowed(Content.list, cmd[p])' /\ (After(Content.list, cmd[p]))' = new
      BY <1>1, <3>1, <3>2 DEF Allowed, After, new
    <3>4. Progress(p)'
      BY <2>7, <2>8, <3>3 DEF Progress
    <3> QED  BY <2>1, <2>8, <3>1, <3>4, CleanKept DEF IInv, CleanInv
  <2>10. file' \in [{"list", "tmp"} -> Contents \cup {None}]
         /\ \A f \in {"list", "tmp"} : Sound(f)' /\ (file[f] # None => file'[f] # None)
    BY <2>1, FilesFacts DEF Sound, OfKind
  <2> QED  BY <2>1, <2>2, <2>3, <2>4, <2>5, <2>7, <2>9, <2>10, CmdKept DEF IInv, TypeOK
<1>2. CASE ~(Readable /\ Allowed(Content.list, cmd[p]))
  BY <1>2, EndKept DEF Load
<1> QED  BY <1>1, <1>2

\* The file beside the list is truncated, whoever is writing it.
LEMMA OpenKept ==
    ASSUME IInv, NEW p \in Procs, OpenTmp(p)
    PROVE  IInv'
<1> DEFINE c == [cmd[p] EXCEPT !.pc = "write", !.fd = "tmp"]
<1>1. cmd[p] \in Cmds /\ cmd[p].pc = "open" /\ UNCHANGED <<kind, clean>>
      /\ file' = [file EXCEPT !["tmp"] = Truncated]
  BY FilesFacts DEF OpenTmp, Open
<1>2. cmd' = [cmd EXCEPT ![p] = c]
  BY FilesFacts DEF OpenTmp, Open
<1>3. /\ c \in Cmds /\ c.pc = "write" /\ c.fd = "tmp" /\ c.list = cmd[p].list
      /\ c.op = cmd[p].op /\ c.name = cmd[p].name /\ c.mark = cmd[p].mark
  BY <1>1 DEF Cmds
<1> HIDE DEF c
<1>4. cmd'[p] = c /\ \A q \in Procs : q # p => cmd'[q] = cmd[q]
  BY <1>2, FilesFacts
<1>5. file'["tmp"] = Truncated /\ file'["list"] = file["list"]
  BY <1>1, FilesFacts
<1>6. CleanInv'
  <2>1. Content' = Content
    BY <1>5 DEF Content
  <2>2. clean => Progress(p)'
    <3> SUFFICES ASSUME clean PROVE Progress(p)'
      OBVIOUS
    <3>1. Progress(p)
      BY DEF IInv, CleanInv
    <3>2. Allowed(Content.list, cmd[p])' /\ cmd'[p].list = After(Content.list, cmd[p])'
      BY <1>1, <1>3, <1>4, <2>1, <3>1 DEF Progress, Allowed, After
    <3> QED  BY <1>3, <1>4, <1>5, <3>2 DEF Progress
  <2> QED  BY <1>1, <1>4, <2>1, <2>2, CleanKept DEF IInv, CleanInv
<1>7. file' \in [{"list", "tmp"} -> Contents \cup {None}]
  BY <1>1, FilesFacts, ContentsFacts
<1>8. \A f \in {"list", "tmp"} : Sound(f)' /\ (file[f] # None => file'[f] # None)
  <2>1. Sound("tmp")' /\ file'["tmp"] # None
    BY <1>5, ContentsFacts DEF Sound, OfKind
  <2>2. Sound("list")' /\ (file["list"] # None => file'["list"] # None)
    BY <1>1, <1>5, FilesFacts DEF Sound, OfKind
  <2> QED  BY <2>1, <2>2
<1>9. cmd[p].op # "none" /\ cmd[p].name \in Names /\ (cmd[p].op = "touch" => kind = "tokens")
      /\ OfKind(cmd[p].list) /\ (kind = "peers" => Good(cmd[p].list))
  BY <1>1 DEF IInv, StepInv, NamesInv, PeersInv
<1> QED  BY <1>1, <1>2, <1>3, <1>5, <1>6, <1>7, <1>8, <1>9, ContentsFacts, CmdKept DEF IInv, TypeOK

\* What a write leaves in the file.
LEMMA WrittenFacts ==
    ASSUME IInv, NEW p \in Procs, NEW old \in Contents, OfKind(old.list),
           NEW content \in Written(p, old)
    PROVE  /\ content \in Contents /\ OfKind(content.list)
           /\ kind = "peers" /\ content.whole => Good(content.list)
           /\ old.list = {} => content = Whole(cmd[p].list)
<1>1. cmd[p].list \in SUBSET Entries /\ OfKind(cmd[p].list)
      /\ (kind = "peers" => Good(cmd[p].list))
  BY DEF IInv, NamesInv, PeersInv, OfKind
<1>2. CASE content = Whole(cmd[p].list)
  BY <1>1, <1>2, ContentsFacts
<1>3. CASE content # Whole(cmd[p].list)
  <2>1. old.list # {}
    BY <1>3 DEF Written
  <2>2. PICK n \in Names \cup Foreign :
           content = Torn(IF kind = "keys" THEN cmd[p].list \cup {e \in old.list : e.name >= n}
                          ELSE {})
    BY <1>3, <2>1 DEF Written
  <2> DEFINE list == IF kind = "keys" THEN cmd[p].list \cup {e \in old.list : e.name >= n} ELSE {}
  <2>3. list \in SUBSET Entries /\ OfKind(list)
    BY <1>1 DEF OfKind
  <2> HIDE DEF list
  <2>4. content = Torn(list)
    BY <2>2 DEF list
  <2> QED  BY <2>1, <2>3, <2>4, ContentsFacts
<1> QED  BY <1>2, <1>3

\* The list is written to whatever the file that was opened has become.
LEMMA WriteKept ==
    ASSUME IInv, NEW p \in Procs, WriteTmp(p)
    PROVE  IInv'
<1> DEFINE c == [cmd[p] EXCEPT !.pc = "rename", !.fd = "closed", !.list = {}]
<1>1. /\ cmd[p] \in Cmds /\ cmd[p].pc = "write" /\ UNCHANGED <<kind, clean>>
      /\ clean' \in BOOLEAN
  BY FilesFacts DEF WriteTmp, IInv, TypeOK
<1>2. cmd' = [cmd EXCEPT ![p] = c]
  BY FilesFacts DEF WriteTmp
<1>3. /\ c \in Cmds /\ c.pc = "rename" /\ c.fd = "closed" /\ c.list = {}
      /\ c.op = cmd[p].op /\ c.name = cmd[p].name /\ c.mark = cmd[p].mark
  BY <1>1 DEF Cmds
<1> HIDE DEF c
<1>4. cmd'[p] = c /\ \A q \in Procs : q # p => cmd'[q] = cmd[q]
  BY <1>2, FilesFacts
<1>5. cmd[p].op # "none" /\ cmd[p].name \in Names /\ (cmd[p].op = "touch" => kind = "tokens")
      /\ OfKind({}) /\ Good({})
  BY <1>1 DEF IInv, StepInv, OfKind, Good, Unique, AtMostOneDefault, WithDefault
<1>6. CASE cmd[p].fd = "unlinked"
  <2>1. file' = file
    BY <1>6 DEF WriteTmp
  <2>2. ~clean
    BY <1>1, <1>6 DEF IInv, CleanInv, Progress
  <2>3. CleanInv'
    BY <1>1, <2>2 DEF CleanInv
  <2>4. file' \in [{"list", "tmp"} -> Contents \cup {None}]
        /\ \A f \in {"list", "tmp"} : Sound(f)' /\ (file[f] # None => file'[f] # None)
    BY <1>1, <2>1, FilesFacts DEF Sound, OfKind
  <2> QED  BY <1>1, <1>2, <1>3, <1>5, <2>3, <2>4, CmdKept
<1>7. CASE cmd[p].fd # "unlinked"
  <2> DEFINE fd == cmd[p].fd
  <2>1. fd \in {"tmp", "list"}
    BY <1>1, <1>7 DEF IInv, StepInv, Cmds
  <2>2. file[fd] # None /\ file[fd] \in Contents /\ OfKind(file[fd].list)
    BY <2>1, FilesFacts DEF IInv, TypeOK, Sound
  <2>3. PICK content \in Written(p, file[fd]) : file' = [file EXCEPT ![fd] = content]
    BY <1>7 DEF WriteTmp
  <2>4. /\ content \in Contents /\ OfKind(content.list)
        /\ kind = "peers" /\ content.whole => Good(content.list)
        /\ file[fd].list = {} => content = Whole(cmd[p].list)
    BY <2>2, <2>3, WrittenFacts
  <2> HIDE DEF fd
  <2>5. file'[fd] = content /\ \A f \in {"list", "tmp"} : f # fd => file'[f] = file[f]
    BY <2>1, <2>3, FilesFacts
  <2>6. clean => Content'.whole /\ Progress(p)'
    <3> SUFFICES ASSUME clean PROVE Content'.whole /\ Progress(p)'
      OBVIOUS
    <3>1. Progress(p) /\ Content.whole
      BY DEF IInv, CleanInv
    <3>2. fd = "tmp" /\ file["tmp"] = Truncated
      BY <1>1, <3>1 DEF Progress, fd
    <3>3. Content' = Content
      BY <2>5, <3>2 DEF Content
    <3>4. file'["tmp"] = Whole(cmd[p].list)
      BY <2>4, <2>5, <3>2, ContentsFacts
    <3>5. /\ Allowed(Content.list, cmd[p])'
          /\ file'["tmp"] = Whole(After(Content.list, cmd[p])')
      <4>1. /\ cmd'[p].op = cmd[p].op /\ cmd'[p].name = cmd[p].name
            /\ cmd'[p].mark = cmd[p].mark /\ kind' = kind
        BY <1>1, <1>3, <1>4
      <4>2. Allowed(Content.list, cmd[p]) /\ cmd[p].list = After(Content.list, cmd[p])
        BY <1>1, <3>1 DEF Progress
      <4>3. Allowed(Content.list, cmd[p])'
        BY <3>3, <4>1, <4>2 DEF Allowed
      <4>4. After(Content.list, cmd[p])' = After(Content.list, cmd[p])
        BY <3>3, <4>1 DEF After
      <4> QED  BY <3>4, <4>2, <4>3, <4>4
    <3>6. Whole(After(Content.list, cmd[p]))' = Whole(After(Content.list, cmd[p])')
      BY DEF Whole
    <3> QED  BY <1>3, <1>4, <3>1, <3>3, <3>5, <3>6 DEF Progress
  <2>7. CleanInv'
    BY <1>1, <1>4, <2>6, CleanKept
  <2>8. file' \in [{"list", "tmp"} -> Contents \cup {None}]
    BY <2>1, <2>3, <2>4, FilesFacts
  <2>9. ASSUME NEW f \in {"list", "tmp"} PROVE Sound(f)' /\ (file[f] # None => file'[f] # None)
    <3>1. CASE f = fd
      BY <1>1, <2>4, <2>5, <3>1, ContentsFacts DEF Sound, OfKind
    <3>2. CASE f # fd
      BY <1>1, <2>5, <3>2, FilesFacts DEF Sound, OfKind
    <3> QED  BY <3>1, <3>2
  <2> QED  BY <1>1, <1>2, <1>3, <1>5, <2>7, <2>8, <2>9, CmdKept
<1> QED  BY <1>6, <1>7

\* What another process has open after a rename is open under its new name.
LEMMA MovedFacts ==
    ASSUME NEW c \in Cmds
    PROVE  /\ [c EXCEPT !.fd = Moved(@)] \in Cmds
           /\ \A x \in {"pc", "op", "name", "mark", "list"} : [c EXCEPT !.fd = Moved(@)][x] = c[x]
           /\ [c EXCEPT !.fd = Moved(@)].fd = Moved(c.fd)
           /\ Moved(c.fd) = "closed" <=> c.fd = "closed"
           /\ Moved(c.fd) = "list" <=> c.fd = "tmp"
           /\ Moved(c.fd) # "tmp"
<1>1. Moved(c.fd) \in {"closed", "list", "unlinked"}
      /\ (Moved(c.fd) = "closed" <=> c.fd = "closed") /\ (Moved(c.fd) = "list" <=> c.fd = "tmp")
  BY DEF Moved, Cmds
<1> DEFINE fd == Moved(c.fd)
<1>2. [c EXCEPT !.fd = Moved(@)] = [c EXCEPT !.fd = fd]
  OBVIOUS
<1>3. fd \in {"closed", "list", "unlinked"}
  BY <1>1
<1> HIDE DEF fd
<1>4. /\ [c EXCEPT !.fd = fd] \in Cmds /\ [c EXCEPT !.fd = fd].fd = fd
      /\ \A x \in {"pc", "op", "name", "mark", "list"} : [c EXCEPT !.fd = fd][x] = c[x]
  BY <1>3 DEF Cmds
<1> QED  BY <1>1, <1>2, <1>4 DEF fd

\* The file beside the list, whoever wrote it, becomes the list.
LEMMA RenameKept ==
    ASSUME IInv, NEW p \in Procs, Rename(p)
    PROVE  IInv'
<1>1. CASE file["tmp"] = None
  BY <1>1, EndKept DEF Rename
<1>2. CASE file["tmp"] # None
  <2>1. /\ cmd[p].pc = "rename" /\ UNCHANGED <<kind, clean>>
        /\ file' = [file EXCEPT !["list"] = file["tmp"], !["tmp"] = None]
        /\ cmd' = [q \in Procs |-> IF q = p THEN Idle ELSE [cmd[q] EXCEPT !.fd = Moved(@)]]
    BY <1>2 DEF Rename
  <2>2. file'["list"] = file["tmp"] /\ file'["tmp"] = None
    BY <2>1, FilesFacts
  <2>3. cmd'[p] = Idle
    BY <2>1
  <2>4. ASSUME NEW q \in Procs, q # p
        PROVE  /\ cmd'[q] \in Cmds
               /\ cmd'[q].pc = cmd[q].pc /\ cmd'[q].op = cmd[q].op /\ cmd'[q].name = cmd[q].name
               /\ cmd'[q].mark = cmd[q].mark /\ cmd'[q].list = cmd[q].list
               /\ cmd'[q].fd = "closed" <=> cmd[q].fd = "closed"
               /\ cmd'[q].fd = "list" => cmd[q].fd = "tmp"
               /\ cmd'[q].fd # "tmp"
    <3>1. cmd'[q] = [cmd[q] EXCEPT !.fd = Moved(@)] /\ cmd[q] \in Cmds
      BY <2>1, <2>4, FilesFacts
    <3> QED  BY <3>1, MovedFacts
  <2>5. TypeOK'
    <3>1. cmd' \in [Procs -> Cmds]
      BY <2>1, <2>3, <2>4, IdleFacts
    <3>2. file' \in [{"list", "tmp"} -> [list : SUBSET Entries, whole : BOOLEAN] \cup {None}]
      BY <2>1, FilesFacts DEF Contents
    <3>3. \A q \in Procs : cmd'[q].fd \in {"tmp", "list"} => file'[cmd'[q].fd] # None
      BY <1>2, <2>2, <2>3, <2>4, IdleFacts
    <3> QED  BY <2>1, <3>1, <3>2, <3>3 DEF IInv, TypeOK, Cmds
  <2>6. ASSUME NEW q \in Procs PROVE StepInv(q)'
    <3>1. CASE q = p
      BY <2>3, <3>1, IdleFacts DEF StepInv
    <3>2. CASE q # p
      <4>1. StepInv(q)
        BY DEF IInv
      <4> QED  BY <2>1, <2>4, <3>2, <4>1 DEF StepInv
    <3> QED  BY <3>1, <3>2
  <2>7. Sound("list")' /\ Sound("tmp")'
    BY <2>1, <2>2, FilesFacts DEF Sound, OfKind
  <2>8. \A q \in Procs : cmd'[q].list = {} \/ cmd'[q].list = cmd[q].list
    BY <2>3, <2>4, IdleFacts
  <2>9. NamesInv'
    BY <2>1, <2>7, <2>8 DEF IInv, NamesInv, Sound, OfKind
  <2>10. PeersInv'
    <3>1. Good({})
      BY DEF Good, Unique, AtMostOneDefault, WithDefault
    <3> QED  BY <2>1, <2>7, <2>8, <3>1 DEF IInv, PeersInv, Sound
  <2>11. CleanInv'
    <3>1. ASSUME clean PROVE Content'.whole
      <4>1. file["tmp"] = Whole(After(Content.list, cmd[p]))
        BY <2>1, <3>1 DEF IInv, CleanInv, Progress
      <4>2. Content' = file["tmp"]
        BY <1>2, <2>2 DEF Content
      <4> QED  BY <4>1, <4>2 DEF Whole
    <3>2. Progress(p)'
      BY <2>3, IdleFacts DEF Progress
    <3> QED  BY <2>1, <2>4, <3>1, <3>2, CleanKept
  <2> QED  BY <2>5, <2>6, <2>9, <2>10, <2>11 DEF IInv
<1> QED  BY <1>1, <1>2

\* The files are as they were when the first command begins.
LEMMA InitSound == Init => IInv
<1> SUFFICES ASSUME Init PROVE IInv
  OBVIOUS
<1> DEFINE foreign == {Entry(n, FALSE) : n \in Foreign}
<1>1. foreign \in SUBSET Entries
  <2>1. \A n \in Foreign : Entry(n, FALSE) \in Entries
    BY DEF Entry, Entries
  <2> QED  BY <2>1, Zenon
<1>2. /\ kind \in Kinds /\ clean = TRUE
      /\ \A p \in Procs : cmd[p] = Idle
      /\ cmd \in [Procs -> Cmds]
  BY IdleFacts DEF Init
<1>3. /\ file = [f \in {"list", "tmp"} |->
                    IF f = "list" /\ kind = "keys" THEN Whole(foreign) ELSE None]
      /\ file["tmp"] = None
      /\ file["list"] = IF kind = "keys" THEN Whole(foreign) ELSE None
  BY DEF Init
<1> HIDE DEF foreign
<1>4. file \in [{"list", "tmp"} -> Contents \cup {None}]
  BY <1>1, <1>3, ContentsFacts
<1>5. TypeOK
  <2>1. file \in [{"list", "tmp"} -> [list : SUBSET Entries, whole : BOOLEAN] \cup {None}]
    BY <1>4 DEF Contents
  <2>2. \A p \in Procs : cmd[p].fd = "closed"
    BY <1>2, IdleFacts
  <2> QED  BY <1>2, <2>1, <2>2 DEF TypeOK, Cmds
<1>6. \A p \in Procs : StepInv(p)
  BY <1>2, IdleFacts DEF StepInv
<1>7. NamesInv
  <2>1. file["list"] # None => OfKind(file["list"].list)
    BY <1>1, <1>3, ContentsFacts DEF OfKind
  <2> QED  BY <1>2, <1>3, <2>1, IdleFacts DEF NamesInv, OfKind
<1>8. PeersInv
  BY <1>2, <1>3, IdleFacts DEF PeersInv, Good, Unique, AtMostOneDefault, WithDefault
<1>9. CleanInv
  <2>1. Content.whole
    BY <1>1, <1>3, ContentsFacts DEF Content
  <2> QED  BY <1>2, <2>1, IdleFacts DEF CleanInv, Progress
<1> QED  BY <1>5, <1>6, <1>7, <1>8, <1>9 DEF IInv

\* One lemma for each action, or for each kind of beginning.
LEMMA NextKept ==
    ASSUME IInv, [Next]_vars
    PROVE  IInv'
<1>1. ASSUME NEW p \in Procs, TokenCreate(p) \/ PeerAdd(p) \/ KeyAdd(p) PROVE IInv'
  BY <1>1, BeginKept DEF TokenCreate, PeerAdd, KeyAdd
<1>2. ASSUME NEW p \in Procs, TokenRevoke(p) \/ PeerRemove(p) \/ KeyRemove(p) PROVE IInv'
  BY <1>2, BeginKept DEF TokenRevoke, PeerRemove, KeyRemove
<1>3. ASSUME NEW p \in Procs, Verify(p) PROVE IInv'
  <2>1. PICK e \in Content.list : Begin(p, "touch", e.name, FALSE)
    BY <1>3 DEF Verify
  <2>2. e.name \in Names
    BY <1>3, ContentFacts DEF Verify, OfKind
  <2>3. kind = "tokens"
    BY <1>3 DEF Verify
  <2> QED  BY <2>1, <2>2, <2>3, BeginKept
<1>4. ASSUME NEW p \in Procs, Stop(p) PROVE IInv'
  BY <1>4, EndKept DEF Stop
<1>5. ASSUME NEW p \in Procs, Change(p) PROVE IInv'
  BY <1>4, <1>5, LoadKept, OpenKept, WriteKept, RenameKept DEF Change
<1>6. CASE Next
  BY <1>1, <1>2, <1>3, <1>5, <1>6 DEF Next
<1>7. CASE UNCHANGED vars
  <2>1. TypeOK' /\ (\A p \in Procs : StepInv(p)')
    BY <1>7 DEF IInv, vars, TypeOK, StepInv
  <2>2. NamesInv' /\ PeersInv'
    BY <1>7 DEF IInv, vars, NamesInv, PeersInv, OfKind
  <2>3. Content' = Content /\ kind' = kind /\ clean' = clean /\ cmd' = cmd /\ file' = file
    BY <1>7 DEF vars, Content
  <2>4. ASSUME NEW p \in Procs, Progress(p) PROVE Progress(p)'
    BY <2>3, <2>4 DEF Progress, Allowed, After
  <2>5. CleanInv'
    BY <2>3, <2>4 DEF IInv, CleanInv
  <2> QED  BY <2>1, <2>2, <2>5 DEF IInv
<1> QED  BY <1>6, <1>7

-----------------------------------------------------------------------------
(* Theorems.                                                               *)

\* The files hold what processes have written, each step in its turn.
THEOREM Invariance == Spec => []IInv
<1>1. Init => IInv
  BY InitSound
<1>2. IInv /\ [Next]_vars => IInv'
  BY NextKept
<1> QED  BY <1>1, <1>2, PTL DEF Spec

\* Whatever processes do at the same time and wherever they are killed, a file
\* holds a list, and a process that has a file open has one that is there.
THEOREM TypeCorrect == Spec => []TypeOK
<1>1. IInv => TypeOK
  BY DEF IInv
<1> QED  BY <1>1, Invariance, PTL

\* A list of peers that can be read has one default and every name once, for any
\* number of peers and of processes that overlap or are killed (Add, Remove).
THEOREM DefaultKept == Spec => []OneDefault
<1>1. ASSUME IInv PROVE OneDefault
  <2> SUFFICES ASSUME kind = "peers", Content.whole, Content.list # {}
               PROVE  /\ Cardinality(Marked(Content.list)) = 1
                      /\ \A e, f \in Content.list : e.name = f.name => e = f
    BY DEF OneDefault
  <2>1. Good(Content.list)
    BY <1>1, ContentFacts
  <2>2. PICK e \in Content.list : e.mark
    BY <2>1 DEF Good, WithDefault
  <2>3. Marked(Content.list) = {e}
    BY <2>1, <2>2 DEF Good, AtMostOneDefault, Marked
  <2>4. Cardinality(Marked(Content.list)) = 1
    BY <2>3, FS_Singleton
  <2> QED  BY <2>1, <2>4 DEF Good, Unique
<1> QED  BY <1>1, Invariance, PTL

\* As long as commands have not overlapped, a list changes in one step and by all
\* that one command asked for, wherever one was killed (Save, authkeys.Write).
THEOREM ChangedAtOnce == Spec => AllOrNothing
<1>1. ASSUME IInv, [Next]_vars, clean'
      PROVE  \/ Content' = Content
             \/ \E p \in Procs :
                    /\ cmd[p].pc = "rename" /\ cmd'[p].pc = "idle"
                    /\ Allowed(Content.list, cmd[p])
                    /\ Content' = Whole(After(Content.list, cmd[p]))
  <2>1. ASSUME NEW p \in Procs, Rename(p), file["tmp"] # None
        PROVE  /\ cmd[p].pc = "rename" /\ cmd'[p].pc = "idle"
               /\ Allowed(Content.list, cmd[p])
               /\ Content' = Whole(After(Content.list, cmd[p]))
    <3>1. clean /\ cmd[p].pc = "rename"
      BY <1>1, <2>1 DEF Rename
    <3>2. Allowed(Content.list, cmd[p]) /\ file["tmp"] = Whole(After(Content.list, cmd[p]))
      BY <1>1, <3>1 DEF IInv, CleanInv, Progress
    <3>3. file'["list"] = file["tmp"]
      BY <1>1, <2>1, FilesFacts DEF Rename
    <3>4. Content' = file["tmp"]
      BY <2>1, <3>3 DEF Content
    <3>5. cmd'[p] = Idle
      BY <2>1 DEF Rename
    <3> QED  BY <3>1, <3>2, <3>4, <3>5, IdleFacts
  <2>2. ASSUME NEW p \in Procs, Rename(p), file["tmp"] = None PROVE Content' = Content
    BY <2>2 DEF Rename, Content
  <2>3. ASSUME NEW p \in Procs, OpenTmp(p) PROVE Content' = Content
    <3>1. file'["list"] = file["list"]
      BY <1>1, <2>3, FilesFacts DEF OpenTmp, Open
    <3> QED  BY <3>1 DEF Content
  <2>4. ASSUME NEW p \in Procs, WriteTmp(p) PROVE Content' = Content
    <3>1. cmd[p].pc = "write" /\ clean
      BY <1>1, <2>4 DEF WriteTmp
    <3>2. cmd[p].fd = "tmp"
      BY <1>1, <3>1 DEF IInv, CleanInv, Progress
    <3>3. file'["list"] = file["list"]
      BY <1>1, <2>4, <3>2, FilesFacts DEF WriteTmp
    <3> QED  BY <3>3 DEF Content
  <2>5. ASSUME file' = file PROVE Content' = Content
    BY <2>5 DEF Content
  <2>6. ASSUME NEW p \in Procs,
               TokenCreate(p) \/ TokenRevoke(p) \/ Verify(p) \/ PeerAdd(p) \/ PeerRemove(p)
                 \/ KeyAdd(p) \/ KeyRemove(p)
        PROVE  file' = file
    BY <2>6 DEF TokenCreate, TokenRevoke, Verify, PeerAdd, PeerRemove, KeyAdd, KeyRemove, Begin
  <2>7. ASSUME NEW p \in Procs, Load(p) \/ Stop(p) PROVE file' = file
    BY <2>7 DEF Load, Stop
  <2>8. CASE UNCHANGED vars
    BY <2>5, <2>8 DEF vars
  <2>9. CASE Next
    BY <2>1, <2>2, <2>3, <2>4, <2>5, <2>6, <2>7, <2>9 DEF Next, Change
  <2> QED  BY <1>1, <2>8, <2>9
<1>2. IInv /\ [Next]_vars =>
        [clean' =>
          \/ Content' = Content
          \/ \E p \in Procs :
                 /\ cmd[p].pc = "rename" /\ cmd'[p].pc = "idle"
                 /\ Allowed(Content.list, cmd[p])
                 /\ Content' = Whole(After(Content.list, cmd[p]))]_vars
  BY <1>1
<1> QED  BY <1>2, Invariance, PTL DEF Spec, AllOrNothing
=============================================================================
