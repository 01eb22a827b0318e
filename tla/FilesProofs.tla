----------------------------- MODULE FilesProofs -----------------------------
(***************************************************************************)
(* Proofs about Files: what stays untouched, and what a list and a read    *)
(* return, for every file system, every workspace in it and the links in   *)
(* it, any number of concurrent calls and any archives and paths.          *)
(***************************************************************************)
EXTENDS Files, SequenceTheorems, WellFoundedInduction, TLAPS

-----------------------------------------------------------------------------
(* Paths                                                                   *)

Path == Seq(STRING)

\* A prefix, component by component.
LEMMA PrefixDef ==
    ASSUME NEW s \in Path, NEW t \in Path
    PROVE  IsPrefix(s, t) <=>
              Len(s) <= Len(t) /\ \A i \in 1 .. Len(s) : s[i] = t[i]
<1>1. /\ Len(s) \in Nat /\ Len(t) \in Nat
      /\ \A i \in 1 .. Len(s) : s[i] \in STRING
      /\ \A i \in 1 .. Len(t) : t[i] \in STRING
  BY ElementOfSeq DEF Path
<1>2. SubSeq(s, 1, Len(s)) = s
  BY SubSeqFull DEF Path
<1>3. ASSUME Len(s) <= Len(t)
      PROVE  /\ SubSeq(t, 1, Len(s)) \in Path
             /\ Len(SubSeq(t, 1, Len(s))) = Len(s)
             /\ \A i \in 1 .. Len(s) : SubSeq(t, 1, Len(s))[i] = t[i]
  <2>1. \A i \in 1 .. Len(s) : t[i] \in STRING
    BY <1>1, <1>3
  <2>2. /\ SubSeq(t, 1, Len(s)) \in Seq(STRING)
        /\ Len(SubSeq(t, 1, Len(s))) = IF 1 <= Len(s) THEN Len(s) - 1 + 1 ELSE 0
        /\ \A i \in 1 .. Len(s) - 1 + 1 : SubSeq(t, 1, Len(s))[i] = t[1 + i - 1]
    BY <1>1, <2>1, SubSeqProperties
  <2> QED BY <1>1, <2>2 DEF Path
<1>4. ASSUME Len(s) <= Len(t), \A i \in 1 .. Len(s) : s[i] = t[i]
      PROVE  SubSeq(t, 1, Len(s)) = s
  BY <1>3, <1>4, SeqEqual DEF Path
<1> QED BY <1>2, <1>3, <1>4 DEF IsPrefix

\* Prefixes are ordered.
LEMMA PrefixOrder ==
    ASSUME NEW s \in Path, NEW t \in Path, NEW u \in Path
    PROVE  /\ IsPrefix(s, s)
           /\ IsPrefix(s, t) /\ IsPrefix(t, u) => IsPrefix(s, u)
           /\ IsPrefix(s, t) /\ IsPrefix(t, s) => s = t
           /\ IsPrefix(s, u) /\ IsPrefix(t, u) => IsPrefix(s, t) \/ IsPrefix(t, s)
<1>1. Len(s) \in Nat /\ Len(t) \in Nat /\ Len(u) \in Nat
  BY DEF Path
<1>2. IsPrefix(s, s)
  BY <1>1, PrefixDef
<1>3. IsPrefix(s, t) /\ IsPrefix(t, u) => IsPrefix(s, u)
  BY <1>1, PrefixDef
<1>4. IsPrefix(s, t) /\ IsPrefix(t, s) => s = t
  <2>1. IsPrefix(s, t) /\ IsPrefix(t, s) => Len(s) = Len(t) /\ \A i \in 1 .. Len(s) : s[i] = t[i]
    BY <1>1, PrefixDef
  <2> QED BY <2>1, SeqEqual DEF Path
<1>5. IsPrefix(s, u) /\ IsPrefix(t, u) => IsPrefix(s, t) \/ IsPrefix(t, s)
  BY <1>1, PrefixDef
<1> QED BY <1>2, <1>3, <1>4, <1>5

\* The parent of a path, and what is above it.
LEMMA Parent ==
    ASSUME NEW p \in Path, p # <<>>
    PROVE  /\ Front(p) \in Path
           /\ Len(Front(p)) = Len(p) - 1
           /\ IsPrefix(Front(p), p)
           /\ Front(p) # p
<1>1. /\ Len(p) \in Nat /\ Len(p) >= 1
      /\ \A i \in 1 .. Len(p) : p[i] \in STRING
  BY ElementOfSeq, EmptySeq DEF Path
<1>2. /\ SubSeq(p, 1, Len(p) - 1) \in Seq(STRING)
      /\ Len(SubSeq(p, 1, Len(p) - 1)) = IF 1 <= Len(p) - 1 THEN Len(p) - 1 - 1 + 1 ELSE 0
      /\ \A i \in 1 .. Len(p) - 1 - 1 + 1 : SubSeq(p, 1, Len(p) - 1)[i] = p[1 + i - 1]
  <2>1. \A i \in 1 .. Len(p) - 1 : p[i] \in STRING
    BY <1>1
  <2>2. 1 \in Int /\ Len(p) - 1 \in Int
    BY <1>1
  <2> HIDE DEF Path
  <2> QED BY <2>1, <2>2, SubSeqProperties
<1>3. /\ Front(p) \in Path /\ Len(Front(p)) = Len(p) - 1
      /\ \A i \in 1 .. Len(p) - 1 : Front(p)[i] = p[i]
  <2>1. Front(p) = SubSeq(p, 1, Len(p) - 1)
    BY DEF Front
  <2>2. Len(p) - 1 - 1 + 1 = Len(p) - 1 /\ \A i \in 1 .. Len(p) - 1 : 1 + i - 1 = i
    BY <1>1
  <2>3. Len(Front(p)) = Len(p) - 1
    BY <1>1, <1>2, <2>1, <2>2
  <2>4. ASSUME NEW i \in 1 .. Len(p) - 1
        PROVE  Front(p)[i] = p[i]
    BY <1>1, <1>2, <2>1, <2>2
  <2> QED BY <1>2, <2>1, <2>3, <2>4 DEF Path
<1>4. IsPrefix(Front(p), p)
  BY <1>1, <1>3, PrefixDef
<1>5. Front(p) # p
  BY <1>1, <1>3
<1> QED BY <1>3, <1>4, <1>5

\* Nodes are paths.
LEMMA NodePath == \A p \in Nodes : p \in Path /\ Len(p) \in Nat
  BY FilesAssumption DEF Path

\* A set of numbers has a least one: the well-foundedness of <, without the
\* induction rule.
LEMMA LeastNat ==
    ASSUME NEW T, T \subseteq Nat, T # {}
    PROVE  \E x \in T : \A y \in T : x <= y
<1>1. PICK x \in T : \A y \in T : ~(<<y, x>> \in OpToRel(<, Nat))
  BY NatLessThanWellFounded, WFMin
<1>2. ASSUME NEW y \in T PROVE x <= y
  <2>1. ~(<<y, x>> \in OpToRel(<, Nat)) /\ <<y, x>> \in Nat \X Nat
    BY <1>1
  <2>2. ~(y < x)
    BY <2>1 DEF OpToRel
  <2> QED BY <2>2
<1> QED BY <1>2

\* What is strictly above a path is above its parent.
LEMMA AboveParent ==
    ASSUME NEW p \in Path, NEW q \in Path, IsPrefix(q, p), q # p
    PROVE  p # <<>> /\ IsPrefix(q, Front(p))
<1>1. Len(p) \in Nat /\ Len(q) \in Nat /\ Len(q) <= Len(p)
      /\ \A i \in 1 .. Len(q) : q[i] = p[i]
  BY PrefixDef DEF Path
<1>2. Len(q) # Len(p)
  BY <1>1, SeqEqual DEF Path
<1>3. p # <<>>
  BY <1>1, <1>2
<1>4. IsPrefix(Front(p), p) /\ Front(p) \in Path /\ Len(Front(p)) = Len(p) - 1
  BY <1>3, Parent
<1>5. \A i \in 1 .. Len(Front(p)) : Front(p)[i] = p[i]
  BY <1>4, PrefixDef
<1>6. Len(q) <= Len(Front(p)) /\ \A i \in 1 .. Len(q) : q[i] = Front(p)[i]
  BY <1>1, <1>2, <1>4, <1>5
<1> QED BY <1>3, <1>4, <1>6, PrefixDef

\* What a name in a directory is.
LEMMA NameIn ==
    ASSUME NEW p \in Path, NEW n
    PROVE  /\ p # <<>> => p = Append(Front(p), Last(p)) /\ Last(p) \in STRING
           /\ n \in STRING => /\ Append(p, n) \in Path /\ Append(p, n) # <<>>
                              /\ Front(Append(p, n)) = p /\ Last(Append(p, n)) = n
<1>1. ASSUME p # <<>>
      PROVE  p = Append(Front(p), Last(p)) /\ Last(p) \in STRING
  <2>1. Front(p) \in Path /\ Len(Front(p)) = Len(p) - 1 /\ IsPrefix(Front(p), p)
        /\ Len(p) \in Nat /\ Len(p) >= 1
    BY <1>1, Parent, EmptySeq DEF Path
  <2>2. \A i \in 1 .. Len(p) - 1 : Front(p)[i] = p[i]
    BY <2>1, PrefixDef
  <2>3. Last(p) = p[Len(p)] /\ Last(p) \in STRING
    BY <2>1, ElementOfSeq DEF Last, Path
  <2>4. /\ Append(Front(p), Last(p)) \in Seq(STRING)
        /\ Len(Append(Front(p), Last(p))) = Len(p)
        /\ \A i \in 1 .. Len(p) : Append(Front(p), Last(p))[i] = p[i]
    BY <2>1, <2>2, <2>3, AppendProperties DEF Path
  <2> QED BY <2>3, <2>4, SeqEqual DEF Path
<1>2. ASSUME n \in STRING
      PROVE  /\ Append(p, n) \in Path /\ Append(p, n) # <<>>
             /\ Front(Append(p, n)) = p /\ Last(Append(p, n)) = n
  <2> DEFINE a == Append(p, n)
  <2>1. /\ a \in Path /\ a # <<>> /\ Len(a) = Len(p) + 1 /\ a[Len(a)] = n
        /\ \A i \in 1 .. Len(p) : a[i] = p[i]
    BY <1>2, AppendProperties DEF Path
  <2> HIDE DEF a
  <2>2. /\ Front(a) \in Path /\ Len(Front(a)) = Len(a) - 1 /\ IsPrefix(Front(a), a)
    BY <2>1, Parent
  <2>3. \A i \in 1 .. Len(Front(a)) : Front(a)[i] = a[i]
    BY <2>1, <2>2, PrefixDef
  <2>4. Len(Front(a)) = Len(p) /\ \A i \in 1 .. Len(p) : Front(a)[i] = p[i]
    BY <2>1, <2>2, <2>3 DEF Path
  <2>5. Front(a) = p
    BY <2>2, <2>4, SeqEqual DEF Path
  <2> QED BY <2>1, <2>5 DEF a, Last
<1> QED BY <1>1, <1>2

\* A directory and all that it is in.
LEMMA Ancestors ==
    ASSUME NEW t, WellFormed(t), NEW x \in Nodes, t[x].kind # "none",
           NEW y \in Nodes, IsPrefix(y, x), y # x
    PROVE  t[y].kind = "dir"
<1> DEFINE S == {z \in Nodes : IsPrefix(y, z) /\ z # y /\ IsPrefix(z, x)
                                /\ t[z].kind # "none"}
           T == {Len(z) : z \in S}
<1>1. x \in Path /\ y \in Path
  BY NodePath
<1>2. x \in S
  BY <1>1, PrefixOrder
<1>3. T \subseteq Nat /\ T # {}
  BY <1>2, NodePath
<1>4. PICK m \in T : \A l \in T : m <= l
  <2> HIDE DEF T
  <2> QED BY <1>3, LeastNat
<1>5. PICK z \in S : \A u \in S : Len(z) <= Len(u)
  BY <1>4
<1>6. z \in Path /\ z # <<>> /\ IsPrefix(y, Front(z)) /\ Len(z) \in Nat
  BY <1>1, <1>5, NodePath, AboveParent
<1>7. /\ Front(z) \in Nodes /\ Front(z) \in Path /\ Len(Front(z)) = Len(z) - 1
      /\ IsPrefix(Front(z), z) /\ t[Front(z)].kind = "dir"
  BY <1>5, <1>6, Parent, FilesAssumption DEF WellFormed
<1>8. IsPrefix(Front(z), x)
  BY <1>1, <1>5, <1>6, <1>7, PrefixOrder
<1>9. CASE Front(z) = y
  BY <1>7, <1>9
<1>10. CASE Front(z) # y
  <2>1. Front(z) \in S
    BY <1>6, <1>7, <1>8, <1>10
  <2> QED BY <1>5, <1>6, <1>7, <2>1
<1> QED BY <1>9, <1>10

-----------------------------------------------------------------------------
(* Links                                                                   *)

\* A path through a link ends where the link leads, and there is no other link.
LEMMA FollowedOK ==
    ASSUME NEW p \in Nodes, OnLink(p)
    PROVE  /\ LinkOn(p) \in Links /\ IsPrefix(LinkOn(p), p)
           /\ Leads[LinkOn(p)] \in Nodes /\ Followed(p) \in Nodes
           /\ IsPrefix(Leads[LinkOn(p)], Followed(p))
           /\ ~OnLink(Followed(p))
<1>1. LinkOn(p) \in Links /\ IsPrefix(LinkOn(p), p)
  BY DEF OnLink, LinkOn
<1>2. /\ Leads[LinkOn(p)] \in Nodes /\ Followed(p) \in Nodes
      /\ LinkOn(p) \in Nodes
  BY <1>1, FilesAssumption DEF Links
<1> DEFINE a == Leads[LinkOn(p)]
           l == Len(LinkOn(p))
           b == SubSeq(p, l + 1, Len(p))
<1>3. a \in Path /\ p \in Path /\ Followed(p) \in Path /\ l \in Nat /\ Len(p) \in Nat
  BY <1>2, NodePath
<1>4. b \in Seq(STRING)
  <2>1. \A i \in l + 1 .. Len(p) : p[i] \in STRING
    BY <1>3, ElementOfSeq DEF Path
  <2> HIDE DEF l
  <2>2. l + 1 \in Int /\ Len(p) \in Int
    BY <1>3
  <2> HIDE DEF Path
  <2> QED BY <2>1, <2>2, SubSeqProperties
<1>5. Followed(p) = a \o b
  BY DEF Followed
<1> HIDE DEF a, b
<1>6. /\ Len(a \o b) = Len(a) + Len(b) /\ Len(a) \in Nat /\ Len(b) \in Nat
      /\ \A i \in 1 .. Len(a) : (a \o b)[i] = a[i]
  BY <1>3, <1>4, ConcatProperties DEF Path
<1>7. IsPrefix(a, Followed(p))
  <2>1. Len(a) <= Len(Followed(p)) /\ \A i \in 1 .. Len(a) : a[i] = Followed(p)[i]
    <3> HIDE DEF Path
    <3> QED BY <1>5, <1>6
  <2>2. a \in Path /\ Followed(p) \in Path
    BY <1>3
  <2> HIDE DEF Path
  <2> QED BY <2>1, <2>2, PrefixDef
<1>8. ASSUME NEW m \in Links, IsPrefix(m, Followed(p))
      PROVE  FALSE
  <2>1. m \in Path
    BY NodePath DEF Links
  <2>2. IsPrefix(m, a) \/ IsPrefix(a, m)
    BY <1>3, <1>7, <1>8, <2>1, PrefixOrder
  <2> QED BY <1>1, <2>2, FilesAssumption DEF a
<1> QED BY <1>1, <1>2, <1>7, <1>8 DEF OnLink, a

\* Where a path leads, for good.
LEMMA RealOK ==
    ASSUME NEW t, NEW p \in Nodes
    PROVE  /\ Real(t, p) \in Nodes
           /\ \A u : ~Live(u, p) => Real(u, p) = p
           /\ Live(t, p) => Real(t, p) = Followed(p) /\ \A u : ~Live(u, Real(t, p))
           /\ Real(t, Real(t, p)) = Real(t, p)
<1>1. Live(t, p) => OnLink(p)
  BY DEF Live
<1> QED BY <1>1, FollowedOK DEF Real, Live

-----------------------------------------------------------------------------
(* The invariant                                                           *)

Own == [kind |-> "reg", name |-> <<>>]
EntriesOf(q) == CASE q.op = "sync"  -> ToSet(q.entries)
                  [] q.op = "write" -> {Own}
                  [] OTHER          -> {}

\* What is below the workspace, and what a call may change.
Inside == {x \in Nodes : IsPrefix(Root, x) /\ x # Root}
Ours == {x \in Nodes : x \in Inside \/ Leak(x)}

\* The tree is one, and only what is below the workspace, or new and where a
\* link leads, ever changes: the workspace itself and the directories it is in
\* stay too.
TreeInv(t) ==
    /\ t \in [Nodes -> Objects]
    /\ WellFormed(t)
    /\ \A p \in Nodes \ Ours : t[p] = Before[p]

\* A path that was resolved: it is in the workspace, and where it leads through a
\* link there was nothing before, or it is in the workspace too.
Safe(t, p) == IsPrefix(Root, p) /\ (Live(t, p) => Followed(p) \in Ours)

Writing == {"mkdir", "readdir", "clear", "remove", "untar", "next", "make", "create",
            "copy"}
Pcs == Writing \cup {"idle", "open", "reading", "stat", "list", "info", "ok", "failed"}
Recs == [pc : Pcs, req : Requests \cup {[op |-> "none"]}, path : Nodes,
         todo : Seq(UNION {EntriesOf(q) : q \in Requests}),
         dirents : SUBSET STRING, top : Nodes, fd : Nodes \cup {Orphan}, at : 0 .. 3,
         n : Nat, out : SUBSET STRING, keep : SUBSET STRING, ents : SUBSET STRING,
         skipped : SUBSET STRING, got : Seq(Data)]

\* A call that writes: what it is about to touch was resolved, and what it has
\* open or removes is its to change.
PutInv(k, t) ==
    /\ k.pc \in Writing => Writes(k.req) /\ k.todo \in Seq(EntriesOf(k.req))
    /\ k.pc \in {"mkdir", "readdir", "clear", "remove", "make", "create"} =>
          Safe(t, k.path)
    /\ k.pc \in {"make", "create", "copy"} => k.todo # <<>>
    /\ k.pc = "copy" => k.fd \in Ours \cup {Orphan} /\ k.at \in 1 .. 3
    /\ k.pc = "remove" => k.top \in Ours

\* A list: what it has still to look at and what it returns were in the
\* directory, and what has been there since is in one of the two or its Info
\* failed.
ListInv(k, t) ==
    /\ k.pc \in {"stat", "list", "info"} => k.req.op = "list"
    /\ k.pc = "info" => /\ k.keep \subseteq k.dirents \cup k.out \cup k.skipped
                        /\ k.dirents \cup k.out \subseteq k.ents
                        /\ k.dirents \cap (k.out \cup k.skipped) = {}
                        /\ k.out \cap k.skipped = {}
    /\ k.pc = "ok" => k.keep \subseteq k.out \cup k.skipped
                      /\ k.out \subseteq k.ents \ k.skipped
    /\ k.pc \notin {"info", "ok", "failed"} => k.keep = {} /\ k.out = {} /\ k.skipped = {}
    /\ \A n \in k.keep : There(t, k.path, n)

CallInv(k, t) ==
    /\ k \in Recs
    /\ k.pc # "idle" => k.req \in Requests
    /\ k.pc \in {"open", "reading"} => k.req.op = "read"
    /\ k.pc = "reading" => k.at \in 1 .. 2
    /\ PutInv(k, t)
    /\ ListInv(k, t)

\* A read: it is at the file its request means, and what it has got so far is
\* what the file holds.
Meant(k, t) == Real(t, Target(k.req.path))
ReadInv(k, t) ==
    /\ k.pc = "open" => k.got = <<>> /\ Real(t, k.path) = Meant(k, t)
    /\ k.pc = "reading" =>
          /\ k.fd = Meant(k, t) /\ k.fd # Orphan
          /\ Len(k.got) = k.at - 1
          /\ \A i \in 1 .. k.at - 1 : k.got[i] = t[k.fd].data[i]
    /\ k.pc = "ok" /\ k.req.op = "read" => k.got = t[Meant(k, t)].data

\* While a call is alone no other one writes.
AloneInv(c, y) ==
    alone[c] /\ call[c].pc # "idle" => Ended(y) \/ ~Writes(call[y].req)

Inv ==
    /\ TreeInv(tree)
    /\ alone \in [Callers -> BOOLEAN]
    /\ call \in [Callers -> Recs]
    /\ \A c \in Callers : CallInv(call[c], tree)
    /\ \A c \in Callers : alone[c] => ReadInv(call[c], tree)
    /\ \A c \in Callers, y \in Callers : y # c => AloneInv(c, y)

-----------------------------------------------------------------------------
(* The tree                                                                *)

\* The workspace and what it is in are directories and stay so.
LEMMA AboveRoot ==
    ASSUME NEW t, TreeInv(t), NEW x \in Nodes, IsPrefix(x, Root)
    PROVE  x \notin Ours /\ t[x] = Dir
<1>1. x \notin Inside
  BY NodePath, PrefixOrder, FilesAssumption DEF Inside
<1>2. Before[x] = Dir
  BY WorkspaceAssumption DEF Above
<1>3. ~Leak(x)
  BY <1>2 DEF Leak, Dir, None
<1> QED BY <1>1, <1>2, <1>3 DEF TreeInv, Ours

\* What a path may hold.
LEMMA Kinds ==
    /\ None \in Objects /\ Dir \in Objects /\ Blank \in Objects
    /\ None.kind = "none" /\ Dir.kind = "dir" /\ Blank.kind = "file"
  BY DEF None, Dir, Blank, Objects, Data, Blocks

\* What is missing where a link leads was missing before.
LEMMA MissingOurs ==
    ASSUME NEW t, TreeInv(t), NEW x \in Nodes, t[x].kind = "none",
           NEW l \in Links, IsPrefix(Leads[l], x)
    PROVE  x \in Ours
  BY DEF TreeInv, Ours, Leak

\* What is below what a call may change is its to change too.
LEMMA OursDown ==
    ASSUME NEW x \in Ours, NEW y \in Nodes, IsPrefix(x, y)
    PROVE  y \in Ours
<1>1. x \in Nodes /\ x \in Path /\ y \in Path /\ Root \in Path
  BY NodePath, FilesAssumption DEF Ours
<1>2. CASE x \in Inside
  <2>1. IsPrefix(Root, x) /\ x # Root
    BY <1>2 DEF Inside
  <2>2. IsPrefix(Root, y)
    BY <1>1, <2>1, PrefixOrder
  <2>3. y # Root
    BY <1>1, <2>1, PrefixOrder
  <2> QED BY <2>2, <2>3 DEF Ours, Inside
<1>3. CASE Leak(x)
  <2>1. PICK l \in Links : IsPrefix(Leads[l], x)
    BY <1>3 DEF Leak
  <2>2. Leads[l] \in Path
    BY NodePath, FilesAssumption
  <2>3. IsPrefix(Leads[l], y)
    BY <1>1, <2>1, <2>2, PrefixOrder
  <2>4. Before[y].kind = "none"
    <3> SUFFICES ASSUME Before[y].kind # "none" PROVE FALSE
      OBVIOUS
    <3>1. Before[x].kind = "none"
      BY <1>3 DEF Leak
    <3> QED BY <1>1, <3>1, Ancestors, WorkspaceAssumption
  <2> QED BY <2>3, <2>4 DEF Ours, Leak
<1> QED BY <1>2, <1>3 DEF Ours

\* A step that makes things and removes none, seen from a call: the links are
\* the same ones.
Grows(t, u) ==
    \A x \in Nodes : /\ t[x].kind # "none" => u[x].kind = t[x].kind
                     /\ u[x].kind = "link" => t[x].kind = "link"

LEMMA GrowsKeeps ==
    ASSUME NEW t, NEW u, Grows(t, u), NEW p \in Nodes
    PROVE  /\ Live(u, p) <=> Live(t, p)
           /\ Real(u, p) = Real(t, p)
           /\ Safe(t, p) => Safe(u, p)
           /\ \A n : There(t, p, n) => There(u, p, n)
<1>1. Live(u, p) <=> Live(t, p)
  <2>1. CASE OnLink(p)
    <3>1. LinkOn(p) \in Nodes
      BY <2>1, FollowedOK DEF Links
    <3> QED BY <3>1 DEF Live, Grows
  <2>2. CASE ~OnLink(p)
    BY <2>2 DEF Live
  <2> QED BY <2>1, <2>2
<1>2. Real(u, p) = Real(t, p)
  BY <1>1 DEF Real
<1>3. ASSUME NEW n, There(t, p, n)
      PROVE  There(u, p, n)
  <2> DEFINE x == Append(Real(t, p), n)
  <2>1. x \in Nodes /\ t[x].kind # "none"
    BY <1>3 DEF There
  <2> HIDE DEF x
  <2>2. u[x].kind # "none"
    BY <2>1 DEF Grows
  <2> QED BY <1>2, <2>1, <2>2 DEF There, x
<1> QED BY <1>1, <1>2, <1>3 DEF Safe

\* MkdirAll of a path above or below the workspace, through a link or not.
LEMMA MkdirAllOK ==
    ASSUME TreeInv(tree), NEW p \in Nodes, CanMkdirAll(p),
           IsPrefix(Root, p) \/ IsPrefix(p, Root)
    PROVE  TreeInv(MkdirAll(p)) /\ Grows(tree, MkdirAll(p))
<1> DEFINE t == MkdirAll(p)
           r == Real(tree, p)
<1>0. r \in Nodes /\ r \in Path /\ p \in Path /\ Root \in Path
  BY RealOK, NodePath, FilesAssumption
<1>1. /\ t \in [Nodes -> Objects]
      /\ \A x \in Nodes : t[x] = IF x \in Above(r) /\ tree[x].kind = "none"
                                 THEN Dir ELSE tree[x]
      /\ \A x \in Above(r) : tree[x].kind \in {"none", "dir"}
  BY Kinds DEF MkdirAll, CanMkdirAll, TreeInv
<1>l. /\ Live(tree, p) => /\ tree[Leads[LinkOn(p)]].kind = "dir" /\ r = Followed(p)
                          /\ OnLink(p)
      /\ ~Live(tree, p) => r = p
  BY DEF CanMkdirAll, Real, Live
<1> HIDE DEF t, r
<1>2. ASSUME NEW x \in Nodes, x # <<>>, t[x].kind # "none"
      PROVE  t[Front(x)].kind = "dir"
  <2>1. Front(x) \in Nodes /\ x \in Path /\ Front(x) \in Path
        /\ IsPrefix(Front(x), x)
    BY <1>2, FilesAssumption, NodePath, Parent
  <2>2. CASE x \in Above(r)
    <3>1. Front(x) \in Above(r)
      BY <1>0, <2>1, <2>2, PrefixOrder DEF Above
    <3> QED BY <1>1, <2>1, <3>1, Kinds
  <2>3. CASE x \notin Above(r)
    <3>1. tree[Front(x)].kind = "dir"
      BY <1>1, <1>2, <2>3 DEF TreeInv, WellFormed
    <3> QED BY <1>1, <2>1, <3>1, Kinds
  <2> QED BY <2>2, <2>3
<1>3. ASSUME NEW x \in Above(r), tree[x].kind = "none"
      PROVE  x \in Ours
  <2>1. x \in Nodes /\ x \in Path /\ IsPrefix(x, r)
    BY NodePath DEF Above
  <2>2. ~IsPrefix(x, Root)
    BY <1>3, <2>1, AboveRoot, Kinds
  <2>3. CASE Live(tree, p)
    <3> DEFINE a == Leads[LinkOn(p)]
    <3>1. /\ LinkOn(p) \in Links /\ a \in Nodes /\ IsPrefix(a, r) /\ a \in Path
          /\ tree[a].kind = "dir"
      BY <1>l, <2>3, FollowedOK, NodePath
    <3>2. IsPrefix(x, a) \/ IsPrefix(a, x)
      BY <1>0, <2>1, <3>1, PrefixOrder
    <3>3. ~IsPrefix(x, a)
      <4> SUFFICES ASSUME IsPrefix(x, a) PROVE FALSE
        OBVIOUS
      <4>1. x # a
        BY <1>3, <3>1
      <4> QED BY <1>3, <2>1, <3>1, <4>1, Ancestors DEF TreeInv
    <3> QED BY <1>3, <2>1, <3>1, <3>2, <3>3, MissingOurs
  <2>4. CASE ~Live(tree, p)
    <3>1. r = p
      BY <1>l, <2>4
    <3>2. IsPrefix(Root, x)
      BY <1>0, <2>1, <2>2, <3>1, PrefixOrder
    <3>3. x # Root
      BY <1>0, <2>2, PrefixOrder
    <3> QED BY <2>1, <3>2, <3>3 DEF Ours, Inside
  <2> QED BY <2>3, <2>4
<1>4. \A x \in Nodes \ Ours : t[x] = Before[x]
  BY <1>1, <1>3 DEF TreeInv
<1>5. Grows(tree, t)
  BY <1>1, Kinds DEF Grows
<1> QED BY <1>1, <1>2, <1>4, <1>5 DEF TreeInv, WellFormed, t

\* A leaf that is a call's to change is removed.
LEMMA UnlinkOK ==
    ASSUME TreeInv(tree), NEW x \in Ours,
           \A y \in Under(x) \ {x} : tree[y].kind = "none"
    PROVE  /\ TreeInv([tree EXCEPT ![x] = None])
           /\ \A y \in Nodes : [tree EXCEPT ![x] = None][y] = IF y = x THEN None ELSE tree[y]
<1> DEFINE t == [tree EXCEPT ![x] = None]
<1>0. x \in Nodes /\ x \in Path
  BY NodePath DEF Ours
<1>1. /\ t \in [Nodes -> Objects]
      /\ \A y \in Nodes : t[y] = IF y = x THEN None ELSE tree[y]
  BY <1>0, Kinds DEF TreeInv
<1> HIDE DEF t
<1>2. ASSUME NEW y \in Nodes, y # <<>>, t[y].kind # "none"
      PROVE  t[Front(y)].kind = "dir"
  <2>1. Front(y) \in Nodes /\ y \in Path /\ IsPrefix(Front(y), y) /\ Front(y) # y
    BY <1>2, FilesAssumption, NodePath, Parent
  <2>2. y # x /\ tree[y].kind # "none"
    BY <1>1, <1>2, Kinds
  <2>3. Front(y) # x
    BY <1>2, <2>1, <2>2 DEF Under
  <2> QED BY <1>1, <1>2, <2>1, <2>2, <2>3 DEF TreeInv, WellFormed
<1>3. \A y \in Nodes \ Ours : t[y] = Before[y]
  BY <1>1 DEF TreeInv
<1> QED BY <1>1, <1>2, <1>3 DEF TreeInv, WellFormed, t

\* OpenFile of a path that was resolved.
LEMMA CreateOK ==
    ASSUME TreeInv(tree), NEW p \in Nodes, Safe(tree, p), CanOpen(Real(tree, p))
    PROVE  LET x == Real(tree, p)
           IN  /\ x \in Ours
               /\ TreeInv([tree EXCEPT ![x] = Blank])
               /\ Grows(tree, [tree EXCEPT ![x] = Blank])
<1> DEFINE x == Real(tree, p)
           t == [tree EXCEPT ![x] = Blank]
<1>0. x \in Nodes
  BY RealOK
<1>1. /\ t \in [Nodes -> Objects]
      /\ \A y \in Nodes : t[y] = IF y = x THEN Blank ELSE tree[y]
      /\ tree[x].kind \in {"none", "file"} /\ tree[Front(x)].kind = "dir"
  BY <1>0, Kinds DEF TreeInv, CanOpen
<1>2. x \in Ours
  <2>1. CASE Live(tree, p)
    BY <2>1 DEF Safe, Real
  <2>2. CASE ~Live(tree, p)
    <3>1. x = p /\ IsPrefix(Root, p)
      BY <2>2 DEF Safe, Real
    <3>2. IsPrefix(Root, Root) /\ tree[Root].kind = "dir"
      BY FilesAssumption, NodePath, PrefixOrder, AboveRoot, Kinds
    <3> QED BY <1>0, <1>1, <3>1, <3>2 DEF Ours, Inside
  <2> QED BY <2>1, <2>2
<1> HIDE DEF t, x
<1>3. ASSUME NEW y \in Nodes, y # <<>>, t[y].kind # "none"
      PROVE  t[Front(y)].kind = "dir"
  <2>1. Front(y) \in Nodes /\ Front(y) # y
    BY <1>3, FilesAssumption, NodePath, Parent
  <2>2. tree[Front(y)].kind = "dir"
    BY <1>1, <1>3 DEF TreeInv, WellFormed
  <2> QED BY <1>1, <2>1, <2>2
<1>4. TreeInv(t)
  BY <1>1, <1>2, <1>3 DEF TreeInv, WellFormed
<1>5. Grows(tree, t)
  BY <1>1, Kinds DEF Grows
<1> QED BY <1>2, <1>4, <1>5 DEF t, x

\* A block written to a file that is a call's to change.
LEMMA WriteOK ==
    ASSUME TreeInv(tree), NEW f \in Ours, NEW b \in Blocks, NEW v \in Data
    PROVE  /\ TreeInv([tree EXCEPT ![f].data[b] = v])
           /\ Grows(tree, [tree EXCEPT ![f].data[b] = v])
<1> DEFINE t == [tree EXCEPT ![f].data[b] = v]
<1>0. f \in Nodes
  BY DEF Ours
<1>1. /\ t \in [Nodes -> Objects]
      /\ \A x \in Nodes : t[x].kind = tree[x].kind
      /\ \A x \in Nodes \ Ours : t[x] = tree[x]
  BY <1>0 DEF TreeInv, Objects
<1> HIDE DEF t
<1>2. WellFormed(t)
  BY <1>1, FilesAssumption DEF TreeInv, WellFormed
<1>3. Grows(tree, t)
  BY <1>1 DEF Grows
<1> QED BY <1>1, <1>2, <1>3 DEF TreeInv, t

-----------------------------------------------------------------------------
(* What was resolved                                                       *)

\* The paths a request names.
LEMMA Named ==
    ASSUME NEW q \in Requests
    PROVE  /\ Target(q.path) \in Nodes
           /\ \A e \in EntriesOf(q) : Target(Entry(q.path, e)) \in Nodes
<1>1. /\ q.op \in {"sync", "write", "read", "list"} /\ Target(q.path) \in Nodes
      /\ q.path \in [abs : BOOLEAN, at : Seq(STRING)]
  BY WorkspaceAssumption
<1>2. ASSUME NEW e \in EntriesOf(q)
      PROVE  Target(Entry(q.path, e)) \in Nodes
  <2>1. CASE q.op = "sync"
    BY <1>2, <2>1, WorkspaceAssumption DEF EntriesOf
  <2>2. CASE q.op = "write"
    <3>1. e.name = <<>>
      BY <1>2, <2>2 DEF EntriesOf, Own
    <3>2. q.path.at \o <<>> = q.path.at
      BY <1>1, ConcatEmptySeq
    <3>3. Entry(q.path, e) = q.path
      BY <1>1, <3>1, <3>2 DEF Entry
    <3> QED BY <1>1, <3>3
  <2> QED BY <1>1, <1>2, <2>1, <2>2 DEF EntriesOf
<1> QED BY <1>1, <1>2

\* A path that is resolved and does not escape: it leads through no link, or to
\* what is not there.
LEMMA ResolveOK ==
    ASSUME TreeInv(tree), NEW p \in Nodes
    PROVE  /\ Resolve(p) \in Nodes
           /\ ~Escapes(Resolve(p)) => Safe(tree, Resolve(p))
           /\ Real(tree, Resolve(p)) = Real(tree, p)
<1>1. CASE tree[Real(tree, p)].kind # "none"
  <2>1. Resolve(p) = Real(tree, p)
    BY <1>1 DEF Resolve
  <2>2. ~Live(tree, Real(tree, p))
    <3>1. Live(tree, p) => ~Live(tree, Real(tree, p))
      BY RealOK
    <3> QED BY <3>1 DEF Real
  <2> QED BY <2>1, <2>2, RealOK DEF Safe, Escapes
<1>2. CASE tree[Real(tree, p)].kind = "none"
  <2>1. Resolve(p) = p
    BY <1>2 DEF Resolve
  <2>2. ASSUME Live(tree, p)
        PROVE  Followed(p) \in Ours
    <3>1. OnLink(p) /\ Real(tree, p) = Followed(p)
      BY <2>2 DEF Live, Real
    <3> QED BY <1>2, <3>1, FollowedOK, MissingOurs
  <2> QED BY <2>1, <2>2 DEF Safe, Escapes
<1> QED BY <1>1, <1>2

-----------------------------------------------------------------------------
(* A step of one call                                                      *)

\* A call moves on to k and only adds to the tree, if it writes: the other
\* calls keep what they know.
LEMMA OneCall ==
    ASSUME Inv, NEW c \in Callers, NEW k, ~Ended(c),
           call' = [call EXCEPT ![c] = k], alone' = alone,
           k.req = call[c].req, k.pc # "idle",
           CallInv(k, tree'), TreeInv(tree'),
           alone[c] => ReadInv(k, tree'),
           tree' = tree \/ Writes(call[c].req), Grows(tree, tree')
    PROVE  Inv'
<1>1. k \in Recs /\ call' \in [Callers -> Recs]
  BY DEF Inv, CallInv
<1>2. /\ call'[c] = k
      /\ \A y \in Callers : y # c => call'[y] = call[y]
  BY DEF Inv
<1>3. ASSUME NEW y \in Callers
      PROVE  CallInv(call'[y], tree')
  <2>1. CASE y = c
    BY <1>2, <2>1
  <2>2. CASE y # c
    <3>1. call'[y] = call[y] /\ CallInv(call[y], tree) /\ call[y].path \in Nodes
      BY <1>2, <2>2 DEF Inv, CallInv, Recs
    <3>2. /\ Safe(tree, call[y].path) => Safe(tree', call[y].path)
          /\ \A n : There(tree, call[y].path, n) => There(tree', call[y].path, n)
      BY <3>1, GrowsKeeps
    <3> QED BY <3>1, <3>2 DEF CallInv, PutInv, ListInv
  <2> QED BY <2>1, <2>2
<1>4. ASSUME NEW y \in Callers, alone[y]
      PROVE  ReadInv(call'[y], tree')
  <2>1. CASE y = c
    BY <1>2, <1>4, <2>1
  <2>2. CASE y # c
    <3>1. call'[y] = call[y] /\ ReadInv(call[y], tree)
      BY <1>2, <1>4, <2>2 DEF Inv
    <3>2. CASE call[y].pc = "idle"
      BY <3>1, <3>2 DEF ReadInv
    <3>3. CASE call[y].pc # "idle"
      <4>1. ~Writes(call[c].req)
        BY <1>4, <2>2, <3>3 DEF Inv, AloneInv
      <4> QED BY <3>1, <4>1
    <3> QED BY <3>2, <3>3
  <2> QED BY <2>1, <2>2
<1>5. ASSUME NEW z \in Callers, NEW y \in Callers, y # z, alone[z], call'[z].pc # "idle"
      PROVE  call'[y].pc \in {"idle", "ok", "failed"} \/ ~Writes(call'[y].req)
  <2>1. call[z].pc # "idle"
    BY <1>2, <1>5 DEF Ended
  <2>2. Ended(y) \/ ~Writes(call[y].req)
    BY <1>5, <2>1 DEF Inv, AloneInv
  <2>3. CASE y = c
    BY <1>2, <2>2, <2>3
  <2>4. CASE y # c
    BY <1>2, <2>2, <2>4 DEF Ended
  <2> QED BY <2>3, <2>4
<1> QED BY <1>1, <1>3, <1>4, <1>5 DEF Inv, AloneInv, Ended

\* What the invariant says of a call that is at work.
LEMMA AtWork ==
    ASSUME Inv, NEW c \in Callers, ~Ended(c)
    PROVE  /\ call[c] \in Recs /\ CallInv(call[c], tree) /\ TreeInv(tree)
           /\ call[c].req \in Requests /\ call[c].path \in Nodes
           /\ Target(call[c].req.path) \in Nodes
<1>1. call[c] \in Recs /\ CallInv(call[c], tree) /\ TreeInv(tree)
  BY DEF Inv
<1>2. call[c].req \in Requests /\ call[c].path \in Nodes
  BY <1>1 DEF CallInv, Ended, Recs
<1> QED BY <1>1, <1>2, Named

\* Nothing grows when nothing happens.
LEMMA GrowsSame == Grows(tree, tree)
  BY DEF Grows

\* A call that fails.
LEMMA FailStep ==
    ASSUME Inv, NEW c \in Callers, ~Ended(c), Fail(c)
    PROVE  Inv'
<1> DEFINE k == [call[c] EXCEPT !.pc = "failed"]
<1>1. call[c] \in Recs /\ CallInv(call[c], tree) /\ TreeInv(tree)
      /\ call[c].req \in Requests
  BY AtWork
<1>2. /\ k \in Recs /\ k.pc = "failed" /\ k.req = call[c].req
      /\ k.keep = call[c].keep /\ k.path = call[c].path
  BY <1>1 DEF Recs, Pcs
<1>3. call' = [call EXCEPT ![c] = k] /\ alone' = alone /\ tree' = tree
  BY DEF Fail, Goto, Set
<1> HIDE DEF k
<1>4. CallInv(k, tree)
  BY <1>1, <1>2 DEF CallInv, PutInv, ListInv, Writing
<1>5. ReadInv(k, tree)
  BY <1>2 DEF ReadInv
<1> QED BY <1>1, <1>2, <1>3, <1>4, <1>5, GrowsSame, OneCall

\* A call that writes moves on to another step of its writing.
LEMMA PutStep ==
    ASSUME Inv, NEW c \in Callers, call[c].pc \in Writing,
           NEW k, k \in Recs, call' = [call EXCEPT ![c] = k], alone' = alone,
           k.req = call[c].req, k.pc \in Writing \cup {"ok"},
           k.out = call[c].out, k.keep = call[c].keep, k.skipped = call[c].skipped,
           PutInv(k, tree'), TreeInv(tree'), Grows(tree, tree')
    PROVE  Inv'
<1>0. ~Ended(c)
  BY DEF Writing, Ended
<1>1. call[c] \in Recs /\ CallInv(call[c], tree) /\ call[c].req \in Requests
  BY <1>0, AtWork
<1>2. /\ Writes(call[c].req) /\ call[c].keep = {} /\ call[c].out = {}
      /\ call[c].skipped = {}
  BY <1>1 DEF CallInv, PutInv, ListInv, Writing
<1>3. CallInv(k, tree')
  BY <1>1, <1>2 DEF CallInv, ListInv, Writing
<1>4. ReadInv(k, tree')
  BY <1>2 DEF ReadInv, Writing, Writes
<1>5. k.pc # "idle"
  BY DEF Writing
<1> QED BY <1>0, <1>2, <1>3, <1>4, <1>5, OneCall

-----------------------------------------------------------------------------
(* SyncFolder and Write                                                    *)

\* SyncFolder makes its destination.
LEMMA MakeDestInv ==
    ASSUME Inv, NEW c \in Callers, MakeDest(c)
    PROVE  Inv'
<1> DEFINE dest == call[c].path
           k == [call[c] EXCEPT !.pc = IF call[c].req.clean THEN "readdir" ELSE "untar"]
<1>0. call[c].pc = "mkdir" /\ call[c].pc \in Writing /\ ~Ended(c)
  BY DEF MakeDest, Writing, Ended
<1>1. CASE Fail(c)
  BY <1>0, <1>1, FailStep
<1>2. CASE /\ CanMkdirAll(dest) /\ tree' = MkdirAll(dest) /\ UNCHANGED alone
           /\ call' = [call EXCEPT ![c] = k]
  <2>1. call[c] \in Recs /\ CallInv(call[c], tree) /\ TreeInv(tree)
        /\ dest \in Nodes /\ Safe(tree, dest)
    BY <1>0, AtWork DEF CallInv, PutInv
  <2>2. /\ k \in Recs /\ k.pc \in {"readdir", "untar"} /\ k.req = call[c].req
        /\ k.todo = call[c].todo /\ k.out = call[c].out /\ k.keep = call[c].keep
        /\ k.skipped = call[c].skipped /\ k.path = dest
    BY <2>1 DEF Recs, Pcs, Writing
  <2>3. TreeInv(tree') /\ Grows(tree, tree')
    BY <1>2, <2>1, MkdirAllOK DEF Safe
  <2> HIDE DEF k
  <2>4. PutInv(k, tree')
    BY <1>0, <2>1, <2>2, <2>3, GrowsKeeps DEF CallInv, PutInv
  <2>5. k.pc \in Writing
    BY <2>2 DEF Writing
  <2> QED BY <1>0, <1>2, <2>2, <2>3, <2>4, <2>5, PutStep
<1> QED BY <1>1, <1>2 DEF MakeDest, Sys, Goto, Set

\* The entries of a directory have names.
LEMMA NamesOK == \A p : Names(p) \subseteq STRING
<1>1. ASSUME NEW y \in Nodes, y # <<>>
      PROVE  Last(y) \in STRING
  BY <1>1, NodePath, NameIn
<1> QED BY <1>1 DEF Names

\* SyncFolder lists its destination.
LEMMA ReadDestInv ==
    ASSUME Inv, NEW c \in Callers, ReadDest(c)
    PROVE  Inv'
<1> DEFINE dest == call[c].path
           k == [call[c] EXCEPT !.pc = "clear", !.dirents = Names(dest)]
<1>0. call[c].pc = "readdir" /\ call[c].pc \in Writing /\ ~Ended(c)
  BY DEF ReadDest, Writing, Ended
<1>1. CASE Fail(c)
  BY <1>0, <1>1, FailStep
<1>2. CASE UNCHANGED <<tree, alone>> /\ call' = [call EXCEPT ![c] = k]
  <2>1. call[c] \in Recs /\ CallInv(call[c], tree) /\ TreeInv(tree)
    BY <1>0, AtWork
  <2>2. Names(dest) \in SUBSET STRING
    BY NamesOK
  <2>3. /\ k \in Recs /\ k.pc = "clear" /\ k.req = call[c].req
        /\ k.todo = call[c].todo /\ k.out = call[c].out /\ k.keep = call[c].keep
        /\ k.skipped = call[c].skipped /\ k.path = dest
    BY <2>1, <2>2 DEF Recs, Pcs, Writing
  <2> HIDE DEF k
  <2>4. PutInv(k, tree) /\ k.pc \in Writing
    BY <1>0, <2>1, <2>3 DEF CallInv, PutInv, Writing
  <2> QED BY <1>0, <1>2, <2>1, <2>3, <2>4, GrowsSame, PutStep
<1> QED BY <1>1, <1>2 DEF ReadDest, Sys, Set

\* A removal: the writer is alone or nobody is, and every list and every open
\* file loses what is gone.
LEMMA UnlinkInv ==
    ASSUME Inv, NEW c \in Callers, call[c].pc = "remove", NEW x \in Under(call[c].top),
           \A y \in Under(x) \ {x} : tree[y].kind = "none", Unlink(x), alone' = alone
    PROVE  Inv'
<1>0. ~Ended(c) /\ c \in Callers
  BY DEF Ended
<1>1. /\ call[c] \in Recs /\ CallInv(call[c], tree) /\ TreeInv(tree)
      /\ x \in Ours /\ x \in Nodes /\ Writes(call[c].req)
  <2>1. call[c] \in Recs /\ CallInv(call[c], tree) /\ TreeInv(tree)
    BY <1>0, AtWork
  <2>2. call[c].top \in Ours /\ Writes(call[c].req)
    BY <2>1 DEF CallInv, PutInv, Writing
  <2> QED BY <2>1, <2>2, OursDown DEF Under
<1> DEFINE t == [tree EXCEPT ![x] = None]
<1>2. /\ TreeInv(t)
      /\ \A y \in Nodes : t[y] = IF y = x THEN None ELSE tree[y]
      /\ tree' = t
  BY <1>1, UnlinkOK DEF Unlink
<1>3. ASSUME NEW p \in Nodes
      PROVE  Safe(tree, p) => Safe(t, p)
  <2>1. ASSUME Live(t, p)
        PROVE  Live(tree, p)
    <3>1. OnLink(p) /\ t[LinkOn(p)].kind = "link" /\ LinkOn(p) \in Nodes
      BY <2>1, FollowedOK DEF Live, Links
    <3> HIDE DEF t
    <3> QED BY <1>2, <3>1, Kinds DEF Live
  <2> QED BY <2>1 DEF Safe
<1>4. ASSUME NEW y \in Callers
      PROVE  /\ call'[y] \in Recs
             /\ call'[y].pc = call[y].pc /\ call'[y].req = call[y].req
             /\ call'[y].path = call[y].path /\ call'[y].top = call[y].top
             /\ call'[y].todo = call[y].todo /\ call'[y].at = call[y].at
             /\ call'[y].out = call[y].out /\ call'[y].ents = call[y].ents
             /\ call'[y].skipped = call[y].skipped
             /\ call'[y].got = call[y].got /\ call'[y].dirents = call[y].dirents
             /\ call'[y].keep = {n \in call[y].keep : There(t, call[y].path, n)}
             /\ call'[y].fd = IF call[y].fd = x THEN Orphan ELSE call[y].fd
  <2>1. call[y] \in Recs
    BY DEF Inv
  <2> DEFINE f == IF call[y].fd = x THEN Orphan ELSE call[y].fd
             kp == {n \in call[y].keep : There(t, call[y].path, n)}
  <2>3. call'[y] = [call[y] EXCEPT !.fd = f, !.keep = kp]
    BY DEF Unlink
  <2>4. f \in Nodes \cup {Orphan} /\ kp \in SUBSET STRING
    BY <2>1 DEF Recs
  <2> HIDE DEF f, kp, t
  <2>5. /\ call'[y] \in Recs
        /\ call'[y].pc = call[y].pc /\ call'[y].req = call[y].req
        /\ call'[y].path = call[y].path /\ call'[y].top = call[y].top
        /\ call'[y].todo = call[y].todo /\ call'[y].at = call[y].at
        /\ call'[y].out = call[y].out /\ call'[y].ents = call[y].ents
        /\ call'[y].skipped = call[y].skipped
        /\ call'[y].got = call[y].got /\ call'[y].dirents = call[y].dirents
        /\ call'[y].keep = kp /\ call'[y].fd = f
    BY <2>1, <2>3, <2>4 DEF Recs
  <2> QED BY <2>5 DEF f, kp
<1>5. call' \in [Callers -> Recs]
  BY <1>4 DEF Unlink
<1> HIDE DEF t
<1>6. ASSUME NEW y \in Callers
      PROVE  CallInv(call'[y], tree')
  <2>1. CallInv(call[y], tree) /\ call[y].path \in Nodes
    BY DEF Inv, Recs
  <2>2. PutInv(call'[y], tree')
    BY <1>2, <1>3, <1>4, <2>1 DEF CallInv, PutInv
  <2>3. \A n \in call'[y].keep : There(tree', call'[y].path, n)
    BY <1>2, <1>4
  <2>4. call'[y].keep \subseteq call[y].keep
    BY <1>4
  <2>5. ListInv(call'[y], tree')
    BY <1>4, <2>1, <2>3, <2>4 DEF CallInv, ListInv
  <2> QED BY <1>4, <2>1, <2>2, <2>5 DEF CallInv
<1>7. ASSUME NEW y \in Callers, alone[y]
      PROVE  ReadInv(call'[y], tree')
  <2>1. CASE y = c
    BY <1>4, <2>1 DEF ReadInv
  <2>2. CASE y # c
    <3>1. call[y].pc = "idle"
      BY <1>0, <1>1, <1>7, <2>2 DEF Inv, AloneInv
    <3> QED BY <1>4, <3>1 DEF ReadInv
  <2> QED BY <2>1, <2>2
<1>8. ASSUME NEW z \in Callers, NEW y \in Callers, y # z, alone[z], call'[z].pc # "idle"
      PROVE  call'[y].pc \in {"idle", "ok", "failed"} \/ ~Writes(call'[y].req)
  BY <1>4, <1>8 DEF Inv, AloneInv, Ended
<1> QED BY <1>2, <1>5, <1>6, <1>7, <1>8 DEF Inv, AloneInv, Ended

\* Only the counter moves: a call that writes goes from one step to the next.
LEMMA GotoStep ==
    ASSUME Inv, NEW c \in Callers, call[c].pc \in Writing,
           NEW to \in {"clear", "untar", "next", "ok"},
           to = "clear" => call[c].pc = "remove",
           Goto(c, to), UNCHANGED <<tree, alone>>
    PROVE  Inv'
<1> DEFINE k == [call[c] EXCEPT !.pc = to]
<1>1. call[c] \in Recs /\ CallInv(call[c], tree) /\ TreeInv(tree)
  BY AtWork DEF Writing, Ended
<1>2. /\ k \in Recs /\ k.pc = to /\ k.req = call[c].req /\ k.path = call[c].path
      /\ k.todo = call[c].todo /\ k.out = call[c].out /\ k.keep = call[c].keep
      /\ k.skipped = call[c].skipped
  BY <1>1 DEF Recs, Pcs, Writing
<1>3. call' = [call EXCEPT ![c] = k]
  BY DEF Goto, Set
<1> HIDE DEF k
<1>4. PutInv(k, tree) /\ k.pc \in Writing \cup {"ok"}
  BY <1>1, <1>2 DEF CallInv, PutInv, Writing
<1> QED BY <1>1, <1>2, <1>3, <1>4, GrowsSame, PutStep

\* SyncFolder takes the next entry of its destination, or has emptied it.
LEMMA ClearDestInv ==
    ASSUME Inv, NEW c \in Callers, ClearDest(c)
    PROVE  Inv'
<1> DEFINE dest == call[c].path
<1>0. /\ call[c].pc = "clear" /\ call[c].pc \in Writing /\ ~Ended(c)
      /\ UNCHANGED <<tree, alone>>
  BY DEF ClearDest, Writing, Ended
<1>1. CASE Goto(c, "untar")
  BY <1>0, <1>1, GotoStep
<1>2. ASSUME NEW n \in call[c].dirents,
             Set(c, [call[c] EXCEPT
                       !.dirents = @ \ {n},
                       !.pc = IF There(tree, dest, n) THEN "remove" ELSE @,
                       !.top = IF There(tree, dest, n)
                               THEN Append(Real(tree, dest), n) ELSE @])
      PROVE  Inv'
  <2> DEFINE r == Real(tree, dest)
             d1 == call[c].dirents \ {n}
             pc1 == IF There(tree, dest, n) THEN "remove" ELSE "clear"
             top1 == IF There(tree, dest, n) THEN Append(r, n) ELSE call[c].top
             k == [call[c] EXCEPT !.dirents = d1, !.pc = pc1, !.top = top1]
  <2>1. call[c] \in Recs /\ CallInv(call[c], tree) /\ TreeInv(tree)
        /\ dest \in Nodes /\ Safe(tree, dest) /\ r \in Nodes
    BY <1>0, AtWork, RealOK DEF CallInv, PutInv
  <2>2. n \in STRING /\ d1 \in SUBSET STRING
    BY <2>1 DEF Recs
  <2>3. ASSUME There(tree, dest, n)
        PROVE  Append(r, n) \in Ours
    <3> DEFINE a == Append(r, n)
    <3>1. a \in Nodes
      BY <2>3 DEF There
    <3>2. r \in Path /\ a # <<>> /\ Front(a) = r /\ a \in Path /\ Root \in Path
      BY <2>1, <2>2, NameIn, NodePath, FilesAssumption
    <3> HIDE DEF a, r
    <3>3. IsPrefix(r, a) /\ r # a
      BY <3>2, Parent
    <3>4. CASE Live(tree, dest)
      <4>1. r \in Ours
        BY <2>1, <3>4 DEF Safe, Real, r
      <4> QED BY <3>1, <3>3, <4>1, OursDown DEF a
    <3>5. CASE ~Live(tree, dest)
      <4>1. IsPrefix(Root, r)
        BY <2>1, <3>5 DEF Safe, Real, r
      <4>2. IsPrefix(Root, a)
        BY <3>2, <3>3, <4>1, PrefixOrder
      <4>3. a # Root
        BY <3>2, <3>3, <4>1, PrefixOrder
      <4> QED BY <3>1, <4>2, <4>3 DEF Ours, Inside, a
    <3> QED BY <3>4, <3>5
  <2>4. /\ pc1 \in Writing /\ pc1 \in Pcs /\ top1 \in Nodes
        /\ pc1 \in {"remove", "clear"} /\ (pc1 = "remove" => top1 \in Ours)
    BY <2>1, <2>3 DEF Pcs, Writing, Recs, Ours
  <2>5. call' = [call EXCEPT ![c] = k]
    BY <1>0, <1>2 DEF Set
  <2> HIDE DEF d1, pc1, top1
  <2>6. /\ k \in Recs /\ k.pc = pc1 /\ k.req = call[c].req /\ k.path = call[c].path
        /\ k.todo = call[c].todo /\ k.out = call[c].out /\ k.keep = call[c].keep
        /\ k.skipped = call[c].skipped /\ k.top = top1
    BY <2>1, <2>2, <2>4 DEF Recs
  <2> HIDE DEF k
  <2>7. PutInv(k, tree)
    BY <1>0, <2>1, <2>4, <2>6 DEF CallInv, PutInv, Writing
  <2> QED BY <1>0, <2>1, <2>4, <2>5, <2>6, <2>7, GrowsSame, PutStep
<1> QED BY <1>0, <1>1, <1>2 DEF ClearDest

\* An entry is removed, a leaf at a time.
LEMMA RemoveAllInv ==
    ASSUME Inv, NEW c \in Callers, RemoveAll(c)
    PROVE  Inv'
<1>0. call[c].pc = "remove" /\ call[c].pc \in Writing /\ ~Ended(c)
  BY DEF RemoveAll, Writing, Ended
<1>1. CASE Fail(c)
  BY <1>0, <1>1, FailStep
<1>2. CASE \E x \in Under(call[c].top) :
              /\ \A y \in Under(x) \ {x} : tree[y].kind = "none"
              /\ Unlink(x) /\ UNCHANGED alone
  BY <1>0, <1>2, UnlinkInv
<1>3. CASE Goto(c, "clear") /\ UNCHANGED <<tree, alone>>
  BY <1>0, <1>3, GotoStep
<1> QED BY <1>1, <1>2, <1>3 DEF RemoveAll, Sys

\* SyncFolder opens the archive.
LEMMA UntarInv ==
    ASSUME Inv, NEW c \in Callers, Untar(c)
    PROVE  Inv'
<1>0. call[c].pc = "untar" /\ call[c].pc \in Writing /\ ~Ended(c)
  BY DEF Untar, Writing, Ended
<1>1. CASE Fail(c)
  BY <1>0, <1>1, FailStep
<1>2. CASE Goto(c, "next") /\ UNCHANGED <<tree, alone>>
  BY <1>0, <1>2, GotoStep
<1> QED BY <1>1, <1>2 DEF Untar, Fail

\* The entries left, and where the next one goes.
LEMMA TodoLeft ==
    ASSUME Inv, NEW c \in Callers, call[c].pc \in Writing, call[c].todo # <<>>
    PROVE  /\ Cur(c) \in EntriesOf(call[c].req)
           /\ Tail(call[c].todo) \in Seq(EntriesOf(call[c].req))
           /\ Tail(call[c].todo) \in Seq(UNION {EntriesOf(q) : q \in Requests})
           /\ At(c) \in Nodes
<1>1. call[c] \in Recs /\ CallInv(call[c], tree) /\ call[c].req \in Requests
  BY AtWork DEF Writing, Ended
<1>2. call[c].todo \in Seq(EntriesOf(call[c].req))
      /\ call[c].todo \in Seq(UNION {EntriesOf(q) : q \in Requests})
  BY <1>1 DEF CallInv, PutInv, Recs
<1>3. /\ Cur(c) \in EntriesOf(call[c].req)
      /\ Tail(call[c].todo) \in Seq(EntriesOf(call[c].req))
      /\ Tail(call[c].todo) \in Seq(UNION {EntriesOf(q) : q \in Requests})
  BY <1>2, HeadTailProperties DEF Cur
<1> QED BY <1>1, <1>3, Named DEF At

\* One entry is done, the next one is up.
LEMMA SkipStep ==
    ASSUME Inv, NEW c \in Callers, call[c].pc \in Writing, call[c].todo # <<>>,
           Set(c, Skip(c, "next")), alone' = alone, TreeInv(tree'), Grows(tree, tree')
    PROVE  Inv'
<1> DEFINE k == Skip(c, "next")
<1>1. call[c] \in Recs /\ CallInv(call[c], tree)
  BY AtWork DEF Writing, Ended
<1>2. /\ Tail(call[c].todo) \in Seq(EntriesOf(call[c].req))
      /\ Tail(call[c].todo) \in Seq(UNION {EntriesOf(q) : q \in Requests})
  BY TodoLeft
<1>3. /\ k \in Recs /\ k.pc = "next" /\ k.req = call[c].req
      /\ k.todo = Tail(call[c].todo) /\ k.out = call[c].out /\ k.keep = call[c].keep
      /\ k.skipped = call[c].skipped
  BY <1>1, <1>2 DEF Recs, Pcs, Writing, Skip
<1>4. call' = [call EXCEPT ![c] = k]
  BY DEF Set
<1> HIDE DEF k
<1>5. PutInv(k, tree') /\ k.pc \in Writing
  BY <1>1, <1>2, <1>3 DEF CallInv, PutInv, Writing
<1> QED BY <1>3, <1>4, <1>5, PutStep

\* The parent of a path of the workspace is in it or above it.
LEMMA ParentNear ==
    ASSUME NEW p \in Nodes, IsPrefix(Root, p)
    PROVE  Front(p) \in Nodes /\ (IsPrefix(Root, Front(p)) \/ IsPrefix(Front(p), Root))
<1>1. p \in Path /\ Root \in Path
  BY NodePath, FilesAssumption
<1>2. CASE p = Root /\ p # <<>>
  BY <1>1, <1>2, Parent, FilesAssumption
<1>3. CASE p # Root
  BY <1>1, <1>3, AboveParent, FilesAssumption
<1>4. CASE p = Root /\ p = <<>>
  <2>1. Front(<<>>) = <<>>
    BY DEF Front
  <2> QED BY <1>1, <1>4, <2>1, PrefixOrder
<1> QED BY <1>2, <1>3, <1>4

\* A call that writes is at a path that was resolved.
LEMMA PathStep ==
    ASSUME Inv, NEW c \in Callers, call[c].pc \in Writing, call[c].todo # <<>>,
           NEW k, NEW to \in {"make", "create"}, NEW p \in Nodes,
           k = [call[c] EXCEPT !.pc = to, !.path = p],
           call' = [call EXCEPT ![c] = k], alone' = alone,
           TreeInv(tree'), Grows(tree, tree'), Safe(tree', p)
    PROVE  Inv'
<1>1. call[c] \in Recs /\ CallInv(call[c], tree)
  BY AtWork DEF Writing, Ended
<1>2. /\ k \in Recs /\ k.pc = to /\ k.req = call[c].req /\ k.path = p
      /\ k.todo = call[c].todo /\ k.out = call[c].out /\ k.keep = call[c].keep
      /\ k.skipped = call[c].skipped
  BY <1>1 DEF Recs, Pcs, Writing
<1>3. PutInv(k, tree') /\ k.pc \in Writing
  BY <1>1, <1>2 DEF CallInv, PutInv, Writing
<1> QED BY <1>2, <1>3, PutStep

\* An entry is taken from the archive.
LEMMA NextEntryInv ==
    ASSUME Inv, NEW c \in Callers, NextEntry(c)
    PROVE  Inv'
<1>0. call[c].pc = "next" /\ call[c].pc \in Writing /\ ~Ended(c) /\ TreeInv(tree)
      /\ UNCHANGED <<tree, alone>>
  BY DEF NextEntry, Writing, Ended, Inv
<1>1. CASE Goto(c, "failed")
  BY <1>0, <1>1, FailStep DEF Fail
<1>2. CASE Goto(c, "ok")
  BY <1>0, <1>2, GotoStep
<1>3. CASE call[c].todo # <<>> /\ Set(c, Skip(c, "next"))
  BY <1>0, <1>3, GrowsSame, SkipStep
<1>4. CASE /\ call[c].todo # <<>> /\ ~Escapes(Resolve(At(c)))
           /\ Set(c, [call[c] EXCEPT !.pc = "make", !.path = Resolve(At(c))])
  <2>1. At(c) \in Nodes
    BY <1>0, <1>4, TodoLeft
  <2>2. Resolve(At(c)) \in Nodes /\ Safe(tree, Resolve(At(c)))
    BY <1>0, <1>4, <2>1, ResolveOK
  <2> QED BY <1>0, <1>4, <2>2, GrowsSame, PathStep DEF Set
<1> QED BY <1>0, <1>1, <1>2, <1>3, <1>4 DEF NextEntry

\* The directory of an entry is made.
LEMMA MakeEntryInv ==
    ASSUME Inv, NEW c \in Callers, MakeEntry(c)
    PROVE  Inv'
<1> DEFINE p == call[c].path
<1>0. call[c].pc = "make" /\ call[c].pc \in Writing /\ ~Ended(c)
  BY DEF MakeEntry, Writing, Ended
<1>1. CASE Fail(c)
  BY <1>0, <1>1, FailStep
<1>2. /\ call[c] \in Recs /\ TreeInv(tree) /\ p \in Nodes /\ Safe(tree, p)
      /\ call[c].todo # <<>> /\ IsPrefix(Root, p)
  <2>1. CallInv(call[c], tree)
    BY <1>0, AtWork
  <2> QED BY <1>0, <2>1, AtWork DEF CallInv, PutInv, Safe
<1>3. CASE CanMkdirAll(p) /\ tree' = MkdirAll(p) /\ Set(c, Skip(c, "next"))
           /\ UNCHANGED alone
  BY <1>0, <1>2, <1>3, MkdirAllOK, SkipStep
<1>4. CASE CanMkdirAll(Front(p)) /\ tree' = MkdirAll(Front(p)) /\ Goto(c, "create")
           /\ UNCHANGED alone
  <2> DEFINE k == [call[c] EXCEPT !.pc = "create", !.path = p]
  <2>1. TreeInv(tree') /\ Grows(tree, tree')
    <3>1. Front(p) \in Nodes /\ (IsPrefix(Root, Front(p)) \/ IsPrefix(Front(p), Root))
      BY <1>2, ParentNear
    <3> QED BY <1>2, <1>4, <3>1, MkdirAllOK
  <2>2. Safe(tree', p)
    BY <1>2, <2>1, GrowsKeeps
  <2>3. k = [call[c] EXCEPT !.pc = "create"]
    BY <1>2 DEF Recs
  <2>4. call' = [call EXCEPT ![c] = k]
    BY <1>4, <2>3 DEF Goto, Set
  <2> QED BY <1>0, <1>2, <1>4, <2>1, <2>2, <2>4, PathStep
<1> QED BY <1>1, <1>3, <1>4 DEF MakeEntry, Sys

\* A file is created.
LEMMA CreateInv ==
    ASSUME Inv, NEW c \in Callers, Create(c)
    PROVE  Inv'
<1> DEFINE x == Real(tree, call[c].path)
           k == [call[c] EXCEPT !.pc = "copy", !.fd = x, !.at = 1]
<1>0. call[c].pc = "create" /\ call[c].pc \in Writing /\ ~Ended(c)
  BY DEF Create, Writing, Ended
<1>1. CASE Fail(c)
  BY <1>0, <1>1, FailStep
<1>2. CASE /\ CanOpen(x) /\ tree' = [tree EXCEPT ![x] = Blank]
           /\ call' = [call EXCEPT ![c] = k] /\ UNCHANGED alone
  <2>1. call[c] \in Recs /\ CallInv(call[c], tree) /\ TreeInv(tree)
        /\ call[c].path \in Nodes
    BY <1>0, AtWork
  <2>2. call[c].todo # <<>> /\ Safe(tree, call[c].path)
    BY <1>0, <2>1 DEF CallInv, PutInv
  <2>4. x \in Ours /\ TreeInv(tree') /\ Grows(tree, tree')
    BY <1>2, <2>1, <2>2, CreateOK
  <2>5. /\ k \in Recs /\ k.pc = "copy" /\ k.req = call[c].req
        /\ k.todo = call[c].todo /\ k.out = call[c].out /\ k.keep = call[c].keep
        /\ k.skipped = call[c].skipped /\ k.fd = x /\ k.at = 1
    <3>1. x \in Nodes \cup {Orphan} /\ 1 \in 0 .. 3 /\ "copy" \in Pcs
      BY <2>4 DEF Pcs, Writing, Ours
    <3> HIDE DEF x
    <3> QED BY <2>1, <3>1 DEF Recs
  <2> HIDE DEF k, x
  <2>6. PutInv(k, tree') /\ k.pc \in Writing
    BY <1>0, <2>1, <2>2, <2>4, <2>5 DEF CallInv, PutInv, Writing
  <2> QED BY <1>0, <1>2, <2>4, <2>5, <2>6, PutStep
<1> QED BY <1>1, <1>2 DEF Create, Sys, Set

\* A block is written.
LEMMA CopyBlockInv ==
    ASSUME Inv, NEW c \in Callers, CopyBlock(c)
    PROVE  Inv'
<1> DEFINE f == call[c].fd
           b == call[c].at
           k == [call[c] EXCEPT !.at = @ + 1]
<1>0. call[c].pc = "copy" /\ call[c].pc \in Writing /\ ~Ended(c) /\ b \in Blocks
  BY DEF CopyBlock, Writing, Ended
<1>1. CASE Fail(c)
  BY <1>0, <1>1, FailStep
<1>2. CASE /\ tree' = IF f = Orphan THEN tree
                      ELSE [tree EXCEPT ![f].data[b] = call[c].req.ver]
           /\ call' = [call EXCEPT ![c] = k] /\ UNCHANGED alone
  <2>1. call[c] \in Recs /\ CallInv(call[c], tree) /\ TreeInv(tree)
        /\ call[c].req \in Requests
    BY <1>0, AtWork
  <2>2. f \in Ours \cup {Orphan} /\ Writes(call[c].req)
    BY <1>0, <2>1 DEF CallInv, PutInv
  <2>3. call[c].req.ver \in Data
    BY <2>1, <2>2 DEF Data
  <2>4. TreeInv(tree') /\ Grows(tree, tree')
    BY <1>0, <1>2, <2>1, <2>2, <2>3, WriteOK, GrowsSame
  <2>5. call[c].at + 1 \in 1 .. 3 /\ call[c].at + 1 \in 0 .. 3
    BY <1>0 DEF Blocks
  <2>6. /\ k \in Recs /\ k.pc = "copy" /\ k.req = call[c].req
        /\ k.todo = call[c].todo /\ k.out = call[c].out /\ k.keep = call[c].keep
        /\ k.skipped = call[c].skipped /\ k.fd = f /\ k.at \in 1 .. 3
    BY <1>0, <2>1, <2>5 DEF Recs
  <2> HIDE DEF k
  <2>7. PutInv(k, tree') /\ k.pc \in Writing
    BY <1>0, <2>1, <2>2, <2>6 DEF CallInv, PutInv, Writing
  <2> QED BY <1>0, <1>2, <2>4, <2>6, <2>7, PutStep
<1> QED BY <1>1, <1>2 DEF CopyBlock, Sys, Set

\* A file is closed.
LEMMA CloseInv ==
    ASSUME Inv, NEW c \in Callers, Close(c)
    PROVE  Inv'
<1> DEFINE k == [Skip(c, "next") EXCEPT !.fd = Orphan, !.at = 0, !.n = @ + 1]
<1>0. call[c].pc = "copy" /\ call[c].pc \in Writing /\ ~Ended(c)
  BY DEF Close, Writing, Ended
<1>1. call[c] \in Recs /\ CallInv(call[c], tree) /\ TreeInv(tree)
  BY <1>0, AtWork
<1>2. /\ call[c].todo # <<>>
      /\ Tail(call[c].todo) \in Seq(EntriesOf(call[c].req))
      /\ Tail(call[c].todo) \in Seq(UNION {EntriesOf(q) : q \in Requests})
  <2>1. call[c].todo # <<>>
    BY <1>0, <1>1 DEF CallInv, PutInv
  <2> QED BY <1>0, <2>1, TodoLeft
<1>3. /\ k \in Recs /\ k.pc = "next" /\ k.req = call[c].req
      /\ k.todo = Tail(call[c].todo) /\ k.out = call[c].out /\ k.keep = call[c].keep
      /\ k.skipped = call[c].skipped
  <2>1. /\ Orphan \in Nodes \cup {Orphan} /\ 0 \in 0 .. 3 /\ "next" \in Pcs
        /\ call[c].n + 1 \in Nat
    BY <1>1 DEF Pcs, Writing, Recs
  <2>2. k = [call[c] EXCEPT !.pc = "next", !.todo = Tail(@), !.fd = Orphan, !.at = 0,
                            !.n = @ + 1]
    BY <1>1 DEF Skip, Recs
  <2> QED BY <1>1, <1>2, <2>1, <2>2 DEF Recs
<1>4. call' = [call EXCEPT ![c] = k] /\ UNCHANGED <<tree, alone>>
  BY DEF Close, Set
<1> HIDE DEF k
<1>5. PutInv(k, tree') /\ k.pc \in Writing
  BY <1>0, <1>1, <1>2, <1>3 DEF CallInv, PutInv, Writing
<1> QED BY <1>0, <1>1, <1>3, <1>4, <1>5, GrowsSame, PutStep

-----------------------------------------------------------------------------
(* Read and List                                                           *)

\* A read opens its file.
LEMMA OpenInv ==
    ASSUME Inv, NEW c \in Callers, Open(c)
    PROVE  Inv'
<1> DEFINE x == Real(tree, call[c].path)
           k == [call[c] EXCEPT !.pc = "reading", !.fd = x, !.at = 1]
<1>0. call[c].pc = "open" /\ ~Ended(c)
  BY DEF Open, Ended
<1>1. CASE Fail(c)
  BY <1>0, <1>1, FailStep
<1>2. CASE /\ tree[x].kind = "file" /\ UNCHANGED <<tree, alone>>
           /\ call' = [call EXCEPT ![c] = k]
  <2>1. /\ call[c] \in Recs /\ CallInv(call[c], tree) /\ TreeInv(tree)
        /\ call[c].req \in Requests /\ x \in Nodes
    BY <1>0, AtWork, RealOK
  <2>2. x # Orphan
    <3>1. Orphan \in Path /\ Len(Orphan) = 0 /\ Root \in Path
      BY NodePath, FilesAssumption DEF Orphan, Path
    <3>2. IsPrefix(Orphan, Root)
      BY <3>1, PrefixDef
    <3> QED BY <1>2, <2>1, <3>2, AboveRoot, Kinds
  <2> HIDE DEF x
  <2>3. /\ k \in Recs /\ k.pc = "reading" /\ k.req = call[c].req
        /\ k.out = call[c].out /\ k.keep = call[c].keep
        /\ k.skipped = call[c].skipped /\ k.fd = x /\ k.at = 1 /\ k.got = call[c].got
    <3>1. x \in Nodes \cup {Orphan} /\ 1 \in 0 .. 3 /\ "reading" \in Pcs
      BY <2>1 DEF Pcs
    <3> QED BY <2>1, <3>1 DEF Recs
  <2> HIDE DEF k
  <2>4. CallInv(k, tree)
    BY <1>0, <2>1, <2>3 DEF CallInv, PutInv, ListInv, Writing
  <2>5. ASSUME alone[c]
        PROVE  ReadInv(k, tree)
    <3>1. k.got = <<>> /\ x = Meant(k, tree)
      BY <1>0, <2>3, <2>5 DEF Inv, ReadInv, Meant, x
    <3>2. Len(k.got) = k.at - 1 /\ 1 .. k.at - 1 = {}
      BY <2>3, <3>1
    <3> QED BY <2>2, <2>3, <3>1, <3>2 DEF ReadInv
  <2> QED BY <1>0, <1>2, <2>1, <2>3, <2>4, <2>5, GrowsSame, OneCall
<1> QED BY <1>1, <1>2 DEF Open, Sys, Set

\* A read copies a block.
LEMMA ReadBlockInv ==
    ASSUME Inv, NEW c \in Callers, ReadBlock(c)
    PROVE  Inv'
<1> DEFINE f == call[c].fd
           b == call[c].at
           x == IF f = Orphan THEN Hole ELSE tree[f].data[b]
           last == b = 2
           k == [call[c] EXCEPT !.pc = IF last THEN "ok" ELSE @,
                                !.fd = IF last THEN Orphan ELSE @,
                                !.at = IF last THEN 0 ELSE @ + 1,
                                !.got = Append(@, x)]
<1>0. call[c].pc = "reading" /\ ~Ended(c)
  BY DEF ReadBlock, Ended
<1>1. CASE Fail(c)
  BY <1>0, <1>1, FailStep
<1>2. CASE UNCHANGED <<tree, alone>> /\ call' = [call EXCEPT ![c] = k]
  <2>1. /\ call[c] \in Recs /\ CallInv(call[c], tree) /\ TreeInv(tree)
        /\ call[c].req \in Requests
    BY <1>0, AtWork
  <2>2. b \in 1 .. 2 /\ call[c].req.op = "read"
    BY <1>0, <2>1 DEF CallInv
  <2>3. x \in Data
    <3>1. f \in Nodes \cup {Orphan}
      BY <2>1 DEF Recs
    <3>2. Hole \in Data
      BY DEF Data
    <3> QED BY <2>1, <2>2, <3>1, <3>2 DEF TreeInv, Objects, Blocks
  <2>4. /\ k \in Recs /\ k.req = call[c].req
        /\ k.pc = (IF last THEN "ok" ELSE "reading")
        /\ k.fd = (IF last THEN Orphan ELSE f)
        /\ k.at = (IF last THEN 0 ELSE b + 1)
        /\ k.got = Append(call[c].got, x)
        /\ k.out = call[c].out /\ k.keep = call[c].keep
        /\ k.skipped = call[c].skipped
    <3> DEFINE pc1 == IF last THEN "ok" ELSE "reading"
               fd1 == IF last THEN Orphan ELSE f
               at1 == IF last THEN 0 ELSE b + 1
               got1 == Append(call[c].got, x)
    <3>1. k = [call[c] EXCEPT !.pc = pc1, !.fd = fd1, !.at = at1, !.got = got1]
      BY <1>0
    <3>2. pc1 \in Pcs
      BY DEF Pcs
    <3>3. fd1 \in Nodes \cup {Orphan}
      BY <2>1 DEF Recs
    <3>4. at1 \in 0 .. 3
      BY <2>2
    <3>5. got1 \in Seq(Data)
      <4>1. call[c].got \in Seq(Data)
        BY <2>1 DEF Recs
      <4> HIDE DEF x
      <4> QED BY <2>3, <4>1
    <3> HIDE DEF pc1, fd1, at1, got1, k
    <3>6. /\ k \in Recs /\ k.req = call[c].req
          /\ k.pc = pc1 /\ k.fd = fd1 /\ k.at = at1 /\ k.got = got1
          /\ k.out = call[c].out /\ k.keep = call[c].keep
          /\ k.skipped = call[c].skipped
      BY <2>1, <3>1, <3>2, <3>3, <3>4, <3>5 DEF Recs
    <3> QED BY <3>6 DEF pc1, fd1, at1, got1
  <2> HIDE DEF k
  <2>5. k.pc = "reading" => k.at \in 1 .. 2
    BY <2>2, <2>4
  <2>6. CallInv(k, tree)
    BY <1>0, <2>1, <2>2, <2>4, <2>5 DEF CallInv, PutInv, ListInv, Writing
  <2>7. ASSUME alone[c]
        PROVE  ReadInv(k, tree)
    <3> DEFINE g == call[c].got
               data == tree[f].data
    <3>1. /\ f = Meant(k, tree) /\ f # Orphan
          /\ Len(g) = b - 1 /\ g \in Seq(Data)
          /\ \A i \in 1 .. b - 1 : g[i] = data[i]
      BY <1>0, <2>1, <2>4, <2>7 DEF Inv, ReadInv, Recs, Meant
    <3>2. x = data[b] /\ data \in [1 .. 2 -> Data]
      <4>1. f \in Nodes
        BY <2>1, <3>1 DEF Recs
      <4> QED BY <2>1, <3>1, <4>1 DEF TreeInv, Objects, Blocks
    <3>3. k.got = Append(g, data[b])
      BY <2>4, <3>2
    <3> HIDE DEF g, data, f, x, b
    <3>4. Len(k.got) = b /\ \A i \in 1 .. b : k.got[i] = data[i]
      <4>1. Len(k.got) = Len(g) + 1 /\ k.got[Len(g) + 1] = data[b]
            /\ \A i \in 1 .. Len(g) : k.got[i] = g[i]
        BY <2>2, <3>1, <3>2, <3>3, AppendProperties
      <4>2. b \in Int /\ Len(g) = b - 1
        BY <2>2, <3>1
      <4>3. ASSUME NEW i \in 1 .. b
            PROVE  k.got[i] = data[i]
        <5>1. CASE i = b
          BY <4>1, <4>2, <5>1
        <5>2. CASE i \in 1 .. b - 1
          BY <3>1, <4>1, <4>2, <5>2
        <5> QED BY <4>2, <4>3, <5>1, <5>2
      <4> QED BY <4>1, <4>2, <4>3
    <3>5. CASE ~last
      <4>1. k.pc = "reading" /\ k.fd = f /\ k.at - 1 = b
        BY <2>2, <2>4, <3>5
      <4> QED BY <2>4, <3>1, <3>4, <4>1 DEF ReadInv, data
    <3>6. CASE last
      <4>1. k.got = data
        <5>1. k.got \in Seq(Data) /\ Len(k.got) = 2
          BY <2>4, <3>4, <3>6 DEF Recs
        <5>2. k.got \in [1 .. 2 -> Data]
          BY <5>1, LenProperties
        <5> QED BY <3>2, <3>4, <3>6, <5>2
      <4> QED BY <2>4, <3>1, <3>6, <4>1 DEF ReadInv, data
    <3> QED BY <3>5, <3>6
  <2>8. k.pc # "idle"
    BY <2>4
  <2> QED BY <1>0, <1>2, <2>1, <2>4, <2>6, <2>7, <2>8, GrowsSame, OneCall
<1> QED BY <1>1, <1>2 DEF ReadBlock, Sys, Set

\* A list looks at what its path is.
LEMMA StatInv ==
    ASSUME Inv, NEW c \in Callers, Stat(c)
    PROVE  Inv'
<1> DEFINE p == call[c].path
<1>0. call[c].pc = "stat" /\ ~Ended(c)
  BY DEF Stat, Ended
<1>1. CASE Fail(c)
  BY <1>0, <1>1, FailStep
<1>2. /\ call[c] \in Recs /\ CallInv(call[c], tree) /\ TreeInv(tree)
      /\ call[c].req \in Requests /\ call[c].req.op = "list" /\ p \in Nodes
      /\ call[c].keep = {} /\ call[c].out = {} /\ call[c].skipped = {}
  <2>1. CallInv(call[c], tree)
    BY <1>0, AtWork
  <2> QED BY <1>0, <2>1, AtWork DEF CallInv, ListInv
<1>3. CASE Goto(c, "list") /\ UNCHANGED <<tree, alone>>
  <2> DEFINE k == [call[c] EXCEPT !.pc = "list"]
  <2>1. /\ k \in Recs /\ k.req = call[c].req /\ k.pc = "list"
        /\ k.keep = {} /\ k.out = {} /\ k.skipped = {}
    BY <1>2 DEF Recs, Pcs
  <2>2. call' = [call EXCEPT ![c] = k]
    BY <1>3 DEF Goto, Set
  <2> HIDE DEF k
  <2>3. CallInv(k, tree) /\ ReadInv(k, tree)
    BY <1>2, <2>1 DEF CallInv, PutInv, ListInv, ReadInv, Writing
  <2> QED BY <1>0, <1>2, <1>3, <2>1, <2>2, <2>3, GrowsSame, OneCall
<1>4. CASE /\ tree[Real(tree, p)].kind \notin {"dir", "none"} /\ UNCHANGED <<tree, alone>>
           /\ Set(c, [call[c] EXCEPT !.pc = "ok", !.out = {Last(p)}, !.ents = {Last(p)}])
  <2> DEFINE k == [call[c] EXCEPT !.pc = "ok", !.out = {Last(p)}, !.ents = {Last(p)}]
  <2>1. p # <<>>
    <3> SUFFICES ASSUME p = <<>> PROVE FALSE
      OBVIOUS
    <3>1. p \in Path /\ Len(p) = 0 /\ Root \in Path
      BY NodePath, FilesAssumption DEF Path
    <3>2. IsPrefix(p, Root)
      BY <3>1, PrefixDef
    <3>3. /\ tree[p].kind = "dir" /\ p \in Nodes
          /\ \A l \in Nodes : IsPrefix(l, p) => tree[l].kind = "dir"
      <4>1. ASSUME NEW l \in Nodes, IsPrefix(l, p)
            PROVE  IsPrefix(l, Root)
        BY <3>1, <3>2, <4>1, NodePath, PrefixOrder
      <4> QED BY <1>2, <3>2, <4>1, AboveRoot, Kinds
    <3>4. ~Live(tree, p)
      <4> SUFFICES ASSUME OnLink(p), tree[LinkOn(p)].kind = "link" PROVE FALSE
        BY DEF Live
      <4> QED BY <1>2, <3>3, FollowedOK DEF Links
    <3> QED BY <1>4, <3>3, <3>4 DEF Real
  <2>2. {Last(p)} \in SUBSET STRING
    BY <1>2, <2>1, NodePath, NameIn
  <2>3. /\ k \in Recs /\ k.req = call[c].req /\ k.pc = "ok"
        /\ k.keep = {} /\ k.out = {Last(p)} /\ k.ents = {Last(p)} /\ k.skipped = {}
    BY <1>2, <2>2 DEF Recs, Pcs
  <2> HIDE DEF k
  <2>4. CallInv(k, tree) /\ ReadInv(k, tree)
    BY <1>2, <2>3 DEF CallInv, PutInv, ListInv, ReadInv, Writing
  <2> QED BY <1>0, <1>2, <1>4, <2>3, <2>4, GrowsSame, OneCall DEF Set, k
<1> QED BY <1>1, <1>3, <1>4 DEF Stat, Sys

\* A list reads its directory.
LEMMA ReadDirInv ==
    ASSUME Inv, NEW c \in Callers, ReadDir(c)
    PROVE  Inv'
<1> DEFINE p == call[c].path
           ents == Names(p)
           k == [call[c] EXCEPT !.pc = "info", !.dirents = ents, !.ents = ents,
                                !.keep = ents]
<1>0. call[c].pc = "list" /\ ~Ended(c)
  BY DEF ReadDir, Ended
<1>1. CASE Fail(c)
  BY <1>0, <1>1, FailStep
<1>2. CASE UNCHANGED <<tree, alone>> /\ call' = [call EXCEPT ![c] = k]
  <2>1. /\ call[c] \in Recs /\ CallInv(call[c], tree) /\ TreeInv(tree)
        /\ call[c].req \in Requests /\ call[c].req.op = "list" /\ p \in Nodes
        /\ call[c].out = {} /\ call[c].skipped = {}
    <3>1. CallInv(call[c], tree)
      BY <1>0, AtWork
    <3> QED BY <1>0, <3>1, AtWork DEF CallInv, ListInv
  <2>2. ents \in SUBSET STRING
    BY NamesOK
  <2>3. \A n \in ents : There(tree, p, n)
    <3> SUFFICES ASSUME NEW y \in Nodes, y # <<>>, Front(y) = Real(tree, p),
                        tree[y].kind # "none"
                 PROVE  There(tree, p, Last(y))
      BY DEF Names
    <3>1. y = Append(Front(y), Last(y))
      BY NodePath, NameIn
    <3> QED BY <3>1 DEF There
  <2> HIDE DEF ents
  <2>4. /\ k \in Recs /\ k.req = call[c].req /\ k.pc = "info" /\ k.dirents = ents
        /\ k.ents = ents /\ k.keep = ents /\ k.out = {} /\ k.skipped = {} /\ k.path = p
    BY <2>1, <2>2 DEF Recs, Pcs
  <2> HIDE DEF k
  <2>5. CallInv(k, tree) /\ ReadInv(k, tree)
    BY <2>1, <2>3, <2>4 DEF CallInv, PutInv, ListInv, ReadInv, Writing
  <2> QED BY <1>0, <1>2, <2>1, <2>4, <2>5, GrowsSame, OneCall
<1> QED BY <1>1, <1>2 DEF ReadDir, Sys, Set

\* A list looks at an entry.
LEMMA InfoInv ==
    ASSUME Inv, NEW c \in Callers, Info(c)
    PROVE  Inv'
<1>0. call[c].pc = "info" /\ ~Ended(c) /\ UNCHANGED <<tree, alone>>
  BY DEF Info, Ended
<1>1. /\ call[c] \in Recs /\ CallInv(call[c], tree) /\ TreeInv(tree)
      /\ call[c].req \in Requests
  BY <1>0, AtWork
<1>2. /\ call[c].req.op = "list"
      /\ call[c].keep \subseteq call[c].dirents \cup call[c].out \cup call[c].skipped
      /\ call[c].dirents \cup call[c].out \subseteq call[c].ents
      /\ call[c].dirents \cap (call[c].out \cup call[c].skipped) = {}
      /\ call[c].out \cap call[c].skipped = {}
      /\ \A n \in call[c].keep : There(tree, call[c].path, n)
  BY <1>0, <1>1 DEF CallInv, ListInv
<1>3. CASE call[c].dirents = {} /\ Goto(c, "ok")
  <2> DEFINE k == [call[c] EXCEPT !.pc = "ok"]
  <2>1. /\ k \in Recs /\ k.pc = "ok" /\ k.req = call[c].req /\ k.keep = call[c].keep
        /\ k.out = call[c].out /\ k.ents = call[c].ents /\ k.path = call[c].path
        /\ k.skipped = call[c].skipped
    BY <1>1 DEF Recs, Pcs
  <2>2. call' = [call EXCEPT ![c] = k]
    BY <1>3 DEF Goto, Set
  <2> HIDE DEF k
  <2>3. CallInv(k, tree) /\ ReadInv(k, tree)
    BY <1>1, <1>2, <1>3, <2>1 DEF CallInv, PutInv, ListInv, ReadInv, Writing
  <2> QED BY <1>0, <1>1, <2>1, <2>2, <2>3, GrowsSame, OneCall
<1>4. ASSUME NEW n \in call[c].dirents, NEW o1, NEW s1,
             \/ ~There(tree, call[c].path, n) /\ o1 = call[c].out /\ s1 = call[c].skipped
             \/ o1 = call[c].out \cup {n} /\ s1 = call[c].skipped
             \/ o1 = call[c].out /\ s1 = call[c].skipped \cup {n},
             Set(c, [call[c] EXCEPT !.dirents = @ \ {n}, !.out = o1, !.skipped = s1])
      PROVE  Inv'
  <2> DEFINE d1 == call[c].dirents \ {n}
             k == [call[c] EXCEPT !.dirents = d1, !.out = o1, !.skipped = s1]
  <2>1. call' = [call EXCEPT ![c] = k]
    BY <1>4 DEF Set
  <2>2. o1 \in SUBSET STRING /\ d1 \in SUBSET STRING /\ s1 \in SUBSET STRING
    BY <1>1, <1>4 DEF Recs
  <2>3. /\ call[c].keep \subseteq d1 \cup o1 \cup s1
        /\ d1 \cup o1 \subseteq call[c].ents
        /\ d1 \cap (o1 \cup s1) = {} /\ o1 \cap s1 = {}
    BY <1>2, <1>4
  <2> HIDE DEF d1
  <2>4. /\ k \in Recs /\ k.pc = "info" /\ k.req = call[c].req /\ k.keep = call[c].keep
        /\ k.out = o1 /\ k.dirents = d1 /\ k.ents = call[c].ents /\ k.skipped = s1
        /\ k.path = call[c].path
    BY <1>0, <1>1, <2>2 DEF Recs
  <2> HIDE DEF k
  <2>5. CallInv(k, tree) /\ ReadInv(k, tree)
    BY <1>1, <1>2, <2>3, <2>4 DEF CallInv, PutInv, ListInv, ReadInv, Writing
  <2> QED BY <1>0, <1>1, <2>1, <2>4, <2>5, GrowsSame, OneCall
<1>5. ASSUME NEW n \in call[c].dirents
      PROVE  /\ [call[c] EXCEPT !.dirents = @ \ {n}]
                 = [call[c] EXCEPT !.dirents = @ \ {n}, !.out = call[c].out,
                                   !.skipped = call[c].skipped]
             /\ [call[c] EXCEPT !.dirents = @ \ {n}, !.out = @ \cup {n}]
                 = [call[c] EXCEPT !.dirents = @ \ {n}, !.out = call[c].out \cup {n},
                                   !.skipped = call[c].skipped]
             /\ [call[c] EXCEPT !.dirents = @ \ {n}, !.skipped = @ \cup {n}]
                 = [call[c] EXCEPT !.dirents = @ \ {n}, !.out = call[c].out,
                                   !.skipped = call[c].skipped \cup {n}]
  BY <1>1 DEF Recs
<1>6. ASSUME NEW n \in call[c].dirents,
             \/ /\ ~There(tree, call[c].path, n)
                /\ Set(c, [call[c] EXCEPT !.dirents = @ \ {n}])
             \/ Set(c, [call[c] EXCEPT !.dirents = @ \ {n}, !.out = @ \cup {n}])
             \/ Set(c, [call[c] EXCEPT !.dirents = @ \ {n}, !.skipped = @ \cup {n}])
      PROVE  Inv'
  <2>1. CASE /\ ~There(tree, call[c].path, n)
             /\ Set(c, [call[c] EXCEPT !.dirents = @ \ {n}])
    <3>1. Set(c, [call[c] EXCEPT !.dirents = @ \ {n}, !.out = call[c].out,
                                 !.skipped = call[c].skipped])
      BY <1>5, <2>1, Zenon DEF Set
    <3> QED BY <1>4, <2>1, <3>1, Zenon
  <2>2. CASE Set(c, [call[c] EXCEPT !.dirents = @ \ {n}, !.out = @ \cup {n}])
    <3>1. Set(c, [call[c] EXCEPT !.dirents = @ \ {n}, !.out = call[c].out \cup {n},
                                 !.skipped = call[c].skipped])
      BY <1>5, <2>2, Zenon DEF Set
    <3> QED BY <1>4, <3>1, Zenon
  <2>3. CASE Set(c, [call[c] EXCEPT !.dirents = @ \ {n}, !.skipped = @ \cup {n}])
    <3>1. Set(c, [call[c] EXCEPT !.dirents = @ \ {n}, !.out = call[c].out,
                                 !.skipped = call[c].skipped \cup {n}])
      BY <1>5, <2>3, Zenon DEF Set
    <3> QED BY <1>4, <3>1, Zenon
  <2> QED BY <1>6, <2>1, <2>2, <2>3
<1> QED BY <1>3, <1>6 DEF Info

-----------------------------------------------------------------------------
(* A call begins                                                           *)

\* Nothing is promised to an idle caller.
LEMMA IdleOK ==
    /\ Idle \in Recs /\ Idle.pc = "idle"
    /\ \A t : CallInv(Idle, t) /\ ReadInv(Idle, t)
<1>1. Idle \in Recs
  <2>1. <<>> \in Seq(UNION {EntriesOf(q) : q \in Requests}) /\ <<>> \in Seq(Data)
    OBVIOUS
  <2> QED BY <2>1, FilesAssumption DEF Idle, Recs, Pcs
<1>2. Idle.pc = "idle" /\ Idle.keep = {} /\ Idle.out = {} /\ Idle.skipped = {}
  BY DEF Idle
<1> QED BY <1>1, <1>2 DEF CallInv, PutInv, ListInv, ReadInv, Writing

\* A call begins.
LEMMA BeginInv ==
    ASSUME Inv, NEW c \in Callers, NEW q \in Requests, Begin(c, q)
    PROVE  Inv'
<1> DEFINE first == CASE q.op = "sync"  -> "mkdir"
                      [] q.op = "write" -> "next"
                      [] q.op = "read"  -> "open"
                      [] q.op = "list"  -> "stat"
           p == IF q.op = "write" THEN Root ELSE Resolve(Target(q.path))
           todo == IF Writes(q) THEN Archive(q) ELSE <<>>
           to == IF Escapes(p) \/ NoPath(q) THEN "failed" ELSE first
           k == [Idle EXCEPT !.pc = to, !.req = q, !.path = p, !.todo = todo]
<1>1. call' = [call EXCEPT ![c] = k] /\ tree' = tree
  BY DEF Begin, Set
<1>2. q.op \in {"sync", "write", "read", "list"}
  BY WorkspaceAssumption
<1>3. todo \in Seq(EntriesOf(q))
  <2>1. CASE q.op = "sync"
    BY <2>1, WorkspaceAssumption DEF EntriesOf, Writes, Archive
  <2>2. CASE q.op = "write"
    BY <2>2 DEF EntriesOf, Own, Writes, Archive
  <2>3. CASE q.op \in {"read", "list"}
    BY <2>3 DEF Writes
  <2> QED BY <1>2, <2>1, <2>2, <2>3
<1>4. todo \in Seq(UNION {EntriesOf(r) : r \in Requests})
  <2>1. EntriesOf(q) \subseteq UNION {EntriesOf(r) : r \in Requests}
    OBVIOUS
  <2> HIDE DEF todo
  <2> QED BY <1>3, <2>1, SeqMonotonic
<1>p. /\ p \in Nodes
      /\ q.op = "sync" /\ ~Escapes(p) => Safe(tree, p)
      /\ q.op = "read" => Real(tree, p) = Real(tree, Target(q.path))
  <2>1. TreeInv(tree) /\ Target(q.path) \in Nodes
    BY Named DEF Inv
  <2> QED BY <2>1, ResolveOK, FilesAssumption
<1>5. /\ first \in {"mkdir", "next", "open", "stat"}
      /\ first = "mkdir" => q.op = "sync"
      /\ first \in {"mkdir", "next"} => Writes(q)
      /\ first = "open" => q.op = "read"
      /\ first = "stat" => q.op = "list"
  BY <1>2 DEF Writes
<1>6. /\ to \in Pcs
      /\ to = "failed" \/ (~Escapes(p) /\ to = first)
  BY <1>5 DEF Pcs, Writing
<1> HIDE DEF first, todo, to, p
<1>7. /\ k \in Recs /\ k.pc = to /\ k.req = q /\ k.todo = todo /\ k.got = <<>>
      /\ k.path = p /\ k.keep = {} /\ k.out = {} /\ k.skipped = {}
  <2>1. Idle \in Recs /\ Idle.got = <<>> /\ Idle.keep = {} /\ Idle.out = {}
        /\ Idle.skipped = {}
    BY IdleOK DEF Idle
  <2> QED BY <1>4, <1>6, <1>p, <2>1 DEF Recs
<1> HIDE DEF k
<1>8. CallInv(k, tree) /\ ReadInv(k, tree)
  BY <1>p, <1>3, <1>5, <1>6, <1>7 DEF CallInv, PutInv, ListInv, ReadInv, Writing, Meant
<1>9. /\ call' \in [Callers -> Recs] /\ call'[c] = k
      /\ \A y \in Callers : y # c => call'[y] = call[y]
  BY <1>1, <1>7 DEF Inv
<1>10. /\ alone' \in [Callers -> BOOLEAN]
       /\ alone'[c] => \A y \in Callers \ {c} : Ended(y) \/ ~Writes(call[y].req)
       /\ \A y \in Callers : y # c /\ alone'[y] => alone[y] /\ ~Writes(q)
  <2> DEFINE mine == \A y \in Callers \ {c} : Ended(y) \/ ~Writes(call[y].req)
             A(x) == IF x = c THEN mine ELSE alone[x] /\ ~Writes(q)
  <2>1. alone' = [x \in Callers |-> A(x)]
    BY DEF Begin
  <2>2. \A x \in Callers : A(x) \in BOOLEAN
    BY DEF Inv
  <2>3. \A x \in Callers : alone'[x] = A(x)
    BY <2>1
  <2> HIDE DEF A
  <2>4. alone' \in [Callers -> BOOLEAN]
    BY <2>1, <2>2
  <2> QED BY <2>3, <2>4 DEF A
<1>11. ASSUME NEW y \in Callers
       PROVE  CallInv(call'[y], tree')
  BY <1>1, <1>8, <1>9 DEF Inv
<1>12. ASSUME NEW y \in Callers, alone'[y]
       PROVE  ReadInv(call'[y], tree')
  <2>1. CASE y = c
    BY <1>1, <1>8, <1>9, <2>1
  <2>2. CASE y # c
    BY <1>1, <1>9, <1>10, <1>12, <2>2 DEF Inv
  <2> QED BY <2>1, <2>2
<1>13. ASSUME NEW z \in Callers, NEW y \in Callers, y # z, alone'[z],
              call'[z].pc # "idle"
       PROVE  call'[y].pc \in {"idle", "ok", "failed"} \/ ~Writes(call'[y].req)
  <2>1. CASE z = c
    BY <1>9, <1>10, <1>13, <2>1 DEF Ended
  <2>2. CASE z # c /\ y = c
    BY <1>7, <1>9, <1>10, <1>13, <2>2
  <2>3. CASE z # c /\ y # c
    <3>1. alone[z] /\ call[z].pc # "idle"
      BY <1>9, <1>10, <1>13, <2>3
    <3> QED BY <1>9, <1>13, <2>3, <3>1 DEF Inv, AloneInv, Ended
  <2> QED BY <2>1, <2>2, <2>3
<1>14. TreeInv(tree')
  BY <1>1 DEF Inv
<1> QED BY <1>9, <1>10, <1>11, <1>12, <1>13, <1>14 DEF Inv, AloneInv, Ended

-----------------------------------------------------------------------------
(* The theorems                                                            *)

\* The workspace before any call.
LEMMA InitInv == Init => Inv
<1> SUFFICES ASSUME Init PROVE Inv
  OBVIOUS
<1>1. TreeInv(tree)
  BY WorkspaceAssumption DEF Init, TreeInv
<1>2. call \in [Callers -> Recs] /\ \A c \in Callers : call[c] = Idle
  BY IdleOK DEF Init
<1>3. \A c \in Callers : CallInv(call[c], tree) /\ ReadInv(call[c], tree)
  BY <1>2, IdleOK
<1>4. \A c \in Callers : call[c].pc = "idle"
  BY <1>2, IdleOK
<1>5. alone \in [Callers -> BOOLEAN]
  BY DEF Init
<1> QED BY <1>1, <1>2, <1>3, <1>4, <1>5 DEF Inv, AloneInv

\* Every step keeps the invariant.
LEMMA NextInv == Inv /\ [Next]_vars => Inv'
<1>1. ASSUME Inv, UNCHANGED vars
      PROVE  Inv'
  BY <1>1 DEF vars, Inv, AloneInv, Ended
<1>2. ASSUME Inv, NEW c \in Callers, Work(c)
      PROVE  Inv'
  BY <1>2, MakeDestInv, ReadDestInv, ClearDestInv, RemoveAllInv, UntarInv, NextEntryInv,
     MakeEntryInv, CreateInv, CopyBlockInv, CloseInv, OpenInv, ReadBlockInv, StatInv,
     ReadDirInv, InfoInv DEF Work
<1> QED BY <1>1, <1>2, BeginInv DEF Next

\* The inductive invariant of the file service.
THEOREM InvHolds == Spec => []Inv
  BY InitInv, NextInv, PTL DEF Spec

\* What is outside the workspace is never changed, for any path, any archive and
\* any links: a path that a handler uses, at whatever time after resolve, leads
\* into the workspace or to where there was nothing.  With no link in the
\* workspace nothing outside it appears either.
THEOREM ContainedHolds == Spec => []Contained
<1>1. Inv => Contained
  <2>1. \A p \in Nodes \ Under(Root) : p \in Nodes /\ (p \in Ours => Leak(p))
    BY DEF Under, Inside, Ours
  <2> QED BY <2>1 DEF Inv, TreeInv, Contained
<1> QED BY <1>1, InvHolds, PTL

\* FileRead returns a file nobody writes whole, also through a link, and FileList
\* every entry that was there from ReadDir on, but for those whose Info failed,
\* and none that was not, whatever other calls do.
THEOREM QuerySoundHolds == Spec => []QuerySound
<1>1. Inv => QuerySound
  BY DEF Inv, CallInv, ListInv, ReadInv, Meant, QuerySound
<1> QED BY <1>1, InvHolds, PTL
==============================================================================
