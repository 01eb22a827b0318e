----------------------------- MODULE SyncProofs -----------------------------
(***************************************************************************)
(* What FileWrite and SyncFolder leave in the workspace and what they say  *)
(* of it, for every file system, archive and number of concurrent calls:   *)
(* Files!PutResult, on top of the invariant of FilesProofs.                *)
(***************************************************************************)
EXTENDS FilesProofs, FiniteSetTheorems

-----------------------------------------------------------------------------
(* The invariant                                                           *)

\* How many entries of the archive are done.
Done(k) == Len(Archive(k.req)) - Len(k.todo)

\* SyncFolder before its archive.
Early == {"mkdir", "readdir", "clear", "remove", "untar"}

\* A call that writes: what is left is the rest of the archive, the count is of
\* the files among what is done, and the path is the one that is up, if no path
\* of the call leads through a link.
Told(k) == k.pc # "idle" /\ Writes(k.req) =>
    /\ Done(k) \in Nat
    /\ \A i \in 1 .. Len(k.todo) : k.todo[i] = Archive(k.req)[Done(k) + i]
    /\ k.n = Cardinality(Regs(k.req, Done(k)))
    /\ k.pc \in Early => Done(k) = 0
    /\ k.pc \in {"make", "create", "copy"} => k.todo # <<>>
    /\ k.pc = "make" => Head(k.todo).kind \in {"dir", "reg"}
    /\ k.pc \in {"create", "copy"} => Head(k.todo).kind = "reg"
    /\ k.pc = "ok" => k.todo = <<>>
    /\ k.pc \in Early \ {"untar"} /\ Plain(k.req) => k.path = Target(k.req.path)
    /\ k.pc \in {"make", "create"} /\ Plain(k.req) => k.path = Place(k.req, Done(k) + 1)

\* The i-th entry is the file that is being written, or was when the call
\* failed.
AtHand(k, i) ==
    /\ k.pc \in {"copy", "failed"}
    /\ k.todo # <<>> /\ Head(k.todo).kind = "reg"
    /\ Place(k.req, Done(k) + 1) = Place(k.req, i)

\* The files that are counted are whole, and the one that is open is written up
\* to where the call is.
Whole(k, t) == k.pc # "idle" /\ Writes(k.req) =>
    /\ \A i \in Regs(k.req, Done(k)) :
          t[Place(k.req, i)] = File(k.req.ver) \/ AtHand(k, i)
    /\ k.pc = "copy" =>
          /\ k.fd = Place(k.req, Done(k) + 1) /\ t[k.fd].kind = "file"
          /\ \A b \in 1 .. k.at - 1 : t[k.fd].data[b] = k.req.ver

\* What a clean call has made so far.
Stands(k) ==
    Made(k.req, Done(k)) \cup
    CASE k.pc = "create" -> Above(Front(Place(k.req, Done(k) + 1)))
      [] k.pc = "copy"   -> Above(Place(k.req, Done(k) + 1))
      [] OTHER           -> {}

\* Under the destination of a clean call: at first only what is under an entry
\* that is still to be removed, then only what it made.
Cleared(k, t) == k.pc # "idle" /\ Writes(k.req) /\ k.req.op = "sync" /\ k.req.clean =>
    /\ k.pc \in {"clear", "remove"} =>
          \A x \in Below(Target(k.req.path)) : t[x].kind # "none" =>
              \/ \E n \in k.dirents : /\ Append(Target(k.req.path), n) \in Nodes
                                      /\ IsPrefix(Append(Target(k.req.path), n), x)
              \/ k.pc = "remove" /\ IsPrefix(k.top, x)
    /\ k.pc \in {"untar", "next", "make", "create", "copy", "ok"} =>
          \A x \in Below(Target(k.req.path)) : t[x].kind # "none" <=> x \in Stands(k)

PutsInv ==
    \A c \in Callers :
        /\ Told(call[c])
        /\ alone[c] /\ Plain(call[c].req) =>
              Whole(call[c], tree) /\ Cleared(call[c], tree)

-----------------------------------------------------------------------------
(* Archives                                                                *)

\* The entries of a call that writes.
LEMMA ArchiveSeq ==
    ASSUME NEW q \in Requests, Writes(q)
    PROVE  /\ Archive(q) \in Seq(EntriesOf(q))
           /\ Len(Archive(q)) \in Nat
           /\ \A i \in 1 .. Len(Archive(q)) : Archive(q)[i] \in EntriesOf(q)
<1>1. CASE q.op = "sync"
  BY <1>1, WorkspaceAssumption DEF EntriesOf, Archive
<1>2. CASE q.op = "write"
  BY <1>2 DEF EntriesOf, Archive, Own
<1>3. Archive(q) \in Seq(EntriesOf(q))
  BY <1>1, <1>2 DEF Writes
<1> QED BY <1>3, ElementOfSeq

\* Where an entry goes.
LEMMA PlaceOK ==
    ASSUME NEW q \in Requests, Writes(q), NEW i \in 1 .. Len(Archive(q))
    PROVE  Place(q, i) \in Nodes
  BY ArchiveSeq, Named DEF Place

\* A path that leads through no link is what it says.
LEMMA PlainPath ==
    ASSUME NEW p \in Nodes, ~OnLink(p)
    PROVE  /\ Real(tree, p) = p /\ Resolve(p) = p
           /\ Front(p) \in Nodes /\ Real(tree, Front(p)) = Front(p)
<1>1. Real(tree, p) = p /\ Resolve(p) = p
  BY DEF Real, Live, Resolve
<1>2. p \in Path
  BY NodePath
<1>3. CASE p = <<>>
  <2>1. Front(<<>>) = <<>>
    BY DEF Front
  <2> QED BY <1>1, <1>3, <2>1
<1>4. CASE p # <<>>
  <2>1. Front(p) \in Nodes /\ Front(p) \in Path /\ IsPrefix(Front(p), p)
    BY <1>2, <1>4, Parent, FilesAssumption
  <2>2. ~OnLink(Front(p))
    <3> SUFFICES ASSUME NEW l \in Links, IsPrefix(l, Front(p)) PROVE FALSE
      BY DEF OnLink
    <3>1. l \in Path
      BY NodePath DEF Links
    <3> QED BY <1>2, <2>1, <3>1, PrefixOrder DEF OnLink
  <2> QED BY <1>1, <2>1, <2>2 DEF Real, Live
<1> QED BY <1>3, <1>4

\* The files among one more entry.
LEMMA RegsStep ==
    ASSUME NEW q, NEW m \in Nat
    PROVE  /\ Cardinality(Regs(q, 0)) = 0
           /\ Cardinality(Regs(q, m)) \in Nat
           /\ Archive(q)[m + 1].kind = "reg" =>
                 /\ Regs(q, m + 1) = Regs(q, m) \cup {m + 1}
                 /\ Cardinality(Regs(q, m + 1)) = Cardinality(Regs(q, m)) + 1
           /\ Archive(q)[m + 1].kind # "reg" => Regs(q, m + 1) = Regs(q, m)
<1>1. Regs(q, 0) = {} /\ Cardinality({}) = 0
  BY FS_EmptySet DEF Regs
<1>2. IsFiniteSet(1 .. m)
  BY FS_Interval
<1>3. Regs(q, m) \in SUBSET (1 .. m)
  BY DEF Regs
<1>4. IsFiniteSet(Regs(q, m))
  BY <1>2, <1>3, FS_Subset
<1>5. Cardinality(Regs(q, m)) \in Nat
  BY <1>4, FS_CardinalityType
<1>6. ASSUME Archive(q)[m + 1].kind = "reg"
      PROVE  /\ Regs(q, m + 1) = Regs(q, m) \cup {m + 1}
             /\ m + 1 \notin Regs(q, m)
  BY <1>6 DEF Regs
<1>7. ASSUME Archive(q)[m + 1].kind = "reg"
      PROVE  Cardinality(Regs(q, m + 1)) = Cardinality(Regs(q, m)) + 1
  BY <1>4, <1>6, <1>7, FS_AddElement
<1>8. Archive(q)[m + 1].kind # "reg" => Regs(q, m + 1) = Regs(q, m)
  BY DEF Regs
<1> QED BY <1>1, <1>5, <1>6, <1>7, <1>8

\* What one more entry makes.
LEMMA MadeStep ==
    ASSUME NEW q, NEW m \in Nat
    PROVE  /\ Made(q, 0) = {}
           /\ Archive(q)[m + 1].kind \in {"dir", "reg"} =>
                 Made(q, m + 1) = Made(q, m) \cup Above(Place(q, m + 1))
           /\ Archive(q)[m + 1].kind \notin {"dir", "reg"} => Made(q, m + 1) = Made(q, m)
<1>1. Made(q, 0) = {}
  BY DEF Made
<1>2. \A i : i \in 1 .. m + 1 <=> i \in 1 .. m \/ i = m + 1
  OBVIOUS
<1>3. ASSUME Archive(q)[m + 1].kind \in {"dir", "reg"}
      PROVE  Made(q, m + 1) = Made(q, m) \cup Above(Place(q, m + 1))
  BY <1>2, <1>3, Zenon DEF Made, Above
<1>4. ASSUME Archive(q)[m + 1].kind \notin {"dir", "reg"}
      PROVE  Made(q, m + 1) = Made(q, m)
  BY <1>2, <1>4, Zenon DEF Made
<1> QED BY <1>1, <1>3, <1>4

\* A call that is at its next entry.
LEMMA NextUp ==
    ASSUME Inv, NEW c \in Callers, Told(call[c]), call[c].pc \in Writing,
           call[c].todo # <<>>
    PROVE  /\ call[c].req \in Requests /\ Writes(call[c].req)
           /\ Done(call[c]) \in Nat
           /\ Done(call[c]) + 1 \in 1 .. Len(Archive(call[c].req))
           /\ Cur(c) = Archive(call[c].req)[Done(call[c]) + 1]
           /\ At(c) = Place(call[c].req, Done(call[c]) + 1)
           /\ Len(call[c].todo) \in Nat
<1>1. /\ call[c] \in Recs /\ CallInv(call[c], tree) /\ call[c].req \in Requests
      /\ call[c].pc # "idle"
  BY AtWork DEF Writing, Ended
<1>2. Writes(call[c].req) /\ call[c].todo \in Seq(EntriesOf(call[c].req))
  BY <1>1 DEF CallInv, PutInv
<1>3. /\ Len(call[c].todo) \in Nat /\ Len(call[c].todo) >= 1
      /\ Head(call[c].todo) = call[c].todo[1]
  BY <1>2, EmptySeq
<1>4. /\ Done(call[c]) \in Nat
      /\ call[c].todo[1] = Archive(call[c].req)[Done(call[c]) + 1]
  BY <1>1, <1>2, <1>3 DEF Told
<1>5. Done(call[c]) + 1 \in 1 .. Len(Archive(call[c].req))
  BY <1>1, <1>2, <1>3, <1>4, ArchiveSeq DEF Done
<1> QED BY <1>1, <1>2, <1>3, <1>4, <1>5 DEF Cur, At, Place

-----------------------------------------------------------------------------
(* A step of one call                                                      *)

\* A call moves on to k: the calls that are alone are idle or see no change.
LEMMA PutFrame ==
    ASSUME Inv, PutsInv, NEW c \in Callers, NEW k, ~Ended(c),
           call' = [call EXCEPT ![c] = k], alone' = alone,
           tree' = tree \/ Writes(call[c].req),
           Told(k), k.req = call[c].req,
           alone[c] /\ Plain(call[c].req) => Whole(k, tree') /\ Cleared(k, tree')
    PROVE  PutsInv'
<1>1. /\ call'[c] = k
      /\ \A y \in Callers : y # c => call'[y] = call[y]
  BY DEF Inv
<1>2. ASSUME NEW y \in Callers, y # c
      PROVE  /\ Told(call'[y])
             /\ alone[y] /\ Plain(call'[y].req) =>
                   Whole(call'[y], tree') /\ Cleared(call'[y], tree')
  <2>1. call'[y] = call[y] /\ Told(call[y])
    BY <1>1, <1>2 DEF PutsInv
  <2>2. CASE tree' = tree
    BY <2>1, <2>2 DEF PutsInv
  <2>3. CASE Writes(call[c].req)
    <3>1. alone[y] => call[y].pc = "idle"
      BY <1>2, <2>3 DEF Inv, AloneInv
    <3> QED BY <2>1, <3>1 DEF Whole, Cleared
  <2> QED BY <2>2, <2>3
<1>3. \A y \in Callers :
         /\ Told(call'[y])
         /\ alone'[y] /\ Plain(call'[y].req) =>
               Whole(call'[y], tree') /\ Cleared(call'[y], tree')
  BY <1>1, <1>2
<1> QED BY <1>3 DEF PutsInv

\* A call that does not write says nothing of what it wrote.
LEMMA QueryStep ==
    ASSUME Inv, PutsInv, NEW c \in Callers, NEW k, ~Ended(c), ~Writes(call[c].req),
           call' = [call EXCEPT ![c] = k], alone' = alone, tree' = tree,
           k.req = call[c].req
    PROVE  PutsInv'
<1>1. Told(k) /\ Whole(k, tree') /\ Cleared(k, tree')
  BY DEF Told, Whole, Cleared
<1> QED BY <1>1, PutFrame

\* What a call that stays at its entry was told stays true.
LEMMA ToldStays ==
    ASSUME NEW k, NEW r, Told(r), r.pc # "idle", k.req = r.req, k.todo = r.todo, k.n = r.n,
           k.pc \in Early => Done(r) = 0,
           k.pc \in {"make", "create", "copy"} => r.todo # <<>>,
           k.pc = "make" => Head(r.todo).kind \in {"dir", "reg"},
           k.pc \in {"create", "copy"} => Head(r.todo).kind = "reg",
           k.pc = "ok" => r.todo = <<>>,
           k.pc \in Early \ {"untar"} /\ Plain(r.req) => k.path = Target(r.req.path),
           k.pc \in {"make", "create"} /\ Plain(r.req) => k.path = Place(r.req, Done(r) + 1)
    PROVE  Told(k) /\ Done(k) = Done(r)
<1>1. Done(k) = Done(r)
  BY DEF Done
<1> QED BY <1>1 DEF Told

\* A call that fails.
LEMMA FailPuts ==
    ASSUME Inv, PutsInv, NEW c \in Callers, ~Ended(c), Fail(c)
    PROVE  PutsInv'
<1> DEFINE k == [call[c] EXCEPT !.pc = "failed"]
<1>1. call[c] \in Recs /\ call[c].pc # "idle" /\ Told(call[c])
  BY AtWork DEF Ended, PutsInv
<1>2. /\ k.pc = "failed" /\ k.req = call[c].req /\ k.todo = call[c].todo
      /\ k.n = call[c].n
  BY <1>1 DEF Recs
<1>3. call' = [call EXCEPT ![c] = k] /\ alone' = alone /\ tree' = tree
  BY DEF Fail, Goto, Set
<1> HIDE DEF k
<1>4. Told(k) /\ Done(k) = Done(call[c])
  BY <1>1, <1>2, ToldStays DEF Early
<1>5. ASSUME alone[c], Plain(call[c].req)
      PROVE  Whole(k, tree) /\ Cleared(k, tree)
  <2>1. Whole(call[c], tree)
    BY <1>5 DEF PutsInv
  <2> QED BY <1>1, <1>2, <1>4, <2>1 DEF Whole, Cleared, AtHand
<1> QED BY <1>2, <1>3, <1>4, <1>5, PutFrame

-----------------------------------------------------------------------------
(* SyncFolder before its archive                                           *)

\* As long as no entry is done there is no file to be whole.
LEMMA NothingYet ==
    ASSUME NEW k, NEW t, k.pc \in Early, Done(k) = 0
    PROVE  Whole(k, t)
  BY DEF Whole, Regs, Early

\* SyncFolder makes its destination.
LEMMA MakeDestPuts ==
    ASSUME Inv, PutsInv, NEW c \in Callers, MakeDest(c)
    PROVE  PutsInv'
<1> DEFINE k == [call[c] EXCEPT !.pc = IF call[c].req.clean THEN "readdir" ELSE "untar"]
<1>0. call[c].pc = "mkdir" /\ ~Ended(c) /\ call[c].pc # "idle" /\ call[c].pc \in Early
  BY DEF MakeDest, Ended, Early
<1>1. CASE Fail(c)
  BY <1>0, <1>1, FailPuts
<1>2. CASE call' = [call EXCEPT ![c] = k] /\ UNCHANGED alone
  <2>1. /\ call[c] \in Recs /\ CallInv(call[c], tree) /\ Told(call[c])
        /\ Writes(call[c].req)
    BY <1>0, AtWork DEF PutsInv, CallInv, PutInv, Writing
  <2>2. /\ k.pc = (IF call[c].req.clean THEN "readdir" ELSE "untar")
        /\ k.req = call[c].req /\ k.todo = call[c].todo /\ k.n = call[c].n
        /\ k.path = call[c].path
    BY <2>1 DEF Recs
  <2> HIDE DEF k
  <2>3. /\ Done(call[c]) = 0
        /\ Plain(call[c].req) => call[c].path = Target(call[c].req.path)
    BY <1>0, <2>1 DEF Told
  <2>4. Told(k) /\ Done(k) = 0
    BY <1>0, <2>1, <2>2, <2>3, ToldStays
  <2>5. Whole(k, tree')
    BY <2>2, <2>4, NothingYet DEF Early
  <2>6. CASE k.pc = "readdir"
    <3>1. Cleared(k, tree')
      BY <2>6 DEF Cleared
    <3> QED BY <1>0, <1>2, <2>1, <2>2, <2>4, <2>5, <3>1, PutFrame
  <2>7. CASE k.pc = "untar"
    <3>1. Cleared(k, tree')
      BY <2>2, <2>7 DEF Cleared
    <3> QED BY <1>0, <1>2, <2>1, <2>2, <2>4, <2>5, <3>1, PutFrame
  <2> QED BY <2>2, <2>6, <2>7
<1> QED BY <1>1, <1>2 DEF MakeDest, Sys, Goto, Set

\* What is there below a directory is in one of its entries, at any depth.
LEMMA EntryAbove ==
    ASSUME TreeInv(tree), NEW p \in Nodes, ~OnLink(p), NEW x \in Below(p),
           tree[x].kind # "none"
    PROVE  \E n \in Names(p) : Append(p, n) \in Nodes /\ IsPrefix(Append(p, n), x)
<1> DEFINE S == {y \in Below(p) : IsPrefix(y, x) /\ tree[y].kind # "none"}
           T == {Len(y) : y \in S}
<1>1. x \in Nodes /\ p \in Path /\ x \in Path /\ Below(p) \subseteq Nodes
  BY NodePath DEF Below, Under
<1>2. x \in S
  BY <1>1, PrefixOrder
<1>3. T \subseteq Nat /\ T # {}
  BY <1>1, <1>2, NodePath
<1>4. PICK m \in T : \A l \in T : m <= l
  <2> HIDE DEF T
  <2> QED BY <1>3, LeastNat
<1>5. PICK y \in S : \A z \in S : Len(y) <= Len(z)
  BY <1>4
<1>6. /\ y \in Nodes /\ y \in Path /\ IsPrefix(p, y) /\ y # p /\ IsPrefix(y, x)
      /\ tree[y].kind # "none" /\ Len(y) \in Nat
  BY <1>1, <1>5, NodePath DEF Below, Under
<1>7. y # <<>> /\ IsPrefix(p, Front(y))
  BY <1>1, <1>6, AboveParent
<1>8. /\ Front(y) \in Nodes /\ Front(y) \in Path /\ Len(Front(y)) = Len(y) - 1
      /\ IsPrefix(Front(y), y) /\ tree[Front(y)].kind = "dir"
  BY <1>6, <1>7, Parent, FilesAssumption DEF TreeInv, WellFormed
<1>9. Front(y) = p
  <2> SUFFICES ASSUME Front(y) # p PROVE FALSE
    OBVIOUS
  <2>1. IsPrefix(Front(y), x)
    BY <1>1, <1>6, <1>8, PrefixOrder
  <2>2. Front(y) \in S
    BY <1>7, <1>8, <2>1 DEF Below, Under
  <2> QED BY <1>5, <1>6, <1>8, <2>2
<1>10. Last(y) \in Names(p)
  <2>1. Real(tree, p) = p
    BY PlainPath
  <2> QED BY <1>6, <1>7, <1>9, <2>1 DEF Names
<1>11. Append(p, Last(y)) = y
  BY <1>6, <1>7, <1>9, NameIn
<1> QED BY <1>6, <1>10, <1>11

\* SyncFolder lists its destination.
LEMMA ReadDestPuts ==
    ASSUME Inv, PutsInv, NEW c \in Callers, ReadDest(c)
    PROVE  PutsInv'
<1> DEFINE dest == Target(call[c].req.path)
           ents == Names(call[c].path)
           k == [call[c] EXCEPT !.pc = "clear", !.dirents = ents]
<1>0. call[c].pc = "readdir" /\ ~Ended(c) /\ call[c].pc # "idle" /\ call[c].pc \in Early
  BY DEF ReadDest, Ended, Early
<1>1. CASE Fail(c)
  BY <1>0, <1>1, FailPuts
<1>2. CASE UNCHANGED <<tree, alone>> /\ call' = [call EXCEPT ![c] = k]
  <2>1. /\ call[c] \in Recs /\ CallInv(call[c], tree) /\ Told(call[c])
        /\ Writes(call[c].req) /\ TreeInv(tree) /\ dest \in Nodes
    BY <1>0, AtWork DEF PutsInv, CallInv, PutInv, Writing
  <2> HIDE DEF ents
  <2>2. /\ k.pc = "clear" /\ k.dirents = ents /\ k.path = call[c].path
        /\ k.req = call[c].req /\ k.todo = call[c].todo /\ k.n = call[c].n
    BY <2>1 DEF Recs
  <2> HIDE DEF k
  <2>3. Done(call[c]) = 0 /\ (Plain(call[c].req) => call[c].path = dest)
    BY <1>0, <2>1 DEF Told
  <2>4. Told(k) /\ Done(k) = 0
    BY <1>0, <2>1, <2>2, <2>3, ToldStays
  <2>5. Whole(k, tree)
    BY <2>2, <2>4, NothingYet DEF Early
  <2>6. ASSUME Plain(call[c].req)
        PROVE  Cleared(k, tree)
    <3>1. ents = Names(dest) /\ ~OnLink(dest)
      BY <2>3, <2>6 DEF ents, Plain
    <3>2. \A x \in Below(dest) : tree[x].kind # "none" =>
             \E n \in ents : Append(dest, n) \in Nodes /\ IsPrefix(Append(dest, n), x)
      BY <2>1, <3>1, EntryAbove
    <3> QED BY <2>2, <3>2 DEF Cleared
  <2> QED BY <1>0, <1>2, <2>2, <2>4, <2>5, <2>6, PutFrame
<1> QED BY <1>1, <1>2 DEF ReadDest, Sys, Set

\* One thing in an entry of the destination is removed.
LEMMA UnlinkPuts ==
    ASSUME Inv, PutsInv, NEW c \in Callers, call[c].pc = "remove",
           NEW p \in Nodes, Unlink(p), alone' = alone
    PROVE  PutsInv'
<1>0. ~Ended(c) /\ call[c].pc \in Early
  BY DEF Ended, Early
<1>1. /\ call[c] \in Recs /\ CallInv(call[c], tree) /\ Writes(call[c].req)
      /\ Told(call[c]) /\ Done(call[c]) = 0
  <2>1. call[c] \in Recs /\ CallInv(call[c], tree) /\ Told(call[c])
    BY <1>0, AtWork DEF PutsInv
  <2> QED BY <1>0, <2>1 DEF CallInv, PutInv, Writing, Told
<1>2. ASSUME NEW y \in Callers
      PROVE  /\ call'[y].pc = call[y].pc /\ call'[y].req = call[y].req
             /\ call'[y].todo = call[y].todo /\ call'[y].n = call[y].n
             /\ call'[y].path = call[y].path /\ call'[y].top = call[y].top
             /\ call'[y].dirents = call[y].dirents
             /\ Told(call'[y]) /\ Done(call'[y]) = Done(call[y])
  <2>1. call[y] \in Recs /\ Told(call[y])
    BY DEF Inv, PutsInv
  <2> DEFINE fd1 == IF call[y].fd = p THEN Orphan ELSE call[y].fd
             keep1 == {n \in call[y].keep : There([tree EXCEPT ![p] = None], call[y].path, n)}
  <2>2. call'[y] = [call[y] EXCEPT !.fd = fd1, !.keep = keep1]
    BY DEF Unlink
  <2> HIDE DEF fd1, keep1
  <2>3. /\ call'[y].pc = call[y].pc /\ call'[y].req = call[y].req
        /\ call'[y].todo = call[y].todo /\ call'[y].n = call[y].n
        /\ call'[y].path = call[y].path /\ call'[y].top = call[y].top
        /\ call'[y].dirents = call[y].dirents
    BY <2>1, <2>2 DEF Recs
  <2>4. Done(call'[y]) = Done(call[y])
    BY <2>3 DEF Done
  <2> QED BY <2>1, <2>3, <2>4 DEF Told
<1>3. \A x \in Nodes : tree'[x].kind # "none" => tree[x].kind # "none"
  BY Kinds DEF Unlink, Inv, TreeInv
<1>4. ASSUME NEW y \in Callers, alone[y], Plain(call'[y].req)
      PROVE  Whole(call'[y], tree') /\ Cleared(call'[y], tree')
  <2>1. CASE y = c
    <3>1. Whole(call'[y], tree')
      BY <1>0, <1>1, <1>2, <2>1, NothingYet
    <3>2. Cleared(call[c], tree)
      BY <1>2, <1>4, <2>1 DEF PutsInv
    <3>3. Below(Target(call[c].req.path)) \subseteq Nodes
      BY DEF Below, Under
    <3> QED BY <1>1, <1>2, <1>3, <2>1, <3>1, <3>2, <3>3 DEF Cleared
  <2>2. CASE y # c
    <3>1. call[y].pc = "idle"
      BY <1>0, <1>1, <1>4, <2>2 DEF Inv, AloneInv
    <3> QED BY <1>2, <3>1 DEF Whole, Cleared
  <2> QED BY <2>1, <2>2
<1> QED BY <1>2, <1>4 DEF PutsInv

\* What is not there holds nothing.
LEMMA EmptyBelow ==
    ASSUME TreeInv(tree), NEW p \in Nodes, tree[p].kind = "none",
           NEW x \in Nodes, IsPrefix(p, x)
    PROVE  tree[x].kind = "none"
  BY Ancestors DEF TreeInv

\* A call that clears moves from r to k: what it leaves out has gone.
Spares(r, k, t) ==
    Plain(r.req) /\ r.path = Target(r.req.path) =>
      \A x \in Below(Target(r.req.path)) : t[x].kind # "none" =>
        /\ \A n \in r.dirents :
              /\ Append(Target(r.req.path), n) \in Nodes
              /\ IsPrefix(Append(Target(r.req.path), n), x)
              => n \in k.dirents \/ (k.pc = "remove" /\ IsPrefix(k.top, x))
        /\ r.pc = "remove" => ~IsPrefix(r.top, x)

\* SyncFolder takes an entry of its destination to remove, or is done with one.
LEMMA ClearPuts ==
    ASSUME Inv, PutsInv, NEW c \in Callers, call[c].pc \in {"clear", "remove"},
           NEW k, k.pc \in {"clear", "remove"}, k.req = call[c].req,
           k.todo = call[c].todo, k.n = call[c].n, k.path = call[c].path,
           Set(c, k), tree' = tree, alone' = alone, Spares(call[c], k, tree)
    PROVE  PutsInv'
<1> DEFINE dest == Target(call[c].req.path)
<1>0. ~Ended(c) /\ call[c].pc \in Early /\ call[c].pc # "idle" /\ k.pc \in Early
  BY DEF Ended, Early
<1>1. call[c] \in Recs /\ CallInv(call[c], tree) /\ Told(call[c])
  BY <1>0, AtWork DEF PutsInv
<1>2. Writes(call[c].req)
  BY <1>1 DEF CallInv, PutInv, Writing
<1>3. Done(call[c]) = 0 /\ (Plain(call[c].req) => call[c].path = dest)
  BY <1>0, <1>1, <1>2 DEF Told, Early
<1>4. Told(k) /\ Done(k) = 0
  BY <1>0, <1>1, <1>3, ToldStays
<1>5. Whole(k, tree)
  BY <1>0, <1>4, NothingYet
<1>6. ASSUME alone[c], Plain(call[c].req)
      PROVE  Cleared(k, tree)
  <2>1. Cleared(call[c], tree) /\ call[c].path = dest
    BY <1>3, <1>6 DEF PutsInv
  <2>2. ASSUME call[c].req.op = "sync", call[c].req.clean, NEW x \in Below(dest),
               tree[x].kind # "none"
        PROVE  \/ \E n \in k.dirents : Append(dest, n) \in Nodes /\ IsPrefix(Append(dest, n), x)
               \/ k.pc = "remove" /\ IsPrefix(k.top, x)
    <3>1. \/ \E n \in call[c].dirents : /\ Append(dest, n) \in Nodes
                                         /\ IsPrefix(Append(dest, n), x)
          \/ call[c].pc = "remove" /\ IsPrefix(call[c].top, x)
      BY <1>0, <1>2, <2>1, <2>2 DEF Cleared
    <3> QED BY <1>6, <2>1, <2>2, <3>1 DEF Spares
  <2> QED BY <2>2 DEF Cleared
<1> QED BY <1>0, <1>4, <1>5, <1>6, PutFrame DEF Set

\* A clean call has made what it has made, and its archive begins.
LEMMA GotoPuts ==
    ASSUME Inv, PutsInv, NEW c \in Callers,
           \/ call[c].pc = "clear" /\ call[c].dirents = {}
           \/ call[c].pc = "untar"
           \/ call[c].pc = "next",
           NEW to \in {"untar", "next", "ok"}, Goto(c, to), UNCHANGED <<tree, alone>>,
           to = "untar" => call[c].pc = "clear", call[c].pc = "clear" => to = "untar",
           to = "ok" => call[c].todo = <<>>
    PROVE  PutsInv'
<1> DEFINE k == [call[c] EXCEPT !.pc = to]
<1>0. ~Ended(c) /\ call[c].pc # "idle"
  BY DEF Ended
<1>1. /\ call[c] \in Recs /\ CallInv(call[c], tree) /\ Told(call[c])
      /\ Writes(call[c].req)
  <2>1. call[c] \in Recs /\ CallInv(call[c], tree) /\ Told(call[c])
    BY <1>0, AtWork DEF PutsInv
  <2> QED BY <2>1 DEF CallInv, PutInv, Writing
<1>2. /\ k.pc = to /\ k.req = call[c].req /\ k.todo = call[c].todo /\ k.n = call[c].n
  BY <1>1 DEF Recs
<1>3. call' = [call EXCEPT ![c] = k] /\ alone' = alone /\ tree' = tree
  BY DEF Goto, Set
<1> HIDE DEF k
<1>4. call[c].pc = "clear" => Done(call[c]) = 0
  BY <1>0, <1>1 DEF Told, Early
<1>5. Told(k) /\ Done(k) = Done(call[c])
  BY <1>0, <1>1, <1>2, <1>4, ToldStays DEF Early
<1>6. ASSUME alone[c], Plain(call[c].req)
      PROVE  Whole(k, tree) /\ Cleared(k, tree)
  <2>1. Whole(call[c], tree) /\ Cleared(call[c], tree)
    BY <1>6 DEF PutsInv
  <2>2. Whole(k, tree)
    BY <1>0, <1>2, <1>5, <2>1 DEF Whole, AtHand
  <2>3. CASE call[c].pc = "clear"
    <3>1. Made(k.req, Done(k)) = {}
      BY <1>4, <1>5, <2>3, MadeStep
    <3>2. Stands(k) = {}
      BY <1>2, <2>3, <3>1 DEF Stands
    <3> QED BY <1>1, <1>2, <2>1, <2>2, <2>3, <3>2 DEF Cleared
  <2>4. CASE call[c].pc # "clear"
    <3>1. Stands(k) = Stands(call[c])
      BY <1>2, <1>5, <2>4 DEF Stands
    <3> QED BY <1>1, <1>2, <2>1, <2>2, <2>4, <3>1 DEF Cleared
  <2> QED BY <2>3, <2>4
<1> QED BY <1>0, <1>2, <1>3, <1>5, <1>6, PutFrame

\* SyncFolder empties its destination.
LEMMA ClearDestPuts ==
    ASSUME Inv, PutsInv, NEW c \in Callers, ClearDest(c)
    PROVE  PutsInv'
<1>0. call[c].pc = "clear" /\ ~Ended(c) /\ UNCHANGED <<tree, alone>>
  BY DEF ClearDest, Ended
<1>1. call[c] \in Recs /\ TreeInv(tree) /\ Target(call[c].req.path) \in Nodes
  BY <1>0, AtWork
<1>2. ASSUME NEW n \in call[c].dirents,
             Set(c, [call[c] EXCEPT
                      !.dirents = @ \ {n},
                      !.pc = IF There(tree, call[c].path, n) THEN "remove" ELSE @,
                      !.top = IF There(tree, call[c].path, n)
                              THEN Append(Real(tree, call[c].path), n) ELSE @])
      PROVE  PutsInv'
  <2> DEFINE there == There(tree, call[c].path, n)
             d1 == call[c].dirents \ {n}
             pc1 == IF there THEN "remove" ELSE "clear"
             top1 == IF there THEN Append(Real(tree, call[c].path), n) ELSE call[c].top
             k == [call[c] EXCEPT !.dirents = d1, !.pc = pc1, !.top = top1]
             dest == Target(call[c].req.path)
  <2>1. Set(c, k)
    BY <1>0, <1>2 DEF Set
  <2> HIDE DEF d1, pc1, top1
  <2>2. /\ k.pc = pc1 /\ k.dirents = d1 /\ k.top = top1 /\ k.req = call[c].req
        /\ k.todo = call[c].todo /\ k.n = call[c].n /\ k.path = call[c].path
    BY <1>1 DEF Recs
  <2> HIDE DEF k
  <2>3. pc1 \in {"clear", "remove"}
    BY DEF pc1
  <2>4. ASSUME Plain(call[c].req), call[c].path = dest,
               NEW x \in Below(dest), tree[x].kind # "none"
        PROVE  /\ \A m \in call[c].dirents :
                      Append(dest, m) \in Nodes /\ IsPrefix(Append(dest, m), x)
                      => m \in k.dirents \/ (k.pc = "remove" /\ IsPrefix(k.top, x))
               /\ call[c].pc = "remove" => ~IsPrefix(call[c].top, x)
    <3>1. Real(tree, dest) = dest /\ x \in Nodes
      BY <1>1, <2>4, PlainPath DEF Plain, Below, Under
    <3>2. CASE there
      BY <1>0, <2>2, <2>4, <3>1, <3>2 DEF d1, pc1, top1
    <3>3. CASE ~there
      <4>1. ~(Append(dest, n) \in Nodes /\ IsPrefix(Append(dest, n), x))
        BY <1>1, <2>4, <3>1, <3>3, EmptyBelow DEF There
      <4> QED BY <1>0, <2>2, <4>1 DEF d1
    <3> QED BY <3>2, <3>3
  <2>5. Spares(call[c], k, tree)
    BY <2>4, Zenon DEF Spares
  <2>6. k.pc \in {"clear", "remove"} /\ call[c].pc \in {"clear", "remove"}
    BY <1>0, <2>2, <2>3
  <2>7. tree' = tree /\ alone' = alone
    BY <1>0
  <2> QED BY <2>1, <2>2, <2>5, <2>6, <2>7, ClearPuts
<1>3. CASE call[c].dirents = {} /\ Goto(c, "untar")
  BY <1>0, <1>3, GotoPuts
<1> QED BY <1>2, <1>3 DEF ClearDest

\* An entry of the destination is removed.
LEMMA RemoveAllPuts ==
    ASSUME Inv, PutsInv, NEW c \in Callers, RemoveAll(c)
    PROVE  PutsInv'
<1>0. call[c].pc = "remove" /\ ~Ended(c)
  BY DEF RemoveAll, Ended
<1>1. CASE Fail(c)
  BY <1>0, <1>1, FailPuts
<1>2. CASE \E x \in Under(call[c].top) : Unlink(x) /\ UNCHANGED alone
  BY <1>0, <1>2, UnlinkPuts DEF Under
<1>3. CASE /\ tree[call[c].top].kind = "none" /\ Goto(c, "clear")
           /\ UNCHANGED <<tree, alone>>
  <2> DEFINE k == [call[c] EXCEPT !.pc = "clear"]
  <2>1. call[c] \in Recs /\ TreeInv(tree) /\ call[c].top \in Nodes
    BY <1>0, AtWork DEF Recs
  <2>2. /\ k.pc = "clear" /\ k.dirents = call[c].dirents /\ k.req = call[c].req
        /\ k.todo = call[c].todo /\ k.n = call[c].n /\ k.path = call[c].path
    BY <2>1 DEF Recs
  <2>3. Set(c, k)
    BY <1>3 DEF Goto
  <2> HIDE DEF k
  <2>4. \A x \in Below(Target(call[c].req.path)) :
           tree[x].kind # "none" => ~IsPrefix(call[c].top, x)
    BY <1>3, <2>1, EmptyBelow DEF Below, Under
  <2>5. Spares(call[c], k, tree)
    BY <2>2, <2>4, Zenon DEF Spares
  <2>6. k.pc \in {"clear", "remove"} /\ call[c].pc \in {"clear", "remove"}
    BY <1>0, <2>2
  <2>7. tree' = tree /\ alone' = alone
    BY <1>3
  <2> QED BY <2>2, <2>3, <2>5, <2>6, <2>7, ClearPuts
<1> QED BY <1>1, <1>2, <1>3 DEF RemoveAll, Sys

\* SyncFolder opens the archive.
LEMMA UntarPuts ==
    ASSUME Inv, PutsInv, NEW c \in Callers, Untar(c)
    PROVE  PutsInv'
<1>0. call[c].pc = "untar" /\ ~Ended(c)
  BY DEF Untar, Ended
<1>1. CASE Fail(c)
  BY <1>0, <1>1, FailPuts
<1>2. CASE Goto(c, "next") /\ UNCHANGED <<tree, alone>>
  BY <1>0, <1>2, GotoPuts
<1> QED BY <1>1, <1>2 DEF Untar, Fail

-----------------------------------------------------------------------------
(* An archive                                                              *)

\* One more entry is done.
LEMMA ToldNext ==
    ASSUME Inv, NEW c \in Callers, Told(call[c]), call[c].pc \in Writing,
           call[c].todo # <<>>, NEW k, k.pc = "next", k.req = call[c].req,
           k.todo = Tail(call[c].todo),
           k.n = IF Cur(c).kind = "reg" THEN call[c].n + 1 ELSE call[c].n
    PROVE  Told(k) /\ Done(k) = Done(call[c]) + 1
<1> DEFINE q == call[c].req
           a == Archive(q)
           d == Done(call[c])
           todo == call[c].todo
<1>1. /\ q \in Requests /\ Writes(q) /\ d \in Nat /\ Cur(c) = a[d + 1]
      /\ Len(todo) \in Nat /\ Len(a) \in Nat
  BY NextUp, ArchiveSeq
<1>2. /\ todo \in Seq(EntriesOf(q)) /\ call[c].pc # "idle"
  <2>1. CallInv(call[c], tree)
    BY DEF Inv
  <2> QED BY <2>1 DEF CallInv, PutInv, Writing
<1>3. /\ Len(Tail(todo)) = Len(todo) - 1 /\ Len(todo) >= 1
      /\ \A i \in 1 .. Len(todo) - 1 : Tail(todo)[i] = todo[i + 1]
  BY <1>2, EmptySeq
<1>4. Done(k) = d + 1
  <2>1. Done(k) = Len(a) - Len(Tail(todo)) /\ d = Len(a) - Len(todo)
    BY Zenon DEF Done
  <2> DEFINE la == Len(a)
             lt == Len(todo)
             lu == Len(Tail(todo))
  <2>2. /\ la \in Nat /\ lt \in Nat /\ lu = lt - 1
        /\ Done(k) = la - lu /\ d = la - lt
    BY <1>1, <1>3, <2>1, Zenon
  <2> HIDE DEF la, lt, lu, d
  <2> QED BY <2>2
<1>5. /\ \A i \in 1 .. Len(todo) : todo[i] = a[d + i]
      /\ call[c].n = Cardinality(Regs(q, d))
  BY <1>1, <1>2 DEF Told
<1> HIDE DEF q, a, d, todo
<1>6. \A i \in 1 .. Len(Tail(todo)) : Tail(todo)[i] = a[d + 1 + i]
  <2> SUFFICES ASSUME NEW i \in 1 .. Len(todo) - 1
               PROVE  Tail(todo)[i] = a[d + 1 + i]
    BY <1>3
  <2>1. i + 1 \in 1 .. Len(todo) /\ d + (i + 1) = d + 1 + i
    BY <1>1, <1>3
  <2> QED BY <1>3, <1>5, <2>1
<1>7. k.n = Cardinality(Regs(q, d + 1))
  BY <1>1, <1>5, RegsStep DEF a
<1>8. d + 1 \in Nat /\ k.req = q /\ k.todo = Tail(todo)
  BY <1>1 DEF q, todo
<1>9. /\ Done(k) \in Nat /\ k.n = Cardinality(Regs(k.req, Done(k)))
      /\ \A i \in 1 .. Len(k.todo) : k.todo[i] = Archive(k.req)[Done(k) + i]
  BY <1>4, <1>6, <1>7, <1>8, Zenon DEF a
<1>10. /\ k.pc \notin Early /\ k.pc \notin {"make", "create", "copy"}
       /\ k.pc \notin {"create", "copy"} /\ k.pc \notin {"make", "create"}
       /\ k.pc # "make" /\ k.pc # "ok" /\ k.pc \notin Early \ {"untar"}
  BY DEF Early
<1> QED BY <1>4, <1>9, <1>10, Zenon DEF Told, d

\* The files that are done are paths of the workspace.
LEMMA RegPlace ==
    ASSUME Inv, NEW c \in Callers, Told(call[c]), call[c].pc \in Writing,
           NEW i \in Regs(call[c].req, Done(call[c]))
    PROVE  Place(call[c].req, i) \in Nodes
<1>1. /\ call[c] \in Recs /\ CallInv(call[c], tree) /\ call[c].req \in Requests
      /\ call[c].pc # "idle"
  BY AtWork DEF Writing, Ended
<1>2. Writes(call[c].req) /\ call[c].todo \in Seq(EntriesOf(call[c].req))
  BY <1>1 DEF CallInv, PutInv
<1>3. /\ Len(call[c].todo) \in Nat /\ Len(Archive(call[c].req)) \in Nat
      /\ Done(call[c]) \in Nat
  BY <1>1, <1>2, ArchiveSeq DEF Told
<1>4. i \in 1 .. Done(call[c]) /\ Archive(call[c].req)[i].kind = "reg"
  BY DEF Regs
<1>5. i \in 1 .. Len(Archive(call[c].req))
  BY <1>3, <1>4 DEF Done
<1> QED BY <1>1, <1>2, <1>5, PlaceOK

\* MkdirAll only makes what is not there, so that the files that are done stay.
LEMMA FilesStay ==
    ASSUME Inv, NEW c \in Callers, Told(call[c]), call[c].pc \in {"next", "make"},
           Whole(call[c], tree), NEW t, t = tree \/ \E p : t = MkdirAll(p)
    PROVE  \A i \in Regs(call[c].req, Done(call[c])) :
              t[Place(call[c].req, i)] = File(call[c].req.ver)
<1> SUFFICES ASSUME NEW i \in Regs(call[c].req, Done(call[c]))
             PROVE  t[Place(call[c].req, i)] = File(call[c].req.ver)
  OBVIOUS
<1> DEFINE x == Place(call[c].req, i)
<1>1. x \in Nodes /\ Writes(call[c].req)
  <2>1. call[c].pc \in Writing /\ CallInv(call[c], tree)
    BY DEF Writing, Inv
  <2> QED BY <2>1, RegPlace DEF CallInv, PutInv
<1>2. tree[x] = File(call[c].req.ver)
  BY <1>1 DEF Whole, AtHand
<1>3. tree[x].kind = "file"
  BY <1>2 DEF File
<1> HIDE DEF x
<1>4. ASSUME NEW p, t = MkdirAll(p)
      PROVE  t[x] = tree[x]
  BY <1>1, <1>3, <1>4 DEF MkdirAll
<1> QED BY <1>2, <1>4 DEF x

\* MkdirAll makes what is above a path and nothing else.
LEMMA MkdirMakes ==
    ASSUME NEW p, Real(tree, p) = p, NEW x \in Nodes
    PROVE  MkdirAll(p)[x].kind # "none" <=> tree[x].kind # "none" \/ x \in Above(p)
  BY Kinds DEF MkdirAll

\* A path that is up and leads through no link.
LEMMA PlainUp ==
    ASSUME Inv, NEW c \in Callers, Told(call[c]), call[c].pc \in Writing,
           call[c].todo # <<>>, Plain(call[c].req)
    PROVE  /\ At(c) \in Nodes /\ ~OnLink(At(c))
           /\ Real(tree, At(c)) = At(c) /\ Resolve(At(c)) = At(c)
           /\ Front(At(c)) \in Nodes /\ Real(tree, Front(At(c))) = Front(At(c))
<1>1. At(c) = Place(call[c].req, Done(call[c]) + 1)
      /\ Done(call[c]) + 1 \in 1 .. Len(Archive(call[c].req))
  BY NextUp
<1>2. ~OnLink(At(c))
  BY <1>1 DEF Plain
<1> QED BY <1>2, TodoLeft, PlainPath

\* One entry is done that is no file: a directory, or nothing at all.
LEMMA SkipPuts ==
    ASSUME Inv, PutsInv, NEW c \in Callers, call[c].pc \in {"next", "make"},
           call[c].todo # <<>>, Set(c, Skip(c, "next")), alone' = alone,
           \/ Cur(c).kind \notin {"dir", "reg"} /\ tree' = tree
           \/ /\ Cur(c).kind = "dir" /\ call[c].pc = "make"
              /\ tree' = MkdirAll(call[c].path)
    PROVE  PutsInv'
<1> DEFINE k == Skip(c, "next")
           q == call[c].req
           d == Done(call[c])
<1>0. ~Ended(c) /\ call[c].pc \in Writing /\ call[c].pc # "idle"
  BY DEF Ended, Writing
<1>1. call[c] \in Recs /\ Told(call[c])
  BY <1>0, AtWork DEF PutsInv
<1>2. /\ k.pc = "next" /\ k.req = q /\ k.todo = Tail(call[c].todo) /\ k.n = call[c].n
  BY <1>1 DEF Recs, Skip
<1>3. /\ q \in Requests /\ Writes(q) /\ d \in Nat /\ Cur(c) = Archive(q)[d + 1]
      /\ At(c) = Place(q, d + 1)
  BY <1>0, <1>1, NextUp
<1>4. call' = [call EXCEPT ![c] = k]
  BY DEF Set
<1> HIDE DEF k
<1>5. Told(k) /\ Done(k) = d + 1
  BY <1>0, <1>1, <1>2, ToldNext
<1>6. Plain(q) => /\ Real(tree, At(c)) = At(c)
                  /\ call[c].pc = "make" => call[c].path = At(c)
  BY <1>0, <1>1, <1>3, PlainUp DEF Told
<1>7. ASSUME alone[c], Plain(q)
      PROVE  Whole(k, tree') /\ Cleared(k, tree')
  <2>1. Whole(call[c], tree) /\ Cleared(call[c], tree)
    BY <1>7 DEF PutsInv
  <2>2. \A i \in Regs(q, d) : tree'[Place(q, i)] = File(q.ver)
    BY <1>1, <2>1, FilesStay
  <2>3. Regs(q, d + 1) = Regs(q, d)
    BY <1>3, RegsStep
  <2>4. Whole(k, tree')
    BY <1>2, <1>5, <2>2, <2>3 DEF Whole
  <2>5. ASSUME q.op = "sync", q.clean, NEW x \in Below(Target(q.path))
        PROVE  tree'[x].kind # "none" <=> x \in Stands(k)
    <3>1. tree[x].kind # "none" <=> x \in Stands(call[c])
      BY <1>3, <2>1, <2>5 DEF Cleared
    <3>2. Stands(call[c]) = Made(q, d) /\ Stands(k) = Made(q, d + 1)
      BY <1>2, <1>5 DEF Stands
    <3>3. x \in Nodes
      BY DEF Below, Under
    <3>4. CASE Cur(c).kind \notin {"dir", "reg"} /\ tree' = tree
      <4>1. Made(q, d + 1) = Made(q, d)
        BY <1>3, <3>4, MadeStep
      <4> QED BY <3>1, <3>2, <3>4, <4>1
    <3>5. CASE Cur(c).kind = "dir" /\ tree' = MkdirAll(At(c)) /\ call[c].pc = "make"
      <4>1. Made(q, d + 1) = Made(q, d) \cup Above(At(c))
        BY <1>3, <3>5, MadeStep
      <4>2. tree'[x].kind # "none" <=> tree[x].kind # "none" \/ x \in Above(At(c))
        BY <1>6, <1>7, <3>3, <3>5, MkdirMakes
      <4> QED BY <3>1, <3>2, <4>1, <4>2
    <3> QED BY <1>6, <1>7, <3>4, <3>5
  <2> QED BY <1>2, <2>4, <2>5 DEF Cleared
<1> QED BY <1>0, <1>2, <1>3, <1>4, <1>5, <1>7, PutFrame

\* The directory of a file is made.
LEMMA ParentPuts ==
    ASSUME Inv, PutsInv, NEW c \in Callers, call[c].pc = "make", call[c].todo # <<>>,
           Cur(c).kind = "reg", tree' = MkdirAll(Front(call[c].path)),
           Goto(c, "create"), alone' = alone
    PROVE  PutsInv'
<1> DEFINE k == [call[c] EXCEPT !.pc = "create"]
           q == call[c].req
           d == Done(call[c])
<1>0. ~Ended(c) /\ call[c].pc \in Writing /\ call[c].pc # "idle"
  BY DEF Ended, Writing
<1>1. call[c] \in Recs /\ Told(call[c])
  BY <1>0, AtWork DEF PutsInv
<1>2. /\ k.pc = "create" /\ k.req = q /\ k.todo = call[c].todo /\ k.n = call[c].n
      /\ k.path = call[c].path
  BY <1>1 DEF Recs
<1>3. /\ q \in Requests /\ Writes(q) /\ d \in Nat /\ At(c) = Place(q, d + 1)
  BY <1>0, <1>1, NextUp
<1>4. call' = [call EXCEPT ![c] = k]
  BY DEF Goto, Set
<1> HIDE DEF k
<1>5. Plain(q) => /\ call[c].path = At(c)
                  /\ Real(tree, Front(At(c))) = Front(At(c))
  BY <1>0, <1>1, <1>3, PlainUp DEF Told
<1>6. Told(k) /\ Done(k) = d
  BY <1>0, <1>1, <1>2, <1>3, <1>5, ToldStays DEF Cur, Early
<1>7. ASSUME alone[c], Plain(q)
      PROVE  Whole(k, tree') /\ Cleared(k, tree')
  <2>1. Whole(call[c], tree) /\ Cleared(call[c], tree)
    BY <1>7 DEF PutsInv
  <2>2. \A i \in Regs(q, d) : tree'[Place(q, i)] = File(q.ver)
    BY <1>1, <2>1, FilesStay
  <2>3. Whole(k, tree')
    BY <1>2, <1>6, <2>2 DEF Whole
  <2>4. ASSUME q.op = "sync", q.clean, NEW x \in Below(Target(q.path))
        PROVE  tree'[x].kind # "none" <=> x \in Stands(k)
    <3>1. tree[x].kind # "none" <=> x \in Stands(call[c])
      BY <1>3, <2>1, <2>4 DEF Cleared
    <3>2. Stands(call[c]) = Made(q, d) /\ Stands(k) = Made(q, d) \cup Above(Front(At(c)))
      BY <1>2, <1>3, <1>6 DEF Stands
    <3>3. x \in Nodes
      BY DEF Below, Under
    <3>4. tree'[x].kind # "none" <=> tree[x].kind # "none" \/ x \in Above(Front(At(c)))
      BY <1>5, <1>7, <3>3, MkdirMakes
    <3> QED BY <3>1, <3>2, <3>4
  <2> QED BY <1>2, <2>3, <2>4 DEF Cleared
<1> QED BY <1>0, <1>2, <1>3, <1>4, <1>6, <1>7, PutFrame

\* An entry that is to be made is resolved.
LEMMA UpPuts ==
    ASSUME Inv, PutsInv, NEW c \in Callers, call[c].pc = "next", call[c].todo # <<>>,
           Cur(c).kind \in {"dir", "reg"}, UNCHANGED <<tree, alone>>,
           Set(c, [call[c] EXCEPT !.pc = "make", !.path = Resolve(At(c))])
    PROVE  PutsInv'
<1> DEFINE p == Resolve(At(c))
           k == [call[c] EXCEPT !.pc = "make", !.path = p]
           q == call[c].req
<1>0. ~Ended(c) /\ call[c].pc \in Writing /\ call[c].pc # "idle"
  BY DEF Ended, Writing
<1>1. call[c] \in Recs /\ Told(call[c])
  BY <1>0, AtWork DEF PutsInv
<1>2. Plain(q) => p = Place(q, Done(call[c]) + 1)
  BY <1>0, <1>1, NextUp, PlainUp
<1>3. call' = [call EXCEPT ![c] = k]
  BY DEF Set
<1> HIDE DEF p
<1>4. /\ k.pc = "make" /\ k.req = q /\ k.todo = call[c].todo /\ k.n = call[c].n
      /\ k.path = p
  BY <1>1 DEF Recs
<1> HIDE DEF k
<1>5. Told(k) /\ Done(k) = Done(call[c])
  BY <1>0, <1>1, <1>2, <1>4, ToldStays DEF Cur, Early
<1>6. ASSUME alone[c], Plain(q)
      PROVE  Whole(k, tree) /\ Cleared(k, tree)
  <2>1. Whole(call[c], tree) /\ Cleared(call[c], tree)
    BY <1>6 DEF PutsInv
  <2>2. Whole(k, tree)
    BY <1>0, <1>4, <1>5, <2>1 DEF Whole, AtHand
  <2>3. Stands(k) = Stands(call[c])
    BY <1>4, <1>5 DEF Stands
  <2> QED BY <1>4, <2>1, <2>2, <2>3 DEF Cleared
<1> QED BY <1>0, <1>3, <1>4, <1>5, <1>6, PutFrame

\* An entry is taken from the archive.
LEMMA NextEntryPuts ==
    ASSUME Inv, PutsInv, NEW c \in Callers, NextEntry(c)
    PROVE  PutsInv'
<1>0. call[c].pc = "next" /\ ~Ended(c) /\ UNCHANGED <<tree, alone>>
  BY DEF NextEntry, Ended
<1>1. CASE Goto(c, "failed")
  BY <1>0, <1>1, FailPuts DEF Fail
<1>2. CASE call[c].todo = <<>> /\ Goto(c, "ok")
  BY <1>0, <1>2, GotoPuts
<1>3. CASE /\ call[c].todo # <<>> /\ Cur(c).kind \in {"nameless", "link"}
           /\ Set(c, Skip(c, "next"))
  BY <1>0, <1>3, SkipPuts
<1>4. CASE /\ call[c].todo # <<>> /\ Cur(c).kind \in {"dir", "reg"}
           /\ Set(c, [call[c] EXCEPT !.pc = "make", !.path = Resolve(At(c))])
  BY <1>0, <1>4, UpPuts
<1> QED BY <1>0, <1>1, <1>2, <1>3, <1>4 DEF NextEntry

\* The directory of an entry is made.
LEMMA MakeEntryPuts ==
    ASSUME Inv, PutsInv, NEW c \in Callers, MakeEntry(c)
    PROVE  PutsInv'
<1>0. call[c].pc = "make" /\ ~Ended(c)
  BY DEF MakeEntry, Ended
<1>1. CASE Fail(c)
  BY <1>0, <1>1, FailPuts
<1>2. call[c].todo # <<>>
  <2>1. CallInv(call[c], tree)
    BY DEF Inv
  <2> QED BY <1>0, <2>1 DEF CallInv, PutInv
<1>3. CASE /\ Cur(c).kind = "dir" /\ tree' = MkdirAll(call[c].path)
           /\ Set(c, Skip(c, "next")) /\ UNCHANGED alone
  BY <1>0, <1>2, <1>3, SkipPuts
<1>4. CASE /\ Cur(c).kind = "reg" /\ tree' = MkdirAll(Front(call[c].path))
           /\ Goto(c, "create") /\ UNCHANGED alone
  BY <1>0, <1>2, <1>4, ParentPuts
<1> QED BY <1>1, <1>3, <1>4 DEF MakeEntry, Sys

\* A call that writes a file, and where it writes it.
LEMMA AtFile ==
    ASSUME Inv, PutsInv, NEW c \in Callers, call[c].pc \in {"create", "copy"}
    PROVE  /\ ~Ended(c) /\ call[c].pc \in Writing /\ call[c].pc # "idle"
           /\ call[c] \in Recs /\ Told(call[c]) /\ TreeInv(tree)
           /\ call[c].todo # <<>> /\ Cur(c).kind = "reg" /\ Head(call[c].todo).kind = "reg"
           /\ call[c].req \in Requests /\ Writes(call[c].req)
           /\ Done(call[c]) \in Nat
           /\ Cur(c) = Archive(call[c].req)[Done(call[c]) + 1]
           /\ At(c) = Place(call[c].req, Done(call[c]) + 1)
           /\ At(c) \in Nodes
<1>1. ~Ended(c) /\ call[c].pc \in Writing /\ call[c].pc # "idle"
  BY DEF Ended, Writing
<1>2. call[c] \in Recs /\ CallInv(call[c], tree) /\ Told(call[c]) /\ TreeInv(tree)
  BY <1>1, AtWork DEF PutsInv
<1>3. Writes(call[c].req) /\ call[c].todo # <<>>
  BY <1>1, <1>2 DEF CallInv, PutInv, Cur
<1>4. Head(call[c].todo).kind = "reg"
  BY <1>1, <1>2, <1>3 DEF Told
<1> QED BY <1>1, <1>2, <1>3, <1>4, NextUp, TodoLeft DEF Cur

\* A file is created.
LEMMA CreatePuts ==
    ASSUME Inv, PutsInv, NEW c \in Callers, Create(c)
    PROVE  PutsInv'
<1> DEFINE f == Real(tree, call[c].path)
           k == [call[c] EXCEPT !.pc = "copy", !.fd = f, !.at = 1]
           q == call[c].req
           d == Done(call[c])
<1>0. call[c].pc = "create"
  BY DEF Create
<1>a. /\ ~Ended(c) /\ call[c].pc # "idle" /\ call[c] \in Recs /\ Told(call[c])
      /\ TreeInv(tree) /\ call[c].todo # <<>> /\ Head(call[c].todo).kind = "reg"
      /\ Writes(q) /\ d \in Nat /\ Archive(q)[d + 1].kind = "reg"
      /\ f \in Nodes
  BY <1>0, AtFile, RealOK DEF Recs
<1>b. Plain(q) => f = Place(q, d + 1)
  BY <1>0, AtFile, PlainUp DEF Told
<1>1. CASE Fail(c)
  BY <1>a, <1>1, FailPuts
<1>2. CASE /\ CanOpen(f) /\ tree' = [tree EXCEPT ![f] = Blank]
           /\ call' = [call EXCEPT ![c] = k] /\ UNCHANGED alone
  <2>1. /\ k.pc = "copy" /\ k.req = q /\ k.todo = call[c].todo /\ k.n = call[c].n
        /\ k.fd = f /\ k.at = 1
    BY <1>a DEF Recs
  <2>2. \A x \in Nodes : tree'[x] = IF x = f THEN Blank ELSE tree[x]
    BY <1>2 DEF Inv, TreeInv
  <2> HIDE DEF k, f
  <2>3. Told(k) /\ Done(k) = d
    BY <1>a, <2>1, ToldStays DEF Early
  <2>4. f # <<>>
    <3> SUFFICES ASSUME f = <<>> PROVE FALSE
      OBVIOUS
    <3>1. IsPrefix(f, Root)
      <4>1. f \in Path /\ Root \in Path /\ Len(f) = 0 /\ Len(Root) \in Nat
        BY NodePath, FilesAssumption DEF Path
      <4> QED BY <4>1, PrefixDef
    <3> QED BY <1>a, <1>2, <3>1, AboveRoot, Kinds DEF CanOpen
  <2>5. ASSUME alone[c], Plain(q)
        PROVE  Whole(k, tree')
    <3>1. Whole(call[c], tree)
      BY <2>5 DEF PutsInv
    <3>2. ASSUME NEW i \in Regs(q, d)
          PROVE  tree'[Place(q, i)] = File(q.ver) \/ AtHand(k, i)
      <4>1. Place(q, i) \in Nodes
        BY <1>0, <1>a, RegPlace DEF Writing
      <4>2. tree[Place(q, i)] = File(q.ver)
        BY <1>0, <1>a, <3>1 DEF Whole, AtHand
      <4>3. CASE Place(q, i) = f
        BY <1>a, <1>b, <2>5, <2>1, <2>3, <4>3 DEF AtHand
      <4>4. CASE Place(q, i) # f
        BY <2>2, <4>1, <4>2, <4>4
      <4> QED BY <4>3, <4>4
    <3>3. k.fd = Place(q, d + 1) /\ tree'[k.fd].kind = "file"
      BY <1>a, <1>b, <2>1, <2>2, <2>5, Kinds
    <3>4. \A b \in 1 .. k.at - 1 : tree'[k.fd].data[b] = q.ver
      BY <2>1
    <3> QED BY <2>1, <2>3, <3>2, <3>3, <3>4 DEF Whole
  <2>6. ASSUME alone[c], Plain(q), q.op = "sync", q.clean, NEW x \in Below(Target(q.path))
        PROVE  tree'[x].kind # "none" <=> x \in Stands(k)
    <3>1. tree[x].kind # "none" <=> x \in Stands(call[c])
      <4>1. Cleared(call[c], tree)
        BY <2>6 DEF PutsInv
      <4> QED BY <1>0, <1>a, <2>6, <4>1 DEF Cleared
    <3>2. /\ Stands(call[c]) = Made(q, d) \cup Above(Front(f))
          /\ Stands(k) = Made(q, d) \cup Above(f)
      BY <1>0, <1>a, <1>b, <2>1, <2>3, <2>6 DEF Stands
    <3>3. x \in Nodes /\ x \in Path /\ f \in Path
      BY <1>a, NodePath DEF Below, Under
    <3>4. x \in Above(f) <=> x = f \/ x \in Above(Front(f))
      <4>1. Front(f) \in Path /\ IsPrefix(Front(f), f)
        BY <2>4, <3>3, Parent
      <4>2. x \in Above(f) /\ x # f => x \in Above(Front(f))
        BY <3>3, AboveParent DEF Above
      <4>3. x = f \/ x \in Above(Front(f)) => x \in Above(f)
        BY <3>3, <4>1, PrefixOrder DEF Above
      <4> QED BY <4>2, <4>3
    <3>5. tree'[x].kind # "none" <=> x = f \/ tree[x].kind # "none"
      BY <2>2, <3>3, Kinds
    <3> QED BY <3>1, <3>2, <3>4, <3>5
  <2>7. alone[c] /\ Plain(q) => Cleared(k, tree')
    BY <2>1, <2>6 DEF Cleared
  <2> QED BY <1>a, <1>2, <2>1, <2>3, <2>5, <2>7, PutFrame
<1> QED BY <1>1, <1>2 DEF Create, Sys, Set

\* A block is written.
LEMMA CopyBlockPuts ==
    ASSUME Inv, PutsInv, NEW c \in Callers, CopyBlock(c)
    PROVE  PutsInv'
<1> DEFINE f == call[c].fd
           b == call[c].at
           k == [call[c] EXCEPT !.at = @ + 1]
           q == call[c].req
           d == Done(call[c])
<1>0. call[c].pc = "copy" /\ b \in 1 .. 2
  BY DEF CopyBlock, Blocks
<1>a. /\ ~Ended(c) /\ call[c].pc # "idle" /\ call[c] \in Recs /\ Told(call[c])
      /\ TreeInv(tree) /\ call[c].todo # <<>> /\ Head(call[c].todo).kind = "reg"
      /\ q \in Requests /\ Writes(q) /\ d \in Nat
      /\ At(c) = Place(q, d + 1) /\ At(c) \in Nodes
  BY <1>0, AtFile
<1>1. CASE Fail(c)
  BY <1>a, <1>1, FailPuts
<1>2. CASE /\ tree' = IF f = Orphan THEN tree ELSE [tree EXCEPT ![f].data[b] = q.ver]
           /\ call' = [call EXCEPT ![c] = k] /\ UNCHANGED alone
  <2>1. /\ k.pc = "copy" /\ k.req = q /\ k.todo = call[c].todo /\ k.n = call[c].n
        /\ k.fd = f /\ k.at = b + 1
    BY <1>0, <1>a DEF Recs
  <2> HIDE DEF k
  <2>2. Told(k) /\ Done(k) = d
    BY <1>a, <2>1, ToldStays DEF Early
  <2>3. ASSUME alone[c], Plain(q)
        PROVE  Whole(k, tree') /\ Cleared(k, tree')
    <3>1. Whole(call[c], tree) /\ Cleared(call[c], tree)
      BY <2>3 DEF PutsInv
    <3>2. /\ f = At(c) /\ tree[f].kind = "file"
          /\ \A j \in 1 .. b - 1 : tree[f].data[j] = q.ver
      BY <1>0, <1>a, <3>1 DEF Whole
    <3>3. f # Orphan
      <4>1. Orphan \in Path /\ Len(Orphan) = 0 /\ Root \in Path
        BY NodePath, FilesAssumption DEF Orphan, Path
      <4>2. IsPrefix(Orphan, Root)
        BY <4>1, PrefixDef
      <4> QED BY <1>a, <3>2, <4>2, AboveRoot, Kinds
    <3>4. /\ f \in Nodes
          /\ \A x \in Nodes : x # f => tree'[x] = tree[x]
          /\ \A x \in Nodes : tree'[x].kind = tree[x].kind
          /\ tree'[f].kind = "file"
          /\ \A j \in 1 .. b : tree'[f].data[j] = q.ver
      <4>1. f \in Nodes /\ tree \in [Nodes -> Objects] /\ q.ver \in Data
        BY <1>a, <3>2 DEF TreeInv, Data
      <4>2. tree' = [tree EXCEPT ![f].data[b] = q.ver]
        BY <1>2, <3>3
      <4> HIDE DEF f, b, q
      <4>3. /\ \A x \in Nodes : x # f => tree'[x] = tree[x]
            /\ tree'[f].kind = tree[f].kind
            /\ tree'[f].data = [tree[f].data EXCEPT ![b] = q.ver]
        BY <4>1, <4>2 DEF Objects
      <4>4. tree[f].data \in [1 .. 2 -> Data]
        BY <4>1 DEF Objects, Blocks
      <4>5. \A j \in 1 .. b : tree'[f].data[j] = q.ver
        BY <1>0, <3>2, <4>3, <4>4
      <4> QED BY <3>2, <4>1, <4>3, <4>5
    <3>5. ASSUME NEW i \in Regs(q, d)
          PROVE  tree'[Place(q, i)] = File(q.ver) \/ AtHand(k, i)
      <4>1. Place(q, i) \in Nodes
        BY <1>0, <1>a, RegPlace DEF Writing
      <4>2. CASE Place(q, i) = f
        BY <1>a, <2>1, <2>2, <3>2, <4>2 DEF AtHand
      <4>3. CASE Place(q, i) # f
        <5>1. tree[Place(q, i)] = File(q.ver)
          BY <1>a, <3>1, <3>2, <4>3 DEF Whole, AtHand
        <5> QED BY <3>4, <4>1, <4>3, <5>1
      <4> QED BY <4>2, <4>3
    <3>6. \A j \in 1 .. k.at - 1 : tree'[k.fd].data[j] = q.ver
      BY <1>0, <2>1, <3>4
    <3>7. Whole(k, tree')
      BY <1>a, <2>1, <2>2, <3>2, <3>4, <3>5, <3>6 DEF Whole
    <3>8. Stands(k) = Stands(call[c])
      BY <1>0, <2>1, <2>2 DEF Stands
    <3>9. \A x \in Below(Target(q.path)) : tree'[x].kind = tree[x].kind
      BY <3>4 DEF Below, Under
    <3> QED BY <1>0, <1>a, <2>1, <3>1, <3>7, <3>8, <3>9 DEF Cleared
  <2> QED BY <1>a, <1>2, <2>1, <2>2, <2>3, PutFrame
<1> QED BY <1>1, <1>2 DEF CopyBlock, Sys, Set

\* A file is closed and counted.
LEMMA ClosePuts ==
    ASSUME Inv, PutsInv, NEW c \in Callers, Close(c)
    PROVE  PutsInv'
<1> DEFINE k == [Skip(c, "next") EXCEPT !.fd = Orphan, !.at = 0, !.n = @ + 1]
           q == call[c].req
           d == Done(call[c])
           f == Place(q, d + 1)
<1>0. call[c].pc = "copy" /\ call[c].at = 3
  <2>1. call[c].pc = "copy" /\ call[c].at \notin Blocks /\ CallInv(call[c], tree)
    BY DEF Close, Inv
  <2> QED BY <2>1 DEF CallInv, PutInv, Blocks
<1>1. /\ ~Ended(c) /\ call[c].pc # "idle" /\ call[c].pc \in Writing /\ call[c] \in Recs
      /\ Told(call[c]) /\ TreeInv(tree) /\ call[c].todo # <<>> /\ Cur(c).kind = "reg"
      /\ Writes(q) /\ d \in Nat /\ Archive(q)[d + 1].kind = "reg" /\ f \in Nodes
  BY <1>0, AtFile
<1>2. /\ k.pc = "next" /\ k.req = q /\ k.todo = Tail(call[c].todo)
      /\ k.n = call[c].n + 1
  BY <1>1 DEF Skip, Recs
<1>3. call' = [call EXCEPT ![c] = k] /\ alone' = alone /\ tree' = tree
  BY DEF Close, Set
<1> HIDE DEF k
<1>4. Told(k) /\ Done(k) = d + 1
  BY <1>1, <1>2, ToldNext
<1>5. ASSUME alone[c], Plain(q)
      PROVE  Whole(k, tree) /\ Cleared(k, tree)
  <2>1. Whole(call[c], tree) /\ Cleared(call[c], tree)
    BY <1>5 DEF PutsInv
  <2>2. tree[f] = File(q.ver)
    <3>1. /\ tree[f].kind = "file"
          /\ \A b \in 1 .. 2 : tree[f].data[b] = q.ver
      BY <1>0, <1>1, <2>1 DEF Whole
    <3>2. tree[f] \in [kind : {"none", "dir", "file", "link"}, data : [1 .. 2 -> Data]]
      BY <1>1 DEF TreeInv, Objects, Blocks
    <3> HIDE DEF f, q
    <3>3. tree[f].data = [b \in 1 .. 2 |-> q.ver]
      BY <3>1, <3>2
    <3> QED BY <3>1, <3>2, <3>3 DEF File, Blocks
  <2>3. Regs(q, d + 1) = Regs(q, d) \cup {d + 1}
    BY <1>1, RegsStep
  <2>4. \A i \in Regs(q, d) : tree[Place(q, i)] = File(q.ver)
    BY <1>1, <2>1, <2>2 DEF Whole, AtHand
  <2>5. Whole(k, tree)
    BY <1>2, <1>4, <2>2, <2>3, <2>4 DEF Whole
  <2>6. Stands(k) = Stands(call[c])
    <3>1. Made(q, d + 1) = Made(q, d) \cup Above(f)
      BY <1>1, MadeStep
    <3>2. Stands(call[c]) = Made(q, d) \cup Above(f) /\ Stands(k) = Made(q, d + 1)
      BY <1>0, <1>2, <1>4 DEF Stands
    <3> QED BY <3>1, <3>2
  <2> QED BY <1>0, <1>1, <1>2, <2>1, <2>5, <2>6 DEF Cleared
<1> QED BY <1>1, <1>2, <1>3, <1>4, <1>5, PutFrame

-----------------------------------------------------------------------------
(* The other steps                                                         *)

\* Read and List change nothing that is told of a call that writes.
LEMMA QueryPuts ==
    ASSUME Inv, PutsInv, NEW c \in Callers,
           Open(c) \/ ReadBlock(c) \/ Stat(c) \/ ReadDir(c) \/ Info(c)
    PROVE  PutsInv'
<1>1. call[c].pc \in {"open", "reading", "stat", "list", "info"} /\ ~Ended(c)
  BY DEF Open, ReadBlock, Stat, ReadDir, Info, Ended
<1>2. call[c] \in Recs /\ CallInv(call[c], tree)
  BY <1>1, AtWork
<1>3. ~Writes(call[c].req)
  BY <1>1, <1>2 DEF CallInv, ListInv, Writes
<1>4. PICK k : /\ call' = [call EXCEPT ![c] = k] /\ k.req = call[c].req
               /\ tree' = tree /\ alone' = alone
  <2>1. CASE Fail(c)
    BY <1>2, <2>1 DEF Fail, Goto, Set, Recs
  <2>2. CASE Open(c) /\ ~Fail(c)
    BY <1>2, <2>2 DEF Open, Sys, Set, Recs
  <2>3. CASE ReadBlock(c) /\ ~Fail(c)
    <3> DEFINE b == call[c].at
               x == IF call[c].fd = Orphan THEN Hole ELSE tree[call[c].fd].data[b]
               k == [call[c] EXCEPT !.pc = IF b = 2 THEN "ok" ELSE @,
                                    !.fd = IF b = 2 THEN Orphan ELSE @,
                                    !.at = IF b = 2 THEN 0 ELSE @ + 1,
                                    !.got = Append(@, x)]
    <3>1. call' = [call EXCEPT ![c] = k] /\ tree' = tree /\ alone' = alone
      BY <2>3 DEF ReadBlock, Sys, Set
    <3>2. k.req = call[c].req
      BY <1>2 DEF Recs
    <3> HIDE DEF k
    <3> QED BY <3>1, <3>2
  <2>4. CASE Stat(c) /\ ~Fail(c)
    BY <1>2, <2>4 DEF Stat, Sys, Goto, Set, Recs
  <2>5. CASE ReadDir(c) /\ ~Fail(c)
    BY <1>2, <2>5 DEF ReadDir, Sys, Set, Recs
  <2>6. CASE Info(c)
    BY <1>2, <2>6 DEF Info, Goto, Set, Recs
  <2> QED BY <2>1, <2>2, <2>3, <2>4, <2>5, <2>6
<1> QED BY <1>1, <1>3, <1>4, QueryStep

\* A call begins.
LEMMA BeginPuts ==
    ASSUME Inv, PutsInv, NEW c \in Callers, NEW q \in Requests, Begin(c, q)
    PROVE  PutsInv'
<1> DEFINE first == CASE q.op = "sync"  -> "mkdir"
                      [] q.op = "write" -> "next"
                      [] q.op = "read"  -> "open"
                      [] q.op = "list"  -> "stat"
           todo == IF Writes(q) THEN Archive(q) ELSE <<>>
           p == IF q.op = "write" THEN Root ELSE Resolve(Target(q.path))
           to == IF Escapes(p) \/ NoPath(q) THEN "failed" ELSE first
           k == [Idle EXCEPT !.pc = to, !.req = q, !.path = p, !.todo = todo]
<1>1. call' = [call EXCEPT ![c] = k] /\ tree' = tree
  BY DEF Begin, Set
<1>2. Writes(q) => to \in {"mkdir", "next", "failed"} /\ (to = "mkdir" => q.op = "sync")
                 /\ (q.op = "sync" => to # "next")
  BY DEF Writes
<1>a. q.op = "sync" /\ Plain(q) => p = Target(q.path)
  BY Named, PlainPath DEF Plain
<1> HIDE DEF todo, to, p
<1>3. k.pc = to /\ k.req = q /\ k.todo = todo /\ k.n = 0 /\ k.path = p
  BY DEF Idle
<1>4. /\ call'[c] = k
      /\ \A y \in Callers : y # c => call'[y] = call[y]
  BY <1>1 DEF Inv
<1> HIDE DEF k
<1>5. Writes(q) => /\ Done(k) = 0 /\ k.todo = Archive(q)
                   /\ Regs(q, 0) = {} /\ k.n = Cardinality(Regs(q, 0))
  <2>1. Regs(q, 0) = {} /\ Cardinality({}) = 0
    BY FS_EmptySet DEF Regs
  <2>2. Writes(q) => Len(Archive(q)) \in Nat /\ k.todo = Archive(q)
    BY <1>3, ArchiveSeq DEF todo
  <2>3. Done(k) = Len(Archive(q)) - Len(k.todo)
    BY <1>3 DEF Done
  <2>4. Writes(q) => Done(k) = 0
    BY <2>2, <2>3
  <2> QED BY <1>3, <2>1, <2>2, <2>4
<1>6. Told(k)
  BY <1>2, <1>3, <1>a, <1>5 DEF Told, Early, Writes
<1>7. Whole(k, tree) /\ Cleared(k, tree)
  <2>1. Whole(k, tree)
    BY <1>2, <1>3, <1>5 DEF Whole
  <2>2. Cleared(k, tree)
    BY <1>2, <1>3 DEF Cleared
  <2> QED BY <2>1, <2>2
<1>8. \A y \in Callers : y # c => (alone'[y] => alone[y])
  BY DEF Begin
<1>9. ASSUME NEW y \in Callers
      PROVE  /\ Told(call'[y])
             /\ alone'[y] /\ Plain(call'[y].req) =>
                   Whole(call'[y], tree') /\ Cleared(call'[y], tree')
  <2>1. CASE y = c
    BY <1>1, <1>4, <1>6, <1>7, <2>1
  <2>2. CASE y # c
    BY <1>1, <1>4, <1>8, <2>2 DEF PutsInv
  <2> QED BY <2>1, <2>2
<1> QED BY <1>9 DEF PutsInv

\* Every step keeps what is told of the calls that write.
LEMMA NextPuts == Inv /\ PutsInv /\ [Next]_vars => PutsInv'
<1>1. ASSUME PutsInv, UNCHANGED vars
      PROVE  PutsInv'
  BY <1>1 DEF vars, PutsInv
<1>2. ASSUME Inv, PutsInv, NEW c \in Callers, Work(c)
      PROVE  PutsInv'
  BY <1>2, MakeDestPuts, ReadDestPuts, ClearDestPuts, RemoveAllPuts, UntarPuts,
     NextEntryPuts, MakeEntryPuts, CreatePuts, CopyBlockPuts, ClosePuts, QueryPuts DEF Work
<1> QED BY <1>1, <1>2, BeginPuts DEF Next

\* The invariant of the calls that write: what was done of the archive, what
\* stands of it in the workspace, and what else does.
THEOREM PutsInvHolds == Spec => []PutsInv
<1>1. Init => PutsInv
  <2>1. Idle.pc = "idle"
    BY DEF Idle
  <2> QED BY <2>1 DEF Init, PutsInv, Told, Whole, Cleared
<1> QED BY <1>1, NextPuts, InvHolds, PTL DEF Spec

\* The reply of FileWrite and SyncFolder is true of the workspace, for any
\* archive and any fault, as long as no other call writes and no path of the
\* call leads through a link: the files it counts are those at the head of the archive and are whole, but for one that was
\* being written again when the call failed; after a success they are all of
\* them, and a clean left exactly what the archive names under dest.
THEOREM PutResultHolds == Spec => []PutResult
<1>1. ASSUME Inv, PutsInv, NEW c \in Callers, alone[c], call[c].pc \in {"ok", "failed"},
             Writes(call[c].req), Plain(call[c].req)
      PROVE  LET q == call[c].req
                 end == Len(Archive(q))
                 ok == call[c].pc = "ok"
             IN  /\ \E m \in 0 .. end :
                      /\ call[c].n = Cardinality(Regs(q, m))
                      /\ ok => m = end
                      /\ \A i \in Regs(q, m) :
                           \/ tree[Place(q, i)] = File(q.ver)
                           \/ ~ok /\ m + 1 \in Regs(q, end)
                              /\ Place(q, m + 1) = Place(q, i)
                 /\ ok /\ q.op = "sync" /\ q.clean =>
                      \A x \in Below(Target(q.path)) :
                          tree[x].kind # "none" <=> x \in Made(q, end)
  <2> DEFINE q == call[c].req
             d == Done(call[c])
             todo == call[c].todo
             end == Len(Archive(q))
  <2>1. /\ Told(call[c]) /\ Whole(call[c], tree) /\ Cleared(call[c], tree)
        /\ call[c] \in Recs /\ CallInv(call[c], tree)
    BY <1>1 DEF PutsInv, Inv
  <2>2. q \in Requests
    BY <1>1, <2>1 DEF CallInv
  <2>3. end \in Nat /\ Len(todo) \in Nat
    BY <1>1, <2>1, <2>2, ArchiveSeq DEF Recs
  <2>4. /\ d \in Nat /\ d = end - Len(todo)
        /\ call[c].n = Cardinality(Regs(q, d))
        /\ \A i \in 1 .. Len(todo) : todo[i] = Archive(q)[d + i]
        /\ call[c].pc = "ok" => todo = <<>>
    BY <1>1, <2>1 DEF Told, Done
  <2>5. d \in 0 .. end /\ (call[c].pc = "ok" => d = end)
    <3>1. todo = <<>> => Len(todo) = 0
      OBVIOUS
    <3> HIDE DEF d, end, todo
    <3> QED BY <2>3, <2>4, <3>1
  <2>6. ASSUME NEW i \in Regs(q, d), tree[Place(q, i)] # File(q.ver)
        PROVE  call[c].pc # "ok" /\ d + 1 \in Regs(q, end) /\ Place(q, d + 1) = Place(q, i)
    <3>1. AtHand(call[c], i)
      BY <1>1, <2>1, <2>6 DEF Whole
    <3>2. /\ call[c].pc # "ok" /\ todo # <<>> /\ Head(todo).kind = "reg"
          /\ Place(q, d + 1) = Place(q, i)
      BY <1>1, <3>1 DEF AtHand
    <3>3. Len(todo) >= 1 /\ Head(todo) = todo[1]
      BY <2>1, <2>3, <3>2, EmptySeq DEF Recs
    <3>4. d + 1 \in 1 .. end /\ Archive(q)[d + 1].kind = "reg"
      <4> HIDE DEF d, end, todo, q
      <4>1. 1 \in 1 .. Len(todo) /\ d + 1 \in 1 .. end
        BY <2>3, <2>4, <3>3
      <4> QED BY <2>4, <3>2, <3>3, <4>1
    <3> QED BY <3>2, <3>4 DEF Regs
  <2>7. ASSUME call[c].pc = "ok", q.op = "sync", q.clean, NEW x \in Below(Target(q.path))
        PROVE  tree[x].kind # "none" <=> x \in Made(q, end)
    <3>1. Stands(call[c]) = Made(q, end)
      BY <2>5, <2>7 DEF Stands
    <3> QED BY <1>1, <2>1, <2>7, <3>1 DEF Cleared
  <2> HIDE DEF q, d, end
  <2>8. \A i \in Regs(q, d) :
           \/ tree[Place(q, i)] = File(q.ver)
           \/ ~(call[c].pc = "ok") /\ d + 1 \in Regs(q, end)
              /\ Place(q, d + 1) = Place(q, i)
    BY <2>6
  <2> QED BY <2>4, <2>5, <2>7, <2>8, Zenon DEF q, end
<1>2. Inv /\ PutsInv => PutResult
  BY <1>1, Zenon DEF PutResult
<1> QED BY <1>2, InvHolds, PutsInvHolds, PTL
=============================================================================
