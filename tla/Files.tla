-------------------------------- MODULE Files --------------------------------
(***************************************************************************)
(* The file service (internal/filesvc) and its handlers FileRead,          *)
(* FileWrite, FileList and SyncFolder, called concurrently: no lock is     *)
(* taken anywhere, so every call of the os package is a step of its own,   *)
(* and any of them may fail.                                               *)
(*                                                                         *)
(* A path is a sequence of components, absolute from "/"; the workspace is *)
(* Root.  A file is Blocks blocks, each labelled with the contents it      *)
(* belongs to, Hole where nothing was written.  An open file that is       *)
(* removed stays writable and is nobody's (Orphan).  The workspace may     *)
(* hold symbolic links: the service follows them and removes them, and     *)
(* never makes one.  Only the service changes the tree.  Names compare     *)
(* exactly, as on unix.                                                    *)
(***************************************************************************)
EXTENDS Integers, Sequences, SequencesExt, FiniteSets

CONSTANTS
    Callers,   \* handlers at work
    Nodes,     \* absolute paths of the file system
    Root,      \* Service.root
    Requests,  \* what the callers ask
    Before,    \* what the file system holds at first
    Leads,     \* where a symbolic link leads
    Faults     \* calls of the os package may fail

Blocks == 1 .. 2
Hole == "hole"
None == [kind |-> "none", data |-> [b \in Blocks |-> Hole]]
Dir == [None EXCEPT !.kind = "dir"]
Blank == [None EXCEPT !.kind = "file"]
File(v) == [kind |-> "file", data |-> [b \in Blocks |-> v]]
Orphan == <<>>

\* A path that leads through a symbolic link, the link, and where it ends.
Links == {p \in Nodes : Before[p].kind = "link"}
OnLink(p) == \E l \in Links : IsPrefix(l, p)
LinkOn(p) == CHOOSE l \in Links : IsPrefix(l, p)
Followed(p) == Leads[LinkOn(p)] \o SubSeq(p, Len(LinkOn(p)) + 1, Len(p))

\* A link leads out of the reach of every link, so that one hop ends the way.
ASSUME FilesAssumption ==
    /\ \A p \in Nodes : p \in Seq(STRING) /\ (p # <<>> => Front(p) \in Nodes)
    /\ Root \in Nodes
    /\ Leads \in [Links -> Nodes]
    /\ \A l, m \in Links : ~IsPrefix(m, Leads[l]) /\ ~IsPrefix(Leads[l], m)
    /\ \A p \in Nodes : OnLink(p) => Followed(p) \in Nodes
    /\ Faults \in BOOLEAN

VARIABLES
    tree,   \* the file system
    call,   \* each handler: control and locals
    alone   \* observation: no other call has written since this one began
vars == <<tree, call, alone>>

Idle == [pc |-> "idle", req |-> [op |-> "none"], path |-> Root, todo |-> <<>>,
         dirents |-> {}, top |-> Root, fd |-> Orphan, at |-> 0, n |-> 0, out |-> {},
         keep |-> {}, ents |-> {}, skipped |-> {}, got |-> <<>>]

-----------------------------------------------------------------------------
(* resolve                                                                 *)

Step(p, x) == CASE x = "." -> p
                [] x = ".." -> IF p = <<>> THEN p ELSE Front(p)
                [] OTHER -> Append(p, x)

\* filepath.Clean of an absolute path, and Join of one relative to the root.
Clean(p) == FoldLeft(Step, <<>>, p)
Target(path) == Clean(IF path.abs THEN path.at ELSE Root \o path.at)

\* The object a path means to the kernel, by way of a link that is still there.
Live(t, p) == OnLink(p) /\ t[LinkOn(p)].kind = "link"
Real(t, p) == IF Live(t, p) THEN Followed(p) ELSE p

\* Mutant of Resolve: no EvalSymlinks.
Unresolved(p) == p

\* EvalSymlinks, which fails when the target does not exist: then the path is
\* used as it is.
Resolve(p) == IF tree[Real(tree, p)].kind # "none" THEN Real(tree, p) ELSE p

\* pathEqual or hasRootPrefix.
Escapes(p) == ~IsPrefix(Root, p)

\* SyncFolder: an entry's name, without a leading slash, under dest.
Entry(dest, e) == [dest EXCEPT !.at = @ \o e.name]

-----------------------------------------------------------------------------
(* The os package                                                          *)

Under(p) == {x \in Nodes : IsPrefix(p, x)}
Above(p) == {x \in Nodes : IsPrefix(x, p)}

\* What a directory holds, by name, as a path leads to it.
There(t, p, n) == LET x == Append(Real(t, p), n)
                  IN  x \in Nodes /\ t[x].kind # "none"
Names(p) == {Last(x) : x \in {y \in Nodes : y # <<>> /\ Front(y) = Real(tree, p)
                                            /\ tree[y].kind # "none"}}

\* MkdirAll, in one step; it does not make what a dangling link leads to.
CanMkdirAll(p) ==
    /\ \A x \in Above(Real(tree, p)) : tree[x].kind \in {"none", "dir"}
    /\ Live(tree, p) => tree[Leads[LinkOn(p)]].kind = "dir"
MkdirAll(p) == [x \in Nodes |->
                  IF x \in Above(Real(tree, p)) /\ tree[x].kind = "none"
                  THEN Dir ELSE tree[x]]

\* OpenFile with O_CREATE|O_TRUNC: an existing file keeps its identity.
CanOpen(x) == tree[Front(x)].kind = "dir" /\ tree[x].kind \in {"none", "file"}

Set(c, rec) == call' = [call EXCEPT ![c] = rec]
Goto(c, to) == Set(c, [call[c] EXCEPT !.pc = to])
Fail(c) == Goto(c, "failed") /\ UNCHANGED <<tree, alone>>

\* A call of the os package: it works or, with Faults or without Can, fails.
Sys(c, can, effect) == \/ can /\ effect /\ UNCHANGED alone
                       \/ (Faults \/ ~can) /\ Fail(c)

-----------------------------------------------------------------------------
(* The handlers up to their first call                                     *)

Writes(q) == q.op \in {"sync", "write"}
Ended(c) == call[c].pc \in {"idle", "ok", "failed"}

NoPath(q) == q.op \in {"read", "write"} /\ q.path = [abs |-> FALSE, at |-> <<>>]

\* What a call is to put in the workspace, in order.  FileWrite has one entry,
\* its own path.
Archive(q) == IF q.op = "write" THEN <<[kind |-> "reg", name |-> <<>>]>>
                                ELSE q.entries

\* SyncFolder, Read and List resolve their path first, Write when it comes to
\* its entry.
Begin(c, q) ==
    /\ call[c].pc = "idle"
    /\ LET first == CASE q.op = "sync"  -> "mkdir"
                      [] q.op = "write" -> "next"
                      [] q.op = "read"  -> "open"
                      [] q.op = "list"  -> "stat"
           p == IF q.op = "write" THEN Root ELSE Resolve(Target(q.path))
           todo == IF Writes(q) THEN Archive(q) ELSE <<>>
       IN  Set(c, [Idle EXCEPT !.pc = IF Escapes(p) \/ NoPath(q)
                                      THEN "failed" ELSE first,
                               !.req = q, !.path = p, !.todo = todo])
    /\ alone' = [x \in Callers |->
                    IF x = c THEN \A y \in Callers \ {c} :
                                     Ended(y) \/ ~Writes(call[y].req)
                    ELSE alone[x] /\ ~Writes(q)]
    /\ UNCHANGED tree

-----------------------------------------------------------------------------
(* SyncFolder and Write                                                    *)

MakeDest(c) ==
    /\ call[c].pc = "mkdir"
    /\ Sys(c, CanMkdirAll(call[c].path),
           /\ tree' = MkdirAll(call[c].path)
           /\ Goto(c, IF call[c].req.clean THEN "readdir" ELSE "untar"))

\* clearDirContents: a list of the entries, and RemoveAll of one after another.
ReadDest(c) ==
    LET dest == call[c].path
    IN  /\ call[c].pc = "readdir"
        /\ Sys(c, tree[Real(tree, dest)].kind = "dir",
               /\ Set(c, [call[c] EXCEPT !.pc = "clear", !.dirents = Names(dest)])
               /\ UNCHANGED tree)

\* Mutant of ClearDest: what is there is overwritten, not removed.
SkipClear(c) ==
    /\ call[c].pc = "clear"
    /\ Goto(c, "untar")
    /\ UNCHANGED <<tree, alone>>

\* RemoveAll of an entry that has gone does nothing.
ClearDest(c) ==
    /\ call[c].pc = "clear"
    /\ \/ \E n \in call[c].dirents :
            Set(c, [call[c] EXCEPT
                      !.dirents = @ \ {n},
                      !.pc = IF There(tree, call[c].path, n) THEN "remove" ELSE @,
                      !.top = IF There(tree, call[c].path, n)
                              THEN Append(Real(tree, call[c].path), n) ELSE @])
       \/ /\ call[c].dirents = {}
          /\ Goto(c, "untar")
    /\ UNCHANGED <<tree, alone>>

\* What is removed is open no more to another call, and a list that is running
\* may miss it.
Unlink(x) ==
    LET t == [tree EXCEPT ![x] = None]
    IN  /\ tree' = t
        /\ call' = [y \in Callers |->
                      [call[y] EXCEPT
                        !.fd = IF @ = x THEN Orphan ELSE @,
                        !.keep = {n \in @ : There(t, call[y].path, n)}]]

\* RemoveAll: what is below goes first, one after another, and no link is
\* followed.  A failure leaves the rest.
RemoveAll(c) ==
    /\ call[c].pc = "remove"
    /\ \/ \E x \in Under(call[c].top) :
            /\ tree[x].kind # "none"
            /\ \A y \in Under(x) \ {x} : tree[y].kind = "none"
            /\ Sys(c, TRUE, Unlink(x))
       \/ /\ tree[call[c].top].kind = "none"
          /\ Goto(c, "clear")
          /\ UNCHANGED <<tree, alone>>

\* tarReader: a gzip header that does not parse, found after the clearing.
Untar(c) ==
    /\ call[c].pc = "untar"
    /\ IF call[c].req.gzip THEN Goto(c, "next") ELSE Goto(c, "failed")
    /\ UNCHANGED <<tree, alone>>

Cur(c) == Head(call[c].todo)
At(c) == Target(Entry(call[c].req.path, Cur(c)))
Skip(c, to) == [call[c] EXCEPT !.pc = to, !.todo = Tail(@)]

\* r.Next: the end of the archive, an error, or an entry: a nameless one is
\* skipped, one that escapes ends the call, whatever it is, and a link is
\* skipped.
NextEntry(c) ==
    /\ call[c].pc = "next"
    /\ \/ /\ call[c].todo = <<>>
          /\ Goto(c, IF Writes(call[c].req) /\ call[c].req.end = "broken"
                     THEN "failed" ELSE "ok")
       \/ /\ call[c].todo # <<>>
          /\ Cur(c).kind = "nameless"
          /\ Set(c, Skip(c, "next"))
       \/ /\ call[c].todo # <<>>
          /\ Cur(c).kind # "nameless"
          /\ Escapes(Resolve(At(c)))
          /\ Goto(c, "failed")
       \/ /\ call[c].todo # <<>>
          /\ Cur(c).kind = "link"
          /\ ~Escapes(Resolve(At(c)))
          /\ Set(c, Skip(c, "next"))
       \/ /\ call[c].todo # <<>>
          /\ Cur(c).kind \in {"dir", "reg"}
          /\ ~Escapes(Resolve(At(c)))
          /\ Set(c, [call[c] EXCEPT !.pc = "make", !.path = Resolve(At(c))])
    /\ UNCHANGED <<tree, alone>>

\* A directory is made, and so is the parent of a file.
MakeEntry(c) ==
    /\ call[c].pc = "make"
    /\ \/ /\ Cur(c).kind = "dir"
          /\ Sys(c, CanMkdirAll(call[c].path),
                 /\ tree' = MkdirAll(call[c].path)
                 /\ Set(c, Skip(c, "next")))
       \/ /\ Cur(c).kind = "reg"
          /\ Sys(c, CanMkdirAll(Front(call[c].path)),
                 /\ tree' = MkdirAll(Front(call[c].path))
                 /\ Goto(c, "create"))

Create(c) ==
    LET x == Real(tree, call[c].path)
    IN  /\ call[c].pc = "create"
        /\ Sys(c, CanOpen(x),
               /\ tree' = [tree EXCEPT ![x] = Blank]
               /\ Set(c, [call[c] EXCEPT !.pc = "copy", !.fd = x, !.at = 1]))

\* io.Copy, or the write of WriteFile; a truncated archive ends inside its last
\* file.
CopyBlock(c) ==
    LET f == call[c].fd
        b == call[c].at
    IN  /\ call[c].pc = "copy"
        /\ b \in Blocks
        /\ Sys(c, ~(call[c].req.end = "short" /\ Len(call[c].todo) = 1 /\ b = 2),
               /\ tree' = IF f = Orphan THEN tree
                          ELSE [tree EXCEPT ![f].data[b] = call[c].req.ver]
               /\ Set(c, [call[c] EXCEPT !.at = @ + 1]))

\* An error of f.Close is not looked at, and not modelled.
Close(c) ==
    /\ call[c].pc = "copy"
    /\ call[c].at \notin Blocks
    /\ Set(c, [Skip(c, "next") EXCEPT !.fd = Orphan, !.at = 0, !.n = @ + 1])
    /\ UNCHANGED <<tree, alone>>

-----------------------------------------------------------------------------
(* Read and List                                                           *)

Open(c) ==
    LET x == Real(tree, call[c].path)
    IN  /\ call[c].pc = "open"
        /\ Sys(c, tree[x].kind = "file",
               /\ Set(c, [call[c] EXCEPT !.pc = "reading", !.fd = x, !.at = 1])
               /\ UNCHANGED tree)

\* What is read of a file that was removed meanwhile is not followed.
ReadBlock(c) ==
    LET f == call[c].fd
        b == call[c].at
        x == IF f = Orphan THEN Hole ELSE tree[f].data[b]
        last == b = 2
    IN  /\ call[c].pc = "reading"
        /\ Sys(c, TRUE,
               /\ Set(c, [call[c] EXCEPT !.pc = IF last THEN "ok" ELSE @,
                                         !.fd = IF last THEN Orphan ELSE @,
                                         !.at = IF last THEN 0 ELSE @ + 1,
                                         !.got = Append(@, x)])
               /\ UNCHANGED tree)

\* Stat: a file lists itself.
Stat(c) ==
    LET p == call[c].path
        kind == tree[Real(tree, p)].kind
    IN  /\ call[c].pc = "stat"
        /\ \/ /\ kind = "dir"
              /\ Sys(c, TRUE, Goto(c, "list") /\ UNCHANGED tree)
           \/ /\ kind # "dir"
              /\ Sys(c, kind # "none",
                     /\ Set(c, [call[c] EXCEPT !.pc = "ok", !.out = {Last(p)},
                                               !.ents = {Last(p)}])
                     /\ UNCHANGED tree)

ReadDir(c) ==
    LET p == call[c].path
    IN  /\ call[c].pc = "list"
        /\ Sys(c, tree[Real(tree, p)].kind = "dir",
               /\ Set(c, [call[c] EXCEPT !.pc = "info", !.dirents = Names(p),
                                         !.ents = Names(p), !.keep = Names(p)])
               /\ UNCHANGED tree)

\* Mutant of Info: an entry that has gone ends the list.
BreakOnError(c) ==
    /\ call[c].pc = "info"
    /\ \/ /\ call[c].dirents = {}
          /\ Goto(c, "ok")
       \/ \E n \in call[c].dirents :
            Set(c, IF There(tree, call[c].path, n)
                   THEN [call[c] EXCEPT !.dirents = @ \ {n}, !.out = @ \cup {n}]
                   ELSE [call[c] EXCEPT !.pc = "ok"])
    /\ UNCHANGED <<tree, alone>>

\* d.Info of one entry after another: one that has gone, or whose Info fails, is
\* left out.
Info(c) ==
    /\ call[c].pc = "info"
    /\ \/ /\ call[c].dirents = {}
          /\ Goto(c, "ok")
       \/ \E n \in call[c].dirents :
            \/ /\ ~There(tree, call[c].path, n)
               /\ Set(c, [call[c] EXCEPT !.dirents = @ \ {n}])
            \/ /\ There(tree, call[c].path, n)
               /\ Set(c, [call[c] EXCEPT !.dirents = @ \ {n}, !.out = @ \cup {n}])
            \/ /\ There(tree, call[c].path, n) /\ Faults
               /\ Set(c, [call[c] EXCEPT !.dirents = @ \ {n},
                                         !.skipped = @ \cup {n}])
    /\ UNCHANGED <<tree, alone>>

-----------------------------------------------------------------------------
Init ==
    /\ tree = Before
    /\ call = [c \in Callers |-> Idle]
    /\ alone = [c \in Callers |-> TRUE]

Work(c) ==
    \/ MakeDest(c) \/ ReadDest(c) \/ ClearDest(c) \/ RemoveAll(c) \/ Untar(c)
    \/ NextEntry(c) \/ MakeEntry(c) \/ Create(c) \/ CopyBlock(c) \/ Close(c)
    \/ Open(c) \/ ReadBlock(c) \/ Stat(c) \/ ReadDir(c) \/ Info(c)

Next == \E c \in Callers : Work(c) \/ \E q \in Requests : Begin(c, q)

Spec == Init /\ [][Next]_vars

-----------------------------------------------------------------------------
Data == {Hole} \cup {Before[p].data[b] : p \in Nodes, b \in Blocks}
               \cup {q.ver : q \in {r \in Requests : Writes(r)}}
Objects == [kind : {"none", "dir", "file", "link"}, data : [Blocks -> Data]]

\* What is there is in a directory.
WellFormed(t) ==
    \A p \in Nodes : p # <<>> /\ t[p].kind # "none" => t[Front(p)].kind = "dir"

\* The workspace is a directory of a file system that has the paths the
\* requests name in it.
ASSUME WorkspaceAssumption ==
    /\ Before \in [Nodes -> Objects]
    /\ WellFormed(Before)
    /\ \A x \in Above(Root) : Before[x] = Dir
    /\ \A q \in Requests :
          /\ q.op \in {"sync", "write", "read", "list"}
          /\ q.path \in [abs : BOOLEAN, at : Seq(STRING)]
          /\ Target(q.path) \in Nodes
          /\ q.op = "sync" =>
                /\ q.entries \in Seq(ToSet(q.entries))
                /\ \A e \in ToSet(q.entries) : Target(Entry(q.path, e)) \in Nodes

\* Where the i-th entry of a request goes; the regular files among its first m
\* entries; what stands under dest when those are done.
Place(q, i) == Target(Entry(q.path, Archive(q)[i]))
Regs(q, m) == {i \in 1 .. m : Archive(q)[i].kind = "reg"}
Made(q, m) == {x \in Nodes :
                \E i \in 1 .. m : /\ Archive(q)[i].kind \in {"dir", "reg"}
                                 /\ IsPrefix(x, Place(q, i))}
Below(p) == Under(p) \ {p}

\* A request none of whose paths leads through a link.
Plain(q) == /\ ~OnLink(Target(q.path))
            /\ \A i \in 1 .. Len(Archive(q)) : ~OnLink(Place(q, i))

\* What the reply of FileWrite and SyncFolder says of the workspace, as long as
\* no other call writes and no path of the call leads through a link.  The count
\* is of the files among the entries at the head of the archive, all of it after
\* a success, and these files are whole: after a failure, at whatever step, all
\* but the one it was writing, which an archive may name twice.  After a success
\* a clean left nothing else under dest.
PutResult ==
    \A c \in Callers :
        LET q == call[c].req
            end == Len(Archive(q))
            ok == call[c].pc = "ok"
        IN  alone[c] /\ call[c].pc \in {"ok", "failed"} /\ Writes(q) /\ Plain(q) =>
              /\ \E m \in 0 .. end :
                   /\ call[c].n = Cardinality(Regs(q, m))
                   /\ ok => m = end
                   /\ \A i \in Regs(q, m) :
                        \/ tree[Place(q, i)] = File(q.ver)
                        \/ ~ok /\ m + 1 \in Regs(q, end) /\ Place(q, m + 1) = Place(q, i)
              /\ ok /\ q.op = "sync" /\ q.clean =>
                   \A x \in Below(Target(q.path)) :
                       tree[x].kind # "none" <=> x \in Made(q, end)

\* What FileRead and FileList return: a file nobody writes is read whole, also
\* through a link, and a list holds every entry that was there from ReadDir on,
\* but for those whose Info failed, and none that was not, whatever is removed
\* meanwhile.
QuerySound ==
    \A c \in Callers : call[c].pc = "ok" =>
        /\ call[c].req.op = "read" /\ alone[c] =>
              call[c].got = tree[Real(tree, Target(call[c].req.path))].data
        /\ call[c].keep \subseteq call[c].out \cup call[c].skipped
        /\ call[c].out \subseteq call[c].ents \ call[c].skipped

\* Where there was nothing and a link leads.
Leak(p) == Before[p].kind = "none" /\ \E l \in Links : IsPrefix(Leads[l], p)

\* What is outside the workspace is never changed, whatever a path or an archive
\* names and whatever links it goes through (resolve, on every entry).  New
\* things appear outside only where a link leads, since the path of a target
\* that does not exist is not resolved.
Contained == \A p \in Nodes \ Under(Root) : tree[p] = Before[p] \/ Leak(p)
=============================================================================
