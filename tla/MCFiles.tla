------------------------------ MODULE MCFiles ------------------------------
(***************************************************************************)
(* Files for TLC: a workspace with a file, a directory and room for two    *)
(* more names, a directory beside it, and links to both and to nothing.    *)
(***************************************************************************)
EXTENDS Files

CallerSymmetry == Permutations(Callers)

Workspace == <<"w">>
D == <<"w", "d">>
DF == <<"w", "d", "f">>
G == <<"w", "g">>
Outside == <<"o">>

\* A link to the directory beside the workspace, one to a directory of the
\* workspace, and one that leads to nothing.
LinkTo == <<"w", "l">> :> Outside @@ <<"w", "k">> :> D @@ <<"w", "m">> :> <<"o", "n">>

AllNodes == {<<>>, Workspace, D, DF, <<"w", "d", "e">>, G, Outside, <<"o", "f">>,
             <<"o", "n">>, <<"o", "n", "e">>, <<"w", "m">>}
            \cup {<<"w", "l">> \o x : x \in {<<>>, <<"f">>, <<"n">>, <<"n", "e">>}}
            \cup {<<"w", "k">> \o x : x \in {<<>>, <<"f">>, <<"e">>}}

Initial == [p \in AllNodes |->
              CASE p \in {<<>>, Workspace, D, Outside} -> Dir
                [] p \in {DF, <<"o", "f">>}            -> File("old")
                [] p \in DOMAIN LinkTo                 -> [None EXCEPT !.kind = "link"]
                [] OTHER                               -> None]

Rel(at) == [abs |-> FALSE, at |-> at]
Reg(at) == [kind |-> "reg", name |-> at]
Sync(at, clean, entries, gzip, end, ver) ==
    [op |-> "sync", path |-> Rel(at), clean |-> clean, entries |-> entries,
     gzip |-> gzip, end |-> end, ver |-> ver]
Write(at) == [op |-> "write", path |-> Rel(at), end |-> "eof", ver |-> "c"]

\* A checkout of the root; one of the directory, which names its file twice and
\* is cut; one with a link and a directory; one whose second entry leaves the
\* workspace, and a link that does; bytes that are no archive; checkouts through
\* the links; and the file calls.
Asked == {
    Sync(<<>>, TRUE, <<Reg(<<"d", "e">>), Reg(<<"g">>)>>, TRUE, "eof", "a"),
    Sync(<<"d">>, FALSE, <<Reg(<<"f">>), Reg(<<"f">>)>>, TRUE, "short", "b"),
    Sync(<<"d">>, TRUE, <<[kind |-> "link", name |-> <<"f">>],
                          [kind |-> "dir", name |-> <<"f">>],
                          [kind |-> "nameless", name |-> <<>>]>>,
         TRUE, "broken", "b"),
    Sync(<<".">>, FALSE, <<Reg(<<"g">>), Reg(<<"..", "o", "f">>)>>,
         TRUE, "eof", "b"),
    Sync(<<>>, FALSE, <<[kind |-> "link", name |-> <<"..", "o">>]>>, TRUE, "eof", "b"),
    Sync(<<>>, TRUE, <<>>, FALSE, "eof", "b"),
    Sync(<<"k">>, TRUE, <<Reg(<<"e">>)>>, TRUE, "eof", "b"),
    Sync(<<"l", "n">>, TRUE, <<Reg(<<"e">>)>>, TRUE, "eof", "b"),
    Write(<<"d", "f">>), Write(<<"l", "f">>), Write(<<"l", "n">>), Write(<<"m">>),
    [op |-> "read", path |-> [abs |-> TRUE, at |-> DF]],
    [op |-> "read", path |-> Rel(<<"k", "f">>)],
    [op |-> "read", path |-> Rel(<<>>)],
    [op |-> "read", path |-> Rel(<<"..", "o", "f">>)],
    [op |-> "list", path |-> Rel(<<>>)],
    [op |-> "list", path |-> Rel(<<"g">>)],
    [op |-> "list", path |-> Rel(<<"l", "n">>)]}
=============================================================================
