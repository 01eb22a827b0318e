---------------------------- MODULE MCRegistry ----------------------------
(***************************************************************************)
(* Registry for TLC: every read of one job that writes, tidy or loose, and *)
(* the lists of two jobs that write nothing.                               *)
(***************************************************************************)
EXTENDS Registry

Reads == IF loose = {} THEN {"none", "watch", "output"} ELSE {"none", "watch"}

OneWrites ==
    /\ jpc["j2"] = "none"
    /\ loose \subseteq {"j1"}
    /\ started["j1"] \in {0, 1}
    /\ verdict["j1"] # "killed"
    /\ \A c \in Callers : call[c].op \in Reads

TwoAreListed ==
    /\ loose = {}
    /\ \A j \in Jobs : All(j) = {}
    /\ verdict["j2"] = "done"
    /\ \A c \in Callers : call[c].op \in {"none", "list"} /\ call[c].job # "j2"

Small == OneWrites \/ TwoAreListed
=============================================================================
