------------------------------- MODULE MCJob -------------------------------
(***************************************************************************)
(* Job for TLC: writers and watchers by name.                              *)
(***************************************************************************)
EXTENDS Job

\* One writer per stream, as for a simple command.
SimpleStreams == [w \in Writers |-> IF w = "out" THEN "stdout" ELSE "stderr"]

\* Bound of both runs that pass: a job that leaves a command behind is not
\* killed.
Spared == behind # {} => ~cancelled

\* Bound of the liveness run: two watchers of a job that leaves no command
\* behind, or one watcher of a job that does.  The watchers are alike, so the
\* first to subscribe is w1.
Small ==
    /\ wpc["w2"] # "idle" => wpc["w1"] # "idle" /\ behind = {}
    /\ Spared
=============================================================================
