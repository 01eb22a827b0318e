------------------------------- MODULE MCExec -------------------------------
(***************************************************************************)
(* Exec for TLC: two workers, and requests with and without variables.     *)
(***************************************************************************)
EXTENDS Exec

Env(worker, request) ==
    [v \in Vars |-> IF v \in worker THEN "worker"
                    ELSE IF v \in request THEN "request" ELSE Unset]

\* A sandbox whose environ holds a token, and a windows host.
BothPlatforms == {
    [os |-> "unix", bundle |-> TRUE,
     environ |-> Env({"PATH", "TOKEN"}, {}), request |-> Env({}, {"X"}),
     exports |-> {"X"}],
    [os |-> "windows", bundle |-> FALSE,
     environ |-> Env(Vars \ {"X"}, {}), request |-> Env({}, {"PATH"}),
     exports |-> {}]}

ByteCodes == [os \in {"unix", "windows"} |->
                IF os = "unix" THEN {0, 1} ELSE {0, 256}]
=============================================================================
