------------------------------ MODULE History ------------------------------
(***************************************************************************)
(* What the store promises to its readers (QueryJob, QueryJobs and         *)
(* QueryLines): the history of a job grows while the job runs, is frozen   *)
(* by its terminal record, and is forgotten as a whole.  Commands that a   *)
(* job leaves behind may add strays to it at any time, also after it was   *)
(* forgotten, as long as the worker lives.  A worker that dies turns the   *)
(* jobs it was running into orphans.                                       *)
(***************************************************************************)
CONSTANTS Jobs, Lines

VARIABLES
    status,     \* status of each job
    log,        \* lines on record for each job, written up to its end
    strays      \* lines on record that were written after it

Outcomes == {"done", "killed", "failed"}

\* "absent": never recorded; "orphaned": marked failed, exit code 137, by
\* the recovery at boot; "forgotten": deleted by retention.
Statuses == {"absent", "running", "orphaned", "forgotten"} \cup Outcomes

Init ==
    /\ status = [j \in Jobs |-> "absent"]
    /\ log = [j \in Jobs |-> {}]
    /\ strays = [j \in Jobs |-> {}]

Register(j) ==
    /\ status[j] = "absent"
    /\ status' = [status EXCEPT ![j] = "running"]
    /\ UNCHANGED <<log, strays>>

\* A batch of lines is committed, of jobs that have not ended but for strays.
Commit ==
    /\ log' \in [Jobs -> SUBSET Lines]
    /\ strays' \in [Jobs -> SUBSET Lines]
    /\ \A j \in Jobs :
          /\ log[j] \subseteq log'[j]
          /\ log'[j] # log[j] => status[j] \in {"absent", "running"}
          /\ strays[j] \subseteq strays'[j]
          /\ strays'[j] # strays[j] => status[j] # "orphaned"
    /\ UNCHANGED status

Finish(j, outcome) ==
    /\ status[j] = "running"
    /\ status' = [status EXCEPT ![j] = outcome]
    /\ UNCHANGED <<log, strays>>

Recover ==
    /\ status' = [j \in Jobs |->
                    IF status[j] = "running" THEN "orphaned" ELSE status[j]]
    /\ UNCHANGED <<log, strays>>

\* Retention: ended jobs go with their lines, and so do the lines of a job
\* that was never recorded, and strays of one that went before.
Forget(S) ==
    /\ \A j \in S : status[j] \in Outcomes \cup {"orphaned"}
    /\ status' = [j \in Jobs |-> IF j \in S THEN "forgotten" ELSE status[j]]
    /\ log' = [j \in Jobs |->
                 IF j \in S \/ status[j] = "absent" THEN {} ELSE log[j]]
    /\ strays' = [j \in Jobs |->
                    IF j \in S \/ status[j] \in {"absent", "forgotten"}
                    THEN {} ELSE strays[j]]

Next ==
    \/ \E j \in Jobs : Register(j)
    \/ Commit
    \/ \E j \in Jobs, outcome \in Outcomes : Finish(j, outcome)
    \/ Recover
    \/ \E S \in SUBSET Jobs : Forget(S)

Spec == Init /\ [][Next]_<<status, log, strays>>
=============================================================================
