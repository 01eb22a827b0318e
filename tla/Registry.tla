------------------------------ MODULE Registry ------------------------------
(***************************************************************************)
(* The job registry (jobsvc/manager.go) over the store: the map of jobs in *)
(* memory, the sweep that prunes it, and the calls that read a job's lines *)
(* and state from the rings, the queue's far side and the tables together: *)
(* JobOutput, the store path of WatchJob, and ListJobs.                    *)
(*                                                                         *)
(* The store is module Store, whose variables are declared here under its  *)
(* names; its clients are the jobs of this module.  A job is tidy when one *)
(* writer at a time feeds each stream and its script waits for all of      *)
(* them.  It is loose when its script leaves commands behind, whose lines  *)
(* go on after the job's end, or has several writers to a stream (stderr   *)
(* of a pipeline), whose lines reach the store in any order.  A line is    *)
(* its sequence number.  A ring holds the last MemLines lines of its       *)
(* stream, so it is not a variable of its own.                             *)
(***************************************************************************)
EXTENDS Integers, Sequences, FiniteSets, FiniteSetsExt

CONSTANTS
    Jobs, MaxSeq, ChannelCap, BatchLen,   \* of Store
    MemLines,   \* lines kept per LineBuffer
    ReplayCap,  \* replayCap
    Limit,      \* limit of List
    Times,      \* bound: the clock readings that are told apart
    Callers     \* RPC calls in progress

ASSUME RegistryAssumption ==
    /\ MaxSeq \in Nat
    /\ {ChannelCap, BatchLen, MemLines, ReplayCap, Limit} \subseteq Nat \ {0}
    /\ Times \subseteq Nat

VARIABLES
    ch, batch, wpc, fin, row, lines, up, closing, phase, offered, late,
    accepted, spoilt, logged

VARIABLES
    loose,    \* the jobs that are not tidy
    mem,      \* Manager.jobs
    started,  \* Job.StartedAt
    made,     \* completed lines of each job and stream
    jpc,      \* control of Execute and of the goroutine it starts
    verdict,  \* the local variable state of that goroutine
    state,    \* Job.State
    stamp,    \* Job.FinishedAt: 0, within the last hour, or older
    sweep,    \* retentionLoop is between Retention and Prune
    call      \* the call each caller has in progress

S == INSTANCE Store

storeVars == <<ch, batch, wpc, fin, row, lines, up, closing, phase, offered,
               late, accepted, spoilt, logged>>
jobVars == <<loose, mem, started, made, jpc, verdict, state, stamp>>
vars == <<storeVars, jobVars, sweep, call>>

Streams == {"stdout", "stderr"}
Outcomes == S!Outcomes

(***************************************************************************)
(* A call: its operation, its job, the streams it reads, its control; what *)
(* it has read (lines, highest persisted line, jobs with a row, the row of *)
(* its job); the answer's done flag or listed state; and, as observations, *)
(* whether its query failed, and the lines of the job and its state in     *)
(* memory when it began.                                                   *)
(***************************************************************************)
NoCall == [op |-> "none", job |-> "none", sel |-> {}, pc |-> "idle",
           got |-> {}, top |-> 0, rows |-> {}, seen |-> "none", ended |-> FALSE,
           err |-> FALSE, want |-> {}, was |-> FALSE]

Init ==
    /\ S!Init
    /\ loose \in SUBSET Jobs
    /\ mem = {}
    /\ started = [j \in Jobs |-> 0]
    /\ made = [j \in Jobs |-> [s \in Streams |-> {}]]
    /\ jpc = [j \in Jobs |-> "none"]
    /\ verdict = [j \in Jobs |-> "done"]
    /\ state = [j \in Jobs |-> "running"]
    /\ stamp = [j \in Jobs |-> "unset"]
    /\ sweep = FALSE
    /\ call = [c \in Callers |-> NoCall]

-----------------------------------------------------------------------------
(* Execute and its goroutine                                               *)

All(j) == UNION {made[j][s] : s \in Streams}

\* Every writer has returned from onLine; of a loose job nobody knows.
Handed(j) == j \in loose \/ All(j) \subseteq offered[j]

\* The job enters the map.  Two jobs may start in one millisecond, and the
\* clock may be set back ...
Execute(j) ==
    /\ up
    /\ jpc[j] = "none"
    /\ mem' = mem \cup {j}
    /\ \E t \in Times : started' = [started EXCEPT ![j] = t]
    /\ jpc' = [jpc EXCEPT ![j] = "insert"]
    /\ UNCHANGED <<storeVars, loose, made, verdict, state, stamp, sweep, call>>

\* ... its row the table, if the insert succeeds, and the goroutine starts.
EnqueueJob(j) ==
    /\ jpc[j] = "insert"
    /\ S!EnqueueJob(j)
    /\ jpc' = [jpc EXCEPT ![j] = "run"]
    /\ UNCHANGED <<loose, mem, started, made, verdict, state, stamp, sweep, call>>

CompleteLine(j, s) ==
    /\ Cardinality(All(j)) < MaxSeq
    /\ made' = [made EXCEPT ![j][s] = @ \cup {Cardinality(All(j)) + 1}]
    /\ UNCHANGED <<storeVars, loose, mem, started, verdict, state, stamp, sweep, call>>

\* A line of the command, or a trailing partial line; a command left behind
\* goes on to the end of the worker.
WriteLine(j, s) ==
    /\ up
    /\ \/ jpc[j] = "run"
       \/ j \in loose /\ jpc[j] \in {"exit", "error", "stated", "stamped", "over"}
    /\ CompleteLine(j, s)
    /\ UNCHANGED jpc

\* onLine offers the completed lines one by one, outside the lock: in order
\* when one writer does so.
TryEnqueueLine(j, s) ==
    /\ \E n \in made[j][s] \ offered[j] :
          /\ j \in loose \/ n = Min(made[j][s] \ offered[j])
          /\ S!TryEnqueueLine(j, n)
    /\ UNCHANGED <<jobVars, sweep, call>>

\* RunWithEnv has returned and both buffers are flushed: the switch.
Classify(j) ==
    /\ up
    /\ jpc[j] = "run"
    /\ Handed(j)
    /\ \E v \in Outcomes : verdict' = [verdict EXCEPT ![j] = v]
    /\ jpc' = [jpc EXCEPT ![j] = "exit"]
    /\ UNCHANGED <<storeVars, loose, mem, started, made, state, stamp, sweep, call>>

\* An error of the runner becomes a line of stderr.
ErrorLine(j) ==
    /\ up
    /\ jpc[j] = "exit"
    /\ verdict[j] = "failed"
    /\ CompleteLine(j, "stderr")
    /\ jpc' = [jpc EXCEPT ![j] = "error"]

\* Mutants of SetState: the state is never assigned; or before the error
\* line has been written.
SetStateForgotten(j) ==
    /\ up
    /\ jpc[j] \in {"exit", "error"}
    /\ Handed(j)
    /\ jpc' = [jpc EXCEPT ![j] = "stated"]
    /\ UNCHANGED <<storeVars, loose, mem, started, made, verdict, state, stamp, sweep, call>>
SetStateEarly(j) ==
    /\ up
    /\ jpc[j] \in {"exit", "error"}
    /\ state' = [state EXCEPT ![j] = verdict[j]]
    /\ jpc' = [jpc EXCEPT ![j] = IF @ = "exit" /\ verdict[j] = "failed"
                                    /\ state[j] = "running"
                                 THEN "exit" ELSE "stated"]
    /\ Handed(j)
    /\ UNCHANGED <<storeVars, loose, mem, started, made, verdict, stamp, sweep, call>>

SetState(j) ==
    /\ up
    /\ jpc[j] \in {"exit", "error"}
    /\ Handed(j)
    /\ state' = [state EXCEPT ![j] = verdict[j]]
    /\ jpc' = [jpc EXCEPT ![j] = "stated"]
    /\ UNCHANGED <<storeVars, loose, mem, started, made, verdict, stamp, sweep, call>>

SetFinishedAt(j) ==
    /\ up
    /\ jpc[j] = "stated"
    /\ stamp' = [stamp EXCEPT ![j] = "recent"]
    /\ jpc' = [jpc EXCEPT ![j] = "stamped"]
    /\ UNCHANGED <<storeVars, loose, mem, started, made, verdict, state, sweep, call>>

FinishJob(j) ==
    /\ jpc[j] = "stamped"
    /\ S!FinishJob(j, verdict[j])
    /\ jpc' = [jpc EXCEPT ![j] = "over"]
    /\ UNCHANGED <<loose, mem, started, made, verdict, state, stamp, sweep, call>>

-----------------------------------------------------------------------------
(* retentionLoop, and time                                                 *)

\* An hour after its end nothing of a job is on its way to the tables any
\* more but what commands left behind write, and a call that was in progress
\* has returned.
HourPasses(j) ==
    /\ up
    /\ stamp[j] = "recent"
    /\ jpc[j] = "over"
    /\ \A i \in 1 .. Len(ch) : ch[i].job = j => ch[i].seq \in late[j]
    /\ \A i \in 1 .. Len(batch) : batch[i].job = j => batch[i].seq \in late[j]
    /\ \A i \in 1 .. Len(fin) : fin[i].job # j
    /\ \A c \in Callers : call[c].pc = "idle"
    /\ stamp' = [stamp EXCEPT ![j] = "old"]
    /\ UNCHANGED <<storeVars, loose, mem, started, made, jpc, verdict, state, sweep, call>>

\* Rows past the window of 24 hours left memory at an earlier sweep.  Prune
\* follows whether or not the transaction succeeds.
Retention(D) ==
    /\ ~sweep
    /\ \A j \in D : j \notin mem /\ (stamp[j] = "old" \/ phase[j] = "dead")
    /\ S!Retention(D) \/ (up /\ UNCHANGED storeVars)
    /\ sweep' = TRUE
    /\ UNCHANGED <<jobVars, call>>

\* FinishedAt is 0 until it is assigned, which is before any cutoff.
Prune ==
    /\ up
    /\ sweep
    /\ mem' = {j \in mem : state[j] = "running" \/ stamp[j] = "recent"}
    /\ sweep' = FALSE
    /\ UNCHANGED <<storeVars, loose, started, made, jpc, verdict, state, stamp, call>>

-----------------------------------------------------------------------------
(* Reading: JobOutput, WatchJob of a job that is not in memory, ListJobs   *)

\* The last n lines of a set of lines.
Last(T, n) == {x \in T : Cardinality({y \in T : y > x}) < n}

Recs(j, s) == Last(made[j][s], MemLines)

\* Of a set of jobs the newest n, and all if there are no more; which of two
\* of one age is left to chance.
Newest(T, n) ==
    {U \in SUBSET T :
        /\ U = T \/ Cardinality(U) = n
        /\ Cardinality(U) <= n
        /\ \A i \in U, k \in T \ U : started[k] <= started[i]}

Step(c, update) ==
    /\ up
    /\ call' = [call EXCEPT ![c] = update]
    /\ UNCHANGED <<storeVars, jobVars, sweep>>

Begin(c, j, new) ==
    /\ call[c].pc = "idle"
    /\ jpc[j] # "none"
    /\ Step(c, new)

\* JobOutput, of one stream or of both.
JobOutput(c, j, sel) ==
    Begin(c, j, [NoCall EXCEPT !.op = "output", !.job = j, !.pc = "query",
                               !.sel = sel, !.want = All(j)])

\* WatchJob finds the job in the store only: Get, then QueryJob.
WatchJob(c, j) ==
    /\ j \notin mem
    /\ row[j] # "none"
    /\ Begin(c, j, [NoCall EXCEPT !.op = "watch", !.job = j, !.pc = "query",
                                  !.sel = Streams, !.seen = row[j]])

\* List queries the store for the newest rows first, in vain if that fails;
\* job j is the one that is looked for in the answer.
List(c, j) ==
    \E T \in Newest({i \in Jobs : row[i] # "none"}, Limit) \cup {{}} :
        Begin(c, j, [NoCall EXCEPT !.op = "list", !.job = j, !.pc = "merge",
                                   !.rows = T,
                                   !.seen = IF j \in T THEN row[j] ELSE "none",
                                   !.was = j \in mem])

Persisted(j, sel) == {n \in lines[j] : \E s \in sel : n \in made[j][s]}

\* Mutant of QueryLines: the highest number is taken over both streams.
QueryLinesAnyTop(c) ==
    LET k == call[c]
    IN  /\ k.pc = "query"
        /\ Step(c, [k EXCEPT !.pc = "get",
                             !.got = Persisted(k.job, k.sel),
                             !.top = Max(lines[k.job] \cup {0})])

\* readMerged: the persisted lines, and the highest of them ...
QueryLines(c) ==
    LET k == call[c]
        rows == Persisted(k.job, k.sel)
    IN  /\ k.pc = "query"
        /\ Step(c, [k EXCEPT !.pc = "get", !.got = rows,
                             !.top = Max(rows \cup {0})])

\* An error of the query fails JobOutput, and is an empty replay to WatchJob.
QueryFails(c) ==
    /\ call[c].pc = "query"
    /\ Step(c, IF call[c].op = "output" THEN NoCall
               ELSE [call[c] EXCEPT !.pc = "flag", !.err = TRUE])

\* ... then the job, if it is in memory ...
Get(c) ==
    /\ call[c].pc = "get"
    /\ Step(c, [call[c] EXCEPT !.pc = IF call[c].job \in mem
                                      THEN "stdout" ELSE "flag"])

\* ... and from each ring that is asked for the lines above the highest.
ReadRing(c, s, next) ==
    LET k == call[c]
        suffix == {n \in Recs(k.job, s) : n > k.top}
    IN  /\ k.pc = s
        /\ Step(c, [k EXCEPT !.pc = next,
                             !.got = IF s \in k.sel THEN @ \cup suffix ELSE @])

ReadStdout(c) == ReadRing(c, "stdout", "stderr")
ReadStderr(c) == ReadRing(c, "stderr", "flag")

\* OutputLines looks at the state last.
DoneFlag(c) ==
    LET k == call[c]
        now == IF k.job \in mem THEN state[k.job] ELSE row[k.job]
    IN  /\ k.pc = "flag"
        /\ k.op = "output"
        /\ Step(c, [k EXCEPT !.pc = "answered",
                             !.ended = now \notin {"running", "none"}])

\* Mutant of ReplayTail: the first lines instead of the last.
ReplayHead(c) ==
    LET k == call[c]
    IN  /\ k.pc = "flag"
        /\ k.op = "watch"
        /\ Step(c, [k EXCEPT !.pc = "answered", !.ended = TRUE,
                             !.got = k.got \ Last(k.got, Cardinality(k.got) - ReplayCap)])

\* ReplayTail cuts the replay; after it WatchJob sends Done.
ReplayTail(c) ==
    LET k == call[c]
    IN  /\ k.pc = "flag"
        /\ k.op = "watch"
        /\ Step(c, [k EXCEPT !.pc = "answered", !.ended = TRUE,
                             !.got = Last(@, ReplayCap)])

\* Mutant of Merge: the rows of the store only.
MergeStoreOnly(c) ==
    /\ call[c].pc = "merge"
    /\ Step(c, [call[c] EXCEPT !.pc = "answered"])

\* ... and adds the jobs of the map that have no row there, as they are in
\* memory; then it sorts and cuts again.
Merge(c) ==
    LET k == call[c]
        known == IF k.job \in k.rows THEN k.seen ELSE state[k.job]
    IN  /\ k.pc = "merge"
        /\ \E T \in Newest(k.rows \cup mem, Limit) :
              Step(c, [k EXCEPT !.pc = "answered", !.rows = T,
                                !.seen = IF k.job \in T THEN known ELSE "none"])

Return(c) ==
    /\ call[c].pc = "answered"
    /\ Step(c, NoCall)

-----------------------------------------------------------------------------
\* The worker dies: jobs and calls are gone, the tables stay.
Crash ==
    /\ S!Crash
    /\ mem' = {}
    /\ jpc' = [j \in Jobs |-> IF jpc[j] = "none" THEN "none" ELSE "gone"]
    /\ sweep' = FALSE
    /\ call' = [c \in Callers |-> NoCall]
    /\ verdict' = [j \in Jobs |-> "done"]
    /\ state' = [j \in Jobs |-> "running"]
    /\ stamp' = [j \in Jobs |-> "unset"]
    /\ UNCHANGED <<loose, started, made>>

OpenStore == S!OpenStore /\ UNCHANGED <<jobVars, sweep, call>>

Writer ==
    /\ \/ S!TakeLine \/ S!TakeFinish \/ S!Tick
       \/ S!FlushBatch \/ S!FlushBeforeFinish \/ S!UpdateRow
    /\ UNCHANGED <<jobVars, sweep, call>>

Goroutine(j) ==
    \/ Execute(j) \/ EnqueueJob(j)
    \/ \E s \in Streams : WriteLine(j, s) \/ TryEnqueueLine(j, s)
    \/ Classify(j) \/ ErrorLine(j) \/ SetState(j)
    \/ SetFinishedAt(j) \/ FinishJob(j)

Call(c) ==
    \/ \E j \in Jobs :
          \/ \E sel \in (SUBSET Streams) \ {{}} : JobOutput(c, j, sel)
          \/ WatchJob(c, j)
          \/ List(c, j)
    \/ QueryLines(c) \/ QueryFails(c) \/ Get(c)
    \/ ReadStdout(c) \/ ReadStderr(c) \/ DoneFlag(c) \/ ReplayTail(c)
    \/ Merge(c) \/ Return(c)

Next ==
    \/ \E j \in Jobs : Goroutine(j) \/ HourPasses(j)
    \/ Writer
    \/ \E D \in SUBSET Jobs : Retention(D)
    \/ Prune
    \/ \E c \in Callers : Call(c)
    \/ Crash
    \/ OpenStore

Spec == Init /\ [][Next]_vars

-----------------------------------------------------------------------------
Calls == [op : {"none", "output", "watch", "list"}, job : Jobs \cup {"none"},
          sel : SUBSET Streams, got : SUBSET (1 .. MaxSeq), top : 0 .. MaxSeq,
          pc : {"idle", "query", "get", "stdout", "stderr", "flag", "merge",
                "answered"},
          rows : SUBSET Jobs,
          seen : Outcomes \cup {"none", "running", "orphaned"},
          ended : BOOLEAN, err : BOOLEAN, want : SUBSET (1 .. MaxSeq),
          was : BOOLEAN]

TypeOK ==
    /\ S!TypeOK
    /\ loose \subseteq Jobs
    /\ mem \subseteq Jobs
    /\ started \in [Jobs -> Nat]
    /\ made \in [Jobs -> [Streams -> SUBSET (1 .. MaxSeq)]]
    /\ jpc \in [Jobs -> {"none", "insert", "run", "exit", "error", "stated",
                         "stamped", "over", "gone"}]
    /\ verdict \in [Jobs -> Outcomes]
    /\ state \in [Jobs -> Outcomes \cup {"running"}]
    /\ stamp \in [Jobs -> {"unset", "recent", "old"}]
    /\ \A j \in Jobs : stamp[j] # "unset" => state[j] \in Outcomes
    /\ sweep \in BOOLEAN
    /\ call \in [Callers -> Calls]

-----------------------------------------------------------------------------
(* What the readers of a job may rely on                                   *)

Dropped(j) == offered[j] \ accepted[j]

\* Prune took the job before its hour was over.
PrunedEarly(j) == j \notin mem /\ stamp[j] # "old" /\ phase[j] # "dead"

\* A read of one stream of a tidy job has no gap (readMerged, manager.go): a
\* line that was completed before the call is in the answer if it is still in
\* the ring, or if the job has left memory for the tables, unless the queue
\* dropped it or its transaction failed.  The lines move from ring to queue to
\* table while the call reads table and ring one after the other.  Of a loose
\* job a line may hide below a later one that was persisted first.
StreamHistory ==
    \A c \in Callers :
        LET k == call[c]
            j == k.job
        IN  k.op = "output" /\ k.pc \in {"flag", "answered"} /\ j \notin loose =>
              \A s \in Streams : k.sel = {s} =>
                \A n \in k.want \cap made[j][s] :
                    \/ n \in k.got
                    \/ n \in Dropped(j) \cup spoilt[j]
                    \/ j \in mem /\ n \notin Recs(j, s)
                    \/ PrunedEarly(j)
                    \/ phase[j] = "dead"
                    \/ row[j] = "none"

\* A WatchJob served from the store whose row has an outcome replays, before
\* it sends Done, every line that the store accepted before the finish record
\* and that is not older than ReplayCap lines of the table, unless the line's
\* transaction or the query failed or retention deletes the job under the call:
\* the row is read before the lines, and the writer updates it after them
\* (service.go, store.go).
StoreReplayComplete ==
    \A c \in Callers :
        LET k == call[c]
            j == k.job
            newer(n) == {m \in lines[j] : m > n}
        IN  k.op = "watch" /\ k.pc = "answered" /\ k.seen \in Outcomes =>
              \/ \A n \in accepted[j] \ late[j] :
                    \/ n \in k.got \cup spoilt[j]
                    \/ Cardinality(newer(n)) >= ReplayCap
              \/ k.err
              \/ row[j] = "none"

\* Once a JobOutput has said done, a tidy job completes no further line, the
\* line with the runner's error included: one more read gets everything
\* (Execute assigns State after its last line).  What commands left behind
\* write comes later still, and no call waits for it.
DoneIsLast ==
    [][\A c \in Callers :
         /\ call[c].op = "output" /\ call[c].pc = "answered" /\ call[c].ended
         /\ call[c].job \notin loose
         => made'[call[c].job] = made[call[c].job]]_vars

\* What Prune's comment says, "drops finished jobs from MEMORY older than
\* maxAge": no younger job leaves the map while the worker runs.
PruneKeepsRecent == [][\A j \in mem \ mem' : stamp[j] = "old" \/ ~up']_vars

\* A job that is in the map during a whole ListJobs is listed, whether it has a
\* row yet or not, the query of the store cut it off or failed, unless the
\* answer is full of jobs that are no older; and the outcome it is listed with
\* is its own (List).  It may be listed as running when it is not, as its row
\* lags behind or has lost its finish record.
ListSound ==
    \A c \in Callers :
        LET k == call[c]
        IN  k.op = "list" /\ k.pc = "answered" /\ k.was /\ k.job \in mem =>
                /\ k.seen = "none" =>
                      /\ Cardinality(k.rows) = Limit
                      /\ \A i \in k.rows : started[k.job] <= started[i]
                /\ k.seen \in Outcomes => k.seen = verdict[k.job]
=============================================================================
