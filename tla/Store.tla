------------------------------- MODULE Store -------------------------------
(***************************************************************************)
(* The sqlite store of job rows and output lines (jobsvc/store.go): the    *)
(* bounded queue its clients fill without ever blocking, the writer        *)
(* goroutine that batches lines into transactions, the tables, retention,  *)
(* Close, a crash of the worker and the recovery at the next start.        *)
(*                                                                         *)
(* The clients are the jobs of module Job: each is registered, offers its  *)
(* lines, its finish record and, when its script left commands behind,     *)
(* more lines after that.  A line is reduced to its sequence number, which *)
(* is offered once, a row to its status; "orphaned" is the row that        *)
(* recovery marks failed with exit code 137.                               *)
(***************************************************************************)
EXTENDS Integers, Sequences, FiniteSets

CONSTANTS
    Jobs,
    MaxSeq,       \* bound: lines a job offers
    ChannelCap,   \* channelCap
    BatchLen      \* writeBatchLen

ASSUME StoreAssumption ==
    /\ MaxSeq \in Nat
    /\ ChannelCap \in Nat \ {0}
    /\ BatchLen \in Nat \ {0}

VARIABLES
    ch,        \* Store.ch
    batch,     \* lines the writer has taken and not committed
    wpc,       \* control of the writer goroutine
    fin,       \* the finish record the writer is working on, if any
    row,       \* table jobs: the status of each job, "none" without a row
    lines,     \* table job_lines: the sequence numbers of each job
    up,        \* the worker runs and its store is open
    closing,   \* Store.done is closed
    phase,     \* the job that is the client
    offered,   \* sequence numbers it has offered
    late,      \* observation: those it offered after its finish record
    accepted,  \* observation: those the queue accepted
    spoilt,    \* observation: those lost in a failed transaction
    logged     \* observation: jobs whose row was inserted

queueVars  == <<ch, batch, wpc, fin>>
dbVars     == <<row, lines>>
clientVars == <<phase, offered, late, accepted, logged>>
vars == <<queueVars, dbVars, clientVars, up, closing, spoilt>>

Outcomes == {"done", "killed", "failed"}
Terminal == Outcomes \cup {"orphaned"}

\* A storeLine, and a storeFinish.
LineRec(j, n) == [job |-> j, seq |-> n, end |-> "none"]
FinishRec(j, outcome) == [job |-> j, seq |-> 0, end |-> outcome]
Record == [job : Jobs, seq : 0 .. MaxSeq, end : Outcomes \cup {"none"}]
IsFinish(rec) == rec.end # "none"

\* OpenStore on a new database file.
Init ==
    /\ ch = <<>>
    /\ batch = <<>>
    /\ wpc = "select"
    /\ fin = <<>>
    /\ row = [j \in Jobs |-> "none"]
    /\ lines = [j \in Jobs |-> {}]
    /\ up = TRUE
    /\ closing = FALSE
    /\ phase = [j \in Jobs |-> "new"]
    /\ offered = [j \in Jobs |-> {}]
    /\ late = [j \in Jobs |-> {}]
    /\ accepted = [j \in Jobs |-> {}]
    /\ spoilt = [j \in Jobs |-> {}]
    /\ logged = [j \in Jobs |-> FALSE]

-----------------------------------------------------------------------------
(* Calls of the clients                                                    *)

\* Mutant of HasRoom: one record too many.
HasRoomOffByOne == Len(ch) <= ChannelCap

HasRoom == Len(ch) < ChannelCap

\* The row is inserted directly; an error is only printed, and the job runs.
EnqueueJob(j) ==
    /\ up
    /\ phase[j] = "new"
    /\ phase' = [phase EXCEPT ![j] = "running"]
    /\ \/ /\ row' = [row EXCEPT ![j] = "running"]
          /\ logged' = [logged EXCEPT ![j] = TRUE]
       \/ UNCHANGED <<row, logged>>
    /\ UNCHANGED <<queueVars, lines, up, closing, offered, late, accepted, spoilt>>

\* A line is dropped when the queue is full.  Nobody asks whether the job is
\* over: a command left behind goes on writing.
TryEnqueueLine(j, n) ==
    /\ up
    /\ phase[j] \in {"running", "over"}
    /\ n \in (1 .. MaxSeq) \ offered[j]
    /\ offered' = [offered EXCEPT ![j] = @ \cup {n}]
    /\ late' = [late EXCEPT ![j] = IF phase[j] = "over" THEN @ \cup {n} ELSE @]
    /\ IF HasRoom
       THEN /\ ch' = Append(ch, LineRec(j, n))
            /\ accepted' = [accepted EXCEPT ![j] = @ \cup {n}]
       ELSE UNCHANGED <<ch, accepted>>
    /\ UNCHANGED <<batch, wpc, fin, dbVars, up, closing, phase, spoilt, logged>>

\* So is a finish record.
FinishJob(j, outcome) ==
    /\ up
    /\ phase[j] = "running"
    /\ phase' = [phase EXCEPT ![j] = "over"]
    /\ ch' = IF HasRoom THEN Append(ch, FinishRec(j, outcome)) ELSE ch
    /\ UNCHANGED <<batch, wpc, fin, dbVars, up, closing, spoilt>>
    /\ UNCHANGED <<offered, late, accepted, logged>>

-----------------------------------------------------------------------------
(* The writer goroutine                                                    *)

\* A line joins the batch; a full batch is flushed at once.
TakeLine ==
    /\ up
    /\ wpc = "select"
    /\ ch # <<>>
    /\ ~IsFinish(Head(ch))
    /\ batch' = Append(batch, Head(ch))
    /\ ch' = Tail(ch)
    /\ wpc' = IF Len(batch') >= BatchLen THEN "flush" ELSE "select"
    /\ UNCHANGED <<fin, dbVars, clientVars, up, closing, spoilt>>

\* A finish record: the pending lines go first.
TakeFinish ==
    /\ up
    /\ wpc = "select"
    /\ ch # <<>>
    /\ IsFinish(Head(ch))
    /\ fin' = <<Head(ch)>>
    /\ ch' = Tail(ch)
    /\ wpc' = "flushFinish"
    /\ UNCHANGED <<batch, dbVars, clientVars, up, closing, spoilt>>

\* Mutant of Tick: only a full batch is ever flushed.
TickNever == FALSE /\ UNCHANGED vars

Tick ==
    /\ up
    /\ wpc = "select"
    /\ batch # <<>>
    /\ wpc' = "flush"
    /\ UNCHANGED <<ch, batch, fin, dbVars, clientVars, up, closing, spoilt>>

\* Of the first k records of the batch, those of job j.
Prefix(j, k) == {batch[i].seq : i \in {i \in 1 .. k : batch[i].job = j}}

\* One transaction.  An error before the inserts, or of the commit, loses the
\* whole batch; an error of an insert loses it from there on.
Flush(at, next) ==
    /\ up
    /\ wpc = at
    /\ \E k \in 0 .. Len(batch) :
          /\ lines' = [j \in Jobs |-> lines[j] \cup Prefix(j, k)]
          /\ spoilt' = [j \in Jobs |->
                          spoilt[j] \cup (Prefix(j, Len(batch)) \ Prefix(j, k))]
    /\ batch' = <<>>
    /\ wpc' = next
    /\ UNCHANGED <<ch, fin, row, clientVars, up, closing>>

FlushBatch == Flush("flush", "select")
\* Mutant of FlushBeforeFinish: the update does not wait for the lines.
FinishWithoutFlush ==
    /\ up
    /\ wpc = "flushFinish"
    /\ wpc' = "update"
    /\ UNCHANGED <<ch, batch, fin, dbVars, clientVars, up, closing, spoilt>>

FlushBeforeFinish == Flush("flushFinish", "update")
FlushAtClose == Flush("flushClose", "stopped")

\* UPDATE jobs ... WHERE id=?; an error is logged and the record is gone.
UpdateRow ==
    /\ up
    /\ wpc = "update"
    /\ \/ LET rec == Head(fin)
          IN  row' = [row EXCEPT ![rec.job] = IF @ = "none" THEN @ ELSE rec.end]
       \/ UNCHANGED row
    /\ fin' = <<>>
    /\ wpc' = "select"
    /\ UNCHANGED <<ch, batch, lines, clientVars, up, closing, spoilt>>

\* The select takes the closed done channel; the queue may hold records.
TakeDone ==
    /\ up
    /\ wpc = "select"
    /\ closing
    /\ wpc' = "flushClose"
    /\ UNCHANGED <<ch, batch, fin, dbVars, clientVars, up, closing, spoilt>>

-----------------------------------------------------------------------------
(* Retention, Close, crash and restart                                     *)

\* Mutant of Retention: the state of the row is not looked at.
RetentionOfAny(S) ==
    /\ up
    /\ row' = [j \in Jobs |-> IF j \in S THEN "none" ELSE row[j]]
    /\ lines' = [j \in Jobs |-> IF row'[j] = "none" THEN {} ELSE lines[j]]
    /\ UNCHANGED <<queueVars, clientVars, up, closing, spoilt>>

\* One transaction, hourly: finished rows older than the window, whichever
\* those are, and then every line whose job has no row.
Retention(S) ==
    /\ up
    /\ \A j \in S : row[j] \in Terminal
    /\ row' = [j \in Jobs |-> IF j \in S THEN "none" ELSE row[j]]
    /\ lines' = [j \in Jobs |-> IF row'[j] = "none" THEN {} ELSE lines[j]]
    /\ UNCHANGED <<queueVars, clientVars, up, closing, spoilt>>

Close ==
    /\ up
    /\ ~closing
    /\ closing' = TRUE
    /\ UNCHANGED <<queueVars, dbVars, clientVars, up, spoilt>>

\* The worker's memory goes: the queue, the batch and the jobs.
Stop ==
    /\ up' = FALSE
    /\ ch' = <<>>
    /\ batch' = <<>>
    /\ fin' = <<>>
    /\ wpc' = "stopped"
    /\ phase' = [j \in Jobs |-> IF phase[j] = "new" THEN "new" ELSE "dead"]
    /\ UNCHANGED <<dbVars, closing, offered, late, accepted, spoilt, logged>>

Crash ==
    /\ up
    /\ Stop

\* Close has waited for the writer and closes the database.
CloseDB ==
    /\ up
    /\ wpc = "stopped"
    /\ Stop

\* Mutants of recover: it is skipped, or it updates every row.
recoverNothing == UNCHANGED row
recoverAll ==
    row' = [j \in Jobs |-> IF row[j] = "none" THEN "none" ELSE "orphaned"]

\* OpenStore at the next start: recover, then a new writer.
recover ==
    row' = [j \in Jobs |-> IF row[j] = "running" THEN "orphaned" ELSE row[j]]

OpenStore ==
    /\ ~up
    /\ recover
    /\ up' = TRUE
    /\ closing' = FALSE
    /\ wpc' = "select"
    /\ UNCHANGED <<ch, batch, fin, lines, clientVars, spoilt>>

-----------------------------------------------------------------------------
Client(j) ==
    \/ EnqueueJob(j)
    \/ \E n \in 1 .. MaxSeq : TryEnqueueLine(j, n)
    \/ \E outcome \in Outcomes : FinishJob(j, outcome)

Writer ==
    \/ TakeLine \/ TakeFinish \/ Tick \/ UpdateRow \/ TakeDone
    \/ FlushBatch \/ FlushBeforeFinish \/ FlushAtClose

Next ==
    \/ \E j \in Jobs : Client(j)
    \/ Writer
    \/ \E S \in SUBSET Jobs : Retention(S)
    \/ Close
    \/ CloseDB
    \/ Crash
    \/ OpenStore

\* The writer goroutine runs: it takes records while there are any, and its
\* ticker fires.  Nothing is assumed of the clients or of retention.
Fairness == WF_vars(Writer)

Spec == Init /\ [][Next]_vars /\ Fairness

-----------------------------------------------------------------------------
TypeOK ==
    /\ ch \in Seq(Record)
    /\ Len(ch) <= ChannelCap
    /\ batch \in Seq(Record)
    /\ Len(batch) <= BatchLen
    /\ wpc \in {"select", "flush", "flushFinish", "update", "flushClose",
                "stopped"}
    /\ fin \in Seq(Record)
    /\ Len(fin) = IF wpc \in {"flushFinish", "update"} THEN 1 ELSE 0
    /\ row \in [Jobs -> Terminal \cup {"none", "running"}]
    /\ lines \in [Jobs -> SUBSET (1 .. MaxSeq)]
    /\ up \in BOOLEAN
    /\ closing \in BOOLEAN
    /\ phase \in [Jobs -> {"new", "running", "over", "dead"}]
    /\ offered \in [Jobs -> SUBSET (1 .. MaxSeq)]
    /\ late \in [Jobs -> SUBSET (1 .. MaxSeq)]
    /\ accepted \in [Jobs -> SUBSET (1 .. MaxSeq)]
    /\ spoilt \in [Jobs -> SUBSET (1 .. MaxSeq)]
    /\ logged \in [Jobs -> BOOLEAN]

-----------------------------------------------------------------------------
(* What the store promises                                                 *)

\* A finish record commits strictly after the lines (writer, store.go): when
\* a job's row carries the outcome it finished with, every line the queue
\* accepted before that record is in the table, except lines of a transaction
\* that failed.
FinishAfterLines ==
    \A j \in Jobs : row[j] \in Outcomes =>
        accepted[j] \ late[j] \subseteq lines[j] \cup spoilt[j]

\* No row is left running by an earlier life of the worker: while the store is
\* open, a running row is of a job of this process (recover, store.go).
RunningIsOurs ==
    \A j \in Jobs : up /\ row[j] = "running" => phase[j] # "dead"

\* The lines a job wrote up to its end never outlive its row (Retention, and the
\* order the writer keeps): what is left without a row is of jobs whose insert
\* failed, or of commands that still wrote after the finish record, which the
\* next Retention deletes.
NoOrphanLines ==
    \A j \in Jobs : lines[j] # {} /\ row[j] = "none" =>
        ~logged[j] \/ lines[j] \subseteq late[j]

\* A terminal row never changes again, except that retention deletes it: not
\* by a late finish record, nor by the recovery of a later start.
TerminalIsStable ==
    [][\A j \in Jobs :
         row[j] \in Terminal => row'[j] \in {row[j], "none"}]_vars

\* An accepted line is committed, or lost in a failed transaction, unless the
\* worker dies or closes the store first: the ticker flushes a batch that
\* never fills up (a job without a row, or deleted, has no lines to show).
LineLands ==
    \A j \in Jobs, n \in 1 .. MaxSeq :
        n \in accepted[j] ~>
            \/ n \in lines[j] \cup spoilt[j]
            \/ phase[j] = "dead"
            \/ closing
            \/ row[j] = "none"

\* The tables implement the history that readers may rely on.
statusBar ==
    [j \in Jobs |-> IF row[j] # "none" THEN row[j]
                    ELSE IF logged[j] THEN "forgotten" ELSE "absent"]

logBar == [j \in Jobs |-> lines[j] \ late[j]]
straysBar == [j \in Jobs |-> lines[j] \cap late[j]]

H == INSTANCE History
         WITH Lines <- 1 .. MaxSeq, status <- statusBar, log <- logBar,
              strays <- straysBar

\* Every step on the tables is a step of History or leaves them alone; in
\* particular what a job wrote up to its end is frozen by its outcome until it
\* is forgotten, and only what commands left behind write is added to it.
ImplementsHistory == H!Spec
=============================================================================
