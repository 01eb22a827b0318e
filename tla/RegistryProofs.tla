--------------------------- MODULE RegistryProofs ---------------------------
(***************************************************************************)
(* Proofs about Registry: what the readers of a job may rely on, for any   *)
(* jobs, lines, callers, rings and queues.  The store's own invariant is   *)
(* the one of StoreProofs.                                                 *)
(***************************************************************************)
EXTENDS Registry, FiniteSetTheorems, TLAPS

SP == INSTANCE StoreProofs

-----------------------------------------------------------------------------
(* The invariant                                                           *)

Ended == {"stated", "stamped", "over"}

\* The goroutine of a job, the client it is to the store, and what it has
\* written: its state is its verdict from SetState on, when every line of a
\* tidy job has been handed to the store.
Life(j) ==
    /\ jpc[j] \in {"none", "insert"} => phase[j] = "new" /\ All(j) = {}
    /\ jpc[j] \in {"run", "exit", "error", "stated", "stamped"} =>
          phase[j] = "running"
    /\ jpc[j] = "over" => phase[j] = "over"
    /\ jpc[j] = "gone" => phase[j] \in {"new", "dead"}
    /\ ~up => jpc[j] \in {"none", "gone"}
    /\ j \in mem => jpc[j] \notin {"none", "gone"}
    /\ jpc[j] \in Ended => state[j] = verdict[j] /\ Handed(j)
    /\ state[j] # "running" => jpc[j] \in Ended
    /\ stamp[j] # "unset" => jpc[j] \in {"stamped", "over"}
    /\ stamp[j] = "old" => jpc[j] = "over"
    /\ j \notin loose => late[j] = {}

\* Lines are numbered from 1 on, once, and the store knows of no others.
Numbers(j) ==
    /\ All(j) \subseteq 1 .. Cardinality(All(j))
    /\ made[j]["stdout"] \cap made[j]["stderr"] = {}
    /\ accepted[j] \subseteq offered[j]
    /\ lines[j] \subseteq offered[j]
    /\ offered[j] \subseteq All(j)

\* The records of job j in a queue.
Of(recs, j) == {i \in 1 .. Len(recs) : recs[i].job = j}

\* The outcome of a job, in its row or on its way there, is its verdict.
Verdicts(j) ==
    /\ row[j] = "orphaned" => phase[j] = "dead"
    /\ row[j] \in Outcomes /\ jpc[j] # "gone" => row[j] = verdict[j]
    /\ \A i \in Of(ch, j) : ch[i].end \in {"none", verdict[j]}
    /\ \A i \in Of(fin, j) : fin[i].end = verdict[j]

\* Every m before every n.
Before(M, N) == \A m \in M, n \in N : m < n

\* The lines of one stream in a queue, and those not yet offered.
Queued(recs, j, s) == {recs[i].seq : i \in Of(recs, j)} \cap made[j][s]
Waiting(j, s) == made[j][s] \ offered[j]
Sorted(recs, j, s) ==
    \A i, k \in Of(recs, j) :
        i < k /\ recs[i].seq \in made[j][s] /\ recs[k].seq \in made[j][s]
           => recs[i].seq < recs[k].seq

\* The lines of a stream of a tidy job pass through the queue and the batch to
\* the table in order.
Order(j, s) ==
    /\ Before(lines[j] \cap made[j][s], Queued(batch, j, s))
    /\ Before(lines[j] \cap made[j][s], Queued(ch, j, s))
    /\ Before(lines[j] \cap made[j][s], Waiting(j, s))
    /\ Before(Queued(batch, j, s), Queued(ch, j, s))
    /\ Before(Queued(batch, j, s), Waiting(j, s))
    /\ Before(Queued(ch, j, s), Waiting(j, s))
    /\ Sorted(batch, j, s)
    /\ Sorted(ch, j, s)

\* What the store knows of a job is what the job has offered, and an hour
\* after its end all of it has arrived but what commands left behind write.
Settled(j) ==
    /\ \A i \in Of(ch, j) : ch[i].seq \in late[j]
    /\ \A i \in Of(batch, j) : batch[i].seq \in late[j]
    /\ Of(fin, j) = {}

Records(j) ==
    /\ \A i \in Of(ch, j) : ch[i].seq \in offered[j] \cup {0}
    /\ \A i \in Of(batch, j) : batch[i].seq \in offered[j]
    /\ stamp[j] = "old" => Settled(j)

JobInv(j) ==
    /\ Life(j) /\ Numbers(j) /\ Verdicts(j) /\ Records(j)
    /\ j \notin loose => \A s \in Streams : Order(j, s)

\* A line that the store does not have to show.
Missing(j, n) ==
    n \in Dropped(j) \cup spoilt[j] \/ phase[j] = "dead" \/ row[j] = "none"

\* JobOutput of one stream of a tidy job.  Once the table was read, a line that was not in
\* it is above all that were; once the ring was, it had left the ring, or the
\* job the map.
OutputInv(k) ==
    LET j == k.job
    IN  /\ k.want \subseteq All(j)
        /\ \A s \in Streams : k.sel = {s} /\ j \notin loose =>
             \A n \in k.want \cap made[j][s] :
                /\ k.pc \in {"get", "stdout", "stderr"} =>
                      \/ n \in k.got \/ Missing(j, n)
                      \/ n > k.top /\ stamp[j] # "old"
                /\ (k.pc \in {"flag", "answered"} \/ (k.pc = "stderr" /\ s = "stdout")) =>
                      \/ n \in k.got \/ Missing(j, n)
                      \/ stamp[j] # "old" /\ (j \notin mem \/ n \notin Recs(j, s))
        /\ k.pc = "answered" /\ k.ended => jpc[j] \in Ended \cup {"gone"}

\* ReplayCap lines of the table are above line n.
Above(j, n) == {m \in lines[j] : m > n}
CutOff(j, n) == Cardinality(Above(j, n)) >= ReplayCap

\* WatchJob of a job that has ended: its row stays, and once the table was
\* read every line the store took before the finish record is in hand, until
\* the replay is cut.
WatchInv(k) ==
    LET j == k.job
    IN  /\ k.sel = Streams
        /\ j \notin mem
        /\ k.pc \in {"query", "get", "flag", "answered"}
        /\ k.seen \in Outcomes =>
              /\ phase[j] \in {"over", "dead"}
              /\ row[j] \in {k.seen, "none"}
              /\ k.pc \in {"get", "flag"} /\ ~k.err =>
                    \/ /\ k.got \subseteq lines[j]
                       /\ accepted[j] \ late[j] \subseteq k.got \cup spoilt[j]
                    \/ row[j] = "none"
              /\ k.pc = "answered" /\ ~k.err =>
                    \/ \A n \in accepted[j] \ late[j] :
                          n \in k.got \cup spoilt[j] \/ CutOff(j, n)
                    \/ row[j] = "none"

\* ListJobs: an outcome that was read is the job's own, for ever, and a list
\* without the job is full of others that are no older.
ListInv(k) ==
    LET j == k.job
    IN  /\ \A i \in k.rows : jpc[i] # "none"
        /\ k.pc = "merge" /\ j \in k.rows => k.seen # "none"
        /\ k.seen \in Outcomes /\ k.was /\ j \in mem =>
              jpc[j] \in Ended /\ k.seen = verdict[j]
        /\ k.pc = "answered" /\ k.was /\ j \in mem /\ k.seen = "none" =>
              /\ Cardinality(k.rows) = Limit
              /\ \A i \in k.rows : started[j] <= started[i]

CallInv(k) ==
    /\ k.pc # "idle" => k.job \in Jobs /\ jpc[k.job] # "none"
    /\ k.op = "none" <=> k.pc = "idle"
    /\ k.pc = "merge" => k.op = "list"
    /\ k.pc \in {"query", "get", "stdout", "stderr", "flag"} => k.op # "list"
    /\ k.op = "output" => OutputInv(k)
    /\ k.op = "watch" => WatchInv(k)
    /\ k.op = "list" => ListInv(k)

Inv ==
    /\ SP!Inv
    /\ TypeOK
    /\ \A j \in Jobs : JobInv(j)
    /\ \A c \in Callers : CallInv(call[c])

-----------------------------------------------------------------------------
(* The store                                                               *)

\* The constants are as the store wants them.
LEMMA StoreConstants == SP!StoreAssumption
  BY RegistryAssumption DEF SP!StoreAssumption

\* What a job asks of the store is a step of a client of Store.
LEMMA ClientStep ==
    ASSUME NEW j \in Jobs
    PROVE  /\ S!EnqueueJob(j) => SP!Next
           /\ \A n : S!TryEnqueueLine(j, n) => SP!Next
           /\ \A o \in Outcomes : S!FinishJob(j, o) => SP!Next
<1>1. S!EnqueueJob(j) => SP!EnqueueJob(j)
  BY DEF S!EnqueueJob, SP!EnqueueJob, S!queueVars, SP!queueVars
<1>2. ASSUME NEW n, S!TryEnqueueLine(j, n)
      PROVE  n \in 1 .. MaxSeq /\ SP!TryEnqueueLine(j, n)
  BY <1>2 DEF S!TryEnqueueLine, SP!TryEnqueueLine, S!HasRoom, SP!HasRoom,
     S!LineRec, SP!LineRec, S!dbVars, SP!dbVars
<1>3. ASSUME NEW o \in Outcomes, S!FinishJob(j, o)
      PROVE  o \in SP!Outcomes /\ SP!FinishJob(j, o)
  BY <1>3 DEF S!FinishJob, SP!FinishJob, S!HasRoom, SP!HasRoom,
     S!FinishRec, SP!FinishRec, S!dbVars, SP!dbVars, Outcomes, S!Outcomes, SP!Outcomes
<1> QED BY <1>1, <1>2, <1>3 DEF SP!Next, SP!Client

\* The writer of the registry is the one of Store.
LEMMA WriterStep ==
    /\ S!TakeLine => SP!Next
    /\ S!TakeFinish => SP!Next
    /\ S!Tick => SP!Next
    /\ S!FlushBatch => SP!Next
    /\ S!FlushBeforeFinish => SP!Next
    /\ S!UpdateRow => SP!Next
<1>1. S!TakeLine => SP!TakeLine
  BY DEF S!TakeLine, SP!TakeLine, S!IsFinish, SP!IsFinish, S!dbVars, SP!dbVars,
     S!clientVars, SP!clientVars
<1>2. S!TakeFinish => SP!TakeFinish
  BY DEF S!TakeFinish, SP!TakeFinish, S!IsFinish, SP!IsFinish, S!dbVars, SP!dbVars,
     S!clientVars, SP!clientVars
<1>3. S!Tick => SP!Tick
  BY DEF S!Tick, SP!Tick, S!dbVars, SP!dbVars, S!clientVars, SP!clientVars
<1>4. \A at, next : S!Flush(at, next) => SP!Flush(at, next)
  BY DEF S!Flush, SP!Flush, S!Prefix, SP!Prefix, S!clientVars, SP!clientVars
<1>5. S!UpdateRow => SP!UpdateRow
  BY DEF S!UpdateRow, SP!UpdateRow, S!clientVars, SP!clientVars
<1> QED BY <1>1, <1>2, <1>3, <1>4, <1>5 DEF SP!Next, SP!Writer, S!FlushBatch,
        SP!FlushBatch, S!FlushBeforeFinish, SP!FlushBeforeFinish

\* So are retention, a crash and the next start.
LEMMA OtherStep ==
    /\ \A D \in SUBSET Jobs : S!Retention(D) => SP!Next
    /\ S!Crash => SP!Next
    /\ S!OpenStore => SP!Next
<1>1. \A D : S!Retention(D) => SP!Retention(D)
  BY DEF S!Retention, SP!Retention, S!Terminal, SP!Terminal, S!Outcomes, SP!Outcomes,
     S!queueVars, SP!queueVars, S!clientVars, SP!clientVars
<1>2. S!Crash => SP!Crash
  BY DEF S!Crash, SP!Crash, S!Stop, SP!Stop, S!dbVars, SP!dbVars
<1>3. S!OpenStore => SP!OpenStore
  BY DEF S!OpenStore, SP!OpenStore, S!recover, SP!recover, S!clientVars, SP!clientVars
<1> QED BY <1>1, <1>2, <1>3 DEF SP!Next

\* A step of the registry is one of the store, or leaves the store alone.
LEMMA StoreStep ==
    ASSUME TypeOK, [Next]_vars
    PROVE  SP!Next \/ UNCHANGED storeVars
<1>1. ASSUME NEW j \in Jobs, Goroutine(j)
      PROVE  SP!Next \/ UNCHANGED storeVars
  <2>1. verdict[j] \in Outcomes
    BY DEF TypeOK
  <2> QED BY <1>1, <2>1, ClientStep DEF Goroutine, Execute, EnqueueJob, WriteLine,
          CompleteLine, TryEnqueueLine, Classify, ErrorLine, SetState, SetFinishedAt,
          FinishJob
<1>2. ASSUME NEW c \in Callers, Call(c) PROVE UNCHANGED storeVars
  BY <1>2 DEF Call, JobOutput, WatchJob, List, Begin, QueryLines, QueryFails, Get,
     ReadStdout, ReadStderr, ReadRing, DoneFlag, ReplayTail, Merge, Return, Step
<1>3. CASE Writer
  BY <1>3, WriterStep DEF Writer
<1>4. CASE \E D \in SUBSET Jobs : Retention(D)
  BY <1>4, OtherStep DEF Retention
<1>5. CASE Crash \/ OpenStore
  BY <1>5, OtherStep DEF Crash, OpenStore
<1>6. ASSUME NEW j \in Jobs, HourPasses(j) PROVE UNCHANGED storeVars
  BY <1>6 DEF HourPasses
<1>7. CASE Prune \/ UNCHANGED vars
  BY <1>7 DEF Prune, vars
<1> QED BY <1>1, <1>2, <1>3, <1>4, <1>5, <1>6, <1>7 DEF Next

\* The store's invariant holds under the registry too.
LEMMA StoreInv ==
    ASSUME SP!Inv, TypeOK, [Next]_vars
    PROVE  SP!Inv'
<1>1. [SP!Next]_(SP!vars)
  BY StoreStep DEF storeVars, SP!vars, SP!queueVars, SP!dbVars, SP!clientVars
<1> QED BY <1>1, SP!NextInv, StoreConstants

\* The types under both instances of Store are the same.
LEMMA StoreType == SP!TypeOK => S!TypeOK
  BY DEF SP!TypeOK, S!TypeOK, SP!Record, S!Record, SP!Terminal, S!Terminal, SP!Outcomes,
     S!Outcomes

\* What the registry takes from the invariant of the store.
LEMMA StoreFacts ==
    ASSUME SP!Inv
    PROVE  /\ S!TypeOK
           /\ \A j \in Jobs :
                /\ phase[j] = "new" => row[j] = "none" /\ lines[j] = {} /\ accepted[j] = {}
                /\ phase[j] \in {"new", "dead"} =>
                      Of(ch, j) = {} /\ Of(batch, j) = {} /\ Of(fin, j) = {}
                /\ row[j] \in Outcomes => Of(fin, j) = {}
                /\ phase[j] = "running" =>
                      /\ row[j] \in {"none", "running"}
                      /\ \A i \in Of(ch, j) : ch[i].end = "none"
                      /\ Of(fin, j) = {}
                /\ row[j] \in Outcomes =>
                      accepted[j] \ late[j] \subseteq lines[j] \cup spoilt[j]
                /\ row[j] = "running" /\ phase[j] # "dead" =>
                      \A n \in accepted[j] \ late[j] :
                         \/ n \in lines[j] \cup spoilt[j]
                         \/ \E i \in Of(ch, j) : ch[i].seq = n
                         \/ \E i \in Of(batch, j) : batch[i].seq = n
           /\ wpc = "update" => batch = <<>>
           /\ \A i \in 1 .. Len(ch) : ch[i].end # "none" <=> ch[i].seq = 0
           /\ \A i \in 1 .. Len(batch) : batch[i].seq # 0
<1> USE DEF Of, SP!Without, SP!Outcomes, S!Outcomes, Outcomes, SP!Terminal, S!Terminal
<1>1. S!TypeOK
  BY StoreType DEF SP!Inv
<1>2. ASSUME NEW j \in Jobs
      PROVE  /\ phase[j] = "new" => row[j] = "none" /\ lines[j] = {} /\ accepted[j] = {}
             /\ phase[j] \in {"new", "dead"} =>
                   Of(ch, j) = {} /\ Of(batch, j) = {} /\ Of(fin, j) = {}
             /\ row[j] \in Outcomes => Of(fin, j) = {}
  <2>1. phase[j] = "new" => row[j] = "none" /\ lines[j] = {} /\ accepted[j] = {}
    BY DEF SP!Inv, SP!RowsAndPhases
  <2>2. phase[j] \in {"new", "dead"} =>
           Of(ch, j) = {} /\ Of(batch, j) = {} /\ Of(fin, j) = {}
    BY DEF SP!Inv, SP!RetiredIsClear, SP!Absent
  <2>3. ASSUME row[j] \in Outcomes PROVE Of(fin, j) = {}
    <3>1. /\ \A i \in 1 .. Len(fin) : fin[i].job = j => fin[i].seq \in late[j]
          /\ \A i \in 1 .. Len(fin) : fin[i].seq = 0
      BY <2>3 DEF SP!Inv, SP!RetiredIsClear, SP!Retired, SP!WriterInv
    <3>2. 0 \notin late[j]
      BY RegistryAssumption DEF SP!Inv, SP!TypeOK
    <3> QED BY <3>1, <3>2
  <2> QED BY <2>1, <2>2, <2>3
<1>3. ASSUME NEW j \in Jobs
      PROVE  phase[j] = "running" =>
                /\ row[j] \in {"none", "running"}
                /\ \A i \in Of(ch, j) : ch[i].end = "none"
                /\ Of(fin, j) = {}
  BY DEF SP!Inv, SP!RowsAndPhases, SP!NoEarlyFinish, SP!IsFinish
<1>4. ASSUME NEW j \in Jobs
      PROVE  /\ row[j] \in Outcomes =>
                   accepted[j] \ late[j] \subseteq lines[j] \cup spoilt[j]
             /\ row[j] = "running" /\ phase[j] # "dead" =>
                   \A n \in accepted[j] \ late[j] :
                      \/ n \in lines[j] \cup spoilt[j]
                      \/ \E i \in Of(ch, j) : ch[i].seq = n
                      \/ \E i \in Of(batch, j) : batch[i].seq = n
  BY DEF SP!Inv, SP!Accounted, SP!Holds
<1>5. /\ wpc = "update" => batch = <<>>
      /\ \A i \in 1 .. Len(ch) : ch[i].end # "none" <=> ch[i].seq = 0
      /\ \A i \in 1 .. Len(batch) : batch[i].seq # 0
  BY DEF SP!Inv, SP!WriterInv, SP!IsFinish
<1> QED BY <1>1, <1>2, <1>3, <1>4, <1>5

-----------------------------------------------------------------------------
(* Lines and their numbers                                                 *)

\* A set of numbers has a least one: the well-foundedness of <, without the
\* induction rule.
LEMMA LeastNat ==
    ASSUME NEW T, T \subseteq Nat, T # {}
    PROVE  \E x \in T : \A y \in T : x <= y
<1>1. PICK x \in T : \A y \in T : ~(<<y, x>> \in OpToRel(<, Nat))
  BY NatLessThanWellFounded, WFMin
<1>2. ASSUME NEW y \in T PROVE x <= y
  <2>1. <<y, x>> \in Nat \X Nat
    OBVIOUS
  <2>2. ~(y < x)
    BY <1>1, <2>1 DEF OpToRel
  <2> QED BY <2>2
<1> QED BY <1>2

\* Min of a set of lines is its least line (FiniteSetsExt).
LEMMA MinFacts ==
    ASSUME NEW T \in SUBSET (1 .. MaxSeq), T # {}
    PROVE  Min(T) \in T /\ \A y \in T : Min(T) <= y
<1>1. T \subseteq Nat
  BY RegistryAssumption
<1>2. \E x \in T : \A y \in T : x =< y
  BY <1>1, LeastNat
<1> QED BY <1>2 DEF Min

\* Max of a set of lines is its greatest (FiniteSetsExt).
LEMMA MaxFacts ==
    ASSUME NEW T \in SUBSET (0 .. MaxSeq), T # {}
    PROVE  Max(T) \in T /\ \A y \in T : y <= Max(T)
<1>1. MaxSeq \in Nat /\ \A y \in T : y \in Nat /\ MaxSeq - y \in Nat
  BY RegistryAssumption
<1> DEFINE U == {MaxSeq - y : y \in T}
<1>2. U \subseteq Nat /\ U # {}
  BY <1>1
<1>3. PICK x \in U : \A y \in U : x <= y
  BY <1>2, LeastNat
<1>4. PICK m \in T : x = MaxSeq - m
  OBVIOUS
<1>5. ASSUME NEW y \in T PROVE m >= y
  <2>1. MaxSeq - y \in U
    OBVIOUS
  <2>2. MaxSeq - m <= MaxSeq - y
    BY <1>3, <1>4, <2>1
  <2> QED BY <1>1, <2>2
<1>6. ASSUME NEW z \in T, \A y \in T : z >= y PROVE \A y \in T : y <= z
  BY <1>1, <1>6
<1> QED BY <1>5, <1>6 DEF Max

\* Lines are finitely many.
LEMMA LinesFinite == IsFiniteSet(1 .. MaxSeq)
<1>1. 1 \in Int /\ MaxSeq \in Int
  BY RegistryAssumption
<1> QED BY <1>1, FS_Interval

\* So are the lines of a job.
LEMMA AllFacts ==
    ASSUME TypeOK, NEW j \in Jobs
    PROVE  /\ All(j) = made[j]["stdout"] \cup made[j]["stderr"]
           /\ All(j) \subseteq 1 .. MaxSeq
           /\ IsFiniteSet(All(j))
           /\ Cardinality(All(j)) \in Nat
<1>1. All(j) = made[j]["stdout"] \cup made[j]["stderr"]
  BY DEF All, Streams
<1>2. All(j) \subseteq 1 .. MaxSeq
  BY <1>1 DEF TypeOK, Streams
<1>4. IsFiniteSet(All(j))
  BY <1>2, LinesFinite, FS_Subset
<1> QED BY <1>1, <1>2, <1>4, FS_CardinalityType

\* A line that is completed is above all the others of its job.
LEMMA NewLine ==
    ASSUME TypeOK, NEW j \in Jobs, Numbers(j), NEW s \in Streams, CompleteLine(j, s)
    PROVE  \E x \in 1 .. MaxSeq :
              /\ x = Cardinality(All(j)) + 1
              /\ \A n \in All(j) : n < x
              /\ made'[j][s] = made[j][s] \cup {x}
              /\ \A t \in Streams \ {s} : made'[j][t] = made[j][t]
              /\ \A i \in Jobs \ {j} : made'[i] = made[i] /\ All(i)' = All(i)
              /\ All(j)' = All(j) \cup {x}
              /\ Cardinality(All(j)') = x
              /\ made' \in [Jobs -> [Streams -> SUBSET (1 .. MaxSeq)]]
<1> DEFINE x == Cardinality(All(j)) + 1
<1>1. x \in 1 .. MaxSeq /\ \A n \in All(j) : n < x
  BY AllFacts, RegistryAssumption DEF CompleteLine, Numbers
<1>2. made' = [made EXCEPT ![j] = [made[j] EXCEPT ![s] = made[j][s] \cup {x}]]
  BY DEF CompleteLine, TypeOK
<1> HIDE DEF x
<1>3. /\ made'[j][s] = made[j][s] \cup {x}
      /\ \A t \in Streams \ {s} : made'[j][t] = made[j][t]
      /\ \A i \in Jobs \ {j} : made'[i] = made[i]
      /\ made' \in [Jobs -> [Streams -> SUBSET (1 .. MaxSeq)]]
  BY <1>1, <1>2 DEF TypeOK
<1>4. \A i \in Jobs \ {j} : All(i)' = All(i)
  BY <1>3 DEF All
<1>5. All(j)' = All(j) \cup {x}
  BY <1>3 DEF All, Streams
<1>6. Cardinality(All(j)') = Cardinality(All(j)) + 1
  <2>1. x \notin All(j)
    BY <1>1, AllFacts
  <2> QED BY <1>5, <2>1, AllFacts, FS_AddElement
<1> QED BY <1>1, <1>3, <1>4, <1>5, <1>6 DEF x

-----------------------------------------------------------------------------
(* A step, seen from one job                                               *)

\* A call reads and writes nothing but its own record.
LEMMA CallFrame ==
    ASSUME NEW c \in Callers, Call(c)
    PROVE  up /\ UNCHANGED <<storeVars, jobVars, sweep>>
  BY DEF Call, JobOutput, WatchJob, List, Begin, QueryLines, QueryFails, Get, ReadStdout,
     ReadStderr, ReadRing, DoneFlag, ReplayTail, Merge, Return, Step

\* A tidy job that offers a line is still running.
LEMMA Unhanded ==
    ASSUME TypeOK, NEW j \in Jobs, NEW s \in Streams, Life(j), TryEnqueueLine(j, s),
           j \notin loose
    PROVE  phase[j] = "running"
<1>1. PICK n \in made[j][s] : n \notin offered[j] /\ phase[j] \in {"running", "over"}
  BY DEF TryEnqueueLine, S!TryEnqueueLine
<1>2. ~Handed(j)
  BY <1>1 DEF Handed, All
<1> QED BY <1>1, <1>2 DEF Life, TypeOK, Ended

\* Life goes by the goroutine, a crash, and the sweep.
LEMMA LifeStep ==
    ASSUME Inv, [Next]_vars, NEW i \in Jobs
    PROVE  Life(i)'
<1> USE DEF Life, Ended
<1>0. TypeOK /\ S!TypeOK /\ Life(i) /\ Numbers(i)
  BY DEF Inv, JobInv, TypeOK
<1> USE DEF storeVars, jobVars
<1>a. ASSUME made' = made PROVE All(i)' = All(i)
  BY <1>a DEF All
<1>b. ASSUME made' = made, offered' = offered, loose' = loose PROVE Handed(i)' = Handed(i)
  BY <1>a, <1>b DEF Handed
<1>1. ASSUME NEW j \in Jobs, Execute(j) PROVE Life(i)'
  BY <1>0, <1>1, <1>a, <1>b DEF Execute, TypeOK
<1>2. ASSUME NEW j \in Jobs, EnqueueJob(j) PROVE Life(i)'
  BY <1>0, <1>2, <1>a, <1>b DEF EnqueueJob, S!EnqueueJob, S!queueVars, S!TypeOK, TypeOK
<1>3. ASSUME NEW j \in Jobs, NEW s \in Streams, WriteLine(j, s) PROVE Life(i)'
  <2>1. /\ jpc[j] \notin {"none", "insert"} /\ (i # j => All(i)' = All(i))
        /\ jpc[j] \in Ended => j \in loose
        /\ UNCHANGED <<storeVars, loose, mem, jpc, verdict, state, stamp>>
    <3>1. CompleteLine(j, s) /\ Numbers(j)
      BY <1>3 DEF WriteLine, Inv, JobInv
    <3>2. i # j => All(i)' = All(i)
      BY <1>0, <3>1, NewLine
    <3> QED BY <1>3, <3>2 DEF WriteLine, CompleteLine
  <2> QED BY <1>0, <2>1 DEF TypeOK, Handed
<1>4. ASSUME NEW j \in Jobs, ErrorLine(j) PROVE Life(i)'
  <2>1. /\ jpc[j] = "exit" /\ (i # j => All(i)' = All(i))
        /\ jpc' = [jpc EXCEPT ![j] = "error"]
        /\ UNCHANGED <<storeVars, loose, mem, verdict, state, stamp>>
    <3>1. CompleteLine(j, "stderr") /\ Numbers(j) /\ "stderr" \in Streams
      BY <1>4 DEF ErrorLine, Inv, JobInv, Streams
    <3>2. i # j => All(i)' = All(i)
      BY <1>0, <3>1, NewLine
    <3> QED BY <1>4, <3>2 DEF ErrorLine, CompleteLine
  <2> QED BY <1>0, <2>1 DEF TypeOK, Handed
<1>5. ASSUME NEW j \in Jobs, NEW s \in Streams, TryEnqueueLine(j, s) PROVE Life(i)'
  <2>1. /\ UNCHANGED <<jobVars, phase, up>>
        /\ offered[i] \subseteq offered'[i]
        /\ phase[j] = "running" \/ i # j => late'[i] = late[i]
    BY <1>0, <1>5 DEF TryEnqueueLine, S!TryEnqueueLine, S!TypeOK
  <2>2. j \notin loose => phase[j] = "running"
    BY <1>5, Unhanded DEF Inv, JobInv
  <2>3. i \notin loose => late'[i] = {}
    BY <1>0, <2>1, <2>2
  <2> QED BY <1>0, <1>a, <2>1, <2>3 DEF Handed
<1>6. ASSUME NEW j \in Jobs, Classify(j) PROVE Life(i)'
  BY <1>0, <1>6, <1>a, <1>b DEF Classify, TypeOK
<1>7. ASSUME NEW j \in Jobs, SetState(j) PROVE Life(i)'
  BY <1>0, <1>7, <1>a, <1>b DEF SetState, TypeOK
<1>8. ASSUME NEW j \in Jobs, SetFinishedAt(j) PROVE Life(i)'
  BY <1>0, <1>8, <1>a, <1>b DEF SetFinishedAt, TypeOK
<1>9. ASSUME NEW j \in Jobs, FinishJob(j) PROVE Life(i)'
  BY <1>0, <1>9, <1>a, <1>b DEF FinishJob, S!FinishJob, S!TypeOK, TypeOK
<1>10. ASSUME NEW j \in Jobs, HourPasses(j) PROVE Life(i)'
  BY <1>0, <1>10, <1>a, <1>b DEF HourPasses, TypeOK
<1>11. CASE Writer
  <2>1. UNCHANGED <<jobVars, phase, offered, late, up>>
    BY <1>11 DEF Writer, S!TakeLine, S!TakeFinish, S!Tick, S!FlushBatch,
       S!FlushBeforeFinish, S!Flush, S!UpdateRow, S!clientVars
  <2> QED BY <1>0, <2>1, <1>a, <1>b
<1>12. ASSUME NEW D \in SUBSET Jobs, Retention(D) PROVE Life(i)'
  <2>1. UNCHANGED <<jobVars, phase, offered, late, up>>
    BY <1>12 DEF Retention, S!Retention, S!clientVars
  <2> QED BY <1>0, <2>1, <1>a, <1>b
<1>13. CASE Prune
  BY <1>0, <1>13, <1>a, <1>b DEF Prune
<1>14. ASSUME NEW c \in Callers, Call(c) PROVE Life(i)'
  BY <1>0, <1>14, CallFrame, <1>a, <1>b
<1>15. CASE Crash
  BY <1>0, <1>15, <1>a, <1>b DEF Crash, S!Crash, S!Stop, TypeOK, S!TypeOK
<1>16. CASE OpenStore
  BY <1>0, <1>16, <1>a, <1>b DEF OpenStore, S!OpenStore, S!clientVars
<1>17. CASE UNCHANGED vars
  BY <1>0, <1>17, <1>a, <1>b DEF vars
<1> QED BY <1>1, <1>2, <1>3, <1>4, <1>5, <1>6, <1>7, <1>8, <1>9, <1>10, <1>11, <1>12,
        <1>13, <1>14, <1>15, <1>16, <1>17 DEF Next, Goroutine

\* Append and Tail, at the positions of a queue.
LEMMA AppendAt ==
    ASSUME NEW recs \in Seq(S!Record), NEW rec \in S!Record
    PROVE  /\ Len(recs) \in Nat
           /\ Len(Append(recs, rec)) = Len(recs) + 1
           /\ \A x \in 1 .. Len(recs) : Append(recs, rec)[x] = recs[x]
           /\ Append(recs, rec)[Len(recs) + 1] = rec
OBVIOUS

\* Tail, at the positions of a queue.
LEMMA TailAt ==
    ASSUME NEW recs \in Seq(S!Record), recs # <<>>
    PROVE  /\ Len(recs) \in Nat \ {0}
           /\ Len(Tail(recs)) = Len(recs) - 1
           /\ \A x \in 1 .. Len(recs) - 1 : Tail(recs)[x] = recs[x + 1]
           /\ Head(recs) = recs[1] /\ recs[1] \in S!Record
OBVIOUS

\* What a step does to the records of job i in the queue.
LEMMA Appended ==
    ASSUME NEW recs \in Seq(S!Record), NEW rec \in S!Record, NEW i,
           NEW new, new = Append(recs, rec), NEW x \in Of(new, i)
    PROVE  \/ x \in Of(recs, i) /\ new[x] = recs[x]
           \/ x = Len(recs) + 1 /\ new[x] = rec /\ rec.job = i
<1>1. /\ Len(recs) \in Nat /\ Len(new) = Len(recs) + 1
      /\ \A y \in 1 .. Len(recs) : new[y] = recs[y]
      /\ new[Len(recs) + 1] = rec
  BY AppendAt
<1>2. x \in 1 .. Len(new) /\ new[x].job = i
  BY DEF Of
<1>3. x \in 1 .. Len(recs) \/ x = Len(recs) + 1
  BY <1>1, <1>2
<1>4. x \in 1 .. Len(recs) => x \in Of(recs, i)
  BY <1>1, <1>2 DEF Of
<1> QED BY <1>1, <1>2, <1>3, <1>4

\* The records that stay when the first is taken move up by one.
LEMMA Taken ==
    ASSUME NEW recs \in Seq(S!Record), recs # <<>>, NEW i,
           NEW new, new = Tail(recs), NEW x \in Of(new, i)
    PROVE  x \in Nat /\ x >= 1 /\ x + 1 \in Of(recs, i) /\ new[x] = recs[x + 1]
<1>1. /\ Len(recs) \in Nat \ {0} /\ Len(new) = Len(recs) - 1
      /\ \A y \in 1 .. Len(recs) - 1 : new[y] = recs[y + 1]
  BY TailAt
<1>2. x \in 1 .. Len(new) /\ new[x].job = i
  BY DEF Of
<1>3. x \in 1 .. Len(recs) - 1 /\ x + 1 \in 1 .. Len(recs) /\ x \in Nat /\ x >= 1
  BY <1>1, <1>2
<1> QED BY <1>1, <1>2, <1>3 DEF Of

\* A row gets an outcome from the finish record that its job made.
LEMMA VerdictsStep ==
    ASSUME Inv, [Next]_vars, NEW i \in Jobs
    PROVE  Verdicts(i)'
<1> USE DEF Verdicts, Outcomes, S!Outcomes
<1>0. /\ TypeOK /\ S!TypeOK /\ Life(i) /\ Verdicts(i)
      /\ phase[i] = "new" => row[i] = "none"
      /\ phase[i] = "running" =>
            /\ row[i] \in {"none", "running"}
            /\ \A x \in Of(ch, i) : ch[x].end = "none"
            /\ Of(fin, i) = {}
  BY StoreFacts DEF Inv, JobInv
<1> USE DEF storeVars, jobVars
<1>a. ASSUME UNCHANGED <<row, phase, jpc, verdict, ch, fin>> PROVE Verdicts(i)'
  BY <1>0, <1>a DEF Of
<1>b. ch \in Seq(S!Record)
  BY <1>0 DEF S!TypeOK
<1>1. ASSUME NEW j \in Jobs, Execute(j) PROVE Verdicts(i)'
  BY <1>0, <1>1 DEF Execute, TypeOK, Of, Life
<1>2. ASSUME NEW j \in Jobs, EnqueueJob(j) PROVE Verdicts(i)'
  BY <1>0, <1>2 DEF EnqueueJob, S!EnqueueJob, S!queueVars, S!TypeOK, TypeOK, Of, Life
<1>3. ASSUME NEW j \in Jobs, NEW s \in Streams, WriteLine(j, s) PROVE Verdicts(i)'
  BY <1>3, <1>a DEF WriteLine, CompleteLine
<1>4. ASSUME NEW j \in Jobs, ErrorLine(j) PROVE Verdicts(i)'
  BY <1>0, <1>4 DEF ErrorLine, CompleteLine, TypeOK, Of
<1>5. ASSUME NEW j \in Jobs, NEW s \in Streams, TryEnqueueLine(j, s) PROVE Verdicts(i)'
  <2>1. PICK n \in 1 .. MaxSeq :
           /\ ch' = ch \/ ch' = Append(ch, S!LineRec(j, n))
           /\ UNCHANGED <<row, phase, jpc, verdict, fin>>
    BY <1>5 DEF TryEnqueueLine, S!TryEnqueueLine, S!dbVars
  <2>2. S!LineRec(j, n) \in S!Record /\ S!LineRec(j, n).end = "none"
    BY RegistryAssumption DEF S!LineRec, S!Record
  <2>3. ASSUME NEW x \in Of(ch', i) PROVE ch'[x].end \in {"none", verdict[i]}
    <3>1. CASE ch' = ch
      BY <1>0, <3>1
    <3>2. CASE ch' = Append(ch, S!LineRec(j, n))
      <4>1. \/ x \in Of(ch, i) /\ ch'[x] = ch[x]
            \/ ch'[x] = S!LineRec(j, n) /\ S!LineRec(j, n).job = i
        BY <1>b, <2>2, <3>2, Appended DEF Of
      <4> QED BY <1>0, <2>2, <4>1
    <3> QED BY <2>1, <3>1, <3>2
  <2> QED BY <1>0, <2>1, <2>3 DEF Of
<1>6. ASSUME NEW j \in Jobs, Classify(j) PROVE Verdicts(i)'
  <2>1. /\ jpc[j] = "run" /\ phase[j] = "running"
        /\ UNCHANGED <<row, phase, ch, fin>>
        /\ jpc' = [jpc EXCEPT ![j] = "exit"]
        /\ i # j => verdict'[i] = verdict[i]
    BY <1>0, <1>6 DEF Classify, TypeOK, Inv, JobInv, Life
  <2>2. Of(ch, i)' = Of(ch, i) /\ Of(fin, i)' = Of(fin, i)
    BY <2>1 DEF Of
  <2>3. CASE i = j
    BY <1>0, <2>1, <2>2, <2>3
  <2>4. CASE i # j
    BY <1>0, <2>1, <2>2, <2>4 DEF TypeOK
  <2> QED BY <2>3, <2>4
<1>7. ASSUME NEW j \in Jobs, SetState(j) PROVE Verdicts(i)'
  BY <1>0, <1>7 DEF SetState, TypeOK, Of
<1>8. ASSUME NEW j \in Jobs, SetFinishedAt(j) PROVE Verdicts(i)'
  BY <1>0, <1>8 DEF SetFinishedAt, TypeOK, Of
<1>9. ASSUME NEW j \in Jobs, FinishJob(j) PROVE Verdicts(i)'
  <2>1. /\ ch' = ch \/ ch' = Append(ch, S!FinishRec(j, verdict[j]))
        /\ phase[j] = "running" /\ phase' = [phase EXCEPT ![j] = "over"]
        /\ jpc[j] = "stamped" /\ jpc' = [jpc EXCEPT ![j] = "over"]
        /\ UNCHANGED <<row, verdict, fin>>
    BY <1>9 DEF FinishJob, S!FinishJob, S!dbVars
  <2>2. /\ S!FinishRec(j, verdict[j]) \in S!Record
        /\ S!FinishRec(j, verdict[j]).end = verdict[j]
        /\ S!FinishRec(j, verdict[j]).job = j
    BY <1>0, RegistryAssumption DEF S!FinishRec, S!Record, TypeOK
  <2>3. ASSUME NEW x \in Of(ch', i) PROVE ch'[x].end \in {"none", verdict[i]}
    <3>1. CASE ch' = ch
      BY <1>0, <3>1
    <3>2. CASE ch' = Append(ch, S!FinishRec(j, verdict[j]))
      <4>1. \/ x \in Of(ch, i) /\ ch'[x] = ch[x]
            \/ ch'[x] = S!FinishRec(j, verdict[j]) /\ S!FinishRec(j, verdict[j]).job = i
        BY <1>b, <2>2, <3>2, Appended DEF Of
      <4> QED BY <1>0, <2>2, <4>1
    <3> QED BY <2>1, <3>1, <3>2
  <2> QED BY <1>0, <2>1, <2>3 DEF Of, TypeOK, S!TypeOK
<1>10. ASSUME NEW j \in Jobs, HourPasses(j) PROVE Verdicts(i)'
  BY <1>10, <1>a DEF HourPasses
<1>11. CASE Writer
  <2>1. CASE S!TakeLine
    <3>1. \A x \in Of(ch', i) : ch'[x].end \in {"none", verdict[i]}
      BY <1>0, <1>b, <2>1, Taken DEF S!TakeLine, Of
    <3> QED BY <1>0, <1>11, <2>1, <3>1 DEF Writer, S!TakeLine, S!dbVars, S!clientVars, Of
  <2>2. CASE S!TakeFinish
    <3>1. \A x \in Of(ch', i) : ch'[x].end \in {"none", verdict[i]}
      BY <1>0, <1>b, <2>2, Taken DEF S!TakeFinish, Of
    <3>2. fin' = <<ch[1]>> /\ ch[1].end # "none" /\ Len(ch) \in Nat \ {0}
      BY <1>0, <2>2, TailAt DEF S!TakeFinish, S!TypeOK, S!IsFinish
    <3>3. \A x \in Of(fin, i)' : fin'[x].end = verdict[i]
      BY <1>0, <3>2 DEF Of
    <3> QED BY <1>0, <1>11, <2>2, <3>1, <3>3
            DEF Writer, S!TakeFinish, S!dbVars, S!clientVars
  <2>3. CASE S!Tick \/ S!FlushBatch \/ S!FlushBeforeFinish
    BY <1>11, <2>3, <1>a DEF Writer, S!Tick, S!FlushBatch, S!FlushBeforeFinish, S!Flush,
       S!dbVars, S!clientVars
  <2>4. CASE S!UpdateRow
    <3>1. /\ UNCHANGED <<ch, phase, jpc, verdict>>
          /\ fin' = <<>> /\ wpc = "update"
          /\ \/ row' = row
             \/ row' = [row EXCEPT ![Head(fin).job] = IF @ = "none" THEN @ ELSE Head(fin).end]
      BY <1>11, <2>4 DEF Writer, S!UpdateRow, S!clientVars
    <3>2. Len(fin) = 1 /\ Head(fin) = fin[1] /\ fin[1] \in S!Record
      <4>1. fin \in Seq(S!Record) /\ Len(fin) = 1
        BY <1>0, <3>1 DEF S!TypeOK
      <4> QED BY <4>1, TailAt
    <3>3. Head(fin).job = i => Head(fin).end = verdict[i]
      BY <1>0, <3>2 DEF Of
    <3>4. row'[i] = row[i] \/ (Head(fin).job = i /\ row'[i] = verdict[i])
      BY <1>0, <3>1, <3>2, <3>3 DEF S!TypeOK, S!Record
    <3>5. Of(fin, i)' = {} /\ Of(ch, i)' = Of(ch, i)
      BY <3>1 DEF Of
    <3>6. verdict[i] \in Outcomes
      BY <1>0 DEF TypeOK
    <3> QED BY <1>0, <3>1, <3>4, <3>5, <3>6
  <2> QED BY <1>11, <2>1, <2>2, <2>3, <2>4 DEF Writer
<1>12. ASSUME NEW D \in SUBSET Jobs, Retention(D) PROVE Verdicts(i)'
  BY <1>0, <1>12 DEF Retention, S!Retention, S!queueVars, S!clientVars, S!TypeOK, Of
<1>13. CASE Prune
  BY <1>13, <1>a DEF Prune
<1>14. ASSUME NEW c \in Callers, Call(c) PROVE Verdicts(i)'
  BY <1>14, CallFrame, <1>a
<1>15. CASE Crash
  BY <1>0, <1>15 DEF Crash, S!Crash, S!Stop, S!dbVars, TypeOK, S!TypeOK, Of, Life
<1>16. CASE OpenStore
  BY <1>0, <1>16 DEF OpenStore, S!OpenStore, S!recover, S!clientVars, S!TypeOK, Of, Life
<1>17. CASE UNCHANGED vars
  BY <1>17, <1>a DEF vars
<1> QED BY <1>1, <1>2, <1>3, <1>4, <1>5, <1>6, <1>7, <1>8, <1>9, <1>10, <1>11, <1>12,
        <1>13, <1>14, <1>15, <1>16, <1>17 DEF Next, Goroutine

-----------------------------------------------------------------------------
(* The way of a line from its stream through the queue to the table        *)

Books(i) ==
    Numbers(i) /\ Records(i) /\ (i \notin loose => \A s \in Streams : Order(i, s))

\* Nothing of a job moves, or its lines are deleted.
LEMMA SameBooks ==
    ASSUME NEW i \in Jobs, Books(i),
           UNCHANGED <<made, offered, late, loose, accepted, ch, batch>>,
           lines'[i] \subseteq lines[i],
           Of(fin, i) = {} => Of(fin, i)' = {},
           stamp'[i] = "old" =>
              stamp[i] = "old" \/ Settled(i)
    PROVE  Books(i)'
<1>1. All(i)' = All(i)
  BY DEF All
<1>2. Numbers(i)'
  BY <1>1 DEF Books, Numbers
<1>3. Of(ch, i)' = Of(ch, i) /\ Of(batch, i)' = Of(batch, i)
  BY DEF Of
<1>4. Records(i)'
  BY <1>3 DEF Books, Records, Settled
<1>5. ASSUME i \notin loose, NEW s \in Streams PROVE Order(i, s)'
  BY <1>3, <1>5 DEF Books, Order, Before, Queued, Waiting, Sorted
<1> QED BY <1>2, <1>4, <1>5 DEF Books

\* A crash empties the queue.
LEMMA CrashBooks ==
    ASSUME NEW i \in Jobs, Books(i), UNCHANGED <<made, offered, loose, accepted, lines>>,
           ch' = <<>>, batch' = <<>>, fin' = <<>>
    PROVE  Books(i)'
<1>1. All(i)' = All(i)
  BY DEF All
<1>2. Numbers(i)'
  BY <1>1 DEF Books, Numbers
<1>3. Of(ch, i)' = {} /\ Of(batch, i)' = {} /\ Of(fin, i)' = {}
  BY DEF Of
<1>4. Records(i)'
  BY <1>3 DEF Records, Settled
<1>5. ASSUME i \notin loose, NEW s \in Streams PROVE Order(i, s)'
  BY <1>3, <1>5 DEF Books, Order, Before, Queued, Waiting, Sorted
<1> QED BY <1>2, <1>4, <1>5 DEF Books

\* A completed line is above all that are on their way.
LEMMA CompleteBooks ==
    ASSUME TypeOK, NEW j \in Jobs, NEW s \in Streams, CompleteLine(j, s),
           Books(j), NEW i \in Jobs, Books(i)
    PROVE  Books(i)'
<1>1. PICK x \in 1 .. MaxSeq :
         /\ x = Cardinality(All(j)) + 1
         /\ \A n \in All(j) : n < x
         /\ made'[j][s] = made[j][s] \cup {x}
         /\ \A t \in Streams \ {s} : made'[j][t] = made[j][t]
         /\ \A m \in Jobs \ {j} : made'[m] = made[m] /\ All(m)' = All(m)
         /\ All(j)' = All(j) \cup {x}
         /\ Cardinality(All(j)') = x
  BY NewLine DEF Books
<1>2. UNCHANGED <<offered, late, loose, accepted, lines, ch, batch, fin, stamp>>
  BY DEF CompleteLine, storeVars
<1>3. /\ Of(ch, i)' = Of(ch, i) /\ Of(batch, i)' = Of(batch, i)
      /\ Of(fin, i)' = Of(fin, i)
  BY <1>2 DEF Of
<1>4. Records(i)'
  BY <1>2, <1>3 DEF Books, Records, Settled
<1>5. CASE i # j
  <2>1. Numbers(i)'
    BY <1>1, <1>2, <1>5 DEF Books, Numbers
  <2>2. ASSUME i \notin loose, NEW t \in Streams PROVE Order(i, t)'
    BY <1>1, <1>2, <1>3, <1>5, <2>2 DEF Books, Order, Before, Queued, Waiting, Sorted
  <2> QED BY <1>2, <1>4, <2>1, <2>2 DEF Books
<1>6. CASE i = j
  <2>0. /\ All(j) = made[j]["stdout"] \cup made[j]["stderr"]
        /\ All(j) \subseteq 1 .. MaxSeq
        /\ Cardinality(All(j)) \in Nat
    BY AllFacts
  <2>a. x \in Nat /\ \A n \in All(j) : n \in Nat /\ n >= 1
    BY <2>0, RegistryAssumption
  <2>1. x \notin All(j) /\ \A n \in All(j) : n \in Nat /\ n >= 1
    BY <1>1, <2>a
  <2>2. Numbers(j)'
    <3>1. All(j)' \subseteq 1 .. Cardinality(All(j)')
      BY <1>1, <2>1
    <3>2. (made[j]["stdout"] \cap made[j]["stderr"])' = {}
      BY <1>1, <2>0, <2>1 DEF Books, Numbers, Streams
    <3> QED BY <1>1, <1>2, <3>1, <3>2 DEF Books, Numbers
  <2>3. ASSUME j \notin loose, NEW t \in Streams PROVE Order(j, t)'
    <3> USE <2>3
    <3>1. /\ lines[j] \subseteq All(j) /\ offered[j] \subseteq All(j)
          /\ \A y \in Of(batch, j) : batch[y].seq \in All(j)
          /\ \A y \in Of(ch, j) : ch[y].seq \in All(j) \cup {0}
      BY DEF Books, Numbers, Records
    <3>2. \A n \in All(j) \cup {0} : n \in made'[j][t] <=> n \in made[j][t]
      BY <1>1, <2>1
    <3>3. /\ (lines[j] \cap made[j][t])' = lines[j] \cap made[j][t]
          /\ Queued(batch, j, t)' = Queued(batch, j, t)
          /\ Queued(ch, j, t)' = Queued(ch, j, t)
      BY <1>2, <1>3, <1>6, <3>1, <3>2 DEF Queued
    <3>4. Sorted(batch, j, t)' /\ Sorted(ch, j, t)'
      BY <1>2, <1>3, <1>6, <3>1, <3>2 DEF Books, Order, Sorted
    <3>5. \A n \in Waiting(j, t)' : n \in Waiting(j, t) \/ n = x
      BY <1>1, <1>2 DEF Waiting
    <3>6. made[j][t] \subseteq All(j)
      BY <2>0 DEF Streams
    <3> QED BY <1>1, <1>6, <3>3, <3>4, <3>5, <3>6 DEF Books, Order, Before, Queued
  <2> QED BY <1>2, <1>4, <1>6, <2>2, <2>3 DEF Books
<1> QED BY <1>5, <1>6

\* A line is offered, of a tidy job the least of its stream that waits.
LEMMA TryEnqueueBooks ==
    ASSUME TypeOK, NEW j \in Jobs, NEW s \in Streams, TryEnqueueLine(j, s), Life(j),
           Books(j), NEW i \in Jobs, Books(i)
    PROVE  Books(i)'
<1>1. Waiting(j, s) \in SUBSET (1 .. MaxSeq)
  BY DEF Waiting, TypeOK
<1>3. PICK n \in Waiting(j, s) :
         /\ j \in loose \/ n = Min(Waiting(j, s))
         /\ S!TryEnqueueLine(j, n) /\ UNCHANGED <<loose, made, stamp>>
  BY DEF TryEnqueueLine, Waiting, jobVars
<1>2. n \in 1 .. MaxSeq /\ (j \notin loose => \A y \in Waiting(j, s) : n <= y)
  BY <1>1, <1>3, MinFacts
<1> DEFINE rec == S!LineRec(j, n)
<1>4. rec \in S!Record /\ rec.job = j /\ rec.seq = n
  BY <1>2, RegistryAssumption DEF S!LineRec, S!Record
<1>5. /\ phase[j] \in {"running", "over"}
      /\ late' = [late EXCEPT ![j] = IF phase[j] = "over" THEN late[j] \cup {n} ELSE late[j]]
      /\ offered' = [offered EXCEPT ![j] = offered[j] \cup {n}]
      /\ \/ ch' = ch /\ accepted' = accepted
         \/ ch' = Append(ch, rec) /\ accepted' = [accepted EXCEPT ![j] = accepted[j] \cup {n}]
      /\ UNCHANGED <<batch, fin, lines>>
  BY <1>3 DEF S!TryEnqueueLine, S!dbVars
<1>6. S!TypeOK /\ ch \in Seq(S!Record) /\ Len(ch) \in Nat
  BY DEF TypeOK, S!TypeOK
<1> HIDE DEF rec
<1>7. ASSUME NEW x \in Of(ch', i)
      PROVE  \/ x \in Of(ch, i) /\ ch'[x] = ch[x]
             \/ i = j /\ x = Len(ch) + 1 /\ ch'[x] = rec
  BY <1>4, <1>5, <1>6, Appended DEF Of
<1>8. All(i)' = All(i) /\ Of(batch, i)' = Of(batch, i) /\ Of(fin, i)' = Of(fin, i)
  BY <1>3, <1>5 DEF All, Of
<1>9. /\ late[j] \subseteq late'[j]
      /\ stamp[j] = "old" => n \in late'[j]
  <2>1. stamp[j] = "old" => phase[j] = "over"
    BY DEF Life
  <2> QED BY <1>5, <1>6, <2>1 DEF S!TypeOK
<1>10. n \in made[j][s] /\ n \notin offered[j]
  BY <1>3 DEF Waiting
<1>11. CASE i # j
  <2>1. offered'[i] = offered[i] /\ accepted'[i] = accepted[i] /\ late'[i] = late[i]
    BY <1>5, <1>6, <1>11 DEF S!TypeOK
  <2>2. \A x \in Of(ch', i) : x \in Of(ch, i) /\ ch'[x] = ch[x]
    BY <1>7, <1>11
  <2>3. Numbers(i)'
    BY <1>3, <1>5, <1>8, <2>1 DEF Books, Numbers
  <2>4. Records(i)'
    BY <1>3, <1>5, <1>8, <2>1, <2>2 DEF Books, Records, Settled
  <2>5. ASSUME i \notin loose, NEW t \in Streams PROVE Order(i, t)'
    BY <2>5, <1>3, <1>5, <1>8, <2>1, <2>2 DEF Books, Order, Before, Queued, Waiting, Sorted
  <2> QED BY <1>3, <2>3, <2>4, <2>5 DEF Books
<1>12. CASE i = j
  <2>1. /\ offered'[j] = offered[j] \cup {n}
        /\ accepted'[j] \subseteq accepted[j] \cup {n}
    BY <1>5, <1>6 DEF S!TypeOK
  <2>2. n \in All(j)
    BY <1>10 DEF All
  <2>3. Numbers(j)'
    BY <1>3, <1>5, <1>8, <1>12, <2>1, <2>2 DEF Books, Numbers
  <2>4. Records(j)'
    <3>1. \A x \in Of(ch', j) : ch'[x].seq \in offered'[j] \cup {0}
      BY <1>4, <1>7, <1>12, <2>1 DEF Books, Records
    <3>2. \A x \in Of(batch, j) : batch[x].seq \in offered'[j]
      BY <2>1 DEF Books, Records
    <3>3. stamp[j] = "old" =>
             /\ \A x \in Of(ch', j) : ch'[x].seq \in late'[j]
             /\ \A x \in Of(batch, j) : batch[x].seq \in late'[j]
             /\ Of(fin, j) = {}
      BY <1>4, <1>7, <1>9, <1>12 DEF Books, Records, Settled
    <3>4. Of(ch, j)' = Of(ch', j)
      BY DEF Of
    <3> QED BY <1>3, <1>5, <1>8, <1>12, <3>1, <3>2, <3>3, <3>4 DEF Records, Settled
  <2>5. ASSUME j \notin loose, NEW t \in Streams PROVE Order(j, t)'
    <3> USE <2>5
    <3>1. Queued(batch, j, t)' = Queued(batch, j, t) /\ Sorted(batch, j, t)'
      BY <1>3, <1>5, <1>8, <1>12 DEF Books, Order, Queued, Sorted
    <3>2. /\ (lines[j] \cap made[j][t])' = lines[j] \cap made[j][t]
          /\ Waiting(j, t)' \subseteq Waiting(j, t)
      BY <1>3, <1>5, <2>1 DEF Waiting
    <3>3. CASE t # s
      <4>1. n \notin made[j][t]
        BY <1>10, <3>3 DEF Books, Numbers, Streams
      <4>2. Queued(ch, j, t)' \subseteq Queued(ch, j, t)
        BY <1>3, <1>4, <1>7, <1>12, <4>1 DEF Queued
      <4>3. Sorted(ch, j, t)'
        BY <1>3, <1>4, <1>7, <1>12, <4>1 DEF Books, Order, Sorted
      <4> QED BY <3>1, <3>2, <4>2, <4>3 DEF Books, Order, Before
    <3>4. CASE t = s
      <4>1. \A y \in Queued(ch, j, t)' : y \in Queued(ch, j, t) \/ y = n
        BY <1>3, <1>4, <1>7, <1>12 DEF Queued
      <4>2. \A y \in Waiting(j, t)' : n < y
        <5>1. \A y \in Waiting(j, t)' : y \in Waiting(j, s) /\ y # n
          BY <1>3, <2>1, <3>2, <3>4 DEF Waiting
        <5>2. \A y \in Waiting(j, s) : y \in Nat
          BY <1>1, RegistryAssumption
        <5>3. n \in Nat
          BY <1>2, RegistryAssumption
        <5>4. \A y \in Waiting(j, s) : y # n => n < y
          BY <1>2, <5>2, <5>3
        <5> QED BY <5>1, <5>4, Zenon
      <4>3. Sorted(ch, j, t)'
        <5>1. \A x \in Of(ch, j) : x \in 1 .. Len(ch)
          BY DEF Of
        <5>2. ASSUME NEW x \in Of(ch', j), NEW y \in Of(ch', j), x < y,
                     ch'[x].seq \in made[j][t], ch'[y].seq \in made[j][t]
              PROVE  ch'[x].seq < ch'[y].seq
          <6>1. CASE y \in Of(ch, j) /\ ch'[y] = ch[y]
            <7>1. x \in Of(ch, j) /\ ch'[x] = ch[x]
              BY <1>6, <1>7, <1>12, <5>1, <5>2, <6>1
            <7> QED BY <5>2, <6>1, <7>1 DEF Books, Order, Sorted
          <6>2. CASE y = Len(ch) + 1 /\ ch'[y] = rec
            <7>1. x \in Of(ch, j) /\ ch'[x] = ch[x]
              BY <1>6, <1>7, <1>12, <5>1, <5>2, <6>2
            <7>2. ch[x].seq \in Queued(ch, j, t)
              BY <5>2, <7>1 DEF Queued
            <7> QED BY <1>3, <1>4, <3>4, <6>2, <7>1, <7>2 DEF Books, Order, Before
          <6> QED BY <1>7, <1>12, <6>1, <6>2
        <5> QED BY <1>3, <5>2 DEF Sorted, Of
      <4>4. /\ Before(lines[j] \cap made[j][t], Queued(ch, j, t))'
            /\ Before(Queued(batch, j, t), Queued(ch, j, t))'
        BY <1>3, <3>1, <3>2, <3>4, <4>1 DEF Books, Order, Before
      <4>5. /\ Before(lines[j] \cap made[j][t], Waiting(j, t))'
            /\ Before(Queued(batch, j, t), Waiting(j, t))'
            /\ Before(lines[j] \cap made[j][t], Queued(batch, j, t))'
        BY <3>1, <3>2 DEF Books, Order, Before
      <4>6. Before(Queued(ch, j, t), Waiting(j, t))'
        BY <3>2, <4>1, <4>2 DEF Books, Order, Before
      <4> QED BY <3>1, <4>3, <4>4, <4>5, <4>6 DEF Order
    <3> QED BY <3>3, <3>4
  <2> QED BY <1>3, <1>12, <2>3, <2>4, <2>5 DEF Books
<1> QED BY <1>11, <1>12

\* A finish record is not a line.
LEMMA FinishBooks ==
    ASSUME TypeOK, NEW j \in Jobs, FinishJob(j), Life(j), NEW i \in Jobs, Books(i)
    PROVE  Books(i)'
<1> DEFINE rec == S!FinishRec(j, verdict[j])
<1>1. rec \in S!Record /\ rec.job = j /\ rec.seq = 0
  BY RegistryAssumption DEF S!FinishRec, S!Record, TypeOK, Outcomes
<1>2. /\ phase[j] = "running" /\ (ch' = ch \/ ch' = Append(ch, rec))
      /\ UNCHANGED <<batch, fin, lines, made, stamp, offered, late, loose, accepted>>
  BY DEF FinishJob, S!FinishJob, S!dbVars
<1>3. S!TypeOK /\ ch \in Seq(S!Record) /\ Len(ch) \in Nat
  BY DEF TypeOK, S!TypeOK
<1> HIDE DEF rec
<1>4. ASSUME NEW x \in Of(ch', i)
      PROVE  \/ x \in Of(ch, i) /\ ch'[x] = ch[x]
             \/ i = j /\ ch'[x].seq = 0
  BY <1>1, <1>2, <1>3, Appended DEF Of
<1>5. All(i)' = All(i) /\ Of(batch, i)' = Of(batch, i) /\ Of(fin, i)' = Of(fin, i)
  BY <1>2 DEF All, Of
<1>6. stamp[j] # "old"
  BY <1>2 DEF Life
<1>7. Numbers(i)'
  BY <1>2, <1>5 DEF Books, Numbers
<1>8. Records(i)'
  BY <1>2, <1>4, <1>5, <1>6 DEF Books, Records, Settled
<1>9. ASSUME i \notin loose, NEW t \in Streams PROVE Order(i, t)'
  <2>1. made[i][t] \subseteq 1 .. MaxSeq /\ 0 \notin made[i][t]
    BY RegistryAssumption DEF TypeOK
  <2> QED BY <1>2, <1>4, <1>5, <1>9, <2>1 DEF Books, Order, Before, Queued, Waiting, Sorted
<1> QED BY <1>2, <1>7, <1>8, <1>9 DEF Books

\* The writer takes the first record of the queue.
LEMMA TakeLineBooks ==
    ASSUME TypeOK, SP!Inv, S!TakeLine, UNCHANGED jobVars, NEW i \in Jobs, Books(i)
    PROVE  Books(i)'
<1>1. /\ ch # <<>> /\ ch' = Tail(ch) /\ batch' = Append(batch, Head(ch))
      /\ ~S!IsFinish(Head(ch))
      /\ UNCHANGED <<fin, lines, made, stamp, offered, late, loose, accepted>>
  BY DEF S!TakeLine, S!dbVars, S!clientVars, jobVars
<1>2. /\ ch \in Seq(S!Record) /\ batch \in Seq(S!Record)
      /\ Len(ch) \in Nat /\ Len(batch) \in Nat
  BY DEF TypeOK, S!TypeOK
<1>3. Head(ch) = ch[1] /\ ch[1] \in S!Record /\ 1 \in 1 .. Len(ch) /\ ch[1].seq # 0
  <2>1. Head(ch) = ch[1] /\ ch[1] \in S!Record /\ 1 \in 1 .. Len(ch)
    BY <1>1, <1>2, TailAt
  <2> QED BY <1>1, <2>1, StoreFacts DEF S!IsFinish
<1>4. ASSUME NEW x \in Of(ch', i)
      PROVE  x \in Nat /\ x >= 1 /\ x + 1 \in Of(ch, i) /\ ch'[x] = ch[x + 1]
  BY <1>1, <1>2, Taken DEF Of
<1>5. ASSUME NEW x \in Of(batch', i)
      PROVE  \/ x \in Of(batch, i) /\ batch'[x] = batch[x]
             \/ x = Len(batch) + 1 /\ batch'[x] = ch[1] /\ 1 \in Of(ch, i)
  BY <1>1, <1>2, <1>3, Appended DEF Of
<1>6. All(i)' = All(i) /\ Of(fin, i)' = Of(fin, i)
  BY <1>1 DEF All, Of
<1>7. Numbers(i)'
  BY <1>1, <1>6 DEF Books, Numbers
<1>8. Records(i)'
  <2>1. \A x \in Of(ch', i) : ch'[x].seq \in offered[i] \cup {0}
    BY <1>4 DEF Books, Records
  <2>2. \A x \in Of(batch', i) : batch'[x].seq \in offered[i]
    BY <1>3, <1>5 DEF Books, Records
  <2>3. stamp[i] = "old" =>
           /\ \A x \in Of(ch', i) : ch'[x].seq \in late[i]
           /\ \A x \in Of(batch', i) : batch'[x].seq \in late[i]
           /\ Of(fin, i) = {}
    BY <1>4, <1>5 DEF Books, Records, Settled
  <2>4. Of(ch, i)' = Of(ch', i) /\ Of(batch, i)' = Of(batch', i)
    BY DEF Of
  <2> QED BY <1>1, <1>6, <2>1, <2>2, <2>3, <2>4 DEF Records, Settled
<1>9. ASSUME i \notin loose, NEW t \in Streams PROVE Order(i, t)'
  <2> USE <1>9
  <2>1. ASSUME NEW y \in Queued(ch', i, t)
        PROVE  \E x \in Of(ch, i) : x > 1 /\ ch[x].seq = y /\ y \in made[i][t]
    <3>1. PICK x \in Of(ch', i) : ch'[x].seq = y /\ y \in made[i][t]
      BY DEF Queued
    <3>2. x + 1 \in Of(ch, i) /\ x + 1 > 1 /\ ch[x + 1].seq = y
      BY <1>4, <3>1
    <3> QED BY <3>1, <3>2
  <2>2. \A y \in Queued(batch', i, t) :
           y \in Queued(batch, i, t) \/ (y = ch[1].seq /\ 1 \in Of(ch, i) /\ y \in made[i][t])
    BY <1>1, <1>5 DEF Queued
  <2>3. Sorted(ch', i, t)
    <3>1. ASSUME NEW x \in Of(ch', i), NEW y \in Of(ch', i), x < y,
                 ch'[x].seq \in made[i][t], ch'[y].seq \in made[i][t]
          PROVE  ch'[x].seq < ch'[y].seq
      <4>1. /\ x + 1 \in Of(ch, i) /\ ch'[x] = ch[x + 1] /\ x \in Nat
            /\ y + 1 \in Of(ch, i) /\ ch'[y] = ch[y + 1] /\ y \in Nat
        BY <1>4
      <4>2. x + 1 < y + 1
        BY <3>1, <4>1
      <4> QED BY <3>1, <4>1, <4>2 DEF Books, Order, Sorted
    <3> QED BY <3>1 DEF Sorted
  <2>4. Sorted(batch', i, t)
    <3>1. \A x \in Of(batch, i) : x \in 1 .. Len(batch)
      BY DEF Of
    <3>2. ASSUME NEW x \in Of(batch', i), NEW y \in Of(batch', i), x < y,
                 batch'[x].seq \in made[i][t], batch'[y].seq \in made[i][t]
          PROVE  batch'[x].seq < batch'[y].seq
      <4>1. x \in Of(batch, i) /\ batch'[x] = batch[x]
        BY <1>2, <1>5, <3>1, <3>2
      <4>2. CASE y \in Of(batch, i) /\ batch'[y] = batch[y]
        BY <3>2, <4>1, <4>2 DEF Books, Order, Sorted
      <4>3. CASE batch'[y] = ch[1] /\ 1 \in Of(ch, i)
        <5>1. batch[x].seq \in Queued(batch, i, t) /\ ch[1].seq \in Queued(ch, i, t)
          BY <3>2, <4>1, <4>3 DEF Queued
        <5> QED BY <4>1, <4>3, <5>1 DEF Books, Order, Before
      <4> QED BY <1>5, <4>2, <4>3
    <3> QED BY <1>1, <3>2 DEF Sorted
  <2>5. /\ Queued(ch', i, t) \subseteq Queued(ch, i, t)
        /\ Queued(batch', i, t) \subseteq Queued(batch, i, t) \cup Queued(ch, i, t)
    BY <2>1, <2>2 DEF Queued
  <2>6. Before(Queued(batch', i, t), Queued(ch', i, t))
    <3>1. ASSUME NEW y \in Queued(ch', i, t), 1 \in Of(ch, i), ch[1].seq \in made[i][t]
          PROVE  ch[1].seq < y
      <4>1. PICK x \in Of(ch, i) : x > 1 /\ ch[x].seq = y /\ y \in made[i][t]
        BY <2>1
      <4> QED BY <3>1, <4>1 DEF Books, Order, Sorted
    <3> QED BY <2>2, <2>5, <3>1 DEF Books, Order, Before
  <2>7. /\ Before(lines[i] \cap made[i][t], Queued(batch', i, t))
        /\ Before(lines[i] \cap made[i][t], Queued(ch', i, t))
        /\ Before(Queued(batch', i, t), Waiting(i, t))
        /\ Before(Queued(ch', i, t), Waiting(i, t))
    BY <2>5 DEF Books, Order, Before
  <2>8. /\ Queued(ch, i, t)' = Queued(ch', i, t) /\ Queued(batch, i, t)' = Queued(batch', i, t)
        /\ Waiting(i, t)' = Waiting(i, t)
        /\ Sorted(batch, i, t)' = Sorted(batch', i, t) /\ Sorted(ch, i, t)' = Sorted(ch', i, t)
    BY <1>1 DEF Queued, Waiting, Sorted, Of
  <2>9. lines' = lines /\ made' = made /\ Before(lines[i] \cap made[i][t], Waiting(i, t))
    BY <1>1 DEF Books, Order
  <2> QED BY <2>3, <2>4, <2>6, <2>7, <2>8, <2>9 DEF Order, Before
<1> QED BY <1>1, <1>7, <1>8, <1>9 DEF Books

\* The writer takes a finish record.
LEMMA TakeFinishBooks ==
    ASSUME TypeOK, SP!Inv, S!TakeFinish, UNCHANGED jobVars, NEW i \in Jobs, Books(i)
    PROVE  Books(i)'
<1>1. /\ ch # <<>> /\ ch' = Tail(ch) /\ fin' = <<Head(ch)>>
      /\ S!IsFinish(Head(ch))
      /\ UNCHANGED <<batch, lines, made, stamp, offered, late, loose, accepted>>
  BY DEF S!TakeFinish, S!dbVars, S!clientVars, jobVars
<1>2. ch \in Seq(S!Record) /\ Len(ch) \in Nat
  BY DEF TypeOK, S!TypeOK
<1>3. Head(ch) = ch[1] /\ 1 \in 1 .. Len(ch)
  BY <1>1, <1>2, TailAt
<1>4. ASSUME NEW x \in Of(ch', i)
      PROVE  x \in Nat /\ x >= 1 /\ x + 1 \in Of(ch, i) /\ ch'[x] = ch[x + 1]
  BY <1>1, <1>2, Taken DEF Of
<1>5. ASSUME \A x \in Of(ch, i) : ch[x].seq \in late[i] PROVE Of(fin', i) = {}
  <2>1. ch[1].seq = 0
    BY <1>1, <1>3, StoreFacts DEF S!IsFinish
  <2>2. 0 \notin late[i]
    BY RegistryAssumption DEF TypeOK, S!TypeOK
  <2> QED BY <1>1, <1>3, <1>5, <2>1, <2>2 DEF Of
<1>6. All(i)' = All(i) /\ Of(batch, i)' = Of(batch, i)
  BY <1>1 DEF All, Of
<1>7. Numbers(i)'
  BY <1>1, <1>6 DEF Books, Numbers
<1>8. Records(i)'
  <2>1. \A x \in Of(ch', i) : ch'[x].seq \in offered[i] \cup {0}
    BY <1>4 DEF Books, Records
  <2>2. stamp[i] = "old" =>
           /\ \A x \in Of(ch', i) : ch'[x].seq \in late[i]
           /\ \A x \in Of(batch, i) : batch[x].seq \in late[i]
           /\ Of(fin', i) = {}
    BY <1>4, <1>5 DEF Books, Records, Settled
  <2>3. Of(ch, i)' = Of(ch', i) /\ Of(fin, i)' = Of(fin', i)
    BY DEF Of
  <2> QED BY <1>1, <1>6, <2>1, <2>2, <2>3 DEF Books, Records, Settled
<1>9. ASSUME i \notin loose, NEW t \in Streams PROVE Order(i, t)'
  <2> USE <1>9
  <2>1. ASSUME NEW y \in Queued(ch', i, t) PROVE y \in Queued(ch, i, t)
    <3>1. PICK x \in Of(ch', i) : ch'[x].seq = y /\ y \in made[i][t]
      BY DEF Queued
    <3>2. x + 1 \in Of(ch, i) /\ ch[x + 1].seq = y
      BY <1>4, <3>1
    <3> QED BY <3>1, <3>2 DEF Queued
  <2>2. Sorted(ch', i, t)
    <3>1. ASSUME NEW x \in Of(ch', i), NEW y \in Of(ch', i), x < y,
                 ch'[x].seq \in made[i][t], ch'[y].seq \in made[i][t]
          PROVE  ch'[x].seq < ch'[y].seq
      <4>1. /\ x + 1 \in Of(ch, i) /\ ch'[x] = ch[x + 1] /\ x \in Nat
            /\ y + 1 \in Of(ch, i) /\ ch'[y] = ch[y + 1] /\ y \in Nat
        BY <1>4
      <4>2. x + 1 < y + 1
        BY <3>1, <4>1
      <4> QED BY <3>1, <4>1, <4>2 DEF Books, Order, Sorted
    <3> QED BY <3>1 DEF Sorted
  <2>3. /\ Queued(ch, i, t)' = Queued(ch', i, t)
        /\ Queued(batch, i, t)' = Queued(batch, i, t)
        /\ Waiting(i, t)' = Waiting(i, t)
        /\ Sorted(batch, i, t)' = Sorted(batch, i, t) /\ Sorted(ch, i, t)' = Sorted(ch', i, t)
        /\ lines' = lines /\ made' = made
    BY <1>1, <1>6 DEF Queued, Waiting, Sorted, Of
  <2> QED BY <2>1, <2>2, <2>3 DEF Books, Order, Before
<1> QED BY <1>1, <1>7, <1>8, <1>9 DEF Books

\* A transaction moves lines of the batch to the table.
LEMMA FlushBooks ==
    ASSUME TypeOK, NEW at, NEW next, S!Flush(at, next), UNCHANGED jobVars,
           NEW i \in Jobs, Books(i)
    PROVE  Books(i)'
<1>1. /\ batch' = <<>>
      /\ UNCHANGED <<ch, fin, made, stamp, offered, late, loose, accepted>>
  BY DEF S!Flush, S!clientVars, jobVars
<1>2. PICK k \in 0 .. Len(batch) : lines'[i] = lines[i] \cup S!Prefix(i, k)
  BY DEF S!Flush
<1>3. Len(batch) \in Nat
  BY DEF TypeOK, S!TypeOK
<1>4. ASSUME NEW n \in S!Prefix(i, k) PROVE \E x \in Of(batch, i) : batch[x].seq = n
  BY <1>2, <1>3 DEF S!Prefix, Of
<1>5. /\ All(i)' = All(i) /\ Of(ch, i)' = Of(ch, i) /\ Of(fin, i)' = Of(fin, i)
      /\ Of(batch, i)' = {}
  BY <1>1 DEF All, Of
<1>6. Numbers(i)'
  <2>1. S!Prefix(i, k) \subseteq offered[i]
    BY <1>4 DEF Books, Records
  <2> QED BY <1>1, <1>2, <1>5, <2>1 DEF Books, Numbers
<1>7. Records(i)'
  BY <1>1, <1>5 DEF Books, Records, Settled
<1>8. ASSUME i \notin loose, NEW t \in Streams PROVE Order(i, t)'
  <2> USE <1>8
  <2>1. \A n \in lines'[i] \cap made[i][t] :
           n \in lines[i] \cap made[i][t] \/ n \in Queued(batch, i, t)
    BY <1>2, <1>4 DEF Queued
  <2>2. /\ Queued(ch, i, t)' = Queued(ch, i, t) /\ Queued(batch, i, t)' = {}
        /\ Waiting(i, t)' = Waiting(i, t)
        /\ Sorted(batch, i, t)' /\ Sorted(ch, i, t)' = Sorted(ch, i, t)
        /\ made' = made
    BY <1>1, <1>5 DEF Queued, Waiting, Sorted
  <2> QED BY <2>1, <2>2 DEF Books, Order, Before
<1> QED BY <1>1, <1>6, <1>7, <1>8 DEF Books

\* Every step keeps the way of the lines in order.
LEMMA BooksStep ==
    ASSUME Inv, [Next]_vars, NEW i \in Jobs
    PROVE  Books(i)'
<1>0. /\ TypeOK /\ S!TypeOK /\ SP!Inv
      /\ \A j \in Jobs : Books(j) /\ Life(j)
  BY DEF Inv, JobInv, TypeOK, Books
<1> USE DEF storeVars, jobVars
<1>a. ASSUME UNCHANGED <<made, offered, late, loose, accepted, lines, ch, batch, fin, stamp>>
      PROVE  Books(i)'
  BY <1>0, <1>a, SameBooks DEF Of
<1>1. ASSUME NEW j \in Jobs, Execute(j) \/ EnqueueJob(j) \/ Classify(j) \/ SetState(j)
      PROVE  Books(i)'
  BY <1>1, <1>a DEF Execute, EnqueueJob, S!EnqueueJob, S!queueVars, Classify, SetState
<1>2. ASSUME NEW j \in Jobs, NEW s \in Streams, WriteLine(j, s) PROVE Books(i)'
  BY <1>0, <1>2, CompleteBooks DEF WriteLine
<1>3. ASSUME NEW j \in Jobs, ErrorLine(j) PROVE Books(i)'
  <2>1. CompleteLine(j, "stderr") /\ "stderr" \in Streams
    BY <1>3 DEF ErrorLine, Streams
  <2> QED BY <1>0, <2>1, CompleteBooks
<1>4. ASSUME NEW j \in Jobs, NEW s \in Streams, TryEnqueueLine(j, s) PROVE Books(i)'
  BY <1>0, <1>4, TryEnqueueBooks
<1>5. ASSUME NEW j \in Jobs, SetFinishedAt(j) PROVE Books(i)'
  <2>1. /\ UNCHANGED <<made, offered, late, loose, accepted, lines, ch, batch, fin>>
        /\ stamp'[i] \in {stamp[i], "recent"}
    BY <1>0, <1>5 DEF SetFinishedAt, TypeOK
  <2> QED BY <1>0, <2>1, SameBooks DEF Of
<1>6. ASSUME NEW j \in Jobs, FinishJob(j) PROVE Books(i)'
  BY <1>0, <1>6, FinishBooks
<1>7. ASSUME NEW j \in Jobs, HourPasses(j) PROVE Books(i)'
  <2>1. /\ UNCHANGED <<made, offered, late, loose, accepted, lines, ch, batch, fin>>
        /\ Settled(j)
        /\ i # j => stamp'[i] = stamp[i]
    BY <1>0, <1>7 DEF HourPasses, TypeOK, Of, Settled
  <2>2. Of(fin, i)' = Of(fin, i)
    BY <2>1 DEF Of
  <2> QED BY <1>0, <2>1, <2>2, SameBooks
<1>8. CASE Writer
  <2>1. CASE S!TakeLine
    BY <1>0, <1>8, <2>1, TakeLineBooks DEF Writer
  <2>2. CASE S!TakeFinish
    BY <1>0, <1>8, <2>2, TakeFinishBooks DEF Writer
  <2>3. CASE S!Tick
    BY <1>8, <2>3, <1>a DEF Writer, S!Tick, S!dbVars, S!clientVars
  <2>4. CASE S!FlushBatch \/ S!FlushBeforeFinish
    BY <1>0, <1>8, <2>4, FlushBooks DEF Writer, S!FlushBatch, S!FlushBeforeFinish
  <2>5. CASE S!UpdateRow
    <3>1. /\ UNCHANGED <<made, offered, late, loose, accepted, lines, ch, batch, stamp>>
          /\ fin' = <<>>
      BY <1>8, <2>5 DEF Writer, S!UpdateRow, S!clientVars
    <3>2. Of(fin, i)' = {}
      BY <3>1 DEF Of
    <3> QED BY <1>0, <3>1, <3>2, SameBooks
  <2> QED BY <1>8, <2>1, <2>2, <2>3, <2>4, <2>5 DEF Writer
<1>9. ASSUME NEW D \in SUBSET Jobs, Retention(D) PROVE Books(i)'
  <2>1. /\ UNCHANGED <<made, offered, late, loose, accepted, ch, batch, fin, stamp>>
        /\ lines'[i] \subseteq lines[i]
    BY <1>0, <1>9 DEF Retention, S!Retention, S!queueVars, S!clientVars, S!TypeOK
  <2> QED BY <1>0, <2>1, SameBooks DEF Of
<1>10. ASSUME NEW c \in Callers, Call(c) PROVE Books(i)'
  BY <1>10, <1>a, CallFrame
<1>11. CASE Crash
  BY <1>0, <1>11, CrashBooks DEF Crash, S!Crash, S!Stop, S!dbVars
<1>12. CASE OpenStore
  BY <1>12, <1>a DEF OpenStore, S!OpenStore, S!clientVars
<1>13. CASE Prune \/ UNCHANGED vars
  BY <1>13, <1>a DEF Prune, vars
<1> QED BY <1>1, <1>2, <1>3, <1>4, <1>5, <1>6, <1>7, <1>8, <1>9, <1>10, <1>11, <1>12,
        <1>13 DEF Next, Goroutine

-----------------------------------------------------------------------------
(* What a call may rely on while it is in progress                         *)

\* A job that exists moves on: it does not come back to memory, its lines and
\* what happened to them stay, and its outcome is final.
Moves(j) ==
    /\ jpc'[j] # "none"
    /\ jpc[j] \in Ended => jpc'[j] \in Ended /\ verdict'[j] = verdict[j]
    /\ jpc[j] = "gone" => jpc'[j] = "gone"
    /\ j \in mem' => j \in mem
    /\ \A s \in Streams :
          /\ made[j][s] \subseteq made'[j][s]
          /\ \A n \in All(j) : n \in made'[j][s] => n \in made[j][s]
    /\ offered[j] \subseteq offered'[j]
    /\ \A n \in offered[j] : n \in accepted'[j] => n \in accepted[j]
    /\ phase[j] # "running" => accepted'[j] \ late'[j] \subseteq accepted[j] \ late[j]
    /\ lines[j] \subseteq lines'[j] \/ row'[j] = "none"
    /\ started'[j] = started[j]
    /\ loose' = loose
    /\ spoilt[j] \subseteq spoilt'[j]
    /\ phase[j] \in {"over", "dead"} => phase'[j] = phase[j]
    /\ row[j] = "none" /\ jpc[j] # "insert" => row'[j] = "none"
    /\ row[j] \in Outcomes => row'[j] \in {row[j], "none"}
    /\ stamp'[j] = "old" => stamp[j] = "old" \/ \A c \in Callers : call[c].pc = "idle"

\* Every step but a crash moves a job on.
LEMMA MovesStep ==
    ASSUME Inv, Next, ~Crash, NEW j \in Jobs, jpc[j] # "none"
    PROVE  Moves(j)
<1>0. /\ TypeOK /\ S!TypeOK /\ SP!Inv /\ \A i \in Jobs : Life(i) /\ Books(i)
      /\ row[j] \in Outcomes => Of(fin, j) = {}
      /\ phase[j] = "new" => row[j] = "none"
  BY StoreFacts DEF Inv, JobInv, TypeOK, Books
<1> USE DEF storeVars, jobVars, Moves
<1>1. ASSUME NEW i \in Jobs, Execute(i) PROVE Moves(j)
  BY <1>0, <1>1 DEF Execute, TypeOK, Ended
<1>2. ASSUME NEW i \in Jobs, EnqueueJob(i) PROVE Moves(j)
  <2>1. /\ UNCHANGED <<loose, mem, started, made, verdict, stamp, offered, late, accepted,
                       spoilt, lines>>
        /\ jpc[i] = "insert" /\ jpc' = [jpc EXCEPT ![i] = "run"]
        /\ phase[i] = "new" /\ phase' = [phase EXCEPT ![i] = "running"]
        /\ row' = row \/ row' = [row EXCEPT ![i] = "running"]
    BY <1>2 DEF EnqueueJob, S!EnqueueJob
  <2> QED BY <1>0, <2>1 DEF S!TypeOK, TypeOK, Ended, Outcomes, S!Outcomes
<1>a. ASSUME NEW i \in Jobs, NEW t \in Streams, CompleteLine(i, t)
      PROVE  \A s \in Streams :
                /\ made[j][s] \subseteq made'[j][s]
                /\ \A n \in All(j) : n \in made'[j][s] => n \in made[j][s]
  <2>1. PICK x \in 1 .. MaxSeq :
           /\ \A n \in All(i) : n < x
           /\ made'[i][t] = made[i][t] \cup {x}
           /\ \A s \in Streams \ {t} : made'[i][s] = made[i][s]
           /\ \A m \in Jobs \ {i} : made'[m] = made[m]
    BY <1>0, <1>a, NewLine DEF Books
  <2>2. x \notin All(i)
    <3>1. All(i) \subseteq 1 .. MaxSeq
      BY <1>0, AllFacts
    <3> QED BY <2>1, <3>1, RegistryAssumption
  <2> QED BY <2>1, <2>2
<1>3. ASSUME NEW i \in Jobs, NEW t \in Streams, WriteLine(i, t) PROVE Moves(j)
  BY <1>0, <1>3, <1>a DEF WriteLine, CompleteLine
<1>4. ASSUME NEW i \in Jobs, ErrorLine(i) PROVE Moves(j)
  <2>1. CompleteLine(i, "stderr") /\ "stderr" \in Streams
    BY <1>4 DEF ErrorLine, Streams
  <2>2. \A s \in Streams :
           /\ made[j][s] \subseteq made'[j][s]
           /\ \A n \in All(j) : n \in made'[j][s] => n \in made[j][s]
    BY <2>1, <1>a
  <2>3. /\ UNCHANGED <<storeVars, loose, mem, started, verdict, stamp>>
        /\ jpc[i] = "exit" /\ jpc' = [jpc EXCEPT ![i] = "error"]
    BY <1>4 DEF ErrorLine, CompleteLine
  <2> QED BY <1>0, <2>2, <2>3 DEF TypeOK, Ended
<1>5. ASSUME NEW i \in Jobs, NEW t \in Streams, TryEnqueueLine(i, t) PROVE Moves(j)
  <2>1. PICK n \in (1 .. MaxSeq) \ offered[i] :
           /\ late' = [late EXCEPT ![i] = IF phase[i] = "over" THEN late[i] \cup {n}
                                          ELSE late[i]]
           /\ phase[i] \in {"running", "over"}
           /\ offered' = [offered EXCEPT ![i] = offered[i] \cup {n}]
           /\ \/ accepted' = accepted
              \/ accepted' = [accepted EXCEPT ![i] = accepted[i] \cup {n}]
           /\ UNCHANGED <<jobVars, row, lines, phase, spoilt>>
    BY <1>5 DEF TryEnqueueLine, S!TryEnqueueLine, S!dbVars
  <2>2. /\ offered[j] \subseteq offered'[j]
        /\ \A m \in offered[j] : m \in accepted'[j] => m \in accepted[j]
        /\ phase[j] # "running" => accepted'[j] \ late'[j] \subseteq accepted[j] \ late[j]
    BY <1>0, <2>1 DEF S!TypeOK
  <2> QED BY <2>1, <2>2
<1>6. ASSUME NEW i \in Jobs, Classify(i) \/ SetState(i) \/ SetFinishedAt(i) PROVE Moves(j)
  BY <1>0, <1>6 DEF Classify, SetState, SetFinishedAt, TypeOK, Ended
<1>7. ASSUME NEW i \in Jobs, FinishJob(i) PROVE Moves(j)
  BY <1>0, <1>7 DEF FinishJob, S!FinishJob, S!dbVars, S!TypeOK, TypeOK, Ended
<1>8. ASSUME NEW i \in Jobs, HourPasses(i) PROVE Moves(j)
  BY <1>0, <1>8 DEF HourPasses, TypeOK, Ended
<1>9. CASE Writer
  <2>1. UNCHANGED <<jobVars, phase, offered, late, accepted>>
    BY <1>9 DEF Writer, S!TakeLine, S!TakeFinish, S!Tick, S!FlushBatch,
       S!FlushBeforeFinish, S!Flush, S!UpdateRow, S!clientVars
  <2>2. spoilt[j] \subseteq spoilt'[j] /\ lines[j] \subseteq lines'[j]
    BY <1>9 DEF Writer, S!TakeLine, S!TakeFinish, S!Tick, S!FlushBatch,
       S!FlushBeforeFinish, S!Flush, S!UpdateRow, S!dbVars
  <2>3. row[j] = "none" \/ row[j] \in Outcomes => row'[j] = row[j]
    <3>1. CASE row' = row
      BY <3>1
    <3>2. CASE S!UpdateRow
      <4>1. Len(fin) = 1 /\ Head(fin) = fin[1] /\ fin[1] \in S!Record
        <5>1. fin \in Seq(S!Record) /\ Len(fin) = 1
          BY <1>0, <3>2 DEF S!TypeOK, S!UpdateRow
        <5> QED BY <5>1, TailAt
      <4>2. Head(fin).job = j => Of(fin, j) # {}
        BY <4>1 DEF Of
      <4>3. \/ row' = row
            \/ row' = [row EXCEPT ![Head(fin).job] = IF @ = "none" THEN @ ELSE Head(fin).end]
        BY <3>2 DEF S!UpdateRow
      <4> QED BY <1>0, <4>2, <4>3 DEF S!TypeOK
    <3> QED BY <1>9, <3>1, <3>2 DEF Writer, S!TakeLine, S!TakeFinish, S!Tick, S!FlushBatch,
            S!FlushBeforeFinish, S!Flush, S!dbVars
  <2> QED BY <2>1, <2>2, <2>3
<1>10. ASSUME NEW D \in SUBSET Jobs, Retention(D) PROVE Moves(j)
  BY <1>0, <1>10 DEF Retention, S!Retention, S!queueVars, S!clientVars, S!TypeOK
<1>11. CASE Prune
  BY <1>0, <1>11 DEF Prune
<1>12. ASSUME NEW c \in Callers, Call(c) PROVE Moves(j)
  BY <1>12, CallFrame
<1>13. CASE OpenStore
  BY <1>0, <1>13 DEF OpenStore, S!OpenStore, S!recover, S!clientVars, S!TypeOK, Outcomes,
     S!Outcomes
<1> QED BY <1>1, <1>2, <1>3, <1>4, <1>5, <1>6, <1>7, <1>8, <1>9, <1>10, <1>11, <1>12,
        <1>13 DEF Next, Goroutine

\* A ring only loses lines that it has held.
LEMMA RingMoves ==
    ASSUME TypeOK, TypeOK', NEW j \in Jobs, Moves(j), NEW s \in Streams,
           NEW n \in All(j), n \notin Recs(j, s)
    PROVE  n \notin Recs(j, s)'
<1> DEFINE above == {k \in made[j][s] : k > n}
           later == {k \in made'[j][s] : k > n}
<1>1. CASE n \notin made[j][s]
  <2>1. n \notin made'[j][s]
    BY <1>1 DEF Moves
  <2> QED BY <2>1 DEF Recs, Last
<1>2. CASE n \in made[j][s]
  <2>1. above \subseteq later
    BY DEF Moves
  <2>2. IsFiniteSet(later) /\ Cardinality(later) \in Nat
    <3>2. later \subseteq 1 .. MaxSeq
      BY DEF TypeOK
    <3> QED BY <3>2, LinesFinite, FS_Subset, FS_CardinalityType
  <2>3. Cardinality(above) <= Cardinality(later) /\ Cardinality(above) \in Nat
    BY <2>1, <2>2, FS_Subset, FS_CardinalityType
  <2>4. ~(Cardinality(above) < MemLines)
    BY <1>2 DEF Recs, Last
  <2>5. ~(Cardinality(later) < MemLines)
    BY <2>2, <2>3, <2>4, RegistryAssumption
  <2> QED BY <2>5 DEF Recs, Last
<1> QED BY <1>1, <1>2

\* A line that need not be shown stays so.
LEMMA MissingMoves ==
    ASSUME Inv, NEW j \in Jobs, Moves(j), NEW n \in All(j), Missing(j, n)
    PROVE  Missing(j, n)'
<1>1. jpc[j] # "insert"
  BY DEF Inv, JobInv, Life
<1>2. n \in Dropped(j) => n \in Dropped(j)'
  BY DEF Dropped, Moves
<1> QED BY <1>1, <1>2 DEF Missing, Moves

\* More lines are above a line when the table has more.
LEMMA MoreAbove ==
    ASSUME NEW T \in SUBSET (1 .. MaxSeq), NEW U \in SUBSET T, NEW n
    PROVE  /\ Cardinality({m \in T : m > n}) \in Nat
           /\ Cardinality({m \in U : m > n}) \in Nat
           /\ Cardinality({m \in U : m > n}) <= Cardinality({m \in T : m > n})
<1> DEFINE A == {m \in U : m > n}
           B == {m \in T : m > n}
<1>1. A \subseteq B /\ B \subseteq 1 .. MaxSeq
  OBVIOUS
<1> HIDE DEF A, B
<1>2. IsFiniteSet(B)
  BY <1>1, LinesFinite, FS_Subset
<1>3. IsFiniteSet(A) /\ Cardinality(A) <= Cardinality(B)
  BY <1>1, <1>2, FS_Subset
<1>4. Cardinality(A) \in Nat /\ Cardinality(B) \in Nat
  BY <1>2, <1>3, FS_CardinalityType
<1> QED BY <1>3, <1>4 DEF A, B

\* What is true of a call stays true whatever the others do.
LEMMA CallMoves ==
    ASSUME Inv, TypeOK', NEW c \in Callers, NEW k, k = call[c],
           \A i \in Jobs : jpc[i] # "none" => Moves(i)
    PROVE  CallInv(k)'
<1>1. k \in Calls /\ CallInv(k)
  BY DEF Inv, TypeOK
<1>2. CASE k.pc = "idle"
  BY <1>1, <1>2 DEF CallInv
<1>3. ASSUME k.pc # "idle" PROVE CallInv(k)'
  <2> DEFINE j == k.job
  <2>1. j \in Jobs /\ jpc[j] # "none" /\ Moves(j) /\ TypeOK
    BY <1>1, <1>3 DEF CallInv, Inv
  <2>2. stamp[j] # "old" => stamp'[j] # "old"
    BY <1>3, <2>1 DEF Moves
  <2> HIDE DEF j
  <2>3. ASSUME k.op = "output" PROVE OutputInv(k)'
    <3>1. OutputInv(k) /\ k.want \subseteq All(j)
      BY <1>1, <2>3 DEF CallInv, OutputInv, j
    <3>2. All(j) \subseteq All(j)'
      BY <2>1 DEF All, Moves
    <3>3. k.pc = "answered" /\ k.ended => jpc'[j] \in Ended \cup {"gone"}
      BY <2>1, <3>1 DEF OutputInv, Moves, j
    <3>4. ASSUME NEW s \in Streams, k.sel = {s}, j \notin loose, NEW n \in k.want,
                 n \in made'[j][s]
          PROVE  /\ k.pc \in {"get", "stdout", "stderr"} =>
                      \/ n \in k.got \/ Missing(j, n)'
                      \/ n > k.top /\ stamp'[j] # "old"
                 /\ (k.pc \in {"flag", "answered"} \/ (k.pc = "stderr" /\ s = "stdout")) =>
                      \/ n \in k.got \/ Missing(j, n)'
                      \/ stamp'[j] # "old" /\ (j \notin mem' \/ n \notin Recs(j, s)')
      <4>1. n \in All(j) /\ n \in made[j][s]
        BY <2>1, <3>1, <3>4 DEF Moves
      <4>2. Missing(j, n) => Missing(j, n)'
        BY <2>1, <4>1, MissingMoves
      <4>3. n \notin Recs(j, s) => n \notin Recs(j, s)'
        BY <2>1, <4>1, RingMoves
      <4>4. j \notin mem => j \notin mem'
        BY <2>1 DEF Moves
      <4> HIDE DEF Missing, Recs
      <4> QED BY <2>2, <3>1, <3>4, <4>1, <4>2, <4>3, <4>4 DEF OutputInv, j
    <3>5. loose' = loose
      BY <2>1 DEF Moves
    <3> QED BY <3>1, <3>2, <3>3, <3>4, <3>5 DEF OutputInv, j
  <2>4. ASSUME k.op = "watch" PROVE WatchInv(k)'
    <3>1. WatchInv(k)
      BY <1>1, <2>4 DEF CallInv
    <3>2. ASSUME k.seen \in Outcomes
          PROVE  /\ phase[j] \in {"over", "dead"} /\ phase'[j] = phase[j]
                 /\ row'[j] \in {k.seen, "none"}
                 /\ row[j] = "none" => row'[j] = "none"
                 /\ accepted'[j] \ late'[j] \subseteq accepted[j] \ late[j]
                 /\ spoilt[j] \subseteq spoilt'[j]
                 /\ lines[j] \subseteq lines'[j] \/ row'[j] = "none"
      <4>1. row[j] \in {k.seen, "none"} /\ phase[j] \in {"over", "dead"}
        BY <3>1, <3>2 DEF WatchInv, j
      <4>2. jpc[j] # "insert"
        BY <2>1, <4>1 DEF Inv, JobInv, Life
      <4> QED BY <2>1, <3>2, <4>1, <4>2 DEF Moves
    <3>3. ASSUME k.seen \in Outcomes, k.pc \in {"get", "flag"}, ~k.err
          PROVE  \/ /\ k.got \subseteq lines'[j]
                    /\ accepted'[j] \ late'[j] \subseteq k.got \cup spoilt'[j]
                 \/ row'[j] = "none"
      <4>1. \/ /\ k.got \subseteq lines[j]
               /\ accepted[j] \ late[j] \subseteq k.got \cup spoilt[j]
            \/ row[j] = "none"
        BY <3>1, <3>3 DEF WatchInv, j
      <4> QED BY <3>2, <3>3, <4>1
    <3>4. ASSUME k.seen \in Outcomes, k.pc = "answered", ~k.err, row'[j] # "none",
                 NEW n \in accepted'[j] \ late'[j]
          PROVE  n \in k.got \cup spoilt'[j] \/ CutOff(j, n)'
      <4>1. n \in k.got \cup spoilt[j] \/ CutOff(j, n)
        BY <3>1, <3>2, <3>4 DEF WatchInv, j
      <4>2. lines[j] \in SUBSET lines'[j] /\ lines'[j] \in SUBSET (1 .. MaxSeq)
        BY <2>1, <3>2, <3>4 DEF TypeOK, S!TypeOK
      <4>3. CutOff(j, n) => CutOff(j, n)'
        <5>1. /\ Cardinality(Above(j, n)) \in Nat /\ Cardinality(Above(j, n)') \in Nat
              /\ Cardinality(Above(j, n)) <= Cardinality(Above(j, n)')
          BY <4>2, MoreAbove DEF Above
        <5>2. ReplayCap \in Nat
          BY RegistryAssumption
        <5> QED BY <5>1, <5>2 DEF CutOff
      <4> QED BY <3>2, <3>4, <4>1, <4>3
    <3>5. j \notin mem'
      BY <2>1, <3>1 DEF WatchInv, Moves, j
    <3> QED BY <3>1, <3>2, <3>3, <3>4, <3>5 DEF WatchInv, j
  <2>5. ASSUME k.op = "list" PROVE ListInv(k)'
    <3>1. ListInv(k) /\ k.rows \subseteq Jobs
      BY <1>1, <2>5 DEF CallInv, Calls
    <3>2. \A i \in k.rows : jpc'[i] # "none" /\ started'[i] = started[i]
      BY <3>1 DEF ListInv, Moves
    <3> QED BY <2>1, <3>1, <3>2 DEF ListInv, Moves, j
  <2> QED BY <1>1, <2>1, <2>3, <2>4, <2>5 DEF CallInv, Moves, j
<1> QED BY <1>2, <1>3

-----------------------------------------------------------------------------
(* The steps of a call                                                     *)

\* A job whose row has an outcome is over or gone.
LEMMA RowMeansOver ==
    ASSUME Inv, NEW j \in Jobs, row[j] \notin {"none", "running"}
    PROVE  /\ phase[j] \in {"over", "dead"}
           /\ jpc[j] \in {"over", "gone"}
<1>1. /\ phase[j] = "new" => row[j] = "none"
      /\ phase[j] = "running" => row[j] \in {"none", "running"}
      /\ S!TypeOK /\ TypeOK /\ Life(j)
  BY StoreFacts DEF Inv, JobInv
<1>2. phase[j] \in {"over", "dead"}
  BY <1>1 DEF S!TypeOK
<1> QED BY <1>1, <1>2 DEF Life, TypeOK

\* A line of a tidy job that the table does not have is above those that it has, unless it
\* need not be shown.
LEMMA TableIsPrefix ==
    ASSUME Inv, NEW j \in Jobs, NEW s \in Streams, NEW n \in made[j][s],
           n \notin lines[j], ~Missing(j, n), j \notin loose
    PROVE  Before(lines[j] \cap made[j][s], {n}) /\ stamp[j] # "old"
<1>1. Life(j) /\ Numbers(j) /\ Verdicts(j) /\ Records(j) /\ Order(j, s) /\ n \in All(j)
  BY DEF Inv, JobInv, All
<1>2. /\ n \notin Dropped(j) /\ n \notin spoilt[j]
      /\ phase[j] # "dead" /\ row[j] # "none"
  BY DEF Missing
<1>3. CASE n \notin offered[j]
  <2>1. n \in Waiting(j, s)
    BY <1>3 DEF Waiting
  <2>2. ~Handed(j)
    BY <1>1, <1>3 DEF Handed
  <2> QED BY <1>1, <2>1, <2>2 DEF Order, Before, Life, Ended
<1>4. CASE n \in offered[j]
  <2>1. n \in accepted[j]
    BY <1>2, <1>4 DEF Dropped
  <2>2. row[j] = "running"
    <3>1. row[j] \in Outcomes => n \in lines[j] \cup spoilt[j]
      BY <1>1, <2>1, StoreFacts DEF Inv, Life
    <3>2. row[j] \in Outcomes \cup {"none", "running", "orphaned"}
      BY StoreFacts DEF Inv, S!TypeOK, S!Terminal, Outcomes
    <3> QED BY <1>1, <1>2, <3>1, <3>2 DEF Verdicts
  <2>3. \/ \E i \in Of(ch, j) : ch[i].seq = n
        \/ \E i \in Of(batch, j) : batch[i].seq = n
    BY <1>1, <1>2, <2>1, <2>2, StoreFacts DEF Inv, Life
  <2>4. n \in Queued(ch, j, s) \/ n \in Queued(batch, j, s)
    BY <2>3 DEF Queued
  <2>5. stamp[j] # "old"
    BY <1>1, <2>3 DEF Records, Settled, Life
  <2> QED BY <1>1, <2>4, <2>5 DEF Order, Before
<1> QED BY <1>3, <1>4

\* An idle caller is a caller.
LEMMA NoCallType == NoCall \in Calls
<1>1. 0 \in 0 .. MaxSeq /\ "none" \in Jobs \cup {"none"}
  BY RegistryAssumption
<1> QED BY <1>1 DEF NoCall, Calls

\* A call that has begun.
LEMMA BeginCall ==
    ASSUME Inv, NEW c \in Callers, NEW j \in Jobs,
           \/ \E sel \in (SUBSET Streams) \ {{}} : JobOutput(c, j, sel)
           \/ WatchJob(c, j)
           \/ List(c, j)
    PROVE  \E k \in Calls : CallInv(k) /\ call' = [call EXCEPT ![c] = k]
<1>0. TypeOK /\ S!TypeOK /\ All(j) \subseteq 1 .. MaxSeq
  BY AllFacts DEF Inv, TypeOK
<1>1. ASSUME NEW sel \in (SUBSET Streams) \ {{}}, JobOutput(c, j, sel)
      PROVE  \E k \in Calls : CallInv(k) /\ call' = [call EXCEPT ![c] = k]
  <2> DEFINE k == [NoCall EXCEPT !.op = "output", !.job = j, !.pc = "query",
                                 !.sel = sel, !.want = All(j)]
  <2>1. k \in Calls
    BY <1>0, NoCallType DEF Calls
  <2>2. /\ k.op = "output" /\ k.job = j /\ k.pc = "query" /\ k.want = All(j)
        /\ jpc[j] # "none" /\ call' = [call EXCEPT ![c] = k]
    BY <1>1 DEF JobOutput, Begin, Step, NoCall
  <2> HIDE DEF k
  <2>3. CallInv(k)
    BY <2>2 DEF CallInv, OutputInv
  <2> QED BY <2>1, <2>2, <2>3
<1>2. ASSUME WatchJob(c, j)
      PROVE  \E k \in Calls : CallInv(k) /\ call' = [call EXCEPT ![c] = k]
  <2> DEFINE k == [NoCall EXCEPT !.op = "watch", !.job = j, !.pc = "query",
                                 !.sel = Streams, !.seen = row[j]]
  <2>1. k \in Calls
    <3>1. row[j] \in Outcomes \cup {"none", "running", "orphaned"}
      BY <1>0 DEF S!TypeOK, S!Terminal, Outcomes
    <3> QED BY <3>1, NoCallType DEF Calls
  <2>2. /\ k.op = "watch" /\ k.job = j /\ k.pc = "query" /\ k.seen = row[j]
        /\ k.sel = Streams /\ j \notin mem
        /\ jpc[j] # "none" /\ call' = [call EXCEPT ![c] = k]
    BY <1>2 DEF WatchJob, Begin, Step, NoCall
  <2> HIDE DEF k
  <2>3. row[j] \in Outcomes => phase[j] \in {"over", "dead"}
    BY RowMeansOver DEF Outcomes, S!Outcomes
  <2>4. CallInv(k)
    BY <2>2, <2>3 DEF CallInv, WatchInv
  <2> QED BY <2>1, <2>2, <2>4
<1>3. ASSUME List(c, j)
      PROVE  \E k \in Calls : CallInv(k) /\ call' = [call EXCEPT ![c] = k]
  <2>0. PICK T \in Newest({i \in Jobs : row[i] # "none"}, Limit) \cup {{}} :
           Begin(c, j, [NoCall EXCEPT !.op = "list", !.job = j, !.pc = "merge",
                                      !.rows = T,
                                      !.seen = IF j \in T THEN row[j] ELSE "none",
                                      !.was = j \in mem])
    BY <1>3 DEF List
  <2> DEFINE seen == IF j \in T THEN row[j] ELSE "none"
             k == [NoCall EXCEPT !.op = "list", !.job = j, !.pc = "merge", !.rows = T,
                                 !.seen = seen, !.was = j \in mem]
  <2>a. T \subseteq Jobs /\ \A i \in T : row[i] # "none"
    BY DEF Newest
  <2>1. k \in Calls
    <3>1. (j \in mem) \in BOOLEAN
      OBVIOUS
    <3>2. seen \in Outcomes \cup {"none", "running", "orphaned"}
      BY <1>0 DEF S!TypeOK, S!Terminal, Outcomes
    <3> HIDE DEF seen
    <3> QED BY <2>a, <3>1, <3>2, NoCallType DEF Calls
  <2>2. /\ k.op = "list" /\ k.job = j /\ k.pc = "merge" /\ k.seen = seen /\ k.rows = T
        /\ jpc[j] # "none" /\ call' = [call EXCEPT ![c] = k]
    BY <2>0 DEF Begin, Step, NoCall
  <2> HIDE DEF k
  <2>b. \A i \in T : jpc[i] # "none"
    BY <2>a, StoreFacts DEF Inv, JobInv, Life
  <2>3. ASSUME seen \in Outcomes, j \in mem PROVE jpc[j] \in Ended /\ seen = verdict[j]
    <3>1. row[j] = seen /\ row[j] \notin {"none", "running"}
      BY <2>3 DEF Outcomes, S!Outcomes
    <3>2. jpc[j] \in {"over", "gone"} /\ jpc[j] # "gone"
      BY <2>3, <3>1, RowMeansOver DEF Inv, JobInv, Life
    <3> QED BY <2>3, <3>1, <3>2 DEF Ended, Inv, JobInv, Verdicts
  <2>4. CallInv(k)
    BY <2>2, <2>3, <2>a, <2>b DEF CallInv, ListInv
  <2> QED BY <2>1, <2>2, <2>4
<1> QED BY <1>1, <1>2, <1>3

\* What a call in progress is.
LEMMA InProgress ==
    ASSUME Inv, NEW c \in Callers, call[c].pc # "idle"
    PROVE  /\ call[c] \in Calls /\ CallInv(call[c])
           /\ call[c].job \in Jobs /\ jpc[call[c].job] # "none"
           /\ call[c].op \in {"output", "watch", "list"}
  BY DEF Inv, TypeOK, CallInv, Calls

\* The table is read.
LEMMA QueryLinesCall ==
    ASSUME Inv, NEW c \in Callers, QueryLines(c)
    PROVE  \E k \in Calls : CallInv(k) /\ call' = [call EXCEPT ![c] = k]
<1> DEFINE o == call[c]
           j == o.job
           rows == Persisted(j, o.sel)
           top == Max(rows \cup {0})
           k == [o EXCEPT !.pc = "get", !.got = rows, !.top = top]
<1>1. o.pc = "query" /\ call' = [call EXCEPT ![c] = k]
  BY DEF QueryLines, Step
<1>2. /\ o \in Calls /\ CallInv(o) /\ j \in Jobs /\ jpc[j] # "none"
      /\ o.op \in {"output", "watch"}
  BY <1>1, InProgress DEF CallInv
<1>3. S!TypeOK /\ TypeOK
  BY DEF Inv, TypeOK
<1>4. rows \in SUBSET (1 .. MaxSeq)
  BY <1>2, <1>3 DEF Persisted, S!TypeOK
<1>5. /\ top \in 0 .. MaxSeq /\ top \in rows \cup {0}
  <2>1. rows \cup {0} \in SUBSET (0 .. MaxSeq) /\ rows \cup {0} # {}
    BY <1>4, RegistryAssumption
  <2>2. top \in rows \cup {0}
    BY <2>1, MaxFacts
  <2> QED BY <2>1, <2>2
<1> HIDE DEF top
<1>6. k \in Calls
  BY <1>2, <1>4, <1>5 DEF Calls
<1>7. /\ k.pc = "get" /\ k.got = rows /\ k.top = top /\ k.op = o.op /\ k.job = j
      /\ k.sel = o.sel /\ k.want = o.want /\ k.seen = o.seen /\ k.err = o.err
  BY <1>2 DEF Calls
<1> HIDE DEF k, rows
<1>8. ASSUME o.op = "output" PROVE OutputInv(k)
  <2>1. o.want \subseteq All(j)
    BY <1>2, <1>8 DEF CallInv, OutputInv
  <2>2. ASSUME NEW s \in Streams, k.sel = {s}, j \notin loose,
               NEW n \in k.want \cap made[j][s]
        PROVE  \/ n \in k.got \/ Missing(j, n)
               \/ n > k.top /\ stamp[j] # "old"
    <3>1. rows = lines[j] \cap made[j][s]
      BY <1>7, <2>2 DEF rows, Persisted
    <3>2. SUFFICES ASSUME n \notin lines[j], ~Missing(j, n)
                   PROVE  n > top /\ stamp[j] # "old"
      BY <1>7, <2>2, <3>1
    <3>3. Before(lines[j] \cap made[j][s], {n}) /\ stamp[j] # "old"
      BY <1>2, <2>2, <3>2, TableIsPrefix
    <3>4. n \in Nat /\ n >= 1
      BY <1>2, <1>3, <2>2, RegistryAssumption DEF TypeOK
    <3>5. CASE top \in rows
      BY <1>5, <3>1, <3>3, <3>4, <3>5 DEF Before
    <3>6. CASE top = 0
      BY <3>3, <3>4, <3>6
    <3> QED BY <1>5, <3>5, <3>6
  <2> QED BY <1>7, <2>1, <2>2 DEF OutputInv
<1>9. ASSUME o.op = "watch" PROVE WatchInv(k)
  <2>1. WatchInv(o)
    BY <1>2, <1>9 DEF CallInv
  <2>2. ASSUME o.seen \in Outcomes
        PROVE  \/ /\ rows \subseteq lines[j]
                  /\ accepted[j] \ late[j] \subseteq rows \cup spoilt[j]
               \/ row[j] = "none"
    <3>1. row[j] \in {o.seen, "none"}
      BY <2>1, <2>2 DEF WatchInv
    <3>2. row[j] \in Outcomes => accepted[j] \ late[j] \subseteq lines[j] \cup spoilt[j]
      BY <1>2, StoreFacts DEF Inv
    <3>3. accepted[j] \subseteq All(j)
      BY <1>2 DEF Inv, JobInv, Numbers
    <3>4. o.sel = Streams
      BY <1>2, <1>9 DEF CallInv, WatchInv
    <3> QED BY <2>2, <3>1, <3>2, <3>3, <3>4 DEF rows, Persisted, All
  <2> QED BY <1>7, <2>1, <2>2 DEF WatchInv
<1>10. CallInv(k)
  BY <1>2, <1>7, <1>8, <1>9 DEF CallInv
<1> QED BY <1>1, <1>6, <1>10 DEF k, rows, top

\* Nothing is promised to an idle caller.
LEMMA NoCallOK == NoCall \in Calls /\ CallInv(NoCall)
  BY NoCallType DEF NoCall, CallInv

\* The query fails.
LEMMA QueryFailsCall ==
    ASSUME Inv, NEW c \in Callers, QueryFails(c)
    PROVE  \E k \in Calls : CallInv(k) /\ call' = [call EXCEPT ![c] = k]
<1> DEFINE o == call[c]
           k == [o EXCEPT !.pc = "flag", !.err = TRUE]
<1>1. /\ o.pc = "query" /\ o \in Calls /\ CallInv(o)
      /\ o.job \in Jobs /\ jpc[o.job] # "none"
  BY InProgress DEF QueryFails
<1>2. CASE o.op = "output"
  BY <1>2, NoCallOK DEF QueryFails, Step
<1>3. CASE o.op # "output"
  <2>1. call' = [call EXCEPT ![c] = k]
    BY <1>3 DEF QueryFails, Step
  <2>2. k \in Calls
    BY <1>1 DEF Calls
  <2>3. /\ k.pc = "flag" /\ k.err /\ k.op = o.op /\ k.job = o.job /\ k.seen = o.seen
        /\ k.sel = o.sel
    BY <1>1 DEF Calls
  <2> HIDE DEF k
  <2>4. CallInv(k)
    BY <1>1, <1>3, <2>3 DEF CallInv, WatchInv
  <2> QED BY <2>1, <2>2, <2>4
<1> QED BY <1>2, <1>3

\* The job is looked up in memory.
LEMMA GetCall ==
    ASSUME Inv, NEW c \in Callers, Get(c)
    PROVE  \E k \in Calls : CallInv(k) /\ call' = [call EXCEPT ![c] = k]
<1> DEFINE o == call[c]
           j == o.job
           k == [o EXCEPT !.pc = IF j \in mem THEN "stdout" ELSE "flag"]
<1>1. /\ o.pc = "get" /\ o \in Calls /\ CallInv(o) /\ j \in Jobs /\ jpc[j] # "none"
      /\ o.op \in {"output", "watch"}
  BY InProgress DEF Get, CallInv
<1>2. call' = [call EXCEPT ![c] = k]
  BY DEF Get, Step
<1>3. k \in Calls
  BY <1>1 DEF Calls
<1>4. /\ k.pc = (IF j \in mem THEN "stdout" ELSE "flag")
      /\ k.err = o.err /\ k.op = o.op /\ k.job = j /\ k.seen = o.seen
      /\ k.sel = o.sel /\ k.want = o.want /\ k.got = o.got /\ k.top = o.top
  BY <1>1 DEF Calls
<1> HIDE DEF k
<1>5. ASSUME o.op = "output" PROVE OutputInv(k)
  <2>1. OutputInv(o)
    BY <1>1, <1>5 DEF CallInv
  <2>2. k.pc \in {"stdout", "flag"} /\ (k.pc = "flag" => j \notin mem)
    BY <1>4
  <2> QED BY <1>1, <1>4, <2>1, <2>2 DEF OutputInv
<1>6. ASSUME o.op = "watch" PROVE WatchInv(k)
  <2>1. WatchInv(o) /\ k.pc = "flag"
    BY <1>1, <1>4, <1>6 DEF CallInv, WatchInv
  <2> QED BY <1>1, <1>4, <2>1 DEF WatchInv
<1>7. CallInv(k)
  BY <1>1, <1>4, <1>5, <1>6 DEF CallInv
<1> QED BY <1>2, <1>3, <1>7

\* The ring is read after the table: what it still has above the highest
\* persisted line is in the answer.
LEMMA ReadRingCall ==
    ASSUME Inv, NEW c \in Callers, ReadStdout(c) \/ ReadStderr(c)
    PROVE  \E k \in Calls : CallInv(k) /\ call' = [call EXCEPT ![c] = k]
<1>0. PICK s \in Streams : /\ \/ s = "stdout" /\ ReadRing(c, s, "stderr")
                              \/ s = "stderr" /\ ReadRing(c, s, "flag")
  BY DEF ReadStdout, ReadStderr, Streams
<1> DEFINE o == call[c]
           j == o.job
           next == IF s = "stdout" THEN "stderr" ELSE "flag"
           suffix == {n \in Recs(j, s) : n > o.top}
           got == IF s \in o.sel THEN o.got \cup suffix ELSE o.got
           k == [o EXCEPT !.pc = next, !.got = got]
<1>1. o.pc = s /\ call' = [call EXCEPT ![c] = k]
  BY <1>0 DEF ReadRing, Step
<1>2. /\ o \in Calls /\ CallInv(o) /\ j \in Jobs /\ jpc[j] # "none"
      /\ o.op = "output"
  BY <1>0, <1>1, InProgress DEF CallInv, WatchInv, Streams
<1>3. got \in SUBSET (1 .. MaxSeq) /\ o.got \subseteq got
  BY <1>0, <1>2 DEF Recs, Last, Calls, Inv, TypeOK
<1>a. \A n \in Recs(j, s) : s \in o.sel /\ n > o.top => n \in got
  OBVIOUS
<1>b. next \in {"stderr", "flag"} /\ (next = "stderr" <=> s = "stdout")
  BY <1>0
<1> HIDE DEF got, next
<1>4. k \in Calls
  BY <1>2, <1>3, <1>b DEF Calls
<1>5. /\ k.pc = next /\ k.got = got
      /\ k.err = o.err /\ k.op = o.op /\ k.job = j /\ k.seen = o.seen
      /\ k.sel = o.sel /\ k.want = o.want /\ k.top = o.top
  BY <1>2 DEF Calls
<1> HIDE DEF k
<1>6. OutputInv(k)
  <2>1. OutputInv(o)
    BY <1>2 DEF CallInv
  <2>2. ASSUME NEW t \in Streams, k.sel = {t}, j \notin loose,
               NEW n \in k.want \cap made[j][t]
        PROVE  /\ k.pc = "stderr" =>
                    n \in k.got \/ Missing(j, n) \/ (n > k.top /\ stamp[j] # "old")
               /\ k.pc = "flag" \/ (k.pc = "stderr" /\ t = "stdout") =>
                    \/ n \in k.got \/ Missing(j, n)
                    \/ stamp[j] # "old" /\ (j \notin mem \/ n \notin Recs(j, t))
    <3>1. n \in o.got \/ Missing(j, n) \/ (n > o.top /\ stamp[j] # "old")
      BY <1>0, <1>1, <1>5, <2>1, <2>2 DEF OutputInv
    <3>2. CASE t = s
      BY <1>3, <1>5, <1>a, <1>b, <2>2, <3>1, <3>2
    <3>3. CASE t # s
      <4>1. (s = "stdout" /\ t = "stderr") \/ (s = "stderr" /\ t = "stdout")
        BY <3>3 DEF Streams
      <4>2. t = "stdout" =>
               \/ n \in o.got \/ Missing(j, n)
               \/ stamp[j] # "old" /\ (j \notin mem \/ n \notin Recs(j, t))
        BY <1>1, <1>5, <2>1, <2>2, <4>1 DEF OutputInv
      <4> QED BY <1>3, <1>5, <1>b, <3>1, <4>1, <4>2
    <3> QED BY <3>2, <3>3
  <2> QED BY <1>5, <1>b, <2>1, <2>2 DEF OutputInv
<1>8. CallInv(k)
  BY <1>2, <1>5, <1>6, <1>b DEF CallInv
<1> QED BY <1>1, <1>4, <1>8 DEF k

\* The state is read last.
LEMMA DoneFlagCall ==
    ASSUME Inv, NEW c \in Callers, DoneFlag(c)
    PROVE  \E k \in Calls : CallInv(k) /\ call' = [call EXCEPT ![c] = k]
<1> DEFINE o == call[c]
           j == o.job
           now == IF j \in mem THEN state[j] ELSE row[j]
           flag == now \notin {"running", "none"}
           k == [o EXCEPT !.pc = "answered", !.ended = flag]
<1>1. o.pc = "flag" /\ o.op = "output" /\ call' = [call EXCEPT ![c] = k]
  BY DEF DoneFlag, Step
<1>2. /\ o \in Calls /\ CallInv(o) /\ OutputInv(o) /\ j \in Jobs /\ jpc[j] # "none"
  BY <1>1, InProgress DEF CallInv
<1>3. flag \in BOOLEAN
  OBVIOUS
<1>4. ASSUME flag PROVE jpc[j] \in Ended \cup {"gone"}
  <2>1. CASE j \in mem
    BY <1>2, <1>4, <2>1 DEF Inv, JobInv, Life
  <2>2. CASE j \notin mem
    BY <1>2, <1>4, <2>2, RowMeansOver DEF Ended
  <2> QED BY <2>1, <2>2
<1> HIDE DEF flag
<1>5. k \in Calls
  BY <1>2, <1>3 DEF Calls
<1>6. /\ k.pc = "answered" /\ k.ended = flag /\ k.op = "output" /\ k.job = j
      /\ k.sel = o.sel /\ k.want = o.want /\ k.got = o.got
  BY <1>1, <1>2 DEF Calls
<1> HIDE DEF k
<1>7. OutputInv(k)
  BY <1>1, <1>2, <1>4, <1>6 DEF OutputInv
<1>8. CallInv(k)
  BY <1>2, <1>6, <1>7 DEF CallInv
<1> QED BY <1>1, <1>5, <1>8 DEF k, flag

\* The replay is cut: what is cut off is below ReplayCap lines of the table.
LEMMA ReplayTailCall ==
    ASSUME Inv, NEW c \in Callers, ReplayTail(c)
    PROVE  \E k \in Calls : CallInv(k) /\ call' = [call EXCEPT ![c] = k]
<1> DEFINE o == call[c]
           j == o.job
           tail == Last(o.got, ReplayCap)
           k == [o EXCEPT !.pc = "answered", !.ended = TRUE, !.got = tail]
<1>1. o.pc = "flag" /\ o.op = "watch" /\ call' = [call EXCEPT ![c] = k]
  BY DEF ReplayTail, Step
<1>2. /\ o \in Calls /\ CallInv(o) /\ WatchInv(o) /\ j \in Jobs /\ jpc[j] # "none"
  BY <1>1, InProgress DEF CallInv
<1>3. tail \in SUBSET (1 .. MaxSeq)
  BY <1>2 DEF Last, Calls
<1>4. ASSUME NEW n \in o.got \ tail, o.got \subseteq lines[j] PROVE CutOff(j, n)
  <2> DEFINE above == {m \in o.got : m > n}
  <2>1. ~(Cardinality(above) < ReplayCap)
    BY <1>4 DEF Last
  <2>2. lines[j] \in SUBSET (1 .. MaxSeq) /\ o.got \in SUBSET lines[j]
    BY <1>2, <1>4 DEF Inv, TypeOK, S!TypeOK
  <2>3. /\ Cardinality(above) \in Nat /\ Cardinality(Above(j, n)) \in Nat
        /\ Cardinality(above) <= Cardinality(Above(j, n))
    BY <2>2, MoreAbove DEF Above
  <2>4. ReplayCap \in Nat
    BY RegistryAssumption
  <2> HIDE DEF above
  <2> QED BY <2>1, <2>3, <2>4 DEF CutOff
<1> HIDE DEF tail
<1>5. k \in Calls
  BY <1>2, <1>3 DEF Calls
<1>6. /\ k.pc = "answered" /\ k.got = tail /\ k.op = "watch" /\ k.job = j
      /\ k.sel = o.sel /\ k.seen = o.seen /\ k.err = o.err
  BY <1>1, <1>2 DEF Calls
<1> HIDE DEF k
<1>7. WatchInv(k)
  <2>1. ASSUME k.seen \in Outcomes, ~k.err, row[j] # "none",
               NEW n \in accepted[j] \ late[j]
        PROVE  n \in tail \cup spoilt[j] \/ CutOff(j, n)
    <3>1. o.got \subseteq lines[j] /\ n \in o.got \cup spoilt[j]
      BY <1>1, <1>2, <1>6, <2>1 DEF WatchInv
    <3> QED BY <1>4, <3>1
  <2> QED BY <1>2, <1>6, <2>1 DEF WatchInv
<1>8. CallInv(k)
  BY <1>2, <1>6, <1>7 DEF CallInv
<1> QED BY <1>1, <1>5, <1>8 DEF k

\* The jobs in memory are merged with the rows.
LEMMA MergeCall ==
    ASSUME Inv, NEW c \in Callers, Merge(c)
    PROVE  \E k \in Calls : CallInv(k) /\ call' = [call EXCEPT ![c] = k]
<1> DEFINE o == call[c]
           j == o.job
           known == IF j \in o.rows THEN o.seen ELSE state[j]
<1>0. PICK T \in Newest(o.rows \cup mem, Limit) :
         call' = [call EXCEPT ![c] = [o EXCEPT !.pc = "answered", !.rows = T,
                                        !.seen = IF j \in T THEN known ELSE "none"]]
  BY DEF Merge, Step
<1> DEFINE listed == IF j \in T THEN known ELSE "none"
           k == [o EXCEPT !.pc = "answered", !.rows = T, !.seen = listed]
<1>1. o.pc = "merge" /\ call' = [call EXCEPT ![c] = k]
  BY <1>0 DEF Merge
<1>2. /\ o \in Calls /\ CallInv(o) /\ j \in Jobs /\ jpc[j] # "none"
      /\ o.op = "list" /\ ListInv(o)
  BY <1>1, InProgress DEF CallInv
<1>3. /\ state[j] \in Outcomes \cup {"running"} /\ mem \subseteq Jobs
      /\ \A i \in Jobs : Life(i)
  BY <1>2 DEF Inv, TypeOK, JobInv
<1>a. /\ T \subseteq o.rows \cup mem
      /\ T = o.rows \cup mem \/ Cardinality(T) = Limit
      /\ \A i \in T, m \in (o.rows \cup mem) \ T : started[m] <= started[i]
  BY DEF Newest
<1>b. \A i \in T : i \in Jobs /\ jpc[i] # "none"
  BY <1>2, <1>3, <1>a DEF ListInv, Calls, Life
<1>4. listed \in Outcomes \cup {"none", "running", "orphaned"}
  BY <1>2, <1>3 DEF Calls
<1>c. j \in T => listed # "none"
  BY <1>1, <1>2, <1>3 DEF ListInv, Outcomes, S!Outcomes
<1>8. ASSUME listed \in Outcomes, o.was, j \in mem
      PROVE  jpc[j] \in Ended /\ listed = verdict[j]
  <2>0. listed = known
    BY <1>8 DEF Outcomes, S!Outcomes
  <2>1. CASE j \in o.rows
    BY <1>2, <1>8, <2>0, <2>1 DEF ListInv
  <2>2. CASE j \notin o.rows
    BY <1>2, <1>3, <1>8, <2>0, <2>2 DEF Life, Outcomes, S!Outcomes
  <2> QED BY <2>1, <2>2
<1> HIDE DEF listed
<1>5. k \in Calls
  BY <1>2, <1>4, <1>b DEF Calls
<1>6. /\ k.pc = "answered" /\ k.op = "list" /\ k.job = j /\ k.seen = listed
      /\ k.was = o.was /\ k.rows = T
  BY <1>2 DEF Calls
<1> HIDE DEF k
<1>7. ASSUME j \in mem, listed = "none"
      PROVE  Cardinality(T) = Limit /\ \A i \in T : started[j] <= started[i]
  BY <1>7, <1>a, <1>c
<1>9. ListInv(k)
  BY <1>6, <1>7, <1>8, <1>b DEF ListInv
<1>10. CallInv(k)
  BY <1>2, <1>6, <1>9 DEF CallInv
<1> QED BY <1>1, <1>5, <1>10 DEF k, listed

\* Each step of a call keeps what the call may rely on.
LEMMA CallStep ==
    ASSUME Inv, NEW c \in Callers, Call(c)
    PROVE  \E k \in Calls : CallInv(k) /\ call' = [call EXCEPT ![c] = k]
<1>1. CASE Return(c)
  BY <1>1, NoCallOK DEF Return, Step
<1> QED BY <1>1, BeginCall, QueryLinesCall, QueryFailsCall, GetCall, ReadRingCall,
        DoneFlagCall, ReplayTailCall, MergeCall DEF Call

-----------------------------------------------------------------------------
(* Inv is inductive                                                        *)

\* A new worker on a new database.
LEMMA InitInv == Init => Inv
<1> SUFFICES ASSUME Init PROVE Inv
  OBVIOUS
<1>1. SP!Inv
  <2>1. SP!Init
    BY DEF Init, S!Init, SP!Init
  <2> QED BY <2>1, SP!InitInv, StoreConstants
<1>2. TypeOK
  <2>1. S!TypeOK
    BY <1>1, StoreFacts
  <2>2. call \in [Callers -> Calls]
    BY NoCallType DEF Init
  <2>3. made \in [Jobs -> [Streams -> SUBSET (1 .. MaxSeq)]]
    BY DEF Init
  <2> QED BY <2>1, <2>2, <2>3 DEF Init, TypeOK, Outcomes, S!Outcomes
<1>3. ASSUME NEW j \in Jobs PROVE JobInv(j)
  <2>1. /\ ch = <<>> /\ batch = <<>> /\ fin = <<>> /\ row[j] = "none" /\ lines[j] = {}
        /\ offered[j] = {} /\ late[j] = {} /\ accepted[j] = {} /\ phase[j] = "new" /\ up
    BY DEF Init, S!Init
  <2>2. made[j]["stdout"] = {} /\ made[j]["stderr"] = {} /\ \A s \in Streams : made[j][s] = {}
    BY DEF Init, Streams
  <2>3. All(j) = {}
    BY <2>2 DEF All
  <2>4. Of(ch, j) = {} /\ Of(batch, j) = {} /\ Of(fin, j) = {}
    BY <2>1 DEF Of
  <2>5. Life(j)
    BY <2>1, <2>3 DEF Life, Init, Ended
  <2>6. Numbers(j)
    BY <2>1, <2>2, <2>3 DEF Numbers
  <2>7. Verdicts(j) /\ Records(j)
    BY <2>1, <2>4 DEF Verdicts, Records, Settled, Outcomes, S!Outcomes
  <2>8. \A s \in Streams : Order(j, s)
    BY <2>2, <2>4 DEF Order, Before, Queued, Waiting, Sorted
  <2> QED BY <2>5, <2>6, <2>7, <2>8 DEF JobInv
<1>4. \A c \in Callers : CallInv(call[c])
  BY NoCallOK DEF Init
<1> QED BY <1>1, <1>2, <1>3, <1>4 DEF Inv

\* Each step keeps the types.
LEMMA TypeStep ==
    ASSUME Inv, [Next]_vars
    PROVE  TypeOK'
<1> USE DEF storeVars, jobVars
<1>0. TypeOK /\ SP!Inv /\ \A j \in Jobs : Life(j) /\ Numbers(j)
  BY DEF Inv, JobInv
<1>1. S!TypeOK'
  <2>1. SP!Inv'
    BY <1>0, StoreInv
  <2> QED BY <2>1 DEF SP!Inv, SP!TypeOK, S!TypeOK, SP!Record, S!Record, SP!Terminal,
          S!Terminal, SP!Outcomes, S!Outcomes
<1>a. ASSUME UNCHANGED jobVars, sweep' \in BOOLEAN,
             call' \in [Callers -> Calls]
      PROVE  TypeOK'
  BY <1>0, <1>1, <1>a DEF TypeOK
<1>2. ASSUME NEW j \in Jobs, NEW s \in Streams, CompleteLine(j, s),
             jpc' = jpc \/ jpc' = [jpc EXCEPT ![j] = "error"]
      PROVE  TypeOK'
  <2>1. made' \in [Jobs -> [Streams -> SUBSET (1 .. MaxSeq)]]
    BY <1>0, <1>2, NewLine
  <2> QED BY <1>0, <1>1, <1>2, <2>1 DEF CompleteLine, TypeOK
<1>3. ASSUME NEW j \in Jobs, Goroutine(j) PROVE TypeOK'
  <2>0. CASE Execute(j)
    <3>1. started' \in [Jobs -> Nat]
      BY <1>0, <2>0, RegistryAssumption DEF Execute, TypeOK
    <3> QED BY <1>0, <1>1, <2>0, <3>1 DEF Execute, TypeOK
  <2>1. CASE EnqueueJob(j)
    BY <1>0, <1>1, <2>1 DEF EnqueueJob, TypeOK
  <2>2. CASE Classify(j)
    BY <1>0, <1>1, <2>2 DEF Classify, TypeOK
  <2>3. CASE SetState(j)
    BY <1>0, <1>1, <2>3 DEF SetState, TypeOK
  <2>4. CASE SetFinishedAt(j)
    <3>1. state[j] \in Outcomes
      BY <1>0, <2>4 DEF SetFinishedAt, TypeOK, Life, Ended
    <3> QED BY <1>0, <1>1, <2>4, <3>1 DEF SetFinishedAt, TypeOK
  <2>5. CASE FinishJob(j)
    BY <1>0, <1>1, <2>5 DEF FinishJob, TypeOK
  <2>6. ASSUME NEW s \in Streams, TryEnqueueLine(j, s) PROVE TypeOK'
    BY <1>0, <2>6, <1>a DEF TryEnqueueLine, TypeOK
  <2>7. ASSUME NEW s \in Streams, WriteLine(j, s) PROVE TypeOK'
    BY <1>2, <2>7 DEF WriteLine
  <2>8. CASE ErrorLine(j)
    <3>1. "stderr" \in Streams
      BY DEF Streams
    <3> QED BY <1>2, <2>8, <3>1 DEF ErrorLine
  <2> QED BY <1>3, <2>0, <2>1, <2>2, <2>3, <2>4, <2>5, <2>6, <2>7, <2>8 DEF Goroutine
<1>4. ASSUME NEW j \in Jobs, HourPasses(j) PROVE TypeOK'
  BY <1>0, <1>1, <1>4 DEF HourPasses, TypeOK
<1>5. CASE Writer \/ OpenStore
  BY <1>0, <1>5, <1>a DEF Writer, OpenStore, TypeOK
<1>6. ASSUME NEW D \in SUBSET Jobs, Retention(D) PROVE TypeOK'
  BY <1>0, <1>6, <1>a DEF Retention, TypeOK
<1>7. CASE Prune
  BY <1>0, <1>1, <1>7 DEF Prune, TypeOK
<1>8. ASSUME NEW c \in Callers, Call(c) PROVE TypeOK'
  <2>1. call' \in [Callers -> Calls]
    BY <1>0, <1>8, CallStep DEF TypeOK
  <2>2. UNCHANGED <<jobVars, sweep>>
    BY <1>8, CallFrame
  <2> QED BY <1>0, <1>a, <2>1, <2>2 DEF TypeOK
<1>9. CASE Crash
  <2>1. call' \in [Callers -> Calls]
    BY <1>9, NoCallType DEF Crash
  <2> QED BY <1>0, <1>1, <1>9, <2>1 DEF Crash, TypeOK, Outcomes, S!Outcomes
<1>10. CASE UNCHANGED vars
  BY <1>0, <1>10, <1>a DEF vars, TypeOK
<1> QED BY <1>3, <1>4, <1>5, <1>6, <1>7, <1>8, <1>9, <1>10 DEF Next

\* The invariant of a call depends on nothing that a call changes.
LEMMA CallsAside ==
    ASSUME UNCHANGED <<storeVars, jobVars>>, NEW k, CallInv(k)
    PROVE  CallInv(k)'
<1> USE DEF storeVars, jobVars
<1>1. \A j : All(j)' = All(j)
  BY DEF All
<1>2. \A j, n : Missing(j, n)' = Missing(j, n)
  BY DEF Missing, Dropped
<1>3. \A j, s : Recs(j, s)' = Recs(j, s)
  BY DEF Recs, Last
<1>4. OutputInv(k) => OutputInv(k)'
  BY <1>1, <1>2, <1>3 DEF OutputInv
<1>5. WatchInv(k) => WatchInv(k)'
  BY DEF WatchInv, CutOff, Above
<1>6. ListInv(k) => ListInv(k)'
  BY DEF ListInv
<1> QED BY <1>4, <1>5, <1>6 DEF CallInv

\* Every step keeps what is true of every call.
LEMMA CallsStep ==
    ASSUME Inv, [Next]_vars, NEW c \in Callers, NEW k, k = call'[c]
    PROVE  CallInv(k)'
<1>0. call \in [Callers -> Calls] /\ \A d \in Callers : CallInv(call[d])
  BY DEF Inv, TypeOK
<1>1. CASE UNCHANGED vars
  <2>1. k = call[c] /\ UNCHANGED <<storeVars, jobVars>>
    BY <1>1 DEF vars
  <2> QED BY <1>0, <2>1, CallsAside
<1>2. ASSUME NEW d \in Callers, Call(d) PROVE CallInv(k)'
  <2>1. PICK m \in Calls : CallInv(m) /\ call' = [call EXCEPT ![d] = m]
    BY <1>2, CallStep
  <2>2. UNCHANGED <<storeVars, jobVars>>
    BY <1>2, CallFrame
  <2>3. k = m \/ k = call[c]
    BY <1>0, <2>1
  <2>4. CallInv(k)
    BY <1>0, <2>1, <2>3
  <2> QED BY <2>2, <2>4, CallsAside
<1>3. CASE Crash
  <2>1. k = NoCall
    BY <1>3 DEF Crash
  <2> QED BY <2>1 DEF NoCall, CallInv
<1>4. ASSUME Next, ~Crash, \A d \in Callers : ~Call(d)
      PROVE  CallInv(k)'
  <2>1. call' = call
    BY <1>4 DEF Next, Goroutine, Execute, EnqueueJob, WriteLine, CompleteLine,
       TryEnqueueLine, Classify, ErrorLine, SetState, SetFinishedAt, FinishJob, HourPasses,
       Writer, Retention, Prune, OpenStore
  <2>2. \A i \in Jobs : jpc[i] # "none" => Moves(i)
    BY <1>4, MovesStep
  <2> QED BY <2>1, <2>2, CallMoves, TypeStep
<1> QED BY <1>1, <1>2, <1>3, <1>4

\* Every step keeps the invariant.
LEMMA NextInv == Inv /\ [Next]_vars => Inv'
<1> SUFFICES ASSUME Inv, [Next]_vars PROVE Inv'
  OBVIOUS
<1>1. SP!Inv'
  BY StoreInv DEF Inv
<1>2. TypeOK'
  BY TypeStep
<1>3. ASSUME NEW j \in Jobs PROVE JobInv(j)'
  BY LifeStep, VerdictsStep, BooksStep DEF Books, JobInv
<1>4. ASSUME NEW c \in Callers PROVE CallInv(call[c])'
  BY CallsStep DEF CallInv, OutputInv, WatchInv, ListInv
<1> QED BY <1>1, <1>2, <1>3, <1>4 DEF Inv

-----------------------------------------------------------------------------
(* The theorems                                                            *)

\* The registry and the store, with jobs that end, are swept and restarted, and
\* calls that read them step by step, keep the invariant.
THEOREM InvHolds == Spec => []Inv
<1> QED BY InitInv, NextInv, PTL DEF Spec

\* The jobs of the registry, tidy or not, are clients as Store has them, and
\* nothing of the registry reaches into the tables: its steps are steps of Store.
THEOREM RegistryImplementsStore == Spec => SP!Init /\ [][SP!Next]_(SP!vars)
<1>1. Init => SP!Init
  BY DEF Init, S!Init, SP!Init
<1>2. Inv /\ [Next]_vars => [SP!Next]_(SP!vars)
  <2> SUFFICES ASSUME Inv, [Next]_vars PROVE [SP!Next]_(SP!vars)
    OBVIOUS
  <2>1. TypeOK
    BY DEF Inv
  <2> QED BY <2>1, StoreStep DEF storeVars, SP!vars, SP!queueVars, SP!dbVars, SP!clientVars
<1> QED BY <1>1, <1>2, InvHolds, PTL DEF Spec

\* What the readers of the registry find in the tables is a history: with the
\* jobs, the sweep and the restarts of this module a job's lines grow while it
\* runs, are frozen by its terminal row but for what commands left behind write,
\* and go as a whole.
THEOREM RegistryImplementsHistory == Spec => SP!ImplementsHistory
<1>1. Inv => SP!Inv
  BY DEF Inv
<1>2. SP!Init => SP!H!Init
  BY SP!HistoryInit, StoreConstants
<1>3. SP!Inv /\ [SP!Next]_(SP!vars) => [SP!H!Next]_<<SP!statusBar, SP!logBar, SP!straysBar>>
  BY SP!HistoryNext, StoreConstants
<1> QED BY <1>1, <1>2, <1>3, InvHolds, RegistryImplementsStore, PTL
        DEF SP!ImplementsHistory, SP!H!Spec

\* Types of the registry, and what a stamp means.
THEOREM TypeOKHolds == Spec => []TypeOK
<1>1. Inv => TypeOK
  BY DEF Inv
<1> QED BY <1>1, InvHolds, PTL

\* A read of one stream of a tidy job has no gap, whatever happens between the
\* query of the table and the copy of the ring, for every number of lines, every
\* ring and every queue.
THEOREM StreamHistoryHolds == Spec => []StreamHistory
<1>1. Inv => StreamHistory
  <2> SUFFICES ASSUME Inv, NEW c \in Callers, call[c].op = "output",
                      call[c].pc \in {"flag", "answered"}, call[c].job \notin loose,
                      NEW s \in Streams, call[c].sel = {s},
                      NEW n \in call[c].want \cap made[call[c].job][s]
               PROVE  LET j == call[c].job
                      IN  \/ n \in call[c].got
                          \/ n \in Dropped(j) \cup spoilt[j]
                          \/ j \in mem /\ n \notin Recs(j, s)
                          \/ PrunedEarly(j)
                          \/ phase[j] = "dead"
                          \/ row[j] = "none"
    BY DEF StreamHistory
  <2> DEFINE j == call[c].job
  <2>1. \/ n \in call[c].got \/ Missing(j, n)
        \/ stamp[j] # "old" /\ (j \notin mem \/ n \notin Recs(j, s))
    BY DEF Inv, CallInv, OutputInv
  <2> QED BY <2>1 DEF Missing, PrunedEarly
<1> QED BY <1>1, InvHolds, PTL

\* A replay from the store of a job that has ended has every line the store
\* took before the finish record, down to the cut at ReplayCap lines.
THEOREM StoreReplayCompleteHolds == Spec => []StoreReplayComplete
<1>1. Inv => StoreReplayComplete
  BY DEF Inv, CallInv, WatchInv, CutOff, Above, StoreReplayComplete
<1> QED BY <1>1, InvHolds, PTL

\* A list has every job that stays in memory, with its own outcome or running,
\* unless it is full of jobs that are no older.
THEOREM ListSoundHolds == Spec => []ListSound
<1>1. Inv => ListSound
  BY DEF Inv, CallInv, ListInv, ListSound
<1> QED BY <1>1, InvHolds, PTL

\* After a JobOutput of a tidy job that says done no line follows: the goroutine
\* of the job is past its last line, or gone.
THEOREM DoneIsLastHolds == Spec => DoneIsLast
<1>1. ASSUME Inv, [Next]_vars, NEW c \in Callers,
             call[c].op = "output", call[c].pc = "answered", call[c].ended,
             call[c].job \notin loose
      PROVE  made'[call[c].job] = made[call[c].job]
  <2> DEFINE j == call[c].job
  <2>1. j \in Jobs /\ jpc[j] \in Ended \cup {"gone"} /\ TypeOK
    BY <1>1 DEF Inv, CallInv, OutputInv
  <2>2. ASSUME NEW i \in Jobs, NEW s \in Streams, CompleteLine(i, s), i # j
        PROVE  made'[j] = made[j]
    BY <2>1, <2>2 DEF CompleteLine, TypeOK
  <2>3. ASSUME NEW i \in Jobs, Goroutine(i) PROVE made'[j] = made[j]
    <3>1. ASSUME NEW s \in Streams, WriteLine(i, s) PROVE made'[j] = made[j]
      BY <1>1, <2>1, <2>2, <3>1 DEF WriteLine, Ended
    <3>2. CASE ErrorLine(i)
      BY <2>1, <2>2, <3>2 DEF ErrorLine, Ended, Streams
    <3> QED BY <2>3, <3>1, <3>2 DEF Goroutine, Execute, EnqueueJob, TryEnqueueLine,
            Classify, SetState, SetFinishedAt, FinishJob, jobVars
  <2>4. ASSUME NEW d \in Callers, Call(d) PROVE made' = made
    BY <2>4, CallFrame DEF jobVars
  <2> QED BY <1>1, <2>3, <2>4 DEF Next, HourPasses, Writer, Retention, Prune, Crash,
          OpenStore, vars, jobVars
<1>2. Inv /\ [Next]_vars => [\A c \in Callers :
         /\ call[c].op = "output" /\ call[c].pc = "answered" /\ call[c].ended
         /\ call[c].job \notin loose
         => made'[call[c].job] = made[call[c].job]]_vars
  BY <1>1
<1> QED BY <1>2, InvHolds, PTL DEF Spec, DoneIsLast
=============================================================================
