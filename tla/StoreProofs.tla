---------------------------- MODULE StoreProofs ----------------------------
(***************************************************************************)
(* Proofs about Store: its invariants for every number of jobs, lines and  *)
(* every queue and batch size, and that the tables implement History.      *)
(***************************************************************************)
EXTENDS Store, TLAPS

\* Of job j a queue has no record but lines of the set l.
Without(recs, j, l) ==
    \A i \in 1 .. Len(recs) : recs[i].job = j => recs[i].seq \in l

\* Line n of job j is in a queue.
Holds(recs, j, n) ==
    \E i \in 1 .. Len(recs) : recs[i].job = j /\ recs[i].seq = n

\* Only late lines of job j may still reach the tables.
Retired(j) ==
    \/ row[j] \in Terminal
    \/ logged[j] /\ row[j] = "none"

\* Nothing of it may.
Absent(j) == phase[j] \in {"new", "dead"}

RetiredIsClear ==
    \A j \in Jobs :
        /\ Retired(j) => /\ Without(ch, j, late[j])
                         /\ Without(batch, j, late[j])
                         /\ Without(fin, j, late[j])
        /\ Absent(j) => /\ Without(ch, j, {})
                        /\ Without(batch, j, {})
                        /\ Without(fin, j, {})

\* What is queued or in the table was offered.
Offered ==
    \A j \in Jobs :
        /\ Without(ch, j, offered[j] \cup {0})
        /\ Without(batch, j, offered[j])
        /\ lines[j] \subseteq offered[j]

\* A job that runs has not handed in its finish record.
NoEarlyFinish ==
    \A j \in Jobs : phase[j] = "running" =>
        /\ \A i \in 1 .. Len(ch) : ch[i].job = j => ~IsFinish(ch[i])
        /\ Without(fin, j, {})

\* Nothing of a job but late lines follows its finish record.
FinishLast ==
    /\ \A i, k \in 1 .. Len(ch) :
          i < k /\ IsFinish(ch[i]) /\ ch[k].job = ch[i].job =>
             ch[k].seq \in late[ch[k].job]
    /\ \A i \in 1 .. Len(fin) :
          IsFinish(fin[i]) /\ Without(ch, fin[i].job, late[fin[i].job])

\* The batch holds lines only, has room when the writer selects, and is
\* empty when a row is updated or the worker is down.
WriterInv ==
    /\ ~up => batch = <<>> /\ fin = <<>>
    /\ wpc = "update" => batch = <<>>
    /\ wpc = "select" => Len(batch) < BatchLen
    /\ \A i \in 1 .. Len(ch) : IsFinish(ch[i]) <=> ch[i].seq = 0
    /\ \A i \in 1 .. Len(batch) : batch[i].seq # 0
    /\ \A i \in 1 .. Len(fin) : fin[i].seq = 0

RowsAndPhases ==
    \A j \in Jobs :
        /\ phase[j] = "new" => ~logged[j] /\ accepted[j] = {} /\ lines[j] = {}
        /\ ~logged[j] => row[j] = "none"
        /\ phase[j] = "running" => row[j] \in {"none", "running"}
        /\ phase[j] = "running" /\ row[j] = "none" => ~logged[j]
        /\ up /\ row[j] = "running" => phase[j] # "dead"
        /\ row[j] \in Outcomes => phase[j] # "running"
        /\ row[j] = "orphaned" => phase[j] = "dead"
        /\ logged[j] /\ row[j] = "none" => lines[j] \subseteq late[j]
        /\ ~up => phase[j] \in {"new", "dead"}

\* Every line accepted before the end is in the table, spoilt, or on its way.
Accounted ==
    \A j \in Jobs :
        /\ row[j] \in Outcomes =>
              accepted[j] \ late[j] \subseteq lines[j] \cup spoilt[j]
        /\ row[j] = "running" /\ phase[j] # "dead" =>
              \A n \in accepted[j] \ late[j] :
                 \/ n \in lines[j] \cup spoilt[j]
                 \/ Holds(ch, j, n)
                 \/ Holds(batch, j, n)

Inv ==
    /\ TypeOK
    /\ RetiredIsClear
    /\ Offered
    /\ NoEarlyFinish
    /\ FinishLast
    /\ WriterInv
    /\ RowsAndPhases
    /\ Accounted

-----------------------------------------------------------------------------
(* Queues                                                                  *)

\* What Append does to a queue of records (TryEnqueueLine, FinishJob and the
\* batch of the writer).
LEMMA AppendFacts ==
    ASSUME NEW recs \in Seq(Record), NEW rec \in Record
    PROVE  /\ Append(recs, rec) \in Seq(Record)
           /\ Len(Append(recs, rec)) = Len(recs) + 1
           /\ \A i \in 1 .. Len(recs) : Append(recs, rec)[i] = recs[i]
           /\ Append(recs, rec)[Len(recs) + 1] = rec
OBVIOUS

\* What taking the head of a queue leaves (the receive of the writer).
LEMMA TailFacts ==
    ASSUME NEW recs \in Seq(Record), recs # <<>>
    PROVE  /\ Tail(recs) \in Seq(Record)
           /\ Len(recs) \in Nat \ {0}
           /\ Len(Tail(recs)) = Len(recs) - 1
           /\ \A i \in 1 .. Len(Tail(recs)) : Tail(recs)[i] = recs[i + 1]
           /\ Head(recs) = recs[1]
           /\ Head(recs) \in Record
OBVIOUS

\* The records of a queue.
LEMMA Element ==
    ASSUME NEW recs \in Seq(Record), NEW i \in 1 .. Len(recs)
    PROVE  recs[i] \in Record /\ recs[i].job \in Jobs
<1>1. recs[i] \in Record
  OBVIOUS
<1> QED BY <1>1 DEF Record

\* An appended record is the only new one.
LEMMA AppendQueue ==
    ASSUME NEW recs \in Seq(Record), NEW rec \in Record, NEW j, NEW n, NEW l
    PROVE  /\ Without(Append(recs, rec), j, l) <=>
                 Without(recs, j, l) /\ (rec.job = j => rec.seq \in l)
           /\ Holds(recs, j, n) => Holds(Append(recs, rec), j, n)
           /\ rec.job = j /\ rec.seq = n => Holds(Append(recs, rec), j, n)
<1> DEFINE new == Append(recs, rec)
<1>1. /\ Len(recs) \in Nat
      /\ Len(new) = Len(recs) + 1
      /\ \A i \in 1 .. Len(recs) : new[i] = recs[i]
      /\ new[Len(recs) + 1] = rec
  BY AppendFacts
<1> HIDE DEF new
<1>2. Without(new, j, l) <=> Without(recs, j, l) /\ (rec.job = j => rec.seq \in l)
  BY <1>1 DEF Without
<1>3. Holds(recs, j, n) => Holds(new, j, n)
  BY <1>1 DEF Holds
<1>4. rec.job = j /\ rec.seq = n => Holds(new, j, n)
  BY <1>1 DEF Holds
<1> QED BY <1>2, <1>3, <1>4 DEF new

\* The head is the only record that is gone.
LEMMA TailQueue ==
    ASSUME NEW recs \in Seq(Record), recs # <<>>, NEW j, NEW n, NEW l
    PROVE  /\ Without(recs, j, l) => Without(Tail(recs), j, l)
           /\ Without(recs, j, l) => (Head(recs).job = j => Head(recs).seq \in l)
           /\ Holds(recs, j, n) =>
                 \/ Holds(Tail(recs), j, n)
                 \/ Head(recs).job = j /\ Head(recs).seq = n
<1> DEFINE new == Tail(recs)
<1>1. /\ Len(recs) \in Nat \ {0}
      /\ Len(new) = Len(recs) - 1
      /\ \A i \in 1 .. Len(new) : new[i] = recs[i + 1]
      /\ Head(recs) = recs[1]
  BY TailFacts
<1> HIDE DEF new
<1>2. Without(recs, j, l) => Without(new, j, l)
  BY <1>1 DEF Without
<1>3. Without(recs, j, l) => (Head(recs).job = j => Head(recs).seq \in l)
  BY <1>1 DEF Without
<1>4. ASSUME Holds(recs, j, n)
      PROVE  Holds(new, j, n) \/ (Head(recs).job = j /\ Head(recs).seq = n)
  <2>1. PICK i \in 1 .. Len(recs) : recs[i].job = j /\ recs[i].seq = n
    BY <1>4 DEF Holds
  <2>2. CASE i = 1
    BY <2>1, <2>2, <1>1
  <2>3. CASE i # 1
    <3>1. i - 1 \in 1 .. Len(new) /\ new[i - 1] = recs[i]
      BY <2>3, <1>1
    <3> QED BY <3>1, <2>1 DEF Holds
  <2> QED BY <2>2, <2>3
<1> QED BY <1>2, <1>3, <1>4 DEF new

\* An empty queue has nothing of any job.
LEMMA EmptyQueue ==
    ASSUME NEW j, NEW n, NEW l
    PROVE  Without(<<>>, j, l) /\ ~Holds(<<>>, j, n)
BY DEF Without, Holds

\* A larger set of lines allows more.
LEMMA WithoutMore ==
    ASSUME NEW recs, NEW j, NEW l, NEW m, l \subseteq m, Without(recs, j, l)
    PROVE  Without(recs, j, m)
BY DEF Without

-----------------------------------------------------------------------------
(* Inv is inductive                                                        *)

USE DEF Outcomes, Terminal

\* A job is registered, with or without a row.
LEMMA EnqueueJobInv ==
    ASSUME Inv, NEW j \in Jobs, EnqueueJob(j)
    PROVE  Inv'
<1> USE DEF Inv, EnqueueJob, queueVars
<1>1. TypeOK'
  BY DEF TypeOK
<1>2. RetiredIsClear' /\ Offered'
  BY DEF RetiredIsClear, Retired, Absent, Offered, TypeOK
<1>3. NoEarlyFinish'
  BY DEF NoEarlyFinish, RetiredIsClear, Absent, Without, TypeOK
<1>4. FinishLast'
  BY DEF FinishLast
<1>5. WriterInv'
  BY DEF WriterInv
<1>6. RowsAndPhases'
  BY DEF RowsAndPhases, TypeOK
<1>7. Accounted'
  <2>1. accepted[j] = {} /\ row[j] = "none"
    BY DEF RowsAndPhases
  <2>2. \A k \in Jobs : k # j => row'[k] = row[k] /\ phase'[k] = phase[k]
    BY DEF TypeOK
  <2>3. row'[j] \notin Outcomes
    BY <2>1 DEF TypeOK
  <2> QED BY <2>1, <2>2, <2>3 DEF Accounted
<1> QED BY <1>1, <1>2, <1>3, <1>4, <1>5, <1>6, <1>7

\* A line is queued or dropped.
LEMMA TryEnqueueLineInv ==
    ASSUME Inv, NEW j \in Jobs, NEW n \in 1 .. MaxSeq, TryEnqueueLine(j, n)
    PROVE  Inv'
<1>0. /\ up
      /\ phase[j] \in {"running", "over"}
      /\ n \notin offered[j] /\ n # 0
      /\ offered' = [offered EXCEPT ![j] = @ \cup {n}]
      /\ UNCHANGED <<batch, wpc, fin, row, lines, up, closing, phase, spoilt, logged>>
  BY StoreAssumption DEF TryEnqueueLine, dbVars
<1>1. /\ late' = [late EXCEPT ![j] = IF phase[j] = "over" THEN @ \cup {n} ELSE @]
      /\ late' \in [Jobs -> SUBSET (1 .. MaxSeq)]
  BY DEF TryEnqueueLine, Inv, TypeOK
<1>2. \A k \in Jobs : /\ late[k] \subseteq late'[k]
                      /\ k # j => late'[k] = late[k]
  BY <1>1 DEF Inv, TypeOK
<1>3. /\ phase[j] = "running" => late'[j] = late[j]
      /\ phase[j] = "over" => late'[j] = late[j] \cup {n}
  BY <1>1 DEF Inv, TypeOK
<1>4. /\ \A k \in Jobs : offered[k] \subseteq offered'[k]
      /\ n \in offered'[j]
      /\ offered' \in [Jobs -> SUBSET (1 .. MaxSeq)]
  BY <1>0 DEF Inv, TypeOK
<1>5. RowsAndPhases'
  <2>1. \A k \in Jobs :
           /\ phase[k] = "new" => accepted'[k] = accepted[k] /\ k # j
           /\ logged[k] /\ row[k] = "none" => lines[k] \subseteq late'[k]
    BY <1>0, <1>2 DEF TryEnqueueLine, Inv, TypeOK, RowsAndPhases
  <2> QED BY <1>0, <2>1 DEF Inv, RowsAndPhases
<1>6. ~Absent(j) /\ (Retired(j) => phase[j] = "over")
  BY <1>0 DEF Absent, Retired, Inv, RowsAndPhases
<1>a. CASE HasRoom
  <2> DEFINE rec == LineRec(j, n)
  <2>0. rec \in Record /\ rec.job = j /\ rec.seq = n /\ ~IsFinish(rec)
    BY StoreAssumption DEF LineRec, Record, IsFinish
  <2>a. ch \in Seq(Record) /\ ch' = Append(ch, rec)
    BY <1>a DEF TryEnqueueLine, Inv, TypeOK
  <2> HIDE DEF rec
  <2>b. /\ ch' \in Seq(Record)
        /\ Len(ch) \in Nat
        /\ Len(ch') = Len(ch) + 1
        /\ \A i \in 1 .. Len(ch) : ch'[i] = ch[i]
        /\ ch'[Len(ch) + 1] = rec
    BY <2>0, <2>a, AppendFacts
  <2>c. /\ \A k, l : Without(ch', k, l) <=> Without(ch, k, l) /\ (k = j => n \in l)
        /\ \A k, m : Holds(ch, k, m) => Holds(ch', k, m)
        /\ Holds(ch', j, n)
    BY <2>0, <2>a, AppendQueue
  <2>d. accepted' = [accepted EXCEPT ![j] = @ \cup {n}]
    BY <1>a DEF TryEnqueueLine
  <2>1. TypeOK'
    BY <2>b, <2>d, <1>0, <1>1, <1>4, <1>a, StoreAssumption DEF Inv, TypeOK, HasRoom
  <2>2. RetiredIsClear'
    <3> SUFFICES ASSUME NEW k \in Jobs
                 PROVE  /\ Retired(k) => /\ Without(ch', k, late'[k])
                                         /\ Without(batch, k, late'[k])
                                         /\ Without(fin, k, late'[k])
                        /\ Absent(k) => /\ Without(ch', k, {})
                                        /\ Without(batch, k, {})
                                        /\ Without(fin, k, {})
      BY <1>0 DEF RetiredIsClear, Retired, Absent
    <3>1. ASSUME Retired(k)
          PROVE  /\ Without(ch', k, late'[k])
                 /\ Without(batch, k, late'[k])
                 /\ Without(fin, k, late'[k])
      <4>1. /\ Without(ch, k, late'[k])
            /\ Without(batch, k, late'[k])
            /\ Without(fin, k, late'[k])
        BY <3>1, <1>2, WithoutMore DEF Inv, RetiredIsClear
      <4>2. k = j => n \in late'[k]
        BY <3>1, <1>3, <1>6
      <4> QED BY <4>1, <4>2, <2>c
    <3>2. ASSUME Absent(k)
          PROVE  Without(ch', k, {}) /\ Without(batch, k, {}) /\ Without(fin, k, {})
      <4>1. k # j
        BY <3>2, <1>6
      <4> QED BY <4>1, <3>2, <2>c DEF Inv, RetiredIsClear
    <3> QED BY <3>1, <3>2
  <2>2a. Offered'
    <3> SUFFICES ASSUME NEW k \in Jobs
                 PROVE  /\ Without(ch', k, offered'[k] \cup {0})
                        /\ Without(batch, k, offered'[k])
                        /\ lines[k] \subseteq offered'[k]
      BY <1>0 DEF Offered
    <3>1. /\ Without(ch, k, offered'[k] \cup {0})
          /\ Without(batch, k, offered'[k])
          /\ lines[k] \subseteq offered'[k]
      <4>1. offered[k] \cup {0} \subseteq offered'[k] \cup {0}
        BY <1>4
      <4> QED BY <4>1, <1>4, WithoutMore DEF Inv, Offered
    <3>2. k = j => n \in offered'[k] \cup {0}
      BY <1>4
    <3> QED BY <3>1, <3>2, <2>c
  <2>3. NoEarlyFinish'
    BY <2>0, <2>b, <1>0 DEF Inv, NoEarlyFinish
  <2>4. FinishLast'
    <3>1. phase[j] = "running" =>
             /\ \A i \in 1 .. Len(ch) : IsFinish(ch[i]) => ch[i].job # j
             /\ Without(fin, j, {})
      BY DEF Inv, NoEarlyFinish
    <3>2. ASSUME NEW i \in 1 .. Len(ch'), NEW k \in 1 .. Len(ch'),
                 i < k, IsFinish(ch'[i]), ch'[k].job = ch'[i].job
          PROVE  ch'[k].seq \in late'[ch'[k].job]
      <4>1. i \in 1 .. Len(ch) /\ ch'[i] = ch[i]
        BY <3>2, <2>b
      <4>2. CASE k \in 1 .. Len(ch)
        <5>1. ch'[k] = ch[k] /\ ch[k] \in Record /\ ch[k].job \in Jobs
          BY <4>2, <2>b, <2>a, Element
        <5>2. ch[k].seq \in late[ch[k].job]
          BY <3>2, <4>1, <4>2, <5>1 DEF Inv, FinishLast
        <5> QED BY <5>1, <5>2, <1>2
      <4>3. CASE k = Len(ch) + 1
        <5>1. ch'[k] = rec /\ ch[i].job = j
          BY <3>2, <4>1, <4>3, <2>b, <2>0
        <5>2. phase[j] = "over"
          BY <3>1, <3>2, <4>1, <5>1, <1>0
        <5> QED BY <5>1, <5>2, <2>0, <1>3
      <4> QED BY <4>2, <4>3, <2>b
    <3>3. ASSUME NEW i \in 1 .. Len(fin)
          PROVE  IsFinish(fin[i]) /\ Without(ch', fin[i].job, late'[fin[i].job])
      <4>1. IsFinish(fin[i]) /\ Without(ch, fin[i].job, late[fin[i].job])
        BY DEF Inv, FinishLast
      <4>2. fin[i].job \in Jobs
        BY Element DEF Inv, TypeOK
      <4>3. Without(ch, fin[i].job, late'[fin[i].job])
        BY <4>1, <4>2, <1>2, WithoutMore
      <4>4. fin[i].job = j => n \in late'[fin[i].job]
        BY <3>1, <1>0, <1>3 DEF Without
      <4> QED BY <4>1, <4>3, <4>4, <2>c
    <3> QED BY <3>2, <3>3, <1>0 DEF FinishLast
  <2>5. WriterInv'
    BY <2>0, <2>b, <1>0 DEF Inv, WriterInv
  <2>7. Accounted'
    <3>1. \A k \in Jobs : k # j => accepted'[k] = accepted[k] /\ late'[k] = late[k]
      BY <2>d, <1>2 DEF Inv, TypeOK
    <3>2. accepted'[j] \ late'[j] \subseteq (accepted[j] \ late[j]) \cup {n}
      BY <2>d, <1>2 DEF Inv, TypeOK
    <3>3. row[j] \in Outcomes => n \in late'[j]
      BY <1>3, <1>6 DEF Retired
    <3> QED BY <3>1, <3>2, <3>3, <2>c, <1>0 DEF Inv, Accounted
  <2> QED BY <1>5, <2>1, <2>2, <2>2a, <2>3, <2>4, <2>5, <2>7 DEF Inv
<1>b. CASE ~HasRoom
  <2>0. ch' = ch /\ accepted' = accepted
    BY <1>b DEF TryEnqueueLine
  <2>1. TypeOK'
    BY <2>0, <1>0, <1>1, <1>4 DEF Inv, TypeOK
  <2>2. RetiredIsClear'
    <3>1. \A k \in Jobs : Retired(k)' = Retired(k) /\ Absent(k)' = Absent(k)
      BY <1>0 DEF Retired, Absent
    <3>2. \A k \in Jobs : Retired(k) =>
             /\ Without(ch, k, late'[k])
             /\ Without(batch, k, late'[k])
             /\ Without(fin, k, late'[k])
      BY <1>2, WithoutMore DEF Inv, RetiredIsClear
    <3> QED BY <3>1, <3>2, <2>0, <1>0 DEF Inv, RetiredIsClear
  <2>3. Offered'
    <3>1. \A k \in Jobs : offered[k] \cup {0} \subseteq offered'[k] \cup {0}
      BY <1>4
    <3>2. \A k \in Jobs :
             /\ Without(ch, k, offered'[k] \cup {0})
             /\ Without(batch, k, offered'[k])
             /\ lines[k] \subseteq offered'[k]
      BY <3>1, <1>4, WithoutMore DEF Inv, Offered
    <3> QED BY <3>2, <2>0, <1>0 DEF Offered
  <2>4. NoEarlyFinish' /\ WriterInv'
    BY <2>0, <1>0 DEF Inv, NoEarlyFinish, WriterInv
  <2>5. FinishLast'
    <3>1. /\ \A i \in 1 .. Len(ch) : ch[i].job \in Jobs
          /\ \A i \in 1 .. Len(fin) : fin[i].job \in Jobs
      BY Element DEF Inv, TypeOK
    <3>2. \A i \in 1 .. Len(fin) : Without(ch, fin[i].job, late'[fin[i].job])
      BY <3>1, <1>2, WithoutMore DEF Inv, FinishLast
    <3> QED BY <3>1, <3>2, <2>0, <1>0, <1>2 DEF Inv, FinishLast
  <2>6. Accounted'
    BY <2>0, <1>0, <1>2 DEF Inv, Accounted
  <2> QED BY <1>5, <2>1, <2>2, <2>3, <2>4, <2>5, <2>6 DEF Inv
<1> QED BY <1>a, <1>b

\* A finish record is queued behind the job's lines, or dropped.
LEMMA FinishJobInv ==
    ASSUME Inv, NEW j \in Jobs, NEW outcome \in Outcomes, FinishJob(j, outcome)
    PROVE  Inv'
<1> USE DEF Inv, FinishJob, dbVars
<1>0. /\ phase[j] = "running"
      /\ phase' = [phase EXCEPT ![j] = "over"]
      /\ UNCHANGED <<batch, wpc, fin, row, lines, up, closing, spoilt, offered, late, accepted,
                     logged>>
  OBVIOUS
<1>6. RowsAndPhases'
  BY <1>0 DEF RowsAndPhases, TypeOK
<1>a. CASE HasRoom
  <2> DEFINE rec == FinishRec(j, outcome)
  <2>0. rec \in Record /\ rec.job = j /\ rec.seq = 0 /\ IsFinish(rec)
    BY StoreAssumption DEF FinishRec, Record, IsFinish
  <2>a. ch \in Seq(Record) /\ ch' = Append(ch, rec)
    BY <1>a DEF TypeOK
  <2> HIDE DEF rec
  <2>b. /\ ch' \in Seq(Record)
        /\ Len(ch) \in Nat
        /\ Len(ch') = Len(ch) + 1
        /\ \A i \in 1 .. Len(ch) : ch'[i] = ch[i]
        /\ ch'[Len(ch) + 1] = rec
    BY <2>0, <2>a, AppendFacts
  <2>e. \A k, m, l :
           /\ Without(Append(ch, rec), k, l) <=>
                 Without(ch, k, l) /\ (rec.job = k => rec.seq \in l)
           /\ Holds(ch, k, m) => Holds(Append(ch, rec), k, m)
    BY <2>0, <2>a, AppendQueue
  <2>c. /\ \A k, l : Without(ch', k, l) <=> Without(ch, k, l) /\ (k = j => 0 \in l)
        /\ \A k, m : Holds(ch, k, m) => Holds(ch', k, m)
    BY <2>0, <2>a, <2>e
  <2>1. TypeOK'
    BY <2>b, <1>0, <1>a, StoreAssumption DEF TypeOK, HasRoom
  <2>2. RetiredIsClear'
    <3>1. \A k \in Jobs : Retired(k)' = Retired(k) /\ (Absent(k)' => Absent(k))
      BY <1>0 DEF Retired, Absent, TypeOK
    <3>2. ~Retired(j) /\ ~Absent(j)
      BY <1>0 DEF Retired, Absent, RowsAndPhases
    <3> QED BY <3>1, <3>2, <2>c, <1>0 DEF RetiredIsClear
  <2>2a. Offered'
    BY <2>c, <1>0 DEF Offered
  <2>3. NoEarlyFinish'
    <3>1. \A k \in Jobs : phase'[k] = "running" => phase[k] = "running" /\ k # j
      BY <1>0 DEF TypeOK
    <3> QED BY <2>0, <2>b, <1>0, <3>1 DEF NoEarlyFinish
  <2>4. FinishLast'
    <3>1. /\ \A i \in 1 .. Len(ch) : IsFinish(ch[i]) => ch[i].job # j
          /\ Without(fin, j, {})
      BY <1>0 DEF NoEarlyFinish
    <3>2. \A i, k \in 1 .. Len(ch') :
             i < k /\ IsFinish(ch'[i]) /\ ch'[k].job = ch'[i].job =>
                ch'[k].seq \in late[ch'[k].job]
      BY <2>0, <2>b, <3>1 DEF FinishLast
    <3>3. \A i \in 1 .. Len(fin) : Without(ch', fin[i].job, late[fin[i].job])
      <4>1. \A i \in 1 .. Len(fin) : fin[i].job # j
        BY <3>1 DEF Without
      <4> QED BY <4>1, <2>c DEF FinishLast
    <3> QED BY <3>2, <3>3, <1>0 DEF FinishLast
  <2>5. WriterInv'
    BY <2>0, <2>b, <1>0 DEF WriterInv
  <2>7. Accounted'
    BY <2>c, <1>0 DEF Accounted, TypeOK
  <2> QED BY <1>6, <2>1, <2>2, <2>2a, <2>3, <2>4, <2>5, <2>7
<1>b. CASE ~HasRoom
  <2>0. ch' = ch
    BY <1>b
  <2>1. TypeOK'
    BY <2>0, <1>0 DEF TypeOK
  <2>2. RetiredIsClear' /\ Offered'
    BY <2>0, <1>0 DEF RetiredIsClear, Retired, Absent, Offered, TypeOK
  <2>3. NoEarlyFinish'
    BY <2>0, <1>0 DEF NoEarlyFinish, TypeOK
  <2>4. FinishLast' /\ WriterInv'
    BY <2>0, <1>0 DEF FinishLast, WriterInv
  <2>5. Accounted'
    BY <2>0, <1>0 DEF Accounted, TypeOK
  <2> QED BY <1>6, <2>1, <2>2, <2>3, <2>4, <2>5
<1> QED BY <1>a, <1>b

\* The writer moves a line from the queue to its batch.
LEMMA TakeLineInv ==
    ASSUME Inv, TakeLine
    PROVE  Inv'
<1> USE DEF Inv, TakeLine, dbVars, clientVars
<1> DEFINE rec == Head(ch)
<1>0. /\ ch \in Seq(Record) /\ ch # <<>> /\ batch \in Seq(Record)
      /\ fin = <<>> /\ up
      /\ ch' = Tail(ch) /\ batch' = Append(batch, rec)
      /\ UNCHANGED <<fin, row, lines, phase, offered, late, accepted, logged, up,
                     closing, spoilt>>
  BY DEF TypeOK
<1>1. /\ ch' \in Seq(Record)
      /\ Len(ch) \in Nat \ {0}
      /\ Len(ch') = Len(ch) - 1
      /\ \A i \in 1 .. Len(ch') : ch'[i] = ch[i + 1]
      /\ rec = ch[1]
      /\ rec \in Record
  BY <1>0, TailFacts
<1>2. ~IsFinish(rec)
  OBVIOUS
<1> HIDE DEF rec
<1>3. /\ batch' \in Seq(Record)
      /\ Len(batch) \in Nat
      /\ Len(batch') = Len(batch) + 1
      /\ \A i \in 1 .. Len(batch) : batch'[i] = batch[i]
      /\ batch'[Len(batch) + 1] = rec
  BY <1>0, <1>1, AppendFacts
<1>a. \A j, n, l :
         /\ Without(ch, j, l) => Without(Tail(ch), j, l)
         /\ Without(ch, j, l) => (Head(ch).job = j => Head(ch).seq \in l)
         /\ Holds(ch, j, n) =>
               \/ Holds(Tail(ch), j, n)
               \/ Head(ch).job = j /\ Head(ch).seq = n
  BY <1>0, TailQueue
<1>b. \A j, n, l :
         /\ Without(Append(batch, rec), j, l) <=>
               Without(batch, j, l) /\ (rec.job = j => rec.seq \in l)
         /\ Holds(batch, j, n) => Holds(Append(batch, rec), j, n)
         /\ rec.job = j /\ rec.seq = n => Holds(Append(batch, rec), j, n)
  BY <1>0, <1>1, AppendQueue
<1>4. \A j, l :
         /\ Without(ch, j, l) => Without(ch', j, l)
         /\ Without(ch, j, l) /\ Without(batch, j, l) => Without(batch', j, l)
  BY <1>0, <1>a, <1>b DEF rec
<1>5. \A j, n :
         /\ Holds(batch, j, n) => Holds(batch', j, n)
         /\ Holds(ch, j, n) => Holds(ch', j, n) \/ Holds(batch', j, n)
  BY <1>0, <1>a, <1>b DEF rec
<1>6. TypeOK'
  BY <1>0, <1>1, <1>3, StoreAssumption DEF TypeOK, WriterInv
<1>7. RetiredIsClear'
  BY <1>0, <1>4 DEF RetiredIsClear, Retired, Absent
<1>7a. Offered'
  <2>1. rec.seq # 0
    BY <1>1, <1>2 DEF WriterInv
  <2>2. \A j \in Jobs : rec.job = j => rec.seq \in offered[j]
    BY <2>1, <1>a DEF Offered, rec
  <2> QED BY <2>2, <1>0, <1>4, <1>b DEF Offered
<1>8. NoEarlyFinish'
  BY <1>0, <1>1 DEF NoEarlyFinish
<1>9. FinishLast'
  <2>1. \A i, k \in 1 .. Len(ch') :
           i < k /\ IsFinish(ch'[i]) /\ ch'[k].job = ch'[i].job =>
              ch'[k].seq \in late[ch'[k].job]
    BY <1>1 DEF FinishLast
  <2> QED BY <1>0, <2>1 DEF FinishLast
<1>10. WriterInv'
  BY <1>0, <1>1, <1>2, <1>3, StoreAssumption DEF WriterInv, TypeOK
<1>11. RowsAndPhases'
  BY <1>0 DEF RowsAndPhases
<1>12. Accounted'
  BY <1>0, <1>5 DEF Accounted, TypeOK
<1> QED BY <1>6, <1>7, <1>7a, <1>8, <1>9, <1>10, <1>11, <1>12

\* The writer takes a finish record; no line of the job is left in the queue,
\* and no other record of it.
LEMMA TakeFinishInv ==
    ASSUME Inv, TakeFinish
    PROVE  Inv'
<1> USE DEF Inv, TakeFinish, dbVars, clientVars
<1> DEFINE rec == Head(ch)
<1>0. /\ ch \in Seq(Record) /\ ch # <<>> /\ up
      /\ ch' = Tail(ch) /\ fin' = <<rec>> /\ wpc' = "flushFinish"
      /\ UNCHANGED <<batch, row, lines, phase, offered, late, accepted, logged, up,
                     closing, spoilt>>
  BY DEF TypeOK
<1>1. /\ ch' \in Seq(Record)
      /\ Len(ch) \in Nat \ {0}
      /\ Len(ch') = Len(ch) - 1
      /\ \A i \in 1 .. Len(ch') : ch'[i] = ch[i + 1]
      /\ rec = ch[1]
      /\ rec \in Record
  BY <1>0, TailFacts
<1>2. IsFinish(rec)
  OBVIOUS
<1>3. \A j, n, l :
         /\ Without(ch, j, l) => Without(Tail(ch), j, l)
         /\ Without(ch, j, l) => (Head(ch).job = j => Head(ch).seq \in l)
         /\ Holds(ch, j, n) =>
               \/ Holds(Tail(ch), j, n)
               \/ Head(ch).job = j /\ Head(ch).seq = n
  BY <1>0, TailQueue
<1>4. /\ rec.seq = 0
      /\ \A j, l : Without(ch, j, l) => Without(ch', j, l) /\ (rec.job = j => 0 \in l)
      /\ \A j, n : Holds(ch, j, n) /\ n # 0 => Holds(ch', j, n)
  <2>1. rec.seq = 0
    BY <1>1, <1>2 DEF WriterInv
  <2> QED BY <1>0, <1>3, <2>1
<1> HIDE DEF rec
<1>5. /\ fin' \in Seq(Record) /\ Len(fin') = 1 /\ fin'[1] = rec
      /\ \A j, l : Without(fin', j, l) <=> (rec.job = j => 0 \in l)
  BY <1>0, <1>1, <1>4 DEF Without
<1>6. TypeOK'
  BY <1>0, <1>1, <1>5, StoreAssumption DEF TypeOK
<1>7. RetiredIsClear'
  BY <1>0, <1>4, <1>5 DEF RetiredIsClear, Retired, Absent
<1>7a. Offered'
  BY <1>0, <1>4 DEF Offered
<1>8. NoEarlyFinish'
  BY <1>0, <1>1, <1>2, <1>5 DEF NoEarlyFinish
<1>9. FinishLast'
  <2>1. \A i, k \in 1 .. Len(ch') :
           i < k /\ IsFinish(ch'[i]) /\ ch'[k].job = ch'[i].job =>
              ch'[k].seq \in late[ch'[k].job]
    BY <1>1 DEF FinishLast
  <2>2. Without(ch', rec.job, late[rec.job])
    BY <1>1, <1>2 DEF FinishLast, Without
  <2> QED BY <1>0, <1>2, <1>5, <2>1, <2>2 DEF FinishLast
<1>10. WriterInv'
  BY <1>0, <1>1 DEF WriterInv
<1>11. RowsAndPhases'
  BY <1>0 DEF RowsAndPhases
<1>12. Accounted'
  BY <1>0, <1>4 DEF Accounted, TypeOK
<1> QED BY <1>6, <1>7, <1>7a, <1>8, <1>9, <1>10, <1>11, <1>12

\* The ticker, or Close, sends the writer to flush.
LEMMA TickInv ==
    ASSUME Inv, Tick \/ TakeDone \/ Close
    PROVE  Inv'
<1>1. UNCHANGED <<ch, batch, fin, row, lines, up, phase, offered, late, accepted,
                spoilt, logged>>
  BY DEF Tick, TakeDone, Close, queueVars, dbVars, clientVars
<1>2. /\ closing' \in BOOLEAN
      /\ wpc' = wpc \/ (wpc = "select" /\ wpc' \in {"flush", "flushClose"})
  BY DEF Inv, TypeOK, Tick, TakeDone, Close, queueVars
<1>3. TypeOK'
  BY <1>1, <1>2 DEF Inv, TypeOK
<1>4. RetiredIsClear' /\ Offered' /\ NoEarlyFinish' /\ FinishLast'
  BY <1>1 DEF Inv, RetiredIsClear, Retired, Absent, Offered,
     NoEarlyFinish, FinishLast
<1>5. WriterInv'
  BY <1>1, <1>2 DEF Inv, WriterInv
<1>6. RowsAndPhases' /\ Accounted'
  BY <1>1 DEF Inv, RowsAndPhases, Accounted
<1> QED BY <1>3, <1>4, <1>5, <1>6 DEF Inv

\* What a transaction takes out of the batch (flush).
LEMMA PrefixFacts ==
    ASSUME Inv, NEW k \in 0 .. Len(batch), NEW j \in Jobs
    PROVE  /\ Prefix(j, k) \subseteq 1 .. MaxSeq
           /\ \A l : Without(batch, j, l) => Prefix(j, k) \subseteq l
           /\ \A n : Holds(batch, j, n) => n \in Prefix(j, Len(batch))
<1>1. batch \in Seq(Record) /\ Len(batch) \in Nat
  BY DEF Inv, TypeOK
<1>2. \A i \in 1 .. k : i \in 1 .. Len(batch) /\ batch[i] \in Record /\ batch[i].seq # 0
  BY <1>1 DEF Inv, WriterInv
<1>3. Prefix(j, k) \subseteq 1 .. MaxSeq
  BY <1>2, StoreAssumption DEF Prefix, Record
<1>4. \A l : Without(batch, j, l) => Prefix(j, k) \subseteq l
  BY <1>2 DEF Prefix, Without
<1>5. \A n : Holds(batch, j, n) => n \in Prefix(j, Len(batch))
  BY <1>1 DEF Prefix, Holds
<1> QED BY <1>3, <1>4, <1>5

\* A transaction commits a prefix of the batch; the rest is spoilt.
LEMMA FlushInv ==
    ASSUME Inv, FlushBatch \/ FlushBeforeFinish \/ FlushAtClose
    PROVE  Inv'
<1>0. /\ up /\ up'
      /\ batch' = <<>>
      /\ UNCHANGED <<ch, fin, row, phase, offered, late, accepted, logged, closing>>
  BY DEF FlushBatch, FlushBeforeFinish, FlushAtClose, Flush, clientVars
<1>1. \/ wpc = "flush" /\ wpc' = "select"
      \/ wpc = "flushFinish" /\ wpc' = "update"
      \/ wpc = "flushClose" /\ wpc' = "stopped"
  BY DEF FlushBatch, FlushBeforeFinish, FlushAtClose, Flush
<1>2. PICK k \in 0 .. Len(batch) :
         /\ lines' = [j \in Jobs |-> lines[j] \cup Prefix(j, k)]
         /\ spoilt' = [j \in Jobs |->
                         spoilt[j] \cup (Prefix(j, Len(batch)) \ Prefix(j, k))]
  BY DEF FlushBatch, FlushBeforeFinish, FlushAtClose, Flush
<1>3. Len(batch) \in 0 .. Len(batch)
  BY DEF Inv, TypeOK
<1>4. \A j \in Jobs :
         /\ lines'[j] \subseteq 1 .. MaxSeq
         /\ spoilt'[j] \subseteq 1 .. MaxSeq
         /\ lines[j] \subseteq lines'[j]
         /\ spoilt[j] \subseteq spoilt'[j]
         /\ \A l : Without(batch, j, l) => lines'[j] \subseteq lines[j] \cup l
         /\ \A n : Holds(batch, j, n) => n \in lines'[j] \cup spoilt'[j]
  BY <1>2, <1>3, PrefixFacts DEF Inv, TypeOK
<1>5. TypeOK'
  <2>1. lines' \in [Jobs -> SUBSET (1 .. MaxSeq)] /\ spoilt' \in [Jobs -> SUBSET (1 .. MaxSeq)]
    BY <1>2, <1>4
  <2> QED BY <1>0, <1>1, <2>1, StoreAssumption DEF Inv, TypeOK
<1>6. RetiredIsClear'
  BY <1>0, EmptyQueue DEF Inv, RetiredIsClear, Retired, Absent
<1>6a. Offered'
  <2>1. \A j \in Jobs : lines'[j] \subseteq offered[j]
    BY <1>4 DEF Inv, Offered
  <2> QED BY <1>0, <2>1, EmptyQueue DEF Inv, Offered
<1>7. NoEarlyFinish' /\ FinishLast'
  BY <1>0 DEF Inv, NoEarlyFinish, FinishLast
<1>8. WriterInv'
  BY <1>0, <1>1, StoreAssumption DEF Inv, WriterInv
<1>9. RowsAndPhases'
  <2>1. \A j \in Jobs : logged[j] /\ row[j] = "none" => lines'[j] \subseteq late[j]
    BY <1>4 DEF Inv, RowsAndPhases, RetiredIsClear, Retired
  <2>2. \A j \in Jobs : phase[j] = "new" => lines'[j] = {}
    BY <1>4 DEF Inv, RowsAndPhases, RetiredIsClear, Absent
  <2> QED BY <1>0, <2>1, <2>2 DEF Inv, RowsAndPhases
<1>10. Accounted'
  BY <1>0, <1>4 DEF Inv, Accounted
<1> QED BY <1>5, <1>6, <1>6a, <1>7, <1>8, <1>9, <1>10 DEF Inv

\* The outcome enters the row, after the job's lines.
LEMMA UpdateRowInv ==
    ASSUME Inv, UpdateRow
    PROVE  Inv'
<1> DEFINE rec == Head(fin)
<1>0. /\ wpc = "update" /\ wpc' = "select" /\ up
      /\ fin' = <<>> /\ batch = <<>>
      /\ UNCHANGED <<ch, batch, lines, phase, offered, late, accepted, logged, up,
                     closing, spoilt>>
  BY DEF UpdateRow, clientVars, Inv, WriterInv
<1>1. fin \in Seq(Record) /\ Len(fin) = 1
  BY <1>0 DEF Inv, TypeOK
<1>2. /\ rec = fin[1] /\ rec \in Record /\ rec.job \in Jobs
      /\ rec.end \in Outcomes
  <2>1. rec = fin[1] /\ rec \in Record
    BY <1>1
  <2>2. IsFinish(fin[1])
    BY <1>1 DEF Inv, FinishLast
  <2> QED BY <2>1, <2>2 DEF IsFinish, Record
<1>3. /\ Without(ch, rec.job, late[rec.job])
      /\ phase[rec.job] = "over"
      /\ row[rec.job] \in {"none", "running"}
      /\ row[rec.job] = "none" => ~logged[rec.job]
  <2>1. Without(ch, rec.job, late[rec.job])
    BY <1>1, <1>2 DEF Inv, FinishLast
  <2>a. rec.seq = 0 /\ 0 \notin late[rec.job]
    <3>1. fin[1].seq = 0
      BY <1>1 DEF Inv, WriterInv
    <3>2. late[rec.job] \subseteq 1 .. MaxSeq
      BY <1>2 DEF Inv, TypeOK
    <3> QED BY <3>1, <3>2, <1>2
  <2>b. ~Without(fin, rec.job, late[rec.job]) /\ ~Without(fin, rec.job, {})
    BY <1>1, <1>2, <2>a DEF Without
  <2>2. ~Retired(rec.job) /\ ~Absent(rec.job) /\ phase[rec.job] # "running"
    BY <1>2, <2>b DEF Inv, RetiredIsClear, NoEarlyFinish
  <2> QED BY <1>2, <2>1, <2>2 DEF Retired, Absent, Inv, TypeOK
<1>4. \A j \in Jobs :
         row'[j] # row[j] => j = rec.job /\ row[j] = "running" /\ row'[j] \in Outcomes
  BY <1>2, <1>3 DEF UpdateRow, Inv, TypeOK
<1>5. row' \in [Jobs -> Terminal \cup {"none", "running"}]
  BY <1>2 DEF UpdateRow, Inv, TypeOK
<1> HIDE DEF rec
<1>6. TypeOK'
  BY <1>0, <1>5 DEF Inv, TypeOK
<1>7. RetiredIsClear'
  BY <1>0, <1>3, <1>4, EmptyQueue DEF Inv, RetiredIsClear, Retired, Absent
<1>7a. Offered'
  BY <1>0 DEF Inv, Offered
<1>8. NoEarlyFinish'
  BY <1>0, EmptyQueue DEF Inv, NoEarlyFinish
<1>9. FinishLast'
  BY <1>0 DEF Inv, FinishLast
<1>10. WriterInv'
  BY <1>0, StoreAssumption DEF Inv, WriterInv
<1>11. RowsAndPhases'
  BY <1>0, <1>3, <1>4 DEF Inv, RowsAndPhases
<1>12. Accounted'
  <2>1. \A n \in accepted[rec.job] \ late[rec.job] :
            ~Holds(ch, rec.job, n) /\ ~Holds(batch, rec.job, n)
    BY <1>0, <1>3, EmptyQueue DEF Without, Holds
  <2> QED BY <1>0, <1>3, <1>4, <2>1 DEF Inv, Accounted
<1> QED BY <1>6, <1>7, <1>7a, <1>8, <1>9, <1>10, <1>11, <1>12 DEF Inv

\* Finished rows go, and the lines of jobs without a row.
LEMMA RetentionInv ==
    ASSUME Inv, NEW S \in SUBSET Jobs, Retention(S)
    PROVE  Inv'
<1>0. UNCHANGED <<ch, batch, fin, wpc, phase, offered, late, accepted, logged, up,
                closing, spoilt>>
  BY DEF Retention, queueVars, clientVars
<1>1. \A j \in Jobs :
         /\ row'[j] = row[j] \/ (row[j] \in Terminal /\ row'[j] = "none")
         /\ lines'[j] = IF row'[j] = "none" THEN {} ELSE lines[j]
  BY DEF Retention, Inv, TypeOK
<1>2. TypeOK'
  <2>1. /\ row' \in [Jobs -> Terminal \cup {"none", "running"}]
        /\ lines' \in [Jobs -> SUBSET (1 .. MaxSeq)]
    BY DEF Retention, Inv, TypeOK
  <2> QED BY <1>0, <2>1 DEF Inv, TypeOK
<1>3. RetiredIsClear'
  <2>1. \A j \in Jobs : /\ Absent(j)' = Absent(j)
                        /\ Retired(j)' => Retired(j)
    BY <1>0, <1>1 DEF Retired, Absent
  <2> QED BY <1>0, <2>1 DEF Inv, RetiredIsClear
<1>3a. Offered'
  BY <1>0, <1>1 DEF Inv, Offered
<1>4. NoEarlyFinish' /\ FinishLast' /\ WriterInv'
  BY <1>0 DEF Inv, NoEarlyFinish, FinishLast, WriterInv
<1>5. RowsAndPhases'
  BY <1>0, <1>1 DEF Inv, RowsAndPhases
<1>6. Accounted'
  BY <1>0, <1>1 DEF Inv, Accounted
<1> QED BY <1>2, <1>3, <1>3a, <1>4, <1>5, <1>6 DEF Inv

\* The process ends, by Close or by a crash, and its memory is gone.
LEMMA StopInv ==
    ASSUME Inv, Stop
    PROVE  Inv'
<1>0. /\ ch' = <<>> /\ batch' = <<>> /\ fin' = <<>> /\ wpc' = "stopped" /\ ~up'
      /\ phase' = [j \in Jobs |-> IF phase[j] = "new" THEN "new" ELSE "dead"]
      /\ up' \in BOOLEAN
      /\ UNCHANGED <<row, lines, closing, offered, late, accepted, spoilt, logged>>
  BY DEF Stop, dbVars
<1>1. TypeOK'
  BY <1>0, StoreAssumption DEF Inv, TypeOK
<1>2. RetiredIsClear' /\ Offered'
  BY <1>0, EmptyQueue DEF Inv, RetiredIsClear, Offered
<1>3. NoEarlyFinish' /\ FinishLast' /\ WriterInv'
  BY <1>0, StoreAssumption DEF NoEarlyFinish, FinishLast, WriterInv
<1>4. RowsAndPhases'
  BY <1>0 DEF Inv, RowsAndPhases, TypeOK
<1>5. Accounted'
  BY <1>0 DEF Inv, Accounted, RowsAndPhases
<1> QED BY <1>1, <1>2, <1>3, <1>4, <1>5 DEF Inv

\* The next start turns running rows into orphans.
LEMMA OpenStoreInv ==
    ASSUME Inv, OpenStore
    PROVE  Inv'
<1>0. /\ ~up /\ up' = TRUE /\ closing' = FALSE /\ wpc' = "select"
      /\ row' = [j \in Jobs |-> IF row[j] = "running" THEN "orphaned" ELSE row[j]]
      /\ UNCHANGED <<ch, batch, fin, lines, phase, offered, late, accepted, logged,
                     spoilt>>
      /\ batch = <<>> /\ fin = <<>>
  BY DEF OpenStore, recover, clientVars, Inv, WriterInv
<1>1. TypeOK'
  BY <1>0, StoreAssumption DEF Inv, TypeOK
<1>2. RetiredIsClear'
  <2>1. \A j \in Jobs : Absent(j)' = Absent(j) /\ Absent(j)
    BY <1>0 DEF Inv, Absent, RowsAndPhases
  <2>2. \A j \in Jobs : /\ Without(ch, j, late[j])
                        /\ Without(batch, j, late[j])
                        /\ Without(fin, j, late[j])
    BY <2>1, WithoutMore DEF Inv, RetiredIsClear
  <2> QED BY <1>0, <2>1, <2>2 DEF Inv, RetiredIsClear
<1>2a. Offered'
  BY <1>0 DEF Inv, Offered
<1>3. NoEarlyFinish' /\ FinishLast' /\ WriterInv'
  BY <1>0, StoreAssumption DEF Inv, NoEarlyFinish, FinishLast, WriterInv
<1>4. RowsAndPhases'
  BY <1>0 DEF Inv, RowsAndPhases, TypeOK
<1>5. Accounted'
  BY <1>0 DEF Inv, Accounted, RowsAndPhases
<1> QED BY <1>1, <1>2, <1>2a, <1>3, <1>4, <1>5 DEF Inv

-----------------------------------------------------------------------------
(* Theorems                                                                *)

\* A new database satisfies Inv.
LEMMA InitInv == Init => Inv
<1> SUFFICES ASSUME Init PROVE Inv
  OBVIOUS
<1>1. TypeOK
  <2>1. <<>> \in Seq(Record) /\ Len(<<>>) = 0
    OBVIOUS
  <2>2. /\ ch \in Seq(Record) /\ Len(ch) <= ChannelCap
        /\ batch \in Seq(Record) /\ Len(batch) <= BatchLen
        /\ fin \in Seq(Record) /\ Len(fin) = 0
    BY <2>1, StoreAssumption DEF Init
  <2>3. row \in [Jobs -> Terminal \cup {"none", "running"}]
    BY DEF Init
  <2>4. phase \in [Jobs -> {"new", "running", "over", "dead"}]
    BY DEF Init
  <2>5. logged \in [Jobs -> BOOLEAN] /\ up \in BOOLEAN /\ closing \in BOOLEAN
    BY DEF Init
  <2>6. \A f \in {lines, offered, late, accepted, spoilt} :
            f \in [Jobs -> SUBSET (1 .. MaxSeq)]
    BY DEF Init
  <2>7. wpc = "select"
    BY DEF Init
  <2> QED BY <2>2, <2>3, <2>4, <2>5, <2>6, <2>7 DEF TypeOK
<1>2. RetiredIsClear /\ Offered /\ NoEarlyFinish /\ FinishLast /\ WriterInv
  BY StoreAssumption DEF Init, RetiredIsClear, Offered, NoEarlyFinish, FinishLast,
     WriterInv, Without
<1>3. RowsAndPhases /\ Accounted
  BY DEF Init, RowsAndPhases, Accounted
<1> QED BY <1>1, <1>2, <1>3 DEF Inv

\* Every step keeps Inv.
LEMMA NextInv == Inv /\ [Next]_vars => Inv'
<1> SUFFICES ASSUME Inv, [Next]_vars PROVE Inv'
  OBVIOUS
<1>1. ASSUME NEW j \in Jobs, Client(j) PROVE Inv'
  BY <1>1, EnqueueJobInv, TryEnqueueLineInv, FinishJobInv DEF Client
<1>2. CASE Writer
  BY <1>2, TakeLineInv, TakeFinishInv, TickInv, UpdateRowInv, FlushInv DEF Writer
<1>3. ASSUME NEW S \in SUBSET Jobs, Retention(S) PROVE Inv'
  BY <1>3, RetentionInv
<1>4. CASE Close
  BY <1>4, TickInv
<1>5. CASE CloseDB \/ Crash
  BY <1>5, StopInv DEF CloseDB, Crash
<1>6. CASE OpenStore
  BY <1>6, OpenStoreInv
<1>7. CASE UNCHANGED vars
  BY <1>7 DEF vars, queueVars, dbVars, clientVars, Inv, TypeOK, RetiredIsClear,
     Retired, Absent, Offered, NoEarlyFinish, FinishLast, WriterInv,
     RowsAndPhases, Accounted
<1> QED BY <1>1, <1>2, <1>3, <1>4, <1>5, <1>6, <1>7 DEF Next

\* Inv holds of every reachable state of the store (store.go).
THEOREM InvHolds == Spec => []Inv
BY InitInv, NextInv, PTL DEF Spec

\* The variables keep their types; in particular the queue never holds more
\* than its capacity and the batch never more than writeBatchLen lines.
THEOREM TypeCorrect == Spec => []TypeOK
<1>1. Inv => TypeOK
  BY DEF Inv
<1> QED BY InvHolds, <1>1, PTL

\* A finish record commits strictly after the lines of its job that were
\* accepted before it.
THEOREM FinishAfterLinesHolds == Spec => []FinishAfterLines
<1>1. Inv => FinishAfterLines
  BY DEF Inv, Accounted, FinishAfterLines
<1> QED BY InvHolds, <1>1, PTL

\* While the store is open no row is left running by an earlier process.
THEOREM RunningIsOursHolds == Spec => []RunningIsOurs
<1>1. Inv => RunningIsOurs
  BY DEF Inv, RowsAndPhases, RunningIsOurs
<1> QED BY InvHolds, <1>1, PTL

\* Retention and the writer together leave no lines of a deleted job but the
\* strays of commands it left behind.
THEOREM NoOrphanLinesHolds == Spec => []NoOrphanLines
<1>1. Inv => NoOrphanLines
  BY DEF Inv, RowsAndPhases, NoOrphanLines
<1> QED BY InvHolds, <1>1, PTL

\* A step changes a terminal row only by deleting it.
LEMMA StableStep ==
    ASSUME Inv, Next, NEW j \in Jobs, row[j] \in Terminal
    PROVE  row'[j] \in {row[j], "none"}
<1>1. ASSUME NEW k \in Jobs, Client(k) PROVE row'[j] = row[j]
  <2>1. ASSUME EnqueueJob(k) PROVE row'[j] = row[j]
    <3>1. k # j
      BY <2>1 DEF EnqueueJob, Inv, RowsAndPhases
    <3> QED BY <2>1, <3>1 DEF EnqueueJob, Inv, TypeOK
  <2> QED BY <1>1, <2>1 DEF Client, TryEnqueueLine, FinishJob, dbVars
<1>2. CASE Writer
  <2>1. ASSUME UpdateRow PROVE row'[j] = row[j]
    <3>0. Without(fin, j, late[j]) /\ 0 \notin late[j]
      BY DEF Inv, TypeOK, RetiredIsClear, Retired
    <3>1. Len(fin) = 1 /\ Head(fin) = fin[1] /\ fin[1].job # j
      BY <2>1, <3>0 DEF UpdateRow, Inv, TypeOK, WriterInv, Without
    <3> QED BY <2>1, <3>1 DEF UpdateRow, Inv, TypeOK
  <2> QED
    BY <1>2, <2>1 DEF Writer, TakeLine, TakeFinish, Tick, TakeDone, FlushBatch,
       FlushBeforeFinish, FlushAtClose, Flush, dbVars
<1>3. ASSUME NEW S \in SUBSET Jobs, Retention(S) PROVE row'[j] \in {row[j], "none"}
  BY <1>3 DEF Retention
<1>4. CASE Close \/ CloseDB \/ Crash
  BY <1>4 DEF Close, CloseDB, Crash, Stop, dbVars
<1>5. CASE OpenStore
  BY <1>5 DEF OpenStore, recover
<1> QED BY <1>1, <1>2, <1>3, <1>4, <1>5 DEF Next

\* Neither a late finish record nor a later recovery changes a terminal row.
THEOREM TerminalIsStableHolds == Spec => TerminalIsStable
<1>1. Inv /\ [Next]_vars =>
         [\A j \in Jobs : row[j] \in Terminal => row'[j] \in {row[j], "none"}]_vars
  BY StableStep DEF vars, dbVars
<1> QED BY InvHolds, <1>1, PTL DEF Spec, TerminalIsStable

-----------------------------------------------------------------------------
(* Store implements History                                                *)

\* The initial tables are an empty history.
LEMMA HistoryInit == Init => H!Init
BY DEF Init, H!Init, statusBar, logBar, straysBar

\* A job that is not retired is running, or was never recorded.
LEMMA OpenStatus ==
    ASSUME Inv, NEW j \in Jobs, ~Retired(j)
    PROVE  statusBar[j] \in {"absent", "running"}
BY DEF Retired, statusBar, Inv, TypeOK

\* Each step on the tables is a step of History, or a stutter.
LEMMA HistoryNext ==
    ASSUME Inv, [Next]_vars
    PROVE  [H!Next]_<<statusBar, logBar, straysBar>>
<1> DEFINE bars == <<statusBar, logBar, straysBar>>
<1>1. ASSUME NEW j \in Jobs, EnqueueJob(j)
      PROVE  H!Register(j) \/ UNCHANGED bars
  <2>1. statusBar[j] = "absent" /\ UNCHANGED <<logBar, straysBar>>
    BY <1>1 DEF EnqueueJob, Inv, RowsAndPhases, statusBar, logBar, straysBar
  <2>2. CASE UNCHANGED <<row, logged>>
    BY <2>1, <2>2 DEF statusBar
  <2>3. CASE /\ row' = [row EXCEPT ![j] = "running"]
             /\ logged' = [logged EXCEPT ![j] = TRUE]
    <3>1. statusBar' = [statusBar EXCEPT ![j] = "running"]
      BY <2>3 DEF statusBar, Inv, TypeOK
    <3> QED BY <2>1, <3>1 DEF H!Register
  <2> QED BY <1>1, <2>2, <2>3 DEF EnqueueJob
<1>2. ASSUME FlushBatch \/ FlushBeforeFinish \/ FlushAtClose
      PROVE  H!Commit
  <2>1. statusBar' = statusBar /\ late' = late
    BY <1>2 DEF FlushBatch, FlushBeforeFinish, FlushAtClose, Flush, clientVars, statusBar
  <2>2. PICK k \in 0 .. Len(batch) :
           lines' = [j \in Jobs |-> lines[j] \cup Prefix(j, k)]
    BY <1>2 DEF FlushBatch, FlushBeforeFinish, FlushAtClose, Flush
  <2>3. \A j \in Jobs :
           /\ lines'[j] \subseteq 1 .. MaxSeq
           /\ lines[j] \subseteq lines'[j]
           /\ \A l : Without(batch, j, l) => lines'[j] \subseteq lines[j] \cup l
    BY <2>2, PrefixFacts DEF Inv, TypeOK
  <2>4. /\ logBar' \in [Jobs -> SUBSET (1 .. MaxSeq)]
        /\ straysBar' \in [Jobs -> SUBSET (1 .. MaxSeq)]
        /\ \A j \in Jobs : /\ logBar[j] \subseteq logBar'[j]
                           /\ straysBar[j] \subseteq straysBar'[j]
    BY <2>1, <2>3 DEF logBar, straysBar
  <2>5. ASSUME NEW j \in Jobs, logBar'[j] # logBar[j]
        PROVE  statusBar[j] \in {"absent", "running"}
    <3>1. ~Without(batch, j, late[j])
      BY <2>1, <2>3, <2>5 DEF logBar
    <3> QED BY <3>1, OpenStatus DEF Inv, RetiredIsClear
  <2>6. ASSUME NEW j \in Jobs, straysBar'[j] # straysBar[j]
        PROVE  statusBar[j] # "orphaned"
    <3>1. ~Without(batch, j, {})
      BY <2>1, <2>3, <2>6 DEF straysBar
    <3>2. row[j] # "orphaned"
      BY <3>1 DEF Inv, RetiredIsClear, Absent, RowsAndPhases
    <3> QED BY <3>2 DEF statusBar
  <2> QED BY <2>1, <2>4, <2>5, <2>6 DEF H!Commit
<1>3. ASSUME UpdateRow
      PROVE  \/ \E j \in Jobs, outcome \in H!Outcomes : H!Finish(j, outcome)
             \/ UNCHANGED bars
  <2> DEFINE rec == Head(fin)
  <2>1. UNCHANGED <<logBar, straysBar, logged>>
    BY <1>3 DEF UpdateRow, clientVars, logBar, straysBar
  <2>a. fin \in Seq(Record) /\ Len(fin) = 1
    BY <1>3 DEF UpdateRow, Inv, TypeOK
  <2>2. IsFinish(fin[1]) /\ fin[1].seq = 0
    BY <2>a DEF Inv, FinishLast, WriterInv
  <2>3. rec = fin[1] /\ rec \in Record
    BY <2>a
  <2>4. rec.job \in Jobs /\ rec.end \in Outcomes
    BY <2>2, <2>3 DEF IsFinish, Record
  <2>5. ~Retired(rec.job)
    <3>1. 0 \notin late[rec.job]
      BY <2>4 DEF Inv, TypeOK
    <3> QED BY <2>a, <2>2, <2>3, <2>4, <3>1 DEF Inv, RetiredIsClear, Without
  <2>6. CASE row[rec.job] = "running" /\ row' = [row EXCEPT ![rec.job] = rec.end]
    <3>1. /\ statusBar[rec.job] = "running"
          /\ statusBar' = [statusBar EXCEPT ![rec.job] = rec.end]
      BY <2>1, <2>4, <2>6 DEF statusBar, Inv, TypeOK
    <3>2. H!Finish(rec.job, rec.end)
      BY <2>1, <3>1 DEF H!Finish
    <3> QED BY <2>4, <3>2 DEF H!Outcomes
  <2>7. CASE row' = row
    BY <2>1, <2>7 DEF statusBar
  <2>8. \/ row' = row
        \/ row[rec.job] = "running" /\ row' = [row EXCEPT ![rec.job] = rec.end]
    BY <1>3, <2>4, <2>5 DEF UpdateRow, Retired, Inv, TypeOK
  <2> QED BY <2>6, <2>7, <2>8
<1>4. ASSUME NEW S \in SUBSET Jobs, Retention(S)
      PROVE  H!Forget(S)
  <2>1. /\ \A j \in S : row[j] \in Terminal /\ logged[j]
        /\ logged' = logged
        /\ row' = [j \in Jobs |-> IF j \in S THEN "none" ELSE row[j]]
        /\ lines' = [j \in Jobs |-> IF row'[j] = "none" THEN {} ELSE lines[j]]
    BY <1>4 DEF Retention, clientVars, Inv, RowsAndPhases, TypeOK
  <2>2. \A j \in S : statusBar[j] \in H!Outcomes \cup {"orphaned"}
    BY <2>1 DEF statusBar, H!Outcomes
  <2>3. statusBar' = [j \in Jobs |-> IF j \in S THEN "forgotten" ELSE statusBar[j]]
    BY <2>1 DEF statusBar
  <2>4. late' = late
    BY <1>4 DEF Retention, clientVars
  <2>5. \A j \in Jobs :
           /\ lines'[j] \ late[j] =
                 IF j \in S \/ statusBar[j] = "absent" THEN {} ELSE lines[j] \ late[j]
           /\ lines'[j] \cap late[j] =
                 IF j \in S \/ statusBar[j] \in {"absent", "forgotten"}
                 THEN {} ELSE lines[j] \cap late[j]
    BY <2>1 DEF statusBar, Inv, RowsAndPhases, TypeOK
  <2>6. /\ logBar' = [j \in Jobs |->
                        IF j \in S \/ statusBar[j] = "absent" THEN {} ELSE logBar[j]]
        /\ straysBar' = [j \in Jobs |->
                           IF j \in S \/ statusBar[j] \in {"absent", "forgotten"}
                           THEN {} ELSE straysBar[j]]
    BY <2>4, <2>5 DEF logBar, straysBar
  <2> QED BY <2>2, <2>3, <2>6 DEF H!Forget
<1>5. ASSUME OpenStore
      PROVE  H!Recover
  <2>1. UNCHANGED <<logBar, straysBar, logged>>
    BY <1>5 DEF OpenStore, clientVars, logBar, straysBar
  <2>2. statusBar' = [j \in Jobs |->
                        IF statusBar[j] = "running" THEN "orphaned" ELSE statusBar[j]]
    BY <1>5, <2>1 DEF OpenStore, recover, statusBar
  <2> QED BY <2>1, <2>2 DEF H!Recover
<1>6. ASSUME UNCHANGED <<row, lines, logged, late>>
      PROVE  UNCHANGED bars
  BY <1>6 DEF statusBar, logBar, straysBar
<1>6a. ASSUME NEW j \in Jobs, NEW n \in 1 .. MaxSeq, TryEnqueueLine(j, n)
       PROVE  UNCHANGED bars
  <2>1. n \notin lines[j] /\ UNCHANGED <<row, lines, logged>>
    BY <1>6a DEF TryEnqueueLine, dbVars, Inv, Offered
  <2>2. \A k \in Jobs : late'[k] = late[k] \/ (k = j /\ late'[k] = late[k] \cup {n})
    BY <1>6a DEF TryEnqueueLine, Inv, TypeOK
  <2>3. \A k \in Jobs : /\ lines[k] \ late'[k] = lines[k] \ late[k]
                        /\ lines[k] \cap late'[k] = lines[k] \cap late[k]
    BY <2>1, <2>2
  <2> QED BY <2>1, <2>3 DEF statusBar, logBar, straysBar
<1>7. ASSUME NEW j \in Jobs, Client(j)
      PROVE  \/ EnqueueJob(j)
             \/ \E n \in 1 .. MaxSeq : TryEnqueueLine(j, n)
             \/ UNCHANGED <<row, lines, logged, late>>
  BY <1>7 DEF Client, FinishJob, dbVars
<1>8. ASSUME Writer
      PROVE  \/ FlushBatch \/ FlushBeforeFinish \/ FlushAtClose
             \/ UpdateRow
             \/ UNCHANGED <<row, lines, logged, late>>
  BY <1>8 DEF Writer, TakeLine, TakeFinish, Tick, TakeDone, dbVars, clientVars
<1>9. ASSUME Close \/ CloseDB \/ Crash \/ UNCHANGED vars
      PROVE  UNCHANGED <<row, lines, logged, late>>
  BY <1>9 DEF Close, CloseDB, Crash, Stop, vars, dbVars, clientVars
<1>10. ASSUME NEW j \in Jobs, Client(j) PROVE [H!Next]_bars
  BY <1>10, <1>1, <1>6, <1>6a, <1>7 DEF H!Next
<1>11. ASSUME Writer PROVE [H!Next]_bars
  BY <1>11, <1>2, <1>3, <1>6, <1>8 DEF H!Next
<1>12. ASSUME NEW S \in SUBSET Jobs, Retention(S) PROVE [H!Next]_bars
  BY <1>12, <1>4 DEF H!Next
<1>13. ASSUME OpenStore PROVE [H!Next]_bars
  BY <1>13, <1>5 DEF H!Next
<1> QED BY <1>6, <1>9, <1>10, <1>11, <1>12, <1>13 DEF Next

\* The tables of the store implement the history its readers rely on.
THEOREM StoreImplementsHistory == Spec => ImplementsHistory
<1>1. Inv /\ [Next]_vars => [H!Next]_<<statusBar, logBar, straysBar>>
  BY HistoryNext
<1> QED BY InvHolds, HistoryInit, <1>1, PTL DEF Spec, ImplementsHistory, H!Spec
=============================================================================
