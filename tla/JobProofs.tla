----------------------------- MODULE JobProofs -----------------------------
(***************************************************************************)
(* Proofs about Job: its invariants for any number of writers, watchers    *)
(* and lines, and any capacity of rings and channels.                      *)
(***************************************************************************)
EXTENDS Job, TLAPS

Ended == {"closeDone", "ended"}
Finished == Ended \cup {"finishSubs"}

\* Where the lines are that have not been offered yet: a writer has some only
\* while the command runs or if it is left behind, the goroutine none once it
\* has reported the end.
Control ==
    /\ \A s \in Streams : lock[s] # Free =>
          StreamOf[lock[s]] = s /\ (jpc = "run" \/ lock[s] \in behind)
    /\ jpc # "run" => \A w \in Writers \ behind : pend[w] = <<>>
    /\ jpc \in Finished \cup {"finish"} => pend[Main] = <<>>
    /\ \A p \in Procs : pub[p] => pend[p] # <<>>
    /\ jpc \in {"parse", "run"} => behind = {}

\* The terminal state and the exit code are final when they are reported.
Final ==
    /\ jpc \in Finished \cup {"finish"} => state \in Verdicts
    /\ jpc \in Finished => finish = [state |-> state, exit |-> exit]
    /\ jpc \notin Finished => finish = NoFinish
    /\ done => jpc = "ended"
    /\ \A w \in Watchers :
          /\ chst[w] = "closed" => jpc \in Ended
          /\ chst[w] = "nil" => jpc \in Ended
          /\ wpc[w] \in {"result", "done"} => jpc \in Ended
          /\ wpc[w] = "done" => doneExit[w] = exit

\* Every sequence number is in one place: offered, or waiting in one process.
Numbered ==
    /\ \A i \in 1 .. Len(offered) : offered[i].seq \in 1 .. seq
    /\ \A p \in Procs : \A i \in 1 .. Len(pend[p]) : pend[p][i].seq \in 1 .. seq
    /\ \A i, k \in 1 .. Len(offered) : offered[i].seq = offered[k].seq => i = k
    /\ \A i \in 1 .. Len(offered), p \in Procs :
          \A k \in 1 .. Len(pend[p]) : offered[i].seq # pend[p][k].seq
    /\ \A p, q \in Procs :
          \A i \in 1 .. Len(pend[p]), k \in 1 .. Len(pend[q]) :
             pend[p][i].seq = pend[q][k].seq => p = q /\ i = k

\* Every number that was given out is in one of the two.
Placed ==
    \A n \in 1 .. seq :
        \/ \E i \in 1 .. Len(offered) : offered[i].seq = n
        \/ \E p \in Procs : \E i \in 1 .. Len(pend[p]) : pend[p][i].seq = n

\* Subscribe holds subMu from its first step to its last.
Mutex ==
    \A w \in Watchers :
        /\ wpc[w] \in {"subErr", "subEnd"} => subMu = w
        /\ wpc[w] \in {"idle", "subErr", "subEnd"} => chst[w] = "none"
        /\ chst[w] \in {"none", "nil"} => chan[w] = <<>>
        /\ wpc[w] \in {"replay", "live", "result", "done"} => chst[w] # "none"
        /\ wpc[w] \in {"live", "result", "done"} => replay[w] = {}
        /\ wpc[w] \in {"result", "done"} =>
              chan[w] = <<>> /\ chst[w] \in {"nil", "closed"}

\* A line is in the ring of its stream.
RingStream ==
    \A s \in Streams : \A rec \in Range(ring[s]) : rec.stream = s

\* A completed line that publishLine has not seen.
Unpublished(rec) ==
    \E p \in Procs : \E i \in 1 .. Len(pend[p]) :
        pend[p][i] = rec /\ ~(i = 1 /\ pub[p])

\* What a watcher has, or will be sent, or has missed.
Got(w) == lost[w] \cup replay[w] \cup replayed[w]
          \cup Range(chan[w]) \cup Range(live[w])

Safe(w, rec) == rec.blank \/ rec \in Got(w) \/ Unpublished(rec)

\* No line escapes a watcher: once its ring was copied, every line of the
\* stream is in hand or still to be published.
NoneEscapes ==
    \A w \in Watchers : \A rec \in Completed :
        /\ wpc[w] = "subErr" /\ rec.stream = "stdout" => Safe(w, rec)
        /\ wpc[w] \in {"subEnd", "replay", "live", "result", "done"} => Safe(w, rec)

Inv ==
    /\ TypeOK
    /\ Control
    /\ Final
    /\ Numbered
    /\ Placed
    /\ Mutex
    /\ RingStream
    /\ NoneEscapes

-----------------------------------------------------------------------------
(* Sequences                                                               *)

\* What Append does to a ring, a channel or a list of lines.
LEMMA AppendFacts ==
    ASSUME NEW S, NEW q \in Seq(S), NEW e \in S
    PROVE  /\ Append(q, e) \in Seq(S)
           /\ Len(Append(q, e)) = Len(q) + 1
           /\ \A i \in 1 .. Len(q) : Append(q, e)[i] = q[i]
           /\ Append(q, e)[Len(q) + 1] = e
           /\ Append(q, e) # <<>>
           /\ Range(Append(q, e)) = Range(q) \cup {e}
<1>1. /\ Append(q, e) \in Seq(S)
      /\ Len(Append(q, e)) = Len(q) + 1
      /\ \A i \in 1 .. Len(q) : Append(q, e)[i] = q[i]
      /\ Append(q, e)[Len(q) + 1] = e
      /\ Append(q, e) # <<>>
  OBVIOUS
<1>2. DOMAIN q = 1 .. Len(q) /\ DOMAIN Append(q, e) = 1 .. (Len(q) + 1) /\ Len(q) \in Nat
  OBVIOUS
<1>3. Range(Append(q, e)) = Range(q) \cup {e}
  <2>1. ASSUME NEW x \in Range(Append(q, e)) PROVE x \in Range(q) \cup {e}
    <3>1. PICK i \in 1 .. (Len(q) + 1) : x = Append(q, e)[i]
      BY <1>2 DEF Range
    <3>2. CASE i = Len(q) + 1
      BY <1>1, <3>1, <3>2
    <3>3. CASE i \in 1 .. Len(q)
      BY <1>1, <1>2, <3>1, <3>3 DEF Range
    <3> QED BY <1>2, <3>2, <3>3
  <2>2. ASSUME NEW x \in Range(q) PROVE x \in Range(Append(q, e))
    <3>1. PICK i \in 1 .. Len(q) : x = q[i]
      BY <1>2 DEF Range
    <3> QED BY <1>1, <1>2, <3>1 DEF Range
  <2>3. e \in Range(Append(q, e))
    BY <1>1, <1>2 DEF Range
  <2> QED BY <2>1, <2>2, <2>3
<1> QED BY <1>1, <1>3

\* What taking the first line leaves.
LEMMA TailFacts ==
    ASSUME NEW S, NEW q \in Seq(S), q # <<>>
    PROVE  /\ Head(q) \in S
           /\ Head(q) = q[1]
           /\ Tail(q) \in Seq(S)
           /\ Len(q) >= 1
           /\ Len(Tail(q)) = Len(q) - 1
           /\ \A i \in 1 .. Len(Tail(q)) : Tail(q)[i] = q[i + 1]
           /\ Range(q) = Range(Tail(q)) \cup {Head(q)}
<1>1. /\ Head(q) \in S
      /\ Head(q) = q[1]
      /\ Tail(q) \in Seq(S)
      /\ Len(q) >= 1 /\ Len(q) \in Nat
      /\ Len(Tail(q)) = Len(q) - 1
      /\ \A i \in 1 .. Len(Tail(q)) : Tail(q)[i] = q[i + 1]
  OBVIOUS
<1>2. DOMAIN q = 1 .. Len(q) /\ DOMAIN Tail(q) = 1 .. (Len(q) - 1)
  OBVIOUS
<1>3. Range(q) = Range(Tail(q)) \cup {Head(q)}
  <2>1. ASSUME NEW x \in Range(q) PROVE x \in Range(Tail(q)) \cup {Head(q)}
    <3>1. PICK i \in 1 .. Len(q) : x = q[i]
      BY <1>2 DEF Range
    <3>2. CASE i = 1
      BY <1>1, <3>1, <3>2
    <3>3. CASE i # 1
      <4>1. i - 1 \in 1 .. (Len(q) - 1)
        BY <1>1, <3>3
      <4>2. Tail(q)[i - 1] = x
        BY <1>1, <3>1, <4>1
      <4> QED BY <1>2, <4>1, <4>2 DEF Range
    <3> QED BY <3>2, <3>3
  <2>2. ASSUME NEW x \in Range(Tail(q)) PROVE x \in Range(q)
    <3>1. PICK i \in 1 .. (Len(q) - 1) : x = Tail(q)[i]
      BY <1>2 DEF Range
    <3>2. i + 1 \in 1 .. Len(q) /\ q[i + 1] = x
      BY <1>1, <3>1
    <3> QED BY <1>2, <3>2 DEF Range
  <2>3. Head(q) \in Range(q)
    BY <1>1, <1>2 DEF Range
  <2> QED BY <2>1, <2>2, <2>3
<1> QED BY <1>1, <1>3

\* The members of a list of lines are lines.
LEMMA RangeType ==
    ASSUME NEW S, NEW q \in Seq(S)
    PROVE  Range(q) \subseteq S
  BY DEF Range

-----------------------------------------------------------------------------
(* The steps, sorted by what they do to the lines                          *)

\* A step completes a line, publishes one, offers one to the store, or leaves
\* the lines where they are.
LEMMA StepKinds ==
    ASSUME Inv, [Next]_vars
    PROVE  \/ \E p \in Procs, s \in Streams, b \in BOOLEAN :
                 CompleteLine(p, s, b) /\ UNCHANGED <<pub, offered, chanVars, watchVars>>
           \/ \E p \in Procs : publishLine(p)
           \/ \E p \in Procs : TryEnqueueLine(p)
           \/ UNCHANGED <<seq, ring, evicted, pend, pub, offered>>
<1>1. CASE UNCHANGED vars
  BY <1>1 DEF vars, logVars
<1>2. ASSUME NEW w \in Writers, Write(w)
      PROVE  \/ \E p \in Procs, s \in Streams, b \in BOOLEAN :
                   CompleteLine(p, s, b) /\ UNCHANGED <<pub, offered, chanVars, watchVars>>
             \/ UNCHANGED <<seq, ring, evicted, pend, pub, offered>>
  <2>1. CASE WriteLine(w)
    <3>1. w \in Procs /\ StreamOf[w] \in Streams /\ (~partial[StreamOf[w]]) \in BOOLEAN
      BY JobAssumption DEF Procs
    <3>2. CompleteLine(w, StreamOf[w], ~partial[StreamOf[w]])
          /\ UNCHANGED <<pub, offered, chanVars, watchVars>>
      BY <2>1 DEF WriteLine
    <3> QED BY <3>1, <3>2
  <2>2. CASE WriteBegin(w) \/ WriteText(w) \/ WriteEnd(w)
    BY <2>2 DEF WriteBegin, WriteText, WriteEnd
  <2> QED BY <1>2, <2>1, <2>2 DEF Write
<1>3. ASSUME NEW p \in Procs, Emit(p) PROVE publishLine(p) \/ TryEnqueueLine(p)
  BY <1>3 DEF Emit
<1>4. CASE Parse \/ RunReturns \/ Kill
  BY <1>4 DEF Parse, ParseFails, ParseSucceeds, RunReturns, Kill, logVars
<1>5. ASSUME Finalise
      PROVE  \/ \E p \in Procs, s \in Streams, b \in BOOLEAN :
                   CompleteLine(p, s, b) /\ UNCHANGED <<pub, offered, chanVars, watchVars>>
             \/ UNCHANGED <<seq, ring, evicted, pend, pub, offered>>
  <2>0. Main \in Procs /\ "stdout" \in Streams /\ "stderr" \in Streams /\ FALSE \in BOOLEAN
    BY DEF Procs, Streams
  <2>1. CASE FlushStdout
    <3>1. \/ CompleteLine(Main, "stdout", FALSE)
          \/ UNCHANGED <<seq, ring, evicted, partial, pend>>
      BY <2>1 DEF FlushStdout, FlushLine
    <3>2. UNCHANGED <<pub, offered, chanVars, watchVars>>
      BY <2>1 DEF FlushStdout, FlushLine
    <3> QED BY <2>0, <3>1, <3>2
  <2>2. CASE FlushStderr
    <3>1. \/ CompleteLine(Main, "stderr", FALSE)
          \/ UNCHANGED <<seq, ring, evicted, partial, pend>>
      BY <2>2 DEF FlushStderr, FlushLine
    <3>2. UNCHANGED <<pub, offered, chanVars, watchVars>>
      BY <2>2 DEF FlushStderr, FlushLine
    <3> QED BY <2>0, <3>1, <3>2
  <2>3. CASE Classify
    <3>1. \/ CompleteLine(Main, "stderr", FALSE)
          \/ UNCHANGED <<seq, ring, evicted, partial, pend>>
      BY <2>3 DEF Classify
    <3>2. UNCHANGED <<pub, offered, chanVars, watchVars>>
      BY <2>3 DEF Classify
    <3> QED BY <2>0, <3>1, <3>2
  <2>4. CASE SetState \/ FinishJob \/ finishSubs \/ CloseDone
    BY <2>4 DEF SetState, FinishJob, finishSubs, CloseDone, logVars
  <2> QED BY <1>5, <2>1, <2>2, <2>3, <2>4 DEF Finalise
<1>6. ASSUME NEW w \in Watchers, Subscribe(w) \/ Send(w)
      PROVE  UNCHANGED <<seq, ring, evicted, pend, pub, offered>>
  BY <1>6 DEF Subscribe, SubscribeOut, SubscribeErr, SubscribeEnd, Send,
     SendReplay, ReplayEnd, SendLive, LiveEnd, SendDone, SendFails, logVars
<1> QED BY <1>1, <1>2, <1>3, <1>4, <1>5, <1>6 DEF Next

-----------------------------------------------------------------------------
(* Sequence numbers                                                        *)

\* The line that CompleteLine makes.
NewLine(s, b) == [seq |-> seq + 1, stream |-> s, blank |-> b]

\* What CompleteLine does to the waiting lines and to the rings.
LEMMA CompleteLineFacts ==
    ASSUME TypeOK, NEW p \in Procs, NEW s \in Streams, NEW b \in BOOLEAN,
           CompleteLine(p, s, b)
    PROVE  /\ NewLine(s, b) \in Rec
           /\ seq' = seq + 1
           /\ pend' = [pend EXCEPT ![p] = Append(pend[p], NewLine(s, b))]
           /\ ring' \in [Streams -> Seq(Rec)]
           /\ evicted' \in SUBSET Rec
           /\ pend' \in [Procs -> Seq(Rec)]
           /\ \A t \in Streams : t # s => ring'[t] = ring[t]
           /\ \A x \in Range(ring'[s]) : x \in Range(ring[s]) \/ x = NewLine(s, b)
           /\ evicted' \cup Range(ring'[s]) = evicted \cup Range(ring[s]) \cup {NewLine(s, b)}
<1> DEFINE recs == Append(ring[s], NewLine(s, b))
<1>1. NewLine(s, b) \in Rec /\ seq' = seq + 1
      /\ pend' = [pend EXCEPT ![p] = Append(pend[p], NewLine(s, b))]
  BY DEF CompleteLine, TypeOK, Rec, NewLine
<1>2. ring[s] \in Seq(Rec) /\ evicted \in SUBSET Rec /\ ring \in [Streams -> Seq(Rec)]
      /\ pend \in [Procs -> Seq(Rec)] /\ pend[p] \in Seq(Rec)
  BY DEF TypeOK
<1>3. recs \in Seq(Rec) /\ recs # <<>> /\ Range(recs) = Range(ring[s]) \cup {NewLine(s, b)}
  <2>1. NewLine(s, b) \in Rec /\ ring[s] \in Seq(Rec)
    BY <1>1, <1>2
  <2>2. \A q \in Seq(Rec), e \in Rec :
           /\ Append(q, e) \in Seq(Rec) /\ Append(q, e) # <<>>
           /\ Range(Append(q, e)) = Range(q) \cup {e}
    BY AppendFacts
  <2> QED BY <2>1, <2>2
<1>4. Head(recs) \in Rec /\ Tail(recs) \in Seq(Rec)
      /\ Range(recs) = Range(Tail(recs)) \cup {Head(recs)}
  <2> HIDE DEF recs
  <2> QED BY <1>3, TailFacts
<1>5. /\ ring' = [ring EXCEPT ![s] = IF Len(recs) > MemLines THEN Tail(recs) ELSE recs]
      /\ evicted' = IF Len(recs) > MemLines THEN evicted \cup {Head(recs)} ELSE evicted
  BY DEF CompleteLine, NewLine
<1>6. Append(pend[p], NewLine(s, b)) \in Seq(Rec)
  BY <1>1, <1>2, AppendFacts
<1>7. pend' \in [Procs -> Seq(Rec)]
  BY <1>1, <1>2, <1>6
<1> HIDE DEF recs
<1>8. CASE Len(recs) > MemLines
  <2>1. ring'[s] = Tail(recs) /\ evicted' = evicted \cup {Head(recs)}
    BY <1>2, <1>5, <1>8
  <2>2. ring' \in [Streams -> Seq(Rec)] /\ (\A t \in Streams : t # s => ring'[t] = ring[t])
    BY <1>2, <1>4, <1>5, <1>8
  <2> QED BY <1>1, <1>2, <1>3, <1>4, <1>7, <2>1, <2>2
<1>9. CASE ~(Len(recs) > MemLines)
  <2>1. ring'[s] = recs /\ evicted' = evicted
    BY <1>2, <1>5, <1>9
  <2>2. ring' \in [Streams -> Seq(Rec)] /\ (\A t \in Streams : t # s => ring'[t] = ring[t])
    BY <1>2, <1>3, <1>5, <1>9
  <2> QED BY <1>1, <1>2, <1>3, <1>7, <2>1, <2>2
<1> QED BY <1>8, <1>9

\* A completed line gets a number of its own and waits in one place.
LEMMA CompleteNumbered ==
    ASSUME TypeOK, Numbered, Placed,
           NEW p \in Procs, NEW s \in Streams, NEW b \in BOOLEAN,
           CompleteLine(p, s, b), UNCHANGED offered
    PROVE  Numbered' /\ Placed'
<1> DEFINE rec == NewLine(s, b)
<1>1. /\ rec \in Rec
      /\ seq' = seq + 1
      /\ pend' = [pend EXCEPT ![p] = Append(pend[p], rec)]
  BY CompleteLineFacts
<1>2. pend \in [Procs -> Seq(Rec)] /\ seq \in Nat /\ offered \in Seq(Rec)
  BY DEF TypeOK
<1>3. rec.seq = seq + 1
  BY DEF NewLine
<1> HIDE DEF rec
<1>4. \A q \in Procs : q # p => pend'[q] = pend[q]
  BY <1>1, <1>2
<1>5. /\ pend'[p] = Append(pend[p], rec)
      /\ Len(pend'[p]) = Len(pend[p]) + 1
      /\ \A i \in 1 .. Len(pend[p]) : pend'[p][i] = pend[p][i]
      /\ pend'[p][Len(pend[p]) + 1] = rec
  BY <1>1, <1>2, AppendFacts
<1>6. \A q \in Procs : Len(pend[q]) \in Nat
  BY <1>2
\* Each waiting line is an old one or the new one.
<1>7. ASSUME NEW q \in Procs, NEW i \in 1 .. Len(pend'[q])
      PROVE  \/ i \in 1 .. Len(pend[q]) /\ pend'[q][i] = pend[q][i]
                /\ pend'[q][i].seq \in 1 .. seq
             \/ q = p /\ i = Len(pend[p]) + 1 /\ pend'[q][i].seq = seq + 1
  <2>1. CASE q # p
    BY <1>4, <2>1 DEF Numbered
  <2>2. CASE q = p /\ i \in 1 .. Len(pend[p])
    BY <1>5, <2>2 DEF Numbered
  <2>3. CASE q = p /\ i = Len(pend[p]) + 1
    BY <1>3, <1>5, <2>3
  <2> QED BY <1>5, <1>6, <2>1, <2>2, <2>3
<1>8. \A i \in 1 .. Len(offered) : offered[i].seq \in 1 .. seq
  BY DEF Numbered
<1>9. \A q \in Procs : \A i \in 1 .. Len(pend'[q]) : pend'[q][i].seq \in 1 .. seq'
  BY <1>1, <1>2, <1>7
<1>10. \A i \in 1 .. Len(offered), q \in Procs :
          \A k \in 1 .. Len(pend'[q]) : offered[i].seq # pend'[q][k].seq
  <2> TAKE i \in 1 .. Len(offered), q \in Procs
  <2> TAKE k \in 1 .. Len(pend'[q])
  <2>1. CASE k \in 1 .. Len(pend[q]) /\ pend'[q][k] = pend[q][k]
    BY <2>1 DEF Numbered
  <2>2. CASE pend'[q][k].seq = seq + 1
    BY <1>2, <1>8, <2>2
  <2> QED BY <1>7, <2>1, <2>2
<1>11. ASSUME NEW q \in Procs, NEW r \in Procs,
              NEW i \in 1 .. Len(pend'[q]), NEW k \in 1 .. Len(pend'[r]),
              pend'[q][i].seq = pend'[r][k].seq
       PROVE  q = r /\ i = k
  <2>1. CASE /\ i \in 1 .. Len(pend[q]) /\ pend'[q][i] = pend[q][i]
             /\ k \in 1 .. Len(pend[r]) /\ pend'[r][k] = pend[r][k]
    BY <1>11, <2>1 DEF Numbered
  <2>2. CASE pend'[q][i].seq = seq + 1 /\ pend'[r][k].seq \in 1 .. seq
    BY <1>2, <1>11, <2>2
  <2>3. CASE pend'[r][k].seq = seq + 1 /\ pend'[q][i].seq \in 1 .. seq
    BY <1>2, <1>11, <2>3
  <2>4. CASE q = p /\ i = Len(pend[p]) + 1 /\ r = p /\ k = Len(pend[p]) + 1
    BY <2>4
  <2> QED BY <1>7, <2>1, <2>2, <2>3, <2>4
<1>12. Numbered'
  BY <1>1, <1>2, <1>8, <1>9, <1>10, <1>11 DEF Numbered
<1>13. Placed'
  <2>1. SUFFICES ASSUME NEW n \in 1 .. (seq + 1)
                 PROVE  \/ \E i \in 1 .. Len(offered) : offered[i].seq = n
                        \/ \E q \in Procs : \E i \in 1 .. Len(pend'[q]) : pend'[q][i].seq = n
    BY <1>1 DEF Placed
  <2>2. CASE n = seq + 1
    <3>1. Len(pend[p]) + 1 \in 1 .. Len(pend'[p])
      BY <1>5, <1>6
    <3> QED BY <1>3, <1>5, <2>2, <3>1
  <2>3. CASE n \in 1 .. seq
    <3>1. CASE \E i \in 1 .. Len(offered) : offered[i].seq = n
      BY <3>1
    <3>2. ASSUME NEW q \in Procs, NEW i \in 1 .. Len(pend[q]), pend[q][i].seq = n
          PROVE  \E r \in Procs : \E k \in 1 .. Len(pend'[r]) : pend'[r][k].seq = n
      <4>1. i \in 1 .. Len(pend'[q]) /\ pend'[q][i] = pend[q][i]
        BY <1>4, <1>5, <1>6
      <4> QED BY <3>2, <4>1
    <3> QED BY <2>3, <3>1, <3>2 DEF Placed
  <2> QED BY <1>2, <2>2, <2>3
<1> QED BY <1>12, <1>13

\* What TryEnqueueLine does to the waiting lines.
LEMMA OfferFacts ==
    ASSUME TypeOK, NEW p \in Procs, TryEnqueueLine(p)
    PROVE  /\ pend[p] # <<>> /\ pub[p]
           /\ pend' \in [Procs -> Seq(Rec)] /\ offered' \in Seq(Rec)
           /\ pend[p][1] \in Rec
           /\ Len(offered') = Len(offered) + 1
           /\ \A i \in 1 .. Len(offered) : offered'[i] = offered[i]
           /\ offered'[Len(offered) + 1] = pend[p][1]
           /\ \A q \in Procs : q # p => pend'[q] = pend[q]
           /\ Len(pend[p]) >= 1
           /\ Len(pend'[p]) = Len(pend[p]) - 1
           /\ \A i \in 1 .. Len(pend'[p]) : pend'[p][i] = pend[p][i + 1]
           /\ pub' = [pub EXCEPT ![p] = FALSE]
           /\ UNCHANGED <<seq, ring, evicted>>
<1>1. /\ pend[p] # <<>> /\ pub[p]
      /\ offered' = Append(offered, Head(pend[p]))
      /\ pend' = [pend EXCEPT ![p] = Tail(pend[p])]
      /\ pub' = [pub EXCEPT ![p] = FALSE]
      /\ UNCHANGED <<seq, ring, evicted>>
  BY DEF TryEnqueueLine, Emitting
<1>2. pend \in [Procs -> Seq(Rec)] /\ pend[p] \in Seq(Rec) /\ offered \in Seq(Rec)
  BY DEF TypeOK
<1>3. /\ Head(pend[p]) \in Rec
      /\ Head(pend[p]) = pend[p][1]
      /\ Tail(pend[p]) \in Seq(Rec)
      /\ Len(pend[p]) >= 1
      /\ Len(Tail(pend[p])) = Len(pend[p]) - 1
      /\ \A i \in 1 .. Len(Tail(pend[p])) : Tail(pend[p])[i] = pend[p][i + 1]
  BY <1>1, <1>2, TailFacts
<1>4. /\ offered' \in Seq(Rec)
      /\ Len(offered') = Len(offered) + 1
      /\ \A i \in 1 .. Len(offered) : offered'[i] = offered[i]
      /\ offered'[Len(offered) + 1] = Head(pend[p])
  BY <1>1, <1>2, <1>3, AppendFacts
<1>5. pend'[p] = Tail(pend[p]) /\ (\A q \in Procs : q # p => pend'[q] = pend[q])
      /\ pend' \in [Procs -> Seq(Rec)]
  BY <1>1, <1>2, <1>3
<1> QED BY <1>1, <1>3, <1>4, <1>5

\* An offered line leaves the one place for the other.
LEMMA OfferNumbered ==
    ASSUME TypeOK, Numbered, Placed, NEW p \in Procs, TryEnqueueLine(p)
    PROVE  Numbered' /\ Placed'
<1>1. /\ Len(offered') = Len(offered) + 1
      /\ \A i \in 1 .. Len(offered) : offered'[i] = offered[i]
      /\ offered'[Len(offered) + 1] = pend[p][1]
      /\ \A q \in Procs : q # p => pend'[q] = pend[q]
      /\ Len(pend[p]) >= 1
      /\ Len(pend'[p]) = Len(pend[p]) - 1
      /\ \A i \in 1 .. Len(pend'[p]) : pend'[p][i] = pend[p][i + 1]
      /\ seq' = seq
  BY OfferFacts
<1>2. seq \in Nat /\ Len(offered) \in Nat /\ Len(pend[p]) \in Nat
  BY DEF TypeOK
<1>3. 1 \in 1 .. Len(pend[p])
  BY <1>1, <1>2
\* Where a waiting line was before: in the same process, and not the first.
<1>4. ASSUME NEW q \in Procs, NEW i \in 1 .. Len(pend'[q])
      PROVE  \E k \in 1 .. Len(pend[q]) :
                /\ pend'[q][i] = pend[q][k]
                /\ k = (IF q = p THEN i + 1 ELSE i)
  <2>1. CASE q # p
    BY <1>1, <2>1
  <2>2. CASE q = p
    <3>1. i + 1 \in 1 .. Len(pend[p]) /\ pend'[p][i] = pend[p][i + 1]
      BY <1>1, <1>2, <2>2
    <3> QED BY <2>2, <3>1
  <2> QED BY <2>1, <2>2
<1>5. ASSUME NEW i \in 1 .. Len(offered')
      PROVE  \/ i \in 1 .. Len(offered) /\ offered'[i] = offered[i]
             \/ i = Len(offered) + 1 /\ offered'[i] = pend[p][1]
  BY <1>1, <1>2
<1>6. \A i \in 1 .. Len(offered') : offered'[i].seq \in 1 .. seq
  BY <1>3, <1>5 DEF Numbered
<1>7. \A q \in Procs : \A i \in 1 .. Len(pend'[q]) : pend'[q][i].seq \in 1 .. seq
  BY <1>4 DEF Numbered
<1>8. ASSUME NEW i \in 1 .. Len(offered'), NEW k \in 1 .. Len(offered'),
             offered'[i].seq = offered'[k].seq
      PROVE  i = k
  <2>1. CASE /\ i \in 1 .. Len(offered) /\ offered'[i] = offered[i]
             /\ k \in 1 .. Len(offered) /\ offered'[k] = offered[k]
    BY <1>8, <2>1 DEF Numbered
  <2>2. CASE i \in 1 .. Len(offered) /\ offered'[i] = offered[i] /\ offered'[k] = pend[p][1]
    BY <1>3, <1>8, <2>2 DEF Numbered
  <2>3. CASE k \in 1 .. Len(offered) /\ offered'[k] = offered[k] /\ offered'[i] = pend[p][1]
    BY <1>3, <1>8, <2>3 DEF Numbered
  <2> QED BY <1>5, <2>1, <2>2, <2>3
<1>9. ASSUME NEW i \in 1 .. Len(offered'), NEW q \in Procs, NEW k \in 1 .. Len(pend'[q])
      PROVE  offered'[i].seq # pend'[q][k].seq
  <2>1. PICK m \in 1 .. Len(pend[q]) :
              pend'[q][k] = pend[q][m] /\ m = (IF q = p THEN k + 1 ELSE k)
    BY <1>4
  <2>2. CASE i \in 1 .. Len(offered) /\ offered'[i] = offered[i]
    BY <2>1, <2>2 DEF Numbered
  <2>3. CASE offered'[i] = pend[p][1]
    <3>1. q = p => m # 1
      BY <2>1
    <3> QED BY <1>3, <2>1, <2>3, <3>1 DEF Numbered
  <2> QED BY <1>5, <2>2, <2>3
<1>10. ASSUME NEW q \in Procs, NEW r \in Procs,
              NEW i \in 1 .. Len(pend'[q]), NEW k \in 1 .. Len(pend'[r]),
              pend'[q][i].seq = pend'[r][k].seq
       PROVE  q = r /\ i = k
  <2>1. PICK m \in 1 .. Len(pend[q]) :
              pend'[q][i] = pend[q][m] /\ m = (IF q = p THEN i + 1 ELSE i)
    BY <1>4
  <2>2. PICK n \in 1 .. Len(pend[r]) :
              pend'[r][k] = pend[r][n] /\ n = (IF r = p THEN k + 1 ELSE k)
    BY <1>4
  <2>3. q = r /\ m = n
    BY <1>10, <2>1, <2>2 DEF Numbered
  <2> QED BY <2>1, <2>2, <2>3
<1>11. Numbered'
  BY <1>1, <1>6, <1>7, <1>8, <1>9, <1>10 DEF Numbered
<1>12. Placed'
  <2>1. SUFFICES ASSUME NEW n \in 1 .. seq
                 PROVE  \/ \E i \in 1 .. Len(offered') : offered'[i].seq = n
                        \/ \E q \in Procs : \E i \in 1 .. Len(pend'[q]) : pend'[q][i].seq = n
    BY <1>1 DEF Placed
  <2>2. ASSUME NEW i \in 1 .. Len(offered), offered[i].seq = n
        PROVE  \E k \in 1 .. Len(offered') : offered'[k].seq = n
    BY <1>1, <1>2, <2>2
  <2>3. ASSUME NEW q \in Procs, NEW i \in 1 .. Len(pend[q]), pend[q][i].seq = n
        PROVE  \/ \E k \in 1 .. Len(offered') : offered'[k].seq = n
               \/ \E r \in Procs : \E k \in 1 .. Len(pend'[r]) : pend'[r][k].seq = n
    <3>1. CASE q # p
      BY <1>1, <2>3, <3>1
    <3>2. CASE q = p /\ i = 1
      <4>1. Len(offered) + 1 \in 1 .. Len(offered')
        BY <1>1, <1>2
      <4> QED BY <1>1, <2>3, <3>2, <4>1
    <3>3. CASE q = p /\ i # 1
      <4>1. i - 1 \in 1 .. Len(pend'[p]) /\ (i - 1) + 1 = i
        BY <1>1, <1>2, <3>3
      <4>2. pend'[p][i - 1] = pend[p][i]
        BY <1>1, <4>1
      <4> QED BY <2>3, <3>3, <4>1, <4>2
    <3> QED BY <3>1, <3>2, <3>3
  <2> QED BY <2>2, <2>3 DEF Placed
<1> QED BY <1>11, <1>12

\* No step gives two lines one number, or loses one.
LEMMA NumberedStep ==
    ASSUME Inv, [Next]_vars
    PROVE  Numbered' /\ Placed'
<1>0. TypeOK /\ Numbered /\ Placed
  BY DEF Inv
<1>1. ASSUME NEW p \in Procs, NEW s \in Streams, NEW b \in BOOLEAN,
             CompleteLine(p, s, b), UNCHANGED offered
      PROVE  Numbered' /\ Placed'
  BY <1>0, <1>1, CompleteNumbered
<1>2. ASSUME NEW p \in Procs, publishLine(p) PROVE Numbered' /\ Placed'
  <2>1. UNCHANGED <<seq, pend, offered>>
    BY <1>2 DEF publishLine
  <2> QED BY <1>0, <2>1 DEF Numbered, Placed
<1>3. ASSUME NEW p \in Procs, TryEnqueueLine(p) PROVE Numbered' /\ Placed'
  BY <1>0, <1>3, OfferNumbered
<1>4. CASE UNCHANGED <<seq, ring, evicted, pend, pub, offered>>
  BY <1>0, <1>4 DEF Numbered, Placed
<1> QED BY <1>1, <1>2, <1>3, <1>4, StepKinds

\* A ring holds lines of its own stream only.
LEMMA RingStreamStep ==
    ASSUME Inv, [Next]_vars
    PROVE  RingStream'
<1>0. TypeOK /\ RingStream
  BY DEF Inv
<1>1. ASSUME NEW p \in Procs, NEW s \in Streams, NEW b \in BOOLEAN,
             CompleteLine(p, s, b)
      PROVE  RingStream'
  <2>1. \A x \in Range(ring'[s]) : x \in Range(ring[s]) \/ x = NewLine(s, b)
    BY <1>0, <1>1, CompleteLineFacts
  <2>4. \A t \in Streams : t # s => ring'[t] = ring[t]
    BY <1>0, <1>1, CompleteLineFacts
  <2>2. NewLine(s, b).stream = s
    BY DEF NewLine
  <2>3. ASSUME NEW t \in Streams, NEW rec \in Range(ring'[t]) PROVE rec.stream = t
    BY <1>0, <2>1, <2>2, <2>3, <2>4 DEF RingStream
  <2> QED BY <2>3 DEF RingStream
<1>2. ASSUME NEW p \in Procs, publishLine(p) \/ TryEnqueueLine(p) PROVE ring' = ring
  BY <1>2 DEF publishLine, TryEnqueueLine
<1>3. ring' = ring => RingStream'
  BY <1>0 DEF RingStream
<1> QED BY <1>1, <1>2, <1>3, StepKinds

-----------------------------------------------------------------------------
(* Types                                                                   *)

\* Every step keeps the types; that the finish record holds a verdict needs
\* Final.
LEMMA TypeStep ==
    ASSUME TypeOK, Final, [Next]_vars
    PROVE  TypeOK'
<1> USE JobAssumption
<1>1. CASE UNCHANGED vars
  BY <1>1 DEF TypeOK, vars, logVars, runVars, chanVars, watchVars
\* A line is completed: the log variables.
<1>2. ASSUME NEW p \in Procs, NEW s \in Streams, NEW b \in BOOLEAN,
             CompleteLine(p, s, b)
      PROVE  /\ seq' \in Nat
             /\ ring' \in [Streams -> Seq(Rec)]
             /\ partial' \in [Streams -> BOOLEAN]
             /\ pend' \in [Procs -> Seq(Rec)]
             /\ evicted' \in SUBSET Rec
  <2>1. seq' = seq + 1 /\ ring' \in [Streams -> Seq(Rec)]
        /\ pend' \in [Procs -> Seq(Rec)] /\ evicted' \in SUBSET Rec
    BY <1>2, CompleteLineFacts
  <2>2. partial' = [partial EXCEPT ![s] = FALSE]
    BY <1>2 DEF CompleteLine
  <2> QED BY <2>1, <2>2 DEF TypeOK
<1>3. ASSUME NEW w \in Writers, Write(w) PROVE TypeOK'
  <2>0. w \in Procs /\ StreamOf[w] \in Streams /\ (~partial[StreamOf[w]]) \in BOOLEAN
    BY DEF Procs
  <2>1. CASE WriteBegin(w)
    BY <2>0, <2>1 DEF TypeOK, WriteBegin, runVars, chanVars, watchVars
  <2>2. CASE WriteText(w)
    BY <2>0, <2>2 DEF TypeOK, WriteText, runVars, chanVars, watchVars
  <2>3. CASE WriteLine(w)
    <3>1. CompleteLine(w, StreamOf[w], ~partial[StreamOf[w]])
      BY <2>3 DEF WriteLine
    <3>2. /\ seq' \in Nat
          /\ ring' \in [Streams -> Seq(Rec)]
          /\ partial' \in [Streams -> BOOLEAN]
          /\ pend' \in [Procs -> Seq(Rec)]
          /\ evicted' \in SUBSET Rec
      BY <1>2, <2>0, <3>1
    <3>3. UNCHANGED <<lock, pub, offered, runVars, chanVars, watchVars, subMu>>
      BY <2>3 DEF WriteLine
    <3> QED BY <3>2, <3>3 DEF TypeOK, runVars, chanVars, watchVars
  <2>4. CASE WriteEnd(w)
    BY <2>0, <2>4 DEF TypeOK, WriteEnd, runVars, chanVars, watchVars
  <2> QED BY <1>3, <2>1, <2>2, <2>3, <2>4 DEF Write
<1>4. ASSUME NEW p \in Procs, publishLine(p) PROVE TypeOK'
  <2>1. pend[p] \in Seq(Rec) /\ pend[p] # <<>>
    BY <1>4 DEF TypeOK, publishLine, Emitting
  <2>2. Head(pend[p]) \in Rec
    BY <2>1, TailFacts
  <2>3. \A w \in Watchers : chan[w] \in Seq(Rec) /\ Append(chan[w], Head(pend[p])) \in Seq(Rec)
    BY <2>2, AppendFacts DEF TypeOK
  <2>4. chan' \in [Watchers -> Seq(Rec)]
    BY <1>4, <2>3 DEF publishLine
  <2>5. \A w \in Watchers : lost[w] \subseteq Rec /\ lost[w] \cup {Head(pend[p])} \subseteq Rec
    BY <2>2 DEF TypeOK
  <2>6. lost' \in [Watchers -> SUBSET Rec]
    BY <1>4, <2>5 DEF publishLine
  <2>7. pub' \in [Procs -> BOOLEAN]
    BY <1>4 DEF publishLine, TypeOK
  <2>8. UNCHANGED <<seq, ring, partial, lock, pend, offered, evicted, runVars, watchVars, chst, subMu>>
    BY <1>4 DEF publishLine
  <2> QED BY <2>4, <2>6, <2>7, <2>8 DEF TypeOK, runVars, watchVars
<1>5. ASSUME NEW p \in Procs, TryEnqueueLine(p) PROVE TypeOK'
  <2>1. pend' \in [Procs -> Seq(Rec)] /\ offered' \in Seq(Rec)
        /\ pub' = [pub EXCEPT ![p] = FALSE]
    BY <1>5, OfferFacts
  <2>2. UNCHANGED <<seq, ring, partial, lock, evicted, runVars, chanVars, watchVars, subMu>>
    BY <1>5 DEF TryEnqueueLine
  <2> QED BY <2>1, <2>2 DEF TypeOK, runVars, chanVars, watchVars
<1>6. CASE Parse \/ Kill
  <2>1. CASE ParseFails
    BY <2>1 DEF TypeOK, ParseFails, logVars, chanVars, watchVars
  <2>2. CASE ParseSucceeds
    BY <2>2 DEF TypeOK, ParseSucceeds, logVars, chanVars, watchVars
  <2>3. CASE Kill
    BY <2>3 DEF TypeOK, Kill, logVars, chanVars, watchVars
  <2> QED BY <1>6, <2>1, <2>2, <2>3 DEF Parse
<1>7. CASE RunReturns
  <2>1. \A runErr \in {"nil", "status", "other"} : exitCodeOf(runErr) \in Int
    BY DEF exitCodeOf, TypeOK
  <2>2. res' \in [err : BOOLEAN, exit : Int]
    BY <1>7, <2>1 DEF RunReturns
  <2>3. behind' \in SUBSET Background
    BY <1>7 DEF RunReturns
  <2> QED BY <1>7, <2>2, <2>3 DEF TypeOK, RunReturns, logVars, chanVars, watchVars
<1>8. ASSUME Finalise PROVE TypeOK'
  <2>0. Main \in Procs /\ "stdout" \in Streams /\ "stderr" \in Streams /\ FALSE \in BOOLEAN
    BY DEF Procs, Streams
  <2>1. ASSUME NEW s \in Streams, NEW pc, NEW next,
               FlushLine(s, pc, next), next \in {"flushErr", "classify"}
        PROVE  TypeOK'
    <3>1. /\ seq' \in Nat
          /\ ring' \in [Streams -> Seq(Rec)]
          /\ partial' \in [Streams -> BOOLEAN]
          /\ pend' \in [Procs -> Seq(Rec)]
          /\ evicted' \in SUBSET Rec
      <4>1. CASE CompleteLine(Main, s, FALSE)
        BY <1>2, <2>0, <4>1
      <4>2. CASE UNCHANGED <<seq, ring, evicted, partial, pend>>
        BY <4>2 DEF TypeOK
      <4> QED BY <2>1, <4>1, <4>2 DEF FlushLine
    <3>2. jpc' = next
          /\ UNCHANGED <<lock, pub, offered, finish, res, behind, cancelled, state,
                         exit, done, chanVars, watchVars, subMu>>
      BY <2>1 DEF FlushLine
    <3> QED BY <2>1, <3>1, <3>2 DEF TypeOK, chanVars, watchVars
  <2>2. CASE FlushStdout
    BY <2>0, <2>1, <2>2 DEF FlushStdout
  <2>3. CASE FlushStderr
    BY <2>0, <2>1, <2>3 DEF FlushStderr
  <2>4. CASE Classify
    <3>1. /\ seq' \in Nat
          /\ ring' \in [Streams -> Seq(Rec)]
          /\ partial' \in [Streams -> BOOLEAN]
          /\ pend' \in [Procs -> Seq(Rec)]
          /\ evicted' \in SUBSET Rec
      <4>1. CASE CompleteLine(Main, "stderr", FALSE)
        BY <1>2, <2>0, <4>1
      <4>2. CASE UNCHANGED <<seq, ring, evicted, partial, pend>>
        BY <4>2 DEF TypeOK
      <4> QED BY <2>4, <4>1, <4>2 DEF Classify
    <3>2. Verdict \in Verdicts
      BY DEF Verdict, Verdicts, TypeOK
    <3>3. jpc' = Verdict /\ exit' = res.exit
          /\ UNCHANGED <<lock, pub, offered, finish, res, behind, cancelled, state,
                         done, chanVars, watchVars, subMu>>
      BY <2>4 DEF Classify
    <3> QED BY <3>1, <3>2, <3>3 DEF TypeOK, chanVars, watchVars
  <2>5. CASE SetState
    BY <2>5 DEF SetState, TypeOK, logVars, chanVars, watchVars
  <2>6. CASE FinishJob
    <3>1. state \in Verdicts
      BY <2>6 DEF FinishJob, At, Final
    <3> QED BY <2>6, <3>1 DEF FinishJob, TypeOK, logVars, chanVars, watchVars
  <2>7. CASE finishSubs
    BY <2>7 DEF finishSubs, TypeOK, logVars, watchVars
  <2>8. CASE CloseDone
    BY <2>8 DEF CloseDone, TypeOK, logVars, chanVars, watchVars
  <2> QED BY <1>8, <2>2, <2>3, <2>4, <2>5, <2>6, <2>7, <2>8 DEF Finalise
<1>9. ASSUME NEW w \in Watchers, Subscribe(w) PROVE TypeOK'
  <2>0. \A s \in Streams : Range(ring[s]) \subseteq Rec /\ OffRing(s) \subseteq Rec
    BY RangeType DEF TypeOK, OffRing
  <2>1. CASE SubscribeOut(w)
    BY <2>0, <2>1 DEF SubscribeOut, TypeOK, logVars, runVars, Streams
  <2>2. CASE SubscribeErr(w)
    BY <2>0, <2>2 DEF SubscribeErr, TypeOK, logVars, runVars, Streams
  <2>3. CASE SubscribeEnd(w)
    BY <2>3 DEF SubscribeEnd, TypeOK, logVars, runVars
  <2> QED BY <1>9, <2>1, <2>2, <2>3 DEF Subscribe
<1>10. ASSUME NEW w \in Watchers, Send(w) PROVE TypeOK'
  <2>1. CASE SendReplay(w)
    BY <2>1 DEF SendReplay, TypeOK, logVars, runVars, chanVars
  <2>2. CASE SendLive(w)
    <3>1. chan[w] \in Seq(Rec) /\ chan[w] # <<>> /\ live[w] \in Seq(Rec)
      BY <2>2 DEF SendLive, TypeOK
    <3>2. Head(chan[w]) \in Rec /\ Tail(chan[w]) \in Seq(Rec)
      BY <3>1, TailFacts
    <3>3. Append(live[w], Head(chan[w])) \in Seq(Rec)
      BY <3>1, <3>2, AppendFacts
    <3>4. chan' \in [Watchers -> Seq(Rec)] /\ live' \in [Watchers -> Seq(Rec)]
      BY <2>2, <3>2, <3>3 DEF SendLive, TypeOK
    <3>5. wpc' \in [Watchers -> {"idle", "subErr", "subEnd", "replay", "live",
                                 "result", "done", "left"}]
      BY <2>2 DEF SendLive, TypeOK
    <3>6. UNCHANGED <<logVars, runVars, chst, lost, replay, replayed, doneExit, subMu>>
      BY <2>2 DEF SendLive
    <3> QED BY <3>4, <3>5, <3>6 DEF TypeOK, logVars, runVars
  <2>3. CASE ReplayEnd(w)
    BY <2>3 DEF ReplayEnd, TypeOK, logVars, runVars, chanVars
  <2>4. CASE LiveEnd(w)
    BY <2>4 DEF LiveEnd, TypeOK, logVars, runVars, chanVars
  <2>5. CASE SendDone(w)
    BY <2>5 DEF SendDone, TypeOK, logVars, runVars, chanVars
  <2>6. CASE SendFails(w)
    BY <2>6 DEF SendFails, TypeOK, logVars, runVars, chanVars
  <2> QED BY <1>10, <2>1, <2>2, <2>3, <2>4, <2>5, <2>6 DEF Send
<1> QED BY <1>1, <1>3, <1>4, <1>5, <1>6, <1>7, <1>8, <1>9, <1>10 DEF Next, Emit

-----------------------------------------------------------------------------
(* Control                                                                 *)

\* A waiting line belongs to someone who is still at work.
LEMMA ControlStep ==
    ASSUME TypeOK, Control, [Next]_vars
    PROVE  Control'
<1> USE JobAssumption
<1>0. /\ Main \in Procs /\ Main \notin Writers /\ Writers \subseteq Procs
      /\ \A w \in Writers : w # Free /\ StreamOf[w] \in Streams
  BY DEF Procs
<1>1. CASE UNCHANGED vars
  BY <1>1 DEF Control, vars, logVars, runVars
<1>2. ASSUME NEW p \in Procs, NEW s \in Streams, NEW b \in BOOLEAN,
             CompleteLine(p, s, b)
      PROVE  /\ pend'[p] # <<>>
             /\ \A q \in Procs : q # p => pend'[q] = pend[q]
  <2>1. /\ NewLine(s, b) \in Rec
        /\ pend' = [pend EXCEPT ![p] = Append(pend[p], NewLine(s, b))]
    BY <1>2, CompleteLineFacts
  <2>2. pend \in [Procs -> Seq(Rec)]
    BY DEF TypeOK
  <2>3. Append(pend[p], NewLine(s, b)) # <<>>
    BY <2>1, <2>2, AppendFacts
  <2> QED BY <2>1, <2>2, <2>3
<1>3. ASSUME NEW w \in Writers, Write(w) PROVE Control'
  <2>1. CASE WriteBegin(w)
    BY <1>0, <2>1 DEF WriteBegin, Control, TypeOK, runVars
  <2>2. CASE WriteText(w)
    BY <2>2 DEF WriteText, Control, runVars
  <2>3. CASE WriteLine(w)
    <3>1. lock[StreamOf[w]] = w /\ (jpc = "run" \/ w \in behind)
      BY <1>0, <2>3 DEF WriteLine, Control
    <3>2. CompleteLine(w, StreamOf[w], ~partial[StreamOf[w]])
          /\ (~partial[StreamOf[w]]) \in BOOLEAN
      BY <2>3 DEF WriteLine
    <3>3. pend'[w] # <<>> /\ \A q \in Procs : q # w => pend'[q] = pend[q]
      BY <1>0, <1>2, <3>2
    <3>4. UNCHANGED <<lock, pub, jpc, behind>>
      BY <2>3 DEF WriteLine, runVars
    <3> QED BY <1>0, <3>1, <3>3, <3>4 DEF Control, Finished, Ended
  <2>4. CASE WriteEnd(w)
    BY <1>0, <2>4 DEF WriteEnd, Control, TypeOK, runVars
  <2> QED BY <1>3, <2>1, <2>2, <2>3, <2>4 DEF Write
<1>4. ASSUME NEW p \in Procs, publishLine(p) PROVE Control'
  <2>1. /\ pend[p] # <<>>
        /\ pub' = [pub EXCEPT ![p] = TRUE]
        /\ UNCHANGED <<lock, pend, jpc, behind>>
    BY <1>4 DEF publishLine, Emitting, runVars
  <2> QED BY <2>1 DEF Control, TypeOK
<1>5. ASSUME NEW p \in Procs, TryEnqueueLine(p) PROVE Control'
  <2>1. /\ pend[p] # <<>>
        /\ pub' = [pub EXCEPT ![p] = FALSE]
        /\ \A q \in Procs : q # p => pend'[q] = pend[q]
    BY <1>5, OfferFacts
  <2>2. UNCHANGED <<lock, jpc, behind>>
    BY <1>5 DEF TryEnqueueLine, runVars
  <2>3. \A q \in Procs : pub'[q] => q # p /\ pub[q]
    BY <2>1 DEF TypeOK
  <2>4. \A q \in Procs : pend[q] = <<>> => pend'[q] = <<>>
    BY <2>1
  <2> QED BY <1>0, <2>1, <2>2, <2>3, <2>4 DEF Control
<1>6. CASE Parse \/ Kill
  <2>1. UNCHANGED <<lock, pend, pub, behind>>
    BY <1>6 DEF Parse, ParseFails, ParseSucceeds, Kill, logVars
  <2>2. jpc' = jpc \/ (jpc = "parse" /\ jpc' \in {"run", "flushOut"})
    BY <1>6 DEF Parse, ParseFails, ParseSucceeds, Kill, At
  <2> QED BY <2>1, <2>2 DEF Control, Finished, Ended
<1>7. CASE RunReturns
  <2>1. PICK B \in SUBSET Background :
          (\A w \in Writers \ B : Joined(w)) /\ behind' = B
    BY <1>7 DEF RunReturns
  <2>2. /\ jpc = "run" /\ jpc' = "flushOut" /\ pend[Main] = <<>>
        /\ UNCHANGED <<lock, pend, pub>>
    BY <1>7 DEF RunReturns, At, logVars
  <2>3. ASSUME NEW s \in Streams, lock[s] # Free
        PROVE  StreamOf[lock[s]] = s /\ lock[s] \in B
    <3>1. lock[s] \in Writers /\ StreamOf[lock[s]] = s
      BY <2>3 DEF Control, TypeOK
    <3> QED BY <2>1, <3>1 DEF Joined
  <2>4. \A w \in Writers \ B : pend[w] = <<>>
    BY <2>1 DEF Joined
  <2> QED BY <2>1, <2>2, <2>3, <2>4 DEF Control, Finished, Ended
<1>8. ASSUME Finalise PROVE Control'
  <2>1. ASSUME NEW s \in Streams, jpc # "run", pend[Main] = <<>>,
               jpc' \notin Finished \cup {"finish", "parse", "run"},
               \/ CompleteLine(Main, s, FALSE)
               \/ UNCHANGED <<seq, ring, evicted, partial, pend>>,
               UNCHANGED <<lock, pub, behind>>
        PROVE  Control'
    <3>1. \A q \in Procs : q # Main => pend'[q] = pend[q]
      BY <1>0, <1>2, <2>1
    <3>2. ~pub[Main]
      BY <1>0, <2>1 DEF Control
    <3> QED BY <1>0, <2>1, <3>1, <3>2 DEF Control
  <2>2. CASE FlushStdout
    BY <2>1, <2>2 DEF FlushStdout, FlushLine, At, Finished, Ended, Streams
  <2>3. CASE FlushStderr
    BY <2>1, <2>3 DEF FlushStderr, FlushLine, At, Finished, Ended, Streams
  <2>4. CASE Classify
    <3>1. Verdict \in {"failed", "killed", "done"}
      BY DEF Verdict, TypeOK
    <3> QED BY <2>1, <2>4, <3>1 DEF Classify, At, Finished, Ended, Streams
  <2>5. CASE SetState
    BY <2>5 DEF SetState, At, Control, logVars, Verdicts
  <2>6. CASE FinishJob
    BY <2>6 DEF FinishJob, At, Control, logVars
  <2>7. CASE finishSubs
    BY <2>7 DEF finishSubs, At, Control, logVars
  <2>8. CASE CloseDone
    BY <2>8 DEF CloseDone, At, Control, logVars
  <2> QED BY <1>8, <2>2, <2>3, <2>4, <2>5, <2>6, <2>7, <2>8 DEF Finalise
<1>9. ASSUME NEW w \in Watchers, Subscribe(w) \/ Send(w) PROVE Control'
  <2>1. UNCHANGED <<lock, pend, pub, jpc, behind>>
    BY <1>9 DEF Subscribe, SubscribeOut, SubscribeErr, SubscribeEnd, Send,
       SendReplay, ReplayEnd, SendLive, LiveEnd, SendDone, SendFails, logVars, runVars
  <2> QED BY <2>1 DEF Control
<1> QED BY <1>1, <1>3, <1>4, <1>5, <1>6, <1>7, <1>8, <1>9 DEF Next, Emit

\* What is reported is final.
LEMMA FinalStep ==
    ASSUME TypeOK, Final, Mutex, [Next]_vars
    PROVE  Final'
<1>1. ASSUME UNCHANGED <<runVars, chst, wpc, doneExit>> PROVE Final'
  BY <1>1 DEF Final, runVars
<1>2. ASSUME NEW w \in Writers, Write(w) PROVE Final'
  <2>1. UNCHANGED <<runVars, chst, wpc, doneExit>>
    BY <1>2 DEF Write, WriteBegin, WriteText, WriteLine, WriteEnd, chanVars, watchVars
  <2> QED BY <1>1, <2>1
<1>3. ASSUME NEW p \in Procs, Emit(p) PROVE Final'
  <2>1. UNCHANGED <<runVars, chst, wpc, doneExit>>
    BY <1>3 DEF Emit, publishLine, TryEnqueueLine, chanVars, watchVars
  <2> QED BY <1>1, <2>1
<1>4. CASE Parse \/ RunReturns \/ Kill
  <2>1. UNCHANGED <<finish, state, exit, done, chst, wpc, doneExit>>
    BY <1>4 DEF Parse, ParseFails, ParseSucceeds, RunReturns, Kill, chanVars, watchVars
  <2>2. jpc' = jpc \/ (jpc \in {"parse", "run"} /\ jpc' \in {"run", "flushOut"})
    BY <1>4 DEF Parse, ParseFails, ParseSucceeds, RunReturns, Kill, At
  <2> QED BY <2>1, <2>2 DEF Final, Finished, Ended
<1>5. ASSUME Finalise PROVE Final'
  <2>1. CASE FlushStdout \/ FlushStderr
    <3>1. UNCHANGED <<finish, state, exit, done, chst, wpc, doneExit>>
      BY <2>1 DEF FlushStdout, FlushStderr, FlushLine, chanVars, watchVars
    <3>2. jpc \in {"flushOut", "flushErr"} /\ jpc' \in {"flushErr", "classify"}
      BY <2>1 DEF FlushStdout, FlushStderr, FlushLine, At
    <3> QED BY <3>1, <3>2 DEF Final, Finished, Ended
  <2>2. CASE Classify
    <3>1. Verdict \in {"failed", "killed", "done"}
      BY DEF Verdict, TypeOK
    <3> QED BY <2>2, <3>1 DEF Classify, At, Final, Finished, Ended, chanVars, watchVars
  <2>3. CASE SetState
    BY <2>3 DEF SetState, At, Verdicts, Final, Finished, Ended, chanVars, watchVars
  <2>4. CASE FinishJob
    BY <2>4 DEF FinishJob, At, Final, Finished, Ended, chanVars, watchVars
  <2>5. CASE finishSubs
    BY <2>5 DEF finishSubs, At, subs, Final, Finished, Ended, watchVars
  <2>6. CASE CloseDone
    BY <2>6 DEF CloseDone, At, Final, Finished, Ended, chanVars, watchVars
  <2> QED BY <1>5, <2>1, <2>2, <2>3, <2>4, <2>5, <2>6 DEF Finalise
<1>6. ASSUME NEW w \in Watchers, Subscribe(w) PROVE Final'
  <2>1. CASE SubscribeOut(w) \/ SubscribeErr(w)
    BY <2>1 DEF SubscribeOut, SubscribeErr, Final, TypeOK, runVars
  <2>2. CASE SubscribeEnd(w)
    BY <2>2 DEF SubscribeEnd, Final, TypeOK, runVars, Ended
  <2> QED BY <1>6, <2>1, <2>2 DEF Subscribe
<1>7. ASSUME NEW w \in Watchers, Send(w) PROVE Final'
  <2>1. CASE SendReplay(w) \/ SendLive(w) \/ SendFails(w)
    BY <2>1 DEF SendReplay, SendLive, SendFails, Final, TypeOK, runVars, chanVars
  <2>2. CASE ReplayEnd(w)
    BY <2>2 DEF ReplayEnd, Final, TypeOK, runVars, chanVars
  <2>3. CASE LiveEnd(w)
    BY <2>3 DEF LiveEnd, Final, TypeOK, runVars, chanVars
  <2>4. CASE SendDone(w)
    BY <2>4 DEF SendDone, Final, TypeOK, runVars, chanVars
  <2> QED BY <1>7, <2>1, <2>2, <2>3, <2>4 DEF Send
<1>8. CASE UNCHANGED vars
  BY <1>1, <1>8 DEF vars, chanVars, watchVars
<1> QED BY <1>2, <1>3, <1>4, <1>5, <1>6, <1>7, <1>8 DEF Next

\* Subscribe is a critical section, and a feed that is over is empty.
LEMMA MutexStep ==
    ASSUME TypeOK, Control, Final, Mutex, [Next]_vars
    PROVE  Mutex'
<1> USE JobAssumption
<1>0. \A w \in Watchers : w # Free
  OBVIOUS
<1>1. ASSUME UNCHANGED <<subMu, chst, chan, wpc, replay>> PROVE Mutex'
  BY <1>1 DEF Mutex
<1>2. ASSUME NEW w \in Writers, Write(w) PROVE Mutex'
  <2>1. UNCHANGED <<subMu, chst, chan, wpc, replay>>
    BY <1>2 DEF Write, WriteBegin, WriteText, WriteLine, WriteEnd, chanVars, watchVars
  <2> QED BY <1>1, <2>1
<1>3. ASSUME NEW p \in Procs, publishLine(p) PROVE Mutex'
  <2>1. UNCHANGED <<subMu, chst, wpc, replay>>
    BY <1>3 DEF publishLine, watchVars
  <2>2. \A w \in Watchers : chst[w] # "open" => chan'[w] = chan[w]
    BY <1>3 DEF publishLine, subs
  <2> QED BY <2>1, <2>2 DEF Mutex
<1>4. ASSUME NEW p \in Procs, TryEnqueueLine(p) PROVE Mutex'
  BY <1>1, <1>4 DEF TryEnqueueLine, chanVars, watchVars
<1>5. CASE Parse \/ RunReturns \/ Kill
  BY <1>1, <1>5 DEF Parse, ParseFails, ParseSucceeds, RunReturns, Kill, chanVars, watchVars
<1>6. ASSUME Finalise PROVE Mutex'
  <2>1. CASE finishSubs
    BY <2>1 DEF finishSubs, subs, Mutex, watchVars
  <2>2. CASE FlushStdout \/ FlushStderr \/ Classify \/ SetState \/ FinishJob \/ CloseDone
    BY <1>1, <2>2 DEF FlushStdout, FlushStderr, FlushLine, Classify, SetState,
       FinishJob, CloseDone, chanVars, watchVars
  <2> QED BY <1>6, <2>1, <2>2 DEF Finalise
<1>7. ASSUME NEW w \in Watchers, Subscribe(w) PROVE Mutex'
  <2>1. CASE SubscribeOut(w)
    BY <1>0, <2>1 DEF SubscribeOut, Mutex, TypeOK
  <2>2. CASE SubscribeErr(w)
    BY <2>2 DEF SubscribeErr, Mutex, TypeOK
  <2>3. CASE SubscribeEnd(w)
    <3>1. \A v \in Watchers : v # w => wpc[v] \notin {"subErr", "subEnd"}
      BY <2>3 DEF SubscribeEnd, Mutex
    <3> QED BY <2>3, <3>1 DEF SubscribeEnd, Mutex, TypeOK
  <2> QED BY <1>7, <2>1, <2>2, <2>3 DEF Subscribe
<1>8. ASSUME NEW w \in Watchers, Send(w) PROVE Mutex'
  <2>1. CASE SendReplay(w)
    BY <2>1 DEF SendReplay, Mutex, TypeOK, chanVars
  <2>2. CASE ReplayEnd(w)
    BY <2>2 DEF ReplayEnd, Mutex, TypeOK, chanVars
  <2>3. CASE SendLive(w)
    <3>1. /\ wpc[w] = "live" /\ chan[w] # <<>>
          /\ chan' = [chan EXCEPT ![w] = Tail(chan[w])]
          /\ \E next \in {"live", "left"} : wpc' = [wpc EXCEPT ![w] = next]
          /\ UNCHANGED <<subMu, chst, replay>>
      BY <2>3 DEF SendLive
    <3>2. chst[w] \notin {"none", "nil"}
      BY <3>1 DEF Mutex
    <3>3. \A v \in Watchers : v # w => chan'[v] = chan[v] /\ wpc'[v] = wpc[v]
      BY <3>1 DEF TypeOK
    <3>4. wpc'[w] \in {"live", "left"} /\ replay[w] = {}
      BY <3>1 DEF TypeOK, Mutex
    <3> QED BY <3>1, <3>2, <3>3, <3>4 DEF Mutex
  <2>4. CASE LiveEnd(w)
    BY <2>4 DEF LiveEnd, Mutex, TypeOK, chanVars
  <2>5. CASE SendDone(w)
    BY <2>5 DEF SendDone, Mutex, TypeOK, chanVars
  <2>6. CASE SendFails(w)
    BY <2>6 DEF SendFails, Mutex, TypeOK, chanVars
  <2> QED BY <1>8, <2>1, <2>2, <2>3, <2>4, <2>5, <2>6 DEF Send
<1>9. CASE UNCHANGED vars
  BY <1>1, <1>9 DEF vars, chanVars, watchVars
<1> QED BY <1>2, <1>3, <1>4, <1>5, <1>6, <1>7, <1>8, <1>9 DEF Next, Emit

-----------------------------------------------------------------------------
(* No line escapes a watcher                                               *)

\* The lines that a watcher at pc is owed.
Owed(w, rec) ==
    \/ wpc[w] = "subErr" /\ rec.stream = "stdout"
    \/ wpc[w] \in {"subEnd", "replay", "live", "result", "done"}

\* Steps that keep the lines in place and take nothing from the watchers.
LEMMA KeepsNoneEscapes ==
    ASSUME NoneEscapes, UNCHANGED <<ring, evicted, pend, pub>>,
           \A w \in Watchers : Got(w) \subseteq Got(w)',
           \A w \in Watchers, rec \in Completed : Owed(w, rec)' => Owed(w, rec) \/ Safe(w, rec)'
    PROVE  NoneEscapes'
<1>1. Completed' = Completed
  BY DEF Completed
<1>2. ASSUME NEW rec PROVE Unpublished(rec)' <=> Unpublished(rec)
  BY DEF Unpublished
<1>3. ASSUME NEW w \in Watchers, NEW rec \in Completed, Owed(w, rec)'
      PROVE  Safe(w, rec)'
  <2>1. CASE Owed(w, rec)
    <3>1. Safe(w, rec)
      BY <2>1 DEF NoneEscapes, Owed
    <3> QED BY <1>2, <3>1 DEF Safe
  <2> QED BY <1>3, <2>1
<1> QED BY <1>1, <1>3 DEF NoneEscapes, Owed

\* A completed line is still to be published.
LEMMA CompleteNoneEscapes ==
    ASSUME TypeOK, Control, NoneEscapes,
           NEW p \in Procs, NEW s \in Streams, NEW b \in BOOLEAN,
           CompleteLine(p, s, b), UNCHANGED <<pub, chanVars, watchVars>>
    PROVE  NoneEscapes'
<1>0. PICK rec : rec = NewLine(s, b)
  OBVIOUS
<1>1. rec \in Rec
  BY <1>0, CompleteLineFacts
<1>2. pend' = [pend EXCEPT ![p] = Append(pend[p], rec)]
  BY <1>0, CompleteLineFacts
<1>3. \A t \in Streams : t # s => ring'[t] = ring[t]
  BY CompleteLineFacts
<1>4. evicted' \cup Range(ring'[s]) = evicted \cup Range(ring[s]) \cup {rec}
  BY <1>0, CompleteLineFacts
<1>5. ASSUME NEW x \in Completed' PROVE x \in Completed \/ x = rec
  <2>1. CASE s = "stdout"
    BY <1>3, <1>4, <1>5, <2>1 DEF Completed, Streams
  <2>2. CASE s = "stderr"
    BY <1>3, <1>4, <1>5, <2>2 DEF Completed, Streams
  <2> QED BY <2>1, <2>2 DEF Streams
<1>6. pend \in [Procs -> Seq(Rec)] /\ pend[p] \in Seq(Rec) /\ Len(pend[p]) \in Nat
  BY DEF TypeOK
<1>7. /\ pend'[p] = Append(pend[p], rec)
      /\ Len(pend'[p]) = Len(pend[p]) + 1
      /\ \A i \in 1 .. Len(pend[p]) : pend'[p][i] = pend[p][i]
      /\ pend'[p][Len(pend[p]) + 1] = rec
  BY <1>1, <1>2, <1>6, AppendFacts
<1>8. \A q \in Procs : q # p => pend'[q] = pend[q]
  BY <1>2, <1>6
<1>9. Unpublished(rec)'
  <2>1. Len(pend[p]) + 1 \in 1 .. Len(pend'[p])
    BY <1>6, <1>7
  <2>2. Len(pend[p]) + 1 = 1 => pend[p] = <<>>
    BY <1>6
  <2>3. ~(Len(pend[p]) + 1 = 1 /\ pub'[p])
    BY <2>2 DEF Control
  <2> QED BY <1>7, <2>1, <2>3 DEF Unpublished
<1>10. ASSUME NEW x, Unpublished(x) PROVE Unpublished(x)'
  <2>0. PICK q \in Procs : \E i \in 1 .. Len(pend[q]) : pend[q][i] = x /\ ~(i = 1 /\ pub[q])
    BY <1>10 DEF Unpublished
  <2>1. PICK i \in 1 .. Len(pend[q]) : pend[q][i] = x /\ ~(i = 1 /\ pub[q])
    BY <2>0
  <2>2. i \in 1 .. Len(pend'[q]) /\ pend'[q][i] = x
    <3>1. CASE q = p
      BY <1>6, <1>7, <2>1, <3>1
    <3>2. CASE q # p
      BY <1>8, <2>1, <3>2
    <3> QED BY <3>1, <3>2
  <2> QED BY <2>1, <2>2 DEF Unpublished
<1>11. \A w \in Watchers : Got(w)' = Got(w) /\ wpc'[w] = wpc[w]
  BY DEF Got, chanVars, watchVars
<1>12. ASSUME NEW w \in Watchers, NEW x \in Completed', Owed(w, x)'
       PROVE  Safe(w, x)'
  <2>1. CASE x = rec
    BY <1>9, <2>1 DEF Safe
  <2>2. CASE x \in Completed
    <3>1. Safe(w, x)
      BY <1>11, <1>12, <2>2 DEF NoneEscapes, Owed
    <3> QED BY <1>10, <1>11, <3>1 DEF Safe
  <2> QED BY <1>5, <2>1, <2>2
<1> QED BY <1>12 DEF NoneEscapes, Owed

\* A published line is in the channel of every watcher that is owed it, or
\* noted as lost: a watcher that is subscribing holds subMu, and once a channel
\* is closed only commands left behind publish.
LEMMA PublishNoneEscapes ==
    ASSUME TypeOK, Control, Final, Mutex, NoneEscapes, NEW p \in Procs, publishLine(p)
    PROVE  NoneEscapes'
<1> USE JobAssumption
<1> DEFINE rec == Head(pend[p])
<1>1. /\ pend[p] # <<>>
      /\ ~pub[p]
      /\ rec.blank \/ subMu = Free
      /\ pub' = [pub EXCEPT ![p] = TRUE]
      /\ UNCHANGED <<ring, evicted, pend, wpc, chst, replay, replayed, live>>
  BY DEF publishLine, Emitting, watchVars
<1>2. ASSUME NEW w \in Watchers
      PROVE  /\ chan'[w] = IF ~rec.blank /\ chst[w] = "open" /\ Len(chan[w]) < SubCap
                           THEN Append(chan[w], rec) ELSE chan[w]
             /\ lost'[w] = IF \/ ~rec.blank /\ chst[w] = "open" /\ ~(Len(chan[w]) < SubCap)
                              \/ ~rec.blank /\ p \in behind /\ chst[w] \in {"nil", "closed"}
                           THEN lost[w] \cup {rec} ELSE lost[w]
  BY DEF publishLine, subs
<1>3. rec \in Rec /\ rec = pend[p][1]
  <2>1. pend[p] \in Seq(Rec)
    BY DEF TypeOK
  <2> QED BY <1>1, <2>1, TailFacts
<1> HIDE DEF rec
<1>4. jpc \in Ended => p \in behind
  BY <1>1 DEF Control, Procs, Finished, Ended
<1>5. ASSUME NEW w \in Watchers
      PROVE  /\ Got(w) \subseteq Got(w)'
             /\ ~rec.blank /\ chst[w] # "none" => rec \in Got(w)'
  <2>1. chan[w] \in Seq(Rec)
    BY DEF TypeOK
  <2>2. Range(Append(chan[w], rec)) = Range(chan[w]) \cup {rec}
    BY <1>3, <2>1, AppendFacts
  <2>3. CASE ~rec.blank /\ chst[w] = "open" /\ Len(chan[w]) < SubCap
    <3>1. chan'[w] = Append(chan[w], rec) /\ lost'[w] = lost[w]
      BY <1>2, <2>3
    <3> QED BY <1>1, <2>2, <3>1 DEF Got
  <2>4. CASE ~rec.blank /\ chst[w] = "open" /\ ~(Len(chan[w]) < SubCap)
    <3>1. chan'[w] = chan[w] /\ lost'[w] = lost[w] \cup {rec}
      BY <1>2, <2>4
    <3> QED BY <1>1, <3>1 DEF Got
  <2>5. CASE ~rec.blank /\ chst[w] \in {"nil", "closed"}
    <3>1. p \in behind
      BY <1>4, <2>5 DEF Final
    <3>2. chan'[w] = chan[w] /\ lost'[w] = lost[w] \cup {rec}
      BY <1>2, <2>5, <3>1
    <3> QED BY <1>1, <3>2 DEF Got
  <2>6. CASE rec.blank \/ chst[w] = "none"
    <3>1. chan'[w] = chan[w] /\ lost'[w] = lost[w]
      BY <1>2, <2>6
    <3> QED BY <1>1, <2>6, <3>1 DEF Got
  <2>7. chst[w] \in {"none", "nil", "open", "closed"}
    BY DEF TypeOK
  <2> QED BY <2>3, <2>4, <2>5, <2>6, <2>7
<1>6. Completed' = Completed
  BY <1>1 DEF Completed
<1>7. ASSUME NEW x, Unpublished(x) PROVE Unpublished(x)' \/ x = rec
  <2>0. PICK q \in Procs : \E i \in 1 .. Len(pend[q]) : pend[q][i] = x /\ ~(i = 1 /\ pub[q])
    BY <1>7 DEF Unpublished
  <2>1. PICK i \in 1 .. Len(pend[q]) : pend[q][i] = x /\ ~(i = 1 /\ pub[q])
    BY <2>0
  <2>2. CASE q = p /\ i = 1
    BY <1>3, <2>1, <2>2
  <2>3. CASE ~(q = p /\ i = 1)
    <3>1. ~(i = 1 /\ pub'[q])
      BY <1>1, <2>1, <2>3 DEF TypeOK
    <3> QED BY <1>1, <2>1, <3>1 DEF Unpublished
  <2> QED BY <2>2, <2>3
<1>8. ASSUME NEW w \in Watchers, NEW x \in Completed, Owed(w, x)'
      PROVE  Safe(w, x)'
  <2>1. Owed(w, x)
    BY <1>1, <1>8 DEF Owed
  <2>2. Safe(w, x)
    BY <2>1 DEF NoneEscapes, Owed
  <2>3. CASE x = rec /\ ~rec.blank
    <3>1. wpc[w] \notin {"subErr", "subEnd"}
      BY <1>1, <2>3 DEF Mutex
    <3>2. chst[w] # "none"
      BY <2>1, <3>1 DEF Mutex, Owed
    <3> QED BY <1>5, <2>3, <3>2 DEF Safe
  <2>4. CASE x = rec /\ rec.blank
    BY <2>4 DEF Safe
  <2>5. CASE x # rec
    BY <1>5, <1>7, <2>2, <2>5 DEF Safe
  <2> QED BY <2>3, <2>4, <2>5
<1> QED BY <1>6, <1>8 DEF NoneEscapes, Owed

\* An offered line was published before.
LEMMA OfferNoneEscapes ==
    ASSUME TypeOK, NoneEscapes, NEW p \in Procs, TryEnqueueLine(p)
    PROVE  NoneEscapes'
<1>1. pub[p] /\ pub' = [pub EXCEPT ![p] = FALSE] /\ UNCHANGED <<ring, evicted>>
  BY OfferFacts
<1>2. /\ \A q \in Procs : q # p => pend'[q] = pend[q]
      /\ Len(pend[p]) >= 1
      /\ Len(pend'[p]) = Len(pend[p]) - 1
      /\ \A i \in 1 .. Len(pend'[p]) : pend'[p][i] = pend[p][i + 1]
  BY OfferFacts
<1>3. Len(pend[p]) \in Nat
  BY DEF TypeOK
<1>4. ASSUME NEW x, Unpublished(x) PROVE Unpublished(x)'
  <2>0. PICK q \in Procs : \E i \in 1 .. Len(pend[q]) : pend[q][i] = x /\ ~(i = 1 /\ pub[q])
    BY <1>4 DEF Unpublished
  <2>1. PICK i \in 1 .. Len(pend[q]) : pend[q][i] = x /\ ~(i = 1 /\ pub[q])
    BY <2>0
  <2>2. CASE q # p
    <3>1. pub'[q] = pub[q] /\ pend'[q] = pend[q]
      BY <1>1, <1>2, <2>2 DEF TypeOK
    <3> QED BY <2>1, <3>1 DEF Unpublished
  <2>3. CASE q = p
    <3>1. i # 1
      BY <1>1, <2>1, <2>3
    <3>2. i - 1 \in 1 .. Len(pend'[p]) /\ (i - 1) + 1 = i
      BY <1>2, <1>3, <2>3, <3>1
    <3>3. pend'[p][i - 1] = x
      BY <1>2, <2>1, <2>3, <3>2
    <3>4. ~pub'[p]
      BY <1>1 DEF TypeOK
    <3> QED BY <3>2, <3>3, <3>4 DEF Unpublished
  <2> QED BY <2>2, <2>3
<1>5. Completed' = Completed
  BY <1>1 DEF Completed
<1>6. \A w \in Watchers : Got(w)' = Got(w) /\ wpc'[w] = wpc[w]
  BY DEF TryEnqueueLine, Got, chanVars, watchVars
<1>7. ASSUME NEW w \in Watchers, NEW x \in Completed, Owed(w, x)' PROVE Safe(w, x)'
  <2>1. Safe(w, x)
    BY <1>6, <1>7 DEF NoneEscapes, Owed
  <2> QED BY <1>4, <1>6, <2>1 DEF Safe
<1> QED BY <1>5, <1>7 DEF NoneEscapes, Owed

\* The other steps: the copies of the rings are complete, and what is taken
\* from a watcher's replay or channel has been sent.
LEMMA NoneEscapesStep ==
    ASSUME Inv, [Next]_vars
    PROVE  NoneEscapes'
<1>0. TypeOK /\ Control /\ Final /\ Mutex /\ RingStream /\ NoneEscapes
  BY DEF Inv
<1>1. ASSUME UNCHANGED <<ring, evicted, pend, pub, lost, replay, replayed, chan, live, wpc>>
      PROVE  NoneEscapes'
  <2>1. \A w \in Watchers : Got(w)' = Got(w)
    BY <1>1 DEF Got
  <2>2. \A w \in Watchers, rec \in Completed : Owed(w, rec)' => Owed(w, rec)
    BY <1>1 DEF Owed
  <2> QED BY <1>0, <1>1, <2>1, <2>2, KeepsNoneEscapes
<1>2. ASSUME NEW p \in Procs, NEW s \in Streams, NEW b \in BOOLEAN,
             CompleteLine(p, s, b), UNCHANGED <<pub, offered, chanVars, watchVars>>
      PROVE  NoneEscapes'
  BY <1>0, <1>2, CompleteNoneEscapes
<1>3. ASSUME NEW p \in Procs, publishLine(p) PROVE NoneEscapes'
  BY <1>0, <1>3, PublishNoneEscapes
<1>4. ASSUME NEW p \in Procs, TryEnqueueLine(p) PROVE NoneEscapes'
  BY <1>0, <1>4, OfferNoneEscapes
<1>5. ASSUME NEW w \in Watchers, Subscribe(w) PROVE NoneEscapes'
  <2>0. \A rec \in Completed : rec \in Rec
    BY <1>0, RangeType DEF Completed, TypeOK, Streams
  <2>1. CASE SubscribeOut(w)
    <3>1. /\ replay' = [replay EXCEPT ![w] = Range(ring["stdout"])]
          /\ lost' = [lost EXCEPT ![w] = OffRing("stdout")]
          /\ wpc' = [wpc EXCEPT ![w] = "subErr"]
          /\ wpc[w] = "idle"
          /\ UNCHANGED <<ring, evicted, pend, pub, chan, live, replayed>>
      BY <2>1 DEF SubscribeOut, logVars
    <3>2. ASSUME NEW rec \in Completed, rec.stream = "stdout" PROVE rec \in Got(w)'
      <4>1. rec \notin Range(ring["stderr"])
        BY <1>0, <3>2 DEF RingStream, Streams
      <4>2. rec \in OffRing("stdout") \/ rec \in Range(ring["stdout"])
        BY <3>2, <4>1 DEF Completed, OffRing
      <4>3. replay'[w] = Range(ring["stdout"]) /\ lost'[w] = OffRing("stdout")
        BY <1>0, <3>1 DEF TypeOK
      <4> QED BY <4>2, <4>3 DEF Got
    <3>3. \A v \in Watchers : v # w => Got(v)' = Got(v) /\ wpc'[v] = wpc[v]
      BY <1>0, <3>1 DEF Got, TypeOK
    <3>4. wpc'[w] = "subErr"
      BY <1>0, <3>1 DEF TypeOK
    <3>5. Completed' = Completed
      BY <3>1 DEF Completed
    <3>6. ASSUME NEW rec PROVE Unpublished(rec)' <=> Unpublished(rec)
      BY <3>1 DEF Unpublished
    <3>7. ASSUME NEW v \in Watchers, NEW rec \in Completed, Owed(v, rec)'
          PROVE  Safe(v, rec)'
      <4>1. CASE v = w
        BY <3>2, <3>4, <3>7, <4>1 DEF Owed, Safe
      <4>2. CASE v # w
        <5>1. Safe(v, rec)
          BY <1>0, <3>3, <3>7, <4>2 DEF NoneEscapes, Owed
        <5> QED BY <3>3, <3>6, <4>2, <5>1 DEF Safe
      <4> QED BY <4>1, <4>2
    <3> QED BY <3>5, <3>7 DEF NoneEscapes, Owed
  <2>2. CASE SubscribeErr(w)
    <3>1. /\ replay' = [replay EXCEPT ![w] = replay[w] \cup Range(ring["stderr"])]
          /\ lost' = [lost EXCEPT ![w] = lost[w] \cup OffRing("stderr")]
          /\ wpc' = [wpc EXCEPT ![w] = "subEnd"]
          /\ wpc[w] = "subErr"
          /\ UNCHANGED <<ring, evicted, pend, pub, chan, live, replayed>>
      BY <2>2 DEF SubscribeErr, logVars
    <3>2. replay'[w] = replay[w] \cup Range(ring["stderr"])
          /\ lost'[w] = lost[w] \cup OffRing("stderr")
      BY <1>0, <3>1 DEF TypeOK
    <3>3. \A v \in Watchers : v # w => replay'[v] = replay[v] /\ lost'[v] = lost[v]
      BY <1>0, <3>1 DEF TypeOK
    <3>4. \A v \in Watchers : Got(v) \subseteq Got(v)'
      BY <3>1, <3>2, <3>3 DEF Got
    <3>5. ASSUME NEW rec \in Completed, rec.stream # "stdout" PROVE rec \in Got(w)'
      <4>1. rec.stream = "stderr"
        BY <2>0, <3>5 DEF Rec, Streams
      <4>2. rec \notin Range(ring["stdout"])
        BY <1>0, <4>1 DEF RingStream, Streams
      <4>3. rec \in OffRing("stderr") \/ rec \in Range(ring["stderr"])
        BY <3>5, <4>1, <4>2 DEF Completed, OffRing
      <4> QED BY <3>2, <4>3 DEF Got
    <3>6. ASSUME NEW v \in Watchers, NEW rec \in Completed, Owed(v, rec)'
          PROVE  Owed(v, rec) \/ Safe(v, rec)'
      <4>1. CASE v = w /\ rec.stream = "stdout"
        BY <3>1, <4>1 DEF Owed
      <4>2. CASE v = w /\ rec.stream # "stdout"
        BY <3>5, <4>2 DEF Safe
      <4>3. CASE v # w
        BY <1>0, <3>1, <3>6, <4>3 DEF Owed, TypeOK
      <4> QED BY <4>1, <4>2, <4>3
    <3>7. UNCHANGED <<ring, evicted, pend, pub>>
      BY <3>1
    <3> QED BY <1>0, <3>4, <3>6, <3>7, KeepsNoneEscapes
  <2>3. CASE SubscribeEnd(w)
    <3>1. /\ wpc[w] = "subEnd"
          /\ wpc' = [wpc EXCEPT ![w] = "replay"]
          /\ UNCHANGED <<ring, evicted, pend, pub, chan, lost, live, replay, replayed>>
      BY <2>3 DEF SubscribeEnd, logVars
    <3>2. \A v \in Watchers : Got(v)' = Got(v)
      BY <3>1 DEF Got
    <3>3. \A v \in Watchers, rec \in Completed : Owed(v, rec)' => Owed(v, rec)
      BY <1>0, <3>1 DEF Owed, TypeOK
    <3> QED BY <1>0, <3>1, <3>2, <3>3, KeepsNoneEscapes
  <2> QED BY <1>5, <2>1, <2>2, <2>3 DEF Subscribe
<1>6. ASSUME NEW w \in Watchers, Send(w) PROVE NoneEscapes'
  <2>1. UNCHANGED <<ring, evicted, pend, pub, lost>>
    BY <1>6 DEF Send, SendReplay, ReplayEnd, SendLive, LiveEnd, SendDone,
       SendFails, logVars, chanVars
  <2>2. \A v \in Watchers : v # w => wpc'[v] = wpc[v]
    BY <1>0, <1>6 DEF Send, SendReplay, ReplayEnd, SendLive, LiveEnd, SendDone,
       SendFails, TypeOK
  <2>3. \/ wpc'[w] \in {wpc[w], "left"}
        \/ wpc[w] \in {"replay", "live", "result"} /\ wpc'[w] \in {"live", "result", "done"}
    BY <1>0, <1>6 DEF Send, SendReplay, ReplayEnd, SendLive, LiveEnd, SendDone,
       SendFails, TypeOK
  <2>4. \A v \in Watchers, rec \in Completed : Owed(v, rec)' => Owed(v, rec)
    BY <2>2, <2>3 DEF Owed
  <2>5. \A v \in Watchers : Got(v) \subseteq Got(v)'
    <3>1. CASE SendReplay(w)
      <4>1. PICK rec \in replay[w] :
              /\ replay' = [replay EXCEPT ![w] = replay[w] \ {rec}]
              /\ replayed' = [replayed EXCEPT ![w] = replayed[w] \cup {rec}]
        BY <3>1 DEF SendReplay
      <4>2. UNCHANGED <<lost, chan, live>>
        BY <3>1 DEF SendReplay, chanVars
      <4>3. replay'[w] = replay[w] \ {rec} /\ replayed'[w] = replayed[w] \cup {rec}
        BY <1>0, <4>1 DEF TypeOK
      <4>4. \A v \in Watchers : v # w => replay'[v] = replay[v] /\ replayed'[v] = replayed[v]
        BY <1>0, <4>1 DEF TypeOK
      <4> QED BY <4>2, <4>3, <4>4 DEF Got
    <3>2. CASE SendLive(w)
      <4>1. /\ chan[w] # <<>>
            /\ chan' = [chan EXCEPT ![w] = Tail(chan[w])]
            /\ live' = [live EXCEPT ![w] = Append(live[w], Head(chan[w]))]
            /\ UNCHANGED <<lost, replay, replayed>>
        BY <3>2 DEF SendLive
      <4>2. chan[w] \in Seq(Rec) /\ live[w] \in Seq(Rec)
        BY <1>0 DEF TypeOK
      <4>3. Head(chan[w]) \in Rec /\ Range(chan[w]) = Range(Tail(chan[w])) \cup {Head(chan[w])}
        BY <4>1, <4>2, TailFacts
      <4>4. Range(Append(live[w], Head(chan[w]))) = Range(live[w]) \cup {Head(chan[w])}
        BY <4>2, <4>3, AppendFacts
      <4>5. chan'[w] = Tail(chan[w]) /\ live'[w] = Append(live[w], Head(chan[w]))
        BY <1>0, <4>1 DEF TypeOK
      <4>6. \A v \in Watchers : v # w => chan'[v] = chan[v] /\ live'[v] = live[v]
        BY <1>0, <4>1 DEF TypeOK
      <4> QED BY <4>1, <4>3, <4>4, <4>5, <4>6 DEF Got
    <3>3. CASE ReplayEnd(w) \/ LiveEnd(w) \/ SendDone(w) \/ SendFails(w)
      <4>1. UNCHANGED <<lost, replay, replayed, chan, live>>
        BY <3>3 DEF ReplayEnd, LiveEnd, SendDone, SendFails, chanVars
      <4> QED BY <4>1 DEF Got
    <3> QED BY <1>6, <3>1, <3>2, <3>3 DEF Send
  <2> QED BY <1>0, <2>1, <2>4, <2>5, KeepsNoneEscapes
\* The remaining steps touch neither the published lines nor the watchers.
<1>7. CASE Parse \/ RunReturns \/ Kill
  BY <1>1, <1>7 DEF Parse, ParseFails, ParseSucceeds, RunReturns, Kill,
     logVars, chanVars, watchVars
<1>8. CASE Finalise /\ UNCHANGED <<seq, ring, evicted, pend, pub, offered>>
  <2>1. UNCHANGED <<lost, replay, replayed, chan, live, wpc>>
    BY <1>8 DEF Finalise, FlushStdout, FlushStderr, FlushLine, Classify, SetState,
       FinishJob, finishSubs, CloseDone, chanVars, watchVars
  <2> QED BY <1>1, <1>8, <2>1
<1>9. ASSUME NEW w \in Writers, Write(w), UNCHANGED <<seq, ring, evicted, pend, pub, offered>>
      PROVE  NoneEscapes'
  <2>1. UNCHANGED <<lost, replay, replayed, chan, live, wpc>>
    BY <1>9 DEF Write, WriteBegin, WriteText, WriteLine, WriteEnd, chanVars, watchVars
  <2> QED BY <1>1, <1>9, <2>1
<1>10. CASE UNCHANGED vars
  BY <1>1, <1>10 DEF vars, logVars, chanVars, watchVars
<1>11. CASE UNCHANGED <<seq, ring, evicted, pend, pub, offered>>
  <2>1. ASSUME NEW p \in Procs, Emit(p) PROVE NoneEscapes'
    BY <1>3, <1>4, <2>1 DEF Emit
  <2> QED BY <1>5, <1>6, <1>7, <1>8, <1>9, <1>10, <1>11, <2>1 DEF Next
<1> QED BY <1>2, <1>3, <1>4, <1>11, StepKinds

-----------------------------------------------------------------------------
(* The invariant, and what follows from it                                 *)

\* A job that Execute has just registered.
LEMMA InitInv == Init => Inv
<1> SUFFICES ASSUME Init PROVE Inv
  OBVIOUS
<1> USE JobAssumption DEF Init
<1>1. TypeOK
  <2>1. <<>> \in Seq(Rec) /\ -1 \in Int
    OBVIOUS
  <2>2. /\ ring \in [Streams -> Seq(Rec)] /\ pend \in [Procs -> Seq(Rec)]
        /\ chan \in [Watchers -> Seq(Rec)] /\ live \in [Watchers -> Seq(Rec)]
        /\ offered \in Seq(Rec)
    BY <2>1
  <2>3. /\ partial \in [Streams -> BOOLEAN] /\ pub \in [Procs -> BOOLEAN]
        /\ lock \in [Streams -> Writers \cup {Free}]
        /\ cancelled \in BOOLEAN /\ done \in BOOLEAN /\ behind \in SUBSET Background
    OBVIOUS
  <2>4. /\ finish \in [state : Verdicts \cup {"none"}, exit : Int]
        /\ res \in [err : BOOLEAN, exit : Int]
    BY DEF NoFinish
  <2> QED BY <2>1, <2>2, <2>3, <2>4 DEF TypeOK
<1>2. Control
  <2>1. \A s \in Streams : lock[s] = Free
    OBVIOUS
  <2>2. \A p \in Procs : pend[p] = <<>> /\ pub[p] = FALSE
    OBVIOUS
  <2> QED BY <2>1, <2>2 DEF Control, Procs
<1>3. Final
  BY DEF Final, Finished, Ended
<1>4. Numbered
  BY DEF Numbered
<1>5. Placed
  BY DEF Placed
<1>6. Mutex
  BY DEF Mutex
<1>7. Completed = {}
  BY DEF Completed, Range, Streams
<1>8. RingStream
  BY DEF RingStream, Range
<1>9. NoneEscapes
  BY <1>7 DEF NoneEscapes
<1> QED BY <1>1, <1>2, <1>3, <1>4, <1>5, <1>6, <1>8, <1>9 DEF Inv

\* Every step of a job keeps the invariant.
LEMMA NextInv == Inv /\ [Next]_vars => Inv'
<1> SUFFICES ASSUME Inv, [Next]_vars PROVE Inv'
  OBVIOUS
<1>0. TypeOK /\ Control /\ Final /\ Mutex
  BY DEF Inv
<1>1. TypeOK'
  BY <1>0, TypeStep
<1>2. Control'
  BY <1>0, ControlStep
<1>3. Final'
  BY <1>0, FinalStep
<1>4. Numbered' /\ Placed'
  BY NumberedStep
<1>5. Mutex'
  BY <1>0, MutexStep
<1>6. RingStream'
  BY RingStreamStep
<1>7. NoneEscapes'
  BY NoneEscapesStep
<1> QED BY <1>1, <1>2, <1>3, <1>4, <1>5, <1>6, <1>7 DEF Inv

\* The invariant of a job: each line is in one place, and none is out of the
\* reach of a watcher that has copied its ring.
THEOREM InvHolds == Spec => []Inv
<1>1. Init => Inv
  BY InitInv
<1>2. Inv /\ [Next]_vars => Inv'
  BY NextInv
<1> QED BY <1>1, <1>2, PTL DEF Spec

\* Every variable of a job keeps its type.
THEOREM TypeCorrect == Spec => []TypeOK
<1>1. Inv => TypeOK
  BY DEF Inv
<1> QED BY <1>1, InvHolds, PTL

\* The exit code of a Done event is the one in the job's finish record, with
\* any number of watchers.
THEOREM DoneIsFinalHolds == Spec => []DoneIsFinal
<1>1. Inv => DoneIsFinal
  <2> SUFFICES ASSUME Inv, NEW w \in Watchers, wpc[w] = "done"
               PROVE  finish # NoFinish /\ finish = [state |-> state, exit |-> doneExit[w]]
    BY DEF DoneIsFinal
  <2>1. jpc \in Finished
    BY DEF Inv, Final, Finished
  <2>2. finish = [state |-> state, exit |-> exit] /\ state \in Verdicts /\ doneExit[w] = exit
    BY <2>1 DEF Inv, Final
  <2>3. finish.state # NoFinish.state
    BY <2>2 DEF NoFinish, Verdicts
  <2> QED BY <2>2, <2>3
<1> QED BY <1>1, InvHolds, PTL

\* Once the finish record is offered, a line the store has not been offered is
\* in the hands of a command left behind, and no line is offered twice, with
\* any number of writers of which any were left behind.
THEOREM FinishIsLastHolds == Spec => []FinishIsLast
<1>1. Inv => FinishIsLast
  <2> SUFFICES ASSUME Inv, finish # NoFinish
               PROVE  /\ \A n \in 1 .. seq :
                            \/ \E i \in 1 .. Len(offered) : offered[i].seq = n
                            \/ InHand(n)
                      /\ \A i, k \in 1 .. Len(offered) :
                            offered[i].seq = offered[k].seq => i = k
                      /\ \A i \in 1 .. Len(offered) : offered[i].seq \in 1 .. seq
    BY DEF FinishIsLast
  <2>1. jpc \in Finished
    BY DEF Inv, Final
  <2>2. \A p \in Procs : pend[p] # <<>> => p \in behind
    BY <2>1 DEF Inv, Control, Procs, Finished, Ended
  <2>3. \A p \in Procs : \A i \in 1 .. Len(pend[p]) : p \in behind
    BY <2>2
  <2>4. ASSUME NEW n \in 1 .. seq,
               ~ \E i \in 1 .. Len(offered) : offered[i].seq = n
        PROVE  InHand(n)
    <3>1. PICK p \in Procs : \E i \in 1 .. Len(pend[p]) : pend[p][i].seq = n
      BY <2>4 DEF Inv, Placed
    <3> QED BY <2>3, <3>1 DEF InHand
  <2> QED BY <2>4 DEF Inv, Numbered
<1> QED BY <1>1, InvHolds, PTL

\* A watcher that was sent Done was sent every line that neither its full
\* channel refused nor had left the ring when it subscribed nor was a late one
\* of a command left behind, for any number of writers, watchers and lines.
THEOREM WatchCompleteHolds == Spec => []WatchComplete
<1>1. Inv => WatchComplete
  <2> SUFFICES ASSUME Inv, NEW w \in Watchers, wpc[w] = "done", NEW rec \in Completed
               PROVE  \/ rec.blank
                      \/ rec \in lost[w] \cup replayed[w] \cup Range(live[w])
                      \/ InHand(rec.seq)
    BY DEF WatchComplete
  <2>1. jpc \in Ended
    BY DEF Inv, Final
  <2>2. \A p \in Procs : pend[p] # <<>> => p \in behind
    BY <2>1 DEF Inv, Control, Procs, Finished, Ended
  <2>3. Unpublished(rec) => InHand(rec.seq)
    BY <2>2 DEF Unpublished, InHand
  <2>4. replay[w] = {} /\ chan[w] = <<>>
    BY DEF Inv, Mutex
  <2>5. Range(chan[w]) = {}
    BY <2>4 DEF Range
  <2>6. Safe(w, rec)
    BY DEF Inv, NoneEscapes
  <2> QED BY <2>3, <2>4, <2>5, <2>6 DEF Safe, Got
<1> QED BY <1>1, InvHolds, PTL

-----------------------------------------------------------------------------
(* Order                                                                   *)

\* As for a simple command: a pipeline has several writers on stderr.
OneWriterPerStream ==
    \A v, w \in Writers : StreamOf[v] = StreamOf[w] => v = w

\* A writer holds lines of its own stream, and the goroutine none before the
\* command has ended: no two of them hold lines of the same stream.
Owned ==
    /\ \A w \in Writers : \A i \in 1 .. Len(pend[w]) :
          pend[w][i].stream = StreamOf[w]
    /\ jpc \in {"parse", "run"} => pend[Main] = <<>>

\* Lines wait in order, behind those of their stream that were offered.
PendOrder ==
    /\ InOrder(offered)
    /\ \A p \in Procs : \A i, k \in 1 .. Len(pend[p]) :
          i < k => pend[p][i].seq < pend[p][k].seq
    /\ \A i \in 1 .. Len(offered), p \in Procs : \A k \in 1 .. Len(pend[p]) :
          offered[i].stream = pend[p][k].stream => offered[i].seq < pend[p][k].seq

\* What a watcher was sent or will be sent is before what is yet to be
\* published.
Sent(w) == Range(live[w]) \cup Range(chan[w])
Feed(w) ==
    /\ InOrder(live[w])
    /\ InOrder(chan[w])
    /\ \A x \in Range(live[w]), y \in Range(chan[w]) :
          x.stream = y.stream => x.seq < y.seq
    /\ \A x \in Sent(w) :
          /\ x.seq <= seq
          /\ \A p \in Procs : \A k \in 1 .. Len(pend[p]) :
                x.stream = pend[p][k].stream =>
                   (k = 1 /\ pub[p]) \/ x.seq < pend[p][k].seq
FeedOrder == \A w \in Watchers : Feed(w)

OrderInv == Owned /\ (behind = {} => PendOrder /\ FeedOrder)

\* With one writer per stream and none left behind, the lines of a stream wait
\* in one process.
LEMMA OneHolder ==
    ASSUME OneWriterPerStream, behind = {}, Inv, Owned, NEW p \in Procs, NEW q \in Procs, p # q,
           NEW i \in 1 .. Len(pend[p]), NEW k \in 1 .. Len(pend[q])
    PROVE  pend[p][i].stream # pend[q][k].stream
<1>1. ASSUME NEW r \in Procs, NEW n \in 1 .. Len(pend[r]) PROVE pend[r] # <<>>
  BY <1>1
<1>2. pend[p] # <<>> /\ pend[q] # <<>>
  BY <1>1
<1>3. p \in Writers /\ q \in Writers
  <2>1. pend[Main] # <<>> => \A w \in Writers : pend[w] = <<>>
    BY DEF Inv, Control, Owned
  <2> QED BY <1>2, <2>1 DEF Procs
<1> QED BY <1>3 DEF Owned, OneWriterPerStream

\* Each step keeps the owners of the lines that wait.
LEMMA OwnedStep ==
    ASSUME Inv, Owned, [Next]_vars
    PROVE  Owned'
<1>0. TypeOK /\ Control /\ Main \in Procs /\ Main \notin Writers /\ Writers \subseteq Procs
  BY JobAssumption DEF Inv, Procs
<1>1. ASSUME NEW w \in Writers, Write(w)
      PROVE  Owned'
  <2>1. CASE WriteLine(w)
    <3> DEFINE rec == NewLine(StreamOf[w], ~partial[StreamOf[w]])
    <3>1. pend' = [pend EXCEPT ![w] = Append(pend[w], rec)] /\ jpc' = jpc
      BY <2>1 DEF WriteLine, CompleteLine, NewLine, runVars
    <3>2. rec.stream = StreamOf[w]
      BY DEF NewLine
    <3>3. rec \in Rec
      BY <1>0, JobAssumption DEF NewLine, Rec, TypeOK
    <3> HIDE DEF rec
    <3>4. pend \in [Procs -> Seq(Rec)] /\ w \in Procs /\ pend[w] \in Seq(Rec)
      BY <1>0 DEF TypeOK
    <3>5. /\ \A v \in Procs : v # w => pend'[v] = pend[v]
          /\ pend'[w] = Append(pend[w], rec)
      BY <3>1, <3>4
    <3>6. \A i \in 1 .. Len(pend'[w]) : pend'[w][i].stream = StreamOf[w]
      <4>1. /\ Len(pend'[w]) = Len(pend[w]) + 1 /\ Len(pend[w]) \in Nat
            /\ \A i \in 1 .. Len(pend[w]) : pend'[w][i] = pend[w][i]
            /\ pend'[w][Len(pend[w]) + 1] = rec
        BY <3>3, <3>4, <3>5, AppendFacts
      <4> QED BY <3>2, <4>1 DEF Owned
    <3> QED BY <1>0, <3>1, <3>5, <3>6 DEF Owned
  <2>2. CASE WriteBegin(w) \/ WriteText(w) \/ WriteEnd(w)
    BY <2>2 DEF WriteBegin, WriteText, WriteEnd, runVars, Owned
  <2> QED BY <1>1, <2>1, <2>2 DEF Write
<1>2. ASSUME NEW p \in Procs, Emit(p)
      PROVE  Owned'
  <2>1. CASE publishLine(p)
    BY <2>1 DEF publishLine, runVars, Owned
  <2>2. CASE TryEnqueueLine(p)
    <3>1. /\ \A q \in Procs : q # p => pend'[q] = pend[q]
          /\ Len(pend[p]) >= 1 /\ Len(pend'[p]) = Len(pend[p]) - 1
          /\ \A i \in 1 .. Len(pend'[p]) : pend'[p][i] = pend[p][i + 1]
          /\ pend[p] # <<>>
      BY <1>0, <2>2, OfferFacts
    <3>2. jpc' = jpc /\ Len(pend[p]) \in Nat
      BY <1>0, <2>2 DEF TryEnqueueLine, runVars, TypeOK
    <3>3. ASSUME NEW w \in Writers, NEW i \in 1 .. Len(pend'[w])
          PROVE  pend'[w][i].stream = StreamOf[w]
      <4>1. CASE w = p
        <5>1. i + 1 \in 1 .. Len(pend[p])
          BY <3>1, <3>2, <4>1
        <5> QED BY <3>1, <4>1, <5>1 DEF Owned
      <4>2. CASE w # p
        BY <1>0, <3>1, <4>2 DEF Owned
      <4> QED BY <4>1, <4>2
    <3>4. jpc \in {"parse", "run"} => pend'[Main] = <<>>
      BY <1>0, <3>1 DEF Owned
    <3> QED BY <3>2, <3>3, <3>4 DEF Owned
  <2> QED BY <1>2, <2>1, <2>2 DEF Emit
<1>3. CASE Parse \/ RunReturns \/ Kill
  BY <1>3 DEF Parse, ParseFails, ParseSucceeds, RunReturns, Kill, At, logVars, Owned
<1>4. ASSUME Finalise
      PROVE  Owned'
  <2>1. /\ \A w \in Writers : pend'[w] = pend[w]
        /\ jpc' \notin {"parse", "run"}
    BY <1>0, <1>4 DEF Finalise, FlushStdout, FlushStderr, FlushLine, Classify, SetState,
       FinishJob, finishSubs, CloseDone, CompleteLine, logVars, Verdict, TypeOK
  <2> QED BY <2>1 DEF Owned
<1>5. ASSUME NEW w \in Watchers, Subscribe(w) \/ Send(w)
      PROVE  Owned'
  <2>1. UNCHANGED <<pend, jpc>>
    BY <1>5 DEF Subscribe, SubscribeOut, SubscribeErr, SubscribeEnd, Send,
       SendReplay, ReplayEnd, SendLive, LiveEnd, SendDone, SendFails, logVars, runVars
  <2> QED BY <2>1 DEF Owned
<1>6. CASE UNCHANGED vars
  BY <1>6 DEF vars, logVars, runVars, Owned
<1> QED BY <1>1, <1>2, <1>3, <1>4, <1>5, <1>6 DEF Next

\* What CompleteLine, for a process, does to the waiting lines.
LEMMA CompletePend ==
    ASSUME TypeOK, Numbered, NEW p \in Procs, NEW s \in Streams, NEW b \in BOOLEAN,
           CompleteLine(p, s, b), NEW q \in Procs, NEW k \in 1 .. Len(pend'[q])
    PROVE  \/ /\ k \in 1 .. Len(pend[q]) /\ pend'[q][k] = pend[q][k]
              /\ pend'[q][k].seq <= seq
           \/ /\ q = p /\ k = Len(pend[p]) + 1
              /\ pend'[q][k].seq = seq + 1
<1> DEFINE rec == NewLine(s, b)
<1>1. rec \in Rec /\ pend' = [pend EXCEPT ![p] = Append(pend[p], rec)]
  BY CompleteLineFacts
<1>2. rec.seq = seq + 1
  BY DEF NewLine
<1> HIDE DEF rec
<1>3. pend \in [Procs -> Seq(Rec)] /\ pend[p] \in Seq(Rec) /\ Len(pend[p]) \in Nat
  BY DEF TypeOK
<1>4. /\ pend'[p] = Append(pend[p], rec)
      /\ \A r \in Procs : r # p => pend'[r] = pend[r]
  BY <1>1, <1>3
<1>5. /\ Len(pend'[p]) = Len(pend[p]) + 1
      /\ \A i \in 1 .. Len(pend[p]) : pend'[p][i] = pend[p][i]
      /\ pend'[p][Len(pend[p]) + 1] = rec
  BY <1>1, <1>3, <1>4, AppendFacts
<1>6. CASE q # p
  BY <1>4, <1>6 DEF Numbered
<1>7. CASE q = p /\ k \in 1 .. Len(pend[p])
  BY <1>5, <1>7 DEF Numbered
<1>8. CASE q = p /\ k = Len(pend[p]) + 1
  BY <1>2, <1>5, <1>8
<1> QED BY <1>3, <1>5, <1>6, <1>7, <1>8

\* Each step keeps the lines that wait in order.
LEMMA PendOrderStep ==
    ASSUME OneWriterPerStream, behind = {}, Inv, Owned, PendOrder, [Next]_vars
    PROVE  PendOrder'
<1>0. TypeOK /\ Numbered /\ seq \in Nat
      /\ offered \in Seq(Rec) /\ Len(offered) \in Nat
      /\ \A q \in Procs : pend[q] \in Seq(Rec) /\ Len(pend[q]) \in Nat
  BY DEF Inv, TypeOK
<1>r. \A q \in Procs : \A i \in 1 .. Len(pend[q]) : pend[q][i].seq \in Nat
  <2>1. \A q \in Procs : \A i \in 1 .. Len(pend[q]) : pend[q][i] \in Rec
    BY <1>0
  <2> QED BY <2>1 DEF Rec
<1>1. ASSUME NEW p \in Procs, NEW s \in Streams, NEW b \in BOOLEAN,
             CompleteLine(p, s, b), offered' = offered
      PROVE  PendOrder'
  <2>1. ASSUME NEW q \in Procs, NEW k \in 1 .. Len(pend'[q])
        PROVE  \/ /\ k \in 1 .. Len(pend[q]) /\ pend'[q][k] = pend[q][k]
                  /\ pend'[q][k].seq <= seq
               \/ /\ q = p /\ k = Len(pend[p]) + 1
                  /\ pend'[q][k].seq = seq + 1
    BY <1>0, <1>1, CompletePend
  <2>2. ASSUME NEW q \in Procs, NEW i \in 1 .. Len(pend'[q]),
               NEW k \in 1 .. Len(pend'[q]), i < k
        PROVE  pend'[q][i].seq < pend'[q][k].seq
    <3>1. Len(pend[q]) \in Nat /\ (i = Len(pend[q]) + 1 => k \notin 1 .. Len(pend[q]))
      BY <1>0, <2>2
    <3>2. CASE /\ k \in 1 .. Len(pend[q]) /\ pend'[q][k] = pend[q][k]
               /\ i \in 1 .. Len(pend[q]) /\ pend'[q][i] = pend[q][i]
      BY <2>2, <3>2 DEF PendOrder
    <3>3. CASE q = p /\ k = Len(pend[q]) + 1 /\ pend'[q][k].seq = seq + 1
      <4>1. i # Len(pend[q]) + 1
        BY <2>2, <3>3
      <4>2. pend'[q][i].seq <= seq /\ pend'[q][i].seq \in Nat
        BY <1>r, <2>1, <3>3, <4>1
      <4> QED BY <1>0, <3>3, <4>2
    <3> QED BY <2>1, <2>2, <3>1, <3>2, <3>3
  <2>3. ASSUME NEW i \in 1 .. Len(offered), NEW q \in Procs, NEW k \in 1 .. Len(pend'[q]),
               offered[i].stream = pend'[q][k].stream
        PROVE  offered[i].seq < pend'[q][k].seq
    <3>1. CASE k \in 1 .. Len(pend[q]) /\ pend'[q][k] = pend[q][k]
      BY <2>3, <3>1 DEF PendOrder
    <3>2. CASE pend'[q][k].seq = seq + 1
      <4>1. offered[i].seq \in 1 .. seq
        BY <1>0 DEF Numbered
      <4> QED BY <1>0, <3>2, <4>1
    <3> QED BY <2>1, <3>1, <3>2
  <2> QED BY <1>1, <2>2, <2>3 DEF PendOrder, InOrder
<1>2. ASSUME NEW p \in Procs, TryEnqueueLine(p)
      PROVE  PendOrder'
  <2>1. /\ Len(offered') = Len(offered) + 1
        /\ \A i \in 1 .. Len(offered) : offered'[i] = offered[i]
        /\ offered'[Len(offered) + 1] = pend[p][1]
        /\ \A q \in Procs : q # p => pend'[q] = pend[q]
        /\ Len(pend[p]) >= 1
        /\ Len(pend'[p]) = Len(pend[p]) - 1
        /\ \A i \in 1 .. Len(pend'[p]) : pend'[p][i] = pend[p][i + 1]
    BY <1>0, <1>2, OfferFacts
  <2>a. 1 \in 1 .. Len(pend[p])
    BY <1>0, <2>1
  <2>b. \A i \in 1 .. Len(pend'[p]) : i + 1 \in 1 .. Len(pend[p])
    BY <1>0, <2>1
  <2>2. InOrder(offered')
    <3> SUFFICES ASSUME NEW i \in 1 .. Len(offered'), NEW k \in 1 .. Len(offered'), i < k,
                        offered'[i].stream = offered'[k].stream
                 PROVE  offered'[i].seq < offered'[k].seq
      BY DEF InOrder
    <3>1. i \in 1 .. Len(offered) /\ offered'[i] = offered[i]
      BY <1>0, <2>1
    <3>2. CASE k \in 1 .. Len(offered)
      BY <2>1, <3>1, <3>2 DEF PendOrder, InOrder
    <3>3. CASE k = Len(offered) + 1
      BY <2>1, <2>a, <3>1, <3>3 DEF PendOrder
    <3>4. k \in 1 .. Len(offered) \/ k = Len(offered) + 1
      BY <1>0, <2>1
    <3> QED BY <3>2, <3>3, <3>4
  <2>3. ASSUME NEW q \in Procs, NEW i \in 1 .. Len(pend'[q]),
               NEW k \in 1 .. Len(pend'[q]), i < k
        PROVE  pend'[q][i].seq < pend'[q][k].seq
    <3>1. CASE q # p
      BY <2>1, <2>3, <3>1 DEF PendOrder
    <3>2. CASE q = p
      <4>1. i + 1 \in 1 .. Len(pend[p]) /\ k + 1 \in 1 .. Len(pend[p]) /\ i + 1 < k + 1
        BY <2>3, <2>b, <3>2
      <4> QED BY <2>1, <2>3, <3>2, <4>1 DEF PendOrder
    <3> QED BY <3>1, <3>2
  <2>4. ASSUME NEW i \in 1 .. Len(offered'), NEW q \in Procs, NEW k \in 1 .. Len(pend'[q]),
               offered'[i].stream = pend'[q][k].stream
        PROVE  offered'[i].seq < pend'[q][k].seq
    <3> DEFINE l == IF q = p THEN k + 1 ELSE k
    <3>1. l \in 1 .. Len(pend[q]) /\ pend'[q][k] = pend[q][l]
      BY <2>1, <2>b
    <3>2. CASE i \in 1 .. Len(offered)
      <4> HIDE DEF l
      <4> QED BY <2>1, <2>4, <3>1, <3>2 DEF PendOrder
    <3>3. CASE i = Len(offered) + 1
      <4>1. offered'[i] = pend[p][1] /\ pend[p][1].stream = pend[q][l].stream
        BY <2>1, <2>4, <3>1, <3>3
      <4>2. q = p
        <5> HIDE DEF l
        <5> QED BY <2>a, <3>1, <4>1, OneHolder
      <4>3. l \in 1 .. Len(pend[p]) /\ 1 < l
        BY <3>1, <4>2
      <4> HIDE DEF l
      <4> QED BY <2>a, <3>1, <4>1, <4>2, <4>3 DEF PendOrder
    <3> QED BY <1>0, <2>1, <3>2, <3>3
  <2> QED BY <2>2, <2>3, <2>4 DEF PendOrder
<1>3. ASSUME UNCHANGED <<pend, offered>> PROVE PendOrder'
  BY <1>3 DEF PendOrder, InOrder
<1>4. ASSUME NEW p \in Procs, publishLine(p) PROVE UNCHANGED <<pend, offered>>
  BY <1>4 DEF publishLine
<1> QED BY <1>1, <1>2, <1>3, <1>4, StepKinds

\* A list of lines that a line of a later number, or of another stream, joins
\* stays in order.
LEMMA AppendOrder ==
    ASSUME NEW q \in Seq(Rec), NEW e \in Rec, InOrder(q),
           \A x \in Range(q) : x.stream = e.stream => x.seq < e.seq
    PROVE  InOrder(Append(q, e))
<1> DEFINE new == Append(q, e)
<1>1. /\ Len(new) = Len(q) + 1 /\ Len(q) \in Nat
      /\ \A i \in 1 .. Len(q) : new[i] = q[i]
      /\ new[Len(q) + 1] = e
  BY AppendFacts
<1> HIDE DEF new
<1>2. \A i \in 1 .. Len(q) : q[i] \in Range(q)
  BY DEF Range
<1> SUFFICES ASSUME NEW i \in 1 .. Len(new), NEW k \in 1 .. Len(new), i < k,
                    new[i].stream = new[k].stream
             PROVE  new[i].seq < new[k].seq
  BY DEF InOrder, new
<1>3. i \in 1 .. Len(q) /\ (k \in 1 .. Len(q) \/ k = Len(q) + 1)
  BY <1>1
<1>4. CASE k \in 1 .. Len(q)
  BY <1>1, <1>3, <1>4 DEF InOrder
<1>5. CASE k = Len(q) + 1
  BY <1>1, <1>2, <1>3, <1>5
<1> QED BY <1>3, <1>4, <1>5

\* The first line of a list in order comes before the rest.
LEMMA TailOrder ==
    ASSUME NEW q \in Seq(Rec), q # <<>>, InOrder(q)
    PROVE  /\ InOrder(Tail(q))
           /\ \A x \in Range(Tail(q)) : x.stream = Head(q).stream => Head(q).seq < x.seq
<1>1. /\ Len(q) \in Nat /\ Len(q) >= 1 /\ Len(Tail(q)) = Len(q) - 1
      /\ \A i \in 1 .. Len(Tail(q)) : Tail(q)[i] = q[i + 1]
      /\ Head(q) = q[1] /\ Tail(q) \in Seq(Rec)
  BY TailFacts
<1>2. \A i \in 1 .. Len(Tail(q)) : i + 1 \in 1 .. Len(q) /\ 1 < i + 1
  BY <1>1
<1>3. InOrder(Tail(q))
  <2> SUFFICES ASSUME NEW i \in 1 .. Len(Tail(q)), NEW k \in 1 .. Len(Tail(q)), i < k,
                      Tail(q)[i].stream = Tail(q)[k].stream
               PROVE  Tail(q)[i].seq < Tail(q)[k].seq
    BY DEF InOrder
  <2>1. i + 1 < k + 1
    OBVIOUS
  <2> QED BY <1>1, <1>2, <2>1 DEF InOrder
<1>4. ASSUME NEW x \in Range(Tail(q)), x.stream = Head(q).stream
      PROVE  Head(q).seq < x.seq
  <2>1. PICK i \in 1 .. Len(Tail(q)) : x = Tail(q)[i]
    <3>1. DOMAIN Tail(q) = 1 .. Len(Tail(q))
      BY <1>1
    <3> QED BY <3>1 DEF Range
  <2>2. 1 \in 1 .. Len(q)
    BY <1>1
  <2> QED BY <1>1, <1>2, <1>4, <2>1, <2>2 DEF InOrder
<1> QED BY <1>3, <1>4

\* The feed of a watcher changes when a line is published or sent.
LEMMA FeedKinds ==
    ASSUME [Next]_vars
    PROVE  \/ \E p \in Procs : publishLine(p)
           \/ \E w \in Watchers : SendLive(w)
           \/ UNCHANGED <<chan, live>>
<1>1. CASE UNCHANGED vars
  BY <1>1 DEF vars, chanVars, watchVars
<1>2. ASSUME NEW w \in Writers, Write(w) PROVE UNCHANGED <<chan, live>>
  BY <1>2 DEF Write, WriteBegin, WriteText, WriteLine, WriteEnd, chanVars, watchVars
<1>3. ASSUME NEW p \in Procs, Emit(p) PROVE publishLine(p) \/ UNCHANGED <<chan, live>>
  BY <1>3 DEF Emit, TryEnqueueLine, chanVars, watchVars
<1>4. CASE Parse \/ RunReturns \/ Kill
  BY <1>4 DEF Parse, ParseFails, ParseSucceeds, RunReturns, Kill, chanVars, watchVars
<1>5. CASE Finalise
  BY <1>5 DEF Finalise, FlushStdout, FlushStderr, FlushLine, Classify, SetState,
     FinishJob, finishSubs, CloseDone, chanVars, watchVars
<1>6. ASSUME NEW w \in Watchers, Subscribe(w) \/ Send(w)
      PROVE  SendLive(w) \/ UNCHANGED <<chan, live>>
  BY <1>6 DEF Subscribe, SubscribeOut, SubscribeErr, SubscribeEnd, Send,
     SendReplay, ReplayEnd, LiveEnd, SendDone, SendFails, chanVars, watchVars
<1> QED BY <1>1, <1>2, <1>3, <1>4, <1>5, <1>6 DEF Next

\* Each step keeps the live feeds in order.
LEMMA FeedOrderStep ==
    ASSUME OneWriterPerStream, behind = {}, Inv, Owned, PendOrder, FeedOrder,
           [Next]_vars,
           NEW w \in Watchers
    PROVE  Feed(w)'
<1>0. /\ TypeOK /\ Numbered /\ seq \in Nat
      /\ live \in [Watchers -> Seq(Rec)] /\ chan \in [Watchers -> Seq(Rec)]
      /\ live[w] \in Seq(Rec) /\ chan[w] \in Seq(Rec)
      /\ pend \in [Procs -> Seq(Rec)] /\ pub \in [Procs -> BOOLEAN]
      /\ \A q \in Procs : pend[q] \in Seq(Rec) /\ Len(pend[q]) \in Nat
  BY DEF Inv, TypeOK
<1>f. Feed(w)
  BY DEF FeedOrder
<1>x. Sent(w) \subseteq Rec /\ \A x \in Sent(w) : x.seq \in Nat
  <2>1. Sent(w) \subseteq Rec
    BY <1>0, RangeType DEF Sent
  <2> QED BY <2>1 DEF Rec
<1>1. ASSUME NEW p \in Procs, NEW s \in Streams, NEW b \in BOOLEAN,
             CompleteLine(p, s, b), UNCHANGED <<pub, chan, live>>
      PROVE  Feed(w)'
  <2>1. seq' = seq + 1 /\ Sent(w)' = Sent(w)
    BY <1>0, <1>1, CompleteLineFacts DEF Sent
  <2>2. ASSUME NEW x \in Sent(w), NEW q \in Procs, NEW k \in 1 .. Len(pend'[q]),
               x.stream = pend'[q][k].stream
        PROVE  (k = 1 /\ pub[q]) \/ x.seq < pend'[q][k].seq
    <3>1. CASE k \in 1 .. Len(pend[q]) /\ pend'[q][k] = pend[q][k]
      BY <1>f, <2>2, <3>1 DEF Feed
    <3>2. CASE pend'[q][k].seq = seq + 1
      BY <1>0, <1>f, <1>x, <2>2, <3>2 DEF Feed
    <3> QED BY <1>0, <1>1, <3>1, <3>2, CompletePend
  <2>3. \A x \in Sent(w) : x.seq <= seq'
    BY <1>0, <1>f, <1>x, <2>1 DEF Feed
  <2> QED BY <1>1, <1>f, <2>1, <2>2, <2>3 DEF Feed, InOrder
<1>2. ASSUME NEW p \in Procs, publishLine(p)
      PROVE  Feed(w)'
  <2> DEFINE rec == Head(pend[p])
  <2>1. /\ UNCHANGED <<seq, pend, live>> /\ ~pub[p] /\ pend[p] # <<>>
        /\ pub' = [pub EXCEPT ![p] = TRUE]
        /\ chan'[w] = chan[w] \/ chan'[w] = Append(chan[w], rec)
    BY <1>2 DEF publishLine, Emitting, watchVars
  <2>2. rec \in Rec /\ rec = pend[p][1] /\ 1 \in 1 .. Len(pend[p])
    <3>1. Len(pend[p]) >= 1 /\ Head(pend[p]) \in Rec /\ Head(pend[p]) = pend[p][1]
      BY <1>0, <2>1, TailFacts
    <3> QED BY <1>0, <3>1
  <2> HIDE DEF rec
  <2>3. \A x \in Sent(w) : x.stream = rec.stream => x.seq < rec.seq
    BY <1>f, <2>1, <2>2 DEF Feed
  <2>4. rec.seq <= seq /\ rec.seq \in Nat
    BY <1>0, <2>2 DEF Numbered
  <2>5. pub'[p] /\ \A q \in Procs : pub[q] => pub'[q]
    BY <1>0, <2>1
  <2>6. ASSUME NEW q \in Procs, NEW k \in 1 .. Len(pend[q]),
               rec.stream = pend[q][k].stream
        PROVE  (k = 1 /\ pub'[q]) \/ rec.seq < pend[q][k].seq
    <3>1. q = p
      BY <2>2, <2>6, OneHolder
    <3>2. CASE k = 1
      BY <2>5, <3>1, <3>2
    <3>3. CASE k # 1
      <4>1. 1 < k
        BY <3>3
      <4> QED BY <2>2, <3>1, <4>1 DEF PendOrder
    <3> QED BY <3>2, <3>3
  <2>7. /\ InOrder(chan'[w])
        /\ \A x \in Range(chan'[w]) : x \in Range(chan[w]) \/ x = rec
    <3>1. CASE chan'[w] = chan[w]
      BY <1>f, <3>1 DEF Feed
    <3>2. CASE chan'[w] = Append(chan[w], rec)
      <4>1. InOrder(Append(chan[w], rec))
        BY <1>0, <1>f, <2>2, <2>3, AppendOrder DEF Feed, Sent
      <4>2. Range(Append(chan[w], rec)) = Range(chan[w]) \cup {rec}
        BY <1>0, <2>2, AppendFacts
      <4> QED BY <3>2, <4>1, <4>2
    <3> QED BY <2>1, <3>1, <3>2
  <2>8. \A x \in Sent(w)' : x \in Sent(w) \/ x = rec
    BY <2>1, <2>7 DEF Sent
  <2>9. ASSUME NEW x \in Sent(w)'
        PROVE  /\ x.seq <= seq
               /\ \A q \in Procs : \A k \in 1 .. Len(pend[q]) :
                     x.stream = pend[q][k].stream =>
                        (k = 1 /\ pub'[q]) \/ x.seq < pend[q][k].seq
    <3>1. CASE x \in Sent(w)
      BY <1>f, <2>5, <3>1 DEF Feed
    <3>2. CASE x = rec
      BY <2>4, <2>6, <3>2
    <3> QED BY <2>8, <3>1, <3>2
  <2>10. \A x \in Range(live'[w]), y \in Range(chan'[w]) :
            x.stream = y.stream => x.seq < y.seq
    BY <1>f, <2>1, <2>3, <2>7 DEF Feed, Sent
  <2>11. InOrder(live'[w])
    BY <1>f, <2>1 DEF Feed
  <2> QED BY <2>1, <2>7, <2>9, <2>10, <2>11 DEF Feed
<1>3. ASSUME NEW p \in Procs, TryEnqueueLine(p)
      PROVE  Feed(w)'
  <2>1. /\ \A q \in Procs : q # p => pend'[q] = pend[q]
        /\ Len(pend'[p]) = Len(pend[p]) - 1
        /\ \A i \in 1 .. Len(pend'[p]) : pend'[p][i] = pend[p][i + 1]
        /\ pub' = [pub EXCEPT ![p] = FALSE]
        /\ UNCHANGED seq
    BY <1>0, <1>3, OfferFacts
  <2>2. UNCHANGED <<chan, live>> /\ Sent(w)' = Sent(w)
    BY <1>3 DEF TryEnqueueLine, chanVars, watchVars, Sent
  <2>3. \A q \in Procs : q # p => pub'[q] = pub[q]
    BY <1>0, <2>1
  <2>4. ASSUME NEW x \in Sent(w), NEW q \in Procs, NEW k \in 1 .. Len(pend'[q]),
               x.stream = pend'[q][k].stream
        PROVE  (k = 1 /\ pub'[q]) \/ x.seq < pend'[q][k].seq
    <3>1. CASE q # p
      BY <1>f, <2>1, <2>3, <2>4, <3>1 DEF Feed
    <3>2. CASE q = p
      <4>1. k + 1 \in 1 .. Len(pend[p]) /\ k + 1 # 1
        BY <1>0, <2>1, <3>2
      <4> QED BY <1>f, <2>1, <2>4, <3>2, <4>1 DEF Feed
    <3> QED BY <3>1, <3>2
  <2> QED BY <1>f, <2>1, <2>2, <2>4 DEF Feed, InOrder
<1>4. ASSUME NEW v \in Watchers, SendLive(v), UNCHANGED <<seq, pend, pub>>
      PROVE  Feed(w)'
  <2>1. CASE v # w
    <3>1. chan'[w] = chan[w] /\ live'[w] = live[w]
      BY <1>0, <1>4, <2>1 DEF SendLive
    <3> QED BY <1>4, <1>f, <3>1 DEF Feed, Sent
  <2>2. CASE v = w
    <3> DEFINE rec == Head(chan[w])
    <3>1. /\ chan[w] # <<>> /\ chan'[w] = Tail(chan[w])
          /\ live'[w] = Append(live[w], rec)
      BY <1>0, <1>4, <2>2 DEF SendLive
    <3>2. rec \in Rec /\ Range(chan[w]) = Range(chan'[w]) \cup {rec}
      BY <1>0, <3>1, TailFacts
    <3>3. /\ InOrder(chan'[w])
          /\ \A x \in Range(chan'[w]) : x.stream = rec.stream => rec.seq < x.seq
      BY <1>0, <1>f, <3>1, TailOrder DEF Feed
    <3> HIDE DEF rec
    <3>4. Range(live'[w]) = Range(live[w]) \cup {rec}
      BY <1>0, <3>1, <3>2, AppendFacts
    <3>5. InOrder(live'[w])
      <4>1. \A x \in Range(live[w]) : x.stream = rec.stream => x.seq < rec.seq
        BY <1>f, <3>2 DEF Feed
      <4> QED BY <1>0, <1>f, <3>1, <3>2, <4>1, AppendOrder DEF Feed
    <3>6. \A x \in Range(live'[w]), y \in Range(chan'[w]) :
             x.stream = y.stream => x.seq < y.seq
      BY <1>f, <3>2, <3>3, <3>4 DEF Feed
    <3>7. Sent(w)' = Sent(w)
      BY <3>2, <3>4 DEF Sent
    <3> QED BY <1>4, <1>f, <3>3, <3>5, <3>6, <3>7 DEF Feed
  <2> QED BY <2>1, <2>2
<1>5. ASSUME UNCHANGED <<seq, pend, pub, chan, live>>
      PROVE  Feed(w)'
  BY <1>5, <1>f DEF Feed, Sent, InOrder
<1>6. ASSUME NEW v \in Watchers, SendLive(v) PROVE UNCHANGED <<seq, pend, pub>>
  BY <1>6 DEF SendLive, logVars
<1>7. CASE UNCHANGED <<chan, live>>
  <2>1. ASSUME UNCHANGED <<seq, ring, evicted, pend, pub, offered>> PROVE Feed(w)'
    BY <1>5, <1>7, <2>1
  <2>2. ASSUME NEW p \in Procs, NEW s \in Streams, NEW b \in BOOLEAN,
               CompleteLine(p, s, b), UNCHANGED pub
        PROVE  Feed(w)'
    BY <1>1, <1>7, <2>2
  <2> QED BY <1>2, <1>3, <2>1, <2>2, StepKinds
<1> QED BY <1>2, <1>4, <1>6, <1>7, FeedKinds

\* A command that was left behind is not joined later.
LEMMA BehindStays ==
    ASSUME Inv, [Next]_vars
    PROVE  behind' = {} => behind = {}
<1>1. CASE RunReturns
  <2>1. behind = {}
    BY <1>1 DEF RunReturns, At, Inv, Control
  <2> QED BY <2>1
<1>2. ASSUME NEW w \in Writers, Write(w) PROVE behind' = behind
  BY <1>2 DEF Write, WriteBegin, WriteText, WriteLine, WriteEnd, runVars
<1>3. ASSUME NEW p \in Procs, Emit(p) PROVE behind' = behind
  BY <1>3 DEF Emit, publishLine, TryEnqueueLine, runVars
<1>4. CASE Parse \/ Kill
  BY <1>4 DEF Parse, ParseFails, ParseSucceeds, Kill
<1>5. CASE Finalise
  BY <1>5 DEF Finalise, FlushStdout, FlushStderr, FlushLine, Classify, SetState,
     FinishJob, finishSubs, CloseDone
<1>6. ASSUME NEW w \in Watchers, Subscribe(w) \/ Send(w) PROVE behind' = behind
  BY <1>6 DEF Subscribe, SubscribeOut, SubscribeErr, SubscribeEnd, Send,
     SendReplay, ReplayEnd, SendLive, LiveEnd, SendDone, SendFails, runVars
<1>7. CASE UNCHANGED vars
  BY <1>7 DEF vars, runVars
<1> QED BY <1>1, <1>2, <1>3, <1>4, <1>5, <1>6, <1>7 DEF Next

\* Nothing has been written before the job starts.
LEMMA OrderInit == Init => OrderInv
<1> SUFFICES ASSUME Init PROVE OrderInv
  OBVIOUS
<1>1. /\ \A p \in Procs : pend[p] = <<>> /\ 1 .. Len(pend[p]) = {}
      /\ offered = <<>> /\ 1 .. Len(offered) = {}
  BY DEF Init
<1>2. \A w \in Watchers : live[w] = <<>> /\ chan[w] = <<>>
  BY DEF Init
<1>3. Range(<<>>) = {} /\ InOrder(<<>>)
  BY DEF Range, InOrder
<1>4. Owned
  BY <1>1 DEF Owned, Procs
<1>5. PendOrder
  BY <1>1 DEF PendOrder, InOrder
<1>6. FeedOrder
  BY <1>2, <1>3 DEF FeedOrder, Feed, Sent
<1> QED BY <1>4, <1>5, <1>6 DEF OrderInv

\* With one writer per stream and no command left behind, the lines of a stream
\* reach the store and every live feed in the order they were written, with any
\* number of watchers and lines and any capacities.
THEOREM StreamOrderHolds ==
    ASSUME OneWriterPerStream
    PROVE  Spec => []StreamOrder
<1>1. Inv /\ OrderInv /\ [Next]_vars => OrderInv'
  <2> SUFFICES ASSUME Inv, OrderInv, [Next]_vars PROVE OrderInv'
    OBVIOUS
  <2>1. Owned'
    BY OwnedStep DEF OrderInv
  <2>2. behind' = {} => behind = {}
    BY BehindStays
  <2>3. CASE behind = {}
    <3>1. PendOrder'
      BY <2>3, PendOrderStep DEF OrderInv
    <3>2. FeedOrder'
      BY <2>3, FeedOrderStep DEF OrderInv, FeedOrder
    <3> QED BY <2>1, <3>1, <3>2 DEF OrderInv
  <2> QED BY <2>1, <2>2, <2>3 DEF OrderInv
<1>2. OrderInv => StreamOrder
  BY DEF OrderInv, PendOrder, FeedOrder, Feed, StreamOrder
<1> QED BY <1>1, <1>2, OrderInit, InvHolds, PTL DEF Spec

-----------------------------------------------------------------------------
(* Kill                                                                    *)

\* A job that was killed before RunWithEnv returned is on its way to another
\* end than success.
Doomed ==
    /\ cancelled
    /\ jpc # "done"
    /\ jpc \in Finished \cup {"finish"} => state # "done"
    /\ finish.state # "done"

\* A job that is doomed stays so.
LEMMA DoomedStep ==
    ASSUME Inv, Doomed, [Next]_vars
    PROVE  Doomed'
<1>1. CASE UNCHANGED vars
  BY <1>1 DEF vars, runVars, Doomed
<1>2. ASSUME UNCHANGED runVars PROVE Doomed'
  BY <1>2 DEF runVars, Doomed
<1>3. ASSUME NEW w \in Writers, Write(w) PROVE UNCHANGED runVars
  BY <1>3 DEF Write, WriteBegin, WriteText, WriteLine, WriteEnd
<1>4. ASSUME NEW p \in Procs, Emit(p) PROVE UNCHANGED runVars
  BY <1>4 DEF Emit, publishLine, TryEnqueueLine
<1>5. CASE Parse \/ RunReturns \/ Kill
  BY <1>5 DEF Parse, ParseFails, ParseSucceeds, RunReturns, Kill, Doomed, Finished, Ended
<1>6. CASE FlushStdout \/ FlushStderr
  BY <1>6 DEF FlushStdout, FlushStderr, FlushLine, Doomed, Finished, Ended
<1>7. CASE Classify
  <2>1. jpc' = Verdict /\ UNCHANGED <<finish, cancelled, state>>
    BY <1>7 DEF Classify
  <2>2. res.err \in BOOLEAN /\ cancelled
    BY DEF Inv, TypeOK, Doomed
  <2>3. Verdict \in {"failed", "killed"}
    BY <2>2 DEF Verdict
  <2> QED BY <2>1, <2>3 DEF Doomed, Finished, Ended
<1>8. CASE SetState
  BY <1>8 DEF SetState, Doomed
<1>9. CASE FinishJob
  BY <1>9 DEF FinishJob, At, Doomed, Finished, Ended
<1>10. CASE finishSubs \/ CloseDone
  BY <1>10 DEF finishSubs, CloseDone, At, Doomed, Finished, Ended
<1>11. ASSUME NEW w \in Watchers, Subscribe(w) \/ Send(w) PROVE UNCHANGED runVars
  BY <1>11 DEF Subscribe, SubscribeOut, SubscribeErr, SubscribeEnd, Send,
     SendReplay, ReplayEnd, SendLive, LiveEnd, SendDone, SendFails
<1> QED BY <1>1, <1>2, <1>3, <1>4, <1>5, <1>6, <1>7, <1>8, <1>9, <1>10, <1>11
        DEF Next, Finalise

\* A job that JobKill reaches before RunWithEnv has returned is never recorded
\* as done, whatever exit code its command returns with.
THEOREM KilledIsNotDoneHolds == Spec => KilledIsNotDone
<1> DEFINE Killed == cancelled /\ jpc \in {"parse", "run"}
           Good == finish.state # "done"
<1>1. Inv /\ Killed => Doomed
  BY DEF Inv, Final, Doomed, Finished, Ended, NoFinish
<1>2. Inv /\ Doomed /\ [Next]_vars => Doomed'
  BY DoomedStep
<1>3. Doomed => Good
  BY DEF Doomed
<1> HIDE DEF Killed, Good
<1>4. Spec => [](Killed => []Good)
  BY <1>1, <1>2, <1>3, InvHolds, PTL DEF Spec
<1> QED BY <1>4 DEF KilledIsNotDone, Killed, Good
=============================================================================
