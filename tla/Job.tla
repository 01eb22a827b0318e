-------------------------------- MODULE Job --------------------------------
(***************************************************************************)
(* One registered command run, from Manager.Execute to the terminal Done   *)
(* event of its watchers: the two LineBuffers with their shared sequence   *)
(* counter, the goroutine that runs the command and classifies its end,    *)
(* the subscriber channels, and the live path of WatchJob.                 *)
(*                                                                         *)
(* A writer is a goroutine of the interpreter that copies one stream of a  *)
(* process into a LineBuffer; a pipeline has several writers on stderr.    *)
(* The interpreter joins the writers of the commands it waits for.  Those  *)
(* of a command that the script left behind with '&' go on after           *)
(* RunWithEnv has returned, and after the job has ended.                   *)
(* A line is reduced to its sequence number, its stream and whether it is  *)
(* empty (publishLine skips empty lines).  What the store does with a line *)
(* it is offered is the subject of module Store.                           *)
(***************************************************************************)
EXTENDS Integers, Sequences, Functions

CONSTANTS
    Writers,    \* goroutines writing to the job's stdout and stderr
    StreamOf,   \* the stream each writer writes to
    Background, \* writers of commands that the script starts with '&'
    Watchers,   \* WatchJob calls
    Main,       \* the goroutine started by Execute
    Free,       \* a mutex that nobody holds
    MemLines,   \* lines kept per LineBuffer
    SubCap,     \* capacity of a subscriber channel
    MaxLines    \* bound: lines the writers complete

Streams == {"stdout", "stderr"}
Procs == Writers \cup {Main}

ASSUME JobAssumption ==
    /\ StreamOf \in [Writers -> Streams]
    /\ Background \subseteq Writers
    /\ Main \notin Writers
    /\ Free \notin Procs \cup Watchers
    /\ MemLines \in Nat \ {0}
    /\ SubCap \in Nat \ {0}
    /\ MaxLines \in Nat

VARIABLES
    seq,        \* Job.seq
    ring,       \* LineBuffer.recs of each stream
    partial,    \* LineBuffer.cur is not empty
    lock,       \* holder of each LineBuffer.mu
    pend,       \* completed lines whose onLine call has not returned
    pub,        \* onLine of the head of pend is past publishLine
    offered,    \* lines offered to the store, in order
    finish,     \* terminal record offered to the store
    jpc,        \* control of the goroutine started by Execute
    res,        \* what RunWithEnv returned
    behind,     \* writers that RunWithEnv returned without joining
    cancelled,  \* jobCtx is cancelled
    state,      \* Job.State
    exit,       \* Job.ExitCode
    done,       \* Job.done is closed
    subMu,      \* holder of Job.subMu
    chst,       \* each watcher's channel: not subscribed, nil, open, closed
    chan,       \* what is in it
    wpc,        \* control of each WatchJob call
    replay,     \* replay lines still to be sent
    replayed,   \* observation: lines sent from the replay
    live,       \* observation: lines sent from the channel, in order
    doneExit,   \* observation: exit code of the Done event
    evicted,    \* observation: lines that fell off a ring
    lost        \* observation: lines a watcher missed, off the ring when it
                \* subscribed, refused by its full channel, or published by
                \* a command left behind after the channel was closed

logVars   == <<seq, ring, partial, lock, pend, pub, offered, evicted>>
runVars   == <<finish, jpc, res, behind, cancelled, state, exit, done>>
chanVars  == <<chst, chan, lost>>
watchVars == <<wpc, replay, replayed, live, doneExit>>
vars == <<logVars, runVars, chanVars, watchVars, subMu>>

NoFinish == [state |-> "none", exit |-> 0]

Rec == [seq : Nat, stream : Streams, blank : BOOLEAN]

Init ==
    /\ seq = 0
    /\ ring = [s \in Streams |-> <<>>]
    /\ partial = [s \in Streams |-> FALSE]
    /\ lock = [s \in Streams |-> Free]
    /\ pend = [p \in Procs |-> <<>>]
    /\ pub = [p \in Procs |-> FALSE]
    /\ offered = <<>>
    /\ finish = NoFinish
    /\ jpc = "parse"
    /\ res = [err |-> FALSE, exit |-> 0]
    /\ behind = {}
    /\ cancelled = FALSE
    /\ state = "running"
    /\ exit = 0
    /\ done = FALSE
    /\ subMu = Free
    /\ chst = [w \in Watchers |-> "none"]
    /\ chan = [w \in Watchers |-> <<>>]
    /\ wpc = [w \in Watchers |-> "idle"]
    /\ replay = [w \in Watchers |-> {}]
    /\ replayed = [w \in Watchers |-> {}]
    /\ live = [w \in Watchers |-> <<>>]
    /\ doneExit = [w \in Watchers |-> -1]
    /\ evicted = {}
    /\ lost = [w \in Watchers |-> {}]

-----------------------------------------------------------------------------
(* LineBuffer                                                              *)

\* A newline: the line gets the next sequence number, enters the ring (the
\* oldest falls off a full one) and waits for its onLine call.
CompleteLine(p, s, blank) ==
    LET rec == [seq |-> seq + 1, stream |-> s, blank |-> blank]
        recs == Append(ring[s], rec)
        full == Len(recs) > MemLines
    IN  /\ seq' = seq + 1
        /\ ring' = [ring EXCEPT ![s] = IF full THEN Tail(recs) ELSE recs]
        /\ evicted' = IF full THEN evicted \cup {Head(recs)} ELSE evicted
        /\ partial' = [partial EXCEPT ![s] = FALSE]
        /\ pend' = [pend EXCEPT ![p] = Append(@, rec)]

\* LineBuffer.Write takes the buffer's mutex ...
WriteBegin(w) ==
    /\ jpc = "run" \/ w \in behind
    /\ pend[w] = <<>>
    /\ lock[StreamOf[w]] = Free
    /\ lock' = [lock EXCEPT ![StreamOf[w]] = w]
    /\ UNCHANGED <<seq, ring, partial, pend, pub, offered, evicted>>
    /\ UNCHANGED <<runVars, chanVars, watchVars, subMu>>

\* ... meets bytes of a line that is not complete yet ...
WriteText(w) ==
    /\ lock[StreamOf[w]] = w
    /\ ~partial[StreamOf[w]]
    /\ partial' = [partial EXCEPT ![StreamOf[w]] = TRUE]
    /\ UNCHANGED <<seq, ring, lock, pend, pub, offered, evicted>>
    /\ UNCHANGED <<runVars, chanVars, watchVars, subMu>>

\* ... or a newline ...
WriteLine(w) ==
    /\ lock[StreamOf[w]] = w
    /\ seq < MaxLines
    /\ CompleteLine(w, StreamOf[w], ~partial[StreamOf[w]])
    /\ UNCHANGED <<lock, pub, offered>>
    /\ UNCHANGED <<runVars, chanVars, watchVars, subMu>>

\* ... and calls onLine for the completed lines only after releasing it.
WriteEnd(w) ==
    /\ lock[StreamOf[w]] = w
    /\ lock' = [lock EXCEPT ![StreamOf[w]] = Free]
    /\ UNCHANGED <<seq, ring, partial, pend, pub, offered, evicted>>
    /\ UNCHANGED <<runVars, chanVars, watchVars, subMu>>

-----------------------------------------------------------------------------
(* onLine: publishLine, then TryEnqueueLine, for one completed line        *)

\* p has left the buffer's critical section with lines to hand on.
Emitting(p) ==
    /\ pend[p] # <<>>
    /\ \A s \in Streams : lock[s] # p

subs == {w \in Watchers : chst[w] = "open"}

\* Mutant of publishLine: a send that waits for room in the channel.
publishLineBlocks(p) ==
    LET rec == Head(pend[p])
    IN  /\ Emitting(p)
        /\ ~pub[p]
        /\ rec.blank \/ (subMu = Free /\ \A w \in subs : Len(chan[w]) < SubCap)
        /\ pub' = [pub EXCEPT ![p] = TRUE]
        /\ chan' = [w \in Watchers |-> IF ~rec.blank /\ w \in subs
                                       THEN Append(chan[w], rec)
                                       ELSE chan[w]]
        /\ UNCHANGED <<seq, ring, partial, lock, pend, offered, evicted>>
        /\ UNCHANGED <<runVars, watchVars, chst, lost, subMu>>

\* The non-blocking send to every subscriber; an empty line is skipped.
publishLine(p) ==
    LET rec == Head(pend[p])
        HasRoom(w) == Len(chan[w]) < SubCap
        Takes(w) == ~rec.blank /\ w \in subs
        Late(w) == ~rec.blank /\ p \in behind /\ chst[w] \in {"nil", "closed"}
    IN  /\ Emitting(p)
        /\ ~pub[p]
        /\ rec.blank \/ subMu = Free
        /\ pub' = [pub EXCEPT ![p] = TRUE]
        /\ chan' = [w \in Watchers |-> IF Takes(w) /\ HasRoom(w)
                                       THEN Append(chan[w], rec)
                                       ELSE chan[w]]
        /\ lost' = [w \in Watchers |-> IF (Takes(w) /\ ~HasRoom(w)) \/ Late(w)
                                       THEN lost[w] \cup {rec}
                                       ELSE lost[w]]
        /\ UNCHANGED <<seq, ring, partial, lock, pend, offered, evicted>>
        /\ UNCHANGED <<runVars, watchVars, chst, subMu>>

\* The line is offered to the store and onLine returns.
TryEnqueueLine(p) ==
    /\ Emitting(p)
    /\ pub[p]
    /\ offered' = Append(offered, Head(pend[p]))
    /\ pend' = [pend EXCEPT ![p] = Tail(@)]
    /\ pub' = [pub EXCEPT ![p] = FALSE]
    /\ UNCHANGED <<seq, ring, partial, lock, evicted>>
    /\ UNCHANGED <<runVars, chanVars, watchVars, subMu>>

-----------------------------------------------------------------------------
(* The goroutine started by Execute                                        *)

\* The goroutine is at pc and has returned from its last onLine call.
At(pc) == jpc = pc /\ pend[Main] = <<>>

\* RunWithEnv fails before anything runs: the command does not parse.
ParseFails ==
    /\ At("parse")
    /\ res' = [err |-> TRUE, exit |-> 0]
    /\ jpc' = "flushOut"
    /\ UNCHANGED <<finish, behind, cancelled, state, exit, done>>
    /\ UNCHANGED <<logVars, chanVars, watchVars, subMu>>

ParseSucceeds ==
    /\ At("parse")
    /\ jpc' = "run"
    /\ UNCHANGED <<finish, res, behind, cancelled, state, exit, done>>
    /\ UNCHANGED <<logVars, chanVars, watchVars, subMu>>

\* The error the interpreter returned, as an exit code.
exitCodeOf(runErr) ==
    CASE runErr = "nil" -> 0
      [] runErr # "nil" /\ cancelled -> 130
      [] runErr = "status" /\ ~cancelled -> 1
      [] runErr = "other" /\ ~cancelled -> 127

\* Mutant of Joined: an onLine call may still be in progress.
JoinedUnlocked(w) == lock[StreamOf[w]] # w

\* The writer has returned from its last Write.
Joined(w) == pend[w] = <<>> /\ lock[StreamOf[w]] # w

\* RunWithEnv returns once the interpreter has joined the writers of the
\* commands it waits for; the others are left behind.
RunReturns ==
    /\ At("run")
    /\ \E B \in SUBSET Background :
          /\ \A w \in Writers \ B : Joined(w)
          /\ behind' = B
    /\ \E runErr \in {"nil", "status", "other"} :
          res' = [err |-> FALSE, exit |-> exitCodeOf(runErr)]
    /\ jpc' = "flushOut"
    /\ UNCHANGED <<finish, cancelled, state, exit, done>>
    /\ UNCHANGED <<logVars, chanVars, watchVars, subMu>>

\* FlushLine takes the buffer's mutex and promotes a trailing partial line.
FlushLine(s, pc, next) ==
    /\ At(pc)
    /\ lock[s] = Free
    /\ jpc' = next
    /\ IF partial[s]
       THEN CompleteLine(Main, s, FALSE)
       ELSE UNCHANGED <<seq, ring, evicted, partial, pend>>
    /\ UNCHANGED <<lock, pub, offered>>
    /\ UNCHANGED <<finish, res, behind, cancelled, state, exit, done>>
    /\ UNCHANGED <<chanVars, watchVars, subMu>>

FlushStdout == FlushLine("stdout", "flushOut", "flushErr")
FlushStderr == FlushLine("stderr", "flushErr", "classify")

\* Mutant of Verdict: the exit code is looked at before jobCtx.
VerdictByExitCode ==
    CASE res.err -> "failed"
      [] ~res.err /\ res.exit = 0 -> "done"
      [] ~res.err /\ res.exit # 0 /\ cancelled -> "killed"
      [] ~res.err /\ res.exit # 0 /\ ~cancelled -> "failed"

\* The terminal state the switch chooses.
Verdict ==
    CASE res.err -> "failed"
      [] ~res.err /\ cancelled -> "killed"
      [] ~res.err /\ ~cancelled /\ res.exit = 0 -> "done"
      [] ~res.err /\ ~cancelled /\ res.exit # 0 -> "failed"

\* The switch: the exit code is set, and an error becomes a stderr line.
\* The chosen state is assigned after that line has been handed on.
Classify ==
    /\ At("classify")
    /\ exit' = res.exit
    /\ jpc' = Verdict
    /\ IF res.err
       THEN lock["stderr"] = Free /\ CompleteLine(Main, "stderr", FALSE)
       ELSE UNCHANGED <<seq, ring, evicted, partial, pend>>
    /\ UNCHANGED <<lock, pub, offered>>
    /\ UNCHANGED <<finish, res, behind, cancelled, state, done>>
    /\ UNCHANGED <<chanVars, watchVars, subMu>>

Verdicts == {"failed", "killed", "done"}

\* Mutant of SetState: Job.State is never assigned.
SetStateForgotten ==
    /\ jpc \in Verdicts
    /\ At(jpc)
    /\ jpc' = "finish"
    /\ UNCHANGED <<finish, res, behind, cancelled, state, exit, done>>
    /\ UNCHANGED <<logVars, chanVars, watchVars, subMu>>

SetState ==
    /\ jpc \in Verdicts
    /\ At(jpc)
    /\ state' = jpc
    /\ jpc' = "finish"
    /\ UNCHANGED <<finish, res, behind, cancelled, exit, done>>
    /\ UNCHANGED <<logVars, chanVars, watchVars, subMu>>

FinishJob ==
    /\ At("finish")
    /\ finish' = [state |-> state, exit |-> exit]
    /\ jpc' = "finishSubs"
    /\ UNCHANGED <<res, behind, cancelled, state, exit, done>>
    /\ UNCHANGED <<logVars, chanVars, watchVars, subMu>>

\* The first deferred call: close and forget every registered channel.
finishSubs ==
    /\ At("finishSubs")
    /\ subMu = Free
    /\ chst' = [w \in Watchers |-> IF w \in subs THEN "closed" ELSE chst[w]]
    /\ jpc' = "closeDone"
    /\ UNCHANGED <<finish, res, behind, cancelled, state, exit, done>>
    /\ UNCHANGED <<logVars, watchVars, chan, lost, subMu>>

\* The other deferred calls, w.Close() and close(job.done).
CloseDone ==
    /\ At("closeDone")
    /\ done' = TRUE
    /\ jpc' = "ended"
    /\ UNCHANGED <<finish, res, behind, cancelled, state, exit>>
    /\ UNCHANGED <<logVars, chanVars, watchVars, subMu>>

\* JobKill.
Kill ==
    /\ ~cancelled
    /\ cancelled' = TRUE
    /\ UNCHANGED <<finish, jpc, res, behind, state, exit, done>>
    /\ UNCHANGED <<logVars, chanVars, watchVars, subMu>>

-----------------------------------------------------------------------------
(* WatchJob, live path                                                     *)

OffRing(s) == {rec \in evicted : rec.stream = s}

\* Mutant of SubscribeOut: the snapshot is taken without subMu.
SubscribeOutUnlocked(w) ==
    /\ wpc[w] = "idle"
    /\ lock["stdout"] = Free
    /\ replay' = [replay EXCEPT ![w] = Range(ring["stdout"])]
    /\ lost' = [lost EXCEPT ![w] = OffRing("stdout")]
    /\ wpc' = [wpc EXCEPT ![w] = "subErr"]
    /\ UNCHANGED <<logVars, runVars, chst, chan, replayed, live, doneExit>>
    /\ UNCHANGED subMu

\* Subscribe takes subMu and snapshots the stdout ring ...
SubscribeOut(w) ==
    /\ wpc[w] = "idle"
    /\ subMu = Free
    /\ lock["stdout"] = Free
    /\ subMu' = w
    /\ replay' = [replay EXCEPT ![w] = Range(ring["stdout"])]
    /\ lost' = [lost EXCEPT ![w] = OffRing("stdout")]
    /\ wpc' = [wpc EXCEPT ![w] = "subErr"]
    /\ UNCHANGED <<logVars, runVars, chst, chan, replayed, live, doneExit>>

\* ... then the stderr ring ...
SubscribeErr(w) ==
    /\ wpc[w] = "subErr"
    /\ lock["stderr"] = Free
    /\ replay' = [replay EXCEPT ![w] = @ \cup Range(ring["stderr"])]
    /\ lost' = [lost EXCEPT ![w] = @ \cup OffRing("stderr")]
    /\ wpc' = [wpc EXCEPT ![w] = "subEnd"]
    /\ UNCHANGED <<logVars, runVars, chst, chan, replayed, live, doneExit>>
    /\ UNCHANGED subMu

\* Mutant of SubscribeEnd: the done channel is not looked at.
SubscribeEndAlways(w) ==
    /\ wpc[w] = "subEnd"
    /\ chst' = [chst EXCEPT ![w] = "open"]
    /\ subMu' = Free
    /\ wpc' = [wpc EXCEPT ![w] = "replay"]
    /\ UNCHANGED <<logVars, runVars, chan, lost>>
    /\ UNCHANGED <<replay, replayed, live, doneExit>>

\* ... and registers a channel unless the job is done.
SubscribeEnd(w) ==
    /\ wpc[w] = "subEnd"
    /\ chst' = [chst EXCEPT ![w] = IF done THEN "nil" ELSE "open"]
    /\ subMu' = Free
    /\ wpc' = [wpc EXCEPT ![w] = "replay"]
    /\ UNCHANGED <<logVars, runVars, chan, lost>>
    /\ UNCHANGED <<replay, replayed, live, doneExit>>

\* The replay is sent in sequence order.
SendReplay(w) ==
    /\ wpc[w] = "replay"
    /\ \E rec \in replay[w] :
          /\ \A r \in replay[w] : rec.seq <= r.seq
          /\ replay' = [replay EXCEPT ![w] = @ \ {rec}]
          /\ replayed' = [replayed EXCEPT ![w] = @ \cup {rec}]
    /\ UNCHANGED <<logVars, runVars, chanVars, wpc, live, doneExit>>
    /\ UNCHANGED subMu

ReplayEnd(w) ==
    /\ wpc[w] = "replay"
    /\ replay[w] = {}
    /\ wpc' = [wpc EXCEPT ![w] = IF chst[w] = "nil" THEN "result" ELSE "live"]
    /\ UNCHANGED <<logVars, runVars, chanVars, replay, replayed, live>>
    /\ UNCHANGED <<doneExit, subMu>>

\* A line from the channel; a client that has gone is noticed only after one,
\* by the failed send or by the check of ctx that follows it.
SendLive(w) ==
    /\ wpc[w] = "live"
    /\ chan[w] # <<>>
    /\ chan' = [chan EXCEPT ![w] = Tail(@)]
    /\ live' = [live EXCEPT ![w] = Append(@, Head(chan[w]))]
    /\ \E next \in {"live", "left"} : wpc' = [wpc EXCEPT ![w] = next]
    /\ UNCHANGED <<logVars, runVars, chst, lost, replay, replayed, doneExit>>
    /\ UNCHANGED subMu

\* Mutant of LiveEnd: the feed is taken to be over when it is empty.
LiveEndWhenEmpty(w) ==
    /\ wpc[w] = "live"
    /\ chan[w] = <<>>
    /\ wpc' = [wpc EXCEPT ![w] = "result"]
    /\ UNCHANGED <<logVars, runVars, chanVars, replay, replayed, live>>
    /\ UNCHANGED <<doneExit, subMu>>

\* range ends: the channel is closed and drained.
LiveEnd(w) ==
    /\ wpc[w] = "live"
    /\ chst[w] = "closed"
    /\ chan[w] = <<>>
    /\ wpc' = [wpc EXCEPT ![w] = "result"]
    /\ UNCHANGED <<logVars, runVars, chanVars, replay, replayed, live>>
    /\ UNCHANGED <<doneExit, subMu>>

\* Result, and the terminal Done event.
SendDone(w) ==
    /\ wpc[w] = "result"
    /\ doneExit' = [doneExit EXCEPT ![w] = exit]
    /\ wpc' = [wpc EXCEPT ![w] = "done"]
    /\ UNCHANGED <<logVars, runVars, chanVars, replay, replayed, live>>
    /\ UNCHANGED subMu

\* stream.Send of a replay line or of Done returns an error.
SendFails(w) ==
    /\ \/ wpc[w] = "replay" /\ replay[w] # {}
       \/ wpc[w] = "result"
    /\ wpc' = [wpc EXCEPT ![w] = "left"]
    /\ UNCHANGED <<logVars, runVars, chanVars, replay, replayed, live>>
    /\ UNCHANGED <<doneExit, subMu>>

-----------------------------------------------------------------------------
Write(w) == WriteBegin(w) \/ WriteText(w) \/ WriteLine(w) \/ WriteEnd(w)

Emit(p) == publishLine(p) \/ TryEnqueueLine(p)

Parse == ParseFails \/ ParseSucceeds

Finalise ==
    \/ FlushStdout \/ FlushStderr \/ Classify \/ SetState
    \/ FinishJob \/ finishSubs \/ CloseDone

Subscribe(w) == SubscribeOut(w) \/ SubscribeErr(w) \/ SubscribeEnd(w)

Send(w) ==
    \/ SendReplay(w) \/ ReplayEnd(w) \/ SendLive(w) \/ LiveEnd(w)
    \/ SendDone(w) \/ SendFails(w)

Next ==
    \/ \E w \in Writers : Write(w)
    \/ \E p \in Procs : Emit(p)
    \/ Parse
    \/ RunReturns
    \/ Finalise
    \/ Kill
    \/ \E w \in Watchers : Subscribe(w) \/ Send(w)

(***************************************************************************)
(* Goroutines that can run do run, and a Subscribe in progress completes.  *)
(* A goroutine that waits for the mutex of a buffer gets it although a     *)
(* command keeps writing (sync.Mutex hands the lock to a starving waiter): *)
(* strong fairness of the steps that take one.  Nothing is assumed of the  *)
(* command, which may never end, of the clients, which may read slowly or  *)
(* not at all, or of Kill.                                                 *)
(***************************************************************************)
Fairness ==
    /\ \A p \in Procs : WF_vars(Emit(p))
    /\ \A w \in Writers : WF_vars(WriteEnd(w))
    /\ SF_vars(Finalise)
    /\ \A w \in Watchers : SF_vars(SubscribeErr(w) \/ SubscribeEnd(w))

Spec == Init /\ [][Next]_vars /\ Fairness

-----------------------------------------------------------------------------
TypeOK ==
    /\ seq \in Nat
    /\ ring \in [Streams -> Seq(Rec)]
    /\ partial \in [Streams -> BOOLEAN]
    /\ lock \in [Streams -> Writers \cup {Free}]
    /\ pend \in [Procs -> Seq(Rec)]
    /\ pub \in [Procs -> BOOLEAN]
    /\ offered \in Seq(Rec)
    /\ finish \in [state : Verdicts \cup {"none"}, exit : Int]
    /\ jpc \in Verdicts \cup {"parse", "run", "flushOut", "flushErr",
                 "classify", "finish", "finishSubs", "closeDone", "ended"}
    /\ res \in [err : BOOLEAN, exit : Int]
    /\ behind \in SUBSET Background
    /\ cancelled \in BOOLEAN
    /\ state \in Verdicts \cup {"running"}
    /\ exit \in Int
    /\ done \in BOOLEAN
    /\ subMu \in Watchers \cup {Free}
    /\ chst \in [Watchers -> {"none", "nil", "open", "closed"}]
    /\ chan \in [Watchers -> Seq(Rec)]
    /\ wpc \in [Watchers -> {"idle", "subErr", "subEnd", "replay", "live",
                             "result", "done", "left"}]
    /\ replay \in [Watchers -> SUBSET Rec]
    /\ replayed \in [Watchers -> SUBSET Rec]
    /\ live \in [Watchers -> Seq(Rec)]
    /\ doneExit \in [Watchers -> Int]
    /\ evicted \in SUBSET Rec
    /\ lost \in [Watchers -> SUBSET Rec]

-----------------------------------------------------------------------------
(* What a job promises                                                     *)

\* The lines completed so far.
Completed == evicted \cup Range(ring["stdout"]) \cup Range(ring["stderr"])

\* A command left behind has completed the line and not handed it on yet.
InHand(n) == \E w \in behind : \E i \in 1 .. Len(pend[w]) : pend[w][i].seq = n

\* A watcher that got the Done event (WatchJob, service.go) got every
\* non-empty line of both streams before it, from the replay or live, unless
\* the line had fallen off its ring when the watcher subscribed, a full
\* channel refused it, or a command left behind had not handed it on when
\* the channel was closed: no line slips between the two ring snapshots of
\* Subscribe, or between the snapshots and the registration of the channel.
WatchComplete ==
    \A w \in Watchers : wpc[w] = "done" =>
        \A rec \in Completed :
            \/ rec.blank
            \/ rec \in lost[w] \cup replayed[w] \cup Range(live[w])
            \/ InHand(rec.seq)

\* Job.Result is read only once it is final: the exit code in a Done event is
\* the one the store is given in the finish record (Execute, manager.go).
DoneIsFinal ==
    \A w \in Watchers : wpc[w] = "done" =>
        /\ finish # NoFinish
        /\ finish = [state |-> state, exit |-> doneExit[w]]

\* The finish record follows every line that RunWithEnv waited for, and those
\* of Execute itself: once it is offered, a line that the store has not been
\* offered is in the hands of a command left behind.  No line is offered
\* twice (FlushLine and a late Write take turns, manager.go and runner.go).
FinishIsLast ==
    finish # NoFinish =>
        /\ \A n \in 1 .. seq :
              \/ \E i \in 1 .. Len(offered) : offered[i].seq = n
              \/ InHand(n)
        /\ \A i, k \in 1 .. Len(offered) :
              offered[i].seq = offered[k].seq => i = k
        /\ \A i \in 1 .. Len(offered) : offered[i].seq \in 1 .. seq

\* The lines of one stream are in the order they were completed in.
InOrder(recs) ==
    \A i, k \in 1 .. Len(recs) :
        i < k /\ recs[i].stream = recs[k].stream => recs[i].seq < recs[k].seq

\* With one writer per stream and no command left behind, the lines of one
\* stream reach a watcher's live feed, and the store, in the order they were
\* written: Write calls onLine in line order, and FlushLine follows the last
\* Write of a writer that was joined.
StreamOrder ==
    behind = {} => InOrder(offered) /\ \A w \in Watchers : InOrder(live[w])

\* A JobKill that comes before RunWithEnv has returned is never reported as
\* success: the switch in Execute looks at jobCtx before the exit code.
KilledIsNotDone ==
    [](cancelled /\ jpc \in {"parse", "run"} => [](finish.state # "done"))

\* Once RunWithEnv has returned the job is finished and its done channel
\* closed, whatever its watchers do: publishLine never waits for a slow or a
\* vanished client.
JobEnds == (jpc = "flushOut") ~> done

\* The clients keep reading: WatchJob's sends do return.
ClientsRead == \A w \in Watchers : WF_vars(Send(w))

Over(w) == wpc[w] \in {"done", "left"}

InTime(w) ==
    \/ jpc = "finishSubs" /\ wpc[w] # "idle"
    \/ done /\ wpc[w] \in {"subErr", "subEnd"}

\* A watcher that had begun to subscribe when the job reached finishSubs, and
\* one that is still subscribing when the job is done, gets its Done event
\* unless its client leaves (Subscribe looks at done last, under subMu).
EarlyOrLateWatchEnds ==
    ClientsRead => \A w \in Watchers : InTime(w) ~> Over(w)

\* What WatchJob's comment says, "terminal Done event always sent last": a
\* watch of a job that has ended comes to an end.
WatchEnds ==
    ClientsRead => \A w \in Watchers : (done /\ wpc[w] # "idle") ~> Over(w)
=============================================================================
