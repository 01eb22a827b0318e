---------------------------- MODULE AccessProofs ----------------------------
(***************************************************************************)
(* Proofs about Access: what the interceptor lets through, and whom it     *)
(* turns away, while the gate is claimed, released and restarted between   *)
(* the sending of a call and its check.  The gate's own invariant is Inv   *)
(* of GateProofs.                                                          *)
(***************************************************************************)
EXTENDS Access, GateProofs

Rpcs == [st : {"idle", "sent", "running", "refused", "answered"},
         proc : Procedures \cup {"Status", "none"}, tok : Secret, header : Secret,
         valid : BOOLEAN, needsCode : BOOLEAN]

\* A pre-authorized worker never changes its token.
PreauthInv == up /\ mode = "preauth" => token = 1

\* A call carries a token that a claim won, WORKER_TOKEN or nothing, and its
\* header reached the worker as it was dialled.
Carried ==
    /\ rpc \in Rpcs
    /\ rpc.tok # 0 => rpc.tok \in Tokens \/ (mode = "preauth" /\ rpc.tok = 1)
    /\ rpc.proc \in Procedures => rpc.header = rpc.tok
    /\ rpc.st \in {"idle", "sent"} => ~rpc.needsCode
    /\ rpc.st = "sent" => rpc.proc # "none"

AccessInv ==
    /\ Inv
    /\ PreauthInv
    /\ Carried
    /\ OwnerIsServed
    /\ FailClosed

-----------------------------------------------------------------------------
(* What a step of the gate may do to the books                             *)

\* The books only grow, the configuration stays, and a pre-authorized worker
\* keeps WORKER_TOKEN: it refuses claims and releases.
LEMMA GateGrows ==
    ASSUME Inv, PreauthInv, [Next]_vars
    PROVE  /\ mode' = mode /\ disk' = disk
           /\ issued \subseteq issued' /\ revoked \subseteq revoked'
           /\ PreauthInv'
<1>1. CASE New
  <2>1. mode = "preauth" => token' = 1
    BY <1>1 DEF New, NewGate
  <2>2. UNCHANGED <<mode, disk, issued, revoked>>
    BY <1>1 DEF New, conf
  <2> QED BY <2>1, <2>2 DEF PreauthInv
<1>2. CASE \E c \in Clients : ClaimWins(c)
  <2>1. mode # "preauth"
    BY <1>2 DEF ClaimWins, Claimable, Pending, Inv, FileInv
  <2> QED BY <1>2, <2>1 DEF ClaimWins, conf, PreauthInv
<1>3. CASE \E c \in Clients : Release(c)
  <2>1. mode # "preauth"
    BY <1>3 DEF Release, MayRelease
  <2> QED BY <1>3, <2>1 DEF Release, conf, PreauthInv
<1>4. CASE \/ \E c \in Clients :
                 \/ ClaimRefused(c) \/ ClaimRateLimited(c) \/ ClaimBadCode(c)
                 \/ ReleaseForbidden(c) \/ Enroll(c) \/ SendRelease(c)
                 \/ Receive(c) \/ Lose(c)
           \/ Crash \/ Tick \/ UNCHANGED vars
  <2>1. /\ UNCHANGED <<mode, disk, token, issued, revoked>>
        /\ up' = up \/ ~up'
    BY <1>4 DEF ClaimRefused, ClaimRateLimited, ClaimBadCode, ReleaseForbidden, Enroll,
       SendRelease, Receive, Lose, Crash, Tick, vars, conf, gateVars, clientVars
  <2> QED BY <2>1 DEF PreauthInv
<1> QED BY <1>1, <1>2, <1>3, <1>4 DEF Next, Claim

\* A token that is not released is the gate's own, where the state file works.
LEMMA OwnersToken ==
    ASSUME Inv, up, mode = "enroll", Persist, ~DiskFaults,
           NEW tok \in Tokens, tok \notin revoked
    PROVE  claimed /\ token # 0 /\ tok = token
<1>1. PICK i \in issued : tok = i.token
  BY DEF Tokens
<1>2. i.token = file.token /\ i.token # 0
  BY <1>1 DEF Inv, Ledger
<1>3. file.token = token /\ (claimed <=> token # 0)
  BY DEF Inv, FileInv
<1> QED BY <1>1, <1>2, <1>3

-----------------------------------------------------------------------------
(* AccessInv is inductive                                                  *)

\* No call has been made when the worker is first started.
LEMMA AccessInitInv == AccessInit => AccessInv
<1> SUFFICES ASSUME AccessInit PROVE AccessInv
  OBVIOUS
<1>1. Inv /\ PreauthInv
  BY InitInv DEF AccessInit, Init, PreauthInv
<1>2. 0 \in Secret
  BY GateAssumption DEF Secret
<1>3. Carried
  BY <1>2 DEF AccessInit, NoCall, Carried, Rpcs, Procedures
<1>4. OwnerIsServed /\ FailClosed
  BY DEF AccessInit, NoCall, OwnerIsServed, FailClosed
<1> QED BY <1>1, <1>3, <1>4 DEF AccessInv

\* A step of the gate changes no call, except that a crash ends it.
LEMMA GateStepInv ==
    ASSUME AccessInv, [Next]_vars, rpc' = rpc \/ rpc' = NoCall
    PROVE  AccessInv'
<1>1. Inv' /\ PreauthInv'
  BY NextInv, GateGrows DEF AccessInv
<1>2. /\ mode' = mode /\ disk' = disk
      /\ issued \subseteq issued' /\ revoked \subseteq revoked'
      /\ Tokens \subseteq Tokens'
  BY GateGrows DEF AccessInv, Tokens
<1>z. 0 \in Secret
  BY GateAssumption DEF Secret
<1>3. CASE rpc' = NoCall
  <2>1. Carried'
    BY <1>3, <1>z DEF Carried, NoCall, Rpcs, Procedures
  <2>2. OwnerIsServed' /\ FailClosed'
    BY <1>3 DEF NoCall, OwnerIsServed, FailClosed
  <2> QED BY <1>1, <2>1, <2>2 DEF AccessInv
<1>4. CASE rpc' = rpc
  <2>1. Carried'
    BY <1>2, <1>4 DEF AccessInv, Carried, Rpcs, Secret
  <2>2. OwnerIsServed'
    BY <1>2, <1>4 DEF AccessInv, OwnerIsServed, Persist, DiskFaults
  <2>3. FailClosed'
    BY <1>2, <1>4 DEF AccessInv, FailClosed, DiskFaults
  <2> QED BY <1>1, <2>1, <2>2, <2>3 DEF AccessInv
<1> QED BY <1>3, <1>4

\* A controller dials with what it holds.
LEMMA DialInv ==
    ASSUME AccessInv, NEW c \in Clients, Dial(c)
    PROVE  AccessInv'
<1>0. UNCHANGED vars
  BY DEF Dial
<1>1. PICK tok \in Credentials(c), p \in Called :
        rpc' = [NoCall EXCEPT !.st = "sent", !.proc = p, !.tok = tok,
                              !.header = IF p \in EnrollProcedures THEN 0
                                         ELSE Header(CallKind(p), tok)]
  BY DEF Dial
<1>2. /\ tok # 0 => tok \in Tokens \/ (mode = "preauth" /\ tok = 1)
      /\ tok \in Secret
  <2>1. held[c] \in Secret /\ (held[c] # 0 => held[c] \in Tokens)
    BY DEF AccessInv, Inv, TypeOK, HeldInv
  <2>2. 1 \in Secret
    BY GateAssumption DEF Secret
  <2> QED BY <2>1, <2>2 DEF Credentials
<1>3. p \in Procedures \cup {"Status"}
  BY AccessAssumption
<1>4. Header(CallKind(p), tok) = tok
  BY DEF Header, CallKind
<1>5. /\ rpc'.st = "sent" /\ rpc'.proc = p /\ rpc'.tok = tok
      /\ rpc'.header = IF p \in EnrollProcedures THEN 0 ELSE tok
      /\ ~rpc'.needsCode
  BY <1>1, <1>4 DEF NoCall
<1>6. rpc' \in Rpcs
  <2>1. 0 \in Secret
    BY GateAssumption DEF Secret
  <2> QED BY <1>1, <1>2, <1>3, <1>4, <2>1 DEF NoCall, Rpcs
<1>7. Carried'
  <2>1. p # "none" /\ (p \in Procedures => p \notin EnrollProcedures)
    BY <1>3 DEF Procedures, EnrollProcedures
  <2>2. Tokens' = Tokens /\ mode' = mode
    BY <1>0 DEF vars, conf, Tokens
  <2> QED BY <1>2, <1>5, <1>6, <2>1, <2>2 DEF Carried
<1>8. OwnerIsServed' /\ FailClosed'
  BY <1>5 DEF OwnerIsServed, FailClosed
<1>9. Inv' /\ PreauthInv'
  BY <1>0, NextInv, GateGrows DEF AccessInv
<1> QED BY <1>7, <1>8, <1>9 DEF AccessInv

\* The interceptor looks at the header and at the gate as they are now.
LEMMA CheckInv ==
    ASSUME AccessInv, Check
    PROVE  AccessInv'
<1>0. /\ UNCHANGED vars /\ UNCHANGED <<mode, disk, issued, revoked>>
      /\ Tokens' = Tokens /\ Persist' = Persist /\ DiskFaults' = DiskFaults
  BY DEF Check, vars, conf, Tokens, Persist, DiskFaults
<1>1. /\ up /\ rpc.st = "sent"
      /\ rpc \in Rpcs
      /\ rpc.proc \in Procedures
      /\ Guarded(rpc.proc)
      /\ rpc.header = rpc.tok
      /\ ~rpc.needsCode
  <2>1. up /\ rpc.st = "sent" /\ rpc.proc # "Status"
    BY DEF Check
  <2>2. rpc.proc \in Procedures
    BY <2>1 DEF AccessInv, Carried, Rpcs
  <2>3. Guarded(rpc.proc)
    BY <2>2 DEF Guarded, HandlerKind, Wrapped, Procedures, EnrollProcedures
  <2> QED BY <2>1, <2>2, <2>3 DEF AccessInv, Carried
<1>2. /\ rpc' \in Rpcs
      /\ rpc'.proc = rpc.proc /\ rpc'.tok = rpc.tok /\ rpc'.header = rpc.header
      /\ rpc'.needsCode = rpc.needsCode
      /\ rpc'.st = IF Authorized(rpc.tok) THEN "running" ELSE "refused"
      /\ rpc'.valid = (rpc.tok \notin revoked)
  <2>1. rpc' = [rpc EXCEPT !.st = IF Authorized(rpc.tok) THEN "running" ELSE "refused",
                           !.valid = rpc.tok \notin revoked]
    BY <1>1 DEF Check
  <2>2. (rpc.tok \notin revoked) \in BOOLEAN
    OBVIOUS
  <2> QED BY <1>1, <2>1, <2>2 DEF Rpcs
<1>3. Carried'
  BY <1>0, <1>1, <1>2 DEF AccessInv, Carried
<1>4. OwnerIsServed'
  <2>1. ASSUME mode = "enroll", Persist, ~DiskFaults, rpc.tok # 0, rpc.tok \notin revoked
        PROVE  Authorized(rpc.tok)
    <3>1. rpc.tok \in Tokens
      BY <2>1 DEF AccessInv, Carried
    <3> QED BY <1>1, <2>1, <3>1, OwnersToken DEF AccessInv, Authorized
  <2>2. ASSUME mode = "preauth", rpc.tok # 0
        PROVE  Authorized(rpc.tok)
    <3>1. Tokens = {}
      BY <2>2 DEF AccessInv, Inv, Ledger, Tokens
    <3>2. rpc.tok = 1 /\ token = 1
      BY <1>1, <2>2, <3>1 DEF AccessInv, Carried, PreauthInv
    <3> QED BY <3>2 DEF Authorized
  <2>3. mode = "disabled" => Authorized(rpc.tok)
    BY DEF Authorized
  <2> QED BY <1>0, <1>1, <1>2, <2>1, <2>2, <2>3 DEF OwnerIsServed
<1>5. FailClosed'
  <2>1. ASSUME Authorized(rpc.tok), mode = "enroll"
        PROVE  /\ rpc.tok \in Tokens
               /\ ~DiskFaults => rpc.tok \notin revoked
    <3>1. token # 0 /\ rpc.tok = token
      BY <2>1 DEF Authorized
    <3> QED BY <1>1, <2>1, <3>1 DEF AccessInv, Carried, Inv, Ledger
  <2>2. rpc.tok \in Tokens => \E i \in issued : i.token = rpc.tok
    BY DEF Tokens
  <2> QED BY <1>0, <1>2, <2>1, <2>2 DEF FailClosed
<1>6. Inv' /\ PreauthInv'
  BY <1>0, NextInv, GateGrows DEF AccessInv
<1> QED BY <1>3, <1>4, <1>5, <1>6 DEF AccessInv

\* Status tells an owner that no code is needed.
LEMMA StatusInv ==
    ASSUME AccessInv, Status
    PROVE  AccessInv'
<1>0. /\ UNCHANGED vars /\ UNCHANGED <<mode, disk, issued, revoked>>
      /\ Tokens' = Tokens /\ Persist' = Persist /\ DiskFaults' = DiskFaults
  BY DEF Status, vars, conf, Tokens, Persist, DiskFaults
<1>1. /\ up /\ rpc.st = "sent" /\ rpc.proc = "Status"
      /\ rpc \in Rpcs
  BY DEF Status, AccessInv, Carried
<1>2. /\ rpc' \in Rpcs
      /\ rpc'.proc = rpc.proc /\ rpc'.tok = rpc.tok /\ rpc'.header = rpc.header
      /\ rpc'.st = "answered"
      /\ rpc'.needsCode = (mode # "disabled" /\ ~claimed)
  <2>1. (mode # "disabled" /\ ~claimed) \in BOOLEAN
    OBVIOUS
  <2> QED BY <1>1, <2>1 DEF Status, Rpcs
<1>3. Carried'
  BY <1>0, <1>1, <1>2 DEF AccessInv, Carried
<1>4. OwnerIsServed'
  <2>1. ASSUME mode = "enroll", Persist, ~DiskFaults, rpc.tok # 0, rpc.tok \notin revoked
        PROVE  claimed
    <3>1. rpc.tok \in Tokens
      BY <2>1 DEF AccessInv, Carried
    <3> QED BY <1>1, <2>1, <3>1, OwnersToken DEF AccessInv
  <2> QED BY <1>0, <1>2, <2>1 DEF OwnerIsServed
<1>5. FailClosed'
  BY <1>2 DEF FailClosed
<1>6. Inv' /\ PreauthInv'
  BY <1>0, NextInv, GateGrows DEF AccessInv
<1> QED BY <1>3, <1>4, <1>5, <1>6 DEF AccessInv

\* Every step of a call and of the gate keeps AccessInv.
LEMMA AccessNextInv == AccessInv /\ [AccessNext]_accessVars => AccessInv'
<1> SUFFICES ASSUME AccessInv, [AccessNext]_accessVars PROVE AccessInv'
  OBVIOUS
<1>1. CASE GateStep
  BY <1>1, GateStepInv DEF GateStep
<1>2. CASE \E c \in Clients : Dial(c)
  BY <1>2, DialInv
<1>3. CASE HangUp
  BY <1>3, GateStepInv DEF HangUp
<1>4. CASE Check
  BY <1>4, CheckInv
<1>5. CASE Status
  BY <1>5, StatusInv
<1>6. CASE UNCHANGED accessVars
  BY <1>6, GateStepInv DEF accessVars
<1> QED BY <1>1, <1>2, <1>3, <1>4, <1>5, <1>6 DEF AccessNext

-----------------------------------------------------------------------------
(* What the gate in front of the service promises                          *)

\* AccessInv is an invariant of the worker and its callers.
THEOREM AccessInvHolds == AccessSpec => []AccessInv
  BY AccessInitInv, AccessNextInv, PTL DEF AccessSpec

\* The owner's calls are served, unary and stream, whatever claims, releases
\* and restarts come between their sending and the interceptor's check.
THEOREM OwnerIsServedHolds == AccessSpec => []OwnerIsServed
<1>1. AccessInv => OwnerIsServed
  BY DEF AccessInv
<1> QED BY <1>1, AccessInvHolds, PTL

\* No handler of an enrolled worker runs for a token that no claim won, or that
\* was released before the call began.
THEOREM FailClosedHolds == AccessSpec => []FailClosed
<1>1. AccessInv => FailClosed
  BY DEF AccessInv
<1> QED BY <1>1, AccessInvHolds, PTL

\* A service call changes nothing of the gate: the gate under the interceptors is
\* the one of Gate, so that what is proved of that one, and Ownership with it,
\* holds while calls are checked.
THEOREM AccessImplementsGate == AccessSpec => Spec /\ ImplementsOwnership
<1>1. AccessInit => Init
  BY DEF AccessInit
<1>2. [AccessNext]_accessVars => [Next]_vars
  <2>1. AccessNext => Next \/ UNCHANGED vars
    BY DEF AccessNext, GateStep, Dial, HangUp, Check, Status
  <2>2. UNCHANGED accessVars => UNCHANGED vars
    BY DEF accessVars
  <2> QED BY <2>1, <2>2
<1>3. AccessSpec => Spec
  BY <1>1, <1>2, PTL DEF AccessSpec, Spec
<1> QED BY <1>3, GateImplementsOwnership, PTL
=============================================================================
