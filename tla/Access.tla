------------------------------- MODULE Access -------------------------------
(***************************************************************************)
(* The gate in front of the service: a WorkerService call, from the client *)
(* that puts its token into the header, through the interceptor, to the    *)
(* handler, and a query of WorkerEnroll.Status, while the gate of module   *)
(* Gate is claimed, released and restarted under them.                     *)
(***************************************************************************)
EXTENDS Gate

CONSTANTS
    Called,      \* procedures that are called
    MaxCallTime  \* bound: calls are made while the clock is at most this

VARIABLE
    rpc          \* one call of the service
accessVars == <<vars, rpc>>

\* The procedures of the two services.
Procedures == {"Info", "Execute", "ListJobs", "WatchJob", "JobOutput", "JobWait",
               "JobStdin", "JobKill", "FileRead", "FileWrite", "FileList",
               "SyncFolder"}
EnrollProcedures == {"Status", "Claim", "Unrelease"}

\* How the generated client calls each, and which handler serves it.
CallKind(p) == IF p = "WatchJob" THEN "stream" ELSE "unary"
HandlerKind(p) == IF p = "WatchJob" THEN "stream" ELSE "unary"

ASSUME AccessAssumption ==
    /\ Called \subseteq Procedures \cup {"Status"}
    /\ MaxCallTime \in Nat

NoCall == [st |-> "idle", proc |-> "none", tok |-> 0, header |-> 0,
           valid |-> FALSE, needsCode |-> FALSE]

-----------------------------------------------------------------------------
(* client.Dial and client.Status                                           *)

\* Mutant of Header: an interceptor for unary calls only.
UnaryHeader(kind, tok) == IF kind = "unary" THEN tok ELSE 0

\* bearerInterceptor: the token is attached to both kinds of call; without one
\* there is no header, which reads as an empty token.
Header(kind, tok) == IF kind \in {"unary", "stream"} THEN tok ELSE 0

\* What a controller can dial with: the token it was issued, or WORKER_TOKEN.
Credentials(c) == {held[c]} \cup (IF mode = "preauth" THEN {1} ELSE {})

Dial(c) ==
    /\ rpc.st = "idle"
    /\ now <= MaxCallTime
    /\ \E tok \in Credentials(c), p \in Called :
          rpc' = [NoCall EXCEPT !.st = "sent", !.proc = p, !.tok = tok,
                                !.header = IF p \in EnrollProcedures THEN 0
                                           ELSE Header(CallKind(p), tok)]
    /\ UNCHANGED vars

\* The call is abandoned by its client, or the connection breaks.
HangUp == rpc.st # "idle" /\ rpc' = NoCall /\ UNCHANGED vars

-----------------------------------------------------------------------------
(* The worker                                                              *)

\* WrapUnary and WrapStreamingHandler of the interceptor, which main puts in
\* front of WorkerService and not of WorkerEnroll.
Wrapped == {"unary", "stream"}
Guarded(p) == p \notin EnrollProcedures /\ HandlerKind(p) \in Wrapped

\* interceptor.check, around unary and streaming handlers alike; it is made
\* once, when the call begins.
Check ==
    /\ up
    /\ rpc.st = "sent"
    /\ rpc.proc # "Status"
    /\ rpc' = [rpc EXCEPT !.st = IF Guarded(rpc.proc) => Authorized(rpc.header)
                                 THEN "running" ELSE "refused",
                          !.valid = rpc.header \notin revoked]
    /\ UNCHANGED vars

\* EnrollService.Status, which no interceptor guards.
Status ==
    /\ up
    /\ rpc.st = "sent"
    /\ rpc.proc = "Status"
    /\ rpc' = [rpc EXCEPT !.st = "answered",
                          !.needsCode = mode # "disabled" /\ ~claimed]
    /\ UNCHANGED vars

\* The gate moves; a process that dies takes its handlers with it.
GateStep ==
    /\ Next
    /\ rpc' = IF up /\ ~up' THEN NoCall ELSE rpc
    /\ rpc.st # "idle" => now' = now

AccessNext == GateStep \/ (\E c \in Clients : Dial(c)) \/ HangUp \/ Check \/ Status

AccessInit == Init /\ rpc = NoCall

AccessSpec == AccessInit /\ [][AccessNext]_accessVars

-----------------------------------------------------------------------------
\* The owner is served: on a worker whose state file works, a call with a token
\* that was issued and has not been released is never refused, unary or stream,
\* and its owner is never told that the worker needs a code, through claims,
\* releases and restarts between the call's sending and its check; and so for a
\* pre-authorized token.
OwnerIsServed ==
    LET owner == rpc.tok # 0 /\ rpc.tok \notin revoked
        kept == mode = "enroll" /\ Persist /\ ~DiskFaults
    IN  /\ (kept \/ mode = "preauth") /\ owner => rpc.st # "refused"
        /\ kept /\ owner => ~rpc.needsCode
        /\ mode = "disabled" => rpc.st # "refused"

\* Fail-closed: a handler runs only for a token that won a claim and was not
\* released when the call began; an unclaimed worker runs none.
FailClosed ==
    rpc.st = "running" /\ mode = "enroll" =>
        /\ \E i \in issued : i.token = rpc.tok
        /\ ~DiskFaults => rpc.valid
=============================================================================
