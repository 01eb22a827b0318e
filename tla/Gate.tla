-------------------------------- MODULE Gate --------------------------------
(***************************************************************************)
(* The enrollment gate of the worker (internal/auth), the state file that  *)
(* carries it across restarts, and the controllers that claim and release  *)
(* the worker over a network that may lose a request or a reply.           *)
(*                                                                         *)
(* Codes and tokens are numbers minted in order, so that a new one is new; *)
(* 0 is the empty string.  The clock counts units of which Lockout make    *)
(* one failureLockout.                                                     *)
(***************************************************************************)
EXTENDS Integers, Sequences, FiniteSets

CONSTANTS
    Clients,      \* controllers
    Modes,        \* ways the worker is configured
    Disks,        \* where and how well its state file is kept
    MaxFailures,  \* Gate.maxFailures
    Lockout,      \* Gate.failureLockout
    MaxMinted,    \* bound: codes and tokens minted
    MaxTime       \* bound: the clock

ASSUME GateAssumption ==
    /\ Modes \subseteq {"disabled", "preauth", "enroll"}
    /\ Disks \subseteq {"good", "faulty", "off"}
    /\ MaxFailures \in Nat \ {0}
    /\ Lockout \in Nat
    /\ MaxMinted \in Nat \ {0}
    /\ MaxTime \in Nat

VARIABLES
    mode,      \* Options of this worker
    disk,      \* its state file
    up,        \* the worker runs
    token,     \* Gate.token
    code,      \* Gate.code
    claimed,   \* Gate.claimed
    failures,  \* Gate.failures
    window,    \* Gate.failureWindow
    file,      \* contents of the state file
    now,       \* the clock
    minted,    \* codes and tokens minted so far
    known,     \* codes an operator or a controller has been given
    call,      \* each controller's call of WorkerEnroll
    held,      \* the token each controller has stored
    issued,    \* observation: successful claims, by code and token
    revoked,   \* observation: tokens released
    bad        \* observation: times of the failed claims, of this process and
               \* since the last release

conf       == <<mode, disk>>
gateVars   == <<token, code, claimed, failures, window>>
clientVars == <<call, held>>
vars == <<conf, up, gateVars, file, now, minted, known, clientVars,
          issued, revoked, bad>>

EmptyFile == [token |-> 0, code |-> 0]
Idle == [st |-> "idle", op |-> "none", arg |-> 0, val |-> 0]
CanMint == minted < MaxMinted
Fresh == minted + 1

-----------------------------------------------------------------------------
(* FileStore                                                               *)

\* WORKER_STATE_FILE is not "off"; its reads and writes may fail.
Persist == disk # "off"
DiskFaults == disk = "faulty"

\* write: temporary file and rename, so that the old contents stay on error,
\* which is only logged.
write(st) ==
    \/ Persist /\ file' = st
    \/ (~Persist \/ DiskFaults) /\ UNCHANGED file

\* Mutants of SaveToken and SaveCode: nothing is written.
TokenNotSaved(tok) == UNCHANGED file
CodeNotSaved(c) == UNCHANGED file

SaveToken(tok) == write([token |-> tok, code |-> 0])
SaveCode(c) == write([token |-> 0, code |-> c])

\* Mutant of Reads: the state file is not used.
ReadsNothing == {EmptyFile}

\* read: an unreadable or corrupt file reads as empty.
Reads == IF DiskFaults THEN {file, EmptyFile} ELSE {file}

-----------------------------------------------------------------------------
(* New, and the end of the process                                         *)

NewGate(tok, cd, cl) ==
    /\ token' = tok
    /\ code' = cd
    /\ claimed' = cl
    /\ failures' = 0
    /\ window' = 0

\* The precedence of New: pre-authorized, resumed token, persisted code, and
\* only then a new code.
New ==
    /\ ~up
    /\ up' = TRUE
    /\ \E forToken, forCode \in Reads :
        \/ /\ mode = "disabled"
           /\ NewGate(0, 0, FALSE)
           /\ UNCHANGED <<file, minted>>
        \/ /\ mode = "preauth"
           /\ NewGate(1, 0, TRUE)
           /\ UNCHANGED <<file, minted>>
        \/ /\ mode = "enroll"
           /\ forToken.token # 0
           /\ NewGate(forToken.token, 0, TRUE)
           /\ UNCHANGED <<file, minted>>
        \/ /\ mode = "enroll"
           /\ forToken.token = 0
           /\ forCode.code # 0
           /\ NewGate(0, forCode.code, FALSE)
           /\ UNCHANGED <<file, minted>>
        \/ /\ mode = "enroll"
           /\ forToken.token = 0
           /\ forCode.code = 0
           /\ CanMint
           /\ NewGate(0, Fresh, FALSE)
           /\ minted' = Fresh
           /\ SaveCode(Fresh)
    /\ known' = known \cup {code'}    \* main prints the code, if any
    /\ bad' = <<>>
    /\ UNCHANGED <<conf, now, clientVars, issued, revoked>>

\* The worker dies; what is left is the file.
Crash ==
    /\ up
    /\ up' = FALSE
    /\ UNCHANGED <<conf, gateVars, file, now, minted, known, clientVars>>
    /\ UNCHANGED <<issued, revoked, bad>>

Init ==
    /\ mode \in Modes
    /\ disk \in Disks
    /\ up = FALSE
    /\ token = 0
    /\ code = 0
    /\ claimed = FALSE
    /\ failures = 0
    /\ window = 0
    /\ file = EmptyFile
    /\ now = 0
    /\ minted = IF mode = "preauth" THEN 1 ELSE 0
    /\ known = {0}
    /\ call = [c \in Clients |-> Idle]
    /\ held = [c \in Clients |-> 0]
    /\ issued = {}
    /\ revoked = {}
    /\ bad = <<>>

-----------------------------------------------------------------------------
(* Gate.Claim                                                              *)

\* allowAttemptLocked: the failures after the reset, and whether to go on.
failed == failures >= MaxFailures
\* Mutant of FailuresNow: the count starts again too early.
FailuresForgotten == IF now - window >= Lockout THEN 0 ELSE failures

FailuresNow == IF failed /\ now - window > Lockout THEN 0 ELSE failures
WindowNow == IF FailuresNow = 0 THEN now ELSE window
\* Mutant of Allowed: one attempt too many.
AllowedOffByOne == FailuresNow <= MaxFailures

Allowed == FailuresNow < MaxFailures

Reply(c, val) == call' = [call EXCEPT ![c].st = "replied", ![c].val = val]

Pending(c, op) == up /\ call[c].st = "sent" /\ call[c].op = op

ClaimRefused(c) ==
    /\ Pending(c, "claim")
    /\ mode = "disabled" \/ claimed
    /\ Reply(c, 0)
    /\ UNCHANGED <<conf, up, gateVars, file, now, minted, known, held>>
    /\ UNCHANGED <<issued, revoked, bad>>

Claimable(c) == Pending(c, "claim") /\ mode # "disabled" /\ ~claimed

ClaimRateLimited(c) ==
    /\ Claimable(c)
    /\ ~Allowed
    /\ Reply(c, 0)
    /\ UNCHANGED <<conf, up, gateVars, file, now, minted, known, held>>
    /\ UNCHANGED <<issued, revoked, bad>>

ClaimBadCode(c) ==
    /\ Claimable(c)
    /\ Allowed
    /\ call[c].arg = 0 \/ call[c].arg # code
    /\ failures' = FailuresNow + 1
    /\ window' = WindowNow
    /\ bad' = Append(bad, now)
    /\ Reply(c, 0)
    /\ UNCHANGED <<conf, up, token, code, claimed, file, now, minted, known>>
    /\ UNCHANGED <<held, issued, revoked>>

ClaimWins(c) ==
    /\ Claimable(c)
    /\ Allowed
    /\ call[c].arg # 0
    /\ call[c].arg = code
    /\ CanMint
    /\ minted' = Fresh
    /\ token' = Fresh
    /\ claimed' = TRUE
    /\ code' = 0
    /\ failures' = FailuresNow
    /\ window' = WindowNow
    /\ SaveToken(Fresh)
    /\ issued' = issued \cup {[code |-> code, token |-> Fresh]}
    /\ Reply(c, Fresh)
    /\ UNCHANGED <<conf, up, now, known, held, revoked, bad>>

-----------------------------------------------------------------------------
(* Gate.Release                                                            *)

MayRelease(c) == mode = "enroll" /\ claimed /\ call[c].arg = token

ReleaseForbidden(c) ==
    /\ Pending(c, "release")
    /\ ~MayRelease(c)
    /\ Reply(c, 0)
    /\ UNCHANGED <<conf, up, gateVars, file, now, minted, known, held>>
    /\ UNCHANGED <<issued, revoked, bad>>

Release(c) ==
    /\ Pending(c, "release")
    /\ MayRelease(c)
    /\ CanMint
    /\ minted' = Fresh
    /\ token' = 0
    /\ claimed' = FALSE
    /\ code' = Fresh
    /\ failures' = 0
    /\ SaveCode(Fresh)
    /\ revoked' = revoked \cup {token}
    /\ bad' = <<>>
    /\ Reply(c, Fresh)
    /\ UNCHANGED <<conf, up, window, now, known, held, issued>>

-----------------------------------------------------------------------------
(* The controllers: client.Enroll and client.Release                       *)

Enroll(c) ==
    /\ call[c].st = "idle"
    /\ \E cd \in known :
          call' = [call EXCEPT ![c] = [st |-> "sent", op |-> "claim",
                                       arg |-> cd, val |-> 0]]
    /\ UNCHANGED <<conf, up, gateVars, file, now, minted, known, held>>
    /\ UNCHANGED <<issued, revoked, bad>>

SendRelease(c) ==
    /\ call[c].st = "idle"
    /\ held[c] # 0
    /\ call' = [call EXCEPT ![c] = [st |-> "sent", op |-> "release",
                                    arg |-> held[c], val |-> 0]]
    /\ UNCHANGED <<conf, up, gateVars, file, now, minted, known, held>>
    /\ UNCHANGED <<issued, revoked, bad>>

\* The reply arrives: a token is stored, a code is passed on.
Receive(c) ==
    /\ call[c].st = "replied"
    /\ call' = [call EXCEPT ![c] = Idle]
    /\ held' = IF call[c].op = "claim" /\ call[c].val # 0
               THEN [held EXCEPT ![c] = call[c].val]
               ELSE held
    /\ known' = IF call[c].op = "release"
                THEN known \cup {call[c].val}
                ELSE known
    /\ UNCHANGED <<conf, up, gateVars, file, now, minted>>
    /\ UNCHANGED <<issued, revoked, bad>>

\* The request or the reply is lost, and the call fails.
Lose(c) ==
    /\ call[c].st # "idle"
    /\ call' = [call EXCEPT ![c] = Idle]
    /\ UNCHANGED <<conf, up, gateVars, file, now, minted, known, held>>
    /\ UNCHANGED <<issued, revoked, bad>>

Tick ==
    /\ now < MaxTime
    /\ now' = now + 1
    /\ UNCHANGED <<conf, up, gateVars, file, minted, known, clientVars>>
    /\ UNCHANGED <<issued, revoked, bad>>

-----------------------------------------------------------------------------
Claim(c) ==
    ClaimRefused(c) \/ ClaimRateLimited(c) \/ ClaimBadCode(c) \/ ClaimWins(c)

Next ==
    \/ New
    \/ Crash
    \/ \E c \in Clients :
          \/ Claim(c) \/ ReleaseForbidden(c) \/ Release(c)
          \/ Enroll(c) \/ SendRelease(c) \/ Receive(c) \/ Lose(c)
    \/ Tick

Spec == Init /\ [][Next]_vars

-----------------------------------------------------------------------------
Secret == 0 .. MaxMinted
Calls == [st : {"idle", "sent", "replied"}, op : {"none", "claim", "release"},
          arg : Secret, val : Secret]

TypeOK ==
    /\ mode \in Modes
    /\ disk \in Disks
    /\ up \in BOOLEAN
    /\ token \in Secret
    /\ code \in Secret
    /\ claimed \in BOOLEAN
    /\ failures \in 0 .. MaxFailures
    /\ window \in 0 .. MaxTime
    /\ file \in [token : Secret, code : Secret]
    /\ now \in 0 .. MaxTime
    /\ minted \in Secret
    /\ known \in SUBSET Secret
    /\ call \in [Clients -> Calls]
    /\ held \in [Clients -> Secret]
    /\ issued \in SUBSET [code : Secret, token : Secret]
    /\ revoked \in SUBSET Secret
    /\ bad \in Seq(0 .. MaxTime)

\* Mutant of Authorized: an empty token is compared like any other.
AuthorizedWhenEmpty(bearer) == mode = "disabled" \/ bearer = token

\* Authorized(bearer), once the gate is up.
Authorized(bearer) == mode = "disabled" \/ (token # 0 /\ bearer = token)

-----------------------------------------------------------------------------
(* What the gate promises                                                  *)

\* The state file follows the gate: without disk faults what New would read
\* is what the gate holds (SaveToken in Claim, SaveCode in Release and New).
FileFollows ==
    up /\ mode = "enroll" /\ Persist /\ ~DiskFaults =>
        /\ file = [token |-> token, code |-> code]
        /\ claimed <=> token # 0
        /\ claimed <=> code = 0

\* An already claimed worker resumes with the same token (New): a controller
\* that stored a token it has not released is authorized whenever the worker
\* is up, through any number of restarts.
OwnerStaysAuthorized ==
    up /\ mode = "enroll" /\ Persist /\ ~DiskFaults =>
        \A c \in Clients :
            held[c] # 0 /\ held[c] \notin revoked => Authorized(held[c])

\* A token that was released is never accepted again, after a restart either.
RevokedStaysRevoked ==
    up /\ mode = "enroll" /\ ~DiskFaults =>
        \A tok \in revoked : ~Authorized(tok)

\* A code wins at most once: the claim destroys it in memory and in the file.
OneWinnerPerCode ==
    ~DiskFaults =>
        \A i, k \in issued : i.code = k.code => i = k

\* The claim limiter (allowAttemptLocked): however the attempts are spaced,
\* fewer than twice maxFailures bad codes are looked at in any period of one
\* lockout, in one run of the worker and since the last release, both of which
\* make the counter start again from zero.
RateLimit ==
    \A t \in 0 .. MaxTime :
        Cardinality({i \in 1 .. Len(bad) : bad[i] \in t .. t + Lockout})
            < 2 * MaxFailures

\* Gate as Ownership sees it: the requests on their way to the worker, and the
\* secrets that are used up.
Kept == mode = "enroll" /\ Persist /\ ~DiskFaults
Asked == {<<call[c].op, call[c].arg>> : c \in {d \in Clients : call[d].st = "sent"}}
Spent == revoked \cup {i.code : i \in issued}

O == INSTANCE Ownership
         WITH Secrets <- Secret, kept <- Kept, owner <- token, asked <- Asked,
              spent <- Spent

\* The worker changes hands only by a claim with the open code and a release
\* with the owner's token, each of which is used up by it (Claim, Release); no
\* crash, restart, refusal or lost reply shows, as long as the state file works
\* (SaveToken and SaveCode before the answer, New).
ImplementsOwnership == O!Spec
=============================================================================
