----------------------------- MODULE GateProofs -----------------------------
(***************************************************************************)
(* Proofs about Gate: ownership and revocation through restarts, for every *)
(* number of controllers, claims and restarts.                             *)
(***************************************************************************)
EXTENDS Gate, FiniteSetTheorems, TLAPS

\* Nothing is in use that has not been minted, so that a fresh code or token
\* differs from all others.
Bounded ==
    /\ token <= minted /\ code <= minted
    /\ file.token <= minted /\ file.code <= minted
    /\ \A i \in issued : i.code <= minted /\ i.token <= minted
    /\ \A tok \in revoked : tok <= minted

\* The state file, and the gate it was written from.
FileInv ==
    /\ file.token # 0 => file.code = 0
    /\ ~Persist => file = EmptyFile
    /\ mode = "preauth" => minted >= 1
    /\ up /\ mode = "preauth" => claimed
    /\ up /\ mode = "enroll" =>
          /\ claimed <=> token # 0
          /\ claimed <=> code = 0
    /\ up /\ mode = "enroll" /\ Persist /\ ~DiskFaults =>
          file = [token |-> token, code |-> code]

\* Codes that have won are neither in the gate nor in the file; released
\* tokens neither; a token that was issued is released or in the file.
Ledger ==
    /\ mode # "enroll" => issued = {} /\ revoked = {}
    /\ 0 \notin revoked
    /\ ~DiskFaults =>
          /\ \A i \in issued : i.code # file.code /\ (up => i.code # code)
          /\ \A i \in issued : i.code # 0 /\ i.token # 0
          /\ OneWinnerPerCode
          /\ file.token \notin revoked
          /\ up => token \notin revoked
          /\ Persist => \A i \in issued :
                           i.token \in revoked \/ i.token = file.token

\* A token that a controller holds or is being sent was issued to it.
Tokens == {i.token : i \in issued}

HeldInv ==
    \A c \in Clients :
        /\ held[c] # 0 => held[c] \in Tokens
        /\ call[c].st = "replied" /\ call[c].op = "claim" /\ call[c].val # 0
              => call[c].val \in Tokens

Inv ==
    /\ TypeOK
    /\ Bounded
    /\ FileInv
    /\ Ledger
    /\ HeldInv

-----------------------------------------------------------------------------
(* Inv is inductive                                                        *)

\* Inv holds when a worker is first started with a new state file.
LEMMA InitInv == Init => Inv
<1> SUFFICES ASSUME Init PROVE Inv
  OBVIOUS
<1>1. TypeOK
  <2>1. 0 \in Secret /\ minted \in Secret
    BY GateAssumption DEF Init, Secret
  <2>2. file \in [token : Secret, code : Secret]
    BY <2>1 DEF Init, EmptyFile
  <2>3. Idle \in Calls
    BY <2>1 DEF Idle, Calls
  <2>4. call \in [Clients -> Calls] /\ held \in [Clients -> Secret]
    BY <2>1, <2>3 DEF Init
  <2>5. failures \in 0 .. MaxFailures /\ window \in 0 .. MaxTime /\ now \in 0 .. MaxTime
    BY GateAssumption DEF Init
  <2>6. bad \in Seq(0 .. MaxTime)
    BY DEF Init
  <2>7. known \in SUBSET Secret /\ issued \in SUBSET [code : Secret, token : Secret]
        /\ revoked \in SUBSET Secret
    BY <2>1 DEF Init
  <2> QED BY <2>1, <2>2, <2>4, <2>5, <2>6, <2>7 DEF Init, TypeOK
<1>2. Bounded /\ FileInv
  BY DEF Init, Bounded, FileInv, EmptyFile
<1>3. Ledger /\ HeldInv
  BY DEF Init, Ledger, HeldInv, OneWinnerPerCode, Idle
<1> QED BY <1>1, <1>2, <1>3 DEF Inv

\* A reply carries a code or token that exists, to the controller that asked.
LEMMA ReplyType ==
    ASSUME TypeOK, NEW c \in Clients, NEW v \in Secret, Reply(c, v)
    PROVE  /\ call' \in [Clients -> Calls]
           /\ call'[c].val = v /\ call'[c].op = call[c].op
           /\ \A d \in Clients : d # c => call'[d] = call[d]
<1>1. call[c] \in Calls
  BY DEF TypeOK
<1>2. [call[c] EXCEPT !.st = "replied", !.val = v] \in Calls
  BY <1>1 DEF Calls
<1>3. call' = [call EXCEPT ![c] = [call[c] EXCEPT !.st = "replied", !.val = v]]
  BY DEF Reply, TypeOK
<1>4. call \in [Clients -> Calls]
  BY DEF TypeOK
<1>5. /\ [call[c] EXCEPT !.st = "replied", !.val = v].val = v
      /\ [call[c] EXCEPT !.st = "replied", !.val = v].op = call[c].op
  BY <1>1 DEF Calls
<1> QED BY <1>2, <1>3, <1>4, <1>5

\* A step that leaves the gate, the file and the books alone, and of the calls
\* only answers one with nothing.
LEMMA QuietStep ==
    ASSUME Inv, TypeOK',
           up' = up \/ ~up',
           UNCHANGED <<mode, disk, token, code, claimed, file, minted, held, issued, revoked>>,
           \A c \in Clients : call'[c] = call[c] \/ call'[c].val = 0 \/ call'[c].st = "sent"
    PROVE  Inv'
<1>1. Bounded' /\ FileInv'
  BY DEF Inv, Bounded, FileInv, Persist, DiskFaults
<1>2. Ledger'
  BY DEF Inv, Ledger, OneWinnerPerCode, Persist, DiskFaults
<1>3. HeldInv'
  BY DEF Inv, HeldInv, Tokens
<1> QED BY <1>1, <1>2, <1>3 DEF Inv

\* Refusals, failed claims, requests, losses, crashes and the clock are such
\* steps.
LEMMA QuietInv ==
    ASSUME Inv,
           \/ \E c \in Clients :
                 \/ ClaimRefused(c) \/ ClaimRateLimited(c) \/ ClaimBadCode(c)
                 \/ ReleaseForbidden(c) \/ Enroll(c) \/ SendRelease(c) \/ Lose(c)
           \/ Crash \/ Tick
    PROVE  Inv'
<1>0. /\ UNCHANGED <<mode, disk, token, code, claimed, file, minted, held, issued, revoked>>
      /\ up' = up \/ ~up'
  BY DEF ClaimRefused, ClaimRateLimited, ClaimBadCode, ReleaseForbidden, Enroll,
     SendRelease, Lose, Crash, Tick, conf, gateVars, clientVars
<1>z. 0 \in Secret
  BY GateAssumption DEF Secret
<1>1. ASSUME NEW c \in Clients, Reply(c, 0)
      PROVE  /\ call' \in [Clients -> Calls]
             /\ \A d \in Clients : call'[d] = call[d] \/ call'[d].val = 0
  BY <1>1, <1>z, ReplyType DEF Inv
<1>2. ASSUME NEW c \in Clients,
             ClaimRefused(c) \/ ClaimRateLimited(c) \/ ReleaseForbidden(c)
      PROVE  Inv'
  <2>1. UNCHANGED <<up, failures, window, now, known, bad>> /\ Reply(c, 0)
    BY <1>2 DEF ClaimRefused, ClaimRateLimited, ReleaseForbidden, gateVars
  <2>2. TypeOK'
    BY <1>0, <1>1, <2>1 DEF Inv, TypeOK
  <2> QED BY <1>0, <1>1, <2>1, <2>2, QuietStep
<1>3. ASSUME NEW c \in Clients, ClaimBadCode(c)
      PROVE  Inv'
  <2>1. /\ UNCHANGED <<up, now, known>> /\ Reply(c, 0)
        /\ failures' \in 0 .. MaxFailures
        /\ window' \in 0 .. MaxTime
        /\ bad' \in Seq(0 .. MaxTime)
    BY <1>3, GateAssumption DEF ClaimBadCode, Allowed, FailuresNow, WindowNow, Inv, TypeOK
  <2>2. TypeOK'
    BY <1>0, <1>1, <2>1 DEF Inv, TypeOK
  <2> QED BY <1>0, <1>1, <2>1, <2>2, QuietStep
<1>4. ASSUME NEW c \in Clients, Enroll(c) \/ SendRelease(c) \/ Lose(c)
      PROVE  Inv'
  <2>1. UNCHANGED <<up, failures, window, now, known, bad>>
    BY <1>4 DEF Enroll, SendRelease, Lose, gateVars
  <2>2. \E cl \in Calls : cl.val = 0 /\ call' = [call EXCEPT ![c] = cl]
    <3>1. CASE Enroll(c)
      <4>1. PICK cd \in known :
              call' = [call EXCEPT ![c] = [st |-> "sent", op |-> "claim",
                                           arg |-> cd, val |-> 0]]
        BY <3>1 DEF Enroll
      <4>2. cd \in Secret
        BY DEF Inv, TypeOK
      <4>3. [st |-> "sent", op |-> "claim", arg |-> cd, val |-> 0] \in Calls
        BY <4>2, <1>z DEF Calls
      <4> QED BY <4>1, <4>3
    <3>2. CASE SendRelease(c)
      <4>1. held[c] \in Secret
        BY DEF Inv, TypeOK
      <4>2. [st |-> "sent", op |-> "release", arg |-> held[c], val |-> 0] \in Calls
        BY <4>1, <1>z DEF Calls
      <4> QED BY <3>2, <4>2 DEF SendRelease
    <3>3. CASE Lose(c)
      <4>1. Idle \in Calls /\ Idle.val = 0
        BY <1>z DEF Calls, Idle
      <4> QED BY <3>3, <4>1 DEF Lose
    <3> QED BY <1>4, <3>1, <3>2, <3>3
  <2>3. /\ call' \in [Clients -> Calls]
        /\ \A d \in Clients : call'[d] = call[d] \/ call'[d].val = 0
    <3>1. PICK cl \in Calls : cl.val = 0 /\ call' = [call EXCEPT ![c] = cl]
      BY <2>2
    <3>2. call \in [Clients -> Calls]
      BY DEF Inv, TypeOK
    <3> QED BY <3>1, <3>2
  <2>4. TypeOK'
    BY <1>0, <2>1, <2>3 DEF Inv, TypeOK
  <2> QED BY <1>0, <2>1, <2>3, <2>4, QuietStep
<1>5. CASE Crash \/ Tick
  <2>1. UNCHANGED <<failures, window, known, bad, call>>
    BY <1>5 DEF Crash, Tick, gateVars, clientVars
  <2>2. up' \in BOOLEAN
    BY <1>5 DEF Crash, Tick, Inv, TypeOK
  <2>3. now' \in 0 .. MaxTime
    <3>1. now' = now \/ (now < MaxTime /\ now' = now + 1)
      BY <1>5 DEF Crash, Tick
    <3> QED BY <3>1, GateAssumption DEF Inv, TypeOK
  <2>4. TypeOK'
    BY <1>0, <2>1, <2>2, <2>3 DEF Inv, TypeOK
  <2> QED BY <1>0, <2>1, <2>4, QuietStep
<1> QED BY <1>2, <1>3, <1>4, <1>5

\* What a fresh code or token is: minted by this step and not in use before.
LEMMA FreshIsNew ==
    ASSUME TypeOK, CanMint
    PROVE  /\ Fresh \in Secret
           /\ Fresh # 0
           /\ minted \in Nat /\ minted < Fresh
  BY GateAssumption DEF TypeOK, CanMint, Fresh, Secret

\* The start of a worker, whichever of the four ways New takes.
LEMMA NewInv ==
    ASSUME Inv, New
    PROVE  Inv'
<1> USE GateAssumption
<1>1. PICK ft \in Reads, fc \in Reads :
        \/ /\ mode = "disabled"
           /\ NewGate(0, 0, FALSE)
           /\ UNCHANGED <<file, minted>>
        \/ /\ mode = "preauth"
           /\ NewGate(1, 0, TRUE)
           /\ UNCHANGED <<file, minted>>
        \/ /\ mode = "enroll"
           /\ ft.token # 0
           /\ NewGate(ft.token, 0, TRUE)
           /\ UNCHANGED <<file, minted>>
        \/ /\ mode = "enroll"
           /\ ft.token = 0
           /\ fc.code # 0
           /\ NewGate(0, fc.code, FALSE)
           /\ UNCHANGED <<file, minted>>
        \/ /\ mode = "enroll"
           /\ ft.token = 0
           /\ fc.code = 0
           /\ CanMint
           /\ NewGate(0, Fresh, FALSE)
           /\ minted' = Fresh
           /\ SaveCode(Fresh)
  BY DEF New
<1>2. /\ ~up /\ up' = TRUE
      /\ known' = known \cup {code'}
      /\ bad' = <<>>
      /\ UNCHANGED <<mode, disk, now, call, held, issued, revoked>>
      /\ Persist' = Persist /\ DiskFaults' = DiskFaults
  BY DEF New, clientVars, conf, Persist, DiskFaults
<1>3. 0 \in Secret /\ minted \in Nat
  BY DEF Inv, TypeOK, Secret
<1>4. /\ ft \in [token : Secret, code : Secret] /\ fc \in [token : Secret, code : Secret]
      /\ ft.token <= minted /\ fc.code <= minted
      /\ ~DiskFaults => ft = file /\ fc = file
      /\ ft.token # 0 => ft = file
      /\ fc.code # 0 => fc = file
  BY <1>3 DEF Reads, EmptyFile, Inv, TypeOK, Bounded
<1>5. /\ token' \in Secret /\ code' \in Secret
      /\ minted' \in Secret /\ minted <= minted'
      /\ token' <= minted' /\ code' <= minted'
      /\ file' \in [token : Secret, code : Secret]
      /\ file'.token <= minted' /\ file'.code <= minted'
  <2>0. /\ minted \in Secret
        /\ file \in [token : Secret, code : Secret]
        /\ file.token <= minted /\ file.code <= minted
        /\ mode = "preauth" => minted >= 1
    BY DEF Inv, TypeOK, Bounded, FileInv
  <2>1. CASE mode = "disabled"
    <3>1. token' = 0 /\ code' = 0 /\ file' = file /\ minted' = minted
      BY <1>1, <2>1 DEF NewGate
    <3> QED BY <1>3, <2>0, <3>1
  <2>2. CASE mode = "preauth"
    <3>1. token' = 1 /\ code' = 0 /\ file' = file /\ minted' = minted
      BY <1>1, <2>2 DEF NewGate
    <3> QED BY <1>3, <2>0, <2>2, <3>1 DEF Secret
  <2>3. CASE mode = "enroll" /\ ft.token # 0
    <3>1. token' = ft.token /\ code' = 0 /\ file' = file /\ minted' = minted
      BY <1>1, <2>3 DEF NewGate
    <3> QED BY <1>3, <1>4, <2>0, <3>1
  <2>4. CASE mode = "enroll" /\ ft.token = 0 /\ fc.code # 0
    <3>1. token' = 0 /\ code' = fc.code /\ file' = file /\ minted' = minted
      BY <1>1, <2>4 DEF NewGate
    <3> QED BY <1>3, <1>4, <2>0, <3>1
  <2>5. CASE mode = "enroll" /\ ft.token = 0 /\ fc.code = 0
    <3>1. /\ CanMint /\ minted' = Fresh /\ SaveCode(Fresh)
          /\ token' = 0 /\ code' = Fresh
      BY <1>1, <2>5 DEF NewGate
    <3>2. Fresh \in Secret /\ minted < Fresh
      BY <3>1, FreshIsNew DEF Inv
    <3>3. file' = file \/ file' = [token |-> 0, code |-> Fresh]
      BY <3>1 DEF SaveCode, write
    <3>4. /\ file' \in [token : Secret, code : Secret]
          /\ file'.token <= Fresh /\ file'.code <= Fresh
      BY <1>3, <2>0, <3>2, <3>3 DEF Secret
    <3> QED BY <1>3, <3>1, <3>2, <3>4 DEF Secret
  <2> QED BY <1>1, <2>1, <2>2, <2>3, <2>4, <2>5
<1>a. /\ claimed' \in BOOLEAN
      /\ failures' \in 0 .. MaxFailures /\ window' \in 0 .. MaxTime
  <2>1. claimed' \in BOOLEAN
    BY <1>1 DEF NewGate
  <2>2. failures' = 0 /\ window' = 0
    BY <1>1 DEF NewGate
  <2> QED BY <2>1, <2>2
<1>6. TypeOK'
  <2>1. bad' \in Seq(0 .. MaxTime)
    BY <1>2
  <2> QED BY <1>2, <1>5, <1>a, <2>1 DEF Inv, TypeOK
<1>7. Bounded'
  BY <1>2, <1>5 DEF Inv, TypeOK, Bounded, Secret
<1>8. FileInv'
  <2>1. CASE mode # "enroll"
    BY <1>1, <1>2, <1>5, <2>1 DEF NewGate, Inv, FileInv
  <2>2. CASE mode = "enroll" /\ ft.token # 0
    BY <1>1, <1>2, <1>4, <2>2 DEF NewGate, Inv, FileInv, TypeOK
  <2>3. CASE mode = "enroll" /\ ft.token = 0 /\ fc.code # 0
    BY <1>1, <1>2, <1>4, <2>3 DEF NewGate, Inv, FileInv, TypeOK
  <2>4. CASE mode = "enroll" /\ ft.token = 0 /\ fc.code = 0
    <3>1. /\ CanMint /\ NewGate(0, Fresh, FALSE) /\ SaveCode(Fresh)
      BY <1>1, <2>4
    <3>2. Fresh # 0
      BY <3>1, FreshIsNew DEF Inv
    <3> QED BY <1>2, <2>4, <3>1, <3>2 DEF NewGate, SaveCode, write, Inv, FileInv, EmptyFile
  <2> QED BY <2>1, <2>2, <2>3, <2>4
<1>9. Ledger'
  <2>1. CASE mode # "enroll"
    BY <1>2, <2>1 DEF Inv, Ledger, OneWinnerPerCode
  <2>2. CASE mode = "enroll" /\ (ft.token # 0 \/ fc.code # 0)
    BY <1>1, <1>2, <1>4, <2>2 DEF NewGate, Inv, Ledger, OneWinnerPerCode, FileInv
  <2>3. CASE mode = "enroll" /\ ft.token = 0 /\ fc.code = 0
    <3>1. /\ CanMint /\ NewGate(0, Fresh, FALSE) /\ SaveCode(Fresh)
      BY <1>1, <2>3
    <3>2. Fresh # 0 /\ minted < Fresh /\ minted \in Nat
      BY <3>1, FreshIsNew DEF Inv
    <3>3. file' = file \/ file' = [token |-> 0, code |-> Fresh]
      BY <3>1 DEF SaveCode, write
    <3>4. \A i \in issued : i.code # Fresh
      BY <3>2 DEF Inv, Bounded, TypeOK, Secret
    <3>5. token' = 0 /\ code' = Fresh
      BY <3>1 DEF NewGate
    <3>6. ~DiskFaults => file.token = 0
      BY <1>4, <2>3
    <3> QED BY <1>2, <3>3, <3>4, <3>5, <3>6 DEF Inv, Ledger, OneWinnerPerCode
  <2> QED BY <2>1, <2>2, <2>3, <1>1
<1>10. HeldInv'
  BY <1>2 DEF Inv, HeldInv, Tokens
<1> QED BY <1>6, <1>7, <1>8, <1>9, <1>10 DEF Inv

\* A claim wins: the code leaves the gate and the file, the token enters both.
LEMMA ClaimWinsInv ==
    ASSUME Inv, NEW c \in Clients, ClaimWins(c)
    PROVE  Inv'
<1> USE GateAssumption
<1>0. /\ up /\ mode = "enroll" /\ code # 0 /\ call[c].op = "claim"
      /\ CanMint /\ minted' = Fresh
      /\ token' = Fresh /\ claimed' = TRUE /\ code' = 0
      /\ SaveToken(Fresh) /\ Reply(c, Fresh)
      /\ issued' = issued \cup {[code |-> code, token |-> Fresh]}
      /\ UNCHANGED <<mode, disk, up, now, known, held, revoked, bad>>
      /\ Persist' = Persist /\ DiskFaults' = DiskFaults
  BY DEF ClaimWins, Claimable, Pending, Inv, TypeOK, FileInv, conf, Persist, DiskFaults
<1>1. Fresh \in Secret /\ Fresh # 0 /\ minted \in Nat /\ minted < Fresh
  BY <1>0, FreshIsNew DEF Inv
<1>2. /\ call' \in [Clients -> Calls]
      /\ call'[c].val = Fresh
      /\ \A d \in Clients : d # c => call'[d] = call[d]
  BY <1>0, <1>1, ReplyType DEF Inv
<1>3. /\ file' = file \/ file' = [token |-> Fresh, code |-> 0]
      /\ Persist /\ ~DiskFaults => file' = [token |-> Fresh, code |-> 0]
      /\ ~Persist => file' = file
  BY <1>0 DEF SaveToken, write
<1>4. 0 \in Secret /\ code \in Secret /\ file \in [token : Secret, code : Secret]
  BY DEF Inv, TypeOK, Secret
<1>5. TypeOK'
  <2>1. failures' \in 0 .. MaxFailures /\ window' \in 0 .. MaxTime
    BY DEF ClaimWins, FailuresNow, WindowNow, Inv, TypeOK
  <2>2. file' \in [token : Secret, code : Secret]
    BY <1>1, <1>3, <1>4
  <2>3. issued' \in SUBSET [code : Secret, token : Secret]
    BY <1>0, <1>1, <1>4 DEF Inv, TypeOK
  <2>4. claimed' \in BOOLEAN
    BY <1>0
  <2> QED BY <1>0, <1>1, <1>2, <1>4, <2>1, <2>2, <2>3, <2>4 DEF Inv, TypeOK
<1>6. Bounded'
  <2>1. file'.token <= Fresh /\ file'.code <= Fresh
    BY <1>1, <1>3, <1>4 DEF Inv, Bounded, Secret
  <2>2. \A i \in issued' : i.code <= Fresh /\ i.token <= Fresh
    BY <1>0, <1>1 DEF Inv, Bounded, TypeOK, Secret
  <2>3. \A tok \in revoked : tok <= Fresh
    BY <1>1 DEF Inv, Bounded, TypeOK, Secret
  <2> QED BY <1>0, <1>1, <2>1, <2>2, <2>3 DEF Bounded, Secret
<1>7. FileInv'
  BY <1>0, <1>1, <1>3 DEF Inv, FileInv
<1>8. Ledger'
  <2>1. mode' = "enroll" /\ 0 \notin revoked'
    BY <1>0 DEF Inv, Ledger
  <2>2. ASSUME ~DiskFaults
        PROVE  /\ \A i \in issued' : i.code # file'.code /\ (up' => i.code # code')
               /\ \A i \in issued' : i.code # 0 /\ i.token # 0
    <3>1. \A i \in issued' : i.code # 0 /\ i.token # 0
      BY <1>0, <1>1, <2>2 DEF Inv, Ledger
    <3>2. file'.code = 0
      BY <1>3, <2>2 DEF Inv, FileInv, EmptyFile
    <3> QED BY <1>0, <3>1, <3>2
  <2>3. ASSUME ~DiskFaults PROVE OneWinnerPerCode'
    BY <1>0, <2>3 DEF Inv, Ledger, OneWinnerPerCode
  <2>4. Fresh \notin revoked
    BY <1>1 DEF Inv, Bounded, TypeOK, Secret
  <2>5. ASSUME ~DiskFaults
        PROVE  file'.token \notin revoked' /\ token' \notin revoked'
    BY <1>0, <1>3, <2>4, <2>5 DEF Inv, Ledger
  <2>6. ASSUME ~DiskFaults, Persist
        PROVE  \A i \in issued' : i.token \in revoked' \/ i.token = file'.token
    <3>1. file' = [token |-> Fresh, code |-> 0]
      BY <1>3, <2>6
    <3>2. file.token = 0
      BY <1>0, <2>6 DEF Inv, FileInv
    <3>3. \A i \in issued : i.token \in revoked
      BY <2>6, <3>2 DEF Inv, Ledger
    <3> QED BY <1>0, <3>1, <3>3
  <2> QED BY <1>0, <2>1, <2>2, <2>3, <2>5, <2>6 DEF Ledger
<1>9. HeldInv'
  <2>1. Tokens \subseteq Tokens'
    BY <1>0 DEF Tokens
  <2>2. Fresh \in Tokens'
    <3>1. [code |-> code, token |-> Fresh] \in issued'
      BY <1>0
    <3>2. [code |-> code, token |-> Fresh].token = Fresh
      OBVIOUS
    <3> QED BY <3>1, <3>2 DEF Tokens
  <2> QED BY <1>0, <1>2, <2>1, <2>2 DEF Inv, HeldInv
<1> QED BY <1>5, <1>6, <1>7, <1>8, <1>9 DEF Inv

\* The owner releases the worker: its token is revoked, a fresh code is set.
LEMMA ReleaseInv ==
    ASSUME Inv, NEW c \in Clients, Release(c)
    PROVE  Inv'
<1> USE GateAssumption
<1>0. /\ up /\ mode = "enroll" /\ claimed /\ call[c].op = "release"
      /\ CanMint /\ minted' = Fresh
      /\ token' = 0 /\ claimed' = FALSE /\ code' = Fresh
      /\ SaveCode(Fresh) /\ Reply(c, Fresh)
      /\ revoked' = revoked \cup {token}
      /\ failures' = 0 /\ bad' = <<>>
      /\ UNCHANGED <<mode, disk, up, window, now, known, held, issued>>
      /\ Persist' = Persist /\ DiskFaults' = DiskFaults
  BY DEF Release, Pending, MayRelease, conf, Persist, DiskFaults
<1>1. Fresh \in Secret /\ Fresh # 0 /\ minted \in Nat /\ minted < Fresh
  BY <1>0, FreshIsNew DEF Inv
<1>2. /\ call' \in [Clients -> Calls]
      /\ call'[c].op = "release"
      /\ \A d \in Clients : d # c => call'[d] = call[d]
  BY <1>0, <1>1, ReplyType DEF Inv
<1>3. /\ file' = file \/ file' = [token |-> 0, code |-> Fresh]
      /\ Persist /\ ~DiskFaults => file' = [token |-> 0, code |-> Fresh]
      /\ ~Persist => file' = file
  BY <1>0 DEF SaveCode, write
<1>4. 0 \in Secret /\ token \in Secret /\ file \in [token : Secret, code : Secret]
  BY DEF Inv, TypeOK, Secret
<1>5. TypeOK'
  <2>1. failures' \in 0 .. MaxFailures /\ bad' \in Seq(0 .. MaxTime)
    BY <1>0
  <2>2. file' \in [token : Secret, code : Secret]
    BY <1>1, <1>3, <1>4
  <2>3. revoked' \in SUBSET Secret
    BY <1>0, <1>4 DEF Inv, TypeOK
  <2>4. claimed' \in BOOLEAN
    BY <1>0
  <2> QED BY <1>0, <1>1, <1>2, <1>4, <2>1, <2>2, <2>3, <2>4 DEF Inv, TypeOK
<1>6. Bounded'
  <2>1. file'.token <= Fresh /\ file'.code <= Fresh
    BY <1>1, <1>3, <1>4 DEF Inv, Bounded, Secret
  <2>2. \A i \in issued : i.code <= Fresh /\ i.token <= Fresh
    BY <1>1 DEF Inv, Bounded, TypeOK, Secret
  <2>3. \A tok \in revoked' : tok <= Fresh
    BY <1>0, <1>1, <1>4 DEF Inv, Bounded, TypeOK, Secret
  <2> QED BY <1>0, <1>1, <2>1, <2>2, <2>3 DEF Bounded, Secret
<1>7. FileInv'
  BY <1>0, <1>1, <1>3 DEF Inv, FileInv
<1>8. Ledger'
  <2>1. mode' = "enroll" /\ 0 \notin revoked'
    BY <1>0 DEF Inv, Ledger, FileInv
  <2>2. \A i \in issued : i.code # Fresh
    BY <1>1 DEF Inv, Bounded, TypeOK, Secret
  <2>3. ASSUME ~DiskFaults
        PROVE  /\ \A i \in issued' : i.code # file'.code /\ (up' => i.code # code')
               /\ \A i \in issued' : i.code # 0 /\ i.token # 0
    BY <1>0, <1>3, <2>2, <2>3 DEF Inv, Ledger
  <2>4. ASSUME ~DiskFaults PROVE OneWinnerPerCode'
    BY <1>0, <2>4 DEF Inv, Ledger, OneWinnerPerCode
  <2>5. ASSUME ~DiskFaults
        PROVE  file'.token \notin revoked' /\ token' \notin revoked'
    <3>1. file'.token = 0
      BY <1>3, <2>5 DEF Inv, FileInv, EmptyFile
    <3> QED BY <1>0, <2>1, <3>1
  <2>6. ASSUME ~DiskFaults, Persist
        PROVE  \A i \in issued' : i.token \in revoked' \/ i.token = file'.token
    <3>1. file.token = token
      BY <1>0, <2>6 DEF Inv, FileInv
    <3> QED BY <1>0, <2>6, <3>1 DEF Inv, Ledger
  <2> QED BY <1>0, <2>1, <2>3, <2>4, <2>5, <2>6 DEF Ledger
<1>9. HeldInv'
  BY <1>0, <1>2 DEF Inv, HeldInv, Tokens
<1> QED BY <1>5, <1>6, <1>7, <1>8, <1>9 DEF Inv

\* A controller stores the token, or passes on the code, it has been sent.
LEMMA ReceiveInv ==
    ASSUME Inv, NEW c \in Clients, Receive(c)
    PROVE  Inv'
<1> USE GateAssumption
<1>0. /\ call[c].st = "replied"
      /\ call' = [call EXCEPT ![c] = Idle]
      /\ held' = held \/ (/\ call[c].op = "claim" /\ call[c].val # 0
                          /\ held' = [held EXCEPT ![c] = call[c].val])
      /\ known' = known \/ known' = known \cup {call[c].val}
      /\ UNCHANGED <<mode, disk, up, token, code, claimed, failures, window, file, now, minted>>
      /\ UNCHANGED <<issued, revoked, bad>>
      /\ Persist' = Persist /\ DiskFaults' = DiskFaults
  BY DEF Receive, gateVars, conf, Persist, DiskFaults
<1>1. call \in [Clients -> Calls] /\ held \in [Clients -> Secret] /\ Idle.val = 0
  BY DEF Inv, TypeOK, Idle
<1>2. Idle \in Calls
  BY DEF Idle, Calls, Secret
<1>3. call[c].val \in Secret
  BY <1>1 DEF Calls
<1>4. TypeOK'
  <2>1. call' \in [Clients -> Calls]
    BY <1>0, <1>1, <1>2
  <2>2. held' \in [Clients -> Secret]
    BY <1>0, <1>1, <1>3
  <2>3. known' \in SUBSET Secret
    BY <1>0, <1>3 DEF Inv, TypeOK
  <2> QED BY <1>0, <2>1, <2>2, <2>3 DEF Inv, TypeOK
<1>5. Bounded' /\ FileInv'
  BY <1>0 DEF Inv, Bounded, FileInv
<1>6. Ledger'
  BY <1>0 DEF Inv, Ledger, OneWinnerPerCode
<1>7. HeldInv'
  BY <1>0, <1>1 DEF Inv, HeldInv, Tokens
<1> QED BY <1>4, <1>5, <1>6, <1>7 DEF Inv

\* Every step keeps Inv.
LEMMA NextInv == Inv /\ [Next]_vars => Inv'
<1> SUFFICES ASSUME Inv, [Next]_vars PROVE Inv'
  OBVIOUS
<1>1. CASE New
  BY <1>1, NewInv
<1>2. CASE \E c \in Clients : ClaimWins(c)
  BY <1>2, ClaimWinsInv
<1>3. CASE \E c \in Clients : Release(c)
  BY <1>3, ReleaseInv
<1>4. CASE \E c \in Clients : Receive(c)
  BY <1>4, ReceiveInv
<1>5. CASE \/ \E c \in Clients :
                 \/ ClaimRefused(c) \/ ClaimRateLimited(c) \/ ClaimBadCode(c)
                 \/ ReleaseForbidden(c) \/ Enroll(c) \/ SendRelease(c) \/ Lose(c)
           \/ Crash \/ Tick
  BY <1>5, QuietInv
<1>6. CASE UNCHANGED vars
  <2>1. TypeOK' /\ Bounded' /\ FileInv'
    BY <1>6 DEF vars, conf, gateVars, clientVars, Inv, TypeOK, Bounded, FileInv,
       Persist, DiskFaults
  <2>2. Ledger' /\ HeldInv'
    BY <1>6 DEF vars, conf, gateVars, clientVars, Inv, Ledger, OneWinnerPerCode, HeldInv,
       Tokens, Persist, DiskFaults
  <2> QED BY <2>1, <2>2 DEF Inv
<1> QED BY <1>1, <1>2, <1>3, <1>4, <1>5, <1>6 DEF Next, Claim

-----------------------------------------------------------------------------
(* The claim limiter                                                       *)

\* The failed claims before the ones that the counter counts.
Recent == Len(bad) - failures

\* The failed claims since the last start or release come in groups of
\* MaxFailures, of which the counter counts the last; window is when that one
\* began, more than a lockout after the group before it.  So two failures that
\* are 2 * MaxFailures - 1 apart are more than a lockout apart: a whole group
\* has begun and ended between them.
LimitInv ==
    /\ \A i \in 1 .. Len(bad) : bad[i] <= now
    /\ \A i, k \in 1 .. Len(bad) : i <= k => bad[i] <= bad[k]
    /\ failures <= Len(bad)
    /\ failures = 0 /\ ~claimed => bad = <<>>
    /\ failures > 0 =>
          /\ window = bad[Recent + 1]
          /\ Recent > 0 => /\ Recent >= MaxFailures
                           /\ bad[Recent + 1 - MaxFailures] + Lockout < window
    /\ \A i, k \in 1 .. Len(bad) :
          k - i >= 2 * MaxFailures - 1 => bad[i] + Lockout < bad[k]

\* A set of numbers has a least one: the well-foundedness of <, without the
\* induction rule.
LEMMA LeastNat ==
    ASSUME NEW T, T \subseteq Nat, T # {}
    PROVE  \E x \in T : \A y \in T : x <= y
<1>1. PICK x \in T : \A y \in T : ~(<<y, x>> \in OpToRel(<, Nat))
  BY NatLessThanWellFounded, WFMin
<1>2. ASSUME NEW y \in T PROVE x <= y
  <2>1. ~(<<y, x>> \in OpToRel(<, Nat))
    BY <1>1
  <2>2. <<y, x>> \in Nat \X Nat
    OBVIOUS
  <2>3. ~(y < x)
    BY <2>1, <2>2 DEF OpToRel
  <2> QED BY <2>3
<1> QED BY <1>2

\* A failed claim is counted in its group, or begins one a lockout later.
LEMMA BadCodeLimit ==
    ASSUME TypeOK, LimitInv, NEW c \in Clients, ClaimBadCode(c)
    PROVE  LimitInv'
<1> USE GateAssumption
<1> DEFINE n == Len(bad)
           f == failures
<1>0. /\ Allowed /\ ~claimed /\ claimed' = claimed /\ now' = now
      /\ failures' = FailuresNow + 1 /\ window' = WindowNow
      /\ bad' = Append(bad, now)
  BY DEF ClaimBadCode, Claimable
<1>1. /\ n \in Nat /\ f \in Nat /\ now \in Nat /\ window \in Nat /\ f <= n
      /\ f <= MaxFailures
      /\ \A i \in 1 .. n : bad[i] \in Nat
  BY DEF TypeOK, LimitInv
<1>2. /\ Len(bad') = n + 1
      /\ bad'[n + 1] = now
      /\ \A i \in 1 .. n : bad'[i] = bad[i]
  BY <1>0 DEF TypeOK
<1>b. \A i \in 1 .. n + 1 : bad'[i] \in Nat
  BY <1>1, <1>2
<1>3. /\ \A i \in 1 .. n : bad[i] <= now
      /\ \A i, k \in 1 .. n : i <= k => bad[i] <= bad[k]
  BY DEF LimitInv
<1>4. /\ \A i \in 1 .. n + 1 : bad'[i] <= now
      /\ \A i, k \in 1 .. n + 1 : i <= k => bad'[i] <= bad'[k]
  BY <1>1, <1>2, <1>3
<1>f. failures' \in Nat /\ Recent' = n + 1 - failures'
  <2>1. failures' \in Nat
    BY <1>0, <1>1 DEF FailuresNow
  <2>2. Recent' = Len(bad') - failures'
    BY DEF Recent
  <2> QED BY <1>2, <2>1, <2>2
<1>5. failures' > 0 /\ failures' <= n + 1 /\ failures' <= MaxFailures
  BY <1>0, <1>1 DEF Allowed, FailuresNow
<1>r. Recent' \in Nat /\ Recent' <= n
  BY <1>1, <1>5, <1>f
\* The start of the group the new failure belongs to, and of the one before.
<1>6. /\ window' = bad'[Recent' + 1]
      /\ Recent' > 0 => /\ Recent' >= MaxFailures
                        /\ bad'[Recent' + 1 - MaxFailures] + Lockout < window'
  <2>1. CASE failed /\ now - window > Lockout
    <3>1. failures' = 1 /\ window' = now /\ f = MaxFailures /\ Recent' = n
      BY <1>0, <1>1, <2>1, <1>f DEF FailuresNow, WindowNow, failed
    <3>2. window = bad[n - MaxFailures + 1]
      BY <1>1, <3>1 DEF LimitInv, Recent
    <3> QED BY <1>1, <1>2, <2>1, <3>1, <3>2
  <2>2. CASE ~(failed /\ now - window > Lockout) /\ f = 0
    <3>1. bad = <<>> /\ n = 0
      BY <1>0, <2>2 DEF LimitInv
    <3>2. FailuresNow = 0
      BY <2>2 DEF FailuresNow
    <3>3. failures' = 1 /\ window' = now
      BY <1>0, <3>2 DEF WindowNow
    <3>4. Recent' = 0
      BY <1>f, <3>1, <3>3
    <3> QED BY <1>2, <3>1, <3>3, <3>4
  <2>3. CASE ~(failed /\ now - window > Lockout) /\ f > 0
    <3>1. failures' = f + 1 /\ window' = window
      BY <1>0, <1>1, <2>3 DEF FailuresNow, WindowNow
    <3>2. Recent' = Recent /\ Recent = n - f
      BY <1>1, <1>f, <3>1 DEF Recent
    <3>3. /\ window = bad[n - f + 1]
          /\ n - f > 0 => /\ n - f >= MaxFailures
                          /\ bad[n - f + 1 - MaxFailures] + Lockout < window
      BY <2>3 DEF LimitInv, Recent
    <3>4. n - f + 1 \in 1 .. n
      BY <1>1, <2>3
    <3>5. n - f > 0 => n - f + 1 - MaxFailures \in 1 .. n
      BY <1>1, <2>3, <3>3
    <3> QED BY <1>2, <3>1, <3>2, <3>3, <3>4, <3>5
  <2> QED BY <1>1, <2>1, <2>2, <2>3
<1>7. ASSUME NEW i \in 1 .. n + 1, NEW k \in 1 .. n + 1, k - i >= 2 * MaxFailures - 1
      PROVE  bad'[i] + Lockout < bad'[k]
  <2>1. i <= n /\ i \in 1 .. n
    BY <1>1, <1>7
  <2>2. CASE k <= n
    BY <1>1, <1>2, <1>7, <2>1, <2>2 DEF LimitInv
  <2>3. CASE k = n + 1
    <3>1. i <= Recent' + 1 - MaxFailures /\ Recent' > 0
      BY <1>1, <1>5, <1>7, <2>3, <1>f
    <3>2. Recent' + 1 - MaxFailures \in 1 .. n + 1 /\ Recent' + 1 \in 1 .. n + 1
      <4>1. Recent' >= MaxFailures
        BY <1>6, <3>1
      <4>2. MaxFailures \in Nat /\ MaxFailures >= 1
        OBVIOUS
      <4>3. \A r, m, q \in Nat : m >= 1 /\ m <= r /\ r <= q =>
               r + 1 - m \in 1 .. q + 1 /\ r + 1 \in 1 .. q + 1
        OBVIOUS
      <4> QED BY <1>1, <1>r, <4>1, <4>2, <4>3
    <3>3. bad'[i] <= bad'[Recent' + 1 - MaxFailures]
      BY <1>4, <2>1, <3>1, <3>2
    <3>4. bad'[Recent' + 1] <= bad'[k]
      BY <1>1, <1>4, <1>r, <2>3, <3>2
    <3>5. bad'[Recent' + 1 - MaxFailures] + Lockout < bad'[Recent' + 1]
      BY <1>6, <3>1
    <3>6. /\ bad'[i] \in Nat /\ bad'[k] \in Nat /\ bad'[Recent' + 1] \in Nat
          /\ bad'[Recent' + 1 - MaxFailures] \in Nat
      BY <1>b, <2>1, <3>2
    <3> QED BY <3>3, <3>4, <3>5, <3>6
  <2> QED BY <1>1, <2>2, <2>3
<1>8. ~(failures' = 0)
  BY <1>0, <1>1 DEF FailuresNow
<1> QED BY <1>0, <1>2, <1>4, <1>5, <1>6, <1>7, <1>8 DEF LimitInv

\* A start, or a release, of the gate forgets the failures and their times.
LEMMA ForgetLimit ==
    ASSUME bad' = <<>>, failures' = 0
    PROVE  LimitInv'
  BY DEF LimitInv

\* A claim that wins may reset the counter; the gate is then claimed, and no
\* code is looked at until the release that forgets the times.
LEMMA WinsLimit ==
    ASSUME TypeOK, LimitInv, NEW c \in Clients, ClaimWins(c)
    PROVE  LimitInv'
<1>0. /\ claimed' = TRUE /\ bad' = bad /\ now' = now
      /\ failures' = FailuresNow /\ window' = WindowNow
  BY DEF ClaimWins
<1>1. CASE FailuresNow = 0
  <2>1. failures' = 0 /\ Len(bad) \in Nat
    BY <1>0, <1>1 DEF TypeOK
  <2> QED BY <1>0, <2>1 DEF LimitInv
<1>2. CASE FailuresNow # 0
  <2>1. failures' = failures /\ window' = window
    BY <1>0, <1>2 DEF FailuresNow, WindowNow
  <2>2. failures # 0
    BY <1>2 DEF FailuresNow
  <2> QED BY <1>0, <2>1, <2>2 DEF LimitInv, Recent
<1> QED BY <1>1, <1>2

\* The clock moves on.
LEMMA TickLimit ==
    ASSUME TypeOK, LimitInv, Tick
    PROVE  LimitInv'
<1>0. /\ UNCHANGED <<bad, failures, window, claimed>> /\ now' = now + 1
  BY DEF Tick, gateVars
<1>1. now \in Nat /\ \A i \in 1 .. Len(bad) : bad[i] \in Nat
  BY GateAssumption DEF TypeOK
<1>2. \A i \in 1 .. Len(bad) : bad[i] <= now + 1
  BY <1>1 DEF LimitInv
<1> QED BY <1>0, <1>2 DEF LimitInv, Recent

\* Every step keeps LimitInv.
LEMMA NextLimit == TypeOK /\ LimitInv /\ [Next]_vars => LimitInv'
<1> SUFFICES ASSUME TypeOK, LimitInv, [Next]_vars PROVE LimitInv'
  OBVIOUS
<1>1. CASE New
  <2>1. bad' = <<>> /\ failures' = 0
    BY <1>1 DEF New, NewGate
  <2> QED BY <2>1, ForgetLimit
<1>2. CASE \E c \in Clients : Release(c)
  <2>1. bad' = <<>> /\ failures' = 0
    BY <1>2 DEF Release
  <2> QED BY <2>1, ForgetLimit
<1>3. CASE \E c \in Clients : ClaimBadCode(c)
  BY <1>3, BadCodeLimit
<1>4. CASE \E c \in Clients : ClaimWins(c)
  BY <1>4, WinsLimit
<1>5. CASE Tick
  BY <1>5, TickLimit
<1>6. CASE \/ \E c \in Clients :
                 \/ ClaimRefused(c) \/ ClaimRateLimited(c)
                 \/ ReleaseForbidden(c) \/ Enroll(c) \/ SendRelease(c)
                 \/ Receive(c) \/ Lose(c)
           \/ Crash \/ UNCHANGED vars
  <2>1. UNCHANGED <<bad, failures, window, claimed, now>>
    BY <1>6 DEF ClaimRefused, ClaimRateLimited, ReleaseForbidden, Enroll, SendRelease,
       Receive, Lose, Crash, vars, conf, gateVars, clientVars
  <2> QED BY <2>1 DEF LimitInv, Recent
<1> QED BY <1>1, <1>2, <1>3, <1>4, <1>5, <1>6 DEF Next, Claim

\* Fewer than 2 * MaxFailures of the times lie within one lockout: the index of
\* the least of them bounds the indices of all.
LEMMA LimitBounds ==
    ASSUME TypeOK, LimitInv
    PROVE  RateLimit
<1> USE GateAssumption
<1> SUFFICES ASSUME NEW t \in 0 .. MaxTime
             PROVE  Cardinality({i \in 1 .. Len(bad) : bad[i] \in t .. t + Lockout})
                       < 2 * MaxFailures
  BY DEF RateLimit
<1> DEFINE S == {i \in 1 .. Len(bad) : bad[i] \in t .. t + Lockout}
<1>1. CASE S = {}
  <2>1. Cardinality(S) = 0
    BY <1>1, FS_EmptySet
  <2> QED BY <2>1
<1>2. CASE S # {}
  <2>0. Len(bad) \in Nat /\ \A i \in 1 .. Len(bad) : bad[i] \in Nat
    BY DEF TypeOK
  <2>1. S \subseteq Nat
    BY <2>0
  <2>2. PICK a \in S : \A k \in S : a <= k
    BY <1>2, <2>1, LeastNat
  <2>3. ASSUME NEW k \in S
        PROVE  k \in a .. a + 2 * MaxFailures - 2
    <3>1. bad[a] >= t /\ bad[k] <= t + Lockout /\ a \in Nat /\ k \in Nat /\ a <= k
      BY <2>0, <2>2
    <3>2. ~(k - a >= 2 * MaxFailures - 1)
      BY <2>0, <2>2, <3>1 DEF LimitInv
    <3> QED BY <3>1, <3>2
  <2> DEFINE b == a + 2 * MaxFailures - 2
             I == a .. b
  <2>4. S \in SUBSET I
    BY <2>3
  <2>5. IsFiniteSet(I) /\ Cardinality(I) = 2 * MaxFailures - 1
    <3>1. a \in Int /\ b \in Int /\ ~(a > b) /\ b - a + 1 = 2 * MaxFailures - 1
      BY <2>1, <2>2
    <3> HIDE DEF S, b
    <3> QED BY <3>1, FS_Interval
  <2>6. IsFiniteSet(S) /\ Cardinality(S) <= 2 * MaxFailures - 1
    <3>1. IsFiniteSet(S) /\ Cardinality(S) <= Cardinality(I)
      <4> HIDE DEF S, I
      <4> QED BY <2>4, <2>5, FS_Subset
    <3> QED BY <2>5, <3>1
  <2>7. Cardinality(S) \in Nat
    BY <2>6, FS_CardinalityType
  <2> QED BY <2>6, <2>7
<1> QED BY <1>1, <1>2

-----------------------------------------------------------------------------
(* What follows from Inv                                                   *)

\* Inv is an invariant of the gate.
THEOREM InvHolds == Spec => []Inv
  BY InitInv, NextInv, PTL DEF Spec

\* The gate, its state file and its controllers stay within their types; in
\* particular the failure counter never passes maxFailures.
THEOREM TypeCorrect == Spec => []TypeOK
<1>1. Inv => TypeOK
  BY DEF Inv
<1> QED BY <1>1, InvHolds, PTL

\* What New would read from the state file is what the gate holds.
THEOREM FileFollowsHolds == Spec => []FileFollows
<1>1. Inv => FileFollows
  BY DEF Inv, FileInv, FileFollows
<1> QED BY <1>1, InvHolds, PTL

\* A controller keeps its access through any number of restarts until its
\* token is released, for any number of controllers and claims.
THEOREM OwnerStaysAuthorizedHolds == Spec => []OwnerStaysAuthorized
<1>1. Inv => OwnerStaysAuthorized
  <2> SUFFICES ASSUME Inv, up, mode = "enroll", Persist, ~DiskFaults,
                      NEW c \in Clients, held[c] # 0, held[c] \notin revoked
               PROVE  token # 0 /\ held[c] = token
    BY DEF OwnerStaysAuthorized, Authorized
  <2>1. PICK i \in issued : held[c] = i.token
    BY DEF Inv, HeldInv, Tokens
  <2>2. i.token = file.token
    BY <2>1 DEF Inv, Ledger
  <2>3. file.token = token
    BY DEF Inv, FileInv
  <2> QED BY <2>1, <2>2, <2>3
<1> QED BY <1>1, InvHolds, PTL

\* A released token is never accepted again, whatever is restarted.
THEOREM RevokedStaysRevokedHolds == Spec => []RevokedStaysRevoked
<1>1. Inv => RevokedStaysRevoked
  BY DEF Inv, Ledger, RevokedStaysRevoked, Authorized
<1> QED BY <1>1, InvHolds, PTL

\* No code is ever exchanged for two tokens.
THEOREM OneWinnerPerCodeHolds == Spec => []OneWinnerPerCode
<1>1. Inv => OneWinnerPerCode
  BY DEF Inv, Ledger, OneWinnerPerCode
<1> QED BY <1>1, InvHolds, PTL

\* Fewer than twice maxFailures codes can be tried in any period of one
\* lockout, for every maxFailures and failureLockout and however the attempts
\* are spaced.
THEOREM RateLimitHolds == Spec => []RateLimit
<1>1. Init => LimitInv
  BY DEF Init, LimitInv
<1>2. Spec => []LimitInv
  BY <1>1, NextLimit, TypeCorrect, PTL DEF Spec
<1>3. TypeOK /\ LimitInv => RateLimit
  BY LimitBounds
<1> QED BY <1>2, <1>3, TypeCorrect, PTL

-----------------------------------------------------------------------------
(* Gate implements Ownership                                               *)

\* The file holds what the gate held, also while the worker is down.
FileKeeps == Kept => file = [token |-> token, code |-> code]

\* A request asks for a claim or a release.
SentInv ==
    \A c \in Clients : call[c].st = "sent" => call[c].op \in {"claim", "release"}

\* What a step does to the requests that are on their way.
LEMMA AskedShrinks ==
    ASSUME \A c \in Clients : call'[c] = call[c] \/ call'[c].st # "sent"
    PROVE  Asked' \subseteq Asked
  BY DEF Asked

\* The answer to a call takes its request off the network.
LEMMA ReplyAsked ==
    ASSUME TypeOK, NEW c \in Clients, NEW v, Reply(c, v)
    PROVE  \A d \in Clients : call'[d] = call[d] \/ call'[d].st # "sent"
<1>1. call \in [Clients -> Calls]
  BY DEF TypeOK
<1>2. ASSUME NEW d \in Clients, d # c PROVE call'[d] = call[d]
  BY <1>1, <1>2 DEF Reply
<1>3. call'[c].st = "replied"
  BY <1>1 DEF Reply, Calls
<1> QED BY <1>2, <1>3

\* Only Enroll and SendRelease put a request on the network.
LEMMA OthersAsk ==
    ASSUME TypeOK, Next,
           ~ \E c \in Clients : Enroll(c) \/ SendRelease(c)
    PROVE  \A d \in Clients : call'[d] = call[d] \/ call'[d].st # "sent"
<1>0. call \in [Clients -> Calls] /\ Idle.st = "idle"
  BY DEF TypeOK, Idle
<1>1. CASE New \/ Crash \/ Tick
  BY <1>1 DEF New, Crash, Tick, clientVars
<1>2. CASE \E c \in Clients : Claim(c) \/ ReleaseForbidden(c) \/ Release(c)
  <2>1. \E c \in Clients : Reply(c, 0) \/ Reply(c, Fresh)
    BY <1>2 DEF Claim, ClaimRefused, ClaimRateLimited, ClaimBadCode, ClaimWins,
       ReleaseForbidden, Release
  <2> QED BY <2>1, ReplyAsked
<1>3. CASE \E c \in Clients : Receive(c) \/ Lose(c)
  <2>1. PICK c \in Clients : call' = [call EXCEPT ![c] = Idle]
    BY <1>3 DEF Receive, Lose
  <2> QED BY <1>0, <2>1
<1> QED BY <1>1, <1>2, <1>3 DEF Next

\* The requests of a controller that enrolls or releases.
LEMMA SendersAsk ==
    ASSUME TypeOK, SentInv, NEW c \in Clients, Enroll(c) \/ SendRelease(c)
    PROVE  SentInv'
<1>0. call \in [Clients -> Calls]
  BY DEF TypeOK
<1>1. CASE Enroll(c)
  <2>1. PICK cd \in known :
          call' = [call EXCEPT ![c] = [st |-> "sent", op |-> "claim",
                                       arg |-> cd, val |-> 0]]
    BY <1>1 DEF Enroll
  <2>2. call'[c].op = "claim" /\ \A d \in Clients : d # c => call'[d] = call[d]
    BY <1>0, <2>1
  <2> QED BY <2>2 DEF SentInv
<1>2. CASE SendRelease(c)
  <2>1. call'[c].op = "release" /\ \A d \in Clients : d # c => call'[d] = call[d]
    BY <1>0, <1>2 DEF SendRelease
  <2> QED BY <2>1 DEF SentInv
<1> QED BY <1>1, <1>2

\* Every step keeps SentInv.
LEMMA NextSent == TypeOK /\ SentInv /\ [Next]_vars => SentInv'
<1> SUFFICES ASSUME TypeOK, SentInv, [Next]_vars PROVE SentInv'
  OBVIOUS
<1>1. CASE UNCHANGED vars
  BY <1>1 DEF vars, clientVars, SentInv
<1>2. CASE \E c \in Clients : Enroll(c) \/ SendRelease(c)
  BY <1>2, SendersAsk
<1>3. CASE Next /\ ~ \E c \in Clients : Enroll(c) \/ SendRelease(c)
  BY <1>3, OthersAsk DEF SentInv
<1> QED BY <1>1, <1>2, <1>3

\* Whether the state is kept is a matter of the configuration.
LEMMA KeptStays == [Next]_vars => UNCHANGED Kept
<1>1. [Next]_vars => UNCHANGED <<mode, disk>>
  BY DEF Next, New, Crash, Claim, ClaimRefused, ClaimRateLimited, ClaimBadCode, ClaimWins,
     ReleaseForbidden, Release, Enroll, SendRelease, Receive, Lose, Tick, vars, conf
<1> QED BY <1>1 DEF Kept, Persist, DiskFaults

\* A start on a state file that works goes on where the worker stopped, and
\* mints a code only when there is nothing to go on with.
LEMMA NewKeeps ==
    ASSUME Inv, FileKeeps, Kept, New
    PROVE  /\ FileKeeps'
           /\ UNCHANGED <<token, code>> \/ (/\ token = 0 /\ token' = 0 /\ code = 0
                                           /\ CanMint /\ code' = Fresh)
<1>0. /\ mode = "enroll" /\ Persist /\ Reads = {file}
      /\ file = [token |-> token, code |-> code]
      /\ file.token = token /\ file.code = code
      /\ token # 0 => code = 0
      /\ ~DiskFaults
  BY DEF Kept, Reads, FileKeeps, Inv, FileInv
<1>1. \/ token # 0 /\ NewGate(token, 0, TRUE) /\ file' = file
      \/ token = 0 /\ code # 0 /\ NewGate(0, code, FALSE) /\ file' = file
      \/ token = 0 /\ code = 0 /\ CanMint /\ NewGate(0, Fresh, FALSE) /\ SaveCode(Fresh)
  BY <1>0 DEF New
<1>2. CASE token # 0 \/ code # 0
  <2>1. token' = token /\ code' = code /\ file' = file
    BY <1>0, <1>1, <1>2 DEF NewGate
  <2> QED BY <1>0, <2>1 DEF FileKeeps
<1>3. CASE token = 0 /\ code = 0
  <2>1. token' = 0 /\ code' = Fresh /\ CanMint /\ SaveCode(Fresh)
    BY <1>1, <1>3 DEF NewGate
  <2>2. file' = [token |-> 0, code |-> Fresh]
    BY <1>0, <2>1 DEF SaveCode, write
  <2> QED BY <1>3, <2>1, <2>2 DEF FileKeeps
<1> QED BY <1>2, <1>3

\* Every step keeps FileKeeps.
LEMMA NextKeeps == Inv /\ FileKeeps /\ [Next]_vars => FileKeeps'
<1> SUFFICES ASSUME Inv, FileKeeps, [Next]_vars, Kept' PROVE (file = [token |-> token, code |-> code])'
  BY DEF FileKeeps
<1>0. Kept
  BY KeptStays
<1>1. CASE New
  BY <1>0, <1>1, NewKeeps DEF FileKeeps
<1>2. CASE \E c \in Clients : ClaimWins(c) \/ Release(c)
  BY <1>0, <1>2 DEF ClaimWins, Release, SaveToken, SaveCode, write, Kept
<1>3. CASE \/ \E c \in Clients :
                 \/ ClaimRefused(c) \/ ClaimRateLimited(c) \/ ClaimBadCode(c)
                 \/ ReleaseForbidden(c) \/ Enroll(c) \/ SendRelease(c) \/ Receive(c)
                 \/ Lose(c)
           \/ Crash \/ Tick \/ UNCHANGED vars
  <2>1. UNCHANGED <<file, token, code>>
    BY <1>3 DEF ClaimRefused, ClaimRateLimited, ClaimBadCode, ReleaseForbidden, Enroll,
       SendRelease, Receive, Lose, Crash, Tick, vars, gateVars
  <2> QED BY <1>0, <2>1 DEF FileKeeps
<1> QED BY <1>1, <1>2, <1>3 DEF Next, Claim

\* What is minted was never an owner, a code, or used up.
LEMMA FreshIsFresh ==
    ASSUME Inv, CanMint
    PROVE  Fresh \in O!Fresh
<1>1. Fresh \in Secret /\ Fresh # 0 /\ minted \in Nat /\ minted < Fresh
  BY FreshIsNew DEF Inv
<1>2. token <= minted /\ code <= minted /\ token \in Nat /\ code \in Nat
  BY GateAssumption DEF Inv, Bounded, TypeOK, Secret
<1>3. ASSUME NEW s \in Spent PROVE s # Fresh
  BY <1>1 DEF Spent, Inv, Bounded, TypeOK, Secret
<1>4. Fresh # token /\ Fresh # code
  BY <1>1, <1>2
<1> QED BY <1>1, <1>3, <1>4 DEF O!Fresh

\* What Ownership sees of the gate.
oVars == <<Kept, token, code, Asked, Spent>>

\* A start of the worker shows only when its state is not kept, or when it had
\* neither an owner nor a code.
LEMMA NewOwns ==
    ASSUME Inv, Inv', FileKeeps, New
    PROVE  [O!Next]_oVars
<1>0. Kept' = Kept /\ Asked' = Asked /\ Spent' = Spent
  BY KeptStays DEF New, clientVars, Asked, Spent, Next
<1>1. CASE Kept
  <2>1. CASE UNCHANGED <<token, code>>
    BY <1>0, <2>1 DEF oVars
  <2>2. CASE token = 0 /\ token' = 0 /\ code = 0 /\ CanMint /\ code' = Fresh
    <3>1. code' \in O!Fresh
      BY <2>2, FreshIsFresh
    <3>2. O!Open
      BY <1>0, <2>2, <3>1 DEF O!Open
    <3> QED BY <3>2 DEF O!Next
  <2> QED BY <1>1, <2>1, <2>2, NewKeeps
<1>2. CASE ~Kept
  <2>1. token' = 0 \/ code' = 0
    BY DEF New, NewGate
  <2>2. token' \in Secret /\ code' \in Secret
    BY DEF Inv, TypeOK, Secret
  <2>3. O!Restart
    BY <1>0, <1>2, <2>1, <2>2 DEF O!Restart
  <2> QED BY <2>3 DEF O!Next
<1> QED BY <1>1, <1>2

\* The winner of a claim becomes the owner for the code it sent.
LEMMA ClaimOwns ==
    ASSUME Inv, NEW c \in Clients, ClaimWins(c)
    PROVE  O!Claim
<1>0. /\ up /\ mode = "enroll" /\ ~claimed /\ code # 0
      /\ call[c].st = "sent" /\ call[c].op = "claim" /\ call[c].arg = code
      /\ CanMint /\ token' = Fresh /\ code' = 0 /\ Reply(c, Fresh)
      /\ issued' = issued \cup {[code |-> code, token |-> Fresh]}
      /\ revoked' = revoked
  BY GateAssumption DEF ClaimWins, Claimable, Pending, Inv, TypeOK, FileInv
<1>1. token = 0
  BY <1>0 DEF Inv, FileInv
<1>2. <<"claim", code>> \in Asked
  BY <1>0 DEF Asked
<1>3. token' \in O!Fresh
  BY <1>0, FreshIsFresh
<1>4. Asked' \subseteq Asked
  BY <1>0, ReplyAsked, AskedShrinks DEF Inv
<1>5. Spent' = Spent \cup {code}
  <2>1. [code |-> code, token |-> Fresh].code = code
    OBVIOUS
  <2>2. {i.code : i \in issued'} = {i.code : i \in issued} \cup {code}
    BY <1>0, <2>1
  <2> QED BY <1>0, <2>2 DEF Spent
<1>6. Kept' = Kept
  BY KeptStays DEF Next, Claim
<1> QED BY <1>0, <1>1, <1>2, <1>3, <1>4, <1>5, <1>6 DEF O!Claim

\* A release takes the owner's token, and opens the worker with a new code.
LEMMA ReleaseOwns ==
    ASSUME Inv, NEW c \in Clients, Release(c)
    PROVE  O!Release
<1>0. /\ up /\ mode = "enroll" /\ claimed
      /\ call[c].st = "sent" /\ call[c].op = "release" /\ call[c].arg = token
      /\ CanMint /\ token' = 0 /\ code' = Fresh /\ Reply(c, Fresh)
      /\ issued' = issued
      /\ revoked' = revoked \cup {token}
  BY DEF Release, MayRelease, Pending
<1>1. token # 0
  BY <1>0 DEF Inv, FileInv
<1>2. <<"release", token>> \in Asked
  BY <1>0 DEF Asked
<1>3. code' \in O!Fresh
  BY <1>0, FreshIsFresh
<1>4. Asked' \subseteq Asked
  BY <1>0, ReplyAsked, AskedShrinks DEF Inv
<1>5. Spent' = Spent \cup {token}
  BY <1>0 DEF Spent
<1>6. Kept' = Kept
  BY KeptStays DEF Next
<1> QED BY <1>0, <1>1, <1>2, <1>3, <1>4, <1>5, <1>6 DEF O!Release

\* Every step of the gate is a step of Ownership, or none.
LEMMA NextOwns ==
    Inv /\ Inv' /\ FileKeeps /\ SentInv' /\ [Next]_vars => [O!Next]_oVars
<1> SUFFICES ASSUME Inv, Inv', FileKeeps, SentInv', [Next]_vars
             PROVE  [O!Next]_oVars
  OBVIOUS
<1>1. CASE New
  BY <1>1, NewOwns
<1>2. CASE \E c \in Clients : ClaimWins(c)
  BY <1>2, ClaimOwns DEF O!Next
<1>3. CASE \E c \in Clients : Release(c)
  BY <1>3, ReleaseOwns DEF O!Next
<1>4. CASE \/ \E c \in Clients :
                 \/ ClaimRefused(c) \/ ClaimRateLimited(c) \/ ClaimBadCode(c)
                 \/ ReleaseForbidden(c) \/ Enroll(c) \/ SendRelease(c) \/ Receive(c)
                 \/ Lose(c)
           \/ Crash \/ Tick \/ UNCHANGED vars
  <2>1. UNCHANGED <<token, code, issued, revoked>>
    BY <1>4 DEF ClaimRefused, ClaimRateLimited, ClaimBadCode, ReleaseForbidden, Enroll,
       SendRelease, Receive, Lose, Crash, Tick, vars, gateVars
  <2>2. Kept' = Kept /\ Spent' = Spent
    BY <2>1, KeptStays DEF Spent
  <2>3. call' \in [Clients -> Calls]
    BY DEF Inv, TypeOK
  <2>4. Asked' \subseteq {"claim", "release"} \X Secret
    <3> SUFFICES ASSUME NEW c \in Clients, call'[c].st = "sent"
                 PROVE  <<call'[c].op, call'[c].arg>> \in {"claim", "release"} \X Secret
      BY DEF Asked, Secret
    <3>1. call'[c].op \in {"claim", "release"}
      BY DEF SentInv
    <3>2. call'[c].arg \in Secret
      BY <2>3 DEF Calls
    <3> QED BY <3>1, <3>2
  <2>5. O!Ask
    BY <2>1, <2>2, <2>4 DEF O!Ask
  <2> QED BY <2>5 DEF O!Next
<1> QED BY <1>1, <1>2, <1>3, <1>4 DEF Next, Claim

\* The gate implements Ownership: for any number of controllers, claims,
\* releases and restarts the worker changes hands only by a claim with its open
\* code and a release with its owner's token, and a crash does not show.
THEOREM GateImplementsOwnership == Spec => ImplementsOwnership
<1>1. Init => O!Init /\ FileKeeps /\ SentInv
  <2> SUFFICES ASSUME Init PROVE O!Init /\ FileKeeps /\ SentInv
    OBVIOUS
  <2>1. Asked = {} /\ SentInv
    BY DEF Init, Asked, SentInv, Idle
  <2>2. Spent = {} /\ Kept \in BOOLEAN
    BY DEF Init, Spent, Kept
  <2>3. FileKeeps
    BY DEF Init, FileKeeps, EmptyFile
  <2> QED BY <2>1, <2>2, <2>3 DEF Init, O!Init
<1>2. Spec => [](FileKeeps /\ SentInv)
  <2>1. Inv => TypeOK
    BY DEF Inv
  <2> QED BY <1>1, <2>1, InvHolds, NextKeeps, NextSent, PTL DEF Spec
<1> QED BY <1>1, <1>2, InvHolds, NextOwns, PTL DEF Spec, ImplementsOwnership, O!Spec, oVars
=============================================================================
