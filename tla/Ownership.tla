----------------------------- MODULE Ownership -----------------------------
(***************************************************************************)
(* What the gate promises to the controllers: the worker has at most one   *)
(* owner, who got it for the code that was open and keeps it until it asks *)
(* for the release.  A worker whose state is kept has no restarts: neither *)
(* the end of its process nor a call that is refused or lost shows here.   *)
(***************************************************************************)
CONSTANT
    Secrets   \* codes and tokens; 0 is none

VARIABLES
    kept,     \* the worker enrolls, and its state file works
    owner,    \* the token of the owner
    code,     \* the code the worker can be claimed with
    asked,    \* claims and releases on their way, each with its secret
    spent     \* codes that were claimed and tokens that were released

Init ==
    /\ kept \in BOOLEAN
    /\ owner = 0
    /\ code = 0
    /\ asked = {}
    /\ spent = {}

\* A code or token that was never used.
Fresh == Secrets \ ({0, owner, code} \cup spent)

\* Requests are sent, refused and lost.
Ask ==
    /\ UNCHANGED <<kept, owner, code, spent>>
    /\ asked' \subseteq {"claim", "release"} \X Secrets

\* A worker that has neither an owner nor a code gets a code.
Open ==
    /\ owner = 0
    /\ code = 0
    /\ code' \in Fresh
    /\ UNCHANGED <<kept, owner, asked, spent>>

Claim ==
    /\ owner = 0
    /\ code # 0
    /\ <<"claim", code>> \in asked
    /\ owner' \in Fresh
    /\ code' = 0
    /\ asked' \subseteq asked
    /\ spent' = spent \cup {code}
    /\ UNCHANGED kept

Release ==
    /\ owner # 0
    /\ <<"release", owner>> \in asked
    /\ owner' = 0
    /\ code' \in Fresh
    /\ asked' \subseteq asked
    /\ spent' = spent \cup {owner}
    /\ UNCHANGED kept

\* A worker whose state is not kept may come back with any owner or code.
Restart ==
    /\ ~kept
    /\ owner' \in Secrets
    /\ code' \in Secrets
    /\ owner' = 0 \/ code' = 0
    /\ UNCHANGED <<kept, asked, spent>>

Next == Ask \/ Open \/ Claim \/ Release \/ Restart

Spec == Init /\ [][Next]_<<kept, owner, code, asked, spent>>
=============================================================================
