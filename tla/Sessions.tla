------------------------------- MODULE Sessions -------------------------------
(***************************************************************************)
(* One account's way in: one-time codes, the session a verified code opens,*)
(* and the refresh tokens that keep a session alive.                       *)
(*                                                                         *)
(* A worker is a request thread.  verify_otp and rotate load a row, decide *)
(* on it and write it blindly at their commit, with nothing locked between;*)
(* that gap is where another request fits, so each is two steps here.  The *)
(* UPDATE that revokes a family reads the table as it is when it runs: the *)
(* replacement a rotation in flight has inserted is not in it yet.         *)
(***************************************************************************)
EXTENDS Naturals, FiniteSets

CONSTANTS
    Codes,           \* challenges ever created, numbered by created_at (a bound)
    Tokens,          \* refresh tokens ever minted (a bound)
    Workers,         \* requests handled at once
    MaxOtpAttempts   \* MAX_OTP_ATTEMPTS

ASSUME CodesAssumption == Codes \subseteq Nat
ASSUME AttemptsAssumption == MaxOtpAttempts \in Nat \ {0}

VARIABLES
    active,    \* users.is_active
    code,      \* otp_challenges: absent, waiting for its code, verified, deleted
    attempts,  \* otp_challenges.attempts
    token,     \* refresh_tokens: absent, live, revoked (revoked_at)
    family,    \* refresh_tokens.family_id, as the first token of the family
    expired,   \* tokens past expires_at
    pc,        \* where each worker stands in its handler
    req,       \* what that handler has loaded and will write
    source,    \* what each token was issued for: a code or a token (ghost)
    guesses,   \* codes compared with each challenge and answered (ghost)
    raced,     \* codes and tokens two handlers had loaded at once (ghost)
    ended      \* families revoked with no rotation in flight in them (ghost)

tables == <<active, code, attempts, token, family, expired>>
ghosts == <<source, guesses, raced, ended>>
vars == <<active, code, attempts, token, family, expired, pc, req,
          source, guesses, raced, ended>>

NoSource == <<"none", "none">>
FromCode(c) == <<"code", c>>
FromToken(t) == <<"token", t>>
Sources == {NoSource} \cup {FromCode(c) : c \in Codes} \cup {FromToken(t) : t \in Tokens}

(* A request: the challenge or token it loaded, the attempts it will write,*)
(* whether the code it was given matches, the challenges it deletes or the *)
(* replacement it mints.                                                   *)
NoReq == [op |-> "none", code |-> {}, count |-> 0, right |-> FALSE,
          drop |-> {}, old |-> {}, new |-> {}]
Req == [op : {"none", "request", "verify", "rotate"}, code : SUBSET Codes,
        count : 0 .. MaxOtpAttempts, right : BOOLEAN,
        drop : SUBSET Codes, old : SUBSET Tokens, new : SUBSET Tokens]

TypeOK ==
    /\ active \in BOOLEAN
    /\ code \in [Codes -> {"absent", "pending", "verified", "deleted"}]
    /\ attempts \in [Codes -> 0 .. MaxOtpAttempts]
    /\ token \in [Tokens -> {"absent", "live", "revoked"}]
    /\ family \in [Tokens -> Tokens]
    /\ expired \subseteq Tokens
    /\ pc \in [Workers -> {"idle", "request", "verify", "issue", "rotate"}]
    /\ req \in [Workers -> Req]
    /\ source \in [Tokens -> Sources]
    /\ guesses \in [Codes -> 0 .. MaxOtpAttempts + 1]
    /\ raced \subseteq Codes \cup Tokens
    /\ ended \subseteq Tokens

Init ==
    /\ active = TRUE
    /\ code = [c \in Codes |-> "absent"]
    /\ attempts = [c \in Codes |-> 0]
    /\ token = [t \in Tokens |-> "absent"]
    /\ family = [t \in Tokens |-> t]
    /\ expired = {}
    /\ pc = [w \in Workers |-> "idle"]
    /\ req = [w \in Workers |-> NoReq]
    /\ source = [t \in Tokens |-> NoSource]
    /\ guesses = [c \in Codes |-> 0]
    /\ raced = {}
    /\ ended = {}

Idle(w) == pc[w] = "idle"
Goto(w, r, step) ==
    /\ pc' = [pc EXCEPT ![w] = step]
    /\ req' = [req EXCEPT ![w] = r]
Done(w) == Goto(w, NoReq, "idle")

Pending == {c \in Codes : code[c] = "pending"}
Newest(c) == c \in Pending /\ \A d \in Pending : d <= c
UnusedCode(c) == code[c] = "absent" /\ \A w \in Workers : c \notin req[w].code
UnusedToken(t) == token[t] = "absent" /\ \A w \in Workers : t \notin req[w].new

(* Rows a request_otp has deleted and not committed are locked. *)
Locked(c) == \E w \in Workers : c \in req[w].drop

--------------------------------------------------------------------------------
(* One-time codes *)

(* request_otp refuses a deactivated account, then deletes every unverified*)
(* challenge it can see.                                                   *)
RequestStart(w, c) ==
    /\ Idle(w)
    /\ active
    /\ UnusedCode(c)
    /\ \A d \in Codes : d < c => ~UnusedCode(d)
    /\ Goto(w, [NoReq EXCEPT !.op = "request", !.code = {c}, !.drop = Pending],
            "request")
    /\ UNCHANGED <<tables, ghosts>>

(* The challenge is durable before its code is mailed. *)
RequestCommit(w) ==
    /\ pc[w] = "request"
    /\ code' = [c \in Codes |-> CASE c \in req[w].code -> "pending"
                                  [] c \in req[w].drop -> "deleted"
                                  [] OTHER -> code[c]]
    /\ Done(w)
    /\ UNCHANGED <<active, attempts, token, family, expired, ghosts>>

(* Mutant: no limit on the attempts at a challenge. *)
VerifyReadUnlimited(w, c, right) ==
    /\ Idle(w)
    /\ Newest(c)
    /\ Goto(w, [NoReq EXCEPT !.op = "verify", !.code = {c}, !.right = right,
                             !.count = attempts[c] + 1], "verify")
    /\ raced' = IF \E u \in Workers : c \in req[u].code THEN raced \cup {c} ELSE raced
    /\ UNCHANGED <<tables, source, guesses, ended>>

(* verify_otp loads the newest challenge and compares the code; whether it *)
(* matches is the caller's doing.  An expired challenge ends the request   *)
(* with nothing written, as if it had not been made.                       *)
VerifyRead(w, c, right) ==
    /\ Idle(w)
    /\ Newest(c)
    /\ attempts[c] < MaxOtpAttempts
    /\ Goto(w, [NoReq EXCEPT !.op = "verify", !.code = {c}, !.right = right,
                             !.count = attempts[c] + 1], "verify")
    /\ raced' = IF \E u \in Workers : c \in req[u].code THEN raced \cup {c} ELSE raced
    /\ UNCHANGED <<tables, source, guesses, ended>>

Answer(c) ==
    guesses' = [guesses EXCEPT ![c] = IF @ > MaxOtpAttempts THEN @ ELSE @ + 1]

(* Mutants of the commit: the wrong guess is rolled back with the error;  *)
(* the right one verifies the user and forgets the challenge.             *)
VerifyCommitUncounted(w) ==
    /\ pc[w] = "verify"
    /\ \E c \in req[w].code :
          /\ Answer(c)
          /\ IF req[w].right
             THEN /\ attempts' = [attempts EXCEPT ![c] = req[w].count]
                  /\ code' = [code EXCEPT ![c] = "verified"]
                  /\ Goto(w, req[w], "issue")
             ELSE Done(w) /\ UNCHANGED <<attempts, code>>
    /\ UNCHANGED <<active, token, family, expired, source, raced, ended>>

VerifyCommitReusable(w) ==
    /\ pc[w] = "verify"
    /\ \E c \in req[w].code :
          /\ Answer(c)
          /\ attempts' = [attempts EXCEPT ![c] = req[w].count]
          /\ IF req[w].right THEN Goto(w, req[w], "issue") ELSE Done(w)
    /\ UNCHANGED <<active, code, token, family, expired, source, raced, ended>>

(* Both outcomes are committed.  The update waits for the lock, and fails  *)
(* (StaleDataError) when the row has been deleted meanwhile.  is_active is *)
(* not looked at.                                                          *)
VerifyCommit(w) ==
    /\ pc[w] = "verify"
    /\ \E c \in req[w].code :
          /\ ~Locked(c)
          /\ IF code[c] = "deleted"
             THEN Done(w) /\ UNCHANGED <<attempts, code, guesses>>
             ELSE /\ Answer(c)
                  /\ attempts' = [attempts EXCEPT ![c] = req[w].count]
                  /\ IF req[w].right
                     THEN /\ code' = [code EXCEPT ![c] = "verified"]
                          /\ Goto(w, req[w], "issue")
                     ELSE Done(w) /\ UNCHANGED code
    /\ UNCHANGED <<active, token, family, expired, source, raced, ended>>

(* _issue_session: a transaction of its own, and the start of a family. *)
IssueSession(w, t) ==
    /\ pc[w] = "issue"
    /\ UnusedToken(t)
    /\ token' = [token EXCEPT ![t] = "live"]
    /\ family' = [family EXCEPT ![t] = t]
    /\ \E c \in req[w].code : source' = [source EXCEPT ![t] = FromCode(c)]
    /\ Done(w)
    /\ UNCHANGED <<active, code, attempts, expired, guesses, raced, ended>>

--------------------------------------------------------------------------------
(* Refresh tokens *)

(* Mutant: only the token that came back is revoked. *)
RevokeFamilyOnly(t) ==
    token' = [token EXCEPT ![t] = "revoked"]

(* _revoke_family *)
RevokeFamily(t) ==
    token' = [u \in Tokens |-> IF family[u] = family[t] /\ token[u] = "live"
                               THEN "revoked" ELSE token[u]]

Rotating(f) == \E w \in Workers : \E t \in req[w].old : family[t] = f
End(t) == ended' = IF Rotating(family[t]) THEN ended ELSE ended \cup {family[t]}

(* rotate, the token spent already: reuse, and the family goes. *)
Reuse(w, t) ==
    /\ Idle(w)
    /\ token[t] = "revoked"
    /\ RevokeFamily(t)
    /\ End(t)
    /\ UNCHANGED <<active, code, attempts, family, expired, pc, req,
                   source, guesses, raced>>

(* rotate, the token live: its replacement is inserted, not yet committed. *)
RotateRead(w, t, new) ==
    /\ Idle(w)
    /\ token[t] = "live"
    /\ t \notin expired
    /\ UnusedToken(new)
    /\ Goto(w, [NoReq EXCEPT !.op = "rotate", !.old = {t}, !.new = {new}], "rotate")
    /\ raced' = IF \E u \in Workers : t \in req[u].old THEN raced \cup {t} ELSE raced
    /\ UNCHANGED <<tables, source, guesses, ended>>

(* Mutant: the presented token is left as it was. *)
RotateCommitKeeping(w) ==
    /\ pc[w] = "rotate"
    /\ \E t \in req[w].old, new \in req[w].new :
          /\ token' = [token EXCEPT ![new] = "live"]
          /\ family' = [family EXCEPT ![new] = family[t]]
          /\ source' = [source EXCEPT ![new] = FromToken(t)]
    /\ Done(w)
    /\ UNCHANGED <<active, code, attempts, expired, guesses, raced, ended>>

RotateCommit(w) ==
    /\ pc[w] = "rotate"
    /\ \E t \in req[w].old, new \in req[w].new :
          /\ token' = [token EXCEPT ![t] = "revoked", ![new] = "live"]
          /\ family' = [family EXCEPT ![new] = family[t]]
          /\ source' = [source EXCEPT ![new] = FromToken(t)]
    /\ Done(w)
    /\ UNCHANGED <<active, code, attempts, expired, guesses, raced, ended>>

(* logout: revoke does nothing for a token that is spent already. *)
SignOut(w, t) ==
    /\ Idle(w)
    /\ token[t] = "live"
    /\ RevokeFamily(t)
    /\ End(t)
    /\ UNCHANGED <<active, code, attempts, family, expired, pc, req,
                   source, guesses, raced>>

--------------------------------------------------------------------------------
(* The staff portal's update_staff, and the rest of the world *)

SetActive(w, on) ==
    /\ Idle(w)
    /\ active # on
    /\ active' = on
    /\ UNCHANGED <<code, attempts, token, family, expired, pc, req, ghosts>>

Expire(t) ==
    /\ token[t] # "absent"
    /\ expired' = expired \cup {t}
    /\ UNCHANGED <<active, code, attempts, token, family, pc, req, ghosts>>

(* The handler raises or the process restarts: nothing uncommitted stays. *)
Abort(w) ==
    /\ ~Idle(w)
    /\ Done(w)
    /\ UNCHANGED <<tables, ghosts>>

SignIn(w) ==
    \/ \E c \in Codes : RequestStart(w, c)
    \/ RequestCommit(w) \/ VerifyCommit(w)
    \/ \E c \in Codes, right \in BOOLEAN : VerifyRead(w, c, right)
    \/ \E t \in Tokens : IssueSession(w, t)

Refresh(w) ==
    \/ \E t, new \in Tokens : RotateRead(w, t, new)
    \/ \E t \in Tokens : Reuse(w, t) \/ SignOut(w, t)
    \/ RotateCommit(w)

Next ==
    \/ \E w \in Workers : SignIn(w) \/ Refresh(w) \/ Abort(w)
    \/ \E w \in Workers, on \in BOOLEAN : SetActive(w, on)
    \/ \E t \in Tokens : Expire(t)

Spec == Init /\ [][Next]_vars

--------------------------------------------------------------------------------
(* Properties *)

Replacements(t) == {u \in Tokens : source[u] = FromToken(t)}
SessionsFrom(c) == {u \in Tokens : source[u] = FromCode(c)}

(* refresh.py: "A token is therefore valid exactly once" - unless two       *)
(* rotations load it before either commits: both are then given one.       *)
ExchangedOnceUnlessRaced ==
    \A t \in Tokens \ raced : \A u, v \in Replacements(t) : u = v

(* A session that was signed out, or whose reuse was detected, while none  *)
(* of its rotations was in flight has no live token ever again.            *)
EndedSessionStaysEnded ==
    \A t \in Tokens : token[t] = "live" => family[t] \notin ended

(* One mailed code opens at most one session, unless two requests verify   *)
(* it at once.                                                             *)
OneSessionPerCode ==
    \A c \in Codes \ raced : \A u, v \in SessionsFrom(c) : u = v

(* A challenge is never compared with more than MAX_OTP_ATTEMPTS codes,    *)
(* unless two requests verify it at once.                                  *)
GuessesBounded == \A c \in Codes \ raced : guesses[c] <= MaxOtpAttempts

(* refresh.py, revoke_all_for_user: "Sign out everywhere - used when an    *)
(* account is disabled."                                                   *)
DisabledIsSignedOut ==
    [][active /\ ~active' => \A t \in Tokens : token'[t] # "live"]_vars

=============================================================================
