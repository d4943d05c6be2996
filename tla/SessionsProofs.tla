---------------------------- MODULE SessionsProofs ----------------------------
(***************************************************************************)
(* Proofs about Sessions, for any number of codes, tokens, workers and     *)
(* allowed attempts.                                                       *)
(***************************************************************************)
EXTENDS Sessions, TLAPS

Steps == {"idle", "request", "verify", "issue", "rotate"}

LEMMA NoReqTyped == NoReq \in Req
  BY AttemptsAssumption DEF NoReq, Req

LEMMA GotoTyped ==
    ASSUME TypeOK, NEW w \in Workers, NEW r \in Req, NEW step \in Steps,
           Goto(w, r, step)
    PROVE  pc' \in [Workers -> Steps] /\ req' \in [Workers -> Req]
  BY DEF TypeOK, Goto, Steps

LEMMA DoneTyped ==
    ASSUME TypeOK, NEW w \in Workers, Done(w)
    PROVE  pc' \in [Workers -> Steps] /\ req' \in [Workers -> Req]
  BY GotoTyped, NoReqTyped DEF Done, Steps

LEMMA NextTyped ==
    ASSUME TypeOK, Next
    PROVE  TypeOK'
<1> USE AttemptsAssumption
<1>1. ASSUME NEW w \in Workers, NEW c \in Codes, RequestStart(w, c)
      PROVE  TypeOK'
  <2> DEFINE r == [NoReq EXCEPT !.op = "request", !.code = {c}, !.drop = Pending]
  <2>a. Pending \subseteq Codes /\ 0 \in 0 .. MaxOtpAttempts
    BY DEF Pending
  <2>1. r \in Req
    BY <2>a DEF NoReq, Req
  <2>2. Goto(w, r, "request") /\ UNCHANGED <<tables, ghosts>>
    BY <1>1 DEF RequestStart
  <2> HIDE DEF r
  <2> QED
    BY <2>1, <2>2, GotoTyped DEF TypeOK, Steps, tables, ghosts
<1>2. ASSUME NEW w \in Workers, RequestCommit(w)
      PROVE  TypeOK'
  BY <1>2, DoneTyped DEF RequestCommit, TypeOK, Steps, ghosts
<1>3. ASSUME NEW w \in Workers, NEW c \in Codes, NEW right \in BOOLEAN,
             VerifyRead(w, c, right)
      PROVE  TypeOK'
  <2> DEFINE r == [NoReq EXCEPT !.op = "verify", !.code = {c}, !.right = right,
                                !.count = attempts[c] + 1]
  <2>a. attempts[c] + 1 \in 0 .. MaxOtpAttempts
    BY <1>3 DEF VerifyRead, TypeOK
  <2>1. r \in Req
    BY <2>a DEF NoReq, Req
  <2>2. /\ Goto(w, r, "verify") /\ UNCHANGED <<tables, source, guesses, ended>>
        /\ raced' \in {raced, raced \cup {c}}
    BY <1>3 DEF VerifyRead
  <2> HIDE DEF r
  <2> QED
    BY <2>1, <2>2, GotoTyped DEF TypeOK, Steps, tables
<1>4. ASSUME NEW w \in Workers, VerifyCommit(w)
      PROVE  TypeOK'
  <2>1. req[w] \in Req /\ req[w].code \subseteq Codes
    BY DEF TypeOK, Req
  <2>2. PICK c \in req[w].code :
            \/ Done(w) /\ UNCHANGED <<attempts, code, guesses>>
            \/ /\ Answer(c)
               /\ attempts' = [attempts EXCEPT ![c] = req[w].count]
               /\ \/ /\ code' = [code EXCEPT ![c] = "verified"]
                     /\ Goto(w, req[w], "issue")
                  \/ Done(w) /\ UNCHANGED code
    BY <1>4 DEF VerifyCommit
  <2>3. pc' \in [Workers -> Steps] /\ req' \in [Workers -> Req]
    BY <2>1, <2>2, GotoTyped, DoneTyped DEF Steps
  <2>4. guesses' \in [Codes -> 0 .. MaxOtpAttempts + 1]
    BY <2>1, <2>2 DEF Answer, TypeOK
  <2>5. /\ attempts' \in [Codes -> 0 .. MaxOtpAttempts]
        /\ code' \in [Codes -> {"absent", "pending", "verified", "deleted"}]
    BY <2>1, <2>2 DEF TypeOK, Req
  <2> QED
    BY <1>4, <2>3, <2>4, <2>5 DEF VerifyCommit, TypeOK, Steps
<1>5. ASSUME NEW w \in Workers, NEW t \in Tokens, IssueSession(w, t)
      PROVE  TypeOK'
  <2>1. PICK c \in req[w].code : source' = [source EXCEPT ![t] = FromCode(c)]
    BY <1>5 DEF IssueSession
  <2>2. c \in Codes
    BY DEF TypeOK, Req
  <2>3. source' \in [Tokens -> Sources]
    BY <2>1, <2>2 DEF TypeOK, Sources
  <2> QED
    BY <1>5, <2>3, DoneTyped DEF IssueSession, TypeOK, Steps
<1>6. ASSUME NEW w \in Workers, NEW t \in Tokens, Reuse(w, t) \/ SignOut(w, t)
      PROVE  TypeOK'
  BY <1>6 DEF Reuse, SignOut, RevokeFamily, End, TypeOK
<1>7. ASSUME NEW w \in Workers, NEW t \in Tokens, NEW new \in Tokens,
             RotateRead(w, t, new)
      PROVE  TypeOK'
  <2> DEFINE r == [NoReq EXCEPT !.op = "rotate", !.old = {t}, !.new = {new}]
  <2>a. 0 \in 0 .. MaxOtpAttempts
    OBVIOUS
  <2>1. r \in Req
    BY <2>a DEF NoReq, Req
  <2>2. /\ Goto(w, r, "rotate") /\ UNCHANGED <<tables, source, guesses, ended>>
        /\ raced' \in {raced, raced \cup {t}}
    BY <1>7 DEF RotateRead
  <2> HIDE DEF r
  <2> QED
    BY <2>1, <2>2, GotoTyped DEF TypeOK, Steps, tables
<1>8. ASSUME NEW w \in Workers, RotateCommit(w)
      PROVE  TypeOK'
  <2>1. PICK t \in req[w].old, new \in req[w].new :
            /\ token' = [token EXCEPT ![t] = "revoked", ![new] = "live"]
            /\ family' = [family EXCEPT ![new] = family[t]]
            /\ source' = [source EXCEPT ![new] = FromToken(t)]
    BY <1>8 DEF RotateCommit
  <2>2. t \in Tokens /\ new \in Tokens
    BY DEF TypeOK, Req
  <2>3. source' \in [Tokens -> Sources]
    BY <2>1, <2>2 DEF TypeOK, Sources
  <2> QED
    BY <1>8, <2>1, <2>2, <2>3, DoneTyped DEF RotateCommit, TypeOK, Steps
<1>9. ASSUME NEW w \in Workers, NEW on \in BOOLEAN, SetActive(w, on)
      PROVE  TypeOK'
  BY <1>9 DEF SetActive, TypeOK, ghosts
<1>10. ASSUME NEW t \in Tokens, Expire(t)
       PROVE  TypeOK'
  BY <1>10 DEF Expire, TypeOK, ghosts
<1>11. ASSUME NEW w \in Workers, Abort(w)
       PROVE  TypeOK'
  BY <1>11, DoneTyped DEF Abort, TypeOK, Steps, tables, ghosts
<1> QED
  BY <1>1, <1>2, <1>3, <1>4, <1>5, <1>6, <1>7, <1>8, <1>9, <1>10, <1>11
     DEF Next, SignIn, Refresh

(* Every variable keeps its type. *)
THEOREM SessionsTypeCorrect == Spec => []TypeOK
<1>1. Init => TypeOK
  BY AttemptsAssumption DEF Init, TypeOK, NoReq, Req, Sources
<1>2. TypeOK /\ [Next]_vars => TypeOK'
  BY NextTyped DEF vars, TypeOK
<1> QED
  BY <1>1, <1>2, PTL DEF Spec

--------------------------------------------------------------------------------
(* What a handler in flight has loaded: its challenge or its token exists, *)
(* the rows it will insert do not, and it alone will insert them.          *)
InFlight(w) ==
    /\ pc[w] \in {"idle", "request"} => req[w].old = {} /\ req[w].new = {}
    /\ pc[w] \in {"verify", "issue"} =>
          /\ req[w].old = {} /\ req[w].new = {} /\ req[w].drop = {}
          /\ \A c \in req[w].code : code[c] # "absent"
    /\ pc[w] = "issue" => \A c \in req[w].code : code[c] = "verified"
    /\ pc[w] = "request" => \A c \in req[w].code : code[c] = "absent"
    /\ \A c \in req[w].drop : code[c] \in {"pending", "deleted"}
    /\ pc[w] \in {"idle", "rotate"} => req[w].code = {} /\ req[w].drop = {}
    /\ \A c, d \in req[w].code : c = d
    /\ \A t \in req[w].old : token[t] # "absent"
    /\ \A t \in req[w].new : token[t] = "absent"

(* Two handlers share nothing but what is marked as raced. *)
Apart(u, w) ==
    /\ req[u].new \cap req[w].new = {}
    /\ req[u].old \cap req[w].old \subseteq raced
    /\ req[u].code \cap req[w].code \subseteq raced
    /\ pc[w] = "request" => req[u].code \cap req[w].code = {}

(* A token that has been exchanged is spent, a code that opened a session  *)
(* is verified; a handler that still holds either was raced.               *)
Spent ==
    /\ \A u \in Tokens : token[u] = "absent" => source[u] = NoSource
    /\ \A t, u \in Tokens : source[u] = FromToken(t) =>
          token[t] = "revoked" /\ \A w \in Workers : t \in req[w].old => t \in raced
    /\ \A c \in Codes, u \in Tokens : source[u] = FromCode(c) =>
          code[c] = "verified" /\ \A w \in Workers : c \in req[w].code => c \in raced

(* A family that has ended exists, and nothing of it is live or in flight. *)
Closed ==
    /\ \A t \in Tokens : token[t] # "absent" => token[family[t]] # "absent"
    /\ \A f \in ended : token[f] # "absent" /\ ~Rotating(f)

IInv ==
    /\ TypeOK
    /\ \A w \in Workers : InFlight(w)
    /\ \A u, w \in Workers : u # w => Apart(u, w)
    /\ Spent /\ Closed
    /\ ExchangedOnceUnlessRaced /\ OneSessionPerCode /\ EndedSessionStaysEnded

(* Moving one handler: the others stay where they are. *)
LEMMA GotoMoves ==
    ASSUME TypeOK, NEW w \in Workers, NEW r, NEW step, Goto(w, r, step)
    PROVE  /\ req'[w] = r /\ pc'[w] = step
           /\ \A u \in Workers \ {w} : req'[u] = req[u] /\ pc'[u] = pc[u]
  BY DEF TypeOK, Goto

LEMMA DoneMoves ==
    ASSUME TypeOK, NEW w \in Workers, Done(w)
    PROVE  /\ req'[w] = NoReq /\ pc'[w] = "idle"
           /\ \A u \in Workers \ {w} : req'[u] = req[u] /\ pc'[u] = pc[u]
  BY GotoMoves DEF Done

(* A step that mints nothing keeps what was said of what has been minted. *)
LEMMA MintsNothing ==
    ASSUME IInv, source' = source, raced \subseteq raced'
    PROVE  ExchangedOnceUnlessRaced' /\ OneSessionPerCode'
  BY DEF IInv, ExchangedOnceUnlessRaced, OneSessionPerCode, Replacements, SessionsFrom

(* A step that touches no table and no ghost, and ends or starts nothing,  *)
(* only has to place its handler.                                          *)
LEMMA DoneKeeps ==
    ASSUME IInv, NEW w \in Workers, Done(w), UNCHANGED ghosts,
           UNCHANGED <<code, token, family>>
    PROVE  /\ \A u \in Workers : InFlight(u)'
           /\ \A u, v \in Workers : u # v => Apart(u, v)'
           /\ Spent' /\ Closed'
           /\ ExchangedOnceUnlessRaced' /\ OneSessionPerCode' /\ EndedSessionStaysEnded'
<1>1. /\ req'[w] = NoReq /\ pc'[w] = "idle"
      /\ \A u \in Workers \ {w} : req'[u] = req[u] /\ pc'[u] = pc[u]
  BY DoneMoves DEF IInv
<1>2. \A u \in Workers : InFlight(u)'
  BY <1>1 DEF IInv, InFlight, NoReq
<1>3. \A u, v \in Workers : u # v => Apart(u, v)'
  BY <1>1 DEF IInv, Apart, NoReq, ghosts
<1>4. Spent'
  BY <1>1 DEF IInv, Spent, NoReq, ghosts
<1>5. Closed'
  BY <1>1 DEF IInv, Closed, Rotating, NoReq, ghosts
<1>6. EndedSessionStaysEnded'
  BY DEF IInv, EndedSessionStaysEnded, ghosts
<1> QED
  BY <1>2, <1>3, <1>4, <1>5, <1>6, MintsNothing DEF ghosts

LEMMA NextInv ==
    ASSUME IInv, Next
    PROVE  IInv'
<1> USE DEF IInv
<1>t. TypeOK'
  BY NextTyped
<1>1. ASSUME NEW w \in Workers, NEW c \in Codes, RequestStart(w, c)
      PROVE  IInv'
  <2> DEFINE r == [NoReq EXCEPT !.op = "request", !.code = {c}, !.drop = Pending]
  <2>1. Goto(w, r, "request") /\ UNCHANGED <<tables, ghosts>> /\ UnusedCode(c)
    BY <1>1 DEF RequestStart
  <2>2. /\ req'[w] = r /\ pc'[w] = "request"
        /\ \A u \in Workers \ {w} : req'[u] = req[u] /\ pc'[u] = pc[u]
    BY <2>1, GotoMoves
  <2>3. r.code = {c} /\ r.drop = Pending /\ r.old = {} /\ r.new = {}
    BY DEF NoReq
  <2> HIDE DEF r
  <2>4. \A u \in Workers : InFlight(u)'
    BY <2>1, <2>2, <2>3 DEF InFlight, UnusedCode, Pending, tables
  <2>5. \A u, v \in Workers : u # v => Apart(u, v)'
    BY <2>1, <2>2, <2>3 DEF Apart, UnusedCode, ghosts
  <2>6. Spent'
    BY <2>1, <2>2, <2>3 DEF Spent, UnusedCode, tables, ghosts
  <2>7. Closed' /\ EndedSessionStaysEnded'
    BY <2>1, <2>2, <2>3 DEF Closed, Rotating, EndedSessionStaysEnded, tables, ghosts
  <2> QED
    BY <1>t, <2>1, <2>4, <2>5, <2>6, <2>7, MintsNothing DEF ghosts
<1>2. ASSUME NEW w \in Workers, RequestCommit(w)
      PROVE  IInv'
  <2>1. /\ req'[w] = NoReq /\ pc'[w] = "idle"
        /\ \A u \in Workers \ {w} : req'[u] = req[u] /\ pc'[u] = pc[u]
    BY <1>2, DoneMoves DEF RequestCommit
  <2>2. UNCHANGED <<token, family, ghosts>>
    BY <1>2 DEF RequestCommit
  <2>3. \A c \in Codes :
           /\ c \in req[w].code => code[c] = "absent" /\ code'[c] = "pending"
           /\ c \notin req[w].code /\ c \in req[w].drop =>
                 code[c] \in {"pending", "deleted"} /\ code'[c] = "deleted"
           /\ c \notin req[w].code \cup req[w].drop => code'[c] = code[c]
    BY <1>2 DEF RequestCommit, InFlight, TypeOK
  <2>4. \A u \in Workers \ {w} : req[u].code \cap req[w].code = {}
    BY <1>2 DEF Apart, RequestCommit
  <2>c. \A u \in Workers : req[u].code \subseteq Codes /\ req[u].drop \subseteq Codes
    BY DEF TypeOK, Req
  <2>5. ASSUME NEW u \in Workers PROVE InFlight(u)'
    <3>1. CASE u = w
      BY <2>1, <3>1 DEF InFlight, NoReq
    <3>2. CASE u # w
      <4>1. /\ req'[u] = req[u] /\ pc'[u] = pc[u] /\ token' = token
        BY <2>1, <2>2, <3>2
      <4>2. \A c \in req[u].drop : code'[c] \in {"pending", "deleted"}
        BY <2>3, <2>c DEF InFlight
      <4>3. pc[u] \in {"verify", "issue"} => \A c \in req[u].code : code'[c] # "absent"
        BY <2>3, <2>c DEF InFlight
      <4>4. pc[u] = "issue" => \A c \in req[u].code : code'[c] = "verified"
        BY <2>3, <2>c DEF InFlight
      <4>5. pc[u] = "request" => \A c \in req[u].code : code'[c] = "absent"
        BY <2>3, <2>4, <2>c, <3>2 DEF InFlight
      <4> QED
        BY <4>1, <4>2, <4>3, <4>4, <4>5 DEF InFlight
    <3> QED
      BY <3>1, <3>2
  <2>6. \A u, v \in Workers : u # v => Apart(u, v)'
    BY <2>1, <2>2 DEF Apart, NoReq, ghosts
  <2>7. Spent'
    BY <2>1, <2>2, <2>3 DEF Spent, NoReq, ghosts
  <2>8. Closed' /\ EndedSessionStaysEnded'
    BY <2>1, <2>2 DEF Closed, Rotating, EndedSessionStaysEnded, NoReq, ghosts
  <2> QED
    BY <1>t, <2>2, <2>5, <2>6, <2>7, <2>8, MintsNothing DEF ghosts
<1>3. ASSUME NEW w \in Workers, NEW c \in Codes, NEW right \in BOOLEAN,
             VerifyRead(w, c, right)
      PROVE  IInv'
  <2> DEFINE r == [NoReq EXCEPT !.op = "verify", !.code = {c}, !.right = right,
                                !.count = attempts[c] + 1]
  <2>1. /\ Goto(w, r, "verify") /\ UNCHANGED <<tables, source, guesses, ended>>
        /\ raced' = IF \E u \in Workers : c \in req[u].code
                    THEN raced \cup {c} ELSE raced
        /\ pc[w] = "idle" /\ code[c] = "pending"
    BY <1>3 DEF VerifyRead, Idle, Newest, Pending
  <2>2. /\ req'[w] = r /\ pc'[w] = "verify"
        /\ \A u \in Workers \ {w} : req'[u] = req[u] /\ pc'[u] = pc[u]
    BY <2>1, GotoMoves
  <2>3. r.code = {c} /\ r.drop = {} /\ r.old = {} /\ r.new = {}
    BY DEF NoReq
  <2> HIDE DEF r
  <2>4. \A u \in Workers : InFlight(u)'
    BY <2>1, <2>2, <2>3 DEF InFlight, tables
  <2>a. \A v \in Workers : pc[v] = "request" => c \notin req[v].code
    BY <2>1 DEF InFlight
  <2>5. \A u, v \in Workers : u # v => Apart(u, v)'
    BY <2>1, <2>2, <2>3, <2>a DEF Apart
  <2>6. Spent'
    BY <2>1, <2>2, <2>3 DEF Spent, tables
  <2>7. Closed' /\ EndedSessionStaysEnded'
    BY <2>1, <2>2, <2>3 DEF Closed, Rotating, EndedSessionStaysEnded, tables
  <2> QED
    BY <1>t, <2>1, <2>4, <2>5, <2>6, <2>7, MintsNothing
<1>4. ASSUME NEW w \in Workers, VerifyCommit(w)
      PROVE  IInv'
  <2>1. PICK c \in req[w].code :
            /\ ~Locked(c)
            /\ \/ Done(w) /\ UNCHANGED code
               \/ /\ code' = [code EXCEPT ![c] = "verified"]
                  /\ Goto(w, req[w], "issue")
    BY <1>4 DEF VerifyCommit
  <2>2. /\ UNCHANGED <<token, family, source, raced, ended>>
        /\ pc[w] = "verify" /\ c \in Codes
    BY <1>4 DEF VerifyCommit, TypeOK, Req
  <2>3. CASE Done(w) /\ UNCHANGED code
    <3>1. /\ req'[w] = NoReq /\ pc'[w] = "idle"
          /\ \A u \in Workers \ {w} : req'[u] = req[u] /\ pc'[u] = pc[u]
      BY <2>3, DoneMoves
    <3>2. \A u \in Workers : InFlight(u)'
      BY <2>2, <2>3, <3>1 DEF InFlight, NoReq
    <3>3. \A u, v \in Workers : u # v => Apart(u, v)'
      BY <2>2, <3>1 DEF Apart, NoReq
    <3>4. Spent'
      BY <2>2, <2>3, <3>1 DEF Spent, NoReq
    <3>5. Closed' /\ EndedSessionStaysEnded'
      BY <2>2, <3>1 DEF Closed, Rotating, EndedSessionStaysEnded, NoReq
    <3> QED
      BY <1>t, <2>2, <3>2, <3>3, <3>4, <3>5, MintsNothing
  <2>4. CASE code' = [code EXCEPT ![c] = "verified"] /\ Goto(w, req[w], "issue")
    <3>1. /\ req'[w] = req[w] /\ pc'[w] = "issue"
          /\ \A u \in Workers \ {w} : req'[u] = req[u] /\ pc'[u] = pc[u]
      BY <2>4, GotoMoves
    <3>2. \A u \in Workers : c \notin req[u].drop
      BY <2>1 DEF Locked
    <3>3. code'[c] = "verified" /\ \A d \in Codes \ {c} : code'[d] = code[d]
      BY <2>2, <2>4 DEF TypeOK
    <3>4. \A u \in Workers : req[u].code \subseteq Codes /\ req[u].drop \subseteq Codes
      BY DEF TypeOK, Req
    <3>5. req[w].code = {c}
      BY <2>1, <2>2 DEF InFlight
    <3>6. ASSUME NEW u \in Workers PROVE InFlight(u)'
      <4>1. \A d \in req[u].drop : code'[d] \in {"pending", "deleted"}
        BY <3>2, <3>3, <3>4 DEF InFlight
      <4>2. pc[u] = "request" => c \notin req[u].code
        BY <2>1, <2>2 DEF InFlight
      <4> QED
        BY <2>2, <3>1, <3>3, <3>4, <3>5, <4>1, <4>2 DEF InFlight
    <3>7. \A u, v \in Workers : u # v => Apart(u, v)'
      BY <2>2, <3>1 DEF Apart
    <3>8. Spent'
      BY <2>2, <3>1, <3>3 DEF Spent
    <3>9. Closed' /\ EndedSessionStaysEnded'
      BY <2>2, <3>1 DEF Closed, Rotating, EndedSessionStaysEnded
    <3> QED
      BY <1>t, <2>2, <3>6, <3>7, <3>8, <3>9, MintsNothing
  <2> QED
    BY <2>1, <2>3, <2>4
<1>5. ASSUME NEW w \in Workers, NEW t \in Tokens, IssueSession(w, t)
      PROVE  IInv'
  <2>1. PICK c \in req[w].code : source' = [source EXCEPT ![t] = FromCode(c)]
    BY <1>5 DEF IssueSession
  <2>2. /\ token' = [token EXCEPT ![t] = "live"] /\ family' = [family EXCEPT ![t] = t]
        /\ UNCHANGED <<code, raced, ended>> /\ pc[w] = "issue"
        /\ token[t] = "absent" /\ \A u \in Workers : t \notin req[u].new
    BY <1>5 DEF IssueSession, UnusedToken
  <2>3. /\ req'[w] = NoReq /\ pc'[w] = "idle"
        /\ \A u \in Workers \ {w} : req'[u] = req[u] /\ pc'[u] = pc[u]
    BY <1>5, DoneMoves DEF IssueSession
  <2>4. c \in Codes /\ code[c] = "verified"
    BY <2>2 DEF TypeOK, Req, InFlight
  <2>5. /\ token'[t] = "live" /\ family'[t] = t /\ source'[t] = FromCode(c)
        /\ \A u \in Tokens \ {t} : /\ token'[u] = token[u] /\ family'[u] = family[u]
                                   /\ source'[u] = source[u]
    BY <2>1, <2>2 DEF TypeOK
  <2>6. \A u \in Tokens : source[u] = FromCode(c) => c \in raced
    BY <2>4 DEF Spent
  <2>7. \A u \in Workers : InFlight(u)'
    BY <2>2, <2>3, <2>5 DEF InFlight, NoReq, TypeOK, Req
  <2>8. \A u, v \in Workers : u # v => Apart(u, v)'
    BY <2>2, <2>3 DEF Apart, NoReq
  <2>9. Spent'
    <3>1. \A u \in Tokens : token'[u] = "absent" => source'[u] = NoSource
      BY <2>5 DEF Spent
    <3>2. \A p, u \in Tokens : source'[u] = FromToken(p) =>
             token'[p] = "revoked" /\ \A v \in Workers : p \in req'[v].old => p \in raced'
      BY <2>2, <2>3, <2>5 DEF Spent, FromCode, FromToken, NoReq
    <3>3. \A d \in Codes, u \in Tokens : source'[u] = FromCode(d) =>
             code'[d] = "verified" /\ \A v \in Workers : d \in req'[v].code => d \in raced'
      <4>1. \A v \in Workers \ {w} : c \in req[v].code => c \in raced
        BY <2>1 DEF Apart
      <4> QED
        BY <2>2, <2>3, <2>4, <2>5, <4>1 DEF Spent, FromCode, NoReq
    <3> QED
      BY <3>1, <3>2, <3>3 DEF Spent
  <2>10. Closed'
    <3>1. \A u \in Workers : req[u].old \subseteq Tokens \ {t}
      BY <2>2 DEF InFlight, TypeOK, Req
    <3>2. \A f \in ended : ~Rotating(f)'
      BY <2>3, <2>5, <3>1 DEF Closed, Rotating, NoReq
    <3>3. \A u \in Tokens : token'[u] # "absent" => token'[family'[u]] # "absent"
      BY <2>5 DEF Closed, TypeOK
    <3> QED
      BY <2>2, <2>5, <3>2, <3>3 DEF Closed, TypeOK
  <2>11. EndedSessionStaysEnded'
    BY <2>2, <2>5 DEF EndedSessionStaysEnded, Closed
  <2>12. ExchangedOnceUnlessRaced'
    BY <2>2, <2>5 DEF ExchangedOnceUnlessRaced, Replacements, FromCode, FromToken
  <2>13. OneSessionPerCode'
    BY <2>2, <2>5, <2>6 DEF OneSessionPerCode, SessionsFrom, FromCode
  <2> QED
    BY <1>t, <2>7, <2>8, <2>9, <2>10, <2>11, <2>12, <2>13
<1>6. ASSUME NEW w \in Workers, NEW t \in Tokens, Reuse(w, t) \/ SignOut(w, t)
      PROVE  IInv'
  <2>1. /\ token' = [u \in Tokens |-> IF family[u] = family[t] /\ token[u] = "live"
                                      THEN "revoked" ELSE token[u]]
        /\ token[t] # "absent"
        /\ ended' = IF Rotating(family[t]) THEN ended ELSE ended \cup {family[t]}
        /\ UNCHANGED <<code, family, pc, req, source, raced>>
    BY <1>6 DEF Reuse, SignOut, RevokeFamily, End
  <2>2. \A u \in Tokens : /\ token'[u] = "absent" <=> token[u] = "absent"
                          /\ token[u] = "revoked" => token'[u] = "revoked"
                          /\ token'[u] = "live" => /\ token[u] = "live"
                                                  /\ family[u] # family[t]
    BY <2>1 DEF TypeOK
  <2>3. \A u \in Workers : InFlight(u)'
    BY <2>1, <2>2 DEF InFlight, TypeOK, Req
  <2>4. \A u, v \in Workers : u # v => Apart(u, v)'
    BY <2>1 DEF Apart
  <2>5. Spent'
    BY <2>1, <2>2 DEF Spent
  <2>6. Closed'
    <3>1. \A u \in Tokens : token'[u] # "absent" => token'[family'[u]] # "absent"
      BY <2>1, <2>2 DEF Closed, TypeOK
    <3>2. ASSUME NEW f \in ended' PROVE token'[f] # "absent" /\ ~Rotating(f)'
      <4>1. Rotating(f)' <=> Rotating(f)
        BY <2>1 DEF Rotating
      <4>2. CASE f \in ended
        BY <2>2, <4>1, <4>2 DEF Closed, TypeOK
      <4>3. CASE f = family[t] /\ ~Rotating(family[t])
        BY <2>1, <4>1, <4>3, <3>1
      <4> QED
        BY <2>1, <4>2, <4>3
    <3> QED
      BY <3>1, <3>2 DEF Closed
  <2>7. EndedSessionStaysEnded'
    BY <2>1, <2>2 DEF EndedSessionStaysEnded
  <2> QED
    BY <1>t, <2>1, <2>3, <2>4, <2>5, <2>6, <2>7, MintsNothing
<1>7. ASSUME NEW w \in Workers, NEW t \in Tokens, NEW new \in Tokens,
             RotateRead(w, t, new)
      PROVE  IInv'
  <2> DEFINE r == [NoReq EXCEPT !.op = "rotate", !.old = {t}, !.new = {new}]
  <2>1. /\ Goto(w, r, "rotate") /\ UNCHANGED <<tables, source, guesses, ended>>
        /\ raced' = IF \E u \in Workers : t \in req[u].old
                    THEN raced \cup {t} ELSE raced
        /\ token[t] = "live" /\ token[new] = "absent"
        /\ \A u \in Workers : new \notin req[u].new
    BY <1>7 DEF RotateRead, UnusedToken
  <2>2. /\ req'[w] = r /\ pc'[w] = "rotate"
        /\ \A u \in Workers \ {w} : req'[u] = req[u] /\ pc'[u] = pc[u]
    BY <2>1, GotoMoves
  <2>3. r.code = {} /\ r.drop = {} /\ r.old = {t} /\ r.new = {new}
    BY DEF NoReq
  <2> HIDE DEF r
  <2>4. \A u \in Workers : InFlight(u)'
    BY <2>1, <2>2, <2>3 DEF InFlight, tables
  <2>5. \A u, v \in Workers : u # v => Apart(u, v)'
    BY <2>1, <2>2, <2>3 DEF Apart
  <2>6. Spent'
    BY <2>1, <2>2, <2>3 DEF Spent, tables
  <2>7. Closed' /\ EndedSessionStaysEnded'
    BY <2>1, <2>2, <2>3 DEF Closed, Rotating, EndedSessionStaysEnded, tables
  <2> QED
    BY <1>t, <2>1, <2>4, <2>5, <2>6, <2>7, MintsNothing
<1>8. ASSUME NEW w \in Workers, RotateCommit(w)
      PROVE  IInv'
  <2>1. PICK t \in req[w].old, new \in req[w].new :
            /\ token' = [token EXCEPT ![t] = "revoked", ![new] = "live"]
            /\ family' = [family EXCEPT ![new] = family[t]]
            /\ source' = [source EXCEPT ![new] = FromToken(t)]
    BY <1>8 DEF RotateCommit
  <2>2. /\ t \in Tokens /\ new \in Tokens /\ token[t] # "absent" /\ token[new] = "absent"
        /\ UNCHANGED <<code, raced, ended>>
    BY <1>8 DEF RotateCommit, TypeOK, Req, InFlight
  <2>3. /\ req'[w] = NoReq /\ pc'[w] = "idle"
        /\ \A u \in Workers \ {w} : req'[u] = req[u] /\ pc'[u] = pc[u]
    BY <1>8, DoneMoves DEF RotateCommit
  <2>4. /\ token'[t] = "revoked" /\ token'[new] = "live" /\ family'[new] = family[t]
        /\ source'[new] = FromToken(t)
        /\ \A u \in Tokens \ {new} : /\ u # t => token'[u] = token[u]
                                     /\ family'[u] = family[u] /\ source'[u] = source[u]
    BY <2>1, <2>2 DEF TypeOK
  <2>5. \A u \in Workers \ {w} : new \notin req[u].new /\ (t \in req[u].old => t \in raced)
    BY <2>1 DEF Apart
  <2>6. \A u \in Tokens : source[u] = FromToken(t) => t \in raced
    BY <2>1, <2>2 DEF Spent
  <2>7. \A u \in Workers : InFlight(u)'
    BY <2>2, <2>3, <2>4, <2>5 DEF InFlight, NoReq, TypeOK, Req
  <2>8. \A u, v \in Workers : u # v => Apart(u, v)'
    BY <2>2, <2>3 DEF Apart, NoReq
  <2>9. Spent'
    <3>1. \A u \in Tokens : token'[u] = "absent" => source'[u] = NoSource
      BY <2>2, <2>4 DEF Spent
    <3>2. \A p, u \in Tokens : source'[u] = FromToken(p) =>
             token'[p] = "revoked" /\ \A v \in Workers : p \in req'[v].old => p \in raced'
      <4> SUFFICES ASSUME NEW p \in Tokens, NEW u \in Tokens, source'[u] = FromToken(p)
                   PROVE  token'[p] = "revoked"
                          /\ \A v \in Workers : p \in req'[v].old => p \in raced'
        OBVIOUS
      <4>1. CASE u = new
        <5>1. p = t
          BY <2>4, <4>1 DEF FromToken
        <5> QED
          BY <2>2, <2>3, <2>4, <2>5, <5>1 DEF NoReq
      <4>2. CASE u # new
        <5>1. source[u] = FromToken(p) /\ token[p] = "revoked"
          BY <2>4, <4>2 DEF Spent
        <5>2. token'[p] = "revoked"
          BY <2>2, <2>4, <5>1
        <5> QED
          BY <2>2, <2>3, <5>1, <5>2 DEF Spent, NoReq
      <4> QED
        BY <4>1, <4>2
    <3>3. \A d \in Codes, u \in Tokens : source'[u] = FromCode(d) =>
             code'[d] = "verified" /\ \A v \in Workers : d \in req'[v].code => d \in raced'
      <4>1. \A d \in Codes, u \in Tokens : source'[u] = FromCode(d) => source[u] = FromCode(d)
        BY <2>4 DEF FromCode, FromToken
      <4> QED
        BY <2>2, <2>3, <4>1 DEF Spent, NoReq
    <3> QED
      BY <3>1, <3>2, <3>3 DEF Spent
  <2>10. Closed'
    <3>1. \A u \in Workers \ {w} : req[u].old \subseteq Tokens \ {new}
      BY <2>2 DEF InFlight, TypeOK, Req
    <3>2. \A f \in ended : ~Rotating(f)'
      BY <2>3, <2>4, <3>1 DEF Closed, Rotating, NoReq
    <3>3. \A u \in Tokens : token'[u] # "absent" => token'[family'[u]] # "absent"
      BY <2>2, <2>4 DEF Closed, TypeOK
    <3>4. \A f \in ended : f \in Tokens /\ token'[f] # "absent"
      BY <2>2, <2>4 DEF Closed, TypeOK
    <3> QED
      BY <2>2, <3>2, <3>3, <3>4 DEF Closed
  <2>11. EndedSessionStaysEnded'
    <3>1. family[t] \notin ended
      BY <2>1 DEF Closed, Rotating
    <3> QED
      BY <2>2, <2>4, <3>1 DEF EndedSessionStaysEnded
  <2>12. ExchangedOnceUnlessRaced'
    <3>1. \A p, u \in Tokens : source'[u] = FromToken(p) =>
             IF u = new THEN p = t ELSE source[u] = FromToken(p)
      BY <2>4 DEF FromToken
    <3> QED
      BY <2>2, <2>6, <3>1 DEF ExchangedOnceUnlessRaced, Replacements
  <2>13. OneSessionPerCode'
    BY <2>2, <2>4 DEF OneSessionPerCode, SessionsFrom, FromCode, FromToken
  <2> QED
    BY <1>t, <2>7, <2>8, <2>9, <2>10, <2>11, <2>12, <2>13
<1>9. ASSUME UNCHANGED <<code, token, family, pc, req, ghosts>>
      PROVE  IInv'
  BY <1>t, <1>9 DEF InFlight, Apart, Spent, Closed, Rotating, ghosts,
     ExchangedOnceUnlessRaced, OneSessionPerCode, EndedSessionStaysEnded,
     Replacements, SessionsFrom
<1>10. ASSUME NEW w \in Workers, Abort(w)
       PROVE  IInv'
  BY <1>t, <1>10, DoneKeeps DEF Abort, tables
<1> QED
  BY <1>1, <1>2, <1>3, <1>4, <1>5, <1>6, <1>7, <1>8, <1>9, <1>10
     DEF Next, SignIn, Refresh, SetActive, Expire

LEMMA Inductive == Spec => []IInv
<1>1. Init => IInv
  <2> SUFFICES ASSUME Init PROVE IInv
    OBVIOUS
  <2>1. TypeOK
    BY AttemptsAssumption DEF Init, TypeOK, NoReq, Req, Sources
  <2>2. \A t \in Tokens : source[t] = NoSource /\ token[t] = "absent"
    BY DEF Init
  <2>3. /\ \A t, u \in Tokens : source[u] # FromToken(t)
        /\ \A c \in Codes, u \in Tokens : source[u] # FromCode(c)
    BY <2>2 DEF NoSource, FromToken, FromCode
  <2>a. Spent
    BY <2>2, <2>3 DEF Spent
  <2>b. ExchangedOnceUnlessRaced /\ OneSessionPerCode
    BY <2>3 DEF ExchangedOnceUnlessRaced, OneSessionPerCode, Replacements, SessionsFrom
  <2>4. Spent /\ ExchangedOnceUnlessRaced /\ OneSessionPerCode
    BY <2>a, <2>b
  <2>5. Closed /\ EndedSessionStaysEnded
    BY <2>2 DEF Init, Closed, EndedSessionStaysEnded
  <2>6. \A w \in Workers : InFlight(w)
    BY DEF Init, InFlight, NoReq
  <2>7. \A u, w \in Workers : u # w => Apart(u, w)
    BY DEF Init, Apart, NoReq
  <2> QED
    BY <2>1, <2>4, <2>5, <2>6, <2>7 DEF IInv
<1>2. IInv /\ [Next]_vars => IInv'
  <2>1. IInv /\ UNCHANGED vars => IInv'
    BY DEF vars, IInv, TypeOK, InFlight, Apart, Spent, Closed, Rotating,
       ExchangedOnceUnlessRaced, OneSessionPerCode, EndedSessionStaysEnded,
       Replacements, SessionsFrom
  <2> QED
    BY <2>1, NextInv
<1> QED
  BY <1>1, <1>2, PTL DEF Spec

(* A refresh token gets a second replacement only if two rotations had     *)
(* loaded it before either of them committed.                              *)
THEOREM TokensExchangedOnce == Spec => []ExchangedOnceUnlessRaced
  BY Inductive, PTL DEF IInv

(* A session ended by sign-out or by reuse, none of its rotations being in *)
(* flight at that moment, is never renewed.                                *)
THEOREM EndedSessionsStayEnded == Spec => []EndedSessionStaysEnded
  BY Inductive, PTL DEF IInv

(* A mailed code opens a second session only if two requests were checking *)
(* it at once.                                                             *)
THEOREM CodesOpenOneSession == Spec => []OneSessionPerCode
  BY Inductive, PTL DEF IInv

--------------------------------------------------------------------------------
(* What has been counted: a challenge nobody checked twice at once has as  *)
(* many attempts as it had answers, and a check in flight will write one   *)
(* more.                                                                   *)
Counted ==
    \A c \in Codes \ raced :
        /\ guesses[c] = attempts[c]
        /\ \A w \in Workers : pc[w] = "verify" /\ c \in req[w].code =>
              req[w].count = attempts[c] + 1

LEMMA CountedBounds ==
    ASSUME TypeOK, Counted
    PROVE  GuessesBounded
  BY AttemptsAssumption DEF TypeOK, Counted, GuessesBounded

(* Of all steps, two bear on the count: loading a challenge, and writing   *)
(* the attempt.                                                            *)
LEMMA NextCounted ==
    ASSUME IInv, Counted, [Next]_vars
    PROVE  Counted'
<1> USE DEF IInv
<1>1. ASSUME NEW w \in Workers, NEW c \in Codes, NEW right \in BOOLEAN,
             VerifyRead(w, c, right)
      PROVE  Counted'
  <2>1. /\ UNCHANGED <<attempts, guesses>>
        /\ raced' = IF \E u \in Workers : c \in req[u].code
                    THEN raced \cup {c} ELSE raced
    BY <1>1 DEF VerifyRead, tables
  <2> DEFINE r == [NoReq EXCEPT !.op = "verify", !.code = {c}, !.right = right,
                                !.count = attempts[c] + 1]
  <2>a. r.count = attempts[c] + 1 /\ r.code = {c}
    BY DEF NoReq
  <2>b. Goto(w, r, "verify")
    BY <1>1 DEF VerifyRead
  <2> HIDE DEF r
  <2>2. /\ req'[w].count = attempts[c] + 1 /\ req'[w].code = {c}
        /\ \A u \in Workers \ {w} : req'[u] = req[u] /\ pc'[u] = pc[u]
    BY <2>a, <2>b, GotoMoves
  <2> QED
    BY <2>1, <2>2 DEF Counted
<1>2. ASSUME NEW w \in Workers, VerifyCommit(w)
      PROVE  Counted'
  <2>1. PICK c \in req[w].code :
            \/ Done(w) /\ UNCHANGED <<attempts, guesses>>
            \/ /\ Answer(c) /\ attempts' = [attempts EXCEPT ![c] = req[w].count]
               /\ Goto(w, req[w], "issue") \/ Done(w)
    BY <1>2 DEF VerifyCommit
  <2>2. c \in Codes /\ raced' = raced /\ pc[w] = "verify"
    BY <1>2 DEF VerifyCommit, TypeOK, Req
  <2>3. CASE Done(w) /\ UNCHANGED <<attempts, guesses>>
    BY <2>2, <2>3, DoneMoves DEF Counted
  <2>4. CASE /\ Answer(c) /\ attempts' = [attempts EXCEPT ![c] = req[w].count]
             /\ Goto(w, req[w], "issue") \/ Done(w)
    <3>1. /\ pc'[w] # "verify"
          /\ \A u \in Workers \ {w} : req'[u] = req[u] /\ pc'[u] = pc[u]
      BY <2>4, GotoMoves, DoneMoves
    <3>2. \A d \in Codes \ {c} : attempts'[d] = attempts[d] /\ guesses'[d] = guesses[d]
      BY <2>2, <2>4 DEF Answer, TypeOK
    <3>3. c \notin raced => attempts'[c] = guesses'[c]
      BY <2>2, <2>4, AttemptsAssumption DEF Answer, Counted, TypeOK
    <3>4. c \notin raced => \A u \in Workers \ {w} : c \notin req[u].code
      BY <2>1 DEF Apart
    <3> QED
      BY <2>2, <3>1, <3>2, <3>3, <3>4 DEF Counted
  <2> QED
    BY <2>1, <2>3, <2>4
<1>3. ASSUME NEW w \in Workers, NEW r, NEW step, step # "verify", Goto(w, r, step),
             UNCHANGED <<attempts, guesses>>, raced \subseteq raced'
      PROVE  Counted'
  BY <1>3, GotoMoves DEF Counted
<1>4. ASSUME NEW w \in Workers, NEW c \in Codes, RequestStart(w, c)
      PROVE  Counted'
  BY <1>3, <1>4 DEF RequestStart, tables, ghosts
<1>5. ASSUME NEW w \in Workers, RequestCommit(w)
      PROVE  Counted'
  BY <1>3, <1>5 DEF RequestCommit, Done, ghosts
<1>6. ASSUME NEW w \in Workers, NEW t \in Tokens, IssueSession(w, t)
      PROVE  Counted'
  BY <1>3, <1>6 DEF IssueSession, Done
<1>7. ASSUME NEW w \in Workers, NEW t \in Tokens, NEW new \in Tokens, RotateRead(w, t, new)
      PROVE  Counted'
  BY <1>3, <1>7 DEF RotateRead, tables
<1>8. ASSUME NEW w \in Workers, RotateCommit(w)
      PROVE  Counted'
  BY <1>3, <1>8 DEF RotateCommit, Done
<1>9. ASSUME NEW w \in Workers, Abort(w)
      PROVE  Counted'
  BY <1>3, <1>9 DEF Abort, Done, tables, ghosts
<1>10. ASSUME UNCHANGED <<attempts, guesses, raced, pc, req>>
       PROVE  Counted'
  BY <1>10 DEF Counted
<1> QED
  BY <1>1, <1>2, <1>4, <1>5, <1>6, <1>7, <1>8, <1>9, <1>10
     DEF Next, SignIn, Refresh, Reuse, SignOut, SetActive, Expire, vars, ghosts

(* A mailed code is compared with at most MAX_OTP_ATTEMPTS answers, unless *)
(* two requests were checking it at once.                                  *)
THEOREM GuessesAreBounded == Spec => []GuessesBounded
<1>1. Init => Counted
  BY DEF Init, Counted, NoReq
<1>2. IInv /\ Counted /\ [Next]_vars => Counted'
  BY NextCounted
<1>3. IInv /\ Counted => GuessesBounded
  BY CountedBounds DEF IInv
<1> QED
  BY <1>1, <1>2, <1>3, Inductive, PTL DEF Spec

=============================================================================
