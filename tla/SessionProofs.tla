--------------------------- MODULE SessionProofs ---------------------------
(***************************************************************************)
(* Proofs about Session, for any number of requests and token pairs and    *)
(* any lifetimes.  The invariant AccessInv follows a request's token       *)
(* through the chain of middleware and a validation through its two        *)
(* statements.                                                             *)
(***************************************************************************)
EXTENDS Session, TLAPS

\* What a request carries at each of its calls.  A logout has computed a ttl
\* that reaches the token's expiry; a request with a logged-out token is
\* past the blacklist only if it is excused; past RequireRole the token is
\* an access token; a validation that came after a revocation goes nowhere.
AccessFits(rq) ==
    /\ rq.served => rq.at = "handle"
    /\ rq.at = "exists" => rq.token \in Tokens /\ (rq.late => rq.token \in seen.loggedOut)
    /\ rq.at \in {"limit", "handle"} =>
            rq.token \in Tokens /\ rq.token[2] = "access" /\ (rq.late => rq.excused)
    /\ rq.at = "set" => /\ rq.token \in Tokens /\ issued[rq.token[1]] # Never
                        /\ ExpiresAt(rq.token) <= now + rq.ttl
    /\ rq.at = "mfa" => rq.copy \in User
    /\ rq.at \in {"select", "touch"} => rq.op = "Validate"
    /\ rq.op = "Validate" => rq.at \in {"select", "touch", "done"}
    /\ rq.op = "Validate" /\ rq.late => seen.revoked /\ rq.at # "touch" /\ rq.answer # "ok"

\* The blacklist remembers a token at least until it expires.
Remembered == \A t \in seen.loggedOut : issued[t[1]] # Never /\ ExpiresAt(t) <= blacklist[t]

AccessInv ==
    /\ TypeOK
    /\ Remembered
    /\ seen.revoked => ~ apikey.is_active
    /\ \A r \in Requests : AccessFits(req[r])

-----------------------------------------------------------------------------
(* Tokens and requests *)

\* A token is the access or the refresh token of a pair.
LEMMA TokenFacts ==
    \A t \in Tokens : t[1] \in Pairs /\ t[2] \in {"access", "refresh"} /\ Life(t) \in Nat
  BY SessionAssumption DEF Tokens, Life

\* A token that was handed out has an expiry.
LEMMA ExpiryFacts ==
    ASSUME TypeOK, NEW t \in Tokens, issued[t[1]] # Never
    PROVE  issued[t[1]] \in Nat /\ ExpiresAt(t) \in Nat
<1>1. issued[t[1]] \in Time
  BY TokenFacts DEF TypeOK
<1> QED
  BY <1>1, TokenFacts, SessionAssumption DEF Time, ExpiresAt

\* The requests the model builds are requests.
LEMMA RequestFacts ==
    /\ \A op \in Calls \cup {"Logout", "VerifyMFA", "Validate", "none"},
          at \in Busy \cup {"idle", "done"}, t \in Tokens \cup {NoToken} :
            NewRequest(op, at, t) \in Request
    /\ \A rq \in Request, answer \in {"none", "ok", "denied", "limited", "error"} :
            Answered(rq, answer) \in Request
    /\ \A answer \in {"none", "ok", "denied", "limited", "error"} :
            Responded(answer) \in Request
<1>1. ASSUME NEW op \in Calls \cup {"Logout", "VerifyMFA", "Validate", "none"},
             NEW at \in Busy \cup {"idle", "done"}, NEW t \in Tokens \cup {NoToken}
      PROVE  NewRequest(op, at, t) \in Request
  BY DEF NewRequest, Request
<1>2. NewRequest("none", "idle", NoToken) \in Request /\ NewRequest("none", "audit", NoToken) \in Request
  BY <1>1 DEF Busy
<1>3. ASSUME NEW rq \in Request, NEW answer \in {"none", "ok", "denied", "limited", "error"}
      PROVE  Answered(rq, answer) \in Request
  <2>1. [rq EXCEPT !.at = "done", !.answer = answer] \in Request
    BY DEF Request
  <2> QED
    BY <1>2, <2>1 DEF Answered
<1>4. ASSUME NEW answer \in {"none", "ok", "denied", "limited", "error"}
      PROVE  Responded(answer) \in Request
  BY <1>2 DEF Responded, Request
<1> QED
  BY <1>1, <1>3, <1>4

\* An answered or responded request fits, unless it is a late validation
\* answered "ok".
LEMMA AnsweredFits ==
    /\ \A rq \in Request, answer \in {"none", "ok", "denied", "limited", "error"} :
            AccessFits(rq) /\ (rq.op = "Validate" /\ rq.late => answer # "ok")
                => AccessFits(Answered(rq, answer))
    /\ \A answer \in {"none", "ok", "denied", "limited", "error"} :
            AccessFits(Responded(answer))
<1>1. AccessFits(NewRequest("none", "idle", NoToken))
  BY DEF AccessFits, NewRequest
<1>2. ASSUME NEW rq \in Request, NEW answer \in {"none", "ok", "denied", "limited", "error"},
             AccessFits(rq), rq.op = "Validate" /\ rq.late => answer # "ok"
      PROVE  AccessFits(Answered(rq, answer))
  BY <1>1, <1>2 DEF AccessFits, Answered, Request
<1>3. ASSUME NEW answer \in {"none", "ok", "denied", "limited", "error"}
      PROVE  AccessFits(Responded(answer))
  BY DEF AccessFits, Responded, NewRequest
<1> QED
  BY <1>2, <1>3

\* Issue gives a time to a pair that had none.
LEMMA IssueStep ==
    ASSUME TypeOK, Issue \/ UNCHANGED issued
    PROVE  /\ issued' \in [Pairs -> Time \cup {Never}]
           /\ \A p \in Pairs : issued[p] # Never => issued'[p] = issued[p]
  BY DEF TypeOK, Issue

-----------------------------------------------------------------------------
(* Tokens, the blacklist and the API key *)

\* Time, tokens, logouts and revocations only go forward.
Forward ==
    /\ now \in Nat /\ now' \in Nat /\ now <= now'
    /\ \A p \in Pairs : issued[p] # Never => issued'[p] = issued[p]
    /\ seen.loggedOut \subseteq seen'.loggedOut
    /\ seen.revoked => seen'.revoked

\* What fitted the state before a step that only goes forward fits the state
\* after it.
LEMMA AccessStep ==
    ASSUME AccessInv, TypeOK', Forward, Remembered', (seen.revoked => ~ apikey.is_active)',
           \A r \in Requests : AccessFits(req'[r])
    PROVE  AccessInv'
<1>1. ASSUME NEW r \in Requests PROVE AccessFits(req[r])'
  <2>1. req'[r] \in Request /\ AccessFits(req'[r])
    BY DEF TypeOK
  <2>2. req'[r].at = "set" => ExpiresAt(req[r].token)' <= now' + req'[r].ttl
    <3> SUFFICES ASSUME req'[r].at = "set"
                 PROVE  ExpiresAt(req[r].token)' <= now' + req'[r].ttl
      OBVIOUS
    <3> DEFINE t == req'[r].token
    <3>1. t \in Tokens /\ issued[t[1]] # Never /\ ExpiresAt(t) <= now + req'[r].ttl
      BY <2>1 DEF AccessFits
    <3>2. ExpiresAt(t) \in Nat /\ issued'[t[1]] = issued[t[1]]
      BY <3>1, ExpiryFacts, TokenFacts DEF AccessInv, Forward
    <3>3. issued'[t[1]] + Life(t) <= now' + req'[r].ttl
      <4>1. req'[r].ttl \in Int
        BY <2>1 DEF Request
      <4>2. ExpiresAt(t) = issued'[t[1]] + Life(t)
        BY <3>2 DEF ExpiresAt
      <4> QED
        BY <3>1, <3>2, <4>1, <4>2 DEF Forward
    <3> QED
      BY <3>3 DEF ExpiresAt, Life
  <2> QED
    BY <2>1, <2>2, TokenFacts DEF AccessFits, Forward
<1> QED
  BY <1>1 DEF AccessInv

Seen == [loggedOut : SUBSET Tokens, revoked : BOOLEAN]

\* The clock, and the history variable, are what they are typed as.
LEMMA StateFacts ==
    ASSUME TypeOK
    PROVE  /\ now \in Nat /\ Time \subseteq Nat /\ now \in Time
           /\ seen \in Seen /\ seen.loggedOut \subseteq Tokens
  BY SessionAssumption DEF TypeOK, Time, Seen

\* A step of one request that touches no token, no entry and no key.
LEMMA RequestMoves ==
    ASSUME AccessInv, NEW r \in Requests, UNCHANGED <<now, user, apikey, issued, blacklist, seen>>,
           \E rq \in Request : AccessFits(rq) /\ req' = [req EXCEPT ![r] = rq]
    PROVE  AccessInv'
<1>1. PICK rq \in Request : AccessFits(rq) /\ req' = [req EXCEPT ![r] = rq]
  OBVIOUS
<1>2. req' \in [Requests -> Request] /\ \A q \in Requests : AccessFits(req'[q])
  BY <1>1 DEF AccessInv, TypeOK
<1>3. TypeOK'
  BY <1>2 DEF AccessInv, TypeOK
<1>4. Forward
  BY StateFacts DEF AccessInv, Forward
<1>5. Remembered' /\ (seen.revoked => ~ apikey.is_active)'
  BY DEF AccessInv, Remembered, ExpiresAt, Life
<1> QED
  BY <1>2, <1>3, <1>4, <1>5, AccessStep

\* The first step of each operation.
LEMMA BeginSteps ==
    ASSUME AccessInv, NEW r \in Requests,
           \/ \E t \in Tokens : Logout(r, t) \/ \E op \in Calls : Call(r, t, op)
           \/ VerifyMFA(r) \/ Validate(r)
    PROVE  AccessInv'
<1> USE StateFacts DEF AccessInv
<1>1. ASSUME NEW rq \in Request, AccessFits(rq), Begin(r, rq) PROVE AccessInv'
  BY <1>1, RequestMoves DEF Begin, tables
<1>2. ASSUME NEW t \in Tokens, Logout(r, t) PROVE AccessInv'
  <2> DEFINE rq == [NewRequest("Logout", "set", t) EXCEPT !.ttl = ExpiresAt(t) - now]
  <2>1. issued[t[1]] # Never /\ ExpiresAt(t) \in Nat
    BY <1>2, ExpiryFacts DEF Logout, Valid
  <2>2. NewRequest("Logout", "set", t) \in Request
    BY RequestFacts DEF Busy
  <2>3. rq \in Request
    BY <2>1, <2>2 DEF Request
  <2>4. AccessFits(rq)
    BY <2>1 DEF AccessFits, NewRequest
  <2> QED
    BY <1>1, <1>2, <2>3, <2>4 DEF Logout
<1>3. ASSUME NEW t \in Tokens, NEW op \in Calls, Call(r, t, op) PROVE AccessInv'
  <2> DEFINE late == t \in seen.loggedOut
             rq == [NewRequest(op, "exists", t) EXCEPT !.late = late]
  <2>1. NewRequest(op, "exists", t) \in Request /\ late \in BOOLEAN
    BY RequestFacts DEF Busy
  <2>2. rq \in Request
    <3> HIDE DEF late
    <3> QED
      BY <2>1 DEF Request
  <2>3. AccessFits(rq)
    BY DEF AccessFits, NewRequest, Calls
  <2> QED
    BY <1>1, <1>3, <2>2, <2>3 DEF Call
<1>4. ASSUME VerifyMFA(r) PROVE AccessInv'
  <2> DEFINE rq == [NewRequest("VerifyMFA", "mfa", NoToken) EXCEPT !.copy = user]
  <2>1. NewRequest("VerifyMFA", "mfa", NoToken) \in Request /\ user \in User
    BY <1>4, RequestFacts DEF Busy, VerifyMFA, TypeOK
  <2>2. rq \in Request
    BY <2>1 DEF Request
  <2>3. AccessFits(rq)
    BY <2>1 DEF AccessFits, NewRequest
  <2> QED
    BY <1>1, <1>4, <2>2, <2>3 DEF VerifyMFA
<1>5. ASSUME Validate(r) PROVE AccessInv'
  <2> DEFINE rq == [NewRequest("Validate", "select", NoToken) EXCEPT !.late = seen.revoked]
  <2>1. NewRequest("Validate", "select", NoToken) \in Request /\ seen.revoked \in BOOLEAN
    BY RequestFacts DEF Busy, Seen
  <2>2. rq \in Request
    BY <2>1 DEF Request
  <2>3. AccessFits(rq)
    BY DEF AccessFits, NewRequest
  <2> QED
    BY <1>1, <1>5, <2>2, <2>3 DEF Validate
<1> QED
  BY <1>2, <1>3, <1>4, <1>5

\* SET: the entry lasts as long as the token, however late it is written.
LEMMA SetBlacklistStep ==
    ASSUME AccessInv, NEW r \in Requests, SetBlacklist(r)
    PROVE  AccessInv'
<1> USE StateFacts DEF AccessInv
<1> DEFINE t == req[r].token
<1>1. /\ req[r] \in Request /\ AccessFits(req[r]) /\ req[r].at = "set"
      /\ t \in Tokens /\ issued[t[1]] # Never /\ ExpiresAt(t) <= now + req[r].ttl
      /\ req[r].ttl \in Int
  BY DEF SetBlacklist, TypeOK, AccessFits, Request
<1>2. now + req[r].ttl \in Nat
  BY <1>1, ExpiryFacts
<1>3. /\ Answered(req[r], "ok") \in Request /\ AccessFits(Answered(req[r], "ok"))
      /\ req' = [req EXCEPT ![r] = Answered(req[r], "ok")]
      /\ UNCHANGED <<now, user, apikey, issued>>
  BY <1>1, RequestFacts, AnsweredFits DEF SetBlacklist, Answer, tables, AccessFits
<1>4. CASE UNCHANGED <<blacklist, seen>>
  BY <1>3, <1>4, RequestMoves
<1>5. CASE /\ blacklist' = [blacklist EXCEPT ![t] = now + req[r].ttl]
           /\ seen' = [seen EXCEPT !.loggedOut = @ \cup {t}]
  <2>1. /\ seen' \in Seen /\ seen'.loggedOut = seen.loggedOut \cup {t}
        /\ seen'.revoked = seen.revoked
    BY <1>1, <1>5 DEF Seen
  <2>2. blacklist \in [Tokens -> Nat]
    BY DEF TypeOK
  <2>3. blacklist' \in [Tokens -> Nat]
    BY <1>1, <1>2, <1>5, <2>2
  <2>4. req' \in [Requests -> Request] /\ \A q \in Requests : AccessFits(req'[q])
    BY <1>3 DEF TypeOK
  <2>5. TypeOK'
    BY <1>3, <2>1, <2>3, <2>4 DEF TypeOK, Seen
  <2>6. Forward
    BY <1>3, <2>1 DEF Forward
  <2>7. Remembered'
    <3> SUFFICES ASSUME NEW s \in seen'.loggedOut
                 PROVE  issued[s[1]] # Never /\ ExpiresAt(s) <= blacklist'[s]
      BY <1>3 DEF Remembered, ExpiresAt, Life
    <3>1. CASE s = t
      <4>1. blacklist'[t] = now + req[r].ttl
        BY <1>1, <1>5, <2>2
      <4> QED
        BY <1>1, <3>1, <4>1
    <3>2. CASE s # t
      <4>1. s \in seen.loggedOut /\ blacklist'[s] = blacklist[s]
        BY <1>5, <2>1, <2>2, <3>2
      <4> QED
        BY <4>1 DEF Remembered
    <3> QED
      BY <3>1, <3>2
  <2> QED
    BY <1>3, <2>1, <2>4, <2>5, <2>6, <2>7, AccessStep
<1> QED
  BY <1>4, <1>5 DEF SetBlacklist

\* EXISTS and RequireRole: an entry that is no longer there is one whose
\* token has expired, and only access tokens have a role.
LEMMA CheckBlacklistStep ==
    ASSUME AccessInv, NEW r \in Requests, CheckBlacklist(r)
    PROVE  AccessInv'
<1> USE StateFacts DEF AccessInv
<1>1. /\ req[r] \in Request /\ AccessFits(req[r]) /\ req[r].at = "exists"
      /\ req[r].token \in Tokens /\ ~ req[r].served /\ req[r].op # "Validate"
      /\ req[r].late => req[r].token \in seen.loggedOut
  BY DEF CheckBlacklist, TypeOK, AccessFits
<1>2. ASSUME NEW answer \in {"denied"}, Answer(r, answer) PROVE AccessInv'
  <2>1. Answered(req[r], "denied") \in Request /\ AccessFits(Answered(req[r], "denied"))
    BY <1>1, RequestFacts, AnsweredFits
  <2> QED
    BY <1>2, <2>1, RequestMoves DEF CheckBlacklist, Answer, tables
<1>3. ASSUME NEW excused \in BOOLEAN, Listed(r) \/ ~ Valid(req[r].token) => excused,
             req' = [req EXCEPT ![r] = Admitted([@ EXCEPT !.excused = excused])]
      PROVE  AccessInv'
  <2> DEFINE rq == [req[r] EXCEPT !.excused = excused]
  <2>1. req[r].late => excused
    <3> SUFFICES ASSUME req[r].late, ~ Listed(r) PROVE ~ Valid(req[r].token)
      BY <1>3
    <3>1. /\ issued[req[r].token[1]] # Never /\ ExpiresAt(req[r].token) <= blacklist[req[r].token]
          /\ ExpiresAt(req[r].token) \in Nat /\ blacklist[req[r].token] \in Nat
      BY <1>1, ExpiryFacts DEF Remembered, TypeOK
    <3> QED
      BY <3>1 DEF Listed, Valid
  <2>2. /\ rq \in Request /\ rq.excused = excused /\ rq.at = "exists" /\ rq.late = req[r].late
        /\ rq.token = req[r].token /\ ~ rq.served /\ rq.op = req[r].op
    BY <1>1 DEF Request
  <2> HIDE DEF rq
  <2>3. AccessFits(rq)
    BY <1>1, <2>2 DEF AccessFits
  <2>4. Admitted(rq) \in Request /\ AccessFits(Admitted(rq))
    <3>1. CASE Role(rq.token) # ""
      <4>1. rq.token[2] = "access"
        BY <3>1 DEF Role
      <4>2. [rq EXCEPT !.at = "limit"] \in Request
        BY <2>2 DEF Request, Busy
      <4>3. AccessFits([rq EXCEPT !.at = "limit"])
        BY <1>1, <2>1, <2>2, <4>1 DEF AccessFits, Request
      <4> QED
        BY <3>1, <4>2, <4>3 DEF Admitted
    <3>2. CASE Role(rq.token) = ""
      BY <1>1, <2>2, <2>3, <3>2, RequestFacts, AnsweredFits DEF Admitted
    <3> QED
      BY <3>1, <3>2
  <2>5. req' = [req EXCEPT ![r] = Admitted(rq)]
    BY <1>3 DEF rq
  <2> QED
    BY <2>4, <2>5, RequestMoves DEF CheckBlacklist, tables
<1> QED
  BY <1>2, <1>3 DEF CheckBlacklist

\* A request the limiter lets through keeps its token, one it turns away has
\* none any more.
LEMMA LimitStep ==
    ASSUME AccessInv, NEW r \in Requests, Limit(r)
    PROVE  AccessInv'
<1> DEFINE rq == [req[r] EXCEPT !.at = "handle", !.served = TRUE]
<1>0. req[r] \in Request /\ AccessFits(req[r]) /\ req[r].at = "limit"
  BY DEF AccessInv, TypeOK, Limit
<1>1. rq \in Request /\ AccessFits(rq)
  <2>1. rq \in Request
    BY <1>0 DEF Request, Busy
  <2>2. AccessFits(rq)
    BY <1>0 DEF AccessFits, Request
  <2> QED
    BY <2>1, <2>2
<1>2. Responded("limited") \in Request /\ AccessFits(Responded("limited"))
  BY RequestFacts, AnsweredFits
<1>3. req' = [req EXCEPT ![r] = rq] \/ req' = [req EXCEPT ![r] = Responded("limited")]
  BY DEF Limit
<1> HIDE DEF rq
<1> QED
  BY <1>1, <1>2, <1>3, RequestMoves DEF Limit, tables

\* The handler, and the audit after it.  A revocation that is carried out
\* switches the key off.
LEMMA HandleStep ==
    ASSUME AccessInv, NEW r \in Requests, Handle(r) \/ Audit(r)
    PROVE  AccessInv'
<1> USE StateFacts DEF AccessInv
<1>0. req[r] \in Request /\ AccessFits(req[r])
  BY DEF TypeOK
<1>1. PICK rq \in Request : AccessFits(rq) /\ req' = [req EXCEPT ![r] = rq]
  <2>1. CASE Handle(r)
    <3>1. PICK answer \in {"ok", "error"} : Respond(r, answer)
      BY <2>1 DEF Handle
    <3>2. Responded(answer) \in Request /\ AccessFits(Responded(answer))
      BY RequestFacts, AnsweredFits
    <3> QED
      BY <3>1, <3>2 DEF Respond
  <2>2. CASE Audit(r)
    <3>1. req[r].answer \in {"none", "ok", "denied", "limited", "error"} /\ req[r].op # "Validate"
      BY <1>0, <2>2 DEF Audit, Request, AccessFits
    <3>2. /\ Answered(req[r], req[r].answer) \in Request
          /\ AccessFits(Answered(req[r], req[r].answer))
      BY <1>0, <3>1, RequestFacts, AnsweredFits
    <3> QED
      BY <2>2, <3>2 DEF Audit, Answer
  <2> QED
    BY <2>1, <2>2
<1>2. UNCHANGED <<now, user, issued, blacklist>>
  BY DEF Handle, Audit, tables
<1>3. CASE UNCHANGED <<apikey, seen>>
  BY <1>1, <1>2, <1>3, RequestMoves
<1>4. CASE /\ apikey' \in {apikey, [apikey EXCEPT !.is_active = FALSE]}
           /\ \/ seen' = seen
              \/ seen' = [seen EXCEPT !.revoked = TRUE] /\ apikey' = [apikey EXCEPT !.is_active = FALSE]
  <2>1. apikey \in ApiKey
    BY DEF TypeOK
  <2>2. apikey' \in ApiKey /\ (apikey'.is_active => apikey.is_active)
    BY <1>4, <2>1 DEF ApiKey
  <2>3. /\ seen' \in Seen /\ seen'.loggedOut = seen.loggedOut
        /\ seen.revoked => seen'.revoked
        /\ seen'.revoked => seen.revoked \/ ~ apikey'.is_active
    BY <1>4, <2>1 DEF Seen, ApiKey
  <2>4. req' \in [Requests -> Request] /\ \A q \in Requests : AccessFits(req'[q])
    BY <1>1 DEF TypeOK
  <2>5. TypeOK'
    BY <1>2, <2>2, <2>3, <2>4 DEF TypeOK, Seen
  <2>6. Forward
    BY <1>2, <2>3 DEF Forward
  <2>7. Remembered' /\ (seen.revoked => ~ apikey.is_active)'
    BY <1>2, <2>2, <2>3 DEF Remembered, ExpiresAt, Life
  <2> QED
    BY <2>4, <2>5, <2>6, <2>7, AccessStep
<1> QED
  BY <1>3, <1>4 DEF Handle, Audit, tables

\* The two statements of a validation: a late one finds the key switched off.
LEMMA ValidateSteps ==
    ASSUME AccessInv, NEW r \in Requests, SelectKey(r) \/ Touch(r)
    PROVE  AccessInv'
<1> USE StateFacts DEF AccessInv
<1>0. /\ req[r] \in Request /\ AccessFits(req[r])
      /\ UNCHANGED <<now, user, apikey, issued, blacklist, seen>>
  BY DEF TypeOK, SelectKey, Touch, Touched, tables
<1>1. ASSUME NEW answer \in {"ok", "denied", "error"}, Answer(r, answer),
             req[r].op = "Validate" /\ req[r].late => answer # "ok"
      PROVE  AccessInv'
  <2>1. Answered(req[r], answer) \in Request /\ AccessFits(Answered(req[r], answer))
    BY <1>0, <1>1, RequestFacts, AnsweredFits
  <2> QED
    BY <1>0, <1>1, <2>1, RequestMoves DEF Answer
<1>2. CASE Touch(r)
  <2>1. ~ req[r].late
    BY <1>0, <1>2 DEF Touch, AccessFits
  <2> QED
    BY <1>1, <1>2, <2>1 DEF Touch
<1>3. ASSUME SelectKey(r), Usable, req' = [req EXCEPT ![r].at = "touch"] PROVE AccessInv'
  <2>1. req[r].at = "select" /\ req[r].op = "Validate" /\ ~ req[r].late
    BY <1>0, <1>3 DEF SelectKey, AccessFits, Usable
  <2>2. [req[r] EXCEPT !.at = "touch"] \in Request
    BY <1>0 DEF Request, Busy
  <2>3. AccessFits([req[r] EXCEPT !.at = "touch"])
    BY <1>0, <2>1 DEF Request, AccessFits
  <2>4. req' = [req EXCEPT ![r] = [req[r] EXCEPT !.at = "touch"]]
    BY <1>3
  <2> QED
    BY <1>0, <2>2, <2>3, <2>4, RequestMoves
<1> QED
  BY <1>1, <1>2, <1>3 DEF SelectKey

\* Steps that hand out a pair, and perhaps write the user's row.
LEMMA IssuingSteps ==
    ASSUME AccessInv,
           \/ Register \/ Login \/ \E t \in Tokens : Refresh(t)
           \/ \E r \in Requests : StoreMFA(r)
    PROVE  AccessInv'
<1> USE StateFacts DEF AccessInv
<1>0. UNCHANGED <<now, apikey, blacklist, seen>>
  BY DEF Register, Login, Refresh, StoreMFA, tables
<1>1. /\ issued' \in [Pairs -> Time \cup {Never}]
      /\ \A p \in Pairs : issued[p] # Never => issued'[p] = issued[p]
  BY IssueStep DEF Register, Login, Refresh, StoreMFA
<1>2. /\ user' \in User \cup {NoUser}
      /\ req' \in [Requests -> Request] /\ \A q \in Requests : AccessFits(req'[q])
  <2>1. CASE Register
    BY <2>1 DEF Register, User, TypeOK
  <2>2. CASE Login \/ \E t \in Tokens : Refresh(t)
    BY <2>2 DEF Login, Refresh, tables, TypeOK
  <2>3. ASSUME NEW r \in Requests, StoreMFA(r)
        PROVE  /\ user' \in User \cup {NoUser}
               /\ req' \in [Requests -> Request] /\ \A q \in Requests : AccessFits(req'[q])
    <3>1. req[r] \in Request /\ AccessFits(req[r]) /\ req[r].copy \in User /\ req[r].op # "Validate"
      BY <2>3 DEF StoreMFA, AccessFits, TypeOK
    <3>2. Answered(req[r], "ok") \in Request /\ AccessFits(Answered(req[r], "ok"))
      BY <3>1, RequestFacts, AnsweredFits
    <3>3. [req[r].copy EXCEPT !.mfa_enabled = TRUE] \in User
      BY <3>1 DEF User
    <3> QED
      BY <2>3, <3>2, <3>3 DEF StoreMFA, Answer, TypeOK
  <2> QED
    BY <2>1, <2>2, <2>3
<1>3. TypeOK'
  BY <1>0, <1>1, <1>2 DEF TypeOK
<1>4. Forward
  BY <1>0, <1>1 DEF Forward
<1>5. Remembered'
  <2> SUFFICES ASSUME NEW t \in seen.loggedOut
               PROVE  issued'[t[1]] # Never /\ issued'[t[1]] + Life(t) <= blacklist[t]
    BY <1>0 DEF Remembered, ExpiresAt, Life
  <2>1. t[1] \in Pairs /\ issued[t[1]] # Never /\ ExpiresAt(t) <= blacklist[t]
    BY TokenFacts DEF Remembered
  <2> QED
    BY <1>1, <2>1 DEF ExpiresAt
<1> QED
  BY <1>0, <1>2, <1>3, <1>4, <1>5, AccessStep

\* The clock and a restart.
LEMMA TickCrashStep ==
    ASSUME AccessInv, Tick \/ Crash
    PROVE  AccessInv'
<1> USE StateFacts DEF AccessInv
<1>0. UNCHANGED <<user, apikey, issued, blacklist>>
  BY DEF Tick, Crash, tables
<1>1. now' \in Time /\ now <= now' /\ seen' = seen
  <2>1. now < MaxTime => now + 1 \in Time /\ now <= now + 1
    BY SessionAssumption DEF Time
  <2> QED
    BY <2>1 DEF Tick, Crash
<1>2. /\ req' \in [Requests -> Request] /\ \A q \in Requests : AccessFits(req'[q])
  <2>1. CASE Tick
    BY <2>1 DEF Tick, TypeOK
  <2>2. CASE Crash
    <3>1. ASSUME NEW q \in Requests PROVE req'[q] \in Request /\ AccessFits(req'[q])
      BY <2>2, RequestFacts, AnsweredFits DEF Crash, TypeOK
    <3> QED
      BY <2>2, <3>1 DEF Crash
  <2> QED
    BY <2>1, <2>2
<1>3. TypeOK'
  BY <1>0, <1>1, <1>2 DEF TypeOK
<1>4. Forward
  BY <1>0, <1>1 DEF Forward
<1>5. Remembered' /\ (seen.revoked => ~ apikey.is_active)'
  BY <1>0, <1>1 DEF Remembered, ExpiresAt, Life
<1> QED
  BY <1>2, <1>3, <1>4, <1>5, AccessStep

\* The initial states: no token, no request.
LEMMA InitAccess == Init => AccessInv
<1> SUFFICES ASSUME Init PROVE AccessInv
  OBVIOUS
<1>1. 0 \in Time
  BY SessionAssumption DEF Time
<1>2. NewRequest("none", "idle", NoToken) \in Request /\ AccessFits(NewRequest("none", "idle", NoToken))
  <2>1. NewRequest("none", "idle", NoToken) \in Request
    BY RequestFacts
  <2>2. AccessFits(NewRequest("none", "idle", NoToken))
    BY DEF AccessFits, NewRequest
  <2> QED
    BY <2>1, <2>2
<1>3. TypeOK
  <2>1. user \in User \cup {NoUser}
    <3>1. \A a \in BOOLEAN : [is_active |-> a, mfa_enabled |-> FALSE, mfa_secret |-> a] \in User
      BY DEF User
    <3> QED
      BY <3>1 DEF Init
  <2>2. apikey \in ApiKey
    BY <1>1 DEF Init, ApiKey
  <2>3. /\ now \in Time /\ issued \in [Pairs -> Time \cup {Never}] /\ blacklist \in [Tokens -> Nat]
        /\ req \in [Requests -> Request]
    BY <1>1, <1>2 DEF Init
  <2>4. seen \in [loggedOut : SUBSET Tokens, revoked : BOOLEAN]
    BY DEF Init
  <2> QED
    BY <2>1, <2>2, <2>3, <2>4 DEF TypeOK
<1> QED
  BY <1>2, <1>3 DEF Init, AccessInv, Remembered

\* Every step keeps the invariant.
LEMMA NextAccess == AccessInv /\ [Next]_vars => AccessInv'
<1> SUFFICES ASSUME AccessInv, [Next]_vars PROVE AccessInv'
  OBVIOUS
<1>1. CASE UNCHANGED vars
  BY <1>1 DEF vars, AccessInv, TypeOK, AccessFits, Remembered, ExpiresAt, Life
<1> QED
  BY <1>1, BeginSteps, SetBlacklistStep, CheckBlacklistStep, LimitStep, HandleStep,
     ValidateSteps, IssuingSteps, TickCrashStep
     DEF Next, RequestStep

\* Tokens, blacklist, key and requests always fit together.
THEOREM AccessInvariance == Spec => []AccessInv
  BY InitAccess, NextAccess, PTL DEF Spec

\* TypeOK holds in every reachable state: the ttl of a logout is never such
\* that an entry's end would not be a time.
THEOREM TypeCorrect == Spec => []TypeOK
<1>1. AccessInv => TypeOK
  BY DEF AccessInv
<1> QED
  BY <1>1, AccessInvariance, PTL

\* A request that arrives with a logged-out token reaches no handler, but for
\* a failed check or an expiry in between: Logout's ttl is never too short.
THEOREM LoggedOutStaysOut == Spec => []LoggedOutIsRefused
<1>1. AccessInv => LoggedOutIsRefused
  BY DEF AccessInv, AccessFits, LoggedOutIsRefused
<1> QED
  BY <1>1, AccessInvariance, PTL

\* RequireRole keeps refresh tokens from every protected handler.
THEOREM AccessTokensOnly == Spec => []OnlyAccessTokensServed
<1>1. AccessInv => OnlyAccessTokensServed
  BY DEF AccessInv, AccessFits, OnlyAccessTokensServed
<1> QED
  BY <1>1, AccessInvariance, PTL

\* No validation that begins after RevokeApiKey was carried out succeeds.
THEOREM RevokedStaysRevoked == Spec => []RevokedKeyIsRefused
<1>1. AccessInv => RevokedKeyIsRefused
  BY DEF AccessInv, AccessFits, RevokedKeyIsRefused
<1> QED
  BY <1>1, AccessInvariance, PTL
=============================================================================
