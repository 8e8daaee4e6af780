------------------------------ MODULE Session ------------------------------
(***************************************************************************)
(* Sessions and access: the token pairs that register, login, refresh and  *)
(* MFA verification hand out, logout's blacklist in Redis, the chain of    *)
(* middleware in front of every protected handler (token, blacklist, role, *)
(* rate limit, audit), and API keys with their revocation.                 *)
(*                                                                         *)
(* A request is a sequence of Redis and database calls; others step, and   *)
(* the clock ticks, between them.  Any call may fail, with or without      *)
(* effect, and what the code does then (let the request through, ignore    *)
(* the error) is part of the model.  One user, one API key.  The counters  *)
(* of the rate limit are the module RateLimit's; here it lets a request    *)
(* through or turns it away.                                               *)
(*                                                                         *)
(* Signatures, hashes and codes are cryptography: a token is valid or not, *)
(* a password or code right or wrong, and the refused ones change nothing. *)
(***************************************************************************)
EXTENDS Integers

CONSTANTS Requests,     \* requests at work at the same time
          Pairs,        \* bound: token pairs handed out in a behaviour
          AccessLife,   \* JWT_ACCESS_EXPIRY
          RefreshLife,  \* JWT_REFRESH_EXPIRY
          MaxTime,      \* bound on the clock
          Never,        \* a pair not handed out, a key that does not expire
          NoUser,       \* no row in users
          NoToken       \* a request without a token

Time == 0..MaxTime
Tokens == Pairs \X {"access", "refresh"}
User == [is_active : BOOLEAN, mfa_enabled : BOOLEAN, mfa_secret : BOOLEAN]
ApiKey == [is_active : BOOLEAN, expires_at : Time \cup {Never}]

ASSUME SessionAssumption ==
    /\ AccessLife \in Nat \ {0} /\ RefreshLife \in Nat \ {0}
    /\ MaxTime \in Nat
    /\ Never \notin Int /\ NoUser \notin User /\ NoToken \notin Tokens

VARIABLES now,        \* the clock
          user,       \* users
          apikey,     \* api_keys
          issued,     \* when each pair was handed out
          blacklist,  \* Redis: until when a token is on the blacklist
          req,        \* where each request stands
          seen        \* history: logouts and revocations carried out

vars == <<now, user, apikey, issued, blacklist, req, seen>>
tables == <<user, apikey>>

\* Protected operations: the ones on the caller's own account (GetUser,
\* UpdateUser, CreateApiKey), RevokeApiKey, and all the others, which are
\* alike to the chain.
Calls == {"own", "RevokeApiKey", "other"}

Busy == {"exists", "limit", "handle", "audit", "set", "mfa", "select", "touch"}

Request == [at : Busy \cup {"idle", "done"},
            op : Calls \cup {"Logout", "VerifyMFA", "Validate", "none"},
            token : Tokens \cup {NoToken},
            ttl : Int,                        \* Logout: how long to remember
            copy : User \cup {NoUser},        \* VerifyMFA: the row read
            late : BOOLEAN,                   \* history: arrived after a logout or revocation
            excused : BOOLEAN,                \* history: its blacklist check found nothing to ask
            served : BOOLEAN,                 \* history: it reached the handler
            answer : {"none", "ok", "denied", "limited", "error"}]

TypeOK ==
    /\ now \in Time
    /\ user \in User \cup {NoUser}
    /\ apikey \in ApiKey
    /\ issued \in [Pairs -> Time \cup {Never}]
    /\ blacklist \in [Tokens -> Nat]
    /\ req \in [Requests -> Request]
    /\ seen \in [loggedOut : SUBSET Tokens, revoked : BOOLEAN]

NewRequest(op, at, t) ==
    [at |-> at, op |-> op, token |-> t, ttl |-> 0, copy |-> NoUser,
     late |-> FALSE, excused |-> FALSE, served |-> FALSE, answer |-> "none"]

Init ==
    /\ now = 0
    /\ user \in {NoUser} \cup
          {[is_active |-> a, mfa_enabled |-> FALSE, mfa_secret |-> a] : a \in BOOLEAN}
    /\ apikey \in [is_active : {TRUE}, expires_at : {0, Never}]
    /\ issued = [p \in Pairs |-> Never]
    /\ blacklist = [t \in Tokens |-> 0]
    /\ req = [r \in Requests |-> NewRequest("none", "idle", NoToken)]
    /\ seen = [loggedOut |-> {}, revoked |-> FALSE]

-----------------------------------------------------------------------------
(* Tokens *)

Life(t) == IF t[2] = "access" THEN AccessLife ELSE RefreshLife

ExpiresAt(t) == issued[t[1]] + Life(t)

\* ValidateToken, and ParseWithClaims in the middleware.
Valid(t) == issued[t[1]] # Never /\ now < ExpiresAt(t)

\* Mutant: the expiry is written where the time of issue belongs.
Issue_Expiry ==
    LET free == {p \in Pairs : issued[p] = Never} IN
    IF free = {} THEN UNCHANGED issued
    ELSE \E p \in free : issued' = [issued EXCEPT ![p] = now + RefreshLife]

\* GenerateAccessToken and GenerateRefreshToken, while the bound allows.
Issue ==
    LET free == {p \in Pairs : issued[p] = Never} IN
    IF free = {} THEN UNCHANGED issued
    ELSE \E p \in free : issued' = [issued EXCEPT ![p] = now]

\* Mutant: the refresh token carries the role as well.
Role_Both(t) == "user"

\* The role claim the middleware finds in a token: a refresh token has none.
Role(t) == IF t[2] = "access" THEN "user" ELSE ""

\* The user_id claim the middleware finds: the tokens carry "sub" instead.
UserID(t) == ""

\* A new row, or 409 for the address taken; tokens after a good INSERT.
Register ==
    /\ user = NoUser
    /\ user' = [is_active |-> TRUE, mfa_enabled |-> FALSE, mfa_secret |-> FALSE]
    /\ Issue \/ UNCHANGED issued
    /\ UNCHANGED <<now, apikey, blacklist, req, seen>>

\* With the right password; a user with MFA is sent to VerifyMFA.
Login ==
    /\ user # NoUser /\ user.is_active /\ ~ user.mfa_enabled
    /\ Issue
    /\ UNCHANGED <<now, tables, blacklist, req, seen>>

\* Any valid token of the user buys a new pair.
Refresh(t) ==
    /\ Valid(t) /\ user # NoUser
    /\ Issue
    /\ UNCHANGED <<now, tables, blacklist, req, seen>>

-----------------------------------------------------------------------------
(* How a request moves on *)

Free(r) == req[r].at \in {"idle", "done"}

Begin(r, rq) ==
    /\ Free(r)
    /\ req' = [req EXCEPT ![r] = rq]
    /\ UNCHANGED <<now, tables, issued, blacklist, seen>>

\* A validation's outcome is kept; nothing else is needed of an answered request.
Answered(rq, answer) ==
    IF rq.op = "Validate" THEN [rq EXCEPT !.at = "done", !.answer = answer]
    ELSE NewRequest("none", "idle", NoToken)

Answer(r, answer) == req' = [req EXCEPT ![r] = Answered(@, answer)]

-----------------------------------------------------------------------------
(* Logout *)

\* The token is validated and its remaining life computed; a header that
\* does not validate is answered at once.
Logout(r, t) ==
    /\ Valid(t)
    /\ Begin(r, [NewRequest("Logout", "set", t) EXCEPT !.ttl = ExpiresAt(t) - now])

\* SET with the ttl; its error is not looked at, the answer is always 200.
SetBlacklist(r) ==
    /\ req[r].at = "set"
    /\ \/ /\ blacklist' = [blacklist EXCEPT ![req[r].token] = now + req[r].ttl]
          /\ seen' = [seen EXCEPT !.loggedOut = @ \cup {req[r].token}]
       \/ UNCHANGED <<blacklist, seen>>
    /\ Answer(r, "ok")
    /\ UNCHANGED <<now, tables, issued>>

-----------------------------------------------------------------------------
(* The chain in front of a protected handler *)

\* The token validates; others are refused at once.
Call(r, t, op) ==
    /\ Valid(t)
    /\ Begin(r, [NewRequest(op, "exists", t) EXCEPT !.late = t \in seen.loggedOut])

\* RequireRole
Admitted(rq) == IF Role(rq.token) # "" THEN [rq EXCEPT !.at = "limit"] ELSE Answered(rq, "denied")

\* Mutant: the blacklist is asked for the token's other half.
Listed_Other(r) ==
    LET t == req[r].token IN
    now < blacklist[<<t[1], IF t[2] = "access" THEN "refresh" ELSE "access">>]

Listed(r) == now < blacklist[req[r].token]

\* EXISTS; when Redis fails the request goes on.  By now the token may have
\* expired, and its entry with it.
CheckBlacklist(r) ==
    /\ req[r].at = "exists"
    /\ \/ Listed(r) /\ Answer(r, "denied")
       \/ \E excused \in BOOLEAN :
            /\ Listed(r) \/ ~ Valid(req[r].token) => excused
            /\ req' = [req EXCEPT ![r] = Admitted([@ EXCEPT !.excused = excused])]
    /\ UNCHANGED <<now, tables, issued, blacklist, seen>>

Responded(answer) == [NewRequest("none", "audit", NoToken) EXCEPT !.answer = answer]

\* RateLimit: the handler is next, or 429; either way the audit goroutine follows.
Limit(r) ==
    /\ req[r].at = "limit"
    /\ \/ req' = [req EXCEPT ![r] = [@ EXCEPT !.at = "handle", !.served = TRUE]]
       \/ req' = [req EXCEPT ![r] = Responded("limited")]
    /\ UNCHANGED <<now, tables, issued, blacklist, seen>>

Respond(r, answer) == req' = [req EXCEPT ![r] = Responded(answer)]

\* The handler itself.  Operations on the own account parse the user id
\* first; RevokeApiKey is one UPDATE.
Handle(r) ==
    /\ req[r].at = "handle"
    /\ \/ /\ req[r].op = "own" /\ UserID(req[r].token) = ""
          /\ Respond(r, "error")
          /\ UNCHANGED <<apikey, seen>>
       \/ /\ req[r].op = "other"
          /\ Respond(r, "ok")
          /\ UNCHANGED <<apikey, seen>>
       \/ /\ req[r].op = "RevokeApiKey"
          /\ apikey' = [apikey EXCEPT !.is_active = FALSE]
          /\ seen' = [seen EXCEPT !.revoked = TRUE]
          /\ Respond(r, "ok")
       \/ /\ req[r].op = "RevokeApiKey"
          /\ apikey' \in {apikey, [apikey EXCEPT !.is_active = FALSE]}
          /\ Respond(r, "error")
          /\ UNCHANGED seen
    /\ UNCHANGED <<now, user, issued, blacklist>>

\* The audit goroutine: its INSERT names columns the table does not have.
Audit(r) ==
    /\ req[r].at = "audit"
    /\ Answer(r, req[r].answer)
    /\ UNCHANGED <<now, tables, issued, blacklist, seen>>

-----------------------------------------------------------------------------
(* VerifyMFA: the user row is read, then written back whole. *)

VerifyMFA(r) ==
    /\ user # NoUser /\ user.mfa_secret
    /\ Begin(r, [NewRequest("VerifyMFA", "mfa", NoToken) EXCEPT !.copy = user])

\* The write, whose error is not looked at, and a new pair.
StoreMFA(r) ==
    /\ req[r].at = "mfa"
    /\ user' \in {user, [req[r].copy EXCEPT !.mfa_enabled = TRUE]}
    /\ Issue
    /\ Answer(r, "ok")
    /\ UNCHANGED <<now, apikey, blacklist, seen>>

-----------------------------------------------------------------------------
(* API keys: Validate reads the key, then notes its use. *)

Validate(r) ==
    Begin(r, [NewRequest("Validate", "select", NoToken) EXCEPT !.late = seen.revoked])

Usable == apikey.is_active /\ (apikey.expires_at # Never => now <= apikey.expires_at)

\* SELECT and the checks.
SelectKey(r) ==
    /\ req[r].at = "select"
    /\ \/ Usable /\ req' = [req EXCEPT ![r].at = "touch"]
       \/ ~ Usable /\ Answer(r, "denied")
       \/ Answer(r, "error")
    /\ UNCHANGED <<now, tables, issued, blacklist, seen>>

\* Mutant: the whole row is written back.
Touched_WholeRow(key) == [key EXCEPT !.is_active = TRUE]

\* last_used_at is the only column written, and not part of the model.
Touched(key) == key

\* UPDATE last_used_at.
Touch(r) ==
    /\ req[r].at = "touch"
    /\ \E answer \in {"ok", "error"} : Answer(r, answer)
    /\ apikey' = Touched(apikey)
    /\ UNCHANGED <<now, user, issued, blacklist, seen>>

-----------------------------------------------------------------------------

Tick ==
    /\ now < MaxTime
    /\ now' = now + 1
    /\ UNCHANGED <<tables, issued, blacklist, req, seen>>

\* The server restarts: Redis and the tables stay, the requests are lost.
Crash ==
    /\ \E r \in Requests : req[r].at \in Busy
    /\ req' = [r \in Requests |-> IF Free(r) THEN req[r] ELSE Answered(req[r], "none")]
    /\ UNCHANGED <<now, tables, issued, blacklist, seen>>

RequestStep(r) ==
    \/ SetBlacklist(r) \/ CheckBlacklist(r) \/ Limit(r) \/ Handle(r) \/ Audit(r)
    \/ StoreMFA(r) \/ SelectKey(r) \/ Touch(r)

Next ==
    \/ Register \/ Login \/ \E t \in Tokens : Refresh(t)
    \/ \E r \in Requests :
        \/ \E t \in Tokens : Logout(r, t) \/ \E op \in Calls : Call(r, t, op)
        \/ VerifyMFA(r) \/ Validate(r) \/ RequestStep(r)
    \/ Tick \/ Crash

Spec == Init /\ [][Next]_vars

-----------------------------------------------------------------------------
(* Properties *)

\* Logged out means logged out: once a logout has written the blacklist and
\* answered, no later request with that token reaches a handler, unless Redis
\* failed that very check or the token expired between the check of its
\* signature and the check of the blacklist.
LoggedOutIsRefused ==
    \A r \in Requests : req[r].served /\ req[r].late => req[r].excused

\* Only access tokens reach a protected handler, although refresh tokens are
\* signed with the same key and pass every check before RequireRole.
OnlyAccessTokensServed ==
    \A r \in Requests : req[r].served => req[r].token[2] = "access"

\* Revoked means revoked: a validation that begins after a revocation was
\* answered fails, whatever validations were under way during it.
RevokedKeyIsRefused ==
    \A r \in Requests : req[r].op = "Validate" /\ req[r].late => req[r].answer # "ok"
=============================================================================
