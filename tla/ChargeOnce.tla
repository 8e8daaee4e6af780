----------------------------- MODULE ChargeOnce -----------------------------
(***************************************************************************)
(* What the payment API promises about idempotency keys, stated without    *)
(* tables, providers or failures: a request is submitted with a key or     *)
(* without one, at most one request ever owns a key, and money is taken    *)
(* only for a request that carries no key or owns the key it carries, at   *)
(* most once per request.  Payment.tla implements this specification.      *)
(***************************************************************************)
CONSTANTS Requests,  \* payment requests
          Keys,      \* idempotency keys
          NoKey,     \* "the request carries no key"
          NoRequest  \* "nobody owns the key"

VARIABLES keyOf,     \* keyOf[r]: the key request r was submitted with
          owner,     \* owner[k]: the request that claimed key k
          charged    \* the requests for which the provider took money

vars == <<keyOf, owner, charged>>

Init == /\ keyOf = [r \in Requests |-> NoKey]
        /\ owner = [k \in Keys |-> NoRequest]
        /\ charged = {}

Submit(r) == /\ \A k \in Keys : owner[k] # r
             /\ r \notin charged
             /\ \E k \in Keys : keyOf' = [keyOf EXCEPT ![r] = k]
             /\ UNCHANGED <<owner, charged>>

Claim(r) == /\ keyOf[r] \in Keys
            /\ owner[keyOf[r]] = NoRequest
            /\ owner' = [owner EXCEPT ![keyOf[r]] = r]
            /\ UNCHANGED <<keyOf, charged>>

Charge(r) == /\ r \notin charged
             /\ keyOf[r] = NoKey \/ owner[keyOf[r]] = r
             /\ charged' = charged \cup {r}
             /\ UNCHANGED <<keyOf, owner>>

Next == \E r \in Requests : Submit(r) \/ Claim(r) \/ Charge(r)

Spec == Init /\ [][Next]_vars
=============================================================================
