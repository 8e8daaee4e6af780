----------------------------- MODULE RateLimit -----------------------------
(***************************************************************************)
(* The rate limit in front of the protected routes.  Each request          *)
(* increments a counter in Redis, whose key is made of the client's        *)
(* address and the minute; the request that created the counter gives it   *)
(* an expiry; a request that finds more than RPS is turned away, and one   *)
(* whose Redis call fails is let through.                                  *)
(*                                                                         *)
(* The key, the INCR and the EXPIRE are three moments: other requests      *)
(* step, and the minute ends, between them.  One client address.  A tick   *)
(* of the clock is a window, a minute in the code.                         *)
(***************************************************************************)
EXTENDS Integers

CONSTANTS Requests,  \* requests at the limiter at the same time
          RPS,       \* RATE_LIMIT_RPS
          Never,     \* a counter without an expiry
          MaxTime,   \* bound on the clock
          MaxCalls   \* bound: requests that come in one window

Time == 0..MaxTime

ASSUME RateAssumption ==
    /\ RPS \in Nat /\ MaxTime \in Nat /\ MaxCalls \in Nat
    /\ Never \notin Int

VARIABLES now,      \* the clock
          counter,  \* Redis: the client's counter for each window
          req,      \* where each request stands
          passed,   \* history: requests the counter of a window let through
          orphan,   \* history: windows whose counter nobody gives an expiry
          calls     \* requests that came in this window

vars == <<now, counter, req, passed, orphan, calls>>

\* A key in Redis; without increments there is none.
Counter == [n : Nat, until : Nat \cup {Never}]
NoCounter == [n |-> 0, until |-> Never]

Request == [at : {"idle", "incr", "expire"}, window : Time,
            answer : {"none", "next", "limited"}]

TypeOK ==
    /\ now \in Time
    /\ counter \in [Time -> Counter]
    /\ req \in [Requests -> Request]
    /\ passed \in [Time -> Nat]
    /\ orphan \subseteq Time
    /\ calls \in Nat

Init ==
    /\ now = 0
    /\ counter = [w \in Time |-> NoCounter]
    /\ req = [r \in Requests |-> [at |-> "idle", window |-> 0, answer |-> "none"]]
    /\ passed = [w \in Time |-> 0]
    /\ orphan = {}
    /\ calls = 0

\* A request comes and its key is made from the time.
Ask(r) ==
    /\ req[r].at = "idle" /\ calls < MaxCalls
    /\ req' = [req EXCEPT ![r] = [at |-> "incr", window |-> now, answer |-> "none"]]
    /\ calls' = calls + 1
    /\ UNCHANGED <<now, counter, passed, orphan>>

Answered(rq, answer) == [rq EXCEPT !.at = "idle", !.answer = answer]

Exceeded(n) == n > RPS

\* The decision on a request that found n in the counter.
Decide(r, n) ==
    LET w == req[r].window IN
    /\ req' = [req EXCEPT ![r] = Answered(req[r], IF Exceeded(n) THEN "limited" ELSE "next")]
    /\ passed' = [passed EXCEPT ![w] = IF Exceeded(n) THEN passed[w] ELSE passed[w] + 1]

Incremented(w) == [counter EXCEPT ![w] = [n |-> counter[w].n + 1, until |-> counter[w].until]]

\* INCR answers with the count; the answer 1 calls for an expiry.
Incr(r) ==
    /\ req[r].at = "incr"
    /\ LET w == req[r].window
           n == counter[w].n + 1
       IN /\ counter' = Incremented(w)
          /\ IF n = 1
             THEN req' = [req EXCEPT ![r].at = "expire"] /\ UNCHANGED passed
             ELSE Decide(r, n)
    /\ UNCHANGED <<now, orphan, calls>>

\* INCR fails, with or without effect, and the request goes on.
IncrFails(r) ==
    /\ req[r].at = "incr"
    /\ LET w == req[r].window IN
        \/ UNCHANGED <<counter, orphan>>
        \/ /\ counter' = Incremented(w)
           /\ orphan' = IF counter[w].n = 0 THEN orphan \cup {w} ELSE orphan
    /\ req' = [req EXCEPT ![r] = Answered(req[r], "next")]
    /\ UNCHANGED <<now, passed, calls>>

\* Mutant: the counter lives for one window only.
CounterLife_Short == 1

\* Two minutes.
CounterLife == 2

\* EXPIRE, by the request that created the counter; its error is not looked at.
Expire(r) ==
    /\ req[r].at = "expire"
    /\ LET w == req[r].window IN
        \/ /\ counter' = [counter EXCEPT ![w] = [n |-> counter[w].n, until |-> now + CounterLife]]
           /\ UNCHANGED orphan
        \/ /\ orphan' = orphan \cup {w}
           /\ UNCHANGED counter
    /\ Decide(r, 1)
    /\ UNCHANGED <<now, calls>>

\* The counter's time is up in the current minute.
Due(w) == counter[w].until # Never /\ counter[w].until <= now

\* Redis drops a key at some moment of the minute in which its time is up.
Lapse(w) ==
    /\ Due(w)
    /\ counter' = [counter EXCEPT ![w] = NoCounter]
    /\ UNCHANGED <<now, req, passed, orphan, calls>>

\* The minute ends.
Tick ==
    /\ now < MaxTime /\ \A w \in Time : ~ Due(w)
    /\ now' = now + 1
    /\ calls' = 0
    /\ UNCHANGED <<counter, req, passed, orphan>>

\* The request that created the counter of w has still to set its expiry.
Creating(r, w) == req[r].at = "expire" /\ req[r].window = w

\* The server restarts: Redis stays, the requests are lost.
Crash ==
    /\ \E r \in Requests : req[r].at # "idle"
    /\ req' = [r \in Requests |-> IF req[r].at = "idle" THEN req[r] ELSE Answered(req[r], "none")]
    /\ orphan' = orphan \cup {w \in Time : \E r \in Requests : Creating(r, w)}
    /\ UNCHANGED <<now, counter, passed, calls>>

\* The bounds are reached and every request is answered.
Rest ==
    /\ now = MaxTime /\ calls = MaxCalls /\ \A r \in Requests : req[r].at = "idle"
    /\ UNCHANGED vars

Next ==
    \/ \E r \in Requests : Ask(r) \/ Incr(r) \/ IncrFails(r) \/ Expire(r)
    \/ \E w \in Time : Lapse(w)
    \/ Tick \/ Crash \/ Rest

Spec == Init /\ [][Next]_vars

-----------------------------------------------------------------------------
(* Properties *)

\* The limit in the window w.
ExactIn(w) ==
    /\ now <= w + 1 =>
          /\ passed[w] <= RPS
          /\ \A r \in Requests : req[r].answer = "limited" /\ req[r].window = w =>
                                    counter[w].n > RPS
    /\ counter[w].n > 0 => \/ counter[w].until # Never \/ w \in orphan
                           \/ \E r \in Requests : Creating(r, w)

\* The limiter is exact however requests interleave.  Apart from those that
\* pass because Redis failed, at most RPS requests with the key of a window
\* pass, also counting those whose INCR comes in the window after it: until
\* that is over no new counter can take the place of the first.  A request is
\* turned away only when more than RPS were counted.  And every counter gets
\* an expiry, unless the EXPIRE or the answer to the INCR that created it was
\* lost.
\* The window is the code's minute, although .env.example, the environment
\* guide and the API's README give RATE_LIMIT_RPS as requests per second: a
\* client gets as many in a minute as they promise in a second.
LimitIsExact == \A w \in Time : ExactIn(w)
=============================================================================
