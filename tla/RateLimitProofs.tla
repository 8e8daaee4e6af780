-------------------------- MODULE RateLimitProofs --------------------------
(***************************************************************************)
(* The rate limit is exact, for any number of requests, any limit and any  *)
(* bounds.                                                                 *)
(*                                                                         *)
(* LimitIsExact is not inductive: nothing in it says that the request      *)
(* about to set the expiry, which is decided on the answer 1 it got long   *)
(* before, still has a place among the RPS.  CreatorFits says it has, and  *)
(* ExpiryIsFarOff that no counter is dropped while its key is in use.      *)
(***************************************************************************)
EXTENDS RateLimit, TLAPS

\* A request's window is never one to come.
WindowsHaveBegun == \A r \in Requests : req[r].window <= now

\* An expiry lies beyond the window after the counter's own.
ExpiryIsFarOff == \A w \in Time : counter[w].until # Never => counter[w].until >= w + 2

\* Those that passed were counted.
PassedWereCounted == \A w \in Time : now <= w + 1 => passed[w] <= counter[w].n

\* One request at most has still to set the expiry of a counter; it was
\* counted, and while it has not passed there is a place left for it.
CreatorFits ==
    \A w \in Time : \A r \in Requests :
        now <= w + 1 /\ Creating(r, w) =>
            /\ passed[w] < counter[w].n
            /\ RPS > 0 => passed[w] < RPS
            /\ \A s \in Requests : Creating(s, w) => s = r

IndInv ==
    /\ TypeOK /\ LimitIsExact
    /\ WindowsHaveBegun /\ ExpiryIsFarOff /\ PassedWereCounted /\ CreatorFits

-----------------------------------------------------------------------------

LEMMA InitHolds == Init => IndInv
  BY RateAssumption
     DEF Init, IndInv, TypeOK, LimitIsExact, ExactIn, WindowsHaveBegun, ExpiryIsFarOff,
         PassedWereCounted, CreatorFits, Creating, Time, Counter, NoCounter, Request

\* A request comes: it counts nothing yet and was not turned away.
LEMMA AskStep == ASSUME IndInv, NEW r \in Requests, Ask(r) PROVE IndInv'
  <1>1. TypeOK'
    BY RateAssumption DEF IndInv, TypeOK, Ask, Request, Time
  <1>2. \A s \in Requests, w \in Time : Creating(s, w)' <=> Creating(s, w) /\ s # r
    BY DEF IndInv, TypeOK, Request, Ask, Creating
  <1>3. \A s \in Requests : s # r => req'[s] = req[s]
    BY DEF IndInv, TypeOK, Ask
  <1>4. req'[r].answer = "none" /\ req'[r].window = now
    BY DEF IndInv, TypeOK, Ask
  <1>5. \A w \in Time : Creating(r, w) => FALSE
    BY DEF Ask, Creating
  <1>6. now' = now /\ counter' = counter /\ passed' = passed /\ orphan' = orphan
    BY DEF Ask
  <1>7. LimitIsExact'
    BY <1>2, <1>3, <1>4, <1>5, <1>6 DEF IndInv, LimitIsExact, ExactIn
  <1>8. WindowsHaveBegun'
    BY <1>3, <1>4, <1>6, RateAssumption DEF IndInv, WindowsHaveBegun, TypeOK, Time
  <1>9. (ExpiryIsFarOff /\ PassedWereCounted)'
    BY <1>6 DEF IndInv, ExpiryIsFarOff, PassedWereCounted
  <1>10. CreatorFits'
    BY <1>2, <1>6 DEF IndInv, CreatorFits
  <1> QED BY <1>1, <1>7, <1>8, <1>9, <1>10 DEF IndInv

\* INCR: a new counter has a creator, an old one decides at once.
LEMMA IncrStep == ASSUME IndInv, NEW r \in Requests, Incr(r) PROVE IndInv'
  <1> DEFINE v == req[r].window
             n == counter[v].n + 1
  <1>0. v \in Time /\ counter[v] \in Counter /\ passed[v] \in Nat
    BY DEF IndInv, TypeOK, Request
  <1>1. /\ counter'[v] = [n |-> n, until |-> counter[v].until]
        /\ \A w \in Time : w # v => counter'[w] = counter[w]
    BY <1>0 DEF IndInv, TypeOK, Incr, Incremented
  <1>2. now' = now /\ orphan' = orphan
    BY DEF Incr
  <1>3. \A s \in Requests : s # r => req'[s] = req[s]
    BY DEF IndInv, TypeOK, Incr, Decide
  <1>4. \A w \in Time : w # v => passed'[w] = passed[w]
    BY DEF IndInv, TypeOK, Incr, Decide
  <1>5. CASE n = 1
    <2>1. req'[r] = [req[r] EXCEPT !.at = "expire"] /\ passed' = passed
      BY <1>5 DEF IndInv, TypeOK, Incr
    <2>2. \A s \in Requests, w \in Time :
            Creating(s, w)' <=> (Creating(s, w) /\ s # r) \/ (s = r /\ w = v)
      BY <2>1, <1>3 DEF IndInv, TypeOK, Request, Creating
    <2>3. now <= v + 1 => \A s \in Requests : ~ Creating(s, v)
      BY <1>0, <1>5 DEF IndInv, CreatorFits, Counter
    <2>4. \A s \in Requests, w \in Time : Creating(s, w) => s # r
      BY DEF Incr, Creating
    <2>5. TypeOK'
      <3>1. counter' \in [Time -> Counter]
        BY <1>0 DEF IndInv, TypeOK, Incr, Incremented, Counter
      <3>2. req' \in [Requests -> Request]
        BY <1>5 DEF IndInv, TypeOK, Incr, Request
      <3> QED BY <3>1, <3>2, <2>1 DEF IndInv, TypeOK, Incr
    <2>6. WindowsHaveBegun' /\ ExpiryIsFarOff'
      BY <2>1, <1>0, <1>1, <1>2, <1>3
         DEF IndInv, TypeOK, Request, WindowsHaveBegun, ExpiryIsFarOff
    <2>7. PassedWereCounted'
      <3> SUFFICES ASSUME NEW w \in Time, now <= w + 1 PROVE passed'[w] <= counter'[w].n
        BY <1>2 DEF PassedWereCounted
      <3>1. passed[w] <= counter[w].n /\ passed[w] \in Nat /\ counter[w].n \in Nat
        BY DEF IndInv, PassedWereCounted, TypeOK, Counter
      <3> QED BY <3>1, <2>1, <1>0, <1>1, RateAssumption
    <2>8. CreatorFits'
      <3> SUFFICES ASSUME NEW w \in Time, NEW s \in Requests, now <= w + 1, Creating(s, w)'
                   PROVE /\ passed[w] < counter'[w].n
                         /\ RPS > 0 => passed[w] < RPS
                         /\ \A t \in Requests : Creating(t, w)' => t = s
        BY <1>2, <2>1 DEF CreatorFits
      <3>1. CASE w # v
        BY <3>1, <1>1, <2>2 DEF IndInv, CreatorFits
      <3>2. CASE w = v
        <4>1. counter[v].n = 0 /\ passed[v] <= counter[v].n
          BY <3>2, <1>0, <1>5 DEF IndInv, PassedWereCounted, Counter
        <4> QED BY <4>1, <3>2, <1>0, <1>1, <1>5, <2>2, <2>3, RateAssumption
      <3> QED BY <3>1, <3>2
    <2>9. LimitIsExact'
      <3> SUFFICES ASSUME NEW w \in Time
                   PROVE ExactIn(w)'
        BY DEF LimitIsExact
      <3>1. \A s \in Requests : req'[s].answer = req[s].answer /\ req'[s].window = req[s].window
        BY <2>1, <1>3 DEF IndInv, TypeOK, Request
      <3>2. counter[w].n \in Nat /\ counter'[w].n >= counter[w].n
        BY <1>0, <1>1 DEF IndInv, TypeOK, Counter
      <3>3. counter'[w].until = counter[w].until
        BY <1>1
      <3>4. CASE w = v
        <4>1. Creating(r, w)'
          BY <3>4, <2>2
        <4>2. now <= w + 1 => passed'[w] <= RPS
          BY <2>1 DEF IndInv, LimitIsExact, ExactIn
        <4>3. ASSUME now <= w + 1, NEW s \in Requests, req'[s].answer = "limited", req'[s].window = w
              PROVE counter'[w].n > RPS
          <5>1. counter[w].n > RPS
            BY <4>3, <3>1 DEF IndInv, LimitIsExact, ExactIn
          <5> QED BY <5>1, <3>2, <3>4, <1>1, <1>0, RateAssumption DEF Counter
        <4> QED BY <4>1, <4>2, <4>3, <1>2 DEF ExactIn
      <3>5. CASE w # v
        BY <3>1, <3>5, <1>1, <1>2, <2>1, <2>2, <2>4 DEF IndInv, LimitIsExact, ExactIn
      <3> QED BY <3>4, <3>5
    <2> QED BY <2>5, <2>6, <2>7, <2>8, <2>9 DEF IndInv
  <1>6. CASE n # 1
    <2>1. /\ req'[r] = Answered(req[r], IF Exceeded(n) THEN "limited" ELSE "next")
          /\ passed'[v] = IF Exceeded(n) THEN passed[v] ELSE passed[v] + 1
      BY <1>0, <1>6 DEF IndInv, TypeOK, Incr, Decide
    <2>2. \A s \in Requests, w \in Time : Creating(s, w)' <=> Creating(s, w)
      BY <2>1, <1>3 DEF IndInv, TypeOK, Request, Creating, Answered, Incr
    <2>3. n \in Nat /\ n > 1 /\ counter[v].n > 0
      BY <1>0, <1>6 DEF Counter
    <2>4. req'[r] \in Request /\ req'[r].window = v /\ (req'[r].answer = "limited" => Exceeded(n))
      BY <2>1, <1>0 DEF IndInv, TypeOK, Request, Answered
    <2>5. TypeOK'
      <3>1. counter' \in [Time -> Counter]
        BY <1>0 DEF IndInv, TypeOK, Incr, Incremented, Counter
      <3>2. req' \in [Requests -> Request]
        BY <1>6, <2>4 DEF IndInv, TypeOK, Incr, Decide
      <3>3. passed' \in [Time -> Nat]
        BY <1>0, <1>6 DEF IndInv, TypeOK, Incr, Decide
      <3> QED BY <3>1, <3>2, <3>3 DEF IndInv, TypeOK, Incr
    <2>6. WindowsHaveBegun' /\ ExpiryIsFarOff'
      BY <2>4, <1>0, <1>1, <1>2, <1>3
         DEF IndInv, WindowsHaveBegun, ExpiryIsFarOff
    <2>7. PassedWereCounted'
      <3> SUFFICES ASSUME NEW w \in Time, now <= w + 1 PROVE passed'[w] <= counter'[w].n
        BY <1>2 DEF PassedWereCounted
      <3>1. passed[w] <= counter[w].n /\ passed[w] \in Nat /\ counter[w].n \in Nat
        BY DEF IndInv, PassedWereCounted, TypeOK, Counter
      <3> QED BY <3>1, <2>1, <1>0, <1>1, <1>4, RateAssumption
    <2>8. CreatorFits'
      <3> SUFFICES ASSUME NEW w \in Time, NEW s \in Requests, now <= w + 1, Creating(s, w)
                   PROVE /\ passed'[w] < counter'[w].n
                         /\ RPS > 0 => passed'[w] < RPS
                         /\ \A t \in Requests : Creating(t, w) => t = s
        BY <1>2, <2>2 DEF CreatorFits
      <3>1. CASE w # v
        BY <3>1, <1>1, <1>4 DEF IndInv, CreatorFits
      <3>2. CASE w = v
        BY <3>2, <1>0, <1>1, <2>1, <2>3, RateAssumption DEF IndInv, CreatorFits, Exceeded, Counter
      <3> QED BY <3>1, <3>2
    <2>9. LimitIsExact'
      <3> SUFFICES ASSUME NEW w \in Time
                   PROVE ExactIn(w)'
        BY DEF LimitIsExact
      <3>1. CASE w # v
        BY <3>1, <1>1, <1>2, <1>3, <1>4, <2>2, <2>4 DEF IndInv, LimitIsExact, ExactIn
      <3>2. CASE w = v
        <4>1. now <= w + 1 => passed[v] <= counter[v].n /\ passed[v] <= RPS
          BY <3>2 DEF IndInv, PassedWereCounted, LimitIsExact, ExactIn
        <4>2. now <= w + 1 => passed'[v] <= RPS
          BY <4>1, <2>1, <2>3, <1>0, RateAssumption DEF Exceeded, Counter
        <4>3. ASSUME now <= w + 1, NEW s \in Requests, req'[s].answer = "limited", req'[s].window = v
              PROVE counter'[v].n > RPS
          <5>1. CASE s = r
            BY <5>1, <4>3, <2>4, <1>1 DEF Exceeded
          <5>2. CASE s # r
            BY <5>2, <4>3, <3>2, <1>0, <1>1, <1>3, RateAssumption DEF IndInv, LimitIsExact, ExactIn, Counter
          <5> QED BY <5>1, <5>2
        <4>4. \/ counter'[w].until # Never \/ w \in orphan'
              \/ \E s \in Requests : Creating(s, w)'
          <5>1. \/ counter[w].until # Never \/ w \in orphan
                \/ \E s \in Requests : Creating(s, w)
            BY <3>2, <2>3 DEF IndInv, LimitIsExact, ExactIn
          <5> QED BY <5>1, <3>2, <1>0, <1>1, <1>2, <2>2
        <4> QED BY <3>2, <4>2, <4>3, <4>4, <1>2 DEF ExactIn
      <3> QED BY <3>1, <3>2
    <2> QED BY <2>5, <2>6, <2>7, <2>8, <2>9 DEF IndInv
  <1> QED BY <1>5, <1>6

\* INCR fails: counted or not, the request passes outside the limit.
LEMMA IncrFailsStep == ASSUME IndInv, NEW r \in Requests, IncrFails(r) PROVE IndInv'
  <1> DEFINE v == req[r].window
  <1>0. v \in Time /\ counter[v] \in Counter
    BY DEF IndInv, TypeOK, Request
  <1>1. now' = now /\ passed' = passed /\ calls' = calls
    BY DEF IncrFails
  <1>2. \A s \in Requests : s # r => req'[s] = req[s]
    BY DEF IndInv, TypeOK, IncrFails
  <1>3. req'[r] \in Request /\ req'[r].at = "idle" /\ req'[r].window = v /\ req'[r].answer = "next"
    BY DEF IndInv, TypeOK, Request, IncrFails, Answered
  <1>4. \A s \in Requests, w \in Time : Creating(s, w)' <=> Creating(s, w)
    BY <1>2, <1>3 DEF IncrFails, Creating
  <1> DEFINE Grown(w) == /\ counter'[w].n >= counter[w].n
                         /\ counter'[w].until = counter[w].until
                         /\ w \in orphan => w \in orphan'
                         /\ counter'[w].n > 0 => counter[w].n > 0 \/ w \in orphan'
  <1>5. /\ counter' \in [Time -> Counter] /\ orphan' \subseteq Time
        /\ \A w \in Time : Grown(w)
    <2>1. CASE counter' = counter /\ orphan' = orphan
      BY <2>1 DEF IndInv, TypeOK, Counter
    <2>2. CASE /\ counter' = Incremented(v)
               /\ orphan' = IF counter[v].n = 0 THEN orphan \cup {v} ELSE orphan
      <3>1. counter' \in [Time -> Counter] /\ orphan' \subseteq Time
        BY <2>2, <1>0 DEF IndInv, TypeOK, Incremented, Counter
      <3>2. ASSUME NEW w \in Time
            PROVE Grown(w)
        <4>1. counter[w] \in Counter
          BY DEF IndInv, TypeOK
        <4>2. CASE w # v
          BY <4>1, <4>2, <2>2 DEF IndInv, TypeOK, Incremented, Counter
        <4>3. CASE w = v
          BY <4>1, <4>3, <2>2 DEF IndInv, TypeOK, Incremented, Counter
        <4> QED BY <4>2, <4>3
      <3> QED BY <3>1, <3>2
    <2> QED BY <2>1, <2>2 DEF IncrFails
  <1>11. ASSUME NEW w \in Time PROVE Grown(w)
    BY <1>5
  <1>6. TypeOK'
    BY <1>1, <1>3, <1>5 DEF IndInv, TypeOK, IncrFails
  <1>7. LimitIsExact'
    <2> SUFFICES ASSUME NEW w \in Time PROVE ExactIn(w)'
      BY DEF LimitIsExact
    <2>1. ExactIn(w) /\ counter[w].n \in Nat /\ counter'[w].n \in Nat
      BY <1>5 DEF IndInv, LimitIsExact, TypeOK, Counter
    <2>4. Grown(w)
      BY <1>11
    <2>2. ASSUME now <= w + 1, NEW s \in Requests, req'[s].answer = "limited", req'[s].window = w
          PROVE counter'[w].n > RPS
      BY <2>4, <2>1, <2>2, <1>2, <1>3, RateAssumption DEF ExactIn
    <2>3. counter'[w].n > 0 => \/ counter'[w].until # Never \/ w \in orphan'
                               \/ \E s \in Requests : Creating(s, w)'
      BY <2>4, <2>1, <1>4 DEF ExactIn
    <2> QED BY <2>1, <2>2, <2>3, <1>1 DEF ExactIn
  <1>8. WindowsHaveBegun' /\ ExpiryIsFarOff'
    <2>1. WindowsHaveBegun'
      BY <1>1, <1>2, <1>3 DEF IndInv, WindowsHaveBegun
    <2>2. ASSUME NEW w \in Time, counter'[w].until # Never PROVE counter'[w].until >= w + 2
      <3>1. counter'[w].until = counter[w].until
        BY <1>11
      <3> QED BY <2>2, <3>1 DEF IndInv, ExpiryIsFarOff
    <2> QED BY <2>1, <2>2 DEF ExpiryIsFarOff
  <1>9. PassedWereCounted'
    <2> SUFFICES ASSUME NEW w \in Time, now <= w + 1 PROVE passed[w] <= counter'[w].n
      BY <1>1 DEF PassedWereCounted
    <2>1. passed[w] <= counter[w].n /\ passed[w] \in Nat /\ counter[w].n \in Nat /\ counter'[w].n \in Nat
      BY <1>5 DEF IndInv, PassedWereCounted, TypeOK, Counter
    <2>2. counter'[w].n >= counter[w].n
      BY <1>11
    <2> QED BY <2>1, <2>2
  <1>10. CreatorFits'
    <2> SUFFICES ASSUME NEW w \in Time, NEW s \in Requests, now <= w + 1, Creating(s, w)
                 PROVE /\ passed[w] < counter'[w].n
                       /\ RPS > 0 => passed[w] < RPS
                       /\ \A t \in Requests : Creating(t, w) => t = s
      BY <1>1, <1>4 DEF CreatorFits
    <2>1. passed[w] \in Nat /\ counter[w].n \in Nat /\ counter'[w].n \in Nat
      BY <1>5 DEF IndInv, TypeOK, Counter
    <2>2. counter'[w].n >= counter[w].n
      BY <1>11
    <2> QED BY <2>1, <2>2 DEF IndInv, CreatorFits
  <1> QED BY <1>6, <1>7, <1>8, <1>9, <1>10 DEF IndInv

\* EXPIRE: the creator takes the place that was left for it.
LEMMA ExpireStep == ASSUME IndInv, NEW r \in Requests, Expire(r) PROVE IndInv'
  <1> DEFINE v == req[r].window
  <1>0. /\ v \in Time /\ counter[v] \in Counter /\ passed[v] \in Nat
        /\ v <= now /\ now \in Nat /\ v \in Nat
        /\ Creating(r, v)
    BY RateAssumption DEF IndInv, TypeOK, Request, WindowsHaveBegun, Creating, Expire, Time
  <1>1. now' = now /\ calls' = calls
    BY DEF Expire
  <1>2. \A s \in Requests : s # r => req'[s] = req[s]
    BY DEF IndInv, TypeOK, Expire, Decide
  <1>3. /\ req'[r] \in Request /\ req'[r].at = "idle" /\ req'[r].window = v
        /\ req'[r].answer = "limited" => 1 > RPS
    BY DEF IndInv, TypeOK, Request, Expire, Decide, Answered, Exceeded
  <1>4. \A s \in Requests, w \in Time : Creating(s, w)' <=> Creating(s, w) /\ s # r
    BY <1>2, <1>3 DEF Creating
  <1>5. /\ passed'[v] = IF Exceeded(1) THEN passed[v] ELSE passed[v] + 1
        /\ passed' \in [Time -> Nat]
        /\ \A w \in Time : w # v => passed'[w] = passed[w]
    BY <1>0 DEF IndInv, TypeOK, Expire, Decide
  <1>6. /\ counter' \in [Time -> Counter] /\ orphan' \subseteq Time
        /\ \A w \in Time : counter'[w].n = counter[w].n /\ (w \in orphan => w \in orphan')
        /\ \A w \in Time : w # v => counter'[w] = counter[w]
        /\ counter'[v].until = now + 2 \/ (counter' = counter /\ v \in orphan')
    <2>1. CASE /\ counter' = [counter EXCEPT ![v] = [n |-> counter[v].n, until |-> now + CounterLife]]
               /\ orphan' = orphan
      BY <2>1, <1>0 DEF IndInv, TypeOK, Counter, CounterLife
    <2>2. CASE orphan' = orphan \cup {v} /\ counter' = counter
      BY <2>2, <1>0 DEF IndInv, TypeOK
    <2> QED BY <2>1, <2>2 DEF Expire
  <1>7. TypeOK'
    BY <1>1, <1>3, <1>5, <1>6 DEF IndInv, TypeOK, Expire, Decide
  <1>8. now <= v + 1 => /\ passed[v] < counter[v].n
                        /\ RPS > 0 => passed[v] < RPS
                        /\ \A s \in Requests : Creating(s, v) => s = r
    BY <1>0 DEF IndInv, CreatorFits
  <1>9. LimitIsExact'
    <2> SUFFICES ASSUME NEW w \in Time PROVE ExactIn(w)'
      BY DEF LimitIsExact
    <2>1. ExactIn(w)
      BY DEF IndInv, LimitIsExact
    <2>2. CASE w # v
      <3>1. counter'[w] = counter[w] /\ passed'[w] = passed[w] /\ (w \in orphan => w \in orphan')
        BY <2>2, <1>5, <1>6
      <3>2. \A s \in Requests : Creating(s, w) => Creating(s, w)'
        BY <2>2, <1>4 DEF Creating
      <3>3. \A s \in Requests : req'[s].window = w => req'[s] = req[s]
        BY <2>2, <1>2, <1>3
      <3> QED BY <2>1, <3>1, <3>2, <3>3, <1>1 DEF ExactIn
    <2>3. CASE w = v
      <3>1. now <= w + 1 => passed'[w] <= RPS
        BY <2>1, <2>3, <1>0, <1>5, <1>8, RateAssumption DEF ExactIn, Exceeded
      <3>2. ASSUME now <= w + 1, NEW s \in Requests, req'[s].answer = "limited", req'[s].window = w
            PROVE counter'[w].n > RPS
        <4>1. CASE s = r
          BY <4>1, <3>2, <2>3, <1>0, <1>3, <1>6, <1>8, RateAssumption DEF Counter
        <4>2. CASE s # r
          BY <4>2, <3>2, <2>1, <1>2, <1>6 DEF ExactIn
        <4> QED BY <4>1, <4>2
      <3>3. counter'[w].until # Never \/ w \in orphan'
        BY <2>3, <1>0, <1>6, RateAssumption
      <3> QED BY <3>1, <3>2, <3>3, <1>1 DEF ExactIn
    <2> QED BY <2>2, <2>3
  <1>10. WindowsHaveBegun'
    BY <1>0, <1>1, <1>2, <1>3 DEF IndInv, WindowsHaveBegun
  <1>11. ExpiryIsFarOff'
    BY <1>0, <1>6 DEF IndInv, ExpiryIsFarOff
  <1>12. PassedWereCounted'
    <2> SUFFICES ASSUME NEW w \in Time, now <= w + 1 PROVE passed'[w] <= counter'[w].n
      BY <1>1 DEF PassedWereCounted
    <2>1. passed[w] <= counter[w].n /\ passed[w] \in Nat /\ counter[w].n \in Nat
      BY DEF IndInv, PassedWereCounted, TypeOK, Counter
    <2> QED BY <2>1, <1>0, <1>5, <1>6, <1>8
  <1>13. CreatorFits'
    <2> SUFFICES ASSUME NEW w \in Time, NEW s \in Requests, now <= w + 1, Creating(s, w), s # r
                 PROVE /\ passed'[w] < counter'[w].n
                       /\ RPS > 0 => passed'[w] < RPS
                       /\ \A t \in Requests : Creating(t, w) => t = s
      BY <1>1, <1>4 DEF CreatorFits
    <2>1. w # v
      BY <1>8
    <2> QED BY <2>1, <1>5, <1>6 DEF IndInv, CreatorFits
  <1> QED BY <1>7, <1>9, <1>10, <1>11, <1>12, <1>13 DEF IndInv

\* No counter lapses while its key is in use.
LEMMA LapseStep == ASSUME IndInv, NEW v \in Time, Lapse(v) PROVE IndInv'
  <1>1. now' = now /\ req' = req /\ passed' = passed /\ orphan' = orphan /\ calls' = calls
    BY DEF Lapse
  <1>2. /\ counter' \in [Time -> Counter] /\ counter'[v] = NoCounter
        /\ \A w \in Time : w # v => counter'[w] = counter[w]
    BY DEF IndInv, TypeOK, Lapse, NoCounter, Counter
  <1>3. ~ now <= v + 1
    BY RateAssumption DEF IndInv, TypeOK, Counter, ExpiryIsFarOff, Lapse, Due, Time
  <1>4. \A s \in Requests, w \in Time : Creating(s, w)' <=> Creating(s, w)
    BY <1>1 DEF Creating
  <1>5. TypeOK'
    BY <1>1, <1>2 DEF IndInv, TypeOK
  <1>6. LimitIsExact'
    <2> SUFFICES ASSUME NEW w \in Time PROVE ExactIn(w)'
      BY DEF LimitIsExact
    <2>1. CASE w = v
      BY <2>1, <1>1, <1>2, <1>3 DEF ExactIn, NoCounter
    <2>2. CASE w # v
      BY <2>2, <1>1, <1>2, <1>4 DEF IndInv, LimitIsExact, ExactIn
    <2> QED BY <2>1, <2>2
  <1>7. WindowsHaveBegun' /\ ExpiryIsFarOff'
    BY <1>1, <1>2 DEF IndInv, WindowsHaveBegun, ExpiryIsFarOff, NoCounter
  <1>8. PassedWereCounted'
    BY <1>1, <1>2, <1>3 DEF IndInv, PassedWereCounted
  <1>9. CreatorFits'
    BY <1>1, <1>2, <1>3, <1>4 DEF IndInv, CreatorFits
  <1> QED BY <1>5, <1>6, <1>7, <1>8, <1>9 DEF IndInv

LEMMA TickStep == ASSUME IndInv, Tick PROVE IndInv'
  <1>1. /\ now' = now + 1 /\ req' = req /\ counter' = counter
        /\ passed' = passed /\ orphan' = orphan
    BY DEF Tick
  <1>2. now \in Nat /\ now' \in Time /\ \A w \in Time : w \in Nat
    BY <1>1, RateAssumption DEF IndInv, TypeOK, Tick, Time
  <1>3. \A w \in Time : now' <= w + 1 => now <= w + 1
    BY <1>1, <1>2
  <1>4. \A s \in Requests, w \in Time : Creating(s, w)' <=> Creating(s, w)
    BY <1>1 DEF Creating
  <1>5. TypeOK'
    BY <1>1, <1>2 DEF IndInv, TypeOK, Tick
  <1>6. LimitIsExact'
    BY <1>1, <1>3, <1>4 DEF IndInv, LimitIsExact, ExactIn
  <1>7. WindowsHaveBegun'
    BY <1>1, <1>2, RateAssumption DEF IndInv, WindowsHaveBegun, TypeOK, Request, Time
  <1>8. ExpiryIsFarOff' /\ PassedWereCounted'
    BY <1>1, <1>3 DEF IndInv, ExpiryIsFarOff, PassedWereCounted
  <1>9. CreatorFits'
    BY <1>1, <1>3, <1>4 DEF IndInv, CreatorFits
  <1> QED BY <1>5, <1>6, <1>7, <1>8, <1>9 DEF IndInv

\* A restart takes the creators with it, and their counters are orphans.
LEMMA CrashStep == ASSUME IndInv, Crash PROVE IndInv'
  <1>1. /\ now' = now /\ counter' = counter /\ passed' = passed /\ calls' = calls
        /\ orphan' = orphan \cup {w \in Time : \E r \in Requests : Creating(r, w)}
    BY DEF Crash
  <1>2. \A s \in Requests : /\ req'[s] \in Request /\ req'[s].at = "idle"
                            /\ req'[s].window = req[s].window
                            /\ req'[s].answer = "limited" => req[s].answer = "limited"
    BY DEF IndInv, TypeOK, Request, Crash, Answered
  <1>3. \A s \in Requests, w \in Time : ~ Creating(s, w)'
    BY <1>2 DEF Creating
  <1>4. TypeOK'
    BY <1>1, <1>2 DEF IndInv, TypeOK, Crash
  <1>5. LimitIsExact'
    BY <1>1, <1>2 DEF IndInv, LimitIsExact, ExactIn
  <1>6. (WindowsHaveBegun /\ ExpiryIsFarOff /\ PassedWereCounted)'
    BY <1>1, <1>2 DEF IndInv, WindowsHaveBegun, ExpiryIsFarOff, PassedWereCounted
  <1>7. CreatorFits'
    BY <1>3 DEF CreatorFits
  <1> QED BY <1>4, <1>5, <1>6, <1>7 DEF IndInv

LEMMA StutterStep == ASSUME IndInv, UNCHANGED vars PROVE IndInv'
  BY DEF IndInv, vars, TypeOK, LimitIsExact, ExactIn, Creating, WindowsHaveBegun,
         ExpiryIsFarOff, PassedWereCounted, CreatorFits

LEMMA StepHolds == IndInv /\ [Next]_vars => IndInv'
  <1> SUFFICES ASSUME IndInv, [Next]_vars PROVE IndInv'
    OBVIOUS
  <1>1. CASE UNCHANGED vars BY <1>1, StutterStep
  <1>2. ASSUME NEW r \in Requests, Ask(r) PROVE IndInv' BY <1>2, AskStep
  <1>3. ASSUME NEW r \in Requests, Incr(r) PROVE IndInv' BY <1>3, IncrStep
  <1>4. ASSUME NEW r \in Requests, IncrFails(r) PROVE IndInv' BY <1>4, IncrFailsStep
  <1>5. ASSUME NEW r \in Requests, Expire(r) PROVE IndInv' BY <1>5, ExpireStep
  <1>6. ASSUME NEW w \in Time, Lapse(w) PROVE IndInv' BY <1>6, LapseStep
  <1>7. CASE Tick BY <1>7, TickStep
  <1>8. CASE Crash BY <1>8, CrashStep
  <1>9. CASE Rest BY <1>9, StutterStep DEF Rest
  <1> QED BY <1>1, <1>2, <1>3, <1>4, <1>5, <1>6, <1>7, <1>8, <1>9 DEF Next

-----------------------------------------------------------------------------

\* The invariant of the rate limit holds in every reachable state.
THEOREM Invariance == Spec => []IndInv
  BY InitHolds, StepHolds, PTL DEF Spec

\* Counters, windows and answers keep their types.
THEOREM TypeCorrect == Spec => []TypeOK
  <1>1. IndInv => TypeOK BY DEF IndInv
  <1> QED BY <1>1, Invariance, PTL

\* At most RPS requests of a window pass the counter, none is turned away
\* before, and every counter expires unless a Redis call was lost, whatever
\* the requests, their number, the ticks and restarts between their calls.
THEOREM LimitStaysExact == Spec => []LimitIsExact
  <1>1. IndInv => LimitIsExact BY DEF IndInv
  <1> QED BY <1>1, Invariance, PTL
=============================================================================
