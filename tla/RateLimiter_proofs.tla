-------------------------- MODULE RateLimiter_proofs --------------------------
(***************************************************************************)
(* For every number of workers, of requests and of retries: a request is   *)
(* carried out once at most, and workers that have the token to themselves *)
(* never meet the primary limit when the threshold is large enough for     *)
(* their number.                                                           *)
(***************************************************************************)
EXTENDS RateLimiter, FiniteSetTheorems, TLAPS

(* What the answer that is awaited, or was received, says of the request:  *)
(* nothing is carried out before the request is sent, nor when the answer  *)
(* is a limit, and only these are sent again.                              *)
CallerOK(q, r) ==
    /\ q.pc = "sent" <=> r # NoReply
    /\ q.applied <= 1
    /\ q.pc \in {"check", "sleep", "send", "backoff"} => q.applied = 0
    /\ r # NoReply /\ Limited(r) => q.applied = 0
    /\ q.pc = "backoff" => q.attempt < MaxRetries
RequestInv == TypeOK /\ \A c \in Callers : CallerOK(req[c], reply[c])

(* Powers of two are natural numbers: they count subsets.                  *)
LEMMA PowerOfTwo == \A n \in Nat : 2^n \in Nat
<1> TAKE n \in Nat
<1>1. IsFiniteSet(1..n) /\ Cardinality(1..n) = n
  BY FS_Interval
<1>2. IsFiniteSet(SUBSET (1..n)) /\ Cardinality(SUBSET (1..n)) = 2^n
  BY <1>1, FS_SUBSET
<1> QED BY <1>2, FS_CardinalityType

LEMMA Numbers ==
    /\ Requests \in Nat /\ Limit \in Nat /\ Window \in Nat /\ Threshold \in Nat
    /\ BaseDelay \in Nat /\ Deadline \in Nat /\ MaxRetries \in Nat
    /\ Requests > 0 /\ Limit > 0 /\ Window > 0 /\ Threshold > 0 /\ Deadline > 0
    /\ \A after \in RetryAfters \cup {0} : after \in Nat
<1>1. /\ Requests \in Nat \ {0} /\ Limit \in Nat \ {0} /\ Window \in Nat \ {0}
      /\ Threshold \in Nat \ {0} /\ BaseDelay \in Nat \ {0} /\ Deadline \in Nat \ {0}
  BY NumberAssumption DEF NumberAssumption
<1>2. MaxRetries \in Nat /\ RetryAfters \subseteq Nat
  BY NumberAssumption DEF NumberAssumption
<1> QED BY <1>1, <1>2

LEMMA DelayTyped ==
    ASSUME NEW c \in Callers, req[c] \in Request, NEW r \in Reply
    PROVE  Delay(c, r) \in Nat
<1>1. r.retryAfter \in Nat
  BY Numbers DEF Reply
<1>2. req[c].attempt \in Nat /\ BaseDelay \in Nat
  BY Numbers DEF Request
<1>3. 2^req[c].attempt \in Nat
  BY <1>2, PowerOfTwo
<1> DEFINE p == 2^req[c].attempt
<1>4. p \in Nat /\ BaseDelay * p \in Nat
  <2> HIDE DEF p
  <2>1. p \in Nat
    BY <1>3 DEF p
  <2> QED BY <1>2, <2>1
<1> QED BY <1>1, <1>4 DEF Delay

LEMMA Replies == NoReply \notin Reply
BY DEF NoReply, Reply

(* A step of one caller that keeps its own request and reply in order      *)
(* keeps all of them.                                                      *)
LEMMA CallerStep ==
    ASSUME RequestInv, NEW c \in Callers, NEW q \in Request,
           NEW r \in Reply \cup {NoReply}, CallerOK(q, r), Set(c, q),
           reply' = [reply EXCEPT ![c] = r],
           now' \in 0..Deadline, quota' \in 0..Limit, reset' \in Nat,
           remaining' \in -1..Limit, resetAt' \in Nat, alone' \in BOOLEAN
    PROVE  RequestInv'
BY DEF RequestInv, TypeOK, Set, CallerOK, Limited

LEMMA SameReply == ASSUME TypeOK, NEW c \in Callers, UNCHANGED reply
                   PROVE  reply' = [reply EXCEPT ![c] = reply[c]]
BY DEF TypeOK

-----------------------------------------------------------------------------
LEMMA InitRequest == Init => RequestInv
<1> SUFFICES ASSUME Init PROVE RequestInv
  OBVIOUS
<1>1. Fresh(Requests) \in Request
  BY Numbers DEF Fresh, Request, Pcs
<1>2. CallerOK(Fresh(Requests), NoReply)
  BY DEF CallerOK, Fresh
<1> QED BY <1>1, <1>2, Numbers DEF Init, RequestInv, TypeOK, Numbers

(* The steps of a caller, one by one: do, waitIfBelowThreshold,            *)
(* updateRateLimitState.                                                   *)
LEMMA NextRequestInv == ASSUME RequestInv, [Next]_vars PROVE RequestInv'
<1> USE DEF RequestInv
<1>0. /\ now \in 0..Deadline /\ quota \in 0..Limit /\ reset \in Nat
      /\ remaining \in -1..Limit /\ resetAt \in Nat /\ alone \in BOOLEAN
  BY DEF TypeOK
<1>1. ASSUME NEW c \in Callers, Step(c) PROVE RequestInv'
  <2>0. /\ req[c] \in Request /\ reply[c] \in Reply \cup {NoReply}
        /\ CallerOK(req[c], reply[c])
    BY DEF TypeOK
  <2>1. CASE Check(c)
    <3>1. PICK q \in Request : Set(c, q) /\ CallerOK(q, reply[c])
      <4>1. /\ [req[c] EXCEPT !.pc = "sleep", !.until = resetAt] \in Request
            /\ CallerOK([req[c] EXCEPT !.pc = "sleep", !.until = resetAt], reply[c])
        BY <2>0, <2>1, <1>0 DEF Check, Request, Pcs, CallerOK
      <4>2. /\ [req[c] EXCEPT !.pc = "send"] \in Request
            /\ CallerOK([req[c] EXCEPT !.pc = "send"], reply[c])
        BY <2>0, <2>1 DEF Check, Request, Pcs, CallerOK
      <4> QED BY <2>1, <4>1, <4>2 DEF Check
    <3>2. UNCHANGED <<now, quota, reset, remaining, resetAt, reply, alone>>
      BY <2>1 DEF Check, Server, Shared
    <3> QED BY <1>0, <2>0, <3>1, <3>2, CallerStep, SameReply
  <2>2. CASE Wake(c)
    <3>1. PICK q \in Request : Set(c, q) /\ CallerOK(q, reply[c])
      <4>1. CASE req[c].pc = "sleep"
        <5>1. /\ [req[c] EXCEPT !.pc = "send"] \in Request
              /\ CallerOK([req[c] EXCEPT !.pc = "send"], reply[c])
          BY <2>0, <4>1 DEF Request, Pcs, CallerOK
        <5> QED BY <2>2, <4>1, <5>1 DEF Wake
      <4>2. CASE req[c].pc = "backoff"
        <5>1. req[c].attempt + 1 \in 0..MaxRetries
          BY <2>0, <4>2, Numbers DEF Request, CallerOK
        <5>2. /\ [req[c] EXCEPT !.pc = "check", !.attempt = @ + 1] \in Request
              /\ CallerOK([req[c] EXCEPT !.pc = "check", !.attempt = @ + 1], reply[c])
          BY <2>0, <4>2, <5>1 DEF Request, Pcs, CallerOK
        <5> QED BY <2>2, <4>2, <5>2 DEF Wake
      <4> QED BY <2>2, <4>1, <4>2 DEF Wake
    <3>2. UNCHANGED <<now, quota, reset, remaining, resetAt, reply, alone>>
      BY <2>2 DEF Wake, Server, Shared
    <3> QED BY <1>0, <2>0, <3>1, <3>2, CallerStep, SameReply
  <2>3. CASE Send(c)
    <3> DEFINE sent == [req[c] EXCEPT !.pc = "sent",
                          !.body = IF c \in Writes THEN "empty" ELSE @]
    <3>1. req[c].pc = "send" /\ req[c].applied = 0
      BY <2>0, <2>3 DEF Send, CallerOK
    <3>2. sent \in Request /\ sent.applied = 0 /\ sent.pc = "sent"
      BY <2>0, <3>1 DEF Request, Pcs
    <3>3. UNCHANGED <<now, reset, remaining, resetAt>>
      BY <2>3 DEF Send, Shared
    <3> HIDE DEF sent
    <3>4. CASE /\ quota > 0 /\ quota' = quota - 1
               /\ reply' = [reply EXCEPT ![c] =
                     Answer(IF Accepted(c) THEN 200 ELSE 400, quota - 1, 0)]
               /\ Set(c, [sent EXCEPT !.applied = IF Accepted(c) THEN @ + 1 ELSE @])
               /\ UNCHANGED alone
      <4> DEFINE r == Answer(IF Accepted(c) THEN 200 ELSE 400, quota - 1, 0)
                 q == [sent EXCEPT !.applied = IF Accepted(c) THEN @ + 1 ELSE @]
      <4>1. r \in Reply /\ ~Limited(r)
        <5>1. quota - 1 \in 0..Limit
          BY <1>0, <3>4, Numbers
        <5> QED BY <1>0, <5>1 DEF Answer, Reply, Limited
      <4>2. q \in Request /\ q.pc = "sent" /\ q.applied <= 1
        <5>1. CASE Accepted(c)
          <6>1. q = [sent EXCEPT !.applied = 1]
            BY <3>2, <5>1
          <6> QED BY <3>2, <6>1 DEF Request
        <5>2. CASE ~Accepted(c)
          <6>1. q = [sent EXCEPT !.applied = @]
            BY <5>2
          <6>2. q = sent
            BY <3>2, <6>1 DEF Request
          <6> QED BY <3>2, <6>2
        <5> QED BY <5>1, <5>2
      <4>3. quota' \in 0..Limit
        BY <1>0, <3>4, Numbers
      <4>4. Set(c, q) /\ reply' = [reply EXCEPT ![c] = r]
        BY <3>4
      <4>5. CallerOK(q, r)
        <5> HIDE DEF q, r
        <5> QED BY <4>1, <4>2, Replies DEF CallerOK
      <4> HIDE DEF q, r
      <4> QED BY <1>0, <3>3, <3>4, <4>1, <4>2, <4>3, <4>4, <4>5, CallerStep
    <3>5. CASE /\ quota = 0 /\ Set(c, sent) /\ UNCHANGED <<quota, alone>>
               /\ \E status \in {403, 429}, after \in RetryAfters :
                    reply' = [reply EXCEPT ![c] = Answer(status, 0, after)]
      <4>1. PICK answer \in Reply : /\ CallerOK(sent, answer)
                                    /\ reply' = [reply EXCEPT ![c] = answer]
        <5> DEFINE Primary == {403, 429}
        <5>1. \A status \in Primary, after \in RetryAfters :
                 Answer(status, 0, after) \in Reply
          BY <1>0, Numbers DEF Answer, Reply
        <5>2. \A answer \in Reply : CallerOK(sent, answer)
          BY <3>2, Replies DEF CallerOK
        <5>3. \E status \in Primary, after \in RetryAfters :
                 reply' = [reply EXCEPT ![c] = Answer(status, 0, after)]
          BY <3>5
        <5> HIDE DEF Primary
        <5> QED BY <5>1, <5>2, <5>3
      <4>2. quota' \in 0..Limit /\ alone' \in BOOLEAN /\ Set(c, sent)
        BY <1>0, <3>5
      <4> QED BY <1>0, <3>2, <3>3, <4>1, <4>2, CallerStep
    <3>6. CASE /\ quota > 0 /\ Set(c, sent) /\ alone' = FALSE /\ UNCHANGED quota
               /\ \E status \in Secondary, after \in RetryAfters :
                    reply' = [reply EXCEPT ![c] = Answer(status, quota, after)]
      <4>1. PICK status \in Secondary, after \in RetryAfters :
                 reply' = [reply EXCEPT ![c] = Answer(status, quota, after)]
        BY <3>6
      <4>2. Answer(status, quota, after) \in Reply
        BY <1>0, <3>6, CallerAssumption DEF Answer, Reply, CallerAssumption
      <4>3. CallerOK(sent, Answer(status, quota, after))
        BY <3>2, <4>2, Replies DEF CallerOK
      <4> QED BY <1>0, <3>2, <3>3, <3>6, <4>1, <4>2, <4>3, CallerStep
    <3> QED BY <2>3, <3>4, <3>5, <3>6 DEF Send, sent
  <2>4. CASE Receive(c)
    <3> DEFINE r == reply[c]
    <3>1. /\ r \in Reply /\ req[c].pc = "sent" /\ reply' = [reply EXCEPT ![c] = NoReply]
          /\ remaining' = r.remaining /\ resetAt' = r.reset
          /\ UNCHANGED <<now, quota, reset, alone>>
      BY <2>0, <2>4 DEF Receive, updateRateLimitState, Server
    <3>2. remaining' \in -1..Limit /\ resetAt' \in Nat
      BY <3>1, Numbers DEF Reply, Numbers
    <3>3. PICK q \in Request : Set(c, q) /\ CallerOK(q, NoReply)
      <4>1. CASE ~mustRetry(r) /\ Set(c, [req[c] EXCEPT !.pc = "done"])
        BY <2>0, <4>1 DEF CallerOK, Request, Pcs
      <4>2. CASE mustRetry(r) /\ Set(c, [req[c] EXCEPT !.pc = "failed"])
        BY <2>0, <4>2 DEF CallerOK, Request, Pcs
      <4>3. CASE /\ mustRetry(r) /\ ~lastAttempt(c)
                 /\ Set(c, [req[c] EXCEPT !.pc = "backoff", !.until = now + Delay(c, r)])
        <5>1. now + Delay(c, r) \in Nat
          <6>1. Delay(c, r) \in Nat
            BY <2>0, <3>1, DelayTyped
          <6> QED BY <1>0, <6>1
        <5>2. req[c].applied = 0 /\ req[c].attempt < MaxRetries
          BY <2>0, <3>1, <4>3, Replies, Numbers
             DEF CallerOK, mustRetry, lastAttempt, Request, Numbers
        <5> DEFINE u == now + Delay(c, r)
                   q == [req[c] EXCEPT !.pc = "backoff", !.until = u]
        <5>3. q \in Request /\ CallerOK(q, NoReply)
          <6> HIDE DEF u
          <6>1. u \in Nat
            BY <5>1 DEF u
          <6> QED BY <2>0, <5>2, <6>1 DEF CallerOK, Request, Pcs
        <5> HIDE DEF q
        <5> QED BY <4>3, <5>3 DEF q
      <4> QED BY <2>4, <4>1, <4>2, <4>3 DEF Receive
    <3> HIDE DEF r
    <3> QED BY <1>0, <3>1, <3>2, <3>3, CallerStep
  <2>5. CASE TransportError(c) \/ Cancel(c)
    <3>1. /\ Set(c, [req[c] EXCEPT !.pc = "failed"])
          /\ reply' = [reply EXCEPT ![c] = NoReply]
          /\ alone' = FALSE /\ UNCHANGED <<now, quota, reset, remaining, resetAt>>
      BY <2>5 DEF TransportError, Cancel, lostRequest, Server, Shared
    <3>2. [req[c] EXCEPT !.pc = "failed"] \in Request
      BY <2>0 DEF Request, Pcs
    <3>3. CallerOK([req[c] EXCEPT !.pc = "failed"], NoReply)
      BY <2>0 DEF CallerOK, Request
    <3> QED BY <1>0, <3>1, <3>2, <3>3, CallerStep
  <2>6. CASE NextRequest(c)
    <3>1. /\ Set(c, Fresh(req[c].left - 1))
          /\ UNCHANGED <<now, quota, reset, remaining, resetAt, reply, alone>>
      BY <2>6 DEF NextRequest, Server, Shared
    <3>2. Fresh(req[c].left - 1) \in Request
      <4>1. req[c].left - 1 \in 0..Requests
        BY <2>0, <2>6, Numbers DEF NextRequest, Request, Numbers
      <4> QED BY <4>1, Numbers DEF Fresh, Request, Pcs, Numbers
    <3>3. CallerOK(Fresh(req[c].left - 1), reply[c])
      BY <2>0, <2>6 DEF NextRequest, CallerOK, Fresh
    <3> QED BY <1>0, <2>0, <3>1, <3>2, <3>3, CallerStep, SameReply
  <2> QED BY <1>1, <2>1, <2>2, <2>3, <2>4, <2>5, <2>6 DEF Step
<1>2. CASE Tick
  BY <1>2, <1>0, Numbers DEF Tick, Shared, TypeOK, Numbers
<1>3. CASE OtherClient
  <2>1. quota - 1 \in 0..Limit
    BY <1>3, <1>0, Numbers DEF OtherClient
  <2> QED BY <1>3, <1>0, <2>1 DEF OtherClient, Shared, TypeOK
<1>4. CASE UNCHANGED vars
  BY <1>4 DEF vars, TypeOK
<1> QED BY <1>1, <1>2, <1>3, <1>4 DEF Next

(* The state of the limiter keeps its types, for every number of callers,  *)
(* requests and retries.                                                   *)
THEOREM TypeHolds == Spec => []TypeOK
<1>1. RequestInv /\ [Next]_vars => RequestInv'
  BY NextRequestInv
<1>2. RequestInv => TypeOK
  BY DEF RequestInv
<1> QED BY <1>1, <1>2, InitRequest, PTL DEF Spec

(* client.go:447-461: however often a request is sent, the server carries  *)
(* it out once at most.                                                    *)
THEOREM AppliedOnceHolds == Spec => []AppliedOnce
<1>1. RequestInv /\ [Next]_vars => RequestInv'
  BY NextRequestInv
<1>2. RequestInv => AppliedOnce
  BY DEF RequestInv, CallerOK, AppliedOnce
<1> QED BY <1>1, <1>2, InitRequest, PTL DEF Spec

-----------------------------------------------------------------------------
(* How many workers there may be for the threshold and the quota.          *)
Workers == Cardinality(Callers)
LargeEnough ==
    /\ IsFiniteSet(Callers)
    /\ 2 * Threshold >= Workers * (Workers + 1)
    /\ 2 * Limit >= Workers * (Workers + 1)

(* Every time the limiter knows is that of this window or has passed.      *)
WindowInv ==
    /\ now < reset
    /\ resetAt <= now \/ resetAt = reset
    /\ \A c \in Callers :
          /\ req[c].pc = "sleep" => req[c].until <= now \/ req[c].until = reset
          /\ reply[c] # NoReply => reply[c].reset <= now \/ reply[c].reset = reset

(* An answer that, once received, lets workers send: it has a high count,  *)
(* or one of an earlier window.                                            *)
Misleads(q, r) == q.pc = "sent" /\ (r.reset # reset \/ r.remaining >= Threshold)
Sends(q) == q.pc = "send" \/ (q.pc = "sleep" /\ q.until <= now)
Rests(q) == q.pc \in {"check", "done", "failed"}

(* The workers that will send whatever they hear; those that would send if *)
(* they checked now; those whose answer, on its way, lets others send.     *)
Committed == {c \in Callers : Sends(req[c])}
Free == {c \in Callers : Rests(req[c]) /\ ~BelowThreshold}
Misled == {c \in Callers : Misleads(req[c], reply[c])}

(* Twice the requests that may still go out in this window before every    *)
(* worker has seen a low count: with h misleading answers on their way,    *)
(* the next to arrive lets Workers - h + 1 others send, and so on.         *)
Twice(p, f, h) == 2 * p + 2 * f + h * (2 * Workers + 1 - h)
Demand == Twice(Cardinality(Committed), Cardinality(Free), Cardinality(Misled))

AloneInv == alone =>
    /\ quota >= Threshold \/ 2 * quota >= Demand
    /\ \A c \in Callers : /\ req[c].pc # "backoff"
                          /\ reply[c] # NoReply => reply[c].status \in {200, 400}
LimitInv == RequestInv /\ WindowInv /\ AloneInv

LEMMA WorkersTyped == ASSUME LargeEnough PROVE Workers \in Nat
BY FS_CardinalityType DEF LargeEnough, Workers

(* The demand is greatest when nobody knows: half n (n + 1).               *)
LEMMA TwiceBound ==
    ASSUME NEW n \in Nat, NEW p \in Nat, NEW f \in Nat, NEW h \in Nat, p + f + h <= n
    PROVE  2 * p + 2 * f + h * (2 * n + 1 - h) <= n * (n + 1)
<1> DEFINE k == n - h
<1>1. k \in Nat /\ 2 * p + 2 * f <= 2 * k /\ n = h + k
  OBVIOUS
<1>2. k * (k - 1) >= 0
  <2> HIDE DEF k
  <2>1. CASE k = 0
    BY <2>1
  <2>2. CASE k # 0
    <3>1. k - 1 \in Nat
      BY <1>1, <2>2
    <3>2. \A a, b \in Nat : a * b >= 0
      OBVIOUS
    <3> QED BY <1>1, <3>1, <3>2
  <2> QED BY <2>1, <2>2
<1>3. h * (2 * (h + k) + 1 - h) + 2 * k + k * (k - 1) = (h + k) * (h + k + 1)
  <2> HIDE DEF k
  <2> QED BY <1>1
<1> HIDE DEF k
<1>4. h * (2 * (h + k) + 1 - h) \in Int /\ k * (k - 1) \in Int
  BY <1>1
<1> QED BY <1>1, <1>2, <1>3, <1>4

(* One misleading answer fewer lets n - h + 1 workers send.                *)
LEMMA OneFewer ==
    ASSUME NEW n \in Nat, NEW h \in Nat, h >= 1
    PROVE  (h - 1) * (2 * n + 1 - (h - 1)) + 2 * (n - (h - 1)) = h * (2 * n + 1 - h)
OBVIOUS

LEMMA SomeDemand ==
    ASSUME NEW n \in Nat, NEW h \in Nat, h <= n
    PROVE  h * (2 * n + 1 - h) \in Nat
<1>1. 2 * n + 1 - h \in Nat
  OBVIOUS
<1>2. \A a, b \in Nat : a * b \in Nat
  OBVIOUS
<1> QED BY <1>1, <1>2

(* Disjoint sets of workers.                                               *)
LEMMA Parts ==
    ASSUME LargeEnough, NEW P, NEW F, NEW H, P \cup F \cup H \subseteq Callers,
           P \cap F = {}, P \cap H = {}, F \cap H = {}
    PROVE  /\ IsFiniteSet(P) /\ IsFiniteSet(F) /\ IsFiniteSet(H)
           /\ Cardinality(P) \in Nat /\ Cardinality(F) \in Nat /\ Cardinality(H) \in Nat
           /\ Cardinality(P) + Cardinality(F) + Cardinality(H) <= Workers
           /\ Twice(Cardinality(P), Cardinality(F), Cardinality(H)) <= 2 * Threshold
           /\ Twice(Cardinality(P), Cardinality(F), Cardinality(H)) <= 2 * Limit
<1>1. IsFiniteSet(P) /\ IsFiniteSet(F) /\ IsFiniteSet(H)
  BY FS_Subset DEF LargeEnough
<1>2. Cardinality(P) \in Nat /\ Cardinality(F) \in Nat /\ Cardinality(H) \in Nat
  BY <1>1, FS_CardinalityType
<1>3. /\ IsFiniteSet(P \cup F)
      /\ Cardinality(P \cup F) = Cardinality(P) + Cardinality(F)
  BY <1>1, <1>2, FS_Union, FS_EmptySet
<1>4. Cardinality((P \cup F) \cup H) = Cardinality(P) + Cardinality(F) + Cardinality(H)
  <2>1. (P \cup F) \cap H = {}
    OBVIOUS
  <2> DEFINE U == P \cup F
  <2>2. IsFiniteSet(U) /\ U \cap H = {} /\ Cardinality(U) = Cardinality(P) + Cardinality(F)
    BY <1>3, <2>1
  <2> HIDE DEF U
  <2>3. Cardinality(U \cup H) = Cardinality(U) + Cardinality(H) - Cardinality({})
    BY <1>1, <2>2, FS_Union
  <2>4. Cardinality(U \cup H) = Cardinality(P) + Cardinality(F) + Cardinality(H)
    BY <1>2, <2>2, <2>3, FS_EmptySet
  <2> QED BY <2>4 DEF U
<1>5. Cardinality((P \cup F) \cup H) <= Workers
  BY FS_Subset DEF LargeEnough, Workers
<1>6. Cardinality(P) + Cardinality(F) + Cardinality(H) <= Workers
  BY <1>4, <1>5
<1> DEFINE p == Cardinality(P)
           f == Cardinality(F)
           h == Cardinality(H)
<1>7. Twice(p, f, h) <= Workers * (Workers + 1)
  <2>1. p \in Nat /\ f \in Nat /\ h \in Nat /\ p + f + h <= Workers
    BY <1>2, <1>6
  <2> HIDE DEF p, f, h
  <2> QED BY <2>1, WorkersTyped, TwiceBound DEF Twice
<1>8. Twice(p, f, h) \in Int
  <2>1. p \in Nat /\ f \in Nat /\ h \in Nat
    BY <1>2
  <2> HIDE DEF p, f, h
  <2> QED BY <2>1, WorkersTyped DEF Twice
<1>9. Workers * (Workers + 1) \in Int
  BY WorkersTyped
<1>10. Twice(p, f, h) <= 2 * Threshold /\ Twice(p, f, h) <= 2 * Limit
  <2> HIDE DEF p, f, h
  <2> QED BY <1>7, <1>8, <1>9, Numbers DEF LargeEnough
<1> QED BY <1>1, <1>2, <1>6, <1>10

LEMMA Kinds ==
    /\ Committed \cup Free \cup Misled \subseteq Callers
    /\ Committed \cap Free = {} /\ Committed \cap Misled = {} /\ Free \cap Misled = {}
BY DEF Committed, Free, Misled, Sends, Rests, Misleads

-----------------------------------------------------------------------------
LEMMA InitLimit == ASSUME LargeEnough PROVE Init => LimitInv
<1> SUFFICES ASSUME Init PROVE LimitInv
  OBVIOUS
<1>1. WindowInv
  BY Numbers DEF Init, WindowInv, Fresh
<1>2. quota = Limit /\ Demand <= 2 * Limit
  BY Parts, Kinds DEF Init, Demand
<1>3. AloneInv
  BY <1>2, Numbers DEF Init, AloneInv, Fresh
<1> QED BY <1>1, <1>3, InitRequest DEF LimitInv

(* A request that goes out is on its way, and the answer is of this window. *)
LEMMA SendSends ==
    ASSUME TypeOK, NEW c \in Callers, Send(c)
    PROVE  /\ req[c].pc = "send" /\ req'[c].pc = "sent"
           /\ reply'[c].reset = reset /\ UNCHANGED <<now, reset, remaining, resetAt>>
           /\ \A d \in Callers \ {c} : req'[d] = req[d] /\ reply'[d] = reply[d]
<1> DEFINE sent == [req[c] EXCEPT !.pc = "sent",
                      !.body = IF c \in Writes THEN "empty" ELSE @]
<1>1. /\ req \in [Callers -> Request] /\ reply \in [Callers -> Reply \cup {NoReply}]
      /\ req[c] \in Request
  BY DEF TypeOK
<1>2. sent \in Request /\ sent.pc = "sent"
  BY <1>1 DEF Request, Pcs
<1> HIDE DEF sent
<1>3. \A n : [sent EXCEPT !.applied = n].pc = "sent"
  BY <1>2 DEF Request
<1>4. PICK q, r : /\ Set(c, q) /\ reply' = [reply EXCEPT ![c] = r]
                  /\ q.pc = "sent" /\ r.reset = reset
  <2>1. \A status, left, after : Answer(status, left, after).reset = reset
    BY DEF Answer
  <2> HIDE DEF sent
  <2>2. CASE /\ Set(c, [sent EXCEPT !.applied = IF Accepted(c) THEN @ + 1 ELSE @])
             /\ reply' = [reply EXCEPT ![c] =
                     Answer(IF Accepted(c) THEN 200 ELSE 400, quota - 1, 0)]
    <3> DEFINE q == [sent EXCEPT !.applied = IF Accepted(c) THEN @ + 1 ELSE @]
               r == Answer(IF Accepted(c) THEN 200 ELSE 400, quota - 1, 0)
    <3>1. q.pc = "sent" /\ r.reset = reset
      BY <1>2, <2>1, <1>3
    <3>2. Set(c, q) /\ reply' = [reply EXCEPT ![c] = r]
      BY <2>2
    <3> HIDE DEF q, r
    <3> QED BY <3>1, <3>2
  <2>3. CASE Set(c, sent) /\ \E r : r.reset = reset /\ reply' = [reply EXCEPT ![c] = r]
    BY <1>2, <2>3
  <2> DEFINE Primary == {403, 429}
  <2>4. CASE Set(c, sent) /\ \E status \in Primary, after \in RetryAfters :
                reply' = [reply EXCEPT ![c] = Answer(status, 0, after)]
    <3> HIDE DEF Primary
    <3> QED BY <2>1, <2>3, <2>4
  <2>5. CASE Set(c, sent) /\ \E status \in Secondary, after \in RetryAfters :
                reply' = [reply EXCEPT ![c] = Answer(status, quota, after)]
    BY <2>1, <2>3, <2>5
  <2> QED BY <2>2, <2>4, <2>5 DEF Send, sent
<1>5. req'[c] = q /\ reply'[c] = r /\ UNCHANGED <<now, reset, remaining, resetAt>>
  BY <1>1, <1>4 DEF Send, Shared, Set
<1> QED BY <1>1, <1>4, <1>5 DEF Send, Set

(* Nothing goes back in time: windows end after now, and what the limiter  *)
(* knows is of this window or over.                                        *)
LEMMA NextWindow == ASSUME RequestInv, WindowInv, [Next]_vars PROVE WindowInv'
<1>0. /\ now \in Nat /\ reset \in Nat /\ resetAt \in Nat
      /\ req \in [Callers -> Request] /\ reply \in [Callers -> Reply \cup {NoReply}]
  BY Numbers DEF RequestInv, TypeOK
<1>1. ASSUME NEW c \in Callers, Step(c) PROVE WindowInv'
  <2>1. UNCHANGED <<now, reset>>
    BY <1>1 DEF Step, Check, Wake, Send, Receive, TransportError, Cancel, NextRequest, Server
  <2>2. resetAt' \in {resetAt, reply[c].reset} /\ (resetAt' # resetAt => reply[c] # NoReply)
    BY <1>1 DEF Step, Check, Wake, Send, Receive, TransportError, Cancel, NextRequest,
                Server, Shared, updateRateLimitState
  <2>3. reply'[c] # NoReply => reply'[c].reset = reset \/ reply'[c] = reply[c]
    BY <1>0, <1>1 DEF Step, Check, Wake, Send, Receive, TransportError, Cancel, NextRequest,
                Answer
  <2>4. req'[c].pc = "sleep" => req'[c].until = resetAt
    <3>1. CASE Check(c)
      BY <1>0, <3>1 DEF Check, Set, Request
    <3>2. CASE Wake(c)
      BY <1>0, <3>2 DEF Wake, Set, Request
    <3>3. CASE Send(c)
      BY <3>3, SendSends DEF RequestInv
    <3>4. CASE Receive(c)
      BY <1>0, <3>4 DEF Receive, Set, Request
    <3>5. CASE TransportError(c) \/ Cancel(c) \/ NextRequest(c)
      BY <1>0, <3>5 DEF TransportError, Cancel, NextRequest, Set, Request, Fresh, lostRequest
    <3> QED BY <1>1, <3>1, <3>2, <3>3, <3>4, <3>5 DEF Step
  <2>5. \A d \in Callers \ {c} : req'[d] = req[d] /\ reply'[d] = reply[d]
    BY <1>0, <1>1 DEF Step, Check, Wake, Send, Receive, TransportError, Cancel, NextRequest, Set
  <2> QED BY <2>1, <2>2, <2>3, <2>4, <2>5 DEF WindowInv
<1>2. CASE Tick
  <2>1. now' = now + 1 /\ UNCHANGED <<resetAt, req, reply>>
    BY <1>2 DEF Tick, Shared
  <2>2. now' < reset' /\ (reset <= now' \/ reset' = reset)
    BY <1>0, <1>2, Numbers DEF Tick, WindowInv
  <2>3. \A t \in Nat : t <= now \/ t = reset => t <= now' \/ t = reset'
    BY <1>0, <2>1, <2>2
  <2>4. resetAt' <= now' \/ resetAt' = reset'
    BY <1>0, <2>1, <2>3 DEF WindowInv
  <2>5. \A c \in Callers : /\ req[c].until \in Nat
                           /\ reply[c] # NoReply => reply[c].reset \in Nat
    BY <1>0 DEF Request, Reply
  <2>6. ASSUME NEW c \in Callers
        PROVE  /\ req'[c].pc = "sleep" => req'[c].until <= now' \/ req'[c].until = reset'
               /\ reply'[c] # NoReply => reply'[c].reset <= now' \/ reply'[c].reset = reset'
    <3> DEFINE u == req[c].until
               t == reply[c].reset
    <3>1. u \in Nat /\ (reply[c] # NoReply => t \in Nat)
      BY <2>5
    <3>2. /\ req[c].pc = "sleep" => u <= now \/ u = reset
          /\ reply[c] # NoReply => t <= now \/ t = reset
      BY DEF WindowInv
    <3>3. /\ req[c].pc = "sleep" => u <= now' \/ u = reset'
          /\ reply[c] # NoReply => t <= now' \/ t = reset'
      <4> HIDE DEF u, t
      <4> QED BY <2>3, <3>1, <3>2
    <3>4. req' = req /\ reply' = reply
      BY <2>1
    <3> QED BY <3>3, <3>4
  <2> QED BY <2>2, <2>4, <2>6 DEF WindowInv
<1>3. CASE OtherClient \/ UNCHANGED vars
  BY <1>3 DEF OtherClient, vars, Shared, WindowInv
<1> QED BY <1>1, <1>2, <1>3 DEF Next

(* Sets of workers: what a step of one of them does to the demand.         *)
LEMMA Shrinks ==
    ASSUME LargeEnough, UNCHANGED <<Misled>>,
           Cardinality(Committed') \in Nat, Cardinality(Free') \in Nat,
           Cardinality(Committed') + Cardinality(Free') <=
              Cardinality(Committed) + Cardinality(Free)
    PROVE  Demand' <= Demand
<1> DEFINE p == Cardinality(Committed)
           f == Cardinality(Free)
           h == Cardinality(Misled)
           q == Cardinality(Committed')
           g == Cardinality(Free')
<1>1. p \in Nat /\ f \in Nat /\ h \in Nat /\ h <= Workers
  <2>1. p \in Nat /\ f \in Nat /\ h \in Nat /\ p + f + h <= Workers
    BY Parts, Kinds
  <2> HIDE DEF p, f, h
  <2> QED BY <2>1, WorkersTyped
<1>2. Demand = Twice(p, f, h) /\ Demand' = Twice(q, g, h)
  BY DEF Demand
<1>3. q \in Nat /\ g \in Nat /\ q + g <= p + f
  OBVIOUS
<1> HIDE DEF p, f, h, q, g
<1>4. h * (2 * Workers + 1 - h) \in Nat
  BY <1>1, WorkersTyped, SomeDemand
<1> DEFINE e == h * (2 * Workers + 1 - h)
<1>5. 2 * q + 2 * g + e <= 2 * p + 2 * f + e
  <2>1. e \in Nat
    BY <1>4
  <2> HIDE DEF e
  <2> QED BY <1>1, <1>3, <2>1
<1>6. Twice(q, g, h) <= Twice(p, f, h)
  BY <1>5 DEF Twice
<1> QED BY <1>2, <1>6

LEMMA TypedSets ==
    ASSUME LargeEnough
    PROVE  /\ Cardinality(Committed) \in Nat /\ Cardinality(Free) \in Nat
           /\ Cardinality(Misled) \in Nat /\ Demand \in Int
           /\ IsFiniteSet(Committed) /\ IsFiniteSet(Free) /\ IsFiniteSet(Misled)
<1> DEFINE p == Cardinality(Committed)
           f == Cardinality(Free)
           h == Cardinality(Misled)
<1>1. /\ p \in Nat /\ f \in Nat /\ h \in Nat
      /\ IsFiniteSet(Committed) /\ IsFiniteSet(Free) /\ IsFiniteSet(Misled)
  BY Parts, Kinds
<1>2. Twice(p, f, h) \in Int
  <2> HIDE DEF p, f, h
  <2> QED BY <1>1, WorkersTyped DEF Twice
<1> QED BY <1>1, <1>2 DEF Demand

LEMMA DemandBound == ASSUME LargeEnough PROVE Demand <= 2 * Limit
BY Parts, Kinds DEF Demand

(* A request that goes out was demanded, and its answer has a low count.   *)
LEMMA OneSent ==
    ASSUME LargeEnough, NEW c \in Committed, Committed' = Committed \ {c},
           UNCHANGED <<Free, Misled>>
    PROVE  Demand' = Demand - 2
<1> DEFINE p == Cardinality(Committed)
           f == Cardinality(Free)
           h == Cardinality(Misled)
           e == h * (2 * Workers + 1 - h)
<1>1. p \in Nat /\ f \in Nat /\ h \in Nat /\ IsFiniteSet(Committed)
  BY TypedSets
<1>2. Cardinality(Committed') = p - 1
  BY <1>1, FS_RemoveElement
<1>3. Demand = 2 * p + 2 * f + e /\ Demand' = 2 * (p - 1) + 2 * f + e
  BY <1>2 DEF Demand, Twice
<1>4. e \in Int
  <2> HIDE DEF p, f, h
  <2> QED BY <1>1, WorkersTyped
<1> HIDE DEF p, f, h, e
<1> QED BY <1>1, <1>3, <1>4

(* A misleading answer arrives: whoever rests may send.                    *)
LEMMA OneMisled ==
    ASSUME LargeEnough, NEW c \in Misled, Misled' = Misled \ {c},
           UNCHANGED Committed,
           Free' \subseteq Callers, Free' \cap Committed' = {}, Free' \cap Misled' = {}
    PROVE  Demand' <= Demand
<1> DEFINE p == Cardinality(Committed)
           f == Cardinality(Free)
           g == Cardinality(Free')
           h == Cardinality(Misled)
           e == h * (2 * Workers + 1 - h)
           d == (h - 1) * (2 * Workers + 1 - (h - 1))
<1>1. p \in Nat /\ f \in Nat /\ h \in Nat /\ IsFiniteSet(Misled)
  BY TypedSets
<1>2. Cardinality(Misled') = h - 1 /\ h >= 1
  <2>1. h # 0
    BY <1>1, FS_EmptySet
  <2>2. Cardinality(Misled \ {c}) = h - 1
    BY <1>1, FS_RemoveElement
  <2>3. h >= 1
    <3> HIDE DEF h
    <3> QED BY <1>1, <2>1
  <2> QED BY <2>2, <2>3
<1>3. g \in Nat /\ p + g + (h - 1) <= Workers
  <2>1. /\ Committed \cup Free' \cup Misled' \subseteq Callers /\ Committed \cap Free' = {}
        /\ Committed \cap Misled' = {} /\ Free' \cap Misled' = {}
    BY Kinds
  <2>2. /\ Cardinality(Free') \in Nat
        /\ Cardinality(Committed) + Cardinality(Free') + Cardinality(Misled') <= Workers
    BY <2>1, Parts
  <2> QED BY <1>2, <2>2
<1>4. Demand = 2 * p + 2 * f + e /\ Demand' = 2 * p + 2 * g + d
  BY <1>2 DEF Demand, Twice
<1>5. e \in Int /\ d \in Int /\ d + 2 * (Workers - (h - 1)) = e
  <2> HIDE DEF p, f, g, h
  <2> QED BY <1>1, <1>2, OneFewer, WorkersTyped
<1> HIDE DEF p, f, g, h, e, d
<1> QED BY <1>1, <1>2, <1>3, <1>4, <1>5, WorkersTyped

(* What the others are does not change when a caller takes a step.         *)
LEMMA OthersSame ==
    ASSUME UNCHANGED <<now, reset>>, NEW c \in Callers,
           \A d \in Callers \ {c} : req'[d] = req[d] /\ reply'[d] = reply[d]
    PROVE  /\ Committed' \ {c} = Committed \ {c} /\ Misled' \ {c} = Misled \ {c}
           /\ UNCHANGED BelowThreshold => Free' \ {c} = Free \ {c}
           /\ BelowThreshold' => Free' = {}
BY DEF Committed, Misled, Free, Sends, Rests, Misleads

(* What holds of one step holds of the demand it leaves: enough quota.     *)
Enough == quota >= Threshold \/ 2 * quota >= Demand

LEMMA NoMoreIsEnough ==
    ASSUME LargeEnough, TypeOK, TypeOK', Enough, quota' = quota, Demand' <= Demand,
           Demand' \in Int
    PROVE  Enough'
<1>1. quota \in Int /\ Threshold \in Int /\ Demand \in Int
  BY TypedSets, Numbers DEF TypeOK
<1> QED BY <1>1 DEF Enough

(* The steps of a caller that was not cut off: the check, the wake up, the *)
(* request, its answer, the next request.                                  *)
LEMMA EnoughStep ==
    ASSUME LargeEnough, LimitInv, RequestInv', alone, alone', Enough,
           NEW c \in Callers, Step(c)
    PROVE  Enough' /\ req'[c].pc # "backoff"
           /\ (reply'[c] # NoReply => reply'[c].status \in {200, 400})
<1>0. /\ TypeOK /\ TypeOK' /\ CallerOK(req[c], reply[c]) /\ WindowInv
      /\ req[c].pc # "backoff" /\ req[c] \in Request
      /\ reply[c] # NoReply => reply[c].status \in {200, 400}
  BY DEF LimitInv, RequestInv, AloneInv, TypeOK
<1>1. /\ req \in [Callers -> Request] /\ reply \in [Callers -> Reply \cup {NoReply}]
      /\ now \in Nat /\ reset \in Nat /\ resetAt \in Nat /\ quota \in 0..Limit
      /\ remaining \in Int
  BY <1>0, Numbers DEF TypeOK
<1>2. /\ Cardinality(Committed') \in Nat /\ Cardinality(Free') \in Nat /\ Demand' \in Int
  <2>1. (/\ Cardinality(Committed) \in Nat /\ Cardinality(Free) \in Nat
         /\ Cardinality(Misled) \in Nat /\ Demand \in Int
         /\ IsFiniteSet(Committed) /\ IsFiniteSet(Free) /\ IsFiniteSet(Misled))'
    BY TypedSets, PTL
  <2> QED BY <2>1
<1>3. ASSUME Committed' = Committed, Free' = Free, Misled' = Misled PROVE Demand' = Demand
  BY <1>3 DEF Demand
<1>4. CASE Check(c)
  <2>1. /\ UNCHANGED <<now, quota, reset, remaining, resetAt, reply, alone>>
        /\ req[c].pc = "check" /\ UNCHANGED BelowThreshold
        /\ \A d \in Callers \ {c} : req'[d] = req[d] /\ reply'[d] = reply[d]
    BY <1>1, <1>4 DEF Check, Set, Server, Shared, BelowThreshold
  <2>2. /\ Committed' \ {c} = Committed \ {c} /\ Misled' \ {c} = Misled \ {c}
        /\ Free' \ {c} = Free \ {c}
    BY <2>1, OthersSame
  <2>3. c \notin Committed /\ c \notin Misled /\ (c \in Free <=> ~BelowThreshold)
    BY <2>1 DEF Committed, Misled, Free, Sends, Misleads, Rests
  <2>4. CASE BelowThreshold
    <3>1. req'[c].pc = "sleep" /\ req'[c].until = resetAt /\ resetAt > now
      <4>1. Set(c, [req[c] EXCEPT !.pc = "sleep", !.until = resetAt])
        BY <1>4, <2>4 DEF Check
      <4>2. resetAt > now
        BY <1>1, <2>4 DEF BelowThreshold
      <4> QED BY <1>0, <1>1, <4>1, <4>2 DEF Set, Request
    <3>2. c \notin Committed' /\ c \notin Misled' /\ c \notin Free'
      BY <1>1, <2>1, <3>1 DEF Committed, Misled, Free, Sends, Misleads, Rests
    <3>3. Demand' = Demand
      BY <1>3, <2>2, <2>3, <2>4, <3>2
    <3>4. Demand' <= Demand
      BY <1>2, <3>3
    <3> QED BY <1>0, <1>2, <2>1, <3>1, <3>4, NoMoreIsEnough
  <2>5. CASE ~BelowThreshold
    <3>1. req'[c].pc = "send"
      BY <1>0, <1>1, <1>4, <2>5 DEF Check, Set, Request
    <3>2. c \in Committed' /\ c \notin Misled' /\ c \notin Free'
      BY <3>1 DEF Committed, Misled, Free, Sends, Misleads, Rests
    <3>3. Committed' = Committed \cup {c} /\ Free' = Free \ {c} /\ Misled' = Misled
      BY <2>2, <2>3, <2>5, <3>2
    <3>4. /\ Cardinality(Committed') = Cardinality(Committed) + 1
          /\ Cardinality(Free') = Cardinality(Free) - 1
      <4>1. c \notin Committed /\ Cardinality(Committed \cup {c}) = Cardinality(Committed) + 1
        BY <2>3, TypedSets, FS_AddElement
      <4>2. c \in Free /\ Cardinality(Free \ {c}) = Cardinality(Free) - 1
        BY <2>3, <2>5, TypedSets, FS_RemoveElement
      <4> QED BY <3>3, <4>1, <4>2
    <3>6. Cardinality(Committed') + Cardinality(Free') <=
             Cardinality(Committed) + Cardinality(Free)
      BY <3>4, TypedSets
    <3>7. Demand' <= Demand
      BY <1>2, <3>3, <3>6, Shrinks
    <3> QED BY <1>0, <1>2, <2>1, <3>1, <3>7, NoMoreIsEnough
  <2> QED BY <2>4, <2>5
<1>5. CASE Wake(c)
  <2>1. /\ UNCHANGED <<now, quota, reset, remaining, resetAt, reply, alone>>
        /\ req[c].pc = "sleep" /\ req[c].until <= now /\ UNCHANGED BelowThreshold
        /\ req'[c].pc = "send"
        /\ \A d \in Callers \ {c} : req'[d] = req[d] /\ reply'[d] = reply[d]
    BY <1>0, <1>1, <1>5 DEF Wake, Set, Server, Shared, BelowThreshold, Request
  <2>2. /\ Committed' \ {c} = Committed \ {c} /\ Misled' \ {c} = Misled \ {c}
        /\ Free' \ {c} = Free \ {c}
    BY <2>1, OthersSame
  <2>3. /\ c \in Committed /\ c \notin Misled /\ c \notin Free
        /\ c \in Committed' /\ c \notin Misled' /\ c \notin Free'
    BY <2>1 DEF Committed, Misled, Free, Sends, Misleads, Rests
  <2>4. Demand' <= Demand
    BY <1>2, <1>3, <2>2, <2>3
  <2> QED BY <1>0, <1>2, <2>1, <2>4, NoMoreIsEnough
<1>6. CASE NextRequest(c)
  <2>1. /\ UNCHANGED <<now, quota, reset, remaining, resetAt, reply, alone>>
        /\ req[c].pc \in {"done", "failed"} /\ UNCHANGED BelowThreshold
        /\ req'[c].pc = "check"
        /\ \A d \in Callers \ {c} : req'[d] = req[d] /\ reply'[d] = reply[d]
    BY <1>0, <1>1, <1>6 DEF NextRequest, Set, Server, Shared, BelowThreshold, Request, Fresh
  <2>2. /\ Committed' \ {c} = Committed \ {c} /\ Misled' \ {c} = Misled \ {c}
        /\ Free' \ {c} = Free \ {c}
    BY <2>1, OthersSame
  <2>3. /\ c \notin Committed /\ c \notin Misled /\ (c \in Free <=> ~BelowThreshold)
        /\ c \notin Committed' /\ c \notin Misled' /\ (c \in Free' <=> ~BelowThreshold')
    BY <2>1 DEF Committed, Misled, Free, Sends, Misleads, Rests
  <2>4. Demand' <= Demand
    BY <1>2, <1>3, <2>1, <2>2, <2>3
  <2> QED BY <1>0, <1>2, <2>1, <2>4, NoMoreIsEnough
<1>7. CASE Send(c)
  <2>1. /\ req[c].pc = "send" /\ req'[c].pc = "sent" /\ reply'[c].reset = reset
        /\ UNCHANGED <<now, reset, remaining, resetAt, BelowThreshold>>
        /\ \A d \in Callers \ {c} : req'[d] = req[d] /\ reply'[d] = reply[d]
    BY <1>0, <1>7, SendSends DEF BelowThreshold
  <2>2. /\ Committed' \ {c} = Committed \ {c} /\ Misled' \ {c} = Misled \ {c}
        /\ Free' \ {c} = Free \ {c}
    BY <2>1, OthersSame
  <2>3. /\ c \in Committed /\ c \notin Misled /\ c \notin Free
        /\ c \notin Committed' /\ c \notin Free'
        /\ c \in Misled' <=> reply'[c].remaining >= Threshold
    BY <2>1 DEF Committed, Misled, Free, Sends, Misleads, Rests
  <2>4. ASSUME reply'[c].remaining < Threshold PROVE Demand' = Demand - 2
    <3>1. c \notin Misled'
      <4>1. c \in Misled' => reply'[c] \in Reply
        BY <1>0, <2>1 DEF TypeOK, LimitInv, RequestInv, CallerOK
      <4>2. c \in Misled' => reply'[c].remaining \in Int
        BY <4>1, Numbers DEF Reply
      <4> QED BY <2>3, <2>4, <4>2, Numbers
    <3>2. Committed' = Committed \ {c} /\ Free' = Free /\ Misled' = Misled
      BY <2>2, <2>3, <3>1
    <3> QED BY <2>3, <3>2, OneSent
  <2>5. CASE quota > 0
    <3>1. /\ quota' = quota - 1
          /\ reply'[c] = Answer(IF Accepted(c) THEN 200 ELSE 400, quota - 1, 0)
      BY <1>1, <1>7, <2>5 DEF Send
    <3>2. reply'[c].status \in {200, 400} /\ reply'[c].remaining = quota - 1
      BY <3>1 DEF Answer
    <3>3. Enough'
      <4>1. CASE quota - 1 >= Threshold
        BY <3>1, <4>1 DEF Enough
      <4>2. CASE quota - 1 < Threshold
        <5>1. Demand' = Demand - 2
          BY <2>4, <3>2, <4>2
        <5>2. 2 * quota >= Demand
          <6>1. CASE quota >= Threshold
            <7>1. Demand <= 2 * Threshold
              BY Parts, Kinds DEF Demand
            <7> QED BY <1>1, <6>1, <7>1, TypedSets, Numbers
          <6>2. CASE ~(quota >= Threshold)
            BY <6>2 DEF Enough
          <6> QED BY <6>1, <6>2
        <5>3. 2 * quota' >= Demand'
          BY <1>1, <3>1, <5>1, <5>2, TypedSets, Numbers
        <5> QED BY <5>3 DEF Enough
      <4> QED BY <1>1, <4>1, <4>2, Numbers
    <3> QED BY <2>1, <3>2, <3>3
  <2>6. CASE quota = 0
    <3>1. Demand <= 0
      BY <2>6, Numbers, TypedSets DEF Enough
    <3>2. Demand > 0
      <4> DEFINE p == Cardinality(Committed)
                 f == Cardinality(Free)
                 h == Cardinality(Misled)
      <4>1. p \in Nat /\ f \in Nat /\ h \in Nat /\ p + f + h <= Workers
        BY Parts, Kinds
      <4>2. p > 0
        <5>1. p # 0
          BY <2>3, TypedSets, FS_EmptySet
        <5> HIDE DEF p
        <5> QED BY <4>1, <5>1
      <4>3. Demand = Twice(p, f, h)
        BY DEF Demand
      <4> HIDE DEF p, f, h
      <4> DEFINE e == h * (2 * Workers + 1 - h)
      <4>4. e \in Nat
        BY <4>1, WorkersTyped, SomeDemand
      <4>5. Demand = 2 * p + 2 * f + e
        BY <4>3 DEF Twice
      <4> HIDE DEF e
      <4> QED BY <4>1, <4>2, <4>4, <4>5
    <3> QED BY <3>1, <3>2, TypedSets
  <2> QED BY <1>1, <2>5, <2>6, Numbers
<1>8. CASE Receive(c)
  <2> DEFINE r == reply[c]
  <2>1. /\ req[c].pc = "sent" /\ r \in Reply /\ r.status \in {200, 400}
        /\ reply' = [reply EXCEPT ![c] = NoReply]
        /\ remaining' = r.remaining /\ resetAt' = r.reset
        /\ UNCHANGED <<now, quota, reset, alone>>
    BY <1>0, <1>1, <1>8 DEF Receive, updateRateLimitState, Server
  <2>2. Set(c, [req[c] EXCEPT !.pc = "done"])
    BY <1>8, <2>1 DEF Receive, mustRetry, Limited
  <2>3. /\ req'[c].pc = "done"
        /\ \A d \in Callers \ {c} : req'[d] = req[d] /\ reply'[d] = reply[d]
    BY <1>0, <1>1, <2>1, <2>2 DEF Set, Request
  <2>4. Committed' \ {c} = Committed \ {c} /\ Misled' \ {c} = Misled \ {c}
    BY <2>1, <2>3, OthersSame
  <2>5. /\ c \notin Committed /\ c \notin Free
        /\ c \notin Committed' /\ c \notin Misled'
    BY <2>1, <2>3 DEF Committed, Misled, Free, Sends, Misleads, Rests
  <2>6. Demand' <= Demand
    <3>1. CASE c \in Misled
      <4>1. Misled' = Misled \ {c} /\ Committed' = Committed
        BY <2>4, <2>5
      <4>2. Free' \subseteq Callers /\ Free' \cap Committed' = {} /\ Free' \cap Misled' = {}
        BY DEF Committed, Misled, Free, Sends, Misleads, Rests
      <4> QED BY <3>1, <4>1, <4>2, OneMisled
    <3>2. CASE c \notin Misled
      <4>1. r.reset = reset /\ ~(r.remaining >= Threshold)
        BY <2>1, <3>2 DEF Misled, Misleads
      <4>2. r.remaining \in Nat
        BY <2>1, Numbers DEF Reply
      <4>3. BelowThreshold'
        <5>1. now' < resetAt'
          BY <1>0, <1>1, <2>1, <4>1 DEF WindowInv
        <5>2. remaining' >= 0 /\ remaining' < Threshold
          BY <2>1, <4>1, <4>2, Numbers
        <5> QED BY <5>1, <5>2 DEF BelowThreshold
      <4>4. Committed' = Committed /\ Misled' = Misled /\ Free' = {}
        <5>1. Free' = {}
          BY <4>3 DEF Free
        <5> QED BY <2>4, <2>5, <3>2, <5>1
      <4>5. Cardinality(Free') = 0 /\ Cardinality(Committed') = Cardinality(Committed)
        BY <4>4, FS_EmptySet
      <4> QED BY <4>4, <4>5, TypedSets, Shrinks
    <3> QED BY <3>1, <3>2
  <2> QED BY <1>0, <1>1, <1>2, <2>1, <2>3, <2>6, NoMoreIsEnough
<1>9. ~TransportError(c) /\ ~Cancel(c)
  BY DEF TransportError, Cancel
<1> QED BY <1>4, <1>5, <1>6, <1>7, <1>8, <1>9 DEF Step

(* Every step: a new window brings a whole quota, other clients and broken *)
(* connections end the claim, a step of a caller leaves enough.            *)
LEMMA NextAlone == ASSUME LargeEnough, LimitInv, [Next]_vars PROVE AloneInv'
<1> SUFFICES ASSUME alone'
             PROVE  /\ Enough'
                    /\ \A c \in Callers :
                         /\ req'[c].pc # "backoff"
                         /\ reply'[c] # NoReply => reply'[c].status \in {200, 400}
  BY DEF AloneInv, Enough
<1>1. RequestInv' /\ RequestInv /\ WindowInv
  BY NextRequestInv DEF LimitInv
<1>2. alone
  BY DEF Next, Step, Check, Wake, Send, Receive, TransportError, Cancel, NextRequest,
         Tick, OtherClient, vars
<1>3. /\ Enough
      /\ \A c \in Callers : /\ req[c].pc # "backoff"
                            /\ reply[c] # NoReply => reply[c].status \in {200, 400}
  BY <1>2 DEF LimitInv, AloneInv, Enough
<1>4. ASSUME NEW c \in Callers, Step(c)
      PROVE  /\ Enough'
             /\ \A d \in Callers :
                  /\ req'[d].pc # "backoff"
                  /\ reply'[d] # NoReply => reply'[d].status \in {200, 400}
  <2>1. Enough' /\ req'[c].pc # "backoff"
        /\ (reply'[c] # NoReply => reply'[c].status \in {200, 400})
    BY <1>1, <1>2, <1>3, <1>4, EnoughStep
  <2>2. \A d \in Callers \ {c} : req'[d] = req[d] /\ reply'[d] = reply[d]
    <3>1. req \in [Callers -> Request] /\ reply \in [Callers -> Reply \cup {NoReply}]
      BY <1>1 DEF RequestInv, TypeOK
    <3>2. CASE Send(c)
      BY <1>1, <3>2, SendSends DEF RequestInv
    <3>3. CASE Check(c) \/ Wake(c)
      BY <3>1, <3>3 DEF Check, Wake, Set
    <3>4. CASE Receive(c)
      BY <3>1, <3>4 DEF Receive, Set
    <3>5. CASE TransportError(c) \/ Cancel(c) \/ NextRequest(c)
      BY <3>1, <3>5 DEF TransportError, Cancel, NextRequest, Set
    <3> QED BY <1>4, <3>2, <3>3, <3>4, <3>5 DEF Step
  <2> QED BY <1>3, <2>1, <2>2
<1>5. CASE Tick
  <2>1. UNCHANGED <<remaining, resetAt, req, reply>> /\ now' = now + 1
    BY <1>5 DEF Tick, Shared
  <2>2. CASE now + 1 = reset
    <3>1. quota' = Limit
      BY <1>5, <2>2 DEF Tick
    <3>2. (Demand <= 2 * Limit)'
      BY DemandBound, PTL
    <3>3. Enough'
      BY <3>1, <3>2 DEF Enough
    <3> QED BY <1>3, <2>1, <3>3
  <2>3. CASE now + 1 # reset
    <3>1. UNCHANGED <<quota, reset>>
      BY <1>5, <2>3 DEF Tick
    <3>2. /\ now \in Nat /\ reset \in Nat /\ resetAt \in Nat
          /\ \A c \in Callers : req[c].until \in Nat
      BY <1>1, Numbers DEF RequestInv, TypeOK, Request
    <3>3. \A t \in Nat : t <= now \/ t = reset => (t <= now' <=> t <= now)
      BY <1>1, <2>1, <2>3, <3>2 DEF WindowInv
    <3>4. Committed' = Committed
      <4>1. \A c \in Callers : Sends(req[c])' <=> Sends(req[c])
        <5> TAKE c \in Callers
        <5>1. req' = req /\ req[c].until \in Nat
          BY <2>1, <3>2
        <5>2. req[c].pc = "sleep" => (req[c].until <= now' <=> req[c].until <= now)
          BY <1>1, <3>3, <5>1 DEF WindowInv
        <5> QED BY <5>1, <5>2 DEF Sends
      <4> QED BY <4>1 DEF Committed
    <3>5. UNCHANGED BelowThreshold
      <4>1. now' < resetAt <=> now < resetAt
        BY <1>1, <2>1, <2>3, <3>2 DEF WindowInv
      <4> QED BY <2>1, <4>1 DEF BelowThreshold
    <3>6. Free' = Free /\ Misled' = Misled
      BY <2>1, <3>1, <3>5 DEF Free, Misled, Rests, Misleads
    <3>7. Demand' = Demand
      BY <3>4, <3>6 DEF Demand
    <3>8. Enough'
      BY <1>3, <3>1, <3>7 DEF Enough
    <3> QED BY <1>3, <2>1, <3>8
  <2> QED BY <2>2, <2>3
<1>6. CASE OtherClient
  BY <1>6 DEF OtherClient
<1>7. CASE UNCHANGED vars
  <2>1. Demand' = Demand
    BY <1>7 DEF vars, Demand, Committed, Free, Misled, Sends, Rests, Misleads, BelowThreshold
  <2> QED BY <1>3, <1>7, <2>1 DEF vars, Enough
<1> QED BY <1>4, <1>5, <1>6, <1>7 DEF Next

(* waitIfBelowThreshold: n workers that have the token to themselves never *)
(* meet the primary limit when the threshold and the quota of a window are *)
(* half n (n + 1) at least, for every n: 15 for the default of 5, whose    *)
(* threshold is 50.                                                        *)
THEOREM NeverRefusedHolds == ASSUME LargeEnough PROVE Spec => []NeverRefused
<1>1. Init => LimitInv
  BY InitLimit
<1>2. LimitInv /\ [Next]_vars => LimitInv'
  BY NextRequestInv, NextWindow, NextAlone DEF LimitInv
<1>3. LimitInv => NeverRefused
  BY DEF LimitInv, AloneInv, NeverRefused, Limited
<1> QED BY <1>1, <1>2, <1>3, PTL DEF Spec
=============================================================================
