----------------------------- MODULE RateLimiter -----------------------------
(***************************************************************************)
(* The rate limiter every GitHub request of a run goes through             *)
(* (internal/github/client.go: rateLimiter.do, waitIfBelowThreshold,       *)
(* updateRateLimitState, doRequest).  Callers are the concurrent workers of *)
(* a run; each makes a few requests, one after the other.  The server      *)
(* counts requests in windows of time.  Replies travel: they are applied   *)
(* to the shared remaining/resetAt in any order.                           *)
(***************************************************************************)
EXTENDS Integers, FiniteSets

CONSTANTS
    Callers,        \* concurrent workers
    Requests,       \* bound: requests each caller makes
    Writes,         \* callers whose requests carry a body
    Limit,          \* requests per window
    Window,         \* length of a window
    Threshold,      \* sleep proactively below this many remaining requests
    MaxRetries,     \* retries of one request
    BaseDelay,      \* first backoff
    RetryAfters,    \* values of Retry-After the server sends; 0: no header
    Secondary,      \* statuses of secondary limits the server uses
    Drain,          \* do other clients of the token use up the quota too?
    Lossy,          \* may connections break?
    Deadline        \* the run's context ends then; also bounds time

ASSUME NumberAssumption ==
    /\ {Requests, Limit, Window, Threshold, BaseDelay, Deadline} \subseteq Nat \ {0}
    /\ MaxRetries \in Nat /\ RetryAfters \subseteq Nat
ASSUME CallerAssumption ==
    Writes \subseteq Callers /\ Secondary \subseteq {403, 429} /\ {Drain, Lossy} \subseteq BOOLEAN

VARIABLES
    now,        \* the clock
    quota,      \* server: requests left in this window
    reset,      \* server: when the window ends
    remaining,  \* rl.remaining, -1 while unknown
    resetAt,    \* rl.resetAt
    req,        \* req[c]: the request caller c is making
    reply,      \* reply[c]: the response on its way to c
    alone       \* history: nothing but these workers' requests moved the quota,
                \* and each of them was answered

vars == <<now, quota, reset, remaining, resetAt, req, reply, alone>>

Pcs == {"check", "sleep", "send", "sent", "backoff", "done", "failed"}
(* body: what the reader of the request body still holds; applied: how     *)
(* often the server carried the current request out.                       *)
Request == [pc : Pcs, left : 0..Requests, attempt : 0..MaxRetries, until : Nat,
            body : {"full", "empty"}, applied : Nat]
NoReply == [status |-> 0]
Reply == [status : {200, 400, 403, 429}, remaining : 0..Limit, reset : Nat,
          retryAfter : RetryAfters \cup {0}]

TypeOK ==
    /\ now \in 0..Deadline /\ quota \in 0..Limit /\ reset \in Nat
    /\ remaining \in -1..Limit /\ resetAt \in Nat
    /\ req \in [Callers -> Request]
    /\ reply \in [Callers -> Reply \cup {NoReply}]
    /\ alone \in BOOLEAN

Fresh(left) == [pc |-> "check", left |-> left, attempt |-> 0, until |-> 0,
                body |-> "full", applied |-> 0]

Init ==
    /\ now = 0 /\ quota = Limit /\ reset = Window
    /\ remaining = -1 /\ resetAt = 0
    /\ req = [c \in Callers |-> Fresh(Requests)]
    /\ reply = [c \in Callers |-> NoReply]
    /\ alone = TRUE

Set(c, q) == req' = [req EXCEPT ![c] = q]
Server == <<now, quota, reset>>
Shared == <<remaining, resetAt>>

(* waitIfBelowThreshold.                                                   *)
NeverBelow == FALSE                         \* mutant: no proactive wait
BelowThreshold == remaining >= 0 /\ remaining < Threshold /\ now < resetAt
Check(c) ==
    /\ req[c].pc = "check"
    /\ IF BelowThreshold
       THEN Set(c, [req[c] EXCEPT !.pc = "sleep", !.until = resetAt])
       ELSE Set(c, [req[c] EXCEPT !.pc = "send"])
    /\ UNCHANGED <<Server, Shared, reply, alone>>

(* The timer of the wait fires and the request goes out, without a second  *)
(* look at the limit; the timer of the backoff starts the next attempt.    *)
Wake(c) ==
    /\ req[c].pc \in {"sleep", "backoff"} /\ now >= req[c].until
    /\ \/ req[c].pc = "sleep" /\ Set(c, [req[c] EXCEPT !.pc = "send"])
       \/ req[c].pc = "backoff"
          /\ Set(c, [req[c] EXCEPT !.pc = "check", !.attempt = @ + 1])
    /\ UNCHANGED <<Server, Shared, reply, alone>>

(* The request reaches the server.  A body is read to its end by the first *)
(* attempt, and every attempt is given the same reader.                    *)
Answer(status, left, after) ==
    [status |-> status, remaining |-> left, reset |-> reset, retryAfter |-> after]
Accepted(c) == c \notin Writes \/ req[c].body = "full"
Send(c) ==
    LET sent == [req[c] EXCEPT !.pc = "sent",
                               !.body = IF c \in Writes THEN "empty" ELSE @]
    IN  /\ req[c].pc = "send"
        /\ \/ /\ quota > 0                          \* carried out, or malformed
              /\ quota' = quota - 1
              /\ reply' = [reply EXCEPT ![c] =
                    Answer(IF Accepted(c) THEN 200 ELSE 400, quota - 1, 0)]
              /\ Set(c, [sent EXCEPT !.applied = IF Accepted(c) THEN @ + 1 ELSE @])
              /\ UNCHANGED alone
           \/ /\ quota = 0                          \* primary limit
              /\ \E status \in {403, 429}, after \in RetryAfters :
                    reply' = [reply EXCEPT ![c] = Answer(status, 0, after)]
              /\ Set(c, sent) /\ UNCHANGED <<quota, alone>>
           \/ /\ quota > 0                          \* secondary limit
              /\ \E status \in Secondary, after \in RetryAfters :
                    reply' = [reply EXCEPT ![c] = Answer(status, quota, after)]
              /\ Set(c, sent) /\ alone' = FALSE /\ UNCHANGED quota
        /\ UNCHANGED <<now, reset, Shared>>

(* updateRateLimitState.                                                   *)
updateRateLimitState(r) == remaining' = r.remaining /\ resetAt' = r.reset

Limited(r) == r.status = 429 \/ (r.status = 403 /\ r.remaining = 0)
retriesForEver(c) == FALSE                  \* mutant: attempts are not counted
lastAttempt(c) == req[c].attempt = MaxRetries
Delay(c, r) == IF r.retryAfter > 0 THEN r.retryAfter ELSE BaseDelay * 2^req[c].attempt

(* The response arrives: the headers first, then done, given up, or a      *)
(* backoff before the next attempt.                                        *)
mustRetry(r) == Limited(r)
Receive(c) ==
    LET r == reply[c]
    IN  /\ req[c].pc = "sent" /\ r # NoReply
        /\ updateRateLimitState(r)
        /\ reply' = [reply EXCEPT ![c] = NoReply]
        /\ \/ ~mustRetry(r) /\ Set(c, [req[c] EXCEPT !.pc = "done"])
           \/ mustRetry(r) /\ lastAttempt(c) /\ Set(c, [req[c] EXCEPT !.pc = "failed"])
           \/ mustRetry(r) /\ ~lastAttempt(c)
              /\ Set(c, [req[c] EXCEPT !.pc = "backoff", !.until = now + Delay(c, r)])
        /\ UNCHANGED <<Server, alone>>

(* The connection breaks, before the request or its response arrives: the  *)
(* error is returned at once, nobody knows what the server did.            *)
resendLost == "check"                       \* mutant: a lost request is sent again
lostRequest == "failed"
TransportError(c) ==
    /\ Lossy /\ req[c].pc \in {"send", "sent"}
    /\ Set(c, [req[c] EXCEPT !.pc = lostRequest])
    /\ reply' = [reply EXCEPT ![c] = NoReply]
    /\ alone' = FALSE /\ UNCHANGED <<Server, Shared>>

(* The context ends: a wait, or the request itself, returns its error.     *)
deafWait == {"send", "sent", "backoff"}     \* mutant: the wait ignores the context
Interruptible == {"sleep", "send", "sent", "backoff"}
Cancel(c) ==
    /\ now = Deadline
    /\ req[c].pc \in Interruptible
    /\ Set(c, [req[c] EXCEPT !.pc = "failed"])
    /\ reply' = [reply EXCEPT ![c] = NoReply]
    /\ alone' = FALSE /\ UNCHANGED <<Server, Shared>>

(* The worker goes on with its next request.                               *)
NextRequest(c) ==
    /\ req[c].pc \in {"done", "failed"} /\ req[c].left > 1 /\ now < Deadline
    /\ Set(c, Fresh(req[c].left - 1))
    /\ UNCHANGED <<Server, Shared, reply, alone>>

Tick ==
    /\ now < Deadline
    /\ now' = now + 1
    /\ IF now + 1 = reset THEN quota' = Limit /\ reset' = reset + Window
                          ELSE UNCHANGED <<quota, reset>>
    /\ UNCHANGED <<Shared, req, reply, alone>>

OtherClient ==
    /\ Drain /\ quota > 0
    /\ quota' = quota - 1
    /\ alone' = FALSE /\ UNCHANGED <<now, reset, Shared, req, reply>>

Step(c) == Check(c) \/ Wake(c) \/ Send(c) \/ Receive(c) \/ TransportError(c)
           \/ Cancel(c) \/ NextRequest(c)
Next == Tick \/ OtherClient \/ \E c \in Callers : Step(c)

Spec == Init /\ [][Next]_vars
(* Timers fire, the network answers, and time passes.                      *)
FairSpec == Spec /\ WF_vars(Tick) /\ \A c \in Callers : WF_vars(Step(c))

-----------------------------------------------------------------------------
(* A request is carried out once at most, however often it is sent: only   *)
(* responses that say it was not carried out are retried, and a broken     *)
(* connection is not (do, client.go:447-461).                              *)
AppliedOnce == \A c \in Callers : req[c].applied <= 1

(* Workers that have the token to themselves, and get every request        *)
(* answered, never meet the primary limit, although they check before they *)
(* send, never look again after the wait, and late responses overwrite     *)
(* newer counts (waitIfBelowThreshold).  This takes a threshold of         *)
(* n(n+1)/2 for n workers: 3 for two and 6 for three hold, 2 and 5 do not. *)
(* The defaults are 50 and 5 workers.                                      *)
NeverRefused == alone => \A c \in Callers : reply[c] # NoReply => ~Limited(reply[c])

(* Every request returns, by an answer, after its retries, or at the       *)
(* deadline of the run.                                                    *)
EveryRequestReturns ==
    \A c \in Callers : req[c].pc = "check" ~> req[c].pc \in {"done", "failed"}

(* SYNCACT-009, "MUST handle GitHub API rate limiting with exponential     *)
(* backoff": a request that was limited is sent again as it was.  Stated   *)
(* by the repository, not kept: see README.                                *)
RetriesAreWhole == \A c \in Callers : reply[c] # NoReply => reply[c].status # 400

(* client.go:470, "Prefer Retry-After header (secondary rate limits)": a   *)
(* limited response that says when to come back is retried.                *)
RetryAfterHonoured ==
    [][\A c \in Callers :
         /\ req[c].pc = "sent" /\ reply[c] # NoReply /\ reply'[c] = NoReply
         /\ reply[c].retryAfter > 0 /\ now < Deadline /\ req[c].attempt < MaxRetries
         => req'[c].pc = "backoff"]_vars
=============================================================================
