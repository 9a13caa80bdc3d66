----------------------------- MODULE OtlpExport -----------------------------
(***************************************************************************)
(* One call of ExportSpans or ExportLogs: attempts with a timeout of their *)
(* own, the classification of what came back, and retries that stay inside *)
(* the caller's context.  The collector, the connection, the clock and the *)
(* caller that cancels interleave with it.  Time is discrete: a tick       *)
(* passes only while the call waits, for an answer or for its retry timer. *)
(***************************************************************************)
EXTENDS Naturals

CONSTANTS Timeout,     \* timeout: bounds one attempt
          Attempts,    \* retry.attempts: retries after the first attempt
          Backoff,     \* retry.backoff
          Minute,      \* what backoffDelay never grows beyond
          Waits,       \* delays a collector asks for; 0 is none
          Deadlines    \* time the caller's context leaves, if it has a deadline

\* What Config.Validate lets through.
ValidConfig ==
    /\ Timeout \in Nat \ {0}
    /\ {Attempts, Backoff} \subseteq Nat

ASSUME OtlpAssumption ==
    /\ ValidConfig
    /\ Minute \in Nat
    /\ Waits \subseteq Nat
    /\ Deadlines \subseteq Nat

VARIABLES protocol,    \* grpc or http
          empty,       \* no spans, no records
          bounded,     \* the caller's context has a deadline ...
          left,        \* ... this far away
          cancelled,   \* the caller's context is cancelled
          phase,       \* ready, sending, failed, sleeping, done
          n,           \* retries so far
          answer,      \* what the collector, or gRPC itself, made of this attempt
          status,      \* http: the status line and headers have arrived
          attemptLeft, \* time this attempt has left
          backoff,     \* backoffDelay of the next retry
          sleepLeft,   \* time the retry timer has left
          failure,     \* the verdict on the last attempt
          result,      \* what the call returned
          sent,        \* requests sent
          stored,      \* the collector has accepted the batch
          elapsed      \* time since the call

caller == <<protocol, empty, bounded, left, cancelled>>
attempt == <<answer, status, attemptLeft>>
ghosts == <<sent, stored, elapsed>>
vars == <<caller, phase, n, attempt, backoff, sleepLeft, failure, result, ghosts>>

None == "none"
Answers == {"accepted", "refused", "busy"}
Verdicts == [retryable : BOOLEAN, wait : Waits \union {0}]
Lost == [retryable |-> TRUE, wait |-> 0]

OtlpTypeOK ==
    /\ protocol \in {"grpc", "http"}
    /\ {empty, bounded, cancelled, status, stored} \subseteq BOOLEAN
    /\ {left, attemptLeft, backoff, sleepLeft, sent, elapsed} \subseteq Nat
    /\ phase \in {"ready", "sending", "failed", "sleeping", "done"}
    /\ n \in 0..Attempts
    /\ answer \in Answers \union {"local", None}
    /\ failure \in Verdicts
    /\ result \in {None, "nil", "context", "retryable", "permanent"}

Init ==
    /\ protocol \in {"grpc", "http"}
    /\ empty \in BOOLEAN
    /\ \/ bounded = TRUE /\ left \in Deadlines
       \/ bounded = FALSE /\ left = 0
    /\ cancelled = FALSE
    /\ phase = "ready" /\ n = 0
    /\ answer = None /\ status = FALSE /\ attemptLeft = 0
    /\ backoff = Backoff /\ sleepLeft = 0
    /\ failure = Lost
    /\ result = None
    /\ sent = 0 /\ stored = FALSE /\ elapsed = 0

\* ctx.Err() # nil
ContextEnded == cancelled \/ (bounded /\ left = 0)

Return(r) ==
    /\ phase' = "done"
    /\ result' = r

-----------------------------------------------------------------------------
(* One attempt.                                                            *)

NothingToExport ==
    /\ phase = "ready" /\ n = 0
    /\ empty
    /\ Return("nil")
    /\ UNCHANGED <<caller, n, attempt, backoff, sleepLeft, failure, ghosts>>

\* The top of the loop.
CheckContext ==
    /\ phase = "ready" /\ ~empty
    /\ ContextEnded
    /\ Return("context")
    /\ UNCHANGED <<caller, n, attempt, backoff, sleepLeft, failure, ghosts>>

\* once: the attempt's context ends with the caller's, or after Timeout.
Once ==
    /\ phase = "ready" /\ ~empty
    /\ ~ContextEnded
    /\ phase' = "sending"
    /\ answer' = None /\ status' = FALSE
    /\ attemptLeft' = IF bounded /\ left < Timeout THEN left ELSE Timeout
    /\ sent' = sent + 1
    /\ UNCHANGED <<caller, n, backoff, sleepLeft, failure, result, stored, elapsed>>

\* classify: 429, 502, 503, 504 and the retryable codes are busy, with the
\* delay of Retry-After or RetryInfo; every other status is permanent, also one
\* that gRPC made itself.
Classify(a, wait) ==
    IF a = "busy" THEN [retryable |-> TRUE, wait |-> wait] ELSE [retryable |-> FALSE, wait |-> 0]

\* export, with the outcome of do.
Settle(a) ==
    IF a = "accepted"
    THEN Return("nil") /\ UNCHANGED failure
    ELSE /\ phase' = "failed"
         /\ \E w \in Waits \union {0} : failure' = Classify(a, w)
         /\ UNCHANGED result

\* Mutant of ReadBody: a 2xx whose body cannot be read is a failure.
ReadBodyOrFail ==
    /\ phase = "sending" /\ status
    /\ Settle(answer) \/ (phase' = "failed" /\ failure' = Lost /\ UNCHANGED result)
    /\ UNCHANGED <<caller, n, attempt, backoff, sleepLeft, ghosts>>

\* Mutant of ReadBody: an unreadable body is looked at before the status.
ReadBodyFirst ==
    /\ phase = "sending" /\ status
    /\ Settle(answer) \/ (Return("nil") /\ UNCHANGED failure)
    /\ UNCHANGED <<caller, n, attempt, backoff, sleepLeft, ghosts>>

\* post: the body is there, is cut off or never comes: the status decides.
ReadBody ==
    /\ phase = "sending" /\ status
    /\ Settle(answer)
    /\ UNCHANGED <<caller, n, attempt, backoff, sleepLeft, ghosts>>

\* grpcTransport.exportSpans: an answer arrives as a whole.
ReadReply ==
    /\ phase = "sending" /\ protocol = "grpc"
    /\ answer # None
    /\ Settle(answer)
    /\ UNCHANGED <<caller, n, attempt, backoff, sleepLeft, ghosts>>

\* No connection, a connection that breaks, or the end of the attempt's
\* context, before an answer arrived: no HTTP response, or a retryable code
\* of gRPC (Unavailable, DeadlineExceeded, Canceled).
AttemptLost ==
    /\ phase = "sending" /\ ~status
    /\ phase' = "failed"
    /\ failure' = Lost
    /\ UNCHANGED <<caller, n, attempt, backoff, sleepLeft, result, ghosts>>

-----------------------------------------------------------------------------
(* After a failed attempt.                                                 *)

\* backoffDelay: the base, doubled with every retry.
Doubled(d) == IF 2 * d > Minute THEN Minute ELSE 2 * d

Delay == IF failure.wait = 0 THEN backoff ELSE failure.wait

\* Mutant of TooLong: the caller's deadline is not looked at.
TooLongForTimeout(d) == d > Timeout

\* Mutant of TooLong: the collector may ask for any delay.
TooLongForCaller(d) == bounded /\ left <= d

\* Waiting would outlive the caller or exceed one attempt's budget.
TooLong(d) == (bounded /\ left <= d) \/ d > Timeout

Exhausted == n >= Attempts

\* Mutant of Finalize: the context is not looked at.
FinalizeBlind == IF failure.retryable THEN "retryable" ELSE "permanent"

Finalize ==
    IF ContextEnded THEN "context" ELSE IF failure.retryable THEN "retryable" ELSE "permanent"

GiveUp ==
    /\ phase = "failed"
    /\ ~failure.retryable \/ Exhausted \/ TooLong(Delay)
    /\ Return(Finalize)
    /\ UNCHANGED <<caller, n, attempt, backoff, sleepLeft, failure, ghosts>>

Retry ==
    /\ phase = "failed"
    /\ failure.retryable /\ ~Exhausted /\ ~TooLong(Delay)
    /\ phase' = "sleeping"
    /\ sleepLeft' = Delay
    /\ UNCHANGED <<caller, n, attempt, backoff, failure, result, ghosts>>

\* sleepCtx, the timer; with the context ended too, select takes either.
Wake ==
    /\ phase = "sleeping"
    /\ sleepLeft = 0
    /\ phase' = "ready"
    /\ n' = n + 1
    /\ backoff' = Doubled(backoff)
    /\ UNCHANGED <<caller, attempt, sleepLeft, failure, result, ghosts>>

\* sleepCtx, the context.
SleepEnds ==
    /\ phase = "sleeping"
    /\ ContextEnded
    /\ Return("context")
    /\ UNCHANGED <<caller, n, attempt, backoff, sleepLeft, failure, ghosts>>

-----------------------------------------------------------------------------
(* The surroundings: external to the client.                               *)

CollectorAnswers(a) ==
    /\ phase = "sending"
    /\ answer = None
    /\ answer' = a
    /\ stored' = (stored \/ a = "accepted")
    /\ UNCHANGED <<caller, phase, n, status, attemptLeft, backoff, sleepLeft, failure, result, sent, elapsed>>

\* gRPC makes a status of its own with a permanent code (Internal, Unknown,
\* ResourceExhausted): the request cannot be encoded or sent, the stream is reset
\* or its answer does not decode.
GrpcFails ==
    /\ phase = "sending" /\ protocol = "grpc"
    /\ answer' = "local"
    /\ UNCHANGED <<caller, phase, n, status, attemptLeft, backoff, sleepLeft, failure, result, ghosts>>

StatusArrives ==
    /\ phase = "sending" /\ protocol = "http"
    /\ answer # None
    /\ ~status
    /\ status' = TRUE
    /\ UNCHANGED <<caller, phase, n, answer, attemptLeft, backoff, sleepLeft, failure, result, ghosts>>

Cancel ==
    /\ phase # "done"
    /\ ~cancelled
    /\ cancelled' = TRUE
    /\ UNCHANGED <<protocol, empty, bounded, left, phase, n, attempt, backoff, sleepLeft, failure, result, ghosts>>

\* An attempt goes on until its context ends.
AttemptWaits == phase = "sending" /\ attemptLeft > 0 /\ ~cancelled

\* Mutant of SleepWaits: the context does not end the sleep.
SleepWaitsDeaf == phase = "sleeping" /\ sleepLeft > 0

\* sleepCtx goes on until its timer fires or the context ends.
SleepWaits == phase = "sleeping" /\ sleepLeft > 0 /\ ~ContextEnded

Before(t) == IF t = 0 THEN 0 ELSE t - 1

Tick ==
    /\ AttemptWaits \/ SleepWaits
    /\ elapsed' = elapsed + 1
    /\ left' = Before(left)
    /\ attemptLeft' = IF phase = "sending" THEN Before(attemptLeft) ELSE attemptLeft
    /\ sleepLeft' = IF phase = "sleeping" THEN Before(sleepLeft) ELSE sleepLeft
    /\ UNCHANGED <<protocol, empty, bounded, cancelled, phase, n, answer, status, backoff, failure, result, sent, stored>>

\* The call has returned.
Returned == phase = "done" /\ UNCHANGED vars

Next ==
    \/ NothingToExport \/ CheckContext \/ Once
    \/ ReadBody \/ ReadReply \/ AttemptLost
    \/ GiveUp \/ Retry \/ Wake \/ SleepEnds
    \/ \E a \in Answers : CollectorAnswers(a)
    \/ GrpcFails \/ StatusArrives \/ Cancel \/ Tick \/ Returned

Spec == Init /\ [][Next]_vars

-----------------------------------------------------------------------------
(* Properties.                                                             *)

\* The client never sleeps into its caller's deadline: while it waits for a
\* retry, the retry is due before the context ends.  Otherwise the event would
\* be held to the end of process_timeout for nothing.
NeverSleepsIntoDeadline == phase = "sleeping" /\ bounded => sleepLeft < left

\* Whatever the collector answers, delays or asks for, also for a caller
\* without a deadline: at most Attempts + 1 requests and as many timeouts,
\* with a pause of at most one timeout between two of them.
TotalBounded ==
    /\ sent <= Attempts + 1
    /\ elapsed <= (2 * Attempts + 1) * Timeout

\* Once the caller's context has ended, the export neither sends another
\* request nor lets time pass before it returns: process_timeout, and the ack
\* wait that is derived from it, rest on this.
StopsAtOnce == [][ContextEnded => elapsed' = elapsed /\ sent' = sent]_vars

\* A permanent failure, which stalls the message, is the collector's refusal of
\* the last attempt, or a permanent status that gRPC made of it: never the end of
\* a timeout, a connection that is missing or a shutdown, and over HTTP nothing
\* but a refusal (classify, finalize).
PermanentIsRefusal ==
    result = "permanent" =>
        /\ ~ContextEnded
        /\ answer = "refused" \/ (answer = "local" /\ protocol = "grpc")

\* Comment on post: the status line said 2xx, so a retry "would duplicate data
\* the destination already has".
NotResentOnceConfirmed == [][status /\ answer = "accepted" => sent' = sent]_vars

\* An export that reports success, and with it the ack of the event, has been
\* accepted by the collector in some attempt.
SuccessIsStored == result = "nil" => stored \/ empty
=============================================================================
