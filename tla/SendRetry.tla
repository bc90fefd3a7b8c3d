------------------------------- MODULE SendRetry -------------------------------
(***************************************************************************)
(* What becomes of a batch once it is handed to a sender.  The combined    *)
(* OTLP sender, each of the three pillar senders and the Firehose sender   *)
(* share one scheme: a slot, to_retry, for a batch to send once more, and  *)
(* send operations that run beside each other.  An operation takes what is *)
(* in the slot, sends it and its own batch at the same time, and when both *)
(* requests are over puts its own batch in the slot if that should be      *)
(* retried.                                                                *)
(*                                                                         *)
(* There is one operation for each batch; it is named by the batch.        *)
(***************************************************************************)
CONSTANTS
  Batches,
  EmptyBatches,   \* those without items: no request is made for them
  NoBatch,
  Codes,          \* the gRPC status codes with which the backend or the transport answers
  AllRetryable    \* FirehoseTelemetrySender: it retries after every error

ASSUME SendRetryAssumption ==
  /\ EmptyBatches \subseteq Batches
  /\ NoBatch \notin Batches
  /\ Codes \cap {"Ok", "pending"} = {}
  /\ AllRetryable \in BOOLEAN

VARIABLES
  to_retry,       \* RetryState: the batch to send once more
  stage,          \* of each operation: "waiting", "sending", "ended"
  resending,      \* the batch it took from the slot
  result,         \* of the request for its own batch, "pending" until it is over
  retry_result,   \* of the request for the batch it resends
  overlapped      \* history: the operations during which another one ran

vars == <<to_retry, stage, resending, result, retry_result, overlapped>>

\* A request ends with an answer or with an error status.  An answer is Ok whatever it
\* says: Success, Warning and PartialSuccess are told apart in the diagnostics only, so
\* that items the backend rejected are not sent again.
Outcomes == {"Ok"} \cup Codes

\* What the backend answers to a request it will not accept at the next attempt either.
Refusals == {"Unauthenticated", "ResourceExhausted", "InvalidArgument", "PermissionDenied"}

TypeOK ==
  /\ to_retry \in Batches \cup {NoBatch}
  /\ stage \in [Batches -> {"waiting", "sending", "ended"}]
  /\ resending \in [Batches -> Batches \cup {NoBatch}]
  /\ result \in [Batches -> Outcomes \cup {"pending"}]
  /\ retry_result \in [Batches -> Outcomes \cup {"pending"}]
  /\ overlapped \subseteq Batches

Init ==
  /\ to_retry = NoBatch
  /\ stage = [b \in Batches |-> "waiting"]
  /\ resending = [b \in Batches |-> NoBatch]
  /\ result = [b \in Batches |-> "pending"]
  /\ retry_result = [b \in Batches |-> "pending"]
  /\ overlapped = {}

\* send: how a request for a batch may end
SendOutcomes(b) == IF b \in EmptyBatches THEN {"Ok"} ELSE Outcomes

\* resend: nothing to do without a batch
ResendOutcomes(t) == IF t = NoBatch THEN {"Ok"} ELSE SendOutcomes(t)

Running == {b \in Batches : stage[b] = "sending"}

\* The Error for a status.  Errors of the transport (DeadlineExceeded, Unavailable) and
\* Internal say that the service could not be used.
HandleServiceError(code) ==
  CASE code = "Unauthenticated" -> "Unauthenticated"
    [] code = "ResourceExhausted" -> "QuotaExceeded"
    [] code = "InvalidArgument" -> "BadRequest"
    [] code = "PermissionDenied" -> "PermissionDenied"
    [] code \in {"Internal", "DeadlineExceeded", "Unavailable"} -> "Unavailable"
    [] OTHER -> "UnexpectedResponse"

\* Mutant of IsRetryable: an exceeded quota is taken for a service that is not available.
IsRetryableQuota(r) ==
  /\ r \notin {"Ok", "pending"}
  /\ AllRetryable \/ HandleServiceError(r) \in {"Unavailable", "UnexpectedResponse", "QuotaExceeded"}

\* Whether a request that ended with r failed with an error that is_retryable.
IsRetryable(r) ==
  /\ r \notin {"Ok", "pending"}
  /\ AllRetryable \/ HandleServiceError(r) \in {"Unavailable", "UnexpectedResponse"}

\* Mutant of TakeRetry: the batch is cloned instead of taken.
CloneRetry(b) ==
  /\ stage[b] = "waiting"
  /\ stage' = [stage EXCEPT ![b] = "sending"]
  /\ resending' = [resending EXCEPT ![b] = to_retry]
  /\ overlapped' = IF Running = {} THEN overlapped ELSE overlapped \cup Running \cup {b}
  /\ UNCHANGED <<to_retry, result, retry_result>>

\* The first critical section of send_telemetry: take() empties the slot.
TakeRetry(b) ==
  /\ stage[b] = "waiting"
  /\ stage' = [stage EXCEPT ![b] = "sending"]
  /\ resending' = [resending EXCEPT ![b] = to_retry]
  /\ overlapped' = IF Running = {} THEN overlapped ELSE overlapped \cup Running \cup {b}
  /\ to_retry' = NoBatch
  /\ UNCHANGED <<result, retry_result>>

\* join!: the two requests end in any order.
SendEnds(b) ==
  /\ stage[b] = "sending" /\ result[b] = "pending"
  /\ \E r \in SendOutcomes(b) : result' = [result EXCEPT ![b] = r]
  /\ UNCHANGED <<to_retry, stage, resending, retry_result, overlapped>>

ResendEnds(b) ==
  /\ stage[b] = "sending" /\ retry_result[b] = "pending"
  /\ \E r \in ResendOutcomes(resending[b]) : retry_result' = [retry_result EXCEPT ![b] = r]
  /\ UNCHANGED <<to_retry, stage, resending, result, overlapped>>

\* Mutants of SlotAfter: a batch is not kept when the one sent with it fails again; a
\* batch that fails again is kept.
KeepUnlessResendFails(b) ==
  IF IsRetryable(result[b]) /\ retry_result[b] = "Ok" THEN b ELSE to_retry
KeepBoth(b) ==
  IF IsRetryable(result[b]) THEN b
  ELSE IF IsRetryable(retry_result[b]) THEN resending[b] ELSE to_retry

\* What is in the slot once the operation of b is over.
SlotAfter(b) == IF IsRetryable(result[b]) THEN b ELSE to_retry

\* The second critical section.  A batch that failed for the second time is dropped.
StoreRetry(b) ==
  /\ stage[b] = "sending"
  /\ result[b] # "pending" /\ retry_result[b] # "pending"
  /\ to_retry' = SlotAfter(b)
  /\ stage' = [stage EXCEPT ![b] = "ended"]
  /\ UNCHANGED <<resending, result, retry_result, overlapped>>

Terminated == (\A b \in Batches : stage[b] = "ended") /\ UNCHANGED vars

Next ==
  \/ \E b \in Batches : TakeRetry(b) \/ SendEnds(b) \/ ResendEnds(b) \/ StoreRetry(b)
  \/ Terminated

Spec == Init /\ [][Next]_vars

-----------------------------------------------------------------------------
(* Properties. *)

FailedOnce(b) == stage[b] = "ended" /\ IsRetryable(result[b])

\* A batch is sent again by at most one operation, which is not its own: no batch
\* reaches the backend more than twice, however operations overlap.
ResentAtMostOnce ==
  \A c, d \in Batches :
    resending[c] # NoBatch /\ resending[c] = resending[d] => c = d

\* A batch is sent again only when the operation it was first sent with is over, and its
\* request neither was answered nor, unless every error is retried, was refused: nothing
\* reaches the backend while an earlier copy is on its way, or against its decision.
ResentOnlyAfterFailure ==
  \A c \in Batches : resending[c] # NoBatch =>
    LET b == resending[c]
    IN /\ stage[b] = "ended" /\ result[b] \in Codes
       /\ result[b] \in Refusals => AllRetryable

Kept(b) == to_retry = b \/ \E c \in Batches : resending[c] = b

\* "Failed to send ... Will retry." is kept: the batch is in the slot, or was taken from it.
RetryPromiseKept == \A b \in Batches : FailedOnce(b) => Kept(b)

\* It is kept for each batch whose operation ran alone, whatever the others did before and
\* do after it: only operations that overlap lose a batch, and only their own.
KeptUnlessOverlapped == \A b \in Batches \ overlapped : FailedOnce(b) => Kept(b)

-----------------------------------------------------------------------------
(* The inductive invariant: besides, what is in the slot waits for its only  *)
(* retry, and a batch that nobody sends yet is nowhere.                      *)

SlotIsFresh ==
  to_retry # NoBatch =>
    FailedOnce(to_retry) /\ \A c \in Batches : resending[c] # to_retry

ResentFailedOnce ==
  \A c \in Batches : resending[c] # NoBatch => FailedOnce(resending[c])

NotStarted ==
  \A b \in Batches : stage[b] = "waiting" => resending[b] = NoBatch

RetryInv ==
  TypeOK /\ ResentAtMostOnce /\ ResentFailedOnce /\ SlotIsFresh /\ NotStarted

\* Operations that run at the same time are known to overlap.
OverlapIsRecorded == \A b, c \in Running : b # c => b \in overlapped

\* While the batch of an operation that ran alone is in the slot, no operation runs that
\* could overwrite it: the first one to begin takes it.
SlotIsStable == to_retry # NoBatch /\ to_retry \notin overlapped => Running = {}

OverlapInv == RetryInv /\ OverlapIsRecorded /\ SlotIsStable /\ KeptUnlessOverlapped

=============================================================================
