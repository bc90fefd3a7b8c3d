---------------------------- MODULE SendRetryProofs ----------------------------
(***************************************************************************)
(* Proofs about SendRetry, for any number of batches and operations.       *)
(***************************************************************************)
EXTENDS SendRetry, TLAPS

\* All operations start with nothing in the slot.
LEMMA InitInv == Init => OverlapInv
  BY SendRetryAssumption DEF Init, OverlapInv, RetryInv, TypeOK, ResentAtMostOnce,
     ResentFailedOnce, SlotIsFresh, NotStarted, OverlapIsRecorded, SlotIsStable,
     KeptUnlessOverlapped, Running, FailedOnce, IsRetryable

\* Every step keeps the variables in their types.
LEMMA TypeStep == TypeOK /\ [Next]_vars => TypeOK'
<1> SUFFICES ASSUME TypeOK, [Next]_vars PROVE TypeOK'
  OBVIOUS
<1> USE SendRetryAssumption DEF TypeOK
<1>1. ASSUME NEW b \in Batches, TakeRetry(b) PROVE TypeOK'
  BY <1>1 DEF TakeRetry, Running
<1>2. ASSUME NEW b \in Batches, SendEnds(b) PROVE TypeOK'
  BY <1>2 DEF SendEnds, SendOutcomes, Outcomes
<1>3. ASSUME NEW b \in Batches, ResendEnds(b) PROVE TypeOK'
  BY <1>3 DEF ResendEnds, ResendOutcomes, SendOutcomes, Outcomes
<1>4. ASSUME NEW b \in Batches, StoreRetry(b) PROVE TypeOK'
  BY <1>4 DEF StoreRetry, SlotAfter
<1>5. CASE UNCHANGED vars
  BY <1>5 DEF vars
<1> QED
  BY <1>1, <1>2, <1>3, <1>4, <1>5 DEF Next, Terminated

\* While an operation sends, its batch is neither in the slot nor resent by another one.
LEMMA SendingIsNowhere ==
  ASSUME RetryInv, NEW b \in Batches, stage[b] # "ended"
  PROVE  /\ to_retry # b
         /\ \A c \in Batches : resending[c] # b
  BY SendRetryAssumption DEF RetryInv, TypeOK, SlotIsFresh, ResentFailedOnce, FailedOnce

\* The operations preserve the invariant, however they overlap.
LEMMA RetryStep == RetryInv /\ [Next]_vars => RetryInv'
<1> SUFFICES ASSUME RetryInv, [Next]_vars PROVE RetryInv'
  OBVIOUS
<1>t. TypeOK /\ TypeOK'
  BY TypeStep DEF RetryInv
<1> USE SendRetryAssumption
<1>1. ASSUME NEW b \in Batches, TakeRetry(b) PROVE RetryInv'
  <2>1. resending[b] = NoBatch
    BY <1>1 DEF TakeRetry, RetryInv, NotStarted
  <2>2. \A c \in Batches : resending'[c] = IF c = b THEN to_retry ELSE resending[c]
    BY <1>1, <1>t DEF TakeRetry, TypeOK
  <2>3. \A c \in Batches : stage'[c] = IF c = b THEN "sending" ELSE stage[c]
    BY <1>1, <1>t DEF TakeRetry, TypeOK
  <2>4. \A c \in Batches : FailedOnce(c) => FailedOnce(c)'
    BY <1>1, <1>t, <2>3 DEF TakeRetry, TypeOK, FailedOnce, IsRetryable
  <2>5. ResentAtMostOnce'
    BY <1>t, <2>1, <2>2 DEF RetryInv, ResentAtMostOnce, SlotIsFresh, TypeOK
  <2>6. ResentFailedOnce'
    BY <1>t, <2>2, <2>4 DEF RetryInv, ResentFailedOnce, SlotIsFresh, TypeOK
  <2>7. SlotIsFresh'
    BY <1>1 DEF TakeRetry, SlotIsFresh
  <2>8. NotStarted'
    BY <2>2, <2>3 DEF RetryInv, NotStarted
  <2> QED
    BY <1>t, <2>5, <2>6, <2>7, <2>8 DEF RetryInv
<1>2. ASSUME NEW b \in Batches, SendEnds(b) PROVE RetryInv'
  <2>1. \A c \in Batches : FailedOnce(c) => FailedOnce(c)'
    BY <1>2, <1>t DEF SendEnds, TypeOK, FailedOnce, IsRetryable
  <2> QED
    BY <1>2, <1>t, <2>1 DEF SendEnds, RetryInv, ResentAtMostOnce, ResentFailedOnce,
       SlotIsFresh, NotStarted, TypeOK
<1>3. ASSUME NEW b \in Batches, ResendEnds(b) PROVE RetryInv'
  <2>1. \A c \in Batches : FailedOnce(c) => FailedOnce(c)'
    BY <1>3 DEF ResendEnds, FailedOnce, IsRetryable
  <2> QED
    BY <1>3, <1>t, <2>1 DEF ResendEnds, RetryInv, ResentAtMostOnce, ResentFailedOnce,
       SlotIsFresh, NotStarted, TypeOK
<1>4. ASSUME NEW b \in Batches, StoreRetry(b) PROVE RetryInv'
  <2>1. \A c \in Batches : stage'[c] = IF c = b THEN "ended" ELSE stage[c]
    BY <1>4, <1>t DEF StoreRetry, SlotAfter, TypeOK
  <2>2. \A c \in Batches : FailedOnce(c) => FailedOnce(c)'
    BY <1>4, <2>1 DEF StoreRetry, SlotAfter, FailedOnce, IsRetryable
  <2>3. \A c \in Batches : resending[c] # b
    BY <1>4, SendingIsNowhere DEF StoreRetry, SlotAfter
  <2>4. ResentAtMostOnce' /\ ResentFailedOnce'
    BY <1>4, <1>t, <2>2 DEF StoreRetry, SlotAfter, RetryInv, ResentAtMostOnce, ResentFailedOnce, TypeOK
  <2>5. SlotIsFresh'
    <3>1. CASE IsRetryable(result[b])
      <4>1. to_retry' = b /\ FailedOnce(b)'
        BY <1>4, <3>1, <2>1 DEF StoreRetry, SlotAfter, FailedOnce, IsRetryable
      <4> QED
        BY <1>4, <2>3, <4>1 DEF StoreRetry, SlotAfter, SlotIsFresh
    <3>2. CASE ~IsRetryable(result[b])
      BY <1>4, <1>t, <2>2, <3>2 DEF StoreRetry, SlotAfter, RetryInv, SlotIsFresh, TypeOK
    <3> QED
      BY <3>1, <3>2
  <2>6. NotStarted'
    BY <1>4, <2>1 DEF StoreRetry, SlotAfter, RetryInv, NotStarted
  <2> QED
    BY <1>t, <2>4, <2>5, <2>6 DEF RetryInv
<1>5. CASE UNCHANGED vars
  BY <1>5 DEF vars, RetryInv, TypeOK, ResentAtMostOnce, ResentFailedOnce, SlotIsFresh,
     NotStarted, FailedOnce, IsRetryable
<1> QED
  BY <1>1, <1>2, <1>3, <1>4, <1>5 DEF Next, Terminated

\* An error worth a retry is one of the transport or unexpected: no refusal.
LEMMA RetryableIsNoRefusal ==
  ASSUME NEW r \in Outcomes \cup {"pending"}, IsRetryable(r)
  PROVE  r \in Codes /\ (r \in Refusals => AllRetryable)
<1>1. r \in Codes
  BY DEF IsRetryable, Outcomes
<1>2. ASSUME r \in Refusals, ~AllRetryable PROVE FALSE
  BY <1>2 DEF IsRetryable, HandleServiceError, Refusals
<1> QED
  BY <1>1, <1>2

\* Whatever operations overlap and however requests end, a batch is sent at most twice, and
\* again only after its own operation failed without being refused.
THEOREM RetrySafety == Spec => [](ResentAtMostOnce /\ ResentOnlyAfterFailure)
<1>1. Init => RetryInv
  BY InitInv DEF OverlapInv
<1>2. RetryInv => ResentAtMostOnce /\ ResentOnlyAfterFailure
  <2> SUFFICES ASSUME RetryInv, NEW c \in Batches, resending[c] # NoBatch
               PROVE  /\ stage[resending[c]] = "ended"
                      /\ result[resending[c]] \in Codes
                      /\ result[resending[c]] \in Refusals => AllRetryable
    BY DEF RetryInv, ResentOnlyAfterFailure
  <2>1. resending[c] \in Batches /\ FailedOnce(resending[c])
    BY DEF RetryInv, TypeOK, ResentFailedOnce
  <2>2. result[resending[c]] \in Outcomes \cup {"pending"}
    BY <2>1 DEF RetryInv, TypeOK
  <2> QED
    BY <2>1, <2>2, RetryableIsNoRefusal DEF FailedOnce
<1> QED
  BY <1>1, <1>2, RetryStep, PTL DEF Spec

\* Whether operations overlap is recorded when the later one begins, so that the batch of
\* one that ran alone is never in the slot while another operation could overwrite it.
LEMMA OverlapStep == OverlapInv /\ [Next]_vars => OverlapInv'
<1> SUFFICES ASSUME OverlapInv, [Next]_vars
             PROVE  OverlapIsRecorded' /\ SlotIsStable' /\ KeptUnlessOverlapped'
  BY RetryStep DEF OverlapInv
<1>t. TypeOK /\ RetryInv /\ OverlapIsRecorded /\ SlotIsStable /\ KeptUnlessOverlapped
  BY DEF OverlapInv, RetryInv
<1> USE SendRetryAssumption
<1>1. ASSUME NEW b \in Batches, TakeRetry(b)
      PROVE  OverlapIsRecorded' /\ SlotIsStable' /\ KeptUnlessOverlapped'
  <2>1. \A c \in Batches : resending'[c] = IF c = b THEN to_retry ELSE resending[c]
    BY <1>1, <1>t DEF TakeRetry, TypeOK
  <2>2. \A c \in Batches : stage'[c] = IF c = b THEN "sending" ELSE stage[c]
    BY <1>1, <1>t DEF TakeRetry, TypeOK
  <2>3. Running' = Running \cup {b} /\ overlapped \subseteq overlapped'
    BY <1>1, <2>2 DEF TakeRetry, Running
  <2>4. OverlapIsRecorded'
    BY <1>1, <1>t, <2>3 DEF TakeRetry, OverlapIsRecorded
  <2>5. SlotIsStable'
    BY <1>1 DEF TakeRetry, SlotIsStable
  <2>6. \A c \in Batches : FailedOnce(c)' => FailedOnce(c)
    BY <1>1, <2>2 DEF TakeRetry, FailedOnce, IsRetryable
  <2>7. \A c \in Batches : Kept(c) => Kept(c)'
    BY <1>1, <1>t, <2>1 DEF TakeRetry, Kept, RetryInv, NotStarted
  <2> QED
    BY <1>t, <2>3, <2>4, <2>5, <2>6, <2>7 DEF KeptUnlessOverlapped
<1>2. ASSUME NEW b \in Batches, SendEnds(b)
      PROVE  OverlapIsRecorded' /\ SlotIsStable' /\ KeptUnlessOverlapped'
  <2>1. \A c \in Batches : FailedOnce(c)' => FailedOnce(c)
    BY <1>2, <1>t DEF SendEnds, TypeOK, FailedOnce, IsRetryable
  <2> QED
    BY <1>2, <1>t, <2>1 DEF SendEnds, OverlapIsRecorded, SlotIsStable, Running,
       KeptUnlessOverlapped, Kept
<1>3. ASSUME NEW b \in Batches, ResendEnds(b)
      PROVE  OverlapIsRecorded' /\ SlotIsStable' /\ KeptUnlessOverlapped'
  BY <1>3, <1>t DEF ResendEnds, OverlapIsRecorded, SlotIsStable, Running,
     KeptUnlessOverlapped, Kept, FailedOnce, IsRetryable
<1>4. ASSUME NEW b \in Batches, StoreRetry(b)
      PROVE  OverlapIsRecorded' /\ SlotIsStable' /\ KeptUnlessOverlapped'
  <2>1. \A c \in Batches : stage'[c] = IF c = b THEN "ended" ELSE stage[c]
    BY <1>4, <1>t DEF StoreRetry, SlotAfter, TypeOK
  <2>2. b \in Running /\ Running' = Running \ {b} /\ overlapped' = overlapped
    BY <1>4, <2>1 DEF StoreRetry, Running
  <2>3. to_retry = NoBatch \/ to_retry \in overlapped
    BY <1>t, <2>2 DEF SlotIsStable
  <2>4. OverlapIsRecorded'
    BY <1>t, <2>2 DEF OverlapIsRecorded
  <2>5. SlotIsStable'
    <3>1. CASE to_retry' = b
      BY <1>t, <2>2, <3>1 DEF SlotIsStable, OverlapIsRecorded
    <3>2. CASE to_retry' = to_retry
      BY <2>2, <2>3, <3>2 DEF SlotIsStable
    <3> QED
      BY <1>4, <3>1, <3>2 DEF StoreRetry, SlotAfter
  <2>6. \A c \in Batches \ {b} : FailedOnce(c)' => FailedOnce(c)
    BY <1>4, <2>1 DEF StoreRetry, FailedOnce, IsRetryable
  <2>7. FailedOnce(b)' => Kept(b)'
    BY <1>4 DEF StoreRetry, SlotAfter, FailedOnce, IsRetryable, Kept
  <2>8. \A c \in Batches \ overlapped : Kept(c) => Kept(c)'
    BY <1>4, <2>3 DEF StoreRetry, Kept
  <2>9. KeptUnlessOverlapped'
    BY <1>t, <2>2, <2>6, <2>7, <2>8 DEF KeptUnlessOverlapped
  <2> QED
    BY <2>4, <2>5, <2>9
<1>5. CASE UNCHANGED vars
  BY <1>5, <1>t DEF vars, OverlapIsRecorded, SlotIsStable, Running, KeptUnlessOverlapped,
     Kept, FailedOnce, IsRetryable
<1> QED
  BY <1>1, <1>2, <1>3, <1>4, <1>5 DEF Next, Terminated

\* However operations overlap: which of them do is recorded, and the slot only changes hands
\* between operations that do (CoralogixSender::send).
THEOREM OverlapIsKnown == Spec => []OverlapInv
  BY InitInv, OverlapStep, PTL DEF Spec

\* A batch whose sending failed with an error worth a retry, and whose operation ran alone,
\* is in the slot or was taken from it, whatever other operations do.
THEOREM OverlapOnlyLoses == Spec => []KeptUnlessOverlapped
<1>1. OverlapInv => KeptUnlessOverlapped
  BY DEF OverlapInv
<1> QED
  BY <1>1, OverlapIsKnown, PTL

=============================================================================
