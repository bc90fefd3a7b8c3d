-------------------------------- MODULE LogPipe --------------------------------
(***************************************************************************)
(* What the telemetry service promises about the function's logs, without  *)
(* invocations, inits, spans or strategies: it is a pipe.  Logs wait, are  *)
(* put into the batch that is being made, and are sent with it, always in  *)
(* the order in which they were received, each of them once.  When the     *)
(* instance shuts down the pipe is closed: no more logs enter it, and the  *)
(* ones that wait may be lost, but still none is overtaken or duplicated.  *)
(***************************************************************************)
EXTENDS Naturals, SequencesExt, SequenceTheorems, TLAPS

CONSTANT Log

VARIABLES
  received,  \* all logs received, in order
  waiting,   \* those that are not yet processed
  batch,     \* those in the output buffer
  sent,      \* those handed to the sender
  closed     \* the flush at shutdown has begun

vars == <<received, waiting, batch, sent, closed>>

Init == received = <<>> /\ waiting = <<>> /\ batch = <<>> /\ sent = <<>> /\ ~closed

Receive ==
  /\ ~closed
  /\ received' \in Seq(Log) /\ IsPrefix(received, received')
  /\ waiting' = waiting \o SubSeq(received', Len(received) + 1, Len(received'))
  /\ UNCHANGED <<batch, sent, closed>>

\* Some logs become records.
Process ==
  /\ \E n \in 1..Len(waiting) :
       /\ batch' = batch \o SubSeq(waiting, 1, n)
       /\ waiting' = SubSeq(waiting, n + 1, Len(waiting))
  /\ UNCHANGED <<received, sent, closed>>

Send ==
  /\ batch # <<>>
  /\ sent' = sent \o batch
  /\ batch' = <<>>
  /\ UNCHANGED <<received, waiting, closed>>

\* The oldest logs that wait may be left behind.
Close ==
  /\ ~closed
  /\ closed' = TRUE
  /\ IsSuffix(waiting', waiting)
  /\ UNCHANGED <<received, batch, sent>>

\* After the pipe was closed: what still waits is given up.  Telemetry that is
\* received now does not enter the pipe.
GiveUp ==
  /\ closed
  /\ IsPrefix(received, received')
  /\ waiting' \in {waiting, <<>>}
  /\ UNCHANGED <<batch, sent, closed>>

Next == Receive \/ Process \/ Send \/ Close \/ GiveUp

Spec == Init /\ [][Next]_vars

-----------------------------------------------------------------------------

\* While the pipe is open nothing is lost, duplicated or overtaken.
NothingLost == ~closed => sent \o batch \o waiting = received

-----------------------------------------------------------------------------
(* Proofs. *)

\* Before the pipe is closed, its parts are sequences of logs and make up what was
\* received.
PipeInv ==
  ~closed =>
    /\ received \in Seq(Log) /\ waiting \in Seq(Log)
    /\ batch \in Seq(Log) /\ sent \in Seq(Log)
    /\ NothingLost

\* Concatenation is associative.
LEMMA ConcatAssoc ==
  ASSUME NEW s \in Seq(Log), NEW t \in Seq(Log), NEW u \in Seq(Log)
  PROVE  (s \o t) \o u = s \o (t \o u)
<1> DEFINE left == (s \o t) \o u
           right == s \o (t \o u)
<1>1. /\ s \o t \in Seq(Log) /\ t \o u \in Seq(Log)
      /\ Len(s \o t) = Len(s) + Len(t) /\ Len(t \o u) = Len(t) + Len(u)
  OBVIOUS
<1>2. /\ left \in Seq(Log) /\ right \in Seq(Log)
      /\ Len(left) = Len(s) + Len(t) + Len(u) /\ Len(right) = Len(s) + Len(t) + Len(u)
  BY <1>1
<1>3. ASSUME NEW i \in 1..Len(left) PROVE left[i] = right[i]
  BY <1>1, <1>2
<1> HIDE DEF left, right
<1>4. left = right
  BY <1>2, <1>3, SeqEqual
<1> QED BY <1>4 DEF left, right

\* Cutting a sequence in two.
LEMMA Cut ==
  ASSUME NEW s \in Seq(Log), NEW k \in 0..Len(s)
  PROVE  SubSeq(s, 1, k) \o SubSeq(s, k + 1, Len(s)) = s
<1>1. /\ Len(s) \in Nat /\ 1 \in 1..Len(s) + 1 /\ k \in (1 - 1)..Len(s) /\ Len(s) \in k..Len(s)
  OBVIOUS
<1>2. SubSeq(s, 1, k) \o SubSeq(s, k + 1, Len(s)) = SubSeq(s, 1, Len(s))
  BY <1>1, ConcatAdjacentSubSeq
<1> QED BY <1>2, SubSeqFull

\* What is received is at the end of the pipe.
LEMMA ReceiveStep == ASSUME PipeInv, Receive PROVE PipeInv'
<1> SUFFICES ASSUME ~closed' PROVE PipeInv'
  BY DEF PipeInv
<1>1. /\ received \in Seq(Log) /\ waiting \in Seq(Log) /\ batch \in Seq(Log) /\ sent \in Seq(Log)
      /\ sent \o batch \o waiting = received
  BY DEF Receive, PipeInv, NothingLost
<1>2. /\ received' \in Seq(Log) /\ Len(received) <= Len(received')
      /\ SubSeq(received', 1, Len(received)) = received
      /\ batch' = batch /\ sent' = sent
  <2>1. SubSeq(received, 1, Len(received)) = received
    BY <1>1, SubSeqFull
  <2> QED BY <2>1 DEF Receive, IsPrefix
<1> DEFINE new == SubSeq(received', Len(received) + 1, Len(received'))
<1>3. waiting' = waiting \o new
  BY DEF Receive
<1>4. new \in Seq(Log)
  BY <1>1, <1>2, SubSeqProperties
<1>5. received \o new = received'
  <2>1. Len(received) \in 0..Len(received')
    BY <1>1, <1>2
  <2> QED BY <1>2, <2>1, Cut
<1> HIDE DEF new
<1>6. waiting' \in Seq(Log)
  BY <1>1, <1>3, <1>4
<1>7. sent \o batch \o (waiting \o new) = (sent \o batch \o waiting) \o new
  <2> DEFINE st == sent \o batch
  <2>1. st \in Seq(Log)
    BY <1>1
  <2> HIDE DEF st
  <2>2. (st \o waiting) \o new = st \o (waiting \o new)
    BY <1>1, <1>4, <2>1, ConcatAssoc
  <2> QED BY <2>2 DEF st
<1> QED BY <1>1, <1>2, <1>3, <1>5, <1>6, <1>7 DEF PipeInv, NothingLost

\* What is processed leaves the front of what waits.
LEMMA ProcessStep == ASSUME PipeInv, Process PROVE PipeInv'
<1> SUFFICES ASSUME ~closed' PROVE PipeInv'
  BY DEF PipeInv
<1>1. /\ received \in Seq(Log) /\ waiting \in Seq(Log) /\ batch \in Seq(Log) /\ sent \in Seq(Log)
      /\ sent \o batch \o waiting = received /\ received' = received /\ sent' = sent
  BY DEF Process, PipeInv, NothingLost
<1>2. PICK n \in 1..Len(waiting) :
        /\ batch' = batch \o SubSeq(waiting, 1, n)
        /\ waiting' = SubSeq(waiting, n + 1, Len(waiting))
  BY DEF Process
<1>3. SubSeq(waiting, 1, n) \o waiting' = waiting
  BY <1>1, <1>2, Cut
<1>4. SubSeq(waiting, 1, n) \in Seq(Log) /\ waiting' \in Seq(Log)
  BY <1>1, <1>2, SubSeqProperties
<1>5. batch' \in Seq(Log)
  BY <1>1, <1>2, <1>4
<1>6. sent \o (batch \o SubSeq(waiting, 1, n)) \o waiting' =
        sent \o batch \o (SubSeq(waiting, 1, n) \o waiting')
  <2> DEFINE st == sent \o batch
           head == SubSeq(waiting, 1, n)
  <2>1. st \in Seq(Log) /\ head \in Seq(Log)
    BY <1>1, <1>4
  <2>2. st \o head = sent \o (batch \o head)
    BY <1>1, <2>1, ConcatAssoc
  <2> HIDE DEF st, head
  <2>3. (st \o head) \o waiting' = st \o (head \o waiting')
    BY <1>4, <2>1, ConcatAssoc
  <2> QED BY <2>2, <2>3 DEF st, head
<1> QED BY <1>1, <1>2, <1>3, <1>4, <1>5, <1>6 DEF PipeInv, NothingLost

\* A batch that is sent follows what was sent before.
LEMMA SendStep == ASSUME PipeInv, Send PROVE PipeInv'
<1> SUFFICES ASSUME ~closed' PROVE PipeInv'
  BY DEF PipeInv
<1>1. /\ received \in Seq(Log) /\ waiting \in Seq(Log) /\ batch \in Seq(Log) /\ sent \in Seq(Log)
      /\ sent \o batch \o waiting = received
      /\ received' = received /\ waiting' = waiting
      /\ sent' = sent \o batch /\ batch' = <<>>
  BY DEF Send, PipeInv, NothingLost
<1>2. sent' \in Seq(Log) /\ batch' \in Seq(Log)
  BY <1>1
<1>3. sent' \o batch' = sent \o batch
  BY <1>1, <1>2
<1> QED BY <1>1, <1>2, <1>3 DEF PipeInv, NothingLost

\* Whatever is received and processed in whatever pieces and sent whenever, the logs
\* sent, in the batch and waiting are the logs received, in order, until the pipe is
\* closed by the flush at shutdown.
THEOREM PipeLosesNothing == Spec => []NothingLost
<1>1. Init => PipeInv
  <2> SUFFICES ASSUME Init PROVE PipeInv
    OBVIOUS
  <2>1. <<>> \in Seq(Log) /\ <<>> \o <<>> \o <<>> = <<>>
    OBVIOUS
  <2> QED BY <2>1 DEF Init, PipeInv, NothingLost
<1>2. PipeInv /\ [Next]_vars => PipeInv'
  <2> SUFFICES ASSUME PipeInv, [Next]_vars PROVE PipeInv'
    OBVIOUS
  <2>1. CASE Receive
    BY <2>1, ReceiveStep
  <2>2. CASE Process
    BY <2>2, ProcessStep
  <2>3. CASE Send
    BY <2>3, SendStep
  <2>4. CASE Close \/ GiveUp
    BY <2>4 DEF Close, GiveUp, PipeInv
  <2>5. CASE UNCHANGED vars
    BY <2>5 DEF vars, PipeInv, NothingLost
  <2> QED BY <2>1, <2>2, <2>3, <2>4, <2>5 DEF Next
<1>3. PipeInv => NothingLost
  BY DEF PipeInv, NothingLost
<1> QED BY <1>1, <1>2, <1>3, PTL DEF Spec

=============================================================================
