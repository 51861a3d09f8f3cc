------------------------------ MODULE TapProducer ------------------------------
(***************************************************************************)
(* The ack protocol of ep-engine's TAP producer (tapconnection.cc) for one *)
(* ack-supporting, checkpoint-synced stream of one vbucket.  The producer  *)
(* numbers every message with a 32-bit seqno that skips 0 when it wraps   *)
(* (requestAck), keeps every sent message in tapLog until the consumer     *)
(* acks it or a later message (processAck), resends what a temporary nack  *)
(* or a reconnect returns (reschedule_UNLOCKED, rollback), stops sending   *)
(* while too many messages are unacked (windowIsFull) and holds a          *)
(* checkpoint's CHECKPOINT_END back until the checkpoint's mutations are   *)
(* acked (next).  Seqnos are W bits wide instead of 32.                    *)
(*                                                                         *)
(* The consumer and the engine loop that calls these methods              *)
(* (walkTapQueue, tapconnmap) are not in the repository; they are the      *)
(* environment: a consumer that processes messages in order, answers every *)
(* message that asks for an ack and every one it fails, and a connection   *)
(* that may be lost and is then re-established by the same consumer.       *)
(***************************************************************************)
EXTENDS Naturals, Sequences, SequencesExt, FiniteSets

CONSTANTS
  W,            \* seqno width in bits (uint32_t in the code)
  Window,       \* ackWindowSize * ackInterval
  AckInterval,  \* ackInterval
  Stream,       \* the vbucket's checkpoint items in cursor order
  MaxTmpFail,   \* bound on temporary nacks from the consumer
  MaxDrops      \* bound on lost connections, error nacks included

VARIABLES
  seqno,            \* seqno of the next message
  seqnoReceived,    \* seqno of the last ack or nack
  isSeqNumRotated,  \* seqno wrapped since the last rotated ack
  isLastAckSucceed, \* the last ack was a success for a logged message
  lastSeqNum,       \* tapCheckpointState[vb].lastSeqNum
  ckState,          \* tapCheckpointState[vb].state
  lastItem,         \* tapCheckpointState[vb].lastItem
  queue,            \* messages waiting to be (re)sent
  tapLog,           \* sent and not yet acked: [seqno, item]
  cursor,           \* the TAP cursor in the checkpoint stream
  suspended,        \* backed off after a temporary nack
  connected,        \* the consumer's connection is up
  net,              \* producer -> consumer messages
  acks,             \* consumer -> producer acks and nacks
  applied,          \* items the consumer has applied
  tmpfails, drops   \* bounded failure counters

vars == <<seqno, seqnoReceived, isSeqNumRotated, isLastAckSucceed, lastSeqNum,
          ckState, lastItem, queue, tapLog, cursor, suspended, connected,
          net, acks, applied, tmpfails, drops>>

\* static_cast<uint32_t>(-1), scaled to W bits.
SeqMax == 2^W - 1

Items == 1..Len(Stream)

\* queue_op_set/del, queue_op_checkpoint_start, queue_op_checkpoint_end.
Kind(i) == Stream[i]

\* Mutant: the wrapped seqno keeps the value 0.
NextSeqnoKeepsZero(s) == (s + 1) % (SeqMax + 1)

\* ++seqno in W-bit arithmetic; a seqno of 0 is skipped.
NextSeqno(s) == IF (s + 1) % (SeqMax + 1) = 0 THEN 1 ELSE s + 1

\* Mutant: a window that is never full while seqno is behind the last ack.
WindowIsFullNoWrap ==
  IF seqno >= seqnoReceived THEN seqno - seqnoReceived > Window ELSE FALSE

\* windowIsFull: the distance from the last ack to seqno, counted around
\* the wrap, exceeds the window.
WindowIsFull ==
  IF seqno >= seqnoReceived
  THEN seqno - seqnoReceived > Window
  ELSE SeqMax - seqnoReceived + seqno > Window

\* The seqno up to which next() treats messages as acked.
SeqnoAcked ==
  IF seqnoReceived = 0 THEN 0
  ELSE IF isLastAckSucceed THEN seqnoReceived ELSE seqnoReceived - 1

\* Mutant: the gate compares with the seqno sent instead of the seqno acked.
CheckpointEndAckedSent == lastSeqNum < seqno

\* next() may send the vbucket's CHECKPOINT_END: its last mutation is acked.
CheckpointEndAcked == lastSeqNum <= SeqnoAcked

Init ==
  /\ seqno = 1
  /\ seqnoReceived = 0
  /\ isSeqNumRotated = FALSE
  /\ isLastAckSucceed = FALSE
  /\ lastSeqNum = 0
  /\ ckState = "start"
  /\ lastItem = FALSE
  /\ queue = <<>>
  /\ tapLog = <<>>
  /\ cursor = 1
  /\ suspended = FALSE
  /\ connected = TRUE
  /\ net = <<>>
  /\ acks = <<>>
  /\ applied = {}
  /\ tmpfails = 0
  /\ drops = 0

\* Mutant: no ack asked at the regular interval.
RequestAckNoInterval(i, li, cs) ==
  LET mut  == Kind(i) = "mut"
      next == NextSeqno(seqno)
  IN /\ lastSeqNum' = IF mut THEN seqno ELSE lastSeqNum
     /\ seqno' = next
     /\ isSeqNumRotated' = (isSeqNumRotated \/ next # seqno + 1)
     /\ \E almostEmpty \in BOOLEAN :
          LET ack == Kind(i) \in {"start", "end"} \/ (mut /\ (li \/ cs = "end")) \/ almostEmpty
          IN net' = Append(net, [seqno |-> seqno, item |-> i, ack |-> ack])
     /\ tapLog' = Append(tapLog, [seqno |-> seqno, item |-> i])

(***************************************************************************)
(* Sending item i: the message takes the current seqno, requestAck         *)
(* records it as the vbucket's lastSeqNum for a mutation, increments seqno *)
(* and decides whether the message asks for an ack; the message is logged *)
(* and put on the wire.  li and cs are lastItem and the checkpoint state   *)
(* as next() left them.  empty_UNLOCKED() is not in the repository: a      *)
(* free choice.                                                            *)
(***************************************************************************)
RequestAck(i, li, cs) ==
  LET mut  == Kind(i) = "mut"
      next == NextSeqno(seqno)
  IN /\ lastSeqNum' = IF mut THEN seqno ELSE lastSeqNum
     /\ seqno' = next
     /\ isSeqNumRotated' = (isSeqNumRotated \/ next # seqno + 1)
     /\ \E almostEmpty \in BOOLEAN :
          LET ack == \/ Kind(i) \in {"start", "end"}
                     \/ (next - 1) % AckInterval = 0
                     \/ mut /\ (li \/ cs = "end")
                     \/ almostEmpty
          IN net' = Append(net, [seqno |-> seqno, item |-> i, ack |-> ack])
     /\ tapLog' = Append(tapLog, [seqno |-> seqno, item |-> i])

(***************************************************************************)
(* One walk of the stream: next() returns the head of the queue, or, with  *)
(* the queue empty, the item under the cursor; a CHECKPOINT_END is sent    *)
(* only when lastSeqNum <= seqnoAcked, else the cursor steps back onto it  *)
(* and the connection pauses.  The walk needs the connection up, not       *)
(* suspended and the window not full.                                      *)
(***************************************************************************)
Walk ==
  /\ connected /\ ~suspended /\ ~WindowIsFull
  /\ \/ /\ queue # <<>>
        /\ RequestAck(Head(queue), lastItem, ckState)
        /\ queue' = Tail(queue)
        /\ UNCHANGED <<lastItem, ckState, cursor>>
     \/ /\ queue = <<>> /\ cursor \in Items /\ Kind(cursor) = "mut"
        /\ lastItem' = (cursor < Len(Stream) /\ Kind(cursor + 1) = "end")
        /\ RequestAck(cursor, lastItem', ckState)
        /\ cursor' = cursor + 1
        /\ UNCHANGED <<queue, ckState>>
     \/ /\ queue = <<>> /\ cursor \in Items /\ Kind(cursor) = "start"
        /\ ckState' = "start"
        /\ RequestAck(cursor, lastItem, ckState')
        /\ cursor' = cursor + 1
        /\ UNCHANGED <<queue, lastItem>>
     \/ /\ queue = <<>> /\ cursor \in Items /\ Kind(cursor) = "end"
        /\ ckState' = "end"
        /\ IF CheckpointEndAcked
           THEN /\ RequestAck(cursor, lastItem, ckState')
                /\ cursor' = cursor + 1
           ELSE UNCHANGED <<seqno, isSeqNumRotated, lastSeqNum, tapLog,
                            net, cursor>>
        /\ UNCHANGED <<queue, lastItem>>
  /\ UNCHANGED <<seqnoReceived, isLastAckSucceed, suspended, connected,
                 acks, applied, tmpfails, drops>>

\* The items of the log entries and queue elements still to be resent.
Unacked == {tapLog[k].item : k \in DOMAIN tapLog} \cup Range(queue)

(***************************************************************************)
(* The consumer takes the next message: it applies it and acks it if the   *)
(* message asks for an ack, or fails it with a temporary nack, or fails it *)
(* with an error.                                                          *)
(***************************************************************************)
Receive ==
  /\ connected /\ net # <<>>
  /\ LET m == Head(net) IN
       \/ /\ applied' = applied \cup {m.item}
          /\ acks' = IF m.ack THEN Append(acks, [seqno |-> m.seqno, status |-> "ok"])
                     ELSE acks
          /\ UNCHANGED <<tmpfails, drops>>
       \/ /\ tmpfails < MaxTmpFail
          /\ acks' = Append(acks, [seqno |-> m.seqno, status |-> "tmpfail"])
          /\ tmpfails' = tmpfails + 1
          /\ UNCHANGED <<applied, drops>>
       \/ /\ drops < MaxDrops
          /\ acks' = Append(acks, [seqno |-> m.seqno, status |-> "error"])
          /\ drops' = drops + 1
          /\ UNCHANGED <<applied, tmpfails>>
  /\ net' = Tail(net)
  /\ UNCHANGED <<seqno, seqnoReceived, isSeqNumRotated, isLastAckSucceed,
                 lastSeqNum, ckState, lastItem, queue, tapLog, cursor,
                 suspended, connected>>

\* reschedule_UNLOCKED: the nacked message e is queued again; a mutation
\* sets the vbucket's lastSeqNum to UINT32_MAX.  base is lastSeqNum so far.
Reschedule(e, base) ==
  /\ queue' = Append(queue, e.item)
  /\ lastSeqNum' = IF Kind(e.item) = "mut" THEN SeqMax ELSE base

(***************************************************************************)
(* processAck(s, status): a rotated ack resets lastSeqNum; the walk finds  *)
(* the log entry with seqno s, everything before it being implicitly       *)
(* acked.  SUCCESS erases through it (a CHECKPOINT_END acked makes the     *)
(* checkpoint synced); ETMPFAIL suspends the stream, reschedules that      *)
(* entry and erases through it; any other status erases up to it and      *)
(* disconnects.                                                           *)
(***************************************************************************)
ProcessAck ==
  /\ connected /\ acks # <<>>
  /\ LET a     == Head(acks)
         s     == a.seqno
         k     == SelectInSeq(tapLog, LAMBDA e : e.seqno = s)
         reset == isSeqNumRotated /\ s < seqnoReceived
         base  == IF reset THEN 0 ELSE lastSeqNum
     IN /\ seqnoReceived' = s
        /\ isSeqNumRotated' = (isSeqNumRotated /\ ~reset)
        /\ \/ /\ a.status = "ok"
              /\ isLastAckSucceed' = (k # 0)
              /\ tapLog' = IF k # 0 THEN SubSeq(tapLog, k + 1, Len(tapLog)) ELSE tapLog
              /\ ckState' = IF k # 0 /\ Kind(tapLog[k].item) = "end"
                            THEN "end_synced" ELSE ckState
              /\ lastSeqNum' = base
              /\ UNCHANGED <<queue, suspended, connected>>
           \/ /\ a.status = "tmpfail"
              /\ isLastAckSucceed' = FALSE
              /\ suspended' = TRUE
              /\ IF k # 0 THEN Reschedule(tapLog[k], base)
                 ELSE queue' = queue /\ lastSeqNum' = base
              /\ tapLog' = IF k # 0 THEN SubSeq(tapLog, k + 1, Len(tapLog)) ELSE <<>>
              /\ UNCHANGED <<ckState, connected>>
           \/ /\ a.status = "error"
              /\ isLastAckSucceed' = FALSE
              /\ tapLog' = IF k # 0 THEN SubSeq(tapLog, k, Len(tapLog)) ELSE <<>>
              /\ connected' = FALSE
              /\ lastSeqNum' = base
              /\ UNCHANGED <<queue, ckState, suspended>>
  /\ acks' = Tail(acks)
  /\ UNCHANGED <<seqno, lastItem, cursor, net, applied, tmpfails, drops>>

\* TapResumeCallback: the back-off timer clears the suspension.
Resume ==
  /\ suspended
  /\ suspended' = FALSE
  /\ UNCHANGED <<seqno, seqnoReceived, isSeqNumRotated, isLastAckSucceed,
                 lastSeqNum, ckState, lastItem, queue, tapLog, cursor,
                 connected, net, acks, applied, tmpfails, drops>>

\* The connection to the consumer is lost.
Drop ==
  /\ connected /\ drops < MaxDrops
  /\ connected' = FALSE
  /\ drops' = drops + 1
  /\ UNCHANGED <<seqno, seqnoReceived, isSeqNumRotated, isLastAckSucceed,
                 lastSeqNum, ckState, lastItem, queue, tapLog, cursor,
                 suspended, net, acks, applied, tmpfails>>

\* Mutant: rollback empties the log without queueing its messages again.
RollbackDropsLog ==
  /\ ~connected
  /\ connected' = TRUE
  /\ net' = <<>>
  /\ acks' = <<>>
  /\ queue' = queue
  /\ lastSeqNum' = IF \E k \in DOMAIN tapLog : Kind(tapLog[k].item) = "mut"
                   THEN SeqMax ELSE lastSeqNum
  /\ tapLog' = <<>>
  /\ seqnoReceived' = seqno - 1
  /\ UNCHANGED <<seqno, isSeqNumRotated, isLastAckSucceed, ckState, lastItem,
                 cursor, suspended, applied, tmpfails, drops>>

(***************************************************************************)
(* The consumer reconnects under the same name and the producer rolls     *)
(* back: whatever was in flight is gone, every logged message is queued   *)
(* again (a mutation setting lastSeqNum to the maximum), the log is        *)
(* emptied and seqnoReceived becomes seqno - 1.                            *)
(***************************************************************************)
Rollback ==
  /\ ~connected
  /\ connected' = TRUE
  /\ net' = <<>>
  /\ acks' = <<>>
  /\ queue' = queue \o [k \in DOMAIN tapLog |-> tapLog[k].item]
  /\ lastSeqNum' = IF \E k \in DOMAIN tapLog : Kind(tapLog[k].item) = "mut"
                   THEN SeqMax ELSE lastSeqNum
  /\ tapLog' = <<>>
  /\ seqnoReceived' = seqno - 1
  /\ UNCHANGED <<seqno, isSeqNumRotated, isLastAckSucceed, ckState, lastItem,
                 cursor, suspended, applied, tmpfails, drops>>

Next == Walk \/ Receive \/ ProcessAck \/ Resume \/ Drop \/ Rollback

\* The connection thread keeps walking and reading acks, the consumer keeps
\* reading, the dispatcher fires the resume timer and the consumer
\* reconnects after losing the connection.
Fairness ==
  /\ WF_vars(Walk) /\ WF_vars(Receive) /\ WF_vars(ProcessAck)
  /\ WF_vars(Resume) /\ WF_vars(Rollback)

Spec == Init /\ [][Next]_vars /\ Fairness

-----------------------------------------------------------------------------

Msg == [seqno : 0..SeqMax, item : Items, ack : BOOLEAN]

TypeOK ==
  /\ seqno \in 1..SeqMax /\ seqnoReceived \in 0..SeqMax
  /\ isSeqNumRotated \in BOOLEAN /\ isLastAckSucceed \in BOOLEAN
  /\ lastSeqNum \in 0..SeqMax
  /\ ckState \in {"start", "end", "end_synced"} /\ lastItem \in BOOLEAN
  /\ queue \in Seq(Items) /\ tapLog \in Seq([seqno : 0..SeqMax, item : Items])
  /\ cursor \in 1..(Len(Stream) + 1)
  /\ suspended \in BOOLEAN /\ connected \in BOOLEAN
  /\ net \in Seq(Msg)
  /\ acks \in Seq([seqno : 0..SeqMax, status : {"ok", "tmpfail", "error"}])
  /\ applied \subseteq Items
  /\ tmpfails \in 0..MaxTmpFail /\ drops \in 0..MaxDrops

\* No item the cursor has passed is forgotten: the consumer has applied it,
\* or it is still in tapLog or queued for resending (processAck's implicit
\* acks, nack rescheduling and rollback together).
NoItemLost == \A i \in 1..(cursor - 1) : i \in applied \/ i \in Unacked

\* windowIsFull keeps the unacked messages within the window, also across
\* the seqno wrap.
WindowBounded == Len(tapLog) <= Window

\* A CHECKPOINT_END goes out only when the consumer has applied every
\* mutation before it (next()'s lastSeqNum <= seqnoAcked gate).
CheckpointEndAfterAcks ==
  [][\A i \in Items :
       (Kind(i) = "end" /\ Len(net') > Len(net) /\ Last(net').item = i)
         => \A j \in 1..(i - 1) : Kind(j) = "mut" => j \in applied]_vars

\* Every item of the stream eventually reaches the consumer.
AllApplied == <>(Items \subseteq applied)
====
