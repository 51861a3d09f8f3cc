\* One ack-supporting, checkpoint-synced stream: 3-bit seqnos, a window of
\* two unacked messages with an ack asked every second seqno, one temporary
\* nack and one lost connection.  The producer idles once the stream is
\* drained and acked, waiting for new mutations.  The stream's CHECKPOINT_END
\* is read after the seqno has wrapped.
CONSTANTS
    W = 3
    Window = 2
    AckInterval = 2
    Stream <- MCStreamEndAfterWrap
    MaxTmpFail = 1
    MaxDrops = 1
SPECIFICATION Spec
CHECK_DEADLOCK FALSE
PROPERTIES
    CheckpointEndAfterAcks
