---------------------------- MODULE MCTapProducer ----------------------------
(***************************************************************************)
(* Checkpoint streams of one vbucket for TapProducer.                      *)
(***************************************************************************)
EXTENDS TapProducer

\* A closed checkpoint of two mutations, then an open one that runs the
\* 3-bit seqno past its wrap.
MCStreamWrapAfterEnd ==
  <<"mut", "mut", "end", "start", "mut", "mut", "mut">>

\* A checkpoint whose CHECKPOINT_END is read after the seqno has wrapped.
MCStreamEndAfterWrap ==
  <<"mut", "mut", "mut", "mut", "mut", "mut", "mut", "end">>
====
