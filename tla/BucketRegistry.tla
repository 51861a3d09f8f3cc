---------------------------- MODULE BucketRegistry ----------------------------
(***************************************************************************)
(* What bucket_engine promises of its named buckets, with no handles,      *)
(* reference counts or threads.  A name is absent, running or being        *)
(* deleted.  CREATE_BUCKET (or an auto-create) takes only an absent name;  *)
(* DELETE_BUCKET takes a running one and owes its connection an answer;    *)
(* the answer may be sent only once the name is unlinked, so that a       *)
(* CREATE of the same name after it succeeds.  bucket_destroy empties the  *)
(* table; a restarted process starts with no buckets and no answers owed.  *)
(* BucketEngine implements this module.                                    *)
(***************************************************************************)
CONSTANTS Names, Conns

VARIABLES
    bucket,   \* bucket[n]: "absent", "running" or "deleting"
    reply     \* reply[c]: "none", the name c's DELETE waits on, or "done"

vars == <<bucket, reply>>

NoBuckets == [n \in Names |-> "absent"]

NoReplies == [c \in Conns |-> "none"]

Init == bucket = NoBuckets /\ reply = NoReplies

\* create_bucket: genhash_update only when find_bucket_inner found nothing.
Create(n) ==
    /\ bucket[n] = "absent"
    /\ bucket' = [bucket EXCEPT ![n] = "running"]
    /\ UNCHANGED reply

\* handle_delete_bucket on a RUNNING bucket: STOP_REQUESTED, EWOULDBLOCK.
Delete(c, n) ==
    /\ bucket[n] = "running" /\ reply[c] = "none"
    /\ bucket' = [bucket EXCEPT ![n] = "deleting"]
    /\ reply' = [reply EXCEPT ![c] = n]

\* The owed answers become due when their name leaves the table.
Due(r, gone) == [c \in Conns |-> IF reply[c] \in gone THEN "done" ELSE r[c]]

\* engine_shutdown_thread: genhash_delete_all of the deleted name.
Unlink(n) ==
    /\ bucket[n] = "deleting"
    /\ bucket' = [bucket EXCEPT ![n] = "absent"]
    /\ reply' = Due(reply, {n})

\* handle_delete_bucket re-entered after notify_io_complete: SUCCESS.
Reply(c) ==
    /\ reply[c] = "done"
    /\ reply' = [reply EXCEPT ![c] = "none"]
    /\ UNCHANGED bucket

\* bucket_destroy: every bucket still in the table is shut down and freed.
Teardown ==
    /\ bucket' = NoBuckets
    /\ reply' = Due(reply, Names)

\* The process dies and the supervisor starts a fresh one.
Crash == bucket' = NoBuckets /\ reply' = NoReplies

Next ==
    \/ \E n \in Names : Create(n) \/ Unlink(n)
    \/ \E c \in Conns : Reply(c) \/ \E n \in Names : Delete(c, n)
    \/ Teardown
    \/ Crash

\* A deleted bucket is eventually unlinked.
Spec == Init /\ [][Next]_vars /\ \A n \in Names : WF_vars(Unlink(n))

====
