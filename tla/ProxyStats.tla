------------------------------ MODULE ProxyStats ------------------------------
(***************************************************************************)
(* moxi's proxy statistics (src/moxi/agent_stats.c), composed with the     *)
(* reconfiguration of ProxyConfig, with which it shares the listener       *)
(* thread and the list of proxies.                                         *)
(*                                                                         *)
(* get_stats: on_conflate_get_stats, on the conflate thread, gives every   *)
(* worker a work_collect with count -1, queues main_stats_collect on the   *)
(* listener and waits on the workers' work_collects in turn.               *)
(* main_stats_collect counts the proxies on m->proxy_head, sets every      *)
(* worker's count to that number and sends it one work_stats_collect per   *)
(* proxy; each worker adds the proxy's stats to its own map and counts     *)
(* down.  The conflate thread then merges the workers' maps into worker    *)
(* 1's and emits them.  reset_stats: on_conflate_reset_stats queues        *)
(* main_stats_reset, which sends one work_stats_reset per proxy and worker *)
(* and blocks the listener until every worker has counted down.            *)
(*                                                                         *)
(* work_collect is not part of this repository; it is modelled by what     *)
(* its callers here rely on: a count that work_collect_init and            *)
(* work_collect_count set, work_collect_one decrements and                 *)
(* work_collect_wait waits to reach 0.  A worker's stats map is abstracted *)
(* to the set of proxies it holds; the names main_stats_collect copies     *)
(* into msci and the emitted text are left out.                            *)
(***************************************************************************)
EXTENDS ProxyConfig

CONSTANTS
  MaxRequests,   \* bound on get_stats requests
  MaxResets,     \* bound on reset_stats requests
  MaxSendFails   \* bound on work_send calls to a worker that fail

ASSUME MaxRequests \in Nat /\ MaxResets \in Nat /\ MaxSendFails \in Nat

VARIABLES
  conflatePc,  \* "idle", "wait" (work_collect_wait loop) or "merge"
  lq,          \* stats work items queued to the listener thread
  resetting,   \* main_stats_reset is waiting for the workers
  listed,      \* the proxies the last main_stats_collect counted
  ca,          \* ca[w]: count of get_stats' work_collect for worker w
  rca,         \* rca[w]: count of main_stats_reset's work_collect for w
  wq,          \* wq[w]: stats work items queued to worker w
  gathered,    \* gathered[w]: the proxies worker w's map_pstd holds
  requests,    \* get_stats requests so far
  resets,      \* reset_stats requests so far
  sendFails    \* work_send calls that failed so far

statsVars == <<conflatePc, lq, resetting, listed, ca, rca, wq, gathered,
               requests, resets, sendFails>>
allVars == <<vars, statsVars>>

\* An item on a worker's queue: work_stats_collect or work_stats_reset for
\* the proxy_td of pool p.
WorkItem == [kind : {"collect", "reset"}, pool : AllPools]

\* The proxies on m->proxy_head: cproxy_on_config_pool links every proxy
\* it creates and nothing unlinks one (close_outdated_proxies only gives it
\* a NULL config).
ProxyList == {p \in AllPools : proxies[p].live}

\* The loop over m->proxy_head sending one item of kind k per proxy to
\* worker w, except for the sends in failed.
Sends(k, w, failed) ==
  [i \in 1..Cardinality(ProxyList \ failed) |->
     [kind |-> k, pool |-> SetToSeq(ProxyList \ failed)[i]]]

\* The (worker, proxy) sends of a scatter that may fail within the bound.
FailureSets ==
  {F \in SUBSET (Workers \X ProxyList) :
     Cardinality(F) <= MaxSendFails - sendFails}

\* The sends to worker w that failed in F.
FailedFor(F, w) == {p \in ProxyList : <<w, p>> \in F}

-----------------------------------------------------------------------------
(* Actions                                                                 *)

StatsInit ==
  /\ Init
  /\ conflatePc = "idle"
  /\ lq         = <<>>
  /\ resetting  = FALSE
  /\ listed     = {}
  /\ ca         = [w \in Workers |-> 0]
  /\ rca        = [w \in Workers |-> 0]
  /\ wq         = [w \in Workers |-> <<>>]
  /\ gathered   = [w \in Workers |-> {}]
  /\ requests   = 0
  /\ resets     = 0
  /\ sendFails  = 0

\* Mutant: work_collect_init(&ca[i], 0, pair), a count that is already done.
GetStatsCountZero ==
  /\ ~aborted
  /\ conflatePc = "idle"
  /\ requests < MaxRequests
  /\ requests'   = requests + 1
  /\ ca'         = [w \in Workers |-> 0]
  /\ gathered'   = [w \in Workers |-> {}]
  /\ lq'         = Append(lq, "collect")
  /\ conflatePc' = "wait"
  /\ UNCHANGED <<resetting, listed, rca, wq, resets, sendFails>>

\* on_conflate_get_stats up to its wait: a fresh pair map and a count of -1
\* for every worker, then main_stats_collect queued on the listener.
GetStats ==
  /\ ~aborted
  /\ conflatePc = "idle"
  /\ requests < MaxRequests
  /\ requests'   = requests + 1
  /\ ca'         = [w \in Workers |-> -1]
  /\ gathered'   = [w \in Workers |-> {}]
  /\ lq'         = Append(lq, "collect")
  /\ conflatePc' = "wait"
  /\ UNCHANGED <<resetting, listed, rca, wq, resets, sendFails>>

\* on_conflate_get_stats when calloc of ca, of a pair or genhash_init
\* fails (the loop breaks with i < m->nthreads), or when work_send of
\* main_stats_collect fails: the wait and merge are skipped, the pairs
\* that were made are freed and it returns RV_OK with nothing emitted.
GetStatsNoCollect ==
  /\ ~aborted
  /\ conflatePc = "idle"
  /\ requests < MaxRequests
  /\ requests' = requests + 1
  /\ UNCHANGED <<conflatePc, lq, resetting, listed, ca, rca, wq, gathered,
                 resets, sendFails>>

\* The work_collect_wait loop of on_conflate_get_stats: a count only falls
\* once set, so waiting on each worker in turn ends when all are at 0.
ConflateWait ==
  /\ conflatePc = "wait"
  /\ \A w \in Workers : ca[w] = 0
  /\ conflatePc' = "merge"
  /\ UNCHANGED <<lq, resetting, listed, ca, rca, wq, gathered,
                 requests, resets, sendFails>>

\* The rest of on_conflate_get_stats: merge the maps into worker 1's, emit,
\* free the maps and ca, and return.
ConflateMerge ==
  /\ conflatePc = "merge"
  /\ conflatePc' = "idle"
  /\ gathered'   = [w \in Workers |-> {}]
  /\ UNCHANGED <<lq, resetting, listed, ca, rca, wq, requests, resets,
                 sendFails>>

\* on_conflate_reset_stats: proxy_stats_reset queues main_stats_reset and
\* returns at once.  The conflate thread runs one callback at a time.
ResetStats ==
  /\ ~aborted
  /\ conflatePc = "idle"
  /\ resets < MaxResets
  /\ resets' = resets + 1
  /\ lq'     = Append(lq, "reset")
  /\ UNCHANGED <<conflatePc, resetting, listed, ca, rca, wq, gathered,
                 requests, sendFails>>

\* Mutant: work_collect_count gives each worker one item too many.
MainStatsCollectCountsOneMore ==
  /\ ~aborted
  /\ ~resetting
  /\ lq # <<>> /\ Head(lq) = "collect"
  /\ lq' = Tail(lq)
  /\ listed' = ProxyList
  /\ \E F \in FailureSets :
       /\ ca' = [w \in Workers |-> Cardinality(ProxyList) + 1]
       /\ wq' = [w \in Workers |-> wq[w] \o Sends("collect", w, FailedFor(F, w))]
       /\ sendFails' = sendFails + Cardinality(F)
  /\ UNCHANGED <<conflatePc, resetting, rca, gathered, requests, resets>>

\* main_stats_collect on the listener: count the proxies, then for every
\* worker set its count to that number and send one work_stats_collect per
\* proxy (a failing work_send is not counted back), then copy the names
\* into msci.  The sends to worker i cannot be seen before its count is
\* set, so the loop is one step.
MainStatsCollect ==
  /\ ~aborted
  /\ ~resetting
  /\ lq # <<>> /\ Head(lq) = "collect"
  /\ lq' = Tail(lq)
  /\ listed' = ProxyList
  /\ \E F \in FailureSets :
       /\ ca' = [w \in Workers |-> Cardinality(ProxyList)]
       /\ wq' = [w \in Workers |-> wq[w] \o Sends("collect", w, FailedFor(F, w))]
       /\ sendFails' = sendFails + Cardinality(F)
  /\ UNCHANGED <<conflatePc, resetting, rca, gathered, requests, resets>>

\* main_stats_reset on the listener: zero the main and per-proxy counters,
\* then, when there are proxies, give every worker a count of nproxy, send
\* it one work_stats_reset per proxy and wait for all of them.
MainStatsReset ==
  /\ ~aborted
  /\ ~resetting
  /\ lq # <<>> /\ Head(lq) = "reset"
  /\ lq' = Tail(lq)
  /\ \E F \in FailureSets :
       /\ rca' = [w \in Workers |-> Cardinality(ProxyList)]
       /\ wq'  = [w \in Workers |-> wq[w] \o Sends("reset", w, FailedFor(F, w))]
       /\ sendFails' = sendFails + Cardinality(F)
  /\ resetting' = (ProxyList # {})
  /\ UNCHANGED <<conflatePc, listed, ca, gathered, requests, resets>>

\* main_stats_reset when calloc of its work_collects fails: the counters
\* are zeroed, nothing is sent and nothing is waited for.
MainStatsResetNoCa ==
  /\ ~aborted
  /\ ~resetting
  /\ lq # <<>> /\ Head(lq) = "reset"
  /\ lq' = Tail(lq)
  /\ UNCHANGED <<conflatePc, resetting, listed, ca, rca, wq, gathered,
                 requests, resets, sendFails>>

\* The work_collect_wait loop of main_stats_reset ends.
MainStatsResetDone ==
  /\ resetting
  /\ \A w \in Workers : rca[w] = 0
  /\ resetting' = FALSE
  /\ UNCHANGED <<conflatePc, lq, listed, ca, rca, wq, gathered, requests,
                 resets, sendFails>>

\* work_stats_collect on worker w: add the proxy's stats under its
\* "port:name" key, then work_collect_one.
WorkStatsCollect(w) ==
  /\ wq[w] # <<>> /\ Head(wq[w]).kind = "collect"
  /\ wq'       = [wq EXCEPT ![w] = Tail(@)]
  /\ gathered' = [gathered EXCEPT ![w] = @ \cup {Head(wq[w]).pool}]
  /\ ca'       = [ca EXCEPT ![w] = @ - 1]
  /\ UNCHANGED <<conflatePc, lq, resetting, listed, rca, requests, resets,
                 sendFails>>

\* work_stats_reset on worker w: clear the proxy_td's stats and key_stats,
\* then work_collect_one.
WorkStatsReset(w) ==
  /\ wq[w] # <<>> /\ Head(wq[w]).kind = "reset"
  /\ wq'  = [wq EXCEPT ![w] = Tail(@)]
  /\ rca' = [rca EXCEPT ![w] = @ - 1]
  /\ UNCHANGED <<conflatePc, lq, resetting, listed, ca, gathered, requests,
                 resets, sendFails>>

\* cproxy_on_config is a listener work item too: it cannot run while
\* main_stats_reset blocks the listener.  It is not queued on lq, so it
\* may run before a stats item queued ahead of it: the model has every
\* FIFO order of the listener's queue and more.
StatsNext ==
  \/ /\ ~resetting /\ \E d \in Docs : OnConfig(d)
     /\ UNCHANGED statsVars
  \/ /\ \E w \in Workers, p \in AllPools : UpdatePtdConfig(w, p)
     /\ UNCHANGED statsVars
  \/ GetStats /\ UNCHANGED vars
  \/ GetStatsNoCollect /\ UNCHANGED vars
  \/ ConflateWait /\ UNCHANGED vars
  \/ ConflateMerge /\ UNCHANGED vars
  \/ ResetStats /\ UNCHANGED vars
  \/ MainStatsCollect /\ UNCHANGED vars
  \/ MainStatsReset /\ UNCHANGED vars
  \/ MainStatsResetNoCa /\ UNCHANGED vars
  \/ MainStatsResetDone /\ UNCHANGED vars
  \/ \E w \in Workers : WorkStatsCollect(w) /\ UNCHANGED vars
  \/ \E w \in Workers : WorkStatsReset(w) /\ UNCHANGED vars

\* The listener and worker threads run what is queued to them and the
\* conflate thread runs on when its wait ends; clients need not ask.
StatsFairness ==
  /\ \A w \in Workers, p \in AllPools :
       WF_allVars(UpdatePtdConfig(w, p) /\ UNCHANGED statsVars)
  /\ WF_allVars(ConflateWait /\ UNCHANGED vars)
  /\ WF_allVars(ConflateMerge /\ UNCHANGED vars)
  /\ WF_allVars(MainStatsCollect /\ UNCHANGED vars)
  /\ WF_allVars(MainStatsReset /\ UNCHANGED vars)
  /\ WF_allVars(MainStatsResetDone /\ UNCHANGED vars)
  /\ \A w \in Workers :
       /\ WF_allVars(WorkStatsCollect(w) /\ UNCHANGED vars)
       /\ WF_allVars(WorkStatsReset(w) /\ UNCHANGED vars)

StatsSpec == StatsInit /\ [][StatsNext]_allVars /\ StatsFairness

-----------------------------------------------------------------------------
(* Properties                                                              *)

StatsTypeOK ==
  /\ TypeOK
  /\ conflatePc \in {"idle", "wait", "merge"}
  /\ lq \in Seq({"collect", "reset"})
  /\ resetting \in BOOLEAN
  /\ listed \subseteq AllPools
  /\ ca \in [Workers -> -1..Cardinality(AllPools)]
  /\ rca \in [Workers -> 0..Cardinality(AllPools)]
  /\ wq \in [Workers -> Seq(WorkItem)]
  /\ gathered \in [Workers -> SUBSET AllPools]
  /\ requests \in 0..MaxRequests
  /\ resets \in 0..MaxResets
  /\ sendFails \in 0..MaxSendFails

\* When on_conflate_get_stats leaves its work_collect_wait loop, every
\* worker's map holds every proxy main_stats_collect counted: the counts
\* it set match the work_stats_collect items it sent, and the conflate
\* thread cannot pass a count main_stats_collect has not yet set.
GatherComplete ==
  conflatePc = "merge" => \A w \in Workers : gathered[w] = listed

====
