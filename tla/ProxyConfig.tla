----------------------------- MODULE ProxyConfig -----------------------------
(***************************************************************************)
(* moxi's live reconfiguration (src/moxi/agent_config.c).                  *)
(*                                                                         *)
(* The listener thread runs cproxy_on_config for every configuration the   *)
(* cluster manager sends: it computes new_config_ver, applies each pool    *)
(* entry of the document through cproxy_on_config_pool (create a proxy,    *)
(* or update the existing one under its proxy_lock and send                *)
(* update_ptd_config to every worker), then close_outdated_proxies retires *)
(* the pools the document no longer names.  Each worker thread copies the  *)
(* proxy's config into its own proxy_td when it runs update_ptd_config and *)
(* restarts its key_stats cache if the copy changed.                       *)
(*                                                                         *)
(* A whole cproxy_on_config work item is one action: it runs on the        *)
(* listener thread alone, and the only state it shares with the workers is *)
(* the proxy record, which it writes in one proxy_lock section per pool.   *)
(* A pool's data is abstracted to its server list (config string and      *)
(* per-server behaviors, NULL together) and the key_stats setting of its   *)
(* base behavior.                                                          *)
(***************************************************************************)
EXTENDS Naturals, Sequences, SequencesExt, FiniteSets

CONSTANTS
  Pools,        \* (name, port) identities a configuration can name
  NullPool,     \* NULL_BUCKET, created by cproxy_init_null_bucket
  DefaultPool,  \* the pool named "default"
  Servers,      \* server lists a configuration can give a pool
  NoServers,    \* a NULL config (a retired proxy)
  KsSettings,   \* key_stats settings of a base behavior
  KsOff,        \* the setting with key_stats_max = 0
  Stopped,      \* a key_stats cache that is not running
  DefaultKs,    \* the key_stats setting of m->behavior
  NThreads,     \* m->nthreads; thread 0 is the listener
  Build,        \* "kvs" (without MOXI_USE_LIBVBUCKET) or "json"
  Docs,         \* the configuration documents the cluster manager sends
  MaxConfigVer  \* bound on new_config_ver

ASSUME NullPool \notin Pools /\ DefaultPool \in Pools
ASSUME KsOff \in KsSettings /\ DefaultKs \in KsSettings
ASSUME NThreads \in Nat \ {0} /\ Build \in {"kvs", "json"}

AllPools == Pools \cup {NullPool}
Workers  == 1..(NThreads - 1)

\* The config string "empty" cproxy_init_null_bucket gives NULL_BUCKET: no
\* locator and no hosts.
NullBucketServers == [locator |-> "empty", hosts |-> <<>>]

\* A pool entry of a document and what parsing it yields: "valid" reaches
\* cproxy_on_config_pool, "skip" is a pool without servers, "bad" a pool
\* whose port, name or server list cannot be parsed.
Entry == [pool : Pools, kind : {"valid", "skip", "bad"},
          servers : Servers, ks : KsSettings]

\* struct proxy: whether it is on m->proxy_head's list, config_ver, config
\* and behavior_pool.
ProxyRec == [live : BOOLEAN, ver : Nat,
             servers : Servers \cup {NoServers, NullBucketServers},
             ks : KsSettings]

\* struct proxy_td: the worker's snapshot of its proxy.
PtdRec == [ver : Nat, servers : Servers \cup {NoServers, NullBucketServers},
           ks : KsSettings]

VARIABLES
  proxies,   \* proxies[p]: the struct proxy of pool p
  ptd,       \* ptd[p][w]: p->thread_data[w]
  keyStats,  \* keyStats[p][w]: the setting ptd->key_stats runs with
  pending,   \* pending[p][w]: update_ptd_config items for ptd[p][w] queued
  aborted,   \* an assert ended the process
  lastDoc    \* history: the last document cproxy_on_config received

vars == <<proxies, ptd, keyStats, pending, aborted, lastDoc>>

-----------------------------------------------------------------------------
(* Helpers                                                                 *)

\* The key_stats cache update_ptd_config starts: none for a NULL config or
\* a key_stats_max of 0.
KeyStatsFor(servers, ks) ==
  IF servers = NoServers \/ ks = KsOff THEN Stopped ELSE ks

\* update_str_config and update_behaviors_config: free curr when it is set
\* and next is NULL or differs, then copy next into an empty curr.  The
\* result is true only when curr was freed.
UpdateConfig(curr, next) ==
  LET freed == curr # NoServers /\ (next = NoServers \/ curr # next)
      kept  == IF freed THEN NoServers ELSE curr
  IN  [val |-> IF kept = NoServers THEN next ELSE kept, changed |-> freed]

\* Mutant: new_config_ver is the highest config_ver, without the + 1.
NewConfigVerNoIncrement ==
  Max({proxies[p].ver : p \in {q \in AllPools : proxies[q].live}})

\* cproxy_on_config: one more than the highest config_ver of any proxy.
NewConfigVer ==
  Max({proxies[p].ver : p \in {q \in AllPools : proxies[q].live}}) + 1

\* Mutant: the send loop starts at thread 2 and misses worker 1.
SendTargetsSkipFirst == 2..(NThreads - 1)

\* The worker threads cproxy_on_config_pool sends update_ptd_config to.
SendTargets == 1..(NThreads - 1)

\* A freshly created proxy and its per-worker data (cproxy_create).
NewProxy(servers, ks, ver) ==
  [live |-> TRUE, ver |-> ver, servers |-> servers, ks |-> ks]

\* cproxy_on_config_pool(name, port, config, config_ver, behavior_pool)
\* applied to the listener's view st of the shared state.
OnConfigPool(st, p, servers, ks, ver) ==
  IF ~st.proxies[p].live
  THEN [st EXCEPT
          !.proxies[p]  = NewProxy(servers, ks, ver),
          !.ptd[p]      = [w \in Workers |->
                             [ver |-> ver, servers |-> servers, ks |-> ks]],
          !.keyStats[p] = [w \in Workers |-> KeyStatsFor(servers, ks)]]
  ELSE IF ver = st.proxies[p].ver
  THEN [st EXCEPT !.abort = TRUE]
  ELSE [st EXCEPT
          !.proxies[p] = [live    |-> TRUE,
                          ver     |-> ver,
                          servers |-> UpdateConfig(@.servers, servers).val,
                          ks      |-> ks],
          !.pending[p] = [w \in Workers |->
                            IF w \in SendTargets THEN @[w] + 1 ELSE @[w]]]

-----------------------------------------------------------------------------
(* The JSON path: what cproxy_on_config_json_one makes of one bucket.      *)
(*                                                                         *)
(* A bucket is abstracted to its "nodeLocator" and the entries of its     *)
(* server array, an entry to what the parse loops test of it: its JSON    *)
(* type (form), whether its address parses (valid: a "host:port" string   *)
(* of a legal length with a port > 0, or an object with a short           *)
(* "hostname" and a numeric ports.direct > 0), its "status" string and    *)
(* the host it names.  The config handed to cproxy_on_config_pool is      *)
(* abstracted to the locator and the hosts it lists.                      *)

\* Mutant: the status is tested after the address, so an unhealthy node
\* whose address does not parse ends the loop.
RECURSIVE KetamaScanStatusLast(_, _)
KetamaScanStatusLast(ns, kept) ==
  IF ns = <<>> THEN [done |-> TRUE, hosts |-> kept]
  ELSE LET n == Head(ns) IN
       IF ~(n.form \in {"string", "object"} /\ n.valid)
       THEN [done |-> FALSE, hosts |-> kept]
       ELSE IF n.form = "object" /\ n.status = "down"
       THEN KetamaScanStatusLast(Tail(ns), kept)
       ELSE KetamaScanStatusLast(Tail(ns), Append(kept, n.host))

\* The ketama loop over the array: j walks every entry, curr counts the
\* kept ones.  An object whose status is present and not "healthy" is
\* skipped (continue) before its address is read; any entry that does not
\* parse ends the loop early (break).
RECURSIVE KetamaScan(_, _)
KetamaScan(ns, kept) ==
  IF ns = <<>> THEN [done |-> TRUE, hosts |-> kept]
  ELSE LET n == Head(ns) IN
       IF n.form = "object" /\ n.status = "down"
       THEN KetamaScan(Tail(ns), kept)
       ELSE IF n.form \in {"string", "object"} /\ n.valid
       THEN KetamaScan(Tail(ns), Append(kept, n.host))
       ELSE [done |-> FALSE, hosts |-> kept]

\* The config string handed to cproxy_on_config_pool: "HOST:PORT" (and
\* ":WEIGHT" when a weight is set) for each kept node, in order, joined by
\* commas; abstracted to the ketama locator and the hosts in that order.
KetamaConfig(hosts) == [locator |-> "ketama", hosts |-> hosts]

\* cproxy_on_config_json_one_ketama: an empty array yields nothing; the
\* pool is configured only when the loop ran to the end (j >= nodes_num)
\* and kept a node (curr > 0), with the config string of the kept nodes.
KetamaServers(ns) ==
  LET r == KetamaScan(ns, <<>>)
  IN  [ok      |-> ns # <<>> /\ r.done /\ r.hosts # <<>>,
       servers |-> KetamaConfig(r.hosts)]

\* cproxy_on_config_json_one_vbucket: the vBucketServerMap must parse and
\* name a server, and every server must be a "host:port" string with a
\* port > 0 (the loop breaks on the first that is not); the config is the
\* bucket's JSON itself.
VbucketServers(b) ==
  [ok      |-> /\ b.mapParses
               /\ b.nodes # <<>>
               /\ \A j \in DOMAIN b.nodes :
                    b.nodes[j].form = "string" /\ b.nodes[j].valid,
   servers |-> [locator |-> "vbucket",
                hosts   |-> [j \in DOMAIN b.nodes |-> b.nodes[j].host]]]

\* cproxy_on_config_json_one: a "nodeLocator" of "ketama" takes the ketama
\* path, any other or none the vbucket path.
JsonOne(b) ==
  IF b.locator = "ketama" THEN KetamaServers(b.nodes) ELSE VbucketServers(b)

\* The entry the listener applies for bucket b of pool p: every JSON pool
\* runs with m->behavior, and a bucket that fails is only logged.
JsonEntry(p, b) ==
  LET r == JsonOne(b)
  IN  [pool    |-> p,
       kind    |-> IF r.ok THEN "valid" ELSE "bad",
       servers |-> IF r.ok THEN r.servers ELSE CHOOSE s \in Servers : TRUE,
       ks      |-> DefaultKs]

\* The pool entries of document d.  On the JSON path an element of d is a
\* bucket and the pool its "name" gives, parsed as cproxy_on_config_json
\* and cproxy_on_config_json_buckets parse it; on the kvs path d is already
\* the outcome of parsing each pool.
DocEntries(d) ==
  IF Build = "json"
  THEN [i \in DOMAIN d |-> JsonEntry(d[i].pool, d[i].bucket)]
  ELSE d

\* Whether parsing an entry reaches cproxy_on_config_pool, and whether it
\* makes the whole document fail.
EntryApplies(e) == e.kind = "valid"
EntryAborts(e)  == e.kind = "bad" /\ Build = "kvs"

\* The order the entries of a document are applied in: the JSON path makes
\* two passes, the "default" bucket first.
ApplyOrder(d) ==
  IF Build = "json"
  THEN SelectSeq(d, LAMBDA e : e.pool = DefaultPool)
         \o SelectSeq(d, LAMBDA e : e.pool # DefaultPool)
  ELSE d

\* Apply the entries es in order; a failing kvs entry stops the document.
RECURSIVE ApplyEntries(_, _, _)
ApplyEntries(st, es, ver) ==
  IF es = <<>> \/ st.abort THEN st
  ELSE LET e == Head(es) IN
       IF EntryAborts(e) THEN [st EXCEPT !.failed = TRUE]
       ELSE IF EntryApplies(e)
       THEN ApplyEntries(OnConfigPool(st, e.pool, e.servers, e.ks, ver),
                         Tail(es), ver)
       ELSE ApplyEntries(st, Tail(es), ver)

\* Mutant: close_outdated_proxies without the NULL_BUCKET check.
CloseOutdatedNullBucket(st, ver) ==
  FoldSet(LAMBDA p, s : OnConfigPool(s, p, NoServers, DefaultKs, ver), st,
          {p \in AllPools : st.proxies[p].live /\ st.proxies[p].ver # ver})

\* close_outdated_proxies: every live proxy but NULL_BUCKET whose config_ver
\* the document did not set is updated with a NULL config and m->behavior.
CloseOutdated(st, ver) ==
  FoldSet(LAMBDA p, s : OnConfigPool(s, p, NoServers, DefaultKs, ver), st,
          {p \in Pools : st.proxies[p].live /\ st.proxies[p].ver # ver})

-----------------------------------------------------------------------------
(* Actions                                                                 *)

\* cproxy_init_null_bucket at start-up; every other pool is not yet created.
Init ==
  /\ proxies  = [p \in AllPools |->
                   IF p = NullPool
                   THEN NewProxy(NullBucketServers, DefaultKs, 0)
                   ELSE [live |-> FALSE, ver |-> 0, servers |-> NoServers,
                         ks |-> DefaultKs]]
  /\ ptd      = [p \in AllPools |-> [w \in Workers |->
                   [ver |-> 0, servers |-> proxies[p].servers,
                    ks |-> DefaultKs]]]
  /\ keyStats = [p \in AllPools |-> [w \in Workers |->
                   KeyStatsFor(proxies[p].servers, DefaultKs)]]
  /\ pending  = [p \in AllPools |-> [w \in Workers |-> 0]]
  /\ aborted  = FALSE
  /\ lastDoc  = <<>>

\* cproxy_on_config: the listener thread applies document d.  A document
\* that fails (goto fail) skips close_outdated_proxies.  The kvs path's
\* update of the default behavior m->behavior, which later pools inherit,
\* is not state of the model: each entry carries the key_stats setting it
\* gives its pool, over every setting KsSettings allows.
OnConfig(d) ==
  /\ ~aborted
  /\ NewConfigVer <= MaxConfigVer
  /\ LET ver == NewConfigVer
         st0 == [proxies |-> proxies, ptd |-> ptd, keyStats |-> keyStats,
                 pending |-> pending, abort |-> FALSE, failed |-> FALSE]
         st1 == ApplyEntries(st0, ApplyOrder(DocEntries(d)), ver)
         st2 == IF st1.failed \/ st1.abort THEN st1 ELSE CloseOutdated(st1, ver)
     IN  IF st2.abort
         THEN /\ aborted' = TRUE
              /\ UNCHANGED <<proxies, ptd, keyStats, pending, lastDoc>>
         ELSE /\ proxies'  = st2.proxies
              /\ ptd'      = st2.ptd
              /\ keyStats' = st2.keyStats
              /\ pending'  = st2.pending
              /\ lastDoc'  = d
              /\ UNCHANGED aborted

\* Mutant: update_ptd_config takes p->config_ver but copies the config
\* from ptd->config instead of p->config.
UpdatePtdConfigOwnConfig(w, p) ==
  /\ ~aborted
  /\ pending[p][w] > 0
  /\ pending' = [pending EXCEPT ![p][w] = @ - 1]
  /\ LET cur == ptd[p][w]
         pr  == proxies[p]
         upd == UpdateConfig(cur.servers, cur.servers)
     IN  IF cur.ver # pr.ver
         THEN /\ ptd' = [ptd EXCEPT ![p][w] =
                           [ver |-> pr.ver, servers |-> upd.val, ks |-> pr.ks]]
              /\ keyStats' = IF upd.changed
                             THEN [keyStats EXCEPT ![p][w] =
                                     KeyStatsFor(upd.val, pr.ks)]
                             ELSE keyStats
         ELSE UNCHANGED <<ptd, keyStats>>
  /\ UNCHANGED <<proxies, aborted, lastDoc>>

\* The behavior_pool array of a config: one entry per server, each a copy
\* of the pool's base behavior, which holds the key_stats settings; NULL
\* with no config.
Behaviors(servers, ks) == IF servers = NoServers THEN NoServers ELSE <<servers, ks>>

\* update_ptd_config on worker w for pool p: under p->proxy_lock, when the
\* versions differ, copy the proxy's config string (update_str_config),
\* its base behavior and its behaviors array (update_behaviors_config),
\* then restart key_stats if either copy freed an old value.
UpdatePtdConfig(w, p) ==
  /\ ~aborted
  /\ pending[p][w] > 0
  /\ pending' = [pending EXCEPT ![p][w] = @ - 1]
  /\ LET cur == ptd[p][w]
         pr  == proxies[p]
         str == UpdateConfig(cur.servers, pr.servers)
         beh == UpdateConfig(Behaviors(cur.servers, cur.ks), Behaviors(pr.servers, pr.ks))
     IN  IF cur.ver # pr.ver
         THEN /\ ptd' = [ptd EXCEPT ![p][w] =
                           [ver |-> pr.ver, servers |-> str.val, ks |-> pr.ks]]
              /\ keyStats' = IF str.changed \/ beh.changed
                             THEN [keyStats EXCEPT ![p][w] =
                                     KeyStatsFor(str.val, pr.ks)]
                             ELSE keyStats
         ELSE UNCHANGED <<ptd, keyStats>>
  /\ UNCHANGED <<proxies, aborted, lastDoc>>

Next ==
  \/ \E d \in Docs : OnConfig(d)
  \/ \E w \in Workers, p \in AllPools : UpdatePtdConfig(w, p)

\* Worker threads drain their work queues (the libevent notify pipe wakes
\* them); the cluster manager need not send anything.
Fairness == \A w \in Workers, p \in AllPools : WF_vars(UpdatePtdConfig(w, p))

Spec == Init /\ [][Next]_vars /\ Fairness

-----------------------------------------------------------------------------
(* Properties                                                              *)

\* The types of the reconfiguration state; ProxyStats checks it together
\* with its own (StatsTypeOK).
TypeOK ==
  /\ proxies \in [AllPools -> ProxyRec]
  /\ ptd \in [AllPools -> [Workers -> PtdRec]]
  /\ keyStats \in [AllPools -> [Workers -> KsSettings \cup {Stopped}]]
  /\ pending \in [AllPools -> [Workers -> Nat]]
  /\ aborted \in BOOLEAN
  /\ lastDoc \in Docs \cup {<<>>}

\* A worker never holds a torn or future config: its snapshot's config_ver
\* is never ahead of the proxy's, and a snapshot at the proxy's config_ver
\* holds the proxy's config and behaviors (update_ptd_config copying under
\* proxy_lock after cproxy_on_config_pool and close_outdated_proxies).
PtdNeverTorn ==
  \A p \in AllPools, w \in Workers :
    /\ ptd[p][w].ver <= proxies[p].ver
    /\ ptd[p][w].ver = proxies[p].ver =>
         /\ ptd[p][w].servers = proxies[p].servers
         /\ ptd[p][w].ks = proxies[p].ks

\* assert(config_ver != p->config_ver) in cproxy_on_config_pool never fails:
\* every document carries a config_ver above every proxy's, including the
\* proxies close_outdated_proxies retired under an earlier version.
NoConfigAssertFailure == ~aborted

\* Spec 4.K step 2 on the ketama path: after a document, a pool it gives a
\* ketama bucket holds exactly the nodes of that bucket whose status is
\* "healthy" or absent, in array order, when all of those parse and there
\* is one; otherwise cproxy_on_config_json_one_ketama configures nothing and
\* close_outdated_proxies leaves the pool with no config.
KetamaKeepsHealthyNodes ==
  \A i \in DOMAIN lastDoc :
    LET b    == lastDoc[i].bucket
        kept == SelectSeq(b.nodes,
                          LAMBDA n : ~(n.form = "object" /\ n.status = "down"))
        ok   == /\ kept # <<>>
                /\ \A j \in DOMAIN kept :
                     kept[j].form \in {"string", "object"} /\ kept[j].valid
    IN  Build = "json" /\ b.locator = "ketama" =>
          proxies[lastDoc[i].pool].servers =
            IF ok THEN [locator |-> "ketama",
                        hosts   |-> [j \in DOMAIN kept |-> kept[j].host]]
            ELSE NoServers

\* Every worker's ptd eventually reaches every config_ver its proxy takes
\* (spec section 8, property 3), through the update_ptd_config items
\* cproxy_on_config_pool queues.
PtdCatchesUp ==
  \A p \in AllPools, w \in Workers, v \in 1..MaxConfigVer :
    proxies[p].ver = v ~> ptd[p][w].ver >= v

\* A worker's key_stats cache runs with the setting of the config it holds
\* (spec 4.K step 6: key-stats caches are restarted on behavior changes
\* affecting them), as update_ptd_config restarts it when it copies a change.
KeyStatsMatchConfig ==
  \A p \in AllPools, w \in Workers :
    keyStats[p][w] = KeyStatsFor(ptd[p][w].servers, ptd[p][w].ks)

\* The documents as the pool entries they parse to.
ParsedDocs == {DocEntries(d) : d \in Docs}

\* The pools as the reconfiguration pipeline promises them (ProxyPools).
Pools_ == INSTANCE ProxyPools WITH
  NullConfig <- NullBucketServers,
  Docs       <- ParsedDocs,
  conf <- [p \in AllPools |->
             [live |-> proxies[p].live, servers |-> proxies[p].servers,
              ks |-> proxies[p].ks]],
  doc  <- DocEntries(lastDoc)

\* Every document either leaves all pools as they were or applies as a
\* whole: named pools get their entries, the others are retired.
ImplementsProxyPools == Pools_!Spec

====
