# TLA+ models of membase

This directory holds TLA+ specifications of the concurrent parts of the
membase sources under `src/`, the TLC configurations that check them, and
`PROJECT.json`. That file records the component inventory, the runs, the
mutants, the map from definitions to source lines, the findings and the
hazards.

## The system and its parts

The sources are pieces of three programs.

* **bucket_engine** (`src/bucket_engine/bucket_engine.c`) is a memcached
  engine that multiplexes named buckets. Each bucket is another engine
  (default_engine or ep-engine) behind a reference-counted
  `proxied_engine_handle_t`.
  * The memcached core gives every connection (cookie) an
    `engine_specific_t`. That record points at the bucket the connection
    uses and counts the reservations the underlying engine took on it.
  * Every engine call goes through `get_engine_handle` or
    `try_get_engine_handle`, which count the thread in `peh->clients`, and
    leaves through `release_engine_handle`.
  * `DELETE_BUCKET` moves a bucket to STOP_REQUESTED. The last client to
    leave starts a detached `engine_shutdown_thread`. That thread destroys
    the engine, unlinks the name, notifies the deleting connection, waits
    for the refcount to reach zero and frees the handle.
  * Connections interact with each other through the handle only: its
    lock, its counters and its state.
* **moxi** (`src/moxi/`) is a memcached proxy.
  * Worker threads serve upstream connections and forward commands to
    downstream servers (`cproxy_protocol_*.c`).
  * `cproxy_multiget.c` de-duplicates keys of multi-gets across the
    upstreams of one downstream request.
  * A front cache (mcache) serves hits locally.
  * The main thread applies configurations from the cluster manager
    (`agent_config.c`). It updates every proxy (pool) and sends
    `update_ptd_config` to the worker threads.
  * `agent_stats.c` gathers statistics from the worker threads with
    scatter/gather work queues.
  * `cproxy.h`, `mcs.h` and `agent.h` declare the structures. Their
    implementations (cproxy.c, mcache.c, mcs.c) are not in the repository.
* **ep-engine** (`src/ep-engine/`): `tapconnection.cc` is the TAP
  producer.
  * It streams mutations to a consumer with 32-bit sequence numbers.
  * It requests acks and stalls when the ack window is full.
  * It resends what the consumer nacks, and everything unacked when the
    consumer reconnects (`rollback`).
  * The dispatcher, sync registry, tap connection map and stat snapshot
    exist only as headers here. The tests under `t/` test code that is not
    present.
* **libconflate** (`src/libconflate/adhoc_commands.c`) handles ad-hoc
  XMPP commands.

`PROJECT.json` ("components") lists every part and its status.

## Modules

### BucketEngine and BucketRegistry (bucket_engine.c)

`BucketEngine.tla` models the bucket registry and the handle lifecycle.
`MCBucketEngine.tla` instantiates it. `BucketRegistry.tla` is its abstract
specification.

**State.** The variables follow the code:

| variable | code |
|---|---|
| `registry` | `bucket_engine.engines` (name → handle) |
| `peh[h]` | a `proxied_engine_handle_t`: state, refcount, clients, engine destroyed (`pe.v1` gone), `tap_iterator` non-NULL, `cookie` of the deleter, name, and the program counter `tpc` of its shutdown thread |
| `es[c]` | the connection's `engine_specific_t` (`alloc` = not NULL, `peh`, `reserved`, `notified`) |
| `cpc[c]` | where the thread serving connection `c` is |
| `pend[c]` | a handle returned by `find_bucket`/`create_bucket` that the thread still has to release |
| `callH[c]` | the handle whose engine the thread executes in |
| `listRefs[c]` | handles retained by `list_buckets` |
| `hasShim[c]` | the core holds the TAP iterator shim for the connection |
| `aborted` | the process died |
| `authUser[c]` | the username of the connection's auth data (`get_auth_data`), `NoName` before SASL |
| `engRes[c]` | reservations the proxied engine holds on the cookie and will release (it releases exactly what it reserved) |
| `inProgress`, `bucketCounter` | `bucket_engine.shutdown.in_progress` and `.bucket_counter` |
| `destroyPc` | where the core's call of `bucket_destroy` is: not called, waiting for the counter, returned |

Handles are allocations. A handle is `UNUSED` until `create_bucket` takes
it and `FREED` after `free_engine_handle`, so a pointer to a freed handle
stays visible.

**Atomicity.** Each critical section under `peh->lock` or the engines
mutex is one action. The code between two critical sections is a program
counter value, so other threads can interleave there. That code is:
* an engine call;
* the ON_DISCONNECT callback;
* the gap between `find_bucket` and `set_engine_handle` or the delete's
  lock;
* the gap between `list_buckets` and `bucket_list_free`.

**Actions.** Each action is a whole code path.

| action | code |
|---|---|
| `Connect` | `handle_connect`: with a default bucket name, find or auto-create it (`FindOrCreate`) and go on to `set_engine_handle`; without one, attach to the default engine if there is one (`peh = &default_engine`, retained), else to nothing. A cookie the engine still holds reserved is not handed out again |
| `AuthFind`, `SelectFind` / `SetEngineHandle` | `handle_auth` (the connection's username becomes the SASL user; find, or create with auto_create) and `handle_select_bucket` (find only), then `set_engine_handle` |
| `AdminCommand` | `bucket_unknown_command` for CREATE, DELETE, LIST and SELECT, guarded by `is_authorized` (`IsAuthorized`); an unauthorized request is answered ENOTSUP and changes nothing |
| `CreateBucket` | `CREATE_BUCKET` |
| `DeleteFind` / `DeleteLocked` / `DeleteReply` | `handle_delete_bucket` with its EWOULDBLOCK round trip |
| `EngineRequest`: `CallEnter` / `GetEngineHandleRefused`, or `TryCallEnter`; then `CallExit` | every engine entry point and `get_tap_iterator`: through `get_engine_handle`, or through `try_get_engine_handle` (reset_stats, get_item_info, item_set_cas, item_release), whose refusal changes nothing |
| `TapShimEnter` | `bucket_tap_iterator_shim` |
| `ReserveCookie` / `ReleaseCookie` | `bucket_engine_reserve_cookie` / `bucket_engine_release_cookie` |
| `DisconnectBegin` / `DisconnectEnd` | `handle_disconnect` |
| `HandleListBuckets`, `AggregateStats`: `ListBuckets` / `ListRelease` | `handle_list_buckets` (LIST_BUCKETS, so part of `AdminCommand`) and `bucket_aggregate_stats` (not behind `is_authorized`): `list_buckets` retains every RUNNING registered bucket, `bucket_list_free` releases them |
| `ShutdownStart` / `Destroy` / `Unlink` / `Stopped` / `Free` / `Terminate` | `engine_shutdown_thread`: the skip-or-count section, the destroy, the unlink, STOPPED and notify, the end of the wait loop on a zero refcount or on `in_progress`, and `free_engine_handle` with `--bucket_counter` (`FreeAndUncount`) |
| `BucketDestroyBegin` / `BucketDestroyIterate` | `bucket_destroy`: set `in_progress` and wait for `bucket_counter`, then `bucket_shutdown_engine` over the table and `genhash_free` |

**Aborts.** A failing `assert(refcount > 0)` or a release through a freed
or NULL `es->peh` is modelled as the process dying. `UseFreedHandle` is a
dereference of a freed handle, which is undefined behaviour; the model
takes the crash outcome. `Restart` then starts a fresh process; it also
follows a completed `bucket_destroy`, after which the process exits.

**Global shutdown.** The core calls `bucket_destroy` at exit. Its comment,
and `bucket_shutdown_engine`'s, say that no connection runs in the engine
then and that the core never uses the engine afterwards. The model takes
this as the environment's promise:
* `BucketDestroyBegin` is enabled only when no thread is inside an engine
  call or a callback;
* from `in_progress` on, connections take no step (`Served`).

The shutdown threads do continue. A thread that reads `in_progress` in its
first section returns at once. A counted thread that waits for references
gives up after a timed wait, and frees the handle although the
connections the core no longer serves still point at it.
`bucket_shutdown_engine` destroys an entry only when `pe.v0` is set.
`pe` is a union (line 27), so the thread's `pe.v1 = NULL` clears `pe.v0`
too, and an entry the thread already destroyed is skipped
(`DestroyTable`). Without the wait on `bucket_counter`, a thread still
inside `destroy()` would race the second destroy, and `ShutdownQuiesced`
fails.

**Simplifications.**
* The default engine (`has_default`) is the constant `DefaultEngine`, a
  handle that `init_default_bucket` starts RUNNING with one reference
  (`InitHandles`) and that is never registered, deleted or stopped;
  `get_engine_handle` and `reserve_cookie` fall back to it when
  `es->peh` is NULL (`Engine(c)`); `try_get_engine_handle`
  (`TryCallEnter`) does not. Only the reserve run
  has one. There `reserve_cookie` on an unattached connection reserves
  through the default engine, and the engine's later `release_cookie`
  fails `assert(es->peh != NULL)`, or finds `es` already freed by
  `handle_disconnect`: both abort.
* Opcodes are not data: a request is an admin command or an engine call.
* Configuration parsing, the create outcomes that leave no trace (load or
  initialize failure), logging and statistics output are left out.

**Constants** choose the engine behind the buckets:

| constant | meaning |
|---|---|
| `EngineReservesCookies` | the engine reserves cookies (ep-engine TAP does) |
| `EngineWantsDisconnects` | the engine registers ON_DISCONNECT |
| `TapIteratorDisabled` | set for default_engine |
| `AutoCreate` | the `auto_create` configuration setting |
| `SelfDelete` | whether a connection may delete the bucket it is attached to |
| `AdminUser` | the `admin` configuration setting, or `NoName` |
| `DefaultBucketName` | the `default_bucket_name` setting, or `NoName` |
| `AuthPhaseDisabled` | the `BUCKET_ENGINE_DIABLE_AUTH_PHASE` environment variable is set, as in the engine's tests |
| `DefaultEngine` | the handle of the default engine, or `NoHandle` when `default` is not configured |

Every config uses the same bounds: 2 connections, 2 handle allocations,
`MaxReserved = 1` and `MaxClients = 3`, and one bucket name, except
lifecycle. Lifecycle has two names, the second the admin user's, with the
auth phase on. ep_tap attaches every new connection to a default bucket
name; the other runs disable the auth phase and have no default name.
The reserve run adds the default engine to one bucket allocation
(`MCHandlesDefault`), so that reservations through it and through a
bucket meet.
* One name and two allocations are enough for a bucket to be deleted and
  re-created while the old handle still waits for its references.
* Two connections give one deleter and one user of the bucket.
* Two names in lifecycle give a non-admin user whose bucket differs from
  the one the admin selects.
* `MaxClients` caps the count that the TAP shim leak grows without bound.
  Without the leak, `clients` never exceeds the number of connections.

**Fairness.** Weak fairness on the steps that a thread completes without
waiting for its client:
* an engine call returning;
* the disconnect callback returning;
* the second halves of auth, select, delete and list;
* the reply after `notify_io_complete`;
* each shutdown-thread step, including the timed wait that sees a zero
  refcount, or sees `in_progress` with references left;
* `bucket_destroy` once it has begun;
* the restart.

Client requests (connect, commands, disconnect) are not fair: a client may
stay idle forever. Neither is the core's exit: it may never call
`bucket_destroy`.

**Properties.**

| property | kind | statement |
|---|---|---|
| `RefcountCovers` | invariant | A handle's refcount is at least the number of references held on it: the registry's while RUNNING, attached connections, reservations, pending find or create references, and bucket lists. This is spec section 8 and the comment on `refcount`. |
| `NoDanglingHandle` | invariant | No registry entry, connection or thread points at a freed handle. Once a global shutdown has begun, only the registry is checked, because connections are no longer served. |
| `ClientsMatchCallers` | invariant | `clients` equals the number of threads inside the engine. |
| `NoCallIntoDestroyedEngine` | invariant | No engine call or disconnect callback runs in a destroyed engine. |
| `BucketIsolation` | invariant | With the auth phase on, a connection that `is_authorized` refuses is attached only to the bucket of its own auth username or to the default bucket, outside `handle_auth` itself. Re-authenticating detaches a connection the admin had SELECTed elsewhere, even when the new user's bucket is missing or stopping. |
| `ShutdownQuiesced` | invariant | When `bucket_destroy` has freed the table, no shutdown thread is past its `in_progress` check, and every bucket engine ever loaded has been destroyed (the default engine is only closed by `uninit_engine_handle`). |
| `DeleteEventuallyCompletes` | liveness | Every EWOULDBLOCK delete is eventually answered, unless the core exits first. |
| `GlobalShutdownCompletes` | liveness | A `bucket_destroy` that has begun returns. Shutdown threads that still wait on references give up, and `bucket_counter` drops to zero. |
| `HandleEventuallyFreed` | liveness | A stopped handle nobody references is eventually freed. |
| `ImplementsBucketRegistry` | refinement | BucketEngine implements `BucketRegistry` (below). A name is created only when absent, stopped only by DELETE_BUCKET, answered SUCCESS only after its unlink, and every deleted bucket is eventually unlinked. |

**BucketRegistry** (`BucketRegistry.tla`) is what the registry promises,
without handles, reference counts or threads. Each name is `absent`,
`running` or `deleting`. Each connection is owed no answer, is waiting on
the name it deletes, or has its answer `done`. The actions are:
* `Create(n)`: `create_bucket` registers a name only when
  `find_bucket_inner` finds nothing.
* `Delete(c, n)`: `handle_delete_bucket` on a RUNNING bucket.
* `Unlink(n)`: `genhash_delete_all` in `engine_shutdown_thread`, after which
  the answers owed on that name are due.
* `Reply(c)`: the SUCCESS after `notify_io_complete`.
* `Teardown`: `bucket_destroy` empties the table.
* `Crash`: the restart.

Weak fairness on `Unlink` states that a deleted bucket is eventually
unlinked. The refinement mapping lives in BucketEngine:
* `RegBucket` classifies the registry entry by its handle's state.
* `RegReply` looks at connections in `delwait`/`delready` and the handle
  they marked with their cookie that is not yet `STATE_NULL`
  (`OwedHandles`).

If `create_bucket` checked with `find_bucket` instead of
`find_bucket_inner`, a name would be re-created over a bucket that is
still stopping, and the refinement fails. It also fails if
`engine_shutdown_thread` notified the cookie before unlinking.

**Runs** (`MCBucketEngine_<name>.cfg`; PROJECT.json names them `be_<name>`):

| run | expect | checks | shows |
|---|---|---|---|
| lifecycle | pass | TypeOK, RefcountCovers, NoDanglingHandle, ClientsMatchCallers, NoCallIntoDestroyedEngine, ShutdownQuiesced, BucketIsolation, DeleteEventuallyCompletes, HandleEventuallyFreed, GlobalShutdownCompletes, ImplementsBucketRegistry | with default_engine buckets, the auth phase on and no self-delete, the lifecycle is sound and implements BucketRegistry, non-admin connections stay in their own buckets (without the `is_authorized` check they do not), every unreferenced stopped handle is freed, and a global shutdown racing the shutdown threads completes with every engine destroyed exactly once (300k states, about 1 min; self-delete is covered by ep_tap and reserve). With the terminate branch removed, `GlobalShutdownCompletes` fails; with `bucket_destroy` not waiting for the counter, `ShutdownQuiesced` fails |
| ep_tap | pass | RefcountCovers, NoDanglingHandle | the TAP iterator and the ON_DISCONNECT callback leave the refcounts intact, also for connections attached at connect to a default bucket that may be deleted meanwhile (4.8M states, under 1 min) |
| reserve | pass | ClientsMatchCallers | with the default engine and an engine that reserves cookies, reservations, and the aborts they cause, leave the clients count exact, also for calls routed to the default engine (437k states). `NoCallIntoDestroyedEngine` is checked only by lifecycle: a reserved connection meets the same RUNNING check |
| reserve_double_release | violation | RefcountCovers | finding: `get_engine_handle` drops a reserved connection's reference twice |
| self_delete_leak | violation | HandleEventuallyFreed | finding: deleting one's own bucket leaks a reference |
| tap_clients_leak | violation | DeleteEventuallyCompletes | finding: the TAP shim leaks `clients` after another connection reset the shared iterator |

The ON_DISCONNECT callback race (`handle_disconnect`, line 1088) is not a
run of its own. The spec lists the window as an open question: a callback
may run against a STOP_REQUESTED bucket. With `EngineWantsDisconnects =
TRUE` and `SelfDelete = TRUE`, checking `NoCallIntoDestroyedEngine` alone
makes TLC stop after about 700 states. The trace goes further than the
spec's window: the delete brings `clients` to 0 while the callback runs
outside it, and the shutdown thread destroys the engine under the callback.

### ProxyConfig and ProxyPools (agent_config.c)

`ProxyConfig.tla` models moxi's live reconfiguration. `ProxyPools.tla` is
the abstract promise that ProxyConfig is checked against.
`MCProxyConfig.tla` instantiates both.

**State.**

| variable | code |
|---|---|
| `proxies[p]` | the `struct proxy` of pool `p`: on `m->proxy_head`'s list, `config_ver`, `config` with `behavior_pool` (one "server list", NULL together), and the key_stats setting of `behavior_pool.base` |
| `ptd[p][w]` | `p->thread_data[w]`, the snapshot worker `w` holds |
| `keyStats[p][w]` | the setting `ptd->key_stats` runs with, or `Stopped` |
| `pending[p][w]` | `update_ptd_config` items for that ptd in worker `w`'s work queue |
| `aborted` | an assert ended the process |
| `lastDoc` | history: the last document received (bucket list on the JSON path), for the refinement and `KetamaKeepsHealthyNodes` |

The work queue is a count per pool. Items for different pools touch
different ptds, and every item for one pool does the same thing: it reads
the proxy's current config. So the order of the queue cannot matter.

**Actions.**
* `OnConfig(d)` is one whole `cproxy_on_config` work item. It is the only
  thing the listener thread does here, and the workers only see its
  effects through `proxy_lock` sections. It is built from these operators:
  * `NewConfigVer`: max + 1;
  * `ApplyOrder`: the JSON path's default-first two passes;
  * `ApplyEntries`: a RECURSIVE fold over the entries, which stops at a
    failing key/value entry;
  * `OnConfigPool`: `cproxy_on_config_pool`. It creates a proxy, or
    updates one under the lock and queues `update_ptd_config` for workers
    1..n-1;
  * `CloseOutdated`: `close_outdated_proxies`.
* `UpdatePtdConfig(w, p)` is `update_ptd_config` on a worker. It includes
  `update_str_config`/`update_behaviors_config` (operator `UpdateConfig`)
  and the key_stats restart. Every element of the behaviors array is a
  copy of the pool's base behavior (`arr[j] = base` in
  `cproxy_on_config_pool`), so `Behaviors` pairs the server list with the
  key_stats setting: a changed setting reaches `update_behaviors_config`
  as a changed array.

On the key/value path a document is a sequence of pool entries. Each
entry is `valid`, `skip` (no servers) or `bad` (unparsable port, name or
servers), which stands for what `parse_kvs_servers` and
`parse_kvs_behavior` decide. On the JSON path a document is a sequence of
buckets, each with the pool its name gives. `OnConfig` parses them as part
of the work item (`DocEntries`):
* a bucket is its `nodeLocator` and its server array. Each array entry is
  its JSON type, whether its address parses, its `status` and its host;
* `KetamaScan`/`KetamaServers` translate the ketama loop. An object whose
  status is present and not "healthy" is skipped before its address is
  read. Any entry that does not parse breaks the loop. The pool is
  configured only when the loop ran to the end and kept a node;
* `VbucketServers` is the vbucket path: the map parses, names a server,
  and every server is a `host:port` string;
* `JsonOne` picks the path as `cproxy_on_config_json_one` does: "ketama"
  or anything else;
* `JsonEntry` gives every JSON pool `m->behavior`'s key_stats setting. A
  failing bucket is only logged: `cproxy_on_config` ignores the result
  and still runs `close_outdated_proxies`.

A config is abstracted to its locator and host list. NULL_BUCKET's
"empty" string is the record with locator "empty" and no hosts.
`cproxy_create` is not in the repository: a new proxy's
thread data is initialised from its config, as spec 4.F/4.G describe.

**Constants and bounds.**
* Two pools plus NULL_BUCKET; `p1` is the "default" bucket.
* Two worker threads (`NThreads = 3`).
* Server lists `{s1, s2}` on the key/value path. On the JSON path they are
  the two configs `KetamaH1` and `VbucketH1` parse to (`MCServersJson`).
* JSON buckets (`MCProxyConfig.tla`):
  * `KetamaH1` keeps `h1` after skipping a down node whose address does
    not parse;
  * `KetamaBadNode` fails on a malformed healthy node;
  * `VbucketH1` has no locator and takes the vbucket path;
  * `KetamaDown` has only a down node. `VbucketNoMap` has a map that does
    not parse. These two appear only in single-bucket documents.

  A pool can thus get the ketama config, the vbucket config, or none and
  be retired. The skipped malformed down node is the case that tells the
  code's order of tests (status before address) from the reverse order.
* Key_stats settings `{k0 (off), k1}`.
* Documents of one or two entries naming distinct pools.
* `MaxConfigVer = 3`. That is enough to create a pool, update it, retire it
  and configure it again.
* `Build` chooses the JSON path (`MOXI_USE_LIBVBUCKET`) or the key/value
  path.
* The cfgs use these document sets: `MCDocsJson` for json, `MCDocsAll` for kvs_partial and `MCDocsFixedKs` for keystats.
* Each cfg says which document set it uses. `MCProxyConfig.tla` documents
  each set.

**Fairness.** Weak fairness on each worker's `update_ptd_config`: workers
drain their work queues. The cluster manager need not send anything.
After the last configuration the listener waits, so the cfgs say
`CHECK_DEADLOCK FALSE`.

**Properties.**

| property | kind | statement |
|---|---|---|
| `PtdNeverTorn` | invariant | No worker's snapshot is ahead of its proxy. A snapshot at the proxy's `config_ver` holds the proxy's config and behaviors (spec 4.K: no torn config). |
| `NoConfigAssertFailure` | invariant | `assert(config_ver != p->config_ver)` never fires. |
| `PtdCatchesUp` | liveness | Every worker's ptd reaches every `config_ver` its proxy takes (spec 8, property 3). |
| `KetamaKeepsHealthyNodes` | invariant | After a document, a pool it gives a ketama bucket holds exactly the nodes spec 4.K step 2 asks for. These are the nodes whose status is "healthy" or absent, whatever the address of the others, in array order. This holds when all of them parse and there is one; otherwise the pool has no config. Stated with a declarative `SelectSeq` filter, against the parse loop, `cproxy_on_config_pool` and `close_outdated_proxies` together. |
| `ImplementsProxyPools` | refinement | Each document either changes no pool or applies as a whole. The pools it configures get their entries; the other live pools except NULL_BUCKET are retired. |
| `KeyStatsMatchConfig` | invariant | A worker's key_stats cache runs with the setting of the config it holds (spec 4.K step 6). |

**Runs** (`MCProxyConfig_<name>.cfg`; PROJECT.json names them `pc_<name>`):

| run | expect | checks | shows |
|---|---|---|---|
| json | pass | PtdNeverTorn, NoConfigAssertFailure, KetamaKeepsHealthyNodes, PtdCatchesUp, ImplementsProxyPools | the JSON path applies bucket lists all-or-nothing, a pool whose bucket fails to parse is retired, workers converge, and the ketama parse filters as specified (48k states, about 1.5 min) |
| kvs_partial | violation | ImplementsProxyPools | finding: an unparsable pool after valid ones half-applies the document and skips retirement |
| keystats | violation | KeyStatsMatchConfig | finding: a retired pool configured again keeps key_stats stopped on every worker |

`TypeOK` of ProxyConfig is checked by the ProxyStats run, inside
`StatsTypeOK`. One more defect shows under the same properties, and
PROJECT.json lists it as a hazard: a document naming a pool twice aborts
on the config_ver assert.

The kvs path of `cproxy_on_config` also updates `m->behavior` from the
document's top-level behaviors. That is not state of the model; each pool
entry carries the key_stats setting it is configured with.

### TapProducer (tapconnection.cc)

`TapProducer.tla` models the ack protocol of one TAP producer. The stream
supports acks and checkpoint sync (`TAP_CONNECT_SUPPORT_ACK` and
`TAP_CONNECT_CHECKPOINT`) and carries one vbucket. The constructor, the
producer methods and `TapResumeCallback` are in the repository. The engine
loop that calls them (`walkTapQueue` in ep_engine.cc), the consumer and
the tap connection map are not, so they are the environment. Three
assumptions follow from that:
* a message is numbered with `seqno` before `requestAck` increments it,
  consistent with `initialAckSequenceNumber = 1` and `lastSeqNum = seqno`;
* the engine loop does not walk a suspended stream or one whose window is
  full;
* the consumer handles messages in order and answers every message that
  asks for an ack and every message it fails.

**State.**

| variable | code |
|---|---|
| `seqno`, `seqnoReceived`, `isSeqNumRotated`, `isLastAckSucceed` | members of `TapProducer`; seqnos are `W` bits instead of 32 |
| `lastSeqNum`, `ckState`, `lastItem` | the vbucket's `TapCheckpointState` |
| `queue` | the queues `addEvent_UNLOCKED` and `addCheckpointMessage_UNLOCKED` fill, as one sequence |
| `tapLog` | `tapLog`: seqno and item of every sent, unacked message |
| `cursor` | the TAP cursor in the checkpoint manager; `Stream` lists the items it yields (`mut`, `start`, `end`) |
| `suspended`, `connected` | `suspended`; the consumer's connection |
| `net`, `acks`, `applied` | messages in flight each way (TCP keeps them in order) and the items the consumer applied |

**Actions.**
* `Walk` is one `next()` call followed by `requestAck` and the logging of
  the message. It returns the head of the queue or, when the queue is
  empty, the item under the cursor. A CHECKPOINT_END goes out only when
  `lastSeqNum <= seqnoAcked` (`CheckpointEndAcked`); otherwise the cursor
  steps back onto it.
* `Receive` is the consumer. It applies and possibly acks the message,
  nacks it with ETMPFAIL, or fails it with an error.
* `ProcessAck` is `processAck` with its three status branches, including
  the reset of `lastSeqNum` on a rotated ack and `reschedule_UNLOCKED`.
* `Resume` is the back-off timer.
* `Drop` loses the connection. `Rollback` is the reconnect: the channels
  are emptied and `rollback()` runs.

**Bounds.** The seqno is 3 bits wide (`SeqMax = 7`). The window is 2 and
an ack is asked every second seqno. The scaled values keep the code's
ratios: the window is smaller than the seqno space, and at least one ack
request falls inside every window. At most one ETMPFAIL and one lost
connection (an error nack counts as one) occur.

`MCStreamWrapAfterEnd` is two mutations, a CHECKPOINT_END, a
CHECKPOINT_START and three mutations. With the resends the seqno wraps
during the second checkpoint, so the window is checked across the wrap.
`MCStreamEndAfterWrap` reads its CHECKPOINT_END after the wrap.

**Fairness.** The model assumes weak fairness of:
* the walk and the ack handling, because the connection's worker thread
  is woken for both;
* the consumer;
* the resume timer, because the dispatcher fires it;
* the reconnect, because the consumer reconnects under its name.

The model has no fairness for losing a connection. Once the stream is
drained the producer waits for new mutations, so deadlock is not checked.

**Properties.**

| property | kind | statement |
|---|---|---|
| `NoItemLost` | invariant | Every item the cursor passed is applied by the consumer, still logged, or queued for resending. This covers implicit acks, nack rescheduling and rollback together. |
| `WindowBounded` | invariant | The log never holds more than the window, also after the seqno wraps. |
| `CheckpointEndAfterAcks` | action property | A CHECKPOINT_END is sent only when the consumer has applied every mutation before it (the comment at tapconnection.cc:1314). |
| `AllApplied` | liveness | Every item of the stream eventually reaches the consumer. |

**Runs** (PROJECT.json names them `tp_pass` and `tp_wrap`):

| run | cfg | expect | checks | shows |
|---|---|---|---|---|
| pass | `MCTapProducer.cfg` | pass | TypeOK, NoItemLost, WindowBounded, CheckpointEndAfterAcks, AllApplied | nacks, reconnects and the wrap lose nothing and keep the window; the end waits for its mutations (4.8k states) |
| wrap | `MCTapProducer_wrap.cfg` | violation | CheckpointEndAfterAcks | finding: after the wrap `lastSeqNum <= seqnoAcked` compares a new seqno with an old one. The last mutation, nacked at 7 and resent as 1, is still unacked when the CHECKPOINT_END goes out. |

With the queue checked before the cursor, the `UINT32_MAX` that
`reschedule_UNLOCKED` and `rollback` write into `lastSeqNum` is always
overwritten before the gate reads it. The `- 1` of an unsuccessful last
ack in `seqnoAcked` never decides the gate either. A mutant that drops it
survives, so the model does not use it for a property.

### ProxyStats (agent_stats.c), composed with ProxyConfig

`ProxyStats` EXTENDS `ProxyConfig`. It adds the statistics requests of the
conflate thread and their scatter/gather over the worker threads. Both
components run on the listener thread and read the same proxy list.
`work_collect` (work.c) is not in the repository. It is modelled by what its
callers here rely on:
* `work_collect_init` and `work_collect_count` set a count;
* `work_collect_one` decrements it;
* `work_collect_wait` blocks until it is 0.

| variable | code |
|---|---|
| `conflatePc` | where `on_conflate_get_stats` is: idle, in its `work_collect_wait` loop, or merging |
| `lq` | `main_stats_collect` and `main_stats_reset` items on the listener's work queue |
| `resetting` | `main_stats_reset` blocked in its `work_collect_wait` loop |
| `listed` | the proxies the last `main_stats_collect` counted |
| `ca[w]`, `rca[w]` | the `work_collect` counts of get_stats and of reset for worker `w` |
| `wq[w]` | `work_stats_collect` and `work_stats_reset` items queued to worker `w` |
| `gathered[w]` | the `port:name` keys of worker `w`'s `map_pstd` |

Actions:
* `GetStats`: `on_conflate_get_stats` up to its wait (count -1 everywhere,
  `main_stats_collect` queued).
* `GetStatsNoCollect`: the same request when an allocation of `ca`, a pair
  or a map fails, or when `work_send` of `main_stats_collect` fails. It
  returns `RV_OK` without waiting and emits nothing of the workers.
* `ConflateWait`, then `ConflateMerge`: the wait loop, then the merge into
  worker 1's map, the emit and the frees.
* `ResetStats`: `on_conflate_reset_stats`.
* `MainStatsCollect`: the whole listener handler. It counts the proxies,
  sets every worker's count and sends the items; a `work_send` may fail
  within `MaxSendFails`. Worker `i` cannot see its items before its count
  is set, so the send loop is one step.
* `MainStatsReset`, then `MainStatsResetDone`: the reset handler, which
  waits on the listener thread. `MainStatsResetNoCa` is the handler when
  the calloc of its work_collects fails: counters zeroed, nothing sent.
* `WorkStatsCollect(w)`, `WorkStatsReset(w)`: the workers' handlers.
* `OnConfig` keeps its ProxyConfig meaning, with one more guard: it cannot
  run while `main_stats_reset` blocks the listener. It is not queued on
  `lq`, so it may also run before a stats item queued ahead of it. That
  over-approximates the listener's FIFO queue: the model has every order
  the code has, and more, so the invariants hold of the code too.

Each conflate callback finishes before the next starts, so there is one
get_stats request at a time. The proxy list only grows:
`close_outdated_proxies` gives a retired proxy a NULL config and leaves it
linked.

**Bounds** (`MCProxyStats.cfg`):
* two pools besides NULL_BUCKET, so the list holds one to three proxies;
* two workers;
* documents that create p1, then p1 and p2, or name nothing (each pool a
  ketama bucket with the one server `h1`);
* two get_stats requests and one reset. A second get_stats can follow a
  reset and a configuration change;
* `MaxSendFails = 1`: one `work_send` to a worker may fail.

**Fairness** is weak fairness on every listener, worker and conflate step
after the request: these threads serve their queues. Requests and
configurations themselves are not forced.

| property | kind | statement |
|---|---|---|
| `StatsTypeOK` | invariant | types, and counts within -1..3 |
| `GatherComplete` | invariant | When the wait loop ends, every worker's map holds every proxy `main_stats_collect` counted. |

| run | cfg | expect | checks | shows |
|---|---|---|---|---|
| pass | `MCProxyStats.cfg` | pass | StatsTypeOK, GatherComplete | with a failing `work_send` and the allocation failures, the counts match the sends, and the -1 keeps the conflate thread from passing an unset count while configurations grow the list (61k states) |

No liveness property is checked. A failed `work_send` is never counted
back (the TODO at agent_stats.c:1109), so with one failing send the
conflate thread's wait, or the listener's wait in `main_stats_reset`,
never ends; a blocked `main_stats_reset` also stops every configuration
queued behind it. TLC finds "every get_stats is answered" and
"main_stats_reset returns" violated under this cfg. PROJECT.json lists both
as hazards; the project keeps no violation run of them.

`msci` is left out. `main_stats_collect` writes `msci->proxies` and
`msci->nproxy` after its sends, and the conflate thread reads them after its
wait. Nothing orders the two, so a worker that finishes quickly lets the
read come first. The listener's write then lands in a returned stack frame.
PROJECT.json lists this as a hazard.

## Plan

Modules come in order of how much concurrency risk the code carries:

1. **BucketEngine** (done in part): registry, handles, connections,
   delete and shutdown, reservations, global shutdown, the default engine
   and the default bucket, and the abstract BucketRegistry it implements.
2. **ProxyConfig** (done): reconfiguration, worker snapshots, the JSON
   bucket parse and the abstract all-or-nothing spec. Possible additions:
   * reservations tagged with `config_ver` (spec 8, property 2), once
     their code (cproxy.c) is available;
   * the front cache stop and restart around an update.
3. **Multiget** (cproxy_multiget.c and the a2a response path). Upstreams,
   keys and downstream connections are small sets. Properties:
   * every requested key is sent downstream exactly once per downstream
     request;
   * each upstream receives each hit it asked for;
   * `tot_multiget_keys_dedupe + unique keys = keys` (spec section 8).
4. **TapProducer** (done in part): the ack protocol of one checkpoint-synced
   vbucket. Possible additions:
   * several vbuckets, for the pause condition over `wait_for_ack_count`;
   * backfill streams and `checkBackfillCompletion_UNLOCKED`.
5. **ProxyStats** (done): the get_stats and reset scatter/gather. Possible
   additions: `msci`, to check the read against the listener's late write.

## Not modelled

* Parsing and formatting (config strings, the kvs parse, protocol text,
  stats output). The exception is the JSON bucket parse, whose keep, skip
  and fail decisions ProxyConfig models.
* Multiget (cproxy_multiget.c) is not modelled yet. Reading the code for
  it found three disagreements with the spec, which PROJECT.json lists as
  hazards:
  * a key repeated in one request produces one VALUE per occurrence.
    Spec 8 (property 4) and scenario 2 say exactly one;
  * the key-to-upstream map is created only for a request of several
    keys. So a squashed single-key request gets every item of the
    downstream request;
  * `hits` is counted only for the first occurrence of a key, so a
    repeated hit counts as a miss.
* TapProducer backfill and background fetch. Their drivers
  (`walkTapQueue`, the checkpoint manager, the TapProducer declaration) are
  not in the repository, and the spec says nothing of backfill. Reading
  `rollback` and `scheduleBackfill_UNLOCKED` found a way to lose the
  INITIAL_VBUCKET_STREAM of an unfinished session, listed as a hazard.
* The parts whose code is not in the repository: cproxy.c, mcache.c, the
  dispatcher, the tap connection map and the ep-engine storage.
* The libconflate ad-hoc commands, which only forward requests.
* `PROJECT.json` gives the reason for each component.
