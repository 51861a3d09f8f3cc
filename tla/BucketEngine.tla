---------------------------- MODULE BucketEngine ----------------------------
(***************************************************************************)
(* The bucket engine of src/bucket_engine/bucket_engine.c: a registry of   *)
(* named buckets, each a reference-counted proxied_engine_handle_t, the    *)
(* per-connection engine_specific_t that points a connection at its        *)
(* bucket, the calls that enter an engine (clients), the DELETE_BUCKET     *)
(* command, the detached engine_shutdown_thread that tears a deleted       *)
(* bucket down, and cookie reservation by the underlying engine.           *)
(*                                                                         *)
(* Every critical section under peh->lock or the engines mutex is one      *)
(* atomic action; code that runs between two critical sections (a call     *)
(* into the engine, the disconnect callback, the time between find_bucket  *)
(* and its use) is a program counter value of the connection or of the    *)
(* handle's shutdown thread.  The process has no default engine and no     *)
(* default bucket name (the "default" configuration is off), so a new      *)
(* connection starts attached to nothing.                                  *)
(*                                                                         *)
(* A failed assert() or an access through a pointer to a freed handle      *)
(* sets aborted; Restart models the supervisor starting a fresh process.   *)
(***************************************************************************)
EXTENDS Naturals, FiniteSets, FiniteSetsExt, Functions

CONSTANTS
    Conns,                  \* connection cookies of the memcached core
    Names,                  \* bucket names
    Handles,                \* handle allocations; each create_bucket uses a fresh one
    NoHandle,               \* the NULL proxied_engine_handle_t pointer
    NoConn,                 \* the NULL cookie
    MaxReserved,            \* bound on es->reserved per connection
    MaxClients,             \* bound on peh->clients (leaked increments included)
    AutoCreate,             \* bucket_engine.auto_create (config "auto_create")
    EngineReservesCookies,  \* the proxied engine calls reserve_cookie (ep-engine TAP)
    EngineWantsDisconnects, \* the proxied engine registers ON_DISCONNECT
    TapIteratorDisabled,    \* module path contains "default_engine"
    SelfDelete,             \* a connection may DELETE_BUCKET its own bucket
    AdminUser,              \* bucket_engine.admin_user (config "admin"), or NoName
    DefaultBucketName,      \* bucket_engine.default_bucket_name, or NoName
    NoName,                 \* the NULL string
    AuthPhaseDisabled,      \* BUCKET_ENGINE_DIABLE_AUTH_PHASE is set
    DefaultEngine           \* handle of bucket_engine.default_engine, or NoHandle

ASSUME NoHandle \notin Handles /\ NoConn \notin Conns /\ NoName \notin Names
ASSUME DefaultEngine \in Handles \cup {NoHandle}
ASSUME AdminUser \in Names \cup {NoName} /\ DefaultBucketName \in Names \cup {NoName}
ASSUME MaxReserved \in Nat /\ MaxClients \in Nat
ASSUME {AutoCreate, EngineReservesCookies, EngineWantsDisconnects,
        TapIteratorDisabled, SelfDelete, AuthPhaseDisabled} \subseteq BOOLEAN

VARIABLES
    registry,   \* bucket_engine.engines: name -> handle (genhash)
    peh,        \* the proxied_engine_handle_t records, by allocation
    es,         \* engine_specific_t of each cookie (or NoEs when NULL)
    cpc,        \* what the thread serving the connection is doing
    pend,       \* handle the connection's thread holds a find/create reference on
    callH,      \* handle of the engine the connection is executing in
    listRefs,   \* handles retained by list_buckets, awaiting bucket_list_free
    hasShim,    \* the core holds bucket_tap_iterator_shim for this connection
    aborted,    \* the process died on an assert or a freed handle
    authUser,   \* username of the connection's auth data (NoName before SASL)
    engRes,     \* reservations the proxied engine holds on the cookie and will release
    inProgress,    \* bucket_engine.shutdown.in_progress
    bucketCounter, \* bucket_engine.shutdown.bucket_counter
    destroyPc      \* where bucket_destroy is: "none", "wait" or "done"

gsVars == <<inProgress, bucketCounter, destroyPc>>
vars == <<registry, peh, es, cpc, pend, callH, listRefs, hasShim, aborted, authUser, engRes,
          inProgress, bucketCounter, destroyPc>>

(* bucket_state_t, plus the two states of the memory: not yet allocated   *)
(* and released by free_engine_handle.                                     *)
States == {"UNUSED", "NULL", "RUNNING", "STOP_REQUESTED", "STOPPING",
           "STOPPED", "FREED"}

(* Program counter of each handle's engine_shutdown_thread.                *)
ThreadPcs == {"none", "start", "destroy", "unlink", "stop", "wait"}

(* What a connection's worker thread is doing.                             *)
ConnPcs == {"closed", "idle", "closing", "call", "tapget", "tapshim",
            "callback", "attach", "delete", "delwait", "delready", "list"}

(* Program counters at which the thread is inside the proxied engine,      *)
(* having entered it through get_engine_handle (so counted in clients).    *)
InEngine == {"call", "tapget", "tapshim"}

NoEs == [alloc |-> FALSE, peh |-> NoHandle, reserved |-> 0, notified |-> FALSE]

HandleRec == [state: States, refcount: Nat, clients: Nat, destroyed: BOOLEAN,
              tap: BOOLEAN, cookie: Conns \cup {NoConn}, name: Names,
              tpc: ThreadPcs]

EsRec == [alloc: BOOLEAN, peh: Handles \cup {NoHandle},
          reserved: 0..MaxReserved, notified: BOOLEAN]

Unused == [state |-> "UNUSED", refcount |-> 0, clients |-> 0,
           destroyed |-> FALSE, tap |-> FALSE, cookie |-> NoConn,
           name |-> CHOOSE n \in Names : TRUE, tpc |-> "none"]

(* init_default_bucket (with has_default): init_engine_handle gives the   *)
(* default engine refcount 1 and RUNNING; it is never put in the table.    *)
(* Every other allocation is unused.                                       *)
InitHandles ==
    [h \in Handles |-> IF h = DefaultEngine
                       THEN [Unused EXCEPT !.state = "RUNNING", !.refcount = 1]
                       ELSE Unused]

Init ==
    /\ registry = [n \in Names |-> NoHandle]
    /\ peh = InitHandles
    /\ es = [c \in Conns |-> NoEs]
    /\ cpc = [c \in Conns |-> "closed"]
    /\ pend = [c \in Conns |-> NoHandle]
    /\ callH = [c \in Conns |-> NoHandle]
    /\ listRefs = [c \in Conns |-> {}]
    /\ hasShim = [c \in Conns |-> FALSE]
    /\ aborted = FALSE
    /\ authUser = [c \in Conns |-> NoName]
    /\ engRes = [c \in Conns |-> 0]
    /\ inProgress = FALSE
    /\ bucketCounter = 0
    /\ destroyPc = "none"

-----------------------------------------------------------------------------
(* Handle helpers: each maps the record of one handle to its record after  *)
(* the code has run, so that a critical section that calls several of them *)
(* is their composition.                                                   *)
(* maybe_start_engine_shutdown_LOCKED: with no client inside the engine   *)
(* and a stop requested, enter STOPPING and spawn the shutdown thread.     *)
MaybeStartShutdown(p) ==
    IF p.clients = 0 /\ p.state = "STOP_REQUESTED"
    THEN [p EXCEPT !.state = "STOPPING", !.tpc = "start"]
    ELSE p

(* release_handle_locked (the cond signal wakes the waiting thread, which  *)
(* the model's thread does by being enabled once refcount is zero).        *)
ReleaseHandleLocked(p) == MaybeStartShutdown([p EXCEPT !.refcount = @ - 1])

(* retain_handle: take a reference only on a RUNNING bucket.               *)
Retainable(h) == h # NoHandle /\ peh[h].state = "RUNNING"

(* find_bucket: the handle registered under n, if retainable.              *)
FindBucket(n) == IF Retainable(registry[n]) THEN registry[n] ELSE NoHandle

(* Apply F to the record of h in the function f (no-op for NoHandle).      *)
Upd(f, h, F(_)) == IF h = NoHandle THEN f ELSE [f EXCEPT ![h] = F(@)]

Incr(p) == [p EXCEPT !.refcount = @ + 1]

(* An assert(peh->refcount > 0) before a decrement fails exactly when the  *)
(* decrement makes the count negative.                                     *)
RefcountAssertFails(f) == \E h \in Handles : f[h].refcount < 0

(* A handle pointer a thread is about to dereference has been freed.      *)
IsFreed(h) == h # NoHandle /\ peh[h].state = "FREED"

(* The engine get_engine_handle, try_get_engine_handle and reserve_cookie *)
(* use for a connection: the one it is attached to, else the default      *)
(* engine (NoHandle without one).                                          *)
Engine(c) == IF es[c].peh # NoHandle THEN es[c].peh ELSE DefaultEngine

(* The process dies: every other variable keeps the value it had.          *)
Abort ==
    /\ aborted' = TRUE
    /\ UNCHANGED <<registry, peh, es, cpc, pend, callH, listRefs, hasShim, authUser, engRes>>

(* Commit the handle records f together with the rest A of a critical      *)
(* section, or abort if one of its assert(refcount > 0) fails.             *)
Commit(f, A) == IF RefcountAssertFails(f) THEN Abort ELSE peh' = f /\ A

(* engine_hash_free, genhash's freeValue for a removed entry: it only     *)
(* sets the state to STATE_NULL; the table's reference is not released.   *)
HashFree(p) == [p EXCEPT !.state = "NULL"]

(* init_engine_handle (refcount = 1, RUNNING) followed by genhash_update,  *)
(* whose refcount_dup takes the registry's reference.                      *)
NewBucket(n) ==
    [Unused EXCEPT !.state = "RUNNING", !.refcount = 2, !.name = n]

-----------------------------------------------------------------------------
(* find_bucket(n), or with auto_create a create_bucket that leaves its    *)
(* own reference to the caller (e_out).  The create may fail: the name is *)
(* registered but not RUNNING (EEXISTS), or allocation, load_engine or    *)
(* initialize fails, all leaving no trace.  The thread then goes on to    *)
(* set_engine_handle with what it found.                                   *)
FindOrCreate(c, n) ==
    /\ cpc' = [cpc EXCEPT ![c] = "attach"]
    /\ \/ /\ FindBucket(n) # NoHandle
          /\ peh' = [peh EXCEPT ![FindBucket(n)] = Incr(@)]
          /\ pend' = [pend EXCEPT ![c] = FindBucket(n)]
          /\ UNCHANGED registry
       \/ /\ FindBucket(n) = NoHandle
          /\ AutoCreate
          /\ registry[n] = NoHandle
          /\ \E h \in Handles :
                /\ peh[h].state = "UNUSED"
                /\ peh' = [peh EXCEPT ![h] = NewBucket(n)]
                /\ registry' = [registry EXCEPT ![n] = h]
                /\ pend' = [pend EXCEPT ![c] = h]
       \/ /\ FindBucket(n) = NoHandle
          /\ pend' = [pend EXCEPT ![c] = NoHandle]
          /\ UNCHANGED <<registry, peh>>

(* handle_connect: create_engine_specific; with a default bucket name the *)
(* connection is then attached to that bucket, found or auto-created;     *)
(* otherwise to the default engine, retained, or with none to nothing     *)
(* (set_engine_handle(NULL)).  The core gives a new connection no auth    *)
(* data.                                                                   *)
Connect(c) ==
    /\ ~aborted
    /\ cpc[c] = "closed"
    /\ ~es[c].alloc
    /\ engRes[c] = 0
    /\ es' = [es EXCEPT ![c] = [NoEs EXCEPT !.alloc = TRUE]]
    /\ hasShim' = [hasShim EXCEPT ![c] = FALSE]
    /\ authUser' = [authUser EXCEPT ![c] = NoName]
    /\ \/ /\ DefaultBucketName = NoName
          /\ DefaultEngine = NoHandle
          /\ cpc' = [cpc EXCEPT ![c] = "idle"]
          /\ UNCHANGED <<registry, peh, pend>>
       \/ /\ DefaultBucketName = NoName
          /\ DefaultEngine # NoHandle
          /\ peh' = [peh EXCEPT ![DefaultEngine] = Incr(@)]
          /\ pend' = [pend EXCEPT ![c] = DefaultEngine]
          /\ cpc' = [cpc EXCEPT ![c] = "attach"]
          /\ UNCHANGED registry
       \/ /\ DefaultBucketName # NoName
          /\ FindOrCreate(c, DefaultBucketName)
    /\ UNCHANGED <<callH, listRefs, aborted, engRes>>

(* handle_auth (ON_AUTH) after SASL authenticated the connection as user  *)
(* n: the bucket named after the user, found or auto-created.              *)
AuthFind(c, n) ==
    /\ ~aborted
    /\ cpc[c] = "idle"
    /\ authUser' = [authUser EXCEPT ![c] = n]
    /\ FindOrCreate(c, n)
    /\ UNCHANGED <<es, callH, listRefs, hasShim, aborted, engRes>>

(* is_authorized: the auth phase is disabled, or the connection's auth    *)
(* username is the configured admin user.                                  *)
IsAuthorized(c) ==
    AuthPhaseDisabled \/ (AdminUser # NoName /\ authUser[c] = AdminUser)

(* handle_select_bucket, first half: find_bucket(name) without a create; *)
(* a missing or stopping bucket leaves NULL for set_engine_handle.         *)
SelectFind(c, n) ==
    /\ ~aborted
    /\ cpc[c] = "idle"
    /\ cpc' = [cpc EXCEPT ![c] = "attach"]
    /\ pend' = [pend EXCEPT ![c] = FindBucket(n)]
    /\ peh' = Upd(peh, FindBucket(n), Incr)
    /\ UNCHANGED <<registry, es, callH, listRefs, hasShim, aborted, authUser, engRes>>

(* Mutant: set_engine_handle stores the handle without retain_handle.      *)
SetEngineHandleNoRetain(c) ==
    LET old == es[c].peh
        new == IF Retainable(pend[c]) THEN pend[c] ELSE NoHandle
        f   == Upd(Upd(peh, old, ReleaseHandleLocked), pend[c], ReleaseHandleLocked)
    IN /\ ~aborted
       /\ cpc[c] = "attach"
       /\ ~IsFreed(old)
       /\ Commit(f, /\ es' = [es EXCEPT ![c].peh = new]
                    /\ pend' = [pend EXCEPT ![c] = NoHandle]
                    /\ cpc' = [cpc EXCEPT ![c] = "idle"]
                    /\ UNCHANGED <<registry, callH, listRefs, hasShim, aborted, authUser, engRes>>)

(* Second half of handle_auth and handle_select_bucket:                    *)
(* set_engine_handle (retain the new handle, release the old one) and the *)
(* release_handle of the reference find_bucket or create_bucket returned. *)
SetEngineHandle(c) ==
    LET old == es[c].peh
        new == IF Retainable(pend[c]) THEN pend[c] ELSE NoHandle
        f   == Upd(Upd(Upd(peh, new, Incr), old, ReleaseHandleLocked),
                   pend[c], ReleaseHandleLocked)
    IN /\ ~aborted
       /\ cpc[c] = "attach"
       /\ ~IsFreed(old)
       /\ Commit(f, /\ es' = [es EXCEPT ![c].peh = new]
                    /\ pend' = [pend EXCEPT ![c] = NoHandle]
                    /\ cpc' = [cpc EXCEPT ![c] = "idle"]
                    /\ UNCHANGED <<registry, callH, listRefs, hasShim, aborted, authUser, engRes>>)

(* Mutant: create_bucket checks with find_bucket, which skips a bucket    *)
(* that is not RUNNING, instead of find_bucket_inner.                      *)
CreateBucketOverStopping(c, n) ==
    /\ ~aborted
    /\ cpc[c] = "idle"
    /\ FindBucket(n) = NoHandle
    /\ \E h \in Handles :
          /\ peh[h].state = "UNUSED"
          /\ peh' = [peh EXCEPT ![h] = ReleaseHandleLocked(NewBucket(n))]
          /\ registry' = [registry EXCEPT ![n] = h]
    /\ UNCHANGED <<es, cpc, pend, callH, listRefs, hasShim, aborted, authUser, engRes>>

(* handle_create_bucket: create_bucket with e_out = NULL registers a new  *)
(* RUNNING handle and drops the creator's reference (the release_handle   *)
(* right after unlock_engines is folded into the same step).               *)
CreateBucket(c, n) ==
    /\ ~aborted
    /\ cpc[c] = "idle"
    /\ registry[n] = NoHandle
    /\ \E h \in Handles :
          /\ peh[h].state = "UNUSED"
          /\ peh' = [peh EXCEPT ![h] = ReleaseHandleLocked(NewBucket(n))]
          /\ registry' = [registry EXCEPT ![n] = h]
    /\ UNCHANGED <<es, cpc, pend, callH, listRefs, hasShim, aborted, authUser, engRes>>

(* handle_delete_bucket on a request with no engine-specific data yet,     *)
(* up to find_bucket(name).  Without SelfDelete the connection names only  *)
(* buckets other than the one it is attached to.                           *)
DeleteFind(c, n) ==
    /\ ~aborted
    /\ cpc[c] = "idle"
    /\ SelfDelete \/ registry[n] # es[c].peh
    /\ cpc' = [cpc EXCEPT ![c] = "delete"]
    /\ pend' = [pend EXCEPT ![c] = FindBucket(n)]
    /\ peh' = Upd(peh, FindBucket(n), Incr)
    /\ UNCHANGED <<registry, es, callH, listRefs, hasShim, aborted, authUser, engRes>>
(* The rest of handle_delete_bucket, under peh->lock: a RUNNING bucket     *)
(* records the cookie, goes to STOP_REQUESTED and loses the registry's     *)
(* reference; the connection is detached if it was attached to it; the    *)
(* find reference is dropped.  Found: EWOULDBLOCK until notified.          *)
DeleteLocked(c) ==
    LET h     == pend[c]
        found == peh[h].state = "RUNNING"
        p1    == IF found
                 THEN ReleaseHandleLocked([peh[h] EXCEPT !.cookie = c,
                                           !.state = "STOP_REQUESTED"])
                 ELSE peh[h]
    IN /\ ~aborted
       /\ cpc[c] = "delete"
       /\ \/ /\ h = NoHandle
             /\ cpc' = [cpc EXCEPT ![c] = "idle"]
             /\ UNCHANGED <<registry, peh, es, pend, callH, listRefs, hasShim, aborted, authUser, engRes>>
          \/ /\ h # NoHandle
             /\ Commit([peh EXCEPT ![h] = ReleaseHandleLocked(p1)],
                  /\ es' = IF es[c].peh = h
                           THEN [es EXCEPT ![c].peh = NoHandle] ELSE es
                  /\ cpc' = [cpc EXCEPT ![c] = IF found THEN "delwait" ELSE "idle"]
                  /\ pend' = [pend EXCEPT ![c] = NoHandle]
                  /\ UNCHANGED <<registry, callH, listRefs, hasShim, aborted, authUser, engRes>>)

(* handle_delete_bucket re-entered after notify_io_complete: the stored   *)
(* request is cleared and SUCCESS sent.                                    *)
DeleteReply(c) ==
    /\ ~aborted
    /\ cpc[c] = "delready"
    /\ cpc' = [cpc EXCEPT ![c] = "idle"]
    /\ UNCHANGED <<registry, peh, es, pend, callH, listRefs, hasShim, aborted, authUser, engRes>>

(* Mutant: get_engine_handle without the STATE_RUNNING check.              *)
CallEnterNoStateCheck(c) ==
    LET h == Engine(c) IN
    /\ ~aborted
    /\ cpc[c] = "idle"
    /\ h # NoHandle /\ ~IsFreed(h)
    /\ peh[h].clients < MaxClients
    /\ peh' = [peh EXCEPT ![h].clients = @ + 1]
    /\ \E kind \in {"call", "tapget"} : cpc' = [cpc EXCEPT ![c] = kind]
    /\ callH' = [callH EXCEPT ![c] = h]
    /\ UNCHANGED <<registry, es, pend, listRefs, hasShim, aborted, authUser, engRes>>

(* get_engine_handle on a RUNNING bucket (the default engine when es->peh *)
(* is NULL): clients++ and the thread enters the engine, for an ordinary  *)
(* operation or for get_tap_iterator.                                      *)
CallEnter(c) ==
    LET h == Engine(c) IN
    /\ ~aborted
    /\ cpc[c] = "idle"
    /\ Retainable(h)
    /\ peh[h].clients < MaxClients
    /\ peh' = [peh EXCEPT ![h].clients = @ + 1]
    /\ \E kind \in {"call", "tapget"} : cpc' = [cpc EXCEPT ![c] = kind]
    /\ callH' = [callH EXCEPT ![c] = h]
    /\ UNCHANGED <<registry, es, pend, listRefs, hasShim, aborted, authUser, engRes>>

(* Mutant: clients++ before the state check, not undone on refusal.        *)
GetEngineHandleRefusedCountsClient(c) ==
    LET h == Engine(c) IN
    /\ ~aborted
    /\ cpc[c] = "idle"
    /\ ~Retainable(h)
    /\ ~IsFreed(h)
    /\ Commit(Upd(Upd(peh, h, ReleaseHandleLocked), h,
                   LAMBDA p : [p EXCEPT !.clients = @ + 1]),
         /\ es' = IF h # NoHandle /\ es[c].reserved = 0
                  THEN [es EXCEPT ![c] = NoEs] ELSE es
         /\ cpc' = [cpc EXCEPT ![c] = "closing"]
         /\ UNCHANGED <<registry, pend, callH, listRefs, hasShim, aborted, authUser, engRes>>)

(* get_engine_handle with no bucket, or with one that is not RUNNING: the *)
(* engine specific data is freed unless reserved, the connection's handle *)
(* reference is released, and the caller answers ENGINE_DISCONNECT (or     *)
(* TAP_DISCONNECT), so the core closes the connection.                     *)
GetEngineHandleRefused(c) ==
    LET h == Engine(c) IN
    /\ ~aborted
    /\ cpc[c] = "idle"
    /\ ~Retainable(h)
    /\ ~IsFreed(h)
    /\ Commit(Upd(peh, h, ReleaseHandleLocked),
         /\ es' = IF h # NoHandle /\ es[c].reserved = 0
                  THEN [es EXCEPT ![c] = NoEs] ELSE es
         /\ cpc' = [cpc EXCEPT ![c] = "closing"]
         /\ UNCHANGED <<registry, pend, callH, listRefs, hasShim, aborted, authUser, engRes>>)

(* try_get_engine_handle: only the connection's own bucket, never the     *)
(* default engine; on a RUNNING one clients++ and the thread enters it.   *)
(* Otherwise it returns NULL and the caller does nothing at all.           *)
TryCallEnter(c) ==
    LET h == es[c].peh IN
    /\ ~aborted
    /\ cpc[c] = "idle"
    /\ es[c].alloc
    /\ h # NoHandle
    /\ Retainable(h)
    /\ peh[h].clients < MaxClients
    /\ peh' = [peh EXCEPT ![h].clients = @ + 1]
    /\ cpc' = [cpc EXCEPT ![c] = "call"]
    /\ callH' = [callH EXCEPT ![c] = h]
    /\ UNCHANGED <<registry, es, pend, listRefs, hasShim, aborted, authUser, engRes>>

(* An engine interface entry point: store, arithmetic, flush, tap_notify, *)
(* get_stats and the others go through get_engine_handle, call into the   *)
(* engine and release_engine_handle, or answer ENGINE_DISCONNECT when     *)
(* refused; reset_stats, get_item_info and item_set_cas go through        *)
(* try_get_engine_handle.                                                  *)
EngineRequest(c) == CallEnter(c) \/ GetEngineHandleRefused(c) \/ TryCallEnter(c)

(* bucket_tap_iterator_shim: get_engine_handle, then the shared           *)
(* e->tap_iterator; when another connection's get_tap_iterator has reset *)
(* it to NULL the shim answers TAP_DISCONNECT without                      *)
(* release_engine_handle.                                                  *)
TapShimEnter(c) ==
    LET h == Engine(c) IN
    /\ ~aborted
    /\ cpc[c] = "idle"
    /\ hasShim[c]
    /\ Retainable(h)
    /\ peh[h].clients < MaxClients
    /\ peh' = [peh EXCEPT ![h].clients = @ + 1]
    /\ cpc' = [cpc EXCEPT ![c] = IF peh[h].tap THEN "tapshim" ELSE "closing"]
    /\ callH' = [callH EXCEPT ![c] = IF peh[h].tap THEN h ELSE NoHandle]
    /\ UNCHANGED <<registry, es, pend, listRefs, hasShim, aborted, authUser, engRes>>

(* bucket_engine_reserve_cookie, called by the engine while it serves the *)
(* connection: on a RUNNING bucket refcount++ and es->reserved++.  An     *)
(* unattached connection reserves on the default engine and keeps         *)
(* es->peh NULL.                                                           *)
ReserveCookie(c) ==
    LET h == Engine(c) IN
    /\ ~aborted
    /\ EngineReservesCookies
    /\ cpc[c] \in InEngine
    /\ engRes[c] < MaxReserved
    /\ Retainable(h)
    /\ peh' = [peh EXCEPT ![h] = Incr(@)]
    /\ es' = [es EXCEPT ![c].reserved = @ + 1]
    /\ engRes' = [engRes EXCEPT ![c] = @ + 1]
    /\ UNCHANGED <<registry, cpc, pend, callH, listRefs, hasShim, aborted, authUser>>

(* Mutants: get_tap_iterator leaves without release_engine_handle, or     *)
(* release_engine_handle does not start the shutdown, or get_tap_iterator *)
(* calls it twice.                                                         *)
CallExitTapNoRelease(c) ==
    LET h == callH[c]
        d == IF cpc[c] = "tapget" THEN 0 ELSE 1
    IN /\ ~aborted
       /\ cpc[c] \in InEngine
       /\ peh' = [peh EXCEPT ![h] = MaybeStartShutdown([@ EXCEPT !.clients = @ - d])]
       /\ cpc' = [cpc EXCEPT ![c] = "idle"]
       /\ callH' = [callH EXCEPT ![c] = NoHandle]
       /\ UNCHANGED <<registry, es, pend, listRefs, hasShim, aborted, authUser, engRes>>

CallExitNoMaybeStart(c) ==
    LET h == callH[c] IN
    /\ ~aborted
    /\ cpc[c] \in InEngine
    /\ peh' = [peh EXCEPT ![h].clients = @ - 1]
    /\ cpc' = [cpc EXCEPT ![c] = "idle"]
    /\ callH' = [callH EXCEPT ![c] = NoHandle]
    /\ UNCHANGED <<registry, es, pend, listRefs, hasShim, aborted, authUser, engRes>>

CallExitTapDoubleRelease(c) ==
    LET h == callH[c]
        d == IF cpc[c] = "tapget" THEN 2 ELSE 1
    IN /\ ~aborted
       /\ cpc[c] \in InEngine
       /\ peh' = [peh EXCEPT ![h] = MaybeStartShutdown([@ EXCEPT !.clients = @ - d])]
       /\ cpc' = [cpc EXCEPT ![c] = "idle"]
       /\ callH' = [callH EXCEPT ![c] = NoHandle]
       /\ UNCHANGED <<registry, es, pend, listRefs, hasShim, aborted, authUser, engRes>>

(* The engine call returns: release_engine_handle (clients--, maybe start *)
(* the shutdown).  For get_tap_iterator the engine's iterator, possibly    *)
(* NULL, is first stored in the handle shared by all its connections.      *)
CallExit(c) ==
    LET h == callH[c] IN
    /\ ~aborted
    /\ cpc[c] \in InEngine
    /\ \E t \in BOOLEAN :
          /\ t => cpc[c] = "tapget" /\ ~TapIteratorDisabled
          /\ LET p == IF cpc[c] = "tapget" /\ ~TapIteratorDisabled
                      THEN [peh[h] EXCEPT !.tap = t] ELSE peh[h]
             IN peh' = [peh EXCEPT ![h] =
                          MaybeStartShutdown([p EXCEPT !.clients = @ - 1])]
          /\ hasShim' = IF cpc[c] = "tapget" /\ ~TapIteratorDisabled
                        THEN [hasShim EXCEPT ![c] = t] ELSE hasShim
    /\ cpc' = [cpc EXCEPT ![c] = "idle"]
    /\ callH' = [callH EXCEPT ![c] = NoHandle]
    /\ UNCHANGED <<registry, es, pend, listRefs, aborted, authUser, engRes>>

(* bucket_engine_release_cookie, from an engine thread.  The asserts on    *)
(* es->peh and refcount end the process; otherwise es->reserved--, the    *)
(* connection's own reference goes with its last reservation once it was  *)
(* notified of the disconnect, then the reservation's reference.          *)
ReleaseCookie(c) ==
    LET h    == es[c].peh
        last == es[c].notified /\ es[c].reserved = 1
        p1   == IF last THEN [peh[h] EXCEPT !.refcount = @ - 1] ELSE peh[h]
        p2   == [p1 EXCEPT !.refcount = @ - 1]
        p3   == IF p2.refcount = 0 THEN MaybeStartShutdown(p2) ELSE p2
    IN /\ ~aborted
       /\ engRes[c] > 0
       /\ IF ~es[c].alloc \/ es[c].reserved = 0 \/ h = NoHandle \/ IsFreed(h)
          THEN Abort
          ELSE Commit([peh EXCEPT ![h] = p3],
                 /\ es' = IF last THEN [es EXCEPT ![c] = NoEs]
                          ELSE [es EXCEPT ![c].reserved = @ - 1]
                 /\ engRes' = [engRes EXCEPT ![c] = @ - 1]
                 /\ UNCHANGED <<registry, cpc, pend, callH, listRefs,
                                hasShim, aborted, authUser>>)

(* Mutant: handle_disconnect frees es without release_handle_locked.       *)
FinishDisconnectNoRelease(c, h) ==
    /\ es' = IF es[c].reserved = 0 THEN [es EXCEPT ![c] = NoEs]
             ELSE [es EXCEPT ![c].notified = TRUE]
    /\ cpc' = [cpc EXCEPT ![c] = "closed"]
    /\ callH' = [callH EXCEPT ![c] = NoHandle]
    /\ UNCHANGED <<registry, peh, pend, listRefs, hasShim, aborted, authUser, engRes>>

(* The end of handle_disconnect, under peh->lock: an unreserved           *)
(* connection releases its handle and its engine specific data; a         *)
(* reserved one is only marked notified.                                   *)
FinishDisconnect(c, h) ==
    IF es[c].reserved = 0
    THEN Commit([peh EXCEPT ![h] = ReleaseHandleLocked(@)],
           /\ es' = [es EXCEPT ![c] = NoEs]
           /\ cpc' = [cpc EXCEPT ![c] = "closed"]
           /\ callH' = [callH EXCEPT ![c] = NoHandle]
           /\ UNCHANGED <<registry, pend, listRefs, hasShim, aborted, authUser, engRes>>)
    ELSE /\ es' = [es EXCEPT ![c].notified = TRUE]
         /\ cpc' = [cpc EXCEPT ![c] = "closed"]
         /\ callH' = [callH EXCEPT ![c] = NoHandle]
         /\ UNCHANGED <<registry, peh, pend, listRefs, hasShim, aborted, authUser, engRes>>

(* handle_disconnect (ON_DISCONNECT) for a connection that is idle or that *)
(* the core closes after a DISCONNECT answer.  With the engine RUNNING and *)
(* registered for ON_DISCONNECT the engine's callback is called after     *)
(* unlocking, without clients++.                                           *)
DisconnectBegin(c) ==
    LET h == es[c].peh IN
    /\ ~aborted
    /\ cpc[c] \in {"idle", "closing"}
    /\ \/ /\ h = NoHandle
          /\ es' = [es EXCEPT ![c] = NoEs]
          /\ cpc' = [cpc EXCEPT ![c] = "closed"]
          /\ UNCHANGED <<registry, peh, pend, callH, listRefs, hasShim, aborted, authUser, engRes>>
       \/ /\ h # NoHandle
          /\ ~IsFreed(h)
          /\ IF EngineWantsDisconnects /\ peh[h].state = "RUNNING"
             THEN /\ cpc' = [cpc EXCEPT ![c] = "callback"]
                  /\ callH' = [callH EXCEPT ![c] = h]
                  /\ UNCHANGED <<registry, peh, es, pend, listRefs, hasShim, aborted, authUser, engRes>>
             ELSE FinishDisconnect(c, h)

(* The disconnect callback returns and handle_disconnect locks again.      *)
DisconnectEnd(c) ==
    /\ ~aborted
    /\ cpc[c] = "callback"
    /\ ~IsFreed(es[c].peh)
    /\ FinishDisconnect(c, es[c].peh)

(* A thread dereferences es->peh after the handle was freed (in           *)
(* get_engine_handle, handle_disconnect or release_cookie): the process   *)
(* dies.                                                                   *)
UseFreedHandle(c) ==
    /\ ~aborted
    /\ cpc[c] \in {"idle", "closing", "callback"}
    /\ IsFreed(es[c].peh)
    /\ Abort

(* Mutant: add_engine lists a bucket without retain_handle.                *)
ListBucketsNoRetain(c) ==
    LET held == {registry[n] : n \in {m \in Names : Retainable(registry[m])}} IN
    /\ ~aborted
    /\ cpc[c] = "idle"
    /\ listRefs' = [listRefs EXCEPT ![c] = held]
    /\ cpc' = [cpc EXCEPT ![c] = "list"]
    /\ UNCHANGED <<registry, peh, es, pend, callH, hasShim, aborted, authUser, engRes>>

(* list_buckets: under the engines lock, add_engine retains every RUNNING *)
(* registered bucket and lists it.                                         *)
ListBuckets(c) ==
    LET held == {registry[n] : n \in {m \in Names : Retainable(registry[m])}} IN
    /\ ~aborted
    /\ cpc[c] = "idle"
    /\ listRefs' = [listRefs EXCEPT ![c] = held]
    /\ peh' = [h \in Handles |-> IF h \in held THEN Incr(peh[h]) ELSE peh[h]]
    /\ cpc' = [cpc EXCEPT ![c] = "list"]
    /\ UNCHANGED <<registry, es, pend, callH, hasShim, aborted, authUser, engRes>>

(* bucket_list_free: release_handle on every listed bucket.                *)
ListRelease(c) ==
    /\ ~aborted
    /\ cpc[c] = "list"
    /\ Commit([h \in Handles |-> IF h \in listRefs[c]
                                 THEN ReleaseHandleLocked(peh[h]) ELSE peh[h]],
         /\ listRefs' = [listRefs EXCEPT ![c] = {}]
         /\ cpc' = [cpc EXCEPT ![c] = "idle"]
         /\ UNCHANGED <<registry, es, pend, callH, hasShim, aborted, authUser, engRes>>)

(* handle_list_buckets (LIST_BUCKETS): list_buckets, the listed names    *)
(* joined into the response, then bucket_list_free (ListRelease).          *)
HandleListBuckets(c) == ListBuckets(c)

(* bucket_aggregate_stats, which is not behind is_authorized: list_buckets,*)
(* the callback over every listed handle's stats, then bucket_list_free.   *)
AggregateStats(c) == ListBuckets(c)

-----------------------------------------------------------------------------
(* engine_shutdown_thread, one per handle that entered STOPPING.           *)

(* The sanity asserts (STOPPING, no clients), then destroy() of the       *)
(* proxied engine and pe.v1 = NULL under the lock.                         *)
(* The first section of engine_shutdown_thread, under shutdown.mutex: a   *)
(* thread racing the global shutdown returns at once; any other counts    *)
(* itself in bucket_counter.                                               *)
ShutdownStart(h) ==
    /\ ~aborted
    /\ peh[h].tpc = "start"
    /\ peh' = [peh EXCEPT ![h].tpc = IF inProgress THEN "none" ELSE "destroy"]
    /\ bucketCounter' = IF inProgress THEN bucketCounter ELSE bucketCounter + 1
    /\ UNCHANGED <<registry, es, cpc, pend, callH, listRefs, hasShim, aborted, authUser, engRes,
                   inProgress, destroyPc>>

ShutdownDestroy(h) ==
    /\ ~aborted
    /\ peh[h].tpc = "destroy"
    /\ IF peh[h].state # "STOPPING" \/ peh[h].clients # 0
       THEN Abort
       ELSE /\ peh' = [peh EXCEPT ![h].destroyed = TRUE, ![h].tpc = "unlink"]
            /\ UNCHANGED <<registry, es, cpc, pend, callH, listRefs, hasShim, aborted, authUser, engRes>>
    /\ UNCHANGED gsVars

(* Mutant: the handle is never removed from the engines table.            *)
ShutdownUnlinkKeepsEntry(h) ==
    /\ ~aborted
    /\ peh[h].tpc = "unlink"
    /\ peh' = [peh EXCEPT ![h].state = "NULL", ![h].tpc = "stop"]
    /\ UNCHANGED <<registry, es, cpc, pend, callH, listRefs, hasShim, aborted, authUser, engRes>>
    /\ UNCHANGED gsVars

(* genhash_delete_all under the engines lock; engine_hash_free sets the   *)
(* state to STATE_NULL.  A new bucket of the same name may be created     *)
(* from here on.                                                           *)
ShutdownUnlink(h) ==
    /\ ~aborted
    /\ peh[h].tpc = "unlink"
    /\ registry' = [registry EXCEPT ![peh[h].name] = NoHandle]
    /\ peh' = [peh EXCEPT ![h] = [HashFree(@) EXCEPT !.tpc = "stop"]]
    /\ UNCHANGED <<es, cpc, pend, callH, listRefs, hasShim, aborted, authUser, engRes>>
    /\ UNCHANGED gsVars
(* STATE_STOPPED and notify_io_complete of the deleting cookie.            *)
ShutdownStopped(h) ==
    LET ck == peh[h].cookie IN
    /\ ~aborted
    /\ peh[h].tpc = "stop"
    /\ peh' = [peh EXCEPT ![h].state = "STOPPED", ![h].tpc = "wait"]
    /\ cpc' = IF ck # NoConn /\ cpc[ck] = "delwait"
              THEN [cpc EXCEPT ![ck] = "delready"] ELSE cpc
    /\ UNCHANGED <<registry, es, pend, callH, listRefs, hasShim, aborted, authUser, engRes>>
    /\ UNCHANGED gsVars

(* Mutant: the thread frees the handle and never decrements the counter. *)
FreeKeepsCount(h) ==
    /\ peh' = [peh EXCEPT ![h].state = "FREED", ![h].tpc = "none"]
    /\ UNCHANGED <<registry, es, cpc, pend, callH, listRefs, hasShim, aborted, authUser, engRes,
                   gsVars>>

(* free_engine_handle, then --bucket_counter under shutdown.mutex (the    *)
(* cond signal to bucket_destroy is the counter reaching zero).            *)
FreeAndUncount(h) ==
    /\ peh' = [peh EXCEPT ![h].state = "FREED", ![h].tpc = "none"]
    /\ bucketCounter' = bucketCounter - 1
    /\ UNCHANGED <<registry, es, cpc, pend, callH, listRefs, hasShim, aborted, authUser, engRes,
                   inProgress, destroyPc>>

(* Mutant: the wait loop gives up on its timeout and frees the handle.    *)
ShutdownFreeNoWait(h) ==
    /\ ~aborted
    /\ peh[h].tpc = "wait"
    /\ FreeAndUncount(h)

(* The wait loop ends when refcount is zero (woken by the cond signal or   *)
(* by the one-second timeout); the handle is freed.                        *)
ShutdownFree(h) ==
    /\ ~aborted
    /\ peh[h].tpc = "wait"
    /\ peh[h].refcount = 0
    /\ FreeAndUncount(h)

(* After a timed wait with references left, the thread reads               *)
(* shutdown.in_progress: under a global shutdown it stops waiting and      *)
(* frees the handle although connections still reference it.               *)
ShutdownTerminate(h) ==
    /\ ~aborted
    /\ peh[h].tpc = "wait"
    /\ peh[h].refcount > 0
    /\ inProgress
    /\ FreeAndUncount(h)

(* bucket_destroy, first half: the core calls it once, at exit, when no    *)
(* connection runs inside bucket_engine (its comment); in_progress is set  *)
(* under shutdown.mutex and the call waits for bucket_counter to be zero.  *)
BucketDestroyBegin ==
    /\ ~aborted
    /\ destroyPc = "none"
    /\ \A c \in Conns : cpc[c] \notin InEngine \cup {"callback"}
    /\ inProgress' = TRUE
    /\ destroyPc' = "wait"
    /\ UNCHANGED <<registry, peh, es, cpc, pend, callH, listRefs, hasShim, aborted, authUser, engRes,
                   bucketCounter>>

(* genhash_iter(bucket_shutdown_engine) and genhash_free over the table:  *)
(* every engine still loaded is destroyed (an entry whose shutdown thread  *)
(* destroyed it has pe.v1 = NULL, and with it pe.v0 of the same union, so  *)
(* it is skipped), engine_hash_free sets every entry to STATE_NULL, and    *)
(* the table is gone.                                                      *)
DestroyTable ==
    LET inTable == {registry[n] : n \in {m \in Names : registry[m] # NoHandle}} IN
    /\ peh' = [h \in Handles |->
                 IF h \in inTable
                 THEN HashFree([peh[h] EXCEPT !.destroyed = TRUE])
                 ELSE peh[h]]
    /\ registry' = [n \in Names |-> NoHandle]
    /\ destroyPc' = "done"
    /\ UNCHANGED <<es, cpc, pend, callH, listRefs, hasShim, aborted, authUser, engRes,
                   inProgress, bucketCounter>>

(* Mutant: bucket_destroy does not wait for bucket_counter to be zero.    *)
BucketDestroyIterateNoWait ==
    /\ ~aborted
    /\ destroyPc = "wait"
    /\ DestroyTable

(* bucket_destroy, second half, once bucket_counter is zero.               *)
BucketDestroyIterate ==
    /\ ~aborted
    /\ destroyPc = "wait"
    /\ bucketCounter = 0
    /\ DestroyTable

(* The process, dead on an assert or exited after bucket_destroy, is      *)
(* restarted with an empty bucket registry.                                *)
Restart ==
    /\ aborted \/ destroyPc = "done"
    /\ registry' = [n \in Names |-> NoHandle]
    /\ peh' = InitHandles
    /\ es' = [c \in Conns |-> NoEs]
    /\ cpc' = [c \in Conns |-> "closed"]
    /\ pend' = [c \in Conns |-> NoHandle]
    /\ callH' = [c \in Conns |-> NoHandle]
    /\ listRefs' = [c \in Conns |-> {}]
    /\ hasShim' = [c \in Conns |-> FALSE]
    /\ aborted' = FALSE
    /\ authUser' = [c \in Conns |-> NoName]
    /\ engRes' = [c \in Conns |-> 0]
    /\ inProgress' = FALSE
    /\ bucketCounter' = 0
    /\ destroyPc' = "none"

-----------------------------------------------------------------------------
(* Connections are served only until the core starts its exit.            *)
Served(A) == ~inProgress /\ UNCHANGED gsVars /\ A

(* Mutant: the admin commands run without is_authorized.                 *)
AdminCommandNoAuth(c) ==
    \/ \E n \in Names : SelectFind(c, n) \/ CreateBucket(c, n) \/ DeleteFind(c, n)
    \/ HandleListBuckets(c)

(* bucket_unknown_command for CREATE, DELETE, LIST and SELECT (current   *)
(* and deprecated opcodes) from a connection is_authorized accepts; any   *)
(* other connection is answered ENOTSUP with nothing changed.  Every      *)
(* other opcode goes to the proxied engine through get_engine_handle (an  *)
(* engine call).                                                           *)
AdminCommand(c) ==
    /\ IsAuthorized(c)
    /\ \/ \E n \in Names : SelectFind(c, n) \/ CreateBucket(c, n) \/ DeleteFind(c, n)
       \/ HandleListBuckets(c)

ConnSteps(c) ==
    \/ Connect(c)
    \/ \E n \in Names : AuthFind(c, n)
    \/ AdminCommand(c)
    \/ SetEngineHandle(c)
    \/ DeleteLocked(c)
    \/ DeleteReply(c)
    \/ EngineRequest(c)
    \/ TapShimEnter(c)
    \/ ReserveCookie(c)
    \/ CallExit(c)
    \/ ReleaseCookie(c)
    \/ DisconnectBegin(c)
    \/ DisconnectEnd(c)
    \/ UseFreedHandle(c)
    \/ AggregateStats(c)
    \/ ListRelease(c)

ConnNext(c) == Served(ConnSteps(c))

ShutdownNext(h) ==
    \/ ShutdownStart(h)
    \/ ShutdownDestroy(h)
    \/ ShutdownUnlink(h)
    \/ ShutdownStopped(h)
    \/ ShutdownFree(h)
    \/ ShutdownTerminate(h)

Next ==
    \/ \E c \in Conns : ConnNext(c)
    \/ \E h \in Handles : ShutdownNext(h)
    \/ BucketDestroyBegin
    \/ BucketDestroyIterate
    \/ Restart

(* Fairness: an engine call, the disconnect callback and the steps a      *)
(* worker thread runs without waiting for its client (the second half of  *)
(* auth, select and delete, the reply after notify, bucket_list_free)     *)
(* complete; the shutdown thread is scheduled; the supervisor restarts    *)
(* the process; bucket_destroy, once begun, continues.  Clients are under *)
(* no obligation to send anything, nor the core to exit.                   *)
Fairness ==
    /\ \A c \in Conns :
          /\ WF_vars(Served(CallExit(c)))
          /\ WF_vars(Served(DisconnectEnd(c)))
          /\ WF_vars(Served(SetEngineHandle(c)))
          /\ WF_vars(Served(DeleteLocked(c)))
          /\ WF_vars(Served(DeleteReply(c)))
          /\ WF_vars(Served(ListRelease(c)))
    /\ \A h \in Handles : WF_vars(ShutdownNext(h))
    /\ WF_vars(BucketDestroyIterate)
    /\ WF_vars(Restart)

Spec == Init /\ [][Next]_vars /\ Fairness

-----------------------------------------------------------------------------
(* Who may hold a reference on a handle, by the comments of                *)
(* proxied_engine_handle_t.refcount and the code that takes them: the     *)
(* registry while the bucket is RUNNING, every engine_specific_t pointing *)
(* at it, every reservation of such a cookie, a find or create reference  *)
(* a worker thread is about to use, and a bucket list being built.         *)
RegistryRef(h) ==
    IF registry[peh[h].name] = h /\ peh[h].state = "RUNNING" THEN 1 ELSE 0

ReservedOf == [c \in Conns |-> es[c].reserved]

Holders(h) ==
    LET attached == {c \in Conns : es[c].alloc /\ es[c].peh = h} IN
    RegistryRef(h)
      + Cardinality(attached)
      + SumFunctionOnSet(ReservedOf, attached)
      + Quantify(Conns, LAMBDA c : cpc[c] \in {"attach", "delete"} /\ pend[c] = h)
      + Quantify(Conns, LAMBDA c : h \in listRefs[c])

Live(h) == peh[h].state \notin {"UNUSED", "FREED"}

TypeOK ==
    /\ registry \in [Names -> Handles \cup {NoHandle}]
    /\ peh \in [Handles -> HandleRec]
    /\ es \in [Conns -> EsRec]
    /\ cpc \in [Conns -> ConnPcs]
    /\ pend \in [Conns -> Handles \cup {NoHandle}]
    /\ callH \in [Conns -> Handles \cup {NoHandle}]
    /\ listRefs \in [Conns -> SUBSET Handles]
    /\ hasShim \in [Conns -> BOOLEAN]
    /\ aborted \in BOOLEAN
    /\ authUser \in [Conns -> Names \cup {NoName}]
    /\ engRes \in [Conns -> 0..MaxReserved]
    /\ inProgress \in BOOLEAN
    /\ bucketCounter \in 0..Cardinality(Handles)
    /\ destroyPc \in {"none", "wait", "done"}

(* Spec section 8: a handle's refcount covers every reference held on it   *)
(* (registry, attached connections, reservations, pending find/list        *)
(* references), so release_handle, release_cookie and get_engine_handle's  *)
(* failure path never drop a reference someone still uses.                 *)
RefcountCovers == \A h \in Handles : Live(h) => peh[h].refcount >= Holders(h)

(* No connection, worker thread or registry entry points at a handle that  *)
(* engine_shutdown_thread has freed (free_engine_handle runs only when the *)
(* refcount reached zero).  Under a global shutdown the thread frees it    *)
(* with references left, which only connections the core no longer serves *)
(* hold.                                                                   *)
NoDanglingHandle ==
    /\ \A n \in Names : ~IsFreed(registry[n])
    /\ ~inProgress => \A c \in Conns :
          /\ es[c].alloc => ~IsFreed(es[c].peh)
          /\ ~IsFreed(pend[c]) /\ ~IsFreed(callH[c])
          /\ \A h \in listRefs[c] : ~IsFreed(h)

(* peh->clients counts exactly the threads executing inside the engine     *)
(* through get_engine_handle; every path that increments it (including     *)
(* bucket_tap_iterator_shim) pairs with release_engine_handle.             *)
ClientsMatchCallers ==
    \A h \in Handles : Live(h) =>
        peh[h].clients = Quantify(Conns, LAMBDA c : cpc[c] \in InEngine /\ callH[c] = h)

(* With the auth phase on, a connection is_authorized refuses is only     *)
(* ever attached to the bucket named after its own auth username (handle_ *)
(* auth) or to the default bucket (handle_connect): re-authenticating      *)
(* detaches it from a bucket the admin SELECTed, even when the new user's *)
(* bucket is missing or stopping, and DELETE_BUCKET and SELECT are admin  *)
(* only.  (Inside handle_auth, between find and set_engine_handle, the    *)
(* old attachment is still in place.)                                      *)
BucketIsolation ==
    \A c \in Conns :
        (/\ es[c].alloc /\ es[c].peh \notin {NoHandle, DefaultEngine}
         /\ cpc[c] # "attach" /\ ~IsAuthorized(c))
            => peh[es[c].peh].name \in {authUser[c], DefaultBucketName}

(* No thread executes in a proxied engine, through an engine call or the   *)
(* ON_DISCONNECT callback, after engine_shutdown_thread destroyed it.      *)
NoCallIntoDestroyedEngine ==
    \A c \in Conns : cpc[c] \in InEngine \cup {"callback"} => ~peh[callH[c]].destroyed

(* A DELETE_BUCKET answered with EWOULDBLOCK is eventually answered: the   *)
(* last client leaves the engine, the shutdown thread runs and notifies    *)
(* the cookie, unless the core exits first.                                *)
DeleteEventuallyCompletes ==
    \A c \in Conns : cpc[c] = "delwait" ~> (cpc[c] = "idle" \/ inProgress)

(* A stopped bucket that nobody holds a reference on is eventually freed:  *)
(* its refcount reaches zero and the shutdown thread frees it.             *)
HandleEventuallyFreed ==
    \A h \in Handles :
        (peh[h].state = "STOPPED" /\ Holders(h) = 0) ~> peh[h].state = "FREED"

(* When bucket_destroy has waited for bucket_counter and freed the engines *)
(* table, no engine_shutdown_thread is past its in_progress check any      *)
(* longer (a late one returns at its check), and every bucket engine      *)
(* loaded was destroyed: by its shutdown thread or by                      *)
(* bucket_shutdown_engine.  (The default engine is never destroyed;       *)
(* uninit_engine_handle only closes its library.)                          *)
ShutdownQuiesced ==
    destroyPc = "done" =>
        \A h \in Handles :
            /\ peh[h].tpc \in {"none", "start"}
            /\ peh[h].state # "UNUSED" /\ h # DefaultEngine => peh[h].destroyed

(* A global shutdown that began completes: every shutdown thread still     *)
(* waiting for references reads in_progress after its timed wait and      *)
(* gives up, bucket_counter drops to zero and bucket_destroy returns.      *)
GlobalShutdownCompletes == destroyPc = "wait" ~> (destroyPc = "done" \/ aborted)

(* The handle whose DELETE_BUCKET answer connection c waits for: one it   *)
(* found RUNNING and marked with its cookie, not yet unlinked (which sets *)
(* STATE_NULL through engine_hash_free).                                   *)
OwedHandles(c) ==
    {h \in Handles : peh[h].cookie = c /\ peh[h].state \in {"STOP_REQUESTED", "STOPPING"}}

(* The registry as BucketRegistry sees it: a name's entry and its state,   *)
(* and for each connection in a DELETE the name it waits on.               *)
RegBucket ==
    [n \in Names |-> IF registry[n] = NoHandle THEN "absent"
                     ELSE IF peh[registry[n]].state = "RUNNING" THEN "running"
                     ELSE "deleting"]

RegReply ==
    [c \in Conns |-> IF cpc[c] \notin {"delwait", "delready"} THEN "none"
                     ELSE IF OwedHandles(c) = {} THEN "done"
                     ELSE peh[CHOOSE h \in OwedHandles(c) : TRUE].name]

Registry_ == INSTANCE BucketRegistry WITH bucket <- RegBucket, reply <- RegReply

(* Per name, the table goes absent -> running -> deleting -> absent (or    *)
(* empty at bucket_destroy or restart): create_bucket never replaces an    *)
(* entry, only handle_delete_bucket stops a running bucket, a DELETE is    *)
(* answered SUCCESS only after engine_shutdown_thread unlinked the name,   *)
(* and every deleted bucket is eventually unlinked.                        *)
ImplementsBucketRegistry == Registry_!Spec
=============================================================================
