------------------------------ MODULE ProxyPools ------------------------------
(***************************************************************************)
(* What moxi's reconfiguration pipeline promises of its pools (spec        *)
(* section 4.K), with no threads, versions or worker copies: a document    *)
(* is applied as a whole or not at all.  Applying it gives every pool it   *)
(* names that pool's config and retires every other live pool except      *)
(* NULL_BUCKET.  A rejected document changes nothing, which the stuttering *)
(* steps of Spec allow.  ProxyConfig implements this module.               *)
(***************************************************************************)
CONSTANTS Pools, NullPool, NullConfig, NoServers, DefaultKs, Docs

VARIABLES
  conf,   \* conf[p]: whether pool p is live, its servers and key_stats
  doc     \* the last document the cluster manager delivered

AllPools == Pools \cup {NullPool}

\* Pool p retired by a document that does not name it.
Retired(p) == [live |-> TRUE, servers |-> NoServers, ks |-> DefaultKs]

\* The entries of document d that configure a pool.
Named(d) == {d[i] : i \in {j \in DOMAIN d : d[j].kind = "valid"}}

Init ==
  /\ conf = [p \in AllPools |->
              IF p = NullPool
              THEN [live |-> TRUE, servers |-> NullConfig, ks |-> DefaultKs]
              ELSE [live |-> FALSE, servers |-> NoServers, ks |-> DefaultKs]]
  /\ doc = <<>>

\* Document d applied as a whole.
Apply(d) ==
  conf' = [p \in AllPools |->
             IF \E e \in Named(d) : e.pool = p
             THEN LET e == CHOOSE x \in Named(d) : x.pool = p
                  IN  [live |-> TRUE, servers |-> e.servers, ks |-> e.ks]
             ELSE IF p = NullPool \/ ~conf[p].live THEN conf[p]
             ELSE Retired(p)]

\* Document d delivered: applied, or rejected with no pool changed.
Deliver(d) == doc' = d /\ (Apply(d) \/ UNCHANGED conf)

Next == \E d \in Docs : Deliver(d)

Spec == Init /\ [][Next]_<<conf, doc>>

====
