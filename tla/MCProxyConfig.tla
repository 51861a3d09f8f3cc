---------------------------- MODULE MCProxyConfig ----------------------------
(* Model-checking instance of ProxyConfig: two pools besides NULL_BUCKET,  *)
(* two worker threads, and documents of one or two entries naming          *)
(* distinct pools, so that a document can create, update, skip, fail and   *)
(* retire pools, and a retired pool can come back.                        *)
EXTENDS ProxyConfig

CONSTANTS p1, p2, pnull, s1, s2, k0, k1, h1, h2

MCPools == {p1, p2}

\* Entries over the given kinds, server lists and key_stats settings; an
\* entry that is not applied carries no config.
EntriesOver(pools, kinds, svs, kss) ==
  {e \in [pool : pools, kind : kinds, servers : svs, ks : kss] :
     e.kind = "valid" \/ (e.servers = s1 /\ e.ks = k0)}

\* Documents of one or two entries naming distinct pools.
DocsOver(pools, kinds, svs, kss) ==
  LET E == EntriesOver(pools, kinds, svs, kss)
  IN  {<<e>> : e \in E} \cup {<<e, f>> \in E \X E : e.pool # f.pool}

\* Every kind of entry (the kvs path).
MCDocsAll  == DocsOver(MCPools, {"valid", "skip", "bad"}, {s1}, {k0, k1})

\* Server-array entries: a "host:port" string, a node object that parses
\* with the given status, and one whose address does not.
Str(h)        == [form |-> "string", valid |-> TRUE, status |-> "none", host |-> h]
Obj(h, st)    == [form |-> "object", valid |-> TRUE, status |-> st, host |-> h]
BadObj(h, st) == [form |-> "object", valid |-> FALSE, status |-> st, host |-> h]

\* A ketama bucket that keeps h1 after skipping a down node whose address
\* does not parse, one whose only node is down, one with a malformed
\* healthy node, and a vbucket bucket whose map parses or not.
KetamaH1      == [locator |-> "ketama", mapParses |-> TRUE,
                  nodes |-> <<BadObj(h2, "down"), Obj(h1, "none")>>]
KetamaDown    == [locator |-> "ketama", mapParses |-> TRUE,
                  nodes |-> <<Obj(h1, "down")>>]
KetamaBadNode == [locator |-> "ketama", mapParses |-> TRUE,
                  nodes |-> <<Obj(h1, "healthy"), BadObj(h2, "healthy")>>]
VbucketH1     == [locator |-> "none", mapParses |-> TRUE, nodes |-> <<Str(h1)>>]
VbucketNoMap  == [locator |-> "vbucket", mapParses |-> FALSE, nodes |-> <<Str(h1)>>]

\* The configs a parsed bucket can give a pool.
MCServersJson == {JsonOne(b).servers : b \in {KetamaH1, VbucketH1}}

\* Bucket lists of one or two buckets of distinct pools over the buckets
\* bs, or none.
BucketDocsOver(bs) ==
  LET E == [pool : MCPools, bucket : bs]
  IN  {<<e>> : e \in E} \cup {<<e, f>> \in E \X E : e.pool # f.pool} \cup {<<>>}

\* A pool gets the ketama config, the vbucket config, or none when its
\* bucket fails to parse; the other two ways to fail come alone.
MCDocsJson ==
  BucketDocsOver({KetamaH1, KetamaBadNode, VbucketH1})
    \cup {<<[pool |-> p1, bucket |-> bk]>> : bk \in {KetamaDown, VbucketNoMap}}

\* Documents that never change a pool's key_stats setting: the pool's
\* bucket parses or not.
MCDocsFixedKs == BucketDocsOver({KetamaH1, KetamaDown})
=============================================================================
