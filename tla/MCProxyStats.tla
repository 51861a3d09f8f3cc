---------------------------- MODULE MCProxyStats ----------------------------
(* Model-checking instance of ProxyStats: two pools besides NULL_BUCKET,   *)
(* two worker threads, and documents that create one pool, then both, or   *)
(* retire them, so that get_stats and reset_stats run over proxy lists of  *)
(* one to three proxies.                                                   *)
EXTENDS ProxyStats

CONSTANTS p1, p2, pnull, h1, k0

MCPools == {p1, p2}

\* A ketama bucket with the one server h1, for pool p.
KetamaBucket == [locator |-> "ketama", mapParses |-> TRUE,
                 nodes |-> <<[form |-> "string", valid |-> TRUE,
                              status |-> "none", host |-> h1]>>]
ValidEntry(p) == [pool |-> p, bucket |-> KetamaBucket]

MCServersStats == {JsonOne(KetamaBucket).servers}

MCDocsStats == {<<ValidEntry(p1)>>, <<ValidEntry(p1), ValidEntry(p2)>>, <<>>}
=============================================================================
