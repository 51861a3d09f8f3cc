--------------------------- MODULE MCBucketEngine ---------------------------
(* Model-checking instance of BucketEngine: two connections, one bucket    *)
(* name and two handle allocations, so that a bucket can be deleted and    *)
(* created again under the same name while the old handle still waits.    *)
EXTENDS BucketEngine, TLC

CONSTANTS c1, c2, h0, h1, h2, b1, b2

MCConns == {c1, c2}
MCHandles == {h1, h2}

(* The static default_engine handle besides two bucket allocations.       *)
MCHandlesDefault == {h0, h1}
MCNames == {b1}

(* A second name, the admin user's, for the authorization checks.        *)
MCNamesAdmin == {b1, b2}

(* Connections and handle allocations are interchangeable.                 *)
MCSymmetry == Permutations(MCConns) \cup Permutations(MCHandles)
=============================================================================
