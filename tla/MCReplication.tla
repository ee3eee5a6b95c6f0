--------------------------- MODULE MCReplication ----------------------------
(* Replication with the wire sizes of real commands.                       *)
EXTENDS Replication, TLC

\* SET k v takes 27 bytes, and to_resp gives the same 27.
SetOnly == {<<27, 27>>}

\* ZADD k 1 m takes 35 bytes, and 42 as to_resp writes its score 1.000000.
SetAndZadd == {<<27, 27>>, <<35, 42>>}

\* Replicas are interchangeable.
ReplicaSymmetry == Permutations(Replicas)

=============================================================================
