------------------------------ MODULE MCCluster -----------------------------
(* Small clusters for Cluster. *)
EXTENDS Cluster, TLC

CONSTANTS a1, a2, a3, s1, s2

\* Two masters with a slot each, the third server a replica of the first.
MCInitOwner == [s \in Slots |-> IF s = s1 THEN a1 ELSE a2]
MCInitMaster == [a \in Addrs |-> IF a = a3 THEN a1 ELSE NoAddr]
=============================================================================
