----------------------------- MODULE MCCluster -----------------------------
(* A master and one slave: the slaves of a master do not act on one another. *)
EXTENDS Cluster
=============================================================================
