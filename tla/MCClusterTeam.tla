---------------------------- MODULE MCClusterTeam ----------------------------
(* Entry points for the run of ClusterTeam. *)
EXTENDS ClusterTeamRefinement

CONSTANTS s1, s2, x

\* One without a barrier, and the one of tests/cluster/cluster_fork.
MCEntry == {<<>>, <<SYNC, LEGCY>>}
=============================================================================
