----------------------------- MODULE MCCluster -----------------------------
(* Threads and their roles for the runs of Cluster. *)
EXTENDS ClusterRefinement, TLC

CONSTANTS t1, t2, t3, b1, b2

\* Two senders and a thread that comes and goes and waits for the cluster.
SendersAndUser ==
  t1 :> {"send"} @@ t2 :> {"send_async", "wait_free"} @@ t3 :> {"open", "close", "wait_free"}

\* Two senders, one of which also waits for the cluster.
Senders == t1 :> {"send"} @@ t2 :> {"send_async", "wait_free"}

\* One sender that opens and closes the cluster itself.
OneUser == t1 :> {"open", "close", "send"}

TwoSenders == t1 :> {"send"} @@ t2 :> {"send_async"}
=============================================================================
