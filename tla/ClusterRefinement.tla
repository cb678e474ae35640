------------------------- MODULE ClusterRefinement -------------------------
(***************************************************************************)
(* The cluster driver implements DelegationService.  A task leaves the     *)
(* abstract queue when its function has returned, while it is still the    *)
(* first of the driver's list, and its sender is told when the interrupt   *)
(* handler has taken it out of the mailbox.                                *)
(***************************************************************************)
EXTENDS Cluster

Finishing == master.pc \in {"finish", "pop", "free", "mail", "full"}

Queue == IF master.pc \in {"finish", "pop"} THEN Tail1(sent) ELSE sent

Mailbox ==
  IF per_cluster_data \notin live \/ drv[per_cluster_data].task_to_fc = NULL
    THEN <<>> ELSE <<drv[per_cluster_data].task_to_fc>>

Finished == Mailbox \o IF Finishing THEN <<master.s6>> ELSE <<>>

Delegation == INSTANCE DelegationService
                WITH Client <- Thread, queue <- Queue, finished <- Finished,
                     told <- {p \in Thread : task[p].done}

\* Seen through that mapping, every step of the senders, the master core and
\* the interrupt handler is one of the service or changes nothing: no task is
\* lost, run twice, run out of order or reported before it ran.
ImplementsDelegation == Delegation!Spec

=============================================================================
