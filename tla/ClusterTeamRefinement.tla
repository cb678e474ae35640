------------------------ MODULE ClusterTeamRefinement ------------------------
(***************************************************************************)
(* The cores implement ForkJoin.  A fork is under way while the master     *)
(* core is neither in its loop nor in the task's own code; a core of the    *)
(* team has yet to begin while the entry point is in its fifo or it has     *)
(* popped no more than its address, and has finished otherwise.             *)
(***************************************************************************)
EXTENDS ClusterTeam, FiniteSets

Forked == core[MASTER].pc \in {"run", "barrier", "sync", "asleep"}

JobOf(c) == <<core[c].fn.val, core[c].arg.val>>

HasEntry(q) == \E i \in 1..Len(q) : q[i].kind = "entry"

\* Core c has the entry point of the fork before it.
Pending(c) == HasEntry(fifo[c]) \/ (At(c, "arg") /\ core[c].fn.kind = "entry")

\* How far core c is, from its own registers.
Place(c) ==
  LET passed == Len(core[c].fn.val) - Len(core[c].todo) IN
  CASE ~Forked \/ c \notin mask[SYNC] -> [at |-> "idle"]
    [] At(c, "run") -> [at |-> "in", job |-> JobOf(c), passed |-> passed]
    [] At(c, "barrier") -> [at |-> "waiting", job |-> JobOf(c), passed |-> passed]
    [] Pending(c) -> [at |-> "todo"]
    [] OTHER -> [at |-> "done"]

TeamSize == Cardinality(mask[SYNC])
CurrentJob == IF Forked THEN JobOf(MASTER) ELSE NULL
Places == [c \in Core |-> Place(c)]

Service ==
  INSTANCE ForkJoin WITH NbCores <- NB_PE, NONE <- NULL,
                         size <- TeamSize, job <- CurrentJob, place <- Places

\* Whatever is forked after whatever, with slow cores still leaving an earlier
\* fork or a setup: the entry point is executed once by each core of the team the
\* call, or the last one, asked for, with its argument; nobody passes a barrier
\* before all have reached it; and the fork returns when all have finished
\* (pi_cl_team_fork, cluster_exec_loop).
ImplementsForkJoin == Service!Spec

=============================================================================
