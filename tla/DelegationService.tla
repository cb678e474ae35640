------------------------- MODULE DelegationService -------------------------
(***************************************************************************)
(* What the cluster driver promises a thread that delegates a task: tasks  *)
(* are run once each, one at a time, in the order they were accepted, and  *)
(* their senders hear of it in that order, each after its task has run.     *)
(***************************************************************************)
EXTENDS Sequences

CONSTANT Client

VARIABLES
  queue,      \* the clients whose tasks were accepted and have not run
  finished,   \* those whose tasks have run and who have not been told
  told        \* those who have

vars == <<queue, finished, told>>

Outstanding == {queue[i] : i \in DOMAIN queue} \cup {finished[i] : i \in DOMAIN finished}

Init == queue = <<>> /\ finished = <<>> /\ told = {}

\* A client prepares its next task.
Begin(p) ==
  /\ p \notin Outstanding
  /\ told' = told \ {p}
  /\ UNCHANGED <<queue, finished>>

Accept(p) ==
  /\ p \notin Outstanding /\ p \notin told
  /\ queue' = Append(queue, p)
  /\ UNCHANGED <<finished, told>>

Run ==
  /\ queue # <<>>
  /\ queue' = Tail(queue)
  /\ finished' = Append(finished, Head(queue))
  /\ UNCHANGED told

Tell ==
  /\ finished # <<>>
  /\ finished' = Tail(finished)
  /\ told' = told \cup {Head(finished)}
  /\ UNCHANGED queue

Next == (\E p \in Client : Begin(p) \/ Accept(p)) \/ Run \/ Tell

Spec == Init /\ [][Next]_vars

=============================================================================
