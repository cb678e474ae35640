------------------------------ MODULE ForkJoin ------------------------------
(***************************************************************************)
(* What a fork on the cluster promises: each core of the team executes the *)
(* entry point exactly once with the given argument, passes its barriers   *)
(* together with the others, and the fork returns when all have finished.  *)
(***************************************************************************)
EXTENDS Integers, Sequences

CONSTANTS NbCores, Entry, Arg, NONE

VARIABLES
  size,   \* the number of cores of the team: the one of the last fork, or task
  job,    \* the entry point and argument of the fork under way, or NONE
  place   \* where each core is in it

vars == <<size, job, place>>

Member == 0 .. size - 1

\* A core that is not needed, that has not begun, that has begun the job j and
\* passed k barriers, that waits at the next one, that has finished.
IDLE == [at |-> "idle"]
TODO == [at |-> "todo"]
DONE == [at |-> "done"]
In(j, k) == [at |-> "in", job |-> j, passed |-> k]
Waiting(j, k) == [at |-> "waiting", job |-> j, passed |-> k]

\* Core c is at the barrier k or beyond it.
Reached(c, k) ==
  \/ place[c] = DONE
  \/ place[c].at = "in" /\ place[c].passed > k
  \/ place[c].at = "waiting" /\ place[c].passed >= k

Init == size \in 0 .. 1 /\ job = NONE /\ place = [c \in 0 .. NbCores - 1 |-> IDLE]

\* A new task has a team of its own.
Resize(n) == job = NONE /\ size' = n /\ UNCHANGED <<job, place>>

Fork(n, entry, a) ==
  /\ job = NONE
  /\ size' = IF n = 0 THEN size ELSE n
  /\ job' = <<entry, a>>
  /\ place' \in {[c \in 0 .. NbCores - 1 |-> IF c < size' THEN TODO ELSE IDLE],
                 [c \in 0 .. NbCores - 1 |-> IF c = 0 THEN In(<<entry, a>>, 0)
                                             ELSE IF c < size' THEN TODO ELSE IDLE]}

Begin(c) ==
  /\ place[c] = TODO
  /\ place' = [place EXCEPT ![c] = In(job, 0)]
  /\ UNCHANGED <<size, job>>

Arrive(c) ==
  /\ place[c].at = "in" /\ place[c].passed < Len(job[1])
  /\ place' = [place EXCEPT ![c] = Waiting(job, @.passed)]
  /\ UNCHANGED <<size, job>>

Pass(c) ==
  /\ place[c].at = "waiting"
  /\ \A d \in Member : Reached(d, place[c].passed)
  /\ place' = [place EXCEPT ![c] = In(job, @.passed + 1)]
  /\ UNCHANGED <<size, job>>

Finish(c) ==
  /\ place[c] = In(job, Len(job[1]))
  /\ place' = [place EXCEPT ![c] = DONE]
  /\ UNCHANGED <<size, job>>

Join ==
  /\ job # NONE /\ \A c \in Member : place[c] = DONE
  /\ job' = NONE
  /\ place' = [c \in 0 .. NbCores - 1 |-> IDLE]
  /\ UNCHANGED size

Next ==
  \/ \E n \in 1 .. NbCores : Resize(n)
  \/ \E n \in 0 .. NbCores, entry \in Entry, a \in Arg : Fork(n, entry, a)
  \/ \E c \in Member : Begin(c) \/ Arrive(c) \/ Pass(c) \/ Finish(c)
  \/ Join

Spec == Init /\ [][Next]_vars

=============================================================================
