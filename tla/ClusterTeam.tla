----------------------------- MODULE ClusterTeam -----------------------------
(***************************************************************************)
(* Forks on the cluster: the master core, core 0, runs the tasks that are  *)
(* sent to it (Cluster.tla) and, inside a task, has a team of cores execute *)
(* an entry point (drivers/include/cluster/cl_team_internal.h); the slave   *)
(* cores run the loop of target/pulp/cluster.S.  Cores meet only through    *)
(* the event unit, which is hardware outside the repository: a dispatch     *)
(* fifo that gives every word to each core of the team configured when it   *)
(* is pushed, and barriers.                                                 *)
(*                                                                         *)
(* The words of one dispatch are pushed in one step (a core finds them in   *)
(* order, one by one, and sleeps while there is none), and so are the        *)
(* settings that precede it, which a core reads only when it triggers a     *)
(* barrier.                                                                 *)
(***************************************************************************)
EXTENDS Integers, Sequences

CONSTANTS
  NB_PE,       \* ARCHI_CLUSTER_NB_PE
  Stack,       \* where the stacks of a task may be: task->stacks
  Entry,       \* the entry points: for each the barriers it passes, in order
  Arg,         \* their arguments
  FIFO_DEPTH,  \* the words the dispatch unit keeps for a core
  NULL

LEGCY == "LEGCY"   \* ARCHI_CLUSTER_LEGCY_BARR_ID: pi_cl_team_barrier
SYNC == "SYNC"     \* ARCHI_CLUSTER_SYNC_BARR_ID: the end of a fork
Barrier == {LEGCY, SYNC}

ASSUME CoreAssumption == NB_PE \in Nat \ {0}
ASSUME UseAssumption == Entry \subseteq Seq(Barrier)
ASSUME NullAssumption == /\ NULL \notin Stack
                         /\ NULL \notin [stacks : Stack, nb_cores : 1 .. NB_PE]
                         /\ NULL \notin Entry \X Arg
ASSUME DepthAssumption == FIFO_DEPTH \in Nat /\ FIFO_DEPTH >= 3

Core == 0 .. NB_PE - 1
MASTER == 0   \* ARCHI_CLUSTER_MASTER_CORE

VARIABLES
  current,  \* the task in execution: its stacks and its number of cores
  core,     \* each core: where it is and its registers
  team,     \* the cores configured to receive what is dispatched
  fifo,     \* the words each core has not popped yet
  mask,     \* the cores of each barrier
  status,   \* those of them that have triggered it
  event     \* the cores with a barrier event in their buffer

unit == <<team, fifo, mask, status, event>>
vars == <<current, core, unit>>

(***************************************************************************)
(* Types                                                                   *)
(***************************************************************************)

\* "loop", where the master core waits for tasks, and "body", where it is in the
\* function of one, are the master's only.
Pc == {"loop", "body", "dispatch", "arg", "size", "run", "barrier", "sync", "asleep"}

\* The address of an entry point or of cl_slave_stack_setup; its lowest bit says
\* that no barrier follows.
FunctionWord ==
  [kind : {"entry"}, val : Entry, lsb : {0, 1}] \cup [kind : {"setup"}, lsb : {0, 1}]

\* The other words: an argument, the top of the master core's stack, the size of a
\* slave's stack.
DataWord ==
  [kind : {"arg"}, val : Arg] \cup [kind : {"top"}, val : Stack] \cup [kind : {"size"}]

IsFunction(word) == word.kind \in {"entry", "setup"}

\* A core: fn is the word it has popped, arg its argument, todo the barriers
\* still before it, and sp the stacks its stack pointer is in.
CoreT == [pc : Pc, fn : FunctionWord \cup {NULL}, arg : DataWord \cup {NULL},
          todo : Seq(Barrier), sp : Stack \cup {NULL}]

Running(c) == core[c].pc \in {"run", "barrier"}

TypeOK ==
  /\ current \in [stacks : Stack, nb_cores : 1 .. NB_PE] \cup {NULL}
  /\ core \in [Core -> CoreT]
  /\ team \subseteq Core \ {MASTER}
  /\ fifo \in [Core -> Seq(FunctionWord \cup DataWord)]
  /\ \A c \in Core : Len(fifo[c]) <= FIFO_DEPTH
  /\ mask \in [Barrier -> SUBSET Core] /\ status \in [Barrier -> SUBSET Core]
  /\ \A b \in Barrier : status[b] \subseteq mask[b] /\ (status[b] = mask[b] => mask[b] = {})
  /\ event \subseteq {c \in Core : core[c].pc \in {"barrier", "asleep"}}

(***************************************************************************)
(* The event unit                                                          *)
(***************************************************************************)

\* The fifos once the words have been pushed for the cores of the team t.
Pushed(t, words) == [c \in Core |-> IF c \in t THEN fifo[c] \o words ELSE fifo[c]]

\* The unit stalls whoever pushes while a core of the team has no room.
Room(t, words) == \A c \in t : Len(fifo[c]) + Len(words) <= FIFO_DEPTH

\* Core c triggers the barrier b and goes to sleep: the last one to do so wakes
\* them all.
TriggerWait(b, c) ==
  LET triggered == status[b] \cup {c} IN
  IF mask[b] \subseteq triggered
    THEN status' = [status EXCEPT ![b] = {}] /\ event' = event \cup mask[b]
    ELSE status' = [status EXCEPT ![b] = triggered] /\ UNCHANGED event

\* A core that goes on at l and whose other registers are not read any more.
Free(l, s) == [pc |-> l, fn |-> NULL, arg |-> NULL, todo |-> <<>>, sp |-> s]

Init ==
  /\ current = NULL
  /\ core = [c \in Core |-> Free(IF c = MASTER THEN "loop" ELSE "dispatch", NULL)]
  /\ team = {}
  /\ fifo = [c \in Core |-> <<>>]
  /\ mask = [b \in Barrier |-> {}]
  /\ status = [b \in Barrier |-> {}]
  /\ event = {}

At(c, l) == core[c].pc = l
Goto(c, l) == core' = [core EXCEPT ![c].pc = l]

(***************************************************************************)
(* Tasks                                                                   *)
(***************************************************************************)

\* The mask of nb_cores cores.
TeamMask(nb_cores) == 0 .. nb_cores - 1

\* The barriers for a team, the master core always in.
BarrierMask_NoMaster(team_mask) == [b \in Barrier |-> team_mask \ {MASTER}]
BarrierMask(team_mask) == [b \in Barrier |-> team_mask \cup {MASTER}]

\* The cores a task or a fork of nb_cores dispatches to.
DispatchTeam(nb_cores) == TeamMask(nb_cores) \ {MASTER}

SetupTeam_NewOnly(nb_cores) == DispatchTeam(nb_cores) \ team

\* Those of them that are given their stack when a task starts.
SetupTeam(nb_cores) == DispatchTeam(nb_cores)

SetupWord_Barrier == [kind |-> "setup", lsb |-> 0]

\* s8: cl_slave_stack_setup with the bit that says that no barrier follows.
SetupWord == [kind |-> "setup", lsb |-> 1]

\* What a task sends to the slaves of its team before it starts.
SetupWords_NoSize(s) == <<SetupWord, [kind |-> "top", val |-> s]>>
SetupWords(s) == <<SetupWord, [kind |-> "top", val |-> s], [kind |-> "size"]>>

\* cl_master_loop takes a task: the barriers, the team and the slaves' stacks are
\* set before its function is called.  The driver has replaced nb_cores = 0.
StartTask(s, nb_cores) ==
  /\ At(MASTER, "loop")
  /\ Room(SetupTeam(nb_cores), SetupWords(s))
  /\ current' = [stacks |-> s, nb_cores |-> nb_cores]
  /\ mask' = BarrierMask(TeamMask(nb_cores))
  /\ team' = DispatchTeam(nb_cores)
  /\ fifo' = Pushed(SetupTeam(nb_cores), SetupWords(s))
  /\ core' = [core EXCEPT ![MASTER].pc = "body", ![MASTER].sp = s]
  /\ UNCHANGED <<status, event>>

\* The function returns to cl_master_cluster_task_end: its stacks may be freed.
EndTask ==
  /\ At(MASTER, "body")
  /\ current' = NULL
  /\ Goto(MASTER, "loop")
  /\ UNCHANGED unit

(***************************************************************************)
(* Forks                                                                   *)
(***************************************************************************)

EntryWord(entry) == [kind |-> "entry", val |-> entry, lsb |-> 0]
ArgWord(a) == [kind |-> "arg", val |-> a]

\* What a fork sends to its team.
EntryWords(entry, a) == <<EntryWord(entry), ArgWord(a)>>

\* __pi_cl_team_dispatch, and what the master core does next: execute the entry
\* point itself, or go to the barrier.
Dispatch(entry, a, t, masterToo) ==
  /\ Room(t, EntryWords(entry, a))
  /\ fifo' = Pushed(t, EntryWords(entry, a))
  /\ core' = [core EXCEPT ![MASTER] =
                [pc |-> IF masterToo THEN "run" ELSE "sync",
                 fn |-> EntryWord(entry), arg |-> ArgWord(a),
                 todo |-> IF masterToo THEN entry ELSE <<>>, sp |-> @.sp]]
  /\ UNCHANGED <<current, status, event>>

\* __pi_cl_team_config_set for a number of cores; with 0 everything stays as the
\* last fork, or the task, has left it.
Config(nb_cores) ==
  IF nb_cores # 0
    THEN mask' = BarrierMask(TeamMask(nb_cores)) /\ team' = DispatchTeam(nb_cores)
    ELSE UNCHANGED <<mask, team>>

pi_cl_team_fork(nb_cores, entry, a) ==
  /\ At(MASTER, "body")
  /\ Config(nb_cores)
  /\ Dispatch(entry, a, team',
              MASTER \in IF nb_cores # 0 THEN TeamMask(nb_cores) ELSE mask[SYNC])

pi_cl_team_fork_cc(nb_cores, entry, a) ==
  /\ At(MASTER, "body")
  /\ Config(nb_cores)
  /\ Dispatch(entry, a, team', TRUE)

pi_cl_team_preset_fork(entry, a) ==
  /\ At(MASTER, "body")
  /\ UNCHANGED <<mask, team>>
  /\ Dispatch(entry, a, team, MASTER \in mask[LEGCY])

(***************************************************************************)
(* The cores                                                               *)
(***************************************************************************)

\* cl_slave_wait_for_dispatch.  A core that takes an argument for an address has
\* gone astray; here it stops.
PopFunction(c) ==
  /\ At(c, "dispatch")
  /\ fifo[c] # <<>> /\ IsFunction(Head(fifo[c]))
  /\ core' = [core EXCEPT ![c].pc = "arg", ![c].fn = Head(fifo[c])]
  /\ fifo' = [fifo EXCEPT ![c] = Tail(@)]
  /\ UNCHANGED <<current, team, mask, status, event>>

\* The next word is the argument; the core jumps to the function.
PopArg(c) ==
  /\ At(c, "arg") /\ fifo[c] # <<>>
  /\ core' = [core EXCEPT ![c] =
                IF @.fn.kind = "setup"
                  THEN [@ EXCEPT !.pc = "size", !.arg = Head(fifo[c])]
                  ELSE [@ EXCEPT !.pc = "run", !.arg = Head(fifo[c]), !.todo = core[c].fn.val]]
  /\ fifo' = [fifo EXCEPT ![c] = Tail(@)]
  /\ UNCHANGED <<current, team, mask, status, event>>

\* Where a function returns to: s4 or s5.
ReturnTo(word) == IF word.lsb = 1 THEN "dispatch" ELSE "sync"

\* The stack pointer a slave computes from the words of its setup: its place
\* above the master core's stack.
SetupSp(word) == word.val

\* cl_slave_stack_setup: the third word, and back.
PopSize(c) ==
  /\ At(c, "size") /\ fifo[c] # <<>>
  /\ core' = [core EXCEPT ![c] = Free(ReturnTo(@.fn), SetupSp(@.arg))]
  /\ fifo' = [fifo EXCEPT ![c] = Tail(@)]
  /\ UNCHANGED <<current, team, mask, status, event>>

\* The entry point calls pi_cl_team_barrier or pi_cl_team_barrier_cc.
pi_cl_team_barrier(c) ==
  /\ At(c, "run") /\ core[c].todo # <<>>
  /\ TriggerWait(Head(core[c].todo), c)
  /\ Goto(c, "barrier")
  /\ UNCHANGED <<current, team, fifo, mask>>

\* The entry point returns: a slave to cl_slave_barrier_trig_wait, the master
\* core into the fork.
Return(c) ==
  /\ At(c, "run") /\ core[c].todo = <<>>
  /\ Goto(c, ReturnTo(core[c].fn))
  /\ UNCHANGED <<current, unit>>

\* __pi_cl_team_barrier_sync_wait_clear, or the same instruction in the slave's
\* loop.
Sync(c) ==
  /\ At(c, "sync")
  /\ TriggerWait(SYNC, c)
  /\ Goto(c, "asleep")
  /\ UNCHANGED <<current, team, fifo, mask>>

\* The barrier's event wakes the core and is cleared: it goes on in the entry
\* point, in the slave's loop or, the fork being over, in the task.
Wake(c) ==
  /\ c \in event
  /\ event' = event \ {c}
  /\ core' = [core EXCEPT ![c] =
                IF @.pc = "barrier"
                  THEN [@ EXCEPT !.pc = "run", !.todo = Tail(core[c].todo)]
                  ELSE Free(IF c = MASTER THEN "body" ELSE "dispatch", @.sp)]
  /\ UNCHANGED <<current, team, fifo, mask, status>>

(***************************************************************************)
(* Specification                                                           *)
(***************************************************************************)

\* What the application does in the master core.
Task ==
  \/ \E s \in Stack, n \in 1 .. NB_PE : StartTask(s, n)
  \/ EndTask
  \/ \E entry \in Entry, a \in Arg :
       \/ \E n \in 0 .. NB_PE : \/ pi_cl_team_fork(n, entry, a)
                                \/ pi_cl_team_fork_cc(n, entry, a)
       \/ pi_cl_team_preset_fork(entry, a)

CoreStep(c) ==
  \/ PopFunction(c) \/ PopArg(c) \/ PopSize(c)
  \/ pi_cl_team_barrier(c) \/ Return(c) \/ Sync(c) \/ Wake(c)

Next == Task \/ \E c \in Core : CoreStep(c)

Spec == Init /\ [][Next]_vars

\* Every core goes on unless it sleeps; nothing obliges the application to fork.
FairSpec == Spec /\ \A c \in Core : WF_vars(CoreStep(c))

(***************************************************************************)
(* Properties                                                              *)
(***************************************************************************)

\* A core executes an entry point only while a task is in execution, and a core
\* of the task's own team then has its stack among the stacks of that task,
\* although it may have slept through many tasks and forks it was no part of.
StackOfTask ==
  \A c \in Core :
    Running(c) => /\ current # NULL
                  /\ c < current.nb_cores => core[c].sp = current.stacks

\* A fork returns: the master core comes back to the task (__pi_cl_team_dispatch,
\* cl_slave_loop).
ForkReturns == \A c \in Core : Running(c) ~> At(MASTER, "body")

=============================================================================
