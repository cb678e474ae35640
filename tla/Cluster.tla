------------------------------ MODULE Cluster ------------------------------
(***************************************************************************)
(* The cluster driver: FreeRTOS tasks of the fabric controller open and    *)
(* close the cluster and send it tasks (drivers/cluster/fc_to_cl_delegate.c),*)
(* the cluster's master core takes them from a list in shared memory       *)
(* (target/pulp/cluster.S), and reports the end of each through a one-place *)
(* mailbox and an interrupt (drivers/cluster/cl_to_fc_delegate.c).          *)
(*                                                                         *)
(* The driver never disables interrupts: a thread is preempted anywhere,   *)
(* also inside its mutexes and while it holds the spinlock that guards the *)
(* list against the master core, which runs in parallel.  The interrupt    *)
(* handler runs to completion, before any thread goes on.                  *)
(*                                                                         *)
(* Each thread owns one pi_device, one pi_cluster_task and one pi_task_t,   *)
(* all named by the thread.                                                *)
(***************************************************************************)
EXTENDS Naturals, FiniteSets, Sequences, PmsisTask, TaskFifo

CONSTANTS
  Thread,     \* FreeRTOS tasks of the fabric controller
  NULL,       \* the null pointer
  MASTER,     \* the master core, as the holder of the spinlock
  Block,      \* what pi_malloc may return for a struct cluster_driver_data
  Role,       \* the operations each thread uses, subsets of Operation
  Opened,     \* the threads whose device is open at the start
  Stack,      \* what happens to the stacks of a task, a subset of StackOutcome
  Batched     \* whether the threads send in batches: see MaySend

Operation == {"open", "close", "send", "send_async", "wait_free"}

\* Stacks passed by the caller, taken from the L1 heap, or refused by it.
StackOutcome == {"given", "allocated", "refused"}

ASSUME NamesAssumption == NULL \notin Thread /\ MASTER \notin Thread /\ MASTER # NULL
ASSUME BlockAssumption == NULL \notin Block /\ Block # {}
\* A thread's sends are of one kind.
ASSUME RoleAssumption ==
  /\ Role \in [Thread -> SUBSET Operation]
  /\ \A p \in Thread : ~({"send", "send_async"} \subseteq Role[p])
ASSUME StackAssumption == Stack \subseteq StackOutcome
ASSUME OpenedAssumption == Opened \subseteq Thread /\ IsFiniteSet(Thread)
ASSUME BatchedAssumption == Batched \in BOOLEAN

VARIABLES
  pc,         \* where each thread is in the driver
  device,     \* device->data of each thread's pi_device
  opened,     \* the threads whose device is open, as the application sees it
  local,      \* cl_data of a thread in pi_cluster_open
  task,       \* the pi_task_t of each thread
  stacks,     \* the threads whose task has its stacks in the L1 heap
  next,       \* the next field of each pi_cluster_task
  drv,        \* the contents of each block
  live,       \* the blocks allocated
  per_cluster_data,  \* __per_cluster_data[0]
  master,     \* the master core: its place in the code, its registers s5 (driver
              \* data) and s6 (task), the local data of the functions it calls
  event,      \* FC_NOTIFY_CLUSTER_EVENT is buffered at the master core
  irq,        \* CLUSTER_TO_FC_NOTIFY_IRQN is pending at the fabric controller
  sent,       \* history: the tasks accepted and not popped, oldest first
  ran,        \* history: the tasks run since they were last sent
  batch,      \* history: the threads that sent a task in this batch
  orphans,    \* history: the threads that lost a semaphore
  fault       \* freed memory or a mutex without a method was used

fc == <<pc, device, opened, local, task, stacks, batch, orphans>>
list == <<next, drv, sent>>
vars == <<pc, device, opened, local, task, stacks, next, drv, live,
          per_cluster_data, master, event, irq, sent, ran, batch, orphans, fault>>

(***************************************************************************)
(* Types                                                                   *)
(***************************************************************************)

Pc == {"idle",
       "alloc", "setup", "start", "power",                  \* pi_cluster_open
       "stop", "count", "stopped", "cleanup", "clear",      \* pi_cluster_close
       "send", "check", "push", "pushing", "wake", "wait",  \* the send calls
       "sent",                                              \* after an async send
       "poll", "polling"}                                   \* wait_free

MasterPc ==
  {"off", "ready", "loop", "run", "finish", "pop", "free", "mail", "full", "sleep"}

\* struct cluster_driver_data.  ready: its mutexes have been initialized.
Driver ==
  [task_first : Thread \cup {NULL}, task_last : Thread \cup {NULL},
   cluster_is_on : 0..Cardinality(Thread), task_to_fc : Thread \cup {NULL},
   ready : BOOLEAN, task_mutex : Thread \cup {NULL},
   powerstate_mutex : Thread \cup {NULL}, fifo_access : Thread \cup {NULL, MASTER}]

\* What memset leaves.
DriverZero ==
  [task_first |-> NULL, task_last |-> NULL, cluster_is_on |-> 0, task_to_fc |-> NULL,
   ready |-> FALSE, task_mutex |-> NULL, powerstate_mutex |-> NULL, fifo_access |-> NULL]

TypeOK ==
  /\ pc \in [Thread -> Pc]
  /\ device \in [Thread -> Block \cup {NULL}]
  /\ opened \subseteq Thread
  /\ local \in [Thread -> Block \cup {NULL}]
  /\ task \in [Thread -> PiTaskT]
  /\ stacks \subseteq Thread
  /\ next \in [Thread -> Thread \cup {NULL}]
  /\ drv \in [Block -> Driver]
  /\ live \subseteq Block
  /\ per_cluster_data \in Block \cup {NULL}
  /\ master \in [pc : MasterPc, s5 : Block \cup {NULL}, s6 : Thread \cup {NULL},
                 data : Block \cup {NULL}]
  /\ event \in BOOLEAN /\ irq \in BOOLEAN /\ fault \in BOOLEAN
  /\ sent \in Seq(Thread)
  /\ ran \subseteq Thread /\ batch \subseteq Thread /\ orphans \subseteq Thread

(***************************************************************************)
(* Initial states                                                          *)
(***************************************************************************)

\* Either nothing is open, or one block serves the devices in Opened, the
\* mutexes are initialized and the master core is on its way to its loop.
Init ==
  /\ pc = [p \in Thread |-> "idle"]
  /\ opened = Opened
  /\ per_cluster_data \in IF Opened = {} THEN {NULL} ELSE Block
  /\ device = [p \in Thread |-> IF p \in Opened THEN per_cluster_data ELSE NULL]
  /\ live = {per_cluster_data} \ {NULL}
  /\ drv = [b \in Block |->
              IF b = per_cluster_data
                THEN [DriverZero EXCEPT !.ready = TRUE,
                                        !.cluster_is_on = Cardinality(Opened)]
                ELSE DriverZero]
  /\ master = [pc |-> IF Opened = {} THEN "off" ELSE "ready",
               s5 |-> NULL, s6 |-> NULL, data |-> NULL]
  /\ local = [p \in Thread |-> NULL]
  /\ task = [p \in Thread |-> PiTaskZero]
  /\ next = [p \in Thread |-> NULL]
  /\ stacks = {} /\ sent = <<>> /\ ran = {} /\ batch = {} /\ orphans = {}
  /\ event = FALSE /\ irq = FALSE /\ fault = FALSE

(***************************************************************************)
(* Helpers                                                                 *)
(***************************************************************************)

\* Thread p executes at l: no interrupt is pending, which would be taken first.
At(p, l) == pc[p] = l /\ ~irq /\ ~fault

Goto(p, l) == pc' = [pc EXCEPT ![p] = l]

MasterAt(l) == master.pc = l /\ ~fault

MasterGoto(l) == master' = [master EXCEPT !.pc = l]

\* The block the driver calls of p use, and whether using it is sound.
Data(p) == drv[device[p]]
Sound(b) == b \in live /\ drv[b].ready

Set(b, d) == drv' = [drv EXCEPT ![b] = d]

(***************************************************************************)
(* pi_cluster_open                                                         *)
(***************************************************************************)

\* Read __per_cluster_data[0] into device->data.
OpenRead(p) ==
  /\ At(p, "idle") /\ "open" \in Role[p] /\ p \notin opened
  /\ device' = [device EXCEPT ![p] = per_cluster_data]
  /\ Goto(p, IF per_cluster_data = NULL THEN "alloc" ELSE "start")
  /\ UNCHANGED <<opened, local, task, stacks, batch, orphans, list, live,
                 per_cluster_data, master, event, irq, ran, fault>>

\* pi_malloc and memset a block and publish it; nothing is locked.
OpenAlloc(p) ==
  /\ At(p, "alloc")
  /\ \E b \in Block \ live :
       /\ live' = live \cup {b}
       /\ Set(b, DriverZero)
       /\ local' = [local EXCEPT ![p] = b]
       /\ per_cluster_data' = b
  /\ Goto(p, "setup")
  /\ UNCHANGED <<device, opened, task, stacks, batch, orphans, next, sent,
                 master, event, irq, ran, fault>>

\* pi_malloc returned NULL: -11.
OpenFails(p) ==
  /\ At(p, "alloc")
  /\ Goto(p, "idle")
  /\ UNCHANGED <<device, opened, local, task, stacks, batch, orphans, list, live,
                 per_cluster_data, master, event, irq, ran, fault>>

\* device->data is read back from the global; the mutexes of cl_data are made.
OpenSetup(p) ==
  /\ At(p, "setup")
  /\ device' = [device EXCEPT ![p] = per_cluster_data]
  /\ Set(local[p], [drv[local[p]] EXCEPT !.ready = TRUE, !.task_mutex = NULL,
                                         !.powerstate_mutex = NULL,
                                         !.task_to_fc = NULL])
  /\ local' = [local EXCEPT ![p] = NULL]
  /\ Goto(p, "start")
  /\ UNCHANGED <<opened, task, stacks, batch, orphans, next, sent, live,
                 per_cluster_data, master, event, irq, ran, fault>>

\* __cluster_start takes powerstate_mutex.
OpenLock(p) ==
  /\ At(p, "start") /\ Sound(device[p])
  /\ Data(p).powerstate_mutex = NULL
  /\ Set(device[p], [Data(p) EXCEPT !.powerstate_mutex = p])
  /\ Goto(p, "power")
  /\ UNCHANGED <<device, opened, local, task, stacks, batch, orphans, next, sent,
                 live, per_cluster_data, master, event, irq, ran, fault>>

\* __cluster_start: the first user powers the cluster up, which starts the
\* master core unless an earlier opening did, and makes a new L1 heap and a
\* new spinlock.
OpenStart(p) ==
  LET d == [Data(p) EXCEPT !.cluster_is_on = @ + 1, !.powerstate_mutex = NULL] IN
  /\ At(p, "power") /\ Sound(device[p])
  /\ IF Data(p).cluster_is_on = 0
       THEN /\ Set(device[p], [d EXCEPT !.fifo_access = NULL])
            /\ MasterGoto(IF master.pc = "off" THEN "ready" ELSE master.pc)
       ELSE Set(device[p], d) /\ UNCHANGED master
  /\ opened' = opened \cup {p}
  /\ Goto(p, "idle")
  /\ UNCHANGED <<device, local, task, stacks, batch, orphans, next, sent, live,
                 per_cluster_data, event, irq, ran, fault>>

(***************************************************************************)
(* pi_cluster_close                                                        *)
(***************************************************************************)

CloseEnter(p) ==
  /\ At(p, "idle") /\ "close" \in Role[p] /\ p \in opened
  /\ opened' = opened \ {p}
  /\ Goto(p, "stop")
  /\ UNCHANGED <<device, local, task, stacks, batch, orphans, list, live,
                 per_cluster_data, master, event, irq, ran, fault>>

\* __cluster_stop takes powerstate_mutex ...
CloseLock(p) ==
  /\ At(p, "stop") /\ Sound(device[p])
  /\ Data(p).powerstate_mutex = NULL
  /\ Set(device[p], [Data(p) EXCEPT !.powerstate_mutex = p])
  /\ Goto(p, "count")
  /\ UNCHANGED <<device, opened, local, task, stacks, batch, orphans, next, sent,
                 live, per_cluster_data, master, event, irq, ran, fault>>

CountAfterClose(n) == n - 1

\* ... decrements cluster_is_on and releases the mutex ...
CloseCount(p) ==
  /\ At(p, "count") /\ Sound(device[p])
  /\ Set(device[p], [Data(p) EXCEPT !.cluster_is_on = CountAfterClose(@),
                                     !.powerstate_mutex = NULL])
  /\ Goto(p, "stopped")
  /\ UNCHANGED <<device, opened, local, task, stacks, batch, orphans, next, sent,
                 live, per_cluster_data, master, event, irq, ran, fault>>

LastUser_Any(n) == TRUE

LastUser(n) == n = 0

\* ... and reads cluster_is_on again after that.
CloseRead(p) ==
  /\ At(p, "stopped") /\ device[p] \in live
  /\ Goto(p, IF LastUser(Data(p).cluster_is_on) THEN "cleanup" ELSE "idle")
  /\ UNCHANGED <<device, opened, local, task, stacks, batch, orphans, list, live,
                 per_cluster_data, master, event, irq, ran, fault>>

LiveAfterClose_Kept(l, b) == l

\* The blocks that remain allocated once b is freed.
LiveAfterClose(l, b) == l \ {b}

\* The last user deletes the mutexes and frees the driver data ...
CloseFree(p) ==
  /\ At(p, "cleanup") /\ device[p] \in live
  /\ live' = LiveAfterClose(live, device[p])
  /\ Goto(p, "clear")
  /\ UNCHANGED <<device, opened, local, task, stacks, batch, orphans, list,
                 per_cluster_data, master, event, irq, ran, fault>>

\* ... and only then clears __per_cluster_data[0].
CloseClear(p) ==
  /\ At(p, "clear")
  /\ per_cluster_data' = NULL
  /\ Goto(p, "idle")
  /\ UNCHANGED <<device, opened, local, task, stacks, batch, orphans, list, live,
                 master, event, irq, ran, fault>>

(***************************************************************************)
(* Sending tasks                                                           *)
(***************************************************************************)

\* Every thread has its task back.
AllBack == \A q \in Thread : ~task[q].destroy

\* Threads that send in batches send one task each and then none until every
\* thread has its task back.
MaySend(p) == Batched => p \notin batch \/ AllBack

Tail1(q) == IF q = <<>> THEN <<>> ELSE Tail(q)

\* The thread's task_block or fc_task is prepared; created is the outcome of
\* the semaphore's allocation.
SendEnter(p, created) ==
  /\ At(p, "idle") /\ p \in opened
  /\ Role[p] \cap {"send", "send_async"} # {}
  /\ MaySend(p)
  /\ task' = [task EXCEPT ![p] = PiTaskBlock(created)]
  /\ batch' = IF AllBack THEN {p} ELSE batch \cup {p}
  /\ ran' = ran \ {p}
  /\ Goto(p, "send")
  /\ UNCHANGED <<device, opened, local, stacks, orphans, list, live,
                 per_cluster_data, master, event, irq, fault>>

\* __pi_send_task_to_cl takes task_mutex.
SendLock(p) ==
  /\ At(p, "send") /\ Sound(device[p])
  /\ Data(p).task_mutex = NULL
  /\ Set(device[p], [Data(p) EXCEPT !.task_mutex = p])
  /\ Goto(p, "check")
  /\ UNCHANGED <<device, opened, local, task, stacks, batch, orphans, next, sent,
                 live, per_cluster_data, master, event, irq, ran, fault>>

\* A cluster that is off, or no L1 memory for the stacks: -1.  The asynchronous
\* call tries again; the other one returns without destroying its task_block.
SendFails(p) ==
  /\ At(p, "check") /\ Sound(device[p])
  /\ Data(p).cluster_is_on = 0 \/ "refused" \in Stack
  /\ Set(device[p], [Data(p) EXCEPT !.task_mutex = NULL])
  /\ \/ /\ "send_async" \in Role[p]
        /\ Goto(p, "send")
        /\ UNCHANGED <<task, orphans>>
     \/ /\ "send" \in Role[p]
        /\ Goto(p, "idle")
        /\ task' = [task EXCEPT ![p] = PiTaskZero]
        /\ orphans' = IF task[p].sem THEN orphans \cup {p} ELSE orphans
  /\ UNCHANGED <<device, opened, local, stacks, batch, next, sent, live,
                 per_cluster_data, master, event, irq, ran, fault>>

\* The cluster is on; the stacks are the caller's or allocated for the task.
SendStacks(p) ==
  /\ At(p, "check") /\ Sound(device[p])
  /\ Data(p).cluster_is_on # 0
  /\ \E s \in Stack \ {"refused"} :
       stacks' = IF s = "allocated" THEN stacks \cup {p} ELSE stacks \ {p}
  /\ Goto(p, "push")
  /\ UNCHANGED <<device, opened, local, task, batch, orphans, list, live,
                 per_cluster_data, master, event, irq, ran, fault>>

\* pi_push_cluster_task takes the spinlock.
PushLock(p) ==
  /\ At(p, "push") /\ Sound(device[p])
  /\ Data(p).fifo_access = NULL
  /\ Set(device[p], [Data(p) EXCEPT !.fifo_access = p])
  /\ Goto(p, "pushing")
  /\ UNCHANGED <<device, opened, local, task, stacks, batch, orphans, next, sent,
                 live, per_cluster_data, master, event, irq, ran, fault>>

\* pi_push_cluster_task: a list that is not empty keeps its task_last.
Push(p) ==
  LET d == Data(p) IN
  /\ At(p, "pushing") /\ Sound(device[p])
  /\ IF d.task_last = NULL
       THEN /\ Set(device[p], [d EXCEPT !.task_first = p, !.task_last = p,
                                        !.fifo_access = NULL])
            /\ next' = [next EXCEPT ![p] = NULL]
       ELSE /\ Set(device[p], [d EXCEPT !.fifo_access = NULL])
            /\ next' = [next EXCEPT ![p] = NULL, ![d.task_last] = p]
  /\ sent' = Append(sent, p)
  /\ Goto(p, "wake")
  /\ UNCHANGED <<device, opened, local, task, stacks, batch, orphans, live,
                 per_cluster_data, master, event, irq, ran, fault>>

WakeEvent_Lost == event

\* hal_eu_cluster_evt_trig_set: the event is buffered until the core waits.
WakeEvent == TRUE

\* The master core is woken and task_mutex released.
Wake(p) ==
  /\ At(p, "wake") /\ Sound(device[p])
  /\ event' = WakeEvent
  /\ Set(device[p], [Data(p) EXCEPT !.task_mutex = NULL])
  /\ \E r \in Role[p] \cap {"send", "send_async"} :
       Goto(p, IF r = "send" THEN "wait" ELSE "sent")
  /\ UNCHANGED <<device, opened, local, task, stacks, batch, orphans, next, sent,
                 live, per_cluster_data, master, irq, ran, fault>>

\* pi_task_wait_on, and the pi_task_destroy of the blocking call after it.
WaitOn(p) ==
  /\ pc[p] \in {"wait", "sent"} /\ At(p, pc[p])
  /\ task[p].done
  /\ task' = [task EXCEPT ![p] = IF pc[p] = "wait"
                                   THEN PiTaskDestroy(PiTaskDestroy(task[p]))
                                   ELSE PiTaskDestroy(task[p])]
  /\ Goto(p, "idle")
  /\ UNCHANGED <<device, opened, local, stacks, batch, orphans, list, live,
                 per_cluster_data, master, event, irq, ran, fault>>

(***************************************************************************)
(* pi_cluster_wait_free                                                    *)
(***************************************************************************)

FreeEnter(p) ==
  /\ pc[p] \in {"idle", "sent"} /\ At(p, pc[p])
  /\ "wait_free" \in Role[p] /\ p \in opened
  /\ Goto(p, "poll")
  /\ UNCHANGED <<device, opened, local, task, stacks, batch, orphans, list, live,
                 per_cluster_data, master, event, irq, ran, fault>>

\* __cluster_has_task takes the spinlock ...
FreeLock(p) ==
  /\ At(p, "poll") /\ Sound(device[p])
  /\ Data(p).fifo_access = NULL
  /\ Set(device[p], [Data(p) EXCEPT !.fifo_access = p])
  /\ Goto(p, "polling")
  /\ UNCHANGED <<device, opened, local, task, stacks, batch, orphans, next, sent,
                 live, per_cluster_data, master, event, irq, ran, fault>>

HasTask_Several(d) == d.task_first # d.task_last

HasTask(d) == d.task_first # NULL

\* ... and looks at task_first; the caller tries again or returns.
FreeLook(p) ==
  /\ At(p, "polling") /\ Sound(device[p])
  /\ Set(device[p], [Data(p) EXCEPT !.fifo_access = NULL])
  /\ Goto(p, IF HasTask(Data(p)) THEN "poll"
             ELSE IF task[p].destroy THEN "sent" ELSE "idle")
  /\ UNCHANGED <<device, opened, local, task, stacks, batch, orphans, next, sent,
                 live, per_cluster_data, master, event, irq, ran, fault>>

(***************************************************************************)
(* The master core (cluster.S)                                             *)
(***************************************************************************)

\* cl_master_cluster_ready reads __per_cluster_data[0] into s5, once.
MasterReady ==
  /\ MasterAt("ready")
  /\ master' = [master EXCEPT !.s5 = per_cluster_data,
                              !.pc = IF per_cluster_data = NULL THEN "sleep" ELSE "loop"]
  /\ UNCHANGED <<fc, list, live, per_cluster_data, event, irq, ran, fault>>

\* cl_master_loop takes the first task, which stays in the list while it runs.
MasterLoop ==
  /\ MasterAt("loop") /\ master.s5 \in live
  /\ LET t == drv[master.s5].task_first IN
       master' = [master EXCEPT !.s6 = t, !.pc = IF t = NULL THEN "sleep" ELSE "run"]
  /\ UNCHANGED <<fc, list, live, per_cluster_data, event, irq, ran, fault>>

\* cl_master_sleep waits for the event and clears it.
MasterSleep ==
  /\ MasterAt("sleep") /\ event
  /\ event' = FALSE
  /\ MasterGoto("loop")
  /\ UNCHANGED <<fc, list, live, per_cluster_data, irq, ran, fault>>

\* The task's function runs to its end.
MasterRun ==
  /\ MasterAt("run")
  /\ ran' = ran \cup {master.s6}
  /\ MasterGoto("finish")
  /\ UNCHANGED <<fc, list, live, per_cluster_data, event, irq, fault>>

\* cl_task_finish reads __per_cluster_data[0], and cl_pop_cluster_task takes the
\* spinlock.
MasterFinish ==
  LET b == per_cluster_data IN
  /\ MasterAt("finish") /\ b \in live
  /\ drv[b].fifo_access = NULL /\ drv[b].task_first # NULL
  /\ Set(b, [drv[b] EXCEPT !.fifo_access = MASTER])
  /\ master' = [master EXCEPT !.pc = "pop", !.data = b, !.s6 = drv[b].task_first]
  /\ UNCHANGED <<fc, next, sent, live, per_cluster_data, event, irq, ran, fault>>

LastAfterPop_Kept(last, first) == last

\* cl_pop_cluster_task clears task_last when it empties the list.
LastAfterPop(last, first) == IF first = NULL THEN NULL ELSE last

MasterPop ==
  LET d == drv[master.data]
      n == next[master.s6] IN
  /\ MasterAt("pop") /\ master.data \in live
  /\ Set(master.data, [d EXCEPT !.task_first = n,
                                !.task_last = LastAfterPop(d.task_last, n),
                                !.fifo_access = NULL])
  /\ sent' = Tail1(sent)
  /\ MasterGoto("free")
  /\ UNCHANGED <<fc, next, live, per_cluster_data, event, irq, ran, fault>>

StacksAfterFree_Kept(s, t) == s

\* The stacks the driver allocated are given back after the task.
StacksAfterFree(s, t) == s \ {t}

\* The end of cl_pop_cluster_task, outside the spinlock; pi_cl_send_task_to_fc
\* then reads __per_cluster_data[0].
MasterFree ==
  /\ MasterAt("free")
  /\ stacks' = StacksAfterFree(stacks, master.s6)
  /\ master' = [master EXCEPT !.pc = "mail", !.data = per_cluster_data]
  /\ UNCHANGED <<pc, device, opened, local, task, batch, orphans, list, live,
                 per_cluster_data, event, irq, ran, fault>>

MailboxFree_Unchecked(d) == TRUE

\* pi_cl_send_task_to_fc waits until the fabric controller has emptied the
\* mailbox.
MailboxFree(d) == d.task_to_fc = NULL

\* pi_cl_send_task_to_fc puts the completed task's callback into the mailbox and
\* interrupts the fabric controller.
MasterMail ==
  LET b == master.data IN
  /\ MasterAt("mail") /\ b \in live
  /\ MailboxFree(drv[b])
  /\ Set(b, [drv[b] EXCEPT !.task_to_fc = master.s6])
  /\ irq' = TRUE
  /\ MasterGoto("loop")
  /\ UNCHANGED <<fc, next, sent, live, per_cluster_data, event, ran, fault>>

\* It finds the mailbox full: it waits for the same event as cl_master_sleep ...
MasterMailFull ==
  /\ MasterAt("mail") /\ master.data \in live
  /\ ~MailboxFree(drv[master.data])
  /\ MasterGoto("full")
  /\ UNCHANGED <<fc, list, live, per_cluster_data, event, irq, ran, fault>>

\* ... clears it, and looks again.
MasterMailWait ==
  /\ MasterAt("full") /\ event
  /\ event' = FALSE
  /\ MasterGoto("mail")
  /\ UNCHANGED <<fc, list, live, per_cluster_data, irq, ran, fault>>

(***************************************************************************)
(* The fabric controller's interrupt handler                               *)
(***************************************************************************)

\* cl_notify_fc_event_handler on a full mailbox.  pi_task_push does nothing.
Handler ==
  LET b == per_cluster_data IN
  /\ irq /\ ~fault
  /\ b \in live /\ drv[b].task_to_fc # NULL
  /\ task' = [task EXCEPT ![drv[b].task_to_fc] = PiTaskRelease(@)]
  /\ Set(b, [drv[b] EXCEPT !.task_to_fc = NULL])
  /\ event' = TRUE
  /\ irq' = FALSE
  /\ UNCHANGED <<pc, device, opened, local, stacks, batch, orphans, next, sent,
                 live, per_cluster_data, master, ran, fault>>

(***************************************************************************)
(* Wrong accesses                                                          *)
(***************************************************************************)

\* Thread p is about to use driver data that has been freed, or a mutex that
\* has not been initialized.
ThreadFault(p) ==
  /\ \/ /\ pc[p] \in {"start", "power", "stop", "count", "send", "check", "push",
                      "pushing", "wake", "poll", "polling"}
        /\ ~Sound(device[p])
     \/ pc[p] \in {"stopped", "cleanup"} /\ device[p] \notin live
  /\ At(p, pc[p])

\* The master core is about to read driver data that has been freed, or through
\* a null __per_cluster_data[0].
MasterFault ==
  /\ ~fault
  /\ \/ master.pc = "loop" /\ master.s5 \notin live
     \/ master.pc \in {"pop", "mail"} /\ master.data \notin live
     \/ /\ master.pc = "finish"
        /\ per_cluster_data \in live => drv[per_cluster_data].task_first = NULL

\* The handler is about to do so, or finds the mailbox empty.
HandlerFault ==
  /\ irq /\ ~fault
  /\ per_cluster_data \in live => drv[per_cluster_data].task_to_fc = NULL

Fault ==
  /\ MasterFault \/ HandlerFault \/ \E p \in Thread : ThreadFault(p)
  /\ fault' = TRUE
  /\ UNCHANGED <<fc, list, live, per_cluster_data, master, event, irq, ran>>

(***************************************************************************)
(* Specification                                                           *)
(***************************************************************************)

\* What a thread does once it is in the driver.
ThreadStep(p) ==
  \/ OpenAlloc(p) \/ OpenFails(p) \/ OpenSetup(p) \/ OpenLock(p) \/ OpenStart(p)
  \/ CloseLock(p) \/ CloseCount(p) \/ CloseRead(p)
  \/ CloseFree(p) \/ CloseClear(p)
  \/ SendLock(p) \/ SendFails(p) \/ SendStacks(p)
  \/ PushLock(p) \/ Push(p) \/ Wake(p) \/ WaitOn(p)
  \/ FreeLock(p) \/ FreeLook(p)

MasterStep ==
  \/ MasterReady \/ MasterLoop \/ MasterSleep \/ MasterRun \/ MasterFinish
  \/ MasterPop \/ MasterFree \/ MasterMail \/ MasterMailFull \/ MasterMailWait

Next ==
  \/ \E p \in Thread :
       \/ OpenRead(p) \/ CloseEnter(p) \/ FreeEnter(p)
       \/ \E created \in BOOLEAN : SendEnter(p, created)
       \/ ThreadStep(p)
  \/ MasterStep
  \/ Handler
  \/ Fault

Spec == Init /\ [][Next]_vars

\* The master core runs; the interrupt is taken; the preemptive scheduler
\* returns to every ready task, and a task spinning on the lock, or waiting for
\* a mutex, gets it some time (strong fairness).
Fairness ==
  /\ WF_vars(MasterStep) /\ SF_vars(MasterFinish)
  /\ WF_vars(Handler)
  /\ \A p \in Thread : SF_vars(ThreadStep(p))

FairSpec == Spec /\ Fairness

(***************************************************************************)
(* Properties                                                              *)
(***************************************************************************)

\* The driver never uses freed driver data, a mutex it has not made, a null
\* __per_cluster_data[0] or an empty mailbox, on either side.
NoWrongAccess == ~fault

\* From task_first along the next links the master core finds the tasks accepted
\* and not finished, in the order they were accepted, and task_last is set as
\* long as there are any (pi_push_cluster_task, cl_pop_cluster_task).
QueueLinked ==
  per_cluster_data \in live =>
    LET d == drv[per_cluster_data] IN
      /\ Represents(sent, d.task_first, IF sent = <<>> THEN NULL ELSE sent[Len(sent)],
                    next, NULL)
      /\ d.task_last = NULL <=> sent = <<>>

\* When pi_cluster_open has returned and until the device is closed, it is the
\* one the cluster serves, it is on, and its mutexes work.
OpenedReady ==
  \A p \in opened : /\ device[p] = per_cluster_data
                    /\ Sound(device[p])
                    /\ Data(p).cluster_is_on >= Cardinality(opened)

\* A sender is notified only after its task has run and has left the list and
\* its stacks are back in the heap, so it may reuse the task and the memory at
\* once, although the notification crosses a mailbox and an interrupt.
DoneMeansFinished ==
  \A p \in Thread :
    task[p].done => p \in ran /\ p \notin stacks /\ p \notin Elements(sent)

\* The mailbox is not overwritten before the interrupt handler has emptied it.
MailboxKept ==
  [][\A b \in live \cap live' :
       drv[b].task_to_fc # NULL => drv'[b].task_to_fc \in {NULL, drv[b].task_to_fc}]_vars

\* pi_cluster_wait_free returns at an instant at which no task is executing or
\* waiting to be executed.
WaitFreeWaits ==
  [][\A p \in Thread :
       pc[p] = "polling" /\ pc'[p] \in {"idle", "sent"}
         => master.pc # "run" /\ sent = <<>>]_vars

\* Every task that is sent is reported to its sender, and the blocking call
\* returns (pi_cluster_send_task_to_cl, cl_master_loop).
SendReturns ==
  \A p \in Thread : /\ task[p].destroy ~> task[p].done
                    /\ pc[p] = "wait" ~> pc[p] = "idle"

\* Once every device is closed and every thread out of the driver, the driver
\* data is freed and forgotten.
AllFreed ==
  opened = {} /\ (\A p \in Thread : pc[p] = "idle") => live = {} /\ per_cluster_data = NULL

=============================================================================
