--------------------------- MODULE ClusterProofs ---------------------------
(***************************************************************************)
(* As long as one thread keeps the cluster open, any number of others may  *)
(* open it, close it, send tasks to it and wait for it in any order: the    *)
(* driver data stays allocated and served, and neither the threads, nor    *)
(* the master core, nor the interrupt handler make a wrong access.  The    *)
(* threads need not send in batches here.  And if no two threads open or   *)
(* close at the same time, the last close gives everything back.           *)
(***************************************************************************)
EXTENDS ClusterRefinement, TaskFifoProofs, FiniteSetTheorems

\* Thread k has the cluster open at the start and never closes it.
KeptOpen(k) == k \in Opened /\ "close" \notin Role[k]

\* Where a thread uses device->data.
Inside ==
  {"start", "power", "stop", "count", "stopped", "send", "check", "push", "pushing",
   "wake", "wait", "sent", "poll", "polling"}

\* The threads that cluster_is_on counts.
Users == opened \cup {p \in Thread : pc[p] \in {"stop", "count"}}

\* The driver data.
Cl == drv[per_cluster_data]

\* One block is allocated, and it is the one every user has.
Served ==
  /\ per_cluster_data \in Block /\ live = {per_cluster_data} /\ Cl.ready
  /\ \A p \in Thread :
       /\ pc[p] \in Inside \cup {"idle"}
       /\ pc[p] \in Inside \/ p \in opened => device[p] = per_cluster_data

\* cluster_is_on is the number of users.
Counted ==
  /\ Cl.cluster_is_on = Cardinality(Users)
  /\ \A p \in Thread :
       pc[p] \in {"start", "power", "stop", "count", "stopped"} => p \notin opened

\* The interrupt is pending exactly while the mailbox is full.
Notified == irq <=> Cl.task_to_fc # NULL

\* The master core has the address of the driver data, and the task it works on
\* is the first of the list until it has popped it.
Attended ==
  /\ Cl.task_first = NULL <=> Cl.task_last = NULL
  /\ master.pc # "off"
  /\ master.pc # "ready" => master.s5 = per_cluster_data
  /\ master.pc \in {"run", "finish", "pop"} =>
       Cl.task_first # NULL /\ master.s6 = Cl.task_first
  /\ master.pc \in {"pop", "mail", "full"} => master.data = per_cluster_data
  /\ master.pc \in {"free", "mail", "full"} => master.s6 \in Thread

KInv(k) ==
  /\ TypeOK /\ ~fault
  /\ Served /\ Counted /\ Notified /\ Attended
  /\ KeptOpen(k) /\ k \in opened

(***************************************************************************)
(* Initial state                                                           *)
(***************************************************************************)

LEMMA InitKInv ==
  ASSUME NEW k \in Thread, KeptOpen(k), Init
  PROVE  KInv(k)
<1>1. /\ Opened # {} /\ IsFiniteSet(Opened) /\ Opened \subseteq Thread
      /\ Cardinality(Opened) \in 0..Cardinality(Thread)
      /\ Cardinality(Thread) \in Nat
  BY OpenedAssumption, FS_Subset, FS_CardinalityType DEF KeptOpen
<1>2. per_cluster_data \in Block /\ live = {per_cluster_data}
  BY <1>1, BlockAssumption DEF Init
<1>3. /\ Cl = [DriverZero EXCEPT !.ready = TRUE, !.cluster_is_on = Cardinality(Opened)]
      /\ \A b \in Block : drv[b] \in Driver
  <2> DEFINE d == [DriverZero EXCEPT !.ready = TRUE, !.cluster_is_on = Cardinality(Opened)]
  <2>1. DriverZero \in Driver /\ d \in Driver
    <3> DEFINE N == Cardinality(Thread)
               M == Cardinality(Opened)
    <3>1. N \in Nat /\ M \in 0..N /\ 0 \in 0..N
      BY <1>1
    <3> HIDE DEF N, M
    <3>2. DriverZero \in Driver
      BY <3>1 DEF Driver, DriverZero, N
    <3>3. d \in Driver
      BY <3>1, <3>2 DEF Driver, N, M
    <3> QED
      BY <3>2, <3>3
  <2>2. \A b \in Block : drv[b] = IF b = per_cluster_data THEN d ELSE DriverZero
    BY DEF Init
  <2> QED
    BY <1>2, <2>1, <2>2 DEF Cl
<1>4. TypeOK
  <2>1. drv \in [Block -> Driver]
    BY <1>3 DEF Init
  <2>2. task \in [Thread -> PiTaskT]
    BY DEF Init, PiTaskT, PiTaskZero, TaskId
  <2>3. sent \in Seq(Thread)
    BY EmptySeq DEF Init
  <2> QED
    BY <1>1, <1>2, <2>1, <2>2, <2>3 DEF Init, TypeOK, Pc, MasterPc
<1>5. Served
  BY <1>1, <1>2, <1>3 DEF Init, Served, Inside, DriverZero
<1>6. Counted
  <2>1. Users = Opened
    BY DEF Init, Users
  <2> QED
    BY <1>3, <2>1 DEF Init, Counted, DriverZero
<1>7. Notified /\ Attended
  BY <1>1, <1>3 DEF Init, Notified, Attended, DriverZero
<1> QED
  BY <1>1, <1>4, <1>5, <1>6, <1>7 DEF KInv, Init, KeptOpen

(***************************************************************************)
(* Frames                                                                  *)
(***************************************************************************)

\* The block of a thread in the driver, and what updating it does.
LEMMA Serving ==
  ASSUME NEW k \in Thread, KInv(k), NEW p \in Thread,
         pc[p] \in Inside \/ p \in opened
  PROVE  /\ device[p] = per_cluster_data /\ Data(p) = Cl
         /\ per_cluster_data \in Block /\ Cl \in Driver /\ Sound(per_cluster_data)
BY DEF KInv, Served, Data, Cl, Sound, TypeOK

LEMMA Updating ==
  ASSUME TypeOK, per_cluster_data \in Block, UNCHANGED per_cluster_data,
         NEW d \in Driver, Set(per_cluster_data, d)
  PROVE  drv' \in [Block -> Driver] /\ Cl' = d
BY DEF TypeOK, Set, Cl

\* The locks and counters of the driver data.
LEMMA DriverFields ==
  ASSUME NEW d \in Driver, NEW t \in Thread \cup {NULL}
  PROVE  /\ [d EXCEPT !.task_mutex = t] \in Driver
         /\ [d EXCEPT !.powerstate_mutex = t] \in Driver
         /\ [d EXCEPT !.fifo_access = t] \in Driver
         /\ [d EXCEPT !.fifo_access = MASTER] \in Driver
         /\ [d EXCEPT !.task_to_fc = t] \in Driver
         /\ \A n \in 0..Cardinality(Thread) : [d EXCEPT !.cluster_is_on = n] \in Driver
         /\ d.ready \in BOOLEAN
         /\ d.task_first \in Thread \cup {NULL} /\ d.task_last \in Thread \cup {NULL}
BY DEF Driver

\* What the driver data has in common before and after a step that only takes or
\* releases locks.
SameService(d, e) ==
  /\ e.ready = d.ready /\ e.cluster_is_on = d.cluster_is_on
  /\ e.task_to_fc = d.task_to_fc
  /\ e.task_first = d.task_first /\ e.task_last = d.task_last

\* Where a thread is on its way in or out of the cluster.
Cycle == {"start", "power", "stop", "count", "stopped"}

\* A thread that sends or waits, and changes nothing of the service.
LEMMA QuietStep ==
  ASSUME NEW k \in Thread, KInv(k), TypeOK',
         NEW p \in Thread, NEW l \in (Inside \cup {"idle"}) \ Cycle,
         pc[p] \in Inside \/ p \in opened, pc[p] \notin Cycle,
         Goto(p, l), SameService(Cl, Cl'),
         UNCHANGED <<device, opened, live, per_cluster_data, master, irq, fault>>
  PROVE  KInv(k)'
<1>1. /\ pc' \in [Thread -> Pc] /\ pc'[p] = l
      /\ \A q \in Thread \ {p} : pc'[q] = pc[q]
  BY DEF KInv, TypeOK, Goto
<1>2. Served'
  BY <1>1 DEF KInv, Served, SameService
<1>3. Counted'
  <2>1. Users' = Users
    BY <1>1 DEF Users, Cycle
  <2> QED
    BY <1>1, <2>1 DEF KInv, Counted, SameService, Cycle
<1>4. Notified' /\ Attended'
  BY DEF KInv, Notified, Attended, SameService
<1> QED
  BY <1>2, <1>3, <1>4 DEF KInv, KeptOpen

(***************************************************************************)
(* Threads that send and wait                                              *)
(***************************************************************************)

LEMMA TaskTypes ==
  ASSUME NEW t \in PiTaskT
  PROVE  /\ PiTaskRelease(t) \in PiTaskT
         /\ PiTaskDestroy(t) \in PiTaskT
         /\ PiTaskZero \in PiTaskT
         /\ \A b \in BOOLEAN : PiTaskBlock(b) \in PiTaskT
BY DEF PiTaskT, TaskId, PiTaskRelease, PiTaskDestroy, PiTaskZero, PiTaskBlock

LEMMA SendEnterKInv ==
  ASSUME NEW k \in Thread, KInv(k), NEW p \in Thread, NEW created \in BOOLEAN,
         SendEnter(p, created)
  PROVE  KInv(k)'
<1> USE DEF SendEnter, At, list
<1>1. TypeOK'
  <2>1. task' \in [Thread -> PiTaskT] /\ pc' \in [Thread -> Pc]
    BY TaskTypes DEF KInv, TypeOK, Goto, Pc
  <2> QED
    BY <2>1 DEF KInv, TypeOK
<1>2. SameService(Cl, Cl')
  BY DEF SameService, Cl
<1> QED
  BY <1>1, <1>2, QuietStep DEF Inside, Cycle

\* The steps that only take or release a lock of the driver data.
LEMMA LockKInv ==
  ASSUME NEW k \in Thread, KInv(k), NEW p \in Thread,
         SendLock(p) \/ PushLock(p) \/ FreeLock(p) \/ FreeLook(p) \/ Wake(p)
  PROVE  KInv(k)'
<1> USE DEF SendLock, PushLock, FreeLock, FreeLook, Wake, At
<1>1. PICK l \in (Inside \cup {"idle"}) \ Cycle : Goto(p, l)
  BY DEF Inside, Cycle
<1>2. pc[p] \in Inside /\ pc[p] \notin Cycle
  BY DEF Inside, Cycle
<1>3. PICK d \in Driver : Set(per_cluster_data, d) /\ SameService(Cl, d)
  <2>1. /\ device[p] = per_cluster_data /\ Data(p) = Cl /\ Cl \in Driver
    BY <1>2, Serving
  <2>2. \E d \in Driver :
          /\ Set(per_cluster_data, d)
          /\ \/ d \in {[Cl EXCEPT !.task_mutex = p], [Cl EXCEPT !.task_mutex = NULL]}
             \/ d \in {[Cl EXCEPT !.fifo_access = p], [Cl EXCEPT !.fifo_access = NULL]}
    <3>1. /\ [Cl EXCEPT !.task_mutex = p] \in Driver
          /\ [Cl EXCEPT !.task_mutex = NULL] \in Driver
          /\ [Cl EXCEPT !.fifo_access = p] \in Driver
          /\ [Cl EXCEPT !.fifo_access = NULL] \in Driver
      BY <2>1, DriverFields
    <3> QED
      BY <2>1, <3>1
  <2> QED
    BY <2>1, <2>2 DEF SameService, Driver
<1>4. UNCHANGED <<device, opened, live, per_cluster_data, master, irq, fault>>
  OBVIOUS
<1>5. drv' \in [Block -> Driver] /\ SameService(Cl, Cl')
  BY <1>3, <1>4, Updating DEF KInv, Served
<1>6. TypeOK'
  <2>1. pc' \in [Thread -> Pc]
    BY <1>1 DEF KInv, TypeOK, Goto, Pc, Inside
  <2>2. UNCHANGED <<local, task, stacks, next, sent, ran, batch, orphans>> /\ event' \in BOOLEAN
    BY DEF WakeEvent, KInv, TypeOK
  <2> HIDE DEF SendLock, PushLock, FreeLock, FreeLook, Wake
  <2> QED
    BY <1>4, <1>5, <2>1, <2>2 DEF KInv, TypeOK
<1> HIDE DEF SendLock, PushLock, FreeLock, FreeLook, Wake
<1> QED
  BY <1>1, <1>2, <1>4, <1>5, <1>6, QuietStep

LEMMA SendFailsKInv ==
  ASSUME NEW k \in Thread, KInv(k), NEW p \in Thread, SendFails(p)
  PROVE  KInv(k)'
<1> USE DEF SendFails, At
<1>1. /\ device[p] = per_cluster_data /\ Data(p) = Cl /\ Cl \in Driver
      /\ per_cluster_data \in Block
  BY Serving DEF Inside
<1>2. [Cl EXCEPT !.task_mutex = NULL] \in Driver
  BY <1>1, DriverFields
<1>3. drv' \in [Block -> Driver] /\ SameService(Cl, Cl')
  <2>1. drv' \in [Block -> Driver] /\ Cl' = [Cl EXCEPT !.task_mutex = NULL]
    BY <1>1, <1>2, Updating DEF KInv
  <2> QED
    BY <1>1, <2>1 DEF SameService, Driver
<1>4. PICK l \in {"send", "idle"} : Goto(p, l)
  OBVIOUS
<1>5. TypeOK'
  <2>1. pc' \in [Thread -> Pc]
    BY <1>4 DEF KInv, TypeOK, Goto, Pc
  <2>2. task' \in [Thread -> PiTaskT] /\ orphans' \subseteq Thread
    <3>1. task' = task \/ task' = [task EXCEPT ![p] = PiTaskZero]
      OBVIOUS
    <3>2. orphans' = orphans \/ orphans' = orphans \cup {p}
      OBVIOUS
    <3>3. PiTaskZero \in PiTaskT
      BY DEF PiTaskZero, PiTaskT, TaskId
    <3> HIDE DEF SendFails
    <3> QED
      BY <3>1, <3>2, <3>3 DEF KInv, TypeOK
  <2>3. UNCHANGED <<device, opened, local, stacks, batch, next, sent, live,
                    per_cluster_data, master, event, irq, ran, fault>>
    OBVIOUS
  <2> HIDE DEF SendFails
  <2> QED
    BY <1>3, <2>1, <2>2, <2>3 DEF KInv, TypeOK
<1> QED
  BY <1>3, <1>4, <1>5, QuietStep DEF Inside, Cycle

LEMMA LocalKInv ==
  ASSUME NEW k \in Thread, KInv(k), NEW p \in Thread,
         SendStacks(p) \/ WaitOn(p) \/ FreeEnter(p)
  PROVE  KInv(k)'
<1> USE DEF SendStacks, WaitOn, FreeEnter, At, list
<1>1. PICK l \in (Inside \cup {"idle"}) \ Cycle : Goto(p, l)
  BY DEF Inside, Cycle
<1>2. (pc[p] \in Inside \/ p \in opened) /\ pc[p] \notin Cycle
  BY DEF Inside, Cycle
<1>3. TypeOK'
  <2>1. pc' \in [Thread -> Pc]
    BY <1>1 DEF KInv, TypeOK, Goto, Pc, Inside
  <2>2. task' \in [Thread -> PiTaskT]
    BY TaskTypes DEF KInv, TypeOK
  <2>3. stacks' \subseteq Thread
    BY DEF KInv, TypeOK
  <2>4. UNCHANGED <<device, opened, local, batch, orphans, list, live,
                    per_cluster_data, master, event, irq, ran, fault>>
    OBVIOUS
  <2> HIDE DEF SendStacks, WaitOn, FreeEnter
  <2> QED
    BY <2>1, <2>2, <2>3, <2>4 DEF KInv, TypeOK
<1>4. SameService(Cl, Cl')
  BY DEF SameService, Cl
<1> QED
  BY <1>1, <1>2, <1>3, <1>4, QuietStep

\* What a push does to the driver data.
LEMMA PushList ==
  ASSUME NEW k \in Thread, KInv(k), NEW p \in Thread, Push(p)
  PROVE  /\ drv' \in [Block -> Driver]
         /\ Cl'.ready = Cl.ready /\ Cl'.cluster_is_on = Cl.cluster_is_on
         /\ Cl'.task_to_fc = Cl.task_to_fc
         /\ IF Cl.task_last = NULL
              THEN Cl'.task_first = p /\ Cl'.task_last = p
              ELSE Cl'.task_first = Cl.task_first /\ Cl'.task_last = Cl.task_last
<1> USE DEF Push, At
<1>1. /\ device[p] = per_cluster_data /\ Data(p) = Cl /\ Cl \in Driver
      /\ per_cluster_data \in Block
  BY Serving DEF Inside
<1>2. CASE Cl.task_last = NULL
  <2> DEFINE d == [Cl EXCEPT !.task_first = p, !.task_last = p, !.fifo_access = NULL]
  <2>1. d \in Driver /\ Set(per_cluster_data, d)
    BY <1>1, <1>2 DEF Driver
  <2>2. drv' \in [Block -> Driver] /\ Cl' = d
    BY <1>1, <2>1, Updating DEF KInv
  <2> QED
    BY <1>1, <1>2, <2>2 DEF Driver
<1>3. CASE Cl.task_last # NULL
  <2> DEFINE d == [Cl EXCEPT !.fifo_access = NULL]
  <2>1. d \in Driver /\ Set(per_cluster_data, d)
    BY <1>1, <1>3, DriverFields
  <2>2. drv' \in [Block -> Driver] /\ Cl' = d
    BY <1>1, <2>1, Updating DEF KInv
  <2> QED
    BY <1>1, <1>3, <2>2 DEF Driver
<1> QED
  BY <1>2, <1>3

\* A push leaves the first task alone, or finds the list empty, and then the
\* master core is not working on one.
LEMMA PushKInv ==
  ASSUME NEW k \in Thread, KInv(k), NEW p \in Thread, Push(p)
  PROVE  KInv(k)'
<1> USE DEF Push, At
<1>1. /\ device[p] = per_cluster_data /\ Data(p) = Cl /\ Cl \in Driver
      /\ per_cluster_data \in Block
  BY Serving DEF Inside
<1>2. /\ drv' \in [Block -> Driver]
      /\ Cl'.ready = Cl.ready /\ Cl'.cluster_is_on = Cl.cluster_is_on
      /\ Cl'.task_to_fc = Cl.task_to_fc
      /\ IF Cl.task_last = NULL
           THEN Cl'.task_first = p /\ Cl'.task_last = p
           ELSE Cl'.task_first = Cl.task_first /\ Cl'.task_last = Cl.task_last
  BY PushList
<1>3. /\ pc' \in [Thread -> Pc] /\ pc'[p] = "wake"
      /\ \A q \in Thread \ {p} : pc'[q] = pc[q]
  BY DEF KInv, TypeOK, Goto, Pc
<1>4. TypeOK'
  <2>1. Cl.task_last \in Thread \cup {NULL}
    BY <1>1 DEF Driver
  <2>2. next' \in [Thread -> Thread \cup {NULL}]
    BY <1>1, <2>1 DEF KInv, TypeOK
  <2>3. sent' \in Seq(Thread)
    BY AppendProperties DEF KInv, TypeOK
  <2>4. UNCHANGED <<device, opened, local, task, stacks, batch, orphans, live,
                    per_cluster_data, master, event, irq, ran, fault>>
    OBVIOUS
  <2> HIDE DEF Push
  <2> QED
    BY <1>2, <1>3, <2>2, <2>3, <2>4 DEF KInv, TypeOK
<1>5. Served'
  BY <1>2, <1>3 DEF KInv, Served, Inside
<1>6. Counted'
  <2>1. Users' = Users
    BY <1>3 DEF Users
  <2> QED
    BY <1>2, <1>3, <2>1 DEF KInv, Counted
<1>7. Notified'
  BY <1>2 DEF KInv, Notified
<1>8. Attended'
  BY <1>2, NamesAssumption DEF KInv, Attended
<1> QED
  BY <1>4, <1>5, <1>6, <1>7, <1>8 DEF KInv, KeptOpen

(***************************************************************************)
(* Threads that open and close                                             *)
(***************************************************************************)

\* The keeper is counted, so the count never says that nobody is left.
LEMMA UsersCount ==
  ASSUME NEW k \in Thread, KInv(k)
  PROVE  /\ IsFiniteSet(Users) /\ Users \subseteq Thread
         /\ Cardinality(Users) \in Nat /\ Cardinality(Users) # 0
         /\ Cardinality(Thread) \in Nat
         /\ \A p \in Thread \ Users :
              /\ Cardinality(Users \cup {p}) = Cardinality(Users) + 1
              /\ Cardinality(Users \cup {p}) \in 0..Cardinality(Thread)
         /\ \A p \in Users : /\ Cardinality(Users \ {p}) = Cardinality(Users) - 1
                             /\ Cardinality(Users \ {p}) \in 0..Cardinality(Thread)
<1>1. Users \subseteq Thread /\ k \in Users /\ IsFiniteSet(Thread)
  BY OpenedAssumption DEF KInv, TypeOK, Users
<1>2. IsFiniteSet(Users)
  BY <1>1, FS_Subset
<1>3. /\ Cardinality(Users) \in Nat /\ Cardinality(Users) # 0
      /\ Cardinality(Thread) \in Nat
  BY <1>1, <1>2, FS_CardinalityType, FS_EmptySet
<1>4. \A p \in Thread \ Users :
        /\ Cardinality(Users \cup {p}) = Cardinality(Users) + 1
        /\ Cardinality(Users \cup {p}) \in 0..Cardinality(Thread)
  <2> TAKE p \in Thread \ Users
  <2>1. Cardinality(Users \cup {p}) = Cardinality(Users) + 1
    BY <1>2, FS_AddElement
  <2>2. Users \cup {p} \subseteq Thread
    BY <1>1
  <2>3. /\ Cardinality(Users \cup {p}) <= Cardinality(Thread)
        /\ IsFiniteSet(Users \cup {p})
    BY <1>1, <2>2, FS_Subset
  <2>4. Cardinality(Users \cup {p}) \in Nat
    BY <2>3, FS_CardinalityType
  <2> QED
    BY <1>3, <2>1, <2>3, <2>4
<1>5. \A p \in Users : /\ Cardinality(Users \ {p}) = Cardinality(Users) - 1
                       /\ Cardinality(Users \ {p}) \in 0..Cardinality(Thread)
  <2> TAKE p \in Users
  <2>1. /\ Cardinality(Users \ {p}) = Cardinality(Users) - 1
        /\ IsFiniteSet(Users \ {p})
    BY <1>2, FS_RemoveElement
  <2>2. Cardinality(Users \ {p}) <= Cardinality(Thread)
    BY <1>1, FS_Subset, Users \ {p} \subseteq Thread
  <2>3. Cardinality(Users \ {p}) \in Nat
    BY <2>1, FS_CardinalityType
  <2> QED
    BY <1>3, <2>1, <2>2, <2>3
<1> QED
  BY <1>1, <1>2, <1>3, <1>4, <1>5

\* The steps of opening and closing that change neither the driver data's service
\* nor whom it counts.
LEMMA CycleKInv ==
  ASSUME NEW k \in Thread, KInv(k), NEW p \in Thread,
         OpenRead(p) \/ OpenLock(p) \/ CloseEnter(p) \/ CloseLock(p) \/ CloseRead(p)
  PROVE  KInv(k)'
<1> USE DEF OpenRead, OpenLock, CloseEnter, CloseLock, CloseRead, At, list
<1>1. per_cluster_data \in Block /\ per_cluster_data # NULL /\ Cl \in Driver
  BY BlockAssumption DEF KInv, Served, TypeOK, Cl
<1>2. ~CloseRead(p) \/ Goto(p, "idle")
  <2>1. pc[p] = "stopped" => device[p] = per_cluster_data /\ Data(p) = Cl
    BY Serving DEF Inside
  <2>2. Cl.cluster_is_on # 0
    BY UsersCount DEF KInv, Counted
  <2> QED
    BY <2>1, <2>2 DEF LastUser
<1>3. PICK l \in {"idle", "start", "power", "stop", "count"} :
        /\ Goto(p, l)
        /\ \/ OpenRead(p) /\ l = "start"
           \/ OpenLock(p) /\ l = "power"
           \/ CloseEnter(p) /\ l = "stop"
           \/ CloseLock(p) /\ l = "count"
           \/ CloseRead(p) /\ l = "idle"
  BY <1>1, <1>2
<1>4. /\ pc' \in [Thread -> Pc] /\ pc'[p] = l
      /\ \A q \in Thread \ {p} : pc'[q] = pc[q]
  BY <1>3 DEF KInv, TypeOK, Goto, Pc
<1>5. drv' \in [Block -> Driver] /\ SameService(Cl, Cl')
  <2>1. CASE UNCHANGED drv
    BY <2>1 DEF SameService, Cl, KInv, TypeOK
  <2>2. CASE OpenLock(p) \/ CloseLock(p)
    <3>1. device[p] = per_cluster_data /\ Data(p) = Cl
      BY <2>2, Serving DEF Inside
    <3>2. [Cl EXCEPT !.powerstate_mutex = p] \in Driver
      BY <1>1, DriverFields
    <3>3. Set(per_cluster_data, [Cl EXCEPT !.powerstate_mutex = p])
      BY <2>2, <3>1
    <3>4. drv' \in [Block -> Driver] /\ Cl' = [Cl EXCEPT !.powerstate_mutex = p]
      BY <1>1, <2>2, <3>2, <3>3, Updating DEF KInv
    <3> QED
      BY <1>1, <3>4 DEF SameService, Driver
  <2> QED
    BY <2>1, <2>2
<1>6. /\ device' \in [Thread -> Block \cup {NULL}]
      /\ \A q \in Thread \ {p} : device'[q] = device[q]
      /\ OpenRead(p) => device'[p] = per_cluster_data
      /\ ~OpenRead(p) => device' = device
  BY <1>1 DEF KInv, TypeOK
<1>7. /\ opened' \subseteq Thread /\ k \in opened'
      /\ CloseEnter(p) => opened' = opened \ {p} /\ p \in opened
      /\ ~CloseEnter(p) => opened' = opened
  BY DEF KInv, KeptOpen, TypeOK
<1>8. UNCHANGED <<local, task, stacks, batch, orphans, next, sent, live,
                  per_cluster_data, master, event, irq, ran, fault>>
  OBVIOUS
<1>9. /\ OpenRead(p) => pc[p] = "idle" /\ p \notin opened
      /\ OpenLock(p) => pc[p] = "start"
      /\ CloseEnter(p) => pc[p] = "idle"
      /\ CloseLock(p) => pc[p] = "stop"
      /\ CloseRead(p) => pc[p] = "stopped"
  OBVIOUS
<1> HIDE DEF OpenRead, OpenLock, CloseEnter, CloseLock, CloseRead
<1>10. TypeOK'
  BY <1>4, <1>5, <1>6, <1>7, <1>8 DEF KInv, TypeOK
<1>11. Served'
  <2>1. pc'[p] \in Inside \cup {"idle"} /\ (pc'[p] \in Inside \/ p \in opened' =>
                                              device'[p] = per_cluster_data)
    BY <1>3, <1>4, <1>6, <1>7, <1>9 DEF KInv, Served, Inside
  <2>2. \A q \in Thread \ {p} :
          pc'[q] \in Inside \cup {"idle"} /\ (pc'[q] \in Inside \/ q \in opened' =>
                                                device'[q] = per_cluster_data)
    BY <1>4, <1>6, <1>7 DEF KInv, Served
  <2> QED
    BY <1>5, <1>8, <2>1, <2>2 DEF KInv, Served, SameService
<1>12. Counted'
  <2>1. Users' = Users
    <3>1. \A q \in Thread \ {p} : q \in Users' <=> q \in Users
      BY <1>4, <1>7 DEF Users
    <3>2. p \in Users' <=> p \in Users
      BY <1>3, <1>4, <1>7, <1>9 DEF Users
    <3> QED
      BY <1>7, <3>1, <3>2 DEF Users, KInv, TypeOK
  <2>2. \A q \in Thread : pc'[q] \in Cycle => q \notin opened'
    BY <1>3, <1>4, <1>7, <1>9 DEF KInv, Counted, Cycle
  <2> QED
    BY <1>5, <2>1, <2>2 DEF KInv, Counted, SameService, Cycle
<1>13. Notified' /\ Attended'
  BY <1>5, <1>8 DEF KInv, Notified, Attended, SameService
<1> QED
  BY <1>7, <1>8, <1>10, <1>11, <1>12, <1>13 DEF KInv, KeptOpen

\* A thread that is counted as it comes, or no longer as it goes.
LEMMA CountKInv ==
  ASSUME NEW k \in Thread, KInv(k), NEW p \in Thread, OpenStart(p) \/ CloseCount(p)
  PROVE  KInv(k)'
<1> USE DEF OpenStart, CloseCount, At
<1>1. /\ device[p] = per_cluster_data /\ Data(p) = Cl /\ Cl \in Driver
      /\ per_cluster_data \in Block
  BY Serving DEF Inside
<1>2. /\ Cl.cluster_is_on = Cardinality(Users) /\ Cl.cluster_is_on # 0
      /\ p \notin opened
  BY UsersCount DEF KInv, Counted
<1>3. /\ OpenStart(p) => pc[p] = "power"
      /\ CloseCount(p) => pc[p] = "count"
  OBVIOUS
<1>4. PICK l \in {"idle", "stopped"} :
        /\ Goto(p, l)
        /\ \/ OpenStart(p) /\ l = "idle" /\ opened' = opened \cup {p}
           \/ CloseCount(p) /\ l = "stopped" /\ opened' = opened
  OBVIOUS
<1>5. /\ pc' \in [Thread -> Pc] /\ pc'[p] = l
      /\ \A q \in Thread \ {p} : pc'[q] = pc[q]
  BY <1>4 DEF KInv, TypeOK, Goto, Pc
<1>6. Users' = IF OpenStart(p) THEN Users \cup {p} ELSE Users \ {p}
  <2>1. \A q \in Thread \ {p} : q \in Users' <=> q \in Users
    BY <1>4, <1>5 DEF Users
  <2>2. p \in Users' <=> OpenStart(p)
    BY <1>2, <1>3, <1>4, <1>5 DEF Users
  <2>3. Users \subseteq Thread /\ Users' \subseteq Thread
    BY <1>4 DEF Users, KInv, TypeOK
  <2> HIDE DEF OpenStart, CloseCount
  <2> QED
    BY <2>1, <2>2, <2>3
<1>7. /\ p \in Users <=> ~OpenStart(p)
      /\ Cardinality(Users') = IF OpenStart(p) THEN Cl.cluster_is_on + 1
                                               ELSE Cl.cluster_is_on - 1
      /\ Cardinality(Users') \in 0..Cardinality(Thread)
  <2>1. p \in Users <=> ~OpenStart(p)
    BY <1>2, <1>3, <1>4 DEF Users
  <2> HIDE DEF OpenStart, CloseCount
  <2> QED
    BY <1>2, <1>6, <2>1, UsersCount
<1> DEFINE n == Cardinality(Users')
           d == [Cl EXCEPT !.cluster_is_on = n, !.powerstate_mutex = NULL]
<1>8. Set(per_cluster_data, d) /\ UNCHANGED master
  <2>1. CASE OpenStart(p)
    BY <1>1, <1>2, <1>7, <2>1
  <2>2. CASE CloseCount(p)
    BY <1>1, <1>3, <1>4, <1>7, <2>2 DEF CountAfterClose
  <2> QED
    BY <2>1, <2>2
<1>9. UNCHANGED <<device, local, task, stacks, batch, orphans, next, sent, live,
                  per_cluster_data, event, irq, ran, fault>>
  OBVIOUS
<1>10. n \in 0..Cardinality(Thread)
  BY <1>7
<1> HIDE DEF OpenStart, CloseCount, n
<1>11. d \in Driver
  <2> DEFINE e == [Cl EXCEPT !.cluster_is_on = n]
  <2>1. e \in Driver
    BY <1>1, <1>10, DriverFields
  <2>2. [e EXCEPT !.powerstate_mutex = NULL] \in Driver
    BY <2>1, DriverFields
  <2>3. d = [e EXCEPT !.powerstate_mutex = NULL]
    OBVIOUS
  <2> QED
    BY <2>2, <2>3
<1>12. drv' \in [Block -> Driver] /\ Cl' = d
  BY <1>1, <1>8, <1>9, <1>11, Updating DEF KInv
<1>13. /\ Cl'.ready = Cl.ready /\ Cl'.cluster_is_on = n
       /\ Cl'.task_to_fc = Cl.task_to_fc
       /\ Cl'.task_first = Cl.task_first /\ Cl'.task_last = Cl.task_last
  BY <1>1, <1>12 DEF Driver
<1>14. TypeOK'
  BY <1>4, <1>5, <1>8, <1>9, <1>12 DEF KInv, TypeOK
<1>15. Served'
  BY <1>1, <1>4, <1>5, <1>9, <1>13 DEF KInv, Served, Inside
<1>16. Counted'
  <2>1. \A q \in Thread : pc'[q] \in Cycle => q \notin opened'
    BY <1>2, <1>4, <1>5 DEF KInv, Counted, Cycle
  <2> QED
    BY <1>13, <2>1 DEF Counted, Cycle, n
<1>17. Notified' /\ Attended'
  BY <1>8, <1>9, <1>13 DEF KInv, Notified, Attended
<1> QED
  BY <1>4, <1>9, <1>14, <1>15, <1>16, <1>17 DEF KInv, KeptOpen

(***************************************************************************)
(* The master core and the interrupt handler                               *)
(***************************************************************************)

\* A step of the master core or the handler leaves the threads where they are.
LEMMA ParallelStep ==
  ASSUME NEW k \in Thread, KInv(k), TypeOK',
         Cl'.ready = Cl.ready, Cl'.cluster_is_on = Cl.cluster_is_on,
         UNCHANGED <<pc, device, opened, live, per_cluster_data, fault>>
  PROVE  Served' /\ Counted' /\ ~fault' /\ KeptOpen(k)' /\ (k \in opened)'
<1>1. Users' = Users
  BY DEF Users
<1> QED
  BY <1>1 DEF KInv, Served, Counted, KeptOpen

\* The steps of the master core that leave the driver data alone.
LEMMA MasterLocalKInv ==
  ASSUME NEW k \in Thread, KInv(k),
         \/ MasterReady \/ MasterLoop \/ MasterSleep \/ MasterRun \/ MasterFree
         \/ MasterMailFull \/ MasterMailWait
  PROVE  KInv(k)'
<1> USE DEF MasterReady, MasterLoop, MasterSleep, MasterRun, MasterFree,
            MasterMailFull, MasterMailWait, MasterAt, MasterGoto, fc, list
<1>1. /\ per_cluster_data \in Block /\ per_cluster_data # NULL /\ Cl \in Driver
      /\ live = {per_cluster_data}
  BY BlockAssumption DEF KInv, Served, TypeOK, Cl
<1>2. Cl.task_first \in Thread \cup {NULL}
  BY <1>1 DEF Driver
<1>3. UNCHANGED <<pc, device, opened, local, task, batch, orphans, list, live,
                  per_cluster_data, irq, fault>>
  OBVIOUS
<1>4. Cl' = Cl
  BY <1>3 DEF Cl, list
<1>5. Attended' /\ master' \in [pc : MasterPc, s5 : Block \cup {NULL},
                                s6 : Thread \cup {NULL}, data : Block \cup {NULL}]
  <2>1. master \in [pc : MasterPc, s5 : Block \cup {NULL},
                    s6 : Thread \cup {NULL}, data : Block \cup {NULL}]
    BY DEF KInv, TypeOK
  <2>2. CASE MasterReady
    BY <1>1, <1>3, <1>4, <2>1, <2>2 DEF KInv, Attended, MasterPc
  <2>3. CASE MasterLoop
    <3>1. drv[master.s5] = Cl
      BY <1>1, <2>3 DEF Cl
    <3> QED
      BY <1>1, <1>2, <1>3, <1>4, <2>1, <2>3, <3>1 DEF KInv, Attended, MasterPc
  <2>4. CASE MasterSleep
    BY <1>1, <1>3, <1>4, <2>1, <2>4 DEF KInv, Attended, MasterPc
  <2>5. CASE MasterRun
    BY <1>1, <1>3, <1>4, <2>1, <2>5 DEF KInv, Attended, MasterPc
  <2>6. CASE MasterFree
    BY <1>1, <1>3, <1>4, <2>1, <2>6 DEF KInv, Attended, MasterPc
  <2>7. CASE MasterMailFull \/ MasterMailWait
    BY <1>1, <1>3, <1>4, <2>1, <2>7 DEF KInv, Attended, MasterPc
  <2> QED
    BY <2>2, <2>3, <2>4, <2>5, <2>6, <2>7
<1>6. event' \in BOOLEAN /\ stacks' \subseteq Thread
  BY DEF KInv, TypeOK, StacksAfterFree
<1>7. ran' \subseteq Thread
  <2>1. master.pc = "run" => master.s6 \in Thread
    BY <1>2 DEF KInv, Attended
  <2> QED
    BY <2>1 DEF KInv, TypeOK
<1> HIDE DEF MasterReady, MasterLoop, MasterSleep, MasterRun, MasterFree, MasterMailFull,
       MasterMailWait
<1>8. TypeOK'
  BY <1>3, <1>5, <1>6, <1>7 DEF KInv, TypeOK
<1>9. Notified'
  BY <1>3, <1>4 DEF KInv, Notified
<1> QED
  BY <1>3, <1>4, <1>5, <1>8, <1>9, ParallelStep DEF KInv

LEMMA MasterFinishKInv ==
  ASSUME NEW k \in Thread, KInv(k), MasterFinish
  PROVE  KInv(k)'
<1> USE DEF MasterFinish, MasterAt, fc
<1>1. per_cluster_data \in Block /\ Cl \in Driver /\ Cl = drv[per_cluster_data]
  BY DEF KInv, Served, TypeOK, Cl
<1> DEFINE d == [Cl EXCEPT !.fifo_access = MASTER]
<1>2. d \in Driver /\ Set(per_cluster_data, d)
  BY <1>1, DriverFields
<1>3. drv' \in [Block -> Driver] /\ SameService(Cl, Cl')
  <2>1. drv' \in [Block -> Driver] /\ Cl' = d
    BY <1>1, <1>2, Updating DEF KInv
  <2> QED
    BY <1>1, <2>1 DEF SameService, Driver
<1>4. /\ master' \in [pc : MasterPc, s5 : Block \cup {NULL},
                      s6 : Thread \cup {NULL}, data : Block \cup {NULL}]
      /\ Attended'
  <2>1. Cl.task_first \in Thread /\ master' = [master EXCEPT !.pc = "pop",
                           !.data = per_cluster_data, !.s6 = Cl.task_first]
    BY <1>1 DEF Driver
  <2> QED
    BY <1>1, <1>3, <2>1, NamesAssumption DEF KInv, TypeOK, Attended, SameService, MasterPc
<1>5. UNCHANGED <<fc, next, sent, live, per_cluster_data, event, irq, ran, fault>>
  OBVIOUS
<1> HIDE DEF MasterFinish
<1>6. TypeOK'
  BY <1>3, <1>4, <1>5 DEF KInv, TypeOK
<1>7. Notified'
  BY <1>3, <1>5 DEF KInv, Notified, SameService
<1> QED
  BY <1>3, <1>4, <1>5, <1>6, <1>7, ParallelStep DEF KInv, SameService

\* What a pop does to the driver data and the registers.
LEMMA PopList ==
  ASSUME NEW k \in Thread, KInv(k), MasterPop
  PROVE  LET n == next[master.s6] IN
         /\ master.s6 = Cl.task_first /\ master.s6 \in Thread
         /\ n \in Thread \cup {NULL} /\ Cl.task_last \in Thread
         /\ drv' \in [Block -> Driver]
         /\ Cl'.ready = Cl.ready /\ Cl'.cluster_is_on = Cl.cluster_is_on
         /\ Cl'.task_to_fc = Cl.task_to_fc
         /\ Cl'.task_first = n
         /\ Cl'.task_last = LastAfterPop(Cl.task_last, n)
         /\ master.pc = "pop" /\ master' = [master EXCEPT !.pc = "free"]
<1> USE DEF MasterPop, MasterAt, MasterGoto
<1>1. /\ per_cluster_data \in Block /\ Cl \in Driver /\ master.data = per_cluster_data
      /\ Cl = drv[per_cluster_data]
  BY DEF KInv, Served, TypeOK, Cl, Attended
<1>2. /\ master.s6 \in Thread /\ master.s6 = Cl.task_first
      /\ Cl.task_last \in Thread
      /\ next[master.s6] \in Thread \cup {NULL}
  BY <1>1 DEF KInv, Attended, Driver, TypeOK
<1> DEFINE n == next[master.s6]
           l == LastAfterPop(Cl.task_last, n)
           d == [Cl EXCEPT !.task_first = n, !.task_last = l, !.fifo_access = NULL]
<1>3. l \in Thread \cup {NULL}
  BY <1>2 DEF LastAfterPop
<1>4. d \in Driver /\ Set(per_cluster_data, d)
  <2>1. Set(per_cluster_data, d)
    BY <1>1
  <2> HIDE DEF MasterPop, l
  <2> QED
    BY <1>1, <1>2, <1>3, <2>1 DEF Driver
<1>5. /\ drv' \in [Block -> Driver]
      /\ Cl'.ready = Cl.ready /\ Cl'.cluster_is_on = Cl.cluster_is_on
      /\ Cl'.task_to_fc = Cl.task_to_fc
      /\ Cl'.task_first = n /\ Cl'.task_last = l
  <2>1. drv' \in [Block -> Driver] /\ Cl' = d
    BY <1>1, <1>4, Updating DEF KInv
  <2> HIDE DEF MasterPop, n, l
  <2> QED
    BY <1>1, <2>1 DEF Driver
<1>6. master.pc = "pop" /\ master' = [master EXCEPT !.pc = "free"]
  OBVIOUS
<1> HIDE DEF MasterPop, l
<1> QED
  BY <1>2, <1>5, <1>6 DEF l

LEMMA MasterPopKInv ==
  ASSUME NEW k \in Thread, KInv(k), MasterPop
  PROVE  KInv(k)'
<1> USE DEF MasterPop, fc
<1> DEFINE n == next[master.s6]
           l == LastAfterPop(Cl.task_last, n)
<1>1. l \in Thread \cup {NULL} /\ (n = NULL <=> l = NULL)
  BY PopList, NamesAssumption DEF LastAfterPop
<1>2. /\ master.s6 \in Thread /\ Cl.task_first # NULL
      /\ drv' \in [Block -> Driver]
      /\ Cl'.ready = Cl.ready /\ Cl'.cluster_is_on = Cl.cluster_is_on
      /\ Cl'.task_to_fc = Cl.task_to_fc
      /\ Cl'.task_first = n /\ Cl'.task_last = l
      /\ master.pc = "pop" /\ master' = [master EXCEPT !.pc = "free"]
  BY PopList, NamesAssumption
<1>3. /\ master' \in [pc : MasterPc, s5 : Block \cup {NULL},
                      s6 : Thread \cup {NULL}, data : Block \cup {NULL}]
      /\ master'.pc = "free" /\ master'.s5 = master.s5 /\ master'.s6 = master.s6
  BY <1>2 DEF KInv, TypeOK, MasterPc
<1>4. UNCHANGED <<fc, next, live, per_cluster_data, event, irq, ran, fault>>
  OBVIOUS
<1>5. sent' \in Seq(Thread)
  <2>1. sent # <<>> => Tail(sent) \in Seq(Thread)
    BY DEF KInv, TypeOK
  <2> QED
    BY <2>1 DEF Tail1, KInv, TypeOK
<1> HIDE DEF MasterPop, l, n
<1>6. TypeOK'
  BY <1>2, <1>3, <1>4, <1>5 DEF KInv, TypeOK
<1>7. Attended'
  BY <1>1, <1>2, <1>3, <1>4 DEF KInv, Attended
<1>8. Notified'
  BY <1>2, <1>4 DEF KInv, Notified
<1> QED
  BY <1>2, <1>4, <1>6, <1>7, <1>8, ParallelStep DEF KInv

\* The mailbox is filled and the interrupt raised in one step, and the mailbox is
\* emptied by the handler that the interrupt starts.
LEMMA MailKInv ==
  ASSUME NEW k \in Thread, KInv(k), MasterMail \/ Handler
  PROVE  KInv(k)'
<1> USE DEF MasterMail, Handler, MasterAt, MasterGoto, fc
<1>1. /\ per_cluster_data \in Block /\ Cl \in Driver /\ Cl = drv[per_cluster_data]
      /\ MasterMail => master.data = per_cluster_data /\ master.s6 \in Thread
  BY DEF KInv, Served, TypeOK, Cl, Attended
<1>2. PICK t \in Thread \cup {NULL} :
        /\ Set(per_cluster_data, [Cl EXCEPT !.task_to_fc = t])
        /\ irq' = (t # NULL)
  BY <1>1, NamesAssumption
<1>3. /\ drv' \in [Block -> Driver] /\ Cl'.task_to_fc = t
      /\ Cl'.ready = Cl.ready /\ Cl'.cluster_is_on = Cl.cluster_is_on
      /\ Cl'.task_first = Cl.task_first /\ Cl'.task_last = Cl.task_last
  <2>1. UNCHANGED per_cluster_data
    OBVIOUS
  <2>2. drv' \in [Block -> Driver] /\ Cl' = [Cl EXCEPT !.task_to_fc = t]
    BY <1>1, <1>2, <2>1, Updating, DriverFields DEF KInv
  <2> QED
    BY <1>1, <2>2 DEF Driver
<1>4. /\ master' \in [pc : MasterPc, s5 : Block \cup {NULL},
                      s6 : Thread \cup {NULL}, data : Block \cup {NULL}]
      /\ Attended'
  BY <1>3 DEF KInv, TypeOK, Attended, MasterPc
<1>5. task' \in [Thread -> PiTaskT]
  <2>1. Cl.task_to_fc \in Thread \cup {NULL}
    BY <1>1 DEF Driver
  <2>2. \A q \in Thread : PiTaskRelease(task[q]) \in PiTaskT
    BY TaskTypes DEF KInv, TypeOK
  <2> QED
    BY <1>1, <2>1, <2>2 DEF KInv, TypeOK
<1>6. /\ event' \in BOOLEAN
      /\ UNCHANGED <<pc, device, opened, local, stacks, batch, orphans, next, sent,
                     live, per_cluster_data, ran, fault>>
  BY DEF KInv, TypeOK
<1> HIDE DEF MasterMail, Handler
<1>7. TypeOK'
  BY <1>2, <1>3, <1>4, <1>5, <1>6 DEF KInv, TypeOK
<1>8. Notified'
  BY <1>2, <1>3 DEF Notified
<1> QED
  BY <1>3, <1>4, <1>6, <1>7, <1>8, ParallelStep DEF KInv

(***************************************************************************)
(* Wrong accesses                                                          *)
(***************************************************************************)

LEMMA NoFault ==
  ASSUME NEW k \in Thread, KInv(k)
  PROVE  ~Fault
<1>1. \A p \in Thread : ~ThreadFault(p)
  <2> SUFFICES ASSUME NEW p \in Thread, ThreadFault(p) PROVE FALSE
    OBVIOUS
  <2>1. pc[p] \in Inside
    BY DEF ThreadFault, Inside, KInv, Served
  <2>2. device[p] = per_cluster_data /\ Sound(device[p])
    BY <2>1, Serving
  <2> QED
    BY <2>2 DEF ThreadFault, Sound, KInv, Served, Inside
<1>2. ~MasterFault
  BY DEF MasterFault, KInv, Served, Attended, Cl
<1>3. ~HandlerFault
  BY DEF HandlerFault, KInv, Served, Notified, Cl
<1> QED
  BY <1>1, <1>2, <1>3 DEF Fault

(***************************************************************************)
(* The invariant                                                           *)
(***************************************************************************)

LEMMA NextKInv ==
  ASSUME NEW k \in Thread, KInv(k), [Next]_vars
  PROVE  KInv(k)'
<1>1. CASE \E p \in Thread :
             \/ OpenRead(p) \/ CloseEnter(p) \/ FreeEnter(p)
             \/ \E created \in BOOLEAN : SendEnter(p, created)
  BY <1>1, CycleKInv, LocalKInv, SendEnterKInv
<1>2. CASE \E p \in Thread : ThreadStep(p)
  <2> PICK p \in Thread : ThreadStep(p)
    BY <1>2
  <2>1. /\ ~OpenAlloc(p) /\ ~OpenFails(p) /\ ~OpenSetup(p)
        /\ ~CloseFree(p) /\ ~CloseClear(p)
    BY DEF OpenAlloc, OpenFails, OpenSetup, CloseFree, CloseClear, At, KInv, Served, Inside
  <2> QED
    BY <2>1, CycleKInv, CountKInv, LockKInv, SendFailsKInv, LocalKInv, PushKInv
       DEF ThreadStep
<1>3. CASE MasterStep
  BY <1>3, MasterLocalKInv, MasterFinishKInv, MasterPopKInv, MailKInv DEF MasterStep
<1>4. CASE Handler
  BY <1>4, MailKInv
<1>5. CASE Fault
  BY <1>5, NoFault
<1>6. CASE UNCHANGED vars
  <2>1. Users' = Users /\ Cl' = Cl
    BY <1>6 DEF vars, Users, Cl
  <2> QED
    BY <1>6, <2>1 DEF vars, KInv, TypeOK, Served, Counted, Notified, Attended, KeptOpen
<1> QED
  BY <1>1, <1>2, <1>3, <1>4, <1>5, <1>6 DEF Next

LEMMA Invariance ==
  ASSUME NEW k \in Thread, KeptOpen(k)
  PROVE  Spec => []KInv(k)
<1>1. Init => KInv(k)
  BY InitKInv
<1>2. KInv(k) /\ [Next]_vars => KInv(k)'
  BY NextKInv
<1> QED
  BY <1>1, <1>2, PTL DEF Spec

(***************************************************************************)
(* Theorems                                                                *)
(***************************************************************************)

\* While one thread keeps the cluster open, no thread, master core or interrupt
\* handler uses freed driver data, an unmade mutex or an empty mailbox, however
\* many other threads open, close, send and wait at the same time.
THEOREM KeptOpenNoWrongAccess ==
  ASSUME NEW k \in Thread, KeptOpen(k)
  PROVE  Spec => []NoWrongAccess
<1>1. KInv(k) => NoWrongAccess
  BY DEF KInv, NoWrongAccess
<1> QED
  BY <1>1, Invariance, PTL

\* Every variable keeps its type: in particular cluster_is_on, an unsigned
\* counter of the code, never goes below zero nor above the number of threads.
THEOREM KeptOpenTypeOK ==
  ASSUME NEW k \in Thread, KeptOpen(k)
  PROVE  Spec => []TypeOK
<1>1. KInv(k) => TypeOK
  BY DEF KInv
<1> QED
  BY <1>1, Invariance, PTL

\* A device that pi_cluster_open has returned is served, on and locked by mutexes
\* that work, until its own thread closes it.
THEOREM KeptOpenOpenedReady ==
  ASSUME NEW k \in Thread, KeptOpen(k)
  PROVE  Spec => []OpenedReady
<1>1. KInv(k) => OpenedReady
  <2> SUFFICES ASSUME KInv(k), NEW p \in opened
               PROVE  /\ device[p] = per_cluster_data /\ Sound(device[p])
                      /\ Data(p).cluster_is_on >= Cardinality(opened)
    BY DEF OpenedReady
  <2>1. p \in Thread /\ opened \subseteq Users
    BY DEF KInv, TypeOK, Users
  <2>2. device[p] = per_cluster_data /\ Data(p) = Cl /\ Sound(per_cluster_data)
    BY <2>1, Serving
  <2>3. Cardinality(opened) <= Cardinality(Users) /\ Cardinality(opened) \in Nat
    BY <2>1, UsersCount, FS_Subset, FS_CardinalityType
  <2>4. Cl.cluster_is_on = Cardinality(Users) /\ Cardinality(Users) \in Nat
    BY UsersCount DEF KInv, Counted
  <2> QED
    BY <2>2, <2>3, <2>4
<1> QED
  BY <1>1, Invariance, PTL

\* The steps of the threads leave the mailbox alone, and but for a push the list.
LEMMA ThreadService ==
  ASSUME NEW k \in Thread, KInv(k), NEW p \in Thread,
         \/ OpenRead(p) \/ CloseEnter(p) \/ FreeEnter(p)
         \/ \E created \in BOOLEAN : SendEnter(p, created)
         \/ ThreadStep(p)
  PROVE  /\ UNCHANGED per_cluster_data
         /\ Cl'.task_to_fc = Cl.task_to_fc
         /\ \/ Push(p)
            \/ Cl'.task_first = Cl.task_first /\ Cl'.task_last = Cl.task_last
<1>1. /\ pc[p] \in Inside \/ p \in opened => device[p] = per_cluster_data /\ Data(p) = Cl
      /\ per_cluster_data \in Block /\ Cl \in Driver
      /\ drv \in [Block -> Driver] /\ Cl = drv[per_cluster_data]
  BY Serving DEF KInv, Served, TypeOK, Cl
<1>2. /\ ~OpenAlloc(p) /\ ~OpenFails(p) /\ ~OpenSetup(p)
      /\ ~CloseFree(p) /\ ~CloseClear(p)
  BY DEF OpenAlloc, OpenFails, OpenSetup, CloseFree, CloseClear, At, KInv, Served, Inside
<1>3. CASE \/ OpenRead(p) \/ CloseEnter(p) \/ FreeEnter(p)
           \/ \E created \in BOOLEAN : SendEnter(p, created)
  BY <1>3 DEF OpenRead, CloseEnter, FreeEnter, SendEnter, list, Cl
<1>4. CASE CloseRead(p) \/ SendStacks(p) \/ WaitOn(p)
  BY <1>4 DEF CloseRead, SendStacks, WaitOn, list, Cl
<1>5. CASE OpenLock(p) \/ CloseLock(p) \/ SendLock(p) \/ PushLock(p) \/ FreeLock(p)
  <2>1. device[p] = per_cluster_data /\ Data(p) = Cl /\ UNCHANGED per_cluster_data
    BY <1>1, <1>5 DEF OpenLock, CloseLock, SendLock, PushLock, FreeLock, At, Inside
  <2>2. \/ Set(per_cluster_data, [Cl EXCEPT !.powerstate_mutex = p])
        \/ Set(per_cluster_data, [Cl EXCEPT !.task_mutex = p])
        \/ Set(per_cluster_data, [Cl EXCEPT !.fifo_access = p])
    BY <1>5, <2>1 DEF OpenLock, CloseLock, SendLock, PushLock, FreeLock
  <2> QED
    BY <1>1, <2>1, <2>2 DEF Set, Driver, Cl
<1>6. CASE OpenStart(p) \/ CloseCount(p)
  <2>1. device[p] = per_cluster_data /\ Data(p) = Cl /\ UNCHANGED per_cluster_data
    BY <1>1, <1>6 DEF OpenStart, CloseCount, At, Inside
  <2>2. PICK n, t :
          \/ Set(per_cluster_data, [Cl EXCEPT !.cluster_is_on = n,
                                              !.powerstate_mutex = NULL])
          \/ Set(per_cluster_data, [[Cl EXCEPT !.cluster_is_on = n,
                                               !.powerstate_mutex = NULL]
                                      EXCEPT !.fifo_access = t])
    BY <1>6, <2>1 DEF OpenStart, CloseCount
  <2> DEFINE d == [Cl EXCEPT !.cluster_is_on = n, !.powerstate_mutex = NULL]
             e == [d EXCEPT !.fifo_access = t]
  <2>3. /\ d.task_to_fc = Cl.task_to_fc
        /\ d.task_first = Cl.task_first /\ d.task_last = Cl.task_last
        /\ e.task_to_fc = Cl.task_to_fc
        /\ e.task_first = Cl.task_first /\ e.task_last = Cl.task_last
    BY <1>1 DEF Driver
  <2>4. Set(per_cluster_data, d) \/ Set(per_cluster_data, e)
    BY <2>2
  <2> HIDE DEF d, e
  <2> QED
    BY <1>1, <2>1, <2>3, <2>4 DEF Set, Cl
<1>7. CASE SendFails(p) \/ Wake(p) \/ FreeLook(p)
  BY <1>1, <1>7 DEF SendFails, Wake, FreeLook, At, Set, Inside, Driver, Cl
<1>8. CASE Push(p)
  <2>1. device[p] = per_cluster_data /\ Data(p) = Cl /\ UNCHANGED per_cluster_data
    BY <1>1, <1>8 DEF Push, At, Inside
  <2>2. \/ Set(per_cluster_data, [Cl EXCEPT !.task_first = p, !.task_last = p,
                                            !.fifo_access = NULL])
        \/ Set(per_cluster_data, [Cl EXCEPT !.fifo_access = NULL])
    BY <1>8, <2>1 DEF Push
  <2> DEFINE d == [Cl EXCEPT !.task_first = p, !.task_last = p, !.fifo_access = NULL]
             e == [Cl EXCEPT !.fifo_access = NULL]
  <2>3. d.task_to_fc = Cl.task_to_fc /\ e.task_to_fc = Cl.task_to_fc
    BY <1>1 DEF Driver
  <2>4. Set(per_cluster_data, d) \/ Set(per_cluster_data, e)
    BY <2>2
  <2> HIDE DEF d, e
  <2> QED
    BY <1>1, <1>8, <2>1, <2>3, <2>4 DEF Set, Cl
<1> QED
  BY <1>2, <1>3, <1>4, <1>5, <1>6, <1>7, <1>8 DEF ThreadStep

\* The master core does not overwrite a notification that the handler has not yet
\* read, whatever the threads do meanwhile.
THEOREM KeptOpenMailboxKept ==
  ASSUME NEW k \in Thread, KeptOpen(k)
  PROVE  Spec => MailboxKept
<1> DEFINE Kept == Cl.task_to_fc # NULL => Cl'.task_to_fc \in {NULL, Cl.task_to_fc}
<1>1. KInv(k) /\ [Next]_vars => UNCHANGED per_cluster_data /\ Kept
  <2> SUFFICES ASSUME KInv(k), [Next]_vars
               PROVE  UNCHANGED per_cluster_data /\ Kept
    OBVIOUS
  <2>1. /\ per_cluster_data \in Block /\ Cl \in Driver /\ live = {per_cluster_data}
        /\ drv \in [Block -> Driver] /\ Cl = drv[per_cluster_data]
    BY DEF KInv, Served, TypeOK, Cl
  <2>2. CASE \E p \in Thread :
               \/ OpenRead(p) \/ CloseEnter(p) \/ FreeEnter(p)
               \/ \E created \in BOOLEAN : SendEnter(p, created)
               \/ ThreadStep(p)
    BY <2>2, ThreadService
  <2>3. CASE \/ MasterReady \/ MasterLoop \/ MasterSleep \/ MasterRun \/ MasterFree
             \/ MasterMailFull \/ MasterMailWait
    BY <2>3 DEF MasterReady, MasterLoop, MasterSleep, MasterRun, MasterFree,
                MasterMailFull, MasterMailWait, list, Cl
  <2>4. CASE MasterFinish \/ MasterPop
    <3>1. UNCHANGED per_cluster_data
      BY <2>4 DEF MasterFinish, MasterPop
    <3>2. MasterFinish => Set(per_cluster_data, [Cl EXCEPT !.fifo_access = MASTER])
      BY <2>1 DEF MasterFinish
    <3> DEFINE n == next[master.s6]
               l == LastAfterPop(Cl.task_last, n)
    <3>3. MasterPop => Set(per_cluster_data,
            [Cl EXCEPT !.task_first = n, !.task_last = l, !.fifo_access = NULL])
      <4>1. MasterPop => master.data = per_cluster_data
        BY DEF MasterPop, MasterAt, KInv, Attended
      <4> QED
        BY <2>1, <4>1 DEF MasterPop
    <3> HIDE DEF n, l
    <3> DEFINE d == [Cl EXCEPT !.fifo_access = MASTER]
               e == [Cl EXCEPT !.task_first = n, !.task_last = l, !.fifo_access = NULL]
    <3>4. d.task_to_fc = Cl.task_to_fc /\ e.task_to_fc = Cl.task_to_fc
      BY <2>1 DEF Driver
    <3>5. Set(per_cluster_data, d) \/ Set(per_cluster_data, e)
      BY <2>4, <3>2, <3>3
    <3> HIDE DEF d, e
    <3> QED
      BY <2>1, <3>1, <3>4, <3>5 DEF Set, Cl
  <2>5. CASE MasterMail
    BY <2>1, <2>5 DEF MasterMail, MasterAt, MailboxFree, KInv, Attended, Cl
  <2>6. CASE Handler
    BY <2>1, <2>6 DEF Handler, Set, Driver, Cl
  <2>7. CASE Fault
    BY <2>7, NoFault
  <2>8. CASE UNCHANGED vars
    BY <2>8 DEF vars, Cl
  <2> QED
    BY <2>2, <2>3, <2>4, <2>5, <2>6, <2>7, <2>8 DEF Next, MasterStep
<1> DEFINE MailKept ==
      \A b \in live \cap live' :
        drv[b].task_to_fc # NULL => drv'[b].task_to_fc \in {NULL, drv[b].task_to_fc}
<1>2. KInv(k) /\ [Next]_vars => [MailKept]_vars
  BY <1>1 DEF KInv, Served, Cl
<1>3. MailboxKept <=> [][MailKept]_vars
  BY PTL DEF MailboxKept
<1> QED
  BY <1>2, <1>3, Invariance, PTL DEF Spec

(***************************************************************************)
(* Opening and closing one at a time                                       *)
(*                                                                         *)
(* Nothing keeps the cluster open here: it may be closed by its last user  *)
(* and opened again, for ever.                                             *)
(***************************************************************************)

\* Inside pi_cluster_open and pi_cluster_close.
Cycling ==
  {"alloc", "setup", "start", "power", "stop", "count", "stopped", "cleanup", "clear"}

\* At most one thread at a time is inside pi_cluster_open or pi_cluster_close, as
\* if the application held a mutex around each of them.
CyclesApart == \A p, q \in Thread : pc[p] \in Cycling /\ pc[q] \in Cycling => p = q

\* At most one thread opens and closes the cluster.
OneCycler ==
  \A p, q \in Thread : /\ Role[p] \cap {"open", "close"} # {}
                       /\ Role[q] \cap {"open", "close"} # {}
                         => p = q

\* The registers of the master core, and the place of the threads that use the
\* cluster.
Placed ==
  /\ TypeOK
  /\ master.pc \in {"run", "pop", "free", "mail", "full"} => master.s6 \in Thread
  /\ \A p \in Thread : /\ pc[p] \in Cycling => p \notin opened
                       /\ pc[p] \in Inside \ Cycling => p \in opened

\* Nothing is allocated, and nobody has the cluster.
Closed ==
  /\ live = {} /\ per_cluster_data = NULL
  /\ Users = {} /\ \A p \in Thread : pc[p] \in {"idle", "alloc"}

\* One block is allocated, all use it, and as soon as nobody does a thread is on
\* its way to use it or to free it.
Open ==
  /\ per_cluster_data \in Block /\ live = {per_cluster_data}
  /\ Cl.cluster_is_on = Cardinality(Users)
  /\ \A p \in Thread :
       /\ pc[p] \notin {"alloc", "clear"}
       /\ p \in Users \/ pc[p] \in {"start", "power", "stopped", "cleanup"} =>
            device[p] = per_cluster_data
       /\ pc[p] = "setup" => local[p] = per_cluster_data
       /\ pc[p] \in {"setup", "cleanup"} => Users = {}
  /\ Users = {} => \E p \in Thread : pc[p] \in Cycling
  /\ Cl.ready \/ \E p \in Thread : pc[p] = "setup"

\* The block is freed, and a thread is about to forget it.
Freed ==
  /\ per_cluster_data \in Block /\ live = {} /\ Users = {}
  /\ \E p \in Thread : pc[p] = "clear"

Owned == Closed \/ Open \/ Freed

OInv == Placed /\ Owned

\* Initially the cluster is closed, or open for the threads in Opened.
LEMMA InitOInv == Init => OInv
<1> SUFFICES ASSUME Init PROVE OInv
  OBVIOUS
<1>1. /\ IsFiniteSet(Opened) /\ Opened \subseteq Thread
      /\ Cardinality(Opened) \in 0..Cardinality(Thread)
      /\ Cardinality(Thread) \in Nat
  BY OpenedAssumption, FS_Subset, FS_CardinalityType
<1>2. /\ Opened = {} => per_cluster_data = NULL /\ live = {}
      /\ Opened # {} => per_cluster_data \in Block /\ live = {per_cluster_data}
  BY BlockAssumption DEF Init
<1> DEFINE d == [DriverZero EXCEPT !.ready = TRUE, !.cluster_is_on = Cardinality(Opened)]
<1>3. DriverZero \in Driver /\ d \in Driver /\ d.ready /\ d.cluster_is_on = Cardinality(Opened)
  <2> DEFINE N == Cardinality(Thread)
             M == Cardinality(Opened)
  <2>1. N \in Nat /\ M \in 0..N /\ 0 \in 0..N
    BY <1>1
  <2> HIDE DEF N, M
  <2>2. DriverZero \in Driver
    BY <2>1 DEF Driver, DriverZero, N
  <2>3. d \in Driver /\ d.ready /\ d.cluster_is_on = M
    BY <2>1, <2>2 DEF Driver, N, M
  <2> QED
    BY <2>2, <2>3 DEF M
<1>4. \A b \in Block : drv[b] = IF b = per_cluster_data THEN d ELSE DriverZero
  BY DEF Init
<1> HIDE DEF d
<1>5. Placed
  <2>1. drv \in [Block -> Driver]
    BY <1>3, <1>4 DEF Init
  <2>2. task \in [Thread -> PiTaskT]
    BY DEF Init, PiTaskT, PiTaskZero, TaskId
  <2>3. sent \in Seq(Thread)
    BY EmptySeq DEF Init
  <2>4. TypeOK
    BY <1>1, <1>2, <2>1, <2>2, <2>3 DEF Init, TypeOK, Pc, MasterPc
  <2> QED
    BY <2>4 DEF Placed, Init, Cycling, Inside
<1>6. Users = Opened /\ \A p \in Thread : pc[p] = "idle"
  BY DEF Init, Users
<1>7. CASE Opened = {}
  BY <1>2, <1>5, <1>6, <1>7 DEF OInv, Owned, Closed
<1>8. CASE Opened # {}
  <2>1. Cl = d
    BY <1>2, <1>4, <1>8 DEF Cl
  <2>2. \A p \in Opened : device[p] = per_cluster_data
    BY <1>1 DEF Init
  <2>3. Open
    BY <1>2, <1>3, <1>6, <1>8, <2>1, <2>2 DEF Open
  <2> QED
    BY <1>5, <2>3 DEF OInv, Owned
<1> QED
  BY <1>7, <1>8

\* Counting a thread, or no longer.
LEMMA CardUsers ==
  ASSUME TypeOK
  PROVE  /\ IsFiniteSet(Users) /\ Users \subseteq Thread
         /\ Cardinality(Users) \in Nat /\ (Cardinality(Users) = 0 <=> Users = {})
         /\ \A p \in Thread \ Users :
              /\ Cardinality(Users \cup {p}) = Cardinality(Users) + 1
              /\ Cardinality(Users \cup {p}) \in 0..Cardinality(Thread)
         /\ \A p \in Users : /\ Cardinality(Users \ {p}) = Cardinality(Users) - 1
                             /\ Cardinality(Users \ {p}) \in 0..Cardinality(Thread)
<1>1. Users \subseteq Thread /\ IsFiniteSet(Thread)
  BY OpenedAssumption DEF TypeOK, Users
<1>2. IsFiniteSet(Users)
  BY <1>1, FS_Subset
<1>3. /\ Cardinality(Users) \in Nat /\ (Cardinality(Users) = 0 <=> Users = {})
      /\ Cardinality(Thread) \in Nat
  BY <1>1, <1>2, FS_CardinalityType, FS_EmptySet
<1>4. \A S \in SUBSET Thread : Cardinality(S) \in 0..Cardinality(Thread)
  <2> TAKE S \in SUBSET Thread
  <2>1. IsFiniteSet(S) /\ Cardinality(S) <= Cardinality(Thread)
    BY <1>1, FS_Subset
  <2>2. Cardinality(S) \in Nat
    BY <2>1, FS_CardinalityType
  <2> QED
    BY <1>3, <2>1, <2>2
<1>5. \A p \in Thread \ Users :
        /\ Cardinality(Users \cup {p}) = Cardinality(Users) + 1
        /\ Cardinality(Users \cup {p}) \in 0..Cardinality(Thread)
  BY <1>1, <1>2, <1>4, FS_AddElement
<1>6. \A p \in Users : /\ Cardinality(Users \ {p}) = Cardinality(Users) - 1
                       /\ Cardinality(Users \ {p}) \in 0..Cardinality(Thread)
  BY <1>1, <1>2, <1>4, FS_RemoveElement
<1> QED
  BY <1>1, <1>2, <1>3, <1>5, <1>6

(***************************************************************************)
(* Steps that neither open nor close                                       *)
(***************************************************************************)

\* A thread that has the cluster finds it open.
LEMMA Using ==
  ASSUME OInv, NEW p \in Thread, p \in opened
  PROVE  /\ Open /\ device[p] = per_cluster_data /\ Data(p) = Cl
         /\ per_cluster_data \in Block /\ Cl \in Driver
<1>1. p \in Users
  BY DEF Users
<1>2. Open
  BY <1>1 DEF OInv, Owned, Closed, Freed
<1> QED
  BY <1>1, <1>2 DEF Open, Data, Cl, OInv, Placed, TypeOK

\* A thread that sends or waits changes neither the users nor the count.
LEMMA QuietOInv ==
  ASSUME OInv, TypeOK', NEW p \in Thread, p \in opened,
         NEW l \in (Inside \ Cycling) \cup {"idle"}, pc[p] \notin Cycling, Goto(p, l),
         Cl'.ready = Cl.ready, Cl'.cluster_is_on = Cl.cluster_is_on,
         UNCHANGED <<device, opened, local, live, per_cluster_data, master>>
  PROVE  OInv'
<1>1. /\ pc' \in [Thread -> Pc] /\ pc'[p] = l
      /\ \A q \in Thread \ {p} : pc'[q] = pc[q]
  BY DEF OInv, Placed, TypeOK, Goto
<1>2. Users' = Users
  BY <1>1 DEF Users, Cycling
<1>3. Placed'
  <2>1. l \notin Cycling
    BY DEF Cycling
  <2> QED
    BY <1>1, <2>1 DEF OInv, Placed
<1>4. Open'
  <2>1. \A c \in Cycling : \A q \in Thread : pc'[q] = c <=> pc[q] = c
    BY <1>1 DEF Inside, Cycling
  <2>2. Open
    BY Using
  <2> QED
    BY <1>2, <2>1, <2>2 DEF Open, Cycling
<1> QED
  BY <1>3, <1>4 DEF OInv, Owned

LEMMA SendEnterOInv ==
  ASSUME OInv, NEW p \in Thread, NEW created \in BOOLEAN, SendEnter(p, created)
  PROVE  OInv'
<1> USE DEF SendEnter, At, list
<1>1. task' \in [Thread -> PiTaskT] /\ pc' \in [Thread -> Pc]
  BY TaskTypes DEF OInv, Placed, TypeOK, Goto, Pc
<1>2. TypeOK'
  BY <1>1 DEF OInv, Placed, TypeOK
<1>3. Cl' = Cl
  BY DEF Cl
<1> QED
  BY <1>2, <1>3, QuietOInv DEF Inside, Cycling

LEMMA LocalOInv ==
  ASSUME OInv, NEW p \in Thread, SendStacks(p) \/ WaitOn(p) \/ FreeEnter(p)
  PROVE  OInv'
<1> USE DEF SendStacks, WaitOn, FreeEnter, At, list
<1>1. PICK l \in (Inside \ Cycling) \cup {"idle"} : Goto(p, l)
  BY DEF Inside, Cycling
<1>2. p \in opened /\ pc[p] \notin Cycling
  BY DEF Inside, Cycling, OInv, Placed
<1>3. TypeOK'
  <2>1. pc' \in [Thread -> Pc]
    BY <1>1 DEF OInv, Placed, TypeOK, Goto, Pc, Inside
  <2>2. task' \in [Thread -> PiTaskT]
    BY TaskTypes DEF OInv, Placed, TypeOK
  <2>3. stacks' \subseteq Thread
    BY DEF OInv, Placed, TypeOK
  <2>4. UNCHANGED <<device, opened, local, batch, orphans, list, live,
                    per_cluster_data, master, event, irq, ran, fault>>
    OBVIOUS
  <2> HIDE DEF SendStacks, WaitOn, FreeEnter
  <2> QED
    BY <2>1, <2>2, <2>3, <2>4 DEF OInv, Placed, TypeOK
<1>4. Cl' = Cl /\ UNCHANGED <<device, opened, local, live, per_cluster_data, master>>
  BY DEF Cl
<1> HIDE DEF SendStacks, WaitOn, FreeEnter
<1> QED
  BY <1>1, <1>2, <1>3, <1>4, QuietOInv

LEMMA LockOInv ==
  ASSUME OInv, NEW p \in Thread,
         SendLock(p) \/ PushLock(p) \/ FreeLock(p) \/ FreeLook(p) \/ Wake(p) \/ SendFails(p)
  PROVE  OInv'
<1> USE DEF SendLock, PushLock, FreeLock, FreeLook, Wake, SendFails, At
<1>1. PICK l \in (Inside \ Cycling) \cup {"idle"} : Goto(p, l)
  BY DEF Inside, Cycling
<1>2. p \in opened /\ pc[p] \notin Cycling
  BY DEF Inside, Cycling, OInv, Placed
<1>3. /\ device[p] = per_cluster_data /\ Data(p) = Cl /\ Cl \in Driver
      /\ per_cluster_data \in Block
  BY <1>2, Using
<1>4. PICK d \in Driver : /\ Set(per_cluster_data, d)
                          /\ d.ready = Cl.ready /\ d.cluster_is_on = Cl.cluster_is_on
  <2>1. \A t \in Thread \cup {NULL} : /\ [Cl EXCEPT !.task_mutex = t] \in Driver
                                      /\ [Cl EXCEPT !.fifo_access = t] \in Driver
    BY <1>3, DriverFields
  <2>2. \E t \in Thread \cup {NULL} :
          \/ Set(per_cluster_data, [Cl EXCEPT !.task_mutex = t])
          \/ Set(per_cluster_data, [Cl EXCEPT !.fifo_access = t])
    BY <1>3
  <2> QED
    BY <1>3, <2>1, <2>2 DEF Driver
<1>5. UNCHANGED <<device, opened, local, live, per_cluster_data, master>>
  OBVIOUS
<1>6. drv' \in [Block -> Driver] /\ Cl' = d
  BY <1>3, <1>4, <1>5, Updating DEF OInv, Placed
<1>7. TypeOK'
  <2>1. pc' \in [Thread -> Pc]
    BY <1>1 DEF OInv, Placed, TypeOK, Goto, Pc, Inside
  <2>2. task' \in [Thread -> PiTaskT] /\ orphans' \subseteq Thread
    <3>1. task' = task \/ task' = [task EXCEPT ![p] = PiTaskZero]
      OBVIOUS
    <3>2. orphans' = orphans \/ orphans' = orphans \cup {p}
      OBVIOUS
    <3>3. PiTaskZero \in PiTaskT
      BY DEF PiTaskZero, PiTaskT, TaskId
    <3> HIDE DEF SendLock, PushLock, FreeLock, FreeLook, Wake, SendFails
    <3>4. task' \in [Thread -> PiTaskT]
      BY <3>1, <3>3 DEF OInv, Placed, TypeOK
    <3>5. orphans' \subseteq Thread
      BY <3>2 DEF OInv, Placed, TypeOK
    <3> QED
      BY <3>4, <3>5
  <2>3. UNCHANGED <<stacks, next, sent, ran, batch, irq, fault>> /\ event' \in BOOLEAN
    BY DEF WakeEvent, OInv, Placed, TypeOK
  <2> HIDE DEF SendLock, PushLock, FreeLock, FreeLook, Wake, SendFails
  <2> QED
    BY <1>5, <1>6, <2>1, <2>2, <2>3 DEF OInv, Placed, TypeOK
<1> HIDE DEF SendLock, PushLock, FreeLock, FreeLook, Wake, SendFails
<1> QED
  BY <1>1, <1>2, <1>4, <1>5, <1>6, <1>7, QuietOInv

LEMMA PushOInv ==
  ASSUME OInv, NEW p \in Thread, Push(p)
  PROVE  OInv'
<1> USE DEF Push, At
<1>1. p \in opened
  BY DEF OInv, Placed, Inside, Cycling
<1>2. /\ device[p] = per_cluster_data /\ Data(p) = Cl /\ Cl \in Driver
      /\ per_cluster_data \in Block
  BY <1>1, Using
<1> DEFINE d == [Cl EXCEPT !.task_first = p, !.task_last = p, !.fifo_access = NULL]
           e == [Cl EXCEPT !.fifo_access = NULL]
<1>3. /\ d \in Driver /\ d.ready = Cl.ready /\ d.cluster_is_on = Cl.cluster_is_on
      /\ e \in Driver /\ e.ready = Cl.ready /\ e.cluster_is_on = Cl.cluster_is_on
  BY <1>2 DEF Driver
<1>4. Set(per_cluster_data, d) \/ Set(per_cluster_data, e)
  BY <1>2
<1>5. UNCHANGED <<device, opened, local, task, stacks, batch, orphans, live,
                  per_cluster_data, master, event, irq, ran, fault>>
  OBVIOUS
<1> HIDE DEF d, e
<1>6. /\ drv' \in [Block -> Driver]
      /\ Cl'.ready = Cl.ready /\ Cl'.cluster_is_on = Cl.cluster_is_on
  BY <1>2, <1>3, <1>4, <1>5, Updating DEF OInv, Placed
<1>7. TypeOK'
  <2>1. Cl.task_last \in Thread \cup {NULL}
    BY <1>2 DEF Driver
  <2>2. next' \in [Thread -> Thread \cup {NULL}]
    BY <1>2, <2>1 DEF OInv, Placed, TypeOK
  <2>3. sent' \in Seq(Thread) /\ pc' \in [Thread -> Pc]
    BY AppendProperties DEF OInv, Placed, TypeOK, Goto, Pc
  <2> HIDE DEF Push
  <2> QED
    BY <1>5, <1>6, <2>2, <2>3 DEF OInv, Placed, TypeOK
<1> QED
  BY <1>1, <1>5, <1>6, <1>7, QuietOInv DEF Inside, Cycling

\* The master core and the handler leave the threads where they are, and the
\* block alone that serves them.
LEMMA ParallelOInv ==
  ASSUME OInv, TypeOK',
         master'.pc \in {"run", "pop", "free", "mail", "full"} => master'.s6 \in Thread,
         \A b \in live : /\ drv'[b].ready = drv[b].ready
                         /\ drv'[b].cluster_is_on = drv[b].cluster_is_on,
         UNCHANGED <<pc, device, opened, local, live, per_cluster_data>>
  PROVE  OInv'
<1>1. Users' = Users
  BY DEF Users
<1>2. Placed'
  BY DEF OInv, Placed
<1>3. Owned'
  <2>1. Closed => Closed'
    BY <1>1 DEF Closed
  <2>2. Freed => Freed'
    BY <1>1 DEF Freed
  <2>3. Open => Open'
    BY <1>1 DEF Open, Cl
  <2> QED
    BY <2>1, <2>2, <2>3 DEF OInv, Owned
<1> QED
  BY <1>2, <1>3 DEF OInv

LEMMA MasterLocalOInv ==
  ASSUME OInv,
         \/ MasterReady \/ MasterLoop \/ MasterSleep \/ MasterRun \/ MasterFree
         \/ MasterMailFull \/ MasterMailWait
  PROVE  OInv'
<1> USE DEF MasterReady, MasterLoop, MasterSleep, MasterRun, MasterFree,
            MasterMailFull, MasterMailWait, MasterAt, MasterGoto, fc, list
<1>1. UNCHANGED <<pc, device, opened, local, task, batch, orphans, list, live,
                  per_cluster_data, irq, fault>>
  OBVIOUS
<1>2. \A b \in live : drv[b].task_first \in Thread \cup {NULL}
  BY DEF OInv, Placed, TypeOK, Driver
<1>3. /\ master' \in [pc : MasterPc, s5 : Block \cup {NULL},
                      s6 : Thread \cup {NULL}, data : Block \cup {NULL}]
      /\ master'.pc \in {"run", "pop", "free", "mail", "full"} => master'.s6 \in Thread
  <2>1. /\ master \in [pc : MasterPc, s5 : Block \cup {NULL},
                       s6 : Thread \cup {NULL}, data : Block \cup {NULL}]
        /\ per_cluster_data \in Block \cup {NULL}
        /\ master.pc \in {"run", "pop", "free", "mail", "full"} => master.s6 \in Thread
    BY DEF OInv, Placed, TypeOK
  <2>2. CASE MasterReady \/ MasterSleep \/ MasterMailFull \/ MasterMailWait
    BY <2>1, <2>2 DEF MasterPc
  <2>3. CASE MasterLoop
    BY <1>2, <2>1, <2>3 DEF MasterPc
  <2>4. CASE MasterRun
    BY <2>1, <2>4 DEF MasterPc
  <2>5. CASE MasterFree
    BY <2>1, <2>5 DEF MasterPc
  <2> QED
    BY <2>2, <2>3, <2>4, <2>5
<1>4. event' \in BOOLEAN /\ stacks' \subseteq Thread /\ ran' \subseteq Thread
  <2>1. event' \in BOOLEAN /\ stacks' \subseteq Thread
    BY DEF OInv, Placed, TypeOK, StacksAfterFree
  <2>2. ran' \subseteq Thread
    BY DEF OInv, Placed, TypeOK
  <2> QED
    BY <2>1, <2>2
<1> HIDE DEF MasterReady, MasterLoop, MasterSleep, MasterRun, MasterFree, MasterMailFull,
       MasterMailWait
<1>5. TypeOK'
  BY <1>1, <1>3, <1>4 DEF OInv, Placed, TypeOK
<1> QED
  BY <1>1, <1>3, <1>5, ParallelOInv DEF list

\* A step that updates one allocated block and keeps its mutexes and its count.
LEMMA BlockStep ==
  ASSUME TypeOK, NEW b \in live, NEW d \in Driver, Set(b, d),
         d.ready = drv[b].ready, d.cluster_is_on = drv[b].cluster_is_on
  PROVE  /\ drv' \in [Block -> Driver]
         /\ \A c \in live : /\ drv'[c].ready = drv[c].ready
                            /\ drv'[c].cluster_is_on = drv[c].cluster_is_on
BY DEF TypeOK, Set

LEMMA MasterListOInv ==
  ASSUME OInv, MasterFinish \/ MasterPop
  PROVE  OInv'
<1> USE DEF MasterFinish, MasterPop, MasterAt, MasterGoto, fc
<1>1. TypeOK /\ (master.pc = "pop" => master.s6 \in Thread)
  BY DEF OInv, Placed
<1>2. PICK b \in live, d \in Driver :
        Set(b, d) /\ d.ready = drv[b].ready /\ d.cluster_is_on = drv[b].cluster_is_on
  <2>1. CASE MasterFinish
    <3>1. per_cluster_data \in live /\ drv[per_cluster_data] \in Driver
      BY <1>1, <2>1 DEF TypeOK
    <3> DEFINE d == [drv[per_cluster_data] EXCEPT !.fifo_access = MASTER]
    <3>2. d \in Driver /\ Set(per_cluster_data, d)
      BY <2>1, <3>1, DriverFields
    <3>3. d.ready = drv[per_cluster_data].ready
          /\ d.cluster_is_on = drv[per_cluster_data].cluster_is_on
      BY <3>1 DEF Driver
    <3> QED
      BY <3>1, <3>2, <3>3
  <2>2. CASE MasterPop
    <3> DEFINE n == next[master.s6]
               l == LastAfterPop(drv[master.data].task_last, n)
               d == [drv[master.data] EXCEPT !.task_first = n, !.task_last = l,
                                             !.fifo_access = NULL]
    <3>1. master.data \in live /\ drv[master.data] \in Driver /\ Set(master.data, d)
      BY <1>1, <2>2 DEF TypeOK
    <3>2. n \in Thread \cup {NULL} /\ l \in Thread \cup {NULL}
      BY <1>1, <2>2, <3>1 DEF TypeOK, LastAfterPop, Driver
    <3> HIDE DEF n, l
    <3>3. d \in Driver /\ d.ready = drv[master.data].ready
          /\ d.cluster_is_on = drv[master.data].cluster_is_on
      BY <3>1, <3>2 DEF Driver
    <3> QED
      BY <3>1, <3>3
  <2> QED
    BY <2>1, <2>2
<1>3. /\ drv' \in [Block -> Driver]
      /\ \A c \in live : /\ drv'[c].ready = drv[c].ready
                         /\ drv'[c].cluster_is_on = drv[c].cluster_is_on
  BY <1>1, <1>2, BlockStep
<1>4. /\ master' \in [pc : MasterPc, s5 : Block \cup {NULL},
                      s6 : Thread \cup {NULL}, data : Block \cup {NULL}]
      /\ master'.s6 \in Thread
  <2>1. \A c \in live : c \in Block /\ drv[c].task_first \in Thread \cup {NULL}
    BY <1>1 DEF TypeOK, Driver
  <2>2. CASE MasterFinish
    BY <1>1, <2>1, <2>2 DEF TypeOK, MasterPc
  <2>3. CASE MasterPop
    BY <1>1, <2>3 DEF TypeOK, MasterPc
  <2> QED
    BY <2>2, <2>3
<1>5. sent' \in Seq(Thread)
  <2>1. sent # <<>> => Tail(sent) \in Seq(Thread)
    BY <1>1 DEF TypeOK
  <2> QED
    BY <1>1, <2>1 DEF Tail1, TypeOK
<1>6. UNCHANGED <<fc, next, live, per_cluster_data, event, irq, ran, fault>>
  OBVIOUS
<1> HIDE DEF MasterFinish, MasterPop
<1>7. TypeOK'
  BY <1>1, <1>3, <1>4, <1>5, <1>6 DEF TypeOK
<1> QED
  BY <1>3, <1>4, <1>6, <1>7, ParallelOInv

LEMMA MailOInv ==
  ASSUME OInv, MasterMail \/ Handler
  PROVE  OInv'
<1> USE DEF MasterMail, Handler, MasterAt, MasterGoto, fc
<1>1. TypeOK /\ (MasterMail => master.s6 \in Thread)
  BY DEF OInv, Placed
<1>2. PICK b \in live, t \in Thread \cup {NULL} :
        Set(b, [drv[b] EXCEPT !.task_to_fc = t])
  BY <1>1
<1> DEFINE d == [drv[b] EXCEPT !.task_to_fc = t]
<1>3. d \in Driver /\ d.ready = drv[b].ready /\ d.cluster_is_on = drv[b].cluster_is_on
  <2>1. drv[b] \in Driver
    BY <1>1 DEF TypeOK
  <2> QED
    BY <2>1, DriverFields DEF Driver
<1>4. /\ drv' \in [Block -> Driver]
      /\ \A c \in live : /\ drv'[c].ready = drv[c].ready
                         /\ drv'[c].cluster_is_on = drv[c].cluster_is_on
  BY <1>1, <1>2, <1>3, BlockStep
<1>5. task' \in [Thread -> PiTaskT]
  <2>1. \A c \in live : drv[c].task_to_fc \in Thread \cup {NULL}
    BY <1>1 DEF TypeOK, Driver
  <2>2. \A q \in Thread : PiTaskRelease(task[q]) \in PiTaskT
    BY <1>1, TaskTypes DEF TypeOK
  <2> QED
    BY <1>1, <2>1, <2>2 DEF TypeOK
<1>6. /\ master' \in [pc : MasterPc, s5 : Block \cup {NULL},
                      s6 : Thread \cup {NULL}, data : Block \cup {NULL}]
      /\ master'.pc \in {"run", "pop", "free", "mail", "full"} => master'.s6 \in Thread
  BY <1>1 DEF OInv, Placed, TypeOK, MasterPc
<1>7. /\ event' \in BOOLEAN /\ irq' \in BOOLEAN
      /\ UNCHANGED <<pc, device, opened, local, stacks, batch, orphans, next, sent,
                     live, per_cluster_data, ran, fault>>
  BY <1>1 DEF TypeOK
<1> HIDE DEF MasterMail, Handler
<1>8. TypeOK'
  BY <1>1, <1>4, <1>5, <1>6, <1>7 DEF TypeOK
<1> QED
  BY <1>4, <1>6, <1>7, <1>8, ParallelOInv

(***************************************************************************)
(* Steps that open and close                                               *)
(***************************************************************************)

\* The thread that takes such a step is alone in pi_cluster_open and
\* pi_cluster_close, and the others stay where they are.
LEMMA Alone ==
  ASSUME TypeOK, CyclesApart, CyclesApart', NEW p \in Thread, NEW l \in Pc, Goto(p, l),
         pc[p] \in Cycling \/ l \in Cycling
  PROVE  /\ pc' \in [Thread -> Pc] /\ pc'[p] = l
         /\ \A q \in Thread \ {p} : pc'[q] = pc[q] /\ pc[q] \notin Cycling
<1>1. /\ pc' \in [Thread -> Pc] /\ pc'[p] = l
      /\ \A q \in Thread \ {p} : pc'[q] = pc[q]
  BY DEF TypeOK, Goto
<1>2. \A q \in Thread \ {p} : pc[q] \notin Cycling
  BY <1>1 DEF CyclesApart
<1> QED
  BY <1>1, <1>2

\* The users while p is the only thread that opens or closes.
LEMMA AloneUsers ==
  ASSUME NEW p \in Thread, \A q \in Thread \ {p} : pc[q] \notin Cycling
  PROVE  Users = IF pc[p] \in {"stop", "count"} THEN opened \cup {p} ELSE opened
BY DEF Users, Cycling

\* A step of a thread alone, after which the cluster is open.
LEMMA OpenStep ==
  ASSUME OInv, Open, TypeOK', NEW p \in Thread,
         \A q \in Thread \ {p} : /\ pc'[q] = pc[q] /\ pc[q] \notin Cycling
                                 /\ device'[q] = device[q]
                                 /\ q \in opened' <=> q \in opened,
         pc'[p] \in {"idle", "start", "power", "stop", "count", "stopped", "cleanup"},
         pc'[p] = "idle" \/ p \notin opened',
         device'[p] = per_cluster_data, UNCHANGED <<live, per_cluster_data, master>>,
         Cl'.ready, Cl'.cluster_is_on = Cardinality(Users'),
         pc'[p] = "cleanup" => Users' = {},
         pc'[p] = "idle" => Users' # {}
  PROVE  OInv'
<1>1. Placed'
  <2>1. \A q \in Thread \ {p} : /\ pc'[q] \notin Cycling
                                /\ pc'[q] \in Inside \ Cycling => q \in opened'
    BY DEF OInv, Placed
  <2>2. /\ pc'[p] \in Cycling => p \notin opened'
        /\ pc'[p] \notin Inside \ Cycling
    BY DEF Inside, Cycling
  <2> QED
    BY <2>1, <2>2 DEF OInv, Placed
<1>2. Open'
  <2>1. \A q \in Thread \ {p} :
          /\ pc'[q] \notin {"alloc", "clear", "setup", "cleanup"}
          /\ q \in Users' \/ pc'[q] \in {"start", "power", "stopped", "cleanup"} =>
               device'[q] = per_cluster_data
    BY DEF Open, Users, Cycling
  <2>2. pc'[p] \in Cycling \/ Users' # {}
    BY DEF Cycling
  <2> QED
    BY <2>1, <2>2 DEF Open
<1> QED
  BY <1>1, <1>2 DEF OInv, Owned

\* Before a step of a thread alone that has or is about to have the cluster, the
\* cluster is open; the mutexes work unless this thread is about to make them.
LEMMA AloneOpen ==
  ASSUME OInv, NEW p \in Thread, \A q \in Thread \ {p} : pc[q] \notin Cycling,
         \/ pc[p] \in Cycling \ {"alloc", "clear"}
         \/ p \in opened
         \/ pc[p] = "idle" /\ per_cluster_data # NULL
  PROVE  /\ Open /\ per_cluster_data \in Block /\ Cl \in Driver
         /\ Cl = drv[per_cluster_data] /\ drv \in [Block -> Driver]
         /\ pc[p] # "setup" => Cl.ready
<1>1. Open
  <2>1. ~Closed
    <3>1. p \notin opened \/ Users # {}
      BY DEF Users
    <3> QED
      BY <3>1 DEF Closed, Cycling
  <2>2. ~Freed
    <3>1. p \notin opened \/ Users # {}
      BY DEF Users
    <3> QED
      BY <3>1, BlockAssumption DEF Freed, Cycling
  <2> QED
    BY <2>1, <2>2 DEF OInv, Owned
<1>2. \A q \in Thread \ {p} : pc[q] # "setup"
  BY DEF Cycling
<1> QED
  BY <1>1, <1>2 DEF Open, Cl, OInv, Placed, TypeOK

\* pi_cluster_open finds the driver data, or allocates, publishes and completes it.
LEMMA OpenReadOInv ==
  ASSUME OInv, CyclesApart, CyclesApart', NEW p \in Thread, OpenRead(p)
  PROVE  OInv'
<1> USE DEF OpenRead, At, list
<1> DEFINE l == IF per_cluster_data = NULL THEN "alloc" ELSE "start"
<1>1. l \in Pc /\ l \in Cycling /\ Goto(p, l) /\ TypeOK
  BY DEF Pc, Cycling, OInv, Placed
<1>2. /\ pc' \in [Thread -> Pc] /\ pc'[p] = l
      /\ \A q \in Thread \ {p} : pc'[q] = pc[q] /\ pc[q] \notin Cycling
  <2> HIDE DEF OpenRead, l
  <2> QED
    BY <1>1, Alone
<1>3. /\ device' \in [Thread -> Block \cup {NULL}]
      /\ \A q \in Thread \ {p} : device'[q] = device[q]
      /\ device'[p] = per_cluster_data
  BY <1>1 DEF TypeOK
<1>4. TypeOK' /\ Cl' = Cl
  BY <1>1, <1>2, <1>3 DEF TypeOK, Cl
<1>5. Users' = Users
  BY <1>2 DEF Users
<1>6. CASE per_cluster_data = NULL
  <2>1. Closed
    BY <1>6, BlockAssumption DEF OInv, Owned, Open, Freed
  <2>2. Closed'
    BY <1>2, <1>5, <1>6, <2>1 DEF Closed
  <2>3. Placed'
    BY <1>2, <1>4, <1>6 DEF OInv, Placed, Inside, Cycling
  <2> QED
    BY <2>2, <2>3 DEF OInv, Owned
<1>7. CASE per_cluster_data # NULL
  <2>1. Open /\ Cl.ready
    BY <1>2, <1>7, AloneOpen
  <2>2. Cl'.ready /\ Cl'.cluster_is_on = Cardinality(Users')
    BY <1>4, <1>5, <2>1 DEF Open
  <2>3. pc'[p] = "start" /\ p \notin opened'
    BY <1>2, <1>7
  <2>4. \A q \in Thread \ {p} : /\ pc'[q] = pc[q] /\ pc[q] \notin Cycling
                                /\ device'[q] = device[q]
                                /\ q \in opened' <=> q \in opened
    BY <1>2, <1>3
  <2> QED
    BY <1>3, <1>4, <2>1, <2>2, <2>3, <2>4, OpenStep
<1> QED
  BY <1>6, <1>7

LEMMA OpenAllocOInv ==
  ASSUME OInv, CyclesApart, CyclesApart', NEW p \in Thread,
         OpenAlloc(p) \/ OpenFails(p)
  PROVE  OInv'
<1> USE DEF At
<1>1. PICK l \in {"setup", "idle"} :
        /\ Goto(p, l) /\ pc[p] = "alloc"
        /\ \/ OpenAlloc(p) /\ l = "setup"
           \/ OpenFails(p) /\ l = "idle"
  BY DEF OpenAlloc, OpenFails
<1>2. /\ pc' \in [Thread -> Pc] /\ pc'[p] = l
      /\ \A q \in Thread \ {p} : pc'[q] = pc[q] /\ pc[q] \notin Cycling
  <2>1. l \in Pc /\ pc[p] \in Cycling
    BY <1>1 DEF Pc, Cycling
  <2> QED
    BY <1>1, <2>1, Alone DEF OInv, Placed
<1>3. Closed
  BY <1>1, <1>2 DEF OInv, Owned, Open, Freed, Cycling
<1>4. Users' = {}
  <2>1. opened' = opened
    BY DEF OpenAlloc, OpenFails
  <2> QED
    BY <1>1, <1>2, <1>3, <2>1 DEF Closed, Users, Cycling
<1>5. CASE OpenFails(p) /\ l = "idle"
  <2>1. TypeOK'
    BY <1>2, <1>5 DEF OpenFails, list, OInv, Placed, TypeOK
  <2>2. Placed'
    BY <1>1, <1>2, <1>5, <2>1 DEF OpenFails, OInv, Placed, Inside, Cycling
  <2>3. Closed'
    BY <1>1, <1>2, <1>3, <1>4, <1>5 DEF OpenFails, Closed
  <2> QED
    BY <2>2, <2>3 DEF OInv, Owned
<1>6. CASE OpenAlloc(p) /\ l = "setup"
  <2>1. PICK b \in Block : /\ live' = {b} /\ per_cluster_data' = b
                           /\ Set(b, DriverZero)
                           /\ local' = [local EXCEPT ![p] = b]
    BY <1>3, <1>6 DEF OpenAlloc, Closed
  <2>2. UNCHANGED <<device, opened, task, stacks, batch, orphans, next, sent,
                    master, event, irq, ran, fault>>
    BY <1>6 DEF OpenAlloc
  <2>3. DriverZero \in Driver /\ DriverZero.cluster_is_on = 0
    <3>1. 0 \in 0..Cardinality(Thread)
      BY OpenedAssumption, FS_CardinalityType
    <3> QED
      BY <3>1 DEF Driver, DriverZero
  <2>4. /\ drv' \in [Block -> Driver] /\ Cl' = DriverZero
        /\ local' \in [Thread -> Block \cup {NULL}] /\ local'[p] = b
    BY <2>1, <2>3 DEF OInv, Placed, TypeOK, Set, Cl
  <2>5. TypeOK'
    BY <1>2, <2>1, <2>2, <2>4 DEF OInv, Placed, TypeOK
  <2>6. pc'[p] = "setup" /\ p \notin opened'
    BY <1>1, <1>2, <1>6, <2>2 DEF OInv, Placed, Cycling
  <2>7. Placed'
    BY <1>2, <2>2, <2>5, <2>6 DEF OInv, Placed, Inside, Cycling
  <2>8. Open'
    <3>1. Cl'.cluster_is_on = Cardinality(Users')
      BY <1>4, <2>3, <2>4, FS_EmptySet
    <3>2. \A q \in Thread \ {p} : pc'[q] \notin Cycling
      BY <1>2
    <3> QED
      BY <1>4, <2>1, <2>4, <2>6, <3>1, <3>2 DEF Open, Cycling
  <2> QED
    BY <2>7, <2>8 DEF OInv, Owned
<1> QED
  BY <1>1, <1>5, <1>6

LEMMA OpenSetupOInv ==
  ASSUME OInv, CyclesApart, CyclesApart', NEW p \in Thread, OpenSetup(p)
  PROVE  OInv'
<1>1. pc[p] = "setup" /\ Goto(p, "start") /\ TypeOK /\ pc[p] \in Cycling
  BY DEF OpenSetup, At, OInv, Placed, Cycling
<1>2. /\ pc' \in [Thread -> Pc] /\ pc'[p] = "start"
      /\ \A q \in Thread \ {p} : pc'[q] = pc[q] /\ pc[q] \notin Cycling
  BY <1>1, Alone DEF Pc
<1>3. /\ Open /\ per_cluster_data \in Block /\ Cl \in Driver
      /\ Cl = drv[per_cluster_data]
      /\ p \notin opened
  <2>1. Open /\ per_cluster_data \in Block /\ Cl \in Driver /\ Cl = drv[per_cluster_data]
    BY <1>1, <1>2, AloneOpen
  <2> QED
    BY <1>1, <2>1 DEF OInv, Placed
<1>4. local[p] = per_cluster_data
  BY <1>1, <1>3 DEF Open
<1> DEFINE d == [Cl EXCEPT !.ready = TRUE, !.task_mutex = NULL,
                           !.powerstate_mutex = NULL, !.task_to_fc = NULL]
<1>5. /\ Set(per_cluster_data, d)
      /\ device' = [device EXCEPT ![p] = per_cluster_data]
      /\ local' = [local EXCEPT ![p] = NULL]
      /\ UNCHANGED <<opened, task, stacks, batch, orphans, next, sent, live,
                     per_cluster_data, master, event, irq, ran, fault>>
  BY <1>3, <1>4 DEF OpenSetup
<1>6. d \in Driver /\ d.ready /\ d.cluster_is_on = Cl.cluster_is_on
  BY <1>3 DEF Driver
<1> HIDE DEF d
<1>7. drv' \in [Block -> Driver] /\ Cl' = d
  BY <1>1, <1>3, <1>5, <1>6, Updating
<1>8. /\ device' \in [Thread -> Block \cup {NULL}]
      /\ \A q \in Thread \ {p} : device'[q] = device[q]
      /\ device'[p] = per_cluster_data
      /\ local' \in [Thread -> Block \cup {NULL}]
  BY <1>1, <1>5 DEF TypeOK
<1>9. TypeOK'
  BY <1>1, <1>2, <1>5, <1>7, <1>8 DEF TypeOK
<1>10. Users' = Users
  BY <1>1, <1>2, <1>5 DEF Users
<1>11. Cl'.ready /\ Cl'.cluster_is_on = Cardinality(Users')
  BY <1>3, <1>6, <1>7, <1>10 DEF Open
<1>12. \A q \in Thread \ {p} : /\ pc'[q] = pc[q] /\ pc[q] \notin Cycling
                               /\ device'[q] = device[q]
                               /\ q \in opened' <=> q \in opened
  BY <1>2, <1>5, <1>8
<1> QED
  BY <1>2, <1>3, <1>5, <1>8, <1>9, <1>11, <1>12, OpenStep

\* Taking powerstate_mutex on the way in or out, and the start of the way out.
LEMMA OpenCloseLockOInv ==
  ASSUME OInv, CyclesApart, CyclesApart', NEW p \in Thread,
         OpenLock(p) \/ CloseLock(p) \/ CloseEnter(p)
  PROVE  OInv'
<1> USE DEF OpenLock, CloseLock, CloseEnter, At
<1>1. PICK l \in {"power", "count", "stop"} :
        /\ Goto(p, l)
        /\ \/ pc[p] = "start" /\ l = "power" /\ opened' = opened
           \/ pc[p] = "stop" /\ l = "count" /\ opened' = opened
           \/ pc[p] = "idle" /\ l = "stop" /\ p \in opened /\ opened' = opened \ {p}
  OBVIOUS
<1>2. l \in Pc /\ l \in Cycling /\ TypeOK
  BY <1>1 DEF Pc, Cycling, OInv, Placed
<1>3. /\ pc' \in [Thread -> Pc] /\ pc'[p] = l
      /\ \A q \in Thread \ {p} : pc'[q] = pc[q] /\ pc[q] \notin Cycling
  <2> HIDE DEF OpenLock, CloseLock, CloseEnter
  <2> QED
    BY <1>1, <1>2, Alone
<1>4. /\ Open /\ per_cluster_data \in Block /\ Cl \in Driver /\ Cl.ready
      /\ Cl = drv[per_cluster_data] /\ drv \in [Block -> Driver]
  <2>1. pc[p] \in Cycling \ {"alloc", "clear"} \/ p \in opened
    BY <1>1 DEF Cycling
  <2>2. pc[p] # "setup"
    BY <1>1
  <2> HIDE DEF OpenLock, CloseLock, CloseEnter
  <2> QED
    BY <1>3, <2>1, <2>2, AloneOpen
<1>5. device[p] = per_cluster_data
  <2> HIDE DEF OpenLock, CloseLock, CloseEnter
  <2> QED
    BY <1>1, <1>4 DEF Open, Users
<1>6. Users' = Users /\ p \notin opened'
  <2>1. \A q \in Thread \ {p} : q \in Users' <=> q \in Users
    BY <1>1, <1>3 DEF Users
  <2>2. (p \in Users' <=> p \in Users) /\ p \notin opened'
    BY <1>1, <1>3 DEF Users, OInv, Placed, Cycling
  <2>3. Users' \subseteq Thread /\ Users \subseteq Thread
    BY <1>1, <1>2 DEF Users, TypeOK
  <2> QED
    BY <2>1, <2>2, <2>3
<1>7. /\ drv' \in [Block -> Driver]
      /\ Cl'.ready = Cl.ready /\ Cl'.cluster_is_on = Cl.cluster_is_on
  <2>1. CASE UNCHANGED <<drv, per_cluster_data>>
    BY <1>4, <2>1 DEF Cl
  <2>2. CASE Set(per_cluster_data, [Cl EXCEPT !.powerstate_mutex = p])
             /\ UNCHANGED per_cluster_data
    <3>1. [Cl EXCEPT !.powerstate_mutex = p] \in Driver
      BY <1>4, DriverFields
    <3>2. drv' \in [Block -> Driver] /\ Cl' = [Cl EXCEPT !.powerstate_mutex = p]
      BY <1>2, <1>4, <2>2, <3>1, Updating
    <3> QED
      BY <1>4, <3>2 DEF Driver
  <2> QED
    BY <1>4, <1>5, <2>1, <2>2 DEF list, Data
<1>8. UNCHANGED <<device, local, task, stacks, batch, orphans, next, sent, live,
                  per_cluster_data, master, event, irq, ran, fault>>
  BY DEF list
<1> HIDE DEF OpenLock, CloseLock, CloseEnter
<1>9. TypeOK' /\ \A q \in Thread \ {p} : q \in opened' <=> q \in opened
  <2>1. opened' \subseteq Thread /\ \A q \in Thread \ {p} : q \in opened' <=> q \in opened
    BY <1>1, <1>2 DEF TypeOK
  <2> QED
    BY <1>2, <1>3, <1>7, <1>8, <2>1 DEF TypeOK
<1>10. Cl'.ready /\ Cl'.cluster_is_on = Cardinality(Users')
  BY <1>4, <1>6, <1>7 DEF Open
<1>11. \A q \in Thread \ {p} : /\ pc'[q] = pc[q] /\ pc[q] \notin Cycling
                               /\ device'[q] = device[q]
                               /\ q \in opened' <=> q \in opened
  BY <1>3, <1>8, <1>9
<1>12. pc'[p] \in {"power", "count", "stop"} /\ device'[p] = per_cluster_data
  BY <1>3, <1>5, <1>8
<1> QED
  BY <1>4, <1>6, <1>8, <1>9, <1>10, <1>11, <1>12, OpenStep

\* The count goes up by the thread that has the cluster from now on, and down by
\* the one that had it.
LEMMA CountOInv ==
  ASSUME OInv, CyclesApart, CyclesApart', NEW p \in Thread,
         OpenStart(p) \/ CloseCount(p)
  PROVE  OInv'
<1> USE DEF OpenStart, CloseCount, At
<1>1. PICK l \in {"idle", "stopped"} :
        /\ Goto(p, l)
        /\ \/ OpenStart(p) /\ pc[p] = "power" /\ l = "idle" /\ opened' = opened \cup {p}
           \/ CloseCount(p) /\ pc[p] = "count" /\ l = "stopped" /\ opened' = opened
  OBVIOUS
<1>2. l \in Pc /\ pc[p] \in Cycling /\ TypeOK
  BY <1>1 DEF Pc, Cycling, OInv, Placed
<1> DEFINE coming == l = "idle"
<1>3. /\ pc' \in [Thread -> Pc] /\ pc'[p] = l
      /\ \A q \in Thread \ {p} : pc'[q] = pc[q] /\ pc[q] \notin Cycling
  <2> HIDE DEF OpenStart, CloseCount
  <2> QED
    BY <1>1, <1>2, Alone
<1>4. /\ Open /\ per_cluster_data \in Block /\ Cl \in Driver /\ Cl.ready
      /\ Cl = drv[per_cluster_data] /\ drv \in [Block -> Driver]
  <2>1. pc[p] \in Cycling \ {"alloc", "clear"} /\ pc[p] # "setup"
    BY <1>1 DEF Cycling
  <2> HIDE DEF OpenStart, CloseCount
  <2> QED
    BY <1>3, <2>1, AloneOpen
<1>5. /\ device[p] = per_cluster_data /\ p \notin opened
      /\ Cl.cluster_is_on = Cardinality(Users)
  <2>1. pc[p] \in {"power", "count"}
    BY <1>1
  <2> HIDE DEF OpenStart, CloseCount
  <2> QED
    BY <1>2, <1>4, <2>1 DEF Open, Users, OInv, Placed
<1>6. /\ p \in Users <=> ~coming
      /\ Users' = IF coming THEN Users \cup {p} ELSE Users \ {p}
  <2>1. /\ p \in Users <=> ~coming
        /\ p \in Users' <=> coming
    BY <1>1, <1>3, <1>5 DEF Users
  <2>2. \A q \in Thread \ {p} : q \in Users' <=> q \in Users
    BY <1>1, <1>3 DEF Users
  <2>3. Users' \subseteq Thread /\ Users \subseteq Thread
    BY <1>1, <1>2 DEF Users, TypeOK
  <2> HIDE DEF OpenStart, CloseCount, coming
  <2> QED
    BY <2>1, <2>2, <2>3
<1> DEFINE n == Cardinality(Users')
<1>7. /\ n = IF coming THEN Cl.cluster_is_on + 1 ELSE Cl.cluster_is_on - 1
      /\ n \in 0..Cardinality(Thread)
  <2> HIDE DEF OpenStart, CloseCount, coming
  <2> QED
    BY <1>2, <1>5, <1>6, CardUsers
<1>8. PICK d \in Driver : Set(per_cluster_data, d) /\ d.ready /\ d.cluster_is_on = n
  <2> DEFINE e == [Cl EXCEPT !.cluster_is_on = n]
             g == [e EXCEPT !.powerstate_mutex = NULL]
             h == [g EXCEPT !.fifo_access = NULL]
  <2>1. Set(per_cluster_data, g) \/ Set(per_cluster_data, h)
    <3>1. CASE OpenStart(p) /\ coming
      BY <1>4, <1>5, <1>7, <3>1 DEF Data
    <3>2. CASE CloseCount(p) /\ ~coming
      BY <1>4, <1>5, <1>7, <3>2 DEF Data, CountAfterClose
    <3> QED
      BY <1>1, <3>1, <3>2
  <2> HIDE DEF OpenStart, CloseCount, n
  <2>2. e \in Driver /\ e.ready /\ e.cluster_is_on = n
    <3>1. e \in Driver
      BY <1>4, <1>7, DriverFields
    <3> QED
      BY <1>4, <3>1 DEF Driver
  <2> HIDE DEF e
  <2>3. g \in Driver /\ g.ready /\ g.cluster_is_on = n
    <3>1. g \in Driver
      BY <2>2, DriverFields
    <3> QED
      BY <2>2, <3>1 DEF Driver
  <2> HIDE DEF g
  <2>4. h \in Driver /\ h.ready /\ h.cluster_is_on = n
    <3>1. h \in Driver
      BY <2>3, DriverFields
    <3> QED
      BY <2>3, <3>1 DEF Driver
  <2> HIDE DEF h
  <2> QED
    BY <2>1, <2>3, <2>4
<1>9. UNCHANGED <<device, local, task, stacks, batch, orphans, next, sent, live,
                  per_cluster_data, event, irq, ran, fault>>
  OBVIOUS
<1>10. /\ master' \in [pc : MasterPc, s5 : Block \cup {NULL},
                       s6 : Thread \cup {NULL}, data : Block \cup {NULL}]
       /\ master'.pc \in {"run", "pop", "free", "mail", "full"} => master'.s6 \in Thread
  <2>1. master' = master \/ master' = [master EXCEPT !.pc = "ready"]
    BY <1>2 DEF MasterGoto, TypeOK
  <2> HIDE DEF OpenStart, CloseCount
  <2> QED
    BY <2>1 DEF OInv, Placed, TypeOK, MasterPc
<1>11. opened' \subseteq Thread /\ \A q \in Thread \ {p} : q \in opened' <=> q \in opened
  BY <1>1, <1>2 DEF TypeOK
<1> HIDE DEF OpenStart, CloseCount, n
<1>12. drv' \in [Block -> Driver] /\ Cl' = d
  BY <1>2, <1>4, <1>8, <1>9, Updating
<1>13. TypeOK'
  BY <1>2, <1>3, <1>9, <1>10, <1>11, <1>12 DEF TypeOK
<1>14. Placed'
  <2>1. \A q \in Thread \ {p} : /\ pc'[q] \notin Cycling
                                /\ pc'[q] \in Inside \ Cycling => q \in opened'
    BY <1>3, <1>11 DEF OInv, Placed
  <2>2. /\ pc'[p] \in Cycling => p \notin opened'
        /\ pc'[p] \notin Inside \ Cycling
    BY <1>1, <1>3, <1>5 DEF Inside, Cycling
  <2> QED
    BY <1>10, <1>13, <2>1, <2>2 DEF Placed
<1>15. Open'
  <2>1. \A q \in Thread \ {p} :
          /\ pc'[q] \notin {"alloc", "clear", "setup", "cleanup"}
          /\ q \in Users' \/ pc'[q] \in {"start", "power", "stopped", "cleanup"} =>
               device'[q] = per_cluster_data
    BY <1>3, <1>4, <1>9, <1>11 DEF Open, Users, Cycling
  <2>2. pc'[p] \in Cycling \/ Users' # {}
    BY <1>3, <1>6 DEF Cycling
  <2>3. pc'[p] \in {"idle", "stopped"}
    BY <1>3
  <2> QED
    BY <1>4, <1>5, <1>8, <1>9, <1>12, <2>1, <2>2, <2>3 DEF Open, n
<1> QED
  BY <1>14, <1>15 DEF OInv, Owned

\* The thread that leaves last stays to free the driver data.
LEMMA CloseReadOInv ==
  ASSUME OInv, CyclesApart, CyclesApart', NEW p \in Thread, CloseRead(p)
  PROVE  OInv'
<1> DEFINE l == IF Data(p).cluster_is_on = 0 THEN "cleanup" ELSE "idle"
<1>1. /\ pc[p] = "stopped" /\ Goto(p, l) /\ TypeOK
      /\ UNCHANGED <<device, opened, local, task, stacks, batch, orphans, list, live,
                     per_cluster_data, master, event, irq, ran, fault>>
  BY DEF CloseRead, At, LastUser, OInv, Placed
<1>2. l \in Pc /\ pc[p] \in Cycling
  BY <1>1 DEF Pc, Cycling
<1> HIDE DEF l
<1>3. /\ pc' \in [Thread -> Pc] /\ pc'[p] = l
      /\ \A q \in Thread \ {p} : pc'[q] = pc[q] /\ pc[q] \notin Cycling
  BY <1>1, <1>2, Alone
<1>4. /\ Open /\ per_cluster_data \in Block /\ Cl \in Driver /\ Cl.ready
      /\ p \notin opened
  <2>1. Open /\ per_cluster_data \in Block /\ Cl \in Driver /\ Cl.ready
    BY <1>1, <1>3, AloneOpen DEF Cycling
  <2> QED
    BY <1>1, <1>2, <2>1 DEF OInv, Placed
<1>5. device[p] = per_cluster_data /\ Cl.cluster_is_on = Cardinality(Users)
  BY <1>1, <1>4 DEF Open
<1>6. \/ l = "cleanup" /\ Users = {}
      \/ l = "idle" /\ Users # {}
  BY <1>1, <1>5, CardUsers DEF Data, Cl, l
<1>7. Users' = Users
  BY <1>1, <1>3, <1>6 DEF Users
<1>8. TypeOK' /\ Cl' = Cl
  BY <1>1, <1>3 DEF TypeOK, list, Cl
<1>9. \A q \in Thread \ {p} : /\ pc'[q] = pc[q] /\ pc[q] \notin Cycling
                              /\ device'[q] = device[q]
                              /\ q \in opened' <=> q \in opened
  BY <1>1, <1>3
<1>10. pc'[p] \in {"idle", "cleanup"} /\ p \notin opened'
  BY <1>1, <1>3, <1>4, <1>6
<1>11. Cl'.ready /\ Cl'.cluster_is_on = Cardinality(Users')
  BY <1>4, <1>5, <1>7, <1>8
<1>12. /\ pc'[p] = "cleanup" => Users' = {}
       /\ pc'[p] = "idle" => Users' # {}
       /\ device'[p] = per_cluster_data
  BY <1>1, <1>3, <1>5, <1>6, <1>7
<1> QED
  BY <1>1, <1>4, <1>8, <1>9, <1>10, <1>11, <1>12, OpenStep

\* It frees the block and forgets it; nobody has the cluster meanwhile.
LEMMA CloseFreeOInv ==
  ASSUME OInv, CyclesApart, CyclesApart', NEW p \in Thread,
         CloseFree(p) \/ CloseClear(p)
  PROVE  OInv'
<1>1. PICK l \in {"clear", "idle"} :
        /\ Goto(p, l)
        /\ \/ CloseFree(p) /\ pc[p] = "cleanup" /\ l = "clear"
           \/ CloseClear(p) /\ pc[p] = "clear" /\ l = "idle"
  BY DEF CloseFree, CloseClear, At
<1>2. l \in Pc /\ pc[p] \in Cycling /\ TypeOK /\ p \notin opened
  BY <1>1 DEF Pc, Cycling, OInv, Placed
<1>3. /\ pc' \in [Thread -> Pc] /\ pc'[p] = l
      /\ \A q \in Thread \ {p} : pc'[q] = pc[q] /\ pc[q] \notin Cycling
  BY <1>1, <1>2, Alone
<1>4. UNCHANGED <<device, opened, local, task, stacks, batch, orphans, list,
                  master, event, irq, ran, fault>>
  BY DEF CloseFree, CloseClear
<1>5. Users' = Users
  <2>1. pc[p] \notin {"stop", "count"} /\ pc'[p] \notin {"stop", "count"}
    BY <1>1, <1>3
  <2> QED
    BY <1>3, <1>4, <2>1 DEF Users
<1>6. CASE CloseFree(p) /\ pc[p] = "cleanup" /\ l = "clear"
  <2>1. Open /\ per_cluster_data \in Block
    BY <1>2, <1>3, <1>6, AloneOpen DEF Cycling
  <2>2. Users = {} /\ device[p] = per_cluster_data /\ live = {per_cluster_data}
    BY <1>6, <2>1 DEF Open
  <2>3. live' = {} /\ per_cluster_data' = per_cluster_data
    BY <1>6, <2>2 DEF CloseFree, LiveAfterClose
  <2>4. TypeOK'
    BY <1>2, <1>3, <1>4, <2>3 DEF TypeOK, list
  <2>5. Placed'
    BY <1>2, <1>3, <1>4, <1>6, <2>4 DEF OInv, Placed, Inside, Cycling
  <2>6. Freed'
    BY <1>3, <1>5, <1>6, <2>1, <2>2, <2>3 DEF Freed
  <2> QED
    BY <2>5, <2>6 DEF OInv, Owned
<1>7. CASE CloseClear(p) /\ pc[p] = "clear" /\ l = "idle"
  <2>1. Freed
    BY <1>7 DEF OInv, Owned, Open, Closed
  <2>2. live' = {} /\ per_cluster_data' = NULL /\ Users' = {}
    BY <1>5, <1>7, <2>1 DEF CloseClear, Freed
  <2>3. TypeOK'
    BY <1>2, <1>3, <1>4, <2>2 DEF TypeOK, list
  <2>4. \A q \in Thread : pc'[q] = "idle"
    <3>1. \A q \in Thread \ {p} : pc[q] \notin Inside \ Cycling
      BY <2>1 DEF OInv, Placed, Freed, Users
    <3>2. Pc = Inside \cup Cycling \cup {"idle"}
      BY DEF Pc, Inside, Cycling
    <3> QED
      BY <1>2, <1>3, <1>7, <3>1, <3>2 DEF TypeOK
  <2>5. Placed'
    BY <1>4, <2>3, <2>4 DEF OInv, Placed, Inside, Cycling
  <2>6. Closed'
    BY <2>2, <2>4 DEF Closed
  <2> QED
    BY <2>5, <2>6 DEF OInv, Owned
<1> QED
  BY <1>1, <1>6, <1>7

(***************************************************************************)
(* The invariant, and what follows from it                                 *)
(***************************************************************************)

LEMMA NextOInv ==
  ASSUME OInv, CyclesApart, CyclesApart', [Next]_vars
  PROVE  OInv'
<1>1. CASE \E p \in Thread :
             \/ OpenRead(p) \/ CloseEnter(p) \/ FreeEnter(p)
             \/ \E created \in BOOLEAN : SendEnter(p, created)
  BY <1>1, OpenReadOInv, OpenCloseLockOInv, LocalOInv, SendEnterOInv
<1>2. CASE \E p \in Thread : ThreadStep(p)
  BY <1>2, OpenAllocOInv, OpenSetupOInv, OpenCloseLockOInv, CountOInv, CloseReadOInv,
     CloseFreeOInv, LockOInv, LocalOInv, PushOInv DEF ThreadStep
<1>3. CASE MasterStep
  BY <1>3, MasterLocalOInv, MasterListOInv, MailOInv DEF MasterStep
<1>4. CASE Handler
  BY <1>4, MailOInv
<1>5. CASE Fault
  <2>1. UNCHANGED <<fc, list, live, per_cluster_data, master, event, irq, ran>>
    BY <1>5 DEF Fault
  <2>2. fault' \in BOOLEAN
    BY <1>5 DEF Fault
  <2>3. TypeOK'
    BY <2>1, <2>2 DEF OInv, Placed, TypeOK, fc, list
  <2> QED
    BY <2>1, <2>3, ParallelOInv DEF fc, list, OInv, Placed
<1>6. CASE UNCHANGED vars
  <2>1. TypeOK'
    BY <1>6 DEF OInv, Placed, TypeOK, vars
  <2> QED
    BY <1>6, <2>1, ParallelOInv DEF vars, OInv, Placed
<1> QED
  BY <1>1, <1>2, <1>3, <1>4, <1>5, <1>6 DEF Next

LEMMA ApartInvariance == Spec /\ []CyclesApart => []OInv
<1>1. Init => OInv
  BY InitOInv
<1>2. OInv /\ CyclesApart /\ CyclesApart' /\ [Next]_vars => OInv'
  BY NextOInv
<1> QED
  BY <1>1, <1>2, PTL DEF Spec

\* If no two threads are inside pi_cluster_open and pi_cluster_close at a time,
\* then whenever every device is closed and every thread out of the driver, the
\* driver data is freed and forgotten, although cluster_is_on is read after its
\* mutex was released: for any number of threads and of openings.
THEOREM ApartAllFreed == Spec /\ []CyclesApart => []AllFreed
<1>1. OInv => AllFreed
  <2> SUFFICES ASSUME OInv, opened = {}, \A p \in Thread : pc[p] = "idle"
               PROVE  live = {} /\ per_cluster_data = NULL
    BY DEF AllFreed
  <2>1. Users = {} /\ \A p \in Thread : pc[p] \notin Cycling
    BY DEF Users, Cycling
  <2> QED
    BY <2>1 DEF OInv, Owned, Open, Closed, Freed
<1> QED
  BY <1>1, ApartInvariance, PTL

\* The same for one thread that opens and closes the cluster, while the others
\* only use it or do not: no two can be inside then.
THEOREM OneCyclerAllFreed ==
  ASSUME OneCycler
  PROVE  Spec => []AllFreed
<1> DEFINE Cycles(p) == Role[p] \cap {"open", "close"} # {}
           Keep == /\ pc = [p \in Thread |-> pc[p]]
                   /\ \A p \in Thread : pc[p] \in Cycling => Cycles(p)
<1>1. Init => Keep
  BY DEF Init, Cycling
<1>2. Keep /\ [Next]_vars => Keep'
  <2> SUFFICES ASSUME Keep, [Next]_vars PROVE Keep'
    OBVIOUS
  <2>1. ASSUME NEW p \in Thread, NEW l, Goto(p, l),
               l \in Cycling => pc[p] \in Cycling \/ Cycles(p)
        PROVE  Keep'
    BY <2>1 DEF Goto
  <2>2. CASE UNCHANGED pc
    BY <2>2
  <2>3. ASSUME NEW p \in Thread, OpenRead(p) \/ CloseEnter(p)
        PROVE  Keep'
    <3>1. Cycles(p) /\ \E l : Goto(p, l)
      BY <2>3 DEF OpenRead, CloseEnter
    <3> QED
      BY <2>1, <3>1
  <2>4. ASSUME NEW p \in Thread,
               FreeEnter(p) \/ \E created \in BOOLEAN : SendEnter(p, created)
        PROVE  Keep'
    <3>1. \E l : Goto(p, l) /\ l \notin Cycling
      BY <2>4 DEF FreeEnter, SendEnter, Cycling
    <3> QED
      BY <2>1, <3>1
  <2>5. ASSUME NEW p \in Thread, ThreadStep(p)
        PROVE  Keep'
    <3>1. CASE \/ OpenAlloc(p) \/ OpenFails(p) \/ OpenSetup(p) \/ OpenLock(p)
               \/ OpenStart(p) \/ CloseLock(p) \/ CloseCount(p) \/ CloseRead(p)
               \/ CloseFree(p) \/ CloseClear(p)
      <4>1. pc[p] \in Cycling
        BY <3>1 DEF OpenAlloc, OpenFails, OpenSetup, OpenLock, OpenStart, CloseLock,
                    CloseCount, CloseRead, CloseFree, CloseClear, At, Cycling
      <4>2. \E l : Goto(p, l)
        BY <3>1 DEF OpenAlloc, OpenFails, OpenSetup, OpenLock, OpenStart, CloseLock,
                    CloseCount, CloseRead, CloseFree, CloseClear
      <4> QED
        BY <2>1, <4>1, <4>2
    <3>2. CASE \/ SendLock(p) \/ SendFails(p) \/ SendStacks(p) \/ PushLock(p)
               \/ Push(p) \/ Wake(p) \/ WaitOn(p) \/ FreeLock(p) \/ FreeLook(p)
      <4>1. \E l : Goto(p, l) /\ l \notin Cycling
        BY <3>2 DEF SendLock, SendFails, SendStacks, PushLock, Push, Wake, WaitOn,
                    FreeLock, FreeLook, Cycling
      <4> QED
        BY <2>1, <4>1
    <3> QED
      BY <2>5, <3>1, <3>2 DEF ThreadStep
  <2>6. CASE MasterStep \/ Handler \/ Fault
    <3>1. UNCHANGED pc
      BY <2>6 DEF MasterStep, MasterReady, MasterLoop, MasterSleep, MasterRun, MasterFinish,
                  MasterPop, MasterFree, MasterMail, MasterMailFull, MasterMailWait,
                  Handler, Fault, fc
    <3> QED
      BY <2>2, <3>1
  <2>7. CASE UNCHANGED vars
    BY <2>2, <2>7 DEF vars
  <2> QED
    BY <2>3, <2>4, <2>5, <2>6, <2>7 DEF Next
<1>3. Keep => CyclesApart
  BY DEF CyclesApart, OneCycler
<1> QED
  BY <1>1, <1>2, <1>3, ApartAllFreed, PTL DEF Spec

\* Nor does the driver then break a device it has opened: it is the one served,
\* it is on, and its mutexes work, until its own thread closes it, although
\* nothing keeps the cluster open.
THEOREM ApartOpenedReady == Spec /\ []CyclesApart => []OpenedReady
<1>1. OInv => OpenedReady
  <2> SUFFICES ASSUME OInv, NEW p \in opened
               PROVE  /\ device[p] = per_cluster_data /\ Sound(device[p])
                      /\ Data(p).cluster_is_on >= Cardinality(opened)
    BY DEF OpenedReady
  <2>1. p \in Thread /\ TypeOK
    BY DEF OInv, Placed, TypeOK
  <2>2. /\ Open /\ device[p] = per_cluster_data /\ Data(p) = Cl
        /\ Cl = drv[per_cluster_data]
    BY <2>1, Using DEF Cl
  <2>3. p \in Users /\ opened \subseteq Users
    BY DEF Users
  <2>4. Sound(device[p])
    BY <2>2, <2>3 DEF Open, Sound
  <2>5. /\ IsFiniteSet(Users) /\ Cardinality(Users) \in Nat
        /\ Cl.cluster_is_on = Cardinality(Users)
    BY <2>1, <2>2, CardUsers DEF Open
  <2>6. Cardinality(opened) <= Cardinality(Users) /\ Cardinality(opened) \in Nat
    BY <2>3, <2>5, FS_Subset, FS_CardinalityType
  <2> QED
    BY <2>2, <2>4, <2>5, <2>6
<1> QED
  BY <1>1, ApartInvariance, PTL

\* And the threads make no wrong access: freed driver data, which closing leaves
\* to be used (MasterFault, HandlerFault), is then used by the master core or by
\* the interrupt handler, never by a thread.
ThreadsSound == \A p \in Thread : ~ThreadFault(p)

THEOREM ApartThreadsSound == Spec /\ []CyclesApart => []ThreadsSound
<1>1. OInv /\ CyclesApart => ThreadsSound
  <2> SUFFICES ASSUME OInv, CyclesApart, NEW p \in Thread, ThreadFault(p)
               PROVE  FALSE
    BY DEF ThreadsSound
  <2>1. CASE pc[p] \in Cycling
    <3>1. \A q \in Thread \ {p} : pc[q] \notin Cycling
      BY <2>1 DEF CyclesApart
    <3>2. pc[p] \in {"start", "power", "stop", "count", "stopped", "cleanup"}
      BY <2>1 DEF ThreadFault, Cycling
    <3>3. Open /\ Cl.ready
      BY <3>1, <3>2, AloneOpen DEF Cycling
    <3>4. device[p] = per_cluster_data
      BY <3>2, <3>3 DEF Open, Users
    <3> QED
      BY <3>3, <3>4 DEF ThreadFault, Sound, Open, Cl
  <2>2. CASE pc[p] \notin Cycling
    <3>1. p \in opened /\ pc[p] \notin {"stopped", "cleanup"}
      BY <2>2 DEF ThreadFault, OInv, Placed, Inside, Cycling
    <3>2. Open /\ device[p] = per_cluster_data /\ p \in Users
      BY <3>1, Using DEF Users
    <3>3. Sound(device[p])
      BY <3>2 DEF Open, Sound, Cl
    <3> QED
      BY <3>1, <3>3 DEF ThreadFault
  <2> QED
    BY <2>1, <2>2
<1> QED
  BY <1>1, ApartInvariance, PTL

=============================================================================
