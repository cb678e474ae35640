------------------------ MODULE ClusterServiceProofs ------------------------
(***************************************************************************)
(* Two threads that send in batches, while others open, close and wait:     *)
(* the driver's list is the queue of accepted tasks, a sender hears of its *)
(* task only after it has run, nobody waits in vain, and the driver        *)
(* implements DelegationService.  Run cluster_lost shows that it does not  *)
(* when more than two tasks may be in the list.  The mutual exclusion of   *)
(* the driver's locks needs only one thread that keeps the cluster open.   *)
(***************************************************************************)
EXTENDS ClusterProofs

Sender == {p \in Thread : Role[p] \cap {"send", "send_async"} # {}}

Pairs == Batched /\ \A p, q, r \in Sender : p = q \/ q = r \/ p = r

\* Where a thread has prepared its task and not handed it over yet.
Sending == {"send", "check", "push", "pushing"}

\* Where a task is between its acceptance and the notification of its sender.
InMaster == IF master.pc \in {"free", "mail", "full"} THEN {master.s6} ELSE {}
InMail == {Cl.task_to_fc} \ {NULL}
Pending == Elements(sent) \cup InMaster \cup InMail

LastSent == IF sent = <<>> THEN NULL ELSE sent[Len(sent)]

\* A task in use was sent in this batch; it is not handed over twice.
Prepared ==
  \A p \in Thread :
    /\ task[p].destroy => p \in batch /\ p \in Sender
    /\ pc[p] \in Sending => task[p].destroy /\ ~task[p].done /\ p \notin Pending

Underway == \A p \in Pending : task[p].destroy /\ ~task[p].done

\* A task is in one place.
Apart ==
  /\ Once(sent)
  /\ Elements(sent) \cap InMaster = {} /\ Elements(sent) \cap InMail = {}
  /\ InMaster \cap InMail = {}

Linked ==
  /\ Represents(sent, Cl.task_first, LastSent, next, NULL)
  /\ Cl.task_last = NULL <=> sent = <<>>

\* task_last is stale only when no sender can push before the list is empty.
TailKept ==
  Cl.task_last # LastSent => \A p \in Sender : p \in batch /\ pc[p] \notin Sending

\* A task has run when it is popped, and its stacks are freed when it is reported.
Accounted ==
  /\ \A p \in Thread : task[p].done => p \in ran /\ p \notin stacks
  /\ Finishing => master.s6 \in ran
  /\ InMail \subseteq ran /\ InMail \cap stacks = {}
  /\ master.pc \in {"mail", "full"} => master.s6 \notin stacks

SInv(k) ==
  /\ KInv(k)
  /\ Prepared /\ Underway /\ Apart /\ Linked /\ TailKept /\ Accounted

(***************************************************************************)
(* Frames                                                                  *)
(***************************************************************************)

LEMMA InitSInv ==
  ASSUME NEW k \in Thread, KeptOpen(k), Init
  PROVE  SInv(k)
<1>1. KInv(k)
  BY InitKInv
<1>2. Cl.task_first = NULL /\ Cl.task_last = NULL /\ Cl.task_to_fc = NULL
  <2>1. irq = FALSE /\ sent = <<>> /\ per_cluster_data \in Block
    BY <1>1 DEF Init, KInv, Served
  <2> QED
    BY <2>1 DEF Init, Cl, DriverZero
<1>3. sent = <<>> /\ Elements(sent) = {} /\ Once(sent) /\ InMaster = {} /\ InMail = {}
      /\ LastSent = NULL /\ ~Finishing /\ DOMAIN sent = {}
  BY <1>2, EmptyOnce, EmptySeq DEF Init, InMaster, InMail, LastSent, Finishing
<1>4. Prepared /\ Underway /\ Apart /\ Accounted
  BY <1>3 DEF Init, Prepared, Underway, Apart, Accounted, Pending, Sending, PiTaskZero
<1>5. Linked /\ TailKept
  BY <1>2, <1>3 DEF Linked, TailKept, Represents
<1> QED
  BY <1>1, <1>4, <1>5 DEF SInv

\* A step that moves no task and prepares none.
LEMMA ServiceFrame ==
  ASSUME NEW k \in Thread, SInv(k), KInv(k)',
         UNCHANGED <<task, stacks, next, sent, ran, batch>>,
         UNCHANGED <<InMaster, Cl.task_to_fc, Cl.task_first, Cl.task_last>>,
         master'.pc \in {"mail", "full"} =>
           master.pc \in {"mail", "full"} /\ master'.s6 = master.s6,
         Finishing' => Finishing /\ master'.s6 = master.s6,
         \A q \in Thread : pc'[q] \in Sending => pc[q] \in Sending
  PROVE  SInv(k)'
<1>1. UNCHANGED <<InMail, Pending, LastSent>>
  BY DEF InMail, Pending, LastSent
<1>2. Prepared' /\ Underway' /\ Apart'
  BY <1>1 DEF SInv, Prepared, Underway, Apart
<1>3. Linked' /\ TailKept'
  BY <1>1 DEF SInv, Linked, TailKept, Sender
<1>4. Accounted'
  BY <1>1 DEF SInv, Accounted
<1> QED
  BY <1>2, <1>3, <1>4 DEF SInv

(***************************************************************************)
(* Threads                                                                 *)
(***************************************************************************)

\* The steps of a thread that concern locks, the device or the power of the
\* cluster.
LEMMA OtherSInv ==
  ASSUME NEW k \in Thread, SInv(k), NEW p \in Thread,
         \/ OpenRead(p) \/ CloseEnter(p) \/ FreeEnter(p)
         \/ OpenLock(p) \/ OpenStart(p) \/ CloseLock(p) \/ CloseCount(p) \/ CloseRead(p)
         \/ SendLock(p) \/ PushLock(p) \/ Wake(p) \/ FreeLock(p) \/ FreeLook(p),
         KInv(k)'
  PROVE  SInv(k)'
<1>1. UNCHANGED <<task, stacks, next, sent, ran, batch>>
  BY DEF OpenRead, CloseEnter, FreeEnter, OpenLock, OpenStart, CloseLock, CloseCount,
         CloseRead, SendLock, PushLock, Wake, FreeLock, FreeLook, list
<1>2. UNCHANGED master
  <2>1. CASE OpenStart(p)
    <3>1. Data(p).cluster_is_on # 0
      <4>1. Data(p) = Cl
        BY <2>1, Serving DEF SInv, OpenStart, At, Inside
      <4> QED
        BY <4>1, UsersCount DEF SInv, KInv, Counted
    <3> QED
      BY <2>1, <3>1 DEF OpenStart
  <2> QED
    BY <2>1 DEF OpenRead, CloseEnter, FreeEnter, OpenLock, CloseLock, CloseCount,
                CloseRead, SendLock, PushLock, Wake, FreeLock, FreeLook
<1>3. UNCHANGED <<Cl.task_to_fc, Cl.task_first, Cl.task_last>>
  <2>1. ~Push(p)
    <3>1. Push(p) => sent' = Append(sent, p)
      BY DEF Push
    <3>2. Append(sent, p) # sent
      <4>1. sent \in Seq(Thread)
        BY DEF SInv, KInv, TypeOK
      <4>2. Len(Append(sent, p)) = Len(sent) + 1 /\ Len(sent) \in Nat
        BY <4>1, LenProperties, AppendProperties
      <4> QED
        BY <4>2
    <3> QED
      BY <1>1, <3>1, <3>2
  <2> QED
    BY <2>1, ThreadService DEF SInv, ThreadStep
<1>4. \A q \in Thread : pc'[q] \in Sending => pc[q] \in Sending
  <2>1. pc \in [Thread -> Pc]
    BY DEF SInv, KInv, TypeOK
  <2>2. CASE SendLock(p) \/ PushLock(p)
    BY <2>1, <2>2 DEF SendLock, PushLock, At, Goto, Sending
  <2>3. CASE Wake(p) \/ FreeLock(p) \/ FreeLook(p) \/ FreeEnter(p)
    <3>1. PICK l : Goto(p, l) /\ l \notin Sending
      BY <2>3 DEF Wake, FreeLock, FreeLook, FreeEnter, Sending
    <3> QED
      BY <2>1, <3>1 DEF Goto
  <2>4. CASE \/ OpenRead(p) \/ CloseEnter(p) \/ OpenLock(p) \/ OpenStart(p)
             \/ CloseLock(p) \/ CloseCount(p) \/ CloseRead(p)
    <3>1. PICK l : Goto(p, l) /\ l \notin Sending
      <4>1. per_cluster_data # NULL
        BY BlockAssumption DEF SInv, KInv, Served
      <4> QED
        BY <2>4, <4>1 DEF OpenRead, CloseEnter, OpenLock, OpenStart, CloseLock,
                          CloseCount, CloseRead, Sending
    <3> QED
      BY <2>1, <3>1 DEF Goto
  <2> QED
    BY <2>2, <2>3, <2>4
<1>5. UNCHANGED InMaster /\ Finishing' = Finishing
  BY <1>2 DEF InMaster, Finishing
<1> QED
  BY <1>1, <1>2, <1>3, <1>4, <1>5, ServiceFrame

\* Pending tasks are those of threads.
LEMMA PendingThreads ==
  ASSUME NEW k \in Thread, KInv(k)
  PROVE  Pending \subseteq Thread
<1>1. Elements(sent) \subseteq Thread
  BY DEF KInv, TypeOK, Elements
<1>2. InMaster \subseteq Thread
  BY DEF KInv, Attended, InMaster
<1>3. InMail \subseteq Thread
  BY DEF KInv, TypeOK, Served, Driver, Cl, InMail
<1> QED
  BY <1>1, <1>2, <1>3 DEF Pending

\* The task whose end the master core is dealing with is not yet reported.
LEMMA FinishingPending ==
  ASSUME NEW k \in Thread, SInv(k), Finishing \/ master.pc = "run"
  PROVE  /\ master.s6 \in Pending
         /\ master.pc \in {"run", "finish", "pop"} => sent # <<>> /\ master.s6 = Head(sent)
<1>1. CASE master.pc \in {"run", "finish", "pop"}
  <2>1. Cl.task_first # NULL /\ master.s6 = Cl.task_first
    BY <1>1 DEF SInv, KInv, Attended
  <2>2. sent # <<>> /\ master.s6 = sent[1] /\ sent \in Seq(Thread)
    BY <2>1 DEF SInv, Linked, Represents, KInv, TypeOK
  <2>3. Head(sent) = sent[1] /\ sent[1] \in Elements(sent)
    BY <2>2, TailOnce DEF SInv, Apart
  <2> QED
    BY <2>2, <2>3 DEF Pending
<1>2. CASE master.pc \in {"free", "mail", "full"}
  BY <1>2 DEF Pending, InMaster
<1> QED
  BY <1>1, <1>2 DEF Finishing

\* A batch is over when every task is back, and only then the next begins.
LEMMA SendEnterSInv ==
  ASSUME NEW k \in Thread, SInv(k), Pairs, NEW p \in Thread, NEW created \in BOOLEAN,
         SendEnter(p, created), KInv(k)'
  PROVE  SInv(k)'
<1> USE DEF SendEnter, At, list
<1>1. ~task[p].destroy /\ p \notin Pending /\ p \in Sender
  BY DEF SInv, Pairs, MaySend, AllBack, Prepared, Underway, Sender
<1>2. Cl' = Cl /\ UNCHANGED <<InMaster, InMail, Pending, LastSent, next, sent, stacks, master>>
  BY DEF Cl, InMaster, InMail, Pending, LastSent
<1>3. /\ task'[p].destroy /\ ~task'[p].done
      /\ \A q \in Thread \ {p} : task'[q] = task[q]
      /\ \A q \in Thread \ {p} : pc'[q] = pc[q]
      /\ pc'[p] = "send"
  BY DEF PiTaskBlock, SInv, KInv, TypeOK, Goto
<1>4. /\ p \in batch'
      /\ \A q \in Thread : task[q].destroy /\ q \in batch => q \in batch'
      /\ AllBack \/ batch' = batch \cup {p}
      /\ ran' = ran \ {p}
  BY DEF AllBack
<1> HIDE DEF SendEnter
<1>5. Prepared'
  BY <1>1, <1>2, <1>3, <1>4 DEF SInv, Prepared, Sender
<1>6. Underway'
  BY <1>1, <1>2, <1>3, PendingThreads DEF SInv, Underway
<1>7. Apart' /\ Linked'
  BY <1>2 DEF SInv, Apart, Linked
<1>8. TailKept'
  <2>1. CASE AllBack
    <3>1. Pending = {}
      BY <2>1, PendingThreads DEF AllBack, SInv, Underway
    <3>2. sent = <<>>
      <4>1. sent # <<>> => sent[1] \in Elements(sent)
        <5>1. sent \in Seq(Thread)
          BY DEF SInv, KInv, TypeOK
        <5> QED
          BY <5>1, SeqDef DEF Elements
      <4> QED
        BY <3>1, <4>1 DEF Pending
    <3> QED
      BY <1>2, <3>2 DEF SInv, Linked, TailKept, LastSent
  <2>2. CASE ~AllBack /\ p \notin batch
    BY <1>1, <1>2, <2>2 DEF SInv, TailKept
  <2>3. CASE ~AllBack /\ p \in batch
    BY <2>3 DEF Pairs, MaySend, SendEnter
  <2> QED
    BY <2>1, <2>2, <2>3
<1>9. Accounted'
  <2>1. Finishing => master.s6 \in Pending
    BY FinishingPending
  <2>2. InMail \subseteq Pending
    BY DEF Pending
  <2>3. Finishing' = Finishing
    BY <1>2 DEF Finishing
  <2>4. \A q \in Thread : task'[q].done => q \in ran' /\ q \notin stacks'
    BY <1>2, <1>3, <1>4 DEF SInv, Accounted
  <2> QED
    BY <1>1, <1>2, <1>4, <2>1, <2>2, <2>3, <2>4 DEF SInv, Accounted
<1> QED
  BY <1>5, <1>6, <1>7, <1>8, <1>9 DEF SInv

\* A task whose sending fails was not handed over; one that is destroyed after the
\* wait is no longer in use.
LEMMA LeaveSInv ==
  ASSUME NEW k \in Thread, SInv(k), NEW p \in Thread, SendFails(p) \/ WaitOn(p), KInv(k)'
  PROVE  SInv(k)'
<1> USE DEF SendFails, WaitOn, At, list
<1>1. p \notin Pending
  BY DEF SInv, Prepared, Underway, Sending
<1>2. UNCHANGED <<stacks, next, sent, ran, batch, master>>
  OBVIOUS
<1>3. UNCHANGED <<Cl.task_to_fc, Cl.task_first, Cl.task_last>>
  <2>1. ~Push(p)
    BY DEF Push
  <2> HIDE DEF SendFails, WaitOn
  <2> QED
    BY <2>1, ThreadService DEF SInv, ThreadStep
<1>4. UNCHANGED <<InMaster, InMail, Pending, LastSent>>
  BY <1>2, <1>3 DEF InMaster, InMail, Pending, LastSent
<1>5. /\ \A q \in Thread \ {p} : task'[q] = task[q] /\ pc'[q] = pc[q]
      /\ task'[p].destroy => task[p].destroy
      /\ task'[p].done => task[p].done
      /\ pc'[p] \in Sending => pc[p] \in Sending /\ task' = task
  BY DEF PiTaskZero, PiTaskDestroy, SInv, KInv, TypeOK, PiTaskT, Goto, Sending
<1> HIDE DEF SendFails, WaitOn
<1>6. Prepared'
  BY <1>2, <1>4, <1>5 DEF SInv, Prepared
<1>7. Underway'
  BY <1>1, <1>4, <1>5, PendingThreads DEF SInv, Underway
<1>8. Apart' /\ Linked'
  BY <1>2, <1>3, <1>4 DEF SInv, Apart, Linked
<1>9. TailKept'
  BY <1>2, <1>3, <1>4, <1>5 DEF SInv, TailKept, Sender
<1>10. Accounted'
  <2>1. \A q \in Thread : task'[q].done => q \in ran' /\ q \notin stacks'
    BY <1>2, <1>5 DEF SInv, Accounted
  <2> QED
    BY <1>2, <1>4, <2>1 DEF SInv, Accounted, Finishing
<1> QED
  BY <1>6, <1>7, <1>8, <1>9, <1>10 DEF SInv

\* The stacks are allocated for a task that is not yet in use.
LEMMA StacksSInv ==
  ASSUME NEW k \in Thread, SInv(k), NEW p \in Thread, SendStacks(p), KInv(k)'
  PROVE  SInv(k)'
<1> USE DEF SendStacks, At, list
<1>1. p \notin Pending /\ ~task[p].done
  BY DEF SInv, Prepared, Sending
<1>2. UNCHANGED <<task, next, sent, ran, batch, master, drv, per_cluster_data>>
  OBVIOUS
<1>3. UNCHANGED <<InMaster, InMail, Pending, LastSent, Finishing, Cl>>
  BY <1>2 DEF InMaster, InMail, Pending, LastSent, Finishing, Cl
<1>4. /\ \A q \in Thread \ {p} : q \in stacks' <=> q \in stacks
      /\ \A q \in Thread : pc'[q] \in Sending => pc[q] \in Sending
  BY DEF SInv, KInv, TypeOK, Goto, Sending
<1> HIDE DEF SendStacks
<1>5. Prepared' /\ Underway' /\ Apart'
  BY <1>2, <1>3, <1>4 DEF SInv, Prepared, Underway, Apart
<1>6. Linked' /\ TailKept'
  BY <1>2, <1>3, <1>4 DEF SInv, Linked, TailKept, Sender
<1>7. Accounted'
  <2>1. InMail \subseteq Thread /\ InMail \subseteq Pending
    BY PendingThreads DEF Pending, SInv
  <2>2. Finishing => master.s6 \in Pending /\ master.s6 \in Thread
    BY FinishingPending, PendingThreads DEF SInv
  <2>3. master.pc \in {"mail", "full"} => Finishing
    BY DEF Finishing
  <2> QED
    BY <1>1, <1>2, <1>3, <1>4, <2>1, <2>2, <2>3 DEF SInv, Accounted
<1> QED
  BY <1>5, <1>6, <1>7 DEF SInv

\* The second task of a batch is linked behind the first, and makes task_last
\* stale; both senders then have a task in use until the list is empty.
LEMMA PushSInv ==
  ASSUME NEW k \in Thread, SInv(k), Pairs, NEW p \in Thread, Push(p), KInv(k)'
  PROVE  SInv(k)'
<1>1. /\ pc[p] = "pushing" /\ sent' = Append(sent, p)
      /\ UNCHANGED <<task, stacks, ran, batch, master>>
  BY DEF Push, At
<1>2. /\ p \notin Pending /\ p \in Sender /\ task[p].destroy /\ ~task[p].done
      /\ sent \in Seq(Thread) /\ Once(sent)
      /\ p \in batch
  BY <1>1 DEF SInv, Prepared, Sending, KInv, TypeOK, Apart
<1>3. Cl.task_last = LastSent
  BY <1>1, <1>2 DEF SInv, TailKept, Sending
<1>4. /\ Cl'.task_to_fc = Cl.task_to_fc
      /\ IF Cl.task_last = NULL
           THEN Cl'.task_first = p /\ Cl'.task_last = p
           ELSE Cl'.task_first = Cl.task_first /\ Cl'.task_last = Cl.task_last
  BY PushList DEF SInv
<1>5. /\ sent' \in Seq(Thread) /\ sent' # <<>> /\ Once(sent')
      /\ Elements(sent') = Elements(sent) \cup {p}
      /\ LastSent' = p
  <2>1. /\ sent' \in Seq(Thread) /\ sent' # <<>>
        /\ Elements(sent') = Elements(sent) \cup {p}
        /\ Once(sent')
    BY <1>1, <1>2, AppendOnce DEF Pending
  <2>2. sent'[Len(sent')] = p
    BY <1>1, <1>2, AppendProperties
  <2> QED
    BY <2>1, <2>2 DEF LastSent
<1>6. UNCHANGED <<InMaster, InMail>> /\ Pending' = Pending \cup {p}
  BY <1>1, <1>4, <1>5 DEF InMaster, InMail, Pending
<1>7. /\ pc'[p] = "wake"
      /\ \A q \in Thread \ {p} : pc'[q] = pc[q]
  BY DEF Push, Goto, SInv, KInv, TypeOK
<1>8. Prepared' /\ Underway'
  BY <1>1, <1>2, <1>6, <1>7 DEF SInv, Prepared, Underway, Sending
<1>9. Apart'
  BY <1>2, <1>5, <1>6 DEF SInv, Apart, Pending
<1>10. Linked' /\ TailKept'
  <2>1. CASE sent = <<>>
    <3>1. Cl.task_last = NULL
      BY <2>1 DEF SInv, Linked
    <3>2. next'[p] = NULL /\ Cl'.task_first = p /\ Cl'.task_last = p
      <4>1. Data(p) = Cl
        BY <1>1, Serving DEF SInv, Inside
      <4> QED
        BY <1>4, <3>1, <4>1 DEF Push, SInv, KInv, TypeOK
    <3>3. Represents(Append(<<>>, p), p, p, next', NULL)
      BY <3>2, RepresentsFirst
    <3> QED
      BY <1>1, <1>5, <2>1, <3>2, <3>3, NamesAssumption DEF Linked, TailKept
  <2>2. CASE sent # <<>>
    <3> DEFINE q == Cl.task_last
    <3>1. q \in Elements(sent) /\ q \in Thread /\ q # NULL /\ q # p
      <4>1. q \in Elements(sent) /\ q \in Thread
        BY <1>2, <1>3, <2>2, RepresentsEnds, NamesAssumption DEF SInv, Linked
      <4> QED
        BY <1>2, <4>1, NamesAssumption DEF Pending
    <3>2. /\ next' = [next EXCEPT ![p] = NULL, ![q] = p]
          /\ Cl'.task_first = Cl.task_first /\ Cl'.task_last = q
      <4>1. Data(p) = Cl
        BY <1>1, Serving DEF SInv, Inside
      <4> QED
        BY <1>4, <3>1, <4>1 DEF Push
    <3>3. /\ next \in [Thread -> Thread \cup {NULL}]
          /\ next' \in [Thread -> Thread \cup {NULL}]
          /\ next'[p] = NULL /\ next'[q] = p
          /\ \A x \in Thread \ {p, q} : next'[x] = next[x]
      BY <3>1, <3>2 DEF SInv, KInv, TypeOK
    <3>4. Represents(sent, Cl.task_first, q, next, NULL)
      BY <1>3 DEF SInv, Linked
    <3>5. Represents(Append(sent, p), Cl.task_first, p, next', NULL)
      <4> HIDE DEF q
      <4> QED
        BY <1>2, <2>2, <3>3, <3>4, RepresentsAppend, NamesAssumption DEF Pending
    <3>6. Linked'
      BY <1>1, <1>5, <3>1, <3>2, <3>5 DEF Linked
    <3>7. task[q].destroy /\ q \in Sender /\ q \in batch
      BY <3>1 DEF Pending, SInv, Underway, Prepared
    <3>8. \A r \in Sender : r \in batch' /\ pc'[r] \notin Sending
      <4>1. \A r \in Sender : r \in {p, q}
        BY <1>2, <3>1, <3>7 DEF Pairs
      <4>2. pc[q] \notin Sending
        BY <3>1 DEF Pending, SInv, Prepared
      <4> QED
        BY <1>1, <1>2, <1>7, <3>1, <3>7, <4>1, <4>2 DEF Sending
    <3> QED
      BY <3>6, <3>8 DEF TailKept, Sender
  <2> QED
    BY <2>1, <2>2
<1>11. Accounted'
  BY <1>1, <1>6 DEF SInv, Accounted, Finishing
<1> QED
  BY <1>8, <1>9, <1>10, <1>11 DEF SInv

(***************************************************************************)
(* The master core and the interrupt handler                               *)
(***************************************************************************)

\* The steps in which the core does not touch the task it works on.
LEMMA MasterOtherSInv ==
  ASSUME NEW k \in Thread, SInv(k),
         \/ MasterReady \/ MasterLoop \/ MasterSleep
         \/ MasterMailFull \/ MasterMailWait,
         KInv(k)'
  PROVE  SInv(k)'
<1> USE DEF MasterReady, MasterLoop, MasterSleep, MasterMailFull, MasterMailWait,
            MasterAt, MasterGoto
<1>1. UNCHANGED <<task, stacks, next, sent, ran, batch, pc, drv, per_cluster_data>>
  BY DEF fc, list
<1>2. /\ master'.pc \in {"mail", "full"} =>
           master.pc \in {"mail", "full"} /\ master'.s6 = master.s6
      /\ Finishing' => Finishing /\ master'.s6 = master.s6
      /\ UNCHANGED InMaster
  BY DEF Finishing, InMaster, SInv, KInv, TypeOK
<1>3. UNCHANGED Cl
  BY <1>1 DEF Cl
<1> HIDE DEF MasterReady, MasterLoop, MasterSleep, MasterMailFull, MasterMailWait
<1> QED
  BY <1>1, <1>2, <1>3, ServiceFrame

LEMMA MasterRunSInv ==
  ASSUME NEW k \in Thread, SInv(k), MasterRun \/ MasterFinish, KInv(k)'
  PROVE  SInv(k)'
<1>1. UNCHANGED <<task, stacks, next, sent, batch, pc, per_cluster_data>>
  BY DEF MasterRun, MasterFinish, fc, list
<1>2. UNCHANGED <<Cl.task_to_fc, Cl.task_first, Cl.task_last>>
  <2>1. CASE MasterRun
    BY <2>1 DEF MasterRun, list, Cl
  <2>2. CASE MasterFinish
    <3>1. /\ per_cluster_data \in Block /\ Cl \in Driver
          /\ drv \in [Block -> Driver] /\ Cl = drv[per_cluster_data]
      BY DEF SInv, KInv, Served, TypeOK, Cl
    <3>2. Cl' = [Cl EXCEPT !.fifo_access = MASTER]
      BY <2>2, <3>1 DEF MasterFinish, Set, Cl
    <3> QED
      BY <3>1, <3>2 DEF Driver
  <2> QED
    BY <2>1, <2>2
<1>3. /\ master.pc \in {"run", "finish"} /\ master'.pc \in {"finish", "pop"}
      /\ master'.s6 = master.s6
      /\ master.s6 \in ran' /\ ran \subseteq ran'
  <2>1. CASE MasterRun
    BY <2>1 DEF MasterRun, MasterAt, MasterGoto, SInv, KInv, TypeOK
  <2>2. CASE MasterFinish
    <3>1. master' = [master EXCEPT !.pc = "pop", !.data = per_cluster_data,
                                   !.s6 = Cl.task_first]
      BY <2>2 DEF MasterFinish, Cl
    <3>2. master.pc = "finish" /\ master.s6 = Cl.task_first
      BY <2>2 DEF MasterFinish, MasterAt, SInv, KInv, Attended
    <3>3. master.s6 \in ran /\ ran' = ran
      BY <2>2, <3>2 DEF SInv, Accounted, Finishing, MasterFinish
    <3> QED
      BY <3>1, <3>2, <3>3 DEF SInv, KInv, TypeOK
  <2> QED
    BY <2>1, <2>2
<1>4. UNCHANGED <<InMaster, InMail, Pending, LastSent>>
  BY <1>1, <1>2, <1>3 DEF InMaster, InMail, Pending, LastSent
<1>5. Prepared' /\ Underway' /\ Apart' /\ Linked' /\ TailKept'
  BY <1>1, <1>2, <1>4 DEF SInv, Prepared, Underway, Apart, Linked, TailKept, Sender
<1>6. Accounted'
  BY <1>1, <1>3, <1>4 DEF SInv, Accounted
<1> QED
  BY <1>5, <1>6 DEF SInv

\* The core pops the task it has run; the end of the list, stale or not, stays
\* unless the list is empty.
LEMMA MasterPopSInv ==
  ASSUME NEW k \in Thread, SInv(k), MasterPop, KInv(k)'
  PROVE  SInv(k)'
<1> DEFINE t == master.s6
           n == next[t]
<1>1. /\ UNCHANGED <<task, stacks, next, ran, batch, pc, per_cluster_data>>
      /\ sent' = Tail1(sent)
  BY DEF MasterPop, fc
<1>2. /\ t = Cl.task_first /\ t \in Thread /\ Cl.task_last \in Thread
      /\ Cl'.task_to_fc = Cl.task_to_fc /\ Cl'.task_first = n
      /\ Cl'.task_last = IF n = NULL THEN NULL ELSE Cl.task_last
      /\ master.pc = "pop" /\ master'.pc = "free" /\ master'.s6 = t
  BY PopList DEF SInv, LastAfterPop, KInv, TypeOK
<1>3. sent \in Seq(Thread) /\ sent # <<>> /\ t = Head(sent) /\ Once(sent)
  BY <1>2, FinishingPending DEF SInv, KInv, TypeOK, Finishing, Apart
<1>4. /\ sent' = Tail(sent) /\ Once(sent')
      /\ t \in Elements(sent) /\ Elements(sent') = Elements(sent) \ {t}
  BY <1>1, <1>3, TailOnce DEF Tail1
<1>5. /\ InMaster = {} /\ InMaster' = {t} /\ InMail' = InMail /\ Pending' = Pending
  <2>1. InMaster = {} /\ InMaster' = {t} /\ InMail' = InMail
    BY <1>2 DEF InMaster, InMail
  <2> QED
    BY <1>4, <2>1 DEF Pending
<1>6. Prepared' /\ Underway'
  BY <1>1, <1>5 DEF SInv, Prepared, Underway
<1>7. Apart'
  BY <1>4, <1>5 DEF SInv, Apart
<1>8. /\ Represents(sent', n, IF n = NULL THEN NULL ELSE LastSent, next, NULL)
      /\ n = NULL <=> sent' = <<>>
  BY <1>2, <1>3, <1>4, RepresentsTail, NamesAssumption DEF SInv, Linked
<1>9. LastSent' = IF n = NULL THEN NULL ELSE LastSent
  BY <1>8 DEF LastSent, Represents
<1>10. Linked'
  BY <1>1, <1>2, <1>8, <1>9, NamesAssumption DEF Linked
<1>11. TailKept'
  BY <1>1, <1>2, <1>9 DEF SInv, TailKept, Sender
<1>12. Accounted'
  BY <1>1, <1>2, <1>5 DEF SInv, Accounted, Finishing
<1> QED
  BY <1>6, <1>7, <1>10, <1>11, <1>12 DEF SInv

LEMMA MasterFreeSInv ==
  ASSUME NEW k \in Thread, SInv(k), MasterFree, KInv(k)'
  PROVE  SInv(k)'
<1> USE DEF MasterFree, MasterAt, list
<1>1. /\ UNCHANGED <<task, next, sent, ran, batch, pc, drv, per_cluster_data>>
      /\ stacks' = stacks \ {master.s6}
      /\ master.pc = "free" /\ master'.pc = "mail" /\ master'.s6 = master.s6
  BY DEF StacksAfterFree, SInv, KInv, TypeOK
<1> HIDE DEF MasterFree
<1>2. UNCHANGED <<InMaster, InMail, Pending, LastSent, Cl>>
  BY <1>1 DEF InMaster, InMail, Pending, LastSent, Cl
<1>3. Prepared' /\ Underway' /\ Apart' /\ Linked' /\ TailKept'
  BY <1>1, <1>2 DEF SInv, Prepared, Underway, Apart, Linked, TailKept, Sender
<1>4. Accounted'
  BY <1>1, <1>2 DEF SInv, Accounted, Finishing
<1> QED
  BY <1>3, <1>4 DEF SInv

\* What filling and emptying the mailbox does.
LEMMA MailList ==
  ASSUME NEW k \in Thread, KInv(k)
  PROVE  /\ MasterMail \/ Handler =>
              Cl'.task_first = Cl.task_first /\ Cl'.task_last = Cl.task_last
         /\ MasterMail => /\ master.s6 \in Thread
                          /\ Cl.task_to_fc = NULL /\ Cl'.task_to_fc = master.s6
         /\ Handler => /\ Cl.task_to_fc \in Thread /\ Cl'.task_to_fc = NULL
                       /\ task' = [task EXCEPT ![Cl.task_to_fc] = PiTaskRelease(@)]
<1>1. /\ per_cluster_data \in Block /\ Cl \in Driver /\ drv \in [Block -> Driver]
      /\ Cl = drv[per_cluster_data]
  BY DEF KInv, Served, TypeOK, Cl
<1>2. CASE MasterMail
  <2>1. /\ master.data = per_cluster_data /\ master.s6 \in Thread
        /\ Cl.task_to_fc = NULL
    BY <1>1, <1>2 DEF MasterMail, MasterAt, MailboxFree, KInv, Attended
  <2>2. Cl' = [Cl EXCEPT !.task_to_fc = master.s6]
    BY <1>1, <1>2, <2>1 DEF MasterMail, Set, Cl
  <2>3. ~Handler
    BY <1>2, <2>1 DEF Handler, Cl
  <2> QED
    BY <1>1, <2>1, <2>2, <2>3 DEF Driver
<1>3. CASE Handler
  <2>1. Cl.task_to_fc # NULL /\ Cl.task_to_fc \in Thread
    BY <1>1, <1>3 DEF Handler, Driver
  <2>2. Cl' = [Cl EXCEPT !.task_to_fc = NULL]
    BY <1>1, <1>3 DEF Handler, Set, Cl
  <2>3. ~MasterMail
    BY <1>1, <2>1 DEF MasterMail, MasterAt, MailboxFree, KInv, Attended
  <2>4. task' = [task EXCEPT ![Cl.task_to_fc] = PiTaskRelease(@)]
    BY <1>1, <1>3 DEF Handler
  <2> QED
    BY <1>1, <2>1, <2>2, <2>3, <2>4 DEF Driver
<1> QED
  BY <1>2, <1>3

LEMMA MasterMailSInv ==
  ASSUME NEW k \in Thread, SInv(k), MasterMail, KInv(k)'
  PROVE  SInv(k)'
<1>1. UNCHANGED <<task, stacks, next, sent, ran, batch, pc, per_cluster_data>>
  BY DEF MasterMail, fc
<1>2. /\ Cl'.task_first = Cl.task_first /\ Cl'.task_last = Cl.task_last
      /\ master.s6 \in Thread /\ Cl.task_to_fc = NULL /\ Cl'.task_to_fc = master.s6
  BY MailList DEF SInv
<1>3. master.pc = "mail" /\ master'.pc = "loop"
  BY DEF MasterMail, MasterAt, MasterGoto, SInv, KInv, TypeOK
<1>4. /\ InMaster = {master.s6} /\ InMaster' = {}
      /\ InMail = {} /\ InMail' = {master.s6}
      /\ Pending' = Pending /\ LastSent' = LastSent
  BY <1>1, <1>2, <1>3, NamesAssumption DEF InMaster, InMail, Pending, LastSent
<1>5. Prepared' /\ Underway' /\ Apart' /\ Linked' /\ TailKept'
  BY <1>1, <1>2, <1>4 DEF SInv, Prepared, Underway, Apart, Linked, TailKept, Sender
<1>6. Accounted'
  BY <1>1, <1>3, <1>4 DEF SInv, Accounted, Finishing
<1> QED
  BY <1>5, <1>6 DEF SInv

LEMMA HandlerSInv ==
  ASSUME NEW k \in Thread, SInv(k), Handler, KInv(k)'
  PROVE  SInv(k)'
<1> DEFINE t == Cl.task_to_fc
<1>1. UNCHANGED <<stacks, next, sent, ran, batch, pc, master>>
  BY DEF Handler
<1>2. /\ Cl'.task_first = Cl.task_first /\ Cl'.task_last = Cl.task_last
      /\ t \in Thread /\ Cl'.task_to_fc = NULL
      /\ task' = [task EXCEPT ![t] = PiTaskRelease(@)]
  BY MailList DEF SInv
<1>3. /\ InMaster' = InMaster /\ InMail = {t} /\ InMail' = {}
      /\ LastSent' = LastSent
  BY <1>1, <1>2, NamesAssumption DEF InMaster, InMail, LastSent
<1>4. t \notin Pending' /\ Pending = Pending' \cup {t}
  BY <1>1, <1>3 DEF SInv, Apart, Pending
<1>5. /\ \A q \in Thread : task'[q].destroy = task[q].destroy
      /\ \A q \in Thread \ {t} : task'[q] = task[q]
  BY <1>2 DEF PiTaskRelease, SInv, KInv, TypeOK, PiTaskT
<1> HIDE DEF t
<1>6. Prepared'
  BY <1>1, <1>4, <1>5 DEF SInv, Prepared
<1>7. Underway'
  BY <1>4, <1>5, PendingThreads DEF SInv, Underway
<1>8. Apart' /\ Linked' /\ TailKept'
  BY <1>1, <1>2, <1>3 DEF SInv, Apart, Linked, TailKept, Sender
<1>9. Accounted'
  BY <1>1, <1>3, <1>5 DEF SInv, Accounted, Finishing
<1> QED
  BY <1>6, <1>7, <1>8, <1>9 DEF SInv

(***************************************************************************)
(* The invariant                                                           *)
(***************************************************************************)

LEMMA NextSInv ==
  ASSUME NEW k \in Thread, SInv(k), Pairs, [Next]_vars
  PROVE  SInv(k)'
<1>1. KInv(k)'
  BY NextKInv DEF SInv
<1>2. CASE \E p \in Thread :
             \/ OpenRead(p) \/ CloseEnter(p) \/ FreeEnter(p)
             \/ \E created \in BOOLEAN : SendEnter(p, created)
  BY <1>1, <1>2, OtherSInv, SendEnterSInv
<1>3. CASE \E p \in Thread : ThreadStep(p)
  <2> PICK p \in Thread : ThreadStep(p)
    BY <1>3
  <2>1. /\ ~OpenAlloc(p) /\ ~OpenFails(p) /\ ~OpenSetup(p)
        /\ ~CloseFree(p) /\ ~CloseClear(p)
    BY DEF OpenAlloc, OpenFails, OpenSetup, CloseFree, CloseClear, At, SInv, KInv,
           Served, Inside
  <2> QED
    BY <1>1, <2>1, OtherSInv, LeaveSInv, StacksSInv, PushSInv DEF ThreadStep
<1>4. CASE MasterStep \/ Handler
  BY <1>1, <1>4, MasterOtherSInv, MasterRunSInv, MasterPopSInv, MasterFreeSInv,
     MasterMailSInv, HandlerSInv DEF MasterStep
<1>5. CASE Fault
  BY <1>5, NoFault DEF SInv
<1>6. CASE UNCHANGED vars
  <2>1. UNCHANGED <<InMaster, InMail, Pending, LastSent, Cl, Finishing>>
    BY <1>6 DEF vars, InMaster, InMail, Pending, LastSent, Cl, Finishing
  <2> QED
    BY <1>1, <1>6, <2>1 DEF vars, SInv, Prepared, Underway, Apart, Linked, TailKept,
                            Accounted, Sender
<1> QED
  BY <1>2, <1>3, <1>4, <1>5, <1>6 DEF Next

LEMMA ServiceInvariance ==
  ASSUME NEW k \in Thread, KeptOpen(k), Pairs
  PROVE  Spec => []SInv(k)
<1>1. Init => SInv(k)
  BY InitSInv
<1>2. SInv(k) /\ [Next]_vars => SInv(k)'
  BY NextSInv
<1> QED
  BY <1>1, <1>2, PTL DEF Spec

(***************************************************************************)
(* Theorems                                                                *)
(***************************************************************************)

\* For two senders that send in batches, the links from task_first are the tasks
\* accepted and not finished, in order, whoever else opens, closes or waits.
THEOREM PairsQueueLinked ==
  ASSUME NEW k \in Thread, KeptOpen(k), Pairs
  PROVE  Spec => []QueueLinked
<1>1. SInv(k) => QueueLinked
  BY DEF SInv, Linked, LastSent, QueueLinked, Cl
<1> QED
  BY <1>1, ServiceInvariance, PTL

\* A sender that is notified may reuse its task and its memory: the task has run,
\* has left the list and its stacks are freed.
THEOREM PairsDoneMeansFinished ==
  ASSUME NEW k \in Thread, KeptOpen(k), Pairs
  PROVE  Spec => []DoneMeansFinished
<1>1. SInv(k) => DoneMeansFinished
  BY DEF SInv, Underway, Accounted, Pending, DoneMeansFinished
<1> QED
  BY <1>1, ServiceInvariance, PTL

\* pi_cluster_wait_free returns only when no task is executing or waiting.
THEOREM PairsWaitFreeWaits ==
  ASSUME NEW k \in Thread, KeptOpen(k), Pairs
  PROVE  Spec => WaitFreeWaits
<1> DEFINE Waits == \A p \in Thread :
                      pc[p] = "polling" /\ pc'[p] \in {"idle", "sent"}
                        => master.pc # "run" /\ sent = <<>>
<1>1. SInv(k) /\ [Next]_vars => [Waits]_vars
  <2> SUFFICES ASSUME SInv(k), Next, NEW p \in Thread,
                      pc[p] = "polling", pc'[p] \in {"idle", "sent"}
               PROVE  master.pc # "run" /\ sent = <<>>
    OBVIOUS
  <2>1. FreeLook(p)
    <3>1. pc \in [Thread -> Pc]
      BY DEF SInv, KInv, TypeOK
    <3>2. ~ MasterStep /\ ~Handler /\ ~Fault
      BY DEF MasterStep, MasterReady, MasterLoop, MasterSleep, MasterRun, MasterFinish,
             MasterPop, MasterFree, MasterMail, MasterMailFull, MasterMailWait,
             Handler, Fault, fc
    <3>3. PICK q \in Thread :
            \/ OpenRead(q) \/ CloseEnter(q) \/ FreeEnter(q)
            \/ \E created \in BOOLEAN : SendEnter(q, created)
            \/ ThreadStep(q)
      BY <3>2 DEF Next
    <3>4. \E l : Goto(q, l)
      BY <3>3 DEF OpenRead, CloseEnter, FreeEnter, SendEnter, ThreadStep, OpenAlloc,
                  OpenFails, OpenSetup, OpenLock, OpenStart, CloseLock, CloseCount,
                  CloseRead, CloseFree, CloseClear, SendLock, SendFails, SendStacks,
                  PushLock, Push, Wake, WaitOn, FreeLock, FreeLook
    <3>5. q = p
      BY <3>1, <3>4 DEF Goto
    <3> QED
      BY <3>3, <3>5 DEF OpenRead, CloseEnter, FreeEnter, SendEnter, ThreadStep, OpenAlloc,
                  OpenFails, OpenSetup, OpenLock, OpenStart, CloseLock, CloseCount,
                  CloseRead, CloseFree, CloseClear, SendLock, SendFails, SendStacks,
                  PushLock, Push, Wake, WaitOn, FreeLock, At
  <2>2. ~HasTask(Cl)
    <3>1. Data(p) = Cl
      BY <2>1, Serving DEF SInv, Inside, FreeLook, At
    <3>2. HasTask(Cl) => pc'[p] = "poll"
      BY <2>1, <3>1 DEF FreeLook, Goto, SInv, KInv, TypeOK
    <3> QED
      BY <3>2
  <2>3. Cl.task_first = NULL
    BY <2>2 DEF HasTask
  <2>4. sent = <<>>
    BY <2>3, RepresentsEnds, NamesAssumption DEF SInv, Linked, KInv, TypeOK
  <2> QED
    BY <2>3, <2>4 DEF SInv, KInv, Attended
<1>2. WaitFreeWaits <=> [][Waits]_vars
  BY PTL DEF WaitFreeWaits
<1> QED
  BY <1>1, <1>2, ServiceInvariance, PTL DEF Spec

(***************************************************************************)
(* The driver implements DelegationService                                 *)
(***************************************************************************)

Told == {p \in Thread : task[p].done}

\* What has run and is not told: the mailbox, then the task of the master core.
LEMMA FinishedForm ==
  ASSUME NEW k \in Thread, SInv(k)
  PROVE  /\ Mailbox = IF Cl.task_to_fc = NULL THEN <<>> ELSE <<Cl.task_to_fc>>
         /\ Mailbox \in Seq(Thread) /\ Finished \in Seq(Thread)
         /\ Finishing => Finished = Append(Mailbox, master.s6)
         /\ ~Finishing => Finished = Mailbox
<1>1. /\ per_cluster_data \in live /\ Cl.task_to_fc \in Thread \cup {NULL}
      /\ Finishing => master.s6 \in Thread
  <2>1. Finishing => master.s6 \in Thread
    BY FinishingPending, PendingThreads DEF SInv
  <2> QED
    BY <2>1 DEF SInv, KInv, Served, TypeOK, Driver, Cl
<1>2. Mailbox = IF Cl.task_to_fc = NULL THEN <<>> ELSE <<Cl.task_to_fc>>
  BY <1>1 DEF Mailbox, Cl
<1>3. Mailbox \in Seq(Thread)
  BY <1>1, <1>2
<1>4. ~Finishing => Finished = Mailbox
  BY <1>3, ConcatEmptySeq DEF Finished
<1>5. Finishing => Finished = Append(Mailbox, master.s6)
  <2> SUFFICES ASSUME Finishing
               PROVE  Mailbox \o <<master.s6>> = Append(Mailbox, master.s6)
    BY DEF Finished
  <2>1. CASE Mailbox = <<>>
    BY <1>1, <2>1
  <2>2. CASE Mailbox = <<Cl.task_to_fc>>
    BY <1>1, <2>2
  <2> QED
    BY <1>2, <2>1, <2>2
<1>6. Finished \in Seq(Thread)
  BY <1>1, <1>3, <1>4, <1>5, AppendProperties
<1> QED
  BY <1>2, <1>3, <1>4, <1>5, <1>6

LEMMA OutstandingPending ==
  ASSUME NEW k \in Thread, SInv(k)
  PROVE  Delegation!Outstanding \subseteq Pending
<1>1. Elements(Queue) \subseteq Elements(sent)
  <2>1. sent \in Seq(Thread) /\ Once(sent)
    BY DEF SInv, KInv, TypeOK, Apart
  <2>2. CASE sent = <<>>
    BY <2>2 DEF Queue, Tail1
  <2>3. CASE sent # <<>>
    BY <2>1, <2>3, TailOnce DEF Queue, Tail1
  <2> QED
    BY <2>2, <2>3
<1>2. Elements(Mailbox) \subseteq InMail
  BY FinishedForm, EmptyOnce DEF Elements, InMail
<1>3. Elements(Finished) \subseteq Pending
  <2>1. CASE ~Finishing
    BY <1>2, <2>1, FinishedForm DEF Pending
  <2>2. CASE Finishing
    <3>1. master.s6 \in Pending /\ master.s6 \in Thread
      BY <2>2, FinishingPending, PendingThreads DEF SInv
    <3>2. Elements(Finished) = Elements(Mailbox) \cup {master.s6}
      <4>1. Mailbox \in Seq(Thread) /\ Finished = Append(Mailbox, master.s6)
        BY <2>2, FinishedForm
      <4> QED
        BY <3>1, <4>1, AppendOnce
    <3> QED
      BY <1>2, <3>1, <3>2 DEF Pending
  <2> QED
    BY <2>1, <2>2
<1> QED
  BY <1>1, <1>3 DEF Delegation!Outstanding, Elements, Pending

LEMMA InitDelegation ==
  ASSUME NEW k \in Thread, KeptOpen(k), Init
  PROVE  Delegation!Init
<1>1. SInv(k)
  BY InitSInv
<1>2. master.pc = "ready" /\ sent = <<>> /\ irq = FALSE
  BY DEF Init, KeptOpen
<1>3. Queue = <<>> /\ ~Finishing
  BY <1>2 DEF Queue, Finishing
<1>4. Finished = <<>>
  <2>1. Cl.task_to_fc = NULL
    BY <1>1, <1>2 DEF SInv, KInv, Notified
  <2> QED
    BY <1>1, <1>3, <2>1, FinishedForm
<1>5. Told = {}
  BY DEF Init, Told, PiTaskZero
<1> QED
  BY <1>3, <1>4, <1>5 DEF Delegation!Init, Told

\* Preparing a task begins a new request of its sender.
LEMMA MapBegin ==
  ASSUME NEW k \in Thread, SInv(k), SInv(k)', Pairs, NEW p \in Thread,
         NEW created \in BOOLEAN, SendEnter(p, created)
  PROVE  Delegation!Begin(p)
<1> USE DEF SendEnter, At, list
<1>1. ~task[p].destroy /\ p \notin Pending
  BY DEF SInv, Pairs, MaySend, AllBack, Prepared, Underway
<1>2. UNCHANGED <<Queue, Finished>>
  BY DEF Queue, Finished, Mailbox, Finishing
<1>3. Told' = Told \ {p}
  BY DEF Told, PiTaskBlock, SInv, KInv, TypeOK
<1> QED
  BY <1>1, <1>2, <1>3, OutstandingPending DEF Delegation!Begin, Told

\* What is appended to the whole queue is appended to what follows its head.
LEMMA TailAppend ==
  ASSUME NEW S, NEW s \in Seq(S), s # <<>>, NEW x \in S
  PROVE  Tail(Append(s, x)) = Append(Tail(s), x)
<1> DEFINE n == Len(s)
           w == Append(s, x)
           a == Tail(w)
           b == Append(Tail(s), x)
<1>1. n \in Nat \ {0}
  OBVIOUS
<1>2. w \in Seq(S) /\ Len(w) = n + 1 /\ w # <<>> /\ w[n + 1] = x
      /\ \A i \in 1..n : w[i] = s[i]
  BY AppendProperties, <1>1
<1>3. Tail(s) \in Seq(S) /\ Len(Tail(s)) = n - 1
      /\ \A i \in 1..(n - 1) : Tail(s)[i] = s[i + 1]
  OBVIOUS
<1> HIDE DEF n, w
<1>4. a \in Seq(S) /\ Len(a) = n /\ \A i \in 1..n : a[i] = w[i + 1]
  BY <1>1, <1>2
<1>5. b \in Seq(S) /\ Len(b) = n /\ b[n] = x /\ \A i \in 1..(n - 1) : b[i] = Tail(s)[i]
  BY <1>1, <1>3, AppendProperties
<1> HIDE DEF a, b
<1>6. \A i \in 1..n : a[i] = b[i]
  BY <1>1, <1>2, <1>3, <1>4, <1>5
<1>7. a = b
  BY <1>4, <1>5, <1>6, SeqEqual
<1> QED
  BY <1>7 DEF a, b, w

\* Linking it into the list makes it the last of the queue.
LEMMA MapAccept ==
  ASSUME NEW k \in Thread, SInv(k), SInv(k)', NEW p \in Thread, Push(p)
  PROVE  Delegation!Accept(p)
<1>1. sent' = Append(sent, p) /\ UNCHANGED <<task, master>> /\ pc[p] = "pushing"
  BY DEF Push, At
<1>2. p \notin Pending /\ ~task[p].done /\ sent \in Seq(Thread)
  BY <1>1 DEF SInv, Prepared, Sending, KInv, TypeOK
<1>3. Queue' = Append(Queue, p)
  <2>1. CASE master.pc \in {"finish", "pop"}
    <3>1. sent # <<>>
      BY <2>1, FinishingPending DEF Finishing
    <3>2. sent' # <<>>
      BY <1>1, <1>2, AppendOnce
    <3>3. Tail(Append(sent, p)) = Append(Tail(sent), p)
      BY <1>2, <3>1, TailAppend
    <3> QED
      BY <1>1, <2>1, <3>1, <3>2, <3>3 DEF Queue, Tail1
  <2>2. CASE master.pc \notin {"finish", "pop"}
    BY <1>1, <2>2 DEF Queue
  <2> QED
    BY <2>1, <2>2
<1>4. UNCHANGED <<Finished, Told>>
  <2>1. Cl'.task_to_fc = Cl.task_to_fc
    BY PushList DEF SInv
  <2>2. Mailbox' = Mailbox
    <3>1. per_cluster_data \in live /\ per_cluster_data' \in live'
      BY DEF SInv, KInv, Served
    <3> QED
      BY <2>1, <3>1 DEF Mailbox, Cl
  <2> QED
    BY <1>1, <2>2 DEF Finished, Finishing, Told
<1> QED
  BY <1>2, <1>3, <1>4, OutstandingPending DEF Delegation!Accept, Told

\* The end of the task's function takes it from the queue.
LEMMA MapRun ==
  ASSUME NEW k \in Thread, SInv(k), MasterRun
  PROVE  Delegation!Run
<1>1. /\ master.pc = "run" /\ master'.pc = "finish" /\ master'.s6 = master.s6
      /\ UNCHANGED <<sent, live, per_cluster_data, drv, task>>
  BY DEF MasterRun, MasterAt, MasterGoto, list, fc, SInv, KInv, TypeOK
<1>2. sent # <<>> /\ Head(sent) = master.s6 /\ master.s6 \in Thread
  BY <1>1, FinishingPending, PendingThreads DEF SInv
<1>3. Queue = sent /\ Queue' = Tail(sent)
  BY <1>1, <1>2 DEF Queue, Tail1
<1>4. Finished' = Append(Finished, Head(sent))
  <2>1. Mailbox' = Mailbox
    BY <1>1 DEF Mailbox
  <2>2. Finished = Mailbox /\ Finished' = Mailbox \o <<master.s6>>
    <3>1. ~Finishing /\ Finishing'
      BY <1>1 DEF Finishing
    <3> QED
      BY <1>1, <2>1, <3>1, FinishedForm DEF Finished
  <2>3. Mailbox \o <<master.s6>> = Append(Mailbox, master.s6)
    BY <1>2, FinishedForm
  <2> QED
    BY <1>2, <2>2, <2>3
<1>5. UNCHANGED Told
  BY <1>1 DEF Told
<1> QED
  BY <1>2, <1>3, <1>4, <1>5 DEF Delegation!Run, Told

LEMMA OneAndOne ==
  ASSUME NEW S, NEW a \in S, NEW b \in S
  PROVE  <<a>> \o <<b>> = <<a, b>>
<1> DEFINE l == <<a>> \o <<b>>
           r == <<a, b>>
<1>1. <<a>> \in Seq(S) /\ <<b>> \in Seq(S) /\ Len(<<a>>) = 1 /\ Len(<<b>>) = 1
  OBVIOUS
<1>2. l \in Seq(S) /\ Len(l) = 2 /\ l[1] = a /\ l[2] = b
  BY <1>1, ConcatProperties
<1>3. r \in Seq(S) /\ Len(r) = 2 /\ r[1] = a /\ r[2] = b
  OBVIOUS
<1> HIDE DEF l, r
<1>4. l = r
  BY <1>2, <1>3, SeqEqual
<1> QED
  BY <1>4 DEF l, r

\* The handler tells the sender whose task ran first.
LEMMA MapTell ==
  ASSUME NEW k \in Thread, SInv(k), SInv(k)', Handler
  PROVE  Delegation!Tell
<1> DEFINE t == Cl.task_to_fc
<1>1. /\ t \in Thread /\ Cl'.task_to_fc = NULL
      /\ task' = [task EXCEPT ![t] = PiTaskRelease(@)]
      /\ UNCHANGED <<sent, master>>
  BY MailList DEF SInv, Handler
<1>2. /\ per_cluster_data \in live /\ per_cluster_data' \in live'
      /\ Mailbox = <<t>> /\ Mailbox' = <<>>
  BY <1>1, NamesAssumption DEF SInv, KInv, Served, Mailbox, Cl
<1> HIDE DEF t
<1>3. UNCHANGED Queue
  BY <1>1 DEF Queue
<1>4. Finished # <<>> /\ Finished' = Tail(Finished) /\ Head(Finished) = t
  <2>1. Finishing => master.s6 \in Thread
    BY FinishingPending, PendingThreads DEF SInv
  <2>2. CASE Finishing
    <3>1. Finished = <<t>> \o <<master.s6>> /\ Finished' = <<>> \o <<master.s6>>
      BY <1>1, <1>2, <2>2 DEF Finished, Finishing
    <3>2. Finished' = <<master.s6>>
      BY <2>1, <2>2, <3>1
    <3>3. Finished = <<t, master.s6>>
      BY <1>1, <2>1, <2>2, <3>1, OneAndOne
    <3> QED
      BY <1>1, <2>1, <2>2, <3>2, <3>3
  <2>3. CASE ~Finishing
    <3>1. Finished = <<t>> \o <<>> /\ Finished' = <<>> \o <<>>
      BY <1>1, <1>2, <2>3 DEF Finished, Finishing
    <3>2. Finished = <<t>> /\ Finished' = <<>>
      BY <1>1, <3>1
    <3> QED
      BY <1>1, <3>2
  <2> QED
    BY <2>2, <2>3
<1>5. Told' = Told \cup {t}
  BY <1>1 DEF Told, PiTaskRelease, SInv, KInv, TypeOK, PiTaskT
<1> QED
  BY <1>3, <1>4, <1>5 DEF Delegation!Tell, Told

\* Nothing else is visible in the service: neither how threads come and go, nor
\* what a sender does before and after, nor how the core pops and reports.
LEMMA MapStutter ==
  ASSUME UNCHANGED <<Queue, Finished, Told>>
  PROVE  UNCHANGED Delegation!vars
BY DEF Delegation!vars, Told

LEMMA MapThread ==
  ASSUME NEW k \in Thread, SInv(k), SInv(k)', NEW p \in Thread,
         OpenRead(p) \/ CloseEnter(p) \/ FreeEnter(p) \/ ThreadStep(p),
         ~Push(p)
  PROVE  UNCHANGED Delegation!vars
<1>1. /\ ~OpenAlloc(p) /\ ~OpenFails(p) /\ ~OpenSetup(p)
      /\ ~CloseFree(p) /\ ~CloseClear(p)
  BY DEF OpenAlloc, OpenFails, OpenSetup, CloseFree, CloseClear, At, SInv, KInv,
         Served, Inside
<1>2. UNCHANGED sent
  BY <1>1 DEF ThreadStep, OpenRead, CloseEnter, FreeEnter, OpenLock, OpenStart,
              CloseLock, CloseCount, CloseRead, SendLock, SendFails, SendStacks,
              PushLock, Wake, WaitOn, FreeLock, FreeLook, list
<1>3. UNCHANGED master
  <2>1. CASE OpenStart(p)
    <3>1. Data(p) = Cl
      BY <2>1, Serving DEF SInv, OpenStart, At, Inside
    <3>2. Cl.cluster_is_on # 0
      BY UsersCount DEF SInv, KInv, Counted
    <3> QED
      BY <2>1, <3>1, <3>2 DEF OpenStart
  <2>2. CASE ~OpenStart(p)
    BY <1>1, <2>2 DEF ThreadStep, OpenRead, CloseEnter, FreeEnter, OpenLock,
              CloseLock, CloseCount, CloseRead, SendLock, SendFails, SendStacks,
              PushLock, Wake, WaitOn, FreeLock, FreeLook
  <2> QED
    BY <2>1, <2>2
<1>4. Mailbox' = Mailbox
  <2>1. Cl'.task_to_fc = Cl.task_to_fc
    BY ThreadService DEF SInv
  <2>2. per_cluster_data \in live /\ per_cluster_data' \in live'
    BY DEF SInv, KInv, Served
  <2> QED
    BY <2>1, <2>2 DEF Mailbox, Cl
<1>5. Told' = Told
  <2>1. CASE SendFails(p)
    <3>1. ~task[p].done
      BY <2>1 DEF SendFails, At, SInv, Prepared, Sending
    <3>2. task' = task \/ task' = [task EXCEPT ![p] = PiTaskZero]
      BY <2>1 DEF SendFails
    <3>3. \A q \in Thread : task'[q].done <=> task[q].done
      <4>1. task \in [Thread -> PiTaskT] /\ ~PiTaskZero.done
        BY DEF SInv, KInv, TypeOK, PiTaskZero
      <4> QED
        BY <3>1, <3>2, <4>1
    <3> QED
      BY <3>3 DEF Told
  <2>2. CASE WaitOn(p)
    <3>1. \A q \in Thread : task'[q].done = task[q].done
      BY <2>2 DEF WaitOn, PiTaskDestroy, SInv, KInv, TypeOK, PiTaskT
    <3> QED
      BY <3>1 DEF Told
  <2>3. CASE ~SendFails(p) /\ ~WaitOn(p)
    <3>1. UNCHANGED task
      BY <1>1, <2>3 DEF ThreadStep, OpenRead, CloseEnter, FreeEnter, OpenLock, OpenStart,
                CloseLock, CloseCount, CloseRead, SendLock, SendStacks,
                PushLock, Wake, FreeLock, FreeLook
    <3> QED
      BY <3>1 DEF Told
  <2> QED
    BY <2>1, <2>2, <2>3
<1> QED
  BY <1>2, <1>3, <1>4, <1>5, MapStutter DEF Queue, Finished, Finishing

LEMMA MapMaster ==
  ASSUME NEW k \in Thread, SInv(k), SInv(k)', MasterStep, ~MasterRun
  PROVE  UNCHANGED Delegation!vars
<1>1. UNCHANGED task
  BY DEF MasterStep, MasterReady, MasterLoop, MasterSleep, MasterFinish, MasterPop,
         MasterFree, MasterMail, MasterMailFull, MasterMailWait, fc
<1>2. Told' = Told
  BY <1>1 DEF Told
<1>3. per_cluster_data \in live /\ per_cluster_data' \in live'
  BY DEF SInv, KInv, Served
<1>4. CASE MasterReady \/ MasterLoop \/ MasterSleep \/ MasterMailFull \/ MasterMailWait
  <2>1. UNCHANGED <<sent, live, drv, per_cluster_data>>
    BY <1>4 DEF MasterReady, MasterLoop, MasterSleep, MasterMailFull, MasterMailWait,
                list
  <2>2. /\ Finishing' <=> Finishing
        /\ Finishing => /\ master'.s6 = master.s6
                        /\ master.pc \notin {"finish", "pop"}
                        /\ master'.pc \notin {"finish", "pop"}
        /\ ~Finishing' => master'.pc \notin {"finish", "pop"}
    BY <1>4 DEF MasterReady, MasterLoop, MasterSleep, MasterMailFull, MasterMailWait,
                MasterAt, MasterGoto, Finishing, SInv, KInv, TypeOK
  <2>3. ~Finishing => master.pc \notin {"finish", "pop"}
    BY DEF Finishing
  <2>4. UNCHANGED Mailbox
    BY <2>1 DEF Mailbox
  <2>5. UNCHANGED Queue /\ UNCHANGED Finished
    BY <2>1, <2>2, <2>3, <2>4 DEF Queue, Finished
  <2> QED
    BY <1>2, <2>5, MapStutter
<1>5. CASE MasterFinish
  <2>1. UNCHANGED <<sent, live, per_cluster_data>>
    BY <1>5 DEF MasterFinish
  <2>2. master.pc = "finish" /\ master'.pc = "pop" /\ master'.s6 = master.s6
    BY <1>5 DEF MasterFinish, MasterAt, SInv, KInv, TypeOK, Attended, Cl
  <2>3. Cl'.task_to_fc = Cl.task_to_fc
    <3>1. /\ per_cluster_data \in Block /\ Cl \in Driver
          /\ drv \in [Block -> Driver] /\ Cl = drv[per_cluster_data]
      BY DEF SInv, KInv, Served, TypeOK, Cl
    <3>2. Cl' = [Cl EXCEPT !.fifo_access = MASTER]
      BY <1>5, <3>1 DEF MasterFinish, Set, Cl
    <3> QED
      BY <3>1, <3>2 DEF Driver
  <2>4. Mailbox' = Mailbox
    BY <1>3, <2>3 DEF Mailbox, Cl
  <2> QED
    BY <1>2, <2>1, <2>2, <2>4, MapStutter DEF Queue, Finished, Finishing
<1>6. CASE MasterPop
  <2>1. /\ Cl'.task_to_fc = Cl.task_to_fc
        /\ master.pc = "pop" /\ master'.pc = "free" /\ master'.s6 = master.s6
    BY <1>6, PopList DEF SInv, KInv, TypeOK
  <2>2. sent' = Tail1(sent)
    BY <1>6 DEF MasterPop
  <2>3. Mailbox' = Mailbox
    BY <1>3, <2>1 DEF Mailbox, Cl
  <2> QED
    BY <1>2, <2>1, <2>2, <2>3, MapStutter DEF Queue, Finished, Finishing
<1>7. CASE MasterFree
  <2>1. UNCHANGED <<sent, live, drv, per_cluster_data>>
    BY <1>7 DEF MasterFree, list
  <2>2. master.pc = "free" /\ master'.pc = "mail" /\ master'.s6 = master.s6
    BY <1>7 DEF MasterFree, MasterAt, SInv, KInv, TypeOK
  <2> QED
    BY <1>2, <2>1, <2>2, MapStutter DEF Queue, Finished, Mailbox, Finishing
<1>8. CASE MasterMail
  <2>1. /\ master.s6 \in Thread /\ Cl.task_to_fc = NULL /\ Cl'.task_to_fc = master.s6
    BY <1>8, MailList DEF SInv
  <2>2. master.pc = "mail" /\ master'.pc = "loop" /\ UNCHANGED sent
    BY <1>8 DEF MasterMail, MasterAt, MasterGoto, SInv, KInv, TypeOK
  <2>3. Mailbox = <<>> /\ Mailbox' = <<master.s6>>
    BY <1>3, <2>1, NamesAssumption DEF Mailbox, Cl
  <2>4. Finished = <<>> \o <<master.s6>> /\ Finished' = <<master.s6>> \o <<>>
    BY <2>2, <2>3 DEF Finished, Finishing
  <2>5. Finished = <<master.s6>> /\ Finished' = <<master.s6>>
    BY <2>1, <2>4
  <2>6. UNCHANGED Queue
    BY <2>2 DEF Queue
  <2> QED
    BY <1>2, <2>5, <2>6, MapStutter
<1> QED
  BY <1>4, <1>5, <1>6, <1>7, <1>8 DEF MasterStep

LEMMA StepDelegation ==
  ASSUME NEW k \in Thread, SInv(k), SInv(k)', Pairs, [Next]_vars
  PROVE  [Delegation!Next]_(Delegation!vars)
<1> USE DEF Delegation!Next
<1>1. CASE \E p \in Thread : \E created \in BOOLEAN : SendEnter(p, created)
  BY <1>1, MapBegin
<1>2. CASE \E p \in Thread : Push(p)
  BY <1>2, MapAccept
<1>3. CASE \E p \in Thread :
             /\ OpenRead(p) \/ CloseEnter(p) \/ FreeEnter(p) \/ ThreadStep(p)
             /\ ~Push(p)
  BY <1>3, MapThread
<1>4. CASE MasterRun
  BY <1>4, MapRun
<1>5. CASE MasterStep /\ ~MasterRun
  BY <1>5, MapMaster
<1>6. CASE Handler
  BY <1>6, MapTell
<1>7. CASE Fault
  BY <1>7, NoFault DEF SInv
<1>8. CASE UNCHANGED vars
  BY <1>8, MapStutter DEF vars, Queue, Finished, Mailbox, Finishing, Told
<1> QED
  BY <1>1, <1>2, <1>3, <1>4, <1>5, <1>6, <1>7, <1>8 DEF Next

\* For two senders that send in batches the driver implements the service: every
\* accepted task is run once, in order, and its sender told after that, while any
\* number of other threads open, close and wait.
THEOREM PairsDelegation ==
  ASSUME NEW k \in Thread, KeptOpen(k), Pairs
  PROVE  Spec => ImplementsDelegation
<1>1. Init => Delegation!Init
  BY InitDelegation
<1>2. SInv(k) /\ SInv(k)' /\ [Next]_vars => [Delegation!Next]_(Delegation!vars)
  BY StepDelegation
<1>3. Spec => Delegation!Spec
  BY <1>1, <1>2, ServiceInvariance, PTL DEF Spec, Delegation!Spec
<1> QED
  BY <1>3 DEF ImplementsDelegation

(***************************************************************************)
(* Mutual exclusion                                                        *)
(***************************************************************************)

\* task_mutex, powerstate_mutex and the spinlock are each held by the one that is
\* in the section they guard, and by nobody otherwise.
Locked ==
  /\ \A p \in Thread :
       /\ pc[p] \in {"check", "push", "pushing", "wake"} <=> Cl.task_mutex = p
       /\ pc[p] \in {"power", "count"} <=> Cl.powerstate_mutex = p
       /\ pc[p] \in {"pushing", "polling"} <=> Cl.fifo_access = p
  /\ master.pc = "pop" <=> Cl.fifo_access = MASTER

LEMMA InitLocked ==
  ASSUME NEW k \in Thread, KeptOpen(k), Init
  PROVE  Locked
<1>1. per_cluster_data \in Block
  BY BlockAssumption DEF Init, KeptOpen
<1>2. /\ Cl.task_mutex = NULL /\ Cl.powerstate_mutex = NULL /\ Cl.fifo_access = NULL
  BY <1>1 DEF Init, Cl, DriverZero
<1>3. /\ \A p \in Thread : pc[p] = "idle"
      /\ master.pc # "pop"
  BY DEF Init
<1> QED
  BY <1>2, <1>3, NamesAssumption DEF Locked

\* A step of a thread that leaves the locks of the others alone.
LEMMA LockedStep ==
  ASSUME NEW k \in Thread, KInv(k), Locked, NEW p \in Thread, NEW l, Goto(p, l),
         UNCHANGED master,
         l \in {"check", "push", "pushing", "wake"} <=> Cl'.task_mutex = p,
         l \in {"power", "count"} <=> Cl'.powerstate_mutex = p,
         l \in {"pushing", "polling"} <=> Cl'.fifo_access = p,
         \A x \in (Thread \ {p}) \cup {MASTER} :
           /\ Cl'.task_mutex = x <=> Cl.task_mutex = x
           /\ Cl'.powerstate_mutex = x <=> Cl.powerstate_mutex = x
           /\ Cl'.fifo_access = x <=> Cl.fifo_access = x
  PROVE  Locked'
<1>1. pc'[p] = l /\ \A q \in Thread \ {p} : pc'[q] = pc[q]
  BY DEF KInv, TypeOK, Goto
<1> QED
  BY <1>1, NamesAssumption DEF Locked

\* What updating the driver data does to its locks.
LEMMA LockFields ==
  ASSUME NEW d \in Driver, NEW x
  PROVE  /\ LET e == [d EXCEPT !.task_mutex = x] IN
              /\ e.task_mutex = x /\ e.powerstate_mutex = d.powerstate_mutex
              /\ e.fifo_access = d.fifo_access
         /\ LET e == [d EXCEPT !.powerstate_mutex = x] IN
              /\ e.task_mutex = d.task_mutex /\ e.powerstate_mutex = x
              /\ e.fifo_access = d.fifo_access
         /\ LET e == [d EXCEPT !.fifo_access = x] IN
              /\ e.task_mutex = d.task_mutex /\ e.powerstate_mutex = d.powerstate_mutex
              /\ e.fifo_access = x
BY DEF Driver

\* The steps of a thread that change no lock.
LEMMA FreeLocked ==
  ASSUME NEW k \in Thread, KInv(k), Locked, NEW p \in Thread,
         \/ OpenRead(p) \/ CloseEnter(p) \/ FreeEnter(p)
         \/ \E created \in BOOLEAN : SendEnter(p, created)
         \/ CloseRead(p) \/ SendStacks(p) \/ WaitOn(p)
  PROVE  Locked'
<1> DEFINE Section == {"check", "push", "pushing", "wake"}
           Free == Pc \ (Section \cup {"power", "count", "polling"})
<1>1. UNCHANGED <<drv, per_cluster_data, master>>
  BY DEF OpenRead, CloseEnter, FreeEnter, SendEnter, CloseRead, SendStacks, WaitOn, list
<1>2. \/ \E l \in Free : Goto(p, l) /\ pc[p] \in Free
      \/ Goto(p, "push") /\ pc[p] = "check"
  <2>1. CASE OpenRead(p) \/ CloseEnter(p) \/ FreeEnter(p) \/ CloseRead(p)
    BY <2>1 DEF OpenRead, CloseEnter, FreeEnter, CloseRead, At, Pc
  <2>2. CASE (\E created \in BOOLEAN : SendEnter(p, created)) \/ SendStacks(p) \/ WaitOn(p)
    BY <2>2 DEF SendEnter, SendStacks, WaitOn, At, Pc
  <2> QED
    BY <2>1, <2>2
<1>3. Cl' = Cl
  BY <1>1 DEF Cl
<1>4. PICK l : /\ Goto(p, l)
               /\ l \in Section <=> pc[p] \in Section
               /\ l \in {"power", "count"} <=> pc[p] \in {"power", "count"}
               /\ l \in {"pushing", "polling"} <=> pc[p] \in {"pushing", "polling"}
  BY <1>2
<1> HIDE DEF Section
<1> QED
  BY <1>1, <1>3, <1>4, LockedStep DEF Locked, Section

\* The steps that take or release task_mutex or powerstate_mutex.
LEMMA MutexLocked ==
  ASSUME NEW k \in Thread, KInv(k), Locked, NEW p \in Thread,
         \/ OpenLock(p) \/ OpenStart(p) \/ CloseLock(p) \/ CloseCount(p)
         \/ SendLock(p) \/ SendFails(p) \/ Wake(p)
  PROVE  Locked'
<1>1. /\ per_cluster_data \in Block /\ drv \in [Block -> Driver]
      /\ Cl = drv[per_cluster_data] /\ Cl \in Driver
  BY DEF KInv, Served, TypeOK, Cl
<1>2. device[p] = per_cluster_data /\ Data(p) = Cl /\ UNCHANGED per_cluster_data
  BY Serving DEF OpenLock, OpenStart, CloseLock, CloseCount, SendLock, SendFails, Wake,
                 At, Inside
<1>3. Cl.cluster_is_on # 0
  BY UsersCount DEF KInv, Counted
<1>4. CASE OpenLock(p) \/ CloseLock(p)
  <2> DEFINE d == [Cl EXCEPT !.powerstate_mutex = p]
  <2>1. /\ Cl' = d /\ UNCHANGED master /\ Cl.powerstate_mutex = NULL
        /\ \E l \in {"power", "count"} : Goto(p, l)
        /\ pc[p] \in {"start", "stop"}
    BY <1>1, <1>2, <1>4 DEF OpenLock, CloseLock, At, Set, Cl
  <2>2. /\ d.task_mutex = Cl.task_mutex /\ d.powerstate_mutex = p
        /\ d.fifo_access = Cl.fifo_access
    BY <1>1, LockFields
  <2> HIDE DEF d
  <2> QED
    BY <2>1, <2>2, LockedStep, NamesAssumption DEF Locked
<1>5. CASE OpenStart(p) \/ CloseCount(p)
  <2>1. /\ Cl'.task_mutex = Cl.task_mutex /\ Cl'.powerstate_mutex = NULL
        /\ Cl'.fifo_access = Cl.fifo_access
        /\ UNCHANGED master
        /\ \E l \in {"idle", "stopped"} : Goto(p, l)
        /\ pc[p] \in {"power", "count"}
    <3>1. PICK m : Cl' = [Cl EXCEPT !.cluster_is_on = m, !.powerstate_mutex = NULL]
      <4>1. CASE OpenStart(p)
        <5>1. Set(per_cluster_data, [Cl EXCEPT !.cluster_is_on = @ + 1,
                                               !.powerstate_mutex = NULL])
          BY <1>2, <1>3, <4>1 DEF OpenStart
        <5> QED
          BY <1>1, <1>2, <5>1 DEF Set, Cl
      <4>2. CASE CloseCount(p)
        <5>1. Set(per_cluster_data, [Cl EXCEPT !.cluster_is_on = CountAfterClose(@),
                                               !.powerstate_mutex = NULL])
          BY <1>2, <4>2 DEF CloseCount
        <5> QED
          BY <1>1, <1>2, <5>1 DEF Set, Cl
      <4> QED
        BY <1>5, <4>1, <4>2
    <3>2. /\ UNCHANGED master
          /\ \E l \in {"idle", "stopped"} : Goto(p, l)
          /\ pc[p] \in {"power", "count"}
      BY <1>2, <1>3, <1>5 DEF OpenStart, CloseCount, At
    <3> QED
      BY <1>1, <3>1, <3>2 DEF Driver
  <2> QED
    BY <2>1, LockedStep, NamesAssumption DEF Locked
<1>6. CASE SendLock(p)
  <2> DEFINE d == [Cl EXCEPT !.task_mutex = p]
  <2>1. /\ Cl' = d /\ UNCHANGED master /\ Cl.task_mutex = NULL
        /\ Goto(p, "check") /\ pc[p] = "send"
    BY <1>1, <1>2, <1>6 DEF SendLock, At, Set, Cl
  <2>2. /\ d.task_mutex = p /\ d.powerstate_mutex = Cl.powerstate_mutex
        /\ d.fifo_access = Cl.fifo_access
    BY <1>1, LockFields
  <2> HIDE DEF d
  <2> QED
    BY <2>1, <2>2, LockedStep, NamesAssumption DEF Locked
<1>7. CASE SendFails(p) \/ Wake(p)
  <2> DEFINE d == [Cl EXCEPT !.task_mutex = NULL]
  <2>1. /\ Cl' = d /\ UNCHANGED master
        /\ \E l \in {"send", "idle", "wait", "sent"} : Goto(p, l)
        /\ pc[p] \in {"check", "wake"}
    BY <1>1, <1>2, <1>7 DEF SendFails, Wake, At, Set, Cl
  <2>2. /\ d.task_mutex = NULL /\ d.powerstate_mutex = Cl.powerstate_mutex
        /\ d.fifo_access = Cl.fifo_access
    BY <1>1, LockFields
  <2> HIDE DEF d
  <2> QED
    BY <2>1, <2>2, LockedStep, NamesAssumption DEF Locked
<1> QED
  BY <1>4, <1>5, <1>6, <1>7

\* The steps that take or release the spinlock.
LEMMA SpinLocked ==
  ASSUME NEW k \in Thread, KInv(k), Locked, NEW p \in Thread,
         PushLock(p) \/ Push(p) \/ FreeLock(p) \/ FreeLook(p)
  PROVE  Locked'
<1>1. /\ per_cluster_data \in Block /\ drv \in [Block -> Driver]
      /\ Cl = drv[per_cluster_data] /\ Cl \in Driver
  BY DEF KInv, Served, TypeOK, Cl
<1>2. device[p] = per_cluster_data /\ Data(p) = Cl /\ UNCHANGED per_cluster_data
  BY Serving DEF PushLock, Push, FreeLock, FreeLook, At, Inside
<1>3. CASE PushLock(p) \/ FreeLock(p)
  <2> DEFINE d == [Cl EXCEPT !.fifo_access = p]
  <2>1. /\ Cl' = d /\ UNCHANGED master /\ Cl.fifo_access = NULL
        /\ \/ Goto(p, "pushing") /\ pc[p] = "push"
           \/ Goto(p, "polling") /\ pc[p] = "poll"
    BY <1>1, <1>2, <1>3 DEF PushLock, FreeLock, At, Set, Cl
  <2>2. /\ d.task_mutex = Cl.task_mutex /\ d.powerstate_mutex = Cl.powerstate_mutex
        /\ d.fifo_access = p
    BY <1>1, LockFields
  <2> HIDE DEF d
  <2> QED
    BY <2>1, <2>2, LockedStep, NamesAssumption DEF Locked
<1>4. CASE FreeLook(p)
  <2> DEFINE d == [Cl EXCEPT !.fifo_access = NULL]
  <2>1. /\ Cl' = d /\ UNCHANGED master
        /\ \E l \in {"poll", "sent", "idle"} : Goto(p, l)
        /\ pc[p] = "polling"
    BY <1>1, <1>2, <1>4 DEF FreeLook, At, Set, Cl
  <2>2. /\ d.task_mutex = Cl.task_mutex /\ d.powerstate_mutex = Cl.powerstate_mutex
        /\ d.fifo_access = NULL
    BY <1>1, LockFields
  <2> HIDE DEF d
  <2> QED
    BY <2>1, <2>2, LockedStep, NamesAssumption DEF Locked
<1>5. CASE Push(p)
  <2>1. /\ UNCHANGED master /\ Goto(p, "wake") /\ pc[p] = "pushing"
        /\ \/ Cl' = [Cl EXCEPT !.task_first = p, !.task_last = p, !.fifo_access = NULL]
           \/ Cl' = [Cl EXCEPT !.fifo_access = NULL]
    BY <1>1, <1>2, <1>5 DEF Push, At, Set, Cl
  <2>2. /\ Cl'.task_mutex = Cl.task_mutex /\ Cl'.powerstate_mutex = Cl.powerstate_mutex
        /\ Cl'.fifo_access = NULL
    BY <1>1, <2>1 DEF Driver
  <2> QED
    BY <2>1, <2>2, LockedStep, NamesAssumption DEF Locked
<1> QED
  BY <1>3, <1>4, <1>5

\* The master core takes the spinlock to pop, and no other lock.
LEMMA MasterLocked ==
  ASSUME NEW k \in Thread, KInv(k), Locked, MasterStep \/ Handler
  PROVE  Locked'
<1>1. /\ per_cluster_data \in Block /\ drv \in [Block -> Driver]
      /\ Cl = drv[per_cluster_data] /\ Cl \in Driver
  BY DEF KInv, Served, TypeOK, Cl
<1>2. UNCHANGED <<pc, per_cluster_data>>
  BY DEF MasterStep, MasterReady, MasterLoop, MasterSleep, MasterRun, MasterFinish, MasterPop,
         MasterFree, MasterMail, MasterMailFull, MasterMailWait, Handler, fc
<1>3. CASE MasterFinish
  <2>1. /\ Cl' = [Cl EXCEPT !.fifo_access = MASTER] /\ Cl.fifo_access = NULL
        /\ master'.pc = "pop"
    BY <1>1, <1>3 DEF MasterFinish, Set, Cl, KInv, TypeOK
  <2>2. /\ Cl'.task_mutex = Cl.task_mutex /\ Cl'.powerstate_mutex = Cl.powerstate_mutex
        /\ Cl'.fifo_access = MASTER
    BY <1>1, <2>1, LockFields
  <2> QED
    BY <1>2, <2>1, <2>2, NamesAssumption DEF Locked
<1>4. CASE MasterPop
  <2> DEFINE n == next[master.s6]
             l == LastAfterPop(Cl.task_last, n)
  <2>1. /\ Cl' = [Cl EXCEPT !.task_first = n, !.task_last = l, !.fifo_access = NULL]
        /\ master.pc = "pop" /\ master'.pc = "free"
    <3>1. master.pc = "pop" /\ master'.pc = "free" /\ master.data = per_cluster_data
      BY <1>4 DEF MasterPop, MasterAt, MasterGoto, KInv, TypeOK, Attended
    <3> QED
      BY <1>1, <1>2, <1>4, <3>1 DEF MasterPop, Set, Cl
  <2> HIDE DEF n, l
  <2>2. /\ Cl'.task_mutex = Cl.task_mutex /\ Cl'.powerstate_mutex = Cl.powerstate_mutex
        /\ Cl'.fifo_access = NULL
    BY <1>1, <2>1 DEF Driver
  <2> QED
    BY <1>2, <2>1, <2>2, NamesAssumption DEF Locked
<1>5. CASE (MasterStep \/ Handler) /\ ~MasterFinish /\ ~MasterPop
  <2>1. \/ Cl' = Cl
        \/ \E t : Cl' = [Cl EXCEPT !.task_to_fc = t]
    <3>1. CASE MasterMail
      <4>1. master.data = per_cluster_data
        BY <3>1 DEF MasterMail, MasterAt, KInv, Attended
      <4> QED
        BY <1>1, <1>2, <3>1, <4>1 DEF MasterMail, Set, Cl
    <3>2. CASE Handler
      BY <1>1, <1>2, <3>2 DEF Handler, Set, Cl
    <3>3. CASE MasterStep /\ ~MasterFinish /\ ~MasterPop /\ ~MasterMail
      <4>1. UNCHANGED drv
        BY <3>3 DEF MasterStep, MasterReady, MasterLoop, MasterSleep, MasterRun, MasterFree,
                    MasterMailFull, MasterMailWait, list
      <4> QED
        BY <1>2, <4>1 DEF Cl
    <3> QED
      BY <1>5, <3>1, <3>2, <3>3
  <2>2. /\ Cl'.task_mutex = Cl.task_mutex /\ Cl'.powerstate_mutex = Cl.powerstate_mutex
        /\ Cl'.fifo_access = Cl.fifo_access
    <3>1. \A t : LET e == [Cl EXCEPT !.task_to_fc = t] IN
            /\ e.task_mutex = Cl.task_mutex /\ e.powerstate_mutex = Cl.powerstate_mutex
            /\ e.fifo_access = Cl.fifo_access
      BY <1>1 DEF Driver
    <3> QED
      BY <2>1, <3>1
  <2>3. master'.pc = "pop" <=> master.pc = "pop"
    <3>1. CASE Handler
      BY <3>1 DEF Handler
    <3>2. CASE MasterStep /\ ~MasterFinish /\ ~MasterPop
      BY <3>2 DEF MasterStep, MasterReady, MasterLoop, MasterSleep, MasterRun, MasterFree,
                  MasterMail, MasterMailFull, MasterMailWait, MasterAt, MasterGoto,
                  KInv, TypeOK
    <3> QED
      BY <1>5, <3>1, <3>2
  <2> QED
    BY <1>2, <2>2, <2>3 DEF Locked
<1> QED
  BY <1>3, <1>4, <1>5

LEMMA NextLocked ==
  ASSUME NEW k \in Thread, KInv(k), Locked, [Next]_vars
  PROVE  Locked'
<1>1. CASE \E p \in Thread :
             \/ OpenRead(p) \/ CloseEnter(p) \/ FreeEnter(p)
             \/ \E created \in BOOLEAN : SendEnter(p, created)
  BY <1>1, FreeLocked
<1>2. CASE \E p \in Thread : ThreadStep(p)
  <2> PICK p \in Thread : ThreadStep(p)
    BY <1>2
  <2>1. /\ ~OpenAlloc(p) /\ ~OpenFails(p) /\ ~OpenSetup(p)
        /\ ~CloseFree(p) /\ ~CloseClear(p)
    BY DEF OpenAlloc, OpenFails, OpenSetup, CloseFree, CloseClear, At, KInv, Served, Inside
  <2> QED
    BY <2>1, FreeLocked, MutexLocked, SpinLocked DEF ThreadStep
<1>3. CASE MasterStep \/ Handler
  BY <1>3, MasterLocked
<1>4. CASE Fault
  BY <1>4, NoFault
<1>5. CASE UNCHANGED vars
  <2>1. Cl' = Cl
    BY <1>5 DEF vars, Cl
  <2> QED
    BY <1>5, <2>1 DEF vars, Locked
<1> QED
  BY <1>1, <1>2, <1>3, <1>4, <1>5 DEF Next

\* As long as one thread keeps the cluster open, each of the two mutexes and the
\* spinlock is held exactly by the one that is in the section it guards: no two
\* threads are in such a section, nor a thread and the master core in the section
\* of the list, and no section is left with its lock taken.
THEOREM KeptOpenLocked ==
  ASSUME NEW k \in Thread, KeptOpen(k)
  PROVE  Spec => []Locked
<1>1. Init => Locked
  BY InitLocked
<1>2. KInv(k) /\ Locked /\ [Next]_vars => Locked'
  BY NextLocked
<1> QED
  BY <1>1, <1>2, Invariance, PTL DEF Spec

(***************************************************************************)
(* Nobody waits in vain                                                    *)
(***************************************************************************)

\* A task in use is told, still being handed over, or held by the list, the
\* master core or the mailbox; who waits has one.
Awaited ==
  \A p \in Thread :
    /\ task[p].destroy => task[p].done \/ pc[p] \in Sending \/ p \in Pending
    /\ pc[p] \in {"wake", "wait", "sent"} => task[p].destroy

\* The master core sleeps with a task in the list, or before a mailbox that has
\* been emptied, only if the event that wakes it is buffered or a thread is about
\* to set it.
Woken ==
  /\ master.pc = "sleep" /\ sent # <<>> => event \/ \E p \in Thread : pc[p] = "wake"
  /\ master.pc = "full" => event \/ irq

WInv(k) == SInv(k) /\ Locked /\ Awaited /\ Woken

LEMMA InitWInv ==
  ASSUME NEW k \in Thread, KeptOpen(k), Init
  PROVE  WInv(k)
<1>1. SInv(k) /\ Locked
  BY InitSInv, InitLocked
<1>2. Awaited /\ Woken
  BY DEF Init, Awaited, Woken, PiTaskZero, KeptOpen
<1> QED
  BY <1>1, <1>2 DEF WInv

\* What a step of a thread does to the tasks on their way.
LEMMA ThreadPending ==
  ASSUME NEW k \in Thread, SInv(k), NEW p \in Thread,
         \/ OpenRead(p) \/ CloseEnter(p) \/ FreeEnter(p)
         \/ \E created \in BOOLEAN : SendEnter(p, created)
         \/ ThreadStep(p)
  PROVE  /\ UNCHANGED <<master, irq>>
         /\ Pending \subseteq Pending'
         /\ IF Push(p) THEN p \in Pending' ELSE UNCHANGED sent
<1>1. /\ ~OpenAlloc(p) /\ ~OpenFails(p) /\ ~OpenSetup(p)
      /\ ~CloseFree(p) /\ ~CloseClear(p)
  BY DEF OpenAlloc, OpenFails, OpenSetup, CloseFree, CloseClear, At, SInv, KInv,
         Served, Inside
<1>2. UNCHANGED <<master, irq>>
  <2>1. CASE OpenStart(p)
    <3>1. Data(p).cluster_is_on # 0
      <4>1. Data(p) = Cl
        BY <2>1, Serving DEF SInv, OpenStart, At, Inside
      <4> QED
        BY <4>1, UsersCount DEF SInv, KInv, Counted
    <3> QED
      BY <2>1, <3>1 DEF OpenStart
  <2>2. CASE \/ OpenRead(p) \/ CloseEnter(p) \/ FreeEnter(p)
             \/ \E created \in BOOLEAN : SendEnter(p, created)
    BY <2>2 DEF OpenRead, CloseEnter, FreeEnter, SendEnter
  <2>3. CASE ThreadStep(p) /\ ~OpenStart(p)
    BY <1>1, <2>3 DEF ThreadStep, OpenLock, CloseLock, CloseCount, CloseRead, SendLock,
                      SendFails, SendStacks, PushLock, Push, Wake, WaitOn, FreeLock, FreeLook
  <2> QED
    BY <2>1, <2>2, <2>3
<1>3. UNCHANGED <<InMaster, InMail>>
  <2>1. Cl'.task_to_fc = Cl.task_to_fc
    BY ThreadService DEF SInv
  <2> QED
    BY <1>2, <2>1 DEF InMaster, InMail
<1>4. CASE Push(p)
  <2>1. /\ sent' = Append(sent, p) /\ sent \in Seq(Thread)
    BY <1>4 DEF Push, SInv, KInv, TypeOK
  <2>2. Elements(sent') = Elements(sent) \cup {p}
    BY <2>1, AppendOnce
  <2> QED
    BY <1>2, <1>3, <1>4, <2>2 DEF Pending
<1>5. CASE ~Push(p)
  <2>1. UNCHANGED sent
    <3>1. CASE \/ OpenRead(p) \/ CloseEnter(p) \/ FreeEnter(p)
               \/ \E created \in BOOLEAN : SendEnter(p, created)
      BY <3>1 DEF OpenRead, CloseEnter, FreeEnter, SendEnter, list
    <3>2. CASE ThreadStep(p)
      BY <1>1, <1>5, <3>2
         DEF ThreadStep, OpenLock, OpenStart, CloseLock, CloseCount, CloseRead, SendLock,
             SendFails, SendStacks, PushLock, Wake, WaitOn, FreeLock, FreeLook, list
    <3> QED
      BY <3>1, <3>2
  <2> QED
    BY <1>2, <1>3, <1>5, <2>1 DEF Pending
<1> QED
  BY <1>4, <1>5

\* The thread that moves keeps what it waits for.
LEMMA AwaitedStep ==
  ASSUME NEW k \in Thread, SInv(k), Awaited, NEW p \in Thread, NEW l, Goto(p, l),
         Pending \subseteq Pending',
         \A q \in Thread \ {p} : task'[q] = task[q],
         task'[p].destroy => task'[p].done \/ l \in Sending \/ p \in Pending',
         l \in {"wake", "wait", "sent"} => task'[p].destroy
  PROVE  Awaited'
<1>1. pc'[p] = l /\ \A q \in Thread \ {p} : pc'[q] = pc[q]
  BY DEF SInv, KInv, TypeOK, Goto
<1> QED
  BY <1>1 DEF Awaited

LEMMA ThreadAwaited ==
  ASSUME NEW k \in Thread, SInv(k), Awaited, NEW p \in Thread,
         \/ OpenRead(p) \/ CloseEnter(p) \/ FreeEnter(p)
         \/ \E created \in BOOLEAN : SendEnter(p, created)
         \/ ThreadStep(p)
  PROVE  Awaited'
<1>1. /\ ~OpenAlloc(p) /\ ~OpenFails(p) /\ ~OpenSetup(p)
      /\ ~CloseFree(p) /\ ~CloseClear(p)
  BY DEF OpenAlloc, OpenFails, OpenSetup, CloseFree, CloseClear, At, SInv, KInv,
         Served, Inside
<1>2. Pending \subseteq Pending' /\ (Push(p) => p \in Pending')
  BY ThreadPending
<1>3. CASE \/ OpenRead(p) \/ CloseEnter(p) \/ OpenLock(p) \/ OpenStart(p)
           \/ CloseLock(p) \/ CloseCount(p) \/ CloseRead(p)
  <2>1. /\ UNCHANGED task /\ pc[p] \notin Sending
        /\ \E l \in {"alloc", "start", "stop", "power", "idle", "count", "stopped",
                     "cleanup"} : Goto(p, l)
    BY <1>3 DEF OpenRead, CloseEnter, OpenLock, OpenStart, CloseLock, CloseCount,
                CloseRead, At, Sending
  <2> QED
    BY <1>2, <2>1, AwaitedStep DEF Awaited
<1>4. CASE FreeEnter(p) \/ FreeLock(p) \/ FreeLook(p) \/ Wake(p)
  <2>1. /\ UNCHANGED task /\ pc[p] \notin Sending
        /\ \E l : /\ Goto(p, l)
                  /\ \/ l \in {"poll", "polling", "idle"}
                     \/ l \in {"sent", "wait"} /\ (task[p].destroy \/ pc[p] = "wake")
    BY <1>4 DEF FreeEnter, FreeLock, FreeLook, Wake, At, Sending
  <2> QED
    BY <1>2, <2>1, AwaitedStep DEF Awaited
<1>5. CASE SendLock(p) \/ SendStacks(p) \/ PushLock(p)
  <2>1. UNCHANGED task /\ \E l \in Sending : Goto(p, l)
    BY <1>5 DEF SendLock, SendStacks, PushLock, Sending
  <2> QED
    BY <1>2, <2>1, AwaitedStep DEF Sending
<1>6. CASE \E created \in BOOLEAN : SendEnter(p, created)
  <2>1. /\ \A q \in Thread \ {p} : task'[q] = task[q]
        /\ Goto(p, "send")
    BY <1>6 DEF SendEnter, SInv, KInv, TypeOK
  <2> QED
    BY <1>2, <2>1, AwaitedStep DEF Sending
<1>7. CASE SendFails(p) \/ WaitOn(p)
  <2>1. /\ \A q \in Thread \ {p} : task'[q] = task[q]
        /\ \/ Goto(p, "send")
           \/ Goto(p, "idle") /\ ~task'[p].destroy
    <3>1. task \in [Thread -> PiTaskT]
      BY DEF SInv, KInv, TypeOK
    <3>2. CASE SendFails(p)
      BY <3>1, <3>2 DEF SendFails, PiTaskZero
    <3>3. CASE WaitOn(p)
      <4>1. \A x \in PiTaskT : /\ PiTaskDestroy(x) \in PiTaskT
                                /\ ~PiTaskDestroy(x).destroy
        BY DEF PiTaskT, PiTaskDestroy
      <4> QED
        BY <3>1, <3>3, <4>1 DEF WaitOn
    <3> QED
      BY <1>7, <3>2, <3>3
  <2> QED
    BY <1>2, <2>1, AwaitedStep DEF Sending
<1>8. CASE Push(p)
  <2>1. UNCHANGED task /\ Goto(p, "wake") /\ task[p].destroy
    BY <1>8 DEF Push, At, SInv, Prepared, Sending
  <2> QED
    BY <1>2, <1>8, <2>1, AwaitedStep
<1> QED
  BY <1>1, <1>3, <1>4, <1>5, <1>6, <1>7, <1>8 DEF ThreadStep

\* A thread that has pushed a task sets the event next.
LEMMA ThreadWoken ==
  ASSUME NEW k \in Thread, SInv(k), Woken, NEW p \in Thread,
         \/ OpenRead(p) \/ CloseEnter(p) \/ FreeEnter(p)
         \/ \E created \in BOOLEAN : SendEnter(p, created)
         \/ ThreadStep(p)
  PROVE  Woken'
<1>1. UNCHANGED <<master, irq>> /\ (Push(p) \/ UNCHANGED sent)
  BY ThreadPending
<1>2. \E l : Goto(p, l)
  BY DEF OpenRead, CloseEnter, FreeEnter, SendEnter, ThreadStep, OpenAlloc, OpenFails,
         OpenSetup, OpenLock, OpenStart, CloseLock, CloseCount, CloseRead, CloseFree,
         CloseClear, SendLock, SendFails, SendStacks, PushLock, Push, Wake, WaitOn,
         FreeLock, FreeLook
<1>3. \A q \in Thread \ {p} : pc'[q] = pc[q]
  BY <1>2 DEF SInv, KInv, TypeOK, Goto
<1>4. CASE Wake(p)
  BY <1>4 DEF Wake, WakeEvent, Woken
<1>5. CASE Push(p)
  BY <1>1, <1>5 DEF Push, Goto, SInv, KInv, TypeOK, Woken
<1>6. CASE ~Wake(p) /\ ~Push(p)
  <2>1. UNCHANGED event /\ pc[p] # "wake"
    <3>1. CASE \/ OpenRead(p) \/ CloseEnter(p) \/ FreeEnter(p)
               \/ \E created \in BOOLEAN : SendEnter(p, created)
      BY <3>1 DEF OpenRead, CloseEnter, FreeEnter, SendEnter, At
    <3>2. CASE \/ OpenAlloc(p) \/ OpenFails(p) \/ OpenSetup(p) \/ OpenLock(p) \/ OpenStart(p)
               \/ CloseLock(p) \/ CloseCount(p) \/ CloseRead(p) \/ CloseFree(p)
               \/ CloseClear(p)
      BY <3>2 DEF OpenAlloc, OpenFails, OpenSetup, OpenLock, OpenStart, CloseLock,
                  CloseCount, CloseRead, CloseFree, CloseClear, At
    <3>3. CASE \/ SendLock(p) \/ SendFails(p) \/ SendStacks(p) \/ PushLock(p)
               \/ WaitOn(p) \/ FreeLock(p) \/ FreeLook(p)
      BY <3>3 DEF SendLock, SendFails, SendStacks, PushLock, WaitOn, FreeLock, FreeLook, At
    <3> QED
      BY <1>6, <3>1, <3>2, <3>3 DEF ThreadStep
  <2> QED
    BY <1>1, <1>3, <1>6, <2>1 DEF Woken
<1> QED
  BY <1>4, <1>5, <1>6

\* A task moves from the list through the master core into the mailbox, and out of
\* it only by being told.
LEMMA ParallelAwaited ==
  ASSUME NEW k \in Thread, SInv(k), Awaited, MasterStep \/ Handler
  PROVE  Awaited'
<1>1. UNCHANGED pc
  BY DEF MasterStep, MasterReady, MasterLoop, MasterSleep, MasterRun, MasterFinish, MasterPop,
         MasterFree, MasterMail, MasterMailFull, MasterMailWait, Handler, fc
<1>2. CASE Handler
  <2> DEFINE t == Cl.task_to_fc
  <2>1. /\ t \in Thread /\ Cl'.task_to_fc = NULL
        /\ task' = [task EXCEPT ![t] = PiTaskRelease(@)]
    BY <1>2, MailList DEF SInv
  <2>2. Pending \subseteq Pending' \cup {t}
    BY <1>2, <2>1 DEF Handler, Pending, InMaster, InMail
  <2>3. /\ task'[t].done
        /\ \A q \in Thread : task'[q].destroy = task[q].destroy
        /\ \A q \in Thread \ {t} : task'[q] = task[q]
    BY <2>1 DEF PiTaskRelease, SInv, KInv, TypeOK, PiTaskT
  <2> HIDE DEF t
  <2> QED
    BY <1>1, <2>2, <2>3 DEF Awaited
<1>3. CASE MasterStep
  <2>1. UNCHANGED task
    BY <1>3 DEF MasterStep, MasterReady, MasterLoop, MasterSleep, MasterRun, MasterFinish,
                MasterPop, MasterFree, MasterMail, MasterMailFull, MasterMailWait, fc
  <2>2. Pending \subseteq Pending'
    <3>1. CASE \/ MasterReady \/ MasterLoop \/ MasterSleep \/ MasterRun \/ MasterFree
               \/ MasterMailFull \/ MasterMailWait
      <4>1. UNCHANGED <<sent, drv, per_cluster_data>>
        BY <3>1 DEF MasterReady, MasterLoop, MasterSleep, MasterRun, MasterFree,
                    MasterMailFull, MasterMailWait, list
      <4>2. InMaster \subseteq InMaster'
        BY <3>1 DEF MasterReady, MasterLoop, MasterSleep, MasterRun, MasterFree,
                    MasterMailFull, MasterMailWait, MasterAt, MasterGoto, InMaster,
                    SInv, KInv, TypeOK
      <4> QED
        BY <4>1, <4>2 DEF Pending, InMail, Cl
    <3>2. CASE MasterFinish
      <4>1. /\ Cl' = [Cl EXCEPT !.fifo_access = MASTER] /\ Cl \in Driver
            /\ UNCHANGED sent /\ master.pc = "finish"
        BY <3>2 DEF MasterFinish, MasterAt, Set, Cl, SInv, KInv, Served, TypeOK
      <4>2. Cl'.task_to_fc = Cl.task_to_fc
        BY <4>1 DEF Driver
      <4> QED
        BY <4>1, <4>2 DEF Pending, InMail, InMaster
    <3>3. CASE MasterPop
      <4>1. /\ Cl'.task_to_fc = Cl.task_to_fc
            /\ master.pc = "pop" /\ master'.pc = "free" /\ master'.s6 = master.s6
        BY <3>3, PopList DEF SInv, KInv, TypeOK
      <4>2. sent \in Seq(Thread) /\ sent # <<>> /\ master.s6 = Head(sent) /\ Once(sent)
        BY <4>1, FinishingPending DEF SInv, KInv, TypeOK, Finishing, Apart
      <4>3. Elements(sent') = Elements(sent) \ {master.s6}
        BY <3>3, <4>2, TailOnce DEF MasterPop, Tail1
      <4> QED
        BY <4>1, <4>3 DEF Pending, InMail, InMaster
    <3>4. CASE MasterMail
      <4>1. Cl.task_to_fc = NULL /\ Cl'.task_to_fc = master.s6 /\ master.s6 \in Thread
        BY <3>4, MailList DEF SInv
      <4> QED
        BY <3>4, <4>1, NamesAssumption DEF MasterMail, Pending, InMail, InMaster
    <3> QED
      BY <1>3, <3>1, <3>2, <3>3, <3>4 DEF MasterStep
  <2> QED
    BY <1>1, <2>1, <2>2 DEF Awaited
<1> QED
  BY <1>2, <1>3

\* The core sleeps when it has seen the list empty, or the mailbox full.
LEMMA ParallelWoken ==
  ASSUME NEW k \in Thread, SInv(k), Woken, MasterStep \/ Handler
  PROVE  Woken'
<1>1. CASE Handler
  BY <1>1 DEF Handler, Woken
<1>2. CASE MasterReady \/ MasterSleep \/ MasterRun \/ MasterFinish \/ MasterPop
           \/ MasterFree \/ MasterMail \/ MasterMailWait
  <2>1. master \in [pc : MasterPc, s5 : Block \cup {NULL}, s6 : Thread \cup {NULL},
                    data : Block \cup {NULL}]
        /\ per_cluster_data # NULL
    BY BlockAssumption DEF SInv, KInv, TypeOK, Served
  <2>2. master'.pc \notin {"sleep", "full"}
    <3>1. CASE MasterReady
      BY <2>1, <3>1 DEF MasterReady
    <3>2. CASE MasterFinish \/ MasterFree
      BY <2>1, <3>2 DEF MasterFinish, MasterFree
    <3>3. CASE MasterSleep \/ MasterRun \/ MasterPop \/ MasterMail \/ MasterMailWait
      BY <2>1, <3>3 DEF MasterSleep, MasterRun, MasterPop, MasterMail, MasterMailWait,
                        MasterGoto
    <3> QED
      BY <1>2, <3>1, <3>2, <3>3
  <2> QED
    BY <2>2 DEF Woken
<1>3. CASE MasterLoop
  <2>1. Cl.task_first = NULL => sent = <<>>
    BY NamesAssumption, SeqDef DEF SInv, Linked, KInv, Attended
  <2>2. master'.pc = "full" => FALSE
    BY <1>3 DEF MasterLoop, SInv, KInv, TypeOK
  <2>3. master'.pc = "sleep" => Cl.task_first = NULL
    BY <1>3 DEF MasterLoop, MasterAt, SInv, KInv, TypeOK, Attended, Cl
  <2> QED
    BY <1>3, <2>1, <2>2, <2>3 DEF MasterLoop, list, Woken
<1>4. CASE MasterMailFull
  <2>1. Cl.task_to_fc # NULL
    BY <1>4 DEF MasterMailFull, MasterAt, MailboxFree, SInv, KInv, Attended, Cl
  <2>2. irq' /\ master'.pc = "full"
    BY <1>4, <2>1 DEF MasterMailFull, MasterGoto, SInv, KInv, Notified, TypeOK
  <2> QED
    BY <2>2 DEF Woken
<1> QED
  BY <1>1, <1>2, <1>3, <1>4 DEF MasterStep

LEMMA NextWInv ==
  ASSUME NEW k \in Thread, WInv(k), Pairs, [Next]_vars
  PROVE  WInv(k)'
<1>1. SInv(k)' /\ Locked'
  BY NextSInv, NextLocked DEF WInv, SInv
<1>2. CASE \E p \in Thread :
             \/ OpenRead(p) \/ CloseEnter(p) \/ FreeEnter(p)
             \/ \E created \in BOOLEAN : SendEnter(p, created)
             \/ ThreadStep(p)
  BY <1>1, <1>2, ThreadAwaited, ThreadWoken DEF WInv
<1>3. CASE MasterStep \/ Handler
  BY <1>1, <1>3, ParallelAwaited, ParallelWoken DEF WInv
<1>4. CASE Fault
  BY <1>4, NoFault DEF WInv, SInv
<1>5. CASE UNCHANGED vars
  <2>1. UNCHANGED <<InMaster, InMail, Pending>>
    BY <1>5 DEF vars, InMaster, InMail, Pending, Cl
  <2> QED
    BY <1>1, <1>5, <2>1 DEF vars, WInv, Awaited, Woken
<1> QED
  BY <1>2, <1>3, <1>4, <1>5 DEF Next

LEMMA WaitInvariance ==
  ASSUME NEW k \in Thread, KeptOpen(k), Pairs
  PROVE  Spec => []WInv(k)
<1>1. Init => WInv(k)
  BY InitWInv
<1>2. WInv(k) /\ [Next]_vars => WInv(k)'
  BY NextWInv
<1> QED
  BY <1>1, <1>2, PTL DEF Spec

NoLostWakeUp ==
  /\ \A p \in Thread : pc[p] \in {"wait", "sent"} => task[p].done \/ p \in Pending
  /\ Woken

\* A sender that waits for its task has been told, or its task is in the list, with
\* the master core or in the mailbox; and the core does not sleep on a task: the
\* event that wakes it (hal_eu_cluster_evt_trig_set in __pi_send_task_to_cl and in
\* cl_notify_fc_event_handler) is never lost between its look and its wait.
THEOREM PairsNoLostWakeUp ==
  ASSUME NEW k \in Thread, KeptOpen(k), Pairs
  PROVE  Spec => []NoLostWakeUp
<1>1. WInv(k) => NoLostWakeUp
  BY DEF WInv, Awaited, NoLostWakeUp, Sending
<1> QED
  BY <1>1, WaitInvariance, PTL

\* The conditions under which a thread in the driver, and the master core, can go
\* on: the mutex or the spinlock is free, the event buffered, the sender told.
ThreadCanStep(p) ==
  /\ ~irq
  /\ \/ pc[p] \in {"power", "count", "stopped", "pushing", "wake", "polling"}
     \/ pc[p] = "check" /\ Stack # {}
     \/ pc[p] \in {"start", "stop"} /\ Data(p).powerstate_mutex = NULL
     \/ pc[p] = "send" /\ Data(p).task_mutex = NULL
     \/ pc[p] \in {"push", "poll"} /\ Data(p).fifo_access = NULL
     \/ pc[p] \in {"wait", "sent"} /\ task[p].done

MasterCanStep ==
  \/ master.pc \in {"ready", "loop", "run", "pop", "free", "mail"}
  \/ master.pc = "finish" /\ Cl.fifo_access = NULL
  \/ master.pc \in {"sleep", "full"} /\ event

NoDeadlock ==
  (\E p \in Thread : pc[p] # "idle") =>
    irq \/ MasterCanStep \/ \E p \in Thread : ThreadCanStep(p)

\* Threads, master core and handler never all wait for each other: while a thread
\* is in a call of the driver, the interrupt is pending, the master core can go on,
\* or a thread can, whatever the order in which the two mutexes, the spinlock, the
\* event and the mailbox were taken and released.
THEOREM PairsNoDeadlock ==
  ASSUME NEW k \in Thread, KeptOpen(k), Pairs, Stack # {}
  PROVE  Spec => []NoDeadlock
<1>1. WInv(k) => NoDeadlock
  <2> SUFFICES ASSUME WInv(k), NEW p \in Thread, pc[p] # "idle",
                      ~irq, ~MasterCanStep, \A q \in Thread : ~ThreadCanStep(q)
               PROVE  FALSE
    BY DEF NoDeadlock
  <2>1. /\ KInv(k) /\ Locked /\ Cl \in Driver
        /\ Cl.fifo_access \in Thread \cup {NULL, MASTER}
        /\ Cl.task_mutex \in Thread \cup {NULL}
        /\ Cl.powerstate_mutex \in Thread \cup {NULL}
    <3>1. KInv(k) /\ Locked /\ Cl \in Driver
      BY Serving DEF WInv, SInv, KInv
    <3> QED
      BY <3>1 DEF Driver
  <2>2. \A q \in Thread : pc[q] \in Inside => Data(q) = Cl
    BY <2>1, Serving
  <2>3. Cl.fifo_access = NULL
    <3>1. \A q \in Thread : pc[q] \notin {"pushing", "polling"}
      BY DEF ThreadCanStep
    <3>2. master.pc # "pop"
      BY DEF MasterCanStep
    <3> QED
      BY <2>1, <3>1, <3>2 DEF Locked
  <2>4. Cl.task_mutex = NULL
    <3>1. \A q \in Thread : pc[q] \notin {"check", "push", "pushing", "wake"}
      BY <2>2, <2>3 DEF ThreadCanStep, Inside
    <3> QED
      BY <2>1, <3>1 DEF Locked
  <2>5. Cl.powerstate_mutex = NULL
    <3>1. \A q \in Thread : pc[q] \notin {"power", "count"}
      BY DEF ThreadCanStep
    <3> QED
      BY <2>1, <3>1 DEF Locked
  <2>6. \A q \in Thread : /\ pc[q] \in {"idle", "wait", "sent"}
                          /\ pc[q] # "idle" => ~task[q].done
    <3>1. \A q \in Thread : pc[q] \in Inside \cup {"idle"}
      BY <2>1 DEF KInv, Served
    <3> QED
      BY <2>2, <2>3, <2>4, <2>5, <3>1 DEF ThreadCanStep, Inside
  <2>7. p \in Pending
    BY <2>6 DEF WInv, Awaited, Sending
  <2>8. master.pc \in {"sleep", "full"} /\ ~event
    <3>1. master.pc \in MasterPc /\ master.pc # "off" /\ event \in BOOLEAN
      BY <2>1 DEF KInv, TypeOK, Attended
    <3> QED
      BY <2>3, <3>1 DEF MasterCanStep, MasterPc
  <2>9. master.pc = "sleep" /\ sent = <<>>
    BY <2>6, <2>8 DEF WInv, Woken
  <2>10. InMaster = {} /\ InMail = {} /\ Elements(sent) = {}
    BY <2>1, <2>9, EmptyOnce DEF InMaster, InMail, KInv, Notified
  <2> QED
    BY <2>7, <2>10 DEF Pending
<1> QED
  BY <1>1, WaitInvariance, PTL

=============================================================================
