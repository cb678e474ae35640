------------------------------ MODULE I2cProofs ------------------------------
(***************************************************************************)
(* Theorems about I2c, for any number of devices, both builds, both kinds   *)
(* of chip and every call that ManagedCalls allows: its types, the fifo, the *)
(* buffers of the uDMA, the reports, that it implements TransferService, and *)
(* that nobody waits in vain.                                              *)
(***************************************************************************)
EXTENDS I2cRefinement, TaskFifoProofs, FiniteSetTheorems

\* A read asks for at least one byte; and of a build without end-of-transfer
\* events, for no more than one command holds, with a stop, and nothing is
\* written there but commands.  Devices are opened, and the bus is scanned, while
\* it is idle.
ManagedCalls ==
  /\ Careful
  /\ \A c \in PlainCall \cup EotCall : c.kind = "read" => c.size > 0
  /\ \A c \in PlainCall : /\ c.kind = "read" => c.stop /\ ~Long(c)
                          /\ c.kind = "write" => c.size = 0

(***************************************************************************)
(* The inductive invariant                                                 *)
(***************************************************************************)

\* What the build allows of a transfer.
Proper(c) ==
  /\ c.kind \in {"read", "write"}
  /\ c.kind = "read" => c.size > 0
  /\ ~eot => /\ c.kind = "read" => c.stop /\ ~Long(c)
             /\ c.kind = "write" => c.size = 0

\* A detection reads a byte.
Request(c) == IF c.kind = "detect" THEN [kind |-> "read", size |-> 1, stop |-> TRUE]
                                   ELSE Arguments(c)

\* A thread whose transfer is in the queue is in a call on an open device and not
\* reported.
Underway ==
  \A p \in Elements(queue) :
    /\ p \in opened /\ pc[p] \in {"wait", "sent", "detached"} /\ ~task[p].done
    /\ task[p].id = "PI_TASK_NONE_ID" \/ pc[p] = "detached"
    /\ Proper(Request(call[p]))

\* What the handler starts a transfer of the fifo from.
Prepared == \A p \in Elements(queue) : p # drv.slot => data[p] = Request(call[p])

\* Every open device is counted, and has the interface.
Counted ==
  /\ drv.nb_open = Cardinality(opened)
  /\ ~attached => opened = {}

\* A thread out of the driver starts with a notification that is not given.
Fresh == \A p \in Thread : pc[p] = "idle" => ~task[p].done

\* Where address 0 cannot be written, pending reads as zeros.
Grounded == ~ram => pending = PendingZero

Cmd(p) == [kind |-> "cmd", owner |-> p]
Dat(p) == [kind |-> "data", owner |-> p]
Final == {FixedSeq("stop"), FixedSeq("eot")}

Quiet == tx = <<>> /\ rx = <<>> /\ events = <<>>

\* The buffers of p's transfer that the uDMA has not executed, and the events of
\* the others, before the handler has sent a fixed sequence.
Moving(p) ==
  /\ \/ tx = <<Cmd(p), Dat(p)>> /\ events = <<>> /\ drv.cmd = p /\ eot
     \/ tx = <<Cmd(p)>> /\ events = <<>> /\ drv.cmd = p
     \/ tx = <<Dat(p)>> /\ events \in {<<>>, <<"tx">>} /\ eot
     \/ tx = <<>> /\ events = <<"tx">>
     \/ tx = <<>> /\ events \in {<<>>, <<"tx", "tx">>} /\ eot
  /\ ~eot => pending.repeat = 0 /\ (rx # <<>> => drv.stop_send)

\* The fixed sequence is enqueued: nothing will be enqueued behind it.
Stopping(p) ==
  /\ pending.repeat = 0 /\ ~drv.stop_send /\ (eot => ~drv.eot_send)
  /\ \E f \in Final :
       \/ tx = <<f>> /\ events = <<>>
       \/ tx = <<f>> /\ events = <<"tx">> /\ eot
       \/ tx = <<Dat(p), f>> /\ events = <<>> /\ eot

\* It has been executed: what was to be read has been, and the event that ends
\* the transfer is the last one.
Stopped ==
  /\ pending.repeat = 0 /\ ~drv.stop_send /\ ~drv.eot_send /\ eot
  /\ tx = <<>> /\ rx = <<>>
  /\ events \in {<<"tx", "tx", "eot">>, <<"tx", "eot">>, <<"eot">>}

Stages(p) ==
  /\ rx \in {<<>>, <<p>>}
  /\ Moving(p) \/ Stopping(p) \/ Stopped

OnBus == IF drv.slot = NULL THEN Quiet ELSE Stages(drv.slot)

IInv == /\ TypeOK /\ QueueLinked /\ Once(queue)
        /\ Underway /\ Prepared /\ Counted /\ Fresh /\ Grounded /\ OnBus

(***************************************************************************)
(* Short sequences                                                         *)
(***************************************************************************)

\* Putting together sequences of one and two.
LEMMA Short ==
  ASSUME NEW S, NEW a \in S, NEW b \in S, NEW c \in S
  PROVE  /\ Append(<<a>>, b) = <<a, b>>
         /\ <<a>> \o <<b>> = <<a, b>> /\ <<a, b>> \o <<c>> = <<a, b, c>>
         /\ <<a>> \o <<>> = <<a>> /\ <<>> \o <<a>> = <<a>>
         /\ <<a, b>> \o <<>> = <<a, b>> /\ <<>> \o <<a, b>> = <<a, b>>
<1>1. /\ <<a>> \in Seq(S) /\ <<b>> \in Seq(S) /\ <<c>> \in Seq(S)
      /\ <<a, b>> \in Seq(S) /\ <<a, b, c>> \in Seq(S)
  OBVIOUS
<1>2. <<a>> \o <<b>> = <<a, b>>
  <2> DEFINE s == <<a>> \o <<b>>
  <2>1. s \in Seq(S) /\ Len(s) = 2 /\ s[1] = a /\ s[2] = b
    BY <1>1, ConcatProperties
  <2> HIDE DEF s
  <2>2. \A i \in 1..Len(s) : s[i] = <<a, b>>[i]
    BY <2>1
  <2>3. s = <<a, b>>
    BY <1>1, <2>1, <2>2, SeqEqual
  <2> QED
    BY <2>3 DEF s
<1>3. <<a, b>> \o <<c>> = <<a, b, c>>
  <2> DEFINE s == <<a, b>> \o <<c>>
  <2>1. s \in Seq(S) /\ Len(s) = 3 /\ s[1] = a /\ s[2] = b /\ s[3] = c
    BY <1>1, ConcatProperties
  <2> HIDE DEF s
  <2>2. \A i \in 1..Len(s) : s[i] = <<a, b, c>>[i]
    BY <2>1
  <2>3. s = <<a, b, c>>
    BY <1>1, <2>1, <2>2, SeqEqual
  <2> QED
    BY <2>3 DEF s
<1>4. Append(<<a>>, b) = <<a, b>>
  <2> DEFINE s == Append(<<a>>, b)
  <2>1. s \in Seq(S) /\ Len(s) = 2 /\ s[1] = a /\ s[2] = b
    BY <1>1, AppendProperties
  <2> HIDE DEF s
  <2>2. \A i \in 1..Len(s) : s[i] = <<a, b>>[i]
    BY <2>1
  <2>3. s = <<a, b>>
    BY <1>1, <2>1, <2>2, SeqEqual
  <2> QED
    BY <2>3 DEF s
<1> QED
  BY <1>1, <1>2, <1>3, <1>4, ConcatEmptySeq

(***************************************************************************)
(* The queue                                                               *)
(***************************************************************************)

\* The part of the queue that is in the fifo.
Fifo == IF queue = <<>> THEN <<>> ELSE Tail(queue)

Last == IF Fifo = <<>> THEN NULL ELSE drv.fifo_tail

\* The slot holds the head of the queue, and the fifo what is behind it.
LEMMA QueueFacts ==
  ASSUME TypeOK, QueueLinked, Once(queue)
  PROVE  /\ queue \in Seq(Thread) /\ Elements(queue) \subseteq Thread
         /\ drv.slot = NULL <=> queue = <<>>
         /\ queue # <<>> => /\ drv.slot = Head(queue)
                            /\ Head(queue) = queue[1]
                            /\ Head(queue) \in Elements(queue)
         /\ Fifo \in Seq(Thread) /\ Once(Fifo)
         /\ Elements(Fifo) = Elements(queue) \ {drv.slot}
         /\ Represents(Fifo, drv.fifo_head, Last, next, NULL)
         /\ drv.fifo_head = NULL <=> Fifo = <<>>
         /\ Fifo # <<>> => /\ drv.fifo_head = Head(Fifo) /\ drv.fifo_head \in Elements(Fifo)
                           /\ drv.fifo_tail \in Elements(Fifo)
<1>1. queue \in Seq(Thread) /\ NULL \notin Thread
  BY ThreadAssumption DEF TypeOK
<1>2. Elements(queue) \subseteq Thread
  BY <1>1, LenProperties, ElementOfSeq DEF Elements
<1>3. Represents(Fifo, drv.fifo_head, Last, next, NULL)
  BY DEF QueueLinked, Fifo, Last
<1>4. CASE queue = <<>>
  <2>1. Fifo = <<>> /\ drv.slot = NULL
    BY <1>4 DEF Fifo, QueueLinked
  <2>2. Elements(<<>>) = {} /\ Once(<<>>) /\ <<>> \in Seq(Thread)
    BY EmptyOnce, EmptySeq
  <2>3. drv.fifo_head = NULL
    BY <1>3, <2>1 DEF Represents
  <2> QED
    BY <1>1, <1>3, <1>4, <2>1, <2>2, <2>3
<1>5. CASE queue # <<>>
  <2>1. Fifo = Tail(queue) /\ drv.slot = Head(queue)
    BY <1>5 DEF Fifo, QueueLinked
  <2>2. /\ Tail(queue) \in Seq(Thread) /\ Once(Tail(queue))
        /\ Head(queue) = queue[1] /\ queue[1] \in Elements(queue) /\ queue[1] \in Thread
        /\ Elements(Tail(queue)) = Elements(queue) \ {Head(queue)}
    BY <1>1, <1>5, TailOnce
  <2>3. /\ drv.fifo_head = NULL <=> Fifo = <<>>
        /\ Fifo # <<>> => /\ drv.fifo_head = Head(Fifo) /\ drv.fifo_head = Fifo[1]
                          /\ Last \in Elements(Fifo)
    <3> DEFINE f == Fifo
               h == drv.fifo_head
               l == Last
    <3>1. f \in Seq(Thread) /\ NULL \notin Thread /\ Represents(f, h, l, next, NULL)
      BY <1>1, <1>3, <2>1, <2>2
    <3> HIDE DEF f, h, l
    <3>2. /\ h = NULL <=> f = <<>>
          /\ f # <<>> => h = Head(f) /\ h = f[1] /\ l \in Elements(f)
      BY <3>1, RepresentsEnds
    <3> QED
      BY <3>2 DEF f, h, l
  <2>4. Fifo # <<>> => Fifo[1] \in Elements(Fifo)
    BY <2>1, <2>2, TailOnce
  <2> QED
    BY <1>1, <1>2, <1>3, <1>5, <2>1, <2>2, <2>3, <2>4 DEF Last
<1> QED
  BY <1>4, <1>5

\* Those in the queue are in the driver.
LEMMA OutOfQueue ==
  ASSUME IInv, NEW p \in Thread, pc[p] = "idle" \/ task[p].done
  PROVE  p \notin Elements(queue)
BY DEF IInv, Underway

\* Steps that leave the queue and the bus alone, and of those in the queue all but
\* where they wait.
LEMMA Frame ==
  ASSUME IInv, queue' = queue, UNCHANGED <<eot, tx, rx, events>>,
         drv'.slot = drv.slot, drv'.fifo_head = drv.fifo_head,
         drv.slot # NULL =>
           /\ pending' = pending /\ drv'.fifo_tail = drv.fifo_tail
           /\ drv'.cmd = drv.cmd /\ drv'.stop_send = drv.stop_send
           /\ drv'.eot_send = drv.eot_send,
         \A q \in Elements(queue) :
           /\ q \in opened' /\ pc'[q] \in {"wait", "sent", "detached"}
           /\ pc[q] = "detached" => pc'[q] = "detached"
           /\ task'[q] = task[q] /\ call'[q] = call[q] /\ data'[q] = data[q]
           /\ next'[q] = next[q]
  PROVE  QueueLinked' /\ OnBus' /\ Once(queue)' /\ Underway' /\ Prepared'
<1>1. Once(queue)' /\ Underway' /\ Prepared'
  BY DEF IInv, Underway, Prepared, Once, Proper, Request, Long
<1>2. QueueLinked'
  <2>1. /\ Represents(Fifo, drv.fifo_head, Last, next, NULL)
        /\ Elements(Fifo) \subseteq Elements(queue)
        /\ Fifo # <<>> => drv.slot # NULL
    BY QueueFacts DEF IInv, Fifo
  <2>2. Represents(Fifo, drv.fifo_head, Last, next', NULL)
    BY <2>1, RepresentsFrame
  <2> QED
    BY <2>1, <2>2 DEF IInv, QueueLinked, Fifo, Last
<1>3. OnBus'
  <2>1. CASE drv.slot = NULL
    BY <2>1 DEF IInv, OnBus, Quiet
  <2>2. CASE drv.slot # NULL
    BY <2>2 DEF IInv, OnBus, Stages, Moving, Stopping, Stopped
  <2> QED
    BY <2>1, <2>2
<1> QED
  BY <1>1, <1>2, <1>3

(***************************************************************************)
(* Opening and closing                                                     *)
(***************************************************************************)

\* The open devices can be counted.
LEMMA OpenedFinite ==
  ASSUME opened \subseteq Thread
  PROVE  IsFiniteSet(opened) /\ Cardinality(opened) \in Nat
BY ThreadAssumption, FS_Subset, FS_CardinalityType

\* While nothing is attached, nothing is in the driver.
LEMMA Detached ==
  ASSUME IInv, drv.slot = NULL
  PROVE  /\ drv.fifo_head = NULL /\ queue = <<>> /\ Elements(queue) = {}
         /\ ~attached => drv.nb_open = 0
<1>1. queue = <<>> /\ Fifo = <<>> /\ Elements(queue) = {}
  BY QueueFacts, EmptyOnce DEF IInv, Fifo
<1>2. drv.fifo_head = NULL
  BY <1>1, QueueFacts DEF IInv
<1>3. ~attached => drv.nb_open = 0
  BY FS_EmptySet DEF IInv, Counted
<1> QED
  BY <1>1, <1>2, <1>3

\* __pi_i2c_open, on an idle bus.
LEMMA OpenInv ==
  ASSUME ManagedCalls, IInv, NEW p \in Thread, Open(p)
  PROVE  IInv'
<1>1. /\ pc[p] = "idle" /\ p \notin opened /\ drv.slot = NULL /\ attached' = TRUE
      /\ UNCHANGED <<eot, ram, pc, call, task, data, next, tx, rx, events, queue>>
      /\ \/ /\ opened' = opened \cup {p} /\ drv' = OpenedDriver(drv)
            /\ pending' = PendingAfterAdd
         \/ /\ drv' = IF attached THEN drv ELSE DriverZero
            /\ UNCHANGED <<opened, pending>>
  BY DEF Open, ManagedCalls, Busy, platform, app, udma
<1>2. /\ drv.fifo_head = NULL /\ Elements(queue) = {}
      /\ ~attached => drv.nb_open = 0
      /\ drv \in Driver /\ DriverZero \in Driver /\ DriverZero.nb_open = 0
      /\ DriverZero.slot = NULL /\ DriverZero.fifo_head = NULL
  BY <1>1, Detached DEF IInv, TypeOK, DriverZero, Driver
<1>3. /\ drv' \in Driver /\ drv'.slot = NULL /\ drv'.fifo_head = NULL
      /\ \/ opened' = opened \cup {p} /\ drv'.nb_open = drv.nb_open + 1
         \/ opened' = opened /\ drv'.nb_open = drv.nb_open
  BY <1>1, <1>2 DEF OpenedDriver, Driver
<1>4. /\ pending' \in Pending
      /\ ~ram => pending' = pending
  <2>1. pending \in Pending /\ LINK \in 0..(WORD - 1)
    BY BuildAssumption DEF IInv, TypeOK
  <2>2. pending' = pending \/ (ram /\ pending' = [pending EXCEPT !.repeat = LINK])
    BY <1>1 DEF PendingAfterAdd
  <2>3. [pending EXCEPT !.repeat = LINK] \in Pending
    BY <2>1 DEF Pending
  <2> QED
    BY <2>1, <2>2, <2>3
<1>5. TypeOK'
  BY <1>1, <1>3, <1>4 DEF IInv, TypeOK
<1>6. QueueLinked' /\ OnBus' /\ Once(queue)' /\ Underway' /\ Prepared'
  BY <1>1, <1>2, <1>3, Frame
<1>7. Counted'
  <2>1. IsFiniteSet(opened) /\ Cardinality(opened) \in Nat
    BY OpenedFinite DEF IInv, TypeOK
  <2>2. Cardinality(opened \cup {p}) = Cardinality(opened) + 1
    BY <1>1, <2>1, FS_AddElement
  <2> QED
    BY <1>1, <1>3, <2>2 DEF IInv, Counted
<1>8. Fresh' /\ Grounded'
  BY <1>1, <1>4 DEF IInv, Fresh, Grounded
<1> QED
  BY <1>5, <1>6, <1>7, <1>8 DEF IInv

\* __pi_i2c_close: the last one, when no transfer is left, detaches.
LEMMA CloseInv ==
  ASSUME IInv, NEW p \in Thread, Close(p)
  PROVE  IInv'
<1>1. /\ p \in opened /\ pc[p] = "idle" /\ opened' = opened \ {p}
      /\ UNCHANGED <<eot, ram, pc, call, task, data, next, pending, tx, rx, events, queue>>
      /\ IF drv.nb_open - 1 = 0
           THEN attached' = FALSE /\ drv' = DriverZero
           ELSE drv' = [drv EXCEPT !.nb_open = @ - 1] /\ UNCHANGED attached
  BY DEF Close, platform, app, udma, IInv, TypeOK, Driver
<1>2. IsFiniteSet(opened) /\ Cardinality(opened) \in Nat /\ drv \in Driver
  BY OpenedFinite DEF IInv, TypeOK
<1>3. /\ Cardinality(opened \ {p}) = Cardinality(opened) - 1
      /\ Cardinality(opened \ {p}) \in Nat /\ IsFiniteSet(opened \ {p})
  BY <1>1, <1>2, FS_RemoveElement, FS_CardinalityType
<1>4. drv.nb_open = Cardinality(opened)
  BY DEF IInv, Counted
<1>5. \A q \in Elements(queue) : q \in opened \ {p}
  BY <1>1, OutOfQueue DEF IInv, Underway
<1>6. CASE drv.nb_open - 1 = 0
  <2>1. opened' = {} /\ Cardinality({}) = 0
    BY <1>1, <1>3, <1>4, <1>6, FS_EmptySet
  <2>2. Elements(queue) = {} /\ queue = <<>> /\ drv.slot = NULL
    BY <1>1, <1>5, <2>1, QueueFacts DEF IInv
  <2>3. drv.fifo_head = NULL
    BY <2>2, Detached
  <2>4. /\ DriverZero \in Driver /\ DriverZero.nb_open = 0
        /\ DriverZero.slot = NULL /\ DriverZero.fifo_head = NULL
    BY DEF DriverZero, Driver
  <2>5. attached' = FALSE /\ drv' = DriverZero
    BY <1>1, <1>6
  <2>6. QueueLinked' /\ OnBus' /\ Once(queue)' /\ Underway' /\ Prepared'
    BY <1>1, <2>2, <2>3, <2>4, <2>5, Frame
  <2>7. TypeOK'
    BY <1>1, <2>1, <2>4, <2>5 DEF IInv, TypeOK
  <2>8. Counted' /\ Fresh' /\ Grounded'
    BY <1>1, <2>1, <2>4, <2>5 DEF IInv, Counted, Fresh, Grounded
  <2> QED
    BY <2>6, <2>7, <2>8 DEF IInv
<1>7. CASE drv.nb_open - 1 # 0
  <2>1. drv' = [drv EXCEPT !.nb_open = @ - 1] /\ attached' = attached
    BY <1>1, <1>7
  <2>2. /\ drv' \in Driver /\ drv'.nb_open = drv.nb_open - 1
        /\ drv'.slot = drv.slot /\ drv'.fifo_head = drv.fifo_head
        /\ drv'.fifo_tail = drv.fifo_tail /\ drv'.cmd = drv.cmd
        /\ drv'.stop_send = drv.stop_send /\ drv'.eot_send = drv.eot_send
    BY <1>2, <1>3, <1>4, <2>1 DEF Driver
  <2>3. QueueLinked' /\ OnBus' /\ Once(queue)' /\ Underway' /\ Prepared'
    <3>1. \A q \in Elements(queue) : pc[q] \in {"wait", "sent", "detached"}
      BY DEF IInv, Underway
    <3> QED
      BY <1>1, <1>5, <2>2, <3>1, Frame
  <2>4. TypeOK'
    BY <1>1, <2>1, <2>2 DEF IInv, TypeOK
  <2>5. Counted' /\ Fresh' /\ Grounded'
    BY <1>1, <1>3, <1>4, <2>1, <2>2 DEF IInv, Counted, Fresh, Grounded
  <2> QED
    BY <2>3, <2>4, <2>5 DEF IInv
<1> QED
  BY <1>6, <1>7

(***************************************************************************)
(* Callers                                                                 *)
(***************************************************************************)

\* A caller that comes to wait keeps the invariant.
LEMMA WaitInv ==
  ASSUME IInv, NEW p \in Thread, Wait(p)
  PROVE  IInv'
<1>1. /\ pc[p] = "sent" /\ pc' = [pc EXCEPT ![p] = "wait"]
      /\ UNCHANGED <<eot, ram, call, task, data, next, opened, attached, drv, pending,
                     tx, rx, events, queue>>
  BY DEF Wait, platform, udma
<1>2. TypeOK'
  BY <1>1 DEF IInv, TypeOK, Pc
<1>3. \A q \in Elements(queue) : /\ q \in opened /\ pc'[q] \in {"wait", "sent", "detached"}
                                 /\ pc[q] = "detached" => pc'[q] = "detached"
  BY <1>1 DEF IInv, TypeOK, Underway
<1>4. QueueLinked' /\ OnBus' /\ Once(queue)' /\ Underway' /\ Prepared'
  BY <1>1, <1>3, Frame
<1>5. Counted' /\ Fresh' /\ Grounded'
  BY <1>1 DEF IInv, Counted, Fresh, Grounded, TypeOK
<1> QED
  BY <1>2, <1>4, <1>5 DEF IInv

\* So does one that has been reported, and whose transfer has left the queue.
LEMMA WaitOnInv ==
  ASSUME IInv, NEW p \in Thread, WaitOn(p)
  PROVE  IInv' /\ p \notin Elements(queue)
<1>1. /\ pc[p] = "wait" /\ task[p].done
      /\ task' = [task EXCEPT ![p] = PiTaskZero] /\ pc' = [pc EXCEPT ![p] = "idle"]
      /\ call' = [call EXCEPT ![p] = CallZero] /\ data' = [data EXCEPT ![p] = DataZero]
      /\ next' = [next EXCEPT ![p] = NULL]
      /\ UNCHANGED <<eot, ram, opened, attached, drv, pending, tx, rx, events, queue>>
  BY DEF WaitOn, platform, udma
<1>2. TypeOK'
  <2>1. /\ CallZero \in Call /\ DataZero \in Data /\ PiTaskZero \in PiTaskT
        /\ "idle" \in Pc
    BY BuildAssumption DEF CallZero, Call, DataZero, Data, PiTaskZero, PiTaskT, TaskId, Pc
  <2> QED
    BY <1>1, <2>1 DEF IInv, TypeOK
<1>3. p \notin Elements(queue) /\ Elements(queue) \subseteq Thread
  BY <1>1, OutOfQueue, QueueFacts DEF IInv
<1>4. \A q \in Elements(queue) :
        /\ q \in opened /\ pc[q] \in {"wait", "sent", "detached"} /\ pc'[q] = pc[q]
        /\ task'[q] = task[q] /\ call'[q] = call[q] /\ data'[q] = data[q]
        /\ next'[q] = next[q]
  <2>1. ASSUME NEW q \in Elements(queue)
        PROVE  /\ q \in opened /\ pc[q] \in {"wait", "sent", "detached"}
               /\ q \in Thread /\ q # p
    BY <1>3 DEF IInv, Underway
  <2> QED
    BY <1>1, <2>1 DEF IInv, TypeOK
<1>5. QueueLinked' /\ OnBus' /\ Once(queue)' /\ Underway' /\ Prepared'
  BY <1>1, <1>4, Frame
<1>6. Counted' /\ Grounded'
  BY <1>1 DEF IInv, Counted, Grounded
<1>7. Fresh'
  BY <1>1 DEF IInv, Fresh, TypeOK, PiTaskZero
<1> QED
  BY <1>2, <1>3, <1>5, <1>6, <1>7 DEF IInv

\* What every call does.
LEMMA CalledFacts ==
  ASSUME IInv, NEW p \in Thread, NEW c \in PlainCall \cup EotCall, Called(p, c)
  PROVE  /\ p \in opened /\ pc[p] = "idle" /\ p \notin Elements(queue)
         /\ UNCHANGED <<eot, ram, opened, attached, events>>
         /\ c \in Call /\ c \in IF eot THEN EotCall ELSE PlainCall
         /\ call' \in [Thread -> Call] /\ task' \in [Thread -> PiTaskT]
         /\ pc' \in [Thread -> Pc]
         /\ pc'[p] \in {"wait", "sent", "detached"} /\ ~task'[p].done /\ ~task[p].done
         /\ task'[p].id = "PI_TASK_NONE_ID" \/ pc'[p] = "detached"
         /\ call'[p] = c
         /\ \A q \in Thread \ {p} :
              pc'[q] = pc[q] /\ task'[q] = task[q] /\ call'[q] = call[q]
<1>1. /\ pc[p] = "idle" /\ p \in opened /\ c \in IF eot THEN EotCall ELSE PlainCall
      /\ call' = [call EXCEPT ![p] = c]
      /\ task' = [task EXCEPT ![p] = IF c.api = "callback" THEN PiTaskCallback
                                                           ELSE PiTaskBlock(TRUE)]
      /\ pc' = [pc EXCEPT ![p] = CASE c.api = "blocking" -> "wait"
                                   [] c.api = "async" -> "sent"
                                   [] c.api = "callback" -> "detached"]
      /\ UNCHANGED <<eot, ram, opened, attached, events>>
  BY DEF Called, platform
<1>2. c \in Call /\ c.api \in {"blocking", "async", "callback"}
  BY CallAssumption DEF Call
<1>3. p \notin Elements(queue) /\ ~task[p].done
  BY <1>1, OutOfQueue DEF IInv, Fresh
<1>4. pc \in [Thread -> Pc] /\ task \in [Thread -> PiTaskT] /\ call \in [Thread -> Call]
  BY DEF IInv, TypeOK
<1>5. /\ PiTaskCallback \in PiTaskT /\ PiTaskBlock(TRUE) \in PiTaskT
      /\ ~PiTaskCallback.done /\ ~PiTaskBlock(TRUE).done
      /\ PiTaskBlock(TRUE).id = "PI_TASK_NONE_ID"
  BY DEF PiTaskCallback, PiTaskBlock, PiTaskT, TaskId
<1>6. /\ task' \in [Thread -> PiTaskT] /\ ~task'[p].done
      /\ c.api # "callback" => task'[p].id = "PI_TASK_NONE_ID"
      /\ \A q \in Thread \ {p} : task'[q] = task[q]
  BY <1>1, <1>4, <1>5
<1>7. /\ pc' \in [Thread -> Pc] /\ pc'[p] \in {"wait", "sent", "detached"}
      /\ c.api = "callback" => pc'[p] = "detached"
      /\ \A q \in Thread \ {p} : pc'[q] = pc[q]
  BY <1>1, <1>2, <1>4 DEF Pc
<1>8. /\ call' \in [Thread -> Call] /\ call'[p] = c
      /\ \A q \in Thread \ {p} : call'[q] = call[q]
  BY <1>1, <1>2, <1>4
<1> QED
  BY <1>1, <1>2, <1>3, <1>6, <1>7, <1>8

\* What is accepted in one of the builds can be started there.
LEMMA RequestFacts ==
  ASSUME ManagedCalls, IInv, NEW c, c \in IF eot THEN EotCall ELSE PlainCall,
         c.kind # "refused"
  PROVE  /\ Proper(Request(c)) /\ Request(c) \in Data
         /\ c.kind # "detect" => Request(c) = Arguments(c)
<1>1. c \in PlainCall \cup EotCall /\ c \in Call
  BY CallAssumption
<1>2. c.kind \in {"read", "write", "detect"} /\ c.size \in 0..(WORD - 1) /\ c.stop \in BOOLEAN
  BY <1>1 DEF Call
<1>3. CASE c.kind = "detect"
  <2> DEFINE x == [kind |-> "read", size |-> 1, stop |-> TRUE]
  <2>1. Request(c) = x
    BY <1>3 DEF Request
  <2>2. x \in Data /\ ~Long(x)
    BY BuildAssumption DEF Data, Long
  <2> QED
    BY <1>3, <2>1, <2>2 DEF Proper
<1>4. CASE c.kind # "detect"
  <2>1. Request(c) = Arguments(c)
    BY <1>4 DEF Request
  <2>2. Arguments(c) \in Data
    BY <1>2, <1>4 DEF Arguments, Data
  <2>3. Long(Arguments(c)) <=> Long(c)
    BY DEF Long, Arguments
  <2>4. Proper(Arguments(c))
    BY <1>1, <1>2, <1>4, <2>3 DEF Proper, Arguments, ManagedCalls
  <2> QED
    BY <2>1, <2>2, <2>4
<1> QED
  BY <1>3, <1>4

\* A refused detection changes nothing in the driver.
LEMMA RefusedInv ==
  ASSUME IInv, NEW p \in Thread, NEW c \in PlainCall \cup EotCall, DetectRefused(p, c)
  PROVE  IInv'
<1>1. Called(p, c) /\ UNCHANGED <<data, next, drv, pending, tx, rx, queue>>
  BY DEF DetectRefused, udma
<1>2. TypeOK'
  BY <1>1, CalledFacts DEF IInv, TypeOK
<1>3. \A q \in Elements(queue) :
        /\ q \in opened /\ pc[q] \in {"wait", "sent", "detached"} /\ pc'[q] = pc[q]
        /\ task'[q] = task[q] /\ call'[q] = call[q]
  BY <1>1, CalledFacts, QueueFacts DEF IInv, Underway
<1>4. QueueLinked' /\ OnBus' /\ Once(queue)' /\ Underway' /\ Prepared'
  <2>1. UNCHANGED <<eot, opened, events>>
    BY <1>1, CalledFacts
  <2> QED
    BY <1>1, <1>3, <2>1, Frame
<1>5. Counted' /\ Fresh' /\ Grounded'
  BY <1>1, CalledFacts DEF IInv, Counted, Fresh, Grounded
<1> QED
  BY <1>2, <1>4, <1>5 DEF IInv

\* The parts of the invariant that do not depend on where the transfer goes.
LEMMA SubmitFacts ==
  ASSUME ManagedCalls, IInv, NEW p \in Thread, NEW c \in PlainCall \cup EotCall,
         Submit(p, c), c.kind # "refused", drv'.nb_open = drv.nb_open
  PROVE  /\ queue' = Append(queue, p) /\ queue' \in Seq(Thread) /\ queue' # <<>>
         /\ p \notin Elements(queue) /\ Elements(queue') = Elements(queue) \cup {p}
         /\ Once(queue)' /\ Underway' /\ Counted' /\ Fresh'
<1>1. Called(p, c) /\ queue' = Append(queue, p)
  BY DEF Submit
<1>2. p \notin Elements(queue)
  BY <1>1, CalledFacts
<1>3. /\ queue' \in Seq(Thread) /\ Elements(queue') = Elements(queue) \cup {p}
      /\ Once(queue') /\ queue' # <<>>
  BY <1>1, <1>2, AppendOnce DEF IInv, TypeOK
<1>4. Underway'
  <2>1. Elements(queue) \subseteq Thread
    BY QueueFacts DEF IInv
  <2>2. ASSUME NEW q \in Elements(queue), q # p
        PROVE  /\ q \in opened' /\ pc'[q] \in {"wait", "sent", "detached"} /\ ~task'[q].done
               /\ task'[q].id = "PI_TASK_NONE_ID" \/ pc'[q] = "detached"
               /\ Proper(Request(call'[q]))
    BY <1>1, <2>1, <2>2, CalledFacts DEF IInv, Underway
  <2>3. /\ p \in opened' /\ pc'[p] \in {"wait", "sent", "detached"} /\ ~task'[p].done
        /\ task'[p].id = "PI_TASK_NONE_ID" \/ pc'[p] = "detached"
        /\ Proper(Request(call'[p]))
    BY <1>1, CalledFacts, RequestFacts
  <2>4. ASSUME NEW q \in Elements(queue')
        PROVE  /\ q \in opened' /\ pc'[q] \in {"wait", "sent", "detached"} /\ ~task'[q].done
               /\ task'[q].id = "PI_TASK_NONE_ID" \/ pc'[q] = "detached"
               /\ Proper(Request(call'[q]))
    BY <1>2, <1>3, <2>2, <2>3
  <2> QED
    BY <1>1, <2>4, CalledFacts DEF Underway, Proper, Request, Long, Arguments
<1>5. Counted' /\ Fresh'
  BY <1>1, CalledFacts DEF IInv, Counted, Fresh
<1> QED
  BY <1>1, <1>2, <1>3, <1>4, <1>5

(***************************************************************************)
(* Starting a transfer                                                     *)
(***************************************************************************)

\* Exec on a quiet bus: the slot is taken and the buffers of the transfer are all
\* the uDMA has.
LEMMA ExecFacts ==
  ASSUME IInv, NEW d \in Driver, NEW p \in Thread, NEW x \in Data, Proper(x),
         Exec(d, p, x), tx = <<>>, rx = <<>>
  PROVE  /\ drv' \in Driver /\ drv'.slot = p /\ drv'.cmd = p
         /\ drv'.fifo_head = d.fifo_head /\ drv'.fifo_tail = d.fifo_tail
         /\ drv'.nb_open = d.nb_open
         /\ pending' \in Pending /\ (~ram => pending' = pending)
         /\ x.kind = "read" => tx' = <<Cmd(p)>> /\ rx' = <<p>>
         /\ x.kind = "write" /\ x.size = 0 => tx' = <<Cmd(p)>> /\ rx' = <<>>
         /\ x.kind = "write" /\ x.size > 0 => tx' = <<Cmd(p), Dat(p)>> /\ rx' = <<>> /\ eot
         /\ ~eot => pending'.repeat = 0 /\ (rx' # <<>> => drv'.stop_send)
<1>1. /\ x.kind \in {"read", "write"} /\ x.size \in 0..(WORD - 1) /\ x.stop \in BOOLEAN
      /\ x.kind = "read" => x.size > 0
      /\ ~eot => ~Long(x)
      /\ ~eot /\ x.kind = "read" => x.stop
      /\ ~eot /\ x.kind = "write" => x.size = 0
  BY BuildAssumption DEF Proper, Data, Long
<1>2. /\ drv' = [FlagsAfterExec(d, x) EXCEPT !.slot = p, !.cmd = p]
      /\ pending' = PendingAfterExec(x)
      /\ tx' = tx \o Sequence(p, x)
      /\ rx' = IF x.kind = "read" THEN Append(rx, p) ELSE rx
  BY <1>1 DEF Exec
<1>3. /\ FlagsAfterExec(d, x) \in Driver
      /\ FlagsAfterExec(d, x).fifo_head = d.fifo_head
      /\ FlagsAfterExec(d, x).fifo_tail = d.fifo_tail
      /\ FlagsAfterExec(d, x).nb_open = d.nb_open
      /\ ~Long(x) => FlagsAfterExec(d, x).stop_send = x.stop
  BY <1>1 DEF FlagsAfterExec, Driver
<1>4. /\ drv' \in Driver /\ drv'.slot = p /\ drv'.cmd = p
      /\ drv'.fifo_head = d.fifo_head /\ drv'.fifo_tail = d.fifo_tail
      /\ drv'.nb_open = d.nb_open
      /\ ~Long(x) => drv'.stop_send = x.stop
  BY <1>2, <1>3 DEF Driver
<1>5. /\ pending' \in Pending /\ (~ram => pending' = pending)
      /\ ~Long(x) => pending'.repeat = 0
  <2>1. pending \in Pending /\ (~ram => pending.repeat = 0)
    BY DEF IInv, TypeOK, Grounded, PendingZero
  <2> QED
    BY <1>1, <1>2, <2>1, BuildAssumption DEF PendingAfterExec, Pending
<1>6. /\ x.kind = "write" /\ x.size > 0 => tx' = <<Cmd(p), Dat(p)>>
      /\ ~(x.kind = "write" /\ x.size > 0) => tx' = <<Cmd(p)>>
  <2>1. ASSUME NEW a \in Buffer, NEW b \in Buffer
        PROVE  /\ <<>> \o (<<a>> \o <<b>>) = <<a, b>>
               /\ <<>> \o (<<a>> \o <<>>) = <<a>>
    BY Short
  <2>2. Cmd(p) \in Buffer /\ Dat(p) \in Buffer
    BY DEF Cmd, Dat, Buffer
  <2>3. tx' = <<>> \o (<<Cmd(p)>> \o IF x.kind = "write" /\ x.size > 0
                                      THEN <<Dat(p)>> ELSE <<>>)
    BY <1>2 DEF Sequence, Cmd, Dat
  <2> QED
    BY <2>1, <2>2, <2>3
<1>7. /\ x.kind = "read" => rx' = <<p>>
      /\ x.kind # "read" => rx' = <<>>
  BY <1>2
<1> QED
  BY <1>1, <1>4, <1>5, <1>6, <1>7

\* Then the bus has the transfer in the slot.
LEMMA ExecOnBus ==
  ASSUME IInv, NEW d \in Driver, NEW p \in Thread, NEW x \in Data, Proper(x),
         Exec(d, p, x), tx = <<>>, rx = <<>>, events' = <<>>, eot' = eot
  PROVE  OnBus' /\ tx' \in Seq(Buffer) /\ rx' \in Seq(Thread)
<1>1. /\ drv'.slot = p /\ drv'.cmd = p
      /\ x.kind = "read" => tx' = <<Cmd(p)>> /\ rx' = <<p>>
      /\ x.kind = "write" /\ x.size = 0 => tx' = <<Cmd(p)>> /\ rx' = <<>>
      /\ x.kind = "write" /\ x.size > 0 => tx' = <<Cmd(p), Dat(p)>> /\ rx' = <<>> /\ eot
      /\ ~eot => pending'.repeat = 0 /\ (rx' # <<>> => drv'.stop_send)
      /\ x.kind \in {"read", "write"} /\ x.size \in Nat
  BY ExecFacts, BuildAssumption DEF Data
<1>2. /\ rx' \in {<<>>, <<p>>}
      /\ \/ tx' = <<Cmd(p)>>
         \/ tx' = <<Cmd(p), Dat(p)>> /\ eot
  BY <1>1
<1>3. OnBus'
  <2>1. p # NULL
    BY ThreadAssumption
  <2> QED
    BY <1>1, <1>2, <2>1 DEF OnBus, Stages, Moving, Cmd, Dat
<1>4. tx' \in Seq(Buffer) /\ rx' \in Seq(Thread)
  <2>1. Cmd(p) \in Buffer /\ Dat(p) \in Buffer
    BY DEF Cmd, Dat, Buffer
  <2>2. \A a \in Buffer, b \in Buffer : <<a>> \in Seq(Buffer) /\ <<a, b>> \in Seq(Buffer)
    OBVIOUS
  <2>3. <<p>> \in Seq(Thread) /\ <<>> \in Seq(Thread)
    OBVIOUS
  <2> QED
    BY <1>2, <2>1, <2>2, <2>3
<1> QED
  BY <1>3, <1>4

\* A transfer or a detection on a free slot: nothing is queued, and the bus is quiet.
LEMMA BeginInv ==
  ASSUME ManagedCalls, IInv, NEW p \in Thread, NEW c \in PlainCall \cup EotCall,
         c.kind # "refused", drv.slot = NULL, Submit(p, c), Exec(drv, p, Request(c)),
         next' = [next EXCEPT ![p] = NULL], data' \in [Thread -> Data]
  PROVE  /\ IInv' /\ queue = <<>> /\ queue' = <<p>> /\ Elements(queue') = {p}
         /\ call'[p] = c
<1>1. Called(p, c) /\ queue' = Append(queue, p)
  BY DEF Submit
<1>2. /\ queue = <<>> /\ drv.fifo_head = NULL /\ Elements(queue) = {}
      /\ tx = <<>> /\ rx = <<>> /\ events = <<>> /\ drv \in Driver
  BY Detached DEF IInv, OnBus, Quiet, TypeOK
<1>3. /\ Proper(Request(c)) /\ Request(c) \in Data
      /\ UNCHANGED <<eot, ram, opened, attached, events>>
  BY <1>1, CalledFacts, RequestFacts
<1>4. /\ drv' \in Driver /\ drv'.slot = p
      /\ drv'.fifo_head = NULL /\ drv'.nb_open = drv.nb_open
      /\ pending' \in Pending /\ (~ram => pending' = pending)
  BY <1>2, <1>3, ExecFacts
<1>5. OnBus' /\ tx' \in Seq(Buffer) /\ rx' \in Seq(Thread)
  BY <1>2, <1>3, ExecOnBus
<1>6. /\ queue' = <<p>> /\ Elements(queue') = {p} /\ queue' \in Seq(Thread)
      /\ Once(queue)' /\ Underway' /\ Counted' /\ Fresh'
  BY <1>1, <1>2, <1>4, SubmitFacts
<1>7. TypeOK'
  <2>1. next' \in [Thread -> Thread \cup {NULL}]
    BY DEF IInv, TypeOK
  <2>2. /\ pc' \in [Thread -> Pc] /\ call' \in [Thread -> Call]
        /\ task' \in [Thread -> PiTaskT]
    BY <1>1, CalledFacts
  <2> QED
    BY <1>3, <1>4, <1>5, <1>6, <2>1, <2>2 DEF IInv, TypeOK
<1>8. QueueLinked'
  <2>1. Head(queue') = p /\ Tail(queue') = <<>> /\ queue' # <<>>
    BY <1>6
  <2>2. Represents(<<>>, NULL, NULL, next', NULL)
    BY EmptySeq DEF Represents
  <2> QED
    BY <1>4, <2>1, <2>2 DEF QueueLinked
<1>9. Prepared' /\ Grounded'
  BY <1>3, <1>4, <1>6 DEF Prepared, Grounded, IInv
<1> QED
  BY <1>1, <1>2, <1>5, <1>6, <1>7, <1>8, <1>9, CalledFacts DEF IInv

\* __pi_i2c_copy on a free slot.
LEMMA StartInv ==
  ASSUME ManagedCalls, IInv, NEW p \in Thread, NEW c \in PlainCall \cup EotCall, Start(p, c)
  PROVE  /\ IInv' /\ queue = <<>> /\ queue' = <<p>> /\ Elements(queue') = {p}
         /\ call'[p] = c /\ drv.slot = NULL /\ Submit(p, c) /\ Exec(drv, p, Request(c))
<1>1. /\ c.kind \in {"read", "write"} /\ drv.slot = NULL /\ Submit(p, c)
      /\ data' = [data EXCEPT ![p] = Arguments(c)]
      /\ next' = [next EXCEPT ![p] = NULL] /\ Exec(drv, p, Arguments(c))
  BY DEF Start, SlotFree
<1>2. c \in IF eot THEN EotCall ELSE PlainCall
  BY <1>1, CalledFacts DEF Submit
<1>3. Request(c) = Arguments(c) /\ Request(c) \in Data
  BY <1>1, <1>2, RequestFacts
<1>4. data' \in [Thread -> Data]
  BY <1>1, <1>3 DEF IInv, TypeOK
<1> QED
  BY <1>1, <1>3, <1>4, BeginInv

\* __pi_i2c_detect, on an idle bus.
LEMMA DetectInv ==
  ASSUME ManagedCalls, IInv, NEW p \in Thread, NEW c \in PlainCall \cup EotCall, Detect(p, c)
  PROVE  /\ IInv' /\ queue = <<>> /\ queue' = <<p>> /\ Elements(queue') = {p}
         /\ call'[p] = c /\ drv.slot = NULL /\ Submit(p, c) /\ Exec(drv, p, Request(c))
<1>1. /\ c.kind = "detect" /\ drv.slot = NULL /\ Submit(p, c) /\ data' = data
      /\ next' = [next EXCEPT ![p] = NULL] /\ Exec(drv, p, Request(c))
  BY DEF Detect, Busy, ManagedCalls, Request
<1>2. data' \in [Thread -> Data]
  BY <1>1 DEF IInv, TypeOK
<1> QED
  BY <1>1, <1>2, BeginInv

\* __pi_i2c_copy on a busy slot: __pi_i2c_task_fifo_enqueue.
LEMMA EnqueueInv ==
  ASSUME ManagedCalls, IInv, NEW p \in Thread, NEW c \in PlainCall \cup EotCall,
         Enqueue(p, c)
  PROVE  /\ IInv' /\ queue # <<>> /\ Head(queue') = Head(queue)
         /\ Elements(queue') = Elements(queue) \cup {p}
         /\ p \notin Elements(queue)
         /\ Submit(p, c) /\ UNCHANGED <<tx, rx>> /\ c.kind # "refused"
<1>1. /\ Submit(p, c) /\ Called(p, c) /\ drv.slot # NULL /\ c.kind \in {"read", "write"}
      /\ data' = [data EXCEPT ![p] = Arguments(c)]
      /\ IF drv.fifo_head = NULL
           THEN /\ drv' = [drv EXCEPT !.fifo_head = p, !.fifo_tail = p]
                /\ next' = [next EXCEPT ![p] = NULL]
           ELSE /\ drv' = [drv EXCEPT !.fifo_tail = p]
                /\ next' = [next EXCEPT ![p] = NULL, ![drv.fifo_tail] = p]
      /\ UNCHANGED <<pending, tx, rx>>
  BY DEF Enqueue, SlotFree, FifoEmpty, Submit, udma
<1>2. /\ drv \in Driver /\ drv' \in Driver
      /\ drv'.slot = drv.slot /\ drv'.cmd = drv.cmd
      /\ drv'.stop_send = drv.stop_send /\ drv'.eot_send = drv.eot_send
      /\ drv'.fifo_head = (IF drv.fifo_head = NULL THEN p ELSE drv.fifo_head)
      /\ drv'.fifo_tail = p /\ drv'.nb_open = drv.nb_open
  <2>1. drv \in Driver
    BY DEF IInv, TypeOK
  <2>2. CASE drv.fifo_head = NULL
    <3>1. drv' = [drv EXCEPT !.fifo_head = p, !.fifo_tail = p]
      BY <1>1, <2>2
    <3> QED
      BY <2>1, <2>2, <3>1 DEF Driver
  <2>3. CASE drv.fifo_head # NULL
    <3>1. drv' = [drv EXCEPT !.fifo_tail = p]
      BY <1>1, <2>3
    <3> QED
      BY <2>1, <2>3, <3>1 DEF Driver
  <2> QED
    BY <2>1, <2>2, <2>3
<1>3. /\ UNCHANGED <<eot, ram, opened, attached, events>>
      /\ c \in IF eot THEN EotCall ELSE PlainCall
      /\ pc' \in [Thread -> Pc] /\ call' \in [Thread -> Call]
      /\ task' \in [Thread -> PiTaskT] /\ call'[p] = c
      /\ \A q \in Thread \ {p} : call'[q] = call[q]
  BY <1>1, CalledFacts
<1>4. /\ queue' = Append(queue, p) /\ queue' \in Seq(Thread) /\ queue' # <<>>
      /\ p \notin Elements(queue) /\ Elements(queue') = Elements(queue) \cup {p}
      /\ Once(queue)' /\ Underway' /\ Counted' /\ Fresh'
  BY <1>1, <1>2, SubmitFacts
<1>5. queue # <<>> /\ queue \in Seq(Thread) /\ drv.slot \in Elements(queue)
  BY <1>1, QueueFacts DEF IInv
<1>6. Head(queue') = Head(queue) /\ Tail(queue') = Append(Tail(queue), p)
  BY <1>4, <1>5
<1>7. /\ Fifo = Tail(queue) /\ Fifo \in Seq(Thread) /\ Once(Fifo) /\ p \notin Elements(Fifo)
      /\ Represents(Fifo, drv.fifo_head, Last, next, NULL)
      /\ drv.fifo_head = NULL <=> Fifo = <<>>
      /\ Fifo # <<>> => drv.fifo_tail \in Elements(Fifo) /\ drv.fifo_tail \in Thread
      /\ Elements(queue) \subseteq Thread
  BY <1>4, <1>5, QueueFacts DEF IInv, Fifo
<1>8. /\ next \in [Thread -> Thread \cup {NULL}] /\ next' \in [Thread -> Thread \cup {NULL}]
      /\ Fifo # <<>> => /\ next'[p] = NULL /\ next'[drv.fifo_tail] = p
                        /\ \A x \in Thread \ {p, drv.fifo_tail} : next'[x] = next[x]
      /\ Fifo = <<>> => next'[p] = NULL
  BY <1>1, <1>7 DEF IInv, TypeOK
<1>9. /\ data' \in [Thread -> Data] /\ data'[p] = Request(c)
      /\ \A q \in Thread \ {p} : data'[q] = data[q]
  <2>1. Arguments(c) = Request(c) /\ Request(c) \in Data
    BY <1>1, <1>3, RequestFacts
  <2> QED
    BY <1>1, <2>1 DEF IInv, TypeOK
<1>10. TypeOK'
  BY <1>1, <1>2, <1>3, <1>4, <1>8, <1>9 DEF IInv, TypeOK
<1>11. QueueLinked'
  <2>1. Represents(Append(Fifo, p), drv'.fifo_head, p, next', NULL)
    <3>1. CASE Fifo = <<>>
      BY <1>2, <1>7, <1>8, <3>1, RepresentsFirst
    <3>2. CASE Fifo # <<>>
      <4> DEFINE f == Fifo
                 h == drv.fifo_head
                 t == drv.fifo_tail
                 nxt == next
                 nxt2 == next'
      <4>1. /\ f \in Seq(Thread) /\ f # <<>> /\ Once(f) /\ NULL \notin Thread
            /\ nxt \in [Thread -> Thread \cup {NULL}]
            /\ Represents(f, h, t, nxt, NULL) /\ p \notin Elements(f)
            /\ nxt2 \in [Thread -> Thread \cup {NULL}]
            /\ nxt2[p] = NULL /\ nxt2[t] = p
            /\ \A x \in Thread \ {p, t} : nxt2[x] = nxt[x]
        BY <1>7, <1>8, <3>2, ThreadAssumption DEF Last
      <4>2. drv'.fifo_head = h
        BY <1>2, <1>7, <3>2
      <4> HIDE DEF f, h, t, nxt, nxt2
      <4>3. Represents(Append(f, p), h, p, nxt2, NULL)
        BY <4>1, RepresentsAppend
      <4> QED
        BY <4>2, <4>3 DEF f, nxt2
    <3> QED
      BY <3>1, <3>2
  <2>2. drv'.slot = Head(queue')
    BY <1>2, <1>5, <1>6 DEF IInv, QueueLinked
  <2>3. Append(Fifo, p) # <<>>
    BY <1>7, AppendOnce
  <2> QED
    BY <1>2, <1>4, <1>6, <1>7, <2>1, <2>2, <2>3 DEF QueueLinked
<1>12. OnBus'
  BY <1>1, <1>2, <1>3 DEF IInv, OnBus, Stages, Moving, Stopping, Stopped
<1>13. Prepared'
  <2>1. ASSUME NEW q \in Elements(queue'), q # drv'.slot
        PROVE  data'[q] = Request(call'[q])
    <3>1. CASE q = p
      BY <1>3, <1>9, <3>1
    <3>2. CASE q # p
      <4>1. q \in Elements(queue) /\ q \in Thread \ {p} /\ q # drv.slot
        BY <1>2, <1>4, <1>7, <2>1, <3>2
      <4> QED
        BY <1>3, <1>9, <4>1 DEF IInv, Prepared
    <3> QED
      BY <3>1, <3>2
  <2> QED
    BY <2>1 DEF Prepared, Request, Arguments
<1>14. Grounded'
  BY <1>1, <1>3 DEF IInv, Grounded
<1> QED
  BY <1>1, <1>4, <1>5, <1>6, <1>10, <1>11, <1>12, <1>13, <1>14 DEF IInv

(***************************************************************************)
(* The uDMA and the bus                                                    *)
(***************************************************************************)

\* While something is on the bus the slot is occupied.
LEMMA BusFacts ==
  ASSUME IInv, ~Quiet
  PROVE  /\ drv.slot \in Thread /\ drv.slot # NULL /\ queue # <<>>
         /\ drv.slot = Head(queue) /\ drv.slot \in Elements(queue)
         /\ Stages(drv.slot)
<1>1. drv.slot # NULL /\ Stages(drv.slot)
  BY DEF IInv, OnBus
<1>2. drv.slot = Head(queue) /\ drv.slot \in Elements(queue) /\ queue # <<>>
  BY <1>1, QueueFacts DEF IInv
<1> QED
  BY <1>1, <1>2, QueueFacts DEF IInv

\* The buffers at the head of the TX channel.
LEMMA UdmaTxStep ==
  ASSUME IInv, UdmaTx
  PROVE  LET p == drv.slot IN
         /\ OnBus'
         /\ \/ tx = <<Cmd(p), Dat(p)>> /\ tx' = <<Dat(p)>>
            \/ tx = <<Cmd(p)>> /\ tx' = <<>>
            \/ tx = <<Dat(p)>> /\ tx' = <<>>
            \/ \E f \in Final : tx = <<f>> /\ tx' = <<>>
            \/ \E f \in Final : tx = <<Dat(p), f>> /\ tx' = <<f>>
<1> DEFINE p == drv.slot
           e == IF eot /\ Head(tx).kind \in {"stop", "eot"} THEN <<"eot">> ELSE <<>>
<1>1. /\ tx # <<>> /\ ~Reading /\ tx' = Tail(tx)
      /\ events' = Append(events, "tx") \o e
      /\ UNCHANGED <<eot, drv, pending, rx>>
  BY DEF UdmaTx, platform
<1>2. p # NULL /\ p \in Thread /\ Stages(p)
  BY <1>1, BusFacts DEF Quiet
<1>3. /\ Append(<<>>, "tx") \o <<>> = <<"tx">>
      /\ Append(<<"tx">>, "tx") \o <<>> = <<"tx", "tx">>
      /\ Append(<<>>, "tx") \o <<"eot">> = <<"tx", "eot">>
      /\ Append(<<"tx">>, "tx") \o <<"eot">> = <<"tx", "tx", "eot">>
  <2> DEFINE S == {"tx", "eot"}
  <2>1. "tx" \in S /\ "eot" \in S
    OBVIOUS
  <2>2. Append(<<>>, "tx") = <<"tx">>
    OBVIOUS
  <2> HIDE DEF S
  <2> QED
    BY <2>1, <2>2, Short
<1>4. \A f \in Final : f.kind \in {"stop", "eot"} /\ f.owner = NULL
  BY DEF Final, FixedSeq
<1>5. /\ Cmd(p).kind = "cmd" /\ Dat(p).kind = "data"
      /\ \A f \in Final : Elements(<<f>>) = {f}
  BY DEF Cmd, Dat, Elements
<1>6. ASSUME Moving(p)
      PROVE  /\ Moving(p)'
             /\ \/ tx = <<Cmd(p), Dat(p)>> /\ tx' = <<Dat(p)>>
                \/ tx = <<Cmd(p)>> /\ tx' = <<>>
                \/ tx = <<Dat(p)>> /\ tx' = <<>>
  <2>1. CASE tx = <<Cmd(p), Dat(p)>> /\ events = <<>> /\ drv.cmd = p /\ eot
    <3>1. tx' = <<Dat(p)>> /\ Head(tx) = Cmd(p)
      BY <1>1, <2>1
    <3>2. events' = <<"tx">>
      BY <1>1, <1>3, <1>5, <2>1, <3>1
    <3> QED
      BY <1>1, <2>1, <3>1, <3>2 DEF Moving, Cmd, Dat
  <2>2. CASE tx = <<Cmd(p)>> /\ events = <<>> /\ drv.cmd = p
    <3>1. tx' = <<>> /\ Head(tx) = Cmd(p)
      BY <1>1, <2>2
    <3>2. events' = <<"tx">>
      BY <1>1, <1>3, <1>5, <2>2, <3>1
    <3> QED
      BY <1>1, <1>6, <2>2, <3>1, <3>2 DEF Moving
  <2>3. CASE tx = <<Dat(p)>> /\ events \in {<<>>, <<"tx">>} /\ eot
    <3>1. tx' = <<>> /\ Head(tx) = Dat(p)
      BY <1>1, <2>3
    <3>2. events' \in {<<"tx">>, <<"tx", "tx">>}
      BY <1>1, <1>3, <1>5, <2>3, <3>1
    <3> QED
      BY <1>1, <2>3, <3>1, <3>2 DEF Moving
  <2> QED
    BY <1>1, <1>6, <2>1, <2>2, <2>3 DEF Moving
<1>7. ASSUME Stopping(p)
      PROVE  /\ Moving(p)' \/ Stopping(p)' \/ Stopped'
             /\ \/ \E f \in Final : tx = <<f>> /\ tx' = <<>>
                \/ \E f \in Final : tx = <<Dat(p), f>> /\ tx' = <<f>>
  <2>1. PICK f \in Final : \/ tx = <<f>> /\ events = <<>>
                           \/ tx = <<f>> /\ events = <<"tx">> /\ eot
                           \/ tx = <<Dat(p), f>> /\ events = <<>> /\ eot
    BY <1>7 DEF Stopping
  <2>2. pending.repeat = 0 /\ ~drv.stop_send /\ (eot => ~drv.eot_send)
    BY <1>7 DEF Stopping
  <2>3. CASE tx = <<f>>
    <3>1. tx' = <<>> /\ Head(tx) = f
      BY <1>1, <2>3
    <3>2. rx = <<>>
      <4>1. rx = <<p>> => Head(rx) = p /\ rx # <<>>
        OBVIOUS
      <4>2. Cmd(p) \notin Elements(tx)
        BY <1>4, <1>5, <2>3
      <4> QED
        BY <1>1, <1>2, <4>1, <4>2 DEF Reading, Stages, Cmd
    <3>3. /\ eot => events' \in {<<"tx", "eot">>, <<"tx", "tx", "eot">>}
          /\ ~eot => events' = <<"tx">>
      BY <1>1, <1>3, <1>4, <2>1, <2>3, <3>1
    <3>4. Moving(p)' \/ Stopped'
      BY <1>1, <2>2, <3>1, <3>2, <3>3 DEF Moving, Stopped
    <3> QED
      BY <2>3, <3>1, <3>4
  <2>4. CASE tx = <<Dat(p), f>> /\ events = <<>> /\ eot
    <3>1. tx' = <<f>> /\ Head(tx) = Dat(p)
      BY <1>1, <2>4
    <3>2. events' = <<"tx">>
      BY <1>1, <1>3, <1>5, <2>4, <3>1
    <3>3. Stopping(p)'
      BY <1>1, <2>2, <2>4, <3>1, <3>2 DEF Stopping, Final, FixedSeq
    <3> QED
      BY <2>4, <3>1, <3>3
  <2> QED
    BY <2>1, <2>3, <2>4
<1>8. ~Stopped
  BY <1>1 DEF Stopped
<1>9. OnBus'
  <2>1. drv' = drv /\ rx' \in {<<>>, <<p>>}
    BY <1>1, <1>2 DEF Stages
  <2>2. p' = p
    BY <2>1
  <2> QED
    BY <1>2, <1>6, <1>7, <1>8, <2>1, <2>2 DEF OnBus, Stages, Moving, Stopping, Stopped
<1> QED
  BY <1>2, <1>6, <1>7, <1>8, <1>9 DEF Stages

\* Steps of the uDMA and of the handler that leave the transfers alone.
LEMMA BusFrame ==
  ASSUME IInv, OnBus', tx' \in Seq(Buffer), rx' \in Seq(Thread),
         events' \in Seq({"tx", "eot"}), pending' \in Pending, drv' \in Driver,
         ~ram => pending' = pending,
         drv'.slot = drv.slot, drv'.fifo_head = drv.fifo_head,
         drv'.fifo_tail = drv.fifo_tail, drv'.nb_open = drv.nb_open,
         UNCHANGED <<eot, ram, pc, call, task, data, next, opened, attached, queue>>
  PROVE  IInv'
<1>1. TypeOK'
  BY DEF IInv, TypeOK
<1>2. QueueLinked' /\ Once(queue)'
  BY DEF IInv, QueueLinked, Once
<1>3. Underway' /\ Prepared'
  <2>1. Underway /\ Prepared
    BY DEF IInv
  <2>2. \A c : Proper(c)' <=> Proper(c)
    BY DEF Proper
  <2>3. Prepared'
    BY <2>1 DEF Prepared
  <2>4. Underway'
    BY <2>1, <2>2 DEF Underway
  <2> QED
    BY <2>3, <2>4
<1>4. Counted' /\ Fresh' /\ Grounded'
  BY DEF IInv, Counted, Fresh, Grounded
<1> QED
  BY <1>1, <1>2, <1>3, <1>4 DEF IInv

\* A buffer of the TX channel has been executed.
LEMMA UdmaTxInv == ASSUME IInv, UdmaTx PROVE IInv'
<1>1. /\ tx # <<>> /\ tx' = Tail(tx)
      /\ events' = Append(events, "tx")
                     \o IF eot /\ Head(tx).kind \in {"stop", "eot"} THEN <<"eot">> ELSE <<>>
      /\ UNCHANGED <<eot, ram, pc, call, task, data, next, opened, attached, queue, drv,
                     pending, rx>>
  BY DEF UdmaTx, platform, app
<1>2. tx' \in Seq(Buffer)
  BY <1>1, HeadTailProperties DEF IInv, TypeOK
<1>3. events' \in Seq({"tx", "eot"})
  <2> DEFINE S == {"tx", "eot"}
             s == Append(events, "tx")
             e == IF eot /\ Head(tx).kind \in {"stop", "eot"} THEN <<"eot">> ELSE <<>>
  <2>1. events \in Seq(S) /\ "tx" \in S /\ "eot" \in S
    BY DEF IInv, TypeOK
  <2>2. e \in Seq(S)
    <3>1. <<"eot">> \in Seq(S) /\ <<>> \in Seq(S)
      BY <2>1, EmptySeq
    <3> HIDE DEF S
    <3> QED
      BY <3>1
  <2> HIDE DEF S
  <2>3. s \in Seq(S)
    BY <2>1, AppendProperties
  <2> HIDE DEF s, e
  <2>4. s \o e \in Seq(S)
    BY <2>2, <2>3, ConcatProperties
  <2> QED
    BY <1>1, <2>4 DEF S, s, e
<1>4. drv \in Driver /\ pending \in Pending /\ rx \in Seq(Thread)
  BY DEF IInv, TypeOK
<1> QED
  BY <1>1, <1>2, <1>3, <1>4, UdmaTxStep, BusFrame

\* What was read has arrived: it was the read of the transfer in the slot.
LEMMA UdmaRxInv ==
  ASSUME IInv, UdmaRx
  PROVE  IInv' /\ rx = <<drv.slot>> /\ rx' = <<>> /\ ~Quiet
<1>1. /\ Reading /\ rx' = Tail(rx)
      /\ UNCHANGED <<eot, ram, pc, call, task, data, next, opened, attached, queue, drv,
                     pending, tx, events>>
  BY DEF UdmaRx, platform, app
<1>2. rx # <<>>
  BY <1>1 DEF Reading
<1>3. /\ drv.slot # NULL /\ Stages(drv.slot) /\ rx = <<drv.slot>>
  BY <1>2, BusFacts DEF Quiet, Stages
<1>4. rx' = <<>>
  BY <1>1, <1>3
<1>5. OnBus'
  <2>1. drv' = drv
    BY <1>1
  <2>2. Stages(drv.slot)'
    BY <1>1, <1>2, <1>3, <1>4 DEF Stages, Moving, Stopping, Stopped
  <2> QED
    BY <1>3, <2>1, <2>2 DEF OnBus
<1>6. rx' \in Seq(Thread)
  BY <1>4
<1>7. /\ drv \in Driver /\ pending \in Pending /\ tx \in Seq(Buffer)
      /\ events \in Seq({"tx", "eot"})
  BY DEF IInv, TypeOK
<1>8. IInv'
  BY <1>1, <1>5, <1>6, <1>7, BusFrame
<1> QED
  BY <1>2, <1>3, <1>4, <1>8 DEF Quiet

(***************************************************************************)
(* The handlers                                                            *)
(***************************************************************************)

\* Appending a fixed sequence to what the uDMA has.
LEMMA FinalFacts ==
  ASSUME NEW p \in Thread, NEW f \in Final
  PROVE  /\ f \in Buffer /\ Append(<<>>, f) = <<f>> /\ Append(<<Dat(p)>>, f) = <<Dat(p), f>>
<1>1. f \in Buffer /\ Dat(p) \in Buffer
  BY DEF Final, FixedSeq, Buffer, Dat
<1>2. Append(<<Dat(p)>>, f) = <<Dat(p), f>>
  BY <1>1, Short
<1>3. Append(<<>>, f) = <<f>>
  OBVIOUS
<1> QED
  BY <1>1, <1>2, <1>3

\* What every handler has before it, and behind it.
LEMMA ServeFacts ==
  ASSUME IInv, NEW e, Serve(e), events' = Tail(events)
  PROVE  /\ drv.slot \in Thread /\ drv.slot # NULL /\ Stages(drv.slot) /\ attached
         /\ events # <<>> /\ Head(events) = e
         /\ events' \in Seq({"tx", "eot"})
         /\ events = <<"tx">> => events' = <<>>
         /\ events = <<"tx", "tx">> => events' = <<"tx">>
         /\ events = <<"tx", "eot">> => events' = <<"eot">>
         /\ events = <<"eot">> => events' = <<>>
         /\ events = <<"tx", "tx", "eot">> => events' = <<"tx", "eot">>
<1>1. events # <<>> /\ Head(events) = e /\ attached
  BY DEF Serve
<1>2. events' \in Seq({"tx", "eot"})
  BY <1>1, HeadTailProperties DEF IInv, TypeOK
<1>3. drv.slot \in Thread /\ drv.slot # NULL /\ Stages(drv.slot)
  BY <1>1, BusFacts DEF Quiet
<1>4. /\ Tail(<<"tx">>) = <<>> /\ Tail(<<"eot">>) = <<>>
      /\ Tail(<<"tx", "tx">>) = <<"tx">> /\ Tail(<<"tx", "eot">>) = <<"eot">>
      /\ Tail(<<"tx", "tx", "eot">>) = <<"tx", "eot">>
  OBVIOUS
<1> QED
  BY <1>1, <1>2, <1>3, <1>4

\* __pi_i2c_handle_pending_transfer.
LEMMA HandlePendingInv ==
  ASSUME IInv, HandlePending
  PROVE  IInv' /\ UNCHANGED <<tx, rx, drv.slot>>
<1> DEFINE p == drv.slot
           size == (pending.repeat_size - pending.repeat) % WORD
           last == size <= pending.repeat
<1>1. /\ Serve("tx") /\ pending.repeat # 0 /\ events' = Tail(events)
      /\ pending' = [pending EXCEPT !.repeat_size = size,
                                    !.repeat = IF last THEN 0 ELSE @]
      /\ drv' = [drv EXCEPT !.cmd = NULL, !.stop_send = IF last THEN pending.stop ELSE @]
      /\ UNCHANGED <<eot, ram, pc, call, task, data, next, opened, attached, queue, tx, rx>>
  BY DEF HandlePending, platform, app, udma
<1>2. drv \in Driver /\ pending \in Pending /\ tx \in Seq(Buffer) /\ rx \in Seq(Thread)
  BY DEF IInv, TypeOK
<1>3. size \in 0..(WORD - 1)
  <2>1. WORD \in Nat /\ WORD > 0
    BY BuildAssumption
  <2>2. pending.repeat_size - pending.repeat \in Int
    BY <1>2, BuildAssumption DEF Pending
  <2> QED
    BY <2>1, <2>2
<1> HIDE DEF size
<1>4. pending' \in Pending
  <2>1. 0 \in 0..(WORD - 1)
    BY BuildAssumption
  <2>2. \/ pending' = [pending EXCEPT !.repeat_size = size, !.repeat = 0]
        \/ pending' = [pending EXCEPT !.repeat_size = size]
    BY <1>1, <1>2 DEF Pending
  <2> QED
    BY <1>2, <1>3, <2>1, <2>2 DEF Pending
<1>5. /\ drv' \in Driver /\ drv'.slot = drv.slot /\ drv'.fifo_head = drv.fifo_head
      /\ drv'.fifo_tail = drv.fifo_tail /\ drv'.nb_open = drv.nb_open
  BY <1>1, <1>2 DEF Driver, Pending
<1>6. /\ p # NULL /\ Stages(p) /\ events # <<>>
      /\ events' \in Seq({"tx", "eot"})
      /\ events = <<"tx">> => events' = <<>>
      /\ events = <<"tx", "tx">> => events' = <<"tx">>
  BY <1>1, ServeFacts
<1>7. Moving(p) /\ eot
  BY <1>1, <1>6 DEF Stages, Moving, Stopping, Stopped
<1>8. OnBus'
  <2>1. \/ tx = <<Dat(p)>> /\ events' = <<>>
        \/ tx = <<>> /\ events' \in {<<>>, <<"tx">>}
    BY <1>6, <1>7 DEF Moving
  <2>2. Moving(p)'
    BY <1>1, <1>5, <1>7, <2>1 DEF Moving, Dat
  <2> QED
    BY <1>1, <1>5, <1>6, <2>2 DEF OnBus, Stages
<1>9. ram
  BY <1>1 DEF IInv, Grounded, PendingZero
<1>10. IInv'
  BY <1>1, <1>2, <1>4, <1>5, <1>6, <1>8, <1>9, BusFrame
<1> QED
  BY <1>1, <1>5, <1>10

\* __pi_i2c_send_stop_cmd and __pi_i2c_send_only_eot_cmd: the fixed sequence is
\* enqueued behind at most one buffer.
LEMMA SendFinalInv ==
  ASSUME IInv, NEW f \in Final, SendStop \/ SendOnlyEot,
         SendStop => f = FixedSeq("stop"), ~SendStop => f = FixedSeq("eot")
  PROVE  /\ IInv' /\ rx' = rx /\ drv'.slot = drv.slot
         /\ \/ tx = <<>> /\ tx' = <<f>>
            \/ tx = <<Dat(drv.slot)>> /\ tx' = <<Dat(drv.slot), f>>
<1> DEFINE p == drv.slot
<1>1. /\ Serve("tx") /\ pending.repeat = 0 /\ events' = Tail(events)
      /\ tx' = Append(tx, f)
      /\ UNCHANGED <<eot, ram, pc, call, task, data, next, opened, attached, queue, pending,
                     rx>>
      /\ drv.stop_send \/ (eot /\ drv.eot_send)
      /\ \/ drv' = [drv EXCEPT !.stop_send = FALSE, !.eot_send = FALSE]
         \/ ~drv.stop_send /\ drv' = [drv EXCEPT !.eot_send = FALSE]
  <2>1. CASE SendStop
    BY <2>1 DEF SendStop, FlagsAfterStop, platform, app
  <2>2. CASE ~SendStop
    BY <2>2 DEF SendOnlyEot, platform, app
  <2> QED
    BY <2>1, <2>2
<1>2. drv \in Driver /\ pending \in Pending /\ tx \in Seq(Buffer) /\ rx \in Seq(Thread)
  BY DEF IInv, TypeOK
<1>3. /\ drv' \in Driver /\ drv'.slot = drv.slot /\ drv'.fifo_head = drv.fifo_head
      /\ drv'.fifo_tail = drv.fifo_tail /\ drv'.nb_open = drv.nb_open
      /\ ~drv'.stop_send /\ ~drv'.eot_send
  BY <1>1, <1>2 DEF Driver
<1>4. /\ p # NULL /\ p \in Thread /\ Stages(p) /\ events # <<>>
      /\ events' \in Seq({"tx", "eot"})
      /\ events = <<"tx">> => events' = <<>>
      /\ events = <<"tx", "tx">> => events' = <<"tx">>
  BY <1>1, ServeFacts
<1>5. Moving(p)
  BY <1>1, <1>4 DEF Stages, Stopping, Stopped
<1>6. \/ tx = <<Dat(p)>> /\ events' = <<>> /\ eot
      \/ tx = <<>> /\ events' = <<>>
      \/ tx = <<>> /\ events' = <<"tx">> /\ eot
  BY <1>4, <1>5 DEF Moving
<1>7. \/ tx = <<Dat(p)>> /\ tx' = <<Dat(p), f>>
      \/ tx = <<>> /\ tx' = <<f>>
  BY <1>1, <1>4, <1>6, FinalFacts
<1>8. tx' \in Seq(Buffer)
  BY <1>1, <1>2, <1>4, FinalFacts, AppendProperties
<1>9. OnBus'
  <2>1. \/ tx' = <<f>> /\ events' = <<>>
        \/ tx' = <<f>> /\ events' = <<"tx">> /\ eot
        \/ tx' = <<Dat(p), f>> /\ events' = <<>> /\ eot
    BY <1>6, <1>7
  <2>2. Stopping(p)'
    BY <1>1, <1>3, <2>1 DEF Stopping, Final, FixedSeq, Dat
  <2> QED
    BY <1>1, <1>3, <1>4, <2>2 DEF OnBus, Stages
<1>10. IInv'
  BY <1>1, <1>2, <1>3, <1>4, <1>8, <1>9, BusFrame
<1> QED
  BY <1>1, <1>3, <1>7, <1>10

\* An event that changes nothing.
LEMMA IgnoreInv == ASSUME IInv, Ignore PROVE IInv' /\ UNCHANGED <<tx, rx, drv>>
<1> DEFINE p == drv.slot
<1>1. /\ Serve("tx") /\ pending.repeat = 0 /\ events' = Tail(events) /\ eot
      /\ UNCHANGED <<eot, ram, pc, call, task, data, next, opened, attached, queue, pending,
                     drv, tx, rx>>
  BY DEF Ignore, platform, app, udma
<1>2. drv \in Driver /\ pending \in Pending /\ tx \in Seq(Buffer) /\ rx \in Seq(Thread)
  BY DEF IInv, TypeOK
<1>3. /\ p # NULL /\ p \in Thread /\ Stages(p) /\ events # <<>> /\ Head(events) = "tx"
      /\ events' \in Seq({"tx", "eot"})
      /\ events = <<"tx">> => events' = <<>>
      /\ events = <<"tx", "tx">> => events' = <<"tx">>
      /\ events = <<"tx", "eot">> => events' = <<"eot">>
      /\ events = <<"tx", "tx", "eot">> => events' = <<"tx", "eot">>
  BY <1>1, ServeFacts
<1>4. CASE Moving(p)
  <2>1. \/ tx = <<Dat(p)>> /\ events' = <<>>
        \/ tx = <<>> /\ events' \in {<<>>, <<"tx">>}
    BY <1>3, <1>4 DEF Moving
  <2>2. Moving(p)'
    BY <1>1, <2>1 DEF Moving, Dat
  <2> QED
    BY <1>1, <1>2, <1>3, <2>2, BusFrame DEF OnBus, Stages
<1>5. CASE Stopping(p)
  <2>1. PICK f \in Final : tx = <<f>> /\ events = <<"tx">>
    BY <1>3, <1>5 DEF Stopping
  <2>2. Stopping(p)'
    BY <1>1, <1>3, <1>5, <2>1 DEF Stopping, Final, FixedSeq
  <2> QED
    BY <1>1, <1>2, <1>3, <2>2, BusFrame DEF OnBus, Stages
<1>6. CASE Stopped
  <2>1. events \in {<<"tx", "tx", "eot">>, <<"tx", "eot">>}
    BY <1>3, <1>6 DEF Stopped
  <2>2. Stopped'
    BY <1>1, <1>3, <1>6, <2>1 DEF Stopped
  <2> QED
    BY <1>1, <1>2, <1>3, <2>2, BusFrame DEF OnBus, Stages
<1> QED
  BY <1>1, <1>3, <1>4, <1>5, <1>6 DEF Stages

\* The event that ends a transfer is the last there is, and finds the bus quiet.
LEMMA LastEvent ==
  ASSUME IInv, TxEnd \/ EotEnd
  PROVE  /\ End /\ tx = <<>> /\ rx = <<>> /\ events' = <<>>
         /\ drv.slot \in Thread /\ drv.slot # NULL /\ attached
<1> DEFINE p == drv.slot
<1>1. CASE TxEnd
  <2>1. /\ Serve("tx") /\ ~drv.stop_send /\ ~eot /\ End /\ events' = Tail(events)
    BY <1>1 DEF TxEnd, End
  <2>2. /\ p # NULL /\ p \in Thread /\ Stages(p) /\ attached
        /\ events # <<>>
        /\ events = <<"tx">> => events' = <<>>
    BY <2>1, ServeFacts
  <2>3. tx = <<>> /\ events = <<"tx">> /\ rx = <<>>
    <3>1. CASE Moving(p)
      BY <2>1, <2>2, <3>1 DEF Moving
    <3>2. ~Stopping(p) /\ ~Stopped
      BY <2>1, <2>2 DEF Stopping, Stopped
    <3> QED
      BY <2>2, <3>1, <3>2 DEF Stages
  <2> QED
    BY <2>1, <2>2, <2>3
<1>2. CASE EotEnd
  <2>1. Serve("eot") /\ End /\ events' = Tail(events)
    BY <1>2 DEF EotEnd, End
  <2>2. /\ p # NULL /\ p \in Thread /\ Stages(p) /\ attached
        /\ events # <<>> /\ Head(events) = "eot"
        /\ events = <<"eot">> => events' = <<>>
    BY <2>1, ServeFacts
  <2>3. Stopped /\ events = <<"eot">>
    <3>1. /\ Head(<<"tx">>) # "eot" /\ Head(<<"tx", "tx">>) # "eot"
          /\ Head(<<"tx", "eot">>) # "eot" /\ Head(<<"tx", "tx", "eot">>) # "eot"
      OBVIOUS
    <3>2. ~Moving(p)
      BY <2>2, <3>1 DEF Moving
    <3>3. ~Stopping(p)
      BY <2>2, <3>1 DEF Stopping
    <3> QED
      BY <2>2, <3>1, <3>2, <3>3 DEF Stages, Stopped
  <2> QED
    BY <2>1, <2>2, <2>3 DEF Stopped
<1> QED
  BY <1>1, <1>2

\* The end of a transfer: it leaves the queue, its task is notified, and the first of
\* the fifo, if there is one, takes the slot.
LEMMA EndStep ==
  ASSUME IInv, TxEnd \/ EotEnd
  PROVE  LET t == drv.slot
             n == drv.fifo_head
         IN
         /\ t \in Thread /\ t = Head(queue) /\ t \in Elements(queue) /\ queue # <<>>
         /\ queue' = Fifo /\ Elements(queue') = Elements(queue) \ {t}
         /\ tx = <<>> /\ rx = <<>> /\ events' = <<>> /\ attached
         /\ UNCHANGED <<eot, ram, pc, call, data, next, opened, attached>>
         /\ task' = IF task[t].id = "PI_TASK_NONE_ID"
                      THEN [task EXCEPT ![t] = PiTaskRelease(task[t])] ELSE task
         /\ drv' \in Driver /\ drv'.slot = n /\ drv'.nb_open = drv.nb_open
         /\ pending' \in Pending /\ (~ram => pending' = pending)
         /\ tx' \in Seq(Buffer) /\ rx' \in Seq(Thread) /\ OnBus'
         /\ n = NULL <=> Fifo = <<>>
         /\ n = NULL => drv'.fifo_head = NULL
         /\ n # NULL => /\ n \in Thread /\ n = Head(Fifo) /\ n \in Elements(queue) \ {t}
                        /\ drv'.fifo_head = next[n] /\ drv'.fifo_tail = drv.fifo_tail
                        /\ \E d \in Driver : Exec(d, n, Request(call[n]))
                        /\ Request(call[n]) \in Data /\ Proper(Request(call[n]))
<1> DEFINE t == drv.slot
           n == drv.fifo_head
           d == [drv EXCEPT !.slot = NULL]
           e == DriverAfterPop(d)
<1>1. /\ End /\ tx = <<>> /\ rx = <<>> /\ events' = <<>>
      /\ t \in Thread /\ t # NULL /\ attached
  BY LastEvent
<1>2. drv \in Driver /\ next \in [Thread -> Thread \cup {NULL}] /\ data \in [Thread -> Data]
  BY DEF IInv, TypeOK
<1>3. /\ d \in Driver /\ d.slot = NULL /\ d.fifo_head = n /\ d.fifo_tail = drv.fifo_tail
      /\ d.nb_open = drv.nb_open
  BY <1>2 DEF Driver
<1>4. /\ t = Head(queue) /\ t \in Elements(queue) /\ queue # <<>> /\ Fifo = Tail(queue)
      /\ n = NULL <=> Fifo = <<>>
      /\ n # NULL => n \in Thread /\ n = Head(Fifo) /\ n \in Elements(queue) \ {t}
      /\ Elements(Fifo) = Elements(queue) \ {t}
  <2>1. queue # <<>>
    BY <1>1, QueueFacts DEF IInv
  <2>2. Fifo = Tail(queue)
    BY <2>1 DEF Fifo
  <2>3. n # NULL => n = Head(Fifo) /\ n \in Elements(Fifo)
    BY QueueFacts DEF IInv
  <2> QED
    BY <2>1, <2>2, <2>3, QueueFacts DEF IInv
<1>5. /\ task' = IF task[t].id = "PI_TASK_NONE_ID"
                   THEN [task EXCEPT ![t] = PiTaskRelease(task[t])] ELSE task
      /\ queue' = Tail(queue)
      /\ UNCHANGED <<eot, ram, pc, call, data, next, opened, attached>>
  BY <1>1 DEF End, Notified, platform
<1>6. CASE n = NULL
  <2>1. drv' = d /\ UNCHANGED <<pending, tx, rx>>
    BY <1>1, <1>3, <1>6 DEF End, udma
  <2>2. OnBus'
    BY <1>1, <1>3, <2>1 DEF OnBus, Quiet
  <2>3. pending' \in Pending /\ tx' \in Seq(Buffer) /\ rx' \in Seq(Thread)
    BY <2>1 DEF IInv, TypeOK
  <2> QED
    BY <1>1, <1>3, <1>4, <1>5, <1>6, <2>1, <2>2, <2>3
<1>7. CASE n # NULL
  <2>1. Exec(e, n, data[n])
    BY <1>1, <1>3, <1>7 DEF End
  <2>2. /\ n \in Thread /\ data[n] = Request(call[n]) /\ data[n] \in Data
        /\ Proper(data[n])
    BY <1>2, <1>4, <1>7 DEF IInv, Prepared, Underway
  <2>3. /\ e \in Driver /\ e.fifo_head = next[n] /\ e.fifo_tail = drv.fifo_tail
        /\ e.nb_open = drv.nb_open
    BY <1>2, <1>3, <2>2 DEF DriverAfterPop, Driver
  <2> HIDE DEF d, e
  <2>4. /\ drv' \in Driver /\ drv'.slot = n /\ drv'.fifo_head = next[n]
        /\ drv'.fifo_tail = drv.fifo_tail /\ drv'.nb_open = drv.nb_open
        /\ pending' \in Pending /\ (~ram => pending' = pending)
    BY <1>1, <2>1, <2>2, <2>3, ExecFacts
  <2>5. OnBus' /\ tx' \in Seq(Buffer) /\ rx' \in Seq(Thread)
    BY <1>1, <1>5, <2>1, <2>2, <2>3, ExecOnBus
  <2>6. \E b \in Driver : Exec(b, n, Request(call[n]))
    BY <2>1, <2>2, <2>3
  <2> QED
    BY <1>1, <1>4, <1>5, <1>7, <2>2, <2>4, <2>5, <2>6
<1> QED
  BY <1>6, <1>7

\* The end of a transfer keeps the invariant.
LEMMA EndInv == ASSUME IInv, TxEnd \/ EotEnd PROVE IInv'
<1> DEFINE t == drv.slot
           n == drv.fifo_head
<1>1. /\ t \in Thread /\ t \in Elements(queue) /\ attached
      /\ queue' = Fifo /\ Elements(queue') = Elements(queue) \ {t}
      /\ events' = <<>>
      /\ UNCHANGED <<eot, ram, pc, call, data, next, opened, attached>>
      /\ task' = IF task[t].id = "PI_TASK_NONE_ID"
                   THEN [task EXCEPT ![t] = PiTaskRelease(task[t])] ELSE task
      /\ drv' \in Driver /\ drv'.slot = n /\ drv'.nb_open = drv.nb_open
      /\ pending' \in Pending /\ (~ram => pending' = pending)
      /\ tx' \in Seq(Buffer) /\ rx' \in Seq(Thread) /\ OnBus'
      /\ n = NULL <=> Fifo = <<>>
      /\ n = NULL => drv'.fifo_head = NULL
      /\ n # NULL => /\ n = Head(Fifo) /\ drv'.fifo_head = next[n]
                     /\ drv'.fifo_tail = drv.fifo_tail
  BY EndStep
<1>2. /\ Fifo \in Seq(Thread) /\ Once(Fifo) /\ Elements(queue) \subseteq Thread
      /\ Represents(Fifo, n, Last, next, NULL)
  BY QueueFacts DEF IInv
<1>3. task' \in [Thread -> PiTaskT] /\ \A q \in Thread \ {t} : task'[q] = task[q]
  <2>1. task \in [Thread -> PiTaskT] /\ t \in Thread
    BY <1>1 DEF IInv, TypeOK
  <2>2. PiTaskRelease(task[t]) \in PiTaskT
    <3>1. task[t] \in PiTaskT
      BY <2>1
    <3> QED
      BY <3>1 DEF PiTaskRelease, PiTaskT
  <2>3. \/ task' = [task EXCEPT ![t] = PiTaskRelease(task[t])]
        \/ task' = task
    BY <1>1
  <2> QED
    BY <2>1, <2>2, <2>3
<1>4. TypeOK'
  <2>1. events' \in Seq({"tx", "eot"})
    BY <1>1
  <2> QED
    BY <1>1, <1>2, <1>3, <2>1 DEF IInv, TypeOK
<1>5. QueueLinked'
  <2>1. CASE Fifo = <<>>
    <3>1. Represents(<<>>, NULL, NULL, next', NULL)
      BY EmptySeq DEF Represents
    <3> QED
      BY <1>1, <2>1, <3>1 DEF QueueLinked
  <2>2. CASE Fifo # <<>>
    <3>1. /\ Represents(Tail(Fifo), next[n], IF next[n] = NULL THEN NULL ELSE Last, next,
                        NULL)
          /\ next[n] = NULL <=> Tail(Fifo) = <<>>
      BY <1>2, <2>2, RepresentsTail, ThreadAssumption
    <3> QED
      BY <1>1, <2>2, <3>1 DEF QueueLinked, Last
  <2> QED
    BY <2>1, <2>2
<1>6. Once(queue)' /\ Underway' /\ Prepared'
  <2>1. \A q \in Elements(queue') : /\ q \in Elements(queue) /\ q # t
                                    /\ q \in Thread \ {t}
    BY <1>1, <1>2
  <2>2. Once(queue)'
    BY <1>1, <1>2
  <2>3. Underway'
    BY <1>1, <1>3, <2>1 DEF IInv, Underway, Proper, Request, Long, Arguments
  <2>4. Prepared'
    BY <1>1, <2>1 DEF IInv, Prepared, Request, Arguments
  <2> QED
    BY <2>2, <2>3, <2>4
<1>7. Fresh'
  <2>1. pc[t] # "idle"
    BY <1>1 DEF IInv, Underway
  <2> QED
    BY <1>1, <1>3, <2>1 DEF IInv, Fresh
<1>8. Counted' /\ Grounded'
  BY <1>1 DEF IInv, Counted, Grounded
<1> QED
  BY <1>1, <1>4, <1>5, <1>6, <1>7, <1>8 DEF IInv

(***************************************************************************)
(* The invariant of the specification                                      *)
(***************************************************************************)

\* The invariant holds initially.
LEMMA InitInv == ASSUME Init PROVE IInv
<1> USE DEF Init
<1>1. TypeOK
  <2>1. /\ CallZero \in Call /\ PiTaskZero \in PiTaskT /\ DataZero \in Data
        /\ DriverZero \in Driver /\ PendingZero \in Pending /\ "idle" \in Pc
    BY BuildAssumption
       DEF CallZero, Call, PiTaskZero, PiTaskT, TaskId, DataZero, Data, DriverZero, Driver,
           PendingZero, Pending, Pc
  <2> QED
    BY <2>1, EmptySeq, BuildAssumption DEF TypeOK
<1>2. Once(queue) /\ Elements(queue) = {}
  BY EmptyOnce
<1>3. QueueLinked
  BY EmptySeq DEF QueueLinked, Represents, DriverZero
<1>4. OnBus
  BY DEF OnBus, Quiet, DriverZero
<1>5. Underway /\ Prepared /\ Fresh /\ Grounded
  BY <1>2 DEF Underway, Prepared, Fresh, PiTaskZero, Grounded
<1>6. Counted
  BY FS_EmptySet DEF Counted, DriverZero
<1> QED
  BY <1>1, <1>2, <1>3, <1>4, <1>5, <1>6 DEF IInv

\* Every step keeps the invariant.
LEMMA NextInv == ASSUME ManagedCalls, IInv, [Next]_vars PROVE IInv'
<1>1. ASSUME NEW p \in Thread, Open(p) PROVE IInv'
  BY <1>1, OpenInv
<1>2. ASSUME NEW p \in Thread, Close(p) PROVE IInv'
  BY <1>2, CloseInv
<1>3. ASSUME NEW p \in Thread, NEW c \in PlainCall \cup EotCall, Start(p, c) PROVE IInv'
  BY <1>3, StartInv
<1>4. ASSUME NEW p \in Thread, NEW c \in PlainCall \cup EotCall, Enqueue(p, c) PROVE IInv'
  BY <1>4, EnqueueInv
<1>5. ASSUME NEW p \in Thread, NEW c \in PlainCall \cup EotCall, Detect(p, c) PROVE IInv'
  BY <1>5, DetectInv
<1>6. ASSUME NEW p \in Thread, NEW c \in PlainCall \cup EotCall, DetectRefused(p, c)
      PROVE  IInv'
  BY <1>6, RefusedInv
<1>7. ASSUME NEW p \in Thread, Wait(p) PROVE IInv'
  BY <1>7, WaitInv
<1>8. ASSUME NEW p \in Thread, WaitOn(p) PROVE IInv'
  BY <1>8, WaitOnInv
<1>9. CASE UdmaTx
  BY <1>9, UdmaTxInv
<1>10. CASE UdmaRx
  BY <1>10, UdmaRxInv
<1>11. CASE Handler
  <2>1. CASE SendStop
    <3>1. FixedSeq("stop") \in Final
      BY DEF Final
    <3> QED
      BY <2>1, <3>1, SendFinalInv
  <2>2. CASE SendOnlyEot /\ ~SendStop
    <3>1. FixedSeq("eot") \in Final
      BY DEF Final
    <3> QED
      BY <2>2, <3>1, SendFinalInv
  <2> QED
    BY <1>11, <2>1, <2>2, HandlePendingInv, IgnoreInv, EndInv DEF Handler
<1>12. CASE UNCHANGED vars
  <2>1. UNCHANGED <<eot, ram, pc, call, task, data, next, opened, attached, drv, pending,
                    tx, rx, events, queue>>
    BY <1>12 DEF vars, platform, app, udma
  <2>2. OnBus'
    BY <2>1 DEF IInv, OnBus, Quiet, Stages, Moving, Stopping, Stopped
  <2> QED
    BY <2>1, <2>2, BusFrame DEF IInv, TypeOK
<1> QED
  BY <1>1, <1>2, <1>3, <1>4, <1>5, <1>6, <1>7, <1>8, <1>9, <1>10, <1>11, <1>12 DEF Next

\* What the theorems rest on: the invariant of every reachable state.
THEOREM Invariance == ASSUME ManagedCalls PROVE Spec => []IInv
BY InitInv, NextInv, PTL DEF Spec

\* The types: among them, that the count of opens never falls below 0 and that sizes
\* stay in a word (__pi_i2c_open, __pi_i2c_handle_pending_transfer).
THEOREM TypeCorrect == ASSUME ManagedCalls PROVE Spec => []TypeOK
<1>1. IInv => TypeOK
  BY DEF IInv
<1> QED
  BY <1>1, Invariance, PTL

\* The slot and the fifo are the queue of accepted transfers, although no pop resets
\* the tail (__pi_i2c_task_fifo_enqueue, __pi_i2c_task_fifo_pop).
THEOREM FifoCorrect == ASSUME ManagedCalls PROVE Spec => []QueueLinked
<1>1. IInv => QueueLinked
  BY DEF IInv
<1> QED
  BY <1>1, Invariance, PTL

\* What short sequences hold.
LEMMA ShortElements ==
  /\ Elements(<<>>) = {} /\ Len(<<>>) = 0
  /\ \A a : Elements(<<a>>) = {a} /\ Len(<<a>>) = 1
  /\ \A a, b : Elements(<<a, b>>) = {a, b} /\ Len(<<a, b>>) = 2
<1>1. Elements(<<>>) = {} /\ Len(<<>>) = 0
  BY EmptyOnce
<1>2. \A a : DOMAIN <<a>> = {1} /\ <<a>>[1] = a /\ Len(<<a>>) = 1
  OBVIOUS
<1>3. \A a, b : /\ DOMAIN <<a, b>> = {1, 2} /\ Len(<<a, b>>) = 2
                /\ <<a, b>>[1] = a /\ <<a, b>>[2] = b
  OBVIOUS
<1> QED
  BY <1>1, <1>2, <1>3 DEF Elements

\* What the uDMA has is of the transfer in the slot, and never more than the two
\* buffers of a channel (__pi_i2c_tx_handler, __pi_i2c_eot_handler).
THEOREM BusCorrect == ASSUME ManagedCalls PROVE Spec => []BusOwned
<1>1. ASSUME IInv PROVE BusOwned
  <2> DEFINE p == drv.slot
  <2>1. CASE p = NULL
    <3>1. tx = <<>> /\ rx = <<>> /\ events = <<>>
      BY <1>1, <2>1 DEF IInv, OnBus, Quiet
    <3>2. Elements(<<>>) = {} /\ Len(<<>>) = 0
      BY EmptyOnce
    <3> QED
      BY <3>1, <3>2 DEF BusOwned
  <2>2. CASE p # NULL
    <3>1. Stages(p)
      BY <1>1, <2>2 DEF IInv, OnBus
    <3>2. Len(rx) <= 1 /\ \A q \in Elements(rx) : q = p
      <4>1. Elements(<<p>>) = {p} /\ Len(<<p>>) = 1 /\ Elements(<<>>) = {} /\ Len(<<>>) = 0
        BY ShortElements
      <4>2. rx = <<>> \/ rx = <<p>>
        BY <3>1 DEF Stages
      <4>3. CASE rx = <<>>
        <5>1. Elements(rx) = {} /\ Len(rx) = 0
          BY <4>1, <4>3
        <5> QED
          BY <5>1
      <4>4. CASE rx = <<p>>
        <5>1. Elements(rx) = {p} /\ Len(rx) = 1
          BY <4>1, <4>4
        <5> QED
          BY <5>1
      <4> QED
        BY <4>2, <4>3, <4>4
    <3> DEFINE Good(b) == (b = Cmd(p) /\ drv.cmd = p) \/ b = Dat(p) \/ b \in Final
    <3>3. Len(tx) <= 2 /\ \A b \in Elements(tx) : Good(b)
      <4>1. tx = <<Cmd(p), Dat(p)>> \/ tx = <<Cmd(p)>> => drv.cmd = p
        <5>1. Cmd(p) # Dat(p) /\ \A f \in Final : Cmd(p) # f
          BY DEF Cmd, Dat, Final, FixedSeq
        <5>2. tx = <<Cmd(p), Dat(p)>> \/ tx = <<Cmd(p)>> => tx[1] = Cmd(p) /\ tx # <<>>
          OBVIOUS
        <5> QED
          BY <3>1, <5>1, <5>2 DEF Stages, Moving, Stopping, Stopped
      <4>2. \/ tx = <<Cmd(p), Dat(p)>> \/ tx = <<Cmd(p)>> \/ tx = <<Dat(p)>> \/ tx = <<>>
            \/ \E f \in Final : tx = <<f>> \/ tx = <<Dat(p), f>>
        BY <3>1 DEF Stages, Moving, Stopping, Stopped
      <4>3. CASE tx = <<Cmd(p), Dat(p)>>
        <5>1. Elements(tx) = {Cmd(p), Dat(p)} /\ Len(tx) = 2
          BY <4>3, ShortElements
        <5> QED
          BY <4>1, <4>3, <5>1
      <4>4. CASE tx = <<Cmd(p)>>
        <5>1. Elements(tx) = {Cmd(p)} /\ Len(tx) = 1
          BY <4>4, ShortElements
        <5> QED
          BY <4>1, <4>4, <5>1
      <4>5. CASE tx = <<Dat(p)>>
        <5>1. Elements(tx) = {Dat(p)} /\ Len(tx) = 1
          BY <4>5, ShortElements
        <5> QED
          BY <5>1
      <4>6. CASE tx = <<>>
        BY <4>6, ShortElements
      <4>7. ASSUME NEW f \in Final, tx = <<f>>
            PROVE  Len(tx) <= 2 /\ \A b \in Elements(tx) : Good(b)
        <5>1. Elements(tx) = {f} /\ Len(tx) = 1
          BY <4>7, ShortElements
        <5> QED
          BY <5>1
      <4>8. ASSUME NEW f \in Final, tx = <<Dat(p), f>>
            PROVE  Len(tx) <= 2 /\ \A b \in Elements(tx) : Good(b)
        <5>1. Elements(tx) = {Dat(p), f} /\ Len(tx) = 2
          BY <4>8, ShortElements
        <5> QED
          BY <5>1
      <4> QED
        BY <4>2, <4>3, <4>4, <4>5, <4>6, <4>7, <4>8
    <3> QED
      BY <2>2, <3>2, <3>3 DEF BusOwned, Cmd, Dat, Final, FixedSeq
  <2> QED
    BY <2>1, <2>2
<1> QED
  BY <1>1, Invariance, PTL

\* What is reported has moved, whatever order the events of the buffers and of the
\* transfer are raised and served in (__pi_i2c_tx_handler, __pi_i2c_eot_handler).
THEOREM ReportsCorrect == ASSUME ManagedCalls PROVE Spec => []DoneMeansMoved
<1>1. ASSUME IInv, BusOwned PROVE DoneMeansMoved
  <2> SUFFICES ASSUME NEW p \in Thread, task[p].done
               PROVE  p \notin Elements(rx) /\ \A b \in Elements(tx) : b.owner # p
    BY DEF DoneMeansMoved
  <2>1. p \notin Elements(queue)
    BY <1>1, OutOfQueue
  <2>2. p # drv.slot
    <3>1. drv.slot # NULL => drv.slot \in Elements(queue)
      BY <1>1, QueueFacts DEF IInv
    <3> QED
      BY <2>1, <3>1, ThreadAssumption
  <2>3. \A b \in Elements(tx) : b \in Buffer
    <3>1. tx \in Seq(Buffer)
      BY <1>1 DEF IInv, TypeOK
    <3> QED
      BY <3>1, LenProperties, ElementOfSeq DEF Elements
  <2>4. ASSUME NEW b \in Elements(tx) PROVE b.owner # p
    <3>1. b.kind \in {"cmd", "data"} \/ b.owner = NULL
      BY <2>3 DEF Buffer
    <3> QED
      BY <1>1, <2>2, <3>1, ThreadAssumption DEF BusOwned
  <2> QED
    BY <1>1, <2>2, <2>4 DEF BusOwned
<1> QED
  BY <1>1, Invariance, BusCorrect, PTL

(***************************************************************************)
(* Nobody waits in vain                                                    *)
(***************************************************************************)

\* Who has asked for a transfer has been told, or has it in the queue.
Awaited ==
  \A p \in Thread :
    pc[p] \in {"wait", "sent"} /\ call[p].kind # "refused" =>
      task[p].done \/ p \in Elements(queue)

\* Of a transfer that one sequence of commands holds, the uDMA still has a buffer or
\* the handlers an event; and as long as its fixed sequence has not been sent, where
\* one must be, the flag says so.
Going ==
  drv.slot # NULL /\ ~Long(call[drv.slot]) =>
    /\ pending.repeat = 0
    /\ tx # <<>> \/ events # <<>>
    /\ eot /\ Moving(drv.slot) => drv.eot_send

\* What each thread but the caller keeps.
LEMMA AwaitedStep ==
  ASSUME Awaited, NEW p \in Thread,
         \A q \in Thread \ {p} :
           /\ pc'[q] = pc[q] /\ task'[q] = task[q] /\ call'[q] = call[q]
           /\ q \in Elements(queue) => q \in Elements(queue'),
         pc'[p] \in {"wait", "sent"} /\ call'[p].kind # "refused" =>
           task'[p].done \/ p \in Elements(queue')
  PROVE  Awaited'
BY DEF Awaited

LEMMA NextAwaited ==
  ASSUME ManagedCalls, IInv, Awaited, [Next]_vars
  PROVE  Awaited'
<1>0. /\ pc \in [Thread -> Pc] /\ task \in [Thread -> PiTaskT]
      /\ call \in [Thread -> Call]
  BY DEF IInv, TypeOK
<1>1. ASSUME NEW p \in Thread, Open(p) \/ Close(p)
      PROVE  Awaited'
  BY <1>1 DEF Open, Close, app, Awaited
<1>2. ASSUME NEW p \in Thread, NEW c \in PlainCall \cup EotCall,
             Start(p, c) \/ Enqueue(p, c) \/ Detect(p, c)
      PROVE  Awaited'
  <2>1. Called(p, c) /\ p \in Elements(queue') /\ Elements(queue) \subseteq Elements(queue')
    <3>1. CASE Start(p, c)
      BY <3>1, StartInv, EmptyOnce DEF Submit
    <3>2. CASE Enqueue(p, c)
      BY <3>2, EnqueueInv DEF Submit
    <3>3. CASE Detect(p, c)
      BY <3>3, DetectInv, EmptyOnce DEF Submit
    <3> QED
      BY <1>2, <3>1, <3>2, <3>3
  <2> QED
    BY <2>1, CalledFacts, AwaitedStep
<1>3. ASSUME NEW p \in Thread, NEW c \in PlainCall \cup EotCall, DetectRefused(p, c)
      PROVE  Awaited'
  <2>1. Called(p, c) /\ queue' = queue /\ c.kind = "refused"
    BY <1>3 DEF DetectRefused
  <2> QED
    BY <2>1, CalledFacts, AwaitedStep
<1>4. ASSUME NEW p \in Thread, Wait(p)
      PROVE  Awaited'
  BY <1>0, <1>4, AwaitedStep DEF Wait, Awaited
<1>5. ASSUME NEW p \in Thread, WaitOn(p)
      PROVE  Awaited'
  BY <1>0, <1>5, AwaitedStep DEF WaitOn
<1>6. CASE UdmaTx \/ UdmaRx \/ HandlePending \/ SendStop \/ SendOnlyEot \/ Ignore
  BY <1>6 DEF UdmaTx, UdmaRx, HandlePending, SendStop, SendOnlyEot, Ignore, app, Awaited
<1>7. CASE TxEnd \/ EotEnd
  <2> DEFINE t == drv.slot
  <2>1. /\ t \in Thread /\ t \in Elements(queue)
        /\ Elements(queue') = Elements(queue) \ {t}
        /\ UNCHANGED <<pc, call>>
        /\ task' = IF task[t].id = "PI_TASK_NONE_ID"
                     THEN [task EXCEPT ![t] = PiTaskRelease(task[t])] ELSE task
    BY <1>7, EndStep
  <2>2. pc[t] \in {"wait", "sent"} => task'[t].done
    <3>1. task[t].id = "PI_TASK_NONE_ID" \/ pc[t] = "detached"
      BY <2>1 DEF IInv, Underway
    <3>2. PiTaskRelease(task[t]).done
      BY <1>0, <2>1 DEF PiTaskRelease, PiTaskT
    <3> QED
      BY <1>0, <2>1, <3>1, <3>2
  <2>3. \A q \in Thread \ {t} : task'[q] = task[q]
    BY <1>0, <2>1
  <2> HIDE DEF t
  <2> QED
    BY <2>1, <2>2, <2>3, AwaitedStep
<1>8. CASE UNCHANGED vars
  BY <1>8 DEF vars, app, Awaited
<1> QED
  BY <1>1, <1>2, <1>3, <1>4, <1>5, <1>6, <1>7, <1>8 DEF Next, Handler

\* Steps that leave the bus and its transfer alone, but for what is being read.
LEMMA GoingFrame ==
  ASSUME Going, UNCHANGED <<eot, pending, tx, events>>, drv'.slot = drv.slot,
         drv.slot # NULL => /\ drv'.eot_send = drv.eot_send /\ drv'.cmd = drv.cmd
                            /\ call'[drv.slot] = call[drv.slot]
  PROVE  Going'
BY DEF Going, Moving, Long

\* A transfer that starts has its commands in the channel and its flag set.
LEMMA ExecGoing ==
  ASSUME IInv, NEW d \in Driver, NEW p \in Thread, NEW c \in Call, Proper(Request(c)),
         Request(c) \in Data, Exec(d, p, Request(c)), tx = <<>>, rx = <<>>,
         call'[p] = c
  PROVE  Going'
<1> DEFINE x == Request(c)
<1>1. SUFFICES ASSUME ~Long(c) PROVE Going'
  <2>1. drv'.slot = p
    BY ExecFacts
  <2> QED
    BY <2>1 DEF Going, Long
<1>2. ~Long(x)
  BY <1>1, BuildAssumption DEF Request, Arguments, Long
<1>3. ~(x.kind = "read" /\ x.size = 0)
  BY BuildAssumption DEF Proper, Data
<1> HIDE DEF x
<1>4. /\ drv' = [FlagsAfterExec(d, x) EXCEPT !.slot = p, !.cmd = p]
      /\ pending' = PendingAfterExec(x)
  BY <1>3 DEF Exec, x
<1>5. drv'.eot_send
  <2>1. FlagsAfterExec(d, x) = [d EXCEPT !.stop_send = x.stop, !.eot_send = TRUE]
    BY <1>2 DEF FlagsAfterExec
  <2> QED
    BY <1>4, <2>1 DEF Driver
<1>6. pending'.repeat = 0
  <2>1. pending \in Pending /\ (~ram => pending.repeat = 0)
    BY DEF IInv, TypeOK, Grounded, PendingZero
  <2> QED
    BY <1>2, <1>4, <2>1 DEF PendingAfterExec, Pending
<1>7. tx' # <<>> /\ drv'.slot = p
  <2>1. /\ drv'.slot = p
        /\ x.kind \in {"read", "write"} /\ x.size \in Nat
        /\ x.kind = "read" => tx' = <<Cmd(p)>>
        /\ x.kind = "write" /\ x.size = 0 => tx' = <<Cmd(p)>>
        /\ x.kind = "write" /\ x.size > 0 => tx' = <<Cmd(p), Dat(p)>>
    BY ExecFacts, BuildAssumption DEF x, Data
  <2>2. \A a, b : <<a>> # <<>> /\ <<a, b>> # <<>>
    OBVIOUS
  <2>3. tx' = <<Cmd(p)>> \/ tx' = <<Cmd(p), Dat(p)>>
    BY <2>1
  <2> QED
    BY <2>1, <2>2, <2>3
<1> QED
  BY <1>5, <1>6, <1>7 DEF Going

\* A fixed sequence is not among the buffers of a transfer.
LEMMA FinalApart ==
  ASSUME NEW p, NEW f \in Final
  PROVE  Dat(p) # f /\ Cmd(p) # f
<1>1. f.kind \in {"stop", "eot"} /\ Dat(p).kind = "data" /\ Cmd(p).kind = "cmd"
  BY DEF Final, FixedSeq, Dat, Cmd
<1> QED
  BY <1>1

\* The uDMA leaves an event for the handlers.
LEMMA UdmaTxGoing == ASSUME IInv, Going, UdmaTx PROVE Going'
<1> DEFINE p == drv.slot
           e == IF eot /\ Head(tx).kind \in {"stop", "eot"} THEN <<"eot">> ELSE <<>>
<1>1. /\ tx # <<>> /\ ~Reading /\ tx' = Tail(tx)
      /\ events' = Append(events, "tx") \o e
      /\ UNCHANGED <<eot, drv, pending, rx, call>>
  BY DEF UdmaTx, platform, app
<1>2. events' # <<>>
  <2>0. <<"eot">> \in Seq({"tx", "eot"}) /\ <<>> \in Seq({"tx", "eot"})
    OBVIOUS
  <2>1. events \in Seq({"tx", "eot"}) /\ e \in Seq({"tx", "eot"})
    BY <2>0 DEF IInv, TypeOK
  <2> HIDE DEF e
  <2>2. Append(events, "tx") \in Seq({"tx", "eot"}) /\ Len(Append(events, "tx")) > 0
    BY <2>1, AppendProperties, LenProperties
  <2>3. Len(Append(events, "tx") \o e) > 0
    BY <2>1, <2>2, ConcatProperties, LenProperties
  <2> QED
    BY <1>1, <2>3, EmptySeq
<1>3. p # NULL /\ p \in Thread /\ Stages(p)
  BY <1>1, BusFacts DEF Quiet
<1>4. ASSUME eot, Moving(p)' PROVE Moving(p)
  <2>1. ~Stopped
    BY <1>1 DEF Stopped
  <2>2. ASSUME NEW f \in Final,
               \/ tx = <<f>> /\ events = <<>>
               \/ tx = <<f>> /\ events = <<"tx">>
               \/ tx = <<Dat(p), f>> /\ events = <<>>
        PROVE  FALSE
    <3>1. CASE tx = <<f>>
      <4>1. Head(tx) = f /\ tx' = <<>>
        BY <1>1, <3>1
      <4>2. e = <<"eot">>
        BY <1>4, <4>1 DEF Final, FixedSeq
      <4>3. /\ Append(<<>>, "tx") \o <<"eot">> = <<"tx", "eot">>
            /\ Append(<<"tx">>, "tx") \o <<"eot">> = <<"tx", "tx", "eot">>
        <5> DEFINE S == {"tx", "eot"}
        <5>1. "tx" \in S /\ "eot" \in S
          OBVIOUS
        <5>2. Append(<<>>, "tx") = <<"tx">>
          OBVIOUS
        <5> HIDE DEF S
        <5> QED
          BY <5>1, <5>2, Short
      <4>4. events' \in {<<"tx", "eot">>, <<"tx", "tx", "eot">>}
        <5>1. events \in {<<>>, <<"tx">>}
          BY <2>2
        <5> QED
          BY <1>1, <4>2, <4>3, <5>1
      <4>5. /\ <<"tx", "eot">> # <<>> /\ <<"tx", "eot">> # <<"tx">>
            /\ <<"tx", "eot">> # <<"tx", "tx">>
            /\ <<"tx", "tx", "eot">> # <<>> /\ <<"tx", "tx", "eot">> # <<"tx">>
            /\ <<"tx", "tx", "eot">> # <<"tx", "tx">>
        <5>1. /\ Len(<<>>) = 0 /\ Len(<<"tx">>) = 1 /\ Len(<<"tx", "tx">>) = 2
              /\ Len(<<"tx", "eot">>) = 2 /\ Len(<<"tx", "tx", "eot">>) = 3
          OBVIOUS
        <5>2. <<"tx", "eot">>[2] = "eot" /\ <<"tx", "tx">>[2] = "tx"
          OBVIOUS
        <5>3. <<"tx", "eot">> # <<"tx", "tx">>
          BY <5>2
        <5> QED
          BY <5>1, <5>3
      <4>6. \A a, b : <<a>> # <<>> /\ <<a, b>> # <<>>
        OBVIOUS
      <4>7. events' # <<>> /\ events' # <<"tx">> /\ events' # <<"tx", "tx">>
        BY <4>4, <4>5
      <4> QED
        BY <1>4, <4>1, <4>6, <4>7 DEF Moving
    <3>2. CASE tx = <<Dat(p), f>>
      <4>1. tx' = <<f>>
        BY <1>1, <3>2
      <4>2. Dat(p) # f /\ Cmd(p) # f
        BY FinalApart
      <4>3. /\ <<f>> # <<>> /\ <<f>> # <<Dat(p)>> /\ <<f>> # <<Cmd(p)>>
            /\ <<f>> # <<Cmd(p), Dat(p)>>
        BY <4>2
      <4> QED
        BY <1>1, <1>4, <4>1, <4>3 DEF Moving
    <3> QED
      BY <2>2, <3>1, <3>2
  <2>3. ~Stopping(p)
    BY <2>2 DEF Stopping
  <2> QED
    BY <1>3, <2>1, <2>3 DEF Stages
<1> QED
  BY <1>1, <1>2, <1>4 DEF Going, Long

\* The handlers send the fixed sequence or leave what is still to come.
LEMMA HandlerGoing ==
  ASSUME IInv, Going, HandlePending \/ SendStop \/ SendOnlyEot \/ Ignore
  PROVE  Going'
<1> DEFINE p == drv.slot
<1>1. /\ events' = Tail(events) /\ Serve("tx") /\ UNCHANGED <<eot, call>>
      /\ HandlePending => pending.repeat # 0
  BY DEF HandlePending, SendStop, SendOnlyEot, Ignore, platform, app
<1>2. /\ p # NULL /\ p \in Thread /\ Stages(p) /\ events # <<>> /\ Head(events) = "tx"
      /\ events = <<"tx">> => events' = <<>>
      /\ events = <<"tx", "tx">> => events' = <<"tx">>
      /\ events = <<"tx", "eot">> => events' = <<"eot">>
      /\ events = <<"tx", "tx", "eot">> => events' = <<"tx", "eot">>
  BY <1>1, ServeFacts
<1>3. drv'.slot = p
  BY DEF HandlePending, SendStop, SendOnlyEot, Ignore, FlagsAfterStop, IInv, TypeOK, Driver
<1>4. SUFFICES ASSUME ~Long(call[p])
               PROVE  /\ pending'.repeat = 0
                      /\ tx' # <<>> \/ events' # <<>>
                      /\ eot /\ Moving(p)' => drv'.eot_send
  BY <1>1, <1>3 DEF Going, Long
<1>5. pending.repeat = 0 /\ (eot /\ Moving(p) => drv.eot_send)
  BY <1>2, <1>4 DEF Going
<1>6. ~HandlePending
  BY <1>1, <1>5
<1>7. ASSUME NEW f \in Final, SendStop \/ SendOnlyEot,
             SendStop => f = FixedSeq("stop"), ~SendStop => f = FixedSeq("eot")
      PROVE  /\ pending'.repeat = 0 /\ tx' # <<>>
             /\ ~Moving(p)'
  <2>1. \/ tx' = <<f>>
        \/ tx' = <<Dat(p), f>>
    BY <1>7, SendFinalInv
  <2>2. pending' = pending
    BY <1>7 DEF SendStop, SendOnlyEot
  <2>3. Dat(p) # f /\ Cmd(p) # f
    BY <1>7, FinalApart
  <2>4. /\ <<f>> # <<>> /\ <<f>> # <<Dat(p)>> /\ <<f>> # <<Cmd(p)>>
        /\ <<f>> # <<Cmd(p), Dat(p)>>
        /\ <<Dat(p), f>> # <<>> /\ <<Dat(p), f>> # <<Dat(p)>> /\ <<Dat(p), f>> # <<Cmd(p)>>
        /\ <<Dat(p), f>> # <<Cmd(p), Dat(p)>>
    BY <2>3
  <2> QED
    BY <1>3, <1>5, <2>1, <2>2, <2>4 DEF Moving
<1>8. CASE SendStop \/ SendOnlyEot
  <2>1. FixedSeq("stop") \in Final /\ FixedSeq("eot") \in Final
    BY DEF Final
  <2> QED
    BY <1>7, <1>8, <2>1
<1>9. CASE Ignore
  <2>1. eot /\ ~drv.eot_send /\ UNCHANGED <<drv, pending, tx, rx>>
    BY <1>9 DEF Ignore, udma
  <2>2. ~Moving(p) /\ (Stopping(p) \/ Stopped)
    BY <1>2, <1>5, <2>1 DEF Stages
  <2>3. CASE Stopping(p)
    <3>1. PICK f \in Final : tx = <<f>> \/ tx = <<Dat(p), f>>
      BY <2>3 DEF Stopping
    <3>2. Dat(p) # f /\ Cmd(p) # f
      BY FinalApart
    <3>3. /\ <<f>> # <<>> /\ <<f>> # <<Dat(p)>> /\ <<f>> # <<Cmd(p)>>
          /\ <<f>> # <<Cmd(p), Dat(p)>>
          /\ <<Dat(p), f>> # <<>> /\ <<Dat(p), f>> # <<Dat(p)>> /\ <<Dat(p), f>> # <<Cmd(p)>>
          /\ <<Dat(p), f>> # <<Cmd(p), Dat(p)>>
      BY <3>2
    <3>4. tx' # <<>> /\ ~Moving(p)'
      BY <1>3, <2>1, <3>1, <3>3 DEF Moving
    <3> QED
      BY <1>5, <2>1, <3>4
  <2>4. CASE Stopped
    <3>1. events' \in {<<"tx", "eot">>, <<"eot">>}
      <4>1. Head(<<"eot">>) # "tx"
        OBVIOUS
      <4> QED
        BY <1>2, <2>4, <4>1 DEF Stopped
    <3>2. \A s \in {<<"tx", "eot">>, <<"eot">>} :
            s # <<>> /\ s # <<"tx">> /\ s # <<"tx", "tx">>
      OBVIOUS
    <3>3. tx' = <<>>
      BY <2>1, <2>4 DEF Stopped
    <3>4. ~Moving(p)'
      BY <3>1, <3>2, <3>3 DEF Moving
    <3> QED
      BY <1>5, <2>1, <3>1, <3>2, <3>4
  <2> QED
    BY <2>2, <2>3, <2>4
<1> QED
  BY <1>6, <1>8, <1>9

LEMMA NextGoing ==
  ASSUME ManagedCalls, IInv, Going, [Next]_vars
  PROVE  Going'
<1>0. drv \in Driver
  BY DEF IInv, TypeOK
<1>1. ASSUME NEW p \in Thread, Open(p)
      PROVE  Going'
  <2>1. drv.slot = NULL /\ (drv' = OpenedDriver(drv) \/ drv' = drv \/ drv' = DriverZero)
    BY <1>1 DEF Open, ManagedCalls, Busy
  <2>2. drv'.slot = NULL
    BY <1>0, <2>1 DEF OpenedDriver, DriverZero, Driver
  <2> QED
    BY <2>2 DEF Going
<1>2. ASSUME NEW p \in Thread, Close(p)
      PROVE  Going'
  <2>1. /\ UNCHANGED <<eot, pending, tx, events, call>>
        /\ drv' = DriverZero \/ drv' = [drv EXCEPT !.nb_open = @ - 1]
    BY <1>0, <1>2 DEF Close, platform, app, udma, Driver
  <2>2. CASE drv' = DriverZero
    BY <2>2 DEF DriverZero, Going
  <2>3. CASE drv' = [drv EXCEPT !.nb_open = @ - 1]
    <3>1. drv'.slot = drv.slot /\ drv'.eot_send = drv.eot_send /\ drv'.cmd = drv.cmd
      BY <1>0, <2>3 DEF Driver
    <3> QED
      BY <2>1, <3>1, GoingFrame
  <2> QED
    BY <2>1, <2>2, <2>3
<1>3. ASSUME NEW p \in Thread, NEW c \in PlainCall \cup EotCall,
             Start(p, c) \/ Detect(p, c)
      PROVE  Going'
  <2>1. /\ drv.slot = NULL /\ Submit(p, c) /\ Exec(drv, p, Request(c)) /\ call'[p] = c
        /\ c.kind # "refused"
    BY <1>3, StartInv, DetectInv DEF Start, Detect
  <2>2. c \in Call /\ c \in IF eot THEN EotCall ELSE PlainCall
    BY <2>1, CalledFacts DEF Submit
  <2>3. Proper(Request(c)) /\ Request(c) \in Data
    BY <2>1, <2>2, RequestFacts
  <2>4. tx = <<>> /\ rx = <<>>
    BY <2>1 DEF IInv, OnBus, Quiet
  <2> QED
    BY <1>0, <2>1, <2>2, <2>3, <2>4, ExecGoing
<1>4. ASSUME NEW p \in Thread, NEW c \in PlainCall \cup EotCall, Enqueue(p, c)
      PROVE  Going'
  <2>1. /\ Called(p, c) /\ UNCHANGED <<pending, tx>>
        /\ \/ drv' = [drv EXCEPT !.fifo_head = p, !.fifo_tail = p]
           \/ drv' = [drv EXCEPT !.fifo_tail = p]
    BY <1>4 DEF Enqueue, Submit, udma
  <2>2. drv'.slot = drv.slot /\ drv'.eot_send = drv.eot_send /\ drv'.cmd = drv.cmd
    BY <1>0, <2>1 DEF Driver
  <2>3. drv.slot # NULL => drv.slot \in Thread \ {p}
    BY <2>1, CalledFacts, QueueFacts DEF IInv
  <2>4. UNCHANGED <<eot, events>> /\ \A q \in Thread \ {p} : call'[q] = call[q]
    BY <2>1, CalledFacts
  <2> QED
    BY <2>1, <2>2, <2>3, <2>4, GoingFrame
<1>5. ASSUME NEW p \in Thread, NEW c \in PlainCall \cup EotCall, DetectRefused(p, c)
      PROVE  Going'
  <2>1. Called(p, c) /\ UNCHANGED <<drv, pending, tx>>
    BY <1>5 DEF DetectRefused, udma
  <2>2. drv.slot # NULL => drv.slot \in Thread \ {p}
    BY <2>1, CalledFacts, QueueFacts DEF IInv
  <2>3. UNCHANGED <<eot, events>> /\ \A q \in Thread \ {p} : call'[q] = call[q]
    BY <2>1, CalledFacts
  <2> QED
    BY <2>1, <2>2, <2>3, GoingFrame
<1>6. ASSUME NEW p \in Thread, Wait(p)
      PROVE  Going'
  <2>1. UNCHANGED <<eot, pending, tx, events, call, drv>>
    BY <1>6 DEF Wait, platform, udma
  <2> QED
    BY <2>1, GoingFrame
<1>7. ASSUME NEW p \in Thread, WaitOn(p)
      PROVE  Going'
  <2>1. /\ UNCHANGED <<eot, pending, tx, events, drv>>
        /\ call' = [call EXCEPT ![p] = CallZero]
    BY <1>7 DEF WaitOn, platform, udma
  <2>2. drv.slot # NULL => drv.slot \in Thread \ {p}
    BY <1>7, WaitOnInv, QueueFacts DEF IInv
  <2>3. \A q \in Thread \ {p} : call'[q] = call[q]
    BY <2>1 DEF IInv, TypeOK
  <2> QED
    BY <2>1, <2>2, <2>3, GoingFrame
<1>8. CASE UdmaTx
  BY <1>8, UdmaTxGoing
<1>9. CASE UdmaRx
  <2>1. UNCHANGED <<eot, pending, tx, events, call, drv>>
    BY <1>9 DEF UdmaRx, platform, app
  <2> QED
    BY <2>1, GoingFrame
<1>10. CASE HandlePending \/ SendStop \/ SendOnlyEot \/ Ignore
  BY <1>10, HandlerGoing
<1>11. CASE TxEnd \/ EotEnd
  <2> DEFINE n == drv.fifo_head
  <2>1. /\ tx = <<>> /\ rx = <<>> /\ call' = call /\ drv'.slot = n
        /\ n # NULL => /\ n \in Thread /\ \E d \in Driver : Exec(d, n, Request(call[n]))
                       /\ Request(call[n]) \in Data /\ Proper(Request(call[n]))
    BY <1>11, EndStep
  <2>2. CASE n = NULL
    BY <2>1, <2>2 DEF Going
  <2>3. CASE n # NULL
    <3>1. PICK d \in Driver : Exec(d, n, Request(call[n]))
      BY <2>1, <2>3
    <3>2. n \in Thread /\ call[n] \in Call /\ call'[n] = call[n]
      BY <2>1, <2>3 DEF IInv, TypeOK
    <3> HIDE DEF n
    <3> QED
      BY <2>1, <2>3, <3>1, <3>2, ExecGoing
  <2> QED
    BY <2>2, <2>3
<1>12. CASE UNCHANGED vars
  <2>1. UNCHANGED <<eot, pending, tx, events, call, drv>>
    BY <1>12 DEF vars, platform, app, udma
  <2> QED
    BY <2>1, GoingFrame
<1> QED
  BY <1>1, <1>2, <1>3, <1>4, <1>5, <1>6, <1>7, <1>8, <1>9, <1>10, <1>11, <1>12
     DEF Next, Handler

\* Who waits has been told, or its transfer is in the queue; and then the bus is moving
\* the first of the queue or an event is about to be serviced, unless that one is too
\* long for one sequence of commands.
NobodyForgotten ==
  \A p \in Thread :
    pc[p] \in {"wait", "sent"} /\ ~task[p].done /\ call[p].kind # "refused" =>
      /\ p \in Elements(queue) /\ drv.slot # NULL
      /\ Long(call[drv.slot]) \/ tx # <<>> \/ (events # <<>> /\ attached)

\* No accepted transfer is forgotten between the slot, the fifo, the uDMA and the
\* handlers: while somebody waits, no event that the handlers tell apart by two flags
\* has been taken for another, and the one that ends the transfer is still to come
\* (__pi_i2c_tx_handler, __pi_i2c_eot_handler; pi_i2c_write, pi_i2c_read).  Only a
\* transfer in several pieces, which __pi_i2c_handle_pending_transfer never enqueues,
\* stops the bus, and only a refused detection is waited for in vain.
THEOREM AcceptedRemembered == ASSUME ManagedCalls PROVE Spec => []NobodyForgotten
<1>1. Init => Awaited /\ Going
  BY DEF Init, Awaited, Going, DriverZero
<1>2. IInv /\ Awaited /\ [Next]_vars => Awaited'
  BY NextAwaited
<1>3. IInv /\ Going /\ [Next]_vars => Going'
  BY NextGoing
<1>4. IInv /\ Awaited /\ Going => NobodyForgotten
  <2> SUFFICES ASSUME IInv, Awaited, Going, NEW p \in Thread,
                      pc[p] \in {"wait", "sent"}, ~task[p].done, call[p].kind # "refused"
               PROVE  /\ p \in Elements(queue) /\ drv.slot # NULL
                      /\ Long(call[drv.slot]) \/ tx # <<>> \/ (events # <<>> /\ attached)
    BY DEF NobodyForgotten
  <2>1. p \in Elements(queue)
    BY DEF Awaited
  <2>2. attached
    BY <2>1 DEF IInv, Underway, Counted
  <2>3. drv.slot # NULL
    BY <2>1, QueueFacts, EmptyOnce DEF IInv
  <2> QED
    BY <2>1, <2>2, <2>3 DEF Going
<1> QED
  BY <1>1, <1>2, <1>3, <1>4, Invariance, PTL DEF Spec

(***************************************************************************)
(* How long one waits                                                      *)
(***************************************************************************)

\* The steps until the buffers s of the TX channel are executed and their events
\* serviced: two for each, and one more for the end-of-transfer event of a fixed
\* sequence.
TxWork(s) == 2 * Len(s) + IF eot /\ Elements(s) \cap Final # {} THEN 1 ELSE 0

\* The steps the fixed sequence still to be sent will cost.
Owed == IF eot THEN (IF drv.eot_send THEN 3 ELSE 0) ELSE (IF drv.stop_send THEN 2 ELSE 0)

\* The steps of the uDMA and of the handlers that the transfer in the slot still takes.
Work == TxWork(tx) + Len(rx) + Len(events) + Owed

\* No transfer takes more than eight.
StepsAhead(p) == 8 * (Place(queue, p) - 1) + Work

Bus == UdmaTx \/ UdmaRx \/ Handler

NoOvertaking ==
  \A p \in Elements(queue) : ~Long(call[drv.slot]) =>
    /\ StepsAhead(p) \in 1..(8 * Place(queue, p))
    /\ \/ /\ p \in Elements(queue')
          /\ IF Bus THEN StepsAhead(p)' < StepsAhead(p) ELSE StepsAhead(p)' = StepsAhead(p)
       \/ /\ TxEnd \/ EotEnd
          /\ StepsAhead(p) = 1
          /\ pc[p] # "detached" => task'[p].done

LEMMA TxWorks ==
  ASSUME NEW p
  PROVE  /\ TxWork(<<>>) = 0
         /\ TxWork(<<Cmd(p)>>) = 2 /\ TxWork(<<Dat(p)>>) = 2
         /\ TxWork(<<Cmd(p), Dat(p)>>) = 4
         /\ \A f \in Final : /\ TxWork(<<f>>) = IF eot THEN 3 ELSE 2
                             /\ TxWork(<<Dat(p), f>>) = IF eot THEN 5 ELSE 4
<1>1. Cmd(p) \notin Final /\ Dat(p) \notin Final
  BY FinalApart
<1>2. /\ {} \cap Final = {} /\ {Cmd(p)} \cap Final = {} /\ {Dat(p)} \cap Final = {}
      /\ {Cmd(p), Dat(p)} \cap Final = {}
      /\ \A f \in Final : {f} \cap Final # {} /\ {Dat(p), f} \cap Final # {}
  BY <1>1
<1> QED
  BY <1>2, ShortElements DEF TxWork

\* Eight are enough, whatever the transfer.
LEMMA WorkMost ==
  IInv /\ drv.slot # NULL =>
    Work \in 0..8 /\ (tx # <<>> \/ events # <<>> => Work > 0)
<1> SUFFICES ASSUME IInv, drv.slot # NULL
             PROVE  Work \in 0..8 /\ (tx # <<>> \/ events # <<>> => Work > 0)
  OBVIOUS
<1> DEFINE p == drv.slot
           b == TxWork(tx)
           e == Len(events)
           r == Len(rx)
           o == Owed
           some == tx # <<>> \/ events # <<>>
<1>1. Stages(p)
  BY DEF IInv, OnBus
<1>2. r \in {0, 1} /\ o \in {0, 2, 3}
  BY <1>1 DEF Stages, Owed
<1>3. /\ Len(<<>>) = 0 /\ Len(<<"tx">>) = 1 /\ Len(<<"tx", "tx">>) = 2 /\ Len(<<"eot">>) = 1
      /\ Len(<<"tx", "eot">>) = 2 /\ Len(<<"tx", "tx", "eot">>) = 3
  OBVIOUS
<1>4. ASSUME Moving(p)
      PROVE  b \in 0..4 /\ e \in 0..2 /\ b + e \in 0..4 /\ (some => b + e > 0)
  <2>1. TxWork(<<>>) = 0 /\ TxWork(<<Dat(p)>>) = 2
    BY TxWorks
  <2>2. TxWork(<<Cmd(p)>>) = 2 /\ TxWork(<<Cmd(p), Dat(p)>>) = 4
    BY TxWorks
  <2>3. e \in 0..2 /\ (events # <<>> => e > 0)
    BY <1>3, <1>4 DEF Moving
  <2>4. b \in {0, 2, 4} /\ (tx # <<>> => b > 0)
    BY <1>4, <2>1, <2>2 DEF Moving
  <2>5. (b = 2 => e < 2) /\ (b = 4 => e = 0)
    BY <1>3, <1>4, <2>1, <2>2 DEF Moving
  <2> HIDE DEF b, e
  <2> QED
    BY <2>3, <2>4, <2>5
<1>5. ASSUME Stopping(p)
      PROVE  b \in 0..5 /\ e \in 0..1 /\ b + e \in 1..5 /\ o = 0
  <2>1. PICK f \in Final : \/ tx = <<f>> /\ events = <<>>
                           \/ tx = <<f>> /\ events = <<"tx">> /\ eot
                           \/ tx = <<Dat(p), f>> /\ events = <<>> /\ eot
    BY <1>5 DEF Stopping
  <2>2. o = 0
    BY <1>5 DEF Stopping, Owed
  <2>3. TxWork(<<f>>) \in {2, 3} /\ TxWork(<<Dat(p), f>>) \in {4, 5}
    BY TxWorks
  <2>4. \/ b \in {2, 3} /\ e \in {0, 1}
        \/ b \in {4, 5} /\ e = 0
    BY <1>3, <2>1, <2>3
  <2> HIDE DEF b, e, o
  <2> QED
    BY <2>2, <2>4
<1>6. ASSUME Stopped
      PROVE  b = 0 /\ e \in 1..3 /\ o = 0
  <2>1. b = 0 /\ o = 0
    BY <1>6, TxWorks DEF Stopped, Owed
  <2>2. e \in 1..3
    BY <1>3, <1>6 DEF Stopped
  <2> QED
    BY <2>1, <2>2
<1>7. b \in Nat /\ e \in Nat /\ b + e + o \in 0..7 /\ (some => b + e > 0)
  <2>1. Moving(p) \/ Stopping(p) \/ Stopped
    BY <1>1 DEF Stages
  <2> HIDE DEF b, e, o, some
  <2> QED
    BY <1>2, <1>4, <1>5, <1>6, <2>1
<1>8. b + r + e + o \in 0..8 /\ (some => b + r + e + o > 0)
  <2> HIDE DEF b, e, r, o, some
  <2> QED
    BY <1>2, <1>7
<1> QED
  BY <1>8 DEF Work

AtMostEight == drv.slot # NULL => Work \in 0..8

LEMMA WorkBound == IInv => AtMostEight
BY WorkMost DEF AtMostEight

LEMMA WorkNext == ASSUME IInv' PROVE AtMostEight'
BY WorkBound, PTL

\* The uDMA executes a buffer.
LEMMA UdmaTxCloser ==
  ASSUME IInv, UdmaTx
  PROVE  Work' = Work - 1
<1> DEFINE p == drv.slot
           e == IF eot /\ Head(tx).kind \in {"stop", "eot"} THEN <<"eot">> ELSE <<>>
           k == Len(e)
           b == TxWork(tx)
           a == TxWork(tx')
           n == Len(events)
           r == Len(rx)
           o == Owed
<1>1. /\ UNCHANGED <<eot, drv, rx>>
      /\ events' = Append(events, "tx") \o e
  BY DEF UdmaTx, platform
<1>2. events \in Seq({"tx", "eot"}) /\ rx \in Seq(Thread)
  BY DEF IInv, TypeOK
<1>3. Len(events') = n + 1 + k /\ n \in Nat /\ r \in Nat /\ k \in {0, 1}
  <2>1. /\ Append(events, "tx") \in Seq({"tx", "eot"}) /\ Len(Append(events, "tx")) = n + 1
        /\ n \in Nat /\ r \in Nat
    BY <1>2, AppendProperties, LenProperties
  <2>2. e \in Seq({"tx", "eot"}) /\ k \in {0, 1}
    <3>1. /\ <<>> \in Seq({"tx", "eot"}) /\ Len(<<>>) = 0
          /\ <<"eot">> \in Seq({"tx", "eot"}) /\ Len(<<"eot">>) = 1
      OBVIOUS
    <3>2. e = <<>> \/ e = <<"eot">>
      OBVIOUS
    <3> HIDE DEF e
    <3> QED
      BY <3>1, <3>2
  <2>3. Len(Append(events, "tx") \o e) = Len(Append(events, "tx")) + k
    <3> HIDE DEF e
    <3> QED
      BY <2>1, <2>2, ConcatProperties
  <2> QED
    BY <1>1, <2>1, <2>2, <2>3
<1>4. Len(<<>>) = 0 /\ Len(<<"eot">>) = 1
  OBVIOUS
<1>5. /\ Cmd(p).kind = "cmd" /\ Dat(p).kind = "data"
      /\ \A f \in Final : f.kind \in {"stop", "eot"}
  BY DEF Cmd, Dat, Final, FixedSeq
<1>6. a \in Nat /\ b \in Nat /\ a + 1 + k = b - 1
  <2>0. /\ TxWork(<<>>) = 0 /\ TxWork(<<Cmd(p)>>) = 2 /\ TxWork(<<Dat(p)>>) = 2
        /\ TxWork(<<Cmd(p), Dat(p)>>) = 4
    BY TxWorks
  <2>1. CASE tx = <<Cmd(p), Dat(p)>> /\ tx' = <<Dat(p)>>
    <3>1. Head(tx) = Cmd(p)
      BY <2>1
    <3>2. k = 0 /\ b = 4 /\ a = 2
      BY <1>4, <1>5, <2>0, <2>1, <3>1
    <3> QED
      BY <3>2
  <2>2. CASE tx = <<Cmd(p)>> /\ tx' = <<>>
    <3>1. Head(tx) = Cmd(p)
      BY <2>2
    <3>2. k = 0 /\ b = 2 /\ a = 0
      BY <1>4, <1>5, <2>0, <2>2, <3>1
    <3> QED
      BY <3>2
  <2>3. CASE tx = <<Dat(p)>> /\ tx' = <<>>
    <3>1. Head(tx) = Dat(p)
      BY <2>3
    <3>2. k = 0 /\ b = 2 /\ a = 0
      BY <1>4, <1>5, <2>0, <2>3, <3>1
    <3> QED
      BY <3>2
  <2>4. ASSUME NEW f \in Final, tx = <<f>>, tx' = <<>>
        PROVE  a \in Nat /\ b \in Nat /\ a + 1 + k = b - 1
    <3>1. Head(tx) = f
      BY <2>4
    <3>2. TxWork(<<f>>) = IF eot THEN 3 ELSE 2
      BY TxWorks
    <3>3. a = 0 /\ k = (IF eot THEN 1 ELSE 0) /\ b = IF eot THEN 3 ELSE 2
      BY <1>4, <1>5, <2>0, <2>4, <3>1, <3>2
    <3> QED
      BY <3>3
  <2>5. ASSUME NEW f \in Final, tx = <<Dat(p), f>>, tx' = <<f>>
        PROVE  a \in Nat /\ b \in Nat /\ a + 1 + k = b - 1
    <3>1. Head(tx) = Dat(p)
      BY <2>5
    <3>2. /\ TxWork(<<f>>) = IF eot THEN 3 ELSE 2
          /\ TxWork(<<Dat(p), f>>) = IF eot THEN 5 ELSE 4
      BY TxWorks
    <3>3. /\ a = IF eot THEN 3 ELSE 2
          /\ b = IF eot THEN 5 ELSE 4
          /\ k = 0
      BY <1>4, <1>5, <2>5, <3>1, <3>2
    <3> QED
      BY <3>3
  <2> HIDE DEF a, b, k
  <2> QED
    BY <2>1, <2>2, <2>3, <2>4, <2>5, UdmaTxStep
<1>7. TxWork(tx)' = a /\ Owed' = o /\ o \in Nat
  BY <1>1 DEF TxWork, Owed
<1>8. a + r + (n + 1 + k) + o = (b + r + n + o) - 1
  <2> HIDE DEF a, b, k, n, r, o
  <2> QED
    BY <1>3, <1>6, <1>7
<1> QED
  BY <1>1, <1>3, <1>7, <1>8 DEF Work

\* The bus has read what it was to read.
LEMMA UdmaRxCloser ==
  ASSUME IInv, UdmaRx
  PROVE  Work' = Work - 1
<1> DEFINE b == TxWork(tx)
           n == Len(events)
           r == Len(rx)
           o == Owed
<1>1. UNCHANGED <<eot, drv, tx, events>> /\ rx # <<>> /\ rx' = Tail(rx)
  BY DEF UdmaRx, Reading, platform
<1>2. events \in Seq({"tx", "eot"}) /\ rx \in Seq(Thread) /\ tx \in Seq(Buffer)
  BY DEF IInv, TypeOK
<1>3. Len(rx') = r - 1 /\ r \in Nat /\ n \in Nat /\ Len(tx) \in Nat
  BY <1>1, <1>2, HeadTailProperties, LenProperties
<1>4. TxWork(tx)' = b /\ Owed' = o /\ b \in Nat /\ o \in Nat
  BY <1>1, <1>3 DEF TxWork, Owed
<1>5. b + (r - 1) + n + o = (b + r + n + o) - 1
  <2> HIDE DEF b, n, r, o
  <2> QED
    BY <1>3, <1>4
<1> QED
  BY <1>1, <1>3, <1>4, <1>5 DEF Work

\* The handlers send the fixed sequence, which costs what was kept for it.
LEMMA SendCloser ==
  ASSUME IInv, Going, ~Long(call[drv.slot]), SendStop \/ SendOnlyEot
  PROVE  Work' = Work - 1
<1> DEFINE p == drv.slot
           a == TxWork(tx')
           b == TxWork(tx)
           n == Len(events)
           r == Len(rx)
           o == Owed
           u == Owed'
<1>1. /\ Serve("tx") /\ events' = Tail(events) /\ UNCHANGED eot
      /\ SendOnlyEot => eot /\ drv.eot_send
      /\ SendStop => drv.stop_send
      /\ drv' = FlagsAfterStop(drv) \/ (SendOnlyEot /\ drv' = [drv EXCEPT !.eot_send = FALSE])
  BY DEF SendStop, SendOnlyEot, platform
<1>2. /\ drv \in Driver /\ events \in Seq({"tx", "eot"}) /\ rx \in Seq(Thread)
  BY DEF IInv, TypeOK
<1>3. p # NULL /\ Stages(p) /\ events # <<>>
  BY <1>1, ServeFacts
<1>4. Len(events') = n - 1 /\ n \in Nat /\ r \in Nat
  BY <1>1, <1>2, <1>3, HeadTailProperties, LenProperties
<1>5. eot => drv.eot_send
  <2>1. SendStop => Moving(p)
    BY <1>1, <1>3 DEF Stages, Stopping, Stopped
  <2> QED
    BY <1>1, <1>3, <2>1 DEF Going
<1>6. o = (IF eot THEN 3 ELSE 2) /\ u = 0
  <2>1. ~drv'.eot_send /\ (~eot => ~drv'.stop_send)
    BY <1>1, <1>2 DEF FlagsAfterStop, Driver
  <2> QED
    BY <1>1, <1>5, <2>1 DEF Owed
<1>7. rx' = rx /\ b \in Nat /\ a = b + IF eot THEN 3 ELSE 2
  <2>1. ASSUME NEW f \in Final,
               SendStop => f = FixedSeq("stop"), ~SendStop => f = FixedSeq("eot")
        PROVE  rx' = rx /\ b \in Nat /\ a = b + IF eot THEN 3 ELSE 2
    <3>1. /\ rx' = rx
          /\ \/ tx = <<>> /\ tx' = <<f>>
             \/ tx = <<Dat(p)>> /\ tx' = <<Dat(p), f>>
      BY <2>1, SendFinalInv
    <3>2. /\ TxWork(<<>>) = 0 /\ TxWork(<<Dat(p)>>) = 2
          /\ TxWork(<<f>>) = IF eot THEN 3 ELSE 2
          /\ TxWork(<<Dat(p), f>>) = IF eot THEN 5 ELSE 4
      BY TxWorks
    <3>3. \/ b = 0 /\ a = IF eot THEN 3 ELSE 2
          \/ b = 2 /\ a = IF eot THEN 5 ELSE 4
      BY <3>1, <3>2
    <3> HIDE DEF a, b
    <3> QED
      BY <3>1, <3>3
  <2>2. FixedSeq("stop") \in Final /\ FixedSeq("eot") \in Final
    BY DEF Final
  <2> QED
    BY <2>1, <2>2
<1>8. TxWork(tx)' = a
  BY <1>1 DEF TxWork
<1>9. a + r + (n - 1) + u = (b + r + n + o) - 1
  <2> HIDE DEF a, b, n, r, o, u
  <2> QED
    BY <1>4, <1>6, <1>7
<1> QED
  BY <1>4, <1>7, <1>8, <1>9 DEF Work

\* A TX event is left with nothing to send.
LEMMA IgnoreCloser ==
  ASSUME IInv, Ignore
  PROVE  Work' = Work - 1
<1> DEFINE b == TxWork(tx)
           n == Len(events)
           r == Len(rx)
           o == Owed
<1>1. UNCHANGED <<eot, drv, tx, rx>> /\ events # <<>> /\ events' = Tail(events)
  BY DEF Ignore, Serve, platform, udma
<1>2. events \in Seq({"tx", "eot"}) /\ rx \in Seq(Thread) /\ tx \in Seq(Buffer)
  BY DEF IInv, TypeOK
<1>3. Len(events') = n - 1 /\ r \in Nat /\ n \in Nat /\ Len(tx) \in Nat
  BY <1>1, <1>2, HeadTailProperties, LenProperties
<1>4. TxWork(tx)' = b /\ Owed' = o /\ b \in Nat /\ o \in Nat
  BY <1>1, <1>3 DEF TxWork, Owed
<1>5. b + r + (n - 1) + o = (b + r + n + o) - 1
  <2> HIDE DEF b, n, r, o
  <2> QED
    BY <1>3, <1>4
<1> QED
  BY <1>1, <1>3, <1>4, <1>5 DEF Work

\* Steps that leave the bus, and what will be sent on it, alone.
LEMMA WorkFrame ==
  ASSUME UNCHANGED <<eot, tx, rx, events>>,
         drv'.stop_send = drv.stop_send, drv'.eot_send = drv.eot_send
  PROVE  Work' = Work
BY DEF Work, TxWork, Owed

\* The event that ends a transfer is the last of its steps.
LEMMA LastStep == ASSUME IInv, TxEnd \/ EotEnd PROVE Work = 1
<1> DEFINE p == drv.slot
<1>1. /\ tx = <<>> /\ rx = <<>> /\ events' = <<>> /\ events' = Tail(events)
      /\ p # NULL /\ Stages(p)
      /\ events \in Seq({"tx", "eot"}) /\ events # <<>>
  <2>1. /\ tx = <<>> /\ rx = <<>> /\ events' = <<>> /\ events' = Tail(events)
    BY LastEvent DEF End
  <2>2. events # <<>> /\ events \in Seq({"tx", "eot"})
    BY DEF TxEnd, EotEnd, Serve, IInv, TypeOK
  <2>3. p # NULL /\ Stages(p)
    BY <2>2, BusFacts DEF Quiet
  <2> QED
    BY <2>1, <2>2, <2>3
<1>2. Len(events) = 1
  <2>1. Len(Tail(events)) = Len(events) - 1 /\ Len(events) \in Nat
    BY <1>1, HeadTailProperties, LenProperties
  <2>2. Len(Tail(events)) = 0
    BY <1>1, ShortElements
  <2> QED
    BY <2>1, <2>2
<1>3. Owed = 0
  <2>1. CASE TxEnd
    BY <2>1 DEF TxEnd, Owed
  <2>2. CASE EotEnd
    <3>1. Head(events) = "eot"
      BY <2>2 DEF EotEnd, Serve
    <3>2. Head(<<"tx">>) # "eot" /\ Head(<<"tx", "tx">>) # "eot"
      OBVIOUS
    <3>3. Stopped
      BY <1>1, <3>1, <3>2 DEF Stages, Moving, Stopping
    <3> QED
      BY <3>3 DEF Stopped, Owed
  <2> QED
    BY <2>1, <2>2
<1>4. TxWork(tx) = 0 /\ Len(rx) = 0
  BY <1>1, TxWorks, ShortElements
<1> QED
  BY <1>2, <1>3, <1>4 DEF Work

\* The end of a transfer: all others are closer.
LEMMA EndCloser ==
  ASSUME IInv, TxEnd \/ EotEnd, NEW p \in Elements(queue)
  PROVE  \/ p \in Elements(queue') /\ StepsAhead(p)' < StepsAhead(p)
         \/ StepsAhead(p) = 1 /\ (pc[p] # "detached" => task'[p].done)
<1> DEFINE i == Place(queue, p)
<1>1. /\ drv.slot = Head(queue) /\ queue # <<>> /\ queue' = Tail(queue)
      /\ task' = IF task[drv.slot].id = "PI_TASK_NONE_ID"
                   THEN [task EXCEPT ![drv.slot] = PiTaskRelease(task[drv.slot])] ELSE task
      /\ p \in Thread
  BY EndStep, QueueFacts DEF Fifo, IInv
<1>2. Work = 1
  BY LastStep
<1>3. /\ i \in Nat \ {0} /\ (p = Head(queue) <=> i = 1)
      /\ p # Head(queue) => p \in Elements(queue') /\ Place(queue', p) = i - 1
  BY <1>1, PlaceTail, PlaceFacts DEF IInv, TypeOK
<1>4. StepsAhead(p) = 8 * (i - 1) + 1
  BY <1>2 DEF StepsAhead
<1>5. CASE p = Head(queue)
  <2>1. StepsAhead(p) = 1
    <3> HIDE DEF i
    <3> QED
      BY <1>3, <1>4, <1>5
  <2>2. task[p].id = "PI_TASK_NONE_ID" \/ pc[p] = "detached"
    BY DEF IInv, Underway
  <2>3. task[p] \in PiTaskT /\ task \in [Thread -> PiTaskT]
    BY <1>1 DEF IInv, TypeOK
  <2>4. PiTaskRelease(task[p]).done
    BY <2>3 DEF PiTaskRelease, PiTaskT
  <2> QED
    BY <1>1, <1>5, <2>1, <2>2, <2>3, <2>4
<1>6. CASE p # Head(queue)
  <2>1. Work' \in 0..8
    <3>1. IInv'
      BY EndInv
    <3>2. queue' # <<>>
      BY <1>3, <1>6, EmptyOnce
    <3>3. drv'.slot # NULL
      BY <3>2, EndStep
    <3> QED
      BY <3>1, <3>3, WorkNext DEF AtMostEight
  <2>2. StepsAhead(p)' = 8 * ((i - 1) - 1) + Work'
    BY <1>3, <1>6 DEF StepsAhead
  <2>3. 8 * ((i - 1) - 1) + Work' < 8 * (i - 1) + 1
    <3> DEFINE w == Work'
    <3>1. w \in 0..8 /\ i \in Nat
      BY <1>3, <2>1
    <3> HIDE DEF i, w
    <3>2. 8 * ((i - 1) - 1) + w < 8 * (i - 1) + 1
      BY <3>1
    <3> QED
      BY <3>2 DEF w
  <2> QED
    BY <1>3, <1>4, <1>6, <2>2, <2>3
<1> QED
  BY <1>5, <1>6

\* A step of the bus or of a handler is seen on the channels or at the events.
LEMMA BusSeen ==
  ASSUME IInv, Bus
  PROVE  ~UNCHANGED <<tx, rx, events>>
<1>1. tx \in Seq(Buffer) /\ rx \in Seq(Thread) /\ events \in Seq({"tx", "eot"})
  BY DEF IInv, TypeOK
<1>2. ASSUME NEW S, NEW s \in Seq(S), s # <<>>
      PROVE  Tail(s) # s
  BY <1>2, HeadTailProperties, LenProperties
<1>3. CASE UdmaTx
  BY <1>1, <1>2, <1>3 DEF UdmaTx
<1>4. CASE UdmaRx
  BY <1>1, <1>2, <1>4 DEF UdmaRx, Reading
<1>5. CASE Handler
  <2>1. events # <<>> /\ events' = Tail(events)
    BY <1>5 DEF Handler, HandlePending, SendStop, SendOnlyEot, Ignore, TxEnd, EotEnd, End,
       Serve
  <2> QED
    BY <1>1, <1>2, <2>1
<1> QED
  BY <1>3, <1>4, <1>5 DEF Bus

LEMMA NextCloser ==
  ASSUME ManagedCalls, IInv, Going, [Next]_vars
  PROVE  NoOvertaking
<1> SUFFICES ASSUME NEW p \in Elements(queue), ~Long(call[drv.slot])
             PROVE  /\ StepsAhead(p) \in 1..(8 * Place(queue, p))
                    /\ \/ /\ p \in Elements(queue')
                          /\ IF Bus THEN StepsAhead(p)' < StepsAhead(p)
                                    ELSE StepsAhead(p)' = StepsAhead(p)
                       \/ /\ TxEnd \/ EotEnd
                          /\ StepsAhead(p) = 1
                          /\ pc[p] # "detached" => task'[p].done
  BY DEF NoOvertaking
<1>1. queue \in Seq(Thread) /\ queue # <<>> /\ Once(queue) /\ drv.slot # NULL /\ drv \in Driver
  BY QueueFacts, EmptyOnce DEF IInv, TypeOK
<1>2. Work \in 1..8 /\ Place(queue, p) \in Nat \ {0} /\ StepsAhead(p) \in 1..(8 * Place(queue, p))
  <2> DEFINE i == Place(queue, p)
             w == Work
  <2>1. w \in 0..8 /\ w > 0
    BY <1>1, WorkMost DEF Going
  <2>2. i \in Nat \ {0}
    BY <1>1, PlaceFacts
  <2>3. w \in 1..8 /\ 8 * (i - 1) + w \in 1..(8 * i)
    <3> HIDE DEF i, w
    <3> QED
      BY <2>1, <2>2
  <2> QED
    BY <2>2, <2>3 DEF StepsAhead
<1>3. ASSUME queue' = queue, Work' = Work - 1
      PROVE  p \in Elements(queue') /\ StepsAhead(p)' < StepsAhead(p)
  <2> DEFINE i == Place(queue, p)
             w == Work
  <2>1. StepsAhead(p) = 8 * (i - 1) + w /\ StepsAhead(p)' = 8 * (i - 1) + (w - 1)
    BY <1>3 DEF StepsAhead
  <2>2. 8 * (i - 1) + (w - 1) < 8 * (i - 1) + w
    <3>1. i \in Nat /\ w \in Nat
      BY <1>2
    <3> HIDE DEF i, w
    <3> QED
      BY <3>1
  <2> QED
    BY <1>3, <2>1, <2>2
<1>4. CASE Bus
  <2>1. CASE TxEnd \/ EotEnd
    BY <1>2, <1>4, <2>1, EndCloser
  <2>2. CASE UdmaTx \/ UdmaRx
    <3>1. queue' = queue /\ Work' = Work - 1
      BY <2>2, UdmaTxCloser, UdmaRxCloser DEF UdmaTx, UdmaRx
    <3> QED
      BY <1>2, <1>3, <1>4, <3>1
  <2>3. CASE SendStop \/ SendOnlyEot \/ Ignore
    <3>1. queue' = queue /\ Work' = Work - 1
      BY <2>3, SendCloser, IgnoreCloser DEF SendStop, SendOnlyEot, Ignore
    <3> QED
      BY <1>2, <1>3, <1>4, <3>1
  <2>4. ~HandlePending
    BY <1>1 DEF HandlePending, Going
  <2> QED
    BY <1>4, <2>1, <2>2, <2>3, <2>4 DEF Bus, Handler
<1>5. ASSUME UNCHANGED <<eot, tx, rx, events>>, p \in Elements(queue'),
             Place(queue', p) = Place(queue, p),
             drv'.stop_send = drv.stop_send, drv'.eot_send = drv.eot_send
      PROVE  /\ p \in Elements(queue')
             /\ IF Bus THEN StepsAhead(p)' < StepsAhead(p)
                       ELSE StepsAhead(p)' = StepsAhead(p)
  <2>1. ~Bus
    BY <1>5, BusSeen
  <2> QED
    BY <1>5, <2>1, WorkFrame DEF StepsAhead
<1>6. ASSUME NEW q \in Thread, NEW c \in PlainCall \cup EotCall, Enqueue(q, c)
      PROVE  /\ UNCHANGED <<eot, tx, rx, events>> /\ p \in Elements(queue')
             /\ Place(queue', p) = Place(queue, p)
             /\ drv'.stop_send = drv.stop_send /\ drv'.eot_send = drv.eot_send
  <2>1. /\ UNCHANGED <<eot, tx, rx, events>> /\ queue' = Append(queue, q) /\ Once(queue')
    BY <1>6, EnqueueInv, CalledFacts DEF Submit, IInv
  <2>2. p \in Elements(queue') /\ Place(queue', p) = Place(queue, p)
    BY <1>1, <2>1, PlaceAppend
  <2>3. drv'.stop_send = drv.stop_send /\ drv'.eot_send = drv.eot_send
    BY <1>1, <1>6 DEF Enqueue, Driver
  <2> QED
    BY <2>1, <2>2, <2>3
<1>7. ASSUME NEW q \in Thread, NEW c \in PlainCall \cup EotCall, Start(q, c) \/ Detect(q, c)
      PROVE  FALSE
  BY <1>1, <1>7, StartInv, DetectInv
<1>8. ASSUME NEW q \in Thread, Open(q)
      PROVE  FALSE
  BY <1>1, <1>8 DEF Open, ManagedCalls, Busy
<1>9. ASSUME NEW q \in Thread, Close(q)
      PROVE  /\ UNCHANGED <<eot, tx, rx, events, queue>>
             /\ drv'.stop_send = drv.stop_send /\ drv'.eot_send = drv.eot_send
  <2>1. /\ UNCHANGED <<eot, tx, rx, events, queue>>
        /\ drv' = DriverZero \/ drv' = [drv EXCEPT !.nb_open = @ - 1]
    BY <1>1, <1>9 DEF Close, platform, udma, Driver
  <2>2. drv'.slot # NULL
    BY <1>1, <1>9, <2>1, CloseInv DEF IInv, QueueLinked, TypeOK
  <2>3. drv' # DriverZero
    BY <2>2 DEF DriverZero
  <2> QED
    BY <1>1, <2>1, <2>3 DEF Driver
<1>10. ASSUME NEW q \in Thread,
              Wait(q) \/ WaitOn(q) \/ \E c \in PlainCall \cup EotCall : DetectRefused(q, c)
       PROVE  UNCHANGED <<eot, tx, rx, events, queue, drv>>
  BY <1>10 DEF Wait, WaitOn, DetectRefused, Called, platform, udma
<1>11. ASSUME UNCHANGED <<eot, tx, rx, events, queue>>,
              drv'.stop_send = drv.stop_send, drv'.eot_send = drv.eot_send
       PROVE  /\ p \in Elements(queue')
              /\ IF Bus THEN StepsAhead(p)' < StepsAhead(p)
                        ELSE StepsAhead(p)' = StepsAhead(p)
  BY <1>5, <1>11
<1>12. CASE UNCHANGED vars
  BY <1>2, <1>11, <1>12 DEF vars, platform, udma
<1>13. CASE \E q \in Thread :
              \/ Open(q) \/ Close(q)
              \/ \E c \in PlainCall \cup EotCall :
                   \/ Start(q, c) \/ Enqueue(q, c)
                   \/ Detect(q, c) \/ DetectRefused(q, c)
              \/ Wait(q) \/ WaitOn(q)
  BY <1>2, <1>5, <1>6, <1>7, <1>8, <1>9, <1>10, <1>11, <1>13
<1> QED
  BY <1>4, <1>12, <1>13 DEF Next, Bus

\* Unless the transfer in the slot is one in several pieces, which the driver never
\* finishes, it is over after at most eight steps of the uDMA, of the bus and of the
\* handlers, and each of them brings every transfer of the fifo closer to its end; none
\* ends before its turn, and nothing anybody calls puts one back, however many come
\* behind (__pi_i2c_tx_handler, __pi_i2c_eot_handler, __pi_i2c_task_fifo_pop).
THEOREM BoundedWait == ASSUME ManagedCalls PROVE Spec => [][NoOvertaking]_vars
<1>1. Init => Going
  BY DEF Init, Going, DriverZero
<1>2. IInv /\ Going /\ [Next]_vars => Going'
  BY NextGoing
<1>3. IInv /\ Going /\ [Next]_vars => [NoOvertaking]_vars
  BY NextCloser
<1> QED
  BY <1>1, <1>2, <1>3, Invariance, PTL DEF Spec

(***************************************************************************)
(* The refinement                                                          *)
(***************************************************************************)

Lines == [l \in {"i2c"} |-> queue]
Lefts == [p \in Thread |-> Left(p)]

TxOf(s, p) == Cardinality({i \in DOMAIN s : s[i].owner = p})
RxOf(s, p) == Cardinality({i \in DOMAIN s : s[i] = p})

\* Counting the buffers of a transfer.
LEMMA Counts ==
  ASSUME NEW p \in Thread
  PROVE  /\ TxOf(<<>>, p) = 0 /\ RxOf(<<>>, p) = 0 /\ RxOf(<<p>>, p) = 1
         /\ TxOf(<<Cmd(p)>>, p) = 1 /\ TxOf(<<Dat(p)>>, p) = 1
         /\ TxOf(<<Cmd(p), Dat(p)>>, p) = 2
         /\ \A f \in Final : TxOf(<<f>>, p) = 0 /\ TxOf(<<Dat(p), f>>, p) = 1
<1>1. /\ Cardinality({}) = 0 /\ Cardinality({1}) = 1 /\ Cardinality({1, 2}) = 2
  <2>1. IsFiniteSet({1}) /\ Cardinality({1}) = 1
    BY FS_Singleton
  <2>2. Cardinality({1} \cup {2}) = 2
    BY <2>1, FS_AddElement
  <2>3. {1} \cup {2} = {1, 2}
    OBVIOUS
  <2> QED
    BY <2>1, <2>2, <2>3, FS_EmptySet
<1>2. /\ Cmd(p).owner = p /\ Dat(p).owner = p
      /\ \A f \in Final : f.owner # p
  BY ThreadAssumption DEF Cmd, Dat, Final, FixedSeq
<1>3. TxOf(<<>>, p) = 0 /\ RxOf(<<>>, p) = 0
  <2>1. /\ {i \in DOMAIN <<>> : <<>>[i].owner = p} = {}
        /\ {i \in DOMAIN <<>> : <<>>[i] = p} = {}
    OBVIOUS
  <2> QED
    BY <1>1, <2>1 DEF TxOf, RxOf
<1>4. RxOf(<<p>>, p) = 1
  <2>1. {i \in DOMAIN <<p>> : <<p>>[i] = p} = {1}
    OBVIOUS
  <2> QED
    BY <1>1, <2>1 DEF RxOf
<1>5. ASSUME NEW b PROVE TxOf(<<b>>, p) = IF b.owner = p THEN 1 ELSE 0
  <2>1. {i \in DOMAIN <<b>> : <<b>>[i].owner = p} = IF b.owner = p THEN {1} ELSE {}
    OBVIOUS
  <2> QED
    BY <1>1, <2>1 DEF TxOf
<1>6. ASSUME NEW a, NEW b, a.owner = p
      PROVE  TxOf(<<a, b>>, p) = IF b.owner = p THEN 2 ELSE 1
  <2>1. {i \in DOMAIN <<a, b>> : <<a, b>>[i].owner = p} = IF b.owner = p THEN {1, 2} ELSE {1}
    BY <1>6
  <2> QED
    BY <1>1, <2>1 DEF TxOf
<1> QED
  BY <1>2, <1>3, <1>4, <1>5, <1>6
\* What the uDMA has still to move of the transfer in the slot.
LEMMA ToMoveIs ==
  \A p : /\ ToMove(p) = TxOf(tx, p) + RxOf(rx, p)
         /\ ToMove(p)' = TxOf(tx', p) + RxOf(rx', p)
BY DEF ToMove, TxOf, RxOf

\* What the service sees of a state.
LEMMA Seen ==
  ASSUME IInv
  PROVE  /\ Service!Waiting = Elements(queue)
         /\ Elements(queue) \subseteq Thread
         /\ \A p \in Elements(queue) : p \notin Done
         /\ queue # <<>> => /\ Head(queue) \in Elements(queue)
                            /\ drv.slot = Head(queue)
<1>1. Service!Waiting = Elements(queue)
  BY DEF Service!Waiting, Elements
<1>2. \A p \in Elements(queue) : p \notin Done
  BY DEF IInv, Underway, Done
<1> QED
  BY <1>1, <1>2, QueueFacts DEF IInv

\* A step after which nothing is different for the service.
LEMMA Same ==
  ASSUME queue' = queue,
         \A p \in Elements(queue) : /\ call'[p] = call[p]
                                    /\ p = Head(queue) => ToMove(p)' = ToMove(p),
         Done' = Done
  PROVE  UNCHANGED Service!vars
<1>1. \A p \in Thread : Left(p)' = Left(p)
  BY DEF Left
<1> QED
  BY <1>1 DEF Service!vars

\* __pi_i2c_open, __pi_i2c_close, a detection that is refused and a caller that comes
\* to wait are stutters.
LEMMA MapStutter ==
  ASSUME IInv, NEW p \in Thread,
         Open(p) \/ Close(p) \/ Wait(p)
           \/ \E c \in PlainCall \cup EotCall : DetectRefused(p, c)
  PROVE  UNCHANGED Service!vars
<1>1. CASE Open(p) \/ Close(p) \/ Wait(p)
  <2>1. UNCHANGED <<queue, tx, rx, call, task>>
    BY <1>1 DEF Open, Close, Wait, app, udma
  <2>2. \A q \in Thread : pc'[q] = "detached" <=> pc[q] = "detached"
    <3>1. pc \in [Thread -> Pc]
      BY DEF IInv, TypeOK
    <3> QED
      BY <1>1, <3>1 DEF Open, Close, Wait, app
  <2>3. Done' = Done
    BY <2>1, <2>2 DEF Done
  <2>4. \A q \in Elements(queue) : ToMove(q)' = ToMove(q)
    BY <2>1, ToMoveIs
  <2> QED
    BY <2>1, <2>3, <2>4, Same
<1>2. ASSUME NEW c \in PlainCall \cup EotCall, DetectRefused(p, c)
      PROVE  UNCHANGED Service!vars
  <2>1. Called(p, c) /\ UNCHANGED <<tx, rx, queue>> /\ c.kind = "refused"
    BY <1>2 DEF DetectRefused, udma
  <2>2. pc'[p] # "detached"
    <3>1. c.api = "blocking"
      BY <2>1, CallAssumption
    <3>2. pc \in [Thread -> Pc]
      BY DEF IInv, TypeOK
    <3> QED
      BY <2>1, <3>1, <3>2 DEF Called
  <2>3. /\ p \notin Elements(queue) /\ pc[p] = "idle" /\ ~task[p].done /\ ~task'[p].done
        /\ \A q \in Thread \ {p} :
             pc'[q] = pc[q] /\ task'[q] = task[q] /\ call'[q] = call[q]
        /\ Elements(queue) \subseteq Thread
    BY <2>1, CalledFacts, Seen
  <2>4. Done' = Done
    BY <2>1, <2>2, <2>3 DEF Done
  <2>5. \A q \in Elements(queue) : ToMove(q)' = ToMove(q)
    BY <2>1, ToMoveIs
  <2> QED
    BY <2>1, <2>3, <2>4, <2>5, Same
<1> QED
  BY <1>1, <1>2

\* A transfer behind the head of the queue, or one the uDMA is given, has some
\* buffers.
LEMMA Some ==
  ASSUME NEW p \in Thread, NEW c, NEW s, NEW r,
         LET x == Request(c) IN
         /\ x.kind \in {"read", "write"} /\ x.size \in Nat
         /\ x.kind = "read" => s = <<Cmd(p)>> /\ r = <<p>>
         /\ x.kind = "write" /\ x.size = 0 => s = <<Cmd(p)>> /\ r = <<>>
         /\ x.kind = "write" /\ x.size > 0 => s = <<Cmd(p), Dat(p)>> /\ r = <<>>
  PROVE  TxOf(s, p) + RxOf(r, p) = Needed(c)
<1> DEFINE x == Request(c)
<1>1. /\ x.kind = "write" <=> c.kind = "write"
      /\ x.kind = "write" => x.size = c.size
  <2>1. CASE c.kind = "detect"
    BY <2>1 DEF Request
  <2>2. CASE c.kind # "detect"
    BY <2>2 DEF Request, Arguments
  <2> QED
    BY <2>1, <2>2
<1>2. CASE x.kind = "read"
  <2>1. Needed(c) = 2
    BY <1>1, <1>2 DEF Needed
  <2>2. TxOf(s, p) = 1 /\ RxOf(r, p) = 1
    BY <1>2, Counts
  <2> QED
    BY <2>1, <2>2
<1>3. CASE x.kind = "write" /\ x.size = 0
  <2>1. Needed(c) = 1
    BY <1>1, <1>3 DEF Needed
  <2>2. TxOf(s, p) = 1 /\ RxOf(r, p) = 0
    BY <1>3, Counts
  <2> QED
    BY <2>1, <2>2
<1>4. CASE x.kind = "write" /\ x.size > 0
  <2>1. Needed(c) = 2
    BY <1>1, <1>4 DEF Needed
  <2>2. TxOf(s, p) = 2 /\ RxOf(r, p) = 0
    BY <1>4, Counts
  <2> QED
    BY <2>1, <2>2
<1> QED
  BY <1>2, <1>3, <1>4

\* What a transfer that is started has to move.
LEMMA ExecCount ==
  ASSUME IInv, NEW d \in Driver, NEW p \in Thread, NEW c, Request(c) \in Data,
         Proper(Request(c)), Exec(d, p, Request(c)), tx = <<>>, rx = <<>>
  PROVE  ToMove(p)' = Needed(c)
<1> DEFINE x == Request(c)
<1>1. /\ x.kind = "read" => tx' = <<Cmd(p)>> /\ rx' = <<p>>
      /\ x.kind = "write" /\ x.size = 0 => tx' = <<Cmd(p)>> /\ rx' = <<>>
      /\ x.kind = "write" /\ x.size > 0 => tx' = <<Cmd(p), Dat(p)>> /\ rx' = <<>>
  BY ExecFacts
<1>2. x.kind \in {"read", "write"} /\ x.size \in Nat
  BY BuildAssumption DEF Data
<1>3. TxOf(tx', p) + RxOf(rx', p) = Needed(c)
  BY <1>1, <1>2, Some
<1> QED
  BY <1>3, ToMoveIs

\* A step that moves a buffer of the transfer in the slot.
LEMMA MapMove ==
  ASSUME IInv, NEW p \in Thread, queue # <<>>, p = Head(queue), p \in Elements(queue),
         UNCHANGED <<queue, call, pc, task>>,
         ToMove(p) \in Nat, ToMove(p)' \in Nat, ToMove(p)' < ToMove(p)
  PROVE  Service!Move("i2c")
<1>1. Left(p) = ToMove(p) /\ Left(p)' = ToMove(p)'
  BY DEF Left
<1>2. \A q \in Thread \ {p} : Left(q)' = Left(q)
  BY DEF Left
<1>3. /\ Lefts[p] = Left(p) /\ Lefts'[p] = Left(p)'
      /\ \A q \in Thread \ {p} : Lefts'[q] = Lefts[q]
  BY <1>2 DEF Lefts
<1>4. Lefts' = [Lefts EXCEPT ![p] = Lefts'[p]]
  <2>1. /\ Lefts = [q \in Thread |-> Lefts[q]]
        /\ Lefts' = [q \in Thread |-> Lefts'[q]]
    BY DEF Lefts
  <2> QED
    BY <1>3, <2>1
<1>5. Lefts'[p] \in Nat /\ Lefts'[p] < Lefts[p]
  BY <1>1, <1>3
<1>6. Lines["i2c"] = queue /\ Lines' = Lines
  BY DEF Lines
<1>7. Done' = Done
  BY DEF Done
<1> QED
  BY <1>4, <1>5, <1>6, <1>7 DEF Service!Move, Lines, Lefts

\* The uDMA executes a buffer: a fixed sequence is nobody's.
LEMMA MapUdmaTx ==
  ASSUME IInv, UdmaTx
  PROVE  Service!Move("i2c") \/ UNCHANGED Service!vars
<1> SUFFICES ASSUME NEW p, p = drv.slot
             PROVE  Service!Move("i2c") \/ UNCHANGED Service!vars
  OBVIOUS
<1>1. tx # <<>> /\ UNCHANGED <<pc, call, task, queue, rx>>
  BY DEF UdmaTx, app
<1>2. /\ p \in Thread /\ queue # <<>> /\ p = Head(queue) /\ p \in Elements(queue)
      /\ rx \in {<<>>, <<p>>}
  BY <1>1, BusFacts DEF Quiet, Stages
<1>3. /\ RxOf(rx, p) \in Nat /\ RxOf(rx', p) = RxOf(rx, p)
      /\ ToMove(p) = TxOf(tx, p) + RxOf(rx, p)
      /\ ToMove(p)' = TxOf(tx', p) + RxOf(rx', p)
  <2>1. RxOf(<<>>, p) = 0 /\ RxOf(<<p>>, p) = 1
    BY <1>2, Counts
  <2>2. RxOf(rx, p) \in Nat
    <3>1. CASE rx = <<>>
      BY <2>1, <3>1
    <3>2. CASE rx = <<p>>
      BY <2>1, <3>2
    <3> QED
      BY <1>2, <3>1, <3>2
  <2> QED
    BY <1>1, <2>2, ToMoveIs
<1>4. \/ TxOf(tx, p) \in Nat /\ TxOf(tx', p) \in Nat /\ TxOf(tx', p) < TxOf(tx, p)
      \/ \E f \in Final : tx = <<f>> /\ tx' = <<>>
  <2>1. CASE tx = <<Cmd(p), Dat(p)>> /\ tx' = <<Dat(p)>>
    <3>1. TxOf(tx, p) = 2 /\ TxOf(tx', p) = 1
      BY <1>2, <2>1, Counts
    <3> QED
      BY <3>1
  <2>2. CASE tx = <<Cmd(p)>> /\ tx' = <<>>
    <3>1. TxOf(tx, p) = 1 /\ TxOf(tx', p) = 0
      BY <1>2, <2>2, Counts
    <3> QED
      BY <3>1
  <2>3. CASE tx = <<Dat(p)>> /\ tx' = <<>>
    <3>1. TxOf(tx, p) = 1 /\ TxOf(tx', p) = 0
      BY <1>2, <2>3, Counts
    <3> QED
      BY <3>1
  <2>4. ASSUME NEW f \in Final, tx = <<Dat(p), f>> /\ tx' = <<f>>
        PROVE  TxOf(tx, p) = 1 /\ TxOf(tx', p) = 0
    BY <1>2, <2>4, Counts
  <2> QED
    BY <2>1, <2>2, <2>3, <2>4, UdmaTxStep
<1>5. CASE TxOf(tx, p) \in Nat /\ TxOf(tx', p) \in Nat /\ TxOf(tx', p) < TxOf(tx, p)
  <2>1. ToMove(p) \in Nat /\ ToMove(p)' \in Nat /\ ToMove(p)' < ToMove(p)
    BY <1>3, <1>5
  <2> QED
    BY <1>1, <1>2, <2>1, MapMove
<1>6. ASSUME NEW f \in Final, tx = <<f>>, tx' = <<>> PROVE UNCHANGED Service!vars
  <2>1. \A q \in Elements(queue) : ToMove(q)' = ToMove(q)
    <3>1. ASSUME NEW q \in Thread PROVE ToMove(q)' = ToMove(q)
      <4>1. TxOf(tx, q) = 0 /\ TxOf(tx', q) = 0
        BY <1>6, Counts
      <4> QED
        BY <1>1, <4>1, ToMoveIs
    <3> QED
      BY <3>1, Seen
  <2>2. Done' = Done
    BY <1>1 DEF Done
  <2> QED
    BY <1>1, <2>1, <2>2, Same
<1> QED
  BY <1>4, <1>5, <1>6

\* What was read has arrived.
LEMMA MapUdmaRx ==
  ASSUME IInv, UdmaRx
  PROVE  Service!Move("i2c")
<1> SUFFICES ASSUME NEW p, p = drv.slot
             PROVE  Service!Move("i2c")
  OBVIOUS
<1>1. rx = <<p>> /\ rx' = <<>> /\ UNCHANGED <<pc, call, task, queue, tx>>
  BY UdmaRxInv DEF UdmaRx, app
<1>2. /\ p \in Thread /\ queue # <<>> /\ p = Head(queue) /\ p \in Elements(queue)
      /\ Stages(p)
  BY UdmaRxInv, BusFacts
<1>3. RxOf(rx, p) = 1 /\ RxOf(rx', p) = 0
  BY <1>1, <1>2, Counts
<1>4. TxOf(tx, p) \in Nat
  <2>1. \/ tx = <<Cmd(p), Dat(p)>> \/ tx = <<Cmd(p)>> \/ tx = <<Dat(p)>> \/ tx = <<>>
        \/ \E f \in Final : tx = <<f>> \/ tx = <<Dat(p), f>>
    BY <1>2 DEF Stages, Moving, Stopping, Stopped
  <2>2. TxOf(tx, p) \in {0, 1, 2}
    <3> DEFINE N(s) == TxOf(s, p) \in {0, 1, 2}
    <3>1. /\ N(<<Cmd(p), Dat(p)>>) /\ N(<<Cmd(p)>>) /\ N(<<Dat(p)>>) /\ N(<<>>)
          /\ \A f \in Final : N(<<f>>) /\ N(<<Dat(p), f>>)
      BY <1>2, Counts
    <3> HIDE DEF N
    <3>2. N(tx)
      BY <2>1, <3>1
    <3> QED
      BY <3>2 DEF N
  <2> QED
    BY <2>2
<1>5. ToMove(p) = TxOf(tx, p) + 1 /\ ToMove(p)' = TxOf(tx, p)
  BY <1>1, <1>3, <1>4, ToMoveIs
<1> QED
  BY <1>1, <1>2, <1>4, <1>5, MapMove

\* The handlers that end nothing leave what the transfers have to move.
LEMMA MapFlags ==
  ASSUME IInv, HandlePending \/ SendStop \/ SendOnlyEot \/ Ignore
  PROVE  UNCHANGED Service!vars
<1>1. UNCHANGED <<pc, call, task, queue>>
  BY DEF HandlePending, SendStop, SendOnlyEot, Ignore, app
<1>2. ASSUME NEW q \in Elements(queue), q = Head(queue) PROVE ToMove(q)' = ToMove(q)
  <2>1. q \in Thread /\ q = drv.slot
    <3>1. queue # <<>>
      BY EmptyOnce
    <3> QED
      BY <1>2, <3>1, Seen
  <2>2. CASE HandlePending \/ Ignore
    <3>1. UNCHANGED <<tx, rx>>
      BY <2>2, HandlePendingInv, IgnoreInv
    <3> QED
      BY <3>1, ToMoveIs
  <2>3. CASE SendStop \/ SendOnlyEot
    <3>1. PICK f \in Final : \/ tx = <<>> /\ tx' = <<f>>
                             \/ tx = <<Dat(q)>> /\ tx' = <<Dat(q), f>>
      <4>1. CASE SendStop
        BY <2>1, <4>1, SendFinalInv DEF Final
      <4>2. CASE SendOnlyEot /\ ~SendStop
        BY <2>1, <4>2, SendFinalInv DEF Final
      <4> QED
        BY <2>3, <4>1, <4>2
    <3>2. rx' = rx
      BY <2>3 DEF SendStop, SendOnlyEot
    <3>3. TxOf(tx', q) = TxOf(tx, q)
      <4>1. CASE tx = <<>> /\ tx' = <<f>>
        <5>1. TxOf(tx, q) = 0 /\ TxOf(tx', q) = 0
          BY <2>1, <4>1, Counts
        <5> QED
          BY <5>1
      <4>2. CASE tx = <<Dat(q)>> /\ tx' = <<Dat(q), f>>
        <5>1. TxOf(tx, q) = 1 /\ TxOf(tx', q) = 1
          BY <2>1, <4>2, Counts
        <5> QED
          BY <5>1
      <4> QED
        BY <3>1, <4>1, <4>2
    <3> QED
      BY <3>2, <3>3, ToMoveIs
  <2> QED
    BY <2>2, <2>3
<1>3. Done' = Done
  BY <1>1 DEF Done
<1> QED
  BY <1>1, <1>2, <1>3, Same

\* An accepted transfer, given what it and those before it have to move.
LEMMA MapSubmit ==
  ASSUME IInv, NEW p \in Thread, NEW c \in PlainCall \cup EotCall, Submit(p, c),
         p \notin Elements(queue), Elements(queue') = Elements(queue) \cup {p},
         Left(p)' \in Nat \ {0},
         \A q \in Elements(queue) : Left(q)' = Left(q)
  PROVE  Service!Accept(p, "i2c")
<1>1. /\ queue' = Append(queue, p)
      /\ pc[p] = "idle" /\ ~task[p].done /\ ~task'[p].done
      /\ \A q \in Thread \ {p} : pc'[q] = pc[q] /\ task'[q] = task[q]
  BY CalledFacts DEF Submit
<1>2. Done' = Done /\ p \notin Done
  BY <1>1 DEF Done
<1>3. \A q \in Thread \ {p} : Left(q)' = Left(q)
  <2>1. \A q \in Thread \ {p} : q \notin Elements(queue) => Left(q)' = Left(q)
    BY DEF Left
  <2> QED
    BY <2>1
<1>4. Lefts' = [Lefts EXCEPT ![p] = Lefts'[p]] /\ Lefts'[p] \in Nat \ {0}
  <2>1. /\ Lefts = [q \in Thread |-> Lefts[q]]
        /\ Lefts' = [q \in Thread |-> Lefts'[q]]
    BY DEF Lefts
  <2>2. Lefts'[p] \in Nat \ {0} /\ \A q \in Thread \ {p} : Lefts'[q] = Lefts[q]
    BY <1>3 DEF Lefts
  <2> QED
    BY <2>1, <2>2
<1>5. Lines' = [Lines EXCEPT !["i2c"] = Append(Lines["i2c"], p)]
  BY <1>1 DEF Lines
<1>6. p \notin Service!Waiting
  BY Seen
<1> QED
  BY <1>2, <1>4, <1>5, <1>6 DEF Service!Accept, Lines, Lefts

\* A transfer or a detection on a free slot is accepted, and so is a transfer on a
\* busy one.
LEMMA MapAccept ==
  ASSUME ManagedCalls, IInv, NEW p \in Thread, NEW c \in PlainCall \cup EotCall,
         Start(p, c) \/ Detect(p, c) \/ Enqueue(p, c)
  PROVE  Service!Accept(p, "i2c")
<1>1. Needed(c) \in Nat \ {0}
  BY DEF Needed
<1>2. CASE Start(p, c) \/ Detect(p, c)
  <2>1. /\ queue = <<>> /\ queue' = <<p>> /\ Elements(queue') = {p} /\ drv.slot = NULL
        /\ Submit(p, c) /\ Exec(drv, p, Request(c))
    BY <1>2, StartInv, DetectInv
  <2>2. c \in (IF eot THEN EotCall ELSE PlainCall) /\ c.kind # "refused"
    BY <1>2, <2>1, CalledFacts DEF Submit, Start, Detect
  <2>3. /\ Proper(Request(c)) /\ Request(c) \in Data
        /\ tx = <<>> /\ rx = <<>> /\ drv \in Driver
    BY <2>1, <2>2, RequestFacts DEF IInv, TypeOK, OnBus, Quiet
  <2>4. ToMove(p)' = Needed(c)
    BY <2>1, <2>3, ExecCount
  <2>5. Head(queue') = p
    BY <2>1
  <2>6. Left(p)' = Needed(c)
    BY <2>1, <2>4, <2>5 DEF Left
  <2>7. Elements(queue) = {}
    BY <2>1, EmptyOnce
  <2> QED
    BY <1>1, <2>1, <2>6, <2>7, MapSubmit
<1>3. CASE Enqueue(p, c)
  <2>1. /\ queue # <<>> /\ Head(queue') = Head(queue)
        /\ Elements(queue') = Elements(queue) \cup {p} /\ p \notin Elements(queue)
        /\ Submit(p, c) /\ UNCHANGED <<tx, rx>>
    BY <1>3, EnqueueInv
  <2>2. /\ call'[p] = c /\ \A q \in Thread \ {p} : call'[q] = call[q]
        /\ Head(queue) \in Elements(queue) /\ Elements(queue) \subseteq Thread
    BY <2>1, CalledFacts, Seen DEF Submit
  <2>3. Left(p)' = Needed(c)
    <3>1. Left(p)' = Needed(call'[p])
      BY <2>1, <2>2 DEF Left, Needed
    <3> QED
      BY <2>2, <3>1
  <2>4. ASSUME NEW q \in Elements(queue) PROVE Left(q)' = Left(q)
    <3>1. ToMove(q)' = ToMove(q)
      BY <2>1, ToMoveIs
    <3> QED
      BY <2>1, <2>2, <3>1 DEF Left, Needed
  <2> QED
    BY <1>1, <2>1, <2>3, <2>4, MapSubmit
<1> QED
  BY <1>2, <1>3

\* A caller that has been reported prepares for its next transfer.
LEMMA MapWaitOn ==
  ASSUME IInv, NEW p \in Thread, WaitOn(p)
  PROVE  Service!Begin(p)
<1>1. /\ p \notin Elements(queue) /\ pc[p] = "wait"
      /\ task' = [task EXCEPT ![p] = PiTaskZero] /\ pc' = [pc EXCEPT ![p] = "idle"]
      /\ call' = [call EXCEPT ![p] = CallZero] /\ UNCHANGED <<tx, rx, queue>>
  BY WaitOnInv DEF WaitOn, udma
<1>2. /\ \A q \in Thread \ {p} : task'[q] = task[q] /\ pc'[q] = pc[q] /\ call'[q] = call[q]
      /\ ~task'[p].done /\ pc'[p] = "idle"
  BY <1>1 DEF IInv, TypeOK, PiTaskZero
<1>3. Done' = Done \ {p}
  BY <1>1, <1>2 DEF Done
<1>4. \A q \in Thread : Left(q)' = Left(q)
  <2>1. \A q \in Thread : ToMove(q)' = ToMove(q)
    BY <1>1, ToMoveIs
  <2> QED
    BY <1>1, <1>2, <2>1 DEF Left, Needed
<1>5. p \notin Service!Waiting
  BY <1>1, Seen
<1> QED
  BY <1>1, <1>3, <1>4, <1>5 DEF Service!Begin

\* The end of the transfer in the slot.
LEMMA MapEnd ==
  ASSUME IInv, TxEnd \/ EotEnd
  PROVE  Service!Complete("i2c")
<1> SUFFICES ASSUME NEW t, t = drv.slot, NEW n, n = drv.fifo_head
             PROVE  Service!Complete("i2c")
  OBVIOUS
<1>1. /\ t \in Thread /\ t = Head(queue) /\ t \in Elements(queue) /\ queue # <<>>
      /\ queue' = Fifo /\ Elements(queue') = Elements(queue) \ {t} /\ queue' = Tail(queue)
      /\ tx = <<>> /\ rx = <<>> /\ UNCHANGED <<pc, call>>
      /\ task' = IF task[t].id = "PI_TASK_NONE_ID"
                   THEN [task EXCEPT ![t] = PiTaskRelease(task[t])] ELSE task
      /\ n = NULL <=> Fifo = <<>>
  BY EndStep DEF Fifo
<1>2. Left(t) = 0
  <2>1. ToMove(t) = 0
    <3>1. TxOf(tx, t) = 0 /\ RxOf(rx, t) = 0
      BY <1>1, Counts
    <3> QED
      BY <3>1, ToMoveIs
  <2> QED
    BY <1>1, <2>1 DEF Left
<1>3. \A q \in Thread : Left(q)' = Left(q)
  <2>1. ASSUME NEW q \in Thread, q \notin Elements(queue') PROVE Left(q)' = Left(q)
    BY <1>1, <1>2, <2>1 DEF Left
  <2>2. ASSUME NEW q \in Elements(queue'), q # n PROVE Left(q)' = Left(q)
    <3>1. n # NULL
      BY <1>1, <2>2, EmptyOnce
    <3>2. n = Head(queue')
      BY <1>1, <3>1, EndStep
    <3> QED
      BY <1>1, <2>2, <3>2 DEF Left, Needed
  <2>3. CASE n # NULL
    <3>1. /\ n \in Thread /\ n = Head(queue') /\ n \in Elements(queue) \ {t}
          /\ \E d \in Driver : Exec(d, n, Request(call[n]))
          /\ Request(call[n]) \in Data /\ Proper(Request(call[n]))
      BY <1>1, <2>3, EndStep
    <3>2. ToMove(n)' = Needed(call[n])
      <4>1. PICK d \in Driver : Exec(d, n, Request(call[n]))
        BY <3>1
      <4> DEFINE c == call[n]
      <4>2. Exec(d, n, Request(c)) /\ Request(c) \in Data /\ Proper(Request(c))
        BY <3>1, <4>1
      <4> HIDE DEF c
      <4>3. ToMove(n)' = Needed(c)
        BY <1>1, <3>1, <4>2, ExecCount
      <4> QED
        BY <4>3 DEF c
    <3>3. Left(n)' = Needed(call[n]) /\ Left(n) = Needed(call[n])
      BY <1>1, <3>1, <3>2 DEF Left
    <3> QED
      BY <2>1, <2>2, <3>3
  <2>4. CASE n = NULL
    BY <1>1, <2>1, <2>4, EmptyOnce
  <2> QED
    BY <2>3, <2>4
<1>4. Done' = Done \cup {t}
  <2>1. task \in [Thread -> PiTaskT]
    BY DEF IInv, TypeOK
  <2>2. \A q \in Thread \ {t} : task'[q] = task[q]
    BY <1>1, <2>1
  <2>3. task'[t].done \/ pc'[t] = "detached"
    <3>1. task[t].id = "PI_TASK_NONE_ID" \/ pc[t] = "detached"
      BY <1>1 DEF IInv, Underway
    <3>2. task[t].id = "PI_TASK_NONE_ID" => task'[t].done
      BY <1>1, <2>1 DEF PiTaskRelease, PiTaskT
    <3> QED
      BY <1>1, <3>1, <3>2
  <2> QED
    BY <1>1, <2>2, <2>3 DEF Done
<1>5. /\ Lines["i2c"] = queue /\ Lefts[t] = 0 /\ Lefts' = Lefts
      /\ Lines' = [Lines EXCEPT !["i2c"] = Tail(Lines["i2c"])]
  BY <1>1, <1>2, <1>3 DEF Lines, Lefts
<1> QED
  BY <1>1, <1>4, <1>5 DEF Service!Complete, Lines, Lefts

\* The driver implements TransferService, in both builds: none overtakes another,
\* each is over once, in its turn and after its own buffers have moved
\* (i2c.c 350-418).
THEOREM Implementation == ASSUME ManagedCalls PROVE Spec => ImplementsService
<1>1. Init => Service!Init
  <2> SUFFICES ASSUME Init PROVE Service!Init
    OBVIOUS
  <2>1. queue = <<>> /\ Elements(queue) = {}
    BY EmptyOnce DEF Init
  <2>2. \A p \in Thread : Left(p) = 0
    BY <2>1 DEF Left
  <2>3. Done = {}
    BY DEF Init, Done, PiTaskZero
  <2> QED
    BY <2>1, <2>2, <2>3 DEF Service!Init
<1>2. IInv /\ [Next]_vars => [Service!Next]_(Service!vars)
  <2> SUFFICES ASSUME IInv, [Next]_vars PROVE [Service!Next]_(Service!vars)
    OBVIOUS
  <2>1. ASSUME NEW p \in Thread,
               Open(p) \/ Close(p) \/ Wait(p)
                 \/ \E c \in PlainCall \cup EotCall : DetectRefused(p, c)
        PROVE  UNCHANGED Service!vars
    BY <2>1, MapStutter
  <2>2. ASSUME NEW p \in Thread, NEW c \in PlainCall \cup EotCall,
               Start(p, c) \/ Detect(p, c) \/ Enqueue(p, c)
        PROVE  Service!Next
    BY <2>2, MapAccept DEF Service!Next
  <2>3. ASSUME NEW p \in Thread, WaitOn(p) PROVE Service!Next
    BY <2>3, MapWaitOn DEF Service!Next
  <2>4. CASE UdmaTx \/ UdmaRx
    BY <2>4, MapUdmaTx, MapUdmaRx DEF Service!Next
  <2>5. CASE HandlePending \/ SendStop \/ SendOnlyEot \/ Ignore
    BY <2>5, MapFlags
  <2>6. CASE TxEnd \/ EotEnd
    BY <2>6, MapEnd DEF Service!Next
  <2>7. CASE UNCHANGED vars
    <3>1. UNCHANGED <<queue, tx, rx, call, pc, task>>
      BY <2>7 DEF vars, app, udma
    <3>2. Done' = Done /\ \A q \in Elements(queue) : ToMove(q)' = ToMove(q)
      BY <3>1, ToMoveIs DEF Done
    <3> QED
      BY <3>1, <3>2, Same
  <2> QED
    BY <2>1, <2>2, <2>3, <2>4, <2>5, <2>6, <2>7 DEF Next, Handler
<1>3. Spec => Service!Spec
  BY <1>1, <1>2, Invariance, PTL DEF Spec, Service!Spec
<1> QED
  BY <1>3 DEF ImplementsService


=============================================================================
