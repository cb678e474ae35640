------------------------------ MODULE SpiProofs ------------------------------
(***************************************************************************)
(* Theorems about Spi, for any number of devices, any calls, any interface  *)
(* and any outcome of the opens: its types, the fifo, the uDMA, what an     *)
(* open device keeps, that the driver implements TransferService, and that  *)
(* nobody waits in vain.                                                   *)
(***************************************************************************)
EXTENDS SpiRefinement, TaskFifoProofs, FiniteSetTheorems

(***************************************************************************)
(* The inductive invariant                                                 *)
(***************************************************************************)

\* A thread whose transfer is in the queue is in a call on an open device, not
\* reported, and asks for something to be moved.
Underway ==
  \A p \in Elements(queue) :
    /\ p \in opened /\ pc[p] \in {"wait", "sent", "detached"} /\ ~task[p].done
    /\ task[p].id = "PI_TASK_NONE_ID" \/ pc[p] = "detached"
    /\ call[p].kind \in {"send", "receive"} /\ call[p].len > 0

\* What the handler rebuilds the call of a transfer in the fifo from.
Prepared ==
  \A p \in Elements(queue) :
    p # drv.end_of_transfer =>
      data[p] = [cs_data |-> device[p], len |-> call[p].len,
                 is_send |-> IsSend(call[p].kind)]

\* An open device has the interface, and, as the list of chip selects is empty, one of
\* its own.
Served ==
  \A p \in opened : /\ attached /\ device[p] \in live
                    /\ \A q \in opened \ {p} : device[q] # device[p]

\* Every open device is counted, and the list of chip selects is empty.
Counted ==
  /\ drv.cs_list = NULL
  /\ Cardinality(opened) <= drv.nb_open
  /\ ~attached => drv = DriverZero

\* Driver data that have a fifo know their interface, and so do those with which
\* transfers are under way; others are where the driver is led astray.
Whole ==
  /\ drv.fifo \/ queue # <<>> => drv.device_id = itf
  /\ fault # "none" => ~drv.fifo \/ (fault = "struck" /\ itf = 0)

\* A thread out of the driver starts with a notification that is not given.
Fresh == \A p \in Thread : pc[p] \in {"idle", "aborted"} => ~task[p].done

IInv == /\ TypeOK /\ QueueLinked /\ BusOwned /\ Once(queue)
        /\ Underway /\ Prepared /\ Served /\ Counted /\ Whole /\ Fresh

(***************************************************************************)
(* The queue                                                               *)
(***************************************************************************)

\* The part of the queue that is in the fifo.
Fifo == IF queue = <<>> THEN <<>> ELSE Tail(queue)

\* The slot holds the head of the queue, and the fifo what is behind it.
LEMMA QueueFacts ==
  ASSUME TypeOK, QueueLinked, Once(queue)
  PROVE  /\ queue \in Seq(Thread) /\ Elements(queue) \subseteq Thread
         /\ drv.end_of_transfer = NULL <=> queue = <<>>
         /\ queue # <<>> => /\ drv.end_of_transfer = Head(queue)
                            /\ Head(queue) = queue[1]
                            /\ Head(queue) \in Elements(queue)
         /\ Fifo \in Seq(Thread) /\ Once(Fifo)
         /\ Elements(Fifo) = Elements(queue) \ {drv.end_of_transfer}
         /\ Represents(Fifo, drv.fifo_head, drv.fifo_tail, next, NULL)
         /\ drv.fifo_head = NULL <=> Fifo = <<>>
         /\ Fifo # <<>> => /\ drv.fifo_head = Head(Fifo) /\ drv.fifo_head \in Elements(Fifo)
                           /\ drv.fifo_tail \in Elements(Fifo)
<1>1. queue \in Seq(Thread) /\ NULL \notin Thread
  BY ThreadAssumption DEF TypeOK
<1>2. Elements(queue) \subseteq Thread
  BY <1>1, LenProperties, ElementOfSeq DEF Elements
<1>3. Represents(Fifo, drv.fifo_head, drv.fifo_tail, next, NULL)
  BY DEF QueueLinked, Fifo
<1>4. CASE queue = <<>>
  <2>1. Fifo = <<>> /\ drv.end_of_transfer = NULL
    BY <1>4 DEF Fifo, QueueLinked
  <2>2. Elements(<<>>) = {} /\ Once(<<>>) /\ <<>> \in Seq(Thread)
    BY EmptyOnce, EmptySeq
  <2>3. drv.fifo_head = NULL
    BY <1>3, <2>1 DEF Represents
  <2> QED
    BY <1>1, <1>3, <1>4, <2>1, <2>2, <2>3
<1>5. CASE queue # <<>>
  <2>1. Fifo = Tail(queue) /\ drv.end_of_transfer = Head(queue)
    BY <1>5 DEF Fifo, QueueLinked
  <2>2. /\ Tail(queue) \in Seq(Thread) /\ Once(Tail(queue))
        /\ Head(queue) = queue[1] /\ queue[1] \in Elements(queue) /\ queue[1] \in Thread
        /\ Elements(Tail(queue)) = Elements(queue) \ {Head(queue)}
    BY <1>1, <1>5, TailOnce
  <2>3. /\ drv.fifo_head = NULL <=> Fifo = <<>>
        /\ Fifo # <<>> => /\ drv.fifo_head = Head(Fifo) /\ drv.fifo_head = Fifo[1]
                          /\ drv.fifo_tail \in Elements(Fifo)
    <3> DEFINE f == Fifo
               h == drv.fifo_head
               l == drv.fifo_tail
    <3>1. f \in Seq(Thread) /\ NULL \notin Thread /\ Represents(f, h, l, next, NULL)
      BY <1>1, <1>3, <2>1, <2>2
    <3> HIDE DEF f, h, l
    <3>2. /\ h = NULL <=> f = <<>>
          /\ f # <<>> => h = Head(f) /\ h = f[1] /\ l \in Elements(f)
      BY <3>1, RepresentsEnds
    <3> QED
      BY <3>2 DEF f, h, l
  <2>4. Fifo # <<>> => Fifo[1] \in Elements(Fifo)
    BY <2>1, <2>2, TailOnce
  <2> QED
    BY <1>1, <1>2, <1>3, <1>5, <2>1, <2>2, <2>3, <2>4
<1> QED
  BY <1>4, <1>5

\* What is in the uDMA is the transfer in the slot, alone.
LEMMA BusFacts ==
  ASSUME TypeOK, QueueLinked, Once(queue), BusOwned
  PROVE  /\ Len(spim) \in Nat /\ eot \in Nat /\ DOMAIN spim = 1..Len(spim)
         /\ (spim # <<>> \/ eot > 0) =>
              /\ queue # <<>> /\ drv.end_of_transfer # NULL
              /\ drv.end_of_transfer \in Elements(queue)
              /\ Len(spim) + eot = 1
         /\ spim # <<>> => Len(spim) = 1 /\ eot = 0 /\ Tail(spim) = <<>>
         /\ eot > 0 => spim = <<>> /\ eot = 1
         /\ queue = <<>> => spim = <<>> /\ eot = 0
<1>1. /\ Len(spim) \in Nat /\ eot \in Nat /\ DOMAIN spim = 1..Len(spim)
      /\ spim = <<>> <=> Len(spim) = 0
  BY LenProperties, EmptySeq DEF TypeOK
<1>2. Len(spim) + eot = IF drv.end_of_transfer = NULL THEN 0 ELSE 1
  BY DEF BusOwned
<1>3. spim # <<>> => Len(Tail(spim)) = Len(spim) - 1 /\ Tail(spim) \in Seq(Programmed)
  BY HeadTailProperties DEF TypeOK
<1>4. spim # <<>> /\ Len(spim) = 1 => Tail(spim) = <<>>
  <2> SUFFICES ASSUME spim # <<>>, Len(spim) = 1 PROVE Tail(spim) = <<>>
    OBVIOUS
  <2> DEFINE t == Tail(spim)
  <2>1. t \in Seq(Programmed) /\ Len(t) = 0
    BY <1>3
  <2> HIDE DEF t
  <2>2. t = <<>>
    BY <2>1, EmptySeq
  <2> QED
    BY <2>2 DEF t
<1> QED
  BY <1>1, <1>2, <1>4, QueueFacts

\* Those in the queue are in the driver.
LEMMA OutOfQueue ==
  ASSUME IInv, NEW p \in Thread, pc[p] \in {"idle", "aborted"} \/ task[p].done
  PROVE  p \notin Elements(queue)
BY DEF IInv, Underway

\* Steps that leave the queue, the slot and the uDMA alone, and of those in the
\* queue all but where they wait.
LEMMA Frame ==
  ASSUME IInv, queue' = queue, spim' = spim, eot' = eot,
         drv'.end_of_transfer = drv.end_of_transfer,
         drv'.fifo_head = drv.fifo_head, drv'.fifo_tail = drv.fifo_tail,
         \A q \in Elements(queue) :
           /\ q \in opened' /\ pc'[q] \in {"wait", "sent", "detached"}
           /\ pc[q] = "detached" => pc'[q] = "detached"
           /\ task'[q] = task[q] /\ call'[q] = call[q] /\ data'[q] = data[q]
           /\ next'[q] = next[q] /\ device'[q] = device[q]
  PROVE  QueueLinked' /\ BusOwned' /\ Once(queue)' /\ Underway' /\ Prepared'
<1>1. Once(queue)' /\ Underway' /\ Prepared'
  BY DEF IInv, Underway, Prepared, Once
<1>2. QueueLinked'
  <2>1. /\ Represents(Fifo, drv.fifo_head, drv.fifo_tail, next, NULL)
        /\ Elements(Fifo) \subseteq Elements(queue)
    BY QueueFacts DEF IInv
  <2>2. Represents(Fifo, drv.fifo_head, drv.fifo_tail, next', NULL)
    BY <2>1, RepresentsFrame
  <2> QED
    BY <2>2 DEF IInv, QueueLinked, Fifo
<1>3. BusOwned'
  <2>1. spim # <<>> => drv.end_of_transfer \in Elements(queue)
    BY BusFacts DEF IInv
  <2>2. DOMAIN spim = 1..Len(spim) /\ (spim = <<>> => Len(spim) = 0)
    BY BusFacts DEF IInv
  <2>3. \A i \in DOMAIN spim : spim # <<>>
    BY <2>2
  <2> QED
    BY <2>1, <2>3 DEF IInv, BusOwned
<1> QED
  BY <1>1, <1>2, <1>3

(***************************************************************************)
(* Opening and closing                                                     *)
(***************************************************************************)

\* Whether it is attached or not, an open counts, knows its interface if it has a
\* fifo, changes nothing of the list of transfers, and finds no chip select.
LEMMA OpenDriver ==
  ASSUME TypeOK, Counted, Whole
  PROVE  /\ drv \in Driver /\ DriverAfterOpen(drv) \in Driver
         /\ DriverAfterOpen(drv).nb_open = drv.nb_open + 1
         /\ DriverAfterOpen(drv).cs_list = NULL
         /\ DriverAfterOpen(drv).end_of_transfer = drv.end_of_transfer
         /\ DriverAfterOpen(drv).fifo_head = drv.fifo_head
         /\ DriverAfterOpen(drv).fifo_tail = drv.fifo_tail
         /\ DriverAfterOpen(drv).fifo \/ queue # <<>> =>
              DriverAfterOpen(drv).device_id = itf
         /\ \A c : GetCsData(DriverAfterOpen(drv), c) = NULL
         /\ \A c : GetCsData(drv, c) = NULL
         /\ \A b : CsList(DriverAfterOpen(drv), b) = NULL
         /\ [DriverAfterOpen(drv) EXCEPT !.cs_list = NULL] = DriverAfterOpen(drv)
<1> DEFINE d == DriverAfterOpen(drv)
<1>1. drv \in Driver /\ drv.cs_list = NULL /\ itf \in Nat
  BY UseAssumption DEF TypeOK, Counted
<1>2. CASE attached
  <2>1. d = [drv EXCEPT !.nb_open = @ + 1]
    BY <1>2 DEF DriverAfterOpen
  <2> HIDE DEF d
  <2>2. /\ d \in Driver /\ d.nb_open = drv.nb_open + 1 /\ d.cs_list = NULL
        /\ d.end_of_transfer = drv.end_of_transfer /\ d.fifo_head = drv.fifo_head
        /\ d.fifo_tail = drv.fifo_tail
        /\ d.fifo = drv.fifo /\ d.device_id = drv.device_id
    BY <1>1, <2>1 DEF Driver
  <2>3. /\ \A c : GetCsData(d, c) = NULL /\ GetCsData(drv, c) = NULL
        /\ \A b : CsList(d, b) = NULL
    BY <1>1, <2>2 DEF GetCsData, CsList
  <2>4. [d EXCEPT !.cs_list = NULL] = d
    BY <2>2 DEF Driver
  <2>5. d.fifo \/ queue # <<>> => d.device_id = itf
    BY <2>2 DEF Whole
  <2> QED
    BY <1>1, <2>2, <2>3, <2>4, <2>5, Zenon DEF d
<1>3. CASE ~attached
  <2>1. d = [DriverData EXCEPT !.nb_open = @ + 1]
    BY <1>3, Zenon DEF DriverAfterOpen
  <2>2. drv = DriverZero
    BY <1>3 DEF Counted
  <2> HIDE DEF d
  <2>3. /\ d \in Driver /\ d.nb_open = drv.nb_open + 1 /\ d.cs_list = NULL
        /\ d.end_of_transfer = drv.end_of_transfer /\ d.fifo_head = drv.fifo_head
        /\ d.fifo_tail = drv.fifo_tail /\ d.device_id = itf
    <3>1. /\ DriverZero \in Driver /\ DriverZero.nb_open = 0 /\ DriverZero.cs_list = NULL
          /\ DriverZero.end_of_transfer = NULL /\ DriverZero.fifo_head = NULL
          /\ DriverZero.fifo_tail = NULL
      BY DEF Driver, DriverZero
    <3> DEFINE e == [DriverZero EXCEPT !.fifo = TRUE]
    <3>2. /\ e \in Driver /\ e.nb_open = 0 /\ e.cs_list = NULL
          /\ e.end_of_transfer = NULL /\ e.fifo_head = NULL /\ e.fifo_tail = NULL
      BY <3>1 DEF Driver
    <3>3. DriverData = [e EXCEPT !.device_id = itf]
      BY DEF DriverData
    <3> HIDE DEF e
    <3>4. /\ DriverData \in Driver /\ DriverData.nb_open = 0 /\ DriverData.cs_list = NULL
          /\ DriverData.end_of_transfer = NULL /\ DriverData.fifo_head = NULL
          /\ DriverData.fifo_tail = NULL /\ DriverData.device_id = itf
      BY <1>1, <3>2, <3>3 DEF Driver
    <3> QED
      BY <2>1, <2>2, <3>1, <3>4 DEF Driver
  <2>4. /\ \A c : GetCsData(d, c) = NULL /\ GetCsData(drv, c) = NULL
        /\ \A b : CsList(d, b) = NULL
    BY <1>1, <2>3 DEF GetCsData, CsList
  <2>5. [d EXCEPT !.cs_list = NULL] = d
    BY <2>3 DEF Driver
  <2> QED
    BY <1>1, <2>3, <2>4, <2>5, Zenon DEF d
<1> QED
  BY <1>2, <1>3

\* The open devices can be counted.
LEMMA OpenedFinite ==
  ASSUME opened \subseteq Thread
  PROVE  IsFiniteSet(opened) /\ Cardinality(opened) \in Nat
BY ThreadAssumption, FS_Subset, FS_CardinalityType

\* A first open that runs out of memory has no device to affect.
LEMMA NullReturnInv ==
  ASSUME IInv, NEW p \in Thread, Open(p), NoData \/ NoFifo
  PROVE  IInv'
<1>1. /\ ~attached /\ fault' \in {"none", "null"} /\ fault = "none"
      /\ UNCHANGED <<pc, call, task, data, next, memory, itf, spim, eot, queue>>
      /\ drv' = DriverZero
  BY DEF Open, NoData, NoFifo, NullReturn, app, IInv, Counted
<1>2. opened = {} /\ drv = DriverZero /\ drv' = drv /\ attached' \in BOOLEAN
  BY <1>1 DEF NoData, NoFifo, IInv, Served, Counted, TypeOK
<1>3. TypeOK'
  BY <1>1, <1>2 DEF IInv, TypeOK, memory, Fault
<1>4. /\ QueueLinked' /\ BusOwned' /\ Once(queue)' /\ Underway' /\ Prepared' /\ Served'
      /\ Fresh'
  BY <1>1, <1>2 DEF IInv, QueueLinked, BusOwned, Once, Underway, Prepared, Served,
                    Fresh, memory
<1>5. Counted' /\ Whole'
  BY <1>1, <1>2 DEF IInv, Counted, Whole, memory, DriverZero
<1> QED
  BY <1>3, <1>4, <1>5 DEF IInv

\* pi_spi_open.
LEMMA OpenInv ==
  ASSUME IInv, NEW p \in Thread, Open(p)
  PROVE  IInv'
<1> SUFFICES ASSUME OpenCs(p, DriverAfterOpen(drv)) PROVE IInv'
  BY NullReturnInv DEF Open
<1> DEFINE d == DriverAfterOpen(drv)
<1>1. /\ d \in Driver /\ drv \in Driver /\ d.nb_open = drv.nb_open + 1
      /\ d.cs_list = NULL /\ d.end_of_transfer = drv.end_of_transfer
      /\ d.fifo_head = drv.fifo_head /\ d.fifo_tail = drv.fifo_tail
      /\ d.fifo \/ queue # <<>> => d.device_id = itf
      /\ GetCsData(d, ChipSelect[p]) = NULL
      /\ \A b : CsList(d, b) = NULL
      /\ [d EXCEPT !.cs_list = NULL] = d
  BY OpenDriver DEF IInv
<1> HIDE DEF d
<1>2. /\ pc[p] = "idle" /\ p \notin opened /\ attached' = TRUE
      /\ fault = "none" /\ UNCHANGED <<itf, fault>>
      /\ UNCHANGED <<pc, call, task, data, next, spim, eot, queue>>
      /\ drv' = d
      /\ \/ /\ live # CsBlock /\ live' = live \cup {New}
            /\ cs' = [cs EXCEPT ![New] = [next |-> d.cs_list, cs |-> ChipSelect[p]]]
            /\ device' = [device EXCEPT ![p] = New]
            /\ opened' = opened \cup {p}
         \/ /\ device' = [device EXCEPT ![p] = NULL]
            /\ UNCHANGED <<opened, live, cs>>
         \/ /\ live # CsBlock /\ live' = live \cup {New}
            /\ device' = [device EXCEPT ![p] = NULL]
            /\ UNCHANGED <<opened, cs>>
  BY <1>1 DEF Open, OpenCs, d, app
<1>3. live # CsBlock => New \in CsBlock /\ New \notin live
  BY DEF New, IInv, TypeOK
<1>5. TypeOK'
  <2>1. /\ device' \in [Thread -> CsBlock \cup {NULL}]
        /\ opened' \subseteq Thread /\ live' \subseteq CsBlock
    BY <1>2, <1>3 DEF IInv, TypeOK
  <2>2. cs' \in [CsBlock -> CsData]
    <3>1. [next |-> d.cs_list, cs |-> ChipSelect[p]] \in CsData
      BY <1>1, ChipSelectAssumption DEF CsData
    <3> QED
      BY <1>2, <1>3, <3>1 DEF IInv, TypeOK
  <2> QED
    BY <1>1, <1>2, <2>1, <2>2 DEF IInv, TypeOK
<1>6. QueueLinked' /\ BusOwned' /\ Once(queue)' /\ Underway' /\ Prepared'
  <2>1. \A q \in Elements(queue) : /\ q \in opened /\ q # p /\ q \in Thread
                                   /\ pc[q] \in {"wait", "sent", "detached"}
    BY <1>2, QueueFacts DEF IInv, Underway
  <2>2. \A q \in Elements(queue) : q \in opened' /\ device'[q] = device[q]
    BY <1>2, <2>1 DEF IInv, TypeOK
  <2> QED
    BY <1>1, <1>2, <2>1, <2>2, Frame
<1>7. Served'
  <2>1. \A q \in opened : q # p /\ q \in Thread
    BY <1>2 DEF IInv, TypeOK
  <2>2. device \in [Thread -> CsBlock \cup {NULL}]
    BY DEF IInv, TypeOK
  <2> QED
    BY <1>2, <1>3, <2>1, <2>2 DEF IInv, Served
<1>8. Counted'
  <2>1. IsFiniteSet(opened) /\ Cardinality(opened) \in Nat
    BY OpenedFinite DEF IInv, TypeOK
  <2>2. Cardinality(opened \cup {p}) = Cardinality(opened) + 1
    BY <1>2, <2>1, FS_AddElement
  <2>3. drv.nb_open \in Nat
    BY <1>1 DEF Driver
  <2>4. Cardinality(opened') <= drv.nb_open + 1
    <3>1. opened' = opened \/ opened' = opened \cup {p}
      BY <1>2
    <3>2. Cardinality(opened) <= drv.nb_open
      BY DEF IInv, Counted
    <3>3. \/ Cardinality(opened') = Cardinality(opened)
          \/ Cardinality(opened') = Cardinality(opened) + 1
      <4>1. CASE opened' = opened
        BY <4>1
      <4>2. CASE opened' = opened \cup {p}
        BY <2>2, <4>2, Zenon
      <4> QED
        BY <3>1, <4>1, <4>2
    <3> QED
      BY <2>1, <2>3, <3>2, <3>3
  <2> QED
    BY <1>1, <1>2, <2>4 DEF Counted
<1>9. Whole'
  BY <1>1, <1>2 DEF Whole
<1>10. Fresh'
  BY <1>2 DEF IInv, Fresh
<1> QED
  BY <1>5, <1>6, <1>7, <1>8, <1>9, <1>10 DEF IInv

\* pi_spi_close: only the last one, when no transfer is left, detaches.
LEMMA CloseInv ==
  ASSUME IInv, NEW p \in Thread, Close(p)
  PROVE  IInv' /\ UNCHANGED <<queue, spim, pc, call, task>>
<1>1. /\ p \in opened /\ pc[p] = "idle" /\ opened' = opened \ {p}
      /\ fault = "none" /\ UNCHANGED itf
      /\ device' = [device EXCEPT ![p] = NULL]
      /\ UNCHANGED <<pc, call, task, data, next, spim, eot>>
  BY DEF Close, app
<1>2. /\ drv \in Driver /\ drv.nb_open \in Nat
      /\ CsAfterDel(drv, cs[device[p]].cs) = cs
  BY OpenDriver DEF IInv, CsAfterDel, Driver
<1>3. device[p] \in live /\ live \subseteq CsBlock /\ p \in Thread
  BY <1>1 DEF IInv, Served, TypeOK
<1>4. IsFiniteSet(opened) /\ Cardinality(opened) \in Nat
  BY OpenedFinite DEF IInv, TypeOK
<1>5. Cardinality(opened \ {p}) = Cardinality(opened) - 1
  BY <1>1, <1>4, FS_RemoveElement
<1>6. Cardinality(opened) <= drv.nb_open
  BY DEF IInv, Counted
<1>7. \A q \in Elements(queue) : /\ q \in opened /\ q # p /\ q \in Thread
                                 /\ pc[q] \in {"wait", "sent", "detached"}
  BY <1>1, QueueFacts DEF IInv, Underway
<1>8. drv.nb_open - 1 = 0 => opened \ {p} = {} /\ queue = <<>>
  <2> SUFFICES ASSUME drv.nb_open - 1 = 0 PROVE opened \ {p} = {} /\ queue = <<>>
    OBVIOUS
  <2>1. opened \ {p} = {}
    <3>1. IsFiniteSet(opened \ {p}) /\ Cardinality(opened \ {p}) = 0
      <4>1. IsFiniteSet(opened \ {p})
        BY <1>4, FS_RemoveElement
      <4>2. Cardinality(opened \ {p}) \in Nat
        BY <4>1, FS_CardinalityType
      <4> QED
        BY <1>2, <1>4, <1>5, <1>6, <4>1, <4>2
    <3> QED
      BY <3>1, FS_EmptySet
  <2>2. queue = <<>>
    <3>1. queue # <<>> => Head(queue) \in Elements(queue)
      BY QueueFacts DEF IInv
    <3> QED
      BY <1>7, <2>1, <3>1
  <2> QED
    BY <2>1, <2>2
<1>9. CASE drv.nb_open - 1 = 0 /\ drv.device_id = itf
  <2>1. opened \ {p} = {} /\ queue = <<>>
    BY <1>8, <1>9
  <2>2. queue = <<>>
    BY <2>1
  <2>3. /\ cs' = cs /\ attached' = FALSE /\ drv' = DriverZero /\ queue' = <<>>
        /\ live' = live /\ fault' = fault
    BY <1>2, <1>9 DEF Close
  <2>4. drv.end_of_transfer = NULL /\ drv.fifo_head = NULL /\ drv.fifo_tail = NULL
    <3>1. drv.end_of_transfer = NULL /\ Fifo = <<>>
      BY <2>2, QueueFacts DEF IInv, Fifo
    <3>2. Represents(Fifo, drv.fifo_head, drv.fifo_tail, next, NULL)
      BY QueueFacts DEF IInv
    <3> QED
      BY <3>1, <3>2 DEF Represents
  <2>5. TypeOK'
    <3>1. DriverZero \in Driver /\ <<>> \in Seq(Thread)
      BY EmptySeq DEF DriverZero, Driver
    <3> QED
      BY <1>1, <2>3, <3>1 DEF IInv, TypeOK
  <2>6. QueueLinked' /\ BusOwned' /\ Once(queue)' /\ Underway' /\ Prepared'
    <3>1. Elements(queue) = {}
      BY <2>2, EmptyOnce
    <3> QED
      BY <1>1, <2>2, <2>3, <2>4, <3>1, Frame DEF DriverZero
  <2>7. Served' /\ Counted'
    <3>1. opened' = {} /\ Cardinality({}) = 0
      BY <1>1, <2>1, FS_EmptySet
    <3>2. Served'
      BY <3>1 DEF Served
    <3>3. drv'.cs_list = NULL /\ drv'.nb_open = 0
      BY <2>3 DEF DriverZero
    <3>4. Cardinality(opened') = 0
      BY <3>1
    <3>5. Cardinality(opened') <= drv'.nb_open
      BY <3>3, <3>4
    <3> QED
      BY <2>3, <3>2, <3>3, <3>5 DEF Counted
  <2>8. Whole'
    BY <1>1, <2>3 DEF Whole, DriverZero
  <2>9. Fresh'
    BY <1>1 DEF IInv, Fresh
  <2> QED
    BY <1>1, <2>2, <2>3, <2>5, <2>6, <2>7, <2>8, <2>9 DEF IInv
<1>10. CASE drv.nb_open - 1 = 0 /\ drv.device_id # itf
  <2>1. opened' = {} /\ queue = <<>>
    BY <1>1, <1>8, <1>10
  <2>2. fault' = "interface" /\ cs' = cs /\ UNCHANGED <<live, drv, attached, queue>>
    BY <1>2, <1>10 DEF Close
  <2>3. TypeOK'
    BY <1>1, <2>1, <2>2 DEF IInv, TypeOK, Fault
  <2>4. /\ QueueLinked' /\ BusOwned' /\ Once(queue)' /\ Underway' /\ Prepared'
    <3>1. Elements(queue) = {}
      BY <2>1, EmptyOnce
    <3> QED
      BY <1>1, <2>2, <3>1, Frame
  <2>5. Served' /\ Counted'
    <3>1. Cardinality(opened') <= Cardinality(opened)
      BY <1>1, <1>4, <1>5
    <3> QED
      BY <1>2, <1>4, <1>6, <2>1, <2>2, <3>1, FS_EmptySet DEF IInv, Served, Counted
  <2>6. Whole'
    BY <1>1, <1>10, <2>2 DEF IInv, Whole
  <2>7. Fresh'
    BY <1>1 DEF IInv, Fresh
  <2> QED
    BY <1>1, <2>2, <2>3, <2>4, <2>5, <2>6, <2>7 DEF IInv
<1>11. CASE drv.nb_open - 1 # 0
  <2>1. /\ cs' = [cs EXCEPT ![device[p]] = CsZero]
        /\ live' = live \ {device[p]} /\ drv' = [drv EXCEPT !.nb_open = @ - 1]
        /\ attached' = attached /\ queue' = queue /\ fault' = fault
    BY <1>2, <1>11 DEF Close
  <2>2. /\ drv' \in Driver /\ drv'.nb_open = drv.nb_open - 1
        /\ drv'.cs_list = drv.cs_list /\ drv'.end_of_transfer = drv.end_of_transfer
        /\ drv'.fifo_head = drv.fifo_head /\ drv'.fifo_tail = drv.fifo_tail
        /\ drv'.fifo = drv.fifo /\ drv'.device_id = drv.device_id
    <3>1. drv.nb_open - 1 \in Nat
      <4>1. Cardinality(opened) > 0
        BY <1>1, <1>4, FS_EmptySet
      <4> QED
        BY <1>2, <1>4, <1>6, <4>1
    <3> QED
      BY <1>2, <2>1, <3>1 DEF Driver
  <2>3. TypeOK'
    <3>1. CsZero \in CsData
      BY DEF CsZero, CsData
    <3>2. cs' \in [CsBlock -> CsData] /\ device' \in [Thread -> CsBlock \cup {NULL}]
      BY <1>1, <2>1, <3>1 DEF IInv, TypeOK
    <3>3. opened' \subseteq Thread /\ live' \subseteq CsBlock
      BY <1>1, <2>1 DEF IInv, TypeOK
    <3> QED
      BY <1>1, <2>1, <2>2, <3>2, <3>3 DEF IInv, TypeOK
  <2>4. QueueLinked' /\ BusOwned' /\ Once(queue)' /\ Underway' /\ Prepared'
    <3>1. \A q \in Elements(queue) : q \in opened' /\ device'[q] = device[q]
      BY <1>1, <1>7 DEF IInv, TypeOK
    <3> QED
      BY <1>1, <1>7, <2>1, <2>2, <3>1, Frame
  <2>5. Served'
    <3>1. \A q \in opened' : /\ q \in opened /\ q # p /\ q \in Thread
                             /\ device'[q] = device[q]
      BY <1>1 DEF IInv, TypeOK
    <3> QED
      BY <1>1, <2>1, <3>1 DEF IInv, Served
  <2>6. Counted'
    <3>1. Cardinality(opened') <= drv.nb_open - 1
      BY <1>1, <1>2, <1>4, <1>5, <1>6
    <3>2. attached
      BY <1>1 DEF IInv, Served
    <3> QED
      BY <2>1, <2>2, <3>1, <3>2 DEF IInv, Counted
  <2>7. Whole'
    BY <1>1, <2>1, <2>2 DEF IInv, Whole
  <2>8. Fresh'
    BY <1>1 DEF IInv, Fresh
  <2> QED
    BY <1>1, <2>1, <2>3, <2>4, <2>5, <2>6, <2>7, <2>8 DEF IInv
<1> QED
  BY <1>9, <1>10, <1>11

(***************************************************************************)
(* Transfers                                                               *)
(***************************************************************************)

\* A call that ends in abort() keeps the invariant.
LEMMA AbortInv ==
  ASSUME IInv, NEW p \in Thread, NEW c \in Calls, Abort(p, c)
  PROVE  IInv'
<1>1. /\ pc[p] = "idle" /\ pc' = [pc EXCEPT ![p] = "aborted"]
      /\ UNCHANGED <<call, task, data, next, memory, drv, attached, spim, eot, queue>>
      /\ UNCHANGED <<itf, fault>>
  BY DEF Abort, Called, Sound
<1>2. TypeOK'
  BY <1>1 DEF IInv, TypeOK, memory, Pc
<1>3. p \notin Elements(queue) /\ Elements(queue) \subseteq Thread
  BY <1>1, OutOfQueue, QueueFacts DEF IInv
<1>4. \A q \in Elements(queue) : pc'[q] = pc[q] /\ q \in opened /\
                                 pc[q] \in {"wait", "sent", "detached"}
  BY <1>1, <1>3 DEF IInv, TypeOK, Underway
<1>5. QueueLinked' /\ BusOwned' /\ Once(queue)' /\ Underway' /\ Prepared'
  BY <1>1, <1>4, Frame DEF memory
<1>6. Served' /\ Counted' /\ Whole' /\ Fresh'
  BY <1>1 DEF IInv, Served, Counted, Whole, Fresh, memory, TypeOK
<1> QED
  BY <1>2, <1>5, <1>6 DEF IInv

\* A caller that comes to wait keeps the invariant.
LEMMA WaitInv ==
  ASSUME IInv, NEW p \in Thread, Wait(p)
  PROVE  IInv'
<1>1. /\ pc[p] = "sent" /\ pc' = [pc EXCEPT ![p] = "wait"]
      /\ UNCHANGED <<call, task, data, next, memory, drv, attached, spim, eot, queue>>
      /\ UNCHANGED <<itf, fault>>
  BY DEF Wait, Sound
<1>2. TypeOK'
  BY <1>1 DEF IInv, TypeOK, memory, Pc
<1>3. \A q \in Elements(queue) : /\ q \in opened /\ pc'[q] \in {"wait", "sent", "detached"}
                                 /\ pc[q] = "detached" => pc'[q] = "detached"
  BY <1>1 DEF IInv, TypeOK, Underway
<1>4. QueueLinked' /\ BusOwned' /\ Once(queue)' /\ Underway' /\ Prepared'
  BY <1>1, <1>3, Frame DEF memory
<1>5. Served' /\ Counted' /\ Whole' /\ Fresh'
  BY <1>1 DEF IInv, Served, Counted, Whole, Fresh, memory, TypeOK
<1> QED
  BY <1>2, <1>4, <1>5 DEF IInv

\* So does one that has been reported, and whose transfer has left the queue.
LEMMA WaitOnInv ==
  ASSUME IInv, NEW p \in Thread, WaitOn(p)
  PROVE  IInv' /\ p \notin Elements(queue)
<1>1. /\ pc[p] = "wait" /\ task[p].done
      /\ task' = [task EXCEPT ![p] = PiTaskZero] /\ pc' = [pc EXCEPT ![p] = "idle"]
      /\ call' = [call EXCEPT ![p] = CallZero] /\ data' = [data EXCEPT ![p] = DataZero]
      /\ next' = [next EXCEPT ![p] = NULL]
      /\ UNCHANGED <<memory, drv, attached, itf, fault, spim, eot, queue>>
  BY DEF WaitOn, Sound
<1>2. TypeOK'
  <2>1. /\ CallZero \in Call /\ DataZero \in Data /\ PiTaskZero \in PiTaskT
        /\ "idle" \in Pc
    BY DEF CallZero, Call, DataZero, Data, PiTaskZero, PiTaskT, TaskId, Pc
  <2> QED
    BY <1>1, <2>1 DEF IInv, TypeOK, memory
<1>3. p \notin Elements(queue) /\ Elements(queue) \subseteq Thread
  BY <1>1, OutOfQueue, QueueFacts DEF IInv
<1>4. \A q \in Elements(queue) :
        /\ q \in opened /\ pc[q] \in {"wait", "sent", "detached"} /\ pc'[q] = pc[q]
        /\ task'[q] = task[q] /\ call'[q] = call[q] /\ data'[q] = data[q]
        /\ next'[q] = next[q]
  <2>1. ASSUME NEW q \in Elements(queue)
        PROVE  /\ q \in opened /\ pc[q] \in {"wait", "sent", "detached"}
               /\ q \in Thread /\ q # p
    BY <1>3 DEF IInv, Underway
  <2> QED
    BY <1>1, <2>1 DEF IInv, TypeOK
<1>5. QueueLinked' /\ BusOwned' /\ Once(queue)' /\ Underway' /\ Prepared'
  BY <1>1, <1>4, Frame DEF memory
<1>6. Served' /\ Counted' /\ Whole'
  BY <1>1 DEF IInv, Served, Counted, Whole, memory
<1>7. Fresh'
  BY <1>1 DEF IInv, Fresh, TypeOK, PiTaskZero
<1> QED
  BY <1>2, <1>3, <1>5, <1>6, <1>7 DEF IInv

\* What an accepted transfer brings, whether it is started or enqueued.
LEMMA AcceptedFacts ==
  ASSUME IInv, NEW p \in Thread, NEW c \in Calls, Accepted(p, c)
  PROVE  /\ p \in opened /\ pc[p] = "idle" /\ p \notin Elements(queue)
         /\ queue' = Append(queue, p) /\ UNCHANGED <<memory, attached, eot>>
         /\ fault = "none" /\ UNCHANGED <<itf, fault>>
         /\ c \in Call /\ c.kind \in {"send", "receive"} /\ c.len > 0 /\ c.len \in Nat
         /\ c.api \in {"blocking", "async", "callback"}
         /\ call' = [call EXCEPT ![p] = c] /\ call' \in [Thread -> Call]
         /\ task' \in [Thread -> PiTaskT] /\ pc' \in [Thread -> Pc]
         /\ queue' \in Seq(Thread)
         /\ pc'[p] \in {"wait", "sent", "detached"} /\ ~task'[p].done /\ ~task[p].done
         /\ task'[p].id = "PI_TASK_NONE_ID" \/ pc'[p] = "detached"
         /\ \A q \in Thread \ {p} :
              pc'[q] = pc[q] /\ task'[q] = task[q] /\ call'[q] = call[q]
         /\ call'[p] = c
         /\ Elements(queue') = Elements(queue) \cup {p} /\ Once(queue')
         /\ queue' # <<>>
<1>1. /\ pc[p] = "idle" /\ p \in opened /\ c.kind # "xfer"
      /\ call' = [call EXCEPT ![p] = c]
      /\ task' = [task EXCEPT ![p] = IF c.api = "callback" THEN PiTaskCallback
                                                           ELSE PiTaskBlock(TRUE)]
      /\ pc' = [pc EXCEPT ![p] = CASE c.api = "blocking" -> "wait"
                                   [] c.api = "async" -> "sent"
                                   [] c.api = "callback" -> "detached"]
      /\ queue' = Append(queue, p) /\ UNCHANGED <<memory, attached, eot>>
      /\ fault = "none" /\ UNCHANGED <<itf, fault>>
  BY DEF Accepted, Called, Implemented, Sound
<1>2. c \in Call /\ c.len > 0
  BY UseAssumption
<1>3. /\ c.kind \in {"send", "receive"} /\ c.len \in Nat
      /\ c.api \in {"blocking", "async", "callback"}
  BY <1>1, <1>2 DEF Call
<1>4. p \notin Elements(queue)
  BY <1>1, OutOfQueue
<1>5. ~task[p].done
  BY <1>1 DEF IInv, Fresh
<1>6. /\ queue' \in Seq(Thread) /\ Elements(queue') = Elements(queue) \cup {p}
      /\ Once(queue') /\ queue' # <<>>
  BY <1>1, <1>4, AppendOnce DEF IInv, TypeOK
<1>7. /\ pc \in [Thread -> Pc] /\ task \in [Thread -> PiTaskT] /\ call \in [Thread -> Call]
  BY DEF IInv, TypeOK
<1>8. /\ PiTaskCallback \in PiTaskT /\ PiTaskBlock(TRUE) \in PiTaskT
      /\ ~PiTaskCallback.done /\ ~PiTaskBlock(TRUE).done
      /\ PiTaskBlock(TRUE).id = "PI_TASK_NONE_ID"
  BY DEF PiTaskCallback, PiTaskBlock, PiTaskT, TaskId
<1>9. /\ task' \in [Thread -> PiTaskT] /\ ~task'[p].done
      /\ c.api # "callback" => task'[p].id = "PI_TASK_NONE_ID"
      /\ \A q \in Thread \ {p} : task'[q] = task[q]
  BY <1>1, <1>7, <1>8
<1>10. /\ pc' \in [Thread -> Pc] /\ pc'[p] \in {"wait", "sent", "detached"}
       /\ c.api = "callback" => pc'[p] = "detached"
       /\ \A q \in Thread \ {p} : pc'[q] = pc[q]
  BY <1>1, <1>3, <1>7 DEF Pc
<1>11. /\ call' \in [Thread -> Call] /\ call'[p] = c
       /\ \A q \in Thread \ {p} : call'[q] = call[q]
  BY <1>1, <1>2, <1>7
<1> QED
  BY <1>1, <1>2, <1>3, <1>4, <1>5, <1>6, <1>9, <1>10, <1>11

\* The parts of the invariant that do not depend on where the transfer goes.
LEMMA AcceptedInv ==
  ASSUME IInv, NEW p \in Thread, NEW c \in Calls, Accepted(p, c),
         drv'.cs_list = drv.cs_list, drv'.nb_open = drv.nb_open,
         drv'.fifo = drv.fifo, drv'.device_id = drv.device_id, drv.device_id = itf
  PROVE  Once(queue)' /\ Underway' /\ Served' /\ Counted' /\ Whole' /\ Fresh'
<1>1. Once(queue)' /\ Underway'
  <2>1. Elements(queue) \subseteq Thread
    BY QueueFacts DEF IInv
  <2>2. ASSUME NEW q \in Elements(queue'), q # p
        PROVE  q \in Elements(queue) /\ q \in Thread \ {p}
    BY <2>1, <2>2, AcceptedFacts
  <2> QED
    BY <2>2, AcceptedFacts DEF IInv, Underway, memory
<1>2. Served'
  BY AcceptedFacts DEF IInv, Served, memory
<1>3. Counted'
  <2>1. attached /\ attached' = attached /\ opened' = opened
    BY AcceptedFacts DEF IInv, Served, memory
  <2> QED
    BY <2>1 DEF IInv, Counted
<1>4. Whole'
  BY AcceptedFacts DEF Whole
<1>5. Fresh'
  BY AcceptedFacts DEF IInv, Fresh
<1> QED
  BY <1>1, <1>2, <1>3, <1>4, <1>5

\* A transfer on a free slot: nothing is queued, and the uDMA is free.
LEMMA StartInv ==
  ASSUME IInv, NEW p \in Thread, NEW c \in Calls, Start(p, c)
  PROVE  /\ IInv' /\ queue = <<>> /\ spim = <<>>
         /\ queue' = <<p>> /\ spim' # <<>>
<1>1. /\ Accepted(p, c) /\ drv.end_of_transfer = NULL /\ drv.device_id = itf
      /\ drv' = [drv EXCEPT !.end_of_transfer = p]
      /\ spim' = Append(spim, [owner |-> p, kind |-> c.kind, len |-> c.len])
      /\ UNCHANGED <<data, next>>
  BY DEF Start, SlotFree, Enqueued
<1>2. queue = <<>> /\ spim = <<>> /\ eot = 0
  BY <1>1, QueueFacts, BusFacts DEF IInv
<1>3. queue' = <<p>> /\ Elements(queue') = {p} /\ queue' # <<>>
  BY <1>1, <1>2, AcceptedFacts, EmptyOnce
<1>4. /\ drv \in Driver /\ drv' \in Driver /\ drv'.end_of_transfer = p
      /\ drv'.fifo_head = drv.fifo_head /\ drv'.fifo_tail = drv.fifo_tail
      /\ drv'.cs_list = drv.cs_list /\ drv'.nb_open = drv.nb_open
      /\ drv'.fifo = drv.fifo /\ drv'.device_id = drv.device_id
  BY <1>1 DEF Driver, IInv, TypeOK
<1>5. /\ spim' = <<[owner |-> p, kind |-> c.kind, len |-> c.len]>>
      /\ spim' \in Seq(Programmed)
      /\ Len(spim') = 1 /\ spim'[1] = [owner |-> p, kind |-> c.kind, len |-> c.len]
      /\ DOMAIN spim' = {1} /\ spim' # <<>>
  <2>1. [owner |-> p, kind |-> c.kind, len |-> c.len] \in Programmed
    BY <1>1, AcceptedFacts DEF Programmed
  <2> QED
    BY <1>1, <1>2, <2>1
<1>6. TypeOK'
  BY <1>1, <1>4, <1>5, AcceptedFacts DEF IInv, TypeOK, memory
<1>7. QueueLinked'
  <2>1. Head(queue') = p /\ Tail(queue') = <<>>
    BY <1>3
  <2>2. Represents(<<>>, drv.fifo_head, drv.fifo_tail, next, NULL)
    BY <1>2 DEF IInv, QueueLinked
  <2> QED
    BY <1>1, <1>3, <1>4, <2>1, <2>2 DEF QueueLinked
<1>8. BusOwned'
  <2>1. p # NULL /\ eot' = 0
    BY <1>1, <1>2, AcceptedFacts, ThreadAssumption
  <2>2. call'[p] = c
    BY <1>1, AcceptedFacts
  <2> QED
    BY <1>4, <1>5, <2>1, <2>2 DEF BusOwned
<1>9. Prepared'
  BY <1>3, <1>4 DEF Prepared
<1>10. Once(queue)' /\ Underway' /\ Served' /\ Counted' /\ Whole' /\ Fresh'
  BY <1>1, <1>4, AcceptedInv
<1> QED
  BY <1>2, <1>3, <1>5, <1>6, <1>7, <1>8, <1>9, <1>10 DEF IInv

\* A transfer on a busy slot goes behind the others.
LEMMA EnqueueInv ==
  ASSUME IInv, NEW p \in Thread, NEW c \in Calls, Enqueue(p, c)
  PROVE  /\ IInv' /\ queue # <<>> /\ Head(queue') = Head(queue) /\ spim' = spim
<1>1. /\ Accepted(p, c) /\ drv.end_of_transfer # NULL /\ drv.fifo
      /\ data' = [data EXCEPT ![p] = [cs_data |-> device[p], len |-> c.len,
                                      is_send |-> IsSend(c.kind)]]
      /\ drv' = DriverAfterEnqueue(drv, p) /\ next' = NextAfterEnqueue(drv, p)
      /\ spim' = spim
  BY DEF Enqueue, SlotFree
<1>2. queue # <<>> /\ queue \in Seq(Thread) /\ p \notin Elements(queue)
  BY <1>1, QueueFacts, AcceptedFacts DEF IInv
<1>3. /\ Head(queue') = Head(queue) /\ Tail(queue') = Append(Tail(queue), p)
      /\ queue' # <<>>
  <2>1. queue' = Append(queue, p)
    BY <1>1, AcceptedFacts
  <2> QED
    BY <1>2, <2>1
<1>4. /\ Fifo = Tail(queue) /\ Fifo \in Seq(Thread) /\ Once(Fifo) /\ p \notin Elements(Fifo)
      /\ Represents(Fifo, drv.fifo_head, drv.fifo_tail, next, NULL)
      /\ drv.fifo_head = NULL <=> Fifo = <<>>
      /\ Fifo # <<>> => drv.fifo_tail \in Elements(Fifo) /\ drv.fifo_tail \in Thread
      /\ Elements(queue) \subseteq Thread
  BY <1>2, QueueFacts DEF IInv, Fifo
<1>5. /\ drv \in Driver /\ drv' \in Driver
      /\ drv'.end_of_transfer = drv.end_of_transfer
      /\ drv'.fifo_head = (IF drv.fifo_head = NULL THEN p ELSE drv.fifo_head)
      /\ drv'.fifo_tail = p
      /\ drv'.cs_list = drv.cs_list /\ drv'.nb_open = drv.nb_open
      /\ drv'.fifo = drv.fifo /\ drv'.device_id = drv.device_id
      /\ drv.device_id = itf
  BY <1>1 DEF Driver, IInv, TypeOK, DriverAfterEnqueue, TailAfterEnqueue, Whole
<1>6. /\ next \in [Thread -> Thread \cup {NULL}] /\ next' \in [Thread -> Thread \cup {NULL}]
      /\ Fifo # <<>> => /\ next'[p] = NULL /\ next'[drv.fifo_tail] = p
                        /\ \A x \in Thread \ {p, drv.fifo_tail} : next'[x] = next[x]
      /\ Fifo = <<>> => next'[p] = NULL
  BY <1>1, <1>4 DEF IInv, TypeOK, NextAfterEnqueue
<1>7. TypeOK'
  <2>1. [cs_data |-> device[p], len |-> c.len, is_send |-> IsSend(c.kind)] \in Data
    BY <1>1, AcceptedFacts DEF Data, IsSend, IInv, TypeOK
  <2>2. data' \in [Thread -> Data]
    BY <1>1, <2>1 DEF IInv, TypeOK
  <2> QED
    BY <1>1, <1>5, <1>6, <2>2, AcceptedFacts DEF IInv, TypeOK, memory
<1>8. QueueLinked'
  <2>1. Represents(Append(Fifo, p), drv'.fifo_head, drv'.fifo_tail, next', NULL)
    <3>1. CASE Fifo = <<>>
      BY <1>4, <1>5, <1>6, <3>1, RepresentsFirst
    <3>2. CASE Fifo # <<>>
      <4>1. Represents(Append(Fifo, p), drv.fifo_head, p, next', NULL)
        <5> DEFINE f == Fifo
                   h == drv.fifo_head
                   t == drv.fifo_tail
                   nxt == next
                   nxt2 == next'
        <5>1. /\ f \in Seq(Thread) /\ f # <<>> /\ Once(f) /\ NULL \notin Thread
              /\ nxt \in [Thread -> Thread \cup {NULL}]
              /\ Represents(f, h, t, nxt, NULL) /\ p \notin Elements(f)
              /\ nxt2 \in [Thread -> Thread \cup {NULL}]
              /\ nxt2[p] = NULL /\ nxt2[t] = p
              /\ \A x \in Thread \ {p, t} : nxt2[x] = nxt[x]
          BY <1>4, <1>6, <3>2, ThreadAssumption
        <5> HIDE DEF f, h, t, nxt, nxt2
        <5>2. Represents(Append(f, p), h, p, nxt2, NULL)
          BY <5>1, RepresentsAppend
        <5> QED
          BY <5>2 DEF f, h, nxt2
      <4> QED
        BY <1>4, <1>5, <3>2, <4>1
    <3> QED
      BY <3>1, <3>2
  <2>2. drv'.end_of_transfer = Head(queue')
    BY <1>2, <1>3, <1>5 DEF IInv, QueueLinked
  <2> QED
    BY <1>3, <1>4, <2>1, <2>2 DEF QueueLinked
<1>9. BusOwned'
  <2>1. drv.end_of_transfer \in Thread \ {p}
    BY <1>2, <1>4, QueueFacts DEF IInv
  <2>2. call'[drv.end_of_transfer] = call[drv.end_of_transfer] /\ eot' = eot
    BY <1>1, <2>1, AcceptedFacts
  <2> QED
    BY <1>1, <1>5, <2>2 DEF IInv, BusOwned
<1>10. Prepared'
  <2>1. ASSUME NEW q \in Elements(queue'), q # drv'.end_of_transfer
        PROVE  data'[q] = [cs_data |-> device'[q], len |-> call'[q].len,
                           is_send |-> IsSend(call'[q].kind)]
    <3>1. CASE q = p
      <4>1. data'[p] = [cs_data |-> device[p], len |-> c.len, is_send |-> IsSend(c.kind)]
        BY <1>1 DEF IInv, TypeOK
      <4> QED
        BY <1>1, <3>1, <4>1, AcceptedFacts DEF memory
    <3>2. CASE q # p
      <4>1. q \in Elements(queue) /\ q \in Thread \ {p}
        BY <1>1, <1>4, <2>1, <3>2, AcceptedFacts
      <4>2. data'[q] = data[q] /\ call'[q] = call[q] /\ device'[q] = device[q]
        BY <1>1, <4>1, AcceptedFacts DEF IInv, TypeOK, memory
      <4> QED
        BY <1>5, <2>1, <4>1, <4>2 DEF IInv, Prepared
    <3> QED
      BY <3>1, <3>2
  <2> QED
    BY <2>1 DEF Prepared
<1>11. Once(queue)' /\ Underway' /\ Served' /\ Counted' /\ Whole' /\ Fresh'
  BY <1>1, <1>5, AcceptedInv
<1> QED
  BY <1>1, <1>2, <1>3, <1>7, <1>8, <1>9, <1>10, <1>11 DEF IInv

(***************************************************************************)
(* The uDMA and its event                                                  *)
(***************************************************************************)

\* The transfer that ends is the one in the slot.
LEMMA UdmaInv ==
  ASSUME IInv, Udma
  PROVE  /\ IInv' /\ queue # <<>> /\ Head(queue) \in Elements(queue)
         /\ spim # <<>> /\ spim' = <<>> /\ UNCHANGED <<app, queue>>
<1>1. /\ spim # <<>> /\ spim' = Tail(spim) /\ eot' = eot + 1
      /\ UNCHANGED <<app, data, next, memory, drv, attached, itf, fault, queue>>
  BY DEF Udma, Sound
<1>2. /\ Tail(spim) = <<>> /\ eot = 0 /\ queue # <<>> /\ drv.end_of_transfer # NULL
      /\ Head(queue) \in Elements(queue)
  BY <1>1, BusFacts, QueueFacts DEF IInv
<1>3. spim' = <<>> /\ eot' = 1 /\ Len(spim') = 0 /\ DOMAIN spim' = {}
      /\ spim' \in Seq(Programmed)
  <2>1. spim' = <<>> /\ eot' = 1
    BY <1>1, <1>2
  <2>2. Len(<<>>) = 0 /\ DOMAIN <<>> = {} /\ <<>> \in Seq(Programmed)
    BY EmptySeq
  <2> QED
    BY <2>1, <2>2
<1>4. TypeOK'
  BY <1>1, <1>3 DEF IInv, TypeOK, app, memory
<1>5. BusOwned'
  BY <1>1, <1>2, <1>3 DEF BusOwned
<1>6. /\ QueueLinked' /\ Once(queue)' /\ Underway' /\ Prepared' /\ Served' /\ Counted'
      /\ Whole' /\ Fresh'
  BY <1>1 DEF IInv, QueueLinked, Once, Underway, Prepared, Served, Counted, Whole,
              Fresh, app, memory
<1> QED
  BY <1>1, <1>2, <1>3, <1>4, <1>5, <1>6 DEF IInv

\* spim_eot_handler: the head of the queue leaves it and the next one, if there is
\* one, takes the slot and the uDMA.
LEMMA HandlerStep ==
  ASSUME IInv, Handler
  PROVE  LET t == drv.end_of_transfer
             n == drv.fifo_head
         IN
         /\ queue # <<>> /\ t = Head(queue) /\ t \in Elements(queue) /\ t \in Thread
         /\ queue' = Tail(queue) /\ queue' = Fifo
         /\ spim = <<>> /\ eot = 1 /\ eot' = 0
         /\ task' = IF task[t].id = "PI_TASK_NONE_ID"
                      THEN [task EXCEPT ![t] = PiTaskRelease(task[t])] ELSE task
         /\ UNCHANGED <<pc, call, data, memory, attached, next>>
         /\ n = NULL => spim' = <<>>
         /\ n # NULL => spim' = <<[owner |-> n, kind |-> KindOf(data[n].is_send),
                                   len |-> data[n].len]>>
         /\ drv' \in Driver /\ drv'.end_of_transfer = n
         /\ n = NULL => drv'.fifo_head = drv.fifo_head /\ drv'.fifo_tail = drv.fifo_tail
         /\ n # NULL => /\ drv'.fifo_head = next[n]
                        /\ drv'.fifo_tail = IF next[n] = NULL THEN NULL ELSE drv.fifo_tail
         /\ drv'.cs_list = drv.cs_list /\ drv'.nb_open = drv.nb_open
         /\ drv'.fifo = drv.fifo /\ drv'.device_id = drv.device_id
         /\ UNCHANGED <<itf, fault>>
<1> DEFINE t == drv.end_of_transfer
           n == drv.fifo_head
<1>1. eot > 0 /\ attached /\ eot' = eot - 1 /\ UNCHANGED <<itf, fault>>
  BY DEF Handler, Sound
<1>2. spim = <<>> /\ eot = 1 /\ queue # <<>> /\ t # NULL /\ t \in Elements(queue)
  BY <1>1, BusFacts DEF IInv
<1>3. t = Head(queue) /\ t \in Thread /\ Fifo = Tail(queue)
  BY <1>2, QueueFacts DEF IInv, Fifo
<1>4. /\ drv \in Driver /\ drv.fifo_head \in Thread \cup {NULL}
      /\ next \in [Thread -> Thread \cup {NULL}]
  BY DEF IInv, TypeOK, Driver
<1> DEFINE d == [drv EXCEPT !.end_of_transfer = NULL]
           e == [d EXCEPT !.fifo_head = next[n],
                          !.fifo_tail = IF next[n] = NULL THEN NULL ELSE @]
<1>5. /\ d \in Driver /\ d.end_of_transfer = NULL /\ d.fifo_head = n
      /\ d.fifo_tail = drv.fifo_tail /\ d.cs_list = drv.cs_list /\ d.nb_open = drv.nb_open
      /\ d.fifo = drv.fifo /\ d.device_id = drv.device_id
  BY <1>4 DEF Driver
<1>6. n # NULL =>
        /\ e \in Driver /\ e.fifo_head = next[n]
        /\ e.fifo_tail = (IF next[n] = NULL THEN NULL ELSE drv.fifo_tail)
        /\ e.cs_list = drv.cs_list /\ e.nb_open = drv.nb_open
        /\ e.fifo = drv.fifo /\ e.device_id = drv.device_id
  BY <1>4 DEF Driver
<1>7. SlotAfterEot(drv) = d /\ DriverAfterPop(d) = e /\ SlotFree(d)
  BY <1>5 DEF SlotAfterEot, DriverAfterPop, SlotFree
<1> HIDE DEF d, e
<1>8. /\ task' = (IF t # NULL /\ task[t].id = "PI_TASK_NONE_ID"
                   THEN [task EXCEPT ![t] = PiTaskRelease(task[t])] ELSE task)
      /\ queue' = (IF t = NULL THEN queue ELSE Tail(queue))
      /\ UNCHANGED <<pc, call, data, memory, attached>>
  BY DEF Handler
<1>9. IF n = NULL
        THEN drv' = d /\ UNCHANGED <<spim, next>>
        ELSE /\ drv' = [e EXCEPT !.end_of_transfer = n]
             /\ spim' = Append(spim, [owner |-> n, kind |-> KindOf(data[n].is_send),
                                      len |-> data[n].len])
             /\ UNCHANGED next
  BY <1>5, <1>7 DEF Handler, Enqueued
<1>10. n # NULL =>
         /\ drv' \in Driver /\ drv'.end_of_transfer = n /\ drv'.fifo_head = e.fifo_head
         /\ drv'.fifo_tail = e.fifo_tail /\ drv'.cs_list = e.cs_list
         /\ drv'.nb_open = e.nb_open /\ drv'.fifo = e.fifo
         /\ drv'.device_id = e.device_id
  BY <1>4, <1>6, <1>9 DEF Driver
<1>11. n # NULL => spim' = <<[owner |-> n, kind |-> KindOf(data[n].is_send),
                              len |-> data[n].len]>>
  BY <1>2, <1>9
<1>12. n = NULL => /\ drv' \in Driver /\ drv'.end_of_transfer = n
                   /\ drv'.fifo_head = drv.fifo_head /\ drv'.fifo_tail = drv.fifo_tail
                   /\ drv'.cs_list = drv.cs_list /\ drv'.nb_open = drv.nb_open
                   /\ drv'.fifo = drv.fifo /\ drv'.device_id = drv.device_id
                   /\ spim' = <<>>
  BY <1>2, <1>5, <1>9
<1> QED
  BY <1>1, <1>2, <1>3, <1>6, <1>8, <1>9, <1>10, <1>11, <1>12

\* spim_eot_handler keeps the invariant.
LEMMA HandlerInv ==
  ASSUME IInv, Handler
  PROVE  IInv'
<1> DEFINE t == drv.end_of_transfer
           n == drv.fifo_head
<1>1. /\ queue # <<>> /\ t = Head(queue) /\ t \in Elements(queue) /\ t \in Thread
      /\ queue' = Tail(queue) /\ queue' = Fifo
      /\ spim = <<>> /\ eot = 1 /\ eot' = 0
      /\ task' = (IF task[t].id = "PI_TASK_NONE_ID"
                    THEN [task EXCEPT ![t] = PiTaskRelease(task[t])] ELSE task)
      /\ UNCHANGED <<pc, call, data, memory, attached, next>>
      /\ n = NULL => spim' = <<>>
      /\ n # NULL => spim' = <<[owner |-> n, kind |-> KindOf(data[n].is_send),
                                len |-> data[n].len]>>
      /\ drv' \in Driver /\ drv'.end_of_transfer = n
      /\ n = NULL => drv'.fifo_head = drv.fifo_head /\ drv'.fifo_tail = drv.fifo_tail
      /\ n # NULL => /\ drv'.fifo_head = next[n]
                     /\ drv'.fifo_tail = (IF next[n] = NULL THEN NULL ELSE drv.fifo_tail)
      /\ drv'.cs_list = drv.cs_list /\ drv'.nb_open = drv.nb_open
      /\ drv'.fifo = drv.fifo /\ drv'.device_id = drv.device_id
      /\ UNCHANGED <<itf, fault>>
  BY HandlerStep
<1>2. /\ Fifo \in Seq(Thread) /\ Once(Fifo) /\ Elements(Fifo) = Elements(queue) \ {t}
      /\ Represents(Fifo, drv.fifo_head, drv.fifo_tail, next, NULL)
      /\ n = NULL <=> Fifo = <<>>
      /\ Fifo # <<>> => n = Head(Fifo) /\ n \in Elements(Fifo)
      /\ Elements(queue) \subseteq Thread
  BY QueueFacts DEF IInv
<1>3. /\ task' \in [Thread -> PiTaskT]
      /\ \A q \in Thread \ {t} : task'[q] = task[q]
  <2>1. task \in [Thread -> PiTaskT] /\ t \in Thread
    BY <1>1 DEF IInv, TypeOK
  <2>2. PiTaskRelease(task[t]) \in PiTaskT
    <3>1. task[t] \in PiTaskT
      BY <2>1
    <3> QED
      BY <3>1 DEF PiTaskRelease, PiTaskT
  <2>3. \/ task' = [task EXCEPT ![t] = PiTaskRelease(task[t])]
        \/ task' = task
    BY <1>1
  <2> QED
    BY <2>1, <2>2, <2>3
<1>4. n # NULL => /\ n \in Thread /\ n \in Elements(queue) /\ n # t
                  /\ data[n].len = call[n].len /\ KindOf(data[n].is_send) = call[n].kind
  <2> SUFFICES ASSUME n # NULL
               PROVE  /\ n \in Thread /\ n \in Elements(queue) /\ n # t
                      /\ data[n].len = call[n].len /\ KindOf(data[n].is_send) = call[n].kind
    OBVIOUS
  <2>1. n \in Elements(queue) /\ n # t /\ n \in Thread
    BY <1>2
  <2>2. data[n] = [cs_data |-> device[n], len |-> call[n].len,
                   is_send |-> IsSend(call[n].kind)]
    BY <2>1 DEF IInv, Prepared
  <2>3. call[n].kind \in {"send", "receive"}
    BY <2>1 DEF IInv, Underway
  <2> QED
    BY <2>1, <2>2, <2>3 DEF KindOf, IsSend
<1>5. /\ spim' \in Seq(Programmed) /\ Len(spim') = (IF n = NULL THEN 0 ELSE 1)
      /\ DOMAIN spim' = (IF n = NULL THEN {} ELSE {1})
      /\ n # NULL => spim'[1] = [owner |-> n, kind |-> KindOf(data[n].is_send),
                                 len |-> data[n].len]
  <2>1. CASE n = NULL
    BY <1>1, <2>1, EmptySeq
  <2>2. CASE n # NULL
    <3> DEFINE w == [owner |-> n, kind |-> KindOf(data[n].is_send), len |-> data[n].len]
    <3>1. w \in Programmed
      <4>1. data[n] \in Data
        BY <1>4, <2>2 DEF IInv, TypeOK
      <4> QED
        BY <1>4, <2>2, <4>1 DEF Programmed, KindOf, Data
    <3>2. spim' = <<w>>
      BY <1>1, <2>2
    <3> HIDE DEF w
    <3>3. spim' \in Seq(Programmed) /\ Len(spim') = 1 /\ DOMAIN spim' = {1} /\ spim'[1] = w
      BY <3>1, <3>2
    <3> QED
      BY <2>2, <3>3 DEF w
  <2> QED
    BY <2>1, <2>2
<1>6. TypeOK'
  BY <1>1, <1>2, <1>3, <1>5 DEF IInv, TypeOK, memory
<1>7. QueueLinked'
  <2>1. CASE Fifo = <<>>
    BY <1>1, <1>2, <2>1 DEF QueueLinked
  <2>2. CASE Fifo # <<>>
    <3>1. Represents(Tail(Fifo), next[n], IF next[n] = NULL THEN NULL ELSE drv.fifo_tail,
                     next, NULL)
      BY <1>2, <2>2, RepresentsTail, ThreadAssumption
    <3> QED
      BY <1>1, <1>2, <2>2, <3>1 DEF QueueLinked
  <2> QED
    BY <2>1, <2>2
<1>8. BusOwned'
  BY <1>1, <1>4, <1>5 DEF BusOwned
<1>9. Once(queue)' /\ Underway' /\ Prepared'
  <2>1. \A q \in Elements(queue') : /\ q \in Elements(queue) /\ q # t
                                    /\ q \in Thread \ {t}
    BY <1>1, <1>2
  <2>2. Once(queue)'
    BY <1>1, <1>2
  <2>3. Underway'
    BY <1>1, <1>3, <2>1 DEF IInv, Underway, memory
  <2>4. Prepared'
    BY <1>1, <2>1 DEF IInv, Prepared, memory
  <2> QED
    BY <2>2, <2>3, <2>4
<1>10. Served' /\ Counted'
  <2>1. attached /\ UNCHANGED <<attached, opened, device, live>>
    BY <1>1 DEF Handler, memory
  <2> QED
    BY <1>1, <2>1 DEF IInv, Served, Counted
<1>11. Whole'
  BY <1>1 DEF IInv, Whole
<1>12. Fresh'
  <2>1. pc[t] \notin {"idle", "aborted"}
    BY <1>1 DEF IInv, Underway
  <2> QED
    BY <1>1, <1>3, <2>1 DEF IInv, Fresh
<1> QED
  BY <1>6, <1>7, <1>8, <1>9, <1>10, <1>11, <1>12 DEF IInv

(***************************************************************************)
(* Where the driver is led astray                                          *)
(***************************************************************************)

\* Incomplete driver data are what leads there, or another interface's if this is
\* interface 0; nothing else changes.
LEMMA AstrayInv ==
  ASSUME IInv,
         (\E p \in Thread, c \in Calls : Stray(p, c)) \/ HandlerStray \/ Struck
  PROVE  /\ IInv' /\ ~Udma /\ ~Handler
         /\ UNCHANGED <<pc, call, task, data, next, memory, drv, attached, itf>>
         /\ UNCHANGED <<spim, eot, queue>>
<1>1. /\ UNCHANGED <<pc, call, task, data, next, memory, drv, attached, itf>>
      /\ UNCHANGED <<spim, eot, queue>>
      /\ fault = "none" /\ fault' \in {"null", "interface", "struck"}
  BY DEF Stray, HandlerStray, Struck, app
<1>2. ~Udma /\ ~Handler
  BY <1>1 DEF Udma, Handler, Sound
<1>3. fault' # "none" => ~drv.fifo \/ (fault' = "struck" /\ itf = 0)
  BY DEF Stray, HandlerStray, Struck, IInv, Whole
<1>4. Whole'
  BY <1>1, <1>3 DEF IInv, Whole
<1>5. TypeOK'
  BY <1>1 DEF IInv, TypeOK, memory, Fault
<1>6. /\ QueueLinked' /\ BusOwned' /\ Once(queue)' /\ Underway' /\ Prepared' /\ Served'
      /\ Counted' /\ Fresh'
  BY <1>1 DEF IInv, QueueLinked, BusOwned, Once, Underway, Prepared, Served, Counted,
              Fresh, memory
<1> QED
  BY <1>1, <1>2, <1>4, <1>5, <1>6 DEF IInv

(***************************************************************************)
(* The invariant of the specification                                      *)
(***************************************************************************)

\* The invariant holds initially.
LEMMA InitInv == ASSUME Init PROVE IInv
<1> USE DEF Init
<1>1. TypeOK
  <2>1. /\ CallZero \in Call /\ PiTaskZero \in PiTaskT /\ DataZero \in Data
        /\ CsZero \in CsData /\ DriverZero \in Driver /\ "idle" \in Pc
        /\ "none" \in Fault
    BY DEF CallZero, Call, PiTaskZero, PiTaskT, TaskId, DataZero, Data, CsZero, CsData,
           DriverZero, Driver, Pc, Fault
  <2> QED
    BY <2>1, EmptySeq DEF TypeOK
<1>2. Once(queue) /\ Elements(queue) = {}
  BY EmptyOnce
<1>3. QueueLinked
  BY EmptySeq DEF QueueLinked, Represents, DriverZero
<1>4. BusOwned
  <2>1. Len(spim) = 0 /\ DOMAIN spim = {}
    BY EmptySeq
  <2> QED
    BY <2>1 DEF BusOwned, DriverZero
<1>5. Underway /\ Prepared /\ Served /\ Fresh
  BY <1>2 DEF Underway, Prepared, Served, Fresh, PiTaskZero
<1>6. Counted /\ Whole
  BY FS_EmptySet DEF Counted, Whole, DriverZero
<1> QED
  BY <1>1, <1>2, <1>3, <1>4, <1>5, <1>6 DEF IInv

\* Every step keeps the invariant.
LEMMA NextInv == ASSUME IInv, [Next]_vars PROVE IInv'
<1>1. ASSUME NEW p \in Thread, Open(p) PROVE IInv'
  BY <1>1, OpenInv
<1>2. ASSUME NEW p \in Thread, Close(p) PROVE IInv'
  BY <1>2, CloseInv
<1>3. ASSUME NEW p \in Thread, NEW c \in Calls, Abort(p, c) PROVE IInv'
  BY <1>3, AbortInv
<1>4. ASSUME NEW p \in Thread, NEW c \in Calls, Start(p, c) PROVE IInv'
  BY <1>4, StartInv
<1>5. ASSUME NEW p \in Thread, NEW c \in Calls, Enqueue(p, c) PROVE IInv'
  BY <1>5, EnqueueInv
<1>6. ASSUME NEW p \in Thread, Wait(p) PROVE IInv'
  BY <1>6, WaitInv
<1>7. ASSUME NEW p \in Thread, WaitOn(p) PROVE IInv'
  BY <1>7, WaitOnInv
<1>8. CASE Udma
  BY <1>8, UdmaInv
<1>9. CASE Handler
  BY <1>9, HandlerInv
<1>10. CASE (\E p \in Thread, c \in Calls : Stray(p, c)) \/ HandlerStray \/ Struck
  BY <1>10, AstrayInv
<1>11. CASE UNCHANGED vars
  BY <1>11 DEF vars, app, memory, IInv, TypeOK, QueueLinked, BusOwned, Once, Underway,
               Prepared, Served, Counted, Whole, Fresh
<1> QED
  BY <1>1, <1>2, <1>3, <1>4, <1>5, <1>6, <1>7, <1>8, <1>9, <1>10, <1>11 DEF Next

\* What the theorems rest on: the invariant of every reachable state.
THEOREM Invariance == Spec => []IInv
BY InitInv, NextInv, PTL DEF Spec

\* The types: among them, that the count of opens never falls below 0
\* (pi_spi_open, pi_spi_close).
THEOREM TypeCorrect == Spec => []TypeOK
<1>1. IInv => TypeOK
  BY DEF IInv
<1> QED
  BY <1>1, Invariance, PTL

\* The slot and the fifo are the queue of accepted transfers, whoever enqueues
\* around the handler (spim_eot_handler, __pi_spi_send_async).
THEOREM FifoCorrect == Spec => []QueueLinked
<1>1. IInv => QueueLinked
  BY DEF IInv
<1> QED
  BY <1>1, Invariance, PTL

\* The uDMA has one transfer at a time, the one in the slot, as its caller asked
\* (__pi_spi_send_async, __pi_spim_exec_next_transfer).
THEOREM OneTransfer == Spec => []BusOwned
<1>1. IInv => BusOwned
  BY DEF IInv
<1> QED
  BY <1>1, Invariance, PTL

\* Opens that fail and closes of other devices leave an open device its interface
\* and a chip select that is allocated, and a queued transfer its own, up to where
\* driver data that were left without a fifo lead the driver astray; with complete
\* ones only interface 0 can be, by another interface (pi_spi_open, pi_spi_close,
\* and the device_id that the transfers go by).
THEOREM DevicesServed == Spec => []DeviceServed
<1>1. ASSUME IInv PROVE DeviceServed
  <2>1. ASSUME NEW i \in DOMAIN queue, i > 1
        PROVE  data[queue[i]].cs_data \in live /\ queue[i] \in opened
    <3>1. queue[i] \in Elements(queue) /\ 1 \in DOMAIN queue /\ queue # <<>>
      <4>1. DOMAIN queue = 1..Len(queue) /\ Len(queue) \in Nat
        BY <1>1, LenProperties DEF IInv, TypeOK
      <4> QED
        BY <2>1, <4>1 DEF Elements
    <3>2. queue[i] # drv.end_of_transfer
      <4>1. drv.end_of_transfer = queue[1]
        BY <1>1, <3>1, QueueFacts DEF IInv
      <4>2. i # 1
        BY <2>1
      <4> QED
        BY <1>1, <3>1, <4>1, <4>2 DEF IInv, Once
    <3>3. data[queue[i]].cs_data = device[queue[i]] /\ queue[i] \in opened
      <4> DEFINE q == queue[i]
      <4>1. q \in Elements(queue) /\ q # drv.end_of_transfer
        BY <3>1, <3>2
      <4> HIDE DEF q
      <4>2. data[q] = [cs_data |-> device[q], len |-> call[q].len,
                       is_send |-> IsSend(call[q].kind)]
        BY <1>1, <4>1 DEF IInv, Prepared
      <4>3. q \in opened
        BY <1>1, <4>1 DEF IInv, Underway
      <4> QED
        BY <4>2, <4>3 DEF q
    <3> QED
      BY <1>1, <3>3 DEF IInv, Served
  <2> QED
    BY <1>1, <2>1 DEF IInv, Served, Whole, DeviceServed
<1> QED
  BY <1>1, Invariance, PTL

\* The driver data and their fifo are always there when they are needed.
Supplied == OpenOutcome \cap {"no_data", "no_fifo"} = {}

Complete == fault = "none" /\ (attached => drv.fifo)

LEMMA NextComplete ==
  ASSUME Supplied, IInv, Complete, [Next]_vars
  PROVE  Complete'
<1>1. ASSUME NEW p \in Thread, Open(p) PROVE Complete'
  <2>1. /\ OpenCs(p, DriverAfterOpen(drv)) /\ fault' = fault
    BY <1>1 DEF Open, NoData, NoFifo, OpenCs, Supplied
  <2>2. \/ drv' = DriverAfterOpen(drv)
        \/ drv' = [DriverAfterOpen(drv) EXCEPT !.cs_list = CsList(DriverAfterOpen(drv), New)]
    BY <2>1 DEF OpenCs
  <2>3. drv' = DriverAfterOpen(drv)
    BY <2>2, OpenDriver DEF IInv
  <2>4. DriverAfterOpen(drv).fifo
    <3>1. drv \in Driver
      BY OpenDriver DEF IInv
    <3>2. CASE attached
      BY <3>1, <3>2 DEF DriverAfterOpen, Driver, Complete
    <3>3. CASE ~attached
      BY <3>3 DEF DriverAfterOpen, DriverData, DriverZero
    <3> QED
      BY <3>2, <3>3
  <2> QED
    BY <2>1, <2>3, <2>4 DEF Complete
<1>2. ASSUME NEW p \in Thread, Close(p) PROVE Complete'
  <2>1. attached /\ drv.fifo /\ drv.device_id = itf /\ drv \in Driver
    BY <1>2, OpenDriver DEF Close, IInv, Served, Whole, Complete
  <2>2. CASE drv' = DriverZero /\ attached' = FALSE
    BY <1>2, <2>1, <2>2 DEF Close, Complete
  <2>3. CASE drv' = [drv EXCEPT !.nb_open = @ - 1] /\ attached' = attached
    BY <1>2, <2>1, <2>3 DEF Close, Complete, Driver
  <2> QED
    BY <1>2, <2>1, <2>2, <2>3 DEF Close
<1>3. ASSUME NEW p \in Thread, NEW c \in Calls, Start(p, c) PROVE Complete'
  <2>1. drv' = [drv EXCEPT !.end_of_transfer = p] /\ UNCHANGED <<attached, fault>>
    BY <1>3, AcceptedFacts DEF Start
  <2> QED
    BY <2>1 DEF Complete, IInv, TypeOK, Driver
<1>4. ASSUME NEW p \in Thread, NEW c \in Calls, Enqueue(p, c) PROVE Complete'
  <2>1. drv' = DriverAfterEnqueue(drv, p) /\ UNCHANGED <<attached, fault>>
    BY <1>4, AcceptedFacts DEF Enqueue
  <2>2. drv'.fifo = drv.fifo
    BY <2>1 DEF DriverAfterEnqueue, TailAfterEnqueue, IInv, TypeOK, Driver
  <2> QED
    BY <2>1, <2>2 DEF Complete
<1>5. CASE Handler
  BY <1>5, HandlerStep DEF Complete
<1>6. ASSUME \/ \E p \in Thread : Wait(p) \/ WaitOn(p) \/ \E c \in Calls : Abort(p, c)
             \/ Udma \/ UNCHANGED vars
      PROVE  Complete'
  BY <1>6 DEF Wait, WaitOn, Abort, Udma, Sound, vars, Complete
<1>7. ~Struck /\ ~HandlerStray /\ \A p \in Thread, c \in Calls : ~Stray(p, c)
  BY DEF Struck, HandlerStray, Stray, Called, Supplied, IInv, Served, Whole, Complete
<1> QED
  BY <1>1, <1>2, <1>3, <1>4, <1>5, <1>6, <1>7 DEF Next

\* As long as every first open finds memory for the driver data and their fifo, the
\* driver is never led astray, whatever opens fail for want of a chip select: what the
\* other theorems promise up to there then holds for ever (pi_spi_open).
THEOREM NeverAstray == Supplied => (Spec => [](fault = "none"))
<1> SUFFICES ASSUME Supplied PROVE Spec => [](fault = "none")
  OBVIOUS
<1>1. Init => Complete
  BY DEF Init, Complete
<1>2. IInv /\ Complete /\ [Next]_vars => Complete'
  BY NextComplete
<1>3. Complete => fault = "none"
  BY DEF Complete
<1> QED
  BY <1>1, <1>2, <1>3, Invariance, PTL DEF Spec

(***************************************************************************)
(* Nobody waits in vain                                                    *)
(***************************************************************************)

\* Who has asked for a release has been told, or has its transfer in the queue.
Awaited ==
  \A p \in Thread : pc[p] \in {"wait", "sent"} => task[p].done \/ p \in Elements(queue)

LEMMA AwaitedStep ==
  ASSUME Awaited, NEW p \in Thread,
         \A q \in Thread \ {p} :
           /\ pc'[q] = pc[q] /\ task'[q] = task[q]
           /\ q \in Elements(queue) => q \in Elements(queue'),
         pc'[p] \in {"wait", "sent"} => task'[p].done \/ p \in Elements(queue')
  PROVE  Awaited'
BY DEF Awaited

LEMMA NextAwaited ==
  ASSUME IInv, Awaited, [Next]_vars
  PROVE  Awaited'
<1>0. pc \in [Thread -> Pc] /\ task \in [Thread -> PiTaskT]
  BY DEF IInv, TypeOK
<1>1. ASSUME NEW p \in Thread, Open(p)
      PROVE  Awaited'
  BY <1>1 DEF Open, app, Awaited
<1>2. ASSUME NEW p \in Thread, Close(p)
      PROVE  Awaited'
  BY <1>2, CloseInv DEF Awaited
<1>3. ASSUME NEW p \in Thread, NEW c \in Calls, Abort(p, c)
      PROVE  Awaited'
  BY <1>0, <1>3, AwaitedStep DEF Abort
<1>4. ASSUME NEW p \in Thread, NEW c \in Calls, Start(p, c) \/ Enqueue(p, c)
      PROVE  Awaited'
  <2>1. Accepted(p, c)
    BY <1>4 DEF Start, Enqueue
  <2> QED
    BY <2>1, AcceptedFacts, AwaitedStep
<1>5. ASSUME NEW p \in Thread, Wait(p)
      PROVE  Awaited'
  BY <1>0, <1>5, AwaitedStep DEF Wait, Awaited
<1>6. ASSUME NEW p \in Thread, WaitOn(p)
      PROVE  Awaited'
  BY <1>0, <1>6, AwaitedStep DEF WaitOn
<1>7. CASE Udma
  BY <1>7 DEF Udma, app, Awaited
<1>8. CASE Handler
  <2> DEFINE t == drv.end_of_transfer
  <2>1. /\ t \in Elements(queue) /\ t \in Thread /\ queue' = Fifo
        /\ task' = (IF task[t].id = "PI_TASK_NONE_ID"
                      THEN [task EXCEPT ![t] = PiTaskRelease(task[t])] ELSE task)
        /\ UNCHANGED pc
    BY <1>8, HandlerStep
  <2>2. Elements(queue') = Elements(queue) \ {t}
    BY <2>1, QueueFacts DEF IInv
  <2>3. pc[t] \in {"wait", "sent"} => task'[t].done
    <3>1. task[t].id = "PI_TASK_NONE_ID" \/ pc[t] = "detached"
      BY <2>1 DEF IInv, Underway
    <3>2. PiTaskRelease(task[t]).done
      BY <1>0, <2>1 DEF PiTaskRelease, PiTaskT
    <3> QED
      BY <1>0, <2>1, <3>1, <3>2
  <2>4. \A q \in Thread \ {t} : task'[q] = task[q]
    BY <1>0, <2>1
  <2> HIDE DEF t
  <2> QED
    BY <2>1, <2>2, <2>3, <2>4, AwaitedStep
<1>9. CASE (\E p \in Thread, c \in Calls : Stray(p, c)) \/ HandlerStray \/ Struck
  BY <1>9, AstrayInv DEF Awaited
<1>10. CASE UNCHANGED vars
  BY <1>10 DEF vars, app, Awaited
<1> QED
  BY <1>1, <1>2, <1>3, <1>4, <1>5, <1>6, <1>7, <1>8, <1>9, <1>10 DEF Next

\* Unless the driver has been led astray: who waits has been told, or its transfer is
\* in the queue, and then the uDMA is moving one or its event is about to be serviced.
NobodyForgotten ==
  fault = "none" => \A p \in Thread :
    pc[p] \in {"wait", "sent"} /\ ~task[p].done =>
      p \in Elements(queue) /\ (spim # <<>> \/ (eot > 0 /\ attached))

\* No accepted transfer is forgotten between its caller, the slot, the fifo, the
\* uDMA and the handler, whoever opens and closes meanwhile: while anybody waits, the
\* interface is not idle, up to where incomplete driver data lead the driver astray
\* (spim_eot_handler, __pi_spi_send_async, pi_spi_close).
THEOREM AcceptedRemembered == Spec => []NobodyForgotten
<1>1. Init => Awaited
  BY DEF Init, Awaited
<1>2. IInv /\ Awaited /\ [Next]_vars => Awaited'
  BY NextAwaited
<1>3. IInv /\ Awaited => NobodyForgotten
  <2> SUFFICES ASSUME IInv, Awaited, NEW p \in Thread,
                      pc[p] \in {"wait", "sent"}, ~task[p].done
               PROVE  p \in Elements(queue) /\ (spim # <<>> \/ (eot > 0 /\ attached))
    BY DEF NobodyForgotten
  <2>1. p \in Elements(queue)
    BY DEF Awaited
  <2>2. attached
    BY <2>1 DEF IInv, Underway, Served
  <2>3. drv.end_of_transfer # NULL
    BY <2>1, QueueFacts, EmptyOnce DEF IInv
  <2>4. Len(spim) + eot = 1
    BY <2>3 DEF IInv, BusOwned
  <2>5. eot \in Nat /\ (spim = <<>> => Len(spim) = 0)
    BY EmptySeq DEF IInv, TypeOK
  <2> QED
    BY <2>1, <2>2, <2>4, <2>5
<1> QED
  BY <1>1, <1>2, <1>3, Invariance, PTL DEF Spec

(***************************************************************************)
(* How long one waits                                                      *)
(***************************************************************************)

\* The steps of the uDMA and of the handler until the transfer of p is over: two for
\* each transfer up to its own, one of which has been taken if the event is pending.
StepsAhead(p) == 2 * Place(queue, p) - eot

NoOvertaking ==
  \A p \in Elements(queue) :
    /\ StepsAhead(p) \in Nat \ {0}
    /\ \/ /\ p \in Elements(queue')
          /\ StepsAhead(p)' = IF Udma \/ Handler THEN StepsAhead(p) - 1 ELSE StepsAhead(p)
       \/ /\ Handler /\ StepsAhead(p) = 1
          /\ pc[p] # "detached" => task'[p].done

\* The handler ends the transfer in the slot and brings all others closer.
LEMMA HandlerCloser ==
  ASSUME IInv, Handler, NEW p \in Elements(queue)
  PROVE  \/ p \in Elements(queue') /\ StepsAhead(p)' = StepsAhead(p) - 1
         \/ StepsAhead(p) = 1 /\ (pc[p] # "detached" => task'[p].done)
<1> DEFINE i == Place(queue, p)
<1>1. /\ queue' = Tail(queue) /\ eot = 1 /\ eot' = 0 /\ p \in Thread
      /\ drv.end_of_transfer = Head(queue)
      /\ Head(queue) \in Thread
      /\ LET t == Head(queue) IN
         task' = IF task[t].id = "PI_TASK_NONE_ID"
                   THEN [task EXCEPT ![t] = PiTaskRelease(task[t])] ELSE task
  BY HandlerStep, QueueFacts DEF IInv
<1>2. /\ i \in Nat /\ (p = Head(queue) <=> i = 1)
      /\ p # Head(queue) => p \in Elements(queue') /\ Place(queue', p) = i - 1
  BY <1>1, PlaceTail, PlaceFacts DEF IInv, TypeOK
<1> HIDE DEF i
<1>3. CASE p = Head(queue)
  <2>1. 2 * i - 1 = 1
    BY <1>2, <1>3
  <2>2. task[p].id = "PI_TASK_NONE_ID" \/ pc[p] = "detached"
    BY DEF IInv, Underway
  <2>3. task[p] \in PiTaskT /\ task \in [Thread -> PiTaskT]
    BY <1>1 DEF IInv, TypeOK
  <2>4. PiTaskRelease(task[p]).done
    BY <2>3 DEF PiTaskRelease, PiTaskT
  <2>5. pc[p] # "detached" => task'[p].done
    BY <1>1, <1>3, <2>2, <2>3, <2>4
  <2> QED
    BY <1>1, <2>1, <2>5 DEF StepsAhead, i
<1>4. CASE p # Head(queue)
  <2>1. 2 * (i - 1) - 0 = (2 * i - 1) - 1
    BY <1>2
  <2> QED
    BY <1>1, <1>2, <1>4, <2>1 DEF StepsAhead, i
<1> QED
  BY <1>3, <1>4

\* No transfer in the queue is over already.
LEMMA SomeAhead ==
  ASSUME IInv, NEW p \in Elements(queue)
  PROVE  /\ eot \in Nat /\ Place(queue, p) \in Nat
         /\ StepsAhead(p) \in Nat \ {0}
<1>1. eot \in {0, 1} /\ Place(queue, p) \in Nat \ {0}
  BY PlaceFacts, BusFacts DEF IInv, TypeOK
<1>2. 2 * Place(queue, p) - eot \in Nat \ {0}
  BY <1>1
<1> QED
  BY <1>1, <1>2 DEF StepsAhead

LEMMA NextCloser == ASSUME IInv, [Next]_vars PROVE NoOvertaking
<1> SUFFICES ASSUME NEW p \in Elements(queue)
             PROVE  \/ /\ p \in Elements(queue')
                       /\ StepsAhead(p)' = IF Udma \/ Handler THEN StepsAhead(p) - 1
                                                              ELSE StepsAhead(p)
                    \/ /\ Handler /\ StepsAhead(p) = 1
                       /\ pc[p] # "detached" => task'[p].done
  BY SomeAhead DEF NoOvertaking
<1>0. eot \in Nat /\ Place(queue, p) \in Nat
  BY SomeAhead
<1>1. CASE Handler
  BY <1>1, HandlerCloser
<1>2. CASE Udma
  <2>1. queue' = queue /\ eot' = eot + 1
    BY <1>2 DEF Udma
  <2>2. 2 * Place(queue, p) - (eot + 1) = (2 * Place(queue, p) - eot) - 1
    BY <1>0
  <2> QED
    BY <1>2, <2>1, <2>2 DEF StepsAhead
<1>3. ASSUME eot' = eot
      PROVE  ~Udma /\ ~Handler
  BY <1>0, <1>3 DEF Udma, Handler
<1>4. ASSUME NEW q \in Thread, NEW c \in Calls, Start(q, c) \/ Enqueue(q, c)
      PROVE  p \in Elements(queue') /\ StepsAhead(p)' = StepsAhead(p) /\ eot' = eot
  <2>1. Accepted(q, c)
    BY <1>4 DEF Start, Enqueue
  <2>2. queue' = Append(queue, q) /\ Once(queue') /\ eot' = eot
    BY <2>1, AcceptedFacts
  <2>3. p \in Elements(queue') /\ Place(queue', p) = Place(queue, p)
    BY <2>2, PlaceAppend DEF IInv, TypeOK
  <2> QED
    BY <2>2, <2>3 DEF StepsAhead
<1>5. ASSUME NEW q \in Thread,
             \/ Open(q) \/ Close(q) \/ Wait(q) \/ WaitOn(q)
             \/ \E c \in Calls : Abort(q, c)
      PROVE  queue' = queue /\ eot' = eot
  <2>1. CASE Close(q)
    BY <2>1, CloseInv DEF Close
  <2>2. CASE Open(q) \/ Wait(q) \/ WaitOn(q) \/ \E c \in Calls : Abort(q, c)
    BY <2>2 DEF Open, Wait, WaitOn, Abort
  <2> QED
    BY <1>5, <2>1, <2>2
<1>6. ASSUME queue' = queue, eot' = eot
      PROVE  p \in Elements(queue') /\ StepsAhead(p)' = StepsAhead(p)
  BY <1>6 DEF StepsAhead
<1>7. CASE (\E q \in Thread, c \in Calls : Stray(q, c)) \/ HandlerStray \/ Struck
  BY <1>3, <1>6, <1>7, AstrayInv
<1>8. CASE UNCHANGED vars
  BY <1>3, <1>6, <1>8 DEF vars
<1> QED
  BY <1>1, <1>2, <1>3, <1>4, <1>5, <1>6, <1>7, <1>8 DEF Next

\* A transfer that is accepted is over after as many steps of the uDMA and of the
\* handler as there are ahead of it then: each of their steps is one of these and ends
\* none before its turn, and no call, open or close by anybody adds one, however many
\* transfers come behind (spim_eot_handler, __pi_spim_drv_fifo_pop and _enqueue).
THEOREM BoundedWait == Spec => [][NoOvertaking]_vars
<1>1. IInv /\ [Next]_vars => [NoOvertaking]_vars
  BY NextCloser
<1> QED
  BY <1>1, Invariance, PTL DEF Spec

(***************************************************************************)
(* The refinement                                                          *)
(***************************************************************************)

Lines == [l \in {"spim"} |-> queue]
Lefts == [p \in Thread |-> Left(p)]

\* What the service sees of a state.
LEMMA Seen ==
  ASSUME IInv
  PROVE  /\ Service!Waiting = Elements(queue)
         /\ \A p \in Thread \ Elements(queue) : Left(p) = 0
         /\ \A p \in Elements(queue) :
              /\ p \in Thread /\ p \notin Done
              /\ Left(p) = IF p = Head(queue) /\ spim = <<>> THEN 0 ELSE call[p].len
              /\ call[p].len \in Nat \ {0}
<1>1. Service!Waiting = Elements(queue)
  BY DEF Service!Waiting, Elements
<1>2. ASSUME NEW p \in Elements(queue)
      PROVE  /\ p \in Thread /\ p \notin Done /\ call[p].len \in Nat \ {0}
             /\ Left(p) = IF p = Head(queue) /\ spim = <<>> THEN 0 ELSE call[p].len
  <2>1. p \in Thread
    BY QueueFacts DEF IInv
  <2>2. call[p] \in Call /\ call[p].len > 0
    BY <2>1 DEF IInv, Underway, TypeOK
  <2>3. p \notin Done
    BY DEF IInv, Underway, Done
  <2> QED
    BY <2>1, <2>2, <2>3 DEF Left, Call
<1> QED
  BY <1>1, <1>2 DEF Left

\* A step after which nothing is different for the service.
LEMMA Same ==
  ASSUME queue' = queue, (spim' = <<>>) <=> (spim = <<>>),
         \A p \in Elements(queue) : call'[p] = call[p],
         Done' = Done
  PROVE  UNCHANGED Service!vars
<1>1. \A p \in Thread : Left(p)' = Left(p)
  BY DEF Left
<1> QED
  BY <1>1 DEF Service!vars

\* pi_spi_open, pi_spi_close, the calls that abort and a caller that comes to wait
\* are stutters.
LEMMA MapStutter ==
  ASSUME IInv, IInv', NEW p \in Thread,
         Open(p) \/ Close(p) \/ Wait(p) \/ \E c \in Calls : Abort(p, c)
  PROVE  UNCHANGED Service!vars
<1>1. UNCHANGED <<queue, spim, call, task>>
  <2>1. CASE Open(p)
    BY <2>1 DEF Open, app
  <2>2. CASE Close(p)
    BY <2>2, CloseInv
  <2>3. CASE Wait(p)
    BY <2>3 DEF Wait
  <2>4. ASSUME NEW c \in Calls, Abort(p, c) PROVE UNCHANGED <<queue, spim, call, task>>
    BY <2>4 DEF Abort
  <2> QED
    BY <2>1, <2>2, <2>3, <2>4
<1>2. \A q \in Thread : pc'[q] = "detached" <=> pc[q] = "detached"
  <2>1. pc \in [Thread -> Pc]
    BY DEF IInv, TypeOK
  <2>2. CASE Open(p) \/ Close(p)
    BY <2>2 DEF Open, Close, app
  <2>3. CASE Wait(p)
    BY <2>1, <2>3 DEF Wait
  <2>4. ASSUME NEW c \in Calls, Abort(p, c)
        PROVE  \A q \in Thread : pc'[q] = "detached" <=> pc[q] = "detached"
    BY <2>1, <2>4 DEF Abort, Called
  <2> QED
    BY <2>2, <2>3, <2>4
<1>3. Done' = Done
  BY <1>1, <1>2 DEF Done
<1> QED
  BY <1>1, <1>3, Same

\* An accepted transfer.
LEMMA MapAccept ==
  ASSUME IInv, IInv', NEW p \in Thread, NEW c \in Calls, Start(p, c) \/ Enqueue(p, c)
  PROVE  Service!Accept(p, "spim")
<1>1. Accepted(p, c)
  BY DEF Start, Enqueue
<1>2. /\ p \notin Elements(queue) /\ queue' = Append(queue, p)
      /\ pc[p] = "idle" /\ ~task[p].done /\ ~task'[p].done
      /\ Elements(queue') = Elements(queue) \cup {p}
      /\ c.len \in Nat \ {0} /\ call'[p] = c
      /\ \A q \in Thread \ {p} : pc'[q] = pc[q] /\ task'[q] = task[q] /\ call'[q] = call[q]
      /\ Elements(queue) \subseteq Thread
  BY <1>1, AcceptedFacts, QueueFacts DEF IInv
<1>3. /\ spim' # <<>> \/ (queue # <<>> /\ Head(queue') = Head(queue) /\ spim' = spim
                          /\ Head(queue) \in Elements(queue))
      /\ queue = <<>> \/ (Head(queue') = Head(queue) /\ spim' = spim)
  BY StartInv, EnqueueInv, QueueFacts DEF IInv
<1>4. Done' = Done /\ p \notin Done
  BY <1>2 DEF Done
<1>5. Left(p)' = c.len
  BY <1>2, <1>3 DEF Left
<1>6. \A q \in Thread \ {p} : Left(q)' = Left(q)
  <2>1. ASSUME NEW q \in Thread \ {p} PROVE Left(q)' = Left(q)
    <3>1. CASE q \in Elements(queue)
      <4>1. queue # <<>>
        BY <3>1, EmptyOnce
      <4> QED
        BY <1>2, <1>3, <3>1, <4>1 DEF Left
    <3>2. CASE q \notin Elements(queue)
      BY <1>2, <3>2 DEF Left
    <3> QED
      BY <3>1, <3>2
  <2> QED
    BY <2>1
<1>7. Lefts' = [Lefts EXCEPT ![p] = Lefts'[p]] /\ Lefts'[p] \in Nat \ {0}
  BY <1>2, <1>5, <1>6 DEF Lefts
<1>8. Lines' = [Lines EXCEPT !["spim"] = Append(Lines["spim"], p)]
  BY <1>2 DEF Lines
<1>9. p \notin Service!Waiting
  BY <1>2, Seen
<1> QED
  BY <1>4, <1>7, <1>8, <1>9 DEF Service!Accept, Lines, Lefts

\* A caller that has been reported prepares for its next transfer.
LEMMA MapWaitOn ==
  ASSUME IInv, IInv', NEW p \in Thread, WaitOn(p)
  PROVE  Service!Begin(p)
<1>1. /\ p \notin Elements(queue) /\ pc[p] = "wait"
      /\ task' = [task EXCEPT ![p] = PiTaskZero] /\ pc' = [pc EXCEPT ![p] = "idle"]
      /\ call' = [call EXCEPT ![p] = CallZero] /\ UNCHANGED <<spim, queue>>
  BY WaitOnInv DEF WaitOn
<1>2. /\ \A q \in Thread \ {p} : task'[q] = task[q] /\ pc'[q] = pc[q] /\ call'[q] = call[q]
      /\ ~task'[p].done /\ pc'[p] = "idle"
  BY <1>1 DEF IInv, TypeOK, PiTaskZero
<1>3. Done' = Done \ {p}
  BY <1>1, <1>2 DEF Done
<1>4. \A q \in Thread : Left(q)' = Left(q)
  BY <1>1, <1>2 DEF Left
<1>5. p \notin Service!Waiting
  BY <1>1, Seen
<1> QED
  BY <1>1, <1>3, <1>4, <1>5 DEF Service!Begin

\* The uDMA moves what is left of the transfer at the head of the queue.
LEMMA MapUdma ==
  ASSUME IInv, IInv', Udma
  PROVE  Service!Move("spim")
<1> DEFINE h == Head(queue)
<1>1. /\ queue # <<>> /\ h \in Elements(queue) /\ spim # <<>> /\ spim' = <<>>
      /\ UNCHANGED <<pc, call, task, queue>>
  BY UdmaInv DEF app
<1>2. h \in Thread /\ Lefts[h] = call[h].len /\ call[h].len \in Nat \ {0}
  <2>1. h \in Thread /\ Left(h) = call[h].len /\ call[h].len \in Nat \ {0}
    BY <1>1, Seen
  <2> QED
    BY <2>1 DEF Lefts
<1>3. Lefts'[h] = 0 /\ \A q \in Thread \ {h} : Lefts'[q] = Lefts[q]
  BY <1>1, <1>2 DEF Left, Lefts
<1>4. Done' = Done
  BY <1>1 DEF Done
<1> HIDE DEF h
<1>5. /\ Lefts' = [Lefts EXCEPT ![h] = Lefts'[h]]
      /\ Lefts'[h] \in Nat /\ Lefts'[h] < Lefts[h]
  <2>1. /\ Lefts = [q \in Thread |-> Lefts[q]]
        /\ Lefts' = [q \in Thread |-> Lefts'[q]]
    BY DEF Lefts
  <2>2. Lefts' = [Lefts EXCEPT ![h] = Lefts'[h]]
    BY <1>2, <1>3, <2>1
  <2>3. Lefts'[h] \in Nat /\ Lefts'[h] < Lefts[h]
    BY <1>2, <1>3
  <2> QED
    BY <2>2, <2>3
<1>6. Lines["spim"] = queue /\ Lines' = Lines
  BY <1>1 DEF Lines
<1> QED
  BY <1>1, <1>4, <1>5, <1>6 DEF Service!Move, Lines, Lefts, h

\* The handler reports the transfer at the head of the queue.
LEMMA MapHandler ==
  ASSUME IInv, IInv', Handler
  PROVE  Service!Complete("spim")
<1> DEFINE t == drv.end_of_transfer
           n == drv.fifo_head
<1>1. /\ queue # <<>> /\ t = Head(queue) /\ t \in Elements(queue) /\ t \in Thread
      /\ queue' = Tail(queue) /\ queue' = Fifo /\ spim = <<>>
      /\ task' = (IF task[t].id = "PI_TASK_NONE_ID"
                    THEN [task EXCEPT ![t] = PiTaskRelease(task[t])] ELSE task)
      /\ UNCHANGED <<pc, call>>
      /\ n # NULL => spim' # <<>>
  <2>1. n # NULL => spim' = <<[owner |-> n, kind |-> KindOf(data[n].is_send),
                               len |-> data[n].len]>>
    BY HandlerStep
  <2>2. n # NULL => spim' # <<>>
    <3> DEFINE w == [owner |-> n, kind |-> KindOf(data[n].is_send), len |-> data[n].len]
    <3>1. n # NULL => spim' = <<w>>
      BY <2>1
    <3> HIDE DEF w
    <3> QED
      BY <3>1
  <2> QED
    BY <2>2, HandlerStep
<1>2. /\ Elements(queue') = Elements(queue) \ {t}
      /\ n = NULL <=> queue' = <<>>
  BY <1>1, QueueFacts DEF IInv
<1>3. \A q \in Thread : Left(q)' = Left(q)
  <2>1. CASE n = NULL
    <3>1. Elements(queue') = {}
      BY <1>2, <2>1, EmptyOnce
    <3>2. Elements(queue) \subseteq {t}
      BY <1>2, <3>1
    <3> QED
      BY <1>1, <3>1, <3>2 DEF Left
  <2>2. CASE n # NULL
    <3>1. ASSUME NEW q \in Thread PROVE Left(q)' = Left(q)
      <4>1. CASE q \in Elements(queue')
        BY <1>1, <1>2, <2>2, <4>1 DEF Left
      <4>2. CASE q \notin Elements(queue')
        BY <1>1, <1>2, <4>2 DEF Left
      <4> QED
        BY <4>1, <4>2
    <3> QED
      BY <3>1
  <2> QED
    BY <2>1, <2>2
<1>4. Done' = Done \cup {t}
  <2>1. task \in [Thread -> PiTaskT]
    BY DEF IInv, TypeOK
  <2>2. \A q \in Thread \ {t} : task'[q] = task[q]
    BY <1>1, <2>1
  <2>3. task'[t].done \/ pc'[t] = "detached"
    <3>1. task[t].id = "PI_TASK_NONE_ID" \/ pc[t] = "detached"
      BY <1>1 DEF IInv, Underway
    <3>2. task[t].id = "PI_TASK_NONE_ID" => task'[t].done
      BY <1>1, <2>1 DEF PiTaskRelease, PiTaskT
    <3> QED
      BY <1>1, <3>1, <3>2
  <2> QED
    BY <1>1, <1>2, <2>2, <2>3 DEF Done
<1>5. Left(t) = 0
  BY <1>1 DEF Left
<1>6. /\ Lines["spim"] = queue /\ Lefts[t] = 0 /\ Lefts' = Lefts
      /\ Lines' = [Lines EXCEPT !["spim"] = Tail(Lines["spim"])]
  BY <1>1, <1>3, <1>5 DEF Lines, Lefts
<1> HIDE DEF t
<1> QED
  BY <1>1, <1>4, <1>6 DEF Service!Complete, Lines, Lefts

\* The driver implements TransferService, for any number of devices that are
\* opened and closed under the transfers of others: none overtakes another, each
\* is over once and after the uDMA moved it (spi.c 302-345, 378-590).
THEOREM Implementation == Spec => ImplementsService
<1>1. Init => Service!Init
  <2> SUFFICES ASSUME Init PROVE Service!Init
    OBVIOUS
  <2>1. queue = <<>> /\ Elements(queue) = {}
    BY EmptyOnce DEF Init
  <2>2. \A p \in Thread : Left(p) = 0
    BY <2>1 DEF Left
  <2>3. Done = {}
    BY DEF Init, Done, PiTaskZero
  <2> QED
    BY <2>1, <2>2, <2>3 DEF Service!Init
<1>2. IInv /\ IInv' /\ [Next]_vars => [Service!Next]_(Service!vars)
  <2> SUFFICES ASSUME IInv, IInv', [Next]_vars PROVE [Service!Next]_(Service!vars)
    OBVIOUS
  <2>1. ASSUME NEW p \in Thread,
               Open(p) \/ Close(p) \/ Wait(p) \/ \E c \in Calls : Abort(p, c)
        PROVE  UNCHANGED Service!vars
    BY <2>1, MapStutter
  <2>2. ASSUME NEW p \in Thread, NEW c \in Calls, Start(p, c) \/ Enqueue(p, c)
        PROVE  Service!Next
    BY <2>2, MapAccept DEF Service!Next
  <2>3. ASSUME NEW p \in Thread, WaitOn(p) PROVE Service!Next
    BY <2>3, MapWaitOn DEF Service!Next
  <2>4. CASE Udma
    BY <2>4, MapUdma DEF Service!Next
  <2>5. CASE Handler
    BY <2>5, MapHandler DEF Service!Next
  <2>6. CASE (\E p \in Thread, c \in Calls : Stray(p, c)) \/ HandlerStray \/ Struck
    <3>1. UNCHANGED <<pc, call, task, spim, queue>>
      BY <2>6, AstrayInv
    <3> QED
      BY <3>1, Same DEF Done
  <2>7. CASE UNCHANGED vars
    BY <2>7, Same DEF vars, app, Done
  <2> QED
    BY <2>1, <2>2, <2>3, <2>4, <2>5, <2>6, <2>7 DEF Next
<1>3. Spec => Service!Spec
  BY <1>1, <1>2, Invariance, PTL DEF Spec, Service!Spec
<1> QED
  BY <1>3 DEF ImplementsService

=============================================================================
