-------------------------------- MODULE Spi --------------------------------
(***************************************************************************)
(* The SPI master driver (drivers/spi.c), for one interface.  Devices are  *)
(* opened and closed; a transfer goes to the uDMA at once when the slot     *)
(* end_of_transfer is free and waits in the fifo otherwise; the handler of  *)
(* the end-of-transfer event releases the waiter and starts the next one.   *)
(*                                                                         *)
(* An open that runs out of memory may leave driver data without a fifo or  *)
(* without the number of its interface.  Later opens take them as they are, *)
(* and calls then go through a null pointer or to interface 0.  The model   *)
(* records that in fault and goes no further.                              *)
(*                                                                         *)
(* Every operation but the waiting masks interrupts from its first access   *)
(* to shared state to its last, so each is one step.  A thread stands for a *)
(* pi_task_t and the device it is used with: an application that keeps      *)
(* several transfers under way is several threads.                          *)
(***************************************************************************)
EXTENDS Integers, FiniteSets, Sequences, PmsisTask, TaskFifo

CONSTANTS
  Thread,      \* clients, each with a pi_device and a pi_task_t
  NULL,        \* the null pointer
  CsBlock,     \* what pi_data_malloc may return for a struct spim_cs_data
  ChipSelect,  \* conf->cs of each thread's device
  Calls,       \* the calls that are made: a subset of Call
  MAX_LEN,     \* the longest transfer of one uDMA command: 8192 * 8 bits
  Interface,   \* the numbers conf->itf may have, the same for every device
  OpenOutcome, \* how the allocations of an open end: a subset of OutcomeKind
  MAX_OPEN     \* a bound on nb_open, which failing opens let grow

\* All goes well; there is no memory for the driver data, for its fifo or for
\* the chip-select data; the clock divider does not fit.
OutcomeKind == {"ok", "no_data", "no_fifo", "no_memory", "clk_div"}

ASSUME ThreadAssumption == NULL \notin Thread /\ IsFiniteSet(Thread)
ASSUME BlockAssumption == NULL \notin CsBlock /\ IsFiniteSet(CsBlock)
\* The arguments of a call; "xfer" stands for full duplex and for the calls with
\* microcode.
Call == [api : {"blocking", "async", "callback"},
         kind : {"send", "receive", "xfer"}, len : Nat]
CallZero == [api |-> "blocking", kind |-> "send", len |-> 0]

ASSUME UseAssumption ==
  /\ Calls \subseteq Call /\ \A c \in Calls : c.len > 0
  /\ MAX_LEN \in Nat /\ Interface \subseteq Nat
  /\ OpenOutcome \subseteq OutcomeKind /\ MAX_OPEN \in Nat
ASSUME ChipSelectAssumption == ChipSelect \in [Thread -> Nat]

VARIABLES
  pc,        \* where each thread is
  call,      \* the arguments of each thread's transfer
  task,      \* each thread's pi_task_t: how its end is notified
  data,      \* its data[] fields: what exec_next_transfer reads
  next,      \* its next field
  device,    \* device->data of each thread
  opened,    \* the threads whose device is open, as the application sees it
  live,      \* the chip-select blocks allocated
  cs,        \* the contents of each block
  drv,       \* the interface's struct spim_driver_data and spim_drv_fifo
  attached,  \* __g_spim_drv_data[itf] is set and the handler of the end of
             \* transfer installed: pi_spi_open and pi_spi_close do both at once
  itf,       \* the number of the interface
  fault,     \* how incomplete driver data have led the driver astray, if so
  spim,      \* the transfers programmed into the uDMA, oldest first
  eot,       \* the end-of-transfer events not yet serviced
  queue      \* history: the transfers accepted and not reported, oldest first

app == <<pc, call, task>>
memory == <<device, opened, live, cs>>
vars == <<app, data, next, memory, drv, attached, itf, fault, spim, eot, queue>>

(***************************************************************************)
(* Types                                                                   *)
(***************************************************************************)

Pc == {"idle", "wait", "sent", "detached", "aborted"}

\* data[0], data[2] and data[5] of a pi_task_t in the fifo.
Data == [cs_data : CsBlock \cup {NULL}, len : Nat, is_send : {0, 1}]
DataZero == [cs_data |-> NULL, len |-> 0, is_send |-> 0]

\* A transfer as the uDMA knows it: the buffer (its owner's), its direction
\* and its length.
Programmed == [owner : Thread, kind : {"send", "receive"}, len : Nat]

CsData == [next : CsBlock \cup {NULL}, cs : Nat]
CsZero == [next |-> NULL, cs |-> 0]

Driver ==
  [fifo_head : Thread \cup {NULL}, fifo_tail : Thread \cup {NULL},
   end_of_transfer : Thread \cup {NULL}, nb_open : Nat,
   cs_list : CsBlock \cup {NULL}, device_id : Nat,
   fifo : BOOLEAN]  \* drv_fifo is not null

\* As memset leaves it.
DriverZero ==
  [fifo_head |-> NULL, fifo_tail |-> NULL, end_of_transfer |-> NULL,
   nb_open |-> 0, cs_list |-> NULL, device_id |-> 0, fifo |-> FALSE]

\* Something went through a null pointer; it reached interface 0 instead of its
\* own; another interface did so, and this is interface 0.
Fault == {"none", "null", "interface", "struck"}

TypeOK ==
  /\ pc \in [Thread -> Pc] /\ call \in [Thread -> Call]
  /\ task \in [Thread -> PiTaskT] /\ data \in [Thread -> Data]
  /\ next \in [Thread -> Thread \cup {NULL}]
  /\ device \in [Thread -> CsBlock \cup {NULL}]
  /\ opened \subseteq Thread /\ live \subseteq CsBlock
  /\ cs \in [CsBlock -> CsData]
  /\ drv \in Driver /\ attached \in BOOLEAN
  /\ itf \in Interface /\ fault \in Fault
  /\ spim \in Seq(Programmed) /\ eot \in Nat
  /\ queue \in Seq(Thread)

Init ==
  /\ pc = [p \in Thread |-> "idle"]
  /\ call = [p \in Thread |-> CallZero]
  /\ task = [p \in Thread |-> PiTaskZero]
  /\ data = [p \in Thread |-> DataZero]
  /\ next = [p \in Thread |-> NULL]
  /\ device = [p \in Thread |-> NULL]
  /\ opened = {} /\ live = {}
  /\ cs = [b \in CsBlock |-> CsZero]
  /\ drv = DriverZero /\ attached = FALSE
  /\ itf \in Interface /\ fault = "none"
  /\ spim = <<>> /\ eot = 0 /\ queue = <<>>

\* A step within what the model follows.
Sound == fault = "none" /\ UNCHANGED <<itf, fault>>

(***************************************************************************)
(* The list of chip selects                                                *)
(***************************************************************************)

\* __pi_spim_get_cs_data: the first block along the list with chip select c.
CsFrom(d, c) ==
  LET node[n \in Nat] == IF n = 0 THEN d.cs_list ELSE cs[node[n - 1]].next
      stop == CHOOSE n \in 0..Cardinality(CsBlock) :
                /\ node[n] = NULL \/ cs[node[n]].cs = c
                /\ \A m \in 0..(n - 1) : node[m] # NULL /\ cs[node[m]].cs # c
  IN node[stop]

GetCsData(d, c) == IF d.cs_list = NULL THEN NULL ELSE CsFrom(d, c)

\* __pi_spim_cs_data_add: the block links to the head of the list, and the head
\* becomes what the block links to.
CsList(d, b) == d.cs_list

\* __pi_spim_cs_data_del on the block it finds: the head pointer stays.
CsAfterDel(d, c) ==
  LET b == GetCsData(d, c) IN
  IF b = NULL THEN cs
  ELSE [x \in CsBlock |->
          IF x = b THEN [cs[x] EXCEPT !.next = NULL]
          ELSE IF cs[x].next = b THEN [cs[x] EXCEPT !.next = cs[b].next]
          ELSE cs[x]]

(***************************************************************************)
(* pi_spi_open and pi_spi_close                                            *)
(***************************************************************************)

\* Those of a first open that finds memory for them and their fifo.
DriverData == [DriverZero EXCEPT !.fifo = TRUE, !.device_id = itf]

DriverAfterOpen_Uncounted(d) ==
  IF attached THEN d ELSE [DriverData EXCEPT !.nb_open = 1]

\* The driver data is made by the first open, and every open is counted.
DriverAfterOpen(d) == [(IF attached THEN d ELSE DriverData) EXCEPT !.nb_open = @ + 1]

\* What an open that goes through a null pointer comes to: memset does, before
\* either allocation is tested, and if that does no harm the open returns -1.
NullReturn == fault' \in {"none", "null"} /\ UNCHANGED <<memory, itf>>

\* A first open finds no memory for its driver data.  (That it installs the
\* handlers makes no difference: no event comes while no device is open.)
NoData ==
  /\ ~attached /\ "no_data" \in OpenOutcome
  /\ NullReturn /\ UNCHANGED <<drv, attached>>

\* It finds none for the fifo: the driver data stay, with device_id not set.
NoFifo ==
  /\ ~attached /\ "no_fifo" \in OpenOutcome
  /\ NullReturn /\ attached' = TRUE /\ drv' = DriverZero

\* The block an allocation returns (which one is of no consequence).
New == CHOOSE b \in CsBlock : b \notin live

\* With driver data d, the chip select of p is found in the list, or a block
\* allocated for it.  An open that fails then has been counted already, and keeps
\* a block whose clock divider did not fit.
OpenCs(p, d) ==
  LET b == GetCsData(d, ChipSelect[p]) IN
  /\ attached' = TRUE
  /\ \/ /\ b # NULL
        /\ device' = [device EXCEPT ![p] = b]
        /\ opened' = opened \cup {p}
        /\ drv' = d
        /\ UNCHANGED <<live, cs>>
     \/ /\ b = NULL /\ "ok" \in OpenOutcome
        /\ live # CsBlock
        /\ live' = live \cup {New}
        /\ cs' = [cs EXCEPT ![New] = [next |-> d.cs_list, cs |-> ChipSelect[p]]]
        /\ device' = [device EXCEPT ![p] = New]
        /\ drv' = [d EXCEPT !.cs_list = CsList(d, New)]
        /\ opened' = opened \cup {p}
     \/ /\ b = NULL /\ "no_memory" \in OpenOutcome
        /\ device' = [device EXCEPT ![p] = NULL]
        /\ drv' = d
        /\ UNCHANGED <<opened, live, cs>>
     \/ /\ b = NULL /\ "clk_div" \in OpenOutcome
        /\ live # CsBlock
        /\ live' = live \cup {New}
        /\ device' = [device EXCEPT ![p] = NULL]
        /\ drv' = d
        /\ UNCHANGED <<opened, cs>>
  /\ UNCHANGED <<itf, fault>>

Open(p) ==
  /\ fault = "none" /\ pc[p] = "idle" /\ p \notin opened
  /\ drv.nb_open < MAX_OPEN
  /\ NoData \/ NoFifo \/ OpenCs(p, DriverAfterOpen(drv))
  /\ UNCHANGED <<app, data, next, spim, eot, queue>>

\* The application closes a device whose transfer is over.  A close that is not
\* the last frees the chip select.  The last one frees the driver data and the
\* fifo, with what is queued there, but not the chip select.  It goes by device_id:
\* if that was never set, interface 0 is detached and this one is left attached to
\* what was freed.  (What freed memory and a closed device hold, which nothing
\* reads, is forgotten.)
Close(p) ==
  LET d == [drv EXCEPT !.nb_open = @ - 1] IN
  /\ fault = "none"
  /\ p \in opened /\ pc[p] = "idle"
  /\ opened' = opened \ {p}
  /\ device' = [device EXCEPT ![p] = NULL]
  /\ LET after == CsAfterDel(drv, cs[device[p]].cs) IN
     cs' = IF d.nb_open = 0 THEN after ELSE [after EXCEPT ![device[p]] = CsZero]
  /\ \/ /\ d.nb_open = 0 /\ drv.device_id = itf
        /\ attached' = FALSE
        /\ drv' = DriverZero
        /\ queue' = <<>>
        /\ UNCHANGED <<live, fault>>
     \/ /\ d.nb_open = 0 /\ drv.device_id # itf
        /\ fault' = "interface"
        /\ UNCHANGED <<live, drv, attached, queue>>
     \/ /\ d.nb_open # 0
        /\ live' = live \ {device[p]}
        /\ drv' = d
        /\ UNCHANGED <<attached, fault, queue>>
  /\ UNCHANGED <<app, data, next, itf, spim, eot>>

(***************************************************************************)
(* Transfers                                                               *)
(***************************************************************************)

\* The caller prepares its pi_task_t and calls the driver.
Called(p) == pc[p] = "idle" /\ p \in opened

\* Full duplex is not, nor is a transfer of several commands.
Implemented(c) == c.kind # "xfer" /\ c.len <= MAX_LEN

\* What is not implemented ends in abort().
Abort(p, c) ==
  /\ Sound /\ Called(p) /\ ~Implemented(c)
  /\ pc' = [pc EXCEPT ![p] = "aborted"]
  /\ UNCHANGED <<call, task, data, next, memory, drv, attached, spim, eot, queue>>

Accepted(p, c) ==
  /\ Sound /\ Called(p) /\ Implemented(c)
  /\ call' = [call EXCEPT ![p] = c]
  /\ task' = [task EXCEPT ![p] = IF c.api = "callback" THEN PiTaskCallback
                                                       ELSE PiTaskBlock(TRUE)]
  /\ pc' = [pc EXCEPT ![p] = CASE c.api = "blocking" -> "wait"
                               [] c.api = "async" -> "sent"
                               [] c.api = "callback" -> "detached"]
  /\ queue' = Append(queue, p)
  /\ UNCHANGED <<memory, attached, eot>>

Enqueued(p, kind, len) == Append(spim, [owner |-> p, kind |-> kind, len |-> len])

SlotFree_Fifo(d) == d.fifo_head = NULL

\* No transfer is under way.
SlotFree(d) == d.end_of_transfer = NULL

\* __pi_spi_send_async and __pi_spi_receive_async on a free slot.
Start(p, c) ==
  /\ Accepted(p, c) /\ SlotFree(drv) /\ drv.device_id = itf
  /\ drv' = [drv EXCEPT !.end_of_transfer = p]
  /\ spim' = Enqueued(p, c.kind, c.len)
  /\ UNCHANGED <<data, next>>

IsSend(kind) == IF kind = "send" THEN 1 ELSE 0

TailAfterEnqueue_Kept(tail, p) == tail

TailAfterEnqueue(tail, p) == p

\* __pi_spim_drv_fifo_enqueue: what it does to the fifo and to the links.
DriverAfterEnqueue(d, p) ==
  IF d.fifo_head = NULL
    THEN [d EXCEPT !.fifo_head = p, !.fifo_tail = p]
    ELSE [d EXCEPT !.fifo_tail = TailAfterEnqueue(@, p)]

NextAfterEnqueue(d, p) ==
  IF d.fifo_head = NULL
    THEN [next EXCEPT ![p] = NULL]
    ELSE [next EXCEPT ![p] = NULL, ![d.fifo_tail] = p]

\* The same calls on a busy slot.
Enqueue(p, c) ==
  /\ Accepted(p, c) /\ ~SlotFree(drv) /\ drv.fifo
  /\ data' = [data EXCEPT ![p] = [cs_data |-> device[p], len |-> c.len,
                                  is_send |-> IsSend(c.kind)]]
  /\ drv' = DriverAfterEnqueue(drv, p)
  /\ next' = NextAfterEnqueue(drv, p)
  /\ UNCHANGED spim

\* An asynchronous caller comes to wait.
Wait(p) ==
  /\ Sound
  /\ pc[p] = "sent"
  /\ pc' = [pc EXCEPT ![p] = "wait"]
  /\ UNCHANGED <<call, task, data, next, memory, drv, attached, spim, eot, queue>>

\* pi_task_wait_on ends and the pi_task_t, a local, is gone with its contents.
WaitOn(p) ==
  /\ Sound
  /\ pc[p] = "wait" /\ task[p].done
  /\ task' = [task EXCEPT ![p] = PiTaskZero]
  /\ pc' = [pc EXCEPT ![p] = "idle"]
  /\ call' = [call EXCEPT ![p] = CallZero]
  /\ data' = [data EXCEPT ![p] = DataZero]
  /\ next' = [next EXCEPT ![p] = NULL]
  /\ UNCHANGED <<memory, drv, attached, spim, eot, queue>>

(***************************************************************************)
(* The uDMA and its event                                                  *)
(***************************************************************************)

\* The oldest transfer in the uDMA has moved and its event is raised, with the
\* mask that pi_spi_open set.
Udma ==
  /\ Sound
  /\ spim # <<>>
  /\ spim' = Tail(spim)
  /\ eot' = eot + 1
  /\ UNCHANGED <<app, data, next, memory, drv, attached, queue>>

\* __pi_spim_drv_fifo_pop on a fifo that is not empty.
DriverAfterPop(d) ==
  LET h == next[d.fifo_head] IN
  [d EXCEPT !.fifo_head = h, !.fifo_tail = IF h = NULL THEN NULL ELSE @]

SlotAfterEot_Kept(d) == d

\* The slot is freed before the next transfer takes it.
SlotAfterEot(d) == [d EXCEPT !.end_of_transfer = NULL]

KindOf(is_send) == IF is_send = 1 THEN "send" ELSE "receive"

\* spim_eot_handler.  A task with a callback is not notified at all.  The next
\* transfer is popped and goes through the send and receive calls, which start
\* it if the slot is free and put it back into the fifo if not.
Handler ==
  LET t == drv.end_of_transfer
      d == SlotAfterEot(drv)
      n == d.fifo_head
      e == DriverAfterPop(d)
  IN
  /\ Sound
  /\ eot > 0 /\ attached /\ drv.fifo
  /\ eot' = eot - 1
  /\ task' = IF t # NULL /\ task[t].id = "PI_TASK_NONE_ID"
               THEN [task EXCEPT ![t] = PiTaskRelease(task[t])] ELSE task
  /\ queue' = IF t = NULL THEN queue ELSE Tail(queue)
  /\ IF n = NULL
       THEN drv' = d /\ UNCHANGED <<spim, next>>
     ELSE IF SlotFree(d)
       THEN /\ drv' = [e EXCEPT !.end_of_transfer = n]
            /\ spim' = Enqueued(n, KindOf(data[n].is_send), data[n].len)
            /\ UNCHANGED next
     ELSE /\ drv' = DriverAfterEnqueue(e, n)
          /\ next' = NextAfterEnqueue(e, n)
          /\ UNCHANGED spim
  /\ UNCHANGED <<pc, call, data, memory, attached>>

(***************************************************************************)
(* What incomplete driver data lead to                                     *)
(***************************************************************************)

\* A transfer on a free slot is programmed into interface 0 instead of its own; one
\* on a busy slot goes into the fifo that is not there.
Stray(p, c) ==
  /\ fault = "none" /\ Called(p) /\ Implemented(c)
  /\ \/ SlotFree(drv) /\ drv.device_id # itf /\ fault' = "interface"
     \/ ~SlotFree(drv) /\ ~drv.fifo /\ fault' = "null"
  /\ UNCHANGED <<app, data, next, memory, drv, attached, itf, spim, eot, queue>>

\* The handler looks into the fifo that is not there.
HandlerStray ==
  /\ fault = "none" /\ eot > 0 /\ attached /\ ~drv.fifo
  /\ fault' = "null"
  /\ UNCHANGED <<app, data, next, memory, drv, attached, itf, spim, eot, queue>>

\* A transfer or the last close of another interface reaches this one, which is
\* then programmed by two or detached under its devices.
Struck ==
  /\ fault = "none" /\ itf = 0 /\ opened # {} /\ "no_fifo" \in OpenOutcome
  /\ fault' = "struck"
  /\ UNCHANGED <<app, data, next, memory, drv, attached, itf, spim, eot, queue>>

(***************************************************************************)
(* Specification                                                           *)
(***************************************************************************)

Next ==
  \/ \E p \in Thread :
       \/ Open(p) \/ Close(p)
       \/ \E c \in Calls : Abort(p, c) \/ Start(p, c) \/ Enqueue(p, c) \/ Stray(p, c)
       \/ Wait(p) \/ WaitOn(p)
  \/ Udma \/ Handler
  \/ HandlerStray \/ Struck

Spec == Init /\ [][Next]_vars

\* The uDMA finishes what it starts, its event is serviced, and a thread that
\* polls its task is scheduled.
Fairness ==
  /\ WF_vars(Udma) /\ WF_vars(Handler \/ HandlerStray)
  /\ \A p \in Thread : WF_vars(WaitOn(p))

FairSpec == Spec /\ Fairness

(***************************************************************************)
(* Properties                                                              *)
(***************************************************************************)

\* The slot holds the oldest accepted transfer, and along the next links the
\* handler finds the others, in the order they were accepted: nothing waits in
\* the fifo of an idle interface (the branches of __pi_spi_send_async and
\* spim_eot_handler).
QueueLinked ==
  /\ drv.end_of_transfer = IF queue = <<>> THEN NULL ELSE Head(queue)
  /\ Represents(IF queue = <<>> THEN <<>> ELSE Tail(queue),
                drv.fifo_head, drv.fifo_tail, next, NULL)

\* What the uDMA executes, or has executed with its event still to come, is the
\* transfer in the slot, programmed as its caller asked: the commands of a chip
\* select are never rewritten under the uDMA, also when the handler rebuilds the
\* call from data[].
BusOwned ==
  /\ Len(spim) + eot = IF drv.end_of_transfer = NULL THEN 0 ELSE 1
  /\ \A i \in DOMAIN spim :
       LET x == spim[i] IN
       x.owner = drv.end_of_transfer /\ x.kind = call[x.owner].kind
                                     /\ x.len = call[x.owner].len

\* Whatever other threads open, fail to open and close, an open device keeps its
\* interface and a chip select that is allocated, and a transfer that is queued
\* keeps those it will be started with (nb_open, counted before the allocations
\* that may fail, and pi_spi_close).  This ends where driver data without a fifo
\* lead the driver astray: they are what an open leaves that fails for want of it,
\* and until then every transfer under way is on the interface of its devices.
\* Only interface 0 can be led astray with its own driver data complete.
\* (Chip selects stay allocated because each device has a block of its own, the
\* list being empty after __pi_spim_cs_data_add: a block that two devices shared,
\* as pi_spi_open means them to, would be freed under one by the close of the other.)
DeviceServed ==
  /\ \A p \in opened : device[p] \in live /\ (fault = "none" => attached)
  /\ \A i \in DOMAIN queue :
       i > 1 => data[queue[i]].cs_data \in live /\ queue[i] \in opened
  /\ queue # <<>> => drv.device_id = itf
  /\ fault # "none" => ~drv.fifo \/ (fault = "struck" /\ itf = 0)

\* Every transfer that is waited for ends, unless the driver is led astray.
TransferEnds ==
  \A p \in Thread : pc[p] = "wait" ~> pc[p] = "idle" \/ fault # "none"

\* Once every device is closed, all that was allocated for them is free.
AllFreed == opened = {} => live = {} /\ ~attached

=============================================================================
