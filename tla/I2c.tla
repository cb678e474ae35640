-------------------------------- MODULE I2c --------------------------------
(***************************************************************************)
(* The I2C driver (drivers/i2c.c), for one interface.  A transfer is a      *)
(* sequence of commands the driver writes into its own buffer and hands to  *)
(* the uDMA, with the data in a second buffer; the TX event of a buffer     *)
(* makes the handler send the stop sequence, and the end of the transfer is *)
(* an event of its own (EOT) on the chips that have one, the next TX event  *)
(* on the others.  One transfer occupies the slot buf[0], the others wait   *)
(* in a fifo threaded through their pi_task_t.                              *)
(*                                                                         *)
(* Transfers and detections mask interrupts from end to end, so each is one *)
(* step.  Opening and closing do not: they are steps here because one       *)
(* thread is taken to open and close at a time, as only the transfers of    *)
(* the others touch what an open writes (see Open).                         *)
(***************************************************************************)
EXTENDS Integers, FiniteSets, Sequences, PmsisTask, TaskFifo

CONSTANTS
  Thread,    \* clients, each with a pi_device and a pi_task_t
  NULL,      \* the null pointer
  Eot,       \* the builds: whether CONFIG_UDMA_I2C_EOT is set
  Ram,       \* the chips: whether the page at address 0 can be written
  PlainCall, \* the calls made of a build without end-of-transfer events
  EotCall,   \* the calls made of a build with them
  MAX_SIZE,  \* the longest repetition of a command: 255
  LINK,      \* the word a cs_data address is, seen as a size
  WORD,      \* sizes are computed modulo 2^32
  MAX_OPEN,  \* a bound on nb_open
  Careful    \* a device is opened, or the bus scanned, only while it is idle

ASSUME ThreadAssumption == NULL \notin Thread /\ IsFiniteSet(Thread)
ASSUME BuildAssumption ==
  /\ Eot \subseteq BOOLEAN /\ Ram \subseteq BOOLEAN /\ Careful \in BOOLEAN
  /\ WORD \in Nat /\ MAX_SIZE \in 1..(WORD - 1) /\ LINK \in 1..(WORD - 1)
  /\ MAX_OPEN \in Nat

VARIABLES
  eot,      \* the build
  ram,      \* the chip
  pc,       \* where each thread is
  call,     \* the arguments of each thread's transfer
  task,     \* each thread's pi_task_t: how its end is notified
  data,     \* its data[1..3]: what the handler starts the transfer from
  next,     \* its next field
  opened,   \* the threads whose device is open
  attached, \* g_i2c_itf_data[itf] is set and the handlers are installed
  drv,      \* the struct i2c_itf_data_s
  pending,  \* what driver_data->pending, a null pointer, points to
  tx, rx,   \* the buffers enqueued on the uDMA channels, oldest first
  events,   \* the SoC events raised and not serviced, oldest first
  queue     \* history: the transfers accepted and not reported, oldest first

platform == <<eot, ram>>
app == <<pc, call, task>>
udma == <<tx, rx>>
vars == <<platform, app, data, next, opened, attached, drv, pending, udma,
          events, queue>>

(***************************************************************************)
(* Types                                                                   *)
(***************************************************************************)

Pc == {"idle", "wait", "sent", "detached"}

\* A refused detection is one on another interface, or at a rate no clock divider
\* reaches.
Call == [api : {"blocking", "async", "callback"},
         kind : {"read", "write", "detect", "refused"}, size : 0..(WORD - 1), stop : BOOLEAN]
CallZero == [api |-> "blocking", kind |-> "read", size |-> 0, stop |-> FALSE]

ASSUME CallAssumption ==
  /\ PlainCall \subseteq Call /\ EotCall \subseteq Call
  /\ \A c \in PlainCall \cup EotCall :
       c.kind \in {"detect", "refused"} => c.api = "blocking" /\ c.size = 1 /\ c.stop

Data == [kind : {"read", "write"}, size : 0..(WORD - 1), stop : BOOLEAN]
DataZero == [kind |-> "read", size |-> 0, stop |-> FALSE]

\* A buffer of the TX channel: a command sequence or the data of a thread, or
\* one of the two fixed sequences.
Buffer == [kind : {"cmd", "data"}, owner : Thread]
            \cup [kind : {"stop", "eot"}, owner : {NULL}]
FixedSeq(kind) == [kind |-> kind, owner |-> NULL]

\* cmd is whose transfer i2c_cmd_seq is written for.
Driver ==
  [slot : Thread \cup {NULL}, fifo_head : Thread \cup {NULL},
   fifo_tail : Thread \cup {NULL}, stop_send : BOOLEAN, eot_send : BOOLEAN,
   cmd : Thread \cup {NULL}, nb_open : Nat]
DriverZero ==
  [slot |-> NULL, fifo_head |-> NULL, fifo_tail |-> NULL,
   stop_send |-> FALSE, eot_send |-> FALSE, cmd |-> NULL, nb_open |-> 0]

Pending == [repeat : 0..(WORD - 1), repeat_size : 0..(WORD - 1), stop : BOOLEAN]
PendingZero == [repeat |-> 0, repeat_size |-> 0, stop |-> FALSE]

TypeOK ==
  /\ eot \in BOOLEAN /\ ram \in BOOLEAN
  /\ pc \in [Thread -> Pc] /\ call \in [Thread -> Call]
  /\ task \in [Thread -> PiTaskT] /\ data \in [Thread -> Data]
  /\ next \in [Thread -> Thread \cup {NULL}]
  /\ opened \subseteq Thread /\ attached \in BOOLEAN
  /\ drv \in Driver /\ pending \in Pending
  /\ tx \in Seq(Buffer) /\ rx \in Seq(Thread)
  /\ events \in Seq({"tx", "eot"}) /\ queue \in Seq(Thread)

Init ==
  /\ eot \in Eot /\ ram \in Ram
  /\ pc = [p \in Thread |-> "idle"]
  /\ call = [p \in Thread |-> CallZero]
  /\ task = [p \in Thread |-> PiTaskZero]
  /\ data = [p \in Thread |-> DataZero]
  /\ next = [p \in Thread |-> NULL]
  /\ opened = {} /\ attached = FALSE
  /\ drv = DriverZero /\ pending = PendingZero
  /\ tx = <<>> /\ rx = <<>> /\ events = <<>> /\ queue = <<>>

Busy(d) == d.slot # NULL

(***************************************************************************)
(* __pi_i2c_open and __pi_i2c_close                                        *)
(***************************************************************************)

OpenedDriver_Uncounted(d) == IF attached THEN d ELSE DriverZero

\* The first open makes the driver data.
OpenedDriver(d) == [(IF attached THEN d ELSE DriverZero) EXCEPT !.nb_open = @ + 1]

\* __pi_i2c_cs_data_add finds the end of an empty list, a null pointer, and
\* writes the address of the cs_data to its next field: the offset of next is
\* that of pending_repeat.
PendingAfterAdd == IF ram THEN [pending EXCEPT !.repeat = LINK] ELSE pending

\* An open that gets no memory for its cs_data, or whose clock divider does not
\* fit, returns before it is counted and leaves the driver data.
Open(p) ==
  /\ pc[p] = "idle" /\ p \notin opened
  /\ Careful => ~Busy(drv)
  /\ attached' = TRUE
  /\ \/ /\ drv.nb_open < MAX_OPEN
        /\ opened' = opened \cup {p}
        /\ drv' = OpenedDriver(drv)
        /\ pending' = PendingAfterAdd
     \/ /\ drv' = IF attached THEN drv ELSE DriverZero
        /\ UNCHANGED <<opened, pending>>
  /\ UNCHANGED <<platform, app, data, next, udma, events, queue>>

\* The application closes a device whose transfer is over.  The last close
\* removes the handlers and the driver data, which it frees twice.
Close(p) ==
  LET d == [drv EXCEPT !.nb_open = @ - 1] IN
  /\ pc[p] = "idle" /\ p \in opened
  /\ opened' = opened \ {p}
  /\ IF d.nb_open = 0 THEN attached' = FALSE /\ drv' = DriverZero
                      ELSE drv' = d /\ UNCHANGED attached
  /\ UNCHANGED <<platform, app, data, next, pending, udma, events, queue>>

(***************************************************************************)
(* Starting a transfer                                                     *)
(***************************************************************************)

Long(x) == x.size > MAX_SIZE

\* The size is put into pending when it needs several commands.
PendingAfterExec(x) ==
  IF ~ram THEN pending
  ELSE IF Long(x)
    THEN [repeat |-> MAX_SIZE, repeat_size |-> x.size, stop |-> x.stop]
    ELSE [pending EXCEPT !.repeat = 0]

FlagsAfterExec_Kept(d, x) == IF Long(x) THEN d ELSE [d EXCEPT !.stop_send = x.stop]

\* What remains to be sent after the commands.
FlagsAfterExec(d, x) ==
  IF Long(x) THEN d ELSE [d EXCEPT !.stop_send = x.stop, !.eot_send = TRUE]

Sequence(p, x) ==
  <<[kind |-> "cmd", owner |-> p]>>
    \o IF x.kind = "write" /\ x.size > 0
         THEN <<[kind |-> "data", owner |-> p]>> ELSE <<>>

\* __pi_i2c_copy_exec_read and __pi_i2c_copy_exec_write: the commands are
\* written, the slot is taken and the buffers are enqueued.  A read of no bytes
\* does nothing at all.
Exec(d, p, x) ==
  IF x.kind = "read" /\ x.size = 0
    THEN drv' = d /\ UNCHANGED <<pending, udma>>
    ELSE /\ drv' = [FlagsAfterExec(d, x) EXCEPT !.slot = p, !.cmd = p]
         /\ pending' = PendingAfterExec(x)
         /\ tx' = tx \o Sequence(p, x)
         /\ rx' = IF x.kind = "read" THEN Append(rx, p) ELSE rx

\* The caller prepares its pi_task_t and calls the driver.
Called(p, c) ==
  /\ pc[p] = "idle" /\ p \in opened
  /\ c \in IF eot THEN EotCall ELSE PlainCall
  /\ call' = [call EXCEPT ![p] = c]
  /\ task' = [task EXCEPT ![p] = IF c.api = "callback" THEN PiTaskCallback
                                                       ELSE PiTaskBlock(TRUE)]
  /\ pc' = [pc EXCEPT ![p] = CASE c.api = "blocking" -> "wait"
                               [] c.api = "async" -> "sent"
                               [] c.api = "callback" -> "detached"]
  /\ UNCHANGED <<platform, opened, attached, events>>

\* The driver takes the transfer.
Submit(p, c) == Called(p, c) /\ queue' = Append(queue, p)

Arguments(c) == [kind |-> c.kind, size |-> c.size, stop |-> c.stop]

SlotFree_Fifo(d) == d.fifo_head = NULL

\* __pi_i2c_cb_buf_empty.
SlotFree(d) == d.slot = NULL

\* __pi_i2c_copy on a free slot.
Start(p, c) ==
  /\ c.kind \in {"read", "write"} /\ SlotFree(drv)
  /\ data' = [data EXCEPT ![p] = Arguments(c)]
  /\ next' = [next EXCEPT ![p] = NULL]
  /\ Exec(drv, p, Arguments(c))
  /\ Submit(p, c)

FifoEmpty_Tail(d) == d.fifo_tail = NULL

\* The tail, which no pop resets, would not do.
FifoEmpty(d) == d.fifo_head = NULL

\* __pi_i2c_copy on a busy slot: __pi_i2c_task_fifo_enqueue.
Enqueue(p, c) ==
  /\ c.kind \in {"read", "write"} /\ ~SlotFree(drv)
  /\ data' = [data EXCEPT ![p] = Arguments(c)]
  /\ IF FifoEmpty(drv)
       THEN /\ drv' = [drv EXCEPT !.fifo_head = p, !.fifo_tail = p]
            /\ next' = [next EXCEPT ![p] = NULL]
       ELSE /\ drv' = [drv EXCEPT !.fifo_tail = p]
            /\ next' = [next EXCEPT ![p] = NULL, ![drv.fifo_tail] = p]
  /\ UNCHANGED <<pending, udma>>
  /\ Submit(p, c)

\* __pi_i2c_detect: a read of one byte whose caller neither looks whether the
\* slot is free nor fills in the data of its task.
Detect(p, c) ==
  /\ c.kind = "detect"
  /\ Careful => ~Busy(drv)
  /\ next' = [next EXCEPT ![p] = NULL]
  /\ Exec(drv, p, [kind |-> "read", size |-> 1, stop |-> TRUE])
  /\ Submit(p, c)
  /\ UNCHANGED data

\* __pi_i2c_detect returns -11 or -12; pi_i2c_detect waits all the same.
DetectRefused(p, c) ==
  /\ c.kind = "refused"
  /\ Called(p, c)
  /\ UNCHANGED <<data, next, drv, pending, udma, queue>>

\* An asynchronous caller comes to wait.
Wait(p) ==
  /\ pc[p] = "sent"
  /\ pc' = [pc EXCEPT ![p] = "wait"]
  /\ UNCHANGED <<platform, call, task, data, next, opened, attached, drv,
                 pending, udma, events, queue>>

\* pi_task_wait_on ends and the pi_task_t, a local, is gone with its contents.
WaitOn(p) ==
  /\ pc[p] = "wait" /\ task[p].done
  /\ task' = [task EXCEPT ![p] = PiTaskZero]
  /\ pc' = [pc EXCEPT ![p] = "idle"]
  /\ call' = [call EXCEPT ![p] = CallZero]
  /\ data' = [data EXCEPT ![p] = DataZero]
  /\ next' = [next EXCEPT ![p] = NULL]
  /\ UNCHANGED <<platform, opened, attached, drv, pending, udma, events, queue>>

(***************************************************************************)
(* The uDMA and the bus                                                    *)
(***************************************************************************)

\* The commands of the oldest read have been taken: the bus is reading.
Reading == rx # <<>> /\ [kind |-> "cmd", owner |-> Head(rx)] \notin Elements(tx)

\* The oldest TX buffer has been executed, in the order the commands are given,
\* and raises its event; the end-of-transfer command that ends the fixed
\* sequences of a build that has it raises one more.
UdmaTx ==
  /\ tx # <<>> /\ ~Reading
  /\ tx' = Tail(tx)
  /\ events' = Append(events, "tx")
                 \o IF eot /\ Head(tx).kind \in {"stop", "eot"} THEN <<"eot">> ELSE <<>>
  /\ UNCHANGED <<platform, app, data, next, opened, attached, drv, pending, rx,
                 queue>>

\* What was read has arrived.  (Its event finds a handler that does nothing.)
UdmaRx ==
  /\ Reading
  /\ rx' = Tail(rx)
  /\ UNCHANGED <<platform, app, data, next, opened, attached, drv, pending, tx,
                 events, queue>>

(***************************************************************************)
(* The handlers                                                            *)
(***************************************************************************)

Serve(event) == attached /\ events # <<>> /\ Head(events) = event

\* __pi_i2c_handle_pending_transfer: the commands of the next piece are written
\* and never enqueued.
HandlePending ==
  LET size == (pending.repeat_size - pending.repeat) % WORD
      last == size <= pending.repeat
  IN
  /\ Serve("tx") /\ pending.repeat # 0
  /\ events' = Tail(events)
  /\ pending' = [pending EXCEPT !.repeat_size = size,
                                !.repeat = IF last THEN 0 ELSE @]
  /\ drv' = [drv EXCEPT !.cmd = NULL,
                        !.stop_send = IF last THEN pending.stop ELSE @]
  /\ UNCHANGED <<platform, app, data, next, opened, attached, udma, queue>>

FlagsAfterStop_Kept(d) == [d EXCEPT !.stop_send = FALSE]

\* The stop sequence ends with the end-of-transfer command.
FlagsAfterStop(d) == [d EXCEPT !.stop_send = FALSE, !.eot_send = FALSE]

\* __pi_i2c_send_stop_cmd.
SendStop ==
  /\ Serve("tx") /\ pending.repeat = 0 /\ drv.stop_send
  /\ events' = Tail(events)
  /\ drv' = FlagsAfterStop(drv)
  /\ tx' = Append(tx, FixedSeq("stop"))
  /\ UNCHANGED <<platform, app, data, next, opened, attached, pending, rx, queue>>

\* __pi_i2c_send_only_eot_cmd.
SendOnlyEot ==
  /\ Serve("tx") /\ pending.repeat = 0 /\ ~drv.stop_send /\ eot /\ drv.eot_send
  /\ events' = Tail(events)
  /\ drv' = [drv EXCEPT !.eot_send = FALSE]
  /\ tx' = Append(tx, FixedSeq("eot"))
  /\ UNCHANGED <<platform, app, data, next, opened, attached, pending, rx, queue>>

\* A TX event with nothing left to send, in a build with end-of-transfer events.
Ignore ==
  /\ Serve("tx") /\ pending.repeat = 0 /\ ~drv.stop_send /\ eot /\ ~drv.eot_send
  /\ events' = Tail(events)
  /\ UNCHANGED <<platform, app, data, next, opened, attached, drv, pending, udma,
                 queue>>

\* A task with a callback is pushed, and the event kernel does not exist.
Notified(t) == t # NULL /\ task[t].id = "PI_TASK_NONE_ID"

\* __pi_i2c_task_fifo_pop.  The tail stays where it was.
DriverAfterPop(d) == [d EXCEPT !.fifo_head = next[@]]

\* The end of a transfer: the slot is freed and its task notified, and the next
\* transfer is popped and started.
End ==
  LET t == drv.slot
      d == [drv EXCEPT !.slot = NULL]
      n == d.fifo_head
  IN
  /\ events' = Tail(events)
  /\ task' = IF Notified(t) THEN [task EXCEPT ![t] = PiTaskRelease(task[t])] ELSE task
  /\ queue' = IF t = NULL THEN queue ELSE Tail(queue)
  /\ IF n = NULL
       THEN drv' = d /\ UNCHANGED <<pending, udma>>
       ELSE Exec(DriverAfterPop(d), n, data[n])
  /\ UNCHANGED <<platform, pc, call, data, next, opened, attached>>

\* __pi_i2c_tx_handler of a build without end-of-transfer events, once there is
\* no stop sequence to send.
TxEnd == Serve("tx") /\ pending.repeat = 0 /\ ~drv.stop_send /\ ~eot /\ End

\* __pi_i2c_eot_handler.
EotEnd == Serve("eot") /\ End

Handler ==
  HandlePending \/ SendStop \/ SendOnlyEot \/ Ignore \/ TxEnd \/ EotEnd

(***************************************************************************)
(* Specification                                                           *)
(***************************************************************************)

Next ==
  \/ \E p \in Thread :
       \/ Open(p) \/ Close(p)
       \/ \E c \in PlainCall \cup EotCall :
            \/ Start(p, c) \/ Enqueue(p, c)
            \/ Detect(p, c) \/ DetectRefused(p, c)
       \/ Wait(p) \/ WaitOn(p)
  \/ UdmaTx \/ UdmaRx \/ Handler

Spec == Init /\ [][Next]_vars

\* The uDMA and the bus finish what they start, events are serviced, and a
\* thread that polls its task is scheduled.
Fairness ==
  /\ WF_vars(UdmaTx) /\ WF_vars(UdmaRx) /\ WF_vars(Handler)
  /\ \A p \in Thread : WF_vars(WaitOn(p))

FairSpec == Spec /\ Fairness

(***************************************************************************)
(* Properties                                                              *)
(***************************************************************************)

\* The slot holds the oldest accepted transfer, and along the next links the
\* handler finds the others, in the order they were accepted.  fifo_tail, which
\* no pop moves, is only right while something waits (i2c.c 429-453).
QueueLinked ==
  LET waiting == IF queue = <<>> THEN <<>> ELSE Tail(queue) IN
  /\ drv.slot = IF queue = <<>> THEN NULL ELSE Head(queue)
  /\ Represents(waiting, drv.fifo_head,
                IF waiting = <<>> THEN NULL ELSE drv.fifo_tail, next, NULL)

\* What the uDMA has to execute belongs to the transfer in the slot, whose
\* commands are still as they were written, and never fills more than the two
\* buffers a channel can hold: nothing is enqueued behind a transfer that has
\* not ended (the comment at i2c.c 358).
BusOwned ==
  /\ Len(tx) <= 2 /\ Len(rx) <= 1
  /\ \A b \in Elements(tx) :
       b.kind \in {"cmd", "data"} => /\ b.owner = drv.slot
                                     /\ b.kind = "cmd" => drv.cmd = b.owner
  /\ \A p \in Elements(rx) : p = drv.slot
  /\ drv.slot = NULL => tx = <<>> /\ events = <<>>

\* A transfer is reported only when its commands and its data are through: "The
\* caller is blocked until the transfer is finished" (include/i2c.h 257), and the
\* handlers tell one TX event from another only by two flags (i2c.c 369-393).
DoneMeansMoved ==
  \A p \in Thread :
    task[p].done => p \notin Elements(rx) /\ \A b \in Elements(tx) : b.owner # p

\* Unless a transfer of more than MAX_SIZE or a detection the driver refuses is
\* asked for, every transfer that is waited for ends (i2c.c 323-421).
TransferEnds ==
  [](\A p \in Thread : ~Long(call[p]) /\ call[p].kind # "refused") =>
    \A p \in Thread : pc[p] = "wait" ~> pc[p] = "idle"

=============================================================================
