-------------------------------- MODULE Uart --------------------------------
(***************************************************************************)
(* The transfer path of the UART driver (drivers/uart.c) on one opened     *)
(* device: FreeRTOS tasks that start transfers and wait for them, the two  *)
(* transfer fifos, linked through the pi_task_t the callers own, the uDMA  *)
(* channels, and the SoC event interrupt whose handler completes one       *)
(* transfer and starts the next.                                           *)
(*                                                                         *)
(* The fabric controller is one core.  A section between __disable_irq and *)
(* __restore_irq runs without preemption (the tick is an interrupt too)    *)
(* while the uDMA goes on and may raise an event; a raised event is        *)
(* serviced before any task executes again outside such a section.         *)
(*                                                                         *)
(* The device stays open: pi_uart_open and pi_uart_close are left out.     *)
(***************************************************************************)
EXTENDS Integers, Sequences, PmsisTask, TaskFifo

CONSTANTS
  Thread,      \* FreeRTOS tasks; each owns one pi_task_t, named by the thread
  NULL,        \* the null pointer
  Api,         \* the kinds of calls made, a subset of ApiKind
  Size,        \* the sizes of the transfers asked for
  InL2,        \* whether the buffers passed lie in L2, a subset of BOOLEAN
  MAX_CHUNK,   \* UDMA_MAX_SIZE - 4, the most one uDMA transfer moves
  WORD,        \* 2^32, the range of a word of pi_task.data
  Ioctl        \* the ioctl commands issued, a subset of IoctlCmd

RX_CHANNEL == 0
TX_CHANNEL == 1
Channel == {RX_CHANNEL, TX_CHANNEL}

\* "blocking" is pi_uart_write / read (and the _byte variants), "async" is the
\* _async call with a pi_task_block task that the caller waits on, "callback"
\* the _async call with a pi_task_callback task.
ApiKind == {"blocking", "async", "callback"}

IoctlCmd == {"CONF_SETUP", "ABORT_RX", "ABORT_TX", "ENABLE_RX", "ENABLE_TX"}

ASSUME ThreadAssumption == NULL \notin Thread
ASSUME ApiAssumption == Api \subseteq ApiKind
ASSUME BufferAssumption == InL2 \subseteq BOOLEAN
ASSUME IoctlAssumption == Ioctl \subseteq IoctlCmd
ASSUME ChunkAssumption == MAX_CHUNK \in Nat /\ MAX_CHUNK > 0
ASSUME WordAssumption == WORD \in Nat /\ MAX_CHUNK < WORD
ASSUME SizeAssumption == Size \subseteq 1..(WORD - 1)

VARIABLES
  pc,          \* where each thread is in the driver's API
  call,        \* the arguments of each thread's current call
  status,      \* what the call returned: 0, or -11 for a buffer out of L2
  task,        \* lifecycle fields of each pi_task_t
  data,        \* data[0..3] of each pi_task_t
  next,        \* the link of each pi_task_t
  fifo_head,   \* fifo_head[channel] of struct uart_itf_data_s
  fifo_tail,   \* fifo_tail[channel]
  setup,       \* RX_ENA and TX_ENA of the setup register
  udma,        \* the uDMA channels
  events,      \* SoC events raised and not yet serviced, oldest first
  irq,         \* the thread that has interrupts disabled, or NULL
  scheduled,   \* callbacks handed to the event kernel for execution
  fault,       \* the handler dereferenced a null pointer
  queue        \* history: the accepted transfers of each channel, in order

(* Groups of variables for UNCHANGED. *)
uart == <<fifo_head, fifo_tail, next, data, queue>>
thread == <<pc, call, status, irq>>
vars == <<pc, call, status, task, data, next, fifo_head, fifo_tail, setup,
          udma, events, irq, scheduled, fault, queue>>

(***************************************************************************)
(* Types                                                                   *)
(***************************************************************************)

Pc == {"idle", "copy", "wait", "refused", "detached"}
        \cup IoctlCmd

\* l2: the buffer lies in L2, the only memory the uDMA reaches.
Call == [api : ApiKind, channel : Channel, size : Nat, l2 : BOOLEAN]

CallZero == [api |-> "blocking", channel |-> RX_CHANNEL, size |-> 0, l2 |-> TRUE]

\* data[0..3], named as the comment in include/udma_uart.h names them; l2_buf
\* is the offset into the caller's buffer.
Data == [l2_buf : Nat, size : Nat, channel : Channel, repeat_size : Nat]

\* A uDMA channel: the window it moves and (history) the task it moves it for.
Window == [busy : BOOLEAN, owner : Thread \cup {NULL}, l2_buf : Nat, size : Nat]

UdmaIdle == [busy |-> FALSE, owner |-> NULL, l2_buf |-> 0, size |-> 0]

DataZero == [l2_buf |-> 0, size |-> 0, channel |-> RX_CHANNEL, repeat_size |-> 0]

TypeOK ==
  /\ pc \in [Thread -> Pc]
  /\ call \in [Thread -> Call]
  /\ status \in [Thread -> {0, -11}]
  /\ task \in [Thread -> PiTaskT]
  /\ data \in [Thread -> Data]
  /\ next \in [Thread -> Thread \cup {NULL}]
  /\ fifo_head \in [Channel -> Thread \cup {NULL}]
  /\ fifo_tail \in [Channel -> Thread \cup {NULL}]
  /\ setup \in [Channel -> BOOLEAN]
  /\ udma \in [Channel -> Window]
  /\ events \in Seq(Channel)
  /\ irq \in Thread \cup {NULL}
  /\ scheduled \subseteq Thread
  /\ fault \in BOOLEAN
  /\ queue \in [Channel -> Seq(Thread)]

(***************************************************************************)
(* Operators for the driver's helpers                                      *)
(***************************************************************************)

\* __pi_uart_copy_exec: a transfer longer than one chunk moves a full chunk and
\* notes in repeat_size what remains; a shorter one leaves repeat_size alone.
ExecData(d) ==
  IF d.size > MAX_CHUNK THEN [d EXCEPT !.repeat_size = d.size - MAX_CHUNK] ELSE d

ExecWindow_FullChunk(t, d) ==
  [busy |-> TRUE, owner |-> t, l2_buf |-> d.l2_buf, size |-> MAX_CHUNK]

\* The window __pi_uart_copy_exec programs into the channel for task t.
ExecWindow(t, d) ==
  [busy |-> TRUE, owner |-> t, l2_buf |-> d.l2_buf,
   size |-> IF d.size > MAX_CHUNK THEN MAX_CHUNK ELSE d.size]

NextChunk_Signed(d) ==
  [d EXCEPT !.l2_buf = d.l2_buf + MAX_CHUNK, !.size = d.size - MAX_CHUNK]

\* The handler's step to the next chunk: 32-bit arithmetic on data[0], data[1].
NextChunk(d) ==
  [d EXCEPT !.l2_buf = (d.l2_buf + MAX_CHUNK) % WORD,
            !.size = (d.size - MAX_CHUNK) % WORD]

TailAfterEnqueue_Kept(tail, p) == tail

\* __pi_uart_task_fifo_enqueue moves the tail to the new task ...
TailAfterEnqueue(tail, p) == p

\* ... and __pi_uart_task_fifo_pop clears it with the head.
TailAfterPop(tail, n) == IF n = NULL THEN NULL ELSE tail

\* The interrupt is pending and not masked: it is taken before any thread runs.
Preempted == irq = NULL /\ events # <<>>

Runs_Masked(p) == ~fault /\ irq = NULL

\* Thread p can execute an instruction with interrupts enabled.
Runs(p) == ~fault /\ irq = NULL /\ ~Preempted

(***************************************************************************)
(* Initial state: the device is open with both directions enabled          *)
(***************************************************************************)

Init ==
  /\ pc = [p \in Thread |-> "idle"]
  /\ call = [p \in Thread |-> CallZero]
  /\ status = [p \in Thread |-> 0]
  /\ task = [p \in Thread |-> PiTaskZero]
  /\ data = [p \in Thread |-> DataZero]
  /\ next = [p \in Thread |-> NULL]
  /\ fifo_head = [c \in Channel |-> NULL]
  /\ fifo_tail = [c \in Channel |-> NULL]
  /\ setup = [c \in Channel |-> TRUE]
  /\ udma = [c \in Channel |-> UdmaIdle]
  /\ events = <<>>
  /\ irq = NULL
  /\ scheduled = {}
  /\ fault = FALSE
  /\ queue = [c \in Channel |-> <<>>]

(***************************************************************************)
(* Threads                                                                 *)
(***************************************************************************)

\* Thread p makes the call a: it prepares its pi_task_t, which nobody else sees
\* yet, and __pi_uart_copy disables interrupts.
EnterCopy(p, a, created) ==
  /\ Runs(p) /\ pc[p] = "idle"
  /\ pc' = [pc EXCEPT ![p] = "copy"]
  /\ irq' = p
  /\ call' = [call EXCEPT ![p] = a]
  /\ task' = [task EXCEPT ![p] = IF a.api = "callback" THEN PiTaskCallback
                                                       ELSE PiTaskBlock(created)]
  /\ UNCHANGED <<status, uart, setup, udma, events, scheduled, fault>>

\* __pi_uart_copy on a buffer out of L2: -11.  pi_uart_write and pi_uart_read
\* go on to pi_task_wait_on whatever the status.
CopyRefused(p) ==
  /\ pc[p] = "copy" /\ irq = p /\ ~call[p].l2
  /\ status' = [status EXCEPT ![p] = -11]
  /\ pc' = [pc EXCEPT ![p] = IF call[p].api = "blocking" THEN "wait" ELSE "refused"]
  /\ irq' = NULL
  /\ UNCHANGED <<call, task, uart, setup, udma, events, scheduled, fault>>

\* What __pi_uart_copy writes into the task.
FreshData(p) == [l2_buf |-> 0, size |-> call[p].size,
                 channel |-> call[p].channel, repeat_size |-> 0]

\* __pi_uart_copy when the fifo is empty: the task becomes head and tail, and
\* its transfer is started.
CopyExec(p) ==
  LET c == call[p].channel IN
  /\ pc[p] = "copy" /\ irq = p /\ call[p].l2
  /\ fifo_head[c] = NULL
  /\ fifo_head' = [fifo_head EXCEPT ![c] = p]
  /\ fifo_tail' = [fifo_tail EXCEPT ![c] = p]
  /\ next' = [next EXCEPT ![p] = NULL]
  /\ data' = [data EXCEPT ![p] = ExecData(FreshData(p))]
  /\ udma' = [udma EXCEPT ![c] = ExecWindow(p, FreshData(p))]
  /\ queue' = [queue EXCEPT ![c] = Append(queue[c], p)]
  /\ status' = [status EXCEPT ![p] = 0]
  /\ pc' = [pc EXCEPT ![p] = IF call[p].api = "callback" THEN "detached" ELSE "wait"]
  /\ irq' = NULL
  /\ UNCHANGED <<call, task, setup, events, scheduled, fault>>

\* __pi_uart_copy when a transfer is under way: link behind the tail.
CopyEnqueue(p) ==
  LET c == call[p].channel IN
  /\ pc[p] = "copy" /\ irq = p /\ call[p].l2
  /\ fifo_head[c] # NULL
  /\ next' = [next EXCEPT ![p] = NULL, ![fifo_tail[c]] = p]
  /\ fifo_tail' = [fifo_tail EXCEPT ![c] = TailAfterEnqueue(fifo_tail[c], p)]
  /\ data' = [data EXCEPT ![p] = FreshData(p)]
  /\ queue' = [queue EXCEPT ![c] = Append(queue[c], p)]
  /\ status' = [status EXCEPT ![p] = 0]
  /\ pc' = [pc EXCEPT ![p] = IF call[p].api = "callback" THEN "detached" ELSE "wait"]
  /\ irq' = NULL
  /\ UNCHANGED <<call, task, fifo_head, setup, udma, events, scheduled, fault>>

\* The call of p is over and its locals, the task_block among them, are gone.
Leave(p) ==
  /\ pc' = [pc EXCEPT ![p] = "idle"]
  /\ call' = [call EXCEPT ![p] = CallZero]
  /\ status' = [status EXCEPT ![p] = 0]
  /\ data' = [data EXCEPT ![p] = DataZero]
  /\ next' = [next EXCEPT ![p] = NULL]

WaitOver_Unchecked(p) == TRUE

\* The condition on which the loop of pi_task_wait_on ends.
WaitOver(p) == task[p].done

\* pi_task_wait_on: the loop ends when done is set, and the task is destroyed;
\* pi_uart_write and pi_uart_read destroy it once more before they return.
WaitOn(p) ==
  /\ Runs(p) /\ pc[p] = "wait" /\ WaitOver(p)
  /\ task' = [task EXCEPT ![p] = IF call[p].api = "blocking"
                                   THEN PiTaskDestroy(PiTaskDestroy(task[p]))
                                   ELSE PiTaskDestroy(task[p])]
  /\ Leave(p)
  /\ UNCHANGED <<irq, fifo_head, fifo_tail, queue, setup, udma, events, scheduled,
                 fault>>

\* The caller of an _async call that was refused gives its task up.
GiveUp(p) ==
  /\ Runs(p) /\ pc[p] = "refused"
  /\ task' = [task EXCEPT ![p] = PiTaskDestroy(task[p])]
  /\ Leave(p)
  /\ UNCHANGED <<irq, fifo_head, fifo_tail, queue, setup, udma, events, scheduled,
                 fault>>

\* pi_uart_ioctl disables interrupts.
EnterIoctl(p, cmd) ==
  /\ Runs(p) /\ pc[p] = "idle"
  /\ pc' = [pc EXCEPT ![p] = cmd]
  /\ irq' = p
  /\ UNCHANGED <<call, status, task, uart, setup, udma, events, scheduled, fault>>

AbortChannel(cmd) == IF cmd = "ABORT_RX" THEN RX_CHANNEL ELSE TX_CHANNEL
EnableChannel(cmd) == IF cmd = "ENABLE_RX" THEN RX_CHANNEL ELSE TX_CHANNEL

\* __pi_uart_rx_abort / __pi_uart_tx_abort: disable the direction, clear the
\* channel and forget the fifo.  The flushed tasks are not notified, and an
\* event the channel has already raised stays pending.
IoctlAbort(p) ==
  LET c == AbortChannel(pc[p]) IN
  /\ pc[p] \in {"ABORT_RX", "ABORT_TX"} /\ irq = p
  /\ setup' = [setup EXCEPT ![c] = FALSE]
  /\ udma' = [udma EXCEPT ![c] = UdmaIdle]
  /\ fifo_head' = [fifo_head EXCEPT ![c] = NULL]
  /\ fifo_tail' = [fifo_tail EXCEPT ![c] = NULL]
  /\ queue' = [queue EXCEPT ![c] = <<>>]
  /\ pc' = [pc EXCEPT ![p] = "idle"]
  /\ irq' = NULL
  /\ UNCHANGED <<call, status, task, data, next, events, scheduled, fault>>

\* __pi_uart_channel_enable
IoctlEnable(p) ==
  /\ pc[p] \in {"ENABLE_RX", "ENABLE_TX"} /\ irq = p
  /\ setup' = [setup EXCEPT ![EnableChannel(pc[p])] = TRUE]
  /\ pc' = [pc EXCEPT ![p] = "idle"]
  /\ irq' = NULL
  /\ UNCHANGED <<call, status, task, uart, udma, events, scheduled, fault>>

\* __pi_uart_conf_set writes the whole setup register, the enable bits included,
\* under a transfer as well.
IoctlSetup(p) ==
  /\ pc[p] = "CONF_SETUP" /\ irq = p
  /\ setup' \in [Channel -> BOOLEAN]
  /\ pc' = [pc EXCEPT ![p] = "idle"]
  /\ irq' = NULL
  /\ UNCHANGED <<call, status, task, uart, udma, events, scheduled, fault>>

(***************************************************************************)
(* Hardware and the interrupt handler                                      *)
(***************************************************************************)

\* The uDMA has moved the whole window of channel c and raises its event.
UdmaDone(c) ==
  /\ ~fault /\ udma[c].busy /\ setup[c]
  /\ udma' = [udma EXCEPT ![c] = UdmaIdle]
  /\ events' = Append(events, c)
  /\ UNCHANGED <<thread, task, uart, setup, scheduled, fault>>

Serve_OtherChannel(c) ==
  /\ ~fault /\ Preempted
  /\ c = 1 - Head(events)
  /\ events' = Tail(events)

\* fc_soc_event_handler pops one event, whose lowest bit is the channel, and
\* calls __pi_uart_handler.
Serve(c) ==
  /\ ~fault /\ Preempted
  /\ c = Head(events)
  /\ events' = Tail(events)

\* __pi_uart_handler reads fifo_head[channel]->data[3] unconditionally.
HandlerNoTask(c) ==
  /\ Serve(c)
  /\ fifo_head[c] = NULL
  /\ fault' = TRUE
  /\ UNCHANGED <<thread, task, uart, setup, udma, scheduled>>

\* __pi_uart_handler with pending data on the current transfer.
HandlerRepeat(c) ==
  LET t == fifo_head[c]
      d == NextChunk(data[t]) IN
  /\ Serve(c)
  /\ t # NULL
  /\ data[t].repeat_size # 0
  /\ data' = [data EXCEPT ![t] = ExecData(d)]
  /\ udma' = [udma EXCEPT ![c] = ExecWindow(t, d)]
  /\ UNCHANGED <<thread, task, next, fifo_head, fifo_tail, queue, setup,
                 scheduled, fault>>

StartNext_Forgotten(c, n) == UNCHANGED <<data, udma>>

\* The end of __pi_uart_handler: start the next transfer, if there is one.
StartNext(c, n) ==
  IF n = NULL
    THEN UNCHANGED <<data, udma>>
    ELSE /\ data' = [data EXCEPT ![n] = ExecData(data[n])]
         /\ udma' = [udma EXCEPT ![c] = ExecWindow(n, data[n])]

\* __pi_uart_handle_end_of_task
HandleEndOfTask(t) ==
  IF task[t].id = "PI_TASK_NONE_ID"
    THEN /\ task' = [task EXCEPT ![t] = PiTaskRelease(task[t])]
         /\ UNCHANGED scheduled
    ELSE /\ scheduled' = PiTaskPush(scheduled, t)
         /\ UNCHANGED task

\* __pi_uart_handler at the end of a transfer: pop the task, notify its owner
\* and start the next transfer, if there is one.
HandlerEnd(c) ==
  LET t == fifo_head[c]
      n == next[t] IN
  /\ Serve(c)
  /\ t # NULL
  /\ data[t].repeat_size = 0
  /\ fifo_head' = [fifo_head EXCEPT ![c] = n]
  /\ fifo_tail' = [fifo_tail EXCEPT ![c] = TailAfterPop(fifo_tail[c], n)]
  /\ queue' = [queue EXCEPT ![c] = Tail(queue[c])]
  /\ HandleEndOfTask(t)
  /\ StartNext(c, n)
  /\ UNCHANGED <<thread, next, setup, fault>>

Handler(c) == HandlerNoTask(c) \/ HandlerRepeat(c) \/ HandlerEnd(c)

(***************************************************************************)
(* Specification                                                           *)
(***************************************************************************)

\* The calls the application makes.
Calls == [api : Api, channel : Channel, size : Size, l2 : InL2]

\* What thread p does once it has entered the driver.
ThreadStep(p) ==
  \/ CopyRefused(p) \/ CopyExec(p) \/ CopyEnqueue(p)
  \/ WaitOn(p) \/ GiveUp(p)
  \/ IoctlAbort(p) \/ IoctlEnable(p) \/ IoctlSetup(p)

Next ==
  \/ \E p \in Thread :
       \/ \E a \in Calls, created \in BOOLEAN : EnterCopy(p, a, created)
       \/ \E cmd \in Ioctl : EnterIoctl(p, cmd)
       \/ ThreadStep(p)
  \/ \E c \in Channel : UdmaDone(c) \/ Handler(c)

Spec == Init /\ [][Next]_vars

\* The uDMA finishes what it starts, an unmasked interrupt is taken, and the
\* preemptive scheduler returns to every ready task however often it is
\* interrupted (strong fairness: interrupts and critical sections of other
\* tasks disable a task's steps for a while).
Fairness ==
  /\ \A c \in Channel : WF_vars(UdmaDone(c))
  /\ WF_vars(\E c \in Channel : Handler(c))
  /\ \A p \in Thread : SF_vars(ThreadStep(p))

FairSpec == Spec /\ Fairness

(***************************************************************************)
(* Properties                                                              *)
(***************************************************************************)

\* The tasks in the fifo of channel c, and in any fifo.
Queued(c) == Elements(queue[c])
InFlight == Queued(RX_CHANNEL) \cup Queued(TX_CHANNEL)

\* No task is in a fifo twice: neither in both channels nor at two positions.
FifoOnce ==
  /\ Queued(RX_CHANNEL) \cap Queued(TX_CHANNEL) = {}
  /\ \A c \in Channel : Once(queue[c])

\* fifo_head, fifo_tail and the next links of the tasks on the way represent
\* the accepted transfers of each channel in the order they were accepted:
\* head and tail are the first and the last, each task links to its successor
\* and the last one to NULL, whatever the callers, the handler and the aborts
\* did in whatever order (enqueue, pop, abort: uart.c 402-439, 241-263).
FifoLinked ==
  \A c \in Channel :
    Represents(queue[c], fifo_head[c], fifo_tail[c], next, NULL)

\* The list nodes are pi_task_t objects on their callers' stacks: as long as a
\* fifo holds one, its caller has not returned, and is not even able to,
\* because the task is not done; and no call brings in a node that is in a fifo
\* or already done (uart.c 441-509, pmsis_task.c 63-76).
NodesAlive ==
  /\ \A p \in InFlight : pc[p] \in {"wait", "detached"} /\ ~task[p].done
  /\ \A p \in Thread : pc[p] = "copy" => ~task[p].done

\* __disable_irq and __restore_irq make the driver's sections exclusive: only
\* the thread that disabled interrupts is inside one (uart.c 273-299, 307-335).
SectionsExclusive ==
  \A p \in Thread : pc[p] \in {"copy"} \cup IoctlCmd <=> irq = p

\* While __pi_uart_copy runs with interrupts disabled, an event that is pending
\* belongs to a transfer still in its fifo: the event of an aborted transfer
\* can not be taken for the completion of the transfer being started.
NoStaleCompletion ==
  \A p \in Thread, c \in Channel :
    pc[p] = "copy" /\ c \in Elements(events) => fifo_head[c] # NULL

\* A channel is programmed only for the head of its fifo, and never while it is
\* still moving the previous window or while the completion of that window has
\* not been serviced; so the enqueue in __pi_uart_copy_exec always finds the
\* channel free (uart.c 325-333, 394-397).
ChannelOwner ==
  /\ Once(events)
  /\ \A c \in Channel :
       /\ udma[c].busy => /\ fifo_head[c] # NULL /\ udma[c].owner = fifo_head[c]
                          /\ c \notin Elements(events)
       /\ fifo_head[c] # NULL => udma[c].busy \/ c \in Elements(events)

\* The uDMA never moves data outside the buffer its caller passed, and never
\* for a caller that has returned (the caller is free to reuse the buffer).
WindowInBuffer ==
  \A c \in Channel :
    udma[c].busy =>
      /\ pc[udma[c].owner] \in {"wait", "detached"}
      /\ udma[c].l2_buf + udma[c].size <= call[udma[c].owner].size

\* The interrupt handler never finds an empty fifo (uart.c 380-382).
HandlerFindsTask == ~fault

\* A thread that is out of the driver has given its semaphore back, on every
\* path: completed, refused, and destroyed once or twice (pmsis_task.c 48-61).
NoSemaphoreLeak == \A p \in Thread : pc[p] = "idle" => ~task[p].sem

\* Every caller of the blocking or async API whose transfer was accepted comes
\* back, if no transfer is aborted (pi_uart_write, pi_task_wait_on).
TransferEnds ==
  \A p \in Thread : (pc[p] = "wait" /\ status[p] = 0) ~> (pc[p] = "idle")

=============================================================================
