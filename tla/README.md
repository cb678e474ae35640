# A verification project for pulp-freertos

TLA+ models of the drivers and runtime of pulp-freertos, checked with TLC on
small instances and, where it matters most, proved with TLAPS for every value
of the constants. Paths below are relative to `src/`.

1. [The system](#the-system)
2. [Modules](#modules)
3. [The UART driver](#the-uart-driver)
4. [The SPI driver](#the-spi-driver)
5. [The I2C driver](#the-i2c-driver)
6. [The cluster driver](#the-cluster-driver)
7. [Teams of cores](#teams-of-cores)
8. [The heap allocator](#the-heap-allocator)
9. [Runs](#runs)
10. [Proofs](#proofs)
11. [Where code and documentation disagree](#where-code-and-documentation-disagree)
12. [Plan](#plan)
13. [What is not modelled](#what-is-not-modelled)

## The system

pulp-freertos runs FreeRTOS on the *fabric controller* (FC), a single RISC-V
core, and offers its tasks a driver API (`pi_*`) for the uDMA peripherals and
for a cluster of accelerator cores. The kernel itself is a git submodule; this
repository holds the drivers, the memory allocators, the libc glue and the
start-up code.

Three kinds of actors share state:

* **FreeRTOS tasks** on the FC, preemptively scheduled (`configUSE_PREEMPTION`
  is 1). They exclude each other with `__disable_irq` / `__restore_irq`
  (target/arch/riscv.h), with FreeRTOS mutexes, or not at all.
* **Interrupt handlers** on the FC. Every peripheral event arrives through one
  SoC event interrupt, `fc_soc_event_handler` (drivers/fc_event.c), which pops
  one event and calls the handler registered for it.
* **Hardware** that runs on its own: the uDMA channels, and the cluster cores,
  which share memory, a test-and-set word and event lines with the FC.

| component | state | operations | what makes it correct |
|---|---|---|---|
| Task notifications, `drivers/pmsis_task.c`, `include/os.h` | `pi_task_t`: id, done, destroy, semaphore; owned by the caller, often on its stack | block, callback, push, release, wait_on, destroy | a waiter returns exactly after the release; the semaphore is freed once; a callback runs once |
| UART driver, `drivers/uart.c` | two fifos of `pi_task_t` (head, tail, next), the setup register, two uDMA channels, nb_open | open, close, write / read (blocking, async, byte), ioctl (setup, abort, enable), interrupt handler | fifo is the list of accepted transfers; a channel serves one transfer at a time; completion in order, once, after the last byte; no access outside the caller's buffer; every waiter returns |
| SPI driver, `drivers/spi.c` | per-interface driver data: fifo, running transfer, list of chip-select configurations, nb_open | open, close, ioctl, send / receive / transfer (blocking, async), three handlers | as the UART; a transfer uses the configuration of its own chip select; last close frees everything once |
| I2C driver, `drivers/i2c.c` | per-interface driver data: fifo, pending transfer, chip-select list, nb_open | open, close, ioctl, read / write (blocking, async), detect, handlers for rx, tx, command and end of transfer | as above; a transfer longer than a uDMA command is completed in pieces |
| Cluster driver, `drivers/cluster/fc_to_cl_delegate.c`, `cl_to_fc_delegate.c`, `target/pulp/cluster.S` | `cluster_driver_data`: task list, cluster_is_on, two mutexes, a spinlock in L1, task_to_fc | open, close, send (blocking, async), wait_free on the FC; the master core's loop; task end notification and its FC handler | every enqueued task runs once and in order and its sender is notified; nothing uses the driver data after the last close |
| Cluster teams, `include/cluster/cl_team*.h` | dispatch fifo, barriers, team mask | fork, fork_cc, preset fork, barrier, critical section (prepare_fork and fork_task are declared and defined nowhere) | each core of the team runs the entry once; fork returns after all of them |
| Cluster DMA, `include/cluster/cl_dma*.h`, `cl_idma_hal.h` | transfer counters, command objects | memcpy, 2D, wait, flush | wait returns after the transfer |
| Heap allocator, `libc/malloc/malloc_internal.c`, `cl_l1_malloc.c`, `pulp_malloc.c` | an address-ordered free list in the managed memory | init, malloc, free, aligned malloc | live blocks and free blocks partition the heap; free coalesces |
| External-memory allocator, `libc/malloc/malloc_external.c` | free list of descriptors | as above | as above (built by no makefile of the repository) |
| SoC events, `drivers/fc_event.c`, `soc_eu.c` | handler table, event masks | set, clear, dispatch | an event reaches the handler registered for it |
| Interrupts and timers, `drivers/clic.c`, `pclint.c`, `timer_irq.c`, `include/irq.h` | enable bits, priorities, compare registers | enable, disable, trigger type, tick | ticks are not lost |
| Clocks, `drivers/fll.c`, `clkdiv.c`, `clkconst.c` | frequency per domain, FLL settings | init, set, get | the reported frequency is the one set |
| GPIO, pinmux, `drivers/gpio.c`, `pinmux.c` | pad direction, values, interrupt configuration, functions | configure, read, write, notify | an operation on a pin leaves the others alone |
| libc glue, `libc/syscalls.c` | stdout device, program break | write, read, sbrk, exit | concurrent writers are not mixed up; the break stays in the heap |
| Start-up, `target/*/system.c`, `crt0.S`, `vectors.S`, linker scripts | | reset, trap entry | |
| FreeRTOS kernel, demos, tests, templates, scripts | | | outside the implementation proper |

How they interact: a driver call fills a `pi_task_t` and hands it to a driver's
fifo under disabled interrupts; the uDMA moves data and raises an SoC event;
`fc_soc_event_handler` calls the driver's handler, which pops the fifo,
releases the task (`pi_task_release`) and starts the next transfer; the caller
polls `done` in `pi_task_wait_on`. The cluster driver works the same way with
the cluster's master core in the place of the uDMA, except that the list is
shared memory guarded by a spinlock.

What is hard here: the lists are threaded through objects on their callers'
stacks; handlers run between any two instructions of a task outside a
masked section; hardware makes progress inside one; an abort or a close meets
events already raised; requests larger than the hardware limit are completed in
pieces; and there is no timeout anywhere, so one lost notification hangs its
caller for good.

## Modules

| module | what it is |
|---|---|
| `PmsisTask` | operators for the life of a `pi_task_t`, used by every driver model |
| `TaskFifo` | when head, tail and next fields represent a given sequence |
| `TransferService` | abstract specification: what an asynchronous driver promises |
| `Uart` | the UART driver on an open device |
| `Spi` | the SPI driver: open, close, transfers, the end-of-transfer handler |
| `I2c` | the I2C driver: open, close, transfers, scans of the bus, both kinds of handlers |
| `UartRefinement`, `SpiRefinement`, `I2cRefinement` | the refinement mappings of the three drivers to `TransferService` |
| `Cluster` | the cluster driver: threads of the FC, the cluster's master core, the mailbox and its interrupt |
| `DelegationService` | abstract specification: what delegating a task promises |
| `ClusterRefinement` | the refinement mapping from `Cluster` to `DelegationService` |
| `ClusterTeam` | inside a task: forks, the dispatch fifo, barriers, the loop of the slaves |
| `ForkJoin` | abstract specification: what a fork promises |
| `ClusterTeamRefinement` | the refinement mapping from `ClusterTeam` to `ForkJoin` |
| `Malloc` | the allocator of the L1 heap |
| `HeapService` | abstract specification: what an allocator promises |
| `MallocRefinement` | the refinement mapping from `Malloc` to `HeapService` |
| `TaskFifoProofs` | lemmas about lists and sequences |
| `UartProofs` | theorems about `Uart` and `UartRefinement` |
| `ClusterProofs`, `ClusterServiceProofs` | theorems about `Cluster` and `ClusterRefinement` |
| `ClusterTeamProofs` | theorems about `ClusterTeam` and `ClusterTeamRefinement` |
| `MallocProofs` | theorems about `Malloc` and `MallocRefinement` |
| `SpiProofs` | theorems about `Spi` and `SpiRefinement` |
| `I2cProofs` | theorems about `I2c` and `I2cRefinement` |
| `MC*` | model values, arguments and roles for TLC |

Operators named `<Definition>_<Fault>` in the modules are faulty variants of a
definition (a dropped guard, a stale pointer, a lost reset). Nothing uses them;
substituting one for its definition must make TLC refute the property that
`PROJECT.json` pairs it with, which shows that the property has teeth.

## The UART driver

State. `fifo_head`, `fifo_tail` are the fields of `struct uart_itf_data_s`;
`next`, `data` and `task` are the `next`, `data[0..3]` and lifecycle fields of
the `pi_task_t` each thread owns (a thread has one, as the blocking calls have
theirs on the stack; its name is the thread's). `setup` holds the two enable
bits of the setup register, `udma` the programmed window of each channel,
`events` the SoC events raised and not serviced. `queue` is a history variable,
the accepted transfers of each channel in order; no guard reads it.

Steps. The FC is a single core, so a section between `__disable_irq` and
`__restore_irq` excludes every other task and the handler, but not the uDMA.
Each API call is therefore two steps: entering the section (`EnterCopy`,
`EnterIoctl`, which set `irq`), in whose course the uDMA may finish and raise an
event, and its body (`CopyRefused`, `CopyExec`, `CopyEnqueue`, `IoctlAbort`,
`IoctlEnable`, `IoctlSetup`). `Preempted` holds back every step that runs
with interrupts enabled while an event is pending, because the interrupt is
taken first. `WaitOn` is the exit of the polling loop of `pi_task_wait_on`
together with the destruction of the task and, for the blocking calls, the
second `pi_task_destroy` they make; polling itself changes nothing and is a
stutter. A handler runs to completion (interrupts do not nest), so each of its
three paths is one action: `HandlerNoTask` (the head is null: the code
dereferences it; the model records `fault` and stops), `HandlerRepeat` (the
next chunk of a long transfer) and `HandlerEnd` (pop, notify, start the next).

Data. A buffer is the interval `0..size-1` of its caller; a window is an offset
and a length in it. Arithmetic on `data[0]` and `data[1]` is modulo `WORD`,
which stands for 2^32, because the code steps both past their bounds.
`PiTaskBlock` takes the outcome of the semaphore allocation as a parameter:
`pi_task_block` does not report its failure.

## The SPI driver

State. One interface, whose number `itf` is 0 or another: interfaces share nothing as
long as their driver data are complete. `drv` is its `spim_driver_data` with the fifo
(`device_id` is the number the code reaches the hardware by, `fifo` says that `drv_fifo`
is not null), `attached` says that `__g_spim_drv_data[itf]` is set and the
handler installed, `cs` and `live` are the chip-select blocks and which of them
are allocated, `device[p]` the `device->data` of thread `p`. `spim` holds the
transfers in the uDMA, `eot` the end-of-transfer events not serviced. A
pi_task_t has the fields the driver uses: `next`, `data` (what the handler
starts the transfer from) and how its caller waits (`task`).

Steps. Every call of the driver, waiting excepted, masks interrupts from its
first access to shared state to its last, so `Open`, `Close`, `Start` (free
slot) and `Enqueue` (busy slot) are single steps; `Abort` is a call that ends in
`abort()`: full duplex, microcode, or more bits than a command moves. `Handler`
is `spim_eot_handler`: it frees the slot, releases a waiter, pops the next
transfer and passes it through the same function the callers use, which starts
it or, if the slot were taken, puts it back. `Open` has the outcomes of its
three allocations and of the clock divider. A chip select is found or allocated, or there is
no memory for it, or its divider does not fit (`OpenCs`); the last two return an error after
`nb_open` was incremented. The first open may also find no memory for the driver data
(`NoData`) or for their fifo (`NoFifo`). Both go through a null pointer in `memset` before
anything is tested, so the model lets that be the end (`fault`) or do no harm. In the
second case the open then returns -1 and `__g_spim_drv_data[itf]` stays set, without a fifo
and with `device_id` 0, for the next open to use.

What follows from such driver data is in the model up to the step that leaves it: `Stray` (a
transfer goes to interface 0 instead of its own, or into the fifo that is not there),
`HandlerStray` (the handler looks into it), the last `Close` (it detaches interface 0 and
leaves this one attached to what it freed) and `Struck` (interface 0 is reached by such a
step of another). Each records in `fault` what happened and stops the model, because what
is read and written from there on belongs to others. The properties hold up to that step,
and `DeviceServed` says which states it can be taken from.

The application closes a device when its own transfer is over. The handlers of
the TX and RX events are left out: every path that enables them is compiled out.

## The I2C driver

State. `drv` is `struct i2c_itf_data_s`: the slot `buf[0]`, the fifo, the two
flags, whose commands are in `i2c_cmd_seq`, and `nb_open`. `pending` is what
`driver_data->pending` points to, which is address 0: on a chip where that page
can be written (`ram`) it holds what was written there, elsewhere writes are lost
and zeroes are read. `eot` is the build, with or without
`CONFIG_UDMA_I2C_EOT`. Both are chosen by `Init`, so a run covers four platforms. `tx`
and `rx` are the buffers on the uDMA channels, `events` the SoC events raised
and not serviced, in order.

Steps. `Start`, `Enqueue`, `Detect` are the calls (masked from end to end);
`UdmaTx` executes the oldest TX buffer and raises its event, and that of the
end-of-transfer command if the buffer is one of the fixed sequences and the
build has it; `UdmaRx` completes a read. A handler is one step per path:
`HandlePending` (the next piece of a long transfer, whose commands are written
and never enqueued), `SendStop`, `SendOnlyEot`, `Ignore`, `TxEnd`, `EotEnd`; the last
two share `End`, the notification and the start of the next transfer.

`Careful` restricts the application to opening devices and scanning
(`pi_i2c_detect`) while the bus is idle: an open links its chip-select data
into the null pending transfer, and a detection takes the slot without
looking whether it is free. With `Careful` FALSE the properties fail within a few steps.

## The cluster driver

State. `drv[b]` is the contents of a `struct cluster_driver_data` in block `b`
of the heap, `live` the blocks allocated, `per_cluster_data` the global
`__per_cluster_data[0]`, `device[p]` the `device->data` of thread `p`. `next`
holds the links of the `pi_cluster_task` each thread owns, `task` its
`pi_task_t`, `stacks` whose task has its stacks in the L1 heap. `master` is the
cluster's core 0: its place in `cluster.S` and the C functions it calls, its
registers `s5` (driver data, loaded once) and `s6` (task), and the local
`data` of those functions. `event` is the buffered
`FC_NOTIFY_CLUSTER_EVENT`, `irq` the notification interrupt. `sent`, `ran`,
`batch` and `orphans` are history variables; only `MaySend`, which describes
the application, reads one of them.

Steps. The driver masks no interrupts, so a thread is preempted anywhere: every
read or write of something shared is a step of its own, with two exceptions. A
section under a mutex or the spinlock is split where the lock is taken and where it is
released, and a function that touches one shared thing is one step. The
master core runs in parallel and has one step per access. The handler runs to
completion, and `At` holds a thread back while the interrupt is pending. A core
that finds the mailbox full (`MasterMailFull`) sleeps until the event the handler sets
when it has emptied it, and looks again (`MasterMailWait`), as `pi_cl_send_task_to_fc` does.
A mutex is the thread that holds it; a thread can take it when it is free. The
spinlock is a test-and-set word that the master core takes too. A step that
would use freed driver data, a mutex that was not made, a null global or an
empty mailbox is `Fault`, which ends the program.

The environment. `Role` says which calls each thread makes, `Opened` which
devices are open at the start, `Stack` whether the stacks are the caller's,
come from the heap or are refused by it. `Batched` restricts the application to what
the list can hold: each thread sends one task, and none sends again until all
have theirs back. With two senders that is at most two tasks at a time, the
second enqueued behind the first, which the driver handles; without the
restriction `pi_push_cluster_task` loses tasks (run `cluster_lost`).
The creation of a mutex is taken to succeed; that of a semaphore may fail.

Left out: the light callbacks and calls to `pi_cl_send_task_to_fc` by tasks on
several cores, the ioctl dispatcher, the hardware power-up sequence (one step), and
the slaves, which only take part in forks.

## Teams of cores

State. `core[c]` is where core `c` is, the function word it popped, its
argument, the barriers its entry point has before it, and the stacks its stack
pointer is in. `current` is the task the master core executes. The event unit
is hardware outside the repository and is modelled from the way the code uses
it: `team` is the set of cores that dispatched words go to, `fifo[c]` the words
core `c` has not popped, `mask` and `status` the two barriers, `event` the
cores with a barrier event buffered.

Steps. `StartTask` is `cl_master_loop` taking a task: it sets the barriers and
the team and pushes the three words of a stack set-up. The three forks set the
team (or, with 0 cores, keep the last one) and push two words. The words of one
dispatch are pushed in one step, as cores pop them in order and one by one; the
push waits while a fifo of the team has no room (`FIFO_DEPTH`). A slave has one step
per word it pops (`PopFunction`, `PopArg`, `PopSize`), and every core one per
barrier it triggers, return and wake-up. The lowest bit of the first word,
which tells a slave whether a barrier follows, is kept, as is the choice between
`s4` and `s5` it makes.

Data. An entry point is the sequence of barriers it passes; the run has one
without any and one that passes `SYNC` and `LEGCY`, as the entry point of
`tests/cluster/cluster_fork` does. Forks may ask for more cores than the
task has: `cl_team.h` allows any number. The cores that are not in the task's
team then run on the stacks of an earlier task, so `StackOfTask` speaks only of
those that are.

## The heap allocator

State. `free` is the free list as the sequence of its chunks; `live` are the
blocks callers hold, each with the `size` asked for and the `room` it has;
`last` is the last request and its answer.

Steps. A call is one step, as `pi_cl_l1_malloc` and `pi_cl_l1_free` mask
interrupts on the FC (the master core's calls are not excluded by that; see
the hazards). `Malloc` is `__malloc`: first fit, the end of the chunk is given away.
`Free` is `__malloc_free`, which finds the place by address and coalesces with both
neighbours. `MallocAlign` takes a larger block and frees what is before and
behind the aligned one, through the same `Freed`. The allocator keeps no data
about what is allocated, so a call may be made to free memory nobody owns:
`Owned` states when it is sound, and otherwise `corrupt` is set and the
model stops, as what happens next depends on what was overwritten.

The boundary conditions are those of the code: sizes are rounded up to 8, a chunk header
needs 12 bytes, `__malloc_align` asks for `align + 24` more, a request of 0
bytes returns an address that belongs to no one.

## Runs

UART bounds. Three threads are enough for every shape of the fifo: a transfer
being served, one behind it, and one that is being enqueued or the tail that
must move; and for a fifo on each channel with contention on one of them. A
chunk of 2 units makes sizes 1 and 2 short and 3 long; `WORD` = 8 is past every
address a short transfer reaches and wraps after three chunks, so a 32-bit wrap
happens in a few steps. Threads are symmetric; only safety runs use the symmetry.

SPI and I2C bounds. Three devices, for the same reason as above; two of the SPI's
share a chip select. A command moves `MAX_LEN` = 1 (SPI) and `MAX_SIZE` = 2
(I2C), so that the calls hold one that fits and one that does not; `WORD` = 8 lets
a long I2C transfer wrap. `MAX_OPEN` = 3 bounds the count, which failing opens
of the SPI let grow past the number of open devices. Its interface is 0 or 1, the one that
incomplete driver data of others reach and one whose own are; opens have all five outcomes.

Cluster bounds. The list takes two tasks at a time, hence two senders, one
blocking and one asynchronous, and a third thread that comes and goes and
competes for the mutexes and the spinlock. Two blocks let an open get memory
that is not the block freed last.

Team bounds. Three cores: a master and two slaves that may be at different
places, one of them outside the team while another is in it. A fifo of 5 words holds a
set-up and a fork or part of two set-ups, so that pushes wait. Two stacks tell
a task from the one before.

Heap bounds. A region of 93 bytes at an address that is not aligned, of which 88
are used, and up to four blocks: enough for a free chunk before, between and behind live
blocks, which is every case of the coalescing.

| run | shows |
|---|---|
| `uart_all` | everything the API allows, in any order: lists, node lifetimes, channel ownership, no stale completions, types |
| `uart_live` | no abort, short transfers: the handler finds its task, windows stay in buffers, no semaphore leaks, the driver implements `TransferService`; with fairness, every accepted transfer ends; no deadlock |
| `spi` | everything the API allows, every outcome of an open included: lists, one transfer on the uDMA, interface and chip selects stay with the devices that are open, the driver implements `TransferService`; with fairness, every transfer that is waited for ends; all of it until driver data without a fifo lead the driver astray |
| `i2c` | four platforms: lists, bus ownership, no early report, the driver implements `TransferService`; with fairness, transfers of one command end |
| `cluster_send` | batches of two and a thread that opens, closes and waits: the driver implements `DelegationService`; nothing freed is used, a report comes after the end of the task, `wait_free` waits, the mailbox is not overwritten; no deadlock |
| `cluster_live` | with fairness, every task is reported and the blocking call returns |
| `cluster_cycle` | one thread that opens, sends, closes and opens again, with failing allocations: the driver data is given back |
| `cluster_team` | any tasks and forks: the cores implement `ForkJoin`, run on the stacks of their task, and with fairness a fork returns; no deadlock |
| `malloc` | any sequence of calls: the list, the blocks, nothing lost, the allocator implements `HeapService` |
| `uart_long`, `cluster_lost`, `malloc_align` | the disagreements below |

Deadlock is checked where every thread can always go on. `uart_all`, `spi` and
`i2c` turn it off because the SPI model stops at a `fault`, a callback task is never reported, an aborted UART
transfer is never released, an SPI call may end in `abort()` and a refused
detection waits for ever; `cluster_cycle`, because the blocks that a failing call
leaks run out; `malloc` and `malloc_align`, because the bound on live blocks and
a corrupted heap stop the model.

Fairness of the UART (`Uart!Fairness`). Weak fairness of the uDMA: a programmed,
enabled channel finishes. Weak fairness of the interrupt: it has the highest
priority of all. Strong fairness of each thread's step inside the driver, which
is what the time-sliced preemptive scheduler gives equal-priority tasks: a
step of a thread is disabled again and again by interrupts and by others' masked
sections, and weak fairness would let that go on for ever. Nothing is assumed
of threads outside the driver: they need not call it.

Fairness of the cluster (`Cluster!Fairness`). Weak fairness of the master core,
which is never preempted, and of the interrupt; strong fairness of each
thread's step, as above, and of the master core's taking of the spinlock: a
test-and-set lock is not fair by itself, and a thread that spins in
`pi_cluster_wait_free` releases it between two tries. Threads are assumed to
have the same priority. With different ones, a thread of higher priority that
spins on the lock of a preempted one never lets it go on; nothing in the driver
prevents that.

Fairness of the SPI and the I2C (`Fairness`). Weak fairness of the uDMA, of the
interrupt handler and of a thread that polls: no other step disables one of
these (but a `fault` of the SPI, which ends what is claimed), so weak fairness is enough,
and nothing obliges a thread to call. For the SPI the handler is `Handler` or, without a
fifo, `HandlerStray`.

Fairness of the team (`ClusterTeam!FairSpec`). Weak fairness of every core's
own steps: cores run in parallel and nothing preempts them. Nothing obliges
the task to fork or to end.

## Proofs

The theorems about the UART hold for any finite or infinite set of threads, any
sizes below `WORD`, any chunk, any set of ioctl commands, under the assumptions
named in `Uart.tla`; those about the cluster for any finite set of threads, any
roles, any set of blocks and any outcome of the stack allocation, under the
assumptions named in `Cluster.tla` and the two conditions below; those about the
team for any number of cores, any entry points and arguments and any depth of the
dispatch fifo from 3 words, under the assumptions named in
`ClusterTeam.tla`; those about the SPI for any finite set of devices, any number
of the interface, chip selects, calls and blocks and any outcome of an open, up to a `fault`,
under those of `Spi.tla`; those about
the I2C for any finite set of devices, both builds, both kinds of chip and any calls within
the condition below, under those of `I2c.tla`; those about
the allocator for any heap and any requests, under those of `Malloc.tla`.

`UartProofs`. The invariant that carries everything is `IInv`: the
invariants of run `uart_all` (`TypeOK`, `FifoOnce`, `FifoLinked`, `NodesAlive`,
`ChannelOwner`, `NoStaleCompletion`) with `SectionsExclusive`, which ties `irq` to the
program counters. None is inductive alone: that an enqueue keeps the
list linked needs the new node not to be in a list yet (`FifoOnce` through
`NodesAlive`: a thread in a list is waiting, so it cannot be calling), and that the
channel is free when the list is empty (`ChannelOwner`) needs that no stale
event is pending when a section is entered (`NoStaleCompletion`), which holds
because a pending interrupt is taken before a section is entered. `Invariance`
proves `Spec => []IInv` with one step per action; the named theorems follow.
`HandlerSafe` adds: with no abort command issued, an event that is pending has
its transfer in the fifo, so the handler never faults. Under the same condition
`AcceptedRemembered` says that an accepted transfer that is waited for is reported, or in a
fifo whose channel is busy or has its event raised (an abort drops transfers without a
release); and as long as no direction is disabled, `AcceptedNoDeadlock` that while
somebody waits some channel, handler or thread can take a step. `SemaphoresFreed` has an
invariant of its own, `SemKept`: a semaphore exists only inside a call and only
while `destroy` is set, so one of the two destructions frees it.

Three more theorems are about short transfers. `BuffersRespected`: if every size
is at most `MAX_CHUNK`, windows stay in their buffers; the strengthening is that `repeat_size` is 0 and
the offset is 0 for every task in a list. `Implementation`: for such sizes and
callers that wait, every step of the driver, aborts included, is a step of
`TransferService` or a stutter under the mapping of `UartRefinement`.

`BoundedWait` says how long a transfer waits. `StepsAhead` counts what its channel still has
to do until it is over: an end of the uDMA and a run of the handler for each transfer up to
its own, less the first if its event is raised. For short transfers each of these steps
lowers it by one for everybody in the fifo, no transfer ends before its own is 1, and no call,
ioctl or step of the other channel changes it, however many transfers come behind; only
an abort of the channel drops it. Longer transfers are outside: their pieces do not end (run `uart_long`).

`TaskFifoProofs` holds the lemmas about `Represents`: what append, tail, and a
changed link outside the list do to it; and about `Place`, where an element is in a
queue: an append leaves it, and each pop brings it one nearer to the head.

`SpiProofs`. `IInv` adds to the invariants of run `spi` what ties the three
structures of the driver together. A transfer in the queue belongs to a thread that is in
a call on an open device and has not been reported (`Underway`), so a call never brings in
a node that is linked; the `data[]` of one that waits in the fifo is its call
(`Prepared`), so what the handler starts is what was asked; an open device has the interface attached, and a
chip-select block that is allocated and no other device has (`Served`); `nb_open` is at
least the number of open devices (`Counted`); and driver data that have a fifo, or a transfer under
way, have the `device_id` of their interface (`Whole`). The count need not be exact, as a failing
open only raises it: what matters is that a close which reads 1 is that of the only
device, which has no transfer in the queue, so the driver data it frees is used by
nobody. That no other device has the block is part of the invariant and not of what is claimed:
it holds because the list stays empty (spi.c 198), and it is what lets a close free the block.
`DevicesServed` says what is left when an open fails for want of driver data or their fifo:
blocks stay allocated, and a step astray is taken only with driver data that have no fifo, or
is the one that strikes interface 0. `NeverAstray` is the other side: where these two
allocations do not fail (`Supplied`), `fault` stays "none", whatever the later ones do,
and every theorem about the SPI holds of every state.
`FifoCorrect` and `OneTransfer` follow too, and the refinement
`Implementation`: a start or an enqueue is an accept, the uDMA moves the data,
the handler completes, and everything else stutters but the return, which lets the
thread begin anew. `AcceptedRemembered`, with the invariant `Awaited` (who waits was told
or is in the queue), adds that the transfer in front of a waiting caller's
is in the uDMA or has its event raised and the handler installed, unless the driver has been
led astray. `BoundedWait` is as for the
UART, without a condition on the calls: also the opens, failing opens and closes of other devices put
nobody back. The lemmas of `TaskFifoProofs` serve here as for the UART.

`I2cProofs` assumes `ManagedCalls`, the use under which the driver works: devices are
opened, and the bus is scanned, while it is idle (neither looks whether it is:
`Careful`); a read asks for at least one byte; and a build without end-of-transfer events is asked
only for reads of one command with a stop and for writes of commands alone (each raises
the two TX events the handler expects, or the one). Within it any number of devices may
be opened, closed and used in any order, for transfers of any size. `Underway`, `Prepared` and
`Counted` are as for the SPI. What is new is `OnBus`, as nothing in an event says which buffer
it is for. The transfer in the slot is in one of three stages: its own buffers are
on their way (`Moving`), the fixed sequence is enqueued behind what is left of them
(`Stopping`), or that sequence has been executed and the event that ends the transfer is the
last one there (`Stopped`); each stage says which buffers and which events can be there
together, and what the flags `stop_send` and `eot_send` are. The fixed sequence
may well be sent while the data of a write is still being moved; it cannot be sent
twice, as the flags are reset with it, and nothing is behind it. So when the last event comes
both channels are empty (`LastEvent`), which is what `BusCorrect`, `ReportsCorrect` and the
refinement `Implementation` rest on: each buffer of the transfer the uDMA executes is a
move, the fixed sequences and the handlers that send them are stutters, and the
end is a completion, of a transfer of which nothing is left. `FifoCorrect` covers the tail that no
pop resets. `pending` is only as good as address 0: the invariant has it for both kinds of chip
(`Grounded`), and needs nothing else of it.

`AcceptedRemembered` is about the opposite danger, that an event is ignored which was the
last one. Its invariant `Going` says that of a short transfer in the slot a buffer or an
event is always left, and that `eot_send` is set until the fixed sequence has been
sent where one is due. Two things stop the bus or leave a caller alone, and the theorem
names them: a transfer in several pieces, whose second piece is never enqueued, and a
refused detection. `BoundedWait` counts the steps: two for each buffer on the TX channel,
one for each event and for what is being read, and what the fixed sequence still to be sent
will cost (`Owed`). Sending it, the one step that gives the uDMA more to do, pays with the
flag it resets. So no transfer takes more than eight steps, each of them brings it and all
behind it nearer to their ends, and none of the calls puts one back, unless the one in
the slot is in several pieces.

`ClusterProofs` assumes `KeptOpen(k)`: some thread `k` has the cluster open at
the start and never closes it. This is what the code needs: the last close frees
the driver data under the master core (target/pulp/cluster.S 117-124). All other threads open,
close, send and wait at will, and need not send in batches. The invariant
`KInv` says that one block is allocated and every user has it (`Served`), that
`cluster_is_on` is the number of users (`Counted`), that the notification
interrupt is pending exactly while the mailbox is full (`Notified`), and that
the master core's registers hold that block and the first task of the list
(`Attended`). The count is what carries it: as `k` is counted, no close reads 0,
so nothing is freed and no open powers the cluster up again. `Invariance` proves
`Spec => []KInv(k)`; `NoWrongAccess`, `TypeOK`, `OpenedReady` and `MailboxKept`
follow.

The other half of the module is about a cluster that nobody keeps open. Its condition is
`CyclesApart`: at most one thread at a time is inside `pi_cluster_open` or
`pi_cluster_close`. That is an obligation of the application, as the driver reads and
sets `__per_cluster_data[0]` with nothing held: two opens at once both allocate, and two
closes at once both free. It is stated of the execution
(`Spec /\ []CyclesApart => ...`), and `OneCyclerAllFreed` of the roles alone: at most one
thread opens and closes, and any number of others may try to send or wait. The invariant
`OInv` says that the driver data is in one of three states: `Closed`, nothing allocated
and no users; `Open`, one block that is published or about to be, counted right; `Freed`, the
moment between the free and the clearing of the global pointer, when nobody may read it.
`ApartAllFreed`, `ApartOpenedReady` and `ApartThreadsSound` (no thread makes a wrong access;
the master core does, through the address it keeps) follow.

`ClusterServiceProofs` adds `Pairs`: at most two threads send, in batches. This
too is what the code needs, as a push onto a list that is not empty leaves
`task_last` where it is (`cluster_lost`). `SInv` adds that a task is in one place
(the list, the master core or the mailbox) and is neither sent again nor notified
while it is there (`Prepared`, `Underway`, `Apart`), that the list is linked
(`Linked`), that `task_last` may be stale only while neither sender can push
(`TailKept`), and what has been done to a task at each place (`Accounted`).
`TailKept` is the point of the proof: the second push makes `task_last` stale,
but then both senders have a task in use, and the batch ends only when the list is
empty, which makes `task_last` null again. `QueueLinked`, `DoneMeansFinished`,
`WaitFreeWaits` and the refinement (`PairsDelegation`) follow.

Three more invariants are about who waits for whom. `Locked` says that the two
mutexes and the spinlock are held exactly in the sections they guard, and is proved
with `KeptOpen(k)` alone (`KeptOpenLocked`). `Awaited` says that a task in use has been
told, is being handed over, or is in the list, the master core or the mailbox; `Woken`
that the core sleeps before a list with a task in it, or a mailbox it found full, only
if its event is buffered or a thread or the handler is about to set it. Together with
`SInv` they are `WInv`, and give `PairsNoLostWakeUp` and `PairsNoDeadlock`: while a thread is in a call, the
interrupt is pending, or the core or a thread can take a step. The latter needs
that a send has some outcome of its stack allocation (`Stack # {}`).

`ClusterTeamProofs`. The difficulty is that a slave may be anywhere: still
popping the set-up of a task that is over, in a fork that the master core has not
joined, or asleep at a barrier that is already set for the next. The invariant `IInv` says of the whole
unit that both barriers and the dispatch unit are set for one team (`Teamed`) and
that the registers of the master core hold the fork under way (`Employed`); and of each
core that its fifo holds the rest of the set-up it is popping, whole
set-ups and at most one fork behind them (`Framed`), and that one of the task's
team has its stack in the task's stacks once nothing is left to pop (`Stacked`).
`Level` is the point: the cores of the team all have the same number of barriers
before them, but for those that wait at the next one, and these are exactly the
ones that barrier has recorded. So the one that triggers it last wakes all
of them, and when the master core is woken from the last barrier no core has
anything of the fork before it (`CalmJoined`). What a core's registers and fifo
say together is stated about values, `Fine(r, q, e, a)`, so that one lemma about a pop or
a push serves every action. `TypeCorrect`, `StackTheorem` and the refinement
`ForksJoin` follow. So does `ForksGoOn`: a core that is not idle and cannot take a step sleeps
at a barrier, and some core of its team has that barrier before it and can go
on. By `Level` the team is never split between two barriers, so the core that is waited
for does not itself wait.

`MallocProofs`. The invariant `IInv` has three parts: the types, `ListOK` (the
list is sorted, its chunks do not touch, lie in the heap and are multiples of 8 bytes
long) and `LiveOK` (blocks lie in the heap, apart from each other
and from the chunks). The case analysis of `__malloc_free` (two neighbours, one, none)
is in the lemmas about `Freed`, which reduce it to what a splice of a sorted
sequence keeps: given a chunk that is apart from the list, the result is a
well-formed list that covers the old one and the chunk and nothing else.
`__malloc_align` is three of these in a row. `FreeListCorrect` and
`BlocksCorrect` follow: for every heap and every sequence of calls, up to one
that is recorded as corrupt. Two more theorems assume `Aligned`: what is asked for with
an alignment of 16 or more is a multiple of 8 bytes. Without it addresses leave the
8-byte grid and `__malloc_align` loses the bytes it rounded up by. With it
`NoByteLost` says that list and blocks partition the heap (the block, its header and
its tail are exactly what was taken, `AlignTight`), and `Implementation` that the
allocator implements `HeapService`. Both rest on what the list *holds*: an
address is free if its byte is not clear of the list, so the lemmas on regions
(`TakenFacts`, `FreedFacts`) give the effect of a call on the set of free bytes, and a
request no chunk is large enough for has no hole, because the byte behind a chunk
is never free (`NoHole`).

These theorems hold up to a call that corrupts memory; `CorruptionOnlyThere` says which
these are, and that there is no third, under `Aligned`: an aligned request whose room before the
aligned address is less than a header (`TooNear`, the finding below), and the free of a
block of 0 bytes. It rests on `SoundWhenFar` (everywhere else `__malloc_align` gives back
only what it took) and on the invariant `Roomy` (a block is at least as
large as the size it is given back with, rounded up). Hence `PlainRequestsSound`: a program that makes
no aligned and no empty requests keeps `NoCorruption`, the property run `malloc_align` refutes.

`TypeOK` of `Cluster` and of `Malloc` is proved (`KeptOpenTypeOK`,
`TypeCorrect`) and no run repeats it.

Only model-checked: liveness (`TransferEnds` of the three drivers, `SendReturns`,
`ForkReturns`), which is out of the prover's reach. What is proved of each is its safety
half, for every value of the constants: as long as somebody waits, what it waits for has not been
forgotten and somebody can take the next step towards it (`AcceptedRemembered` of the UART,
the SPI and the I2C, `PairsNoLostWakeUp`, `PairsNoDeadlock`, `ForksGoOn`), and of the three
drivers that each such step brings the end nearer and none adds to what is ahead
(`BoundedWait`). What is left to TLC is the step from there to a temporal formula: that the
stated fairness takes these steps, and for the cluster that they are enough. Every invariant and
every safety action property the passing runs check is proved, under the conditions named
above. `TransferEnds` and `ImplementsService` of the UART stay within short transfers.

## Where code and documentation disagree

* `uart_long`: a transfer of more than `UDMA_MAX_SIZE - 4` bytes never ends and
  runs past its buffer (drivers/uart.c 349-352 and 381-387: `data[3]` is
  never cleared).
* `cluster_lost`: a third task, or one sent after the first of two has ended,
  is lost (drivers/cluster/fc_to_cl_delegate.c 404-421: `task_last` is not
  moved).
* `malloc_align`: an aligned allocation that starts 8 bytes before its alignment
  frees 16 bytes that are not its own (libc/malloc/malloc_internal.c 240-252:
  the address moves up by `align`, the sizes of the rooms before and behind are
  those of the first one).

These are visible in the models and have no run of their own, because nothing in
the repository says otherwise or because the run would say little more than the
line does:

* A blocking UART call with a buffer out of L2 hangs instead of returning -11
  (drivers/uart.c 446-449, 496-499; `CopyRefused`); so do an I2C detection that
  is refused and a blocking read of no bytes (drivers/i2c.c 501; `DetectRefused`,
  `Exec`).
* An abort that meets a transfer whose event is pending makes the UART handler
  dereference a null pointer (drivers/uart.c 380-382; `HandlerNoTask`).
* In an I2C build without end-of-transfer events, a write with a stop raises
  three TX events of which the driver expects two; the third ends the next
  write before it has moved (drivers/i2c.c 378-392). `DoneMeansMoved` fails at
  once when such calls are added to `PlainCall`.
* The I2C driver dereferences the null `driver_data->pending` in every transfer
  (drivers/i2c.c 512-516): it works where address 0 can be written and nothing
  else is there, or where writes to it are lost.
* `__pi_spim_cs_data_add` never links a block into the list of chip selects
  (drivers/spi.c 198 assigns the block's own `next`), although its comment (195, "head insert,
  most recently allocated should be most recently used") and the lookup in `pi_spi_open`
  (750) mean devices on one chip select to share a block. Each has its own, therefore, and
  `DeviceServed` holds because of it: with the line mended and nothing else, the close of one
  device would free the block under the other (`CsList`, `Close`).
* An SPI open that fails for want of a fifo returns the -1 that spi.h 204 announces for an
  error, and leaves driver data behind that later opens accept: without a fifo and with
  `device_id` 0 (spi.c 741-744). Transfers then go to interface 0, and the last close, which is
  to free what was allocated for the device (spi.h 208-213), detaches interface 0 (spi.c 796-802) under
  whoever has it open (`NoFifo`, `Stray`, `Close`, `Struck`). The test of the first allocation is
  missing, and both pointers are passed to `memset` before the second is tested (735-741).
* The last close of an SPI interface keeps the chip-select block of the device
  (drivers/spi.c 796-812; `Close`).
* The master core goes on reading the driver data through the address it loaded
  once, after the last close freed it (target/pulp/cluster.S 117-124), and two
  threads that close the cluster at the same time may both free it
  (drivers/cluster/fc_to_cl_delegate.c 391: `cluster_is_on` is read after its
  mutex was released). The proofs assume a thread that keeps the cluster open.
* Two threads that open the cluster at the same time both allocate driver data
  (fc_to_cl_delegate.c 157; `OpenRead`, `OpenAlloc`).
* A blocking send to the cluster that fails leaks the semaphore of its task
  (fc_to_cl_delegate.c 515-518; `SendFails`).
* A fork of more cores than the task's runs the surplus ones on the stacks of an
  earlier task (`cl_team.h` 59, `cl_team_internal.h` 141-160).
* The callback of an asynchronous transfer is never scheduled, as `pi_task_push`
  ends in a stub (drivers/pmsis_task.c 133-140; `PiTaskPush`).
* The tail of an aligned block whose size is no multiple of 8 is freed right
  behind its last byte, and the free of the block then rounds over it
  (malloc_internal.c 252; `AlignSound`).

## Plan

What is left to model, in this order.

1. `UartOpen`: open, close and the reopening of `drivers/uart.c` 105-209 with
   two threads and a transfer under way.
2. `ClusterMailbox`: `pi_cl_send_task_to_fc` and `pi_cl_send_callback_to_fc`
   from several cores against the handler.
3. `Board`: the small drivers: pin functions and registers of GPIO and pinmux
   against an abstract per-pin map, event masks, the FLL protocol, `_write`.
4. The two actors of the L1 heap, the FC and the master core, in `Malloc`.

What is left to prove: for the cluster driver and the teams, what `BoundedWait` says of the
three drivers, that each of the steps `PairsNoDeadlock` and `ForksGoOn` promise comes closer
to the end of the wait, which is all of liveness that can be said without fairness.

## What is not modelled

The FreeRTOS kernel (a submodule whose directory is empty; modelled only through
what its primitives promise), register maps, start-up code, linker scripts, the
demos and templates. The demo tasks under `demos/` are most of the repository's C
and exercise the kernel, not this code. The cluster DMA, the
interrupt controllers and the tick timer are accessors of hardware whose
behaviour the repository does not hold. The external-memory allocator and the
allocators on newlib are built by no makefile or call newlib. Within the
modelled components: opening and closing the UART, the I2C baud-rate ioctl,
barriers allocated by the application, the hardware mutex of the critical
section, light callbacks to the FC.

Two smaller things. An asynchronous send with a null `pi_task_t` is left out, and
with it the case of `cl_task_finish` that notifies nobody (fc_to_cl_delegate.c 128). `MallocAlign` is one step although `pi_cl_l1_malloc_align`,
unlike the plain allocation, masks no interrupts: the model has one caller at a time (see the plan).

Formatting and tracing are left out everywhere. Baud rates, clock dividers and
the bytes moved are abstracted to what the properties tell apart.
