----------------------------- MODULE UartProofs -----------------------------
(***************************************************************************)
(* The safety invariants of the UART driver hold for every number of       *)
(* tasks, every transfer size and every mix of calls and ioctls; without   *)
(* aborts no accepted transfer is forgotten; with short transfers, it      *)
(* implements TransferService.                                             *)
(***************************************************************************)
EXTENDS UartRefinement, TaskFifoProofs

\* The inductive invariant.
IInv ==
  /\ TypeOK
  /\ FifoOnce
  /\ FifoLinked
  /\ NodesAlive
  /\ ChannelOwner
  /\ SectionsExclusive
  /\ NoStaleCompletion

(***************************************************************************)
(* Consequences of the invariant                                           *)
(***************************************************************************)

LEMMA InFlightQueued ==
  \A p : p \in InFlight <=> \E c \in Channel : p \in Queued(c)
BY DEF InFlight, Channel

LEMMA QueuesDisjoint ==
  ASSUME FifoOnce, NEW c \in Channel, NEW d \in Channel, c # d
  PROVE  Queued(c) \cap Queued(d) = {}
BY DEF FifoOnce, Channel, RX_CHANNEL, TX_CHANNEL

\* The head of a fifo, when there is one, is the first accepted transfer; the
\* fifo is empty exactly when its head is NULL.
LEMMA HeadOfFifo ==
  ASSUME TypeOK, FifoLinked, NEW c \in Channel
  PROVE  /\ fifo_head[c] = NULL <=> queue[c] = <<>>
         /\ queue[c] # <<>> => /\ fifo_head[c] = Head(queue[c])
                               /\ fifo_head[c] \in Thread
                               /\ fifo_head[c] \in Queued(c)
                               /\ fifo_tail[c] \in Thread
                               /\ fifo_tail[c] \in Queued(c)
<1>1. /\ queue[c] \in Seq(Thread)
      /\ Represents(queue[c], fifo_head[c], fifo_tail[c], next, NULL)
  BY DEF TypeOK, FifoLinked
<1>2. queue[c] # <<>> => queue[c][1] \in Elements(queue[c])
  BY <1>1, LenProperties, EmptySeq DEF Elements
<1> QED
  BY <1>1, <1>2, RepresentsEnds, ThreadAssumption DEF Queued

\* Only threads are in a fifo.
LEMMA QueuedThreads ==
  ASSUME TypeOK, NEW c \in Channel
  PROVE  Queued(c) \subseteq Thread
<1>1. queue[c] \in Seq(Thread)
  BY DEF TypeOK
<1> QED
  BY <1>1, ElementOfSeq, LenProperties DEF Queued, Elements

(***************************************************************************)
(* Initial state                                                           *)
(***************************************************************************)

LEMMA InitIInv == Init => IInv
<1> SUFFICES ASSUME Init PROVE IInv
  OBVIOUS
<1>1. /\ \A c \in Channel : queue[c] = <<>> /\ Queued(c) = {}
      /\ Elements(events) = {} /\ Once(events)
      /\ \A c \in Channel : Once(queue[c])
  BY EmptySeq DEF Init, Queued, Elements, Once
<1>2. TypeOK
  BY EmptySeq DEF Init, TypeOK, Pc, Call, CallZero, ApiKind, PiTaskT, PiTaskZero,
     TaskId, Data, DataZero, Window, UdmaIdle, Channel, RX_CHANNEL, TX_CHANNEL
<1>3. FifoOnce
  BY <1>1 DEF FifoOnce, Channel
<1>4. FifoLinked
  BY <1>1 DEF Init, FifoLinked, Represents
<1>5. NodesAlive
  BY <1>1 DEF Init, NodesAlive, InFlight, Channel
<1>6. ChannelOwner
  BY <1>1 DEF Init, ChannelOwner, UdmaIdle
<1>7. SectionsExclusive
  BY ThreadAssumption DEF Init, SectionsExclusive, IoctlCmd
<1>8. NoStaleCompletion
  BY <1>1 DEF Init, NoStaleCompletion
<1> QED
  BY <1>2, <1>3, <1>4, <1>5, <1>6, <1>7, <1>8 DEF IInv

(***************************************************************************)
(* Types                                                                   *)
(***************************************************************************)

LEMMA ExecTypes ==
  ASSUME NEW t \in Thread, NEW d \in Data
  PROVE  ExecData(d) \in Data /\ ExecWindow(t, d) \in Window
BY ChunkAssumption DEF ExecData, ExecWindow, Data, Window

LEMMA ModRange ==
  ASSUME NEW a \in Int, NEW n \in Nat, n > 0
  PROVE  a % n \in Nat
OBVIOUS

LEMMA NextChunkType ==
  ASSUME NEW d \in Data
  PROVE  NextChunk(d) \in Data
<1>1. WORD \in Nat /\ WORD > 0 /\ MAX_CHUNK \in Int
  BY ChunkAssumption, WordAssumption
<1>2. d.l2_buf + MAX_CHUNK \in Int /\ d.size - MAX_CHUNK \in Int
  BY <1>1 DEF Data
<1>3. (d.l2_buf + MAX_CHUNK) % WORD \in Nat /\ (d.size - MAX_CHUNK) % WORD \in Nat
  BY <1>1, <1>2, ModRange
<1> QED
  BY <1>3 DEF NextChunk, Data

LEMMA FreshType ==
  ASSUME TypeOK, NEW p \in Thread
  PROVE  FreshData(p) \in Data
BY DEF TypeOK, FreshData, Data, Call

LEMMA TaskTypes ==
  ASSUME NEW t \in PiTaskT
  PROVE  /\ PiTaskRelease(t) \in PiTaskT
         /\ PiTaskDestroy(t) \in PiTaskT
         /\ PiTaskDestroy(t).done = t.done
         /\ PiTaskCallback \in PiTaskT /\ PiTaskCallback.done = FALSE
         /\ \A b \in BOOLEAN : PiTaskBlock(b) \in PiTaskT /\ PiTaskBlock(b).done = FALSE
BY DEF PiTaskT, TaskId, PiTaskRelease, PiTaskDestroy, PiTaskCallback, PiTaskBlock

(***************************************************************************)
(* Steps that leave the fifos and the channels alone                       *)
(***************************************************************************)

\* Whatever else a step changes, the invariants on the fifos alone hold as long
\* as head, tail, links and queue do not change.
LEMMA FifosKept ==
  ASSUME FifoOnce, FifoLinked, UNCHANGED <<fifo_head, fifo_tail, next, queue>>
  PROVE  /\ FifoOnce' /\ FifoLinked' /\ InFlight' = InFlight
         /\ \A c \in Channel : Queued(c)' = Queued(c)
BY DEF FifoOnce, FifoLinked, InFlight, Queued

\* A step that changes neither a fifo head, nor a channel, nor the events keeps
\* the ownership of the channels.
LEMMA OwnersKept ==
  ASSUME ChannelOwner, UNCHANGED <<fifo_head, udma, events>>
  PROVE  ChannelOwner'
BY DEF ChannelOwner

LEMMA EnterCopyIInv ==
  ASSUME IInv, NEW p \in Thread, NEW a \in Calls, NEW created \in BOOLEAN,
         EnterCopy(p, a, created)
  PROVE  IInv'
<1> USE DEF IInv, EnterCopy, uart
<1>1. TypeOK'
  <2>1. a \in Call
    <3>1. Size \subseteq Nat
      BY SizeAssumption, WordAssumption
    <3> QED
      BY <3>1, ApiAssumption, BufferAssumption DEF Calls, Call
  <2> QED
    BY <2>1, TaskTypes DEF TypeOK, Pc
<1>2. FifoOnce' /\ FifoLinked' /\ InFlight' = InFlight
  BY FifosKept
<1>3. NodesAlive'
  <2>1. p \notin InFlight
    BY DEF NodesAlive
  <2>2. task'[p].done = FALSE
    BY TaskTypes DEF TypeOK
  <2>3. \A q \in Thread \ {p} : pc'[q] = pc[q] /\ task'[q] = task[q]
    BY DEF TypeOK
  <2> QED
    BY <1>2, <2>1, <2>2, <2>3, QueuedThreads, InFlightQueued DEF NodesAlive
<1>4. ChannelOwner'
  BY OwnersKept
<1>5. SectionsExclusive'
  BY ThreadAssumption DEF SectionsExclusive, Runs, TypeOK, Pc
<1>6. NoStaleCompletion'
  <2>1. Elements(events) = {}
    BY EmptySeq DEF Runs, Preempted, Elements
  <2> QED
    BY <2>1 DEF NoStaleCompletion
<1> QED
  BY <1>1, <1>2, <1>3, <1>4, <1>5, <1>6

LEMMA CopyRefusedIInv ==
  ASSUME IInv, NEW p \in Thread, CopyRefused(p)
  PROVE  IInv'
<1> USE DEF IInv, CopyRefused, uart
<1>1. TypeOK'
  BY DEF TypeOK, Pc
<1>2. FifoOnce' /\ FifoLinked' /\ InFlight' = InFlight
  BY FifosKept
<1>3. NodesAlive'
  BY <1>2 DEF NodesAlive, TypeOK
<1>4. ChannelOwner'
  BY OwnersKept
<1>5. SectionsExclusive'
  BY ThreadAssumption DEF SectionsExclusive, TypeOK, IoctlCmd
<1>6. NoStaleCompletion'
  BY DEF NoStaleCompletion, TypeOK
<1> QED
  BY <1>1, <1>2, <1>3, <1>4, <1>5, <1>6

\* A thread that leaves the driver is not in a fifo: its task is done, or was
\* never accepted.
LEMMA LeaveIInv ==
  ASSUME IInv, NEW p \in Thread, WaitOn(p) \/ GiveUp(p)
  PROVE  IInv'
<1> USE DEF IInv, WaitOn, GiveUp, Leave
<1>1. p \notin InFlight /\ pc[p] \in {"wait", "refused"} /\ Runs(p)
  BY DEF NodesAlive, WaitOver
<1>2. /\ PiTaskDestroy(task[p]) \in PiTaskT
      /\ PiTaskDestroy(PiTaskDestroy(task[p])) \in PiTaskT
  BY TaskTypes DEF TypeOK
<1>3. TypeOK'
  <2>1. CallZero \in Call /\ DataZero \in Data
    BY DEF CallZero, Call, ApiKind, DataZero, Data, Channel, RX_CHANNEL
  <2>2. /\ TypeOK
        /\ \/ task' = [task EXCEPT ![p] = PiTaskDestroy(PiTaskDestroy(task[p]))]
           \/ task' = [task EXCEPT ![p] = PiTaskDestroy(task[p])]
    OBVIOUS
  <2>3. /\ pc' = [pc EXCEPT ![p] = "idle"]
        /\ call' = [call EXCEPT ![p] = CallZero]
        /\ status' = [status EXCEPT ![p] = 0]
        /\ data' = [data EXCEPT ![p] = DataZero]
        /\ next' = [next EXCEPT ![p] = NULL]
    OBVIOUS
  <2>4. UNCHANGED <<irq, fifo_head, fifo_tail, queue, setup, udma, events,
                    scheduled, fault>>
    OBVIOUS
  <2> HIDE DEF IInv, WaitOn, GiveUp, Leave
  <2>5. task' \in [Thread -> PiTaskT]
    BY <1>2, <2>2, TaskTypes DEF TypeOK
  <2>6. pc' \in [Thread -> Pc] /\ next' \in [Thread -> Thread \cup {NULL}]
    BY <2>2, <2>3 DEF TypeOK, Pc
  <2>7. call' \in [Thread -> Call] /\ data' \in [Thread -> Data]
    BY <2>1, <2>2, <2>3 DEF TypeOK
  <2>8. status' \in [Thread -> {0, -11}]
    BY <2>2, <2>3 DEF TypeOK
  <2> QED
    BY <2>2, <2>4, <2>5, <2>6, <2>7, <2>8 DEF TypeOK
<1>4. FifoOnce' /\ InFlight' = InFlight
  BY DEF FifoOnce, InFlight, Queued
<1>5. FifoLinked'
  <2> SUFFICES ASSUME NEW c \in Channel
               PROVE  Represents(queue[c], fifo_head[c], fifo_tail[c], next', NULL)
    BY DEF FifoLinked
  <2>1. p \notin Queued(c)
    BY <1>1, InFlightQueued
  <2>2. \A x \in Elements(queue[c]) : next'[x] = next[x]
    BY <2>1, QueuedThreads DEF Queued, TypeOK
  <2> QED
    BY <2>2, RepresentsFrame DEF FifoLinked
<1>6. NodesAlive'
  <2>1. \A q \in Thread \ {p} : pc'[q] = pc[q] /\ task'[q] = task[q]
    BY DEF TypeOK
  <2>2. pc'[p] = "idle"
    BY DEF TypeOK
  <2> QED
    BY <1>1, <1>4, <2>1, <2>2, QueuedThreads, InFlightQueued DEF NodesAlive
<1>7. ChannelOwner'
  BY OwnersKept
<1>8. SectionsExclusive'
  BY <1>1 DEF SectionsExclusive, TypeOK, Runs, IoctlCmd
<1>9. NoStaleCompletion'
  BY DEF NoStaleCompletion, TypeOK
<1> QED
  BY <1>3, <1>4, <1>5, <1>6, <1>7, <1>8, <1>9

LEMMA EnterIoctlIInv ==
  ASSUME IInv, NEW p \in Thread, NEW cmd \in Ioctl, EnterIoctl(p, cmd)
  PROVE  IInv'
<1> USE DEF IInv, EnterIoctl, uart
<1>1. cmd \in IoctlCmd /\ cmd \notin {"copy", "wait", "detached"}
  BY IoctlAssumption DEF IoctlCmd
<1>2. TypeOK'
  BY <1>1 DEF TypeOK, Pc
<1>3. FifoOnce' /\ FifoLinked' /\ InFlight' = InFlight
  BY FifosKept
<1>4. NodesAlive'
  BY <1>1, <1>3 DEF NodesAlive, TypeOK
<1>5. ChannelOwner'
  BY OwnersKept
<1>6. SectionsExclusive'
  BY <1>1, ThreadAssumption DEF SectionsExclusive, Runs, TypeOK, IoctlCmd
<1>7. NoStaleCompletion'
  BY <1>1 DEF NoStaleCompletion, TypeOK
<1> QED
  BY <1>2, <1>3, <1>4, <1>5, <1>6, <1>7

LEMMA IoctlSetupIInv ==
  ASSUME IInv, NEW p \in Thread, IoctlEnable(p) \/ IoctlSetup(p)
  PROVE  IInv'
<1> USE DEF IInv, IoctlEnable, IoctlSetup, uart
<1>1. TypeOK'
  BY DEF TypeOK, Pc
<1>2. FifoOnce' /\ FifoLinked' /\ InFlight' = InFlight
  BY FifosKept
<1>3. NodesAlive'
  <2>1. /\ pc[p] \notin {"wait", "detached", "copy"} /\ task' = task
        /\ pc'[p] = "idle" /\ \A q \in Thread \ {p} : pc'[q] = pc[q]
    BY DEF TypeOK
  <2>2. InFlight \subseteq Thread
    BY QueuedThreads, InFlightQueued
  <2> HIDE DEF IoctlEnable, IoctlSetup
  <2> QED
    BY <1>2, <2>1, <2>2 DEF NodesAlive
<1>4. ChannelOwner'
  BY OwnersKept
<1>5. SectionsExclusive'
  BY ThreadAssumption DEF SectionsExclusive, TypeOK, IoctlCmd
<1>6. NoStaleCompletion'
  BY DEF NoStaleCompletion, TypeOK
<1> QED
  BY <1>1, <1>2, <1>3, <1>4, <1>5, <1>6

(***************************************************************************)
(* Steps that change a fifo                                                *)
(***************************************************************************)

\* An accepted transfer comes from a thread that is in no fifo, and finds
\* interrupts disabled by itself.
LEMMA CopyFresh ==
  ASSUME IInv, NEW p \in Thread, pc[p] = "copy"
  PROVE  /\ p \notin InFlight /\ \A c \in Channel : p \notin Queued(c)
         /\ ~task[p].done /\ irq = p
         /\ call[p].channel \in Channel
         /\ \A q \in Thread : pc[q] = "copy" => q = p
<1>1. p \notin InFlight /\ ~task[p].done
  BY DEF IInv, NodesAlive
<1> QED
  BY <1>1, InFlightQueued DEF IInv, SectionsExclusive, TypeOK, Call

\* What accepting p's transfer does to the queues.
LEMMA AcceptedQueues ==
  ASSUME IInv, NEW p \in Thread, pc[p] = "copy", NEW c \in Channel,
         queue' = [queue EXCEPT ![c] = Append(queue[c], p)]
  PROVE  /\ queue' \in [Channel -> Seq(Thread)]
         /\ queue'[c] = Append(queue[c], p) /\ queue'[c] # <<>>
         /\ \A d \in Channel \ {c} : queue'[d] = queue[d]
         /\ Queued(c)' = Queued(c) \cup {p}
         /\ \A d \in Channel \ {c} : Queued(d)' = Queued(d)
         /\ InFlight' = InFlight \cup {p}
         /\ FifoOnce'
<1>1. /\ queue \in [Channel -> Seq(Thread)]
      /\ p \notin InFlight /\ \A d \in Channel : p \notin Queued(d)
      /\ Once(queue[c])
  BY CopyFresh DEF IInv, TypeOK, FifoOnce
<1>2. /\ Append(queue[c], p) \in Seq(Thread)
      /\ Append(queue[c], p) # <<>>
      /\ Elements(Append(queue[c], p)) = Elements(queue[c]) \cup {p}
      /\ Once(Append(queue[c], p))
  BY <1>1, AppendOnce DEF Queued
<1>3. /\ queue' \in [Channel -> Seq(Thread)]
      /\ queue'[c] = Append(queue[c], p) /\ queue'[c] # <<>>
      /\ \A d \in Channel \ {c} : queue'[d] = queue[d]
  BY <1>1, <1>2
<1>4. /\ Queued(c)' = Queued(c) \cup {p}
      /\ \A d \in Channel \ {c} : Queued(d)' = Queued(d)
  BY <1>2, <1>3 DEF Queued
<1>5. InFlight' = InFlight \cup {p}
  BY <1>4 DEF InFlight, Channel
<1>6. FifoOnce'
  <2>1. \A d \in Channel : Once(queue'[d])
    BY <1>2, <1>3 DEF IInv, FifoOnce
  <2>2. Queued(RX_CHANNEL)' \cap Queued(TX_CHANNEL)' = {}
    <3>1. Queued(RX_CHANNEL) \cap Queued(TX_CHANNEL) = {}
      BY DEF IInv, FifoOnce
    <3>2. /\ RX_CHANNEL \in Channel /\ TX_CHANNEL \in Channel
          /\ RX_CHANNEL # TX_CHANNEL /\ (c = RX_CHANNEL \/ c = TX_CHANNEL)
      BY DEF Channel, RX_CHANNEL, TX_CHANNEL
    <3>3. p \notin Queued(RX_CHANNEL) /\ p \notin Queued(TX_CHANNEL)
      BY <1>1, <3>2
    <3>4. CASE c = RX_CHANNEL
      BY <1>4, <3>1, <3>2, <3>3, <3>4
    <3>5. CASE c = TX_CHANNEL
      BY <1>4, <3>1, <3>2, <3>3, <3>5
    <3> QED
      BY <3>2, <3>4, <3>5
  <2> QED
    BY <2>1, <2>2 DEF FifoOnce
<1> QED
  BY <1>3, <1>4, <1>5, <1>6

LEMMA CopyExecIInv ==
  ASSUME IInv, NEW p \in Thread, CopyExec(p)
  PROVE  IInv'
<1> DEFINE c == call[p].channel
<1> USE DEF CopyExec
<1>1. /\ c \in Channel /\ pc[p] = "copy" /\ irq = p
      /\ p \notin InFlight /\ \A d \in Channel : p \notin Queued(d)
      /\ ~task[p].done
      /\ \A q \in Thread : pc[q] = "copy" => q = p
  BY CopyFresh
<1>2. /\ queue' = [queue EXCEPT ![c] = Append(queue[c], p)]
      /\ fifo_head[c] = NULL
  OBVIOUS
<1>3. TypeOK
  BY DEF IInv
<1> HIDE DEF c
<1>4. /\ queue' \in [Channel -> Seq(Thread)]
      /\ queue'[c] = Append(queue[c], p)
      /\ \A d \in Channel \ {c} : queue'[d] = queue[d]
      /\ InFlight' = InFlight \cup {p}
      /\ FifoOnce'
  BY <1>1, <1>2, AcceptedQueues
<1>5. queue[c] = <<>> /\ c \notin Elements(events)
  BY <1>1, <1>2, HeadOfFifo DEF IInv, NoStaleCompletion
<1>6. TypeOK'
  <2>1. FreshData(p) \in Data
    BY <1>3, FreshType
  <2>2. ExecData(FreshData(p)) \in Data /\ ExecWindow(p, FreshData(p)) \in Window
    BY <2>1, ExecTypes
  <2>3. data' \in [Thread -> Data] /\ udma' \in [Channel -> Window]
    BY <1>3, <2>2 DEF TypeOK
  <2>4. pc' \in [Thread -> Pc] /\ status' \in [Thread -> {0, -11}]
    BY <1>3 DEF TypeOK, Pc
  <2>5. /\ next' \in [Thread -> Thread \cup {NULL}]
        /\ fifo_head' \in [Channel -> Thread \cup {NULL}]
        /\ fifo_tail' \in [Channel -> Thread \cup {NULL}]
    BY <1>3 DEF TypeOK
  <2> QED
    BY <1>3, <1>4, <2>3, <2>4, <2>5 DEF TypeOK
<1>7. FifoLinked'
  <2>1. next'[p] = NULL /\ \A q \in Thread \ {p} : next'[q] = next[q]
    BY <1>3 DEF TypeOK
  <2>2. /\ fifo_head'[c] = p /\ fifo_tail'[c] = p
        /\ \A d \in Channel \ {c} : /\ fifo_head'[d] = fifo_head[d]
                                    /\ fifo_tail'[d] = fifo_tail[d]
    BY <1>1, <1>3 DEF TypeOK, c
  <2>3. Represents(queue'[c], fifo_head'[c], fifo_tail'[c], next', NULL)
    <3>1. Represents(Append(<<>>, p), p, p, next', NULL)
      BY <2>1, RepresentsFirst
    <3>2. queue'[c] = Append(<<>>, p)
      BY <1>4, <1>5
    <3> QED
      BY <2>2, <3>1, <3>2
  <2>4. ASSUME NEW d \in Channel \ {c}
        PROVE  Represents(queue'[d], fifo_head'[d], fifo_tail'[d], next', NULL)
    <3>1. \A x \in Elements(queue[d]) : next'[x] = next[x]
      <4>1. Elements(queue[d]) \subseteq Thread
        BY <1>3, QueuedThreads DEF Queued
      <4>2. p \notin Elements(queue[d])
        BY <1>1 DEF Queued
      <4> QED
        BY <2>1, <4>1, <4>2
    <3>2. Represents(queue[d], fifo_head[d], fifo_tail[d], next, NULL)
      BY DEF IInv, FifoLinked
    <3>3. Represents(queue[d], fifo_head[d], fifo_tail[d], next', NULL)
      BY <3>1, <3>2, RepresentsFrame, ZenonT(30)
    <3> QED
      BY <1>4, <2>2, <3>3
  <2> QED
    BY <2>3, <2>4 DEF FifoLinked
<1>8. NodesAlive'
  <2>1. pc'[p] \in {"wait", "detached"} /\ \A q \in Thread \ {p} : pc'[q] = pc[q]
    BY <1>3 DEF TypeOK
  <2> QED
    BY <1>1, <1>4, <2>1, <1>3, QueuedThreads, InFlightQueued DEF IInv, NodesAlive
<1>9. ChannelOwner'
  <2>1. /\ udma'[c].busy /\ udma'[c].owner = p
        /\ \A d \in Channel \ {c} : udma'[d] = udma[d]
    BY <1>1, <1>3 DEF TypeOK, ExecWindow, c
  <2>2. /\ fifo_head'[c] = p /\ p # NULL
        /\ \A d \in Channel \ {c} : fifo_head'[d] = fifo_head[d]
    BY <1>1, <1>3, ThreadAssumption DEF TypeOK, c
  <2>3. events' = events
    OBVIOUS
  <2> QED
    BY <1>5, <2>1, <2>2, <2>3 DEF IInv, ChannelOwner
<1>10. SectionsExclusive'
  <2>1. /\ pc'[p] \in {"wait", "detached"} /\ irq' = NULL
        /\ \A q \in Thread \ {p} : pc'[q] = pc[q]
    BY <1>3 DEF TypeOK
  <2> QED
    BY <1>1, <2>1, ThreadAssumption DEF IInv, SectionsExclusive, IoctlCmd
<1>11. NoStaleCompletion'
  <2>1. /\ pc'[p] \in {"wait", "detached"}
        /\ \A q \in Thread \ {p} : pc'[q] = pc[q]
    BY <1>3 DEF TypeOK
  <2> QED
    BY <1>1, <2>1 DEF NoStaleCompletion
<1> QED
  BY <1>4, <1>6, <1>7, <1>8, <1>9, <1>10, <1>11 DEF IInv

LEMMA CopyEnqueueIInv ==
  ASSUME IInv, NEW p \in Thread, CopyEnqueue(p)
  PROVE  IInv'
<1> DEFINE c == call[p].channel
           t == fifo_tail[c]
<1> USE DEF CopyEnqueue
<1>1. /\ c \in Channel /\ pc[p] = "copy" /\ irq = p
      /\ p \notin InFlight /\ \A d \in Channel : p \notin Queued(d)
      /\ ~task[p].done
      /\ \A q \in Thread : pc[q] = "copy" => q = p
  BY CopyFresh
<1>2. /\ queue' = [queue EXCEPT ![c] = Append(queue[c], p)]
      /\ next' = [next EXCEPT ![p] = NULL, ![t] = p]
      /\ fifo_tail' = [fifo_tail EXCEPT ![c] = p]
      /\ fifo_head[c] # NULL
  BY DEF TailAfterEnqueue
<1>3. TypeOK
  BY DEF IInv
<1> HIDE DEF c, t
<1>4. /\ queue' \in [Channel -> Seq(Thread)]
      /\ queue'[c] = Append(queue[c], p)
      /\ \A d \in Channel \ {c} : queue'[d] = queue[d]
      /\ InFlight' = InFlight \cup {p}
      /\ FifoOnce'
  BY <1>1, <1>2, AcceptedQueues
<1>5. /\ queue[c] # <<>> /\ queue[c] \in Seq(Thread) /\ Once(queue[c])
      /\ Represents(queue[c], fifo_head[c], t, next, NULL)
      /\ t \in Thread /\ t \in Queued(c) /\ t # p
  BY <1>1, <1>2, <1>3, HeadOfFifo DEF IInv, FifoLinked, FifoOnce, TypeOK, t
<1>6. /\ next' \in [Thread -> Thread \cup {NULL}]
      /\ next'[p] = NULL /\ next'[t] = p
      /\ \A x \in Thread \ {p, t} : next'[x] = next[x]
  <2>1. next \in [Thread -> Thread \cup {NULL}] /\ NULL \notin Thread
    BY <1>3, ThreadAssumption DEF TypeOK
  <2> HIDE DEF CopyEnqueue
  <2> QED
    BY <1>2, <1>5, <2>1
<1>7. /\ fifo_tail'[c] = p /\ fifo_tail' \in [Channel -> Thread \cup {NULL}]
      /\ \A d \in Channel \ {c} : fifo_tail'[d] = fifo_tail[d]
      /\ UNCHANGED <<fifo_head, udma, events, setup, task, call, fault, scheduled>>
  BY <1>1, <1>2, <1>3 DEF TypeOK
<1>8. /\ pc' \in [Thread -> Pc] /\ pc'[p] \in {"wait", "detached"} /\ irq' = NULL
      /\ \A q \in Thread \ {p} : pc'[q] = pc[q]
  BY <1>3 DEF TypeOK, Pc
<1>9. TypeOK'
  <2>1. FreshData(p) \in Data
    BY <1>3, FreshType
  <2>2. data' = [data EXCEPT ![p] = FreshData(p)] /\ status' = [status EXCEPT ![p] = 0]
    OBVIOUS
  <2>3. UNCHANGED <<call, task, fifo_head, setup, udma, events, scheduled, fault>>
    OBVIOUS
  <2> HIDE DEF CopyEnqueue
  <2>4. data' \in [Thread -> Data]
    BY <1>3, <2>1, <2>2 DEF TypeOK
  <2>5. status' \in [Thread -> {0, -11}]
    BY <1>3, <2>2 DEF TypeOK
  <2> QED
    BY <1>3, <1>4, <1>6, <1>7, <1>8, <2>3, <2>4, <2>5 DEF TypeOK
<1>10. FifoLinked'
  <2>1. Represents(queue'[c], fifo_head'[c], fifo_tail'[c], next', NULL)
    <3>1. Represents(Append(queue[c], p), fifo_head[c], p, next', NULL)
      <4>1. p \notin Elements(queue[c])
        BY <1>1 DEF Queued
      <4>2. next \in [Thread -> Thread \cup {NULL}]
        BY <1>3 DEF TypeOK
      <4> HIDE DEF CopyEnqueue
      <4> QED
        BY <1>5, <1>6, <4>1, <4>2, RepresentsAppend, ThreadAssumption, SMTT(30)
    <3> QED
      BY <1>4, <1>7, <3>1
  <2>2. ASSUME NEW d \in Channel \ {c}
        PROVE  Represents(queue'[d], fifo_head'[d], fifo_tail'[d], next', NULL)
    <3>1. t \notin Queued(d) /\ p \notin Queued(d)
      BY <1>1, <1>5, QueuesDisjoint DEF IInv
    <3>2. \A x \in Elements(queue[d]) : next'[x] = next[x]
      BY <1>3, <1>6, <3>1, QueuedThreads DEF Queued
    <3>3. Represents(queue[d], fifo_head[d], fifo_tail[d], next, NULL)
      BY DEF IInv, FifoLinked
    <3>4. Represents(queue[d], fifo_head[d], fifo_tail[d], next', NULL)
      BY <3>2, <3>3, RepresentsFrame
    <3> QED
      BY <1>4, <1>7, <3>4
  <2> QED
    BY <2>1, <2>2 DEF FifoLinked
<1>11. NodesAlive'
  BY <1>1, <1>3, <1>4, <1>7, <1>8, QueuedThreads, InFlightQueued DEF IInv, NodesAlive
<1>12. ChannelOwner'
  BY <1>7, OwnersKept DEF IInv
<1>13. SectionsExclusive'
  BY <1>1, <1>8, ThreadAssumption DEF IInv, SectionsExclusive, IoctlCmd
<1>14. NoStaleCompletion'
  BY <1>1, <1>8 DEF NoStaleCompletion
<1> QED
  BY <1>4, <1>9, <1>10, <1>11, <1>12, <1>13, <1>14 DEF IInv

LEMMA IoctlAbortIInv ==
  ASSUME IInv, NEW p \in Thread, IoctlAbort(p)
  PROVE  IInv'
<1> USE DEF IoctlAbort
<1>1. /\ AbortChannel(pc[p]) \in Channel
      /\ irq = p /\ irq' = NULL /\ pc[p] \in {"ABORT_RX", "ABORT_TX"}
      /\ \A q \in Thread : pc[q] # "copy"
  BY DEF AbortChannel, Channel, IInv, SectionsExclusive
<1> PICK c \in Channel : c = AbortChannel(pc[p])
  BY <1>1
<1>2. /\ TypeOK
      /\ queue' = [queue EXCEPT ![c] = <<>>]
      /\ fifo_head' = [fifo_head EXCEPT ![c] = NULL]
      /\ fifo_tail' = [fifo_tail EXCEPT ![c] = NULL]
      /\ udma' = [udma EXCEPT ![c] = UdmaIdle]
  BY DEF IInv
<1>3. /\ queue' \in [Channel -> Seq(Thread)] /\ queue'[c] = <<>>
      /\ fifo_head'[c] = NULL /\ fifo_tail'[c] = NULL
      /\ udma'[c] = UdmaIdle
      /\ \A d \in Channel \ {c} : /\ queue'[d] = queue[d]
                                  /\ fifo_head'[d] = fifo_head[d]
                                  /\ fifo_tail'[d] = fifo_tail[d]
                                  /\ udma'[d] = udma[d]
      /\ UNCHANGED <<next, task, events>>
  <2>1. /\ queue' \in [Channel -> Seq(Thread)] /\ queue'[c] = <<>>
        /\ \A d \in Channel \ {c} : queue'[d] = queue[d]
    BY <1>2, EmptySeq DEF TypeOK
  <2>2. /\ fifo_head'[c] = NULL /\ fifo_tail'[c] = NULL /\ udma'[c] = UdmaIdle
        /\ \A d \in Channel \ {c} : /\ fifo_head'[d] = fifo_head[d]
                                    /\ fifo_tail'[d] = fifo_tail[d]
                                    /\ udma'[d] = udma[d]
    BY <1>2 DEF TypeOK
  <2> QED
    BY <2>1, <2>2
<1>4. /\ Queued(c)' = {}
      /\ \A d \in Channel \ {c} : Queued(d)' = Queued(d)
      /\ \A d \in Channel : Queued(d)' \subseteq Queued(d)
  BY <1>3, EmptyOnce DEF Queued
<1>5. InFlight' \subseteq InFlight
  BY <1>4 DEF InFlight, Channel
<1>6. /\ pc' \in [Thread -> Pc] /\ pc'[p] = "idle"
      /\ \A q \in Thread \ {p} : pc'[q] = pc[q]
  BY <1>2 DEF TypeOK, Pc
<1>7. TypeOK'
  <2>1. UdmaIdle \in Window
    BY DEF UdmaIdle, Window
  <2>2. /\ udma' \in [Channel -> Window] /\ setup' \in [Channel -> BOOLEAN]
        /\ fifo_head' \in [Channel -> Thread \cup {NULL}]
        /\ fifo_tail' \in [Channel -> Thread \cup {NULL}]
    BY <1>2, <2>1 DEF TypeOK
  <2>3. UNCHANGED <<call, status, task, data, next, events, scheduled, fault>>
    OBVIOUS
  <2> HIDE DEF IoctlAbort
  <2> QED
    BY <1>1, <1>2, <1>3, <1>6, <2>2, <2>3 DEF TypeOK
<1>8. FifoOnce'
  <2>1. \A d \in Channel : Once(queue'[d])
    BY <1>3, EmptyOnce DEF IInv, FifoOnce
  <2>2. Queued(RX_CHANNEL)' \subseteq Queued(RX_CHANNEL)
        /\ Queued(TX_CHANNEL)' \subseteq Queued(TX_CHANNEL)
    BY <1>4 DEF Channel
  <2> QED
    BY <2>1, <2>2 DEF IInv, FifoOnce
<1>9. FifoLinked'
  <2>1. Represents(queue'[c], fifo_head'[c], fifo_tail'[c], next', NULL)
    BY <1>3, EmptySeq DEF Represents
  <2>2. ASSUME NEW d \in Channel \ {c}
        PROVE  Represents(queue'[d], fifo_head'[d], fifo_tail'[d], next', NULL)
    BY <1>3 DEF IInv, FifoLinked
  <2> QED
    BY <2>1, <2>2 DEF FifoLinked
<1>10. NodesAlive'
  <2>1. p \notin InFlight
    BY <1>1 DEF IInv, NodesAlive
  <2>2. InFlight \subseteq Thread
    BY <1>2, QueuedThreads, InFlightQueued
  <2> QED
    BY <1>1, <1>3, <1>5, <1>6, <2>1, <2>2 DEF IInv, NodesAlive
<1>11. ChannelOwner'
  BY <1>3 DEF IInv, ChannelOwner, UdmaIdle
<1>12. SectionsExclusive'
  BY <1>1, <1>6, ThreadAssumption DEF IInv, SectionsExclusive, IoctlCmd
<1>13. NoStaleCompletion'
  BY <1>1, <1>6 DEF NoStaleCompletion
<1> QED
  BY <1>7, <1>8, <1>9, <1>10, <1>11, <1>12, <1>13 DEF IInv

(***************************************************************************)
(* Hardware and interrupt handler                                          *)
(***************************************************************************)

LEMMA UdmaDoneIInv ==
  ASSUME IInv, NEW c \in Channel, UdmaDone(c)
  PROVE  IInv'
<1> USE DEF UdmaDone, uart, thread
<1>1. TypeOK
  BY DEF IInv
<1>2. /\ events \in Seq(Channel) /\ c \notin Elements(events)
      /\ Once(events) /\ fifo_head[c] # NULL
  BY <1>1 DEF IInv, ChannelOwner, TypeOK
<1>3. /\ events' \in Seq(Channel) /\ Once(events')
      /\ Elements(events') = Elements(events) \cup {c}
  BY <1>2, AppendOnce
<1>4. /\ udma'[c] = UdmaIdle /\ \A d \in Channel \ {c} : udma'[d] = udma[d]
      /\ udma' \in [Channel -> Window]
  BY <1>1 DEF TypeOK, UdmaIdle, Window
<1>5. TypeOK'
  BY <1>1, <1>3, <1>4 DEF TypeOK
<1>6. FifoOnce' /\ FifoLinked' /\ InFlight' = InFlight
  BY FifosKept DEF IInv
<1>7. NodesAlive'
  BY <1>6 DEF IInv, NodesAlive
<1>8. ChannelOwner'
  BY <1>2, <1>3, <1>4 DEF IInv, ChannelOwner, UdmaIdle
<1>9. SectionsExclusive'
  BY DEF IInv, SectionsExclusive
<1>10. NoStaleCompletion'
  BY <1>2, <1>3 DEF IInv, NoStaleCompletion
<1> QED
  BY <1>5, <1>6, <1>7, <1>8, <1>9, <1>10 DEF IInv

\* Taking an event: the channel it names is not moving anything, and no thread
\* is in the middle of __pi_uart_copy.
LEMMA ServeFacts ==
  ASSUME IInv, NEW c \in Channel, Serve(c)
  PROVE  /\ events' \in Seq(Channel) /\ Once(events')
         /\ Elements(events') = Elements(events) \ {c}
         /\ c \in Elements(events) /\ ~udma[c].busy
         /\ irq = NULL /\ \A q \in Thread : pc[q] # "copy"
<1>1. /\ events \in Seq(Channel) /\ events # <<>> /\ Once(events)
      /\ c = Head(events) /\ events' = Tail(events) /\ irq = NULL
  BY DEF Serve, Preempted, IInv, TypeOK, ChannelOwner
<1>2. /\ events' \in Seq(Channel) /\ Once(events')
      /\ Elements(events') = Elements(events) \ {c}
      /\ c \in Elements(events)
  BY <1>1, TailOnce
<1>3. \A q \in Thread : pc[q] # "copy"
  BY <1>1, ThreadAssumption DEF IInv, SectionsExclusive
<1> QED
  BY <1>1, <1>2, <1>3 DEF IInv, ChannelOwner

LEMMA HandlerNoTaskIInv ==
  ASSUME IInv, NEW c \in Channel, HandlerNoTask(c)
  PROVE  IInv'
<1> USE DEF HandlerNoTask, uart, thread
<1>1. /\ events' \in Seq(Channel) /\ Once(events')
      /\ Elements(events') = Elements(events) \ {c}
      /\ irq = NULL /\ \A q \in Thread : pc[q] # "copy"
  BY ServeFacts
<1>2. TypeOK'
  BY <1>1 DEF IInv, TypeOK
<1>3. FifoOnce' /\ FifoLinked' /\ InFlight' = InFlight
  BY FifosKept DEF IInv
<1>4. NodesAlive' /\ SectionsExclusive'
  BY <1>3 DEF IInv, NodesAlive, SectionsExclusive
<1>5. ChannelOwner'
  BY <1>1 DEF IInv, ChannelOwner
<1>6. NoStaleCompletion'
  BY <1>1 DEF NoStaleCompletion
<1> QED
  BY <1>2, <1>3, <1>4, <1>5, <1>6 DEF IInv

LEMMA HandlerRepeatIInv ==
  ASSUME IInv, NEW c \in Channel, HandlerRepeat(c)
  PROVE  IInv'
<1> DEFINE t == fifo_head[c]
           d == NextChunk(data[t])
<1> USE DEF HandlerRepeat, uart, thread
<1>1. /\ events' \in Seq(Channel) /\ Once(events')
      /\ Elements(events') = Elements(events) \ {c}
      /\ irq = NULL /\ \A q \in Thread : pc[q] # "copy"
  BY ServeFacts
<1>2. TypeOK
  BY DEF IInv
<1>3. t \in Thread /\ t # NULL
  BY <1>2 DEF TypeOK
<1>4. data' = [data EXCEPT ![t] = ExecData(d)] /\ udma' = [udma EXCEPT ![c] = ExecWindow(t, d)]
  OBVIOUS
<1>5. d \in Data
  BY <1>2, <1>3, NextChunkType DEF TypeOK
<1> HIDE DEF d
<1>6. data' \in [Thread -> Data] /\ udma' \in [Channel -> Window]
  BY <1>2, <1>3, <1>4, <1>5, ExecTypes DEF TypeOK
<1>7. /\ udma'[c].busy /\ udma'[c].owner = t
      /\ \A e \in Channel \ {c} : udma'[e] = udma[e]
  BY <1>2, <1>4 DEF TypeOK, ExecWindow
<1>8. TypeOK'
  BY <1>1, <1>2, <1>6 DEF TypeOK
<1>9. FifoOnce' /\ FifoLinked' /\ InFlight' = InFlight
  BY FifosKept DEF IInv
<1>10. NodesAlive' /\ SectionsExclusive'
  BY <1>9 DEF IInv, NodesAlive, SectionsExclusive
<1>11. ChannelOwner'
  BY <1>1, <1>3, <1>7 DEF IInv, ChannelOwner
<1>12. NoStaleCompletion'
  BY <1>1 DEF NoStaleCompletion
<1> QED
  BY <1>8, <1>9, <1>10, <1>11, <1>12 DEF IInv

\* The next transfer, or nothing, is started on a channel that is free.
LEMMA StartNextFacts ==
  ASSUME TypeOK, NEW c \in Channel, NEW n \in Thread \cup {NULL}, StartNext(c, n)
  PROVE  /\ data' \in [Thread -> Data] /\ udma' \in [Channel -> Window]
         /\ \A e \in Channel \ {c} : udma'[e] = udma[e]
         /\ n = NULL => udma' = udma
         /\ n # NULL => udma'[c].busy /\ udma'[c].owner = n
<1>1. CASE n = NULL
  BY <1>1 DEF StartNext, TypeOK
<1>2. CASE n # NULL
  <2>1. n \in Thread /\ data[n] \in Data
    BY <1>2 DEF TypeOK
  <2>2. ExecData(data[n]) \in Data /\ ExecWindow(n, data[n]) \in Window
    BY <2>1, ExecTypes
  <2>3. /\ data' = [data EXCEPT ![n] = ExecData(data[n])]
        /\ udma' = [udma EXCEPT ![c] = ExecWindow(n, data[n])]
    BY <1>2 DEF StartNext
  <2>4. ExecWindow(n, data[n]).busy /\ ExecWindow(n, data[n]).owner = n
    BY DEF ExecWindow
  <2> QED
    BY <1>2, <2>1, <2>2, <2>3, <2>4 DEF TypeOK
<1> QED
  BY <1>1, <1>2

\* The notified task is done or its callback is handed on; no other task is
\* touched.
LEMMA EndOfTaskFacts ==
  ASSUME TypeOK, NEW t \in Thread, HandleEndOfTask(t)
  PROVE  /\ task' \in [Thread -> PiTaskT] /\ scheduled' \subseteq Thread
         /\ \A q \in Thread \ {t} : task'[q] = task[q]
<1>1. PiTaskRelease(task[t]) \in PiTaskT
  BY TaskTypes DEF TypeOK
<1> QED
  BY <1>1 DEF HandleEndOfTask, PiTaskPush, TypeOK

LEMMA HandlerEndIInv ==
  ASSUME IInv, NEW c \in Channel, HandlerEnd(c)
  PROVE  IInv'
<1> DEFINE t == fifo_head[c]
           n == next[t]
<1> USE DEF HandlerEnd, thread
<1>1. /\ events' \in Seq(Channel) /\ Once(events')
      /\ Elements(events') = Elements(events) \ {c}
      /\ c \in Elements(events) /\ ~udma[c].busy
      /\ irq = NULL /\ \A q \in Thread : pc[q] # "copy"
  BY ServeFacts
<1>2. TypeOK
  BY DEF IInv
<1>3. /\ queue[c] # <<>> /\ queue[c] \in Seq(Thread) /\ Once(queue[c])
      /\ t = Head(queue[c]) /\ t \in Thread /\ t \in Queued(c)
      /\ Represents(queue[c], t, fifo_tail[c], next, NULL)
      /\ n \in Thread \cup {NULL}
  BY <1>2, HeadOfFifo DEF IInv, FifoOnce, FifoLinked, TypeOK
<1>4. /\ Tail(queue[c]) \in Seq(Thread) /\ Once(Tail(queue[c]))
      /\ Elements(Tail(queue[c])) = Elements(queue[c]) \ {t}
  BY <1>3, TailOnce
<1>5. /\ queue' \in [Channel -> Seq(Thread)] /\ queue'[c] = Tail(queue[c])
      /\ fifo_head' \in [Channel -> Thread \cup {NULL}] /\ fifo_head'[c] = n
      /\ fifo_tail' \in [Channel -> Thread \cup {NULL}]
      /\ fifo_tail'[c] = IF n = NULL THEN NULL ELSE fifo_tail[c]
      /\ \A e \in Channel \ {c} : /\ queue'[e] = queue[e]
                                  /\ fifo_head'[e] = fifo_head[e]
                                  /\ fifo_tail'[e] = fifo_tail[e]
  <2>1. /\ queue' = [queue EXCEPT ![c] = Tail(queue[c])]
        /\ fifo_head' = [fifo_head EXCEPT ![c] = n]
        /\ fifo_tail' = [fifo_tail EXCEPT
                           ![c] = IF n = NULL THEN NULL ELSE fifo_tail[c]]
    BY DEF TailAfterPop
  <2> HIDE DEF HandlerEnd, n
  <2>2. queue' \in [Channel -> Seq(Thread)] /\ queue'[c] = Tail(queue[c])
    BY <1>2, <1>4, <2>1 DEF TypeOK
  <2>3. fifo_head' \in [Channel -> Thread \cup {NULL}] /\ fifo_head'[c] = n
    BY <1>2, <1>3, <2>1 DEF TypeOK
  <2>4. /\ fifo_tail' \in [Channel -> Thread \cup {NULL}]
        /\ fifo_tail'[c] = IF n = NULL THEN NULL ELSE fifo_tail[c]
    BY <1>2, <2>1 DEF TypeOK
  <2> QED
    BY <1>2, <2>1, <2>2, <2>3, <2>4 DEF TypeOK
<1>6. /\ data' \in [Thread -> Data] /\ udma' \in [Channel -> Window]
      /\ \A e \in Channel \ {c} : udma'[e] = udma[e]
      /\ n = NULL => udma' = udma
      /\ n # NULL => udma'[c].busy /\ udma'[c].owner = n
  BY <1>2, <1>3, StartNextFacts
<1>7. /\ task' \in [Thread -> PiTaskT] /\ scheduled' \subseteq Thread
      /\ \A q \in Thread \ {t} : task'[q] = task[q]
  BY <1>2, <1>3, EndOfTaskFacts
<1>8. UNCHANGED <<pc, call, status, irq, next, setup, fault>>
  OBVIOUS
<1> HIDE DEF HandlerEnd, n
<1>9. TypeOK'
  BY <1>1, <1>2, <1>5, <1>6, <1>7, <1>8 DEF TypeOK
<1>10. /\ Queued(c)' = Queued(c) \ {t}
       /\ \A e \in Channel \ {c} : Queued(e)' = Queued(e)
       /\ \A e \in Channel \ {c} : t \notin Queued(e)
  BY <1>3, <1>4, <1>5, QueuesDisjoint DEF IInv, Queued
<1>11. InFlight' = InFlight \ {t}
  <2>1. \A p : p \in InFlight' <=> \E e \in Channel : p \in Queued(e)'
    BY DEF InFlight, Channel
  <2> QED
    BY <1>10, <2>1, InFlightQueued
<1>12. FifoOnce'
  <2>1. \A e \in Channel : Once(queue'[e])
    BY <1>4, <1>5 DEF IInv, FifoOnce
  <2>2. /\ Queued(RX_CHANNEL)' \subseteq Queued(RX_CHANNEL)
        /\ Queued(TX_CHANNEL)' \subseteq Queued(TX_CHANNEL)
    BY <1>10 DEF Channel
  <2> QED
    BY <2>1, <2>2 DEF IInv, FifoOnce
<1>13. FifoLinked' /\ (n = NULL <=> queue'[c] = <<>>)
  <2>1. /\ Represents(Tail(queue[c]), n, IF n = NULL THEN NULL ELSE fifo_tail[c],
                      next, NULL)
        /\ n = NULL <=> Tail(queue[c]) = <<>>
    BY <1>3, RepresentsTail, ThreadAssumption DEF n
  <2>2. Represents(queue'[c], fifo_head'[c], fifo_tail'[c], next', NULL)
    BY <1>5, <1>8, <2>1
  <2>3. ASSUME NEW e \in Channel \ {c}
        PROVE  Represents(queue'[e], fifo_head'[e], fifo_tail'[e], next', NULL)
    BY <1>5, <1>8 DEF IInv, FifoLinked
  <2> QED
    BY <1>5, <2>1, <2>2, <2>3 DEF FifoLinked
<1>14. NodesAlive'
  <2>1. InFlight \subseteq Thread
    BY <1>2, QueuedThreads, InFlightQueued
  <2> QED
    BY <1>1, <1>7, <1>8, <1>11, <2>1 DEF IInv, NodesAlive
<1>15. ChannelOwner'
  <2>1. ASSUME NEW e \in Channel
        PROVE  /\ udma'[e].busy => /\ fifo_head'[e] # NULL
                                   /\ udma'[e].owner = fifo_head'[e]
                                   /\ e \notin Elements(events')
               /\ fifo_head'[e] # NULL => udma'[e].busy \/ e \in Elements(events')
    <3>1. CASE e = c
      BY <1>1, <1>5, <1>6, <3>1
    <3>2. CASE e # c
      BY <1>1, <1>5, <1>6, <3>2 DEF IInv, ChannelOwner
    <3> QED
      BY <3>1, <3>2
  <2> QED
    BY <1>1, <2>1 DEF ChannelOwner
<1>16. SectionsExclusive' /\ NoStaleCompletion'
  BY <1>1, <1>8 DEF IInv, SectionsExclusive, NoStaleCompletion
<1> QED
  BY <1>9, <1>12, <1>13, <1>14, <1>15, <1>16 DEF IInv

(***************************************************************************)
(* Every step                                                              *)
(***************************************************************************)

LEMMA StepIInv ==
  ASSUME IInv, [Next]_vars
  PROVE  IInv'
<1>1. ASSUME NEW p \in Thread, NEW a \in Calls, NEW created \in BOOLEAN,
             EnterCopy(p, a, created)
      PROVE  IInv'
  BY <1>1, EnterCopyIInv
<1>2. ASSUME NEW p \in Thread, NEW cmd \in Ioctl, EnterIoctl(p, cmd)
      PROVE  IInv'
  BY <1>2, EnterIoctlIInv
<1>3. ASSUME NEW p \in Thread, ThreadStep(p)
      PROVE  IInv'
  BY <1>3, CopyRefusedIInv, CopyExecIInv, CopyEnqueueIInv, LeaveIInv,
     IoctlAbortIInv, IoctlSetupIInv DEF ThreadStep
<1>4. ASSUME NEW c \in Channel, UdmaDone(c) \/ Handler(c)
      PROVE  IInv'
  BY <1>4, UdmaDoneIInv, HandlerNoTaskIInv, HandlerRepeatIInv, HandlerEndIInv
     DEF Handler
<1>5. CASE UNCHANGED vars
  BY <1>5 DEF vars, IInv, TypeOK, FifoOnce, FifoLinked, NodesAlive, ChannelOwner,
     SectionsExclusive, NoStaleCompletion, InFlight, Queued
<1> QED
  BY <1>1, <1>2, <1>3, <1>4, <1>5 DEF Next

\* The inductive invariant holds in every reachable state.
THEOREM Invariance == Spec => []IInv
<1>1. IInv /\ [Next]_vars => IInv'
  BY StepIInv
<1> QED
  BY InitIInv, <1>1, PTL DEF Spec

\* Every variable stays in its type: in particular the links, heads and tails of
\* the fifos only ever name tasks of callers.
THEOREM TypeCorrect == Spec => []TypeOK
BY Invariance, PTL DEF IInv

\* The list the driver keeps through the callers' tasks is the sequence of the
\* transfers it accepted, whatever callers, handler and aborts do.
THEOREM FifoCorrect == Spec => []FifoLinked
BY Invariance, PTL DEF IInv

\* No task is ever linked into two places.
THEOREM NoDoubleEnqueue == Spec => []FifoOnce
BY Invariance, PTL DEF IInv

\* A task in a fifo belongs to a call that has not returned.
THEOREM NodesStayAlive == Spec => []NodesAlive
BY Invariance, PTL DEF IInv

\* A channel is only ever programmed for the head of its fifo, when it is free.
THEOREM OneTransferPerChannel == Spec => []ChannelOwner
BY Invariance, PTL DEF IInv

\* A transfer is never started while the completion of an earlier, aborted one
\* is pending on its channel.
THEOREM CompletionsMatch == Spec => []NoStaleCompletion
BY Invariance, PTL DEF IInv

(***************************************************************************)
(* Without aborts the handler always finds a task                          *)
(***************************************************************************)

Abort == {"ABORT_RX", "ABORT_TX"}

\* Every pending event has its transfer, and nobody is about to abort it.
EventInv ==
  /\ ~fault
  /\ \A p \in Thread : pc[p] \notin Abort
  /\ \A c \in Elements(events) : fifo_head[c] # NULL

LEMMA StepEventInv ==
  ASSUME Ioctl \cap Abort = {}, IInv, EventInv, [Next]_vars
  PROVE  EventInv'
<1> USE DEF EventInv
<1>0. TypeOK
  BY DEF IInv
<1>1. ASSUME NEW p \in Thread, NEW a \in Calls, NEW created \in BOOLEAN,
             EnterCopy(p, a, created)
      PROVE  EventInv'
  BY <1>0, <1>1 DEF EnterCopy, uart, TypeOK, Abort
<1>2. ASSUME NEW p \in Thread, NEW cmd \in Ioctl, EnterIoctl(p, cmd)
      PROVE  EventInv'
  BY <1>0, <1>2 DEF EnterIoctl, uart, TypeOK
<1>3. ASSUME NEW p \in Thread, \/ CopyRefused(p) \/ WaitOn(p) \/ GiveUp(p) \/ IoctlEnable(p)
                               \/ IoctlSetup(p)
      PROVE  EventInv'
  BY <1>0, <1>3 DEF CopyRefused, WaitOn, GiveUp, IoctlEnable, IoctlSetup, Leave, uart,
     TypeOK, Abort
<1>4. ASSUME NEW p \in Thread, CopyExec(p) \/ CopyEnqueue(p)
      PROVE  EventInv'
  <2>1. /\ fault' = fault /\ events' = events
        /\ \A q \in Thread : pc'[q] \notin Abort
    BY <1>0, <1>4 DEF CopyExec, CopyEnqueue, TypeOK, Abort
  <2>2. \A c \in Channel : fifo_head[c] # NULL => fifo_head'[c] # NULL
    BY <1>0, <1>4, ThreadAssumption DEF CopyExec, CopyEnqueue, TypeOK
  <2>3. Elements(events) \subseteq Channel
    BY <1>0, ElementOfSeq, LenProperties DEF TypeOK, Elements
  <2> QED
    BY <2>1, <2>2, <2>3
<1>5. ASSUME NEW p \in Thread, IoctlAbort(p)
      PROVE  EventInv'
  BY <1>5 DEF IoctlAbort, Abort
<1>6. ASSUME NEW c \in Channel, UdmaDone(c)
      PROVE  EventInv'
  <2>1. fifo_head[c] # NULL /\ events \in Seq(Channel)
    BY <1>6 DEF IInv, ChannelOwner, UdmaDone, TypeOK
  <2>2. Elements(events') = Elements(events) \cup {c}
    BY <1>6, <2>1, AppendOnce DEF UdmaDone
  <2> QED
    BY <1>6, <2>1, <2>2 DEF UdmaDone, uart, thread
<1>7. ASSUME NEW c \in Channel, Handler(c)
      PROVE  EventInv'
  <2>1. Serve(c)
    BY <1>7 DEF Handler, HandlerNoTask, HandlerRepeat, HandlerEnd
  <2>2. c \in Elements(events) /\ Elements(events') = Elements(events) \ {c}
    BY <2>1, ServeFacts
  <2>3. /\ fault' = fault /\ pc' = pc
        /\ \A d \in Channel \ {c} : fifo_head'[d] = fifo_head[d]
    BY <1>0, <1>7, <2>2 DEF Handler, HandlerNoTask, HandlerRepeat, HandlerEnd,
       thread, TypeOK
  <2>4. Elements(events) \subseteq Channel
    BY <1>0, ElementOfSeq, LenProperties DEF TypeOK, Elements
  <2> QED
    BY <2>2, <2>3, <2>4
<1>8. CASE UNCHANGED vars
  BY <1>8 DEF vars
<1> QED
  BY <1>1, <1>2, <1>3, <1>4, <1>5, <1>6, <1>7, <1>8 DEF Next, ThreadStep

\* As long as nobody aborts, the handler never dereferences an empty fifo.
THEOREM HandlerSafe ==
  ASSUME Ioctl \cap Abort = {}
  PROVE  Spec => []HandlerFindsTask
<1>1. Init => EventInv
  BY EmptyOnce DEF Init, EventInv, Abort
<1>2. IInv /\ EventInv /\ [Next]_vars => EventInv'
  BY StepEventInv
<1>3. EventInv => HandlerFindsTask
  BY DEF EventInv, HandlerFindsTask
<1> QED
  BY Invariance, <1>1, <1>2, <1>3, PTL DEF Spec

(***************************************************************************)
(* Semaphores                                                              *)
(***************************************************************************)

\* A semaphore is there only inside a call, and only as long as destroy is set.
SemKept ==
  \A p \in Thread :
    /\ task[p].sem => task[p].destroy
    /\ pc[p] \in {"idle"} \cup IoctlCmd => ~task[p].sem

\* What the functions on a pi_task_t do to its semaphore.
LEMMA SemFields ==
  ASSUME NEW t \in PiTaskT, t.sem => t.destroy
  PROVE  /\ ~PiTaskDestroy(t).sem /\ PiTaskDestroy(t) \in PiTaskT
         /\ PiTaskRelease(t).sem = t.sem /\ PiTaskRelease(t).destroy = t.destroy
BY DEF PiTaskT, PiTaskDestroy, PiTaskRelease

LEMMA StepSemKept ==
  ASSUME TypeOK, SemKept, [Next]_vars
  PROVE  SemKept'
<1>0. /\ pc \in [Thread -> Pc] /\ task \in [Thread -> PiTaskT]
      /\ \A p \in Thread : task[p] \in PiTaskT
  BY DEF TypeOK
<1>1. ASSUME NEW p \in Thread, NEW a \in Calls, NEW created \in BOOLEAN,
             EnterCopy(p, a, created)
      PROVE  SemKept'
  <2>1. /\ PiTaskBlock(created).sem => PiTaskBlock(created).destroy
        /\ ~PiTaskCallback.sem
    BY DEF PiTaskBlock, PiTaskCallback
  <2>2. "copy" \notin {"idle"} \cup IoctlCmd
    BY DEF IoctlCmd
  <2>3. /\ pc' = [pc EXCEPT ![p] = "copy"]
        /\ \A q \in Thread \ {p} : task'[q] = task[q]
        /\ task'[p].sem => task'[p].destroy
    BY <1>0, <1>1, <2>1 DEF EnterCopy
  <2> QED
    BY <1>0, <2>2, <2>3 DEF SemKept
<1>2. ASSUME NEW p \in Thread, NEW cmd \in Ioctl, EnterIoctl(p, cmd)
      PROVE  SemKept'
  BY <1>0, <1>2 DEF EnterIoctl, SemKept
<1>3. ASSUME NEW p \in Thread, CopyRefused(p) \/ CopyExec(p) \/ CopyEnqueue(p)
      PROVE  SemKept'
  <2>1. {"wait", "refused", "detached"} \cap ({"idle"} \cup IoctlCmd) = {}
    BY DEF IoctlCmd
  <2>2. task' = task /\ \E l \in {"wait", "refused", "detached"} : pc' = [pc EXCEPT ![p] = l]
    BY <1>3 DEF CopyRefused, CopyExec, CopyEnqueue
  <2> QED
    BY <1>0, <2>1, <2>2 DEF SemKept
<1>4. ASSUME NEW p \in Thread, WaitOn(p) \/ GiveUp(p)
      PROVE  SemKept'
  <2> DEFINE t == PiTaskDestroy(task[p])
  <2>1. ~t.sem /\ t \in PiTaskT
    BY <1>0, SemFields DEF SemKept
  <2>2. ~PiTaskDestroy(t).sem
    BY <2>1, SemFields
  <2>3. task' = [task EXCEPT ![p] = t] \/ task' = [task EXCEPT ![p] = PiTaskDestroy(t)]
    BY <1>4 DEF WaitOn, GiveUp
  <2>4. pc' = [pc EXCEPT ![p] = "idle"]
    BY <1>4 DEF WaitOn, GiveUp, Leave
  <2> HIDE DEF t
  <2>5. ~task'[p].sem /\ \A q \in Thread \ {p} : task'[q] = task[q]
    BY <1>0, <2>1, <2>2, <2>3
  <2> QED
    BY <1>0, <2>4, <2>5 DEF SemKept
<1>5. ASSUME NEW p \in Thread, IoctlAbort(p) \/ IoctlEnable(p) \/ IoctlSetup(p)
      PROVE  SemKept'
  <2>1. pc[p] \in IoctlCmd /\ pc' = [pc EXCEPT ![p] = "idle"] /\ task' = task
    BY <1>5 DEF IoctlAbort, IoctlEnable, IoctlSetup, IoctlCmd
  <2> QED
    BY <1>0, <2>1 DEF SemKept
<1>6. ASSUME NEW c \in Channel, UdmaDone(c) \/ HandlerNoTask(c) \/ HandlerRepeat(c)
      PROVE  SemKept'
  BY <1>6 DEF UdmaDone, HandlerNoTask, HandlerRepeat, thread, SemKept
<1>7. ASSUME NEW c \in Channel, HandlerEnd(c)
      PROVE  SemKept'
  <2> DEFINE t == fifo_head[c]
  <2>1. pc' = pc /\ t \in Thread
    BY <1>7 DEF HandlerEnd, thread, TypeOK
  <2>2. task' = task \/ task' = [task EXCEPT ![t] = PiTaskRelease(task[t])]
    BY <1>7 DEF HandlerEnd, HandleEndOfTask
  <2>3. /\ PiTaskRelease(task[t]).sem = task[t].sem
        /\ PiTaskRelease(task[t]).destroy = task[t].destroy
    BY <1>0, <2>1, SemFields DEF SemKept
  <2> HIDE DEF t
  <2>4. \A q \in Thread : task'[q].sem = task[q].sem /\ task'[q].destroy = task[q].destroy
    BY <1>0, <2>1, <2>2, <2>3
  <2> QED
    BY <2>1, <2>4 DEF SemKept
<1>8. CASE UNCHANGED vars
  BY <1>8 DEF vars, SemKept
<1> QED
  BY <1>1, <1>2, <1>3, <1>4, <1>5, <1>6, <1>7, <1>8 DEF Next, ThreadStep, Handler

\* Whatever a call went through (completed, refused, its semaphore not created), the
\* thread has deleted its semaphore when it is out of the driver.
THEOREM SemaphoresFreed == Spec => []NoSemaphoreLeak
<1>1. Init => SemKept
  BY DEF Init, SemKept, PiTaskZero
<1>2. SemKept => NoSemaphoreLeak
  BY DEF SemKept, NoSemaphoreLeak
<1> QED
  BY TypeCorrect, StepSemKept, <1>1, <1>2, PTL DEF Spec

(***************************************************************************)
(* What holds when no transfer is longer than a uDMA chunk: no byte moves  *)
(* outside the caller's buffer, and the driver implements TransferService. *)
(***************************************************************************)

ShortTransfers == \A s \in Size : s <= MAX_CHUNK

(***************************************************************************)
(* The invariant of short transfers                                        *)
(***************************************************************************)

\* A task on the way describes the whole transfer of its call, and a channel
\* moves the whole transfer of its owner.
ShortInv ==
  /\ \A p \in Thread : /\ call[p].size <= MAX_CHUNK
                       /\ data[p].repeat_size = 0
                       /\ pc[p] \in {"copy"} => call[p].size > 0
  /\ \A p \in InFlight : /\ data[p].l2_buf = 0 /\ data[p].size = call[p].size
                         /\ data[p].size > 0
  /\ \A c \in Channel : udma[c].busy => /\ udma[c].l2_buf = 0
                                        /\ udma[c].size = call[udma[c].owner].size

\* On a short transfer __pi_uart_copy_exec leaves the task alone and programs
\* the whole of it.
LEMMA ShortExec ==
  ASSUME NEW t, NEW d \in Data, d.size <= MAX_CHUNK
  PROVE  /\ ExecData(d) = d
         /\ ExecWindow(t, d).busy /\ ExecWindow(t, d).owner = t
         /\ ExecWindow(t, d).l2_buf = d.l2_buf /\ ExecWindow(t, d).size = d.size
BY ChunkAssumption DEF ExecData, ExecWindow, Data

\* ShortInv depends on the calls, the tasks on the way and the channels alone.
LEMMA ShortFrame ==
  ASSUME ShortInv, UNCHANGED <<call, data, udma>>, InFlight' \subseteq InFlight,
         \A p \in Thread : pc'[p] = "copy" => pc[p] = "copy"
  PROVE  ShortInv'
BY DEF ShortInv

\* The owner of a busy channel is the head of its fifo.
LEMMA BusyOwner ==
  ASSUME IInv, NEW c \in Channel, udma[c].busy
  PROVE  /\ udma[c].owner = fifo_head[c] /\ udma[c].owner \in Thread
         /\ udma[c].owner \in InFlight /\ udma[c].owner \in Queued(c)
<1>1. udma[c].owner = fifo_head[c] /\ fifo_head[c] # NULL
  BY DEF IInv, ChannelOwner
<1>2. fifo_head[c] \in Queued(c) /\ fifo_head[c] \in Thread
  BY <1>1, HeadOfFifo DEF IInv
<1> QED
  BY <1>1, <1>2, InFlightQueued

LEMMA ShortEnter ==
  ASSUME ShortTransfers, IInv, ShortInv, NEW p \in Thread, NEW a \in Calls,
         NEW created \in BOOLEAN, EnterCopy(p, a, created)
  PROVE  ShortInv'
<1> USE DEF EnterCopy, uart
<1>1. /\ a.size <= MAX_CHUNK /\ a.size > 0 /\ TypeOK
      /\ p \notin InFlight /\ InFlight' = InFlight
  <2>1. a.size <= MAX_CHUNK /\ a.size > 0
    <3>1. a.size \in Size
      BY DEF Calls
    <3>2. a.size \in 1..(WORD - 1) /\ WORD \in Nat
      BY <3>1, SizeAssumption, WordAssumption
    <3> HIDE DEF EnterCopy
    <3> QED
      BY <3>1, <3>2 DEF ShortTransfers
  <2> QED
    BY <2>1 DEF IInv, NodesAlive, InFlight, Queued
<1>2. /\ call'[p] = a /\ \A q \in Thread \ {p} : call'[q] = call[q]
      /\ \A q \in Thread \ {p} : pc'[q] = pc[q]
      /\ UNCHANGED <<data, udma>>
  BY <1>1 DEF TypeOK
<1>3. \A c \in Channel : udma[c].busy => udma[c].owner \in Thread \ {p}
  BY <1>1, BusyOwner
<1>4. InFlight \subseteq Thread
  BY <1>1, QueuedThreads, InFlightQueued
<1> HIDE DEF EnterCopy
<1>5. \A c \in Channel : udma[c].busy => call'[udma[c].owner] = call[udma[c].owner]
  BY <1>2, <1>3
<1>6. \A q \in InFlight : call'[q] = call[q]
  BY <1>1, <1>2, <1>4
<1> QED
  BY <1>1, <1>2, <1>5, <1>6 DEF ShortInv

\* An accepted transfer describes the whole buffer.
LEMMA FreshShort ==
  ASSUME IInv, ShortInv, NEW p \in Thread, pc[p] = "copy"
  PROVE  /\ FreshData(p) \in Data /\ FreshData(p).size <= MAX_CHUNK
         /\ FreshData(p).l2_buf = 0 /\ FreshData(p).size = call[p].size
         /\ FreshData(p).size > 0 /\ FreshData(p).repeat_size = 0
         /\ ExecData(FreshData(p)) = FreshData(p)
<1>1. FreshData(p) \in Data
  BY FreshType DEF IInv
<1>2. /\ FreshData(p).l2_buf = 0 /\ FreshData(p).size = call[p].size
      /\ FreshData(p).repeat_size = 0
  BY DEF FreshData
<1>3. call[p].size <= MAX_CHUNK /\ call[p].size > 0
  BY DEF ShortInv
<1> QED
  BY <1>1, <1>2, <1>3, ShortExec

LEMMA ShortAccept ==
  ASSUME IInv, ShortInv, NEW p \in Thread, CopyExec(p) \/ CopyEnqueue(p)
  PROVE  ShortInv'
<1>1. /\ pc[p] = "copy" /\ TypeOK /\ call' = call /\ p \notin InFlight
      /\ \A q \in Thread : pc'[q] = "copy" => pc[q] = "copy"
  <2>1. pc[p] = "copy" /\ TypeOK /\ call' = call
    BY DEF CopyExec, CopyEnqueue, IInv
  <2>2. \A q \in Thread \ {p} : pc'[q] = pc[q]
    BY <2>1 DEF CopyExec, CopyEnqueue, TypeOK
  <2> QED
    BY <2>1, <2>2, CopyFresh
<1>2. /\ data'[p] = FreshData(p) /\ \A q \in Thread \ {p} : data'[q] = data[q]
  BY <1>1, FreshShort DEF CopyExec, CopyEnqueue, TypeOK
<1>3. PICK c \in Channel : c = call[p].channel
  BY <1>1, CopyFresh
<1>4. InFlight' = InFlight \cup {p} /\ InFlight \subseteq Thread
  BY <1>1, <1>3, AcceptedQueues, QueuedThreads, InFlightQueued DEF CopyExec, CopyEnqueue
<1>5. \A e \in Channel : \/ udma'[e] = udma[e]
                         \/ udma'[e] = ExecWindow(p, FreshData(p))
  BY <1>1 DEF CopyExec, CopyEnqueue, TypeOK
<1>6. \A e \in Channel : udma'[e].busy => /\ udma'[e].l2_buf = 0
                                          /\ udma'[e].size = call[udma'[e].owner].size
  BY <1>1, <1>5, FreshShort, ShortExec DEF ShortInv
<1> QED
  BY <1>1, <1>2, <1>4, <1>6, FreshShort DEF ShortInv

LEMMA ShortLeave ==
  ASSUME IInv, ShortInv, NEW p \in Thread, WaitOn(p) \/ GiveUp(p)
  PROVE  ShortInv'
<1> USE DEF WaitOn, GiveUp, Leave
<1>1. /\ p \notin InFlight /\ InFlight' = InFlight /\ TypeOK
      /\ InFlight \subseteq Thread
  BY QueuedThreads, InFlightQueued DEF IInv, NodesAlive, WaitOver, InFlight, Queued
<1>2. /\ call'[p] = CallZero /\ data'[p] = DataZero /\ pc'[p] = "idle"
      /\ \A q \in Thread \ {p} : call'[q] = call[q] /\ data'[q] = data[q]
                                 /\ pc'[q] = pc[q]
      /\ udma' = udma
  BY <1>1 DEF TypeOK
<1>3. \A c \in Channel : udma[c].busy => udma[c].owner \in Thread \ {p}
  BY <1>1, BusyOwner
<1> HIDE DEF WaitOn, GiveUp
<1> QED
  BY <1>1, <1>2, <1>3, ChunkAssumption DEF ShortInv, CallZero, DataZero

LEMMA ShortAbort ==
  ASSUME IInv, ShortInv, NEW p \in Thread, IoctlAbort(p)
  PROVE  ShortInv'
<1>1. PICK c \in Channel : c = AbortChannel(pc[p])
  BY DEF AbortChannel, Channel
<1>2. /\ queue'[c] = <<>> /\ \A d \in Channel \ {c} : queue'[d] = queue[d]
      /\ \A d \in Channel : ~udma'[d].busy \/ udma'[d] = udma[d]
      /\ call' = call /\ data' = data
      /\ \A q \in Thread : pc'[q] = "copy" => pc[q] = "copy"
  BY <1>1 DEF IoctlAbort, IInv, TypeOK, UdmaIdle
<1>3. \A d \in Channel : Queued(d)' \subseteq Queued(d)
  BY <1>2, EmptyOnce DEF Queued
<1>4. InFlight' \subseteq InFlight
  BY <1>3 DEF InFlight, Channel
<1> QED
  BY <1>2, <1>4 DEF ShortInv

LEMMA ShortHandler ==
  ASSUME IInv, ShortInv, NEW c \in Channel, HandlerEnd(c)
  PROVE  ShortInv'
<1> DEFINE t == fifo_head[c]
           n == next[t]
<1>1. /\ TypeOK /\ StartNext(c, n) /\ call' = call /\ pc' = pc /\ t # NULL
      /\ queue' = [queue EXCEPT ![c] = Tail(queue[c])]
  BY DEF HandlerEnd, IInv, thread
<1>2. /\ queue[c] # <<>> /\ queue[c] \in Seq(Thread) /\ Once(queue[c])
      /\ Represents(queue[c], t, fifo_tail[c], next, NULL) /\ t \in Thread
  BY <1>1, HeadOfFifo DEF IInv, FifoOnce, FifoLinked, TypeOK
<1>3. /\ Represents(Tail(queue[c]), n, IF n = NULL THEN NULL ELSE fifo_tail[c],
                    next, NULL)
      /\ Tail(queue[c]) \in Seq(Thread) /\ Once(Tail(queue[c]))
      /\ Elements(Tail(queue[c])) \subseteq Queued(c)
  BY <1>2, RepresentsTail, TailOnce, ThreadAssumption DEF Queued
<1>4. n \in Thread \cup {NULL} /\ (n # NULL => n \in InFlight)
  <2>1. n # NULL => n \in Elements(Tail(queue[c]))
    <3> DEFINE r == Tail(queue[c])
               e == IF n = NULL THEN NULL ELSE fifo_tail[c]
    <3>1. r \in Seq(Thread) /\ Represents(r, n, e, next, NULL) /\ Once(r)
      BY <1>3
    <3> HIDE DEF r, e, n
    <3>2. n # NULL => r # <<>> /\ n = r[1]
      BY <3>1, RepresentsEnds, ThreadAssumption
    <3>3. n # NULL => n \in Elements(r)
      BY <3>1, <3>2, TailOnce
    <3> QED
      BY <3>3 DEF r
  <2>2. n # NULL => n \in Queued(c)
    BY <1>3, <2>1
  <2>3. n # NULL => n \in InFlight
    BY <2>2, InFlightQueued
  <2> QED
    BY <1>1, <1>2, <2>3 DEF TypeOK
<1>5. InFlight' \subseteq InFlight
  BY <1>1, <1>3 DEF InFlight, Queued, TypeOK, Channel
<1>6. data' = data
  <2>1. CASE n # NULL
    <3>1. n \in Thread /\ data[n] \in Data /\ data[n].size <= MAX_CHUNK
      BY <1>1, <1>4, <2>1 DEF ShortInv, TypeOK
    <3>2. ExecData(data[n]) = data[n]
      BY <3>1, ShortExec
    <3> HIDE DEF n
    <3> QED
      BY <1>1, <2>1, <3>1, <3>2 DEF StartNext, TypeOK
  <2> QED
    BY <1>1, <2>1 DEF StartNext
<1>7. \A e \in Channel : \/ udma'[e] = udma[e]
                         \/ n # NULL /\ udma'[e] = ExecWindow(n, data[n])
  <2> HIDE DEF n
  <2> QED
    BY <1>1 DEF StartNext, TypeOK
<1>8. n # NULL => /\ ExecWindow(n, data[n]).l2_buf = 0 /\ ExecWindow(n, data[n]).owner = n
                  /\ ExecWindow(n, data[n]).size = call[n].size
  <2> SUFFICES ASSUME n # NULL PROVE /\ ExecWindow(n, data[n]).l2_buf = 0
                                     /\ ExecWindow(n, data[n]).owner = n
                                     /\ ExecWindow(n, data[n]).size = call[n].size
    OBVIOUS
  <2>1. /\ n \in Thread /\ data[n] \in Data /\ data[n].size <= MAX_CHUNK
        /\ data[n].l2_buf = 0 /\ data[n].size = call[n].size
    BY <1>1, <1>4 DEF ShortInv, TypeOK
  <2> QED
    BY <2>1, ShortExec
<1> HIDE DEF n, t
<1> QED
  BY <1>1, <1>5, <1>6, <1>7, <1>8 DEF ShortInv

LEMMA StepShort ==
  ASSUME ShortTransfers, IInv, ShortInv, [Next]_vars
  PROVE  ShortInv'
<1>1. ASSUME NEW p \in Thread, NEW a \in Calls, NEW created \in BOOLEAN,
             EnterCopy(p, a, created)
      PROVE  ShortInv'
  BY <1>1, ShortEnter
<1>2. ASSUME NEW p \in Thread, \/ CopyRefused(p) \/ IoctlEnable(p) \/ IoctlSetup(p)
                               \/ \E cmd \in Ioctl : EnterIoctl(p, cmd)
      PROVE  ShortInv'
  <2>1. UNCHANGED <<call, data, udma, queue>>
    BY <1>2 DEF CopyRefused, IoctlEnable, IoctlSetup, EnterIoctl, uart
  <2>2. InFlight' = InFlight
    BY <2>1 DEF InFlight, Queued
  <2>3. \A q \in Thread : pc'[q] = "copy" => pc[q] = "copy"
    BY <1>2, IoctlAssumption DEF CopyRefused, IoctlEnable, IoctlSetup, EnterIoctl, IInv, TypeOK, IoctlCmd
  <2> QED
    BY <2>1, <2>2, <2>3, ShortFrame
<1>3. ASSUME NEW p \in Thread, ThreadStep(p)
      PROVE  ShortInv'
  BY <1>2, <1>3, ShortAccept, ShortLeave, ShortAbort DEF ThreadStep
<1>4. ASSUME NEW c \in Channel, UdmaDone(c)
      PROVE  ShortInv'
  <2>1. /\ UNCHANGED <<call, data, pc>> /\ InFlight' = InFlight
        /\ \A e \in Channel : udma'[e] = udma[e] \/ ~udma'[e].busy
    BY <1>4 DEF UdmaDone, uart, thread, InFlight, Queued, IInv, TypeOK, UdmaIdle
  <2> QED
    BY <2>1 DEF ShortInv
<1>5. ASSUME NEW c \in Channel, Handler(c)
      PROVE  ShortInv'
  <2>1. CASE HandlerNoTask(c)
    BY <2>1, ShortFrame DEF HandlerNoTask, uart, thread, InFlight, Queued
  <2>2. CASE HandlerRepeat(c)
    <3>1. fifo_head[c] \in Thread /\ data[fifo_head[c]].repeat_size # 0
      BY <2>2 DEF HandlerRepeat, IInv, TypeOK
    <3> QED
      BY <3>1 DEF ShortInv
  <2> QED
    BY <1>5, <2>1, <2>2, ShortHandler DEF Handler
<1>6. CASE UNCHANGED vars
  BY <1>6, ShortFrame DEF vars, InFlight, Queued
<1> QED
  BY <1>1, <1>2, <1>3, <1>4, <1>5, <1>6 DEF Next

LEMMA InitShort == Init => ShortInv
BY EmptyOnce, ChunkAssumption DEF Init, ShortInv, InFlight, Queued, CallZero, DataZero,
   UdmaIdle, Channel

LEMMA ShortInvariance ==
  ASSUME ShortTransfers
  PROVE  Spec => [](IInv /\ ShortInv)
<1>1. IInv /\ ShortInv /\ [Next]_vars => ShortInv'
  BY StepShort
<1> QED
  BY Invariance, InitShort, <1>1, PTL DEF Spec

LEMMA ShortWindow == IInv /\ ShortInv => WindowInBuffer
<1> SUFFICES ASSUME IInv, ShortInv, NEW c \in Channel, udma[c].busy
             PROVE  /\ pc[udma[c].owner] \in {"wait", "detached"}
                    /\ udma[c].l2_buf + udma[c].size <= call[udma[c].owner].size
  BY DEF WindowInBuffer
<1>1. udma[c].owner \in Thread /\ udma[c].owner \in InFlight
  BY BusyOwner
<1>2. /\ call[udma[c].owner].size \in Nat /\ udma[c].l2_buf = 0
      /\ udma[c].size = call[udma[c].owner].size
  BY <1>1 DEF ShortInv, IInv, TypeOK, Call
<1> QED
  BY <1>1, <1>2 DEF IInv, NodesAlive

\* If no transfer is longer than a chunk, the uDMA only ever touches the buffer
\* of a caller that is still in the driver.
THEOREM BuffersRespected ==
  ASSUME ShortTransfers
  PROVE  Spec => []WindowInBuffer
BY ShortInvariance, ShortWindow, PTL

(***************************************************************************)
(* Callers that wait                                                       *)
(***************************************************************************)

\* The tasks on the way ask for a release, not for a callback.
WaitInv ==
  \A p \in Thread :
    pc[p] = "copy" \/ p \in InFlight => task[p].id = "PI_TASK_NONE_ID"

LEMMA TaskIds ==
  ASSUME NEW t \in PiTaskT
  PROVE  /\ PiTaskRelease(t).id = t.id /\ PiTaskRelease(t).done
         /\ PiTaskDestroy(t).id = t.id
         /\ \A b \in BOOLEAN : PiTaskBlock(b).id = "PI_TASK_NONE_ID"
BY DEF PiTaskT, TaskId, PiTaskRelease, PiTaskDestroy, PiTaskBlock

LEMMA InitWait == Init => WaitInv
BY EmptyOnce DEF Init, WaitInv, InFlight, Queued, Channel

LEMMA StepWait ==
  ASSUME "callback" \notin Api, IInv, WaitInv, [Next]_vars
  PROVE  WaitInv'
<1>0. TypeOK
  BY DEF IInv
<1>1. ASSUME NEW p \in Thread, NEW a \in Calls, NEW created \in BOOLEAN,
             EnterCopy(p, a, created)
      PROVE  WaitInv'
  <2>1. task'[p].id = "PI_TASK_NONE_ID"
    BY <1>0, <1>1, TaskIds DEF EnterCopy, Calls, TypeOK
  <2>2. /\ InFlight' = InFlight
        /\ \A q \in Thread \ {p} : pc'[q] = pc[q] /\ task'[q] = task[q]
    BY <1>0, <1>1 DEF EnterCopy, TypeOK, uart, InFlight, Queued
  <2> QED
    BY <2>1, <2>2 DEF WaitInv
<1>2. ASSUME NEW p \in Thread, \/ CopyRefused(p) \/ IoctlEnable(p) \/ IoctlSetup(p) \/ IoctlAbort(p)
                               \/ \E cmd \in Ioctl : EnterIoctl(p, cmd)
      PROVE  WaitInv'
  <2>1. task' = task /\ \A q \in Thread : pc'[q] = "copy" => pc[q] = "copy"
    BY <1>0, <1>2, IoctlAssumption DEF CopyRefused, IoctlEnable, IoctlSetup, IoctlAbort, EnterIoctl,
       TypeOK, IoctlCmd
  <2>2. \A c \in Channel : queue'[c] = queue[c] \/ queue'[c] = <<>>
    BY <1>0, <1>2 DEF CopyRefused, IoctlEnable, IoctlSetup, IoctlAbort, EnterIoctl, TypeOK, uart
  <2>3. InFlight' \subseteq InFlight
    BY <2>2, EmptyOnce DEF InFlight, Queued, Channel
  <2> QED
    BY <2>1, <2>3 DEF WaitInv
<1>3. ASSUME NEW p \in Thread, CopyExec(p) \/ CopyEnqueue(p)
      PROVE  WaitInv'
  <2>1. /\ pc[p] = "copy" /\ task' = task
        /\ \A q \in Thread : pc'[q] = "copy" => pc[q] = "copy"
    BY <1>0, <1>3 DEF CopyExec, CopyEnqueue, TypeOK
  <2>2. PICK c \in Channel : c = call[p].channel
    BY <2>1, CopyFresh
  <2>3. InFlight' = InFlight \cup {p}
    BY <1>3, <2>1, <2>2, AcceptedQueues DEF CopyExec, CopyEnqueue
  <2> QED
    BY <2>1, <2>3 DEF WaitInv
<1>4. ASSUME NEW p \in Thread, WaitOn(p) \/ GiveUp(p)
      PROVE  WaitInv'
  <2>1. p \notin InFlight /\ InFlight' = InFlight
    BY <1>4 DEF WaitOn, GiveUp, Leave, IInv, NodesAlive, WaitOver, InFlight, Queued
  <2>2. /\ pc'[p] = "idle"
        /\ \A q \in Thread \ {p} : pc'[q] = pc[q] /\ task'[q] = task[q]
    BY <1>0, <1>4 DEF WaitOn, GiveUp, Leave, TypeOK
  <2> QED
    BY <2>1, <2>2 DEF WaitInv
<1>5. ASSUME NEW c \in Channel, UdmaDone(c)
      PROVE  WaitInv'
  BY <1>5 DEF UdmaDone, uart, thread, WaitInv, InFlight, Queued
<1>6. ASSUME NEW c \in Channel, Handler(c)
      PROVE  WaitInv'
  <2>1. CASE HandlerNoTask(c) \/ HandlerRepeat(c)
    BY <2>1 DEF HandlerNoTask, HandlerRepeat, uart, thread, WaitInv, InFlight, Queued
  <2>2. CASE HandlerEnd(c)
    <3>1. /\ pc' = pc /\ queue' = [queue EXCEPT ![c] = Tail(queue[c])]
          /\ fifo_head[c] \in Thread /\ HandleEndOfTask(fifo_head[c])
      BY <1>0, <2>2 DEF HandlerEnd, thread, TypeOK
    <3>2. \A q \in Thread : task'[q].id = task[q].id
      BY <1>0, <3>1, TaskIds DEF HandleEndOfTask, TypeOK
    <3>3. queue[c] # <<>> /\ queue[c] \in Seq(Thread) /\ Once(queue[c])
      BY <1>0, <2>2, HeadOfFifo DEF HandlerEnd, IInv, FifoOnce, TypeOK
    <3>4. Elements(Tail(queue[c])) \subseteq Elements(queue[c])
      BY <3>3, TailOnce
    <3>5. InFlight' \subseteq InFlight
      BY <1>0, <3>1, <3>4 DEF InFlight, Queued, TypeOK, Channel
    <3> QED
      BY <3>1, <3>2, <3>5 DEF WaitInv
  <2> QED
    BY <1>6, <2>1, <2>2 DEF Handler
<1>7. CASE UNCHANGED vars
  BY <1>7 DEF vars, WaitInv, InFlight, Queued
<1> QED
  BY <1>1, <1>2, <1>3, <1>4, <1>5, <1>6, <1>7 DEF Next, ThreadStep

(***************************************************************************)
(* Nobody waits in vain                                                    *)
(***************************************************************************)

\* A waiting caller's task asks for a release, and once its transfer is accepted
\* it has been told or is in a fifo.
Awaited ==
  \A p \in Thread :
    /\ pc[p] \in {"copy", "wait"} /\ call[p].api # "callback" =>
         task[p].id = "PI_TASK_NONE_ID"
    /\ pc[p] = "wait" => call[p].api # "callback"
    /\ pc[p] = "wait" /\ status[p] = 0 => task[p].done \/ p \in InFlight

LEMMA InitAwaited == Init => Awaited
BY DEF Init, Awaited

\* The thread that moves keeps what it waits for.
LEMMA AwaitedStep ==
  ASSUME Awaited, NEW p \in Thread,
         \A q \in Thread \ {p} :
           /\ pc'[q] = pc[q] /\ call'[q] = call[q] /\ status'[q] = status[q]
           /\ task'[q] = task[q]
           /\ q \in InFlight => q \in InFlight',
         pc'[p] \in {"copy", "wait"} /\ call'[p].api # "callback" =>
           task'[p].id = "PI_TASK_NONE_ID",
         pc'[p] = "wait" => call'[p].api # "callback",
         pc'[p] = "wait" /\ status'[p] = 0 => task'[p].done \/ p \in InFlight'
  PROVE  Awaited'
BY DEF Awaited

LEMMA StepAwaited ==
  ASSUME Ioctl \cap Abort = {}, IInv, EventInv, Awaited, [Next]_vars
  PROVE  Awaited'
<1>0. TypeOK
  BY DEF IInv
<1>1. ASSUME NEW p \in Thread, NEW a \in Calls, NEW created \in BOOLEAN,
             EnterCopy(p, a, created)
      PROVE  Awaited'
  <2>1. /\ pc'[p] = "copy" /\ InFlight' = InFlight /\ status' = status
        /\ call'[p] = a /\ (a.api # "callback" => task'[p] = PiTaskBlock(created))
        /\ \A q \in Thread \ {p} : pc'[q] = pc[q] /\ call'[q] = call[q] /\ task'[q] = task[q]
    <3>1. InFlight' = InFlight /\ status' = status
      BY <1>1 DEF EnterCopy, uart, InFlight, Queued
    <3>2. /\ pc'[p] = "copy" /\ call'[p] = a
          /\ \A q \in Thread \ {p} : pc'[q] = pc[q] /\ call'[q] = call[q]
      BY <1>0, <1>1 DEF EnterCopy, TypeOK
    <3>3. /\ a.api # "callback" => task'[p] = PiTaskBlock(created)
          /\ \A q \in Thread \ {p} : task'[q] = task[q]
      BY <1>0, <1>1 DEF EnterCopy, TypeOK
    <3> QED
      BY <3>1, <3>2, <3>3
  <2>2. a.api # "callback" => task'[p].id = "PI_TASK_NONE_ID"
    BY <2>1 DEF PiTaskBlock
  <2> QED
    BY <2>1, <2>2, AwaitedStep
<1>2. ASSUME NEW p \in Thread, CopyRefused(p)
      PROVE  Awaited'
  <2>1. /\ pc[p] = "copy" /\ InFlight' = InFlight /\ UNCHANGED <<call, task>>
        /\ status'[p] = -11
        /\ pc'[p] = "wait" => call[p].api = "blocking"
        /\ pc'[p] \in {"wait", "refused"}
        /\ \A q \in Thread \ {p} : pc'[q] = pc[q] /\ status'[q] = status[q]
    BY <1>0, <1>2 DEF CopyRefused, TypeOK, uart, InFlight, Queued
  <2>2. pc'[p] = "wait" => task[p].id = "PI_TASK_NONE_ID"
    BY <2>1 DEF Awaited
  <2> QED
    BY <2>1, <2>2, AwaitedStep
<1>3. ASSUME NEW p \in Thread, CopyExec(p) \/ CopyEnqueue(p)
      PROVE  Awaited'
  <2>1. /\ pc[p] = "copy" /\ UNCHANGED <<call, task>>
        /\ pc'[p] = IF call[p].api = "callback" THEN "detached" ELSE "wait"
        /\ \A q \in Thread \ {p} : pc'[q] = pc[q] /\ status'[q] = status[q]
    BY <1>0, <1>3 DEF CopyExec, CopyEnqueue, TypeOK
  <2>2. PICK c \in Channel : c = call[p].channel
    BY <2>1, CopyFresh DEF IInv
  <2>3. InFlight' = InFlight \cup {p}
    BY <1>3, <2>1, <2>2, AcceptedQueues DEF CopyExec, CopyEnqueue
  <2>4. pc'[p] = "wait" => call[p].api # "callback" /\ task[p].id = "PI_TASK_NONE_ID"
    BY <2>1 DEF Awaited
  <2>5. pc'[p] # "copy"
    BY <2>1
  <2> QED
    BY <2>1, <2>3, <2>4, <2>5, AwaitedStep
<1>4. ASSUME NEW p \in Thread, WaitOn(p) \/ GiveUp(p)
      PROVE  Awaited'
  <2>1. /\ pc'[p] = "idle" /\ InFlight' = InFlight
        /\ \A q \in Thread \ {p} : /\ pc'[q] = pc[q] /\ call'[q] = call[q]
                                   /\ status'[q] = status[q] /\ task'[q] = task[q]
    BY <1>0, <1>4 DEF WaitOn, GiveUp, Leave, TypeOK, InFlight, Queued
  <2> QED
    BY <2>1, AwaitedStep
<1>5. ASSUME NEW p \in Thread, \/ IoctlEnable(p) \/ IoctlSetup(p)
                               \/ \E cmd \in Ioctl : EnterIoctl(p, cmd)
      PROVE  Awaited'
  <2>1. /\ pc'[p] \notin {"copy", "wait"} /\ InFlight' = InFlight
        /\ UNCHANGED <<call, status, task>>
        /\ \A q \in Thread \ {p} : pc'[q] = pc[q]
    BY <1>0, <1>5, IoctlAssumption DEF IoctlEnable, IoctlSetup, EnterIoctl, IoctlCmd, TypeOK,
       uart, InFlight, Queued
  <2> QED
    BY <2>1, AwaitedStep
<1>6. ASSUME NEW p \in Thread, IoctlAbort(p)
      PROVE  FALSE
  BY <1>6 DEF IoctlAbort, EventInv, Abort
<1>7. ASSUME NEW c \in Channel, UdmaDone(c) \/ HandlerNoTask(c) \/ HandlerRepeat(c)
      PROVE  Awaited'
  BY <1>7 DEF UdmaDone, HandlerNoTask, HandlerRepeat, uart, thread, Awaited, InFlight, Queued
<1>8. ASSUME NEW c \in Channel, HandlerEnd(c)
      PROVE  Awaited'
  <2> DEFINE t == fifo_head[c]
  <2>1. /\ UNCHANGED <<pc, call, status>> /\ t \in Thread /\ HandleEndOfTask(t)
        /\ queue' = [queue EXCEPT ![c] = Tail(queue[c])]
    BY <1>0, <1>8 DEF HandlerEnd, thread, TypeOK
  <2>2. /\ queue[c] # <<>> /\ queue[c] \in Seq(Thread) /\ Once(queue[c])
        /\ t = Head(queue[c])
    BY <1>0, <1>8, HeadOfFifo DEF HandlerEnd, IInv, FifoOnce, TypeOK
  <2>3. Elements(Tail(queue[c])) = Elements(queue[c]) \ {t}
    BY <2>2, TailOnce
  <2>4. \A q \in Thread \ {t} : q \in InFlight => q \in InFlight'
    BY <1>0, <2>1, <2>3 DEF InFlight, Queued, TypeOK, Channel
  <2>5. /\ \A q \in Thread \ {t} : task'[q] = task[q]
        /\ task'[t].id = task[t].id
        /\ task[t].id = "PI_TASK_NONE_ID" => task'[t].done
    BY <1>0, <2>1, TaskIds DEF HandleEndOfTask, TypeOK
  <2>6. pc[t] = "wait" => call[t].api # "callback" /\ task[t].id = "PI_TASK_NONE_ID"
    BY <2>1 DEF Awaited
  <2>7. pc[t] = "copy" /\ call[t].api # "callback" => task[t].id = "PI_TASK_NONE_ID"
    BY <2>1 DEF Awaited
  <2> HIDE DEF t
  <2> QED
    BY <2>1, <2>4, <2>5, <2>6, <2>7, AwaitedStep
<1>9. CASE UNCHANGED vars
  BY <1>9 DEF vars, Awaited, InFlight, Queued
<1> QED
  BY <1>1, <1>2, <1>3, <1>4, <1>5, <1>6, <1>7, <1>8, <1>9 DEF Next, ThreadStep, Handler

LEMMA AwaitedInvariance ==
  ASSUME Ioctl \cap Abort = {}
  PROVE  Spec => [](IInv /\ EventInv /\ Awaited)
<1>1. Init => IInv /\ EventInv /\ Awaited
  BY InitIInv, InitAwaited, EmptyOnce DEF Init, EventInv, Abort
<1>2. IInv /\ EventInv /\ Awaited /\ [Next]_vars => (IInv /\ EventInv /\ Awaited)'
  BY StepIInv, StepEventInv, StepAwaited
<1> QED
  BY <1>1, <1>2, PTL DEF Spec

\* Who waits for an accepted transfer has been told, or the transfer is in a fifo
\* whose channel is moving data or has its event pending.
NobodyForgotten ==
  \A p \in Thread :
    pc[p] = "wait" /\ status[p] = 0 =>
      \/ task[p].done
      \/ \E c \in Channel : p \in Queued(c) /\ (udma[c].busy \/ c \in Elements(events))

\* As long as nobody aborts, no accepted transfer is forgotten between its caller,
\* the fifo, the uDMA and the interrupt handler (uart.c 303-439), whatever the
\* sizes and whoever else waits, calls back or changes the setup.
THEOREM AcceptedRemembered ==
  ASSUME Ioctl \cap Abort = {}
  PROVE  Spec => []NobodyForgotten
<1>1. IInv /\ Awaited => NobodyForgotten
  <2> SUFFICES ASSUME IInv, Awaited, NEW p \in Thread,
                      pc[p] = "wait", status[p] = 0, ~task[p].done
               PROVE  \E c \in Channel :
                        p \in Queued(c) /\ (udma[c].busy \/ c \in Elements(events))
    BY DEF NobodyForgotten
  <2>1. PICK c \in Channel : p \in Queued(c)
    BY InFlightQueued DEF Awaited
  <2>2. queue[c] # <<>>
    BY <2>1, EmptyOnce DEF Queued
  <2>3. fifo_head[c] # NULL
    BY <2>2, HeadOfFifo DEF IInv
  <2> QED
    BY <2>1, <2>3 DEF IInv, ChannelOwner
<1> QED
  BY <1>1, AwaitedInvariance, PTL

\* Both directions stay enabled.
EnabledInv ==
  /\ \A c \in Channel : setup[c]
  /\ \A p \in Thread : pc[p] \notin Abort \cup {"CONF_SETUP"}

LEMMA StepEnabled ==
  ASSUME Ioctl \subseteq {"ENABLE_RX", "ENABLE_TX"}, TypeOK, EnabledInv, [Next]_vars
  PROVE  EnabledInv'
<1> USE DEF EnabledInv
<1>1. ASSUME NEW p \in Thread, NEW a \in Calls, NEW created \in BOOLEAN,
             EnterCopy(p, a, created)
      PROVE  EnabledInv'
  BY <1>1 DEF EnterCopy, TypeOK, Abort
<1>2. ASSUME NEW p \in Thread, NEW cmd \in Ioctl, EnterIoctl(p, cmd)
      PROVE  EnabledInv'
  BY <1>2 DEF EnterIoctl, TypeOK, Abort
<1>3. ASSUME NEW p \in Thread, \/ CopyRefused(p) \/ CopyExec(p) \/ CopyEnqueue(p)
                               \/ WaitOn(p) \/ GiveUp(p)
      PROVE  EnabledInv'
  BY <1>3 DEF CopyRefused, CopyExec, CopyEnqueue, WaitOn, GiveUp, Leave, TypeOK, Abort
<1>4. ASSUME NEW p \in Thread, IoctlEnable(p)
      PROVE  EnabledInv'
  BY <1>4 DEF IoctlEnable, TypeOK, Abort
<1>5. ASSUME NEW p \in Thread, IoctlAbort(p) \/ IoctlSetup(p)
      PROVE  FALSE
  BY <1>5 DEF IoctlAbort, IoctlSetup, Abort
<1>6. ASSUME NEW c \in Channel, UdmaDone(c) \/ Handler(c)
      PROVE  EnabledInv'
  BY <1>6 DEF UdmaDone, Handler, HandlerNoTask, HandlerRepeat, HandlerEnd, thread
<1>7. CASE UNCHANGED vars
  BY <1>7 DEF vars
<1> QED
  BY <1>1, <1>2, <1>3, <1>4, <1>5, <1>6, <1>7 DEF Next, ThreadStep

\* Somebody can go on: a thread in its section, the handler, the uDMA, or a caller
\* that has been told.
SomebodyGoesOn ==
  /\ ~fault
  /\ \/ irq # NULL
     \/ Preempted
     \/ \E c \in Channel : udma[c].busy /\ setup[c]
     \/ \E p \in Thread : pc[p] = "wait" /\ task[p].done

NoDeadlock ==
  (\E p \in Thread : pc[p] = "wait" /\ status[p] = 0) => SomebodyGoesOn

\* If no direction is ever disabled, callers, uDMA and handler never all wait for
\* each other while an accepted transfer is waited for.
THEOREM AcceptedNoDeadlock ==
  ASSUME Ioctl \subseteq {"ENABLE_RX", "ENABLE_TX"}
  PROVE  Spec => []NoDeadlock
<1>0. Ioctl \cap Abort = {}
  BY DEF Abort
<1>1. Init => EnabledInv
  BY DEF Init, EnabledInv, Abort
<1>2. IInv /\ EnabledInv /\ [Next]_vars => EnabledInv'
  BY StepEnabled DEF IInv
<1>3. IInv /\ EventInv /\ Awaited /\ EnabledInv => NoDeadlock
  <2> SUFFICES ASSUME IInv, EventInv, Awaited, EnabledInv, NEW p \in Thread,
                      pc[p] = "wait", status[p] = 0, ~task[p].done,
                      irq = NULL, ~Preempted
               PROVE  \E c \in Channel : udma[c].busy /\ setup[c]
    BY DEF NoDeadlock, SomebodyGoesOn, EventInv
  <2>1. events = <<>> /\ Elements(events) = {}
    BY EmptyOnce DEF Preempted
  <2>2. PICK c \in Channel : p \in Queued(c)
    BY InFlightQueued DEF Awaited
  <2>3. queue[c] # <<>>
    BY <2>2, EmptyOnce DEF Queued
  <2>4. fifo_head[c] # NULL
    BY <2>3, HeadOfFifo DEF IInv
  <2> QED
    BY <2>1, <2>4 DEF IInv, ChannelOwner, EnabledInv
<1> QED
  BY <1>0, <1>1, <1>2, <1>3, AwaitedInvariance, PTL DEF Spec

(***************************************************************************)
(* How long one waits                                                      *)
(***************************************************************************)

\* The event of channel c is pending.
Raised(c) == IF c \in Elements(events) THEN 1 ELSE 0

\* The steps of the uDMA and of the handler until the transfer of p on channel c is
\* over: two for each up to its own, one of which has been taken if the event is
\* pending.
StepsAhead(c, p) == 2 * Place(queue[c], p) - Raised(c)

NoOvertaking ==
  \A c \in Channel : \A p \in Queued(c) :
    /\ StepsAhead(c, p) \in Nat \ {0}
    /\ \/ /\ p \in Queued(c)'
          /\ StepsAhead(c, p)' = IF UdmaDone(c) \/ HandlerEnd(c)
                                   THEN StepsAhead(c, p) - 1 ELSE StepsAhead(c, p)
       \/ /\ HandlerEnd(c) /\ StepsAhead(c, p) = 1
          /\ task[p].id = "PI_TASK_NONE_ID" => task'[p].done
       \/ \E q \in Thread : IoctlAbort(q) /\ AbortChannel(pc[q]) = c

\* Both steps are seen at the events, where no other step of the channel is.
LEMMA RaisedBy ==
  ASSUME IInv, NEW c \in Channel
  PROVE  /\ UdmaDone(c) => Raised(c) = 0 /\ Raised(c)' = 1
         /\ Serve(c) => Raised(c) = 1 /\ Raised(c)' = 0
<1>1. ASSUME UdmaDone(c)
      PROVE  c \notin Elements(events) /\ c \in Elements(events')
  <2>1. c \notin Elements(events) /\ events \in Seq(Channel)
    BY <1>1 DEF UdmaDone, IInv, ChannelOwner, TypeOK
  <2>2. events' = Append(events, c)
    BY <1>1 DEF UdmaDone
  <2> QED
    BY <2>1, <2>2, AppendOnce
<1>2. ASSUME Serve(c)
      PROVE  c \in Elements(events) /\ c \notin Elements(events')
  BY <1>2, ServeFacts
<1> QED
  BY <1>1, <1>2 DEF Raised

\* A step that takes neither the queue nor the events of a channel.
LEMMA Unmoved ==
  ASSUME IInv, NEW c \in Channel, NEW p \in Queued(c),
         queue'[c] = queue[c], Raised(c)' = Raised(c)
  PROVE  /\ p \in Queued(c)'
         /\ StepsAhead(c, p)' = IF UdmaDone(c) \/ HandlerEnd(c)
                                  THEN StepsAhead(c, p) - 1 ELSE StepsAhead(c, p)
<1>1. ~UdmaDone(c) /\ ~HandlerEnd(c)
  BY RaisedBy DEF HandlerEnd
<1> QED
  BY <1>1 DEF Queued, StepsAhead

\* The end of a transfer on the channel.
LEMMA EndCloser ==
  ASSUME IInv, NEW c \in Channel, NEW p \in Queued(c), HandlerEnd(c)
  PROVE  \/ p \in Queued(c)' /\ StepsAhead(c, p)' = StepsAhead(c, p) - 1
         \/ /\ StepsAhead(c, p) = 1
            /\ task[p].id = "PI_TASK_NONE_ID" => task'[p].done
<1> DEFINE s == queue[c]  i == Place(s, p)
<1>1. /\ s \in Seq(Thread) /\ Once(s) /\ s # <<>> /\ p \in Elements(s)
      /\ fifo_head[c] = Head(s) /\ fifo_head[c] \in Thread
      /\ queue'[c] = Tail(s) /\ HandleEndOfTask(fifo_head[c])
  BY HeadOfFifo DEF HandlerEnd, IInv, FifoOnce, TypeOK, Queued
<1>2. Raised(c) = 1 /\ Raised(c)' = 0
  BY RaisedBy DEF HandlerEnd
<1> HIDE DEF s
<1>3. /\ i \in Nat /\ (p = Head(s) <=> i = 1)
      /\ p # Head(s) => p \in Elements(Tail(s)) /\ Place(Tail(s), p) = i - 1
  BY <1>1, PlaceTail, PlaceFacts
<1> HIDE DEF i
<1>4. CASE p = Head(s)
  <2>1. 2 * i - 1 = 1
    BY <1>3, <1>4
  <2>2. task \in [Thread -> PiTaskT] /\ p \in Thread
    BY <1>1, <1>4 DEF IInv, TypeOK
  <2>3. task[p].id = "PI_TASK_NONE_ID" => task'[p].done
    BY <1>1, <1>4, <2>2, TaskIds DEF HandleEndOfTask
  <2> QED
    BY <1>2, <2>1, <2>3 DEF StepsAhead, i, s
<1>5. CASE p # Head(s)
  <2>1. 2 * (i - 1) - 0 = (2 * i - 1) - 1
    BY <1>3
  <2>2. p \in Queued(c)' /\ Place(queue'[c], p) = i - 1
    BY <1>1, <1>3, <1>5 DEF Queued
  <2> QED
    BY <1>2, <2>1, <2>2 DEF StepsAhead, i, s
<1> QED
  BY <1>4, <1>5

\* No transfer in a queue is over already.
LEMMA SomeAhead ==
  ASSUME IInv, NEW c \in Channel, NEW p \in Queued(c)
  PROVE  StepsAhead(c, p) \in Nat \ {0}
<1>1. Place(queue[c], p) \in Nat \ {0}
  BY PlaceFacts DEF IInv, TypeOK, Queued
<1>2. Raised(c) \in {0, 1}
  BY DEF Raised
<1>3. 2 * Place(queue[c], p) - Raised(c) \in Nat \ {0}
  BY <1>1, <1>2
<1> QED
  BY <1>3 DEF StepsAhead

LEMMA NextCloser ==
  ASSUME IInv, ShortInv, [Next]_vars
  PROVE  NoOvertaking
<1> SUFFICES ASSUME NEW c \in Channel, NEW p \in Queued(c),
                    ~ \E q \in Thread : IoctlAbort(q) /\ AbortChannel(pc[q]) = c
             PROVE  \/ /\ p \in Queued(c)'
                       /\ StepsAhead(c, p)' = IF UdmaDone(c) \/ HandlerEnd(c)
                                                THEN StepsAhead(c, p) - 1
                                                ELSE StepsAhead(c, p)
                    \/ /\ HandlerEnd(c) /\ StepsAhead(c, p) = 1
                       /\ task[p].id = "PI_TASK_NONE_ID" => task'[p].done
  BY SomeAhead DEF NoOvertaking
<1>0. /\ queue \in [Channel -> Seq(Thread)] /\ events \in Seq(Channel)
      /\ Place(queue[c], p) \in Nat /\ queue[c] # <<>>
  BY PlaceFacts, EmptyOnce DEF IInv, TypeOK, Queued
<1>1. CASE HandlerEnd(c)
  BY <1>1, EndCloser
<1>2. CASE UdmaDone(c)
  <2>1. queue' = queue /\ Raised(c) = 0 /\ Raised(c)' = 1
    BY <1>2, RaisedBy DEF UdmaDone, uart
  <2>2. 2 * Place(queue[c], p) - 1 = (2 * Place(queue[c], p) - 0) - 1
    BY <1>0
  <2> QED
    BY <1>2, <2>1, <2>2 DEF StepsAhead, Queued
<1>3. ASSUME NEW d \in Channel \ {c}, UdmaDone(d)
      PROVE  queue'[c] = queue[c] /\ Raised(c)' = Raised(c)
  <2>1. queue' = queue /\ events' = Append(events, d)
    BY <1>3 DEF UdmaDone, uart
  <2>2. Elements(events') = Elements(events) \cup {d}
    BY <1>0, <2>1, AppendOnce
  <2> QED
    BY <2>1, <2>2 DEF Raised
<1>4. ASSUME NEW d \in Channel \ {c}, Handler(d)
      PROVE  queue'[c] = queue[c] /\ Raised(c)' = Raised(c)
  <2>1. Serve(d)
    BY <1>4 DEF Handler, HandlerNoTask, HandlerRepeat, HandlerEnd
  <2>2. Elements(events') = Elements(events) \ {d}
    BY <2>1, ServeFacts
  <2>3. queue'[c] = queue[c]
    BY <1>0, <1>4 DEF Handler, HandlerNoTask, HandlerRepeat, HandlerEnd, uart
  <2> QED
    BY <2>2, <2>3 DEF Raised
<1>5. ~HandlerNoTask(c) /\ ~HandlerRepeat(c)
  <2>1. fifo_head[c] # NULL /\ fifo_head[c] \in Thread
    BY <1>0, HeadOfFifo DEF IInv
  <2> QED
    BY <2>1 DEF HandlerNoTask, HandlerRepeat, ShortInv
<1>6. ASSUME NEW q \in Thread, CopyExec(q) \/ CopyEnqueue(q)
      PROVE  p \in Queued(c)' /\ StepsAhead(c, p)' = StepsAhead(c, p) /\ Raised(c)' = Raised(c)
  <2>1. pc[q] = "copy" /\ events' = events
    BY <1>6 DEF CopyExec, CopyEnqueue
  <2>2. PICK d \in Channel : queue' = [queue EXCEPT ![d] = Append(queue[d], q)]
    BY <1>6, <2>1, CopyFresh DEF CopyExec, CopyEnqueue
  <2>3. /\ queue'[d] = Append(queue[d], q) /\ Once(queue'[d])
        /\ c # d => queue'[c] = queue[c]
    BY <2>1, <2>2, AcceptedQueues DEF FifoOnce
  <2>4. p \in Elements(queue'[c]) /\ Place(queue'[c], p) = Place(queue[c], p)
    <3>1. CASE c = d
      <4> DEFINE s == queue[c]
      <4>1. /\ s \in Seq(Thread) /\ p \in Elements(s) /\ q \in Thread
            /\ queue'[c] = Append(s, q) /\ Once(Append(s, q))
        BY <1>0, <2>3, <3>1 DEF Queued
      <4> HIDE DEF s
      <4>2. p \in Elements(Append(s, q)) /\ Place(Append(s, q), p) = Place(s, p)
        BY <4>1, PlaceAppend
      <4> QED
        BY <4>1, <4>2 DEF s
    <3>2. CASE c # d
      BY <2>3, <3>2 DEF Queued
    <3> QED
      BY <3>1, <3>2
  <2> QED
    BY <2>1, <2>4 DEF StepsAhead, Raised, Queued
<1>7. ASSUME NEW q \in Thread, IoctlAbort(q)
      PROVE  queue'[c] = queue[c] /\ Raised(c)' = Raised(c)
  <2>1. AbortChannel(pc[q]) # c
    BY <1>7
  <2> QED
    BY <1>0, <1>7, <2>1 DEF IoctlAbort, Raised
<1>8. ASSUME NEW q \in Thread,
             \/ CopyRefused(q) \/ WaitOn(q) \/ GiveUp(q) \/ IoctlEnable(q) \/ IoctlSetup(q)
             \/ \E a \in Calls, created \in BOOLEAN : EnterCopy(q, a, created)
             \/ \E cmd \in Ioctl : EnterIoctl(q, cmd)
      PROVE  queue'[c] = queue[c] /\ Raised(c)' = Raised(c)
  BY <1>8 DEF CopyRefused, WaitOn, GiveUp, IoctlEnable, IoctlSetup, EnterCopy, EnterIoctl,
     uart, Raised
<1>9. CASE UNCHANGED vars
  <2>1. queue'[c] = queue[c] /\ Raised(c)' = Raised(c)
    BY <1>9 DEF vars, Raised
  <2> QED
    BY <2>1, Unmoved
<1>10. CASE \E d \in Channel : UdmaDone(d) \/ Handler(d)
  <2>1. PICK d \in Channel : UdmaDone(d) \/ Handler(d)
    BY <1>10
  <2>2. CASE d = c
    BY <1>1, <1>2, <1>5, <2>1, <2>2 DEF Handler
  <2>3. CASE d # c
    BY <1>3, <1>4, <2>1, <2>3, Unmoved
  <2> QED
    BY <2>2, <2>3
<1>11. CASE \E q \in Thread : CopyExec(q) \/ CopyEnqueue(q)
  <2>1. /\ p \in Queued(c)' /\ StepsAhead(c, p)' = StepsAhead(c, p)
        /\ Raised(c)' = Raised(c)
    BY <1>6, <1>11
  <2>2. ~UdmaDone(c) /\ ~HandlerEnd(c)
    BY <2>1, RaisedBy DEF HandlerEnd
  <2> QED
    BY <2>1, <2>2
<1>12. ASSUME queue'[c] = queue[c], Raised(c)' = Raised(c)
       PROVE  /\ p \in Queued(c)'
              /\ StepsAhead(c, p)' = IF UdmaDone(c) \/ HandlerEnd(c)
                                       THEN StepsAhead(c, p) - 1 ELSE StepsAhead(c, p)
  BY <1>12, Unmoved
<1> QED
  BY <1>7, <1>8, <1>9, <1>10, <1>11, <1>12 DEF Next, ThreadStep

\* For short transfers each end of a uDMA transfer and each run of the handler brings
\* every transfer of the channel one step closer to its end, none ends before its turn,
\* and nothing anybody calls puts one further back, however many come behind; only an
\* abort of the channel drops it (__pi_uart_copy, __pi_uart_handler).
THEOREM BoundedWait ==
  ASSUME ShortTransfers
  PROVE  Spec => [][NoOvertaking]_vars
<1>1. IInv /\ ShortInv /\ [Next]_vars => [NoOvertaking]_vars
  BY NextCloser
<1> QED
  BY <1>1, ShortInvariance, PTL DEF Spec

(***************************************************************************)
(* The driver implements the service                                       *)
(***************************************************************************)

\* The transfer of p has moved and its event is yet to be serviced.
Moved(p) == \E c \in Channel : fifo_head[c] = p /\ ~udma[c].busy

SInv == IInv /\ ShortInv /\ WaitInv

\* What the mapping makes of a short transfer: all of it is left, or none.
AllOrNothing ==
  \A p \in Thread :
    /\ Left(p) = IF p \in InFlight /\ ~Moved(p) THEN call[p].size ELSE 0
    /\ p \in InFlight => call[p].size \in Nat /\ call[p].size > 0

LEMMA LeftValue == SInv => AllOrNothing
<1> SUFFICES ASSUME SInv, NEW p \in Thread
             PROVE  /\ Left(p) = IF p \in InFlight /\ ~Moved(p) THEN call[p].size ELSE 0
                    /\ p \in InFlight => call[p].size \in Nat /\ call[p].size > 0
  BY DEF AllOrNothing
<1>1. CASE p \notin InFlight
  BY <1>1 DEF Left
<1>2. CASE p \in InFlight
  <2>1. /\ data[p] \in Data /\ data[p].size <= MAX_CHUNK
        /\ data[p].size = call[p].size /\ data[p].size > 0
    BY <1>2 DEF SInv, ShortInv, IInv, TypeOK
  <2>2. ExecWindow(p, data[p]).size = data[p].size /\ data[p].size \in Nat
    BY <2>1, ShortExec DEF Data
  <2>3. data[p].size - data[p].size = 0
    BY <2>2
  <2> QED
    BY <1>2, <2>1, <2>2, <2>3 DEF Left, Moved
<1> QED
  BY <1>1, <1>2

LEMMA LeftValueNext ==
  ASSUME SInv'
  PROVE  AllOrNothing'
BY LeftValue, PTL

\* A task that is in no fifo is at the head of none.
LEMMA NotHead ==
  ASSUME IInv, NEW p \in Thread, p \notin InFlight
  PROVE  \A c \in Channel : fifo_head[c] # p
<1>1. ASSUME NEW c \in Channel, fifo_head[c] = p
      PROVE  FALSE
  BY <1>1, HeadOfFifo, InFlightQueued, ThreadAssumption DEF IInv
<1> QED
  BY <1>1

LEMMA WaitingMapped == Service!Waiting = InFlight
BY DEF Service!Waiting, InFlight, Queued, Elements, Channel

Done == {p \in Thread : task[p].done}
LeftOf == [p \in Thread |-> Left(p)]

\* A step that keeps queue, completions and the bytes left is a stutter.
LEMMA MappedStutter ==
  ASSUME queue' = queue, Done' = Done, LeftOf' = LeftOf
  PROVE  UNCHANGED Service!vars
BY DEF Service!vars, Done, LeftOf

LEMMA InitMapped == Init => Service!Init
<1> SUFFICES ASSUME Init PROVE Service!Init
  OBVIOUS
<1>1. InFlight = {} /\ queue = [c \in Channel |-> <<>>]
  BY EmptyOnce DEF Init, InFlight, Queued, Channel
<1>2. LeftOf = [p \in Thread |-> 0]
  BY <1>1 DEF LeftOf, Left
<1>3. Done = {}
  BY DEF Init, Done, PiTaskZero
<1> QED
  BY <1>1, <1>2, <1>3 DEF Service!Init, LeftOf, Done

LEMMA MapEnter ==
  ASSUME SInv, SInv', NEW p \in Thread, NEW a \in Calls, NEW created \in BOOLEAN,
         EnterCopy(p, a, created)
  PROVE  Service!Begin(p)
<1>1. /\ p \notin InFlight /\ UNCHANGED <<queue, fifo_head, udma, data>>
      /\ InFlight' = InFlight /\ TypeOK
  BY DEF EnterCopy, uart, InFlight, Queued, SInv, IInv, NodesAlive
<1>2. LeftOf' = LeftOf
  BY <1>1 DEF LeftOf, Left
<1>3. Done' = Done \ {p}
  <2>1. ~task'[p].done /\ \A q \in Thread \ {p} : task'[q] = task[q]
    BY <1>1, TaskTypes DEF EnterCopy, TypeOK
  <2> QED
    BY <2>1 DEF Done
<1> QED
  BY <1>1, <1>2, <1>3, WaitingMapped DEF Service!Begin, LeftOf, Done

LEMMA MapAccept ==
  ASSUME SInv, SInv', NEW p \in Thread, CopyExec(p) \/ CopyEnqueue(p)
  PROVE  \E c \in Channel : Service!Accept(p, c)
<1>1. /\ pc[p] = "copy" /\ TypeOK /\ IInv /\ call' = call /\ task' = task
      /\ p \notin InFlight /\ ~task[p].done
  BY CopyFresh DEF CopyExec, CopyEnqueue, SInv, IInv
<1>2. PICK c \in Channel : c = call[p].channel
  BY <1>1, CopyFresh
<1>3. queue' = [queue EXCEPT ![c] = Append(queue[c], p)]
  BY <1>2 DEF CopyExec, CopyEnqueue
<1>4. InFlight' = InFlight \cup {p} /\ Queued(c)' = Queued(c) \cup {p}
  BY <1>1, <1>3, AcceptedQueues
<1>5. /\ Moved(p)' = FALSE
      /\ \A q \in Thread \ {p} : q \in InFlight => Moved(q)' = Moved(q)
  <2>1. CASE CopyExec(p)
    <3>1. /\ fifo_head'[c] = p /\ udma'[c].busy /\ fifo_head[c] = NULL
          /\ \A d \in Channel \ {c} : fifo_head'[d] = fifo_head[d] /\ udma'[d] = udma[d]
      BY <1>1, <1>2, <2>1 DEF CopyExec, TypeOK, ExecWindow
    <3>2. \A d \in Channel : fifo_head[d] # p
      BY <1>1, NotHead
    <3> QED
      BY <3>1, <3>2, ThreadAssumption DEF Moved
  <2>2. CASE CopyEnqueue(p)
    <3>1. UNCHANGED <<fifo_head, udma>>
      BY <2>2 DEF CopyEnqueue
    <3>2. \A d \in Channel : fifo_head[d] # p
      BY <1>1, NotHead
    <3> QED
      BY <3>1, <3>2 DEF Moved
  <2> QED
    BY <2>1, <2>2
<1>6. \A q \in Thread : Left(q)' = IF q \in InFlight' /\ ~Moved(q)' THEN call'[q].size ELSE 0
  BY LeftValueNext DEF AllOrNothing
<1>7. /\ \A q \in Thread \ {p} : Left(q)' = Left(q)
      /\ Left(p)' = call[p].size /\ call[p].size \in Nat \ {0}
  <2>1. call'[p].size \in Nat /\ call'[p].size > 0
    BY <1>4, LeftValueNext DEF AllOrNothing
  <2>2. Left(p)' = call[p].size
    BY <1>1, <1>4, <1>5, <1>6
  <2>3. \A q \in Thread \ {p} : Left(q)' = Left(q)
    BY <1>1, <1>4, <1>5, <1>6, LeftValue DEF AllOrNothing
  <2> QED
    BY <1>1, <2>1, <2>2, <2>3
<1>8. /\ LeftOf'[p] \in Nat \ {0}
      /\ LeftOf' = [LeftOf EXCEPT ![p] = LeftOf'[p]]
  BY <1>7 DEF LeftOf
<1>9. Done' = Done /\ p \notin Done
  BY <1>1 DEF Done
<1> QED
  BY <1>1, <1>3, <1>8, <1>9, WaitingMapped DEF Service!Accept, LeftOf, Done

LEMMA MapLeave ==
  ASSUME SInv, SInv', NEW p \in Thread, WaitOn(p) \/ GiveUp(p)
  PROVE  UNCHANGED Service!vars
<1>1. /\ TypeOK /\ p \notin InFlight
      /\ UNCHANGED <<queue, fifo_head, udma>> /\ InFlight' = InFlight
  BY DEF WaitOn, GiveUp, Leave, WaitOver, SInv, IInv, NodesAlive, InFlight, Queued
<1>2. \A q \in Thread \ {p} : data'[q] = data[q] /\ task'[q] = task[q]
  BY <1>1 DEF WaitOn, GiveUp, Leave, TypeOK
<1>3. LeftOf' = LeftOf
  BY <1>1, <1>2 DEF LeftOf, Left
<1>4. task'[p].done = task[p].done
  <2>1. task[p] \in PiTaskT
    BY <1>1 DEF TypeOK
  <2>2. \/ task'[p] = PiTaskDestroy(task[p])
        \/ task'[p] = PiTaskDestroy(PiTaskDestroy(task[p]))
    BY <1>1 DEF WaitOn, GiveUp, TypeOK
  <2> QED
    BY <2>1, <2>2, TaskTypes
<1>5. Done' = Done
  BY <1>2, <1>4 DEF Done
<1> QED
  BY <1>1, <1>3, <1>5, MappedStutter

LEMMA MapAbort ==
  ASSUME SInv, SInv', NEW p \in Thread, IoctlAbort(p)
  PROVE  \E c \in Channel : Service!Flush(c)
<1>1. PICK c \in Channel : c = AbortChannel(pc[p])
  BY DEF AbortChannel, Channel
<1>2. /\ TypeOK /\ IInv /\ queue' = [queue EXCEPT ![c] = <<>>] /\ queue'[c] = <<>>
      /\ \A d \in Channel \ {c} : /\ queue'[d] = queue[d]
                                  /\ fifo_head'[d] = fifo_head[d] /\ udma'[d] = udma[d]
      /\ fifo_head'[c] = NULL /\ UNCHANGED <<call, data, task>>
  BY <1>1 DEF IoctlAbort, SInv, IInv, TypeOK
<1>3. /\ Queued(c)' = {} /\ \A d \in Channel \ {c} : Queued(d)' = Queued(d)
      /\ \A d \in Channel \ {c} : Queued(c) \cap Queued(d) = {}
  BY <1>2, EmptyOnce, QueuesDisjoint DEF Queued, IInv
<1>4. InFlight' = InFlight \ Queued(c)
  <2>1. \A q : q \in InFlight' <=> \E e \in Channel : q \in Queued(e)'
    BY DEF InFlight, Channel
  <2> QED
    BY <1>3, <2>1, InFlightQueued
<1>5. \A q \in Thread \ Queued(c) : Moved(q)' = Moved(q)
  <2>1. \A q \in Thread \ Queued(c) : fifo_head[c] # q
    BY <1>2, HeadOfFifo, ThreadAssumption DEF IInv
  <2> QED
    BY <1>2, <2>1, ThreadAssumption DEF Moved
<1>6. \A q \in Thread : Left(q)' = IF q \in Queued(c) THEN 0 ELSE Left(q)
  BY <1>2, <1>4, <1>5, LeftValue, LeftValueNext DEF AllOrNothing
<1>7. LeftOf' = [q \in Thread |-> IF q \in Queued(c) THEN 0 ELSE LeftOf[q]]
  BY <1>6 DEF LeftOf
<1>8. Done' = Done
  BY <1>2 DEF Done
<1> QED
  BY <1>2, <1>7, <1>8 DEF Service!Flush, LeftOf, Done, Queued, Elements

\* The end of a uDMA transfer moves everything that was left of its owner's.
LEMMA MapUdma ==
  ASSUME SInv, SInv', NEW c \in Channel, UdmaDone(c)
  PROVE  Service!Move(c)
<1>1. /\ TypeOK /\ IInv /\ udma[c].busy
      /\ UNCHANGED <<queue, fifo_head, call, data, task>>
      /\ ~udma'[c].busy /\ \A d \in Channel \ {c} : udma'[d] = udma[d]
      /\ InFlight' = InFlight
  BY DEF UdmaDone, uart, thread, SInv, IInv, TypeOK, UdmaIdle, InFlight, Queued
<1>2. PICK t \in Thread : t = fifo_head[c]
  BY <1>1, BusyOwner
<1>3. /\ t \in Thread /\ t \in InFlight /\ t \in Queued(c)
      /\ queue[c] # <<>> /\ t = Head(queue[c])
  BY <1>1, <1>2, BusyOwner, HeadOfFifo, ThreadAssumption DEF IInv
<1>4. \A d \in Channel \ {c} : fifo_head[d] # t
  BY <1>1, <1>2, <1>3, HeadOfFifo, QueuesDisjoint, ThreadAssumption DEF IInv
<1>5. /\ ~Moved(t) /\ Moved(t)'
      /\ \A q \in Thread \ {t} : Moved(q)' = Moved(q)
  BY <1>1, <1>2, <1>4 DEF Moved
<1>6. /\ Left(t) = call[t].size /\ Left(t)' = 0
      /\ call[t].size \in Nat /\ call[t].size > 0
      /\ \A q \in Thread \ {t} : Left(q)' = Left(q)
  BY <1>1, <1>3, <1>5, LeftValue, LeftValueNext DEF AllOrNothing
<1>7. /\ LeftOf'[t] \in Nat /\ LeftOf'[t] < LeftOf[t]
      /\ LeftOf' = [LeftOf EXCEPT ![t] = LeftOf'[t]]
  <2>1. /\ LeftOf'[t] = 0 /\ LeftOf[t] = call[t].size
        /\ \A q \in Thread \ {t} : LeftOf'[q] = LeftOf[q]
    BY <1>2, <1>6 DEF LeftOf
  <2>2. LeftOf' = [q \in Thread |-> LeftOf'[q]] /\ LeftOf = [q \in Thread |-> LeftOf[q]]
    BY DEF LeftOf
  <2>3. LeftOf' = [LeftOf EXCEPT ![t] = LeftOf'[t]]
    BY <2>1, <2>2
  <2> QED
    BY <1>6, <2>1, <2>3
<1>8. Done' = Done
  BY <1>1 DEF Done
<1> QED
  BY <1>1, <1>3, <1>7, <1>8 DEF Service!Move, LeftOf, Done

LEMMA MapEnd ==
  ASSUME SInv, SInv', NEW c \in Channel, HandlerEnd(c)
  PROVE  Service!Complete(c)
<1> DEFINE t == fifo_head[c]
           n == next[t]
<1>1. /\ TypeOK /\ IInv /\ Serve(c) /\ t # NULL /\ t \in Thread
      /\ HandleEndOfTask(t) /\ StartNext(c, n) /\ UNCHANGED <<call, pc>>
      /\ queue' = [queue EXCEPT ![c] = Tail(queue[c])]
      /\ fifo_head'[c] = n /\ \A d \in Channel \ {c} : fifo_head'[d] = fifo_head[d]
  BY DEF HandlerEnd, SInv, IInv, TypeOK, thread
<1>2. /\ ~udma[c].busy /\ t \in Queued(c) /\ t = Head(queue[c]) /\ queue[c] # <<>>
      /\ queue[c] \in Seq(Thread) /\ Once(queue[c]) /\ t \in InFlight
      /\ Represents(queue[c], t, fifo_tail[c], next, NULL)
      /\ n \in Thread \cup {NULL}
  BY <1>1, ServeFacts, HeadOfFifo, InFlightQueued DEF IInv, FifoOnce, FifoLinked, TypeOK
<1>3. /\ Elements(Tail(queue[c])) = Queued(c) \ {t}
      /\ Tail(queue[c]) \in Seq(Thread) /\ Once(Tail(queue[c]))
      /\ Represents(Tail(queue[c]), n, IF n = NULL THEN NULL ELSE fifo_tail[c],
                    next, NULL)
  BY <1>2, TailOnce, RepresentsTail, ThreadAssumption DEF Queued
<1>4. n # NULL => n \in Queued(c) /\ n # t
  <2> HIDE DEF n
  <2>1. n # NULL => Tail(queue[c]) # <<>> /\ n = Tail(queue[c])[1]
    BY <1>3 DEF Represents
  <2>2. n # NULL => n \in Elements(Tail(queue[c]))
    BY <1>3, <2>1, TailOnce
  <2> QED
    BY <1>3, <2>2
<1>5. \A d \in Channel \ {c} : udma'[d] = udma[d]
  BY <1>1, <1>2, StartNextFacts
<1>6. n # NULL => udma'[c].busy
  BY <1>1, <1>2, StartNextFacts
<1>7. InFlight' = InFlight \ {t}
  <2>1. Queued(c)' = Queued(c) \ {t} /\ \A d \in Channel \ {c} : Queued(d)' = Queued(d)
    BY <1>1, <1>3 DEF Queued, TypeOK
  <2>2. \A d \in Channel \ {c} : t \notin Queued(d)
    BY <1>1, <1>2, QueuesDisjoint DEF IInv
  <2>3. \A q : q \in InFlight' <=> \E e \in Channel : q \in Queued(e)'
    BY DEF InFlight, Channel
  <2> QED
    BY <2>1, <2>2, <2>3, InFlightQueued
<1>8. Done' = Done \cup {t}
  <2>1. task[t].id = "PI_TASK_NONE_ID"
    BY <1>1, <1>2 DEF SInv, WaitInv
  <2>2. task' = [task EXCEPT ![t] = PiTaskRelease(task[t])]
    BY <1>1, <2>1 DEF HandleEndOfTask
  <2>3. task'[t].done /\ \A q \in Thread \ {t} : task'[q] = task[q]
    BY <1>1, <2>2, TaskIds DEF TypeOK
  <2> QED
    BY <1>1, <2>3 DEF Done
<1> HIDE DEF n
<1>9. Moved(t) /\ \A q \in Thread \ {t} : Moved(q)' = Moved(q)
  <2>1. ASSUME NEW q \in Thread \ {t}
        PROVE  Moved(q)' = Moved(q)
    <3>1. CASE q = n
      <4>1. \A d \in Channel : fifo_head[d] # q
        BY <1>1, <1>2, <1>4, <3>1, <2>1, HeadOfFifo, QueuesDisjoint, ThreadAssumption
           DEF IInv
      <4>2. \A d \in Channel \ {c} : fifo_head'[d] # q
        BY <1>1, <4>1
      <4> QED
        BY <1>6, <3>1, <2>1, <4>1, <4>2, ThreadAssumption DEF Moved
    <3>2. CASE q # n
      BY <1>1, <1>5, <2>1, <3>2 DEF Moved
    <3> QED
      BY <3>1, <3>2
  <2> QED
    BY <1>2, <2>1 DEF Moved
<1>10. Left(t) = 0 /\ \A q \in Thread : Left(q)' = Left(q)
  BY <1>1, <1>2, <1>7, <1>9, LeftValue, LeftValueNext DEF AllOrNothing
<1>11. LeftOf' = LeftOf /\ LeftOf[t] = 0
  BY <1>1, <1>10 DEF LeftOf
<1> QED
  BY <1>1, <1>2, <1>8, <1>11 DEF Service!Complete, LeftOf, Done

LEMMA StepMapped ==
  ASSUME SInv, SInv', [Next]_vars
  PROVE  [Service!Next]_(Service!vars)
<1> USE DEF Service!Next
<1>1. ASSUME NEW p \in Thread, NEW a \in Calls, NEW created \in BOOLEAN,
             EnterCopy(p, a, created)
      PROVE  Service!Next
  BY <1>1, MapEnter
<1>2. ASSUME NEW p \in Thread, CopyExec(p) \/ CopyEnqueue(p)
      PROVE  Service!Next
  BY <1>2, MapAccept
<1>3. ASSUME NEW p \in Thread, IoctlAbort(p)
      PROVE  Service!Next
  BY <1>3, MapAbort
<1>4. ASSUME NEW c \in Channel, UdmaDone(c) \/ HandlerEnd(c)
      PROVE  Service!Next
  BY <1>4, MapUdma, MapEnd
<1>5. ASSUME NEW p \in Thread, WaitOn(p) \/ GiveUp(p)
      PROVE  UNCHANGED Service!vars
  BY <1>5, MapLeave
<1>6. ASSUME \/ \E p \in Thread : \/ CopyRefused(p) \/ IoctlEnable(p) \/ IoctlSetup(p)
                                  \/ \E cmd \in Ioctl : EnterIoctl(p, cmd)
             \/ \E c \in Channel : HandlerNoTask(c)
             \/ UNCHANGED vars
      PROVE  UNCHANGED Service!vars
  <2>1. UNCHANGED <<queue, fifo_head, udma, data, task>>
    BY <1>6 DEF CopyRefused, IoctlEnable, IoctlSetup, EnterIoctl, HandlerNoTask, uart, thread, vars
  <2>2. LeftOf' = LeftOf /\ Done' = Done
    BY <2>1 DEF LeftOf, Left, InFlight, Queued, Done
  <2> QED
    BY <2>1, <2>2, MappedStutter
<1>7. ASSUME NEW c \in Channel, HandlerRepeat(c)
      PROVE  FALSE
  <2>1. fifo_head[c] \in Thread /\ data[fifo_head[c]].repeat_size # 0
    BY <1>7 DEF HandlerRepeat, SInv, IInv, TypeOK
  <2> QED
    BY <2>1 DEF SInv, ShortInv
<1> QED
  BY <1>1, <1>2, <1>3, <1>4, <1>5, <1>6, <1>7 DEF Next, ThreadStep, Handler

\* If no transfer is longer than a chunk and every caller waits for its task,
\* then whatever the interleaving of callers, uDMA, interrupt handler and aborts,
\* the driver serves each direction in the order of acceptance and releases a
\* caller exactly when all its bytes have moved.
THEOREM Implementation ==
  ASSUME ShortTransfers, "callback" \notin Api
  PROVE  Spec => ImplementsService
<1>1. WaitInv /\ IInv /\ [Next]_vars => WaitInv'
  BY StepWait
<1>2. Spec => []SInv
  BY ShortInvariance, InitWait, <1>1, PTL DEF Spec, SInv
<1>3. SInv /\ SInv' /\ [Next]_vars => [Service!Next]_(Service!vars)
  BY StepMapped
<1>4. Spec => Service!Spec
  BY InitMapped, <1>2, <1>3, PTL DEF Spec, Service!Spec
<1> QED
  BY <1>4 DEF ImplementsService

=============================================================================
