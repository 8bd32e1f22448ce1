# RTisan in TLA+

RTisan is a small real-time kernel for STM32F3 microcontrollers (and, for
testing, Linux): tasks with fixed priorities, wake counters, locks, sleeping,
byte streams over USB or TCP, and SPI masters driven by interrupts or DMA. This
directory models its concurrent core in TLA+, checks the models with TLC on
small instances, and proves the properties that matter most with TLAPS for
every value of the constants.

## The system

| component | source | state | operations | who runs them |
|---|---|---|---|---|
| circular queue | `rtisan_circqueue.c` | `writeHead`, `readTail`, `contents` | write, advance, read, done, clear | one writer and one reader, without a lock: tasks or interrupt handlers |
| scheduling kernel | `arm/rtisan_task.c`, `arm/systick_handler.c` | per task `wakeCount`, `wakeThreshold`, `ticksCreateWakes`; `curTask`; `systick_cnt` | `RTWake`, `RTWait`, `RTGetWakeCount`, `RTResched`, PendSV (`RTTaskSwitch`), systick | tasks, handlers, PendSV |
| locks | `arm/rtisan_task.c` | `lockInfo.holder`, `waiters[4]` | lock, try, unlock | tasks |
| sleeping | `arm/rtisan_task.c` | `ticksCreateWakes`, the tick counter | `RTSleep`, `RTSleepUntil` | tasks |
| task creation | `arm/rtisan_task.c` | `taskTable`, a record and a first stack frame per task | `RTTaskCreate`, `RTGo` | main, then tasks |
| heap | `arm/rtisan_heap.c` | `HeapPos`, `HeapSize` | allocate (nothing is freed) | tasks, start-up |
| streams | `rtisan_stream.c` | two queues, two locks, the waiting task and the callback of each direction | send, receive, zero-copy access, set callback | tasks on one side, a driver (handler or task) on the other |
| SPI core | `rtisan_spi.c` | a queue of transfers, a lock, the driver's start handler | post a list, next, completed | tasks post, the driver's handler takes |
| SPI drivers | `arm/spi_stm32f3.c`, `arm/spidma_stm32f3.c` | the transfer in progress, the selected slave, positions or DMA counters, the interrupt enable | start (from a task), interrupt handler | the task that posts, the handler |
| USB CDC | `usb/usbd_cdc_interface.c` | `txInProg`, `rxInProg`, `txNumBytes` | start and completion of packets | tasks through stream callbacks, the USB handler |
| USB set-up | `usb/usbd_conf.c`, `usbd_desc.c` | packet buffer addresses, descriptors | | start-up |
| pins, LEDs | `arm/inc/rtisan_dio.h`, `arm/rtisan_dio.c`, `rtisan_led.c` | the ports' registers, `rtLedCount` | set up a pin, write, toggle | start-up, drivers and tasks |
| main | `main.c` | | initialisation in order, the first tasks | start-up |
| tasks on Linux | `linux/rtisan_task.c` | a thread per task with a wake counter, a mutex and a condition variable; the tick counter | the same interface on pthreads; `RTGo` makes ticks | threads |
| TCP streams | `linux/rtisan_tcp.c` | the socket in use | a task that is a stream's driver | that task |
| flash, timers, start-up | the rest | registers | | tasks, start-up |

Everything rests on one idea: a task takes its wake count, looks at the shared
state, and if it must wait, waits for the count to pass the one it took. A wake
in between moves the count, so it is not lost. Locks, streams and sleeping are
built on it, handlers call only `RTWake` and `RTResched`, and the rings between
handlers and tasks need no lock at all. What is hard is therefore all in the
interleavings: a handler or a task switch between any two accesses, positions
and counts that are stale when used, 8 bit counters that wrap, waiter slots
that run out, decisions taken by the side that starts a driver while the
driver stops.

What makes each component correct: the ring is a bounded FIFO whose two sides
never touch the same slot and whose asserts hold; the scheduler runs the best
awake task and no wake is lost; a lock excludes, and is not slept on while it
is free; a sleep lasts as long as was asked and ends; heap blocks do not
overlap; a stream delivers every byte in order and its blocking calls return
when the other side does its part; a task that can be found is complete and none
is lost; an LED shows what it was last told; an SPI transfer list is executed once, in
order, contiguously, with one chip select at a time, and each transfer is
completed.

`PROJECT.json` lists the components with what is modelled, the hazards with
the properties that cover them, and the source lines of every definition.

## Assumptions about the machine

- One processor. A store or a load of an aligned word is one step; so is a
  compare-and-swap loop whose body only computes from the value it loaded,
  because every failed round leaves no trace.
- All exceptions have the same priority (nothing in the code sets one), so
  handlers, systick and PendSV do not preempt each other. A handler is one step
  unless a module says otherwise.
- A write to `SCB->ICSR` that pends PendSV takes effect before the task's next
  instruction; thread code runs only while PendSV is not pending.
- The compiler keeps `memcpy` to the ring before the volatile store that
  publishes it.
- `assert` stops the side that fails it.

## Modules

| module | models | extends |
|---|---|---|
| `Fifo` | what a ring promises: a bounded FIFO | |
| `CircQueue`, `MCCircQueue` | `rtisan_circqueue.c` | |
| `CircQueueProofs` | theorems about it: its safety, and that it implements `Fifo` | `CircQueue` |
| `RTask` | the kernel: counters, choice of task, PendSV, tick | |
| `RTaskProofs` | lemmas about its operations | `RTask` |
| `RTLock`, `MCRTLock` | the lock and its clients | `RTask` |
| `RTLockProofs` | theorems about them | `RTLock`, `RTaskProofs` |
| `RTSleep`, `MCRTSleep` | sleeping and ticks | `RTask` |
| `RTSleepProofs` | theorems about them | `RTSleep`, `RTaskProofs` |
| `Heap` | the allocator | |
| `HeapProofs` | theorems about it | `Heap` |
| `TaskTable` | `RTTaskCreate` and `RTGo` on the allocator | `Heap` |
| `DIO` | pins and LEDs | |
| `Board`, `MCBoard` | a board from reset on: `main.c`, then its tasks | `TaskTable`, `DIO` |
| `BoardProofs` | theorems about it | `Board`, `HeapProofs` |
| `Stream` | `rtisan_stream.c`, tasks' side and callbacks | |
| `CDC`, `MCCDC` | `usb/usbd_cdc_interface.c` as a stream's driver | `Stream` |
| `LinuxTask` | `linux/rtisan_task.c` | |
| `TCP`, `MCTCP` | `linux/rtisan_tcp.c` as a stream's driver, and the application's tasks | `Stream`, `LinuxTask` |
| `StreamProofs` | theorems about both drivers of streams | `TCP`, `CDC` |
| `SPI` | `rtisan_spi.c`, and what both drivers have in common | |
| `SPIF3`, `MCSPIF3` | `arm/spi_stm32f3.c` and the peripheral | `SPI` |
| `SPIDMA`, `MCSPIDMA` | `arm/spidma_stm32f3.c` and the DMA controller | `SPI` |
| `SPIProofs` | theorems about both drivers of the SPI core | `SPIF3`, `SPIDMA` |

Operators whose name has the form `Definition_Fault` are faulty variants of a
definition; nothing uses them but the mutants in `PROJECT.json`, which show that
each property would notice such a fault.

### CircQueue

The writer and the reader are two processes. `wpc` and `rpc` are where each is
in its call: reading the other's position (`pos`), copying (`copy`), between
the copy and the position update (`adv`, `done`), and before the store that
publishes (`store`). `RTCQWrite`, `RTCQWriteAdvanceOne` with its caller's retry,
`RTCQRead`, `RTCQReadPos` with `RTCQReadDone`, `RTCQClear`, and the
room-then-write sequence of `RTSPIDoTransfers` (`BatchCall`) are the calls. Each
element copied is a step. A failed assert leads to `abort`.

`ImplementsFifo` maps the ring to `Fifo`: what is between `readTail` and
`writeHead` is the queue, what the current write call has not yet put is the
input, what the current read call has consumed is the output. The two
positions' stores are the linearization points; all other steps stutter.

### RTask, RTLock, RTSleep

`RTask` has the kernel's state and each operation's effect as an action on it;
`RTLock` and `RTSleep` give every client task a program counter and split the
thread code at each access to shared state, guarded by `Runs(t)`: the task is
`curTask` and PendSV is not pending. `Interrupt(t)` is a handler that wakes any
task at any instruction. In `RTLock` clients also wait for events inside and
outside their critical section, so that tasks of every priority get to run at
every point.

Counters are modulo `2 * Half`. `burst[t]` is not in the code: it counts the
wakes since the task's last `RTGetWakeCount` and serves to bound them by
`MaxBurst`, because the code's arithmetic holds only for fewer than `Half + 1`
of them: `IncrementWakes` moves the threshold along only when the difference is
exactly `INT8_MIN` (`arm/rtisan_task.c:143`). In `RTSleep`, `left` counts
the ticks still owed to a sleeper, and `Tick` waits while an awake sleeper is
`MaxLag` ticks late, without which the signed difference of the tick counter
could be exceeded.

`TaskToRun` states which task the scheduler must find; `Scan` and `LoopToRun`
are the loop of `RTTaskToRun`, and `LoopFindsBest` says that the two agree. PendSV
uses the former.

### Heap

Callers race through the load, the test and the compare-and-swap. `blocks` is
what was handed out. Sizes and positions are modulo `Wrap`, 2^32 in the code, so
that sums wrap as the code's do; the runs and the theorems use sizes for which
they do not (`NoWrap`). Nothing in the code excludes others: the test
`size < 0` (`arm/rtisan_heap.c:29`) is on an unsigned type.

### TaskTable, DIO, Board

`TaskTable` is `RTTaskCreate` as the code is written: a search for a free entry,
two calls of the allocator of which the first is for nothing, the record, the
frame, and the entry last, behind a barrier. Each of these is a step, and any
listed task may run at any of them, since the table has no lock. The allocator's
callers are the tasks. A creator that gets no memory writes through NULL, which
stops the machine (`fault`). `overlap` is a history variable: the tasks whose
creation met another one. Two creators that overlap may fill the same entry,
and one task is lost; `TasksListed` says that this is the only way to lose one,
and that all of main's tasks are there before the first switch.

`DIO` has one port. `ODR` changes through `BSRR`, one pin in one store; `MODER`
by a read and a write of the whole register (`DIO_SETREG_TWOWIDE`), as the other
configuration registers do. Who sets up pins has a queue of init tags (`pins`);
`DIOInit` takes the next and becomes the list of changes it makes, and users make
theirs at any pace. `raced` is a history variable: the pins whose changes
overlapped, against which the comment at the macros warns
(`arm/inc/rtisan_dio.h:249`). `WiringAssumption` is the board's wiring: a pin is an
LED's or one task's, and an LED is one task's.

`Board` starts both as `main.c` does, heap, LEDs, the pins that the USB set-up
initialises, tasks, ticks, and then lets the tasks create others, allocate, set
up pins as the SPI drivers do, and use an LED each.

### SPI, SPIF3, SPIDMA

`SPI` has the steps of `RTSPIDoTransfers` (`Call`, `Lock`, `Room`, `Put`,
`Unlock`) and, as operators, the code that both drivers contain word for word:
taking the next transfer, completing one, the chip selects. The lock and the
ring are what the modules above show them to be, exclusion in one step and a
queue; a list appears in the queue in pieces, as `RTCQWrite` publishes it. A task
posts again when its last list is completed, as it must before it touches those
transfers, and two tasks do not share a transfer (`ListsAssumption`).

`SPIF3` adds the interrupt driver and the peripheral it talks to: FIFOs of four
bytes and the byte on the wire. Its handler is not one step, because the
peripheral moves on between any two register accesses; each byte read or
written is a step. The interrupts are level triggered: while one is enabled and
asserted, the handler is entered again and no task runs. The one exception is a
task's store right behind the one that enables the interrupt, which may get out
before it is taken (`EnableSPI`).

In `SPIDMA` the handler is one step, as no hardware is at work while it runs: a
transfer is under way or done. The search for the clock divider and its cache
are modelled, because the cache carries state from one transfer to the next; its
halvings are exact, since `refClock / 2` is 18 or 36 MHz, multiples of the largest
divider (`SpeedAssumption`). After a failed assert nothing moves any more.

Names that both drivers of a core would use begin with `DMA` in `SPIDMA` and with
`CDC` in `CDC`, so that one module of proofs can extend both.

### Stream, CDC

The two directions of a stream have the same structure, so `Stream` has one
control flow (`Lock`, `Announce`, `GetWakeCount`, `Put` or `Get`, `CallBack`,
`Test`, `Wait`, `Unlock`) for sends and receives, with the direction in the
call. The rings are queues and a call moves bytes in pieces, as `RTCQWrite` and
`RTCQRead` do; the lock is one step; of a wake counter only "woken since
`RTGetWakeCount`" is left, which is what `RTWait(wc + 1)` asks as long as the
counters' arithmetic holds (see `RTask`).

`CDC` adds the interface's flags, the steps of `CDC_StartTx` and `CDC_StartRx`
when a task executes them through a callback, the handler in one step, and the
endpoints: a packet is taken by the host at some time, and when the interface
has asked for one, one arrives. The host configures the device, which sets the
callbacks, once and at any time. `CDCSendIsFifo` and `CDCReceiveIsFifo` map each
direction to `Fifo`: bytes leave the first when the host takes them, enter the
second when the handler is given them, so bytes in packets are accounted for.
`OutOffset` is how far apart `USBD_LL_Init` lays out an interface's two packets
in packet memory, and a packet that is written overwrites what it reaches into:
0x40 for the second interface, whose packets of 64 bytes are then apart
(`Apart`), 0x30 for the first, whose full ones overlap. `PacketsKept` says that
a packet stays what it is until the host or the handler has it. It holds of the
second interface, where it is part of `CDCReceiveIsFifo`, as is that a packet
which arrives finds room for all of it; it does not hold of the first
(`cdc_first`).

The lock of a stream is one step, which is what `RTLockLock` does as long as it
refuses nobody. `RTStreamSend` and `RTStreamReceive` do not look at what it
returns, nor does `RTSPIDoTransfers`, so `CDC` and `SPI` assume no more tasks
than there are waiter slots (`SlotsAssumption`), for which `SlotsSuffice` of
`RTLockProofs` excludes a refusal. What a fifth task does, which goes on without
the lock, is shown by the mutant of `MutualExclusion`. On Linux the lock is a
mutex, and there is no such bound.

### LinuxTask, TCP

On Linux a task is a thread, and all of them run at once. What is done under a
task's mutex is one step; `pthread_cond_wait` gives the mutex up, and may return
for no reason (`SpuriousWake`). The main thread is the clock: `RTGo` counts a tick
and goes through the table, one entry a step, stopping before the last one, so
that a task in entry `TASK_MAX` gets no ticks. `RTTaskCreate` publishes the entry and starts the
thread in two steps (`ListEntry`, `StartThread`); its comment calls it racy. Two
things are assumed of it. Creators follow one another: the callers in the
repository are main and what main calls, and the last task that main starts has
nobody to meet. And the thread finds its handle in the table when it runs: the
C library stores it before it starts the thread, which POSIX does not demand.

`TCP` puts `Stream` on these threads. `Stream` knows only whether a task was woken
since its `RTGetWakeCount`; here its `Wait` is the step in which the real `RTWait`
returns, and `WakeIsSeen` says that the two agree: a task that waits gets through
`RTWait`'s test, before `pthread_cond_wait` or in it, exactly if it was woken, and
it is not left in `pthread_cond_wait` then. The driver is the task of
`rtisan_tcp.c`, one step per call: accept, read and write on the socket, the
zero-copy calls on the rings, `WakeRX` and `WakeTX` (which read the waiting
task and wake it in two steps), and a sleep after a round that did something.
A connection may break at any moment; what the driver wrote is then lost with the
socket, what it read is not. The driver does not look at the socket while the
receive ring is full, and spins, without a sleep, while there is nothing to do.

## Runs

| run | instance | states | shows |
|---|---|---|---|
| `circqueue` | ring of 4, buffers of 0, 2 and 4 elements of 2 values, reads of 0, 1 and 4 | 790,000 | asserts, disjoint slots, promises kept, FIFO, calls return |
| `rtlock` | 3 clients (two of one priority) and the idle task, 2 slots, clients that check for refusal, counters of `Half` 2 | 239,000 | exclusion with refusals, scheduling, no stranded waiter, a free lock is taken |
| `rtsleep` | 2 sleepers of 1 or 3 ticks, clock about to wrap, 16 tick values | 180,000 | length of sleeps, no wake puts to sleep, ticks reach sleepers, sleeps end |
| `board` | main, 5 tasks of which 2 create one more each, 4 entries, 80 bytes, 5 pins, 2 LEDs | 179,000 | disjoint blocks, no half-made task, tasks lost only by overlap, LEDs, pins, creations return |
| `cdc` | 2 tasks, packets of 2, queues of 2 and 3, sends of 1 and 3, receives of 3 | 318,000 | delivery in both directions, calls return |
| `cdc_start` | the same | violation | see Findings |
| `cdc_first` | packets of up to 4 bytes laid out 3 apart, queues of 4 | violation | see Findings |
| `tcp` | the driver and one task, sends and receives of 2, rings of 2 and 1, chunks of 1, a socket that takes 1, sleeps of 2, `Half` 2, 8 tick values | 807,000 | delivery in both directions, no wake missed, calls return |
| `spif3` | 2 tasks, pairs and single transfers of 3 and 6 bytes, queue of 2 | 110,000 | asserts, lists together, no byte lost, one slave, lists complete |
| `spif3_short` | the same with a transfer of one byte | violation | see Findings |
| `spidma` | 1 task, lists of 0 to 3 transfers of 4 speeds, queue of 2 | 560 | asserts, clock rate, lists complete |
| `spidma_start` | 2 tasks | violation | see Findings |

Why these bounds are enough. A ring of 4 slots holds 3 elements: a buffer of 4
never fits, one of 2 wraps or not depending on the positions, and all position
pairs occur. Three clients are the fewest among which one can hold the lock
while two of different or equal priority wait; with 2 slots for them a slot can
be freed and taken behind a scan, and a client can be refused. In the lock and
the sleep runs `MaxBurst` is `Half`, so that a burst of wakes brings an awake
task's counter to the edge of the signed difference, which is the special case in
`IncrementWakes`. Sleeps of 3 ticks are longer than
`MAX_SLEEP_CHUNK`, which is `Half - 1` = 2 there, and the clock wraps within the
first sleep. A transfer of 3 bytes fits in the transmit FIFO with the interrupt off
again, one of 6 needs the handler to come back; a queue of 2 takes a pair when it
is empty and refuses it when one is waiting; the lists hold a slave selected
across a transfer to the same and to another slave, and across lists. The four
speeds are met in rising and falling order, with the cache above, below and
equal. In `cdc` a send of 3 exceeds the queue and a packet; a receive of 3 needs
two packets and leaves a byte of the second, which leaves no room for a third.

In `board` there are five tasks for four entries, and 80 bytes do not hold all
records twice and what the tasks allocate: creations are refused for want of an
entry, meet on one entry and lose a task, and run out of memory, alone and
while another one is under way, and pins race. `PosWrap` is 8 in the runs of
`SPIF3`, above their longest transfer. Those of `CDC` and `SPI` allow 4 tasks, as
the code's slots do.

In `tcp` what is sent exceeds the socket, and what is received the ring and a
chunk, so writes are partial and a receive needs several rounds. `MaxTraffic`
bounds the bytes on their way: a task or the peer begins to send only what
`RoomFor` lets in. At 2, bytes of one direction meet bytes of the other; the
theorems hold for every value.
`RoomForWake` keeps wakes between `RTGetWakeCount` and `RTWait` in
reach of the counter, as `MaxBurst` does on the ARM; `RoomForTick` keeps a sleeper
that can run from being `MaxLag` ticks late. `TASK_MAX` is 3, so that neither of the two
tasks is in the entry without ticks. A sleep of 2 takes two chunks.

Where a configuration has a VIEW, it identifies states that differ only by a
shift of a task's counters, of which the code only takes differences, or in a
local that will be written before it is read; it is explained where it is
defined. Deadlock is checked in every run but `board`, where a fault stops the
machine and where tasks may run out of things to do.

Fairness. In `CircQueue` a side that has begun a call goes on (weak fairness of
its steps); nobody has to begin one. In `RTLock` and `RTSleep` pending
exceptions are taken and the timer ticks (weak fairness), and a task that gets
the processor again and again executes its next instruction (strong fairness of
its steps): handlers do not take all the time. There is no fairness between
tasks, as there is none in the code; `LockIsTaken` therefore does not say who
takes the lock, and `SleepEnds` is about tasks of the highest priority. Both
assume that handlers stop waking tasks at some time, so that progress cannot be
owed to them. In `Board` a task that creates others is given the processor.
In `SPIF3` and
`SPIDMA` the hardware and the handler go on, and a task gets the processor as in
`RTLock`; the task that holds the lock therefore starts the driver eventually.
In `CDC` moreover the host configures the device, takes packets and sends them:
a blocking call of the code waits for ever without.
In `TCP` every thread runs (weakly fair, strongly where a mutex or the bounds
may hold it back), and the peer connects, sends and takes. `CallsReturn` there
assumes that connections stop breaking, and is not about sends that block: the
driver sets no callback, for which the streams of `main.c` wait
(`blockUntilCallbacks`), so such a send never returns. That a task is again and
again not in such a call (`[]<>~Busy(t)`) is the same as that each call ends.

## Findings

- `spif3_short`: `BeginTransfer` enables the transmit interrupt
  (`arm/spi_stm32f3.c:114`) before it enables the peripheral (line 120). If the
  handler gets in between and the transfer has one or two bytes, all of them go
  into the FIFO, which is then still at most half full: the interrupt stays
  asserted, the handler is entered for ever and the task that would enable the
  peripheral never runs again. Transfers of three bytes or more fill the FIFO
  beyond the threshold, which is why `spif3` uses those.
- `spidma_start`: `RTSPIDMAF3InterruptsEnabled` looks at the transmit channel
  (`arm/spidma_stm32f3.c:216`), whose interrupt nothing enables; the one in use
  is the receive channel's. A second task that posts during a transfer gets to
  `NextMessage` and fails `assert(!periph->transfer)` (line 225). `spidma` has
  one task, for which the driver is idle whenever it posts.
- `cdc_start`: `RTStreamSend` reads `txCb` once to call it
  (`rtisan_stream.c:164`) and once to decide whether it may return (line 172).
  If the host configures the device in between, it returns without having
  started a packet. The wake that `RTStreamSetTXCallback` gives it "so they can
  wake the transmitter" (line 135) is lost, and the bytes wait for the next send.

- `cdc_first`: in the packet memory of the first USB interface
  (`usb/usbd_conf.c:211`) the IN packet, "Max size 64, 80-AF", has 48 bytes
  before the OUT packet at 0xb0. An OUT packet that arrives while a full IN
  packet waits for the host replaces its end: the host receives bytes that no
  task sent. The run has the same layout in small, packets of 4 bytes 3 apart.

Seen while modelling, without a run of their own:

- `wokeSomeone = wokeSomeone || RTWake(task)` (`arm/rtisan_task.c:532`) stops
  waking at the first wake that succeeds. A waiter of higher priority in a later
  slot stays asleep while a lower one takes the lock; the comment above the code
  (line 502) wants all waiters woken. Nobody is left asleep on a free lock
  (`NoStrandedWaiter`).
- `txPos` and `rxPos` are `uint16_t` (`arm/spi_stm32f3.c:19`) and `xferLen` is
  an `int`: a transfer of 65536 bytes or more wraps them, fails the assert at
  line 177 and never ends. `SPIF3` has positions that wrap at `PosWrap`; its
  theorems about asserts and order assume lengths below it (`LengthsFit`).
- `RTTaskCreate` allocates a record twice over and looks at neither
  (`arm/rtisan_task.c:81`).
- The assert of `linux/rtisan_tcp.c:52` assigns (`errno = EINTR`), and so always holds.
- On Linux the task in the last entry of the table gets no ticks
  (`linux/rtisan_task.c:140`): its sleeps do not end by themselves.

## Proofs

All theorems are checked by TLAPS with no assumption but the named ones of the
modules, which say what the code guarantees about its parameters, and those that
a theorem itself names.

`CircQueueProofs`: the inductive invariant `Inv` is the type invariant plus, for
each control state of a side, how its stale amount relates to the present
positions: what the writer works with is at most the room there is now, since the
reader only makes room, and dually for the reader. The room is counted along
the ring (`Distance`), so one lemma on `AdvanceByN` covers wrapped and unwrapped
positions. From it follow the asserts (`AssertsHold`), the promise of
`RTCQWritePos` (`PromiseKept`) and the disjointness of what the two sides touch
(`NoSharedSlot`), for every ring size. `BatchTakenWhole` adds `BatchInv`: what is
left of a batch never exceeds the room; it did not when `RTCQWritePos` was
looked at, and only the writer takes room away.

`Refinement`, also there: every step of the ring maps to a step of `Fifo` or a
stutter. The invariant added to `Inv` is about data (`DataInv`): what the writer
has copied behind `writeHead` and not yet published is the next part of its
buffer (`WData`), and what the reader has copied and not yet released is the
part of the ring that it came from (`RData`), so that the store that publishes
appends exactly the former and the store that releases takes exactly the
latter off. The lemmas give the places of a ring's elements after either
position moved.

`RTaskProofs` are the kernel's lemmas: `RTTaskToRun` returns a task, an awake one of
the highest priority, which rests on the existence of a least element
(`LeastExists`), and `IncrementWakes` keeps an awake task awake and brings one
that is asleep a step nearer, unless its counter is `INT8_MIN` from the
threshold, a place it is never brought to (`NotAtEdge`). `LoopIsBest` is about the
loop of `RTTaskToRun`: after n entries it has the first of the best awake tasks
among them, the running task before its equals. The claim is made of every n by a
least counterexample (`LeastExists` again), because the induction theorems of the
library cannot be instantiated.

`RTLockProofs`: `Exclusion` is the
compare-and-swap plus the fact that nobody enters the critical section without
it, which holds if clients look at the return value or if the slots suffice.
`SlotsSuffice` is the hard one: each client owns at most one slot (`OwnSlots`),
and a client looking at slot i has found the i - 1 before it taken once, by
clients that have not been refused either. The invariant (`FewReach`) counts
them: for each i the clients that own a slot from i on or are looking from i on
number at most K - i + 1 with K clients, and every step either keeps the count
or moves one client past a slot that another one owns.

`BestRuns` and `NobodyStranded` there need the counters, so they assume `FewWakes`:
`MaxBurst`, the bound on wakes between a task's `RTGetWakeCount` and its `RTWait`,
leaves room for one wake by each of the other clients and is within the `Half` that a
signed difference can tell from a sleep. The invariant (`WakesInv`) is a budget
(`Counts`): the wakes since a task took its count, and those that clients in
`RTLockUnlock` may still give it (`Wakers`), are at most `MaxBurst`, and its counter
shows exactly the former. The budget holds because a client wakes another at most
once per unlock while that one is between the two calls: when it could come back
to the same slot, the other one has run. That rests on the priorities:
a task in the middle of its code is only preempted by one the scheduler prefers
(`Preempted`), hence who is about to be woken by a task that is not preferred to it
has not run since its slot was read (`SlotStays`). For `NobodyStranded`, everyone who
queues has a slot (`HasSlot`), and while the lock is free each client that sleeps or
is about to finds somebody who will try the lock of his own accord or whose scan has
yet to come to it, with nobody before it who would end the scan and go on sleeping
(`FreeLock`).

`RTSleepProofs`: `NoShortSleep` follows from `ClockAhead`, the ticks still owed to a
sleeper are the distance of its completion from the clock, which the loop tests
as a signed difference; it needs nothing of the wakes. The other three
assume `FewWakes`: between a task's `RTGetWakeCount` and its `RTWait` come at
most `Half` wakes (128 in the code, that is, ticks and wakes by handlers
while the task runs a few instructions). `TaskWakes` then follows the argument of
`RTWait` through the loop: every wake since it was computed has brought it nearer
(`Minus`), so the threshold that is set is at most `remain` wakes away and not on
the wrong side of the counter (`SleepersAreTicked`); that only `RTWait` leads to sleep
(`WakesNeverLost`) and that the best awake task runs (`BestRuns`) are part of the
same induction, because a task that is asleep but runs would break it.

`HeapProofs`: with sums that do not wrap (`NoWrap`), a position a caller loaded
is at most the present one, and its block fits; a compare-and-swap that succeeds
therefore puts its block exactly behind the last one. The same invariant gives
disjointness and tiling (`NothingLost`).

`BoardProofs`: to the allocator every step of a board is one of its own or a
stutter (`HeapStep`), so the heap's invariant carries over
(`BoardSharesNoByte`). `OnlyReadyTasksListed`: each function is created once
(`CreatesAssumption`), hence what is listed, being created and still to be created
are disjoint, and no two creators make the same task (`OncePerTask`); a creator's
writes thus go to a record that no entry points to, and the entry is set when
the record is complete (`Made`). It does not need the entries to be distinct: two
creators may fill the same one, and the one that stays points to a complete
task. Its id is the entry, since both have it.

`CreatedTasksListed`: a function that has its frame is listed, overlapped, or
being created (`Kept`). When a creator that met nobody stores its record, its entry is
still free, because whoever filled it since the search would have met it
(`Overlaps`, `Targets`). For main's tasks the invariant is stronger: before the
first switch nobody else creates (`MainOnly`), and the first k entries hold the
first k of main's tasks, with creation k + 1 at the step it is at (`MainFills`). It
needs that the table has room for them (`MainFits`), as the one of `main.c` has.

`LEDsRight` and `PinsRight` share `PinInv`, which says of everybody who changes pins
what is left of his list: the rest of one `DIOInit`, which ends by putting the pin
into its mode, or one toggle. An LED's level is right before its pin becomes an
output and from then on (`LevelOK`), since its level is written first and the toggle's
store is computed from what only its owner changes. For modes, two users who are
both between the read and the write of `MODER` have raced (`Races`), so what one of
them has read of a pin that did not race is still what is there, and writing it
back changes nothing. `BoardTypesCorrect` adds the ranges of ids, positions and program
counters, with sums that do not wrap.

`SPIProofs`, on the driver with interrupts: the bytes in the peripheral (`OnWire`) are those sent and not
received, and there are none between transfers (`Quiet`). The handler sends a
byte only with at most two in the transmit FIFO and none to be read, so with the
one being shifted there are at most three before and four after, which is the
size of the receive FIFO; the wire only moves bytes from one place to another as
long as there is room, and there is (`NoByteLost`). `RightSlaveOnly` rests on the
driver's own bookkeeping (`ChipInv`): the one pin that is low is that of the slave it
believes selected, and a transfer in progress has selected its slave. Both hold
for all lists, lengths and tasks, and for states after a failed assert.

The order of transfers is about one sequence, `Ahead`: the transfer in progress,
the queue, and what the task in `RTCQWrite` has yet to put. Publishing a piece of a
list, taking the next transfer with nothing in progress and everything the
handler does on the wire leave it as it is; completing a transfer takes its head
off; admitting a list puts the list behind it (`PutAhead`, `StartAhead`,
`FinishAhead`, `AdmitAhead`). What is ahead is not completed, comes once, and is of lists
that were admitted, so lists stay together under both changes (`Order`, with
`DropOrder` and `ExtendOrder`) and only the head can be dispatched, exactly when it
is in progress (`Dispatch`). From it follow the asserts on what is taken and completed; the
others follow from `Driver`: the interrupts are on while a transfer is in
progress, nobody is about to start the driver then, and no more bytes are sent
than the transfer has (`NoAssertFails`, `ListsStayTogether`). The last needs
positions that reach the transfer's length, so these theorems and
`F3TypesCorrect` assume it (`LengthsFit`). `F3TypesCorrect` adds
`RingFits`: what is in the ring and what the task that puts a list has left never
exceed the ring, since the one who puts holds the lock and the handler only takes.

`SPIProofs`, on the DMA driver: nothing of the argument about lists and chip selects
depends on the driver, so `DMAListsStayTogether` and `DMARightSlaveOnly` take it over.
They need that bytes move only for a transfer in progress, and not while the
interrupt of the last one is pending (`Clocked`). `SpeedIsHonoured` rests on an
invariant of the cache (`Found`): `lastSpeed` is the reference speed after exactly
`lastScaler` halvings, and fewer would have been too fast for the speed last asked for,
hence for any lower one, from which alone the search goes on (`MayGoOn`). Both hold
of the start of every search, so the first speed found is the highest allowed
(`Search`); the powers of two are a table (`Divider`), as the provers know nothing of
exponentiation. `NoAssertFailsAlone` assumes what `spidma` has and `spidma_start`
has not, that one task posts (`OnePoster`), and that every speed can be reached with the
three bits of CR1 (`SpeedsInReach`), which is the assert's own claim
(`arm/spidma_stm32f3.c:127`). While that task is admitting a list nothing is ahead
(`NothingLeft`: it waited for its last list), and until it starts the driver nothing
moves that would take what it has put (`Alone`).

`StreamProofs`, on streams with the TCP task as their driver. The invariant of
`TypesCorrect` adds to the types what makes them inductive: what the driver found in
a ring, bytes or room, is still there when it uses it, because tasks only take
from the one ring and put into the other (`Places`); a thread in a call of the stream
is in `RTWait` only where the stream waits, and gets no ticks there (`Modes`); nobody
in `pthread_cond_wait` is awake (`BlockedAsleep`); and ticks wake a thread only
between the two stores of `RTSleep` (`Marks`).

`WakesAreSeen`: from `RTGetWakeCount` on, a task's counter is one short of the
count it will wait for, until it is woken, and has passed it from then on
(`Counts`). Both must be read as signed differences, which wrap:
`ConsiderPlus` says what one more wake does to one. Once the task is in
`pthread_cond_wait`, `RTWake` moves the threshold along when they are as far apart as
they can be. Before that, it is the caller's count, which nothing moves, so the
theorem rests on `RoomForWake`: after the first wake come at most `Half` more (128
in the code) between a task's `RTGetWakeCount` and its `RTWait`.

These theorems, like the next two, are about bytes in both directions at once, in
any amount, and have two named bounds: `RoomForWake`, and `RoomForTick`, which
keeps a sleeper from being late by half the clock.

`SendsInOrder` and `ReceivesInOrder` map each direction to `Fifo`. The input of the
first and the output of the second are buffers of a call, hence of whoever holds the
direction's lock: a call past its lock holds it, who holds a lock is in such a
call, and a receive that waits for its lock has received nothing (`Locks`). Bytes
leave the first queue when `write` takes them, which is before `TXDone` removes
them from the ring (`SentQueue`); they enter the second when `read` puts them into the
ring, which is before `RXDone` publishes them (`ReceivedQueue`). In between tasks
put into the one ring and take from the other, and by `Places` what `TXDone` removes is
what was written, and what `RXDone` publishes fits.

`StreamProofs`, on streams over USB: `CDCSendsInOrder` and `CDCReceivesInOrder` map
each direction to `Fifo` in the same way, with the bytes of packets counted in. The
handler is not a thread, and a packet is started by it or by a task, so the places
of the TCP driver are replaced by flags. The invariant (`CDCInv`) says for each
direction who may touch what: the lock keeps other tasks away (`Locks`), and
`txInProg` or `rxInProg` keeps the handler away from a task that is about to
start a packet, and the task from a packet that is under way (`StartsTx`, `StartsRx`).
A packet that was handed over is the front of the send ring, and stays it until
the handler removes it, because tasks only add to the back (`TxPackets`). A packet is
asked for only when the receive ring has room for the largest one, and only
the handler fills it, so when one arrives it fits (`RxPackets`). What arrives is what the
handler reads, and what a task hands over what the host takes, because in the
packet memory the two packets do not overlap: the three theorems have the
hypothesis `Apart`, and are about the second interface. `CDCTypesCorrect` is the
rest of the same induction.

Out of the prover's reach, and only model-checked, is liveness: `CallsReturn` of
`CircQueue` and `TCP`, `CDCCallsReturn`, `LockIsTaken`, `SleepEnds`, and what is said of
lists and creations that end (there are no rules for fairness here). Every invariant
and every safety property of a step or of an order that a passing run checks is
also a theorem, for every value of the constants that the named assumptions, and
where it says so the theorem's own hypotheses (`FewWakes`, `NoWrap`, `OnePoster` and
the like), allow.

## Not modelled

- The asserts of the interrupt driver on a slave's number (`Select`) and on the
  clock scaler, which look at one transfer of the caller's and at no state:
  transfers name slaves that exist and speeds in reach.
- The context switch itself (registers, stacks), byte offsets in rings, and the
  set-up of peripherals.
- Flash (`arm/rtisan_flash.c`): sequential, keeps no state, called by nothing here.
- Timers (`arm/timer_stm32f3.c`): registers written once, no behaviour over time.
- USB descriptors, which are tables, and the rest of `usbd_conf.c`, which passes
  calls on between the USB library and the HAL; neither of the two is in the
  repository. For the same reason a second configuration by the host is not
  modelled: what happens to a packet under way is the library's.
- `PUPDR`, `OTYPER`, `OSPEEDR` and `AFR` of the pins, which are changed as `MODER`
  is, with the same race. `INIT_DIO_ALTFUNC_IN` makes a tag of the output kind
  (`DIO_PIN_ALTFUNC_OUT`), so the pull it is given is not applied.
- `RTStreamGetTXChunk`, `RTYield`, and the Linux `RTLockTryLock`, which nothing
  calls. Locks on Linux are pthread mutexes.
- Start-up code, clocks, interrupt priorities, console: straight-line code before
  or beside the above.
- Weaker memory than one processor's: on Linux what is shared without a mutex
  (`ticksCreateWakes`, the streams' waiting task) is taken as sequentially
  consistent.

## Plan

Done: the ring and its refinement, the kernel, locks, sleeping, the heap, task
creation, pins and LEDs on a board that starts up, SPI with both drivers,
streams with USB and with TCP as the driver, tasks on Linux. Left:

1. A composition of a lock's clients with sleepers, in which ticks and unlocks
   wake the same tasks.
2. The other configuration registers of a pin, once there is code that changes
   them while tasks run.
