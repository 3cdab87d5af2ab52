# ETA/OS in TLA+

ETA/OS is a small preemptive kernel for AVR microcontrollers: a scheduler with
exchangeable classes, event queues, mutexes and the other locks built on them,
soft timers, interrupts, a heap, a small virtual file system and drivers. This
directory specifies its kernel, its clocks, its file system and its buses, and
checks them with TLC and TLAPS.

## Inventory

| component | state | operations | what is hard |
|---|---|---|---|
| scheduler core (`kernel/sched/core.c`) | per CPU: `current`, run queue, `num`, wake list, kill list; per thread: flags, `on_rq`, `prio`, `preempt_cnt` | `schedule`, `preempt_schedule(_irq)`, `sched_yield`, `rq_add_thread`, remote kill | entered from threads, from `preempt_enable` and from the tick interrupt; interrupts are off only in parts of it |
| threads (`thread.c`) | flags, stack, `joinq` | `thread_create`, `kill`, `thread_destroy`, `join`, `wait`/`signal`, `yield`, `nice`, `sleep` | sequences of flag writes with preemption enabled; who frees the stack of the running thread |
| event queues (`event.c`) | `qhead` (a list of threads, or `NULL`, or the token `SIGNALED`), `ec` of the head | `event_wait`, `raw_event_wait`, `event_notify`, `event_notify_irq`, broadcasts, timeouts | a notification before, during and after the wait; a timeout that races a notification; events counted in whichever thread is at the head |
| classes (`fifo.c`, `rr.c`, `rr-shared.c`, `edf.c`, `lottery.c`) | the run queue's order | insert, remove, next runnable | the hand-over of pending events; priorities; deadlines that are renewed at each insertion; a draw that must end |
| mutex, semaphore, condition, ipm | a counter and an owner; a counter; a mutex and a queue; a ring | lock, unlock, wait, signal, post, get | they have no lock of their own and rely on `preempt_disable` and the event queue |
| timers (`kernel/time`) | the list of timers of a clock source, tick count | create, stop, process, tick | processed in `__schedule`, on behalf of any thread; handlers run in the middle of the walk |
| system time (`time.c`, `lib/crt`) | seconds, cached transition dates | `time`, `stime`, `gmtime_r`, `localtime_r`, `mktime` | the cache; 16-bit arithmetic; months out of range |
| interrupts (`kernel/irq`) | table of handlers, threaded handlers | register, handle, wake the handler's thread | an interrupt that comes while its thread runs |
| heap (`mm`) | the free list in the heap itself | alloc (three fits), free, add block | splitting and merging |
| file system (`fs`) | descriptors, directory tree, ram files | open, close, read, write, lseek, mkdir, readdir, unlink | an open that waits for a device half-way; a file's length and buffer |
| drivers (`drivers`) | device list, bus transfers | open, transfer, ISR | an ISR that completes a transfer before the thread waits for it |

How they interact: every blocking call ends in `raw_event_wait` or in `sleep`,
both of which leave a timer or a place in a queue behind and call `schedule`.
Every wake-up is either a thread in `event_notify`, the expiry of a timer or an
interrupt that counts an event (`event_notify_irq`), and the last two take
effect only when some thread next enters `__schedule`, which runs the timers and
then the wake list (`rq_signal_threads`). The components share the thread's
flags and the queues; they communicate by nothing else.

What makes them correct: no thread that is alive is ever out of reach of
everything that could wake it; no event an interrupt posted is dropped while
somebody waits for it; a blocking call returns only when it should; a thread's
stack is freed exactly when it can no longer run; locks exclude, and strand
nobody. `PROJECT.json` lists under "hazards" the lines where this could break.

## Modules

### The scheduler and what is built on it

* `Sched` models `core.c`, `thread.c`, `event.c`, the FIFO and round-robin
  classes, `clock.c`, and the timers and preemption counters they use. One
  thread runs at a time (`current`). `sc[t]` says how far a thread is in
  `schedule()`: `enter` (called, not yet locked), `clock` (running timers, IRQs
  off), `signal` (walking the wake list, IRQs off), `tail` (switched back in or
  kept: kill list and remote kill), `bcast` (the broadcast of a remote kill).
  `pc[t]` says how far it is in an API call, with one label for each point at
  which another actor can see or disturb it. Code with interrupts off is one
  action, apart from the loops over timers, the wake list and a broadcast, which
  take one action a round. `isr[t]` marks a thread whose scheduler run belongs to
  a tick interrupt, and the phase the interrupt goes back to; `irqExec` and
  `cpuState` are `CPU_IRQ_EXEC_FLAG` and what a context switch saves of it.
  A queue is the sequence `queue[q]` plus `q \in sig` for `SIGNALED`. Timers
  carry the ticks they have left instead of an absolute time stamp.
* `Classes` models `edf.c` and `lottery.c` under the part of `core.c` that calls a
  class. An entry of `__schedule` is one action; the run queue is a sequence,
  deadlines are absolute, tickets are numbers in the lists of the pool and of the
  threads, in list order. A draw is a choice among the threads on the queue that
  hold a ticket, because the code draws until it hits one. The kernel that was
  built (class, `CONFIG_PREEMPT`, `CONFIG_SCHED_FAIR`) is the variable `config`,
  so that one run has them all.
* `Mutex` is `mutex.c` on top of `Sched`: it EXTENDS it and calls its actions, so
  every interleaving of the scheduler and of interrupts is there. `AbstractLock`
  is the recursive lock a mutex promises to be.
* `Semaphore`, `Condition`, `Ipm` are the other services, each with a label for
  every point at which another thread or an interrupt may come in: the load and
  the store of a semaphore's counter, the unlock and the wait of
  `condition_wait`, the reservation of a slot of the message ring and its
  filling. `AbstractFifo` is the bounded queue `ipm.c` promises to be; `got`, the
  message handed out last, is a history variable.
* `Bus` has the interrupt-driven transfers: the I2C master with every state of its
  interrupt handler, SPI, and the receiver of the USART. The hardware is
  external: it answers each command with one of the states the data sheet
  allows, lost arbitration and refused bytes too. Timeouts and the retries of
  `i2c_bus_xfer` and `spi_transfer` are those of the code. `FastBus` says that the
  hardware is done before the timeout, which in the code is 500 ms.
* `IrqThread` has threaded interrupts: the request, the hard interrupt that puts
  the thread on the run queue, the loop of `irq_handle_fn`, and software triggers,
  which write the levels of the code to the pin. The interrupt flag of the hardware
  stays set until the interrupt is taken.
* `Ipc` composes the six on one scheduler: an application picks a service (`uses`)
  and its threads call it in every order. The thread calls that are not about the
  service (`yield`, `thread_create`) go on between.

### Beside the scheduler

* `Heap` is `mm/heap.c` with its three comparators, and `krealloc`. `free` is
  `mm_free_list` as a sequence of nodes (address and size, in bytes), `used` the
  nodes callers hold, with the size each asked for. Every `mm_` call holds
  `mlock` with interrupts off and is one action; a call that returns NULL or
  -EINVAL changes nothing. `krealloc` allocates in one action and gives one of
  the two nodes back in another, with other callers in between.
* `Timers` has the lists of two clock sources: the soft timers of the system clock
  and the high resolution timers, which run in their own interrupt. A walk over a
  list is one action a timer; a handler may create and stop timers of the other
  source meanwhile. Whoever creates a timer reads the tick and fills the timer in
  (`CreateRead`), and comes to the lock of the list later (`CreateInsert`): ticks,
  interrupts, whole walks and other threads come in between. In a handler, where
  nothing else runs, both are one action. Time is absolute, and `interval` has the
  width of its type. `bound` and `fresh` are history variables.
* `Calendar` is `time.c`, `gmtime.c`, `localtime.c` and `mktime.c`: dates are computed
  as the code computes them, step by step, with the cache of transition dates as
  state. An hour has `HourSec` seconds, a constant, which leaves all of the
  arithmetic of days and years as it is. `Clock` composes the two.
* `Vfs` is the file system with the calls of `lib/crt` that use it (`open`, `close`,
  `read`, `write`, `lseek`, `mkdir`, `unlink`, `opendir`, `readdir_r`, `readdir`,
  `closedir`), ramfs, romfs, and device files with their locks. The kernel is
  cooperative there: a call runs until it returns or waits for the mutex of a
  device, which happens in the middle of `vfs_open`. A path is the sequence of its
  directories. `Rash` names what a caller may do that the code does not stand
  (see Findings); the run has none of it.
* `MCSched`, `MCMutex`, `MCIpc`, `MCClasses`, `MCHeap`, `MCClock`, `MCVfs` give TLC its
  threads, priorities, calls, regions and dates.
* `Sched_proofs`, `Mutex_proofs`, `Timers_proofs`, `Classes_proofs`, `Heap_proofs`,
  `Ipc_proofs` and `Vfs_proofs` hold the theorems about the module of that name;
  `Lists_proofs` has the lemmas about linked lists that they share.

The Kconfig options are constants: `PREEMPT`, `CLASS`. `Ops` is the set of API
calls an application makes, so that a run can leave out the ones whose defects
(below) would hide everything else. `PromptSwitch` assumes that a thread which
arms a timer is off the CPU before it expires.

## Runs

| run | question | bounds |
|---|---|---|
| `SchedEvents` | do event queues lose a waiter, a wake, an event or a timer? (FIFO, cooperative, ISR) | idle, main and two more threads; one queue; timeouts of 2 and 3 ticks, so that two timers can expire together or one after the other; at most 2 pending events |
| `SchedThreads` | do creation, death, join, sleep and signal lose a thread or a stack? (round robin, cooperative) | idle, main, two more threads, one of them more urgent; timeouts of 2 ticks |
| `SchedPreempt` | are the queues sound when the slice may end at any tick, and any interrupt may switch? | idle, main, one more; timeouts 2 and 3; a priority to change to; an ISR whose vector may or may not run the scheduler at its end; one pending event (`SchedEvents` has two) |
| `SchedClasses` | does a waiting thread get its turn by its deadline, and can every draw end? | three threads and idle; priorities 1 and 22, whose ratios are 10 and 21 ticks, and steps of 11 ticks, so that deadlines tie, cross and pass; 31 tickets at most, more than the pool of 20 |
| `MutexPreempt` | mutual exclusion and no stranded waiter under preemption; refinement of `AbstractLock` | four threads, locks nested twice |
| `IpcServices` | do semaphores, condition variables, message queues, buses and threaded interrupts lose a unit, a signal, a message, the end of a transfer or a wake-up? refinement of `AbstractFifo` | three threads and idle; one unit; a ring of two slots and two messages, so that it runs full, empty and round; a transfer of two I2C messages, one byte out and two in; SPI and USART lengths 1 and 2; two tries; one interrupt of each sensitivity. Two of the threads, and the two messages, are interchangeable, which the run uses as a symmetry |
| `KernelLive` | what must eventually happen | three threads, a queue an ISR notifies, the mutex |
| `HeapLists` | does the free list lose, duplicate or fragment memory, and does each allocator find the node it promises? | regions of 12, 8 and 6 bytes of which two touch; requests of 1, 3 and 5 bytes with the AVR's 4-byte header, so that nodes are split, taken whole and merged on both sides; alignment 4 |
| `Clock` | does a timer wait only for those ahead of it, and are dates right? | three timers of 1 and 2 ticks, up to tick 3, of which one may be under way between its reading of the tick and its insertion, so that it is late by up to two ticks; `unsigned int` of 1 bit, so that an interval wraps; every day of 1970, 1972, 2000, 2001, 2023 and 2058 at three hours, after the cache has seen other years; months moved by 0, 1 and -13 |
| `Files` | do descriptors, locks, copies, listings and buffers stay in step with what is open? | two callers; six directories, of which two are made; one ramfs file, one romfs file, the flash and one more device; a buffer of one byte and three places |
| `PreemptNotify`, `I2cNack` | expected violations, see Findings | three threads; one transfer |

Three contenders are enough for the cases that matter in a queue: a head, a
successor and somebody who comes in between; timers of two lengths give every
order of expiry; two pending events tell a hand-over from a loss. Two openers
are enough for a file: one that has it and one that waits.

`CHECK_DEADLOCK FALSE` is in `Files` only, where two callers that each hold the device
the other one wants wait for each other, as they would.

What the properties say is with their definitions. The deeper ones:

* `QueuesSound`: a live thread is on the run queue, running, or where something will
  wake it, exactly once, and the counters, timers and lists agree with that.
* `NoStrandedWaiter`, `SemNoIdleUnit`, `CondNoLostSignal`, `IpmNoStrandedReader`: nobody waits
  for what is there, unless its wake-up is already on the way.
* `ImplementsLock`, `ImplementsFifo`: refinements, with the whole scheduler below. The
  second names the step for each action of the abstract queue: a `Put` is the filling of
  a slot and nothing else, a `Take` is a get, which hands out the first message and
  removes it, a `Clear` is a reset, and no other step changes what is queued or was got.
  So a get that drops, repeats or exchanges messages is no `Take` and no stutter.
* `OkMeansEnded`: a caller that is told its transfer is over is told so of the transfer
  it started; the queue is left SIGNALED by every earlier one.
* `IrqServed`: an interrupt that finds its thread asleep is handled, and the handler
  runs for nothing else.
* `EdfInTime`: nobody that became ready after a thread's deadline runs before it.
* `TicketsSound`: tickets are conserved, and whoever is on the queue can be drawn.
* `OnlyForThoseAhead`: although the timer list is not sorted, a timer that was on it when a
  walk began, and still is when the walk is over, has not expired by the tick of the walk, or
  is held up by one that stood in front of it when it was inserted. What was put on the
  list since (`fresh`) is for the next walk: the tick its creator read may be long past.
* `FindRight`: every path there is leads `dirent_find` to its directory, whatever was made
  beside it, though the loop moves the variable its own end is computed from.
* `LocaltimeRight`, `MktimeRight`: dates agree with a definition of the Gregorian
  calendar and of summer time that shares nothing with the code's algorithm.
* `HeldWhileOpen`: the lock, the copy or the mutex that opening a file takes is held
  while it is open and no longer, although openers wait half-way.

### Fairness

`FairSpec`, `MFairSpec`: kernel code that is running goes on (weak
fairness: there is one CPU and nothing blocks in it); the tick is taken in the
end (strong: interrupts are disabled again and again, but a pending interrupt is
taken at the first instruction with interrupts on); a thread that keeps getting
the CPU calls `yield` now and then, and one that holds the mutex unlocks it
(strong: assumptions on the application, without which a cooperative kernel
promises nothing). There is no fairness of an ISR or of a call. Liveness is
checked for the cooperative kernel only: with `PREEMPT` a slice may end at every
scheduler exit, and the model would allow a kernel that does nothing but
reschedule.

## Findings

Two disagreements between the code and its comments are runs of their own:
`PreemptNotify` (`event_notify` reads `qhead` before `preempt_disable`, and
overwrites a waiter) and `I2cNack` (a byte the slave refuses ends the transfer
without an error, and `i2c_bus_xfer` reports all messages as transferred).

The following were confirmed with TLC by changing a cfg. No passing run meets them:
it is cooperative, has other calls, or assumes `PromptSwitch` or `Rash = {}`.

| where | what | how |
|---|---|---|
| `thread.c:357` "doesn't return untill it is signaled" | a slice that ends between the flag writes of `wait` consumes NEED_RESCHED, and `wait` returns | `WaitsForSignal`, `MCSched`, `Ops <- WaitOps`, `PREEMPT = TRUE` |
| `thread.c:279` "doesn't return" | the same in `kill` | `KillDoesNotReturn`, `Ops <- KillOps`, `PREEMPT = TRUE` |
| `thread.c:343` "until the thread terminates" | the thread dies between `join`'s test of EXIT and its wait, and the joiner waits for ever | `JoinEnds`, `Ops <- JoinOps`, `PREEMPT = TRUE` |
| `core.c:743` "Memory objects they own will be returned to the heap" | a thread that dies before `thread_init` sets SYSTEM_STACK keeps its stack | `StackReclaimed`, `Ops <- KillOps`, `PREEMPT = TRUE` |
| `core.c:1112` "removed from the system the next time the scheduler attempts to run it" | a destroyed thread that had been preempted by an interrupt never ends the broadcast to its joiners (`event.c:112`) | `RemoteKillEnds`, `FairSpec`, `Ops <- DestroyOps`, `PREEMPT = TRUE` |
| `core.c:850` "prev != new" | a sleeper whose timer expires in its own `__schedule` is switched to itself | `SwitchesToOther`, `Ops <- SleepOps`, `PromptSwitch = FALSE` |
| `semaphore.c:53` "will not return from this function untill the semaphore becomes available" | a `SIGNALED` left on the queue lets `sem_wait` return without a unit | `SemExcludes`, `MCIpc`, `Services = {"sem"}` |
| `core.c:176` "Only sleep if there are no events waiting" | an IRQ thread always sleeps: an interrupt that comes during its handler, or before its first wait, is forgotten | `SleepsWhenDone`, `MCIpc`, `Services = {"irq"}` |
| `dirent.c:63` "NULL if the directory could not be found" | the walk assigns the variable its end is compared with: past the last child it reads a list head as a `dirent`; the model has it go round for ever, and only a missing directory in an empty one gives NULL | `FindNull`, `MCVfs`, `Work = {{"dirs"}}` |
| `semaphore.c:70`, `ipm.c:74` | with `PREEMPT` the counter's load and store, and the test for a full ring, race | `SemNoIdleUnit`, `ImplementsFifo`, `PREEMPT = TRUE`; the condition variable stands it |
| `krealloc.c:49` | `krealloc` takes the size of the old node, header included, for what its caller may use | `BigEnough`, `Blocks <- OneBlock`, `Requests = {2, 4}`, `Alignments = {}` |
| `time.c:73` | `(year - 70) * 365` overflows 16 bits: summer time is wrong from late 2059 on | `LocaltimeRight`, `Years = {2060}` |
| `localtime.c:48` "thread safe" | two preempted callers share the cache of transition dates | `LocaltimeRight`, `CalPreempt = TRUE`, two callers |
| `romfs.c:47` | `romfs_open` while the caller itself has the flash open reads from another place | `RomCopied`, `Rash = {"flash"}` |
| `lottery.c:54` | priorities 238 to 249 round to no ticket: such a thread is never drawn, and a queue of two of them is drawn from for ever with interrupts off | `TicketsSound`, `Prios = {1, 240}` |

Met while reading, and not modelled further:

* scheduler: the comment of `reschedule_decide` (`core.c:1070`) exchanges its two
  flags; with FIFO `yield` does not give way to a more urgent thread behind the head;
  a thread destroyed before its first run is run all the same; `rq_find_thread`
  never advances; `ec` is 8 bits and wraps at 256 events between two runs of the
  scheduler; `sem_init` leaves the class of its queue unset; with `PREEMPT`
  `lottery_kill_thread` returns tickets to the pool without a lock, and
  `lottery_take_ticket` takes the list head for a ticket when memory is short.
* buses: a completion that comes before `event_wait` throws `SIGNALED` away is lost (I2C
  and SPI time out and try again with messages of length 0, `getc` of the USART waits
  for ever); with a slow bus (`FastBus = FALSE`) a timeout leaves the interrupt
  handler at work on the messages of a caller that has returned; after lost
  arbitration `TWCR |= TWSTA` sets the wrong bit and there is no new start; an error
  in the 8-bit `tw_mm_error` is no longer negative.
* interrupts: with both edges requested only the falling one is programmed
  (`cpu_request_irq`; `IrqThread` has it so); `irq_request` allocates a `struct irq_thread_data` with the size of a
  `struct irq_data`; `irq_remove_pin` refuses exactly the interrupts that have a pin.
* time: `mktime` normalises the month but not `tm_year`; a clock slower than 1 kHz has a
  zero interval; a handler that creates a timer on its own source spins on its lock;
  the pointer of a one-shot timer dangles once it has expired.
* heap: `mm_alloc_aligned` rounds the size up and leaves the address where it is; worst
  fit stops at a node that fits exactly; `krealloc` copies too many bytes of a smaller
  region.
* files: with a full table `open` returns descriptor 0; a second `open` of a device by
  its owner, and of a ramfs file by anyone, spins; two openers that wait for a romfs
  file leak a copy; `ramfs_write` returns the size it was asked for though it wrote
  less; `unlink` does not free; `mkdir` does not look for a duplicate.

## Proofs

TLC checks the instances above; the theorems hold for every value of the constants.
Each rests on an inductive invariant, and each invariant was checked by TLC on a small
instance before it was proved. The proofs have one lemma per action and under it one
step per part of the invariant that the action can disturb.

**Types.** `Sched_proofs!TypeCorrect` proves `Spec => []TypeOK` for every set of threads
and queues, every configuration and every set of calls. `TypeOK` is inductive as it
stands, and it is where the guards matter: `SignalThread` decrements an event counter
only because it found it positive, `EventTimeout` and `WakeHead` take the head of a
queue that has one.

**The queues of the cooperative kernel.** `Sched_proofs` also proves `QueuesSound`,
`JoinersReleased`, `StacksSound` and `EventsKept` for any threads, queues, priorities,
timeouts and calls, both classes, and interrupts and ticks at every point where they are
enabled, under `Cooperative`: no `CONFIG_PREEMPT`, `PromptSwitch`, and nobody calls
`sleep(0)`. The last two say the same of a timer: it does not expire while the thread
that set it has not been switched out. They are needed; without them
`sched_sleep_timeout` puts the running thread on the run queue. The invariant `CoopInv`
has nine parts: the types, and

* `ControlInv`: only the running thread is inside a call or the scheduler; all others are
  uncreated, fresh, or at the tail of `__schedule`;
* `FlagsInv`: RUNNING, EXIT, WAITING and NEED_RESCHED agree with the place in the code, for
  each prefix of the separate writes in `wait` and `kill`;
* `RunInv`: the run queue holds, once, whoever is RUNNING and does not run, except the
  thread that `signal` has marked and not yet added;
* `PlaceInv`: a thread that is not RUNNING is uncreated, dead, waits for `signal`, is on
  the wake list or sleeps with a timer, and who is on the wake list or has a timer is
  none of the others;
* `TimerInv`: no thread has two timers; a timer of `raw_event_wait` belongs to a waiter of
  that queue, and `tp->timer` says whether there is one;
* `EventInv`: the wake list and the queues hold the same threads once, in the queue their
  call names, events are counted at the head, and a SIGNALED queue is empty;
* `CallInv`: what a call has looked at (`qhead` in `event_notify`, EXIT in `join`) is
  still so when it acts on it;
* `DeadInv`: the dead have told their joiners, are on the kill queue or freed, and do not
  run.

Each way of waking a waiter (timeout, notify, broadcast, the events an ISR counted)
is shown to be one `Rouse`: the waiter leaves its queue, the wake list and its timer
together and enters the run queue, which it was not on. `EventsKept` follows step by
step: each action leaves the events at the head of each queue that keeps waiters, less
the one `rq_signal_threads` delivers.

**The mutex.** `Mutex_proofs` is about `MSpec`, which contains every action of the
scheduler, with and without preemption. `HolderOwns`, that a thread in the critical
section is the owner, is not inductive: a thread that has seen `count = 0` and not yet
incremented it must be known to be alone. The invariant `MInv` adds `Undisturbed` (a
thread at that point, or between `count` and `owner` in `mutex_unlock`, is `current`,
outside the scheduler, and the mutex is free or its own), and `Undisturbed` is kept by
the tick only because the preemption counter is positive there, which is
`PreemptBalanced` (each counter is the nesting of the thread's locks plus what the call
it is in has disabled), and by the scheduler because it does not run between the two
steps. `MutexSafe` concludes the three, `NeverHalfTaken` and `CountersBalanced` the
second and the third for themselves, `MutualExclusion` that no two threads are inside,
`MutexRefines` that every step maps to a step of `AbstractLock` or a stutter.

`NobodyStranded` proves `NoStrandedWaiter`, under `Cooperative`. `WaitersInv` is what makes
it inductive: whoever is in the queue of the mutex, or about to enter it, is in the loop of
`mutex_lock` and found the mutex taken; and while it is free and somebody waits, a thread
that is not in the queue is at a label of `mutex.c` from which it will look at the mutex or
notify. `Tame` (in `Sched_proofs`) says what any step of the scheduler that is no call on
a queue leaves alone there, so that each service has to look at its own steps only.

**The services.** `Ipc_proofs` proves under `Cooperative`, about `IpcSpec`, what each service
above the event queues promises. First `KInv` (`CoopInv`, which the callers of the services
keep because all of them only make calls the scheduler allows; `IrqInv`; and `UsesInv`, that
a service the application does not use stays as it began) is shown to hold, and then, on top
of it:

* `IrqAlwaysServed`, by `IrqInv`: the thread of an interrupt is never in a queue and never
  sleeps; when it is not RUNNING it is in `wait()`, and `came` says `woken` only if `signal`
  or the hard interrupt has since put it on the run queue, where `RunInv` has it once.
* `NoReaderStranded`, by `IpmInv`: a thread between its look at the indices and what it does
  then keeps the processor, so at most one slot is open and it is the last; and while there
  are messages and a reader waits, somebody outside the queue will notify or get one.
* `FifoRefines`, by `FifoInv`: with at most one slot open the messages up to it are the
  abstract queue; filling it is a `Put` at its end, a read is a `Take` of its head, a
  reset a `Clear`, and every other step leaves the queue and `got` alone (`FifoDoes`).
* `NoSignalLost`, by `CondInv`: who waits on the condition or is about to has given the mutex
  back, and while `pred` holds and a thread waits, somebody outside the queue minds it.
* `NoUnitIdle`, by `SemInv`: `value` is the initial value less the threads that have
  subtracted one and not yet added it (`Counted`), so a thread that waits, or is about to,
  proves that all units are in use (`Served`). It counts threads, which is why
  `SemAssumption` has their set finite.
* `OwnEndAwaited`, by `XferInv`: who has started a transfer has the mutex until it has seen
  how it ended (`XferLocks`), a queue left SIGNALED by an earlier transfer or an event of its
  waiter means that this transfer has ended (`XferWaits`), and the hardware is quiet then
  (`XferQuiet`). Events are handed from waiter to waiter, and `KernelHands` says where one
  can have come from.

**Timers.** `TimersInTime` proves `OnlyForThoseAhead` for any number of timers and
delays. The list is not sorted, since `raw_clocksource_insert_timer` passes the last
element without a look, so the invariant `TInv` gives every timer a bound at its
insertion (`Bounded`) and says, while a walk is on, which part of the list is through
(`Walked`); what is put on the list since a walk began, at whatever place and however
stale its tick, is in `fresh`. `NeverDelayed` states that an insertion never breaks the bound of another.

**Scheduling classes.** `CInv` is the run queue (`QueueInv`), for EDF its order and that
every deadline comes after the tick it was set at (`EdfInv`), and for the lottery that
the tickets 0..n-1 are divided among the pool and the threads (`LotInv`).
`DeadlinesKept` proves `EdfInTime`; `TicketsKept` proves `TicketsSound` where `Drawable`
holds, that no priority in use rounds to no ticket at all: those from 238 to 249 do, and a
thread that has one of them is never drawn.

**Heap.** `HInv` says that the free list is in address order with a gap between any two
nodes, and that each byte of the regions added is in exactly one node, free or
allocated. `AlwaysCoalesced`, `MemoryConserved` and `HeapTypes` follow.
`FitsAsPromised` is about lists of any length: the walk of the allocator is the least
index with a property, and a least counterexample (`Lists_proofs!LeastExists`) takes the
place of induction over the list.

**Buses.** `BusInv` relates the state of the hardware to index and length of the message
in transfer; `BuffersKept` proves `InsideBuffers`, and `SpinEnds` proves `BusyClears`, for
any transfers, answers of the hardware, threads, retries and time-outs.

**Files.** `Vfs_proofs` proves, for any number of callers, files, directories and
descriptors, `DescriptorsSound` (`EveryDescriptorOwned`), `HeldWhileOpen`
(`TakenOnlyWhileOpen`) and `WritesInside` (`BuffersHoldWrites`) under `Prudent`: nobody
opens a file twice, fills the table of descriptors or opens the flash device that romfs
reads through. These are the callers the code does not stand (Findings), each an element of
`Rash`. None of these properties is inductive: what `vfs_open` does when the mutex of a
device is free at last depends on what may have happened since it began to wait. `VInv` has

* `Sound`: table, files and callers agree, each descriptor is of one caller, and what
  `TakenWhileOpen` says of each of the three kinds of file;
* `Sized`: the buffer of a ramfs file is never shorter than the one it was made with, which
  is what `WritesInside` needs, since `ramfs_expand` adds to it;
* a waiting caller waits for a device it has not opened, the flash device is open only inside
  one call of `romfs_open`, and there are more free descriptors than callers that wait, so
  `iob_add` finds one for each.

`DirectoriesListedWhole` proves `ListedAll` where one caller reads at a time and to the end
(`readdir` keeps its place in a static variable). The invariant `ListInv` says where that
is: what was read stands in one piece in the list of children (`Follows`), all that was
there at `opendir` stands behind its beginning, `mkdir` only adds in front, and no child
is in a list twice, because the entry that `mkdir` takes has no name yet.

`DirectoriesFound` proves `FindRight`, which is about the paths there are, where nobody makes
a directory twice, whether or not callers look up paths that do not exist. The loop of `dirent_find` is a fold over the path;
`FoldWalks` and `FoldTwo` say what it returns by exhibiting the function it goes through, for
the paths of at most two components that the model has, and so need no induction. `FindInv`
says that the children of the root have different names and none is the root: `mkdir` finds
its parent, but not whether the name is taken. It holds in step with what it proves, since
`mkdir` looks its parent up with `dirent_find`.

Assumptions, which TLC evaluates in the runs: the idle and the main thread are two
threads, queues are no threads, priorities and timeouts are naturals, the mutex's queue
is a queue; the services have different queues, and no other interrupt notifies that of a bus
(`OwnQueueAssumption`: each structure of the code embeds its own `event_queue`); a message
queue has no more slots than a `uint8_t` can say; the regions of the heap are disjoint and no smaller than a node header; an
I2C transfer has messages, and a read asks for at least a byte; the deadline of the idle
thread lies behind all others (`LateIdle`); a `struct file` is of one file system, lengths are
naturals, threads and files are finitely many, no object is at address NULL, and `"hang"`,
which stands for a call that does not return, is no directory.

Only model-checked: the queues of the scheduler under `CONFIG_PREEMPT`, and with them the
services; the calendar, whose algorithms are recursive operators (`DayOf` counts years
and months up, which needs induction over the date); and all liveness (fairness and ENABLED
are out of TLAPS's reach).


## Plan

Done: the scheduler with all of its classes, the services on top of it, threaded
interrupts, the heap,
timers and dates, the file system, the buses. Next, in this order:

1. `thread_destroy` of the caller itself, dynamic priorities, the transmitter of the
   USART.
2. Proofs: the queues under `CONFIG_PREEMPT`.

## Not modelled

CONFIG_DYN_PRIO; the length of a slice; `thread_destroy` of the caller itself;
more than one CPU (the code has one run queue); the class of an
event queue other than FIFO; the transmitter of the USART and bus slaves. In the file
system, what files hold.

Most of the repository is no candidate. Of its 66 000 lines of source the vendored
kconfig tools are 19 000, the PyMite virtual machine and its libraries 17 000 and the
AVR floating point library, in assembly, 7 000; of the rest, headers of register
definitions, start-up code, tests and examples, the C++ wrappers and the formatting and
string functions of the C library have no state and no order of events that a
behaviour could get wrong. What is modelled is the kernel, its memory, its clocks, its
file system and the drivers that wait for interrupts, and there the map of
`PROJECT.json` goes through the code function by function.
