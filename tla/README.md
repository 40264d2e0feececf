# A formal model of the kernel of this RT-Thread firmware

The repository is the firmware of an STM32F407 board: the RT-Thread 3.1.5 kernel
(`os/`), device drivers and middleware (`components/`, `board/`), and an
application that streams camera frames over TCP and draws a user interface
(`applications/`). Everything the application does rests on the kernel's threads,
timers and IPC objects running on one core with a tick interrupt. That is what is
modelled here: the scheduler, the thread calls, the timer list and all IPC objects,
each against every interleaving of threads, time slices, timeouts and interrupts; the
heap; the driver framework's completions, data queues and work queues; and the two
parts of the firmware that use them hardest, the Ethernet threads and the camera
server.

## 1. Inventory

| Component | State | Operations | Interacts with | Hard behaviour | Correct when |
|---|---|---|---|---|---|
| Scheduler (`os/scheduler.c`) | priority table of thread lists, bit group, `rt_current_thread`, lock nesting | insert, remove, `rt_schedule`, enter/exit critical | every blocking call | bit group is a cache of the lists; calls made inside and outside critical sections | the most urgent ready thread runs; `rt_schedule` never reads an empty list |
| Threads (`os/thread.c`) | state, priorities, error, built-in timer, one list node | init, startup, suspend, resume, sleep, yield, change priority, delete, exit, timeout | scheduler, timers, idle thread | state tested outside the section that uses it; deletion in several sections | linked exactly where the state says; never freed while linked |
| Idle thread (`os/idle.c`) | defunct list | reclaim, hooks | threads, heap | runs only when nothing else does | frees each deleted thread once |
| Tick (`os/clock.c`) | `rt_tick`, time slices | `rt_tick_increase` | scheduler, timers | wrap-around | equal threads share the processor |
| Timers (`os/timer.c`) | ordered list, flags | init, start, stop, control, detach, `rt_timer_check` | thread timeouts, user callbacks | unsigned wrap-around; callbacks that edit the list being walked | every timer fires exactly when due |
| Semaphore, mutex, mailbox, event, message queue (`os/ipc.c`) | counters, owners, rings, wait lists | take/release, send/receive, control, detach/delete | scheduler, timers, interrupt handlers | timeout racing with a release; a woken thread overtaken; priority inheritance; deletion under waiters | nothing lost, nothing given twice, nobody forgotten |
| Memory pool (`os/mempool.c`) | free list, waiters | alloc, free, detach/delete | scheduler, interrupts | a woken waiter is not given the block | no block lost or given twice; no waiter beside a free block nobody comes for |
| Heap (`os/mem.c`) | headers in the heap, `lfree`, `used_mem` | malloc, free, realloc | the heap semaphore | long sequences of splits and merges; realloc in three sections | blocks apart, free neighbours merged, refused only when nothing fits |
| Objects, devices (`object.c`, `device.c`) | object lists | init/detach, open/close | every object | sequential | not modelled |
| Completion (`components/drivers/src/completion.c`) | flag, one waiter | init, wait, done | drivers, interrupts | a timeout racing the report | no report lost or received twice |
| Data queue (`dataqueue.c`) | ring, full and empty flags | push, pop, reset, deinit | drivers, interrupts | wake-up only at the low-water mark; reset in sections | a bounded channel; a drained queue has a pusher coming |
| Work queue (`workqueue.c`) | list, current work, flags, timers | submit, delay, cancel | worker thread, tick | list tested before the worker sleeps; cancel against the tick | accepted work is queued until begun or cancelled |
| Ethernet threads and driver (`ethernetif.c`, `drv_eth.c`) | two mailboxes, `tx_ack`, link state, HAL lock, descriptors | linkoutput, tx/rx threads, interrupt, PHY monitor | lwIP core lock, DMA | one acknowledgement semaphore for all senders, messages on the sender's stack, a lock the interrupt releases | senders return with their own acknowledgement; no frame or link change overlooked |
| Camera server (`applications/eth_camera.c`, `atk_mc2640_dcmi.c`, `lv_port.c`) | connection, frame semaphore, buffer, the LVGL thread's state | accept, capture, send, pause and resume LVGL | lwIP, DCMI interrupt and DMA, LVGL thread | stale tokens, frame timeout racing the interrupt; suspending a foreign thread | only whole pictures are sent; returns to listening |
| UI (`app_ui.c`), shell, HAL, lwIP, LVGL | - | - | - | device I/O and third-party code | not modelled |

`PROJECT.json` lists the components with their status, and under `hazards` the
places in the code that are hard to test.

## 2. Modules

    Kernel.tla            ready queue, thread table, wait lists (pure operators)
      Sched.tla           thread calls, scheduler lock, time slice, reclaiming
      Mutex.tla           rt_mutex_take / _release with priority inheritance
      Calls.tla           what blocking calls on objects share; detaching
        Semaphore.tla  Event.tla  Mempool.tla  Completion.tla  WorkQueue.tla
        ChannelCalls.tla  what sending and receiving calls share
          Mailbox.tla  MsgQueue.tla  DataQueue.tla
            Channel.tla   what each of the three promises: a bounded channel
      KernelProofs.tla    lemmas about sequences, loops and the operators of Kernel.tla
        SchedProofs.tla   the theorems about Sched.tla
        MutexProofs.tla   the theorems about Mutex.tla
        CallsProofs.tla   what the calls of Calls.tla preserve
          ObjectProofs.tla  the theorems about Semaphore, Completion, Event, Mempool,
                            WorkQueue and Heap
          ChannelProofs.tla the theorems about Mailbox, MsgQueue and DataQueue
        TimerProofs.tla   the theorems about Timer.tla
    BoardProofs.tla       the theorems about Ethernet.tla and Camera.tla
    Timer.tla             timer list and rt_timer_check over a tick that wraps
    Heap.tla              rt_malloc / _free / _realloc
    Ethernet.tla          transmit and receive threads, PHY monitor, MAC interrupt
    Camera.tla            camera server, capture, LVGL thread
    MC*.tla, MC*.cfg      instances for TLC

**Kernel.tla** has no variables. A kernel state is one record `k`, and each C
function that edits the scheduler's structures is a function from `k` to the next
`k`. A section of code between `rt_hw_interrupt_disable` and
`rt_hw_interrupt_enable` is atomic on this single core, so a handler composes the
functions it calls in one section into one step. A thread's `tlist` node is on one
list at a time: a ready list, or one of the lists in `k.wait` (the suspend list of
an IPC object, `rt_thread_defunct`). `k.timer[t]` says whether the thread's
own timer is running; in the modules above Kernel a running timer may expire at any
moment, which over-approximates the times.

**Sched.tla** executes the calls of `thread.c` one interrupt-disabled section at a
time: `pc[t]` is the point of the call thread `t` stands at, `arg[t]` the thread the
call is about. Between any two sections the tick may end a slice or expire a timer
and switch threads. `owed` records that a call which leaves scheduling to its caller
(`rt_thread_resume`, `RT_THREAD_CTRL_CHANGE_PRIORITY`) has changed who should run.
`Exclusive` states the one assumption about programs: no two threads control the same
third thread at the same time.

**Mutex.tla** executes the calls of `ipc.c` the same way: the section that takes or
queues, the `rt_schedule` after it, and what the caller does when it runs again.
`held` is a history variable that counts what the return values told the program.

**Calls.tla** has the parts that every other object's calls are made of: blocking on a
list of the object (`Block`, `WaitSchedule`), waking and scheduling (`Wake`,
`LastSchedule`), and the loop of `rt_ipc_list_resume_all` that a detach or delete runs
section by section (`StartDetach`, `SweepTest`, `SweepResume`). Threads in `Sleeper`
also sleep, so that less urgent threads run; slices end; timers of waiting threads
expire. An interrupt handler that releases, sends, frees or completes is one step,
`rt_schedule` included. The time a call may wait is none, finite or forever; after a
wait a finite time may be used up or not. `Called(l)` is the set of threads woken from
list `l` that have not run since: what these threads will do is what the properties
about lost wake-ups count on.

* **Semaphore.tla**: `net` counts what callers were told they hold.
* **Event.tla**: a send is one walk of the wait list (`SendWalk`, the loop of `Serve`
  over the waiters).
* **Mempool.tla**: the free list is a chain through the blocks; a woken `rt_mp_alloc`
  tests it again.
* **Completion.tla**: `rt_completion_done` tests the flag outside its section
  (`DoneTest`, `DoneSet`); `signal` is the history of the report under way.
* **ChannelCalls.tla**: a woken sender or receiver is given nothing and tries again
  with what is left of its time (`WokenToRetry`, `Left`). **Mailbox.tla** is a ring
  with offsets. **MsgQueue.tla** has slots chained by `next`, and takes, fills, links,
  copies and frees in separate steps as the code does. **DataQueue.tla** is a ring with
  two flags and a low-water mark.
* **Channel.tla** is the specification the three are shown to implement: a sequence of
  at most `size` mails, sent at the end (urgent ones at the front), received from the
  front, dropped only by a reset.
* **WorkQueue.tla**: the worker steps from test to suspension to taking. `due` is the
  history of accepted work. `Races` says whether other calls and the tick may come
  between the sections that rely on one another.

**Heap.tla** keeps the header fields `next`, `prev` and `used` at real offsets, with
the 12-byte header, alignment 4 and minimum size 12 of the code, and computes
`plug_holes`, the first-fit search and the split from them. Each call holds the heap
semaphore throughout and is one step, but a realloc that has to move is three.

**Ethernet.tla** uses mailboxes and semaphores as the atomic objects the modules above
show them to be, and threads run by priority (`At`). The sender holds the lwIP core
lock through `ethernetif_linkoutput`; the message to the transmit thread is named after
its sender, on whose stack it is. The HAL lock is a flag that the end of
`HAL_ETH_IRQHandler` clears whoever holds it. **Camera.tla** abstracts the JPEG buffer
to two halves marked with the capture that wrote them.

**MCObjects**, **MCChannels** and **MCBoard** put several components side by side, one
of which (`use`) is chosen at the start of a behaviour: they share the constants and
the thread instance, not their states.

**Timer.tla** keeps `rt_tick` and `timeout_tick` modulo `W` and compares them by
difference as the code does. `due` is the history of what was promised: the number of
ticks that will really pass until the timer fires; `started` is the order of the
starts. While `rt_timer_check` runs only the callback it has called acts.

## 3. Runs

| Run | Instance | Shows |
|---|---|---|
| `sched` | 3 threads (two equally urgent, one created, deleted and re-created) and idle; lock nesting 1 | table, group, running thread, timers and freed threads stay consistent in all interleavings; `rt_schedule` always finds a thread; equal threads share the processor |
| `sched_delete` (violation) | as `sched`, deleting sleeping threads | a deleted thread can be put back into the ready queue |
| `mutex` | 3 threads, 1 mutex (PRIO), recursion up to 2 | ownership, lists, inheritance, its undoing, and service of the most urgent waiter |
| `mutex_restore` (violation) | 2 mutexes, nested | an inherited priority can be kept for good |
| `timer` | 3 timers, periods 0 and 2, tick of 8 values, operations by threads and callbacks | never early, never late, firing order across the wrap, ties in start order, flags agree with the list, detached timers are unlinked |
| `objects` | 3 threads (two equal), interrupts, FIFO and PRIO; semaphore limit 2; 2 event bits and 3 requests; 2 blocks; 2 works, one delayed; heap of 84 bytes, 2 threads | tokens, event bits, blocks, reports and work are neither lost nor given twice; nobody waits beside what it waits for; detaching wakes everybody; the heap's structure and the reason of every refusal; a device that keeps releasing serves every waiter |
| `semaphore_race` (violation) | a semaphore detached under timed waits | a timeout inside the detach loop makes it resume the list head |
| `workqueue_race` (violation) | a work queue with `Races = TRUE` | a cancel after the worker is resumed makes it take the list head for work |
| `channels` | 2 senders, 2 receivers (one thread is both), interrupts that send and receive, 2 places, 2 mail values, timeouts, resets, detaching | the three objects implement `Channel`; slots are never lost or shared; no wake-up is lost when a woken thread is overtaken |
| `board` | Ethernet: tcpip thread, one application, 2 receive and 1 transmit descriptors, mailboxes of 1, up to 3 frames or 2 packets, any changes of the cable. Camera: one client at a time, any number of captures | the message on a sender's stack is never used after the sender has gone, the transmit mailbox never overflows, no reported link change and no frame is overlooked, every sender returns; only whole pictures are sent, and a reset connection is given up |
| `link_down` (violation) | the Ethernet part | the netif stays up after the cable is pulled |
| `camera_return` (violation) | the camera part | after ERR_ABRT the server never accepts again |

Several properties are conjunctions of parts that are named and commented in the
modules: `SchedConsistent` (types, ready table, `ScheduleFindsThread`, `TimeoutAssertion`),
`MutexConsistent` (fields, wait lists, ready table),
`TimersConsistent` and `FiringOrder`, `NobodyForgotten` (wait lists, detaching, what is
resumed), `HeapConsistent`, `WorkAccounted`, `WorkerAnswers` (the worker and those who
wait for it), `MessagesSafe` and `QueuesBounded`. `TokensKept`, `BlocksKept`,
`RequestsMet` and `ReportKept` say of one object each that what it gives out is neither
lost nor given twice, and that nobody waits in vain. For this last part a wake-up hands
over what was waited for (`NoTokenWhileWaiting`, `NoSatisfiedWaiter`,
`NoWaiterOnCompleted`), or the woken thread tries again and may be overtaken
(`BlockIsClaimed`, and for the queues `MailIsClaimed`, `MessageIsClaimed` and
`ItemIsClaimed`). `MailboxIsChannel`, `MsgQueueIsChannel` and `DataQueueIsChannel`
are the three refinements of `Channel`.

Bounds. Two threads of equal and one of different urgency above the idle thread are
enough for every relation of two callers and a bystander: preemption, rotation,
inheritance from below, a waiter overtaken by a third. Limits (semaphore value,
recursion level, ring size) are 2, so that they are reached, wrapped and passed in the
mutants. The tick has 8 values and periods stay below half of its maximum, as the
assertion in `rt_timer_start` demands, so the wrap falls between, before and after the
timeouts of the timers. A list of three timers is the shortest with an insertion in the
middle. Mails are interchangeable (`MCSymmetry`), since no step compares two. `MCView`
merges states that differ only in values no step can read again (a stale
`thread->error`, empty places of a ring). In `channels` only the most urgent thread
sleeps between calls; the others make way for each other at the ends of their slices.
Mailboxes of one message are the hardest case for `QueuesBounded` and `LinkChangeKept`,
and one transmit descriptor makes the driver drop frames; the three `Loads` put frames
against frames, frames against packets and two senders against each other. The heap
holds two blocks of the middle size or three of the smallest, so that exact fits, splits
that are too small, merges on both sides and a full heap all occur. The low-water mark
is 0, the value at which a pusher may wait longest. The counters of the models are all
bounded by the code's own limits; `MaxNest` and `Nesting` bound programs.

Fairness. `Sched` assumes that the tick interrupt keeps coming, that a running thread
finishes the kernel call it is in, and that programs leave the critical sections they
enter. `Mutex` assumes that timers expire, that a thread given the processor again and
again finishes its call, and that programs give up the mutexes they hold; nothing is
assumed of the bystanders, who may run for ever. `objects` assumes only that the
device keeps releasing the semaphore. `board` assumes that a thread nobody keeps from
running takes a step (the two Ethernet threads have equal priority and share slices),
that interrupts are served, and that LVGL, which sleeps in every round, lets the server
run again and again; nothing is assumed of the peer, the cable or the sensor, and
`ResetIsNoticed` says itself that pictures keep coming.

Deadlock is checked everywhere but in `mutex_restore`, where programs may take two
mutexes in opposite orders.

## 4. What the code does not guarantee

* `rt_thread_delete` and `rt_thread_detach` on a thread with a running timer: a tick
  between leaving the list and detaching the timer makes the thread READY again
  (`sched_delete`). The `sched` run deletes only threads without a running timer
  (`DeleteTimed = FALSE`).
* Nested mutexes: `rt_mutex_release` restores the priority noted when that mutex was
  taken, which may be an inherited one (`mutex_restore`).
* `rt_sem_detach` and the other callers of `rt_ipc_list_resume_all` with interrupts
  enabled: the list is tested outside the section that uses it (`semaphore_race`). The
  passing runs detach only while nobody waits for a limited time
  (`DetachTimed = FALSE`).
* Mailbox, message queue and data queue: a caller woken before the object is detached
  tests the freed object again. `DetachChannel` waits until no call is in the middle.
* The worker of a work queue takes the first entry of its list without a test after it
  was resumed (`workqueue_race`); work queued between its test and its suspension stays
  until the next submission (`WorkerAnswers` fails with `Races = TRUE`); delayed
  work whose timer expires while it runs is dropped; `rt_workqueue_cancel_all_work`
  leaves the work flagged as pending, and it is refused from then on. The `objects` run
  keeps calls and the tick out of these windows (`Races = FALSE`).
* The PHY monitor never reports a link that goes down, and polls without a pause while
  there is none (`link_down`).
* The receive thread takes HAL_BUSY, and a lack of pbufs, for an empty ring: a frame
  may stay in the ring until the next one comes. `FramesNoticed` says that these two
  are the only reasons.
* The camera server does not return to accepting after a fatal error other than
  ERR_RST and ERR_CLSD (`camera_return`). It cannot suspend the LVGL thread either,
  which is more urgent and therefore asleep whenever the server runs, so LVGL draws
  during captures.
* `rt_thread_suspend` tests the state before it disables interrupts. If the target
  goes to sleep in between, it is suspended with its timer stopped and does not wake
  by itself. The model contains the step (`SuspendCheck`, `SuspendDo`); the table
  stays consistent.
* A callback that sets its own periodic timer one-shot leaves it active and unlisted:
  `MCTimer.cfg` with `CallbackSetsOneshot = TRUE` violates `TimersConsistent`.
* A periodic timer of period 0 never lets `rt_timer_check` end.
* A waiter that times out leaves the owner of a mutex raised until it releases.
* `rt_malloc` does not find a free block that the request would fill to the very end of
  the heap; `RefusesOnlyWhenFull` says that this is the only such case.

## 5. Proofs

The theorems hold for any finite set of threads, any priorities and queueing
disciplines, and any sizes, limits, periods and loads that the assumptions named in the
modules allow. Those are weak: priorities are natural numbers, the idle thread is a
thread and nobody is less urgent, limits and slices are not zero. A tick counter has at
least five values: with fewer, half its range is a single tick, and `rt_timer_check` no
longer recognises a timer that is one tick late as due. A heap has room for one block of
the smallest size, and the header's size and the heap's are rounded to the alignment.

| Module | Theorem | Property of the runs |
|---|---|---|
| SchedProofs | `SchedConsistentAlways`, `MostUrgentAlways`, `FreedAlwaysUnreachable` | `SchedConsistent`, `MostUrgentRuns`, `FreedIsUnreachable` |
| MutexProofs | `TypeCorrect`, `ConsistentAlways`, `OwnershipAlways`, `PriorityAlwaysRestored` | `TypeOK`, `MutexConsistent`, `ReturnedMeansOwned`, `PriorityRestored` |
| ObjectProofs | `TokensAlwaysKept`, `ReportAlwaysKept`, `RequestsAlwaysMet`, `ClearedOnceAlways`, `BlocksAlwaysKept`; `SemaphoreForgetsNobody`, `CompletionForgetsNobody`, `EventForgetsNobody`, `MempoolForgetsNobody` | `TokensKept`, `ReportKept`, `RequestsMet`, `ClearedOnce`, `BlocksKept`; `NobodyForgotten` |
| ObjectProofs | `WorkAlwaysAccounted`, `WorkerAlwaysAnswers`, `WorkForgetsNobody`; `AcceptedAlwaysQueued` | `WorkAccounted`, `WorkerAnswers`, `NobodyForgotten`; the part of `WorkAccounted` about the list |
| ObjectProofs | `HeapAlwaysConsistent`, `RefusesOnlyWhenFullAlways`; `HeapTyped` | `HeapConsistent`, `RefusesOnlyWhenFull`; the part of `TypeOK` about the heap |
| ChannelProofs | `MailboxImplementsChannel`, `MsgQueueImplementsChannel`, `DataQueueImplementsChannel` | `MailboxIsChannel`, `MsgQueueIsChannel`, `DataQueueIsChannel` |
| ChannelProofs | `MessagesAlwaysSafe`, `MailAlwaysClaimed`, `MessageAlwaysClaimed`; `MailboxForgetsNobody`, `MsgQueueForgetsNobody` | `MessagesSafe`, `MailIsClaimed`, `MessageIsClaimed`; `NobodyForgotten` |
| TimerProofs | `NeverEarlyAlways`, `NeverLateAlways`, `FiringOrderAlways`, `TimersConsistentAlways` | `NeverEarly`, `NeverLate`, `FiringOrder`, `TimersConsistent` |
| BoardProofs | `QueuesBoundedAlways`, `MessagesAlive`, `LinkChangesKept`, `FramesAreNoticed`, `WholeFramesSent` | `QueuesBounded`, `MessageAlive`, `LinkChangeKept`, `FramesNoticed`, `WholeFrameSent` |

Some theorems have a hypothesis; each is needed:

* Those of SchedProofs have one controlling thread (`Controller = {c}`) that deletes no
  thread whose timer runs (`~DeleteTimed`). `sched_delete` is the counterexample to the
  second. Of two controllers one can delete the other in the middle of a call, and the
  thread that call was moving is never linked again; the kernel leaves that to programs.
* `SemaphoreForgetsNobody` and its sisters for event, pool, mailbox and message queue have
  `~DetachTimed` (`semaphore_race`). The other theorems about these objects hold under
  either setting.
* `PriorityAlwaysRestored` has `Nesting = 1`: programs hold one mutex at a time.
  `mutex_restore` is the counterexample for two.
* Those about the work queue have `~Races`; `workqueue_race` is a counterexample without.
  `AcceptedAlwaysQueued` needs no more. The others have `WorkerUrgent` too: the worker is
  strictly the most urgent thread, as in the run. Otherwise a thread can run after the
  worker was resumed and before it takes its work, and cancel that work: `~Races` keeps
  calls out of the sections of other calls, not out of this window.
* `TimersConsistentAlways` has `~CallbackSetsOneshot` (section 4). The other theorems of
  TimerProofs do without.

### The inductive invariants

No property is inductive alone. TLC has checked every invariant below on the instance of
its run; in `MpInv` and `HeapInv`, whose chains are unbounded quantifiers, with
`BlocksConserved` and `Headers` in their place.

**The table (`KernelProofs`).** A thread that is off all lists is *loose*: removal
loosens a consistent table, insertion and queueing tighten a loose one, and a bit of the
group is set exactly when its list is not empty. Each operator of `Kernel.tla` has one
lemma (`ScheduleEffect`, `ListSuspendEffect`, `ResumeEffect`, `TimeoutEffect`...) that
states its effect on every field. The modules above use nothing of the lists but those
lemmas.

**Scheduler (`SchedInv`).** In `thread.c` the bit group is *not* always exact.
`rt_thread_resume` tests that the thread is SUSPENDed before it disables interrupts. If
the timer of the thread expires in between, the thread is READY when
`rt_list_remove` unlinks it, and nobody clears its bit until
`rt_schedule_insert_thread` sets it again. A tick in that window searches a group with
the bit of an empty list. `Table` therefore asks only that every needed bit is set, and
`Resumes` says why the stale one does no harm: a thread that became READY while the
controller `c` was inside `rt_thread_resume` is not more urgent than `c`, or `c` would
not be running; so the stale bit is never more urgent than `c`, which is READY and
queued, and with the scheduler locked nobody searches (`AlwaysCovered`,
`HighestFound`). If the two are equally urgent, the bit is not stale at all: the list
holds `c`. The rest is what that argument needs: the thread a call is moving is on no
list and everybody else where the state says (`Links`, `Moved`), only the controller is
inside a call about another thread (`Others`), running timers belong to SUSPENDed
threads nobody is moving and the defunct list holds exactly the closed heap threads
(`Threads`), the running thread is READY or about to switch and most urgent unless a
switch is owed (`Runner`), and what a call tested stays true enough until it acts
(`Found`, `Target`).

**Mutex (`IInv`).** That a thread told RT_EOK owns the mutex needs to know, for a thread
on its way out of `rt_mutex_take`, that its error is RT_EOK exactly when the release made
it owner (`Calls`); that needs a suspended waiter to be on the wait list with no error
yet, and only suspended threads to have a running timer (`Timers`), or a late expiry
would overwrite the error of a new owner. For `PriorityRestored`, `Inherits` adds that the
priority a mutex notes is its owner's own one, that nobody owns two mutexes, and that a
thread inside `rt_mutex_take` owns at most the mutex it asks for; a release therefore
always restores the right priority, and inheritance raises only owners.

**The other objects.** `CallsInv` (CallsProofs) is what all blocking calls share, thread by
thread (`ThreadOK`): a thread is on the list of its call exactly while it is suspended in
it, then has no error yet, and has a running timer only while suspended; the detaching
thread has on its agenda (`sweep`) every list somebody is still on. An action moves one or two
threads and leaves all others looking the same, so its proof is about those threads.
On it rest `SemInv` (no token beside a waiter, tokens add up), `CompletionInv` (one
thread waits, and nobody waits for what is done), `EventInv` (waiters still want what
they asked for and none of them is satisfied) and `MpInv` (the free list, followed through
the block headers, is a chain of all free blocks and of no others).

**The queues.** A woken sender or receiver is given nothing, so what counts is how many
are on their way: on each list, items (or places) are no more than the threads called
from it while somebody sleeps there (`Claimed`), and every section has a lemma on what
it gains and spends of that difference (`Gains`). A thread that finds the queue empty
again after it was woken blocks again, and the difference does not change. On top of it
`MbInv` has the ring: `entry` is the distance of the two offsets (`RingOK`). `MqInv` has
the pool: the free list and the queue are two disjoint chains through it, and every other
slot is in the hands of one caller who is filling or copying it with interrupts enabled
(`MqOK`), so that two callers in the middle of `rt_mq_send_wait` and `rt_mq_recv` never
touch the same slot. `FlagsOK` says that the flags of the data queue tell a full ring
from an empty one. The refinement mappings read the sequence off the ring or the chain;
each step of the C code is shown to be one step of `Channel` or none.

**Work queue (`WorkInv`, `WorkerInv`).** Work has several flags and two ways into the
list. `DelaysAgree` and `InSections` say which combinations occur and what the sections of
a cancellation have established so far. `WorkerInv` adds who runs: the worker is READY in
the middle of its loop only beside work, a thread that is about to resume it finds it
suspended beside its work (`WakersOK`), and whoever waits for the end of work does so only
while the worker has yet to report it (`SyncersOK`).

**Loops over a list.** `rt_ipc_list_resume_all` with interrupts disabled and the walk of
`rt_event_send` are functions of the round. What a round preserves is proved for one round
and extended to all of them by `RoundsExist` and `CountUp` of KernelProofs, which argue
from a least round at which it fails; the prover cannot instantiate the library's
induction rules.

**Timers (`TimerInv`).** The code compares ticks by their difference modulo `W`. The
invariant says this is never ambiguous: every listed timer times out between one tick
ago and half the range ahead (`Off`), the list is sorted by that, ties in the order of
the starts, and `due`, the real number of ticks until the promise, follows it. The walk
of `rt_timer_check` restarts from the head after every callback, and the invariant is
stated for the middle of it too (`CheckFacts`).

**Heap (`HeapInv`).** There is a set of offsets, the headers, each of which leads to the
next one up and is led back to by it (`Laid`); the last one is left out, because a split
does not maintain its `prev`. `Sound` adds that `lfree` is the lowest free header
(`Lowest`), that no free block follows another (`Coal`) and that `used_mem` is the number
of bytes in used blocks; `Holds`, that what programs hold are the data of the used blocks;
and `Moves`, that a block which `rt_realloc` is moving with the lock given up is held and
moved by one call, so that nobody else frees it. `JoinEffect`, `SplitEffect` and
`MarkEffect` say what cutting, joining and marking do to that set, once and for all
callers. `plug_holes` is entered with at most two offending pairs, the freed block and its
neighbours (`ForwardEffect`, `BackwardEffect`). The searches for a fit, for the next free
block and for the headers are functions that call themselves along `next`: as every
header leads up and nothing lies above `heap_end`, each has a solution (`WalkExists`) and
stops where it should (`WalkStops`). The alignment is symbolic: `RT_ALIGN` is a mask for
any power of two, and sums of multiples stay multiples (`AlignUp`, `AlignedSum`).

**Board (`EthInv`, `CameraInv`).** Only the holder of the lwIP core lock is between
sending to the transmit thread and taking its acknowledgement (`InCore`), so at most one
message is under way and it is that sender's (`OnePacket`): neither a full mailbox nor a
message on a dead stack can occur, whatever the mailbox size. For the camera, the two
halves of the buffer hold what the DMA has written since the `memset` of this round
(`BufferFacts`), so that a stale token of `dcmi_sem` cannot make an incomplete picture
pass the check of its end.

### Only model-checked

* Liveness (`RoundRobin`, both `WaiterIsServed`, `SenderReturns`, `ResetIsNoticed`) and
  everything with ENABLED: outside the prover.
* `ItemIsClaimed` of the data queue: a reset wakes everybody with the scheduler locked,
  and `CallsInv`, on which the counting of woken threads rests, describes calls made with
  the scheduler unlocked.
* The type invariants of the composed modules MCObjects and MCChannels. Their parts are
  proved with each object (`MailboxTypes`, `MsgQueueTypes` and the types within `SemInv`,
  `CompletionInv`, `EventInv`, `MpInv`, `WorkInv`, `FlagsOK` and `DqHands`, `HeapTyped`).

## 6. Not modelled

Context switches and interrupt entry (assembler in `libcpu`); hooks and cleanup
callbacks; object names and lists; the device manager; logging; `rt_thread_delay_until`,
`rt_tick_set`; soft timers, signals, SMP and priorities above 32, which this
configuration does not compile; `rt_mutex_detach` and `_delete`; `rt_data_queue_peek`;
`rt_workqueue_destroy`; pipes, wait queues and ring buffers; the search for the PHY and
its reset; the configuration of sensor, LCD and touch controller; the components marked
`not_modelled` in `PROJECT.json`.

Nearly all of the repository's 1.1 million lines are third-party code and data: CMSIS
register headers of every STM32F4 part, the HAL, LVGL with its fonts and examples, and
lwIP. They are not this program's logic and most of them are not compiled into it, so
the modelled share of all lines stays small although the kernel's blocking objects, the
heap and the application's own threads are covered.

## 7. What is left

* Data queue: `ItemIsClaimed`, with a form of `CallsInv` for a locked scheduler.
* `rt_mutex_detach` and `rt_workqueue_destroy` are not modelled.
