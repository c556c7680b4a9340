# A TLA+ model of libev (the RT-Thread fork)

The core of this repository is `src/src/ev.c`, a single-threaded event loop:
programs register *watchers* (an fd, a time, a signal, ...) with callbacks, and
`ev_run` calls them. Nearly all of it runs in one thread. What makes it hard is
that callbacks may change everything under the running loop, that other threads
and signal handlers may wake the loop up without any lock, and that the kernel
keeps state of its own about fds that the loop has to follow without being told.

This directory models those parts in TLA+, checks the models with TLC on small
instances, and proves the central invariants with TLAPS for all instances. Line
numbers below are those of `src/src/ev.c` unless a file is named.

## 1 Inventory

| Component | State | Operations | What is hard | What makes it correct |
|---|---|---|---|---|
| event dispatch (2310-2361, 3740-3781, 4282-4308) | `pendings`, `pendingcnt`, `pendingpri`, `w->pending` | `ev_feed_event`, `ev_clear_pending`, `ev_set_priority`, `ev_invoke_pending` | callbacks feed, clear and dispatch recursively while the arrays are being emptied through shared indices | indices and entries agree; nothing is skipped or called after it was cleared; priorities are respected |
| wake-up pipe (2737-2896, 2900-2924, 4094-4173, 5422-5448) | `w->sent`, `signals[].pending`, `sig_pending`, `async_pending`, `pipe_write_wanted`, `pipe_write_skipped`, `evpipe` | `ev_async_send`, `ev_feed_signal`, `evpipe_write`, `pipecb`, the handshake in `ev_run` | lock-free between threads and signal handlers, full pipes, store buffers | no send is lost, every send gets a callback, the loop becomes quiet |
| timers and heaps (2574-2717, 3808-3844, 4389-4478) | `timers`, `w->at`, `w->active`, the heap's cached times, `rfeeds` | `ev_timer_start/_stop/_again`, `timers_reify`, `feed_reverse_done`, the heap operations | index arithmetic, cached times, changes between an expiry and its callback | heap order, no overdue timer, order of expiries, no cancelled expiry, termination |
| event loop (4026-4212, 5084-5441) | `activecnt`, `loop_done`, `loop_depth`, `postfork`, arrays of prepare, check, idle, fork and async watchers | `ev_run`, `ev_break`, `ev_ref`, `ev_loop_fork`, start and stop of each kind | nesting, arrays that change while they are queued, order of the phases, fork | reference count, array indices, `ev_break` obeyed, order of the phases, nothing lost over a fork |
| io watchers and epoll (2363-2558, 4336-4387, `src/src/unix/ev_epoll.c`) | `anfds`, `fdchanges`, `epoll_eperms`; the kernel's interest list | `ev_io_start/_stop`, `fd_reify`, `fd_kill`, `fd_rearm_all`, `epoll_modify`, `epoll_poll` | closed, reopened and duplicated fds; deletions that are not sent; failing `epoll_ctl` | kernel in sync before each poll, no foreign events, no spinning |
| other backends (`ev_select.c`, `ev_poll.c`, `ev_kqueue.c`, `ev_port.c`, `ev_linuxaio.c`, `ev_iouring.c`) | fd sets, `polls` and `pollidxs`, change lists, iocbs, submission and completion rings; the kernel's side | `*_modify`, `*_poll`, `*_fork` | index maps that are compacted, failures reported late for a file that is gone, batches that fail in the middle, completions of removed requests, full rings, a switch to epoll while running | the kernel is asked for what is wanted; an open fd is not failed; every fd is armed while the loop waits; no stale events |
| periodics and time jumps (3039-3057, 3846-4024, 4232-4255, 4480-4552) | `periodics`, `mn_now`, `now_floor`, `rtmn_diff`, `timerfd` | `ev_periodic_*`, `periodics_reify`, `periodics_reschedule`, `time_update`, `timerfdcb`, `ev_suspend/_resume` | reschedule callbacks of the program, a clock that is set at any moment, times that all change at once | heap order after a jump, nothing is called twice for one time, nobody waits for an old time; timers do not notice |
| signal and child watchers (2926-3029, 4560-4716) | `signals[]`, `sigfd`, `childs[]`, `rpid`, `rstatus` | `ev_signal_start/_stop`, `ev_feed_signal_event`, `sigfdcb`, `childcb`, `child_reap` | several loops, marks left behind by stopped watchers, one SIGCHLD for several children, order by priority | a signal goes to its loop only; each status is delivered before the next is fetched; all that happens is reported |
| stat watchers (4738-5081) | `fs_hash`, `w->wd`, `w->attr`, `w->prev`, the internal timer; the inotify queue | `ev_stat_start/_stop`, `stat_timer_cb`, `infy_*` | chains changed while they are walked, watches that end while their events are queued, references that are not counted | chains and descriptors agree, references balance, no change is missed but in known windows |
| embed watchers (5207-5320) | the embedded loop and its changes | `ev_embed_start/_stop/_sweep`, `embed_io_cb`, `embed_prepare_cb`, `embed_fork_cb` | a loop inside a phase of another, forks of both | when the outer loop blocks, it watches an inner one that is up to date |
| `ev_once` (5461-5511) and the libevent emulation (`src/src/event.c`) | a timer and an io or signal watcher with one callback | `ev_once`, `event_set/_add/_del/_active`, their callbacks | both watchers pending at once, memory freed by the first callback | one call, with all that happened, and nothing left behind |
| loop creation and destruction, fork (2741-2780, 3059-3080, 3363-3551, 3700-3738) | `backend_fd`, `evpipe`, `timerfd`, `sigfd`, `fs_fd` and the watchers on them | `ev_default_loop`, `evpipe_init`, `loop_fork`, `ev_loop_destroy` | descriptors made on first use, system calls that fail half-way, writers to the pipe that are not stopped | no descriptor leaked, shared with the parent, or closed when it is another's by now |
| state machine engine (`examples/c/uart-hsm/state_machine.c`) | `current_state`, the entry path | `hsm_init`, `hsm_dispatch`, `hsm_perform_transition`, ... | actions that dispatch or transition recursively | entered and left states match the hierarchy |
| uart example (`spsc_queue.h`, `hsm_parser.c`, `uart-ring-hsm.c`) | the ring, the parser's context | push and pop, `hsm_parser_put_byte`, the interrupt thread and the loop | a lock-free ring, wake-ups that are sent when it is full, frames in pieces | no byte lost, repeated or read early; whole frames only; the program ends |
| `hsm-echo.c` | per connection: machine, queue, list links | `conn_cb`, `accept_cb`, `teardown`, `sig_cb` | partial writes, also just before an error, ends of file with bytes to send, removal in any order | bytes come back in order, connections end drained, the list stays whole |
| `fs-hsm.c` | machine, flags under a lock, the file | `step_cb`, `done_async_cb`, `worker_main` | two threads that ask each other, kicks that cross the worker's answer, failing writes, the end of the program | DONE means written and synced; a request ends unless its kick is lost; the worker ends |

How they interact: every source of events (fds through `fd_event`, timers
through `rfeeds`, asyncs and signals through `pipecb`, arrays of watchers
through `queue_events`) calls `ev_feed_event`; `ev_run` orders the sources and
calls `ev_invoke_pending`, whose callbacks may call anything again, also
`ev_run`. Other threads reach the loop only through the wake-up pipe, or
between the user's release and acquire callbacks. A fork is announced by
`ev_loop_fork` and carried out by `loop_fork` in the next iteration.

`PROJECT.json` lists the hazards of this code, each at its line with the
properties aimed at it, and which lines every definition stands for.

## 2 Modules

| Module | Models | Builds on |
|---|---|---|
| `PendingOps` | the pending arrays and the operators on them | |
| `EventQueue` | abstract: what dispatch promises | |
| `EvPending`, `EvPendingProofs` | the dispatcher as a state machine, its theorems | `PendingOps`, `EventQueue`, `DataStructureProofs` |
| `EvPipe`, `EvPipeProofs` | the wake-up protocol, one action per memory access; its theorems and `EvLifecycle`'s | |
| `Heap` | the d-ary heaps, as functions | |
| `DataStructureProofs` | what the operations on heaps and on the pending arrays do, as lemmas and theorems | `Heap`, `PendingOps` |
| `EvTimers`, `EvTimersProofs` | relative timers in the loop, their theorems | `Heap`, `PendingOps`, `DataStructureProofs` |
| `EvLoop`, `EvLoopProofs` | `ev_run`, its phases and nesting, arrays of watchers, asyncs, fork; its theorems | `PendingOps`, `DataStructureProofs` |
| `EvEpoll`, `EvEpollProofs` | fds, `fd_reify` and epoll with the kernel's side; their theorems | |
| `FdOps` | the fd layer of `ev.c` as operators on a record, and epoll as the fallback of others | |
| `EvBackends` | select, poll, kqueue and port | `FdOps` |
| `EvLinuxaio`, `EvIouring` | the two backends with requests of their own, and their switch to epoll | `FdOps` |
| `EvPeriodic` | periodics, clocks and their jumps | `Heap` |
| `EvSignal` | signals and children in several loops | `PendingOps` |
| `EvStat` | stat watchers and inotify, in steps of one system call | |
| `EvEmbed` | two loops, one inside the other | |
| `EvEvent` | `ev_once` and libevent's events | |
| `WatcherProofs` | the theorems about the watcher types: `EvEmbed`, `EvEvent`, `EvSignal`, `EvPeriodic` | each of these, `DataStructureProofs` |
| `EvLifecycle` | the descriptors of a loop from creation to destruction | |
| `HsmOps`, `Hsm` | trees of states; the engine with its recursion | |
| `HsmParser`, `Spsc`, `UartRing` | the frame parser, the lock-free ring, and the program of both | `Spsc`, `HsmParser` |
| `EchoServer`, `FileWriter` | the two other state machine programs | `HsmOps` |
| `ExampleProofs` | the theorems about the example programs: `Spsc`, `Hsm`, `FileWriter`, `EchoServer` | each of these, `DataStructureProofs` |
| `MC...` | the values of the constants for TLC, and the runs that take several modules | each of the above |

How they correspond to the code:

* **`EvPending`**. `q` holds `pendings[]` (a sequence per priority), `w->pending`
  (`q.pending`) and `w->priority`. `ev_invoke_pending` has no local variables:
  its place in its two loops is `pendingpri`, shared with every feeder and every
  nested activation. An activation is thus just the callback it is running
  (`calls`), and the innermost may be between two (`scanning`). User code is
  enabled whenever `~scanning`. The dummy watcher `pending_w`, which takes the
  place of a cleared one, is a model value.
* **`EventQueue`** is the promise to the user: a partial function from watchers
  to accumulated event sets, and `Deliver` of one with the highest priority.
  `EvPending` implements it under `pendBar`, which reads the array entry behind
  each index.
* **`EvPipe`** has a program counter per sender and one for the loop, and
  (with `StoreBuffers`) a FIFO store buffer per thread. `ECB_MEMORY_FENCE` is
  "my buffer is empty"; RELEASE and ACQUIRE are compiler barriers on x86 and
  have no effect. A signal handler runs on the loop's buffer and keeps the loop
  from running. A write to a full pipe does nothing (`EAGAIN`), and `pipecb`
  reads at most `DUMMY_SIZE` bytes.
* **`Heap`**: the element that moves takes a path up or down; the result of the
  loop is the shift along that path. A heap state holds the positions
  (`w->active`) too, because every move has to write them.
* **`EvTimers`** is a loop "user, update, reify, invoke" around the timers.
  One action of `timers_reify` is one round of its loop. Times are small
  integers; the clock moves forward by any amount.
* **`EvLoop`** keeps a stack of `ev_run` frames (phase, flags, running
  callback). Each phase is an action of its own, `ev_invoke_pending` is a step
  per callback (`EvPending` justifies the choice of the callback), and user code
  runs in the innermost callback, or outside of all.
* **`EvEpoll`** has two halves: libev's (`anfds`, `fdchanges`, `epoll_eperms`)
  and the kernel's (which file is behind an fd, which files have other
  descriptors, the interest list by fd *and* file). `epoll_ctl` answers as the
  kernel does (ENOENT, EEXIST, EPERM, ENOMEM), and a registration disappears
  only with the last descriptor of its file. `epoll_eperms` is a set here:
  `epoll_poll` goes through all of the array, and what it finds depends neither
  on the order nor on how often an fd is in it.

* **`FdOps`** does for the other backends what `EvEpoll` does for epoll: a
  record `L` holds `anfds`, `fdchanges`, the active watchers and what is pending.
  `fd_reify`, `fd_kill`, `fd_ebadf`, `fd_enomem` and `fd_rearm_all` take the
  backend's `modify` as an argument, as `ev.c` calls it through a pointer.
* **`EvBackends`**: an fd is closed or open as a numbered file; the kernel's side
  is what it was asked to watch. `stale` marks what kqueue still has queued from
  before a fork, see below. kqueue answers each queued change by itself: `EBADF`,
  `ENOENT`, or, for any of the additions, an error of another kind (a filter the file does
  not have, no memory), after which `kqueue_poll` stops the watchers of an open fd.
  `refused` remembers those fds for the properties, until the kernel is told of them again.
* **`EvLinuxaio`** and **`EvIouring`** have the kernel take requests one by one,
  fail in the middle of a batch, and complete requests late. A generation
  (`egen`) belongs to each request. In `EvIouring` `fd_reify` is a step per fd,
  because it may have to call the kernel when the queue is full.
* **`EvPeriodic`** has the monotonic and the real clock (`mono`, `real`), and
  `now` as the loop's copies of them. `SetClock` is anybody's; `phase` is the
  place in `ev_run`, reduced to where the time is read. Whether the system has a
  monotonic clock and a timerfd is chosen in the initial state (`have_monotonic`,
  `timerfd`). `Recalc` gives what the loop of `periodic_recalc` ends with;
  `MCWatchers!RecalcIsTheLoop` compares it with the loop.
* **`EvSignal`** keeps `signals[]` with `pending` and `loop`, `childs[]` by
  `pid & (EV_PID_HASHSIZE - 1)`, and a queue `q[l]` per loop. What loops over the
  table and the chains (`pipecb`, `child_reap`) is a recursive function. `arrived` and
  `news` are the kernel's: blocked signals and children with a status.
* **`EvStat`**: other processes change files between any two system calls, so
  `todo` is the rest of the C stack and one step takes its first element.
* **`EvEmbed`** reduces both loops to what they hand to each other: the changes
  the inner one has queued, what its kernel knows and what is ready in it.
* **`EvEvent`** has two watchers per pair, active or not, pending with a set of
  events. Pending watchers are called in any order.
* **`EvLifecycle`** keeps the descriptor table `fdt` of the process over numbered
  open files (`objects`). `loop_fork` and `evpipe_init` are sequences of system
  calls, and another thread may open files between them.
* **`Hsm`** has the C stack of `hsm_perform_transition` as a sequence of
  activations; the actions of states and transitions are chosen by the table.
* **`HsmParser`** sees bytes of `Byte` values and a `frame.data` of `DataMax`. The byte
  that `action_store_data` puts behind `frame.data` takes the parser to `Overrun`, the end
  of the model: what it overwrites is not modelled. `line` keeps the bytes that led there,
  so that the properties say of every line whether it does.
* **`Spsc`** separates copying from storing an index. `BARRIER` is whether the build orders
  the two; as `spsc_queue.h` defines its barrier nothing does, and the store may come
  first. **`UartRing`** adds the interrupt thread and the loop.
* **`EchoServer`**: `conn_cb` is one action from the poll's answer to its return,
  with peers that write, read and close. A peer may break its connection at any moment,
  also between two calls of `send` in one `try_flush`: the second fails, and what the first
  has sent stays in the queue (`Broken`). What a flush or a callback may make of a
  connection is therefore a set. **`FileWriter`** has the worker in steps between its lock
  operations; the last of them, `WorkerReleases`, is where it clears `worker_busy`.

`MCBackends`, `MCWatchers` and `MCProgress` check modules with no state in
common in one run: a variable `part`, chosen in the initial state, says which
of them takes steps; the variables of the others stay in an initial state. Every
behaviour is thus one of a single module, every property is about the part of
its name, and the state space is the sum and not the product of the parts.

Definitions preceded by a `Bug:` comment are not part of the models: each is a
plausible mistake in the code that stands after it, kept to show that a property
would find it (`"mutants"` in `PROJECT.json`).

## 3 Runs

| Run | Question | Bounds, and why they are enough |
|---|---|---|
| `pending` | Do the arrays survive callbacks that feed, clear, change priorities and dispatch recursively, and do they implement `EventQueue`? | 2 watchers, 2 priorities, 2 event bits, 2 nested activations, queues of 2: an entry below and above another, a higher priority fed from a lower, a dummy left behind. The same properties are proved for any bounds. |
| `pipe` | Is a wake-up lost, does every send get a callback, does the loop become quiet? | One signal and one async (both flags), a thread and a handler that race in `evpipe_write`, a pipe of 2 bytes read one at a time, so that it fills and is read in parts. |
| `pipe_locked` | The same under x86 store buffers, if callbacks lock before they read (the use `ev.pod` shows). | Two threads, a handler, one async, an eventfd. |
| `pipe_tso` | **violated**: the same without a lock. | One thread, one async. |
| `timers` | Part `heap`: is every result of every heap operation a heap with right indices and the same elements? Part `timers`: are expiries complete, in order, once per iteration and never after a cancellation? | All 4-heaps of at most 10 elements (three levels, incomplete last group). 3 timers in a 2-heap (two levels, an element can be replaced from the other branch), repeats 0 and 1, times to 3, one event of the user's per queue. |
| `loop_phases` | Order of the phases, asyncs over a fork. | One watcher of each kind that is involved, two priorities, one event of the user's own, one uncompensated `ev_ref` or `ev_unref`, polls that block and polls that may not because nothing counts, a watcher is idle or a fork is pending. |
| `loop_release` | **violated**: is `ev_break` obeyed between release and acquire, with assertions compiled in? | One io watcher. |
| `backends` | Does each backend ask the kernel for what the watchers want, before each poll, and are events and failures of other files kept from them? | Part `epoll`: one fd, a reader and a writer, three files of which epoll refuses one, two generations. `epoll_fails`: two fds, so that a change is queued behind the failing one, with a watcher each and two files (`EpollBounds`). `others`: two watchers of one fd and one of another, three opens, for each of the four backends. `linuxaio`: a context of 2 requests for two fds, of which aio does not poll one, one larger context, two generations. `iouring`: a ring of 1 that can grow to 2, timeouts, one fork. `overflow`: a ring that cannot grow, two fds, so that epoll takes over. |
| `epoll_restart` | **violated**: is the kernel in sync after a failure and a restart? | One fd, one watcher. |
| `iouring_busy` | **violated**: does `fd_reify` get its sqes? | A ring of 1, two watchers and the timerfd. |
| `watchers` | The watcher types of section 1 from the periodics on, `hsm-echo`'s list. | Part `periodic`: systems with and without a monotonic clock and a timerfd (two periodics on the plain one, the second with the longer interval, one on the others), times to 8, one setting of the clock, intervals below and above the resolution. `local` and `remote`: two watchers of one path and a queue of 3, two changes of the file, so that a queue overflows and a watch ends while events are queued. `forked` and `restarted`: descriptors to 10, one fork, one failing call each, one destruction followed by a new creation. `event`: an `ev_once` and an event each with `EV_PERSIST`, without it and of a signal, one after the other, since they share nothing. `handler` and `signalfd`: two loops, two signals, two pids of different chains and a watcher of all pids. `echo`: three connections, so that the first, the middle and the last are removed. |
| `progress` | Nested `ev_run`s, the embedded loop and the programs: safety and progress. | Parts `loop` (two nested calls, an io and two prepare watchers of different priorities, one uncompensated `ev_ref` or `ev_unref`), `signal` (one loop, a watcher of a signal and one of any of two children), `embed` (one fd), `hsm` (five states, three levels, transitions started in actions), `parser` (4 values of a byte, `frame.data` of 4, so that two of the length's bytes are needed and overrun it), `ring` (two frames through 4 bytes), `unordered` (one frame, without an ordering barrier), `echo` (2 bytes each way, a full socket), `files` (two chunks, failing writes). Small, because liveness is checked in it. |

Every bound is a constant named in its module (`MaxDepth`, `MaxFrames`, `MaxQueue`,
`MaxRefs`, `Fed`, `MaxTime`, `MaxSets`, `MaxGen`, `MaxLen`, `MaxAt`, `MaxOpens`,
`MaxForks`, `MaxContexts`, `MaxChanges`, `MaxCalls`, `MaxFd`, `MaxObjects`,
`MaxUsers`, `MaxSignals`, `MaxBackends`, `MaxBytes`, `MAX_WD`, `KERNEL_QUEUE`,
`KERNEL_ENTRIES`, `PIPE_SIZE`, `DUMMY_SIZE`). Deadlock is checked in `pending`,
`pipe`, `pipe_locked`, `timers`, `loop_phases` and `progress`; in `progress` the
two programs that come to an end may stutter once they have (`Finished`: the server was
told to stop and has no connection left, the file writer's `main` has returned), and
in `timers` the part `heap`, which makes one operation. A file writer whose kick is lost is
no deadlock in this sense, as `pthread_cond_wait` may wake up without a reason and wait
again; it is named by `EndsUnlessKickLost`. `backends`, `watchers` and `iouring_busy`
do not check it: their clocks and their numbers of opens, forks and signals are
bounded, and a bounded system stops.

Most properties of the combined runs are conjunctions, named after the parts'
own properties in their comments. They belong together: for instance
`PeriodicsKeepTime` is that the heap survives a jump and that a pass over it ends,
which are broken by different mistakes in `periodics_reschedule` and `periodics_reify`.

Two of the conjunctions say different things of different builds or histories:

* `BytesDelivered` asks of the ring with an ordering barrier that nothing is lost,
  repeated or read early, and of the ring as the header defines it (`unordered`) only that
  the indices count right. The rest does not hold there, see below. Of the parser it asks
  for every whole frame and nothing else, and that it leaves `frame.data` for exactly the
  lines that announce and send too much (`OverrunsIfTooLong`).
* `ProgramsEnd` names the one way in which `fs-hsm` does not end (`KickLost`). Of
  `uart-ring-hsm` it asks that the program ends in both builds.

### Fairness

Three runs check liveness.

* `EvPipe!FairSpec`: a call of `evpipe_write` that has begun goes on, stores
  reach memory, and the loop's thread runs. The last is *strong* fairness:
  signal handlers interrupt the thread, so its steps are enabled and disabled
  again and again, but a handler that returns gives the processor back. Nobody
  is obliged to send, and nothing but the pipe ends a blocking poll
  (`PollOther` has no fairness): a lost wake-up may not be healed by luck.
* `MCProgress!MCFairness`: weak fairness of what runs in a thread of its own:
  the loop's next step (`EvLoop!LoopStep`, `EvSignal!LoopStep`,
  `EvEmbed!BothLoops`, `UartRing!Loop`, `EchoServer!conn_cb`, `FileWriter!Main`),
  which includes the return of a callback; the interrupt thread (`Isr`); the
  worker (`Worker`); and a peer that reads what it was sent (`PeerReads`),
  without which an echo server owes nothing. No fairness for files that become
  ready, signals, peers that write, or for the clock. Callbacks that never
  return are the user's problem, and so is one that feeds itself for ever:
  `BreakReturns` is checked with `Fed = {}`.
* `EvIouring!UringFairness` (in `iouring_busy`): the loop goes on in `fd_reify`,
  and the kernel handles what it was given.

### What the violated runs show

1. `pipe_tso`: `pipecb` resets `asyncs[i]->sent` and issues only a RELEASE fence
   (2890), which is no instruction on x86. The callback can look at the
   sender's data while the reset is still in the store buffer; a sender that
   publishes data and sets `sent` in between is overwritten by the reset and
   never seen. A lock in the callback, as in the example of `ev.pod`, or any
   full fence closes the gap (`pipe_locked`).
2. `loop_release`: with assertions, `ev_run` sets `loop_done` to
   `EVBREAK_CANCEL` after `backend_poll` (4164), so an `ev_break` between
   release and acquire is lost, which `ev.pod` names as a way to stop the loop.
3. `epoll_restart`: when `epoll_ctl` fails, `fd_kill` stops the watchers but
   `anfd->events` keeps the new events; a watcher started again in its error
   callback finds nothing changed and is never registered (`ev_epoll.c`:136).
4. `iouring_busy`: `iouring_enter` forgets how many sqes wait (`ev_iouring.c`:242)
   also when `io_uring_enter` failed with `EBUSY`. `iouring_sqe_get` then empties
   the completion queue as its comment says (278), but submits 0 sqes from then
   on, the queue stays full, and it never returns.

Also met while modelling, and not kept as runs:

* `evpipe_write` (2788) tests and sets its flag in two steps, so two threads can
  each make a system call in one iteration; `ev.pod`:3617 says at most one.
* `pipecb` (2892) feeds asyncs on top of queued check watchers of the same
  priority; `ev.pod`:1277 says check watchers come first.
* The fork watchers (4056) are called also when only epoll asked for new kernel
  state (`ev_epoll.c`:184); `ev.pod`:3394 says only in a child.
* `loop_fork` (3546) feeds `pipe_w` to make up for a lost byte, but the poll that
  follows may block first. `AsyncNotLost` states what does hold.
* `fd_rearm_all` (2555) clears the mark that an fd is in `epoll_eperms`, so each
  fork adds it once more; `ev_epoll.c`:124 says "if not already inside".
* `emask` (`ev_epoll.c`:84) may name a registration the kernel has dropped;
  `libev-LLD-Design.md`:396 says the two agree. `InSync` states what does hold.
* `ev_signal_stop` (4660) leaves the mark of a pending signal; a watcher started
  later, in another loop too, is called for a signal from before its start.
* With a timerfd (`timerfdcb`, 3047) periodics may be called with `ev_now ()` ahead
  of the loop's time, before their own; `ev.pod`:2341 says never before it. A clock
  set back while the program is suspended counts twice without a monotonic clock, and
  several steps below `MIN_TIMEJUMP` add up without a rescheduling.
* `stat_timer_cb` (5010) compares with `prev` before it updates it, and a callback
  can find `prev` equal to `attr` when `stat_timer_cb` was called again in between.
  A change is missed between `ev_stat_start`'s `lstat` and the watch,
  between `infy_add` and the next `lstat`, in `infy_fork`, and when the queue
  overflows and drops an `IN_IGNORED`; `ev.pod`:2805 allows for some of it.
  `ChangeNoticed` excludes exactly these windows (`blind`).
* `kqueue_fork` (`ev_kqueue.c`:195) does not reset `kqueue_changecnt`: changes queued
  for the parent are sent for the child.
* `iouring_fork` starts `tfd_w` again without the `ev_unref` of `iouring_init`
  (`ev_iouring.c`:684 "watcher should not keep loop alive"), so that it does keep
  the child's loop alive (`EvIouring!TfdKeepsNoLoopAlive`).
* `ev_loop_destroy` of a default loop with active watchers and a second
  `ev_default_loop`: `activecnt` is not set to 0 (`ev.pod`:3426 says the loop is
  fresh), and `timerfd_w` stays active, so that no timerfd is made
  (`EvLifecycle!FreshLoop` with `ORPHANS`).
* An inner loop that was given a new kernel state by `ev_loop_fork` is swept only
  after it has run once; an embed watcher started before that waits on the old
  one (`EvEmbed!SweepReaches` with `EMBED_RECREATES`; `ev.pod`:3282).
* `event_del` (`event.c`:276) clears what is pending of the timer only if it is
  active: a timeout fed by `event_active` survives, see section 4.
* `state_machine.c`:48 says that the first transition executes the full entry path.
  `hsm_init` runs no entry action at all: the common ancestor of no state and the
  target is taken to be the target, and the path is empty (`Hsm!InitialStateEntered`).
* `kqueue_poll` (`ev_kqueue.c`:137 to 141) stops the watchers of an open fd when the kernel
  refuses a change, and leaves `anfd->events` behind as `epoll_modify` does (3 above): a
  watcher started in the error callback is not registered. `KernelAsked` excludes fds that
  were refused and not told of again, and `OnlyClosedFdsFail` allows these to fail; without the first exemption
  `KernelAsked` is violated. The assertions of these branches (133, 139) are taken to be
  compiled out.
* `hsm_parser.c` checks the length (139, 140) when only its low byte is known; the high byte
  is added later (176) and not checked. Frames with 254 and 255 bytes of data are refused.
  With more than 256 bytes and a low byte that passes, `action_store_data` (204 to 214) goes
  on past `frame.data`, of 256 bytes, and `payload_buf`, of 260, though the guard is there
  to see that the data fits `HSM_FRAME_DATA_MAX`. `HsmParser!OverrunsIfTooLong` says for
  which lines this happens.
* `spsc_queue.h`:20 to 22 defines `SPSC_QUEUE_DMB` as `((void)0)` for every compiler, and no
  build file of the repository defines it otherwise. The comment above it (14 to 18) says
  that it emits a `dmb` on ARM GCC and that it completes all memory accesses before it.
  Nothing then keeps the plain copy of the bytes before the store of the volatile index,
  for the compiler or the processor. In the part `unordered` of `progress` TLC finds a byte
  popped before it is written when it is asked for `Spsc!NoRace` or `UartRing!AllDelivered`;
  what holds in every build is `CountedRight`. The order of *loads* is taken to be the
  program's: `spsc_queue_pop` has no barrier at all between its load of `tail` and its reads
  of the buffer (204 to 223), which a processor that reorders loads may need.
* `hsm_parser_reset` does not go through IDLE's entry as
  `hsm_parser.h`:102 has it (`HsmParser!ResetParserIsIdle`).
* `hsm-echo.c`: bytes can be dropped with room in the queue (178, 189;
  `EchoServer!LossOnlyWhenFull`); RECEIVING keeps `EV_WRITE` armed after FLUSHING;
  after a failed write in FLUSHING the connection stays in FAILED until SIGINT. When a
  `send` fails after an earlier one of the same `try_flush` (125 to 137) took a part of the
  queue, that part stays in the queue; it is not sent twice only because the connection has
  failed. The comments 26 to 28 and 252 to 253 say that an end of file with bytes still to
  send is deferred by ESTABLISHED, which parks the connection in CLOSING. No handler does
  so: ESTABLISHED has none for `EVT_EOF`, CLOSING is entered with an empty queue only, and
  `conn_cb` (343 to 354) leaves the connection in FLUSHING, where the end is met again once
  the queue is sent.
* `fs-hsm.c`:11 says every request goes from WRITING by SYNCING to DONE or FAILED. The
  worker sends its answer (148) before it clears `worker_busy` (151). If the loop handles
  the answer in between, it sets `worker_busy` for the fsync (246 to 250), the worker
  then clears it and waits for a kick that was already given: the program stays in SYNCING
  for ever (`FileWriter!RequestEnds` is violated). `KickLost` is the state before the
  worker does so, and `EndsUnlessKickLost` says that there is no other way not to end.

## 4 Proofs

**Dispatch** (`EvPendingProofs`), from `PendingAssumption` only (at least one
priority, the dummy watcher is no user's). The inductive invariant is

    IInv == TypeOK /\ QueueConsistent /\ HigherDrained

`QueueConsistent` alone is inductive with the types, but `HigherDrained` is what
makes `ReturnsDrained` provable: when the scan leaves priority 0 nothing is
above. Four lemmas (`FeedGood`, `ClearGood`, `PopGood`, `SetPriorityGood`) say
that the operators keep the arrays and indices consistent; three more
(`FeedBar`, `ClearBar`, `PopBar`) say what each does to the abstract queue, and
`InitRefines` and `StepRefines` put them together to `Refinement`: each step of
the arrays is a step or a stutter of `EventQueue`. The bounds `MaxDepth` and
`MaxQueue` are arbitrary.

**Heaps** (`DataStructureProofs`), from `HeapAssumption` (at least two children), for
heaps of any length and times that are any integers. `InsertDone`, `DeleteDone`,
`SetAtDone` and `ReHeapDone` say of each operation what the run `timers` checks on
heaps of at most ten elements: its result is a heap, every watcher's `active` is its
position, 0 if it is not in the heap, and the elements are those they should be, with
the times they should have. `FirstIsEarliest` says why anybody wants a heap. The
argument follows the code: while `upheap` or `downheap` carries an element along a
path, all is in order but at its place (`OrderedBut`), and it belongs
somewhere on that path. The two loops are
recursive functions over positions, and what they compute is proved by the induction on
the numbers: a set that contains 0 and with each number the next contains them all
(`InductOnNat`, from the well-foundedness of finite sets; the library's own theorem takes
an operator, which the provers cannot instantiate). The same lemma
carries the folds of the pending arrays (`ArrayGrows`: `queue_events` feeds a whole
array in order).

**Timers** (`EvTimersProofs`), from `TimeAssumption`, `EventAssumption`,
`HeapAssumption` and `PendingAssumption`, for any finite or infinite set of timers,
`after`s, repeats, priorities and bounds. The properties are about one iteration, the
inductive invariant about what the loop carries from one to the next:

    TimersInv == HeapKept /\ QueueKept /\ Reified /\ PhaseKept

`HeapKept` is the heap and the watchers' own times; it also says that a stopped timer's
`at` may be relative, which `ev_timer_start` and `ev_timer_again` rely on when they add
the loop's time. `QueueKept` says that an expiry that is remembered (the ghost `due`) is
in a queue or in `rfeeds`, and that an `EV_TIMER` in a queue is one that is remembered:
an `ev_timer_stop` in between has to remove it from both. `Reified` is what
`timers_reify` has collected so far: in order of their times, each once, none later than
what is still in the heap and none that will be found again, because a repeating timer's
new time is not before the loop's. `PhaseKept` says that the queues are empty when the
collection starts, without which `feed_reverse_done` could put the expired timers behind
or into entries of another iteration. The step that needs most is the last: the pending
arrays are emptied from their end, so that `rfeeds` has to be fed in reverse for the
callbacks to come in order (`Fed`, `FedOneMore`).

**Wake-ups** (`EvPipeProofs`), from `PipeAssumption`, `TargetAssumption` and
`StoreBuffers = FALSE`, for any number of threads, handlers, signals and asyncs
and any size of the pipe. `NothingForgotten` is far from inductive. The invariant
`WakeupChain` says who remembers a send at every moment: an unseen send is
marked or queued; a mark has its flag set, or `pipecb` has still to look at it,
or its sender is about to set the flag; a set flag has a skipped write, a byte
in the pipe, a coming `pipecb` or a sender on its way; and if a blocked loop did
not see a skipped write, the sender that skipped is about to see that a write
is wanted.

**Descriptors of a loop** (`EvPipeProofs!DescriptorsAreOwned`, `WriteEndIsStable`), from
`LifeAssumption` only (a table of descriptors of some length), for any features and bounds,
any system calls that fail and any files that other threads open between two of them. It
stands beside the wake-up protocol because that one takes for granted what is proved here:
`evpipe [1]` stays the same and open. `DescriptorsOwned` is about what is left between two
calls, the inductive invariant about the steps inside them:

    LifeInv == LifeTypes /\ OwnKnown /\ FdsOpen /\ PipeOpen /\ Renewed /\ ~strayed

`OwnKnown` says that a file of the loop is where the loop looks for it: in the variable of
its kind, or while `evpipe_init` runs in its local `fds`. `FdsOpen` and `PipeOpen` are the
other direction: what a variable names is open and of that kind, or it is -1 (or -2, not
tried yet), so that no `close` hits a descriptor that another thread has got in the
meantime; and an fd that is open has its internal watcher active, by which
`ev_loop_destroy` decides what to close. `Renewed` follows a fork: what `loop_fork` does not
have on its list any more is a file of the child's own. The least obvious step is a
`loop_fork` that only the backend asked for (`postfork = 2`) and that leaves pipe and timerfd
as they are: this is right only because `postfork` is 2 or 0 only when nothing is the
parent's.

**Break** (`EvLoopProofs!BreakIsObeyed`), from `NDEBUG \/ ~RELEASE`: what the run
`loop_release` shows to be necessary. The inductive invariant `BreakInv` says which
frames of the stack run a callback (the innermost may be between two, the
others may not), that frames that were told to return are there, and what
`loop_done` remembers of them: nothing when it is CANCEL or RECURSE, at most the
innermost frame when it is ONE. Without the last part a nested `ev_run` that
takes the ONE for itself could not be told from one that takes it from the
outer frame.

**References and arrays** (`EvLoopProofs!LoopStaysConsistent`), from
`LoopAssumption` only, for any finite set of watchers and any nesting. `LoopInv`
says for each array that the indices of its watchers are its positions; the types of
the rest of the state, which `LoopConsistent` includes, need only that. The hard steps are the
stops: `TakeOut` moves the last element into the hole, whose index has to follow,
and the count of active watchers drops by one exactly when one was active.

**Phases of the loop** (`EvLoopProofs!NoAsyncLost`, `PhasesStayInOrder`), from
`LoopAssumption` only, for any watchers, priorities, nesting and other threads. The
inductive invariant is

    PhasesInv == FramesInv /\ ArraysInv /\ QueuesOK(q, gathered)
                   /\ GatherInv /\ AsyncInv /\ ForkInv

`QueuesOK` says what may be in the queues: an event of a kind only for watchers of the
kind, and of two entries of one priority the check watcher above what the poll reported.
`GatherInv` says that nothing but fds is queued while the innermost `ev_run` polls, so that
the check watchers it queues afterwards are above all else. `AsyncInv` is the chain of
the wake-up seen from the loop: an async that was sent has been fed, or there is a byte in
`evpipe`, or a skipped write that the loop looks at before it blocks, or `pipe_w` is
pending. `ForkInv` follows the fork watchers from `ev_loop_fork` to their callbacks.
All of these have to hold in the presence of frames further out in the stack, which are in
some phase of their own with their entries still queued.

**io watchers and epoll** (`EvEpollProofs`), from `EpollAssumption`, for any finite set of
fds, any files and watchers, and any number of generations. Seven parts make the
inductive invariant

    EpollInv == TypeOK /\ FilesInv /\ ReportsInv /\ ChangesInv
                  /\ GenerationsInv /\ SettledInv /\ UnwantedInv

`ChangesInv`: `fdchanges` lists the fds with reify flags, each once. `GenerationsInv`: what
the kernel has for an fd and its file bears the generation libev believes in, whatever it
has of earlier files an earlier one, and one generation of an fd stands for one file; that
is why `epoll_poll` can tell a report of a closed file by its generation. `SettledInv`: an fd
without reify flags wants what `anfd->events` says, and the kernel has that for its file,
or refused it for good (EPERM), or nobody is left to whom it matters. `UnwantedInv`: what
was reported though nobody wants it is dropped or changed before the next poll, or a new
kernel state is due. From it follow `UnwantedIsGone`, and, with a
ghost `failed` that says whether `epoll_ctl` has failed to add an fd, `KernelInSync` and
`EventsAreOfTheFile`: `fdchanges` and the reify flags agree always, also after the `fd_kill`
that follows a failure, and the kernel is in sync and no event is of another file as long as
there was none. The restriction is necessary: the run `epoll_restart` shows how a failure
leaves `anfd->events` and the kernel apart; and the generation then is the one of the file
before, so that a report of a duplicate of that file passes for the new one's. `ChangesInv`
and `SettledInv` have two halves for it, one of which a failure ends.

**`ev_once` and events** (`WatcherProofs!OncesAndEventsAreCalledRight`), from
`EventAssumption` and `"to" \notin ACTIVATED`, for any sets of `ev_once`s and
events. `OnceInv` says that what happened to an allocated `ev_once` is still
pending with its two watchers, and nothing is pending or active of one that is
freed or not made yet. `AddedInv` says that an event's watchers are active or
pending only for what it was added or activated for, and that its timer is
pending only while it is active: that is why `event_del` may look at the timer's
active flag alone, and what an activated timeout breaks.

**The embedded loop** (`WatcherProofs!EmbeddedLoopIsWatched`), from
`EMBED_RECREATES = FALSE`, for any set of fds and any number of forks. `EmbedInv` says
that a change the inner kernel state is not told of is in `fdchanges`, which are
handed over before the outer loop blocks; that the outer loop watches the open
file of an active embed watcher or is about to be told to; and that nobody embeds
a loop that has a fork ahead of it. The last part is what `ev.pod` asks of the
program, and what makes the assumption necessary: a kernel state made anew while
it is embedded is another file than the one that is watched.

**Signals and children** (`WatcherProofs!SignalsStayAttached`, `StatusIsKept`), from
`SignalAssumption` and `PendingAssumption`, for any loops, with signal handlers or a
signalfd each, any finite set of signals, any watchers and children. `SignalInv` says of
each signal (`AttachInv`) that its list, its loop, its handler and its place in a signalfd
go together, and of each loop's queue (`QueueInv`) that a signal watcher in it is an active
one of this loop; it has to be about all loops, because `pipecb` of one looks at the marks
of the others. The other part of `QueueInv` is the argument of `childcb`'s comment: a child
watcher that is pending has the highest priority and stands *above* `childev` in the array,
which is emptied from its end. So when `childcb` is called no child watcher is pending,
and the status it is about to overwrite has been delivered. It holds over the two calls
of `child_reap` because `childcb` feeds itself first. `EV_MAXPRI` for the child watchers is
necessary (the mutant of `StatusKept`), and so is that a pending watcher's priority changes
only here: `Raised` may write it under a pending watcher, which is then one of the
highest priority already.

**Periodics and clocks** (`WatcherProofs!PeriodicsAreOnTime`, `TimersAreUnaffected`), from
`PeriodicAssumption` and `HeapAssumption`, for any periodics, offsets, intervals and resolution, any number of
settings of the clock, with or without a monotonic clock and a timerfd. `PeriodicInv` is

    Kept(periodics) /\ types /\ (polling => pending = {})
      /\ phase = "reify" => NoneAgain(periodics, pending, now.ev_rt_now)

`Kept` comes from the heap theorems: `periodics_reschedule` is a map over the elements
followed by `ReHeapDone`, and a periodic that was called
is given a later time and sifted down.
`NoneAgain` is why `periodics_reify` ends: `RecalcIsAhead` says that `periodic_recalc` never
returns a time before the present one, for any offset and interval, also below
the resolution. For the timers the one step that matters is `time_update` without a monotonic clock
after a poll: either it calls the difference impossible and shifts every timer by all of it,
or what is left is less than the time to block for and `MIN_TIMEJUMP`.

**The ring** (`ExampleProofs!RingIsCorrect`), from `SpscAssumption`: `Mod` is a
multiple of `Size` and greater. It has two halves. In every build `data_len` counts what
is stored and not released (`CountedRight`), by `IndexInv`, which is about the indices and
the calls alone. In a build that orders the copy and the index (`BARRIER`, a hypothesis
of this half, as the header does not make it true) nothing is overwritten or read early
and the bytes arrive in order, by `RingInv`; section 3 says what happens in another. `SpscSpec` is one producer and one
consumer with calls of any length and bytes of any value; each step `UartRing`
takes in the ring is one of it. `RingInv` replaces the indices by the positions in
the stream of accepted bytes they stand for, and says that these are at most
`Size` apart, that what is copied and not released is at its position's place,
and that each call works on the positions it began with. The rest is arithmetic
of remainders: an index that wrapped around has the place of its position
(`PlaceOfIndex`), unsigned subtraction gives the distance (`Distance`), and
positions less than `Size` apart have different places (`Apart`).

**The state machine engine** (`ExampleProofs!MachineStaysConsistent`,
`EntriesAndExitsAlternate`), from `MachineAssumption` and `NESTS \subseteq {"action"}`,
for any forest of states, any tables and guards and any number of nested activations:

    HsmInv == HsmTypes /\ FramesNest /\ Stands

`FramesNest` says that an activation below another one is in its action. `Stands` says what
`inside` is for each place the innermost one can be in: all of the current state's chain
of ancestors while it looks for a transition, runs its action or has not begun to move;
in between, the part of a chain above some position (`Upper`) together with the
exit actions left to run (`Leaving`, `LeavingItself`) or the entry actions left in the
buffer (`Entering`). An action may change `current_state` before its own transition
begins, and the engine reads it again after the action; that is why nothing has to be said
of the outer activations. `NESTS` is necessary: an exit or entry action that starts a
transition changes `current_state` and the one entry path buffer under the transition
it is part of. `state_machine.h` does not forbid it, the programs do not do it. Chains
of ancestors, common ancestors and the search for a handler are recursive functions over
the forest; what they compute is proved by induction on the depth that the assumption
gives each state.

**`fs-hsm`** (`ExampleProofs!FileStaysConsistent`), from `FwAssumption` (at least one
chunk). `FwInv` says for each state of the machine what the worker may be doing: in
WRITING it has its request and has written so much, or it has answered and rests; in SYNCING
the file is durable already and a second request is only made when the worker rests;
in DONE and FAILED it rests. Since the answer comes as an async, `done_sent` divides
each of these in two.

**`hsm-echo`** (`ExampleProofs!ConnectionsStayConsistent`, `ConnectionsEndDrained`), from
`EchoAssumption`, for any set of connections and any sizes of the queue, the buffer and
the socket. `EchoInv` has a part about each connection and one about the list:
`BytesInv` (what the peer was sent and will be sent is in the order in which it was read;
of a failed connection only what it was sent, because the queue of a flush that failed
half-way repeats a part of it),
`StateInv` (between callbacks a live connection is in RECEIVING with nothing to send, in
FLUSHING with something, or has failed) and `ListInv`. `ListIntact` asks for the set
that is reachable from the head; `ListInv` says it by the links and a rank that grows
along them, which an `accept` in front and a removal anywhere keep. `conn_cb` is taken
apart into its transitions, each of which is a run of exit actions, an action and a
run of entry actions of the program's seven states (`PerformEnds`, `PerformFailed`).

| Theorem | States |
|---|---|
| `EvPendingProofs!TypeCorrect` | `Spec => []TypeOK` |
| `EvPendingProofs!QueueIsConsistent` | `Spec => []QueueConsistent` |
| `EvPendingProofs!HigherIsDrained` | `Spec => []HigherDrained` |
| `EvPendingProofs!ReturnsOnlyDrained` | `Spec => ReturnsDrained` |
| `EvPendingProofs!Refinement` | `Spec => ImplementsEventQueue` |
| `EvPipeProofs!TypeCorrect` | `Spec => []TypeOK` |
| `EvPipeProofs!ChainHolds` | `Spec => []WakeupChain` |
| `EvPipeProofs!NoLostWakeup` | `Spec => []NothingForgotten` |
| `EvPipeProofs!SpecLifeInv` | `LifeSpec => []LifeInv` |
| `EvPipeProofs!DescriptorsAreOwned` | `LifeSpec => []DescriptorsOwned` |
| `EvPipeProofs!WriteEndIsStable` | `LifeSpec => WriteEndStable` |
| `EvLoopProofs!BreakIsObeyed` | `NDEBUG \/ ~RELEASE` gives `Spec => BreakObeyed` |
| `EvLoopProofs!LoopStaysConsistent` | `Spec => []LoopConsistent` |
| `EvLoopProofs!SpecPhasesInv` | `Spec => [](PhasesInv /\ LoopInv)` |
| `EvLoopProofs!NoAsyncLost` | `Spec => []AsyncNotLost` |
| `EvLoopProofs!PhasesStayInOrder` | `Spec => PhasesInOrder` |
| `DataStructureProofs!InsertDone`, `DeleteDone`, `SetAtDone`, `ReHeapDone` | the result of the operation is a heap with right indices and the expected elements |
| `DataStructureProofs!FirstIsEarliest` | in a heap nothing is earlier than its first element |
| `EvTimersProofs!SpecTimersInv` | `Spec => []TimersInv` |
| `EvTimersProofs!SpecTimersConsistent` | `Spec => []TimersConsistent` |
| `EvTimersProofs!SpecExpiredInOrder` | `Spec => []ExpiredInOrder` |
| `EvTimersProofs!SpecDueOrCancelled` | `Spec => DueOrCancelled` |
| `EvEpollProofs!SpecEpollInv` | `Spec => []EpollInv` |
| `EvEpollProofs!UnwantedIsGone` | `Spec => []UnwantedGone` |
| `EvEpollProofs!KernelInSync` | `Spec => []EpollInSync` |
| `EvEpollProofs!EventsAreOfTheFile` | `Spec => NoForeignEvents` |
| `WatcherProofs!OncesAndEventsAreCalledRight` | `"to" \notin ACTIVATED` gives `EventSpec => []CalledOnceForAll` |
| `WatcherProofs!EmbeddedLoopIsWatched` | `EMBED_RECREATES = FALSE` gives `EmbedSpec => []EmbeddedWatched` |
| `WatcherProofs!SignalsStayAttached` | `SignalSpec => []SignalsAttached` |
| `WatcherProofs!StatusIsKept` | `SignalSpec => StatusKept` |
| `WatcherProofs!PeriodicsAreOnTime` | `PeriodicSpec => []PeriodicsKeepTime` |
| `WatcherProofs!TimersAreUnaffected` | `PeriodicSpec => TimersUnaffected` |
| `ExampleProofs!RingIsCorrect` | `SpscSpec => []CountedRight`, and `BARRIER` gives `SpscSpec => [](NoRace /\ InOrder)` |
| `ExampleProofs!MachineStaysConsistent` | `NESTS \subseteq {"action"}` gives `HsmSpec => []MachineConsistent` |
| `ExampleProofs!EntriesAndExitsAlternate` | `NESTS \subseteq {"action"}` gives `HsmSpec => EntersOnlyOutside` |
| `ExampleProofs!FileStaysConsistent` | `FwSpec => []FileConsistent` |
| `ExampleProofs!ConnectionsStayConsistent` | `EchoSpec => []ConnectionsConsistent` |
| `ExampleProofs!ConnectionsEndDrained` | `EchoSpec => EndsDrained` |

Only model-checked:

* All liveness (`EverySendSeen`, `QuietsDown`, `BreakReturns`, `AllDelivered`,
  `ProgramsEnd` and what else ends or is called at last): the prover does not handle
  it under fairness.
* The wake-up protocol with store buffers (`pipe_locked`).
* `InTune` (in `ChangesNoticed`): it holds for one setting of the clock, which is what the
  run has (`MaxSets`). Of several small ones each can stay below `MIN_TIMEJUMP`, see section 3.
* `HeapOperations` is the run's form of `InsertDone`, `DeleteDone`, `SetAtDone` and
  `ReHeapDone`, over all small heaps.
* Stat watchers (`ChangesNoticed`, `StatsConsistent`), the backends other than epoll
  (`KernelAsked`, `RingsArmed`) and the frame parser with its composition in `UartRing`
  (`BytesDelivered`). `EvStat` takes entries out of lists by `SelectSeq`, and the backends
  of `FdOps` fold over lists of changes whose handling changes the list: each of these
  loops needs an induction of its own, as `child_reap` and `queue_events` have.

## 5 Assumptions about the program

* `ev_loop_fork` is not called from prepare or fork callbacks, nor `ev_run` from
  prepare or check callbacks (`ev.pod`).
* A pending watcher keeps its priority (`ev.pod`).
* A watcher is stopped before its fd is closed, and `ev_io_set` is called before
  it is started on a reopened number (`ev.pod`, "disappearing file
  descriptors"); nothing is `dup2`ed over an open fd.
* `ev_async_send` is called while the async is active.
* Watcher structures are not freed while they are active or pending.
* `ev_embed_start` is called after the inner loop has run once, and after a fork
  both loops are told (`ev.pod`).
* `event_active` is called for io and signal events, not for timeouts.
* A loop is destroyed when none of the program's watchers is active.
* The machines' entry path buffer has room for the deepest path (`state_machine.h`);
  actions of transitions may dispatch events again (in the run one level deep,
  `MaxFrames`), entry and exit actions do not, which the proofs rely on (`NESTS`).
* Assertions are compiled out, but for the run `loop_release`.
* For the bytes in the ring: the build orders the copy and the store of the index
  (`BARRIER`), and loads are executed in the order of the program. Neither is made sure of
  by `spsc_queue.h`.
* For what the parser delivers: no line has overrun `frame.data` before.

## 6 Not modelled

Growth of arrays, allocation failures, wording of errors, `EV_MINIMAL` builds, C++
bindings, and the platform layer `ecb.h`. Times are small integers; the resolution
of the clocks is a constant of `EvPeriodic`, but the rounding of a sum of floating-point
numbers is not covered, nor are the poll's timeout (except in `EvPeriodic` and
`EvIouring`, where it must not be too long) and its collection intervals.

* Cleanup watchers and further, not default, loops in `EvLifecycle`: the callbacks
  run once at the end and share nothing with the descriptors.
* The search of `infy_add` for the first parent that exists: `EvStat` has one
  directory above all paths, which stays. Unmounting, and file systems told apart by
  `fstatfs`, are the constant `Polled`.
* A second embedded loop of one outer loop, and embed watchers whose inner loop
  has prepare watchers.
* `event_priority_set`, `event_pending` and the bases of the libevent emulation, which
  only pass a call on.
* `ev_win32.c`, which translates between sockets and descriptors and keeps no state;
  kqueue and port are modelled from their `.c` files, with every answer of the kernel that
  these tell apart, without their systems' quirks.
* The C++ examples repeat the C ones; `lwip-echo.c` and `uart-hsm.c` use single
  watchers as the programs that are modelled do. The heartbeat timer of `fs-hsm.c` and
  `EV_ERROR` events in `hsm-echo.c` are left out.

## 7 Plan

What would add most from here:

1. Proofs about the backends of `EvBackends` (`KernelAsked`) and about `EvStat`.
2. An abstract timer service (a set of timers with times) that `EvTimers` implements;
   `TimersInv` and `FirstIsEarliest` are what its refinement needs.
3. Proofs about `HsmParser` and `UartRing`: that the bytes of the ring become the frames
   that were sent (`BytesDelivered`), for any frames; `RingIsCorrect` is half of it.
4. A composition of `EvPipe` with `EvSignal`, so that the collection of marks and
   their delivery are checked in one model and not joined by their interfaces.
5. Cleanup watchers and several loops in `EvLifecycle`.
