# TLA+ models of Real-Time-Systems

This directory holds TLA+ specifications of the programs under `src/`, the
TLC configurations that check them, and `PROJECT.json`, which maps every
definition to the C lines it models and lists the runs, mutants, findings
and hazards.

## The system

`src/` is a set of course exercises on real-time and concurrent programming
in C on Linux.  Only one of them is a service (`spec.md` specifies it); the
others are small programs, each demonstrating one mechanism.

| Part | Sources | What it is | Concurrency |
|---|---|---|---|
| Resource manager | task1/resource_manager/resmgr.c, client.c | UNIX-socket server: a listener, one thread per connection, one shared device (buffer, size, flags, permission) under one mutex; a line protocol READ / WRITE / INFO / CLEAR / SETPERM | threads, mutex, sockets, signals |
| Intro | task1/intro/intro.c | three threads (sense, control, user interface) sharing a state flag and a condition variable | mutex + condvar |
| Condvar FSM | task1/shared_mem/condvar.c | four threads stepping a 4-state machine through one condvar with broadcast | mutex + condvar |
| Producer/consumer | task1/shared_mem/prodcons.c | a one-slot handoff through one condvar | mutex + condvar |
| Semaphore example | task1/shared_mem/semex.c | one producer posting, five consumers waiting on a semaphore | semaphore |
| No mutex | task1/shared_mem/nomutex.c | two threads updating two shared counters without a lock | data race |
| Interrupts | task1/interrupt/int.c, intsimple.c | a signal handler sets a flag polled by main | signal handler |
| Priority inversion | task1/inv_prio/working.c, scenario_1.c | three SCHED_FIFO threads of different priority sharing a mutex | fixed-priority scheduling |
| Timeouts | task2/timeout_condvar.c, timeout_mq.c, timeout_poll.c, timeout_ppoll.c | waiting with a deadline on a condvar, a message queue, poll/ppoll | condvar with timeout |
| Message-queue burst | task2/mq_clean_burst.c | a producer thread sends a burst, main drains the queue | POSIX mq |
| Timers and timing | task2/alarm.c, calctime1/2.c, reptimer_timerfd.c, sched_fifo_jitter.c, task5/task1_latency.c, task2_mlock.c, task6/* | measuring clocks, timers, latency and jitter | none to speak of |
| Shared-memory ring | task3/shm_producer.c, shm_consumer.c, shm_common.h | two processes, a ring buffer in shared memory, two named semaphores | processes, semaphores |
| POSIX mq server | task3/posix_mq_server.c, posix_mq_client.c | request/reply over a request queue and a reply queue | processes, mq |
| epoll server | task3/epoll_server.c | single-threaded edge-triggered epoll echo server | event loop |
| I/O vectors | task3/iov_demo.c, task4/* | readv/writev and input polling demos | none |
| Memory pool | task5/mempool.c, mempool.h, task3_benchmark.c | a fixed-block allocator with a free list, and its benchmark | none (single thread) |
| Traffic controller | task7/traffic_controller.c | a timer-driven traffic-light state machine | POSIX timer + thread |

### Resource manager: parts and interaction

`main` (the listener) accepts connections and starts a detached
`client_thread` per connection.  A session sets `OPEN|BUSY` under the
device lock, then loops `recv()` → `handle_command()` → `write()` until the
peer closes, then clears `BUSY` and closes its socket.  `handle_command`
classifies the text (`READ` and `WRITE ` and `SETPERM ` by prefix, `INFO\n`
and `CLEAR\n` exactly), checks the permission and mutates or reads the
device under the lock.  A `READ` writes the buffer to the socket *before*
it unlocks.  `SIGINT`/`SIGTERM` run `on_signal`, which ends the process;
`SIGPIPE` is left at its default action, which also ends it.


### The other programs

Each of the other modelled programs is one process, or a pair of
processes, built around one synchronisation mechanism:

* intro.c: `sense` reads characters and, under `stateMutex`, stores a
  valid state and flags a change with `changed` and `stateCond`.
  `stateOutput` waits for the flag and prints.  `userInterface` draws the
  state without the lock.
* condvar.c: four threads, one per state, pass `state` round the machine
  0 → 1 → 2|3 → 0.  They use one mutex and one condition variable with
  broadcast.
* timeout_condvar.c: main waits on a condition variable with a deadline
  twice; a producer thread signals the second wait.
* shm_producer.c / shm_consumer.c: two processes share a ring in POSIX
  shared memory and two named semaphores (`sem_prod` counts free slots,
  `sem_cons` filled ones).  SIGINT/SIGTERM end both loops.
* mempool.c: a free list threaded through the blocks.
  task3_benchmark.c allocates `BENCH_ITERATIONS` blocks, frees them and
  destroys the pool.
* epoll_server.c: one thread, one epoll set.  The set holds the listening
  socket and an eventfd, both level-triggered, and each client,
  edge-triggered.  The server echoes what it reads.
* traffic_controller.c: a controller thread publishes the state under a
  mutex, arms a one-shot POSIX timer and spins until the SIGRTMIN
  handler sets `timer_expired`.
* posix_mq_server.c / posix_mq_client.c: the server receives requests on
  the queue named `SERVER_QUEUE_NAME` and sends each answer to the queue
  named `CLIENT_QUEUE_NAME`, which it opens anew per answer.  A client
  sends three requests (priorities 1, 10, 1), waits for an answer after
  each, and unlinks `CLIENT_QUEUE_NAME` at the end.  Both names are fixed.

## Modules

* `ResMgrProtocol`: the constants of resmgr.c and the parser of one
  received chunk (`Parse`).  The two models below share it.
* `DeviceSpec`: what spec.md 4.3/4.4/8 promise.  It is an atomic device
  that serves each client's commands in order, and it is the abstract
  specification.
  - Variables: `content`, `perm`, and per client `queue` and `answers`.
* `ResMgr`: resmgr.c and client.c.
  - State:
    - the device fields `buffer`, `size`, `flags` and `perm`;
    - the owner of `dev.lock`;
    - per session: its thread's pc `spc`, the received command `cmd` and
      the computed response `resp`;
    - per client: its connection state; `toSrv`, the bytes it sent that
      the server has not yet received; `fromSrv`, the responses written
      to it; and how many it read;
    - `exitCause`.
  - Actions of main's loop: `Accept`, `ThreadCreateFail`, `AcceptFail`.
  - `OnSignal`: install_signals and on_signal.
  - Actions of client_thread and handle_command: `SessionOpen`, `Recv`,
    `HandleCommand`, `WriteResponse`, `SessionClose`.
  - Actions of client.c: `ClientConnect`, `ClientSend`, `ClientRecv`,
    `ClientClose`.
  - Data is abstracted: a WRITE of n bytes by client c stores n copies of
    c.  A READ then shows which client wrote which byte, and in what order.
  - A lock/compute/unlock sequence with no blocking call inside is one
    step.
  - The READ path blocks in `write()` while holding the lock.  It is split
    into `HandleCommand` (lock taken) and `WriteResponse` (lock released).
  - The refinement mapping `Dev` has two parts:
    - A command that is received but not yet executed maps to the head of
      the abstract queue.
    - A response that is computed but not yet written maps to the tail of
      the abstract answers.
* `MC_ResMgr`: the command sets for the runs, and the client symmetry.
* `Intro`: intro.c.
  - Variables: `state`, `changed`, the mutex owner, sense's locals and pc,
    stateOutput's pc and the states it printed, and the state
    userInterface drew.
  - Actions:
    - `SenseRead` and `SenseUpdate`: read a character; lock, store,
      signal, unlock.
    - `OutputInit`: the unlocked `changed = FALSE` of line 104.
    - `OutputLock`, `OutputTest`, `OutputWake`: the predicate loop around
      `pthread_cond_wait`.  A wake without a signal is spurious, at most
      `MaxSpurious` times in a run.
    - `UiDraw`.
  - Characters are ASCII codes, so the case flip `^ ' '` is an XOR
    (Bitwise).
  - `unreported` is a history variable: a change was flagged and not yet
    printed.
* `Condvar`: condvar.c, with one pc per thread.
  - Actions: `Lock`, `Test` (while `state != i`), `Wake` (the return of
    `pthread_cond_wait`, signalled or spurious), `Transit` (transition,
    broadcast, unlock) and state_1's `Count` (`cnt++` after the unlock).
  - `woken` is the set of waiters a broadcast released.
* `TimeoutCondvar`: timeout_condvar.c.
  - A discrete clock `now` counts ticks of `TickMs` ms.
  - main's pc has one action per step of both scenarios.
  - The producer's signal is its own action; `Tick` advances time.
  - `pthread_cond_timedwait` returns for one of `WakeReasons`: a signal,
    the deadline, or a spurious wakeup.
  - `AbsTimeAfterMs` adds ticks.  That abstraction holds only if the C
    helper adds exactly ms, and `AbsTime` checks that it does.
* `AbsTime`: abs_time_after_ms (timeout_condvar.c 33-44, the same code as
  timeout_mq.c 31-41) on a timespec record `[sec, nsec]`, with the
  carry at 10^9.  A reference definition (whole milliseconds plus a
  sub-millisecond rest) is what it is checked against.
* `MC_PoolTimedWait`: MemPool and TimeoutCondvar, two programs that
  share nothing, as one interleaved product (`BothNext`, `BothSpec`), so
  that one TLC run checks both.  Each disjunct leaves the other's
  variables unchanged, so the product adds no behaviour.
* `ShmRing`: shm_producer.c and shm_consumer.c.
  - An incarnation is one set of kernel objects created under the names.
    `objs[i]` holds its ring, head, tail and the two semaphore counts.
  - `log` is a history variable: the values written into each incarnation.
  - Producer actions: `PStart`, `PLoop`, `PSemWait`, `PWrite`, `PExit`,
    `PSignal`, `PRestart`.
  - Consumer actions: `CStart`, `CLoop`, `CSemWait`, `CRead`, `CSignal`.
  - The uninitialised `struct sigaction` leaves the SA_RESTART bit
    undefined.  It is the constant set `SaRestart`, and each process start
    chooses a value from it.
  - `Kills` lets the producer be killed at any point and started again.
* `MemPoolSpec`: the promise of mempool.h.  A pool is a set of free blocks
  and a set of blocks in use, changed by create, alloc, free and destroy.
* `MemPool`: mempool.c and task3_benchmark.c.
  - The free list is the sequence of block indices from `free_list_head`.
    `FreeListOf` (RECURSIVE) is the list that pool_create's loop builds.
  - The client is either any correct client (`Client*`) or main with
    benchmark_mempool (`Bench*`).  `Init` chooses which.
  - The instance `Abs` of `MemPoolSpec` maps the list to its set of
    elements.
* `EpollServer`: epoll_server.c.
  - Bytes are counted per client socket (`inbuf`).
  - An edge-triggered registration is the flag `edge`.  Each arrival of
    data or of the peer's close sets it, and `epoll_wait` reports it and
    clears it.
  - `EpollWait` takes the batch of ready descriptors.  `Accept`
    (accept4 and add_to_epoll), `Internal` (the eventfd) and `ReadClient`
    handle one descriptor of the batch each.
  - The clients `Connect`, `Send`, `PeerClose`, and `Notify` writes the
    eventfd.  These follow the test procedure at the end of the file.
* `TrafficController`: traffic_controller.c and common.h.
  - Actions: main's `Start` (timer_create may fail); the controller's
    `Publish`, `Arm` (the switch and timer_settime) and `Spin` (the usleep
    loop); and `Expire`, the timer and its handler.
  - The stale `tv_nsec` is a value of the constant set `Garbage`.
  - `MC_TrafficController` gives `Garbage` negative members, which a cfg
    file cannot write.

* `MqEcho`: posix_mq_server.c, posix_mq_client.c and common.h.
  - A named queue is a kernel object.  `names` maps each name to the
    object it denotes, `qs` holds each object's messages, and a descriptor
    (`sq`, `csrv`, `ccli`) is the object it was opened on.  An unlinked
    object lives on for whoever has it open.
  - Server actions: `ServerStart` (both unlinks and the create),
    `ServerRecv` (highest priority first, `NextIndex`), `ServerReply`
    (open by name, send, close; no name means the answer is dropped) and
    `ServerKill`, after which the user may start it again (`MaxStarts`).
  - Client actions: `ClientStart`, `OpenServer` (exit when no server
    queue), `OpenClient` (O_CREAT), `Send`, and `Receive`, whose last
    round unlinks the reply name.
  - A request is its sender and priority, an answer the client it
    answers; texts and upper-casing are left out.

## Runs

| Run | Module / cfg | Checks | Result |
|---|---|---|---|
| resmgr_safety | MC_ResMgr / MC_ResMgr_safety | `TypeOK`, `DeviceRefinement` (READ, WRITE, CLEAR, SETPERM ro/rw; clients may close early) | pass, ~1.6M states, ~1 min: handle_command is linearizable and WRITE truncates exactly |
| resmgr_live | MC_ResMgr / MC_ResMgr_live | `CommandsAnswered`, `DeviceRefinement` under `FairSpec` (READ, WRITE, SETPERM wo) | pass, ~190k states: every command of a reading client is answered; a write-only READ is denied |
| resmgr_sigpipe | MC_ResMgr / MC_ResMgr_sigpipe | `PeerCloseIsolated` | violated: a write to a closed peer kills the server (SIGPIPE) |
| resmgr_stall | MC_ResMgr / MC_ResMgr_stall | `CommandsAnswered` with client c1 not reading | violated: READ holds the lock across a blocking write() |
| condvar_timeout_signal | TimeoutCondvar / MC_TimeoutCondvar_signal | `Scenario2Signaled` | violated: rc keeps ETIMEDOUT from scenario 1, so scenario 2 never waits |
| shm_safety | ShmRing / MC_ShmRing_safety | `SlotsConserved`, `ConsumedInOrder`, `Delivered` | pass, ~3.8k states |
| intro_lost | Intro / MC_Intro_lost | `ChangeReported` | violated: a change flagged before line 104 is erased and, when the user types no new state, never printed (a data race; in practice stateOutput must be delayed past sense's 10 ms usleep) |
| condvar_machine | Condvar / MC_Condvar | `Transitions`, `StatesRecur` | pass, ~2.8k states |
| pool_timedwait | MC_PoolTimedWait | MemPool's `AllocsSucceed`, `PoolRefinement`; TimeoutCondvar's `NoSleepOnReadyEvent`, `MainEnds` under its `FairSpec`; `AbsTimeExact` | pass, ~167k states (the product of ~350 and ~480), ~40 s: the free list is a set of free blocks; main never sleeps on an event that is already set, always ends, and its deadlines are valid timespecs exactly ms later |
| epoll_et | EpollServer / MC_EpollServer | `NothingStranded` | violated: one read per edge-triggered event strands the rest |
| traffic_stall | MC_TrafficController | `WaitEnds` | violated: an invalid stale tv_nsec makes timer_settime fail and the loop spin for ever (the value is unspecified; a zeroed stack slot hides the bug) |
| mq_shared_reply | MqEcho / MC_MqEcho_shared | `ClientsFinish` under `FairSpec`, two clients | violated: the first client to end unlinks the shared reply name, the server drops the other's answers, and that client waits for ever |

Every property of a passing run has a mutant in `PROJECT.json`: a
plausible bug in the mapped code under which TLC finds the property
violated.

### Bounds

* Resource manager:
  - 2 clients: the fewest that interleave.
  - A 3-byte device with 2-byte writes, so the second write truncates.
  - 2 commands per client.
  - A socket that holds 1 unread response, which is enough to make
    `write()` block.
  - The safety run uses symmetry over the clients.  Its property is a
    safety property, and the client names appear in no constant.
* ShmRing:
  - `N = 2` slots, so the ring wraps and fills.
  - 4 values: more than `N`, so a full ring blocks.
  - 1 restart.
* Condvar: `MaxSpurious = 2`, enough for a spurious wakeup of a waiter
  whose state is not current.
* Intro: three characters from N, n, r and x, and one spurious wakeup.
  The bound matters for the liveness run: with unbounded spurious
  wakeups a waiting stateOutput could re-take the mutex for ever and
  starve sense under weak fairness, which no real scheduler does.  With
  the bound, the counterexample is the real one: the first change is
  flagged, line 104 erases it, the user types only the same state, and
  stateOutput waits on stateCond for ever.
* MemPool: 5 blocks and 5 iterations, matching the program's equal
  counts.
* EpollServer:
  - 2 clients.
  - `ReadBufferSize = 2` stands for 256, and writes are 1 or 3 bytes, so
    a write both fits and overflows one read.
* TimeoutCondvar: 20 ms ticks divide all three durations (violation
  run).  The passing run uses 100 ms ticks, which still divide them and
  still let the producer's signal come before, during and after main's
  wait; one spurious wakeup is what lets scenario 1 return 0 and makes
  scenario 2 wait at all.
* AbsTime: start readings with tv_nsec at 0, 1, half a second, just
  below a millisecond boundary, at 999 ms and at 10^9 - 1, and delays
  0, 1, 100, 999, 1000, 1001 and 1999 ms, at every clock value of the
  run: the sums that reach exactly 10^9 and those that pass it.
* MqEcho: 2 clients, the fewest that share the reply queue, and one
  server start, so that the counterexample is the shared name and not a
  kill.

### Fairness

* ResMgr `FairSpec`:
  - Session threads are strongly fair.  They wait on a pthread mutex that
    keeps coming free.
  - The listener is weakly fair.
  - Clients outside `Stalled` keep reading.
* Condvar and Intro:
  - Every thread step is weakly fair.
  - A wait returns under fairness only when it was signalled
    (`ReleasedWake`, `OutputSignalled`).
  - Spurious wakeups, and the user's typing, are never forced.
* ShmRing: both processes are weakly fair.
* TimeoutCondvar `FairSpec`: main's steps, the producer's signal and the
  clock are weakly fair; time passes while a thread sleeps or waits on a
  deadline ahead.  A wait ends under fairness only by a signal or its
  deadline; a spurious wakeup is never forced.  MemPool's client has no
  fairness in the product: none of its properties is liveness.
* MqEcho: the server's receive and reply, its first start, and every
  client's steps are weakly fair: each is one process that runs whenever
  it is not blocked, and the user starts the programs.  A kill is never
  forced.  The server never exits, so the runs do not check deadlock.
* TrafficController: the thread steps and the expiry of an armed timer
  are weakly fair.
* Signals, accept failures and thread-creation failures are never forced
  anywhere.

## Not modelled

* Resource manager:
  - Option parsing and logging.
  - The bind/listen start-up path, which is fatal and runs before any
    state is shared.
  - Stream framing of recv(): each recv() is one command (spec.md 4.2, 9).
  - INFO and unknown commands: they change no state, and no run sends
    them.
  - The BUSY flag's meaning (spec.md 3): resmgr.c:144 clears BUSY when
    any session ends, even while other sessions are open.  The model has
    this, but no run checks it.  The hazard list records it.
* ShmRing:
  - A producer killed mid-write and restarted over the linked objects
    resets head and tail but keeps the semaphore counts.  With
    `Kills = TRUE`, TLC finds `ConsumedInOrder` violated.
  - A producer blocked on a full ring after Ctrl-C never exits.
  - Both are in the model and are recorded as hazards without a run.
  - sem_wait failing with EINTR when the uninitialised `sa_flags` lacks
    SA_RESTART: with `SaRestart = {FALSE, TRUE}` TLC finds
    `ConsumedInOrder` violated (the consumer reads a slot nobody wrote).
    The run that showed it gave way to `mq_shared_reply`, since the
    project keeps at most twelve runs; the hazards record it.
* MqEcho: client kills (a killed client leaves a stale answer in the
  reply queue) and message lengths (server line 48 writes one byte past
  the buffer for a 256-byte request).  Both are hazards without a run.
* prodcons.c: the same lock / while-wait / signal pattern as condvar.c,
  with two threads.
* mq_clean_burst.c: its drain races the producer thread (a
  non-blocking receive can meet EAGAIN before all seven messages are
  sent, and mq_unlink then destroys the rest).  It needs a run of its own,
  and the project is at its limit of twelve runs; the hazard list records
  it.
* timeout_poll.c, timeout_ppoll.c and timeout_mq.c: the same two
  scenarios as timeout_condvar.c.  timeout_mq.c's fixed queue name is a
  hazard without a run; timeout_ppoll.c calls `pthread_main_np`, which
  glibc lacks, so it does not build on Linux.
* Run budget: the project keeps at most twelve TLC runs, and all twelve
  are in use.  Each module has one run, except ResMgr.  Merging the two
  ResMgr passing runs into one was tried: with every command kind and two
  commands per client it takes close to four minutes, too close to the
  five-minute limit of a run, and one command per client would weaken the
  linearizability check.  Passing properties of small programs can share a run
  (`MC_PoolTimedWait`); a violation run checks one property and cannot.
  So the hazards that would each need a violation run of their own stay
  without one: mq_clean_burst.c's drain race, timeout_mq.c's stale
  queue, the BUSY flag of resmgr.c:144, and the shm producer's restart
  and signal window.  A product of the Condvar run with TimeoutCondvar
  was tried too: its 1.3M states with liveness took about four minutes.
* The other programs: printing, timing measurements, terminal I/O, and
  scheduling by priority, which TLC's interleaving semantics lacks.
  `PROJECT.json` gives the reason for each one.

## Plan

1. Resource manager, timeout_condvar.c, the shared-memory ring, intro.c,
   condvar.c, mempool.c, epoll_server.c, traffic_controller.c, the
   POSIX mq server/client and the timespec arithmetic of
   abs_time_after_ms (done).
2. Next:
   - mq_clean_burst.c (queue draining) and the timed waits on poll, ppoll
     and a message queue;
   - semex.c;
   - the priority-inversion scenario, as far as it can be expressed
     without a scheduler.
