# A TLA+ verification project for dwater

dwater is a multi-threaded network library in C++ built on the Reactor pattern: one event loop
per thread, non-blocking sockets, callbacks. This directory holds TLA+ modules that model it,
TLC configurations that check the models on small instances, and TLAPS proofs of the results
that matter most. File names without a directory below are under `src/dwater/net/`.

    tlc -workers 2 -config MCTimerQueue.cfg MCTimerQueue   # one run
    tlapm EventLoopProofs.tla                              # one module of proofs

`PROJECT.json` lists the components, the runs, the lines each definition models (`map`), the
hazards of the code with the properties that watch them, the findings and the theorems.

## 1. The system and its parts

| part | state it keeps | operations | interacts through |
|---|---|---|---|
| `EventLoop` | `looping_`, `quit_`, `event_handling_`, `calling_pending_functors_`, the queue `pending_functors_` under `mutex_`, an eventfd | `Loop`, `Quit`, `RunInLoop`, `QueueInLoop`, `Wakeup` | every other part queues functors in it |
| `EventLoopThread`, `EventLoopThreadPool` | `loop_` under `mutex_`, the thread; the round-robin index | `StartLoop`, `ThreadFunc`, destructor; `GetNextLoop` | publishes a loop on the stack of its thread |
| `TimerQueue` | two ordered sets of `Timer*`, the timers being cancelled, a timerfd | `AddTimer`, `Cancel`, `HandleRead`, `Reset` | `RunInLoop`; callbacks call back into it |
| `Channel`, `Poller`, `PollPoller`, `EpollPoller` | `events_`, `index_`; the map of channels; the pollfd array or the kernel's interest list | `Enable*`, `Disable*`, `Remove`, `Poll` | used by the loop's thread only |
| `TcpConnection` | `state_`, `reading_`, the channel, `output_buffer_` | `Send`, `Shutdown`, `ForceClose`, `StartRead`, ... , the handlers of the channel | calls from any thread; `close_callback_` to its server |
| `Buffer` | a vector and two indices | append, retrieve, prepend, `ReadFd` | used by one thread |
| `TcpServer`, `Acceptor` | `connections_`, the listening channel, a spare descriptor | `Start`, `NewConnection`, `RemoveConnection`, destructor | base loop and io loops |
| `Connector`, `TcpClient` | `state_`, `connect_`, retry delay; `connection_` under `mutex_` | `Start`, `Stop`, `Retry`, `Restart`; `Connect`, `Disconnect` | timers, queued functors |
| `base/thread_pool`, `blocking_queue`, `bounded_blocking_queue`, `count_down_latch` | queues and counters under a mutex | `Run`, `Take`, `Stop`; `Put`, `Take`; `Wait`, `CountDown` | condition variables |
| `base/async_logging`, `log_file`, `log_stream` | two buffers in front, a vector of full ones; a rolling file | `Append`, `ThreadFunc`, `RollFile` | mutex, condition, time-out |
| `base/logging` | the `Logger` of a line; per thread the text of the last second | constructor, destructor | `g_output` |
| `http/` | the state of a parser, a request | `ParseRequest`, `OnMessage` | a `Buffer` filled in pieces |
| `base/date`, `time_zone` | tables of transitions | conversions | pure |

What is hard here: functors, `Quit` and wake-ups that race the loop on its way into `Poll`; loops
and timers whose memory another thread may release; timers cancelled by the very callbacks that
run them; array indices kept in other objects while entries move; a `state_` that several threads
test and store without a lock; data that must not overtake data, or be cut off by a shutdown;
servers and clients destroyed while their loops still hold functors and callbacks of them;
condition variables whose notification comes too early; buffers handed between threads.
The properties that make each part correct are the ones listed with its run in section 4.

## 2. The modules

**EventLoop** (`event_loop.cc`). The loop's thread is a program counter through one round of
`Loop()`: `EnterPoll` (the `while` test), `PollReturns` (Poll returns, for the eventfd, a user
channel, or a time-out), `HandleWakeup`/`HandleUser`, `EndHandling`, `SwapFunctors`,
`CallFunctor`, `EndCalling`. Other threads are in `QueueInLoop` (push under the mutex, then
`Wakeup`) or `Quit` (store `quit_`, then `Wakeup`), each two steps. Callbacks of the loop's own
thread queue and quit in one step. `accepted`, `ran` and `early` are history variables. A functor
is used once, which bounds the model: it is named, not counted.

**FunctorExecutor** is the promise of `event_loop.h` in two actions: functors are accepted in
some order and run one at a time in that order. `EventLoop` is shown to implement it with
`queue <- functors \o pending_functors_`.

**EventLoopThread** (`event_loop_thread.cc`, `base/thread.cc`) EXTENDS EventLoop with the owner
(`StartLoop`: the start of the thread and its latch, then the condition variable with spurious
wake-ups; the destructor) and `ThreadFunc`. The loop exists only while `ThreadFunc` runs.
`user_quit` remembers that somebody else than the destructor called `Quit`. The properties of
EventLoop are checked in this composition.

**TimerQueue** (`timer_queue.cc`, `timer.h`, `timerid.h`). Timers are objects in a heap of a few
addresses that are used again after `delete`, so stale `TimerId`s are real. `HandleRead` is split
where callbacks run: take the expired out, run each (the callbacks may add and cancel), `Reset`.
`AddTimer` from another thread is two steps: hand over, then read the sequence for the id. Time is
in ticks, a tick being the least delay `HowMuchTimeFromNow` asks for; the timerfd may fire at any
moment once armed, since it counts on another clock.

**Poller**, **PollPoller**, **EpollPoller**, **Channel** (`channel.cc`, `poller/`). `Poller` is
the abstract interface: a map from the fds of channels to the events asked for. `PollPoller` is
the pollfd array with hidden entries (`-fd - 1`) and swap-with-last removal; `EpollPoller` is
`index_` against the kernel's list, where a refused `epoll_ctl` counts as failure. `Channel`
drives both with the same calls, side by side, so that they can be compared, calls that come late
for a removed channel included. `Poll` of epoll returns no more channels than its event list has
room for, and doubles a list that was full. `HandleEvent` says which callbacks a set of returned
events leads to, also for a channel tied to an object that is gone.

**TcpConnection** (`tcp_connection.cc`, with `RemoveConnection` and `~TcpServer` of
`tcp_server.cc`). The loop's thread runs queued functors, handles a readable end of stream, writes
what the kernel takes, and calls operations from callbacks. Other threads call operations in
two or three steps, because `state_` is tested and stored without a lock. A failed assertion sets
`aborted` and ends the behaviour. Messages are sequences of numbered units, so order, loss and
duplication are visible; `wire`, `accepted`, `reported`, `ups`, `downs`, `closes` are history.

**TcpServer** (`tcp_server.cc`, `acceptor.cc`, `event_loop_thread_pool.cc`, `socket::Accept`).
Many connections, reduced to the state a server sees (kdisconnecting included), on the base loop
and the io loops of the pool. A `ForceClose` of another thread is two steps, test and store; one
that stores after a close has `revived` the connection, which is then closed again. A new io loop
has yet to enter `Loop()`, and a `Quit` before that is `lost`. Each loop has its queue of functors; `RemoveConnection` crosses from the io loop to the base
loop and `ConnectionDestroyed` back. The acceptor's answer to EMFILE is a step per
system call (`AcceptFails`, `CloseIdle`, `AcceptIdle`, `CloseTaken`, `Reopen`), between which other code of the process
may open files. The destructor destroys connection by connection, then quits and joins each io
loop, which leaves with whatever is still queued in it.

**Connector** (`connector.cc`) and **TcpClient** (`tcp_client.cc`). Connector holds the operators
for what a call does to the connector; TcpClient composes them with the client, the user on the
loop's thread and on another one, the retry timer and the one-second timer the destructor sets,
and the lives of connector and connections (who still holds a reference). The loop's round matters
here and is kept: events and timers first, then the functors swapped out together. `HandleWrite`
tests `connect_` in one step and calls `NewConnection` in the next, and `RemoveConnection` is cut
before its `Restart`. The destructor runs in one go on the loop's thread (`Destroy`), or step by
step on the other one: `TakeConnection`, `Detach` (it queues `SetCloseCallback`),
`TestState` and `StoreState` of its `ForceClose`, or `StopConnector` and `KeepConnector` when there
is no connection, then `EndDestroy`. `misused` marks `Connect` on a connector that is not at rest,
`hasty` a client destroyed with a connection while functors of its connector wait, `overrun` a
callback of the loop's thread that came in the middle of a destructor on the other one, `overtaken`
a `Restart` that undid a `Stop` it raced with, `slipped` a `Stop` between the test and the call of
`HandleWrite`.

**Monitor** (`base/mutex.h`, `condition.h`, `count_down_latch.cc`, `blocking_queue.h`,
`bounded_blocking_queue.h`): locks, `Wait`, `Notify`, spurious wake-ups, and the three small
monitors. **ThreadPool** (`base/thread_pool.cc`) EXTENDS it with the pool and with a program as
the tests have it: two producers, workers, a collector that moves results from the bounded to the
unbounded queue and counts a latch down, a main thread that waits for the latch, takes the results
and stops the pool; `Stop` may come early.

**LogFile** (`base/log_file.cc`, `AppendFile` of `file_util.cc`), **AsyncLogging**
(`base/async_logging.cc`), **Logger** (`base/logging.cc`). A file is the chunks written to it
with the times of writing, and how many of the chunks have left the stdio buffer. They leave it
when it overflows, at `fflush` and at `fclose`; on a full disk they are then lost, since the code
looks at none of these results. A chunk leaves whole. The background thread is four steps: test `running_`, wait and
swap under the mutex, write, recycle. `g_output` leads to an AsyncLogging or straight to a
LogFile. The clock may be set back, and the disk may fill up and be cleared.
`crowded` remembers that more was logged in one interval than a buffer holds.

**HttpServer** (`http/http_context.cc`, `http_request.h`, `http_response.cc`, `http_server.cc`).
The stream is a sequence of tokens (content of a line, CR, LF) that arrives in pieces cut
anywhere; each `OnMessage` runs the parser to its return and the answer to its end. The user's
`http_callback_` is the default one or one that answers and closes depending on the method.

**Calendar** (`base/date.cc`, `time_zone.cc`), **LogStream** (`base/log_stream.cc`), **Endian**
(`endian.h`, the integers of `buffer.h`) are pure operators; **Conversions** feeds them and states
what they should give. LogStream has a RECURSIVE operator and is used by TLC only.

**Buffer** (`buffer.h`, `buffer.cc`). The vector and both indices as they are; a byte is a value
of a small set. `Object` makes a Buffer a value, so that `Append` composes `EnsureWritableBytes`,
`MakeSpace` and the copy as the code does.

**EventLoopProofs** (about EventLoop and EventLoopThread), **ChannelProofs**, **TimerQueueProofs**,
**TcpConnectionProofs**, **TcpServerProofs**, **TcpClientProofs**, **BufferProofs** and
**ThreadPoolProofs** hold the theorems, each about the module it is named after. **MC...** modules EXTEND their module for
TLC and define its inputs. Operators commented `mutant:` are plausible slips of the definition
they stand in front of; no specification uses them.

How they compose: EventLoop is EXTENDed by EventLoopThread. The other modules need of a loop only
what `FunctorExecutor` promises, which the theorem `LoopImplementsExecutor` gives: a queue of
functors, run in order. TcpServer and TcpConnection split one subject: TcpServer has many
connections on many loops with the state a server sees of them, TcpConnection has one with
everything it does. Connector is EXTENDed by TcpClient, Monitor by ThreadPool, LogFile by
AsyncLogging by Logger.

## 3. What the plan has left

The parts that carry the program's logic are modelled, and the safety properties of the network
library and of the thread pool are proved. What remains to be proved is Logger: `FilesRoll`, and
the part of `LinesKept` that says where a line is.

Of the model: the list of active channels of a round with the assertion on it in
`EventLoop::RemoveChannel`.

## 4. The runs

| run | instance | shows |
|---|---|---|
| `event_loop_thread` | owner and 1 user, 3 functors | `LoopLifetime`, `NoLostWakeup`, `NoLostQuit`, `RoundIsBounded`, `ImplementsExecutor`; live: `FunctorsRun`, `HandshakesComplete` |
| `timer_queue` | 2 addresses, 2 timers, 3 ticks, 1 pending functor, intervals 0 and 1 | `SetsAgree`, `TimerfdCoversEarliest`, `CancelIsFinal`; live: `DueTimersRun` |
| `poller` | fds 0, 1, 2, late calls on removed channels; first event list of length 1 | `KernelFollowsChannels`, `SameActive`, `ImplementPoller` |
| `tcp_connection` | every operation on the loop's thread and from another one, a server that may die, 2 messages of 2 units, 2 pending functors, high water mark 3 | `StreamInOrder`, `OutputFlushed`, `UpThenDownOnce`; live: `ShutdownCompletes`, `CloseCompletes` |
| `buffer` | contents up to 4 of 2 byte values, data up to 3 | `RoomIsMade`, `GrowthIsBounded`, `OperationsExact` |
| `tcp_server` | 2 clients, up to 2 io loops, 2 descriptors and the spare one | `LoopsAreBalanced`, `NoneForgotten`, `SpareDescriptorKept`, `CleanWithoutConnections`; live: `ServerProgresses` |
| `tcp_client` | 2 connections, 3 calls from either thread, destroyed on either, delays 1 to 3 | `OneAttempt`, `AssertsHold`, `StopIsFinal`; live: `ConnectorComesToRest` |
| `thread_pool` | 2 workers or none, 2 producers with a task each, queue sizes 0 (no limit) and 1, 1 spurious wake-up | `TasksAccounted`, `LatchCoversResults`; live: `PoolProgresses` |
| `logging` | 2 threads, 3 lines, buffers of 2 lines, stdio buffer of 1, roll size 2, check every 2 appends, periods of 3 seconds, times 1 to 3 | `LinesKept`, `FilesRoll`; live: `LinesReachFile` |
| `http` | 7 kinds of request, 3 callbacks, up to 2 requests on a connection, every way to cut them | `AnswersExact` |
| `conversions` | every day of 1896 to 2104, numbers around powers and thresholds, 4 zones | `CalendarExact`, `TextExact` |
| `event_loop_thread_lost_quit` | owner only, 1 functor | refutes `DestructorReturns` (a finding) |

The type invariant of a module is a conjunct of one of these (that of Buffer is only proved). Where the code has a defect the
property says exactly what triggers it and is checked with everything else present:

- `LoopLifetime`: once the destructor has stored `quit_`, its own `Wakeup` may find the loop gone;
  nobody else may, unless user code quits the loop.
- `KernelFollowsChannels`: PollPoller may fail its assertion for a channel whose first call is
  `DisableAll` (an acceptor that never listened) and for a call on a removed channel (`misused`).
- `SameActive`: epoll may hold a channel back only when its list is full, and then the next list is
  longer.
- `UpThenDownOnce`: a connection that was `revived`, and one the dying server finds in
  kdisconnecting, which goes unannounced or with its events on. A dying server that finds the
  connection connected or closed is no exception.
- `CleanWithoutConnections`: a revived connection, or a destructor over open connections; without
  io loops only if one of these is in kdisconnecting.
- `ServerProgresses`: the destructor may hang only on an io loop with a `lost` Quit.
- `AssertsHold`: `misused`, `hasty` or `overrun`. `StopIsFinal`: `overtaken` or `slipped`.
- `LinesKept`: `crowded`; a line is lost only to a full disk. `LinesReachFile`: besides these, only
  a line not yet swapped out when Stop or the assertion of the second round comes.
- `CancelIsFinal` leaves out timers cancelled before their queued `AddTimerInLoop` had run.

Why the bounds are enough. Two threads are needed for one to queue while another is between its
push and its wake-up, three functors for a batch, a functor queued from the batch and one behind
it; two timers for one that is earlier than the armed one and for one that takes over a freed
address; three channels for a removal that moves an entry past another (fd 0 because its hidden
form is -1); two messages of two units for a partial write with another message behind it that
passes the mark; a first vector of three bytes against contents of up to four, so that
`EnsureWritableBytes` meets all its cases; two clients on up to two loops for the round robin to come
round, and as many descriptors, of which other code may take some, so that they run out; two connections for a reconnect while the old one is
still closing, and three calls for Connect, Stop and Connect again; three delays for the back-off
to start, double and be capped; a queue of one for producers to wait, and two of them for one to
be woken and find it full again; three lines for a buffer that is full and one more,
and for files to roll by size and by period; a stdio buffer of one line, so that lines leave it by
overflow as well as by a flush; two requests for a pipelined one; 209 years for a century
that is no leap year and one that is. `MaxPending`, `MaxTimers`, `MaxTime`, `MaxMessages`,
`MaxCloses`, `MaxContent`, `MaxLen`, `MaxConns`, `MaxCalls`, `MaxFds`, `MaxThreads`,
`MaxSpurious`, `MaxLines`, `Times` and `MaxRequests` are bounds of the models only, in the guards
of the actions that users, clients or the clock start. Deadlock is not checked where the system
may stop: a thread that has ended, a connection that was destroyed.

## 5. Fairness

Weak fairness, and only for what a scheduler grants a thread that can run, except where a loop is
sure to come by. EventLoop: the loop's thread takes its next step, except that it may stay in
`Poll` for ever unless the eventfd is readable, so no property leans on the ten-second time-out
(only the second half of `FunctorsRun` has it as a premise, `PollTimesOut`); a thread that has
pushed or stored goes on to `Wakeup`. Nobody is made to call anything. EventLoopThread: the same,
and an owner that has begun to start or destroy goes on; it may keep the object for ever.
TimerQueue: the clock moves, an armed timerfd fires, the loop runs what it has. TcpConnection:
functors and channel events are handled, the kernel takes what is written while the peer has not
closed, the server's loop removes, a delayed close fires, a thread finishes its call. The peer
need not close, and users need not call. TcpServer: every loop takes its steps and the destructor
goes on; strongly fair is `RunBaseFunctor`, since every round of the base loop ends with its
functors however busy the acceptor is (and the acceptor's own work disables it in between).
TcpClient: the loop runs, the other thread ends its call or its destructor, and a timer that is set fires (strongly,
as it is disabled while functors run). ThreadPool: every thread runs, and gets a mutex that is
free; no wake-up has to come by itself. Logging: the background thread runs, with the time-out of
its wait, and `Join` notices its end.

## 6. What is proved

For every set of threads and functors (`EventLoopProofs`, no assumption on either):

- `TypeCorrect`: TypeOK, including that each flag of the loop holds exactly at the places of the
  code it stands for. It is inductive as it is.
- `WakeupsNotLost`: NoLostWakeup. It is not inductive: it speaks of a loop in Poll, while the
  danger is created earlier. `WakeupPromised` strengthens it to every place from which the loop
  gets to Poll without another swap: a functor that is not `early` and still queued is covered by
  a readable eventfd, by a thread on its way to `Wakeup`, or by a swap still to come in this
  round.
- `QuitsNotLost`: NoLostQuit, in the same manner, for the places after the test of `quit_`.
- `FunctorsInOrder`: FifoOnce, with `VectorScope` (the vector of a round is empty outside it, so
  the swap throws nothing away).
- `RoundsAreBounded`: RoundIsBounded, an action property.
- `LoopImplementsExecutor`: every step of the loop and its threads is a step of FunctorExecutor or
  leaves its variables alone, from `QueueSteps` and the same invariant.

For an owner among any set of threads (also `EventLoopProofs`, from `OwnerAssumption`):

- `ThreadImplementsLoop`: every step of the owner and of the thread is a step of EventLoop or
  leaves its variables alone, so `ThreadSpec` implies the `Spec` of EventLoop. With it
  `ThreadKeepsPromises` carries the theorems above over to a loop that is started and destroyed.
- `LoopOutlivesUsers`: LoopLifetime, an invariant about who may still use the loop on the stack of
  the thread. It has three parts: until the destructor stores `quit_` the owner's pointer is good;
  a thread in the middle of `Quit` or `QueueInLoop` finds the loop, but for the destructor itself
  on the way from its store to its `Wakeup`; the thread is over when the destructor returns.
  `LoopHeld` strengthens it: `loop_` is set exactly from the publication to its clearing, and
  without a `Quit` of user code only the destructor makes the thread leave.

For any finite set of descriptors and any first length of the event list (`ChannelProofs`, from
`ChannelAssumption`):

- `KernelIsAskedRight` (KernelFollowsChannels) and `PollersAgree` (SameActive), from `ChannelInv`:
  epoll's interest set is the channels with index kadded, with their events (`EpollHolds`); its
  event list is longer than what the last Poll filled, and stays below twice its first length and
  the number of descriptors together (`EpollHasRoom`); and poll's array is indexed (`Indexed`):
  every channel has its own entry, every entry a channel, as many as there are channels. The hard
  step is the removal that moves the last entry into the gap: the entry moved may be hidden (its
  fd negated), and its channel's index has to follow (`SwapIndexed`). Once poll's assertion has
  failed, which takes a channel that was never enabled or had been removed, nothing more is claimed
  of its array (`PollHoldsOrFailed`). `PollersAgree` is about what Poll gives the loop, after the
  cut to the length of the list.
- `PollersImplementPoller`: each step is a step of the abstract Poller for both.

For any addresses, intervals and bounds (`TimerQueueProofs`, from `TimerAssumption`), from
`TimerInv`:

- `TimerSetsAgree` (SetsAgree). Not inductive alone: a queued `AddTimerInLoop` must be about a
  timer that is alive, in neither set and queued once (`WaitsIn`), and no sequence may be ahead of
  the counter (`Numbered`), or a new timer at an old address could be mistaken for the old one.
- `CancelledStaysOut` (CancelIsFinal), from `CancelRemembered`: whatever is cancelled out of the
  batch stays in `canceling_timers_` until Reset has read it.
- `TimerfdNeverOversleeps` (TimerfdCoversEarliest), from what `Earliest` returns, which needs that
  a set of pairs of naturals has a least element.

For any threads, operations, messages, sizes and marks (`TcpConnectionProofs`, from
`ConnectionAssumption`), from one invariant `ConnInv`:

- `StreamStaysInOrder` (StreamInOrder) and `OutputIsFlushed` (OutputFlushed), from `OutInv`, for
  every way the kernel may cut a write. The first is about what SendInLoop has accepted: it is what
  was written followed by what is buffered. A send still queued has accepted nothing.
- `LivesOnce` (UpThenDownOnce), from `EstablishedOnce` (until ConnectionEstablished has run it is
  first in the queue and nobody has touched the connection), `DestroyedByServer` (only the server
  queues ConnectionDestroyed, after a close or its own end) and `ClosedOnce` (what holds while no
  late call of another thread revived the connection). The dying server is an exception only for a
  connection in kdisconnecting.

For any finite set of clients, any number of loops and descriptors (`TcpServerProofs`, from
`ServerAssumption`), from one invariant `ServerInv`:

- `PoolIsFair` (LoopsAreBalanced): there is a k such that the loops before `next_` have been dealt
  k + 1 connections and the others k (`Dealt`).
- `NoConnectionIsLost` (NoneForgotten), from `QueueInv`: what each kind of functor in a queue says
  of its connection (`FunctorOK`), that none is queued twice and that a connection is established
  before it is destroyed (`Ordered`), and that an open connection out of `connections_` has its
  ConnectionDestroyed in the queue of its own loop (`KeptOK`), unless it was revived, which takes a
  thread in a late ForceClose (`LateOK`); and from `FdInv`, which counts every
  descriptor once.
- `SpareComesBack` (SpareDescriptorKept), from `SpareInv`: where the spare descriptor is at each
  step of HandleRead.
- `OnlyTheDestructorFails` (CleanWithoutConnections), from `CleanInv`: while nothing was revived, a
  server destroyed without connections leaves nothing open and nothing queued, and one without io
  loops fails only over a connection in kdisconnecting.

For any number of connections and calls and any delays (`TcpClientProofs`, from
`DelayAssumption` and `ClientAssumption`), from one invariant `ClientInv`. It says nothing of the
connector once it is `misused`, the destructor was `overrun` or an assertion has failed; until then
`Sound` holds:

- `OneAttemptAtATime` (OneAttempt), from `QueueInv` (StartInLoop, ResetChannel and a connection's
  ConnectionDestroyed are queued at most once), `AttemptInv` (a StartInLoop that waits, or a
  Restart about to come, finds a connector that its assertions accept) and `SocketInv` (the sockets
  are that of the attempt and those of the connections that are open or still referred to, `Held`).
- `OnlyMisuseAborts` (AssertsHold), from `ConnInv` (the client's connection is the one that is up
  with its callback, so RemoveConnection finds it; `Tended` says what waits for a connection the
  client no longer has, and `FunctorOK` says what a queued functor may rely on), `DestructorInv` (how
  far a destructor on the other thread is, and what connection it took) and `OwnerInv` (who
  keeps the connector alive while a client without connection is `Stopping` it, and that one
  `Released` has left no functor bound to it).
- `StoppedClientStaysDown` (StopIsFinal, an action property), from `StopKept`: a Stop not overtaken
  keeps `connect_` of the connector false, and a connection about to be handed over after it has
  `slipped` past the test.

For all sizes and any set of bytes (`BufferProofs`, from `BufferAssumption`), from one inductive
invariant `Bounded(Self)`: the indices are in order, the vector is at least kcheap_prepend long
and at most the limit.

- `TypeCorrect`, `RoomCanBeMade` (RoomIsMade) and `VectorIsBounded` (GrowthIsBounded). The limit is
  inductive because `MakeSpace` grows only when the bytes free in front and behind are together
  too few, so the content bounds what was wasted (`RoomBounded`).
- `OperationsAreExact` (OperationsExact, an action property): the bytes that can be read after an
  operation are those its name promises. The argument goes entry by entry: what a copy leaves at
  each place of the vector (`CopyEntries`), what is readable at each place (`ReadableEntries`),
  hence that `MakeSpace` keeps the content whether it moves or grows (`RoomKeeps`), that a write
  behind or in front of the content extends it (`WriteBehind`, `WriteInFront`) and that the
  indices alone cut it (`DropFront`, `DropEnd`). `ReadFd` with its second buffer is the case of
  a write that fills the vector followed by an `Append` (`ReadFdExact`).

For any number of workers and tasks and any limits of the queues (`ThreadPoolProofs`, from
`CapacityAssumption` and `PoolAssumption`), from one invariant `PoolInv`. `PoolAssumption` says
that the threads are distinct, that there is a task, and that no task is given to Run twice: the
tasks name the calls of Run, so this is what makes `run exactly once` a statement at all.

- `TasksAreAccounted` (TasksAccounted). It is not inductive: where it says that a task has been
  run, the step that takes it on has to know that its result is nowhere else. `OnePlace` says of
  the whole path (still to be Run, in the hands of a producer, in `queue_`, refused, a result in
  the hands of a thread, in either queue, taken by Main) that every task is at exactly one point
  of it, and that `ran` holds those on its second half. Every action that moves a task moves one
  from one place to another (`Move`, `TaskMoves`), the others leave all places alone
  (`SpotsKept`). `HoldersRight` says that who holds a mutex is inside an operation on it and does
  not wait, `Limits` that the queues keep their limits, however a waiting thread was woken.
- `LatchIsEnough` (LatchCoversResults), from `Counted`: the count of the latch and the results
  passed on make up the number of tasks, but for the one the collector is about to count. At zero
  the results passed on are as many as the tasks, and hence all of them.

No run lists FifoOnce or the type invariants by themselves: `ImplementsExecutor` says of the steps
what FifoOnce says of the states.

Only model-checked: every liveness property (fairness and ENABLED are out of the prover's reach);
`LinesKept` and `FilesRoll` of Logger (section 3); HttpServer, Calendar, LogStream and Endian
(`AnswersExact`, `CalendarExact`, `TextExact`), which are about what recursions over data compute.

## 7. Known defects

Where the code does something other than it should, the model does it too. The first contradicts
what the code says of itself and is the finding of `PROJECT.json`; the others are where
properties carry an exception, or are visible in the definitions named.

- `event_loop.cc:90`: a `Quit` before the thread has entered `Loop()` is reset, and
  `~EventLoopThread` joins for ever (`DestructorReturns`).
- `event_loop_thread.cc:22-28`, `event_loop.cc:119-123`: the destructor's Quit stores `quit_`, and
  the loop may have left and be destroyed before the `Wakeup` that follows.
- `timer_queue.cc:110`: `AddTimer` reads the sequence of a timer that may have run and been
  deleted; the id returned may be that of another timer. A `Cancel` that overtakes the queued
  `AddTimerInLoop` finds nothing, and the timer runs.
- `poll_poller.cc:100`: the channel of an Acceptor that never listened is entered visible by
  `DisableAll` and the assertion of `RemoveChannel` fails. A removed channel keeps its index, so a
  call that comes late (a `StartReadInLoop` queued before `ConnectionDestroyed`) fails an assertion
  of PollPoller, and makes EpollPoller watch the channel again.
- `channel.cc`: `HandleEvent` calls `error_callback_` on a hang-up where `close_callback_` is
  meant.
- `tcp_connection.cc`: `ForceClose`, `StartRead` or `StopRead` from another thread that tested
  `state_` before a close revive the connection; it is closed again and `assert(n == 1)` of
  `tcp_server.cc:93` fails. A connection that the dying server destroys in kdisconnecting leaves
  its events on (assertion of `channel.cc:54`), or goes without telling the user.
- `tcp_server.cc`: with io loops and connections left, `~TcpServer` may lose a
  `ConnectionDestroyed` in a loop that leaves, and a `RemoveConnection` bound to the raw server
  pointer may run after its end. Without io loops a connection in kdisconnecting fails the assertion
  of `channel.cc:54`. A `Quit` lost in an io loop that had not entered `Loop()` hangs it.
- `connector.cc`, `tcp_client.cc`: `Connect` on a connector that is not at rest, or destroying a
  connected client while functors of its connector wait, fails an assertion. A client destroyed on
  another thread races the callbacks of its connection: one that comes up, closes or is connected
  again in the middle finds the client gone, and one in a callback makes `unique()` false, so that
  nobody closes it and its destructor's assertion fails. A `Stop` between the test of `connect_`
  and the callback (`connector.cc:150-151`) does not keep the connection from coming up.
- `log_stream.h`: `FixedBuffer::Avail()` gives the size of the buffer, not the room left, so a
  full buffer is written past its end instead of being handed over.
- `async_logging.cc`: a written buffer is freed (`reset()` of the pointer) where it should be
  emptied, and the assertion of the second round fails.
- `file_util.cc`: the results of `fflush` and `fclose` are ignored, so what a full disk refuses
  there is lost without a word.
- `log_file.cc`: no new file in the same second, or while the clock is set back behind the last
  one's name.
- `logging.cc`: the constructor of `Logger::Impl` does not initialise `level_`; `FormatTime`
  asserts 8 characters where a time with a zone has 9.
- `log_stream.cc`: `ConvertHex` reverses its terminating NUL to the front of the digits.
- `time_zone.cc`: `Comp::Equal` compares with `<`, so between two transitions the offset of the
  next one is taken and the assertion fails at the first; a zone file that cannot be read leaves a
  valid zone without local times. `CalendarExact` speaks of instants before the first and after
  the last transition.
- `http_request.h`: `SetMethod` assigns HEAD to the wrong variable, so HEAD is refused.
  `http_server.cc`: a pipelined request stays in the buffer until more data comes; a refused
  request line that is followed by more data is parsed again into a request that is not empty, and
  an assertion fails.

## 8. What is not modelled

- Wrappers of system calls (`socket*.cc`, `inet_address.cc`, `base/file_util.cc` but AppendFile,
  `base/process_info.cc`): I/O without state of their own; their outcomes are choices of the
  models (`WriteResults`, `PollReturns`, `ReadFd`, `Accept`).
- The wording of log lines, names of threads, formatted addresses, floating point numbers
  (snprintf).
- The bytes of a zone file: `ReadTimeZoneFile` starts from the tables they hold.
- The path, the query, bodies and other headers of a request.
- An `fopen` that fails: the constructor of `AppendFile` asserts that it does not.
- `HandleError` of a connection and `Channel::HandleEvent`'s logging: they change no state.
- Memory: only where the code shares a pointer that another thread may free (timers, the loop of a
  thread, the server, the connector) is the life of an object part of the model. Functors bound to
  a raw `TcpConnection*` are listed as a hazard: whether the connection outlives them is up to the
  references user code holds.
- Reads of plain variables that race (`state_`, `quit_`) are modelled as atomic reads and stores
  in separate steps; a compiler could do more.
- Atomics, weak callbacks and string views of `base/`: they appear as steps and values of the
  modules that use them. The demo is a user of the library.
