# muduoZ in TLA+

muduoZ is a small C++ network library for Linux in the style of muduo: one event
loop per thread, non-blocking sockets under epoll, callbacks that run on the
thread of their loop. This directory specifies its concurrent core, checks the
specifications with TLC and proves the ones that carry the rest with TLAPS. All
paths below are relative to `src/muduoZ/` unless they start with `src/`.

## 1. The system

| Part | State | Operations | Talks to |
|---|---|---|---|
| `net/EventLoop` | `pendingFunctions_` (under `mutex_`), `quit_`, `callingPendingFunctors_`, the eventfd, the active channels | `loop`, `runInLoop`, `queueInLoop`, `quitLoop` | everything: all callbacks run on it |
| `net/Epoller`, `net/Channel` | the events a channel listens to, CNew/CAdded/CDeleted, the weak pointer `tie_` | `poll`, `updateChannel`, `handleEvent` | the kernel's epoll; calls the handlers of Connection, Acceptor, EventLoop |
| `net/tcpServer/Connection`, `Buffer` | `state_`, input and output buffer, channel, socket | `send`, `shutDown`, `forceClose` from any thread; `handleRead`, `handleWrite`, `handleClose`, `connectEstablished` on its loop | its EventLoop, the user's callbacks, TcpServer when it closes |
| `net/tcpServer/TcpServer` | `connectionMap_`, `connectionId_` | `start`, `newConnection`, `connectionClose`, `connectionCloseInLoop` | hands a new Connection to a loop of the pool; erases it on the base loop |
| `net/tcpServer/Acceptor`, `net/Socket` | the listening socket, the reserve descriptor `idleFd_` | `listen`, `handleRead` | the kernel's queue of clients; calls `newConnection` on the base loop |
| `net/EventLoopThreadPool`, `EventLoopThread`, `timer/TimerWheelsThread` | `loops_`, `nextLoopIndex_`, and of each thread the object on its stack | `start`, `getLoop`, `runAt`, `runAfter`, `runEvery`, the destructor | owns the io loops and the timer thread |
| `net/timer/TimerWheel`, `Timer` | wheels of slots, a pointer each, the timers | `addTimer`, `delTimer`, `tick` | its own thread; timer functions call back into it |
| `base/AsyncLogging` | two front buffers, a vector of full ones, two back buffers | `append`, `start`, `stop`, `run` | `Thread`, `CountDownLatch`, `Condition`, `LogFile` |
| `base/LogFile` | the open file, what was written to it since it was opened, when it was opened and flushed | `append`, rolling, `flush` | called by the log thread |
| `base/Logger`, `LogStream` | a line in a fixed buffer | `operator<<`, the destructor | `AsyncLogging::append` |
| `net/HttpServer` | the request parser per connection | `onMessage`, `parseMessage` | TcpServer's callbacks, Buffer |

What is hard in it, and so what the properties are about:

* functions are queued by other threads, by I/O callbacks and by functions that
  are themselves executing, while the loop swaps the vector, quits or sleeps;
* `send` writes directly or through a buffer that another handler empties, under
  an epoll that is edge triggered for reading and level triggered for writing
  (`WriteEvent` alone; registering both makes both edge triggered);
* `state_` is looked at on one thread and acted upon on another, later;
* a Connection is kept alive by a map on one thread, by functions in the queues
  of two loops and by the application, while epoll has a bare pointer to it;
* timers move between wheels while they are run and while others are added;
* the log's buffers change hands between two threads in four places;
* whoever starts a thread waits for an object on that thread's stack, and whoever
  destroys it must reach that object before it is gone;
* the acceptor hears of its clients by edges, needs a descriptor for each, and shares
  the descriptors with the other threads and its loop with their return.

The hazards are listed one by one, with their lines and the properties that
cover them, in `PROJECT.json`.

## 2. The modules

| Module | Models | Extends or uses |
|---|---|---|
| `Executor` | what a loop promises: a FIFO of functions, executed one outermost call at a time | |
| `EventLoop` | `EventLoop.{h,cc}` | implements `Executor` |
| `EventLoopProofs` | theorems about `EventLoop` | `EventLoop`, `TLAPS` |
| `ByteStream` | what a connection promises to its two ends: messages whole, in order, once | |
| `Connection` | `Connection.{h,cc}` with its channel, its epoll entry, its socket and the peer; the loop is used as `Executor` describes it | implements `ByteStream` |
| `TcpServer` | the life of the connections across base loop, io loops, application and another thread | |
| `TimerWheel` | `TimerWheel.{h,cc}`, `Timer.h`, the timer calls of the pool, the arithmetic of `TimeStamp.cc` | |
| `Logger` | one line: `Logger.cc`, `LogStream.{h,cc}`; operators | |
| `LogFile` | `LogFile.{h,cc}`: the files, rolling, flushing | |
| `Journal` | what the log promises to those who append: bytes wait and get to disk in order, and when any may be given up | |
| `AsyncLogging` | `AsyncLogging.cc`, `FixedBuffer.h`, the thread it starts | `Logger`, `LogFile`; implements `Journal` |
| `Buffer` | `Buffer.{h,cc}`: the indices, `makeSpace`, `append`, the loop of `readFd`; operators on records | |
| `HttpServer` | one connection of `HttpServer.cc` with `HttpRequest.cc`, `HttpResponse.cc` and its input buffer | `Buffer` |
| `EventLoopThread` | `EventLoopThread.cc`, `TimerWheelsThread.cc`, `Thread.cc`, `CountDownLatch.h`: a thread and its owner | |
| `EventLoopThreadPool` | `EventLoopThreadPool.{h,cc}`: start, `getLoop`, destruction | `EventLoopThread` |
| `Acceptor` | `Acceptor.{h,cc}`, `bind`, `listen` and `accept` of `Socket.cc`, the kernel's queue and descriptors | |
| `Server` | a TcpServer from `start()` to the destruction of its pool | `EventLoopThreadPool`, `Acceptor` |
| `ConnectionProofs`, `TcpServerProofs`, `TimerWheelProofs`, `LoggerProofs`, `AsyncLoggingProofs`, `ServerProofs`, `HttpServerProofs` | theorems about the module they are named after | that module, `TLAPS`; `AsyncLoggingProofs` also `LoggerProofs` |
| `MC*` | declare the model values of the runs | the module they are named after |

Definitions keep the names of the source. An operator introduced by "With a
mistake:" is a plausible error in the code; nothing in the specifications uses
it, and putting it in the place of the definition that follows it must break a
property (`PROJECT.json`, "mutants": every property of every passing run has one).

### EventLoop

`loopPc` goes through one round of `loop()`: `test` (the `while`), `poll`,
`handle` (the for loop over the active channels), `run` (the batch). `stack` is
the call stack of the loop thread, from the callback or function that epoll or
`doPendingFunctions` called up to whatever it called through `runInLoop`. A call
by another thread is two steps, the shared variable and then `wakeup()`, because
the lock is released in between (EventLoop.cc:87-92). `wakeupFd_` is the counter
in the eventfd; `WakeupValue` is 0 because the code writes 0.

`Executor` has no threads, batches or flags. `EventLoop` implements it with
`functions \o pendingFunctions_` for the queue and `stack` for what is running.

### Connection

`sock` is the kernel's socket: units to read, a FIN, the send buffer, whether
`noSpace` was met (what makes the next free space an event), whether this end's
sending direction is shut, whether a RST came and which error it left. `edge` says
whether anything happened that epoll has not reported yet; it is reset by a report
only while the channel listens for `"in"`, because EPOLLET is in `ReadEvent`.
`handleEvent` is three steps, close, read and write, and between them the user's
callback makes up to `MaxCalls` calls. `queue` is the loop's queue.

Data sent is a sequence of numbered units, so that order and duplication are
visible; data received is a number, as nothing distinguishes its units. `killed`
is SIGPIPE.

`ByteStream` has neither threads nor buffers. `Connection` implements it with `Underway`
for what is under way: what the kernel and `outputBuffer_` hold, or only the kernel's part
once nothing more can be written. What the stream may refuse or lose is all that the
connection may: a message that finds the kernel full, the buffered rest of an end that
comes while the connection is out of epoll, everything at a reset.

### TcpServer

`Alive` spells out every `shared_ptr` to a connection: the map, what the
application holds, arguments on the stack of a loop (including the guard taken by
`Channel::handleEvent`), and the functions in a queue or in a batch, which die
together when the batch ends. Functions that bind a bare `this` (`send`,
`shutDown`: Connection.cc:33, 49) hold none, and `activeChannels_` and epoll hold
none. Data is left out; a handler may find anything. The application keeps some
connections for good and gives the others up; what is called from other threads is a
constant for each kind, because only some of the calls are safe for a connection that
may be given up.

### EventLoopThread, EventLoopThreadPool, Acceptor, Server

`owner` is the thread that has the TcpServer: where it is (in the steps of
`Thread::start` and `EventLoopThread::start`, in the base loop, in the steps of the
destructor) and with which thread. Thread `ThreadNum + 1` is the one with the wheels,
which is started last and destroyed first. `pthread_create` may fail; then nothing runs
and nobody is told. `at` is the other side: a thread publishes the object on its
stack, runs it and takes the pointer back.

In `Acceptor`, `handle` is the place in `handleRead`. The model counts descriptors;
other threads may open one at any time, also between the two system calls that give up
the reserve and use it. `Server` puts the two together: `handleRead` runs on the base
loop, `newConnection` is what follows a successful `accept`, and the base loop gives a
descriptor back when it erases a connection, which it cannot do inside `handleRead`.

### TimerWheel

One tick is `check` (once per wheel above the lowest), `run` (one step per timer of
the slot), `clear`, `advance`. `tick()` takes no lock, so `addTimer` on another
thread reads `slotCur_` and inserts in two steps with ticks in between. A timer
whose `addTimer` overlapped a tick is marked `raced`; nothing but "not doubled" is
claimed of it, since it really may be lost. `age` counts the ticks a timer has lived
through and is what on time, early and late are measured by. The ticks a timer is
added for come from `runAt`, `runAfter` and `runEvery` with the code's arithmetic: the
clock is read twice, the difference is absolute and rounded down.

### Logger, LogFile, AsyncLogging

`Line` is what a statement `LOG << a << b` puts into its 4000 bytes, byte by byte, with
what is left out when there is no room; the property of it is a statement about all
messages of a bounded form. The front of the log (`append`, under `mutex_`) and the log
thread (`Swap`, under `mutex_`; `Write`, `Recycle` and `flush` outside it) exchange
buffers. A buffer that was moved away is FALSE. `Log` is everything there is, from the
files to the current buffer, as a sequence of buffers in order; `Bytes` are the bytes in
it; `lost` is what the code gives up knowingly. A
file is named by a second; the clock may stand still over several rolls.

`Journal` has one sequence of waiting bytes and one of bytes on disk. `AsyncLogging`
implements it with `Waiting`, from the buffer of the file over the buffers of the log
thread to those in front, and with all files one after another. The bounds of the journal
are the code's: no line is refused that comes to less than a buffer with all that waits,
and nothing is thrown away unless `MaxBuffers` buffers' worth waits, of which each had too
little room for another line (`FullLength`).

### Buffer and HttpServer

A connection of the HTTP server in the steps of one read event: `readFd`'s loop, the
loop of `parseMessage`, the rest of `onMessage`. `stream` is what the client sends,
in cells (a word, a space, a colon, CR or LF), and the network cuts it anywhere.
`iovec` is filled in before `readFd`'s loop and not in it, as in the code; when that
loses data (`Garbles`) the model stops. `passed`, `first` and `asked` are history: how far
the parser has got in the stream, whether its first call saw the whole first request, and
what that request was, as the client meant it. A query is any sequence of cells without
a space, CR or LF: a client that sends one of these has not sent a request.

## 3. The runs

Each run takes less than two minutes on two cores.

| Run | Distinct states | Question and answer |
|---|---|---|
| `EventLoop_loop` | 42 710 | Two other threads, two functions, calls from callbacks nested to depth 2, three functions pending. It implements `Executor`; a batch is never abandoned; what is queued runs or the loop is told to quit; the loop keeps going back to epoll; quitting ends it. |
| `EventLoop_wakeup` | counterexample | Does queueing from another thread wake the loop? No: the value written is 0. |
| `Connection_threads` | 2.9 million | Another thread calls everything, callbacks do too, the peer may reset. It implements `ByteStream`; write interest is right; `shutDown` does not truncate. |
| `Connection_callbacks` | 41 980 | All calls from callbacks, with fairness. A closed connection leaves epoll for good, nothing is written after the shutdown, everything is read, the buffer drains, a `shutDown` completes, a FIN on its own closes. |
| `Connection_passive_close` | counterexample | Does the peer's FIN always close? Not if it arrives with data. |
| `TcpServer_life` | 146 874 | One base loop and one io loop, two connections. The application keeps one for good and calls `send` and `shutDown` on it from outside, gives up the other, which the worker force-closes. Nothing destroyed is used, nothing open is destroyed or forgotten, nothing closed is leaked. |
| `TcpServer_worker` | counterexample | Is a function bound to a bare `this` safe when another thread queues it? No. |
| `TimerWheel_wheels` | 1.4 million | Three wheels, two timers added by a timer function or by another thread, repeated, deleted; the wheels may be stopped. None is lost or doubled, those of the lower two wheels are never late and less than a round early, each runs in the end. |
| `AsyncLogging_log` | 145 200 | Four lines of two lengths in buffers that hold one or two, at most two buffers written at a time, files of one or two lines, one write that fails, start and stop. It implements `Journal`, no line is divided between files, `run` never takes a buffer from an empty vector, everything is written and on disk in the end, `stop` comes back; lines are what was logged. |
| `HttpServer_connection` | 1.0 million | Two requests, the first with a known or an unknown method, with and without a query, either version, with and without a `Connection` header, cut anywhere, also between two `readv` of one `readFd`. The buffer holds exactly what was received and not yet parsed, as long as `readFd` has not lost anything; what the parser has read is what was asked; a connection gets one good answer, and only if its first request came in one piece; it stays open exactly as the answers say. |
| `Server_start` | 75 385 | Two io loops and the wheels, two descriptors, four clients, another thread that opens a file. `getLoop` hands out loops that exist, in turn; `start` comes back unless a thread could not be created; no client stays in the queue; the destructor comes back from a loop that was running. |
| `Server_descriptors` | counterexample | Does the acceptor survive running out of descriptors? No: with none left `accept` never says EAGAIN, and `handleRead` goes round for ever. |

### Bounds, and why they are enough

* `EventLoop`: `MaxPending` 3 allows a batch of several functions while more are
  queued behind it; `MaxDepth` 2 and `MaxCalls` 2 allow a function to call one
  directly and queue another. The safety part is proved without bounds.
* `Connection`: `SendBuffer` 1 or 2 with messages of up to 2 or 3 units makes
  every kind of write happen: all, a part, nothing. Three or four units in all are
  what it takes for a buffered message to be followed by one that could overtake it.
* `TcpServer`: two connections are needed for one callback to end another, and one io
  loop has all the interleavings with the base loop. With `ThreadNum` 1 the index of
  the pool is always 0; the pool is checked in `Server_start`. `Kept`, `KeptOps`,
  `WorkerOps` and `CrossOps` of `TcpServer_life` are what is safe; `TcpServer_worker`
  shows one of the calls that are not, section 5 another. A worker that wants to add to
  a queue of `MaxPending` functions waits, which no thread of the program does; strong
  fairness of that step takes the effect of this bound on liveness back.
* `TimerWheel`: two slots per wheel and three wheels are the least that move a
  timer down twice. The real values are 60 and 5; nothing in the model depends on them
  but that a wheel has two slots. Delays of 0, 3 and 7 milliseconds, a clock with two
  units to the millisecond and two readings at most one unit apart give every number of
  ticks from 0 (which counts as 1) to 6 but 4 and 5, and a delay that is refused or not
  depending on the clock. `AgeLimit`, where `age` stops counting, is at least the ticks of a
turn of the second wheel (`TickNOneSlot[1]`): no timer of the wheels that `RunsWhenDue`
speaks of has a longer delay.
* `AsyncLogging`: `MaxBuffers` 2 (25 in the code) makes the erasure happen with four
  lines; only that it is at least the two kept matters. Lines of 8 and 12 bytes in
  buffers of 20 make both an exact fit and a remainder too small for the next line; a
  file is left after 17 bytes, so one buffer may or may not be enough for it. In
  `Logger` the sizes (16 for the buffer, 5 and 3 for numbers) keep the order of the real
  ones (4000, 32, 8) and let text, integers and doubles meet the end of the buffer.
* `Server`: two loops are needed to be handed out in turn, and two descriptors with four
  clients and another thread make the reserve needed, used and lost.
* `HttpServer`: a vector of 12 cells is moved and enlarged within two requests of 7 to
  14 cells, and is larger than a request line, as the real one of 1024 bytes is (a
  request line that fills it without a CRLF makes `makeSpace` move a negative length).
  The array on the stack takes everything, as the real one of 64 KiB does for requests.

### Fairness

* `EventLoop`: weak fairness of the loop thread. epoll_wait returns after at most
  one second (`kPollTimeMs`, EventLoop.h:55), callbacks are assumed to return, and
  a thread inside `queueInLoop` gets to its `wakeup()`. Nobody has to call anything.
* `Connection`: strong fairness of `Poll` and of `RunFunction`. This is not an
  assumption about the kernel but what `EventLoop` guarantees: `KeepsPolling` says
  the loop polls again and again whatever the functions do, and `EveryFunctionRuns`
  that a queued function gets its turn. The peer keeps reading until it closes, and
  a closed peer answers data by a RST.
* `TcpServer`: weak fairness of each loop, strong fairness of the worker's step that the
  bound of the queue may hold up. The application is assumed to drop in the end what it
  does not keep for good.
* `TimerWheel`, `AsyncLogging`: weak fairness of the thread and of whoever waits for
  the mutex; `waitForSeconds` times out. `Tick` of the clock is not fair: the files may
  all have the same name.
* `Server`: weak fairness of the owner and of each thread, and another thread that has
  opened a descriptor closes it in the end. Clients need not come, connections need not
  close.

Deadlock is not checked in the runs of `Connection` (which has no step when both ends
are done), `AsyncLogging` (none after `stop`), `HttpServer` (none when all requests have
come), `TimerWheel` (none when the wheels are gone) and `Server` (none when the server is
destroyed, or waits for a thread that was never created); it is in the others.

## 4. What is proved

`EventLoopProofs` proves, for any set of callers and functions and any bounds:

* `SpecIInv`, `TypeCorrect`, `BatchCompletes`: the invariant `IInv` is types, `BatchNotAbandoned` and
  `CallbacksOnlyInRound`. `BatchNotAbandoned` needs the last one: without it a
  step from a state that runs user code outside `handle` and `run` would be
  possible. `InitIInv` and `NextIInv` (one step per action) give it by induction.
* `ImplementsExecutor`: `InitRefines`, and `NextRefines` with a step per action
  naming the step of `Executor` it is. The one that is not obvious is `SwapPending`:
  it leaves `functions \o pendingFunctions_` alone only because `functions` is empty,
  which is `BatchNotAbandoned`. The facts about sequences are lemmas of their own.

The assumptions are `BoundsAreNaturals` and, for the model only, `IoCallbackIsNoFunction`.

The other proof modules have the same layout: the inductive invariant first, in named
parts; lemmas about the operators; `InitIInv` and `NextIInv` with one step (or one lemma)
per action; then a theorem per property that a run checks on a small instance. Each
assumes no more of the constants than the named `ASSUME`s of its module.

**ConnectionProofs**, for any size of the send buffer, any lengths and whatever the other
thread calls.

* `StreamStaysInOrder`, of the order alone. `StreamInOrder` speaks of what the peer has got and is not
  inductive: nothing in it keeps the send buffer or the output buffer in order, nor one
  behind the other. `PartsInOrder` does: what is in the kernel increases and lies below
  what is in `outputBuffer_`, and a new send is above both; `sendInLoop` may write directly
  only because `WriteInterest` says that without interest in writing nothing waits.
* `ImplementsByteStream`: a step of `ByteStream` for each action that moves data. The two
  that need the invariant are `SendInLoopRefines` (a direct write extends the stream only
  because nothing waits before it; a message is dropped only when the kernel has no room)
  and `ShutDownInLoopRefines` (while registered, the end comes only when nothing waits).
* `WriteInterestHolds` needs `Established`: until `connectEstablished` has run, once and
  first, there is no channel to be out of step with.
* `ShutDownLosesNothingHolds` is an action property, from the same invariant.
* `ClosedStaysClosed` and `NothingWrittenAfterShutdown` assume `WorkerOps = {}`, that no
  other thread calls into the connection (the callbacks may call everything). They are
  false otherwise: `state_` is looked at on the calling thread and acted upon later, by a
  function in the queue. `CallbacksOnly` is their invariant.

**TcpServerProofs**, for any number of loops and connections.

* `MapAlwaysHoldsOpen`, whatever the application and its threads call. It needs to know
  what every function that is still to run says of its connection (`Waiting`), that a
  connection is established only once (`Once`), and where loops and channels are.
* `ActiveChannelsAreAlive`, `FunctionObjectIsAlive`, `DestroyedIsUnregistered` assume
  `CarefulUse`: connections that the application may give up are used from other threads
  only by `forceClose` (which binds a `shared_ptr`), and callbacks do not call into other
  connections (`CrossOps = {}`). `TcpServer_life` satisfies it; without it the properties
  are false (`TcpServer_worker`, and section 5). The invariant `LInv` says who holds a
  connection from the time it is in epoll: the map, until it has left epoll, or the
  application; and that the channels a loop is about to handle are still registered.

**TimerWheelProofs**, for any number of wheels (at least one), slots (at least two),
timers, ticks and delays.

* `TypeCorrect`: `calculatePosByTicks` and `addTimerToLower` stay within the vectors.
* `PlaceIsOne` and `AlwaysRunsWhenDue` follow from `TimerInv`, which says of each timer where
  it is and that the way from the pointers to its place is what is left of its delay, up
  to the early rounds of the code; and from `Phases`, what the loops of `tick()` have
  done so far. What `TickNOneSlot`, a recursive function, is on every wheel takes an
  induction over the wheels (see below).

**AsyncLoggingProofs**, for any sizes of buffers and files and any number of front threads'
lines.

* `LogIsComplete`: the log as a whole is in order (`AllInOrder`), each part is
  (`EachInOrder`), and what is neither in it nor lost has not been appended (`AllThere`).
* `FilesAlwaysHoldWholeLines`: a line is divided nowhere, from the buffers on (`LinesWhole`).
* `VectorAlwaysHoldsNeeded` is a matter of counting: `Buffers` says how many there are in
  each phase of the log thread.
* `ImplementsJournal`: every step is one of the journal or leaves it alone. Swapping is
  invisible since the log thread holds nothing then (`Buffers`) and the current buffer goes
  behind the full ones; a write takes what has waited longest, whether the file is rolled
  or not, because no later file exists (`NoLaterFiles`); what is erased comes out of the
  middle and is disjoint from the rest (`AllInOrder`); and it is erased only when enough
  waits, which takes an invariant of its own, `FullBuffers`: a buffer gets into the vector
  when a line does not fit, so it is full up to the length of a line. `Flatten*` are the
  lemmas about buffers one after another.
* `LinesAlwaysInTheLog` is `EveryLineIsSpelledOut` of `LoggerProofs`, which also gives
  lemma `Constants` its upper bound: a line is shorter than a `LogStream`'s buffer.
* The assumption beside the sizes is that there is a second to name a file by.

**LoggerProofs**, for messages of any number of items, of any integers, texts and doubles.

* `ConvertIsRight`: `convert` takes the digits from the lowest up, with a mirrored table
  for the negative remainders of C++, and reverses them; read as a decimal, the result is
  the integer. Nothing is negated on the way, so this goes for the lowest value of a type too.
  `OneDigit` is one turn of the loop, `DigitsAreRight` the induction over the distance
  from 0.
* `EveryLineIsSpelledOut`: `PutTakes` says that an item is taken whole or not at all and
  leaves the last byte free; by induction over the items a line stays inside
  (`LineInside`), is the spelling of the items that found room (`LineNotCut`), and these
  are all of them if the message leaves room for one more number (`LineWhole`).
* The assumption beside the sizes, `NumbersFit`, is that every number fits in
  `NumericSize`: 32 characters in the code, and 64 bits have at most 20.

**ServerProofs**, for any number of loops, clients and descriptors: `LoopsAlwaysExist`
(the vector is filled in order, `InOrder`, while nobody quits, `NobodyQuits`) and
`AlwaysBalanced` (`InTurn`: the loops before the index are one connection ahead).

**HttpServerProofs**, for any vector, any array on the stack, any number of requests, any
query and any cut of the stream.

* `InputAlwaysIsStream`: `Holds` says of every cell of the vector between the indices which
  cell of the stream it is, and is preserved by `append`, `makeSpace` and `readFd`; the
  parser may be two cells ahead of what has come, because it passes a CRLF that is not there.
* `AlwaysParsedIsAsked`, `OneSuccess`: the invariant is a story (`Story`) of the first
  request: nothing parsed (`Fresh`), in its headers, `Parsed`, answered with its empty line
  left behind (`Answered`), and what that leads to (`Failed`, `Doomed`, `Closed`). The steps
  between rest on what the parser makes of each line of a request (`ParsedLine`, `HeaderIs`,
  `LinesOfFirst`).
* `AnnouncedAlwaysDone`: every answer but the last has kept the connection (`AnswersIn`).

Induction. An induction theorem of the library takes its predicate as an operator, which no
installed prover can instantiate. Where a proof needs induction over numbers (the turns
of the wheels, the items of a line, the first place of a cell in a line), it takes a
least counterexample instead: `Least` of `TimerWheelProofs` and `HttpServerProofs`, or
`SetInduction` of `LoggerProofs`, in which the predicate is a set. Recursive definitions
are functions on the naturals, and what they are for each argument comes from the
library's definition theorems (`FiniteNatInductiveDef`, `WFInductiveDef`), to which a
hidden local definition can be handed.

Only model-checked:

* every liveness property (`KeepsPolling`, `EveryFunctionRuns`, `QuitEndsLoop`, `OutputDrains`,
  `EverythingIsRead`, `ShutDownCompletes`, `LoneCloseIsSeen`, `ClosedIsDestroyed`,
  `EveryTimerRuns`, `EverythingIsWritten`, `StopEnds`, `StartEnds`, `ClientsAreTaken`,
  `JoinEnds`), since neither fairness nor `ENABLED` is within the prover's reach;
* the counterexamples of section 5.

## 5. Where code and text disagree

Each of these has a run that ends in a counterexample.

1. **`wakeup()` wakes nobody** (EventLoop.cc:122). An eventfd is readable while its
   counter is not 0, and 0 is written. A function queued by another thread waits for
   some other event or for the timeout. `EveryFunctionRuns` holds nonetheless.
2. **The peer's close can be missed** (Connection.cc:121). `readFd` adds up what it
   reads until a call returns 0 or an error, so a FIN behind data is not seen, and
   edge triggering does not report it again.
3. **`shutDown` and `send` from another thread may use a destroyed Connection**
   (Connection.cc:33, 49), although the comment says that no `shared_from_this` is needed.
4. **Running out of descriptors stops the server** (Acceptor.cc:62), although the
   reserve is there for just that (Acceptor.h:34). `accept` looks for a descriptor before
   it looks at its queue, so without one it fails with EMFILE also when nobody waits;
   `handleRead` never returns, and the base loop, which would erase the closed connections
   and so give their descriptors back, never gets to it. The notes
   (`src/record/调试过程记录.md:3`) describe the loop without its cause.

`OneSuccessPerConnection` is no contradiction but the answer to a question: the notes
of the load test (`src/record/压测.md`) wonder why the successful requests of long
connections were as many as the clients. The empty line after the headers stays in the
buffer (HttpRequest.cc:45-48) and is the request line of the next request, so every
connection has one good answer. And since the parser takes whatever has arrived for a
complete request line, a first request in two pieces gets none.

Met while modelling, with no run of their own:

* `readFd` computes its iovec once (Buffer.cc:33-39), so data that arrives between two of
  its `readv` overwrites what the first one read (`Garbles`), though Connection.cc:117 says
  it receives until all is taken in.
* A callback that force-closes another connection of the same loop, whose channel is
  active in the same round and whose last `shared_ptr` the application gives up, leaves a
  destroyed channel in `activeChannels_` (EventLoop.cc:59; `tie_`, which is to prevent it,
  is a member of the destroyed object). `TcpServer_life` with `CrossOps` {"forceClose"}
  violates `ActiveChannelsAlive`.
* A timer that comes down from the third wheel may run late (TimerWheel.cc:43):
  `TickNOneSlot` is the ticks of a full turn, not of one slot as TimerWheel.h:52 says, and
  the remainder is used as a number of slots. With three slots per wheel a delay of 26
  ticks is enough. This is why `RunsWhenDue` speaks of the two lowest wheels.
* `delTimer` of a timer that has moved down does nothing (TimerWheel.cc:51, 70). The ticks
  of a delay are milliseconds, a tick is `sleep(1)` (TimerWheel.cc:194). An expiration time
  that is past counts as one in the future (TimeStamp.cc:58-65).
* `send(const char*)` sends as many bytes as a pointer has (Connection.cc:38): of the text
  of the 400 answer, `HTTP/1.1`. A request with an unknown method is not answered at all
  until more arrives, because `succeed` is set whether the line could be parsed or not
  (HttpRequest.cc:27-30).
* `snprintf` for a double is limited to the size of a double and the buffer moved on by
  the length the number would have had (LogStream.cc:91-97): of a longer one seven
  characters are right and the rest is what an earlier line has left. A line that fills
  its buffer has no newline (Logger.cc:28, FixedBuffer.h:22).
* A file rolled twice in a second is the same file and may grow beyond `rollSize_`
  (LogFile.cc:79-81).
* When `bind` fails the descriptor is closed, `listen` fails later and closes the same
  number again, which may belong to a loop by then (Socket.cc:30, 53).
* A destructor of EventLoopThread that comes before the first line of `loop()` waits for
  ever, as `loop()` forgets the `quitLoop` (EventLoop.cc:55).
* `callingPendingFunctors_` is never reset (EventLoop.cc:113), which with item 1 has no
  effect; a direct write that finds the send buffer full drops the message
  (Connection.cc:84-92); `connectDestroyCallBack_` is never called; the notes
  (`src/record/TcpServer笔记.md:27`) want the last reference to be given up on the
  server's thread, but the io loop may hold it longest.

## 6. Not modelled

* Contents and addresses of data but for the input of the HTTP server: the caller's
  memory bound in `send`, the output buffer's indices, strings of any kind.
* Malformed HTTP requests other than an unknown method, bodies (the parser never gets to
  `ExpectBody`, and is reset before it could start in `GotAll`), and what the parser makes
  of data that `readFd` has garbled.
* Undefined behaviour inside the standard library, when two threads change the same
  `std::list` of a timer slot: the model gives each operation as a step.
* A timer function that deletes its own timer while the loop of `runSlot` holds the iterator.
* The destruction of a TcpServer with open connections, of an Acceptor and of an
  EventLoop: no program of the repository does it while the loops run. Calls of the pool's
  timer functions when its timer thread is gone.
* The numbers of descriptors: `Acceptor` counts them.
* Formatting of time stamps, the cached thread id of `CurrentThread`, thread names, socket
  options.
* The programs under `test` and `tests`, which use the library; the `ignore` directories,
  which are not compiled; `src/WebBench`, a third-party load generator.

## 7. Plan

Done: EventLoop, Connection and AsyncLogging, each with an abstract specification that it is
shown to implement; TcpServer; TimerWheel; Logger and LogFile; HttpServer with Buffer;
EventLoopThread, EventLoopThreadPool, Acceptor and their composition in Server. Every
invariant, action property and refinement that a run checks is proved; liveness is
model-checked.

What would come next:

1. `Buffer` under `Connection` too, so that the loss in `readFd` shows in a stream towards
   the user as well.
2. What the pool promises to its server, as an abstract specification of `Server`.
