# A formal model of dataslinger

dataslinger is a C++17 library that passes byte messages between processes.  An
application creates a `DataSlinger` with two callbacks, calls `send()` and `poll()`, and
destroys it.  Behind the facade sits one of several backends; the WebSocket client and the
WebSocket server are the ones that pass messages, the shared vector only makes a segment of
shared memory, and the pipe does nothing.  This directory models them in TLA+, checks the
models with TLC on small instances, and proves every safety property, for all instances,
with TLAPS.

Paths below are relative to `dataslinger/dataslinger/`.

## 1. Inventory

| Component | State | Operations | Hard behaviour | What makes it correct |
|---|---|---|---|---|
| WebSocket client session (`backend/websocket/datareceiverwebsocket.cpp`) | send, receive and event queues (lock-free), `m_isWriting`, `m_sendBuffer`, `m_receiveBuffer`, stream, io_context | `send`, `poll`, `run`, `stop`; handlers `onResolve`, `onConnect`, `onHandshake`, `onRead`, `onWrite`, `doWrite` | application threads against the io thread; a test of the queue that is out of date; any operation failing | one write at a time from an undisturbed buffer; each message in one place, in order; a queued message is on its way |
| WebSocket server session (`backend/websocket/dataslingerwebsocket.cpp` 29-163) | as the client's | `send`, `poll`, `run`; `onAccept`, `onRead`, `onWrite`, `doWrite` | handlers of one session on several io threads with no strand: data races on the buffer and on the stream | no message stranded; order and integrity as long as neither race happens |
| Server listener (166-293) | `m_sessions` and its mutex, the acceptor, events | `run`, `send`, `poll`, `onAccept` | `send` walks the vector without the mutex; callbacks run under it; one failed accept ends the loop | every session gets each message once; `poll` sees a quiet vector; deafness is reported |
| Server life cycle (297-430) | `m_ioc`, `m_listener`, the io threads, the signal set | `run`, `send`, `poll`, `stop`, destructor | `stop` before `run` has made the context; members freed under running threads | the destructor leaves nothing running, and ends |
| Client life cycle (`datareceiverwebsocket.cpp` 217-282) | the shared_ptrs to the session, some inside the session's own io_context | construct, `run`, `send`, `stop`, destructor | the session is freed under `run()`, or kept by its own handlers | the destructor ends unless freed memory is used, and nothing it frees is in use by a connection |
| Facade and factory (`backend/dataslinger.cpp`, `backend/factory`, `slinger.cpp`) | the future of `run()`, the `Backend`, who holds which Impl | construct, move, assign, `send`, `poll`, destroy | member destruction order; exceptions from the constructor; an assignment that closes what it replaces | one owner for each Impl; the destructor waits for what it started |
| Events (`event/`) | kind, source, severity, text, id | `makeEvent`, `what` | a global atomic counter | an error is recognisable as one |
| Options, HeterogeneousMap (`connection/`, `slinger.h` 714-778, 836-881) | a map from keys to `any` | typed lookups | lookups that throw | total where callers need it |
| Shared vector backend (`backend/sharedvector`) | a named shared-memory segment | construct, destroy; `run`, `send`, `poll` are empty | slingers of several programs and one fixed name; a crash leaves the segment | the segment is the living one's own; none is left by a destructor or an exception |
| Pipe backends (`backend/pipe`) | none | all empty | none | - |
| `nonstd::any` (`slinger.h` 30-706) | vendored | - | - | - |

They interact as follows.  The facade's constructor starts `Backend::run` on a thread of
its own, the runner, with `std::async`.  The client's `run()` executes its io_context on
the runner.  The server's starts three more threads and executes one io_context on all
four.  `send()` enqueues and posts a `doWrite` to the io_context; handlers enqueue received
messages and events; `poll()` dequeues them into the callbacks on the caller's thread.  The
destructor of the facade polls once, destroys the backend (which stops the io_context) and
then waits for the runner.

`PROJECT.json` lists the hazards of this code, each at its line, with the properties that
watch it or a note saying why none does.

## 2. Modules

Abstract specifications:

* `Outbox` - the promise of a send path: each producer's messages are accepted and concluded
  at most once and in order.  `ClientSession` implements it (`ImplementsOutbox`).
* `Closing` - the promise of a slinger's destructor: it returns only when everything that was
  started has come to rest, and nothing stirs again.  `Lifecycle` implements it
  (`ImplementsClosing`): there the io threads have to be at rest too, which the destructor
  does not wait for itself.

The theorems about a module `M` and their proofs are in `MProofs`; `QueueLemmas` has what the
proofs about both sessions need to know of queues and of counting in them.

Components:

* `Events` - the event that `makeEvent` builds.
* `Options` - the typed lookups, and what the factory makes of them; pure operators.
* `ClientSession` - the client's session.  `MCClientSession` instantiates it.
* `ServerSession` - one connection of the server.  `MCServerSession` instantiates it.
* `Listener` - the server's vector of sessions, with the accept loop, `send` and `poll`.
* `Lifecycle` - facade, runner, io threads and destructors of a server slinger.
* `ClientLife` - facade, runner and destructors of a client slinger, and who holds its
  session when.
* `Slingers` - the `DataSlinger` objects of several programs: constructors that may throw at
  each of their steps, moves, assignments, destructors, crashes and restarts, and the one
  shared segment.  It extends `Options`; `MCSlingers` gives it option maps, right and wrong.

Composition:

* `Link` - an instance of `ClientSession` and one of `ServerSession` on one connection.  The
  sessions leave open what the network does; `Link` closes it: an accept or a handshake
  succeeds only when the other side has done its part, the connection takes one frame for
  each `async_write`, with whatever `m_sendBuffer` holds at that moment (`Transmit`), the
  write succeeds exactly if its frame was taken (`ClientWritten`), and a frame is read only
  when it is on the wire.  Nothing in the network keeps a message from being taken twice:
  that none is rests on the client's writes.

How the others fit together: `Listener` sees a session as a place that messages are handed
to, `ServerSession` is what happens there; `Lifecycle` and `ClientLife` see only whether
operations are pending, the sessions are what those do; `Slingers` sees only whether `run()`
has returned, the life cycles are when it does.

Variables carry the names of the members they model (`sendQueue` for `m_sendQueue`) and
actions the names of the functions.  Variables marked "history" in their comment are not in
the code; they record what properties speak about and no guard of a code action reads them,
except to number messages and to apply a bound.

### Grain of atomicity

*Client.*  One thread runs all handlers, so a handler is one action.  `send()` runs on other
threads and is three: `SendTest` (reads `size_approx()`), `SendEnqueue` and `SendPost`.
`poll()` is one action for each dequeue with its callback, so that everything else can
happen between two callbacks.

*Server session.*  The io_context is given a concurrency hint of 1 but is run by four
threads.  The chain of accept and reads has one outstanding operation, so its handlers
cannot overlap: each is one action, and the call of `async_accept` or `async_read` that it
ends in another (`calling`, `Called`), because that call uses `m_socketStream`.
`doWrite()` and `onWrite()` can run on several threads at once and are split at each access
to `m_isWriting`, the send queue, `m_sendBuffer` and the stream: `PostedDoWrite` or
`NextDoWrite` (test), `Dequeue` (claim), `Assign` (move into the buffer), `StoreWriting`,
`AsyncWrite`, `Complete`, `onWrite`.  Two overlapping moves are a data race: the buffer
then holds either message or `Torn`; a write whose memory was freed under it may put out
`Torn`.  The calls that begin an operation on the stream and the ends of operations are
uses of it (`UseStream`).  When two of them meet on different io threads, `streamRaced` is
set, and from then on a frame may be read or written as anything and a write need not
complete.

*Listener.*  `send()` walks the vector one session at a time, with separate reads of
`begin()` and `end()`.  `storage` counts how often the vector has moved to new memory; a walk
that goes on in old memory sets `raced` and ends.  A callback that calls `poll()` while
`poll()` holds the mutex goes as far as the lock, and waits there like anybody else
(`PollReenters`): that is what a `std::mutex` does on the platforms where locking it twice
does not throw.  The growth by doubling is that of the
common standard libraries; what matters is that some appends move the elements and some
do not.

*Life cycle.*  Every use of a member of the Impl by the runner, and every step of the
destructor, is an action.  Using freed memory sets `misused`; the model then goes on as if
the memory were still there.  Liveness is not claimed of such behaviours.

*Client life cycle.*  As above, with `late` (the runner called a function of the destroyed
`Backend`) and `underRun` (the session was freed under its `run()`) in place of `misused`,
because the two have different causes.  `owners` is the set of shared_ptrs to the session:
the Impl's, one for each operation pending in the io_context, and the one a running handler
brought along.

*Slingers.*  A program's application thread makes, moves and destroys one after the other.  A
constructor is two steps, each of which succeeds or throws: making the backend
(`MakeBackend`, or `FactoryThrows` in the lookup, or `CreateThrows` at `create_only`), and
starting the runner (`StartRunner`, or `AsyncThrows`, which destroys the members that were
made: the backend, and with it the segment).  The destructor is two: freeing the backend,
and waiting for the runner.  Between the two steps other programs and the runners go on, and
a crash may come.

### External parts

The io_context (runs posted and completed handlers until stopped or out of work),
moodycamel's queue (a FIFO for each producing thread; a consumer may take from any of them,
and `size_approx` is taken as exact, which only makes `send()` look better than it is), and
Beast's stream (an operation on a stream that is closed or has failed ends with an error,
on any other in either way; a failed operation leaves the stream failed; a stream that two
threads have used at once owes nobody anything).  What Beast does between the begin and the
end of an operation, on whichever io thread, is left out: `streamRaced` has the meetings of
begins and ends.  Allocation failures and exceptions from the callbacks are left out.
Informational events are left out: they are enqueued unconditionally and nothing reads
them.

## 3. Runs

| Run | Instance | What it shows |
|---|---|---|
| `ClientSafety` | 2 threads, 2 sends each, 2 frames | types, one write at a time (`WriteDiscipline`), `EachOnceInOrder`, `FramesWhole`, `FailuresReported`; a stranded queue stays so (`WedgedIsForever`) and has one of two causes (`WedgeHasCause`); `Outbox` is implemented (`ImplementsOutbox`) |
| `ClientLiveness` | 3 threads, 1 send each | `SendResolves`: a message is concluded, unless the queue is stranded or the io thread is gone |
| `ClientLostWakeup` | 1 thread, 2 sends | violated: a message stranded on a healthy connection |
| `ServerWriting` | 1 thread, 2 sends, 2 io threads, 1 frame | `NoStrandedMessage`; `OrderlyUnlessRaced`, with the test of `m_isWriting` and the shared stream as the two races; `FailuresReported`; and `SendTaken`, that a message is eventually taken unless the stream was raced for |
| `ServerOverwrite` | 2 sends, 2 io threads | violated: a message overwritten in `m_sendBuffer` before it is written |
| `Link` | 1 sender, 2 sends, 2 io threads | what the server's application gets was handed to the client's `send()`, none of it twice, each sender's in order in each io thread's queue (`EndToEnd`); a gap before a message that went out was reported (`NoSilentGap`); frames of two io threads stay whole (`FramesOnce`) |
| `ListenerSafety` | 1 thread, 2 sends, 4 connections, 2 polls | `HandedToAll`, `PollUndisturbed`, `DeafOnlyIfReported`; an accepted connection is run (`AcceptedIsRun`) and `poll` ends (`PollEnds`) unless a callback calls `poll` |
| `Life` | 3 io threads, 1 poll | `ImplementsClosing`, `ContextOutlivesThreads`, `StuckOnlyIfMissed`, `CloseEnds` |
| `LifeFreed` | 3 io threads | violated: `stop()` finds the io_context, and the Impl is freed while `run()` is in `m_ioc->run()` and all the threads run |
| `LifeHangs` | 3 io threads | violated: a destructor faster than `run()` never ends |
| `ClientLife` | 3 posted doWrites | `CloseEnds`, unless the runner reached the backend only when its functions were destroyed (`late`) or the session was freed under its `run()` (`underRun`); the session is freed under `run()` only when it has no connection (`FreedOnlyIdle`), and otherwise never (`StoppedIsKept`) |
| `Slingers` | 2 programs, 2 objects each, 3 Impls, 6 option maps | `OwnedOnce`; `LookupsSucceed` for any options; the segment belongs to the shared vector that lives (`SegmentIsMine`) or to one that crashed, not to one whose constructor threw (`OrphanedByCrash`), and one left by a crash stays (`OrphanedIsForever`) |

`CHECK_DEADLOCK FALSE` is set everywhere, because every part may stop for good: the
application need not call anything, the peer need not answer, a bound may be reached.

### Bounds and why they suffice

Two sends by each of two threads give the client every combination of a message being
written, one queued and one about to be queued; losing a wake-up needs two messages.  Two
frames show a buffer that was not consumed.  For the server two io threads realise every
race of a pair, two messages put one in the buffer and one behind it, and one frame lets
the chain use the stream before, between and after the writes.  A single application thread
is enough there, because the server's `send()` reads nothing that other senders write.  The
same holds for the listener: one sender, with four connections, so that the vector's
capacity goes 1, 2, 4 and an append with and one without a move happen under a walk; the
second poll is one from a callback, or one after the first.  The life cycle of the server
uses the code's own three extra threads; that of the client has three doWrites, so that one
is running and one posted when a write is pending.  `Slingers` lets one program orphan a
segment or hold it, and another, or the same one restarted, meet it, with an object to move
from and one to move to; a third Impl is the one that is replaced, or whose constructor
throws while the others exist.  In `Link` one sender is enough, since `NoSilentGap` and
`EndToEnd` speak of one sender's messages and `EachOnceInOrder` keeps several apart; two
messages make a gap.  Permutations of threads, programs and objects are used as symmetry in
safety runs only.

### Fairness

`ClientSession` and `ServerSession` assume that a ready handler is run, that asio completes
every write it was given (with or without an error; in `ServerSession` as long as no two
threads have used the stream at once) and that a thread inside `send()` leaves it.  They do
not assume that the application calls anything or that the network answers a resolve,
connect, handshake or read.  `Lifecycle` and `ClientLife` assume that each thread goes on
when it can and that a destructor that has begun goes on; no signal need arrive and no
operation complete.  `Listener` assumes that a thread in `onAccept()` or `poll()` goes on,
that callbacks return, and that a thread which waits for the mutex gets it if it is free
again and again (strong fairness: `std::mutex` promises no order, but an application does
not poll without a pause for ever).

### Divergences found

* `ClientLostWakeup`: the client's `send()` decides whether to post from a queue size read
  before its enqueue.  If the queue is emptied in between, or another sender does the same,
  nothing is posted; as the queue is then not empty, no later `send()` posts either.
* `ServerOverwrite`: test and store of `m_isWriting` are separate, on threads without a
  strand.  Two `doWrite`s fill the one `m_sendBuffer`.
* `LifeFreed`: `stop()` says that it blocks until the threads exit, and does not, although it
  finds their io_context; the Impl is freed under them.
* `LifeHangs`: a `stop()` that finds no io_context is forgotten.

Without a finding, but good to know: what the code calls a fatal error is recorded with
`EventKind::INFORMATIONAL`, by sessions, listener and slinger alike, since all of them call
the `makeEvent` with two arguments (`eventhelpers.cpp` 8-15); a client destroyed while
connected leaves session, io_context and socket behind for the life of the process
(`StoppedIsKept`); a program that ends without its destructors blocks the shared vector of
every program until somebody removes the segment by hand (`OrphanedIsForever`); a callback
that calls `poll()` may stop the server's accept loop with itself (`AcceptedIsRun`); the
listener's vector may move under a `send()` (`raced` in `Listener`); `m_sessions` never
shrinks; a message sent before the listener exists, or while nobody is connected, is
dropped without a word; one sent before there is a connection is written to a closed
stream, which refuses it; the server's session uses its stream on several io threads
without a strand (`streamRaced`); frames read by different io threads may be polled out of
order (`FramesOnce` claims order only within a thread).

## 4. Theorems

Every invariant, action property and refinement that a passing run checks is also proved,
for every value of the constants.  The assumptions are those the modules state: bounds are
natural numbers; in `Lifecycle` the io threads are told from the other owners of the
io_context; in `Slingers` the option sets map keys to values of some type; in `Link` there
are finitely many senders.  Nothing is assumed of the number of threads elsewhere, not even
that it is finite: that only finitely many of them have anything to report is part of the
invariants that count.

### `ClientSessionProofs`

| Theorem | Statement | Argument |
|---|---|---|
| `TypeCorrect` | `[]TypeOK` | Types alone are not inductive: `onWrite` records what `m_sendBuffer` holds, which is a message only because a write is outstanding.  The invariant is `TypeOK /\ WriteDiscipline`. |
| `WriteSideDisciplined` | `[]WriteDiscipline` | the same induction; `doWrite` begins a write only when there is none, and `onWrite` calls it after removing the one there was |
| `StrandedForever` | `WedgedIsForever` | in a stranded state nothing is posted or outstanding, so only `send()` touches the write side, and its test finds the queue not empty |
| `StrandingHasCause` | `WedgeHasCause` | each action that ends the last write under way either fails or has found the queue empty; each action that fills an empty queue posts or has an old test |
| `NothingLostOrOvertaken` | `[]EachOnceInOrder` | queue, outstanding write and conclusions partition `1..sent[t]`; uses `WriteDiscipline` to know that the message concluded is the one that was dequeued |
| `ClientImplementsOutbox` | `ImplementsOutbox` | `Init` and every step map to `Outbox`: `SendEnqueue` to `Accept`, `onWrite` to `Conclude`, all else to a stutter |
| `FramesDeliveredWhole` | `[]FramesWhole` | strengthened by "`m_receiveBuffer` is empty between reads" |
| `FailuresReportedOnce` | `[]FailuresReported` | strengthened by "before `run()` there is no chain".  Queue and callbacks are one log of events; `poll()` leaves the log as it is (`HandOver`), and what reports appends to it (`CountAppend`) |

### `ServerSessionProofs`

Whether or not the io threads race, but for the two theorems that say until when they hold:

| Theorem | Statement | Argument |
|---|---|---|
| `TypeCorrect` | `[]TypeOK` | strengthened by `MoveTyped`: a thread that moves has claimed a message, and from the move to the `async_write` the buffer holds something to write, whoever moved last |
| `NothingStranded` | `[]NoStrandedMessage` | a `doWrite` that returns because `m_isWriting` is set leaves the queue to whoever will clear the flag.  The invariant says that there is one (`FlagHasCause`: a write outstanding, one about to begin, or an `onWrite` about to run) and that an `onWrite` which will not call `doWrite` comes after a failure (`FailedKnown`) |
| `OrderlyUntilRaced` | `[]OrderlyUnlessRaced` | `OneAtATime`: at most one thread past the test, none while a write is outstanding, no two moves at once.  `InOrder`: what is between queue and history (`Hand`) is the message with the number after the last concluded one, and the queue goes on from there.  Only the test can end `OneAtATime`, and it sets `raced` when it does; `InOrder` ends with a frame that is not the message, which needs `raced` or `streamRaced`.  So the full invariant is `~raced => OneAtATime /\ (~streamRaced => InOrder)` |
| `FailuresReportedOnce` | `[]FailuresReported` | the events of one kind are places, in the log or in a thread's queue: enqueueing adds a place and `poll()` exchanges one for another (`PutPlace`, `TakePlace`).  A write that has failed is either counted there or by the thread between its completion and its report |
| `FramesKeptOnce` | `[]FramesOnce` | the invariant (`FramesInv`), until `streamRaced`: the buffer is empty between reads, each place holds one frame of `1..received`, no two the same, none is missing, and a queue is sorted.  Counting the places is then a bijection with `1..received`.  The run `Link` checks it |

`OrderlyUntilRaced` and the violated run `ServerOverwrite` together are the whole story of
the server's write side as far as Beast keeps its promises: it goes wrong by the
unsynchronised test of `m_isWriting`, whatever else happens, and by nothing else until two
io threads use `m_socketStream` at once, which no strand prevents either.

### `LinkProofs`

A behaviour of `Link` is a behaviour of `ClientSession` and of `ServerSession`
(`SpecIsSpecs`), step by step, so the theorems above hold of its two halves and are cited,
not proved again.  What is left is the wire:

| Theorem | Statement | Argument |
|---|---|---|
| `GapsAreReported` | `[]NoSilentGap` | the invariant (`WireInv`): each sender's messages are on the wire in increasing order, up to what is concluded or under way and taken (`WireInOrder`), and all that the client calls successful are there (`WireComplete`).  When a message goes out, `EachOnceInOrder` of the client says that those before it are concluded: successfully, then they are on the wire, or as failed |
| `DeliveredEndToEnd` | `[]EndToEnd` | `Transmit` appends what `m_sendBuffer` holds, for every write.  That it is a message of `1..sent[t]`, and a later one than all on the wire from the same sender, comes from the client's `WriteDiscipline` and `EachOnceInOrder`, so a client that writes twice, or from a disturbed buffer, has no such proof (and no such run).  `FramesInv` of the server finds one frame at each place, different ones at different places, in order within a queue; it applies because here the server sends nothing, so that its stream is never used by two threads (`StreamNotShared`) |
| `FramesOnceOnLink` | `[]FramesOnce` | the server's theorem, instantiated |

### `ListenerProofs`

The invariant is `AcceptInv /\ PollInv /\ SendInv` with the types and `DeafOnlyIfReported`:
who has the mutex, that a walk of `poll()` has seen the vector as it is, and that one of
`send()` covers the sessions there were when it was called.

| Theorem | Statement | Argument |
|---|---|---|
| `TypeCorrect` | `[]TypeOK` | a walk ends at the vector's end, which never goes back |
| `PollIsUndisturbed` | `[]PollUndisturbed` | `poll()` has the mutex as long as it walks, and appending needs it; a callback that calls `poll()` again gets no further than the lock |
| `DeafIsReported` | `[]DeafOnlyIfReported` | every exit of the accept loop reports and nothing else does |
| `SendsReachAll` | `[]HandedToAll` | by an invariant for each thread and session (`HandedTo`) of what the session has been handed of the thread's messages, in which a walk under way counts up to where it is |

### `LifecycleProofs`

The invariant: io threads run only inside `run()` (`ThreadsJoined`); `run()` and each of
them own the io_context, until freed memory is used (`ContextOwned`); and by the time that
anything is freed, `stop()` has been called, or missed (`StopCalled`).

| Theorem | Statement | Argument |
|---|---|---|
| `TypeCorrect` | `[]TypeOK` | that the io_context exists as long as it has an owner is part of the types |
| `ThreadsHaveTheirContext` | `[]ContextOutlivesThreads` | a thread that runs is an owner |
| `OnlyMissedStopHangs` | `[]StuckOnlyIfMissed` | from `StopCalled` |
| `ServerImplementsClosing` | `ImplementsClosing` | every step maps to one of `Closing` or to a stutter; the destructor's return needs a runner that is done, and `ThreadsJoined` says that its io threads are too |

### `ClientLifeProofs`

The invariant: handlers run inside `run()` (`HandledInRun`); the chain is a waiting
operation or a running handler, not both (`ChainHolds`); the handler of an operation holds
the session, a posted `doWrite` does not (`HandlerHolds`); freed is freed (`FreedForGood`).

| Theorem | Statement | Argument |
|---|---|---|
| `TypeCorrect` | `[]TypeOK` | that the session exists as long as it is held is part of the types |
| `NeverFreedAtWork` | `[]FreedOnlyIdle` | a session with a pending operation, or inside the handler of one, has an owner |
| `StoppedSessionIsKept` | `StoppedIsKept` | a stopped io_context runs no handler, so an operation that is pending in it keeps its shared_ptr |

### `SlingersProofs`

The invariant: objects, constructors and destructors of a program hold Impls of that
program, and a constructor under way one that is alive (`OwnInv`); and only a shared vector
has made a segment, which is its own (`SegmentInv`).

| Theorem | Statement | Argument |
|---|---|---|
| `TypeCorrect` | `[]TypeOK` | the factory makes one of four classes, throws or aborts, whatever the options (`FactoryMakes`) |
| `ImplsAreOwnedOnce` | `[]OwnedOnce` | a move empties its source; an assignment closes what the target held |
| `SegmentBelongs`, `OnlyCrashesOrphan` | `[]SegmentIsMine`, `[]OrphanedByCrash` | a shared vector is made only when there is no segment, and only its own destructor removes it.  `create_only` throws when the segment is another's, which is left as it is; a `std::async` that throws comes when the backend is a member, whose destructor runs and removes the segment before the memory goes (`AsyncThrowsKeeps`) |
| `OrphansStay` | `OrphanedIsForever` | the Impl that made it is dead, so no destructor is left that would remove it |
| `LookupsNeverThrow` | `[]LookupsSucceed` | `run()` tests with `hasWebSocketInfo()` the types that it looks up next (`LookupsFind`); the constructor looks up only the preferred backend |

### What is only model-checked

Liveness needs fairness and `ENABLED`, which are beyond the prover: `SendResolves`,
`SendTaken`, `CloseEnds`, `AcceptedIsRun` and `PollEnds` are checked by TLC only.  The
violated properties of section 3 are false, and a counterexample of one instance shows it.

## 5. Plan

Every part that does something is modelled, and every safety property is proved.  Possible
next:

1. In `ServerSession`, what can still be promised once threads have raced: how many messages
   one race can lose, and that each lost one has been overwritten by another.
2. In `Link`, the direction from server to client under the assumption that neither race has
   happened yet, on the theorem `OrderlyUntilRaced`.
3. For each liveness property, the safety part of its argument: the step that is always
   possible and the measure that it decreases, as action properties.

## 6. Not modelled

* The direction from server to client in `Link`: the server's data races let anything reach
  the wire there, and `ServerSession` has the properties of what is written.
* The pipe's operations and the shared vector's `run`, `send` and `poll`: they are empty.
  `Slingers` has their constructors and destructors.
* `nonstd::any`, beyond a cast that fails for another type than the stored one (vendored).
* `getValueElse` and `operator[]` of `HeterogeneousMap` and the keys of the shared
  vector: no code in `backend/` calls or reads them.
* Texts, ids and `what()` of events; informational events, which nothing reads; contents of
  messages.
* Allocation failures, exceptions that a callback throws, and a failure inside Boost after it
  has created the segment and before the constructor of the segment object returns.
* The data race on `m_listener` and `m_ioc`, which `run()` assigns while `send()`, `poll()` and
  `stop()` test them: each access is taken as atomic.
