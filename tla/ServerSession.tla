---------------------------- MODULE ServerSession ----------------------------
(***************************************************************************)
(* One connection of the WebSocket server: DataSlingerWebSocketSession     *)
(* (dataslingerwebsocket.cpp 29-163).                                      *)
(*                                                                         *)
(* The server runs its io_context on several threads and the session has   *)
(* no strand: its handlers run on any of them, at the same time.  Two      *)
(* things are shared without anything to protect them.                     *)
(*                                                                         *)
(* doWrite() and onWrite() share m_isWriting and m_sendBuffer with every   *)
(* other doWrite() that send() has posted: they are split at each access.  *)
(* Two threads past the test of m_isWriting may move a message into        *)
(* m_sendBuffer at the same time, a data race: what the vector holds after *)
(* it is a choice, one of the messages or a torn mixture of both.  (A torn *)
(* vector may also end the process; it then takes no further step.)        *)
(*                                                                         *)
(* m_socketStream is used by the accept/read chain and by the writes: the  *)
(* calls that begin an operation and the ends of operations.  The handlers *)
(* of the chain follow one another, so that each is one action and the     *)
(* call it makes at its end another.  When one thread's use of the stream  *)
(* meets another's, streamRaced is set; from then on a frame may be        *)
(* written or read as anything, and a write may never complete.            *)
(*                                                                         *)
(* External, as in ClientSession: the io_context, moodycamel's queue (a    *)
(* FIFO for each producing thread; here the io threads produce into the    *)
(* receive and event queues) and the Beast stream, which writes from the   *)
(* memory it was given and completes its writes in the order begun.        *)
(***************************************************************************)
EXTENDS Integers, Sequences, FiniteSets, Events

CONSTANTS AppThreads,   \* the threads of the application that call send()
          IOThreads,    \* the threads that run the io_context
          MaxSends,     \* bound: calls of send() by each thread
          MaxFrames     \* bound: frames that the peer sends

ASSUME BoundsAssumption == MaxSends \in Nat /\ MaxFrames \in Nat

VARIABLES
  \* The io_context, the connection and the stream.
  stopped,        \* m_ioc->stop() was called
  chain,          \* outstanding operation of the accept/read chain, or "none"
  stream,         \* state of m_socketStream
  calling,        \* the io threads in async_accept() or async_read()
  streamRaced,    \* history: two threads used m_socketStream at once
  \* send(), in each application thread.
  appPc,          \* where the thread is in send()
  sendQueue,      \* m_sendQueue
  sent,           \* history: how many messages it has enqueued
  \* The write side.
  posted,         \* number of doWrite handlers posted and not yet run
  pc,             \* where each io thread is in doWrite() or onWrite()
  claimed,        \* the message it is moving out of m_sendQueue
  isWriting,      \* m_isWriting
  sendBuffer,     \* m_sendBuffer
  inFlight,       \* the async_writes begun and not completed, oldest first
  written,        \* history: the async_writes completed
  raced,          \* history: two threads passed the test of m_isWriting at once
  \* The read side, the events and poll().
  received,       \* history: how many frames have been read
  receiveBuffer,  \* m_receiveBuffer
  receiveQueue,   \* m_receiveQueue
  delivered,      \* history: what onReceive was called with
  eventQueue,     \* m_eventQueue, the reports of failures only
  reported,       \* history: what onEvent was called with
  polling         \* where poll() is: "no", "messages" or "events"

netVars   == <<stopped, chain, stream, calling, streamRaced>>
sendVars  == <<appPc, sendQueue, sent>>
writeVars == <<posted, pc, claimed, isWriting, sendBuffer, inFlight, written, raced>>
readVars  == <<received, receiveBuffer, receiveQueue, delivered, polling>>
eventVars == <<eventQueue, reported>>
vars == <<netVars, sendVars, writeVars, readVars, eventVars>>

Message == [from : AppThreads, seq : Nat \ {0}]
NoMessage == [from |-> "none", seq |-> 0]   \* an empty vector
Torn      == [from |-> "torn", seq |-> 0]   \* a vector left by a data race

\* What can be written.
Contents  == Message \cup {Torn}

\* An async_write: what it was pointed at, whether it can succeed, and whether
\* m_sendBuffer has been assigned since, which frees what it points at.
Write == [msg : Contents, usable : BOOLEAN, dangling : BOOLEAN]

\* Where an io thread is: past the test; past the claim, moving the message, at
\* the same time as another thread or not; past the move; past the store; at the
\* start of onWrite; past its store.
PCs == {"idle", "dequeue", "assign", "assignRaced", "store", "asyncWrite",
        "completed", "failed", "test"}

TypeOK ==
  /\ stopped \in BOOLEAN
  /\ chain \in {"none", "accept", "read"}
  /\ stream \in {"closed", "handshake", "open", "failed"}
  /\ calling \in SUBSET IOThreads
  /\ streamRaced \in BOOLEAN
  /\ appPc \in [AppThreads -> {"idle", "post"}]
  /\ sendQueue \in [AppThreads -> Seq(Message)]
  /\ sent \in [AppThreads -> Nat]
  /\ posted \in Nat
  /\ pc \in [IOThreads -> PCs]
  /\ claimed \in [IOThreads -> Message \cup {NoMessage}]
  /\ isWriting \in BOOLEAN
  /\ sendBuffer \in Contents \cup {NoMessage}
  /\ inFlight \in Seq(Write)
  /\ written \in Seq([msg : Contents, ok : BOOLEAN])
  /\ raced \in BOOLEAN
  /\ received \in Nat
  /\ receiveBuffer \in Seq(Nat)
  /\ receiveQueue \in [IOThreads -> Seq(Seq(Nat))]
  /\ delivered \in Seq(Seq(Nat))
  /\ eventQueue \in [IOThreads -> Seq(Event)]
  /\ reported \in Seq(Event)
  /\ polling \in {"no", "messages", "events"}

Init ==
  /\ stopped = FALSE /\ chain = "none" /\ stream = "closed"
  /\ calling = {} /\ streamRaced = FALSE
  /\ appPc = [t \in AppThreads |-> "idle"]
  /\ sendQueue = [t \in AppThreads |-> <<>>]
  /\ sent = [t \in AppThreads |-> 0]
  /\ posted = 0
  /\ pc = [h \in IOThreads |-> "idle"]
  /\ claimed = [h \in IOThreads |-> NoMessage]
  /\ isWriting = FALSE /\ sendBuffer = NoMessage
  /\ inFlight = <<>> /\ written = <<>> /\ raced = FALSE
  /\ received = 0 /\ receiveBuffer = <<>>
  /\ receiveQueue = [h \in IOThreads |-> <<>>] /\ delivered = <<>>
  /\ eventQueue = [h \in IOThreads |-> <<>>] /\ reported = <<>>
  /\ polling = "no"

-----------------------------------------------------------------------------
(* The application: send(), poll() and the end of the server.              *)

\* m_sendQueue.enqueue(message)
Send(t) ==
  /\ appPc[t] = "idle" /\ sent[t] < MaxSends
  /\ sendQueue' = [sendQueue EXCEPT ![t] = Append(@, [from |-> t, seq |-> sent[t] + 1])]
  /\ sent' = [sent EXCEPT ![t] = @ + 1]
  /\ appPc' = [appPc EXCEPT ![t] = "post"]
  /\ UNCHANGED <<netVars, writeVars, readVars, eventVars>>

\* boost::asio::post(..., doWrite), whatever is queued or being written
SendPost(t) ==
  /\ appPc[t] = "post"
  /\ posted' = posted + 1
  /\ appPc' = [appPc EXCEPT ![t] = "idle"]
  /\ UNCHANGED <<sendQueue, sent, pc, claimed, isWriting, sendBuffer, inFlight,
                 written, raced, netVars, readVars, eventVars>>

Poll ==
  /\ polling = "no"
  /\ polling' = "messages"
  /\ UNCHANGED <<received, receiveBuffer, receiveQueue, delivered, netVars,
                 sendVars, writeVars, eventVars>>

\* One round of "while(m_receiveQueue.try_dequeue(m)) onReceive(m)"
PollMessage ==
  /\ polling = "messages"
  /\ \/ \E h \in IOThreads :
          /\ receiveQueue[h] # <<>>
          /\ delivered' = Append(delivered, Head(receiveQueue[h]))
          /\ receiveQueue' = [receiveQueue EXCEPT ![h] = Tail(@)]
          /\ UNCHANGED polling
     \/ /\ \A h \in IOThreads : receiveQueue[h] = <<>>
        /\ polling' = "events"
        /\ UNCHANGED <<delivered, receiveQueue>>
  /\ UNCHANGED <<received, receiveBuffer, netVars, sendVars, writeVars, eventVars>>

\* One round of "while(m_eventQueue.try_dequeue(e)) onEvent(e)"
PollEvent ==
  /\ polling = "events"
  /\ \/ \E h \in IOThreads :
          /\ eventQueue[h] # <<>>
          /\ reported' = Append(reported, Head(eventQueue[h]))
          /\ eventQueue' = [eventQueue EXCEPT ![h] = Tail(@)]
          /\ UNCHANGED polling
     \/ /\ \A h \in IOThreads : eventQueue[h] = <<>>
        /\ polling' = "no"
        /\ UNCHANGED eventVars
  /\ UNCHANGED <<received, receiveBuffer, receiveQueue, delivered, netVars,
                 sendVars, writeVars>>

\* m_ioc->stop(), from the destructor or from the signal handler, after which the
\* application may go on: handlers that are running finish, no other is started.
Stop ==
  /\ ~stopped
  /\ stopped' = TRUE
  /\ UNCHANGED <<chain, stream, calling, streamRaced, sendVars, writeVars, readVars, eventVars>>

-----------------------------------------------------------------------------
(* m_socketStream, and the chain of the upgrade and the reads.             *)

\* The io thread h takes the next handler.
Free(h) == pc[h] = "idle" /\ h \notin calling /\ ~stopped

\* g is in a call that begins an operation on the stream, or where the stream ends
\* a write on its thread.
InStream(g) == g \in calling \/ pc[g] \in {"asyncWrite", "completed", "failed"}

\* h uses the stream, perhaps while another thread does.
UseStream(h) ==
  streamRaced' = (streamRaced \/ \E g \in IOThreads \ {h} : InStream(g))

\* Mutant: a failure ends the operation and is not reported.
queueNothing(h, what) == UNCHANGED eventVars

queueFatalEvent(h, what) ==
  /\ eventQueue' = [eventQueue EXCEPT ![h] = Append(@, makeEvent("SLINGER", what))]
  /\ UNCHANGED reported

\* run(), called by the listener after it has published the session: async_accept()
Run(h) ==
  /\ Free(h) /\ chain = "none" /\ stream = "closed"
  /\ chain' = "accept" /\ stream' = "handshake" /\ calling' = {h}
  /\ UNCHANGED <<stopped, streamRaced, sendVars, writeVars, readVars, eventVars>>

\* The call of async_accept() or async_read() is over.
Called(h) ==
  /\ h \in calling
  /\ UseStream(h)
  /\ calling' = calling \ {h}
  /\ UNCHANGED <<stopped, chain, stream, sendVars, writeVars, readVars, eventVars>>

onAccept(h, ec) ==
  /\ Free(h) /\ chain = "accept" /\ calling = {}
  /\ UseStream(h)
  /\ \/ /\ ec
        /\ queueFatalEvent(h, "accept") /\ chain' = "none"
        /\ stream' = "failed" /\ UNCHANGED calling
     \/ /\ ~ec /\ stream = "handshake"
        /\ chain' = "read" /\ stream' = "open" /\ calling' = {h}
        /\ UNCHANGED eventVars
  /\ UNCHANGED <<stopped, sendVars, writeVars, readVars>>

\* The frame that async_read appends to m_receiveBuffer; 0 is what a stream that two
\* threads have used at once may make of it.
FrameRead == {received'} \cup (IF streamRaced' THEN {0} ELSE {})

\* Mutant: the buffer is not consumed before the next async_read.
onReadKeepsBuffer(h, ec) ==
  /\ Free(h) /\ chain = "read" /\ calling = {}
  /\ UseStream(h)
  /\ \/ /\ ec
        /\ queueFatalEvent(h, "read") /\ chain' = "none" /\ stream' = "failed"
        /\ UNCHANGED <<calling, readVars>>
     \/ /\ ~ec /\ stream = "open" /\ received < MaxFrames
        /\ received' = received + 1
        /\ \E frame \in FrameRead : receiveBuffer' = Append(receiveBuffer, frame)
        /\ receiveQueue' = [receiveQueue EXCEPT ![h] = Append(@, receiveBuffer')]
        /\ calling' = {h}
        /\ UNCHANGED <<chain, stream, delivered, polling, eventVars>>
  /\ UNCHANGED <<stopped, sendVars, writeVars>>

\* The whole buffer, with the frame, becomes the message; it is consumed, and
\* doRead() calls async_read() for the next one.
onRead(h, ec) ==
  /\ Free(h) /\ chain = "read" /\ calling = {}
  /\ UseStream(h)
  /\ \/ /\ ec
        /\ queueFatalEvent(h, "read") /\ chain' = "none" /\ stream' = "failed"
        /\ UNCHANGED <<calling, readVars>>
     \/ /\ ~ec /\ stream = "open" /\ received < MaxFrames
        /\ received' = received + 1
        /\ \E frame \in FrameRead :
             receiveQueue' = [receiveQueue EXCEPT ![h] = Append(@, Append(receiveBuffer, frame))]
        /\ receiveBuffer' = <<>>
        /\ calling' = {h}
        /\ UNCHANGED <<chain, stream, delivered, polling, eventVars>>
  /\ UNCHANGED <<stopped, sendVars, writeVars>>

-----------------------------------------------------------------------------
(* doWrite() and onWrite().                                                *)

SendQueueEmpty == \A t \in AppThreads : sendQueue[t] = <<>>

\* Between its test of m_isWriting and its store to it.
InWindow(h) == pc[h] \in {"dequeue", "assign", "assignRaced", "store"}

\* Moving a claimed message into m_sendBuffer.
Assigning(h) == pc[h] \in {"assign", "assignRaced"}

\* The thread h begins to move; if others are moving they race.
StartAssigning(h) ==
  pc' = IF \E g \in IOThreads : Assigning(g)
          THEN [g \in IOThreads |-> IF g = h \/ Assigning(g) THEN "assignRaced" ELSE pc[g]]
          ELSE [pc EXCEPT ![h] = "assign"]

\* if(m_isWriting || ...
TestWriting(h) ==
  \/ isWriting /\ pc' = [pc EXCEPT ![h] = "idle"] /\ UNCHANGED raced
  \/ /\ ~isWriting
     /\ pc' = [pc EXCEPT ![h] = "dequeue"]
     /\ raced' = (raced \/ \E g \in IOThreads : InWindow(g))

\* A doWrite that send() has posted starts.
PostedDoWrite(h) ==
  /\ Free(h) /\ posted > 0
  /\ posted' = posted - 1
  /\ TestWriting(h)
  /\ UNCHANGED <<claimed, isWriting, sendBuffer, inFlight, written, netVars,
                 sendVars, readVars, eventVars>>

\* The doWrite() at the end of onWrite().
NextDoWrite(h) ==
  /\ pc[h] = "test"
  /\ TestWriting(h)
  /\ UNCHANGED <<posted, claimed, isWriting, sendBuffer, inFlight, written,
                 netVars, sendVars, readVars, eventVars>>

\* Mutant: what try_dequeue returns is not looked at.
DequeueUnchecked(h) ==
  /\ pc[h] = "dequeue"
  /\ \/ SendQueueEmpty /\ UNCHANGED <<claimed, sendQueue>>
     \/ \E t \in AppThreads :
          /\ sendQueue[t] # <<>>
          /\ claimed' = [claimed EXCEPT ![h] = Head(sendQueue[t])]
          /\ sendQueue' = [sendQueue EXCEPT ![t] = Tail(@)]
  /\ StartAssigning(h)
  /\ UNCHANGED <<appPc, sent, posted, isWriting, sendBuffer, inFlight, written,
                 raced, netVars, readVars, eventVars>>

\* ... || !m_sendQueue.try_dequeue(m_sendBuffer)) return;   the claim
Dequeue(h) ==
  /\ pc[h] = "dequeue"
  /\ \/ /\ SendQueueEmpty
        /\ pc' = [pc EXCEPT ![h] = "idle"]
        /\ UNCHANGED <<claimed, sendQueue>>
     \/ \E t \in AppThreads :
          /\ sendQueue[t] # <<>>
          /\ claimed' = [claimed EXCEPT ![h] = Head(sendQueue[t])]
          /\ sendQueue' = [sendQueue EXCEPT ![t] = Tail(@)]
          /\ StartAssigning(h)
  /\ UNCHANGED <<appPc, sent, posted, isWriting, sendBuffer, inFlight, written,
                 raced, netVars, readVars, eventVars>>

\* The move into m_sendBuffer, which frees what the buffer held.
Assign(h) ==
  /\ \/ Assigning(h) /\ sendBuffer' = claimed[h]
     \/ pc[h] = "assignRaced" /\ sendBuffer' = Torn
  /\ inFlight' = [i \in 1..Len(inFlight) |-> [inFlight[i] EXCEPT !.dangling = TRUE]]
  /\ claimed' = [claimed EXCEPT ![h] = NoMessage]
  /\ pc' = [pc EXCEPT ![h] = "store"]
  /\ UNCHANGED <<posted, isWriting, written, raced, netVars, sendVars, readVars,
                 eventVars>>

\* Mutant: m_isWriting is never set.
StoreForgotten(h) ==
  /\ pc[h] = "store"
  /\ pc' = [pc EXCEPT ![h] = "asyncWrite"]
  /\ UNCHANGED <<posted, isWriting, claimed, sendBuffer, inFlight, written, raced,
                 netVars, sendVars, readVars, eventVars>>

\* m_isWriting = true
StoreWriting(h) ==
  /\ pc[h] = "store"
  /\ isWriting' = TRUE
  /\ pc' = [pc EXCEPT ![h] = "asyncWrite"]
  /\ UNCHANGED <<posted, claimed, sendBuffer, inFlight, written, raced, netVars,
                 sendVars, readVars, eventVars>>

\* m_socketStream.async_write(const_buffer(m_sendBuffer.data(), m_sendBuffer.size())),
\* which reads the vector's pointer and size, perhaps while another thread moves.
AsyncWrite(h) ==
  /\ pc[h] = "asyncWrite"
  /\ \E m \in {sendBuffer} \cup (IF \E g \in IOThreads : Assigning(g) THEN {Torn} ELSE {}) :
       inFlight' = Append(inFlight, [msg |-> m,
                                     usable |-> stream \in {"handshake", "open"},
                                     dangling |-> FALSE])
  /\ UseStream(h)
  /\ pc' = [pc EXCEPT ![h] = "idle"]
  /\ UNCHANGED <<posted, claimed, isWriting, sendBuffer, written, raced, stopped,
                 chain, stream, calling, sendVars, readVars, eventVars>>

\* The oldest write completes and h enters onWrite().  What went out is what the
\* memory held; memory that was freed may hold anything, and so may a frame of a
\* stream that two threads have used at once.
Complete(h, ec) ==
  /\ Free(h) /\ inFlight # <<>>
  /\ ec \/ Head(inFlight).usable
  /\ UseStream(h)
  /\ \E m \in {Head(inFlight).msg}
             \cup (IF Head(inFlight).dangling \/ streamRaced' THEN {Torn} ELSE {}) :
       written' = Append(written, [msg |-> m, ok |-> ~ec])
  /\ inFlight' = Tail(inFlight)
  /\ stream' = IF ec /\ stream # "closed" THEN "failed" ELSE stream
  /\ pc' = [pc EXCEPT ![h] = IF ec THEN "failed" ELSE "completed"]
  /\ UNCHANGED <<stopped, chain, calling, posted, claimed, isWriting, sendBuffer,
                 raced, sendVars, readVars, eventVars>>

\* Mutant: onWrite() calls doWrite(), which finds m_isWriting set, and clears it
\* afterwards.
onWriteClearsLate(h) ==
  /\ isWriting' = FALSE
  /\ pc' = [pc EXCEPT ![h] = "idle"]
  /\ \/ pc[h] = "failed" /\ queueFatalEvent(h, "write")
     \/ pc[h] = "completed" /\ UNCHANGED eventVars
  /\ UNCHANGED <<posted, claimed, sendBuffer, inFlight, written, raced, netVars,
                 sendVars, readVars>>

\* m_isWriting = false, then the report of a failure or the next doWrite()
onWrite(h) ==
  /\ isWriting' = FALSE
  /\ \/ /\ pc[h] = "failed"
        /\ queueFatalEvent(h, "write")
        /\ pc' = [pc EXCEPT ![h] = "idle"]
     \/ /\ pc[h] = "completed"
        /\ pc' = [pc EXCEPT ![h] = "test"]
        /\ UNCHANGED eventVars
  /\ UNCHANGED <<posted, claimed, sendBuffer, inFlight, written, raced, netVars,
                 sendVars, readVars>>

-----------------------------------------------------------------------------

SendStep(t) == Send(t) \/ SendPost(t)

PollStep == Poll \/ PollMessage \/ PollEvent

\* The next step of a handler that h is in.
HandlerStep(h) ==
  NextDoWrite(h) \/ Dequeue(h) \/ Assign(h) \/ StoreWriting(h) \/ AsyncWrite(h) \/ onWrite(h)
  \/ Called(h)

IOStep(h) ==
  \/ Run(h) \/ PostedDoWrite(h) \/ HandlerStep(h)
  \/ \E ec \in BOOLEAN : onAccept(h, ec) \/ onRead(h, ec) \/ Complete(h, ec)

Next ==
  \/ \E t \in AppThreads : SendStep(t)
  \/ \E h \in IOThreads : IOStep(h)
  \/ PollStep \/ Stop

Spec == Init /\ [][Next]_vars
(***************************************************************************)
(* Fairness.  Each io thread finishes the handler it is in and the threads *)
(* together start those that are ready; asio completes every write that it *)
(* was given, as long as the stream is used as it may be.  Nothing obliges *)
(* the application or the peer.                                            *)
(***************************************************************************)
Fairness ==
  /\ \A h \in IOThreads : WF_vars(HandlerStep(h))
  /\ WF_vars(\E h \in IOThreads : PostedDoWrite(h))
  /\ WF_vars(~streamRaced /\ \E h \in IOThreads, ec \in BOOLEAN : Complete(h, ec))
  /\ \A t \in AppThreads : WF_vars(SendPost(t))

LiveSpec == Spec /\ Fairness

-----------------------------------------------------------------------------
(* Safety.                                                                 *)

WriteFailed == \E i \in 1..Len(written) : ~written[i].ok

\* Something will still look at m_sendQueue: a doWrite posted, about to be or
\* running, or the handler of an outstanding write.
WriteUnderWay ==
  \/ posted > 0 \/ inFlight # <<>>
  \/ \E t \in AppThreads : appPc[t] = "post"
  \/ \E h \in IOThreads : pc[h] \in PCs \ {"idle", "failed"}

(***************************************************************************)
(* No message is stranded in m_sendQueue unless a write has failed: of all *)
(* the doWrites that find m_isWriting set and return, none was the last    *)
(* that could have taken it - on any number of threads, whether or not     *)
(* they race (dataslingerwebsocket.cpp 59-63, 86-99, 120-134).             *)
(***************************************************************************)
NoStrandedMessage == ~SendQueueEmpty /\ ~WriteFailed => WriteUnderWay

Dequeued(t) == sent[t] - Len(sendQueue[t])

\* The threads in doWrite() or at the start of onWrite().
Writers == {h \in IOThreads : pc[h] \notin {"idle", "test"}}

\* The message that has left m_sendQueue and is not written is one of t's.
InHand(t) ==
  \/ \E h \in IOThreads :
       \/ Assigning(h) /\ claimed[h].from = t
       \/ pc[h] \in {"store", "asyncWrite"} /\ sendBuffer.from = t
  \/ inFlight # <<>> /\ Head(inFlight).msg.from = t

Concluded(t) == Dequeued(t) - (IF InHand(t) THEN 1 ELSE 0)

\* One writer or one write at a time, and m_isWriting tells.
OneWriter ==
  /\ \A g, h \in Writers : g = h
  /\ inFlight # <<>> => Writers = {} /\ Len(inFlight) = 1
  /\ isWriting <=> inFlight # <<>> \/ \E h \in IOThreads :
                                         pc[h] \in {"asyncWrite", "completed", "failed"}

\* The write under way reads memory that is still m_sendBuffer's.
BufferKept ==
  inFlight # <<>> => ~Head(inFlight).dangling /\ Head(inFlight).msg = sendBuffer

\* The messages of each thread are written in order, and nothing else is.
WrittenInOrder ==
  \A t \in AppThreads :
    /\ \A n \in 1..Concluded(t) :
         \E i \in 1..Len(written) : written[i].msg = [from |-> t, seq |-> n]
    /\ \A i \in 1..Len(written) : written[i].msg.from = t =>
         /\ written[i].msg.seq <= Concluded(t)
         /\ \A j \in 1..(i - 1) :
              written[j].msg.from = t => written[j].msg.seq < written[i].msg.seq

(***************************************************************************)
(* Until two threads test m_isWriting between each other's test and store  *)
(* there is one write at a time, from a buffer left alone until the write  *)
(* completes; and until two threads use m_socketStream at once as well,    *)
(* each application thread's messages are written once and in order        *)
(* (dataslingerwebsocket.cpp 86-99, 120-134, with 67, 82 and 117 for the   *)
(* stream).  Nothing but these two races spoils the order.                 *)
(***************************************************************************)
OrderlyUnlessRaced ==
  ~raced => OneWriter /\ BufferKept /\ (~streamRaced => WrittenInOrder)

\* Where a frame that was read can be.
FramePlaces ==
  {<<"out", i>> : i \in 1..Len(delivered)}
    \cup UNION {{<<"queue", h, i>> : i \in 1..Len(receiveQueue[h])} : h \in IOThreads}
FrameAt(p) == IF p[1] = "out" THEN delivered[p[2]] ELSE receiveQueue[p[2]][p[3]]

(***************************************************************************)
(* Until two threads use m_socketStream at once, each frame the peer sent  *)
(* is in one place, whole and alone: handed to onReceive, or queued by the *)
(* thread that read it.  Across threads the order of the frames is lost;   *)
(* within one thread's queue it is kept.                                   *)
(***************************************************************************)
FramesOnce ==
  ~streamRaced =>
    /\ \A n \in 1..received : \E p \in FramePlaces : FrameAt(p) = <<n>>
    /\ Cardinality(FramePlaces) = received
    /\ \A h \in IOThreads : \A i, j \in 1..Len(receiveQueue[h]) :
         i < j => receiveQueue[h][i][1] < receiveQueue[h][j][1]

\* The reports of a failure, wherever they are.
Reported(what) ==
  Cardinality({i \in 1..Len(reported) : reported[i].MESSAGE_STRING = what})
    + Cardinality(UNION {{<<h, i>> : i \in {j \in 1..Len(eventQueue[h]) :
                                              eventQueue[h][j].MESSAGE_STRING = what}}
                           : h \in IOThreads})

(***************************************************************************)
(* Every failure of an operation is reported, once: each failed write with *)
(* its handler over, and the end of the accept/read chain.                 *)
(***************************************************************************)
FailuresReported ==
  /\ Reported("write") + Cardinality({h \in IOThreads : pc[h] = "failed"})
       = Cardinality({i \in 1..Len(written) : ~written[i].ok})
  /\ Reported("accept") + Reported("read")
       = IF chain = "none" /\ stream # "closed" THEN 1 ELSE 0

-----------------------------------------------------------------------------
(* Liveness.                                                               *)

(***************************************************************************)
(* A message handed to send() is eventually taken to be written, unless a  *)
(* write fails, the io_context is stopped or m_socketStream has been used  *)
(* by two threads at once, after which nothing has to complete.            *)
(***************************************************************************)
SendTaken ==
  \A t \in AppThreads : \A n \in 1..MaxSends :
    sent[t] >= n ~> Dequeued(t) >= n \/ WriteFailed \/ stopped \/ streamRaced

-----------------------------------------------------------------------------
(* What the repository says and this code does not do.                     *)

\* Nothing is queued, posted, running or outstanding.
Quiet ==
  /\ SendQueueEmpty /\ posted = 0 /\ inFlight = <<>>
  /\ \A t \in AppThreads : appPc[t] = "idle"
  /\ \A h \in IOThreads : pc[h] = "idle"
  /\ calling = {}

(***************************************************************************)
(* slinger.h 904 says of send(): "Sends a message to any                   *)
(* connected/attached receivers (enqueues for sending on some backends)".  *)
(* So when everything has been written, nothing failed and no two threads  *)
(* met in the stream, every message has been sent.                         *)
(***************************************************************************)
NothingOverwritten ==
  Quiet /\ ~WriteFailed /\ ~streamRaced =>
    \A t \in AppThreads : \A n \in 1..sent[t] :
      \E i \in 1..Len(written) : written[i].msg = [from |-> t, seq |-> n]

=============================================================================
