---------------------------- MODULE ClientSession ----------------------------
(***************************************************************************)
(* The WebSocket client: DataReceiverWebSocketSession with the thin        *)
(* DataReceiverWebSocketImpl around it (datareceiverwebsocket.cpp).        *)
(*                                                                         *)
(* Two kinds of threads meet here.  The application's threads call send(), *)
(* one of them at a time calls poll(); the one thread that DataSlinger     *)
(* starts calls run(), which executes every completion handler of the      *)
(* session.  They share the three lock-free queues and the io_context.  A  *)
(* handler is one action: handlers never overlap on one thread, and each   *)
(* touches a shared queue once.  send() is three actions, because the      *)
(* handlers run between its steps; poll() is one action for each dequeue   *)
(* with its callback, and a callback may itself call send().               *)
(*                                                                         *)
(* External, modelled from how the session uses it: the io_context (posted *)
(* handlers and outstanding operations keep run() alive, stop() ends it),  *)
(* moodycamel's queue (one FIFO per producing thread, a consumer takes     *)
(* from any of them) and the Beast stream (an operation begun on a stream  *)
(* that is closed or has failed ends with an error; on any other it may    *)
(* end either way).                                                        *)
(***************************************************************************)
EXTENDS Integers, Sequences, FiniteSets, Events

CONSTANTS AppThreads,   \* the threads of the application that call send()
          MaxSends,     \* bound: calls of send() by each thread
          MaxFrames     \* bound: frames that the peer sends

ASSUME BoundsAssumption == MaxSends \in Nat /\ MaxFrames \in Nat

VARIABLES
  \* The io_context, the connection and the stream.
  ioRun,          \* run(): "notStarted", "running" or "returned"
  stopped,        \* m_ioContext.stop() was called: the object is being destroyed
  chain,          \* outstanding operation of the resolve...read chain, or "none"
  stream,         \* state of m_socketStream
  \* The write side.
  posted,         \* number of doWrite handlers posted and not yet run
  isWriting,      \* m_isWriting
  sendBuffer,     \* m_sendBuffer
  inFlight,       \* the async_writes begun and not yet completed
  completed,      \* history: the async_writes completed, with what they wrote
  \* send(), in each application thread.
  pc,             \* where the thread is in send()
  isEmpty,        \* its local isEmpty
  sendQueue,      \* m_sendQueue
  sent,           \* history: how many messages it has enqueued
  \* The read side, the events and poll().
  received,       \* history: how many frames have been read
  receiveBuffer,  \* m_receiveBuffer
  receiveQueue,   \* m_receiveQueue
  delivered,      \* history: what onReceive was called with
  eventQueue,     \* m_eventQueue, the reports of failures only
  reported,       \* history: what onEvent was called with
  polling         \* where poll() is: "no", "messages" or "events"

ioVars    == <<ioRun, stopped, chain, stream>>
writeVars == <<posted, isWriting, sendBuffer, inFlight, completed>>
sendVars  == <<pc, isEmpty, sendQueue, sent>>
readVars  == <<received, receiveBuffer, receiveQueue, delivered, polling>>
eventVars == <<eventQueue, reported>>
vars == <<ioVars, writeVars, sendVars, readVars, eventVars>>

Message == [from : AppThreads, seq : Nat \ {0}]
NoMessage == [from |-> "none", seq |-> 0]     \* m_sendBuffer before its first use

\* An async_write: the message it is for, and whether it can succeed.
Write == [msg : Message, usable : BOOLEAN]

Chains  == {"none", "resolve", "connect", "handshake", "read"}
Streams == {"closed", "handshake", "open", "failed"}

TypeOK ==
  /\ ioRun \in {"notStarted", "running", "returned"}
  /\ stopped \in BOOLEAN
  /\ chain \in Chains
  /\ stream \in Streams
  /\ posted \in Nat
  /\ isWriting \in BOOLEAN
  /\ sendBuffer \in Message \cup {NoMessage}
  /\ inFlight \in SUBSET Write
  /\ completed \in Seq([msg : Message, ok : BOOLEAN])
  /\ pc \in [AppThreads -> {"idle", "enqueue", "post"}]
  /\ isEmpty \in [AppThreads -> BOOLEAN]
  /\ sendQueue \in [AppThreads -> Seq(Message)]
  /\ sent \in [AppThreads -> Nat]
  /\ received \in Nat
  /\ receiveBuffer \in Seq(Nat)
  /\ receiveQueue \in Seq(Seq(Nat))
  /\ delivered \in Seq(Seq(Nat))
  /\ eventQueue \in Seq(Event)
  /\ reported \in Seq(Event)
  /\ polling \in {"no", "messages", "events"}

Init ==
  /\ ioRun = "notStarted" /\ stopped = FALSE
  /\ chain = "none" /\ stream = "closed"
  /\ posted = 0 /\ isWriting = FALSE /\ sendBuffer = NoMessage
  /\ inFlight = {} /\ completed = <<>>
  /\ pc = [t \in AppThreads |-> "idle"]
  /\ isEmpty = [t \in AppThreads |-> FALSE]
  /\ sendQueue = [t \in AppThreads |-> <<>>]
  /\ sent = [t \in AppThreads |-> 0]
  /\ received = 0 /\ receiveBuffer = <<>>
  /\ receiveQueue = <<>> /\ delivered = <<>>
  /\ eventQueue = <<>> /\ reported = <<>> /\ polling = "no"

-----------------------------------------------------------------------------
(* External: the io_context, the queue and the stream.                     *)

\* run() executes handlers until stop() is called.
HandlersRun == ioRun = "running" /\ ~stopped

\* What keeps run() from returning for want of work.
OutstandingWork == chain # "none" \/ inFlight # {} \/ posted > 0

\* m_sendQueue.size_approx() == 0, with the queue's answer taken as exact.
SendQueueEmpty == \A t \in AppThreads : sendQueue[t] = <<>>

\* Beast refuses an operation on a stream that is not in use; before the
\* handshake is over it does not.
StreamUsable == stream \in {"handshake", "open"}

-----------------------------------------------------------------------------
(* send(), poll() and the destructor, called by the application.           *)

\* const bool isEmpty = m_sendQueue.size_approx() == 0
SendTest(t) ==
  /\ pc[t] = "idle" /\ ~stopped /\ sent[t] < MaxSends
  /\ isEmpty' = [isEmpty EXCEPT ![t] = SendQueueEmpty]
  /\ pc' = [pc EXCEPT ![t] = "enqueue"]
  /\ UNCHANGED <<sendQueue, sent, ioVars, writeVars, readVars, eventVars>>

\* Mutant: every send posts a doWrite, as on the slinger's side.
SendEnqueueAlwaysPosts(t) ==
  /\ pc[t] = "enqueue"
  /\ sendQueue' = [sendQueue EXCEPT ![t] = Append(@, [from |-> t, seq |-> sent[t] + 1])]
  /\ sent' = [sent EXCEPT ![t] = @ + 1]
  /\ pc' = [pc EXCEPT ![t] = "post"]
  /\ UNCHANGED <<isEmpty, ioVars, writeVars, readVars, eventVars>>

\* Mutant: the last message goes first.
SendEnqueueInFront(t) ==
  /\ pc[t] = "enqueue"
  /\ sendQueue' = [sendQueue EXCEPT ![t] = <<[from |-> t, seq |-> sent[t] + 1]>> \o @]
  /\ sent' = [sent EXCEPT ![t] = @ + 1]
  /\ pc' = [pc EXCEPT ![t] = IF isEmpty[t] THEN "post" ELSE "idle"]
  /\ UNCHANGED <<isEmpty, ioVars, writeVars, readVars, eventVars>>

\* m_sendQueue.enqueue(message), then return unless isEmpty
SendEnqueue(t) ==
  /\ pc[t] = "enqueue"
  /\ sendQueue' = [sendQueue EXCEPT ![t] = Append(@, [from |-> t, seq |-> sent[t] + 1])]
  /\ sent' = [sent EXCEPT ![t] = @ + 1]
  /\ pc' = [pc EXCEPT ![t] = IF isEmpty[t] THEN "post" ELSE "idle"]
  /\ UNCHANGED <<isEmpty, ioVars, writeVars, readVars, eventVars>>

\* boost::asio::post(..., doWrite)
SendPost(t) ==
  /\ pc[t] = "post"
  /\ posted' = posted + 1
  /\ pc' = [pc EXCEPT ![t] = "idle"]
  /\ UNCHANGED <<isWriting, sendBuffer, inFlight, completed, isEmpty, sendQueue,
                 sent, ioVars, readVars, eventVars>>

Poll ==
  /\ polling = "no" /\ ~stopped
  /\ polling' = "messages"
  /\ UNCHANGED <<received, receiveBuffer, receiveQueue, delivered, ioVars,
                 writeVars, sendVars, eventVars>>

\* One round of "while(m_receiveQueue.try_dequeue(m)) onReceive(m)"
PollMessage ==
  /\ polling = "messages"
  /\ \/ /\ receiveQueue # <<>>
        /\ delivered' = Append(delivered, Head(receiveQueue))
        /\ receiveQueue' = Tail(receiveQueue)
        /\ UNCHANGED polling
     \/ /\ receiveQueue = <<>>
        /\ polling' = "events"
        /\ UNCHANGED <<delivered, receiveQueue>>
  /\ UNCHANGED <<received, receiveBuffer, ioVars, writeVars, sendVars, eventVars>>

\* One round of "while(m_eventQueue.try_dequeue(e)) onEvent(e)"
PollEvent ==
  /\ polling = "events"
  /\ \/ /\ eventQueue # <<>>
        /\ reported' = Append(reported, Head(eventQueue))
        /\ eventQueue' = Tail(eventQueue)
        /\ UNCHANGED polling
     \/ /\ eventQueue = <<>>
        /\ polling' = "no"
        /\ UNCHANGED eventVars
  /\ UNCHANGED <<received, receiveBuffer, receiveQueue, delivered, ioVars,
                 writeVars, sendVars>>

\* ~DataReceiverWebSocketImpl(): m_session->stop(), with no other call under way
Stop ==
  /\ ~stopped /\ polling = "no"
  /\ \A t \in AppThreads : pc[t] = "idle"
  /\ stopped' = TRUE
  /\ UNCHANGED <<ioRun, chain, stream, writeVars, sendVars, readVars, eventVars>>

-----------------------------------------------------------------------------
(* The handlers, run by the io thread.                                     *)

\* Mutant: a failure ends the operation and is not reported.
queueNothing(what) == UNCHANGED eventVars

queueFatalEvent(what) ==
  /\ eventQueue' = Append(eventQueue, makeEvent("RECEIVER", what))
  /\ UNCHANGED reported

\* run(), up to m_ioContext.run()
Run ==
  /\ ioRun = "notStarted"
  /\ \/ /\ ioRun' = "returned"              \* !m_info.hasWebSocketInfo()
        /\ queueFatalEvent("info")
        /\ UNCHANGED chain
     \/ /\ ioRun' = "running"
        /\ chain' = "resolve"
        /\ UNCHANGED eventVars
  /\ UNCHANGED <<stopped, stream, writeVars, sendVars, readVars>>

\* m_ioContext.run() returns
RunReturns ==
  /\ ioRun = "running"
  /\ stopped \/ ~OutstandingWork
  /\ ioRun' = "returned"
  /\ UNCHANGED <<stopped, chain, stream, writeVars, sendVars, readVars, eventVars>>

onResolve(ec) ==
  /\ HandlersRun /\ chain = "resolve"
  /\ \/ ec /\ queueFatalEvent("resolve") /\ chain' = "none"
     \/ ~ec /\ chain' = "connect" /\ UNCHANGED eventVars
  /\ UNCHANGED <<ioRun, stopped, stream, writeVars, sendVars, readVars>>

onConnect(ec) ==
  /\ HandlersRun /\ chain = "connect"
  /\ \/ ec /\ queueFatalEvent("connect") /\ chain' = "none" /\ UNCHANGED stream
     \/ ~ec /\ chain' = "handshake" /\ stream' = "handshake" /\ UNCHANGED eventVars
  /\ UNCHANGED <<ioRun, stopped, writeVars, sendVars, readVars>>

onHandshake(ec) ==
  /\ HandlersRun /\ chain = "handshake"
  /\ \/ ec /\ queueFatalEvent("handshake") /\ chain' = "none" /\ UNCHANGED stream
     \/ /\ ~ec /\ stream = "handshake"
        /\ chain' = "read" /\ stream' = "open" /\ UNCHANGED eventVars
  /\ UNCHANGED <<ioRun, stopped, writeVars, sendVars, readVars>>

\* Mutant: the buffer is not consumed before the next async_read.
onReadKeepsBuffer(ec) ==
  /\ HandlersRun /\ chain = "read"
  /\ \/ /\ ec
        /\ queueFatalEvent("read") /\ chain' = "none" /\ stream' = "failed"
        /\ UNCHANGED readVars
     \/ /\ ~ec /\ stream = "open" /\ received < MaxFrames
        /\ received' = received + 1
        /\ receiveBuffer' = Append(receiveBuffer, received')
        /\ receiveQueue' = Append(receiveQueue, receiveBuffer')
        /\ UNCHANGED <<chain, stream, delivered, polling, eventVars>>
  /\ UNCHANGED <<ioRun, stopped, writeVars, sendVars>>

\* async_read has appended one frame to m_receiveBuffer: the whole buffer becomes
\* the message, it is consumed, and doRead() waits for the next one.
onRead(ec) ==
  /\ HandlersRun /\ chain = "read"
  /\ \/ /\ ec
        /\ queueFatalEvent("read") /\ chain' = "none" /\ stream' = "failed"
        /\ UNCHANGED readVars
     \/ /\ ~ec /\ stream = "open" /\ received < MaxFrames
        /\ received' = received + 1
        /\ receiveQueue' = Append(receiveQueue, Append(receiveBuffer, received'))
        /\ receiveBuffer' = <<>>
        /\ UNCHANGED <<chain, stream, delivered, polling, eventVars>>
  /\ UNCHANGED <<ioRun, stopped, writeVars, sendVars>>

\* Mutant: doWrite() clears m_sendBuffer once it has begun the write.
doWriteClears(writing, ops) ==
  \/ /\ writing \/ SendQueueEmpty
     /\ isWriting' = writing /\ inFlight' = ops
     /\ UNCHANGED <<sendQueue, sendBuffer>>
  \/ /\ ~writing
     /\ \E t \in AppThreads :
          /\ sendQueue[t] # <<>>
          /\ sendQueue' = [sendQueue EXCEPT ![t] = Tail(@)]
          /\ inFlight' = ops \cup {[msg |-> Head(sendQueue[t]), usable |-> StreamUsable]}
     /\ isWriting' = TRUE
     /\ sendBuffer' = NoMessage

\* Mutant: what try_dequeue returns is not looked at.
doWriteUnchecked(writing, ops) ==
  \/ /\ writing
     /\ isWriting' = writing /\ inFlight' = ops
     /\ UNCHANGED <<sendQueue, sendBuffer>>
  \/ /\ ~writing
     /\ \/ SendQueueEmpty /\ UNCHANGED <<sendQueue, sendBuffer>>
        \/ \E t \in AppThreads :
             /\ sendQueue[t] # <<>>
             /\ sendBuffer' = Head(sendQueue[t])
             /\ sendQueue' = [sendQueue EXCEPT ![t] = Tail(@)]
     /\ isWriting' = TRUE
     /\ inFlight' = ops \cup {[msg |-> sendBuffer', usable |-> StreamUsable]}

\* doWrite() where m_isWriting is `writing` and the outstanding writes are `ops`
doWrite(writing, ops) ==
  \/ /\ writing \/ SendQueueEmpty
     /\ isWriting' = writing /\ inFlight' = ops
     /\ UNCHANGED <<sendQueue, sendBuffer>>
  \/ /\ ~writing
     /\ \E t \in AppThreads :
          /\ sendQueue[t] # <<>>
          /\ sendBuffer' = Head(sendQueue[t])
          /\ sendQueue' = [sendQueue EXCEPT ![t] = Tail(@)]
     /\ isWriting' = TRUE
     /\ inFlight' = ops \cup {[msg |-> sendBuffer', usable |-> StreamUsable]}

\* Mutant: doWrite() does not look at m_isWriting.
PostedDoWriteUnguarded ==
  /\ HandlersRun /\ posted > 0
  /\ posted' = posted - 1
  /\ doWrite(FALSE, inFlight)
  /\ UNCHANGED <<completed, pc, isEmpty, sent, ioVars, readVars, eventVars>>

\* Mutant: doWrite() does nothing until there is a connection.
PostedDoWriteIfOpen ==
  /\ HandlersRun /\ posted > 0
  /\ posted' = posted - 1
  /\ IF stream = "open" THEN doWrite(isWriting, inFlight)
       ELSE UNCHANGED <<isWriting, sendBuffer, inFlight, sendQueue>>
  /\ UNCHANGED <<completed, pc, isEmpty, sent, ioVars, readVars, eventVars>>

\* Mutant: doWrite() empties the queue as long as there is no connection.
PostedDoWriteDropsEarly ==
  /\ HandlersRun /\ posted > 0
  /\ posted' = posted - 1
  /\ IF stream # "closed" THEN doWrite(isWriting, inFlight)
       ELSE /\ sendQueue' = [t \in AppThreads |-> <<>>]
            /\ UNCHANGED <<isWriting, sendBuffer, inFlight>>
  /\ UNCHANGED <<completed, pc, isEmpty, sent, ioVars, readVars, eventVars>>

\* Mutant: doWrite() sets m_isWriting before it knows that there is a message.
PostedDoWriteSetsFirst ==
  /\ HandlersRun /\ posted > 0
  /\ posted' = posted - 1
  /\ IF ~SendQueueEmpty THEN doWrite(isWriting, inFlight)
       ELSE isWriting' = TRUE /\ UNCHANGED <<sendBuffer, inFlight, sendQueue>>
  /\ UNCHANGED <<completed, pc, isEmpty, sent, ioVars, readVars, eventVars>>

\* A doWrite posted by send()
PostedDoWrite ==
  /\ HandlersRun /\ posted > 0
  /\ posted' = posted - 1
  /\ doWrite(isWriting, inFlight)
  /\ UNCHANGED <<completed, pc, isEmpty, sent, ioVars, readVars, eventVars>>

\* The write w completes.  What went out is what m_sendBuffer holds: async_write
\* was given a pointer into it.  A write that fails takes the stream with it.
onWrite(w, ec) ==
  /\ HandlersRun /\ w \in inFlight
  /\ completed' = Append(completed, [msg |-> sendBuffer, ok |-> ~ec])
  /\ \/ /\ ec
        /\ isWriting' = FALSE /\ inFlight' = inFlight \ {w}
        /\ stream' = IF stream = "closed" THEN stream ELSE "failed"
        /\ queueFatalEvent("write")
        /\ UNCHANGED <<sendBuffer, sendQueue>>
     \/ /\ ~ec /\ w.usable
        /\ doWrite(FALSE, inFlight \ {w})
        /\ UNCHANGED <<stream, eventVars>>
  /\ UNCHANGED <<posted, ioRun, stopped, chain, pc, isEmpty, sent, readVars>>

-----------------------------------------------------------------------------

SendStep(t) == SendTest(t) \/ SendEnqueue(t) \/ SendPost(t)

PollStep == Poll \/ PollMessage \/ PollEvent

IOStep ==
  \/ Run \/ RunReturns \/ PostedDoWrite
  \/ \E ec \in BOOLEAN :
       \/ onResolve(ec) \/ onConnect(ec) \/ onHandshake(ec) \/ onRead(ec)
       \/ \E w \in inFlight : onWrite(w, ec)

Next == Stop \/ IOStep \/ PollStep \/ \E t \in AppThreads : SendStep(t)

Spec == Init /\ [][Next]_vars

(***************************************************************************)
(* Fairness.  The io thread runs whatever handler is ready, asio completes *)
(* every asynchronous write it was given (with success or an error), and a *)
(* thread that has entered send() leaves it.  Nothing obliges the          *)
(* application to call send(), poll() or the destructor, nor the network   *)
(* to answer the resolve, the connect, the handshake or the read.          *)
(***************************************************************************)
Fairness ==
  /\ WF_vars(Run) /\ WF_vars(RunReturns) /\ WF_vars(PostedDoWrite)
  /\ WF_vars(\E ec \in BOOLEAN, w \in inFlight : onWrite(w, ec))
  /\ \A t \in AppThreads : WF_vars(SendEnqueue(t)) /\ WF_vars(SendPost(t))

LiveSpec == Spec /\ Fairness

-----------------------------------------------------------------------------
(* Safety.                                                                 *)

(***************************************************************************)
(* m_isWriting says exactly whether an async_write is outstanding, there   *)
(* is never more than one, and m_sendBuffer, which that write points into, *)
(* still holds its message: doWrite() refills the buffer only between two  *)
(* writes (datareceiverwebsocket.cpp 125-137, 158-172).                    *)
(***************************************************************************)
WriteDiscipline ==
  /\ isWriting <=> inFlight # {}
  /\ \A w \in inFlight : w.msg = sendBuffer
  /\ \A v, w \in inFlight : v = w

\* How many messages of t doWrite() has dequeued, and how many of those are
\* written or reported as failed.
Dequeued(t) == sent[t] - Len(sendQueue[t])
Concluded(t) ==
  Dequeued(t) - (IF \E w \in inFlight : w.msg.from = t THEN 1 ELSE 0)

QueuedInOrder ==
  \A t \in AppThreads : \A i \in 1..Len(sendQueue[t]) :
    sendQueue[t][i] = [from |-> t, seq |-> Dequeued(t) + i]

WritingTheNext ==
  \A w \in inFlight : w.msg.seq = Dequeued(w.msg.from)

ConcludedOnceInOrder ==
  \A t \in AppThreads :
    /\ \A n \in 1..Concluded(t) :
         \E i \in 1..Len(completed) : completed[i].msg = [from |-> t, seq |-> n]
    /\ \A i \in 1..Len(completed) : completed[i].msg.from = t =>
         /\ completed[i].msg.seq <= Concluded(t)
         /\ \A j \in 1..(i - 1) :
              completed[j].msg.from = t => completed[j].msg.seq < completed[i].msg.seq

(***************************************************************************)
(* Every message handed to send() is in exactly one place - queued, in the *)
(* write under way, or concluded - and each thread's messages pass through *)
(* these places in the order in which it sent them: none is dropped,       *)
(* duplicated, retried or overtaken, whatever fails.                       *)
(***************************************************************************)
EachOnceInOrder == QueuedInOrder /\ WritingTheNext /\ ConcludedOnceInOrder

\* Something will still look at m_sendQueue: a doWrite is posted or about to
\* be, or the handler of an outstanding write will call it.
WriteUnderWay ==
  \/ isWriting \/ inFlight # {} \/ posted > 0
  \/ \E t \in AppThreads : pc[t] = "post" \/ (pc[t] = "enqueue" /\ isEmpty[t])

\* Messages are queued and nothing is going to write them.
Wedged == ~SendQueueEmpty /\ ~WriteUnderWay

(***************************************************************************)
(* A queue stranded this way stays stranded: a send() that finds a message *)
(* queued leaves the posting to whoever queued it, so no later call and no *)
(* handler of the session ever starts another write.                       *)
(***************************************************************************)
WedgedIsForever == [][Wedged => Wedged']_vars

\* A write ends with an error in this step.
WriteFails ==
  Len(completed') > Len(completed) /\ ~completed'[Len(completed')].ok

\* A send() whose size_approx() saw a message, which has been dequeued since.
StaleTest(t) ==
  pc[t] = "enqueue" /\ ~isEmpty[t] /\ SendQueueEmpty /\ sent'[t] > sent[t]

(***************************************************************************)
(* There are two ways to strand the queue and no third: a write that fails *)
(* while messages are queued (onWrite returns without a doWrite), and a    *)
(* send() whose isEmpty was out of date when it enqueued.                  *)
(***************************************************************************)
WedgeHasCause ==
  [][~Wedged /\ Wedged' => WriteFails \/ \E t \in AppThreads : StaleTest(t)]_vars

(***************************************************************************)
(* Each frame the peer sent reaches onReceive whole, alone and in order:   *)
(* what was delivered, then what is queued, is frame 1, frame 2, ...       *)
(* (onRead takes the whole m_receiveBuffer and must leave it empty).       *)
(***************************************************************************)
FramesWhole ==
  delivered \o receiveQueue = [n \in 1..received |-> <<n>>]

EventLog == reported \o eventQueue
Reported(what) ==
  Cardinality({i \in 1..Len(EventLog) : EventLog[i].MESSAGE_STRING = what})

(***************************************************************************)
(* Every failure is reported, once: a chain of operations that has ended   *)
(* by itself left exactly one report, one that has not left none, and each *)
(* failed write left one.  A poll() loses and repeats none of them.        *)
(***************************************************************************)
FailuresReported ==
  /\ Reported("write") = Cardinality({i \in 1..Len(completed) : ~completed[i].ok})
  /\ Len(EventLog) - Reported("write")
       = IF chain = "none" /\ ioRun # "notStarted" THEN 1 ELSE 0

(***************************************************************************)
(* The write path implements the abstract outbox: accepting is the enqueue *)
(* in send(), concluding is onWrite.                                       *)
(***************************************************************************)
Box == INSTANCE Outbox
         WITH Producers <- AppThreads,
              accepted  <- sent,
              taken     <- [t \in AppThreads |-> Concluded(t)],
              concluded <- completed

ImplementsOutbox == Box!Spec

-----------------------------------------------------------------------------
(* Liveness.                                                               *)

(***************************************************************************)
(* A message handed to send() is eventually written or reported as failed, *)
(* unless the queue is stranded or run() has returned: losing a wake-up    *)
(* and losing the io thread are the only ways to wait forever.             *)
(***************************************************************************)
SendResolves ==
  \A t \in AppThreads : \A n \in 1..MaxSends :
    sent[t] >= n ~> Concluded(t) >= n \/ Wedged \/ ioRun = "returned"

-----------------------------------------------------------------------------
(* What the repository says and this code does not do.                     *)

(***************************************************************************)
(* slinger.h 904 says of send(): "Sends a message to any                   *)
(* connected/attached receivers (enqueues for sending on some backends)".  *)
(* So on an open connection where no write ever failed, a queued message   *)
(* is on its way.                                                          *)
(***************************************************************************)
NoLostWakeup ==
  stream = "open" /\ (\A i \in 1..Len(completed) : completed[i].ok) => ~Wedged

=============================================================================
