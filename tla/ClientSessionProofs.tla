------------------------- MODULE ClientSessionProofs -------------------------
(***************************************************************************)
(* Theorems about ClientSession, for any set of application threads and    *)
(* any bounds.  The first part proves the type invariant together with     *)
(* WriteDiscipline: a completed write records what m_sendBuffer holds, so  *)
(* that record has its type only because the buffer still holds the        *)
(* message of the write.                                                   *)
(***************************************************************************)
EXTENDS ClientSession, QueueLemmas, SequenceTheorems, FiniteSetTheorems, TLAPS

-----------------------------------------------------------------------------
(* Type correctness and the discipline of the write side.                  *)

\* makeEvent builds an event, whatever is reported.
LEMMA EventType ==
  ASSUME TypeOK, NEW what \in Reports, queueFatalEvent(what)
  PROVE  eventQueue' \in Seq(Event) /\ reported' \in Seq(Event)
BY DEF TypeOK, queueFatalEvent, makeEvent, Event, EventKind, EventSourceKind

\* doWrite keeps the types of what it changes.
LEMMA DoWriteType ==
  ASSUME TypeOK, NEW writing \in BOOLEAN, NEW ops \in SUBSET Write,
         doWrite(writing, ops)
  PROVE  /\ isWriting' \in BOOLEAN
         /\ sendBuffer' \in Message \cup {NoMessage}
         /\ inFlight' \in SUBSET Write
         /\ sendQueue' \in [AppThreads -> Seq(Message)]
<1>1. CASE (writing \/ SendQueueEmpty) /\ isWriting' = writing /\ inFlight' = ops
           /\ UNCHANGED <<sendQueue, sendBuffer>>
  BY <1>1 DEF TypeOK
<1>2. ASSUME NEW t \in AppThreads, sendQueue[t] # <<>>, ~writing,
             sendBuffer' = Head(sendQueue[t]),
             sendQueue' = [sendQueue EXCEPT ![t] = Tail(@)],
             isWriting' = TRUE,
             inFlight' = ops \cup {[msg |-> sendBuffer', usable |-> StreamUsable]}
      PROVE  /\ isWriting' \in BOOLEAN
             /\ sendBuffer' \in Message \cup {NoMessage}
             /\ inFlight' \in SUBSET Write
             /\ sendQueue' \in [AppThreads -> Seq(Message)]
  <2>1. sendQueue[t] \in Seq(Message)
    BY DEF TypeOK
  <2>2. Head(sendQueue[t]) \in Message /\ Tail(sendQueue[t]) \in Seq(Message)
    BY <1>2, <2>1
  <2>3. StreamUsable \in BOOLEAN
    BY DEF StreamUsable
  <2>4. [msg |-> sendBuffer', usable |-> StreamUsable] \in Write
    BY <1>2, <2>2, <2>3 DEF Write
  <2> QED
    BY <1>2, <2>2, <2>4 DEF TypeOK
<1> QED
  BY <1>1, <1>2 DEF doWrite

\* doWrite begins a write only when none is outstanding, and then on the
\* buffer it has just filled.
LEMMA DoWriteDiscipline ==
  ASSUME NEW writing \in BOOLEAN, NEW ops,
         writing <=> ops # {},
         \A w \in ops : w.msg = sendBuffer,
         \A v, w \in ops : v = w,
         doWrite(writing, ops)
  PROVE  WriteDiscipline'
<1>1. CASE (writing \/ SendQueueEmpty) /\ isWriting' = writing /\ inFlight' = ops
           /\ UNCHANGED <<sendQueue, sendBuffer>>
  BY <1>1 DEF WriteDiscipline
<1>2. CASE /\ ~writing
           /\ isWriting' = TRUE
           /\ inFlight' = ops \cup {[msg |-> sendBuffer', usable |-> StreamUsable]}
  <2>1. inFlight' = {[msg |-> sendBuffer', usable |-> StreamUsable]}
    BY <1>2
  <2>2. inFlight' # {} /\ (isWriting' <=> TRUE)
    BY <1>2, <2>1
  <2>3. \A w \in inFlight' : w.msg = sendBuffer'
    BY <2>1
  <2>4. \A v, w \in inFlight' : v = w
    BY <2>1
  <2> QED
    BY <2>2, <2>3, <2>4 DEF WriteDiscipline
<1> QED
  BY <1>1, <1>2 DEF doWrite

LEMMA TypeInit == Init => TypeOK /\ WriteDiscipline
<1> SUFFICES ASSUME Init PROVE TypeOK /\ WriteDiscipline
  OBVIOUS
<1>1. WriteDiscipline
  BY DEF Init, WriteDiscipline
<1>2. /\ completed \in Seq([msg : Message, ok : BOOLEAN])
      /\ sendQueue \in [AppThreads -> Seq(Message)]
      /\ receiveBuffer \in Seq(Nat)
      /\ receiveQueue \in Seq(Seq(Nat)) /\ delivered \in Seq(Seq(Nat))
      /\ eventQueue \in Seq(Event) /\ reported \in Seq(Event)
  BY DEF Init
<1> QED
  BY <1>1, <1>2 DEF Init, TypeOK, Chains, Streams

LEMMA TypeStep ==
  TypeOK /\ WriteDiscipline /\ [Next]_vars => TypeOK' /\ WriteDiscipline'
<1> SUFFICES ASSUME TypeOK, WriteDiscipline, [Next]_vars
             PROVE  TypeOK' /\ WriteDiscipline'
  OBVIOUS
<1> USE DEF TypeOK
<1>1. ASSUME NEW t \in AppThreads, SendTest(t)
      PROVE  TypeOK' /\ WriteDiscipline'
  BY <1>1 DEF SendTest, SendQueueEmpty, WriteDiscipline,
              ioVars, writeVars, readVars, eventVars
<1>2. ASSUME NEW t \in AppThreads, SendEnqueue(t)
      PROVE  TypeOK' /\ WriteDiscipline'
  <2>1. [from |-> t, seq |-> sent[t] + 1] \in Message
    BY DEF Message
  <2>2. Append(sendQueue[t], [from |-> t, seq |-> sent[t] + 1]) \in Seq(Message)
    BY <2>1
  <2>3. sendQueue' \in [AppThreads -> Seq(Message)]
    BY <1>2, <2>2 DEF SendEnqueue
  <2>4. sent' \in [AppThreads -> Nat]
    BY <1>2 DEF SendEnqueue
  <2>5. pc' \in [AppThreads -> {"idle", "enqueue", "post"}]
    BY <1>2 DEF SendEnqueue
  <2> QED
    BY <1>2, <2>3, <2>4, <2>5 DEF SendEnqueue, WriteDiscipline, ioVars, writeVars,
                                  readVars, eventVars
<1>3. ASSUME NEW t \in AppThreads, SendPost(t)
      PROVE  TypeOK' /\ WriteDiscipline'
  BY <1>3 DEF SendPost, WriteDiscipline, ioVars, readVars, eventVars
<1>4. CASE Poll
  BY <1>4 DEF Poll, WriteDiscipline, ioVars, writeVars, sendVars, eventVars
<1>5. CASE PollMessage
  <2>1. delivered' \in Seq(Seq(Nat)) /\ receiveQueue' \in Seq(Seq(Nat))
    <3>1. CASE receiveQueue = <<>>
      BY <1>5, <3>1 DEF PollMessage
    <3>2. CASE receiveQueue # <<>>
      <4>1. Head(receiveQueue) \in Seq(Nat) /\ Tail(receiveQueue) \in Seq(Seq(Nat))
        BY <3>2, HeadTailProperties
      <4>2. Append(delivered, Head(receiveQueue)) \in Seq(Seq(Nat))
        BY <4>1, AppendProperties
      <4> QED
        BY <1>5, <3>2, <4>1, <4>2 DEF PollMessage
    <3> QED
      BY <3>1, <3>2
  <2>2. polling' \in {"no", "messages", "events"}
    BY <1>5 DEF PollMessage
  <2> QED
    BY <1>5, <2>1, <2>2 DEF PollMessage, WriteDiscipline, ioVars, writeVars,
                            sendVars, eventVars
<1>6. CASE PollEvent
  <2>1. eventQueue' \in Seq(Event) /\ reported' \in Seq(Event)
    <3>1. CASE eventQueue = <<>>
      BY <1>6, <3>1 DEF PollEvent, eventVars
    <3>2. CASE eventQueue # <<>>
      <4>1. Head(eventQueue) \in Event /\ Tail(eventQueue) \in Seq(Event)
        BY <3>2, HeadTailProperties
      <4>2. Append(reported, Head(eventQueue)) \in Seq(Event)
        BY <4>1, AppendProperties
      <4> QED
        BY <1>6, <3>2, <4>1, <4>2 DEF PollEvent
    <3> QED
      BY <3>1, <3>2
  <2>2. polling' \in {"no", "messages", "events"}
    BY <1>6 DEF PollEvent
  <2> QED
    BY <1>6, <2>1, <2>2 DEF PollEvent, WriteDiscipline, ioVars, writeVars,
                            sendVars, readVars
<1>7. CASE Stop
  BY <1>7 DEF Stop, WriteDiscipline, writeVars, sendVars, readVars, eventVars
<1>8. CASE Run
  <2>1. eventQueue' \in Seq(Event) /\ reported' \in Seq(Event)
    BY <1>8, EventType DEF Run, Reports, eventVars
  <2> QED
    BY <1>8, <2>1 DEF Run, Chains, WriteDiscipline, writeVars, sendVars, readVars
<1>9. CASE RunReturns
  BY <1>9 DEF RunReturns, WriteDiscipline, writeVars, sendVars, readVars, eventVars
<1>10. ASSUME NEW ec \in BOOLEAN, onResolve(ec)
       PROVE  TypeOK' /\ WriteDiscipline'
  <2>1. eventQueue' \in Seq(Event) /\ reported' \in Seq(Event)
    BY <1>10, EventType DEF onResolve, Reports, eventVars
  <2> QED
    BY <1>10, <2>1 DEF onResolve, Chains, WriteDiscipline, writeVars, sendVars, readVars
<1>11. ASSUME NEW ec \in BOOLEAN, onConnect(ec)
       PROVE  TypeOK' /\ WriteDiscipline'
  <2>1. eventQueue' \in Seq(Event) /\ reported' \in Seq(Event)
    BY <1>11, EventType DEF onConnect, Reports, eventVars
  <2> QED
    BY <1>11, <2>1 DEF onConnect, Chains, Streams, WriteDiscipline, writeVars,
                       sendVars, readVars
<1>12. ASSUME NEW ec \in BOOLEAN, onHandshake(ec)
       PROVE  TypeOK' /\ WriteDiscipline'
  <2>1. eventQueue' \in Seq(Event) /\ reported' \in Seq(Event)
    BY <1>12, EventType DEF onHandshake, Reports, eventVars
  <2> QED
    BY <1>12, <2>1 DEF onHandshake, Chains, Streams, WriteDiscipline, writeVars,
                       sendVars, readVars
<1>13. ASSUME NEW ec \in BOOLEAN, onRead(ec)
       PROVE  TypeOK' /\ WriteDiscipline'
  <2>1. eventQueue' \in Seq(Event) /\ reported' \in Seq(Event)
    BY <1>13, EventType DEF onRead, Reports, eventVars
  <2>2. received' \in Nat /\ receiveBuffer' \in Seq(Nat) /\ receiveQueue' \in Seq(Seq(Nat))
    <3>1. CASE ec
      BY <1>13, <3>1 DEF onRead, readVars
    <3>2. CASE ~ec
      <4>1. received' \in Nat
        BY <1>13, <3>2 DEF onRead
      <4>2. Append(receiveBuffer, received') \in Seq(Nat)
        BY <4>1, AppendProperties
      <4>3. Append(receiveQueue, Append(receiveBuffer, received')) \in Seq(Seq(Nat))
        BY <4>2, AppendProperties
      <4>4. receiveQueue' = Append(receiveQueue, Append(receiveBuffer, received'))
        BY <1>13, <3>2 DEF onRead
      <4>5. receiveBuffer' = <<>>
        BY <1>13, <3>2 DEF onRead
      <4> QED
        BY <4>1, <4>3, <4>4, <4>5
    <3> QED
      BY <3>1, <3>2
  <2> QED
    BY <1>13, <2>1, <2>2 DEF onRead, Chains, Streams, WriteDiscipline, readVars,
                             writeVars, sendVars
<1>14. CASE PostedDoWrite
  <2>1. /\ isWriting' \in BOOLEAN
        /\ sendBuffer' \in Message \cup {NoMessage}
        /\ inFlight' \in SUBSET Write
        /\ sendQueue' \in [AppThreads -> Seq(Message)]
    BY <1>14, DoWriteType DEF PostedDoWrite
  <2>2. WriteDiscipline'
    BY <1>14, DoWriteDiscipline DEF PostedDoWrite, WriteDiscipline
  <2> QED
    BY <1>14, <2>1, <2>2 DEF PostedDoWrite, ioVars, readVars, eventVars
<1>15. ASSUME NEW ec \in BOOLEAN, NEW w \in inFlight, onWrite(w, ec)
       PROVE  TypeOK' /\ WriteDiscipline'
  <2>1. sendBuffer \in Message
    BY <1>15 DEF WriteDiscipline, Write
  <2>2. completed' \in Seq([msg : Message, ok : BOOLEAN])
    BY <1>15, <2>1 DEF onWrite
  <2>3. inFlight \ {w} = {}
    BY <1>15 DEF WriteDiscipline
  <2>4. CASE ec
    <3>1. eventQueue' \in Seq(Event) /\ reported' \in Seq(Event)
      BY <1>15, <2>4, EventType DEF onWrite, Reports
    <3> QED
      BY <1>15, <2>2, <2>3, <2>4, <3>1
      DEF onWrite, WriteDiscipline, Streams, ioVars, readVars
  <2>5. CASE ~ec
    <3>1. doWrite(FALSE, {})
      BY <1>15, <2>3, <2>5 DEF onWrite
    <3>2. /\ isWriting' \in BOOLEAN
          /\ sendBuffer' \in Message \cup {NoMessage}
          /\ inFlight' \in SUBSET Write
          /\ sendQueue' \in [AppThreads -> Seq(Message)]
      BY <3>1, DoWriteType
    <3>3. WriteDiscipline'
      BY <3>1, DoWriteDiscipline
    <3> QED
      BY <1>15, <2>2, <2>5, <3>2, <3>3 DEF onWrite, Streams, eventVars, readVars
  <2> QED
    BY <2>4, <2>5
<1>16. CASE UNCHANGED vars
  BY <1>16 DEF WriteDiscipline, vars, ioVars, writeVars, sendVars, readVars, eventVars
<1> QED
  BY <1>1, <1>2, <1>3, <1>4, <1>5, <1>6, <1>7, <1>8, <1>9, <1>10, <1>11, <1>12,
     <1>13, <1>14, <1>15, <1>16
  DEF Next, IOStep, PollStep, SendStep

(***************************************************************************)
(* Every reachable state has its types, and m_isWriting, the outstanding   *)
(* write and m_sendBuffer agree in it.                                     *)
(***************************************************************************)
THEOREM TypeCorrect == Spec => []TypeOK
BY TypeInit, TypeStep, PTL DEF Spec

(***************************************************************************)
(* At most one async_write is outstanding, m_isWriting says whether one    *)
(* is, and m_sendBuffer holds its message until it completes.              *)
(***************************************************************************)
THEOREM WriteSideDisciplined == Spec => []WriteDiscipline
BY TypeInit, TypeStep, PTL DEF Spec

-----------------------------------------------------------------------------
(* The stranded queue.                                                     *)

\* doWrite leaves no message stranded: it finds none, it begins a write, or
\* one is outstanding.
LEMMA DoWriteStrandsNothing ==
  ASSUME NEW writing \in BOOLEAN, NEW ops, doWrite(writing, ops), TypeOK'
  PROVE  ~Wedged'
<1>1. CASE writing /\ isWriting' = writing
  BY <1>1 DEF Wedged, WriteUnderWay
<1>2. CASE SendQueueEmpty /\ UNCHANGED sendQueue
  BY <1>2 DEF Wedged, SendQueueEmpty
<1>3. CASE isWriting' = TRUE
  BY <1>3 DEF Wedged, WriteUnderWay
<1> QED
  BY <1>1, <1>2, <1>3 DEF doWrite

\* What Wedged depends on.
wedgeVars == <<posted, isWriting, inFlight, pc, isEmpty, sendQueue>>

LEMMA WedgedUnchanged ==
  ASSUME UNCHANGED wedgeVars
  PROVE  Wedged' <=> Wedged
BY DEF wedgeVars, Wedged, WriteUnderWay, SendQueueEmpty

\* The steps that neither send nor write.
LEMMA OtherSteps ==
  ASSUME \/ PollStep \/ Stop \/ Run \/ RunReturns \/ UNCHANGED vars
         \/ \E ec \in BOOLEAN : \/ onResolve(ec) \/ onConnect(ec)
                                \/ onHandshake(ec) \/ onRead(ec)
  PROVE  UNCHANGED wedgeVars
BY DEF PollStep, Poll, PollMessage, PollEvent, Stop, Run, RunReturns, onResolve,
       onConnect, onHandshake, onRead, wedgeVars, vars, ioVars, writeVars,
       sendVars, readVars, eventVars

LEMMA WedgedStep ==
  TypeOK /\ WriteDiscipline /\ Wedged /\ [Next]_vars => Wedged'
<1> SUFFICES ASSUME TypeOK, WriteDiscipline, Wedged, [Next]_vars
             PROVE  Wedged'
  OBVIOUS
<1>1. /\ ~isWriting /\ inFlight = {} /\ posted = 0
      /\ \A t \in AppThreads : pc[t] # "post" /\ ~(pc[t] = "enqueue" /\ isEmpty[t])
  BY DEF Wedged, WriteUnderWay, TypeOK
<1>2. PICK u \in AppThreads : sendQueue[u] # <<>>
  BY DEF Wedged, SendQueueEmpty
<1>3. ASSUME NEW t \in AppThreads, SendTest(t)
      PROVE  Wedged'
  <2>1. isEmpty'[t] = FALSE
    BY <1>2, <1>3 DEF SendTest, SendQueueEmpty, TypeOK
  <2>2. UNCHANGED <<posted, isWriting, inFlight, sendQueue>>
    BY <1>3 DEF SendTest, writeVars
  <2>3. \A v \in AppThreads : pc'[v] # "post" /\ ~(pc'[v] = "enqueue" /\ isEmpty'[v])
    BY <1>1, <1>3, <2>1 DEF SendTest, TypeOK
  <2> QED
    BY <1>1, <1>2, <2>2, <2>3 DEF Wedged, WriteUnderWay, SendQueueEmpty
<1>4. ASSUME NEW t \in AppThreads, SendEnqueue(t)
      PROVE  Wedged'
  <2>1. pc' = [pc EXCEPT ![t] = "idle"] /\ UNCHANGED <<isEmpty, posted, isWriting, inFlight>>
    BY <1>1, <1>4 DEF SendEnqueue, writeVars
  <2>2. \A v \in AppThreads : pc'[v] # "post" /\ ~(pc'[v] = "enqueue" /\ isEmpty'[v])
    BY <1>1, <2>1 DEF TypeOK
  <2>3. sendQueue'[t] # <<>>
    <3>1. sendQueue'[t] = Append(sendQueue[t], [from |-> t, seq |-> sent[t] + 1])
      BY <1>4 DEF SendEnqueue, TypeOK
    <3>2. sendQueue[t] \in Seq(Message) /\ sent[t] \in Nat
      BY DEF TypeOK
    <3>3. [from |-> t, seq |-> sent[t] + 1] \in Message
      BY <3>2 DEF Message
    <3> QED
      BY <3>1, <3>2, <3>3, AppendProperties
  <2> QED
    BY <1>1, <2>1, <2>2, <2>3 DEF Wedged, WriteUnderWay, SendQueueEmpty
<1>5. ASSUME NEW t \in AppThreads, SendPost(t)
      PROVE  Wedged'
  BY <1>1, <1>5 DEF SendPost
<1>6. CASE PostedDoWrite
  BY <1>1, <1>6 DEF PostedDoWrite
<1>7. ASSUME NEW ec \in BOOLEAN, NEW w \in inFlight, onWrite(w, ec)
      PROVE  Wedged'
  BY <1>1, <1>7
<1> QED
  BY <1>3, <1>4, <1>5, <1>6, <1>7, OtherSteps, WedgedUnchanged
  DEF Next, IOStep, SendStep

(***************************************************************************)
(* Once a message is stranded in m_sendQueue, no later send(), poll() or   *)
(* handler of the session ever writes it.                                  *)
(***************************************************************************)
THEOREM StrandedForever == Spec => WedgedIsForever
<1>1. TypeOK /\ WriteDiscipline /\ [Next]_vars => [Wedged => Wedged']_vars
  BY WedgedStep
<1> QED
  BY <1>1, TypeCorrect, WriteSideDisciplined, PTL DEF Spec, WedgedIsForever

LEMMA CauseStep ==
  ASSUME TypeOK, WriteDiscipline, TypeOK', [Next]_vars, ~Wedged, Wedged'
  PROVE  WriteFails \/ \E t \in AppThreads : StaleTest(t)
<1>1. ASSUME NEW t \in AppThreads, SendTest(t)
      PROVE  FALSE
  <2>1. UNCHANGED <<posted, isWriting, inFlight, sendQueue>> /\ pc[t] = "idle"
    BY <1>1 DEF SendTest, writeVars
  <2>2. \A v \in AppThreads : pc[v] # "post" /\ ~(pc[v] = "enqueue" /\ isEmpty[v])
    <3> SUFFICES ASSUME NEW v \in AppThreads, v # t
                 PROVE  pc[v] # "post" /\ ~(pc[v] = "enqueue" /\ isEmpty[v])
      BY <2>1
    <3>1. pc'[v] = pc[v] /\ isEmpty'[v] = isEmpty[v]
      BY <1>1 DEF SendTest, TypeOK
    <3> QED
      BY <3>1 DEF Wedged, WriteUnderWay
  <2> QED
    BY <2>1, <2>2 DEF Wedged, WriteUnderWay, SendQueueEmpty
<1>2. ASSUME NEW t \in AppThreads, SendEnqueue(t)
      PROVE  StaleTest(t)
  <2>1. pc[t] = "enqueue" /\ ~isEmpty[t]
    BY <1>2 DEF SendEnqueue, Wedged, WriteUnderWay, TypeOK
  <2>2. \A v \in AppThreads : pc[v] # "post" /\ ~(pc[v] = "enqueue" /\ isEmpty[v])
    <3> SUFFICES ASSUME NEW v \in AppThreads, v # t
                 PROVE  pc[v] # "post" /\ ~(pc[v] = "enqueue" /\ isEmpty[v])
      BY <2>1
    <3>1. pc'[v] = pc[v] /\ isEmpty'[v] = isEmpty[v]
      BY <1>2 DEF SendEnqueue, TypeOK
    <3> QED
      BY <3>1 DEF Wedged, WriteUnderWay
  <2>3. SendQueueEmpty
    BY <1>2, <2>2 DEF SendEnqueue, Wedged, WriteUnderWay, writeVars
  <2>4. sent'[t] > sent[t]
    <3>1. sent \in [AppThreads -> Nat]
      BY DEF TypeOK
    <3>2. sent' = [sent EXCEPT ![t] = @ + 1]
      BY <1>2 DEF SendEnqueue
    <3> QED
      BY <3>1, <3>2
  <2> QED
    BY <2>1, <2>3, <2>4 DEF StaleTest
<1>3. ASSUME NEW t \in AppThreads, SendPost(t)
      PROVE  FALSE
  BY <1>3 DEF SendPost, Wedged, WriteUnderWay, TypeOK
<1>4. CASE PostedDoWrite
  BY <1>4, DoWriteStrandsNothing DEF PostedDoWrite, TypeOK
<1>5. ASSUME NEW ec \in BOOLEAN, NEW w \in inFlight, onWrite(w, ec)
      PROVE  WriteFails
  <2>1. CASE ec
    <3>1. completed' = Append(completed, [msg |-> sendBuffer, ok |-> FALSE])
      BY <1>5, <2>1 DEF onWrite
    <3>2. sendBuffer \in Message
      BY DEF WriteDiscipline, TypeOK, Write
    <3>3. [msg |-> sendBuffer, ok |-> FALSE] \in [msg : Message, ok : BOOLEAN]
      BY <3>2
    <3> DEFINE c == [msg |-> sendBuffer, ok |-> FALSE]
    <3> HIDE DEF c
    <3>4. completed \in Seq([msg : Message, ok : BOOLEAN])
      BY DEF TypeOK
    <3>5. Len(completed) \in Nat
      BY <3>4, LenProperties
    <3>6. completed' = Append(completed, c) /\ c \in [msg : Message, ok : BOOLEAN]
      BY <3>1, <3>3 DEF c
    <3>7. Len(completed') = Len(completed) + 1 /\ completed'[Len(completed) + 1] = c
      BY <3>4, <3>6, AppendProperties
    <3>8. ~c.ok
      BY DEF c
    <3> QED
      BY <3>5, <3>7, <3>8 DEF WriteFails
  <2>2. CASE ~ec
    <3>1. doWrite(FALSE, inFlight \ {w})
      BY <1>5, <2>2 DEF onWrite
    <3> QED
      BY <3>1, DoWriteStrandsNothing
  <2> QED
    BY <2>1, <2>2
<1> QED
  BY <1>1, <1>2, <1>3, <1>4, <1>5, OtherSteps, WedgedUnchanged
  DEF Next, IOStep, SendStep

(***************************************************************************)
(* A message gets stranded only by a write that fails while it is queued,  *)
(* or by a send() whose size_approx() was out of date when it enqueued.    *)
(***************************************************************************)
THEOREM StrandingHasCause == Spec => WedgeHasCause
<1>1. TypeOK /\ WriteDiscipline /\ TypeOK' /\ [Next]_vars
        => [~Wedged /\ Wedged' => WriteFails \/ \E t \in AppThreads : StaleTest(t)]_vars
  BY CauseStep
<1> QED
  BY <1>1, TypeCorrect, WriteSideDisciplined, PTL DEF Spec, WedgeHasCause

-----------------------------------------------------------------------------
(* Every message in one place, in order.                                   *)

\* What EachOnceInOrder depends on.
orderVars == <<sendQueue, sent, inFlight, completed>>

LEMMA OrderUnchanged ==
  ASSUME EachOnceInOrder, UNCHANGED orderVars
  PROVE  EachOnceInOrder'
BY DEF orderVars, EachOnceInOrder, QueuedInOrder, WritingTheNext,
       ConcludedOnceInOrder, Concluded, Dequeued

LEMMA OtherStepsKeepOrder ==
  ASSUME \/ PollStep \/ Stop \/ Run \/ RunReturns \/ UNCHANGED vars
         \/ \E ec \in BOOLEAN : \/ onResolve(ec) \/ onConnect(ec)
                                \/ onHandshake(ec) \/ onRead(ec)
         \/ \E t \in AppThreads : SendTest(t) \/ SendPost(t)
  PROVE  UNCHANGED orderVars
BY DEF PollStep, Poll, PollMessage, PollEvent, Stop, Run, RunReturns, onResolve,
       onConnect, onHandshake, onRead, SendTest, SendPost, orderVars, vars, ioVars,
       writeVars, sendVars, readVars, eventVars

\* While no write is outstanding, what is dequeued is concluded.
LEMMA ConcludedIsDequeued ==
  ASSUME TypeOK, inFlight = {}, NEW t \in AppThreads
  PROVE  Concluded(t) = Dequeued(t)
<1>1. Dequeued(t) \in Int
  BY LenProperties DEF TypeOK, Dequeued
<1> QED
  BY <1>1 DEF Concluded

\* doWrite, called with no write outstanding, takes at most the next message
\* of one thread: the queue and the write stay in order, and whatever was
\* dequeued before it is now what counts as concluded.
LEMMA DoWriteOrder ==
  ASSUME TypeOK, QueuedInOrder, doWrite(FALSE, {}), UNCHANGED sent
  PROVE  /\ QueuedInOrder' /\ WritingTheNext'
         /\ \A t \in AppThreads : Concluded(t)' = Dequeued(t)
<1> USE DEF TypeOK
<1>0. \A t \in AppThreads : Len(sendQueue[t]) \in Nat /\ sent[t] \in Nat
  BY LenProperties
<1>1. CASE inFlight' = {} /\ UNCHANGED <<sendQueue, sendBuffer>>
  <2>1. QueuedInOrder' /\ WritingTheNext'
    BY <1>1 DEF QueuedInOrder, WritingTheNext, Dequeued
  <2>2. ASSUME NEW t \in AppThreads
        PROVE  Concluded(t)' = Dequeued(t)
    BY <1>0, <1>1 DEF Concluded, Dequeued
  <2> QED
    BY <2>1, <2>2
<1>2. ASSUME NEW u \in AppThreads, sendQueue[u] # <<>>,
             sendBuffer' = Head(sendQueue[u]),
             sendQueue' = [sendQueue EXCEPT ![u] = Tail(@)],
             inFlight' = {[msg |-> sendBuffer', usable |-> StreamUsable]}
      PROVE  /\ QueuedInOrder' /\ WritingTheNext'
             /\ \A t \in AppThreads : Concluded(t)' = Dequeued(t)
  <2>1. /\ sendQueue'[u] = Tail(sendQueue[u])
        /\ \A t \in AppThreads : t # u => sendQueue'[t] = sendQueue[t]
    BY <1>2
  <2>2. /\ Len(Tail(sendQueue[u])) = Len(sendQueue[u]) - 1
        /\ \A i \in 1..Len(Tail(sendQueue[u])) : Tail(sendQueue[u])[i] = sendQueue[u][i + 1]
    BY <1>2, HeadTailProperties
  <2>3. Len(sendQueue[u]) > 0
    BY <1>0, <1>2, EmptySeq
  <2>4. Dequeued(u)' = Dequeued(u) + 1
    <3>1. sent[u] \in Nat /\ Len(sendQueue[u]) \in Nat
      BY <1>0
    <3>2. Len(sendQueue'[u]) = Len(sendQueue[u]) - 1
      BY <2>1, <2>2
    <3>3. sent'[u] - (Len(sendQueue[u]) - 1) = (sent[u] - Len(sendQueue[u])) + 1
      BY <3>1
    <3> QED
      BY <3>2, <3>3 DEF Dequeued
  <2>5. ASSUME NEW t \in AppThreads, t # u
        PROVE  Dequeued(t)' = Dequeued(t)
    BY <2>1, <2>5 DEF Dequeued
  <2>6. sendBuffer' = [from |-> u, seq |-> Dequeued(u) + 1]
    <3>1. Head(sendQueue[u]) = sendQueue[u][1]
      BY <1>2
    <3> QED
      BY <1>0, <1>2, <2>3, <3>1 DEF QueuedInOrder
  <2>7. QueuedInOrder'
    <3> SUFFICES ASSUME NEW t \in AppThreads, NEW i \in 1..Len(sendQueue'[t])
                 PROVE  sendQueue'[t][i] = [from |-> t, seq |-> Dequeued(t)' + i]
      BY DEF QueuedInOrder
    <3>1. CASE t # u
      BY <2>1, <2>5, <3>1 DEF QueuedInOrder
    <3>2. CASE t = u
      <4>0. Len(sendQueue[u]) \in Nat /\ i \in 1..(Len(sendQueue[u]) - 1)
        BY <1>0, <2>1, <2>2, <3>2
      <4>1. i \in Nat /\ i + 1 \in 1..Len(sendQueue[u]) /\ sendQueue'[u][i] = sendQueue[u][i + 1]
        BY <2>1, <2>2, <4>0
      <4>2. sendQueue[u][i + 1] = [from |-> u, seq |-> Dequeued(u) + (i + 1)]
        BY <4>1 DEF QueuedInOrder
      <4>3. Dequeued(u) \in Int
        BY <1>0 DEF Dequeued
      <4>4. Dequeued(u)' + i = Dequeued(u) + (i + 1)
        BY <2>4, <4>1, <4>3
      <4> QED
        BY <3>2, <4>1, <4>2, <4>4
    <3> QED
      BY <3>1, <3>2
  <2>8. WritingTheNext'
    BY <1>2, <2>4, <2>6 DEF WritingTheNext
  <2>9. ASSUME NEW t \in AppThreads
        PROVE  Concluded(t)' = Dequeued(t)
    <3>1. (\E w \in inFlight' : w.msg.from = t) <=> t = u
      BY <1>2, <2>6
    <3>2. Dequeued(t) \in Int
      BY <1>0 DEF Dequeued
    <3>3. CASE t = u
      BY <2>4, <3>1, <3>2, <3>3 DEF Concluded
    <3>4. CASE t # u
      BY <2>5, <3>1, <3>2, <3>4 DEF Concluded
    <3> QED
      BY <3>3, <3>4
  <2> QED
    BY <2>7, <2>8, <2>9
<1> QED
  BY <1>1, <1>2 DEF doWrite

\* The write that completes is the next message of its thread, the only one
\* that is dequeued and not concluded.
LEMMA NextToConclude ==
  ASSUME TypeOK, WriteDiscipline, EachOnceInOrder, inFlight # {}
  PROVE  /\ sendBuffer \in Message
         /\ sendBuffer.seq = Concluded(sendBuffer.from) + 1
         /\ \A t \in AppThreads : Dequeued(t) \in Int /\ Concluded(t) \in Int
         /\ \A t \in AppThreads :
              Dequeued(t) = IF t = sendBuffer.from THEN Concluded(t) + 1 ELSE Concluded(t)
<1>1. PICK w \in inFlight : w.msg = sendBuffer
  BY DEF WriteDiscipline
<1>2. sendBuffer \in Message
  BY <1>1 DEF TypeOK, Write
<1>3. sendBuffer.from \in AppThreads /\ sendBuffer.seq \in Nat
  BY <1>2 DEF Message
<1>4. ASSUME NEW t \in AppThreads
      PROVE  Dequeued(t) \in Int
  <2>1. Len(sendQueue[t]) \in Nat /\ sent[t] \in Nat
    BY LenProperties DEF TypeOK
  <2> QED
    BY <2>1 DEF Dequeued
<1>5. ASSUME NEW t \in AppThreads
      PROVE  /\ Concluded(t) \in Int
             /\ Dequeued(t) = IF t = sendBuffer.from THEN Concluded(t) + 1 ELSE Concluded(t)
  <2>1. (\E v \in inFlight : v.msg.from = t) <=> t = sendBuffer.from
    BY <1>1 DEF WriteDiscipline
  <2> QED
    BY <1>4, <2>1 DEF Concluded
<1>6. sendBuffer.seq = Dequeued(sendBuffer.from)
  BY <1>1 DEF EachOnceInOrder, WritingTheNext
<1> QED
  BY <1>2, <1>3, <1>4, <1>5, <1>6

LEMMA OnWriteOrder ==
  ASSUME TypeOK, WriteDiscipline, EachOnceInOrder,
         NEW ec \in BOOLEAN, NEW w \in inFlight, onWrite(w, ec)
  PROVE  /\ QueuedInOrder' /\ WritingTheNext'
         /\ \A t \in AppThreads : Concluded(t)' = Dequeued(t)
<1>1. inFlight \ {w} = {}
  BY DEF WriteDiscipline
<1>2. UNCHANGED sent
  BY DEF onWrite
<1>3. CASE ec
  <2>1. inFlight' = {} /\ UNCHANGED sendQueue
    BY <1>1, <1>3 DEF onWrite
  <2>2. QueuedInOrder' /\ WritingTheNext'
    BY <1>2, <2>1 DEF EachOnceInOrder, QueuedInOrder, WritingTheNext, Dequeued
  <2>3. ASSUME NEW t \in AppThreads
        PROVE  Concluded(t)' = Dequeued(t)
    <3>1. Dequeued(t) \in Int
      BY NextToConclude
    <3>2. Dequeued(t)' = Dequeued(t)
      BY <1>2, <2>1 DEF Dequeued
    <3> QED
      BY <2>1, <3>1, <3>2 DEF Concluded
  <2> QED
    BY <2>2, <2>3
<1>4. CASE ~ec
  <2>1. doWrite(FALSE, {})
    BY <1>1, <1>4 DEF onWrite
  <2> QED
    BY <1>2, <2>1, DoWriteOrder DEF EachOnceInOrder
<1> QED
  BY <1>3, <1>4

LEMMA OnWriteConcludes ==
  ASSUME TypeOK, WriteDiscipline, EachOnceInOrder,
         NEW ec \in BOOLEAN, NEW w \in inFlight, onWrite(w, ec)
  PROVE  ConcludedOnceInOrder'
<1> DEFINE c == [msg |-> sendBuffer, ok |-> ~ec]
           u == sendBuffer.from
           N == Len(completed)
<1>1. /\ sendBuffer \in Message
      /\ sendBuffer.seq = Concluded(u) + 1
      /\ \A t \in AppThreads : Dequeued(t) \in Int /\ Concluded(t) \in Int
      /\ \A t \in AppThreads : Dequeued(t) = IF t = u THEN Concluded(t) + 1 ELSE Concluded(t)
  BY NextToConclude
<1>2. \A t \in AppThreads : Concluded(t)' = IF t = u THEN Concluded(t) + 1 ELSE Concluded(t)
  BY <1>1, OnWriteOrder
<1>3. u \in AppThreads /\ sendBuffer = [from |-> u, seq |-> Concluded(u) + 1]
  BY <1>1 DEF Message
<1>4. completed \in Seq([msg : Message, ok : BOOLEAN]) /\ N \in Nat
  BY LenProperties DEF TypeOK
<1>5. c \in [msg : Message, ok : BOOLEAN]
  BY <1>1
<1>6. completed' = Append(completed, c)
  BY DEF onWrite
<1>7. c.msg = [from |-> u, seq |-> Concluded(u) + 1]
  BY <1>3
<1> HIDE DEF c, N, u
<1>8. /\ Len(completed') = N + 1
      /\ \A i \in 1..N : completed'[i] = completed[i]
      /\ completed'[N + 1] = c
  BY <1>4, <1>5, <1>6, AppendProperties DEF N
<1>9. ASSUME NEW i \in 1..N
      PROVE  completed[i].msg \in Message
  <2>1. completed[i] \in [msg : Message, ok : BOOLEAN]
    BY <1>4, ElementOfSeq DEF N
  <2> QED
    BY <2>1
<1>10. ConcludedOnceInOrder
  BY DEF EachOnceInOrder
<1>11. ASSUME NEW t \in AppThreads, NEW n \in 1..Concluded(t)'
       PROVE  \E i \in 1..Len(completed') : completed'[i].msg = [from |-> t, seq |-> n]
  <2>1. CASE n \in 1..Concluded(t)
    <3>1. PICK i \in 1..N : completed[i].msg = [from |-> t, seq |-> n]
      BY <1>10, <2>1 DEF ConcludedOnceInOrder, N
    <3>2. i \in 1..Len(completed') /\ completed'[i] = completed[i]
      BY <1>4, <1>8
    <3> QED
      BY <3>1, <3>2
  <2>2. CASE n \notin 1..Concluded(t)
    <3>1. t = u /\ n = Concluded(u) + 1
      BY <1>1, <1>2, <2>2
    <3>2. N + 1 \in 1..Len(completed') /\ completed'[N + 1] = c
      BY <1>4, <1>8
    <3> QED
      BY <1>7, <3>1, <3>2
  <2> QED
    BY <2>1, <2>2
<1>12. ASSUME NEW t \in AppThreads, NEW i \in 1..N, completed[i].msg.from = t
       PROVE  /\ completed[i].msg.seq \in Nat
              /\ completed[i].msg.seq <= Concluded(t)
              /\ \A j \in 1..(i - 1) :
                   completed[j].msg.from = t => completed[j].msg.seq < completed[i].msg.seq
  BY <1>9, <1>10, <1>12 DEF ConcludedOnceInOrder, Message, N
<1>13. ASSUME NEW t \in AppThreads, NEW i \in 1..Len(completed'),
              completed'[i].msg.from = t
       PROVE  /\ completed'[i].msg.seq <= Concluded(t)'
              /\ \A j \in 1..(i - 1) :
                   completed'[j].msg.from = t
                     => completed'[j].msg.seq < completed'[i].msg.seq
  <2>0. Concluded(t) \in Int /\ Concluded(t)' \in Int /\ Concluded(t) <= Concluded(t)'
    BY <1>1, <1>2
  <2>1. CASE i \in 1..N
    <3>1. completed'[i] = completed[i] /\ \A j \in 1..(i - 1) : completed'[j] = completed[j]
      BY <1>4, <1>8, <2>1
    <3>2. /\ completed[i].msg.seq \in Nat
          /\ completed[i].msg.seq <= Concluded(t)
          /\ \A j \in 1..(i - 1) :
               completed[j].msg.from = t => completed[j].msg.seq < completed[i].msg.seq
      BY <1>12, <1>13, <2>1, <3>1
    <3>3. completed'[i].msg.seq <= Concluded(t)'
      BY <2>0, <3>1, <3>2
    <3> QED
      BY <3>1, <3>2, <3>3
  <2>2. CASE i \notin 1..N
    <3>1. i = N + 1 /\ completed'[i] = c
      BY <1>4, <1>8, <2>2
    <3>2. t = u /\ c.msg.seq = Concluded(t) + 1
      BY <1>7, <1>13, <3>1
    <3>3. Concluded(t)' = Concluded(t) + 1
      BY <1>2, <3>2
    <3>4. ASSUME NEW j \in 1..(i - 1), completed'[j].msg.from = t
          PROVE  completed'[j].msg.seq < Concluded(t) + 1
      <4>1. j \in 1..N /\ completed'[j] = completed[j]
        BY <1>4, <1>8, <3>1
      <4>2. completed[j].msg.seq \in Nat /\ completed[j].msg.seq <= Concluded(t)
        BY <1>12, <3>4, <4>1
      <4> QED
        BY <2>0, <4>1, <4>2
    <3> QED
      BY <2>0, <3>1, <3>2, <3>3, <3>4
  <2> QED
    BY <2>1, <2>2
<1> QED
  BY <1>11, <1>13 DEF ConcludedOnceInOrder

LEMMA OrderInit == Init => EachOnceInOrder
BY DEF Init, EachOnceInOrder, QueuedInOrder, WritingTheNext, ConcludedOnceInOrder,
       Concluded, Dequeued

\* A send() appends the next message of its thread.
LEMMA EnqueueOrder ==
  ASSUME TypeOK, EachOnceInOrder, NEW t \in AppThreads, SendEnqueue(t)
  PROVE  /\ EachOnceInOrder'
         /\ \A u \in AppThreads : Concluded(u)' = Concluded(u)
<1> DEFINE m == [from |-> t, seq |-> sent[t] + 1]
<1>1. /\ sendQueue[t] \in Seq(Message) /\ Len(sendQueue[t]) \in Nat /\ sent[t] \in Nat
      /\ m \in Message
  <2>1. sendQueue[t] \in Seq(Message) /\ sent[t] \in Nat
    BY DEF TypeOK
  <2> QED
    BY <2>1, LenProperties DEF Message
<1>2. /\ sendQueue' = [sendQueue EXCEPT ![t] = Append(sendQueue[t], m)]
      /\ sent' = [sent EXCEPT ![t] = sent[t] + 1]
      /\ UNCHANGED <<inFlight, completed>>
  BY DEF SendEnqueue, writeVars
<1>3. m = [from |-> t, seq |-> sent[t] + 1]
  OBVIOUS
<1> HIDE DEF m
<1>4. /\ sendQueue'[t] = Append(sendQueue[t], m)
      /\ sent'[t] = sent[t] + 1
      /\ \A u \in AppThreads : u # t => sendQueue'[u] = sendQueue[u] /\ sent'[u] = sent[u]
  BY <1>2 DEF TypeOK
<1>5. /\ Len(sendQueue'[t]) = Len(sendQueue[t]) + 1
      /\ \A i \in 1..Len(sendQueue[t]) : sendQueue'[t][i] = sendQueue[t][i]
      /\ sendQueue'[t][Len(sendQueue[t]) + 1] = m
  BY <1>1, <1>4, AppendProperties
<1>6. ASSUME NEW u \in AppThreads
      PROVE  Dequeued(u)' = Dequeued(u)
  <2>1. CASE u = t
    <3>1. (sent[t] + 1) - (Len(sendQueue[t]) + 1) = sent[t] - Len(sendQueue[t])
      BY <1>1
    <3> QED
      BY <1>4, <1>5, <2>1, <3>1 DEF Dequeued
  <2>2. CASE u # t
    BY <1>4, <2>2 DEF Dequeued
  <2> QED
    BY <2>1, <2>2
<1>7. \A u \in AppThreads : Concluded(u)' = Concluded(u)
  BY <1>2, <1>6 DEF Concluded
<1>8. QueuedInOrder'
  <2> SUFFICES ASSUME NEW u \in AppThreads, NEW i \in 1..Len(sendQueue'[u])
               PROVE  sendQueue'[u][i] = [from |-> u, seq |-> Dequeued(u) + i]
    BY <1>6 DEF QueuedInOrder
  <2>1. CASE u # t
    BY <1>4, <2>1 DEF EachOnceInOrder, QueuedInOrder
  <2>2. CASE u = t /\ i \in 1..Len(sendQueue[t])
    BY <1>5, <2>2 DEF EachOnceInOrder, QueuedInOrder
  <2>3. CASE u = t /\ i \notin 1..Len(sendQueue[t])
    <3>1. i = Len(sendQueue[t]) + 1
      BY <1>1, <1>5, <2>3
    <3>2. Dequeued(t) + i = sent[t] + 1
      BY <1>1, <3>1 DEF Dequeued
    <3> QED
      BY <1>3, <1>5, <2>3, <3>1, <3>2
  <2> QED
    BY <2>1, <2>2, <2>3
<1>9. WritingTheNext'
  <2> SUFFICES ASSUME NEW w \in inFlight
               PROVE  w.msg.seq = Dequeued(w.msg.from)'
    BY <1>2 DEF WritingTheNext
  <2>1. w.msg.from \in AppThreads
    BY DEF TypeOK, Write, Message
  <2> QED
    BY <1>6, <2>1 DEF EachOnceInOrder, WritingTheNext
<1>10. ConcludedOnceInOrder'
  BY <1>2, <1>7 DEF EachOnceInOrder, ConcludedOnceInOrder
<1> QED
  BY <1>7, <1>8, <1>9, <1>10 DEF EachOnceInOrder

\* A doWrite posted by send() concludes nothing.
LEMMA PostedDoWriteOrder ==
  ASSUME TypeOK, WriteDiscipline, EachOnceInOrder, PostedDoWrite
  PROVE  /\ EachOnceInOrder'
         /\ \A t \in AppThreads : Concluded(t)' = Concluded(t)
<1>1. UNCHANGED <<sent, completed>>
  BY DEF PostedDoWrite
<1>2. CASE isWriting
  <2>1. UNCHANGED orderVars
    BY <1>1, <1>2 DEF PostedDoWrite, doWrite, orderVars
  <2>2. \A t \in AppThreads : Concluded(t)' = Concluded(t)
    BY <2>1 DEF orderVars, Concluded, Dequeued
  <2> QED
    BY <2>1, <2>2, OrderUnchanged
<1>3. CASE ~isWriting
  <2>1. inFlight = {} /\ doWrite(FALSE, {})
    BY <1>3 DEF PostedDoWrite, WriteDiscipline, TypeOK
  <2>2. /\ QueuedInOrder' /\ WritingTheNext'
        /\ \A t \in AppThreads : Concluded(t)' = Dequeued(t)
    BY <1>1, <2>1, DoWriteOrder DEF EachOnceInOrder
  <2>3. \A t \in AppThreads : Concluded(t)' = Concluded(t)
    BY <2>1, <2>2, ConcludedIsDequeued
  <2>4. ConcludedOnceInOrder'
    BY <1>1, <2>3 DEF EachOnceInOrder, ConcludedOnceInOrder
  <2> QED
    BY <2>2, <2>3, <2>4 DEF EachOnceInOrder
<1> QED
  BY <1>2, <1>3

LEMMA OrderStep ==
  ASSUME TypeOK, WriteDiscipline, EachOnceInOrder, [Next]_vars
  PROVE  EachOnceInOrder'
<1>1. ASSUME NEW t \in AppThreads, SendEnqueue(t)
      PROVE  EachOnceInOrder'
  BY <1>1, EnqueueOrder
<1>2. CASE PostedDoWrite
  BY <1>2, PostedDoWriteOrder
<1>3. ASSUME NEW ec \in BOOLEAN, NEW w \in inFlight, onWrite(w, ec)
      PROVE  EachOnceInOrder'
  BY <1>3, OnWriteOrder, OnWriteConcludes DEF EachOnceInOrder
<1> QED
  BY <1>1, <1>2, <1>3, OtherStepsKeepOrder, OrderUnchanged
  DEF Next, IOStep, SendStep

(***************************************************************************)
(* Every message handed to send() is queued, being written or concluded,   *)
(* in exactly one of these places, and passes through them in the order in *)
(* which its thread sent it - whatever fails, for any number of threads.   *)
(***************************************************************************)
THEOREM NothingLostOrOvertaken == Spec => []EachOnceInOrder
<1>1. TypeOK /\ WriteDiscipline /\ EachOnceInOrder /\ [Next]_vars => EachOnceInOrder'
  BY OrderStep
<1> QED
  BY <1>1, OrderInit, TypeCorrect, WriteSideDisciplined, PTL DEF Spec

-----------------------------------------------------------------------------
(* The write path implements the outbox.                                   *)

LEMMA OutboxInit == Init => Box!Init
<1> SUFFICES ASSUME Init PROVE Box!Init
  OBVIOUS
<1>1. \A t \in AppThreads : Concluded(t) = 0
  BY DEF Init, Concluded, Dequeued
<1> QED
  BY <1>1 DEF Init, Box!Init

LEMMA OutboxStutters ==
  ASSUME UNCHANGED <<sent, completed>>, \A t \in AppThreads : Concluded(t)' = Concluded(t)
  PROVE  UNCHANGED Box!vars
BY DEF Box!vars

LEMMA OutboxStep ==
  ASSUME TypeOK, WriteDiscipline, EachOnceInOrder, [Next]_vars
  PROVE  [Box!Next]_(Box!vars)
<1>1. ASSUME NEW t \in AppThreads, SendEnqueue(t)
      PROVE  Box!Accept(t)
  <2>1. sent' = [sent EXCEPT ![t] = @ + 1] /\ UNCHANGED completed
    BY <1>1 DEF SendEnqueue, writeVars
  <2>2. \A u \in AppThreads : Concluded(u)' = Concluded(u)
    BY <1>1, EnqueueOrder
  <2> QED
    BY <2>1, <2>2 DEF Box!Accept
<1>2. CASE PostedDoWrite
  BY <1>2, PostedDoWriteOrder, OutboxStutters DEF PostedDoWrite
<1>3. ASSUME NEW ec \in BOOLEAN, NEW w \in inFlight, onWrite(w, ec)
      PROVE  Box!Conclude(sendBuffer.from, ~ec)
  <2> DEFINE u == sendBuffer.from
  <2>1. /\ sendBuffer \in Message
        /\ sendBuffer.seq = Concluded(u) + 1
        /\ \A t \in AppThreads : Dequeued(t) \in Int /\ Concluded(t) \in Int
        /\ \A t \in AppThreads : Dequeued(t) = IF t = u THEN Concluded(t) + 1 ELSE Concluded(t)
    BY NextToConclude
  <2>2. u \in AppThreads /\ sendBuffer = [from |-> u, seq |-> Concluded(u) + 1]
    BY <2>1 DEF Message
  <2>3. \A t \in AppThreads : Concluded(t)' = IF t = u THEN Concluded(t) + 1 ELSE Concluded(t)
    BY <1>3, <2>1, OnWriteOrder
  <2>4. Concluded(u) < sent[u]
    <3>1. Len(sendQueue[u]) \in Nat /\ sent[u] \in Nat
      BY <2>2, LenProperties DEF TypeOK
    <3>2. Dequeued(u) <= sent[u]
      BY <3>1 DEF Dequeued
    <3> QED
      BY <2>1, <2>2, <3>1, <3>2
  <2>5. completed' = Append(completed, [msg |-> [from |-> u, seq |-> Concluded(u) + 1],
                                        ok |-> ~ec])
    BY <1>3, <2>2 DEF onWrite
  <2>6. UNCHANGED sent
    BY <1>3 DEF onWrite
  <2>7. [t \in AppThreads |-> Concluded(t)]'
          = [[t \in AppThreads |-> Concluded(t)] EXCEPT ![u] = @ + 1]
    BY <2>2, <2>3
  <2> QED
    BY <2>2, <2>4, <2>5, <2>6, <2>7 DEF Box!Conclude
<1>4. ASSUME NEW ec \in BOOLEAN, NEW w \in inFlight, onWrite(w, ec)
      PROVE  Box!Next
  <2>1. sendBuffer.from \in AppThreads
    BY NextToConclude DEF Message
  <2>2. (~ec) \in BOOLEAN
    OBVIOUS
  <2> QED
    BY <1>3, <1>4, <2>1, <2>2 DEF Box!Next
<1>5. ASSUME UNCHANGED orderVars
      PROVE  UNCHANGED Box!vars
  <2>1. \A t \in AppThreads : Concluded(t)' = Concluded(t)
    BY <1>5 DEF orderVars, Concluded, Dequeued
  <2> QED
    BY <1>5, <2>1, OutboxStutters DEF orderVars
<1>6. ASSUME NEW t \in AppThreads, SendEnqueue(t)
      PROVE  Box!Next
  BY <1>1, <1>6 DEF Box!Next
<1> QED
  BY <1>2, <1>4, <1>5, <1>6, OtherStepsKeepOrder DEF Next, IOStep, SendStep

(***************************************************************************)
(* The client's write path implements Outbox: send() accepts, onWrite      *)
(* concludes, and every other step of the session is invisible.            *)
(***************************************************************************)
THEOREM ClientImplementsOutbox == Spec => ImplementsOutbox
<1>1. TypeOK /\ WriteDiscipline /\ EachOnceInOrder /\ [Next]_vars => [Box!Next]_(Box!vars)
  BY OutboxStep
<1> QED
  BY <1>1, OutboxInit, TypeCorrect, WriteSideDisciplined, NothingLostOrOvertaken, PTL
  DEF Spec, Box!Spec, ImplementsOutbox

-----------------------------------------------------------------------------
(* Frames.                                                                 *)

\* FramesWhole is inductive once m_receiveBuffer is known to be empty whenever
\* no handler is running.
FramesInv == receiveBuffer = <<>> /\ FramesWhole

\* One more frame at the end.
LEMMA OneMoreFrame ==
  ASSUME NEW n \in Nat, NEW p \in Seq(Seq(Nat)), NEW q \in Seq(Seq(Nat)),
         NEW r, r = p \o q, r = [k \in 1..n |-> <<k>>]
  PROVE  p \o Append(q, <<n + 1>>) = [k \in 1..(n + 1) |-> <<k>>]
<1> DEFINE f == <<n + 1>>
<1>1. f \in Seq(Nat)
  OBVIOUS
<1>2. \A k \in 1..(n + 1) : <<k>> \in Seq(Nat)
  OBVIOUS
<1>3. f = <<n + 1>>
  OBVIOUS
<1> HIDE DEF f
<1>4. r \in Seq(Seq(Nat))
  BY ConcatProperties
<1>5. p \o Append(q, f) = Append(r, f)
  <2> DEFINE T == Seq(Nat)
  <2>1. p \in Seq(T) /\ q \in Seq(T) /\ f \in T
    BY <1>1
  <2> HIDE DEF T
  <2>2. p \o Append(q, f) = Append(p \o q, f)
    BY ONLY <2>1, AppendToConcat
  <2> QED
    BY <2>2
<1>6. Len(r) = n /\ \A k \in 1..n : r[k] = <<k>>
  BY <1>4, LenProperties
<1> DEFINE s == [k \in 1..(n + 1) |-> <<k>>]
<1>7. s \in Seq(Seq(Nat)) /\ Len(s) = n + 1 /\ \A k \in 1..(n + 1) : s[k] = <<k>>
  BY <1>2
<1> HIDE DEF s
<1>8. /\ Append(r, f) \in Seq(Seq(Nat)) /\ Len(Append(r, f)) = n + 1
       /\ \A k \in 1..n : Append(r, f)[k] = <<k>>
       /\ Append(r, f)[n + 1] = f
  BY <1>1, <1>4, <1>6, AppendProperties
<1>9. \A k \in 1..(n + 1) : Append(r, f)[k] = s[k]
  <2> SUFFICES ASSUME NEW k \in 1..(n + 1)
               PROVE  Append(r, f)[k] = s[k]
    OBVIOUS
  <2>1. CASE k \in 1..n
    BY <1>7, <1>8, <2>1
  <2>2. CASE k = n + 1
    BY <1>3, <1>7, <1>8, <2>2
  <2>3. k \in 1..n \/ k = n + 1
    OBVIOUS
  <2> QED
    BY <2>1, <2>2, <2>3
<1>10. Append(r, f) = s
  BY <1>7, <1>8, <1>9, SeqEqual
<1> QED
  BY <1>3, <1>5, <1>10 DEF s

LEMMA FramesStep ==
  ASSUME TypeOK, FramesInv, [Next]_vars
  PROVE  FramesInv'
<1>1. CASE PollMessage
  <2>1. CASE receiveQueue # <<>>
    <3>1. delivered' \o receiveQueue' = delivered \o receiveQueue
      BY <1>1, <2>1, HandOver DEF PollMessage, TypeOK
    <3> QED
      BY <1>1, <3>1 DEF PollMessage, FramesInv, FramesWhole
  <2>2. CASE receiveQueue = <<>>
    BY <1>1, <2>2 DEF PollMessage, FramesInv, FramesWhole
  <2> QED
    BY <2>1, <2>2
<1>2. ASSUME NEW ec \in BOOLEAN, onRead(ec)
      PROVE  FramesInv'
  <2>1. CASE ec
    BY <1>2, <2>1 DEF onRead, readVars, FramesInv, FramesWhole
  <2>2. CASE ~ec
    <3>1. /\ received' = received + 1 /\ delivered' = delivered /\ receiveBuffer' = <<>>
          /\ receiveQueue' = Append(receiveQueue, <<received + 1>>)
      BY <1>2, <2>2 DEF onRead, FramesInv
    <3>2. delivered \o Append(receiveQueue, <<received + 1>>)
            = [n \in 1..(received + 1) |-> <<n>>]
      BY OneMoreFrame DEF TypeOK, FramesInv, FramesWhole
    <3> QED
      BY <3>1, <3>2 DEF FramesInv, FramesWhole
  <2> QED
    BY <2>1, <2>2
<1>3. ASSUME UNCHANGED <<received, receiveBuffer, receiveQueue, delivered>>
      PROVE  FramesInv'
  BY <1>3 DEF FramesInv, FramesWhole
<1>4. ASSUME \/ Poll \/ PollEvent \/ Stop \/ Run \/ RunReturns \/ PostedDoWrite
             \/ UNCHANGED vars
             \/ \E ec \in BOOLEAN : \/ onResolve(ec) \/ onConnect(ec) \/ onHandshake(ec)
                                    \/ \E w \in inFlight : onWrite(w, ec)
             \/ \E t \in AppThreads : SendStep(t)
      PROVE  UNCHANGED <<received, receiveBuffer, receiveQueue, delivered>>
  BY <1>4 DEF Poll, PollEvent, Stop, Run, RunReturns, PostedDoWrite, onResolve,
     onConnect, onHandshake, onWrite, SendStep, SendTest, SendEnqueue, SendPost,
     vars, readVars
<1> QED
  BY <1>1, <1>2, <1>3, <1>4 DEF Next, IOStep, PollStep

(***************************************************************************)
(* Every frame reaches onReceive whole, alone and in order, for any number *)
(* of frames and however poll() interleaves with onRead.                   *)
(***************************************************************************)
THEOREM FramesDeliveredWhole == Spec => []FramesWhole
<1>1. Init => FramesInv
  BY DEF Init, FramesInv, FramesWhole
<1>2. TypeOK /\ FramesInv /\ [Next]_vars => FramesInv'
  BY FramesStep
<1>3. FramesInv => FramesWhole
  BY DEF FramesInv
<1> QED
  BY <1>1, <1>2, <1>3, TypeCorrect, PTL DEF Spec

-----------------------------------------------------------------------------
(* Reports of failures.                                                    *)

\* The events that report a failed write, and the writes that have failed.
WriteReports == {e \in Event : e.MESSAGE_STRING = "write"}
Completion == [msg : Message, ok : BOOLEAN]
FailedWrites == {c \in Completion : ~c.ok}
NumFailed == Cardinality({i \in 1..Len(completed) : ~completed[i].ok})

\* EventLog grows at its end, by what queueFatalEvent reports.
LEMMA ReportAdds ==
  ASSUME TypeOK, NEW what \in Reports, queueFatalEvent(what)
  PROVE  /\ Len(EventLog) \in Nat /\ Reported("write") \in Nat
         /\ Len(EventLog)' = Len(EventLog) + 1
         /\ Reported("write")' = Reported("write") + (IF what = "write" THEN 1 ELSE 0)
<1> DEFINE e == makeEvent("RECEIVER", what)
<1>1. e \in Event
  BY DEF makeEvent, Event, EventKind, EventSourceKind
<1>2. e.MESSAGE_STRING = what
  BY DEF makeEvent
<1> HIDE DEF e
<1>3. reported \in Seq(Event) /\ eventQueue \in Seq(Event)
  BY DEF TypeOK
<1>4. EventLog' = Append(EventLog, e)
  <2>1. reported' = reported /\ eventQueue' = Append(eventQueue, e)
    BY DEF queueFatalEvent, e
  <2>2. reported \o Append(eventQueue, e) = Append(reported \o eventQueue, e)
    BY <1>1, <1>3, AppendToConcat
  <2> QED
    BY <2>1, <2>2 DEF EventLog
<1>5. EventLog \in Seq(Event)
  BY <1>3, ConcatProperties DEF EventLog
<1>6. Append(EventLog, e) \in Seq(Event) /\ Len(Append(EventLog, e)) = Len(EventLog) + 1
  BY <1>1, <1>5, AppendProperties
<1>7. \A s \in Seq(Event) : {i \in 1..Len(s) : s[i].MESSAGE_STRING = "write"}
                              = {i \in 1..Len(s) : s[i] \in WriteReports}
  BY ElementOfSeq DEF WriteReports
<1>8. e \in WriteReports <=> what = "write"
  BY <1>1, <1>2 DEF WriteReports
<1>9. /\ NumIn(EventLog, WriteReports) \in Nat
      /\ NumIn(Append(EventLog, e), WriteReports)
           = NumIn(EventLog, WriteReports) + (IF e \in WriteReports THEN 1 ELSE 0)
  BY <1>1, <1>5, CountAppend
<1>10. Len(EventLog) \in Nat
  BY <1>5, LenProperties
<1>11. Reported("write") = NumIn(EventLog, WriteReports)
  BY <1>5, <1>7 DEF Reported, NumIn
<1>12. Reported("write")' = NumIn(Append(EventLog, e), WriteReports)
  BY <1>4, <1>6, <1>7 DEF Reported, NumIn
<1> QED
  BY <1>4, <1>6, <1>8, <1>9, <1>10, <1>11, <1>12

\* completed grows at its end, by one write that failed or did not.
LEMMA CompletionAdds ==
  ASSUME TypeOK, NEW m \in Message, NEW ok \in BOOLEAN,
         completed' = Append(completed, [msg |-> m, ok |-> ok])
  PROVE  /\ NumFailed \in Nat
         /\ NumFailed' = NumFailed + (IF ok THEN 0 ELSE 1)
<1> DEFINE c == [msg |-> m, ok |-> ok]
<1>1. c \in Completion /\ (c \in FailedWrites <=> ~ok)
  BY DEF Completion, FailedWrites
<1> HIDE DEF c
<1>2. completed \in Seq(Completion)
  BY DEF TypeOK, Completion
<1>3. \A s \in Seq(Completion) : {i \in 1..Len(s) : ~s[i].ok}
                                   = {i \in 1..Len(s) : s[i] \in FailedWrites}
  BY ElementOfSeq DEF FailedWrites
<1>4. completed' = Append(completed, c) /\ Append(completed, c) \in Seq(Completion)
  BY <1>1, <1>2, AppendProperties DEF c
<1>5. /\ NumIn(completed, FailedWrites) \in Nat
      /\ NumIn(Append(completed, c), FailedWrites)
           = NumIn(completed, FailedWrites) + (IF c \in FailedWrites THEN 1 ELSE 0)
  BY <1>1, <1>2, CountAppend
<1>6. NumFailed = NumIn(completed, FailedWrites)
  BY <1>2, <1>3 DEF NumFailed, NumIn
<1>7. NumFailed' = NumIn(Append(completed, c), FailedWrites)
  BY <1>3, <1>4 DEF NumFailed, NumIn
<1> QED
  BY <1>1, <1>5, <1>6, <1>7

\* FailuresReported is inductive once it is known that no chain of operations
\* is under way before run().
ReportInv ==
  /\ ioRun = "notStarted" => chain = "none"
  /\ FailuresReported

reportVars == <<eventQueue, reported, completed, chain, ioRun>>

LEMMA ReportStep ==
  ASSUME TypeOK, WriteDiscipline, ReportInv, [Next]_vars
  PROVE  ReportInv'
<1> DEFINE Ended == IF chain = "none" /\ ioRun # "notStarted" THEN 1 ELSE 0
<1>0. Reported("write") = NumFailed /\ Len(EventLog) - Reported("write") = Ended
  BY DEF ReportInv, FailuresReported, NumFailed
\* An event of the chain: the chain ends with one report of another kind.
<1>1. ASSUME NEW what \in Reports \ {"write"}, queueFatalEvent(what),
             Ended = 0, Ended' = 1, UNCHANGED completed,
             ioRun' # "notStarted"
      PROVE  ReportInv'
  <2>1. /\ Len(EventLog) \in Nat /\ Reported("write") \in Nat
        /\ Len(EventLog)' = Len(EventLog) + 1
        /\ Reported("write")' = Reported("write")
    BY <1>1, ReportAdds
  <2>2. NumFailed' = NumFailed
    BY <1>1 DEF NumFailed
  <2>3. Len(EventLog)' - Reported("write")' = Ended'
    BY <1>0, <1>1, <2>1
  <2> QED
    BY <1>0, <1>1, <2>1, <2>2, <2>3 DEF ReportInv, FailuresReported, NumFailed
\* A step without a report that neither begins run() nor ends the chain.
<1>2. ASSUME EventLog' = EventLog, UNCHANGED completed, Ended' = Ended,
             ioRun' = "notStarted" => chain' = "none"
      PROVE  ReportInv'
  <2>1. Reported("write")' = Reported("write")
    BY <1>2 DEF Reported
  <2>2. NumFailed' = NumFailed
    BY <1>2 DEF NumFailed
  <2> QED
    BY <1>0, <1>2, <2>1, <2>2 DEF ReportInv, FailuresReported, NumFailed
<1>3. CASE Run
  <2>1. CASE ioRun' = "returned" /\ queueFatalEvent("info") /\ UNCHANGED chain
    BY <1>1, <1>3, <2>1 DEF Run, Reports, ReportInv, writeVars
  <2>2. CASE ioRun' = "running" /\ chain' = "resolve" /\ UNCHANGED eventVars
    BY <1>2, <1>3, <2>2 DEF Run, ReportInv, writeVars, eventVars, EventLog
  <2> QED
    BY <1>3, <2>1, <2>2 DEF Run
<1>4. ASSUME NEW ec \in BOOLEAN, onResolve(ec)
      PROVE  ReportInv'
  <2>1. CASE ec
    BY <1>1, <1>4, <2>1 DEF onResolve, HandlersRun, Reports, writeVars
  <2>2. CASE ~ec
    BY <1>2, <1>4, <2>2 DEF onResolve, HandlersRun, writeVars, eventVars, EventLog
  <2> QED
    BY <2>1, <2>2
<1>5. ASSUME NEW ec \in BOOLEAN, onConnect(ec)
      PROVE  ReportInv'
  <2>1. CASE ec
    BY <1>1, <1>5, <2>1 DEF onConnect, HandlersRun, Reports, writeVars
  <2>2. CASE ~ec
    BY <1>2, <1>5, <2>2 DEF onConnect, HandlersRun, writeVars, eventVars, EventLog
  <2> QED
    BY <2>1, <2>2
<1>6. ASSUME NEW ec \in BOOLEAN, onHandshake(ec)
      PROVE  ReportInv'
  <2>1. CASE ec
    BY <1>1, <1>6, <2>1 DEF onHandshake, HandlersRun, Reports, writeVars
  <2>2. CASE ~ec
    BY <1>2, <1>6, <2>2 DEF onHandshake, HandlersRun, writeVars, eventVars, EventLog
  <2> QED
    BY <2>1, <2>2
<1>7. ASSUME NEW ec \in BOOLEAN, onRead(ec)
      PROVE  ReportInv'
  <2>1. CASE ec
    BY <1>1, <1>7, <2>1 DEF onRead, HandlersRun, Reports, writeVars
  <2>2. CASE ~ec
    BY <1>2, <1>7, <2>2 DEF onRead, HandlersRun, writeVars, eventVars, EventLog
  <2> QED
    BY <2>1, <2>2
<1>8. ASSUME NEW ec \in BOOLEAN, NEW w \in inFlight, onWrite(w, ec)
      PROVE  ReportInv'
  <2>1. sendBuffer \in Message
    BY DEF TypeOK, WriteDiscipline, Write
  <2>2. /\ NumFailed \in Nat
        /\ NumFailed' = NumFailed + (IF ~ec THEN 0 ELSE 1)
    <3>1. completed' = Append(completed, [msg |-> sendBuffer, ok |-> ~ec])
      BY <1>8 DEF onWrite
    <3>2. (~ec) \in BOOLEAN
      OBVIOUS
    <3> QED
      BY <2>1, <3>1, <3>2, CompletionAdds
  <2>3. UNCHANGED <<chain, ioRun>>
    BY <1>8 DEF onWrite
  <2>4. CASE ec
    <3>1. queueFatalEvent("write") /\ "write" \in Reports
      BY <1>8, <2>4 DEF onWrite, Reports
    <3>2. /\ Len(EventLog) \in Nat /\ Reported("write") \in Nat
          /\ Len(EventLog)' = Len(EventLog) + 1
          /\ Reported("write")' = Reported("write") + 1
      BY <3>1, ReportAdds
    <3>3. Len(EventLog)' - Reported("write")' = Ended'
      BY <1>0, <2>3, <3>2
    <3>4. Reported("write")' = NumFailed'
      BY <1>0, <2>2, <2>4, <3>2
    <3> QED
      BY <2>3, <3>3, <3>4 DEF ReportInv, FailuresReported, NumFailed
  <2>5. CASE ~ec
    <3>1. EventLog' = EventLog /\ Reported("write")' = Reported("write")
      BY <1>8, <2>5 DEF onWrite, eventVars, EventLog, Reported
    <3>2. NumFailed' = NumFailed
      BY <2>2, <2>5
    <3> QED
      BY <1>0, <2>3, <3>1, <3>2 DEF ReportInv, FailuresReported, NumFailed
  <2> QED
    BY <2>4, <2>5
<1>9. CASE PollEvent
  <2>1. EventLog' = EventLog
    <3>1. CASE eventQueue # <<>>
      BY <1>9, <3>1, HandOver DEF PollEvent, EventLog, TypeOK
    <3>2. CASE eventQueue = <<>>
      BY <1>9, <3>2 DEF PollEvent, EventLog, eventVars
    <3> QED
      BY <3>1, <3>2
  <2> QED
    BY <1>2, <1>9, <2>1 DEF PollEvent, ReportInv, writeVars, ioVars
<1>10. CASE RunReturns
  BY <1>2, <1>10 DEF RunReturns, writeVars, eventVars, EventLog
<1>11. ASSUME UNCHANGED reportVars
       PROVE  ReportInv'
  BY <1>2, <1>11 DEF reportVars, EventLog, ReportInv
<1>12. ASSUME \/ Poll \/ PollMessage \/ Stop \/ PostedDoWrite \/ UNCHANGED vars
              \/ \E t \in AppThreads : SendStep(t)
       PROVE  UNCHANGED reportVars
  BY <1>12 DEF Poll, PollMessage, Stop, PostedDoWrite, SendStep, SendTest, SendEnqueue,
     SendPost, vars, ioVars, writeVars, eventVars, reportVars
<1> QED
  BY <1>3, <1>4, <1>5, <1>6, <1>7, <1>8, <1>9, <1>10, <1>11, <1>12 DEF Next, IOStep, PollStep

(***************************************************************************)
(* Every failure is reported exactly once, however many writes fail and    *)
(* however poll() interleaves with the handlers that report: each failed   *)
(* write in onWrite, the end of the chain of operations in the handler     *)
(* that ended it, or in run() when it never began.                         *)
(***************************************************************************)
THEOREM FailuresReportedOnce == Spec => []FailuresReported
<1>1. Init => ReportInv
  <2> SUFFICES ASSUME Init PROVE ReportInv
    OBVIOUS
  <2>1. /\ completed = <<>> /\ eventQueue = <<>> /\ reported = <<>>
        /\ chain = "none" /\ ioRun = "notStarted"
    BY DEF Init
  <2>2. EventLog = <<>>
    BY <2>1 DEF EventLog
  <2>3. {i \in 1..Len(EventLog) : EventLog[i].MESSAGE_STRING = "write"} = {}
    BY <2>2
  <2>4. {i \in 1..Len(completed) : ~completed[i].ok} = {}
    BY <2>1
  <2>5. Len(EventLog) = 0 /\ Cardinality({}) = 0
    BY <2>2, FS_EmptySet
  <2> QED
    BY <2>1, <2>3, <2>4, <2>5 DEF ReportInv, FailuresReported, Reported
<1>2. TypeOK /\ WriteDiscipline /\ ReportInv /\ [Next]_vars => ReportInv'
  BY ReportStep
<1>3. ReportInv => FailuresReported
  BY DEF ReportInv
<1> QED
  BY <1>1, <1>2, <1>3, TypeCorrect, WriteSideDisciplined, PTL DEF Spec

=============================================================================
