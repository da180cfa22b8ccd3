----------------------------- MODULE LinkProofs -----------------------------
(***************************************************************************)
(* Theorems about Link, for any finite set of senders, any io threads and  *)
(* any bound.  Nothing about the sessions is proved again: a behaviour of  *)
(* Link is one of ClientSession and one of ServerSession, so the theorems  *)
(* about these hold of it.  CP and SP are the sessions with their proofs,  *)
(* instantiated as Link's Client and Server are; the first part shows that *)
(* what Link does is what they do.                                         *)
(***************************************************************************)
EXTENDS Link, SequenceTheorems, FiniteSetTheorems, TLAPS

CP == INSTANCE ClientSessionProofs
        WITH AppThreads <- Senders, MaxFrames <- 0,
             ioRun <- cIoRun, stopped <- cStopped, chain <- cChain, stream <- cStream,
             posted <- cPosted, isWriting <- cIsWriting, sendBuffer <- cSendBuffer,
             inFlight <- cInFlight, completed <- cCompleted, pc <- cPc,
             isEmpty <- cIsEmpty, sendQueue <- cSendQueue, sent <- cSent,
             received <- cReceived, receiveBuffer <- cReceiveBuffer,
             receiveQueue <- cReceiveQueue, delivered <- cDelivered,
             polling <- cPolling, eventQueue <- cEventQueue, reported <- cReported

SP == INSTANCE ServerSessionProofs
        WITH AppThreads <- {}, MaxSends <- 0,
             MaxFrames <- MaxSends * Cardinality(Senders)

-----------------------------------------------------------------------------
(* A behaviour of Link is one of each session.                             *)

USE DEF CP!ioVars, CP!writeVars, CP!sendVars, CP!readVars, CP!eventVars,
        Client!ioVars, Client!writeVars, Client!sendVars, Client!readVars,
        Client!eventVars

LEMMA ClientSends ==
  ASSUME NEW t \in Senders, Client!SendStep(t)
  PROVE  CP!SendStep(t)
BY DEF Client!SendStep, Client!SendTest, Client!SendEnqueue, Client!SendPost,
       Client!SendQueueEmpty, CP!SendStep, CP!SendTest, CP!SendEnqueue,
       CP!SendPost, CP!SendQueueEmpty

LEMMA ClientPolls == Client!PollStep => CP!PollStep
BY DEF Client!PollStep, Client!Poll, Client!PollMessage, Client!PollEvent,
       CP!PollStep, CP!Poll, CP!PollMessage, CP!PollEvent

LEMMA ClientStops == Client!Stop => CP!Stop
BY DEF Client!Stop, CP!Stop

\* What the handlers of the client are built from.
LEMMA ClientParts ==
  /\ Client!HandlersRun <=> CP!HandlersRun
  /\ \A what : Client!queueFatalEvent(what) <=> CP!queueFatalEvent(what)
  /\ \A writing, ops : Client!doWrite(writing, ops) <=> CP!doWrite(writing, ops)
BY DEF Client!HandlersRun, CP!HandlersRun, Client!queueFatalEvent,
       CP!queueFatalEvent, Client!makeEvent, CP!makeEvent, Client!doWrite,
       CP!doWrite, Client!SendQueueEmpty, CP!SendQueueEmpty,
       Client!StreamUsable, CP!StreamUsable

LEMMA ClientRuns ==
  /\ Client!Run => CP!Run
  /\ Client!RunReturns => CP!RunReturns
  /\ Client!PostedDoWrite => CP!PostedDoWrite
BY ClientParts DEF Client!Run, CP!Run, Client!RunReturns, CP!RunReturns,
   Client!OutstandingWork, CP!OutstandingWork, Client!PostedDoWrite, CP!PostedDoWrite

LEMMA ClientHandles ==
  ASSUME NEW ec \in BOOLEAN
  PROVE  /\ Client!onResolve(ec) => CP!onResolve(ec)
         /\ Client!onConnect(ec) => CP!onConnect(ec)
         /\ Client!onHandshake(ec) => CP!onHandshake(ec)
         /\ Client!onRead(ec) => CP!onRead(ec)
         /\ \A w : Client!onWrite(w, ec) => CP!onWrite(w, ec)
BY ClientParts DEF Client!onResolve, CP!onResolve, Client!onConnect, CP!onConnect,
   Client!onHandshake, CP!onHandshake, Client!onRead, CP!onRead, Client!onWrite,
   CP!onWrite

LEMMA ClientIsClient == [Next]_vars => [CP!Next]_(CP!vars)
<1> SUFFICES ASSUME [Next]_vars
             PROVE  [CP!Next]_(CP!vars)
  OBVIOUS
<1>1. CASE ClientStep
  <2>1. CASE Client!Stop \/ Client!PollStep \/ \E t \in Senders : Client!SendStep(t)
    BY <2>1, ClientStops, ClientPolls, ClientSends DEF CP!Next
  <2>2. CASE Client!Run \/ Client!RunReturns \/ Client!PostedDoWrite
    BY <2>2, ClientRuns DEF CP!Next, CP!IOStep
  <2>3. ASSUME NEW ec \in BOOLEAN,
               Client!onResolve(ec) \/ Client!onConnect(ec) \/ Client!onHandshake(ec)
                 \/ Client!onRead(ec)
        PROVE  CP!Next
    BY <2>3, ClientHandles DEF CP!Next, CP!IOStep
  <2> QED
    BY <1>1, <2>1, <2>2, <2>3 DEF ClientStep
<1>2. CASE UNCHANGED clientVars
  BY <1>2 DEF clientVars, CP!vars
<1>4. CASE ClientWritten
  <2>1. PICK w \in cInFlight : Client!onWrite(w, ~taken)
    BY <1>4 DEF ClientWritten
  <2>2. (~taken) \in BOOLEAN
    OBVIOUS
  <2>3. CP!onWrite(w, ~taken)
    BY <2>1, <2>2, ClientHandles
  <2> QED
    BY <2>1, <2>2, <2>3 DEF CP!Next, CP!IOStep
<1>3. Transmit \/ ServerStep \/ ServerPolls \/ (\E h \in IOThreads : ServerReads(h))
        \/ UNCHANGED vars => UNCHANGED clientVars
  BY DEF Transmit, ServerStep, ServerPolls, ServerReads, vars
<1> QED
  BY <1>1, <1>2, <1>3, <1>4 DEF Next

USE DEF SP!netVars, SP!sendVars, SP!writeVars, SP!readVars, SP!eventVars,
        Server!netVars, Server!sendVars, Server!writeVars, Server!readVars,
        Server!eventVars

LEMMA ServerActs ==
  /\ Server!PollStep => SP!PollStep
  /\ Server!Stop => SP!Stop
<1>1. Server!PollStep => SP!PollStep
  BY DEF Server!PollStep, Server!Poll, Server!PollMessage, Server!PollEvent,
         SP!PollStep, SP!Poll, SP!PollMessage, SP!PollEvent
<1>2. Server!Stop => SP!Stop
  BY DEF Server!Stop, SP!Stop
<1> QED
  BY <1>1, <1>2

LEMMA ServerHandles ==
  ASSUME NEW h \in IOThreads, NEW ec \in BOOLEAN
  PROVE  /\ Server!Run(h) => SP!Run(h)
         /\ Server!Called(h) => SP!Called(h)
         /\ Server!onAccept(h, ec) => SP!onAccept(h, ec)
         /\ Server!onRead(h, ec) => SP!onRead(h, ec)
<1>1. \A what : Server!queueFatalEvent(h, what) <=> SP!queueFatalEvent(h, what)
  BY DEF Server!queueFatalEvent, SP!queueFatalEvent, Server!makeEvent, SP!makeEvent
<1>2. Server!Free(h) <=> SP!Free(h)
  BY DEF Server!Free, SP!Free
<1>3. Server!UseStream(h) <=> SP!UseStream(h)
  BY DEF Server!UseStream, SP!UseStream, Server!InStream, SP!InStream
<1>4. Server!FrameRead = SP!FrameRead
  BY DEF Server!FrameRead, SP!FrameRead
<1>5. Server!Run(h) => SP!Run(h)
  BY <1>2 DEF Server!Run, SP!Run
<1>6. Server!Called(h) => SP!Called(h)
  BY <1>3 DEF Server!Called, SP!Called
<1>7. Server!onAccept(h, ec) => SP!onAccept(h, ec)
  BY <1>1, <1>2, <1>3 DEF Server!onAccept, SP!onAccept
<1>8. Server!onRead(h, ec) => SP!onRead(h, ec)
  BY <1>1, <1>2, <1>3, <1>4 DEF Server!onRead, SP!onRead
<1> QED
  BY <1>5, <1>6, <1>7, <1>8

LEMMA ServerIsServer == [Next]_vars => [SP!Next]_(SP!vars)
<1> SUFFICES ASSUME [Next]_vars
             PROVE  [SP!Next]_(SP!vars)
  OBVIOUS
<1>1. CASE ServerStep \/ ServerPolls \/ \E h \in IOThreads : ServerReads(h)
  BY <1>1, ServerActs, ServerHandles DEF ServerStep, ServerPolls, ServerReads, SP!Next, SP!IOStep,
     SP!HandlerStep
<1>2. CASE UNCHANGED serverVars
  BY <1>2 DEF serverVars, SP!vars
<1>3. Transmit \/ ClientStep \/ ClientWritten \/ UNCHANGED vars => UNCHANGED serverVars
  BY DEF Transmit, ClientStep, ClientWritten, vars
<1> QED
  BY <1>1, <1>2, <1>3 DEF Next

LEMMA InitIsInit == Init => CP!Init /\ SP!Init
BY DEF Init, Client!Init, CP!Init, Server!Init, SP!Init, Client!NoMessage,
       CP!NoMessage, Server!NoMessage, SP!NoMessage

LEMMA SpecIsSpecs == Spec => CP!Spec /\ SP!Spec
<1>1. Spec => CP!Spec
  BY InitIsInit, ClientIsClient, PTL DEF Spec, CP!Spec
<1>2. Spec => SP!Spec
  BY InitIsInit, ServerIsServer, PTL DEF Spec, SP!Spec
<1> QED
  BY <1>1, <1>2

\* The bounds of the sessions, as their modules assume them.
LEMMA SessionsBounded == CP!BoundsAssumption /\ SP!BoundsAssumption
BY LinkAssumption, FS_CardinalityType DEF CP!BoundsAssumption, SP!BoundsAssumption

\* What the theorems about the sessions say of Link.
LEMMA SessionsHold ==
  Spec => []( /\ CP!TypeOK /\ CP!WriteDiscipline /\ CP!EachOnceInOrder
              /\ SP!TypeOK /\ (~streamRaced => SP!FramesInv) /\ SP!FramesOnce )
<1>1. CP!Spec => [](CP!TypeOK /\ CP!WriteDiscipline /\ CP!EachOnceInOrder)
  BY SessionsBounded, CP!TypeCorrect, CP!WriteSideDisciplined, CP!NothingLostOrOvertaken, PTL
<1>2. SP!Spec => [](SP!TypeOK /\ (~streamRaced => SP!FramesInv) /\ SP!FramesOnce)
  BY SessionsBounded, SP!FramesApart, SP!FramesKeptOnce, PTL
<1> QED
  BY <1>1, <1>2, SpecIsSpecs, PTL

-----------------------------------------------------------------------------
(* The server that only reads has its stream to itself.                    *)

\* The handlers of the accept/read chain are the only ones there are.
StreamToItself ==
  /\ ~streamRaced
  /\ \A h \in IOThreads : pc[h] = "idle"
  /\ \A g, h \in calling : g = h

LEMMA NobodyMeets ==
  ASSUME StreamToItself, NEW h \in IOThreads, h \in calling \/ calling = {}, SP!UseStream(h)
  PROVE  ~streamRaced'
BY DEF StreamToItself, SP!UseStream, SP!InStream

LEMMA StreamToItselfStep ==
  ASSUME StreamToItself, [Next]_vars
  PROVE  StreamToItself'
<1>1. CASE UNCHANGED <<streamRaced, pc, calling>>
  BY <1>1 DEF StreamToItself
<1>2. CASE Server!PollStep \/ Server!Stop
  BY <1>1, <1>2 DEF Server!PollStep, Server!Poll, Server!PollMessage, Server!PollEvent,
     Server!Stop
<1>3. ASSUME NEW h \in IOThreads, SP!Run(h)
      PROVE  StreamToItself'
  BY <1>3 DEF StreamToItself, SP!Run
<1>4. ASSUME NEW h \in IOThreads, SP!Called(h)
      PROVE  StreamToItself'
  BY <1>4, NobodyMeets DEF StreamToItself, SP!Called
<1>5. ASSUME NEW h \in IOThreads, NEW ec \in BOOLEAN, SP!onAccept(h, ec)
      PROVE  StreamToItself'
  <2>1. ~streamRaced'
    BY <1>5, NobodyMeets DEF SP!onAccept
  <2> QED
    BY <1>5, <2>1 DEF StreamToItself, SP!onAccept
<1>6. ASSUME NEW h \in IOThreads, NEW ec \in BOOLEAN, SP!onRead(h, ec)
      PROVE  StreamToItself'
  <2>1. ~streamRaced'
    BY <1>6, NobodyMeets DEF SP!onRead
  <2> QED
    BY <1>6, <2>1 DEF StreamToItself, SP!onRead
<1>7. CASE ServerStep \/ ServerPolls \/ \E h \in IOThreads : ServerReads(h)
  BY <1>2, <1>3, <1>4, <1>5, <1>6, <1>7, ServerActs, ServerHandles DEF ServerStep, ServerPolls, ServerReads
<1>8. CASE UNCHANGED serverVars
  BY <1>1, <1>8 DEF serverVars
<1>9. Transmit \/ ClientStep \/ ClientWritten \/ UNCHANGED vars => UNCHANGED serverVars
  BY DEF Transmit, ClientStep, ClientWritten, vars
<1> QED
  BY <1>7, <1>8, <1>9 DEF Next

\* In Link the stream of the server is never used by two threads at once.
LEMMA StreamNotShared == Spec => []StreamToItself
<1>1. Init => StreamToItself
  BY DEF Init, Server!Init, StreamToItself
<1> QED
  BY <1>1, StreamToItselfStep, PTL DEF Spec

-----------------------------------------------------------------------------
(* The wire.                                                               *)

\* The messages of one sender are taken in order; each is concluded, but for the
\* one whose write is under way.
WireInOrder ==
  /\ \A i, j \in 1..Len(wire) :
       i < j /\ wire[i].from = wire[j].from => wire[i].seq < wire[j].seq
  /\ \A t \in Senders : \A i \in 1..Len(wire) : wire[i].from = t =>
       \/ wire[i].seq <= CP!Concluded(t)
       \/ taken /\ wire[i] = cSendBuffer

\* What is known to be taken is on the wire.
WireComplete ==
  /\ taken => cInFlight # {} /\ \E i \in 1..Len(wire) : wire[i] = cSendBuffer
  /\ \A j \in 1..Len(cCompleted) :
       cCompleted[j].ok => \E i \in 1..Len(wire) : wire[i] = cCompleted[j].msg

\* What the connection has taken: messages, those of each sender in order, no fewer
\* than the server has read; and what the client knows to be written is among them.
WireInv ==
  /\ wire \in Seq(CP!Message) /\ taken \in BOOLEAN
  /\ received <= Len(wire)
  /\ WireInOrder
  /\ WireComplete
  /\ NoSilentGap

\* The message whose write is under way comes after all those of its thread that
\* are written or reported as failed.
LEMMA EarlierConcluded ==
  ASSUME CP!TypeOK, CP!WriteDiscipline, CP!EachOnceInOrder, cInFlight # {}
  PROVE  /\ cSendBuffer \in CP!Message
         /\ cSendBuffer.seq = CP!Concluded(cSendBuffer.from) + 1
         /\ \A n \in 1..(cSendBuffer.seq - 1) :
              \E j \in 1..Len(cCompleted) :
                cCompleted[j].msg = [cSendBuffer EXCEPT !.seq = n]
<1>1. /\ cSendBuffer \in CP!Message
      /\ cSendBuffer.seq = CP!Concluded(cSendBuffer.from) + 1
      /\ \A t \in Senders : CP!Concluded(t) \in Int
  BY SessionsBounded, CP!NextToConclude
<1>2. PICK t \in Senders, k \in Nat \ {0} : cSendBuffer = [from |-> t, seq |-> k]
  BY <1>1 DEF CP!Message
<1>3. CP!Concluded(t) = k - 1
  BY <1>1, <1>2
<1>4. ASSUME NEW n \in 1..(k - 1)
      PROVE  \E j \in 1..Len(cCompleted) : cCompleted[j].msg = [cSendBuffer EXCEPT !.seq = n]
  <2>1. \E j \in 1..Len(cCompleted) : cCompleted[j].msg = [from |-> t, seq |-> n]
    BY <1>3, <1>4 DEF CP!EachOnceInOrder, CP!ConcludedOnceInOrder
  <2>2. [cSendBuffer EXCEPT !.seq = n] = [from |-> t, seq |-> n]
    BY <1>2
  <2> QED
    BY <2>1, <2>2
<1> QED
  BY <1>1, <1>2, <1>4

\* Transmit closes no gap and opens none: what comes before the new frame has
\* been written, and then it is on the wire, or has failed.
LEMMA TransmitKeepsWire ==
  ASSUME CP!TypeOK, CP!WriteDiscipline, CP!EachOnceInOrder, SP!TypeOK, WireInv, Transmit
  PROVE  WireInv'
<1>1. /\ wire' = Append(wire, cSendBuffer) /\ ~taken /\ taken' = TRUE /\ cInFlight # {}
      /\ UNCHANGED <<received, cCompleted, cInFlight, cSendBuffer, cSent, cSendQueue>>
  BY DEF Transmit, clientVars, serverVars
<1>2. /\ cSendBuffer \in CP!Message
      /\ cSendBuffer.seq = CP!Concluded(cSendBuffer.from) + 1
      /\ \A n \in 1..(cSendBuffer.seq - 1) :
           \E j \in 1..Len(cCompleted) :
             cCompleted[j].msg = [cSendBuffer EXCEPT !.seq = n]
  BY <1>1, EarlierConcluded
<1>3. \A t : CP!Concluded(t)' = CP!Concluded(t)
  BY <1>1 DEF CP!Concluded, CP!Dequeued
<1>4. wire \in Seq(CP!Message) /\ Len(wire) \in Nat
  BY LenProperties DEF WireInv
<1>5. /\ wire' \in Seq(CP!Message) /\ Len(wire') = Len(wire) + 1
      /\ \A i \in 1..Len(wire) : wire'[i] = wire[i]
      /\ wire'[Len(wire) + 1] = cSendBuffer
  BY <1>1, <1>2, <1>4, AppendProperties
<1>6. \A i \in 1..Len(wire') : i \in 1..Len(wire) \/ i = Len(wire) + 1
  BY <1>4, <1>5
<1>7. \A i \in 1..Len(wire) : i \in 1..Len(wire')
  BY <1>4, <1>5
<1>8. \A i \in 1..Len(wire) : wire[i] \in CP!Message
  BY <1>4, ElementOfSeq
<1>9. WireInOrder'
  <2>1. \A t \in Senders : \A i \in 1..Len(wire) :
          wire[i].from = t => wire[i].seq <= CP!Concluded(t)
    BY <1>1 DEF WireInv, WireInOrder
  <2>2. ASSUME NEW i \in 1..Len(wire'), NEW j \in 1..Len(wire'),
               i < j, wire'[i].from = wire'[j].from
        PROVE  wire'[i].seq < wire'[j].seq
    <3>1. i \in 1..Len(wire) /\ wire'[i] = wire[i] /\ wire[i].seq \in Nat
      BY <1>4, <1>5, <1>6, <1>8, <2>2 DEF CP!Message
    <3>2. CASE j \in 1..Len(wire)
      BY <1>5, <2>2, <3>1, <3>2 DEF WireInv, WireInOrder
    <3>3. CASE j = Len(wire) + 1
      <4>1. wire'[j] = cSendBuffer /\ wire[i].seq <= CP!Concluded(cSendBuffer.from)
        BY <1>2, <1>5, <2>1, <2>2, <3>1, <3>3 DEF CP!Message
      <4>2. cSendBuffer.seq \in Nat
        BY <1>2 DEF CP!Message
      <4>3. CP!Concluded(cSendBuffer.from) \in Int
        BY <1>1, <1>2, SessionsBounded, CP!NextToConclude DEF CP!Message
      <4> QED
        BY <1>2, <3>1, <4>1, <4>2, <4>3
    <3> QED
      BY <1>6, <3>2, <3>3
  <2>3. ASSUME NEW t \in Senders, NEW i \in 1..Len(wire'), wire'[i].from = t
        PROVE  \/ wire'[i].seq <= CP!Concluded(t)'
               \/ taken' /\ wire'[i] = cSendBuffer'
    <3>1. CASE i \in 1..Len(wire)
      <4>1. wire'[i] = wire[i] /\ wire[i].seq <= CP!Concluded(t)
        BY <1>5, <2>1, <2>3, <3>1
      <4> QED
        BY <1>3, <4>1
    <3>2. CASE i = Len(wire) + 1
      BY <1>1, <1>5, <3>2
    <3> QED
      BY <1>6, <3>1, <3>2
  <2> QED
    BY <2>2, <2>3 DEF WireInOrder
<1>10. WireComplete'
  <2>1. Len(wire) + 1 \in 1..Len(wire') /\ wire'[Len(wire) + 1] = cSendBuffer'
    BY <1>1, <1>4, <1>5
  <2>2. ASSUME NEW j \in 1..Len(cCompleted), cCompleted[j].ok
        PROVE  \E i \in 1..Len(wire') : wire'[i] = cCompleted[j].msg
    <3>1. PICK i \in 1..Len(wire) : wire[i] = cCompleted[j].msg
      BY <2>2 DEF WireInv, WireComplete
    <3>2. i \in 1..Len(wire') /\ wire'[i] = wire[i]
      BY <1>5, <1>7, <3>1
    <3> QED
      BY <3>1, <3>2
  <2> QED
    BY <1>1, <2>1, <2>2 DEF WireComplete
<1>11. ASSUME NEW i \in 1..Len(wire'), NEW n \in 1..(wire'[i].seq - 1)
       PROVE  \/ \E j \in 1..(i - 1) : wire'[j] = [wire'[i] EXCEPT !.seq = n]
              \/ \E j \in 1..Len(cCompleted) :
                   cCompleted[j] = [msg |-> [wire'[i] EXCEPT !.seq = n], ok |-> FALSE]
  <2>1. CASE i \in 1..Len(wire)
    <3>1. wire'[i] = wire[i] /\ \A j \in 1..(i - 1) : wire'[j] = wire[j]
      BY <1>4, <1>5, <2>1
    <3>2. \/ \E j \in 1..(i - 1) : wire[j] = [wire[i] EXCEPT !.seq = n]
          \/ \E j \in 1..Len(cCompleted) :
               cCompleted[j] = [msg |-> [wire[i] EXCEPT !.seq = n], ok |-> FALSE]
      BY <1>11, <2>1, <3>1 DEF WireInv, NoSilentGap
    <3> QED
      BY <3>1, <3>2
  <2>2. CASE i = Len(wire) + 1
    <3> DEFINE m == [cSendBuffer EXCEPT !.seq = n]
    <3>1. wire'[i] = cSendBuffer
      BY <1>5, <2>2
    <3>2. PICK j \in 1..Len(cCompleted) : cCompleted[j].msg = m
      BY <1>2, <1>11, <3>1
    <3>3. cCompleted[j] \in [msg : CP!Message, ok : BOOLEAN]
      BY <3>2, ElementOfSeq DEF CP!TypeOK
    <3>4. CASE cCompleted[j].ok
      <4>1. PICK k \in 1..Len(wire) : wire[k] = m
        BY <3>2, <3>4 DEF WireInv, WireComplete
      <4>2. k \in 1..(i - 1) /\ wire'[k] = m
        BY <1>4, <1>5, <2>2, <4>1
      <4> QED
        BY <3>1, <4>2
    <3>5. CASE ~cCompleted[j].ok
      <4>1. cCompleted[j] = [msg |-> m, ok |-> FALSE]
        BY <3>2, <3>3, <3>5
      <4> QED
        BY <3>1, <4>1
    <3> QED
      BY <3>4, <3>5
  <2> QED
    BY <1>6, <2>1, <2>2
<1>12. NoSilentGap'
  BY <1>1, <1>11 DEF NoSilentGap
<1>13. received' <= Len(wire') /\ taken' \in BOOLEAN
  BY <1>1, <1>4, <1>5 DEF WireInv, SP!TypeOK
<1> QED
  BY <1>5, <1>9, <1>10, <1>12, <1>13 DEF WireInv

\* Until its write completes, a client step concludes nothing and leaves the
\* message of the write in m_sendBuffer.
LEMMA ClientKeepsOrder ==
  ASSUME CP!TypeOK, CP!WriteDiscipline, CP!EachOnceInOrder, ClientStep
  PROVE  /\ UNCHANGED cCompleted
         /\ \A t \in Senders : CP!Concluded(t)' = CP!Concluded(t)
         /\ cInFlight # {} => UNCHANGED <<cInFlight, cSendBuffer>>
<1>1. CASE \E t \in Senders : CP!SendEnqueue(t)
  BY <1>1, SessionsBounded, CP!EnqueueOrder DEF CP!SendEnqueue
<1>2. CASE CP!PostedDoWrite
  <2>1. UNCHANGED cCompleted /\ \A t \in Senders : CP!Concluded(t)' = CP!Concluded(t)
    BY <1>2, SessionsBounded, CP!PostedDoWriteOrder DEF CP!PostedDoWrite
  <2>2. cInFlight # {} => UNCHANGED <<cInFlight, cSendBuffer>>
    BY <1>2 DEF CP!PostedDoWrite, CP!doWrite, CP!WriteDiscipline
  <2> QED
    BY <2>1, <2>2
<1>3. CASE \/ CP!PollStep \/ CP!Stop \/ CP!Run \/ CP!RunReturns
           \/ \E ec \in BOOLEAN : \/ CP!onResolve(ec) \/ CP!onConnect(ec)
                                  \/ CP!onHandshake(ec) \/ CP!onRead(ec)
           \/ \E t \in Senders : CP!SendTest(t) \/ CP!SendPost(t)
  <2>1. UNCHANGED CP!orderVars
    BY <1>3, SessionsBounded, CP!OtherStepsKeepOrder
  <2>2. UNCHANGED cSendBuffer
    BY <1>3 DEF CP!PollStep, CP!Poll, CP!PollMessage, CP!PollEvent, CP!Stop, CP!Run,
       CP!RunReturns, CP!onResolve, CP!onConnect, CP!onHandshake, CP!onRead,
       CP!SendTest, CP!SendPost
  <2> QED
    BY <2>1, <2>2 DEF CP!orderVars, CP!Concluded, CP!Dequeued
<1>4. \A t \in Senders : Client!SendStep(t) =>
        CP!SendTest(t) \/ CP!SendEnqueue(t) \/ CP!SendPost(t)
  BY ClientSends DEF CP!SendStep
<1> QED
  BY <1>1, <1>2, <1>3, <1>4, ClientPolls, ClientStops, ClientRuns, ClientHandles DEF ClientStep

\* The steps that leave the wire alone.
LEMMA ClientKeepsWire ==
  ASSUME CP!TypeOK, CP!WriteDiscipline, CP!EachOnceInOrder, WireInv, ClientStep
  PROVE  WireInv'
<1>1. UNCHANGED <<wire, taken, received, cCompleted>>
  BY ClientKeepsOrder DEF ClientStep, serverVars, networkVars
<1>2. /\ \A t \in Senders : CP!Concluded(t)' = CP!Concluded(t)
      /\ taken => UNCHANGED <<cInFlight, cSendBuffer>>
  BY ClientKeepsOrder DEF WireInv, WireComplete
<1>6. WireInOrder'
  BY <1>1, <1>2 DEF WireInv, WireInOrder
<1>7. WireComplete' /\ NoSilentGap'
  BY <1>1, <1>2 DEF WireInv, WireComplete, NoSilentGap
<1> QED
  BY <1>1, <1>6, <1>7 DEF WireInv

\* The client records a write as successful only when the connection has taken it.
LEMMA WrittenKeepsWire ==
  ASSUME CP!TypeOK, CP!WriteDiscipline, CP!EachOnceInOrder, WireInv, ClientWritten
  PROVE  WireInv'
<1>1. PICK w \in cInFlight : CP!onWrite(w, ~taken)
  <2>1. (~taken) \in BOOLEAN
    OBVIOUS
  <2> QED
    BY <2>1, ClientHandles DEF ClientWritten
<1>2. UNCHANGED <<wire, received>> /\ taken' = FALSE /\ taken \in BOOLEAN
  BY DEF ClientWritten, serverVars, WireInv
<1>3. /\ cSendBuffer \in CP!Message
      /\ cSendBuffer.seq = CP!Concluded(cSendBuffer.from) + 1
      /\ \A t \in Senders : CP!Dequeued(t) \in Int /\ CP!Concluded(t) \in Int
      /\ \A t \in Senders :
           CP!Dequeued(t) = IF t = cSendBuffer.from THEN CP!Concluded(t) + 1
                              ELSE CP!Concluded(t)
  BY SessionsBounded, CP!NextToConclude
<1>4. \A t \in Senders : CP!Concluded(t)' = CP!Dequeued(t)
  <2>1. (~taken) \in BOOLEAN
    OBVIOUS
  <2> QED
    BY <1>1, <2>1, SessionsBounded, CP!OnWriteOrder
<1>5. \A i \in 1..Len(wire) : wire[i] \in CP!Message
  BY ElementOfSeq DEF WireInv
<1>6. ASSUME NEW t \in Senders, NEW i \in 1..Len(wire), wire[i].from = t
      PROVE  wire[i].seq <= CP!Concluded(t)'
  <2>1. wire[i].seq \in Nat
    BY <1>5 DEF CP!Message
  <2>2. CASE wire[i].seq <= CP!Concluded(t)
    BY <1>3, <1>4, <2>1, <2>2
  <2>3. CASE wire[i] = cSendBuffer
    BY <1>3, <1>4, <1>6, <2>1, <2>3
  <2> QED
    BY <1>6, <2>2, <2>3 DEF WireInv, WireInOrder
<1>7. WireInOrder'
  BY <1>2, <1>6 DEF WireInv, WireInOrder
<1> DEFINE c == [msg |-> cSendBuffer, ok |-> taken]
           C == [msg : CP!Message, ok : BOOLEAN]
<1>8. c \in C /\ c.msg = cSendBuffer /\ c.ok = taken
  BY <1>2, <1>3
<1>9. cCompleted' = Append(cCompleted, [msg |-> cSendBuffer, ok |-> ~~taken])
  BY <1>1 DEF CP!onWrite
<1>10. (~~taken) = taken
  BY <1>2
<1>11. cCompleted \in Seq(C) /\ cCompleted' = Append(cCompleted, c)
  BY <1>9, <1>10 DEF CP!TypeOK
<1> HIDE DEF c, C
<1>12. /\ Len(cCompleted) \in Nat /\ Len(cCompleted') = Len(cCompleted) + 1
       /\ \A j \in 1..Len(cCompleted) : cCompleted'[j] = cCompleted[j]
       /\ cCompleted'[Len(cCompleted) + 1] = c
  BY <1>8, <1>11, AppendProperties, LenProperties
<1>13. \A j \in 1..Len(cCompleted') : j \in 1..Len(cCompleted) \/ j = Len(cCompleted) + 1
  BY <1>12
<1>14. \A j \in 1..Len(cCompleted) : j \in 1..Len(cCompleted')
  BY <1>12
<1>15. \A j \in 1..Len(cCompleted') :
         cCompleted'[j].ok => \E i \in 1..Len(wire) : wire[i] = cCompleted'[j].msg
  BY <1>8, <1>12, <1>13 DEF WireInv, WireComplete
<1>16. WireComplete'
  BY <1>2, <1>15 DEF WireComplete
<1>17. NoSilentGap'
  BY <1>2, <1>12, <1>14 DEF WireInv, NoSilentGap
<1> QED
  BY <1>2, <1>7, <1>16, <1>17 DEF WireInv

\* Every other step reads from the wire, or leaves it alone.
LEMMA WireStep ==
  ASSUME CP!TypeOK, CP!WriteDiscipline, CP!EachOnceInOrder, SP!TypeOK, WireInv, [Next]_vars
  PROVE  WireInv'
<1>1. ASSUME UNCHANGED <<clientVars, networkVars>>, received' <= Len(wire)
      PROVE  WireInv'
  BY <1>1 DEF clientVars, networkVars, WireInv, WireInOrder, WireComplete, NoSilentGap,
     CP!Concluded, CP!Dequeued
<1>2. CASE ServerStep \/ ServerPolls \/ UNCHANGED vars
  <2>1. UNCHANGED <<clientVars, networkVars, received>>
    BY <1>2 DEF ServerStep, ServerPolls, vars, serverVars, Server!Stop, Server!Run,
       Server!Called, Server!onAccept, Server!PollStep, Server!Poll,
       Server!PollMessage, Server!PollEvent
  <2> QED
    BY <1>1, <2>1 DEF WireInv
<1>3. ASSUME NEW h \in IOThreads, ServerReads(h)
      PROVE  WireInv'
  <2>1. UNCHANGED <<clientVars, networkVars>>
    BY <1>3 DEF ServerReads
  <2>2. received' = received \/ (received' = received + 1 /\ received < Len(wire))
    BY <1>3 DEF ServerReads, Server!onRead
  <2>3. received \in Nat /\ Len(wire) \in Nat
    BY LenProperties DEF SP!TypeOK, WireInv
  <2>4. received' <= Len(wire)
    BY <2>2, <2>3 DEF WireInv
  <2> QED
    BY <1>1, <2>1, <2>4
<1> QED
  BY <1>2, <1>3, TransmitKeepsWire, ClientKeepsWire, WrittenKeepsWire DEF Next

\* The wire is in order in every state: WireInv, on top of what is proved of the
\* two sessions.
THEOREM WireOrderly == Spec => []WireInv
<1>1. Init => WireInv
  <2> SUFFICES ASSUME Init PROVE WireInv
    OBVIOUS
  <2>1. wire = <<>> /\ taken = FALSE /\ received = 0 /\ cCompleted = <<>>
    BY DEF Init, Client!Init, Server!Init
  <2>2. wire \in Seq(CP!Message) /\ Len(wire) = 0 /\ Len(cCompleted) = 0
    BY <2>1, EmptySeq
  <2>3. WireInOrder /\ WireComplete
    BY <2>1, <2>2 DEF WireInOrder, WireComplete
  <2>4. NoSilentGap
    BY <2>2 DEF NoSilentGap
  <2>5. taken \in BOOLEAN
    BY <2>1
  <2>6. received <= Len(wire)
    BY <2>1, <2>2
  <2> QED
    BY <2>2, <2>3, <2>4, <2>5, <2>6 DEF WireInv
<1>2. /\ CP!TypeOK /\ CP!WriteDiscipline /\ CP!EachOnceInOrder
      /\ SP!TypeOK /\ WireInv /\ [Next]_vars
      => WireInv'
  BY WireStep
<1> QED
  BY <1>1, <1>2, SessionsHold, PTL DEF Spec

(***************************************************************************)
(* A gap in the stream of a sender's messages has been reported as a       *)
(* failed write, for any number of senders and messages: the client        *)
(* concludes them in order, and calls no write successful that the         *)
(* connection did not take.                                                *)
(***************************************************************************)
THEOREM GapsAreReported == Spec => []NoSilentGap
<1>1. WireInv => NoSilentGap
  BY DEF WireInv
<1> QED
  BY <1>1, WireOrderly, PTL

\* What is on the wire has been handed to send(), once.
LEMMA OnWireIsSent ==
  ASSUME CP!TypeOK, CP!WriteDiscipline, CP!EachOnceInOrder, WireInv, NEW i \in 1..Len(wire)
  PROVE  \E t \in Senders : \E n \in 1..cSent[t] : wire[i] = [from |-> t, seq |-> n]
<1>1. wire[i] \in CP!Message
  BY ElementOfSeq DEF WireInv
<1>2. PICK t \in Senders, n \in Nat \ {0} : wire[i] = [from |-> t, seq |-> n]
  BY <1>1 DEF CP!Message
<1>3. CP!Dequeued(t) \in Int /\ CP!Dequeued(t) <= cSent[t] /\ cSent[t] \in Nat
  <2>1. Len(cSendQueue[t]) \in Nat /\ cSent[t] \in Nat
    BY LenProperties DEF CP!TypeOK
  <2> QED
    BY <2>1 DEF CP!Dequeued
<1>4. CP!Concluded(t) \in Int /\ CP!Concluded(t) <= CP!Dequeued(t)
  BY <1>3 DEF CP!Concluded
<1>5. CASE n <= CP!Concluded(t)
  BY <1>2, <1>3, <1>4, <1>5
<1>6. CASE taken /\ wire[i] = cSendBuffer
  <2>1. cInFlight # {}
    BY <1>6 DEF WireInv, WireComplete
  <2>2. n = CP!Dequeued(t)
    BY <1>2, <1>6, <2>1 DEF CP!WriteDiscipline, CP!EachOnceInOrder, CP!WritingTheNext
  <2> QED
    BY <1>2, <1>3, <2>2
<1>7. wire[i].from = t /\ wire[i].seq = n
  BY <1>2
<1> QED
  BY <1>5, <1>6, <1>7 DEF WireInv, WireInOrder

\* What is on the wire, once and in order, is read once and in order.
LEMMA EndToEndHolds ==
  ASSUME CP!TypeOK, CP!WriteDiscipline, CP!EachOnceInOrder, SP!TypeOK,
         SP!FramesInv, WireInv
  PROVE  EndToEnd
<1>1. /\ Server!FramePlaces = SP!FramePlaces
      /\ \A p : Server!FrameAt(p) = SP!FrameAt(p)
  BY DEF Server!FramePlaces, SP!FramePlaces, Server!FrameAt, SP!FrameAt
<1>2. received \in Nat /\ Len(wire) \in Nat /\ received <= Len(wire)
  BY LenProperties DEF SP!TypeOK, WireInv
<1>3. ASSUME NEW p \in Server!FramePlaces
      PROVE  \E n \in 1..Len(wire) : Server!FrameAt(p) = <<n>> /\ MessageAt(p) = wire[n]
  <2>1. PICK n \in 1..received : Server!FrameAt(p) = <<n>>
    BY <1>1 DEF SP!FramesInv
  <2>2. n \in 1..Len(wire)
    BY <1>2
  <2> QED
    BY <2>1, <2>2 DEF MessageAt
<1>4. \A i, j \in 1..Len(wire) : wire[i] = wire[j] => i = j
  <2> SUFFICES ASSUME NEW i \in 1..Len(wire), NEW j \in 1..Len(wire),
                      i < j, wire[i] = wire[j]
               PROVE  FALSE
    BY <1>2
  <2>1. wire[i] \in CP!Message
    BY ElementOfSeq DEF WireInv
  <2>2. wire[i].seq \in Nat
    BY <2>1 DEF CP!Message
  <2> QED
    BY <2>2 DEF WireInv, WireInOrder
<1>5. ASSUME NEW p \in Server!FramePlaces
      PROVE  \E t \in Senders : \E n \in 1..cSent[t] : MessageAt(p) = [from |-> t, seq |-> n]
  BY <1>3, OnWireIsSent
<1>6. ASSUME NEW p \in Server!FramePlaces, NEW q \in Server!FramePlaces,
             MessageAt(p) = MessageAt(q)
      PROVE  p = q
  <2>1. PICK m \in 1..Len(wire) : Server!FrameAt(p) = <<m>> /\ MessageAt(p) = wire[m]
    BY <1>3
  <2>2. PICK n \in 1..Len(wire) : Server!FrameAt(q) = <<n>> /\ MessageAt(q) = wire[n]
    BY <1>3
  <2>3. m = n
    BY <1>4, <1>6, <2>1, <2>2
  <2>4. SP!FrameAt(p) = SP!FrameAt(q)
    BY <1>1, <2>1, <2>2, <2>3
  <2> QED
    BY <1>1, <2>4 DEF SP!FramesInv
<1>7. ASSUME NEW h \in IOThreads,
             NEW i \in 1..Len(receiveQueue[h]), NEW j \in 1..Len(receiveQueue[h]), i < j,
             MessageAt(<<"queue", h, i>>).from = MessageAt(<<"queue", h, j>>).from
      PROVE  MessageAt(<<"queue", h, i>>).seq < MessageAt(<<"queue", h, j>>).seq
  <2>1. <<"queue", h, i>> \in Server!FramePlaces /\ <<"queue", h, j>> \in Server!FramePlaces
    BY DEF Server!FramePlaces
  <2>2. PICK m \in 1..Len(wire) : /\ Server!FrameAt(<<"queue", h, i>>) = <<m>>
                                  /\ MessageAt(<<"queue", h, i>>) = wire[m]
    BY <1>3, <2>1
  <2>3. PICK n \in 1..Len(wire) : /\ Server!FrameAt(<<"queue", h, j>>) = <<n>>
                                  /\ MessageAt(<<"queue", h, j>>) = wire[n]
    BY <1>3, <2>1
  <2>4. receiveQueue[h][i] = <<m>> /\ receiveQueue[h][j] = <<n>>
    BY <2>2, <2>3 DEF Server!FrameAt
  <2>5. receiveQueue[h][i][1] < receiveQueue[h][j][1]
    BY <1>7 DEF SP!FramesInv
  <2>6. m < n
    BY <2>4, <2>5
  <2> QED
    BY <1>7, <2>2, <2>3, <2>6 DEF WireInv, WireInOrder
<1> QED
  BY <1>5, <1>6, <1>7 DEF EndToEnd

(***************************************************************************)
(* What reaches the server's application are messages that the client's    *)
(* threads have handed to send(), none of them twice and, in an io         *)
(* thread's queue, those of each sender in the order in which it sent      *)
(* them: for any number of senders, messages and io threads.               *)
(***************************************************************************)
THEOREM DeliveredEndToEnd == Spec => []EndToEnd
<1>1. StreamToItself => ~streamRaced
  BY DEF StreamToItself
<1>2. /\ CP!TypeOK /\ CP!WriteDiscipline /\ CP!EachOnceInOrder /\ SP!TypeOK
      /\ (~streamRaced => SP!FramesInv) /\ WireInv /\ StreamToItself
      => EndToEnd
  BY <1>1, EndToEndHolds
<1> QED
  BY <1>2, SessionsHold, StreamNotShared, WireOrderly, PTL

(***************************************************************************)
(* Each frame that the server has read from this client is in one place,   *)
(* whole and alone, and in order within an io thread's queue.              *)
(***************************************************************************)
THEOREM FramesOnceOnLink == Spec => []FramesOnce
<1>1. SP!FramesOnce => FramesOnce
  <2>1. /\ Server!FramePlaces = SP!FramePlaces
        /\ \A p : Server!FrameAt(p) = SP!FrameAt(p)
    BY DEF Server!FramePlaces, SP!FramePlaces, Server!FrameAt, SP!FrameAt
  <2> SUFFICES ASSUME SP!FramesOnce, ~streamRaced
               PROVE  FramesOnce
    BY DEF FramesOnce, Server!FramesOnce
  <2>2. \A n \in 1..received : \E p \in Server!FramePlaces : Server!FrameAt(p) = <<n>>
    BY <2>1 DEF SP!FramesOnce
  <2>3. Server!Cardinality(Server!FramePlaces) = received
    BY <2>1 DEF SP!FramesOnce, Server!Cardinality, SP!Cardinality
  <2>4. \A h \in IOThreads : \A i, j \in 1..Len(receiveQueue[h]) :
          i < j => receiveQueue[h][i][1] < receiveQueue[h][j][1]
    BY DEF SP!FramesOnce
  <2> QED
    BY <2>2, <2>3, <2>4 DEF FramesOnce, Server!FramesOnce
<1> QED
  BY <1>1, SessionsHold, PTL

=============================================================================
