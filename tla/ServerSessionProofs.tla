------------------------- MODULE ServerSessionProofs -------------------------
(***************************************************************************)
(* Theorems about ServerSession, for any sets of application and io        *)
(* threads and any bounds.  Nothing here assumes that io threads do not    *)
(* race; the last part is about runs in which they have not done so yet.   *)
(***************************************************************************)
EXTENDS ServerSession, QueueLemmas, SequenceTheorems, FiniteSetTheorems, TLAPS

-----------------------------------------------------------------------------
(* Type correctness.                                                       *)

\* What a thread moves is a message, and once it is moved the buffer holds
\* something to write, whoever moved last.
MoveTyped ==
  \A h \in IOThreads :
    /\ Assigning(h) => claimed[h] \in Message
    /\ pc[h] \in {"store", "asyncWrite"} => sendBuffer \in Contents

\* makeEvent builds an event, whatever is reported.
LEMMA EventType ==
  ASSUME TypeOK, NEW h \in IOThreads, NEW what \in Reports, queueFatalEvent(h, what)
  PROVE  eventQueue' \in [IOThreads -> Seq(Event)] /\ reported' \in Seq(Event)
<1>1. makeEvent("SLINGER", what) \in Event
  BY DEF makeEvent, Event, EventKind, EventSourceKind
<1>2. Append(eventQueue[h], makeEvent("SLINGER", what)) \in Seq(Event)
  BY <1>1, AppendProperties DEF TypeOK
<1> QED
  BY <1>2 DEF TypeOK, queueFatalEvent

LEMMA TypeInit == Init => TypeOK /\ MoveTyped
<1> SUFFICES ASSUME Init PROVE TypeOK /\ MoveTyped
  OBVIOUS
<1>1. /\ sendQueue \in [AppThreads -> Seq(Message)]
      /\ inFlight \in Seq(Write)
      /\ written \in Seq([msg : Contents, ok : BOOLEAN])
      /\ receiveBuffer \in Seq(Nat)
      /\ receiveQueue \in [IOThreads -> Seq(Seq(Nat))]
      /\ delivered \in Seq(Seq(Nat))
      /\ eventQueue \in [IOThreads -> Seq(Event)] /\ reported \in Seq(Event)
  BY EmptySeq DEF Init
<1>2. pc \in [IOThreads -> PCs] /\ claimed \in [IOThreads -> Message \cup {NoMessage}]
  BY DEF Init, PCs
<1>3. MoveTyped
  BY DEF Init, MoveTyped, Assigning
<1> QED
  BY <1>1, <1>2, <1>3 DEF Init, TypeOK

\* Whether two threads have met in the stream is a truth value.
LEMMA UseType ==
  ASSUME TypeOK, NEW h \in IOThreads, UseStream(h)
  PROVE  streamRaced' \in BOOLEAN
<1>1. (streamRaced \/ \E g \in IOThreads \ {h} : InStream(g)) \in BOOLEAN
  BY Zenon
<1> QED
  BY <1>1 DEF UseStream

\* The steps of send(), of poll() and of the accept/read chain leave doWrite() and
\* onWrite() alone.
LEMMA OutsideType ==
  ASSUME TypeOK, MoveTyped,
         \/ \E t \in AppThreads : SendStep(t)
         \/ PollStep \/ Stop
         \/ \E h \in IOThreads : Run(h) \/ Called(h)
         \/ \E h \in IOThreads, ec \in BOOLEAN : onAccept(h, ec) \/ onRead(h, ec)
  PROVE  TypeOK' /\ MoveTyped'
<1> USE DEF TypeOK
<1>1. ASSUME NEW t \in AppThreads, Send(t) PROVE TypeOK' /\ MoveTyped'
  <2>1. [from |-> t, seq |-> sent[t] + 1] \in Message
    BY DEF Message
  <2>2. Append(sendQueue[t], [from |-> t, seq |-> sent[t] + 1]) \in Seq(Message)
    BY <2>1, AppendProperties
  <2>3. sendQueue' \in [AppThreads -> Seq(Message)]
    BY <1>1, <2>2 DEF Send
  <2> QED
    <3>0. /\ sent' \in [AppThreads -> Nat]
          /\ appPc' \in [AppThreads -> {"idle", "post"}]
      BY <1>1 DEF Send
    <3>1. TypeOK'
      BY <1>1, <2>3, <3>0 DEF Send, netVars, writeVars, readVars, eventVars
    <3>2. MoveTyped'
      BY <1>1 DEF Send, writeVars, MoveTyped, Assigning
    <3> QED
      BY <3>1, <3>2
<1>2. ASSUME NEW t \in AppThreads, SendPost(t) PROVE TypeOK' /\ MoveTyped'
  BY <1>2 DEF SendPost, netVars, readVars, eventVars, MoveTyped, Assigning
<1>3. CASE Poll
  BY <1>3 DEF Poll, netVars, sendVars, writeVars, eventVars, MoveTyped, Assigning
<1>4. CASE PollMessage
  <2>1. delivered' \in Seq(Seq(Nat)) /\ receiveQueue' \in [IOThreads -> Seq(Seq(Nat))]
    <3>1. ASSUME NEW h \in IOThreads, receiveQueue[h] # <<>>,
                 delivered' = Append(delivered, Head(receiveQueue[h])),
                 receiveQueue' = [receiveQueue EXCEPT ![h] = Tail(@)]
          PROVE  delivered' \in Seq(Seq(Nat)) /\ receiveQueue' \in [IOThreads -> Seq(Seq(Nat))]
      <4>1. receiveQueue[h] \in Seq(Seq(Nat))
        OBVIOUS
      <4>2. Head(receiveQueue[h]) \in Seq(Nat) /\ Tail(receiveQueue[h]) \in Seq(Seq(Nat))
        BY <3>1, <4>1, HeadTailProperties
      <4>3. Append(delivered, Head(receiveQueue[h])) \in Seq(Seq(Nat))
        BY <4>2, AppendProperties
      <4> QED
        BY <3>1, <4>2, <4>3
    <3> QED
      BY <1>4, <3>1 DEF PollMessage
  <2>2. polling' \in {"no", "messages", "events"}
    BY <1>4 DEF PollMessage
  <2> QED
    BY <1>4, <2>1, <2>2 DEF PollMessage, netVars, sendVars, writeVars, eventVars,
                            MoveTyped, Assigning
<1>5. CASE PollEvent
  <2>1. eventQueue' \in [IOThreads -> Seq(Event)] /\ reported' \in Seq(Event)
    <3>1. ASSUME NEW h \in IOThreads, eventQueue[h] # <<>>,
                 reported' = Append(reported, Head(eventQueue[h])),
                 eventQueue' = [eventQueue EXCEPT ![h] = Tail(@)]
          PROVE  eventQueue' \in [IOThreads -> Seq(Event)] /\ reported' \in Seq(Event)
      <4>1. eventQueue[h] \in Seq(Event)
        OBVIOUS
      <4>2. Head(eventQueue[h]) \in Event /\ Tail(eventQueue[h]) \in Seq(Event)
        BY <3>1, <4>1, HeadTailProperties
      <4>3. Append(reported, Head(eventQueue[h])) \in Seq(Event)
        BY <4>2, AppendProperties
      <4> QED
        BY <3>1, <4>2, <4>3
    <3> QED
      BY <1>5, <3>1 DEF PollEvent, eventVars
  <2>2. polling' \in {"no", "messages", "events"}
    BY <1>5 DEF PollEvent
  <2> QED
    BY <1>5, <2>1, <2>2 DEF PollEvent, netVars, sendVars, writeVars, MoveTyped, Assigning
<1>6. CASE Stop
  BY <1>6 DEF Stop, sendVars, writeVars, readVars, eventVars, MoveTyped, Assigning
<1>7. ASSUME NEW h \in IOThreads, Run(h) PROVE TypeOK' /\ MoveTyped'
  BY <1>7 DEF Run, sendVars, writeVars, readVars, eventVars, MoveTyped, Assigning
<1>8. ASSUME NEW h \in IOThreads, NEW ec \in BOOLEAN, onAccept(h, ec)
      PROVE  TypeOK' /\ MoveTyped'
  <2>1. eventQueue' \in [IOThreads -> Seq(Event)] /\ reported' \in Seq(Event)
    BY <1>8, EventType DEF onAccept, Reports, eventVars
  <2>2. streamRaced' \in BOOLEAN
    BY <1>8, UseType DEF onAccept
  <2>3. MoveTyped'
    BY <1>8 DEF onAccept, writeVars, MoveTyped, Assigning
  <2> QED
    BY <1>8, <2>1, <2>2, <2>3 DEF onAccept, sendVars, writeVars, readVars
<1>9. ASSUME NEW h \in IOThreads, NEW ec \in BOOLEAN, onRead(h, ec)
      PROVE  TypeOK' /\ MoveTyped'
  <2>1. eventQueue' \in [IOThreads -> Seq(Event)] /\ reported' \in Seq(Event)
    BY <1>9, EventType DEF onRead, Reports, eventVars
  <2>2. /\ received' \in Nat /\ receiveBuffer' \in Seq(Nat)
        /\ receiveQueue' \in [IOThreads -> Seq(Seq(Nat))]
    <3>1. CASE UNCHANGED readVars
      BY <3>1 DEF readVars
    <3>2. ASSUME NEW frame \in FrameRead, received' = received + 1,
                 receiveQueue' = [receiveQueue EXCEPT
                                    ![h] = Append(@, Append(receiveBuffer, frame))],
                 receiveBuffer' = <<>>
          PROVE  /\ received' \in Nat /\ receiveBuffer' \in Seq(Nat)
                 /\ receiveQueue' \in [IOThreads -> Seq(Seq(Nat))]
      <4>0. frame \in Nat
        BY <3>2 DEF FrameRead
      <4>1. Append(receiveBuffer, frame) \in Seq(Nat)
        BY <4>0, AppendProperties
      <4>2. receiveQueue[h] \in Seq(Seq(Nat))
        OBVIOUS
      <4>3. Append(receiveQueue[h], Append(receiveBuffer, frame)) \in Seq(Seq(Nat))
        BY <4>1, <4>2, AppendProperties
      <4> QED
        BY <3>2, <4>3, EmptySeq
    <3> QED
      BY <1>9, <3>1, <3>2 DEF onRead
  <2>3. streamRaced' \in BOOLEAN
    BY <1>9, UseType DEF onRead
  <2>4. MoveTyped'
    BY <1>9 DEF onRead, writeVars, MoveTyped, Assigning
  <2> QED
    BY <1>9, <2>1, <2>2, <2>3, <2>4 DEF onRead, sendVars, writeVars, readVars
<1>10. ASSUME NEW h \in IOThreads, Called(h) PROVE TypeOK' /\ MoveTyped'
  <2>1. streamRaced' \in BOOLEAN
    BY <1>10, UseType DEF Called
  <2>2. MoveTyped'
    BY <1>10 DEF Called, writeVars, MoveTyped, Assigning
  <2> QED
    BY <1>10, <2>1, <2>2 DEF Called, sendVars, writeVars, readVars, eventVars
<1> QED
  BY <1>1, <1>2, <1>3, <1>4, <1>5, <1>6, <1>7, <1>8, <1>9, <1>10 DEF SendStep, PollStep

LEMMA WritingType ==
  ASSUME TypeOK, MoveTyped, NEW h \in IOThreads,
         \/ PostedDoWrite(h) \/ NextDoWrite(h) \/ Dequeue(h) \/ Assign(h)
         \/ StoreWriting(h) \/ AsyncWrite(h) \/ onWrite(h)
         \/ \E ec \in BOOLEAN : Complete(h, ec)
  PROVE  TypeOK' /\ MoveTyped'
<1> USE DEF TypeOK
<1>0. ASSUME TestWriting(h)
      PROVE  /\ pc' \in [IOThreads -> PCs] /\ raced' \in BOOLEAN
             /\ \A g \in IOThreads : pc'[g] \in {"idle", "dequeue"} \/ pc'[g] = pc[g]
  <2>1. pc' = [pc EXCEPT ![h] = "idle"] \/ pc' = [pc EXCEPT ![h] = "dequeue"]
    BY <1>0 DEF TestWriting
  <2>2. raced' \in BOOLEAN
    <3>1. (raced \/ \E g \in IOThreads : InWindow(g)) \in BOOLEAN
      BY Zenon
    <3> QED
      BY <1>0, <3>1 DEF TestWriting
  <2> QED
    BY <2>1, <2>2 DEF PCs
<1>1. CASE PostedDoWrite(h)
  <2>1. posted' \in Nat
    BY <1>1 DEF PostedDoWrite
  <2>2. MoveTyped'
    BY <1>0, <1>1 DEF PostedDoWrite, MoveTyped, Assigning
  <2> QED
    BY <1>0, <1>1, <2>1, <2>2 DEF PostedDoWrite, netVars, sendVars, readVars, eventVars
<1>2. CASE NextDoWrite(h)
  <2>1. MoveTyped'
    BY <1>0, <1>2 DEF NextDoWrite, MoveTyped, Assigning
  <2> QED
    BY <1>0, <1>2, <2>1 DEF NextDoWrite, netVars, sendVars, readVars, eventVars
<1>3. CASE Dequeue(h)
  <2>1. CASE SendQueueEmpty /\ pc' = [pc EXCEPT ![h] = "idle"] /\ UNCHANGED <<claimed, sendQueue>>
    BY <1>3, <2>1 DEF Dequeue, PCs, netVars, readVars, eventVars, MoveTyped, Assigning
  <2>2. ASSUME NEW t \in AppThreads, sendQueue[t] # <<>>,
               claimed' = [claimed EXCEPT ![h] = Head(sendQueue[t])],
               sendQueue' = [sendQueue EXCEPT ![t] = Tail(@)],
               StartAssigning(h)
        PROVE  TypeOK' /\ MoveTyped'
    <3>1. sendQueue[t] \in Seq(Message)
      OBVIOUS
    <3>2. Head(sendQueue[t]) \in Message /\ Tail(sendQueue[t]) \in Seq(Message)
      BY <2>2, <3>1, HeadTailProperties
    <3>3. /\ claimed' \in [IOThreads -> Message \cup {NoMessage}]
          /\ sendQueue' \in [AppThreads -> Seq(Message)]
      BY <2>2, <3>2
    <3>4. pc' \in [IOThreads -> PCs]
      BY <2>2 DEF StartAssigning, PCs
    <3>5. \A g \in IOThreads : g # h =>
            /\ claimed'[g] = claimed[g]
            /\ pc'[g] \in {"assign", "assignRaced"} => Assigning(g)
            /\ pc'[g] \in {"store", "asyncWrite"} => pc'[g] = pc[g]
      BY <2>2 DEF StartAssigning, Assigning
    <3>6. claimed'[h] \in Message /\ pc'[h] \in {"assign", "assignRaced"}
      BY <2>2, <3>2 DEF StartAssigning
    <3>7. sendBuffer' = sendBuffer
      BY <1>3 DEF Dequeue
    <3>8. MoveTyped'
      BY <3>5, <3>6, <3>7 DEF MoveTyped, Assigning
    <3> QED
      BY <1>3, <3>3, <3>4, <3>8 DEF Dequeue, netVars, readVars, eventVars
  <2> QED
    BY <1>3, <2>1, <2>2 DEF Dequeue
<1>4. CASE Assign(h)
  <2>1. sendBuffer' \in Contents
    BY <1>4 DEF Assign, MoveTyped, Assigning, Contents
  <2>2. inFlight' \in Seq(Write)
    <3>1. \A i \in 1..Len(inFlight) : [inFlight[i] EXCEPT !.dangling = TRUE] \in Write
      <4> SUFFICES ASSUME NEW i \in 1..Len(inFlight)
                   PROVE  [inFlight[i] EXCEPT !.dangling = TRUE] \in Write
        OBVIOUS
      <4>1. inFlight[i] \in Write
        BY ElementOfSeq
      <4> QED
        BY <4>1 DEF Write
    <3>2. Len(inFlight) \in Nat
      BY LenProperties
    <3>3. inFlight' \in [1..Len(inFlight) -> Write]
      BY <1>4, <3>1 DEF Assign
    <3> QED
      BY ONLY <3>2, <3>3, SeqDef, SMT
  <2>3. claimed' \in [IOThreads -> Message \cup {NoMessage}] /\ pc' \in [IOThreads -> PCs]
    BY <1>4 DEF Assign, PCs
  <2>4. MoveTyped'
    BY <1>4, <2>1 DEF Assign, MoveTyped, Assigning
  <2>5. sendBuffer' \in Contents \cup {NoMessage}
    BY <2>1
  <2> QED
    <3>1. UNCHANGED <<posted, isWriting, written, raced, netVars, sendVars, readVars, eventVars>>
      BY <1>4 DEF Assign
    <3>2. TypeOK'
      BY <3>1, <2>5, <2>2, <2>3 DEF netVars, sendVars, readVars, eventVars
    <3> QED
      BY <3>2, <2>4
<1>5. CASE StoreWriting(h)
  <2>1. TypeOK'
    BY <1>5 DEF StoreWriting, PCs, netVars, sendVars, readVars, eventVars
  <2>2. MoveTyped'
    BY <1>5 DEF StoreWriting, PCs, MoveTyped, Assigning
  <2> QED
    BY <2>1, <2>2
<1>6. CASE AsyncWrite(h)
  <2> DEFINE op(m) == [msg |-> m, usable |-> stream \in {"handshake", "open"}, dangling |-> FALSE]
  <2>1. PICK m \in {sendBuffer, Torn} : inFlight' = Append(inFlight, op(m))
    BY <1>6 DEF AsyncWrite
  <2>2. sendBuffer \in Contents /\ Torn \in Contents
    BY <1>6 DEF AsyncWrite, MoveTyped, Contents
  <2>3. op(m) \in Write
    BY <2>1, <2>2 DEF Write
  <2>4. inFlight' \in Seq(Write)
    <3> HIDE DEF op
    <3> QED
      BY <2>1, <2>3, AppendProperties
  <2>4a. streamRaced' \in BOOLEAN
    BY <1>6, UseType DEF AsyncWrite
  <2>5. TypeOK'
    BY <1>6, <2>4, <2>4a DEF AsyncWrite, PCs, sendVars, readVars, eventVars
  <2>6. MoveTyped'
    BY <1>6 DEF AsyncWrite, PCs, MoveTyped, Assigning
  <2> QED
    BY <2>5, <2>6
<1>7. CASE onWrite(h)
  <2>1. eventQueue' \in [IOThreads -> Seq(Event)] /\ reported' \in Seq(Event)
    BY <1>7, EventType DEF onWrite, Reports, eventVars
  <2> QED
    <3>0. pc' \in [IOThreads -> PCs] /\ isWriting' \in BOOLEAN
      BY <1>7 DEF onWrite, PCs
    <3>1. TypeOK'
      BY <1>7, <2>1, <3>0 DEF onWrite, netVars, sendVars, readVars
    <3>2. MoveTyped'
      BY <1>7 DEF onWrite, PCs, MoveTyped, Assigning
    <3> QED
      BY <3>1, <3>2
<1>8. ASSUME NEW ec \in BOOLEAN, Complete(h, ec) PROVE TypeOK' /\ MoveTyped'
  <2>1. Head(inFlight) \in Write /\ Tail(inFlight) \in Seq(Write)
    BY <1>8, HeadTailProperties DEF Complete
  <2>2. PICK m \in {Head(inFlight).msg, Torn} : written' = Append(written, [msg |-> m, ok |-> ~ec])
    BY <1>8 DEF Complete
  <2>3. [msg |-> m, ok |-> ~ec] \in [msg : Contents, ok : BOOLEAN]
    <3>1. m \in Contents
      BY <2>1, <2>2 DEF Write, Contents
    <3>2. (~ec) \in BOOLEAN
      OBVIOUS
    <3> QED
      BY <3>1, <3>2
  <2>4. written' \in Seq([msg : Contents, ok : BOOLEAN])
    BY <2>2, <2>3, AppendProperties
  <2>5. inFlight' \in Seq(Write) /\ pc' \in [IOThreads -> PCs]
    BY <1>8, <2>1 DEF Complete, PCs
  <2>6. streamRaced' \in BOOLEAN
    BY <1>8, UseType DEF Complete
  <2>7. MoveTyped'
    BY <1>8 DEF Complete, Free, MoveTyped, Assigning
  <2>8. stream' \in {"closed", "handshake", "open", "failed"}
    BY <1>8 DEF Complete
  <2> QED
    BY <1>8, <2>4, <2>5, <2>6, <2>7, <2>8 DEF Complete, sendVars, readVars, eventVars
<1> QED
  BY <1>1, <1>2, <1>3, <1>4, <1>5, <1>6, <1>7, <1>8

LEMMA TypeStep == TypeOK /\ MoveTyped /\ [Next]_vars => TypeOK' /\ MoveTyped'
<1> SUFFICES ASSUME TypeOK, MoveTyped, [Next]_vars PROVE TypeOK' /\ MoveTyped'
  OBVIOUS
<1>1. CASE Next
  BY <1>1, OutsideType, WritingType DEF Next, IOStep, HandlerStep
<1>2. CASE UNCHANGED vars
  BY <1>2 DEF vars, netVars, sendVars, writeVars, readVars, eventVars, TypeOK,
              MoveTyped, Assigning
<1> QED
  BY <1>1, <1>2

(***************************************************************************)
(* Every reachable state of the session has its types: no io thread puts   *)
(* an empty or missing message into a write, whatever they race for.       *)
(***************************************************************************)
THEOREM TypeCorrect == Spec => []TypeOK
<1>1. Spec => [](TypeOK /\ MoveTyped)
  BY TypeInit, TypeStep, PTL DEF Spec
<1> QED
  BY <1>1, PTL

-----------------------------------------------------------------------------
(* No message is stranded.                                                 *)

\* m_isWriting is set for a write that is about to begin, is outstanding or has
\* just completed: its completion, or that of one begun since, clears it.
FlagHasCause ==
  isWriting => inFlight # <<>> \/ \E h \in IOThreads : pc[h] \in {"asyncWrite", "completed", "failed"}

\* An onWrite that will report a failure comes after a failed write.
FailedKnown == \A h \in IOThreads : pc[h] = "failed" => WriteFailed

StrandInv == FlagHasCause /\ FailedKnown /\ NoStrandedMessage

\* What StrandInv depends on.
strandVars == <<posted, isWriting, inFlight, written, pc, appPc, sendQueue>>

\* A doWrite that returns because m_isWriting is set leaves it to the handler of
\* a write; one that goes on is itself what will look at m_sendQueue.
LEMMA TestStrandsNothing ==
  ASSUME TypeOK, StrandInv, NEW h \in IOThreads, pc[h] \in {"idle", "test"},
         TestWriting(h), UNCHANGED <<isWriting, inFlight, written>>
  PROVE  FlagHasCause' /\ FailedKnown' /\ (WriteFailed' \/ WriteUnderWay')
<1>1. \A g \in IOThreads : g # h => pc'[g] = pc[g]
  BY DEF TestWriting, TypeOK
<1>2. pc'[h] = IF isWriting THEN "idle" ELSE "dequeue"
  BY DEF TestWriting, TypeOK
<1>3. WriteFailed' <=> WriteFailed
  BY DEF WriteFailed
<1>4. FailedKnown'
  BY <1>1, <1>2, <1>3 DEF StrandInv, FailedKnown
<1>5. CASE isWriting
  <2>1. inFlight # <<>> \/ \E g \in IOThreads : g # h /\ pc[g] \in {"asyncWrite", "completed", "failed"}
    BY <1>5 DEF StrandInv, FlagHasCause
  <2>2. FlagHasCause'
    BY <1>1, <2>1 DEF FlagHasCause
  <2>3. WriteFailed \/ WriteUnderWay'
    BY <1>1, <2>1 DEF StrandInv, FailedKnown, WriteUnderWay, PCs
  <2> QED
    BY <1>3, <1>4, <2>2, <2>3
<1>6. CASE ~isWriting
  BY <1>2, <1>4, <1>6 DEF FlagHasCause, WriteUnderWay, PCs
<1> QED
  BY <1>5, <1>6 DEF TypeOK

\* Once a write has failed, it has failed.
LEMMA CompleteRecords ==
  ASSUME TypeOK, NEW h \in IOThreads, NEW ec \in BOOLEAN, Complete(h, ec)
  PROVE  WriteFailed' <=> WriteFailed \/ ec
<1> DEFINE N == Len(written)
           S == [msg : Contents, ok : BOOLEAN]
<1>1. PICK c : written' = Append(written, c) /\ c \in S /\ c.ok = (~ec)
  <2>1. PICK m \in {Head(inFlight).msg, Torn} : written' = Append(written, [msg |-> m, ok |-> ~ec])
    BY DEF Complete
  <2>2. Head(inFlight) \in Write
    BY HeadTailProperties DEF Complete, TypeOK
  <2>3. m \in Contents
    BY <2>1, <2>2 DEF Write, Contents
  <2>4. (~ec) \in BOOLEAN
    OBVIOUS
  <2>5. [msg |-> m, ok |-> ~ec] \in S /\ [msg |-> m, ok |-> ~ec].ok = (~ec)
    BY <2>3, <2>4
  <2> QED
    BY <2>1, <2>5
<1>2. written \in Seq(S) /\ N \in Nat
  BY LenProperties DEF TypeOK
<1> HIDE DEF S
<1>3. /\ Len(written') = N + 1
      /\ \A i \in 1..N : written'[i] = written[i]
      /\ written'[N + 1] = c
  BY <1>1, <1>2, AppendProperties
<1> HIDE DEF N
<1>4. ASSUME WriteFailed PROVE WriteFailed'
  <2>1. PICK i \in 1..N : ~written[i].ok
    BY <1>4 DEF WriteFailed, N
  <2>2. i \in 1..Len(written') /\ ~written'[i].ok
    BY <1>2, <1>3, <2>1
  <2> QED
    BY <2>2 DEF WriteFailed
<1>5. ASSUME ec PROVE WriteFailed'
  <2>1. N + 1 \in 1..Len(written')
    BY <1>2, <1>3
  <2>2. ~written'[N + 1].ok
    BY <1>1, <1>3, <1>5
  <2> QED
    BY <2>1, <2>2 DEF WriteFailed
<1>6. ASSUME WriteFailed', ~ec PROVE WriteFailed
  <2>1. PICK i \in 1..Len(written') : ~written'[i].ok
    BY <1>6 DEF WriteFailed
  <2>2. CASE i = N + 1
    BY <1>1, <1>3, <1>6, <2>1, <2>2
  <2>3. CASE i # N + 1
    <3>1. i \in 1..N /\ ~written[i].ok
      BY <1>2, <1>3, <2>1, <2>3
    <3> QED
      BY <3>1 DEF WriteFailed, N
  <2> QED
    BY <2>2, <2>3
<1> QED
  BY <1>4, <1>5, <1>6

\* The steps of doWrite() past its test, and those of onWrite().
LEMMA WritingStrandsNothing ==
  ASSUME TypeOK, TypeOK', StrandInv, NEW h \in IOThreads,
         \/ Dequeue(h) \/ Assign(h) \/ StoreWriting(h) \/ AsyncWrite(h) \/ onWrite(h)
         \/ \E ec \in BOOLEAN : Complete(h, ec)
  PROVE  StrandInv'
<1>1. CASE Dequeue(h)
  <2>1. UNCHANGED <<isWriting, inFlight, written>> /\ pc[h] = "dequeue"
    BY <1>1 DEF Dequeue
  <2>2. /\ \A g \in IOThreads : pc[g] \in {"asyncWrite", "completed", "failed"} => pc'[g] = pc[g]
        /\ \A g \in IOThreads : pc'[g] = "failed" => pc[g] = "failed"
        /\ SendQueueEmpty' \/ pc'[h] \in {"assign", "assignRaced"}
    <3>1. CASE SendQueueEmpty /\ pc' = [pc EXCEPT ![h] = "idle"] /\ UNCHANGED sendQueue
      BY <2>1, <3>1 DEF TypeOK, SendQueueEmpty
    <3>2. CASE StartAssigning(h)
      BY <2>1, <3>2 DEF TypeOK, StartAssigning, Assigning
    <3> QED
      BY <1>1, <3>1, <3>2 DEF Dequeue
  <2>3. WriteFailed' <=> WriteFailed
    BY <2>1 DEF WriteFailed
  <2>4. FlagHasCause' /\ FailedKnown'
    BY <2>1, <2>2, <2>3 DEF StrandInv, FlagHasCause, FailedKnown
  <2>5. NoStrandedMessage'
    BY <2>2 DEF NoStrandedMessage, WriteUnderWay, PCs
  <2> QED
    BY <2>4, <2>5 DEF StrandInv
<1>2. ASSUME Assign(h) \/ StoreWriting(h) \/ AsyncWrite(h) PROVE StrandInv'
  <2>1. UNCHANGED written /\ (WriteFailed' <=> WriteFailed)
    BY <1>2 DEF Assign, StoreWriting, AsyncWrite, WriteFailed
  <2>2. /\ \A g \in IOThreads : g # h => pc'[g] = pc[g]
        /\ pc[h] \in {"assign", "assignRaced", "store", "asyncWrite"}
        /\ pc'[h] \in {"store", "asyncWrite", "idle"} /\ (pc'[h] = "idle" => AsyncWrite(h))
    <3>1. CASE Assign(h)
      BY <3>1 DEF Assign, Assigning, TypeOK
    <3>2. CASE StoreWriting(h)
      BY <3>2 DEF StoreWriting, TypeOK
    <3>3. CASE AsyncWrite(h)
      <4>1. pc[h] = "asyncWrite" /\ pc' = [pc EXCEPT ![h] = "idle"]
        BY <3>3 DEF AsyncWrite
      <4> QED
        BY <3>3, <4>1 DEF TypeOK
    <3> QED
      BY <1>2, <3>1, <3>2, <3>3
  <2>3. AsyncWrite(h) => inFlight' # <<>>
    <3> SUFFICES ASSUME AsyncWrite(h) PROVE inFlight' # <<>>
      OBVIOUS
    <3>1. PICK w : inFlight' = Append(inFlight, w)
      BY DEF AsyncWrite
    <3>2. Len(inFlight) \in Nat /\ inFlight \in Seq(Write)
      BY LenProperties DEF TypeOK
    <3>3. Len(Append(inFlight, w)) = Len(inFlight) + 1
      BY <3>2
    <3> QED
      BY <3>1, <3>2, <3>3, EmptySeq
  <2>4. inFlight # <<>> => inFlight' # <<>>
    <3>1. CASE Assign(h)
      <4>1. inFlight \in Seq(Write) /\ inFlight' \in Seq(Write) /\ Len(inFlight) \in Nat
        BY LenProperties DEF TypeOK
      <4>2. DOMAIN inFlight' = 1..Len(inFlight)
        BY <3>1 DEF Assign
      <4>3. inFlight # <<>> => Len(inFlight) \in Nat \ {0}
        BY <4>1, EmptySeq
      <4>4. inFlight' = <<>> => DOMAIN inFlight' = 1..0
        BY <4>1, LenProperties
      <4> QED
        BY <4>2, <4>3, <4>4
    <3>2. CASE StoreWriting(h)
      BY <3>2 DEF StoreWriting
    <3> QED
      BY <1>2, <2>3, <3>1, <3>2
  <2>5. FlagHasCause'
    <3>1. CASE AsyncWrite(h)
      BY <2>3, <3>1 DEF FlagHasCause
    <3>2. CASE StoreWriting(h)
      BY <3>2 DEF StoreWriting, FlagHasCause, TypeOK
    <3>3. CASE Assign(h)
      <4>1. isWriting' = isWriting
        BY <3>3 DEF Assign
      <4>2. \A g \in IOThreads : pc[g] \in {"completed", "failed"} => pc'[g] = pc[g]
        BY <2>2
      <4>3. \A g \in IOThreads : pc[g] = "asyncWrite" => pc'[g] = "asyncWrite"
        BY <2>2, <3>3 DEF Assign, Assigning
      <4> QED
        BY <2>4, <4>1, <4>2, <4>3 DEF StrandInv, FlagHasCause
    <3> QED
      BY <1>2, <3>1, <3>2, <3>3
  <2>6. FailedKnown'
    BY <2>1, <2>2 DEF StrandInv, FailedKnown
  <2>7. NoStrandedMessage'
    BY <2>2, <2>3 DEF NoStrandedMessage, WriteUnderWay, PCs
  <2> QED
    BY <2>5, <2>6, <2>7 DEF StrandInv
<1>3. CASE onWrite(h)
  <2>1. WriteFailed' <=> WriteFailed
    BY <1>3 DEF onWrite, WriteFailed
  <2>2. \A g \in IOThreads : g # h => pc'[g] = pc[g]
    BY <1>3 DEF onWrite, TypeOK
  <2>3. \/ pc[h] = "failed" /\ pc'[h] = "idle"
        \/ pc'[h] = "test"
    BY <1>3 DEF onWrite, TypeOK
  <2>4. FlagHasCause'
    BY <1>3 DEF onWrite, FlagHasCause
  <2>5. FailedKnown'
    BY <2>1, <2>2, <2>3 DEF StrandInv, FailedKnown
  <2>6. NoStrandedMessage'
    BY <2>1, <2>3 DEF StrandInv, FailedKnown, NoStrandedMessage, WriteUnderWay, PCs
  <2> QED
    BY <2>4, <2>5, <2>6 DEF StrandInv
<1>4. ASSUME NEW ec \in BOOLEAN, Complete(h, ec) PROVE StrandInv'
  <2>1. WriteFailed' <=> WriteFailed \/ ec
    BY <1>4, CompleteRecords
  <2>2. /\ \A g \in IOThreads : g # h => pc'[g] = pc[g]
        /\ pc'[h] = IF ec THEN "failed" ELSE "completed"
    BY <1>4 DEF Complete, TypeOK
  <2>3. FlagHasCause'
    BY <2>2 DEF FlagHasCause
  <2>4. FailedKnown'
    BY <2>1, <2>2 DEF StrandInv, FailedKnown
  <2>5. NoStrandedMessage'
    BY <2>1, <2>2 DEF NoStrandedMessage, WriteUnderWay, PCs
  <2> QED
    BY <2>3, <2>4, <2>5 DEF StrandInv
<1> QED
  BY <1>1, <1>2, <1>3, <1>4

LEMMA StrandInit == Init => StrandInv
BY DEF Init, StrandInv, FlagHasCause, FailedKnown, NoStrandedMessage, SendQueueEmpty

LEMMA StrandStep ==
  ASSUME TypeOK, TypeOK', StrandInv, [Next]_vars
  PROVE  StrandInv'
<1>1. ASSUME NEW t \in AppThreads, Send(t) PROVE StrandInv'
  <2>1. UNCHANGED <<isWriting, inFlight, written, pc>> /\ appPc'[t] = "post"
    BY <1>1 DEF Send, writeVars, TypeOK
  <2> QED
    BY <2>1 DEF StrandInv, FlagHasCause, FailedKnown, NoStrandedMessage, WriteFailed,
                WriteUnderWay
<1>2. ASSUME NEW t \in AppThreads, SendPost(t) PROVE StrandInv'
  <2>1. UNCHANGED <<isWriting, inFlight, written, pc>> /\ posted' > 0
    BY <1>2 DEF SendPost, TypeOK
  <2> QED
    BY <2>1 DEF StrandInv, FlagHasCause, FailedKnown, NoStrandedMessage, WriteFailed,
                WriteUnderWay
<1>3. ASSUME NEW h \in IOThreads, PostedDoWrite(h) \/ NextDoWrite(h) PROVE StrandInv'
  <2>1. /\ pc[h] \in {"idle", "test"} /\ TestWriting(h)
        /\ UNCHANGED <<isWriting, inFlight, written, sendQueue>>
    BY <1>3 DEF PostedDoWrite, NextDoWrite, Free, sendVars
  <2> QED
    BY <2>1, TestStrandsNothing DEF StrandInv, NoStrandedMessage
<1>4. ASSUME NEW h \in IOThreads,
             \/ Dequeue(h) \/ Assign(h) \/ StoreWriting(h) \/ AsyncWrite(h) \/ onWrite(h)
             \/ \E ec \in BOOLEAN : Complete(h, ec)
      PROVE  StrandInv'
  BY <1>4, WritingStrandsNothing
<1>5. ASSUME UNCHANGED strandVars PROVE StrandInv'
  BY <1>5 DEF strandVars, StrandInv, FlagHasCause, FailedKnown, NoStrandedMessage, WriteFailed,
              WriteUnderWay, SendQueueEmpty
<1>6. ASSUME \/ PollStep \/ Stop \/ UNCHANGED vars
             \/ \E h \in IOThreads : Run(h) \/ Called(h)
             \/ \E h \in IOThreads, ec \in BOOLEAN : onAccept(h, ec) \/ onRead(h, ec)
      PROVE  UNCHANGED strandVars
  BY <1>6 DEF PollStep, Poll, PollMessage, PollEvent, Stop, Run, Called, onAccept, onRead,
              strandVars, vars, writeVars, sendVars
<1> QED
  BY <1>1, <1>2, <1>3, <1>4, <1>5, <1>6 DEF Next, SendStep, IOStep, HandlerStep

(***************************************************************************)
(* Whatever the io threads race for, a message is left in m_sendQueue with *)
(* nothing to take it only after a write has failed.                       *)
(***************************************************************************)
THEOREM NothingStranded == Spec => []NoStrandedMessage
<1>1. TypeOK /\ TypeOK' /\ StrandInv /\ [Next]_vars => StrandInv'
  BY StrandStep
<1>2. Spec => []StrandInv
  BY <1>1, StrandInit, TypeCorrect, PTL DEF Spec
<1>3. StrandInv => NoStrandedMessage
  BY DEF StrandInv
<1> QED
  BY <1>2, <1>3, PTL

-----------------------------------------------------------------------------
(* One write at a time, in order, until two threads race.                  *)

\* The messages between m_sendQueue and written.
Hand ==
  {claimed[h] : h \in {g \in IOThreads : Assigning(g)}}
    \cup {m \in {sendBuffer} : \E h \in IOThreads : pc[h] \in {"store", "asyncWrite"}}
    \cup {m \in {Head(inFlight).msg} : inFlight # <<>>}

\* A message in hand is the last of its thread to have left m_sendQueue.
HandIsNext == \A m \in Hand : m \in Message /\ m.seq = Dequeued(m.from)

QueuedInOrder ==
  \A t \in AppThreads : \A i \in 1..Len(sendQueue[t]) :
    sendQueue[t][i] = [from |-> t, seq |-> Dequeued(t) + i]

InOrder == QueuedInOrder /\ HandIsNext /\ WrittenInOrder

Calm == \A h \in IOThreads : pc[h] # "assignRaced"

OneAtATime == OneWriter /\ BufferKept /\ Calm

LEMMA InHandIsHand == \A t : InHand(t) <=> \E m \in Hand : m.from = t
BY DEF InHand, Hand

LEMMA InHandIsHandNext == (\A t : InHand(t) <=> \E m \in Hand : m.from = t)'
BY InHandIsHand, PTL

\* A thread in doWrite() or about to clear m_isWriting is the only one, and no
\* write is outstanding.
LEMMA WriterAlone ==
  ASSUME TypeOK, OneAtATime, NEW h \in IOThreads, pc[h] \notin {"idle", "test"}
  PROVE  /\ inFlight = <<>>
         /\ \A g \in IOThreads : g # h => pc[g] \in {"idle", "test"}
         /\ Hand = IF pc[h] = "assign" THEN {claimed[h]}
                   ELSE IF pc[h] \in {"store", "asyncWrite"} THEN {sendBuffer}
                   ELSE {}
<1>1. h \in Writers
  BY DEF Writers
<1>2. inFlight = <<>>
  BY <1>1 DEF OneAtATime, OneWriter
<1>3. \A g \in IOThreads : g # h => pc[g] \in {"idle", "test"}
  BY <1>1 DEF OneAtATime, OneWriter, Writers
<1>4. {claimed[g] : g \in {k \in IOThreads : Assigning(k)}}
        = IF pc[h] = "assign" THEN {claimed[h]} ELSE {}
  BY <1>3 DEF OneAtATime, Calm, Assigning
<1>5. {m \in {sendBuffer} : \E g \in IOThreads : pc[g] \in {"store", "asyncWrite"}}
        = IF pc[h] \in {"store", "asyncWrite"} THEN {sendBuffer} ELSE {}
  BY <1>3
<1> QED
  BY <1>2, <1>3, <1>4, <1>5 DEF Hand

\* The order depends on the queue, the history and what is in hand.
LEMMA OrderKept ==
  ASSUME InOrder, UNCHANGED <<sendQueue, sent, written, Hand>>
  PROVE  InOrder'
<1>1. \A t \in AppThreads : Dequeued(t)' = Dequeued(t)
  BY DEF Dequeued
<1>2. \A t \in AppThreads : Concluded(t)' = Concluded(t)
  <2>1. \A t \in AppThreads : InHand(t)' <=> InHand(t)
    BY InHandIsHand, InHandIsHandNext
  <2> QED
    BY <1>1, <2>1 DEF Concluded
<1>3. QueuedInOrder'
  BY <1>1 DEF InOrder, QueuedInOrder
<1>4. HandIsNext'
  <2> SUFFICES ASSUME NEW m \in Hand PROVE m \in Message /\ m.seq = Dequeued(m.from)'
    BY DEF HandIsNext
  <2>1. m \in Message /\ m.seq = Dequeued(m.from) /\ m.from \in AppThreads
    BY DEF InOrder, HandIsNext, Message
  <2> QED
    BY <1>1, <2>1
<1>5. WrittenInOrder'
  BY <1>2 DEF InOrder, WrittenInOrder
<1> QED
  BY <1>3, <1>4, <1>5 DEF InOrder

\* What OneAtATime depends on, besides raced.
flagVars == <<pc, isWriting, inFlight, sendBuffer, claimed>>

LEMMA FlagVarsKept ==
  ASSUME OneAtATime, UNCHANGED flagVars
  PROVE  OneAtATime' /\ UNCHANGED Hand
BY DEF OneAtATime, OneWriter, BufferKept, Calm, Writers, Hand, Assigning, flagVars

\* A doWrite() that passes the test, with no other past it, is the only writer.
LEMMA TestKeepsOne ==
  ASSUME TypeOK, OneAtATime, NEW h \in IOThreads, pc[h] \in {"idle", "test"},
         TestWriting(h), UNCHANGED <<isWriting, inFlight, sendBuffer, claimed>>, ~raced'
  PROVE  OneAtATime' /\ UNCHANGED Hand
<1>1. \A g \in IOThreads : g # h => pc'[g] = pc[g]
  BY DEF TestWriting, TypeOK
<1>2. pc'[h] = IF isWriting THEN "idle" ELSE "dequeue"
  BY DEF TestWriting, TypeOK
<1>3. UNCHANGED Hand
  <2>1. \A g \in IOThreads : Assigning(g)' <=> Assigning(g)
    BY <1>1, <1>2 DEF Assigning
  <2>2. (\E g \in IOThreads : pc'[g] \in {"store", "asyncWrite"})
          <=> (\E g \in IOThreads : pc[g] \in {"store", "asyncWrite"})
    BY <1>1, <1>2
  <2>3. {g \in IOThreads : Assigning(g)}' = {g \in IOThreads : Assigning(g)}
    BY <2>1
  <2> QED
    BY <2>2, <2>3 DEF Hand
<1>4. Calm' /\ BufferKept'
  BY <1>1, <1>2 DEF OneAtATime, Calm, BufferKept
<1>5. CASE isWriting
  <2>1. Writers' = Writers
    BY <1>1, <1>2, <1>5 DEF Writers
  <2>2. (\E g \in IOThreads : pc'[g] \in {"asyncWrite", "completed", "failed"})
          <=> (\E g \in IOThreads : pc[g] \in {"asyncWrite", "completed", "failed"})
    BY <1>1, <1>2, <1>5
  <2>3. OneWriter'
    BY <2>1, <2>2 DEF OneAtATime, OneWriter
  <2> QED
    BY <1>3, <1>4, <2>3 DEF OneAtATime
<1>6. CASE ~isWriting
  <2>1. ~\E g \in IOThreads : InWindow(g)
    BY <1>6 DEF TestWriting
  <2>2. /\ inFlight = <<>>
        /\ \A g \in IOThreads : pc[g] \notin {"asyncWrite", "completed", "failed"}
    BY <1>6 DEF OneAtATime, OneWriter
  <2>3. \A g \in IOThreads : pc[g] \in {"idle", "test"}
    BY <2>1, <2>2 DEF InWindow, TypeOK, PCs
  <2>4. Writers' = {h} /\ inFlight' = <<>> /\ ~isWriting'
    BY <1>1, <1>2, <1>6, <2>2, <2>3 DEF Writers
  <2>5. \A g \in IOThreads : pc'[g] \notin {"asyncWrite", "completed", "failed"}
    BY <1>1, <1>2, <1>6, <2>2
  <2>6. OneWriter'
    BY <2>4, <2>5 DEF OneWriter
  <2> QED
    BY <1>3, <1>4, <2>6 DEF OneAtATime
<1> QED
  BY <1>5, <1>6 DEF TypeOK

\* The steps that carry the claimed message to the stream.
LEMMA CarryKeepsOne ==
  ASSUME TypeOK, OneAtATime, NEW h \in IOThreads,
         Assign(h) \/ StoreWriting(h) \/ AsyncWrite(h) \/ onWrite(h)
  PROVE  OneAtATime' /\ UNCHANGED Hand
<1> USE DEF TypeOK
<1>1. CASE Assign(h)
  <2>1. pc[h] = "assign" /\ sendBuffer' = claimed[h] /\ pc' = [pc EXCEPT ![h] = "store"]
    BY <1>1 DEF Assign, Assigning, OneAtATime, Calm
  <2>2. inFlight = <<>> /\ (\A g \in IOThreads : g # h => pc[g] \in {"idle", "test"})
        /\ Hand = {claimed[h]}
    BY <2>1, WriterAlone
  <2>3. inFlight' = <<>>
    <3>1. inFlight' = [i \in 1..0 |-> [inFlight[i] EXCEPT !.dangling = TRUE]]
      BY <1>1, <2>2 DEF Assign
    <3>2. 1..0 = {}
      OBVIOUS
    <3> QED
      BY <3>1, <3>2
  <2>4. Writers' = {h}
    BY <2>1, <2>2 DEF Writers
  <2>5. ~isWriting /\ isWriting' = isWriting
    BY <1>1, <2>1, <2>2 DEF Assign, OneAtATime, OneWriter
  <2>6. \A g \in IOThreads : pc'[g] \notin {"asyncWrite", "completed", "failed"} /\ ~Assigning(g)'
    BY <2>1, <2>2 DEF Assigning
  <2>7. OneAtATime'
    BY <2>3, <2>4, <2>5, <2>6 DEF OneAtATime, OneWriter, BufferKept, Calm, Assigning
  <2>8. Hand' = {sendBuffer'}
    <3>1. pc'[h] = "store"
      BY <2>1
    <3> QED
      BY <2>3, <2>6, <3>1 DEF Hand
  <2> QED
    BY <2>1, <2>2, <2>7, <2>8
<1>2. CASE StoreWriting(h)
  <2>1. pc[h] = "store" /\ pc' = [pc EXCEPT ![h] = "asyncWrite"] /\ isWriting' = TRUE
        /\ UNCHANGED <<inFlight, sendBuffer>>
    BY <1>2 DEF StoreWriting
  <2>2. inFlight = <<>> /\ (\A g \in IOThreads : g # h => pc[g] \in {"idle", "test"})
        /\ Hand = {sendBuffer}
    BY <2>1, WriterAlone
  <2>3. Writers' = {h} /\ pc'[h] = "asyncWrite" /\ inFlight' = <<>>
    BY <2>1, <2>2 DEF Writers
  <2>4. \A g \in IOThreads : ~Assigning(g)'
    BY <2>1, <2>2 DEF Assigning
  <2>5. OneAtATime'
    BY <2>1, <2>3, <2>4 DEF OneAtATime, OneWriter, BufferKept, Calm, Assigning
  <2>6. Hand' = {sendBuffer'}
    BY <2>3, <2>4 DEF Hand
  <2> QED
    BY <2>1, <2>2, <2>5, <2>6
<1>3. CASE AsyncWrite(h)
  <2> DEFINE w == [msg |-> sendBuffer, usable |-> stream \in {"handshake", "open"},
                   dangling |-> FALSE]
  <2>1. pc[h] = "asyncWrite" /\ pc' = [pc EXCEPT ![h] = "idle"]
        /\ UNCHANGED <<isWriting, sendBuffer>>
    BY <1>3 DEF AsyncWrite
  <2>2. inFlight = <<>> /\ (\A g \in IOThreads : g # h => pc[g] \in {"idle", "test"})
        /\ Hand = {sendBuffer}
    BY <2>1, WriterAlone
  <2>3. ~\E g \in IOThreads : Assigning(g)
    BY <2>1, <2>2 DEF Assigning
  <2>4. inFlight' = Append(<<>>, w)
    BY <1>3, <2>2, <2>3 DEF AsyncWrite
  <2>5. Len(inFlight') = 1 /\ Head(inFlight') = w /\ inFlight' # <<>>
    BY <2>4
  <2>6. Writers' = {} /\ isWriting'
    BY <2>1, <2>2 DEF Writers, OneAtATime, OneWriter
  <2>7. \A g \in IOThreads : pc'[g] \in {"idle", "test"}
    BY <2>1, <2>2
  <2>8. OneWriter'
    BY <2>5, <2>6 DEF OneWriter
  <2>9. Head(inFlight').msg = sendBuffer' /\ ~Head(inFlight').dangling
    BY <2>1, <2>5
  <2>10. OneAtATime'
    BY <2>7, <2>8, <2>9 DEF OneAtATime, BufferKept, Calm
  <2>11. Hand' = {sendBuffer'}
    <3> HIDE DEF w
    <3> QED
      BY <2>5, <2>7, <2>9 DEF Hand, Assigning
  <2> QED
    BY <2>1, <2>2, <2>10, <2>11
<1>4. CASE onWrite(h)
  <2>1. pc[h] \in {"completed", "failed"} /\ isWriting' = FALSE
        /\ UNCHANGED <<inFlight, sendBuffer>>
        /\ (pc' = [pc EXCEPT ![h] = "idle"] \/ pc' = [pc EXCEPT ![h] = "test"])
    BY <1>4 DEF onWrite
  <2>2. inFlight = <<>> /\ (\A g \in IOThreads : g # h => pc[g] \in {"idle", "test"})
        /\ Hand = {}
    BY <2>1, WriterAlone
  <2>3. \A g \in IOThreads : pc'[g] \in {"idle", "test"}
    BY <2>1, <2>2
  <2>4. Writers' = {} /\ inFlight' = <<>>
    BY <2>1, <2>2, <2>3 DEF Writers
  <2>5. OneAtATime'
    BY <2>1, <2>3, <2>4 DEF OneAtATime, OneWriter, BufferKept, Calm
  <2>6. Hand' = {}
    BY <2>3, <2>4 DEF Hand, Assigning
  <2> QED
    BY <2>2, <2>5, <2>6
<1> QED
  BY <1>1, <1>2, <1>3, <1>4

\* What a claim does to the order: the head of one thread's queue is in hand and
\* nothing else is.
LEMMA ClaimKeepsOrder ==
  ASSUME TypeOK, InOrder, UNCHANGED <<sent, written>>, Hand = {},
         NEW u \in AppThreads, sendQueue[u] # <<>>, Hand' = {Head(sendQueue[u])},
         sendQueue' = [sendQueue EXCEPT ![u] = Tail(@)]
  PROVE  InOrder'
<1> USE DEF TypeOK
<1>1. \A t \in AppThreads : Len(sendQueue[t]) \in Nat /\ sent[t] \in Nat /\ Dequeued(t) \in Int
  BY LenProperties DEF Dequeued
<1>2. /\ sendQueue'[u] = Tail(sendQueue[u])
      /\ \A t \in AppThreads : t # u => sendQueue'[t] = sendQueue[t]
  OBVIOUS
<1>3. /\ Head(sendQueue[u]) \in Message
      /\ Len(Tail(sendQueue[u])) = Len(sendQueue[u]) - 1
      /\ \A i \in 1..Len(Tail(sendQueue[u])) : Tail(sendQueue[u])[i] = sendQueue[u][i + 1]
  BY HeadTailProperties
<1>4. Len(sendQueue[u]) > 0
  BY <1>1, EmptySeq
<1>5. Dequeued(u)' = Dequeued(u) + 1
  <2>1. sent[u] - (Len(sendQueue[u]) - 1) = (sent[u] - Len(sendQueue[u])) + 1
    BY <1>1
  <2> QED
    BY <1>2, <1>3, <2>1 DEF Dequeued
<1>6. ASSUME NEW t \in AppThreads, t # u PROVE Dequeued(t)' = Dequeued(t)
  BY <1>2, <1>6 DEF Dequeued
<1>7. Head(sendQueue[u]) = [from |-> u, seq |-> Dequeued(u) + 1]
  <2>1. Head(sendQueue[u]) = sendQueue[u][1]
    OBVIOUS
  <2> QED
    BY <1>1, <1>4, <2>1 DEF InOrder, QueuedInOrder
<1>8. QueuedInOrder'
  <2> SUFFICES ASSUME NEW t \in AppThreads, NEW i \in 1..Len(sendQueue'[t])
               PROVE  sendQueue'[t][i] = [from |-> t, seq |-> Dequeued(t)' + i]
    BY DEF QueuedInOrder
  <2>1. CASE t # u
    BY <1>2, <1>6, <2>1 DEF InOrder, QueuedInOrder
  <2>2. CASE t = u
    <3>1. i \in Nat /\ i + 1 \in 1..Len(sendQueue[u]) /\ sendQueue'[u][i] = sendQueue[u][i + 1]
      BY <1>1, <1>2, <1>3, <2>2
    <3>2. sendQueue[u][i + 1] = [from |-> u, seq |-> Dequeued(u) + (i + 1)]
      BY <3>1 DEF InOrder, QueuedInOrder
    <3>3. Dequeued(u)' + i = Dequeued(u) + (i + 1)
      BY <1>1, <1>5, <3>1
    <3> QED
      BY <2>2, <3>1, <3>2, <3>3
  <2> QED
    BY <2>1, <2>2
<1>9. HandIsNext'
  <2> SUFFICES ASSUME NEW m \in Hand' PROVE m \in Message /\ m.seq = Dequeued(m.from)'
    BY DEF HandIsNext
  <2>1. m = [from |-> u, seq |-> Dequeued(u) + 1] /\ m \in Message
    BY <1>3, <1>7
  <2>2. m.from = u /\ m.seq = Dequeued(u) + 1
    BY <2>1
  <2> QED
    BY <1>5, <2>1, <2>2
<1>10. ASSUME NEW t \in AppThreads PROVE Concluded(t)' = Concluded(t)
  <2>1. ~InHand(t)
    BY InHandIsHand
  <2>2. InHand(t)' <=> t = u
    <3>1. Head(sendQueue[u]).from = u
      BY <1>7
    <3> QED
      BY <3>1, InHandIsHandNext
  <2>3. Dequeued(t) \in Int
    BY <1>1
  <2>4. CASE t = u
    BY <1>5, <2>1, <2>2, <2>3, <2>4 DEF Concluded
  <2>5. CASE t # u
    BY <1>6, <2>1, <2>2, <2>3, <2>5 DEF Concluded
  <2> QED
    BY <2>4, <2>5
<1>11. WrittenInOrder'
  BY <1>10 DEF InOrder, WrittenInOrder
<1> QED
  BY <1>8, <1>9, <1>11 DEF InOrder

LEMMA DequeueKeepsOrder ==
  ASSUME TypeOK, OneAtATime, NEW h \in IOThreads, Dequeue(h)
  PROVE  OneAtATime' /\ (InOrder => InOrder')
<1> USE DEF TypeOK
<1>1. pc[h] = "dequeue" /\ UNCHANGED <<sent, isWriting, sendBuffer, inFlight, written>>
  BY DEF Dequeue
<1>2. inFlight = <<>> /\ (\A g \in IOThreads : g # h => pc[g] \in {"idle", "test"})
      /\ Hand = {}
  BY <1>1, WriterAlone
<1>3. ~isWriting
  BY <1>1, <1>2 DEF OneAtATime, OneWriter
<1>4. CASE pc' = [pc EXCEPT ![h] = "idle"] /\ UNCHANGED <<claimed, sendQueue>>
  <2>1. \A g \in IOThreads : pc'[g] \in {"idle", "test"}
    BY <1>2, <1>4
  <2>2. Writers' = {} /\ inFlight' = <<>> /\ ~isWriting'
    BY <1>1, <1>2, <1>3, <2>1 DEF Writers
  <2>3. OneAtATime'
    BY <2>1, <2>2 DEF OneAtATime, OneWriter, BufferKept, Calm
  <2>4. Hand' = {}
    BY <2>1, <2>2 DEF Hand, Assigning
  <2> QED
    BY <1>1, <1>2, <1>4, <2>3, <2>4, OrderKept
<1>5. ASSUME NEW u \in AppThreads, sendQueue[u] # <<>>,
             claimed' = [claimed EXCEPT ![h] = Head(sendQueue[u])],
             sendQueue' = [sendQueue EXCEPT ![u] = Tail(@)],
             StartAssigning(h)
      PROVE  OneAtATime' /\ (InOrder => InOrder')
  <2>1. ~\E g \in IOThreads : Assigning(g)
    BY <1>1, <1>2 DEF Assigning
  <2>2. pc' = [pc EXCEPT ![h] = "assign"]
    BY <1>5, <2>1 DEF StartAssigning
  <2>3. pc'[h] = "assign" /\ \A g \in IOThreads : g # h => pc'[g] \in {"idle", "test"}
    BY <1>2, <2>2
  <2>4. Writers' = {h} /\ inFlight' = <<>> /\ ~isWriting'
    BY <1>1, <1>2, <1>3, <2>3 DEF Writers
  <2>5. OneAtATime'
    BY <2>3, <2>4 DEF OneAtATime, OneWriter, BufferKept, Calm
  <2>6. Hand' = {Head(sendQueue[u])}
    <3>1. \A g \in IOThreads : Assigning(g)' <=> g = h
      BY <2>3 DEF Assigning
    <3>2. claimed'[h] = Head(sendQueue[u])
      BY <1>5
    <3>3. {claimed'[g] : g \in {k \in IOThreads : Assigning(k)'}} = {Head(sendQueue[u])}
      BY <3>1, <3>2
    <3> QED
      BY <2>3, <2>4, <3>3 DEF Hand
  <2>7. ASSUME InOrder PROVE InOrder'
    BY <1>1, <1>2, <1>5, <2>6, <2>7, ClaimKeepsOrder
  <2> QED
    BY <2>5, <2>7
<1> QED
  BY <1>4, <1>5 DEF Dequeue

\* send() appends the next message of its thread.
LEMMA SendKeepsOrder ==
  ASSUME TypeOK, InOrder, NEW t \in AppThreads, Send(t), UNCHANGED Hand
  PROVE  InOrder'
<1> DEFINE m == [from |-> t, seq |-> sent[t] + 1]
<1>1. /\ sendQueue[t] \in Seq(Message) /\ Len(sendQueue[t]) \in Nat /\ sent[t] \in Nat
      /\ m \in Message
  <2>1. sendQueue[t] \in Seq(Message) /\ sent[t] \in Nat
    BY DEF TypeOK
  <2> QED
    BY <2>1, LenProperties DEF Message
<1>2. /\ sendQueue' = [sendQueue EXCEPT ![t] = Append(sendQueue[t], m)]
      /\ sent' = [sent EXCEPT ![t] = sent[t] + 1]
      /\ UNCHANGED written
  BY DEF Send, writeVars
<1>3. m = [from |-> t, seq |-> sent[t] + 1]
  OBVIOUS
<1> HIDE DEF m
<1>4. /\ sendQueue'[t] = Append(sendQueue[t], m)
      /\ sent'[t] = sent[t] + 1
      /\ \A u \in AppThreads : u # t => sendQueue'[u] = sendQueue[u] /\ sent'[u] = sent[u]
  BY <1>2 DEF TypeOK
<1>5. /\ Len(sendQueue'[t]) = Len(sendQueue[t]) + 1
      /\ \A i \in 1..Len(sendQueue[t]) : sendQueue'[t][i] = sendQueue[t][i]
      /\ sendQueue'[t][Len(sendQueue[t]) + 1] = m
  BY <1>1, <1>4, AppendProperties
<1>6. ASSUME NEW u \in AppThreads
      PROVE  Dequeued(u)' = Dequeued(u)
  <2>1. CASE u = t
    <3>1. (sent[t] + 1) - (Len(sendQueue[t]) + 1) = sent[t] - Len(sendQueue[t])
      BY <1>1
    <3> QED
      BY <1>4, <1>5, <2>1, <3>1 DEF Dequeued
  <2>2. CASE u # t
    BY <1>4, <2>2 DEF Dequeued
  <2> QED
    BY <2>1, <2>2
<1>7. QueuedInOrder'
  <2> SUFFICES ASSUME NEW u \in AppThreads, NEW i \in 1..Len(sendQueue'[u])
               PROVE  sendQueue'[u][i] = [from |-> u, seq |-> Dequeued(u) + i]
    BY <1>6 DEF QueuedInOrder
  <2>1. CASE u # t
    BY <1>4, <2>1 DEF InOrder, QueuedInOrder
  <2>2. CASE u = t /\ i \in 1..Len(sendQueue[t])
    BY <1>5, <2>2 DEF InOrder, QueuedInOrder
  <2>3. CASE u = t /\ i \notin 1..Len(sendQueue[t])
    <3>1. i = Len(sendQueue[t]) + 1
      BY <1>1, <1>5, <2>3
    <3>2. Dequeued(t) + i = sent[t] + 1
      BY <1>1, <3>1 DEF Dequeued
    <3> QED
      BY <1>3, <1>5, <2>3, <3>1, <3>2
  <2> QED
    BY <2>1, <2>2, <2>3
<1>8. HandIsNext'
  <2> SUFFICES ASSUME NEW n \in Hand PROVE n \in Message /\ n.seq = Dequeued(n.from)'
    BY DEF HandIsNext
  <2>1. n \in Message /\ n.seq = Dequeued(n.from) /\ n.from \in AppThreads
    BY DEF InOrder, HandIsNext, Message
  <2> QED
    BY <1>6, <2>1
<1>9. \A u \in AppThreads : Concluded(u)' = Concluded(u)
  <2>1. \A u \in AppThreads : InHand(u)' <=> InHand(u)
    BY InHandIsHand, InHandIsHandNext
  <2> QED
    BY <1>6, <2>1 DEF Concluded
<1>10. WrittenInOrder'
  BY <1>2, <1>9 DEF InOrder, WrittenInOrder
<1> QED
  BY <1>7, <1>8, <1>10 DEF InOrder

\* A completion concludes the message in hand, which is the next of its thread.
LEMMA CompleteKeepsOne ==
  ASSUME TypeOK, OneAtATime, NEW h \in IOThreads, NEW ec \in BOOLEAN, Complete(h, ec)
  PROVE  /\ OneAtATime'
         /\ Hand = {sendBuffer} /\ Hand' = {}
         /\ ~streamRaced' => written' = Append(written, [msg |-> sendBuffer, ok |-> ~ec])
<1> USE DEF TypeOK
<1>1. inFlight # <<>> /\ inFlight' = Tail(inFlight) /\ UNCHANGED <<isWriting, sendBuffer>>
      /\ pc' = [pc EXCEPT ![h] = IF ec THEN "failed" ELSE "completed"]
  BY DEF Complete
<1>2. Writers = {} /\ Len(inFlight) = 1 /\ isWriting
  BY <1>1 DEF OneAtATime, OneWriter
<1>3. \A g \in IOThreads : pc[g] \in {"idle", "test"}
  BY <1>2 DEF Writers
<1>4. ~Head(inFlight).dangling /\ Head(inFlight).msg = sendBuffer
  BY <1>1 DEF OneAtATime, BufferKept
<1>5. inFlight' = <<>>
  <2>1. Tail(inFlight) \in Seq(Write) /\ Len(Tail(inFlight)) = Len(inFlight) - 1
    BY <1>1, HeadTailProperties
  <2>2. Len(Tail(inFlight)) = 0
    BY <1>2, <2>1
  <2> QED
    BY <1>1, <2>1, <2>2, EmptySeq
<1>6. Writers' = {h} /\ isWriting' /\ pc'[h] \in {"completed", "failed"}
      /\ \A g \in IOThreads : g # h => pc'[g] \in {"idle", "test"}
  BY <1>1, <1>2, <1>3 DEF Writers
<1>7. OneWriter'
  BY <1>5, <1>6 DEF OneWriter
<1>8. OneAtATime'
  BY <1>5, <1>6, <1>7 DEF OneAtATime, BufferKept, Calm
<1>9. Hand = {sendBuffer}
  BY <1>1, <1>3, <1>4 DEF Hand, Assigning
<1>10. Hand' = {}
  BY <1>5, <1>6 DEF Hand, Assigning
<1>11. ~streamRaced' => written' = Append(written, [msg |-> sendBuffer, ok |-> ~ec])
  BY <1>4 DEF Complete
<1> QED
  BY <1>8, <1>9, <1>10, <1>11

LEMMA CompleteKeepsOrder ==
  ASSUME TypeOK, InOrder, NEW ec \in BOOLEAN, UNCHANGED <<sendQueue, sent>>,
         Hand = {sendBuffer}, Hand' = {},
         written' = Append(written, [msg |-> sendBuffer, ok |-> ~ec])
  PROVE  InOrder'
<1> DEFINE c == [msg |-> sendBuffer, ok |-> ~ec]
           u == sendBuffer.from
           N == Len(written)
           S == [msg : Contents, ok : BOOLEAN]
<1>1. sendBuffer \in Message /\ sendBuffer.seq = Dequeued(u)
  BY DEF InOrder, HandIsNext
<1>2. u \in AppThreads /\ sendBuffer = [from |-> u, seq |-> Dequeued(u)]
  BY <1>1 DEF Message
<1>3. ASSUME NEW t \in AppThreads
      PROVE  /\ Concluded(t) \in Int /\ Concluded(t)' \in Int
             /\ Concluded(t) = IF t = u THEN Dequeued(t) - 1 ELSE Dequeued(t)
             /\ Concluded(t)' = Dequeued(t)
  <2>1. Dequeued(t) \in Int
    <3>1. Len(sendQueue[t]) \in Nat /\ sent[t] \in Nat
      BY LenProperties DEF TypeOK
    <3> QED
      BY <3>1 DEF Dequeued
  <2>2. Dequeued(t)' = Dequeued(t)
    BY DEF Dequeued
  <2>3. InHand(t) <=> t = u
    BY InHandIsHand
  <2>4. ~InHand(t)'
    BY InHandIsHandNext
  <2> HIDE DEF u
  <2>5. Concluded(t)' = Dequeued(t)
    BY <2>1, <2>2, <2>4 DEF Concluded
  <2>6. Concluded(t) = IF t = u THEN Dequeued(t) - 1 ELSE Dequeued(t)
    BY <2>1, <2>3 DEF Concluded
  <2> QED
    BY <2>1, <2>5, <2>6
<1>4. written \in Seq(S) /\ N \in Nat
  BY LenProperties DEF TypeOK
<1>5. c \in S
  BY <1>1 DEF Contents
<1>6. c.msg = [from |-> u, seq |-> Concluded(u) + 1]
  <2>1. Dequeued(u) = Concluded(u) + 1
    BY <1>2, <1>3
  <2> QED
    BY <1>2, <2>1
<1>7. written' = Append(written, c)
  OBVIOUS
<1> HIDE DEF c, N, u
<1>8. /\ Len(written') = N + 1
      /\ \A i \in 1..N : written'[i] = written[i]
      /\ written'[N + 1] = c
  <2> HIDE DEF S
  <2> QED
    BY <1>4, <1>5, <1>7, AppendProperties DEF N
<1>9. ASSUME NEW i \in 1..N
      PROVE  written[i].msg \in Contents
  <2>1. written[i] \in S
    <3> HIDE DEF S
    <3> QED
      BY <1>4, ElementOfSeq DEF N
  <2> QED
    BY <2>1
<1>10. \A t \in AppThreads : Concluded(t)' = IF t = u THEN Concluded(t) + 1 ELSE Concluded(t)
  BY <1>3
<1>11. WrittenInOrder
  BY DEF InOrder
<1>12. ASSUME NEW t \in AppThreads, NEW n \in 1..Concluded(t)'
       PROVE  \E i \in 1..Len(written') : written'[i].msg = [from |-> t, seq |-> n]
  <2>1. CASE n \in 1..Concluded(t)
    <3>1. PICK i \in 1..N : written[i].msg = [from |-> t, seq |-> n]
      BY <1>11, <2>1 DEF WrittenInOrder, N
    <3>2. i \in 1..Len(written') /\ written'[i] = written[i]
      BY <1>4, <1>8
    <3> QED
      BY <3>1, <3>2
  <2>2. CASE n \notin 1..Concluded(t)
    <3>1. t = u /\ n = Concluded(u) + 1
      BY <1>3, <1>10, <2>2
    <3>2. N + 1 \in 1..Len(written') /\ written'[N + 1] = c
      BY <1>4, <1>8
    <3> QED
      BY <1>6, <3>1, <3>2
  <2> QED
    BY <2>1, <2>2
<1>13. ASSUME NEW t \in AppThreads, NEW i \in 1..N, written[i].msg.from = t
       PROVE  /\ written[i].msg.seq \in Nat
              /\ written[i].msg.seq <= Concluded(t)
              /\ \A j \in 1..(i - 1) :
                   written[j].msg.from = t => written[j].msg.seq < written[i].msg.seq
  <2>1. /\ written[i].msg.seq <= Concluded(t)
        /\ \A j \in 1..(i - 1) :
             written[j].msg.from = t => written[j].msg.seq < written[i].msg.seq
    BY <1>11, <1>13 DEF WrittenInOrder, N
  <2>2. written[i].msg \in Message \/ written[i].msg = Torn
    BY <1>9, <1>13 DEF Contents
  <2>3. written[i].msg.seq \in Nat
    BY <2>2 DEF Message, Torn
  <2> QED
    BY <2>1, <2>3
<1>14. ASSUME NEW t \in AppThreads, NEW i \in 1..Len(written'),
              written'[i].msg.from = t
       PROVE  /\ written'[i].msg.seq <= Concluded(t)'
              /\ \A j \in 1..(i - 1) :
                   written'[j].msg.from = t
                     => written'[j].msg.seq < written'[i].msg.seq
  <2>0. Concluded(t) \in Int /\ Concluded(t)' \in Int /\ Concluded(t) <= Concluded(t)'
    BY <1>3, <1>10
  <2>1. CASE i \in 1..N
    <3>1. written'[i] = written[i] /\ \A j \in 1..(i - 1) : written'[j] = written[j]
      BY <1>4, <1>8, <2>1
    <3>2. /\ written[i].msg.seq \in Nat
          /\ written[i].msg.seq <= Concluded(t)
          /\ \A j \in 1..(i - 1) :
               written[j].msg.from = t => written[j].msg.seq < written[i].msg.seq
      BY <1>13, <1>14, <2>1, <3>1
    <3> QED
      BY <2>0, <3>1, <3>2
  <2>2. CASE i \notin 1..N
    <3>1. i = N + 1 /\ written'[i] = c
      BY <1>4, <1>8, <2>2
    <3>2. t = u /\ c.msg.seq = Concluded(t) + 1
      BY <1>6, <1>14, <3>1
    <3>3. Concluded(t)' = Concluded(t) + 1
      BY <1>10, <3>2
    <3>4. ASSUME NEW j \in 1..(i - 1), written'[j].msg.from = t
          PROVE  written'[j].msg.seq < Concluded(t) + 1
      <4>1. j \in 1..N /\ written'[j] = written[j]
        BY <1>4, <1>8, <3>1
      <4>2. written[j].msg.seq \in Nat /\ written[j].msg.seq <= Concluded(t)
        BY <1>13, <3>4, <4>1
      <4> QED
        BY <2>0, <4>1, <4>2
    <3> QED
      BY <2>0, <3>1, <3>2, <3>3, <3>4
  <2> QED
    BY <2>1, <2>2
<1>15. WrittenInOrder'
  BY <1>12, <1>14 DEF WrittenInOrder
<1>16. QueuedInOrder' /\ HandIsNext'
  BY DEF InOrder, QueuedInOrder, HandIsNext, Dequeued
<1> QED
  BY <1>15, <1>16 DEF InOrder

LEMMA OrderlyInit == Init => OneAtATime /\ InOrder
<1> SUFFICES ASSUME Init PROVE OneAtATime /\ InOrder
  OBVIOUS
<1>1. Hand = {}
  BY DEF Init, Hand, Assigning
<1>2. OneAtATime
  BY DEF Init, OneAtATime, OneWriter, BufferKept, Calm, Writers
<1>3. \A t \in AppThreads : Concluded(t) = 0
  <2>1. \A t \in AppThreads : ~InHand(t) /\ Dequeued(t) = 0
    BY <1>1, InHandIsHand DEF Init, Dequeued
  <2> QED
    BY <2>1 DEF Concluded
<1>4. InOrder
  BY <1>1, <1>3 DEF Init, InOrder, QueuedInOrder, HandIsNext, WrittenInOrder
<1> QED
  BY <1>2, <1>4

LEMMA OneWriterStep ==
  ASSUME TypeOK, OneAtATime, [Next]_vars, ~raced'
  PROVE  OneAtATime'
<1>1. ASSUME NEW h \in IOThreads, PostedDoWrite(h) \/ NextDoWrite(h) PROVE OneAtATime'
  <2>1. /\ pc[h] \in {"idle", "test"} /\ TestWriting(h)
        /\ UNCHANGED <<isWriting, inFlight, sendBuffer, claimed>>
    BY <1>1 DEF PostedDoWrite, NextDoWrite, Free
  <2> QED
    BY <2>1, TestKeepsOne
<1>2. ASSUME NEW h \in IOThreads, Dequeue(h) PROVE OneAtATime'
  BY <1>2, DequeueKeepsOrder
<1>3. ASSUME NEW h \in IOThreads, Assign(h) \/ StoreWriting(h) \/ AsyncWrite(h) \/ onWrite(h)
      PROVE  OneAtATime'
  BY <1>3, CarryKeepsOne
<1>4. ASSUME NEW h \in IOThreads, NEW ec \in BOOLEAN, Complete(h, ec) PROVE OneAtATime'
  BY <1>4, CompleteKeepsOne
<1>5. ASSUME \/ PollStep \/ Stop \/ UNCHANGED vars
             \/ \E t \in AppThreads : SendStep(t)
             \/ \E h \in IOThreads : Run(h) \/ Called(h)
             \/ \E h \in IOThreads, ec \in BOOLEAN : onAccept(h, ec) \/ onRead(h, ec)
      PROVE  OneAtATime'
  <2>1. UNCHANGED flagVars
    BY <1>5 DEF PollStep, Poll, PollMessage, PollEvent, Stop, SendStep, Send, SendPost, Run,
                Called, onAccept, onRead, flagVars, vars, writeVars
  <2> QED
    BY <2>1, FlagVarsKept
<1> QED
  BY <1>1, <1>2, <1>3, <1>4, <1>5 DEF Next, IOStep, HandlerStep

LEMMA OrderlyStep ==
  ASSUME TypeOK, OneAtATime, InOrder, [Next]_vars, ~raced', ~streamRaced'
  PROVE  InOrder'
<1>1. ASSUME NEW t \in AppThreads, Send(t) PROVE InOrder'
  BY <1>1, FlagVarsKept, SendKeepsOrder DEF Send, writeVars, flagVars
<1>2. ASSUME NEW h \in IOThreads, PostedDoWrite(h) \/ NextDoWrite(h)
      PROVE  InOrder'
  <2>1. /\ pc[h] \in {"idle", "test"} /\ TestWriting(h)
        /\ UNCHANGED <<isWriting, inFlight, sendBuffer, claimed, sendQueue, sent, written>>
    BY <1>2 DEF PostedDoWrite, NextDoWrite, Free, sendVars
  <2> QED
    BY <2>1, TestKeepsOne, OrderKept
<1>3. ASSUME NEW h \in IOThreads, Dequeue(h) PROVE InOrder'
  BY <1>3, DequeueKeepsOrder
<1>4. ASSUME NEW h \in IOThreads, Assign(h) \/ StoreWriting(h) \/ AsyncWrite(h) \/ onWrite(h)
      PROVE  InOrder'
  <2>1. UNCHANGED <<sendQueue, sent, written>>
    BY <1>4 DEF Assign, StoreWriting, AsyncWrite, onWrite, sendVars
  <2> QED
    BY <1>4, <2>1, CarryKeepsOne, OrderKept
<1>5. ASSUME NEW h \in IOThreads, NEW ec \in BOOLEAN, Complete(h, ec)
      PROVE  InOrder'
  <2>1. UNCHANGED <<sendQueue, sent>>
    BY <1>5 DEF Complete, sendVars
  <2> QED
    BY <1>5, <2>1, CompleteKeepsOne, CompleteKeepsOrder
<1>6. ASSUME \/ PollStep \/ Stop \/ UNCHANGED vars
             \/ \E t \in AppThreads : SendPost(t)
             \/ \E h \in IOThreads : Run(h) \/ Called(h)
             \/ \E h \in IOThreads, ec \in BOOLEAN : onAccept(h, ec) \/ onRead(h, ec)
      PROVE  InOrder'
  <2>1. UNCHANGED flagVars /\ UNCHANGED <<sendQueue, sent, written>>
    BY <1>6 DEF PollStep, Poll, PollMessage, PollEvent, Stop, SendPost, Run, Called, onAccept,
                onRead, flagVars, vars, writeVars, sendVars
  <2> QED
    BY <2>1, FlagVarsKept, OrderKept
<1> QED
  BY <1>1, <1>2, <1>3, <1>4, <1>5, <1>6 DEF Next, SendStep, IOStep, HandlerStep

\* A race is not undone.
LEMMA RacedStays == ASSUME [Next]_vars, raced PROVE raced'
BY DEF Next, SendStep, PollStep, IOStep, HandlerStep, Send, SendPost, Poll, PollMessage,
       PollEvent, Stop, Run, Called, onAccept, onRead, PostedDoWrite, NextDoWrite, TestWriting,
       Dequeue, Assign, StoreWriting, AsyncWrite, Complete, onWrite, vars, writeVars

LEMMA StreamRacedStays == ASSUME [Next]_vars, streamRaced PROVE streamRaced'
<1>1. \A h \in IOThreads : UseStream(h) => streamRaced'
  BY DEF UseStream
<1> QED
  BY <1>1 DEF Next, SendStep, PollStep, IOStep, HandlerStep, Send, SendPost, Poll, PollMessage,
       PollEvent, Stop, Run, Called, onAccept, onRead, PostedDoWrite, NextDoWrite,
       Dequeue, Assign, StoreWriting, AsyncWrite, Complete, onWrite, vars, netVars

(***************************************************************************)
(* Until two threads test m_isWriting between each other's test and store, *)
(* there is one write at a time and m_sendBuffer is left alone until it    *)
(* completes; until two threads use m_socketStream at once as well, each   *)
(* application thread's messages are written once and in the order in      *)
(* which it sent them.  This holds for any number of threads.              *)
(***************************************************************************)
THEOREM OrderlyUntilRaced == Spec => []OrderlyUnlessRaced
<1> DEFINE Inv == ~raced => OneAtATime /\ (~streamRaced => InOrder)
<1>1. Init => Inv
  BY OrderlyInit
<1>2. TypeOK /\ Inv /\ [Next]_vars => Inv'
  <2> SUFFICES ASSUME TypeOK, Inv, [Next]_vars, ~raced'
               PROVE  OneAtATime' /\ (~streamRaced' => InOrder')
    OBVIOUS
  <2>1. OneAtATime /\ OneAtATime'
    BY OneWriterStep, RacedStays
  <2>2. ~streamRaced' => InOrder'
    BY <2>1, OrderlyStep, RacedStays, StreamRacedStays
  <2> QED
    BY <2>1, <2>2
<1>3. Inv => OrderlyUnlessRaced
  BY DEF OneAtATime, InOrder, OrderlyUnlessRaced
<1> QED
  BY <1>1, <1>2, <1>3, TypeCorrect, PTL DEF Spec

-----------------------------------------------------------------------------
(* Reports of failures.                                                    *)

\* The events that report what, and how many of them there are: those that poll()
\* has handed over and those in the event queue of an io thread.
ReportsOf(what) == {e \in Event : e.MESSAGE_STRING = what}
QueuedReports(what) == Places(eventQueue, IOThreads, ReportsOf(what))
Count(what) == NumIn(reported, ReportsOf(what)) + Cardinality(QueuedReports(what))

LEMMA ReportedIsCount == TypeOK => \A what : Reported(what) = Count(what)
<1> SUFFICES ASSUME TypeOK, NEW what
             PROVE  Reported(what) = Count(what)
  OBVIOUS
<1> DEFINE U == UNION {{<<h, i>> : i \in {j \in 1..Len(eventQueue[h]) :
                                           eventQueue[h][j].MESSAGE_STRING = what}}
                        : h \in IOThreads}
<1>1. reported \in Seq(Event) /\ eventQueue \in [IOThreads -> Seq(Event)]
  BY DEF TypeOK
<1>2. {i \in 1..Len(reported) : reported[i].MESSAGE_STRING = what}
        = {i \in 1..Len(reported) : reported[i] \in ReportsOf(what)}
  BY <1>1, ElementOfSeq DEF ReportsOf
<1>3. \A h \in IOThreads :
        /\ Len(eventQueue[h]) \in Nat
        /\ \A i \in 1..Len(eventQueue[h]) :
             eventQueue[h][i] \in ReportsOf(what) <=> eventQueue[h][i].MESSAGE_STRING = what
  BY <1>1, ElementOfSeq, LenProperties DEF ReportsOf
<1>4. U \subseteq QueuedReports(what)
  BY <1>3 DEF QueuedReports, Places
<1>5. QueuedReports(what) \subseteq U
  <2> SUFFICES ASSUME NEW p \in QueuedReports(what)
               PROVE  p \in U
    OBVIOUS
  <2>1. PICK h \in IOThreads, i \in Nat \ {0} :
          p = <<h, i>> /\ i <= Len(eventQueue[h]) /\ eventQueue[h][i] \in ReportsOf(what)
    BY DEF QueuedReports, Places
  <2>2. i \in {j \in 1..Len(eventQueue[h]) : eventQueue[h][j].MESSAGE_STRING = what}
    BY <1>3, <2>1
  <2> QED
    BY <2>1, <2>2
<1>6. U = QueuedReports(what)
  BY <1>4, <1>5
<1> HIDE DEF U
<1>7. Reported(what) = Cardinality({i \in 1..Len(reported) : reported[i].MESSAGE_STRING = what})
                         + Cardinality(U)
  BY DEF Reported, U
<1> QED
  BY <1>2, <1>6, <1>7 DEF Count, NumIn

LEMMA ReportedIsCountNext == (TypeOK => \A what : Reported(what) = Count(what))'
BY ReportedIsCount, PTL

\* There are finitely many reports, however many io threads there are.
FewReports == \A what \in Reports : IsFiniteSet(QueuedReports(what))

LEMMA CountType ==
  ASSUME TypeOK, FewReports, NEW what \in Reports
  PROVE  Count(what) \in Nat
<1>1. NumIn(reported, ReportsOf(what)) \in Nat
  <2>1. reported \in Seq(Event)
    BY DEF TypeOK
  <2>2. \E e : e \in Event
    <3>1. makeEvent("SLINGER", "read") \in Event
      BY DEF makeEvent, Event, EventKind, EventSourceKind, Reports
    <3> QED
      BY <3>1
  <2> QED
    BY <2>1, <2>2, CountAppend
<1>2. Cardinality(QueuedReports(what)) \in Nat
  BY FS_CardinalityType DEF FewReports
<1> QED
  BY <1>1, <1>2 DEF Count

\* A handler that reports what adds one report of it and none of anything else.
LEMMA ReportAdds ==
  ASSUME TypeOK, FewReports, NEW h \in IOThreads, NEW what \in Reports,
         queueFatalEvent(h, what)
  PROVE  /\ FewReports'
         /\ \A w \in Reports : Count(w)' = Count(w) + (IF w = what THEN 1 ELSE 0)
<1> DEFINE e == makeEvent("SLINGER", what)
<1>1. e \in Event /\ \A w : e \in ReportsOf(w) <=> w = what
  BY DEF makeEvent, Event, EventKind, EventSourceKind, ReportsOf
<1>2. reported' = reported /\ eventQueue' = [eventQueue EXCEPT ![h] = Append(@, e)]
  BY DEF queueFatalEvent
<1>3. eventQueue \in [IOThreads -> Seq(Event)]
  BY DEF TypeOK
<1> HIDE DEF e
<1> SUFFICES ASSUME NEW w \in Reports
             PROVE  /\ IsFiniteSet(QueuedReports(w)')
                    /\ Count(w)' = Count(w) + (IF w = what THEN 1 ELSE 0)
  BY DEF FewReports
<1>4. IsFiniteSet(QueuedReports(w))
  BY DEF FewReports
<1>5. /\ IsFiniteSet(Places(eventQueue', IOThreads, ReportsOf(w)))
      /\ Cardinality(QueuedReports(w)) \in Nat
      /\ Cardinality(Places(eventQueue', IOThreads, ReportsOf(w)))
           = Cardinality(QueuedReports(w)) + (IF e \in ReportsOf(w) THEN 1 ELSE 0)
  <2> DEFINE r == [eventQueue EXCEPT ![h] = Append(@, e)]
             T == ReportsOf(w)
  <2>1. eventQueue' = r
    BY <1>2
  <2>2. IsFiniteSet(Places(eventQueue, IOThreads, T)) /\ e \in Event
    BY <1>1, <1>4 DEF QueuedReports
  <2> HIDE DEF r, T
  <2>3. Larger(Places(r, IOThreads, T), Places(eventQueue, IOThreads, T),
               IF e \in T THEN 1 ELSE 0)
    BY <1>3, <2>2, PutPlace DEF r
  <2> QED
    BY <2>1, <2>3 DEF QueuedReports, T, Larger
<1>6. QueuedReports(w)' = Places(eventQueue', IOThreads, ReportsOf(w))
  BY DEF QueuedReports
<1>7. Count(w) \in Nat /\ Count(w) = NumIn(reported, ReportsOf(w)) + Cardinality(QueuedReports(w))
  BY CountType DEF Count
<1>8. Count(w)' = NumIn(reported, ReportsOf(w)) + Cardinality(QueuedReports(w)')
  BY <1>2 DEF Count
<1>9. NumIn(reported, ReportsOf(w)) \in Nat
  <2>1. reported \in Seq(Event)
    BY DEF TypeOK
  <2> QED
    BY <1>1, <2>1, CountAppend
<1> QED
  BY <1>1, <1>5, <1>6, <1>7, <1>8, <1>9

\* poll() loses no report and repeats none.
LEMMA PollKeepsReports ==
  ASSUME TypeOK, FewReports, PollEvent
  PROVE  /\ FewReports'
         /\ \A w \in Reports : Count(w)' = Count(w)
<1>1. CASE UNCHANGED eventVars
  BY <1>1 DEF eventVars, FewReports, Count, QueuedReports
<1>2. ASSUME NEW h \in IOThreads, eventQueue[h] # <<>>,
             reported' = Append(reported, Head(eventQueue[h])),
             eventQueue' = [eventQueue EXCEPT ![h] = Tail(@)],
             NEW w \in Reports
      PROVE  IsFiniteSet(QueuedReports(w)') /\ Count(w)' = Count(w)
  <2> DEFINE e == Head(eventQueue[h])
  <2>1. /\ eventQueue \in [IOThreads -> Seq(Event)] /\ reported \in Seq(Event)
        /\ IsFiniteSet(Places(eventQueue, IOThreads, ReportsOf(w)))
    BY DEF TypeOK, FewReports, QueuedReports
  <2>2. e \in Event
    <3>1. eventQueue[h] \in Seq(Event)
      BY <2>1
    <3> QED
      BY <1>2, <3>1, HeadTailProperties
  <2> HIDE DEF e
  <2>3. /\ NumIn(reported, ReportsOf(w)) \in Nat
        /\ NumIn(Append(reported, e), ReportsOf(w))
             = NumIn(reported, ReportsOf(w)) + (IF e \in ReportsOf(w) THEN 1 ELSE 0)
    BY <2>1, <2>2, CountAppend
  <2>0. Head(eventQueue[h]) = e
    BY DEF e
  <2>4. /\ IsFiniteSet(Places(eventQueue', IOThreads, ReportsOf(w)))
        /\ Cardinality(Places(eventQueue, IOThreads, ReportsOf(w))) \in Nat
        /\ Cardinality(Places(eventQueue', IOThreads, ReportsOf(w))) \in Nat
        /\ Cardinality(Places(eventQueue, IOThreads, ReportsOf(w)))
             = Cardinality(Places(eventQueue', IOThreads, ReportsOf(w)))
               + (IF e \in ReportsOf(w) THEN 1 ELSE 0)
    <3> DEFINE r == [eventQueue EXCEPT ![h] = Tail(@)]
               T == ReportsOf(w)
    <3>1. eventQueue' = r
      BY <1>2
    <3>2. IsFiniteSet(Places(eventQueue, IOThreads, T))
      BY <2>1
    <3> HIDE DEF r, T
    <3>3. eventQueue \in [IOThreads -> Seq(Event)]
      BY <2>1
    <3>4. /\ IsFiniteSet(Places(r, IOThreads, T))
          /\ Larger(Places(eventQueue, IOThreads, T), Places(r, IOThreads, T),
                    IF Head(eventQueue[h]) \in T THEN 1 ELSE 0)
      BY <1>2, <3>2, <3>3, TakePlace DEF r
    <3> QED
      BY <2>0, <3>1, <3>4 DEF T, Larger
  <2>5. Count(w) = NumIn(reported, ReportsOf(w))
                     + Cardinality(Places(eventQueue, IOThreads, ReportsOf(w)))
    BY DEF Count, QueuedReports
  <2>6. Count(w)' = NumIn(Append(reported, e), ReportsOf(w))
                      + Cardinality(Places(eventQueue', IOThreads, ReportsOf(w)))
    BY <1>2, <2>0 DEF Count, QueuedReports
  <2>7. QueuedReports(w)' = Places(eventQueue', IOThreads, ReportsOf(w))
    BY DEF QueuedReports
  <2> QED
    BY <2>3, <2>4, <2>5, <2>6, <2>7
<1>3. ASSUME NEW h \in IOThreads, eventQueue[h] # <<>>,
             reported' = Append(reported, Head(eventQueue[h])),
             eventQueue' = [eventQueue EXCEPT ![h] = Tail(@)]
      PROVE  FewReports' /\ \A w \in Reports : Count(w)' = Count(w)
  BY <1>2, <1>3 DEF FewReports
<1> QED
  BY <1>1, <1>3 DEF PollEvent

\* The writes that have failed, and the threads that are going to report one.
Completion == [msg : Contents, ok : BOOLEAN]
Failed == {c \in Completion : ~c.ok}
Failing == {h \in IOThreads : pc[h] = "failed"}

LEMMA FailuresAreFailed ==
  TypeOK => {i \in 1..Len(written) : ~written[i].ok} = {i \in 1..Len(written) : written[i] \in Failed}
BY ElementOfSeq DEF TypeOK, Failed, Completion

LEMMA FailuresAreFailedNext ==
  (TypeOK => {i \in 1..Len(written) : ~written[i].ok}
               = {i \in 1..Len(written) : written[i] \in Failed})'
BY FailuresAreFailed, PTL

\* FailuresReported in terms of what the lemmas count; it is inductive, with the
\* finiteness of what is counted.
Ended == IF chain = "none" /\ stream # "closed" THEN 1 ELSE 0
ReportInv ==
  /\ FewReports /\ IsFiniteSet(Failing)
  /\ Count("write") + Cardinality(Failing) = NumIn(written, Failed)
  /\ Count("accept") + Count("read") = Ended

LEMMA ReportInvSuffices == TypeOK /\ ReportInv => FailuresReported
<1> SUFFICES ASSUME TypeOK, ReportInv PROVE FailuresReported
  OBVIOUS
<1>1. \A what : Reported(what) = Count(what)
  BY ReportedIsCount
<1>2. Cardinality({i \in 1..Len(written) : ~written[i].ok}) = NumIn(written, Failed)
  BY FailuresAreFailed DEF NumIn
<1> QED
  BY <1>1, <1>2 DEF ReportInv, FailuresReported, Failing, Ended

\* A write that completes is counted once: as failed if it has.
LEMMA WrittenAdds ==
  ASSUME TypeOK, NEW m \in Contents, NEW ok \in BOOLEAN,
         written' = Append(written, [msg |-> m, ok |-> ok])
  PROVE  /\ NumIn(written, Failed) \in Nat
         /\ NumIn(written, Failed)' = NumIn(written, Failed) + (IF ok THEN 0 ELSE 1)
<1> DEFINE c == [msg |-> m, ok |-> ok]
<1>1. c \in Completion /\ (c \in Failed <=> ~ok)
  BY DEF Failed, Completion
<1> HIDE DEF c
<1>2. written \in Seq(Completion)
  BY DEF TypeOK, Completion
<1>3. /\ NumIn(written, Failed) \in Nat
      /\ NumIn(Append(written, c), Failed)
           = NumIn(written, Failed) + (IF c \in Failed THEN 1 ELSE 0)
  BY <1>1, <1>2, CountAppend
<1>4. NumIn(written, Failed)' = NumIn(Append(written, c), Failed)
  BY DEF c, NumIn, Failed, Completion
<1> QED
  BY <1>1, <1>3, <1>4

\* h enters onWrite() with an error, or leaves it with a report.
LEMMA FailingChanges ==
  ASSUME TypeOK, IsFiniteSet(Failing), NEW h \in IOThreads, NEW at \in PCs,
         pc' = [pc EXCEPT ![h] = at]
  PROVE  /\ IsFiniteSet(Failing)' /\ Cardinality(Failing) \in Nat
         /\ Cardinality(Failing)' = Cardinality(Failing)
              + (IF at = "failed" THEN 1 ELSE 0) - (IF pc[h] = "failed" THEN 1 ELSE 0)
<1>1. \A g \in IOThreads : pc'[g] = IF g = h THEN at ELSE pc[g]
  BY DEF TypeOK
<1>2. Cardinality(Failing) \in Nat
  BY FS_CardinalityType
<1>3. CASE at = "failed" /\ pc[h] # "failed"
  <2>1. Failing' = Failing \cup {h} /\ h \notin Failing
    BY <1>1, <1>3 DEF Failing
  <2> QED
    BY <1>2, <1>3, <2>1, FS_AddElement
<1>4. CASE at # "failed" /\ pc[h] = "failed"
  <2>1. Failing' = Failing \ {h} /\ h \in Failing
    BY <1>1, <1>4 DEF Failing
  <2> QED
    BY <1>2, <1>4, <2>1, FS_RemoveElement
<1>5. CASE at = "failed" <=> pc[h] = "failed"
  <2>1. Failing' = Failing
    BY <1>1, <1>5 DEF Failing
  <2> QED
    BY <1>2, <1>5, <2>1
<1> QED
  BY <1>3, <1>4, <1>5

\* No report, no completion and no thread that enters or leaves onWrite().
reportVars == <<eventQueue, reported, written>>

LEMMA NothingReported ==
  ASSUME ReportInv, UNCHANGED reportVars, Failing' = Failing, Ended' = Ended
  PROVE  ReportInv'
<1>1. \A w : QueuedReports(w)' = QueuedReports(w) /\ Count(w)' = Count(w)
  BY DEF reportVars, QueuedReports, Count
<1>2. NumIn(written, Failed)' = NumIn(written, Failed)
  BY DEF reportVars
<1>3. FewReports'
  BY <1>1 DEF ReportInv, FewReports
<1> QED
  BY <1>1, <1>2, <1>3 DEF ReportInv

\* The end of the accept/read chain, with its report.
LEMMA ChainEndReported ==
  ASSUME TypeOK, ReportInv, NEW h \in IOThreads, NEW what \in {"accept", "read"},
         queueFatalEvent(h, what), UNCHANGED <<written, pc>>, Ended = 0, Ended' = 1
  PROVE  ReportInv'
<1>1. what \in Reports /\ "accept" \in Reports /\ "read" \in Reports /\ "write" \in Reports
  BY DEF Reports
<1>2. FewReports
  BY DEF ReportInv
<1>3. FewReports' /\ \A w \in Reports : Count(w)' = Count(w) + (IF w = what THEN 1 ELSE 0)
  BY <1>1, <1>2, ReportAdds
<1>4. Count("accept") \in Nat /\ Count("read") \in Nat /\ Count("write") \in Nat
  BY <1>1, <1>2, CountType
<1>5. Failing' = Failing /\ NumIn(written, Failed)' = NumIn(written, Failed)
  BY DEF Failing
<1>6. Count("write")' = Count("write")
  BY <1>1, <1>3, <1>4
<1>7. Count("accept")' + Count("read")' = 1
  <2>1. Count("accept") + Count("read") = 0
    BY DEF ReportInv
  <2> QED
    BY <1>1, <1>3, <1>4, <2>1
<1> QED
  BY <1>3, <1>5, <1>6, <1>7 DEF ReportInv

\* A thread reports the failed write that it was to report.
LEMMA FailureReported ==
  ASSUME TypeOK, ReportInv, NEW h \in IOThreads, pc[h] = "failed",
         queueFatalEvent(h, "write"), pc' = [pc EXCEPT ![h] = "idle"],
         UNCHANGED <<written, chain, stream>>
  PROVE  ReportInv'
<1>1. "accept" \in Reports /\ "read" \in Reports /\ "write" \in Reports
  BY DEF Reports
<1>2. FewReports /\ IsFiniteSet(Failing)
  BY DEF ReportInv
<1>3. FewReports' /\ \A w \in Reports : Count(w)' = Count(w) + (IF w = "write" THEN 1 ELSE 0)
  BY <1>1, <1>2, ReportAdds
<1>4. Count("accept") \in Nat /\ Count("read") \in Nat /\ Count("write") \in Nat
  BY <1>1, <1>2, CountType
<1>5. /\ IsFiniteSet(Failing)' /\ Cardinality(Failing) \in Nat
      /\ Cardinality(Failing)' = Cardinality(Failing) - 1
  <2> DEFINE at == "idle"
  <2>1. at \in PCs /\ at # "failed"
    BY DEF PCs
  <2>2. pc' = [pc EXCEPT ![h] = at]
    OBVIOUS
  <2> HIDE DEF at
  <2>3. /\ IsFiniteSet(Failing)' /\ Cardinality(Failing) \in Nat
        /\ Cardinality(Failing)' = Cardinality(Failing)
             + (IF at = "failed" THEN 1 ELSE 0) - (IF pc[h] = "failed" THEN 1 ELSE 0)
    BY <1>2, <2>1, <2>2, FailingChanges
  <2> QED
    BY <2>1, <2>3
<1>6. NumIn(written, Failed)' = NumIn(written, Failed) /\ Ended' = Ended
  BY DEF Ended
<1>7. Count("write")' + Cardinality(Failing)' = Count("write") + Cardinality(Failing)
  BY <1>1, <1>3, <1>4, <1>5
<1>8. Count("accept")' = Count("accept") /\ Count("read")' = Count("read")
  BY <1>1, <1>3, <1>4
<1> QED
  BY <1>3, <1>5, <1>6, <1>7, <1>8 DEF ReportInv

\* A write completes and h enters onWrite(), with or without a failure to report.
LEMMA CompletionCounted ==
  ASSUME TypeOK, ReportInv, NEW h \in IOThreads, NEW ec \in BOOLEAN, Complete(h, ec)
  PROVE  ReportInv'
<1>1. PICK m \in {Head(inFlight).msg} \cup {Torn} :
        written' = Append(written, [msg |-> m, ok |-> ~ec])
  BY DEF Complete
<1>2. m \in Contents
  <2>1. Head(inFlight) \in Write
    BY HeadTailProperties DEF Complete, TypeOK
  <2> QED
    BY <1>1, <2>1 DEF Write, Contents
<1>3. /\ NumIn(written, Failed) \in Nat
      /\ NumIn(written, Failed)' = NumIn(written, Failed) + (IF ~ec THEN 0 ELSE 1)
  <2>1. (~ec) \in BOOLEAN
    OBVIOUS
  <2> QED
    BY <1>1, <1>2, <2>1, WrittenAdds
<1>4. pc[h] = "idle" /\ pc' = [pc EXCEPT ![h] = IF ec THEN "failed" ELSE "completed"]
  BY DEF Complete, Free
<1>5. /\ IsFiniteSet(Failing)' /\ Cardinality(Failing) \in Nat
      /\ Cardinality(Failing)' = Cardinality(Failing) + (IF ec THEN 1 ELSE 0)
  <2> DEFINE at == IF ec THEN "failed" ELSE "completed"
  <2>1. at \in PCs /\ (at = "failed" <=> ec)
    BY DEF PCs
  <2>2. pc' = [pc EXCEPT ![h] = at] /\ IsFiniteSet(Failing)
    BY <1>4 DEF ReportInv
  <2> HIDE DEF at
  <2>3. /\ IsFiniteSet(Failing)' /\ Cardinality(Failing) \in Nat
        /\ Cardinality(Failing)' = Cardinality(Failing)
             + (IF at = "failed" THEN 1 ELSE 0) - (IF pc[h] = "failed" THEN 1 ELSE 0)
    BY <2>1, <2>2, FailingChanges
  <2> QED
    BY <1>4, <2>1, <2>3
<1>6. \A w : QueuedReports(w)' = QueuedReports(w) /\ Count(w)' = Count(w)
  BY DEF Complete, eventVars, QueuedReports, Count
<1>7. FewReports'
  BY <1>6 DEF ReportInv, FewReports
<1>8. Ended' = Ended
  BY DEF Complete, Ended
<1>9. Count("write") \in Nat
  BY CountType DEF ReportInv, Reports
<1>10. Count("write")' + Cardinality(Failing)' = NumIn(written, Failed)'
  <2>1. Count("write") + Cardinality(Failing) = NumIn(written, Failed)
    BY DEF ReportInv
  <2> QED
    BY <1>3, <1>5, <1>6, <1>9, <2>1
<1> QED
  BY <1>5, <1>6, <1>7, <1>8, <1>10 DEF ReportInv

LEMMA ReportStep ==
  ASSUME TypeOK, ReportInv, [Next]_vars
  PROVE  ReportInv'
<1>1. ASSUME NEW h \in IOThreads, NEW ec \in BOOLEAN, onAccept(h, ec)
      PROVE  ReportInv'
  <2>1. CASE ec
    BY <1>1, <2>1, ChainEndReported DEF onAccept, writeVars, Ended
  <2>2. CASE ~ec
    BY <1>1, <2>2, NothingReported DEF onAccept, writeVars, eventVars, reportVars,
                                        Ended, Failing
  <2> QED
    BY <2>1, <2>2
<1>2. ASSUME NEW h \in IOThreads, NEW ec \in BOOLEAN, onRead(h, ec)
      PROVE  ReportInv'
  <2>1. CASE ec
    BY <1>2, <2>1, ChainEndReported DEF onRead, writeVars, Ended
  <2>2. CASE ~ec
    BY <1>2, <2>2, NothingReported DEF onRead, writeVars, eventVars, reportVars,
                                        Ended, Failing
  <2> QED
    BY <2>1, <2>2
<1>3. ASSUME NEW h \in IOThreads, Run(h) \/ Called(h)
      PROVE  ReportInv'
  BY <1>3, NothingReported DEF Run, Called, writeVars, eventVars, reportVars, Ended, Failing
<1>4. ASSUME NEW h \in IOThreads, onWrite(h)
      PROVE  ReportInv'
  <2>1. CASE pc[h] = "failed"
    BY <1>4, <2>1, FailureReported DEF onWrite, netVars
  <2>2. CASE pc[h] = "completed"
    <3>1. Failing' = Failing
      BY <1>4, <2>2 DEF onWrite, Failing, TypeOK
    <3> QED
      BY <1>4, <2>2, <3>1, NothingReported DEF onWrite, netVars, eventVars, reportVars, Ended
  <2> QED
    BY <1>4, <2>1, <2>2 DEF onWrite
<1>5. ASSUME NEW h \in IOThreads, \/ PostedDoWrite(h) \/ NextDoWrite(h) \/ Dequeue(h)
                                  \/ Assign(h) \/ StoreWriting(h) \/ AsyncWrite(h)
      PROVE  ReportInv'
  <2>1. \A g \in IOThreads : pc'[g] = "failed" <=> pc[g] = "failed"
    <3>1. CASE PostedDoWrite(h) \/ NextDoWrite(h)
      BY <3>1 DEF PostedDoWrite, NextDoWrite, TestWriting, Free, TypeOK
    <3>2. CASE Dequeue(h)
      <4>1. pc[h] = "dequeue" /\ pc \in [IOThreads -> PCs]
        BY <3>2 DEF Dequeue, TypeOK
      <4>2. CASE pc' = [pc EXCEPT ![h] = "idle"] \/ pc' = [pc EXCEPT ![h] = "assign"]
        BY <4>1, <4>2
      <4>3. CASE pc' = [g \in IOThreads |-> IF g = h \/ Assigning(g) THEN "assignRaced" ELSE pc[g]]
        BY <4>1, <4>3 DEF Assigning
      <4> QED
        BY <3>2, <4>2, <4>3 DEF Dequeue, StartAssigning
    <3>3. CASE Assign(h) \/ StoreWriting(h) \/ AsyncWrite(h)
      BY <3>3 DEF Assign, StoreWriting, AsyncWrite, Assigning, TypeOK
    <3> QED
      BY <1>5, <3>1, <3>2, <3>3
  <2>2. Failing' = Failing
    BY <2>1 DEF Failing
  <2>3. UNCHANGED <<reportVars, chain, stream>>
    BY <1>5 DEF PostedDoWrite, NextDoWrite, Dequeue, Assign, StoreWriting, AsyncWrite,
       netVars, eventVars, reportVars
  <2> QED
    BY <2>2, <2>3, NothingReported DEF Ended
<1>6. CASE PollEvent
  <2>1. FewReports' /\ \A w \in Reports : Count(w)' = Count(w)
    BY <1>6, PollKeepsReports DEF ReportInv
  <2>2. UNCHANGED <<written, pc, chain, stream>>
    BY <1>6 DEF PollEvent, writeVars, netVars
  <2>3. Failing' = Failing /\ Ended' = Ended
    BY <2>2 DEF Failing, Ended
  <2>4. "accept" \in Reports /\ "read" \in Reports /\ "write" \in Reports
    BY DEF Reports
  <2> QED
    BY <2>1, <2>2, <2>3, <2>4 DEF ReportInv
<1>7. CASE \/ Poll \/ PollMessage \/ Stop \/ UNCHANGED vars
           \/ \E t \in AppThreads : SendStep(t)
  <2>1. UNCHANGED <<reportVars, pc, chain, stream>>
    BY <1>7 DEF Poll, PollMessage, Stop, SendStep, Send, SendPost, vars, netVars,
       writeVars, eventVars, reportVars
  <2> QED
    BY <2>1, NothingReported DEF Failing, Ended
<1>8. ASSUME NEW h \in IOThreads, NEW ec \in BOOLEAN, Complete(h, ec)
      PROVE  ReportInv'
  BY <1>8, CompletionCounted
<1> QED
  BY <1>1, <1>2, <1>3, <1>4, <1>5, <1>6, <1>7, <1>8 DEF Next, IOStep, HandlerStep, PollStep

LEMMA ReportInit == Init => ReportInv
<1> SUFFICES ASSUME Init PROVE ReportInv
  OBVIOUS
<1>1. /\ reported = <<>> /\ written = <<>> /\ chain = "none" /\ stream = "closed"
      /\ eventQueue = [h \in IOThreads |-> <<>>] /\ pc = [h \in IOThreads |-> "idle"]
  BY DEF Init
<1>2. Failing = {} /\ Ended = 0
  BY <1>1 DEF Failing, Ended
<1>3. \A w : QueuedReports(w) = {}
  BY <1>1 DEF QueuedReports, Places
<1>4. IsFiniteSet({}) /\ Cardinality({}) = 0
  BY FS_EmptySet
<1>5. \A T : NumIn(<<>>, T) = 0
  <2> SUFFICES ASSUME NEW T PROVE NumIn(<<>>, T) = 0
    OBVIOUS
  <2>1. {i \in 1..Len(<<>>) : <<>>[i] \in T} = {}
    OBVIOUS
  <2> QED
    BY <1>4, <2>1 DEF NumIn
<1>6. \A w : Count(w) = 0
  BY <1>1, <1>3, <1>4, <1>5 DEF Count
<1>7. NumIn(written, Failed) = 0
  BY <1>1, <1>5
<1> QED
  BY <1>2, <1>3, <1>4, <1>6, <1>7 DEF ReportInv, FewReports

(***************************************************************************)
(* Every failure is reported exactly once, for any number of io threads    *)
(* and whether or not they race: each failed write, unless the handler     *)
(* that will report it has just begun, and the end of the accept/read      *)
(* chain.                                                                  *)
(***************************************************************************)
THEOREM FailuresReportedOnce == Spec => []FailuresReported
<1>1. TypeOK /\ ReportInv /\ [Next]_vars => ReportInv'
  BY ReportStep
<1>2. Spec => []ReportInv
  BY <1>1, ReportInit, TypeCorrect, PTL DEF Spec
<1> QED
  BY <1>2, TypeCorrect, ReportInvSuffices, PTL

-----------------------------------------------------------------------------
(* Frames.                                                                 *)

\* FramesOnce without a cardinality, and inductive: m_receiveBuffer is empty
\* between reads, and the frame at each place is one of those read, at no other.
FramesInv ==
  /\ receiveBuffer = <<>>
  /\ \A p \in FramePlaces : \E n \in 1..received : FrameAt(p) = <<n>>
  /\ \A n \in 1..received : \E p \in FramePlaces : FrameAt(p) = <<n>>
  /\ \A p, q \in FramePlaces : FrameAt(p) = FrameAt(q) => p = q
  /\ \A h \in IOThreads : \A i, j \in 1..Len(receiveQueue[h]) :
       i < j => receiveQueue[h][i][1] < receiveQueue[h][j][1]

\* The places one by one.
LEMMA PlaceCases ==
  /\ \A p : p \in FramePlaces <=>
       \/ \E i \in 1..Len(delivered) : p = <<"out", i>>
       \/ \E h \in IOThreads : \E i \in 1..Len(receiveQueue[h]) : p = <<"queue", h, i>>
  /\ \A i : FrameAt(<<"out", i>>) = delivered[i]
  /\ \A h, i : FrameAt(<<"queue", h, i>>) = receiveQueue[h][i]
BY DEF FramePlaces, FrameAt

LEMMA PlaceCasesNext ==
  (/\ \A p : p \in FramePlaces <=>
        \/ \E i \in 1..Len(delivered) : p = <<"out", i>>
        \/ \E h \in IOThreads : \E i \in 1..Len(receiveQueue[h]) : p = <<"queue", h, i>>
   /\ \A i : FrameAt(<<"out", i>>) = delivered[i]
   /\ \A h, i : FrameAt(<<"queue", h, i>>) = receiveQueue[h][i])'
BY PlaceCases, PTL

\* There are as many places as frames: the frame at each is a number of its own.
LEMMA FramesCounted ==
  ASSUME TypeOK, FramesInv
  PROVE  IsFiniteSet(FramePlaces) /\ Cardinality(FramePlaces) = received
<1> DEFINE f == [p \in FramePlaces |-> FrameAt(p)[1]]
           N == 1..received
<1>1. received \in Nat
  BY DEF TypeOK
<1>2. \A p \in FramePlaces : FrameAt(p)[1] \in N /\ FrameAt(p) = <<FrameAt(p)[1]>>
  BY DEF FramesInv
<1>3. f \in [FramePlaces -> N]
  BY <1>2
<1>4. \A p, q \in FramePlaces : f[p] = f[q] => p = q
  <2> SUFFICES ASSUME NEW p \in FramePlaces, NEW q \in FramePlaces, f[p] = f[q]
               PROVE  p = q
    OBVIOUS
  <2>1. FrameAt(p) = FrameAt(q)
    BY <1>2
  <2> QED
    BY <2>1 DEF FramesInv
<1>5. \A n \in N : \E p \in FramePlaces : f[p] = n
  <2> SUFFICES ASSUME NEW n \in N
               PROVE  \E p \in FramePlaces : f[p] = n
    OBVIOUS
  <2>1. PICK p \in FramePlaces : FrameAt(p) = <<n>>
    BY DEF FramesInv
  <2>2. f[p] = n
    BY <2>1
  <2> QED
    BY <2>2
<1> HIDE DEF f, N
<1>6. f \in Bijection(FramePlaces, N)
  BY <1>3, <1>4, <1>5, Fun_IsBij
<1>7. ExistsBijection(N, FramePlaces)
  BY <1>6, Fun_ExistsBij, Fun_ExistsBijSymmetric
<1>8. IsFiniteSet(N) /\ Cardinality(N) = received
  BY <1>1, FS_Interval DEF N
<1> QED
  BY <1>7, <1>8, FS_Bijection

\* A frame that is read gets a place of its own, behind those of its thread.
LEMMA ReadPlaces ==
  ASSUME TypeOK, FramesInv, NEW h \in IOThreads, onRead(h, FALSE), ~streamRaced'
  PROVE  FramesInv'
<1>0. PICK n : n = Len(receiveQueue[h])
  OBVIOUS
<1> DEFINE new == <<"queue", h, n + 1>>
<1>1. /\ received' = received + 1 /\ received \in Nat
      /\ receiveBuffer' = <<>> /\ delivered' = delivered
      /\ receiveQueue' = [receiveQueue EXCEPT ![h] = Append(@, <<received + 1>>)]
  BY DEF onRead, FrameRead, FramesInv, TypeOK
<1>2. receiveQueue \in [IOThreads -> Seq(Seq(Nat))]
  BY DEF TypeOK
<1>3. receiveQueue[h] \in Seq(Seq(Nat)) /\ n \in Nat /\ <<received + 1>> \in Seq(Nat)
  BY <1>0, <1>1, <1>2, LenProperties
<1>4. /\ receiveQueue'[h] = Append(receiveQueue[h], <<received + 1>>)
      /\ \A g \in IOThreads \ {h} : receiveQueue'[g] = receiveQueue[g]
  BY <1>1, <1>2
<1>5. /\ Len(receiveQueue'[h]) = n + 1
      /\ \A i \in 1..n : receiveQueue'[h][i] = receiveQueue[h][i]
      /\ receiveQueue'[h][n + 1] = <<received + 1>>
  BY <1>0, <1>3, <1>4, AppendProperties
<1>6. \A g \in IOThreads : \A i \in 1..Len(receiveQueue[g]) :
         i \in 1..Len(receiveQueue'[g]) /\ receiveQueue'[g][i] = receiveQueue[g][i]
  <2> SUFFICES ASSUME NEW g \in IOThreads, NEW i \in 1..Len(receiveQueue[g])
               PROVE  i \in 1..Len(receiveQueue'[g]) /\ receiveQueue'[g][i] = receiveQueue[g][i]
    OBVIOUS
  <2>1. CASE g = h
    BY <1>0, <1>3, <1>5, <2>1
  <2>2. CASE g # h
    BY <1>4, <2>2
  <2> QED
    BY <2>1, <2>2
<1>7. \A g \in IOThreads : \A i \in 1..Len(receiveQueue'[g]) :
         i \in 1..Len(receiveQueue[g]) \/ (g = h /\ i = n + 1)
  <2> SUFFICES ASSUME NEW g \in IOThreads, NEW i \in 1..Len(receiveQueue'[g])
               PROVE  i \in 1..Len(receiveQueue[g]) \/ (g = h /\ i = n + 1)
    OBVIOUS
  <2>1. CASE g = h
    BY <1>0, <1>3, <1>5, <2>1
  <2>2. CASE g # h
    BY <1>4, <2>2
  <2> QED
    BY <2>1, <2>2
<1>8. \A p : p \in FramePlaces' <=> p \in FramePlaces \/ p = new
  <2>1. \A p \in FramePlaces : p \in FramePlaces'
    BY <1>1, <1>6, PlaceCases, PlaceCasesNext
  <2>2. n + 1 \in 1..Len(receiveQueue'[h])
    BY <1>3, <1>5
  <2>3. new \in FramePlaces'
    BY <2>2, PlaceCasesNext
  <2>4. \A p \in FramePlaces' : p \in FramePlaces \/ p = new
    BY <1>1, <1>7, PlaceCases, PlaceCasesNext
  <2> QED
    BY <2>1, <2>3, <2>4
<1>9. \A p \in FramePlaces : FrameAt(p)' = FrameAt(p)
  BY <1>1, <1>6, PlaceCases, PlaceCasesNext
<1>10. FrameAt(new)' = <<received + 1>>
  BY <1>5, PlaceCasesNext
<1> HIDE DEF new
<1>11. \A p \in FramePlaces' : \E k \in 1..received' : FrameAt(p)' = <<k>>
  <2> SUFFICES ASSUME NEW p \in FramePlaces'
               PROVE  \E k \in 1..received' : FrameAt(p)' = <<k>>
    OBVIOUS
  <2>1. CASE p = new
    <3>1. received + 1 \in 1..received'
      BY <1>1
    <3> QED
      BY <1>10, <2>1, <3>1
  <2>2. CASE p \in FramePlaces
    <3>1. PICK k \in 1..received : FrameAt(p) = <<k>>
      BY <2>2 DEF FramesInv
    <3>2. k \in 1..received'
      BY <1>1
    <3> QED
      BY <1>9, <2>2, <3>1, <3>2
  <2> QED
    BY <1>8, <2>1, <2>2
<1>12. \A k \in 1..received' : \E p \in FramePlaces' : FrameAt(p)' = <<k>>
  <2> SUFFICES ASSUME NEW k \in 1..received'
               PROVE  \E p \in FramePlaces' : FrameAt(p)' = <<k>>
    OBVIOUS
  <2>1. CASE k \in 1..received
    <3>1. PICK p \in FramePlaces : FrameAt(p) = <<k>>
      BY <2>1 DEF FramesInv
    <3> QED
      BY <1>8, <1>9, <3>1
  <2>2. CASE k = received + 1
    BY <1>8, <1>10, <2>2
  <2> QED
    BY <1>1, <2>1, <2>2
<1>13. \A p \in FramePlaces : FrameAt(p) # <<received + 1>>
  <2> SUFFICES ASSUME NEW p \in FramePlaces, FrameAt(p) = <<received + 1>>
               PROVE  FALSE
    OBVIOUS
  <2>1. PICK k \in 1..received : FrameAt(p) = <<k>>
    BY DEF FramesInv
  <2>2. <<k>>[1] = <<received + 1>>[1]
    BY <2>1
  <2> QED
    BY <1>1, <2>2
<1>14. \A p, q \in FramePlaces' : FrameAt(p)' = FrameAt(q)' => p = q
  BY <1>8, <1>9, <1>10, <1>13 DEF FramesInv
<1>15. \A g \in IOThreads : \A i, j \in 1..Len(receiveQueue'[g]) :
         i < j => receiveQueue'[g][i][1] < receiveQueue'[g][j][1]
  <2> SUFFICES ASSUME NEW g \in IOThreads, NEW i \in 1..Len(receiveQueue'[g]),
                      NEW j \in 1..Len(receiveQueue'[g]), i < j
               PROVE  receiveQueue'[g][i][1] < receiveQueue'[g][j][1]
    OBVIOUS
  <2>1. CASE i \in 1..Len(receiveQueue[g]) /\ j \in 1..Len(receiveQueue[g])
    BY <1>6, <2>1 DEF FramesInv
  <2>2. CASE g = h /\ i = n + 1
    BY <1>3, <1>5, <2>2
  <2>3. CASE i \in 1..Len(receiveQueue[g]) /\ g = h /\ j = n + 1
    <3>1. <<"queue", g, i>> \in FramePlaces /\ FrameAt(<<"queue", g, i>>) = receiveQueue[g][i]
      BY <2>3, PlaceCases
    <3>2. PICK k \in 1..received : receiveQueue[g][i] = <<k>>
      BY <3>1 DEF FramesInv
    <3>3. receiveQueue'[g][i][1] = k /\ receiveQueue'[g][j][1] = received + 1
      BY <1>5, <1>6, <2>3, <3>2
    <3> QED
      BY <1>1, <3>3
  <2> QED
    BY <1>7, <2>1, <2>2, <2>3
<1> QED
  BY <1>1, <1>11, <1>12, <1>14, <1>15 DEF FramesInv

\* A frame that is handed to onReceive moves from the front of its queue to the
\* end of delivered, and those behind it in the queue move up: every place is
\* filled from one place, and every place empties into one.
LEMMA PollPlaces ==
  ASSUME TypeOK, FramesInv, NEW h \in IOThreads, receiveQueue[h] # <<>>,
         delivered' = Append(delivered, Head(receiveQueue[h])),
         receiveQueue' = [receiveQueue EXCEPT ![h] = Tail(@)],
         UNCHANGED <<received, receiveBuffer>>
  PROVE  FramesInv'
<1>0. PICK n, d : n = Len(receiveQueue[h]) /\ d = Len(delivered)
  OBVIOUS
<1> DEFINE Before(p) == IF p = <<"out", d + 1>> THEN <<"queue", h, 1>>
                        ELSE IF p[1] = "queue" /\ p[2] = h THEN <<"queue", h, p[3] + 1>>
                        ELSE p
           After(q) == IF q = <<"queue", h, 1>> THEN <<"out", d + 1>>
                       ELSE IF q[1] = "queue" /\ q[2] = h THEN <<"queue", h, q[3] - 1>>
                       ELSE q
<1>1. receiveQueue \in [IOThreads -> Seq(Seq(Nat))] /\ delivered \in Seq(Seq(Nat))
  BY DEF TypeOK
<1>2. receiveQueue[h] \in Seq(Seq(Nat)) /\ n \in Nat /\ n > 0 /\ d \in Nat
  BY <1>0, <1>1, LenProperties, EmptySeq
<1>3. /\ receiveQueue'[h] = Tail(receiveQueue[h])
      /\ \A g \in IOThreads \ {h} : receiveQueue'[g] = receiveQueue[g]
  BY <1>1
<1>4. /\ Len(receiveQueue'[h]) = n - 1
      /\ \A i \in 1..(n - 1) : receiveQueue'[h][i] = receiveQueue[h][i + 1]
      /\ Head(receiveQueue[h]) = receiveQueue[h][1] /\ Head(receiveQueue[h]) \in Seq(Nat)
  <2>1. receiveQueue[h] # <<>>
    OBVIOUS
  <2> DEFINE T == Seq(Nat)
             q == receiveQueue[h]
  <2>2. q \in Seq(T) /\ q # <<>>
    BY <1>2, <2>1
  <2> HIDE DEF T, q
  <2>3. /\ Head(q) \in T /\ Len(Tail(q)) = Len(q) - 1
        /\ \A i \in 1..Len(Tail(q)) : Tail(q)[i] = q[i + 1]
    BY <2>2, HeadTailProperties
  <2>4. Head(q) = q[1]
    BY <2>2
  <2> QED
    BY <1>0, <1>3, <2>3, <2>4 DEF T, q
<1>5. /\ Len(delivered') = d + 1 /\ delivered'[d + 1] = receiveQueue[h][1]
      /\ \A i \in 1..d : delivered'[i] = delivered[i]
  BY <1>0, <1>1, <1>4, AppendProperties
<1>6. \A i \in 1..d : Before(<<"out", i>>) = <<"out", i>> /\ <<"out", i>> # <<"out", d + 1>>
  BY <1>2
<1>7. Before(<<"out", d + 1>>) = <<"queue", h, 1>>
  OBVIOUS
<1>8. \A i : Before(<<"queue", h, i>>) = <<"queue", h, i + 1>>
  OBVIOUS
<1>9. \A g \in IOThreads \ {h} : \A i : Before(<<"queue", g, i>>) = <<"queue", g, i>>
  OBVIOUS
<1>10. 1..Len(delivered') = (1..d) \cup {d + 1}
  BY <1>2, <1>5
<1>11. \A i \in 1..(n - 1) : i + 1 \in 1..n
  BY <1>2
<1> HIDE DEF Before, After
<1>11a. \A p \in FramePlaces' :
             \/ \E i \in 1..d : p = <<"out", i>>
             \/ p = <<"out", d + 1>>
             \/ \E i \in 1..(n - 1) : p = <<"queue", h, i>>
             \/ \E g \in IOThreads \ {h} : \E i \in 1..Len(receiveQueue[g]) : p = <<"queue", g, i>>
  <2> SUFFICES ASSUME NEW p \in FramePlaces'
               PROVE  \/ \E i \in 1..d : p = <<"out", i>>
                      \/ p = <<"out", d + 1>>
                      \/ \E i \in 1..(n - 1) : p = <<"queue", h, i>>
                      \/ \E g \in IOThreads \ {h} : \E i \in 1..Len(receiveQueue[g]) :
                           p = <<"queue", g, i>>
    OBVIOUS
  <2>1. \/ \E i \in 1..Len(delivered') : p = <<"out", i>>
        \/ \E g \in IOThreads : \E i \in 1..Len(receiveQueue'[g]) : p = <<"queue", g, i>>
    BY PlaceCasesNext
  <2> QED
    BY <1>3, <1>4, <1>10, <2>1
<1>12. ASSUME NEW p \in FramePlaces'
       PROVE  Before(p) \in FramePlaces /\ FrameAt(p)' = FrameAt(Before(p))
  <2>1. ASSUME NEW i \in 1..d, p = <<"out", i>>
        PROVE  Before(p) \in FramePlaces /\ FrameAt(p)' = FrameAt(Before(p))
    BY <1>5, <1>6, <2>1, <1>0, PlaceCases, PlaceCasesNext
  <2>2. CASE p = <<"out", d + 1>>
    <3>1. 1 \in 1..Len(receiveQueue[h])
      BY <1>0, <1>2
    <3> QED
      BY <1>5, <1>7, <2>2, <3>1, PlaceCases, PlaceCasesNext
  <2>3. ASSUME NEW i \in 1..(n - 1), p = <<"queue", h, i>>
        PROVE  Before(p) \in FramePlaces /\ FrameAt(p)' = FrameAt(Before(p))
    <3>1. i \in 1..Len(receiveQueue'[h]) /\ i + 1 \in 1..Len(receiveQueue[h])
      BY <1>0, <1>4, <1>11
    <3>2. receiveQueue'[h][i] = receiveQueue[h][i + 1]
      BY <1>4
    <3>3. Before(p) = <<"queue", h, i + 1>>
      BY <1>8, <2>3
    <3>4. /\ <<"queue", h, i + 1>> \in FramePlaces
          /\ FrameAt(<<"queue", h, i + 1>>) = receiveQueue[h][i + 1]
      BY <3>1, PlaceCases
    <3>5. FrameAt(p)' = receiveQueue'[h][i]
      BY <2>3, PlaceCasesNext
    <3> QED
      BY <3>2, <3>3, <3>4, <3>5
  <2>4. ASSUME NEW g \in IOThreads \ {h}, NEW i \in 1..Len(receiveQueue[g]),
               p = <<"queue", g, i>>
        PROVE  Before(p) \in FramePlaces /\ FrameAt(p)' = FrameAt(Before(p))
    BY <1>3, <1>9, <2>4, PlaceCases, PlaceCasesNext
  <2> QED
    BY <1>11a, <2>1, <2>2, <2>3, <2>4
<1>13. ASSUME NEW q \in FramePlaces
       PROVE  \E p \in FramePlaces' : Before(p) = q
  <2>1. ASSUME NEW i \in 1..d, q = <<"out", i>>
        PROVE  \E p \in FramePlaces' : Before(p) = q
    BY <1>6, <1>10, <2>1, PlaceCasesNext
  <2>2. CASE q = <<"queue", h, 1>>
    BY <1>7, <1>10, <2>2, PlaceCasesNext
  <2>3. ASSUME NEW i \in 1..n, i # 1, q = <<"queue", h, i>>
        PROVE  \E p \in FramePlaces' : Before(p) = q
    <3>1. i - 1 \in 1..Len(receiveQueue'[h]) /\ (i - 1) + 1 = i
      BY <1>2, <1>4, <2>3
    <3>2. Before(<<"queue", h, i - 1>>) = q
      BY <1>8, <2>3, <3>1
    <3>3. <<"queue", h, i - 1>> \in FramePlaces'
      BY <3>1, PlaceCasesNext
    <3> QED
      BY <3>2, <3>3
  <2>4. ASSUME NEW g \in IOThreads \ {h}, NEW i \in 1..Len(receiveQueue[g]),
               q = <<"queue", g, i>>
        PROVE  \E p \in FramePlaces' : Before(p) = q
    BY <1>3, <1>9, <2>4, PlaceCasesNext
  <2> QED
    BY <1>0, <2>1, <2>2, <2>3, <2>4, PlaceCases
<1>14. ASSUME NEW p \in FramePlaces', NEW q \in FramePlaces', Before(p) = Before(q)
       PROVE  p = q
  <2>1. \A r \in FramePlaces' : After(Before(r)) = r
    <3> SUFFICES ASSUME NEW r \in FramePlaces'
                 PROVE  After(Before(r)) = r
      OBVIOUS
    <3>1. ASSUME NEW i \in 1..d, r = <<"out", i>>
          PROVE  After(Before(r)) = r
      BY <1>6, <3>1 DEF After
    <3>2. CASE r = <<"out", d + 1>>
      BY <1>7, <3>2 DEF After
    <3>3. ASSUME NEW i \in 1..(n - 1), r = <<"queue", h, i>>
          PROVE  After(Before(r)) = r
      <4>1. Before(r) = <<"queue", h, i + 1>> /\ i + 1 # 1 /\ (i + 1) - 1 = i
        BY <1>2, <1>8, <3>3
      <4>2. <<"queue", h, i + 1>> # <<"queue", h, 1>>
        BY <4>1
      <4>3. \A j : <<"queue", h, j>> # <<"queue", h, 1>>
                      => After(<<"queue", h, j>>) = <<"queue", h, j - 1>>
        BY DEF After
      <4>4. After(<<"queue", h, i + 1>>) = <<"queue", h, (i + 1) - 1>>
        BY <4>2, <4>3
      <4> QED
        BY <3>3, <4>1, <4>4
    <3>4. ASSUME NEW g \in IOThreads \ {h}, NEW i \in 1..Len(receiveQueue[g]),
                 r = <<"queue", g, i>>
          PROVE  After(Before(r)) = r
      BY <1>9, <3>4 DEF After
    <3> QED
      BY <1>11a, <3>1, <3>2, <3>3, <3>4
  <2> QED
    BY <1>14, <2>1
<1>15. \A p \in FramePlaces' : \E k \in 1..received' : FrameAt(p)' = <<k>>
  BY <1>12 DEF FramesInv
<1>16. \A k \in 1..received' : \E p \in FramePlaces' : FrameAt(p)' = <<k>>
  BY <1>12, <1>13 DEF FramesInv
<1>17. \A p, q \in FramePlaces' : FrameAt(p)' = FrameAt(q)' => p = q
  BY <1>12, <1>14 DEF FramesInv
<1>18. \A g \in IOThreads : \A i, j \in 1..Len(receiveQueue'[g]) :
         i < j => receiveQueue'[g][i][1] < receiveQueue'[g][j][1]
  <2> SUFFICES ASSUME NEW g \in IOThreads, NEW i \in 1..Len(receiveQueue'[g]),
                      NEW j \in 1..Len(receiveQueue'[g]), i < j
               PROVE  receiveQueue'[g][i][1] < receiveQueue'[g][j][1]
    OBVIOUS
  <2>1. CASE g # h
    BY <1>3, <2>1 DEF FramesInv
  <2>2. CASE g = h
    <3>1. i + 1 \in 1..n /\ j + 1 \in 1..n /\ i + 1 < j + 1
      BY <1>2, <1>4, <1>11, <2>2
    <3>2. receiveQueue[h][i + 1][1] < receiveQueue[h][j + 1][1]
      BY <1>0, <3>1 DEF FramesInv
    <3> QED
      BY <1>4, <2>2, <3>2
  <2> QED
    BY <2>1, <2>2
<1> QED
  BY <1>15, <1>16, <1>17, <1>18 DEF FramesInv

LEMMA FramesStep ==
  ASSUME TypeOK, FramesInv, [Next]_vars, ~streamRaced'
  PROVE  FramesInv'
<1>1. ASSUME UNCHANGED <<received, receiveBuffer, receiveQueue, delivered>>
      PROVE  FramesInv'
  <2>1. FramePlaces' = FramePlaces /\ \A p : FrameAt(p)' = FrameAt(p)
    BY <1>1 DEF FramePlaces, FrameAt
  <2> QED
    BY <1>1, <2>1 DEF FramesInv
<1>2. CASE PollMessage
  <2>1. CASE UNCHANGED <<delivered, receiveQueue>>
    BY <1>1, <1>2, <2>1 DEF PollMessage
  <2>2. ASSUME NEW h \in IOThreads, receiveQueue[h] # <<>>,
               delivered' = Append(delivered, Head(receiveQueue[h])),
               receiveQueue' = [receiveQueue EXCEPT ![h] = Tail(@)]
        PROVE  FramesInv'
    BY <1>2, <2>2, PollPlaces DEF PollMessage
  <2> QED
    BY <1>2, <2>1, <2>2 DEF PollMessage
<1>3. ASSUME NEW h \in IOThreads, NEW ec \in BOOLEAN, onRead(h, ec)
      PROVE  FramesInv'
  <2>1. CASE ec
    BY <1>1, <1>3, <2>1 DEF onRead, readVars
  <2>2. CASE ~ec
    BY <1>3, <2>2, ReadPlaces
  <2> QED
    BY <2>1, <2>2
<1>4. ASSUME \/ Poll \/ PollEvent \/ Stop \/ UNCHANGED vars
             \/ \E t \in AppThreads : SendStep(t)
             \/ \E h \in IOThreads :
                  \/ Run(h) \/ PostedDoWrite(h) \/ HandlerStep(h)
                  \/ \E ec \in BOOLEAN : onAccept(h, ec) \/ Complete(h, ec)
      PROVE  UNCHANGED <<received, receiveBuffer, receiveQueue, delivered>>
  BY <1>4 DEF Called, Poll, PollEvent, Stop, SendStep, Send, SendPost, Run, PostedDoWrite,
     HandlerStep, NextDoWrite, Dequeue, Assign, StoreWriting, AsyncWrite, onWrite,
     onAccept, Complete, vars, readVars
<1> QED
  BY <1>1, <1>2, <1>3, <1>4 DEF Next, IOStep, PollStep

LEMMA FramesInit == Init => FramesInv
<1> SUFFICES ASSUME Init PROVE FramesInv
  OBVIOUS
<1>1. /\ received = 0 /\ receiveBuffer = <<>> /\ delivered = <<>>
      /\ receiveQueue = [h \in IOThreads |-> <<>>]
  BY DEF Init
<1>2. FramePlaces = {}
  BY <1>1 DEF FramePlaces
<1> QED
  BY <1>1, <1>2 DEF FramesInv

(***************************************************************************)
(* What FramesOnce rests on, for those who compose the session: a frame at *)
(* each place, no two of them equal, until two threads meet in the stream. *)
(***************************************************************************)
THEOREM FramesApart == Spec => [](TypeOK /\ (~streamRaced => FramesInv))
<1> DEFINE Inv == ~streamRaced => FramesInv
<1>1. TypeOK /\ Inv /\ [Next]_vars => Inv'
  BY FramesStep, StreamRacedStays
<1>2. Init => Inv
  BY FramesInit
<1> QED
  BY <1>1, <1>2, TypeCorrect, PTL DEF Spec

(***************************************************************************)
(* Until two threads use m_socketStream at once, each frame that was read  *)
(* is in one place, whole and alone, and in order within the queue of the  *)
(* io thread that read it, for any number of frames and io threads and     *)
(* however poll() interleaves with onRead.                                 *)
(***************************************************************************)
THEOREM FramesKeptOnce == Spec => []FramesOnce
<1>1. TypeOK /\ (~streamRaced => FramesInv) => FramesOnce
  BY FramesCounted DEF FramesInv, FramesOnce
<1> QED
  BY <1>1, FramesApart, PTL

=============================================================================
