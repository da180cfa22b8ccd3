---------------------------- MODULE ListenerProofs ----------------------------
(***************************************************************************)
(* Theorems about Listener, for any number of sending threads, sends,      *)
(* polls and connections.                                                  *)
(***************************************************************************)
EXTENDS Listener, SequenceTheorems, FiniteSetTheorems, TLAPS

\* onAccept() has the mutex from the lock to the end of its scope, appends only for
\* a connection it has accepted, and runs the session it appended.
AcceptInv ==
  /\ setup # "run" => accept = "none"
  /\ setup = "unset" => count = 0
  /\ accept \in {"lock", "publish"} => count < MaxSessions
  /\ accept \in {"publish", "run"} <=> mutex = "accept"
  /\ started = IF accept = "run" THEN count - 1 ELSE count

\* poll() has the mutex while it walks, and walks the sessions there are.
PollInv ==
  polling.at = "walk" =>
    mutex = "poll" /\ polling.storage = storage /\ polling.last = count

\* A walk of send() stays among the sessions there are, and covers those there were
\* when send() was called.
SendInv ==
  \A t \in AppThreads :
    /\ sending[t].at # "idle" => Len(sent[t]) > 0
    /\ \A n \in 1..Len(sent[t]) : sent[t][n] <= count
    /\ sending[t].at = "walk" =>
         /\ 1 <= sending[t].next /\ sending[t].last <= count
         /\ sent[t][Len(sent[t])] <= sending[t].last

IInv == TypeOK /\ AcceptInv /\ PollInv /\ SendInv /\ DeafOnlyIfReported

-----------------------------------------------------------------------------
(* The invariant of the lists and the mutex.                               *)

\* A walk that goes on to the next element.
LEMMA WalkGoesOn ==
  ASSUME NEW steps, NEW w \in Walk(steps)
  PROVE  /\ [w EXCEPT !.next = @ + 1] \in Walk(steps)
         /\ [w EXCEPT !.next = @ + 1].at = w.at
         /\ [w EXCEPT !.next = @ + 1].next = w.next + 1
         /\ [w EXCEPT !.next = @ + 1].last = w.last
BY DEF Walk

LEMMA InvInit == Init => IInv
<1> SUFFICES ASSUME Init PROVE IInv
  OBVIOUS
<1>1. NoWalk \in Walk({"idle", "end", "walk"}) /\ NoWalk \in Walk({"idle", "events", "lock", "walk"})
  BY DEF NoWalk, Walk
<1>2. TypeOK
  <2>1. <<>> \in Seq(Failures) /\ <<>> \in Seq(Message) /\ <<>> \in Seq(0..MaxSessions)
    BY EmptySeq
  <2>2. /\ sending \in [AppThreads -> Walk({"idle", "end", "walk"})]
        /\ handed \in [Sessions -> Seq(Message)]
        /\ sent \in [AppThreads -> Seq(0..MaxSessions)]
    BY <1>1, <2>1 DEF Init
  <2> QED
    <3>1. /\ count \in 0..MaxSessions /\ started \in 0..count /\ capacity \in Nat
          /\ count <= capacity /\ storage \in Nat /\ polls \in Nat
      BY BoundsAssumption DEF Init
    <3>2. polling \in Walk({"idle", "events", "lock", "walk"})
      BY <1>1 DEF Init
    <3>3. /\ setup \in {"unset", "set", "run"} /\ mutex \in {"free", "poll", "accept"}
          /\ accept \in {"none", "pending", "lock", "publish", "run"}
          /\ stopped \in BOOLEAN /\ raced \in BOOLEAN
      BY DEF Init
    <3>4. eventQueue \in Seq(Failures) /\ reported \in Seq(Failures)
      BY <2>1 DEF Init
    <3> QED
      BY <2>2, <3>1, <3>2, <3>3, <3>4 DEF TypeOK
<1>3. \A t \in AppThreads : sending[t].at = "idle" /\ Len(sent[t]) = 0
  BY EmptySeq DEF Init, NoWalk
<1>4. Len(eventQueue) = 0 /\ Len(reported) = 0
  BY EmptySeq DEF Init
<1> QED
  BY <1>2, <1>3, <1>4 DEF Init, IInv, AcceptInv, PollInv, SendInv, DeafOnlyIfReported, NoWalk

\* A report is added to the others.
LEMMA ReportTypes ==
  ASSUME TypeOK, NEW what \in Failures, queueFatalEvent(what)
  PROVE  /\ eventQueue' \in Seq(Failures) /\ reported' \in Seq(Failures)
         /\ Len(eventQueue') + Len(reported') = Len(eventQueue) + Len(reported) + 1
<1>1. eventQueue \in Seq(Failures) /\ reported \in Seq(Failures)
  BY DEF TypeOK
<1> QED
  BY <1>1, AppendProperties, LenProperties DEF queueFatalEvent

\* The sessions never become fewer, so the walks of send() stay among them.
LEMMA SendInvMonotone ==
  ASSUME TypeOK, SendInv, UNCHANGED sendVars, count' \in Nat, count <= count'
  PROVE  SendInv'
<1> SUFFICES ASSUME NEW t \in AppThreads
             PROVE  /\ sending[t].at # "idle" => Len(sent[t]) > 0
                    /\ \A n \in 1..Len(sent[t]) : sent[t][n] <= count'
                    /\ sending[t].at = "walk" =>
                         /\ 1 <= sending[t].next /\ sending[t].last <= count'
                         /\ sent[t][Len(sent[t])] <= sending[t].last
  BY DEF SendInv, sendVars
<1>1. /\ sending[t].last \in Nat /\ count \in Nat /\ sent[t] \in Seq(0..MaxSessions)
  BY DEF TypeOK, Walk
<1>2. \A n \in 1..Len(sent[t]) : sent[t][n] \in Nat
  BY <1>1, ElementOfSeq, BoundsAssumption
<1> QED
  BY <1>1, <1>2 DEF SendInv

LEMMA AcceptKeeps ==
  ASSUME IInv, AcceptStep
  PROVE  IInv'
<1> USE DEF IInv
<1>1. /\ count \in Nat /\ capacity \in Nat /\ storage \in Nat /\ MaxSessions \in Nat
      /\ started \in Nat /\ UNCHANGED <<sendVars, pollVars>>
  BY BoundsAssumption DEF TypeOK, AcceptStep, Create, Run, Stop, Lock, Publish, RunSession, onAccept
<1>2. CASE Create \/ Stop \/ Lock
  <2>1. UNCHANGED <<eventVars, listVars>> /\ accept' \in {accept, "publish"}
    BY <1>2 DEF Create, Stop, Lock
  <2>2. TypeOK'
    BY <1>1, <1>2, <2>1 DEF TypeOK, Create, Stop, Lock, eventVars, listVars, sendVars, pollVars
  <2>3. AcceptInv' /\ PollInv'
    BY <1>1, <1>2, <2>1 DEF TypeOK, AcceptInv, PollInv, Create, Stop, Lock, listVars, pollVars
  <2>4. DeafOnlyIfReported'
    BY <1>1, <1>2, <2>1 DEF TypeOK, AcceptInv, DeafOnlyIfReported, Create, Stop, Lock, eventVars
  <2>5. SendInv'
    BY <1>1, <2>1, SendInvMonotone DEF listVars
  <2> QED
    BY <2>2, <2>3, <2>4, <2>5
<1>3. CASE Run
  <2>1. /\ eventQueue' \in Seq(Failures) /\ reported' \in Seq(Failures)
        /\ Len(eventQueue') + Len(reported')
             = Len(eventQueue) + Len(reported) + IF accept' = "none" THEN 1 ELSE 0
        /\ accept' \in {"none", "pending"}
    <3>1. CASE queueFatalEvent("listen") /\ UNCHANGED accept
      BY <1>3, <3>1, ReportTypes DEF Run, Failures, AcceptInv
    <3>2. CASE accept' = "pending" /\ UNCHANGED eventVars
      BY <3>2, LenProperties DEF TypeOK, eventVars
    <3> QED
      BY <1>3, <3>1, <3>2 DEF Run
  <2>2. TypeOK'
    BY <1>1, <1>3, <2>1 DEF TypeOK, Run, listVars, sendVars, pollVars
  <2>3. AcceptInv' /\ PollInv'
    BY <1>1, <1>3, <2>1 DEF TypeOK, AcceptInv, PollInv, Run, listVars, pollVars
  <2>4. DeafOnlyIfReported'
    BY <1>3, <2>1, LenProperties DEF TypeOK, DeafOnlyIfReported, Run
  <2>5. SendInv'
    BY <1>1, <1>3, SendInvMonotone DEF Run, listVars
  <2> QED
    BY <2>2, <2>3, <2>4, <2>5
<1>4. ASSUME NEW ec \in BOOLEAN, onAccept(ec)
      PROVE  IInv'
  <2>1. /\ eventQueue' \in Seq(Failures) /\ reported' \in Seq(Failures)
        /\ Len(eventQueue') + Len(reported')
             = Len(eventQueue) + Len(reported) + IF accept' = "none" THEN 1 ELSE 0
        /\ accept' \in {"none", "lock"} /\ (accept' = "lock" => count < MaxSessions)
    <3>1. CASE queueFatalEvent("accept") /\ accept' = "none"
      BY <3>1, ReportTypes DEF Failures
    <3>2. CASE accept' = "lock" /\ count < MaxSessions /\ UNCHANGED eventVars
      BY <3>2, LenProperties DEF TypeOK, eventVars
    <3> QED
      BY <1>4, <3>1, <3>2 DEF onAccept
  <2>2. TypeOK'
    BY <1>1, <1>4, <2>1 DEF TypeOK, onAccept, listVars, sendVars, pollVars
  <2>3. AcceptInv' /\ PollInv'
    BY <1>1, <1>4, <2>1 DEF TypeOK, AcceptInv, PollInv, onAccept, listVars, pollVars
  <2>4. DeafOnlyIfReported'
    BY <1>4, <2>1, LenProperties DEF TypeOK, AcceptInv, DeafOnlyIfReported, onAccept
  <2>5. SendInv'
    BY <1>1, <1>4, SendInvMonotone DEF onAccept, listVars
  <2> QED
    BY <2>2, <2>3, <2>4, <2>5
<1>5. CASE Publish
  <2>1. count' \in 0..MaxSessions /\ capacity' \in Nat /\ count' <= capacity' /\ storage' \in Nat
    BY <1>1, <1>5 DEF Publish, TypeOK, AcceptInv
  <2>2. TypeOK'
    BY <1>1, <1>5, <2>1 DEF TypeOK, Publish, eventVars, sendVars, pollVars
  <2>3. AcceptInv' /\ PollInv'
    BY <1>1, <1>5 DEF TypeOK, AcceptInv, PollInv, Publish, pollVars
  <2>4. DeafOnlyIfReported'
    BY <1>5 DEF DeafOnlyIfReported, Publish, eventVars
  <2>5. SendInv'
    BY <1>1, <1>5, SendInvMonotone DEF Publish
  <2> QED
    BY <2>2, <2>3, <2>4, <2>5
<1>6. CASE RunSession
  <2>1. started' \in 0..count'
    BY <1>1, <1>6 DEF RunSession, TypeOK, AcceptInv
  <2>2. TypeOK'
    BY <1>1, <1>6, <2>1 DEF TypeOK, RunSession, eventVars, sendVars, pollVars
  <2>3. AcceptInv' /\ PollInv'
    BY <1>1, <1>6 DEF TypeOK, AcceptInv, PollInv, RunSession, pollVars
  <2>4. DeafOnlyIfReported'
    BY <1>6 DEF DeafOnlyIfReported, RunSession, eventVars
  <2>5. SendInv'
    BY <1>1, <1>6, SendInvMonotone DEF RunSession
  <2> QED
    BY <2>2, <2>3, <2>4, <2>5
<1> QED
  BY <1>2, <1>3, <1>4, <1>5, <1>6 DEF AcceptStep

LEMMA PollKeeps ==
  ASSUME IInv, PollStep
  PROVE  IInv'
<1> USE DEF IInv
<1>1. UNCHANGED <<acceptVars, listVars, sendVars>> /\ polls' \in Nat
  BY DEF PollStep, Poll, PollEvent, PollLock, PollNext, PollReenters, TypeOK
<1>2. /\ eventQueue' \in Seq(Failures) /\ reported' \in Seq(Failures)
      /\ Len(eventQueue') + Len(reported') = Len(eventQueue) + Len(reported)
  <2>1. CASE PollEvent /\ eventQueue # <<>>
    <3>1. eventQueue \in Seq(Failures) /\ reported \in Seq(Failures)
      BY DEF TypeOK
    <3>2. /\ Head(eventQueue) \in Failures /\ Tail(eventQueue) \in Seq(Failures)
          /\ Len(Tail(eventQueue)) = Len(eventQueue) - 1
      BY <2>1, <3>1, HeadTailProperties
    <3>3. /\ Append(reported, Head(eventQueue)) \in Seq(Failures)
          /\ Len(Append(reported, Head(eventQueue))) = Len(reported) + 1
      BY <3>1, <3>2, AppendProperties
    <3>4. reported' = Append(reported, Head(eventQueue)) /\ eventQueue' = Tail(eventQueue)
      BY <2>1 DEF PollEvent
    <3>5. Len(eventQueue) \in Nat /\ Len(reported) \in Nat
      BY <3>1, LenProperties
    <3> QED
      BY <3>2, <3>3, <3>4, <3>5
  <2>2. CASE UNCHANGED eventVars
    BY <2>2 DEF eventVars, TypeOK
  <2> QED
    BY <2>1, <2>2 DEF PollStep, Poll, PollEvent, PollLock, PollNext, PollReenters
<1>3. polling' \in Walk({"idle", "events", "lock", "walk"}) /\ mutex' \in {"free", "poll", "accept"}
  <2>1. polling.next \in Nat /\ polling.last \in Nat /\ polling.storage \in Nat
    BY DEF TypeOK, Walk
  <2>2. CASE Poll \/ PollReenters
    BY <2>2 DEF Poll, PollReenters, TypeOK, Walk
  <2>3. CASE PollEvent
    BY <2>3 DEF PollEvent, TypeOK, Walk
  <2>4. CASE PollLock
    BY <2>1, <2>4 DEF PollLock, TypeOK, Walk
  <2>5. CASE PollNext
    <3>1. polling \in Walk({"idle", "events", "lock", "walk"})
      BY DEF TypeOK
    <3>2. /\ NoWalk \in Walk({"idle", "events", "lock", "walk"})
          /\ [polling EXCEPT !.next = @ + 1] \in Walk({"idle", "events", "lock", "walk"})
      BY <3>1, WalkGoesOn DEF NoWalk, Walk
    <3> QED
      BY <2>5, <3>2 DEF PollNext, TypeOK
  <2> QED
    BY <2>2, <2>3, <2>4, <2>5 DEF PollStep
<1>4. TypeOK'
  BY <1>1, <1>2, <1>3 DEF TypeOK, acceptVars, listVars, sendVars
<1>5. PollInv'
  BY <1>1 DEF PollStep, Poll, PollEvent, PollLock, PollNext, PollReenters, TypeOK, PollInv, Walk,
              NoWalk, listVars
<1>6. mutex = "accept" <=> mutex' = "accept"
  BY DEF PollStep, Poll, PollEvent, PollLock, PollNext, PollReenters, PollInv
<1>7. AcceptInv'
  BY <1>1, <1>6 DEF AcceptInv, acceptVars, listVars
<1>8. SendInv' /\ DeafOnlyIfReported'
  BY <1>1, <1>2 DEF SendInv, DeafOnlyIfReported, acceptVars, listVars, sendVars
<1> QED
  BY <1>4, <1>5, <1>7, <1>8

\* A step of send() touches the lists of its own thread only, and of the session it
\* has come to.
LEMMA SendLocal ==
  ASSUME IInv, NEW t \in AppThreads, SendStep(t)
  PROVE  /\ UNCHANGED <<acceptVars, eventVars, mutex, listVars, pollVars>>
         /\ \A u \in AppThreads \ {t} : sending'[u] = sending[u] /\ sent'[u] = sent[u]
         /\ sending' \in [AppThreads -> Walk({"idle", "end", "walk"})]
         /\ sent' \in [AppThreads -> Seq(0..MaxSessions)]
         /\ handed' \in [Sessions -> Seq(Message)]
         /\ raced' \in BOOLEAN
<1>1. /\ sending \in [AppThreads -> Walk({"idle", "end", "walk"})]
      /\ sent \in [AppThreads -> Seq(0..MaxSessions)] /\ handed \in [Sessions -> Seq(Message)]
      /\ count \in 0..MaxSessions /\ storage \in Nat /\ raced \in BOOLEAN
      /\ MaxSessions \in Nat
  BY BoundsAssumption DEF IInv, TypeOK
<1>2. /\ sending[t].next \in Nat /\ sending[t].last \in Nat /\ sending[t].storage \in Nat
  BY <1>1 DEF Walk
<1>3. NoWalk \in Walk({"idle", "end", "walk"})
  BY DEF NoWalk, Walk
<1>4. CASE Send(t)
  <2>1. Append(sent[t], count) \in Seq(0..MaxSessions)
    BY <1>1, AppendProperties
  <2>2. [NoWalk EXCEPT !.at = "end", !.storage = storage] \in Walk({"idle", "end", "walk"})
    BY <1>1 DEF NoWalk, Walk
  <2> QED
    BY <1>1, <1>4, <2>1, <2>2 DEF Send
<1>5. CASE SendEnd(t)
  <2>1. [at |-> "walk", storage |-> storage, next |-> 1, last |-> count]
          \in Walk({"idle", "end", "walk"})
    BY <1>1, <1>2 DEF Walk
  <2> QED
    BY <1>1, <1>3, <1>5, <2>1 DEF SendEnd
<1>6. CASE SendNext(t)
  <2>1. sending[t].at = "walk" /\ 1 <= sending[t].next /\ sending[t].last <= count
        /\ Len(sent[t]) > 0
    BY <1>6 DEF SendNext, IInv, SendInv
  <2>2. NextMessage(t) \in Message
    BY <1>1, <2>1, LenProperties DEF NextMessage, Message
  <2>3. sending[t].next <= sending[t].last =>
          /\ sending[t].next \in Sessions
          /\ Append(handed[sending[t].next], NextMessage(t)) \in Seq(Message)
    BY <1>1, <1>2, <2>1, <2>2, AppendProperties DEF Sessions
  <2>4. [sending[t] EXCEPT !.next = @ + 1] \in Walk({"idle", "end", "walk"})
    BY <1>1, WalkGoesOn
  <2>5. /\ UNCHANGED <<acceptVars, eventVars, mutex, listVars, pollVars, sent>>
        /\ raced' \in {raced, TRUE}
        /\ \/ sending' = [sending EXCEPT ![t] = NoWalk]
           \/ sending' = [sending EXCEPT ![t] = [sending[t] EXCEPT !.next = @ + 1]]
    BY <1>6 DEF SendNext
  <2>6. sending' \in [AppThreads -> Walk({"idle", "end", "walk"})]
        /\ \A u \in AppThreads \ {t} : sending'[u] = sending[u]
    BY <1>1, <1>3, <2>4, <2>5
  <2>7. handed' \in [Sessions -> Seq(Message)]
    BY <1>1, <1>6, <2>3 DEF SendNext
  <2> QED
    BY <1>1, <2>5, <2>6, <2>7
<1> QED
  BY <1>4, <1>5, <1>6 DEF SendStep

LEMMA SendKeeps ==
  ASSUME IInv, NEW t \in AppThreads, SendStep(t)
  PROVE  IInv'
<1>1. TypeOK'
  BY SendLocal DEF IInv, TypeOK, acceptVars, eventVars, listVars, pollVars
<1>2. AcceptInv' /\ PollInv' /\ DeafOnlyIfReported'
  BY SendLocal DEF IInv, AcceptInv, PollInv, DeafOnlyIfReported, acceptVars, eventVars,
                   listVars, pollVars
<1>3. SendInv'
  <2>1. count' = count /\ count \in 0..MaxSessions /\ MaxSessions \in Nat
        /\ sent[t] \in Seq(0..MaxSessions) /\ Len(sent[t]) \in Nat
        /\ sending[t].next \in Nat
    BY SendLocal, LenProperties, BoundsAssumption DEF IInv, TypeOK, listVars, Walk
  <2>2. ASSUME NEW u \in AppThreads \ {t}
        PROVE  /\ sending'[u].at # "idle" => Len(sent'[u]) > 0
               /\ \A n \in 1..Len(sent'[u]) : sent'[u][n] <= count'
               /\ sending'[u].at = "walk" =>
                    /\ 1 <= sending'[u].next /\ sending'[u].last <= count'
                    /\ sent'[u][Len(sent'[u])] <= sending'[u].last
    BY <2>1, SendLocal DEF IInv, SendInv
  <2>3. /\ sending'[t].at # "idle" => Len(sent'[t]) > 0
        /\ \A n \in 1..Len(sent'[t]) : sent'[t][n] <= count'
        /\ sending'[t].at = "walk" =>
             /\ 1 <= sending'[t].next /\ sending'[t].last <= count'
             /\ sent'[t][Len(sent'[t])] <= sending'[t].last
    <3>0. /\ count' = count /\ count \in Nat /\ Len(sent[t]) \in Nat
          /\ sending[t].next \in Nat
          /\ \A n \in 1..Len(sent[t]) : sent[t][n] <= count
      BY <2>1 DEF IInv, SendInv
    <3>1. CASE Send(t)
      <4>1. sent'[t] = Append(sent[t], count) /\ sending'[t].at # "walk"
        BY <3>1 DEF Send, IInv, TypeOK, NoWalk
      <4>2. /\ Len(sent'[t]) = Len(sent[t]) + 1
            /\ \A n \in 1..Len(sent[t]) : sent'[t][n] = sent[t][n]
            /\ sent'[t][Len(sent[t]) + 1] = count
        BY <2>1, <4>1, AppendProperties
      <4>4. \A n \in 1..Len(sent'[t]) : n \in 1..Len(sent[t]) \/ n = Len(sent[t]) + 1
        BY <3>0, <4>2
      <4>5. \A n \in 1..Len(sent'[t]) : sent'[t][n] <= count'
        <5> SUFFICES ASSUME NEW n \in 1..Len(sent'[t])
                     PROVE  sent'[t][n] <= count
          BY <3>0
        <5>1. CASE n \in 1..Len(sent[t])
          BY <3>0, <4>2, <5>1
        <5>2. CASE n = Len(sent[t]) + 1
          BY <3>0, <4>2, <5>2
        <5> QED
          BY <4>4, <5>1, <5>2
      <4>6. Len(sent'[t]) > 0
        BY <3>0, <4>2
      <4> QED
        BY <4>1, <4>5, <4>6
    <3>2. CASE SendEnd(t)
      <4>1. sent' = sent /\ sending[t].at = "end"
        BY <3>2 DEF SendEnd
      <4>2. \/ sending'[t].at = "idle"
            \/ sending'[t].at = "walk" /\ sending'[t].next = 1 /\ sending'[t].last = count
        BY <3>2 DEF SendEnd, IInv, TypeOK, NoWalk, Walk
      <4>3. Len(sent[t]) > 0
        BY <4>1 DEF IInv, SendInv
      <4>4. \A n \in 1..Len(sent'[t]) : sent'[t][n] <= count'
        BY <3>0, <4>1
      <4>5. sent[t][Len(sent[t])] <= count
        BY <3>0, <4>3
      <4> QED
        BY <3>0, <4>1, <4>2, <4>3, <4>4, <4>5
    <3>3. CASE SendNext(t)
      <4>1. sent' = sent /\ sending[t].at = "walk"
        BY <3>3 DEF SendNext
      <4>2. \/ sending'[t].at = "idle"
            \/ sending'[t].next = sending[t].next + 1 /\ sending'[t].last = sending[t].last
        <5>1. sending \in [AppThreads -> Walk({"idle", "end", "walk"})]
          BY DEF IInv, TypeOK
        <5> DEFINE w == [sending[t] EXCEPT !.next = @ + 1]
        <5>2. \/ sending'[t] = NoWalk
              \/ sending'[t] = w
          BY <3>3, <5>1 DEF SendNext
        <5>3. w.next = sending[t].next + 1 /\ w.last = sending[t].last
          BY <5>1, WalkGoesOn
        <5>4. NoWalk.at = "idle"
          BY DEF NoWalk
        <5> HIDE DEF w
        <5> QED
          BY <5>2, <5>3, <5>4
      <4>3. /\ Len(sent[t]) > 0
            /\ 1 <= sending[t].next /\ sending[t].last <= count
            /\ sent[t][Len(sent[t])] <= sending[t].last
        BY <4>1 DEF IInv, SendInv
      <4>4. \A n \in 1..Len(sent'[t]) : sent'[t][n] <= count'
        BY <3>0, <4>1
      <4>5. sending'[t].at = "walk" =>
              1 <= sending'[t].next /\ sending'[t].last = sending[t].last
        BY <3>0, <4>2, <4>3
      <4> QED
        BY <3>0, <4>1, <4>3, <4>4, <4>5
    <3> QED
      BY <3>1, <3>2, <3>3 DEF SendStep
  <2> QED
    BY <2>2, <2>3 DEF SendInv
<1> QED
  BY <1>1, <1>2, <1>3 DEF IInv

LEMMA InvStep == IInv /\ [Next]_vars => IInv'
<1> SUFFICES ASSUME IInv, [Next]_vars PROVE IInv'
  OBVIOUS
<1>1. CASE UNCHANGED vars
  BY <1>1 DEF vars, acceptVars, eventVars, listVars, sendVars, pollVars, IInv, TypeOK, AcceptInv,
              PollInv, SendInv, DeafOnlyIfReported
<1> QED
  BY <1>1, AcceptKeeps, PollKeeps, SendKeeps DEF Next

LEMMA Invariant == Spec => []IInv
BY InvInit, InvStep, PTL DEF Spec

(***************************************************************************)
(* Every reachable state has its types: no walk leaves the sessions there  *)
(* may be, and no more of them are run() than were accepted.               *)
(***************************************************************************)
THEOREM TypeCorrect == Spec => []TypeOK
BY Invariant, PTL DEF IInv

(***************************************************************************)
(* While poll() walks m_sessions, callbacks included, onAccept() neither   *)
(* moves nor extends it, for any number of polls and connections.          *)
(***************************************************************************)
THEOREM PollIsUndisturbed == Spec => []PollUndisturbed
<1>1. IInv => PollUndisturbed
  BY DEF IInv, AcceptInv, PollInv, PollUndisturbed
<1> QED
  BY <1>1, Invariant, PTL

(***************************************************************************)
(* A listener that accepts nothing more has reported why, once, and one    *)
(* that still accepts has reported nothing, whenever poll() looks.         *)
(***************************************************************************)
THEOREM DeafIsReported == Spec => []DeafOnlyIfReported
BY Invariant, PTL DEF IInv

-----------------------------------------------------------------------------
(* What the sessions are handed.                                           *)

\* Of what a session was handed, h: nothing of t beyond its k-th send(), nothing of t
\* out of order, and among it m.
UpTo(h, t, k) == \A i \in 1..Len(h) : h[i].from = t => h[i].seq <= k
Ordered(h, t) ==
  \A i, j \in 1..Len(h) : i < j /\ h[i].from = t /\ h[j].from = t => h[i].seq < h[j].seq
Has(h, m) == \E i \in 1..Len(h) : h[i] = m

LEMMA HandedOneMore ==
  ASSUME NEW h \in Seq(Message), NEW m \in Message, NEW t \in AppThreads,
         NEW k \in Int, NEW l \in Int, UpTo(h, t, k), Ordered(h, t)
  PROVE  /\ m.from # t => UpTo(Append(h, m), t, k) /\ Ordered(Append(h, m), t)
         /\ m.from = t /\ k < m.seq /\ m.seq <= l =>
              UpTo(Append(h, m), t, l) /\ Ordered(Append(h, m), t)
         /\ Has(Append(h, m), m)
         /\ \A x \in Message : Has(h, x) => Has(Append(h, m), x)
<1> DEFINE g == Append(h, m)
<1>1. /\ Len(h) \in Nat /\ Len(g) = Len(h) + 1
      /\ \A i \in 1..Len(h) : g[i] = h[i]
      /\ g[Len(h) + 1] = m
  BY AppendProperties, LenProperties
<1>2. \A i \in 1..Len(h) : h[i] \in Message /\ h[i].seq \in Nat
  <2>1. \A i \in 1..Len(h) : h[i] \in Message
    BY ElementOfSeq
  <2>2. \A x \in Message : x.seq \in Nat
    BY DEF Message
  <2> QED
    BY <2>1, <2>2
<1>3. m.seq \in Nat
  BY DEF Message
<1> HIDE DEF g
<1>4. m.from # t => UpTo(g, t, k) /\ Ordered(g, t)
  BY <1>1 DEF UpTo, Ordered
<1>5. m.from = t /\ k < m.seq /\ m.seq <= l => UpTo(g, t, l) /\ Ordered(g, t)
  <2> SUFFICES ASSUME m.from = t, k < m.seq, m.seq <= l
               PROVE  UpTo(g, t, l) /\ Ordered(g, t)
    OBVIOUS
  <2>1. \A i \in 1..Len(h) : h[i].from = t => h[i].seq < m.seq
    BY <1>2, <1>3 DEF UpTo
  <2>2. UpTo(g, t, l)
    BY <1>1, <1>2, <1>3, <2>1 DEF UpTo
  <2>3. Ordered(g, t)
    <3> SUFFICES ASSUME NEW i \in 1..Len(g), NEW j \in 1..Len(g), i < j,
                        g[i].from = t, g[j].from = t
                 PROVE  g[i].seq < g[j].seq
      BY DEF Ordered
    <3>1. i \in 1..Len(h) /\ g[i] = h[i]
      BY <1>1
    <3>2. CASE j \in 1..Len(h)
      BY <1>1, <3>1, <3>2 DEF Ordered
    <3>3. CASE j = Len(h) + 1
      BY <1>1, <2>1, <3>1, <3>3
    <3> QED
      BY <1>1, <3>2, <3>3
  <2> QED
    BY <2>2, <2>3
<1>6. Has(g, m) /\ \A x \in Message : Has(h, x) => Has(g, x)
  BY <1>1 DEF Has
<1> QED
  BY <1>4, <1>5, <1>6 DEF g

\* The last send() of t that session s may have been handed the message of.
Done(t, s) ==
  IF sending[t].at = "idle" \/ (sending[t].at = "walk" /\ s < sending[t].next)
    THEN Len(sent[t]) ELSE Len(sent[t]) - 1

\* What holds between the sends of t and what session s was handed: nothing is ahead or
\* out of order, the walk under way has handed its message to the sessions behind it,
\* and every send() that has returned to every session of its time.
HandedTo(t, s) ==
  /\ UpTo(handed[s], t, Done(t, s))
  /\ Ordered(handed[s], t)
  /\ sending[t].at = "walk" /\ s < sending[t].next => Has(handed[s], NextMessage(t))
  /\ ~raced => \A n \in 1..Returned(t) :
                 s <= sent[t][n] => Has(handed[s], [from |-> t, seq |-> n])

HandedInv == \A t \in AppThreads, s \in Sessions : HandedTo(t, s)

LEMMA HandedInit == Init => HandedInv
<1> SUFFICES ASSUME Init, NEW t \in AppThreads, NEW s \in Sessions
             PROVE  HandedTo(t, s)
  BY DEF HandedInv
<1>1. /\ handed[s] = <<>> /\ sent[t] = <<>> /\ sending[t].at = "idle"
  BY DEF Init, NoWalk
<1>2. Len(handed[s]) = 0 /\ Len(sent[t]) = 0
  BY <1>1
<1> QED
  BY <1>1, <1>2 DEF HandedTo, UpTo, Ordered, Has, Returned

LEMMA HandedFrame ==
  ASSUME HandedInv, UNCHANGED sendVars
  PROVE  HandedInv'
BY DEF HandedInv, HandedTo, UpTo, Ordered, Has, Done, Returned, NextMessage, sendVars

LEMMA NextMessageTypes ==
  ASSUME IInv, NEW t \in AppThreads, sending[t].at # "idle"
  PROVE  /\ NextMessage(t) \in Message
         /\ NextMessage(t).from = t /\ NextMessage(t).seq = Len(sent[t])
<1>1. Len(sent[t]) \in Nat /\ Len(sent[t]) > 0
  BY LenProperties DEF IInv, TypeOK, SendInv
<1> QED
  BY <1>1 DEF NextMessage, Message

\* A step of t disturbs nothing of what another thread has handed.
LEMMA OthersKeep ==
  ASSUME IInv, HandedInv, NEW t \in AppThreads, SendStep(t),
         NEW u \in AppThreads \ {t}, NEW s \in Sessions
  PROVE  HandedTo(u, s)'
<1>1. /\ sending'[u] = sending[u] /\ sent'[u] = sent[u]
      /\ handed[s] \in Seq(Message) /\ handed'[s] \in Seq(Message)
      /\ sent[u] \in Seq(0..MaxSessions) /\ Len(sent[u]) \in Nat
  BY SendLocal, LenProperties DEF IInv, TypeOK
<1>2. Done(u, s)' = Done(u, s) /\ Returned(u)' = Returned(u) /\ NextMessage(u)' = NextMessage(u)
  BY <1>1 DEF Done, Returned, NextMessage
<1>3. ~raced' => ~raced
  BY DEF SendStep, Send, SendEnd, SendNext
<1>4. HandedTo(u, s) /\ Done(u, s) \in Int
  BY <1>1 DEF HandedInv, Done
<1>5. CASE handed'[s] = handed[s]
  BY <1>1, <1>2, <1>3, <1>4, <1>5 DEF HandedTo
<1>6. CASE handed'[s] = Append(handed[s], NextMessage(t)) /\ sending[t].at = "walk"
  <2>1. NextMessage(t) \in Message /\ NextMessage(t).from = t
    BY <1>6, NextMessageTypes
  <2>2. /\ UpTo(handed'[s], u, Done(u, s)) /\ Ordered(handed'[s], u)
        /\ \A x \in Message : Has(handed[s], x) => Has(handed'[s], x)
    BY <1>1, <1>4, <1>6, <2>1, HandedOneMore DEF HandedTo
  <2>3. \A n \in 1..Returned(u) : [from |-> u, seq |-> n] \in Message
    BY <1>1 DEF Returned, Message
  <2>4. sending[u].at = "walk" => NextMessage(u) \in Message
    BY NextMessageTypes
  <2> QED
    BY <1>1, <1>2, <1>3, <1>4, <2>2, <2>3, <2>4 DEF HandedTo
<1> QED
  BY <1>5, <1>6 DEF SendStep, Send, SendEnd, SendNext, IInv, TypeOK

\* The thread's own steps: a send() begins, gets its end, or goes on to a session.
LEMMA SendHands ==
  ASSUME IInv, HandedInv, NEW t \in AppThreads, Send(t), NEW s \in Sessions
  PROVE  HandedTo(t, s)'
<1>1. /\ sent[t] \in Seq(0..MaxSessions) /\ Len(sent[t]) \in Nat /\ count \in Int
      /\ count \in 0..MaxSessions /\ sending[t].at = "idle"
      /\ sent'[t] = Append(sent[t], count) /\ handed' = handed /\ raced' = raced
  BY LenProperties, BoundsAssumption DEF Send, IInv, TypeOK
<1>2. /\ Len(sent'[t]) = Len(sent[t]) + 1
      /\ \A n \in 1..Len(sent[t]) : sent'[t][n] = sent[t][n]
      /\ sent'[t][Len(sent[t]) + 1] = count
  BY <1>1, AppendProperties
<1>3. HandedTo(t, s) /\ Done(t, s) = Len(sent[t]) /\ Returned(t) = Len(sent[t])
  BY <1>1 DEF HandedInv, Done, Returned
<1>4. handed[s] \in Seq(Message) /\ Len(handed[s]) \in Nat
      /\ \A i \in 1..Len(handed[s]) : handed[s][i].seq \in Nat
  <2>1. handed[s] \in Seq(Message)
    BY DEF IInv, TypeOK
  <2>2. \A i \in 1..Len(handed[s]) : handed[s][i] \in Message
    BY <2>1, ElementOfSeq
  <2>3. \A x \in Message : x.seq \in Nat
    BY DEF Message
  <2> QED
    BY <2>1, <2>2, <2>3, LenProperties
<1>5. CASE setup = "unset" /\ UNCHANGED sending
  <2>1. Done(t, s)' = Len(sent[t]) + 1 /\ Returned(t)' = Len(sent[t]) + 1
    BY <1>1, <1>2, <1>5 DEF Done, Returned
  <2>2. count = 0 /\ s > 0
    BY <1>5 DEF IInv, AcceptInv, Sessions
  <2>3. UpTo(handed[s], t, Len(sent[t]) + 1)
    BY <1>1, <1>3, <1>4 DEF HandedTo, UpTo
  <2>4. \A n \in 1..(Len(sent[t]) + 1) : s <= sent'[t][n] => n \in 1..Len(sent[t])
    BY <1>1, <1>2, <2>2 DEF Sessions
  <2> QED
    BY <1>1, <1>2, <1>3, <1>5, <2>1, <2>3, <2>4 DEF HandedTo
<1>6. CASE sending'[t].at = "end"
  <2>1. Done(t, s)' = Len(sent[t]) /\ Returned(t)' = Len(sent[t])
    BY <1>1, <1>2, <1>6 DEF Done, Returned
  <2> QED
    BY <1>1, <1>2, <1>3, <1>6, <2>1 DEF HandedTo
<1> QED
  BY <1>5, <1>6 DEF Send, IInv, TypeOK, NoWalk

\* A walk that ends, at its end or in memory that was freed.
LEMMA WalkEnds ==
  ASSUME IInv, HandedInv, NEW t \in AppThreads, NEW s \in Sessions,
         sending[t].at # "idle", sending' = [sending EXCEPT ![t] = NoWalk],
         handed' = handed, sent' = sent,
         \/ raced' = TRUE
         \/ raced' = raced /\ sending[t].at = "walk" /\ sending[t].next > sending[t].last
  PROVE  HandedTo(t, s)'
<1>1. /\ sent[t] \in Seq(0..MaxSessions) /\ Len(sent[t]) \in Nat /\ sending'[t].at = "idle"
  BY LenProperties DEF IInv, TypeOK, NoWalk
<1>2. /\ Done(t, s)' = Len(sent[t]) /\ Returned(t)' = Len(sent[t])
      /\ Returned(t) = Len(sent[t]) - 1 /\ HandedTo(t, s)
      /\ Done(t, s) \in Int /\ Done(t, s) <= Len(sent[t])
  BY <1>1 DEF Done, Returned, HandedInv
<1>3. UpTo(handed[s], t, Len(sent[t]))
  <2>1. \A i \in 1..Len(handed[s]) : handed[s][i] \in Message
    BY ElementOfSeq DEF IInv, TypeOK
  <2>2. \A x \in Message : x.seq \in Nat
    BY DEF Message
  <2>3. UpTo(handed[s], t, Done(t, s))
    BY <1>2 DEF HandedTo
  <2> SUFFICES ASSUME NEW i \in 1..Len(handed[s]), handed[s][i].from = t
               PROVE  handed[s][i].seq <= Len(sent[t])
    BY DEF UpTo
  <2>4. handed[s][i].seq \in Nat /\ handed[s][i].seq <= Done(t, s)
    BY <2>1, <2>2, <2>3 DEF UpTo
  <2> QED
    BY <1>1, <1>2, <2>4
<1>4. ASSUME ~raced', NEW n \in 1..Len(sent[t]), s <= sent[t][n]
      PROVE  Has(handed[s], [from |-> t, seq |-> n])
  <2>1. ~raced /\ sending[t].at = "walk" /\ sending[t].next > sending[t].last
    BY <1>4
  <2>2. CASE n = Len(sent[t])
    <3>1. s < sending[t].next
      <4>1. sent[t][Len(sent[t])] \in Nat /\ sent[t][Len(sent[t])] <= sending[t].last
        BY <1>1, <2>1, <2>2, ElementOfSeq, BoundsAssumption DEF IInv, SendInv
      <4>2. sending[t].next \in Nat /\ sending[t].last \in Nat
        BY DEF IInv, TypeOK, Walk
      <4> QED
        BY <1>4, <2>1, <2>2, <4>1, <4>2 DEF Sessions
    <3> QED
      BY <1>2, <2>1, <2>2, <3>1 DEF HandedTo, NextMessage
  <2>3. CASE n # Len(sent[t])
    BY <1>1, <1>2, <1>4, <2>1, <2>3 DEF HandedTo
  <2> QED
    BY <2>2, <2>3
<1>5. UpTo(handed[s], t, Done(t, s))' /\ Ordered(handed[s], t)'
  <2>1. Ordered(handed'[s], t)
    BY <1>2 DEF HandedTo
  <2> QED
    BY <1>2, <1>3, <2>1 DEF UpTo, Ordered
<1>6. (~raced => \A n \in 1..Returned(t) :
                   s <= sent[t][n] => Has(handed[s], [from |-> t, seq |-> n]))'
  BY <1>2, <1>4 DEF Has
<1> QED
  BY <1>1, <1>5, <1>6 DEF HandedTo

LEMMA SendEndHands ==
  ASSUME IInv, HandedInv, NEW t \in AppThreads, SendEnd(t), NEW s \in Sessions
  PROVE  HandedTo(t, s)'
<1>1. CASE sending[t].storage # storage
  BY <1>1, WalkEnds DEF SendEnd
<1>2. CASE sending[t].storage = storage
  <2>1. /\ sending[t].at = "end" /\ sending'[t].at = "walk" /\ sending'[t].next = 1
        /\ handed' = handed /\ sent' = sent /\ raced' = raced
    BY <1>2 DEF SendEnd, IInv, TypeOK
  <2>2. ~(s < 1)
    BY DEF Sessions
  <2>3. Done(t, s)' = Done(t, s) /\ Returned(t)' = Returned(t)
    BY <2>1, <2>2 DEF Done, Returned
  <2> QED
    BY <2>1, <2>2, <2>3 DEF HandedInv, HandedTo
<1> QED
  BY <1>1, <1>2

LEMMA SendNextHands ==
  ASSUME IInv, HandedInv, NEW t \in AppThreads, SendNext(t), NEW s \in Sessions
  PROVE  HandedTo(t, s)'
<1>1. /\ sending[t].at = "walk" /\ sent' = sent /\ sending[t].next \in Nat
      /\ sending[t].last \in Nat /\ Len(sent[t]) \in Nat /\ s \in Nat
      /\ handed \in [Sessions -> Seq(Message)] /\ 1 <= sending[t].next
      /\ sending[t].last <= count /\ count \in 0..MaxSessions /\ MaxSessions \in Nat
  <2>1. sending[t].at = "walk" /\ sent' = sent
    BY DEF SendNext
  <2>2. /\ handed \in [Sessions -> Seq(Message)] /\ count \in 0..MaxSessions
        /\ MaxSessions \in Nat /\ sent[t] \in Seq(0..MaxSessions) /\ s \in Nat
    BY BoundsAssumption DEF IInv, TypeOK, Sessions
  <2>3. sending[t].next \in Nat /\ sending[t].last \in Nat
    BY DEF IInv, TypeOK, Walk
  <2>4. 1 <= sending[t].next /\ sending[t].last <= count
    BY <2>1 DEF IInv, SendInv
  <2> QED
    BY <2>1, <2>2, <2>3, <2>4, LenProperties
<1>2. CASE sending' = [sending EXCEPT ![t] = NoWalk] /\ handed' = handed
           /\ (raced' = TRUE \/ (raced' = raced /\ sending[t].next > sending[t].last))
  BY <1>1, <1>2, WalkEnds
<1>3. CASE /\ sending[t].next <= sending[t].last /\ raced' = raced
           /\ handed' = [handed EXCEPT ![sending[t].next] = Append(@, NextMessage(t))]
           /\ sending' = [sending EXCEPT ![t].next = @ + 1]
  <2>1. sending'[t].at = "walk" /\ sending'[t].next = sending[t].next + 1
    BY <1>1, <1>3, WalkGoesOn DEF IInv, TypeOK
  <2>2. NextMessage(t)' = NextMessage(t) /\ Returned(t)' = Returned(t) /\ HandedTo(t, s)
    BY <1>1, <2>1 DEF NextMessage, Returned, HandedInv
  <2>3. CASE s # sending[t].next
    <3>1. handed'[s] = handed[s] /\ (s < sending[t].next + 1 <=> s < sending[t].next)
      BY <1>1, <1>3, <2>3
    <3>2. Done(t, s)' = Done(t, s)
      BY <1>1, <2>1, <3>1 DEF Done
    <3> QED
      BY <1>1, <1>3, <2>1, <2>2, <3>1, <3>2 DEF HandedTo
  <2>4. CASE s = sending[t].next
    <3>1. handed'[s] = Append(handed[s], NextMessage(t))
      BY <1>1, <1>3, <2>4
    <3>2. Done(t, s) = Len(sent[t]) - 1 /\ Done(t, s)' = Len(sent[t])
      BY <1>1, <2>1, <2>4 DEF Done
    <3>3. /\ NextMessage(t) \in Message /\ NextMessage(t).from = t
          /\ NextMessage(t).seq = Len(sent[t]) /\ handed[s] \in Seq(Message)
      BY <1>1, NextMessageTypes
    <3>4. /\ UpTo(handed'[s], t, Len(sent[t])) /\ Ordered(handed'[s], t)
          /\ Has(handed'[s], NextMessage(t))
          /\ \A x \in Message : Has(handed[s], x) => Has(handed'[s], x)
      BY <1>1, <2>2, <3>1, <3>2, <3>3, HandedOneMore DEF HandedTo
    <3>5. \A n \in 1..Returned(t) : [from |-> t, seq |-> n] \in Message
      BY <1>1 DEF Returned, Message
    <3> QED
      BY <1>1, <1>3, <2>2, <3>2, <3>4, <3>5 DEF HandedTo
  <2> QED
    BY <2>3, <2>4
<1> QED
  BY <1>1, <1>2, <1>3 DEF SendNext

LEMMA HandedStep == IInv /\ HandedInv /\ [Next]_vars => HandedInv'
<1> SUFFICES ASSUME IInv, HandedInv, [Next]_vars PROVE HandedInv'
  OBVIOUS
<1>1. CASE AcceptStep \/ PollStep \/ UNCHANGED vars
  <2>1. UNCHANGED sendVars
    BY <1>1 DEF AcceptStep, Create, Run, Stop, onAccept, Lock, Publish, RunSession, PollStep, Poll,
       PollEvent, PollLock, PollNext, PollReenters, vars
  <2> QED
    BY <2>1, HandedFrame
<1>2. ASSUME NEW t \in AppThreads, SendStep(t) PROVE HandedInv'
  <2> SUFFICES ASSUME NEW u \in AppThreads, NEW s \in Sessions PROVE HandedTo(u, s)'
    BY DEF HandedInv
  <2>1. CASE u # t
    BY <1>2, <2>1, OthersKeep
  <2>2. CASE u = t
    BY <1>2, <2>2, SendHands, SendEndHands, SendNextHands DEF SendStep
  <2> QED
    BY <2>1, <2>2
<1> QED
  BY <1>1, <1>2 DEF Next

\* In what is ordered there is one copy of a message at most.
LEMMA OneCopy ==
  ASSUME IInv, NEW t \in AppThreads, NEW s \in Sessions, Ordered(handed[s], t),
         NEW n \in Nat \ {0}, Has(handed[s], [from |-> t, seq |-> n])
  PROVE  Copies(s, [from |-> t, seq |-> n]) = 1
<1> DEFINE m == [from |-> t, seq |-> n]
           places == {i \in 1..Len(handed[s]) : handed[s][i] = m}
<1>1. PICK i \in 1..Len(handed[s]) : handed[s][i] = m
  BY DEF Has
<1>2. Len(handed[s]) \in Nat
  BY LenProperties DEF IInv, TypeOK
<1>3. ASSUME NEW j \in 1..Len(handed[s]), handed[s][j] = m PROVE j = i
  <2>1. ~(i < j) /\ ~(j < i)
    BY <1>1, <1>3 DEF Ordered
  <2> QED
    BY <1>2, <2>1
<1>4. places = {i}
  BY <1>1, <1>3
<1> QED
  BY <1>4, FS_Singleton DEF Copies

(***************************************************************************)
(* Every send() that has returned has handed its message exactly once to   *)
(* every session there was when it was called, and each thread's messages  *)
(* reach a session in the order of its calls: for any number of threads,   *)
(* sends and connections and wherever onAccept() appends, as long as no    *)
(* walk has gone on in memory that emplace_back freed.                     *)
(***************************************************************************)
THEOREM SendsReachAll == Spec => []HandedToAll
<1>1. IInv /\ HandedInv => HandedToAll
  <2> SUFFICES ASSUME IInv, HandedInv, ~raced, NEW t \in AppThreads, NEW s \in Sessions
               PROVE  /\ \A n \in 1..Returned(t) :
                           s <= sent[t][n] => Copies(s, [from |-> t, seq |-> n]) = 1
                      /\ InOrder(t, s)
    BY DEF HandedToAll
  <2>1. HandedTo(t, s)
    BY DEF HandedInv
  <2>2. InOrder(t, s)
    BY <2>1 DEF HandedTo, Ordered, InOrder
  <2>3. ASSUME NEW n \in 1..Returned(t), s <= sent[t][n]
        PROVE  Copies(s, [from |-> t, seq |-> n]) = 1
    <3>1. n \in Nat \ {0}
      BY LenProperties DEF IInv, TypeOK, Returned
    <3> QED
      BY <2>1, <2>3, <3>1, OneCopy DEF HandedTo
  <2> QED
    BY <2>2, <2>3
<1> QED
  BY <1>1, HandedInit, HandedStep, Invariant, PTL DEF Spec
=============================================================================
