--------------------------- MODULE LifecycleProofs ---------------------------
(***************************************************************************)
(* Theorems about Lifecycle, for any number of io threads: what the        *)
(* destructor of a slinger with a server behind it may rely on.            *)
(***************************************************************************)
EXTENDS Lifecycle, SequenceTheorems, TLAPS

\* Only a run() that is between its first io thread and its join has io threads.
ThreadsJoined ==
  runner \notin {"threads", "run", "running", "join"} => \A h \in IOThreads : io[h] # "running"

\* Until freed memory has been used, each io thread owns the io_context, and so
\* does run() from the signal set to its end; before that it is the Impl, as long
\* as there is one.
ContextOwned ==
  /\ impl = "alive" /\ runner \in {"listener", "signals"} => "member" \in owners
  /\ ~misused /\ runner \in {"threads", "run", "running", "join", "unwind"} => "local" \in owners
  /\ ~misused => \A h \in IOThreads : io[h] = "running" => h \in owners

\* The backend's two calls of stop() come before anything is freed.
StopCalled == app \notin {"alive", "stopOuter"} => stopped \/ missed

IInv == TypeOK /\ ThreadsJoined /\ ContextOwned /\ StopCalled

-----------------------------------------------------------------------------
(* The invariant.                                                          *)

LEMMA QueuedTypes ==
  ASSUME TypeOK
  PROVE  /\ reported \o eventQueue \in Seq(EventTexts) /\ <<>> \in Seq(EventTexts)
         /\ Append(eventQueue, "closing") \in Seq(EventTexts)
         /\ Append(eventQueue, "setUp") \in Seq(EventTexts)
         /\ eventQueue \o <<"setUp", "incomplete">> \in Seq(EventTexts)
<1>1. reported \in Seq(EventTexts) /\ eventQueue \in Seq(EventTexts)
  BY DEF TypeOK
<1>2. "closing" \in EventTexts /\ "setUp" \in EventTexts /\ "incomplete" \in EventTexts
  BY DEF EventTexts
<1>3. <<"setUp", "incomplete">> \in Seq(EventTexts)
  BY <1>2
<1> QED
  BY <1>1, <1>2, <1>3, ConcatProperties, AppendProperties, EmptySeq

LEMMA InvInit == Init => IInv
<1> SUFFICES ASSUME Init PROVE IInv
  OBVIOUS
<1>1. <<>> \in Seq(EventTexts)
  BY EmptySeq
<1>2. TypeOK
  BY <1>1 DEF Init, TypeOK
<1> QED
  BY <1>2 DEF Init, IInv, ThreadsJoined, ContextOwned, StopCalled

\* Letting go keeps the io_context for those who have not.
LEMMA ReleaseKeepsOthers ==
  ASSUME TypeOK, NEW ptrs, Release(ptrs)
  PROVE  /\ owners' = owners \ ptrs /\ owners' \in SUBSET Owners
         /\ context' \in {"none", "alive", "destroyed"}
         /\ context' = "alive" <=> owners' # {}
BY DEF TypeOK, Release

LEMMA ApplicationKeeps ==
  ASSUME IInv, Poll \/ Destroy \/ DestructorStep
  PROVE  IInv'
<1> USE DEF IInv
<1>1. CASE Poll
  BY <1>1, QueuedTypes DEF Poll, TypeOK, ThreadsJoined, ContextOwned, StopCalled, implVars,
                           contextVars, fateVars
<1>2. CASE Destroy
  BY <1>2, QueuedTypes DEF Destroy, TypeOK, ThreadsJoined, ContextOwned, StopCalled,
                           implVars, contextVars, fateVars
<1>3. CASE Stop
  <2>1. eventQueue' \in Seq(EventTexts) /\ stopped' \in BOOLEAN /\ missed' \in BOOLEAN
    BY <1>3, QueuedTypes DEF Stop, stop, TypeOK
  <2>2. StopCalled'
    BY <1>3 DEF Stop, stop, StopCalled, TypeOK
  <2> QED
    BY <1>3, <2>1, <2>2 DEF Stop, TypeOK, ThreadsJoined, ContextOwned, implVars, contextVars
<1>4. CASE Free
  <2>1. /\ owners' = owners \ {"member"} /\ owners' \in SUBSET Owners
        /\ context' \in {"none", "alive", "destroyed"}
        /\ context' = "alive" <=> owners' # {}
    BY <1>4, ReleaseKeepsOthers DEF Free
  <2>2. ContextOwned'
    BY <1>4, <2>1, ThreadsAssumption DEF Free, ContextOwned, fateVars
  <2> QED
    BY <1>4, <2>1, <2>2, QueuedTypes DEF Free, TypeOK, ThreadsJoined, StopCalled, fateVars
<1>5. CASE Wait
  BY <1>5 DEF Wait, TypeOK, ThreadsJoined, ContextOwned, StopCalled, implVars, eventVars,
              contextVars, fateVars
<1> QED
  BY <1>1, <1>2, <1>3, <1>4, <1>5 DEF DestructorStep

LEMMA RunnerKeeps ==
  ASSUME IInv, RunnerStep
  PROVE  IInv'
<1> USE DEF IInv
<1>1. CASE RunStart
  <2>1. eventQueue' \in Seq(EventTexts) /\ misused' \in BOOLEAN
    BY <1>1, QueuedTypes DEF RunStart, TypeOK
  <2> QED
    BY <1>1, <2>1 DEF RunStart, TypeOK, ThreadsJoined, ContextOwned, StopCalled, appVars,
                      implVars, contextVars
<1>2. CASE RunEndpoint
  BY <1>2 DEF RunEndpoint, UseImpl, TypeOK, ThreadsJoined, ContextOwned, StopCalled, appVars,
              implVars, eventVars, contextVars
<1>3. CASE RunContext
  BY <1>3 DEF RunContext, UseImpl, TypeOK, Owners, ThreadsJoined, ContextOwned, StopCalled,
              appVars, implVars, eventVars
<1>4. CASE RunListener
  BY <1>4 DEF RunListener, UseImpl, TypeOK, ThreadsJoined, ContextOwned, StopCalled, appVars,
              eventVars, contextVars
<1>5. CASE RunSignals
  BY <1>5 DEF RunSignals, UseImpl, TypeOK, Owners, ThreadsJoined, ContextOwned, StopCalled,
              appVars, implVars, eventVars
<1>6. CASE RunThreads
  <2>1. ASSUME NEW h \in IOThreads, io' = [io EXCEPT ![h] = "running"],
               owners' = IF context = "alive" THEN owners \cup {h} ELSE owners,
               UNCHANGED runner
        PROVE  IInv'
    <3>1. ~misused => context = "alive"
      BY <1>6 DEF RunThreads, ContextOwned, TypeOK
    <3>2. io' \in [IOThreads -> {"none", "running", "exited"}]
      BY <2>1 DEF TypeOK
    <3>3. owners' \in SUBSET Owners /\ (context' = "alive" <=> owners' # {})
      BY <1>6, <2>1 DEF RunThreads, TypeOK, Owners
    <3>4. ContextOwned'
      BY <1>6, <2>1, <3>1 DEF RunThreads, ContextOwned, TypeOK, implVars, fateVars
    <3> QED
      BY <1>6, <2>1, <3>2, <3>3, <3>4 DEF RunThreads, TypeOK, ThreadsJoined, StopCalled,
                   appVars, implVars, eventVars, fateVars
  <2>2. CASE runner' = "run" /\ UNCHANGED <<owners, io>>
    BY <1>6, <2>2 DEF RunThreads, TypeOK, ThreadsJoined, ContextOwned, StopCalled, appVars,
                      implVars, eventVars, fateVars
  <2> QED
    BY <1>6, <2>1, <2>2 DEF RunThreads
<1>7. CASE RunIoc
  BY <1>7 DEF RunIoc, UseImpl, TypeOK, ThreadsJoined, ContextOwned, StopCalled, appVars,
              implVars, eventVars, contextVars
<1>8. CASE RunIocReturns
  BY <1>8 DEF RunIocReturns, TypeOK, ThreadsJoined, ContextOwned, StopCalled, appVars,
              implVars, eventVars, contextVars, fateVars
<1>9. CASE Join
  BY <1>9 DEF Join, TypeOK, ThreadsJoined, ContextOwned, StopCalled, appVars, implVars,
              eventVars, contextVars, fateVars
<1>10. CASE Unwind
  <2>1. /\ owners' = owners \ {"local"} /\ owners' \in SUBSET Owners
        /\ context' \in {"none", "alive", "destroyed"}
        /\ context' = "alive" <=> owners' # {}
    BY <1>10, ReleaseKeepsOthers DEF Unwind
  <2>2. ContextOwned'
    BY <1>10, <2>1, ThreadsAssumption DEF Unwind, ContextOwned, implVars
  <2> QED
    BY <1>10, <2>1, <2>2 DEF Unwind, TypeOK, ThreadsJoined, StopCalled, appVars, implVars,
                             eventVars
<1> QED
  BY <1>1, <1>2, <1>3, <1>4, <1>5, <1>6, <1>7, <1>8, <1>9, <1>10 DEF RunnerStep

LEMMA IOKeeps ==
  ASSUME IInv, Signal \/ \E h \in IOThreads : ThreadExits(h)
  PROVE  IInv'
<1> USE DEF IInv
<1>1. CASE Signal
  BY <1>1 DEF Signal, UseImpl, TypeOK, ThreadsJoined, ContextOwned, StopCalled, appVars,
              implVars, eventVars, contextVars
<1>2. ASSUME NEW h \in IOThreads, ThreadExits(h) PROVE IInv'
  <2>1. /\ owners' = owners \ {h} /\ owners' \in SUBSET Owners
        /\ context' \in {"none", "alive", "destroyed"}
        /\ context' = "alive" <=> owners' # {}
    BY <1>2, ReleaseKeepsOthers DEF ThreadExits
  <2>2. io' = [io EXCEPT ![h] = "exited"]
    BY <1>2 DEF ThreadExits
  <2>3. ContextOwned'
    BY <1>2, <2>1, <2>2, ThreadsAssumption DEF ThreadExits, ContextOwned, TypeOK, implVars,
                                               fateVars
  <2> QED
    BY <1>2, <2>1, <2>2, <2>3 DEF ThreadExits, TypeOK, ThreadsJoined, StopCalled, appVars,
                                  implVars, eventVars, fateVars
<1> QED
  BY <1>1, <1>2

LEMMA InvStep == IInv /\ [Next]_vars => IInv'
<1> SUFFICES ASSUME IInv, [Next]_vars PROVE IInv'
  OBVIOUS
<1>1. CASE UNCHANGED vars
  BY <1>1 DEF vars, appVars, implVars, eventVars, contextVars, fateVars, IInv, TypeOK,
              ThreadsJoined, ContextOwned, StopCalled
<1> QED
  BY <1>1, ApplicationKeeps, RunnerKeeps, IOKeeps DEF Next

LEMMA Invariant == Spec => []IInv
BY InvInit, InvStep, PTL DEF Spec

(***************************************************************************)
(* Every reachable state has its types, and the io_context is there as     *)
(* long as somebody owns it.                                               *)
(***************************************************************************)
THEOREM TypeCorrect == Spec => []TypeOK
BY Invariant, PTL DEF IInv

(***************************************************************************)
(* An io thread never runs in an io_context that has been destroyed,       *)
(* however the steps of the destructor and of run() interleave, unless     *)
(* run() has used the freed Impl before.                                   *)
(***************************************************************************)
THEOREM ThreadsHaveTheirContext == Spec => []ContextOutlivesThreads
<1>1. IInv => ContextOutlivesThreads
  BY DEF IInv, TypeOK, ContextOwned, ContextOutlivesThreads
<1> QED
  BY <1>1, Invariant, PTL

(***************************************************************************)
(* A destructor waits for a runner that nobody will stop only if one of    *)
(* its calls of stop() found no io_context.                                *)
(***************************************************************************)
THEOREM OnlyMissedStopHangs == Spec => []StuckOnlyIfMissed
<1>1. IInv => StuckOnlyIfMissed
  BY DEF IInv, StopCalled, StuckOnlyIfMissed
<1> QED
  BY <1>1, Invariant, PTL

-----------------------------------------------------------------------------
(* The refinement.                                                         *)

LEMMA ClosingInit == Init => Promise!Init
BY DEF Init, Promise!Init

\* The destructor's steps, and the runner's return, are the steps of Closing.
LEMMA DestructorCloses ==
  ASSUME IInv, Poll \/ Destroy \/ DestructorStep
  PROVE  [Promise!Next]_(Promise!vars)
<1>1. CASE Destroy
  <2>1. Promise!Close
    BY <1>1 DEF Destroy, Promise!Close
  <2> QED
    BY <2>1 DEF Promise!Next
<1>2. CASE Wait
  <2>1. Promise!Return
    BY <1>2 DEF Wait, Promise!Return, IInv, ThreadsJoined
  <2> QED
    BY <2>1 DEF Promise!Next
<1>3. CASE Poll \/ Stop \/ Free
  <2>1. UNCHANGED Promise!vars
    BY <1>3 DEF Poll, Stop, Free, Promise!vars
  <2> QED
    BY <2>1
<1> QED
  BY <1>1, <1>2, <1>3 DEF DestructorStep

LEMMA RunnerRests ==
  ASSUME IInv, IInv', RunnerStep \/ Signal \/ \E h \in IOThreads : ThreadExits(h)
  PROVE  [Promise!Next]_(Promise!vars)
<1>1. app' = app
  BY DEF RunnerStep, RunStart, RunEndpoint, RunContext, RunListener, RunSignals, RunThreads,
         RunIoc, RunIocReturns, Join, Unwind, Signal, ThreadExits, appVars
<1>2. runner # "done"
  BY DEF RunnerStep, RunStart, RunEndpoint, RunContext, RunListener, RunSignals, RunThreads,
         RunIoc, RunIocReturns, Join, Unwind, Signal, HandlersRun, ThreadExits, IInv,
         ThreadsJoined
<1>3. CASE runner' = "done"
  <2>1. Promise!Rest
    BY <1>1, <1>2, <1>3 DEF Promise!Rest, IInv, ThreadsJoined
  <2> QED
    BY <2>1 DEF Promise!Next
<1>4. CASE runner' # "done"
  <2>1. UNCHANGED Promise!vars
    BY <1>1, <1>2, <1>4 DEF Promise!vars
  <2> QED
    BY <2>1
<1> QED
  BY <1>3, <1>4

LEMMA ClosingStep ==
  ASSUME IInv, IInv', [Next]_vars
  PROVE  [Promise!Next]_(Promise!vars)
<1>1. CASE UNCHANGED vars
  BY <1>1 DEF vars, appVars, Promise!vars
<1> QED
  BY <1>1, DestructorCloses, RunnerRests DEF Next

(***************************************************************************)
(* The destructor of a slinger with a server behind it returns only when   *)
(* run() has returned and every io thread has exited, and nothing starts   *)
(* again: for any number of io threads, and also when the Impl was freed   *)
(* under the runner.                                                       *)
(***************************************************************************)
THEOREM ServerImplementsClosing == Spec => ImplementsClosing
BY Invariant, ClosingInit, ClosingStep, PTL DEF Spec, ImplementsClosing, Promise!Spec
=============================================================================
