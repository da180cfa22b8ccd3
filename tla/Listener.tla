------------------------------- MODULE Listener -------------------------------
(***************************************************************************)
(* DataSlingerWebSocketListener and its sessions, as send() and poll() of  *)
(* the slinger see them (dataslingerwebsocket.cpp 166-293, 358-375).       *)
(*                                                                         *)
(* onAccept() appends to m_sessions under m_sessionsMutex, on whichever io *)
(* thread runs it; poll() walks m_sessions under the mutex, callbacks      *)
(* included; send() walks it without.  What a session does with a message  *)
(* is ServerSession's subject: here it is known by its place in the        *)
(* vector, which never shrinks, and by what send() was called with on it.  *)
(*                                                                         *)
(* A walk reads begin() and end() once.  An emplace_back at full capacity  *)
(* moves the elements to new memory and frees the old: a walk under way in *)
(* the old is undefined.  The model records it and lets the walk end there *)
(* (the process may as well: it then takes no further step).               *)
(***************************************************************************)
EXTENDS Integers, Sequences, FiniteSets

CONSTANTS AppThreads,   \* the threads of the application that call send()
          MaxSends,     \* bound: calls of send() by each thread
          MaxSessions,  \* bound: connections that peers make
          MaxPolls      \* bound: calls of poll()

ASSUME BoundsAssumption == MaxSends \in Nat /\ MaxSessions \in Nat /\ MaxPolls \in Nat

VARIABLES
  setup,      \* the slinger's run(): m_listener is "unset", "set", and "run"
  stopped,    \* m_ioc->stop() was called
  accept,     \* where the accept loop is: its async_accept, or onAccept's next step
  eventQueue, \* m_eventQueue of the listener, the reports of failures only
  reported,   \* history: what onEvent was called with
  mutex,      \* who holds m_sessionsMutex
  count,      \* m_sessions.size()
  capacity,   \* m_sessions.capacity()
  storage,    \* which memory m_sessions is in: how often it has moved
  started,    \* how many of the sessions have been run()
  sending,    \* each thread's walk in send(): the next thing it does, and where
  handed,     \* history: what send() of each session was called with
  sent,       \* history: for each thread's sends, how many sessions there were
  raced,      \* history: a walk went on in memory that had been freed
  polling,    \* the walk of poll(), in the same way
  polls       \* history: calls of poll()

acceptVars == <<setup, stopped, accept>>
eventVars  == <<eventQueue, reported>>
listVars   == <<count, capacity, storage, started>>
sendVars   == <<sending, handed, sent, raced>>
pollVars   == <<polling, polls>>
vars == <<acceptVars, eventVars, mutex, listVars, sendVars, pollVars>>

Message  == [from : AppThreads, seq : Nat \ {0}]
Sessions == 1..MaxSessions
Failures == {"listen", "accept"}

\* A walk over m_sessions: in which memory, the next element and the last.
Walk(steps) == [at : steps, storage : Nat, next : Nat, last : Nat]
NoWalk == [at |-> "idle", storage |-> 0, next |-> 0, last |-> 0]

TypeOK ==
  /\ setup \in {"unset", "set", "run"}
  /\ stopped \in BOOLEAN
  /\ accept \in {"none", "pending", "lock", "publish", "run"}
  /\ eventQueue \in Seq(Failures) /\ reported \in Seq(Failures)
  /\ mutex \in {"free", "poll", "accept"}
  /\ count \in 0..MaxSessions /\ capacity \in Nat /\ count <= capacity
  /\ storage \in Nat
  /\ started \in 0..count
  /\ sending \in [AppThreads -> Walk({"idle", "end", "walk"})]
  /\ handed \in [Sessions -> Seq(Message)]
  /\ sent \in [AppThreads -> Seq(0..MaxSessions)]
  /\ raced \in BOOLEAN
  /\ polling \in Walk({"idle", "events", "lock", "walk"})
  /\ polls \in Nat

Init ==
  /\ setup = "unset" /\ stopped = FALSE /\ accept = "none"
  /\ eventQueue = <<>> /\ reported = <<>>
  /\ mutex = "free"
  /\ count = 0 /\ capacity = 0 /\ storage = 0 /\ started = 0
  /\ sending = [t \in AppThreads |-> NoWalk]
  /\ handed = [s \in Sessions |-> <<>>]
  /\ sent = [t \in AppThreads |-> <<>>]
  /\ raced = FALSE
  /\ polling = NoWalk /\ polls = 0

-----------------------------------------------------------------------------
(* The listener: its run(), called by the slinger's, and the accept loop.  *)

queueFatalEvent(what) == eventQueue' = Append(eventQueue, what) /\ UNCHANGED reported

\* m_listener = std::make_shared<DataSlingerWebSocketListener>(...)
Create ==
  /\ setup = "unset" /\ setup' = "set"
  /\ UNCHANGED <<stopped, accept, eventVars, mutex, listVars, sendVars, pollVars>>

\* Mutant: an acceptor that cannot be set up is not reported.
RunSilent ==
  /\ setup = "set" /\ setup' = "run"
  /\ accept' \in {"none", "pending"}
  /\ UNCHANGED <<stopped, eventVars, mutex, listVars, sendVars, pollVars>>

\* run(): open, set_option, bind and listen; any of them may fail
Run ==
  /\ setup = "set" /\ setup' = "run"
  /\ \/ queueFatalEvent("listen") /\ UNCHANGED accept
     \/ accept' = "pending" /\ UNCHANGED eventVars
  /\ UNCHANGED <<stopped, mutex, listVars, sendVars, pollVars>>

\* m_ioc->stop(), after which the application may go on for a while
Stop ==
  /\ setup # "unset" /\ ~stopped
  /\ stopped' = TRUE
  /\ UNCHANGED <<setup, accept, eventVars, mutex, listVars, sendVars, pollVars>>

\* onAccept(ec), up to the lock; after a failure nothing is accepted any more
onAccept(ec) ==
  /\ accept = "pending" /\ ~stopped
  /\ \/ ec /\ queueFatalEvent("accept") /\ accept' = "none"
     \/ ~ec /\ count < MaxSessions /\ accept' = "lock" /\ UNCHANGED eventVars
  /\ UNCHANGED <<setup, stopped, mutex, listVars, sendVars, pollVars>>

\* Mutant: onAccept() does not take the mutex.
LockNothing ==
  /\ accept = "lock" /\ accept' = "publish"
  /\ UNCHANGED <<setup, stopped, eventVars, mutex, listVars, sendVars, pollVars>>

\* std::lock_guard<std::mutex> m(m_sessionsMutex)
Lock ==
  /\ accept = "lock" /\ accept' = "publish"
  /\ mutex = "free" /\ mutex' = "accept"
  /\ UNCHANGED <<setup, stopped, eventVars, listVars, sendVars, pollVars>>

\* Mutant: the vector never moves: its capacity is taken to be enough.
PublishInPlace ==
  /\ accept = "publish" /\ accept' = "run"
  /\ count' = count + 1
  /\ UNCHANGED <<capacity, storage, setup, stopped, eventVars, mutex, started,
                 sendVars, pollVars>>

\* m_sessions.emplace_back(...)
Publish ==
  /\ accept = "publish" /\ accept' = "run"
  /\ count' = count + 1
  /\ \/ /\ count < capacity /\ UNCHANGED <<capacity, storage>>
     \/ /\ count = capacity
        /\ capacity' = IF capacity = 0 THEN 1 ELSE 2 * capacity
        /\ storage' = storage + 1
  /\ UNCHANGED <<setup, stopped, eventVars, mutex, started, sendVars, pollVars>>

\* Mutant: doAccept() is reached with the mutex still held.
RunSessionKeepsLock ==
  /\ accept = "run" /\ accept' = "pending"
  /\ started' = started + 1
  /\ UNCHANGED <<setup, stopped, eventVars, mutex, count, capacity, storage,
                 sendVars, pollVars>>

\* m_sessions.back()->run(), the end of the lock's scope, and doAccept()
RunSession ==
  /\ accept = "run" /\ accept' = "pending"
  /\ started' = started + 1
  /\ mutex' = "free"
  /\ UNCHANGED <<setup, stopped, eventVars, count, capacity, storage, sendVars, pollVars>>

-----------------------------------------------------------------------------
(* send().                                                                 *)

NextMessage(t) == [from |-> t, seq |-> Len(sent[t])]

\* if(m_listener): without one the message goes nowhere.  With one, begin().
Send(t) ==
  /\ sending[t].at = "idle" /\ Len(sent[t]) < MaxSends
  /\ sent' = [sent EXCEPT ![t] = Append(@, count)]
  /\ \/ setup = "unset" /\ UNCHANGED sending
     \/ /\ setup # "unset"
        /\ sending' = [sending EXCEPT ![t] = [NoWalk EXCEPT !.at = "end", !.storage = storage]]
  /\ UNCHANGED <<handed, raced, acceptVars, eventVars, mutex, listVars, pollVars>>

\* end(): of the same memory, or the walk has no end
SendEnd(t) ==
  /\ sending[t].at = "end"
  /\ \/ /\ sending[t].storage = storage
        /\ sending' = [sending EXCEPT
             ![t] = [at |-> "walk", storage |-> storage, next |-> 1, last |-> count]]
        /\ UNCHANGED raced
     \/ /\ sending[t].storage # storage
        /\ sending' = [sending EXCEPT ![t] = NoWalk]
        /\ raced' = TRUE
  /\ UNCHANGED <<handed, sent, acceptVars, eventVars, mutex, listVars, pollVars>>

\* Mutant: the walk does not reach the last session.
SendNextShort(t) ==
  /\ sending[t].at = "walk"
  /\ \/ /\ sending[t].next >= sending[t].last
        /\ sending' = [sending EXCEPT ![t] = NoWalk]
        /\ UNCHANGED <<handed, raced>>
     \/ /\ sending[t].next < sending[t].last /\ sending[t].storage = storage
        /\ handed' = [handed EXCEPT ![sending[t].next] = Append(@, NextMessage(t))]
        /\ sending' = [sending EXCEPT ![t].next = @ + 1]
        /\ UNCHANGED raced
     \/ /\ sending[t].next < sending[t].last /\ sending[t].storage # storage
        /\ sending' = [sending EXCEPT ![t] = NoWalk]
        /\ raced' = TRUE /\ UNCHANGED handed
  /\ UNCHANGED <<sent, acceptVars, eventVars, mutex, listVars, pollVars>>

\* session->send(message) on the next element, if there is one
SendNext(t) ==
  /\ sending[t].at = "walk"
  /\ \/ /\ sending[t].next > sending[t].last
        /\ sending' = [sending EXCEPT ![t] = NoWalk]
        /\ UNCHANGED <<handed, raced>>
     \/ /\ sending[t].next <= sending[t].last /\ sending[t].storage = storage
        /\ handed' = [handed EXCEPT ![sending[t].next] = Append(@, NextMessage(t))]
        /\ sending' = [sending EXCEPT ![t].next = @ + 1]
        /\ UNCHANGED raced
     \/ /\ sending[t].next <= sending[t].last /\ sending[t].storage # storage
        /\ sending' = [sending EXCEPT ![t] = NoWalk]
        /\ raced' = TRUE /\ UNCHANGED handed
  /\ UNCHANGED <<sent, acceptVars, eventVars, mutex, listVars, pollVars>>

-----------------------------------------------------------------------------
(* poll().                                                                 *)

\* if(m_listener) m_listener->poll(...)
Poll ==
  /\ polling.at = "idle" /\ setup # "unset" /\ polls < MaxPolls
  /\ polls' = polls + 1
  /\ polling' = [polling EXCEPT !.at = "events"]
  /\ UNCHANGED <<acceptVars, eventVars, mutex, listVars, sendVars>>

\* One round of "while(m_eventQueue.try_dequeue(e)) onEvent(e)"
PollEvent ==
  /\ polling.at = "events"
  /\ \/ /\ eventQueue # <<>>
        /\ reported' = Append(reported, Head(eventQueue))
        /\ eventQueue' = Tail(eventQueue)
        /\ UNCHANGED polling
     \/ /\ eventQueue = <<>>
        /\ polling' = [polling EXCEPT !.at = "lock"]
        /\ UNCHANGED eventVars
  /\ UNCHANGED <<polls, acceptVars, mutex, listVars, sendVars>>

\* The lock, begin() and end()
PollLock ==
  /\ polling.at = "lock"
  /\ mutex = "free" /\ mutex' = "poll"
  /\ polling' = [at |-> "walk", storage |-> storage, next |-> 1, last |-> count]
  /\ UNCHANGED <<polls, acceptVars, eventVars, listVars, sendVars>>

\* Mutant: the mutex is not released at the end of the walk.
PollNextKeepsLock ==
  /\ polling.at = "walk"
  /\ \/ polling.next > polling.last /\ polling' = NoWalk
     \/ polling.next <= polling.last /\ polling' = [polling EXCEPT !.next = @ + 1]
  /\ UNCHANGED <<mutex, polls, acceptVars, eventVars, listVars, sendVars>>

\* session->poll(...) with its callbacks on the next element, if there is one
PollNext ==
  /\ polling.at = "walk"
  /\ \/ /\ polling.next > polling.last
        /\ polling' = NoWalk /\ mutex' = "free"
     \/ /\ polling.next <= polling.last
        /\ polling' = [polling EXCEPT !.next = @ + 1] /\ UNCHANGED mutex
  /\ UNCHANGED <<polls, acceptVars, eventVars, listVars, sendVars>>

\* One of those callbacks calls poll() again, which comes back to PollLock with the
\* mutex its own thread holds, and waits there as for any other.
PollReenters ==
  /\ polling.at = "walk" /\ polling.next <= polling.last /\ polls < MaxPolls
  /\ polls' = polls + 1
  /\ polling' = [polling EXCEPT !.at = "events"]
  /\ UNCHANGED <<acceptVars, eventVars, mutex, listVars, sendVars>>

-----------------------------------------------------------------------------

AcceptStep ==
  \/ Create \/ Run \/ Stop \/ Lock \/ Publish \/ RunSession
  \/ \E ec \in BOOLEAN : onAccept(ec)

SendStep(t) == Send(t) \/ SendEnd(t) \/ SendNext(t)

PollStep == Poll \/ PollEvent \/ PollLock \/ PollNext \/ PollReenters

Next == AcceptStep \/ PollStep \/ \E t \in AppThreads : SendStep(t)

Spec == Init /\ [][Next]_vars

(***************************************************************************)
(* Fairness.  An io thread finishes the onAccept() it is in, a thread that *)
(* is in poll() goes on and its callbacks return, and one that waits for a *)
(* mutex which is free again and again gets it.  Nothing obliges a peer to *)
(* connect or the application to call anything.                            *)
(***************************************************************************)
Fairness ==
  /\ WF_vars(Publish) /\ WF_vars(RunSession) /\ WF_vars(PollEvent) /\ WF_vars(PollNext)
  /\ SF_vars(Lock) /\ SF_vars(PollLock)

LiveSpec == Spec /\ Fairness

-----------------------------------------------------------------------------
(* Safety.                                                                 *)

\* The calls of send() by t that have returned.
Returned(t) == IF sending[t].at = "idle" THEN Len(sent[t]) ELSE Len(sent[t]) - 1

Copies(s, m) == Cardinality({i \in 1..Len(handed[s]) : handed[s][i] = m})

\* The messages of t that session s was handed came in the order of the calls.
InOrder(t, s) ==
  \A i, j \in 1..Len(handed[s]) :
    i < j /\ handed[s][i].from = t /\ handed[s][j].from = t =>
      handed[s][i].seq < handed[s][j].seq

(***************************************************************************)
(* A send() that has returned handed its message once to every session     *)
(* that m_sessions held when it was called, and no session is handed one   *)
(* twice or two out of order - although onAccept() appends while it walks. *)
(* Only the memory that emplace_back frees under a walk is in the way      *)
(* (dataslingerwebsocket.cpp 232-237, 258).                                *)
(***************************************************************************)
HandedToAll ==
  ~raced =>
    \A t \in AppThreads : \A s \in Sessions :
      /\ \A n \in 1..Returned(t) : s <= sent[t][n] => Copies(s, [from |-> t, seq |-> n]) = 1
      /\ InOrder(t, s)

(***************************************************************************)
(* While poll() walks m_sessions nothing moves it, appends to it, or shows *)
(* it a session that has not been run(): the mutex keeps onAccept() out    *)
(* through all the callbacks (dataslingerwebsocket.cpp 226-229, 257-259).  *)
(***************************************************************************)
PollUndisturbed ==
  polling.at = "walk" =>
    polling.storage = storage /\ polling.last = count /\ started = count

(***************************************************************************)
(* A listener that accepts nothing more after its run() has reported why,  *)
(* once: a set-up that failed or an accept that failed; one that still     *)
(* accepts has reported nothing.                                           *)
(***************************************************************************)
DeafOnlyIfReported ==
  Len(eventQueue) + Len(reported) = IF setup = "run" /\ accept = "none" THEN 1 ELSE 0

-----------------------------------------------------------------------------
(* Liveness.                                                               *)

\* A callback under the mutex has called poll().
Reentered == polling.at \in {"events", "lock"} /\ mutex = "poll"

(***************************************************************************)
(* A connection that was accepted gets its session, run(), and the accept  *)
(* loop goes on - although poll() keeps the mutex while the application's  *)
(* callbacks run - unless one of those callbacks calls poll(): it waits    *)
(* for itself, and the io thread in onAccept() with it                     *)
(* (dataslingerwebsocket.cpp 219-230, 247-265).                            *)
(***************************************************************************)
AcceptedIsRun == accept = "lock" ~> accept = "pending" \/ Reentered

(***************************************************************************)
(* A poll() that does not call itself comes to its end.                    *)
(***************************************************************************)
PollEnds == polling.at # "idle" ~> polling.at = "idle" \/ Reentered
=============================================================================
