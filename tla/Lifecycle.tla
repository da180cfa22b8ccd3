------------------------------ MODULE Lifecycle ------------------------------
(***************************************************************************)
(* The life of a data slinger with a WebSocket server behind it: the       *)
(* facade (DataSlinger::DataSlingerImpl, dataslinger.cpp), the Backend it  *)
(* owns (dataslingerfactory.h) and DataSlingerWebSocketImpl's run(), poll  *)
(* and stop() (dataslingerwebsocket.cpp 301-430).                          *)
(*                                                                         *)
(* The constructor starts run() on a thread of its own, the runner, which  *)
(* creates the io_context, starts the io threads and joins them.  The      *)
(* application polls, and destroys the facade whenever it likes.  The      *)
(* destructor's steps interleave with the runner's: members are destroyed  *)
(* in reverse order, so the backend is stopped and freed first and the     *)
(* future, which waits for the runner, after it.                           *)
(*                                                                         *)
(* A step that uses memory already freed is undefined: the model records   *)
(* it, and goes on as if the memory were still there.  The process may as  *)
(* well end there, so no liveness property asks anything of it any more.   *)
(***************************************************************************)
EXTENDS Integers, Sequences, FiniteSets

CONSTANTS IOThreads,   \* the std::threads that run() starts beside its own
          MaxPolls     \* bound: calls of poll() by the application

ASSUME BoundsAssumption == MaxPolls \in Nat

\* The threads are told from the other owners of the io_context.
ASSUME ThreadsAssumption == IOThreads \cap {"member", "local"} = {}

VARIABLES
  app,        \* where the application is in the facade's life
  polls,      \* history: calls of poll()
  impl,       \* the memory of DataSlingerWebSocketImpl: "alive" or "freed"
  eventQueue, \* m_eventQueue of the Impl
  reported,   \* history: what onEvent was called with
  mIoc,       \* whether m_ioc is set
  mListener,  \* whether m_listener is set
  runner,     \* where the runner is in run(), named for the next step
  context,    \* the io_context: "none", "alive" or "destroyed"
  owners,     \* the shared_ptrs to it: the member, run()'s local, the threads'
  stopped,    \* m_ioc->stop() was called on it
  io,         \* each io thread: "none", "running" or "exited"
  missed,     \* history: a stop() found no m_ioc to stop
  misused     \* history: memory was used after it had been freed

appVars     == <<app, polls>>
implVars    == <<impl, mListener>>
eventVars   == <<eventQueue, reported>>
contextVars == <<context, owners>>
fateVars    == <<missed, misused>>
vars == <<appVars, implVars, eventVars, mIoc, runner, contextVars, stopped, io, fateVars>>

EventTexts == {"setUp", "incomplete", "closing"}
Owners == {"member", "local"} \cup IOThreads

TypeOK ==
  /\ app \in {"alive", "stopOuter", "stopInner", "free", "wait", "gone"}
  /\ polls \in Nat
  /\ impl \in {"alive", "freed"}
  /\ eventQueue \in Seq(EventTexts) /\ reported \in Seq(EventTexts)
  /\ mIoc \in BOOLEAN /\ mListener \in BOOLEAN
  /\ runner \in {"start", "endpoint", "context", "listener", "signals", "threads",
                 "run", "running", "join", "unwind", "done"}
  /\ context \in {"none", "alive", "destroyed"}
  /\ owners \in SUBSET Owners
  /\ context = "alive" <=> owners # {}
  /\ stopped \in BOOLEAN
  /\ io \in [IOThreads -> {"none", "running", "exited"}]
  /\ missed \in BOOLEAN /\ misused \in BOOLEAN

Init ==
  /\ app = "alive" /\ polls = 0
  /\ impl = "alive" /\ mIoc = FALSE /\ mListener = FALSE
  /\ eventQueue = <<>> /\ reported = <<>>
  /\ runner = "start"
  /\ context = "none" /\ owners = {} /\ stopped = FALSE
  /\ io = [h \in IOThreads |-> "none"]
  /\ missed = FALSE /\ misused = FALSE

\* A step that reads or writes a member of the Impl.
UseImpl == misused' = (misused \/ impl = "freed") /\ UNCHANGED missed

\* Mutant: shared_ptrs that own each other keep the io_context.
ReleaseNothing(ptrs) == owners' = owners \ ptrs /\ UNCHANGED context

\* Mutant: the member owns the io_context alone, the others only point to it.
ReleaseUnshared(ptrs) ==
  /\ owners' = owners \ ptrs
  /\ context' = IF context = "alive" /\ "member" \in ptrs THEN "destroyed" ELSE context

\* Letting go of shared_ptrs to the io_context: the last one destroys it.
Release(ptrs) ==
  /\ owners' = owners \ ptrs
  /\ context' = IF context = "alive" /\ owners \subseteq ptrs THEN "destroyed" ELSE context

-----------------------------------------------------------------------------
(* The application.                                                        *)

\* poll(): drain the events (what the listener does is its own business)
Poll ==
  /\ app = "alive" /\ polls < MaxPolls
  /\ polls' = polls + 1
  /\ reported' = reported \o eventQueue /\ eventQueue' = <<>>
  /\ UNCHANGED <<app, implVars, mIoc, runner, contextVars, stopped, io, fateVars>>

\* ~DataSlingerImpl(): its body polls once more
Destroy ==
  /\ app = "alive"
  /\ reported' = reported \o eventQueue /\ eventQueue' = <<>>
  /\ app' = "stopOuter"
  /\ UNCHANGED <<polls, implVars, mIoc, runner, contextVars, stopped, io, fateVars>>

\* Mutant: stop() only queues its event.
stopQuietly ==
  /\ eventQueue' = Append(eventQueue, "closing")
  /\ UNCHANGED <<stopped, missed>>

\* DataSlingerWebSocketImpl::stop()
stop ==
  /\ eventQueue' = Append(eventQueue, "closing")
  /\ stopped' = (stopped \/ mIoc)
  /\ missed' = (missed \/ ~mIoc)

\* m_backend is destroyed: ~DataSlingerWebSocket() stops, then ~Impl() does.
Stop ==
  /\ \/ app = "stopOuter" /\ app' = "stopInner"
     \/ app = "stopInner" /\ app' = "free"
  /\ stop
  /\ UNCHANGED <<polls, implVars, reported, mIoc, runner, contextVars, io, misused>>

\* The Impl's members are destroyed and its memory freed.
Free ==
  /\ app = "free" /\ app' = "wait"
  /\ impl' = "freed" /\ mIoc' = FALSE /\ mListener' = FALSE
  /\ eventQueue' = <<>>
  /\ Release({"member"})
  /\ UNCHANGED <<polls, reported, runner, stopped, io, fateVars>>

\* m_slingerFuture is destroyed: it waits for the runner.
Wait ==
  /\ app = "wait" /\ runner = "done"
  /\ app' = "gone"
  /\ UNCHANGED <<polls, implVars, eventVars, mIoc, runner, contextVars, stopped, io, fateVars>>

-----------------------------------------------------------------------------
(* The runner: m_backend.run(), that is DataSlingerWebSocketImpl::run().   *)

\* m_backend.run(), whose function is destroyed with the backend, just before the
\* first stop(); then run() up to "if(!m_info.hasWebSocketInfo())"
RunStart ==
  /\ runner = "start"
  /\ \/ /\ runner' = "endpoint"
        /\ eventQueue' = Append(eventQueue, "setUp")
     \/ /\ runner' = "done"
        /\ eventQueue' = eventQueue \o <<"setUp", "incomplete">>
  /\ misused' = (misused \/ app \notin {"alive", "stopOuter"})
  /\ UNCHANGED <<appVars, implVars, reported, mIoc, contextVars, stopped, io, missed>>

\* address::from_string(host) throws on a name; the exception stays in the future
RunEndpoint ==
  /\ runner = "endpoint"
  /\ runner' \in {"context", "done"}
  /\ UseImpl
  /\ UNCHANGED <<appVars, implVars, eventVars, mIoc, contextVars, stopped, io>>

\* m_ioc = make_shared<io_context>(1)
RunContext ==
  /\ runner = "context" /\ runner' = "listener"
  /\ mIoc' = TRUE
  /\ context' = "alive" /\ owners' = owners \cup {"member"}
  /\ UseImpl
  /\ UNCHANGED <<appVars, implVars, eventVars, stopped, io>>

\* m_listener = make_shared<DataSlingerWebSocketListener>(...), and its run()
RunListener ==
  /\ runner = "listener" /\ runner' = "signals"
  /\ mListener' = TRUE
  /\ UseImpl
  /\ UNCHANGED <<appVars, impl, eventVars, mIoc, contextVars, stopped, io>>

\* signal_set sigs(*m_ioc, ...), then ioc{m_ioc}
RunSignals ==
  /\ runner = "signals" /\ runner' = "threads"
  /\ owners' = IF context = "alive" THEN owners \cup {"local"} ELSE owners
  /\ UseImpl
  /\ UNCHANGED <<appVars, implVars, eventVars, mIoc, context, stopped, io>>

\* One round of "v.emplace_back([ioc] { ioc->run(); })"
RunThreads ==
  /\ runner = "threads"
  /\ \/ \E h \in IOThreads :
          /\ io[h] = "none"
          /\ io' = [io EXCEPT ![h] = "running"]
          /\ owners' = IF context = "alive" THEN owners \cup {h} ELSE owners
          /\ UNCHANGED runner
     \/ /\ \A h \in IOThreads : io[h] # "none"
        /\ runner' = "run"
        /\ UNCHANGED <<owners, io>>
  /\ UNCHANGED <<appVars, implVars, eventVars, mIoc, context, stopped, fateVars>>

\* Mutant: the io_context is restarted before it is run.
RunIocRestarted ==
  /\ runner = "run" /\ runner' = "running"
  /\ stopped' = FALSE
  /\ UseImpl
  /\ UNCHANGED <<appVars, implVars, eventVars, mIoc, contextVars, io>>

\* m_ioc->run() is called ...
RunIoc ==
  /\ runner = "run" /\ runner' = "running"
  /\ UseImpl
  /\ UNCHANGED <<appVars, implVars, eventVars, mIoc, contextVars, stopped, io>>

\* ... and returns: the signal set keeps the context from running out of work
RunIocReturns ==
  /\ runner = "running" /\ stopped
  /\ runner' = "join"
  /\ UNCHANGED <<appVars, implVars, eventVars, mIoc, contextVars, stopped, io, fateVars>>

\* Mutant: the threads are detached instead of joined.
JoinNothing ==
  /\ runner = "join" /\ runner' = "unwind"
  /\ UNCHANGED <<appVars, implVars, eventVars, mIoc, contextVars, stopped, io, fateVars>>

\* for(auto& t : v) t.join()
Join ==
  /\ runner = "join"
  /\ \A h \in IOThreads : io[h] = "exited"
  /\ runner' = "unwind"
  /\ UNCHANGED <<appVars, implVars, eventVars, mIoc, contextVars, stopped, io, fateVars>>

\* run() leaves: ioc is destroyed first, sigs, which belongs to the io_context, last.
Unwind ==
  /\ runner = "unwind" /\ runner' = "done"
  /\ Release({"local"})
  /\ misused' = (misused \/ context' = "destroyed")
  /\ UNCHANGED <<appVars, implVars, eventVars, mIoc, stopped, io, missed>>

-----------------------------------------------------------------------------
(* The io threads.                                                         *)

\* Handlers run as long as the context is not stopped.
HandlersRun ==
  ~stopped /\ (runner = "running" \/ \E h \in IOThreads : io[h] = "running")

\* SIGINT or SIGTERM: a handler that captured the Impl stops the context
Signal ==
  /\ HandlersRun
  /\ stopped' = TRUE
  /\ UseImpl
  /\ UNCHANGED <<appVars, implVars, eventVars, mIoc, runner, contextVars, io>>

\* ioc->run() returns in the thread h, whose captured ioc goes with it
ThreadExits(h) ==
  /\ io[h] = "running" /\ stopped
  /\ io' = [io EXCEPT ![h] = "exited"]
  /\ Release({h})
  /\ UNCHANGED <<appVars, implVars, eventVars, mIoc, runner, stopped, fateVars>>

-----------------------------------------------------------------------------

RunnerStep ==
  \/ RunStart \/ RunEndpoint \/ RunContext \/ RunListener \/ RunSignals
  \/ RunThreads \/ RunIoc \/ RunIocReturns \/ Join \/ Unwind

DestructorStep == Stop \/ Free \/ Wait

Next ==
  \/ Poll \/ Destroy \/ DestructorStep \/ RunnerStep \/ Signal
  \/ \E h \in IOThreads : ThreadExits(h)

Spec == Init /\ [][Next]_vars

(***************************************************************************)
(* Fairness.  Every thread goes on when it can, and a destructor that has  *)
(* begun goes on to its end; the application need not poll or destroy, and *)
(* no signal need arrive.                                                  *)
(***************************************************************************)
Fairness ==
  /\ WF_vars(DestructorStep)
  /\ WF_vars(RunnerStep)
  /\ \A h \in IOThreads : WF_vars(ThreadExits(h))

LiveSpec == Spec /\ Fairness

-----------------------------------------------------------------------------
(* Safety.                                                                 *)

(***************************************************************************)
(* The facade keeps what Closing promises: the destructor returns only     *)
(* when run() has returned and every io thread has exited, and nothing     *)
(* starts again (dataslinger.cpp 43, dataslingerwebsocket.cpp 353-355).    *)
(***************************************************************************)
Promise == INSTANCE Closing
             WITH object  <- CASE app \in {"alive", "gone"} -> app
                               [] OTHER -> "closing",
                  working <- runner # "done" \/ \E h \in IOThreads : io[h] = "running"

ImplementsClosing == Promise!Spec

(***************************************************************************)
(* No io thread runs in an io_context that has been destroyed: each holds  *)
(* its own shared_ptr, so freeing the Impl under it does not free the      *)
(* context - unless run() had already worked on freed memory.              *)
(***************************************************************************)
ContextOutlivesThreads ==
  ~misused => \A h \in IOThreads : io[h] = "running" => context = "alive"

(***************************************************************************)
(* A destructor that waits for a runner that nobody will stop has called   *)
(* stop() too early: before run() had created the io_context.              *)
(***************************************************************************)
StuckOnlyIfMissed ==
  app \in {"wait", "gone"} /\ runner = "running" /\ ~stopped => missed

-----------------------------------------------------------------------------
(* Liveness.                                                               *)

(***************************************************************************)
(* A destructor whose calls of stop() found the io_context comes to its    *)
(* end, wherever run() was: a context stopped before it runs does not run. *)
(***************************************************************************)
CloseEnds == app = "stopOuter" ~> app = "gone" \/ missed \/ misused

-----------------------------------------------------------------------------
(* What the repository says and this code does not do.                     *)

(***************************************************************************)
(* stop() announces (dataslingerwebsocket.cpp 379): "Data slinger is       *)
(* closing down, will block until all the I/O service threads exit".  So   *)
(* when stop() has found the io_context, and nothing has worked on freed   *)
(* memory, the backend is not freed while run() is in m_ioc->run() and one *)
(* of the threads it started is still running.                             *)
(***************************************************************************)
FreedAfterThreads ==
  ~missed /\ ~misused /\ impl = "freed" /\ runner = "running" =>
    \A h \in IOThreads : io[h] # "running"

(***************************************************************************)
(* From the same line: the threads exit, so closing down comes to an end.  *)
(***************************************************************************)
CloseAlwaysEnds == app = "stopOuter" ~> app = "gone" \/ misused

=============================================================================
