----------------------------- MODULE ClientLife -----------------------------
(***************************************************************************)
(* The life of a data slinger with a WebSocket client behind it: the       *)
(* facade (DataSlinger::DataSlingerImpl, dataslinger.cpp), the Backend it  *)
(* owns (dataslingerfactory.h), DataReceiverWebSocketImpl and the lifetime *)
(* of its session (datareceiverwebsocket.cpp).  What the session does with *)
(* messages and frames is ClientSession's subject.                         *)
(*                                                                         *)
(* Unlike the server's, the client's io_context is a member of the session *)
(* and lives as long as it.  The session lives as long as somebody holds   *)
(* it: the Impl, and each operation of the chain and of the write side,    *)
(* whose handlers are bound to shared_from_this().  Those handlers wait in *)
(* the io_context, inside the session they hold.  The runner, which calls  *)
(* run(), and a doWrite posted by send() hold nothing.                     *)
(*                                                                         *)
(* As in Lifecycle, a step that uses memory already freed is recorded, and *)
(* the model goes on as if it were there.                                  *)
(***************************************************************************)
EXTENDS Integers

CONSTANT MaxSends   \* bound: the doWrites that send() posts

ASSUME BoundAssumption == MaxSends \in Nat

VARIABLES
  app,       \* where the application is in the facade's life
  sends,     \* history: the doWrites posted
  runner,    \* where the runner is in run(), named for the next step
  session,   \* the memory of the session: "alive" or "freed"
  owners,    \* who holds it: the Impl, the pending operations, a handler
  chain,     \* how far the chain of operations has come; "none" if it has ended
  posted,    \* doWrites posted and not yet run
  handler,   \* what the io_context is executing
  stopped,   \* m_ioContext.stop() was called
  late,      \* history: the runner arrived after the backend's end had begun
  underRun   \* history: the session was freed while its run() was under way

vars == <<app, sends, runner, session, owners, chain, posted, handler, stopped,
          late, underRun>>

Operations == {"chain", "write"}
Pending == owners \cap Operations

TypeOK ==
  /\ app \in {"alive", "stop", "free", "wait", "gone"}
  /\ sends \in 0..MaxSends /\ posted \in 0..sends
  /\ runner \in {"start", "resolve", "context", "running", "done"}
  /\ session \in {"alive", "freed"}
  /\ owners \subseteq Operations \cup {"impl", "handler"}
  /\ chain \in {"none", "resolve", "connect", "handshake", "read"}
  /\ handler \in {"none", "doWrite"} \cup Operations
  /\ session = "alive" <=> owners # {}
  /\ stopped \in BOOLEAN /\ late \in BOOLEAN /\ underRun \in BOOLEAN

Init ==
  /\ app = "alive" /\ sends = 0
  /\ runner = "start"
  /\ session = "alive" /\ owners = {"impl"}
  /\ chain = "none" /\ posted = 0 /\ handler = "none" /\ stopped = FALSE
  /\ late = FALSE /\ underRun = FALSE

\* The runner is inside DataReceiverWebSocketSession::run().
InRun == runner \in {"resolve", "context", "running"}

\* Mutant: the handlers are bound to this, as doWrite in send() is.
HoldersUnshared(now) ==
  /\ owners' = now
  /\ session' = IF "impl" \in now THEN session ELSE "freed"
  /\ underRun' = (underRun \/ (InRun /\ session' = "freed"))

\* The session is held by `now`; the last shared_ptr to go takes it along.
Holders(now) ==
  /\ owners' = now
  /\ session' = IF now = {} THEN "freed" ELSE session
  /\ underRun' = (underRun \/ (InRun /\ session' = "freed"))

-----------------------------------------------------------------------------
(* The application.                                                        *)

\* send(), when it finds the queue empty
Send ==
  /\ app = "alive" /\ sends < MaxSends
  /\ sends' = sends + 1 /\ posted' = posted + 1
  /\ UNCHANGED <<app, runner, session, owners, chain, handler, stopped, late, underRun>>

\* ~DataSlingerImpl(), whose poll() only empties the queues
Destroy ==
  /\ app = "alive" /\ app' = "stop"
  /\ UNCHANGED <<sends, runner, session, owners, chain, posted, handler, stopped,
                 late, underRun>>

\* m_backend is destroyed, its functions first, and ~DataReceiverWebSocketImpl()
\* calls m_session->stop()
Stop ==
  /\ app = "stop" /\ app' = "free"
  /\ stopped' = TRUE
  /\ UNCHANGED <<sends, runner, session, owners, chain, posted, handler, late, underRun>>

\* m_session is destroyed, and the Impl freed
Free ==
  /\ app = "free" /\ app' = "wait"
  /\ Holders(owners \ {"impl"})
  /\ UNCHANGED <<sends, runner, chain, posted, handler, stopped, late>>

\* m_slingerFuture is destroyed: it waits for the runner
Wait ==
  /\ app = "wait" /\ runner = "done" /\ app' = "gone"
  /\ UNCHANGED <<sends, runner, session, owners, chain, posted, handler, stopped,
                 late, underRun>>

-----------------------------------------------------------------------------
(* The runner.                                                             *)

\* m_backend.run() goes through the Backend's function and the Impl
Start ==
  /\ runner = "start" /\ runner' = "resolve"
  /\ late' = (late \/ app \notin {"alive", "stop"})
  /\ UNCHANGED <<app, sends, session, owners, chain, posted, handler, stopped, underRun>>

\* run(), up to async_resolve
Resolve ==
  /\ runner = "resolve"
  /\ \/ runner' = "done" /\ UNCHANGED <<owners, chain>>      \* no WebSocket info
     \/ /\ runner' = "context"
        /\ IF session = "freed" THEN UNCHANGED <<owners, chain>>
             ELSE owners' = owners \cup {"chain"} /\ chain' = "resolve"
  /\ UNCHANGED <<app, sends, session, posted, handler, stopped, late, underRun>>

\* Mutant: the io_context is made ready to run again first.
RunContextRestarted ==
  /\ runner = "context" /\ runner' = "running"
  /\ stopped' = FALSE
  /\ UNCHANGED <<app, sends, session, owners, chain, posted, handler, late, underRun>>

\* m_ioContext.run() is called ...
RunContext ==
  /\ runner = "context" /\ runner' = "running"
  /\ UNCHANGED <<app, sends, session, owners, chain, posted, handler, stopped,
                 late, underRun>>

\* ... and returns, when it is stopped or has nothing left to wait for
RunReturns ==
  /\ runner = "running" /\ handler = "none"
  /\ stopped \/ (Pending = {} /\ posted = 0)
  /\ runner' = "done"
  /\ UNCHANGED <<app, sends, session, owners, chain, posted, handler, stopped,
                 late, underRun>>

-----------------------------------------------------------------------------
(* The handlers, executed in m_ioContext.run().                            *)

\* A handler starts: an operation's brings its shared_ptr along, a doWrite posted
\* by send() has none.
Begin(h) ==
  /\ runner = "running" /\ handler = "none" /\ ~stopped
  /\ handler' = h
  /\ \/ h \in Pending /\ Holders((owners \ {h}) \cup {"handler"}) /\ UNCHANGED posted
     \/ /\ h = "doWrite" /\ posted > 0 /\ posted' = posted - 1
        /\ UNCHANGED <<session, owners, underRun>>
  /\ UNCHANGED <<app, sends, runner, chain, stopped, late>>

NextInChain == [resolve |-> "connect", connect |-> "handshake", handshake |-> "read",
                read |-> "read"]

\* onResolve, onConnect, onHandshake or onRead ends: with an error, or having
\* begun the next operation of the chain
ChainEnds ==
  /\ handler = "chain" /\ handler' = "none"
  /\ \/ Holders(owners \ {"handler"}) /\ chain' = "none"
     \/ /\ Holders((owners \ {"handler"}) \cup {"chain"})
        /\ chain' = NextInChain[chain]
  /\ UNCHANGED <<app, sends, runner, posted, stopped, late>>

\* onWrite or a posted doWrite ends: having found no message or, onWrite, an error;
\* or having begun a write, of which there is one at a time
WriteEnds ==
  /\ handler \in {"write", "doWrite"} /\ handler' = "none"
  /\ \/ Holders(owners \ {"handler"})
     \/ session = "alive" /\ "write" \notin owners
        /\ Holders((owners \ {"handler"}) \cup {"write"})
  /\ UNCHANGED <<app, sends, runner, chain, posted, stopped, late>>

-----------------------------------------------------------------------------

DestructorStep == Stop \/ Free \/ Wait

HandlerEnds == ChainEnds \/ WriteEnds

RunnerStep == Start \/ Resolve \/ RunContext \/ RunReturns \/ HandlerEnds

Next ==
  \/ Send \/ Destroy \/ DestructorStep \/ RunnerStep
  \/ \E h \in Operations \cup {"doWrite"} : Begin(h)

Spec == Init /\ [][Next]_vars

(***************************************************************************)
(* Fairness.  The runner goes on when it can, handlers end, and a          *)
(* destructor that has begun goes on; no operation need ever complete.     *)
(***************************************************************************)
LiveSpec == Spec /\ WF_vars(DestructorStep) /\ WF_vars(RunnerStep)

-----------------------------------------------------------------------------
(* Safety.                                                                 *)

(***************************************************************************)
(* The session, its io_context with it, is freed under its own run() only  *)
(* if it never got to resolve or its chain has ended with an error, and no *)
(* write is under way: a client that is connecting or connected always has *)
(* an operation pending, or its handler running, and each keeps it.        *)
(***************************************************************************)
FreedOnlyIdle == underRun => chain = "none" /\ "write" \notin owners

(***************************************************************************)
(* The other side of it: a session that had an operation pending when it   *)
(* was stopped is never freed.  Its handler waits in an io_context nobody  *)
(* will run, and holds the session that owns it: the connection stays open *)
(* behind a slinger that is gone (datareceiverwebsocket.cpp 76, 121-122).  *)
(***************************************************************************)
StoppedIsKept ==
  [][stopped /\ Pending # {} => Pending' # {} /\ session' = "alive"]_vars

-----------------------------------------------------------------------------
(* Liveness.                                                               *)

(***************************************************************************)
(* A destructor whose runner had entered run() before the backend's        *)
(* functions were destroyed comes to its end, as the session remembers     *)
(* stop(): its io_context is made with it, and stopped before it runs it   *)
(* does not run.  Two cases are excused, as both work on freed memory: a   *)
(* runner that reaches the backend only later (late), and a session freed  *)
(* under its run() with nothing pending to keep it, while run() is about   *)
(* to resolve or an ended chain leaves it (underRun).                      *)
(***************************************************************************)
CloseEnds == app = "stop" ~> app = "gone" \/ late \/ underRun
=============================================================================
