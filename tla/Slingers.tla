------------------------------ MODULE Slingers ------------------------------
(***************************************************************************)
(* DataSlinger objects in the programs of one computer: how they are made, *)
(* moved, assigned and destroyed (dataslinger.cpp, slinger.cpp), what the  *)
(* factory puts behind them (dataslingerfactory), and the one thing that   *)
(* the programs share: the segment "MySharedMemory" of the shared vector   *)
(* (sharedvector.cpp).                                                     *)
(*                                                                         *)
(* A program's slingers are variables of its one application thread; each  *)
(* holds a DataSlingerImpl or null.  The Impl is made in two steps, either *)
(* of which may throw: its backend, with the segment of a shared vector,   *)
(* and its runner, the thread of its future, that calls run().  run(),     *)
(* send() and poll() of the pipe and the shared vector do nothing; what    *)
(* those of the WebSocket backends do is the subject of the other modules, *)
(* as is the memory that a destructor frees under its runner: here the     *)
(* runner goes on as if it were there.                                     *)
(*                                                                         *)
(* A program may crash, or end without its destructors, at any time.  It   *)
(* is started again; the segment stays until it is removed.                *)
(***************************************************************************)
EXTENDS Integers, Sequences, Options

CONSTANTS Programs,    \* the programs that use the library
          Objects,     \* in each: the variables of type DataSlinger
          OptionSets,  \* what the application configures a slinger with
          MaxMade      \* bound: the Impls that are made

ASSUME SlingersAssumption == OptionSets \subseteq HeterogeneousMap /\ MaxMade \in Nat

VARIABLES
  d,        \* in each program: the Impl its objects hold, NoObject or Null
  impls,    \* history: the Impls whose making has come to the backend
  making,   \* the Impl that the program's thread is constructing, or Null
  closing,  \* the Impl that the program's thread is destroying, or Null
  segment   \* the Impl that made "MySharedMemory", if there is such a segment

vars == <<d, impls, making, closing, segment>>

\* An Impl is known by its place among those made.
Null     == 0
NoObject == -1

\* The program it belongs to, the class of its backend, what it was made from, its
\* memory and its runner.
Impl == [program : Programs,
         class  : {"DataReceiverWebSocket", "DataSlingerWebSocket", "DataReceiverPipe",
                   "SharedVector"},
         info   : OptionSets,
         memory : {"alive", "freed", "lost"},
         runner : {"none", "starting", "running", "done", "threw"}]

TypeOK ==
  /\ d \in [Programs -> [Objects -> NoObject..Len(impls)]]
  /\ impls \in Seq(Impl)
  /\ making \in [Programs -> Null..Len(impls)]
  /\ closing \in [Programs -> Null..Len(impls)]
  /\ segment \in SUBSET (1..Len(impls))
  /\ \A a, b \in segment : a = b

Init ==
  /\ d = [p \in Programs |-> [x \in Objects |-> NoObject]]
  /\ impls = <<>>
  /\ making = [p \in Programs |-> Null]
  /\ closing = [p \in Programs |-> Null]
  /\ segment = {}

-----------------------------------------------------------------------------
(* The segment.                                                            *)

\* Mutant: whoever comes first creates it and the others open it.
CreateSegmentOrOpen(n) == segment' = IF segment = {} THEN {n} ELSE segment

\* Mutant: the name is no name: each shared vector makes a segment of its own.
CreateSegmentToo(n) == segment' = segment \cup {n}

\* Mutant: what is there is removed first.
CreateSegmentAnew(n) == segment' = {n}

\* managed_shared_memory segment(create_only, ...) throws if it exists
CreateSegment(n) == segment = {} /\ segment' = {n}

\* shared_memory_object::remove takes away whatever has the name
RemoveSegment == segment' = {}

-----------------------------------------------------------------------------
(* The application's thread.                                               *)

Idle(p) == making[p] = Null /\ closing[p] = Null

\* DataSlinger x(onReceive, onEvent, info), or makeDataSlinger(...), for some x that
\* is not there, has come to m_backend{makeSlingerBackend(onReceive, onEvent, info)}.
Constructing(p) ==
  Idle(p) /\ Len(impls) < MaxMade /\ \E x \in Objects : d[p][x] = NoObject

Made(p, class, info, memory) ==
  impls' = Append(impls, [program |-> p, class |-> class, info |-> info,
                          memory |-> memory, runner |-> "none"])

\* The factory's lookup throws before there is anything to undo ...
FactoryThrows(p) ==
  /\ Constructing(p)
  /\ \E info \in OptionSets : makeSlingerBackend(info) \cap Exceptions # {}
  /\ UNCHANGED vars

\* ... or create_only throws in the constructor of SharedVectorImpl, whose memory is
\* freed without its destructor: the segment that was there stays ...
CreateThrows(p) ==
  /\ Constructing(p) /\ segment # {}
  /\ \E info \in OptionSets :
       "SharedVector" \in makeSlingerBackend(info) /\ Made(p, "SharedVector", info, "freed")
  /\ UNCHANGED <<d, making, closing, segment>>

\* ... or the backend is made, and m_backend owns it.
MakeBackend(p) ==
  /\ Constructing(p)
  /\ \E info \in OptionSets :
       \E class \in makeSlingerBackend(info) \ (Exceptions \cup {"abort"}) :
         /\ Made(p, class, info, "alive")
         /\ IF class = "SharedVector" THEN CreateSegment(Len(impls) + 1)
                                      ELSE UNCHANGED segment
  /\ making' = [making EXCEPT ![p] = Len(impls) + 1]
  /\ UNCHANGED <<d, closing>>

\* std::async starts the runner, and x holds the Impl.
StartRunner(p, x) ==
  /\ making[p] # Null /\ d[p][x] = NoObject
  /\ d' = [d EXCEPT ![p][x] = making[p]]
  /\ impls' = [impls EXCEPT ![making[p]].runner = "starting"]
  /\ making' = [making EXCEPT ![p] = Null]
  /\ UNCHANGED <<closing, segment>>

\* Mutant: the backend's memory is freed, but not through its destructor.
AsyncThrowsFreesOnly(p) ==
  /\ making[p] # Null
  /\ impls' = [impls EXCEPT ![making[p]].memory = "freed"]
  /\ making' = [making EXCEPT ![p] = Null]
  /\ UNCHANGED <<d, closing, segment>>

\* std::async throws, for want of a thread: ~DataSlingerImpl() does not run, but the
\* members it has are destroyed, m_backend and what it owns among them.
AsyncThrows(p) ==
  /\ making[p] # Null
  /\ impls' = [impls EXCEPT ![making[p]].memory = "freed"]
  /\ IF impls[making[p]].class = "SharedVector" THEN RemoveSegment
                                                   ELSE UNCHANGED segment
  /\ making' = [making EXCEPT ![p] = Null]
  /\ UNCHANGED <<d, closing>>

\* DataSlinger x(std::move(y))
MoveConstruct(p, x, y) ==
  /\ Idle(p) /\ d[p][x] = NoObject /\ d[p][y] # NoObject
  /\ d' = [d EXCEPT ![p][x] = d[p][y], ![p][y] = Null]
  /\ UNCHANGED <<impls, making, closing, segment>>

\* Mutant: what x held is forgotten.
MoveAssignLeaks(p, x, y) ==
  /\ Idle(p) /\ x # y /\ d[p][x] # NoObject /\ d[p][y] # NoObject
  /\ d' = [d EXCEPT ![p][x] = d[p][y], ![p][y] = Null]
  /\ UNCHANGED <<impls, making, closing, segment>>

\* x = std::move(y), which closes what x held; x = std::move(x) does nothing
MoveAssign(p, x, y) ==
  /\ Idle(p) /\ x # y /\ d[p][x] # NoObject /\ d[p][y] # NoObject
  /\ d' = [d EXCEPT ![p][x] = d[p][y], ![p][y] = Null]
  /\ closing' = [closing EXCEPT ![p] = d[p][x]]
  /\ UNCHANGED <<impls, making, segment>>

\* ~DataSlinger()
Destroy(p, x) ==
  /\ Idle(p) /\ d[p][x] # NoObject
  /\ d' = [d EXCEPT ![p][x] = NoObject]
  /\ closing' = [closing EXCEPT ![p] = d[p][x]]
  /\ UNCHANGED <<impls, making, segment>>

\* ~DataSlingerImpl(): the backend goes first ...
FreeBackend(p) ==
  /\ closing[p] # Null /\ impls[closing[p]].memory = "alive"
  /\ impls' = [impls EXCEPT ![closing[p]].memory = "freed"]
  /\ IF impls[closing[p]].class = "SharedVector" THEN RemoveSegment
                                                    ELSE UNCHANGED segment
  /\ UNCHANGED <<d, making, closing>>

\* ... then the future, which waits for the runner
WaitForRunner(p) ==
  /\ closing[p] # Null /\ impls[closing[p]].memory = "freed"
  /\ impls[closing[p]].runner \in {"done", "threw"}
  /\ closing' = [closing EXCEPT ![p] = Null]
  /\ UNCHANGED <<d, impls, making, segment>>

-----------------------------------------------------------------------------
(* The runners.                                                            *)

\* run() of a WebSocket backend looks into its options first.
RunWebSocket(info) ==
  IF ~hasWebSocketInfo(info) THEN "done"
  ELSE IF getHost(info) \in Exceptions \/ getPort(info) \in Exceptions THEN "threw"
  ELSE "running"

\* What run() comes to.  Those of the pipe and the shared vector are empty.
RunOf(i) ==
  IF i.class \in {"DataReceiverPipe", "SharedVector"} THEN "done" ELSE RunWebSocket(i.info)

\* The thread that std::async has started calls m_backend.run().
RunnerStarts(n) ==
  /\ impls[n].runner = "starting"
  /\ impls' = [impls EXCEPT ![n].runner = RunOf(impls[n])]
  /\ UNCHANGED <<d, making, closing, segment>>

\* run() of a WebSocket backend returns, because it was stopped or by itself.
RunnerEnds(n) ==
  /\ impls[n].runner = "running"
  /\ impls' = [impls EXCEPT ![n].runner = "done"]
  /\ UNCHANGED <<d, making, closing, segment>>

\* The program ends without its destructors - it crashes, or the factory's
\* assertion fails - and is started again.
Crash(p) ==
  /\ impls' = [n \in 1..Len(impls) |->
                 IF impls[n].program # p \/ (impls[n].memory = "freed" /\ closing[p] # n)
                   THEN impls[n]
                   ELSE [impls[n] EXCEPT !.memory = "lost", !.runner = "done"]]
  /\ d' = [d EXCEPT ![p] = [x \in Objects |-> NoObject]]
  /\ making' = [making EXCEPT ![p] = Null] /\ closing' = [closing EXCEPT ![p] = Null]
  /\ UNCHANGED segment

-----------------------------------------------------------------------------

ApplicationStep(p) ==
  \/ FactoryThrows(p) \/ CreateThrows(p) \/ MakeBackend(p) \/ AsyncThrows(p)
  \/ FreeBackend(p) \/ WaitForRunner(p)
  \/ \E x \in Objects : StartRunner(p, x) \/ Destroy(p, x)
  \/ \E x, y \in Objects : MoveConstruct(p, x, y) \/ MoveAssign(p, x, y)

RunnerStep == \E n \in 1..Len(impls) : RunnerStarts(n) \/ RunnerEnds(n)

Next == RunnerStep \/ \E p \in Programs : ApplicationStep(p) \/ Crash(p)

Spec == Init /\ [][Next]_vars

-----------------------------------------------------------------------------
(* Safety.                                                                 *)

Live == {n \in 1..Len(impls) : impls[n].memory = "alive"}

(***************************************************************************)
(* However slingers are made and moved about, an Impl that is alive is     *)
(* held by one object, or by none while its constructor or its destructor  *)
(* is under way: a construction that throws leaves none behind, a move     *)
(* never duplicates one, and an assignment never forgets the one it        *)
(* replaces (dataslinger.cpp 15-20, 55-69).                                *)
(***************************************************************************)
OwnedOnce ==
  /\ \A p, q \in Programs : \A x, y \in Objects :
       d[p][x] > Null /\ d[p][x] = d[q][y] => p = q /\ x = y
  /\ \A n \in Live :
       \/ \E x \in Objects : d[impls[n].program][x] = n
       \/ n \in {making[impls[n].program], closing[impls[n].program]}
  /\ \A p \in Programs : \A x \in Objects :
       d[p][x] > Null => d[p][x] \in Live \ {making[p], closing[p]}

(***************************************************************************)
(* A shared vector that is alive has the segment, and it is its own: since *)
(* the constructor insists on creating it, no other shared vector lives in *)
(* any program, whose destructor would remove it (sharedvector.cpp 42,     *)
(* 53).                                                                    *)
(***************************************************************************)
SegmentIsMine ==
  \A n \in Live : impls[n].class = "SharedVector" => segment = {n}

Orphaned == \E n \in segment : impls[n].memory # "alive"

(***************************************************************************)
(* A segment nobody uses was left by a program that ended without its      *)
(* destructors.  No destruction leaves one, and no construction that       *)
(* throws: neither one that throws at create_only, nor one that throws     *)
(* after the segment was made (dataslinger.cpp 17, sharedvector.cpp 42,    *)
(* 53).                                                                    *)
(***************************************************************************)
OrphanedByCrash == \A n \in segment : impls[n].memory # "freed"

(***************************************************************************)
(* Such a segment is there for good: no later constructor of any program,  *)
(* restarted or not, gets past create_only, and nothing else removes it.   *)
(***************************************************************************)
OrphanedIsForever == [][Orphaned => Orphaned' /\ segment' = segment]_vars

(***************************************************************************)
(* No run() ends in an exception of a lookup, whatever the application has *)
(* put into its options: run() goes on only if hasWebSocketInfo(), which   *)
(* tests the types that getHost() and getPort() then ask for               *)
(* (connectionoptions.cpp 14, datareceiverwebsocket.cpp 38,                *)
(* dataslingerwebsocket.cpp 322).  The constructor looks up nothing but    *)
(* the preferred backend.                                                  *)
(***************************************************************************)
LookupsSucceed ==
  \A n \in 1..Len(impls) : impls[n].runner # "threw"
=============================================================================
