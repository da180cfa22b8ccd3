--------------------------- MODULE ClientLifeProofs ---------------------------
(***************************************************************************)
(* Theorems about ClientLife, for any number of sends: who keeps the       *)
(* session of a WebSocket client, and for how long.                        *)
(***************************************************************************)
EXTENDS ClientLife, TLAPS

\* Handlers run inside run().
HandledInRun == runner # "running" => handler = "none"

\* A chain that has not ended is an operation that waits or a handler that runs,
\* never both.
ChainHolds ==
  /\ chain # "none" <=> "chain" \in owners \/ handler = "chain"
  /\ ~("chain" \in owners /\ handler = "chain")

\* An operation's handler holds the session while it runs; a posted doWrite does not.
HandlerHolds == handler \in Operations <=> "handler" \in owners

\* A session that was freed stays freed.
FreedForGood == underRun => session = "freed"

IInv == TypeOK /\ HandledInRun /\ ChainHolds /\ HandlerHolds /\ FreedForGood

-----------------------------------------------------------------------------
(* The invariant.                                                          *)

LEMMA InvInit == Init => IInv
<1> SUFFICES ASSUME Init PROVE IInv
  OBVIOUS
<1>1. sends \in 0..MaxSends /\ posted \in 0..sends
  BY BoundAssumption DEF Init
<1> QED
  BY <1>1 DEF Init, IInv, TypeOK, Operations, HandledInRun, ChainHolds, HandlerHolds,
   FreedForGood

\* The session is freed with its last holder, and nobody gets hold of a freed one.
LEMMA HoldersTypes ==
  ASSUME TypeOK, NEW now, Holders(now), now \subseteq Operations \cup {"impl", "handler"},
         session = "freed" => now = {}
  PROVE  /\ owners' \subseteq Operations \cup {"impl", "handler"}
         /\ session' \in {"alive", "freed"}
         /\ session' = "alive" <=> owners' # {}
         /\ underRun' \in BOOLEAN
BY DEF TypeOK, Holders

LEMMA HoldersFreeForGood ==
  ASSUME TypeOK, FreedForGood, NEW now, Holders(now)
  PROVE  FreedForGood'
BY DEF TypeOK, Holders, FreedForGood

LEMMA ApplicationKeeps ==
  ASSUME IInv, Send \/ Destroy \/ DestructorStep
  PROVE  IInv'
<1> USE DEF IInv, HandledInRun, ChainHolds, HandlerHolds
<1>1. CASE Send
  <2>1. sends' \in 0..MaxSends /\ posted' \in 0..sends'
    BY <1>1, BoundAssumption DEF Send, TypeOK
  <2>2. TypeOK'
    BY <1>1, <2>1 DEF Send, TypeOK
  <2> QED
    BY <1>1, <2>2 DEF Send, FreedForGood
<1>2. CASE Destroy \/ Stop \/ Wait
  <2>1. /\ app' \in {"alive", "stop", "free", "wait", "gone"} /\ stopped' \in BOOLEAN
        /\ UNCHANGED <<sends, runner, session, owners, chain, posted, handler, late, underRun>>
    BY <1>2 DEF Destroy, Stop, Wait, TypeOK
  <2>2. TypeOK'
    BY <2>1 DEF TypeOK
  <2> QED
    BY <2>1, <2>2 DEF FreedForGood
<1>3. CASE Free
  <2>1. /\ owners' \subseteq Operations \cup {"impl", "handler"}
        /\ session' \in {"alive", "freed"}
        /\ session' = "alive" <=> owners' # {}
        /\ underRun' \in BOOLEAN
    BY <1>3, HoldersTypes DEF Free, TypeOK
  <2>2. FreedForGood'
    BY <1>3, HoldersFreeForGood DEF Free
  <2>3. owners' = owners \ {"impl"}
    BY <1>3 DEF Free, Holders
  <2> QED
    BY <1>3, <2>1, <2>2, <2>3 DEF Free, TypeOK, Operations
<1> QED
  BY <1>1, <1>2, <1>3 DEF DestructorStep

LEMMA RunKeeps ==
  ASSUME IInv, Start \/ Resolve \/ RunContext \/ RunReturns
  PROVE  IInv'
<1> USE DEF IInv, HandledInRun, ChainHolds, HandlerHolds, FreedForGood
<1>1. CASE Start
  BY <1>1 DEF Start, TypeOK
<1>2. CASE Resolve
  <2>1. CASE UNCHANGED <<owners, chain>>
    BY <1>2, <2>1 DEF Resolve, TypeOK
  <2>2. CASE session # "freed" /\ owners' = owners \cup {"chain"} /\ chain' = "resolve"
    BY <1>2, <2>2 DEF Resolve, TypeOK, Operations
  <2> QED
    BY <1>2, <2>1, <2>2 DEF Resolve
<1>3. CASE RunContext \/ RunReturns
  BY <1>3 DEF RunContext, RunReturns, TypeOK
<1> QED
  BY <1>1, <1>2, <1>3

LEMMA BeginKeeps ==
  ASSUME IInv, NEW h \in Operations \cup {"doWrite"}, Begin(h)
  PROVE  IInv'
<1> USE DEF IInv, HandledInRun, ChainHolds, HandlerHolds
<1>1. CASE h = "doWrite" /\ posted > 0 /\ posted' = posted - 1
           /\ UNCHANGED <<session, owners, underRun>>
  <2>1. posted' \in 0..sends'
    BY <1>1 DEF Begin, TypeOK
  <2> QED
    BY <1>1, <2>1 DEF Begin, TypeOK, FreedForGood, Operations
<1>2. CASE h \in Pending /\ Holders((owners \ {h}) \cup {"handler"}) /\ UNCHANGED posted
  <2> DEFINE now == (owners \ {h}) \cup {"handler"}
  <2>1. session # "freed" /\ now \subseteq Operations \cup {"impl", "handler"}
    BY <1>2 DEF TypeOK, Pending
  <2>2. /\ owners' \subseteq Operations \cup {"impl", "handler"}
        /\ session' \in {"alive", "freed"}
        /\ session' = "alive" <=> owners' # {}
        /\ underRun' \in BOOLEAN
    BY <1>2, <2>1, HoldersTypes
  <2>3. FreedForGood'
    BY <1>2, HoldersFreeForGood
  <2>4. owners' = now
    BY <1>2 DEF Holders
  <2>5. TypeOK'
    BY <1>2, <2>2 DEF Begin, TypeOK
  <2>6. HandledInRun' /\ ChainHolds' /\ HandlerHolds'
    BY <1>2, <2>4 DEF Begin, Pending, Operations
  <2> QED
    BY <2>3, <2>5, <2>6
<1> QED
  BY <1>1, <1>2 DEF Begin

\* A handler of the chain goes on with the next operation, or ends the chain.
LEMMA ChainEndsKeeps ==
  ASSUME IInv, ChainEnds
  PROVE  IInv'
<1> USE DEF IInv, HandledInRun, ChainHolds, HandlerHolds
<1> DEFINE left == owners \ {"handler"}
<1>1. session # "freed" /\ "chain" \notin owners /\ handler \in Operations
  BY DEF ChainEnds, TypeOK, Operations
<1>2. CASE Holders(left) /\ chain' = "none"
  <2>1. /\ owners' \subseteq Operations \cup {"impl", "handler"}
        /\ session' \in {"alive", "freed"}
        /\ session' = "alive" <=> owners' # {}
        /\ underRun' \in BOOLEAN
    BY <1>1, <1>2, HoldersTypes DEF TypeOK
  <2>2. FreedForGood' /\ owners' = left
    BY <1>2, HoldersFreeForGood DEF Holders
  <2>3. TypeOK'
    BY <1>2, <2>1 DEF ChainEnds, TypeOK
  <2> QED
    BY <1>1, <1>2, <2>2, <2>3 DEF ChainEnds, Operations
<1>3. CASE Holders(left \cup {"chain"}) /\ chain' = NextInChain[chain]
  <2>1. /\ owners' \subseteq Operations \cup {"impl", "handler"}
        /\ session' \in {"alive", "freed"}
        /\ session' = "alive" <=> owners' # {}
        /\ underRun' \in BOOLEAN
    BY <1>1, <1>3, HoldersTypes DEF TypeOK, Operations
  <2>2. FreedForGood' /\ owners' = left \cup {"chain"}
    BY <1>3, HoldersFreeForGood DEF Holders
  <2>3. chain' \in {"connect", "handshake", "read"}
    BY <1>3 DEF ChainEnds, TypeOK, NextInChain
  <2>4. TypeOK'
    BY <2>1, <2>3 DEF ChainEnds, TypeOK
  <2> QED
    BY <1>1, <2>2, <2>3, <2>4 DEF ChainEnds, Operations
<1> QED
  BY <1>2, <1>3 DEF ChainEnds

LEMMA WriteEndsKeeps ==
  ASSUME IInv, WriteEnds
  PROVE  IInv'
<1> USE DEF IInv, HandledInRun, ChainHolds, HandlerHolds
<1> DEFINE left == owners \ {"handler"}
<1>1. PICK now \in {left, left \cup {"write"}} :
             Holders(now) /\ (now = left \/ session = "alive")
  BY DEF WriteEnds
<1>2. /\ owners' \subseteq Operations \cup {"impl", "handler"}
      /\ session' \in {"alive", "freed"}
      /\ session' = "alive" <=> owners' # {}
      /\ underRun' \in BOOLEAN
  <2>1. now \subseteq Operations \cup {"impl", "handler"} /\ (session = "freed" => now = {})
    BY <1>1 DEF TypeOK, Operations
  <2> QED
    BY <1>1, <2>1, HoldersTypes
<1>3. FreedForGood' /\ owners' = now
  BY <1>1, HoldersFreeForGood DEF Holders
<1>4. TypeOK'
  BY <1>2 DEF WriteEnds, TypeOK
<1> QED
  BY <1>1, <1>3, <1>4 DEF WriteEnds, Operations

LEMMA InvStep == IInv /\ [Next]_vars => IInv'
<1> SUFFICES ASSUME IInv, [Next]_vars PROVE IInv'
  OBVIOUS
<1>1. CASE UNCHANGED vars
  BY <1>1 DEF vars, IInv, TypeOK, HandledInRun, ChainHolds, HandlerHolds, FreedForGood
<1>2. CASE Send \/ Destroy \/ DestructorStep
  BY <1>2, ApplicationKeeps
<1>3. CASE RunnerStep
  BY <1>3, RunKeeps, ChainEndsKeeps, WriteEndsKeeps DEF RunnerStep, HandlerEnds
<1>4. CASE \E h \in Operations \cup {"doWrite"} : Begin(h)
  BY <1>4, BeginKeeps
<1> QED
  BY <1>1, <1>2, <1>3, <1>4 DEF Next

LEMMA Invariant == Spec => []IInv
BY InvInit, InvStep, PTL DEF Spec

(***************************************************************************)
(* Every reachable state has its types, and the session is there as long   *)
(* as somebody holds it.                                                   *)
(***************************************************************************)
THEOREM TypeCorrect == Spec => []TypeOK
BY Invariant, PTL DEF IInv

(***************************************************************************)
(* A session freed under its own run() has no operation pending and none   *)
(* of its operations' handlers running: a client that is connecting,       *)
(* connected or writing keeps the session it works on.                     *)
(***************************************************************************)
THEOREM NeverFreedAtWork == Spec => []FreedOnlyIdle
<1>1. IInv => FreedOnlyIdle
  BY DEF IInv, TypeOK, ChainHolds, HandlerHolds, FreedForGood, FreedOnlyIdle, Operations
<1> QED
  BY <1>1, Invariant, PTL

(***************************************************************************)
(* A session that was stopped with an operation pending is kept for ever,  *)
(* whatever the runner and the destructor still do.                        *)
(***************************************************************************)
THEOREM StoppedSessionIsKept == Spec => StoppedIsKept
<1>1. ASSUME IInv, IInv', [Next]_vars, stopped, Pending # {}
      PROVE  Pending' # {} /\ session' = "alive"
  <2>1. Pending \subseteq owners'
    BY <1>1 DEF vars, Next, Send, Destroy, DestructorStep, Stop, Free, Wait, RunnerStep, Start,
       Resolve, RunContext, RunReturns, HandlerEnds, ChainEnds, WriteEnds, Begin, Holders,
       Pending, Operations
  <2> QED
    BY <1>1, <2>1 DEF IInv, TypeOK, Pending
<1> QED
  BY <1>1, Invariant, PTL DEF Spec, StoppedIsKept

=============================================================================
