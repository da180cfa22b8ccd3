---------------------------- MODULE SlingersProofs ----------------------------
(***************************************************************************)
(* Theorems about Slingers, for any programs, objects and option sets: who *)
(* owns an Impl, and whose the shared segment is.                          *)
(***************************************************************************)
EXTENDS Slingers, SequenceTheorems, TLAPS

Classes == {"DataReceiverWebSocket", "DataSlingerWebSocket", "DataReceiverPipe", "SharedVector"}

\* A program's objects and its thread hold Impls of the program, and what is being
\* destroyed is held by no object.
OwnInv ==
  /\ \A p \in Programs : \A x \in Objects :
       d[p][x] > Null => impls[d[p][x]].program = p
  /\ \A p \in Programs :
       closing[p] # Null =>
         impls[closing[p]].program = p /\ impls[closing[p]].memory \in {"alive", "freed"}
  /\ \A p \in Programs :
       making[p] # Null =>
         /\ impls[making[p]].program = p /\ impls[making[p]].memory = "alive"
         /\ closing[p] = Null

\* Only a shared vector has made the segment, and its destructor removes it.
SegmentInv ==
  /\ SegmentIsMine /\ OrphanedByCrash
  /\ \A n \in segment : impls[n].class = "SharedVector"

IInv == TypeOK /\ OwnInv /\ OwnedOnce /\ SegmentInv /\ LookupsSucceed

-----------------------------------------------------------------------------
(* The factory and the options.                                            *)

\* Whatever the options, the factory makes a backend, throws or ends the process.
LEMMA FactoryMakes ==
  ASSUME NEW info \in HeterogeneousMap
  PROVE  makeSlingerBackend(info) \subseteq Classes \cup Exceptions \cup {"abort"}
<1> DEFINE backend == getValue("PreferredBackend", info, "PREFERRED_BACKEND")
<1>1. backend \in PreferredBackend \cup {"unnamed"} \cup Exceptions
  <2>1. CASE hasValue(info, "PREFERRED_BACKEND")
    <3>1. info["PREFERRED_BACKEND"] \in any
      BY <2>1 DEF hasValue, HeterogeneousMap
    <3>2. \A v \in any : v.type = "PreferredBackend" => v.value \in PreferredBackend \cup {"unnamed"}
      BY DEF any
    <3> QED
      BY <2>1, <3>1, <3>2 DEF getValue, any_cast, Exceptions
  <2>2. CASE ~hasValue(info, "PREFERRED_BACKEND")
    BY <2>2 DEF getValue, Exceptions
  <2> QED
    BY <2>1, <2>2
<1> HIDE DEF backend
<1>2. makeSlingerBackend(info) =
        CASE backend \in Exceptions         -> {backend}
          [] backend = "WEBSOCKET_CLIENT"   -> {"DataReceiverWebSocket"}
          [] backend = "WEBSOCKET_SERVER"   -> {"DataSlingerWebSocket"}
          [] backend = "PIPE"               -> {"DataReceiverPipe"}
          [] backend = "SHARED_VECTOR"      -> {"SharedVector"}
          [] backend = "unnamed"            -> {"abort", "DataReceiverPipe"}
  BY DEF backend, makeSlingerBackend
<1> QED
  BY <1>1, <1>2 DEF PreferredBackend, Exceptions, Classes

\* A run() that finds its WebSocket info gets its host and its port.
LEMMA LookupsFind ==
  ASSUME NEW info \in HeterogeneousMap
  PROVE  RunWebSocket(info) \in {"done", "running"}
<1>1. ASSUME NEW V \in {"string", "uint16_t"}, NEW key, hasTypedValue(V, info, key)
      PROVE  getValue(V, info, key) \notin Exceptions
  <2>1. key \in DOMAIN info /\ info[key].type = V
    BY <1>1 DEF hasTypedValue, hasValue, any_cast
  <2>2. info[key] \in any
    BY <2>1 DEF HeterogeneousMap
  <2>3. \A v \in any : v.type \in {"string", "uint16_t"} => v.value \in {"a host", "a port"}
    BY DEF any
  <2>4. getValue(V, info, key) = info[key].value
    BY <2>1 DEF getValue, hasValue, any_cast
  <2> QED
    BY <2>1, <2>2, <2>3, <2>4 DEF Exceptions
<1> QED
  BY <1>1 DEF RunWebSocket, hasWebSocketInfo, getHost, getPort

-----------------------------------------------------------------------------
(* The invariant.                                                          *)

LEMMA MemoryChanges ==
  ASSUME NEW i \in Impl, NEW m \in {"alive", "freed", "lost"}
  PROVE  /\ [i EXCEPT !.memory = m] \in Impl /\ [i EXCEPT !.memory = m].memory = m
         /\ [i EXCEPT !.memory = m].program = i.program
         /\ [i EXCEPT !.memory = m].class = i.class
         /\ [i EXCEPT !.memory = m].runner = i.runner
BY DEF Impl

LEMMA RunnerChanges ==
  ASSUME NEW i \in Impl, NEW r \in {"starting", "running", "done", "threw"}
  PROVE  /\ [i EXCEPT !.runner = r] \in Impl /\ [i EXCEPT !.runner = r].runner = r
         /\ [i EXCEPT !.runner = r].program = i.program
         /\ [i EXCEPT !.runner = r].class = i.class
         /\ [i EXCEPT !.runner = r].memory = i.memory
BY DEF Impl

LEMMA FunctionIsSequence ==
  ASSUME NEW S, NEW n \in Nat, NEW f \in [1..n -> S]
  PROVE  f \in Seq(S) /\ Len(f) = n
<1>1. f \in Seq(S)
  BY SeqDef
<1>2. Len(f) \in Nat /\ DOMAIN f = 1..Len(f)
  BY <1>1, LenProperties
<1>3. 1..Len(f) = 1..n
  BY <1>2
<1> QED
  BY <1>1, <1>2, <1>3

LEMMA InvInit == Init => IInv
<1> SUFFICES ASSUME Init PROVE IInv
  OBVIOUS
<1>1. impls \in Seq(Impl) /\ Len(impls) = 0
  BY EmptySeq DEF Init
<1>2. d \in [Programs -> [Objects -> NoObject..Len(impls)]]
  BY <1>1 DEF Init, NoObject
<1>3. /\ closing \in [Programs -> Null..Len(impls)] /\ making \in [Programs -> Null..Len(impls)]
      /\ segment = {}
  BY <1>1 DEF Init, Null
<1>4. \A p \in Programs : closing[p] = Null /\ making[p] = Null /\ \A x \in Objects : ~(d[p][x] > Null)
  BY DEF Init, Null, NoObject
<1> QED
  BY <1>1, <1>2, <1>3, <1>4 DEF IInv, TypeOK, OwnInv, OwnedOnce, SegmentInv, SegmentIsMine,
     OrphanedByCrash, LookupsSucceed, Live

\* The Impls there are, and what holds them.
LEMMA Held ==
  ASSUME IInv
  PROVE  /\ Len(impls) \in Nat
         /\ \A n \in 1..Len(impls) : impls[n] \in Impl
         /\ \A p \in Programs : \A x \in Objects :
              d[p][x] \in Int /\ (d[p][x] > Null => d[p][x] \in 1..Len(impls))
         /\ \A p \in Programs :
              /\ closing[p] \in Int /\ (closing[p] # Null => closing[p] \in 1..Len(impls))
              /\ making[p] \in Int /\ (making[p] # Null => making[p] \in 1..Len(impls))
         /\ segment \subseteq 1..Len(impls)
<1>1. impls \in Seq(Impl) /\ Len(impls) \in Nat
  BY LenProperties DEF IInv, TypeOK
<1>2. \A n \in 1..Len(impls) : impls[n] \in Impl
  BY <1>1, ElementOfSeq
<1>3. \A p \in Programs : \A x \in Objects : d[p][x] \in NoObject..Len(impls)
  BY DEF IInv, TypeOK
<1>4. \A p \in Programs : closing[p] \in Null..Len(impls) /\ making[p] \in Null..Len(impls)
  BY DEF IInv, TypeOK
<1> QED
  BY <1>1, <1>2, <1>3, <1>4 DEF IInv, TypeOK, Null, NoObject

\* What does not touch the Impls leaves the segment and the runners as they were.
LEMMA HoldersOnly ==
  ASSUME IInv, UNCHANGED <<impls, segment>>
  PROVE  SegmentInv' /\ LookupsSucceed'
BY DEF IInv, SegmentInv, SegmentIsMine, OrphanedByCrash, LookupsSucceed, Live

\* x takes over what y held, and what x held is destroyed.
LEMMA MoveKeeps ==
  ASSUME IInv, NEW p \in Programs, NEW x \in Objects, NEW y \in Objects,
         MoveConstruct(p, x, y) \/ MoveAssign(p, x, y)
  PROVE  IInv'
<1>1. /\ UNCHANGED <<impls, making, segment>> /\ making[p] = Null /\ x # y /\ d[p][y] # NoObject
      /\ d' = [d EXCEPT ![p][x] = d[p][y], ![p][y] = Null]
  BY DEF MoveConstruct, MoveAssign, Idle
<1>2. /\ d \in [Programs -> [Objects -> NoObject..Len(impls)]]
      /\ closing \in [Programs -> Null..Len(impls)] /\ Len(impls) \in Nat
  BY Held DEF IInv, TypeOK
<1>3. /\ \A q \in Programs \ {p} : d'[q] = d[q]
      /\ d'[p][x] = d[p][y] /\ d'[p][y] = Null
      /\ \A z \in Objects \ {x, y} : d'[p][z] = d[p][z]
  BY <1>1, <1>2
<1>4. d' \in [Programs -> [Objects -> NoObject..Len(impls)]]
  <2>1. d[p][y] \in NoObject..Len(impls) /\ Null \in NoObject..Len(impls)
    BY <1>2 DEF Null, NoObject
  <2>2. [d[p] EXCEPT ![x] = d[p][y], ![y] = Null] \in [Objects -> NoObject..Len(impls)]
    BY <1>2, <2>1
  <2>3. d' = [d EXCEPT ![p] = [d[p] EXCEPT ![x] = d[p][y], ![y] = Null]]
    BY <1>1, <1>2
  <2> QED
    BY <1>2, <2>2, <2>3
<1>5. /\ closing' \in [Programs -> Null..Len(impls)]
      /\ \A q \in Programs \ {p} : closing'[q] = closing[q]
      /\ closing[p] = Null
      /\ closing'[p] = IF d[p][x] > Null THEN d[p][x] ELSE Null
  <2>1. CASE MoveConstruct(p, x, y)
    BY <1>2, <2>1 DEF MoveConstruct, Idle, NoObject, Null
  <2>2. CASE MoveAssign(p, x, y)
    <3>1. d[p][x] \in Null..Len(impls)
      BY <1>2, <2>2 DEF MoveAssign, NoObject, Null
    <3>2. closing' = [closing EXCEPT ![p] = d[p][x]] /\ closing[p] = Null
      BY <2>2 DEF MoveAssign, Idle
    <3> QED
      BY <1>2, <3>1, <3>2 DEF Null
  <2> QED
    BY <2>1, <2>2
<1>6. TypeOK'
  BY <1>1, <1>4, <1>5 DEF IInv, TypeOK
<1>7. SegmentInv' /\ LookupsSucceed'
  BY <1>1, HoldersOnly
<1>8. /\ \A q \in Programs : \A z \in Objects :
           d[q][z] > Null => impls[d[q][z]].program = q /\ d[q][z] \in Live \ {making[q], closing[q]}
      /\ \A q, r \in Programs : \A z, w \in Objects :
           d[q][z] > Null /\ d[q][z] = d[r][w] => q = r /\ z = w
  BY DEF IInv, OwnInv, OwnedOnce
<1>9. Live' = Live
  BY <1>1 DEF Live
<1>10. \A q \in Programs : \A z \in Objects : d'[q][z] > Null =>
          \/ q = p /\ z = x /\ d'[q][z] = d[p][y]
          \/ (q # p \/ z \notin {x, y}) /\ d'[q][z] = d[q][z]
  BY <1>3 DEF Null
<1>11. OwnInv'
  <2>1. \A q \in Programs : \A z \in Objects : d'[q][z] > Null => impls[d'[q][z]].program = q
    BY <1>3, <1>8 DEF Null
  <2>2. \A q \in Programs : closing'[q] # Null =>
           impls[closing'[q]].program = q /\ impls[closing'[q]].memory \in {"alive", "freed"}
    <3>1. closing'[p] # Null => impls[closing'[p]].program = p /\ impls[closing'[p]].memory = "alive"
      BY <1>5, <1>8 DEF Live
    <3> QED
      BY <1>5, <3>1 DEF IInv, OwnInv
  <2>3. ASSUME NEW q \in Programs, making'[q] # Null
        PROVE  /\ impls[making'[q]].program = q /\ impls[making'[q]].memory = "alive"
               /\ closing'[q] = Null
    <3>1. making'[q] = making[q] /\ q # p
      BY <1>1, <2>3
    <3> QED
      BY <1>5, <2>3, <3>1 DEF IInv, OwnInv
  <2>4. impls' = impls
    BY <1>1
  <2> QED
    BY <2>1, <2>2, <2>3, <2>4 DEF OwnInv
<1>12. OwnedOnce'
  <2>1. ASSUME NEW q \in Programs, NEW r \in Programs, NEW z \in Objects, NEW w \in Objects,
               d'[q][z] > Null, d'[q][z] = d'[r][w]
        PROVE  q = r /\ z = w
    <3>1. \/ q = p /\ z = x /\ d'[q][z] = d[p][y]
          \/ (q # p \/ z \notin {x, y}) /\ d'[q][z] = d[q][z]
      BY <1>10, <2>1
    <3>2. \/ r = p /\ w = x /\ d'[q][z] = d[p][y]
          \/ (r # p \/ w \notin {x, y}) /\ d'[q][z] = d[r][w]
      BY <1>10, <2>1
    <3> QED
      BY <1>8, <2>1, <3>1, <3>2
  <2>2. ASSUME NEW n \in Live
        PROVE  \/ \E z \in Objects : d'[impls[n].program][z] = n
               \/ n \in {making[impls[n].program], closing'[impls[n].program]}
    <3>1. impls[n].program \in Programs /\ n > Null
      BY Held DEF Live, Impl, Null
    <3>2. CASE n \in {making[impls[n].program], closing[impls[n].program]}
      BY <1>5, <3>1, <3>2 DEF Null
    <3>3. ASSUME NEW z \in Objects, d[impls[n].program][z] = n
          PROVE  \/ \E w \in Objects : d'[impls[n].program][w] = n
                 \/ n \in {making[impls[n].program], closing'[impls[n].program]}
      <4>1. CASE impls[n].program = p /\ z = y
        BY <1>3, <3>3, <4>1
      <4>2. CASE impls[n].program = p /\ z = x
        BY <1>5, <3>1, <3>3, <4>2
      <4>3. CASE impls[n].program # p \/ z \notin {x, y}
        BY <1>3, <3>1, <3>3, <4>3
      <4> QED
        BY <4>1, <4>2, <4>3
    <3> QED
      BY <3>2, <3>3 DEF IInv, OwnedOnce
  <2>3. ASSUME NEW q \in Programs, NEW z \in Objects, d'[q][z] > Null
        PROVE  d'[q][z] \in Live \ {making[q], closing'[q]}
    <3>1. \/ q = p /\ z = x /\ d'[q][z] = d[p][y]
          \/ (q # p \/ z \notin {x, y}) /\ d'[q][z] = d[q][z]
      BY <1>10, <2>3
    <3>2. d'[q][z] \in Live
      BY <1>8, <2>3, <3>1
    <3>3. CASE q # p
      BY <1>5, <1>8, <2>3, <3>1, <3>3
    <3>4. CASE q = p
      <4>1. d'[p][z] # d[p][x]
        BY <1>1, <1>8, <2>3, <3>1, <3>4
      <4> QED
        BY <1>1, <1>5, <2>3, <3>2, <3>4, <4>1 DEF Null
    <3> QED
      BY <3>2, <3>3, <3>4
  <2>4. \A n \in Live' :
           \/ \E z \in Objects : d'[impls'[n].program][z] = n
           \/ n \in {making'[impls'[n].program], closing'[impls'[n].program]}
    BY <1>1, <1>9, <2>2
  <2>5. \A q, r \in Programs : \A z, w \in Objects :
           d'[q][z] > Null /\ d'[q][z] = d'[r][w] => q = r /\ z = w
    BY <2>1
  <2>6. \A q \in Programs : \A z \in Objects :
           d'[q][z] > Null => d'[q][z] \in Live' \ {making'[q], closing'[q]}
    BY <1>1, <1>9, <2>3
  <2> QED
    BY <2>4, <2>5, <2>6 DEF OwnedOnce
<1> QED
  BY <1>6, <1>7, <1>11, <1>12 DEF IInv

LEMMA DestroyKeeps ==
  ASSUME IInv, NEW p \in Programs, NEW x \in Objects, Destroy(p, x)
  PROVE  IInv'
<1>1. /\ UNCHANGED <<impls, making, segment>> /\ making[p] = Null /\ closing[p] = Null
      /\ d' = [d EXCEPT ![p][x] = NoObject] /\ closing' = [closing EXCEPT ![p] = d[p][x]]
  BY DEF Destroy, Idle
<1>2. /\ d \in [Programs -> [Objects -> NoObject..Len(impls)]]
      /\ closing \in [Programs -> Null..Len(impls)] /\ Len(impls) \in Nat
      /\ d[p][x] \in Null..Len(impls)
  BY Held DEF IInv, TypeOK, Destroy, NoObject, Null
<1>3. /\ \A q \in Programs \ {p} : d'[q] = d[q]
      /\ d'[p][x] = NoObject
      /\ \A z \in Objects \ {x} : d'[p][z] = d[p][z]
  BY <1>1, <1>2
<1>4. d' \in [Programs -> [Objects -> NoObject..Len(impls)]]
  BY <1>1, <1>2 DEF NoObject
<1>5. /\ closing' \in [Programs -> Null..Len(impls)]
      /\ \A q \in Programs \ {p} : closing'[q] = closing[q]
      /\ closing'[p] = d[p][x]
  BY <1>1, <1>2
<1>6. TypeOK'
  BY <1>1, <1>4, <1>5 DEF IInv, TypeOK
<1>7. SegmentInv' /\ LookupsSucceed'
  BY <1>1, HoldersOnly
<1>8. /\ \A q \in Programs : \A z \in Objects :
           d[q][z] > Null => impls[d[q][z]].program = q /\ d[q][z] \in Live \ {making[q], closing[q]}
      /\ \A q, r \in Programs : \A z, w \in Objects :
           d[q][z] > Null /\ d[q][z] = d[r][w] => q = r /\ z = w
  BY DEF IInv, OwnInv, OwnedOnce
<1>9. Live' = Live
  BY <1>1 DEF Live
<1>10. OwnInv'
  <2>1. \A q \in Programs : \A z \in Objects : d'[q][z] > Null => impls[d'[q][z]].program = q
    BY <1>3, <1>8 DEF Null, NoObject
  <2>2. closing'[p] # Null => impls[closing'[p]].program = p /\ impls[closing'[p]].memory = "alive"
    BY <1>2, <1>5, <1>8 DEF Live, Null
  <2>3. ASSUME NEW q \in Programs, making'[q] # Null
        PROVE  /\ impls[making'[q]].program = q /\ impls[making'[q]].memory = "alive"
               /\ closing'[q] = Null
    <3>1. making'[q] = making[q] /\ q # p
      BY <1>1, <2>3
    <3> QED
      BY <1>5, <2>3, <3>1 DEF IInv, OwnInv
  <2> QED
    BY <1>1, <1>5, <2>1, <2>2, <2>3 DEF IInv, OwnInv
<1>11. OwnedOnce'
  <2>1. \A q, r \in Programs : \A z, w \in Objects :
           d'[q][z] > Null /\ d'[q][z] = d'[r][w] => q = r /\ z = w
    BY <1>3, <1>8 DEF Null, NoObject
  <2>2. ASSUME NEW n \in Live
        PROVE  \/ \E z \in Objects : d'[impls[n].program][z] = n
               \/ n \in {making[impls[n].program], closing'[impls[n].program]}
    <3>1. impls[n].program \in Programs /\ n > Null
      BY Held DEF Live, Impl, Null
    <3>2. CASE n \in {making[impls[n].program], closing[impls[n].program]}
      BY <1>1, <1>5, <3>1, <3>2 DEF Null
    <3>3. ASSUME NEW z \in Objects, d[impls[n].program][z] = n
          PROVE  \/ \E w \in Objects : d'[impls[n].program][w] = n
                 \/ n \in {making[impls[n].program], closing'[impls[n].program]}
      BY <1>3, <1>5, <3>1, <3>3
    <3> QED
      BY <3>2, <3>3 DEF IInv, OwnedOnce
  <2>3. \A q \in Programs : \A z \in Objects : d'[q][z] > Null => d'[q][z] \in Live \ {making[q], closing'[q]}
    BY <1>1, <1>3, <1>5, <1>8, Held DEF Null, NoObject
  <2> QED
    BY <1>1, <1>9, <2>1, <2>2, <2>3 DEF OwnedOnce
<1> QED
  BY <1>6, <1>7, <1>10, <1>11 DEF IInv

\* What a program constructs, it has not got an object for, and does not destroy.
LEMMA MakingIsLive ==
  ASSUME IInv, NEW p \in Programs, making[p] # Null
  PROVE  /\ making[p] \in 1..Len(impls) /\ making[p] \in Live
         /\ impls[making[p]].program = p /\ impls[making[p]].memory = "alive"
         /\ closing[p] = Null
BY Held DEF IInv, OwnInv, Live

LEMMA ImplAppended ==
  ASSUME IInv, NEW i \in Impl, impls' = Append(impls, i)
  PROVE  /\ impls' \in Seq(Impl) /\ Len(impls') = Len(impls) + 1
         /\ \A n \in 1..Len(impls) : impls'[n] = impls[n]
         /\ impls'[Len(impls) + 1] = i
BY AppendProperties DEF IInv, TypeOK

\* The segment that made create_only throw stays whose it was.
LEMMA CreateThrowsKeeps ==
  ASSUME IInv, NEW p \in Programs, CreateThrows(p)
  PROVE  IInv'
<1> DEFINE k == Len(impls) + 1
<1>1. PICK info \in OptionSets : Made(p, "SharedVector", info, "freed")
  BY DEF CreateThrows
<1> DEFINE i == [program |-> p, class |-> "SharedVector", info |-> info,
                 memory |-> "freed", runner |-> "none"]
<1>2. /\ i \in Impl /\ i.memory = "freed" /\ i.runner = "none"
      /\ impls' = Append(impls, i)
  BY <1>1 DEF Impl, Made
<1> HIDE DEF i
<1>3. /\ impls' \in Seq(Impl) /\ Len(impls') = k
      /\ \A n \in 1..Len(impls) : impls'[n] = impls[n]
      /\ impls'[k] = i
  BY <1>2, ImplAppended
<1>4. UNCHANGED <<d, making, closing, segment>> /\ Len(impls) \in Nat
  BY Held DEF CreateThrows
<1>5. Live' = Live
  BY <1>2, <1>3, <1>4 DEF Live
<1>6. TypeOK'
  <2>1. d' \in [Programs -> [Objects -> NoObject..k]]
    BY <1>4 DEF IInv, TypeOK, NoObject
  <2>2. making' \in [Programs -> Null..k] /\ closing' \in [Programs -> Null..k]
    BY <1>4 DEF IInv, TypeOK, Null
  <2>3. segment' \in SUBSET (1..k) /\ \A a, b \in segment' : a = b
    BY <1>4 DEF IInv, TypeOK
  <2> QED
    BY <1>3, <2>1, <2>2, <2>3 DEF TypeOK
<1>7. OwnInv'
  BY <1>3, <1>4, Held DEF IInv, OwnInv
<1>8. OwnedOnce'
  <2>1. \A n \in Live : impls'[n] = impls[n]
    BY <1>3 DEF Live
  <2> QED
    BY <1>4, <1>5, <2>1 DEF IInv, OwnedOnce
<1>9. SegmentInv'
  <2>1. \A n \in Live \cup segment : impls'[n] = impls[n]
    BY <1>3, Held DEF Live
  <2>2. SegmentIsMine'
    BY <1>4, <1>5, <2>1 DEF IInv, SegmentInv, SegmentIsMine
  <2>3. OrphanedByCrash' /\ \A n \in segment' : impls'[n].class = "SharedVector"
    BY <1>4, <2>1 DEF IInv, SegmentInv, OrphanedByCrash
  <2> QED
    BY <2>2, <2>3 DEF SegmentInv
<1>10. LookupsSucceed'
  <2>1. ASSUME NEW n \in 1..k
        PROVE  impls'[n].runner # "threw"
    <3>1. CASE n = k
      BY <1>2, <1>3, <3>1
    <3>2. CASE n \in 1..Len(impls)
      BY <1>3, <3>2 DEF IInv, LookupsSucceed
    <3> QED
      BY <1>4, <3>1, <3>2
  <2> QED
    BY <1>3, <2>1 DEF LookupsSucceed
<1> QED
  BY <1>6, <1>7, <1>8, <1>9, <1>10 DEF IInv

\* A new Impl is its constructor's alone, and its segment, if it has one, is its own.
LEMMA MakeBackendKeeps ==
  ASSUME IInv, NEW p \in Programs, MakeBackend(p)
  PROVE  IInv'
<1> DEFINE k == Len(impls) + 1
<1>1. PICK info \in OptionSets :
        \E class \in makeSlingerBackend(info) \ (Exceptions \cup {"abort"}) :
          /\ Made(p, class, info, "alive")
          /\ IF class = "SharedVector" THEN CreateSegment(k) ELSE UNCHANGED segment
  BY DEF MakeBackend
<1>2. PICK class \in makeSlingerBackend(info) \ (Exceptions \cup {"abort"}) :
        /\ Made(p, class, info, "alive")
        /\ IF class = "SharedVector" THEN CreateSegment(k) ELSE UNCHANGED segment
  BY <1>1
<1> DEFINE i == [program |-> p, class |-> class, info |-> info,
                 memory |-> "alive", runner |-> "none"]
<1>3. i \in Impl
  BY <1>2, FactoryMakes, SlingersAssumption DEF Impl, Classes
<1>4. /\ impls' = Append(impls, i) /\ UNCHANGED <<d, closing>>
      /\ closing[p] = Null /\ making[p] = Null /\ making' = [making EXCEPT ![p] = k]
  BY <1>2 DEF Made, MakeBackend, Constructing, Idle
<1>5. Len(impls) \in Nat
  BY Held
<1>6. /\ impls' \in Seq(Impl) /\ Len(impls') = k
      /\ \A n \in 1..Len(impls) : impls'[n] = impls[n]
      /\ impls'[k] = i
  BY <1>3, <1>4, ImplAppended
<1>7. /\ i.program = p /\ i.class = class /\ i.memory = "alive" /\ i.runner = "none"
  OBVIOUS
<1> HIDE DEF i
<1>8. /\ making \in [Programs -> Null..Len(impls)]
      /\ segment \subseteq 1..Len(impls) /\ \A a, b \in segment : a = b
  BY DEF IInv, TypeOK
<1>9. /\ making'[p] = k /\ \A q \in Programs \ {p} : making'[q] = making[q]
      /\ making' \in [Programs -> Null..k]
  <2>1. making \in [Programs -> Null..k] /\ k \in Null..k
    BY <1>5, <1>8 DEF Null
  <2> QED
    BY <1>4, <2>1
<1>10. /\ segment' = IF class = "SharedVector" THEN {k} ELSE segment
       /\ class = "SharedVector" => segment = {}
  BY <1>2 DEF CreateSegment
<1>11. TypeOK'
  <2>1. closing' \in [Programs -> Null..k]
    BY <1>4, <1>5 DEF IInv, TypeOK, Null
  <2>2. d' \in [Programs -> [Objects -> NoObject..k]]
    BY <1>4, <1>5 DEF IInv, TypeOK, NoObject
  <2>3. segment' \in SUBSET (1..k) /\ \A a, b \in segment' : a = b
    BY <1>5, <1>8, <1>10
  <2> QED
    BY <1>6, <1>9, <2>1, <2>2, <2>3 DEF TypeOK
<1>12. Live' = Live \cup {k} /\ k \notin Live /\ k \notin 1..Len(impls)
  BY <1>5, <1>6, <1>7 DEF Live
<1>13. OwnInv'
  <2>1. ASSUME NEW q \in Programs, NEW z \in Objects, d'[q][z] > Null
        PROVE  impls'[d'[q][z]].program = q
    BY <1>4, <1>6, <2>1, Held DEF IInv, OwnInv
  <2>2. ASSUME NEW q \in Programs, closing'[q] # Null
        PROVE  impls'[closing'[q]].program = q /\ impls'[closing'[q]].memory \in {"alive", "freed"}
    BY <1>4, <1>6, <2>2, Held DEF IInv, OwnInv
  <2>3. ASSUME NEW q \in Programs, making'[q] # Null
        PROVE  /\ impls'[making'[q]].program = q /\ impls'[making'[q]].memory = "alive"
               /\ closing'[q] = Null
    <3>1. CASE q = p
      BY <1>4, <1>6, <1>7, <1>9, <3>1
    <3>2. CASE q # p
      BY <1>4, <1>6, <1>9, <2>3, <3>2, MakingIsLive
    <3> QED
      BY <3>1, <3>2
  <2> QED
    BY <2>1, <2>2, <2>3 DEF OwnInv
<1>14. OwnedOnce'
  <2>1. \A q, r \in Programs : \A z, w \in Objects :
          d'[q][z] > Null /\ d'[q][z] = d'[r][w] => q = r /\ z = w
    BY <1>4 DEF IInv, OwnedOnce
  <2>2. ASSUME NEW n \in Live'
        PROVE  \/ \E z \in Objects : d'[impls'[n].program][z] = n
               \/ n \in {making'[impls'[n].program], closing'[impls'[n].program]}
    <3>1. CASE n = k
      BY <1>6, <1>7, <1>9, <3>1
    <3>2. CASE n \in Live
      <4>1. impls'[n] = impls[n] /\ impls[n].program \in Programs /\ n # Null
        BY <1>6, <3>2, Held DEF Live, Impl, Null
      <4>2. making[impls[n].program] = n => making'[impls[n].program] = n
        BY <1>4, <1>9, <4>1
      <4> QED
        BY <1>4, <3>2, <4>1, <4>2 DEF IInv, OwnedOnce
    <3> QED
      BY <1>12, <3>1, <3>2
  <2>3. ASSUME NEW q \in Programs, NEW z \in Objects, d'[q][z] > Null
        PROVE  d'[q][z] \in Live' \ {making'[q], closing'[q]}
    <3>1. d[q][z] \in Live \ {making[q], closing[q]}
      BY <1>4, <2>3 DEF IInv, OwnedOnce
    <3> QED
      BY <1>4, <1>9, <1>12, <3>1
  <2> QED
    BY <2>1, <2>2, <2>3 DEF OwnedOnce
<1>15. SegmentInv'
  <2>1. ASSUME NEW n \in Live', impls'[n].class = "SharedVector"
        PROVE  segment' = {n}
    <3>1. CASE n = k
      BY <1>6, <1>7, <1>10, <2>1, <3>1
    <3>2. CASE n \in Live
      <4>1. impls'[n] = impls[n] /\ segment = {n}
        BY <1>6, <2>1, <3>2 DEF Live, IInv, SegmentInv, SegmentIsMine
      <4> QED
        BY <1>10, <4>1
    <3> QED
      BY <1>12, <3>1, <3>2
  <2>2. ASSUME NEW n \in segment'
        PROVE  impls'[n].memory # "freed" /\ impls'[n].class = "SharedVector"
    <3>1. CASE n = k /\ class = "SharedVector"
      BY <1>6, <1>7, <3>1
    <3>2. CASE n \in segment
      BY <1>6, <1>8, <3>2 DEF IInv, SegmentInv, OrphanedByCrash
    <3> QED
      BY <1>10, <2>2, <3>1, <3>2
  <2> QED
    BY <2>1, <2>2 DEF SegmentInv, SegmentIsMine, OrphanedByCrash
<1>16. LookupsSucceed'
  <2>1. ASSUME NEW n \in 1..k
        PROVE  impls'[n].runner # "threw"
    <3>1. CASE n = k
      BY <1>6, <1>7, <3>1
    <3>2. CASE n \in 1..Len(impls)
      BY <1>6, <3>2 DEF IInv, LookupsSucceed
    <3> QED
      BY <1>5, <3>1, <3>2
  <2> QED
    BY <1>6, <2>1 DEF LookupsSucceed
<1> QED
  BY <1>11, <1>13, <1>14, <1>15, <1>16 DEF IInv

\* One of the Impls changes its memory or its runner.
LEMMA ImplReplaced ==
  ASSUME IInv, NEW k \in 1..Len(impls), NEW i \in Impl, impls' = [impls EXCEPT ![k] = i]
  PROVE  /\ impls' \in Seq(Impl) /\ Len(impls') = Len(impls)
         /\ \A n \in 1..Len(impls) : impls'[n] = IF n = k THEN i ELSE impls[n]
BY ExceptSeq DEF IInv, TypeOK

\* x takes over what the constructor has made.
LEMMA StartRunnerKeeps ==
  ASSUME IInv, NEW p \in Programs, NEW x \in Objects, StartRunner(p, x)
  PROVE  IInv'
<1> DEFINE k == making[p]
           i == [impls[k] EXCEPT !.runner = "starting"]
<1>1. /\ k # Null /\ k \in 1..Len(impls) /\ k \in Live /\ impls[k] \in Impl
      /\ impls[k].program = p /\ impls[k].memory = "alive" /\ closing[p] = Null
      /\ d[p][x] = NoObject /\ UNCHANGED <<closing, segment>>
      /\ d' = [d EXCEPT ![p][x] = k] /\ making' = [making EXCEPT ![p] = Null]
      /\ impls' = [impls EXCEPT ![k] = i]
  BY Held, MakingIsLive DEF StartRunner
<1>2. /\ i \in Impl /\ i.program = impls[k].program /\ i.memory = impls[k].memory
      /\ i.class = impls[k].class /\ i.runner = "starting"
  BY <1>1, RunnerChanges
<1> HIDE DEF i
<1>3. /\ impls' \in Seq(Impl) /\ Len(impls') = Len(impls)
      /\ \A n \in 1..Len(impls) : impls'[n] = IF n = k THEN i ELSE impls[n]
  BY <1>1, <1>2, ImplReplaced
<1> HIDE DEF k
<1>4. /\ \A n \in 1..Len(impls) :
           /\ impls'[n].program = impls[n].program /\ impls'[n].memory = impls[n].memory
           /\ impls'[n].class = impls[n].class
      /\ Live' = Live
  BY <1>2, <1>3 DEF Live
<1>5. /\ d \in [Programs -> [Objects -> NoObject..Len(impls)]]
      /\ making \in [Programs -> Null..Len(impls)] /\ Len(impls) \in Nat
  BY Held DEF IInv, TypeOK
<1>6. /\ \A q \in Programs : \A z \in Objects :
           d'[q][z] = IF q = p /\ z = x THEN k ELSE d[q][z]
      /\ d' \in [Programs -> [Objects -> NoObject..Len(impls)]]
  <2>1. k \in NoObject..Len(impls)
    BY <1>1, <1>5 DEF NoObject
  <2> QED
    BY <1>1, <1>5, <2>1
<1>7. /\ making' \in [Programs -> Null..Len(impls)]
      /\ making'[p] = Null /\ \A q \in Programs \ {p} : making'[q] = making[q]
  BY <1>1, <1>5 DEF Null
<1>8. TypeOK'
  BY <1>1, <1>3, <1>6, <1>7 DEF IInv, TypeOK
<1>9. \A q \in Programs : \A z \in Objects : d[q][z] > Null => d[q][z] # k
  <2>1. ASSUME NEW q \in Programs, NEW z \in Objects, d[q][z] > Null, d[q][z] = k
        PROVE  FALSE
    <3>1. q = p
      BY <1>1, <2>1 DEF IInv, OwnInv
    <3> QED
      BY <2>1, <3>1 DEF IInv, OwnedOnce, k
  <2> QED
    BY <2>1
<1>10. OwnInv'
  <2>1. ASSUME NEW q \in Programs, NEW z \in Objects, d'[q][z] > Null
        PROVE  impls'[d'[q][z]].program = q
    <3>1. CASE q = p /\ z = x
      <4>1. d'[q][z] = k
        BY <1>6, <3>1
      <4>2. impls'[k].program = p
        BY <1>1, <1>4
      <4> QED
        BY <3>1, <4>1, <4>2
    <3>2. CASE ~(q = p /\ z = x)
      <4>1. d'[q][z] = d[q][z] /\ d[q][z] > Null
        BY <1>6, <2>1, <3>2
      <4>2. d[q][z] \in 1..Len(impls) /\ impls[d[q][z]].program = q
        BY <4>1, Held DEF IInv, OwnInv
      <4> QED
        BY <1>4, <4>1, <4>2
    <3> QED
      BY <3>1, <3>2
  <2>2. ASSUME NEW q \in Programs, closing'[q] # Null
        PROVE  impls'[closing'[q]].program = q /\ impls'[closing'[q]].memory \in {"alive", "freed"}
    BY <1>1, <1>4, <2>2, Held DEF IInv, OwnInv
  <2>3. ASSUME NEW q \in Programs, making'[q] # Null
        PROVE  /\ impls'[making'[q]].program = q /\ impls'[making'[q]].memory = "alive"
               /\ closing'[q] = Null
    BY <1>1, <1>4, <1>7, <2>3, MakingIsLive
  <2> QED
    BY <2>1, <2>2, <2>3 DEF OwnInv
<1>11. OwnedOnce'
  <2>1. ASSUME NEW q \in Programs, NEW r \in Programs, NEW z \in Objects, NEW w \in Objects,
               d'[q][z] > Null, d'[q][z] = d'[r][w]
        PROVE  q = r /\ z = w
    <3>1. \/ q = p /\ z = x /\ r = p /\ w = x
          \/ d[q][z] > Null /\ d[q][z] = d[r][w]
      BY <1>6, <1>9, <2>1
    <3> QED
      BY <3>1 DEF IInv, OwnedOnce
  <2>2. ASSUME NEW n \in Live'
        PROVE  \/ \E z \in Objects : d'[impls'[n].program][z] = n
               \/ n \in {making'[impls'[n].program], closing'[impls'[n].program]}
    <3>1. n \in Live /\ impls'[n].program = impls[n].program /\ impls[n].program \in Programs
      BY <1>4, <2>2, Held DEF Live, Impl
    <3>2. CASE n = k
      BY <1>1, <1>6, <3>1, <3>2
    <3>3. CASE n # k
      <4>1. making[impls[n].program] = n => making'[impls[n].program] = n
        BY <1>7, <3>1, <3>3 DEF k
      <4>2. ASSUME NEW z \in Objects, d[impls[n].program][z] = n
            PROVE  d'[impls[n].program][z] = n
        BY <1>1, <1>6, <3>1, <4>2 DEF Live, NoObject
      <4> QED
        BY <1>1, <3>1, <4>1, <4>2 DEF IInv, OwnedOnce
    <3> QED
      BY <3>2, <3>3
  <2>3. ASSUME NEW q \in Programs, NEW z \in Objects, d'[q][z] > Null
        PROVE  d'[q][z] \in Live' \ {making'[q], closing'[q]}
    <3>1. CASE q = p /\ z = x
      BY <1>1, <1>4, <1>6, <1>7, <3>1
    <3>2. CASE ~(q = p /\ z = x)
      <4>1. d'[q][z] = d[q][z] /\ d[q][z] > Null
        BY <1>6, <2>3, <3>2
      <4>2. d[q][z] \in Live \ {making[q], closing[q]}
        BY <4>1 DEF IInv, OwnedOnce
      <4>3. d[q][z] # making'[q]
        BY <1>7, <4>1, <4>2 DEF Null
      <4> QED
        BY <1>1, <1>4, <4>1, <4>2, <4>3
    <3> QED
      BY <3>1, <3>2
  <2> QED
    BY <2>1, <2>2, <2>3 DEF OwnedOnce
<1>12. SegmentInv'
  <2>1. segment' = segment /\ segment \subseteq 1..Len(impls)
    BY <1>1, Held
  <2>2. SegmentIsMine'
    BY <1>4, <2>1 DEF IInv, SegmentInv, SegmentIsMine, Live
  <2>3. OrphanedByCrash' /\ \A n \in segment' : impls'[n].class = "SharedVector"
    BY <1>4, <2>1 DEF IInv, SegmentInv, OrphanedByCrash
  <2> QED
    BY <2>2, <2>3 DEF SegmentInv
<1>13. LookupsSucceed'
  BY <1>2, <1>3 DEF IInv, LookupsSucceed
<1> QED
  BY <1>8, <1>10, <1>11, <1>12, <1>13 DEF IInv

\* Unwinding frees what the constructor had made, its segment with it.
LEMMA AsyncThrowsKeeps ==
  ASSUME IInv, NEW p \in Programs, AsyncThrows(p)
  PROVE  IInv'
<1> DEFINE k == making[p]
           i == [impls[k] EXCEPT !.memory = "freed"]
<1>1. /\ k # Null /\ k \in 1..Len(impls) /\ k \in Live /\ impls[k] \in Impl
      /\ impls[k].program = p /\ closing[p] = Null /\ UNCHANGED <<d, closing>>
      /\ making' = [making EXCEPT ![p] = Null]
      /\ impls' = [impls EXCEPT ![k] = i]
      /\ IF impls[k].class = "SharedVector" THEN segment' = {} ELSE segment' = segment
  BY Held, MakingIsLive DEF AsyncThrows, RemoveSegment
<1>2. /\ i \in Impl /\ i.program = p /\ i.memory = "freed" /\ i.class = impls[k].class
      /\ i.runner = impls[k].runner
  BY <1>1, MemoryChanges
<1> HIDE DEF i
<1>3. /\ impls' \in Seq(Impl) /\ Len(impls') = Len(impls)
      /\ \A n \in 1..Len(impls) : impls'[n] = IF n = k THEN i ELSE impls[n]
  BY <1>1, <1>2, ImplReplaced
<1> HIDE DEF k
<1>4. /\ Live' = Live \ {k}
      /\ \A n \in 1..Len(impls) : impls'[n].program = impls[n].program
  BY <1>1, <1>2, <1>3 DEF Live
<1>5. /\ making' \in [Programs -> Null..Len(impls)]
      /\ making'[p] = Null /\ \A q \in Programs \ {p} : making'[q] = making[q]
  BY <1>1, Held DEF IInv, TypeOK, Null
<1>6. TypeOK'
  <2>1. segment' \subseteq segment
    BY <1>1
  <2> QED
    BY <1>1, <1>3, <1>5, <2>1 DEF IInv, TypeOK
<1>7. \A q \in Programs : closing[q] # Null => closing[q] # k
  BY <1>1 DEF IInv, OwnInv
<1>8. OwnInv'
  <2>1. ASSUME NEW q \in Programs, NEW z \in Objects, d[q][z] > Null
        PROVE  impls'[d[q][z]].program = q
    BY <1>4, <2>1, Held DEF IInv, OwnInv
  <2>2. ASSUME NEW q \in Programs, closing[q] # Null
        PROVE  impls'[closing[q]].program = q /\ impls'[closing[q]].memory \in {"alive", "freed"}
    BY <1>3, <1>7, <2>2, Held DEF IInv, OwnInv
  <2>3. ASSUME NEW q \in Programs, making'[q] # Null
        PROVE  /\ impls'[making'[q]].program = q /\ impls'[making'[q]].memory = "alive"
               /\ closing[q] = Null
    <3>1. q # p /\ making'[q] = making[q] /\ making[q] # k
      BY <1>1, <1>5, <2>3, MakingIsLive
    <3> QED
      BY <1>3, <2>3, <3>1, MakingIsLive
  <2> QED
    BY <1>1, <2>1, <2>2, <2>3 DEF OwnInv
<1>9. OwnedOnce'
  <2>1. ASSUME NEW q \in Programs, NEW z \in Objects, d[q][z] > Null
        PROVE  d[q][z] \in Live' \ {making'[q], closing[q]}
    <3>1. d[q][z] \in Live \ {making[q], closing[q]} /\ impls[d[q][z]].program = q
      BY <2>1 DEF IInv, OwnInv, OwnedOnce
    <3>2. d[q][z] # k /\ d[q][z] # making'[q]
      BY <1>1, <1>5, <2>1, <3>1 DEF k, Null
    <3> QED
      BY <1>4, <3>1, <3>2
  <2>2. ASSUME NEW n \in Live'
        PROVE  \/ \E z \in Objects : d[impls'[n].program][z] = n
               \/ n \in {making'[impls'[n].program], closing[impls'[n].program]}
    <3>1. /\ n \in Live /\ n # k
          /\ impls'[n].program = impls[n].program /\ impls[n].program \in Programs
      BY <1>4, <2>2, Held DEF Live, Impl
    <3>2. making[impls[n].program] = n => making'[impls[n].program] = n
      BY <1>5, <3>1 DEF k
    <3> QED
      BY <3>1, <3>2 DEF IInv, OwnedOnce
  <2>3. \A q, r \in Programs : \A z, w \in Objects :
           d[q][z] > Null /\ d[q][z] = d[r][w] => q = r /\ z = w
    BY DEF IInv, OwnedOnce
  <2> QED
    BY <1>1, <2>1, <2>2, <2>3 DEF OwnedOnce
<1>10. SegmentInv'
  <2>1. ASSUME NEW n \in Live', impls'[n].class = "SharedVector"
        PROVE  segment' = {n}
    <3>1. n # k /\ n \in Live /\ impls[n].class = "SharedVector"
      BY <1>3, <1>4, <2>1 DEF Live
    <3>2. segment = {n}
      BY <3>1 DEF IInv, SegmentInv, SegmentIsMine
    <3>3. impls[k].class # "SharedVector"
      BY <1>1, <3>1, <3>2 DEF IInv, SegmentInv, SegmentIsMine
    <3> QED
      BY <1>1, <3>2, <3>3
  <2>2. ASSUME NEW n \in segment'
        PROVE  impls'[n].memory # "freed" /\ impls'[n].class = "SharedVector"
    <3>1. n \in segment /\ impls[k].class # "SharedVector"
      BY <1>1, <2>2
    <3>2. n # k /\ n \in 1..Len(impls)
      BY <3>1, Held DEF IInv, SegmentInv
    <3> QED
      BY <1>3, <3>1, <3>2 DEF IInv, SegmentInv, OrphanedByCrash
  <2> QED
    BY <2>1, <2>2 DEF SegmentInv, SegmentIsMine, OrphanedByCrash
<1>11. LookupsSucceed'
  BY <1>2, <1>3 DEF IInv, LookupsSucceed, k
<1> QED
  BY <1>6, <1>8, <1>9, <1>10, <1>11 DEF IInv

LEMMA FreeBackendKeeps ==
  ASSUME IInv, NEW p \in Programs, FreeBackend(p)
  PROVE  IInv'
<1> DEFINE k == closing[p]
           i == [impls[k] EXCEPT !.memory = "freed"]
<1>1. /\ k \in 1..Len(impls) /\ impls[k] \in Impl /\ impls[k].memory = "alive"
      /\ impls[k].program = p /\ k # Null /\ UNCHANGED <<d, making, closing>>
      /\ impls' = [impls EXCEPT ![k] = i]
      /\ IF impls[k].class = "SharedVector" THEN segment' = {} ELSE segment' = segment
  BY Held DEF FreeBackend, RemoveSegment, IInv, OwnInv
<1>2. /\ i \in Impl /\ i.program = p /\ i.memory = "freed" /\ i.class = impls[k].class
      /\ i.runner = impls[k].runner
  BY <1>1, MemoryChanges
<1> HIDE DEF i
<1>3. /\ impls' \in Seq(Impl) /\ Len(impls') = Len(impls)
      /\ \A n \in 1..Len(impls) : impls'[n] = IF n = k THEN i ELSE impls[n]
  BY <1>1, <1>2, ImplReplaced
<1> HIDE DEF k
<1>4. /\ Live' = Live \ {k} /\ k \in Live
      /\ \A n \in 1..Len(impls) : impls'[n].program = impls[n].program
  BY <1>1, <1>2, <1>3 DEF Live
<1>5. TypeOK'
  <2>1. segment' \subseteq segment
    BY <1>1
  <2> QED
    BY <1>1, <1>3, <2>1 DEF IInv, TypeOK
<1>6. OwnInv'
  <2>1. ASSUME NEW q \in Programs, NEW z \in Objects, d[q][z] > Null
        PROVE  impls'[d[q][z]].program = q
    BY <1>4, <2>1, Held DEF IInv, OwnInv
  <2>2. ASSUME NEW q \in Programs, closing[q] # Null
        PROVE  impls'[closing[q]].program = q /\ impls'[closing[q]].memory \in {"alive", "freed"}
    BY <1>2, <1>3, <1>4, <2>2, Held DEF IInv, OwnInv
  <2>3. ASSUME NEW q \in Programs, making[q] # Null
        PROVE  /\ impls'[making[q]].program = q /\ impls'[making[q]].memory = "alive"
               /\ closing[q] = Null
    <3>1. /\ making[q] \in 1..Len(impls) /\ closing[q] = Null
          /\ impls[making[q]].program = q /\ impls[making[q]].memory = "alive"
      BY <2>3, Held DEF IInv, OwnInv
    <3>2. making[q] # k
      BY <1>1, <3>1 DEF k
    <3> QED
      BY <1>3, <3>1, <3>2
  <2> QED
    BY <1>1, <2>1, <2>2, <2>3 DEF OwnInv
<1>7. OwnedOnce'
  <2>1. ASSUME NEW q \in Programs, NEW z \in Objects, d[q][z] > Null
        PROVE  d[q][z] \in Live' \ {making[q], closing[q]}
    <3>1. d[q][z] \in Live \ {making[q], closing[q]} /\ impls[d[q][z]].program = q
      BY <2>1 DEF IInv, OwnInv, OwnedOnce
    <3>2. d[q][z] # k
      BY <1>1, <3>1 DEF k
    <3> QED
      BY <1>4, <3>1, <3>2
  <2>2. \A n \in Live' :
           \/ \E z \in Objects : d[impls'[n].program][z] = n
           \/ n \in {making[impls'[n].program], closing[impls'[n].program]}
    BY <1>4 DEF IInv, OwnedOnce, Live
  <2>3. \A q, r \in Programs : \A z, w \in Objects :
           d[q][z] > Null /\ d[q][z] = d[r][w] => q = r /\ z = w
    BY DEF IInv, OwnedOnce
  <2> QED
    BY <1>1, <2>1, <2>2, <2>3 DEF OwnedOnce
<1>8. SegmentInv'
  <2>1. ASSUME NEW n \in Live', impls'[n].class = "SharedVector"
        PROVE  segment' = {n}
    <3>1. n # k /\ n \in Live /\ impls[n].class = "SharedVector"
      BY <1>3, <1>4, <2>1 DEF Live
    <3>2. segment = {n}
      BY <3>1 DEF IInv, SegmentInv, SegmentIsMine
    <3>3. impls[k].class # "SharedVector"
      BY <1>4, <3>1, <3>2 DEF IInv, SegmentInv, SegmentIsMine
    <3> QED
      BY <1>1, <3>2, <3>3
  <2>2. ASSUME NEW n \in segment'
        PROVE  impls'[n].memory # "freed" /\ impls'[n].class = "SharedVector"
    <3>1. n \in segment /\ impls[k].class # "SharedVector"
      BY <1>1, <2>2
    <3>2. n # k /\ n \in 1..Len(impls)
      BY <3>1, Held DEF IInv, SegmentInv
    <3> QED
      BY <1>3, <3>1, <3>2 DEF IInv, SegmentInv, OrphanedByCrash
  <2> QED
    BY <2>1, <2>2 DEF SegmentInv, SegmentIsMine, OrphanedByCrash
<1>9. LookupsSucceed'
  BY <1>2, <1>3 DEF IInv, LookupsSucceed, k
<1> QED
  BY <1>5, <1>6, <1>7, <1>8, <1>9 DEF IInv

LEMMA WaitForRunnerKeeps ==
  ASSUME IInv, NEW p \in Programs, WaitForRunner(p)
  PROVE  IInv'
<1>1. /\ UNCHANGED <<d, impls, making, segment>> /\ closing' = [closing EXCEPT ![p] = Null]
      /\ closing \in [Programs -> Null..Len(impls)] /\ Len(impls) \in Nat
      /\ impls[closing[p]].memory = "freed"
  BY Held DEF WaitForRunner, IInv, TypeOK
<1>2. /\ \A q \in Programs \ {p} : closing'[q] = closing[q]
      /\ closing'[p] = Null /\ closing' \in [Programs -> Null..Len(impls)]
      /\ Live' = Live
  BY <1>1 DEF Null, Live
<1>3. TypeOK'
  BY <1>1, <1>2 DEF IInv, TypeOK
<1>4. OwnInv'
  BY <1>1, <1>2 DEF IInv, OwnInv
<1>5. OwnedOnce'
  <2>1. ASSUME NEW n \in Live
        PROVE  \/ \E z \in Objects : d[impls[n].program][z] = n
               \/ n \in {making[impls[n].program], closing'[impls[n].program]}
    <3>1. impls[n].program \in Programs /\ impls[n].memory = "alive"
      BY Held DEF Live, Impl
    <3> QED
      BY <1>1, <1>2, <3>1 DEF IInv, OwnedOnce
  <2>2. ASSUME NEW q \in Programs, NEW z \in Objects, d[q][z] > Null
        PROVE  d[q][z] \in Live \ {making[q], closing'[q]}
    BY <1>2, <2>2 DEF IInv, OwnedOnce
  <2>3. \A q, r \in Programs : \A z, w \in Objects :
           d[q][z] > Null /\ d[q][z] = d[r][w] => q = r /\ z = w
    BY DEF IInv, OwnedOnce
  <2> QED
    BY <1>1, <1>2, <2>1, <2>2, <2>3 DEF OwnedOnce
<1>6. SegmentInv' /\ LookupsSucceed'
  BY <1>1, <1>2 DEF IInv, SegmentInv, SegmentIsMine, OrphanedByCrash, LookupsSucceed
<1> QED
  BY <1>3, <1>4, <1>5, <1>6 DEF IInv

\* A runner touches nothing but its own place in run().
LEMMA RunnerKeeps ==
  ASSUME IInv, NEW k \in 1..Len(impls), RunnerStarts(k) \/ RunnerEnds(k)
  PROVE  IInv'
<1>1. /\ impls[k] \in Impl /\ UNCHANGED <<d, making, closing, segment>>
      /\ impls[k].runner \in {"starting", "running"}
  BY Held DEF RunnerStarts, RunnerEnds
<1>2. PICK r \in {"running", "done"} :
        /\ impls' = [impls EXCEPT ![k].runner = r]
        /\ impls[k].runner = "running" => r = "done"
  <2>1. RunOf(impls[k]) \in {"running", "done"}
    BY <1>1, LookupsFind, SlingersAssumption DEF RunOf, Impl
  <2> QED
    BY <2>1 DEF RunnerStarts, RunnerEnds
<1> DEFINE i == [impls[k] EXCEPT !.runner = r]
<1>3. /\ i \in Impl /\ i.program = impls[k].program /\ i.memory = impls[k].memory
      /\ i.class = impls[k].class /\ i.runner = r
  <2>1. r \in {"starting", "running", "done", "threw"}
    OBVIOUS
  <2> QED
    BY <1>1, <2>1, RunnerChanges
<1>4. impls' = [impls EXCEPT ![k] = i]
  BY <1>2
<1> HIDE DEF i
<1>5. /\ impls' \in Seq(Impl) /\ Len(impls') = Len(impls)
      /\ \A n \in 1..Len(impls) : impls'[n] = IF n = k THEN i ELSE impls[n]
  BY <1>3, <1>4, ImplReplaced
<1>6. /\ \A n \in 1..Len(impls) :
           /\ impls'[n].program = impls[n].program /\ impls'[n].memory = impls[n].memory
           /\ impls'[n].class = impls[n].class
      /\ Live' = Live
  BY <1>3, <1>5 DEF Live
<1>7. TypeOK'
  BY <1>1, <1>5 DEF IInv, TypeOK
<1>8. OwnInv'
  BY <1>1, <1>6, Held DEF IInv, OwnInv
<1>9. OwnedOnce'
  BY <1>1, <1>6 DEF IInv, OwnedOnce, Live
<1>10. SegmentInv'
  <2>1. segment' = segment /\ \A n \in segment : n \in 1..Len(impls)
    BY <1>1, Held DEF IInv, TypeOK
  <2>2. SegmentIsMine'
    BY <1>1, <1>6, <2>1 DEF IInv, SegmentInv, SegmentIsMine, Live
  <2>3. OrphanedByCrash'
    BY <1>1, <1>6, <2>1 DEF IInv, SegmentInv, OrphanedByCrash
  <2>4. \A n \in segment' : impls'[n].class = "SharedVector"
    BY <1>6, <2>1 DEF IInv, SegmentInv
  <2> QED
    BY <2>2, <2>3, <2>4 DEF SegmentInv
<1>11. LookupsSucceed'
  BY <1>3, <1>5 DEF IInv, LookupsSucceed
<1> QED
  BY <1>7, <1>8, <1>9, <1>10, <1>11 DEF IInv

\* A program that ends takes its slingers along and no other's.
LEMMA CrashKeeps ==
  ASSUME IInv, NEW p \in Programs, Crash(p)
  PROVE  IInv'
<1> DEFINE i(n) == IF impls[n].program # p \/ (impls[n].memory = "freed" /\ closing[p] # n)
                     THEN impls[n]
                     ELSE [impls[n] EXCEPT !.memory = "lost", !.runner = "done"]
<1>1. /\ impls' = [n \in 1..Len(impls) |-> i(n)]
      /\ d' = [d EXCEPT ![p] = [x \in Objects |-> NoObject]]
      /\ making' = [making EXCEPT ![p] = Null] /\ closing' = [closing EXCEPT ![p] = Null]
      /\ UNCHANGED segment
  BY DEF Crash
<1>2. /\ d \in [Programs -> [Objects -> NoObject..Len(impls)]] /\ Len(impls) \in Nat
      /\ closing \in [Programs -> Null..Len(impls)] /\ making \in [Programs -> Null..Len(impls)]
  BY Held DEF IInv, TypeOK
<1>3. ASSUME NEW n \in 1..Len(impls)
      PROVE  /\ i(n) \in Impl /\ i(n).program = impls[n].program /\ i(n).class = impls[n].class
             /\ \/ /\ i(n) = impls[n]
                   /\ impls[n].program # p \/ (impls[n].memory = "freed" /\ closing[p] # n)
                \/ impls[n].program = p /\ i(n).memory = "lost" /\ i(n).runner = "done"
  <2>1. impls[n] \in Impl
    BY Held
  <2>2. \A j \in Impl :
          /\ [j EXCEPT !.memory = "lost", !.runner = "done"] \in Impl
          /\ [j EXCEPT !.memory = "lost", !.runner = "done"].program = j.program
          /\ [j EXCEPT !.memory = "lost", !.runner = "done"].class = j.class
          /\ [j EXCEPT !.memory = "lost", !.runner = "done"].memory = "lost"
          /\ [j EXCEPT !.memory = "lost", !.runner = "done"].runner = "done"
    BY DEF Impl
  <2> QED
    BY <2>1, <2>2
<1> HIDE DEF i
<1>4. impls' \in [1..Len(impls) -> Impl]
  BY <1>1, <1>3
<1>5. impls' \in Seq(Impl) /\ Len(impls') = Len(impls)
  BY <1>2, <1>4, FunctionIsSequence
<1>6. \A n \in 1..Len(impls) : impls'[n] = i(n)
  BY <1>1
<1>7. /\ \A q \in Programs \ {p} : d'[q] = d[q] /\ making'[q] = making[q] /\ closing'[q] = closing[q]
      /\ \A z \in Objects : d'[p][z] = NoObject
      /\ closing'[p] = Null /\ making'[p] = Null
      /\ d' \in [Programs -> [Objects -> NoObject..Len(impls)]]
      /\ closing' \in [Programs -> Null..Len(impls)] /\ making' \in [Programs -> Null..Len(impls)]
  BY <1>1, <1>2 DEF Null, NoObject
<1>8. TypeOK'
  BY <1>1, <1>5, <1>7 DEF IInv, TypeOK
<1>9. Live' = {n \in Live : impls[n].program # p}
  BY <1>3, <1>5, <1>6 DEF Live
<1>10. OwnInv'
  <2>1. ASSUME NEW q \in Programs, NEW z \in Objects, d'[q][z] > Null
        PROVE  impls'[d'[q][z]].program = q
    <3>1. q # p /\ d'[q][z] = d[q][z]
      BY <1>7, <2>1 DEF Null, NoObject
    <3> QED
      BY <1>3, <1>6, <2>1, <3>1, Held DEF IInv, OwnInv
  <2>2. ASSUME NEW q \in Programs, closing'[q] # Null
        PROVE  impls'[closing'[q]].program = q /\ impls'[closing'[q]].memory \in {"alive", "freed"}
    <3>1. q # p /\ closing'[q] = closing[q]
      BY <1>7, <2>2
    <3> QED
      BY <1>3, <1>6, <2>2, <3>1, Held DEF IInv, OwnInv
  <2>3. ASSUME NEW q \in Programs, making'[q] # Null
        PROVE  /\ impls'[making'[q]].program = q /\ impls'[making'[q]].memory = "alive"
               /\ closing'[q] = Null
    <3>1. q # p /\ making'[q] = making[q] /\ closing'[q] = closing[q]
      BY <1>7, <2>3
    <3> QED
      BY <1>3, <1>6, <2>3, <3>1, Held DEF IInv, OwnInv
  <2> QED
    BY <2>1, <2>2, <2>3 DEF OwnInv
<1>11. OwnedOnce'
  <2>1. ASSUME NEW n \in Live'
        PROVE  \/ \E z \in Objects : d'[impls'[n].program][z] = n
               \/ n \in {making'[impls'[n].program], closing'[impls'[n].program]}
    <3>1. /\ n \in Live /\ impls[n].program \in Programs \ {p}
          /\ impls'[n].program = impls[n].program
      BY <1>3, <1>6, <1>9, <2>1, Held DEF Live, Impl
    <3>2. /\ d'[impls[n].program] = d[impls[n].program]
          /\ closing'[impls[n].program] = closing[impls[n].program]
          /\ making'[impls[n].program] = making[impls[n].program]
      BY <1>7, <3>1
    <3> QED
      BY <3>1, <3>2 DEF IInv, OwnedOnce
  <2>2. ASSUME NEW q \in Programs, NEW z \in Objects, d'[q][z] > Null
        PROVE  d'[q][z] \in Live' \ {making'[q], closing'[q]}
    <3>1. q # p /\ d'[q][z] = d[q][z] /\ closing'[q] = closing[q] /\ making'[q] = making[q]
      BY <1>7, <2>2 DEF Null, NoObject
    <3>2. d[q][z] \in Live \ {making[q], closing[q]} /\ impls[d[q][z]].program = q
      BY <2>2, <3>1 DEF IInv, OwnedOnce, OwnInv
    <3> QED
      BY <1>9, <3>1, <3>2
  <2>3. ASSUME NEW q \in Programs, NEW r \in Programs, NEW z \in Objects, NEW w \in Objects,
               d'[q][z] > Null, d'[q][z] = d'[r][w]
        PROVE  q = r /\ z = w
    <3>1. q # p /\ r # p
      BY <1>7, <2>3 DEF Null, NoObject
    <3>2. d[q][z] > Null /\ d[q][z] = d[r][w]
      BY <1>7, <2>3, <3>1
    <3> QED
      BY <3>2 DEF IInv, OwnedOnce
  <2> QED
    BY <2>1, <2>2, <2>3 DEF OwnedOnce
<1>12. SegmentInv'
  <2>1. ASSUME NEW n \in Live', impls'[n].class = "SharedVector"
        PROVE  segment' = {n}
    BY <1>1, <1>3, <1>6, <1>9, <2>1 DEF Live, IInv, SegmentInv, SegmentIsMine
  <2>2. ASSUME NEW n \in segment'
        PROVE  impls'[n].memory # "freed" /\ impls'[n].class = "SharedVector"
    <3>1. /\ n \in 1..Len(impls) /\ impls[n].class = "SharedVector"
          /\ impls[n].memory # "freed"
      BY <1>1, <2>2, Held DEF IInv, SegmentInv, OrphanedByCrash
    <3> QED
      BY <1>3, <1>6, <3>1
  <2> QED
    BY <2>1, <2>2 DEF SegmentInv, SegmentIsMine, OrphanedByCrash
<1>13. LookupsSucceed'
  <2>1. ASSUME NEW n \in 1..Len(impls)
        PROVE  impls'[n].runner # "threw"
    BY <1>3, <1>6 DEF IInv, LookupsSucceed
  <2> QED
    BY <1>5, <2>1 DEF LookupsSucceed
<1> QED
  BY <1>8, <1>10, <1>11, <1>12, <1>13 DEF IInv

LEMMA StutterKeeps == IInv /\ UNCHANGED vars => IInv'
BY DEF vars, IInv, TypeOK, OwnInv, OwnedOnce, SegmentInv, SegmentIsMine, OrphanedByCrash,
   LookupsSucceed, Live

LEMMA InvStep == IInv /\ [Next]_vars => IInv'
<1> SUFFICES ASSUME IInv, [Next]_vars PROVE IInv'
  OBVIOUS
<1>1. CASE UNCHANGED vars
  BY <1>1, StutterKeeps
<1>2. CASE RunnerStep
  BY <1>2, RunnerKeeps DEF RunnerStep
<1>3. ASSUME NEW p \in Programs, ApplicationStep(p) \/ Crash(p) PROVE IInv'
  BY <1>3, FreeBackendKeeps, WaitForRunnerKeeps, StutterKeeps, CreateThrowsKeeps,
     MakeBackendKeeps, StartRunnerKeeps, AsyncThrowsKeeps, DestroyKeeps, MoveKeeps, CrashKeeps
     DEF ApplicationStep, FactoryThrows
<1> QED
  BY <1>1, <1>2, <1>3 DEF Next

LEMMA Invariant == Spec => []IInv
BY InvInit, InvStep, PTL DEF Spec

(***************************************************************************)
(* Every reachable state has its types: the objects hold Impls that were   *)
(* made, and there is one segment at most.                                 *)
(***************************************************************************)
THEOREM TypeCorrect == Spec => []TypeOK
BY Invariant, PTL DEF IInv

(***************************************************************************)
(* An Impl that is alive has one owner, however many programs there are    *)
(* and however their slingers are made, moved, assigned and destroyed.     *)
(***************************************************************************)
THEOREM ImplsAreOwnedOnce == Spec => []OwnedOnce
BY Invariant, PTL DEF IInv

(***************************************************************************)
(* The segment belongs to the shared vector that is alive, if one is, and  *)
(* no other shared vector lives in any program.                            *)
(***************************************************************************)
THEOREM SegmentBelongs == Spec => []SegmentIsMine
BY Invariant, PTL DEF IInv, SegmentInv

(***************************************************************************)
(* No construction that throws and no destruction leaves a segment behind: *)
(* not one that throws at create_only, whose unwinding runs no destructor  *)
(* of the shared vector, and not one that throws when the segment has been *)
(* made, whose unwinding does.                                             *)
(***************************************************************************)
THEOREM OnlyCrashesOrphan == Spec => []OrphanedByCrash
BY Invariant, PTL DEF IInv, SegmentInv

(***************************************************************************)
(* No run() ends in an exception of a lookup, for any option sets: it has  *)
(* tested the types of the host and the port it looks up.                  *)
(***************************************************************************)
THEOREM LookupsNeverThrow == Spec => []LookupsSucceed
BY Invariant, PTL DEF IInv

(***************************************************************************)
(* A segment that a crash left behind stays for good: no step of any       *)
(* program removes it or replaces it, so no shared vector can be made.     *)
(***************************************************************************)
THEOREM OrphansStay == Spec => OrphanedIsForever
<1>1. ASSUME IInv, [Next]_vars, Orphaned
      PROVE  Orphaned' /\ segment' = segment
  <2>1. PICK o \in segment : impls[o].memory # "alive"
    BY <1>1 DEF Orphaned
  <2>2. segment = {o} /\ o \in 1..Len(impls)
    BY <1>1, <2>1, Held DEF IInv, TypeOK
  <2>3. segment' = segment
    <3>1. ASSUME NEW p \in Programs, FreeBackend(p)
          PROVE  segment' = segment
      <4>1. closing[p] \in Live
        BY <1>1, <3>1, Held DEF FreeBackend, Live
      <4>2. impls[closing[p]].class # "SharedVector"
        BY <1>1, <2>1, <2>2, <4>1 DEF IInv, SegmentInv, SegmentIsMine, Live
      <4> QED
        BY <3>1, <4>2 DEF FreeBackend
    <3>2. ASSUME NEW p \in Programs, MakeBackend(p)
          PROVE  segment' = segment
      BY <2>2, <3>2 DEF MakeBackend, CreateSegment
    <3>3. ASSUME NEW p \in Programs, AsyncThrows(p)
          PROVE  segment' = segment
      <4>1. making[p] \in Live
        BY <1>1, <3>3, MakingIsLive DEF AsyncThrows
      <4>2. impls[making[p]].class # "SharedVector"
        BY <1>1, <2>1, <2>2, <4>1 DEF IInv, SegmentInv, SegmentIsMine, Live
      <4> QED
        BY <3>3, <4>2 DEF AsyncThrows
    <3>4. ASSUME NEW p \in Programs,
                 \/ WaitForRunner(p) \/ Crash(p) \/ FactoryThrows(p) \/ CreateThrows(p)
                 \/ \E x \in Objects : Destroy(p, x) \/ StartRunner(p, x)
                 \/ \E x, y \in Objects : MoveConstruct(p, x, y) \/ MoveAssign(p, x, y)
          PROVE  segment' = segment
      BY <3>4 DEF WaitForRunner, Crash, FactoryThrows, CreateThrows, Destroy, StartRunner,
         MoveConstruct, MoveAssign, vars
    <3>5. CASE RunnerStep \/ UNCHANGED vars
      BY <3>5 DEF RunnerStep, RunnerStarts, RunnerEnds, vars
    <3> QED
      BY <1>1, <3>1, <3>2, <3>3, <3>4, <3>5 DEF Next, ApplicationStep
  <2>4. impls'[o].memory # "alive"
    <3>1. CASE impls' = impls
      BY <2>1, <3>1
    <3>2. ASSUME NEW p \in Programs, MakeBackend(p) \/ CreateThrows(p)
          PROVE  impls'[o] = impls[o]
      <4>1. PICK i : impls' = Append(impls, i)
        BY <3>2 DEF MakeBackend, CreateThrows, Made
      <4> QED
        BY <1>1, <2>2, <4>1 DEF IInv, TypeOK
    <3>3. ASSUME NEW p \in Programs, AsyncThrows(p)
          PROVE  impls'[o].memory # "alive"
      <4>1. making[p] # o
        BY <1>1, <2>1, <3>3, MakingIsLive DEF AsyncThrows
      <4> QED
        BY <1>1, <2>1, <2>2, <3>3, <4>1, Held DEF AsyncThrows, IInv, TypeOK
    <3>4. ASSUME NEW p \in Programs, NEW x \in Objects, StartRunner(p, x)
          PROVE  impls'[o].memory # "alive"
      <4>1. making[p] # o
        BY <1>1, <2>1, <3>4, MakingIsLive DEF StartRunner
      <4> QED
        BY <1>1, <2>1, <2>2, <3>4, <4>1, Held DEF StartRunner, IInv, TypeOK
    <3>5. ASSUME NEW p \in Programs, FreeBackend(p)
          PROVE  impls'[o].memory # "alive"
      BY <1>1, <2>1, <2>2, <3>5, Held DEF FreeBackend, IInv, TypeOK
    <3>6. ASSUME NEW n \in 1..Len(impls), RunnerStarts(n) \/ RunnerEnds(n)
          PROVE  impls'[o].memory # "alive"
      <4>1. PICK r : impls' = [impls EXCEPT ![n].runner = r]
        BY <3>6 DEF RunnerStarts, RunnerEnds
      <4>2. \A i \in Impl : [i EXCEPT !.runner = r].memory = i.memory
        BY DEF Impl
      <4>3. impls \in Seq(Impl) /\ impls[o] \in Impl
        BY <1>1, <2>2, Held DEF IInv, TypeOK
      <4>4. impls'[o] = impls[o] \/ impls'[o] = [impls[o] EXCEPT !.runner = r]
        BY <2>2, <4>1, <4>3
      <4> QED
        BY <2>1, <4>2, <4>3, <4>4
    <3>7. ASSUME NEW p \in Programs, Crash(p)
          PROVE  impls'[o].memory # "alive"
      BY <1>1, <2>1, <2>2, <3>7, Held DEF Crash, Impl
    <3>8. ASSUME NEW p \in Programs,
                 \/ WaitForRunner(p) \/ FactoryThrows(p) \/ \E x \in Objects : Destroy(p, x)
                 \/ \E x, y \in Objects : MoveConstruct(p, x, y) \/ MoveAssign(p, x, y)
          PROVE  impls' = impls
      BY <3>8 DEF WaitForRunner, FactoryThrows, Destroy, MoveConstruct, MoveAssign, vars
    <3>9. CASE UNCHANGED vars
      BY <3>1, <3>9 DEF vars
    <3> QED
      BY <1>1, <2>1, <3>1, <3>2, <3>3, <3>4, <3>5, <3>6, <3>7, <3>8, <3>9
      DEF Next, RunnerStep, ApplicationStep
  <2> QED
    BY <2>1, <2>3, <2>4 DEF Orphaned
<1> QED
  BY <1>1, Invariant, PTL DEF Spec, OrphanedIsForever
=============================================================================
