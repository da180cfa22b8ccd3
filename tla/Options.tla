------------------------------- MODULE Options -------------------------------
(***************************************************************************)
(* What a slinger is configured with: HeterogeneousMap (slinger.h 714-778) *)
(* over nonstd::any, ConnectionOptions, and the factory's choice of the    *)
(* backend.  All are pure functions of a map that nobody changes once the  *)
(* slinger has copied it.                                                  *)
(*                                                                         *)
(* An any is the type it was made from and a value; a lookup yields the    *)
(* value, or the name of the exception it throws.  The types are those     *)
(* that the library asks for, and the ones an application gives it by      *)
(* mistake: a literal in C++ is an int or a const char*.                   *)
(***************************************************************************)

PreferredBackend == {"PIPE", "SHARED_VECTOR", "WEBSOCKET_CLIENT", "WEBSOCKET_SERVER"}

ConnectionOption ==
  {"PREFERRED_BACKEND", "WEBSOCKET_HOST_STRING", "WEBSOCKET_PORT_UINT16"}

Exceptions == {"out_of_range", "bad_any_cast"}

any ==
  [type : {"PreferredBackend"}, value : PreferredBackend \cup {"unnamed"}]
    \cup [type : {"string", "const char*"}, value : {"a host"}]
    \cup [type : {"uint16_t"}, value : {"a port"}]
    \cup [type : {"int"}, value : PreferredBackend \cup {"a port"}]

HeterogeneousMap == UNION {[keys -> any] : keys \in SUBSET ConnectionOption}

any_cast(V, operand) ==
  IF operand.type = V THEN operand.value ELSE "bad_any_cast"

hasValue(map, key) == key \in DOMAIN map

\* Mutant: a value of any type will do.
hasTypedValueUntyped(V, map, key) == hasValue(map, key)

hasTypedValue(V, map, key) ==
  hasValue(map, key) /\ any_cast(V, map[key]) # "bad_any_cast"

getValue(V, map, key) ==
  IF hasValue(map, key) THEN any_cast(V, map[key]) ELSE "out_of_range"

hasWebSocketInfo(info) ==
  /\ hasTypedValue("string", info, "WEBSOCKET_HOST_STRING")
  /\ hasTypedValue("uint16_t", info, "WEBSOCKET_PORT_UINT16")

getHost(info) == getValue("string", info, "WEBSOCKET_HOST_STRING")
getPort(info) == getValue("uint16_t", info, "WEBSOCKET_PORT_UINT16")

(***************************************************************************)
(* What makeSlingerBackend makes of the options: the class of the backend  *)
(* or the exception thrown.  For a value without a case in the switch the  *)
(* build decides whether the assertion is there to end the process.        *)
(***************************************************************************)
makeSlingerBackend(info) ==
  LET backend == getValue("PreferredBackend", info, "PREFERRED_BACKEND")
  IN  CASE backend \in Exceptions         -> {backend}
        [] backend = "WEBSOCKET_CLIENT"   -> {"DataReceiverWebSocket"}
        [] backend = "WEBSOCKET_SERVER"   -> {"DataSlingerWebSocket"}
        [] backend = "PIPE"               -> {"DataReceiverPipe"}
        [] backend = "SHARED_VECTOR"      -> {"SharedVector"}
        [] backend = "unnamed"            -> {"abort", "DataReceiverPipe"}
=============================================================================
