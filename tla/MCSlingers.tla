----------------------------- MODULE MCSlingers -----------------------------
(***************************************************************************)
(* An instance of Slingers for TLC, with options for every backend, right  *)
(* and wrong: a port given as an int, a host missing or given as a         *)
(* literal, and a preferred backend that is missing, is of another type,   *)
(* or has no name.                                                         *)
(***************************************************************************)
EXTENDS Slingers, TLC

Value(type, value) == [type |-> type, value |-> value]
Prefer(backend) == "PREFERRED_BACKEND" :> Value("PreferredBackend", backend)
Host(type) == "WEBSOCKET_HOST_STRING" :> Value(type, "a host")
Port(type) == "WEBSOCKET_PORT_UINT16" :> Value(type, "a port")

MCOptionSets ==
  {Prefer("SHARED_VECTOR"), Prefer("unnamed"), Host("string"),
   "PREFERRED_BACKEND" :> Value("int", "PIPE"),
   Prefer("WEBSOCKET_CLIENT") @@ Host("string") @@ Port("uint16_t"),
   Prefer("WEBSOCKET_SERVER") @@ Host("string") @@ Port("int")}

ProgramSymmetry == Permutations(Programs) \cup Permutations(Objects)
=============================================================================
