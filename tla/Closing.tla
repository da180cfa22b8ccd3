------------------------------- MODULE Closing -------------------------------
(***************************************************************************)
(* What an application may rely on when it destroys a slinger, whatever    *)
(* the backend: the destructor returns only when everything the slinger    *)
(* started has come to rest, and nothing of it stirs again.  That the      *)
(* destructor does return is not promised: see CloseEnds in Lifecycle.     *)
(***************************************************************************)

VARIABLES object,  \* the slinger: "alive", "closing" or "gone"
          working  \* whether run(), or a thread that it started, is under way

vars == <<object, working>>

Init == object = "alive" /\ working = TRUE

\* The destructor is called.
Close == object = "alive" /\ object' = "closing" /\ UNCHANGED working

\* run() returns: because it was stopped, failed, or has nothing left to do.
Rest == working /\ working' = FALSE /\ UNCHANGED object

\* The destructor returns.
Return == object = "closing" /\ ~working /\ object' = "gone" /\ UNCHANGED working

Next == Close \/ Rest \/ Return

Spec == Init /\ [][Next]_vars
=============================================================================
