------------------------------- MODULE Events -------------------------------
(***************************************************************************)
(* The events the library hands to the application's onEvent callback      *)
(* (event/event.cpp, event/eventhelpers.cpp).  Both backends report        *)
(* through makeEvent(source, message); only what a property can tell apart *)
(* is kept: the kind, the source and which report it is.                   *)
(***************************************************************************)

EventKind == {"INFORMATIONAL", "ERROR"}
EventSourceKind == {"SLINGER", "RECEIVER"}

\* The reports the sessions make when an operation ends with an error code.
Reports == {"info", "resolve", "connect", "handshake", "accept", "read", "write"}

Event == [EVENT_KIND : EventKind, EVENT_SOURCE_KIND : EventSourceKind,
          MESSAGE_STRING : Reports]

(***************************************************************************)
(* The two-argument makeEvent: whatever is reported, the kind it records   *)
(* is INFORMATIONAL.                                                       *)
(***************************************************************************)
makeEvent(source, message) ==
  [EVENT_KIND        |-> "INFORMATIONAL",
   EVENT_SOURCE_KIND |-> source,
   MESSAGE_STRING    |-> message]
=============================================================================
