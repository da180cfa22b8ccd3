------------------------------- MODULE Outbox -------------------------------
(***************************************************************************)
(* What the send path of a data slinger promises, without threads,         *)
(* callbacks or buffers: every producer's messages are accepted one after  *)
(* the other, and each is concluded at most once - written, or reported as *)
(* failed - in the order in which its producer handed it in.  Nothing is   *)
(* invented, duplicated or overtaken.  It promises nothing about messages  *)
(* of different producers, and not that a message is ever concluded.       *)
(***************************************************************************)
EXTENDS Integers, Sequences

CONSTANT Producers   \* the threads of the application that call send()

VARIABLES accepted,  \* how many messages each producer has handed in
          taken,     \* how many of them are concluded
          concluded  \* the conclusions, in order

vars == <<accepted, taken, concluded>>

\* A message is known by who sent it and its place among the sender's messages.
Message == [from : Producers, seq : Nat \ {0}]

Init ==
  /\ accepted = [p \in Producers |-> 0]
  /\ taken = [p \in Producers |-> 0]
  /\ concluded = <<>>

Accept(p) ==
  /\ accepted' = [accepted EXCEPT ![p] = @ + 1]
  /\ UNCHANGED <<taken, concluded>>

Conclude(p, ok) ==
  /\ taken[p] < accepted[p]
  /\ taken' = [taken EXCEPT ![p] = @ + 1]
  /\ concluded' = Append(concluded,
                         [msg |-> [from |-> p, seq |-> taken[p] + 1], ok |-> ok])
  /\ UNCHANGED accepted

Next ==
  \E p \in Producers : Accept(p) \/ \E ok \in BOOLEAN : Conclude(p, ok)

Spec == Init /\ [][Next]_vars
=============================================================================
