--------------------------- MODULE MCServerSession ---------------------------
(***************************************************************************)
(* Instances of ServerSession for TLC.  Two io threads are enough for any  *)
(* of their pairwise races; both kinds of threads are interchangeable.     *)
(***************************************************************************)
EXTENDS ServerSession, TLC

ThreadSymmetry == Permutations(IOThreads) \cup Permutations(AppThreads)
=============================================================================
