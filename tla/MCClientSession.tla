--------------------------- MODULE MCClientSession ---------------------------
(***************************************************************************)
(* Instances of ClientSession for TLC: two application threads, and bounds *)
(* that let each of them send twice while frames arrive.  The threads are  *)
(* interchangeable, so the safety runs use their permutations as symmetry. *)
(***************************************************************************)
EXTENDS ClientSession, TLC

ThreadSymmetry == Permutations(AppThreads)
=============================================================================
