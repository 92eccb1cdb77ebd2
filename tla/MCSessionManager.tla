--------------------------- MODULE MCSessionManager ---------------------------
(* SessionManager for TLC.  Slots, coroutines and candidates are             *)
(* interchangeable.                                                          *)
EXTENDS SessionManager, TLC

Symmetry == Permutations(Slots) \cup Permutations(Coros) \cup Permutations(Candidates)
=============================================================================
