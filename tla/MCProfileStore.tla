--------------------------- MODULE MCProfileStore ---------------------------
(***************************************************************************)
(* Instances of ProfileStore for TLC.                                      *)
(***************************************************************************)
EXTENDS ProfileStore, TLC

Symmetric == Permutations(Procs) \cup Permutations(Names) \cup Permutations(Settings)
=============================================================================
