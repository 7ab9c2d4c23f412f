---------------------------- MODULE MCAuthStack ----------------------------
(***************************************************************************)
(* Instances of AuthStack for TLC.                                         *)
(***************************************************************************)
EXTENDS AuthStack, TLC

(* RefreshFunc and StaticToken over a backend that honours every token     *)
(* until it expires, and a provider without a cache over one that may drop *)
(* it early.                                                               *)
TrustyModes == {[adapter |-> "refresh", early |-> FALSE], [adapter |-> "static", early |-> FALSE],
                [adapter |-> "direct", early |-> TRUE]}

(* RefreshFunc over a backend that may drop a token early. *)
RevokingModes == {[adapter |-> "refresh", early |-> TRUE]}

(* For liveness, also a fixed token that is refused from some time on. *)
LiveModes == RevokingModes \cup {[adapter |-> "static", early |-> TRUE]}

CallerSymmetry == Permutations(Callers)
=============================================================================
