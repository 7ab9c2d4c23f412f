----------------------------- MODULE MCSettings -----------------------------
(***************************************************************************)
(* Settings with two profiles, an environment that has a base URL and one  *)
(* that has none, and what the document of the flags says where the code   *)
(* disagrees.                                                              *)
(***************************************************************************)
EXTENDS Settings, TLC

CONSTANT Home        \* the base URL of the known environments

MCUrlOf == [e \in Known |-> Home]
Symmetry == Permutations(Tokens)

(* cli-schema.md:14, "--environment <name> ... Resolves --base-url", and   *)
(* :23, "flag > environment variable > profile > built-in default": asking *)
(* for another environment than the profile's leads to that environment.   *)
EnvironmentFlagDecides ==
  \A in \in Selections, e \in Known :
    LET said == [in EXCEPT !.environmentFlag = e]
    IN  ~Refused(said) /\ e # Profile(said).environment => EffectiveBaseURL(said) = UrlOf[e]
=============================================================================
