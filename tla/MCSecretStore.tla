---------------------------- MODULE MCSecretStore ----------------------------
(***************************************************************************)
(* SecretStore for TLC, and what the documents say of it where the code    *)
(* disagrees.                                                              *)
(***************************************************************************)
EXTENDS SecretStore, TLC

Symmetric == Permutations(Names) \cup Permutations(Tokens)

(* data-model.md:164, "Deleting a profile MUST delete both the config      *)
(* entry and the keychain entry; failure to delete the keychain entry is   *)
(* logged as a warning": Delete returned nil, so no warning was due, and   *)
(* no copy is left.                                                        *)
SilentDeleteIsComplete ==
  pc = "idle" => \A n \in Names : latest[n] = None => Copies(n) = {}
=============================================================================
