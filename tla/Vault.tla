-------------------------------- MODULE Vault --------------------------------
(***************************************************************************)
(* What profile.SecretStore promises a user whose keychain neither appears *)
(* nor disappears: one credential per profile, stored and forgotten one at *)
(* a time, each as a whole or not at all.  A vault that is a keychain      *)
(* keeps them whatever happens to the process; one that is a file may lose *)
(* them all at once, when the process dies (or the disk is full) while the *)
(* file is written.  SecretStore.tla implements it.                        *)
(***************************************************************************)
CONSTANTS Names, Tokens, None

VARIABLES
  held,      \* per profile, its credential or None
  durable    \* the vault is a keychain

vaultVars == <<held, durable>>

Nothing == [n \in Names |-> None]

VaultInit == held = Nothing /\ durable \in BOOLEAN

Keep(n, t) == held' = [held EXCEPT ![n] = t] /\ UNCHANGED durable

Forget(n) == held' = [held EXCEPT ![n] = None] /\ UNCHANGED durable

Lose == ~durable /\ held' = Nothing /\ UNCHANGED durable

VaultNext == \/ \E n \in Names : Forget(n) \/ \E t \in Tokens : Keep(n, t)
             \/ Lose

VaultSpec == VaultInit /\ [][VaultNext]_vaultVars
=============================================================================
