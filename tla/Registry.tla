------------------------------ MODULE Registry ------------------------------
(***************************************************************************)
(* What profile.Store promises a user who runs one icctl at a time: a set  *)
(* of named profiles, one of which may be the default.  An operation takes *)
(* effect as a whole or not at all, except that the death of a process (or *)
(* a full disk) while it saves may cost the user all profiles at once.     *)
(* ProfileStore.tla implements it.                                         *)
(***************************************************************************)
CONSTANTS Names, Settings, NoName

VARIABLES
  known,     \* pairs of a name and its settings
  default    \* the name of the default profile, or NoName

registryVars == <<known, default>>

Named == {entry[1] : entry \in known}

RegistryInit == known = {} /\ default = NoName

Put(n, s) == /\ known' = {entry \in known : entry[1] # n} \cup {<<n, s>>}
             /\ UNCHANGED default

Drop(n) == /\ n \in Named
           /\ known' = {entry \in known : entry[1] # n}
           /\ default' = IF default = n THEN NoName ELSE default

Choose(n) == /\ n \in Named
             /\ default' = n
             /\ UNCHANGED known

Lose == known' = {} /\ default' = NoName

RegistryNext == \/ \E n \in Names : \/ \E s \in Settings : Put(n, s)
                                    \/ Drop(n)
                                    \/ Choose(n)
                \/ Lose

RegistrySpec == RegistryInit /\ [][RegistryNext]_registryVars
=============================================================================
