----------------------------- MODULE SecretStore -----------------------------
(***************************************************************************)
(* cmd/icctl/profile/secret.go and file.go: a profile's credential goes to *)
(* the operating system's keychain, or to credentials.yaml while the       *)
(* keychain is not to be had.  The two are never reconciled, and the       *)
(* keychain may come and go between two operations: a desktop session and  *)
(* an ssh session of the same user see different ones.                     *)
(*                                                                         *)
(* One icctl process runs at a time; ProfileStore.tla has the races of two *)
(* at a file written this way.  The process may die at any step.           *)
(***************************************************************************)
CONSTANTS
  Names,       \* profiles
  Tokens,      \* credentials
  None,        \* no credential
  Unknown      \* history: an operation broke off half way

ASSUME ValueAssumption ==
  None \notin Tokens /\ Unknown \notin Tokens /\ None # Unknown

VARIABLES
  flaky,       \* whether the keychain's reachability changes
  keychain,    \* per profile, the credential stored in the keychain
  reach,       \* "up"; "absent" (isFallbackError); "locked" (any other error)
  entries,     \* per profile, the credential stored in credentials.yaml
  exists,      \* credentials.yaml exists
  pc,          \* "idle", "erase" (Delete at the file), "loaded", "cut"
  mem,         \* the credentialsFile in memory
  job,         \* the profile and the new credential (None: Delete)
  latest,      \* history: what the last completed operation left
  missed       \* history: profiles whose last Delete did not reach the keychain

store == <<keychain, reach, entries, exists>>
vars == <<flaky, store, pc, mem, job, latest, missed>>

Credentials == [Names -> Tokens \cup {None}]
NoCredentials == [n \in Names |-> None]
NoJob == [names |-> {}, value |-> None]

Init ==
  /\ flaky \in BOOLEAN
  /\ keychain = NoCredentials /\ reach \in {"up", "absent", "locked"}
  /\ entries = NoCredentials /\ exists = FALSE
  /\ pc = "idle" /\ mem = NoCredentials /\ job = NoJob
  /\ latest = NoCredentials /\ missed = {}

(* Get: an entry of the keychain; the file if there is none to be had. *)
Get(n) == CASE reach = "locked" -> None
            [] reach = "up" /\ keychain[n] # None -> keychain[n]
            [] OTHER -> entries[n]

(* Set, when the keychain takes it. *)
SetInKeychain(n, t) ==
  /\ pc = "idle"
  /\ reach = "up"
  /\ keychain' = [keychain EXCEPT ![n] = t]
  /\ latest' = [latest EXCEPT ![n] = t]
  /\ missed' = missed \ {n}
  /\ UNCHANGED <<flaky, reach, entries, exists, pc, mem, job>>

(* Mutant: the new credential is saved without the file's others. *)
SetUnloaded(n, t) ==
  /\ pc = "idle"
  /\ reach = "absent"
  /\ pc' = "loaded"
  /\ mem' = [NoCredentials EXCEPT ![n] = t]
  /\ job' = [names |-> {n}, value |-> t]
  /\ UNCHANGED <<flaky, store, latest, missed>>

(* Set, when there is no keychain: the file is loaded. *)
SetInFile(n, t) ==
  /\ pc = "idle"
  /\ reach = "absent"
  /\ pc' = "loaded"
  /\ mem' = [entries EXCEPT ![n] = t]
  /\ job' = [names |-> {n}, value |-> t]
  /\ UNCHANGED <<flaky, store, latest, missed>>

(* Mutant: credentials.yaml is left alone. *)
DeleteInKeychainOnly(n) ==
  /\ pc = "idle"
  /\ keychain' = IF reach = "up" THEN [keychain EXCEPT ![n] = None] ELSE keychain
  /\ missed' = IF reach = "up" THEN missed \ {n} ELSE missed \cup {n}
  /\ latest' = [latest EXCEPT ![n] = None]
  /\ UNCHANGED <<flaky, reach, entries, exists, pc, mem, job>>

(* Delete begins with the keychain, whose error is dropped. *)
Delete(n) ==
  /\ pc = "idle"
  /\ keychain' = IF reach = "up" THEN [keychain EXCEPT ![n] = None] ELSE keychain
  /\ missed' = IF reach = "up" THEN missed \ {n} ELSE missed \cup {n}
  /\ pc' = "erase"
  /\ job' = [names |-> {n}, value |-> None]
  /\ UNCHANGED <<flaky, reach, entries, exists, mem, latest>>

Acknowledge == latest' = [n \in Names |-> IF n \in job.names THEN job.value ELSE latest[n]]
Rest == pc' = "idle" /\ mem' = NoCredentials /\ job' = NoJob

(* fileBackend.Delete: there is no file; or it is loaded. *)
EraseNothing ==
  /\ pc = "erase"
  /\ ~exists
  /\ Acknowledge
  /\ Rest
  /\ UNCHANGED <<flaky, store, missed>>

EraseInFile ==
  /\ pc = "erase"
  /\ exists
  /\ pc' = "loaded"
  /\ mem' = [n \in Names |-> IF n \in job.names THEN None ELSE entries[n]]
  /\ UNCHANGED <<flaky, store, job, latest, missed>>

(* fileBackend.save: os.WriteFile truncates and writes. *)
Cut ==
  /\ pc = "loaded"
  /\ exists' = TRUE
  /\ entries' = NoCredentials
  /\ pc' = "cut"
  /\ UNCHANGED <<flaky, keychain, reach, mem, job, latest, missed>>

(* Mutant: only the profile at hand is written back. *)
WriteOne ==
  /\ pc = "cut"
  /\ entries' = [n \in Names |-> IF n \in job.names THEN mem[n] ELSE None]
  /\ Acknowledge
  /\ missed' = IF job.value = None THEN missed ELSE missed \ job.names
  /\ Rest
  /\ UNCHANGED <<flaky, keychain, reach, exists>>

Write ==
  /\ pc = "cut"
  /\ entries' = mem
  /\ Acknowledge
  /\ missed' = IF job.value = None THEN missed ELSE missed \ job.names
  /\ Rest
  /\ UNCHANGED <<flaky, keychain, reach, exists>>

(* The process dies, or the file operation fails. *)
Stops ==
  /\ pc # "idle"
  /\ latest' = [n \in Names |-> IF pc = "cut" \/ (n \in job.names /\ job.value = None)
                                  THEN Unknown ELSE latest[n]]
  /\ Rest
  /\ UNCHANGED <<flaky, store, missed>>

(* The session, and with it the keychain, changes. *)
Shift ==
  /\ flaky
  /\ reach' \in {"up", "absent", "locked"} \ {reach}
  /\ UNCHANGED <<flaky, keychain, entries, exists, pc, mem, job, latest, missed>>

Next == \/ \E n \in Names : \/ \E t \in Tokens : SetInKeychain(n, t) \/ SetInFile(n, t)
                            \/ Delete(n)
        \/ EraseNothing
        \/ EraseInFile
        \/ Cut
        \/ Write
        \/ Stops
        \/ Shift

Spec == Init /\ [][Next]_vars

-----------------------------------------------------------------------------
TypeOK ==
  /\ flaky \in BOOLEAN
  /\ keychain \in Credentials /\ entries \in Credentials /\ mem \in Credentials
  /\ reach \in {"up", "absent", "locked"} /\ exists \in BOOLEAN
  /\ pc \in {"idle", "erase", "loaded", "cut"}
  /\ job \in [names : SUBSET Names, value : Tokens \cup {None}]
  /\ latest \in [Names -> Tokens \cup {None, Unknown}]
  /\ missed \subseteq Names

Copies(n) == {keychain[n], entries[n]} \ {None}

(* While the keychain stays as it is, reachable or not, Get returns what   *)
(* the last Set stored and nothing after a Delete (SecretStore.Get, Set,   *)
(* Delete; fileBackend's load and save).                                   *)
LastSetWins ==
  ~flaky /\ pc = "idle" => \A n \in Names : latest[n] # Unknown => Get(n) = latest[n]

(* Whenever the keychain comes and goes, the last credential that Set      *)
(* acknowledged is still in one of the two places: no operation on another *)
(* profile, and no older copy, replaces it.                                *)
NothingLost ==
  pc = "idle" => \A n \in Names : latest[n] \in Tokens => latest[n] \in Copies(n)

(* A credential whose deletion reached the keychain does not come back,    *)
(* wherever later operations look for it.                                  *)
NoResurrection ==
  pc = "idle" => \A n \in Names \ missed : latest[n] = None => Copies(n) = {}

-----------------------------------------------------------------------------
(* The vault a user sees: what Get returns.  A save has happened once the  *)
(* old file is gone.                                                       *)
Seen(n) == IF pc = "cut" THEN mem[n] ELSE Get(n)

User == INSTANCE Vault WITH
  held <- [n \in Names |-> IF flaky THEN None ELSE Seen(n)],
  durable <- ~flaky /\ reach = "up"

(* The refinement: with a keychain that stays as it is, reachable, absent  *)
(* or locked, every Set and Delete changes the credential of its profile   *)
(* at once and no other; only the death of a process that writes the file  *)
(* does more, and with a keychain there is no such moment.                 *)
KeepsVault == User!VaultSpec
=============================================================================
