-------------------------- MODULE SecretStoreProofs --------------------------
(***************************************************************************)
(* What becomes of credentials in two stores, one of which comes and goes: *)
(* for any profiles and credentials, any order of Set, Delete and deaths.  *)
(***************************************************************************)
EXTENDS SecretStore, TLAPS

-----------------------------------------------------------------------------
(* What credentials.yaml says, or will say once it is written again. *)
InFile(n) == IF pc = "cut" THEN mem[n] ELSE entries[n]

(* The profile is not in the middle of an operation, or in one that has    *)
(* changed nothing yet.                                                    *)
Settled(n) == \/ pc = "idle"
              \/ n \notin job.names
              \/ pc = "loaded" /\ job.value # None

(* The operation at work: its copy of the file is the file with its change.*)
Working ==
  /\ pc = "idle" => job = NoJob
  /\ pc = "erase" => job.value = None
  /\ pc \in {"loaded", "cut"} => \A n \in job.names : mem[n] = job.value
  /\ pc = "loaded" => \A n \in Names \ job.names : mem[n] = entries[n]
  /\ pc = "cut" => exists
  /\ ~exists => entries = NoCredentials

(* A credential is held in one of the places; a deleted one in neither.    *)
Held == \A n \in Names : Settled(n) /\ latest[n] \in Tokens => latest[n] \in {keychain[n], InFile(n)}
Gone ==
  \A n \in Names \ missed :
    /\ Settled(n) /\ latest[n] = None => keychain[n] = None /\ InFile(n) = None
    /\ pc # "idle" /\ n \in job.names /\ job.value = None => keychain[n] = None

(* While the keychain stays as it is, one of the places is never used.     *)
Steady ==
  ~flaky =>
    /\ reach = "up" => missed = {}
    /\ reach # "up" => keychain = NoCredentials
    /\ reach # "absent" => ~exists /\ pc \in {"idle", "erase"}
    /\ \A n \in Names : Settled(n) /\ latest[n] # Unknown =>
         latest[n] = IF reach = "up" THEN keychain[n] ELSE InFile(n)

IInv == Working /\ Held /\ Gone /\ Steady

LEMMA TypeStep == ASSUME TypeOK, [Next]_vars PROVE TypeOK'
<1> USE DEF TypeOK, store
<1>1. NoCredentials \in Credentials /\ NoJob \in [names : SUBSET Names, value : Tokens \cup {None}]
  BY DEF NoCredentials, Credentials, NoJob
<1>2. ASSUME NEW n \in Names, NEW t \in Tokens, SetInKeychain(n, t) PROVE TypeOK'
  BY <1>2 DEF SetInKeychain, Credentials
<1>3. ASSUME NEW n \in Names, NEW t \in Tokens, SetInFile(n, t) PROVE TypeOK'
  BY <1>3 DEF SetInFile, Credentials
<1>4. ASSUME NEW n \in Names, Delete(n) PROVE TypeOK'
  BY <1>4 DEF Delete, Credentials
<1>5. CASE EraseNothing
  BY <1>1, <1>5 DEF EraseNothing, Acknowledge, Rest
<1>6. CASE EraseInFile
  BY <1>6 DEF EraseInFile, Credentials
<1>7. CASE Cut
  BY <1>1, <1>7 DEF Cut
<1>8. CASE Write
  BY <1>1, <1>8 DEF Write, Acknowledge, Rest
<1>9. CASE Stops
  BY <1>1, <1>9 DEF Stops, Rest
<1>10. CASE Shift
  BY <1>10 DEF Shift
<1>11. CASE UNCHANGED vars
  BY <1>11 DEF vars
<1>12. QED
  BY <1>2, <1>3, <1>4, <1>5, <1>6, <1>7, <1>8, <1>9, <1>10, <1>11 DEF Next

(* The two stores and the operation at work keep their types. *)
THEOREM TypeCorrect == Spec => []TypeOK
<1>1. Init => TypeOK
  <2>1. /\ NoCredentials \in Credentials
        /\ NoCredentials \in [Names -> Tokens \cup {None, Unknown}]
        /\ NoJob \in [names : SUBSET Names, value : Tokens \cup {None}]
    BY DEF NoCredentials, Credentials, NoJob
  <2>2. QED BY <2>1 DEF Init, TypeOK
<1>2. QED BY <1>1, TypeStep, PTL DEF Spec

-----------------------------------------------------------------------------
LEMMA IInvInit == Init => IInv
BY ValueAssumption
   DEF Init, IInv, Working, Held, Gone, Steady, Settled, InFile, NoCredentials, NoJob

LEMMA SetInKeychainKeeps ==
  ASSUME TypeOK, IInv, NEW n \in Names, NEW t \in Tokens, SetInKeychain(n, t)
  PROVE  IInv'
<1>1. /\ pc = "idle" /\ reach = "up" /\ missed' = missed \ {n}
      /\ UNCHANGED <<flaky, reach, entries, exists, pc, mem, job>>
  BY DEF SetInKeychain
<1>2. \A m \in Names : /\ keychain'[m] = IF m = n THEN t ELSE keychain[m]
                       /\ latest'[m] = IF m = n THEN t ELSE latest[m]
  BY DEF SetInKeychain, TypeOK, Credentials
<1>3. Working' /\ Held'
  BY <1>1, <1>2 DEF IInv, Working, Held, Settled, InFile
<1>4. Gone' /\ Steady'
  BY <1>1, <1>2, ValueAssumption DEF IInv, Gone, Steady, Settled, InFile
<1>5. QED BY <1>3, <1>4 DEF IInv

LEMMA SetInFileKeeps ==
  ASSUME TypeOK, IInv, NEW n \in Names, NEW t \in Tokens, SetInFile(n, t)
  PROVE  IInv'
<1>1. /\ pc = "idle" /\ reach = "absent" /\ pc' = "loaded"
      /\ job'.names = {n} /\ job'.value = t
      /\ UNCHANGED <<flaky, store, latest, missed>>
  BY DEF SetInFile
<1>2. \A m \in Names : mem'[m] = IF m = n THEN t ELSE entries[m]
  BY DEF SetInFile, TypeOK, Credentials
<1>3. \A m \in Names : InFile(m)' = InFile(m) /\ Settled(m)' /\ Settled(m)
  BY <1>1, ValueAssumption DEF InFile, Settled, store
<1>4. Working'
  BY <1>1, <1>2 DEF IInv, Working, store
<1>5. Held' /\ Gone' /\ Steady'
  BY <1>1, <1>3, ValueAssumption DEF IInv, Held, Gone, Steady, store
<1>6. QED BY <1>4, <1>5 DEF IInv

LEMMA DeleteKeeps ==
  ASSUME TypeOK, IInv, NEW n \in Names, Delete(n)
  PROVE  IInv'
<1>1. /\ pc = "idle" /\ pc' = "erase" /\ job'.names = {n} /\ job'.value = None
      /\ UNCHANGED <<flaky, reach, entries, exists, mem, latest>>
      /\ missed' = IF reach = "up" THEN missed \ {n} ELSE missed \cup {n}
  BY DEF Delete
<1>2. \A m \in Names :
        keychain'[m] = IF m = n /\ reach = "up" THEN None ELSE keychain[m]
  BY DEF Delete, TypeOK, Credentials
<1>3. \A m \in Names : InFile(m)' = InFile(m) /\ Settled(m) /\ (Settled(m)' <=> m # n)
  BY <1>1 DEF InFile, Settled
<1>4. Working' /\ Held'
  BY <1>1, <1>2, <1>3 DEF IInv, Working, Held
<1>5. Gone'
  BY <1>1, <1>2, <1>3 DEF IInv, Gone
<1>6. reach # "up" => keychain' = keychain
  BY DEF Delete
<1>7. Steady'
  BY <1>1, <1>2, <1>3, <1>6 DEF IInv, Steady
<1>8. QED BY <1>4, <1>5, <1>7 DEF IInv

LEMMA EraseNothingKeeps == ASSUME TypeOK, IInv, EraseNothing PROVE IInv'
<1>1. /\ pc = "erase" /\ pc' = "idle" /\ job' = NoJob /\ ~exists
      /\ UNCHANGED <<flaky, store, missed>> /\ job.value = None
  BY DEF EraseNothing, Rest, IInv, Working
<1>2. \A m \in Names : latest'[m] = IF m \in job.names THEN None ELSE latest[m]
  BY <1>1 DEF EraseNothing, Acknowledge
<1>3. \A m \in Names : InFile(m)' = None /\ InFile(m) = None /\ entries[m] = None
                       /\ (m \notin job.names => Settled(m))
  BY <1>1 DEF InFile, Settled, IInv, Working, NoCredentials, store
<1>4. Working'
  BY <1>1 DEF IInv, Working, store
<1>5. Held'
  BY <1>1, <1>2, <1>3, ValueAssumption DEF IInv, Held, store
<1>6. Gone'
  BY <1>1, <1>2, <1>3 DEF IInv, Gone, store
<1>7. Steady'
  <2>1. SUFFICES ASSUME ~flaky PROVE Steady'
    BY <1>1 DEF Steady
  <2>2. ASSUME NEW m \in Names, latest'[m] # Unknown
        PROVE  latest'[m] = IF reach = "up" THEN keychain[m] ELSE None
    <3>1. CASE m \in job.names
      BY <1>1, <1>2, <2>1, <3>1 DEF IInv, Gone, Steady
    <3>2. CASE m \notin job.names
      BY <1>1, <1>2, <1>3, <2>1, <2>2, <3>2 DEF IInv, Steady
    <3>3. QED BY <3>1, <3>2
  <2>3. QED BY <1>1, <1>3, <2>1, <2>2 DEF IInv, Steady, store
<1>8. QED BY <1>4, <1>5, <1>6, <1>7 DEF IInv

LEMMA EraseInFileKeeps == ASSUME TypeOK, IInv, EraseInFile PROVE IInv'
<1>1. /\ pc = "erase" /\ pc' = "loaded" /\ exists /\ job.value = None
      /\ UNCHANGED <<flaky, store, job, latest, missed>>
  BY DEF EraseInFile, IInv, Working
<1>2. \A m \in Names : mem'[m] = IF m \in job.names THEN None ELSE entries[m]
  BY DEF EraseInFile
<1>3. \A m \in Names : InFile(m)' = InFile(m) /\ (Settled(m)' <=> Settled(m))
  BY <1>1 DEF InFile, Settled, store
<1>4. Working'
  BY <1>1, <1>2 DEF IInv, Working, store, TypeOK
<1>5. Held' /\ Gone'
  BY <1>1, <1>3 DEF IInv, Held, Gone, store
<1>6. Steady'
  BY <1>1, <1>3 DEF IInv, Steady, store, TypeOK
<1>7. QED BY <1>4, <1>5, <1>6 DEF IInv

LEMMA CutKeeps == ASSUME TypeOK, IInv, Cut PROVE IInv'
<1>1. /\ pc = "loaded" /\ pc' = "cut" /\ exists'
      /\ UNCHANGED <<flaky, keychain, reach, mem, job, latest, missed>>
  BY DEF Cut
<1>2. \A m \in Names : Settled(m)' => Settled(m) /\ InFile(m)' = InFile(m)
  BY <1>1 DEF InFile, Settled, IInv, Working
<1>3. Working'
  BY <1>1 DEF IInv, Working
<1>4. Held' /\ Gone'
  BY <1>1, <1>2 DEF IInv, Held, Gone
<1>5. Steady'
  BY <1>1, <1>2 DEF IInv, Steady
<1>6. QED BY <1>3, <1>4, <1>5 DEF IInv

LEMMA WriteKeeps == ASSUME TypeOK, IInv, Write PROVE IInv'
<1>1. /\ pc = "cut" /\ pc' = "idle" /\ job' = NoJob /\ entries' = mem
      /\ missed' = IF job.value = None THEN missed ELSE missed \ job.names
      /\ UNCHANGED <<flaky, keychain, reach, exists>> /\ exists
  BY DEF Write, Rest, IInv, Working
<1>2. \A m \in Names : latest'[m] = IF m \in job.names THEN job.value ELSE latest[m]
  BY DEF Write, Acknowledge
<1>3. \A m \in Names : /\ InFile(m)' = mem[m] /\ InFile(m) = mem[m]
                       /\ m \in job.names => mem[m] = job.value
                       /\ m \notin job.names => Settled(m)
  BY <1>1 DEF InFile, Settled, IInv, Working
<1>4. Working'
  BY <1>1 DEF IInv, Working
<1>5. Held'
  BY <1>1, <1>2, <1>3 DEF IInv, Held
<1>6. Gone'
  BY <1>1, <1>2, <1>3 DEF IInv, Gone
<1>7. Steady'
  BY <1>1, <1>2, <1>3, ValueAssumption DEF IInv, Steady, TypeOK
<1>8. QED BY <1>4, <1>5, <1>6, <1>7 DEF IInv

(* What the dead operation may have touched is Unknown; the rest is as it  *)
(* was.                                                                    *)
LEMMA StopsKeeps == ASSUME TypeOK, IInv, Stops PROVE IInv'
<1>1. /\ pc # "idle" /\ pc' = "idle" /\ job' = NoJob /\ UNCHANGED <<flaky, store, missed>>
  BY DEF Stops, Rest
<1>2. \A m \in Names : latest'[m] = IF pc = "cut" \/ (m \in job.names /\ job.value = None)
                                      THEN Unknown ELSE latest[m]
  BY DEF Stops
<1>3. \A m \in Names : latest'[m] # Unknown =>
        Settled(m) /\ InFile(m)' = InFile(m) /\ latest'[m] = latest[m]
  BY <1>1, <1>2 DEF InFile, Settled, IInv, Working, store, TypeOK
<1>4. Working'
  BY <1>1 DEF IInv, Working, store
<1>5. Held'
  BY <1>1, <1>3, ValueAssumption DEF IInv, Held, store
<1>6. Gone'
  BY <1>1, <1>3, ValueAssumption DEF IInv, Gone, store
<1>7. Steady'
  BY <1>1, <1>3 DEF IInv, Steady, store
<1>8. QED BY <1>4, <1>5, <1>6, <1>7 DEF IInv

LEMMA ShiftKeeps == ASSUME TypeOK, IInv, Shift \/ UNCHANGED vars PROVE IInv'
<1>1. /\ UNCHANGED <<flaky, keychain, entries, exists, pc, mem, job, latest, missed>>
      /\ flaky \/ UNCHANGED reach
  BY DEF Shift, vars, store
<1>2. \A m \in Names : InFile(m)' = InFile(m) /\ (Settled(m)' <=> Settled(m))
  BY <1>1 DEF InFile, Settled
<1>3. Working' /\ Held' /\ Gone'
  BY <1>1, <1>2 DEF IInv, Working, Held, Gone
<1>4. Steady'
  BY <1>1, <1>2 DEF IInv, Steady
<1>5. QED BY <1>3, <1>4 DEF IInv

LEMMA Inductive == Spec => [](TypeOK /\ IInv)
<1>1. TypeOK /\ IInv /\ [Next]_vars => IInv'
  BY SetInKeychainKeeps, SetInFileKeeps, DeleteKeeps, EraseNothingKeeps, EraseInFileKeeps,
     CutKeeps, WriteKeeps, StopsKeeps, ShiftKeeps DEF Next
<1>2. QED BY <1>1, IInvInit, TypeCorrect, PTL DEF Spec

-----------------------------------------------------------------------------
(* Under a keychain that stays as it is, Get returns what the last         *)
(* completed operation on the profile left.                                *)
THEOREM LastWins == Spec => []LastSetWins
<1>1. ASSUME TypeOK, IInv PROVE LastSetWins
  <2>1. SUFFICES ASSUME ~flaky, pc = "idle", NEW n \in Names, latest[n] # Unknown
                 PROVE  Get(n) = latest[n]
    BY DEF LastSetWins
  <2>2. latest[n] = IF reach = "up" THEN keychain[n] ELSE entries[n]
    BY <1>1, <2>1 DEF IInv, Steady, Settled, InFile
  <2>3. /\ reach # "up" => keychain[n] = None
        /\ reach # "absent" => entries[n] = None
    BY <1>1, <2>1 DEF IInv, Steady, Working, NoCredentials
  <2>4. QED BY <1>1, <2>2, <2>3 DEF Get, TypeOK
<1>2. QED BY <1>1, Inductive, PTL

(* However the keychain comes and goes, no acknowledged credential is lost.*)
THEOREM NoneLost == Spec => []NothingLost
<1>1. TypeOK /\ IInv => NothingLost
  BY ValueAssumption DEF IInv, Held, Settled, InFile, NothingLost, Copies
<1>2. QED BY <1>1, Inductive, PTL

(* ... and none comes back whose deletion reached the keychain. *)
THEOREM NoneResurrected == Spec => []NoResurrection
<1>1. TypeOK /\ IInv => NoResurrection
  BY DEF IInv, Gone, Settled, InFile, NoResurrection, Copies
<1>2. QED BY <1>1, Inductive, PTL

-----------------------------------------------------------------------------
(* Under a steady keychain Get looks at one place, and the other is empty. *)
Place(n) == IF reach = "up" THEN keychain[n] ELSE InFile(n)

SeenInPlace == \A n \in Names : Seen(n) = Place(n)

LEMMA SeenIs == TypeOK /\ IInv /\ ~flaky => SeenInPlace
<1> SUFFICES ASSUME TypeOK, IInv, ~flaky, NEW n \in Names
             PROVE  Seen(n) = Place(n)
  BY DEF SeenInPlace
<1>1. /\ reach # "up" => keychain[n] = None
      /\ reach # "absent" => entries[n] = None /\ pc # "cut"
  BY DEF IInv, Steady, Working, NoCredentials
<1>2. QED BY <1>1 DEF Seen, Get, Place, InFile, TypeOK

LEMMA SeenIsNext == TypeOK' /\ IInv' /\ ~flaky' => SeenInPlace'
BY SeenIs, PTL

(* What one step does to the vault. *)
Kept(n, t) == \A m \in Names : Seen(m)' = IF m = n THEN t ELSE Seen(m)
KeepsOne == \E n \in Names, t \in Tokens \cup {None} : Kept(n, t)
KeepsAll == \A m \in Names : Seen(m)' = Seen(m)
LosesAll == reach # "up" /\ \A m \in Names : Seen(m)' = None
VaultMoves == KeepsAll \/ KeepsOne \/ LosesAll

(* An operation is about one profile; the file it has cut is empty. *)
OneProfile == /\ pc # "idle" => \E n \in Names : job.names = {n}
              /\ pc = "cut" => entries = NoCredentials

LEMMA OneProfileStep == OneProfile /\ [Next]_vars => OneProfile'
<1> SUFFICES ASSUME OneProfile, [Next]_vars PROVE OneProfile'
  OBVIOUS
<1>1. ASSUME NEW n \in Names, NEW t \in Tokens, SetInKeychain(n, t) \/ SetInFile(n, t)
      PROVE  OneProfile'
  BY <1>1 DEF OneProfile, SetInKeychain, SetInFile
<1>2. ASSUME NEW n \in Names, Delete(n) PROVE OneProfile'
  BY <1>2 DEF OneProfile, Delete
<1>3. CASE EraseNothing \/ Write \/ Stops
  BY <1>3 DEF OneProfile, EraseNothing, Write, Stops, Rest
<1>4. CASE EraseInFile \/ Cut \/ Shift \/ UNCHANGED vars
  BY <1>4 DEF OneProfile, EraseInFile, Cut, Shift, vars, store
<1>5. QED BY <1>1, <1>2, <1>3, <1>4 DEF Next

LEMMA FlakyStays == [Next]_vars => UNCHANGED flaky
BY DEF Next, SetInKeychain, SetInFile, Delete, EraseNothing, EraseInFile, Cut, Write, Stops, Shift,
       vars

LEMMA VaultStep ==
  ASSUME TypeOK, TypeOK', IInv, IInv', OneProfile, ~flaky, [Next]_vars
  PROVE  ~flaky' /\ reach' = reach /\ VaultMoves
<1>1. ~flaky' /\ reach' = reach
  BY FlakyStays DEF Next, SetInKeychain, SetInFile, Delete, EraseNothing, EraseInFile, Cut, Write, Stops,
         Shift, vars, store
<1>2. ASSUME NEW m \in Names
      PROVE  /\ Seen(m) = IF reach = "up" THEN keychain[m] ELSE InFile(m)
             /\ Seen(m)' = IF reach = "up" THEN keychain'[m] ELSE InFile(m)'
  BY <1>1, SeenIs, SeenIsNext DEF SeenInPlace, Place
<1>3. ASSUME NEW n \in Names, NEW t \in Tokens, SetInKeychain(n, t) PROVE VaultMoves
  <2>1. Kept(n, t)
    BY <1>2, <1>3 DEF Kept, SetInKeychain, TypeOK, Credentials
  <2>2. QED BY <2>1 DEF VaultMoves, KeepsOne
<1>4. ASSUME NEW n \in Names, NEW t \in Tokens, SetInFile(n, t) PROVE VaultMoves
  BY <1>2, <1>4 DEF SetInFile, InFile, VaultMoves, KeepsAll, store
<1>5. ASSUME NEW n \in Names, Delete(n) PROVE VaultMoves
  <2>1. CASE reach = "up"
    <3>1. Kept(n, None)
      BY <1>2, <1>5, <2>1 DEF Kept, Delete, TypeOK, Credentials
    <3>2. QED BY <3>1 DEF VaultMoves, KeepsOne
  <2>2. CASE reach # "up"
    BY <1>2, <1>5, <2>2 DEF Delete, InFile, VaultMoves, KeepsAll
  <2>3. QED BY <2>1, <2>2
<1>6. CASE Cut
  <2>1. reach # "up" /\ UNCHANGED <<mem, job>> /\ pc = "loaded" /\ pc' = "cut"
    BY <1>6 DEF Cut, IInv, Steady, TypeOK
  <2>2. \A m \in Names : Seen(m)' = mem[m] /\ Seen(m) = entries[m]
    BY <1>2, <2>1 DEF InFile
  <2>3. PICK n \in Names : job.names = {n}
    BY <2>1 DEF OneProfile
  <2>4. Kept(n, job.value) /\ job.value \in Tokens \cup {None}
    BY <2>1, <2>2, <2>3 DEF Kept, IInv, Working, TypeOK
  <2>5. KeepsOne
    BY <2>4 DEF KeepsOne
  <2>6. QED BY <1>1, <2>5 DEF VaultMoves
<1>7. CASE Stops
  <2>1. UNCHANGED store /\ pc' = "idle"
    BY <1>7 DEF Stops, Rest
  <2>2. CASE pc = "cut"
    <3>1. reach # "up" /\ \A m \in Names : Seen(m)' = entries[m]
      BY <1>2, <2>1, <2>2 DEF InFile, IInv, Steady, TypeOK, store
    <3>2. LosesAll
      BY <2>2, <3>1 DEF OneProfile, NoCredentials, LosesAll
    <3>3. QED BY <1>1, <3>2 DEF VaultMoves
  <2>3. CASE pc # "cut"
    <3>1. KeepsAll
      BY <1>2, <2>1, <2>3 DEF InFile, KeepsAll, store
    <3>2. QED BY <1>1, <3>1 DEF VaultMoves
  <2>4. QED BY <2>2, <2>3
<1>8. CASE Write
  BY <1>2, <1>8 DEF Write, Rest, InFile, VaultMoves, KeepsAll
<1>9. CASE EraseNothing \/ EraseInFile \/ Shift \/ UNCHANGED vars
  BY <1>1, <1>2, <1>9 DEF EraseNothing, EraseInFile, Shift, Rest, InFile, VaultMoves, KeepsAll,
                            store, vars
<1>10. QED BY <1>1, <1>3, <1>4, <1>5, <1>6, <1>7, <1>8, <1>9 DEF Next

(* Under the mapping that is a step of the vault. *)
LEMMA VaultRefines ==
  ASSUME ~flaky, ~flaky', reach' = reach, VaultMoves
  PROVE  [User!VaultNext]_User!vaultVars
<1> DEFINE held == [n \in Names |-> IF flaky THEN None ELSE Seen(n)]
<1>1. held = [n \in Names |-> Seen(n)] /\ held' = [n \in Names |-> Seen(n)']
  OBVIOUS
<1>2. CASE KeepsAll
  BY <1>1, <1>2 DEF KeepsAll, User!vaultVars
<1>3. CASE KeepsOne
  <2>1. PICK n \in Names, t \in Tokens \cup {None} : Kept(n, t)
    BY <1>3 DEF KeepsOne
  <2>2. held' = [held EXCEPT ![n] = t]
    BY <1>1, <2>1 DEF Kept
  <2>3. CASE t = None
    BY <2>2, <2>3 DEF User!VaultNext, User!Forget
  <2>4. CASE t \in Tokens
    BY <2>2, <2>4 DEF User!VaultNext, User!Keep
  <2>5. QED BY <2>3, <2>4
<1>4. CASE LosesAll
  BY <1>1, <1>4 DEF LosesAll, User!VaultNext, User!Lose, User!Nothing
<1>5. QED BY <1>2, <1>3, <1>4 DEF VaultMoves

(* For any profiles and credentials: with a keychain that stays as it is,  *)
(* the two stores are one vault, and only a file can lose what it holds.   *)
THEOREM IsVault == Spec => KeepsVault
<1>1. Init => User!VaultInit
  BY DEF Init, Seen, Get, NoCredentials, User!VaultInit, User!Nothing
<1>2. Init => OneProfile
  BY DEF Init, OneProfile
<1>3. TypeOK /\ TypeOK' /\ IInv /\ IInv' /\ OneProfile /\ [Next]_vars
        => [User!VaultNext]_User!vaultVars
  <2> SUFFICES ASSUME TypeOK, TypeOK', IInv, IInv', OneProfile, [Next]_vars
               PROVE  [User!VaultNext]_User!vaultVars
    OBVIOUS
  <2>1. CASE ~flaky
    BY <2>1, VaultStep, VaultRefines
  <2>2. CASE flaky
    <3>1. flaky'
      BY <2>2, FlakyStays
    <3>2. QED BY <2>2, <3>1 DEF User!vaultVars
  <2>3. QED BY <2>1, <2>2
<1>4. QED BY <1>1, <1>2, <1>3, OneProfileStep, Inductive, PTL DEF Spec, KeepsVault, User!VaultSpec
=============================================================================
