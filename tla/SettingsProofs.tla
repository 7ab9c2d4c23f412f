--------------------------- MODULE SettingsProofs ---------------------------
(***************************************************************************)
(* What the profile commands keep and what resolveState makes of it, for   *)
(* any names, environments, base URLs and tokens.                          *)
(***************************************************************************)
EXTENDS Settings, TLAPS

(* Nothing else keeps a removed name from being read again: profile        *)
(* set-default asks for the profile, profile add keeps it, profile remove  *)
(* clears current_profile.                                                 *)
CurrentExists == current # Empty => Exists(current)

Inv == TypeOK /\ CurrentExists

(* profile add: the profile exists afterwards and no other goes away. *)
LEMMA AddKeeps ==
  ASSUME Inv, NEW in \in Selections, NEW n \in Names, NEW fields \in Fields,
         NEW b \in BOOLEAN, Add(in, n, fields, b)
  PROVE  Inv'
<1>1. TypeOK'
  <2>1. CASE b
    BY <2>1 DEF Inv, TypeOK, Add, Starts, Turn
  <2>2. CASE ~b
    BY <2>2 DEF Inv, TypeOK, Add, Starts
  <2> QED
    BY <2>1, <2>2
<1>2. profiles' = [profiles EXCEPT ![n] = fields] /\ current' = current
  BY DEF Add
<1>3. CurrentExists'
  BY <1>2, NamingAssumption DEF Inv, TypeOK, CurrentExists, Exists
<1> QED
  BY <1>1, <1>3 DEF Inv

(* profile remove: current_profile goes with the profile it names. *)
LEMMA RemoveKeeps ==
  ASSUME Inv, NEW in \in Selections, NEW n \in Names, Remove(in, n)
  PROVE  Inv'
<1>1. /\ profiles' = [profiles EXCEPT ![n] = Empty]
      /\ current' = IF current = n THEN Empty ELSE current
  BY DEF Remove
<1>2. TypeOK'
  BY <1>1 DEF Inv, TypeOK, Remove, Turn
<1>3. CurrentExists'
  BY <1>1, NamingAssumption DEF Inv, TypeOK, CurrentExists, Exists
<1> QED
  BY <1>2, <1>3 DEF Inv

(* The other steps write tokens, or name an existing profile. *)
LEMMA OthersKeep ==
  ASSUME Inv,
         \/ \E t \in Lines : SaveToken(t)
         \/ \E in \in Selections, n \in Names :
              (\E t \in Lines : SetToken(in, n, t)) \/ SetDefault(in, n)
         \/ RemoveToken \/ Stops \/ UNCHANGED vars
  PROVE  Inv'
<1>1. ASSUME NEW t \in Lines, SaveToken(t)
      PROVE  Inv'
  BY <1>1, NamingAssumption DEF Inv, TypeOK, CurrentExists, Exists, SaveToken, Turn
<1>2. ASSUME NEW in \in Selections, NEW n \in Names, NEW t \in Lines, SetToken(in, n, t)
      PROVE  Inv'
  BY <1>2 DEF Inv, TypeOK, CurrentExists, Exists, SetToken, Starts
<1>3. ASSUME NEW in \in Selections, NEW n \in Names, SetDefault(in, n)
      PROVE  Inv'
  BY <1>3 DEF Inv, TypeOK, CurrentExists, Exists, SetDefault, Starts
<1>4. CASE RemoveToken
  BY <1>4 DEF Inv, TypeOK, CurrentExists, Exists, RemoveToken, Turn, Lines
<1>5. CASE Stops
  BY <1>5 DEF Inv, TypeOK, CurrentExists, Exists, Stops, Turn
<1>6. CASE UNCHANGED vars
  BY <1>6 DEF Inv, TypeOK, CurrentExists, Exists, vars
<1> QED
  BY <1>1, <1>2, <1>3, <1>4, <1>5, <1>6

(* Whatever the commands do, and wherever they die. *)
LEMMA Invariance == Spec => []Inv
<1>1. Init => Inv
  BY NamingAssumption DEF Init, Inv, TypeOK, CurrentExists, Lines
<1>2. Inv /\ [Next]_vars => Inv'
  BY AddKeeps, RemoveKeeps, OthersKeep DEF Next
<1> QED
  BY <1>1, <1>2, PTL DEF Spec

(* Settings.TypeOK holds of every run of the profile commands. *)
THEOREM TypeCorrect == Spec => []TypeOK
<1>1. Inv => TypeOK
  BY DEF Inv
<1> QED
  BY <1>1, Invariance, PTL

(* The name that resolveState settles on is the one that was asked for, or *)
(* an existing one, or "default".                                          *)
LEMMA NameSettled ==
  ASSUME Inv, NEW in
  PROVE  /\ Explicit(in) => ProfileName(in) = Said(in)
         /\ ~Explicit(in) => Exists(ProfileName(in)) \/ ProfileName(in) = DefaultName
<1>1. CASE Explicit(in)
  BY <1>1 DEF ProfileName
<1>2. CASE ~Explicit(in) /\ current # Empty
  BY <1>2 DEF ProfileName, Inv, CurrentExists
<1>3. CASE ~Explicit(in) /\ current = Empty
  BY <1>3 DEF ProfileName, Explicit, Said, Layers
<1> QED
  BY <1>1, <1>2, <1>3

(* resolveState never uses the token of a profile that is gone, but for    *)
(* the fallback to "default".                                              *)
THEOREM OrphansStayIdle == Spec => []OrphanTokensStayIdle
<1>1. Inv => OrphanTokensStayIdle
  BY NameSettled DEF OrphanTokensStayIdle, Refused
<1> QED
  BY <1>1, Invariance, PTL

(* What is said outranks what is stored, layer by layer.                   *)
LEMMA LayersFacts ==
  ASSUME NEW f, NEW v, NEW d
  PROVE  /\ Layers(f, v, d) \in {f, v, d}
         /\ f # Unset => Layers(f, v, d) = f
         /\ Layers(f, v, d) \notin {f, v} => f = Unset /\ v = Empty /\ Layers(f, v, d) = d
BY DEF Layers

LEMMA MappedFacts ==
  ASSUME NEW u, NEW e
  PROVE  /\ u # Empty => Mapped(u, e) = u
         /\ u = Empty /\ Mapped(u, e) # Empty => e \in Known /\ Mapped(u, e) = UrlOf[e]
BY DEF Mapped

(* A token that is not told is that of the profile that was settled on.    *)
LEMMA TokenIsStored ==
  ASSUME NEW in \in Untold, EffectiveToken(in) # Empty
  PROVE  EffectiveToken(in) = Stored(ProfileName(in))
BY DEF Untold, EffectiveToken

(* Where the base URL comes from: from the user, from the environment he   *)
(* names, or from the profile that was settled on.                         *)
LEMMA BaseURLComes ==
  ASSUME Inv, NEW in \in Inputs, EffectiveBaseURL(in) # Empty
  PROVE  LET url == EffectiveBaseURL(in)
             blank == in.urlFlag = Empty
         IN  \/ url \in {in.urlFlag, in.urlVar}
             \/ /\ blank \/ Profile(in).baseURL = Empty
                /\ \E e \in Known \cap {in.environmentFlag, in.environmentVar} : url = UrlOf[e]
             \/ /\ Exists(ProfileName(in))
                /\ \/ url = TestedURL(ProfileName(in))
                   \/ blank /\ url = Mapped(Empty, profiles[ProfileName(in)].environment)
<1> DEFINE said == Layers(in.urlFlag, in.urlVar, Profile(in).baseURL)
           env == EffectiveEnvironment(in)
           url == EffectiveBaseURL(in)
<1>1. url = Mapped(said, env) /\ env = Layers(in.environmentFlag, in.environmentVar, Profile(in).environment)
  BY DEF EffectiveBaseURL, EffectiveEnvironment
<1>2. Unsaid.baseURL = Empty /\ Unsaid.environment = Empty /\ Empty \notin Known
  BY NamingAssumption DEF Unsaid
<1>3. Exists(ProfileName(in)) => Profile(in) = profiles[ProfileName(in)]
  BY DEF Profile
<1>4. ~Exists(ProfileName(in)) => Profile(in) = Unsaid
  BY DEF Profile
<1> HIDE DEF said, env, url
<1>5. CASE said # Empty
  <2>1. url = said
    BY <1>1, <1>5, MappedFacts
  <2>2. CASE said \in {in.urlFlag, in.urlVar}
    BY <2>1, <2>2 DEF url
  <2>3. CASE said \notin {in.urlFlag, in.urlVar}
    <3>1. said = Profile(in).baseURL
      BY <2>3, LayersFacts DEF said
    <3>2. Exists(ProfileName(in))
      BY <1>2, <1>4, <1>5, <3>1
    <3>3. url = TestedURL(ProfileName(in))
      BY <1>3, <1>5, <2>1, <3>1, <3>2, MappedFacts DEF TestedURL
    <3>4. QED BY <3>2, <3>3 DEF url
  <2>4. QED BY <2>2, <2>3
<1>6. CASE said = Empty
  <2>1. env \in Known /\ url = UrlOf[env] /\ url = Mapped(Empty, env)
    BY <1>1, <1>6, MappedFacts DEF url
  <2>2. in.urlFlag = Empty \/ Profile(in).baseURL = Empty
    BY <1>6 DEF said, Layers
  <2>3. CASE env \in {in.environmentFlag, in.environmentVar}
    BY <2>1, <2>2, <2>3 DEF url
  <2>4. CASE env \notin {in.environmentFlag, in.environmentVar}
    <3>1. env = Profile(in).environment
      BY <1>1, <2>4, LayersFacts
    <3>2. Exists(ProfileName(in))
      BY <1>2, <1>4, <2>1, <3>1
    <3>3. env = profiles[ProfileName(in)].environment
      BY <1>3, <3>1, <3>2
    <3>4. CASE in.urlFlag = Empty
      BY <2>1, <3>2, <3>3, <3>4 DEF url
    <3>5. CASE Profile(in).baseURL = Empty
      <4>1. url = TestedURL(ProfileName(in))
        BY <1>3, <2>1, <3>2, <3>3, <3>5 DEF TestedURL
      <4>2. QED BY <3>2, <4>1 DEF url
    <3>6. QED BY <2>2, <3>4, <3>5
  <2>5. QED BY <2>3, <2>4
<1>7. QED BY <1>5, <1>6

(* A stored token goes to the server of its own profile, or to one that    *)
(* the user names.                                                         *)
THEOREM UsesTested == Spec => []UsesWhatWasTested
<1>1. ASSUME Inv, NEW in \in Untold,
             EffectiveBaseURL(in) # Empty, EffectiveToken(in) # Empty,
             Exists(ProfileName(in))
      PROVE  /\ ProfileName(in) \in Names
             /\ EffectiveToken(in) = TestedToken(ProfileName(in))
             /\ Explicit(in) => ProfileName(in) = Said(in)
  BY <1>1, TokenIsStored, NameSettled DEF Exists, TestedToken
<1>2. Inv => UsesWhatWasTested
  <2> SUFFICES ASSUME Inv, NEW in \in Untold, ~Refused(in),
                      EffectiveBaseURL(in) # Empty, EffectiveToken(in) # Empty
               PROVE  LET url == EffectiveBaseURL(in)
                          token == EffectiveToken(in)
                          blank == in.urlFlag = Empty
                      IN  \/ url \in {in.urlFlag, in.urlVar}
                          \/ /\ blank \/ Profile(in).baseURL = Empty
                             /\ \E e \in Known \cap {in.environmentFlag, in.environmentVar} :
                                  url = UrlOf[e]
                          \/ \E n \in Names :
                               /\ Exists(n) /\ token = TestedToken(n)
                               /\ \/ url = TestedURL(n)
                                  \/ blank /\ url = Mapped(Empty, profiles[n].environment)
                               /\ Explicit(in) => n = Said(in)
    BY DEF UsesWhatWasTested
  <2>1. in \in Inputs
    BY DEF Untold
  <2>2. QED BY <1>1, <2>1, BaseURLComes
<1> QED
  BY <1>2, Invariance, PTL

-----------------------------------------------------------------------------
(* profiles as Registry.tla has them: pairs of a name and its fields.      *)
Entries == {entry \in Names \X Fields : entry[2] = profiles[entry[1]]}

LEMMA HasEntry ==
  ASSUME TypeOK, NEW n \in Names, Exists(n)
  PROVE  n \in {entry[1] : entry \in Entries}
<1>1. <<n, profiles[n]>> \in Entries
  BY DEF Exists, Entries, TypeOK
<1> QED
  BY <1>1

(* A profile is added or overwritten, or removed: one entry changes. *)
LEMMA EntryPut ==
  ASSUME TypeOK, NEW n \in Names, NEW f \in Fields,
         profiles' = [profiles EXCEPT ![n] = f]
  PROVE  Entries' = {entry \in Entries : entry[1] # n} \cup {<<n, f>>}
BY DEF TypeOK, Entries

LEMMA EntryDropped ==
  ASSUME TypeOK, NEW n \in Names, profiles' = [profiles EXCEPT ![n] = Empty]
  PROVE  Entries' = {entry \in Entries : entry[1] # n}
BY NamingAssumption DEF TypeOK, Entries

StoreStep == [Profiles!RegistryNext]_Profiles!registryVars /\ [Secrets!VaultNext]_Secrets!vaultVars

(* Each command is a whole operation on one store and leaves the other.    *)
LEMMA StoresStep ==
  ASSUME Inv, [Next]_vars
  PROVE  StoreStep
<1>1. /\ {entry \in Names \X Fields : entry[2] = profiles[entry[1]]} = Entries
      /\ {entry \in Names \X Fields : entry[2] = profiles'[entry[1]]} = Entries'
  BY DEF Entries
<1>2. UNCHANGED profiles => Entries' = Entries
  BY DEF Entries
<1>3. ASSUME UNCHANGED <<profiles, current>> PROVE [Profiles!RegistryNext]_Profiles!registryVars
  BY <1>1, <1>2, <1>3 DEF Profiles!registryVars
<1>4. ASSUME UNCHANGED tokens PROVE [Secrets!VaultNext]_Secrets!vaultVars
  BY <1>4 DEF Secrets!vaultVars
<1>5. ASSUME NEW n \in Names, NEW t \in Lines, tokens' = [tokens EXCEPT ![n] = t]
      PROVE  [Secrets!VaultNext]_Secrets!vaultVars
  BY <1>5 DEF Lines, Secrets!VaultNext, Secrets!Keep, Secrets!Forget
<1>6. ASSUME NEW in \in Selections, NEW n \in Names, NEW fields \in Fields, NEW b \in BOOLEAN,
             Add(in, n, fields, b)
      PROVE  StoreStep
  <2>1. profiles' = [profiles EXCEPT ![n] = fields] /\ UNCHANGED <<current, tokens>>
    BY <1>6 DEF Add
  <2>2. Entries' = {entry \in Entries : entry[1] # n} \cup {<<n, fields>>}
    BY <2>1, EntryPut DEF Inv
  <2>3. Profiles!Put(n, fields)
    BY <1>1, <2>1, <2>2 DEF Profiles!Put
  <2>4. QED BY <1>4, <2>1, <2>3 DEF StoreStep, Profiles!RegistryNext
<1>7. ASSUME NEW in \in Selections, NEW n \in Names, Remove(in, n) PROVE StoreStep
  <2>1. /\ profiles' = [profiles EXCEPT ![n] = Empty] /\ Exists(n) /\ UNCHANGED tokens
        /\ current' = IF current = n THEN Empty ELSE current
    BY <1>7 DEF Remove
  <2>2. Entries' = {entry \in Entries : entry[1] # n}
    BY <2>1, EntryDropped DEF Inv
  <2>3. n \in {entry[1] : entry \in Entries}
    BY <2>1, HasEntry DEF Inv
  <2>4. Profiles!Drop(n)
    BY <1>1, <2>1, <2>2, <2>3 DEF Profiles!Drop, Profiles!Named
  <2>5. QED BY <1>4, <2>1, <2>4 DEF StoreStep, Profiles!RegistryNext
<1>8. ASSUME NEW in \in Selections, NEW n \in Names, SetDefault(in, n) PROVE StoreStep
  <2>1. current' = n /\ Exists(n) /\ UNCHANGED <<profiles, tokens>>
    BY <1>8 DEF SetDefault
  <2>2. n \in {entry[1] : entry \in Entries}
    BY <2>1, HasEntry DEF Inv
  <2>3. Profiles!Choose(n)
    BY <1>1, <1>2, <2>1, <2>2 DEF Profiles!Choose, Profiles!Named
  <2>4. QED BY <1>4, <2>1, <2>3 DEF StoreStep, Profiles!RegistryNext
<1>9. ASSUME NEW in \in Selections, NEW n \in Names, NEW t \in Lines, SetToken(in, n, t)
      PROVE  StoreStep
  BY <1>3, <1>5, <1>9 DEF SetToken, StoreStep
<1>10. ASSUME NEW t \in Lines, SaveToken(t) PROVE StoreStep
  <2>1. job \in Names /\ tokens' = [tokens EXCEPT ![job] = t] /\ UNCHANGED <<profiles, current>>
    BY <1>10 DEF SaveToken, Inv, TypeOK
  <2>2. QED BY <1>3, <1>5, <2>1 DEF StoreStep
<1>11. CASE RemoveToken
  <2>1. /\ job \in Names /\ Empty \in Lines /\ tokens' = [tokens EXCEPT ![job] = Empty]
        /\ UNCHANGED <<profiles, current>>
    BY <1>11 DEF RemoveToken, Inv, TypeOK, Lines
  <2>2. QED BY <1>3, <1>5, <2>1 DEF StoreStep
<1>12. CASE Stops \/ UNCHANGED vars
  BY <1>3, <1>4, <1>12 DEF Stops, vars, StoreStep
<1>13. QED
  BY <1>6, <1>7, <1>8, <1>9, <1>10, <1>11, <1>12 DEF Next

(* For any names, fields and tokens: what the commands do to the stores is *)
(* what Registry and Vault promise to do as a whole.                       *)
THEOREM CommandsKeepToStores == Spec => KeepsToStores
<1>1. Init => Profiles!RegistryInit /\ Secrets!VaultInit
  <2>1. Init => Entries = {}
    BY NamingAssumption DEF Init, Entries
  <2>2. QED
    BY <2>1 DEF Init, Entries, Profiles!RegistryInit, Secrets!VaultInit, Secrets!Nothing
<1>2. Inv /\ [Next]_vars => [Profiles!RegistryNext]_Profiles!registryVars
                            /\ [Secrets!VaultNext]_Secrets!vaultVars
  BY StoresStep DEF StoreStep
<1>3. QED
  BY <1>1, <1>2, Invariance, PTL
     DEF Spec, KeepsToStores, Profiles!RegistrySpec, Secrets!VaultSpec
=============================================================================
