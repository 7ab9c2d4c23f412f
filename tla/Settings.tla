------------------------------ MODULE Settings ------------------------------
(***************************************************************************)
(* cmd/icctl/cmd/root.go and profile.go: the profiles and tokens that the  *)
(* profile commands keep, and what resolveState makes of them, of the      *)
(* flags and of the environment variables, each time icctl runs.           *)
(*                                                                         *)
(* The stores behind ProfileStore and SecretStore are external here: each  *)
(* of their calls takes effect or fails (ProfileStore.tla and              *)
(* SecretStore.tla look inside).  main.go passes none at all; the tests of *)
(* cmd pass both.  One icctl runs at a time and may die between two calls. *)
(***************************************************************************)
CONSTANTS
  Names,         \* profile names
  DefaultName,   \* "default"
  Environments,
  Known,         \* those of environmentBaseURLs
  Urls, UrlOf,   \* base URLs; environmentBaseURLs
  Tokens,
  Unset,         \* the flag is not given
  Empty          \* the empty string: of a flag, a variable or a field

VARIABLES
  profiles,      \* per name, a ProfileConfig, or Empty
  current,       \* current_profile
  tokens,        \* per name, the stored token, or Empty
  pc,            \* "idle"; in profile add "token"; in profile remove "untoken"
  job            \* the name that the command in progress is about

vars == <<profiles, current, tokens, pc, job>>

Fields == [environment : Environments \cup {Empty}, baseURL : Urls \cup {Empty}]
ASSUME NamingAssumption ==
  /\ DefaultName \in Names
  /\ Known \subseteq Environments /\ UrlOf \in [Known -> Urls]
  /\ \A S \in {Names, Environments, Urls, Tokens} : Unset \notin S /\ Empty \notin S
  /\ Unset # Empty /\ Empty \notin Fields

Unsaid == [environment |-> Empty, baseURL |-> Empty]

(* What the user says on the command line and in the environment, and      *)
(* whether the secret store can be read.  A flag given as the empty string *)
(* is given; an empty variable is not.                                     *)
Flag(S) == S \cup {Empty, Unset}
Variable(S) == S \cup {Empty}
Inputs == [profileFlag : Flag(Names), profileVar : Variable(Names),
           environmentFlag : Flag(Environments), environmentVar : Variable(Environments),
           urlFlag : Flag(Urls), urlVar : Variable(Urls),
           tokenFlag : Flag(Tokens), tokenVar : Variable(Tokens), readable : BOOLEAN]
Silence == [profileFlag |-> Unset, profileVar |-> Empty,
            environmentFlag |-> Unset, environmentVar |-> Empty,
            urlFlag |-> Unset, urlVar |-> Empty,
            tokenFlag |-> Unset, tokenVar |-> Empty, readable |-> TRUE]

(* No more is said than which profile to use. *)
Selecting(f, v, r) == [Silence EXCEPT !.profileFlag = f, !.profileVar = v, !.readable = r]
Selections == {Selecting(f, v, r) : f \in Flag(Names), v \in Variable(Names), r \in BOOLEAN}

Init == /\ profiles = [n \in Names |-> Empty] /\ current = Empty
        /\ tokens = [n \in Names |-> Empty]
        /\ pc = "idle" /\ job = Empty

Exists(n) == n \in Names /\ profiles[n] # Empty

(* resolveString and resolveWithProfile. *)
Layers(flag, variable, default) ==
  CASE flag # Unset -> flag
    [] flag = Unset /\ variable # Empty -> variable
    [] OTHER -> default

Explicit(in) == in.profileFlag # Unset \/ in.profileVar # Empty
Said(in) == Layers(in.profileFlag, in.profileVar, DefaultName)

(* Mutant: current_profile counts for more than ICCTL_PROFILE. *)
CurrentFirst(in) == IF in.profileFlag = Unset /\ current # Empty THEN current ELSE Said(in)

ProfileName(in) == IF ~Explicit(in) /\ current # Empty THEN current ELSE Said(in)

(* Only a profile that was asked for has to be there. *)
Refused(in) == Explicit(in) /\ ~Exists(ProfileName(in))
Profile(in) == IF Exists(ProfileName(in)) THEN profiles[ProfileName(in)] ELSE Unsaid

Mapped(url, environment) ==
  IF url = Empty /\ environment \in Known THEN UrlOf[environment] ELSE url

(* The State that resolveState puts into the context. *)
EffectiveEnvironment(in) ==
  Layers(in.environmentFlag, in.environmentVar, Profile(in).environment)
EffectiveBaseURL(in) ==
  Mapped(Layers(in.urlFlag, in.urlVar, Profile(in).baseURL), EffectiveEnvironment(in))

Stored(n) == IF n \in Names THEN tokens[n] ELSE Empty

(* Mutant: the token is loaded before current_profile is looked up. *)
TokenOfFlags(in) ==
  LET given == Layers(in.tokenFlag, in.tokenVar, Empty)
  IN  IF given = Empty /\ in.readable THEN Stored(Said(in)) ELSE given

EffectiveToken(in) ==
  LET given == Layers(in.tokenFlag, in.tokenVar, Empty)
  IN  IF given = Empty /\ in.readable THEN Stored(ProfileName(in)) ELSE given

(* Mutant: profile test knows no environments. *)
TestedUnmapped(n) == profiles[n].baseURL

(* runProfileTest resolves the URL and the token of a profile by itself. *)
TestedURL(n) == Mapped(profiles[n].baseURL, profiles[n].environment)
TestedToken(n) == Stored(n)

(* Every command resolves the settings before it runs. *)
Starts(in) == pc = "idle" /\ ~Refused(in)

Turn(place, n) == pc' = place /\ job' = n

(* profile add overwrites a profile of that name, with what the flags say  *)
(* and nothing else; --token-stdin asks for a second step.                 *)
Add(in, n, fields, tokenStdin) ==
  /\ Starts(in)
  /\ profiles' = [profiles EXCEPT ![n] = fields]
  /\ IF tokenStdin THEN Turn("token", n) ELSE UNCHANGED <<pc, job>>
  /\ UNCHANGED <<current, tokens>>

SaveToken(t) ==
  /\ pc = "token"
  /\ tokens' = [tokens EXCEPT ![job] = t]
  /\ Turn("idle", Empty)
  /\ UNCHANGED <<profiles, current>>

(* profile set-token does not ask whether there is such a profile. *)
SetToken(in, n, t) ==
  /\ Starts(in)
  /\ tokens' = [tokens EXCEPT ![n] = t]
  /\ UNCHANGED <<profiles, current, pc, job>>

SetDefault(in, n) ==
  /\ Starts(in)
  /\ Exists(n)
  /\ current' = n
  /\ UNCHANGED <<profiles, tokens, pc, job>>

(* Mutant: the removed profile stays the current one. *)
RemoveOnly(in, n) ==
  /\ Starts(in)
  /\ Exists(n)
  /\ profiles' = [profiles EXCEPT ![n] = Empty]
  /\ Turn("untoken", n)
  /\ UNCHANGED <<current, tokens>>

Remove(in, n) ==
  /\ Starts(in)
  /\ Exists(n)
  /\ profiles' = [profiles EXCEPT ![n] = Empty]
  /\ current' = IF current = n THEN Empty ELSE current
  /\ Turn("untoken", n)
  /\ UNCHANGED tokens

RemoveToken ==
  /\ pc = "untoken"
  /\ tokens' = [tokens EXCEPT ![job] = Empty]
  /\ Turn("idle", Empty)
  /\ UNCHANGED <<profiles, current>>

(* Standard input is empty, the secret store fails (an error of profile    *)
(* add, a warning of profile remove), or the process dies.                 *)
Stops ==
  /\ pc # "idle"
  /\ Turn("idle", Empty)
  /\ UNCHANGED <<profiles, current, tokens>>

(* The line that is read as the token may be blank. *)
Lines == Tokens \cup {Empty}

Next == \/ \E in \in Selections, n \in Names :
             \/ \E fields \in Fields, b \in BOOLEAN : Add(in, n, fields, b)
             \/ \E t \in Lines : SetToken(in, n, t)
             \/ SetDefault(in, n)
             \/ Remove(in, n)
        \/ \E t \in Lines : SaveToken(t)
        \/ RemoveToken
        \/ Stops

Spec == Init /\ [][Next]_vars

-----------------------------------------------------------------------------
(* What the variables hold; job is the name of a command in progress. *)
TypeOK ==
  /\ profiles \in [Names -> Fields \cup {Empty}]
  /\ current \in Names \cup {Empty}
  /\ tokens \in [Names -> Lines]
  /\ pc \in {"idle", "token", "untoken"}
  /\ IF pc = "idle" THEN job = Empty ELSE job \in Names

(* The user leaves the token to the stores, which can be read. *)
Untold == {in \in Inputs : in.readable /\ Layers(in.tokenFlag, in.tokenVar, Empty) = Empty}

(* A stored token goes to the server that profile test would send it to,   *)
(* that of one and the same existing profile, the one the user asked for   *)
(* if he asked for one; or else to a server he names himself, by its URL   *)
(* or, where the profile has no URL or --base-url blanks it, by its        *)
(* environment: resolveState mixes no two profiles, whatever was added,    *)
(* overwritten, removed or left behind by a command that failed half-way.  *)
UsesWhatWasTested ==
  \A in \in Untold :
    LET url == EffectiveBaseURL(in)
        token == EffectiveToken(in)
        blank == in.urlFlag = Empty
    IN  ~Refused(in) /\ url # Empty /\ token # Empty =>
          \/ url \in {in.urlFlag, in.urlVar}
          \/ /\ blank \/ Profile(in).baseURL = Empty
             /\ \E e \in Known \cap {in.environmentFlag, in.environmentVar} : url = UrlOf[e]
          \/ \E n \in Names :
               /\ Exists(n) /\ token = TestedToken(n)
               /\ url = TestedURL(n) \/ (blank /\ url = Mapped(Empty, profiles[n].environment))
               /\ Explicit(in) => n = Said(in)

(* A token without its profile (set-token asks for none; profile remove    *)
(* may end before RemoveToken) is used by no command, but for the token    *)
(* kept under "default", which is what a command falls back to: no name    *)
(* of a removed profile survives in current_profile.                       *)
OrphanTokensStayIdle ==
  \A in \in Selections :
    ~Refused(in) /\ EffectiveToken(in) # Empty =>
      Exists(ProfileName(in)) \/ (ProfileName(in) = DefaultName /\ ~Explicit(in))

-----------------------------------------------------------------------------
(* The two stores as the commands see them: what ProfileStore.tla and      *)
(* SecretStore.tla implement is all that the commands need.                *)
Profiles == INSTANCE Registry WITH
  Settings <- Fields,
  NoName <- Empty,
  known <- {entry \in Names \X Fields : entry[2] = profiles[entry[1]]},
  default <- current

Secrets == INSTANCE Vault WITH
  None <- Empty,
  held <- tokens,
  durable <- TRUE

(* The refinement: every command, broken off or not, is a sequence of      *)
(* whole operations on one profile or one credential each; the default     *)
(* profile goes with the profile it names (runProfileAdd, SetDefault,      *)
(* SetToken and Remove; saveProfileToken).                                 *)
KeepsToStores == Profiles!RegistrySpec /\ Secrets!VaultSpec
=============================================================================
