---------------------------- MODULE ProfileStore ----------------------------
(***************************************************************************)
(* cmd/icctl/profile/store.go: config.yaml, which every operation reads as *)
(* a whole, changes in memory and writes back as a whole.  There is no     *)
(* lock and no temporary file: os.WriteFile truncates the file and then    *)
(* writes it, and other icctl processes may act in between.                *)
(*                                                                         *)
(* A profile's fields are one value, its settings.  The text is one write  *)
(* to the file (it is far below a disk block), so a death of the process   *)
(* leaves the file as it was, empty, or written.                           *)
(***************************************************************************)
CONSTANTS
  Procs,       \* icctl processes
  Names,       \* profile names that match nameRegex
  Settings,    \* contents of a profile
  NoName,      \* the empty current_profile
  Missing      \* no such key in profiles

ASSUME NameAssumption == NoName \notin Names /\ Missing \notin Settings

VARIABLES
  alone,       \* one process runs at a time; otherwise their steps interleave
  disk,        \* config.yaml: what state it is in, and what it says
  pc,          \* "idle", "loaded" (before os.WriteFile) or "cut" (truncated)
  mem          \* the *configFile of the process

vars == <<alone, disk, pc, mem>>

Config == [current : Names \cup {NoName}, profiles : [Names -> Settings \cup {Missing}]]
Empty == [current |-> NoName, profiles |-> [n \in Names |-> Missing]]

File(state, cfg) == [state |-> state, cfg |-> cfg]
States == {"absent", "cut", "whole", "garbled"}

(* load: an absent file and an empty one are the empty configuration; text *)
(* that is not YAML is an error.                                           *)
Parses == disk.state # "garbled"
Loaded == disk.cfg

Has(cfg, n) == cfg.profiles[n] # Missing

(* Mutant: saving one profile forgets the others. *)
SavedAlone(cfg, n, s) ==
  [cfg EXCEPT !.profiles = [m \in Names |-> IF m = n THEN s ELSE Missing]]

(* The configurations that Save, Remove and SetDefault write back. *)
Saved(cfg, n, s) == [cfg EXCEPT !.profiles[n] = s]

(* Mutant: the default survives its profile. *)
RemovedOnly(cfg, n) == [cfg EXCEPT !.profiles[n] = Missing]

Removed(cfg, n) == [cfg EXCEPT !.profiles[n] = Missing,
                               !.current = IF @ = n THEN NoName ELSE @]

Defaulted(cfg, n) == [cfg EXCEPT !.current = n]

Init == /\ alone \in BOOLEAN
        /\ disk = File("absent", Empty)
        /\ pc = [p \in Procs |-> "idle"]
        /\ mem = [p \in Procs |-> Empty]

(* Up to the os.WriteFile of save; a read error ends the operation here. *)
Prepares(p, cfg) ==
  /\ pc[p] = "idle"
  /\ alone => \A q \in Procs : pc[q] = "idle"
  /\ Parses
  /\ pc' = [pc EXCEPT ![p] = "loaded"]
  /\ mem' = [mem EXCEPT ![p] = cfg]
  /\ UNCHANGED <<alone, disk>>

Save(p, n, s) == Prepares(p, Saved(Loaded, n, s))
Remove(p, n) == Has(Loaded, n) /\ Prepares(p, Removed(Loaded, n))
SetDefault(p, n) == Has(Loaded, n) /\ Prepares(p, Defaulted(Loaded, n))

Finish(p) == /\ pc' = [pc EXCEPT ![p] = "idle"]
             /\ mem' = [mem EXCEPT ![p] = Empty]

(* os.WriteFile opens the file with O_TRUNC. *)
Cut(p) ==
  /\ pc[p] = "loaded"
  /\ disk' = File("cut", Empty)
  /\ pc' = [pc EXCEPT ![p] = "cut"]
  /\ UNCHANGED <<alone, mem>>

(* The entries of theirs beyond the end of mine, when both start at 0. *)
Overlaid(mine, theirs, tail) ==
  [mine EXCEPT !.profiles = [n \in Names |->
     IF n \in tail /\ Has(theirs, n) THEN theirs.profiles[n] ELSE mine.profiles[n]]]

(* os.WriteFile writes.  If another process wrote since the truncation and *)
(* wrote more, the end of its text stays: it is no YAML, or adds entries.  *)
Write(p) ==
  /\ pc[p] = "cut"
  /\ IF disk.state = "cut"
       THEN disk' = File("whole", mem[p])
       ELSE \/ \E tail \in SUBSET Names :
                 disk' = File("whole", Overlaid(mem[p], disk.cfg, tail))
            \/ disk' = File("garbled", Empty)
  /\ Finish(p)
  /\ UNCHANGED alone

(* The operation fails (no directory, no permission, a full disk), or the  *)
(* process is killed: what was done to the file stays done.                *)
Stops(p) ==
  /\ pc[p] # "idle"
  /\ Finish(p)
  /\ UNCHANGED <<alone, disk>>

Next == \E p \in Procs :
          \/ \E n \in Names : \/ \E s \in Settings : Save(p, n, s)
                              \/ Remove(p, n)
                              \/ SetDefault(p, n)
          \/ Cut(p)
          \/ Write(p)
          \/ Stops(p)

Spec == Init /\ [][Next]_vars

-----------------------------------------------------------------------------
TypeOK ==
  /\ alone \in BOOLEAN
  /\ disk \in [state : States, cfg : Config]
  /\ pc \in [Procs -> {"idle", "loaded", "cut"}]
  /\ mem \in [Procs -> Config]

Consistent(cfg) == cfg.current \in Names => Has(cfg, cfg.current)

(* However processes interleave, die or overwrite each other's text, the   *)
(* file never names a default profile that it does not hold: each process  *)
(* writes a whole snapshot (Store.Remove, Store.SetDefault, save).         *)
DefaultExists == Consistent(disk.cfg)

(* The configuration as the user of one process at a time sees it: the     *)
(* truncation is the point of no return.                                   *)
Committed == IF \E p \in Procs : pc[p] = "cut"
               THEN mem[CHOOSE p \in Procs : pc[p] = "cut"]
               ELSE disk.cfg

User == INSTANCE Registry WITH
  known <- IF alone THEN {entry \in Names \X Settings : entry[2] = Committed.profiles[entry[1]]}
                    ELSE {},
  default <- IF alone THEN Committed.current ELSE NoName

(* While one process runs at a time, the store is an atomic registry,      *)
(* whatever dies or fails; processes that overlap may undo each other's    *)
(* changes, so nothing is claimed of them here (Store.Save, Remove,        *)
(* SetDefault and save).                                                   *)
KeepsRegistry == User!RegistrySpec
=============================================================================
