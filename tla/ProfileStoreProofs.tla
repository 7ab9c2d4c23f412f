------------------------- MODULE ProfileStoreProofs -------------------------
(***************************************************************************)
(* What profile.Store keeps of config.yaml for any number of processes and *)
(* any profiles: its shape, and a default profile that exists.             *)
(***************************************************************************)
EXTENDS ProfileStore, TLAPS

(* Any snapshot that a process holds, and so may write at any time, has to *)
(* be consistent too.                                                      *)
IInv == /\ TypeOK
        /\ Consistent(disk.cfg)
        /\ \A p \in Procs : Consistent(mem[p])

(* The configurations made from a consistent one are consistent.           *)
(* Store.Remove clears the default with its profile.                       *)
LEMMA MadeConsistent ==
  ASSUME NEW cfg \in Config, Consistent(cfg), NEW n \in Names
  PROVE  /\ \A s \in Settings : Saved(cfg, n, s) \in Config /\ Consistent(Saved(cfg, n, s))
         /\ Removed(cfg, n) \in Config /\ Consistent(Removed(cfg, n))
         /\ Has(cfg, n) => Defaulted(cfg, n) \in Config /\ Consistent(Defaulted(cfg, n))
<1>1. ASSUME NEW s \in Settings
      PROVE  Saved(cfg, n, s) \in Config /\ Consistent(Saved(cfg, n, s))
  BY <1>1, NameAssumption DEF Saved, Config, Consistent, Has
<1>2. Removed(cfg, n) \in Config /\ Consistent(Removed(cfg, n))
  BY NameAssumption DEF Removed, Config, Consistent, Has
<1>3. ASSUME Has(cfg, n)
      PROVE  Defaulted(cfg, n) \in Config /\ Consistent(Defaulted(cfg, n))
  BY <1>3 DEF Defaulted, Config, Consistent, Has
<1> QED
  BY <1>1, <1>2, <1>3

(* The end of another process's text adds entries and takes none away, so  *)
(* the default that was written still has its profile.                     *)
LEMMA OverlaidConsistent ==
  ASSUME NEW mine \in Config, NEW theirs \in Config, Consistent(mine),
         NEW tail \in SUBSET Names
  PROVE  Overlaid(mine, theirs, tail) \in Config /\ Consistent(Overlaid(mine, theirs, tail))
<1> DEFINE merged == [n \in Names |->
             IF n \in tail /\ Has(theirs, n) THEN theirs.profiles[n] ELSE mine.profiles[n]]
<1>1. merged \in [Names -> Settings \cup {Missing}]
  BY DEF Config, Has
<1>2. Overlaid(mine, theirs, tail) = [current |-> mine.current, profiles |-> merged]
  BY DEF Overlaid, Config
<1>3. \A n \in Names : mine.profiles[n] # Missing => merged[n] # Missing
  BY DEF Has
<1> HIDE DEF merged
<1> QED
  BY <1>1, <1>2, <1>3 DEF Config, Consistent, Has

(* The configuration of a first run has no default to lose. *)
LEMMA EmptyConsistent == Empty \in Config /\ Consistent(Empty)
  BY NameAssumption DEF Empty, Config, Consistent

(* Up to the write the file is untouched and the snapshot is good. *)
LEMMA PreparesKeeps ==
  ASSUME IInv, NEW p \in Procs, NEW cfg \in Config, Consistent(cfg), Prepares(p, cfg)
  PROVE  IInv'
<1>1. TypeOK'
  BY DEF IInv, TypeOK, Prepares
<1>2. disk' = disk /\ \A q \in Procs : mem'[q] = IF q = p THEN cfg ELSE mem[q]
  BY DEF IInv, TypeOK, Prepares
<1> QED
  BY <1>1, <1>2 DEF IInv, Consistent, Has

(* The end of an operation forgets the snapshot. *)
LEMMA FinishKeeps ==
  ASSUME IInv, NEW p \in Procs, Finish(p)
  PROVE  /\ pc' \in [Procs -> {"idle", "loaded", "cut"}]
         /\ mem' \in [Procs -> Config]
         /\ \A q \in Procs : Consistent(mem'[q])
<1>1. /\ pc' \in [Procs -> {"idle", "loaded", "cut"}]
      /\ mem' \in [Procs -> Config]
      /\ \A q \in Procs : mem'[q] = IF q = p THEN Empty ELSE mem[q]
  BY EmptyConsistent DEF IInv, TypeOK, Finish
<1> QED
  BY <1>1, EmptyConsistent DEF IInv

(* Only os.WriteFile changes the file: to nothing, or to a snapshot and    *)
(* perhaps some more entries.                                              *)
LEMMA WriteKeeps ==
  ASSUME IInv, NEW p \in Procs, Write(p)
  PROVE  IInv'
<1>1. mem[p] \in Config /\ Consistent(mem[p]) /\ disk.cfg \in Config
  BY DEF IInv, TypeOK
<1>2. disk' \in [state : States, cfg : Config] /\ Consistent(disk'.cfg)
  <2>1. CASE disk' = File("whole", mem[p])
    BY <1>1, <2>1 DEF File, States
  <2>2. CASE \E tail \in SUBSET Names :
               disk' = File("whole", Overlaid(mem[p], disk.cfg, tail))
    <3>1. PICK tail \in SUBSET Names :
            disk' = File("whole", Overlaid(mem[p], disk.cfg, tail))
      BY <2>2
    <3>2. /\ Overlaid(mem[p], disk.cfg, tail) \in Config
          /\ Consistent(Overlaid(mem[p], disk.cfg, tail))
      BY <1>1, OverlaidConsistent
    <3> QED
      BY <3>1, <3>2 DEF File, States
  <2>3. CASE disk' = File("garbled", Empty)
    BY <2>3, EmptyConsistent DEF File, States
  <2> QED
    BY <2>1, <2>2, <2>3 DEF Write
<1>3. Finish(p) /\ alone' = alone
  BY DEF Write
<1> QED
  BY <1>2, <1>3, FinishKeeps DEF IInv, TypeOK, Consistent, Has

(* Store's operations keep IInv, whatever the other processes do. *)
LEMMA Invariance == Spec => []IInv
<1>1. Init => IInv
  BY EmptyConsistent DEF Init, IInv, TypeOK, File, States
<1>2. IInv /\ [Next]_vars => IInv'
  <2> SUFFICES ASSUME IInv, [Next]_vars
               PROVE  IInv'
    OBVIOUS
  <2>1. Loaded \in Config /\ Consistent(Loaded)
    BY DEF IInv, TypeOK, Loaded
  <2>2. ASSUME NEW p \in Procs, NEW n \in Names, NEW s \in Settings, Save(p, n, s)
        PROVE  IInv'
    BY <2>1, <2>2, MadeConsistent, PreparesKeeps DEF Save
  <2>3. ASSUME NEW p \in Procs, NEW n \in Names, Remove(p, n)
        PROVE  IInv'
    BY <2>1, <2>3, MadeConsistent, PreparesKeeps DEF Remove
  <2>4. ASSUME NEW p \in Procs, NEW n \in Names, SetDefault(p, n)
        PROVE  IInv'
    BY <2>1, <2>4, MadeConsistent, PreparesKeeps DEF SetDefault
  <2>5. ASSUME NEW p \in Procs, Cut(p)
        PROVE  IInv'
    BY <2>5, EmptyConsistent DEF Cut, IInv, TypeOK, File, States, Consistent, Has
  <2>6. ASSUME NEW p \in Procs, Write(p)
        PROVE  IInv'
    BY <2>6, WriteKeeps
  <2>7. ASSUME NEW p \in Procs, Stops(p)
        PROVE  IInv'
    BY <2>7, FinishKeeps DEF Stops, IInv, TypeOK, Consistent, Has
  <2>8. CASE UNCHANGED vars
    BY <2>8 DEF vars, IInv, TypeOK, Consistent, Has
  <2> QED
    BY <2>2, <2>3, <2>4, <2>5, <2>6, <2>7, <2>8 DEF Next
<1> QED
  BY <1>1, <1>2, PTL DEF Spec

(* The file and every snapshot of it keep the shape of configFile: no      *)
(* operation leaves a default that is neither a name nor empty.            *)
THEOREM TypeCorrect == Spec => []TypeOK
<1>1. IInv => TypeOK
  BY DEF IInv
<1> QED
  BY <1>1, Invariance, PTL

(* No interleaving of processes, death or overwritten text makes           *)
(* config.yaml name a default profile that it does not hold.               *)
THEOREM DefaultHeld == Spec => []DefaultExists
<1>1. IInv => DefaultExists
  BY DEF IInv, DefaultExists
<1> QED
  BY <1>1, Invariance, PTL

-----------------------------------------------------------------------------
(* The registry that one process at a time sees.  Entries is the set that  *)
(* the refinement mapping makes of a configuration.                        *)
Entries(cfg) == {entry \in Names \X Settings : entry[2] = cfg.profiles[entry[1]]}

(* A configuration that one operation makes of another one. *)
Made(new, old) ==
  \E n \in Names : \/ \E s \in Settings : new = Saved(old, n, s)
                   \/ Has(old, n) /\ (new = Removed(old, n) \/ new = Defaulted(old, n))

(* While one process runs at a time, only it is at work; what it will      *)
(* write is one operation away from the file; and the file that it has cut *)
(* is empty until it has written.                                          *)
Alone ==
  alone =>
    /\ \A p, q \in Procs : pc[p] # "idle" /\ pc[q] # "idle" => p = q
    /\ \A p \in Procs : /\ pc[p] = "loaded" => Made(mem[p], disk.cfg)
                        /\ pc[p] = "cut" => disk = File("cut", Empty)

(* What the operations of package profile do to the entries. *)
LEMMA EntriesMade ==
  ASSUME NEW cfg \in Config, NEW n \in Names
  PROVE  /\ \A s \in Settings : /\ Saved(cfg, n, s).current = cfg.current
                                /\ Entries(Saved(cfg, n, s))
                                     = {entry \in Entries(cfg) : entry[1] # n} \cup {<<n, s>>}
         /\ Entries(Removed(cfg, n)) = {entry \in Entries(cfg) : entry[1] # n}
         /\ Removed(cfg, n).current = IF cfg.current = n THEN NoName ELSE cfg.current
         /\ Entries(Defaulted(cfg, n)) = Entries(cfg)
         /\ Defaulted(cfg, n).current = n
         /\ Has(cfg, n) => n \in {entry[1] : entry \in Entries(cfg)}
         /\ Entries(Empty) = {}
<1>1. ASSUME NEW s \in Settings
      PROVE  /\ Saved(cfg, n, s).current = cfg.current
             /\ Entries(Saved(cfg, n, s))
                  = {entry \in Entries(cfg) : entry[1] # n} \cup {<<n, s>>}
  BY <1>1 DEF Saved, Config, Entries
<1>2. /\ Entries(Removed(cfg, n)) = {entry \in Entries(cfg) : entry[1] # n}
      /\ Removed(cfg, n).current = IF cfg.current = n THEN NoName ELSE cfg.current
  BY NameAssumption DEF Removed, Config, Entries
<1>3. Entries(Defaulted(cfg, n)) = Entries(cfg) /\ Defaulted(cfg, n).current = n
  BY DEF Defaulted, Config, Entries
<1>4. ASSUME Has(cfg, n) PROVE n \in {entry[1] : entry \in Entries(cfg)}
  <2>1. cfg.profiles[n] \in Settings
    BY <1>4 DEF Has, Config
  <2>2. <<n, cfg.profiles[n]>> \in Entries(cfg)
    BY <2>1 DEF Entries
  <2> QED BY <2>2
<1>5. Entries(Empty) = {}
  BY NameAssumption DEF Entries, Empty
<1> QED BY <1>1, <1>2, <1>3, <1>4, <1>5

(* Committed is the snapshot of the process that has cut the file, or the  *)
(* file.                                                                   *)
LEMMA CommittedIs ==
  ASSUME TypeOK, \A p, q \in Procs : pc[p] = "cut" /\ pc[q] = "cut" => p = q
  PROVE  /\ \A p \in Procs : pc[p] = "cut" => Committed = mem[p]
         /\ (\A p \in Procs : pc[p] # "cut") => Committed = disk.cfg
BY DEF Committed

(* Each step leaves what is committed, makes one change or loses it all.   *)
CommitStep == Committed' = Committed \/ Committed' = Empty \/ Made(Committed', Committed)

LEMMA AlonePrepares ==
  ASSUME TypeOK, Alone, alone, NEW p \in Procs, NEW cfg \in Config, Prepares(p, cfg),
         Made(cfg, disk.cfg)
  PROVE  Alone' /\ Committed' = Committed
<1>1. /\ pc' = [pc EXCEPT ![p] = "loaded"] /\ mem' = [mem EXCEPT ![p] = cfg]
      /\ disk' = disk /\ \A q \in Procs : pc[q] = "idle"
  BY DEF Prepares
<1>2. \A q \in Procs : pc'[q] = (IF q = p THEN "loaded" ELSE "idle") /\ (q = p => mem'[q] = cfg)
  BY <1>1 DEF TypeOK
<1>3. Alone'
  <2>1. Made(mem'[p], disk'.cfg)
    BY <1>1, <1>2 DEF Made, Has
  <2> QED BY <1>2, <2>1 DEF Alone
<1>4. Committed = disk.cfg /\ Committed' = disk'.cfg
  BY <1>1, <1>2 DEF Committed
<1> QED BY <1>1, <1>3, <1>4

LEMMA AloneWrites ==
  ASSUME TypeOK, Alone, alone, NEW p \in Procs, Cut(p) \/ Write(p) \/ Stops(p)
  PROVE  Alone' /\ CommitStep
<1>1. pc[p] # "idle" /\ \A q \in Procs : q # p => pc[q] = "idle"
  BY DEF Cut, Write, Stops, Alone
<1>2. CASE Cut(p)
  <2>1. /\ pc[p] = "loaded" /\ pc' = [pc EXCEPT ![p] = "cut"] /\ mem' = mem
        /\ disk' = File("cut", Empty)
    BY <1>2 DEF Cut
  <2>2. \A q \in Procs : pc'[q] = IF q = p THEN "cut" ELSE "idle"
    BY <1>1, <2>1 DEF TypeOK
  <2>3. Committed = disk.cfg
    BY <1>1, <2>1 DEF Committed
  <2>4. Committed' = mem[p]
    BY <2>1, <2>2 DEF Committed
  <2>5. Made(Committed', Committed)
    BY <2>1, <2>3, <2>4 DEF Alone
  <2> QED BY <2>1, <2>2, <2>5 DEF Alone, CommitStep
<1>3. CASE Write(p)
  <2>1. pc[p] = "cut" /\ disk = File("cut", Empty)
    BY <1>3 DEF Write, Alone
  <2>2. disk' = File("whole", mem[p]) /\ pc' = [pc EXCEPT ![p] = "idle"]
    BY <1>3, <2>1 DEF Write, File, Finish
  <2>3. \A q \in Procs : pc'[q] = "idle"
    BY <1>1, <2>2 DEF TypeOK
  <2>4. Committed = mem[p]
    BY <1>1, <2>1 DEF Committed
  <2>5. Committed' = mem[p]
    BY <2>2, <2>3 DEF Committed, File
  <2> QED BY <2>3, <2>4, <2>5 DEF Alone, CommitStep
<1>4. CASE Stops(p)
  <2>1. pc' = [pc EXCEPT ![p] = "idle"] /\ disk' = disk
    BY <1>4 DEF Stops, Finish
  <2>2. \A q \in Procs : pc'[q] = "idle"
    BY <1>1, <2>1 DEF TypeOK
  <2>3. Committed' = disk.cfg
    BY <2>1, <2>2 DEF Committed
  <2>4. CASE pc[p] = "cut"
    BY <2>2, <2>3, <2>4 DEF Alone, CommitStep, File
  <2>5. CASE pc[p] = "loaded"
    <3>1. Committed = disk.cfg
      BY <1>1, <2>5 DEF Committed
    <3> QED BY <2>2, <2>3, <3>1 DEF Alone, CommitStep
  <2> QED BY <1>1, <2>4, <2>5 DEF TypeOK
<1> QED BY <1>2, <1>3, <1>4

LEMMA AloneKeeps ==
  ASSUME TypeOK, Alone, [Next]_vars
  PROVE  alone' = alone /\ Alone' /\ (alone => CommitStep)
<1>1. alone' = alone
  BY DEF Next, Save, Remove, SetDefault, Prepares, Cut, Write, Stops, vars
<1>2. CASE ~alone
  BY <1>1, <1>2 DEF Alone
<1>3. CASE alone
  <2>1. ASSUME NEW p \in Procs, NEW n \in Names, NEW s \in Settings, Save(p, n, s)
        PROVE Alone' /\ CommitStep
    <3>1. Saved(disk.cfg, n, s) \in Config /\ Made(Saved(disk.cfg, n, s), disk.cfg)
      BY DEF Made, Saved, Config, TypeOK
    <3> QED BY <1>3, <2>1, <3>1, AlonePrepares DEF Save, Loaded, CommitStep
  <2>2. ASSUME NEW p \in Procs, NEW n \in Names, Remove(p, n)
        PROVE Alone' /\ CommitStep
    <3>1. Removed(disk.cfg, n) \in Config /\ Made(Removed(disk.cfg, n), disk.cfg)
      BY <2>2 DEF Made, Removed, Config, TypeOK, Remove, Loaded
    <3> QED BY <1>3, <2>2, <3>1, AlonePrepares DEF Remove, Loaded, CommitStep
  <2>3. ASSUME NEW p \in Procs, NEW n \in Names, SetDefault(p, n)
        PROVE Alone' /\ CommitStep
    <3>1. Defaulted(disk.cfg, n) \in Config /\ Made(Defaulted(disk.cfg, n), disk.cfg)
      BY <2>3 DEF Made, Defaulted, Config, TypeOK, SetDefault, Loaded
    <3> QED BY <1>3, <2>3, <3>1, AlonePrepares DEF SetDefault, Loaded, CommitStep
  <2>4. ASSUME UNCHANGED vars PROVE Alone' /\ CommitStep
    BY <2>4 DEF vars, Alone, Made, Has, CommitStep, Committed
  <2> QED BY <1>1, <1>3, <2>1, <2>2, <2>3, <2>4, AloneWrites DEF Next
<1> QED BY <1>1, <1>2, <1>3

(* Under the mapping a commit is a step of the registry.                   *)
LEMMA CommitRefines ==
  ASSUME Committed \in Config, alone, alone' = alone, CommitStep
  PROVE  [User!RegistryNext]_User!registryVars
<1>1. /\ {entry \in Names \X Settings : entry[2] = Committed.profiles[entry[1]]} = Entries(Committed)
      /\ {entry \in Names \X Settings : entry[2] = Committed'.profiles[entry[1]]} = Entries(Committed')
  BY DEF Entries
<1>2. CASE Committed' = Committed
  BY <1>2 DEF User!registryVars
<1>3. CASE Committed' = Empty
  <2>1. Entries(Committed') = {} /\ Committed'.current = NoName
    BY <1>3, NameAssumption DEF Entries, Empty
  <2> QED BY <1>1, <2>1 DEF User!RegistryNext, User!Lose
<1>4. CASE Made(Committed', Committed)
  <2>1. PICK n \in Names :
          \/ \E s \in Settings : Committed' = Saved(Committed, n, s)
          \/ Has(Committed, n) /\ (Committed' = Removed(Committed, n) \/ Committed' = Defaulted(Committed, n))
    BY <1>4 DEF Made
  <2>2. ASSUME NEW s \in Settings, Committed' = Saved(Committed, n, s)
        PROVE  User!Put(n, s)
    BY <1>1, <2>2, EntriesMade DEF User!Put
  <2>3. ASSUME Has(Committed, n), Committed' = Removed(Committed, n)
        PROVE  User!Drop(n)
    BY <1>1, <2>3, EntriesMade DEF User!Drop, User!Named
  <2>4. ASSUME Has(Committed, n), Committed' = Defaulted(Committed, n)
        PROVE  User!Choose(n)
    BY <1>1, <2>4, EntriesMade DEF User!Choose, User!Named
  <2> QED BY <2>1, <2>2, <2>3, <2>4 DEF User!RegistryNext
<1> QED BY <1>2, <1>3, <1>4 DEF CommitStep

(* For any number of processes, names and settings: the store of a user    *)
(* who runs one icctl at a time is an atomic registry.                     *)
THEOREM IsRegistry == Spec => KeepsRegistry
<1>1. Init => User!RegistryInit
  <2>1. Init => Committed = Empty
    BY DEF Init, Committed, File
  <2>2. Entries(Empty) = {} /\ Empty.current = NoName
    BY NameAssumption DEF Entries, Empty
  <2> QED BY <2>1, <2>2 DEF User!RegistryInit, Entries
<1>2. Init => Alone
  BY DEF Init, Alone
<1>3. TypeOK /\ Alone /\ [Next]_vars => Alone' /\ [User!RegistryNext]_User!registryVars
  <2> SUFFICES ASSUME TypeOK, Alone, [Next]_vars
               PROVE  Alone' /\ [User!RegistryNext]_User!registryVars
    OBVIOUS
  <2>1. CASE alone
    <3>1. Committed \in Config
      BY <2>1, CommittedIs DEF TypeOK, Alone
    <3> QED BY <2>1, <3>1, AloneKeeps, CommitRefines
  <2>2. CASE ~alone
    BY <2>2, AloneKeeps DEF User!registryVars
  <2> QED BY <2>1, <2>2
<1> QED BY <1>1, <1>2, <1>3, TypeCorrect, PTL DEF Spec, KeepsRegistry, User!RegistrySpec
=============================================================================
