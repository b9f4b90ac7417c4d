------------------------ MODULE ProfileRegistryProofs ------------------------
(***************************************************************************)
(* Proofs about ProfileRegistry, for any set of ids and contents and any   *)
(* limit on the profiles: the inductive invariant IInv, the three safety   *)
(* properties that follow from it, and the refinement of AtomicChange.     *)
(***************************************************************************)
EXTENDS ProfileRegistry, TLAPS

USE RegistryAssumption, RegistryDistinct

-----------------------------------------------------------------------------
(* Registries. *)

\* The fields of a registry.
LEMMA RegistryFields ==
  ASSUME NEW r \in Registries
  PROVE  /\ r.default \in Ids /\ r.profiles \in [Ids -> Versions \cup {Absent}]
         /\ \A i \in Ids : r.profiles[i] \in Versions \cup {Absent}
         /\ r # NoRegistry /\ r # Broken
         /\ r = [default |-> r.default, profiles |-> r.profiles]
BY DEF Registries

\* Two registries with the same fields are one.
LEMMA RegistryOf ==
  ASSUME NEW d \in Ids, NEW f \in [Ids -> Versions \cup {Absent}]
  PROVE  \E r \in Registries : /\ r = [default |-> d, profiles |-> f]
                               /\ r.default = d /\ r.profiles = f
<1>1. PICK r : r = [default |-> d, profiles |-> f]
  OBVIOUS
<1>2. r \in Registries /\ r.default = d /\ r.profiles = f
  BY <1>1 DEF Registries
<1> QED
  BY <1>1, <1>2

\* Put changes one profile.
LEMMA PutFields ==
  ASSUME NEW r \in Registries, NEW i \in Ids, NEW v \in Versions \cup {Absent}
  PROVE  /\ Put(r, i, v) \in Registries /\ Put(r, i, v).default = r.default
         /\ Put(r, i, v).profiles[i] = v
         /\ \A j \in Ids : j # i => Put(r, i, v).profiles[j] = r.profiles[j]
<1>1. PICK f : f = [r.profiles EXCEPT ![i] = v]
  OBVIOUS
<1>2. /\ f \in [Ids -> Versions \cup {Absent}] /\ f[i] = v
      /\ \A j \in Ids : j # i => f[j] = r.profiles[j]
  BY <1>1, RegistryFields
<1>3. PICK q \in Registries : /\ q = [default |-> r.default, profiles |-> f]
                              /\ q.default = r.default /\ q.profiles = f
  BY <1>2, RegistryFields, RegistryOf
<1>4. Put(r, i, v) = q
  BY <1>1, <1>3, RegistryFields DEF Put, Registries
<1> QED
  BY <1>2, <1>3, <1>4

\* The other seed of the migration.
LEMMA SeedFields ==
  ASSUME NEW i \in Ids
  PROVE  localMigrationSeed(i) \in Ids /\ localMigrationSeed(i) # i
BY DEF localMigrationSeed

\* The types of an operation.
LEMMA OperationFields ==
  ASSUME NEW o \in Operations
  PROVE  /\ o.kind \in Kinds /\ o.at \in Points /\ o.id \in Ids
         /\ o.version \in Versions /\ o.old \in Registries \cup {NoRegistry}
         /\ o.wasUp \in BOOLEAN /\ o # NoOp
         /\ o.id # Legacy /\ o.version # Absent
BY DEF Operations, NoOp, Kinds

\* The first registry.
LEMMA FirstFields ==
  ASSUME NEW o \in Operations
  PROVE  /\ FirstRegistry(o) \in Registries /\ FirstRegistry(o).default = o.id
         /\ FirstRegistry(o).profiles[o.id] = o.version
         /\ \A j \in Ids : j # o.id => FirstRegistry(o).profiles[j] =
              IF ~override /\ j = localMigrationSeed(o.id) THEN Synthetic ELSE Absent
<1>1. o.id \in Ids /\ o.version \in Versions
  BY OperationFields
<1>2. PICK f : f = [i \in Ids |->
     CASE i = o.id -> o.version
       [] i # o.id /\ ~override /\ i = localMigrationSeed(o.id) -> Synthetic
       [] OTHER -> Absent]
  OBVIOUS
<1>3. /\ f[o.id] = o.version
      /\ \A j \in Ids : j # o.id => f[j] =
           IF ~override /\ j = localMigrationSeed(o.id) THEN Synthetic ELSE Absent
  BY <1>1, <1>2
<1>4. f \in [Ids -> Versions \cup {Absent}]
  <2>1. \A j \in Ids : f[j] \in Versions \cup {Absent}
    BY <1>1, <1>3
  <2> QED
    BY <1>2, <2>1
<1>5. PICK q \in Registries : /\ q = [default |-> o.id, profiles |-> f]
                              /\ q.default = o.id /\ q.profiles = f
  BY <1>1, <1>4, RegistryOf
<1>6. FirstRegistry(o) = q
  BY <1>2, <1>5 DEF FirstRegistry
<1> QED
  BY <1>3, <1>5, <1>6

\* The registry that starts with another default.
LEMMA DefaultFields ==
  ASSUME NEW r \in Registries, NEW i \in Ids
  PROVE  \E q \in Registries : /\ q = [r EXCEPT !.default = i]
                               /\ q.default = i /\ q.profiles = r.profiles
<1>1. PICK q \in Registries : /\ q = [default |-> i, profiles |-> r.profiles]
                              /\ q.default = i /\ q.profiles = r.profiles
  BY RegistryFields, RegistryOf
<1>2. q = [r EXCEPT !.default = i]
  BY <1>1 DEF Registries
<1> QED
  BY <1>1, <1>2

-----------------------------------------------------------------------------
(* The operation in progress. *)

\* What an operation is to produce, kind by kind.
LEMMA TargetFields ==
  ASSUME op \in Operations,
         op.kind # "create" => op.old \in Registries
  PROVE  /\ Target \in Registries \cup {NoRegistry}
         /\ op.kind = "create" =>
              /\ Target \in Registries
              /\ Target.default = IF op.old = NoRegistry THEN op.id ELSE op.old.default
              /\ Target.profiles[op.id] = op.version
              /\ \A j \in Ids : j # op.id => Target.profiles[j] =
                   IF op.old # NoRegistry THEN op.old.profiles[j]
                   ELSE IF ~override /\ j = localMigrationSeed(op.id) THEN Synthetic
                   ELSE Absent
         /\ op.kind = "update" =>
              /\ Target \in Registries /\ Target.default = op.old.default
              /\ Target.profiles[op.id] = op.version
              /\ \A j \in Ids : j # op.id => Target.profiles[j] = op.old.profiles[j]
         /\ op.kind = "remove" /\ Listed(op.old) = {op.id} => Target = NoRegistry
         /\ op.kind = "remove" /\ Listed(op.old) # {op.id} =>
              /\ Target \in Registries /\ Target.default = op.old.default
              /\ Target.profiles[op.id] = Absent
              /\ \A j \in Ids : j # op.id => Target.profiles[j] = op.old.profiles[j]
         /\ op.kind = "setDefault" =>
              /\ Target \in Registries /\ Target.default = op.id
              /\ Target.profiles = op.old.profiles
<1>1. /\ op.kind \in Kinds /\ op.id \in Ids /\ op.version \in Versions
      /\ op.old \in Registries \cup {NoRegistry}
  BY OperationFields
<1>2. CASE op.kind = "create" /\ op.old = NoRegistry
  <2>1. Target = FirstRegistry(op)
    BY <1>2 DEF Target, nextRegistry
  <2> QED
    BY <1>2, <2>1, FirstFields
<1>3. CASE op.kind = "create" /\ op.old # NoRegistry
  <2>1. Target = Put(op.old, op.id, op.version)
    BY <1>3 DEF Target, nextRegistry
  <2>2. PICK r \in Registries, i \in Ids, v \in Versions \cup {Absent} :
          r = op.old /\ i = op.id /\ v = op.version
    BY <1>1, <1>3
  <2>3. /\ Put(r, i, v) \in Registries /\ Put(r, i, v).default = r.default
        /\ Put(r, i, v).profiles[i] = v
        /\ \A j \in Ids : j # i => Put(r, i, v).profiles[j] = r.profiles[j]
    BY PutFields
  <2>4. Target = Put(r, i, v)
    BY <2>1, <2>2
  <2> QED
    BY <1>3, <2>2, <2>3, <2>4, RegistryFields
<1>4. CASE op.kind = "update"
  <2>1. Target = Put(op.old, op.id, op.version)
    BY <1>4 DEF Target, nextRegistry
  <2>2. PICK r \in Registries, i \in Ids, v \in Versions \cup {Absent} :
          r = op.old /\ i = op.id /\ v = op.version
    BY <1>1, <1>4
  <2>3. /\ Put(r, i, v) \in Registries /\ Put(r, i, v).default = r.default
        /\ Put(r, i, v).profiles[i] = v
        /\ \A j \in Ids : j # i => Put(r, i, v).profiles[j] = r.profiles[j]
    BY PutFields
  <2>4. Target = Put(r, i, v)
    BY <2>1, <2>2
  <2> QED
    BY <1>4, <2>2, <2>3, <2>4, RegistryFields
<1>5. CASE op.kind = "remove" /\ Listed(op.old) = {op.id}
  BY <1>5 DEF Target, nextRegistry
<1>6. CASE op.kind = "remove" /\ Listed(op.old) # {op.id}
  <2>1. Target = Put(op.old, op.id, Absent)
    BY <1>6 DEF Target, nextRegistry
  <2>2. PICK r \in Registries, i \in Ids, v \in Versions \cup {Absent} :
          r = op.old /\ i = op.id /\ v = Absent
    BY <1>1, <1>6
  <2>3. /\ Put(r, i, v) \in Registries /\ Put(r, i, v).default = r.default
        /\ Put(r, i, v).profiles[i] = v
        /\ \A j \in Ids : j # i => Put(r, i, v).profiles[j] = r.profiles[j]
    BY PutFields
  <2>4. Target = Put(r, i, v)
    BY <2>1, <2>2
  <2> QED
    BY <1>6, <2>2, <2>3, <2>4, RegistryFields
<1>7. CASE op.kind = "setDefault"
  <2>1. Target = [op.old EXCEPT !.default = op.id]
    BY <1>7 DEF Target, nextRegistry
  <2>2. PICK q \in Registries : /\ q = [op.old EXCEPT !.default = op.id]
                                /\ q.default = op.id /\ q.profiles = op.old.profiles
    BY <1>1, <1>7, DefaultFields
  <2> QED
    BY <1>7, <2>1, <2>2
<1> QED
  BY <1>1, <1>2, <1>3, <1>4, <1>5, <1>6, <1>7 DEF Kinds

\* An operation goes on to the point p.
LEMMA ContinueMoves ==
  ASSUME op \in Operations, NEW p \in Points, Continue(p), UNCHANGED override
  PROVE  /\ op' \in Operations /\ op' # NoOp /\ op'.at = p /\ op'.kind = op.kind
         /\ op'.id = op.id /\ op'.version = op.version /\ op'.old = op.old
         /\ op'.wasUp = op.wasUp /\ Target' = Target /\ acked' = acked
         /\ Migrating(op)' <=> Migrating(op)
<1>1. op' = [op EXCEPT !.at = p] /\ acked' = acked
  BY DEF Continue
<1>2. /\ op' \in Operations /\ op'.at = p /\ op'.kind = op.kind
      /\ op'.id = op.id /\ op'.version = op.version /\ op'.old = op.old
      /\ op'.wasUp = op.wasUp
  BY <1>1 DEF Operations
<1>3. Target' = Target
  BY <1>2 DEF Target, nextRegistry, FirstRegistry, Put
<1>4. Migrating(op)' <=> Migrating(op)
  BY <1>2 DEF Migrating
<1> QED
  BY <1>1, <1>2, <1>3, <1>4, OperationFields

\* An operation is answered.
LEMMA EndMoves ==
  ASSUME op' = NoOp
  PROVE  /\ OpInv' /\ RegistryInv' /\ op'.kind = "none"
BY DEF OpInv, RegistryInv, NoOp

\* An operation is admitted.
LEMMA SubmitMoves ==
  ASSUME NEW kind \in Kinds, NEW p \in Points, NEW i \in Ids, NEW v \in Versions,
         NEW was \in BOOLEAN, registry \in Registries \cup {NoRegistry},
         Submit(kind, p, i, v, was)
  PROVE  /\ op' \in Operations /\ op' # NoOp /\ op'.at = p /\ op'.kind = kind
         /\ op'.id = i /\ op'.version = v /\ op'.old = registry /\ acked' = acked
<1>1. op' \in Operations
  BY DEF Submit, Operations
<1> QED
  BY <1>1, OperationFields DEF Submit

-----------------------------------------------------------------------------
(* Startup, crash and shutdown. *)

\* What the service and the manager make of a file.
LEMMA BootFields ==
  ASSUME NEW d \in Registries \cup {NoRegistry, Broken}, Routed(d), NEW o \in BOOLEAN
  PROVE  /\ BootRegistry(d) \in Registries \cup {NoRegistry} /\ Routed(BootRegistry(d))
         /\ BootProfiles(d, o) \in [AllIds -> Versions \cup {Absent}]
         /\ \A i \in Ids : BootProfiles(d, o)[i] =
              IF BootRegistry(d) = NoRegistry THEN Absent ELSE BootRegistry(d).profiles[i]
         /\ BootProfiles(d, o)[Legacy] =
              IF o \/ BootRegistry(d) = NoRegistry THEN Synthetic ELSE Absent
         /\ BootDefault(d, o) \in AllIds
         /\ BootDefault(d, o) = BootDefault(BootRegistry(d), o)
         /\ BootProfiles(d, o)[BootDefault(d, o)] # Absent
<1>1. BootRegistry(d) \in Registries \cup {NoRegistry} /\ Routed(BootRegistry(d))
  BY DEF BootRegistry, Routed
<1>2. d \in Registries => d # NoRegistry /\ d # Broken /\ d.default \in Ids
  BY RegistryFields
<1>3. \A i \in Ids : BootProfiles(d, o)[i] =
        IF BootRegistry(d) = NoRegistry THEN Absent ELSE BootRegistry(d).profiles[i]
  BY <1>2 DEF BootProfiles, BootRegistry, AllIds
<1>4. BootProfiles(d, o)[Legacy] =
        IF o \/ BootRegistry(d) = NoRegistry THEN Synthetic ELSE Absent
  BY <1>2 DEF BootProfiles, BootRegistry, AllIds
<1>5. /\ BootDefault(d, o) \in AllIds
      /\ BootDefault(d, o) = BootDefault(BootRegistry(d), o)
  BY <1>2 DEF BootDefault, BootRegistry, AllIds
<1>6. BootProfiles(d, o) \in [AllIds -> Versions \cup {Absent}]
  <2>1. \A i \in AllIds : BootProfiles(d, o)[i] \in Versions \cup {Absent}
    <3>1. \A i \in Ids : BootProfiles(d, o)[i] \in Versions \cup {Absent}
      BY <1>1, <1>3, RegistryFields
    <3> QED
      BY <1>4, <3>1 DEF AllIds
  <2> QED
    BY <2>1 DEF BootProfiles
<1>7. BootProfiles(d, o)[BootDefault(d, o)] # Absent
  <2>1. CASE o \/ d \in {NoRegistry, Broken}
    <3>1. BootRegistry(d) = NoRegistry \/ o
      BY <2>1 DEF BootRegistry
    <3> QED
      BY <2>1, <3>1, <1>4 DEF BootDefault
  <2>2. CASE ~(o \/ d \in {NoRegistry, Broken})
    <3>1. /\ BootRegistry(d) = d /\ BootDefault(d, o) = d.default
          /\ d \in Registries
      BY <2>2 DEF BootRegistry, BootDefault
    <3> QED
      BY <1>2, <1>3, <3>1 DEF Routed
  <2> QED
    BY <2>1, <2>2
<1> QED
  BY <1>1, <1>3, <1>4, <1>5, <1>6, <1>7

\* The first start.
LEMMA InitInv == Init => IInv
<1> SUFFICES ASSUME Init
    PROVE  IInv
  OBVIOUS
<1> USE DEF Init
<1>1. /\ disk \in Registries \cup {NoRegistry, Broken} /\ Routed(disk)
      /\ override \in BOOLEAN
  BY DEF Routed
<1>2. /\ registry \in Registries \cup {NoRegistry} /\ Routed(registry)
      /\ profiles \in [AllIds -> Versions \cup {Absent}]
      /\ \A i \in Ids : profiles[i] =
           IF registry = NoRegistry THEN Absent ELSE registry.profiles[i]
      /\ profiles[Legacy] = IF override \/ registry = NoRegistry THEN Synthetic ELSE Absent
      /\ default \in AllIds /\ default = BootDefault(registry, override)
      /\ profiles[default] # Absent
  BY <1>1, BootFields
<1>3. op.kind = "none"
  BY DEF NoOp
<1>4. TypeOK
  BY <1>1, <1>2 DEF TypeOK
<1>5. OpInv /\ RegistryInv /\ RoutedInv
  BY <1>1, <1>2 DEF OpInv, RegistryInv, RoutedInv
<1>6. ProfilesInv
  BY <1>2, <1>3 DEF ProfilesInv, Doing
<1>7. DiskInv
  BY <1>3 DEF DiskInv, Written, Doing
<1>8. FactoryInv /\ DefaultInv
  BY <1>2, <1>3 DEF FactoryInv, Factory, DefaultInv, Doing
<1>9. AckInv
  BY DEF AckInv
<1> QED
  BY <1>4, <1>5, <1>6, <1>7, <1>8, <1>9 DEF IInv

\* The process starts again from the file.
LEMMA RestartKeeps ==
  ASSUME IInv, Restart
  PROVE  IInv'
<1> USE DEF Restart
<1>1. /\ disk \in Registries \cup {NoRegistry, Broken} /\ Routed(disk)
      /\ override' \in BOOLEAN
  BY DEF IInv, TypeOK, RoutedInv
<1>2. /\ registry' \in Registries \cup {NoRegistry} /\ Routed(registry)'
      /\ profiles' \in [AllIds -> Versions \cup {Absent}]
      /\ \A i \in Ids : profiles'[i] =
           IF registry' = NoRegistry THEN Absent ELSE registry'.profiles[i]
      /\ profiles'[Legacy] =
           IF override' \/ registry' = NoRegistry THEN Synthetic ELSE Absent
      /\ default' \in AllIds /\ default' = BootDefault(registry', override')
      /\ profiles'[default'] # Absent
  <2>1. PICK o \in BOOLEAN : o = override'
    BY <1>1
  <2>2. registry' = BootRegistry(disk) /\ profiles' = BootProfiles(disk, o)
        /\ default' = BootDefault(disk, o)
    BY <2>1
  <2>3. Routed(registry)' <=> Routed(BootRegistry(disk))
    BY <2>2 DEF Routed
  <2> QED
    BY <1>1, <2>1, <2>2, <2>3, BootFields
<1>3. op'.kind = "none"
  BY DEF NoOp
<1>4. TypeOK'
  BY <1>1, <1>2 DEF TypeOK
<1>5. OpInv' /\ RegistryInv' /\ RoutedInv'
  BY <1>1, <1>2 DEF OpInv, RegistryInv, RoutedInv, Routed
<1>6. ProfilesInv'
  BY <1>2, <1>3 DEF ProfilesInv, Doing
<1>7. DiskInv'
  BY <1>3 DEF DiskInv, Written, Doing, BootRegistry
<1>8. FactoryInv' /\ DefaultInv'
  <2>1. \A i \in AllIds : Factory(i)' = profiles'[i]
    BY <1>3 DEF Factory, Doing
  <2> QED
    BY <1>2, <2>1 DEF FactoryInv, DefaultInv, BootDefault
<1>9. AckInv'
  BY DEF AckInv
<1> QED
  BY <1>4, <1>5, <1>6, <1>7, <1>8, <1>9 DEF IInv

\* Steps that change up, and stopping at most.
LEMMA StillKeeps ==
  ASSUME IInv, UNCHANGED <<disk, registry, profiles, disabled, factory, default,
                           override, op, acked>>,
         stopping' \in BOOLEAN, stopping => stopping', up' \in [AllIds -> BOOLEAN]
  PROVE  IInv'
<1> USE DEF IInv
<1>1. TypeOK'
  BY DEF TypeOK
<1>2. Target' = Target /\ (Migrating(op)' <=> Migrating(op))
  BY DEF Target, nextRegistry, FirstRegistry, Put, Migrating
<1>3. OpInv'
  BY <1>2 DEF OpInv, Doing, Listed
<1>4. RegistryInv' /\ RoutedInv' /\ ProfilesInv' /\ DiskInv'
  BY <1>2 DEF RegistryInv, RoutedInv, Routed, ProfilesInv, DiskInv, Written, Doing, BootRegistry
<1>5. FactoryInv' /\ DefaultInv' /\ AckInv'
  <2>1. \A i \in AllIds : Factory(i)' = Factory(i)
    BY DEF Factory, Doing
  <2> QED
    BY <2>1 DEF FactoryInv, DefaultInv, AckInv, BootDefault
<1> QED
  BY <1>1, <1>3, <1>4, <1>5

\* The shutdown begins, and connections come and go.
LEMMA StopAllKeeps ==
  ASSUME IInv, stopAll
  PROVE  IInv'
<1>1. up' \in [AllIds -> BOOLEAN] /\ stopping' = TRUE
  BY DEF stopAll
<1> QED
  BY <1>1, StillKeeps DEF stopAll, serviceVars

\* connect() and disconnect() of an id.
LEMMA LinkKeeps ==
  ASSUME IInv, NEW i \in AllIds, connect(i) \/ GoesDown(i)
  PROVE  IInv'
<1>1. up' \in [AllIds -> BOOLEAN] /\ stopping' = stopping /\ stopping \in BOOLEAN
  BY DEF connect, GoesDown, processVars, IInv, TypeOK
<1> QED
  BY <1>1, StillKeeps DEF connect, GoesDown, serviceVars, processVars

-----------------------------------------------------------------------------
(* Steps that touch neither file nor memory. *)

\* An operation is in progress.
LEMMA InProgress ==
  ASSUME IInv, op.kind \in Kinds
  PROVE  /\ op \in Operations /\ op # NoOp
         /\ op.kind # "create" => op.old \in Registries
         /\ disk # Broken
<1>1. op # NoOp
  BY DEF NoOp, Kinds
<1> QED
  BY <1>1 DEF IInv, TypeOK, OpInv, DiskInv, Written

\* An operation is answered or rejected, and the views are at one already.
LEMMA QuietEndKeeps ==
  ASSUME IInv, op' = NoOp, acked' \in Registries \cup {NoRegistry, Broken},
         UNCHANGED <<disk, registry, profiles, factory, default, override, stopping>>,
         disabled' \in BOOLEAN, disk # Broken, up' \in [AllIds -> BOOLEAN],
         disabled => disabled', Written => stopping /\ disabled',
         stopping \/ ~Doing("remove", {"save"}),
         ~Doing("create", {"legacy"}),
         ~disabled' => acked' = disk
  PROVE  IInv'
<1> USE DEF IInv
<1>1. OpInv' /\ RegistryInv' /\ op'.kind = "none"
  BY EndMoves
<1>2. TypeOK'
  BY DEF TypeOK
<1>3. RoutedInv'
  BY DEF RoutedInv, Routed
<1>4. ProfilesInv' /\ DiskInv'
  BY <1>1 DEF ProfilesInv, DiskInv, Written, Doing, BootRegistry
<1>5. FactoryInv'
  <2>1. ~stopping => \A i \in AllIds : Factory(i)' = Factory(i)
    BY <1>1 DEF Factory, Doing, Written, NoOp
  <2> QED
    BY <2>1 DEF FactoryInv
<1>6. DefaultInv' /\ AckInv'
  BY DEF DefaultInv, AckInv, BootDefault
<1> QED
  BY <1>1, <1>2, <1>3, <1>4, <1>5, <1>6

\* An operation is admitted.
LEMMA SubmitKeeps ==
  ASSUME IInv, op = NoOp, ~disabled,
         NEW kind \in Kinds, NEW p \in Points, NEW i \in Ids, NEW v \in Versions,
         NEW was \in BOOLEAN, Submit(kind, p, i, v, was),
         \/ kind = "create" /\ p = "save"
         \/ kind = "update" /\ p \in {"test", "save"}
         \/ kind = "remove" /\ p = "unregister"
         \/ kind = "setDefault" /\ p = "save",
         kind # "create" => profiles[i] # Absent,
         kind = "remove" => default # i /\ (Listed(registry) = {i} => override),
         kind = "setDefault" => ~override,
         up' \in [AllIds -> BOOLEAN],
         UNCHANGED <<disk, registry, profiles, disabled, factory, default, override,
                     stopping>>
  PROVE  IInv'
<1> USE DEF IInv
<1>1. /\ op' \in Operations /\ op' # NoOp /\ op'.at = p /\ op'.kind = kind
      /\ op'.id = i /\ op'.version = v /\ op'.old = registry /\ acked' = acked
  BY SubmitMoves DEF TypeOK
<1>2. op.kind = "none"
  BY DEF NoOp
<1>3. TypeOK'
  BY <1>1 DEF TypeOK
<1>4. kind # "create" => registry \in Registries /\ registry.profiles[i] # Absent
  BY DEF ProfilesInv, TypeOK
<1>5. OpInv'
  <2>1. Listed(op'.old) = Listed(registry)
    BY <1>1 DEF Listed
  <2> QED
    BY <1>1, <1>4, <2>1 DEF OpInv, Doing, Listed
<1>6. RoutedInv'
  BY <1>1 DEF RoutedInv, Routed
<1>7. RegistryInv'
  BY <1>1 DEF RegistryInv, Doing
<1>8. ProfilesInv'
  BY <1>1, <1>2 DEF ProfilesInv, Doing
<1>9. DiskInv'
  BY <1>1, <1>2 DEF DiskInv, Written, Doing, BootRegistry
<1>10. FactoryInv'
  <2>1. \A j \in AllIds : Factory(j)' = Factory(j)
    BY <1>1, <1>2 DEF Factory, Doing
  <2> QED
    BY <2>1 DEF FactoryInv
<1>11. DefaultInv'
  BY DEF DefaultInv, BootDefault
<1>12. AckInv'
  BY <1>1, <1>2 DEF AckInv, DiskInv, Written, BootRegistry, Doing
<1> QED
  BY <1>3, <1>5, <1>6, <1>7, <1>8, <1>9, <1>10, <1>11, <1>12

\* An operation goes on, and nothing else changes.
LEMMA QuietContinueKeeps ==
  ASSUME IInv, op.kind \in Kinds, NEW p \in Points, Continue(p),
         \/ Doing("create", {"seed"}) /\ p = "start"
         \/ Doing("update", {"test"}) /\ p = "save"
         \/ Doing("update", {"restore"}) /\ p = "restart",
         up' \in [AllIds -> BOOLEAN],
         UNCHANGED <<disk, registry, profiles, disabled, factory, default, override,
                     stopping>>
  PROVE  IInv'
<1> USE DEF IInv
<1>0. op \in Operations /\ op # NoOp
  BY InProgress
<1>1. /\ op' \in Operations /\ op' # NoOp /\ op'.at = p /\ op'.kind = op.kind
      /\ op'.id = op.id /\ op'.version = op.version /\ op'.old = op.old
      /\ Target' = Target /\ acked' = acked
  BY <1>0, ContinueMoves
<1>2. TypeOK'
  BY <1>1 DEF TypeOK
<1>3. OpInv'
  <2>1. Listed(op'.old) = Listed(op.old)
    BY <1>1 DEF Listed
  <2> QED
    BY <1>0, <1>1, <2>1 DEF OpInv, Doing, Listed
<1>4. RoutedInv'
  BY <1>0, <1>1 DEF RoutedInv, Routed
<1>5. RegistryInv'
  BY <1>0, <1>1 DEF RegistryInv, Doing
<1>6. ProfilesInv' /\ DiskInv'
  BY <1>0, <1>1 DEF ProfilesInv, DiskInv, Written, Doing, BootRegistry
<1>7. FactoryInv'
  <2>1. \A i \in AllIds : Factory(i)' = Factory(i)
    BY <1>1 DEF Factory, Doing
  <2> QED
    BY <2>1 DEF FactoryInv
<1>8. DefaultInv' /\ AckInv'
  BY <1>0, <1>1 DEF DefaultInv, AckInv, BootDefault
<1> QED
  BY <1>2, <1>3, <1>4, <1>5, <1>6, <1>7, <1>8

\* Outside the middle of a change the file is the registry.
LEMMA DiskIsRegistry ==
  ASSUME IInv, op.kind \in Kinds, op.at # "retire", ~Written
  PROVE  disk = registry
<1>1. ~disabled
  BY InProgress DEF IInv, OpInv
<1> QED
  BY <1>1, InProgress DEF IInv, DiskInv, Written, BootRegistry

\* What an operation began with was answered last.
LEMMA OldIsAnswered ==
  ASSUME IInv, op.kind \in Kinds, op.at # "retire"
  PROVE  acked = op.old /\ ~disabled
<1>1. ~disabled
  BY InProgress DEF IInv, OpInv
<1> QED
  BY <1>1, InProgress DEF IInv, AckInv

\* The requests.
LEMMA RequestsKeep ==
  ASSUME IInv, Requests
  PROVE  IInv'
<1> USE DEF Idle, serviceVars, managerVars, processVars
<1>0. up \in [AllIds -> BOOLEAN] /\ Ids \subseteq AllIds
  BY DEF IInv, TypeOK, AllIds
<1>1. ASSUME NEW i \in Ids, NEW v \in Versions, create(i, v) PROVE IInv'
  BY <1>0, <1>1, SubmitKeeps DEF create, Kinds, Points
<1>2. ASSUME NEW i \in Ids, NEW v \in Versions, update(i, v) PROVE IInv'
  <2>1. PICK was \in BOOLEAN : was = up[i]
    BY <1>0
  <2>2. Submit("update", "save", i, v, was) \/ Submit("update", "test", i, v, TRUE)
    BY <1>2, <2>1 DEF update
  <2>3. CASE Submit("update", "save", i, v, was)
    BY <1>0, <1>2, <2>3, SubmitKeeps DEF update, Kinds, Points
  <2>4. CASE Submit("update", "test", i, v, TRUE)
    BY <1>0, <1>2, <2>4, SubmitKeeps DEF update, Kinds, Points
  <2> QED
    BY <2>2, <2>3, <2>4
<1>3. ASSUME NEW i \in Ids, remove(i) PROVE IInv'
  <2>1. PICK was \in BOOLEAN : was = up[i]
    BY <1>0
  <2>2. PICK v \in Versions : v = profiles[i]
    BY <1>0, <1>3 DEF remove, IInv, TypeOK
  <2>3. Submit("remove", "unregister", i, v, was)
    BY <1>3, <2>1, <2>2 DEF remove
  <2>4. up' \in [AllIds -> BOOLEAN]
    BY <1>0, <1>3 DEF remove
  <2> QED
    BY <1>3, <2>3, <2>4, SubmitKeeps DEF remove, Kinds, Points
<1>4. ASSUME NEW i \in Ids, setDefault(i) PROVE IInv'
  <2>1. PICK v \in Versions : v = profiles[i]
    BY <1>0, <1>4 DEF setDefault, IInv, TypeOK
  <2>2. Submit("setDefault", "save", i, v, FALSE)
    BY <1>4, <2>1 DEF setDefault
  <2> QED
    BY <1>0, <1>4, <2>2, SubmitKeeps DEF setDefault, Kinds, Points
<1>5. ASSUME NEW i \in AllIds, connect(i) \/ GoesDown(i) PROVE IInv'
  BY <1>5, LinkKeeps
<1> QED
  BY <1>1, <1>2, <1>3, <1>4, <1>5 DEF Requests

\* Where a start leaves the connections.
LEMMA StartTypes ==
  ASSUME IInv, NEW i \in AllIds, NEW ok \in BOOLEAN, StartSettles(i, ok)
  PROVE  up' \in [AllIds -> BOOLEAN]
BY DEF IInv, TypeOK, StartSettles

\* Steps that end an operation without a further write.
LEMMA QuietEndsKeep ==
  ASSUME IInv,
         \/ SaveFails \/ RollbackFails \/ UpdateRetired
         \/ \E ok \in BOOLEAN : \/ CreateStarted(ok) \/ UpdateRestarted(ok)
                                \/ Recovered(ok)
  PROVE  IInv'
<1> USE DEF serviceVars, managerVars, processVars
<1>0. /\ up \in [AllIds -> BOOLEAN] /\ Ids \subseteq AllIds
      /\ acked \in Registries \cup {NoRegistry, Broken} /\ disabled \in BOOLEAN
  BY DEF IInv, TypeOK, AllIds
<1>1. CASE SaveFails
  <2>1. /\ op.kind \in Kinds /\ op.at = "save" /\ op.kind # "remove"
        /\ op' = NoOp /\ acked' = acked
        /\ UNCHANGED <<disk, registry, profiles, disabled, factory, default, up,
                       override, stopping>>
    BY <1>1 DEF SaveFails, At, Reject, Kinds
  <2>2. ~disabled => acked = disk
    BY <2>1, InProgress, DiskIsRegistry, OldIsAnswered DEF IInv, RegistryInv, Doing, Written
  <2> QED
    BY <1>0, <2>1, <2>2, InProgress, QuietEndKeeps DEF Doing, Written
<1>2. CASE RollbackFails
  <2>1. /\ op.kind \in {"create", "setDefault"} /\ op.at = "rollback"
        /\ op' = NoOp /\ acked' = acked /\ disabled' = TRUE
        /\ UNCHANGED <<disk, registry, profiles, factory, default, up,
                       override, stopping>>
    BY <1>2 DEF RollbackFails, At, Reject
  <2>2. op.kind \in Kinds
    BY <2>1 DEF Kinds
  <2>3. stopping
    BY <2>1, <2>2, InProgress DEF IInv, OpInv
  <2> QED
    BY <1>0, <2>1, <2>2, <2>3, InProgress, QuietEndKeeps DEF Doing, Written
<1>3. CASE UpdateRetired
  <2>1. /\ op.kind = "update" /\ op.at = "retire"
        /\ op' = NoOp /\ acked' = acked
        /\ UNCHANGED <<disk, registry, profiles, disabled, factory, default, up,
                       override, stopping>>
    BY <1>3 DEF UpdateRetired, At, Reject
  <2>2. op.kind \in Kinds
    BY <2>1 DEF Kinds
  <2>3. disabled
    BY <2>1, <2>2, InProgress DEF IInv, OpInv
  <2> QED
    BY <1>0, <2>1, <2>2, <2>3, InProgress, QuietEndKeeps DEF Doing, Written
<1>4. ASSUME NEW ok \in BOOLEAN, CreateStarted(ok) PROVE IInv'
  <2>1. /\ op.kind = "create" /\ op.at = "start"
        /\ op' = NoOp /\ acked' = Target /\ StartSettles(op.id, ok)
        /\ UNCHANGED <<disk, registry, profiles, disabled, factory, default,
                       override, stopping>>
    BY <1>4 DEF CreateStarted, At, Acknowledge, Target
  <2>2. op.kind \in Kinds
    BY <2>1 DEF Kinds
  <2>3. op \in Operations /\ Target \in Registries
    BY <2>1, <2>2, InProgress, TargetFields
  <2>4. up' \in [AllIds -> BOOLEAN]
    BY <1>0, <2>1, <2>3, OperationFields, StartTypes
  <2>5. Target = disk
    BY <2>1, <2>2, InProgress, DiskIsRegistry DEF IInv, RegistryInv, Doing, Written
  <2> QED
    BY <1>0, <2>1, <2>2, <2>3, <2>4, <2>5, InProgress, QuietEndKeeps DEF Doing, Written
<1>5. ASSUME NEW ok \in BOOLEAN, UpdateRestarted(ok) \/ Recovered(ok) PROVE IInv'
  <2>1. /\ \/ op.kind = "update" /\ op.at = "restart"
           \/ op.kind = "remove" /\ op.at = "recover"
        /\ op' = NoOp /\ acked' = acked /\ StartSettles(op.id, ok)
        /\ UNCHANGED <<disk, registry, profiles, disabled, factory, default,
                       override, stopping>>
    <3>1. CASE UpdateRestarted(ok)
      BY <3>1 DEF UpdateRestarted, At, Reject
    <3>2. CASE Recovered(ok)
      BY <3>2 DEF Recovered, At, Reject
    <3> QED
      BY <1>5, <3>1, <3>2
  <2>2. op.kind \in Kinds
    BY <2>1 DEF Kinds
  <2>3. up' \in [AllIds -> BOOLEAN]
    BY <1>0, <2>1, <2>2, InProgress, OperationFields, StartTypes
  <2>4. ~disabled => acked = disk
    BY <2>1, <2>2, InProgress, DiskIsRegistry, OldIsAnswered DEF IInv, RegistryInv, Doing, Written
  <2> QED
    BY <1>0, <2>1, <2>2, <2>3, <2>4, InProgress, QuietEndKeeps DEF Doing, Written
<1> QED
  BY <1>1, <1>2, <1>3, <1>4, <1>5

\* Steps between two awaits that only the connections notice.
LEMMA QuietContinuesKeep ==
  ASSUME IInv, NEW ok \in BOOLEAN,
         SeedStarted(ok) \/ UpdateTested(ok) \/ UpdateRestored(ok)
  PROVE  IInv'
<1> USE DEF serviceVars, managerVars, processVars
<1>0. /\ up \in [AllIds -> BOOLEAN] /\ Ids \subseteq AllIds
      /\ acked \in Registries \cup {NoRegistry, Broken} /\ disabled \in BOOLEAN
  BY DEF IInv, TypeOK, AllIds
<1>1. CASE SeedStarted(ok)
  <2>1. /\ op.kind = "create" /\ op.at = "seed" /\ op.kind \in Kinds
        /\ Continue("start") /\ StartSettles(localMigrationSeed(op.id), ok)
        /\ UNCHANGED <<disk, registry, profiles, disabled, factory, default,
                       override, stopping>>
    BY <1>1 DEF SeedStarted, At, Kinds
  <2>2. PICK i \in AllIds : i = localMigrationSeed(op.id)
    BY <1>0, <2>1, InProgress, OperationFields, SeedFields
  <2>3. up' \in [AllIds -> BOOLEAN]
    BY <2>1, <2>2, StartTypes
  <2> QED
    BY <2>1, <2>3, QuietContinueKeeps DEF Doing, Points
<1>2. CASE UpdateTested(ok)
  <2>1. /\ op.kind = "update" /\ op.at = "test" /\ op.kind \in Kinds
        /\ Continue("save") \/ (op' = NoOp /\ acked' = acked)
        /\ UNCHANGED <<disk, registry, profiles, disabled, factory, default, up,
                       override, stopping>>
    BY <1>2 DEF UpdateTested, At, Reject, Kinds
  <2>2. CASE Continue("save")
    BY <1>0, <2>1, <2>2, QuietContinueKeeps DEF Doing, Points
  <2>3. CASE op' = NoOp /\ acked' = acked
    <3>1. ~disabled => acked = disk
      BY <2>1, InProgress, DiskIsRegistry, OldIsAnswered DEF IInv, RegistryInv, Doing, Written
    <3> QED
      BY <1>0, <2>1, <2>3, <3>1, InProgress, QuietEndKeeps DEF Doing, Written
  <2> QED
    BY <2>1, <2>2, <2>3
<1>3. CASE UpdateRestored(ok)
  <2>1. /\ op.kind = "update" /\ op.at = "restore" /\ op.kind \in Kinds
        /\ Continue("restart") \/ (op' = NoOp /\ acked' = acked)
        /\ UNCHANGED <<disk, registry, profiles, disabled, factory, default, up,
                       override, stopping>>
    BY <1>3 DEF UpdateRestored, At, Reject, Kinds
  <2>2. CASE Continue("restart")
    BY <1>0, <2>1, <2>2, QuietContinueKeeps DEF Doing, Points
  <2>3. CASE op' = NoOp /\ acked' = acked
    <3>1. ~disabled => acked = disk
      BY <2>1, InProgress, DiskIsRegistry, OldIsAnswered DEF IInv, RegistryInv, Doing, Written
    <3> QED
      BY <1>0, <2>1, <2>3, <3>1, InProgress, QuietEndKeeps DEF Doing, Written
  <2> QED
    BY <2>1, <2>2, <2>3
<1> QED
  BY <1>1, <1>2, <1>3

-----------------------------------------------------------------------------
(* Steps that write. *)

\* What may be written has its default among its profiles.
LEMMA TargetRouted ==
  ASSUME IInv, op.kind \in Kinds, op.kind = "remove" => Writable(Target)
  PROVE  Routed(Target)
<1>0. /\ op \in Operations /\ op # NoOp /\ op.id \in Ids /\ op.version # Absent
      /\ op.kind # "create" => op.old \in Registries /\ op.old.profiles[op.id] # Absent
      /\ op.old \in Registries \cup {NoRegistry}
      /\ Routed(op.old)
  BY InProgress, OperationFields DEF IInv, OpInv, RoutedInv
<1>1. op.old \in Registries => op.old.default \in Ids /\ op.old # NoRegistry
  BY RegistryFields
<1>2. CASE op.kind = "create"
  <2>1. /\ Target \in Registries
        /\ Target.default = IF op.old = NoRegistry THEN op.id ELSE op.old.default
        /\ Target.profiles[op.id] = op.version
        /\ \A j \in Ids : j # op.id /\ op.old # NoRegistry
                            => Target.profiles[j] = op.old.profiles[j]
    BY <1>0, <1>2, TargetFields
  <2> QED
    BY <1>0, <1>1, <2>1 DEF Routed
<1>3. CASE op.kind = "update"
  <2>1. /\ Target.default = op.old.default /\ Target.profiles[op.id] = op.version
        /\ \A j \in Ids : j # op.id => Target.profiles[j] = op.old.profiles[j]
    BY <1>0, <1>3, TargetFields
  <2> QED
    BY <1>0, <1>1, <1>3, <2>1 DEF Routed
<1>4. CASE op.kind = "remove"
  <2> SUFFICES ASSUME Target \in Registries
      PROVE  Target.profiles[Target.default] # Absent
    BY DEF Routed
  <2>1. Valid(Target)
    BY <1>4, RegistryFields DEF Writable
  <2> QED
    BY <2>1 DEF Valid, Listed
<1>5. CASE op.kind = "setDefault"
  <2>1. Target.default = op.id /\ Target.profiles = op.old.profiles
    BY <1>0, <1>5, TargetFields
  <2> QED
    BY <1>0, <1>5, <2>1 DEF Routed
<1> QED
  BY <1>2, <1>3, <1>4, <1>5 DEF Kinds

\* The migration or the new profile, on top of f.
LEMMA WithCreatedFields ==
  ASSUME op \in Operations, Target \in Registries,
         NEW f \in [AllIds -> Versions \cup {Absent}]
  PROVE  /\ WithCreated(f) \in [AllIds -> Versions \cup {Absent}]
         /\ \A i \in AllIds : WithCreated(f)[i] =
              IF i = op.id \/ (Migrating(op) /\ i = localMigrationSeed(op.id))
              THEN Target.profiles[i] ELSE f[i]
<1>1. op.id \in Ids /\ localMigrationSeed(op.id) \in Ids
  BY OperationFields, SeedFields
<1>2. \A i \in AllIds : WithCreated(f)[i] =
        IF i = op.id \/ (Migrating(op) /\ i = localMigrationSeed(op.id))
        THEN Target.profiles[i] ELSE f[i]
  BY DEF WithCreated, Created, Target
<1>3. \A i \in AllIds : WithCreated(f)[i] \in Versions \cup {Absent}
  BY <1>1, <1>2, RegistryFields
<1> QED
  BY <1>2, <1>3 DEF WithCreated

\* The file of a create is written.
LEMMA CreateSavedKeeps ==
  ASSUME IInv, CreateSaved
  PROVE  IInv'
<1> USE DEF IInv
<1>0. Ids \subseteq AllIds /\ Legacy \in AllIds
  BY DEF AllIds
<1>1. /\ op.kind = "create" /\ op.at = "save" /\ op.kind \in Kinds
      /\ disk' = Target /\ UNCHANGED <<disabled, override, stopping>>
  BY DEF CreateSaved, At, processVars, Kinds, Target
<1>2. /\ op \in Operations /\ op # NoOp /\ op.id \in Ids /\ op.version \in Versions
      /\ op.version # Absent /\ op.id # Legacy
      /\ op.old \in Registries \cup {NoRegistry} /\ Routed(op.old)
      /\ registry = op.old
  BY <1>1, InProgress, OperationFields DEF RoutedInv, RegistryInv
<1>3. /\ Target \in Registries /\ Routed(Target)
      /\ Target # NoRegistry /\ Target # Broken /\ Target.default \in Ids
      /\ Target.default = IF op.old = NoRegistry THEN op.id ELSE op.old.default
      /\ Target.profiles[op.id] = op.version
      /\ \A j \in Ids : j # op.id => Target.profiles[j] =
           IF op.old # NoRegistry THEN op.old.profiles[j]
           ELSE IF ~override /\ j = localMigrationSeed(op.id) THEN Synthetic
           ELSE Absent
  <2>1. Target \in Registries
    BY <1>1, <1>2, TargetFields
  <2> QED
    BY <1>1, <1>2, <2>1, TargetFields, TargetRouted, RegistryFields
<1>4. CASE /\ stopping
           /\ Continue("rollback")
           /\ UNCHANGED <<registry, profiles, managerVars>>
  <2>1. UNCHANGED <<registry, profiles, factory, default, up>>
    BY <1>4 DEF managerVars
  <2>2. /\ op' \in Operations /\ op' # NoOp /\ op'.at = "rollback" /\ op'.kind = op.kind
        /\ op'.old = op.old /\ acked' = acked /\ Target' = Target
    BY <1>1, <1>2, <1>4, ContinueMoves DEF Points
  <2>3. TypeOK'
    BY <1>1, <1>3, <2>1, <2>2 DEF TypeOK
  <2>4. OpInv' /\ RoutedInv' /\ RegistryInv'
    BY <1>1, <1>2, <1>3, <1>4, <2>1, <2>2 DEF OpInv, RoutedInv, Routed, RegistryInv, Doing
  <2>5. ProfilesInv'
    BY <1>1, <2>1, <2>2 DEF ProfilesInv, Doing
  <2>6. DiskInv' /\ FactoryInv' /\ AckInv'
    BY <1>1, <1>2, <1>3, <1>4, <2>2 DEF DiskInv, Written, FactoryInv, AckInv
  <2>7. DefaultInv'
    BY <1>1, <1>4, <2>1 DEF DefaultInv
  <2> QED
    BY <2>3, <2>4, <2>5, <2>6, <2>7
<1>5. CASE /\ ~stopping
           /\ registry' = nextRegistry(op)
           /\ profiles' = WithCreated(profiles)
           /\ factory' = WithCreated(factory)
           /\ default' = IF Migrating(op) THEN op.id ELSE default
           /\ up' = IF Migrating(op) THEN [up EXCEPT ![Legacy] = FALSE] ELSE up
           /\ CreateGoesOn
  <2>1. registry' = Target /\ up' \in [AllIds -> BOOLEAN]
    BY <1>5 DEF Target, TypeOK
  <2>2. Migrating(op) <=> op.old = NoRegistry /\ ~override
    BY <1>1 DEF Migrating
  <2>3. /\ profiles' \in [AllIds -> Versions \cup {Absent}]
        /\ \A i \in AllIds : profiles'[i] =
             IF i = op.id \/ (Migrating(op) /\ i = localMigrationSeed(op.id))
             THEN Target.profiles[i] ELSE profiles[i]
    BY <1>2, <1>3, <1>5, WithCreatedFields DEF TypeOK
  <2>4. /\ factory' \in [AllIds -> Versions \cup {Absent}]
        /\ \A i \in AllIds : factory'[i] =
             IF i = op.id \/ (Migrating(op) /\ i = localMigrationSeed(op.id))
             THEN Target.profiles[i] ELSE factory[i]
    BY <1>2, <1>3, <1>5, WithCreatedFields DEF TypeOK
  <2>5. \A i \in AllIds : factory[i] = profiles[i]
    BY <1>1, <1>5 DEF FactoryInv, Factory, Doing
  <2>6. \A i \in Ids : profiles'[i] = Target.profiles[i]
    <3>1. \A i \in Ids : profiles[i] = IF op.old = NoRegistry THEN Absent
                                       ELSE op.old.profiles[i]
      BY <1>2 DEF ProfilesInv
    <3> QED
      BY <1>0, <1>3, <2>2, <2>3, <3>1
  <2>7. profiles'[Legacy] = IF override \/ op.old = NoRegistry THEN Synthetic ELSE Absent
    <3>1. localMigrationSeed(op.id) # Legacy
      BY <1>2, SeedFields
    <3>2. profiles'[Legacy] = profiles[Legacy]
      BY <1>0, <1>2, <2>3, <3>1
    <3> QED
      BY <1>1, <1>2, <3>2 DEF ProfilesInv, Doing
  <2>8. \/ Migrating(op) /\ Continue("legacy")
        \/ ~Migrating(op) /\ Continue("start")
        \/ ~Migrating(op) /\ op' = NoOp /\ acked' = Target
    BY <1>5 DEF CreateGoesOn, Acknowledge, Target
  <2>9. default' \in AllIds /\ default' = BootDefault(Target, override)
    <3>1. default = BootDefault(op.old, override)
      BY <1>2, <1>5 DEF DefaultInv
    <3>2. CASE Migrating(op)
      BY <1>0, <1>2, <1>3, <1>5, <2>2, <3>2 DEF BootDefault
    <3>3. CASE ~Migrating(op)
      <4>1. op.old = NoRegistry \/ op.old # Broken
        BY <1>2, RegistryFields
      <4> QED
        BY <1>0, <1>2, <1>3, <1>5, <2>2, <3>1, <3>3, <4>1 DEF BootDefault, TypeOK
    <3> QED
      BY <3>2, <3>3
  <2>10. factory'[default'] # Absent
    BY <1>0, <1>2, <1>3, <1>5, <2>4 DEF DefaultInv, TypeOK
  <2>11. \A i \in AllIds : factory'[i] = profiles'[i]
    BY <2>3, <2>4, <2>5
  <2>12. RoutedInv'
    <3>1. op' # NoOp => op'.old = op.old
      BY <1>1, <1>2, <2>8, ContinueMoves DEF Points
    <3> QED
      BY <1>1, <1>2, <1>3, <2>1, <3>1 DEF RoutedInv, Routed
  <2>13. ASSUME NEW p \in {"legacy", "start"}, Continue(p), p = "legacy" <=> Migrating(op)
         PROVE  IInv'
    <3>1. /\ op' \in Operations /\ op' # NoOp /\ op'.at = p /\ op'.kind = op.kind
          /\ op'.id = op.id /\ op'.old = op.old /\ acked' = acked /\ Target' = Target
          /\ Migrating(op)' <=> Migrating(op)
      BY <1>1, <1>2, <2>13, ContinueMoves DEF Points
    <3>2. TypeOK'
      BY <1>1, <1>3, <2>1, <2>3, <2>4, <2>9, <3>1 DEF TypeOK
    <3>3. OpInv'
      BY <1>1, <1>2, <1>5, <2>13, <3>1 DEF OpInv, Doing
    <3>4. RegistryInv'
      BY <1>1, <2>1, <3>1 DEF RegistryInv, Doing
    <3>5. ProfilesInv'
      BY <1>1, <1>3, <2>1, <2>2, <2>6, <2>7, <2>13, <3>1 DEF ProfilesInv, Doing
    <3>6. DiskInv'
      BY <1>1, <1>3, <2>1, <3>1 DEF DiskInv, Written, Doing, BootRegistry
    <3>7. FactoryInv'
      BY <1>1, <2>11, <3>1 DEF FactoryInv, Factory, Doing
    <3>8. DefaultInv'
      BY <1>1, <2>1, <2>9, <2>10 DEF DefaultInv, BootDefault
    <3>9. AckInv'
      BY <1>1, <1>2, <3>1 DEF AckInv
    <3> QED
      BY <2>12, <3>2, <3>3, <3>4, <3>5, <3>6, <3>7, <3>8, <3>9
  <2>14. CASE ~Migrating(op) /\ op' = NoOp /\ acked' = Target
    <3>1. OpInv' /\ RegistryInv' /\ op'.kind = "none"
      BY <2>14, EndMoves
    <3>2. TypeOK'
      BY <1>1, <1>3, <2>1, <2>3, <2>4, <2>9, <2>14 DEF TypeOK
    <3>3. ProfilesInv'
      BY <1>1, <1>3, <2>1, <2>2, <2>6, <2>7, <2>14, <3>1 DEF ProfilesInv, Doing
    <3>4. DiskInv'
      BY <1>1, <1>3, <2>1, <2>14, <3>1 DEF DiskInv, Written, Doing, BootRegistry
    <3>5. FactoryInv'
      BY <2>11, <3>1 DEF FactoryInv, Factory, Doing
    <3>6. DefaultInv' /\ AckInv'
      BY <1>1, <2>1, <2>9, <2>10, <2>14 DEF DefaultInv, BootDefault, AckInv
    <3> QED
      BY <2>12, <3>1, <3>2, <3>3, <3>4, <3>5, <3>6
  <2> QED
    BY <2>8, <2>13, <2>14
<1> QED
  BY <1>4, <1>5 DEF CreateSaved

\* The synthetic default leaves the manager and the service.
LEMMA LegacyUnregisteredKeeps ==
  ASSUME IInv, LegacyUnregistered
  PROVE  IInv'
<1> USE DEF IInv
<1>0. Legacy \in AllIds /\ Ids \subseteq AllIds
  BY DEF AllIds
<1>1. /\ op.kind = "create" /\ op.at = "legacy" /\ op.kind \in Kinds
      /\ factory' = [factory EXCEPT ![Legacy] = Absent]
      /\ profiles' = [profiles EXCEPT ![Legacy] = Absent]
      /\ Continue("seed")
      /\ UNCHANGED <<disk, registry, disabled, default, up, override, stopping>>
  BY DEF LegacyUnregistered, At, processVars, Kinds
<1>2. /\ op \in Operations /\ op # NoOp /\ op.id \in Ids /\ op.id # Legacy
      /\ Migrating(op) /\ default = op.id /\ registry = Target
      /\ Routed(op.old)
  BY <1>1, InProgress, OperationFields DEF OpInv, RegistryInv, RoutedInv
<1>3. Target \in Registries /\ Target # NoRegistry /\ ~override
  <2>1. Target \in Registries
    BY <1>1, <1>2, TargetFields
  <2> QED
    BY <1>2, <2>1, RegistryFields DEF Migrating
<1>4. /\ op' \in Operations /\ op' # NoOp /\ op'.at = "seed" /\ op'.kind = op.kind
      /\ op'.id = op.id /\ op'.old = op.old /\ acked' = acked /\ Target' = Target
      /\ Migrating(op)' <=> Migrating(op)
  BY <1>1, <1>2, ContinueMoves DEF Points
<1>5. TypeOK'
  BY <1>0, <1>1, <1>4 DEF TypeOK
<1>6. OpInv' /\ RegistryInv' /\ RoutedInv'
  BY <1>1, <1>2, <1>4 DEF OpInv, RegistryInv, RoutedInv, Routed, Doing
<1>7. ProfilesInv'
  BY <1>0, <1>1, <1>2, <1>3, <1>4 DEF ProfilesInv, Doing, TypeOK
<1>8. DiskInv'
  BY <1>1, <1>2, <1>4 DEF DiskInv, Written, Doing, BootRegistry
<1>9. FactoryInv'
  BY <1>0, <1>1, <1>4 DEF FactoryInv, Factory, Doing, TypeOK
<1>10. DefaultInv'
  BY <1>0, <1>1, <1>2 DEF DefaultInv, BootDefault, TypeOK
<1>11. AckInv'
  BY <1>1, <1>2, <1>4 DEF AckInv
<1> QED
  BY <1>5, <1>6, <1>7, <1>8, <1>9, <1>10, <1>11

\* What an update replaces, and by what.
LEMMA UpdateFields ==
  ASSUME IInv, op.kind = "update"
  PROVE  /\ op \in Operations /\ op # NoOp /\ op.kind \in Kinds
         /\ op.id \in Ids /\ op.id \in AllIds /\ op.id # Legacy
         /\ op.version \in Versions /\ op.version # Absent
         /\ op.old \in Registries /\ op.old # NoRegistry /\ op.old # Broken
         /\ op.old.profiles[op.id] \in Versions
         /\ op.old.profiles[op.id] # Absent /\ Routed(op.old)
         /\ Target \in Registries /\ Target # NoRegistry /\ Target # Broken
         /\ Routed(Target) /\ Target.default = op.old.default
         /\ Target.profiles[op.id] = op.version
         /\ \A j \in Ids : j # op.id => Target.profiles[j] = op.old.profiles[j]
<1>1. /\ op.kind \in Kinds /\ op \in Operations /\ op # NoOp /\ op.old \in Registries
  BY InProgress DEF Kinds
<1>2. Target \in Registries
  BY <1>1, TargetFields
<1>3. op.old.profiles[op.id] # Absent /\ Routed(op.old)
  BY <1>1 DEF IInv, OpInv, RoutedInv
<1>4. op.id \in Ids /\ op.id \in AllIds /\ op.id # Legacy /\ op.version \in Versions
      /\ op.version # Absent
  BY <1>1, OperationFields DEF AllIds
<1>5. Routed(Target)
  BY <1>1, TargetRouted
<1> QED
  BY <1>1, <1>2, <1>3, <1>4, <1>5, TargetFields, RegistryFields

\* The file of an update is written.
LEMMA UpdateSavedKeeps ==
  ASSUME IInv, UpdateSaved
  PROVE  IInv'
<1> USE DEF IInv
<1>1. /\ op.kind = "update" /\ op.at = "save" /\ disk' = Target
      /\ up' = [up EXCEPT ![op.id] = FALSE]
      /\ \/ stopping /\ Continue("rollback") /\ factory' = factory
         \/ /\ ~stopping /\ Continue("replace")
            /\ factory' = [factory EXCEPT ![op.id] = op.version]
      /\ UNCHANGED <<registry, profiles, disabled, default, override, stopping>>
  BY DEF UpdateSaved, At, serviceVars, processVars, Target
<1>2. PICK p \in {"rollback", "replace"} : Continue(p) /\ (p = "replace" <=> ~stopping)
  BY <1>1
<1>3. /\ op' \in Operations /\ op' # NoOp /\ op'.at = p /\ op'.kind = op.kind
      /\ op'.id = op.id /\ op'.version = op.version /\ op'.old = op.old
      /\ acked' = acked /\ Target' = Target
  BY <1>1, <1>2, UpdateFields, ContinueMoves DEF Points
<1>4. registry = op.old
  BY <1>1, UpdateFields DEF RegistryInv, Doing
<1>5. factory' \in [AllIds -> Versions \cup {Absent}]
  BY <1>1, UpdateFields DEF TypeOK
<1>6. TypeOK'
  BY <1>1, <1>3, <1>5, UpdateFields DEF TypeOK
<1>7. OpInv' /\ RegistryInv' /\ RoutedInv'
  BY <1>1, <1>2, <1>3, <1>4, UpdateFields DEF OpInv, RegistryInv, RoutedInv, Routed, Doing
<1>8. ProfilesInv'
  BY <1>1, <1>3 DEF ProfilesInv, Doing
<1>9. DiskInv'
  BY <1>1, <1>2, <1>3, UpdateFields DEF DiskInv, Written, Doing
<1>10. FactoryInv'
  <2> SUFFICES ASSUME ~stopping, NEW i \in AllIds
      PROVE  factory'[i] = Factory(i)'
    BY <1>1 DEF FactoryInv
  <2>1. factory[i] = profiles[i]
    BY <1>1 DEF FactoryInv, Factory, Doing
  <2> QED
    BY <1>1, <1>2, <1>3, <2>1, UpdateFields DEF Factory, Doing, TypeOK
<1>11. DefaultInv'
  BY <1>1, UpdateFields DEF DefaultInv, BootDefault, TypeOK
<1>12. AckInv'
  BY <1>1, <1>3, UpdateFields DEF AckInv
<1> QED
  BY <1>6, <1>7, <1>8, <1>9, <1>10, <1>11, <1>12

\* The old runtime of an update is stopped, or could not be.
LEMMA UpdateReplacedKeeps ==
  ASSUME IInv, NEW ok \in BOOLEAN, UpdateReplaced(ok)
  PROVE  IInv'
<1> USE DEF IInv
<1>0. Legacy \in AllIds /\ Ids \subseteq AllIds
  BY DEF AllIds
<1>1. /\ op.kind = "update" /\ op.at = "replace"
      /\ \/ /\ profiles' = [profiles EXCEPT ![op.id] = op.version]
            /\ registry' = Target
            /\ Continue("start") \/ (op' = NoOp /\ acked' = Target)
         \/ Continue("rollback") /\ profiles' = profiles /\ registry' = registry
      /\ UNCHANGED <<disk, disabled, factory, default, up, override, stopping>>
  BY DEF UpdateReplaced, At, managerVars, processVars, Target, Acknowledge
<1>2. registry = op.old /\ disk = Target
  BY <1>1, UpdateFields DEF RegistryInv, DiskInv, Written, Doing
<1>3. ~stopping => \A i \in AllIds : factory[i] = IF i = op.id THEN op.version ELSE profiles[i]
  BY <1>1 DEF FactoryInv, Factory, Doing
<1>4. CASE Continue("rollback") /\ profiles' = profiles /\ registry' = registry
  <2>1. /\ op' \in Operations /\ op' # NoOp /\ op'.at = "rollback" /\ op'.kind = op.kind
        /\ op'.id = op.id /\ op'.version = op.version /\ op'.old = op.old
        /\ acked' = acked /\ Target' = Target
    BY <1>1, <1>4, UpdateFields, ContinueMoves DEF Points
  <2>2. TypeOK'
    BY <1>1, <1>4, <2>1 DEF TypeOK
  <2>3. OpInv' /\ RegistryInv' /\ RoutedInv'
    BY <1>1, <1>2, <1>4, <2>1, UpdateFields DEF OpInv, RegistryInv, RoutedInv, Routed, Doing
  <2>4. ProfilesInv' /\ DiskInv'
    BY <1>1, <1>2, <1>4, <2>1, UpdateFields DEF ProfilesInv, DiskInv, Written, Doing
  <2>5. FactoryInv'
    BY <1>1, <1>3, <1>4, <2>1 DEF FactoryInv, Factory, Doing
  <2>6. DefaultInv' /\ AckInv'
    BY <1>1, <1>4, <2>1, UpdateFields DEF DefaultInv, BootDefault, AckInv
  <2> QED
    BY <2>2, <2>3, <2>4, <2>5, <2>6
<1>5. CASE /\ profiles' = [profiles EXCEPT ![op.id] = op.version]
           /\ registry' = Target
           /\ Continue("start") \/ (op' = NoOp /\ acked' = Target)
  <2>1. /\ profiles' \in [AllIds -> Versions \cup {Absent}]
        /\ \A i \in AllIds : profiles'[i] = IF i = op.id THEN op.version ELSE profiles[i]
    BY <1>1, <1>5, UpdateFields DEF TypeOK
  <2>2. /\ \A i \in Ids : profiles'[i] = Target.profiles[i]
        /\ profiles'[Legacy] = IF override THEN Synthetic ELSE Absent
    BY <1>0, <1>1, <1>2, <2>1, UpdateFields DEF ProfilesInv, Doing
  <2>3. ~stopping => \A i \in AllIds : factory'[i] = profiles'[i]
    BY <1>1, <1>3, <2>1
  <2>4. DefaultInv'
    BY <1>1, <1>2, <1>5, UpdateFields DEF DefaultInv, BootDefault
  <2>5. CASE Continue("start")
    <3>1. /\ op' \in Operations /\ op' # NoOp /\ op'.at = "start" /\ op'.kind = op.kind
          /\ op'.id = op.id /\ op'.version = op.version /\ op'.old = op.old
          /\ acked' = acked /\ Target' = Target
      BY <1>1, <2>5, UpdateFields, ContinueMoves DEF Points
    <3>2. TypeOK'
      BY <1>1, <1>5, <2>1, <3>1, UpdateFields DEF TypeOK
    <3>3. OpInv' /\ RegistryInv' /\ RoutedInv'
      BY <1>1, <1>5, <3>1, UpdateFields DEF OpInv, RegistryInv, RoutedInv, Routed, Doing
    <3>4. ProfilesInv' /\ DiskInv'
      BY <1>1, <1>2, <1>5, <2>2, <3>1, UpdateFields DEF ProfilesInv, DiskInv, Written, Doing, BootRegistry
    <3>5. FactoryInv'
      BY <1>1, <2>3, <3>1 DEF FactoryInv, Factory, Doing
    <3>6. AckInv'
      BY <1>1, <3>1, UpdateFields DEF AckInv
    <3> QED
      BY <2>4, <3>2, <3>3, <3>4, <3>5, <3>6
  <2>6. CASE op' = NoOp /\ acked' = Target
    <3>1. OpInv' /\ RegistryInv' /\ op'.kind = "none"
      BY <2>6, EndMoves
    <3>2. TypeOK'
      BY <1>1, <1>5, <2>1, <2>6, UpdateFields DEF TypeOK
    <3>3. RoutedInv'
      BY <1>1, <1>5, <2>6, UpdateFields DEF RoutedInv, Routed
    <3>4. ProfilesInv' /\ DiskInv'
      BY <1>1, <1>2, <1>5, <2>2, <2>6, <3>1, UpdateFields DEF ProfilesInv, DiskInv, Written, Doing, BootRegistry
    <3>5. FactoryInv'
      BY <1>1, <2>3, <3>1 DEF FactoryInv, Factory, Doing
    <3>6. AckInv'
      BY <1>1, <1>2, <2>6 DEF AckInv
    <3> QED
      BY <2>4, <3>1, <3>2, <3>3, <3>4, <3>5, <3>6
  <2> QED
    BY <1>5, <2>5, <2>6
<1> QED
  BY <1>1, <1>4, <1>5

\* The updated connection is up, or is to go back.
LEMMA UpdateStartedKeeps ==
  ASSUME IInv, NEW ok \in BOOLEAN, UpdateStarted(ok)
  PROVE  IInv'
<1> USE DEF IInv
<1>1. /\ op.kind = "update" /\ op.at = "start"
      /\ up' = [up EXCEPT ![op.id] = ok]
      /\ (op' = NoOp /\ acked' = Target) \/ Continue("rollback")
      /\ UNCHANGED <<disk, registry, profiles, disabled, factory, default, override, stopping>>
  BY DEF UpdateStarted, At, serviceVars, processVars, Target, Acknowledge
<1>2. registry = Target /\ up' \in [AllIds -> BOOLEAN]
  BY <1>1, UpdateFields DEF RegistryInv, TypeOK
<1>3. disk # Broken /\ disk = Target
  BY <1>1, <1>2, UpdateFields, InProgress, DiskIsRegistry DEF Doing, Written
<1>4. CASE op' = NoOp /\ acked' = Target
  BY <1>1, <1>2, <1>3, <1>4, UpdateFields, QuietEndKeeps DEF Doing, Written, TypeOK
<1>5. CASE Continue("rollback")
  <2>1. /\ op' \in Operations /\ op' # NoOp /\ op'.at = "rollback" /\ op'.kind = op.kind
        /\ op'.id = op.id /\ op'.version = op.version /\ op'.old = op.old
        /\ acked' = acked /\ Target' = Target
    BY <1>1, <1>5, UpdateFields, ContinueMoves DEF Points
  <2>2. TypeOK'
    BY <1>1, <1>2, <2>1 DEF TypeOK
  <2>3. OpInv' /\ RegistryInv' /\ RoutedInv'
    BY <1>1, <1>2, <2>1, UpdateFields DEF OpInv, RegistryInv, RoutedInv, Routed, Doing
  <2>4. ProfilesInv' /\ DiskInv'
    BY <1>1, <1>3, <2>1, UpdateFields DEF ProfilesInv, DiskInv, Written, Doing
  <2>5. FactoryInv'
    <3> SUFFICES ASSUME ~stopping, NEW i \in AllIds
        PROVE  factory[i] = Factory(i)'
      BY <1>1 DEF FactoryInv
    <3>1. factory[i] = profiles[i]
      BY <1>1 DEF FactoryInv, Factory, Doing
    <3>2. profiles[op.id] = op.version
      BY <1>1, <1>2, UpdateFields DEF ProfilesInv
    <3> QED
      BY <1>1, <2>1, <3>1, <3>2 DEF Factory, Doing
  <2>6. DefaultInv' /\ AckInv'
    BY <1>1, <2>1, UpdateFields DEF DefaultInv, BootDefault, AckInv
  <2> QED
    BY <2>2, <2>3, <2>4, <2>5, <2>6
<1> QED
  BY <1>1, <1>4, <1>5

\* The file and the service go back to the old profile.
LEMMA UpdateRolledBackKeeps ==
  ASSUME IInv, UpdateRolledBack
  PROVE  IInv'
<1> USE DEF IInv
<1>0. Legacy \in AllIds /\ Ids \subseteq AllIds
  BY DEF AllIds
<1>1. PICK v \in Versions : v = op.old.profiles[op.id]
  BY UpdateFields DEF UpdateRolledBack
<1>2. /\ op.kind = "update" /\ op.at = "rollback" /\ disk' = op.old /\ registry' = op.old
      /\ profiles' = [profiles EXCEPT ![op.id] = v]
      /\ \/ stopping /\ op' = NoOp /\ acked' = acked /\ factory' = factory
         \/ /\ ~stopping /\ Continue("restore")
            /\ factory' = [factory EXCEPT ![op.id] = v]
      /\ UNCHANGED <<disabled, default, up, override, stopping>>
  BY <1>1 DEF UpdateRolledBack, At, processVars, Reject
<1>3. registry \in {op.old, Target}
  BY <1>2, UpdateFields DEF RegistryInv, Doing
<1>4. /\ profiles' \in [AllIds -> Versions \cup {Absent}]
      /\ \A i \in AllIds : profiles'[i] = IF i = op.id THEN v ELSE profiles[i]
  BY <1>2, UpdateFields DEF TypeOK
<1>5. /\ \A i \in Ids : profiles'[i] = op.old.profiles[i]
      /\ profiles'[Legacy] = IF override THEN Synthetic ELSE Absent
  BY <1>0, <1>1, <1>2, <1>3, <1>4, UpdateFields DEF ProfilesInv, Doing
<1>6. factory' \in [AllIds -> Versions \cup {Absent}] /\ factory'[default] # Absent
  BY <1>2, UpdateFields DEF TypeOK, DefaultInv
<1>7. DefaultInv'
  BY <1>2, <1>3, <1>6, UpdateFields DEF DefaultInv, BootDefault
<1>8. CASE stopping /\ op' = NoOp /\ acked' = acked /\ factory' = factory
  <2>1. OpInv' /\ RegistryInv' /\ op'.kind = "none"
    BY <1>8, EndMoves
  <2>2. TypeOK'
    BY <1>2, <1>4, <1>6, <1>8, UpdateFields DEF TypeOK
  <2>3. RoutedInv'
    BY <1>2, <1>8, UpdateFields DEF RoutedInv, Routed
  <2>4. ProfilesInv' /\ DiskInv'
    BY <1>2, <1>5, <1>8, <2>1, UpdateFields
       DEF ProfilesInv, DiskInv, Written, Doing, BootRegistry
  <2>5. FactoryInv' /\ AckInv'
    BY <1>2, <1>8, UpdateFields DEF FactoryInv, AckInv
  <2> QED
    BY <1>7, <2>1, <2>2, <2>3, <2>4, <2>5
<1>9. CASE /\ ~stopping /\ Continue("restore")
           /\ factory' = [factory EXCEPT ![op.id] = v]
  <2>1. /\ op' \in Operations /\ op' # NoOp /\ op'.at = "restore" /\ op'.kind = op.kind
        /\ op'.id = op.id /\ op'.version = op.version /\ op'.old = op.old
        /\ acked' = acked /\ Target' = Target
    BY <1>2, <1>9, UpdateFields, ContinueMoves DEF Points
  <2>2. TypeOK'
    BY <1>2, <1>4, <1>6, <2>1, UpdateFields DEF TypeOK
  <2>3. OpInv' /\ RegistryInv' /\ RoutedInv'
    BY <1>2, <2>1, UpdateFields DEF OpInv, RegistryInv, RoutedInv, Routed, Doing
  <2>4. ProfilesInv' /\ DiskInv'
    BY <1>2, <1>5, <2>1, UpdateFields DEF ProfilesInv, DiskInv, Written, Doing, BootRegistry
  <2>5. FactoryInv'
    <3> SUFFICES ASSUME NEW i \in AllIds
        PROVE  factory'[i] = Factory(i)'
      BY DEF FactoryInv
    <3>1. factory[i] = IF i = op.id THEN op.version ELSE profiles[i]
      BY <1>2, <1>9 DEF FactoryInv, Factory, Doing
    <3>2. factory'[i] = IF i = op.id THEN v ELSE factory[i]
      BY <1>9 DEF TypeOK
    <3> QED
      BY <1>2, <1>4, <2>1, <3>1, <3>2 DEF Factory, Doing
  <2>6. AckInv'
    BY <1>2, <2>1, UpdateFields DEF AckInv
  <2> QED
    BY <1>7, <2>2, <2>3, <2>4, <2>5, <2>6
<1> QED
  BY <1>2, <1>8, <1>9

\* The file keeps the replacement, and so does the service.
LEMMA UpdateRollbackFailsKeeps ==
  ASSUME IInv, UpdateRollbackFails
  PROVE  IInv'
<1> USE DEF IInv
<1>0. Legacy \in AllIds /\ Ids \subseteq AllIds
  BY DEF AllIds
<1>1. /\ op.kind = "update" /\ op.at = "rollback" /\ disabled' = TRUE
      /\ profiles' = [profiles EXCEPT ![op.id] = op.version] /\ registry' = Target
      /\ up' = [up EXCEPT ![op.id] = FALSE] /\ Continue("retire")
      /\ UNCHANGED <<disk, factory, default, override, stopping>>
  BY DEF UpdateRollbackFails, At, processVars, Target
<1>2. registry \in {op.old, Target} /\ disk = Target /\ disk # Broken
  BY <1>1, UpdateFields, InProgress DEF RegistryInv, DiskInv, Written, Doing
<1>3. /\ profiles' \in [AllIds -> Versions \cup {Absent}]
      /\ \A i \in AllIds : profiles'[i] = IF i = op.id THEN op.version ELSE profiles[i]
  BY <1>1, UpdateFields DEF TypeOK
<1>4. /\ \A i \in Ids : profiles'[i] = Target.profiles[i]
      /\ profiles'[Legacy] = IF override THEN Synthetic ELSE Absent
  BY <1>0, <1>1, <1>2, <1>3, UpdateFields DEF ProfilesInv, Doing
<1>5. /\ op' \in Operations /\ op' # NoOp /\ op'.at = "retire" /\ op'.kind = op.kind
      /\ op'.id = op.id /\ op'.version = op.version /\ op'.old = op.old
      /\ acked' = acked /\ Target' = Target
  BY <1>1, UpdateFields, ContinueMoves DEF Points
<1>6. TypeOK'
  BY <1>1, <1>3, <1>5, UpdateFields DEF TypeOK
<1>7. OpInv' /\ RegistryInv' /\ RoutedInv'
  BY <1>1, <1>5, UpdateFields DEF OpInv, RegistryInv, RoutedInv, Routed, Doing
<1>8. ProfilesInv' /\ DiskInv'
  BY <1>1, <1>2, <1>4, <1>5, UpdateFields DEF ProfilesInv, DiskInv, Written, Doing, BootRegistry
<1>9. FactoryInv'
  <2> SUFFICES ASSUME ~stopping, NEW i \in AllIds
      PROVE  factory[i] = Factory(i)'
    BY <1>1 DEF FactoryInv
  <2>1. factory[i] = IF i = op.id THEN op.version ELSE profiles[i]
    BY <1>1 DEF FactoryInv, Factory, Doing
  <2> QED
    BY <1>1, <1>3, <1>5, <2>1 DEF Factory, Doing
<1>10. DefaultInv' /\ AckInv'
  BY <1>1, <1>2, UpdateFields DEF DefaultInv, BootDefault, AckInv
<1> QED
  BY <1>6, <1>7, <1>8, <1>9, <1>10

\* What a removal takes away.
LEMMA RemoveFields ==
  ASSUME IInv, op.kind = "remove"
  PROVE  /\ op \in Operations /\ op # NoOp /\ op.kind \in Kinds
         /\ op.id \in Ids /\ op.id \in AllIds /\ op.id # Legacy /\ default # op.id
         /\ op.old \in Registries /\ op.old # NoRegistry /\ op.old # Broken
         /\ Routed(op.old) /\ op.old.profiles[op.id] # Absent
         /\ Listed(op.old) = {op.id} => override
<1>1. /\ op.kind \in Kinds /\ op \in Operations /\ op # NoOp /\ op.old \in Registries
  BY InProgress DEF Kinds
<1>2. /\ op.old.profiles[op.id] # Absent /\ Routed(op.old) /\ default # op.id
      /\ Listed(op.old) = {op.id} => override
  BY <1>1 DEF IInv, OpInv, RoutedInv
<1>3. op.id \in Ids /\ op.id \in AllIds /\ op.id # Legacy
  BY <1>1, OperationFields DEF AllIds
<1> QED
  BY <1>1, <1>2, <1>3, RegistryFields

\* The entry is removed from the manager.
LEMMA UnregisteredKeeps ==
  ASSUME IInv, Unregistered
  PROVE  IInv'
<1> USE DEF IInv
<1>1. /\ op.kind = "remove" /\ op.at = "unregister" /\ Continue("save")
      /\ factory' = [factory EXCEPT ![op.id] = Absent]
      /\ UNCHANGED <<disk, registry, profiles, disabled, default, up, override, stopping>>
  BY DEF Unregistered, At, serviceVars, processVars
<1>2. /\ op' \in Operations /\ op' # NoOp /\ op'.at = "save" /\ op'.kind = op.kind
      /\ op'.id = op.id /\ op'.old = op.old /\ acked' = acked /\ Target' = Target
  BY <1>1, RemoveFields, ContinueMoves DEF Points
<1>3. TypeOK'
  BY <1>1, <1>2 DEF TypeOK
<1>4. OpInv'
  <2>1. Listed(op'.old) = Listed(op.old)
    BY <1>2 DEF Listed
  <2> QED
    BY <1>1, <1>2, <2>1, RemoveFields DEF OpInv, Doing, Listed
<1>5. RegistryInv' /\ RoutedInv'
  BY <1>1, <1>2, RemoveFields DEF RegistryInv, RoutedInv, Routed, Doing
<1>6. ProfilesInv' /\ DiskInv'
  BY <1>1, <1>2, RemoveFields DEF ProfilesInv, DiskInv, Written, Doing, BootRegistry
<1>7. FactoryInv'
  <2> SUFFICES ASSUME ~stopping, NEW i \in AllIds
      PROVE  factory'[i] = Factory(i)'
    BY <1>1 DEF FactoryInv
  <2>1. factory[i] = profiles[i]
    BY <1>1 DEF FactoryInv, Factory, Doing
  <2>2. factory'[i] = IF i = op.id THEN Absent ELSE factory[i]
    BY <1>1 DEF TypeOK
  <2> QED
    BY <1>1, <1>2, <2>1, <2>2 DEF Factory, Doing
<1>8. DefaultInv' /\ AckInv'
  BY <1>1, <1>2, RemoveFields DEF DefaultInv, BootDefault, AckInv, TypeOK
<1> QED
  BY <1>3, <1>4, <1>5, <1>6, <1>7, <1>8

\* The file of a removal is written, or cleared.
LEMMA RemoveSavedKeeps ==
  ASSUME IInv, RemoveSaved
  PROVE  IInv'
<1> USE DEF IInv
<1>0. Legacy \in AllIds /\ Ids \subseteq AllIds
  BY DEF AllIds
<1>1. /\ op.kind = "remove" /\ op.at = "save" /\ Writable(Target)
      /\ disk' = Target /\ registry' = Target /\ acked' = Target /\ op' = NoOp
      /\ profiles' = [profiles EXCEPT ![op.id] = Absent]
      /\ UNCHANGED <<disabled, factory, default, up, override, stopping>>
  BY DEF RemoveSaved, At, managerVars, processVars, Acknowledge, Target
<1>2. /\ Target \in Registries \cup {NoRegistry} /\ Routed(Target)
      /\ Listed(op.old) = {op.id} => Target = NoRegistry
      /\ Listed(op.old) # {op.id} =>
           /\ Target \in Registries /\ Target.default = op.old.default
           /\ Target.profiles[op.id] = Absent
           /\ \A j \in Ids : j # op.id => Target.profiles[j] = op.old.profiles[j]
  BY <1>1, RemoveFields, TargetFields, TargetRouted
<1>3. Target # Broken /\ (Target \in Registries => Target # NoRegistry)
  BY <1>2, RegistryFields
<1>4. registry = op.old
  BY <1>1, RemoveFields DEF RegistryInv
<1>5. /\ profiles' \in [AllIds -> Versions \cup {Absent}]
      /\ \A i \in AllIds : profiles'[i] = IF i = op.id THEN Absent ELSE profiles[i]
  BY <1>1 DEF TypeOK
<1>6. OpInv' /\ RegistryInv' /\ op'.kind = "none"
  BY <1>1, EndMoves
<1>7. TypeOK'
  BY <1>1, <1>2, <1>5 DEF TypeOK
<1>8. RoutedInv'
  BY <1>1, <1>2 DEF RoutedInv, Routed
<1>9. ProfilesInv'
  <2>1. \A i \in Ids : profiles[i] = op.old.profiles[i]
    BY <1>1, <1>4, RemoveFields DEF ProfilesInv
  <2>2. profiles[Legacy] = IF override THEN Synthetic ELSE Absent
    BY <1>1, <1>4, RemoveFields DEF ProfilesInv, Doing
  <2>3. profiles'[Legacy] = profiles[Legacy]
    BY <1>0, <1>1, <1>5, RemoveFields
  <2>4. CASE Listed(op.old) = {op.id}
    <3>1. \A i \in Ids : i # op.id => op.old.profiles[i] = Absent
      BY <2>4 DEF Listed
    <3> QED
      BY <1>0, <1>1, <1>2, <1>5, <1>6, <2>1, <2>2, <2>3, <2>4, <3>1, RemoveFields
         DEF ProfilesInv, Doing
  <2>5. CASE Listed(op.old) # {op.id}
    BY <1>0, <1>1, <1>2, <1>3, <1>5, <1>6, <2>1, <2>2, <2>3, <2>5 DEF ProfilesInv, Doing
  <2> QED
    BY <2>4, <2>5
<1>10. DiskInv'
  BY <1>1, <1>3, <1>6 DEF DiskInv, Written, Doing, BootRegistry
<1>11. FactoryInv'
  <2> SUFFICES ASSUME ~stopping, NEW i \in AllIds
      PROVE  factory[i] = Factory(i)'
    BY <1>1 DEF FactoryInv
  <2>1. factory[i] = IF i = op.id THEN Absent ELSE profiles[i]
    BY <1>1 DEF FactoryInv, Factory, Doing
  <2> QED
    BY <1>5, <1>6, <2>1 DEF Factory, Doing
<1>12. DefaultInv'
  BY <1>1, <1>2, <1>3, <1>4, RemoveFields DEF DefaultInv, BootDefault
<1>13. AckInv'
  BY <1>1 DEF AckInv
<1> QED
  BY <1>6, <1>7, <1>8, <1>9, <1>10, <1>11, <1>12, <1>13

\* The file of a removal could not be written: the entry comes back.
LEMMA RemoveSaveFailsKeeps ==
  ASSUME IInv, RemoveSaveFails
  PROVE  IInv'
<1> USE DEF IInv
<1>1. /\ op.kind = "remove" /\ op.at = "save"
      /\ \/ stopping /\ op' = NoOp /\ acked' = acked /\ factory' = factory
         \/ /\ ~stopping /\ factory' = [factory EXCEPT ![op.id] = profiles[op.id]]
            /\ Continue("recover") \/ (op' = NoOp /\ acked' = acked)
      /\ UNCHANGED <<disk, registry, profiles, disabled, default, up, override, stopping>>
  BY DEF RemoveSaveFails, At, serviceVars, processVars, Reject
<1>2. disk # Broken
  BY <1>1, RemoveFields, InProgress
<1>3. CASE stopping /\ op' = NoOp /\ acked' = acked /\ factory' = factory
  <2>1. acked = disk
    BY <1>1, RemoveFields, OldIsAnswered, DiskIsRegistry DEF RegistryInv, Doing, Written
  <2> QED
    BY <1>1, <1>2, <1>3, <2>1, QuietEndKeeps DEF Doing, Written, TypeOK
<1>4. CASE /\ ~stopping /\ factory' = [factory EXCEPT ![op.id] = profiles[op.id]]
           /\ Continue("recover") \/ (op' = NoOp /\ acked' = acked)
  <2>1. /\ factory' \in [AllIds -> Versions \cup {Absent}]
        /\ \A i \in AllIds : factory'[i] = profiles[i]
    <3>1. \A i \in AllIds : factory[i] = IF i = op.id THEN Absent ELSE profiles[i]
      BY <1>1, <1>4 DEF FactoryInv, Factory, Doing
    <3> QED
      BY <1>4, <3>1, <1>1, RemoveFields DEF TypeOK
  <2>2. DefaultInv'
    BY <1>1, <1>4, RemoveFields DEF DefaultInv, BootDefault, TypeOK
  <2>3. CASE Continue("recover")
    <3>1. /\ op' \in Operations /\ op' # NoOp /\ op'.at = "recover" /\ op'.kind = op.kind
          /\ op'.id = op.id /\ op'.old = op.old /\ acked' = acked /\ Target' = Target
      BY <1>1, <2>3, RemoveFields, ContinueMoves DEF Points
    <3>2. TypeOK'
      BY <1>1, <2>1, <3>1 DEF TypeOK
    <3>3. OpInv'
      <4>1. Listed(op'.old) = Listed(op.old)
        BY <3>1 DEF Listed
      <4> QED
        BY <1>1, <3>1, <4>1, RemoveFields DEF OpInv, Doing, Listed
    <3>4. RegistryInv' /\ RoutedInv'
      BY <1>1, <3>1, RemoveFields DEF RegistryInv, RoutedInv, Routed, Doing
    <3>5. ProfilesInv' /\ DiskInv'
      BY <1>1, <1>2, <3>1 DEF ProfilesInv, DiskInv, Written, Doing, BootRegistry
    <3>6. FactoryInv'
      BY <1>1, <2>1, <3>1 DEF FactoryInv, Factory, Doing
    <3>7. AckInv'
      BY <1>1, <3>1, RemoveFields DEF AckInv
    <3> QED
      BY <2>2, <3>2, <3>3, <3>4, <3>5, <3>6, <3>7
  <2>4. CASE op' = NoOp /\ acked' = acked
    <3>1. OpInv' /\ RegistryInv' /\ op'.kind = "none"
      BY <2>4, EndMoves
    <3>2. TypeOK'
      BY <1>1, <2>1, <2>4 DEF TypeOK
    <3>3. RoutedInv'
      BY <1>1, <2>4 DEF RoutedInv, Routed
    <3>4. ProfilesInv' /\ DiskInv'
      BY <1>1, <1>2, <2>4, <3>1, RemoveFields DEF ProfilesInv, OpInv, DiskInv, Written, Doing, BootRegistry
    <3>5. FactoryInv'
      BY <1>1, <2>1, <3>1 DEF FactoryInv, Factory, Doing
    <3>6. AckInv'
      <4>1. ~disabled => acked = op.old /\ disk = registry /\ registry = op.old
        BY <1>1, <1>4, RemoveFields, OldIsAnswered, DiskIsRegistry
           DEF RegistryInv, Doing, Written
      <4> QED
        BY <1>1, <2>4, <4>1 DEF AckInv
    <3> QED
      BY <2>2, <3>1, <3>2, <3>3, <3>4, <3>5, <3>6
  <2> QED
    BY <1>4, <2>3, <2>4
<1> QED
  BY <1>1, <1>3, <1>4

\* The file of a new default is written.
LEMMA SetDefaultSavedKeeps ==
  ASSUME IInv, SetDefaultSaved
  PROVE  IInv'
<1> USE DEF IInv
<1>0. Ids \subseteq AllIds
  BY DEF AllIds
<1>1. /\ op.kind = "setDefault" /\ op.at = "save" /\ disk' = Target /\ op.kind \in Kinds
      /\ \/ stopping /\ Continue("rollback") /\ default' = default /\ registry' = registry
         \/ /\ ~stopping /\ default' = op.id /\ registry' = Target
            /\ op' = NoOp /\ acked' = Target
      /\ UNCHANGED <<profiles, disabled, factory, up, override, stopping>>
  BY DEF SetDefaultSaved, At, processVars, Acknowledge, Target, Kinds
<1>2. /\ op \in Operations /\ op # NoOp /\ op.id \in Ids
      /\ op.old \in Registries /\ op.old.profiles[op.id] # Absent /\ Routed(op.old)
      /\ ~override /\ registry = op.old
  BY <1>1, InProgress, OperationFields DEF OpInv, RoutedInv, RegistryInv
<1>3. /\ Target \in Registries /\ Target.default = op.id /\ Routed(Target)
      /\ Target.profiles = op.old.profiles
      /\ Target # NoRegistry /\ Target # Broken /\ op.old # NoRegistry
  <2>1. Target \in Registries
    BY <1>1, <1>2, TargetFields
  <2> QED
    BY <1>1, <1>2, <2>1, TargetFields, TargetRouted, RegistryFields
<1>4. CASE stopping /\ Continue("rollback") /\ default' = default /\ registry' = registry
  <2>1. /\ op' \in Operations /\ op' # NoOp /\ op'.at = "rollback" /\ op'.kind = op.kind
        /\ op'.id = op.id /\ op'.old = op.old /\ acked' = acked /\ Target' = Target
    BY <1>1, <1>2, <1>4, ContinueMoves DEF Points
  <2>2. TypeOK'
    BY <1>1, <1>3, <1>4, <2>1 DEF TypeOK
  <2>3. OpInv' /\ RegistryInv' /\ RoutedInv'
    BY <1>1, <1>2, <1>3, <1>4, <2>1 DEF OpInv, RegistryInv, RoutedInv, Routed, Doing
  <2>4. ProfilesInv' /\ DiskInv'
    BY <1>1, <1>3, <1>4, <2>1 DEF ProfilesInv, DiskInv, Written, Doing
  <2>5. FactoryInv' /\ DefaultInv' /\ AckInv'
    BY <1>1, <1>2, <1>4, <2>1 DEF FactoryInv, DefaultInv, AckInv
  <2> QED
    BY <2>2, <2>3, <2>4, <2>5
<1>5. CASE /\ ~stopping /\ default' = op.id /\ registry' = Target
           /\ op' = NoOp /\ acked' = Target
  <2>1. OpInv' /\ RegistryInv' /\ op'.kind = "none"
    BY <1>5, EndMoves
  <2>2. TypeOK'
    BY <1>0, <1>1, <1>2, <1>3, <1>5 DEF TypeOK
  <2>3. RoutedInv'
    BY <1>1, <1>3, <1>5 DEF RoutedInv, Routed
  <2>4. ProfilesInv' /\ DiskInv'
    BY <1>1, <1>2, <1>3, <1>5, <2>1 DEF ProfilesInv, DiskInv, Written, Doing, BootRegistry
  <2>5. \A i \in AllIds : factory[i] = profiles[i]
    BY <1>1, <1>5 DEF FactoryInv, Factory, Doing
  <2>6. FactoryInv'
    BY <1>1, <2>1, <2>5 DEF FactoryInv, Factory, Doing
  <2>7. DefaultInv'
    <3>1. factory[op.id] = op.old.profiles[op.id]
      BY <1>0, <1>2, <1>3, <2>5 DEF ProfilesInv
    <3> QED
      BY <1>1, <1>2, <1>3, <1>5, <3>1 DEF DefaultInv, BootDefault
  <2>8. AckInv'
    BY <1>1, <1>5 DEF AckInv
  <2> QED
    BY <2>1, <2>2, <2>3, <2>4, <2>6, <2>7, <2>8
<1> QED
  BY <1>1, <1>4, <1>5

\* A create or a new default goes back, while the shutdown is under way.
LEMMA RolledBackKeeps ==
  ASSUME IInv, RolledBack
  PROVE  IInv'
<1> USE DEF IInv
<1>1. /\ op.kind \in {"create", "setDefault"} /\ op.at = "rollback" /\ op.kind \in Kinds
      /\ disk' = op.old /\ op' = NoOp /\ acked' = acked
      /\ UNCHANGED <<registry, profiles, disabled, factory, default, up, override, stopping>>
  BY DEF RolledBack, At, serviceVars, managerVars, processVars, Reject, Kinds
<1>2. /\ op \in Operations /\ op # NoOp /\ stopping
      /\ op.old \in Registries \cup {NoRegistry} /\ Routed(op.old)
  BY <1>1, InProgress, OperationFields DEF OpInv, RoutedInv
<1>3. op.old # Broken
  BY <1>2, RegistryFields
<1>4. OpInv' /\ RegistryInv' /\ op'.kind = "none"
  BY <1>1, EndMoves
<1>5. TypeOK'
  BY <1>1, <1>2 DEF TypeOK
<1>6. RoutedInv'
  BY <1>1, <1>2 DEF RoutedInv, Routed
<1>7. ProfilesInv' /\ DiskInv'
  <2>1. registry = op.old
    BY <1>1, <1>2 DEF RegistryInv, Doing
  <2> QED
    BY <1>1, <1>2, <1>3, <1>4, <2>1 DEF ProfilesInv, DiskInv, Written, Doing, BootRegistry
<1>8. FactoryInv' /\ DefaultInv' /\ AckInv'
  BY <1>1, <1>2 DEF FactoryInv, DefaultInv, AckInv
<1> QED
  BY <1>4, <1>5, <1>6, <1>7, <1>8

-----------------------------------------------------------------------------
(* Every step keeps the invariant. *)

\* Every step of the service keeps it.
LEMMA StepKeeps ==
  ASSUME IInv, [Next]_vars
  PROVE  IInv'
<1>1. CASE Requests
  BY <1>1, RequestsKeep
<1>2. CASE Continuations
  BY <1>2, CreateSavedKeeps, LegacyUnregisteredKeeps, UpdateSavedKeeps,
     UpdateRolledBackKeeps, UpdateRollbackFailsKeeps, UnregisteredKeeps,
     RemoveSavedKeeps, RemoveSaveFailsKeeps, SetDefaultSavedKeeps, RolledBackKeeps,
     UpdateReplacedKeeps, UpdateStartedKeeps, QuietEndsKeep, QuietContinuesKeep
     DEF Continuations
<1>3. CASE Restart \/ stopAll
  BY <1>3, RestartKeeps, StopAllKeeps
<1>4. CASE UNCHANGED vars
  <2>1. up' \in [AllIds -> BOOLEAN] /\ stopping' \in BOOLEAN
    BY <1>4 DEF vars, managerVars, processVars, IInv, TypeOK
  <2> QED
    BY <1>4, <2>1, StillKeeps DEF vars, serviceVars, managerVars, processVars
<1> QED
  BY <1>1, <1>2, <1>3, <1>4 DEF Next

-----------------------------------------------------------------------------
(* The theorems. *)

\* The inductive invariant of the registry holds throughout.
THEOREM Invariance == Spec => []IInv
<1>1. Safety => []IInv
  BY InitInv, StepKeeps, PTL DEF Safety
<1> QED
  BY <1>1, PTL DEF Spec

\* Whatever failed, and wherever the process crashed: between operations the
\* file, the service's registry and profiles, and the manager's entries say the
\* same.
THEOREM ViewsStayAtOne == Spec => []ViewsAgree
<1>1. IInv => ViewsAgree
  <2> SUFFICES ASSUME IInv, op = NoOp, ~stopping
      PROVE  /\ registry = Stored /\ profiles = BootProfiles(disk, override)
             /\ factory = profiles /\ default = BootDefault(disk, override)
    BY DEF ViewsAgree, Idle
  <2> USE DEF IInv
  <2>1. op.kind = "none"
    BY DEF NoOp
  <2>2. registry = Stored
    BY <2>1 DEF DiskInv, Written, Doing, Stored
  <2>3. /\ disk \in Registries \cup {NoRegistry, Broken} /\ Routed(disk)
        /\ override \in BOOLEAN
    BY DEF TypeOK, RoutedInv
  <2>4. /\ BootProfiles(disk, override) \in [AllIds -> Versions \cup {Absent}]
        /\ \A i \in Ids : BootProfiles(disk, override)[i] =
             IF registry = NoRegistry THEN Absent ELSE registry.profiles[i]
        /\ BootProfiles(disk, override)[Legacy] =
             IF override \/ registry = NoRegistry THEN Synthetic ELSE Absent
        /\ BootDefault(disk, override) = BootDefault(registry, override)
    BY <2>2, <2>3, BootFields DEF Stored
  <2>5. \A i \in AllIds : profiles[i] = BootProfiles(disk, override)[i]
    BY <2>1, <2>4 DEF ProfilesInv, Doing, AllIds
  <2>6. profiles = BootProfiles(disk, override)
    BY <2>4, <2>5 DEF TypeOK
  <2>7. \A i \in AllIds : factory[i] = profiles[i]
    BY <2>1 DEF FactoryInv, Factory, Doing
  <2>8. factory = profiles
    BY <2>7 DEF TypeOK
  <2> QED
    BY <2>2, <2>4, <2>6, <2>8 DEF DefaultInv
<1> QED
  BY <1>1, Invariance, PTL

\* A request without an id finds the entry it is routed to at every moment, in
\* the middle of a migration, a removal or a shutdown too.
THEOREM DefaultStaysRouted == Spec => []DefaultIsRouted
<1>1. IInv => DefaultIsRouted
  BY DEF IInv, DefaultInv, DefaultIsRouted
<1> QED
  BY <1>1, Invariance, PTL

\* What was answered is what a crash finds in the file; what was rejected is not.
THEOREM AnswersSurvive == Spec => []AnswersAreDurable
<1>1. IInv => AnswersAreDurable
  <2> SUFFICES ASSUME IInv, ~disabled, disk # acked
      PROVE  op # NoOp /\ disk = nextRegistry(op)
    BY DEF AnswersAreDurable
  <2> USE DEF IInv
  <2>1. op # NoOp /\ acked = op.old /\ op.at # "retire"
    BY DEF AckInv, OpInv
  <2>2. op \in Operations /\ op.at \in Points /\ op.kind \in Kinds
    BY <2>1, OperationFields DEF TypeOK
  <2>3. CASE Written
    BY <2>1, <2>3 DEF DiskInv, Target
  <2>4. CASE ~Written
    <3>1. disk = registry
      BY <2>1, <2>2, <2>4, DiskIsRegistry
    <3>2. registry \in {op.old, Target}
      BY <2>1, <2>2, <2>4 DEF OpInv, RegistryInv, Doing, Written, Points
    <3> QED
      BY <2>1, <3>1, <3>2 DEF Target
  <2> QED
    BY <2>3, <2>4
<1> QED
  BY <1>1, Invariance, PTL

-----------------------------------------------------------------------------
(* Changes are atomic: the refinement of AtomicChange. *)

\* Where memory, the file and the last answer are while an operation is under
\* way: at the old registry or at the new one.
LEMMA MiddleOfChange ==
  IInv /\ op # NoOp /\ ~disabled =>
    /\ Pending = {Target} /\ BootRegistry(acked) = op.old
    /\ registry \in {op.old, Target} /\ Stored \in {op.old, Target}
<1> SUFFICES ASSUME IInv, op # NoOp, ~disabled
    PROVE  /\ Pending = {Target} /\ BootRegistry(acked) = op.old
           /\ registry \in {op.old, Target} /\ Stored \in {op.old, Target}
  OBVIOUS
<1>1. /\ op \in Operations /\ op.kind \in Kinds /\ op.at \in Points
      /\ op.at # "retire" /\ op.old \in Registries \cup {NoRegistry}
  BY OperationFields DEF IInv, TypeOK, OpInv
<1>2. Target \in Registries \cup {NoRegistry}
  BY <1>1, InProgress, TargetFields
<1>3. op.old # Broken /\ Target # Broken
  BY <1>1, <1>2, RegistryFields
<1>4. acked = op.old
  BY <1>1, OldIsAnswered
<1>5. registry \in {op.old, Target}
  BY <1>1 DEF IInv, OpInv, RegistryInv, Doing, Points
<1>6. disk = Target \/ disk = registry
  BY <1>1, DiskIsRegistry DEF IInv, DiskInv
<1> QED
  BY <1>3, <1>4, <1>5, <1>6 DEF Pending, Target, BootRegistry, Stored

\* The same in the next state.
LEMMA MiddleOfChangeNext ==
  (IInv /\ op # NoOp /\ ~disabled =>
    /\ Pending = {Target} /\ BootRegistry(acked) = op.old
    /\ registry \in {op.old, Target} /\ Stored \in {op.old, Target})'
BY MiddleOfChange, PTL

\* Between operations all three are the same.
LEMMA BetweenChanges ==
  IInv /\ op = NoOp =>
    /\ Pending = {}
    /\ ~disabled => registry = Stored /\ BootRegistry(acked) = Stored
BY DEF IInv, DiskInv, AckInv, Written, Pending, Stored, BootRegistry

\* The same in the next state.
LEMMA BetweenChangesNext ==
  (IInv /\ op = NoOp =>
    /\ Pending = {}
    /\ ~disabled => registry = Stored /\ BootRegistry(acked) = Stored)'
BY BetweenChanges, PTL

\* An operation that goes on keeps to its two registries.
LEMMA GoingOnRefines ==
  ASSUME IInv, IInv', op # NoOp, op' # NoOp, ~disabled, disabled' = disabled,
         op'.old = op.old, Target' = Target, acked' = acked
  PROVE  Change!Underway
<1>1. /\ Pending = {Target} /\ BootRegistry(acked) = op.old
  BY MiddleOfChange
<1>2. /\ Pending' = {Target} /\ BootRegistry(acked)' = op.old
      /\ registry' \in {op.old, Target} /\ Stored' \in {op.old, Target}
  BY MiddleOfChangeNext
<1> QED
  BY <1>1, <1>2 DEF Change!Underway

\* What is answered is what the file and memory hold.
LEMMA AnswerRefines ==
  ASSUME IInv, IInv', op # NoOp, op' = NoOp, ~disabled, disabled' = disabled,
         acked' \in {acked, Target}
  PROVE  Change!Answer
<1>1. Pending = {Target} /\ BootRegistry(acked) = op.old
  BY MiddleOfChange
<1>2. Pending' = {} /\ registry' = Stored' /\ BootRegistry(acked)' = Stored'
  BY BetweenChangesNext
<1>3. op \in Operations /\ op.kind \in Kinds
  BY OperationFields DEF IInv, TypeOK
<1>4. Target \in Registries \cup {NoRegistry}
  BY <1>3, InProgress, TargetFields
<1>5. BootRegistry(acked)' \in {BootRegistry(acked), Target}
  BY <1>4, RegistryFields DEF BootRegistry
<1> QED
  BY <1>1, <1>2, <1>5 DEF Change!Answer

\* Every continuation leaves the operation in progress, or answers it.
LEMMA ContinuationMoves ==
  ASSUME IInv, Continuations
  PROVE  /\ op # NoOp
         /\ \/ op' = NoOp /\ acked' \in {acked, Target}
            \/ /\ op' # NoOp /\ acked' = acked
               /\ op'.old = op.old /\ Target' = Target
         /\ \/ disabled' = disabled
            \/ /\ disabled' = TRUE /\ UNCHANGED <<disk, acked>>
               /\ registry' \in {registry, Target}
         /\ disabled => UpdateRetired
<1> DEFINE Goes == \E p \in Points : Continue(p)
           Ends == op' = NoOp /\ acked' \in {acked, Target}
<1> USE DEF At, Continue, Reject, Acknowledge, Target, processVars, managerVars,
            serviceVars, Points
<1>1. ASSUME NEW ok \in BOOLEAN,
             \/ SeedStarted(ok) \/ CreateStarted(ok)
             \/ UpdateTested(ok) \/ UpdateReplaced(ok) \/ UpdateStarted(ok)
             \/ UpdateRestored(ok) \/ UpdateRestarted(ok) \/ Recovered(ok)
      PROVE  /\ op.kind \in Kinds /\ op.at # "retire" /\ (Goes \/ Ends)
             /\ override' = override /\ disabled' = disabled
  BY <1>1 DEF SeedStarted, CreateStarted, UpdateTested, UpdateReplaced, UpdateStarted,
              UpdateRestored, UpdateRestarted, Recovered, Kinds
<1>2. ASSUME \/ CreateSaved \/ LegacyUnregistered \/ UpdateSaved
             \/ UpdateRolledBack \/ Unregistered \/ RemoveSaved
             \/ RemoveSaveFails \/ SetDefaultSaved \/ SaveFails \/ RolledBack
      PROVE  /\ op.kind \in Kinds /\ op.at # "retire" /\ (Goes \/ Ends)
             /\ override' = override /\ disabled' = disabled
  BY <1>2 DEF CreateSaved, CreateGoesOn, LegacyUnregistered, UpdateSaved,
              UpdateRolledBack, Unregistered, RemoveSaved,
              RemoveSaveFails, SetDefaultSaved, SaveFails, RolledBack, Kinds
<1>3. ASSUME RollbackFails \/ UpdateRollbackFails
      PROVE  /\ op.kind \in Kinds /\ (Goes \/ Ends) /\ op.at = "rollback"
             /\ override' = override /\ disabled' = TRUE
             /\ UNCHANGED <<disk, acked>> /\ registry' \in {registry, Target}
  BY <1>3 DEF RollbackFails, UpdateRollbackFails, Kinds
<1>4. ASSUME UpdateRetired
      PROVE  /\ op.kind \in Kinds /\ Ends /\ override' = override /\ disabled' = disabled
  BY <1>4 DEF UpdateRetired, Kinds
<1>5. /\ op.kind \in Kinds /\ (Goes \/ Ends) /\ override' = override
  BY <1>1, <1>2, <1>3, <1>4 DEF Continuations
<1>6. op \in Operations /\ op # NoOp
  BY <1>5, InProgress
<1>7. ASSUME Goes
      PROVE  /\ op' # NoOp /\ acked' = acked /\ op'.old = op.old /\ Target' = Target
  <2>1. PICK p \in Points : Continue(p)
    BY <1>7
  <2> QED
    BY <1>5, <1>6, <2>1, ContinueMoves
<1>8. disabled => UpdateRetired
  BY <1>1, <1>2, <1>3, <1>6 DEF Continuations, IInv, OpInv
<1>9. \/ disabled' = disabled
      \/ /\ disabled' = TRUE /\ UNCHANGED <<disk, acked>>
         /\ registry' \in {registry, Target}
  BY <1>1, <1>2, <1>3, <1>4 DEF Continuations
<1> HIDE DEF At, Continue, Reject, Acknowledge
<1> QED
  BY <1>5, <1>6, <1>7, <1>8, <1>9

\* A request that is admitted starts an operation; the others change nothing
\* the registry's readers see.
LEMMA RequestMoves ==
  ASSUME Requests
  PROVE  /\ UNCHANGED <<disk, registry, acked, disabled, override>>
         /\ \/ op' = op
            \/ op = NoOp /\ op' # NoOp /\ ~disabled
<1> USE DEF processVars, managerVars, serviceVars, Idle
<1>1. ASSUME NEW i \in Ids, NEW v \in Versions,
             remove(i) \/ setDefault(i) \/ create(i, v) \/ update(i, v)
      PROVE  /\ UNCHANGED <<disk, registry, acked, disabled, override>>
             /\ op = NoOp /\ ~disabled /\ op'.kind # "none"
  BY <1>1 DEF remove, setDefault, create, update, Submit
<1>2. ASSUME NEW i \in AllIds, connect(i) \/ GoesDown(i)
      PROVE  UNCHANGED <<disk, registry, acked, disabled, override, op>>
  BY <1>2 DEF connect, GoesDown
<1>3. PICK v \in Versions : TRUE
  OBVIOUS
<1>4. NoOp.kind = "none"
  BY DEF NoOp
<1> QED
  BY <1>1, <1>2, <1>3, <1>4 DEF Requests

\* What an operation is to produce is a registry, or none.
LEMMA TargetIsValue ==
  IInv /\ op # NoOp => Target \in Registries \cup {NoRegistry}
BY TargetFields DEF IInv, TypeOK, OpInv

\* The same in the next state.
LEMMA TargetIsValueNext ==
  (IInv /\ op # NoOp => Target \in Registries \cup {NoRegistry})'
BY TargetIsValue, PTL

\* The process starts with what the file holds, and nothing under way.
LEMMA InitRefines == Init => Change!Init
<1> SUFFICES ASSUME Init
    PROVE  Change!Init
  OBVIOUS
<1>1. Stored \in Registries \cup {NoRegistry} /\ Pending = {}
  BY DEF Init, Stored, BootRegistry, Pending
<1>2. registry = Stored /\ BootRegistry(acked) = Stored /\ disabled \in BOOLEAN
  BY DEF Init, Stored
<1> QED
  BY <1>1, <1>2 DEF Change!Init

\* Every step is a step of the atomic change, or changes nothing it speaks of.
LEMMA StepRefines ==
  ASSUME IInv, IInv', [Next]_vars
  PROVE  [Change!Next]_(Change!vars)
<1> USE DEF Stored
<1>1. ASSUME UNCHANGED <<disk, registry, acked, disabled, override, op>>
      PROVE  UNCHANGED Change!vars
  BY <1>1 DEF Change!vars, BootRegistry, Pending, nextRegistry, Migrating, FirstRegistry
<1>2. CASE Requests
  <2>1. CASE op' = op
    BY <1>1, <1>2, <2>1, RequestMoves
  <2>2. CASE op = NoOp /\ op' # NoOp /\ ~disabled
    <3>1. Pending = {} /\ Pending' = {Target'}
      BY <2>2 DEF Pending, Target
    <3>2. Target' \in Registries \cup {NoRegistry}
      BY <2>2, TargetIsValueNext
    <3>3. UNCHANGED <<Stored, registry, BootRegistry(acked), disabled>>
      BY <1>2, RequestMoves DEF BootRegistry
    <3> QED
      BY <2>2, <3>1, <3>2, <3>3 DEF Change!Begin, Change!Next
  <2> QED
    BY <1>2, <2>1, <2>2, RequestMoves
<1>3. CASE Continuations
  <2>1. op # NoOp /\ disabled \in BOOLEAN
    BY <1>3, ContinuationMoves DEF IInv, TypeOK
  <2>2. CASE disabled
    <3>1. UpdateRetired
      BY <1>3, <2>2, ContinuationMoves
    <3>2. Pending # {} /\ Pending' = {}
      BY <2>1, <3>1 DEF UpdateRetired, Reject, Pending
    <3>3. UNCHANGED <<Stored, registry, BootRegistry(acked), disabled>>
      BY <3>1 DEF UpdateRetired, Reject, serviceVars, BootRegistry
    <3> QED
      BY <2>2, <3>2, <3>3 DEF Change!FrozenAnswer, Change!Next
  <2>3. CASE ~disabled /\ disabled' = disabled
    <3>1. CASE op' = NoOp
      BY <1>3, <2>1, <2>3, <3>1, ContinuationMoves, AnswerRefines DEF Change!Next
    <3>2. CASE op' # NoOp
      BY <1>3, <2>1, <2>3, <3>2, ContinuationMoves, GoingOnRefines DEF Change!Next
    <3> QED
      BY <3>1, <3>2
  <2>4. CASE ~disabled /\ disabled' # disabled
    <3>1. /\ disabled' = TRUE /\ UNCHANGED <<disk, acked>>
          /\ registry' \in {registry, Target}
      BY <1>3, <2>4, ContinuationMoves
    <3>2. /\ Pending = {Target} /\ BootRegistry(acked) = op.old
          /\ registry \in {op.old, Target}
      BY <2>1, <2>4, MiddleOfChange
    <3>3. \/ op' = NoOp
          \/ op' # NoOp /\ Target' = Target
      BY <1>3, ContinuationMoves
    <3>4. Pending' \in {Pending, {}}
      BY <3>2, <3>3 DEF Pending, Target
    <3>5. UNCHANGED <<Stored, BootRegistry(acked)>>
      BY <3>1 DEF BootRegistry
    <3> QED
      BY <2>4, <3>1, <3>2, <3>4, <3>5 DEF Change!Freeze, Change!Next
  <2> QED
    BY <2>2, <2>3, <2>4
<1>4. CASE Restart
  <2>1. /\ registry' = Stored /\ BootRegistry(acked)' = Stored /\ Stored' = Stored
        /\ Pending' = {} /\ disabled' \in BOOLEAN
    BY <1>4 DEF Restart, BootRegistry, Pending
  <2> QED
    BY <2>1 DEF Change!Restart, Change!Next
<1>5. CASE stopAll \/ UNCHANGED vars
  BY <1>1, <1>5 DEF stopAll, vars, serviceVars, processVars
<1> QED
  BY <1>2, <1>3, <1>4, <1>5 DEF Next

\* A change of the registry is atomic for those who read it, who are answered
\* and who restart, and after a rollback that failed there are no more changes.
THEOREM ChangesStayAtomic == Spec => ChangesAreAtomic
<1>1. Safety => ChangesAreAtomic
  <2>1. Safety => []IInv
    BY InitInv, StepKeeps, PTL DEF Safety
  <2>2. IInv /\ IInv' /\ [Next]_vars => [Change!Next]_(Change!vars)
    BY StepRefines
  <2> QED
    BY <2>1, <2>2, InitRefines, PTL DEF Safety, ChangesAreAtomic, Change!Spec
<1> QED
  BY <1>1, PTL DEF Spec
=============================================================================
