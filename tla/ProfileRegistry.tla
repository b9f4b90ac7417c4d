--------------------------- MODULE ProfileRegistry ---------------------------
(***************************************************************************)
(* The registry of connection profiles: create, update, remove and set     *)
(* default of server/src/connections/profile-service.ts, over the store of *)
(* profiles.ts.                                                            *)
(*                                                                         *)
(* The same facts are kept four times: in the file, in the service's       *)
(* registry and profiles, and in the manager's entries.  An operation      *)
(* changes them one after the other, with awaits in between where the      *)
(* write may fail, the process may crash or the shutdown may begin.        *)
(* Operations are serialised by mutationQueue, so at most one is in        *)
(* progress.  A profile is its version; a write is atomic (temporary file  *)
(* and rename).                                                            *)
(***************************************************************************)
EXTENDS Naturals, FiniteSets

CONSTANTS
  Ids,               \* ids a persisted profile may have
  Local, Localhost,  \* the ids localMigrationSeed() chooses from
  Legacy,            \* LEGACY_DEFAULT_CONNECTION_ID, reserved
  Versions,          \* contents of a profile
  Synthetic,         \* the content of the synthetic local profile
  MaxProfiles,       \* MAX_CONNECTION_PROFILES
  Absent,            \* no profile under this id
  NoRegistry,        \* no file, or null in memory
  Broken             \* a file that load() rejects

ASSUME RegistryAssumption ==
  /\ {Local, Localhost} \subseteq Ids /\ Local # Localhost
  /\ Legacy \notin Ids
  /\ Synthetic \in Versions /\ Absent \notin Versions
  /\ MaxProfiles \in Nat
  /\ NoRegistry # Broken

AllIds == Ids \cup {Legacy}
Registries == [default : Ids, profiles : [Ids -> Versions \cup {Absent}]]

ASSUME RegistryDistinct == {NoRegistry, Broken} \cap Registries = {}

VARIABLES
  disk,        \* connections.json
  override,    \* explicitLegacyOverride of this process
  registry,    \* the service's registry
  profiles,    \* the service's profiles
  factory,     \* the manager's entries: the profile a runtime is built from
  default,     \* the manager's defaultConnectionId
  disabled,    \* mutationDisabledError is set
  stopping,    \* the manager's stopAll() has been called
  up,          \* connected, connecting, or enabled to reconnect
  op,          \* the operation at the head of mutationQueue
  acked        \* history: the registry after the last answered operation

serviceVars == <<registry, profiles, disabled>>
managerVars == <<factory, default, up>>
processVars == <<override, stopping>>
vars == <<disk, serviceVars, managerVars, processVars, op, acked>>

Kinds == {"create", "update", "remove", "setDefault"}
Points == {"test", "save", "rollback", "legacy", "seed", "start", "replace",
           "restore", "restart", "retire", "unregister", "recover"}
NoOp == [kind |-> "none"]
Operations ==
  [kind : Kinds, at : Points, id : Ids, version : Versions,
   old : Registries \cup {NoRegistry}, wasUp : BOOLEAN]

TypeOK ==
  /\ disk \in Registries \cup {NoRegistry, Broken}
  /\ override \in BOOLEAN /\ stopping \in BOOLEAN /\ disabled \in BOOLEAN
  /\ registry \in Registries \cup {NoRegistry}
  /\ profiles \in [AllIds -> Versions \cup {Absent}]
  /\ factory \in [AllIds -> Versions \cup {Absent}]
  /\ default \in AllIds
  /\ up \in [AllIds -> BOOLEAN]
  /\ op \in Operations \cup {NoOp}
  /\ acked \in Registries \cup {NoRegistry, Broken}

-----------------------------------------------------------------------------
(* Registries. *)

Listed(r) == {i \in Ids : r.profiles[i] # Absent}

\* validateConnectionRegistry()
Valid(r) ==
  /\ Listed(r) # {} /\ Cardinality(Listed(r)) <= MaxProfiles
  /\ r.default \in Listed(r)

\* save() validates before it writes; clear() has nothing to validate.
Writable(r) == IF r = NoRegistry THEN TRUE ELSE Valid(r)

Put(r, i, v) == [r EXCEPT !.profiles[i] = v]

localMigrationSeed(i) == IF i = Local THEN Localhost ELSE Local

\* The first persisted profile retires the synthetic default.
Migrating(o) == o.kind = "create" /\ o.old = NoRegistry /\ ~override

FirstRegistry(o) ==
  [default |-> o.id,
   profiles |-> [i \in Ids |->
     CASE i = o.id -> o.version
       [] i # o.id /\ ~override /\ i = localMigrationSeed(o.id) -> Synthetic
       [] OTHER -> Absent]]

\* nextRegistry of each operation.
nextRegistry(o) ==
  CASE o.kind = "create" /\ o.old = NoRegistry -> FirstRegistry(o)
    [] o.kind = "create" /\ o.old # NoRegistry -> Put(o.old, o.id, o.version)
    [] o.kind = "update" -> Put(o.old, o.id, o.version)
    [] o.kind = "remove" ->
         IF Listed(o.old) = {o.id} THEN NoRegistry ELSE Put(o.old, o.id, Absent)
    [] o.kind = "setDefault" -> [o.old EXCEPT !.default = o.id]

-----------------------------------------------------------------------------
(* Startup, crash and shutdown. *)

\* loadConnectionProfileBootstrap() and the constructor, from the file d with
\* the override flag o.
BootProfiles(d, o) ==
  [i \in AllIds |->
     IF i = Legacy THEN IF o \/ d \in {NoRegistry, Broken} THEN Synthetic ELSE Absent
     ELSE IF d \in {NoRegistry, Broken} THEN Absent ELSE d.profiles[i]]

\* Mutant: a broken file is taken for a registry.
BootRegistryUnchecked(d) == d

BootRegistry(d) == IF d = Broken THEN NoRegistry ELSE d
BootDefault(d, o) ==
  IF o \/ d \in {NoRegistry, Broken} THEN Legacy ELSE d.default

\* startConfigured() connects the default and those with auto_connect.
Init ==
  /\ disk \in {NoRegistry, Broken}
  /\ override \in BOOLEAN /\ stopping = FALSE
  /\ registry = BootRegistry(disk) /\ disabled = (disk = Broken)
  /\ profiles = BootProfiles(disk, override) /\ factory = profiles
  /\ default = BootDefault(disk, override)
  /\ up \in [AllIds -> BOOLEAN]
  /\ \A i \in AllIds : up[i] => factory[i] # Absent
  /\ op = NoOp
  /\ acked = disk

\* The process dies at any point and is started again.
Restart ==
  /\ override' \in BOOLEAN /\ stopping' = FALSE
  /\ registry' = BootRegistry(disk) /\ disabled' = (disk = Broken)
  /\ profiles' = BootProfiles(disk, override') /\ factory' = profiles'
  /\ default' = BootDefault(disk, override')
  /\ up' \in [AllIds -> BOOLEAN]
  /\ \A i \in AllIds : up'[i] => factory'[i] # Absent
  /\ op' = NoOp
  /\ acked' = disk
  /\ UNCHANGED disk

stopAll ==
  /\ ~stopping /\ stopping' = TRUE
  /\ up' = [i \in AllIds |-> FALSE]
  /\ UNCHANGED <<disk, serviceVars, factory, default, override, op, acked>>

-----------------------------------------------------------------------------
(* The answer of an operation, and its starts.                             *)

At(point) == op.at = point
Continue(point) == op' = [op EXCEPT !.at = point] /\ UNCHANGED acked
Acknowledge == op' = NoOp /\ acked' = nextRegistry(op)
Reject == op' = NoOp /\ UNCHANGED acked

Submit(kind, point, i, v, was) ==
  /\ op' = [kind |-> kind, at |-> point, id |-> i, version |-> v,
            old |-> registry, wasUp |-> was]
  /\ UNCHANGED acked

\* A failed start leaves an SSH connection enabled to retry, a local one down.
StartSettles(i, ok) ==
  \E connected \in BOOLEAN :
    /\ up' = [up EXCEPT ![i] = connected]
    /\ connected => ~stopping
    /\ ok => connected

Idle == op = NoOp

\* The connections in between, as far as the registry reads them: connect, and
\* disconnect or a failure for good.
connect(i) ==
  /\ Idle /\ ~stopping
  /\ factory[i] # Absent /\ ~up[i]
  /\ up' = [up EXCEPT ![i] = TRUE]
  /\ UNCHANGED <<disk, serviceVars, factory, default, processVars, op, acked>>

GoesDown(i) ==
  /\ up[i]
  /\ up' = [up EXCEPT ![i] = FALSE]
  /\ UNCHANGED <<disk, serviceVars, factory, default, processVars, op, acked>>

-----------------------------------------------------------------------------
(* create *)

create(i, v) ==
  /\ Idle /\ ~disabled
  /\ profiles[i] = Absent /\ factory[i] = Absent
  /\ Submit("create", "save", i, v, FALSE)
  /\ UNCHANGED <<disk, serviceVars, managerVars, processVars>>

Created(o) ==
  IF Migrating(o) THEN {o.id, localMigrationSeed(o.id)} ELSE {o.id}

WithCreated(f) ==
  [i \in AllIds |-> IF i \in Created(op) THEN nextRegistry(op).profiles[i] ELSE f[i]]

\* After the registration: migrate, connect, or answer.
CreateGoesOn ==
  IF Migrating(op) THEN Continue("legacy")
  ELSE \/ Continue("start")
       \/ default # op.id /\ Acknowledge

CreateSaved ==
  /\ op.kind = "create" /\ At("save")
  /\ Writable(nextRegistry(op))
  /\ disk' = nextRegistry(op)
  /\ \/ /\ stopping                      \* register() throws
        /\ Continue("rollback")
        /\ UNCHANGED <<registry, profiles, managerVars>>
     \/ /\ ~stopping
        /\ registry' = nextRegistry(op)
        /\ profiles' = WithCreated(profiles)
        /\ factory' = WithCreated(factory)
        /\ default' = IF Migrating(op) THEN op.id ELSE default
        /\ up' = IF Migrating(op) THEN [up EXCEPT ![Legacy] = FALSE] ELSE up
        /\ CreateGoesOn
  /\ UNCHANGED <<disabled, processVars>>

\* The synthetic default is stopped and removed from the manager.
LegacyUnregistered ==
  /\ op.kind = "create" /\ At("legacy")
  /\ factory' = [factory EXCEPT ![Legacy] = Absent]
  /\ profiles' = [profiles EXCEPT ![Legacy] = Absent]
  /\ Continue("seed")
  /\ UNCHANGED <<disk, registry, disabled, default, up, processVars>>

SeedStarted(ok) ==
  /\ op.kind = "create" /\ At("seed")
  /\ StartSettles(localMigrationSeed(op.id), ok)
  /\ Continue("start")
  /\ UNCHANGED <<disk, serviceVars, factory, default, processVars>>

CreateStarted(ok) ==
  /\ op.kind = "create" /\ At("start")
  /\ StartSettles(op.id, ok)
  /\ Acknowledge
  /\ UNCHANGED <<disk, serviceVars, factory, default, processVars>>

-----------------------------------------------------------------------------
(* update *)

update(i, v) ==
  /\ Idle /\ ~disabled
  /\ profiles[i] # Absent /\ factory[i] # Absent
  /\ \/ Submit("update", "save", i, v, up[i])
     \/ up[i] /\ Submit("update", "test", i, v, TRUE)
  /\ UNCHANGED <<disk, serviceVars, managerVars, processVars>>

UpdateTested(ok) ==
  /\ op.kind = "update" /\ At("test")
  /\ IF ok THEN Continue("save") ELSE Reject
  /\ UNCHANGED <<disk, serviceVars, managerVars, processVars>>

\* replace() installs the factory before it awaits the stop of the old runtime.
UpdateSaved ==
  /\ op.kind = "update" /\ At("save")
  /\ disk' = nextRegistry(op)
  /\ up' = [up EXCEPT ![op.id] = FALSE]
  /\ \/ /\ stopping                      \* replace() throws
        /\ Continue("rollback")
        /\ UNCHANGED factory
     \/ /\ ~stopping
        /\ Continue("replace")
        /\ factory' = [factory EXCEPT ![op.id] = op.version]
  /\ UNCHANGED <<serviceVars, default, processVars>>

UpdateReplaced(ok) ==
  /\ op.kind = "update" /\ At("replace")
  /\ \/ /\ ok
        /\ profiles' = [profiles EXCEPT ![op.id] = op.version]
        /\ registry' = nextRegistry(op)
        /\ \/ Continue("start")
           \/ ~op.wasUp /\ default # op.id /\ Acknowledge
     \/ /\ ~ok
        /\ Continue("rollback")
        /\ UNCHANGED <<profiles, registry>>
  /\ UNCHANGED <<disk, disabled, managerVars, processVars>>

\* Mutant: the rejected start is passed on without a rollback.
UpdateStartedOnly(ok) ==
  /\ op.kind = "update" /\ At("start")
  /\ ok => ~stopping
  /\ up' = [up EXCEPT ![op.id] = ok]
  /\ IF ok THEN Acknowledge ELSE Reject
  /\ UNCHANGED <<disk, serviceVars, factory, default, processVars>>

UpdateStarted(ok) ==
  /\ op.kind = "update" /\ At("start")
  /\ ok => ~stopping
  /\ up' = [up EXCEPT ![op.id] = ok]
  /\ IF ok THEN Acknowledge ELSE Continue("rollback")
  /\ UNCHANGED <<disk, serviceVars, factory, default, processVars>>

UpdateRolledBack ==
  /\ op.kind = "update" /\ At("rollback")
  /\ disk' = op.old
  /\ profiles' = [profiles EXCEPT ![op.id] = op.old.profiles[op.id]]
  /\ registry' = op.old
  /\ \/ /\ stopping                      \* replace() throws
        /\ Reject
        /\ UNCHANGED factory
     \/ /\ ~stopping
        /\ factory' = [factory EXCEPT ![op.id] = op.old.profiles[op.id]]
        /\ Continue("restore")
  /\ UNCHANGED <<disabled, default, up, processVars>>

\* Mutant: memory goes back although the file did not.
UpdateRollbackFailsOldMemory ==
  /\ op.kind = "update" /\ At("rollback")
  /\ disabled' = TRUE
  /\ profiles' = [profiles EXCEPT ![op.id] = op.old.profiles[op.id]]
  /\ registry' = op.old
  /\ up' = [up EXCEPT ![op.id] = FALSE]
  /\ Continue("retire")
  /\ UNCHANGED <<disk, factory, default, processVars>>

\* The file keeps the replacement, and so does memory.
UpdateRollbackFails ==
  /\ op.kind = "update" /\ At("rollback")
  /\ disabled' = TRUE
  /\ profiles' = [profiles EXCEPT ![op.id] = op.version]
  /\ registry' = nextRegistry(op)
  /\ up' = [up EXCEPT ![op.id] = FALSE]
  /\ Continue("retire")
  /\ UNCHANGED <<disk, factory, default, processVars>>

UpdateRetired ==
  /\ op.kind = "update" /\ At("retire")
  /\ Reject
  /\ UNCHANGED <<disk, serviceVars, managerVars, processVars>>

\* Mutant: an operation that cannot restore its runtime is never answered.
UpdateRestoredOnly(ok) ==
  /\ op.kind = "update" /\ At("restore")
  /\ ok /\ op.wasUp /\ Continue("restart")
  /\ UNCHANGED <<disk, serviceVars, managerVars, processVars>>

UpdateRestored(ok) ==
  /\ op.kind = "update" /\ At("restore")
  /\ IF ok /\ op.wasUp THEN Continue("restart") ELSE Reject
  /\ UNCHANGED <<disk, serviceVars, managerVars, processVars>>

UpdateRestarted(ok) ==
  /\ op.kind = "update" /\ At("restart")
  /\ StartSettles(op.id, ok)
  /\ Reject
  /\ UNCHANGED <<disk, serviceVars, factory, default, processVars>>

-----------------------------------------------------------------------------
(* remove *)

remove(i) ==
  /\ Idle /\ ~disabled
  /\ profiles[i] # Absent /\ default # i
  /\ Listed(registry) = {i} => override
  /\ ~stopping                           \* unregister() throws
  /\ Submit("remove", "unregister", i, profiles[i], up[i])
  /\ up' = [up EXCEPT ![i] = FALSE]
  /\ UNCHANGED <<disk, serviceVars, factory, default, processVars>>

Unregistered ==
  /\ op.kind = "remove" /\ At("unregister")
  /\ factory' = [factory EXCEPT ![op.id] = Absent]
  /\ Continue("save")
  /\ UNCHANGED <<disk, serviceVars, default, up, processVars>>

RemoveSaved ==
  /\ op.kind = "remove" /\ At("save")
  /\ Writable(nextRegistry(op))
  /\ disk' = nextRegistry(op)
  /\ profiles' = [profiles EXCEPT ![op.id] = Absent]
  /\ registry' = nextRegistry(op)
  /\ Acknowledge
  /\ UNCHANGED <<disabled, managerVars, processVars>>

RemoveSaveFails ==
  /\ op.kind = "remove" /\ At("save")
  /\ \/ /\ stopping                      \* register() throws
        /\ Reject
        /\ UNCHANGED factory
     \/ /\ ~stopping
        /\ factory' = [factory EXCEPT ![op.id] = profiles[op.id]]
        /\ IF op.wasUp THEN Continue("recover") ELSE Reject
  /\ UNCHANGED <<disk, serviceVars, default, up, processVars>>

Recovered(ok) ==
  /\ op.kind = "remove" /\ At("recover")
  /\ StartSettles(op.id, ok)
  /\ Reject
  /\ UNCHANGED <<disk, serviceVars, factory, default, processVars>>

-----------------------------------------------------------------------------
(* set default *)

setDefault(i) ==
  /\ Idle /\ ~disabled /\ ~override
  /\ profiles[i] # Absent
  /\ Submit("setDefault", "save", i, profiles[i], FALSE)
  /\ UNCHANGED <<disk, serviceVars, managerVars, processVars>>

\* Mutant: memory is changed before the manager accepts the new default.
SetDefaultSavedMemoryFirst ==
  /\ op.kind = "setDefault" /\ At("save")
  /\ disk' = nextRegistry(op)
  /\ registry' = nextRegistry(op)
  /\ \/ stopping /\ Continue("rollback") /\ UNCHANGED default
     \/ ~stopping /\ Acknowledge /\ default' = op.id
  /\ UNCHANGED <<profiles, disabled, factory, up, processVars>>

SetDefaultSaved ==
  /\ op.kind = "setDefault" /\ At("save")
  /\ disk' = nextRegistry(op)
  /\ \/ /\ stopping                      \* the manager's setDefault() throws
        /\ Continue("rollback")
        /\ UNCHANGED <<default, registry>>
     \/ /\ ~stopping
        /\ default' = op.id
        /\ registry' = nextRegistry(op)
        /\ Acknowledge
  /\ UNCHANGED <<profiles, disabled, factory, up, processVars>>

-----------------------------------------------------------------------------
(* What several operations share. *)

\* The first write fails, or the new registry is not valid.
SaveFails ==
  /\ op.kind \in {"create", "update", "setDefault"} /\ At("save")
  /\ Reject
  /\ UNCHANGED <<disk, serviceVars, managerVars, processVars>>

RolledBack ==
  /\ op.kind \in {"create", "setDefault"} /\ At("rollback")
  /\ disk' = op.old
  /\ Reject
  /\ UNCHANGED <<serviceVars, managerVars, processVars>>

RollbackFails ==
  /\ op.kind \in {"create", "setDefault"} /\ At("rollback")
  /\ disabled' = TRUE
  /\ Reject
  /\ UNCHANGED <<disk, registry, profiles, managerVars, processVars>>

Requests ==
  \/ \E i \in Ids : remove(i) \/ setDefault(i)
  \/ \E i \in Ids, v \in Versions : create(i, v) \/ update(i, v)
  \/ \E i \in AllIds : connect(i) \/ GoesDown(i)

Continuations ==
  \/ CreateSaved \/ LegacyUnregistered
  \/ UpdateSaved \/ UpdateRolledBack \/ UpdateRollbackFails \/ UpdateRetired
  \/ Unregistered \/ RemoveSaved \/ RemoveSaveFails
  \/ SetDefaultSaved \/ SaveFails \/ RolledBack \/ RollbackFails
  \/ \E ok \in BOOLEAN :
       \/ SeedStarted(ok) \/ CreateStarted(ok)
       \/ UpdateTested(ok) \/ UpdateReplaced(ok) \/ UpdateStarted(ok)
       \/ UpdateRestored(ok) \/ UpdateRestarted(ok) \/ Recovered(ok)

Next == Requests \/ Continuations \/ Restart \/ stopAll

Safety == Init /\ [][Next]_vars

\* Writes, stops and starts settle; nobody has to call, crash or shut down.
Spec == Safety /\ WF_vars(Continuations)

-----------------------------------------------------------------------------
(* Properties. *)

Stored == BootRegistry(disk)

\* Between operations the file, the service and the manager agree, whatever
\* failed before: the same ids, each with the content a runtime is built from,
\* and the default that requests without an id go to.
ViewsAgree ==
  Idle /\ ~stopping =>
    /\ registry = Stored
    /\ profiles = BootProfiles(disk, override)
    /\ factory = profiles
    /\ default = BootDefault(disk, override)

\* Requests without an id always find the entry they are routed to.
DefaultIsRouted == factory[default] # Absent

\* A rejected operation leaves nothing in the file and an answered one stays,
\* over crashes and shutdowns too; only a failed rollback, which disables further
\* changes, may leave the unanswered registry.
AnswersAreDurable ==
  \/ disabled
  \/ disk = acked
  \/ op # NoOp /\ disk = nextRegistry(op)

\* Every operation is answered, so the queue moves on.
OperationsEnd == op # NoOp ~> op = NoOp

-----------------------------------------------------------------------------
\* The registry is the value that is changed.
Pending == IF op = NoOp THEN {} ELSE {nextRegistry(op)}

Change == INSTANCE AtomicChange
  WITH Values <- Registries \cup {NoRegistry}, stored <- Stored,
       shown <- registry, answered <- BootRegistry(acked), pending <- Pending,
       frozen <- disabled

\* Changes are atomic for those who read the registry, who are answered and who
\* restart: whatever fails on the way, the file and the answers have the old
\* registry or the new one, and a change whose rollback failed is the last one.
ChangesAreAtomic == Change!Spec

-----------------------------------------------------------------------------
(* The inductive invariant behind them. *)

Doing(kind, points) == op.kind = kind /\ op.at \in points

\* The registry the operation is to produce.
Target == nextRegistry(op)

\* The points an operation goes through, and what it was admitted with.
OpInv ==
  op # NoOp =>
    /\ \/ Doing("create", {"save", "rollback", "legacy", "seed", "start"})
       \/ Doing("update", {"test", "save", "replace", "start", "rollback",
                           "restore", "restart", "retire"})
       \/ Doing("remove", {"unregister", "save", "recover"})
       \/ Doing("setDefault", {"save", "rollback"})
    /\ op.at \in {"legacy", "seed"} => Migrating(op) /\ default = op.id
    /\ op.at = "rollback" => op.kind = "update" \/ stopping
    /\ op.at = "retire" <=> disabled
    /\ op.kind # "create" =>
         op.old \in Registries /\ op.old.profiles[op.id] # Absent
    /\ op.kind = "remove" =>
         default # op.id /\ (Listed(op.old) = {op.id} => override)
    /\ op.kind = "setDefault" => ~override

\* The default of a registry is one of its profiles.
Routed(r) == r \in Registries => r.profiles[r.default] # Absent

RoutedInv ==
  /\ Routed(disk) /\ Routed(registry)
  /\ op # NoOp => Routed(op.old)

\* The service's registry is the old one up to a point, then the new one.
RegistryInv ==
  op # NoOp =>
    /\ op.at \in {"legacy", "seed", "start", "retire"} => registry = Target
    /\ Doing("update", {"rollback"}) => registry \in {op.old, Target}
    /\ Doing("create", {"rollback"}) \/ Doing("setDefault", {"rollback"}) =>
         registry = op.old
    /\ op.at \in {"test", "save", "unregister", "recover", "replace", "restore",
                  "restart"} => registry = op.old

\* The service's profiles are those of its registry, while a shutdown is under
\* way too.  The synthetic profile goes a step later.
ProfilesInv ==
  /\ \A i \in Ids :
       profiles[i] = IF registry = NoRegistry THEN Absent ELSE registry.profiles[i]
  /\ \/ Doing("create", {"legacy"}) /\ profiles[Legacy] = Synthetic
     \/ ~Doing("create", {"legacy"}) /\ profiles[Legacy] =
          IF override \/ registry = NoRegistry THEN Synthetic ELSE Absent

\* The file was written, and the rest is still to follow or to be taken back.
Written == op # NoOp /\ op.at \in {"replace", "rollback"}

\* The file is ahead of the registry in the middle of a change alone, or when a
\* shutdown stopped the change and its rollback failed.
DiskInv ==
  /\ disk = Broken => disabled /\ op = NoOp
  /\ Written => disk = Target
  /\ ~Written /\ ~(stopping /\ disabled) => registry = BootRegistry(disk)

\* What the manager has for an id: it is ahead of the service in the middle of
\* an update and of a removal.
Factory(i) ==
  CASE Doing("update", {"replace", "rollback"}) /\ i = op.id -> op.version
    [] Doing("remove", {"save"}) /\ i = op.id -> Absent
    [] OTHER -> profiles[i]

FactoryInv == ~stopping => \A i \in AllIds : factory[i] = Factory(i)

DefaultInv ==
  /\ factory[default] # Absent
  /\ ~stopping => default = BootDefault(registry, override)

\* An operation starts from the registry that was answered last.
AckInv ==
  ~disabled => acked = IF op = NoOp THEN disk ELSE op.old

IInv ==
  /\ TypeOK /\ OpInv /\ RoutedInv /\ RegistryInv /\ ProfilesInv /\ DiskInv
  /\ FactoryInv /\ DefaultInv /\ AckInv
=============================================================================
