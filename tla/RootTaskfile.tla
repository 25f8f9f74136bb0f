---------------------------- MODULE RootTaskfile ----------------------------
(***************************************************************************)
(* The root Taskfile, internal/features/root/adapters/taskfile and the     *)
(* part of internal/features/plan that feeds it: a file of the user's into *)
(* which every run merges includes of the synced modules, the variables    *)
(* their Taskfiles declare and tasks that fan out to them.  What belongs   *)
(* to TaskOtter is not marked in the file: it is inferred from the lock of *)
(* the previous run, which a run writes after the file, and which a run    *)
(* with sync-root: false writes without it.                                *)
(*                                                                         *)
(* The file stays at one path (root-taskfile is given, or the target       *)
(* folder does not change).  An include's "dir", the version and comments  *)
(* are left out.                                                           *)
(***************************************************************************)
EXTENDS Naturals, SequencesExt, Selections

CONSTANTS
    Tasks,          \* logical tasks, the aliases of their includes
    Vars,           \* variables of module Taskfiles and of the root Taskfile
    Names,          \* names of tasks a module may export
    Targets,        \* target folders
    Metadata,       \* store modules that have a metadata.yml
    MetadataOf,     \* the one that describes a task's module in a release, if any
    Releases,       \* releases of the store
    ModuleVars,     \* variables of a task's module, in order, in a release
    BlockVars,      \* those of them that are block scalars
    Exports,        \* how often its metadata.yml lists a name in a release
    Configs,        \* configurations: tasks in order, target, sync-root
    Foreign,        \* path of an include that is no synced module's
    NoPath,         \* an include without a taskfile key
    NoEntry,        \* no include of an alias
    NoTask,         \* no root task of a name
    ByUser,         \* a root task the user wrote
    None,           \* no lock, no metadata
    MaxEdits,       \* bound on edits, releases and reconfigurations
    MaxFaults       \* bound on crashes

ASSUME ConstantsAssumption ==
    /\ MetadataOf \in [Releases -> [Tasks -> Metadata \cup {None}]]
    /\ ModuleVars \in [Releases -> [Tasks -> Seq(Vars)]]
    /\ \A r \in Releases, t \in Tasks : IsInjective(ModuleVars[r][t])
    /\ BlockVars \in [Releases -> SUBSET (Tasks \X Vars)]
    /\ Exports \in [Releases -> [Metadata -> [Names -> Nat]]]
    /\ Configs \subseteq
           [tasks : Seq(Tasks), target : Targets, syncRoot : BOOLEAN]
    /\ \A c \in Configs : c.tasks # <<>> /\ IsInjective(c.tasks)
    /\ MaxEdits \in Nat
    /\ MaxFaults \in Nat

Entry == [scalar : BOOLEAN,
          path : Targets \cup {Foreign, NoPath},
          vars : [Vars -> {"unset", "reference", "own"}]]

Lock == [cfg : Configs, generated : SUBSET Names]

ASSUME SentinelsAssumption ==
    /\ {Foreign, NoPath} \cap Targets = {}
    /\ Foreign # NoPath
    /\ NoEntry \notin Entry
    /\ {NoTask, ByUser} \cap Seq(Tasks) = {}
    /\ NoTask # ByUser
    /\ None \notin Lock
    /\ None \notin Metadata

VARIABLES
    includes,       \* includes of the root Taskfile
    order,          \* its variables, in the order of the file
    value,          \* where the value of each variable comes from
    tasks,          \* its tasks: a generated one lists the modules it calls
    broken,         \* the file does not parse or a section is no mapping
    lock,           \* the lock of the last run that wrote one
    config,         \* the action's inputs
    release,        \* release of the store
    pc,             \* where the run is in ApplyPlan
    outcome,        \* how the last run ended, if nothing was edited since
    edits,          \* edits, releases and reconfigurations so far
    faults,         \* crashes so far
    lostIncludes,   \* auxiliary: modules no lock remembers including
    lostTasks       \* auxiliary: tasks no lock remembers generating

root == <<includes, order, value, tasks>>
lost == <<lostIncludes, lostTasks>>
vars == <<root, broken, lock, config, release, pc, outcome, edits, faults, lost>>

-----------------------------------------------------------------------------
(* The input of an update. *)

Requested == ToSet(config.tasks)
VarsOf(t) == ModuleVars[release][t]

\* resolveManagedTasks: without a lock the configured tasks, and no root task.
Managed == IF lock = None THEN Requested ELSE ToSet(lock.cfg.tasks)
ManagedRoot == IF lock = None THEN {} ELSE lock.generated

\* commonStoreTaskNames: a name that two modules of the store export.
Common(r) == {n \in Names : \E m1, m2 \in Metadata :
    m1 # m2 /\ Exports[r][m1][n] > 0 /\ Exports[r][m2][n] > 0}

\* generatedTaskMetadata may find none for a task.
Listings(r, t, n) ==
    IF MetadataOf[r][t] = None THEN 0 ELSE Exports[r][MetadataOf[r][t]][n]

\* addCommonExportedTasks: the requested tasks one after the other, each as often
\* as its module lists the name.
MembersUpTo(c, r, n) ==
    LET upTo[i \in 0 .. Len(c.tasks)] ==
            IF i = 0 THEN <<>>
            ELSE upTo[i - 1] \o
                     [j \in 1 .. Listings(r, c.tasks[i], n) |-> c.tasks[i]]
    IN  upTo

\* groupModulesByGeneratedTask: what a root task would call.
Members(n) ==
    IF n \in Common(release)
    THEN MembersUpTo(config, release, n)[Len(config.tasks)] ELSE <<>>

\* qualifyingGeneratedTaskNames.
Generated == {n \in Names : Len(Members(n)) >= 2}

\* Mutant: the lock keeps the configuration it had.
StaleLock == [cfg |-> IF lock = None THEN config ELSE lock.cfg,
              generated |-> IF config.syncRoot THEN Generated ELSE {}]

\* buildLock; without the root Taskfile no task counts as generated.
NewLock == [cfg |-> config,
            generated |-> IF config.syncRoot THEN Generated ELSE {}]

(* Variables. *)

\* Mutant: the variables of the tasks one after the other, with repetitions.
PromotedTwice == FlattenSeq([i \in DOMAIN config.tasks |-> VarsOf(config.tasks[i])])

\* orderedPromotedVarKeys: in the order of the tasks and of their modules.
PromotedUpTo(c, r) ==
    LET upTo[i \in 0 .. Len(c.tasks)] ==
            IF i = 0 THEN <<>>
            ELSE upTo[i - 1] \o
                     Selected(ModuleVars[r][c.tasks[i]], Vars \ ToSet(upTo[i - 1]))
    IN  upTo

Promoted == PromotedUpTo(config, release)[Len(config.tasks)]

\* storeExtractedVars: the first module that has a variable decides its value.
BlockOfModule(k) ==
    \E i \in DOMAIN config.tasks :
        /\ Contains(VarsOf(config.tasks[i]), k)
        /\ \A j \in 1 .. i - 1 : ~Contains(VarsOf(config.tasks[j]), k)
        /\ <<config.tasks[i], k>> \in BlockVars[release]

\* addMissingPromotedVar: variables the file lacks go to its end.
Appended == order \o Selected(Promoted, Vars \ ToSet(order))

\* Mutant: promoted variables stay where they are.
NotReordered == Appended

\* reorderPromotedVars: the promoted variables take the slots of promoted
\* variables in their own order; the others keep theirs.
Reordered ==
    LET Slot(i) == Len(SelectedUpTo(Appended, ToSet(Promoted))[i])
    IN  [i \in DOMAIN Appended |->
            IF Contains(Promoted, Appended[i]) THEN Promoted[Slot(i)] ELSE Appended[i]]

\* Mutant: a block that is already in the file is folded by the encoder.
BlocksReencoded(k) ==
    IF ~Contains(Promoted, k) THEN value[k]
    ELSE IF value[k] = "block" THEN "default"
    ELSE IF BlockOfModule(k) THEN "block"
    ELSE IF value[k] = "absent" THEN "default"
    ELSE value[k]

\* Mutant: the module's value replaces the user's.
ValueOfModule(k) ==
    IF ~Contains(Promoted, k) \/ value[k] \in {"block", "ownblock"} THEN value[k]
    ELSE IF BlockOfModule(k) THEN "block" ELSE "default"

\* addMissingPromotedVar for the value, then protectRootBlockVars: a block of the
\* file is spliced back byte for byte, a block of the module replaces the rest.
UpdatedValue(k) ==
    IF ~Contains(Promoted, k) \/ value[k] \in {"block", "ownblock"} THEN value[k]
    ELSE IF BlockOfModule(k) THEN "block"
    ELSE IF value[k] = "absent" THEN "default"
    ELSE value[k]

(* Includes. *)

Unset == [k \in Vars |-> "unset"]

\* isManagedInclude: known by its path, or by its alias when it has none.
IsManagedInclude(t) ==
    IF ~includes[t].scalar /\ includes[t].path = NoPath THEN t \in Managed
    ELSE includes[t].path = config.target

\* parseTaskfileRoot and findOrCreateMappingNode fail, or ensureManagedInclude
\* does for some task.
Refused ==
    broken \/ \E t \in Requested : includes[t] # NoEntry /\ ~IsManagedInclude(t)

\* mergeIncludeVars: the module's variables refer to those of the root; an
\* include's other variables stay.
MergedVars(t, vs) == [k \in Vars |-> IF Contains(VarsOf(t), k) THEN "reference" ELSE vs[k]]

\* upsertIncludeAtPath: what is appended to a scalar include is not encoded.
Upserted(t) ==
    LET e == includes[t] IN
    IF e = NoEntry
    THEN [scalar |-> FALSE, path |-> config.target, vars |-> MergedVars(t, Unset)]
    ELSE IF e.scalar THEN e
    ELSE [e EXCEPT !.path = config.target, !.vars = MergedVars(t, e.vars)]

\* Mutant: includes of dropped tasks stay.
NeverPruned == [t \in Tasks |-> IF t \in Requested THEN Upserted(t) ELSE includes[t]]

\* pruneRemovedManagedIncludes and upsertManagedIncludes.
UpdatedIncludes ==
    [t \in Tasks |->
        IF t \in Requested THEN Upserted(t)
        ELSE IF t \in Managed THEN NoEntry ELSE includes[t]]

(* Tasks. *)

\* Mutant: a task that is no longer generated stays.
NeverRemoved == [n \in Names |-> IF n \in Generated THEN Members(n) ELSE tasks[n]]

\* removeStaleGenTasks, then applyGeneratedTasks.
UpdatedTasks ==
    [n \in Names |->
        IF n \in Generated THEN Members(n)
        ELSE IF n \in ManagedRoot THEN NoTask ELSE tasks[n]]

-----------------------------------------------------------------------------
(* A run: BuildPlan decides, ApplyPlan promotes the root Taskfile before the *)
(* lock. *)

\* UpdateRootTaskfile fails while planning: nothing is written.
Refuse ==
    /\ pc = "idle"
    /\ config.syncRoot
    /\ Refused
    /\ outcome' = "refused"
    /\ UNCHANGED <<root, broken, lock, config, release, pc, edits, faults, lost>>

\* UpdateRootTaskfile on what was read, and the promotion of the result.
WriteRoot ==
    /\ pc = "idle"
    /\ config.syncRoot
    /\ ~Refused
    /\ includes' = UpdatedIncludes
    /\ order' = Reordered
    /\ value' = [k \in Vars |-> UpdatedValue(k)]
    /\ tasks' = UpdatedTasks
    /\ pc' = "lock"
    /\ outcome' = "none"
    /\ UNCHANGED <<broken, lock, config, release, edits, faults, lost>>

\* planRootTaskfile with sync-root: false: the file is not even read.
SkipRoot ==
    /\ pc = "idle"
    /\ ~config.syncRoot
    /\ pc' = "lock"
    /\ outcome' = "none"
    /\ UNCHANGED <<root, broken, lock, config, release, edits, faults, lost>>

\* The lock is promoted.  One that does not say what an earlier one said of the
\* file, because the run left the file alone, makes TaskOtter forget it.
WriteLock ==
    /\ pc = "lock"
    /\ lock' = NewLock
    /\ pc' = "idle"
    /\ outcome' = "synced"
    /\ lostIncludes' = IF config.syncRoot
                       THEN lostIncludes \ (Requested \cup Managed)
                       ELSE (lostIncludes \cup Managed) \ Requested
    /\ lostTasks' = IF config.syncRoot
                    THEN lostTasks \ (Generated \cup ManagedRoot)
                    ELSE lostTasks \cup ManagedRoot
    /\ UNCHANGED <<root, broken, config, release, edits, faults>>

\* The run dies, or an I/O error ends it, before the lock is written: of what it
\* put into the file only what an earlier lock lists is remembered.
Crash ==
    /\ pc = "lock"
    /\ faults < MaxFaults
    /\ faults' = faults + 1
    /\ pc' = "idle"
    /\ outcome' = "crashed"
    /\ lostIncludes' = lostIncludes \cup
           {t \in Requested : config.syncRoot /\ (lock = None \/ t \notin Managed)}
    /\ lostTasks' = lostTasks \cup {n \in Generated \ ManagedRoot : config.syncRoot}
    /\ UNCHANGED <<root, broken, lock, config, release, edits>>

-----------------------------------------------------------------------------
(* Between two runs. *)

Edit ==
    /\ pc = "idle"
    /\ edits < MaxEdits
    /\ edits' = edits + 1
    /\ outcome' = "none"
    /\ UNCHANGED <<lock, pc, faults, lost>>

\* An include as the user may write it where the lock lists its module: by path
\* alone, with a variable of their own, or without the path.
HandWritten(t) ==
    {e \in Entry :
        /\ lock # None /\ t \in Managed
        /\ IF e.scalar THEN e.path = lock.cfg.target /\ e.vars = Unset
           ELSE /\ e.path \in {lock.cfg.target, NoPath}
                /\ \E k \in Vars : e.vars = [Unset EXCEPT ![k] = "own"]}

\* The user deletes an include, points it at a file of theirs or rewrites it.
EditInclude(t) ==
    /\ Edit
    /\ \E e \in HandWritten(t) \cup
                {NoEntry, [scalar |-> FALSE, path |-> Foreign, vars |-> Unset]} :
           /\ e # includes[t]
           /\ includes' = [includes EXCEPT ![t] = e]
    /\ UNCHANGED <<order, value, tasks, broken, config, release>>

\* The user adds, changes or deletes a variable.
EditVar(k) ==
    /\ Edit
    /\ \E v \in {"absent", "own", "ownblock"} :
           /\ v # value[k]
           /\ value' = [value EXCEPT ![k] = v]
           /\ order' = IF v = "absent" THEN Selected(order, Vars \ {k})
                       ELSE IF value[k] = "absent" THEN Append(order, k)
                       ELSE order
    /\ UNCHANGED <<includes, tasks, broken, config, release>>

\* The user moves the variables around.
MoveVars ==
    /\ Edit
    /\ Len(order) > 1
    /\ order' \in {Reverse(order), Tail(order) \o <<Head(order)>>}
    /\ UNCHANGED <<includes, value, tasks, broken, config, release>>

\* The user writes a task of a name modules export, or deletes one.
EditTask(n) ==
    /\ Edit
    /\ \E x \in {ByUser, NoTask} :
           /\ x # tasks[n]
           /\ tasks' = [tasks EXCEPT ![n] = x]
    /\ UNCHANGED <<includes, order, value, broken, config, release>>

\* The file stops being valid, or is mended.
Break ==
    /\ Edit
    /\ broken' = ~broken
    /\ UNCHANGED <<root, config, release>>

Reconfigure ==
    /\ Edit
    /\ config' \in Configs \ {config}
    /\ UNCHANGED <<root, broken, release>>

Publish ==
    /\ Edit
    /\ release' \in Releases \ {release}
    /\ UNCHANGED <<root, broken, config>>

Init ==
    /\ includes = [t \in Tasks |-> NoEntry]
    /\ order = <<>>
    /\ value = [k \in Vars |-> "absent"]
    /\ tasks = [n \in Names |-> NoTask]
    /\ broken = FALSE
    /\ lock = None
    /\ config \in Configs
    /\ release \in Releases
    /\ pc = "idle"
    /\ outcome = "none"
    /\ edits = 0
    /\ faults = 0
    /\ lostIncludes = {}
    /\ lostTasks = {}

Run == Refuse \/ WriteRoot \/ SkipRoot \/ WriteLock \/ Crash

Next ==
    \/ Run
    \/ \E t \in Tasks : EditInclude(t)
    \/ \E k \in Vars : EditVar(k)
    \/ \E n \in Names : EditTask(n)
    \/ MoveVars \/ Break \/ Reconfigure \/ Publish

Spec == Init /\ [][Next]_vars

-----------------------------------------------------------------------------
(* Properties. *)

\* Every variable has its type; a variable stands once in the file, exactly when
\* it has a value.
RootTypeOK ==
    /\ includes \in [Tasks -> Entry \cup {NoEntry}]
    /\ order \in Seq(Vars)
    /\ IsInjective(order)
    /\ value \in [Vars -> {"absent", "default", "block", "own", "ownblock"}]
    /\ ToSet(order) = {k \in Vars : value[k] # "absent"}
    /\ tasks \in [Names -> {NoTask, ByUser} \cup Seq(Tasks)]
    /\ broken \in BOOLEAN
    /\ lock \in Lock \cup {None}
    /\ config \in Configs
    /\ release \in Releases
    /\ pc \in {"idle", "lock"}
    /\ outcome \in {"none", "synced", "refused", "crashed"}
    /\ edits \in 0 .. MaxEdits
    /\ faults \in 0 .. MaxFaults
    /\ lostIncludes \subseteq Tasks
    /\ lostTasks \subseteq Names

\* A run that wrote the root Taskfile just ended well.
RootSynced == outcome = "synced" /\ config.syncRoot

\* What an update promises of variables: those of the requested modules are in
\* the root Taskfile in the modules' order ("Task evaluates vars in declaration
\* order", orderedPromotedVarKeys), and a module's include refers to them.
VarsReachTheirModule ==
    RootSynced =>
        /\ Selected(order, ToSet(Promoted)) = Promoted
        /\ \A t \in Requested : ~includes[t].scalar =>
              \A k \in ToSet(VarsOf(t)) :
                  includes[t].vars[k] = "reference" /\ value[k] # "absent"

\* A root task TaskOtter generated calls only modules that are synced and
\* included, and only modules that export it, unless an interrupted run or one
\* without the root Taskfile has made TaskOtter forget the task.
GeneratedTasksResolve ==
    RootSynced =>
        \A n \in Names \ lostTasks : tasks[n] \notin {NoTask, ByUser} =>
            /\ Len(tasks[n]) > 1
            /\ \A t \in ToSet(tasks[n]) :
                  /\ t \in Requested
                  /\ includes[t] # NoEntry
                  /\ includes[t].path = config.target
                  /\ Listings(release, t, n) > 0

\* No include of a module that is no longer synced survives an update (Task
\* would refuse the whole file), unless an interrupted run or one without the
\* root Taskfile has made TaskOtter forget it.
NoDanglingInclude ==
    RootSynced =>
        \A t \in Tasks \ lostIncludes :
            includes[t] # NoEntry /\ includes[t].path # Foreign =>
                t \in Requested /\ includes[t].path = config.target

\* Inductive: an include of a module is always known to the lock, or forgotten;
\* between the promotion of the file and that of the lock, known to the run.
RememberedInv ==
    /\ includes \in [Tasks -> Entry \cup {NoEntry}]
    /\ lock \in Lock \cup {None}
    /\ config \in Configs
    /\ pc \in {"idle", "lock"}
    /\ outcome = "synced" => pc = "idle"
    /\ \A t \in Tasks : includes[t] # NoEntry /\ includes[t].path # Foreign =>
          IF pc = "lock" /\ config.syncRoot
          THEN \/ t \in Requested /\ includes[t].path = config.target
               \/ t \in lostIncludes \ (Requested \cup Managed)
          ELSE t \in lostIncludes \/ (lock # None /\ t \in Managed)
    /\ NoDanglingInclude

\* A task TaskOtter generated is always known to the lock, or forgotten; between
\* the promotion of the file and that of the lock, known to the run.
TasksRemembered ==
    \A n \in Names : tasks[n] \notin {NoTask, ByUser} =>
        IF pc = "lock" /\ config.syncRoot
        THEN n \in Generated \/ n \in lostTasks \ (Generated \cup ManagedRoot)
        ELSE n \in lostTasks \cup ManagedRoot

\* From the promotion of the file to the next edit it is what the configuration
\* and the release ask for, whatever it was before.
UpToDate ==
    config.syncRoot /\ (pc = "lock" \/ outcome = "synced") =>
        /\ ~broken
        /\ Selected(order, ToSet(Promoted)) = Promoted
        /\ \A k \in Vars : UpdatedValue(k) = value[k]
        /\ \A t \in Requested :
              /\ includes[t] # NoEntry
              /\ includes[t].path = config.target
              /\ Upserted(t) = includes[t]
        /\ \A n \in Generated : tasks[n] = Members(n)
        /\ \A n \in ManagedRoot \ Generated : tasks[n] = NoTask

\* Inductive: what the file, the lock and the run in progress know of each other.
RootInv ==
    /\ RootTypeOK
    /\ RememberedInv
    /\ TasksRemembered
    /\ UpToDate
    /\ outcome = "synced" => lock = NewLock

\* "No commit or PR when synchronized content is unchanged" (README): an update
\* of what an update left finds nothing to change, in the file or in the lock.
ResyncIsQuiet ==
    outcome = "synced" =>
        /\ lock = NewLock
        /\ config.syncRoot =>
              /\ ~Refused
              /\ UpdatedIncludes = includes
              /\ Reordered = order
              /\ \A k \in Vars : UpdatedValue(k) = value[k]
              /\ UpdatedTasks = tasks

\* "updates only its managed includes and leaves other content unchanged"
\* (README), as far as it goes.  An include of the user's goes only if its alias
\* is a task of the previous lock, a task of the user's only if its name is, or
\* was, generated.  The user's variables keep their order, and their values unless
\* a module declares one of the name as a block; a block of the user's is kept even
\* then.  In an include that stays, so does every variable of the user's that the
\* module does not declare.
UserContentStays ==
    /\ \A t \in Tasks :
          includes[t] # NoEntry /\ includes[t].path = Foreign =>
              \/ includes'[t] = includes[t]
              \/ includes'[t] = NoEntry /\ lock # None
                    /\ t \in ToSet(lock.cfg.tasks) \ Requested
    /\ \A t \in Tasks, k \in Vars :
          /\ includes[t] # NoEntry /\ includes'[t] # NoEntry
          /\ includes[t].vars[k] = "own" /\ ~Contains(VarsOf(t), k)
          => includes'[t].vars[k] = "own"
    /\ \A n \in Names : tasks[n] = ByUser =>
          tasks'[n] = ByUser \/ n \in Generated \/ (lock # None /\ n \in lock.generated)
    /\ \A k \in Vars :
          /\ value[k] = "ownblock" => value'[k] = "ownblock"
          /\ value[k] = "own" =>
                value'[k] = "own" \/ (Contains(Promoted, k) /\ BlockOfModule(k))
    /\ LET Theirs(ks) == Selected(ks, Vars \ ToSet(Promoted))
       IN  Theirs(order') = Theirs(order)

UserContentKept == [][WriteRoot => UserContentStays]_vars

\* "Shared module variables are promoted to editable root vars" (README), and
\* their pairs are moved "retaining custom values and comments"
\* (replacePromotedVarPairs): a value the user wrote survives an update.
CustomValuesKept ==
    [][WriteRoot =>
        \A k \in Vars : value[k] = "own" => value'[k] = "own"]_vars
=============================================================================
