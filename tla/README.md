# TLA+ models of TaskOtter

TaskOtter is a GitHub Action that copies task modules from a store repository
into a consumer's repository, keeps track of them in a lock file, and opens or
updates one pull request with the result. This directory models the parts of it
that carry state from step to step and from run to run, model-checks them with
TLC on small instances, and proves the central properties with TLAPS for every
instance.

## The system

One process executes `runPipeline` (`internal/features/orchestrator/service`)
from beginning to end; there are no goroutines to speak of. What makes it hard is
what lasts longer than the process:

* the **workspace**, which holds module files, a lock and metadata of earlier
  runs, of users and of older releases, and in which a run can stop anywhere;
* the **repository on GitHub**, which overlapping workflow runs and maintainers
  change at the same time;
* the **store**, whose modules, dependencies and releases change between runs
  and may be inconsistent.

| Component | State it keeps | Operations | Hard behaviour | What makes it correct |
| --- | --- | --- | --- | --- |
| Sync engine, `features/plan` | module files, `<target>/.taskotter-lock.yml`, `<target>/.taskotter/metadata.yml`, staging copies, the legacy `.taskotter/metadata.yml` | `BuildPlan`, `ApplyPlan` | errors and crashes between two of about ten steps; target folder, modules and release change from run to run; files of the user in between | everything written is tracked, a success means in sync, hand-written content survives, a second run changes nothing, runs converge |
| Orchestrator, `features/orchestrator/service` | none of its own | the order of the steps, when a run ends early | early returns, a failure after a side effect | a run that reports success has done what it reports |
| Git adapter, `features/git` | local sync branch, remote-tracking ref | `EnsureBranchOwned`, `CreateOrResetBranch`, `Stage`, `Commit`, `PushForceWithLease`, `HasUnrelatedChanges`, `DefaultBranch` | races of two clones, stale or missing leases | no newer content is replaced, no foreign commit lost |
| Pull requests, `features/pr` | open pull request and its body, on GitHub | `FindOpenPR`, `CreatePR`, `UpdatePRBody` | another run or a maintainer acts between two calls | one pull request, which says what it offers |
| Resolution, `features/resolve/service` | visited set, stack of the walk | `ResolveAll`, `ResolveTransitive`, `BuildDestinationMap` | cycles, missing entries, several paths to one module, colliding destinations | exactly what is needed is copied, errors have a reason, the walk ends |
| Store snapshot, `features/store/service` | catalog, dependencies | `LoadCatalogAndDeps` | inconsistent store | only validated dependencies are used |
| Store adapter, `features/store/adapters/github` | none | `ResolveRef`, `DownloadSnapshot`, `LatestStableVersion` | pagination, annotated tags, failures that must clean up | content comes from the commit that is recorded |
| Root Taskfile, `features/root/adapters/taskfile` | the consumer's root `Taskfile.yml` | `UpdateRootTaskfile`, `RewriteIncludes` | merging managed entries into the user's file, over runs | managed entries follow the modules, those of the user stay |
| Codecs, `features/state` | none | YAML of lock and metadata | round trips | what is written is read back |
| Configuration, `shared/config`, `features/input` | none | parsing, the configuration hash, the base branch | what the branch name depends on | one branch for one configuration |
| Command, `cmd/taskotter-sync` | none | exit code, outputs | fail-on-changes | the exit says what happened |
| Archive, `shared/archive` | bytes extracted so far | `ExtractTarGz` | entries of unwanted kinds, limits at their boundary, an archive that breaks off | nothing is used unless everything was extracted |
| Shared helpers | none | paths, HTTP, YAML text | text | not modelled |

Components interact by calls; the engine and the git adapter share the
workspace, the git adapter and the pull request adapter share the remote branch.

## Modules

| Module | What it is |
| --- | --- |
| `SyncEngine` | the workspace over a sequence of runs |
| `SyncEngineProps` | what the engine promises, and the inductive invariant |
| `SyncEngineProofs` | proofs of the safety properties |
| `MCSyncEngine` | instances for TLC |
| `SyncRecovery`, `MCSyncRecovery` | the engine on a kept workspace whose runs are interrupted, with a history of what they put at risk |
| `ManagedTree` | what a workflow promises of the committed files: one atomic step for a run |
| `SyncCommit`, `SyncCommitProofs`, `MCSyncCommit` | `SyncEngine` composed with git: clones, the index and commits; implements `ManagedTree` |
| `StoreFetch`, `StoreFetchProofs`, `MCStoreFetch` | reading the store: the version, the pages of tags, the archive |
| `GitPublish`, `GitPublishProofs`, `MCGitPublish` | overlapping runs publishing to GitHub |
| `ResolveModules`, `ResolveProofs`, `MCResolveModules` | catalog, tasks and the dependency walk |
| `ModuleIncludes`, `IncludeProofs` | the includes of the copied modules |
| `RootTaskfile`, `RootTaskfileProofs`, `MCRootTaskfile` | the root Taskfile over a sequence of runs |
| `Selections`, `SelectionLemmas` | what a loop over a sequence selects, and lemmas about it for sequences of any length |

Definitions have the names of the functions they model where they can.
`PROJECT.json` names the source lines of each. Definitions whose comment begins
with `Mutant` are not part of the models: each is a plausible bug which, put in
the place of the definition that follows it, breaks one property.

### SyncEngine

`tree`, `dirs`, `lock`, `meta`, `legacy` and `leftovers` are the workspace; a path
is a target folder and a file, so that a change of the target folder moves every
file. `BuildPlan` is one action: it reads the metadata (`PreviousTarget`: the
current target's, the legacy one, or the first other one found in the workspace),
the lock that goes with it, and ends the run or hands `old`, `oldTarget` and the
paths to write to `ApplyPlan`. That is a sequence of actions, one for each effect
another run could see if this one stopped there: `StageFiles`, `PromoteFile` for
each file, `WriteLock`, `WriteMetadata`, `RemoveStale` for each file,
`RemoveOldFiles`, `RemoveOldLock`, `RemoveOldMetadata`, `CleanupLegacyMetadata`,
`CleanupStaging`. `ApplyError` (an I/O error, with the deferred cleanup) and
`Crash` (without it) may end a run before any of them. Between runs the user
writes and deletes files and directories, the store publishes, changes and
withdraws files, and the configuration changes.

`FreshCheckout` says how runs are separated. TRUE is the documented workflow:
each run starts from a clone, in which there are no empty directories and nothing
of a run that failed, and the result of a run that succeeds is merged before the
next. FALSE is a workspace that stays, as with a self-hosted runner or a local
run.

Contents are compared only for equality, as hashes are. The documents are records:
the lock is the configuration and the listed files with their content, the
metadata is the configuration. The resolved commit and files' modes are left out;
the root Taskfile and the tasks generated into it have a module of their own.

`SyncRecovery` adds the history variable `forgotten` to a workspace that stays: the
files an interrupted run had at risk (`AtRisk`: what it had written until lock and
metadata list it, what it was to remove from the lock on). It has no effect on the
engine, and lets a property say which interruptions make TaskOtter lose track.

### SyncCommit and ManagedTree

`SyncCommit` extends the engine by the clone it runs in: `head` is what the commit
holds that was cloned, `index` the files git knows. A run is `Plan` (`BuildPlan`),
the check for unrelated changes (`RefuseUnrelated`, or the first `ApplyStep`), the
engine's steps, and at the end `git add` of the plan's `StagePaths` and `git commit`
(`StageFails`, `CommitFails`, `CommitSync`). A commit is merged and cloned by the
next run; a run that ends in any other way leaves nothing but its clone, which
`NewClone` replaces. Somebody may have changed files of the clone without a commit,
staged or not (`UncommittedEdit`), before or during the run; the user commits edits,
the store publishes, the configuration changes (`CommittedEdit`).

Three details of the git adapter decide what happens and are modelled as they are.
The output of `git status` is trimmed as a whole, so that the first path loses a
character when its line began with a blank, and then counts as unrelated
(`Unstaged(first)`). A file the index does not have is untracked, also when its deletion
was staged before; an untracked directory is one line, which no staged path
covers (`InUntrackedDir`), and untracked lines come last. `git add` fails for a path that neither index nor
workspace has (`Gone`).

`ManagedTree` has no phases, no index, no metadata and no errors: `Sync` takes the
committed files and the manifest from one configuration and release to the next,
`Edit` and `Reconfigure` are everybody else. `ImplementsManagedTree` is the
refinement, with the manifest mapped to the lock the commit holds, in whichever
target folder. It says that a commit never leaves out a file the engine wrote or
removed, nor takes in a change somebody left in the clone.

### StoreFetch

Each request of `getStore` is an action: the default branch, the tag or branch, the
annotated tag to peel, each page of tags, the archive; then `ExtractEntry` for each
entry, `LoadCatalogAndDeps`, and `Close` at the end of the pipeline. `pos` is
GitHub's list of tags: maintainers publish a tag in any place of it and delete tags
between two requests, which moves others from page to page, and move the requested
tag or branch (`Move`). `pointed`, `steady`, `withdrawn` and `lost` are auxiliary:
what the request pointed to since the run began, the stable tags there when the
listing began, whether one was deleted since, and whether the removal of the
directory failed. `peelAnnotatedTag` peels once, so that the
commit of a tag of a tag is a tag itself; the archive is that of the commit it is of
in the end (`CommitOf`, what GitHub serves for it). A version is its rank, 0 for a tag that is none; an entry has a size,
and is unsupported or not. Entries come in any order, which decides only the error
that is reported.

### GitPublish

`content`, `branch` and `prs` are GitHub's; `forked`, `tree`, `local` and `lease`
are those of a run's clone. What a tree holds is the version of the store it was
synced with. The pipeline has one action for each call that reads or changes
something shared. `lease` abstracts the remote-tracking ref `--force-with-lease`
compares with: `current` until somebody else moves the branch, `absent` when the
clone has none, which git takes to mean that the branch must not exist.
`Checkout` starts a run in a new clone, and `RunAgain` executes the action once
more in the workspace of the last. Maintainers merge or close pull requests, with
or without deleting the branch, and push commits on top of it.

### ResolveModules

`LoadSnapshot` and `ResolveTasks` are the two steps before the walk; `Enter`,
`VisitDependency` and `Return` are the recursion of `visitModule` with its stack
and the visited set made explicit. Where the source goes through a list the model
takes the elements in any order: the order decides only which of several errors is
reported. Similarity suggestions in errors are left out.

### ModuleIncludes

What `ResolveModules` decides is where the modules are copied, and a module's
Taskfile includes others by relative paths: `RewriteIncludes` replaces them by paths
between the destinations. The module has no variables of its own; it computes, for
the modules of a resolution that succeeded, the includes their Taskfiles have in the
store (`Includes`) and in the workspace (`RewrittenIncludes`), and follows them. A
path is how far it goes up and the directory it then goes down to; a module's name is its
path in the store, the constant `Directory`. Where the path
stands in the text, its quotes and the paths the code leaves alone (another file
name, a directory) are left out. `Named` discards how far the path goes up, as
`splitRelativePrefix` does: `IncludesLeadToTheCopies` rests on the store's Taskfiles
going up to the `taskfiles` folder and down again. One that took a shorter way to a
sibling, or led to a directory of its own, could be redirected to a module that has
that name.

### RootTaskfile

`includes`, `order`, `value` and `tasks` are what the user and TaskOtter share: the
includes by alias, the variables with their order and where each value comes from,
and the tasks, where a generated one is the list of the modules it calls. Nothing
in the file marks what TaskOtter put there; `lock` says what the last run that
wrote one had requested (`Managed`) and generated (`ManagedRoot`). `Refuse` or
`WriteRoot` is `UpdateRootTaskfile`, in one action because the file is renamed into
place; `SkipRoot` is a run with `sync-root: false`, which writes a lock all the
same; `WriteLock` ends the run and `Crash` may come before it. Between runs the
user edits or breaks the file, the configuration changes, the store publishes.

`lostIncludes` and `lostTasks` are auxiliary: what TaskOtter once wrote and no lock
knows any more, after a crash between file and lock or a run without the file. The
properties exempt exactly that.

Loops over YAML sequences and mappings (the modules that export a task, the variables
that are promoted, reordered and appended) are recursive functions of the position
reached (`SelectedUpTo`, `PromotedUpTo`, `MembersUpTo`), so that proofs can follow
them. A module's metadata may be absent, and may list an export more than once:
`addCommonExportedTasks` counts what is listed, not modules, so that a module which
lists a common task twice is enough to generate it.

The file keeps its path. Left out are an include's `dir`, versions, comments, what
stands in a block, and module Taskfiles that do not parse.

## What is checked

| Run | Instance | Shows |
| --- | --- | --- |
| `sync_commit` | clones, 2 targets, 2 modules with 3 files, 2 contents, 2 edits committed or not, 1 fault (114k states) | the refinement of `ManagedTree`, safety, convergence |
| `sync_persist` | the same on a kept workspace, 3 edits, no faults (264k) | the inductive invariant, idempotence, protection of hand-written modules |
| `sync_recover` | a kept workspace synced by an older release into the second of 2 targets, 1 module with 2 files, 2 contents, 2 edits, 2 faults (172k) | which interruptions make TaskOtter lose track of files, and which changes of the folder it recovers from |
| `publish` | 2 runs on one branch, also repeated in one workspace, 2 releases, 2 interventions, 1 fault (825k) | no downgrade; convergence to an offered or merged version |
| `resolve` | every store of 3 modules with every `.deps.yml`, 2 tasks, 2 package managers (134k) | resolution, and includes that lead to the copied modules |
| `root_merge` | 2 modules, 3 variables, 1 common task that a module lists twice, 2 releases, one of them with a module without metadata, 5 configurations, 3 edits, 1 fault (279k) | managed entries follow the modules, those of the user stay, a second run is quiet |
| `store_fetch` | 3 tags (stable, newer, prerelease) on pages of 2, 3 commits, an annotated tag and a tag of it, 2 changes of the store, 1 fault (333k) | no newer tag is missed, snapshots are pinned and complete, directories are removed, runs end |
| `sync_stuck`, `sync_new_target`, `publish_two_prs`, `publish_foreign`, `root_custom_vars` | small | the divergences below |

Bounds: two target folders are enough for a switch and a switch back, since only
the previous and the current target ever matter to a run. A module with two files
gives partial promotion within a module, two modules give a managed and an
unmanaged one. Two edits are a configuration change and a release, or an edit by
hand and either; three, on the kept workspace, give drop, edit and re-request.
One fault at each step, followed by complete runs, covers each crash point; two
cover a crash of the recovery, and in `sync_recover` a crash during a change of the target folder and
another during the change back. In `sync_commit` one edit may be committed and another left in the clone; the
store's first release has one content for every file, since contents of different
files are never compared. Two overlapping runs are every pairwise race, on one
branch; the theorems lift the safety results to any number of runs and branches. Two tags are exactly
one page and three are a page and a part of one; two changes of the store during a listing
move a tag over the boundary of a page and back. Of the archives one is as large as the limit,
one is larger and has a link, one has no catalog. Three modules have cycles of each
length up to three, a diamond with two requested tasks, and a collision of a
dependency with a requested module; the variant's directory has the plain module's
name, so that a name alone does not tell them apart. For the root
Taskfile two modules share one variable and one task name, and a third variable is the user's; the releases differ
in the order of the variables, which of them are blocks, and whether the task is
common; the configurations reorder the modules, drop one, skip the file and change
the target. Three edits then are a drop, an edit by hand and a request of what was
dropped, or a release and a reconfiguration around a crash. `MaxEdits`, `MaxFaults`, `MaxVersion` and
`MaxDeps` are the only bounds on what would otherwise go on for ever; they bound
the environment and never the program.

Fairness: a run that has started takes its next step (weak fairness of the
pipeline: a sequential process), and runs are started again and again (a schedule:
weak fairness of `BuildPlan` and `NewClone`, strong fairness of `Checkout`, which is not
continuously enabled as runs come and go). Nothing is assumed of users,
maintainers, the store or faults.

`CHECK_DEADLOCK FALSE` is set for `resolve` alone: a resolution ends.

### Divergences from the documentation

* `sync_new_target`: `isDestinationManaged` compares module names, not paths.
  After a change of the target folder, a hand-written directory there with the
  name of a managed module is overwritten, although no lock lists it (ADR 0008).
* `publish_two_prs`: the branch name does not depend on the base branch; one
  configuration on two branches has two pull requests, both with the head pushed
  last (ADR 0009).
* `publish_foreign`: the ownership check sees local branches only, so that commits
  of others on the remote sync branch are overwritten.
* `sync_stuck`: once a user has committed the deletion of a managed file that the
  next plan removes, `git add` fails for its path on every run, and no run gets
  through (ADR 0008 asks for safe removals). `ConvergesUnlessGone` shows that this
  is the only such case.
* `root_custom_vars`: where the module's value is a block scalar,
  `protectRootBlockVars` replaces a plain value the user gave the promoted variable,
  on every run, although promoted variables are "editable".

Observations that follow from the models and have no run of their own. On a kept
workspace a first sync that is killed leaves directories without a lock, which later
runs refuse, and a run that fails after its lock leaves the files it was to remove
where no lock lists them: `Tracked`, `SuccessMeansInSync` and `RefusalProtectsSomething`
do not hold there and are checked where a fault discards the clone, or without faults.
For the workspace that stays, `OnlyInterruptedRunsForget` bounds the damage: what no
lock lists is what an interrupted run had at risk at the step it had reached, and
never a file of any other run. `UpgradesRecover` names the interruptions that are never
recovered from (`Misled`): a change to a folder that sorts before the old one, stopped
after the staged metadata was written, makes the next runs take the staging copy for
the previous state, which has no lock; and legacy metadata may name a folder whose
lock a later run has removed. The runs then refuse the destinations they find in place
as not managed, until somebody intervenes.
The empty directory of a module that was dropped also makes a kept workspace refuse that module
when it is requested again, at its destination; no property covers it. A file the
user adds inside a managed module is overwritten when the store later publishes one
of that name: `HandWrittenModulesKept` claims protection only for modules that are
not managed. A tracked file that was changed in the clone and not staged makes the
check for unrelated changes fail even when the plan is to write that very file. A
second execution in the workspace of the first succeeds with `fail-on-changes`
although nothing is merged. `isNothingToCommit` never recognizes an empty commit;
`CommitsSomething` shows that a run in a clean clone does not come to make one. With a shallow checkout there is no tracking ref, and every
push after the first is rejected until the branch is deleted: `publish` has
`FullClone = TRUE`, the `fetch-depth: 0` of README's examples. After two overlapping
runs a pull request's body may describe another version than its head until the
next run. With a fixed `root-taskfile`, a change of the target folder is refused:
`isManagedInclude` knows only paths under the new folder, so that the includes
TaskOtter wrote count as the user's. A common task replaces a task of the user's with
its name, and the next run that generates none removes it. A task that one module exports and lists twice is
generated as if it were common. Includes and tasks of a
run that was killed before its lock, or from before a run with `sync-root: false`,
are never removed.

## What is proved

All proofs are for arbitrary constants that satisfy the named assumptions of the
modules; nothing else is assumed.

* `SyncEngineProofs`: the types (`TypeCorrect`), and for undisturbed runs
  (`Undisturbed`: fresh checkouts, or no faults) the invariant `IInv`, from which
  `TrackedAlways`, `OneHomeAlways` and `SuccessAlwaysInSync` follow. The three
  properties speak of a workspace at rest, and are not inductive: `IInv` adds what
  lock, metadata and files are in each phase of a run (`StateFilesByPhase`,
  `FilesByPhase`), that the old lock and old target belong together
  (`OldStateConsistent`), and that the workspace a fresh checkout restores is at
  rest (`Settled`). `StepInv` holds with faults and on kept workspaces too: it says
  which paths each step may still touch and that the plan has passed the checks on
  the destinations (`StepInvariant`); from it the action property
  `AlwaysKeepsHandWrittenModules` follows. `EngineInv` is both, and after a run that
  ended well leaves the next plan nothing to do (`SecondRunAlwaysUnchanged`).
* `SyncCommitProofs`: `CommitInv` adds to `IInv` that the clone's commit is at rest
  (`Settled`), that the state a run has planned with is that commit's
  (`PlannedFromHead`), that it has found something to change (`ChangePlanned`), and
  that nothing but the plan's paths differs from the commit once the check has passed
  (`NothingUnrelated`). From these, what is staged is the workspace as the engine
  built it (`StagedIsWorkspace`) and differs from the commit (`WorkspaceDiffers`), so
  that the properties of the engine hold of the commits (`CommitsStayTracked`,
  `RefusalAlwaysFounded`, `AlwaysCommitsSomething`), and every step is one of
  `ManagedTree` or a stutter (`RefinesManagedTree`).
* `StoreFetchProofs`: `FetchInv`. As the list of tags has no holes (`Contiguous`) and
  places only grow unless a tag is deleted, a stable tag that is not on a later page
  has been compared (`NoneSkipped`); a short page is the last
  (`AlwaysWarnsAboutNewer`). `Pinned` and `PartlyExtracted` give
  `SnapshotAlwaysPinned` and `NothingEverLeftBehind`. For any tags and size of a page.
* `GitPublishProofs`: `VersionsOrdered` is inductive together with the types. A
  run that holds a current lease resolved its version after the branch it would
  replace was pushed (`NeverDowngraded`), and a commit is never older than what it
  forked off (`RefsMoveForward`). For any number of runs and refs.
* `ResolveProofs`: `CopyInv` has, as its main part, `WalkInv`, the invariant of the
  walk. The dependencies of a
  module on the stack are still to be visited, returned from, or next on the
  stack; what has been returned from is closed and acyclic; all of it is below the
  sources. When the stack is empty this gives `AlwaysCopiesWhatIsNeeded` and
  `CyclesAlwaysCaught` for stores of any size. `ErrorInv` adds that each module on the
  stack is a dependency of the one below it (`Chained`), so that a cycle that is met
  is one of the store (`AlwaysReportsTheCycle`) and lies below the sources
  (`AlwaysFailsForAReason`), and that the sources are those of the tasks
  (`AlwaysAsksForItsVariant`). `ResolveInv` is both (`ResolutionInvariant`).
* `IncludeProofs`: `IncludesAlwaysLeadToTheCopies`, from `ResolveInv`. Normalization is
  a recursion that ends, because a name without its suffix is shorter
  (`SuffixAssumption`), so that a destination is named after a module
  (`NormalizeTyped`); the relative path between two directories leads from one to the
  other (`RelLeadsThere`); a module is found by its path, and destinations differ.
* `SelectionLemmas`: what the loops of `RootTaskfile` compute. `UpToInduction` is the
  induction over positions, stated of a set of positions instead of a predicate;
  `RecursionUpTo` says that a function given by its first value and its next one
  exists. The lemmas then tell which elements a selection has, how it grows, that two
  selections of sequences with the same selected elements agree, and which element
  takes which place when selected positions are filled anew.
* `RootTaskfileProofs`: `RootInv` is inductive (`RootInvariant`). Its parts: the types,
  among them that a variable stands once in the file, exactly when it has a value
  (`RootAlwaysTyped`); `RememberedInv`, that at every moment an include of
  a module is listed by the lock or forgotten, and, between the promotion of the
  file and that of the lock, requested by the run (`IncludesRemembered`);
  `TasksRemembered`, the same of generated tasks; and `UpToDate`, what the file has in
  common with what the run was asked for, from its promotion until something is
  edited. `NeverDangling`, `VarsAlwaysReachTheirModule`, `GeneratedTasksAlwaysResolve` and
  `ResyncAlwaysQuiet` speak of the end of a run and follow from it; that the second
  reordering changes nothing is `RearrangedFacts` and `ReorderedFacts`. The action
  property `UserContentAlwaysKept` is that of a single `WriteRoot`, under the types: it
  covers plain values of the user's as well as blocks, and exempts a plain value only where
  a module declares the variable as a block, which is what `root_custom_vars` is about.

Only model-checked: the liveness properties `ConvergesUnlessGone`, `UpgradesRecover`,
`Converges`, `ResolutionEnds` and `FetchEnds`, since neither liveness under fairness nor
`ENABLED` is within the prover's reach; and `OnlyInterruptedRunsForget`, which needs an
inductive invariant of its own for interrupted runs on a kept workspace and is the next
theorem to prove. Every other invariant and action property that a
passing run checks is stated by a theorem as well; the runs with a violation have
nothing to prove.
The library's induction theorems, which take a predicate as a parameter, cannot be used
with the provers at hand; the loops are followed by `UpToInduction` instead.

## Not modelled

* Nested target folders and destinations: a path is a target folder and a file, and
  the folders of a model never contain one another.
* Which files of a module are copied (documentation, tests, metadata), and where in
  the text of a module's Taskfile its paths stand: text in, text out, with no state.
  `SyncEngine` and `RootTaskfile` are not composed; one plan
  stages the files of both, and neither reads what the other writes but for the lock,
  which each models with what it reads of it.
* YAML (parsing, formatting, round trips of the codecs), the validation of inputs,
  paths and refs, the configuration hash, credentials, the detection of the default
  branch through a chain of git commands, HTTP headers and status texts, annotations
  and outputs: strings without state of their own. The archive's paths and modes
  likewise; `StoreFetch` knows only whether an entry is accepted.
* The similarity suggestions in errors of the resolution.

An abstract specification of the resolution (the least closed set, or a reason why
there is none) is not a module of its own: `CopiesWhatIsNeeded`,
`NeverCopiesACycle` and `FailsForAReason` together say it.
