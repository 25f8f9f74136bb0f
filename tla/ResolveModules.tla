--------------------------- MODULE ResolveModules ---------------------------
(***************************************************************************)
(* Which modules a sync copies: the store's catalog and dependencies       *)
(* (features/store/service), the module of every requested task and the    *)
(* depth-first walk of their dependencies (features/resolve/service), and  *)
(* the destination of every module (BuildDestinationMap).                  *)
(*                                                                         *)
(* The walk is a machine of its own: one action per module visited or      *)
(* returned from.  The order of the YAML lists only decides which error is *)
(* met first, so a list is a set and the walk takes its elements in any    *)
(* order.                                                                  *)
(***************************************************************************)
EXTENDS Integers, Sequences, FiniteSets

CONSTANTS
    Modules,   \* names of directories below the store's taskfiles/
    Parent,    \* the directory a name is in, None for a top-level one
    Managers,  \* package managers of the js input, bun included
    Variant,   \* the name task/node/<manager> or task/bun, if it is a module
    Tasks,     \* names the tasks input may request: no slashes
    None,
    MaxDeps    \* bound on the dependencies of one module

ASSUME ResolveAssumption ==
    /\ Parent \in [Modules -> Modules \cup {None}]
    /\ Variant \in [Modules -> [Managers -> Modules \cup {None}]]
    /\ Tasks \subseteq Modules
    /\ None \notin Modules /\ None \notin Managers
    /\ MaxDeps \in Nat

\* A suffix that is stripped leaves a shorter name.
ASSUME SuffixAssumption ==
    \A ms \in (SUBSET Modules) \ {{}} :
        \E m \in ms : \A t \in ms, p \in Managers : Variant[t][p] # m

VARIABLES
    taskfiles,  \* directories of the snapshot with a Taskfile.yml
    deps,       \* .deps.yml: the dependencies of the modules it has an entry for
    tasks,      \* requested tasks
    manager,    \* package manager of the js input, or None
    catalog,    \* modules of the snapshot
    sources,    \* source modules of the requested tasks
    todo,       \* requested modules ResolveTransitive still has to visit
    stack,      \* modules being visited, outermost first
    rest,       \* dependencies of a module that are still to be visited
    needed,     \* modules visited
    cycle,      \* path of a CycleError
    outcome     \* "ok" or the error, once there is one

inputs == <<taskfiles, deps, tasks, manager>>
walk == <<todo, stack, rest, needed, cycle>>
vars == <<inputs, catalog, sources, walk, outcome>>

-----------------------------------------------------------------------------
\* collectModules: a directory without a Taskfile.yml is neither cataloged nor
\* descended into.
IsModule[m \in Modules] ==
    m \in taskfiles /\ (Parent[m] = None \/ IsModule[Parent[m]])

\* validateDeps: modules and dependencies of .deps.yml are in the catalog.
DepsValid(c) ==
    \A m \in DOMAIN deps : m \in c /\ deps[m] \subseteq c

\* Normalize strips known suffixes until none is left.
Suffixed(m, t) == \E p \in Managers : Variant[t][p] = m
Normalize[m \in Modules] ==
    IF \E t \in Modules : Suffixed(m, t)
    THEN Normalize[CHOOSE t \in Modules : Suffixed(m, t)] ELSE m

\* findVariants and pickTaskResolver: a task with any variant in the catalog is
\* a Node task, and only the variant of the package manager will do.
Variants(t) == {Variant[t][p] : p \in Managers} \cap catalog
\* Mutant: the task's own module comes before its variants.
SourceOfPlainFirst(t) ==
    IF t \in catalog \/ Variants(t) = {} THEN t
    ELSE IF manager = None THEN None ELSE Variant[t][manager]
SourceOf(t) ==
    IF Variants(t) = {} THEN t
    ELSE IF manager = None THEN None ELSE Variant[t][manager]

\* ResolveAll fails on the first task whose source is not in the catalog.
Unresolved == \E t \in tasks : SourceOf(t) \notin catalog

\* Mutant: only a module that depends on itself or on its parent is noticed.
OnTop == {stack[i] : i \in {Len(stack)} \ {0}}

OnStack == {stack[i] : i \in 1 .. Len(stack)}
Top == stack[Len(stack)]

\* BuildDestinationMap rejects two sources with one destination.
Collision(ms) == \E m, n \in ms : m # n /\ Normalize[m] = Normalize[n]

Init ==
    /\ taskfiles \in SUBSET Modules
    /\ deps \in UNION {[ks -> {ds \in SUBSET Modules : Cardinality(ds) <= MaxDeps}] :
                          ks \in SUBSET Modules}
    /\ tasks \in (SUBSET Tasks) \ {{}}
    /\ manager \in Managers \cup {None}
    /\ catalog = {} /\ sources = {}
    /\ todo = {} /\ stack = <<>> /\ rest = [m \in Modules |-> {}]
    /\ needed = {} /\ cycle = <<>>
    /\ outcome = "load"

-----------------------------------------------------------------------------
\* LoadCatalogAndDeps.
LoadSnapshot ==
    /\ outcome = "load"
    /\ catalog' = {m \in Modules : IsModule[m]}
    /\ outcome' = IF DepsValid(catalog') THEN "resolve" ELSE "invalid"
    /\ UNCHANGED <<inputs, sources, walk>>

\* Mutant: a task without a source goes on.
ResolveUnchecked ==
    /\ outcome = "resolve"
    /\ outcome' = "walk"
    /\ sources' = {SourceOf(t) : t \in tasks}
    /\ todo' = sources'
    /\ UNCHANGED <<inputs, catalog, stack, rest, needed, cycle>>

\* ResolveAll.
ResolveTasks ==
    /\ outcome = "resolve"
    /\ IF Unresolved
       THEN outcome' = "unresolved" /\ UNCHANGED <<sources, todo>>
       ELSE /\ outcome' = "walk"
            /\ sources' = {SourceOf(t) : t \in tasks}
            /\ todo' = sources'
    /\ UNCHANGED <<inputs, catalog, stack, rest, needed, cycle>>

Fails(how) ==
    /\ outcome' = how
    /\ UNCHANGED <<stack, rest, needed>>

\* Mutant: dependencies marked as visited are not looked at again.
EnterUnvisited(m, above, remaining) ==
    /\ needed' = needed \cup {m}
    /\ stack' = Append(above, m)
    /\ rest' = [remaining EXCEPT ![m] = deps[m] \ needed]
    /\ UNCHANGED outcome

\* markVisited and the start of visitDependencies.
Enter(m, above, remaining) ==
    /\ needed' = needed \cup {m}
    /\ stack' = Append(above, m)
    /\ rest' = [remaining EXCEPT ![m] = deps[m]]
    /\ UNCHANGED outcome

\* visitModule for a requested module, on an empty stack.
VisitRequested(m) ==
    /\ outcome = "walk"
    /\ stack = <<>> /\ m \in todo
    /\ todo' = todo \ {m}
    /\ IF m \notin DOMAIN deps THEN Fails("undefined")
       ELSE IF m \in needed THEN UNCHANGED <<outcome, stack, rest, needed>>
       ELSE Enter(m, stack, rest)
    /\ UNCHANGED <<inputs, catalog, sources, cycle>>

\* Mutant: the path starts at the module that was requested.
PathFromSource(d) == Append(stack, d)

\* detectCycle: the stack from the module on, and the module again.
CyclePath(d) ==
    LET first == CHOOSE i \in 1 .. Len(stack) : stack[i] = d
    IN  Append(SubSeq(stack, first, Len(stack)), d)

\* Mutant: a dependency visited before is looked at again and again.
VisitDependencyAgain(d) ==
    /\ outcome = "walk"
    /\ stack # <<>> /\ d \in rest[Top]
    /\ LET remaining == [rest EXCEPT ![Top] = @ \ {d}] IN
       IF d \in DOMAIN deps \ needed THEN Enter(d, stack, remaining)
       ELSE UNCHANGED <<outcome, stack, rest, needed>>
    /\ UNCHANGED <<inputs, catalog, sources, todo, cycle>>

\* visitDependency for a dependency of the module on top of the stack.
VisitDependency(d) ==
    /\ outcome = "walk"
    /\ stack # <<>> /\ d \in rest[Top]
    /\ LET remaining == [rest EXCEPT ![Top] = @ \ {d}] IN
       \/ d \notin DOMAIN deps /\ Fails("missing") /\ UNCHANGED cycle
       \/ d \in DOMAIN deps \cap OnStack /\ Fails("cycle") /\ cycle' = CyclePath(d)
       \/ /\ d \in DOMAIN deps \cap (needed \ OnStack)
          /\ rest' = remaining
          /\ UNCHANGED <<outcome, stack, needed, cycle>>
       \/ /\ d \in DOMAIN deps \ (needed \cup OnStack)
          /\ Enter(d, stack, remaining)
          /\ UNCHANGED cycle
    /\ UNCHANGED <<inputs, catalog, sources, todo>>

\* Mutant: one dependency of a module is enough.
ReturnEarly ==
    /\ outcome = "walk"
    /\ stack # <<>> /\ (rest[Top] # deps[Top] \/ rest[Top] = {})
    /\ stack' = SubSeq(stack, 1, Len(stack) - 1)
    /\ UNCHANGED <<inputs, catalog, sources, todo, rest, needed, cycle, outcome>>

\* visitModule returns to the module below.
Return ==
    /\ outcome = "walk"
    /\ stack # <<>> /\ rest[Top] = {}
    /\ stack' = SubSeq(stack, 1, Len(stack) - 1)
    /\ UNCHANGED <<inputs, catalog, sources, todo, rest, needed, cycle, outcome>>

\* Mutant: collisions are looked for in the whole catalog.
FinishCatalog ==
    /\ outcome = "walk"
    /\ stack = <<>> /\ todo = {}
    /\ outcome' = IF Collision(catalog) THEN "collision" ELSE "ok"
    /\ UNCHANGED <<inputs, catalog, sources, walk>>

\* transitiveDependencies and BuildDestinationMap; the modules to copy are the
\* sources and the dependencies, that is, every module visited.
Finish ==
    /\ outcome = "walk"
    /\ stack = <<>> /\ todo = {}
    /\ outcome' = IF Collision(needed) THEN "collision" ELSE "ok"
    /\ UNCHANGED <<inputs, catalog, sources, walk>>

Next ==
    \/ LoadSnapshot
    \/ ResolveTasks
    \/ \E m \in todo : VisitRequested(m)
    \/ \E d \in Modules : VisitDependency(d)
    \/ Return
    \/ Finish

Spec == Init /\ [][Next]_vars

\* One process, nothing to wait for.
FairSpec == Spec /\ WF_vars(Next)

-----------------------------------------------------------------------------
Working == {"load", "resolve", "walk"}
Errors == {"invalid", "unresolved", "undefined", "missing", "cycle", "collision"}

\* Every variable has its type.
ResolveTypeOK ==
    /\ taskfiles \subseteq Modules
    /\ deps \in [DOMAIN deps -> SUBSET Modules] /\ DOMAIN deps \subseteq Modules
    /\ tasks \subseteq Tasks
    /\ manager \in Managers \cup {None}
    /\ catalog \subseteq Modules
    /\ sources \subseteq Modules
    /\ todo \subseteq sources
    /\ stack \in Seq(Modules)
    /\ rest \in [Modules -> SUBSET Modules]
    /\ needed \subseteq Modules
    /\ cycle \in Seq(Modules)
    /\ outcome \in Working \cup Errors \cup {"ok"}

\* A set of modules that has the sources and what its members depend on.
Closed(ms) ==
    /\ sources \subseteq ms
    /\ \A m \in ms : m \in DOMAIN deps => deps[m] \subseteq ms

\* Every member has an entry in .deps.yml.
Defined(ms) == ms \subseteq DOMAIN deps

\* No chain of dependencies inside the set comes back to where it started:
\* every part of the set has a member that depends on no member of the part.
Acyclic(ms) ==
    \A part \in SUBSET ms :
        part # {} => \E m \in part : deps[m] \cap part = {}

\* What is copied when resolution succeeds is exactly what the sources need:
\* nothing is forgotten and nothing else is copied.
CopiesWhatIsNeeded ==
    outcome = "ok" =>
        /\ Defined(needed) /\ Closed(needed)
        /\ \A ms \in SUBSET Modules : Closed(ms) => needed \subseteq ms

\* A store with a dependency cycle below a source is never synced.
NeverCopiesACycle == outcome = "ok" => Acyclic(needed)

\* Resolution fails only for what the sources need: a cycle, an entry that is
\* missing or a collision elsewhere in the store does not matter.
Needed == {m \in Modules : \A ms \in SUBSET Modules : Closed(ms) => m \in ms}
FailsForAReason ==
    /\ outcome \in {"undefined", "missing"} => ~Defined(Needed)
    /\ outcome = "cycle" => \E ms \in SUBSET (Needed \cap DOMAIN deps) : ~Acyclic(ms)
    /\ outcome = "collision" => Collision(Needed)

\* The chain a CycleError reports is a cycle of the store's dependencies.
ReportsTheCycle ==
    outcome = "cycle" =>
        /\ Len(cycle) >= 2 /\ cycle[1] = cycle[Len(cycle)]
        /\ \A i \in 1 .. Len(cycle) - 1 : cycle[i + 1] \in deps[cycle[i]]

\* A Node task is copied in the variant of the package manager that was asked
\* for, whatever modules the store has under the task's own name.
AsksForItsVariant ==
    outcome = "ok" =>
        \A t \in tasks : (\E p \in Managers : Variant[t][p] \in catalog) =>
            manager # None /\ Variant[t][manager] \in sources

\* The walk ends, on a cyclic store too.
ResolutionEnds == <>(outcome \notin Working)

-----------------------------------------------------------------------------
(* What the properties rest on. *)

\* Modules the walk has returned from.
Returned == needed \ OnStack
Above(i) == {stack[j] : j \in {i + 1} \cap (1 .. Len(stack))}

NothingVisited ==
    /\ sources = {} /\ todo = {} /\ needed = {} /\ stack = <<>>
    /\ rest = [m \in Modules |-> {}]

\* Dependencies of a module on the stack are still to be visited, returned from,
\* or the next module on the stack; those of any other module visited have been
\* returned from, and contain no cycle.
WalkInv ==
    /\ Defined(needed)
    /\ sources \subseteq todo \cup needed
    /\ OnStack \subseteq needed
    /\ \A i, j \in 1 .. Len(stack) : stack[i] = stack[j] => i = j
    /\ \A m \in OnStack : rest[m] \subseteq deps[m]
    /\ \A m \in Modules \ OnStack : rest[m] = {}
    /\ \A i \in 1 .. Len(stack) :
          deps[stack[i]] \subseteq rest[stack[i]] \cup Returned \cup Above(i)
    /\ \A m \in Returned : deps[m] \subseteq Returned
    /\ Acyclic(Returned)
    /\ \A ms \in SUBSET Modules : Closed(ms) => needed \subseteq ms

\* What a resolution that succeeds rests on.
CopyInv ==
    /\ outcome \in {"load", "resolve"} => NothingVisited
    /\ outcome = "walk" => WalkInv
    /\ CopiesWhatIsNeeded
    /\ NeverCopiesACycle
    /\ outcome = "ok" => ~Collision(needed)

\* Each module on the stack is a dependency of the one below it.
Chained == \A i \in 1 .. Len(stack) - 1 : stack[i + 1] \in deps[stack[i]]

\* ResolveAll found the source of every task in the catalog.
SourcesFound == sources = {SourceOf(t) : t \in tasks} /\ sources \subseteq catalog

\* What the errors of a resolution, and its choice of sources, rest on.
ErrorInv ==
    /\ outcome = "walk" => Chained
    /\ outcome \in {"walk", "ok"} => SourcesFound
    /\ FailsForAReason
    /\ ReportsTheCycle

ResolveInv == CopyInv /\ ErrorInv
=============================================================================
