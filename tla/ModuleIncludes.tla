---------------------------- MODULE ModuleIncludes ----------------------------
(***************************************************************************)
(* RewriteIncludes of features/root/adapters/taskfile: the Taskfile of a   *)
(* module includes those of its dependencies by relative paths inside the  *)
(* store, and the modules are copied to other directories, their           *)
(* destinations.  Which modules are copied, and where to, is decided by    *)
(* ResolveModules.                                                         *)
(*                                                                         *)
(* A directory is the sequence of its names below the store's, or the      *)
(* workspace's, taskfiles folder.  An include goes a number of directories *)
(* up and then down to the directory of the Taskfile it names.             *)
(***************************************************************************)
EXTENDS ResolveModules, SequencesExt

CONSTANTS
    Names,      \* names of single directories
    Directory   \* ModuleDir of the store's snapshot: a module's name is its path

ASSUME DirectoryAssumption ==
    /\ Directory \in [Modules -> Seq(Names)]
    /\ IsInjective(Directory)
    /\ \A m \in Modules :
          LET above == IF Parent[m] = None THEN <<>> ELSE Directory[Parent[m]]
          IN  \E n \in Names : Directory[m] = Append(above, n)

\* SourceToDest: where a module is copied to.
Destination(m) == Directory[Normalize[m]]

\* The includes of a module in the store lead up to its taskfiles folder, and
\* from there to the dependency.
Includes(m) ==
    [d \in deps[m] |-> [up |-> Len(Directory[m]), down |-> Directory[d]]]

\* The directory an include of a Taskfile in `from` leads to: nothing of ours
\* when it goes up out of the taskfiles folder.
Follow(from, include) ==
    IF include.up > Len(from) THEN <<None>>
    ELSE SubSeq(from, 1, Len(from) - include.up) \o include.down

\* filepath.Rel.
Rel(from, to) ==
    LET common == Len(LongestCommonPrefix({from, to}))
    IN  [up |-> Len(from) - common, down |-> SubSeq(to, common + 1, Len(to))]

\* The module an include is taken to name: how far it goes up is not looked at.
Named(include) == {m \in needed : Directory[m] = include.down}

\* Mutant: the new path starts where the module is in the store.
RewriteFromSource(include, m) ==
    IF Named(include) = {} THEN include
    ELSE Rel(Directory[m], Destination(CHOOSE n \in Named(include) : TRUE))

\* rewriteIncludePath: a path that names no copied module stays as it is.
RewriteIncludePath(include, m) ==
    IF Named(include) = {} THEN include
    ELSE Rel(Destination(m), Destination(CHOOSE n \in Named(include) : TRUE))

\* The includes of the copied Taskfile, under the names they had.
RewrittenIncludes(m) ==
    [d \in DOMAIN Includes(m) |-> RewriteIncludePath(Includes(m)[d], m)]

\* Every include of a copied module leads to the copy of the dependency it led
\* to in the store, and no other module has been copied over that one: whatever
\* suffixes the normalization has taken from either of the two names.
IncludesLeadToTheCopies ==
    outcome = "ok" =>
        \A m \in needed : \A d \in deps[m] :
            LET copy == Follow(Destination(m), RewrittenIncludes(m)[d])
            IN  {n \in needed : Destination(n) = copy} = {d}
=============================================================================
