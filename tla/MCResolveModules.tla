--------------------------- MODULE MCResolveModules ---------------------------
(* A small store for ResolveModules: a plain module, and a task with a variant  *)
(* for one of two package managers, whose directory has the name of the plain   *)
(* module.                                                                      *)
EXTENDS ModuleIncludes

CONSTANTS bun, lint, lintBun, useNpm, useBun

MCModules == {bun, lint, lintBun}
MCParent == (bun :> None) @@ (lint :> None) @@ (lintBun :> lint)
MCDirectory ==
    (bun :> <<"bun">>) @@ (lint :> <<"lint">>) @@ (lintBun :> <<"lint", "bun">>)
MCVariant ==
    [m \in MCModules |-> [p \in {useNpm, useBun} |->
        IF m = lint /\ p = useBun THEN lintBun ELSE None]]
=============================================================================
