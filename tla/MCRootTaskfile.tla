--------------------------- MODULE MCRootTaskfile ---------------------------
(* Small instances of RootTaskfile: two modules that share a variable and an *)
(* exported name, a variable of the user's, two releases.                    *)
EXTENDS RootTaskfile

CONSTANTS go, eslint, x, y, z, lint

\* The second release has no metadata for go.
MCMetadataOf ==
    1 :> (go :> go @@ eslint :> eslint) @@
    2 :> (go :> None @@ eslint :> eslint)

\* The second release declares eslint's variables in another order, x of them
\* as a block, and go's in none.
MCModuleVars ==
    1 :> (go :> <<x>> @@ eslint :> <<x, y>>) @@
    2 :> (go :> <<>> @@ eslint :> <<y, x>>)
MCBlockVars == 1 :> {<<go, x>>} @@ 2 :> {<<eslint, y>>}

\* In the first release lint is common and eslint lists it twice; in the second
\* eslint alone exports it.
MCExports ==
    1 :> (go :> (lint :> 1) @@ eslint :> (lint :> 2)) @@
    2 :> (go :> (lint :> 0) @@ eslint :> (lint :> 1))

Cfg(ts, target, syncRoot) == [tasks |-> ts, target |-> target, syncRoot |-> syncRoot]
MCConfigs == {Cfg(<<go, eslint>>, "taskfiles", TRUE),
              Cfg(<<eslint, go>>, "taskfiles", TRUE),
              Cfg(<<eslint>>, "taskfiles", TRUE),
              Cfg(<<eslint>>, "taskfiles", FALSE),
              Cfg(<<eslint, go>>, "tools", TRUE)}
=============================================================================
