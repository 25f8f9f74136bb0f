---------------------------- MODULE MCStoreFetch ----------------------------
(* A small store for StoreFetch: a stable version, a newer one and a         *)
(* prerelease that is newer still, on pages of two tags.                     *)
EXTENDS StoreFetch, TLC

CONSTANTS c1, c2, c3, annotated, nested, file, big, link

MCVersion == <<1, 3, 2>>
MCPeeled == (annotated :> c1) @@ (nested :> annotated)
MCCommitOf ==
    (c1 :> c1) @@ (c2 :> c2) @@ (c3 :> c3) @@ (annotated :> c1) @@ (nested :> c1)
MCEntriesOf == (c1 :> {big}) @@ (c2 :> {file, big, link}) @@ (c3 :> {file})
MCSize == (file :> 1) @@ (big :> 2) @@ (link :> 0)
=============================================================================
