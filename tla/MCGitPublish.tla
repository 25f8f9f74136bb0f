----------------------------- MODULE MCGitPublish -----------------------------
(* Small instances of GitPublish: one or two overlapping runs, invoked on one  *)
(* branch or on two.                                                           *)
EXTENDS GitPublish, TLC

CONSTANTS r1, r2, main, dev

OnMain == (main :> main)
OnTwo == (main :> main) @@ (dev :> dev)
=============================================================================
