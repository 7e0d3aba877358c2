------------------------------ MODULE MCCards ------------------------------
(***************************************************************************)
(* Small instances of Cards: a root with a sub-card, a revoke finalized by *)
(* two requests, a nuke, and a nuke signed with the server's key.          *)
(***************************************************************************)
EXTENDS Cards, TLC

CONSTANTS r1, s1, revoke1, nuke1, nuke2, f1, f2, f3, f4

MCParentOf == (r1 :> None) @@ (s1 :> r1)
MCTarget == (revoke1 :> r1) @@ (nuke1 :> None) @@ (nuke2 :> None)
MCCallOf == (f1 :> revoke1) @@ (f2 :> revoke1) @@ (f3 :> nuke1) @@ (f4 :> nuke2)
=============================================================================
