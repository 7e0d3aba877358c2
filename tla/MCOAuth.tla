------------------------------ MODULE MCOAuth ------------------------------
(***************************************************************************)
(* A small instance of OAuth: a root card and its sub-card, their owner    *)
(* and an admin of the sub-card's team, two requests, three token rows.        *)
(***************************************************************************)
EXTENDS OAuth, TLC

CONSTANTS root, sub, u1, u2, q1, q2, t1, t2, t3

MCOwnerOf == (root :> u1) @@ (sub :> u1)
MCManagers == (root :> {u1}) @@ (sub :> {u1, u2})
MCParentOf == (root :> None) @@ (sub :> root)
MCSymmetry == Permutations({q1, q2}) \cup Permutations({t1, t2, t3})
=============================================================================
