------------------------------- MODULE MCX402 -------------------------------
(***************************************************************************)
(* Small instances of X402: a root card and its sub-card, a fetch on each  *)
(* and a card-network authorization on the sub-card.                       *)
(***************************************************************************)
EXTENDS X402, TLC

CONSTANTS root, sub, f1, f2, a1

MCAncestors == [c \in {root, sub} |-> IF c = root THEN {root} ELSE {root, sub}]
MCCardOf == (f1 :> sub) @@ (f2 :> root) @@ (a1 :> sub)
MCAmount == (f1 :> 1) @@ (f2 :> 2) @@ (a1 :> 2)

\* The root's money is short: f1 and f2 do not fit together until one of them has been
\* settled for a lower fee; f2 and a1 do.  The sub-card has one use, for f1 or for a1.
\* f1's price is low enough for its payload to be settled twice.
MCCap == (root :> 12) @@ (sub :> Unlimited)
MCUses == (root :> Unlimited) @@ (sub :> 1)
=============================================================================
