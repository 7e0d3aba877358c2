------------------------------- MODULE MCSpend -------------------------------
(***************************************************************************)
(* Small instances of Spend: a root card and a sub-card, two payments and  *)
(* an authorization.                                                       *)
(***************************************************************************)
EXTENDS Spend, TLC

CONSTANTS root, sub, p1, p2, a1, k1

MCAncestors == [c \in {root, sub} |-> IF c = root THEN {root} ELSE {root, sub}]
MCNoSettlers == [s \in {} |-> a1]

\* The root's money is short: p1 and p2 fit together at the low fee only, and so do
\* p2 and a1.  The sub-card has one use, which p1 and a1 compete for.
RaceCardOf == (p1 :> sub) @@ (p2 :> root) @@ (a1 :> sub)
RaceKeyOf == [p \in {p1, p2} |-> NoKey]
RaceAmount == (p1 :> 2) @@ (p2 :> 2) @@ (a1 :> 3)
RaceCap == (root :> 6) @@ (sub :> Unlimited)
RaceUses == (root :> Unlimited) @@ (sub :> 1)

\* p2 is the retry of p1 under the same idempotency key.  Both fit: it is not the limits
\* that keep the second from paying.
RetryCardOf == [p \in {p1, p2} |-> sub]
RetryKeyOf == [p \in {p1, p2} |-> k1]
RetryAmount == [p \in {p1, p2} |-> 2]
RetryCap == (root :> 8) @@ (sub :> Unlimited)
RetryUses == (root :> Unlimited) @@ (sub :> 2)
=============================================================================
