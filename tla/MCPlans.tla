------------------------------- MODULE MCPlans -------------------------------
(***************************************************************************)
(* Small instances of Plans: a plan executed twice and a second plan with  *)
(* the same idempotency key, guarded; or both as direct calls.             *)
(***************************************************************************)
EXTENDS Plans, TLC

CONSTANTS p1, p2, e1, e2, e3, k1, n1

MCPlanOf == (e1 :> p1) @@ (e2 :> p1) @@ (e3 :> p2)
MCKeyOf == [p \in {p1, p2} |-> k1]
MCDeployments == {(p1 :> "pay") @@ (p2 :> "guarded"), [p \in {p1, p2} |-> "direct"]}
=============================================================================
