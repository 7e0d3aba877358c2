------------------------------- MODULE Account -------------------------------
(***************************************************************************)
(* What the books of a card tree promise, whatever calls, webhooks, sweeps *)
(* and restarts write into them: a row takes budget only when the limits   *)
(* allow it on the books as they are, one row at a time, and everything    *)
(* else that happens to a row only gives budget back.                      *)
(***************************************************************************)
EXTENDS Integers

CONSTANTS
  Rows,
  Allows(_, _, _, _)  \* Allows(counted, fee, r, f): the limits admit row r with fee f

VARIABLES
  counted,  \* the rows that take budget
  fee       \* the fee counted for each

Init == counted = {} /\ fee = [r \in Rows |-> 0]

Take(r) ==
  /\ r \notin counted /\ fee'[r] \in Nat
  /\ Allows(counted, fee, r, fee'[r])
  /\ counted' = counted \cup {r}
  /\ fee' = [fee EXCEPT ![r] = fee'[r]]

\* Rows are released or their fee lowered; a released row needs a new Take to count again.
GiveBack ==
  /\ counted' \subseteq counted
  /\ fee' \in [Rows -> Nat]
  /\ \A r \in counted' : fee'[r] <= fee[r]

Next == GiveBack \/ \E r \in Rows : Take(r)

Spec == Init /\ [][Next]_<<counted, fee>>
=============================================================================
