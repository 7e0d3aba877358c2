----------------------------- MODULE MCSettlement -----------------------------
(***************************************************************************)
(* Small instances of Settlement: one authorization with both its drivers, *)
(* alone or with a payment on the same card tree.                          *)
(***************************************************************************)
EXTENDS Settlement, TLC

CONSTANTS c1, p1, a1, kick, tick

MCAncestors == [c \in {c1} |-> {c1}]
MCTarget == [s \in {kick, tick} |-> a1]
MCCardOf == [r \in Pays \cup {a1} |-> c1]
MCKeyOf == [p \in Pays |-> NoKey]
MCAmount == [r \in Pays \cup {a1} |-> 2]
MCCap == [c \in {c1} |-> 7]
MCUses == [c \in {c1} |-> Unlimited]
=============================================================================
