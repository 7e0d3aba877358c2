------------------------------- MODULE Ledger -------------------------------
(***************************************************************************)
(* The card tree and the operators the books are read with: which cards a  *)
(* charge draws on, how much of a subtree's budget is taken, and the two   *)
(* budget checks.  A card's delegation is carved from its parent's, so one *)
(* charge is counted by the card it is made with and by every ancestor.    *)
(* The module has no state; the modules that hold the charge table EXTEND  *)
(* it (engine/src/store.ts, engine/src/spend.ts).                          *)
(***************************************************************************)
EXTENDS Integers, FiniteSets

CONSTANTS
  Cards,      \* card ids
  Ancestors,  \* Ancestors[c]: c itself and every card above it
  Cap,        \* Cap[c]: lifetime budget in atoms, or Unlimited
  MaxUses,    \* MaxUses[c]: redemption count limit, or Unlimited
  Unlimited   \* the terms leave the limit out

ASSUME LedgerAssumption ==
  /\ Ancestors \in [Cards -> SUBSET Cards]
  /\ \A c \in Cards : c \in Ancestors[c]
  /\ \A c \in Cards : \A a \in Ancestors[c] : Ancestors[a] \subseteq Ancestors[c]
  \* a card has one parent at most, and the chain ends at a card without one
  /\ \A c \in Cards : \A a, b \in Ancestors[c] : a \in Ancestors[b] \/ b \in Ancestors[a]
  /\ \A c \in Cards : \E r \in Ancestors[c] : Ancestors[r] = {r}
  /\ Cap \in [Cards -> Nat \cup {Unlimited}]
  /\ MaxUses \in [Cards -> Nat \cup {Unlimited}]
  /\ Unlimited \notin Nat

\* The cards whose charges count against c.
Subtree(c) == {d \in Cards : c \in Ancestors[d]}

\* The root of the tree c belongs to: the key spends are serialized on.
TreeOf(c) == CHOOSE r \in Ancestors[c] : Ancestors[r] = {r}

-----------------------------------------------------------------------------
(* Accounting over a set of rows: cardOf, amount and fee are functions on  *)
(* the rows, counted is the set of rows whose status is not 'failed'.      *)

SubtreeRows(c, counted, cardOf) == {r \in counted : cardOf[r] \in Subtree(c)}

\* The atoms taken by rows, one by one: row r takes the atoms <<r, 1>>, <<r, 2>>, ...
Atoms(rows, amount, fee) == UNION {{r} \X (1..(amount[r] + fee[r])) : r \in rows}

SubtreeSpent(c, counted, cardOf, amount, fee) ==
  Cardinality(Atoms(SubtreeRows(c, counted, cardOf), amount, fee))

SubtreeUses(c, counted, cardOf) == Cardinality(SubtreeRows(c, counted, cardOf))

\* c has a use left.
UseLeft(c, counted, cardOf) ==
  MaxUses[c] # Unlimited => SubtreeUses(c, counted, cardOf) < MaxUses[c]

\* c's budget covers total more atoms.
Affordable(c, total, counted, cardOf, amount, fee) ==
  Cap[c] # Unlimited => SubtreeSpent(c, counted, cardOf, amount, fee) + total <= Cap[c]

\* The check a spend and a card-network authorization both make: every card of
\* the chain has a use left and a budget that covers the charge.
WithinLimits(card, total, counted, cardOf, amount, fee) ==
  \A c \in Ancestors[card] :
    /\ UseLeft(c, counted, cardOf)
    /\ Affordable(c, total, counted, cardOf, amount, fee)

\* No card of the tree is past its budget or its use count.
LimitsRespected(counted, cardOf, amount, fee) ==
  \A c \in Cards :
    /\ MaxUses[c] # Unlimited => SubtreeUses(c, counted, cardOf) <= MaxUses[c]
    /\ Cap[c] # Unlimited => SubtreeSpent(c, counted, cardOf, amount, fee) <= Cap[c]
=============================================================================
