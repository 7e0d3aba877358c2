----------------------------- MODULE X402Proofs -----------------------------
(***************************************************************************)
(* What module X402 promises, proved for every card tree, every number of  *)
(* fetches and authorizations, all prices and fees, and whether or not     *)
(* webhook and owner act while a payload is being signed.                  *)
(***************************************************************************)
EXTENDS X402, FiniteSetTheorems, TLAPS

-----------------------------------------------------------------------------
(* The limits: what the books count, and what taking and giving back does  *)
(* to it.                                                                  *)

\* Cards and rows as the books read them.
LEMMA CardTypes ==
  ASSUME NEW c \in Cards
  PROVE  /\ c \in Ancestors[c] /\ Ancestors[c] \subseteq Cards
         /\ MaxUses[c] \in Nat \cup {Unlimited} /\ Cap[c] \in Nat \cup {Unlimited}
  BY LedgerAssumption

LEMMA RowTypes ==
  ASSUME NEW r \in Rows
  PROVE  CardOf[r] \in Cards /\ Amount[r] \in Nat
  BY X402Assumption

\* The atoms one row takes.
LEMMA RowAtoms ==
  ASSUME NEW r, NEW n \in Nat
  PROVE  IsFiniteSet({r} \X (1..n)) /\ Cardinality({r} \X (1..n)) = n
<1>1. IsFiniteSet({r}) /\ Cardinality({r}) = 1
  BY FS_Singleton
<1>2. IsFiniteSet(1..n) /\ Cardinality(1..n) = n
  BY FS_Interval
<1>3. /\ IsFiniteSet({r} \X (1..n))
      /\ Cardinality({r} \X (1..n)) = Cardinality({r}) * Cardinality(1..n)
  BY <1>1, <1>2, FS_Product
<1> QED BY <1>1, <1>2, <1>3

\* Finitely many rows take finitely many atoms.
LEMMA AtomsFinite ==
  ASSUME NEW rows, IsFiniteSet(rows), NEW amount, NEW fee,
         \A r \in rows : amount[r] + fee[r] \in Nat
  PROVE  IsFiniteSet(Atoms(rows, amount, fee))
<1> DEFINE Of(r) == {r} \X (1..(amount[r] + fee[r]))
           parts == {Of(r) : r \in rows}
           f == [r \in rows |-> Of(r)]
<1>1. f \in Surjection(rows, parts)
  BY DEF Surjection
<1>2. IsFiniteSet(parts)
  BY <1>1, FS_Surjection
<1>3. \A r \in rows : IsFiniteSet(Of(r))
  BY RowAtoms
<1>4. \A T \in parts : IsFiniteSet(T)
  BY <1>3
<1>5. IsFiniteSet(UNION parts)
  <2> HIDE DEF parts
  <2> QED BY <1>2, <1>4, FS_UNION
<1> QED BY <1>5 DEF Atoms

\* One more row takes its amount and fee on top of the others.
LEMMA AtomsAdd ==
  ASSUME NEW rows, IsFiniteSet(rows), NEW r, r \notin rows, NEW amount, NEW fee,
         \A q \in rows \cup {r} : amount[q] + fee[q] \in Nat
  PROVE  Cardinality(Atoms(rows \cup {r}, amount, fee))
         = Cardinality(Atoms(rows, amount, fee)) + (amount[r] + fee[r])
<1> DEFINE old == Atoms(rows, amount, fee)
           new == {r} \X (1..(amount[r] + fee[r]))
<1>1. Atoms(rows \cup {r}, amount, fee) = old \cup new
  BY DEF Atoms
<1>2. IsFiniteSet(old) /\ IsFiniteSet(new) /\ Cardinality(new) = amount[r] + fee[r]
  BY AtomsFinite, RowAtoms
<1>3. old \cap new = {}
  BY DEF Atoms
<1>4. Cardinality(old \cup new) = Cardinality(old) + Cardinality(new) - Cardinality(old \cap new)
  BY <1>2, FS_Union
<1>5. Cardinality(old) \in Nat /\ Cardinality(new) \in Nat
  BY <1>2, FS_CardinalityType
<1>6. Cardinality(old \cap new) = 0
  BY <1>3, FS_EmptySet
<1>7. Cardinality(old \cup new) = Cardinality(old) + Cardinality(new)
  <2> HIDE DEF old, new
  <2> QED BY <1>4, <1>5, <1>6
<1> QED BY <1>1, <1>2, <1>7

\* Fewer rows with lower fees take no more.
LEMMA AtomsShrink ==
  ASSUME NEW rows, IsFiniteSet(rows), NEW less \in SUBSET rows, NEW amount, NEW fee, NEW lower,
         \A r \in rows : amount[r] \in Nat /\ fee[r] \in Nat,
         \A r \in less : lower[r] \in Nat /\ lower[r] <= fee[r]
  PROVE  Cardinality(Atoms(less, amount, lower)) <= Cardinality(Atoms(rows, amount, fee))
<1>1. Atoms(less, amount, lower) \subseteq Atoms(rows, amount, fee)
  <2> SUFFICES ASSUME NEW r \in less
               PROVE  {r} \X (1..(amount[r] + lower[r])) \subseteq {r} \X (1..(amount[r] + fee[r]))
    BY DEF Atoms
  <2>1. 1..(amount[r] + lower[r]) \subseteq 1..(amount[r] + fee[r])
    OBVIOUS
  <2> QED BY <2>1
<1>2. IsFiniteSet(Atoms(rows, amount, fee))
  BY AtomsFinite
<1> QED BY <1>1, <1>2, FS_Subset

\* The counted rows a limit of the account reads.
LEMMA SubtreeTypes ==
  ASSUME NEW rows \in SUBSET Rows, IsFiniteSet(rows), NEW fee \in [Rows -> Nat], NEW c \in Cards
  PROVE  /\ SubtreeRows(c, rows, CardOf) \in SUBSET rows
         /\ IsFiniteSet(SubtreeRows(c, rows, CardOf))
         /\ SubtreeUses(c, rows, CardOf) \in Nat
         /\ SubtreeSpent(c, rows, CardOf, Amount, fee) \in Nat
<1>1. SubtreeRows(c, rows, CardOf) \in SUBSET rows
  BY DEF SubtreeRows
<1>2. IsFiniteSet(SubtreeRows(c, rows, CardOf))
  BY <1>1, FS_Subset
<1>3. \A r \in SubtreeRows(c, rows, CardOf) : Amount[r] + fee[r] \in Nat
  BY <1>1, RowTypes
<1>4. IsFiniteSet(Atoms(SubtreeRows(c, rows, CardOf), Amount, fee))
  BY <1>2, <1>3, AtomsFinite
<1> QED BY <1>1, <1>2, <1>4, FS_CardinalityType DEF SubtreeUses, SubtreeSpent

\* Taking budget within the limits leaves every card of the tree within its limits.
LEMMA TakeWithinLimits ==
  ASSUME NEW rows \in SUBSET Rows, IsFiniteSet(rows), NEW fee \in [Rows -> Nat],
         NEW r \in Rows, r \notin rows, NEW f \in Nat,
         LimitsRespected(rows, CardOf, Amount, fee),
         WithinLimits(CardOf[r], Amount[r] + f, rows, CardOf, Amount, fee)
  PROVE  LimitsRespected(rows \cup {r}, CardOf, Amount, [fee EXCEPT ![r] = f])
<1> DEFINE now == rows \cup {r}
           fees == [fee EXCEPT ![r] = f]
<1> SUFFICES ASSUME NEW c \in Cards
             PROVE  /\ MaxUses[c] # Unlimited => SubtreeUses(c, now, CardOf) <= MaxUses[c]
                    /\ Cap[c] # Unlimited => SubtreeSpent(c, now, CardOf, Amount, fees) <= Cap[c]
  BY DEF LimitsRespected
<1> DEFINE mine == SubtreeRows(c, rows, CardOf)
<1>1. /\ mine \in SUBSET rows /\ IsFiniteSet(mine)
      /\ Cardinality(mine) \in Nat
  BY SubtreeTypes DEF SubtreeUses
<1>2. Atoms(mine, Amount, fees) = Atoms(mine, Amount, fee)
  BY <1>1 DEF Atoms
<1>3. /\ MaxUses[c] # Unlimited => Cardinality(mine) <= MaxUses[c]
      /\ Cap[c] # Unlimited => Cardinality(Atoms(mine, Amount, fee)) <= Cap[c]
  BY DEF LimitsRespected, SubtreeUses, SubtreeSpent
<1>4. CASE c \in Ancestors[CardOf[r]]
  <2>1. SubtreeRows(c, now, CardOf) = mine \cup {r}
    BY <1>4, RowTypes DEF SubtreeRows, Subtree
  <2>2. /\ MaxUses[c] # Unlimited => Cardinality(mine) < MaxUses[c]
        /\ Cap[c] # Unlimited => Cardinality(Atoms(mine, Amount, fee)) + (Amount[r] + f) <= Cap[c]
    BY <1>4 DEF WithinLimits, UseLeft, Affordable, SubtreeUses, SubtreeSpent
  <2>3. Cardinality(mine \cup {r}) = Cardinality(mine) + 1
    BY <1>1, FS_AddElement
  <2>4. \A q \in mine \cup {r} : Amount[q] + fees[q] \in Nat
    BY <1>1, RowTypes
  <2>5. Cardinality(Atoms(mine \cup {r}, Amount, fees))
        = Cardinality(Atoms(mine, Amount, fees)) + (Amount[r] + fees[r])
    <3>1. r \notin mine
      BY <1>1
    <3> HIDE DEF mine, fees
    <3> QED BY <1>1, <2>4, <3>1, AtomsAdd
  <2>6. SubtreeSpent(c, now, CardOf, Amount, fees) = Cardinality(Atoms(mine, Amount, fee)) + (Amount[r] + f)
    BY <1>2, <2>1, <2>5 DEF SubtreeSpent
  <2>7. MaxUses[c] # Unlimited => Cardinality(mine \cup {r}) <= MaxUses[c]
    <3>1. MaxUses[c] \in Nat \cup {Unlimited}
      BY CardTypes
    <3> HIDE DEF mine
    <3> QED BY <1>1, <2>2, <2>3, <3>1
  <2>8. SubtreeUses(c, now, CardOf) = Cardinality(mine \cup {r})
    BY <2>1 DEF SubtreeUses
  <2> HIDE DEF mine, now, fees
  <2> QED BY <2>2, <2>6, <2>7, <2>8
<1>5. CASE c \notin Ancestors[CardOf[r]]
  <2>1. SubtreeRows(c, now, CardOf) = mine
    BY <1>5 DEF SubtreeRows, Subtree
  <2> QED BY <1>2, <1>3, <2>1 DEF SubtreeUses, SubtreeSpent
<1> QED BY <1>4, <1>5

\* Fewer rows with lower fees count less on every card.
LEMMA LessTaken ==
  ASSUME NEW rows \in SUBSET Rows, IsFiniteSet(rows), NEW fee \in [Rows -> Nat],
         NEW less \in SUBSET rows, NEW lower \in [Rows -> Nat],
         \A r \in less : lower[r] <= fee[r], NEW c \in Cards
  PROVE  /\ SubtreeUses(c, less, CardOf) <= SubtreeUses(c, rows, CardOf)
         /\ SubtreeSpent(c, less, CardOf, Amount, lower) <= SubtreeSpent(c, rows, CardOf, Amount, fee)
         /\ SubtreeUses(c, less, CardOf) \in Nat /\ SubtreeUses(c, rows, CardOf) \in Nat
         /\ SubtreeSpent(c, less, CardOf, Amount, lower) \in Nat
         /\ SubtreeSpent(c, rows, CardOf, Amount, fee) \in Nat
<1> DEFINE was == SubtreeRows(c, rows, CardOf)
           is == SubtreeRows(c, less, CardOf)
<1>1. /\ was \in SUBSET rows /\ IsFiniteSet(was) /\ is \in SUBSET was /\ is \in SUBSET less
  BY SubtreeTypes DEF SubtreeRows
<1>2. Cardinality(is) <= Cardinality(was)
  BY <1>1, FS_Subset
<1>3. Cardinality(Atoms(is, Amount, lower)) <= Cardinality(Atoms(was, Amount, fee))
  <2>1. \A r \in was : Amount[r] \in Nat /\ fee[r] \in Nat
    BY <1>1, RowTypes
  <2>2. \A r \in is : lower[r] \in Nat /\ lower[r] <= fee[r]
    BY <1>1
  <2> HIDE DEF was, is
  <2> QED BY <1>1, <2>1, <2>2, AtomsShrink
<1>4. IsFiniteSet(less) /\ less \in SUBSET Rows
  BY FS_Subset
<1> QED BY <1>2, <1>3, <1>4, SubtreeTypes DEF SubtreeUses, SubtreeSpent

\* Giving budget back leaves every card within its limits, and room where there was room.
LEMMA GiveBackWithinLimits ==
  ASSUME NEW rows \in SUBSET Rows, IsFiniteSet(rows), NEW fee \in [Rows -> Nat],
         NEW less \in SUBSET rows, NEW lower \in [Rows -> Nat],
         \A r \in less : lower[r] <= fee[r]
  PROVE  /\ LimitsRespected(rows, CardOf, Amount, fee) => LimitsRespected(less, CardOf, Amount, lower)
         /\ \A card \in Cards, n \in Nat :
              WithinLimits(card, n, rows, CardOf, Amount, fee) => WithinLimits(card, n, less, CardOf, Amount, lower)
<1>1. \A c \in Cards : Ancestors[c] \subseteq Cards /\ MaxUses[c] \in Nat \cup {Unlimited} /\ Cap[c] \in Nat \cup {Unlimited}
  BY CardTypes
<1>2. \A c \in Cards :
        /\ SubtreeUses(c, less, CardOf) <= SubtreeUses(c, rows, CardOf)
        /\ SubtreeSpent(c, less, CardOf, Amount, lower) <= SubtreeSpent(c, rows, CardOf, Amount, fee)
        /\ SubtreeUses(c, less, CardOf) \in Nat /\ SubtreeUses(c, rows, CardOf) \in Nat
        /\ SubtreeSpent(c, less, CardOf, Amount, lower) \in Nat
        /\ SubtreeSpent(c, rows, CardOf, Amount, fee) \in Nat
  BY LessTaken
<1>3. LimitsRespected(rows, CardOf, Amount, fee) => LimitsRespected(less, CardOf, Amount, lower)
  BY <1>1, <1>2 DEF LimitsRespected
<1>4. ASSUME NEW card \in Cards, NEW n \in Nat, WithinLimits(card, n, rows, CardOf, Amount, fee)
      PROVE  WithinLimits(card, n, less, CardOf, Amount, lower)
  BY <1>1, <1>2, <1>4 DEF WithinLimits, UseLeft, Affordable
<1> QED BY <1>3, <1>4

\* Cards of one chain are in one tree.
LEMMA TreeShared ==
  ASSUME NEW c \in Cards, NEW d \in Cards, NEW a \in Ancestors[c], a \in Ancestors[d]
  PROVE  TreeOf(c) = TreeOf(d)
<1>1. a \in Cards /\ Ancestors[a] \subseteq Ancestors[c] /\ Ancestors[a] \subseteq Ancestors[d]
  BY LedgerAssumption
<1>2. PICK r \in Ancestors[a] : Ancestors[r] = {r}
  BY <1>1, LedgerAssumption
<1>3. ASSUME NEW e \in Cards, r \in Ancestors[e], NEW q \in Ancestors[e], Ancestors[q] = {q} PROVE q = r
  <2>1. q \in Ancestors[r] \/ r \in Ancestors[q]
    BY <1>3, LedgerAssumption
  <2> QED BY <1>2, <1>3, <2>1
<1>4. TreeOf(c) = r
  BY <1>1, <1>2, <1>3 DEF TreeOf
<1>5. TreeOf(d) = r
  BY <1>1, <1>2, <1>3 DEF TreeOf
<1> QED BY <1>4, <1>5

\* What one tree takes leaves the room in another as it is.
LEMMA TakeLeavesOthers ==
  ASSUME NEW rows \in SUBSET Rows, IsFiniteSet(rows), NEW fee \in [Rows -> Nat],
         NEW r \in Rows, r \notin rows, NEW f \in Nat, NEW card \in Cards, NEW n \in Nat,
         TreeOf(card) # TreeOf(CardOf[r]), WithinLimits(card, n, rows, CardOf, Amount, fee)
  PROVE  WithinLimits(card, n, rows \cup {r}, CardOf, Amount, [fee EXCEPT ![r] = f])
<1> DEFINE fees == [fee EXCEPT ![r] = f]
<1> SUFFICES ASSUME NEW c \in Ancestors[card]
             PROVE  /\ UseLeft(c, rows \cup {r}, CardOf)
                    /\ Affordable(c, n, rows \cup {r}, CardOf, Amount, fees)
  BY DEF WithinLimits
<1>1. CardOf[r] \in Cards /\ c \notin Ancestors[CardOf[r]]
  BY TreeShared, RowTypes
<1>2. SubtreeRows(c, rows \cup {r}, CardOf) = SubtreeRows(c, rows, CardOf)
  BY <1>1 DEF SubtreeRows, Subtree
<1>3. Atoms(SubtreeRows(c, rows, CardOf), Amount, fees) = Atoms(SubtreeRows(c, rows, CardOf), Amount, fee)
  BY DEF Atoms, SubtreeRows
<1> QED BY <1>2, <1>3 DEF WithinLimits, UseLeft, Affordable, SubtreeUses, SubtreeSpent

-----------------------------------------------------------------------------
USE LedgerAssumption, X402Assumption

-----------------------------------------------------------------------------
(* The inductive invariant.                                                *)

\* A call that is before its reservation has no row; one that waits for its answer has a
\* pending row.
CallsAndRows ==
  \A f \in Fetches :
    /\ pc[f] \in {"queued", "signing"} => charge[f] = "none"
    /\ pc[f] = "retry" => charge[f] = "pending"

\* A payload's redemptions have different fees, and what they took together is within the
\* leaf's allowance: nothing before the first landed, its price and fee after it.
RedeemedTruly ==
  \A f \in Fetches :
    /\ fac[f] = "estimate" => quote[f] \in Fresh(f)
    /\ out[f] \cap landed[f] = {}
    /\ landed[f] = {} => moved[f] = 0
    /\ \A x \in landed[f] : x <= FeeHeadroom /\ (landed[f] = {x} => moved[f] = Amount[f] + x)
    /\ moved[f] <= Amount[f] + FeeHeadroom

\* A settlement is reported for a redemption that landed.
ReportedTruly == \A f \in Fetches : receipts[f] \subseteq landed[f]

\* A reservation holds the headroom; a receipt names a redemption that landed, or no fee.
BookedFees ==
  \A f \in Fetches :
    /\ charge[f] = "pending" => feeOf[f] = FeeHeadroom
    /\ charge[f] = "confirmed" => landed[f] # {} /\ feeOf[f] \in landed[f] \cup {0}

IInv == TypeOK /\ CallsAndRows /\ RedeemedTruly /\ ReportedTruly /\ BookedFees

-----------------------------------------------------------------------------
\* Every fetch has a row, a card and a tree.
LEMMA FetchTypes ==
  ASSUME NEW f \in Fetches
  PROVE  f \in Rows /\ CardOf[f] \in Cards /\ TreeUsed(f) \in Trees /\ f # None
  BY DEF Rows, TreeUsed, Trees

\* The fees of a fetch are numbers.
LEMMA FeeTypes ==
  ASSUME TypeOK, NEW f \in Fetches
  PROVE  /\ feeOf[f] \in Nat /\ quote[f] \in Nat /\ moved[f] \in Nat /\ Amount[f] \in Nat
         /\ receipts[f] \cup {0} \subseteq Nat /\ out[f] \subseteq Fees /\ landed[f] \subseteq Fees
         /\ Fresh(f) \subseteq Nat
<1>1. feeOf[f] \in Nat /\ Amount[f] \in Nat
  BY FetchTypes DEF TypeOK
<1>2. quote[f] \in Nat /\ moved[f] \in Nat
  BY DEF TypeOK
<1>3. receipts[f] \in SUBSET Fees /\ out[f] \in SUBSET Fees /\ landed[f] \in SUBSET Fees
  BY DEF TypeOK
<1>4. Fees \subseteq Nat /\ 0 \in Nat
  OBVIOUS
<1>5. receipts[f] \cup {0} \subseteq Nat
  BY <1>3, <1>4
<1>6. Fresh(f) \subseteq Nat
  BY <1>4 DEF Fresh
<1> QED BY <1>1, <1>2, <1>3, <1>5, <1>6

LEMMA InitInvariant == Init => IInv
  BY DEF Init, IInv, TypeOK, CallsAndRows, RedeemedTruly, ReportedTruly, BookedFees, Rows,
         CardStates, ChargeStates, PcStates, FacStates

\* Steps of the buyer keep the types.
LEMMA BuyTypes ==
  ASSUME TypeOK, NEW f \in Fetches, Buy(f)
  PROVE  TypeOK'
<1> USE FetchTypes
<1>1. CASE Refuse(f)
  BY <1>1 DEF Refuse, TypeOK, PcStates, books, facilitator, redemptions
<1>2. CASE Check(f)
  BY <1>2 DEF Check, TypeOK, PcStates, books, facilitator, redemptions
<1>3. CASE Reserve(f)
  BY <1>3 DEF Reserve, TypeOK, PcStates, ChargeStates, facilitator, redemptions
<1>4. ASSUME NEW s \in ChargeStates, NEW fee \in Nat, Finalize(f, s, fee)
      PROVE  TypeOK'
  BY <1>4 DEF Finalize, TypeOK, PcStates, facilitator, redemptions
<1>5. CASE Answer(f)
  <2>1. feeOf[f] \in Nat /\ receipts[f] \cup {0} \subseteq Nat
    BY FeeTypes
  <2> QED BY <1>4, <1>5, <2>1 DEF Answer, AnswerPaid, AnswerBare, AnswerFails, ChargeStates
<1> QED BY <1>1, <1>2, <1>3, <1>5 DEF Buy

\* So do those of the facilitator, redemptions.
LEMMA SettleTypes ==
  ASSUME TypeOK, RedeemedTruly, NEW f \in Fetches, Settle(f) \/ Mine(f)
  PROVE  TypeOK'
<1>1. \A s \in FacStates : Fac(f, s) => fac' \in [Fetches -> FacStates]
  BY DEF Fac, TypeOK
<1>2. \A s \in {"idle", "estimate", "confirm"} : s \in FacStates
  BY DEF FacStates
<1>3. Over(f) => /\ fac' \in [Fetches -> FacStates]
                 /\ quote' \in [Fetches -> Nat] /\ round' \in [Fetches -> 0..Rounds]
  BY <1>1, <1>2 DEF Over, TypeOK
<1>4. /\ Fresh(f) \subseteq Nat /\ quote[f] \in Nat /\ moved[f] \in Nat /\ Amount[f] \in Nat
      /\ out[f] \subseteq Fees /\ Fees \subseteq Nat
  BY FeeTypes
<1>5. CASE FacReceive(f)
  BY <1>1, <1>2, <1>4, <1>5 DEF FacReceive, TypeOK, books, buyer, redemptions
<1>6. CASE FacReject(f)
  BY <1>3, <1>6 DEF FacReject, TypeOK, books, buyer, redemptions
<1>7. CASE FacRaise(f)
  <2>1. quote' \in [Fetches -> Nat] /\ round' \in [Fetches -> 0..Rounds]
    BY <1>4, <1>7 DEF FacRaise, TypeOK
  <2> QED BY <1>7, <2>1 DEF FacRaise, TypeOK, books, buyer, redemptions
<1>8. CASE FacSend(f)
  <2>1. quote[f] \in Fees
    BY <1>8 DEF FacSend, RedeemedTruly, Fresh
  <2>2. out' \in [Fetches -> SUBSET Fees]
    BY <1>8, <2>1 DEF FacSend, TypeOK
  <2> QED BY <1>1, <1>2, <1>3, <1>8, <2>2 DEF FacSend, TypeOK, books, buyer
<1>9. CASE FacConfirm(f)
  <2>1. ASSUME quote[f] \in landed[f], Report(f) PROVE receipts' \in [Fetches -> SUBSET Fees]
    BY <2>1, FeeTypes DEF Report, TypeOK
  <2>2. receipts' \in [Fetches -> SUBSET Fees]
    BY <1>9, <2>1 DEF FacConfirm, TypeOK
  <2> QED BY <1>3, <1>9, <2>2 DEF FacConfirm, TypeOK, books, buyer, redemptions
<1>10. CASE Mine(f)
  <2>1. PICK fee \in out[f] :
          /\ out' = [out EXCEPT ![f] = @ \ {fee}]
          /\ Land(f, fee) \/ UNCHANGED <<landed, moved>>
    BY <1>10 DEF Mine
  <2>2. fee \in Fees /\ fee \in Nat /\ moved[f] \in Nat /\ moved[f] + (Amount[f] + fee) \in Nat
    BY <1>4 DEF TypeOK
  <2>3. CASE UNCHANGED <<landed, moved>>
    <3>1. landed' \in [Fetches -> SUBSET Fees] /\ moved' \in [Fetches -> Nat]
      BY <2>3 DEF TypeOK
    <3>2. out' \in [Fetches -> SUBSET Fees]
      BY <2>1 DEF TypeOK
    <3> QED BY <1>10, <3>1, <3>2 DEF Mine, TypeOK, books, buyer, facilitator
  <2>4. CASE Land(f, fee)
    <3>1. landed' \in [Fetches -> SUBSET Fees]
      BY <2>2, <2>4 DEF Land, TypeOK
    <3>2. moved' \in [Fetches -> Nat]
      BY <2>2, <2>4 DEF Land, TypeOK
    <3>3. out' \in [Fetches -> SUBSET Fees]
      BY <2>1 DEF TypeOK
    <3> QED BY <1>10, <3>1, <3>2, <3>3 DEF Mine, TypeOK, books, buyer, facilitator
  <2> QED BY <2>1, <2>3, <2>4
<1> QED BY <1>5, <1>6, <1>7, <1>8, <1>9, <1>10 DEF Settle

\* And those of the rest of the server.
LEMMA ServerTypes ==
  ASSUME TypeOK,
         \/ \E a \in Auths : Authorize(a)
         \/ \E c \in Cards : Freeze(c) \/ Unfreeze(c)
         \/ FreeOrphans \/ Crash
  PROVE  TypeOK'
<1>1. ASSUME NEW a \in Auths, Authorize(a) PROVE TypeOK'
  BY <1>1 DEF Authorize, TypeOK, Rows, ChargeStates, buyer, facilitator, redemptions
<1>2. ASSUME NEW c \in Cards, Freeze(c) \/ Unfreeze(c) PROVE TypeOK'
  <2>1. "frozen" \in CardStates /\ "active" \in CardStates
    BY DEF CardStates
  <2>2. cardStatus' \in [Cards -> CardStates]
    BY <1>2, <2>1 DEF Freeze, Unfreeze, TypeOK
  <2> QED BY <1>2, <2>2 DEF Freeze, Unfreeze, TypeOK, books, buyer, facilitator, redemptions
<1>3. CASE FreeOrphans
  BY <1>3 DEF FreeOrphans, TypeOK, ChargeStates, buyer, facilitator, redemptions
<1>4. CASE Crash
  BY <1>4 DEF Crash, TypeOK, PcStates, FacStates, books, redemptions
<1> QED BY <1>1, <1>2, <1>3, <1>4

-----------------------------------------------------------------------------
\* Steps that leave the facilitator and the chain alone.
LEMMA ChainKept ==
  ASSUME RedeemedTruly, UNCHANGED facilitator, UNCHANGED redemptions
  PROVE  RedeemedTruly'
BY DEF RedeemedTruly, Fresh, facilitator, redemptions

\* A step of the buyer keeps the invariant.
LEMMA BuyKeeps ==
  ASSUME IInv, NEW f \in Fetches, Buy(f)
  PROVE  IInv'
<1> USE FetchTypes
<1>1. TypeOK /\ TypeOK' /\ RedeemedTruly /\ ReportedTruly
  BY BuyTypes DEF IInv
<1>2. UNCHANGED facilitator /\ UNCHANGED redemptions
  BY DEF Buy, Refuse, Check, Reserve, Answer, AnswerPaid, AnswerBare, AnswerFails, Finalize
<1>3. RedeemedTruly' /\ landed' = landed
  BY <1>1, <1>2, ChainKept DEF redemptions
<1>4. ASSUME receipts'[f] \in {receipts[f], {}}, \A g \in Fetches \ {f} : receipts'[g] = receipts[g]
      PROVE  ReportedTruly'
  BY <1>1, <1>3, <1>4 DEF ReportedTruly
<1>5. CASE Refuse(f)
  BY <1>1, <1>3, <1>4, <1>5 DEF Refuse, Turn, IInv, TypeOK, CallsAndRows, BookedFees, books
<1>6. CASE Check(f)
  BY <1>1, <1>3, <1>4, <1>6 DEF Check, Turn, IInv, TypeOK, CallsAndRows, BookedFees, books
<1>7. CASE Reserve(f)
  BY <1>1, <1>3, <1>4, <1>7 DEF Reserve, IInv, TypeOK, CallsAndRows, BookedFees, Rows
<1>8. ASSUME NEW s \in {"confirmed", "failed", "settlement_unconfirmed"}, NEW fee, pc[f] = "retry",
             Finalize(f, s, fee),
             s = "confirmed" => landed[f] # {} /\ fee \in landed[f] \cup {0}
      PROVE  IInv'
  <2>1. ReportedTruly'
    BY <1>1, <1>4, <1>8 DEF Finalize, TypeOK
  <2> QED BY <1>1, <1>3, <1>8, <2>1 DEF Finalize, IInv, TypeOK, CallsAndRows, BookedFees, Rows
<1>9. CASE Answer(f)
  <2>1. CASE AnswerPaid(f)
    BY <1>1, <1>8, <2>1 DEF AnswerPaid, ReportedTruly
  <2>2. CASE AnswerBare(f)
    BY <1>8, <2>2 DEF AnswerBare
  <2>3. CASE AnswerFails(f)
    BY <1>8, <2>3 DEF AnswerFails
  <2> QED BY <1>9, <2>1, <2>2, <2>3 DEF Answer
<1> QED BY <1>5, <1>6, <1>7, <1>9 DEF Buy

\* One landing more, in numbers.
LEMMA Landing ==
  ASSUME NEW m \in Nat, NEW a \in Nat, NEW x \in Nat, NEW h \in Nat, m + (a + x) <= a + h
  PROVE  x <= h /\ m + (a + x) \in Nat /\ (m = 0 => m + (a + x) = a + x)
OBVIOUS

\* A redemption that lands or is dropped keeps what is said of the chain.
LEMMA MineKeeps ==
  ASSUME TypeOK, RedeemedTruly, NEW f \in Fetches, Mine(f)
  PROVE  RedeemedTruly' /\ \A g \in Fetches : landed[g] \subseteq landed'[g]
<1>1. PICK fee \in out[f] :
        /\ out' = [out EXCEPT ![f] = @ \ {fee}]
        /\ Land(f, fee) \/ UNCHANGED <<landed, moved>>
  BY DEF Mine
<1>2. /\ fac' = fac /\ quote' = quote
      /\ fee \in Nat /\ moved[f] \in Nat /\ Amount[f] \in Nat /\ fee \notin landed[f]
  BY FetchTypes DEF Mine, facilitator, TypeOK, RedeemedTruly
<1>3. CASE UNCHANGED <<landed, moved>>
  BY <1>1, <1>2, <1>3 DEF TypeOK, RedeemedTruly, Fresh
<1>4. CASE Land(f, fee)
  <2>1. /\ landed'[f] = landed[f] \cup {fee} /\ moved'[f] = moved[f] + (Amount[f] + fee)
        /\ out'[f] = out[f] \ {fee}
        /\ \A g \in Fetches \ {f} : landed'[g] = landed[g] /\ moved'[g] = moved[g] /\ out'[g] = out[g]
    BY <1>1, <1>4 DEF Land, TypeOK
  <2>2. /\ fee <= FeeHeadroom /\ moved'[f] <= Amount[f] + FeeHeadroom
        /\ moved[f] = 0 => moved'[f] = Amount[f] + fee
    BY <1>2, <1>4, <2>1, Landing DEF Land, LeafAllows
  <2>3. ASSUME NEW x \in landed'[f]
        PROVE  x <= FeeHeadroom /\ (landed'[f] = {x} => moved'[f] = Amount[f] + x)
    <3>1. x <= FeeHeadroom
      BY <2>1, <2>2, <2>3 DEF RedeemedTruly
    <3>2. ASSUME landed'[f] = {x} PROVE landed[f] = {} /\ x = fee
      <4>1. x \in landed'[f] /\ fee \in landed'[f] /\ landed[f] \subseteq landed'[f]
        BY <2>1, <2>3
      <4>2. x = fee
        BY <3>2, <4>1
      <4> QED BY <1>2, <3>2, <4>1, <4>2
    <3>3. ASSUME landed'[f] = {x} PROVE moved'[f] = Amount[f] + x
      BY <2>2, <3>2, <3>3 DEF RedeemedTruly
    <3> QED BY <3>1, <3>3
  <2>4. ASSUME NEW g \in Fetches
        PROVE  /\ fac'[g] = "estimate" => quote'[g] \in Fresh(g)'
               /\ out'[g] \cap landed'[g] = {}
    BY <1>1, <1>2, <2>1 DEF RedeemedTruly, Fresh
  <2>5. \A g \in Fetches : landed[g] \subseteq landed'[g]
    BY <2>1
  <2>6. ASSUME NEW g \in Fetches \ {f}
        PROVE  /\ landed'[g] = {} => moved'[g] = 0
               /\ \A x \in landed'[g] : x <= FeeHeadroom /\ (landed'[g] = {x} => moved'[g] = Amount[g] + x)
               /\ moved'[g] <= Amount[g] + FeeHeadroom
    BY <2>1 DEF RedeemedTruly
  <2>7. ASSUME NEW g \in Fetches
        PROVE  /\ landed'[g] = {} => moved'[g] = 0
               /\ \A x \in landed'[g] : x <= FeeHeadroom /\ (landed'[g] = {x} => moved'[g] = Amount[g] + x)
               /\ moved'[g] <= Amount[g] + FeeHeadroom
    <3>1. CASE g = f
      <4>1. landed'[f] # {}
        BY <2>1
      <4> QED BY <3>1, <4>1, <2>2, <2>3
    <3>2. CASE g # f
      BY <3>2, <2>6
    <3> QED BY <3>1, <3>2
  <2>8. RedeemedTruly'
    BY <2>4, <2>7 DEF RedeemedTruly
  <2> QED BY <2>5, <2>8
<1> QED BY <1>1, <1>3, <1>4

\* A step of the facilitator keeps it too.
LEMMA FacKeeps ==
  ASSUME TypeOK, RedeemedTruly, ReportedTruly, NEW f \in Fetches, Settle(f)
  PROVE  RedeemedTruly' /\ ReportedTruly' /\ landed' = landed
<1>1. CASE FacReceive(f)
  BY <1>1 DEF FacReceive, Fac, TypeOK, RedeemedTruly, ReportedTruly, Fresh, redemptions
<1>2. CASE FacReject(f)
  BY <1>2 DEF FacReject, Over, Fac, TypeOK, RedeemedTruly, ReportedTruly, Fresh, redemptions
<1>3. CASE FacRaise(f)
  BY <1>3 DEF FacRaise, TypeOK, RedeemedTruly, ReportedTruly, Fresh, redemptions
<1>4. CASE FacSend(f)
  <2>1. /\ landed' = landed /\ moved' = moved /\ receipts' = receipts
        /\ out' = [out EXCEPT ![f] = @ \cup {quote[f]}] /\ quote[f] \in Fresh(f)
        /\ fac'[f] # "estimate"
        /\ \A g \in Fetches \ {f} : fac'[g] = fac[g] /\ quote'[g] = quote[g]
    BY <1>4 DEF FacSend, Over, Fac, TypeOK, RedeemedTruly
  <2> QED BY <2>1 DEF TypeOK, RedeemedTruly, ReportedTruly, Fresh
<1>5. CASE FacConfirm(f)
  <2>1. RedeemedTruly' /\ landed' = landed
    BY <1>5 DEF FacConfirm, Over, Fac, TypeOK, RedeemedTruly, Fresh, redemptions
  <2>2. CASE receipts' = receipts
    BY <2>1, <2>2 DEF ReportedTruly
  <2>3. CASE quote[f] \in landed[f] /\ Report(f)
    BY <2>1, <2>3 DEF Report, TypeOK, ReportedTruly
  <2> QED BY <1>5, <2>1, <2>2, <2>3 DEF FacConfirm
<1> QED BY <1>1, <1>2, <1>3, <1>4, <1>5 DEF Settle

\* Books and calls are the same, more has landed.
LEMMA BooksKept ==
  ASSUME CallsAndRows, BookedFees, UNCHANGED books, UNCHANGED buyer,
         \A g \in Fetches : landed[g] \subseteq landed'[g]
  PROVE  CallsAndRows' /\ BookedFees'
BY DEF CallsAndRows, BookedFees, books, buyer

LEMMA SettleKeeps ==
  ASSUME IInv, NEW f \in Fetches, Settle(f) \/ Mine(f)
  PROVE  IInv'
<1>1. TypeOK /\ TypeOK' /\ CallsAndRows /\ RedeemedTruly /\ ReportedTruly /\ BookedFees
  BY SettleTypes DEF IInv
<1>2. UNCHANGED books /\ UNCHANGED buyer
  BY DEF Settle, FacReceive, FacReject, FacRaise, FacSend, FacConfirm, Mine
<1>3. CASE Settle(f)
  BY <1>1, <1>2, <1>3, FacKeeps, BooksKept DEF IInv
<1>4. CASE Mine(f)
  <2>1. RedeemedTruly' /\ (\A g \in Fetches : landed[g] \subseteq landed'[g]) /\ receipts' = receipts
    BY <1>1, <1>4, MineKeeps DEF Mine
  <2>2. ReportedTruly'
    BY <1>1, <2>1 DEF ReportedTruly
  <2> QED BY <1>1, <1>2, <2>1, <2>2, BooksKept DEF IInv
<1> QED BY <1>3, <1>4

\* So does every step of the rest of the server; an orphan's call is over.
LEMMA ServerKeeps ==
  ASSUME IInv,
         \/ \E a \in Auths : Authorize(a)
         \/ \E c \in Cards : Freeze(c) \/ Unfreeze(c)
         \/ FreeOrphans \/ Crash
  PROVE  IInv'
<1>1. TypeOK /\ TypeOK' /\ RedeemedTruly /\ ReportedTruly
  BY ServerTypes DEF IInv
<1>2. ASSUME UNCHANGED facilitator, UNCHANGED redemptions, receipts' = receipts
      PROVE  RedeemedTruly' /\ ReportedTruly' /\ landed' = landed
  BY <1>1, <1>2, ChainKept DEF ReportedTruly, redemptions
<1>3. ASSUME NEW a \in Auths, Authorize(a) PROVE IInv'
  <2>1. \A f \in Fetches : f # a
    BY DEF Rows
  <2> QED BY <1>1, <1>2, <1>3, <2>1 DEF Authorize, IInv, TypeOK, CallsAndRows, BookedFees, Rows, buyer
<1>4. ASSUME NEW c \in Cards, Freeze(c) \/ Unfreeze(c) PROVE IInv'
  BY <1>1, <1>2, <1>4 DEF Freeze, Unfreeze, IInv, CallsAndRows, BookedFees, books, buyer
<1>5. CASE FreeOrphans
  BY <1>1, <1>2, <1>5, FetchTypes DEF FreeOrphans, Orphan, IInv, TypeOK, CallsAndRows, BookedFees, buyer
<1>6. CASE Crash
  <2>1. RedeemedTruly' /\ ReportedTruly' /\ landed' = landed
    BY <1>1, <1>6 DEF Crash, RedeemedTruly, ReportedTruly, Fresh, redemptions
  <2> QED BY <1>1, <1>6, <2>1 DEF Crash, IInv, TypeOK, CallsAndRows, BookedFees, books
<1> QED BY <1>3, <1>4, <1>5, <1>6

LEMMA StepKeeps == IInv /\ [Next]_vars => IInv'
<1> SUFFICES ASSUME IInv, [Next]_vars PROVE IInv'
  OBVIOUS
<1>1. CASE UNCHANGED vars
  BY <1>1 DEF vars, books, buyer, facilitator, redemptions, IInv, TypeOK, CallsAndRows, RedeemedTruly,
              Fresh, ReportedTruly, BookedFees
<1> QED BY <1>1, BuyKeeps, SettleKeeps, ServerKeeps DEF Next

LEMMA Invariance == Spec => []IInv
  BY InitInvariant, StepKeeps, PTL DEF Spec

-----------------------------------------------------------------------------
(* The reservations.                                                       *)

\* The room a payload was checked against is kept for it until it is booked.
RoomKept ==
  \A f \in Fetches : pc[f] = "signing" => holder[TreeUsed(f)] = f /\ Fits(f, FeeHeadroom)

BooksInv == IsFiniteSet(Counted) /\ BudgetHeld /\ RoomKept

\* A row that comes to count within the limits, while no payload of its tree is being signed.
LEMMA TakeKeepsBooks ==
  ASSUME TypeOK, BooksInv, NEW r \in Rows, r \notin Counted, NEW h \in Nat, Fits(r, h),
         Counted' = Counted \cup {r}, feeOf' = [feeOf EXCEPT ![r] = h],
         \A g \in Fetches : pc'[g] = "signing" =>
           /\ pc[g] = "signing" /\ holder'[TreeUsed(g)] = holder[TreeUsed(g)]
           /\ TreeUsed(g) # TreeOf(CardOf[r])
  PROVE  BooksInv'
<1>1. Counted \in SUBSET Rows /\ feeOf \in [Rows -> Nat]
  BY DEF Counted, TypeOK
<1>2. IsFiniteSet(Counted')
  BY FS_AddElement DEF BooksInv
<1>3. BudgetHeld'
  BY <1>1, TakeWithinLimits DEF BooksInv, BudgetHeld, Fits
<1>4. RoomKept'
  <2> SUFFICES ASSUME NEW g \in Fetches, pc'[g] = "signing"
               PROVE  holder'[TreeUsed(g)] = g /\ Fits(g, FeeHeadroom)'
    BY DEF RoomKept
  <2>1. holder[TreeUsed(g)] = g /\ Fits(g, FeeHeadroom)
    BY DEF BooksInv, RoomKept
  <2>2. CardOf[g] \in Cards /\ Amount[g] + FeeHeadroom \in Nat /\ TreeOf(CardOf[g]) # TreeOf(CardOf[r])
    BY FetchTypes DEF TreeUsed
  <2>3. WithinLimits(CardOf[g], Amount[g] + FeeHeadroom, Counted \cup {r}, CardOf, Amount, [feeOf EXCEPT ![r] = h])
    BY <1>1, <2>1, <2>2, TakeLeavesOthers DEF BooksInv, Fits
  <2> QED BY <2>1, <2>3 DEF Fits
<1> QED BY <1>2, <1>3, <1>4 DEF BooksInv

\* A step that only releases rows or lowers fees, and starts no signature.
LEMMA GiveBackKeepsBooks ==
  ASSUME TypeOK, TypeOK', BooksInv, Counted' \subseteq Counted,
         \A r \in Counted' : feeOf'[r] <= feeOf[r],
         \A g \in Fetches : pc'[g] = "signing" =>
           pc[g] = "signing" /\ holder'[TreeUsed(g)] = holder[TreeUsed(g)]
  PROVE  BooksInv'
<1>1. Counted \in SUBSET Rows /\ Counted' \in SUBSET Counted /\ feeOf \in [Rows -> Nat] /\ feeOf' \in [Rows -> Nat]
  BY DEF Counted, TypeOK
<1>2. IsFiniteSet(Counted')
  BY <1>1, FS_Subset DEF BooksInv
<1>3. /\ LimitsRespected(Counted, CardOf, Amount, feeOf) => LimitsRespected(Counted', CardOf, Amount, feeOf')
      /\ \A card \in Cards, n \in Nat :
           WithinLimits(card, n, Counted, CardOf, Amount, feeOf) => WithinLimits(card, n, Counted', CardOf, Amount, feeOf')
  BY <1>1, GiveBackWithinLimits DEF BooksInv
<1>4. BudgetHeld'
  BY <1>3 DEF BooksInv, BudgetHeld
<1>5. RoomKept'
  <2> SUFFICES ASSUME NEW g \in Fetches, pc'[g] = "signing"
               PROVE  holder'[TreeUsed(g)] = g /\ Fits(g, FeeHeadroom)'
    BY DEF RoomKept
  <2>1. holder[TreeUsed(g)] = g /\ Fits(g, FeeHeadroom)
    BY DEF BooksInv, RoomKept
  <2>2. CardOf[g] \in Cards /\ Amount[g] + FeeHeadroom \in Nat
    BY FetchTypes
  <2> QED BY <1>3, <2>1, <2>2 DEF Fits
<1> QED BY <1>2, <1>4, <1>5 DEF BooksInv

\* Nothing counts at first.
LEMMA InitBooks == Init => BooksInv
<1> SUFFICES ASSUME Init PROVE BooksInv
  OBVIOUS
<1>1. Counted = {} /\ RoomKept
  BY DEF Init, Counted, RoomKept
<1>2. \A c \in Cards : SubtreeRows(c, Counted, CardOf) = {}
  BY <1>1 DEF SubtreeRows
<1>3. Atoms({}, Amount, feeOf) = {}
  BY DEF Atoms
<1>4. \A c \in Cards : /\ SubtreeUses(c, Counted, CardOf) = 0
                       /\ SubtreeSpent(c, Counted, CardOf, Amount, feeOf) = 0
  BY <1>2, <1>3, FS_EmptySet DEF SubtreeUses, SubtreeSpent
<1>5. \A c \in Cards : MaxUses[c] \in Nat \cup {Unlimited} /\ Cap[c] \in Nat \cup {Unlimited}
  OBVIOUS
<1> QED BY <1>1, <1>4, <1>5, FS_EmptySet DEF BooksInv, BudgetHeld, LimitsRespected

\* A buyer's step keeps the books: what it books was checked, and nothing of the tree was
\* booked in between.
LEMMA BuyKeepsBooks ==
  ASSUME IInv, TypeOK', BooksInv, NEW f \in Fetches, Buy(f)
  PROVE  BooksInv'
<1> USE FetchTypes
<1>0. TypeOK
  BY DEF IInv
<1>1. CASE Refuse(f)
  BY <1>0, <1>1, GiveBackKeepsBooks DEF Refuse, Turn, books, TypeOK, Counted
<1>2. CASE Check(f)
  <2>1. /\ Counted' = Counted /\ feeOf' = feeOf /\ Fits(f, FeeHeadroom) /\ Fits(f, FeeHeadroom)' = Fits(f, FeeHeadroom)
        /\ \A g \in Fetches \ {f} : pc'[g] = pc[g] /\ Fits(g, FeeHeadroom)' = Fits(g, FeeHeadroom)
        /\ holder[TreeUsed(f)] = None /\ holder'[TreeUsed(f)] = f
        /\ \A t \in Trees \ {TreeUsed(f)} : holder'[t] = holder[t]
    BY <1>0, <1>2 DEF Check, Turn, books, Counted, Fits, TypeOK
  <2>2. RoomKept'
    BY <2>1 DEF RoomKept, BooksInv
  <2>3. BudgetHeld' = BudgetHeld
    BY <2>1 DEF BudgetHeld
  <2> QED BY <2>1, <2>2, <2>3 DEF BooksInv
<1>3. CASE Reserve(f)
  <2>1. /\ f \notin Counted /\ Counted' = Counted \cup {f} /\ feeOf' = [feeOf EXCEPT ![f] = FeeHeadroom]
        /\ pc[f] = "signing" /\ pc' = [pc EXCEPT ![f] = "retry"]
        /\ holder' = [holder EXCEPT ![TreeUsed(f)] = None]
    BY <1>0, <1>3 DEF Reserve, IInv, CallsAndRows, TypeOK, Counted, Rows
  <2>2. Fits(f, FeeHeadroom) /\ holder[TreeUsed(f)] = f
    BY <2>1 DEF BooksInv, RoomKept
  <2>3. \A g \in Fetches : pc'[g] = "signing" =>
          /\ pc[g] = "signing" /\ holder'[TreeUsed(g)] = holder[TreeUsed(g)]
          /\ TreeUsed(g) # TreeOf(CardOf[f])
    BY <1>0, <2>1, <2>2 DEF BooksInv, RoomKept, TypeOK, TreeUsed
  <2> QED BY <1>0, <2>1, <2>2, <2>3, TakeKeepsBooks
<1>4. CASE Answer(f)
  <2>1. /\ pc[f] = "retry" /\ charge[f] = "pending" /\ feeOf[f] = FeeHeadroom
        /\ \A x \in receipts[f] : x \in Nat /\ x <= FeeHeadroom
    BY <1>4 DEF Answer, AnswerPaid, AnswerBare, AnswerFails, IInv, TypeOK, CallsAndRows, RedeemedTruly,
                ReportedTruly, BookedFees
  <2>2. PICK fee \in Nat, s \in {"confirmed", "failed", "settlement_unconfirmed"} : Finalize(f, s, fee) /\ fee <= feeOf[f]
    <3>1. feeOf[f] \in Nat /\ 0 <= feeOf[f]
      BY <1>0 DEF TypeOK
    <3> QED BY <1>4, <2>1, <3>1 DEF Answer, AnswerPaid, AnswerBare, AnswerFails
  <2>3. /\ Counted' \subseteq Counted /\ \A r \in Counted' : feeOf'[r] <= feeOf[r]
    BY <1>0, <2>1, <2>2 DEF Finalize, Counted, TypeOK
  <2>4. \A g \in Fetches : pc'[g] = "signing" =>
          pc[g] = "signing" /\ holder'[TreeUsed(g)] = holder[TreeUsed(g)]
    BY <1>0, <2>2 DEF Finalize, TypeOK
  <2> QED BY <1>0, <2>3, <2>4, GiveBackKeepsBooks
<1> QED BY <1>1, <1>2, <1>3, <1>4 DEF Buy

\* Every other step does.
LEMMA OtherKeepsBooks ==
  ASSUME ~SigningRaces \/ Auths = {}, IInv, TypeOK', BooksInv,
         \/ \E f \in Fetches : Settle(f) \/ Mine(f)
         \/ \E a \in Auths : Authorize(a)
         \/ \E c \in Cards : Freeze(c) \/ Unfreeze(c)
         \/ FreeOrphans \/ Crash \/ UNCHANGED vars
  PROVE  BooksInv'
<1>0. TypeOK /\ \A r \in Counted : r \in Rows
  BY DEF IInv, Counted
<1>1. ASSUME charge' = charge, feeOf' = feeOf, pc' = pc, holder' = holder PROVE BooksInv'
  BY <1>0, <1>1, GiveBackKeepsBooks DEF TypeOK, Counted
<1>2. ASSUME NEW f \in Fetches, Settle(f) \/ Mine(f) PROVE BooksInv'
  BY <1>1, <1>2 DEF Settle, FacReceive, FacReject, FacRaise, FacSend, FacConfirm, Mine, books, buyer
<1>3. ASSUME NEW a \in Auths, Authorize(a) PROVE BooksInv'
  <2>1. /\ a \in Rows /\ a \notin Counted /\ Counted' = Counted \cup {a} /\ Fits(a, AuthHeadroom)
        /\ feeOf' = [feeOf EXCEPT ![a] = AuthHeadroom] /\ pc' = pc /\ holder' = holder
        /\ holder[TreeOf(CardOf[a])] = None
    BY <1>0, <1>3 DEF Authorize, Quiet, TypeOK, Counted, Rows, buyer
  <2>2. \A g \in Fetches : pc'[g] = "signing" =>
          /\ pc[g] = "signing" /\ holder'[TreeUsed(g)] = holder[TreeUsed(g)]
          /\ TreeUsed(g) # TreeOf(CardOf[a])
    BY <2>1, FetchTypes DEF BooksInv, RoomKept
  <2> QED BY <1>0, <2>1, <2>2, TakeKeepsBooks
<1>4. ASSUME NEW c \in Cards, Freeze(c) \/ Unfreeze(c) PROVE BooksInv'
  BY <1>1, <1>4 DEF Freeze, Unfreeze, books, buyer
<1>5. CASE FreeOrphans
  <2>1. Counted' \subseteq Counted /\ feeOf' = feeOf /\ pc' = pc /\ holder' = holder
    BY <1>0, <1>5 DEF FreeOrphans, Orphan, Counted, TypeOK, buyer
  <2>2. \A r \in Counted' : feeOf'[r] <= feeOf[r]
    BY <1>0, <2>1 DEF TypeOK
  <2> QED BY <1>0, <2>1, <2>2, GiveBackKeepsBooks
<1>6. CASE Crash
  <2>1. /\ charge' = charge /\ feeOf' = feeOf /\ \A g \in Fetches : pc'[g] # "signing"
        /\ Counted' = Counted
    BY <1>6 DEF Crash, books, Counted
  <2>2. \A r \in Counted' : feeOf'[r] <= feeOf[r]
    BY <1>0, <2>1 DEF TypeOK
  <2> QED BY <1>0, <2>1, <2>2, GiveBackKeepsBooks
<1>7. CASE UNCHANGED vars
  BY <1>1, <1>7 DEF vars, books, buyer
<1> QED BY <1>2, <1>3, <1>4, <1>5, <1>6, <1>7

-----------------------------------------------------------------------------
(* The theorems.                                                           *)

\* The variables keep their types (charges, calls, facilitator and chain of module X402).
THEOREM X402Types == Spec => []TypeOK
<1>1. IInv => TypeOK
  BY DEF IInv
<1> QED BY <1>1, Invariance, PTL

\* A pending reservation covers all that the redemptions of its payload took, repeated
\* settlements included. A confirmed row stands for a redemption that landed, books no fee
\* but one of a redemption that landed, and covers what left the account where the payload
\* was settled once at the fee it books (x402.ts 105-152, mcp/server.ts 287-330).
THEOREM PaidStaysCovered == Spec => []BookedCoversPaid
<1>1. IInv => BookedCoversPaid
  <2> SUFFICES ASSUME IInv, NEW f \in Fetches
               PROVE  /\ charge[f] = "pending" => moved[f] <= Amount[f] + feeOf[f]
                      /\ charge[f] = "confirmed" =>
                           /\ landed[f] # {}
                           /\ feeOf[f] # 0 => feeOf[f] \in landed[f]
                           /\ landed[f] = {feeOf[f]} => moved[f] <= Amount[f] + feeOf[f]
    BY DEF BookedCoversPaid
  <2>1. feeOf[f] \in Nat /\ Amount[f] \in Nat
    BY FetchTypes DEF IInv, TypeOK, Rows
  <2> QED BY <2>1 DEF IInv, RedeemedTruly, BookedFees
<1> QED BY <1>1, Invariance, PTL

\* A reservation is decided once: neither a late answer nor the orphan sweep writes over
\* a final row (x402.ts 135-152, spend.ts 993-996).
THEOREM DecidedOnce == Spec => FinalizedOnce
<1>1. ASSUME IInv, Next, NEW f \in Fetches, charge[f] \notin {"none", "pending"}
      PROVE  charge'[f] = charge[f] /\ feeOf'[f] = feeOf[f]
  <2> USE <1>1, FetchTypes
  <2>1. pc[f] \notin {"queued", "signing", "retry"}
    BY DEF IInv, CallsAndRows
  <2>2. ASSUME NEW g \in Fetches, Buy(g) PROVE charge'[f] = charge[f] /\ feeOf'[f] = feeOf[f]
    <3>1. CASE Refuse(g) \/ Check(g)
      BY <3>1 DEF Refuse, Check, books
    <3>2. CASE Reserve(g) \/ Answer(g)
      <4>1. f # g
        BY <2>1, <3>2 DEF Reserve, Answer, AnswerPaid, AnswerBare, AnswerFails
      <4> QED BY <3>2, <4>1 DEF Reserve, Answer, AnswerPaid, AnswerBare, AnswerFails, Finalize, IInv, TypeOK
    <3> QED BY <2>2, <3>1, <3>2 DEF Buy
  <2>3. ASSUME NEW g \in Fetches, Settle(g) \/ Mine(g) PROVE charge'[f] = charge[f] /\ feeOf'[f] = feeOf[f]
    BY <2>3 DEF Settle, FacReceive, FacReject, FacRaise, FacSend, FacConfirm, Mine, books
  <2>4. ASSUME NEW a \in Auths, Authorize(a) PROVE charge'[f] = charge[f] /\ feeOf'[f] = feeOf[f]
    BY <2>4 DEF Authorize, IInv, TypeOK
  <2>5. ASSUME NEW c \in Cards, Freeze(c) \/ Unfreeze(c) PROVE charge'[f] = charge[f] /\ feeOf'[f] = feeOf[f]
    BY <2>5 DEF Freeze, Unfreeze, books
  <2>6. CASE FreeOrphans
    BY <2>6 DEF FreeOrphans, Orphan
  <2>7. CASE Crash
    BY <2>7 DEF Crash, books
  <2> QED BY <2>2, <2>3, <2>4, <2>5, <2>6, <2>7 DEF Next
<1>2. IInv /\ [Next]_vars =>
        [\A f \in Fetches : charge[f] \notin {"none", "pending"} =>
           charge'[f] = charge[f] /\ feeOf'[f] = feeOf[f]]_vars
  BY <1>1
<1> QED BY <1>2, Invariance, PTL DEF Spec, FinalizedOnce

\* "A pending charge RESERVES budget at carve time so concurrent spends can't overdraw
\* between carve and settle" (x402.ts 10-12): with any number of fetches, authorizations,
\* restarts, sweeps and owner's steps no card is booked past its budget or its uses, as long
\* as no authorization comes while a payload of the tree is being signed. The signature is
\* the only await between the check and the reservation, and the mutex keeps the other
\* payloads out of it.
THEOREM ReservationsFit ==
  ASSUME ~SigningRaces \/ Auths = {}
  PROVE  Spec => []BudgetHeld
<1>1. IInv /\ IInv' /\ BooksInv /\ [Next]_vars => BooksInv'
  BY BuyKeepsBooks, OtherKeepsBooks DEF IInv, Next
<1>2. BooksInv => BudgetHeld
  BY DEF BooksInv
<1> QED BY <1>1, <1>2, InitBooks, Invariance, PTL DEF Spec
=============================================================================
