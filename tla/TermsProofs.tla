----------------------------- MODULE TermsProofs -----------------------------
(***************************************************************************)
(* What attenuation and the books promise, proved for every set of root    *)
(* terms, of requests and of redemptions, and for chains of any length.    *)
(***************************************************************************)
EXTENDS Terms, FiniteSetTheorems, SequenceTheorems, TLAPS

-----------------------------------------------------------------------------
(* The inductive invariant.                                                *)

\* Payments come down the chain with the cards that may make them.
PayAbove ==
  \A i \in 1..Len(chain) : \A a \in Above(i) : chain[i].pay # None => chain[a].pay # None

IInv == TypeOK /\ PayAbove /\ TightensDownTheChain

-----------------------------------------------------------------------------
(* Sequences and sums.                                                     *)

\* A function on 1..n is a sequence.
LEMMA IsSeq ==
  ASSUME NEW S, NEW n \in Nat, NEW f \in [1..n -> S]
  PROVE  f \in Seq(S) /\ Len(f) = n
  BY SeqDef

\* The units of one element.
LEMMA AtomsOfOne ==
  ASSUME NEW k, NEW n \in Nat
  PROVE  IsFiniteSet({k} \X (1..n)) /\ Cardinality({k} \X (1..n)) = n
<1>1. IsFiniteSet({k}) /\ Cardinality({k}) = 1
  BY FS_Singleton
<1>2. IsFiniteSet(1..n) /\ Cardinality(1..n) = n
  BY FS_Interval
<1>3. IsFiniteSet({k} \X (1..n)) /\ Cardinality({k} \X (1..n)) = Cardinality({k}) * Cardinality(1..n)
  BY <1>1, <1>2, FS_Product
<1> QED BY <1>1, <1>2, <1>3

\* A sum over a finite set is a number.
LEMMA WeighFinite ==
  ASSUME NEW w, NEW S, IsFiniteSet(S), \A k \in S : w[k] \in Nat
  PROVE  /\ IsFiniteSet(UNION {{k} \X (1..w[k]) : k \in S})
         /\ Weigh(w, S) \in Nat
<1> DEFINE P(k) == {k} \X (1..w[k])
           T == {P(k) : k \in S}
<1>1. IsFiniteSet(T)
  <2> DEFINE f == [k \in S |-> P(k)]
  <2>1. f \in Surjection(S, T)
    BY DEF Surjection
  <2> HIDE DEF f, T
  <2> QED BY <2>1, FS_Surjection
<1>2. ASSUME NEW k \in S PROVE IsFiniteSet(P(k))
  BY AtomsOfOne
<1>3. IsFiniteSet(UNION T)
  <2>1. \A X \in T : IsFiniteSet(X)
    BY <1>2
  <2> HIDE DEF T
  <2> QED BY <1>1, <2>1, FS_UNION
<1> QED BY <1>3, FS_CardinalityType DEF Weigh

\* It grows with the set.
LEMMA WeighMonotone ==
  ASSUME NEW w, NEW T, NEW S \in SUBSET T, IsFiniteSet(T), \A k \in T : w[k] \in Nat
  PROVE  Weigh(w, S) <= Weigh(w, T)
<1> DEFINE A == UNION {{k} \X (1..w[k]) : k \in S}
           B == UNION {{k} \X (1..w[k]) : k \in T}
<1>1. A \subseteq B
  OBVIOUS
<1>2. IsFiniteSet(B)
  BY WeighFinite
<1> HIDE DEF A, B
<1>3. Cardinality(A) <= Cardinality(B)
  BY <1>1, <1>2, FS_Subset
<1> QED BY <1>3 DEF Weigh, A, B

\* One more element adds its weight.
LEMMA WeighAdd ==
  ASSUME NEW w, NEW S, IsFiniteSet(S), NEW j, j \notin S, \A k \in S \cup {j} : w[k] \in Nat
  PROVE  Weigh(w, S \cup {j}) = Weigh(w, S) + w[j]
<1> DEFINE A == UNION {{k} \X (1..w[k]) : k \in S}
           B == {j} \X (1..w[j])
<1>1. UNION {{k} \X (1..w[k]) : k \in S \cup {j}} = A \cup B
  OBVIOUS
<1>2. A \cap B = {}
  OBVIOUS
<1>3. IsFiniteSet(A) /\ Cardinality(A) \in Nat
  BY WeighFinite, FS_CardinalityType
<1>4. IsFiniteSet(B) /\ Cardinality(B) = w[j]
  BY AtomsOfOne
<1> HIDE DEF A, B
<1>5. Cardinality(A \cup B) = Cardinality(A) + Cardinality(B) - Cardinality(A \cap B)
  BY <1>3, <1>4, FS_Union
<1>6. Cardinality(A \cap B) = 0
  BY <1>2, FS_EmptySet
<1>7. Weigh(w, S \cup {j}) = Cardinality(A \cup B) /\ Weigh(w, S) = Cardinality(A)
  BY <1>1, Zenon DEF Weigh, A
<1> QED BY <1>3, <1>4, <1>5, <1>6, <1>7

\* No more than the greatest weight for each.
LEMMA WeighBound ==
  ASSUME NEW w, NEW S, IsFiniteSet(S), NEW m \in Nat, \A k \in S : w[k] \in Nat /\ w[k] <= m
  PROVE  Weigh(w, S) <= Cardinality(S) * m
<1> DEFINE A == UNION {{k} \X (1..w[k]) : k \in S}
           B == S \X (1..m)
<1>1. A \subseteq B
  OBVIOUS
<1>2. IsFiniteSet(1..m) /\ Cardinality(1..m) = m
  BY FS_Interval
<1>3. IsFiniteSet(B) /\ Cardinality(B) = Cardinality(S) * m
  BY <1>2, FS_Product
<1> HIDE DEF A, B
<1>4. Cardinality(A) <= Cardinality(B)
  BY <1>1, <1>3, FS_Subset
<1> QED BY <1>3, <1>4 DEF Weigh, A

\* The sum depends on the weights of the set only.
LEMMA WeighSame ==
  ASSUME NEW w, NEW v, NEW S, \A k \in S : w[k] = v[k]
  PROVE  Weigh(w, S) = Weigh(v, S)
<1>1. UNION {{k} \X (1..w[k]) : k \in S} = UNION {{k} \X (1..v[k]) : k \in S}
  OBVIOUS
<1> QED BY <1>1, Zenon DEF Weigh

-----------------------------------------------------------------------------
(* The books are numbers.                                                  *)

\* A payment is one execution; a batch has five at most.
LEMMA WorkTypes ==
  ASSUME NEW r \in Redemptions
  PROVE  /\ r.amount \in Nat /\ Cost(r) \in Nat
         /\ Work(r) \in Seq(ToSet(Work(r))) /\ Len(Work(r)) \in Nat
         /\ r.mode = "pay" => Len(Work(r)) = 1
         /\ r.mode # "pay" => r.mode = "execute" /\ Work(r) = r.calls /\ Len(Work(r)) <= 5
<1>1. /\ Fee \in Nat /\ r.amount \in Nat /\ r.calls \in Seq(Executions) /\ r.mode \in {"pay", "execute"}
      /\ Len(r.calls) <= 5
  BY TermsAssumption
<1>2. Work(r) \in Seq(ToSet(Work(r))) /\ Len(Work(r)) \in Nat
  <2>1. CASE r.mode = "pay"
    BY <2>1 DEF Work, ToSet
  <2>2. CASE r.mode # "pay"
    BY <1>1, <2>2, SeqDef DEF Work, ToSet
  <2> QED BY <2>1, <2>2
<1> QED BY <1>1, <1>2 DEF Work, Cost

LEMMA RowTypes ==
  ASSUME TypeOK
  PROVE  /\ Len(rows) \in Nat /\ DOMAIN rows = 1..Len(rows) /\ IsFiniteSet(DOMAIN rows)
         /\ rows \in [1..Len(rows) -> Row]
         /\ \A k \in DOMAIN rows :
              /\ rows[k] \in Row /\ rows[k].card \in 1..Len(chain)
              /\ rows[k].booked \cup rows[k].counted \subseteq 1..rows[k].card
              /\ Costs[k] \in Nat
<1>1. Len(rows) \in Nat /\ DOMAIN rows = 1..Len(rows) /\ rows \in [1..Len(rows) -> Row]
  BY DEF TypeOK
<1>2. IsFiniteSet(DOMAIN rows)
  BY <1>1, FS_Interval
<1>3. ASSUME NEW k \in DOMAIN rows PROVE rows[k] \in Row /\ Costs[k] \in Nat
  <2>1. rows[k] \in Row
    BY <1>1
  <2>2. rows[k].what \in Redemptions
    BY <2>1 DEF Row
  <2> QED BY <2>1, <2>2, WorkTypes DEF Costs
<1> QED BY <1>1, <1>2, <1>3 DEF TypeOK

LEMMA BookTypes ==
  TypeOK => \A i : Uses(i) \in Nat /\ Period(i) \in Nat /\ Life(i) \in Nat
<1> SUFFICES ASSUME TypeOK, NEW i
             PROVE  Uses(i) \in Nat /\ Period(i) \in Nat /\ Life(i) \in Nat
  OBVIOUS
<1> DEFINE P == {k \in Kept(i) : i \in rows[k].booked}
<1>1. Kept(i) \subseteq DOMAIN rows /\ P \subseteq DOMAIN rows
  BY DEF Kept, Below
<1>2. IsFiniteSet(Kept(i)) /\ IsFiniteSet(P)
  BY <1>1, RowTypes, FS_Subset
<1>3. (\A k \in Kept(i) : Costs[k] \in Nat) /\ (\A k \in P : Costs[k] \in Nat)
  BY <1>1, RowTypes
<1> HIDE DEF P
<1>4. Weigh(Costs, P) \in Nat /\ Weigh(Costs, Kept(i)) \in Nat
  BY <1>2, <1>3, WeighFinite
<1>5. Cardinality(Kept(i)) \in Nat
  BY <1>2, FS_CardinalityType
<1> QED BY <1>4, <1>5 DEF Uses, Period, Life, P

-----------------------------------------------------------------------------
(* What one step of attenuation does.                                      *)

\* Scope is normalized within its type.
LEMMA NormalizedTypes ==
  ASSUME NEW c \in ContractTerms
  PROVE  Normalized(c) \in ContractTerms
<1>1. CASE c.tokens = None
  BY <1>1 DEF Normalized
<1>2. CASE c.tokens # None
  <2>1. c.tokens \subseteq Addresses
    BY <1>2 DEF ContractTerms, ListOf
  <2>2. Normalized(c) = [c EXCEPT !.targets = c.targets \cup c.tokens,
                                  !.selectors = c.selectors \cup {Approve}]
    BY <1>2 DEF Normalized, ContractTerms
  <2> QED BY <2>1, <2>2, TermsAssumption DEF ContractTerms
<1> QED BY <1>1, <1>2

\* What is left is an amount or no figure.
LEMMA RemainingTypes ==
  ASSUME TypeOK, NEW i \in 1..Len(chain)
  PROVE  Remaining(i) \in PayTerms
<1>1. chain[i] \in CardTerms
  BY ElementOfSeq DEF TypeOK
<1>2. Period(i) \in Int /\ Life(i) \in Int
  BY BookTypes
<1>3. CASE chain[i].pay = None
  BY <1>3 DEF Remaining, PayTerms, Bound
<1>4. CASE chain[i].pay # None
  <2>1. chain[i].pay.period \in Bound /\ chain[i].pay.lifetime \in Bound
    BY <1>1, <1>4 DEF CardTerms, PayTerms
  <2> QED BY <1>2, <1>4, <2>1 DEF Remaining, PayTerms, Bound
<1> QED BY <1>3, <1>4

\* The terms of a new card are terms.
LEMMA AttenuatedTypes ==
  ASSUME NEW parent \in CardTerms, NEW left \in PayTerms, NEW child \in CardTerms,
         ~Refused(parent, left, child)
  PROVE  Attenuated(parent, left, child) \in CardTerms
<1> DEFINE t == Attenuated(parent, left, child)
           c == Normalized(child.contract)
<1>1. PayOf(parent, left, child) \in {None} \cup PayTerms
  <2>1. CASE parent.pay = None \/ child.pay # None
    BY <2>1 DEF PayOf, CardTerms
  <2>2. CASE ~(parent.pay = None \/ child.pay # None)
    <3>1. parent.pay.period \in Bound /\ left.period \in Bound /\ left.lifetime \in Bound
      BY <2>2 DEF CardTerms, PayTerms
    <3>2. (IF left.period = None THEN None ELSE Least(left.period, parent.pay.period)) \in Bound
      BY <3>1 DEF Least, Bound
    <3> QED BY <2>2, <3>1, <3>2 DEF PayOf, PayTerms
  <2> QED BY <2>1, <2>2
<1>2. ASSUME child.contract # None
      PROVE  ContractOf(parent, c) \in ContractTerms
  <2>1. c \in ContractTerms
    BY <1>2, NormalizedTypes DEF CardTerms
  <2>2. parent.contract \in ContractTerms
    BY <1>2 DEF Refused, ContractExceeds, CardTerms
  <2>3. parent.contract.perTradeMax \in Bound
    BY <2>2 DEF ContractTerms
  <2> HIDE DEF c
  <2> QED BY <2>1, <2>3 DEF ContractOf, ContractTerms
<1>3. /\ Inherit(child.expiry, parent.expiry) \in Bound
      /\ Inherit(child.perTxMax, parent.perTxMax) \in Bound
      /\ Inherit(child.merchants, parent.merchants) \in ListOf(Addresses)
  BY DEF Inherit, CardTerms
<1>4. t = [child EXCEPT !.pay = PayOf(parent, left, child),
             !.contract = IF child.contract = None THEN None ELSE ContractOf(parent, c),
             !.expiry = Inherit(child.expiry, parent.expiry),
             !.perTxMax = Inherit(child.perTxMax, parent.perTxMax),
             !.merchants = Inherit(child.merchants, parent.merchants)]
  BY DEF Attenuated, CardTerms
<1> DEFINE k == IF child.contract = None THEN None ELSE ContractOf(parent, c)
<1>5. k \in {None} \cup ContractTerms
  BY <1>2
<1> HIDE DEF t, c, k
<1>6. child.maxUses \in Bound /\ child.subcards \in BOOLEAN
  BY DEF CardTerms
<1>7. t = [pay |-> PayOf(parent, left, child), contract |-> k,
           expiry |-> Inherit(child.expiry, parent.expiry), maxUses |-> child.maxUses,
           perTxMax |-> Inherit(child.perTxMax, parent.perTxMax),
           merchants |-> Inherit(child.merchants, parent.merchants),
           subcards |-> child.subcards]
  BY <1>4 DEF CardTerms, k
<1> QED BY <1>1, <1>3, <1>5, <1>6, <1>7 DEF CardTerms, t

\* The chain after a card was minted.
LEMMA Minted ==
  ASSUME TypeOK, Mint
  PROVE  \E child \in CardTerms :
           LET n == Len(chain)
           IN  /\ ~Refused(chain[n], Remaining(n), child)
               /\ Attenuated(chain[n], Remaining(n), child) \in CardTerms
               /\ Valid(Attenuated(chain[n], Remaining(n), child))
               /\ chain' = Append(chain, Attenuated(chain[n], Remaining(n), child))
               /\ Len(chain') = n + 1 /\ n \in 1..n
               /\ chain'[n + 1] = Attenuated(chain[n], Remaining(n), child)
               /\ \A i \in 1..n : chain'[i] = chain[i]
<1> DEFINE n == Len(chain)
<1>1. chain \in Seq(CardTerms) /\ chain # <<>>
  BY DEF TypeOK
<1>2. n \in Nat /\ n \in 1..n
  BY <1>1, EmptySeq, LenProperties
<1>3. PICK child \in Requests :
        /\ ~Refused(chain[n], Remaining(n), child)
        /\ Valid(Attenuated(chain[n], Remaining(n), child))
        /\ chain' = Append(chain, Attenuated(chain[n], Remaining(n), child))
  BY DEF Mint
<1>4. child \in CardTerms
  BY TermsAssumption
<1>5. chain[n] \in CardTerms
  BY <1>1, <1>2, ElementOfSeq
<1>6. Remaining(n) \in PayTerms
  BY <1>2, RemainingTypes
<1>7. Attenuated(chain[n], Remaining(n), child) \in CardTerms
  BY <1>3, <1>4, <1>5, <1>6, AttenuatedTypes
<1>8. /\ Len(chain') = n + 1
      /\ chain'[n + 1] = Attenuated(chain[n], Remaining(n), child)
      /\ \A i \in 1..n : chain'[i] = chain[i]
  BY <1>1, <1>3, <1>7, AppendProperties
<1> QED BY <1>2, <1>3, <1>4, <1>7, <1>8

\* What is left of the chain after a deletion.
LEMMA Cut ==
  ASSUME TypeOK, NEW i \in 1..Len(chain), Delete(i)
  PROVE  /\ chain' \in Seq(CardTerms) /\ Len(chain') = i - 1
         /\ Len(chain) \in Nat /\ i \in Nat /\ i - 1 \in 1..Len(chain) /\ i - 1 \in 1..i - 1
         /\ \A a \in 1..i - 1 : chain'[a] = chain[a]
<1>1. chain \in Seq(CardTerms) /\ i > 1 /\ chain' = SubSeq(chain, 1, i - 1)
  BY DEF TypeOK, Delete
<1>2. Len(chain) \in Nat /\ i \in Nat /\ i - 1 \in 1..Len(chain) /\ i - 1 \in 1..i - 1
  BY <1>1
<1>3. \A a \in 1..i - 1 : chain[a] \in CardTerms
  BY <1>1, <1>2, ElementOfSeq
<1> QED BY <1>1, <1>2, <1>3, SubSeqProperties

\* The state keeps its type.
LEMMA TypeInit == Init => TypeOK
<1> SUFFICES ASSUME Init PROVE TypeOK
  OBVIOUS
<1>1. PICK t \in Roots : chain = <<t>>
  BY DEF Init
<1>2. t \in CardTerms
  BY TermsAssumption
<1>3. chain \in Seq(CardTerms) /\ chain # <<>> /\ Len(chain) = 1
  BY <1>1, <1>2
<1> QED BY <1>3 DEF Init, TypeOK

\* A step that rewrites rows one by one.
LEMMA Rewritten ==
  ASSUME TypeOK, NEW n \in 1..Len(chain),
         DOMAIN rows' = DOMAIN rows, rows' = [k \in DOMAIN rows |-> rows'[k]],
         \A k \in DOMAIN rows :
           /\ rows'[k] \in Row /\ rows'[k].card \in 1..n
           /\ rows'[k].booked \cup rows'[k].counted \subseteq 1..rows'[k].card
  PROVE  /\ rows' \in Seq(Row)
         /\ \A k \in DOMAIN rows' :
              /\ rows'[k].card \in 1..n
              /\ rows'[k].booked \cup rows'[k].counted \subseteq 1..rows'[k].card
<1>1. Len(rows) \in Nat /\ DOMAIN rows = 1..Len(rows)
  BY RowTypes
<1>2. rows' \in [1..Len(rows) -> Row]
  BY <1>1
<1> QED BY <1>1, <1>2, IsSeq

LEMMA TypeNext == TypeOK /\ [Next]_vars => TypeOK'
<1> SUFFICES ASSUME TypeOK, [Next]_vars PROVE TypeOK'
  OBVIOUS
<1> DEFINE n == Len(chain)
<1>1. n \in Nat /\ n \in 1..n /\ chain \in Seq(CardTerms)
  BY EmptySeq, LenProperties DEF TypeOK
<1>2. CASE Mint
  <2>1. PICK t \in CardTerms : chain' = Append(chain, t) /\ Len(chain') = n + 1
    BY <1>2, Minted
  <2>2. chain' \in Seq(CardTerms) /\ chain' # <<>>
    BY <1>1, <2>1, AppendProperties, EmptySeq DEF TypeOK
  <2>3. 1..n \subseteq 1..n + 1
    BY <1>1
  <2> QED BY <1>2, <2>1, <2>2, <2>3 DEF Mint, TypeOK
<1>3. CASE Tick \/ UNCHANGED vars
  BY <1>3 DEF Tick, vars, TypeOK
<1>4. ASSUME NEW i \in 1..n, NEW r \in Redemptions, Redeem(i, r) PROVE TypeOK'
  <2> DEFINE x == [card |-> i, what |-> r, kept |-> TRUE, landed |-> FALSE,
                   booked |-> 1..i, counted |-> {}]
  <2>1. x \in Row /\ x.card = i /\ x.booked \cup x.counted = 1..i
    BY DEF Row
  <2>2. rows' = Append(rows, x) /\ chain' = chain /\ now' = now
    BY <1>4 DEF Redeem
  <2> HIDE DEF x
  <2>3. /\ rows' \in Seq(Row) /\ Len(rows') = Len(rows) + 1
        /\ \A k \in 1..Len(rows) : rows'[k] = rows[k]
        /\ rows'[Len(rows) + 1] = x
    BY <2>1, <2>2, AppendProperties DEF TypeOK
  <2>4. Len(rows) \in Nat /\ DOMAIN rows = 1..Len(rows) /\ DOMAIN rows' = 1..Len(rows) + 1
    BY <2>3, RowTypes
  <2>5. ASSUME NEW k \in DOMAIN rows'
        PROVE  /\ rows'[k].card \in 1..n
               /\ rows'[k].booked \cup rows'[k].counted \subseteq 1..rows'[k].card
    <3>1. CASE k \in DOMAIN rows
      BY <2>3, <2>4, <3>1 DEF TypeOK
    <3>2. CASE k \notin DOMAIN rows
      BY <2>1, <2>3, <2>4, <2>5, <3>2
    <3> QED BY <3>1, <3>2
  <2> QED BY <2>2, <2>3, <2>5 DEF TypeOK
<1>5. ASSUME NEW k \in DOMAIN rows, Land(k) \/ Fail(k) PROVE TypeOK'
  <2>1. chain' = chain /\ now' = now /\ DOMAIN rows' = DOMAIN rows /\ rows' = [j \in DOMAIN rows |-> rows'[j]]
    BY <1>5 DEF Land, Fail
  <2>2. ASSUME NEW j \in DOMAIN rows
        PROVE  /\ rows'[j] \in Row /\ rows'[j].card \in 1..n
               /\ rows'[j].booked \cup rows'[j].counted \subseteq 1..rows'[j].card
    <3>1. /\ rows[j] \in Row /\ rows[j].card \in 1..n
          /\ rows[j].booked \cup rows[j].counted \subseteq 1..rows[j].card
      BY RowTypes
    <3>2. CASE Land(k)
      <4>1. rows'[j] = IF j = k THEN [rows[k] EXCEPT !.landed = TRUE, !.counted = 1..rows[k].card] ELSE rows[j]
        BY <3>2 DEF Land
      <4>2. 1..rows[j].card \subseteq Nat
        OBVIOUS
      <4> QED BY <3>1, <4>1, <4>2 DEF Row
    <3>3. CASE Fail(k)
      <4>1. rows'[j] = IF j = k THEN [rows[k] EXCEPT !.kept = FALSE] ELSE rows[j]
        BY <3>3 DEF Fail
      <4> QED BY <3>1, <4>1 DEF Row
    <3> QED BY <1>5, <3>2, <3>3
  <2> QED BY <1>1, <2>1, <2>2, Rewritten DEF TypeOK
<1>6. ASSUME NEW i \in 1..n, Roll(i) PROVE TypeOK'
  <2>1. /\ chain' = chain /\ now' = now
        /\ rows' = [k \in DOMAIN rows |-> [rows[k] EXCEPT !.booked = rows[k].booked \ {i},
                                                         !.counted = rows[k].counted \ {i}]]
    BY <1>6 DEF Roll
  <2>2. ASSUME NEW j \in DOMAIN rows
        PROVE  /\ rows'[j] \in Row /\ rows'[j].card \in 1..n
               /\ rows'[j].booked \cup rows'[j].counted \subseteq 1..rows'[j].card
    <3>1. /\ rows[j] \in Row /\ rows[j].card \in 1..n
          /\ rows[j].booked \cup rows[j].counted \subseteq 1..rows[j].card
      BY RowTypes
    <3> QED BY <2>1, <3>1 DEF Row
  <2>3. DOMAIN rows' = DOMAIN rows /\ rows' = [j \in DOMAIN rows |-> rows'[j]]
    BY <2>1
  <2> QED BY <1>1, <2>1, <2>2, <2>3, Rewritten DEF TypeOK
<1>7. ASSUME NEW i \in 1..n, Delete(i) PROVE TypeOK'
  <2>1. /\ i > 1 /\ chain' = SubSeq(chain, 1, i - 1) /\ now' = now
        /\ rows' = [k \in DOMAIN rows |->
             IF rows[k].card < i THEN rows[k]
             ELSE [rows[k] EXCEPT !.card = i - 1, !.kept = FALSE,
                                  !.booked = rows[k].booked \cap (1..i - 1),
                                  !.counted = rows[k].counted \cap (1..i - 1)]]
    BY <1>7 DEF Delete
  <2>2. /\ chain' \in Seq(CardTerms) /\ Len(chain') = i - 1
        /\ i \in Nat /\ i - 1 \in 1..n /\ i - 1 \in 1..i - 1
    BY <1>7, Cut
  <2>3. ASSUME NEW j \in DOMAIN rows
        PROVE  /\ rows'[j] \in Row /\ rows'[j].card \in 1..i - 1
               /\ rows'[j].booked \cup rows'[j].counted \subseteq 1..rows'[j].card
    <3>1. /\ rows[j] \in Row /\ rows[j].card \in 1..n
          /\ rows[j].booked \cup rows[j].counted \subseteq 1..rows[j].card
      BY RowTypes
    <3>4. i \in Nat /\ i - 1 \in Nat /\ i - 1 \in 1..i - 1
      BY <2>2
    <3>2. CASE rows[j].card < i
      <4>1. rows'[j] = rows[j]
        BY <2>1, <3>2
      <4>2. rows[j].card \in 1..i - 1
        BY <1>1, <3>1, <3>2, <3>4
      <4> QED BY <3>1, <4>1, <4>2
    <3>3. CASE ~(rows[j].card < i)
      <4> DEFINE B == rows[j].booked \cap (1..i - 1)
                 C == rows[j].counted \cap (1..i - 1)
      <4>1. B \in SUBSET Nat /\ C \in SUBSET Nat
        OBVIOUS
      <4>2. rows'[j] = [rows[j] EXCEPT !.card = i - 1, !.kept = FALSE, !.booked = B, !.counted = C]
        BY <2>1, <3>3
      <4>3. B \cup C \subseteq 1..i - 1
        OBVIOUS
      <4> HIDE DEF B, C
      <4>4. /\ rows'[j] \in Row /\ rows'[j].card = i - 1
            /\ rows'[j].booked = B /\ rows'[j].counted = C
        BY <3>1, <3>4, <4>1, <4>2 DEF Row
      <4> QED BY <3>4, <4>3, <4>4
    <3> QED BY <3>2, <3>3
  <2>4. DOMAIN rows' = DOMAIN rows /\ rows' = [j \in DOMAIN rows |-> rows'[j]]
    BY <2>1
  <2>5. chain' # <<>>
    BY <2>2
  <2> QED BY <2>1, <2>2, <2>3, <2>4, <2>5, Rewritten DEF TypeOK
<1> QED BY <1>2, <1>3, <1>4, <1>5, <1>6, <1>7 DEF Next

-----------------------------------------------------------------------------
(* Attenuation, and what it means down the chain.                          *)

\* Every check a request passed bounds the card it makes.
LEMMA MintNests ==
  ASSUME TypeOK, Mint, NEW n, n = Len(chain)
  PROVE  /\ chain'[n + 1].pay # None => chain'[n].pay # None
         /\ NestedIn(n + 1, n)'
         /\ CanUse(n + 1, {Approve})' => CapNestedIn(n + 1, n)'
<1> DEFINE p == chain[n]
<1>1. PICK child \in CardTerms :
        /\ ~Refused(p, Remaining(n), child)
        /\ chain'[n + 1] = Attenuated(p, Remaining(n), child)
        /\ n \in 1..n
        /\ \A i \in 1..n : chain'[i] = chain[i]
  BY Minted
<1> DEFINE c == Normalized(child.contract)
           t == Attenuated(p, Remaining(n), child)
<1>2. p \in CardTerms
  BY <1>1, ElementOfSeq DEF TypeOK
<1>3. /\ t.pay = PayOf(p, Remaining(n), child)
      /\ t.contract = IF child.contract = None THEN None ELSE ContractOf(p, c)
      /\ t.expiry = Inherit(child.expiry, p.expiry)
      /\ t.perTxMax = Inherit(child.perTxMax, p.perTxMax)
      /\ t.merchants = Inherit(child.merchants, p.merchants)
  BY DEF Attenuated, CardTerms
<1>4. chain'[n + 1] = t /\ chain'[n] = p
  BY <1>1
<1>5. t.pay # None => p.pay # None
  BY <1>1, <1>3 DEF PayOf, Refused, PayExceeds
<1>6. /\ p.expiry # None => t.expiry # None /\ t.expiry <= p.expiry
      /\ p.perTxMax # None => t.perTxMax # None /\ t.perTxMax <= p.perTxMax
      /\ p.merchants # None => t.merchants # None /\ t.merchants \subseteq p.merchants
  <2>1. /\ p.expiry \in Bound /\ p.perTxMax \in Bound
        /\ child.expiry \in Bound /\ child.perTxMax \in Bound
    BY <1>2 DEF CardTerms
  <2>2. ~ScalarsExceed(p, child)
    BY <1>1 DEF Refused
  <2> HIDE DEF t, p
  <2> QED BY <1>3, <2>1, <2>2 DEF ScalarsExceed, Exceeds, Inherit, Bound
<1>7. t.contract # None =>
        /\ p.contract # None
        /\ t.contract.targets \subseteq p.contract.targets
        /\ t.contract.selectors \subseteq p.contract.selectors
        /\ Approve \in t.contract.selectors /\ p.contract.perTradeMax # None =>
             /\ t.contract.perTradeMax # None
             /\ t.contract.perTradeMax <= p.contract.perTradeMax
  <2> SUFFICES ASSUME t.contract # None
               PROVE  /\ p.contract # None
                      /\ t.contract.targets \subseteq p.contract.targets
                      /\ t.contract.selectors \subseteq p.contract.selectors
                      /\ Approve \in t.contract.selectors /\ p.contract.perTradeMax # None =>
                           /\ t.contract.perTradeMax # None
                           /\ t.contract.perTradeMax <= p.contract.perTradeMax
    OBVIOUS
  <2>1. child.contract # None /\ t.contract = ContractOf(p, c)
    BY <1>3
  <2>2. ~ContractExceeds(p, c)
    BY <1>1, <2>1 DEF Refused
  <2>3. c \in ContractTerms
    BY <2>1, NormalizedTypes DEF CardTerms
  <2>4. p.contract \in ContractTerms
    BY <1>2, <2>2 DEF ContractExceeds, CardTerms
  <2>5. c.perTradeMax \in Bound /\ p.contract.perTradeMax \in Bound
    BY <2>3, <2>4 DEF ContractTerms
  <2> HIDE DEF t, p, c
  <2>6. /\ t.contract.targets = c.targets /\ t.contract.selectors = c.selectors
        /\ t.contract.perTradeMax = IF c.perTradeMax = None /\ Approve \in c.selectors
                                      THEN p.contract.perTradeMax ELSE c.perTradeMax
    BY <2>1, <2>3 DEF ContractOf, ContractTerms
  <2> QED BY <2>2, <2>5, <2>6 DEF ContractExceeds, Exceeds, Bound
<1> HIDE DEF t, p
<1> QED BY <1>4, <1>5, <1>6, <1>7 DEF NestedIn, CanUse, CapNestedIn

\* The chain changes by a new card or a deletion only.
LEMMA ChainSteps ==
  ASSUME [Next]_vars
  PROVE  Mint \/ (\E i \in 1..Len(chain) : Delete(i)) \/ UNCHANGED chain
  BY DEF Next, Roll, Redeem, Land, Fail, Tick, vars

\* So each card is nested in every card above it: what holds for its parent is handed
\* down.
LEMMA NestedNext ==
  ASSUME IInv, [Next]_vars
  PROVE  PayAbove' /\ TightensDownTheChain'
<1> DEFINE n == Len(chain)
<1>1. n \in Nat
  BY DEF IInv, TypeOK
<1>2. CASE Mint
  <2>1. PICK m \in Nat : m = n
    BY <1>1
  <2>2. /\ Len(chain') = m + 1 /\ m \in 1..m
        /\ \A i \in 1..m : chain'[i] = chain[i]
    BY <1>2, <2>1, Minted DEF IInv
  <2>3. /\ chain'[m + 1].pay # None => chain'[m].pay # None
        /\ NestedIn(m + 1, m)'
        /\ CanUse(m + 1, {Approve})' => CapNestedIn(m + 1, m)'
    BY <1>2, <2>1, MintNests DEF IInv
  <2>4. ASSUME NEW i \in 1..m, NEW a \in Above(i)
        PROVE  /\ chain'[i].pay # None => chain'[a].pay # None
               /\ NestedIn(i, a)'
               /\ CanUse(i, {Approve})' => CapNestedIn(i, a)'
    <3>1. a \in 1..m /\ chain'[i] = chain[i] /\ chain'[a] = chain[a]
      BY <2>2, <2>4 DEF Above
    <3>2. /\ chain[i].pay # None => chain[a].pay # None
          /\ NestedIn(i, a)
          /\ CanUse(i, {Approve}) => CapNestedIn(i, a)
      BY <2>1, <2>4 DEF IInv, PayAbove, TightensDownTheChain
    <3> QED BY <3>1, <3>2 DEF NestedIn, CanUse, CapNestedIn
  <2>5. ASSUME NEW a \in Above(m + 1)
        PROVE  /\ chain'[m + 1].pay # None => chain'[a].pay # None
               /\ NestedIn(m + 1, a)'
               /\ CanUse(m + 1, {Approve})' => CapNestedIn(m + 1, a)'
    <3>1. CASE a = m
      BY <2>3, <3>1
    <3>2. CASE a # m
      <4>1. a \in Above(m)
        BY <2>1, <2>5, <3>2 DEF Above
      <4>2. /\ chain'[m].pay # None => chain'[a].pay # None
            /\ NestedIn(m, a)'
            /\ CanUse(m, {Approve})' => CapNestedIn(m, a)'
        BY <2>2, <2>4, <4>1
      <4>3. CanUse(m + 1, {Approve})' => CanUse(m, {Approve})'
        BY <2>3 DEF NestedIn, CanUse
      <4>4. NestedIn(m + 1, a)'
        <5>1. /\ chain'[m + 1].expiry \in Bound /\ chain'[m + 1].perTxMax \in Bound
              /\ chain'[m].expiry \in Bound /\ chain'[m].perTxMax \in Bound
              /\ chain'[a].expiry \in Bound /\ chain'[a].perTxMax \in Bound
          <6>1. chain' \in Seq(CardTerms)
            BY TypeNext DEF IInv, TypeOK
          <6>2. a \in 1..Len(chain') /\ m \in 1..Len(chain') /\ m + 1 \in 1..Len(chain')
            BY <2>1, <2>2, <4>1 DEF Above
          <6>3. chain'[m + 1] \in CardTerms /\ chain'[m] \in CardTerms /\ chain'[a] \in CardTerms
            BY <6>1, <6>2, ElementOfSeq
          <6> QED BY <6>3 DEF CardTerms
        <5> QED BY <2>3, <4>2, <5>1 DEF NestedIn, Bound
      <4>5. CanUse(m + 1, {Approve})' => CapNestedIn(m + 1, a)'
        <5> SUFFICES ASSUME CanUse(m + 1, {Approve})'
                     PROVE  CapNestedIn(m + 1, a)'
          OBVIOUS
        <5>1. CapNestedIn(m + 1, m)' /\ CapNestedIn(m, a)'
          BY <2>3, <4>2, <4>3
        <5>2. chain' \in Seq(CardTerms)
          BY TypeNext DEF IInv, TypeOK
        <5>3. a \in 1..Len(chain') /\ m \in 1..Len(chain') /\ m + 1 \in 1..Len(chain')
          BY <2>1, <2>2, <4>1 DEF Above
        <5>4. chain'[m + 1] \in CardTerms /\ chain'[m] \in CardTerms /\ chain'[a] \in CardTerms
          BY <5>2, <5>3, ElementOfSeq
        <5>5. chain'[m + 1].contract # None /\ chain'[m].contract # None /\ chain'[a].contract # None
          BY <2>3, <4>2 DEF CanUse, NestedIn
        <5>6. /\ chain'[m + 1].contract.perTradeMax \in Bound
              /\ chain'[m].contract.perTradeMax \in Bound
              /\ chain'[a].contract.perTradeMax \in Bound
          BY <5>4, <5>5 DEF CardTerms, ContractTerms
        <5> QED BY <5>1, <5>6 DEF CapNestedIn, Bound
      <4> QED BY <2>3, <4>2, <4>4, <4>5
    <3> QED BY <3>1, <3>2
  <2>6. \A i \in 1..Len(chain') : i \in 1..m \/ i = m + 1
    BY <2>1, <2>2
  <2> HIDE DEF n
  <2> QED BY <2>4, <2>5, <2>6 DEF PayAbove, TightensDownTheChain, Above
<1>3. ASSUME NEW i \in 1..n, Delete(i) PROVE PayAbove' /\ TightensDownTheChain'
  <2>1. /\ Len(chain') = i - 1 /\ i - 1 \in 1..n
        /\ \A a \in 1..i - 1 : chain'[a] = chain[a]
    BY <1>3, Cut DEF IInv
  <2>2. ASSUME NEW j \in 1..i - 1, NEW a \in Above(j)
        PROVE  /\ chain'[j].pay # None => chain'[a].pay # None
               /\ NestedIn(j, a)'
               /\ CanUse(j, {Approve})' => CapNestedIn(j, a)'
    <3>1. j \in 1..n /\ chain'[j] = chain[j] /\ chain'[a] = chain[a]
      BY <1>1, <2>1 DEF Above
    <3>2. /\ chain[j].pay # None => chain[a].pay # None
          /\ NestedIn(j, a)
          /\ CanUse(j, {Approve}) => CapNestedIn(j, a)
      BY <3>1 DEF IInv, PayAbove, TightensDownTheChain
    <3> QED BY <3>1, <3>2 DEF NestedIn, CanUse, CapNestedIn
  <2> HIDE DEF n
  <2> QED BY <2>1, <2>2 DEF PayAbove, TightensDownTheChain, Above
<1>4. CASE UNCHANGED chain
  BY <1>4 DEF IInv, PayAbove, TightensDownTheChain, NestedIn, CanUse, CapNestedIn, Above
<1> QED BY <1>2, <1>3, <1>4, ChainSteps

LEMMA NestedInit == Init => PayAbove /\ TightensDownTheChain
  BY DEF Init, PayAbove, TightensDownTheChain, Above

\* The invariant holds.
LEMMA Inductive == Spec => []IInv
<1>1. Init => IInv
  BY TypeInit, NestedInit DEF IInv
<1>2. IInv /\ [Next]_vars => IInv'
  BY TypeNext, NestedNext DEF IInv
<1> QED BY <1>1, <1>2, PTL DEF Spec

\* What card i may redeem, the cards above it may.
LEMMA AddsNothing == IInv => SubCardAddsNothing
<1> SUFFICES ASSUME IInv, NEW i \in 1..Len(chain), NEW r \in Redemptions, Allowed(i, r),
                    NEW a \in Above(i)
             PROVE  Allowed(a, r)
  BY DEF SubCardAddsNothing
<1>1. Len(chain) \in Nat
  BY DEF IInv, TypeOK
<1>2. a \in 1..Len(chain) /\ 1..a \subseteq 1..i
  BY <1>1 DEF Above
<1>3. Active(a)
  BY <1>2 DEF Allowed, Active
<1>4. HasTool(chain[a], r)
  BY DEF Allowed, HasTool, IInv, PayAbove, TightensDownTheChain, NestedIn
<1> QED BY <1>2, <1>3, <1>4 DEF Allowed

\* A minted lifetime budget is what the parent had left, or less.
LEMMA MintsWithin ==
  ASSUME IInv, Mint, NEW n, n = Len(chain),
         chain'[n + 1].pay # None, chain[n].pay.lifetime # None
  PROVE  \/ chain'[n + 1].pay.lifetime = None
         \/ chain'[n + 1].pay.lifetime <= chain[n].pay.lifetime - Life(n)
<1> DEFINE left == Remaining(n)
           p == chain[n]
<1>1. PICK child \in CardTerms :
        /\ ~Refused(p, left, child)
        /\ Valid(Attenuated(p, left, child))
        /\ Attenuated(p, left, child) \in CardTerms
        /\ n \in 1..n
        /\ chain'[n + 1] = Attenuated(p, left, child)
  BY Minted DEF IInv
<1>2. p \in CardTerms /\ Life(n) \in Int
  BY <1>1, BookTypes, ElementOfSeq DEF IInv, TypeOK
<1>3. chain'[n + 1].pay = PayOf(p, left, child)
  BY <1>1 DEF Attenuated, CardTerms
<1>4. p.pay # None
  BY <1>1, <1>3 DEF PayOf, Refused, PayExceeds
<1>5. p.pay.lifetime \in Int
  BY <1>2, <1>4 DEF CardTerms, PayTerms, Bound
<1>6. left.lifetime = IF p.pay.lifetime > Life(n) THEN p.pay.lifetime - Life(n) ELSE 0
  BY <1>4 DEF Remaining
<1>7. chain'[n + 1].pay \in PayTerms
  BY <1>1 DEF CardTerms
<1>8. chain'[n + 1].pay.lifetime # None => chain'[n + 1].pay.lifetime > 0
  BY <1>1, <1>7 DEF Valid, ValidPay, NotPositive, PayTerms, Bound
<1>9. CASE child.pay = None
  <2>1. chain'[n + 1].pay.lifetime = left.lifetime
    BY <1>3, <1>4, <1>9 DEF PayOf
  <2> HIDE DEF left, p
  <2>2. chain'[n + 1].pay.lifetime # None => p.pay.lifetime > Life(n)
    BY <1>6, <1>8, <2>1
  <2> QED BY <1>2, <1>5, <1>6, <2>1, <2>2 DEF p
<1>10. CASE child.pay # None
  <2>1. chain'[n + 1].pay = child.pay /\ ~Exceeds(child.pay.lifetime, left.lifetime)
    BY <1>1, <1>3, <1>10 DEF PayOf, Refused, PayExceeds
  <2> HIDE DEF left, p
  <2>2. left.lifetime \in Int
    BY <1>2, <1>5, <1>6
  <2>3. CASE left.lifetime = None
    BY <2>2, <2>3, TermsAssumption
  <2>4. CASE left.lifetime # None
    <3>1. \/ chain'[n + 1].pay.lifetime = None
          \/ /\ chain'[n + 1].pay.lifetime \in Int
             /\ chain'[n + 1].pay.lifetime <= left.lifetime
             /\ chain'[n + 1].pay.lifetime > 0
      BY <1>7, <1>8, <2>1, <2>2, <2>4 DEF Exceeds, PayTerms, Bound
    <3> QED BY <1>2, <1>5, <1>6, <3>1 DEF p
  <2> QED BY <2>3, <2>4
<1> QED BY <1>9, <1>10

-----------------------------------------------------------------------------
(* The batch of a redemption and its items.                                *)

\* The batch is the work and then the fee.
LEMMA BatchOf ==
  ASSUME NEW r \in Redemptions
  PROVE  LET es == Batch(r)
             n == Len(Work(r))
         IN  /\ es \in Seq(ToSet(es)) /\ Len(es) = n + 1 /\ DOMAIN es = 1..n + 1
             /\ \A k \in 1..n : es[k] = Work(r)[k]
             /\ es[n + 1] = FeeLeg
             /\ ToSet(es) = ToSet(Work(r)) \cup {FeeLeg}
<1> DEFINE n == Len(Work(r))
           S == ToSet(Work(r)) \cup {FeeLeg}
<1>1. Work(r) \in Seq(S) /\ n \in Nat
  BY WorkTypes, SeqMonotonic
<1>2. /\ Batch(r) \in Seq(S) /\ Len(Batch(r)) = n + 1
      /\ \A k \in 1..n : Batch(r)[k] = Work(r)[k]
      /\ Batch(r)[n + 1] = FeeLeg
  BY <1>1, AppendProperties DEF Batch
<1>3. DOMAIN Batch(r) = 1..n + 1 /\ DOMAIN Work(r) = 1..n
  BY <1>1, <1>2
<1>4. ToSet(Batch(r)) = S
  BY <1>1, <1>2, <1>3 DEF ToSet
<1> QED BY <1>1, <1>2, <1>3, <1>4

\* An item holds executions of the batch; a pinned one holds one.
LEMMA ItemOf ==
  ASSUME NEW S, NEW es \in Seq(S), NEW item \in Items(es)
  PROVE  /\ ToSet(item.executions) \subseteq ToSet(es)
         /\ item.pinned => item.executions = <<item.executions[1]>>
<1>1. ASSUME NEW k \in DOMAIN es, item = [pinned |-> TRUE, executions |-> <<es[k]>>]
      PROVE  ToSet(item.executions) \subseteq ToSet(es) /\ item.executions = <<item.executions[1]>>
  BY <1>1 DEF ToSet
<1>2. ASSUME NEW p \in Runs(es), item = [pinned |-> FALSE, executions |-> SubSeq(es, p[1], p[2])]
      PROVE  ToSet(item.executions) \subseteq ToSet(es) /\ ~item.pinned
  <2>1. p[1] \in DOMAIN es /\ p[2] \in DOMAIN es /\ p[1] <= p[2] /\ DOMAIN es = 1..Len(es) /\ Len(es) \in Nat
    BY DEF Runs
  <2>2. \A i \in p[1]..p[2] : es[i] \in ToSet(es)
    BY <2>1 DEF ToSet
  <2>3. SubSeq(es, p[1], p[2]) \in Seq(ToSet(es))
    BY <2>1, <2>2, SubSeqProperties
  <2>4. ToSet(SubSeq(es, p[1], p[2])) \subseteq ToSet(es)
    <3> SUFFICES ASSUME NEW T, NEW s \in Seq(T) PROVE ToSet(s) \subseteq T
      BY <2>3
    <3> QED BY DEF ToSet
  <2> QED BY <1>2, <2>4
<1> QED BY <1>1, <1>2 DEF Items, Allowances

\* A payment has one item, with the transfer and the fee.
LEMMA PaymentItem ==
  ASSUME NEW r \in Redemptions, r.mode = "pay", NEW item \in Items(Batch(r))
  PROVE  /\ ~item.pinned
         /\ item.executions = <<Execution(Usdc, Transfer, r.to, r.amount), FeeLeg>>
<1> DEFINE es == Batch(r)
           w == Execution(Usdc, Transfer, r.to, r.amount)
<1>1. es = <<w, FeeLeg>>
  <2>1. Work(r) = <<w>>
    BY DEF Work
  <2> HIDE DEF w
  <2>2. <<w>> \in Seq({w, FeeLeg}) /\ <<w, FeeLeg>> \in Seq({w, FeeLeg})
    OBVIOUS
  <2>3. /\ Batch(r) \in Seq({w, FeeLeg}) /\ Len(Batch(r)) = 2
        /\ Batch(r)[1] = w /\ Batch(r)[2] = FeeLeg
    BY <2>1, <2>2, AppendProperties DEF Batch
  <2> QED BY <2>2, <2>3, SeqEqual
<1>2. Len(es) = 2 /\ DOMAIN es = 1..2 /\ es[1] = w /\ es[2] = FeeLeg
  BY <1>1
<1>3. Allowances(es) = {}
  BY <1>2, TermsAssumption DEF Allowances, Grants, Execution, FeeLeg
<1>4. \A p \in Runs(es) : p[1] = 1 /\ p[2] = 2
  <2> SUFFICES ASSUME NEW p \in Runs(es) PROVE p[1] = 1 /\ p[2] = 2
    OBVIOUS
  <2>1. p[1] \in 1..2 /\ p[2] \in 1..2 /\ p[1] - 1 \notin 1..2 /\ p[2] + 1 \notin 1..2
    BY <1>2, <1>3 DEF Runs
  <2> QED BY <2>1
<1>5. SubSeq(es, 1, 2) = es
  <2>1. es \in Seq({w, FeeLeg})
    BY <1>1
  <2> QED BY <1>2, <2>1, SubSeqFull
<1> HIDE DEF es, w
<1>6. item \in {[pinned |-> FALSE, executions |-> SubSeq(es, p[1], p[2])] : p \in Runs(es)}
  BY <1>3 DEF Items, es
<1>7. item = [pinned |-> FALSE, executions |-> es]
  BY <1>4, <1>5, <1>6
<1> QED BY <1>1, <1>7 DEF w

\* A payment moves the amount and the fee.
LEMMA PaymentTotal ==
  ASSUME NEW x, NEW y, x.amount \in Nat, y.amount \in Nat
  PROVE  Total(<<x, y>>) = x.amount + y.amount
<1> DEFINE w == [k \in DOMAIN <<x, y>> |-> <<x, y>>[k].amount]
<1>1. DOMAIN <<x, y>> = {1} \cup {2} /\ w[1] = x.amount /\ w[2] = y.amount
  OBVIOUS
<1> HIDE DEF w
<1>2. IsFiniteSet({1}) /\ IsFiniteSet({}) /\ Weigh(w, {}) = 0
  BY FS_Singleton, FS_EmptySet DEF Weigh
<1>7. 2 \notin {1} /\ \A k \in {1} \cup {2} : w[k] \in Nat
  BY <1>1
<1>3. Weigh(w, {} \cup {1}) = Weigh(w, {}) + w[1]
  BY <1>2, <1>7, WeighAdd
<1>4. Weigh(w, {1} \cup {2}) = Weigh(w, {1}) + w[2]
  BY <1>2, <1>7, WeighAdd
<1>5. Total(<<x, y>>) = Weigh(w, {1} \cup {2})
  BY <1>1, Zenon DEF Total, w
<1>6. Weigh(w, {1}) = Weigh(w, {}) + w[1]
  <2>1. {} \cup {1} = {1}
    OBVIOUS
  <2> QED BY <1>3, <2>1
<1>8. w[1] = x.amount /\ w[2] = y.amount
  BY <1>1
<1>9. Total(<<x, y>>) = (0 + x.amount) + y.amount
  BY <1>2, <1>4, <1>5, <1>6, <1>8, Zenon
<1> QED BY <1>9

\* A payment's item moves what it costs.
LEMMA PaymentMoves ==
  ASSUME NEW r \in Redemptions, r.mode = "pay", NEW item \in Items(Batch(r))
  PROVE  /\ Total(item.executions) = Cost(r)
         /\ \A e \in ToSet(item.executions) : IsTransfer(e)
<1> DEFINE w == Execution(Usdc, Transfer, r.to, r.amount)
<1>1. item.executions = <<w, FeeLeg>>
  BY PaymentItem
<1>2. \A e \in ToSet(item.executions) : IsTransfer(e)
  BY <1>1 DEF ToSet, IsTransfer, Execution, FeeLeg
<1>3. w.amount = r.amount /\ FeeLeg.amount = Fee /\ Cost(r) = r.amount + Fee
  BY DEF Execution, FeeLeg, Cost
<1>4. r.amount \in Nat /\ Fee \in Nat
  BY WorkTypes, TermsAssumption
<1> HIDE DEF w
<1>5. Total(item.executions) = Cost(r)
  BY <1>1, <1>3, <1>4, PaymentTotal
<1> QED BY <1>2, <1>5

\* The fee leg passes any scope, and the calls the one that admits them.
LEMMA ScopeLets ==
  ASSUME NEW r \in Redemptions, r.mode # "pay", NEW item \in Items(Batch(r)),
         NEW t, t.contract # None, ExecuteAllowed(t, r)
  PROVE  \A e \in ToSet(item.executions) : ScopePasses(t.contract, e)
<1>1. ToSet(item.executions) \subseteq ToSet(r.calls) \cup {FeeLeg}
  <2>1. Batch(r) \in Seq(ToSet(Batch(r))) /\ ToSet(Batch(r)) = ToSet(r.calls) \cup {FeeLeg}
    BY BatchOf, WorkTypes
  <2> QED BY <2>1, ItemOf
<1>2. \A e \in ToSet(r.calls) \cup {FeeLeg} : ScopePasses(t.contract, e)
  BY DEF ExecuteAllowed, ScopePasses, FeeSafe, FeeLeg, Execution
<1> QED BY <1>1, <1>2

-----------------------------------------------------------------------------
(* The chain against the books.                                            *)

\* Executions of one redemption, at most.
MostCalls(t) == IF t.contract # None THEN 6 ELSE 2

\* What the server looked at once: card i and the cards above have the tool and the scope.
Admitted(i, r) ==
  \A a \in 1..i : HasTool(chain[a], r) /\ (r.mode # "pay" => ExecuteAllowed(chain[a], r))

RowsAdmitted == \A k \in DOMAIN rows : Admitted(rows[k].card, rows[k].what)

\* What it counts: the subtree of card i is within the card's maxima.
BooksFit(i) ==
  /\ ~Exceeds(Uses(i), chain[i].maxUses)
  /\ chain[i].pay # None =>
       /\ ~Exceeds(Period(i), chain[i].pay.period)
       /\ ~Exceeds(Life(i), chain[i].pay.lifetime)

BooksWithin == \A i \in 1..Len(chain) : BooksFit(i)

\* Who may redeem it has the capability, and so have the cards above.
LEMMA CapableAbove ==
  ASSUME IInv, NEW i \in 1..Len(chain), NEW r, HasTool(chain[i], r), NEW a \in 1..i
  PROVE  a \in 1..Len(chain) /\ HasTool(chain[a], r)
<1>1. Len(chain) \in Nat
  BY DEF IInv, TypeOK
<1>2. a = i \/ a \in Above(i)
  BY <1>1 DEF Above
<1> QED BY <1>1, <1>2 DEF HasTool, IInv, PayAbove, TightensDownTheChain, NestedIn

\* No redemption has more executions than a card of its chain is compiled for.
LEMMA FewEnough ==
  ASSUME NEW r \in Redemptions, NEW t, HasTool(t, r)
  PROVE  Len(Work(r)) + 1 \in Nat /\ Len(Work(r)) + 1 <= MostCalls(t)
<1>1. Len(Work(r)) \in Nat
  BY WorkTypes
<1>2. CASE r.mode = "pay"
  <2>1. Len(Work(r)) = 1
    BY <1>2, WorkTypes
  <2> QED BY <2>1 DEF MostCalls
<1>3. CASE r.mode # "pay"
  <2>1. Len(Work(r)) <= 5 /\ t.contract # None
    BY <1>3, WorkTypes DEF HasTool
  <2> QED BY <1>1, <2>1 DEF MostCalls
<1> QED BY <1>2, <1>3

\* The rows after a step: a new one at the end, or the old ones, moved up a deleted card.
LEMMA RowSteps ==
  ASSUME TypeOK, [Next]_vars
  PROVE  \/ \E i \in 1..Len(chain), r \in Redemptions : Redeem(i, r)
         \/ /\ DOMAIN rows' = DOMAIN rows
            /\ \A k \in DOMAIN rows :
                 /\ rows'[k].what = rows[k].what /\ rows'[k].card <= rows[k].card
                 /\ rows'[k].kept => rows[k].kept /\ rows'[k].card = rows[k].card
                 /\ rows'[k].booked \subseteq rows[k].booked
<1> DEFINE Kin ==
      /\ DOMAIN rows' = DOMAIN rows
      /\ \A k \in DOMAIN rows :
           /\ rows'[k].what = rows[k].what /\ rows'[k].card <= rows[k].card
           /\ rows'[k].kept => rows[k].kept /\ rows'[k].card = rows[k].card
           /\ rows'[k].booked \subseteq rows[k].booked
<1>1. \A k \in DOMAIN rows : rows[k] \in Row /\ rows[k].card \in Nat
  BY RowTypes DEF Row
<1>2. CASE Mint \/ Tick \/ UNCHANGED vars
  BY <1>1, <1>2 DEF Mint, Tick, vars
<1>3. ASSUME NEW k \in DOMAIN rows, Land(k) PROVE Kin
  BY <1>1, <1>3 DEF Land, Row
<1>4. ASSUME NEW k \in DOMAIN rows, Fail(k) PROVE Kin
  BY <1>1, <1>4 DEF Fail, Row
<1>5. ASSUME NEW i \in 1..Len(chain), Roll(i) PROVE Kin
  <2>1. /\ DOMAIN rows' = DOMAIN rows
        /\ \A k \in DOMAIN rows :
             rows'[k] = [rows[k] EXCEPT !.booked = rows[k].booked \ {i}, !.counted = rows[k].counted \ {i}]
    BY <1>5 DEF Roll
  <2>2. ASSUME NEW k \in DOMAIN rows
        PROVE  /\ rows'[k].what = rows[k].what /\ rows'[k].card = rows[k].card
               /\ rows'[k].kept = rows[k].kept /\ rows'[k].booked = rows[k].booked \ {i}
    BY <1>1, <2>1 DEF Row
  <2>3. DOMAIN rows' = DOMAIN rows
    BY <2>1
  <2> QED BY <1>1, <2>2, <2>3
<1>6. ASSUME NEW i \in 1..Len(chain), Delete(i) PROVE Kin
  <2>1. i \in Nat /\ i - 1 \in Nat
    BY <1>6, Cut
  <2>3. DOMAIN rows' = DOMAIN rows
    BY <1>6, Zenon DEF Delete
  <2>2. ASSUME NEW k \in DOMAIN rows
        PROVE  /\ rows'[k].what = rows[k].what /\ rows'[k].card <= rows[k].card
               /\ rows'[k].kept => rows[k].kept /\ rows'[k].card = rows[k].card
               /\ rows'[k].booked \subseteq rows[k].booked
    <3>1. CASE rows[k].card < i
      <4>1. rows'[k] = rows[k]
        BY <1>6, <3>1 DEF Delete
      <4> QED BY <1>1, <4>1
    <3>2. CASE ~(rows[k].card < i)
      <4>1. rows'[k] = [rows[k] EXCEPT !.card = i - 1, !.kept = FALSE,
                                       !.booked = rows[k].booked \cap (1..i - 1),
                                       !.counted = rows[k].counted \cap (1..i - 1)]
        BY <1>6, <3>2 DEF Delete
      <4>2. /\ rows'[k].what = rows[k].what /\ rows'[k].card = i - 1 /\ ~rows'[k].kept
            /\ rows'[k].booked = rows[k].booked \cap (1..i - 1)
        BY <1>1, <4>1 DEF Row
      <4>3. i - 1 <= rows[k].card
        BY <1>1, <2>1, <3>2
      <4> QED BY <4>2, <4>3
    <3> QED BY <3>1, <3>2
  <2> QED BY <2>2, <2>3
<1> HIDE DEF Kin
<1>7. (\E i \in 1..Len(chain), r \in Redemptions : Redeem(i, r)) \/ Kin
  BY <1>2, <1>3, <1>4, <1>5, <1>6 DEF Next, Kin
<1> QED BY <1>7 DEF Kin

\* The row of a new redemption.
LEMMA Booked ==
  ASSUME TypeOK, NEW i, NEW r, Redeem(i, r)
  PROVE  LET n == Len(rows) + 1
         IN  /\ n \notin DOMAIN rows /\ DOMAIN rows' = DOMAIN rows \cup {n}
             /\ rows'[n] = [card |-> i, what |-> r, kept |-> TRUE, landed |-> FALSE,
                            booked |-> 1..i, counted |-> {}]
             /\ \A k \in DOMAIN rows : rows'[k] = rows[k]
             /\ chain' = chain /\ Allowed(i, r)
<1> DEFINE x == [card |-> i, what |-> r, kept |-> TRUE, landed |-> FALSE,
                 booked |-> 1..i, counted |-> {}]
<1>1. rows' = Append(rows, x) /\ chain' = chain /\ Allowed(i, r)
  BY DEF Redeem
<1> HIDE DEF x
<1>2. rows \in Seq(Row \cup {x}) /\ Len(rows) \in Nat
  BY SeqMonotonic DEF TypeOK
<1>3. /\ rows' \in Seq(Row \cup {x}) /\ Len(rows') = Len(rows) + 1
      /\ \A k \in 1..Len(rows) : rows'[k] = rows[k]
      /\ rows'[Len(rows) + 1] = x
  BY <1>1, <1>2, AppendProperties
<1>4. DOMAIN rows = 1..Len(rows) /\ DOMAIN rows' = 1..Len(rows) + 1
  BY <1>2, <1>3
<1> QED BY <1>1, <1>2, <1>3, <1>4 DEF x

\* Cards that stay are what they were.
LEMMA ChainStays ==
  ASSUME TypeOK, [Next]_vars, NEW a \in 1..Len(chain), a \in 1..Len(chain')
  PROVE  chain'[a] = chain[a]
<1>1. CASE Mint
  BY <1>1, Minted
<1>2. ASSUME NEW i \in 1..Len(chain), Delete(i) PROVE chain'[a] = chain[a]
  BY <1>2, Cut
<1>3. CASE UNCHANGED chain
  BY <1>3
<1> QED BY <1>1, <1>2, <1>3, ChainSteps

\* What was admitted once stays admissible.
LEMMA AdmittedNext ==
  ASSUME IInv, RowsAdmitted, [Next]_vars
  PROVE  RowsAdmitted'
<1>1. TypeOK /\ TypeOK'
  BY TypeNext DEF IInv
<1> SUFFICES ASSUME NEW k \in DOMAIN rows', NEW a \in 1..rows'[k].card
             PROVE  /\ HasTool(chain'[a], rows'[k].what)
                    /\ rows'[k].what.mode # "pay" => ExecuteAllowed(chain'[a], rows'[k].what)
  BY DEF RowsAdmitted, Admitted
<1>2. a \in 1..Len(chain')
  <2>1. rows'[k].card \in 1..Len(chain') /\ Len(chain') \in Nat
    BY <1>1 DEF TypeOK
  <2> QED BY <2>1
<1>3. ASSUME k \in DOMAIN rows, rows'[k].what = rows[k].what, a \in 1..rows[k].card
      PROVE  /\ HasTool(chain'[a], rows'[k].what)
             /\ rows'[k].what.mode # "pay" => ExecuteAllowed(chain'[a], rows'[k].what)
  <2>1. a \in 1..Len(chain)
    <3>1. rows[k].card \in 1..Len(chain) /\ Len(chain) \in Nat
      BY <1>1, <1>3 DEF TypeOK
    <3> QED BY <1>3, <3>1
  <2>2. chain'[a] = chain[a]
    BY <1>1, <1>2, <2>1, ChainStays
  <2>3. Admitted(rows[k].card, rows[k].what)
    BY <1>3 DEF RowsAdmitted
  <2> QED BY <1>3, <2>2, <2>3 DEF Admitted
<1>4. ASSUME NEW i \in 1..Len(chain), NEW r \in Redemptions, Redeem(i, r), k \notin DOMAIN rows
      PROVE  /\ HasTool(chain'[a], rows'[k].what)
             /\ rows'[k].what.mode # "pay" => ExecuteAllowed(chain'[a], rows'[k].what)
  <2> DEFINE n == Len(rows) + 1
  <2>3. /\ n \notin DOMAIN rows /\ DOMAIN rows' = DOMAIN rows \cup {n}
        /\ rows'[n] = [card |-> i, what |-> r, kept |-> TRUE, landed |-> FALSE,
                       booked |-> 1..i, counted |-> {}]
        /\ chain' = chain /\ Allowed(i, r)
    BY <1>1, <1>4, Booked
  <2>4. k = n
    BY <1>4, <2>3
  <2> HIDE DEF n
  <2>1. rows'[k].card = i /\ rows'[k].what = r /\ chain' = chain /\ Allowed(i, r)
    BY <2>3, <2>4
  <2>2. HasTool(chain[a], r)
    BY <2>1, CapableAbove DEF Allowed
  <2>5. r.mode # "pay" => ExecuteAllowed(chain[a], r)
    BY <2>1 DEF Allowed
  <2> QED BY <2>1, <2>2, <2>5
<1>5. CASE \E i \in 1..Len(chain), r \in Redemptions : Redeem(i, r)
  <2>1. PICK i \in 1..Len(chain), r \in Redemptions : Redeem(i, r)
    BY <1>5
  <2>2. k \in DOMAIN rows => rows'[k] = rows[k]
    BY <1>1, <2>1, Booked
  <2> QED BY <1>3, <1>4, <2>1, <2>2
<1>6. CASE /\ DOMAIN rows' = DOMAIN rows
           /\ \A j \in DOMAIN rows : rows'[j].what = rows[j].what /\ rows'[j].card <= rows[j].card
  <2>1. k \in DOMAIN rows /\ rows'[k].what = rows[k].what /\ rows'[k].card <= rows[k].card
    BY <1>6
  <2>2. rows[k].card \in Nat /\ rows'[k].card \in Nat
    BY <1>1, <2>1 DEF TypeOK
  <2>3. a \in 1..rows[k].card
    BY <2>1, <2>2
  <2> QED BY <1>3, <2>1, <2>3
<1> QED BY <1>1, <1>5, <1>6, RowSteps

\* Less of an amount that is within a bound is within it.
LEMMA LessExceedsNot ==
  ASSUME NEW x \in Int, NEW y \in Int, x <= y, NEW b \in Bound, ~Exceeds(y, b)
  PROVE  ~Exceeds(x, b)
  BY TermsAssumption DEF Exceeds, Bound

\* A card that redeemed nothing is within its maxima: they are positive.
LEMMA NothingFits ==
  ASSUME NEW t \in CardTerms, Valid(t)
  PROVE  /\ ~Exceeds(0, t.maxUses)
         /\ t.pay # None => ~Exceeds(0, t.pay.period) /\ ~Exceeds(0, t.pay.lifetime)
<1>1. t.maxUses \in Bound /\ ~NotPositive(t.maxUses)
  BY DEF CardTerms, Valid
<1>2. ASSUME t.pay # None
      PROVE  /\ t.pay.period \in Bound /\ ~NotPositive(t.pay.period)
             /\ t.pay.lifetime \in Bound /\ ~NotPositive(t.pay.lifetime)
  <2>1. t.pay \in PayTerms /\ ValidPay(t.pay)
    BY <1>2 DEF CardTerms, Valid
  <2> QED BY <2>1 DEF PayTerms, ValidPay
<1>3. ASSUME NEW b \in Bound, ~NotPositive(b) PROVE ~Exceeds(0, b)
  BY <1>3 DEF Bound, NotPositive, Exceeds
<1> QED BY <1>1, <1>2, <1>3

LEMMA EmptyBooks ==
  ASSUME NEW i, Kept(i) = {}
  PROVE  Uses(i) = 0 /\ Period(i) = 0 /\ Life(i) = 0
<1>1. \A w : Weigh(w, {}) = 0
  BY FS_EmptySet DEF Weigh
<1>2. {k \in Kept(i) : i \in rows[k].booked} = {}
  OBVIOUS
<1> QED BY <1>1, <1>2, FS_EmptySet DEF Uses, Period, Life

\* Rows that left the books, or a window, leave less on them.
LEMMA LessBooks ==
  ASSUME TypeOK, TypeOK', NEW i,
         DOMAIN rows' = DOMAIN rows,
         \A k \in DOMAIN rows :
           /\ rows'[k].what = rows[k].what
           /\ rows'[k].kept => rows[k].kept /\ rows'[k].card = rows[k].card
           /\ rows'[k].booked \subseteq rows[k].booked
  PROVE  Uses(i)' <= Uses(i) /\ Period(i)' <= Period(i) /\ Life(i)' <= Life(i)
<1> DEFINE w == Costs
           P == {k \in Kept(i) : i \in rows[k].booked}
           K == Kept(i)
           Q == {k \in Kept(i)' : i \in rows'[k].booked}
           L == Kept(i)'
<1>1. Costs' = w
  BY DEF Costs
<1>2. L \subseteq K /\ Q \subseteq P
  BY DEF Kept, Below
<1>3. K \subseteq DOMAIN rows /\ P \subseteq DOMAIN rows
  BY DEF Kept, Below
<1>4. IsFiniteSet(K) /\ IsFiniteSet(P)
  BY <1>3, RowTypes, FS_Subset
<1>5. (\A k \in K : w[k] \in Nat) /\ (\A k \in P : w[k] \in Nat)
  BY <1>3, RowTypes
<1>6. /\ Uses(i)' = Cardinality(L) /\ Period(i)' = Weigh(w, Q) /\ Life(i)' = Weigh(w, L)
      /\ Uses(i) = Cardinality(K) /\ Period(i) = Weigh(w, P) /\ Life(i) = Weigh(w, K)
  BY <1>1, Zenon DEF Uses, Period, Life
<1> HIDE DEF w, P, K, Q, L
<1>7. Cardinality(L) <= Cardinality(K)
  BY <1>2, <1>4, FS_Subset
<1>8. Weigh(w, Q) <= Weigh(w, P)
  BY <1>2, <1>4, <1>5, WeighMonotone
<1>9. Weigh(w, L) <= Weigh(w, K)
  BY <1>2, <1>4, <1>5, WeighMonotone
<1> QED BY <1>6, <1>7, <1>8, <1>9

\* A redemption adds itself to the books of its card and of the cards above.
LEMMA MoreBooks ==
  ASSUME TypeOK, TypeOK', NEW i \in 1..Len(chain), NEW r \in Redemptions, Redeem(i, r),
         NEW a \in 1..Len(chain)
  PROVE  \/ /\ a \in 1..i /\ Uses(a)' = Uses(a) + 1
            /\ Period(a)' = Period(a) + Cost(r) /\ Life(a)' = Life(a) + Cost(r)
         \/ Uses(a)' = Uses(a) /\ Period(a)' = Period(a) /\ Life(a)' = Life(a)
<1> DEFINE n == Len(rows) + 1
           w == Costs
           v == Costs'
           P == {k \in Kept(a) : a \in rows[k].booked}
           K == Kept(a)
           Q == {k \in Kept(a)' : a \in rows'[k].booked}
           L == Kept(a)'
<1>1. /\ n \notin DOMAIN rows /\ DOMAIN rows' = DOMAIN rows \cup {n}
      /\ rows'[n] = [card |-> i, what |-> r, kept |-> TRUE, landed |-> FALSE,
                     booked |-> 1..i, counted |-> {}]
      /\ \A k \in DOMAIN rows : rows'[k] = rows[k]
  BY Booked
<1>2. (\A k \in DOMAIN rows : v[k] = w[k]) /\ v[n] = Cost(r) /\ Cost(r) \in Nat
  BY <1>1, WorkTypes DEF Costs
<1>3. K \subseteq DOMAIN rows /\ P \subseteq K
  BY DEF Kept, Below
<1>4. IsFiniteSet(K) /\ IsFiniteSet(P)
  BY <1>3, RowTypes, FS_Subset
<1>5. \A k \in DOMAIN rows : w[k] \in Nat
  BY RowTypes
<1>6. /\ Uses(a)' = Cardinality(L) /\ Period(a)' = Weigh(v, Q) /\ Life(a)' = Weigh(v, L)
      /\ Uses(a) = Cardinality(K) /\ Period(a) = Weigh(w, P) /\ Life(a) = Weigh(w, K)
  BY Zenon DEF Uses, Period, Life
<1>7. CASE a <= i
  <2>1. L = K \cup {n} /\ Q = P \cup {n}
    BY <1>1, <1>7 DEF Kept, Below
  <2> HIDE DEF n, w, v, P, K, Q, L
  <2>2. n \notin K /\ n \notin P
    BY <1>1, <1>3
  <2>3. Cardinality(K \cup {n}) = Cardinality(K) + 1
    BY <1>4, <2>2, FS_AddElement
  <2>4. Weigh(v, P \cup {n}) = Weigh(v, P) + v[n]
    BY <1>2, <1>3, <1>4, <1>5, <2>2, WeighAdd
  <2>5. Weigh(v, K \cup {n}) = Weigh(v, K) + v[n]
    BY <1>2, <1>3, <1>4, <1>5, <2>2, WeighAdd
  <2>6. Weigh(v, P) = Weigh(w, P)
    BY <1>2, <1>3, WeighSame
  <2>7. Weigh(v, K) = Weigh(w, K)
    BY <1>2, <1>3, WeighSame
  <2>8. a \in 1..i
    BY <1>7
  <2> QED BY <1>2, <1>6, <2>1, <2>3, <2>4, <2>5, <2>6, <2>7, <2>8
<1>8. CASE ~(a <= i)
  <2>1. L = K /\ Q = P
    BY <1>1, <1>8 DEF Kept, Below
  <2> HIDE DEF n, w, v, P, K, Q, L
  <2>2. Weigh(v, P) = Weigh(w, P)
    BY <1>2, <1>3, WeighSame
  <2>3. Weigh(v, K) = Weigh(w, K)
    BY <1>2, <1>3, WeighSame
  <2> QED BY <1>6, <2>1, <2>2, <2>3
<1> QED BY <1>7, <1>8

LEMMA BooksInit == Init => RowsAdmitted /\ BooksWithin
<1> SUFFICES ASSUME Init PROVE RowsAdmitted /\ BooksWithin
  OBVIOUS
<1>1. rows = <<>> /\ DOMAIN rows = {}
  BY DEF Init
<1>2. PICK t \in Roots : chain = <<t>> /\ Valid(t)
  BY DEF Init
<1>3. t \in CardTerms /\ Len(chain) = 1 /\ chain[1] = t
  BY <1>2, TermsAssumption
<1>4. Kept(1) = {}
  BY <1>1 DEF Kept, Below
<1>5. Uses(1) = 0 /\ Period(1) = 0 /\ Life(1) = 0
  BY <1>4, EmptyBooks
<1>6. BooksFit(1)
  BY <1>2, <1>3, <1>5, NothingFits DEF BooksFit
<1> QED BY <1>1, <1>3, <1>6 DEF RowsAdmitted, BooksWithin

\* The books stay within the maxima of every card.
LEMMA BooksNext ==
  ASSUME IInv, BooksWithin, [Next]_vars
  PROVE  BooksWithin'
<1>1. TypeOK /\ TypeOK'
  BY TypeNext DEF IInv
<1> SUFFICES ASSUME NEW a \in 1..Len(chain') PROVE BooksFit(a)'
  BY DEF BooksWithin
<1> DEFINE t == chain'[a]
<1>2. t \in CardTerms
  BY <1>1, ElementOfSeq DEF TypeOK
<1>3. /\ t.maxUses \in Bound
      /\ t.pay # None => t.pay.period \in Bound /\ t.pay.lifetime \in Bound
  BY <1>2 DEF CardTerms, PayTerms
<1>4. Uses(a) \in Nat /\ Period(a) \in Nat /\ Life(a) \in Nat
  BY <1>1, BookTypes
<1>5. ASSUME NEW x \in Nat, NEW y \in Nat, NEW z \in Nat,
             Uses(a)' = x, Period(a)' = y, Life(a)' = z,
             ~Exceeds(x, t.maxUses),
             t.pay # None => ~Exceeds(y, t.pay.period) /\ ~Exceeds(z, t.pay.lifetime)
      PROVE  BooksFit(a)'
  BY <1>5, Zenon DEF BooksFit
<1>6. Uses(a)' \in Nat /\ Period(a)' \in Nat /\ Life(a)' \in Nat
  <2>1. (\A i : Uses(i) \in Nat /\ Period(i) \in Nat /\ Life(i) \in Nat)'
    BY <1>1, BookTypes, PTL
  <2> QED BY <2>1
<1> HIDE DEF t
<1>7. CASE \E i \in 1..Len(chain), r \in Redemptions : Redeem(i, r)
  <2>1. PICK i \in 1..Len(chain), r \in Redemptions : Redeem(i, r)
    BY <1>7
  <2>2. chain' = chain /\ Allowed(i, r) /\ a \in 1..Len(chain) /\ t = chain[a]
    BY <1>1, <2>1, Booked DEF t
  <2>3. BooksFit(a)
    BY <2>2 DEF BooksWithin
  <2>4. CASE /\ a \in 1..i /\ Uses(a)' = Uses(a) + 1
             /\ Period(a)' = Period(a) + Cost(r) /\ Life(a)' = Life(a) + Cost(r)
    <3>1. Within(a, Cost(r))
      BY <2>2, <2>4 DEF Allowed
    <3> QED BY <1>5, <1>6, <2>2, <2>4, <3>1 DEF Within
  <2>5. CASE Uses(a)' = Uses(a) /\ Period(a)' = Period(a) /\ Life(a)' = Life(a)
    BY <1>4, <1>5, <2>2, <2>3, <2>5 DEF BooksFit
  <2> QED BY <1>1, <2>1, <2>2, <2>4, <2>5, MoreBooks
<1>8. CASE /\ DOMAIN rows' = DOMAIN rows
           /\ \A k \in DOMAIN rows :
                /\ rows'[k].what = rows[k].what
                /\ rows'[k].kept => rows[k].kept /\ rows'[k].card = rows[k].card
                /\ rows'[k].booked \subseteq rows[k].booked
  <2>1. Uses(a)' <= Uses(a) /\ Period(a)' <= Period(a) /\ Life(a)' <= Life(a)
    BY <1>1, <1>8, LessBooks
  <2>2. CASE a \in 1..Len(chain)
    <3>1. t = chain[a]
      BY <1>1, <2>2, ChainStays DEF t
    <3>2. BooksFit(a)
      BY <2>2 DEF BooksWithin
    <3>3. ~Exceeds(Uses(a)', t.maxUses)
      BY <1>3, <1>4, <1>6, <2>1, <3>1, <3>2, LessExceedsNot DEF BooksFit
    <3>4. t.pay # None => ~Exceeds(Period(a)', t.pay.period) /\ ~Exceeds(Life(a)', t.pay.lifetime)
      BY <1>3, <1>4, <1>6, <2>1, <3>1, <3>2, LessExceedsNot DEF BooksFit
    <3> QED BY <1>5, <1>6, <3>3, <3>4
  <2>3. CASE a \notin 1..Len(chain)
    <3>1. Kept(a) = {}
      <4>1. \A k \in DOMAIN rows : rows[k].card \in 1..Len(chain) /\ Len(chain) \in Nat
        BY <1>1 DEF TypeOK
      <4>2. a \in Nat /\ a >= 1
        OBVIOUS
      <4> QED BY <2>3, <4>1, <4>2 DEF Kept, Below
    <3>2. Uses(a)' = 0 /\ Period(a)' = 0 /\ Life(a)' = 0
      <4>1. Uses(a) = 0 /\ Period(a) = 0 /\ Life(a) = 0
        BY <3>1, EmptyBooks
      <4> QED BY <1>6, <2>1, <4>1
    <3>3. Valid(t)
      <4>1. Mint
        <5>1. ASSUME NEW i \in 1..Len(chain), Delete(i) PROVE FALSE
          <6>1. Len(chain') = i - 1 /\ i - 1 \in 1..Len(chain) /\ Len(chain) \in Nat
            BY <1>1, <5>1, Cut
          <6> QED BY <2>3, <6>1
        <5>2. ~UNCHANGED chain
          BY <2>3
        <5> QED BY <5>1, <5>2, ChainSteps
      <4>2. PICK child \in CardTerms :
              LET n == Len(chain)
              IN  /\ Valid(Attenuated(chain[n], Remaining(n), child))
                  /\ Len(chain') = n + 1
                  /\ chain'[n + 1] = Attenuated(chain[n], Remaining(n), child)
        BY <1>1, <4>1, Minted
      <4>3. a = Len(chain) + 1
        BY <1>1, <2>3, <4>2 DEF TypeOK
      <4> QED BY <4>2, <4>3 DEF t
    <3>4. /\ ~Exceeds(0, t.maxUses)
          /\ t.pay # None => ~Exceeds(0, t.pay.period) /\ ~Exceeds(0, t.pay.lifetime)
      BY <1>2, <3>3, NothingFits
    <3> QED BY <1>5, <3>2, <3>4
  <2> QED BY <2>2, <2>3
<1> QED BY <1>1, <1>7, <1>8, RowSteps

\* What the enforcers counted, and the redemption that comes to land, are on the books.
LEMMA EnforcersWithin ==
  ASSUME IInv, RowsAdmitted, NEW k \in DOMAIN rows, rows[k].kept, ~rows[k].landed,
         ~Overtaken(rows[k]), NEW a \in 1..rows[k].card, ~Astray(a)
  PROVE  LET r == rows[k].what
         IN  /\ Execs(a) \in Nat /\ Execs(a) + (Len(Work(r)) + 1) <= Uses(a) * MostCalls(chain[a])
             /\ MovedPeriod(a) \in Nat /\ MovedPeriod(a) + Cost(r) <= Period(a)
             /\ Weigh(Costs, Moved(a)) \in Nat /\ Weigh(Costs, Moved(a)) + Cost(r) <= Life(a)
<1> DEFINE r == rows[k].what
           w == Costs
           c == [j \in DOMAIN rows |-> Len(Work(rows[j].what)) + 1]
           D == DOMAIN rows
           E == Landed(a)
           M == Moved(a)
           N == {j \in Moved(a) : a \in rows[j].counted}
           K == Kept(a)
           P == {j \in Kept(a) : a \in rows[j].booked}
           m == MostCalls(chain[a])
<1>1. /\ TypeOK /\ IsFiniteSet(D) /\ (\A j \in D : w[j] \in Nat)
      /\ \A j \in D : rows[j] \in Row /\ rows[j].card \in Nat
  BY RowTypes DEF IInv, Row
<1>2. k \notin E /\ k \notin M /\ k \notin N
  BY DEF Landed, Moved
<1>3. k \in K /\ k \in P
  BY <1>1 DEF Kept, Below, Overtaken
<1>4. E \subseteq K /\ M \subseteq E /\ N \subseteq P /\ N \subseteq M /\ K \subseteq D /\ P \subseteq K
  BY DEF Astray, Landed, Kept, Moved, Below
<1>5. \A j \in K : c[j] \in Nat /\ c[j] <= m
  <2> SUFFICES ASSUME NEW j \in K PROVE c[j] \in Nat /\ c[j] <= m
    OBVIOUS
  <2>1. j \in DOMAIN rows /\ a \in 1..rows[j].card /\ rows[j].what \in Redemptions
    BY <1>1 DEF Kept, Below, Row
  <2>2. HasTool(chain[a], rows[j].what)
    BY <2>1 DEF RowsAdmitted, Admitted
  <2> QED BY <2>1, <2>2, FewEnough
<1>6. m \in Nat
  BY DEF MostCalls
<1>7. w[k] = Cost(r) /\ c[k] = Len(Work(r)) + 1
  BY DEF Costs
<1>8. /\ Execs(a) = Weigh(c, E) /\ MovedPeriod(a) = Weigh(w, N)
      /\ Weigh(Costs, Moved(a)) = Weigh(w, M)
      /\ Uses(a) = Cardinality(K) /\ Period(a) = Weigh(w, P) /\ Life(a) = Weigh(w, K)
  BY Zenon DEF Execs, MovedPeriod, Uses, Period, Life
<1> HIDE DEF r, w, c, D, E, M, N, K, P, m
<1>9. /\ IsFiniteSet(K) /\ IsFiniteSet(P) /\ IsFiniteSet(E) /\ IsFiniteSet(M) /\ IsFiniteSet(N)
  <2>1. K \subseteq D /\ P \subseteq D /\ E \subseteq D /\ M \subseteq D /\ N \subseteq D
    BY <1>4
  <2> QED BY <1>1, <2>1, FS_Subset
<1>10. Weigh(c, E) \in Nat /\ Weigh(c, E) + c[k] <= Cardinality(K) * m
  <2>1. \A j \in E \cup {k} : c[j] \in Nat /\ c[j] <= m
    BY <1>3, <1>4, <1>5
  <2>2. Weigh(c, E \cup {k}) = Weigh(c, E) + c[k]
    BY <1>2, <1>9, <2>1, WeighAdd
  <2>3. E \cup {k} \in SUBSET K
    BY <1>3, <1>4
  <2>4. Weigh(c, E \cup {k}) <= Weigh(c, K)
    BY <1>5, <1>9, <2>3, WeighMonotone
  <2>5. Weigh(c, K) <= Cardinality(K) * m
    BY <1>5, <1>6, <1>9, WeighBound
  <2>6. Weigh(c, E) \in Nat /\ Weigh(c, K) \in Nat
    BY <1>5, <1>9, <2>1, WeighFinite
  <2>7. Cardinality(K) * m \in Int /\ c[k] \in Nat
    BY <1>3, <1>5, <1>6, <1>9, FS_CardinalityType
  <2> QED BY <2>2, <2>4, <2>5, <2>6, <2>7
<1>11. Weigh(w, N) \in Nat /\ Weigh(w, N) + w[k] <= Weigh(w, P)
  <2>1. N \cup {k} \in SUBSET P /\ \A j \in P : w[j] \in Nat
    BY <1>1, <1>3, <1>4
  <2>2. Weigh(w, N \cup {k}) = Weigh(w, N) + w[k]
    BY <1>2, <1>9, <2>1, WeighAdd
  <2>3. Weigh(w, N \cup {k}) <= Weigh(w, P)
    BY <1>9, <2>1, WeighMonotone
  <2>4. Weigh(w, N) \in Nat
    BY <1>9, <2>1, WeighFinite
  <2> QED BY <2>2, <2>3, <2>4
<1>12. Weigh(w, M) \in Nat /\ Weigh(w, M) + w[k] <= Weigh(w, K)
  <2>1. M \cup {k} \in SUBSET K /\ \A j \in K : w[j] \in Nat
    BY <1>1, <1>3, <1>4
  <2>2. Weigh(w, M \cup {k}) = Weigh(w, M) + w[k]
    BY <1>2, <1>9, <2>1, WeighAdd
  <2>3. Weigh(w, M \cup {k}) <= Weigh(w, K)
    BY <1>9, <2>1, WeighMonotone
  <2>4. Weigh(w, M) \in Nat
    BY <1>9, <2>1, WeighFinite
  <2> QED BY <2>2, <2>3, <2>4
<1> QED BY <1>7, <1>8, <1>10, <1>11, <1>12, Zenon DEF r, m

\* The delegation of a card above lets through what the server admitted.
LEMMA DelegationLets ==
  ASSUME IInv, RowsAdmitted, BooksWithin,
         NEW k \in DOMAIN rows, rows[k].kept, ~rows[k].landed, ~Overtaken(rows[k]),
         NEW a \in 1..rows[k].card, ~Astray(a)
  PROVE  LET r == rows[k].what
         IN  /\ BasePasses(a, Len(Work(r)) + 1)
             /\ \A item \in Items(Batch(r)) : GroupPasses(a, r.mode, item.executions)
<1> DEFINE r == rows[k].what
           t == chain[a]
           n == Len(Work(r)) + 1
<1>1. r \in Redemptions /\ a \in 1..Len(chain)
  <2>1. TypeOK /\ rows[k] \in Row /\ rows[k].card \in 1..Len(chain) /\ Len(chain) \in Nat
    BY RowTypes DEF IInv, TypeOK
  <2> QED BY <2>1 DEF Row
<1>2. HasTool(t, r) /\ (r.mode # "pay" => ExecuteAllowed(t, r))
  BY DEF RowsAdmitted, Admitted
<1>3. t \in CardTerms
  BY <1>1, ElementOfSeq DEF IInv, TypeOK
<1>4. /\ Execs(a) \in Nat /\ Execs(a) + n <= Uses(a) * MostCalls(t)
      /\ MovedPeriod(a) \in Nat /\ MovedPeriod(a) + Cost(r) <= Period(a)
      /\ Weigh(Costs, Moved(a)) \in Nat /\ Weigh(Costs, Moved(a)) + Cost(r) <= Life(a)
  BY EnforcersWithin
<1>5. BooksFit(a) /\ ~Expired(t)
  BY <1>1 DEF BooksWithin, Overtaken, Active
<1>6. Uses(a) \in Nat /\ Period(a) \in Nat /\ Life(a) \in Nat
  BY BookTypes DEF IInv
<1>7. BasePasses(a, n)
  <2> SUFFICES ASSUME t.maxUses # None PROVE Execs(a) + n <= CallLimit(t)
    BY <1>5 DEF BasePasses
  <2>1. t.maxUses \in Int /\ Uses(a) <= t.maxUses
    <3>1. t.maxUses \in Int
      BY <1>3 DEF CardTerms, Bound
    <3>2. Uses(a) # None
      BY <1>6, TermsAssumption
    <3> QED BY <1>5, <1>6, <3>1, <3>2 DEF BooksFit, Exceeds
  <2>2. n \in Nat
    BY <1>1, <1>2, FewEnough
  <2>3. CallLimit(t) = t.maxUses * MostCalls(t) /\ MostCalls(t) \in {2, 6}
    BY DEF CallLimit, MostCalls
  <2> HIDE DEF t, n
  <2>4. CASE MostCalls(t) = 2
    BY <1>4, <1>6, <2>1, <2>2, <2>3, <2>4
  <2>5. CASE MostCalls(t) = 6
    BY <1>4, <1>6, <2>1, <2>2, <2>3, <2>5
  <2> QED BY <2>3, <2>4, <2>5
<1>8. ASSUME NEW item \in Items(Batch(r)) PROVE GroupPasses(a, r.mode, item.executions)
  <2>1. CASE r.mode = "pay"
    <3>1. t.pay # None /\ Group(t, r.mode) = "pay"
      BY <1>2, <2>1 DEF HasTool, Group
    <3>2. Total(item.executions) = Cost(r) /\ \A e \in ToSet(item.executions) : IsTransfer(e)
      <4> HIDE DEF r
      <4> QED BY <1>1, <2>1, PaymentMoves
    <3>3. t.pay.period \in Bound /\ t.pay.lifetime \in Bound
      BY <1>3, <3>1 DEF CardTerms, PayTerms
    <3>4. ~Exceeds(Period(a), t.pay.period) /\ ~Exceeds(Life(a), t.pay.lifetime)
      BY <1>5, <3>1 DEF BooksFit
    <3>5. Cost(r) \in Nat
      BY <1>1, WorkTypes
    <3>6. ~Exceeds(MovedPeriod(a) + Cost(r), t.pay.period)
      <4> HIDE DEF t, r
      <4>1. MovedPeriod(a) + Cost(r) \in Int
        BY <1>4, <3>5
      <4> QED BY <1>4, <1>6, <3>3, <3>4, <4>1, LessExceedsNot
    <3>7. ~Exceeds(Weigh(Costs, Moved(a)) + Cost(r), t.pay.lifetime)
      <4> HIDE DEF t, r
      <4>1. Weigh(Costs, Moved(a)) + Cost(r) \in Int
        BY <1>4, <3>5
      <4> QED BY <1>4, <1>6, <3>3, <3>4, <4>1, LessExceedsNot
    <3> QED BY <3>1, <3>2, <3>6, <3>7 DEF GroupPasses, PayPasses
  <2>2. CASE r.mode # "pay"
    <3>1. t.contract # None /\ Group(t, r.mode) = "execute"
      BY <1>1, <1>2, <2>2, WorkTypes DEF HasTool, Group
    <3>2. \A e \in ToSet(item.executions) : ScopePasses(t.contract, e)
      <4> HIDE DEF t, r
      <4> QED BY <1>1, <1>2, <2>2, <3>1, ScopeLets
    <3> QED BY <3>1, <3>2 DEF GroupPasses
  <2> QED BY <2>1, <2>2
<1> QED BY <1>7, <1>8

\* So does the leaf carved for each item.
LEMMA LeafLets ==
  ASSUME IInv, NEW i \in Nat, i >= 1, NEW r \in Redemptions, Admitted(i, r), NEW item \in Items(Batch(r))
  PROVE  LeafPasses(i, r, item)
<1>1. CASE r.mode = "pay"
  <2>1. Total(item.executions) = r.amount + Fee /\ \A e \in ToSet(item.executions) : IsTransfer(e)
    BY <1>1, PaymentMoves DEF Cost
  <2>2. Total(item.executions) <= r.amount + Fee
    BY <2>1, WorkTypes, TermsAssumption
  <2> QED BY <1>1, <2>1, <2>2 DEF LeafPasses
<1>2. CASE r.mode # "pay" /\ item.pinned
  <2>1. item.executions = <<item.executions[1]>>
    BY <1>2, BatchOf, ItemOf
  <2>2. \A e \in ToSet(item.executions) : e = item.executions[1]
    BY <2>1 DEF ToSet
  <2> QED BY <1>2, <2>2 DEF LeafPasses
<1>3. CASE r.mode # "pay" /\ ~item.pinned
  <2>1. HasTool(chain[i], r) /\ ExecuteAllowed(chain[i], r)
    BY <1>3 DEF Admitted
  <2>2. chain[i].contract # None
    BY <1>3, <2>1 DEF HasTool
  <2>3. \A e \in ToSet(item.executions) : ScopePasses(chain[i].contract, e)
    BY <1>3, <2>1, <2>2, ScopeLets
  <2> QED BY <1>3, <2>3 DEF LeafPasses
<1> QED BY <1>1, <1>2, <1>3

-----------------------------------------------------------------------------
(* The theorems.                                                           *)

\* Terms and counters stay what they are.
THEOREM TermsTypes == Spec => []TypeOK
<1>1. IInv => TypeOK
  BY DEF IInv
<1> QED BY <1>1, Inductive, PTL

\* A card's scope, expiry, merchants and maxima lie within those of every card above
\* it (attenuate).
THEOREM TermsTighten == Spec => []TightensDownTheChain
<1>1. IInv => TightensDownTheChain
  BY DEF IInv
<1> QED BY <1>1, Inductive, PTL

\* No card may redeem what a card above it may not (validateSpend, the tools of a card).
THEOREM NothingAdded == Spec => []SubCardAddsNothing
  BY Inductive, AddsNothing, PTL

\* "The chain never falsely pre-empts a redemption the server-side maxUses cap would allow"
\* (compiler.ts 46-52), nor one that the server's scope, list and budget checks let pass:
\* for chains of any length, any batches, landings in any order and any periods, as long as
\* the redemption is not overtaken by a new window or an expiry and nothing landed astray
\* of the books: in a later window, for a failed row or for a deleted card.
THEOREM NeverPreempted == Spec => []ChainNeverPreempts
<1>1. IInv /\ RowsAdmitted /\ BooksWithin => ChainNeverPreempts
  <2> SUFFICES ASSUME IInv, RowsAdmitted, BooksWithin, NEW k \in DOMAIN rows,
                      rows[k].kept, ~rows[k].landed, ~Overtaken(rows[k]),
                      \A a \in 1..rows[k].card : ~Astray(a)
               PROVE  ChainLets(rows[k].card, rows[k].what)
    BY DEF ChainNeverPreempts
  <2> DEFINE i == rows[k].card
             r == rows[k].what
  <2>1. r \in Redemptions /\ i \in Nat /\ i >= 1
    BY RowTypes DEF IInv, TypeOK, Row
  <2>2. Admitted(i, r)
    BY DEF RowsAdmitted
  <2>3. \A a \in 1..i : /\ BasePasses(a, Len(Work(r)) + 1)
                        /\ \A item \in Items(Batch(r)) : GroupPasses(a, r.mode, item.executions)
    BY DelegationLets
  <2> HIDE DEF i, r
  <2>4. \A item \in Items(Batch(r)) : LeafPasses(i, r, item)
    BY <2>1, <2>2, LeafLets
  <2>5. ChainLets(i, r)
    BY <2>3, <2>4 DEF ChainLets
  <2> QED BY <2>5 DEF i, r
<1>2. IInv /\ RowsAdmitted /\ BooksWithin /\ [Next]_vars => RowsAdmitted' /\ BooksWithin'
  BY AdmittedNext, BooksNext
<1> QED BY <1>1, <1>2, Inductive, BooksInit, PTL DEF Spec

\* A new card's lifetime budget is at most what its parent has left (parentRemaining).
THEOREM MintedFromTheRest == Spec => MintedWithinRemaining
<1> DEFINE A == Len(chain') > Len(chain) =>
                  LET n == Len(chain)
                  IN  chain'[n + 1].pay # None /\ chain[n].pay.lifetime # None
                        => chain'[n + 1].pay.lifetime = None
                           \/ chain'[n + 1].pay.lifetime <= chain[n].pay.lifetime - Life(n)
<1>1. IInv /\ [Next]_vars => [A]_vars
  <2> SUFFICES ASSUME IInv, [Next]_vars PROVE A
    OBVIOUS
  <2>1. CASE Mint
    BY <2>1, MintsWithin
  <2>2. ASSUME NEW i \in 1..Len(chain), Delete(i) PROVE A
    <3>1. Len(chain') = i - 1 /\ i - 1 \in 1..Len(chain)
      BY <2>2, Cut DEF IInv
    <3> QED BY <3>1 DEF IInv, TypeOK
  <2>3. CASE UNCHANGED chain
    BY <2>3 DEF IInv, TypeOK
  <2> QED BY <2>1, <2>2, <2>3, ChainSteps
<1> QED BY <1>1, Inductive, PTL DEF Spec, MintedWithinRemaining
=============================================================================
