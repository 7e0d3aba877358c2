-------------------------------- MODULE Terms --------------------------------
(***************************************************************************)
(* Card terms down a chain of sub-cards: what a sub-card may be granted    *)
(* (attenuate and validateTerms in engine/src/compiler.ts, issueSubCard and*)
(* parentRemaining in engine/src/issuance.ts), and how the caveats         *)
(* compiled into the delegations (compileCard, the leaf scopes) relate to  *)
(* what the server lets a card redeem (validateSpend in                    *)
(* engine/src/spend.ts).                                                   *)
(*                                                                         *)
(* chain[1] is a root card and chain[i + 1] a sub-card of chain[i].  A     *)
(* redemption through a card counts on every card above it: on the books   *)
(* from when it is booked until it fails or its card is deleted, in the    *)
(* enforcers on chain from when it lands.                                  *)
(***************************************************************************)
EXTENDS Integers, Sequences, SequencesExt, FiniteSets

CONSTANTS
  None,            \* an absent term
  Addresses, Selectors,
  Roots,           \* terms a root card may be issued with
  Requests,        \* terms a sub-card may be asked for
  Redemptions,     \* what agents ask to redeem
  Approve,         \* the selectors of ERC-20 approve,
  Increase,        \* increaseAllowance
  Transfer,        \* and transfer
  Collector,       \* who is paid the fee
  Usdc,            \* the settlement token
  Fee,             \* what every redemption pays its executor
  MaxDepth,        \* bound: cards in the chain
  MaxRedeemed,     \* bound: redemptions made
  MaxNow           \* bound: the clock

\* A term that bounds: absent means unbounded.
Bound == {None} \cup Int
ListOf(S) == {None} \cup SUBSET S

PayTerms == [period : Bound, lifetime : Bound]
ContractTerms ==
  [targets : SUBSET Addresses, selectors : SUBSET Selectors,
   tokens : ListOf(Addresses), perTradeMax : Bound]
CardTerms ==
  [pay : {None} \cup PayTerms, contract : {None} \cup ContractTerms,
   expiry : Bound, maxUses : Bound, perTxMax : Bound, merchants : ListOf(Addresses),
   subcards : BOOLEAN]

Executions ==
  [target : Addresses, selector : Selectors, to : {None} \cup Addresses, amount : Nat]

ASSUME TermsAssumption ==
  /\ Fee \in Nat /\ None \notin Int
  /\ Approve \in Selectors /\ Transfer \notin {Approve, Increase}
  /\ Roots \cup Requests \subseteq CardTerms
  /\ Redemptions \subseteq
       [mode : {"pay", "execute"}, to : {None} \cup Addresses, amount : Nat, calls : Seq(Executions)]
  /\ \A r \in Redemptions : Len(r.calls) <= 5  \* the execute tool takes no more
  /\ MaxDepth \in Nat \ {0} /\ MaxRedeemed \in Nat /\ MaxNow \in Nat

VARIABLES
  chain,    \* the cards' terms, the root's first
  rows,     \* the redemptions, in the order they were booked
  now       \* the clock

vars == <<chain, rows, now>>

Least(a, b) == IF a < b THEN a ELSE b

Exceeds(x, bound) == x # None /\ bound # None /\ x > bound
NotPositive(x) == x # None /\ x <= 0

-----------------------------------------------------------------------------
(* The books.                                                              *)

\* kept: on the books; landed: counted by the enforcers.  Of the cards from the root to
\* card, booked and counted are those in whose current window either happened.
Row == [card : Nat, what : Redemptions, kept : BOOLEAN, landed : BOOLEAN,
        booked : SUBSET Nat, counted : SUBSET Nat]

\* The sum of w[k] over S, as the size of a set: the provers need no induction for it.
Weigh(w, S) == Cardinality(UNION {{k} \X (1..w[k]) : k \in S})

Cost(r) == IF r.mode = "pay" THEN r.amount + Fee ELSE Fee
Costs == [k \in DOMAIN rows |-> Cost(rows[k].what)]

\* The redemptions of card i and of the sub-cards under it.
Below(i) == {k \in DOMAIN rows : rows[k].card >= i}
Kept(i) == {k \in Below(i) : rows[k].kept}

\* What the subtree of card i redeemed, in its current window and ever, and how often.
Uses(i) == Cardinality(Kept(i))
Period(i) == Weigh(Costs, {k \in Kept(i) : i \in rows[k].booked})
Life(i) == Weigh(Costs, Kept(i))

-----------------------------------------------------------------------------
(* validateTerms.                                                          *)

ValidPay(p) ==
  /\ {p.period, p.lifetime} # {None}
  /\ ~NotPositive(p.period) /\ ~NotPositive(p.lifetime)

ValidContract(c) ==
  /\ c.targets # {} /\ c.selectors # {}
  /\ c.tokens # {}
  /\ ~NotPositive(c.perTradeMax)

Expired(t) == t.expiry # None /\ now >= t.expiry

Valid(t) ==
  /\ {t.pay, t.contract} # {None}
  /\ ~(t.pay # None /\ ~ValidPay(t.pay))
  /\ ~(t.contract # None /\ ~ValidContract(t.contract))
  /\ ~Expired(t)
  /\ ~NotPositive(t.maxUses) /\ ~NotPositive(t.perTxMax)
  /\ t.merchants # {}

\* A token that allowances may be granted on is a target, with approve in scope.
Normalized(c) ==
  IF c.tokens = None THEN c
  ELSE [c EXCEPT !.targets = @ \cup c.tokens, !.selectors = @ \cup {Approve}]

-----------------------------------------------------------------------------
(* attenuate.                                                              *)

\* What is left of card i's caps; a cap that is absent leaves no figure.
Remaining(i) ==
  LET left(cap, spent) == IF cap = None THEN None ELSE IF cap > spent THEN cap - spent ELSE 0
      pay == chain[i].pay
  IN  [period |-> IF pay = None THEN None ELSE left(pay.period, Period(i)),
       lifetime |-> IF pay = None THEN None ELSE left(pay.lifetime, Life(i))]

\* Mutant of PayOf: a child inherits the parent's caps whole.
PayOfWhole(parent, left, child) ==
  IF parent.pay = None \/ child.pay # None THEN child.pay ELSE parent.pay

\* A child that names no pay terms inherits the parent's, capped to what remains.
PayOf(parent, left, child) ==
  IF parent.pay = None \/ child.pay # None THEN child.pay
  ELSE [period |-> IF left.period = None THEN None ELSE Least(left.period, parent.pay.period),
        lifetime |-> left.lifetime]

PayExceeds(parent, left, child) ==
  /\ child.pay # None
  /\ \/ parent.pay = None
     \/ Exceeds(child.pay.period, parent.pay.period)
     \/ parent.pay.period = None /\ Exceeds(child.pay.period, parent.pay.lifetime)
     \/ Exceeds(child.pay.lifetime, left.lifetime)

\* Mutant of ContractExceeds: a parent without contract scope is passed over.
ContractExceedsScope(parent, c) ==
  /\ parent.contract # None
  /\ \/ ~(c.targets \subseteq parent.contract.targets)
     \/ ~(c.selectors \subseteq parent.contract.selectors)

ContractExceeds(parent, c) ==
  \/ parent.contract = None
  \/ ~(c.targets \subseteq parent.contract.targets)
  \/ ~(c.selectors \subseteq parent.contract.selectors)
  \/ c.tokens # None /\ parent.contract.tokens # None
     /\ ~(c.tokens \subseteq parent.contract.tokens)
  \/ Exceeds(c.perTradeMax, parent.contract.perTradeMax)

\* Mutant of ContractOf: a silent child has no cap.
ContractOfSilent(parent, c) == c

\* The cap on a single allowance goes to a child that can grant one.
ContractOf(parent, c) ==
  IF c.perTradeMax = None /\ Approve \in c.selectors
    THEN [c EXCEPT !.perTradeMax = parent.contract.perTradeMax]
    ELSE c

Inherit(x, bound) == IF x = None THEN bound ELSE x

ScalarsExceed(parent, child) ==
  \/ Exceeds(child.expiry, parent.expiry)
  \/ Exceeds(child.perTxMax, parent.perTxMax)
  \/ Exceeds(child.maxUses, parent.maxUses)
  \/ child.merchants # None /\ parent.merchants # None
     /\ ~(child.merchants \subseteq parent.merchants)

Refused(parent, left, child) ==
  \/ PayExceeds(parent, left, child)
  \/ child.contract # None /\ ContractExceeds(parent, Normalized(child.contract))
  \/ ScalarsExceed(parent, child)

Attenuated(parent, left, child) ==
  [child EXCEPT
     !.pay = PayOf(parent, left, child),
     !.contract = IF @ = None THEN None ELSE ContractOf(parent, Normalized(@)),
     !.expiry = Inherit(@, parent.expiry),
     !.perTxMax = Inherit(@, parent.perTxMax),
     !.merchants = Inherit(@, parent.merchants)]

-----------------------------------------------------------------------------
(* validateSpend, as the tools call it.                                    *)

Active(i) == \A a \in 1..i : ~Expired(chain[a])

\* The tools of a card are registered by its capabilities.
HasTool(t, r) == IF r.mode = "pay" THEN t.pay # None ELSE t.contract # None

PayAllowed(t, r) ==
  /\ ~(t.merchants # None /\ r.to \notin t.merchants)
  /\ ~Exceeds(r.amount, t.perTxMax)

\* The calls that grant an allowance.
Grants == {Approve, Increase}

\* An allowance stays inside the scope, the token list and the cap.
AllowanceAllowed(c, e) ==
  /\ e.to \in c.targets
  /\ ~(c.tokens # None /\ e.target \notin c.tokens)
  /\ ~(e.target = Usdc /\ Exceeds(e.amount, c.perTradeMax))

\* Every call of the batch; a card without contract scope is passed over.
ExecuteAllowed(t, r) ==
  t.contract # None =>
    \A e \in ToSet(r.calls) :
      /\ e.target \in t.contract.targets /\ e.selector \in t.contract.selectors
      /\ e.selector \in Grants => AllowanceAllowed(t.contract, e)

Within(i, cost) ==
  /\ ~Exceeds(Uses(i) + 1, chain[i].maxUses)
  /\ ~(/\ chain[i].pay # None
       /\ \/ Exceeds(Period(i) + cost, chain[i].pay.period)
          \/ Exceeds(Life(i) + cost, chain[i].pay.lifetime))

\* Every card from the payer to the root is asked.
Allowed(i, r) ==
  /\ Active(i) /\ HasTool(chain[i], r)
  /\ \A a \in 1..i :
       /\ IF r.mode = "pay" THEN PayAllowed(chain[a], r) ELSE ExecuteAllowed(chain[a], r)
       /\ Within(a, Cost(r))

-----------------------------------------------------------------------------
(* What is redeemed: a batch of executions, in items with a leaf each.      *)

Execution(target, selector, to, amount) ==
  [target |-> target, selector |-> selector, to |-> to, amount |-> amount]

Work(r) ==
  IF r.mode = "pay" THEN <<Execution(Usdc, Transfer, r.to, r.amount)>> ELSE r.calls

FeeLeg == Execution(Usdc, Transfer, Collector, Fee)

Batch(r) == Append(Work(r), FeeLeg)

Allowances(es) == {k \in DOMAIN es : es[k].selector \in Grants}

\* The executions between two allowances.
Runs(es) ==
  {p \in (DOMAIN es) \X (DOMAIN es) :
     /\ p[1] <= p[2] /\ (p[1]..p[2]) \cap Allowances(es) = {}
     /\ ({p[1] - 1, p[2] + 1} \cap DOMAIN es) \subseteq Allowances(es)}

\* An allowance has an item of its own, whose leaf is pinned to it; the executions of a
\* run share one, the fee leg with those before it.
Items(es) ==
  {[pinned |-> TRUE, executions |-> <<es[k]>>] : k \in Allowances(es)}
  \cup {[pinned |-> FALSE, executions |-> SubSeq(es, p[1], p[2])] : p \in Runs(es)}

-----------------------------------------------------------------------------
(* The caveats of a redemption's delegations.                              *)

\* The settlement token and transfer join every scope, for the fee.
FeeSafe(c) == [targets |-> c.targets \cup {Usdc}, selectors |-> c.selectors \cup {Transfer}]

ScopePasses(c, e) == e.target \in FeeSafe(c).targets /\ e.selector \in FeeSafe(c).selectors

IsTransfer(e) == e.target = Usdc /\ e.selector = Transfer

\* The atoms moved.
Total(es) == Weigh([k \in DOMAIN es |-> es[k].amount], DOMAIN es)

\* One group governs a redemption: a composite card's is chosen by the mode, any other
\* card has one.
Group(t, mode) ==
  IF t.pay # None /\ t.contract # None THEN mode
  ELSE IF t.pay # None THEN "pay" ELSE "execute"

\* What the enforcers of card i counted: executions, and the transfers of payments.
Landed(i) == {k \in Below(i) : rows[k].landed}
Moved(i) == {k \in Landed(i) : Group(chain[i], rows[k].what.mode) = "pay"}
MovedPeriod(i) == Weigh(Costs, {k \in Moved(i) : i \in rows[k].counted})
Execs(i) == Weigh([k \in DOMAIN rows |-> Len(Work(rows[k].what)) + 1], Landed(i))

\* Each execution is a transfer, and its amount counts against the caps.
PayPasses(i, es) ==
  /\ \A e \in ToSet(es) : IsTransfer(e)
  /\ ~Exceeds(MovedPeriod(i) + Total(es), chain[i].pay.period)
  /\ ~Exceeds(Weigh(Costs, Moved(i)) + Total(es), chain[i].pay.lifetime)

GroupPasses(i, mode, es) ==
  IF Group(chain[i], mode) = "pay" THEN PayPasses(i, es)
  ELSE \A e \in ToSet(es) : ScopePasses(chain[i].contract, e)

\* Mutant of CallLimit: every redemption is a payment.
CallLimitOfPayments(t) == t.maxUses * 2

\* A redemption has at most five calls and the fee; a payment is one call and the fee.
CallLimit(t) == t.maxUses * (IF t.contract # None THEN 6 ELSE 2)

\* Expiry and the call limit are checked for every card.
BasePasses(i, n) ==
  /\ ~Expired(chain[i])
  /\ chain[i].maxUses # None => Execs(i) + n <= CallLimit(chain[i])

\* The leaf carved for an item of card i's redemption r.
LeafPasses(i, r, item) ==
  LET es == item.executions
      first == es[1]
  IN  CASE r.mode = "pay" -> (\A e \in ToSet(es) : IsTransfer(e)) /\ Total(es) <= r.amount + Fee
        [] r.mode # "pay" /\ item.pinned -> \A e \in ToSet(es) : e = first
        [] OTHER -> \A e \in ToSet(es) : ScopePasses(chain[i].contract, e)

\* Every delegation from the leaf to the root lets every item pass.
ChainLets(i, r) ==
  /\ \A item \in Items(Batch(r)) :
       /\ LeafPasses(i, r, item)
       /\ \A a \in 1..i : GroupPasses(a, r.mode, item.executions)
  /\ \A a \in 1..i : BasePasses(a, Len(Work(r)) + 1)

-----------------------------------------------------------------------------
Init ==
  /\ now = 0
  /\ \E t \in Roots : chain = <<t>> /\ Valid(t)
  /\ rows = <<>>

\* issueSubCard on the deepest card.
Mint ==
  /\ Len(chain) < MaxDepth
  /\ LET parent == chain[Len(chain)]
         left == Remaining(Len(chain))
     IN  /\ parent.subcards
         /\ \E child \in Requests :
              /\ ~Refused(parent, left, child)
              /\ Valid(Attenuated(parent, left, child))
              /\ chain' = Append(chain, Attenuated(parent, left, child))
  /\ UNCHANGED <<rows, now>>

\* runSpend books the redemption before it is sent.
Redeem(i, r) ==
  /\ Len(rows) < MaxRedeemed
  /\ Allowed(i, r)
  /\ rows' = Append(rows, [card |-> i, what |-> r, kept |-> TRUE, landed |-> FALSE,
                           booked |-> 1..i, counted |-> {}])
  /\ UNCHANGED <<chain, now>>

\* The enforcers let it pass, then or much later, and count it in the windows of that time.
Land(k) ==
  /\ ~rows[k].landed
  /\ ChainLets(rows[k].card, rows[k].what)
  /\ rows' = [rows EXCEPT ![k].landed = TRUE, ![k].counted = 1..rows[k].card]
  /\ UNCHANGED <<chain, now>>

\* The row fails: the redemption was refused, reverted or given up, or its run was
\* reported as failed whatever becomes of the transaction.
Fail(k) ==
  /\ rows[k].kept
  /\ rows' = [rows EXCEPT ![k].kept = FALSE]
  /\ UNCHANGED <<chain, now>>

\* A window of card i ends, on the books and on chain: both count from its start.
Roll(i) ==
  /\ chain[i].pay # None /\ chain[i].pay.period # None
  /\ \E k \in DOMAIN rows : i \in rows[k].booked \cup rows[k].counted
  /\ rows' = [k \in DOMAIN rows |-> [rows[k] EXCEPT !.booked = @ \ {i}, !.counted = @ \ {i}]]
  /\ UNCHANGED <<chain, now>>

\* A sub-card, dead by then, is deleted with the cards under it and their rows.  What they
\* redeemed keeps its count in the enforcers above; what is out may land.
Delete(i) ==
  /\ i > 1
  /\ chain' = SubSeq(chain, 1, i - 1)
  /\ rows' = [k \in DOMAIN rows |->
       IF rows[k].card < i THEN rows[k]
       ELSE [rows[k] EXCEPT !.card = i - 1, !.kept = FALSE,
                            !.booked = @ \cap (1..i - 1), !.counted = @ \cap (1..i - 1)]]
  /\ UNCHANGED now

Tick ==
  /\ now < MaxNow
  /\ now' = now + 1
  /\ UNCHANGED <<chain, rows>>

Next ==
  \/ Mint \/ Tick
  \/ \E i \in 1..Len(chain) : Roll(i) \/ Delete(i) \/ \E r \in Redemptions : Redeem(i, r)
  \/ \E k \in DOMAIN rows : Land(k) \/ Fail(k)

Spec == Init /\ [][Next]_vars

-----------------------------------------------------------------------------
(* Properties.                                                             *)

TypeOK ==
  /\ chain \in Seq(CardTerms) /\ chain # <<>>
  /\ now \in Nat
  /\ rows \in Seq(Row)
  /\ \A k \in DOMAIN rows :
       /\ rows[k].card \in 1..Len(chain)
       /\ rows[k].booked \cup rows[k].counted \subseteq 1..rows[k].card

Above(i) == 1..(i - 1)

\* What scope, expiry, merchants and per-charge maximum of card i allow, those of card a
\* allow.
NestedIn(i, a) ==
  /\ chain[i].contract # None =>
       /\ chain[a].contract # None
       /\ chain[i].contract.targets \subseteq chain[a].contract.targets
       /\ chain[i].contract.selectors \subseteq chain[a].contract.selectors
  /\ chain[a].expiry # None => chain[i].expiry # None /\ chain[i].expiry <= chain[a].expiry
  /\ chain[a].perTxMax # None => chain[i].perTxMax # None /\ chain[i].perTxMax <= chain[a].perTxMax
  /\ chain[a].merchants # None => chain[i].merchants # None /\ chain[i].merchants \subseteq chain[a].merchants

\* Card i has the cap of card a, or a tighter one.
CapNestedIn(i, a) ==
  chain[a].contract.perTradeMax # None =>
    /\ chain[i].contract.perTradeMax # None
    /\ chain[i].contract.perTradeMax <= chain[a].contract.perTradeMax

CanUse(i, selectors) == chain[i].contract # None /\ chain[i].contract.selectors \cap selectors # {}

\* "every field must be <= this card's" (mcp/server.ts 597), for the terms a card
\* inherits when its own are silent, through any number of sub-cards; the cap on an
\* allowance follows a card that may approve.
TightensDownTheChain ==
  \A i \in 1..Len(chain) : \A a \in Above(i) :
    NestedIn(i, a) /\ (CanUse(i, {Approve}) => CapNestedIn(i, a))

\* "inherit when silent, but only onto a child that can actually grant allowances ... A
\* no-approve child can never trigger the cap" (compiler.ts 501-504): increaseAllowance
\* grants allowances as well, and such a child is left without the cap. The walk over
\* the ancestors at spend time is what stops it.
CapFollowsGrants ==
  \A i \in 1..Len(chain) : \A a \in Above(i) : CanUse(i, Grants) => CapNestedIn(i, a)

\* The books of card i say less than its enforcers: a redemption landed that is not on
\* them (a failed row, a deleted card), or that they count in an earlier window.
Astray(i) == \E k \in Landed(i) : ~rows[k].kept \/ i \in rows[k].counted \ rows[k].booked

\* The window it was booked in has ended for a card above, or a card has expired.
Overtaken(row) == row.booked # 1..row.card \/ ~Active(row.card)

\* "we scale the on-chain limit by the worst case so the chain never falsely pre-empts
\* a redemption the server-side maxUses cap would allow" (compiler.ts 46-52), "Union
\* USDC + transfer() into a contract scope so the mandatory fee leg passes" (169) and "a
\* pinned item must hold ONLY its allowance execution" (spend.ts 643): whatever the cards
\* of the tree redeem before and after it is booked, in whatever order it lands, a batch
\* the server admitted passes every delegation of its chain, while it is not overtaken and
\* the books of the cards above hold what their enforcers counted.
ChainNeverPreempts ==
  \A k \in DOMAIN rows :
    LET row == rows[k]
    IN  /\ row.kept /\ ~row.landed /\ ~Overtaken(row)
        /\ \A a \in 1..row.card : ~Astray(a)
        => ChainLets(row.card, row.what)

\* validateSpend passes over a card without contract scope (spend.ts 265-266) and the
\* tools look at the payer's own capability only: with what attenuation grants, no card
\* redeems what a card above it could not redeem itself.
SubCardAddsNothing ==
  \A i \in 1..Len(chain) : \A r \in Redemptions :
    Allowed(i, r) => \A a \in Above(i) : Allowed(a, r)

\* "omitted money terms inherit capped to remaining" (issuance.ts 249): a new card's
\* lifetime budget is no more than its parent's then had left.
MintedWithinRemaining ==
  [][Len(chain') > Len(chain) =>
       LET n == Len(chain)
       IN  chain'[n + 1].pay # None /\ chain[n].pay.lifetime # None
             => chain'[n + 1].pay.lifetime = None
                \/ chain'[n + 1].pay.lifetime <= chain[n].pay.lifetime - Life(n)]_vars
=============================================================================
