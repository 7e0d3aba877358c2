# KeeperCard: verification project

KeeperCard gives an agent a *card*: an on-chain delegation with terms (budget,
number of uses, merchants, expiry) carved from its owner's account or from a
parent card. The engine spends with a card by validating a request against the
books, booking a charge, sending a redemption through an executor (the 1Shot
relayer or KeeperHub) and confirming what became of it. A Visa card on top of
the same books authorizes purchases at once and settles them on-chain later.

The books are the only thing that holds a card's budget between the moment a
spend is decided and the moment the chain has it, and several actors write
them without a database transaction around their awaits: agent calls, the
card-network webhook, settlement ladders, reconcile sweeps, the owner and a
process that may restart anywhere. Around them are protocols of the same kind:
reviewed plans, x402 payments, the issuing and killing of cards, OAuth grants,
receipts and webhooks. This project models these in TLA+, checks the models
with TLC and proves central safety properties with TLAPS.

Source paths below are relative to the repository; `spend.ts` is
`packages/engine/src/spend.ts`, `settlement.ts` is
`packages/server/src/stripe/settlement.ts`, `receipts.ts` and `anchor.ts` are in
`packages/engine/src/keeperhub/`, and `sweeps.ts` is
`packages/server/src/keeperhub/sweeps.ts`.

## Inventory

| Component | State it keeps | Operations | What is hard | What makes it correct |
|---|---|---|---|---|
| Card ledger (`store.ts`) | cards, charges, admin operations, plans, executions in SQLite | insert, update, delete of rows; subtree sums | a charge is counted by its card and by every ancestor | no card of a tree is booked past its limits |
| Spend pipeline (`spend.ts`) | nothing but locals across its awaits | `runSpend`, `confirmRedemption`, `reconcilePending`, `reconcileKeeperHub` | freezes, authorizations and sweeps at every await; sends that fail ambiguously; retries by key; restarts | moved money stays counted; one redemption per key; a final row is final |
| Keyed mutex (`mutex.ts`) | a map from key to the promise of the last section | `run` | a section that throws; who deletes the map entry | first come, first served, one at a time, no key left behind |
| Owner controls (`ops.ts`, `api/routes.ts`) | `cards.status`, prepared operations in memory | freeze, unfreeze, revoke, nuke, delete; prepare and finalize | they act while a spend is between awaits; a redemption that lands late; two finalizing requests | a signed leaf is redeemed once; what is called dead is dead |
| Card network (`stripe/routes.ts`, `decisions.ts`) | its row in `charges` | authorization webhook | books outside the mutex; redelivery | an approval is covered by the budget when it is given |
| Settlement (`settlement.ts`) | timers and back-off ladders in memory | kickoff, sweep, park | two drivers of one row, restarts, parking while the other is inside the pipeline | one broadcast per authorization; its budget is never released; it is settled or parked |
| Receipts (`receipts.ts`, `anchor.ts`, `PaymentAnchor.sol`) | execution records; the contract's `anchored` map | hook, view, sweep, run | lost answers, slow and failed runs, overlapping sweeps | one paid run at a time; what is shown as anchored is on chain |
| 1Shot client, executor (`relayer.ts`, `executor.ts`) | none | estimate, send, status | wrong or late statuses | seen through the spend pipeline |
| KeeperHub executor and client (`keeperhub/executor.ts`, `client.ts`, `store.ts`) | execution records, idempotency keys | simulate, send, poll, retries | late polls that overwrite, client retries | a redemption runs once; the books follow the run, not the record |
| Reviewed plans (`spend.ts`, `keeperhub/store.ts`) | plans | open, claim, execute, expire | claimed before the second status check | a plan runs once, and only with a charge |
| x402 (`x402.ts`, `facilitator/routes.ts`, `mcp/server.ts`) | a reservation in `charges` | reserve, sign, retry, settle, finalize, orphan sweep | the seller's answer is lost or late, payloads settled again, signing awaits | a reservation covers what its payload took; it is resolved, once |
| Issuance and terms (`issuance.ts`, `compiler.ts`) | drafts, cards | compile, attenuate, issue | a parent revoked during issuance | a child never exceeds its parent; the chain never refuses what the server admits |
| Webhook delivery (`events/*.ts`) | events, deliveries | emit, deliver, retry, replay | overlapping delivery sweeps | every delivery settles |
| OAuth (`oauth/store.ts`) | codes, grants, tokens | claim, mint, rotate, revoke | replay between claim and mint | one live token per approval; reuse kills the family; a dead card mints nothing |
| REST API, teams, sessions, MCP tools, dashboard, SDK, Venice, treasury views, probes, video | views and requests | — | — | not modelled (see below) |

How they interact: REST and MCP handlers call the spend pipeline under one
mutex per card tree (`deps.ts`); the webhook writes the same charge table
without the mutex and kicks off a settlement, which is again a call of the
pipeline under the mutex; the sweeps on their timers write the charge table
without the mutex; a confirmed charge fires `onChargeConfirmed`, which emits
the event and queues the receipt; owner controls write card statuses at any
time.

Every hazard found in that survey is in `PROJECT.json`, at its line, with the
properties that cover it or the reason why none does.

## Modules

| Module | Models | Role |
|---|---|---|
| `Ledger` | subtree accounting and the two budget checks of `store.ts` and `spend.ts` | operators, no state |
| `Account` | what the books of a card tree promise: budget is taken by a check, and otherwise only given back | abstract specification, implemented by `Spend` |
| `Spend` | `runSpend` for payments and settlements, both confirmation lanes, both reconcile sweeps, the authorization webhook, owner controls, restart | the core; extends `Ledger` |
| `Settlement` | kickoff, sweep, back-off ladder, parking | composes the ladders with `Spend` |
| `KeyedMutex`, `KeyedLock` | the promise chain of `mutex.ts`; what it promises | detailed and abstract specification |
| `Receipts` | receipt service, anchorer, KeeperHub's runs, the contract's replay guard | separate component |
| `X402` | `paid_fetch`, payload and reservation, the seller's facilitator, the orphan sweep | extends `Ledger` |
| `Plans` | reviewed plans, the KeeperHub executor, its client and its records, the recovery sweep | separate component |
| `Terms` | validation and attenuation of terms, the caveats compiled from them, the checks of a redemption | separate component |
| `Cards` | issuing, freezing, revoking, nuking and deleting cards, prepared operations | separate component |
| `OAuth` | requests, codes, tokens, rotation, replay, cascades | separate component |
| `Webhooks` | emission, deliveries, overlapping drivers | separate component |
| `SpendProofs`, `KeyedMutexProofs`, `ReceiptsProofs`, `X402Proofs`, `OAuthProofs`, `CardsProofs`, `PlansProofs`, `TermsProofs` | theorems | |
| `MC...` | constants of the small instances | |

### Spend

A process is one call of `spend()`. JavaScript runs the code between two
awaits without interruption, so that code is one action, and everything else
may happen at an await. `pc` names the await a call is at:

| `pc` | await | left by |
|---|---|---|
| `queued` | the mutex | `Replay`, `PayBegin`, `SettleBegin` |
| `fee` | fee quote | `QuoteFee`, `Abort` |
| `estimate` | estimate of the executor | `RaiseFee`, `Overdrawn`, `BookAndWait` (1Shot), `BookAndSend` (KeeperHub), `Abort` |
| `block` | block number, 1Shot lane | `Recheck`, `BlockUnknown` |
| `send` | `executor.send`, not yet taken on | `Broadcast`, `SendThrows` |
| `sent` | `executor.send`, taken on, answer on its way | `SendReturns`, `SendThrows` if sends are ambiguous |
| `poll` | status | `PollRelayer`, `PollKeeperHub`, `PollGivesUp` |
| `logs` | fee logs, 1Shot lane | `PollLogs` |

`charge`, `feeOf` and `requestId` are columns of the charge table, `cardStatus`
one of the card table; `announced` counts the calls of `onChargeConfirmed`;
`quote`, `tries` and `hint` are the call's locals; `holder` is the mutex, which
`KeyedMutex` shows to be a lock; `sends` and `fate` are the executor and the
chain; `sweep` holds the rows a reconcile sweep read before its awaits.

A payment books a row of its own name; a settlement adopts the row of the
authorization it drives. An idempotency key belongs to several calls; the row a
retry finds is `Prior`, and `Retryable` is the code's rule for a failure that
was never sent.

`Account` says what all these writers together promise, in two actions: a row
takes budget (`Take`) by a check against the books of that very step, or rows
give budget back (`GiveBack`), for good unless they are checked again. `Books`
maps it onto the charge table: a row takes budget while its status is not
`failed`. The mapping leaves the fee of a settlement out, which replaces the
headroom without a check, and `X402`, whose reservation is inserted some awaits
after its check: see the divergences of `LimitsHeld` and `BudgetHeld` below.

What the environment may do is switched by constants, so that a run says under
which environment its properties hold: `AmbiguousSend` (a send is taken on and
answers with an error), `RpcBlips` (a log query fails), `StaleCollector` (fees
go to an address the sweep does not scan), `SlowStart` (an authorization is
broadcast long after its approval), `RunsInterrupted` (a KeeperHub run is cancelled, or
ends in an error, with its write out).

`interrupted` holds the rows to which the last of these happened (`Interrupt`). The
executor answers 500 for any terminal status but a success (`executor.ts:525-528`,
`555-557`), so the poll and the sweep take the budget of such a row back (`Ended`), though
its redemption may land later or has landed: `fate` goes on. `MovedIsCounted` excepts
these rows, by name, and the divergences below have the property without the exception.

### Settlement

`ladder`, `attempts`, `armed` and `backlog` are the timers and loops in memory;
an attempt is one settlement call of `Spend`. The reaction to an attempt's
outcome (`React`) is the code after the await in `settle()`. A promise that has
settled is served before any timer or network answer; that is `NoneEnded`.
A restart forgets ladders and keeps rows.

### KeyedMutex and KeyedLock

`tails` is the map of `mutex.ts`, `prev` the promise a call was chained onto.
`arrivals` is a history variable: the order of the calls. `KeyedLock` is a
first-come first-served lock per key: a section begins when nobody of its key is
inside and everybody of the key who came earlier has ended. `ImplementsLock` says that
the promise chain implements it; `arrivals` is the lock's `order`.

### Receipts

A receipt has no state of its own: `View` reads it from the execution records
of its runs, as the code does. A run is known by its idempotency key, charge
and generation; the generation is the number of recorded failures, so that a
lost answer is asked for again under the same key and only a failure moves on
to a new one. `onChain` is the contract's map and guards against a second
anchor. A run that fails (`RunFails`) has ended in an error or been cancelled, before its
write or after it: the write may be mined later (`MineLate`), while the anchorer has
recorded a failure and gone on to the next generation (`anchor.ts:258-260`, `272`).

### X402

A fetch is one call of the tool that met a payable challenge: `queued` for the
tree's mutex, `signing` its payload (the awaits between the validation of the
budget and the insert of the reservation), `retry` while the request with the
payload is under way. `fac`, `quote` and `round` are a request for a settlement at the
facilitator. Whoever was shown the payload may send such requests at any time and
again: the leaf has no limit of uses, only an allowance of price and headroom for all
its redemptions together (`LeafAllows`). `out` and `landed` are the redemptions of a
payload by their fees, and `moved` what they took from the account. The buyer's answer
and the facilitator's progress are independent, so an answer may be lost or fail while
redemptions land later. `receipts` are the settlements reported while the fetch waits.
`feeOf` is first the headroom and then the fee of the receipt, or nothing if the seller
left the fee out (`AnswerPaid`, `mcp/server.ts:318-324`). `OneShot` says which
executor the deployment has: the orphan sweep runs on a 1Shot deployment only
(`sweeps.ts:41-43`). `SigningRaces` lets the webhook and the owner act during
`signing`; with it `BudgetHeld` fails, see below.

### Plans

`DryRun` stores a plan, `Begin` to `Dispatch` are the `planId` path of `runSpend`,
`Receive` is KeeperHub taking the request on (once per digest of the plan's
bytes), `Resend` the client's retries, `Accepted` the answer.

A run walks the nodes the repository writes into its workflow (`workflows.ts`):
`run` is the node it is at, `Assess` the risk check of a guarded payment, whose
condition may end the run without a write, `Write` the redemption, `Report` the
request that nudges the server. `route` says which of them carry the plan:
`guarded`, `pay`, or `direct` where no workflow is provisioned (`workflowKeyFor`
and its fallback). `tx` is the transaction, whose fate `Mine` decides, and `Interrupt`
ends a run whose write is out.

`heard[x]` is an answer on its way to reader `x`: an execution, the sweep, or a
recovery that a report started. So an old answer may be noted after a new one
(`Noted`, on the execution record) while the books follow the `Verdict` of what was
heard. A report arrives while its run still goes on, so the recovery it starts often
hears "running" and leaves the charge to the next sweep. `late` is the clock past the
expiry of an open plan, which `claimPlan` reads.

### Terms

Algorithms, and the state that decides whether they agree: `chain`, a chain of cards,
`rows`, the redemptions booked on it, and `now`, the clock. A row is booked (`Redeem`),
lands (`Land`) and fails (`Fail`) in steps of its own, a landing at any time and for a
failed row, too. The books count a row from its booking, while it is `kept` and in the
windows it was `booked` in (`Uses`, `Period`, `Life`); the enforcers count it when it has
`landed`, in the windows of that time (`counted`; `Execs`, `Moved`, `MovedPeriod`).
`Roll` ends the window of one card, with redemptions of it still out; `Delete` removes a
dead sub-card, whose rows leave the books of the cards above but not their enforcers.
`Valid` and `Normalized` are `validateTerms`, `Refused` and `Attenuated` are
`attenuate`, `Allowed` is `validateSpend` against every ancestor. A request is a
payment or a batch of calls; `Work` and `FeeLeg` are its executions, `Items` how
`runSpend` groups them into redemptions (an allowance alone with its pinned leaf),
`BasePasses` and `GroupPasses` the caveats of a card (`Group`: which group of a
composite card governs), `LeafPasses` those of the leaf carved for an item.
Two references: `ChainNeverPreempts` compares the server's decision with what all
delegations of the chain let through when the redemption lands, whatever landed since;
it excepts a redemption that was `Overtaken` (one of its windows ended, or a card
expired) and one below a card where a redemption went `Astray` (it landed for a row
that failed or was deleted, or in a later window than it was booked in).
`SubCardAddsNothing` compares what a card may do with
what each card above it may.

### Cards

`issue` and `bound` follow the two steps of issuing, prepare and finalize, with the
nonce that is read between; `entry` and `busy` are a prepared operation in
`pendingAdmin` and its `inProgress` flag; a request goes through `verify`, `loop`,
`confirm`, `ask` and `answer`; `fate` and `chainNonce`, `disabled` are the chain, where a
redemption lands or is dropped at any time after it was sent, also after the request
gave up on it.

### OAuth

Every handler is one action, since it runs without an await once its body is read;
what interleaves is requests. A code has the name of the request it came from.
`Managers[c]` are the users who may approve for card `c`, its owner and the admins of
its team; whether an admin still is one when he asks is left open.
`due` and `swept` are the cascade of an owner's kill, which comes after the kill in a
step of its own, so codes and tokens may be redeemed between. `honoured` and
`replayed` are history: what was answered with tokens, what was presented again
within its time.

### Webhooks

`row` is a delivery, `batch`, `read`, `current` and `step` are the locals of a driver of
`deliverWebhooks`; `read[w][d]` is the number of attempts the driver read with its
batch, which is what it writes back increased by one. The timer does not wait for
the last sweep, and a retry starts a driver of its own.

## Runs

All runs finish within five minutes on two cores; `tlc -workers 2 -config X.cfg M`
reproduces each.

| Run | Question | Bounds |
|---|---|---|
| `MCSpendRetry` | 1Shot lane: does a retry under the same key ever pay twice, do the books confirm only what landed, is moved money counted, does every call return and every broadcast get resolved? (`OneRedemptionPerKey`, `ConfirmedLanded`, `MovedIsCounted`, `CallsReturn`, `BroadcastResolved`) | two calls, one key, fees {1, 2}, one restart; limits that would let both pay |
| `MCSpendKeeperHub` | KeeperHub lane: do two payments and an authorization competing for one budget and one use, with the owner, the sweep, interrupted runs and a restart in between, keep the books within limits and rows final, and do the books implement the account? (`LimitsHeld`, `ConfirmedIsAnnounced`, `ImplementsAccount`, `FinalStaysFinal`) | root cap 6 for charges of 2, 2 and 3 and fees {1, 2}: the root's payment fits beside either other charge at the low fee only; one use on the sub-card for the other two; two estimate rounds, one restart |
| `MCSettlement` | Do kickoff and sweep broadcast an authorization once and never release it, and is it settled or parked in the end? (`FiatNeverReleased`, `SettledOnce`, `BroadcastIsClaimed`, `AuthorizationResolved`) | one authorization, both drivers, two attempts, one restart; ambiguous sends, failing log queries, late broadcasts; one fee |
| `MCKeyedMutex` | Is the promise chain a fair lock? (`NoEntryLeft`, `ImplementsLock`, `EveryCallEnds`) | three sections on one key, one on another |
| `MCReceipts` | Does a receipt ever have two runs at work, is a new one started once it is on chain, is it shown without being there, and does every receipt end? (`OneLiveRun`, `AnchoredIsOnChain`, `NoRunAfterLanding`, `EveryReceiptEnds`) | two charges, a sweep that examines one receipt, two attempts, one restart; lost answers, slow, failing and refused runs, writes that land after their run was reported as failed |
| `MCX402` | 1Shot deployment: do the budgets hold, does a reservation cover what its payload took and a confirmation stand for a redemption, is a reservation decided, and once? (`BudgetHeld`, `BookedCoversPaid`, `FinalizedOnce`, `ReservationResolved`) | two fetches and an authorization on root and sub-card: reservations of 6 and 7 against a root cap of 12, one use on the sub-card; fees 1 and 3 under a headroom of 5, so that one payload can be settled twice and the second settlement of the other is refused by its leaf; two estimate rounds, one restart |
| `MCPlans` | Does a plan run at most once and only with a charge, do the books follow the run, is what was taken on settled? (`PlanRunsOnce`, `OnlyLinkedPlansRun`, `BooksFollowRun`, `TakenOnIsSettled`) | two plans under one key, one of them executed twice; one by the pay workflow and one guarded, or both direct; two requests per send, one report, any number of restarts |
| `MCTerms` | Do terms only tighten, may a sub-card do nothing its parent may not, does the chain let through every batch the server admits? (`TightensDownTheChain`, `ChainNeverPreempts`, `SubCardAddsNothing`, `MintedWithinRemaining`) | chains of three, pay, contract and composite cards; payments and batches of one to five calls with allowances; two redemptions that land or fail at any time, new windows, expiry, deleted sub-cards |
| `MCCards` | Is a signed operation redeemed once, is what the books call revoked disabled, is nothing alive deleted, is a claim let go? (`SignedLeafSentOnce`, `RevokedIsDisabled`, `LiveNeverDeleted`, `ClaimReleased`) | a root and a sub-card, a revoke finalized by two requests, a prepared and a direct nuke, failing reads |
| `MCOAuth` | Do replays, rotations and kills in any order leave one live token per approval, none after a replay and none of a dead card? (`OneLiveTokenPerApproval`, `ReplayKillsGrant`, `CascadeIsFinal`) | two requests, three token rows, the owner and an admin of the sub-card's team, root and sub-card, a clock of two |
| `MCWebhooks` | Does every delivery settle? (`EveryDeliverySettles`) | one hook, two events, two drivers, two attempts, one re-arming, one restart |
| `MCCardsNukeRace` | violation: `NukedIsUnredeemable` when a card is issued while a landed nuke waits to be confirmed | as `MCCards`, reads do not fail |

Why the bounds are enough for what is asked: two payments and one authorization
are the smallest set in which a budget is contended by two serialized writers and by
an unserialized one. The limits are chosen so that either half of the check decides: in
`MCSpendKeeperHub` and in `MCX402` the root has money for one combination of charges and
fees and not for the next, and no limit of uses, while the sub-card has one use and no
cap; leaving out the money half (`Affordable`) or the use half (`UseLeft`) breaks
`LimitsHeld` and `BudgetHeld`. In `MCSpendRetry` the limits never decide, only the key
does. The cards are a root and a sub-card, the
smallest tree in which a charge counts for a card it was not made with; two fees
let a re-quote happen that no longer fits; one restart may fall
between any two steps; two estimate rounds include the last one. Two drivers
with two attempts each include a retry after an error and an exhausted ladder.
Three sections on a key are the smallest chain in which the tail is neither the
running section nor the next. Two attempts at a receipt let a run fail and be
replaced. Two calls with one plan and a third under its key are a race for the
plan and one for the key. A chain of three is the shortest with a term that is
inherited twice; more cards repeat the step. Three token rows are a code's token,
its successor and one more, of the same grant or of another. Two overlapping
drivers are a stale write; a row's attempts are counted to twice the limit, past
which every comparison comes out the same. The theorems have no such bounds.

`CHECK_DEADLOCK FALSE` is set where the system stops: every call has ended and
cards are dead, plans used up or the clock has reached its bound. The receipt
sweep never stops, and its run checks for deadlock. Symmetry is declared only in
`MCOAuth`, over requests and token rows, which the configuration treats alike and
whose run checks invariants only.

### Fairness

Fairness is stated by `Fairness` and `SettlementFairness` next to each
specification. Weak fairness of a call's steps: every network call of the code
has a timeout. Strong fairness of `PollGivesUp`: the poll loop compares the clock
with its deadline each round, though other steps of the loop come between. Strong fairness of
`PayBegin`/`Replay` and `SettleCall`: the mutex is first come first served
(`ImplementsLock`), so a waiter that gets its turn again and again takes it. The
sweeps' timers tick (`SweepBegin`, `SweepTick`); strong fairness of their answers
and of `Start`, `Record`, `Poll`, `DryRunPasses` says that the network and the
gas tank do not fail for ever. `Mine`: a redemption is mined or dropped. No
fairness is assumed of the owner, of restarts, of failures or of authorizations.

In the other modules: `X402` and `Cards` assume weak fairness of a request's own
steps, whose awaits have timeouts, and `X402` strong fairness of the mutex
section, as `Spend` does, and the timer of the orphan sweep: `ReservationResolved` is
checked of a 1Shot deployment (`OneShot`), the only one whose timer calls
`reconcilePending` (`sweeps.ts:41-43`, `index.ts:55-64`), and is refuted of a KeeperHub
one, below. `Plans` assumes that KeeperHub's runs
go on and transactions are mined or reverted (`Progress`), and that the sweep's questions are answered again and again (`Ask`,
`Hear`, strong: an answer may be lost, not every answer). `Webhooks` assumes that
the timer fires, a driver takes its next step (every post has a timeout) and a
back-off elapses. None of them assumes that a call succeeds. `OAuth` and `Terms`
have no liveness to state: nothing there waits.

## Findings

Where the code and its own comments disagree and a run shows it:

1. **A nuke marks cards it did not kill** (`MCCardsNukeRace`). A card prepared after a
   nuke landed, and before its request books it, is bound to the new nonce; the
   bookkeeping then marks every card of the user as nuked (`ops.ts:288`, `479`,
   `store.ts:365-371`), against "NonceEnforcer bump kills them all on-chain"
   (`store.ts:365`) and "the authority is already unredeemable" (`ops.ts:77-79`).

### Known divergences

The models show further ones that no run of the list repeats. Each is found by
changing one cfg as said and putting the property in place of those it has; the
properties are defined and commented in the modules.

| Property | Configuration | What the code does |
|---|---|---|
| `OneRedemptionPerKey` | `MCSpendRetry`, `AmbiguousSend = TRUE` | any throw of `executor.send` marks the row failed without a request id (`spend.ts:805-808`), and the replay rule re-attempts exactly such rows (`spend.ts:553-557`), though the send may have been taken on; `mcp/server.ts:211` says "same key -> same charge (safe retries)" |
| `MovedIsCounted` | `MCSpendRetry`, `RpcBlips = TRUE` | a failed log query falls through to the 500 test (`spend.ts:452-456`), against `spend.ts:432-434` |
| `MovedIsCounted`, without its exception | `MCSpendKeeperHub` | a KeeperHub run that is cancelled, or ends in an error, with its write out is reported as 500 (`executor.ts:525-528`, `555-557`) and its row booked as failed (`spend.ts:836-844`, `1118-1125`), though the same answer may list a verified transaction (`executor.ts:508`), against `spend.ts:1083`, "settle the ledger from it", the verified outcome |
| `AuthorizationResolved` | `MCSettlement`, `ViaChain = FALSE`, `RpcBlips = FALSE`, `SlowStart = FALSE`, `MaxCrashes = 0` | KeeperHub lane: after a send that throws, the claimed row is selected by neither `unsettledFiatCharges` (`store.ts:471`) nor `reconcileKeeperHub` (`spend.ts:1105`), and `reconcilePending` runs for 1Shot only (`sweeps.ts:41`), against `spend.ts:764-770` |
| `ConfirmedIsAnnounced` | `MCSpendRetry` | `runRecovery` builds the 1Shot sweep without the hook (`sweeps.ts:42`); `spend.ts:112-113` says "from ANY path" |
| `AnnouncedOnce` | `MCSpendKeeperHub` | sweep and call both confirm and announce one row (`spend.ts:1103-1117`, `828-833`); the same comment says "Called once" |
| `ReleasedNeverLanded` | `MCSpendRetry`, `StaleCollector = TRUE` | the sweep scans for the fee at a constant address (`spend.ts:1015`), the redemption pays the quoted one (`spend.ts:647`) |
| `SweepDoesNotRaceMine` | `MCSettlement`, `AmbiguousSend` and `RpcBlips` `FALSE` | the sweep's cutoff uses the time of the approval, not of the broadcast (`spend.ts:985`, `store.ts:445`), against `spend.ts:980-981` |
| `ParkedIsNotSent` | `MCSettlement`, the three switches `FALSE` | a row is parked outside the mutex (`settlement.ts:86-88`) while the other driver is past its only status check (`spend.ts:529-546`) |
| `ParkedFreezesCard` | `MCSettlement`, `MaxAttempts = 1`, `MaxCrashes = 0` | the reconcile sweep parks without freezing (`spend.ts:1065-1068`), against `settlement.ts:6-9` |
| `LimitsHeld` | `MCSettlement`, `Pays = {p1}`, `Fees = {1, 2}`, `SettlementSpec`, `MaxCrashes = 0` | an attempt's quote replaces the reserved headroom and a later attempt needs it back (`spend.ts:728-729`), against `stripe/routes.ts:83-84` |
| `NoRunAfterLanding`, without its exception | `MCReceipts` | any terminal status of a receipt's run counts as failed (`anchor.ts:258-260`, `272`), the next generation passes its dry run before the write of the old run lands, and is started after it, against "instead of paying for a second one that would revert" (`anchor.ts:119-120`) |
| `RunsArePolled` | `MCReceipts`, `LostStarts` and `Refusals` `FALSE`, `MaxCrashes = 0` | a run that outlives its wait keeps a running record, the view says "anchoring" (`receipts.ts:97-98`), and the sweep takes pending receipts only (`receipts.ts:121`, `151`), against "the next sweep polls the same run" (`anchor.ts:243`) |
| `LandedIsAnchored` | `MCReceipts`, `SlowRuns` and `Refusals` `FALSE` | a receipt found on chain is returned and not recorded (`anchor.ts:155-159`), against `anchor.ts:119-120` |
| `PendingIsRetried` | the same | such receipts use up the sweep's limit each time (`receipts.ts:148-153`), against `receipts.ts:142` |
| `EveryReceiptEnds` | `MCReceipts`, `Window = 1` | only the newest charges of a card are listed (`receipts.ts:149`), against `sweeps.ts:136-138` |
| `BudgetHeld` | `MCX402`, `SigningRaces = TRUE` | the budget is not validated again after the signing awaits (`x402.ts:92-108`); `spend.ts:751-762` does so on the other path |
| `ReservationResolved` | `MCX402`, `OneShot = FALSE` | under KeeperHub, the default executor (`deps.ts:85-98`), nothing calls `reconcilePending` (`sweeps.ts:41-43`): a reservation a restart left behind is held for ever, against "so a dead reservation can't hold a card's budget forever" (`store.ts:450-454`) |
| `BookedCoversPaid`, for every confirmed row | `MCX402` | a receipt with a transaction and no readable fee confirms the row with fee 0 (`mcp/server.ts:318-324`, `x402.ts:144-152`), and a payload that is settled again moves its price again (`facilitator/routes.ts:109`, `compiler.ts:320-326`): more left the account than the row says |
| `ChainNeverPreempts`, without `Overtaken` | `MCTerms` | a redemption booked in one window and landing in the next meets what the enforcers counted since, not what the books did at its check (`spend.ts:355-366`, `store.ts:494-505`), against "the chain never falsely pre-empts a redemption the server-side maxUses cap would allow" (`compiler.ts:46-52`) |
| `ChainNeverPreempts`, without `Astray` | `MCTerms` | the enforcers keep counting what the books lost: a redemption that landed for a row booked as failed, one that landed in a later window, and those of a deleted sub-card (`store.ts:338-353`); the server then admits what the chain refuses, against the same line |
| `CapFollowsGrants` | `MCTerms` | a child scoped to `increaseAllowance` alone inherits no cap (`compiler.ts:509`), against "A no-approve child can never trigger the cap" (`compiler.ts:501-504`); the walk over the ancestors at spend time applies the parent's |

Read in the code while modelling it, and outside what the properties say:

- *x402.* The leaf of a payload is carved for the default delegate, the 1Shot
  target, so under KeeperHub `verifyX402` refuses every payload although the
  facilitator is built to settle there too. A failed answer and the orphan sweep release
  the reservation of a payment that may still land (the model reaches failed rows with a
  redemption that landed), and the row of an answer without a receipt covers its price
  only; the ledger trusts the seller's header.
- *Plans.* A run that ends in an error, or is cancelled, after its write went out is
  booked as failed, though the same answer may list the transaction as verified
  (`executor.ts:508`, `525-528`); `spend.ts:1083` has "settle the ledger from it", the
  verified outcome. `BooksFollowRun` excepts such plans (`Interruptible`), as
  `MovedIsCounted` and `NoRunAfterLanding` except such rows and receipts. A late
  "running" answer overwrites a finished execution record
  (`executor.ts:530-536`); a freeze between claim and link uses a plan up without
  a charge (`spend.ts:725`); a dry run under the key of a failed unsent charge
  deletes that charge (`spend.ts:549-557`).
- *Terms.* A period's amount and length, the number of uses and the tokens of a
  grandchild are compared with its parent only where the parent states them; the
  walk over all ancestors at spend time is what enforces them, and what makes
  `SubCardAddsNothing` true.
- *Cards.* A sub-card signed while its root is revoked stays active under a dead
  root (every spend walks the chain and refuses). When
  the nonce cannot be read after a nuke the books take the stored nonce plus one,
  one too many if a prepare has read the new one already; a failed read while
  preparing binds the card to the stored nonce.
- *Recovery.* On a KeeperHub deployment the 1Shot rows still in the books are never
  looked at (`sweeps.ts:41`), against "any legacy 1Shot rows still in the books settle
  from chain logs" (`sweeps.ts:34-35`).
- *OAuth.* The agent's `revoke_subcard` and a restart between a kill and its cascade
  leave token rows of a dead card alive (`mcp/server.ts:624-628`); every lane still
  refuses the card. A used code that comes back after its time is not taken for a
  theft.
- *Teams.* "What a team can never do: issue a card, reveal or rotate its secret, or
  revoke it on-chain" (`teams/store.ts:13-14`), and a caller that names no level "stays
  owner-only" (`routes.ts:192`); but `ownedCard`'s default, "manage", admits a team's
  admin, to whom `GET /cards/:id/url` and `POST /cards/:id/rotate` answer. He may approve an OAuth
  request too: "The code is bound to the LIVE session's user at approve time"
  (`routes.ts:697-698`), but what is stored is the card's owner (`routes.ts:758`), and the
  token outlives the admin's membership.
- *Webhooks.* With overlapping sweeps the later writer wins: a delivered row may
  turn failed again and be sent again, a dead one may be re-opened, and a row may
  be posted more than five times (`deliver.ts:8-10` says "five attempts").

## What is proved

Theorems hold for every number of cards, calls, authorizations, charges,
sections, fees and restarts; they assume only the named `ASSUME`s on the
constants (`LedgerAssumption`, `SpendAssumption`, `MutexAssumption`,
`ReceiptsAssumption`, `X402Assumption`, `OAuthAssumption`, `CardsAssumption`,
`PlansAssumption`, `TermsAssumption`), which TLC evaluates on every run. The
one on the ledger says that the cards above a card form a chain that ends at a root,
since a card has one `parent_card_id`.

**`SpendProofs`** is about `Spend`'s `Spec`: payments on either lane,
authorizations that wait, sweeps, the owner, restarts; settlers stay idle there, and the
third table says what holds beside them, too.

| Theorem | Says | Assuming |
|---|---|---|
| `TypesHold` | `[]TypeOK` | |
| `CallsAndRowsInStep` | `[]RowsFollowCalls` | |
| `OneRowPerKey` | `[]KeyBookedOnce` | |
| `RetriesAreSafe` | `[]OneRedemptionPerKey` | `~AmbiguousSend` |
| `ConfirmedHasLanded` | `[]ConfirmedLanded` | |
| `MovedStaysCounted` | `[]MovedIsCounted`, which excepts the rows of interrupted KeeperHub runs | no ambiguous sends, no failing log queries, the right collector |
| `FinalRowsStay` | `FinalStaysFinal` | the same |
| `BooksAreAnAccount` | `ImplementsAccount` | the same |
| `LimitsAreHeld` | `[]LimitsHeld` | the same |
| `ConfirmationsAreAnnounced` | `[]ConfirmedIsAnnounced` | the KeeperHub lane |

`RowsFollowCalls` is the inductive invariant: `PaysInStep`, which is about the payments,
and `AuthsWait`, that nobody but the webhook writes an authorization's row. Each part is
there because a step needs it. A call inside the pipeline holds its tree's mutex
(`InMutex`), hence is alone with its key; before it books, no row and no rival
under its key exist (`Unbooked`), which gives `KeyBookedOnce`; from its booking to
the recording of the request id the row is the call's alone (`Unsent`), because
sweeps take only rows with a request id (`SweptRows`); a recorded id means that
the executor has the redemption (`Issued`). `MovedIsCounted` needs two more
parts, `SentIsBooked` (a row with a redemption is not deleted for a retry: what
an ambiguous send breaks) and `BooksAgree`. `BooksAreAnAccount` maps each step
of `Spend`: a booking and an authorization are a `Take`, because `Unbooked` says that the row did
not count before and nothing happens between check and insert; every other step gives
back or changes nothing that counts, because a failed row is never confirmed later
(`BooksAgree`). `LimitsAreHeld` takes the sums on top of that (`AccountStep`: a step
adds one checked row, or only takes rows away). The ledger counts what rows take as a
finite set of atoms, so that the theorems about cardinalities of unions carry the sums and
no induction over rows is needed; a new row disturbs the limits of the cards on its path
to the root, which the check has asked, and of no others. Each assumption is
the absence of one divergence in the table above (ambiguous sends, failing log
queries, the collector's address): with it present TLC refutes the property. Interrupted
KeeperHub runs are no assumption: any number of them may happen in all these theorems.
What they break is excepted in `MovedIsCounted` itself, row by row, and `BooksAgree`
carries the exception: a failed row has no redemption out or landed, unless its run was
interrupted. `LimitsAreHeld` and `BooksAreAnAccount` are about what the books count; what
such a run moved after its row failed is not on them.

About `Settlement`'s specification, in which kickoffs and sweeps drive the settlers next to
everything `Spend` does, the same module proves:

| Theorem | Says | Assuming |
|---|---|---|
| `SettlementTypes` | `[]SettlementTypeOK` | |
| `OneBroadcast` | `[]SettledOnce` | `SettlementOn` |
| `BroadcastsAreSeen` | `[]BroadcastIsClaimed` | `SettlementOn` |
| `FiatStaysHeld` | `[]FiatNeverReleased` | |

They hold with ambiguous sends, failing log queries and a stale collector. The
invariant, `SettlementsInStep`: every call past the queue holds its tree's mutex,
settlements included (`AllInMutex`); a settlement works on a row whose request id is
empty and sends only under its own claim (`Driven`); and a row without a claim was never
sent (`SentUnderClaim`). A second driver that gets the mutex after a broadcast finds the
claim and stops, whatever the first one's error said. `SettlementOn` says that the
deployment settles at all (`ATTESTPAY_FIAT_SETTLEMENT`, `deps.ts:188`).
`AttemptsLeft` bounds the ladder.

What payments are promised does not depend on idle settlers. Under the same
specification, with `SettlementOn`:

| Theorem | Says | Assuming also |
|---|---|---|
| `PaymentsKeepInStep` | `[](TypeOK /\ SettlementsInStep /\ PaysInStep)` | |
| `OneRowPerKeyBesideFiat` | `[]KeyBookedOnce` | |
| `RetriesAreSafeBesideFiat` | `[]OneRedemptionPerKey` | `~AmbiguousSend` |
| `ConfirmedHasLandedBesideFiat` | `[]ConfirmedLanded` | |
| `MovedStaysCountedBesideFiat` | `[]MovedIsCounted`, with the same exception | no ambiguous sends, no failing log queries, the right collector |
| `ConfirmationsAreAnnouncedBesideFiat` | `[]ConfirmedIsAnnounced` | the KeeperHub lane |

The argument is one of interference. To the payments a step of either specification is one
of three (`PaysNext`): a payment's own step, a step outside the calls (webhook, sweep, owner,
chain, restart), or a step beside them (`Beside`), which leaves their rows, calls and mutex
alone. The lemmas about the payments are proved for `PaysNext`; `NextOfPays` says that `Spend`'s
steps are such, `SettlementOfPays` that the settlements' are, because a settler writes only
its authorization's row and leaves only the mutex section that it holds (`AllInMutex`). For
`ConfirmedLanded` an authorization's own row needs `AuthTrue`: what the books confirm
or a sweep has read as landed has landed, and is not broadcast again. `FinalStaysFinal`,
`LimitsHeld` and `ImplementsAccount` are not among them, since with settlers they fail:
under `SlowStart` a sweep that read the logs early parks a row that was confirmed since,
and a later attempt may quote more than the first one left booked (the divergence of `LimitsHeld` above).

**`KeyedMutexProofs`**: `MutexExclusive`, `MutexInOrder`, `MutexForgets` (`NoEntryLeft`) and
`MutexIsALock` (`ImplementsLock`). The invariant says that
the history lists each call once, that a key's tail is its last unfinished
arrival, and that a call is chained onto the arrival before it of its key, or
onto nothing if all of those have ended. The first two follow from it, and with them each
step of the chain is a step of the lock or leaves it alone (`LockStep`): a section whose
promise has settled finds nobody of its key inside. That a tail's section has not yet
cleaned up (`EntryInUse`) gives `MutexForgets`.

**`ReceiptsProofs`**: `OneRunAtATime`, `PaidOnce` (`NoRunAfterLanding`),
`AnchoredMeansOnChain` and `AttemptsBound`. The invariant: generations are reported as
failed in order (`FailedFirst`), records say of a finished run what KeeperHub says of it
(`RecordsTrue`), no generation is ahead of the next one (`NoneAhead`), and a
call's generation is the one its next key would have (`CallsInStep`). This holds
with lost answers, slow and failing runs, late writes of runs reported as failed and
restarts all enabled. `PaidOnce` excepts receipts such a late write has anchored
(`LandedLate`): for them the property fails, as the divergence above says.

**`X402Proofs`**: `X402Types`, `PaidStaysCovered` (`BookedCoversPaid`), `DecidedOnce`
(`FinalizedOnce`) and `ReservationsFit` (`BudgetHeld`). The invariant: where a fetch stands and what its row says go
together (`CallsAndRows`), what the redemptions of a payload moved is within its leaf's
allowance and names no fee twice (`RedeemedTruly`), a receipt reports a redemption that
landed (`ReportedTruly`), and what a row books is the headroom, the fee of such a receipt
or nothing (`BookedFees`). It holds for failing sellers, lost answers, payloads settled
again, receipts without a fee and restarts, with the orphan sweep or without.
`BookedCoversPaid` says of a pending row that it covers everything its payload took, and of
a confirmed one that a redemption landed, that a fee it books is that of a landed
redemption, and that it covers what left the account if that redemption was the only one. `ReservationsFit`
adds that the room a payload was checked against is still there while it is being signed
(`RoomKept`), because its fetch holds the tree's mutex. It assumes that no authorization
comes during a signature (`~SigningRaces`), or that there are no authorizations at
all: the webhook books outside the mutex, which is the divergence of `BudgetHeld` above.

**`OAuthProofs`**: `OAuthTypes`, `GrantIsOneToken` (`OneLiveTokenPerApproval`),
`ReplayIsFatal` (`ReplayKillsGrant`) and `DeadCardsMintNothing` (`CascadeIsFinal`). A
code is exchanged once (`CodesComeOnce`), every token's family is a code that was
exchanged (`FamiliesFollowCodes`), a family has one live row (`OneLiveRow`), and no row
is live whose family was replayed (`ReplayedIsDead`) or whose card a cascade
has passed (`SweptIsDead`).

**`CardsProofs`**: `CardsTypes`, `LeafSentOnce` (`SignedLeafSentOnce`), `RevokedForSure`
(`RevokedIsDisabled`) and `LiveStay` (`LiveNeverDeleted`). Whoever works on a prepared
operation has it alone (`Exclusive`: the `inProgress` flag is tested and set without an
await between), the entry is consumed before the leaf is sent (`ConsumedBeforeSent`),
so no request that comes later can send it again; a redemption that landed has
disabled its root (`LandedDisabled`), and books say revoked only after a landing.

**`PlansProofs`**: `PlansTypes`, `PlanOnce` (`PlanRunsOnce`), `LinkedRun`
(`OnlyLinkedPlansRun`) and `BooksTrue` (`BooksFollowRun`). An execution past the mutex has
it alone (`InMutex`) and follows the claim (`ClaimOrder`); a plan is linked to one
charge and a key books one (`LinkedOnce`, `KeyedOnce`), which bounds its runs (`RunCounts`).
The run and its transaction go together (`TxFollowsRun`), what a reader has heard of a
run that ended is how it ended (`HeardTruly`), and so the books decide nothing the run
did not (`BooksKnowEnd`); the three give `BooksFollowRun`.

**`TermsProofs`**: `TermsTypes`, `TermsTighten` (`TightensDownTheChain`), `NothingAdded`
(`SubCardAddsNothing`), `NeverPreempted` (`ChainNeverPreempts`) and `MintedFromTheRest`
(`MintedWithinRemaining`). A new card is
nested in the card it hangs from, which is a lemma about `attenuate` alone;
nesting is transitive, and an allowance's cap passes through a card in between because
the selectors do. The invariant adds that a card with pay terms has only cards with
pay terms above it (`PayAbove`), which is why looking at the payer's own
capabilities is enough. `NeverPreempted` needs two more parts, which every booking checks
and landings, failures, new windows and deletions keep: each booked redemption passes the
checks of its kind on every card of its chain (`RowsAdmitted`), and the books of each card
are within its limits (`BooksWithin`). As long as nothing landed astray of the books, the
enforcers of a card have counted no more than what the books hold of other redemptions
(`EnforcersWithin`): at most `MostCalls` executions per use, six for a card with contract
scope and two for one that only pays, and no transfer that the books do not have. So the
redemption that is booked and still out finds the room that was kept for it. A batch of
any length is a set of items, each allowance alone and each run between two of them, so a
lemma about one item (`ItemOf`) is
enough. `Weigh`, a sum as the size of a set, lets the theorems about cardinalities
carry the sums.

Only model-checked: liveness (`CallsReturn`, `BroadcastResolved`,
`AuthorizationResolved`, `EveryCallEnds`, `EveryReceiptEnds`, `ReservationResolved`,
`TakenOnIsSettled`, `ClaimReleased`, `EveryDeliverySettles`), which is out of the
provers' reach. Every invariant and every action property the runs check is a theorem.
`Webhooks` has no theorem: what it promises is that deliveries settle.

## Abstractions

- **Time.** In `Spend` a row is `Aged` when its call has ended and its redemption is
  decided, which is what ten minutes stand for, except under `SlowStart`. Expiry of
  cards and period windows are in `Terms`; `Spend` and `X402` use lifetime budgets.
  `Plans` and `Webhooks` have a flag for a deadline that has passed, `OAuth` a clock.
- **Static checks** of a request (merchant, per-transaction maximum, scope) refuse
  before anything is written; they are in `Terms` and left out of `Spend`, which
  keeps budget and use counts, because those depend on other calls.
- **Fees** stand for the quote with its random part. The fee log is found by that
  part; distinct rows are assumed to have distinct ones.
- **One tree and one user per sweep, one reconcile sweep at a time**: sweeps of
  different users touch different rows.
- **KeeperHub** reports success only of a run whose transaction was mined and did not
  revert: the code takes a success with any hash for a payment or a receipt, an unverified
  or reverted one too (`executor.ts:510-523`, `anchor.ts:255-256`, `268-269`), which no model
  reaches. A failure it may report of a run whose write is out or was mined: `Interrupt` in
  `Spend` and `Plans`, `MineLate` in `Receipts`. It walks the nodes of a workflow along its
  edges and keeps idempotency keys for ever. Nobody else anchors this deployment's payments.
- **x402** redemptions of one payload have distinct fees, by the jitter. The seller's
  answer is any that the facilitator's reports allow; a seller that invents a hash is not
  modelled, since the ledger has nothing but its word.
- **Receipts** list one card's confirmed charges; charges that never confirm also take
  places in the code's window of fifty.
- **KeeperHub and plans**: a run is known by the digest of its call data, which
  is the plan; what a plan's dry run decodes is not modelled. The owner freezes
  and unfreezes whenever they like, so a read of a status may find either.
- **Terms**: a window of the books and one of the enforcers start together (both count
  from the card's start), windows of different cards end independently. `Fail` and `Delete`
  may strike any booked row and any sub-card: revoking and freezing are in `Cards`. What a
  deleted card had out still lands if the cards above let it. Amounts of calls other than allowances and transfers are
  not limited by any term.
- **Cards** has one user: a nonce is per user, and users share nothing else.
- **OAuth** leaves out client registration, the client, redirect and verifier
  checks of a code (they refuse and change nothing) and the access-token lane.
- **Webhooks** leaves out the batch limit of fifty and the order of due rows.
- **Names, amounts, calldata, signatures, logging and response wording** are
  values or are left out.

Not modelled: natural-language compilation, key custody and signatures, views and
formatting of REST and MCP, the SDK and the dashboard, which keep no state that
others depend on; teams (but for who may approve an OAuth request), the rate
limiter, event and audit logs, card settings and budget alerts, which keep state
that nothing modelled here reads; probes, video and vendored libraries.
`PROJECT.json` lists them with the reason.

## Plan

What is left, in the order of what could lose money or wedge an operation:

1. The account for `X402` as well, with a re-validation where its divergence is.
2. The limits of `Spend` with settlements, whose fee replaces the headroom without a check:
   how far past a cap the replaced fees may go.
3. Colliding fee fingerprints in the sweep of `Spend`, and the 1Shot lane's scan
   window.
4. Teams and the rate limiter, budget alerts.
