-------------------------------- MODULE Spend --------------------------------
(***************************************************************************)
(* The spend pipeline (engine/src/spend.ts, runSpend), the charge table it *)
(* writes (engine/src/store.ts), the Visa authorization webhook that       *)
(* writes into the same table without the spend mutex                      *)
(* (server/src/stripe/routes.ts), the owner's kill switches                *)
(* (engine/src/ops.ts) and the two reconcile sweeps.                       *)
(*                                                                         *)
(* A process is one call of spend().  The code between two awaits runs     *)
(* without interruption and is one action here; everything else may happen *)
(* at an await.  Pays are the agent's payments, each with a row of its own *)
(* name; Auths are card-network authorizations, whose rows the Settlers    *)
(* drive on-chain (module Settlement says when).                           *)
(***************************************************************************)
EXTENDS Ledger

CONSTANTS
  Pays,             \* pay calls; call p books row p
  Auths,            \* card-network authorizations; authorization a books row a
  Settlers,         \* settlement calls
  Target,           \* Target[s]: the authorization settler s drives
  CardOf,           \* CardOf[r]: the card row r is charged to
  KeyOf,            \* KeyOf[p]: the idempotency key of pay call p, or NoKey
  NoKey,
  Amount,           \* Amount[r]: atoms moved by row r, without the fee
  Fees,             \* the fees an executor may quote, jitter included
  Headroom,         \* fee headroom an authorization reserves
  EstimateRetries,  \* rounds of the estimate loop
  SettlementOn,     \* approved authorizations are settled on-chain
  ViaChain,         \* TRUE: 1Shot lane, confirmed by fee logs; FALSE: KeeperHub
  AmbiguousSend,    \* environment: a send may be executed and yet answer with an error
  RpcBlips,         \* environment: a log query of confirmRedemption may fail
  StaleCollector,   \* environment: fees go to another address than FEE_COLLECTOR
  SlowStart,        \* environment: an authorization may be broadcast long after its approval
  RunsInterrupted,  \* environment: a KeeperHub run may end in an error with its write out
  MaxCrashes,       \* bound: restarts of the server process
  None

Rows == Pays \cup Auths
Procs == Pays \cup Settlers

\* The row process p books (pay) or adopts (settle).
RowOf(p) == IF p \in Settlers THEN Target[p] ELSE p
CardUsed(p) == CardOf[RowOf(p)]
Trees == {TreeOf(c) : c \in Cards}

ASSUME SpendAssumption ==
  /\ Pays \cap Auths = {} /\ Pays \cap Settlers = {} /\ Auths \cap Settlers = {}
  /\ Target \in [Settlers -> Auths]
  /\ CardOf \in [Rows -> Cards]
  /\ Amount \in [Rows -> Nat]
  /\ DOMAIN KeyOf = Pays
  /\ Fees \subseteq Nat /\ Headroom \in Nat
  /\ EstimateRetries \in Nat \ {0} /\ MaxCrashes \in Nat
  /\ {SettlementOn, ViaChain, AmbiguousSend, RpcBlips, StaleCollector, SlowStart,
      RunsInterrupted} \subseteq BOOLEAN
  /\ None \notin Procs

VARIABLES
  cardStatus,   \* cards.status
  charge,       \* charges.status; "none": no row yet, "deleted": row deleted
  feeOf,        \* charges.fee_atoms
  requestId,    \* charges.request_id: "null", the settle claim, or the executor's id
  announced,    \* how often the row's confirmation fired onChargeConfirmed
  pc,           \* where each call stands
  quote,        \* the fee the call is carving with
  tries,        \* estimate rounds done
  hint,         \* the status the executor answered last
  result,       \* what the call returned to its caller
  holder,       \* the call inside each tree's mutex section
  sends,        \* redemptions of the row the executor took on
  fate,         \* the last of them: "none", "inflight", "landed", "dropped"
  interrupted,  \* rows whose KeeperHub run ended in an error with its write out
  sweep,        \* the reconcile sweep in progress: its rows and the logs it read
  crashes

books == <<charge, feeOf, requestId, announced>>
locals == <<quote, tries, hint>>
calls == <<pc, locals, result, holder>>
chain == <<sends, fate, interrupted>>
vars == <<cardStatus, books, calls, chain, sweep, crashes>>

CardStates == {"active", "frozen", "revoked"}
ChargeStates == {"none", "deleted", "pending", "confirmed", "failed", "settlement_unconfirmed"}
Awaiting == {"fee", "estimate", "block", "send", "sent", "poll", "logs"}
PcStates == {"idle", "queued", "done", "crashed"} \cup Awaiting
Results == {"none", "pending", "confirmed", "replayed", "refused", "frozen", "dead", "error"}
NoSweep == [on |-> FALSE, scanned |-> FALSE, rows |-> {}, hits |-> {}]

-----------------------------------------------------------------------------
(* The books.                                                              *)

Booked == {r \in Rows : charge[r] \notin {"none", "deleted"}}
Counted == {r \in Booked : charge[r] # "failed"}

\* validateSpend's budget half, on the rows as they are now.
Fits(p, f) == WithinLimits(CardUsed(p), Amount[RowOf(p)] + f, Counted, CardOf, Amount, feeOf)

\* assertChainSpendable: no card of the chain is frozen or revoked.
Spendable(c) == \A a \in Ancestors[c] : cardStatus[a] = "active"

\* What assertChainSpendable throws: the first bad card from the leaf up decides.
RefusalOf(c) ==
  LET bad == {a \in Ancestors[c] : cardStatus[a] # "active"}
      first == CHOOSE a \in bad : bad \subseteq Ancestors[a]
  IN  IF cardStatus[first] = "frozen" THEN "frozen" ELSE "dead"

Goto(p, l) == pc' = [pc EXCEPT ![p] = l]

\* Mutant of Return: the mutex section is never left.
ReturnKeepsMutex(p, res) ==
  /\ Goto(p, "done")
  /\ quote' = [quote EXCEPT ![p] = 0]
  /\ tries' = [tries EXCEPT ![p] = 0]
  /\ hint' = [hint EXCEPT ![p] = "none"]
  /\ result' = [result EXCEPT ![p] = res]
  /\ UNCHANGED holder

\* The call settles with res: its locals go, and it leaves the mutex section.
Return(p, res) ==
  /\ Goto(p, "done")
  /\ quote' = [quote EXCEPT ![p] = 0]
  /\ tries' = [tries EXCEPT ![p] = 0]
  /\ hint' = [hint EXCEPT ![p] = "none"]
  /\ result' = [result EXCEPT ![p] = res]
  /\ holder' = [holder EXCEPT ![TreeOf(CardUsed(p))] = None]

\* updateCharge(status): an UPDATE of a row that is gone changes nothing.
SetStatus(r, s) ==
  charge' = [charge EXCEPT ![r] = IF r \in Booked THEN s ELSE @]

Announce(r) == announced' = [announced EXCEPT ![r] = @ + 1]

Init ==
  /\ cardStatus = [c \in Cards |-> "active"]
  /\ charge = [r \in Rows |-> "none"]
  /\ feeOf = [r \in Rows |-> 0]
  /\ requestId = [r \in Rows |-> "null"]
  /\ announced = [r \in Rows |-> 0]
  /\ pc = [p \in Procs |-> IF p \in Pays THEN "queued" ELSE "idle"]
  /\ quote = [p \in Procs |-> 0]
  /\ tries = [p \in Procs |-> 0]
  /\ hint = [p \in Procs |-> "none"]
  /\ result = [p \in Procs |-> "none"]
  /\ holder = [t \in Trees |-> None]
  /\ sends = [r \in Rows |-> 0]
  /\ fate = [r \in Rows |-> "none"]
  /\ interrupted = {}
  /\ sweep = NoSweep
  /\ crashes = 0

-----------------------------------------------------------------------------
(* A pay call up to its first await: idempotency replay, then the status   *)
(* of the card's chain.                                                    *)

Turn(p) == pc[p] = "queued" /\ holder[TreeOf(CardUsed(p))] = None

\* The row already booked under the call's idempotency key, as a set.
Prior(p) ==
  {q \in Booked \cap Pays :
     KeyOf[p] # NoKey /\ KeyOf[q] = KeyOf[p] /\ CardOf[q] = CardOf[p]}

\* Mutant of Retryable: any row without a request id is re-attempted.
RetryableUnsent(q) == requestId[q] = "null"

\* A failure that was never given a request id is re-attempted, not replayed.
Retryable(q) == charge[q] = "failed" /\ requestId[q] = "null"

Replay(p) ==
  /\ p \in Pays /\ Turn(p)
  /\ \E q \in Prior(p) : ~Retryable(q)
  /\ Goto(p, "done")
  /\ result' = [result EXCEPT ![p] = "replayed"]
  /\ UNCHANGED <<cardStatus, books, locals, holder, chain, sweep, crashes>>

\* deleteCharge of the retryable row, which frees the unique index.
ClearPrior(p) ==
  charge' = [r \in Rows |-> IF r \in Prior(p) THEN "deleted" ELSE charge[r]]

PayBegin(p) ==
  /\ p \in Pays /\ Turn(p)
  /\ \A q \in Prior(p) : Retryable(q)
  /\ ClearPrior(p)
  /\ IF Spendable(CardUsed(p))
       THEN /\ Goto(p, "fee")
            /\ holder' = [holder EXCEPT ![TreeOf(CardUsed(p))] = p]
            /\ UNCHANGED result
       ELSE /\ Goto(p, "done")
            /\ result' = [result EXCEPT ![p] = RefusalOf(CardUsed(p))]
            /\ UNCHANGED holder
  /\ UNCHANGED <<cardStatus, feeOf, requestId, announced, locals, chain, sweep, crashes>>

SettleEnds(s, res) ==
  /\ Goto(s, "done")
  /\ result' = [result EXCEPT ![s] = res]
  /\ UNCHANGED holder

SettleEnters(s) ==
  /\ Goto(s, "fee")
  /\ holder' = [holder EXCEPT ![TreeOf(CardUsed(s))] = s]
  /\ UNCHANGED result

\* Mutant of SettleBegin: a claimed row is driven again.
SettleBeginUnclaimed(s) ==
  /\ s \in Settlers /\ Turn(s)
  /\ IF charge[Target[s]] # "pending" THEN SettleEnds(s, "replayed")
     ELSE IF ~Spendable(CardUsed(s)) THEN SettleEnds(s, RefusalOf(CardUsed(s)))
     ELSE SettleEnters(s)
  /\ UNCHANGED <<cardStatus, books, locals, chain, sweep, crashes>>

\* Mutant of SettleBegin: a row that is final already is driven again.
SettleBeginFinal(s) ==
  /\ s \in Settlers /\ Turn(s)
  /\ IF ~Spendable(CardUsed(s)) THEN SettleEnds(s, RefusalOf(CardUsed(s))) ELSE SettleEnters(s)
  /\ UNCHANGED <<cardStatus, books, locals, chain, sweep, crashes>>

\* A settlement call up to its first await: a row that is terminal or already
\* has a request id is replayed, an unspendable chain refuses.
SettleBegin(s) ==
  /\ s \in Settlers /\ Turn(s)
  /\ LET r == Target[s]
     IN  CASE charge[r] # "pending" -> SettleEnds(s, "replayed")
           [] charge[r] = "pending" /\ requestId[r] # "null" -> SettleEnds(s, "pending")
           [] charge[r] = "pending" /\ requestId[r] = "null" /\ ~Spendable(CardUsed(s)) ->
                SettleEnds(s, RefusalOf(CardUsed(s)))
           [] OTHER -> SettleEnters(s)
  /\ UNCHANGED <<cardStatus, books, locals, chain, sweep, crashes>>

-----------------------------------------------------------------------------
(* The fee and the estimate loop.                                          *)

\* The fee quote arrives; a pay is validated with it, a settlement is not.
QuoteFee(p) ==
  /\ pc[p] = "fee"
  /\ \E f \in Fees :
       IF p \in Settlers \/ Fits(p, f)
         THEN /\ quote' = [quote EXCEPT ![p] = f]
              /\ Goto(p, "estimate")
              /\ UNCHANGED <<tries, hint, result, holder>>
         ELSE Return(p, "refused")
  /\ UNCHANGED <<cardStatus, books, chain, sweep, crashes>>

\* The executor asks for more than the quote: re-quote, re-validate, next round.
\* A round past the last one ends the call.
RaiseFee(p) ==
  /\ pc[p] = "estimate"
  /\ \E f \in {g \in Fees : g > quote[p]} :
       IF p \in Pays /\ ~Fits(p, f) THEN Return(p, "refused")
       ELSE IF tries[p] + 1 >= EstimateRetries THEN Return(p, "error")
       ELSE /\ quote' = [quote EXCEPT ![p] = f]
            /\ tries' = [tries EXCEPT ![p] = @ + 1]
            /\ UNCHANGED <<pc, hint, result, holder>>
  /\ UNCHANGED <<cardStatus, books, chain, sweep, crashes>>

\* An await before the booking fails: a network error, a dry run that reverts, or
\* a revert that names the card's expiry ("dead").
Abort(p) ==
  /\ pc[p] \in {"fee", "estimate"}
  /\ \E res \in (IF pc[p] = "estimate" THEN {"error", "dead"} ELSE {"error"}) : Return(p, res)
  /\ UNCHANGED <<cardStatus, books, chain, sweep, crashes>>

-----------------------------------------------------------------------------
(* Booking.  Validation and insert have no await between them.             *)

\* Mutant of BookRow: a settlement writes the status too.
BookRowAnyKind(p, s) ==
  /\ charge' = [charge EXCEPT ![RowOf(p)] = s]
  /\ feeOf' = [feeOf EXCEPT ![RowOf(p)] = quote[p]]

\* The row as it is once booked: a pay inserts it, a settlement joins its fee.
BookRow(p, s) ==
  /\ charge' = [charge EXCEPT ![RowOf(p)] = IF p \in Pays THEN s ELSE @]
  /\ feeOf' = [feeOf EXCEPT ![RowOf(p)] = quote[p]]

\* Mutant of Claim: no claim is written.
ClaimNothing(p) == UNCHANGED requestId

\* The settle claim, written before the broadcast so that nobody re-drives the row.
Claim(p) ==
  requestId' = [requestId EXCEPT ![RowOf(p)] = IF p \in Settlers THEN "claim" ELSE @]

Overdrawn(p) ==
  /\ pc[p] = "estimate" /\ p \in Pays
  /\ ~Fits(p, quote[p])
  /\ Return(p, "refused")
  /\ UNCHANGED <<cardStatus, books, chain, sweep, crashes>>

\* Mutant of BookAndWait: the budget is not validated again before the insert.
BookAndWaitUnchecked(p) ==
  /\ ViaChain
  /\ pc[p] = "estimate"
  /\ BookRow(p, "pending")
  /\ Goto(p, "block")
  /\ UNCHANGED <<cardStatus, requestId, announced, locals, result, holder, chain, sweep, crashes>>

\* 1Shot lane: the row is booked, then the block number is awaited.
BookAndWait(p) ==
  /\ ViaChain
  /\ pc[p] = "estimate"
  /\ p \in Settlers \/ Fits(p, quote[p])
  /\ BookRow(p, "pending")
  /\ Goto(p, "block")
  /\ UNCHANGED <<cardStatus, requestId, announced, locals, result, holder, chain, sweep, crashes>>

\* Mutant of Recheck: a settlement's row is released too.
RecheckReleases(p) ==
  /\ pc[p] = "block"
  /\ IF Spendable(CardUsed(p))
       THEN /\ Claim(p) /\ Goto(p, "send")
            /\ UNCHANGED <<charge, locals, result, holder>>
       ELSE /\ SetStatus(RowOf(p), "failed")
            /\ Return(p, RefusalOf(CardUsed(p)))
            /\ UNCHANGED requestId
  /\ UNCHANGED <<cardStatus, feeOf, announced, chain, sweep, crashes>>

\* The status of the chain is read again before anything is broadcast.
Recheck(p) ==
  /\ pc[p] = "block"
  /\ IF Spendable(CardUsed(p))
       THEN /\ Claim(p) /\ Goto(p, "send")
            /\ UNCHANGED <<charge, locals, result, holder>>
       ELSE /\ IF p \in Pays THEN SetStatus(RowOf(p), "failed") ELSE UNCHANGED charge
            /\ Return(p, RefusalOf(CardUsed(p)))
            /\ UNCHANGED requestId
  /\ UNCHANGED <<cardStatus, feeOf, announced, chain, sweep, crashes>>

\* The block number cannot be read: the call throws with its row booked.
BlockUnknown(p) ==
  /\ pc[p] = "block"
  /\ Return(p, "error")
  /\ UNCHANGED <<cardStatus, books, chain, sweep, crashes>>

\* Mutant of BookAndSend: the budget is not validated again before the insert.
BookAndSendUnchecked(p) ==
  /\ ~ViaChain
  /\ pc[p] = "estimate"
  /\ IF Spendable(CardUsed(p))
       THEN /\ BookRow(p, "pending") /\ Claim(p) /\ Goto(p, "send")
            /\ UNCHANGED <<locals, result, holder>>
       ELSE /\ BookRow(p, "failed") /\ Return(p, RefusalOf(CardUsed(p)))
            /\ UNCHANGED requestId
  /\ UNCHANGED <<cardStatus, announced, chain, sweep, crashes>>

\* KeeperHub lane: no await between booking and the second status check.
BookAndSend(p) ==
  /\ ~ViaChain
  /\ pc[p] = "estimate"
  /\ p \in Settlers \/ Fits(p, quote[p])
  /\ IF Spendable(CardUsed(p))
       THEN /\ BookRow(p, "pending") /\ Claim(p) /\ Goto(p, "send")
            /\ UNCHANGED <<locals, result, holder>>
       ELSE /\ BookRow(p, "failed") /\ Return(p, RefusalOf(CardUsed(p)))
            /\ UNCHANGED requestId
  /\ UNCHANGED <<cardStatus, announced, chain, sweep, crashes>>

-----------------------------------------------------------------------------
(* The broadcast and the confirmation.                                     *)

\* The executor takes the redemption on; its answer is still on the way.
Broadcast(p) ==
  /\ pc[p] = "send"
  /\ sends' = [sends EXCEPT ![RowOf(p)] = @ + 1]
  /\ fate' = [fate EXCEPT ![RowOf(p)] = "inflight"]
  /\ Goto(p, "sent")
  /\ UNCHANGED <<cardStatus, books, locals, result, holder, interrupted, sweep, crashes>>

\* Mutant of SendReturns: the row records the executor's status, not its id.
SendReturnsStatus(p) ==
  /\ pc[p] = "sent"
  /\ requestId' = [requestId EXCEPT ![RowOf(p)] = hint[p]]
  /\ Goto(p, "poll")
  /\ UNCHANGED <<cardStatus, charge, feeOf, announced, locals, result, holder, chain, sweep, crashes>>

\* send returns a request id and the row records it.
SendReturns(p) ==
  /\ pc[p] = "sent"
  /\ requestId' = [requestId EXCEPT ![RowOf(p)] = "id"]
  /\ hint' = [hint EXCEPT ![p] = "none"]
  /\ Goto(p, "poll")
  /\ UNCHANGED <<cardStatus, charge, feeOf, announced, quote, tries, result, holder, chain, sweep, crashes>>

\* send throws: refused by the executor, or (ambiguously) after it was taken on.
SendThrows(p) ==
  /\ pc[p] = "send" \/ (AmbiguousSend /\ pc[p] = "sent")
  /\ IF p \in Pays THEN SetStatus(RowOf(p), "failed") ELSE UNCHANGED charge
  /\ Return(p, "error")
  /\ UNCHANGED <<cardStatus, feeOf, requestId, announced, chain, sweep, crashes>>

Landed(p) == fate[RowOf(p)] = "landed"

Confirm(p) ==
  /\ SetStatus(RowOf(p), "confirmed")
  /\ Announce(RowOf(p))
  /\ Return(p, "confirmed")
  /\ UNCHANGED <<cardStatus, feeOf, requestId, chain, sweep, crashes>>

\* A reverted redemption releases a pay's budget, never an approved authorization's.
Reverted(p) ==
  /\ SetStatus(RowOf(p), IF p \in Settlers THEN "settlement_unconfirmed" ELSE "failed")
  /\ Return(p, "error")
  /\ UNCHANGED <<cardStatus, feeOf, requestId, announced, chain, sweep, crashes>>

\* 1Shot lane, first half of a poll: the relayer's status.  A 200 ends the poll;
\* a 500 is given for a dropped redemption, or wrongly for one that landed.
PollRelayer(p) ==
  /\ ViaChain /\ pc[p] = "poll"
  /\ \/ Landed(p) /\ Confirm(p)
     \/ /\ \E h \in (IF fate[RowOf(p)] = "inflight" THEN {"110"} ELSE {"110", "500"}) :
             hint' = [hint EXCEPT ![p] = h]
        /\ Goto(p, "logs")
        /\ UNCHANGED <<cardStatus, books, quote, tries, result, holder, chain, sweep, crashes>>

\* Mutant of PollLogs: the relayer's 500 is trusted before the chain is asked.
PollLogsTrusting500(p) ==
  /\ ViaChain /\ pc[p] = "logs"
  /\ \/ Landed(p) /\ Confirm(p)
     \/ hint[p] = "500" /\ Reverted(p)
     \/ /\ hint[p] # "500" /\ ~Landed(p) /\ Goto(p, "poll")
        /\ UNCHANGED <<cardStatus, books, locals, result, holder, chain, sweep, crashes>>

\* Second half: the fee-leg log, which overrides the status, and only then the 500.
PollLogs(p) ==
  /\ ViaChain /\ pc[p] = "logs"
  /\ \/ Landed(p) /\ Confirm(p)
     \/ /\ ~Landed(p) \/ RpcBlips
        /\ \/ hint[p] = "500" /\ Reverted(p)
           \/ /\ hint[p] # "500" /\ Goto(p, "poll")
              /\ UNCHANGED <<cardStatus, books, locals, result, holder, chain, sweep, crashes>>

\* KeeperHub's word on the row's run.  Any terminal status but a success is a 500,
\* whatever has become, or will become, of the transaction the run sent.
Succeeded(r) == fate[r] = "landed" /\ r \notin interrupted
Ended(r) == fate[r] = "dropped" \/ r \in interrupted

\* Mutant of PollKeeperHub: an execution still running is taken for a revert.
PollKeeperHubImpatient(p) ==
  /\ ~ViaChain /\ pc[p] = "poll"
  /\ \/ Succeeded(RowOf(p)) /\ Confirm(p)
     \/ ~Succeeded(RowOf(p)) /\ Reverted(p)

\* KeeperHub lane: the run's status; anything but 200 and 500 is asked again.
PollKeeperHub(p) ==
  /\ ~ViaChain /\ pc[p] = "poll"
  /\ \/ Succeeded(RowOf(p)) /\ Confirm(p)
     \/ Ended(RowOf(p)) /\ Reverted(p)

\* The deadline passes, or getStatus throws: the row stays pending for a sweep.
PollGivesUp(p) ==
  /\ pc[p] = "poll"
  /\ \E res \in (IF ViaChain THEN {"pending", "error"} ELSE {"pending"}) : Return(p, res)
  /\ UNCHANGED <<cardStatus, books, chain, sweep, crashes>>

-----------------------------------------------------------------------------
(* The card-network authorization: decided and booked in one synchronous   *)
(* segment, outside the mutex.  A redelivery finds the row and adds none.  *)

Approves(a) ==
  /\ Spendable(CardOf[a])
  /\ WithinLimits(CardOf[a], Amount[a] + (IF SettlementOn THEN Headroom ELSE 0),
                  Counted, CardOf, Amount, feeOf)

Authorize(a) ==
  /\ charge[a] = "none"
  /\ Approves(a)
  /\ charge' = [charge EXCEPT ![a] = IF SettlementOn THEN "pending" ELSE "confirmed"]
  /\ feeOf' = [feeOf EXCEPT ![a] = IF SettlementOn THEN Headroom ELSE 0]
  /\ requestId' = [requestId EXCEPT ![a] = IF SettlementOn THEN "null" ELSE "id"]
  /\ UNCHANGED <<cardStatus, announced, calls, chain, sweep, crashes>>

-----------------------------------------------------------------------------
(* Reconcile sweeps.                                                       *)

\* Mutant of Aged: the sweep has no cutoff.
AgedAtOnce(r) == TRUE

\* reconcilePending takes rows created before its cutoff, ten minutes.  A row is
\* booked and broadcast at once and polled for 90 seconds, so by then its call has
\* ended and its redemption was mined or dropped; but an authorization's row may
\* be that old before it is broadcast at all (SlowStart).
Aged(r) ==
  \/ SlowStart /\ r \in Auths
  \/ /\ \A p \in Procs : RowOf(p) = r => pc[p] \notin Awaiting
     /\ fate[r] # "inflight"

\* Mutant of Stale: only rows that carry a settle claim are swept.
StaleClaims == {r \in Booked : charge[r] = "pending" /\ requestId[r] = "claim" /\ Aged(r)}

Stale == {r \in Booked : charge[r] = "pending" /\ requestId[r] # "null" /\ Aged(r)}

\* reconcileKeeperHub takes rows with a KeeperHub execution id, a nudged one at any age.
Executing == {r \in Booked : charge[r] = "pending" /\ requestId[r] = "id"}

SweepBegin ==
  /\ ~sweep.on
  /\ LET rows == IF ViaChain THEN Stale ELSE Executing
     IN  rows # {} /\ sweep' = [NoSweep EXCEPT !.on = TRUE, !.rows = rows]
  /\ UNCHANGED <<cardStatus, books, calls, chain, crashes>>

\* Mutant of SweepScan: any transaction counts as the row's fee log.
SweepScanAnyLog ==
  /\ ViaChain /\ sweep.on /\ ~sweep.scanned
  /\ sweep' = [sweep EXCEPT !.scanned = TRUE, !.hits = {r \in sweep.rows : fate[r] # "none"}]
  /\ UNCHANGED <<cardStatus, books, calls, chain, crashes>>

\* The fee logs are read while other calls run: those that went to FEE_COLLECTOR.
SweepScan ==
  /\ ViaChain /\ sweep.on /\ ~sweep.scanned
  /\ sweep' = [sweep EXCEPT !.scanned = TRUE,
                            !.hits = {r \in sweep.rows : fate[r] = "landed" /\ ~StaleCollector}]
  /\ UNCHANGED <<cardStatus, books, calls, chain, crashes>>

\* The head or the logs cannot be read: the rows wait for the next sweep.
SweepFails ==
  /\ ViaChain /\ sweep.on /\ ~sweep.scanned
  /\ sweep' = NoSweep
  /\ UNCHANGED <<cardStatus, books, calls, chain, crashes>>

\* A row whose redemption failed: an authorization keeps its budget.
Released(r) == IF r \in Auths THEN "settlement_unconfirmed" ELSE "failed"

\* Every row of the sweep is settled from the logs read, its status not read again.
\* This sweep is run without an onChargeConfirmed hook.
SweepApply ==
  /\ sweep.scanned
  /\ charge' = [r \in Rows |-> IF r \notin sweep.rows \cap Booked THEN charge[r]
                               ELSE IF r \in sweep.hits THEN "confirmed" ELSE Released(r)]
  /\ sweep' = NoSweep
  /\ UNCHANGED <<cardStatus, feeOf, requestId, announced, calls, chain, crashes>>

RowDone(r) == IF sweep.rows = {r} THEN NoSweep ELSE [sweep EXCEPT !.rows = @ \ {r}]

\* Mutant of SweepAnswer: an execution still running is taken for a failure.
SweepAnswerImpatient(r) ==
  /\ ~ViaChain /\ r \in sweep.rows
  /\ IF Succeeded(r) THEN SetStatus(r, "confirmed") /\ Announce(r)
                     ELSE SetStatus(r, Released(r)) /\ UNCHANGED announced
  /\ sweep' = RowDone(r)
  /\ UNCHANGED <<cardStatus, feeOf, requestId, calls, chain, crashes>>

\* Mutant of SweepAnswer: the hook is not fired.
SweepAnswerQuiet(r) ==
  /\ ~ViaChain /\ r \in sweep.rows
  /\ \/ Succeeded(r) /\ SetStatus(r, "confirmed")
     \/ Ended(r) /\ SetStatus(r, Released(r))
  /\ sweep' = RowDone(r)
  /\ UNCHANGED <<cardStatus, feeOf, requestId, announced, calls, chain, crashes>>

\* One row of the KeeperHub sweep: its status is asked for, and written if it is final.
SweepAnswer(r) ==
  /\ ~ViaChain /\ r \in sweep.rows
  /\ \/ Succeeded(r) /\ SetStatus(r, "confirmed") /\ Announce(r)
     \/ Ended(r) /\ SetStatus(r, Released(r)) /\ UNCHANGED announced
  /\ sweep' = RowDone(r)
  /\ UNCHANGED <<cardStatus, feeOf, requestId, calls, chain, crashes>>

\* Still running, or the status could not be read: the row stays pending.
SweepNoAnswer(r) ==
  /\ ~ViaChain /\ r \in sweep.rows
  /\ sweep' = RowDone(r)
  /\ UNCHANGED <<cardStatus, books, calls, chain, crashes>>

-----------------------------------------------------------------------------
(* The chain, the owner and the process.                                   *)

Mine(r) ==
  /\ fate[r] = "inflight"
  /\ \E f \in {"landed", "dropped"} : fate' = [fate EXCEPT ![r] = f]
  /\ UNCHANGED <<cardStatus, books, calls, sends, interrupted, sweep, crashes>>

\* The run is cancelled, or fails, with its write out; one that was reported a
\* success is over.
Interrupt(r) ==
  /\ RunsInterrupted /\ ~ViaChain
  /\ fate[r] \in {"inflight", "landed"} /\ charge[r] # "confirmed"
  /\ interrupted' = interrupted \cup {r}
  /\ UNCHANGED <<cardStatus, books, calls, sends, fate, sweep, crashes>>

Freeze(c) ==
  /\ cardStatus[c] = "active"
  /\ cardStatus' = [cardStatus EXCEPT ![c] = "frozen"]
  /\ UNCHANGED <<books, calls, chain, sweep, crashes>>

Unfreeze(c) ==
  /\ cardStatus[c] = "frozen"
  /\ cardStatus' = [cardStatus EXCEPT ![c] = "active"]
  /\ UNCHANGED <<books, calls, chain, sweep, crashes>>

\* A confirmed revocation takes the whole subtree down.
Revoke(c) ==
  /\ cardStatus[c] # "revoked"
  /\ cardStatus' = [d \in Cards |-> IF d \in Subtree(c) THEN "revoked" ELSE cardStatus[d]]
  /\ UNCHANGED <<books, calls, chain, sweep, crashes>>

\* The process dies and restarts: the database stays, calls, mutex and sweep go.
Crash ==
  /\ crashes < MaxCrashes
  /\ crashes' = crashes + 1
  /\ pc' = [p \in Procs |-> IF p \in Settlers THEN "idle"
                            ELSE IF pc[p] \in Awaiting THEN "crashed" ELSE pc[p]]
  /\ quote' = [p \in Procs |-> 0]
  /\ tries' = [p \in Procs |-> 0]
  /\ hint' = [p \in Procs |-> "none"]
  /\ holder' = [t \in Trees |-> None]
  /\ sweep' = NoSweep
  /\ UNCHANGED <<cardStatus, books, result, chain>>

-----------------------------------------------------------------------------
CallStep(p) ==
  \/ QuoteFee(p) \/ RaiseFee(p) \/ Abort(p) \/ Overdrawn(p)
  \/ BookAndWait(p) \/ Recheck(p) \/ BlockUnknown(p) \/ BookAndSend(p)
  \/ Broadcast(p) \/ SendReturns(p) \/ SendThrows(p)
  \/ PollRelayer(p) \/ PollLogs(p) \/ PollKeeperHub(p) \/ PollGivesUp(p)

PayStep(p) == Replay(p) \/ PayBegin(p) \/ CallStep(p)

SweepStep ==
  \/ SweepBegin \/ SweepScan \/ SweepFails \/ SweepApply
  \/ \E r \in Rows : SweepAnswer(r) \/ SweepNoAnswer(r)

OwnerStep == \E c \in Cards : Freeze(c) \/ Unfreeze(c) \/ Revoke(c)

Environment == \E r \in Rows : Mine(r) \/ Interrupt(r)

Next ==
  \/ \E p \in Pays : PayStep(p)
  \/ \E a \in Auths : Authorize(a)
  \/ SweepStep \/ OwnerStep \/ Environment \/ Crash

Spec == Init /\ [][Next]_vars

\* Every network call is answered, a poll meets its deadline, the mutex is handed
\* on in turn, the sweep's timer ticks and a redemption is mined or dropped.
Fairness ==
  /\ \A p \in Pays :
       /\ WF_vars(CallStep(p)) /\ SF_vars(PollGivesUp(p))
       /\ SF_vars(PayBegin(p) \/ Replay(p))
  /\ WF_vars(SweepBegin) /\ SF_vars(SweepScan) /\ WF_vars(SweepApply)
  /\ \A r \in Rows :
       WF_vars(Mine(r)) /\ WF_vars(SweepNoAnswer(r)) /\ SF_vars(SweepAnswer(r))

FairSpec == Spec /\ Fairness

-----------------------------------------------------------------------------
(* Properties.                                                             *)

TypeOK ==
  /\ cardStatus \in [Cards -> CardStates]
  /\ charge \in [Rows -> ChargeStates]
  /\ feeOf \in [Rows -> Nat]
  /\ requestId \in [Rows -> {"null", "claim", "id"}]
  /\ announced \in [Rows -> Nat]
  /\ pc \in [Procs -> PcStates]
  /\ quote \in [Procs -> Nat]
  /\ tries \in [Procs -> Nat]
  /\ hint \in [Procs -> {"none", "110", "500"}]
  /\ result \in [Procs -> Results]
  /\ holder \in [Trees -> Procs \cup {None}]
  /\ sends \in [Rows -> Nat]
  /\ fate \in [Rows -> {"none", "inflight", "landed", "dropped"}]
  /\ interrupted \subseteq Rows
  /\ sweep \in [on : BOOLEAN, scanned : BOOLEAN, rows : SUBSET Rows, hits : SUBSET Rows]
  /\ crashes \in Nat

\* No card of the tree is ever booked past its lifetime budget or its number of
\* uses, although authorizations are booked outside the mutex while a payment
\* waits for its estimate (the re-validation before the insert, spend.ts 713-744).
LimitsHeld == LimitsRespected(Counted, CardOf, Amount, feeOf)

\* The check both the payment and the authorization make, as the account sees it.
Allowed(counted, fee, r, f) == WithinLimits(CardOf[r], Amount[r] + f, counted, CardOf, Amount, fee)

Books == INSTANCE Account WITH counted <- Counted, fee <- feeOf, Allows <- Allowed

\* "Budget re-validate + reservation insert as ONE synchronous pair" (spend.ts 713): a row
\* comes to count only by a check against the books of that very moment, and one that was
\* released never counts again, whatever a late confirmation or a sweep writes into it.
ImplementsAccount == Books!Spec

\* Money on its way or gone is counted by the budget: no row is released while its
\* redemption is in flight or has landed (spend.ts 434-458, 836-846, 1054-1073), except
\* a row whose run KeeperHub itself reported as failed with its write out
\* (keeperhub/executor.ts 525-528, 555-557).
MovedIsCounted ==
  \A r \in Rows : fate[r] \in {"inflight", "landed"} => r \in Counted \cup interrupted

\* "same key -> same charge (safe retries)" (server/src/mcp/server.ts 211): calls
\* with one idempotency key on one card move the money at most once.
OneRedemptionPerKey ==
  \A p, q \in Pays :
    /\ p # q /\ KeyOf[p] # NoKey /\ KeyOf[p] = KeyOf[q] /\ CardOf[p] = CardOf[q]
    /\ fate[p] \in {"inflight", "landed"}
    => fate[q] \notin {"inflight", "landed"}

\* The unique index on (card_id, idempotency_key) never refuses an insert
\* (store.ts 173-174): the mutex keeps two calls with one key apart.
KeyBookedOnce ==
  \A p, q \in Booked \cap Pays :
    KeyOf[p] # NoKey /\ KeyOf[p] = KeyOf[q] /\ CardOf[p] = CardOf[q] => p = q

\* The books say confirmed only of a redemption that landed.
ConfirmedLanded ==
  \A r \in Rows : charge[r] = "confirmed" /\ (r \in Pays \/ SettlementOn) => fate[r] = "landed"

\* A confirmed or failed row is final, whichever of the call and the sweeps gets
\* there second; only a failure that never reached the executor is deleted, to be
\* tried again under its key.
FinalStaysFinal ==
  [][\A r \in Rows :
       charge[r] \in {"confirmed", "failed"} /\ charge'[r] # charge[r]
       => Retryable(r) /\ charge'[r] = "deleted"]_vars

\* "no unclaimed fee-leg log since the broadcast block: the redemption never landed"
\* (spend.ts 1070), so the sweep releases no budget that was spent.
ReleasedNeverLanded ==
  [][\A r \in Rows :
       sweep.scanned /\ charge[r] = "pending" /\ charge'[r] = "failed" => fate[r] # "landed"]_vars

\* Every call returns, so every waiter gets the mutex.
CallsReturn == \A p \in Pays : pc[p] = "queued" ~> pc[p] \in {"done", "crashed"}

\* A payment that was broadcast is resolved in the books, by its call or a sweep.
BroadcastResolved ==
  \A p \in Pays : requestId[p] = "id" ~> charge[p] \in {"confirmed", "failed"}

\* "Called once whenever a charge reaches 'confirmed', from ANY path: the inline
\* confirm below and the reconcile sweep both fire it" (spend.ts 112-113): a
\* redemption the books confirm has been announced.
ConfirmedIsAnnounced ==
  \A r \in Rows : charge[r] = "confirmed" /\ sends[r] > 0 => announced[r] > 0

\* The same comment's "once": no confirmation is announced twice.
AnnouncedOnce == \A r \in Rows : announced[r] <= 1
-----------------------------------------------------------------------------
(* The inductive invariant behind the safety properties, by what it is     *)
(* about: the mutex, the payment's row as its call advances, and the sweep. *)

InMutex(p) == pc[p] \in Awaiting => holder[TreeOf(CardOf[p])] = p

\* Before its booking a call has no row, and once begun no rival under its key.
Unbooked(p) ==
  /\ pc[p] \in {"queued", "fee", "estimate"} =>
       charge[p] = "none" /\ requestId[p] = "null" /\ fate[p] = "none"
  /\ pc[p] \in {"fee", "estimate"} => Prior(p) = {}

\* Between booking and request id the row is the call's alone.
Unsent(p) ==
  /\ pc[p] \in {"block", "send", "sent"} => charge[p] = "pending" /\ requestId[p] = "null"
  /\ pc[p] \in {"block", "send"} => fate[p] = "none"

\* Once a request id is recorded the executor has the redemption.
Issued(p) ==
  /\ requestId[p] \in {"null", "id"}
  /\ pc[p] = "sent" \/ requestId[p] = "id" => fate[p] # "none"
  /\ requestId[p] = "id" => p \in Booked
  /\ pc[p] \in {"poll", "logs"} => requestId[p] = "id"
  /\ pc[p] = "logs" /\ hint[p] = "500" => fate[p] # "inflight"

Follows(p) == InMutex(p) /\ Unbooked(p) /\ Unsent(p) /\ Issued(p)

\* The sweep has only payments that were sent; on the 1Shot lane their fate is settled.
SweptRows ==
  /\ sweep.scanned => ViaChain
  /\ \A r \in sweep.rows \cap Pays :
       /\ requestId[r] = "id"
       /\ ViaChain => fate[r] \in {"landed", "dropped"}
       /\ sweep.scanned => (r \in sweep.hits <=> fate[r] = "landed" /\ ~StaleCollector)

\* A payment's row, the call that owns it and the sweep that visits it keep in step: only
\* the call writes the row until the request id is recorded (spend.ts 711-815), whatever
\* sweeps, restarts and other calls do meanwhile.
PaysInStep == (\A p \in Pays : Follows(p)) /\ SweptRows

\* Without settlers an authorization stays as the webhook booked it.
AuthsWait ==
  \A a \in Auths :
    /\ fate[a] = "none" /\ a \notin sweep.rows
    /\ charge[a] \in {"none", IF SettlementOn THEN "pending" ELSE "confirmed"}
    /\ SettlementOn => requestId[a] = "null"

RowsFollowCalls == PaysInStep /\ AuthsWait

\* Without ambiguous sends a row with a redemption is kept.
SentIsBooked ==
  \A p \in Pays : fate[p] # "none" =>
    p \in Booked /\ (requestId[p] = "null" => charge[p] = "pending")

\* The books agree with the chain, as far as KeeperHub's word on a run does.
BooksAgree ==
  /\ ViaChain => interrupted = {}
  /\ \A p \in Pays : charge[p] = "confirmed" => fate[p] = "landed" /\ p \notin interrupted
  /\ \A p \in Pays : charge[p] = "failed" => fate[p] \in {"none", "dropped"} \/ p \in interrupted
=============================================================================
