-------------------------------- MODULE X402 --------------------------------
(***************************************************************************)
(* Paying an HTTP resource: the paid_fetch tool (server/src/mcp/server.ts),*)
(* the payload and the reservation it carves (engine/src/x402.ts), the     *)
(* seller's facilitator, which settles the payload on-chain                *)
(* (server/src/facilitator/routes.ts), and the sweep that frees            *)
(* reservations nobody finalized (engine/src/spend.ts, reconcilePending).  *)
(*                                                                         *)
(* A fetch f books row f.  Only the building of its payload is inside the  *)
(* tree's mutex section; the retry with the payload is one HTTP request    *)
(* that may fail, or answer without a receipt, at any point of the         *)
(* settlements it set off: whoever was shown the payload may have it       *)
(* settled again, and the leaf only caps what all its redemptions take     *)
(* together.  Auths are card-network authorizations, which the webhook     *)
(* books on the same cards without the mutex.                              *)
(*                                                                         *)
(* The sweep runs on a 1Shot deployment only (OneShot, server/src/         *)
(* keeperhub/sweeps.ts); the rest is the same for both executors.  A       *)
(* redemption is known by its fee, which the jitter sets apart from the    *)
(* payload's other redemptions.                                            *)
(***************************************************************************)
EXTENDS Ledger

CONSTANTS
  Fetches,       \* paid_fetch calls that met a payable challenge
  Auths,         \* card-network authorizations
  CardOf,        \* CardOf[r]: the card row r is charged to
  Amount,        \* Amount[r]: its price in atoms
  Fees,          \* the fees the relayer may ask, jitter included
  FeeHeadroom,   \* X402_FEE_HEADROOM_ATOMS
  AuthHeadroom,  \* fee headroom an authorization reserves
  Rounds,        \* rounds of the facilitator's estimate loop
  OneShot,       \* deployment: the executor is 1Shot, so the orphan sweep runs
  SigningRaces,  \* environment: webhook and owner act while a payload is being signed
  MaxCrashes,    \* bound: restarts of the server process
  None

Rows == Fetches \cup Auths

ASSUME X402Assumption ==
  /\ Fetches \cap Auths = {}
  /\ CardOf \in [Rows -> Cards]
  /\ Amount \in [Rows -> Nat]
  /\ Fees \subseteq Nat /\ FeeHeadroom \in Nat /\ AuthHeadroom \in Nat
  /\ Rounds \in Nat \ {0} /\ MaxCrashes \in Nat
  /\ {OneShot, SigningRaces} \subseteq BOOLEAN
  /\ None \notin Fetches

VARIABLES
  cardStatus,  \* cards.status
  charge,      \* charges.status; "none": no row yet
  feeOf,       \* charges.fee_atoms: the headroom, then what the receipt reports
  pc,          \* where each fetch stands
  holder,      \* the fetch inside each tree's mutex section
  fac,         \* where the facilitator stands with the fetch's payload
  quote,       \* the fee the facilitator redeems with
  round,       \* its estimate rounds so far
  out,         \* fees of the payload's redemptions on their way
  landed,      \* fees of those that landed
  moved,       \* atoms they took from the account, prices and fees
  receipts,    \* fees of the settlements reported while the fetch waits for its answer
  crashes

books == <<charge, feeOf>>
buyer == <<pc, holder>>
facilitator == <<fac, quote, round>>
redemptions == <<out, landed, moved>>
vars == <<cardStatus, books, buyer, facilitator, redemptions, receipts, crashes>>

CardStates == {"active", "frozen", "revoked"}
ChargeStates == {"none", "pending", "confirmed", "failed", "settlement_unconfirmed"}
PcStates == {"queued", "signing", "retry", "done", "crashed"}
FacStates == {"idle", "estimate", "confirm"}

TreeUsed(f) == TreeOf(CardOf[f])
Trees == {TreeOf(c) : c \in Cards}

Counted == {r \in Rows : charge[r] \notin {"none", "failed"}}
Fits(r, headroom) == WithinLimits(CardOf[r], Amount[r] + headroom, Counted, CardOf, Amount, feeOf)
Spendable(c) == \A a \in Ancestors[c] : cardStatus[a] = "active"

\* The tree has no payload between its checks and its reservation.
Quiet(c) == SigningRaces \/ holder[TreeOf(c)] = None

Init ==
  /\ cardStatus = [c \in Cards |-> "active"]
  /\ charge = [r \in Rows |-> "none"]
  /\ feeOf = [r \in Rows |-> 0]
  /\ pc = [f \in Fetches |-> "queued"]
  /\ holder = [t \in Trees |-> None]
  /\ fac = [f \in Fetches |-> "idle"]
  /\ quote = [f \in Fetches |-> 0]
  /\ round = [f \in Fetches |-> 0]
  /\ out = [f \in Fetches |-> {}]
  /\ landed = [f \in Fetches |-> {}]
  /\ moved = [f \in Fetches |-> 0]
  /\ receipts = [f \in Fetches |-> {}]
  /\ crashes = 0

-----------------------------------------------------------------------------
(* The buyer.                                                              *)

\* Mutant of Turn: payloads are built without waiting for the mutex.
TurnAtOnce(f) == pc[f] = "queued"

Turn(f) == pc[f] = "queued" /\ holder[TreeUsed(f)] = None

Refuse(f) ==
  /\ Turn(f)
  /\ ~(Spendable(CardOf[f]) /\ Fits(f, FeeHeadroom))
  /\ pc' = [pc EXCEPT ![f] = "done"]
  /\ UNCHANGED <<cardStatus, books, holder, facilitator, redemptions, receipts, crashes>>

\* The card's status, uses and budget are checked, then the leaf is signed.
Check(f) ==
  /\ Turn(f)
  /\ Spendable(CardOf[f]) /\ Fits(f, FeeHeadroom)
  /\ pc' = [pc EXCEPT ![f] = "signing"]
  /\ holder' = [holder EXCEPT ![TreeUsed(f)] = f]
  /\ UNCHANGED <<cardStatus, books, facilitator, redemptions, receipts, crashes>>

\* After the signature the reservation is booked as it was checked, nothing is
\* read again; the section ends and the request is retried with the payload.
Reserve(f) ==
  /\ pc[f] = "signing"
  /\ charge' = [charge EXCEPT ![f] = "pending"]
  /\ feeOf' = [feeOf EXCEPT ![f] = FeeHeadroom]
  /\ pc' = [pc EXCEPT ![f] = "retry"]
  /\ holder' = [holder EXCEPT ![TreeUsed(f)] = None]
  /\ UNCHANGED <<cardStatus, facilitator, redemptions, receipts, crashes>>

\* finalizeX402Charge: an UPDATE by id, whatever the row says.
Finalize(f, status, fee) ==
  /\ charge' = [charge EXCEPT ![f] = status]
  /\ feeOf' = [feeOf EXCEPT ![f] = fee]
  /\ pc' = [pc EXCEPT ![f] = "done"]
  /\ receipts' = [receipts EXCEPT ![f] = {}]
  /\ UNCHANGED <<cardStatus, holder, facilitator, redemptions, crashes>>

\* A receipt that names a transaction; the fee is 0 where the seller left the fee
\* extension out or it is not a number.
AnswerPaid(f) ==
  /\ pc[f] = "retry" /\ receipts[f] # {}
  /\ \E fee \in receipts[f] \cup {0} : Finalize(f, "confirmed", fee)

\* 200 without a receipt, with one that does not decode, or one without a hash.
AnswerBare(f) ==
  /\ pc[f] = "retry"
  /\ \E fee \in receipts[f] \cup {0} : Finalize(f, "settlement_unconfirmed", fee)

\* Mutant of AnswerFails: a request that throws leaves its reservation.
AnswerThrows(f) ==
  /\ pc[f] = "retry"
  /\ Finalize(f, "pending", feeOf[f])

\* The request throws or the seller rejects it.
AnswerFails(f) ==
  /\ pc[f] = "retry"
  /\ Finalize(f, "failed", feeOf[f])

-----------------------------------------------------------------------------
(* The facilitator: verifyX402 and settleX402 on the payload it was shown. *)

Fac(f, s) == fac' = [fac EXCEPT ![f] = s]

\* The request for a settlement is answered, or gone.
Over(f) ==
  /\ Fac(f, "idle")
  /\ quote' = [quote EXCEPT ![f] = 0]
  /\ round' = [round EXCEPT ![f] = 0]

\* A fee the jitter has not given a redemption of this payload yet.
Fresh(f) == Fees \ (out[f] \cup landed[f])

\* Whoever was shown the payload may have it settled, at any time and again.  It
\* verifies and the relayer quotes its minimum.
FacReceive(f) ==
  /\ charge[f] # "none" /\ fac[f] = "idle"
  /\ Fac(f, "estimate")
  /\ \E fee \in Fresh(f) : quote' = [quote EXCEPT ![f] = fee]
  /\ UNCHANGED <<cardStatus, books, buyer, round, redemptions, receipts, crashes>>

\* A failed call or simulation, or the loop is exhausted.
FacReject(f) ==
  /\ fac[f] = "estimate"
  /\ Over(f)
  /\ UNCHANGED <<cardStatus, books, buyer, redemptions, receipts, crashes>>

\* The relayer asks for more: carve another round.
FacRaise(f) ==
  /\ fac[f] = "estimate" /\ round[f] + 1 < Rounds
  /\ \E fee \in Fresh(f) : fee > quote[f] /\ quote' = [quote EXCEPT ![f] = fee]
  /\ round' = [round EXCEPT ![f] = @ + 1]
  /\ UNCHANGED <<cardStatus, books, buyer, fac, redemptions, receipts, crashes>>

\* The leaf's allowance (Erc20TransferAmount) is price and headroom, for all its
\* redemptions together.
LeafAllows(f, fee) == moved[f] + (Amount[f] + fee) <= Amount[f] + FeeHeadroom

\* The simulation passes on the chain as it is and the relayer takes the redemption
\* on; its answer may be lost.
FacSend(f) ==
  /\ fac[f] = "estimate" /\ LeafAllows(f, quote[f])
  /\ out' = [out EXCEPT ![f] = @ \cup {quote[f]}]
  /\ (Fac(f, "confirm") /\ UNCHANGED <<quote, round>>) \/ Over(f)
  /\ UNCHANGED <<cardStatus, books, buyer, landed, moved, receipts, crashes>>

\* The settlement is reported with the fee it was redeemed with, for the seller's answer.
Report(f) == pc[f] = "retry" /\ receipts' = [receipts EXCEPT ![f] = @ \cup {quote[f]}]

\* Mutant of FacConfirm: a redemption that is still pending counts as settled.
FacConfirmAny(f) ==
  /\ fac[f] = "confirm"
  /\ Report(f) \/ UNCHANGED receipts
  /\ Over(f)
  /\ UNCHANGED <<cardStatus, books, buyer, redemptions, crashes>>

\* A settlement is reported only for a redemption seen on-chain; a 500, a failed
\* query or the end of the wait rejects, whatever becomes of it later.
FacConfirm(f) ==
  /\ fac[f] = "confirm"
  /\ (quote[f] \in landed[f] /\ Report(f)) \/ UNCHANGED receipts
  /\ Over(f)
  /\ UNCHANGED <<cardStatus, books, buyer, redemptions, crashes>>

\* A redemption lands if the leaf still lets it.
Land(f, fee) ==
  /\ LeafAllows(f, fee)
  /\ landed' = [landed EXCEPT ![f] = @ \cup {fee}]
  /\ moved' = [moved EXCEPT ![f] = @ + (Amount[f] + fee)]

Mine(f) ==
  /\ \E fee \in out[f] :
       /\ out' = [out EXCEPT ![f] = @ \ {fee}]
       /\ Land(f, fee) \/ UNCHANGED <<landed, moved>>
  /\ UNCHANGED <<cardStatus, books, buyer, facilitator, receipts, crashes>>

-----------------------------------------------------------------------------
(* The rest of the server.                                                 *)

\* The authorization webhook decides and books in one go.
Authorize(a) ==
  /\ charge[a] = "none" /\ Quiet(CardOf[a])
  /\ Spendable(CardOf[a]) /\ Fits(a, AuthHeadroom)
  /\ charge' = [charge EXCEPT ![a] = "pending"]
  /\ feeOf' = [feeOf EXCEPT ![a] = AuthHeadroom]
  /\ UNCHANGED <<cardStatus, buyer, facilitator, redemptions, receipts, crashes>>

\* Mutant of Orphan: the sweep does not wait for the reservation to age.
OrphanAtOnce(f) == charge[f] = "pending"

\* Pending for an hour: no request stays open that long, so its fetch is gone.
Orphan(f) == charge[f] = "pending" /\ pc[f] = "crashed"

\* runRecovery asks reconcilePending for it on a 1Shot deployment only (sweeps.ts 41-43).
FreeOrphans ==
  /\ OneShot
  /\ \E f \in Fetches : Orphan(f)
  /\ charge' = [r \in Rows |->
                  IF r \in Fetches /\ Orphan(r) THEN "failed" ELSE charge[r]]
  /\ UNCHANGED <<cardStatus, feeOf, buyer, facilitator, redemptions, receipts, crashes>>

Freeze(c) ==
  /\ cardStatus[c] = "active" /\ Quiet(c)
  /\ cardStatus' = [cardStatus EXCEPT ![c] = "frozen"]
  /\ UNCHANGED <<books, buyer, facilitator, redemptions, receipts, crashes>>

Unfreeze(c) ==
  /\ cardStatus[c] = "frozen"
  /\ cardStatus' = [cardStatus EXCEPT ![c] = "active"]
  /\ UNCHANGED <<books, buyer, facilitator, redemptions, receipts, crashes>>

\* A restart: requests and mutex go, the facilitator's work with them.
Crash ==
  /\ crashes < MaxCrashes
  /\ crashes' = crashes + 1
  /\ pc' = [f \in Fetches |-> IF pc[f] \in {"signing", "retry"} THEN "crashed" ELSE pc[f]]
  /\ holder' = [t \in Trees |-> None]
  /\ fac' = [f \in Fetches |-> "idle"]
  /\ quote' = [f \in Fetches |-> 0]
  /\ round' = [f \in Fetches |-> 0]
  /\ receipts' = [f \in Fetches |-> {}]
  /\ UNCHANGED <<cardStatus, books, redemptions>>

-----------------------------------------------------------------------------
Answer(f) == AnswerPaid(f) \/ AnswerBare(f) \/ AnswerFails(f)

Buy(f) == Refuse(f) \/ Check(f) \/ Reserve(f) \/ Answer(f)

Settle(f) ==
  \/ FacReceive(f) \/ FacReject(f) \/ FacRaise(f) \/ FacSend(f) \/ FacConfirm(f)

Next ==
  \/ \E f \in Fetches : Buy(f) \/ Settle(f) \/ Mine(f)
  \/ \E a \in Auths : Authorize(a)
  \/ \E c \in Cards : Freeze(c) \/ Unfreeze(c)
  \/ FreeOrphans \/ Crash

Spec == Init /\ [][Next]_vars

\* The mutex is handed on in turn, a signature and a request end, and on a 1Shot
\* deployment the sweep ticks.
Fairness ==
  /\ \A f \in Fetches :
       /\ SF_vars(Refuse(f) \/ Check(f)) /\ WF_vars(Reserve(f)) /\ WF_vars(Answer(f))
  /\ WF_vars(FreeOrphans)

FairSpec == Spec /\ Fairness

-----------------------------------------------------------------------------
(* Properties.                                                             *)

TypeOK ==
  /\ cardStatus \in [Cards -> CardStates]
  /\ charge \in [Rows -> ChargeStates]
  /\ feeOf \in [Rows -> Nat]
  /\ pc \in [Fetches -> PcStates]
  /\ holder \in [Trees -> Fetches \cup {None}]
  /\ fac \in [Fetches -> FacStates]
  /\ quote \in [Fetches -> Nat]
  /\ round \in [Fetches -> 0..Rounds]
  /\ out \in [Fetches -> SUBSET Fees]
  /\ landed \in [Fetches -> SUBSET Fees]
  /\ moved \in [Fetches -> Nat]
  /\ receipts \in [Fetches -> SUBSET Fees]
  /\ crashes \in 0..MaxCrashes

\* "A pending charge RESERVES budget at carve time (amount + fee headroom) so
\* concurrent spends can't overdraw between carve and settle" (x402.ts 10-12):
\* reservations, receipts and authorizations together stay within every card.
BudgetHeld == LimitsRespected(Counted, CardOf, Amount, feeOf)

\* While a reservation is pending it covers all the payload's redemptions took, fees
\* and repeated settlements included.  "A settlement is confirmed only with an on-chain
\* tx" (x402.ts 144-147): a confirmed row stands for a redemption that landed, a fee it
\* books is that redemption's, and where the payload was settled once and its fee was
\* reported the row covers what left the account.
BookedCoversPaid ==
  \A f \in Fetches :
    /\ charge[f] = "pending" => moved[f] <= Amount[f] + feeOf[f]
    /\ charge[f] = "confirmed" =>
         /\ landed[f] # {}
         /\ feeOf[f] # 0 => feeOf[f] \in landed[f]
         /\ landed[f] = {feeOf[f]} => moved[f] <= Amount[f] + feeOf[f]

\* The unconditional UPDATE of finalizeX402Charge (x402.ts 135-153) and the sweep
\* (spend.ts 993-996) never write the same reservation: a final row stays as it is.
FinalizedOnce ==
  [][\A f \in Fetches :
       charge[f] \notin {"none", "pending"} =>
         charge'[f] = charge[f] /\ feeOf'[f] = feeOf[f]]_vars

\* "ANY throw before finalizeX402Charge would leave the charge stuck 'pending',
\* permanently holding budget" (mcp/server.ts 288-291): every reservation is
\* resolved, by its fetch or, after a restart on a 1Shot deployment, by the sweep.
ReservationResolved ==
  \A f \in Fetches : charge[f] = "pending" ~> charge[f] # "pending"
=============================================================================
