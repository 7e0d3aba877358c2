----------------------------- MODULE SpendProofs -----------------------------
(***************************************************************************)
(* What the modules Spend and Settlement promise, proved for every set of  *)
(* cards, calls, drivers and fees and for every lane.                      *)
(***************************************************************************)
EXTENDS Settlement, FiniteSetTheorems, TLAPS

USE SpendAssumption

\* What a call reads and writes has the types of the state.
LEMMA CallTypes ==
  ASSUME NEW p \in Pays
  PROVE  /\ p \in Rows /\ p \in Procs /\ RowOf(p) = p
         /\ CardUsed(p) = CardOf[p] /\ CardOf[p] \in Cards
         /\ TreeOf(CardOf[p]) \in Trees /\ p \notin Settlers /\ p # None
  BY DEF Rows, Procs, RowOf, CardUsed, Trees

\* So has a settlement call.
LEMMA ProcTypes ==
  ASSUME NEW p \in Procs
  PROVE  /\ RowOf(p) \in Rows /\ CardUsed(p) \in Cards
         /\ TreeOf(CardUsed(p)) \in Trees /\ p # None
  BY DEF Rows, Procs, RowOf, CardUsed, Trees

\* The initial state has the types of the state.
LEMMA InitTypes == Init => TypeOK
  BY DEF Init, TypeOK, Rows, Procs, Trees, CardStates, ChargeStates, PcStates,
         Results, NoSweep, Awaiting

\* A return keeps the types of what it writes.
LEMMA ReturnTypes ==
  ASSUME TypeOK, NEW p \in Procs, NEW res \in Results, Return(p, res)
  PROVE  /\ pc' \in [Procs -> PcStates] /\ quote' \in [Procs -> Nat]
         /\ tries' \in [Procs -> Nat] /\ hint' \in [Procs -> {"none", "110", "500"}]
         /\ result' \in [Procs -> Results] /\ holder' \in [Trees -> Procs \cup {None}]
  BY ProcTypes DEF TypeOK, Return, Goto, PcStates

\* So does a status update.
LEMMA SetStatusTypes ==
  ASSUME TypeOK, NEW r \in Rows, NEW s \in ChargeStates, SetStatus(r, s)
  PROVE  charge' \in [Rows -> ChargeStates]
  BY DEF TypeOK, SetStatus

\* A refusal is one of the results a call may have.
LEMMA RefusalTypes == \A c \in Cards : RefusalOf(c) \in Results
  BY DEF RefusalOf, Results

-----------------------------------------------------------------------------
(* Types.                                                                  *)

\* Every step of a call keeps the types.
LEMMA CallStepTypes ==
  ASSUME TypeOK, NEW p \in Procs, CallStep(p)
  PROVE  TypeOK'
<1> USE ProcTypes
<1>1. CASE QuoteFee(p)
  BY <1>1, ReturnTypes DEF QuoteFee, TypeOK, Goto, PcStates, Awaiting, Results, books, chain
<1>2. CASE RaiseFee(p)
  BY <1>2, ReturnTypes DEF RaiseFee, TypeOK, Results, books, chain
<1>3. CASE Abort(p)
  BY <1>3, ReturnTypes DEF Abort, TypeOK, Results, books, chain
<1>4. CASE Overdrawn(p)
  BY <1>4, ReturnTypes DEF Overdrawn, TypeOK, Results, books, chain
<1>5. CASE BookAndWait(p)
  BY <1>5 DEF BookAndWait, BookRow, TypeOK, Goto, PcStates, Awaiting, ChargeStates, locals, chain
<1>6. CASE Recheck(p)
  <2>1. CASE Spendable(CardUsed(p))
    BY <1>6, <2>1 DEF Recheck, Claim, TypeOK, Goto, PcStates, Awaiting, locals, chain
  <2>2. CASE ~Spendable(CardUsed(p))
    BY <1>6, <2>2, ReturnTypes, RefusalTypes, SetStatusTypes
       DEF Recheck, TypeOK, ChargeStates, chain
  <2> QED BY <2>1, <2>2
<1>7. CASE BlockUnknown(p)
  BY <1>7, ReturnTypes DEF BlockUnknown, TypeOK, Results, books, chain
<1>8. CASE BookAndSend(p)
  <2>1. CASE Spendable(CardUsed(p))
    BY <1>8, <2>1 DEF BookAndSend, BookRow, Claim, TypeOK, Goto, PcStates, Awaiting,
                       ChargeStates, locals, chain
  <2>2. CASE ~Spendable(CardUsed(p))
    BY <1>8, <2>2, ReturnTypes, RefusalTypes DEF BookAndSend, BookRow, TypeOK, ChargeStates, chain
  <2> QED BY <2>1, <2>2
<1>9. CASE Broadcast(p)
  BY <1>9 DEF Broadcast, TypeOK, Goto, PcStates, Awaiting, books, locals
<1>10. CASE SendReturns(p)
  BY <1>10 DEF SendReturns, TypeOK, Goto, PcStates, Awaiting, chain
<1>11. CASE SendThrows(p)
  BY <1>11, ReturnTypes, SetStatusTypes DEF SendThrows, TypeOK, Results, ChargeStates, chain
<1>12. ASSUME Confirm(p) PROVE TypeOK'
  BY <1>12, ReturnTypes, SetStatusTypes DEF Confirm, Announce, TypeOK, Results, ChargeStates, chain
<1>13. ASSUME Reverted(p) PROVE TypeOK'
  BY <1>13, ReturnTypes, SetStatusTypes DEF Reverted, TypeOK, Results, ChargeStates, chain
<1>14. CASE PollRelayer(p)
  BY <1>14, <1>12 DEF PollRelayer, TypeOK, Goto, PcStates, Awaiting, books, chain
<1>15. CASE PollLogs(p)
  BY <1>15, <1>12, <1>13 DEF PollLogs, TypeOK, Goto, PcStates, Awaiting, books, locals, chain
<1>16. CASE PollKeeperHub(p)
  BY <1>16, <1>12, <1>13 DEF PollKeeperHub
<1>17. CASE PollGivesUp(p)
  BY <1>17, ReturnTypes DEF PollGivesUp, TypeOK, Results, books, chain
<1> QED
  BY <1>1, <1>2, <1>3, <1>4, <1>5, <1>6, <1>7, <1>8, <1>9, <1>10, <1>11,
     <1>14, <1>15, <1>16, <1>17 DEF CallStep

\* Every step of a payment keeps the types.
LEMMA PayStepTypes ==
  ASSUME TypeOK, NEW p \in Pays, PayStep(p)
  PROVE  TypeOK'
<1> USE CallTypes
<1>1. CASE Replay(p)
  BY <1>1 DEF Replay, TypeOK, Goto, PcStates, Results, books, locals, chain
<1>2. CASE PayBegin(p)
  <2>1. charge' \in [Rows -> ChargeStates]
    BY <1>2 DEF PayBegin, ClearPrior, TypeOK, ChargeStates
  <2>2. /\ pc' \in [Procs -> PcStates] /\ result' \in [Procs -> Results]
        /\ holder' \in [Trees -> Procs \cup {None}]
    BY <1>2, RefusalTypes DEF PayBegin, TypeOK, Goto, PcStates, Awaiting
  <2> QED BY <1>2, <2>1, <2>2 DEF PayBegin, TypeOK, locals, chain
<1>3. CASE CallStep(p)
  BY <1>3, CallStepTypes
<1> QED BY <1>1, <1>2, <1>3 DEF PayStep

\* The steps of the sweeps, the webhook, the owner, the chain and a restart do too.
LEMMA OtherStepTypes ==
  ASSUME TypeOK, (\E a \in Auths : Authorize(a)) \/ SweepStep \/ OwnerStep \/ Environment \/ Crash
  PROVE  TypeOK'
<1>1. ASSUME NEW a \in Auths, Authorize(a) PROVE TypeOK'
  BY <1>1 DEF Authorize, TypeOK, Rows, ChargeStates, calls, locals, chain
<1>2. CASE SweepBegin
  BY <1>2 DEF SweepBegin, NoSweep, Stale, Executing, Booked, TypeOK, books, calls, locals, chain
<1>3. CASE SweepScan
  BY <1>3 DEF SweepScan, TypeOK, books, calls, locals, chain
<1>4. CASE SweepApply
  BY <1>4 DEF SweepApply, Released, NoSweep, TypeOK, ChargeStates, calls, locals, chain
<1>5. ASSUME NEW r \in Rows, SweepAnswer(r) \/ SweepNoAnswer(r) PROVE TypeOK'
  <2>1. RowDone(r) \in [on : BOOLEAN, scanned : BOOLEAN, rows : SUBSET Rows, hits : SUBSET Rows]
    BY DEF RowDone, NoSweep, TypeOK
  <2>2. Released(r) \in ChargeStates
    BY DEF Released, ChargeStates
  <2>3. CASE SweepAnswer(r)
    BY <2>1, <2>2, <2>3, SetStatusTypes
       DEF SweepAnswer, Announce, ChargeStates, TypeOK, calls, locals, chain
  <2>4. CASE SweepNoAnswer(r)
    BY <2>1, <2>4 DEF SweepNoAnswer, TypeOK, books, calls, locals, chain
  <2> QED BY <1>5, <2>3, <2>4
<1>6. CASE OwnerStep
  BY <1>6 DEF OwnerStep, Freeze, Unfreeze, Revoke, CardStates, TypeOK, books, calls, locals, chain
<1>7. CASE Environment
  BY <1>7 DEF Environment, Mine, Interrupt, TypeOK, books, calls, locals
<1>8. CASE Crash
  BY <1>8 DEF Crash, NoSweep, PcStates, TypeOK, books, chain
<1>9. CASE SweepFails
  BY <1>9 DEF SweepFails, NoSweep, TypeOK, books, calls, locals, chain
<1> QED BY <1>1, <1>2, <1>3, <1>4, <1>5, <1>6, <1>7, <1>8, <1>9 DEF SweepStep

\* Every step keeps the types.
LEMMA StepTypes == TypeOK /\ [Next]_vars => TypeOK'
<1> SUFFICES ASSUME TypeOK, [Next]_vars PROVE TypeOK'
  OBVIOUS
<1>1. CASE Next
  BY <1>1, PayStepTypes, OtherStepTypes DEF Next
<1>2. CASE UNCHANGED vars
  BY <1>2 DEF vars, books, calls, locals, chain, TypeOK
<1> QED BY <1>1, <1>2

\* Every variable keeps its type: a status, a request id or a fee is never anything
\* but what the schema and the code's unions allow (store.ts 150-175).
THEOREM TypesHold == Spec => []TypeOK
  BY InitTypes, StepTypes, PTL DEF Spec

-----------------------------------------------------------------------------
(* The inductive invariant.                                                *)

\* A step of call p that touches nothing of the other calls and rows.
OnlyCall(p) ==
  /\ \A q \in Pays \ {p} :
       /\ pc'[q] = pc[q] /\ hint'[q] = hint[q]
       /\ holder[TreeOf(CardOf[q])] = q => holder'[TreeOf(CardOf[q])] = q
  /\ \A r \in Rows \ {p} :
       charge'[r] = charge[r] /\ requestId'[r] = requestId[r] /\ fate'[r] = fate[r]
  /\ UNCHANGED sweep

\* Such a step keeps the invariant if the call and its own row stay in step.
LEMMA OwnStep ==
  ASSUME TypeOK, PaysInStep, NEW p \in Pays, pc[p] \in Awaiting,
         OnlyCall(p), Follows(p)',
         p \in sweep.rows => fate'[p] = fate[p] /\ requestId'[p] = requestId[p]
  PROVE  PaysInStep'
<1> USE CallTypes
<1>1. ASSUME NEW q \in Pays, q # p PROVE Follows(q)'
  <2>1. InMutex(q)'
    BY <1>1 DEF PaysInStep, Follows, InMutex, OnlyCall
  <2>2. ASSUME pc[q] \in {"fee", "estimate"} PROVE Prior(q)' = {}
    <3>1. CardOf[q] # CardOf[p]
      BY <1>1, <2>2 DEF PaysInStep, Follows, InMutex, Awaiting
    <3> QED BY <1>1, <2>2, <3>1 DEF PaysInStep, Follows, Unbooked, OnlyCall, Prior, Booked, Rows
  <2>3. Unbooked(q)'
    BY <1>1, <2>2 DEF PaysInStep, Follows, Unbooked, OnlyCall
  <2>4. Unsent(q)'
    BY <1>1 DEF PaysInStep, Follows, Unsent, OnlyCall
  <2>5. Issued(q)'
    BY <1>1 DEF PaysInStep, Follows, Issued, OnlyCall, Booked, Rows
  <2> QED BY <2>1, <2>3, <2>4, <2>5 DEF Follows
<1>2. SweptRows'
  BY DEF PaysInStep, SweptRows, OnlyCall, Rows
<1> QED BY <1>1, <1>2 DEF PaysInStep

\* What a return leaves behind.
LEMMA ReturnEffect ==
  ASSUME TypeOK, PaysInStep, NEW p \in Pays, NEW res, pc[p] \in Awaiting, Return(p, res)
  PROVE  /\ pc'[p] = "done"
         /\ \A q \in Pays \ {p} :
              /\ pc'[q] = pc[q] /\ hint'[q] = hint[q]
              /\ holder[TreeOf(CardOf[q])] = q => holder'[TreeOf(CardOf[q])] = q
<1>1. holder[TreeOf(CardOf[p])] = p
  BY DEF PaysInStep, Follows, InMutex
<1> QED BY <1>1, CallTypes DEF Return, Goto, TypeOK

\* A call that returns keeps the invariant: of its row only status, fee and request id
\* matter, and those it has already settled.
LEMMA ReturnFollows ==
  ASSUME TypeOK, PaysInStep, NEW p \in Pays, NEW res, pc[p] \in Awaiting, Return(p, res),
         UNCHANGED <<requestId, fate, sweep>>,
         \A r \in Rows \ {p} : charge'[r] = charge[r],
         p \in Booked => charge'[p] \notin {"none", "deleted"}
  PROVE  PaysInStep'
<1>1. OnlyCall(p)
  BY ReturnEffect DEF OnlyCall
<1>2. Follows(p)'
  BY ReturnEffect, CallTypes
     DEF PaysInStep, Follows, InMutex, Unbooked, Unsent, Issued, Awaiting, Booked, Rows
<1> QED BY <1>1, <1>2, OwnStep

\* A status update touches one row and never books one.
LEMMA SetStatusEffect ==
  ASSUME TypeOK, NEW p \in Rows, NEW s \in ChargeStates \ {"none", "deleted"}, SetStatus(p, s)
  PROVE  /\ \A r \in Rows \ {p} : charge'[r] = charge[r]
         /\ p \in Booked => charge'[p] = s
         /\ p \notin Booked => charge' = charge
  BY DEF SetStatus, TypeOK, Booked

\* Before its first await a call enters the mutex with no rival booked.
LEMMA BeginFollows ==
  ASSUME TypeOK, PaysInStep, NEW p \in Pays, PayBegin(p)
  PROVE  PaysInStep'
<1> USE CallTypes
<1>1. /\ p \in Procs /\ pc[p] = "queued" /\ holder[TreeOf(CardOf[p])] = None
      /\ UNCHANGED <<requestId, fate, sweep, hint>>
      /\ \A r \in Rows : charge'[r] = IF r \in Prior(p) THEN "deleted" ELSE charge[r]
      /\ \A r \in Prior(p) : charge[r] = "failed" /\ requestId[r] = "null"
      /\ \A q \in Pays \ {p} : pc'[q] = pc[q]
      /\ pc'[p] \in {"fee", "done"}
      /\ pc'[p] = "fee" => holder' = [holder EXCEPT ![TreeOf(CardOf[p])] = p]
      /\ pc'[p] = "done" => UNCHANGED holder
  BY DEF PayBegin, Turn, ClearPrior, Retryable, Goto, TypeOK, locals, chain
<1>2. p \notin Prior(p) /\ charge'[p] = "none" /\ requestId[p] = "null" /\ fate[p] = "none"
  BY <1>1 DEF PaysInStep, Follows, Unbooked, Prior, Booked
<1>3. Prior(p)' = {}
  BY <1>1 DEF Prior, Booked, Rows
<1>4. Booked' \subseteq Booked
  BY <1>1 DEF Booked
<1>5. ASSUME NEW q \in Pays, q # p PROVE Follows(q)'
  <2>1. InMutex(q)'
    <3> SUFFICES ASSUME pc[q] \in Awaiting PROVE holder'[TreeOf(CardOf[q])] = q
      BY <1>1, <1>5 DEF InMutex
    <3>1. holder[TreeOf(CardOf[q])] = q
      BY DEF PaysInStep, Follows, InMutex
    <3> QED BY <1>1, <1>5, <3>1 DEF TypeOK
  <2>2. Unbooked(q)'
    <3>1. q \in Prior(p) => charge[q] = "failed"
      BY <1>1
    <3>2. Prior(q)' \subseteq Prior(q)
      BY <1>4 DEF Prior
    <3> QED BY <1>1, <1>5, <3>1, <3>2 DEF PaysInStep, Follows, Unbooked, Rows
  <2>3. Unsent(q)'
    BY <1>1, <1>5 DEF PaysInStep, Follows, Unsent, Rows
  <2>4. Issued(q)'
    BY <1>1, <1>5 DEF PaysInStep, Follows, Issued, Booked, Rows
  <2> QED BY <2>1, <2>2, <2>3, <2>4 DEF Follows
<1>6. Follows(p)'
  <2>1. InMutex(p)'
    BY <1>1 DEF InMutex, Awaiting, TypeOK
  <2>2. Unbooked(p)'
    BY <1>1, <1>2, <1>3 DEF Unbooked
  <2>3. Unsent(p)' /\ Issued(p)'
    BY <1>1, <1>2 DEF Unsent, Issued
  <2> QED BY <2>1, <2>2, <2>3 DEF Follows
<1>7. SweptRows'
  BY <1>1 DEF PaysInStep, SweptRows
<1> QED BY <1>5, <1>6, <1>7 DEF PaysInStep

\* Every step of a payment keeps the invariant.
LEMMA PayStepFollows ==
  ASSUME TypeOK, PaysInStep, NEW p \in Pays, PayStep(p)
  PROVE  PaysInStep'
<1> USE CallTypes
<1>0. Follows(p) /\ SweptRows
  BY DEF PaysInStep
<1>1. CASE Replay(p)
  <2>1. /\ UNCHANGED <<charge, requestId, fate, hint, holder, sweep>>
        /\ pc' = [pc EXCEPT ![p] = "done"]
    BY <1>1 DEF Replay, Goto, books, locals, chain
  <2>2. \A q \in Pays : Prior(q)' = Prior(q)
    BY <2>1 DEF Prior, Booked
  <2>3. \A q \in Pays : Follows(q)'
    BY <2>1, <2>2 DEF PaysInStep, Follows, InMutex, Unbooked, Unsent, Issued, Awaiting, TypeOK, Booked
  <2> QED BY <2>1, <2>3 DEF PaysInStep, SweptRows
<1>2. CASE PayBegin(p)
  BY <1>2, BeginFollows
<1>3. CASE QuoteFee(p)
  <2>1. ASSUME Return(p, "refused") PROVE PaysInStep'
    BY <1>3, <2>1, <1>0, ReturnFollows
       DEF QuoteFee, books, chain, Awaiting, Follows, Unbooked, Booked
  <2>2. ASSUME pc' = [pc EXCEPT ![p] = "estimate"], UNCHANGED <<hint, holder>>
        PROVE  PaysInStep'
    <3>1. OnlyCall(p)
      BY <1>3, <2>2 DEF QuoteFee, OnlyCall, books, chain, TypeOK
    <3>2. Follows(p)'
      BY <1>3, <2>2, <1>0 DEF QuoteFee, Follows, InMutex, Unbooked, Unsent, Issued, Prior, Booked,
                            Awaiting, TypeOK, books, chain
    <3> QED BY <1>3, <3>1, <3>2, OwnStep DEF QuoteFee, books, chain, Awaiting
  <2> QED BY <1>3, <2>1, <2>2 DEF QuoteFee, Goto
<1>4. CASE RaiseFee(p)
  <2>1. ASSUME NEW res, Return(p, res) PROVE PaysInStep'
    BY <1>4, <2>1, <1>0, ReturnFollows
       DEF RaiseFee, books, chain, Awaiting, Follows, Unbooked, Booked
  <2>2. ASSUME UNCHANGED <<pc, hint, holder>> PROVE PaysInStep'
    <3>1. OnlyCall(p)
      BY <1>4, <2>2 DEF RaiseFee, OnlyCall, books, chain
    <3>2. Follows(p)'
      BY <1>4, <2>2, <1>0 DEF RaiseFee, Follows, InMutex, Unbooked, Unsent, Issued, Prior, Booked,
                            books, chain
    <3> QED BY <1>4, <3>1, <3>2, OwnStep DEF RaiseFee, books, chain, Awaiting
  <2> QED BY <1>4, <2>1, <2>2 DEF RaiseFee
<1>5. CASE Abort(p) \/ Overdrawn(p)
  BY <1>5, <1>0, ReturnFollows
     DEF Abort, Overdrawn, books, chain, Awaiting, Follows, Unbooked, Booked
<1>6. CASE BookAndWait(p)
  <2>1. /\ pc[p] = "estimate" /\ pc' = [pc EXCEPT ![p] = "block"]
        /\ charge' = [charge EXCEPT ![p] = "pending"]
        /\ UNCHANGED <<requestId, fate, hint, holder, sweep>>
    BY <1>6 DEF BookAndWait, BookRow, Goto, locals, chain
  <2>2. OnlyCall(p)
    BY <2>1 DEF OnlyCall, TypeOK
  <2>3. Follows(p)'
    BY <2>1, <1>0 DEF Follows, InMutex, Unbooked, Unsent, Issued, Awaiting, TypeOK
  <2> QED BY <2>1, <2>2, <2>3, OwnStep DEF Awaiting
<1>7. CASE Recheck(p)
  <2>1. CASE Spendable(CardUsed(p))
    <3>1. /\ pc[p] = "block" /\ pc' = [pc EXCEPT ![p] = "send"]
          /\ requestId' = requestId
          /\ UNCHANGED <<charge, fate, hint, holder, sweep>>
      BY <1>7, <2>1 DEF Recheck, Claim, Goto, locals, chain, TypeOK
    <3>2. OnlyCall(p)
      BY <3>1 DEF OnlyCall, TypeOK
    <3>3. Follows(p)'
      BY <3>1, <1>0 DEF Follows, InMutex, Unbooked, Unsent, Issued, Awaiting, TypeOK, Booked
    <3> QED BY <3>1, <3>2, <3>3, OwnStep DEF Awaiting
  <2>2. CASE ~Spendable(CardUsed(p))
    <3>1. SetStatus(p, "failed") /\ pc[p] = "block" /\ UNCHANGED <<requestId, fate, sweep>>
      BY <1>7, <2>2 DEF Recheck, chain
    <3>2. Return(p, RefusalOf(CardUsed(p)))
      BY <1>7, <2>2 DEF Recheck
    <3> QED BY <3>1, <3>2, SetStatusEffect, ReturnFollows DEF Awaiting, ChargeStates, Booked
  <2> QED BY <2>1, <2>2
<1>8. CASE BlockUnknown(p)
  BY <1>8, ReturnFollows DEF BlockUnknown, books, chain, Awaiting, Booked
<1>9. CASE BookAndSend(p)
  <2>1. CASE Spendable(CardUsed(p))
    <3>1. /\ pc[p] = "estimate" /\ pc' = [pc EXCEPT ![p] = "send"]
          /\ charge' = [charge EXCEPT ![p] = "pending"]
          /\ requestId' = requestId
          /\ UNCHANGED <<fate, hint, holder, sweep>>
      BY <1>9, <2>1 DEF BookAndSend, BookRow, Claim, Goto, locals, chain, TypeOK
    <3>2. OnlyCall(p)
      BY <3>1 DEF OnlyCall, TypeOK
    <3>3. Follows(p)'
      BY <3>1, <1>0 DEF Follows, InMutex, Unbooked, Unsent, Issued, Awaiting, TypeOK, Booked
    <3> QED BY <3>1, <3>2, <3>3, OwnStep DEF Awaiting
  <2>2. CASE ~Spendable(CardUsed(p))
    <3>1. /\ charge' = [charge EXCEPT ![p] = "failed"] /\ pc[p] = "estimate"
          /\ UNCHANGED <<requestId, fate, sweep>>
          /\ Return(p, RefusalOf(CardUsed(p)))
      BY <1>9, <2>2 DEF BookAndSend, BookRow, chain
    <3> QED BY <3>1, ReturnFollows DEF Awaiting, TypeOK
  <2> QED BY <2>1, <2>2
<1>10. CASE Broadcast(p)
  <2>1. /\ pc[p] = "send" /\ pc' = [pc EXCEPT ![p] = "sent"]
        /\ fate' = [fate EXCEPT ![p] = "inflight"]
        /\ UNCHANGED <<charge, requestId, hint, holder, sweep>>
    BY <1>10 DEF Broadcast, Goto, books, locals
  <2>2. OnlyCall(p)
    BY <2>1 DEF OnlyCall, TypeOK
  <2>3. Follows(p)'
    BY <2>1, <1>0 DEF Follows, InMutex, Unbooked, Unsent, Issued, Awaiting, TypeOK, Booked
  <2>4. p \notin sweep.rows
    BY <2>1, <1>0 DEF SweptRows, Follows, Unsent
  <2> QED BY <2>1, <2>2, <2>3, <2>4, OwnStep DEF Awaiting
<1>11. CASE SendReturns(p)
  <2>1. /\ pc[p] = "sent" /\ pc' = [pc EXCEPT ![p] = "poll"]
        /\ requestId' = [requestId EXCEPT ![p] = "id"]
        /\ hint' = [hint EXCEPT ![p] = "none"]
        /\ UNCHANGED <<charge, fate, holder, sweep>>
    BY <1>11 DEF SendReturns, Goto, chain
  <2>2. OnlyCall(p)
    BY <2>1 DEF OnlyCall, TypeOK
  <2>3. Follows(p)'
    BY <2>1, <1>0 DEF Follows, InMutex, Unbooked, Unsent, Issued, Awaiting, TypeOK, Booked
  <2>4. p \notin sweep.rows
    BY <2>1, <1>0 DEF SweptRows, Follows, Unsent
  <2> QED BY <2>1, <2>2, <2>3, <2>4, OwnStep DEF Awaiting
<1>12. CASE SendThrows(p)
  <2>1. /\ SetStatus(p, "failed") /\ Return(p, "error") /\ pc[p] \in Awaiting
        /\ UNCHANGED <<requestId, fate, sweep>>
    BY <1>12 DEF SendThrows, chain, Awaiting
  <2> QED BY <2>1, SetStatusEffect, ReturnFollows DEF ChargeStates, Booked
<1>13. ASSUME Confirm(p) \/ Reverted(p), pc[p] \in Awaiting PROVE PaysInStep'
  <2>1. PICK st \in {"confirmed", "failed"} : SetStatus(p, st)
    BY <1>13 DEF Confirm, Reverted
  <2> QED BY <1>13, <2>1, SetStatusEffect, ReturnFollows
          DEF Confirm, Reverted, chain, ChargeStates, Booked
<1>14. CASE PollRelayer(p)
  <2>1. CASE Confirm(p)
    BY <1>13, <1>14, <2>1 DEF PollRelayer, Awaiting
  <2>2. CASE ~Confirm(p)
    <3>1. /\ pc[p] = "poll" /\ pc' = [pc EXCEPT ![p] = "logs"]
          /\ UNCHANGED <<charge, requestId, fate, holder, sweep>>
      BY <1>14, <2>2 DEF PollRelayer, Goto, books, chain
    <3>2. \E h : hint' = [hint EXCEPT ![p] = h] /\ (h = "500" => fate[p] # "inflight")
      BY <1>14, <2>2 DEF PollRelayer
    <3>3. OnlyCall(p)
      BY <3>1, <3>2 DEF OnlyCall, TypeOK
    <3>4. Follows(p)'
      BY <3>1, <3>2, <1>0 DEF Follows, InMutex, Unbooked, Unsent, Issued, Awaiting, TypeOK, Booked
    <3> QED BY <3>1, <3>3, <3>4, OwnStep DEF Awaiting
  <2> QED BY <2>1, <2>2
<1>15. CASE PollLogs(p)
  <2>1. CASE Confirm(p) \/ Reverted(p)
    BY <1>13, <1>15, <2>1 DEF PollLogs, Awaiting
  <2>2. CASE ~(Confirm(p) \/ Reverted(p))
    <3>1. /\ pc[p] = "logs" /\ pc' = [pc EXCEPT ![p] = "poll"]
          /\ UNCHANGED <<charge, requestId, fate, hint, holder, sweep>>
      BY <1>15, <2>2 DEF PollLogs, Goto, books, locals, chain
    <3>2. OnlyCall(p)
      BY <3>1 DEF OnlyCall, TypeOK
    <3>3. Follows(p)'
      BY <3>1, <1>0 DEF Follows, InMutex, Unbooked, Unsent, Issued, Awaiting, TypeOK, Booked
    <3> QED BY <3>1, <3>2, <3>3, OwnStep DEF Awaiting
  <2> QED BY <2>1, <2>2
<1>16. CASE PollKeeperHub(p)
  BY <1>13, <1>16 DEF PollKeeperHub, Awaiting
<1>17. CASE PollGivesUp(p)
  BY <1>17, ReturnFollows DEF PollGivesUp, books, chain, Awaiting, Booked
<1> QED
  BY <1>1, <1>2, <1>3, <1>4, <1>5, <1>6, <1>7, <1>8, <1>9, <1>10, <1>11, <1>12,
     <1>14, <1>15, <1>16, <1>17 DEF PayStep, CallStep

\* Steps that leave every call, request id and fate alone, and every unsent row.
LEMMA QuietStep ==
  ASSUME TypeOK, PaysInStep,
         UNCHANGED <<pc, hint, holder, fate>>,
         \A p \in Pays : requestId'[p] = requestId[p],
         \A p \in Pays : requestId[p] = "null" => charge'[p] = charge[p],
         \A p \in Pays : requestId[p] = "id" => (charge'[p] \in {"none", "deleted"} <=> charge[p] \in {"none", "deleted"})
  PROVE  \A p \in Pays : Follows(p)'
<1> SUFFICES ASSUME NEW p \in Pays PROVE Follows(p)'
  OBVIOUS
<1>1. Follows(p)
  BY DEF PaysInStep
<1>2. \A r \in Pays : r \in Booked' <=> r \in Booked
  BY CallTypes DEF Booked, PaysInStep, Follows, Issued
<1>3. Prior(p)' = Prior(p)
  BY <1>2 DEF Prior
<1> QED BY <1>1, <1>2, <1>3 DEF Follows, InMutex, Unbooked, Unsent, Issued

\* The payments a sweep lists, whichever lane it is of.
LEMMA SweptFollow ==
  ASSUME TypeOK, PaysInStep, NEW r \in (Stale \cup Executing) \cap Pays
  PROVE  requestId[r] = "id" /\ (r \in Stale => fate[r] \in {"landed", "dropped"})
<1>1. charge[r] = "pending" /\ requestId[r] # "null"
  BY DEF Stale, Executing
<1>2. requestId[r] = "id" /\ fate[r] # "none"
  BY <1>1 DEF PaysInStep, Follows, Issued
<1>3. r \in Stale => fate[r] # "inflight"
  BY DEF Stale, Aged
<1> QED BY <1>2, <1>3, CallTypes DEF TypeOK

\* Every step of a sweep keeps the invariant.
LEMMA SweepStepFollows ==
  ASSUME TypeOK, PaysInStep, SweepStep
  PROVE  PaysInStep'
<1>0. SweptRows
  BY DEF PaysInStep
<1>1. CASE SweepBegin
  <2>1. UNCHANGED <<charge, requestId, pc, hint, holder, fate>>
    BY <1>1 DEF SweepBegin, books, calls, locals, chain
  <2>2. /\ sweep'.rows = IF ViaChain THEN Stale ELSE Executing
        /\ ~sweep'.scanned
    BY <1>1 DEF SweepBegin, NoSweep
  <2>3. SweptRows'
    BY <2>1, <2>2, SweptFollow DEF SweptRows
  <2> QED BY <2>1, <2>3, QuietStep DEF PaysInStep
<1>2. CASE SweepScan
  <2>1. UNCHANGED <<charge, requestId, pc, hint, holder, fate>>
    BY <1>2 DEF SweepScan, books, calls, locals, chain
  <2>2. /\ ViaChain /\ sweep'.rows = sweep.rows
        /\ sweep'.hits = {r \in sweep.rows : fate[r] = "landed" /\ ~StaleCollector}
    BY <1>2 DEF SweepScan, TypeOK
  <2>3. SweptRows'
    BY <2>1, <2>2, <1>0 DEF SweptRows
  <2> QED BY <2>1, <2>3, QuietStep DEF PaysInStep
<1>3. CASE SweepApply
  <2>1. UNCHANGED <<requestId, pc, hint, holder, fate>> /\ sweep' = NoSweep
    BY <1>3 DEF SweepApply, calls, locals, chain
  <2>2. \A r \in Rows :
          /\ r \notin sweep.rows \cap Booked => charge'[r] = charge[r]
          /\ r \in sweep.rows \cap Booked => charge'[r] \in {"confirmed", "failed", "settlement_unconfirmed"}
    BY <1>3 DEF SweepApply, Released
  <2>3. \A p \in Pays : Follows(p)'
    BY <2>1, <2>2, <1>0, QuietStep, CallTypes DEF SweptRows, Booked
  <2>4. SweptRows'
    BY <2>1 DEF SweptRows, NoSweep
  <2> QED BY <2>3, <2>4 DEF PaysInStep
<1>4. ASSUME NEW r \in Rows, SweepAnswer(r) \/ SweepNoAnswer(r) PROVE PaysInStep'
  <2>1. /\ UNCHANGED <<requestId, pc, hint, holder, fate>>
        /\ r \in sweep.rows /\ ~ViaChain /\ sweep' = RowDone(r)
        /\ \A q \in Rows \ {r} : charge'[q] = charge[q]
        /\ \/ charge'[r] = charge[r]
           \/ r \in Booked /\ charge'[r] \in {"confirmed", "failed", "settlement_unconfirmed"}
    BY <1>4 DEF SweepAnswer, SweepNoAnswer, SetStatus, Released, TypeOK, books, calls, locals, chain
  <2>2. r \in Pays => requestId[r] = "id" /\ r \in Booked
    BY <2>1, <1>0 DEF SweptRows, PaysInStep, Follows, Issued
  <2>3. \A p \in Pays : Follows(p)'
    BY <2>1, <2>2, QuietStep, CallTypes DEF Booked
  <2>4. SweptRows'
    BY <2>1, <1>0 DEF SweptRows, RowDone, NoSweep, TypeOK
  <2> QED BY <2>3, <2>4 DEF PaysInStep
<1>5. CASE SweepFails
  <2>1. UNCHANGED <<charge, requestId, pc, hint, holder, fate>> /\ sweep' = NoSweep
    BY <1>5 DEF SweepFails, books, calls, locals, chain
  <2> QED BY <2>1, <1>0, QuietStep DEF PaysInStep, SweptRows, NoSweep
<1> QED BY <1>1, <1>2, <1>3, <1>4, <1>5 DEF SweepStep

\* The steps outside the calls: the webhook, the sweep, the owner, the chain, a restart.
Outside == (\E a \in Auths : Authorize(a)) \/ SweepStep \/ OwnerStep \/ Environment \/ Crash

\* They keep the invariant, too.
LEMMA OutsideFollows ==
  ASSUME TypeOK, PaysInStep, Outside
  PROVE  PaysInStep'
<1>0. SweptRows
  BY DEF PaysInStep
<1>1. ASSUME NEW a \in Auths, Authorize(a) PROVE PaysInStep'
  <2>1. /\ UNCHANGED <<pc, hint, holder, fate, sweep>>
        /\ \A p \in Pays : charge'[p] = charge[p] /\ requestId'[p] = requestId[p]
    BY <1>1, CallTypes DEF Authorize, TypeOK, calls, locals, chain
  <2>2. \A p \in Pays : Follows(p)'
    BY <2>1, QuietStep
  <2> QED BY <2>1, <2>2, <1>0 DEF PaysInStep, SweptRows
<1>2. CASE SweepStep
  BY <1>2, SweepStepFollows
<1>3. CASE OwnerStep
  <2>1. UNCHANGED <<charge, requestId, pc, hint, holder, fate, sweep>>
    BY <1>3 DEF OwnerStep, Freeze, Unfreeze, Revoke, books, calls, locals, chain
  <2> QED BY <2>1, <1>0, QuietStep DEF PaysInStep, SweptRows
<1>4. CASE Environment
  <2>1. PICK r \in Rows : Mine(r) \/ Interrupt(r)
    BY <1>4 DEF Environment
  <2>2. /\ UNCHANGED <<charge, requestId, pc, hint, holder, sweep>>
        /\ fate'[r] = fate[r] \/ (fate[r] = "inflight" /\ fate'[r] \in {"landed", "dropped"})
        /\ \A q \in Rows \ {r} : fate'[q] = fate[q]
    BY <2>1 DEF Mine, Interrupt, TypeOK, books, calls, locals
  <2>3. ASSUME NEW p \in Pays PROVE Follows(p)'
    <3>1. Prior(p)' = Prior(p) /\ Booked' = Booked
      BY <2>2 DEF Prior, Booked
    <3> QED BY <2>2, <3>1, CallTypes
            DEF PaysInStep, Follows, InMutex, Unbooked, Unsent, Issued
  <2>4. SweptRows'
    BY <2>2, <1>0, CallTypes DEF SweptRows
  <2> QED BY <2>3, <2>4 DEF PaysInStep
<1>5. CASE Crash
  <2>1. /\ UNCHANGED <<charge, requestId, fate>> /\ sweep' = NoSweep
        /\ \A p \in Pays : pc'[p] = IF pc[p] \in Awaiting THEN "crashed" ELSE pc[p]
    BY <1>5, CallTypes DEF Crash, books, chain
  <2>2. ASSUME NEW p \in Pays PROVE Follows(p)'
    BY <2>1, CallTypes
       DEF PaysInStep, Follows, InMutex, Unbooked, Unsent, Issued, Awaiting, Booked
  <2>3. SweptRows'
    BY <2>1 DEF SweptRows, NoSweep
  <2> QED BY <2>2, <2>3 DEF PaysInStep
<1> QED BY <1>1, <1>2, <1>3, <1>4, <1>5 DEF Outside

\* A step beside the payments: of their rows and calls nothing changes, nor of the sweep,
\* and none loses the mutex.
Beside ==
  /\ UNCHANGED <<sweep, interrupted>>
  /\ \A p \in Pays :
       /\ pc'[p] = pc[p] /\ hint'[p] = hint[p]
       /\ charge'[p] = charge[p] /\ requestId'[p] = requestId[p] /\ fate'[p] = fate[p]
       /\ holder[TreeOf(CardOf[p])] = p => holder'[TreeOf(CardOf[p])] = p

\* It keeps the invariant.
LEMMA BesideFollows ==
  ASSUME TypeOK, PaysInStep, Beside
  PROVE  PaysInStep'
<1>1. ASSUME NEW p \in Pays PROVE Follows(p)'
  <2>1. \A q \in Pays : q \in Booked' <=> q \in Booked
    BY CallTypes DEF Beside, Booked
  <2>2. Prior(p)' = Prior(p)
    BY <2>1 DEF Prior
  <2> QED BY <2>1, <2>2 DEF Beside, PaysInStep, Follows, InMutex, Unbooked, Unsent, Issued
<1>2. SweptRows'
  BY DEF Beside, PaysInStep, SweptRows
<1> QED BY <1>1, <1>2 DEF PaysInStep

\* Every step that concerns the payments, whatever else runs.
PaysNext == (\E p \in Pays : PayStep(p)) \/ Outside \/ Beside

LEMMA NextOfPays == [Next]_vars => PaysNext
<1>1. UNCHANGED vars => Beside
  BY DEF vars, books, calls, locals, chain, Beside
<1> QED BY <1>1 DEF Next, PaysNext, Outside

\* The payments stay in step.
LEMMA PaysFollow ==
  ASSUME TypeOK, PaysInStep, PaysNext
  PROVE  PaysInStep'
  BY PayStepFollows, OutsideFollows, BesideFollows DEF PaysNext

-----------------------------------------------------------------------------
(* What a step may do to a row.                                            *)

\* A payment's step, on its own row.
RowAdvances(p) ==
  /\ interrupted' = interrupted
  /\ \/ charge'[p] = charge[p] /\ requestId'[p] = requestId[p] /\ fate'[p] = fate[p]
     \/ /\ pc[p] = "estimate" /\ charge'[p] \in {"pending", "failed"}     \* booked
        /\ requestId'[p] = requestId[p] /\ fate'[p] = fate[p]
     \/ /\ pc[p] \in {"block", "send"} \/ (AmbiguousSend /\ pc[p] = "sent")  \* given up
        /\ charge'[p] = "failed" /\ requestId'[p] = requestId[p] /\ fate'[p] = fate[p]
     \/ /\ pc[p] = "send" /\ fate'[p] = "inflight"                         \* broadcast
        /\ charge'[p] = charge[p] /\ requestId'[p] = requestId[p]
     \/ /\ pc[p] = "sent" /\ requestId'[p] = "id"                          \* acknowledged
        /\ charge'[p] = charge[p] /\ fate'[p] = fate[p]
     \/ /\ pc[p] \in {"poll", "logs"}                                      \* resolved
        /\ \/ charge'[p] = "confirmed" /\ fate[p] = "landed" /\ (ViaChain \/ p \notin interrupted)
           \/ charge'[p] = "failed" /\ (Ended(p) \/ RpcBlips)
        /\ requestId'[p] = requestId[p] /\ fate'[p] = fate[p]

\* A payment's step, on any other row: at most a retryable one is deleted.
OthersKept(p) ==
  \A r \in Rows \ {p} :
    /\ requestId'[r] = requestId[r] /\ fate'[r] = fate[r]
    /\ charge'[r] = charge[r] \/ (charge'[r] = "deleted" /\ charge[r] = "failed" /\ requestId[r] = "null")

\* What a payment's step may do to the rows of the payments.
LEMMA PayRowStep ==
  ASSUME TypeOK, PaysInStep, NEW p \in Pays, PayStep(p)
  PROVE  RowAdvances(p) /\ OthersKept(p)
<1> USE CallTypes
<1>0. Follows(p)
  BY DEF PaysInStep
<1>1. CASE Replay(p) \/ QuoteFee(p) \/ RaiseFee(p) \/ Abort(p) \/ Overdrawn(p) \/ BlockUnknown(p) \/ PollGivesUp(p)
  BY <1>1 DEF Replay, QuoteFee, RaiseFee, Abort, Overdrawn, BlockUnknown, PollGivesUp, books, chain,
              RowAdvances, OthersKept
<1>2. CASE PayBegin(p)
  <2>1. p \notin Prior(p)
    BY <1>2, <1>0 DEF PayBegin, Turn, Prior, Booked, Follows, Unbooked
  <2> QED BY <1>2, <2>1 DEF PayBegin, ClearPrior, Retryable, Prior, chain, RowAdvances, OthersKept
<1>3. CASE BookAndWait(p)
  BY <1>3 DEF BookAndWait, BookRow, chain, TypeOK, RowAdvances, OthersKept
<1>4. CASE BookAndSend(p)
  BY <1>4 DEF BookAndSend, BookRow, Claim, chain, TypeOK, RowAdvances, OthersKept
<1>5. ASSUME NEW s \in ChargeStates \ {"none", "deleted"}, SetStatus(p, s),
             pc[p] \in Awaiting \ {"fee", "estimate"}
      PROVE  charge'[p] = s /\ \A r \in Rows \ {p} : charge'[r] = charge[r]
  <2>1. p \in Booked
    BY <1>5, <1>0 DEF Follows, Unsent, Issued, Booked, Awaiting
  <2> QED BY <1>5, <2>1, SetStatusEffect
<1>6. CASE Recheck(p)
  BY <1>6, <1>5 DEF Recheck, Claim, chain, TypeOK, Awaiting, ChargeStates, RowAdvances, OthersKept
<1>7. CASE Broadcast(p)
  BY <1>7 DEF Broadcast, books, TypeOK, RowAdvances, OthersKept
<1>8. CASE SendReturns(p)
  BY <1>8 DEF SendReturns, chain, TypeOK, RowAdvances, OthersKept
<1>9. CASE SendThrows(p)
  BY <1>9, <1>5 DEF SendThrows, chain, Awaiting, ChargeStates, RowAdvances, OthersKept
<1>10. ASSUME pc[p] \in {"poll", "logs"}, Confirm(p), Landed(p), ViaChain \/ p \notin interrupted
       PROVE  RowAdvances(p) /\ OthersKept(p)
  BY <1>10, <1>5 DEF Confirm, Landed, chain, Awaiting, ChargeStates, RowAdvances, OthersKept
<1>11. ASSUME pc[p] \in {"poll", "logs"}, Reverted(p), Ended(p) \/ RpcBlips
       PROVE  RowAdvances(p) /\ OthersKept(p)
  BY <1>11, <1>5 DEF Reverted, chain, Awaiting, ChargeStates, RowAdvances, OthersKept
<1>12. CASE PollRelayer(p)
  BY <1>12, <1>10 DEF PollRelayer, books, chain, RowAdvances, OthersKept
<1>13. CASE PollLogs(p)
  <2>1. ~Landed(p) /\ hint[p] = "500" => Ended(p)
    BY <1>13, <1>0 DEF PollLogs, Follows, Issued, Landed, Ended, TypeOK
  <2> QED BY <1>13, <2>1, <1>10, <1>11 DEF PollLogs, books, chain, RowAdvances, OthersKept
<1>14. CASE PollKeeperHub(p)
  BY <1>14, <1>10, <1>11 DEF PollKeeperHub, Succeeded, Landed
<1> QED
  BY <1>1, <1>2, <1>3, <1>4, <1>6, <1>7, <1>8, <1>9, <1>12, <1>13, <1>14 DEF PayStep, CallStep

\* A call leaves the sweep to itself, and interrupts no run.
LEMMA CallKeepsSweep ==
  ASSUME NEW p \in Procs, CallStep(p)
  PROVE  sweep' = sweep /\ interrupted' = interrupted
  BY DEF CallStep, QuoteFee, RaiseFee, Abort, Overdrawn, BookAndWait, Recheck, BlockUnknown, BookAndSend,
         Broadcast, SendReturns, SendThrows, PollRelayer, PollLogs, PollKeeperHub, PollGivesUp,
         Confirm, Reverted, chain

\* Every other step, on the payments' rows: a sweep resolves what was sent, in agreement
\* with the chain as far as it sees it, and a redemption in flight is mined.
LEMMA OtherRowStep ==
  ASSUME TypeOK, PaysInStep, NEW p \in Pays, Outside
  PROVE  /\ requestId'[p] = requestId[p]
         /\ \/ charge'[p] = charge[p] /\ fate'[p] = fate[p]
            \/ /\ charge'[p] = charge[p]
               /\ fate[p] = "inflight" /\ fate'[p] \in {"landed", "dropped"}
            \/ /\ fate'[p] = fate[p] /\ requestId[p] = "id" /\ p \in Booked
               /\ \/ charge'[p] = "confirmed" /\ fate[p] = "landed" /\ (ViaChain \/ p \notin interrupted)
                  \/ charge'[p] = "failed" /\ (Ended(p) \/ StaleCollector)
<1> USE CallTypes
<1>0. SweptRows
  BY DEF PaysInStep
<1>1. ASSUME NEW a \in Auths, Authorize(a) PROVE charge'[p] = charge[p] /\ requestId'[p] = requestId[p]
  BY <1>1 DEF Authorize, TypeOK
<1>2. CASE SweepApply
  <2>1. /\ UNCHANGED <<requestId, fate>> /\ sweep.scanned
        /\ p \notin sweep.rows \cap Booked => charge'[p] = charge[p]
        /\ p \in sweep.rows \cap Booked =>
             charge'[p] = IF p \in sweep.hits THEN "confirmed" ELSE "failed"
    BY <1>2 DEF SweepApply, Released, chain
  <2> QED BY <2>1, <1>0 DEF SweptRows, Ended
<1>3. ASSUME NEW r \in Rows, SweepAnswer(r)
      PROVE  /\ UNCHANGED <<requestId, fate>>
             /\ charge'[p] = charge[p] \/
                  /\ requestId[p] = "id" /\ p \in Booked
                  /\ \/ charge'[p] = "confirmed" /\ fate[p] = "landed" /\ p \notin interrupted
                     \/ charge'[p] = "failed" /\ Ended(p)
  BY <1>3, <1>0 DEF SweepAnswer, Succeeded, SetStatus, Released, SweptRows, chain, TypeOK
<1>4. CASE SweepStep
  BY <1>2, <1>3, <1>4 DEF SweepStep, SweepBegin, SweepScan, SweepFails, SweepNoAnswer, books, chain
<1>5. CASE OwnerStep \/ Crash
  BY <1>5 DEF OwnerStep, Freeze, Unfreeze, Revoke, Crash, books, chain
<1>6. CASE Environment
  BY <1>6 DEF Environment, Mine, Interrupt, books, TypeOK
<1>7. CASE \E a \in Auths : Authorize(a)
  BY <1>1, <1>7 DEF Authorize, chain
<1> QED BY <1>4, <1>5, <1>6, <1>7 DEF Outside

\* A run is interrupted before it is reported a success, and nothing else happens then.
LEMMA RunInterrupted ==
  ASSUME TypeOK, Outside
  PROVE  /\ ViaChain => interrupted' = interrupted
         /\ \A p \in Pays :
              \/ p \in interrupted' <=> p \in interrupted
              \/ /\ p \in interrupted' /\ charge[p] # "confirmed"
                 /\ charge'[p] = charge[p] /\ fate'[p] = fate[p]
<1>1. CASE Environment
  BY <1>1, CallTypes DEF Environment, Mine, Interrupt, books, TypeOK
<1>2. CASE (\E a \in Auths : Authorize(a)) \/ SweepStep \/ OwnerStep \/ Crash
  BY <1>2 DEF Authorize, SweepStep, SweepBegin, SweepScan, SweepFails, SweepApply, SweepAnswer,
     SweepNoAnswer, OwnerStep, Freeze, Unfreeze, Revoke, Crash, chain
<1> QED BY <1>1, <1>2 DEF Outside

\* No call has begun and no row is booked: the invariant holds.
LEMMA InitFollows == Init => RowsFollowCalls
  BY CallTypes DEF Init, RowsFollowCalls, PaysInStep, Follows, InMutex, Unbooked, Unsent, Issued,
     SweptRows, AuthsWait, NoSweep, Awaiting, Rows, Procs

\* No payment, and no sweep, writes into a row that only the webhook has written.
LEMMA AuthsKept ==
  ASSUME TypeOK, RowsFollowCalls, [Next]_vars
  PROVE  AuthsWait'
<1> SUFFICES ASSUME NEW a \in Auths
             PROVE  /\ fate'[a] = "none" /\ a \notin sweep'.rows
                    /\ charge'[a] \in {"none", IF SettlementOn THEN "pending" ELSE "confirmed"}
                    /\ SettlementOn => requestId'[a] = "null"
  BY DEF AuthsWait
<1>0. /\ a \in Rows /\ fate[a] = "none" /\ a \notin sweep.rows
      /\ charge[a] \in {"none", IF SettlementOn THEN "pending" ELSE "confirmed"}
      /\ SettlementOn => requestId[a] = "null"
  BY DEF RowsFollowCalls, AuthsWait, Rows
<1>1. ASSUME UNCHANGED <<charge, requestId, fate>>, sweep' \in {sweep, NoSweep}
      PROVE  /\ fate'[a] = "none" /\ a \notin sweep'.rows
             /\ charge'[a] \in {"none", IF SettlementOn THEN "pending" ELSE "confirmed"}
             /\ SettlementOn => requestId'[a] = "null"
  BY <1>0, <1>1 DEF NoSweep
<1>2. ASSUME NEW p \in Pays, PayStep(p)
      PROVE  /\ fate'[a] = "none" /\ a \notin sweep'.rows
             /\ charge'[a] \in {"none", IF SettlementOn THEN "pending" ELSE "confirmed"}
             /\ SettlementOn => requestId'[a] = "null"
  <2>1. a \in Rows \ {p}
    BY <1>0
  <2>2. OthersKept(p) /\ sweep' = sweep
    BY <1>2, PayRowStep, CallKeepsSweep, CallTypes DEF RowsFollowCalls, PayStep, Replay, PayBegin
  <2> QED BY <1>0, <2>1, <2>2 DEF OthersKept
<1>3. ASSUME NEW b \in Auths, Authorize(b)
      PROVE  /\ fate'[a] = "none" /\ a \notin sweep'.rows
             /\ charge'[a] \in {"none", IF SettlementOn THEN "pending" ELSE "confirmed"}
             /\ SettlementOn => requestId'[a] = "null"
  BY <1>0, <1>3 DEF Authorize, TypeOK, chain
<1>4. CASE SweepBegin
  <2>1. a \notin Stale \cup Executing
    BY <1>0 DEF Stale, Executing
  <2> QED BY <1>0, <1>4, <2>1 DEF SweepBegin, NoSweep, books, chain
<1>5. CASE SweepScan
  BY <1>0, <1>5 DEF SweepScan, books, chain, TypeOK
<1>6. CASE SweepApply
  <2>1. charge'[a] = charge[a] /\ UNCHANGED <<requestId, fate>> /\ sweep' = NoSweep
    BY <1>0, <1>6 DEF SweepApply, chain
  <2> QED BY <1>0, <2>1 DEF NoSweep
<1>7. ASSUME NEW r \in Rows, SweepAnswer(r) \/ SweepNoAnswer(r)
      PROVE  /\ fate'[a] = "none" /\ a \notin sweep'.rows
             /\ charge'[a] \in {"none", IF SettlementOn THEN "pending" ELSE "confirmed"}
             /\ SettlementOn => requestId'[a] = "null"
  <2>1. r # a /\ UNCHANGED <<requestId, fate>> /\ sweep' = RowDone(r)
    BY <1>0, <1>7 DEF SweepAnswer, SweepNoAnswer, books, chain
  <2>2. charge'[a] = charge[a]
    BY <1>0, <1>7, <2>1 DEF SweepAnswer, SweepNoAnswer, SetStatus, books, TypeOK
  <2>3. a \notin sweep'.rows
    BY <1>0, <2>1 DEF RowDone, NoSweep, TypeOK
  <2> QED BY <1>0, <2>1, <2>2, <2>3
<1>8. CASE SweepStep
  BY <1>1, <1>4, <1>5, <1>6, <1>7, <1>8 DEF SweepStep, SweepFails, books, chain
<1>9. CASE OwnerStep \/ Crash
  BY <1>1, <1>9 DEF OwnerStep, Freeze, Unfreeze, Revoke, Crash, books, chain
<1>10. CASE Environment
  BY <1>0, <1>10 DEF Environment, Mine, Interrupt, books, TypeOK
<1>11. CASE UNCHANGED vars
  BY <1>1, <1>11 DEF vars, books, chain
<1> QED BY <1>2, <1>3, <1>8, <1>9, <1>10, <1>11 DEF Next

\* The invariant is inductive.
LEMMA StepFollows == TypeOK /\ RowsFollowCalls /\ [Next]_vars => RowsFollowCalls'
  BY AuthsKept, NextOfPays, PaysFollow DEF RowsFollowCalls

\* The calls, their rows and the sweep keep in step, on either lane and with any
\* number of calls, restarts and sweeps.
THEOREM CallsAndRowsInStep == Spec => []RowsFollowCalls
  BY InitTypes, StepTypes, InitFollows, StepFollows, PTL DEF Spec

-----------------------------------------------------------------------------
(* One row per idempotency key.                                            *)

\* At most one row is booked in a step, and only by a call without a rival.
LEMMA BookingStep ==
  ASSUME TypeOK, PaysInStep, PaysNext
  PROVE  \/ Booked' \cap Pays \subseteq Booked
         \/ \E p \in Pays : Prior(p) = {} /\ Booked' \cap Pays \subseteq Booked \cup {p}
<1>1. ASSUME NEW p \in Pays, PayStep(p)
      PROVE  \/ Booked' \cap Pays \subseteq Booked
             \/ Prior(p) = {} /\ Booked' \cap Pays \subseteq Booked \cup {p}
  <2>1. RowAdvances(p) /\ OthersKept(p)
    BY <1>1, PayRowStep
  <2>2. Booked' \cap Pays \subseteq Booked \cup {p}
    BY <2>1 DEF OthersKept, Booked
  <2>3. Follows(p)
    BY DEF PaysInStep
  <2>4. pc[p] = "estimate" => Prior(p) = {}
    BY <2>3 DEF Follows, Unbooked
  <2>5. pc[p] \in {"block", "send", "sent", "poll", "logs"} => p \in Booked
    BY <2>3, CallTypes DEF Follows, Unsent, Issued, Booked
  <2>6. pc[p] # "estimate" /\ p \in Booked' => p \in Booked
    BY <2>1, <2>5, CallTypes DEF RowAdvances, Booked
  <2> QED BY <2>1, <2>2, <2>4, <2>6, CallTypes DEF RowAdvances, Booked
<1>2. CASE Outside
  BY <1>2, OtherRowStep DEF Booked
<1>3. CASE Beside
  BY <1>3 DEF Beside, Booked
<1> QED BY <1>1, <1>2, <1>3 DEF PaysNext

\* No step books a second row under a key.
LEMMA StepKey == TypeOK /\ PaysInStep /\ KeyBookedOnce /\ PaysNext => KeyBookedOnce'
<1> SUFFICES ASSUME TypeOK, PaysInStep, KeyBookedOnce, PaysNext
             PROVE  KeyBookedOnce'
  OBVIOUS
<1>1. CASE Booked' \cap Pays \subseteq Booked
  BY <1>1 DEF KeyBookedOnce
<1>2. ASSUME NEW p \in Pays, Prior(p) = {}, Booked' \cap Pays \subseteq Booked \cup {p}
      PROVE  KeyBookedOnce'
  <2>1. \A q \in Booked \cap Pays :
           ~(KeyOf[p] # NoKey /\ KeyOf[q] = KeyOf[p] /\ CardOf[q] = CardOf[p])
    BY <1>2 DEF Prior
  <2> QED BY <1>2, <2>1 DEF KeyBookedOnce
<1> QED BY <1>1, <1>2, BookingStep

LEMMA InitKey == Init => KeyBookedOnce
  BY DEF Init, KeyBookedOnce, Booked

\* The unique index on (card_id, idempotency_key) never refuses an insert: calls with
\* one key never hold two booked rows (spend.ts 549-562 under the spend mutex).
THEOREM OneRowPerKey == Spec => []KeyBookedOnce
<1>1. RowsFollowCalls => PaysInStep
  BY DEF RowsFollowCalls
<1> QED BY <1>1, InitKey, StepKey, NextOfPays, TypesHold, CallsAndRowsInStep, PTL DEF Spec

-----------------------------------------------------------------------------
(* The books and the chain.                                                *)

\* Nothing has been sent at first.
LEMMA InitSent == Init => SentIsBooked
  BY CallTypes DEF Init, SentIsBooked

\* Without ambiguous sends the row of a redemption is kept.
LEMMA StepSent ==
  ASSUME ~AmbiguousSend
  PROVE  TypeOK /\ PaysInStep /\ SentIsBooked /\ PaysNext => SentIsBooked'
<1> SUFFICES ASSUME TypeOK, PaysInStep, SentIsBooked, PaysNext PROVE SentIsBooked'
  OBVIOUS
<1> SUFFICES ASSUME NEW q \in Pays, fate'[q] # "none"
             PROVE  q \in Booked' /\ (requestId'[q] = "null" => charge'[q] = "pending")
  BY DEF SentIsBooked
<1>0. q \in Rows /\ Follows(q)
  BY CallTypes DEF PaysInStep
<1>1. ASSUME NEW p \in Pays, PayStep(p)
      PROVE  q \in Booked' /\ (requestId'[q] = "null" => charge'[q] = "pending")
  <2>1. RowAdvances(p) /\ OthersKept(p)
    BY <1>1, PayRowStep
  <2>2. CASE p = q
    BY <2>1, <2>2, <1>0 DEF RowAdvances, SentIsBooked, Follows, Unbooked, Unsent, Issued, Booked
  <2>3. CASE p # q
    BY <2>1, <2>3, <1>0 DEF OthersKept, SentIsBooked, Booked
  <2> QED BY <2>2, <2>3
<1>2. CASE Outside
  BY <1>2, <1>0, OtherRowStep DEF SentIsBooked, Booked
<1>3. CASE Beside
  BY <1>3, <1>0 DEF Beside, SentIsBooked, Booked
<1> QED BY <1>1, <1>2, <1>3 DEF PaysNext

\* "same key -> same charge (safe retries)" (server/src/mcp/server.ts 211), whenever a
\* send that answers with an error has not been taken on.
THEOREM RetriesAreSafe ==
  ASSUME ~AmbiguousSend
  PROVE  Spec => []OneRedemptionPerKey
<1>1. SentIsBooked /\ KeyBookedOnce => OneRedemptionPerKey
  BY DEF SentIsBooked, KeyBookedOnce, OneRedemptionPerKey
<1>2. RowsFollowCalls => PaysInStep
  BY DEF RowsFollowCalls
<1> QED BY <1>1, <1>2, InitSent, StepSent, NextOfPays, OneRowPerKey, TypesHold, CallsAndRowsInStep, PTL
        DEF Spec

\* What the books say of the payments is true.
PaysTrue == \A p \in Pays : charge[p] = "confirmed" => fate[p] = "landed"

LEMMA InitTrue == Init => PaysTrue
  BY CallTypes DEF Init, PaysTrue

\* Every step keeps it true: no assumption on the environment.
LEMMA StepTrue == TypeOK /\ PaysInStep /\ PaysTrue /\ PaysNext => PaysTrue'
<1> SUFFICES ASSUME TypeOK, PaysInStep, PaysTrue, PaysNext, NEW q \in Pays,
                    charge'[q] = "confirmed"
             PROVE  fate'[q] = "landed"
  BY DEF PaysTrue
<1>0. q \in Rows /\ Follows(q) /\ (charge[q] = "confirmed" => fate[q] = "landed")
  BY CallTypes DEF PaysInStep, PaysTrue
<1>1. ASSUME NEW p \in Pays, PayStep(p) PROVE fate'[q] = "landed"
  <2>1. RowAdvances(p) /\ OthersKept(p)
    BY <1>1, PayRowStep
  <2>2. CASE p = q
    BY <2>1, <2>2, <1>0 DEF RowAdvances, Follows, Unsent
  <2>3. CASE p # q
    BY <2>1, <2>3, <1>0 DEF OthersKept
  <2> QED BY <2>2, <2>3
<1>2. CASE Outside
  BY <1>0, <1>2, OtherRowStep
<1>3. CASE Beside
  BY <1>0, <1>3 DEF Beside
<1> QED BY <1>1, <1>2, <1>3 DEF PaysNext

\* The books say confirmed only of what landed: no assumption on the environment.
THEOREM ConfirmedHasLanded == Spec => []ConfirmedLanded
<1>1. RowsFollowCalls /\ PaysTrue => ConfirmedLanded
  BY DEF RowsFollowCalls, AuthsWait, PaysTrue, ConfirmedLanded, Rows
<1>2. RowsFollowCalls => PaysInStep
  BY DEF RowsFollowCalls
<1> QED BY <1>1, <1>2, InitTrue, StepTrue, NextOfPays, TypesHold, CallsAndRowsInStep, PTL DEF Spec

\* A call's step never takes an announcement back, and announces what it confirms.
LEMMA CallAnnounces ==
  ASSUME TypeOK, NEW p \in Procs, CallStep(p)
  PROVE  \A r \in Rows :
           /\ announced'[r] >= announced[r]
           /\ charge'[r] = "confirmed" /\ charge[r] # "confirmed" => announced'[r] > 0
<1> USE ProcTypes
<1>0. announced \in [Rows -> Nat]
  BY DEF TypeOK
<1>1. ASSUME announced' = announced, \A r \in Rows : charge'[r] = "confirmed" => charge[r] = "confirmed"
      PROVE  \A r \in Rows :
               /\ announced'[r] >= announced[r]
               /\ charge'[r] = "confirmed" /\ charge[r] # "confirmed" => announced'[r] > 0
  BY <1>0, <1>1
<1>2. CASE \/ QuoteFee(p) \/ RaiseFee(p) \/ Abort(p) \/ Overdrawn(p)
           \/ BlockUnknown(p) \/ PollGivesUp(p) \/ Broadcast(p)
  BY <1>1, <1>2 DEF QuoteFee, RaiseFee, Abort, Overdrawn, BlockUnknown, PollGivesUp, Broadcast, books
<1>3. CASE BookAndWait(p) \/ BookAndSend(p)
  BY <1>1, <1>3 DEF BookAndWait, BookAndSend, BookRow, TypeOK
<1>4. CASE Recheck(p) \/ SendReturns(p) \/ SendThrows(p)
  BY <1>1, <1>4 DEF Recheck, SendReturns, SendThrows, SetStatus, TypeOK
<1>5. ASSUME Confirm(p)
      PROVE  \A r \in Rows :
               /\ announced'[r] >= announced[r]
               /\ charge'[r] = "confirmed" /\ charge[r] # "confirmed" => announced'[r] > 0
  BY <1>0, <1>5 DEF Confirm, Announce, SetStatus, TypeOK
<1>6. CASE Reverted(p)
  BY <1>1, <1>6 DEF Reverted, SetStatus, TypeOK
<1>7. CASE PollRelayer(p) \/ PollLogs(p) \/ PollKeeperHub(p)
  BY <1>1, <1>5, <1>6, <1>7 DEF PollRelayer, PollLogs, PollKeeperHub, books
<1> QED BY <1>2, <1>3, <1>4, <1>7 DEF CallStep

\* The KeeperHub sweep announces what it confirms, too.
LEMMA SweepAnnounces ==
  ASSUME ~ViaChain, TypeOK, SweptRows, SweepStep, NEW r \in Rows
  PROVE  /\ announced'[r] >= announced[r]
         /\ charge'[r] = "confirmed" /\ charge[r] # "confirmed" => announced'[r] > 0
<1>0. announced \in [Rows -> Nat]
  BY DEF TypeOK
<1>1. ASSUME NEW q \in Rows, SweepAnswer(q)
      PROVE  /\ announced'[r] >= announced[r]
             /\ charge'[r] = "confirmed" /\ charge[r] # "confirmed" => announced'[r] > 0
  <2>1. CASE Succeeded(q)
    <3>1. Announce(q) /\ SetStatus(q, "confirmed")
      BY <1>1, <2>1 DEF SweepAnswer, Succeeded, Ended
    <3> QED BY <1>0, <3>1 DEF Announce, SetStatus, TypeOK
  <2>2. CASE ~Succeeded(q)
    <3>1. announced' = announced /\ SetStatus(q, Released(q))
      BY <1>1, <2>2 DEF SweepAnswer
    <3>2. charge'[r] = "confirmed" => charge[r] = "confirmed"
      BY <3>1 DEF SetStatus, Released, TypeOK
    <3> QED BY <1>0, <3>1, <3>2
  <2> QED BY <2>1, <2>2
<1>2. ~SweepApply
  BY DEF SweepApply, SweptRows
<1>3. CASE SweepBegin \/ SweepScan \/ SweepFails \/ \E q \in Rows : SweepNoAnswer(q)
  BY <1>0, <1>3 DEF SweepBegin, SweepScan, SweepFails, SweepNoAnswer, books
<1> QED BY <1>1, <1>2, <1>3 DEF SweepStep

\* The steps outside the calls and the sweep confirm only an authorization nobody will settle.
LEMMA OthersAnnounce ==
  ASSUME TypeOK, NEW r \in Rows, r \in Pays \/ SettlementOn,
         (\E a \in Auths : Authorize(a)) \/ OwnerStep \/ Environment \/ Crash
  PROVE  announced' = announced /\ (charge'[r] = "confirmed" => charge[r] = "confirmed")
<1>1. ASSUME NEW a \in Auths, Authorize(a)
      PROVE  announced' = announced /\ (charge'[r] = "confirmed" => charge[r] = "confirmed")
  BY <1>1 DEF Authorize, TypeOK
<1>2. CASE OwnerStep \/ Environment \/ Crash
  BY <1>2 DEF OwnerStep, Freeze, Unfreeze, Revoke, Environment, Mine, Interrupt, Crash, books
<1> QED BY <1>1, <1>2

\* A step that takes no announcement back, and announces the row if it confirms it, keeps a
\* confirmed row announced.
LEMMA StaysTold ==
  ASSUME TypeOK, TypeOK', NEW r \in Rows, charge[r] = "confirmed" => announced[r] > 0,
         announced'[r] >= announced[r],
         charge'[r] = "confirmed" /\ charge[r] # "confirmed" => announced'[r] > 0
  PROVE  charge'[r] = "confirmed" => announced'[r] > 0
<1>1. announced[r] \in Nat /\ announced'[r] \in Nat
  BY DEF TypeOK
<1> QED BY <1>1

\* Every row the books confirm has been announced.
Told == \A r \in Rows : charge[r] = "confirmed" /\ (r \in Pays \/ SettlementOn) => announced[r] > 0

\* "Called once whenever a charge reaches 'confirmed', from ANY path: the inline confirm
\* below and the reconcile sweep both fire it" (spend.ts 112-113): on the KeeperHub lane,
\* for any number of calls, sweeps and restarts.
THEOREM ConfirmationsAreAnnounced ==
  ASSUME ~ViaChain
  PROVE  Spec => []ConfirmedIsAnnounced
<1> DEFINE AuthsUnsent == \A a \in Auths : sends[a] = 0
<1>1. Init => Told /\ AuthsUnsent
  BY CallTypes DEF Init, Told, Rows
<1>2. TypeOK /\ TypeOK' /\ RowsFollowCalls /\ Told /\ [Next]_vars => Told'
  <2> SUFFICES ASSUME TypeOK, TypeOK', RowsFollowCalls, Told, [Next]_vars,
                      NEW q \in Rows, q \in Pays \/ SettlementOn
               PROVE  charge'[q] = "confirmed" => announced'[q] > 0
    BY DEF Told
  <2>0. /\ charge[q] = "confirmed" => announced[q] > 0
        /\ announced[q] \in Nat
        /\ SweptRows
    BY DEF Told, TypeOK, RowsFollowCalls, PaysInStep
  <2>1. ASSUME NEW p \in Pays, CallStep(p) PROVE charge'[q] = "confirmed" => announced'[q] > 0
    BY <2>0, <2>1, CallAnnounces, CallTypes, StaysTold
  <2>2. ASSUME NEW p \in Pays, Replay(p) \/ PayBegin(p)
        PROVE  charge'[q] = "confirmed" => announced'[q] > 0
    BY <2>0, <2>2 DEF Replay, PayBegin, ClearPrior, books
  <2>3. CASE SweepStep
    BY <2>0, <2>3, SweepAnnounces, StaysTold
  <2>4. CASE (\E a \in Auths : Authorize(a)) \/ OwnerStep \/ Environment \/ Crash
    BY <2>0, <2>4, OthersAnnounce
  <2>5. CASE UNCHANGED vars
    BY <2>0, <2>5 DEF vars, books
  <2> QED BY <2>1, <2>2, <2>3, <2>4, <2>5 DEF Next, PayStep
<1>3. TypeOK /\ AuthsUnsent /\ [Next]_vars => AuthsUnsent'
  <2> SUFFICES ASSUME TypeOK, AuthsUnsent, [Next]_vars, NEW a \in Auths PROVE sends'[a] = sends[a]
    OBVIOUS
  <2>1. ASSUME NEW p \in Pays, PayStep(p) PROVE sends'[a] = sends[a]
    <3>1. p # a /\ a \in Rows /\ RowOf(p) = p
      BY CallTypes DEF Rows
    <3>2. CASE Broadcast(p)
      BY <3>1, <3>2 DEF Broadcast, TypeOK
    <3>3. CASE ~Broadcast(p)
      BY <2>1, <3>3 DEF PayStep, CallStep, Replay, PayBegin, QuoteFee, RaiseFee, Abort, Overdrawn,
         BookAndWait, Recheck, BlockUnknown, BookAndSend, SendReturns, SendThrows, PollRelayer, PollLogs,
         PollKeeperHub, PollGivesUp, Confirm, Reverted, chain
    <3> QED BY <3>2, <3>3
  <2>2. CASE (\E b \in Auths : Authorize(b)) \/ SweepStep \/ OwnerStep \/ Environment \/ Crash
    BY <2>2 DEF Authorize, SweepStep, SweepBegin, SweepScan, SweepFails, SweepApply, SweepAnswer,
       SweepNoAnswer, OwnerStep, Freeze, Unfreeze, Revoke, Environment, Mine, Interrupt, Crash, chain
  <2>3. CASE UNCHANGED vars
    BY <2>3 DEF vars, chain
  <2> QED BY <2>1, <2>2, <2>3 DEF Next
<1>4. Told /\ AuthsUnsent => ConfirmedIsAnnounced
  BY DEF ConfirmedIsAnnounced, Told, Rows
<1> QED BY <1>1, <1>2, <1>3, <1>4, TypesHold, CallsAndRowsInStep, PTL DEF Spec

\* There is nothing to disagree about at first.
LEMMA InitAgree == Init => BooksAgree
  BY CallTypes DEF Init, BooksAgree

\* Every step keeps books and chain in agreement, if errors and queries are reliable.
LEMMA StepAgree ==
  ASSUME ~AmbiguousSend, ~RpcBlips, ~StaleCollector
  PROVE  TypeOK /\ PaysInStep /\ BooksAgree /\ PaysNext => BooksAgree'
<1> SUFFICES ASSUME TypeOK, PaysInStep, BooksAgree, PaysNext PROVE BooksAgree'
  OBVIOUS
<1> DEFINE AgreesNow(q) ==
      /\ charge[q] = "confirmed" => fate[q] = "landed" /\ q \notin interrupted
      /\ charge[q] = "failed" => fate[q] \in {"none", "dropped"} \/ q \in interrupted
<1>1. ASSUME NEW q \in Pays PROVE AgreesNow(q)'
  <2>0. q \in Rows /\ Follows(q) /\ AgreesNow(q)
    BY CallTypes DEF PaysInStep, BooksAgree
  <2>1. ASSUME NEW p \in Pays, PayStep(p) PROVE AgreesNow(q)'
    <3>1. RowAdvances(p) /\ OthersKept(p)
      BY <2>1, PayRowStep
    <3>2. CASE p = q
      <4>1. pc[p] \in {"estimate", "block", "send"} => fate[p] = "none"
        BY <3>2, <2>0 DEF Follows, Unbooked, Unsent
      <4>2. charge[p] = "pending" \/ pc[p] \notin {"block", "send", "sent"}
        BY <3>2, <2>0 DEF Follows, Unsent
      <4>3. interrupted' = interrupted
        BY <3>1 DEF RowAdvances
      <4>4. CASE charge'[p] = charge[p]
        BY <3>1, <3>2, <2>0, <4>1, <4>2, <4>3, <4>4 DEF RowAdvances
      <4>5. CASE charge'[p] # charge[p]
        <5>1. CASE pc[p] \in {"poll", "logs"}
          BY <3>1, <3>2, <2>0, <4>3, <4>5, <5>1 DEF RowAdvances, Ended, BooksAgree
        <5>2. CASE pc[p] \notin {"poll", "logs"}
          BY <3>1, <3>2, <4>1, <4>3, <4>5, <5>2 DEF RowAdvances
        <5> QED BY <5>1, <5>2
      <4> QED BY <4>4, <4>5
    <3>3. CASE p # q
      BY <3>1, <3>3, <2>0 DEF OthersKept, RowAdvances
    <3> QED BY <3>2, <3>3
  <2>2. CASE Outside
    BY <2>2, <2>0, OtherRowStep, RunInterrupted DEF Ended, BooksAgree
  <2>3. CASE Beside
    BY <2>3, <2>0 DEF Beside
  <2> QED BY <2>1, <2>2, <2>3 DEF PaysNext
<1>2. ASSUME ViaChain PROVE interrupted' = interrupted
  <2>1. ASSUME NEW p \in Pays, PayStep(p) PROVE interrupted' = interrupted
    BY <2>1, PayRowStep DEF RowAdvances
  <2>2. CASE Outside
    BY <1>2, <2>2, RunInterrupted
  <2>3. CASE Beside
    BY <2>3 DEF Beside
  <2> QED BY <2>1, <2>2, <2>3 DEF PaysNext
<1> QED BY <1>1, <1>2 DEF BooksAgree

\* Money on its way or gone stays counted by the budget, whenever the executor's errors
\* and the log queries are reliable and the fees go where the sweep looks for them; rows
\* whose KeeperHub run was reported as failed with its write out (executor.ts 525-528,
\* 555-557) are the exception, any number of them.
THEOREM MovedStaysCounted ==
  ASSUME ~AmbiguousSend, ~RpcBlips, ~StaleCollector
  PROVE  Spec => []MovedIsCounted
<1>1. RowsFollowCalls /\ SentIsBooked /\ BooksAgree => MovedIsCounted
  BY CallTypes DEF RowsFollowCalls, AuthsWait, SentIsBooked, BooksAgree, MovedIsCounted, Counted, Rows
<1>2. RowsFollowCalls => PaysInStep
  BY DEF RowsFollowCalls
<1> QED BY <1>1, <1>2, InitSent, StepSent, InitAgree, StepAgree, NextOfPays, TypesHold,
        CallsAndRowsInStep, PTL DEF Spec

\* Under the same assumptions a final row is only ever deleted to be retried.
THEOREM FinalRowsStay ==
  ASSUME ~AmbiguousSend, ~RpcBlips, ~StaleCollector
  PROVE  Spec => FinalStaysFinal
<1> DEFINE Step ==
      \A r \in Rows :
        charge[r] \in {"confirmed", "failed"} /\ charge'[r] # charge[r]
        => Retryable(r) /\ charge'[r] = "deleted"
<1>1. TypeOK /\ RowsFollowCalls /\ BooksAgree /\ [Next]_vars => [Step]_vars
  <2> SUFFICES ASSUME TypeOK, RowsFollowCalls, BooksAgree, Next, NEW r \in Rows,
                      charge[r] \in {"confirmed", "failed"}, charge'[r] # charge[r]
               PROVE  Retryable(r) /\ charge'[r] = "deleted"
    OBVIOUS
  <2>1. ASSUME NEW p \in Pays, PayStep(p) PROVE Retryable(r) /\ charge'[r] = "deleted"
    <3>1. RowAdvances(p) /\ OthersKept(p) /\ Follows(p)
      BY <2>1, PayRowStep DEF RowsFollowCalls, PaysInStep
    <3>2. p # r
      BY <3>1 DEF RowAdvances, Ended, Follows, Unbooked, Unsent, BooksAgree
    <3> QED BY <3>1, <3>2 DEF OthersKept, Retryable
  <2>2. ASSUME NEW a \in Auths, Authorize(a) PROVE FALSE
    BY <2>2 DEF Authorize, TypeOK
  <2>3. ASSUME SweepStep \/ OwnerStep \/ Environment \/ Crash PROVE FALSE
    <3>1. CASE r \in Pays
      BY <2>3, <3>1, OtherRowStep DEF RowsFollowCalls, BooksAgree, Ended, Outside
    <3>2. CASE r \in Auths
      <4>1. r \notin sweep.rows
        BY <3>2 DEF RowsFollowCalls, AuthsWait
      <4>2. CASE SweepStep
        BY <4>1, <4>2 DEF SweepStep, SweepBegin, SweepScan, SweepFails, SweepApply, SweepAnswer, SweepNoAnswer,
                          SetStatus, books, TypeOK
      <4> QED BY <2>3, <4>2
              DEF OwnerStep, Freeze, Unfreeze, Revoke, Environment, Mine, Interrupt, Crash, books
    <3> QED BY <3>1, <3>2 DEF Rows
  <2> QED BY <2>1, <2>2, <2>3 DEF Next
<1>2. RowsFollowCalls => PaysInStep
  BY DEF RowsFollowCalls
<1> QED BY <1>1, <1>2, InitAgree, StepAgree, NextOfPays, TypesHold, CallsAndRowsInStep, PTL
        DEF Spec, FinalStaysFinal

-----------------------------------------------------------------------------
(* The books implement the account.                                        *)

\* A payment that is booked to be sent takes budget by a check on the books as they are.
LEMMA BookingTakes ==
  ASSUME TypeOK, RowsFollowCalls, NEW p \in Pays,
         BookAndWait(p) \/ (BookAndSend(p) /\ Spendable(CardUsed(p)))
  PROVE  Books!Take(p)
<1> USE CallTypes
<1>1. /\ pc[p] = "estimate" /\ Fits(p, quote[p])
      /\ charge' = [charge EXCEPT ![p] = "pending"] /\ feeOf' = [feeOf EXCEPT ![p] = quote[p]]
  BY DEF BookAndWait, BookAndSend, BookRow
<1>2. charge[p] = "none"
  BY <1>1 DEF RowsFollowCalls, PaysInStep, Follows, Unbooked
<1>3. p \notin Counted /\ Counted' = Counted \cup {p}
  BY <1>1, <1>2 DEF Counted, Booked, TypeOK
<1>4. feeOf'[p] = quote[p] /\ quote[p] \in Nat
  BY <1>1 DEF TypeOK
<1>5. Allowed(Counted, feeOf, p, feeOf'[p])
  BY <1>1, <1>4 DEF Fits, Allowed
<1> QED BY <1>1, <1>3, <1>4, <1>5 DEF Books!Take

\* So does an authorization the webhook approves, which does not wait for the mutex.
LEMMA AuthorizationTakes ==
  ASSUME TypeOK, NEW a \in Auths, Authorize(a)
  PROVE  Books!Take(a)
<1> DEFINE f == IF SettlementOn THEN Headroom ELSE 0
<1>1. /\ a \in Rows /\ charge[a] = "none" /\ Approves(a) /\ f \in Nat
      /\ charge' = [charge EXCEPT ![a] = IF SettlementOn THEN "pending" ELSE "confirmed"]
      /\ feeOf' = [feeOf EXCEPT ![a] = f]
  BY DEF Authorize, Rows
<1>2. a \notin Counted /\ Counted' = Counted \cup {a}
  BY <1>1 DEF Counted, Booked, TypeOK
<1>3. feeOf'[a] = f
  BY <1>1 DEF TypeOK
<1>4. Allowed(Counted, feeOf, a, feeOf'[a])
  BY <1>1, <1>3 DEF Approves, Allowed
<1> QED BY <1>1, <1>2, <1>3, <1>4 DEF Books!Take

\* Every other step of a call leaves the fees of the rows that count alone.
LEMMA OtherFeesKept ==
  ASSUME TypeOK, NEW p \in Pays, PayStep(p), ~BookAndWait(p),
         ~(BookAndSend(p) /\ Spendable(CardUsed(p)))
  PROVE  \/ feeOf' = feeOf
         \/ charge'[p] = "failed" /\ feeOf' = [feeOf EXCEPT ![p] = quote[p]]
<1> USE CallTypes
<1>1. CASE BookAndSend(p)
  BY <1>1 DEF BookAndSend, BookRow, TypeOK
<1>2. CASE ~BookAndSend(p)
  BY <1>2 DEF PayStep, CallStep, Replay, PayBegin, QuoteFee, RaiseFee, Abort, Overdrawn, Recheck,
              BlockUnknown, Broadcast, SendReturns, SendThrows, PollRelayer, PollLogs,
              PollKeeperHub, PollGivesUp, Confirm, Reverted, books
<1> QED BY <1>1, <1>2

\* A call that has not booked its row yet books it in those two steps only.
LEMMA NotBooked ==
  ASSUME TypeOK, NEW p \in Pays, PayStep(p), ~BookAndWait(p),
         ~(BookAndSend(p) /\ Spendable(CardUsed(p))), pc[p] = "estimate"
  PROVE  charge'[p] \in {charge[p], "failed"}
<1> USE CallTypes
<1>1. CASE BookAndSend(p)
  BY <1>1 DEF BookAndSend, BookRow, TypeOK
<1>2. CASE ~BookAndSend(p)
  BY <1>2 DEF PayStep, CallStep, Replay, PayBegin, Turn, QuoteFee, RaiseFee, Abort, Overdrawn, Recheck,
              BlockUnknown, Broadcast, SendReturns, SendThrows, PollRelayer, PollLogs,
              PollKeeperHub, PollGivesUp, Confirm, Reverted, books
<1> QED BY <1>1, <1>2

\* What the books promise to the account, one step at a time.
LEMMA AccountStep ==
  ASSUME ~AmbiguousSend, ~RpcBlips, ~StaleCollector
  PROVE  TypeOK /\ TypeOK' /\ RowsFollowCalls /\ RowsFollowCalls' /\ BooksAgree /\ [Next]_vars
         => [Books!Next]_<<Counted, feeOf>>
<1> SUFFICES ASSUME TypeOK, TypeOK', RowsFollowCalls, RowsFollowCalls', BooksAgree, [Next]_vars
             PROVE  [Books!Next]_<<Counted, feeOf>>
  OBVIOUS
<1>0. feeOf \in [Rows -> Nat] /\ feeOf' \in [Rows -> Nat]
  BY DEF TypeOK
<1>1. ASSUME NEW p \in Pays, PayStep(p) PROVE Books!Next
  <2>1. CASE BookAndWait(p) \/ (BookAndSend(p) /\ Spendable(CardUsed(p)))
    BY <2>1, BookingTakes, CallTypes DEF Books!Next
  <2>2. CASE ~BookAndWait(p) /\ ~(BookAndSend(p) /\ Spendable(CardUsed(p)))
    <3>1. RowAdvances(p) /\ OthersKept(p) /\ Follows(p) /\ Follows(p)'
      BY <1>1, PayRowStep DEF RowsFollowCalls, PaysInStep
    <3>2. \/ feeOf' = feeOf
          \/ charge'[p] = "failed" /\ feeOf' = [feeOf EXCEPT ![p] = quote[p]]
      BY <1>1, <2>2, OtherFeesKept
    <3>3. charge'[p] \in {charge[p], "failed", "confirmed"}
      BY <1>1, <2>2, <3>1, NotBooked, CallTypes DEF RowAdvances
    <3>4. p \in Counted' => p \in Counted
      BY <3>1, <3>3, CallTypes DEF RowAdvances, Follows, Unsent, Issued, BooksAgree, Counted, Booked
    <3>5. \A r \in Rows \ {p} : r \in Counted' => r \in Counted
      BY <3>1 DEF OthersKept, Counted, Booked
    <3>6. Counted' \subseteq Counted
      BY <3>4, <3>5 DEF Counted, Booked
    <3>7. \A r \in Counted' : feeOf'[r] = feeOf[r] /\ feeOf[r] \in Nat
      BY <1>0, <3>2 DEF Counted, Booked
    <3> QED BY <1>0, <3>6, <3>7 DEF Books!Next, Books!GiveBack
  <2> QED BY <2>1, <2>2
<1>2. ASSUME NEW a \in Auths, Authorize(a) PROVE Books!Next
  BY <1>2, AuthorizationTakes DEF Books!Next, Rows
<1>3. CASE SweepStep \/ OwnerStep \/ Environment \/ Crash
  <2>1. feeOf' = feeOf
    BY <1>3 DEF SweepStep, SweepBegin, SweepScan, SweepFails, SweepApply, SweepAnswer, SweepNoAnswer,
                OwnerStep, Freeze, Unfreeze, Revoke, Environment, Mine, Interrupt, Crash, books
  <2>2. \A q \in Pays : q \in Counted' => q \in Counted
    BY <1>3, OtherRowStep DEF RowsFollowCalls, BooksAgree, Counted, Booked, Outside
  <2>3. \A a \in Auths : charge'[a] = charge[a]
    <3>1. \A a \in Auths : a \notin sweep.rows /\ a \in Rows
      BY DEF RowsFollowCalls, AuthsWait, Rows
    <3>2. CASE SweepStep
      BY <3>1, <3>2 DEF SweepStep, SweepBegin, SweepScan, SweepFails, SweepApply, SweepAnswer, SweepNoAnswer,
                        SetStatus, books, TypeOK
    <3> QED BY <1>3, <3>2 DEF OwnerStep, Freeze, Unfreeze, Revoke, Environment, Mine, Interrupt, Crash, books
  <2>4. Counted' \subseteq Counted
    BY <2>2, <2>3 DEF Counted, Booked, Rows
  <2>5. \A r \in Counted' : feeOf'[r] <= feeOf[r]
    BY <1>0, <2>1 DEF Counted, Booked
  <2> QED BY <1>0, <2>4, <2>5 DEF Books!Next, Books!GiveBack
<1>4. CASE UNCHANGED vars
  BY <1>4 DEF vars, books, Counted, Booked
<1> QED BY <1>1, <1>2, <1>3, <1>4 DEF Next

\* "Budget re-validate + reservation insert as ONE synchronous pair" (spend.ts 713): with
\* any number of payments, authorizations, sweeps and restarts, a row comes to count only
\* by a check on the books of that moment and never again once it was released, whenever
\* the executor's errors and the log queries are reliable and fees go to one address.
THEOREM BooksAreAnAccount ==
  ASSUME ~AmbiguousSend, ~RpcBlips, ~StaleCollector
  PROVE  Spec => ImplementsAccount
<1>1. Init => Books!Init
  BY DEF Init, Books!Init, Counted, Booked
<1>2. RowsFollowCalls => PaysInStep
  BY DEF RowsFollowCalls
<1> QED BY <1>1, <1>2, AccountStep, InitAgree, StepAgree, NextOfPays, TypesHold, CallsAndRowsInStep, PTL
        DEF Spec, ImplementsAccount, Books!Spec

-----------------------------------------------------------------------------
(* The limits: what the books count, and what a step of the account does   *)
(* to it.                                                                  *)

\* The atoms one row takes.
LEMMA RowAtoms ==
  ASSUME NEW r, NEW n \in Nat
  PROVE  IsFiniteSet({r} \X (1..n)) /\ Cardinality({r} \X (1..n)) = n
<1>1. IsFiniteSet({r}) /\ Cardinality({r}) = 1
  BY FS_Singleton
<1>2. IsFiniteSet(1..n) /\ Cardinality(1..n) = n
  BY FS_Interval
<1>3. /\ IsFiniteSet({r} \X (1..n))
      /\ Cardinality({r} \X (1..n)) = Cardinality({r}) * Cardinality(1..n)
  BY <1>1, <1>2, FS_Product
<1> QED BY <1>1, <1>2, <1>3

\* Finitely many rows take finitely many atoms.
LEMMA AtomsFinite ==
  ASSUME NEW rows, IsFiniteSet(rows), NEW amount, NEW fee,
         \A r \in rows : amount[r] + fee[r] \in Nat
  PROVE  IsFiniteSet(Atoms(rows, amount, fee))
<1> DEFINE Of(r) == {r} \X (1..(amount[r] + fee[r]))
           parts == {Of(r) : r \in rows}
           f == [r \in rows |-> Of(r)]
<1>1. f \in Surjection(rows, parts)
  BY DEF Surjection
<1>2. IsFiniteSet(parts)
  BY <1>1, FS_Surjection
<1>3. \A r \in rows : IsFiniteSet(Of(r))
  BY RowAtoms
<1>4. \A T \in parts : IsFiniteSet(T)
  BY <1>3
<1>5. IsFiniteSet(UNION parts)
  <2> HIDE DEF parts
  <2> QED BY <1>2, <1>4, FS_UNION
<1> QED BY <1>5 DEF Atoms

\* One more row takes its amount and fee on top of the others.
LEMMA AtomsAdd ==
  ASSUME NEW rows, IsFiniteSet(rows), NEW r, r \notin rows, NEW amount, NEW fee,
         \A q \in rows \cup {r} : amount[q] + fee[q] \in Nat
  PROVE  Cardinality(Atoms(rows \cup {r}, amount, fee))
         = Cardinality(Atoms(rows, amount, fee)) + (amount[r] + fee[r])
<1> DEFINE old == Atoms(rows, amount, fee)
           new == {r} \X (1..(amount[r] + fee[r]))
<1>1. Atoms(rows \cup {r}, amount, fee) = old \cup new
  BY DEF Atoms
<1>2. IsFiniteSet(old) /\ IsFiniteSet(new) /\ Cardinality(new) = amount[r] + fee[r]
  BY AtomsFinite, RowAtoms
<1>3. old \cap new = {}
  BY DEF Atoms
<1>4. Cardinality(old \cup new) = Cardinality(old) + Cardinality(new) - Cardinality(old \cap new)
  BY <1>2, FS_Union
<1>5. Cardinality(old) \in Nat /\ Cardinality(new) \in Nat
  BY <1>2, FS_CardinalityType
<1>6. Cardinality(old \cap new) = 0
  BY <1>3, FS_EmptySet
<1>7. Cardinality(old \cup new) = Cardinality(old) + Cardinality(new)
  <2> HIDE DEF old, new
  <2> QED BY <1>4, <1>5, <1>6
<1> QED BY <1>1, <1>2, <1>7

\* Fewer rows with lower fees take no more.
LEMMA AtomsShrink ==
  ASSUME NEW rows, IsFiniteSet(rows), NEW less \in SUBSET rows, NEW amount, NEW fee, NEW lower,
         \A r \in rows : amount[r] \in Nat /\ fee[r] \in Nat,
         \A r \in less : lower[r] \in Nat /\ lower[r] <= fee[r]
  PROVE  Cardinality(Atoms(less, amount, lower)) <= Cardinality(Atoms(rows, amount, fee))
<1>1. Atoms(less, amount, lower) \subseteq Atoms(rows, amount, fee)
  <2> SUFFICES ASSUME NEW r \in less
               PROVE  {r} \X (1..(amount[r] + lower[r])) \subseteq {r} \X (1..(amount[r] + fee[r]))
    BY DEF Atoms
  <2>1. 1..(amount[r] + lower[r]) \subseteq 1..(amount[r] + fee[r])
    OBVIOUS
  <2> QED BY <2>1
<1>2. IsFiniteSet(Atoms(rows, amount, fee))
  BY AtomsFinite
<1> QED BY <1>1, <1>2, FS_Subset

\* The counted rows a limit of the account reads.
LEMMA SubtreeTypes ==
  ASSUME NEW rows \in SUBSET Rows, IsFiniteSet(rows), NEW fee \in [Rows -> Nat], NEW c \in Cards
  PROVE  /\ SubtreeRows(c, rows, CardOf) \in SUBSET rows
         /\ IsFiniteSet(SubtreeRows(c, rows, CardOf))
         /\ SubtreeUses(c, rows, CardOf) \in Nat
         /\ SubtreeSpent(c, rows, CardOf, Amount, fee) \in Nat
<1>1. SubtreeRows(c, rows, CardOf) \in SUBSET rows
  BY DEF SubtreeRows
<1>2. IsFiniteSet(SubtreeRows(c, rows, CardOf))
  BY <1>1, FS_Subset
<1>3. \A r \in SubtreeRows(c, rows, CardOf) : Amount[r] + fee[r] \in Nat
  BY <1>1
<1>4. IsFiniteSet(Atoms(SubtreeRows(c, rows, CardOf), Amount, fee))
  BY <1>2, <1>3, AtomsFinite
<1> QED BY <1>1, <1>2, <1>4, FS_CardinalityType DEF SubtreeUses, SubtreeSpent

\* Taking budget within the limits leaves every card of the tree within its limits.
LEMMA TakeWithinLimits ==
  ASSUME NEW rows \in SUBSET Rows, IsFiniteSet(rows), NEW fee \in [Rows -> Nat],
         NEW r \in Rows, r \notin rows, NEW f \in Nat,
         LimitsRespected(rows, CardOf, Amount, fee), Allowed(rows, fee, r, f)
  PROVE  LimitsRespected(rows \cup {r}, CardOf, Amount, [fee EXCEPT ![r] = f])
<1> DEFINE now == rows \cup {r}
           fees == [fee EXCEPT ![r] = f]
<1> SUFFICES ASSUME NEW c \in Cards
             PROVE  /\ MaxUses[c] # Unlimited => SubtreeUses(c, now, CardOf) <= MaxUses[c]
                    /\ Cap[c] # Unlimited => SubtreeSpent(c, now, CardOf, Amount, fees) <= Cap[c]
  BY DEF LimitsRespected
<1> DEFINE mine == SubtreeRows(c, rows, CardOf)
<1>1. /\ mine \in SUBSET rows /\ IsFiniteSet(mine)
      /\ Cardinality(mine) \in Nat
  BY SubtreeTypes DEF SubtreeUses
<1>2. Atoms(mine, Amount, fees) = Atoms(mine, Amount, fee)
  BY <1>1 DEF Atoms
<1>3. /\ MaxUses[c] # Unlimited => Cardinality(mine) <= MaxUses[c]
      /\ Cap[c] # Unlimited => Cardinality(Atoms(mine, Amount, fee)) <= Cap[c]
  BY DEF LimitsRespected, SubtreeUses, SubtreeSpent
<1>4. CASE c \in Ancestors[CardOf[r]]
  <2>1. SubtreeRows(c, now, CardOf) = mine \cup {r}
    BY <1>4 DEF SubtreeRows, Subtree
  <2>2. /\ MaxUses[c] # Unlimited => Cardinality(mine) < MaxUses[c]
        /\ Cap[c] # Unlimited => Cardinality(Atoms(mine, Amount, fee)) + (Amount[r] + f) <= Cap[c]
    BY <1>4 DEF Allowed, WithinLimits, UseLeft, Affordable, SubtreeUses, SubtreeSpent
  <2>3. Cardinality(mine \cup {r}) = Cardinality(mine) + 1
    BY <1>1, FS_AddElement
  <2>4. \A q \in mine \cup {r} : Amount[q] + fees[q] \in Nat
    BY <1>1
  <2>5. Cardinality(Atoms(mine \cup {r}, Amount, fees))
        = Cardinality(Atoms(mine, Amount, fees)) + (Amount[r] + fees[r])
    <3>1. r \notin mine
      BY <1>1
    <3> HIDE DEF mine, fees
    <3> QED BY <1>1, <2>4, <3>1, AtomsAdd
  <2>6. SubtreeSpent(c, now, CardOf, Amount, fees) = Cardinality(Atoms(mine, Amount, fee)) + (Amount[r] + f)
    BY <1>2, <2>1, <2>5 DEF SubtreeSpent
  <2>7. MaxUses[c] # Unlimited => Cardinality(mine \cup {r}) <= MaxUses[c]
    <3>1. MaxUses[c] \in Nat \cup {Unlimited}
      BY LedgerAssumption
    <3> HIDE DEF mine
    <3> QED BY <1>1, <2>2, <2>3, <3>1
  <2>8. SubtreeUses(c, now, CardOf) = Cardinality(mine \cup {r})
    BY <2>1 DEF SubtreeUses
  <2> HIDE DEF mine, now, fees
  <2> QED BY <2>2, <2>6, <2>7, <2>8
<1>5. CASE c \notin Ancestors[CardOf[r]]
  <2>1. SubtreeRows(c, now, CardOf) = mine
    BY <1>5 DEF SubtreeRows, Subtree
  <2> QED BY <1>2, <1>3, <2>1 DEF SubtreeUses, SubtreeSpent
<1> QED BY <1>4, <1>5

\* Giving budget back does too.
LEMMA GiveBackWithinLimits ==
  ASSUME NEW rows \in SUBSET Rows, IsFiniteSet(rows), NEW fee \in [Rows -> Nat],
         NEW less \in SUBSET rows, NEW lower \in [Rows -> Nat],
         \A r \in less : lower[r] <= fee[r],
         LimitsRespected(rows, CardOf, Amount, fee)
  PROVE  LimitsRespected(less, CardOf, Amount, lower)
<1> SUFFICES ASSUME NEW c \in Cards
             PROVE  /\ MaxUses[c] # Unlimited => SubtreeUses(c, less, CardOf) <= MaxUses[c]
                    /\ Cap[c] # Unlimited => SubtreeSpent(c, less, CardOf, Amount, lower) <= Cap[c]
  BY DEF LimitsRespected
<1> DEFINE was == SubtreeRows(c, rows, CardOf)
           is == SubtreeRows(c, less, CardOf)
<1>1. /\ was \in SUBSET rows /\ IsFiniteSet(was) /\ is \in SUBSET was /\ is \in SUBSET less
  BY SubtreeTypes DEF SubtreeRows
<1>2. Cardinality(is) <= Cardinality(was) /\ Cardinality(is) \in Nat /\ Cardinality(was) \in Nat
  BY <1>1, FS_Subset, FS_CardinalityType
<1>3. Cardinality(Atoms(is, Amount, lower)) <= Cardinality(Atoms(was, Amount, fee))
  <2>1. \A r \in was : Amount[r] \in Nat /\ fee[r] \in Nat
    BY <1>1
  <2>2. \A r \in is : lower[r] \in Nat /\ lower[r] <= fee[r]
    BY <1>1
  <2> HIDE DEF was, is
  <2> QED BY <1>1, <2>1, <2>2, AtomsShrink
<1>4. /\ SubtreeSpent(c, rows, CardOf, Amount, fee) \in Nat
      /\ SubtreeSpent(c, less, CardOf, Amount, lower) \in Nat
  <2>1. IsFiniteSet(less)
    BY FS_Subset
  <2> QED BY <2>1, SubtreeTypes
<1>5. /\ MaxUses[c] # Unlimited => Cardinality(was) <= MaxUses[c]
      /\ Cap[c] # Unlimited => Cardinality(Atoms(was, Amount, fee)) <= Cap[c]
  BY DEF LimitsRespected, SubtreeUses, SubtreeSpent
<1>6. MaxUses[c] \in Nat \cup {Unlimited} /\ Cap[c] \in Nat \cup {Unlimited}
  BY LedgerAssumption
<1> QED BY <1>2, <1>3, <1>4, <1>5, <1>6 DEF SubtreeUses, SubtreeSpent

\* The limits hold of the account, whatever its steps.
LEMMA AccountKeepsLimits ==
  ASSUME TypeOK, TypeOK', IsFiniteSet(Counted), LimitsHeld, [Books!Next]_<<Counted, feeOf>>
  PROVE  IsFiniteSet(Counted') /\ LimitsHeld'
<1>0. Counted \in SUBSET Rows /\ feeOf \in [Rows -> Nat] /\ feeOf' \in [Rows -> Nat]
  BY DEF Counted, Booked, TypeOK
<1>1. ASSUME NEW r \in Rows, Books!Take(r) PROVE IsFiniteSet(Counted') /\ LimitsHeld'
  <2>1. /\ r \notin Counted /\ feeOf'[r] \in Nat /\ Allowed(Counted, feeOf, r, feeOf'[r])
        /\ Counted' = Counted \cup {r} /\ feeOf' = [feeOf EXCEPT ![r] = feeOf'[r]]
    BY <1>1 DEF Books!Take
  <2>2. IsFiniteSet(Counted')
    BY <2>1, FS_AddElement
  <2>3. LimitsRespected(Counted \cup {r}, CardOf, Amount, [feeOf EXCEPT ![r] = feeOf'[r]])
    BY <1>0, <2>1, TakeWithinLimits DEF LimitsHeld
  <2> QED BY <2>1, <2>2, <2>3 DEF LimitsHeld
<1>2. CASE Books!GiveBack
  <2>1. /\ Counted' \in SUBSET Counted /\ \A r \in Counted' : feeOf'[r] <= feeOf[r]
    BY <1>2 DEF Books!GiveBack
  <2>2. IsFiniteSet(Counted')
    BY <2>1, FS_Subset
  <2>3. LimitsRespected(Counted', CardOf, Amount, feeOf')
    BY <1>0, <2>1, GiveBackWithinLimits DEF LimitsHeld
  <2> QED BY <2>2, <2>3 DEF LimitsHeld
<1>3. CASE UNCHANGED <<Counted, feeOf>>
  BY <1>3 DEF LimitsHeld
<1> QED BY <1>1, <1>2, <1>3 DEF Books!Next

\* Nothing counts at first.
LEMMA InitWithinLimits == Init => IsFiniteSet(Counted) /\ LimitsHeld
<1> SUFFICES ASSUME Init PROVE IsFiniteSet(Counted) /\ LimitsHeld
  OBVIOUS
<1>1. Counted = {}
  BY DEF Init, Counted, Booked
<1>2. \A c \in Cards : SubtreeRows(c, Counted, CardOf) = {}
  BY <1>1 DEF SubtreeRows
<1>3. Atoms({}, Amount, feeOf) = {}
  BY DEF Atoms
<1>4. \A c \in Cards : /\ SubtreeUses(c, Counted, CardOf) = 0
                       /\ SubtreeSpent(c, Counted, CardOf, Amount, feeOf) = 0
  BY <1>2, <1>3, FS_EmptySet DEF SubtreeUses, SubtreeSpent
<1>5. IsFiniteSet(Counted)
  BY <1>1, FS_EmptySet
<1>6. \A c \in Cards : MaxUses[c] \in Nat \cup {Unlimited} /\ Cap[c] \in Nat \cup {Unlimited}
  BY LedgerAssumption
<1> QED BY <1>4, <1>5, <1>6 DEF LimitsHeld, LimitsRespected

\* No card is ever booked past its budget or its number of uses, by any number of payments,
\* authorizations, sweeps and restarts, although authorizations are booked outside the mutex
\* while a payment waits for its estimate (spend.ts 713-744): whenever the executor's errors
\* and the log queries are reliable and the fees go where the sweep looks for them.
THEOREM LimitsAreHeld ==
  ASSUME ~AmbiguousSend, ~RpcBlips, ~StaleCollector
  PROVE  Spec => []LimitsHeld
<1>1. /\ TypeOK /\ TypeOK' /\ RowsFollowCalls /\ RowsFollowCalls' /\ BooksAgree /\ [Next]_vars
      /\ IsFiniteSet(Counted) /\ LimitsHeld
      => (IsFiniteSet(Counted) /\ LimitsHeld)'
  BY AccountStep, AccountKeepsLimits
<1>2. RowsFollowCalls => PaysInStep
  BY DEF RowsFollowCalls
<1> QED BY <1>1, <1>2, InitWithinLimits, InitAgree, StepAgree, NextOfPays, TypesHold,
        CallsAndRowsInStep, PTL DEF Spec

-----------------------------------------------------------------------------
(* Fiat settlement: what a call's step does to the mutex and to the rows.  *)

\* A return leaves the mutex section of its tree and no other.
LEMMA ReturnLeaves ==
  ASSUME TypeOK, NEW p \in Procs, NEW res, Return(p, res)
  PROVE  /\ pc' = [pc EXCEPT ![p] = "done"]
         /\ holder' = [holder EXCEPT ![TreeOf(CardUsed(p))] = None]
  BY DEF Return, Goto

\* A call's step moves the call alone, and ends the call or keeps its mutex section.
LEMMA CallMoves ==
  ASSUME TypeOK, NEW p \in Procs, CallStep(p)
  PROVE  /\ pc[p] \in Awaiting
         /\ \A q \in Procs \ {p} : pc'[q] = pc[q]
         /\ \/ pc'[p] \in Awaiting /\ holder' = holder
            \/ pc'[p] = "done" /\ holder' = [holder EXCEPT ![TreeOf(CardUsed(p))] = None]
<1> DEFINE Moves == /\ \A q \in Procs \ {p} : pc'[q] = pc[q]
                    /\ \/ pc'[p] \in Awaiting /\ holder' = holder
                       \/ pc'[p] = "done" /\ holder' = [holder EXCEPT ![TreeOf(CardUsed(p))] = None]
<1>0. pc[p] \in Awaiting
  BY DEF CallStep, QuoteFee, RaiseFee, Abort, Overdrawn, BookAndWait, Recheck, BlockUnknown, BookAndSend,
         Broadcast, SendReturns, SendThrows, PollRelayer, PollLogs, PollKeeperHub, PollGivesUp, Awaiting
<1> SUFFICES Moves
  BY <1>0
<1>1. ASSUME NEW res, Return(p, res) PROVE Moves
  BY <1>1, ReturnLeaves DEF TypeOK
<1>2. ASSUME NEW l \in Awaiting, Goto(p, l), holder' = holder PROVE Moves
  BY <1>2 DEF Goto, TypeOK
<1>3. CASE UNCHANGED <<pc, holder>>
  BY <1>0, <1>3
<1>4. CASE QuoteFee(p) \/ RaiseFee(p) \/ Abort(p) \/ Overdrawn(p)
  BY <1>1, <1>2, <1>3, <1>4 DEF QuoteFee, RaiseFee, Abort, Overdrawn, Awaiting
<1>5. CASE BookAndWait(p) \/ BlockUnknown(p)
  BY <1>1, <1>2, <1>5 DEF BookAndWait, BlockUnknown, Awaiting
<1>6. CASE Broadcast(p) \/ SendReturns(p) \/ SendThrows(p)
  BY <1>1, <1>2, <1>6 DEF Broadcast, SendReturns, SendThrows, Awaiting
<1>7. CASE PollRelayer(p) \/ PollLogs(p) \/ PollKeeperHub(p) \/ PollGivesUp(p)
  BY <1>1, <1>2, <1>7 DEF PollRelayer, PollLogs, PollKeeperHub, PollGivesUp, Confirm, Reverted, Awaiting
<1>8. CASE Recheck(p) \/ BookAndSend(p)
  BY <1>1, <1>2, <1>8 DEF Recheck, BookAndSend, Awaiting
<1> QED BY <1>4, <1>5, <1>6, <1>7, <1>8 DEF CallStep

\* What the step of a settlement call does to its own row: it claims the row before it
\* broadcasts it, and broadcasts it in one step.
RowDriven(s) ==
  LET a == Target[s] IN
  /\ \/ /\ pc[s] \in {"fee", "estimate", "block"}
        /\ pc'[s] \in {"fee", "estimate", "block", "done"}
        /\ requestId'[a] = requestId[a] /\ sends'[a] = sends[a] /\ fate'[a] = fate[a]
     \/ /\ pc[s] \in {"estimate", "block"} /\ pc'[s] = "send"                \* claimed
        /\ requestId'[a] = "claim" /\ sends'[a] = sends[a] /\ fate'[a] = fate[a]
     \/ /\ pc[s] = "send" /\ pc'[s] = "sent"                                 \* broadcast
        /\ requestId'[a] = requestId[a] /\ sends'[a] = sends[a] + 1
     \/ /\ pc[s] = "sent" /\ pc'[s] = "poll"                                 \* acknowledged
        /\ requestId'[a] = "id" /\ sends'[a] = sends[a] /\ fate'[a] = fate[a]
     \/ /\ pc[s] \in {"send", "sent", "poll", "logs"} /\ pc'[s] \in {"poll", "logs", "done"}
        /\ requestId'[a] = requestId[a] /\ sends'[a] = sends[a] /\ fate'[a] = fate[a]
  /\ \/ charge'[a] = charge[a]
     \/ charge'[a] = "settlement_unconfirmed" /\ charge[a] \notin {"none", "deleted"}
     \/ /\ charge'[a] = "confirmed" /\ charge[a] \notin {"none", "deleted"}
        /\ fate[a] = "landed" /\ fate'[a] = fate[a]

\* What a call's step leaves alone: every row but its own.
OtherRows(p) ==
  \A r \in Rows \ {RowOf(p)} :
    /\ charge'[r] = charge[r] /\ requestId'[r] = requestId[r]
    /\ sends'[r] = sends[r] /\ fate'[r] = fate[r]

\* Every step of a call keeps to its own row.
LEMMA CallRows ==
  ASSUME TypeOK, NEW p \in Procs, CallStep(p)
  PROVE  OtherRows(p)
<1> USE ProcTypes DEF OtherRows
<1>1. CASE QuoteFee(p) \/ RaiseFee(p) \/ Abort(p) \/ Overdrawn(p) \/ BlockUnknown(p) \/ PollGivesUp(p)
  BY <1>1 DEF QuoteFee, RaiseFee, Abort, Overdrawn, BlockUnknown, PollGivesUp, books, chain
<1>2. CASE BookAndWait(p) \/ BookAndSend(p)
  BY <1>2 DEF BookAndWait, BookAndSend, BookRow, Claim, chain, TypeOK
<1>3. CASE Recheck(p)
  BY <1>3 DEF Recheck, Claim, SetStatus, chain, TypeOK
<1>4. CASE Broadcast(p) \/ SendReturns(p) \/ SendThrows(p)
  BY <1>4 DEF Broadcast, SendReturns, SendThrows, SetStatus, books, chain, TypeOK
<1>5. ASSUME Confirm(p) \/ Reverted(p) PROVE OtherRows(p)
  BY <1>5 DEF Confirm, Reverted, SetStatus, chain, TypeOK
<1>6. CASE PollRelayer(p) \/ PollLogs(p) \/ PollKeeperHub(p)
  BY <1>5, <1>6 DEF PollRelayer, PollLogs, PollKeeperHub, books, chain
<1> QED BY <1>1, <1>2, <1>3, <1>4, <1>6 DEF CallStep

\* What a settlement call does to the row it drives.
LEMMA SettlerRow ==
  ASSUME TypeOK, NEW s \in Settlers, CallStep(s)
  PROVE  RowDriven(s)
<1> DEFINE a == Target[s]
<1> USE ProcTypes DEF RowDriven
<1>0. s \in Procs /\ s \notin Pays /\ RowOf(s) = a /\ a \in Rows
  BY DEF Procs, RowOf, Rows
<1>1. ASSUME NEW res, Return(s, res) PROVE pc'[s] = "done"
  BY <1>0, <1>1, ReturnLeaves DEF TypeOK
<1>2. ASSUME NEW l, Goto(s, l) PROVE pc'[s] = l
  BY <1>0, <1>2 DEF Goto, TypeOK
<1>3. CASE QuoteFee(s) \/ RaiseFee(s) \/ Abort(s) \/ Overdrawn(s)
  BY <1>0, <1>1, <1>2, <1>3 DEF QuoteFee, RaiseFee, Abort, Overdrawn, books, chain
<1>4. CASE BlockUnknown(s) \/ PollGivesUp(s)
  BY <1>1, <1>4 DEF BlockUnknown, PollGivesUp, books, chain
<1>5. CASE BookAndWait(s)
  BY <1>0, <1>2, <1>5 DEF BookAndWait, BookRow, chain, TypeOK
<1>6. CASE BookAndSend(s)
  BY <1>0, <1>1, <1>2, <1>6 DEF BookAndSend, BookRow, Claim, chain, TypeOK
<1>7. CASE Recheck(s)
  BY <1>0, <1>1, <1>2, <1>7 DEF Recheck, Claim, chain, TypeOK
<1>8. CASE Broadcast(s)
  BY <1>0, <1>2, <1>8 DEF Broadcast, books, TypeOK
<1>9. CASE SendReturns(s)
  BY <1>0, <1>2, <1>9 DEF SendReturns, chain, TypeOK
<1>10. CASE SendThrows(s)
  BY <1>0, <1>1, <1>10 DEF SendThrows, chain
<1>11. ASSUME (Confirm(s) /\ Landed(s)) \/ Reverted(s), pc[s] \in {"poll", "logs"} PROVE RowDriven(s)
  <2>1. \/ charge'[a] = charge[a]
        \/ charge'[a] = "settlement_unconfirmed" /\ charge[a] \notin {"none", "deleted"}
        \/ charge'[a] = "confirmed" /\ charge[a] \notin {"none", "deleted"} /\ fate[a] = "landed"
    BY <1>0, <1>11 DEF Confirm, Reverted, Landed, SetStatus, Booked, TypeOK
  <2> QED BY <2>1, <1>1, <1>11 DEF Confirm, Reverted, chain
<1>12. CASE PollRelayer(s) \/ PollLogs(s) \/ PollKeeperHub(s)
  BY <1>0, <1>2, <1>11, <1>12 DEF PollRelayer, PollLogs, PollKeeperHub, Succeeded, Landed, books, chain
<1> QED BY <1>3, <1>4, <1>5, <1>6, <1>7, <1>8, <1>9, <1>10, <1>12 DEF CallStep

-----------------------------------------------------------------------------
(* Fiat settlement: the types.                                             *)

\* A settlement call that begins keeps the types.
LEMMA SettleBeginTypes ==
  ASSUME TypeOK, NEW s \in Settlers, SettleBegin(s)
  PROVE  TypeOK'
<1> USE ProcTypes
<1>0. s \in Procs
  BY DEF Procs
<1>1. /\ pc' \in [Procs -> PcStates] /\ result' \in [Procs -> Results]
      /\ holder' \in [Trees -> Procs \cup {None}]
  <2>1. ASSUME NEW res \in Results, SettleEnds(s, res)
        PROVE  /\ pc' \in [Procs -> PcStates] /\ result' \in [Procs -> Results]
               /\ holder' \in [Trees -> Procs \cup {None}]
    BY <1>0, <2>1 DEF SettleEnds, Goto, TypeOK, PcStates
  <2>2. ASSUME SettleEnters(s)
        PROVE  /\ pc' \in [Procs -> PcStates] /\ result' \in [Procs -> Results]
               /\ holder' \in [Trees -> Procs \cup {None}]
    BY <1>0, <2>2 DEF SettleEnters, Goto, TypeOK, PcStates, Awaiting
  <2>3. {"replayed", "pending", RefusalOf(CardUsed(s))} \subseteq Results
    BY <1>0, RefusalTypes DEF Results
  <2> QED BY <2>1, <2>2, <2>3 DEF SettleBegin
<1>2. UNCHANGED <<cardStatus, books, locals, chain, sweep, crashes>>
  BY DEF SettleBegin
<1> QED BY <1>1, <1>2 DEF TypeOK, books, locals, chain

\* So does what a ladder makes of an attempt.
LEMMA ReactTypes ==
  ASSUME TypeOK, NEW s \in Settlers, React(s)
  PROVE  TypeOK'
<1>0. s \in Procs /\ CardUsed(s) \in Cards /\ Target[s] \in Rows
  BY ProcTypes DEF Procs, RowOf, Rows
<1>1. /\ pc' = [pc EXCEPT ![s] = "idle"] /\ result' = [result EXCEPT ![s] = "none"]
      /\ UNCHANGED <<feeOf, requestId, announced, locals, holder, chain, sweep, crashes>>
  BY DEF React, Settled, NeverSettles, FoundParked, BackOff, Exhausted, Park, Leave, Goto
<1>2. charge' = charge \/ SetStatus(Target[s], "settlement_unconfirmed")
  BY DEF React, Settled, NeverSettles, FoundParked, BackOff, Exhausted, Park
<1>3. cardStatus' = cardStatus \/ FreezeIfActive(CardUsed(s))
  BY DEF React, Settled, NeverSettles, FoundParked, BackOff, Exhausted, Park
<1>4. charge' \in [Rows -> ChargeStates]
  BY <1>0, <1>2, SetStatusTypes DEF TypeOK, ChargeStates
<1>5. cardStatus' \in [Cards -> CardStates]
  BY <1>0, <1>3 DEF FreezeIfActive, TypeOK, CardStates
<1> QED BY <1>0, <1>1, <1>4, <1>5 DEF TypeOK, PcStates, Results, locals, chain

\* Every step of the settlement keeps the types of the spend pipeline.
LEMMA SettlementKeepsTypes ==
  ASSUME TypeOK, SettlementNext
  PROVE  TypeOK'
<1>1. ASSUME NEW p \in Pays, PayCall(p) PROVE TypeOK'
  BY <1>1, PayStepTypes DEF PayCall, PayStep
<1>2. ASSUME NEW s \in Settlers, SettleCall(s) \/ React(s) PROVE TypeOK'
  BY <1>2, SettleBeginTypes, ReactTypes DEF SettleCall
<1>3. ASSUME NEW p \in Procs, Proceed(p) PROVE TypeOK'
  BY <1>3, CallStepTypes DEF Proceed
<1>4. ASSUME NEW a \in Auths, AuthorizeAndKick(a) PROVE TypeOK'
  BY <1>4, OtherStepTypes DEF AuthorizeAndKick
<1>5. ASSUME NEW s \in Settlers, Climbing(s) PROVE TypeOK'
  <2>1. CASE UNCHANGED vars
    BY <2>1 DEF vars, books, calls, locals, chain, TypeOK
  <2>2. CASE Attempt(s)
    BY <2>2 DEF Attempt, Goto, TypeOK, PcStates, books, locals, chain
  <2> QED BY <1>5, <2>1, <2>2 DEF Climbing, Kickoff, SweepVisit
<1>6. CASE SweepTick
  BY <1>6 DEF SweepTick, vars, books, calls, locals, chain, TypeOK
<1>7. CASE SweepStep \/ OwnerStep \/ Environment \/ Restart
  BY <1>7, OtherStepTypes DEF Restart
<1> QED BY <1>1, <1>2, <1>3, <1>4, <1>5, <1>6, <1>7 DEF SettlementNext

\* Every step keeps the types of the ladders and lets none climb past its last attempt.
LEMMA LaddersKept ==
  ASSUME SettlementTypeOK, AttemptsLeft, SettlementNext
  PROVE  /\ armed' \subseteq Kickers /\ backlog' \subseteq Auths
         /\ ladder' \in [Settlers -> {"off", "wait", "try"}]
         /\ attempts' \in [Settlers -> 0..MaxAttempts]
         /\ AttemptsLeft'
<1> USE SettlementAssumption DEF SettlementTypeOK, AttemptsLeft
<1>1. CASE UNCHANGED ladders
  BY <1>1 DEF ladders
<1>2. ASSUME NEW a \in Auths, AuthorizeAndKick(a)
      PROVE  armed' \subseteq Kickers /\ UNCHANGED <<backlog, ladder, attempts>>
  BY <1>2 DEF AuthorizeAndKick
<1>3. ASSUME NEW s \in Settlers, React(s)
      PROVE  /\ UNCHANGED <<armed, backlog, attempts>>
             /\ \/ ladder' = [ladder EXCEPT ![s] = "off"]
                \/ ladder' = [ladder EXCEPT ![s] = "wait"] /\ attempts[s] < MaxAttempts
  BY <1>3 DEF React, Settled, NeverSettles, FoundParked, BackOff, Exhausted, Park, Leave
<1>4. ASSUME NEW s \in Settlers, Kickoff(s) \/ SweepVisit(s)
      PROVE  /\ armed' \subseteq Kickers /\ backlog' \subseteq Auths
             /\ ladder' \in {[ladder EXCEPT ![s] = "off"], [ladder EXCEPT ![s] = "wait"]}
             /\ attempts' = [attempts EXCEPT ![s] = 0]
  BY <1>4 DEF Kickoff, SweepVisit, Climb
<1>5. ASSUME NEW s \in Settlers, Attempt(s)
      PROVE  /\ UNCHANGED <<armed, backlog>> /\ ladder[s] = "wait"
             /\ ladder' = [ladder EXCEPT ![s] = "try"]
             /\ attempts' = [attempts EXCEPT ![s] = @ + 1]
  BY <1>5 DEF Attempt
<1>6. CASE SweepTick
  BY <1>6 DEF SweepTick, Unsettled
<1>7. CASE Restart
  BY <1>7 DEF Restart
<1>8. CASE \E a \in Auths : AuthorizeAndKick(a)
  BY <1>2, <1>8
<1>9. CASE \E s \in Settlers : React(s)
  BY <1>3, <1>9
<1>10. CASE \E s \in Settlers : Kickoff(s) \/ SweepVisit(s)
  BY <1>4, <1>10
<1>11. CASE \E s \in Settlers : Attempt(s)
  BY <1>5, <1>11
<1> QED BY <1>1, <1>6, <1>7, <1>8, <1>9, <1>10, <1>11
        DEF SettlementNext, PayCall, SettleCall, Proceed, Climbing

\* The settlement's state has its types, and no ladder makes more attempts than it has
\* (settlement.ts 44-46).
THEOREM SettlementTypes == SettlementSpec => []SettlementTypeOK
<1>1. SettlementInit => SettlementTypeOK /\ AttemptsLeft
  BY InitTypes, SettlementAssumption DEF SettlementInit, SettlementTypeOK, AttemptsLeft
<1>2. /\ SettlementTypeOK /\ AttemptsLeft /\ [SettlementNext]_settlementVars
      => SettlementTypeOK' /\ AttemptsLeft'
  <2> SUFFICES ASSUME SettlementTypeOK, AttemptsLeft, [SettlementNext]_settlementVars
               PROVE  SettlementTypeOK' /\ AttemptsLeft'
    OBVIOUS
  <2>1. CASE SettlementNext
    BY <2>1, SettlementKeepsTypes, LaddersKept DEF SettlementTypeOK
  <2>2. CASE UNCHANGED settlementVars
    BY <2>2 DEF settlementVars, ladders, vars, books, calls, locals, chain, SettlementTypeOK, TypeOK, AttemptsLeft
  <2> QED BY <2>1, <2>2
<1> QED BY <1>1, <1>2, PTL DEF SettlementSpec

-----------------------------------------------------------------------------
(* Fiat settlement: one broadcast per row, under its claim.                *)

\* A step that lets no call in and drives no authorization on keeps calls and rows in step.
LEMMA KeptInStep ==
  ASSUME TypeOK, SettlementsInStep,
         \A p \in Procs :
           pc'[p] \in Awaiting =>
             pc'[p] = pc[p] /\ holder'[TreeOf(CardUsed(p))] = holder[TreeOf(CardUsed(p))],
         \A a \in Auths :
           /\ requestId'[a] = requestId[a] /\ sends'[a] = sends[a]
           /\ fate'[a] = fate[a] \/ fate[a] # "none"
           /\ charge'[a] = "none" => charge[a] = "none"
  PROVE  SettlementsInStep'
<1>1. AllInMutex'
  BY DEF SettlementsInStep, AllInMutex
<1>2. ASSUME NEW s \in Settlers PROVE Driven(s)'
  BY DEF SettlementsInStep, Driven, Procs, Awaiting
<1>3. ASSUME NEW a \in Auths PROVE SentUnderClaim(a)'
  BY DEF SettlementsInStep, SentUnderClaim
<1> QED BY <1>1, <1>2, <1>3 DEF SettlementsInStep

\* A call that enters the mutex finds its tree free, and a settlement its row unclaimed.
LEMMA EntersInStep ==
  ASSUME TypeOK, SettlementsInStep, NEW p \in Procs, pc[p] = "queued",
         holder[TreeOf(CardUsed(p))] = None,
         pc' = [pc EXCEPT ![p] = "fee"],
         holder' = [holder EXCEPT ![TreeOf(CardUsed(p))] = p],
         p \in Settlers => requestId[Target[p]] = "null" /\ charge[Target[p]] # "none",
         UNCHANGED <<requestId, sends, fate>>,
         \A a \in Auths : charge'[a] = charge[a]
  PROVE  SettlementsInStep'
<1> USE ProcTypes
<1>1. ASSUME NEW q \in Procs, pc'[q] \in Awaiting PROVE holder'[TreeOf(CardUsed(q))] = q
  <2>1. CASE q = p
    BY <2>1 DEF TypeOK
  <2>2. CASE q # p
    <3>1. holder[TreeOf(CardUsed(q))] = q
      BY <1>1, <2>2 DEF SettlementsInStep, AllInMutex, TypeOK
    <3> QED BY <3>1 DEF TypeOK
  <2> QED BY <2>1, <2>2
<1>2. ASSUME NEW s \in Settlers PROVE Driven(s)'
  BY DEF SettlementsInStep, Driven, Procs, TypeOK
<1>3. ASSUME NEW a \in Auths PROVE SentUnderClaim(a)'
  BY DEF SettlementsInStep, SentUnderClaim
<1> QED BY <1>1, <1>2, <1>3 DEF SettlementsInStep, AllInMutex

\* A call's step keeps calls and rows in step: nobody else is inside the mutex of its tree.
LEMMA CallInStep ==
  ASSUME TypeOK, SettlementsInStep, NEW p \in Procs, CallStep(p)
  PROVE  SettlementsInStep'
<1> USE ProcTypes
<1>0. /\ pc[p] \in Awaiting
      /\ \A q \in Procs \ {p} : pc'[q] = pc[q]
      /\ \/ pc'[p] \in Awaiting /\ holder' = holder
         \/ pc'[p] = "done" /\ holder' = [holder EXCEPT ![TreeOf(CardUsed(p))] = None]
  BY CallMoves
<1>1. holder[TreeOf(CardUsed(p))] = p
  BY <1>0 DEF SettlementsInStep, AllInMutex
<1>2. ASSUME NEW q \in Procs, q # p, pc'[q] \in Awaiting
      PROVE  /\ holder'[TreeOf(CardUsed(q))] = q
             /\ TreeOf(CardUsed(q)) # TreeOf(CardUsed(p))
  <2>1. holder[TreeOf(CardUsed(q))] = q
    BY <1>0, <1>2 DEF SettlementsInStep, AllInMutex
  <2> QED BY <1>0, <1>1, <1>2, <2>1 DEF TypeOK
<1>3. AllInMutex'
  <2>1. pc'[p] \in Awaiting => holder'[TreeOf(CardUsed(p))] = p
    BY <1>0, <1>1 DEF Awaiting
  <2> QED BY <1>2, <2>1 DEF AllInMutex
<1>4. OtherRows(p)
  BY CallRows
<1>5. CASE p \in Pays
  <2>1. \A a \in Auths : a \in Rows /\ a # RowOf(p)
    BY <1>5 DEF Rows, RowOf
  <2>2. \A s \in Settlers : s \in Procs /\ s # p
    BY <1>5 DEF Procs
  <2>3. ASSUME NEW s \in Settlers PROVE Driven(s)'
    BY <1>0, <1>4, <2>1, <2>2 DEF SettlementsInStep, Driven, OtherRows
  <2>4. ASSUME NEW a \in Auths PROVE SentUnderClaim(a)'
    BY <1>4, <2>1 DEF SettlementsInStep, SentUnderClaim, OtherRows
  <2> QED BY <1>3, <2>3, <2>4 DEF SettlementsInStep
<1>6. CASE p \in Settlers
  <2> DEFINE a == Target[p]
  <2>0. a \in Auths /\ a \in Rows /\ RowOf(p) = a /\ Driven(p) /\ SentUnderClaim(a)
    BY <1>6 DEF SettlementsInStep, Rows, RowOf
  <2>1. RowDriven(p)
    BY <1>6, SettlerRow
  <2>2. ASSUME NEW s \in Settlers PROVE Driven(s)'
    <3>1. CASE s = p
      BY <1>0, <2>0, <2>1, <3>1 DEF RowDriven, Driven, SentUnderClaim
    <3>2. CASE s # p /\ pc'[s] \in Awaiting
      <4>1. s \in Procs /\ Target[s] \in Rows /\ RowOf(s) = Target[s]
        BY DEF Procs, Rows, RowOf
      <4>2. Target[s] # a
        BY <1>2, <2>0, <3>2, <4>1 DEF CardUsed
      <4> QED BY <1>0, <1>4, <2>0, <3>2, <4>1, <4>2 DEF SettlementsInStep, Driven, OtherRows
    <3>3. CASE pc'[s] \notin Awaiting
      BY <3>3 DEF Driven, Awaiting
    <3> QED BY <3>1, <3>2, <3>3
  <2>3. ASSUME NEW b \in Auths PROVE SentUnderClaim(b)'
    <3>1. CASE b = a
      <4>1. sends[a] \in Nat
        BY <2>0 DEF TypeOK
      <4> QED BY <1>0, <2>0, <2>1, <3>1, <4>1 DEF RowDriven, Driven, SentUnderClaim
    <3>2. CASE b # a
      BY <1>4, <2>0, <3>2 DEF OtherRows, SettlementsInStep, SentUnderClaim, Rows
    <3> QED BY <3>1, <3>2
  <2> QED BY <1>3, <2>2, <2>3 DEF SettlementsInStep
<1> QED BY <1>5, <1>6 DEF Procs

\* The steps of Spend outside the calls drive no authorization on.
LEMMA OutsideInStep ==
  ASSUME SettlementOn, TypeOK, SettlementsInStep,
         (\E a \in Auths : Authorize(a)) \/ SweepStep \/ OwnerStep \/ Environment \/ Crash
  PROVE  SettlementsInStep'
<1> USE ProcTypes
<1>1. ASSUME NEW b \in Auths, Authorize(b) PROVE SettlementsInStep'
  <2>1. requestId[b] = "null" /\ b \in Rows
    BY <1>1 DEF Authorize, SettlementsInStep, SentUnderClaim, Rows
  <2>2. \A a \in Auths : /\ requestId'[a] = requestId[a]
                         /\ charge'[a] = "none" => charge[a] = "none"
    BY <1>1, <2>1 DEF Authorize, TypeOK, Rows
  <2> QED BY <1>1, <2>2, KeptInStep DEF Authorize, calls, chain
<1>2. CASE SweepStep
  <2>1. UNCHANGED <<requestId, pc, holder, sends, fate>>
    BY <1>2 DEF SweepStep, SweepBegin, SweepScan, SweepFails, SweepApply, SweepAnswer, SweepNoAnswer,
                books, calls, chain
  <2>2. ASSUME NEW a \in Auths, charge'[a] = "none" PROVE charge[a] = "none"
    BY <1>2, <2>2 DEF SweepStep, SweepBegin, SweepScan, SweepFails, SweepApply, SweepAnswer, SweepNoAnswer,
                      SetStatus, Released, Rows, books, TypeOK
  <2> QED BY <2>1, <2>2, KeptInStep
<1>3. CASE OwnerStep
  BY <1>3, KeptInStep DEF OwnerStep, Freeze, Unfreeze, Revoke, books, calls, chain
<1>4. CASE Environment
  <2>1. UNCHANGED <<charge, requestId, pc, holder, sends>>
    BY <1>4 DEF Environment, Mine, Interrupt, books, calls
  <2>2. \A a \in Auths : fate'[a] = fate[a] \/ fate[a] # "none"
    BY <1>4 DEF Environment, Mine, Interrupt, TypeOK, Rows
  <2> QED BY <2>1, <2>2, KeptInStep
<1>5. CASE Crash
  <2>1. UNCHANGED <<charge, requestId, sends, fate>>
    BY <1>5 DEF Crash, books, chain
  <2>2. \A p \in Procs : pc'[p] \notin Awaiting
    BY <1>5 DEF Crash, Awaiting
  <2> QED BY <2>1, <2>2, KeptInStep
<1> QED BY <1>1, <1>2, <1>3, <1>4, <1>5

\* Every step of the settlement keeps calls and rows in step.
LEMMA SettlementInStep ==
  ASSUME SettlementOn, TypeOK, SettlementsInStep, SettlementNext
  PROVE  SettlementsInStep'
<1> USE ProcTypes
<1>1. ASSUME NEW p \in Pays, PayCall(p) PROVE SettlementsInStep'
  <2>0. p \in Procs /\ p \notin Settlers /\ Prior(p) \cap Auths = {}
    BY DEF Procs, Prior
  <2>1. CASE Replay(p)
    <3>1. UNCHANGED <<charge, requestId, sends, fate, holder>> /\ pc' = [pc EXCEPT ![p] = "done"]
      BY <2>1 DEF Replay, Goto, books, chain
    <3> QED BY <3>1, <2>0, KeptInStep DEF TypeOK, Awaiting
  <2>2. CASE PayBegin(p)
    <3>1. /\ UNCHANGED <<requestId, sends, fate>> /\ pc[p] = "queued"
          /\ holder[TreeOf(CardUsed(p))] = None
          /\ \A a \in Auths : charge'[a] = charge[a]
      BY <2>2, <2>0 DEF PayBegin, Turn, ClearPrior, chain, Rows
    <3>2. CASE pc' = [pc EXCEPT ![p] = "done"] /\ holder' = holder
      BY <3>1, <3>2, <2>0, KeptInStep DEF TypeOK, Awaiting
    <3>3. CASE pc' = [pc EXCEPT ![p] = "fee"] /\ holder' = [holder EXCEPT ![TreeOf(CardUsed(p))] = p]
      BY <3>1, <3>3, <2>0, EntersInStep
    <3> QED BY <2>2, <3>2, <3>3 DEF PayBegin, Goto
  <2> QED BY <1>1, <2>1, <2>2 DEF PayCall
<1>2. ASSUME NEW s \in Settlers, SettleCall(s) PROVE SettlementsInStep'
  <2>0. s \in Procs
    BY DEF Procs
  <2>1. /\ UNCHANGED <<charge, requestId, sends, fate>> /\ pc[s] = "queued"
        /\ holder[TreeOf(CardUsed(s))] = None
    BY <1>2 DEF SettleCall, SettleBegin, Turn, books, chain
  <2>2. CASE pc' = [pc EXCEPT ![s] = "done"] /\ holder' = holder
    BY <2>0, <2>1, <2>2, KeptInStep DEF TypeOK, Awaiting
  <2>3. CASE SettleEnters(s) /\ requestId[Target[s]] = "null" /\ charge[Target[s]] # "none"
    BY <2>0, <2>1, <2>3, EntersInStep DEF SettleEnters, Goto
  <2> QED BY <1>2, <2>2, <2>3 DEF SettleCall, SettleBegin, SettleEnds, Goto
<1>3. ASSUME NEW s \in Settlers, React(s) PROVE SettlementsInStep'
  <2>1. /\ UNCHANGED <<requestId, sends, fate, holder>> /\ pc' = [pc EXCEPT ![s] = "idle"]
    BY <1>3 DEF React, Settled, NeverSettles, FoundParked, BackOff, Exhausted, Park, Leave, Goto, chain
  <2>2. charge' = charge \/ SetStatus(Target[s], "settlement_unconfirmed")
    BY <1>3 DEF React, Settled, NeverSettles, FoundParked, BackOff, Exhausted, Park
  <2>3. \A a \in Auths : charge'[a] = "none" => charge[a] = "none"
    BY <2>2 DEF SetStatus, TypeOK, Rows
  <2> QED BY <2>1, <2>3, KeptInStep DEF TypeOK, Awaiting, Procs
<1>4. ASSUME NEW p \in Procs, Proceed(p) PROVE SettlementsInStep'
  BY <1>4, CallInStep DEF Proceed
<1>5. ASSUME NEW s \in Settlers, Climbing(s) PROVE SettlementsInStep'
  <2>1. CASE UNCHANGED vars
    BY <2>1, KeptInStep DEF vars, books, calls, chain
  <2>2. CASE Attempt(s)
    BY <2>2, KeptInStep DEF Attempt, Goto, books, chain, TypeOK, Awaiting, Procs
  <2> QED BY <1>5, <2>1, <2>2 DEF Climbing, Kickoff, SweepVisit
<1>6. CASE SweepTick
  BY <1>6, KeptInStep DEF SweepTick, vars, books, calls, chain
<1>7. CASE (\E a \in Auths : AuthorizeAndKick(a)) \/ SweepStep \/ OwnerStep \/ Environment \/ Restart
  BY <1>7, OutsideInStep DEF AuthorizeAndKick, Restart
<1> QED BY <1>1, <1>2, <1>3, <1>4, <1>5, <1>6, <1>7 DEF SettlementNext

\* Nothing is claimed or sent at first.
LEMMA InitInStep == SettlementInit => TypeOK /\ SettlementsInStep
  BY InitTypes, CallTypes DEF SettlementInit, Init, SettlementsInStep, AllInMutex, Driven, SentUnderClaim,
     Awaiting, Rows, Procs

\* Types and steps hold throughout.
LEMMA SettlementStep ==
  ASSUME SettlementOn
  PROVE  TypeOK /\ SettlementsInStep /\ [SettlementNext]_settlementVars => TypeOK' /\ SettlementsInStep'
<1> SUFFICES ASSUME TypeOK, SettlementsInStep, [SettlementNext]_settlementVars
             PROVE  TypeOK' /\ SettlementsInStep'
  OBVIOUS
<1>1. CASE SettlementNext
  BY <1>1, SettlementKeepsTypes, SettlementInStep
<1>2. CASE UNCHANGED settlementVars
  <2>1. TypeOK'
    BY <1>2 DEF settlementVars, vars, books, calls, locals, chain, TypeOK
  <2>2. SettlementsInStep'
    BY <1>2, KeptInStep DEF settlementVars, vars, books, calls, chain
  <2> QED BY <2>1, <2>2
<1> QED BY <1>1, <1>2

\* "two overlapping settle() calls broadcast exactly once" (settlement.test.ts 107): with any
\* number of kickoffs, sweeps, retries after errors and restarts, on either lane, and whatever
\* the executor's errors hide, a row is sent at most once.
THEOREM OneBroadcast ==
  ASSUME SettlementOn
  PROVE  SettlementSpec => []SettledOnce
<1>1. SettlementsInStep => SettledOnce
  BY DEF SettlementsInStep, SentUnderClaim, SettledOnce
<1> QED BY <1>1, InitInStep, SettlementStep, PTL DEF SettlementSpec

\* Every redemption that was broadcast is one the sweeps can see: its row carries the claim
\* or the request id, from before the broadcast on (spend.ts 749-765).
THEOREM BroadcastsAreSeen ==
  ASSUME SettlementOn
  PROVE  SettlementSpec => []BroadcastIsClaimed
<1>1. SettlementsInStep => BroadcastIsClaimed
  BY DEF SettlementsInStep, SentUnderClaim, BroadcastIsClaimed
<1> QED BY <1>1, InitInStep, SettlementStep, PTL DEF SettlementSpec

\* "a fiat row never becomes 'failed': the authorization was already approved, so its
\* budget stays held" (settlement.ts 6-9), through reverts, sweeps, parking and restarts.
THEOREM FiatStaysHeld == SettlementSpec => []FiatNeverReleased
<1>1. SettlementInit => TypeOK /\ FiatNeverReleased
  BY InitTypes, CallTypes DEF SettlementInit, Init, FiatNeverReleased, Rows
<1>2. TypeOK /\ [SettlementNext]_settlementVars => TypeOK'
  BY SettlementKeepsTypes DEF settlementVars, vars, books, calls, locals, chain, TypeOK
<1>3. TypeOK /\ FiatNeverReleased /\ [SettlementNext]_settlementVars => FiatNeverReleased'
  <2> SUFFICES ASSUME TypeOK, [SettlementNext]_settlementVars, NEW a \in Auths,
                      charge[a] \notin {"failed", "deleted"}
               PROVE  charge'[a] \notin {"failed", "deleted"}
    BY DEF FiatNeverReleased
  <2>0. a \in Rows /\ a \notin Pays
    BY DEF Rows
  <2>1. ASSUME NEW p \in Pays, PayCall(p) PROVE charge'[a] = charge[a]
    BY <2>0, <2>1 DEF PayCall, PayBegin, ClearPrior, Prior, Replay, books
  <2>2. ASSUME NEW p \in Procs, Proceed(p) PROVE charge'[a] \notin {"failed", "deleted"}
    <3>1. CallStep(p)
      BY <2>2 DEF Proceed
    <3>2. CASE a = RowOf(p)
      <4>1. p \in Settlers /\ Target[p] = a
        BY <2>0, <3>2 DEF RowOf, Procs
      <4> QED BY <3>1, <4>1, SettlerRow DEF RowDriven
    <3>3. CASE a # RowOf(p)
      BY <2>0, <3>1, <3>3, CallRows DEF OtherRows
    <3> QED BY <3>2, <3>3
  <2>3. ASSUME NEW s \in Settlers, SettleCall(s) \/ React(s) PROVE charge'[a] \notin {"failed", "deleted"}
    <3>1. charge' = charge \/ SetStatus(Target[s], "settlement_unconfirmed")
      BY <2>3 DEF SettleCall, SettleBegin, books, React, Settled, NeverSettles, FoundParked, BackOff,
                  Exhausted, Park
    <3> QED BY <2>0, <3>1 DEF SetStatus, TypeOK
  <2>4. ASSUME NEW b \in Auths, AuthorizeAndKick(b) PROVE charge'[a] \notin {"failed", "deleted"}
    BY <2>0, <2>4 DEF AuthorizeAndKick, Authorize, TypeOK
  <2>5. ASSUME NEW s \in Settlers, Climbing(s) PROVE charge'[a] = charge[a]
    BY <2>5 DEF Climbing, Kickoff, SweepVisit, Attempt, vars, books
  <2>6. CASE SweepTick \/ OwnerStep \/ Environment \/ Restart
    BY <2>6 DEF SweepTick, OwnerStep, Freeze, Unfreeze, Revoke, Environment, Mine, Interrupt, Restart, Crash, vars, books
  <2>7. CASE SweepStep
    BY <2>0, <2>7 DEF SweepStep, SweepBegin, SweepScan, SweepFails, SweepApply, SweepAnswer, SweepNoAnswer,
       SetStatus, Released, books, TypeOK
  <2>8. CASE UNCHANGED settlementVars
    BY <2>8 DEF settlementVars, vars, books
  <2> QED BY <2>1, <2>2, <2>3, <2>4, <2>5, <2>6, <2>7, <2>8 DEF SettlementNext
<1> QED BY <1>1, <1>2, <1>3, PTL DEF SettlementSpec

-----------------------------------------------------------------------------
(* The payments beside the settlements: what is proved of the pipeline     *)
(* alone holds with every driver of the fiat lane at work.                 *)

\* A call's step leaves what the other calls were last answered alone.
LEMMA CallHints ==
  ASSUME TypeOK, NEW p \in Procs, CallStep(p), NEW q \in Procs \ {p}
  PROVE  hint'[q] = hint[q]
<1>1. ASSUME NEW res, Return(p, res) PROVE hint'[q] = hint[q]
  BY <1>1 DEF Return, TypeOK
<1>2. CASE QuoteFee(p) \/ RaiseFee(p) \/ Abort(p) \/ Overdrawn(p) \/ BlockUnknown(p) \/ PollGivesUp(p)
  BY <1>1, <1>2 DEF QuoteFee, RaiseFee, Abort, Overdrawn, BlockUnknown, PollGivesUp
<1>3. CASE BookAndWait(p) \/ BookAndSend(p) \/ Recheck(p) \/ Broadcast(p)
  BY <1>1, <1>3 DEF BookAndWait, BookAndSend, Recheck, Broadcast, locals
<1>4. CASE SendReturns(p) \/ SendThrows(p)
  BY <1>1, <1>4 DEF SendReturns, SendThrows, TypeOK
<1>5. CASE PollRelayer(p) \/ PollLogs(p) \/ PollKeeperHub(p)
  BY <1>1, <1>5 DEF PollRelayer, PollLogs, PollKeeperHub, Confirm, Reverted, locals, TypeOK
<1> QED BY <1>2, <1>3, <1>4, <1>5 DEF CallStep

\* To the payments, the steps of the settlements are a payment's step, a step outside the
\* calls, or a step beside them: the mutex and the rows' owners keep the rest apart.
LEMMA SettlementOfPays ==
  ASSUME TypeOK, SettlementsInStep, [SettlementNext]_settlementVars
  PROVE  PaysNext
<1> USE CallTypes
<1>1. ASSUME NEW p \in Pays, PayCall(p) \/ Proceed(p) PROVE PaysNext
  BY <1>1 DEF PayCall, Proceed, PayStep, PaysNext
<1>2. ASSUME UNCHANGED vars PROVE PaysNext
  BY <1>2 DEF vars, books, calls, locals, chain, Beside, PaysNext
<1>3. ASSUME NEW s \in Settlers, pc' = [pc EXCEPT ![s] = "idle"] \/ pc' = [pc EXCEPT ![s] = "queued"],
             UNCHANGED <<requestId, locals, holder, chain, sweep>>,
             charge' = charge \/ SetStatus(Target[s], "settlement_unconfirmed")
      PROVE  Beside
  <2>1. \A p \in Pays : p # s /\ p # Target[s]
    OBVIOUS
  <2> QED BY <1>3, <2>1 DEF Beside, SetStatus, locals, chain, TypeOK, Rows
<1>4. ASSUME NEW s \in Settlers, SettleCall(s) PROVE Beside
  <2>0. \A p \in Pays : p # s /\ p # None
    OBVIOUS
  <2>1. /\ holder[TreeOf(CardUsed(s))] = None
        /\ UNCHANGED <<books, locals, chain, sweep>>
    BY <1>4 DEF SettleCall, SettleBegin, Turn
  <2>2. /\ \E l : pc' = [pc EXCEPT ![s] = l]
        /\ holder' = holder \/ holder' = [holder EXCEPT ![TreeOf(CardUsed(s))] = s]
    BY <1>4 DEF SettleCall, SettleBegin, SettleEnds, SettleEnters, Goto
  <2>3. ASSUME NEW p \in Pays, holder[TreeOf(CardOf[p])] = p PROVE holder'[TreeOf(CardOf[p])] = p
    BY <2>0, <2>1, <2>2, <2>3 DEF TypeOK
  <2> QED BY <2>0, <2>1, <2>2, <2>3 DEF Beside, books, locals, chain, TypeOK
<1>5. ASSUME NEW s \in Settlers, React(s) PROVE Beside
  BY <1>3, <1>5 DEF React, Settled, NeverSettles, FoundParked, BackOff, Exhausted, Park, Leave, Goto
<1>6. ASSUME NEW s \in Settlers, Proceed(s) PROVE Beside
  <2>0. s \in Procs /\ RowOf(s) = Target[s] /\ \A p \in Pays : p # s /\ p # Target[s]
    BY DEF Procs, RowOf
  <2>1. CallStep(s)
    BY <1>6 DEF Proceed
  <2>2. OtherRows(s) /\ sweep' = sweep /\ interrupted' = interrupted
    BY <2>0, <2>1, CallRows, CallKeepsSweep
  <2>3. /\ pc[s] \in Awaiting /\ \A q \in Procs \ {s} : pc'[q] = pc[q]
        /\ holder' = holder \/ holder' = [holder EXCEPT ![TreeOf(CardUsed(s))] = None]
    BY <2>0, <2>1, CallMoves
  <2>4. holder[TreeOf(CardUsed(s))] = s
    BY <2>0, <2>3 DEF SettlementsInStep, AllInMutex
  <2>5. ASSUME NEW p \in Pays, holder[TreeOf(CardOf[p])] = p PROVE holder'[TreeOf(CardOf[p])] = p
    BY <2>0, <2>3, <2>4, <2>5 DEF TypeOK
  <2>6. \A p \in Pays : hint'[p] = hint[p]
    BY <2>0, <2>1, CallHints
  <2> QED BY <2>0, <2>2, <2>3, <2>5, <2>6 DEF Beside, OtherRows
<1>7. ASSUME NEW s \in Settlers, Climbing(s) PROVE PaysNext
  <2>1. CASE Attempt(s)
    BY <1>3, <2>1 DEF Attempt, Goto, books, PaysNext
  <2>2. CASE Kickoff(s) \/ SweepVisit(s)
    BY <1>2, <2>2 DEF Kickoff, SweepVisit
  <2> QED BY <1>7, <2>1, <2>2 DEF Climbing
<1>8. CASE (\E a \in Auths : AuthorizeAndKick(a)) \/ SweepStep \/ OwnerStep \/ Environment \/ Restart
  BY <1>8 DEF AuthorizeAndKick, Restart, Outside, PaysNext
<1>9. CASE SweepTick \/ UNCHANGED settlementVars
  BY <1>2, <1>9 DEF SweepTick, settlementVars
<1> QED BY <1>1, <1>4, <1>5, <1>6, <1>7, <1>8, <1>9 DEF SettlementNext, PaysNext, Procs

\* Nothing has happened at first.
LEMMA SettlementInitPays == SettlementInit => PaysInStep
  BY InitFollows DEF SettlementInit, RowsFollowCalls

\* The payments' calls, their rows and the sweep keep in step, whatever the settlements of
\* the same card tree do: the mutex serialises both kinds of call (spend.ts 530-546).
THEOREM PaymentsKeepInStep ==
  ASSUME SettlementOn
  PROVE  SettlementSpec => [](TypeOK /\ SettlementsInStep /\ PaysInStep)
  BY InitInStep, SettlementInitPays, SettlementStep, SettlementOfPays, PaysFollow, PTL
     DEF SettlementSpec

\* Calls with one key never hold two booked rows, with the fiat lane at work.
THEOREM OneRowPerKeyBesideFiat ==
  ASSUME SettlementOn
  PROVE  SettlementSpec => []KeyBookedOnce
<1>1. SettlementInit => KeyBookedOnce
  BY InitKey DEF SettlementInit
<1> QED BY <1>1, StepKey, SettlementOfPays, PaymentsKeepInStep, PTL DEF SettlementSpec

\* Calls with one key move the money at most once, with the fiat lane at work, whenever a
\* send that answers with an error has not been taken on.
THEOREM RetriesAreSafeBesideFiat ==
  ASSUME SettlementOn, ~AmbiguousSend
  PROVE  SettlementSpec => []OneRedemptionPerKey
<1>1. SentIsBooked /\ KeyBookedOnce => OneRedemptionPerKey
  BY DEF SentIsBooked, KeyBookedOnce, OneRedemptionPerKey
<1>2. SettlementInit => SentIsBooked
  BY InitSent DEF SettlementInit
<1> QED BY <1>1, <1>2, StepSent, SettlementOfPays, OneRowPerKeyBesideFiat, PaymentsKeepInStep, PTL
        DEF SettlementSpec

\* What books and sweep say of an authorization is true, and a row never sent has no fate.
AuthTrue(a) ==
  /\ charge[a] = "confirmed" \/ a \in sweep.hits => fate[a] = "landed"
  /\ sends[a] = 0 => fate[a] = "none"

\* A step that confirms nothing and sends nothing keeps what is said true.
LEMMA QuietTrue ==
  ASSUME TypeOK, NEW a \in Auths, AuthTrue(a),
         sends'[a] = sends[a], fate'[a] = fate[a] \/ fate[a] = "inflight",
         charge'[a] = "confirmed" => charge[a] = "confirmed" \/ fate[a] = "landed",
         a \in sweep'.hits => a \in sweep.hits \/ fate[a] = "landed"
  PROVE  AuthTrue(a)'
  BY DEF AuthTrue

\* A settlement confirms its row on a landed redemption only, and sends it only once.
LEMMA DriverTrue ==
  ASSUME TypeOK, SettlementsInStep, NEW a \in Auths, AuthTrue(a), NEW p \in Procs, CallStep(p)
  PROVE  AuthTrue(a)'
<1>0. a \in Rows /\ sweep' = sweep /\ sends[a] \in Nat
  BY CallKeepsSweep DEF Rows, TypeOK
<1>1. CASE RowOf(p) = a
  <2>1. p \in Settlers /\ Target[p] = a
    BY <1>1 DEF RowOf, Procs
  <2>2. RowDriven(p) /\ Driven(p)
    BY <2>1, SettlerRow DEF SettlementsInStep
  <2>3. CASE pc[p] = "send" /\ sends'[a] = sends[a] + 1
    <3>1. sends[a] = 0 /\ sends'[a] # 0
      BY <1>0, <2>1, <2>2, <2>3 DEF Driven
    <3>2. fate[a] = "none"
      BY <3>1 DEF AuthTrue
    <3>3. charge'[a] # "confirmed" /\ a \notin sweep'.hits
      BY <1>0, <2>1, <2>2, <3>2 DEF RowDriven, AuthTrue
    <3> QED BY <3>1, <3>3 DEF AuthTrue
  <2>4. CASE sends'[a] = sends[a] /\ fate'[a] = fate[a]
    BY <1>0, <2>1, <2>2, <2>4, QuietTrue DEF RowDriven
  <2> QED BY <2>1, <2>2, <2>3, <2>4 DEF RowDriven
<1>2. CASE RowOf(p) # a
  <2>1. /\ charge'[a] = charge[a] /\ sends'[a] = sends[a] /\ fate'[a] = fate[a]
    BY <1>0, <1>2, CallRows DEF OtherRows
  <2> QED BY <1>0, <2>1, QuietTrue
<1> QED BY <1>1, <1>2

\* A sweep confirms an authorization on a landed redemption only.
LEMMA SweepTrue ==
  ASSUME TypeOK, NEW a \in Auths, AuthTrue(a), SweepStep
  PROVE  AuthTrue(a)'
<1>0. a \in Rows /\ UNCHANGED <<sends, fate>>
  BY DEF Rows, SweepStep, SweepBegin, SweepScan, SweepFails, SweepApply, SweepAnswer, SweepNoAnswer, chain
<1>1. CASE SweepBegin \/ SweepFails
  <2>1. charge' = charge /\ sweep'.hits = {}
    <3>1. CASE SweepBegin
      BY <3>1 DEF SweepBegin, NoSweep, books
    <3>2. CASE SweepFails
      BY <3>2 DEF SweepFails, NoSweep, books
    <3> QED BY <1>1, <3>1, <3>2
  <2> QED BY <1>0, <2>1, QuietTrue
<1>2. CASE SweepScan
  BY <1>0, <1>2, QuietTrue DEF SweepScan, TypeOK, books
<1>3. CASE SweepApply
  <2>1. charge'[a] = "confirmed" => charge[a] = "confirmed" \/ a \in sweep.hits
    BY <1>0, <1>3 DEF SweepApply, Released
  <2>2. sweep'.hits = {}
    BY <1>3 DEF SweepApply, NoSweep
  <2> QED BY <1>0, <2>1, <2>2, QuietTrue DEF AuthTrue
<1>4. ASSUME NEW r \in Rows, SweepAnswer(r) \/ SweepNoAnswer(r) PROVE AuthTrue(a)'
  <2>1. charge'[a] = "confirmed" => charge[a] = "confirmed" \/ fate[a] = "landed"
    BY <1>0, <1>4 DEF SweepAnswer, Succeeded, Ended, SweepNoAnswer, SetStatus, Released, books, TypeOK
  <2>2. sweep' = RowDone(r)
    BY <1>4 DEF SweepAnswer, SweepNoAnswer
  <2>3. a \in sweep'.hits => a \in sweep.hits
    BY <2>2 DEF RowDone, NoSweep, TypeOK
  <2> QED BY <1>0, <2>1, <2>3, QuietTrue
<1> QED BY <1>1, <1>2, <1>3, <1>4 DEF SweepStep

\* Every step of the settlements keeps what is said of an authorization true.
LEMMA SettlementTrue ==
  ASSUME SettlementOn, TypeOK, SettlementsInStep, NEW a \in Auths, AuthTrue(a),
         [SettlementNext]_settlementVars
  PROVE  AuthTrue(a)'
<1>0. a \in Rows /\ a \notin Pays
  BY DEF Rows
<1>1. ASSUME NEW p \in Pays, PayCall(p) PROVE AuthTrue(a)'
  <2>1. charge'[a] = charge[a] /\ UNCHANGED <<sends, fate, sweep>>
    BY <1>0, <1>1 DEF PayCall, PayBegin, ClearPrior, Prior, Replay, books, chain
  <2> QED BY <2>1, QuietTrue
<1>2. ASSUME NEW p \in Procs, Proceed(p) PROVE AuthTrue(a)'
  BY <1>2, DriverTrue DEF Proceed
<1>3. ASSUME NEW s \in Settlers, SettleCall(s) \/ React(s) PROVE AuthTrue(a)'
  <2>1. /\ UNCHANGED <<sends, fate, sweep>>
        /\ charge' = charge \/ SetStatus(Target[s], "settlement_unconfirmed")
    BY <1>3 DEF SettleCall, SettleBegin, books, chain, React, Settled, NeverSettles, FoundParked,
                BackOff, Exhausted, Park, Leave
  <2>2. charge'[a] = "confirmed" => charge[a] = "confirmed"
    BY <1>0, <2>1 DEF SetStatus, TypeOK
  <2> QED BY <2>1, <2>2, QuietTrue
<1>4. ASSUME NEW b \in Auths, AuthorizeAndKick(b) PROVE AuthTrue(a)'
  <2>1. charge'[a] = "confirmed" => charge[a] = "confirmed"
    BY <1>0, <1>4 DEF AuthorizeAndKick, Authorize, TypeOK
  <2> QED BY <1>4, <2>1, QuietTrue DEF AuthorizeAndKick, Authorize, chain
<1>5. ASSUME NEW s \in Settlers, Climbing(s) PROVE AuthTrue(a)'
  BY <1>5, QuietTrue DEF Climbing, Kickoff, SweepVisit, Attempt, vars, books, chain
<1>6. CASE SweepTick \/ OwnerStep \/ UNCHANGED settlementVars
  BY <1>6, QuietTrue DEF SweepTick, OwnerStep, Freeze, Unfreeze, Revoke, settlementVars, vars, books, chain
<1>7. CASE SweepStep
  BY <1>7, SweepTrue
<1>8. CASE Environment
  <2>1. fate'[a] = fate[a] \/ fate[a] = "inflight"
    BY <1>0, <1>8 DEF Environment, Mine, Interrupt, TypeOK
  <2> QED BY <1>8, <2>1, QuietTrue DEF Environment, Mine, Interrupt, books
<1>9. CASE Restart
  BY <1>9, QuietTrue DEF Restart, Crash, NoSweep, books, chain
<1> QED BY <1>1, <1>2, <1>3, <1>4, <1>5, <1>6, <1>7, <1>8, <1>9 DEF SettlementNext

\* The books say confirmed only of what landed, payments and settled authorizations alike,
\* whichever of a call, a retry and a sweep confirms the row: no assumption on the environment.
THEOREM ConfirmedHasLandedBesideFiat ==
  ASSUME SettlementOn
  PROVE  SettlementSpec => []ConfirmedLanded
<1> DEFINE AuthsTrue == \A a \in Auths : AuthTrue(a)
<1>1. SettlementInit => PaysTrue /\ AuthsTrue
  BY InitTrue DEF SettlementInit, Init, AuthTrue, NoSweep, Rows
<1>2. TypeOK /\ SettlementsInStep /\ AuthsTrue /\ [SettlementNext]_settlementVars => AuthsTrue'
  BY SettlementTrue
<1>3. PaysTrue /\ AuthsTrue => ConfirmedLanded
  BY DEF PaysTrue, AuthTrue, ConfirmedLanded, Rows
<1> QED BY <1>1, <1>2, <1>3, StepTrue, SettlementOfPays, PaymentsKeepInStep, PTL DEF SettlementSpec

\* Money on its way or gone stays counted by the budget, with the fiat lane at work: a sent
\* authorization keeps its row, and under the assumptions of MovedStaysCounted, and with
\* its exception of the rows of interrupted KeeperHub runs, so does a payment.
THEOREM MovedStaysCountedBesideFiat ==
  ASSUME SettlementOn, ~AmbiguousSend, ~RpcBlips, ~StaleCollector
  PROVE  SettlementSpec => []MovedIsCounted
<1>1. SettlementInit => SentIsBooked /\ BooksAgree
  BY InitSent, InitAgree DEF SettlementInit
<1>2. SettlementsInStep /\ SentIsBooked /\ BooksAgree /\ FiatNeverReleased => MovedIsCounted
  <2> SUFFICES ASSUME SettlementsInStep, SentIsBooked, BooksAgree, FiatNeverReleased,
                      NEW r \in Rows, fate[r] \in {"inflight", "landed"}
               PROVE  r \in Counted \cup interrupted
    BY DEF MovedIsCounted
  <2>1. CASE r \in Pays
    BY <2>1 DEF SentIsBooked, BooksAgree, Counted
  <2>2. CASE r \in Auths
    BY <2>2 DEF SettlementsInStep, SentUnderClaim, FiatNeverReleased, Counted, Booked
  <2> QED BY <2>1, <2>2 DEF Rows
<1> QED BY <1>1, <1>2, StepSent, StepAgree, SettlementOfPays, FiatStaysHeld, PaymentsKeepInStep, PTL
        DEF SettlementSpec

\* On the KeeperHub lane every confirmation has been announced, payments and settled
\* authorizations alike, from the call and from the sweep (spend.ts 112-113).
THEOREM ConfirmationsAreAnnouncedBesideFiat ==
  ASSUME SettlementOn, ~ViaChain
  PROVE  SettlementSpec => []ConfirmedIsAnnounced
<1>1. SettlementInit => Told
  BY DEF SettlementInit, Init, Told
<1>2. TypeOK /\ TypeOK' /\ PaysInStep /\ Told /\ [SettlementNext]_settlementVars => Told'
  <2> SUFFICES ASSUME TypeOK, TypeOK', PaysInStep, Told, [SettlementNext]_settlementVars, NEW r \in Rows
               PROVE  charge'[r] = "confirmed" => announced'[r] > 0
    BY DEF Told
  <2>0. /\ charge[r] = "confirmed" => announced[r] > 0
        /\ SweptRows
    BY DEF Told, PaysInStep
  <2>1. ASSUME NEW p \in Procs, Proceed(p) PROVE charge'[r] = "confirmed" => announced'[r] > 0
    BY <2>0, <2>1, CallAnnounces, StaysTold DEF Proceed
  <2>2. ASSUME announced' = announced, charge'[r] = "confirmed" => charge[r] = "confirmed"
        PROVE  charge'[r] = "confirmed" => announced'[r] > 0
    BY <2>0, <2>2
  <2>3. ASSUME NEW p \in Pays, PayCall(p) PROVE charge'[r] = "confirmed" => announced'[r] > 0
    BY <2>2, <2>3 DEF PayCall, Replay, PayBegin, ClearPrior, books
  <2>4. ASSUME NEW s \in Settlers, SettleCall(s) \/ React(s)
        PROVE  charge'[r] = "confirmed" => announced'[r] > 0
    <3>1. /\ announced' = announced
          /\ charge' = charge \/ SetStatus(Target[s], "settlement_unconfirmed")
      BY <2>4 DEF SettleCall, SettleBegin, books, React, Settled, NeverSettles, FoundParked,
                  BackOff, Exhausted, Park, Leave
    <3>2. charge'[r] = "confirmed" => charge[r] = "confirmed"
      BY <3>1 DEF SetStatus, TypeOK
    <3> QED BY <2>2, <3>1, <3>2
  <2>5. ASSUME NEW s \in Settlers, Climbing(s) PROVE charge'[r] = "confirmed" => announced'[r] > 0
    BY <2>2, <2>5 DEF Climbing, Kickoff, SweepVisit, Attempt, vars, books
  <2>6. CASE SweepTick \/ UNCHANGED settlementVars
    BY <2>2, <2>6 DEF SweepTick, settlementVars, vars, books
  <2>7. CASE SweepStep
    BY <2>0, <2>7, SweepAnnounces, StaysTold
  <2>8. CASE (\E a \in Auths : AuthorizeAndKick(a)) \/ OwnerStep \/ Environment \/ Restart
    BY <2>2, <2>8, OthersAnnounce DEF AuthorizeAndKick, Restart
  <2> QED BY <2>1, <2>3, <2>4, <2>5, <2>6, <2>7, <2>8 DEF SettlementNext
<1>3. Told => ConfirmedIsAnnounced
  BY DEF Told, ConfirmedIsAnnounced
<1> QED BY <1>1, <1>2, <1>3, PaymentsKeepInStep, PTL DEF SettlementSpec

=============================================================================
