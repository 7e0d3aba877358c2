----------------------------- MODULE PlansProofs -----------------------------
(***************************************************************************)
(* What module Plans promises, proved for any number of plans, pay calls   *)
(* and attempts of the client, any sharing of idempotency keys between the *)
(* plans, any route of their redemptions, and any number of restarts.      *)
(***************************************************************************)
EXTENDS Plans, TLAPS

USE PlansAssumption

-----------------------------------------------------------------------------
(* The inductive invariant.                                                *)

Working == {"check", "send", "sent", "poll"}
Gone == {"none", "deleted"}
Counted == {"pending", "confirmed"}

SameKey(e, f) == KeyOf[PlanOf[e]] # NoKey /\ KeyOf[PlanOf[e]] = KeyOf[PlanOf[f]]

\* A call at work holds the mutex.
InMutex == \A e \in Execs : pc[e] \in Working => holder = e

\* A call that has not claimed its plan has no row; one that has is the plan's charge.
ClaimOrder ==
  \A e \in Execs :
    /\ pc[e] \in {"queued", "check"} => charge[e] = "none"
    /\ pc[e] \in {"queued", "check", "send", "sent"} => ~sent[e]
    /\ pc[e] \in {"send", "sent", "poll"} => plan[PlanOf[e]] = "executed" /\ linked[PlanOf[e]] = e
    /\ pc[e] \in {"send", "sent"} => charge[e] = "pending"
    /\ pc[e] = "poll" => sent[e]

\* A plan is linked when it is used up, to the one charge that can count.
LinkedOnce ==
  /\ \A p \in PlanIds : plan[p] \in {"none", "open"} => linked[p] = None
  /\ \A e \in Execs : charge[e] \in Counted \/ sent[e] => linked[PlanOf[e]] = e
  /\ \A e \in Execs : sent[e] => charge[e] \notin Gone

\* One row per idempotency key, and none while a call with that key checks the code.
KeyedOnce ==
  /\ \A e, f \in Execs : SameKey(e, f) /\ charge[e] \notin Gone /\ charge[f] \notin Gone => e = f
  /\ \A e, f \in Execs : pc[e] = "check" /\ SameKey(e, f) => charge[f] \in Gone

\* KeeperHub starts a plan's run when its key is first seen.
RunCounts == \A p \in PlanIds : runs[p] = IF run[p] = "none" THEN 0 ELSE 1

\* The write goes out once its node is reached, a run that goes on after it knows that it
\* landed, and one that failed has none on its way unless it was interrupted.
TxFollowsRun ==
  \A p \in PlanIds :
    /\ run[p] \in {"none", "risk", "redeem", "skipped"} => tx[p] = "none"
    /\ run[p] = "mining" => tx[p] = "out"
    /\ run[p] \in {"report", "success"} => tx[p] = "landed"
    /\ run[p] = "failed" => p \in Interruptible \/ ~Moving(p)

\* What the books decided of a run taken on, they decided when it had ended that way.
BooksKnowEnd ==
  /\ \A e \in Execs :
       /\ charge[e] = "confirmed" => run[PlanOf[e]] = "success"
       /\ charge[e] = "failed" /\ sent[e] => run[PlanOf[e]] \in {"skipped", "failed"}
  /\ \A p \in PlanIds :
       /\ record[p] = "completed" => run[p] = "success"
       /\ record[p] = "failed" => run[p] \in {"skipped", "failed"}

\* An answer is about a charge that was taken on, a call's own while it waits for it, and
\* a terminal one stays true.
HeardTruly ==
  \A r \in Readers : heard[r] # Silent =>
    /\ heard[r].of \in Execs /\ sent[heard[r].of]
    /\ r \in Execs => heard[r].of = r /\ pc[r] = "poll"
    /\ heard[r].status \in Ended => run[PlanOf[heard[r].of]] = heard[r].status

IInv ==
  /\ TypeOK /\ InMutex /\ ClaimOrder /\ LinkedOnce /\ KeyedOnce
  /\ RunCounts /\ TxFollowsRun /\ OnlyLinkedPlansRun /\ HeardTruly /\ BooksKnowEnd

-----------------------------------------------------------------------------
(* Types.                                                                  *)

LEMMA ClearedCharge ==
  ASSUME TypeOK, NEW p \in PlanIds, charge' = Cleared(p)
  PROVE  /\ charge' \in [Execs -> ChargeStates]
         /\ \A f \in Execs : charge'[f] = IF f \in Prior(p) THEN "deleted" ELSE charge[f]
  BY DEF TypeOK, Cleared, ChargeStates

LEMMA GotoType ==
  ASSUME TypeOK, NEW e \in Execs, NEW l \in PcStates, Goto(e, l)
  PROVE  pc' \in [Execs -> PcStates]
  BY DEF TypeOK, Goto

LEMMA RecordType ==
  ASSUME NEW s
  PROVE  RecordOf(s) \in RecordStates
<1>1. CASE s = "success"
  BY <1>1 DEF RecordOf, RecordStates
<1>2. CASE s \in {"skipped", "failed"}
  BY <1>2 DEF RecordOf, RecordStates
<1>3. CASE s = "unconfirmed"
  BY <1>3 DEF RecordOf, RecordStates
<1>4. CASE s \notin {"success", "skipped", "failed", "unconfirmed"}
  BY <1>4 DEF RecordOf, RecordStates
<1> QED BY <1>1, <1>2, <1>3, <1>4

LEMMA StatusType ==
  ASSUME NEW s \in RunStates
  PROVE  StatusOf(s) \in Statuses /\ (StatusOf(s) \in Ended => StatusOf(s) = s)
  BY DEF RunStates, StatusOf, Statuses, Ended

LEMMA CallTypes ==
  ASSUME TypeOK, NEW e \in Execs,
         \/ TurnAway(e) \/ ReplayKey(e) \/ Begin(e) \/ Refuse(e) \/ ClaimFrozen(e) \/ ClaimLate(e)
         \/ Dispatch(e) \/ Receive(e) \/ Accepted(e) \/ Resend(e) \/ SendThrows(e) \/ WaitEnds(e)
  PROVE  TypeOK'
<1> USE DEF table, books, calls, service
<1>1. PcStates = {"queued", "check", "send", "sent", "poll", "done"}
  BY DEF PcStates
<1>2. PlanOf[e] \in PlanIds
  OBVIOUS
<1>3. CASE TurnAway(e)
  BY <1>1, <1>2, <1>3, GotoType DEF TurnAway, Aside, TypeOK, PlanStates
<1>4. CASE ReplayKey(e)
  BY <1>1, <1>4, GotoType DEF ReplayKey, TypeOK
<1>5. CASE Begin(e)
  <2>1. pc' \in [Execs -> PcStates]
    BY <1>1, <1>5, GotoType DEF Begin
  <2> QED BY <1>2, <1>5, <2>1, ClearedCharge DEF Begin, TypeOK
<1>6. CASE Refuse(e) \/ WaitEnds(e)
  BY <1>1, <1>6, GotoType DEF Refuse, WaitEnds, TypeOK
<1>7. CASE ClaimFrozen(e) \/ ClaimLate(e) \/ Dispatch(e)
  <2>1. pc' \in [Execs -> PcStates]
    BY <1>1, <1>7, GotoType DEF ClaimFrozen, ClaimLate, Dispatch
  <2>2. plan' \in [PlanIds -> PlanStates] /\ linked' \in [PlanIds -> Execs \cup {None}]
    BY <1>2, <1>7 DEF ClaimFrozen, ClaimLate, Dispatch, TypeOK, PlanStates
  <2>3. charge' \in [Execs -> ChargeStates]
    BY <1>7 DEF ClaimFrozen, ClaimLate, Dispatch, TypeOK, ChargeStates
  <2>4. late' \in [PlanIds -> BOOLEAN]
    BY <1>7 DEF ClaimFrozen, ClaimLate, Dispatch, Aside, TypeOK
  <2> QED BY <1>7, <2>1, <2>2, <2>3, <2>4 DEF ClaimFrozen, ClaimLate, Dispatch, TypeOK
<1>8. CASE Receive(e)
  <2>1. pc' \in [Execs -> PcStates]
    BY <1>1, <1>8, GotoType DEF Receive
  <2>2. run' \in [PlanIds -> RunStates] /\ runs' \in [PlanIds -> Nat]
    BY <1>2, <1>8 DEF Receive, Started, First, TypeOK, RunStates
  <2> QED BY <1>8, <2>1, <2>2 DEF Receive, TypeOK
<1>9. CASE Accepted(e)
  <2>1. pc' \in [Execs -> PcStates]
    BY <1>1, <1>9, GotoType DEF Accepted
  <2>2. PICK s \in RecordStates : record' = [record EXCEPT ![PlanOf[e]] = s]
    BY <1>9, RecordType DEF Accepted, SetRecord, RecordStates
  <2>3. tries' \in [Execs -> 0..MaxAttempts] /\ sent' \in [Execs -> BOOLEAN]
    BY <1>9 DEF Accepted, TypeOK
  <2>4. record' \in [PlanIds -> RecordStates]
    BY <1>2, <2>2 DEF TypeOK
  <2> QED BY <1>9, <2>1, <2>3, <2>4 DEF Accepted, TypeOK
<1>10. CASE Resend(e)
  <2>1. pc' \in [Execs -> PcStates]
    BY <1>1, <1>10, GotoType DEF Resend
  <2>2. tries' \in [Execs -> 0..MaxAttempts]
    BY <1>10 DEF Resend, TypeOK
  <2> QED BY <1>10, <2>1, <2>2 DEF Resend, TypeOK
<1>11. CASE SendThrows(e)
  <2>1. pc' \in [Execs -> PcStates]
    BY <1>1, <1>11, GotoType DEF SendThrows
  <2>2. tries' \in [Execs -> 0..MaxAttempts]
    BY <1>11 DEF SendThrows, TypeOK
  <2> QED BY <1>2, <1>11, <2>1, <2>2 DEF SendThrows, TypeOK, PlanStates, ChargeStates
<1> QED BY <1>3, <1>4, <1>5, <1>6, <1>7, <1>8, <1>9, <1>10, <1>11

\* A step of a run, by what it does to the run and to its transaction.
LEMMA RunMoves ==
  ASSUME TypeOK, NEW p \in PlanIds, Progress(p) \/ Interrupt(p)
  PROVE  /\ RunOnly
         /\ run' \in [PlanIds -> RunStates] /\ tx' \in [PlanIds -> TxStates]
         /\ \A q \in PlanIds : q # p => run'[q] = run[q] /\ tx'[q] = tx[q]
         /\ \/ run[p] = "risk" /\ run'[p] \in {"redeem", "skipped", "failed"} /\ tx'[p] = tx[p]
            \/ run[p] = "redeem" /\ run'[p] = "mining" /\ tx'[p] = "out"
            \/ run[p] = "redeem" /\ run'[p] = "failed" /\ tx'[p] = tx[p]
            \/ run[p] = "mining" /\ run'[p] \in {"report", "success"} /\ tx'[p] = "landed"
            \/ run[p] = "mining" /\ run'[p] = "failed" /\ tx'[p] = "reverted"
            \/ tx[p] = "out" /\ run[p] # "mining" /\ run'[p] = run[p] /\ tx'[p] \in {"landed", "reverted"}
            \/ run[p] = "report" /\ run'[p] = "success" /\ tx'[p] = tx[p]
            \/ p \in Interruptible /\ run[p] \in {"mining", "report"} /\ run'[p] = "failed" /\ tx'[p] = tx[p]
<1> USE DEF TypeOK, RunStates, TxStates, Step
<1>1. CASE Assess(p)
  BY <1>1 DEF Assess, RunOnly
<1>2. CASE Write(p)
  BY <1>2 DEF Write, RunOnly
<1>3. CASE Mine(p)
  <2>1. RunOnly
    BY <1>3 DEF Mine
  <2>2. PICK t \in {"landed", "reverted"} :
          /\ tx' = [tx EXCEPT ![p] = t]
          /\ IF run[p] # "mining" THEN UNCHANGED run
             ELSE Step(p, IF t = "landed" THEN AfterWrite(p) ELSE "failed")
    BY <1>3 DEF Mine
  <2>3. AfterWrite(p) \in {"report", "success"}
    BY DEF AfterWrite
  <2> QED BY <1>3, <2>1, <2>2, <2>3 DEF Mine
<1>4. CASE Report(p)
  BY <1>4 DEF Report, RunOnly
<1>5. CASE Interrupt(p)
  BY <1>5 DEF Interrupt, RunOnly
<1> QED BY <1>1, <1>2, <1>3, <1>4, <1>5 DEF Progress

LEMMA OtherTypes ==
  ASSUME TypeOK,
         \/ \E p \in PlanIds : DryRun(p) \/ Expire(p) \/ Progress(p) \/ Interrupt(p)
         \/ \E r \in Readers : HearNothing(r) \/ \E e \in Execs : Ask(r, e)
         \/ Crash
  PROVE  TypeOK'
<1> USE DEF table, books, calls, service
<1>1. ASSUME NEW p \in PlanIds, DryRun(p) PROVE TypeOK'
  BY <1>1, ClearedCharge DEF DryRun, TypeOK, PlanStates
<1>2. ASSUME NEW p \in PlanIds, Expire(p) \/ Progress(p) \/ Interrupt(p) PROVE TypeOK'
  <2>1. CASE Expire(p)
    BY <2>1 DEF Expire, TypeOK
  <2>2. CASE Progress(p) \/ Interrupt(p)
    <3>1. run' \in [PlanIds -> RunStates] /\ tx' \in [PlanIds -> TxStates] /\ RunOnly
      BY <2>2, RunMoves DEF TypeOK
    <3> QED BY <3>1 DEF RunOnly, TypeOK
  <2> QED BY <1>2, <2>1, <2>2
<1>3. ASSUME NEW r \in Readers, HearNothing(r) PROVE TypeOK'
  BY <1>3 DEF HearNothing, Silent, TypeOK, Statuses
<1>4. ASSUME NEW r \in Readers, NEW e \in Execs, Ask(r, e) PROVE TypeOK'
  <2>1. StatusOf(run[PlanOf[e]]) \in Statuses
    BY StatusType DEF TypeOK
  <2> QED BY <1>4, <2>1 DEF Ask, TypeOK
<1>5. CASE Crash
  BY <1>5 DEF Crash, Silent, TypeOK, Statuses, PcStates
<1> QED BY <1>1, <1>2, <1>3, <1>4, <1>5

\* What an answer leaves behind, field by field.
LEMMA HearFields ==
  ASSUME TypeOK, HeardTruly, NEW r \in Readers, Hear(r)
  PROVE  LET e == heard[r].of
             v == Verdict(heard[r].status)
         IN  /\ e \in Execs /\ v \in {"pending", "confirmed", "failed"}
             /\ record' \in [PlanIds -> RecordStates]
             /\ \A p \in PlanIds : record'[p] = record[p]
                  \/ (p = PlanOf[e] /\ record'[p] = "completed" /\ v = "confirmed")
                  \/ (p = PlanOf[e] /\ record'[p] = "failed" /\ v = "failed")
                  \/ record'[p] \in {"running", "unconfirmed"}
             /\ \A f \in Execs : charge'[f] = IF f = e /\ v # "pending" THEN v ELSE charge[f]
             /\ charge' \in [Execs -> ChargeStates]
             /\ pc' \in [Execs -> PcStates] /\ holder' \in Execs \cup {None}
             /\ \A f \in Execs : pc'[f] = IF f = e /\ r = e /\ v # "pending" THEN "done" ELSE pc[f]
             /\ holder' = IF r = e /\ v # "pending" THEN None ELSE holder
             /\ \A q \in Readers : heard'[q] = IF q = r THEN Silent ELSE heard[q]
             /\ heard' \in [Readers -> [of : Execs \cup {None}, status : Statuses]]
<1> DEFINE e == heard[r].of
           v == Verdict(heard[r].status)
<1>1. e \in Execs /\ PlanOf[e] \in PlanIds
  BY DEF HeardTruly, Hear
<1>2. v \in {"pending", "confirmed", "failed"}
  BY DEF Verdict
<1>3. \/ Noted(PlanOf[e], heard[r].status) = record[PlanOf[e]]
      \/ Noted(PlanOf[e], heard[r].status) = "completed" /\ v = "confirmed"
      \/ Noted(PlanOf[e], heard[r].status) = "failed" /\ v = "failed"
      \/ Noted(PlanOf[e], heard[r].status) \in {"running", "unconfirmed"}
  <2>1. heard[r].status \in Statuses
    BY DEF TypeOK
  <2>2. CASE heard[r].status = "success"
    BY <2>2 DEF Noted, Verdict, RecordOf
  <2>3. CASE heard[r].status \in {"skipped", "failed"}
    BY <2>3 DEF Noted, Verdict, RecordOf
  <2>4. CASE heard[r].status = "unconfirmed"
    BY <2>4 DEF Noted, Verdict, RecordOf
  <2>5. CASE heard[r].status \in {"none", "running"}
    BY <2>5 DEF Noted, Verdict, RecordOf
  <2> QED BY <2>1, <2>2, <2>3, <2>4, <2>5 DEF Statuses, Ended
<1>4. record' = [record EXCEPT ![PlanOf[e]] = Noted(PlanOf[e], heard[r].status)]
  BY DEF Hear, SetRecord
<1>5. /\ record' \in [PlanIds -> RecordStates]
      /\ \A p \in PlanIds : record'[p] = record[p]
           \/ (p = PlanOf[e] /\ record'[p] = "completed" /\ v = "confirmed")
           \/ (p = PlanOf[e] /\ record'[p] = "failed" /\ v = "failed")
           \/ record'[p] \in {"running", "unconfirmed"}
  BY <1>1, <1>3, <1>4 DEF TypeOK, RecordStates
<1>6. /\ charge' = IF v = "pending" THEN charge ELSE [charge EXCEPT ![e] = v]
      /\ IF r = e /\ v # "pending" THEN Goto(e, "done") /\ holder' = None ELSE UNCHANGED <<pc, holder>>
  BY DEF Hear
<1>7. /\ charge' \in [Execs -> ChargeStates]
      /\ \A f \in Execs : charge'[f] = IF f = e /\ v # "pending" THEN v ELSE charge[f]
  BY <1>1, <1>2, <1>6 DEF TypeOK, ChargeStates
<1>8. /\ pc' \in [Execs -> PcStates]
      /\ \A f \in Execs : pc'[f] = IF f = e /\ r = e /\ v # "pending" THEN "done" ELSE pc[f]
  BY <1>1, <1>6 DEF TypeOK, Goto, PcStates
<1>9. /\ \A q \in Readers : heard'[q] = IF q = r THEN Silent ELSE heard[q]
      /\ heard' \in [Readers -> [of : Execs \cup {None}, status : Statuses]]
  BY DEF Hear, Silent, TypeOK, Statuses
<1>10. holder' = (IF r = e /\ v # "pending" THEN None ELSE holder) /\ holder' \in Execs \cup {None}
  BY <1>6 DEF TypeOK
<1> HIDE DEF e, v
<1> QED BY <1>1, <1>2, <1>5, <1>7, <1>8, <1>9, <1>10 DEF e, v

LEMMA NextTypes ==
  ASSUME TypeOK, HeardTruly, [Next]_vars
  PROVE  TypeOK'
<1>1. CASE UNCHANGED vars
  BY <1>1 DEF vars, table, books, calls, service, TypeOK
<1>2. ASSUME NEW r \in Readers, Hear(r) PROVE TypeOK'
  BY <1>2, HearFields DEF Hear, TypeOK, table, service
<1> QED BY <1>1, <1>2, CallTypes, OtherTypes DEF Next

-----------------------------------------------------------------------------
(* Steps that end a call or delete failures.                               *)

\* What the books, the plans and the runs say, wherever the calls stand.
Ledgers == LinkedOnce /\ RunCounts /\ TxFollowsRun /\ OnlyLinkedPlansRun /\ BooksKnowEnd

\* Failures of a key are cleared: no row of the key is left.
LEMMA ClearedBooks ==
  ASSUME IInv, NEW p \in PlanIds, \A f \in Prior(p) : Retryable(f), charge' = Cleared(p),
         UNCHANGED <<linked, sent, run, runs, tx, record>>,
         \A q \in PlanIds : plan'[q] = plan[q] \/ (plan[q] = "none" /\ plan'[q] = "open")
  PROVE  /\ Ledgers'
         /\ \A e, f \in Execs : SameKey(e, f) /\ charge'[e] \notin Gone /\ charge'[f] \notin Gone => e = f
         /\ \A f \in Execs : charge'[f] = charge[f] \/ (charge[f] = "failed" /\ ~sent[f] /\ charge'[f] = "deleted")
         /\ \A f \in Execs : KeyOf[p] # NoKey /\ KeyOf[PlanOf[f]] = KeyOf[p] => charge'[f] \in Gone
<1>1. \A f \in Execs : charge'[f] = IF f \in Prior(p) THEN "deleted" ELSE charge[f]
  BY ClearedCharge DEF IInv
<1>2. \A f \in Execs : charge'[f] = charge[f] \/ (charge[f] = "failed" /\ ~sent[f] /\ charge'[f] = "deleted")
  BY <1>1 DEF Retryable, Prior
<1>3. Ledgers'
  BY <1>2 DEF Ledgers, IInv, LinkedOnce, RunCounts, TxFollowsRun, Moving, OnlyLinkedPlansRun, BooksKnowEnd, Counted, Gone, TypeOK
<1>4. \A f \in Execs : KeyOf[p] # NoKey /\ KeyOf[PlanOf[f]] = KeyOf[p] => charge'[f] \in Gone
  BY <1>1 DEF Prior, Gone
<1>5. \A f \in Execs : charge'[f] \notin Gone => charge[f] \notin Gone
  BY <1>2 DEF Gone
<1> QED BY <1>2, <1>3, <1>4, <1>5 DEF IInv, KeyedOnce

\* A dry run comes while no call is at work.
LEMMA DryRunKeeps ==
  ASSUME IInv, NEW p \in PlanIds, DryRun(p)
  PROVE  IInv'
<1>1. TypeOK'
  BY OtherTypes DEF IInv
<1>2. /\ UNCHANGED <<linked, sent, run, runs, tx, record, pc, holder, heard>>
      /\ plan[p] = "none" /\ \A q \in PlanIds : plan'[q] = IF q = p THEN "open" ELSE plan[q]
      /\ holder = None /\ charge' = Cleared(p) /\ \A f \in Prior(p) : Retryable(f)
  BY DEF DryRun, IInv, TypeOK, calls, service
<1>3. \A e \in Execs : pc[e] \notin Working
  BY <1>2 DEF IInv, InMutex
<1>4. /\ Ledgers'
      /\ \A e, f \in Execs : SameKey(e, f) /\ charge'[e] \notin Gone /\ charge'[f] \notin Gone => e = f
      /\ \A f \in Execs : charge'[f] = charge[f] \/ (charge[f] = "failed" /\ ~sent[f] /\ charge'[f] = "deleted")
  BY <1>2, ClearedBooks
<1>5. InMutex' /\ ClaimOrder' /\ KeyedOnce' /\ HeardTruly'
  BY <1>2, <1>3, <1>4 DEF IInv, InMutex, ClaimOrder, KeyedOnce, HeardTruly, Working
<1> QED BY <1>1, <1>4, <1>5 DEF IInv, Ledgers

\* A call enters the mutex with no row left under its key.
LEMMA BeginKeeps ==
  ASSUME IInv, NEW e \in Execs, Begin(e)
  PROVE  IInv'
<1>1. TypeOK' /\ PlanOf[e] \in PlanIds
  BY CallTypes DEF IInv
<1>2. /\ UNCHANGED <<plan, linked, sent, run, runs, tx, record, heard>>
      /\ pc[e] = "queued" /\ holder = None
      /\ charge' = Cleared(PlanOf[e]) /\ \A f \in Prior(PlanOf[e]) : Retryable(f)
  BY DEF Begin, Turn, table, service
<1>3. \A f \in Execs : pc[f] \notin Working
  BY <1>2 DEF IInv, InMutex
<1>4. /\ Ledgers'
      /\ \A f, g \in Execs : SameKey(f, g) /\ charge'[f] \notin Gone /\ charge'[g] \notin Gone => f = g
      /\ \A f \in Execs : charge'[f] = charge[f] \/ (charge[f] = "failed" /\ ~sent[f] /\ charge'[f] = "deleted")
      /\ \A f \in Execs : SameKey(e, f) => charge'[f] \in Gone
  BY <1>1, <1>2, ClearedBooks DEF SameKey
<1>5. \/ holder' = e /\ \A f \in Execs : pc'[f] = IF f = e THEN "check" ELSE pc[f]
      \/ holder' = None /\ \A f \in Execs : pc'[f] = IF f = e THEN "done" ELSE pc[f]
  BY <1>2 DEF Begin, Goto, IInv, TypeOK
<1>6. InMutex' /\ ClaimOrder' /\ KeyedOnce' /\ HeardTruly'
  BY <1>2, <1>3, <1>4, <1>5 DEF IInv, InMutex, ClaimOrder, KeyedOnce, HeardTruly, Working
<1> QED BY <1>1, <1>4, <1>6 DEF IInv, Ledgers

\* A call ends, and the plan at most runs out of time.
LEMMA EndKeeps ==
  ASSUME IInv, NEW e \in Execs, TurnAway(e) \/ ReplayKey(e) \/ Refuse(e) \/ WaitEnds(e)
  PROVE  IInv'
<1>1. TypeOK'
  BY CallTypes DEF IInv
<1>2. /\ UNCHANGED <<linked, charge, sent, run, runs, tx, record, heard>>
      /\ \A f \in Execs : pc'[f] = IF f = e THEN "done" ELSE pc[f]
      /\ \A p \in PlanIds : plan'[p] = plan[p] \/ (plan[p] = "open" /\ plan'[p] = "expired")
  BY DEF TurnAway, ReplayKey, Refuse, WaitEnds, Goto, IInv, TypeOK, table, books, service
<1>3. \A f \in Execs : pc'[f] \in Working => holder' = f
  BY <1>2 DEF TurnAway, ReplayKey, Refuse, WaitEnds, Turn, IInv, InMutex, Working
<1>4. InMutex' /\ ClaimOrder' /\ KeyedOnce'
  BY <1>2, <1>3 DEF IInv, InMutex, ClaimOrder, KeyedOnce
<1>5. \A r \in Readers : heard[r] # Silent => r # e
  BY DEF TurnAway, ReplayKey, Refuse, WaitEnds, Turn, IInv, HeardTruly
<1>6. HeardTruly'
  BY <1>2, <1>5 DEF IInv, HeardTruly
<1>7. Ledgers'
  BY <1>2 DEF Ledgers, IInv, LinkedOnce, RunCounts, TxFollowsRun, Moving, OnlyLinkedPlansRun, BooksKnowEnd
<1> QED BY <1>1, <1>4, <1>6, <1>7 DEF IInv, Ledgers

-----------------------------------------------------------------------------
(* Steps of the call that holds the mutex.                                 *)

\* Nobody else is at work while a call is.
LEMMA OneAtWork ==
  ASSUME IInv, NEW e \in Execs, pc[e] \in Working
  PROVE  holder = e /\ \A f \in Execs : pc[f] \in Working => f = e
  BY DEF IInv, InMutex

\* The claim: an open plan has no charge yet, and the key has no row.
LEMMA ClaimKeeps ==
  ASSUME IInv, NEW e \in Execs, ClaimFrozen(e) \/ ClaimLate(e) \/ Dispatch(e)
  PROVE  IInv'
<1>1. TypeOK' /\ PlanOf[e] \in PlanIds
  BY CallTypes DEF IInv
<1>2. /\ pc[e] = "check" /\ plan[PlanOf[e]] = "open"
      /\ UNCHANGED <<sent, run, runs, tx, record, heard>>
  BY DEF ClaimFrozen, ClaimLate, Dispatch, Claimable, service
<1>3. /\ holder = e /\ \A f \in Execs : pc[f] \in Working => f = e
      /\ charge[e] = "none" /\ ~sent[e] /\ linked[PlanOf[e]] = None /\ runs[PlanOf[e]] = 0
      /\ \A f \in Execs : SameKey(e, f) => charge[f] \in Gone
  <2>1. runs[PlanOf[e]] = 0
    BY <1>1, <1>2 DEF IInv, RunCounts, OnlyLinkedPlansRun, TypeOK
  <2> QED BY <1>1, <1>2, <2>1, OneAtWork DEF IInv, ClaimOrder, LinkedOnce, KeyedOnce, Working
<1>4. PICK c \in {"failed", "pending"}, s \in {"executed", "failed"}, l \in {"done", "send"} :
        /\ \A f \in Execs : charge'[f] = IF f = e THEN c ELSE charge[f]
        /\ \A p \in PlanIds : plan'[p] = IF p = PlanOf[e] THEN s ELSE plan[p]
        /\ \A f \in Execs : pc'[f] = IF f = e THEN l ELSE pc[f]
        /\ l = "send" => c = "pending" /\ s = "executed" /\ holder' = holder
        /\ c = "pending" => l = "send" /\ \A p \in PlanIds : linked'[p] = IF p = PlanOf[e] THEN e ELSE linked[p]
        /\ \/ linked' = linked
           \/ \A p \in PlanIds : linked'[p] = IF p = PlanOf[e] THEN e ELSE linked[p]
  <2>1. CASE ClaimFrozen(e)
    BY <2>1 DEF ClaimFrozen, Goto, IInv, TypeOK
  <2>2. CASE ClaimLate(e)
    BY <2>2 DEF ClaimLate, Goto, IInv, TypeOK
  <2>3. CASE Dispatch(e)
    BY <2>3 DEF Dispatch, Goto, IInv, TypeOK
  <2> QED BY <2>1, <2>2, <2>3
<1>5. InMutex' /\ ClaimOrder'
  BY <1>1, <1>2, <1>3, <1>4 DEF IInv, InMutex, ClaimOrder, Working
<1>6. LinkedOnce'
  BY <1>1, <1>2, <1>3, <1>4 DEF IInv, LinkedOnce, Counted, Gone
<1>7. KeyedOnce'
  BY <1>1, <1>2, <1>3, <1>4 DEF IInv, KeyedOnce, SameKey, Working
<1>8. RunCounts' /\ TxFollowsRun' /\ OnlyLinkedPlansRun' /\ HeardTruly' /\ BooksKnowEnd'
  BY <1>1, <1>2, <1>3, <1>4 DEF IInv, RunCounts, TxFollowsRun, Moving, OnlyLinkedPlansRun, HeardTruly, BooksKnowEnd
<1> QED BY <1>1, <1>5, <1>6, <1>7, <1>8 DEF IInv

\* The request, its retries and its answer: the plan is used up and linked by now.
LEMMA SendKeeps ==
  ASSUME IInv, NEW e \in Execs, Receive(e) \/ Accepted(e) \/ Resend(e) \/ SendThrows(e)
  PROVE  IInv'
<1>1. TypeOK' /\ PlanOf[e] \in PlanIds
  BY CallTypes DEF IInv
<1>2. pc[e] \in {"send", "sent"} /\ UNCHANGED <<linked, heard>>
  BY DEF Receive, Accepted, Resend, SendThrows, table
<1>3. /\ holder = e /\ \A f \in Execs : pc[f] \in Working => f = e
      /\ plan[PlanOf[e]] = "executed" /\ linked[PlanOf[e]] = e /\ ~sent[e] /\ charge[e] = "pending"
  BY <1>2, OneAtWork DEF IInv, ClaimOrder, Working
<1>4. \A r \in Readers : heard[r] # Silent => heard[r].of # e /\ r # e
  BY <1>2, <1>3 DEF IInv, HeardTruly
<1>5. CASE Receive(e)
  <2>1. /\ UNCHANGED <<plan, charge, sent, record, holder, tx>>
        /\ \A f \in Execs : pc'[f] = IF f = e THEN "sent" ELSE pc[f]
    BY <1>5 DEF Receive, Goto, IInv, TypeOK, table, books
  <2>2. /\ \A p \in PlanIds : run'[p] = IF p = PlanOf[e] /\ run[p] = "none" THEN First(p) ELSE run[p]
        /\ \A p \in PlanIds : runs'[p] = IF p = PlanOf[e] /\ run[p] = "none" THEN runs[p] + 1 ELSE runs[p]
        /\ \A p \in PlanIds : First(p) \in {"risk", "redeem"}
    BY <1>1, <1>5 DEF Receive, Started, First, IInv, TypeOK
  <2>3. InMutex' /\ ClaimOrder' /\ LinkedOnce' /\ KeyedOnce'
    BY <1>2, <1>3, <2>1 DEF IInv, InMutex, ClaimOrder, LinkedOnce, KeyedOnce, Working
  <2>4. RunCounts' /\ OnlyLinkedPlansRun'
    BY <1>1, <1>2, <1>3, <2>1, <2>2 DEF IInv, RunCounts, OnlyLinkedPlansRun
  <2>5. HeardTruly' /\ BooksKnowEnd'
    BY <1>1, <1>2, <1>3, <1>4, <2>1, <2>2 DEF IInv, HeardTruly, BooksKnowEnd, Ended
  <2>6. TxFollowsRun'
    BY <2>1, <2>2 DEF IInv, TxFollowsRun, Moving
  <2> QED BY <1>1, <2>3, <2>4, <2>5, <2>6 DEF IInv
<1>6. CASE Accepted(e)
  <2>1. /\ UNCHANGED <<plan, charge, holder, run, runs, tx>>
        /\ \A f \in Execs : pc'[f] = IF f = e THEN "poll" ELSE pc[f]
        /\ \A f \in Execs : sent'[f] = IF f = e THEN TRUE ELSE sent[f]
    BY <1>6 DEF Accepted, Goto, IInv, TypeOK, table, service
  <2>2. InMutex' /\ ClaimOrder' /\ LinkedOnce' /\ KeyedOnce'
    <3>1. InMutex'
      BY <1>2, <1>3, <2>1 DEF IInv, InMutex, Working
    <3>2. \A f \in Execs : f # e => (sent'[f] <=> sent[f]) /\ pc'[f] = pc[f]
      BY <2>1
    <3>3. sent'[e] /\ pc'[e] = "poll"
      BY <2>1
    <3>4. ClaimOrder'
      BY <1>2, <1>3, <2>1, <3>2, <3>3 DEF IInv, ClaimOrder
    <3>5. LinkedOnce'
      BY <1>2, <1>3, <2>1 DEF IInv, LinkedOnce, Gone
    <3>6. KeyedOnce'
      BY <1>2, <2>1 DEF IInv, KeyedOnce
    <3> QED BY <3>1, <3>4, <3>5, <3>6
  <2>3. RunCounts' /\ TxFollowsRun' /\ OnlyLinkedPlansRun'
    BY <1>2, <1>3, <2>1 DEF IInv, RunCounts, TxFollowsRun, Moving, OnlyLinkedPlansRun
  <2>5. \A p \in PlanIds : record'[p] = record[p] \/ record'[p] = "running"
                           \/ record'[p] = RecordOf(StatusOf(run[p]))
    BY <1>1, <1>6 DEF Accepted, SetRecord, IInv, TypeOK
  <2>6. \A p \in PlanIds : /\ RecordOf(StatusOf(run[p])) = "completed" => run[p] = "success"
                           /\ RecordOf(StatusOf(run[p])) = "failed" => run[p] \in {"skipped", "failed"}
    <3>1. TAKE p \in PlanIds
    <3>2. run[p] \in RunStates
      BY DEF IInv, TypeOK
    <3>3. CASE run[p] \in {"risk", "redeem", "report", "none"}
      BY <3>3 DEF StatusOf, RecordOf
    <3>4. CASE run[p] = "mining"
      BY <3>4 DEF StatusOf, RecordOf
    <3>5. CASE run[p] = "success"
      BY <3>5 DEF StatusOf, RecordOf
    <3>6. CASE run[p] \in {"skipped", "failed"}
      BY <3>6 DEF StatusOf, RecordOf
    <3> QED BY <3>2, <3>3, <3>4, <3>5, <3>6 DEF RunStates
  <2>7. BooksKnowEnd'
    BY <1>2, <1>3, <2>1, <2>5, <2>6 DEF IInv, BooksKnowEnd
  <2>4. HeardTruly'
    BY <1>2, <1>4, <2>1 DEF IInv, HeardTruly
  <2> QED BY <1>1, <2>2, <2>3, <2>4, <2>7 DEF IInv
<1>7. CASE Resend(e)
  <2>1. /\ UNCHANGED <<plan, charge, sent, record, holder, run, runs, tx>>
        /\ \A f \in Execs : pc'[f] = IF f = e THEN "send" ELSE pc[f]
    BY <1>7 DEF Resend, Goto, IInv, TypeOK, table, books, service
  <2>2. InMutex' /\ ClaimOrder' /\ LinkedOnce' /\ KeyedOnce'
    BY <1>2, <1>3, <2>1 DEF IInv, InMutex, ClaimOrder, LinkedOnce, KeyedOnce, Working
  <2>3. RunCounts' /\ TxFollowsRun' /\ OnlyLinkedPlansRun' /\ BooksKnowEnd'
    BY <1>2, <2>1 DEF IInv, RunCounts, TxFollowsRun, Moving, OnlyLinkedPlansRun, BooksKnowEnd
  <2>4. HeardTruly'
    BY <1>2, <1>4, <2>1 DEF IInv, HeardTruly
  <2> QED BY <1>1, <2>2, <2>3, <2>4 DEF IInv
<1>8. CASE SendThrows(e)
  <2>1. /\ UNCHANGED <<sent, record, run, runs, tx>> /\ holder' = None
        /\ \A f \in Execs : pc'[f] = IF f = e THEN "done" ELSE pc[f]
        /\ \A f \in Execs : charge'[f] = IF f = e THEN "failed" ELSE charge[f]
        /\ \A p \in PlanIds : plan'[p] = IF p = PlanOf[e] THEN "failed" ELSE plan[p]
    BY <1>1, <1>8 DEF SendThrows, Goto, IInv, TypeOK, service
  <2>2. InMutex' /\ ClaimOrder' /\ LinkedOnce' /\ KeyedOnce'
    BY <1>1, <1>2, <1>3, <2>1 DEF IInv, InMutex, ClaimOrder, LinkedOnce, KeyedOnce, Working, Counted, Gone
  <2>3. RunCounts' /\ TxFollowsRun' /\ OnlyLinkedPlansRun' /\ BooksKnowEnd'
    BY <1>1, <1>2, <1>3, <2>1 DEF IInv, RunCounts, TxFollowsRun, Moving, OnlyLinkedPlansRun, BooksKnowEnd
  <2>4. HeardTruly'
    BY <1>2, <1>4, <2>1 DEF IInv, HeardTruly
  <2> QED BY <1>1, <2>2, <2>3, <2>4 DEF IInv
<1> QED BY <1>5, <1>6, <1>7, <1>8

-----------------------------------------------------------------------------
(* Reading the run's status, the run itself, the clock and a restart.      *)

\* A question is about a charge that was taken on; its answer is as the run stands.
LEMMA AskKeeps ==
  ASSUME IInv, NEW r \in Readers, NEW e \in Execs, Ask(r, e)
  PROVE  IInv'
<1>1. TypeOK'
  BY OtherTypes DEF IInv
<1>2. /\ UNCHANGED <<plan, linked, charge, sent, record, run, runs, tx, pc, holder>>
      /\ \A q \in Readers : q # r => heard'[q] = heard[q]
      /\ heard'[r].of = e /\ heard'[r].status = StatusOf(run[PlanOf[e]])
  BY DEF Ask, IInv, TypeOK, table, books, calls, service
<1>3. sent[e] /\ (r \in Execs => r = e /\ pc[e] = "poll")
  BY DEF Ask, Asks, IInv, ClaimOrder
<1>4. HeardTruly'
  <2>1. StatusOf(run[PlanOf[e]]) \in Ended => StatusOf(run[PlanOf[e]]) = run[PlanOf[e]]
    BY StatusType DEF IInv, TypeOK
  <2> QED BY <1>2, <1>3, <2>1 DEF IInv, HeardTruly
<1>5. InMutex' /\ ClaimOrder' /\ KeyedOnce'
  BY <1>2 DEF IInv, InMutex, ClaimOrder, KeyedOnce
<1>6. Ledgers'
  BY <1>2 DEF Ledgers, IInv, LinkedOnce, RunCounts, TxFollowsRun, Moving, OnlyLinkedPlansRun, BooksKnowEnd
<1> QED BY <1>1, <1>4, <1>5, <1>6 DEF IInv, Ledgers

\* A terminal answer settles the charge it is about, truly.
LEMMA HearKeeps ==
  ASSUME IInv, NEW r \in Readers, Hear(r)
  PROVE  IInv'
<1> DEFINE e == heard[r].of
           v == Verdict(heard[r].status)
<1>1. TypeOK'
  BY NextTypes DEF Next, IInv
<1>2. /\ e \in Execs /\ v \in {"pending", "confirmed", "failed"}
      /\ \A f \in Execs : charge'[f] = IF f = e /\ v # "pending" THEN v ELSE charge[f]
      /\ \A f \in Execs : pc'[f] = pc[f] \/ (f = e /\ r = e /\ pc'[f] = "done")
      /\ holder' = holder \/ (r = e /\ pc'[e] = "done" /\ holder' = None)
      /\ \A q \in Readers : heard'[q] = IF q = r THEN Silent ELSE heard[q]
      /\ \A p \in PlanIds : record'[p] = record[p]
           \/ (p = PlanOf[e] /\ record'[p] = "completed" /\ v = "confirmed")
           \/ (p = PlanOf[e] /\ record'[p] = "failed" /\ v = "failed")
           \/ record'[p] \in {"running", "unconfirmed"}
  BY HearFields DEF IInv
<1>3. UNCHANGED <<plan, linked, sent, run, runs, tx>>
  BY DEF Hear, table, service
<1>4. sent[e] /\ charge[e] \notin Gone /\ pc[e] \notin {"queued", "check", "send", "sent"}
  BY DEF Hear, IInv, HeardTruly, LinkedOnce, ClaimOrder
<1>5. /\ v = "confirmed" => run[PlanOf[e]] = "success"
      /\ v = "failed" => run[PlanOf[e]] \in {"skipped", "failed"}
  BY DEF Hear, Verdict, IInv, HeardTruly, Ended
<1>6. r = e => holder = e /\ \A f \in Execs : pc[f] \in Working => f = e
  BY <1>2, OneAtWork DEF Hear, IInv, HeardTruly, Working
<1> HIDE DEF e, v
<1>7. ASSUME NEW f \in Execs, pc'[f] \in Working PROVE holder' = f
  BY <1>2, <1>6, <1>7 DEF IInv, InMutex, Working
<1>8. InMutex' /\ ClaimOrder'
  BY <1>2, <1>3, <1>4, <1>7 DEF IInv, InMutex, ClaimOrder
<1>9. LinkedOnce'
  BY <1>2, <1>3, <1>4 DEF IInv, LinkedOnce, Gone
<1>10. KeyedOnce'
  BY <1>2, <1>4 DEF IInv, KeyedOnce, Gone
<1>11. HeardTruly'
  <2>1. \A q \in Readers : heard'[q] # Silent => heard'[q] = heard[q] /\ (q \in Execs => pc'[q] = pc[q])
    BY <1>2
  <2> QED BY <1>3, <2>1 DEF IInv, HeardTruly
<1>12. RunCounts' /\ TxFollowsRun' /\ OnlyLinkedPlansRun'
  BY <1>3 DEF IInv, RunCounts, TxFollowsRun, Moving, OnlyLinkedPlansRun
<1>13. BooksKnowEnd'
  BY <1>2, <1>3, <1>5 DEF IInv, BooksKnowEnd
<1> QED BY <1>1, <1>8, <1>9, <1>10, <1>11, <1>12, <1>13 DEF IInv

\* Lost answers, the clock and the run's own progress: a run that ended stays as it is.
LEMMA WorldKeeps ==
  ASSUME IInv,
         \/ \E r \in Readers : HearNothing(r)
         \/ \E p \in PlanIds : Expire(p) \/ Progress(p) \/ Interrupt(p)
         \/ Crash \/ UNCHANGED vars
  PROVE  IInv'
<1>1. TypeOK'
  BY NextTypes DEF Next, IInv
<1>2. /\ UNCHANGED <<plan, linked, charge, sent, record, runs>>
      /\ \A r \in Readers : heard'[r] # Silent => heard'[r] = heard[r] /\ pc' = pc
      /\ \A e \in Execs : pc'[e] = pc[e] \/ pc'[e] = "done"
      /\ \A e \in Execs : pc'[e] \in Working => pc[e] \in Working /\ holder' = holder
  <2>1. CASE Crash
    BY <2>1 DEF Crash, IInv, TypeOK, table, books, service, Working
  <2>2. CASE \E p \in PlanIds : Progress(p) \/ Interrupt(p)
    BY <2>2, RunMoves DEF RunOnly, IInv, table, books, calls
  <2>3. CASE UNCHANGED vars \/ \E p \in PlanIds : Expire(p)
    BY <2>3 DEF Expire, vars, table, books, calls, service
  <2>4. CASE \E r \in Readers : HearNothing(r)
    BY <2>4 DEF HearNothing, IInv, TypeOK, table, books, calls, service
  <2> QED BY <2>1, <2>2, <2>3, <2>4
<1>3. /\ \A p \in PlanIds : run'[p] = run[p] \/ (run[p] \notin Ended \cup {"none"} /\ run'[p] # "none")
      /\ TxFollowsRun'
  <2>1. CASE run' = run /\ tx' = tx
    BY <2>1 DEF IInv, TxFollowsRun, Moving
  <2>2. ASSUME NEW p \in PlanIds, Progress(p) \/ Interrupt(p)
        PROVE  /\ \A q \in PlanIds : run'[q] = run[q] \/ (run[q] \notin Ended \cup {"none"} /\ run'[q] # "none")
               /\ TxFollowsRun'
    <3>1. /\ \A q \in PlanIds : q # p => run'[q] = run[q] /\ tx'[q] = tx[q]
          /\ \/ run[p] = "risk" /\ run'[p] \in {"redeem", "skipped", "failed"} /\ tx'[p] = tx[p]
             \/ run[p] = "redeem" /\ run'[p] = "mining" /\ tx'[p] = "out"
             \/ run[p] = "redeem" /\ run'[p] = "failed" /\ tx'[p] = tx[p]
             \/ run[p] = "mining" /\ run'[p] \in {"report", "success"} /\ tx'[p] = "landed"
             \/ run[p] = "mining" /\ run'[p] = "failed" /\ tx'[p] = "reverted"
             \/ tx[p] = "out" /\ run[p] # "mining" /\ run'[p] = run[p] /\ tx'[p] \in {"landed", "reverted"}
             \/ run[p] = "report" /\ run'[p] = "success" /\ tx'[p] = tx[p]
             \/ p \in Interruptible /\ run[p] \in {"mining", "report"} /\ run'[p] = "failed" /\ tx'[p] = tx[p]
      BY <2>2, RunMoves DEF IInv
    <3>2. run[p] \in RunStates /\ tx[p] \in TxStates
      BY DEF IInv, TypeOK
    <3> QED BY <3>1, <3>2 DEF IInv, TxFollowsRun, Moving, Ended, RunStates
  <2>3. CASE ~\E p \in PlanIds : Progress(p) \/ Interrupt(p)
    BY <2>1, <2>3 DEF HearNothing, Expire, Crash, vars, service
  <2> QED BY <2>2, <2>3
<1>4. InMutex' /\ ClaimOrder' /\ KeyedOnce'
  BY <1>2 DEF IInv, InMutex, ClaimOrder, KeyedOnce
<1>5. HeardTruly'
  BY <1>2, <1>3 DEF IInv, HeardTruly, Ended
<1>6. LinkedOnce' /\ RunCounts' /\ OnlyLinkedPlansRun'
  BY <1>2, <1>3 DEF IInv, LinkedOnce, RunCounts, OnlyLinkedPlansRun
<1>7. BooksKnowEnd'
  BY <1>2, <1>3 DEF IInv, BooksKnowEnd, Ended
<1> QED BY <1>1, <1>3, <1>4, <1>5, <1>6, <1>7 DEF IInv

-----------------------------------------------------------------------------
(* The theorems.                                                           *)

\* Before anything happens there is no plan and no row.
LEMMA InitInvariant == Init => IInv
<1> SUFFICES ASSUME Init PROVE IInv
  OBVIOUS
<1>1. TypeOK
  BY DEF Init, TypeOK, Silent, PlanStates, ChargeStates, RecordStates, PcStates, RunStates, Statuses, TxStates
<1>2. InMutex /\ ClaimOrder /\ LinkedOnce /\ KeyedOnce
  BY DEF Init, InMutex, ClaimOrder, LinkedOnce, KeyedOnce, Working, Counted, Gone
<1>3. RunCounts /\ TxFollowsRun /\ OnlyLinkedPlansRun /\ HeardTruly /\ BooksKnowEnd
  BY DEF Init, RunCounts, TxFollowsRun, OnlyLinkedPlansRun, HeardTruly, BooksKnowEnd
<1> QED BY <1>1, <1>2, <1>3 DEF IInv

\* Every step keeps the invariant.
LEMMA NextInvariant == IInv /\ [Next]_vars => IInv'
  BY DryRunKeeps, BeginKeeps, EndKeeps, ClaimKeeps, SendKeeps, AskKeeps, HearKeeps, WorldKeeps DEF Next

LEMMA Invariant == Spec => []IInv
  BY InitInvariant, NextInvariant, PTL DEF Spec

\* The state has the shape declared: plans, charges, records, calls, answers and runs.
THEOREM PlansTypes == Spec => []TypeOK
<1>1. IInv => TypeOK
  BY DEF IInv
<1> QED BY <1>1, Invariant, PTL

\* However often a plan is executed again, a request repeated or the server restarted,
\* KeeperHub runs a plan at most once, and neither a plan nor an idempotency key has two
\* charges that count.
THEOREM PlanOnce == Spec => []PlanRunsOnce
<1>1. ASSUME IInv PROVE PlanRunsOnce
  <2>1. \A p \in PlanIds : runs[p] <= 1
    BY <1>1 DEF IInv, RunCounts
  <2>2. \A e, f \in Execs :
          SamePayment(e, f) /\ charge[e] \in Counted /\ charge[f] \in Counted => e = f
    BY <1>1 DEF IInv, LinkedOnce, KeyedOnce, SamePayment, SameKey, Counted, Gone
  <2> QED BY <2>1, <2>2 DEF PlanRunsOnce, Counted
<1> QED BY <1>1, Invariant, PTL

\* Only a plan that is used up and names its charge may have reached KeeperHub.
THEOREM LinkedRun == Spec => []OnlyLinkedPlansRun
<1>1. IInv => OnlyLinkedPlansRun
  BY DEF IInv
<1> QED BY <1>1, Invariant, PTL

\* A charge or a record says that it paid only when its transaction landed, and says of a
\* run taken on that it did not only when no transaction of it is out or has landed, or a
\* run may fail after its write went out.
THEOREM BooksTrue == Spec => []BooksFollowRun
<1>1. ASSUME IInv PROVE BooksFollowRun
  <2>1. \A p \in PlanIds : /\ run[p] = "success" => tx[p] = "landed"
                           /\ run[p] \in {"skipped", "failed"} => p \in Interruptible \/ ~Moving(p)
    BY <1>1 DEF IInv, TxFollowsRun, Moving
  <2> QED BY <1>1, <2>1 DEF IInv, BooksKnowEnd, BooksFollowRun
<1> QED BY <1>1, Invariant, PTL
=============================================================================
