-------------------------------- MODULE Plans --------------------------------
(***************************************************************************)
(* Reviewed plans on the KeeperHub lane.  A dry run stores the signed bytes*)
(* of a redemption as a plan (engine/src/spend.ts, planSpend); a later pay *)
(* with its plan_id executes those bytes, at most once, through the        *)
(* executor (engine/src/keeperhub/executor.ts), its HTTP client            *)
(* (keeperhub/client.ts) and the table of plans and execution records      *)
(* (keeperhub/store.ts).  All calls are on the cards of one tree, so they  *)
(* share one mutex section.                                                *)
(*                                                                         *)
(* An execution e is one such pay; it books charge row e.  What the call   *)
(* validates against the card's terms is module Spend's; here it may       *)
(* refuse.  The owner freezes and unfreezes whenever they like, so a read  *)
(* of the card's status finds either.                                      *)
(*                                                                         *)
(* KeeperHub runs a redemption once per idempotency key, which is the      *)
(* digest of the plan's bytes: as a workflow whose nodes the repository    *)
(* writes (keeperhub/workflows.ts), or directly where no workflow is       *)
(* provisioned.  A guarded workflow may refuse the write; the others report*)
(* to the server when it is done (server/src/keeperhub/hooks.ts).          *)
(***************************************************************************)
EXTENDS Integers, FiniteSets

CONSTANTS
  PlanIds,      \* plans
  Execs,        \* pay calls with a plan_id
  PlanOf,       \* PlanOf[e]: the plan execution e was given
  KeyOf,        \* KeyOf[p]: the idempotency key plan p carries, or NoKey
  NoKey,
  MaxAttempts,  \* requests the client makes for one send
  Sweep,        \* the recovery sweep, as a reader of KeeperHub's answers
  Nudges,       \* recoveries the reports of runs start; {}: no hooks are provisioned
  Deployments,  \* the ways the plans' redemptions may go, by amount and provisioning
  Interruptible,  \* environment: plans whose run may fail with its write out
  None

Readers == Execs \cup {Sweep} \cup Nudges
Routes == {"guarded", "pay", "direct"}

ASSUME PlansAssumption ==
  /\ PlanOf \in [Execs -> PlanIds]
  /\ DOMAIN KeyOf = PlanIds
  /\ MaxAttempts \in Nat \ {0}
  /\ Sweep \notin Execs /\ Nudges \cap Execs = {}
  /\ Deployments \subseteq [PlanIds -> Routes]
  /\ Interruptible \subseteq PlanIds
  /\ None \notin Execs

VARIABLES
  plan,       \* keeperhub_plans.status
  linked,     \* keeperhub_plans.charge_id
  late,       \* the clock is past keeperhub_plans.expires_at of a plan that is open
  charge,     \* charges.status; "none": no row yet, "deleted": row deleted
  sent,       \* charges.request_id holds the execution id
  record,     \* keeperhub_executions.status of the plan's run
  pc,         \* where each execution stands
  holder,     \* the call inside the mutex section
  tries,      \* requests of its send so far
  heard,      \* the answer on its way to each reader of a run's status
  route,      \* the workflow or direct call that carries the plan's redemption
  run,        \* where its run at KeeperHub stands
  runs,       \* how many runs KeeperHub started for the plan
  tx          \* the transaction of its write

table == <<plan, linked>>
books == <<charge, sent>>
calls == <<pc, holder, tries>>
service == <<route, run, runs, tx>>
vars == <<table, late, books, record, calls, heard, service>>

PlanStates == {"none", "open", "executed", "expired", "failed"}
ChargeStates == {"none", "deleted", "pending", "confirmed", "failed"}
RecordStates == {"none", "running", "unconfirmed", "completed", "failed"}
PcStates == {"queued", "check", "send", "sent", "poll", "done"}
\* The node a run is at, or how it ended; "skipped": it succeeded, but the condition
\* of its workflow refused the write.
RunStates == {"none", "risk", "redeem", "mining", "report", "success", "skipped", "failed"}
Ended == {"success", "skipped", "failed"}
Statuses == {"none", "running", "unconfirmed"} \cup Ended
TxStates == {"none", "out", "landed", "reverted"}
Silent == [of |-> None, status |-> "none"]

Init ==
  /\ plan = [p \in PlanIds |-> "none"]
  /\ linked = [p \in PlanIds |-> None]
  /\ late = [p \in PlanIds |-> FALSE]
  /\ charge = [e \in Execs |-> "none"]
  /\ sent = [e \in Execs |-> FALSE]
  /\ record = [p \in PlanIds |-> "none"]
  /\ pc = [e \in Execs |-> "queued"]
  /\ holder = None
  /\ tries = [e \in Execs |-> 0]
  /\ heard = [r \in Readers |-> Silent]
  /\ route \in Deployments
  /\ run = [p \in PlanIds |-> "none"]
  /\ runs = [p \in PlanIds |-> 0]
  /\ tx = [p \in PlanIds |-> "none"]

-----------------------------------------------------------------------------
(* Dry run, and a call's decision what to do with its plan.                *)

Goto(e, l) == pc' = [pc EXCEPT ![e] = l]

\* The rows already booked under the idempotency key plan p carries.
Prior(p) ==
  {f \in Execs :
     /\ charge[f] \notin {"none", "deleted"}
     /\ KeyOf[p] # NoKey /\ KeyOf[PlanOf[f]] = KeyOf[p]}

Retryable(f) == charge[f] = "failed" /\ ~sent[f]

\* A failure that was never sent makes way for its retry.
Cleared(p) == [f \in Execs |-> IF f \in Prior(p) THEN "deleted" ELSE charge[f]]

\* keeperhub_dry_run: the redemption is validated, signed, simulated and stored, unless
\* its key has a charge already.
DryRun(p) ==
  /\ plan[p] = "none" /\ holder = None
  /\ \A f \in Prior(p) : Retryable(f)
  /\ charge' = Cleared(p)
  /\ plan' = [plan EXCEPT ![p] = "open"]
  /\ UNCHANGED <<linked, late, sent, record, calls, heard, service>>

\* Mutant of Turn: a call does not wait for the mutex.
TurnAtOnce(e) == pc[e] = "queued" /\ plan[PlanOf[e]] # "none"

Turn(e) == pc[e] = "queued" /\ holder = None /\ plan[PlanOf[e]] # "none"

Open(e) == plan[PlanOf[e]] = "open" /\ ~late[PlanOf[e]]

\* A plan that is no longer open has no age.
Aside(p) == late' = [late EXCEPT ![p] = FALSE]

\* A plan executed already answers with its charge; any other plan that is not
\* open is an error, and one that ran out is marked so.
TurnAway(e) ==
  /\ Turn(e) /\ ~Open(e)
  /\ plan' = [plan EXCEPT ![PlanOf[e]] = IF @ = "open" THEN "expired" ELSE @]
  /\ Aside(PlanOf[e])
  /\ Goto(e, "done")
  /\ UNCHANGED <<linked, books, record, holder, tries, heard, service>>

\* The plan's idempotency key has a charge: it is replayed, the plan stays open.
ReplayKey(e) ==
  /\ Turn(e) /\ Open(e)
  /\ \E f \in Prior(PlanOf[e]) : ~Retryable(f)
  /\ Goto(e, "done")
  /\ UNCHANGED <<table, late, books, record, holder, tries, heard, service>>

\* A failure that was never sent is deleted; then the chain's status decides.
Begin(e) ==
  /\ Turn(e) /\ Open(e)
  /\ \A f \in Prior(PlanOf[e]) : Retryable(f)
  /\ charge' = Cleared(PlanOf[e])
  /\ (Goto(e, "check") /\ holder' = e) \/ (Goto(e, "done") /\ UNCHANGED holder)
  /\ UNCHANGED <<table, late, sent, record, tries, heard, service>>

\* The code check, the stored authorization or the budget refuses.
Refuse(e) ==
  /\ pc[e] = "check"
  /\ Goto(e, "done") /\ holder' = None
  /\ UNCHANGED <<table, late, books, record, tries, heard, service>>

-----------------------------------------------------------------------------
(* Claim, booking and the gates before the request, without an await.      *)

\* claimPlan: by the clock read when the call began, so only the status counts.
Claimable(e) == plan[PlanOf[e]] = "open"

\* The card was frozen during the code check: the plan is used up, without a charge.
ClaimFrozen(e) ==
  /\ pc[e] = "check" /\ Claimable(e)
  /\ plan' = [plan EXCEPT ![PlanOf[e]] = "executed"]
  /\ Aside(PlanOf[e])
  /\ charge' = [charge EXCEPT ![e] = "failed"]
  /\ Goto(e, "done") /\ holder' = None
  /\ UNCHANGED <<linked, sent, record, tries, heard, service>>

\* The executor's own clock says the dry run is too old.
ClaimLate(e) ==
  /\ pc[e] = "check" /\ Claimable(e) /\ late[PlanOf[e]]
  /\ plan' = [plan EXCEPT ![PlanOf[e]] = "failed"]
  /\ linked' = [linked EXCEPT ![PlanOf[e]] = e]
  /\ Aside(PlanOf[e])
  /\ charge' = [charge EXCEPT ![e] = "failed"]
  /\ Goto(e, "done") /\ holder' = None
  /\ UNCHANGED <<sent, record, tries, heard, service>>

\* Mutant of Dispatch: the plan is linked to its charge only when the send returns.
DispatchUnlinked(e) ==
  /\ pc[e] = "check" /\ Claimable(e)
  /\ plan' = [plan EXCEPT ![PlanOf[e]] = "executed"]
  /\ Aside(PlanOf[e])
  /\ charge' = [charge EXCEPT ![e] = "pending"]
  /\ Goto(e, "send")
  /\ UNCHANGED <<linked, sent, record, holder, tries, heard, service>>

\* The plan is claimed and linked to its charge, the request goes out.
Dispatch(e) ==
  /\ pc[e] = "check" /\ Claimable(e)
  /\ plan' = [plan EXCEPT ![PlanOf[e]] = "executed"]
  /\ linked' = [linked EXCEPT ![PlanOf[e]] = e]
  /\ Aside(PlanOf[e])
  /\ charge' = [charge EXCEPT ![e] = "pending"]
  /\ Goto(e, "send")
  /\ UNCHANGED <<sent, record, holder, tries, heard, service>>

-----------------------------------------------------------------------------
(* The request, retried under one idempotency key.                         *)

\* Where a run begins: a guarded payment is assessed before its write.
First(p) == IF route[p] = "guarded" THEN "risk" ELSE "redeem"

\* A repeated key replays the run it started.
Started(p) ==
  IF run[p] = "none"
    THEN [run |-> [run EXCEPT ![p] = First(p)], runs |-> [runs EXCEPT ![p] = @ + 1]]
    ELSE [run |-> run, runs |-> runs]

Receive(e) ==
  /\ pc[e] = "send"
  /\ run' = Started(PlanOf[e]).run /\ runs' = Started(PlanOf[e]).runs
  /\ Goto(e, "sent")
  /\ UNCHANGED <<table, late, books, record, holder, tries, heard, route, tx>>

\* What KeeperHub says of a run: it does not tell a report from a write still to come.
StatusOf(s) == IF s \in {"risk", "redeem", "report"} THEN "running"
               ELSE IF s = "mining" THEN "unconfirmed" ELSE s

\* The record of a run with status s.
RecordOf(s) == CASE s = "success" -> "completed"
                 [] s \in {"skipped", "failed"} -> "failed"
                 [] s = "unconfirmed" -> "unconfirmed"
                 [] OTHER -> "running"

\* The row of a plan's run in the table of executions.
SetRecord(p, s) == record' = [record EXCEPT ![p] = s]

\* The answer names the run, the one to a direct call its status too: the record and
\* the charge's request id are written.
Accepted(e) ==
  /\ pc[e] = "sent"
  /\ \/ SetRecord(PlanOf[e], "running")
     \/ /\ route[PlanOf[e]] = "direct"
        /\ SetRecord(PlanOf[e], RecordOf(StatusOf(run[PlanOf[e]])))
  /\ sent' = [sent EXCEPT ![e] = TRUE]
  /\ tries' = [tries EXCEPT ![e] = 0]
  /\ Goto(e, "poll")
  /\ UNCHANGED <<table, late, charge, holder, heard, service>>

\* The request or its answer is lost: the client sends it again.
Resend(e) ==
  /\ pc[e] \in {"send", "sent"} /\ tries[e] + 1 < MaxAttempts
  /\ tries' = [tries EXCEPT ![e] = @ + 1]
  /\ Goto(e, "send")
  /\ UNCHANGED <<table, late, books, record, holder, heard, service>>

\* The last attempt is lost, or KeeperHub refuses: the send throws.
SendThrows(e) ==
  /\ pc[e] \in {"send", "sent"}
  /\ pc[e] = "send" \/ tries[e] + 1 = MaxAttempts
  /\ charge' = [charge EXCEPT ![e] = "failed"]
  /\ plan' = [plan EXCEPT ![PlanOf[e]] = "failed"]
  /\ tries' = [tries EXCEPT ![e] = 0]
  /\ Goto(e, "done") /\ holder' = None
  /\ UNCHANGED <<linked, late, sent, record, heard, service>>

-----------------------------------------------------------------------------
(* The run at KeeperHub, node by node, and its transaction.                *)

Step(p, s) == run[p] # s /\ run' = [run EXCEPT ![p] = s]
RunOnly == UNCHANGED <<table, late, books, record, calls, heard, route, runs>>

\* The write is only reachable when the score is below the ceiling.
Assess(p) ==
  /\ run[p] = "risk"
  /\ Step(p, "redeem") \/ Step(p, "skipped") \/ Step(p, "failed")
  /\ RunOnly /\ UNCHANGED tx

Write(p) ==
  /\ run[p] = "redeem"
  /\ \/ Step(p, "mining") /\ tx' = [tx EXCEPT ![p] = "out"]
     \/ Step(p, "failed") /\ UNCHANGED tx
  /\ RunOnly

\* What follows the write: a payment's workflow reports it, where hooks are provisioned.
AfterWrite(p) == IF route[p] = "pay" /\ Nudges # {} THEN "report" ELSE "success"

\* The chain decides; a run still at its write learns it, and a revert fails it.
Mine(p) ==
  /\ tx[p] = "out"
  /\ \E t \in {"landed", "reverted"} :
       /\ tx' = [tx EXCEPT ![p] = t]
       /\ IF run[p] # "mining" THEN UNCHANGED run
          ELSE Step(p, IF t = "landed" THEN AfterWrite(p) ELSE "failed")
  /\ RunOnly

\* The report's request is answered or given up: neither fails the run.
Report(p) ==
  /\ run[p] = "report"
  /\ Step(p, "success")
  /\ RunOnly /\ UNCHANGED tx

\* The run is cancelled, or KeeperHub itself fails, with the write out.
Interrupt(p) ==
  /\ p \in Interruptible /\ run[p] \in {"mining", "report"}
  /\ Step(p, "failed")
  /\ RunOnly /\ UNCHANGED tx

Progress(p) == Assess(p) \/ Write(p) \/ Mine(p) \/ Report(p)

-----------------------------------------------------------------------------
(* Reading the run's status: the call that waits for it, the sweep and the *)
(* recoveries that reports start, each with at most one request out.  An   *)
(* answer is as old as the moment KeeperHub gave it.                       *)

\* Mutant of Asks: the sweep leaves the charges of plans alone.
AsksUnplanned(r, e) == r = e /\ pc[e] = "poll"

\* A run's report names its charge; the write it follows is in.
Reported(e) == route[PlanOf[e]] = "pay" /\ run[PlanOf[e]] \in {"report", "success"}

Asks(r, e) ==
  \/ r = e /\ pc[e] = "poll"
  \/ /\ charge[e] = "pending" /\ sent[e]
     /\ r = Sweep \/ (r \in Nudges /\ Reported(e))

Ask(r, e) ==
  /\ heard[r] = Silent /\ Asks(r, e)
  /\ heard' = [heard EXCEPT ![r] = [of |-> e, status |-> StatusOf(run[PlanOf[e]])]]
  /\ UNCHANGED <<table, late, books, record, calls, service>>

\* Mutant of Verdict: a run that succeeded is a payment.
VerdictOfRun(s) == IF s \in {"success", "skipped"} THEN "confirmed"
                   ELSE IF s = "failed" THEN "failed" ELSE "pending"

\* workflowStatus and directStatus: a run that succeeded without a transaction moved
\* nothing, an unconfirmed one may have.
Verdict(s) == IF s = "success" THEN "confirmed"
              ELSE IF s \in {"skipped", "failed"} THEN "failed" ELSE "pending"

\* The record follows the answer; only a terminal answer looks at what is there.
Noted(p, s) ==
  IF Verdict(s) # "pending" /\ record[p] \in {"completed", "failed"} THEN record[p] ELSE RecordOf(s)

\* A terminal answer settles the charge for the call and for the sweep.
Hear(r) ==
  /\ heard[r] # Silent
  /\ LET e == heard[r].of
         v == Verdict(heard[r].status)
     IN  /\ SetRecord(PlanOf[e], Noted(PlanOf[e], heard[r].status))
         /\ charge' = IF v = "pending" THEN charge ELSE [charge EXCEPT ![e] = v]
         /\ IF r = e /\ v # "pending" THEN Goto(e, "done") /\ holder' = None
            ELSE UNCHANGED <<pc, holder>>
  /\ heard' = [heard EXCEPT ![r] = Silent]
  /\ UNCHANGED <<table, late, sent, tries, service>>

\* A transport error is no answer.
HearNothing(r) ==
  /\ heard[r] # Silent
  /\ heard' = [heard EXCEPT ![r] = Silent]
  /\ UNCHANGED <<table, late, books, record, calls, service>>

\* The wait is over: the receipt says pending, the row is the sweep's.
WaitEnds(e) ==
  /\ pc[e] = "poll" /\ heard[e] = Silent
  /\ Goto(e, "done") /\ holder' = None
  /\ UNCHANGED <<table, late, books, record, tries, heard, service>>

-----------------------------------------------------------------------------
(* The clock and a restart.                                                *)

\* A plan's age is read only while it is open.
Expire(p) ==
  /\ plan[p] = "open" /\ ~late[p]
  /\ late' = [late EXCEPT ![p] = TRUE]
  /\ UNCHANGED <<table, books, record, calls, heard, service>>

Crash ==
  /\ pc' = [e \in Execs |-> IF pc[e] \in {"check", "send", "sent", "poll"} THEN "done" ELSE pc[e]]
  /\ holder' = None
  /\ tries' = [e \in Execs |-> 0]
  /\ heard' = [r \in Readers |-> Silent]
  /\ UNCHANGED <<table, late, books, record, service>>

-----------------------------------------------------------------------------
Next ==
  \/ \E p \in PlanIds : DryRun(p) \/ Expire(p) \/ Progress(p) \/ Interrupt(p)
  \/ \E e \in Execs :
       \/ TurnAway(e) \/ ReplayKey(e) \/ Begin(e) \/ Refuse(e)
       \/ ClaimFrozen(e) \/ ClaimLate(e) \/ Dispatch(e)
       \/ Receive(e) \/ Accepted(e) \/ Resend(e) \/ SendThrows(e) \/ WaitEnds(e)
  \/ \E r \in Readers : Hear(r) \/ HearNothing(r) \/ \E e \in Execs : Ask(r, e)
  \/ Crash

Spec == Init /\ [][Next]_vars

\* Runs go on and transactions are mined, the sweep's timer ticks and its question is answered again and again.
Fairness ==
  /\ \A p \in PlanIds : WF_vars(Progress(p))
  /\ \A e \in Execs : SF_vars(Ask(Sweep, e))
  /\ SF_vars(Hear(Sweep))

FairSpec == Spec /\ Fairness

-----------------------------------------------------------------------------
(* Properties.                                                             *)

TypeOK ==
  /\ plan \in [PlanIds -> PlanStates]
  /\ linked \in [PlanIds -> Execs \cup {None}]
  /\ late \in [PlanIds -> BOOLEAN]
  /\ charge \in [Execs -> ChargeStates]
  /\ sent \in [Execs -> BOOLEAN]
  /\ record \in [PlanIds -> RecordStates]
  /\ pc \in [Execs -> PcStates]
  /\ holder \in Execs \cup {None}
  /\ tries \in [Execs -> 0..MaxAttempts]
  /\ heard \in [Readers -> [of : Execs \cup {None}, status : Statuses]]
  /\ route \in [PlanIds -> Routes]
  /\ run \in [PlanIds -> RunStates]
  /\ runs \in [PlanIds -> Nat]
  /\ tx \in [PlanIds -> TxStates]

SamePayment(e, f) ==
  \/ PlanOf[e] = PlanOf[f]
  \/ KeyOf[PlanOf[e]] # NoKey /\ KeyOf[PlanOf[e]] = KeyOf[PlanOf[f]]

\* "a retried send can only ever replay, never double-broadcast" (executor.ts 10-11)
\* and "a reviewed plan executes at most once" (spend.ts 724): whatever is called
\* again, lost or restarted, a plan is redeemed at most once, and neither a plan nor
\* an idempotency key, which several plans may carry, has two charges that count.
PlanRunsOnce ==
  /\ \A p \in PlanIds : runs[p] <= 1
  /\ \A e, f \in Execs :
       /\ SamePayment(e, f)
       /\ charge[e] \in {"pending", "confirmed"} /\ charge[f] \in {"pending", "confirmed"}
       => e = f

\* A plan that is used up but names no charge, as a freeze between its claim and the
\* link leaves it (spend.ts 725-773), never reached KeeperHub; nor did one that is
\* still open or expired: only a plan with a charge may have moved money.
OnlyLinkedPlansRun ==
  \A p \in PlanIds : runs[p] > 0 => linked[p] # None /\ plan[p] \in {"executed", "failed"}

\* What may still move, or has moved, money.
Moving(p) == tx[p] \in {"out", "landed"}

\* "A redemption run that finished without broadcasting is NOT a payment"
\* (executor.ts 512-514), "the tx may still land" (executor.ts 499) and "settle the
\* ledger from it" (spend.ts 1083): whichever of the call, the sweep and the reports
\* hears of a run, however late, a charge or a record says that it paid only when its
\* transaction landed, and says of a run taken on that it did not only when its
\* transaction never will (while no run fails after its write went out).
BooksFollowRun ==
  /\ \A e \in Execs :
       /\ charge[e] = "confirmed" => tx[PlanOf[e]] = "landed"
       /\ charge[e] = "failed" /\ sent[e] => PlanOf[e] \in Interruptible \/ ~Moving(PlanOf[e])
  /\ \A p \in PlanIds :
       /\ record[p] = "completed" => tx[p] = "landed"
       /\ record[p] = "failed" => p \in Interruptible \/ ~Moving(p)

\* "recovery is a question, not a re-send" (spend.ts 1080-1085): a charge KeeperHub took
\* on is settled in the end, by its call or by the sweep, restarts included.
TakenOnIsSettled == \A e \in Execs : sent[e] ~> charge[e] \in {"confirmed", "failed"}
=============================================================================
