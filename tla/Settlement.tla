----------------------------- MODULE Settlement -----------------------------
(***************************************************************************)
(* The fiat settlement executor (server/src/stripe/settlement.ts) on top   *)
(* of Spend: an approved authorization is driven on-chain by the call the  *)
(* webhook kicks off, and by a sweep for the rows that call missed.  Each  *)
(* driver is a ladder of attempts; an attempt is one settlement call of    *)
(* the spend pipeline, under the card tree's mutex.                        *)
(***************************************************************************)
EXTENDS Spend

CONSTANTS
  Kickers,      \* the settlers the webhook kicks off; the others are the sweep's
  MaxAttempts   \* length of the back-off ladder

ASSUME SettlementAssumption ==
  /\ Kickers \subseteq Settlers
  /\ MaxAttempts \in Nat \ {0}

VARIABLES
  armed,     \* kickoffs scheduled and not yet run
  backlog,   \* rows the sweep in progress has still to visit
  ladder,    \* "off", "wait" (before an attempt) or "try" (inside the spend call)
  attempts   \* attempts the ladder has made

ladders == <<armed, backlog, ladder, attempts>>
settlementVars == <<vars, ladders>>

Sweepers == Settlers \ Kickers

SettlementInit ==
  /\ Init
  /\ armed = {}
  /\ backlog = {}
  /\ ladder = [s \in Settlers |-> "off"]
  /\ attempts = [s \in Settlers |-> 0]

-----------------------------------------------------------------------------
\* The webhook books the row and schedules its settlement, when settlement is on.
AuthorizeAndKick(a) ==
  /\ Authorize(a)
  /\ armed' = armed \cup {s \in Kickers : SettlementOn /\ Target[s] = a}
  /\ UNCHANGED <<backlog, ladder, attempts>>

\* settle(): a row that is no longer pending is left alone.
Climb(s) ==
  /\ ladder' = [ladder EXCEPT ![s] = IF charge[Target[s]] = "pending" THEN "wait" ELSE "off"]
  /\ attempts' = [attempts EXCEPT ![s] = 0]

Kickoff(s) ==
  /\ s \in armed
  /\ armed' = armed \ {s}
  /\ Climb(s)
  /\ UNCHANGED <<vars, backlog>>

\* Mutant of Unsettled: the sweep looks for rows that were claimed.
UnsettledClaimed == {a \in Auths : charge[a] = "pending" /\ requestId[a] # "null"}

Unsettled == {a \in Auths : charge[a] = "pending" /\ requestId[a] = "null"}

\* One sweep at a time; it lists the rows first and visits them one by one.
SweepTick ==
  /\ backlog = {}
  /\ \A s \in Sweepers : ladder[s] = "off"
  /\ Unsettled # {}
  /\ backlog' = Unsettled
  /\ UNCHANGED <<vars, armed, ladder, attempts>>

SweepVisit(s) ==
  /\ s \in Sweepers /\ Target[s] \in backlog
  /\ \A t \in Sweepers : ladder[t] = "off"
  /\ backlog' = backlog \ {Target[s]}
  /\ Climb(s)
  /\ UNCHANGED <<vars, armed>>

\* The back-off sleep is over: the attempt queues for the mutex.
Attempt(s) ==
  /\ ladder[s] = "wait"
  /\ ladder' = [ladder EXCEPT ![s] = "try"]
  /\ attempts' = [attempts EXCEPT ![s] = @ + 1]
  /\ Goto(s, "queued")
  /\ UNCHANGED <<cardStatus, books, locals, result, holder, chain, sweep, crashes, armed, backlog>>

-----------------------------------------------------------------------------
(* What the ladder makes of the attempt's outcome.                         *)

Outcome(s, res) == ladder[s] = "try" /\ pc[s] = "done" /\ result[s] \in res

FreezeIfActive(c) ==
  cardStatus' = [cardStatus EXCEPT ![c] = IF @ = "active" THEN "frozen" ELSE @]

Leave(s, l) ==
  /\ ladder' = [ladder EXCEPT ![s] = l]
  /\ Goto(s, "idle")
  /\ result' = [result EXCEPT ![s] = "none"]
  /\ UNCHANGED <<feeOf, requestId, announced, locals, holder, chain, sweep,
                 crashes, armed, backlog, attempts>>

\* A receipt, or a frozen card: nothing more to do until a sweep sees the row.
Settled(s) ==
  /\ Outcome(s, {"confirmed", "pending", "replayed", "frozen"})
  /\ Leave(s, "off")
  /\ UNCHANGED <<cardStatus, charge>>

Park(s) ==
  /\ SetStatus(Target[s], "settlement_unconfirmed")
  /\ FreezeIfActive(CardUsed(s))
  /\ Leave(s, "off")

\* The card was revoked or expired: the row can never settle.
NeverSettles(s) == Outcome(s, {"dead"}) /\ Park(s)

\* The pipeline parked the row itself before it threw: the card is frozen.
FoundParked(s) ==
  /\ Outcome(s, {"error"})
  /\ charge[Target[s]] # "pending"
  /\ FreezeIfActive(CardUsed(s))
  /\ Leave(s, "off")
  /\ UNCHANGED charge

\* Mutant of BackOff: one attempt too many.
BackOffOnceMore(s) ==
  /\ Outcome(s, {"error"})
  /\ charge[Target[s]] = "pending" /\ attempts[s] <= MaxAttempts
  /\ Leave(s, "wait")
  /\ UNCHANGED <<cardStatus, charge>>

BackOff(s) ==
  /\ Outcome(s, {"error"})
  /\ charge[Target[s]] = "pending" /\ attempts[s] < MaxAttempts
  /\ Leave(s, "wait")
  /\ UNCHANGED <<cardStatus, charge>>

Exhausted(s) ==
  /\ Outcome(s, {"error"})
  /\ charge[Target[s]] = "pending" /\ attempts[s] = MaxAttempts
  /\ Park(s)

-----------------------------------------------------------------------------
React(s) ==
  Settled(s) \/ NeverSettles(s) \/ FoundParked(s) \/ BackOff(s) \/ Exhausted(s)

Climbing(s) == Kickoff(s) \/ SweepVisit(s) \/ Attempt(s)

\* An ended attempt runs its ladder before any timer or network answer is served;
\* only the call next in the mutex's queue starts earlier.
NoneEnded == \A s \in Settlers : ~(ladder[s] = "try" /\ pc[s] = "done")

PayCall(p) == (PayBegin(p) \/ Replay(p)) /\ UNCHANGED ladders
SettleCall(s) == SettleBegin(s) /\ UNCHANGED ladders
Proceed(p) == NoneEnded /\ CallStep(p) /\ UNCHANGED ladders
TimeOut(p) == NoneEnded /\ PollGivesUp(p) /\ UNCHANGED ladders

\* Timers and ladders are in memory.
Restart ==
  /\ Crash
  /\ armed' = {} /\ backlog' = {}
  /\ ladder' = [s \in Settlers |-> "off"]
  /\ UNCHANGED attempts

SettlementNext ==
  \/ \E p \in Pays : PayCall(p)
  \/ \E s \in Settlers : SettleCall(s) \/ React(s)
  \/ \E p \in Procs : Proceed(p)
  \/ /\ NoneEnded
     /\ \/ \E a \in Auths : AuthorizeAndKick(a)
        \/ \E s \in Settlers : Climbing(s)
        \/ SweepTick
        \/ (SweepStep \/ OwnerStep \/ Environment) /\ UNCHANGED ladders
  \/ Restart

SettlementSpec == SettlementInit /\ [][SettlementNext]_settlementVars

\* As Spend's fairness: timers fire, calls are answered, the mutex is handed on.
SettlementFairness ==
  /\ \A p \in Pays : SF_settlementVars(PayCall(p))
  /\ \A s \in Settlers :
       /\ SF_settlementVars(SettleCall(s))
       /\ WF_settlementVars(React(s)) /\ WF_settlementVars(Climbing(s))
  /\ \A p \in Procs : WF_settlementVars(Proceed(p)) /\ SF_settlementVars(TimeOut(p))
  /\ WF_settlementVars(SweepTick)
  /\ WF_settlementVars(SweepBegin /\ UNCHANGED ladders)
  /\ SF_settlementVars(SweepScan /\ UNCHANGED ladders)
  /\ WF_settlementVars(SweepApply /\ UNCHANGED ladders)
  /\ \A r \in Rows :
       /\ WF_settlementVars(Mine(r) /\ UNCHANGED ladders)
       /\ WF_settlementVars(SweepNoAnswer(r) /\ UNCHANGED ladders)
       /\ SF_settlementVars(SweepAnswer(r) /\ UNCHANGED ladders)

FairSettlementSpec == SettlementSpec /\ SettlementFairness

-----------------------------------------------------------------------------
(* Properties.                                                             *)

SettlementTypeOK ==
  /\ TypeOK
  /\ armed \subseteq Kickers
  /\ backlog \subseteq Auths
  /\ ladder \in [Settlers -> {"off", "wait", "try"}]
  /\ attempts \in [Settlers -> 0..MaxAttempts]

\* "a fiat row never becomes 'failed': the authorization was already approved, so
\* its budget stays held" (settlement.ts 6-9), through reverts, sweeps and restarts.
FiatNeverReleased == \A a \in Auths : charge[a] \notin {"failed", "deleted"}

\* "two overlapping settle() calls broadcast exactly once" (settlement.test.ts 107):
\* the kickoff, the sweep, retries after errors and restarts send a row at most once.
SettledOnce == \A a \in Auths : sends[a] <= 1

\* A parked row is for the operators: no driver that still holds it broadcasts it.
ParkedIsNotSent ==
  [][\A a \in Auths : sends'[a] > sends[a] => charge[a] = "pending"]_settlementVars

\* A broadcast the sweeps cannot see is lost to them: a redemption in flight or
\* landed always has a request id, or the claim, on its row.
BroadcastIsClaimed ==
  \A a \in Auths : fate[a] # "none" => requestId[a] # "null"

\* An approved authorization on a spendable card is settled or parked.
AuthorizationResolved ==
  \A a \in Auths :
    charge[a] = "pending" ~> charge[a] # "pending" \/ ~Spendable(CardOf[a])

\* "Terminal problems flip the row to 'settlement_unconfirmed' AND freeze the card"
\* (settlement.ts 6-9): a parked row's card stops spending.
ParkedFreezesCard ==
  \A a \in Auths : charge[a] = "settlement_unconfirmed" ~> ~Spendable(CardOf[a])

\* "a tx unmined this long on Base (2s blocks) is genuinely dropped, so failing it
\* can't race a late mine" (spend.ts 980-981): the sweep resolves no row whose
\* redemption is in flight.
SweepDoesNotRaceMine ==
  [][\A r \in sweep.rows :
       sweep.scanned /\ sweep' = NoSweep /\ charge'[r] # charge[r]
       => fate[r] # "inflight"]_settlementVars
-----------------------------------------------------------------------------
(* The inductive invariant behind the safety properties: the mutex, what a *)
(* settlement call knows of its row, and what the row says of its sends.   *)

\* Every call past its first await holds its tree's mutex, payments and settlements alike.
AllInMutex == \A p \in Procs : pc[p] \in Awaiting => holder[TreeOf(CardUsed(p))] = p

\* A settlement works on a row nobody has claimed, and broadcasts only under its claim.
Driven(s) ==
  /\ pc[s] \in Awaiting => charge[Target[s]] # "none"
  /\ pc[s] \in {"fee", "estimate", "block"} => requestId[Target[s]] = "null"
  /\ pc[s] = "send" => requestId[Target[s]] = "claim" /\ sends[Target[s]] = 0

\* A row without a claim was never sent, and one row is sent once.
SentUnderClaim(a) ==
  /\ charge[a] = "none" => requestId[a] = "null"
  /\ requestId[a] = "null" => sends[a] = 0 /\ fate[a] = "none"
  /\ sends[a] <= 1

SettlementsInStep ==
  AllInMutex /\ (\A s \in Settlers : Driven(s)) /\ (\A a \in Auths : SentUnderClaim(a))

\* A ladder that will try again has an attempt left.
AttemptsLeft == \A s \in Settlers : ladder[s] = "wait" => attempts[s] < MaxAttempts
=============================================================================
