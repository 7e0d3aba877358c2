------------------------------ MODULE Receipts ------------------------------
(***************************************************************************)
(* On-chain receipts: the receipt service (engine/src/keeperhub/           *)
(* receipts.ts), the anchorer that asks KeeperHub for one run per receipt  *)
(* (anchor.ts), the execution records both read (store.ts) and the replay  *)
(* guard of the contract (contracts/src/PaymentAnchor.sol).                *)
(*                                                                         *)
(* A receipt has no state of its own: where it stands is read from the     *)
(* records of its runs.  Charges are numbered in the order they confirm.   *)
(***************************************************************************)
EXTENDS Integers, FiniteSets, Sequences

CONSTANTS
  Charges,        \* 1..n: charges, in the order they are booked
  MaxAttempts,    \* failed runs after which a receipt is given up
  Sweeps,         \* sweeps that may overlap
  SweepLimit,     \* receipts a sweep examines
  Window,         \* charges of a card a sweep lists, newest first
  LostStarts,     \* environment: a run may be started and yet answer with an error
  SlowRuns,       \* environment: a run may outlive the wait for it
  Refusals,       \* environment: dry runs and runs may fail, a run even with its write out
  MaxCrashes,     \* bound: restarts of the server process
  None

ASSUME ReceiptsAssumption ==
  /\ Charges \subseteq Nat
  /\ MaxAttempts \in Nat \ {0} /\ SweepLimit \in Nat \ {0} /\ Window \in Nat \ {0}
  /\ {LostStarts, SlowRuns, Refusals} \subseteq BOOLEAN
  /\ MaxCrashes \in Nat
  /\ None \notin Charges

\* A run is known by its idempotency key: charge and generation.
Generations == 0..MaxAttempts

VARIABLES
  confirmed,  \* charges confirmed with a transaction
  run,        \* KeeperHub: run[c][g], the state of the run under key (c, g)
  onChain,    \* PaymentAnchor.anchored
  record,     \* record[c][g]: the execution record of that run
  pc,         \* where the anchor call of a charge stands; "idle": none in flight
  gen,        \* the generation the call's key was made with
  sweep,      \* per sweep: the charges still listed, how many examined, the one awaited
  crashes

calls == <<pc, gen>>
keeper == <<run, onChain>>
vars == <<confirmed, keeper, record, calls, sweep, crashes>>

\* "late": reported as failed with its write out, which landed then.
RunStates == {"none", "running", "success", "failed", "late"}
RecordStates == {"none", "running", "completed", "failed"}
PcStates == {"idle", "check", "simulate", "start", "started", "poll"}
Resting == [todo |-> <<>>, examined |-> 0, at |-> None]

-----------------------------------------------------------------------------
(* The view of a receipt.                                                  *)

Recorded(c, s) == {g \in Generations : record[c][g] = s}

\* Mutant of View: the attempt limit is one off.
ViewOnceMore(c) ==
  IF Recorded(c, "completed") # {} THEN "anchored"
  ELSE IF Recorded(c, "running") # {} \/ pc[c] # "idle" THEN "anchoring"
  ELSE IF c \notin confirmed THEN "not_anchorable"
  ELSE IF Cardinality(Recorded(c, "failed")) > MaxAttempts THEN "failed"
  ELSE "pending"

View(c) ==
  IF Recorded(c, "completed") # {} THEN "anchored"
  ELSE IF Recorded(c, "running") # {} \/ pc[c] # "idle" THEN "anchoring"
  ELSE IF c \notin confirmed THEN "not_anchorable"
  ELSE IF Cardinality(Recorded(c, "failed")) >= MaxAttempts THEN "failed"
  ELSE "pending"

Goto(c, l) == pc' = [pc EXCEPT ![c] = l]

\* The call ends, with or without a receipt; it never throws.
End(c) == Goto(c, "idle") /\ UNCHANGED gen

Init ==
  /\ confirmed = {}
  /\ run = [c \in Charges |-> [g \in Generations |-> "none"]]
  /\ onChain = {}
  /\ record = [c \in Charges |-> [g \in Generations |-> "none"]]
  /\ pc = [c \in Charges |-> "idle"]
  /\ gen = [c \in Charges |-> 0]
  /\ sweep = [w \in Sweeps |-> Resting]
  /\ crashes = 0

-----------------------------------------------------------------------------
(* One anchor call.                                                        *)

\* A charge confirms: the hook queues its receipt, or (a reconcile sweep without
\* the hook) nobody does.
Confirm(c) ==
  /\ c \notin confirmed
  /\ confirmed' = confirmed \cup {c}
  /\ Goto(c, "check") \/ UNCHANGED pc
  /\ UNCHANGED <<keeper, record, gen, sweep, crashes>>

\* The contract is asked first: a receipt it has is not written again.  Nothing is
\* recorded of it.  A read that fails counts as "not anchored".
FoundOnChain(c) ==
  /\ pc[c] = "check" /\ c \in onChain
  /\ End(c)
  /\ UNCHANGED <<confirmed, keeper, record, sweep, crashes>>

NotFound(c) ==
  /\ pc[c] = "check" /\ (c \in onChain => Refusals)
  /\ Goto(c, "simulate")
  /\ UNCHANGED <<confirmed, keeper, record, gen, sweep, crashes>>

\* Mutant of Generation: every attempt gets a key of its own.
GenerationAfresh(c) == Cardinality({g \in Generations : run[c][g] # "none"})

\* A failed run is replayed under its key, so each failure moves to a new one.
Generation(c) == Cardinality(Recorded(c, "failed"))

DryRunPasses(c) ==
  /\ pc[c] = "simulate" /\ c \notin onChain
  /\ gen' = [gen EXCEPT ![c] = Generation(c)]
  /\ Goto(c, "start")
  /\ UNCHANGED <<confirmed, keeper, record, sweep, crashes>>

\* The contract would revert, or there is no gas or no simulator: the call ends and
\* leaves no record the view looks at.
DryRunFails(c) ==
  /\ pc[c] = "simulate" /\ (c \in onChain \/ Refusals)
  /\ End(c)
  /\ UNCHANGED <<confirmed, keeper, record, sweep, crashes>>

\* KeeperHub starts the run, or answers with the one it has under the key.
Start(c) ==
  /\ pc[c] = "start"
  /\ run' = [run EXCEPT ![c][gen[c]] = IF @ = "none" THEN "running" ELSE @]
  /\ Goto(c, "started")
  /\ UNCHANGED <<confirmed, onChain, record, gen, sweep, crashes>>

\* The request fails: before the run exists, or (a lost answer) after.
StartThrows(c) ==
  /\ \/ pc[c] = "start" /\ Refusals
     \/ pc[c] = "started" /\ LostStarts
  /\ End(c)
  /\ UNCHANGED <<confirmed, keeper, record, sweep, crashes>>

\* The answer arrives and the run is recorded.
Record(c) ==
  /\ pc[c] = "started"
  /\ record' = [record EXCEPT ![c][gen[c]] = "running"]
  /\ Goto(c, "poll")
  /\ UNCHANGED <<confirmed, keeper, gen, sweep, crashes>>

\* KeeperHub reports a run as failed on any terminal status but a success.
ReportedFailed(c, g) == run[c][g] \in {"failed", "late"}

\* Mutant of Poll: whatever has not failed is taken for done.
PollHopeful(c) ==
  /\ pc[c] = "poll"
  /\ record' = [record EXCEPT ![c][gen[c]] = IF ReportedFailed(c, gen[c]) THEN "failed" ELSE "completed"]
  /\ End(c)
  /\ UNCHANGED <<confirmed, keeper, sweep, crashes>>

Poll(c) ==
  /\ pc[c] = "poll"
  /\ \/ run[c][gen[c]] = "success" /\ record' = [record EXCEPT ![c][gen[c]] = "completed"]
     \/ ReportedFailed(c, gen[c]) /\ record' = [record EXCEPT ![c][gen[c]] = "failed"]
  /\ End(c)
  /\ UNCHANGED <<confirmed, keeper, sweep, crashes>>

\* The wait is over, or the status cannot be read: the record stays running.
PollGivesUp(c) ==
  /\ pc[c] = "poll" /\ SlowRuns
  /\ End(c)
  /\ UNCHANGED <<confirmed, keeper, record, sweep, crashes>>

-----------------------------------------------------------------------------
(* KeeperHub's runs and the contract.                                      *)

\* The run's transaction is mined; a second anchor of one payment reverts.
Mine(c, g) ==
  /\ run[c][g] = "running"
  /\ run' = [run EXCEPT ![c][g] = IF c \in onChain THEN "failed" ELSE "success"]
  /\ onChain' = onChain \cup {c}
  /\ UNCHANGED <<confirmed, record, calls, sweep, crashes>>

\* The run ends in an error or is cancelled, before it wrote or with its write out.
RunFails(c, g) ==
  /\ Refusals /\ run[c][g] = "running"
  /\ run' = [run EXCEPT ![c][g] = "failed"]
  /\ UNCHANGED <<confirmed, onChain, record, calls, sweep, crashes>>

\* The write of such a run is mined after all; one for a receipt that exists reverts.
MineLate(c, g) ==
  /\ run[c][g] = "failed" /\ c \notin onChain
  /\ run' = [run EXCEPT ![c][g] = "late"]
  /\ onChain' = onChain \cup {c}
  /\ UNCHANGED <<confirmed, record, calls, sweep, crashes>>

-----------------------------------------------------------------------------
(* The receipt sweep.                                                      *)

\* The newest charges of the card, newest first.  (Charges that never confirm take
\* places of the window too; they are left out.)
Listed ==
  LET n == Cardinality(confirmed)
      rank(c) == Cardinality({d \in confirmed : d >= c})
  IN  [i \in 1..(IF n < Window THEN n ELSE Window) |->
         CHOOSE c \in confirmed : rank(c) = i]

SweepBegin(w) ==
  /\ sweep[w] = Resting /\ confirmed # {}
  /\ sweep' = [sweep EXCEPT ![w].todo = Listed]
  /\ UNCHANGED <<confirmed, keeper, record, calls, crashes>>

\* Mutant of MayExamine: one charge more than the limit.
MayExamineOneMore(w) == sweep[w].examined <= SweepLimit

MayExamine(w) == sweep[w].examined < SweepLimit

\* Mutant of SweepExamine: charges passed over count towards the limit.
SweepExamineCountsAll(w) ==
  /\ sweep[w].at = None /\ sweep[w].todo # <<>> /\ MayExamine(w)
  /\ LET c == Head(sweep[w].todo)
         pending == View(c) = "pending"
     IN  /\ sweep' = [sweep EXCEPT ![w] = [todo |-> Tail(@.todo), examined |-> @.examined + 1,
                                           at |-> IF pending THEN c ELSE None]]
         /\ IF pending THEN Goto(c, "check") ELSE UNCHANGED pc
  /\ UNCHANGED <<confirmed, keeper, record, gen, crashes>>

\* The next listed charge: one that waits for its receipt is anchored and awaited.
SweepExamine(w) ==
  /\ sweep[w].at = None /\ sweep[w].todo # <<>> /\ MayExamine(w)
  /\ LET c == Head(sweep[w].todo)
     IN  IF View(c) = "pending"
           THEN /\ Goto(c, "check")
                /\ sweep' = [sweep EXCEPT ![w] = [todo |-> Tail(@.todo), examined |-> @.examined + 1, at |-> c]]
           ELSE /\ sweep' = [sweep EXCEPT ![w].todo = Tail(@)]
                /\ UNCHANGED pc
  /\ UNCHANGED <<confirmed, keeper, record, gen, crashes>>

SweepResumes(w) ==
  /\ sweep[w].at # None /\ pc[sweep[w].at] = "idle"
  /\ sweep' = [sweep EXCEPT ![w].at = None]
  /\ UNCHANGED <<confirmed, keeper, record, calls, crashes>>

\* The list is done, or the limit is reached.
SweepEnds(w) ==
  /\ sweep[w].at = None /\ sweep[w] # Resting
  /\ sweep[w].todo = <<>> \/ ~MayExamine(w)
  /\ sweep' = [sweep EXCEPT ![w] = Resting]
  /\ UNCHANGED <<confirmed, keeper, record, calls, crashes>>

\* The process restarts: calls and sweeps are in memory, records are not.
Crash ==
  /\ crashes < MaxCrashes
  /\ crashes' = crashes + 1
  /\ pc' = [c \in Charges |-> "idle"]
  /\ gen' = [c \in Charges |-> 0]
  /\ sweep' = [w \in Sweeps |-> Resting]
  /\ UNCHANGED <<confirmed, keeper, record>>

-----------------------------------------------------------------------------
AnchorStep(c) ==
  \/ FoundOnChain(c) \/ NotFound(c) \/ DryRunPasses(c) \/ DryRunFails(c)
  \/ Start(c) \/ StartThrows(c) \/ Record(c) \/ Poll(c) \/ PollGivesUp(c)

SweepStep(w) == SweepBegin(w) \/ SweepExamine(w) \/ SweepResumes(w) \/ SweepEnds(w)

KeeperHub == \E c \in Charges, g \in Generations : Mine(c, g) \/ RunFails(c, g) \/ MineLate(c, g)

Next ==
  \/ \E c \in Charges : Confirm(c) \/ AnchorStep(c)
  \/ \E w \in Sweeps : SweepStep(w)
  \/ KeeperHub \/ Crash

Spec == Init /\ [][Next]_vars

\* Requests are answered, runs are mined, the sweep's timer ticks; neither the
\* network nor the gas tank fails for ever.
Fairness ==
  /\ \A c \in Charges :
       /\ WF_vars(AnchorStep(c)) /\ SF_vars(FoundOnChain(c))
       /\ SF_vars(DryRunPasses(c)) /\ SF_vars(Start(c)) /\ SF_vars(Record(c)) /\ SF_vars(Poll(c))
       /\ \A g \in Generations : WF_vars(Mine(c, g))
  /\ \A w \in Sweeps : WF_vars(SweepStep(w))

FairSpec == Spec /\ Fairness

-----------------------------------------------------------------------------
(* Properties.                                                             *)

ReceiptsTypeOK ==
  /\ confirmed \subseteq Charges
  /\ run \in [Charges -> [Generations -> RunStates]]
  /\ onChain \subseteq Charges
  /\ record \in [Charges -> [Generations -> RecordStates]]
  /\ pc \in [Charges -> PcStates]
  /\ gen \in [Charges -> Generations]
  /\ \A w \in Sweeps :
       /\ sweep[w].examined \in 0..SweepLimit /\ sweep[w].at \in Charges \cup {None}
       /\ sweep[w].todo \in UNION {[1..n -> Charges] : n \in 0..Window}
  /\ crashes \in 0..MaxCrashes

\* A receipt has at most one run KeeperHub has not ended, whatever hook, overlapping
\* sweeps, lost answers and restarts do: a charge is in flight once and its key only moves on
\* after a recorded failure (receipts.ts 119-124, anchor.ts 111-115).
OneLiveRun ==
  \A c \in Charges : Cardinality({g \in Generations : run[c][g] = "running"}) <= 1

\* The receipt was written by a run KeeperHub had reported as failed.
LandedLate(c) == \E g \in Generations : run[c][g] = "late"

\* "instead of paying for a second one that would revert" (anchor.ts 119-120): once
\* the receipt is on chain no further run of it is started, except where the write came
\* from a run KeeperHub had reported as failed (anchor.ts 258-260, 272): the next attempt
\* may have had its dry run by then.
NoRunAfterLanding ==
  [][\A c \in onChain, g \in Generations :
       ~LandedLate(c) /\ run[c][g] = "none" => run'[c][g] = "none"]_vars

\* A receipt that is shown as anchored is on chain.
AnchoredIsOnChain == \A c \in Charges : View(c) = "anchored" => c \in onChain

\* "give up on a charge after this many failed attempts" (receipts.ts 70): no charge
\* costs more runs than that.
RunsBounded ==
  \A c \in Charges : Cardinality({g \in Generations : run[c][g] # "none"}) <= MaxAttempts

\* The answer to no start was lost, no call stopped waiting for its run, and no run
\* reported as failed wrote the receipt.
NoRunForgotten ==
  \A c \in Charges, g \in Generations :
    /\ run[c][g] # "late"
    /\ run[c][g] # "none" /\ record[c][g] = "none" => pc[c] = "started" /\ gen[c] = g
    /\ record[c][g] = "running" => pc[c] = "poll" /\ gen[c] = g

\* "retry receipts that were queued but have not landed" (sweeps.ts 136-138): unless a run
\* is forgotten, every confirmed charge ends with its receipt, or given up after its failed
\* attempts, whatever else fails.
EveryReceiptEnds ==
  []NoRunForgotten => \A c \in Charges : c \in confirmed ~> View(c) \in {"anchored", "failed"}

\* "a crash between the anchor landed and KeeperCard wrote it down converges on the
\* receipt that exists" (anchor.ts 118-120): what is on chain is shown as anchored.
LandedIsAnchored == \A c \in Charges : c \in onChain ~> View(c) = "anchored"

\* "the next sweep polls the same run via the same key" (anchor.ts 243): the outcome
\* of a recorded run is read in the end.
RunsArePolled ==
  \A c \in Charges, g \in Generations :
    record[c][g] = "running" ~> record[c][g] \in {"completed", "failed"}

\* "Retry whatever is still pending across the given cards" (receipts.ts 142): no
\* receipt stays pending without being tried again.
PendingIsRetried == \A c \in Charges : View(c) = "pending" ~> View(c) # "pending"
=============================================================================
