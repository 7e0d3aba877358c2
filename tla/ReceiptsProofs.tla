--------------------------- MODULE ReceiptsProofs ----------------------------
(***************************************************************************)
(* When a receipt is not paid for twice: proved for any number of charges, *)
(* sweeps, attempts and restarts, with lost answers, slow runs, failures   *)
(* and late writes allowed.  The sweeps' lists are left to TLC.            *)
(***************************************************************************)
EXTENDS Receipts, FiniteSetTheorems, TLAPS

USE ReceiptsAssumption DEF Generations

-----------------------------------------------------------------------------
(* The inductive invariant.                                                *)

\* The types of everything but the sweeps.
CoreTypes ==
  /\ confirmed \subseteq Charges /\ onChain \subseteq Charges
  /\ run \in [Charges -> [Generations -> RunStates]]
  /\ record \in [Charges -> [Generations -> RecordStates]]
  /\ pc \in [Charges -> PcStates]
  /\ gen \in [Charges -> Nat]

\* The failed records are those of the generations before the current one.
FailedFirst ==
  \A c \in Charges :
    /\ Generation(c) \in 0..MaxAttempts
    /\ \A g \in Generations : record[c][g] = "failed" <=> g < Generation(c)

\* A record says of its run what is true.
RecordsTrue ==
  \A c \in Charges, g \in Generations :
    /\ record[c][g] = "failed" => ReportedFailed(c, g)
    /\ record[c][g] = "completed" => run[c][g] = "success"
    /\ record[c][g] = "running" => run[c][g] # "none"
    /\ run[c][g] = "success" => c \in onChain

\* No run is ahead of the current generation, nor beyond the last attempt.
NoneAhead ==
  \A c \in Charges, g \in Generations :
    g > Generation(c) \/ g = MaxAttempts => run[c][g] = "none"

\* A call holds the current generation; before it starts a run for a receipt that
\* landed meanwhile, the run that landed has its key, or was reported as failed.
CallsInStep ==
  \A c \in Charges :
    /\ pc[c] # "idle" => Generation(c) < MaxAttempts /\ c \in confirmed
    /\ pc[c] \in {"start", "started", "poll"} => gen[c] = Generation(c)
    /\ \/ pc[c] \in {"started", "poll"}
       \/ pc[c] = "start" /\ c \in onChain /\ ~LandedLate(c)
       => run[c][gen[c]] # "none"
    /\ c \notin confirmed => \A g \in Generations : record[c][g] = "none"

IInv == CoreTypes /\ FailedFirst /\ RecordsTrue /\ NoneAhead /\ CallsInStep

-----------------------------------------------------------------------------
\* There are as many generations before n as n says.
LEMMA GenerationsBefore ==
  ASSUME NEW n \in 0..MaxAttempts
  PROVE  Cardinality({g \in Generations : g < n}) = n
<1>1. {g \in Generations : g < n} = 0..(n - 1)
  OBVIOUS
<1>2. CASE n = 0
  <2>1. {g \in Generations : g < n} = {}
    BY <1>2
  <2> QED BY <1>2, <2>1, FS_EmptySet
<1>3. CASE n # 0
  <2>1. n - 1 \in Nat /\ 0 \in Nat
    BY <1>3
  <2>2. Cardinality(0..(n - 1)) = IF 0 > n - 1 THEN 0 ELSE (n - 1) - 0 + 1
    BY <2>1, FS_Interval
  <2>3. Cardinality(0..(n - 1)) = n
    BY <1>3, <2>1, <2>2
  <2> QED BY <1>1, <2>3
<1> QED BY <1>2, <1>3

\* What leaves the records alone leaves the generations alone.
LEMMA GenerationKept ==
  ASSUME record' = record
  PROVE  \A c \in Charges : Generation(c)' = Generation(c)
  BY DEF Generation, Recorded

\* The initial state satisfies the invariant.
LEMMA InitInv == Init => IInv
<1> SUFFICES ASSUME Init PROVE IInv
  OBVIOUS
<1>1. \A c \in Charges : Generation(c) = 0
  <2> SUFFICES ASSUME NEW c \in Charges PROVE Generation(c) = 0
    OBVIOUS
  <2>1. Recorded(c, "failed") = {}
    BY DEF Init, Recorded
  <2> QED BY <2>1, FS_EmptySet DEF Generation
<1> QED BY <1>1 DEF Init, IInv, CoreTypes, FailedFirst, RecordsTrue, NoneAhead, CallsInStep,
                    RunStates, RecordStates, PcStates

\* The steps that touch neither records nor runs keep the invariant.
LEMMA WaitingStep ==
  ASSUME IInv, UNCHANGED <<run, record, onChain>>, CoreTypes',
         confirmed \subseteq confirmed',
         \A c \in Charges :
           \/ pc'[c] = pc[c] /\ gen'[c] = gen[c]
           \/ pc'[c] = "idle"
           \/ pc'[c] \in {"check", "simulate"} /\ Generation(c) < MaxAttempts /\ c \in confirmed'
  PROVE  IInv'
<1>1. \A c \in Charges : Generation(c)' = Generation(c)
  BY GenerationKept
<1>2. FailedFirst' /\ RecordsTrue' /\ NoneAhead'
  BY <1>1 DEF IInv, FailedFirst, RecordsTrue, ReportedFailed, NoneAhead
<1>3. \A c \in Charges : LandedLate(c)' = LandedLate(c)
  BY DEF LandedLate
<1>4. CallsInStep'
  <2>1. ASSUME NEW c \in Charges
        PROVE  /\ pc'[c] # "idle" => Generation(c) < MaxAttempts /\ c \in confirmed'
               /\ pc'[c] \in {"start", "started", "poll"} => gen'[c] = Generation(c)
               /\ pc'[c] \in {"started", "poll"} => run[c][gen'[c]] # "none"
               /\ pc'[c] = "start" /\ c \in onChain /\ ~LandedLate(c) => run[c][gen'[c]] # "none"
               /\ c \notin confirmed' => \A g \in Generations : record[c][g] = "none"
    BY DEF IInv, CallsInStep
  <2>2. ASSUME NEW c \in Charges
        PROVE  /\ Generation(c)' = Generation(c) /\ LandedLate(c)' = LandedLate(c)
               /\ run'[c] = run[c] /\ onChain' = onChain /\ record'[c] = record[c]
    BY <1>1, <1>3
  <2>3. ASSUME NEW c \in Charges
        PROVE  /\ pc'[c] # "idle" => Generation(c)' < MaxAttempts /\ c \in confirmed'
               /\ pc'[c] \in {"start", "started", "poll"} => gen'[c] = Generation(c)'
               /\ \/ pc'[c] \in {"started", "poll"}
                  \/ pc'[c] = "start" /\ c \in onChain' /\ ~LandedLate(c)'
                  => run'[c][gen'[c]] # "none"
               /\ c \notin confirmed' => \A g \in Generations : record'[c][g] = "none"
    <3> HIDE <1>1, <1>3
    <3> QED BY <2>1, <2>2
  <2> QED BY <2>3 DEF CallsInStep
<1> QED BY <1>2, <1>4 DEF IInv

\* A receipt that waits has attempts left, and so has one that never confirmed.
LEMMA AttemptsLeft ==
  ASSUME IInv, NEW c
  PROVE  /\ View(c) = "pending" => c \in confirmed /\ c \in Charges /\ Generation(c) < MaxAttempts
         /\ c \in Charges /\ c \notin confirmed => Generation(c) < MaxAttempts
<1>1. ASSUME View(c) = "pending" PROVE c \in confirmed /\ c \in Charges /\ Generation(c) < MaxAttempts
  <2>1. c \in confirmed /\ ~(Generation(c) >= MaxAttempts)
    BY <1>1 DEF View, Generation
  <2>2. c \in Charges
    BY <2>1 DEF IInv, CoreTypes
  <2> QED BY <2>1, <2>2 DEF IInv, FailedFirst
<1>2. ASSUME c \in Charges, c \notin confirmed PROVE Generation(c) < MaxAttempts
  <2>1. Recorded(c, "failed") = {}
    BY <1>2 DEF IInv, CallsInStep, Recorded
  <2> QED BY <2>1, FS_EmptySet DEF Generation
<1> QED BY <1>1, <1>2

\* Of two runs of a receipt at most one is under way, and its generation is current.
LEMMA LiveRunIsCurrent ==
  ASSUME IInv, NEW c \in Charges, NEW g \in Generations, run[c][g] = "running"
  PROVE  g = Generation(c) /\ g < MaxAttempts
  BY DEF IInv, FailedFirst, RecordsTrue, ReportedFailed, NoneAhead

-----------------------------------------------------------------------------
(* Steps.                                                                  *)

\* Every step of an anchor call keeps the invariant.
LEMMA AnchorStepInv ==
  ASSUME IInv, NEW c \in Charges, AnchorStep(c)
  PROVE  IInv'
<1>1. CASE FoundOnChain(c) \/ NotFound(c) \/ DryRunFails(c) \/ StartThrows(c) \/ PollGivesUp(c)
  <2>1. UNCHANGED <<run, record, onChain, confirmed>> /\ gen' = gen
    BY <1>1 DEF FoundOnChain, NotFound, DryRunFails, StartThrows, PollGivesUp, End, keeper
  <2>2. /\ pc' = [pc EXCEPT ![c] = "idle"] \/ pc' = [pc EXCEPT ![c] = "simulate"]
        /\ pc[c] # "idle"
    BY <1>1 DEF FoundOnChain, NotFound, DryRunFails, StartThrows, PollGivesUp, End, Goto
  <2>3. Generation(c) < MaxAttempts /\ c \in confirmed
    BY <2>2 DEF IInv, CallsInStep
  <2>4. CoreTypes'
    BY <2>1, <2>2 DEF IInv, CoreTypes, PcStates
  <2> QED BY <2>1, <2>2, <2>3, <2>4, WaitingStep DEF IInv, CoreTypes
<1>2. CASE DryRunPasses(c)
  <2>1. /\ UNCHANGED <<run, record, onChain, confirmed>> /\ pc' = [pc EXCEPT ![c] = "start"]
        /\ gen' = [gen EXCEPT ![c] = Generation(c)] /\ pc[c] # "idle" /\ c \notin onChain
    BY <1>2 DEF DryRunPasses, Goto, keeper
  <2>2. \A d \in Charges : Generation(d)' = Generation(d)
    BY <2>1, GenerationKept
  <2>3. CoreTypes'
    BY <2>1 DEF IInv, CoreTypes, PcStates, FailedFirst
  <2>4. FailedFirst' /\ RecordsTrue' /\ NoneAhead'
    BY <2>1, <2>2 DEF IInv, FailedFirst, RecordsTrue, ReportedFailed, NoneAhead
  <2>5. CallsInStep'
    BY <2>1, <2>2 DEF IInv, CallsInStep, LandedLate, CoreTypes
  <2> QED BY <2>3, <2>4, <2>5 DEF IInv
<1>3. CASE Start(c)
  <2>1. /\ UNCHANGED <<record, onChain, confirmed, gen>> /\ pc' = [pc EXCEPT ![c] = "started"]
        /\ pc[c] = "start"
        /\ run' = [run EXCEPT ![c][gen[c]] = IF @ = "none" THEN "running" ELSE @]
    BY <1>3 DEF Start, Goto
  <2>2. \A d \in Charges : Generation(d)' = Generation(d)
    BY <2>1, GenerationKept
  <2>3. gen[c] = Generation(c) /\ gen[c] \in Generations /\ gen[c] < MaxAttempts
    BY <2>1 DEF IInv, CallsInStep, FailedFirst
  <2>4. CoreTypes'
    BY <2>1, <2>3 DEF IInv, CoreTypes, PcStates, RunStates
  <2>5. \A d \in Charges, g \in Generations :
          /\ run'[d][g] = run[d][g] \/ (d = c /\ g = gen[c] /\ run[d][g] = "none" /\ run'[d][g] = "running")
          /\ d = c /\ g = gen[c] => run'[d][g] # "none"
    BY <2>1, <2>3 DEF IInv, CoreTypes
  <2>6. FailedFirst'
    BY <2>1, <2>2 DEF IInv, FailedFirst
  <2>7. RecordsTrue'
    BY <2>1, <2>5 DEF IInv, RecordsTrue, ReportedFailed
  <2>8. NoneAhead'
    <3> SUFFICES ASSUME NEW d \in Charges, NEW g \in Generations, g > Generation(d) \/ g = MaxAttempts
                 PROVE  run'[d][g] = "none"
      BY <2>2 DEF NoneAhead
    <3>1. run[d][g] = "none"
      BY DEF IInv, NoneAhead
    <3>2. ~(d = c /\ g = gen[c])
      BY <2>3
    <3> QED BY <2>5, <3>1, <3>2
  <2>9. CallsInStep'
    BY <2>1, <2>2, <2>3, <2>5 DEF IInv, CallsInStep, LandedLate, CoreTypes, FailedFirst
  <2> QED BY <2>4, <2>6, <2>7, <2>8, <2>9 DEF IInv
<1>4. CASE Record(c)
  <2>1. /\ UNCHANGED <<run, onChain, confirmed, gen>> /\ pc' = [pc EXCEPT ![c] = "poll"]
        /\ pc[c] = "started" /\ record' = [record EXCEPT ![c][gen[c]] = "running"]
    BY <1>4 DEF Record, Goto, keeper
  <2>2. gen[c] = Generation(c) /\ gen[c] \in Generations /\ gen[c] < MaxAttempts /\ run[c][gen[c]] # "none"
    BY <2>1 DEF IInv, CallsInStep, FailedFirst
  <2>3. \A d \in Charges, g \in Generations :
          IF d = c /\ g = gen[c] THEN record'[d][g] = "running" /\ record[d][g] # "failed"
                                 ELSE record'[d][g] = record[d][g]
    BY <2>1, <2>2 DEF IInv, CoreTypes, FailedFirst
  <2>4. \A d \in Charges : Generation(d)' = Generation(d)
    <3> SUFFICES ASSUME NEW d \in Charges PROVE Generation(d)' = Generation(d)
      OBVIOUS
    <3>1. {g \in Generations : record'[d][g] = "failed"} = {g \in Generations : record[d][g] = "failed"}
      BY <2>3
    <3> QED BY <3>1 DEF Generation, Recorded
  <2>5. CoreTypes'
    BY <2>1, <2>2 DEF IInv, CoreTypes, PcStates, RecordStates
  <2>6. FailedFirst'
    <3> SUFFICES ASSUME NEW d \in Charges
                 PROVE  /\ Generation(d) \in 0..MaxAttempts
                        /\ \A g \in Generations : record'[d][g] = "failed" <=> g < Generation(d)
      BY <2>4 DEF FailedFirst
    <3>1. \A g \in Generations : record'[d][g] = "failed" <=> record[d][g] = "failed"
      BY <2>3
    <3> QED BY <3>1 DEF IInv, FailedFirst
  <2>7. RecordsTrue'
    BY <2>1, <2>2, <2>3 DEF IInv, RecordsTrue, ReportedFailed
  <2>8. NoneAhead'
    BY <2>1, <2>4 DEF IInv, NoneAhead
  <2>9. CallsInStep'
    <3>1. c \in confirmed
      BY <2>1 DEF IInv, CallsInStep
    <3> QED BY <2>1, <2>2, <2>3, <2>4, <3>1 DEF IInv, CallsInStep, LandedLate, CoreTypes
  <2> QED BY <2>5, <2>6, <2>7, <2>8, <2>9 DEF IInv
<1>5. CASE Poll(c)
  <2>1. /\ UNCHANGED <<run, onChain, confirmed, gen>> /\ pc' = [pc EXCEPT ![c] = "idle"] /\ pc[c] = "poll"
        /\ \/ run[c][gen[c]] = "success" /\ record' = [record EXCEPT ![c][gen[c]] = "completed"]
           \/ ReportedFailed(c, gen[c]) /\ record' = [record EXCEPT ![c][gen[c]] = "failed"]
    BY <1>5 DEF Poll, End, Goto, keeper
  <2>2. gen[c] = Generation(c) /\ gen[c] \in Generations /\ gen[c] < MaxAttempts /\ c \in confirmed
    BY <2>1 DEF IInv, CallsInStep, FailedFirst
  <2>3. CoreTypes'
    <3>1. PICK st \in {"completed", "failed"} : record' = [record EXCEPT ![c][gen[c]] = st]
      BY <2>1
    <3>2. record' \in [Charges -> [Generations -> RecordStates]]
      BY <2>2, <3>1 DEF IInv, CoreTypes, RecordStates
    <3> QED BY <2>1, <3>2 DEF IInv, CoreTypes, PcStates
  <2>4. CASE run[c][gen[c]] = "success" /\ record' = [record EXCEPT ![c][gen[c]] = "completed"]
    <3>1. \A d \in Charges, g \in Generations :
            IF d = c /\ g = gen[c] THEN record'[d][g] = "completed" /\ record[d][g] # "failed"
                                   ELSE record'[d][g] = record[d][g]
      BY <2>2, <2>4 DEF IInv, CoreTypes, FailedFirst
    <3>2. \A d \in Charges : Generation(d)' = Generation(d)
      <4> SUFFICES ASSUME NEW d \in Charges PROVE Generation(d)' = Generation(d)
        OBVIOUS
      <4>1. {g \in Generations : record'[d][g] = "failed"} = {g \in Generations : record[d][g] = "failed"}
        BY <3>1
      <4> QED BY <4>1 DEF Generation, Recorded
    <3>3. FailedFirst'
      BY <3>1, <3>2 DEF IInv, FailedFirst
    <3>4. RecordsTrue'
      BY <2>1, <2>4, <3>1 DEF IInv, RecordsTrue, ReportedFailed
    <3>5. NoneAhead'
      BY <2>1, <3>2 DEF IInv, NoneAhead
    <3>6. CallsInStep'
      BY <2>1, <2>2, <3>1, <3>2 DEF IInv, CallsInStep, LandedLate, CoreTypes
    <3> QED BY <2>3, <3>3, <3>4, <3>5, <3>6 DEF IInv
  <2>5. CASE ReportedFailed(c, gen[c]) /\ record' = [record EXCEPT ![c][gen[c]] = "failed"]
    <3>1. \A d \in Charges, g \in Generations :
            IF d = c /\ g = gen[c] THEN record'[d][g] = "failed" ELSE record'[d][g] = record[d][g]
      BY <2>2, <2>5 DEF IInv, CoreTypes
    <3>2. \A d \in Charges : d # c => Generation(d)' = Generation(d)
      <4> SUFFICES ASSUME NEW d \in Charges, d # c PROVE Generation(d)' = Generation(d)
        OBVIOUS
      <4>1. {g \in Generations : record'[d][g] = "failed"} = {g \in Generations : record[d][g] = "failed"}
        BY <3>1
      <4> QED BY <4>1 DEF Generation, Recorded
    <3>3. Generation(c)' = gen[c] + 1 /\ gen[c] + 1 \in 0..MaxAttempts
      <4>1. {g \in Generations : record'[c][g] = "failed"} = {g \in Generations : g < gen[c] + 1}
        BY <2>2, <3>1 DEF IInv, FailedFirst
      <4>2. gen[c] + 1 \in 0..MaxAttempts
        BY <2>2
      <4> QED BY <4>1, <4>2, GenerationsBefore DEF Generation, Recorded
    <3>4. FailedFirst'
      BY <2>2, <3>1, <3>2, <3>3 DEF IInv, FailedFirst
    <3>5. RecordsTrue'
      BY <2>1, <2>5, <3>1 DEF IInv, RecordsTrue, ReportedFailed
    <3>6. NoneAhead'
      BY <2>1, <2>2, <3>2, <3>3 DEF IInv, NoneAhead
    <3>7. CallsInStep'
      BY <2>1, <2>2, <3>1, <3>2 DEF IInv, CallsInStep, LandedLate, CoreTypes
    <3> QED BY <2>3, <3>4, <3>5, <3>6, <3>7 DEF IInv
  <2> QED BY <2>1, <2>4, <2>5
<1> QED BY <1>1, <1>2, <1>3, <1>4, <1>5 DEF AnchorStep

\* Every step of a sweep keeps the invariant: it only begins anchor calls.
LEMMA SweepStepInv ==
  ASSUME IInv, NEW w \in Sweeps, SweepStep(w)
  PROVE  IInv'
<1>1. UNCHANGED <<run, record, onChain, confirmed, gen>>
  BY DEF SweepStep, SweepBegin, SweepExamine, SweepResumes, SweepEnds, keeper, calls
<1>2. CASE pc' = pc
  <2>1. CoreTypes'
    BY <1>1, <1>2 DEF IInv, CoreTypes
  <2> QED BY <1>1, <1>2, <2>1, WaitingStep
<1>3. CASE pc' # pc
  <2>1. PICK c : View(c) = "pending" /\ pc' = [pc EXCEPT ![c] = "check"]
    BY <1>3 DEF SweepStep, SweepBegin, SweepExamine, SweepResumes, SweepEnds, Goto, calls
  <2>2. c \in confirmed /\ c \in Charges /\ Generation(c) < MaxAttempts
    BY <2>1, AttemptsLeft
  <2>3. CoreTypes'
    BY <1>1, <2>1, <2>2 DEF IInv, CoreTypes, PcStates
  <2> QED BY <1>1, <2>1, <2>2, <2>3, WaitingStep DEF IInv, CoreTypes
<1> QED BY <1>2, <1>3

\* So does a confirmation, whoever queues its receipt.
LEMMA ConfirmInv ==
  ASSUME IInv, NEW c \in Charges, Confirm(c)
  PROVE  IInv'
<1>1. /\ UNCHANGED <<run, record, onChain, gen>> /\ confirmed' = confirmed \cup {c} /\ c \notin confirmed
      /\ pc' = pc \/ pc' = [pc EXCEPT ![c] = "check"]
  BY DEF Confirm, Goto, keeper
<1>2. Generation(c) < MaxAttempts
  BY <1>1, AttemptsLeft
<1>3. CoreTypes'
  BY <1>1 DEF IInv, CoreTypes, PcStates
<1> QED BY <1>1, <1>2, <1>3, WaitingStep DEF IInv, CoreTypes

\* And a restart, which drops every call.
LEMMA CrashInv ==
  ASSUME IInv, Crash
  PROVE  IInv'
<1>1. UNCHANGED <<run, record, onChain, confirmed>> /\ \A c \in Charges : pc'[c] = "idle"
  BY DEF Crash, keeper
<1>2. CoreTypes'
  BY DEF Crash, keeper, IInv, CoreTypes, PcStates
<1> QED BY <1>1, <1>2, WaitingStep

\* The end of a run keeps it: the run is the current one and its record is not final.
LEMMA RunEndInv ==
  ASSUME IInv, NEW c \in Charges, NEW g \in Generations, Mine(c, g) \/ RunFails(c, g)
  PROVE  IInv'
<1>1. /\ UNCHANGED <<record, pc, gen, confirmed>> /\ run[c][g] = "running"
      /\ \/ run' = [run EXCEPT ![c][g] = "failed"] /\ (onChain' = onChain \/ onChain' = onChain \cup {c})
         \/ run' = [run EXCEPT ![c][g] = "success"] /\ onChain' = onChain \cup {c}
  BY DEF Mine, RunFails, calls
<1>2. g = Generation(c) /\ g < MaxAttempts
  BY <1>1, LiveRunIsCurrent
<1>3. \A d \in Charges : Generation(d)' = Generation(d)
  BY <1>1, GenerationKept
<1>4. \A d \in Charges, h \in Generations :
        IF d = c /\ h = g THEN run'[d][h] = "failed" \/ (run'[d][h] = "success" /\ c \in onChain')
                          ELSE run'[d][h] = run[d][h]
  BY <1>1 DEF IInv, CoreTypes
<1>5. CoreTypes'
  <2>0. "failed" \in RunStates /\ "success" \in RunStates
    BY DEF RunStates
  <2>1. run' \in [Charges -> [Generations -> RunStates]]
    <3>1. PICK st \in RunStates : run' = [run EXCEPT ![c][g] = st]
      BY <1>1, <2>0
    <3> QED BY <3>1 DEF IInv, CoreTypes
  <2>2. onChain' \subseteq Charges
    BY <1>1 DEF IInv, CoreTypes
  <2> QED BY <1>1, <2>1, <2>2 DEF IInv, CoreTypes
<1>6. FailedFirst'
  BY <1>1, <1>3 DEF IInv, FailedFirst
<1>7. RecordsTrue'
  BY <1>1, <1>4 DEF IInv, RecordsTrue, ReportedFailed
<1>8. NoneAhead'
  <2> SUFFICES ASSUME NEW d \in Charges, NEW h \in Generations, h > Generation(d) \/ h = MaxAttempts
               PROVE  run'[d][h] = "none"
    BY <1>3 DEF NoneAhead
  <2>1. run[d][h] = "none"
    BY DEF IInv, NoneAhead
  <2> QED BY <1>1, <1>4, <2>1
<1>9. CallsInStep'
  <2> SUFFICES ASSUME NEW d \in Charges,
                      \/ pc[d] \in {"started", "poll"}
                      \/ pc[d] = "start" /\ d \in onChain' /\ ~LandedLate(d)'
               PROVE  run'[d][gen[d]] # "none"
    BY <1>1, <1>3 DEF IInv, CallsInStep
  <2>0. pc[d] \in {"start", "started", "poll"}
    OBVIOUS
  <2>1. gen[d] = Generation(d) /\ gen[d] \in Generations
    <3>1. gen[d] = Generation(d)
      BY <2>0 DEF IInv, CallsInStep
    <3>2. Generation(d) \in Generations
      BY DEF IInv, FailedFirst, Generations
    <3> QED BY <3>1, <3>2
  <2>2. CASE d = c
    BY <1>2, <1>4, <2>1, <2>2
  <2>3. CASE d # c
    BY <1>1, <1>4, <2>1, <2>3 DEF IInv, CallsInStep, LandedLate
  <2> QED BY <2>2, <2>3
<1> QED BY <1>5, <1>6, <1>7, <1>8, <1>9 DEF IInv

\* So does the late write of a run that was reported as failed.
LEMMA LateInv ==
  ASSUME IInv, NEW c \in Charges, NEW g \in Generations, MineLate(c, g)
  PROVE  IInv'
<1>1. /\ UNCHANGED <<record, pc, gen, confirmed>> /\ run[c][g] = "failed"
      /\ run' = [run EXCEPT ![c][g] = "late"] /\ onChain' = onChain \cup {c}
  BY DEF MineLate, calls
<1>2. \A d \in Charges : Generation(d)' = Generation(d)
  BY <1>1, GenerationKept
<1>3. \A d \in Charges, h \in Generations :
        run'[d][h] = IF d = c /\ h = g THEN "late" ELSE run[d][h]
  BY <1>1 DEF IInv, CoreTypes
<1>4. CoreTypes'
  <2>1. run' \in [Charges -> [Generations -> RunStates]]
    BY <1>1 DEF IInv, CoreTypes, RunStates
  <2> QED BY <1>1, <2>1 DEF IInv, CoreTypes
<1>5. FailedFirst'
  BY <1>1, <1>2 DEF IInv, FailedFirst
<1>6. RecordsTrue'
  BY <1>1, <1>3 DEF IInv, RecordsTrue, ReportedFailed
<1>7. NoneAhead'
  BY <1>1, <1>2, <1>3 DEF IInv, NoneAhead
<1>8. CallsInStep'
  <2>1. LandedLate(c)'
    BY <1>3 DEF LandedLate
  <2>2. \A d \in Charges \ {c} : LandedLate(d)' = LandedLate(d)
    BY <1>3 DEF LandedLate
  <2>3. \A d \in Charges : pc[d] \in {"start", "started", "poll"} => gen[d] \in Generations
    BY DEF IInv, CallsInStep, FailedFirst, Generations
  <2>4. ASSUME NEW d \in Charges,
               \/ pc[d] \in {"started", "poll"}
               \/ pc[d] = "start" /\ d \in onChain' /\ ~LandedLate(d)'
        PROVE  run'[d][gen[d]] # "none"
    <3>1. run[d][gen[d]] # "none"
      BY <1>1, <2>1, <2>2, <2>4 DEF IInv, CallsInStep
    <3> QED BY <1>3, <2>3, <2>4, <3>1
  <2> QED BY <1>1, <1>2, <2>4 DEF IInv, CallsInStep
<1> QED BY <1>4, <1>5, <1>6, <1>7, <1>8 DEF IInv

\* The invariant is inductive.
LEMMA StepInv == IInv /\ [Next]_vars => IInv'
<1> SUFFICES ASSUME IInv, [Next]_vars PROVE IInv'
  OBVIOUS
<1>1. CASE Next
  BY <1>1, AnchorStepInv, SweepStepInv, ConfirmInv, CrashInv, RunEndInv, LateInv DEF Next, KeeperHub
<1>2. CASE UNCHANGED vars
  <2>1. UNCHANGED <<run, record, onChain, confirmed, pc, gen>>
    BY <1>2 DEF vars, keeper, calls
  <2>2. CoreTypes'
    BY <2>1 DEF IInv, CoreTypes
  <2> QED BY <2>1, <2>2, WaitingStep
<1> QED BY <1>1, <1>2

-----------------------------------------------------------------------------
(* The promises.                                                           *)

\* At most one run of a receipt is under way.
THEOREM OneRunAtATime == Spec => []OneLiveRun
<1>1. IInv => OneLiveRun
  <2> SUFFICES ASSUME IInv, NEW c \in Charges
               PROVE  Cardinality({g \in Generations : run[c][g] = "running"}) <= 1
    BY DEF OneLiveRun
  <2>1. {g \in Generations : run[c][g] = "running"} \subseteq {Generation(c)}
    BY LiveRunIsCurrent
  <2>2. /\ IsFiniteSet({Generation(c)}) /\ Cardinality({Generation(c)}) = 1
    BY FS_Singleton
  <2> QED BY <2>1, <2>2, FS_Subset
<1> QED BY <1>1, InitInv, StepInv, PTL DEF Spec

\* No run of a receipt starts after the receipt landed, except where the write that landed
\* was of a run KeeperHub had reported as failed (anchor.ts 111-124, 258-260, 272).
THEOREM PaidOnce == Spec => NoRunAfterLanding
<1> DEFINE Step == \A c \in onChain, g \in Generations :
                     ~LandedLate(c) /\ run[c][g] = "none" => run'[c][g] = "none"
<1>1. IInv /\ [Next]_vars => [Step]_vars
  <2> SUFFICES ASSUME IInv, Next, NEW c \in onChain, NEW g \in Generations,
                      ~LandedLate(c), run[c][g] = "none"
               PROVE  run'[c][g] = "none"
    OBVIOUS
  <2>1. c \in Charges
    BY DEF IInv, CoreTypes
  <2>2. CASE run' = run
    BY <2>2
  <2>3. ASSUME NEW d \in Charges, Start(d) PROVE run'[c][g] = "none"
    <3>1. pc[d] = "start" /\ run' = [run EXCEPT ![d][gen[d]] = IF @ = "none" THEN "running" ELSE @]
      BY <2>3 DEF Start
    <3>2. c = d => gen[d] # g
      BY <2>1, <3>1 DEF IInv, CallsInStep
    <3> QED BY <2>1, <3>1, <3>2 DEF IInv, CoreTypes
  <2>4. ASSUME NEW d \in Charges, NEW h \in Generations, Mine(d, h) \/ RunFails(d, h) \/ MineLate(d, h)
        PROVE  run'[c][g] = "none"
    BY <2>1, <2>4 DEF Mine, RunFails, MineLate, IInv, CoreTypes
  <2>5. ASSUME NEW d \in Charges, Confirm(d) \/ AnchorStep(d), ~Start(d) PROVE run' = run
    BY <2>5 DEF Confirm, AnchorStep, FoundOnChain, NotFound, DryRunPasses, DryRunFails, StartThrows,
                Record, Poll, PollGivesUp, keeper
  <2>6. ASSUME (\E w \in Sweeps : SweepStep(w)) \/ Crash PROVE run' = run
    BY <2>6 DEF SweepStep, SweepBegin, SweepExamine, SweepResumes, SweepEnds, Crash, keeper
  <2> QED BY <2>2, <2>3, <2>4, <2>5, <2>6 DEF Next, KeeperHub
<1> QED BY <1>1, InitInv, StepInv, PTL DEF Spec, NoRunAfterLanding

\* A receipt shown as anchored is on chain.
THEOREM AnchoredMeansOnChain == Spec => []AnchoredIsOnChain
<1>1. IInv => AnchoredIsOnChain
  BY DEF IInv, AnchoredIsOnChain, View, Recorded, RecordsTrue
<1> QED BY <1>1, InitInv, StepInv, PTL DEF Spec

\* A receipt costs no more runs than its attempts.
THEOREM AttemptsBound == Spec => []RunsBounded
<1>1. IInv => RunsBounded
  <2> SUFFICES ASSUME IInv, NEW c \in Charges
               PROVE  Cardinality({g \in Generations : run[c][g] # "none"}) <= MaxAttempts
    BY DEF RunsBounded
  <2>1. {g \in Generations : run[c][g] # "none"} \subseteq 0..(MaxAttempts - 1)
    BY DEF IInv, NoneAhead
  <2>2. 0 \in Int /\ MaxAttempts - 1 \in Int
    OBVIOUS
  <2>3. IsFiniteSet(0..(MaxAttempts - 1)) /\ Cardinality(0..(MaxAttempts - 1)) = MaxAttempts
    BY <2>2, FS_Interval
  <2>4. Cardinality({g \in Generations : run[c][g] # "none"}) <= Cardinality(0..(MaxAttempts - 1))
    BY <2>1, <2>3, FS_Subset
  <2> QED BY <2>3, <2>4
<1> QED BY <1>1, InitInv, StepInv, PTL DEF Spec

=============================================================================
