------------------------------ MODULE KeyedMutex -----------------------------
(***************************************************************************)
(* The keyed async mutex every spend goes through (engine/src/mutex.ts):   *)
(* a map from keys to the promise of the last section, onto which the next *)
(* one is chained.  A section is one call of run.                          *)
(***************************************************************************)
EXTENDS Naturals, Sequences

CONSTANTS Sections, Keys, KeyOf, None

ASSUME MutexAssumption == KeyOf \in [Sections -> Keys] /\ None \notin Sections

VARIABLES
  tails,     \* the map: the last section of a key; None: no entry
  prev,      \* the section a call was chained onto; None: a resolved promise
  pc,        \* "new", "queued", "running"; its promise "resolved" or "rejected"; "returned" or "threw"
  arrivals   \* history: the calls in the order they were made

vars == <<tails, prev, pc, arrivals>>

Settled == {"resolved", "rejected", "returned", "threw"}

Init ==
  /\ tails = [k \in Keys |-> None]
  /\ prev = [s \in Sections |-> None]
  /\ pc = [s \in Sections |-> "new"]
  /\ arrivals = <<>>

\* run up to its await: chain onto the tail and become the tail.
Call(s) ==
  /\ pc[s] = "new"
  /\ prev' = [prev EXCEPT ![s] = tails[KeyOf[s]]]
  /\ tails' = [tails EXCEPT ![KeyOf[s]] = s]
  /\ pc' = [pc EXCEPT ![s] = "queued"]
  /\ arrivals' = Append(arrivals, s)

\* Mutant of MayStart: prev.then(fn), which a rejection passes by.
MayStartAfterSuccess(s) == prev[s] # None => pc[prev[s]] \in {"resolved", "returned"}

\* prev.then(fn, fn): whatever became of the section before.
MayStart(s) == prev[s] # None => pc[prev[s]] \in Settled

Enter(s) ==
  /\ pc[s] = "queued" /\ MayStart(s)
  /\ pc' = [pc EXCEPT ![s] = "running"]
  /\ UNCHANGED <<tails, prev, arrivals>>

\* Mutant of Settle: fn may also hang.
SettleHangs(s) ==
  /\ pc[s] = "running"
  /\ \E how \in {"resolved", "rejected", "hung"} : pc' = [pc EXCEPT ![s] = how]
  /\ UNCHANGED <<tails, prev, arrivals>>

\* fn returns or throws.
Settle(s) ==
  /\ pc[s] = "running"
  /\ \E how \in {"resolved", "rejected"} : pc' = [pc EXCEPT ![s] = how]
  /\ UNCHANGED <<tails, prev, arrivals>>

\* The await of run is over: it returns or throws what fn did.
Leave(s) ==
  \/ pc[s] = "resolved" /\ pc' = [pc EXCEPT ![s] = "returned"]
  \/ pc[s] = "rejected" /\ pc' = [pc EXCEPT ![s] = "threw"]

\* Mutant of Cleanup: the entry is deleted whoever is the tail by now.
CleanupAlways(s) ==
  /\ Leave(s)
  /\ tails' = [tails EXCEPT ![KeyOf[s]] = None]
  /\ UNCHANGED <<prev, arrivals>>

\* Mutant of Cleanup: only a section that succeeded tidies up.
CleanupAfterSuccess(s) ==
  /\ Leave(s)
  /\ tails' = IF tails[KeyOf[s]] = s /\ pc[s] = "resolved" THEN [tails EXCEPT ![KeyOf[s]] = None] ELSE tails
  /\ UNCHANGED <<prev, arrivals>>

\* The finally: the last waiter deletes the key.
Cleanup(s) ==
  /\ Leave(s)
  /\ tails' = IF tails[KeyOf[s]] = s THEN [tails EXCEPT ![KeyOf[s]] = None] ELSE tails
  /\ UNCHANGED <<prev, arrivals>>

Next == \E s \in Sections : Call(s) \/ Enter(s) \/ Settle(s) \/ Cleanup(s)

Spec == Init /\ [][Next]_vars

\* Promise callbacks run, and every section comes to an end.
Fairness == \A s \in Sections : WF_vars(Enter(s)) /\ WF_vars(Settle(s)) /\ WF_vars(Cleanup(s))

FairSpec == Spec /\ Fairness

-----------------------------------------------------------------------------
(* Properties.                                                             *)

MutexTypeOK ==
  /\ tails \in [Keys -> Sections \cup {None}]
  /\ prev \in [Sections -> Sections \cup {None}]
  /\ pc \in [Sections -> {"new", "queued", "running"} \cup Settled]
  /\ arrivals \in Seq(Sections)

\* "serializes async sections that share a key" (mutex.ts 1): no two of them run at
\* the same time, although the map forgets its entry between callers.
Exclusive ==
  \A s, t \in Sections :
    s # t /\ KeyOf[s] = KeyOf[t] => ~(pc[s] = "running" /\ pc[t] = "running")

\* "subsequent callers queue behind this one" (mutex.ts 11-12): a section runs only when
\* every section of its key that was called before it has ended.
InOrder ==
  \A i, j \in DOMAIN arrivals :
    /\ i < j /\ KeyOf[arrivals[i]] = KeyOf[arrivals[j]]
    /\ pc[arrivals[j]] \in {"running"} \cup Settled
    => pc[arrivals[i]] \in Settled

\* A key nobody waits for leaves no entry behind (mutex.ts 18, 23).
NoEntryLeft ==
  \A k \in Keys :
    (\A s \in Sections : KeyOf[s] = k => pc[s] \in {"new", "returned", "threw"}) => tails[k] = None

\* "one failure doesn't wedge the key" (mutex.ts 15): every call returns, whichever
\* sections before it threw.
EveryCallEnds == \A s \in Sections : pc[s] = "queued" ~> pc[s] \in {"returned", "threw"}

\* The mutex implements the lock: a key's sections run one at a time, in the order in
\* which they were called.
Lock == INSTANCE KeyedLock WITH
  order <- arrivals,
  inside <- {s \in Sections : pc[s] = "running"},
  ended <- {s \in Sections : pc[s] \in Settled}

ImplementsLock == Lock!Spec
=============================================================================
