--------------------------- MODULE KeyedMutexProofs --------------------------
(***************************************************************************)
(* The keyed mutex is exclusive and fair in order, for any set of sections *)
(* and keys.                                                               *)
(***************************************************************************)
EXTENDS KeyedMutex, TLAPS

USE MutexAssumption

\* The call at place i is the last of key k.
LastOf(k, i) ==
  /\ KeyOf[arrivals[i]] = k
  /\ \A j \in DOMAIN arrivals : i < j => KeyOf[arrivals[j]] # k

\* The history lists the calls made, each once.
HistoryOK ==
  /\ \A s \in Sections : pc[s] # "new" <=> \E i \in DOMAIN arrivals : arrivals[i] = s
  /\ \A i, j \in DOMAIN arrivals : arrivals[i] = arrivals[j] => i = j

\* The entry of a key is its last call; without an entry all its calls have ended.
TailsOK ==
  \A k \in Keys :
    /\ tails[k] = None =>
         \A i \in DOMAIN arrivals : KeyOf[arrivals[i]] = k => pc[arrivals[i]] \in Settled
    /\ tails[k] # None => \E i \in DOMAIN arrivals : arrivals[i] = tails[k] /\ LastOf(k, i)

\* A call is chained onto the call of its key before it, or all of those had ended.
ChainOK ==
  \A j \in DOMAIN arrivals :
    /\ prev[arrivals[j]] = None =>
         \A i \in DOMAIN arrivals :
           i < j /\ KeyOf[arrivals[i]] = KeyOf[arrivals[j]] => pc[arrivals[i]] \in Settled
    /\ prev[arrivals[j]] # None =>
         \E i \in DOMAIN arrivals :
           /\ i < j /\ arrivals[i] = prev[arrivals[j]] /\ KeyOf[arrivals[i]] = KeyOf[arrivals[j]]
           /\ \A l \in DOMAIN arrivals : i < l /\ l < j => KeyOf[arrivals[l]] # KeyOf[arrivals[j]]

IInv == MutexTypeOK /\ HistoryOK /\ TailsOK /\ ChainOK /\ InOrder

-----------------------------------------------------------------------------
\* A call appends to the history and changes nothing that was in it.
LEMMA CallAppends ==
  ASSUME MutexTypeOK, NEW s \in Sections, Call(s)
  PROVE  /\ DOMAIN arrivals = 1..Len(arrivals) /\ DOMAIN arrivals' = 1..(Len(arrivals) + 1)
         /\ Len(arrivals) \in Nat
         /\ \A i \in DOMAIN arrivals : arrivals'[i] = arrivals[i] /\ arrivals[i] \in Sections
         /\ arrivals'[Len(arrivals) + 1] = s
  BY DEF MutexTypeOK, Call

\* The initial state satisfies the invariant.
LEMMA InitInv == Init => IInv
<1> SUFFICES ASSUME Init PROVE IInv
  OBVIOUS
<1>1. DOMAIN arrivals = {}
  BY DEF Init
<1> QED BY <1>1 DEF Init, IInv, MutexTypeOK, HistoryOK, TailsOK, ChainOK, InOrder, Settled

\* A call keeps the invariant.
LEMMA CallKeepsInv ==
  ASSUME IInv, NEW s \in Sections, Call(s)
  PROVE  IInv'
<1> DEFINE n == Len(arrivals) + 1
<1>1. /\ DOMAIN arrivals = 1..Len(arrivals) /\ DOMAIN arrivals' = 1..n
      /\ Len(arrivals) \in Nat
      /\ \A i \in DOMAIN arrivals : arrivals'[i] = arrivals[i] /\ arrivals[i] \in Sections
      /\ arrivals'[n] = s
  BY CallAppends DEF IInv
<1>2. MutexTypeOK'
  BY DEF IInv, MutexTypeOK, Call
<1>3. /\ \A t \in Sections : t # s => pc'[t] = pc[t] /\ prev'[t] = prev[t]
      /\ pc[s] = "new" /\ pc'[s] = "queued" /\ prev'[s] = tails[KeyOf[s]]
      /\ tails'[KeyOf[s]] = s /\ \A k \in Keys : k # KeyOf[s] => tails'[k] = tails[k]
      /\ KeyOf[s] \in Keys
  BY DEF Call, IInv, MutexTypeOK
<1>4. \A i \in DOMAIN arrivals : arrivals[i] # s
  BY <1>3 DEF IInv, HistoryOK
<1>5. HistoryOK'
  <2>1. \A t \in Sections : pc'[t] # "new" <=> \E i \in DOMAIN arrivals' : arrivals'[i] = t
    <3> SUFFICES ASSUME NEW t \in Sections
                 PROVE  pc'[t] # "new" <=> \E i \in DOMAIN arrivals' : arrivals'[i] = t
      OBVIOUS
    <3>1. CASE t = s
      BY <1>1, <1>3, <3>1
    <3>2. CASE t # s
      <4>1. pc'[t] # "new" <=> \E i \in DOMAIN arrivals : arrivals[i] = t
        BY <1>3, <3>2 DEF IInv, HistoryOK
      <4> QED BY <1>1, <3>2, <4>1
    <3> QED BY <3>1, <3>2
  <2>2. \A i, j \in DOMAIN arrivals' : arrivals'[i] = arrivals'[j] => i = j
    BY <1>1, <1>4 DEF IInv, HistoryOK
  <2> QED BY <2>1, <2>2 DEF HistoryOK
<1>6. TailsOK'
  <2> SUFFICES ASSUME NEW k \in Keys
               PROVE /\ tails'[k] = None =>
                          \A i \in DOMAIN arrivals' : KeyOf[arrivals'[i]] = k => pc'[arrivals'[i]] \in Settled
                     /\ tails'[k] # None =>
                          \E i \in DOMAIN arrivals' :
                            /\ arrivals'[i] = tails'[k] /\ KeyOf[arrivals'[i]] = k
                            /\ \A j \in DOMAIN arrivals' : i < j => KeyOf[arrivals'[j]] # k
    BY DEF TailsOK, LastOf
  <2>1. CASE k = KeyOf[s]
    BY <1>1, <1>3, <2>1
  <2>2. CASE k # KeyOf[s]
    <3>1. CASE tails[k] = None
      BY <1>1, <1>3, <1>4, <2>2, <3>1 DEF IInv, TailsOK
    <3>2. CASE tails[k] # None
      <4>1. PICK i \in DOMAIN arrivals : arrivals[i] = tails[k] /\ LastOf(k, i)
        BY <3>2 DEF IInv, TailsOK
      <4> QED BY <1>1, <1>3, <2>2, <3>2, <4>1 DEF LastOf
    <3> QED BY <3>1, <3>2
  <2> QED BY <2>1, <2>2
<1>7. ChainOK'
  <2> SUFFICES ASSUME NEW j \in DOMAIN arrivals'
               PROVE /\ prev'[arrivals'[j]] = None =>
                          \A i \in DOMAIN arrivals' :
                            i < j /\ KeyOf[arrivals'[i]] = KeyOf[arrivals'[j]] => pc'[arrivals'[i]] \in Settled
                     /\ prev'[arrivals'[j]] # None =>
                          \E i \in DOMAIN arrivals' :
                            /\ i < j /\ arrivals'[i] = prev'[arrivals'[j]] /\ KeyOf[arrivals'[i]] = KeyOf[arrivals'[j]]
                            /\ \A l \in DOMAIN arrivals' : i < l /\ l < j => KeyOf[arrivals'[l]] # KeyOf[arrivals'[j]]
    BY DEF ChainOK
  <2>1. CASE j = n
    <3>1. CASE tails[KeyOf[s]] = None
      BY <1>1, <1>3, <1>4, <2>1, <3>1 DEF IInv, TailsOK
    <3>2. CASE tails[KeyOf[s]] # None
      <4>1. PICK i \in DOMAIN arrivals : arrivals[i] = tails[KeyOf[s]] /\ LastOf(KeyOf[s], i)
        BY <1>3, <3>2 DEF IInv, TailsOK
      <4> QED BY <1>1, <1>3, <2>1, <3>2, <4>1 DEF LastOf
    <3> QED BY <3>1, <3>2
  <2>2. CASE j # n
    <3>1. /\ j \in DOMAIN arrivals /\ arrivals'[j] = arrivals[j] /\ arrivals[j] # s
          /\ prev'[arrivals[j]] = prev[arrivals[j]]
          /\ \A i \in DOMAIN arrivals' : i < j => i \in DOMAIN arrivals /\ pc'[arrivals[i]] = pc[arrivals[i]]
      BY <1>1, <1>3, <1>4, <2>2
    <3>2. CASE prev[arrivals[j]] = None
      BY <1>1, <3>1, <3>2 DEF IInv, ChainOK
    <3>3. CASE prev[arrivals[j]] # None
      <4>1. PICK i \in DOMAIN arrivals :
              /\ i < j /\ arrivals[i] = prev[arrivals[j]] /\ KeyOf[arrivals[i]] = KeyOf[arrivals[j]]
              /\ \A l \in DOMAIN arrivals : i < l /\ l < j => KeyOf[arrivals[l]] # KeyOf[arrivals[j]]
        BY <3>1, <3>3 DEF IInv, ChainOK
      <4> QED BY <1>1, <3>1, <3>3, <4>1
    <3> QED BY <3>2, <3>3
  <2> QED BY <2>1, <2>2
<1>8. InOrder'
  BY <1>1, <1>3, <1>4 DEF IInv, InOrder, Settled
<1> QED BY <1>2, <1>5, <1>6, <1>7, <1>8 DEF IInv

\* So do the three steps that follow it: they only move a section on.
LEMMA LaterKeepsInv ==
  ASSUME IInv, NEW s \in Sections, Enter(s) \/ Settle(s) \/ Cleanup(s)
  PROVE  IInv'
<1>1. /\ arrivals' = arrivals /\ prev' = prev
      /\ pc[s] # "new" /\ pc'[s] # "new" /\ (pc[s] \in Settled => pc'[s] \in Settled)
      /\ \A t \in Sections : t # s => pc'[t] = pc[t]
  BY DEF Enter, Settle, Cleanup, Leave, Settled, IInv, MutexTypeOK
<1>2. DOMAIN arrivals = 1..Len(arrivals) /\ \A i \in DOMAIN arrivals : arrivals[i] \in Sections
  BY DEF IInv, MutexTypeOK
<1>3. MutexTypeOK'
  BY DEF IInv, MutexTypeOK, Enter, Settle, Cleanup, Leave, Settled
<1>4. HistoryOK'
  BY <1>1 DEF IInv, HistoryOK
<1>5. TailsOK'
  <2>1. CASE tails' = tails
    BY <1>1, <1>2, <2>1 DEF IInv, TailsOK, LastOf
  <2>2. CASE tails' # tails
    <3>1. /\ tails[KeyOf[s]] = s /\ tails' = [tails EXCEPT ![KeyOf[s]] = None]
          /\ pc'[s] \in Settled /\ pc[s] \in Settled
      BY <2>2 DEF Enter, Settle, Cleanup, Leave, Settled, IInv, MutexTypeOK
    <3>2. PICK i \in DOMAIN arrivals : arrivals[i] = s /\ LastOf(KeyOf[s], i)
      BY <3>1 DEF IInv, TailsOK, MutexTypeOK
    <3>3. \A j \in DOMAIN arrivals : KeyOf[arrivals[j]] = KeyOf[s] => pc[arrivals[j]] \in Settled
      <4> SUFFICES ASSUME NEW j \in DOMAIN arrivals, KeyOf[arrivals[j]] = KeyOf[s]
                   PROVE  pc[arrivals[j]] \in Settled
        OBVIOUS
      <4>1. j = i \/ j < i
        BY <1>2, <3>2 DEF LastOf
      <4> QED BY <3>1, <3>2, <4>1 DEF IInv, InOrder
    <3> QED BY <1>1, <1>2, <3>1, <3>3 DEF IInv, TailsOK, LastOf, MutexTypeOK
  <2> QED BY <2>1, <2>2
<1>6. ChainOK'
  BY <1>1, <1>2 DEF IInv, ChainOK
<1>7. InOrder'
  <2> SUFFICES ASSUME NEW i \in DOMAIN arrivals, NEW j \in DOMAIN arrivals, i < j,
                      KeyOf[arrivals[i]] = KeyOf[arrivals[j]], pc'[arrivals[j]] \in {"running"} \cup Settled
               PROVE  pc'[arrivals[i]] \in Settled
    BY <1>1 DEF InOrder
  <2>1. CASE pc[arrivals[j]] \in {"running"} \cup Settled
    BY <1>1, <1>2, <2>1 DEF IInv, InOrder
  <2>2. CASE pc[arrivals[j]] \notin {"running"} \cup Settled
    <3>1. arrivals[j] = s /\ Enter(s)
      BY <1>1, <1>2, <2>2 DEF Settle, Cleanup, Leave, Settled
    <3>2. CASE prev[s] = None
      BY <1>1, <1>2, <3>1, <3>2 DEF IInv, ChainOK
    <3>3. CASE prev[s] # None
      <4>1. PICK l \in DOMAIN arrivals :
              /\ l < j /\ arrivals[l] = prev[s] /\ KeyOf[arrivals[l]] = KeyOf[arrivals[j]]
              /\ \A m \in DOMAIN arrivals : l < m /\ m < j => KeyOf[arrivals[m]] # KeyOf[arrivals[j]]
        BY <3>1, <3>3 DEF IInv, ChainOK
      <4>2. pc[arrivals[l]] \in Settled
        BY <3>1, <3>3, <4>1 DEF Enter, MayStart
      <4>3. i = l \/ i < l
        BY <1>2, <4>1
      <4>4. pc[arrivals[i]] \in Settled
        BY <4>1, <4>2, <4>3 DEF IInv, InOrder
      <4> QED BY <1>1, <1>2, <4>4
    <3> QED BY <3>2, <3>3
  <2> QED BY <2>1, <2>2
<1> QED BY <1>3, <1>4, <1>5, <1>6, <1>7 DEF IInv

\* The invariant is inductive.
LEMMA StepInv == IInv /\ [Next]_vars => IInv'
<1> SUFFICES ASSUME IInv, [Next]_vars PROVE IInv'
  OBVIOUS
<1>1. CASE Next
  BY <1>1, CallKeepsInv, LaterKeepsInv DEF Next
<1>2. CASE UNCHANGED vars
  BY <1>2 DEF vars, IInv, MutexTypeOK, HistoryOK, TailsOK, LastOf, ChainOK, InOrder
<1> QED BY <1>1, <1>2

-----------------------------------------------------------------------------
\* Sections of a key run in the order of their calls: the promise of mutex.ts 11-12.
THEOREM MutexInOrder == Spec => []InOrder
<1>1. IInv => InOrder
  BY DEF IInv
<1> QED BY <1>1, InitInv, StepInv, PTL DEF Spec

\* Two sections of a key never run at once: the promise of mutex.ts 1.
THEOREM MutexExclusive == Spec => []Exclusive
<1>1. IInv => Exclusive
  <2> SUFFICES ASSUME IInv, NEW s \in Sections, NEW t \in Sections, s # t, KeyOf[s] = KeyOf[t],
                      pc[s] = "running", pc[t] = "running"
               PROVE  FALSE
    BY DEF Exclusive
  <2>1. PICK i \in DOMAIN arrivals : arrivals[i] = s
    BY DEF IInv, HistoryOK
  <2>2. PICK j \in DOMAIN arrivals : arrivals[j] = t
    BY DEF IInv, HistoryOK
  <2>3. i < j \/ j < i
    BY <2>1, <2>2 DEF IInv, MutexTypeOK
  <2> QED BY <2>1, <2>2, <2>3 DEF IInv, InOrder, Settled
<1> QED BY <1>1, InitInv, StepInv, PTL DEF Spec

-----------------------------------------------------------------------------
\* The entry of a key is of a call that has not returned yet.
EntryInUse == \A k \in Keys : tails[k] # None => pc[tails[k]] \notin {"new", "returned", "threw"}

\* "the last waiter cleans up": every step keeps the entries in use.
LEMMA StepEntries == IInv /\ EntryInUse /\ [Next]_vars => EntryInUse'
<1> SUFFICES ASSUME IInv, EntryInUse, [Next]_vars, NEW k \in Keys, tails'[k] # None
             PROVE  pc'[tails'[k]] \notin {"new", "returned", "threw"}
  BY DEF EntryInUse
<1>0. /\ tails \in [Keys -> Sections \cup {None}] /\ pc \in [Sections -> {"new", "queued", "running"} \cup Settled]
      /\ tails[k] # None => /\ tails[k] \in Sections /\ KeyOf[tails[k]] = k
                            /\ pc[tails[k]] \notin {"new", "returned", "threw"}
  BY DEF IInv, MutexTypeOK, EntryInUse, TailsOK, LastOf
<1>1. ASSUME NEW s \in Sections, Call(s) PROVE pc'[tails'[k]] \notin {"new", "returned", "threw"}
  BY <1>0, <1>1 DEF Call
<1>2. ASSUME NEW s \in Sections, Enter(s) \/ Settle(s) PROVE pc'[tails'[k]] \notin {"new", "returned", "threw"}
  BY <1>0, <1>2 DEF Enter, Settle
<1>3. ASSUME NEW s \in Sections, Cleanup(s) PROVE pc'[tails'[k]] \notin {"new", "returned", "threw"}
  <2>1. /\ \A t \in Sections \ {s} : pc'[t] = pc[t]
        /\ tails' = IF tails[KeyOf[s]] = s THEN [tails EXCEPT ![KeyOf[s]] = None] ELSE tails
    BY <1>0, <1>3 DEF Cleanup, Leave
  <2>2. tails'[k] = tails[k] /\ tails[k] # s
    BY <1>0, <2>1
  <2> QED BY <1>0, <2>1, <2>2
<1>4. CASE UNCHANGED vars
  BY <1>0, <1>4 DEF vars
<1> QED BY <1>1, <1>2, <1>3, <1>4 DEF Next

\* A key nobody waits for leaves no entry behind (mutex.ts 18, 23): the map holds as many
\* entries as keys in use, for any history of calls.
THEOREM MutexForgets == Spec => []NoEntryLeft
<1>1. Init => EntryInUse
  BY DEF Init, EntryInUse
<1>2. IInv /\ EntryInUse => NoEntryLeft
  BY DEF IInv, MutexTypeOK, TailsOK, LastOf, EntryInUse, NoEntryLeft
<1> QED BY <1>1, <1>2, InitInv, StepInv, StepEntries, PTL DEF Spec

-----------------------------------------------------------------------------
Running == {s \in Sections : pc[s] = "running"}
Ended == {s \in Sections : pc[s] \in Settled}

\* Each step of the mutex is one of the lock, or none: chaining is the arrival, the promise
\* callback begins the section, its outcome finishes it, and the cleanup is invisible.
LEMMA LockStep == IInv /\ IInv' /\ [Next]_vars => [Lock!Next]_<<arrivals, Running, Ended>>
<1> SUFFICES ASSUME IInv, IInv', [Next]_vars PROVE [Lock!Next]_<<arrivals, Running, Ended>>
  OBVIOUS
<1>0. pc \in [Sections -> {"new", "queued", "running"} \cup Settled] /\ DOMAIN arrivals = 1..Len(arrivals)
      /\ Len(arrivals) \in Nat
  BY DEF IInv, MutexTypeOK
<1>1. ASSUME NEW s \in Sections, Call(s) PROVE Lock!Arrive(s)
  <2>1. s \notin {arrivals[i] : i \in DOMAIN arrivals}
    BY <1>1 DEF IInv, HistoryOK, Call
  <2>2. Running' = Running /\ Ended' = Ended
    BY <1>0, <1>1 DEF Call, Running, Ended, Settled
  <2>3. arrivals' = Append(arrivals, s)
    BY <1>1 DEF Call
  <2> QED BY <2>1, <2>2, <2>3 DEF Lock!Arrive, Lock!Came, Running, Ended
<1>2. ASSUME NEW s \in Sections, Enter(s) PROVE Lock!Begin(s)
  <2>1. /\ pc[s] = "queued" /\ pc'[s] = "running" /\ arrivals' = arrivals
        /\ \A t \in Sections : t # s => pc'[t] = pc[t]
    BY <1>0, <1>2 DEF Enter
  <2>2. PICK j \in DOMAIN arrivals : arrivals[j] = s
    BY <2>1 DEF IInv, HistoryOK
  <2>3. \A i \in DOMAIN arrivals : arrivals[i] \in Sections
    BY DEF IInv, MutexTypeOK
  <2>4. \A i \in 1..(j - 1) : KeyOf[arrivals[i]] = KeyOf[s] => arrivals[i] \in Ended
    <3> SUFFICES ASSUME NEW i \in 1..(j - 1), KeyOf[arrivals[i]] = KeyOf[s]
                 PROVE  arrivals[i] \in Ended
      OBVIOUS
    <3>1. i \in DOMAIN arrivals /\ i < j
      BY <1>0, <2>2
    <3>2. arrivals[i] # s
      BY <2>2, <3>1 DEF IInv, HistoryOK
    <3>3. pc'[arrivals[i]] \in Settled
      BY <2>1, <2>2, <3>1 DEF IInv, InOrder
    <3> QED BY <2>1, <2>3, <3>1, <3>2, <3>3 DEF Ended
  <2>5. \A t \in Running : KeyOf[t] # KeyOf[s]
    <3> SUFFICES ASSUME NEW t \in Sections, pc[t] = "running", KeyOf[t] = KeyOf[s] PROVE FALSE
      BY DEF Running
    <3>1. PICK i \in DOMAIN arrivals : arrivals[i] = t
      BY DEF IInv, HistoryOK
    <3>2. i < j \/ j < i
      BY <1>0, <2>1, <2>2, <3>1
    <3>3. CASE i < j
      BY <1>0, <2>4, <3>1, <3>3 DEF Ended, Settled
    <3>4. CASE j < i
      BY <2>1, <2>2, <3>1, <3>4 DEF IInv, InOrder, Settled
    <3> QED BY <3>2, <3>3, <3>4
  <2>6. s \notin Running \cup Ended
    BY <2>1 DEF Running, Ended, Settled
  <2>7. Running' = Running \cup {s} /\ Ended' = Ended
    BY <1>0, <2>1 DEF Running, Ended, Settled
  <2> QED BY <2>1, <2>2, <2>4, <2>5, <2>6, <2>7 DEF Lock!Begin, Running, Ended
<1>3. ASSUME NEW s \in Sections, Settle(s) PROVE Lock!Finish(s)
  <2>1. /\ pc[s] = "running" /\ pc'[s] \in {"resolved", "rejected"} /\ arrivals' = arrivals
        /\ \A t \in Sections : t # s => pc'[t] = pc[t]
    BY <1>0, <1>3 DEF Settle
  <2>2. s \in Running /\ Running' = Running \ {s} /\ Ended' = Ended \cup {s}
    BY <1>0, <2>1 DEF Running, Ended, Settled
  <2> QED BY <2>1, <2>2 DEF Lock!Finish, Running, Ended
<1>4. ASSUME NEW s \in Sections, Cleanup(s) PROVE UNCHANGED <<arrivals, Running, Ended>>
  BY <1>0, <1>4 DEF Cleanup, Leave, Running, Ended, Settled
<1>5. CASE UNCHANGED vars
  BY <1>5 DEF vars, Running, Ended
<1> QED BY <1>1, <1>2, <1>3, <1>4, <1>5 DEF Next, Lock!Next

\* The mutex implements the lock (mutex.ts 1, 11-12): a key's sections run one at a time and
\* in the order of their calls, whatever sections, keys, outcomes and cleanups there are.
THEOREM MutexIsALock == Spec => ImplementsLock
<1>1. Init => Lock!Init
  BY DEF Init, Lock!Init, Settled
<1>2. IInv /\ IInv' /\ [Next]_vars =>
        [Lock!Next]_<<arrivals, {s \in Sections : pc[s] = "running"}, {s \in Sections : pc[s] \in Settled}>>
  BY LockStep DEF Running, Ended
<1> QED BY <1>1, <1>2, InitInv, StepInv, PTL DEF Spec, ImplementsLock, Lock!Spec
=============================================================================
