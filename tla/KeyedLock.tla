------------------------------ MODULE KeyedLock ------------------------------
(***************************************************************************)
(* What the keyed mutex promises its callers (the header and the comments  *)
(* of engine/src/mutex.ts): per key a first-come, first-served lock.       *)
(***************************************************************************)
EXTENDS Integers, Sequences

CONSTANTS Sections, KeyOf

VARIABLES
  order,    \* the sections in the order they came
  inside,   \* the sections running
  ended     \* the sections that have run

Came == {order[i] : i \in DOMAIN order}

Init == order = <<>> /\ inside = {} /\ ended = {}

Arrive(s) ==
  /\ s \notin Came
  /\ order' = Append(order, s)
  /\ UNCHANGED <<inside, ended>>

\* Nobody of the key is inside, and everybody who came before has been.
Begin(s) ==
  /\ s \notin inside \cup ended
  /\ \A t \in inside : KeyOf[t] # KeyOf[s]
  /\ \E j \in DOMAIN order :
       /\ order[j] = s
       /\ \A i \in 1..(j - 1) : KeyOf[order[i]] = KeyOf[s] => order[i] \in ended
  /\ inside' = inside \cup {s}
  /\ UNCHANGED <<order, ended>>

Finish(s) ==
  /\ s \in inside
  /\ inside' = inside \ {s}
  /\ ended' = ended \cup {s}
  /\ UNCHANGED order

Next == \E s \in Sections : Arrive(s) \/ Begin(s) \/ Finish(s)

Spec == Init /\ [][Next]_<<order, inside, ended>>
=============================================================================
