------------------------------ MODULE Webhooks ------------------------------
(***************************************************************************)
(* Events and the webhooks that are told of them (server/src/events/):     *)
(* emitting writes one delivery row per subscribed webhook, and drivers,   *)
(* the timer's sweeps and the owner's "retry" and "test", post the rows.   *)
(*                                                                         *)
(* A driver reads its rows once and then works through them with awaits;   *)
(* the timer starts a sweep whether or not the last one is over, and no    *)
(* write looks at what another driver did to the row meanwhile.  The       *)
(* back-off of a row is over at some time the model does not count.        *)
(***************************************************************************)
EXTENDS Integers

CONSTANTS
  Hooks, Events,
  Wants,        \* Wants[h]: the events webhook h subscribes to
  Drivers,      \* runs of deliverWebhooks that may be under way at once
  MaxAttempts,  \* WEBHOOK_MAX_ATTEMPTS
  MaxCount,     \* bound: the attempts of a row are not counted further
  MaxRearms,    \* bound: retries and tests asked for by the owner
  MaxCrashes,   \* bound: restarts of the server
  None

ASSUME WebhooksAssumption ==
  /\ Wants \in [Hooks -> SUBSET Events]
  /\ MaxAttempts \in Nat \ {0} /\ MaxCount \in Nat /\ MaxRearms \in Nat /\ MaxCrashes \in Nat
  /\ None \notin Events \X Hooks

VARIABLES
  hook,      \* webhooks: "none", "active", "paused" or "deleted"
  emitted,   \* events emitted
  row,       \* webhook_deliveries: status, attempts, and whether its time has come
  batch,     \* the rows each driver has yet to look at
  read,      \* attempts of each row as the driver read them
  current,   \* the row each driver is on
  step,      \* "idle", "next", "secret" or "posted"
  rearms, crashes

Deliveries == Events \X Hooks
HookOf(d) == d[2]
working == <<batch, read, current, step>>
vars == <<hook, emitted, row, working, rearms, crashes>>

NoRow == [status |-> "none", attempts |-> 0, ready |-> FALSE]
Fresh == [status |-> "pending", attempts |-> 0, ready |-> TRUE]
Live(d) == row[d].status # "none"
Open(d) == row[d].status \in {"pending", "failed"}
Due == {d \in Deliveries : Open(d) /\ row[d].ready}

Init ==
  /\ hook = [h \in Hooks |-> "none"]
  /\ emitted = {}
  /\ row = [d \in Deliveries |-> NoRow]
  /\ batch = [w \in Drivers |-> {}]
  /\ read = [w \in Drivers |-> [d \in Deliveries |-> 0]]
  /\ current = [w \in Drivers |-> None]
  /\ step = [w \in Drivers |-> "idle"]
  /\ rearms = 0 /\ crashes = 0

-----------------------------------------------------------------------------
(* The owner and the event bus.                                            *)

SetHook(h, s) == hook' = [hook EXCEPT ![h] = s]

CreateHook(h) ==
  /\ hook[h] = "none" /\ SetHook(h, "active")
  /\ UNCHANGED <<emitted, row, working, rearms, crashes>>

Pause(h) ==
  /\ hook[h] = "active" /\ SetHook(h, "paused")
  /\ UNCHANGED <<emitted, row, working, rearms, crashes>>

Resume(h) ==
  /\ hook[h] = "paused" /\ SetHook(h, "active")
  /\ UNCHANGED <<emitted, row, working, rearms, crashes>>

\* The webhook goes with its deliveries.
DeleteHook(h) ==
  /\ hook[h] \in {"active", "paused"} /\ SetHook(h, "deleted")
  /\ row' = [d \in Deliveries |-> IF HookOf(d) = h THEN NoRow ELSE row[d]]
  /\ UNCHANGED <<emitted, working, rearms, crashes>>

Subscribers(e) == {h \in Hooks : hook[h] = "active" /\ e \in Wants[h]}

Emit(e) ==
  /\ e \notin emitted /\ emitted' = emitted \cup {e}
  /\ row' = [d \in Deliveries |-> IF d \in {e} \X Subscribers(e) THEN Fresh ELSE row[d]]
  /\ UNCHANGED <<hook, working, rearms, crashes>>

-----------------------------------------------------------------------------
(* Drivers.                                                                *)

Begin(w, ds, attempts) ==
  /\ step[w] = "idle"
  /\ step' = [step EXCEPT ![w] = "next"]
  /\ batch' = [batch EXCEPT ![w] = ds]
  /\ read' = [read EXCEPT ![w] = [d \in Deliveries |-> IF d \in ds THEN attempts[d] ELSE 0]]
  /\ UNCHANGED current

\* The timer's sweep: every row that is due.
Sweep(w) ==
  /\ Due # {} /\ Begin(w, Due, [d \in Deliveries |-> row[d].attempts])
  /\ UNCHANGED <<hook, emitted, row, rearms, crashes>>

Single(w, d) ==
  /\ rearms < MaxRearms /\ rearms' = rearms + 1
  /\ row' = [row EXCEPT ![d] = Fresh]
  /\ Begin(w, {d}, [x \in Deliveries |-> 0])

\* The owner retries a row not yet delivered: it is armed anew and posted at once.
Retry(w, d) ==
  /\ hook[HookOf(d)] \in {"active", "paused"}
  /\ Live(d) /\ row[d].status # "delivered"
  /\ Single(w, d)
  /\ UNCHANGED <<hook, emitted, crashes>>

\* The test of one webhook is an event of its own, subscribed to or not.
Test(w, d) ==
  /\ hook[HookOf(d)] \in {"active", "paused"}
  /\ d[1] \notin emitted /\ emitted' = emitted \cup {d[1]}
  /\ Single(w, d)
  /\ UNCHANGED <<hook, crashes>>

\* An UPDATE of a deleted row changes nothing.
Write(d, r) == row' = IF Live(d) THEN [row EXCEPT ![d] = r] ELSE row

\* A row as one more attempt left it.
Tried(d, s) ==
  [status |-> s, ready |-> FALSE,
   attempts |-> IF row[d].attempts < MaxCount THEN row[d].attempts + 1 ELSE MaxCount]

Failed(d, dead) == Tried(d, IF dead THEN "dead" ELSE "failed")

\* The driver is done with its current row.
Advance(w) ==
  /\ current' = [current EXCEPT ![w] = None]
  /\ step' = [step EXCEPT ![w] = "next"]
  /\ read' = [read EXCEPT ![w][current[w]] = 0]

\* The next row's webhook is looked up.
Take(w, d) ==
  /\ step[w] = "next" /\ d \in batch[w] /\ hook[HookOf(d)] = "active"
  /\ batch' = [batch EXCEPT ![w] = @ \ {d}]
  /\ current' = [current EXCEPT ![w] = d]
  /\ step' = [step EXCEPT ![w] = "secret"]
  /\ UNCHANGED <<hook, emitted, row, read, rearms, crashes>>

\* It is removed or paused: the row is dead.
Undeliverable(w, d) ==
  /\ step[w] = "next" /\ d \in batch[w] /\ hook[HookOf(d)] # "active"
  /\ batch' = [batch EXCEPT ![w] = @ \ {d}]
  /\ Write(d, Failed(d, TRUE))
  /\ read' = [read EXCEPT ![w][d] = 0]
  /\ UNCHANGED <<hook, emitted, current, step, rearms, crashes>>

Unreadable(w) ==
  /\ step[w] = "secret"
  /\ Write(current[w], Failed(current[w], TRUE))
  /\ Advance(w)
  /\ UNCHANGED <<hook, emitted, batch, rearms, crashes>>

Post(w) ==
  /\ step[w] = "secret"
  /\ step' = [step EXCEPT ![w] = "posted"]
  /\ UNCHANGED <<hook, emitted, row, batch, read, current, rearms, crashes>>

\* The endpoint answers 2xx.
Accepted(w) ==
  /\ step[w] = "posted"
  /\ Write(current[w], Tried(current[w], "delivered"))
  /\ Advance(w)
  /\ UNCHANGED <<hook, emitted, batch, rearms, crashes>>

\* Mutant of GivesUp: the limit is met exactly or not at all.
GivesUpAt(attempts) == attempts = MaxAttempts

GivesUp(attempts) == attempts >= MaxAttempts

\* Any other answer, none in ten seconds, or one that was lost: the driver counts from
\* the attempts it read, the row from those it holds.
Rejected(w) ==
  /\ step[w] = "posted"
  /\ Write(current[w], Failed(current[w], GivesUp(read[w][current[w]] + 1)))
  /\ Advance(w)
  /\ UNCHANGED <<hook, emitted, batch, rearms, crashes>>

Finish(w) ==
  /\ step[w] = "next" /\ batch[w] = {}
  /\ step' = [step EXCEPT ![w] = "idle"]
  /\ UNCHANGED <<hook, emitted, row, batch, read, current, rearms, crashes>>

\* The back-off of a failed row is over.
Elapse(d) ==
  /\ row[d].status = "failed" /\ ~row[d].ready
  /\ row' = [row EXCEPT ![d].ready = TRUE]
  /\ UNCHANGED <<hook, emitted, working, rearms, crashes>>

\* The drivers are lost, the rows stay.
Crash ==
  /\ crashes < MaxCrashes /\ crashes' = crashes + 1
  /\ batch' = [w \in Drivers |-> {}]
  /\ read' = [w \in Drivers |-> [d \in Deliveries |-> 0]]
  /\ current' = [w \in Drivers |-> None]
  /\ step' = [w \in Drivers |-> "idle"]
  /\ UNCHANGED <<hook, emitted, row, rearms>>

-----------------------------------------------------------------------------
Owner ==
  \/ \E h \in Hooks : CreateHook(h) \/ Pause(h) \/ Resume(h) \/ DeleteHook(h)
  \/ \E w \in Drivers, d \in Deliveries : Retry(w, d) \/ Test(w, d)

Work(w) ==
  \/ \E d \in Deliveries : Take(w, d) \/ Undeliverable(w, d)
  \/ Unreadable(w) \/ Post(w) \/ Accepted(w) \/ Rejected(w) \/ Finish(w)

Next ==
  \/ Owner \/ Crash
  \/ \E e \in Events : Emit(e)
  \/ \E w \in Drivers : Sweep(w) \/ Work(w)
  \/ \E d \in Deliveries : Elapse(d)

\* The timer keeps firing, each await of a driver has a timeout, and time passes.
Fairness ==
  /\ \A w \in Drivers : WF_vars(Sweep(w)) /\ WF_vars(Work(w))
  /\ \A d \in Deliveries : WF_vars(Elapse(d))

Spec == Init /\ [][Next]_vars /\ Fairness

-----------------------------------------------------------------------------
(* Properties.                                                             *)

RowType == [status : {"none", "pending", "failed", "delivered", "dead"}, attempts : Nat, ready : BOOLEAN]

TypeOK ==
  /\ hook \in [Hooks -> {"none", "active", "paused", "deleted"}]
  /\ emitted \subseteq Events
  /\ row \in [Deliveries -> RowType]
  /\ batch \in [Drivers -> SUBSET Deliveries]
  /\ read \in [Drivers -> [Deliveries -> Nat]]
  /\ current \in [Drivers -> Deliveries \cup {None}]
  /\ step \in [Drivers -> {"idle", "next", "secret", "posted"}]
  /\ rearms \in Nat /\ crashes \in Nat

\* "five attempts ... then the delivery is `dead`" (deliver.ts 8-10): whatever overlapping
\* sweeps, retries and restarts do to its counter, a delivery does not stay open for ever.
EveryDeliverySettles == \A d \in Deliveries : Open(d) ~> ~Open(d)
=============================================================================
