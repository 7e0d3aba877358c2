-------------------------------- MODULE Cards --------------------------------
(***************************************************************************)
(* The life of one user's cards: issuing (engine/src/issuance.ts), freeze, *)
(* revoke, nuke and deletion (engine/src/ops.ts) and the prepared entries  *)
(* the API keeps between its prepare and finalize requests                 *)
(* (server/src/api/routes.ts).                                             *)
(*                                                                         *)
(* A root card is a delegation the user signs, bound to the user's         *)
(* revocation nonce; a sub-card is signed by its parent's agent key.  A    *)
(* root dies on-chain when its delegation is disabled or the nonce moves   *)
(* on, by an admin operation the user signs and the relayer redeems.       *)
(***************************************************************************)
EXTENDS Integers, FiniteSets

CONSTANTS
  Cards,      \* cards that may be issued
  ParentOf,   \* ParentOf[c]: c's parent card, or None for a root
  Ops,        \* admin operations
  Direct,     \* those signed with the server's own key, without prepare
  Target,     \* Target[o]: the root that o revokes, or None for a nuke
  Calls,      \* finalize requests
  CallOf,     \* CallOf[f]: the operation request f finalizes
  ReadsFail,  \* environment: reads of the nonce may fail
  None

Roots == {c \in Cards : ParentOf[c] = None}

ASSUME CardsAssumption ==
  /\ None \notin Cards
  /\ ParentOf \in [Cards -> Cards \cup {None}]
  /\ \A c \in Cards \ Roots : ParentOf[c] \in Roots
  /\ Target \in [Ops -> Roots \cup {None}]
  /\ CallOf \in [Calls -> Ops]
  /\ Direct \subseteq Ops
  /\ ReadsFail \in BOOLEAN

VARIABLES
  status,       \* cards.status; "none": no row yet, "deleted": row deleted
  issue,        \* where the issuing of each card stands
  bound,        \* the nonce in each root's delegation, from when it was asked for
  storedNonce,  \* users.revocation_nonce
  chainNonce,   \* the NonceEnforcer's nonce of the user
  disabled,     \* roots whose delegation is disabled on-chain
  entry,        \* pendingAdmin: "none", "held" or "gone"
  busy,         \* the entry's inProgress
  pc,           \* where each finalize request stands
  seen,         \* the nonce on its way to a nuke's bookkeeping
  fate,         \* each operation's redemption
  sends         \* how often the relayer was given it

books == <<status, storedNonce>>
onChain == <<chainNonce, disabled, fate>>
requests == <<entry, busy, pc, seen, sends>>
issuing == <<issue, bound>>
vars == <<books, onChain, requests, issuing>>

Statuses == {"none", "active", "frozen", "revoked", "nuked", "deleted"}
IssueStates == {"idle", "asking", "prepared", "signing", "over"}
EntryStates == {"none", "held", "gone"}
PcStates == {"idle", "verify", "loop", "confirm", "ask", "answer", "done"}
Fates == {"none", "inflight", "landed", "dropped"}

Row(c) == status[c] \notin {"none", "deleted"}
Alive(c) == status[c] \in {"active", "frozen"}
LiveCards == {c \in Cards : Alive(c)}
Dead(c) == status[c] \in {"revoked", "nuked"}
Subtree(c) == {d \in Cards : Row(d) /\ (d = c \/ ParentOf[d] = c)}

Init ==
  /\ status = [c \in Cards |-> "none"]
  /\ issue = [c \in Cards |-> "idle"]
  /\ bound = [c \in Cards |-> 0]
  /\ storedNonce = 0 /\ chainNonce = 0 /\ disabled = {}
  /\ entry = [o \in Ops |-> "none"]
  /\ busy = [o \in Ops |-> FALSE]
  /\ pc = [f \in Calls |-> "idle"]
  /\ seen = [f \in Calls |-> 0]
  /\ fate = [o \in Ops |-> "none"]
  /\ sends = [o \in Ops |-> 0]

SetStatus(cs, s) == status' = [c \in Cards |-> IF c \in cs THEN s ELSE status[c]]

-----------------------------------------------------------------------------
(* Issuing.                                                                *)

Stage(c, s) == issue' = [issue EXCEPT ![c] = s]

\* POST /cards/prepare reads the nonce the delegation will be bound to.
AskNonce(c) ==
  /\ c \in Roots /\ issue[c] = "idle"
  /\ bound' = [bound EXCEPT ![c] = chainNonce]
  /\ Stage(c, "asking")
  /\ UNCHANGED <<books, onChain, requests>>

\* The answer refreshes the stored nonce; without one the stored nonce is used.
PrepareRoot(c) ==
  /\ issue[c] = "asking"
  /\ \/ storedNonce' = bound[c] /\ UNCHANGED bound
     \/ ReadsFail /\ bound' = [bound EXCEPT ![c] = storedNonce] /\ UNCHANGED storedNonce
  /\ Stage(c, "prepared")
  /\ UNCHANGED <<status, onChain, requests>>

\* The user's signature recovers: the row is written as prepared.
FinalizeRoot(c) ==
  /\ issue[c] = "prepared"
  /\ Stage(c, "over") /\ SetStatus({c}, "active")
  /\ UNCHANGED <<storedNonce, bound, onChain, requests>>

\* Five minutes pass, or the server restarts.
ForgetRoot(c) ==
  /\ issue[c] = "prepared"
  /\ Stage(c, "over")
  /\ UNCHANGED <<books, bound, onChain, requests>>

\* issueSubCard: the parent is active when the agent's keys start to be made.
StartSub(c) ==
  /\ c \notin Roots /\ issue[c] = "idle"
  /\ status[ParentOf[c]] = "active"
  /\ Stage(c, "signing")
  /\ UNCHANGED <<books, bound, onChain, requests>>

\* Nothing of the parent is read again; its row must still be there.
EndSub(c) ==
  /\ issue[c] = "signing"
  /\ Stage(c, "over")
  /\ IF Row(ParentOf[c]) THEN SetStatus({c}, "active") ELSE UNCHANGED status
  /\ UNCHANGED <<storedNonce, bound, onChain, requests>>

-----------------------------------------------------------------------------
(* The owner's controls on the server.                                     *)

Freeze(c) ==
  /\ status[c] = "active" /\ SetStatus({c}, "frozen")
  /\ UNCHANGED <<storedNonce, onChain, requests, issuing>>

Unfreeze(c) ==
  /\ status[c] = "frozen" /\ SetStatus({c}, "active")
  /\ UNCHANGED <<storedNonce, onChain, requests, issuing>>

\* agentRevokeSubcard, and prepareRevoke of a sub-card.
RevokeSub(c) ==
  /\ c \notin Roots /\ Row(c)
  /\ SetStatus(Subtree(c), "revoked")
  /\ UNCHANGED <<storedNonce, onChain, requests, issuing>>

\* Mutant of DeletableTree: a dead root is taken for a dead tree.
DeletableRoot(c) == Dead(c)

DeletableTree(c) == Row(c) /\ \A d \in Subtree(c) : Dead(d)

Delete(c) ==
  /\ DeletableTree(c)
  /\ SetStatus(Subtree(c), "deleted")
  /\ UNCHANGED <<storedNonce, onChain, requests, issuing>>

-----------------------------------------------------------------------------
(* Admin operations: prepare, sign in the browser, finalize.               *)

IsNuke(o) == Target[o] = None
Goto(f, l) == pc' = [pc EXCEPT ![f] = l]

PrepareOp(o) ==
  /\ o \notin Direct /\ entry[o] = "none"
  /\ ~IsNuke(o) => Target[o] \in LiveCards
  /\ entry' = [entry EXCEPT ![o] = "held"]
  /\ UNCHANGED <<books, onChain, busy, pc, seen, sends, issuing>>

\* The entry's two minutes are over.
ForgetOp(o) ==
  /\ entry[o] = "held"
  /\ entry' = [entry EXCEPT ![o] = "gone"]
  /\ UNCHANGED <<books, onChain, busy, pc, seen, sends, issuing>>

\* The card to revoke has a row.
Findable(o) == ~IsNuke(o) => Target[o] \in {c \in Cards : Row(c)}

\* Mutant of Claimable: nothing keeps a second request out.
ClaimableAgain(o) == entry[o] = "held"

Claimable(o) ==
  /\ entry[o] = "held" /\ ~busy[o]
  /\ Findable(o)

\* A finalize request claims the entry before anything is awaited.
Enter(f) ==
  /\ pc[f] = "idle" /\ Claimable(CallOf[f])
  /\ busy' = [busy EXCEPT ![CallOf[f]] = TRUE]
  /\ Goto(f, "verify")
  /\ UNCHANGED <<books, onChain, entry, seen, sends, issuing>>

TurnedAway(f) ==
  /\ pc[f] = "idle" /\ CallOf[f] \notin Direct /\ ~Claimable(CallOf[f])
  /\ Goto(f, "done")
  /\ UNCHANGED <<books, onChain, entry, busy, seen, sends, issuing>>

\* The server-signed lane: one request signs and sends, whatever the card's status.
StartDirect(f) ==
  /\ pc[f] = "idle" /\ CallOf[f] \in Direct /\ Findable(CallOf[f])
  /\ Goto(f, "loop")
  /\ UNCHANGED <<books, onChain, entry, busy, seen, sends, issuing>>

\* Mutant of Leave: the claim is released only when all went well.
LeaveHeld(f) == Goto(f, "done") /\ UNCHANGED busy

\* The request ends and lets go of the entry.
Leave(f) == Goto(f, "done") /\ busy' = [busy EXCEPT ![CallOf[f]] = FALSE]

BadSignature(f) ==
  /\ pc[f] = "verify" /\ Leave(f)
  /\ UNCHANGED <<books, onChain, entry, seen, sends, issuing>>

\* Nothing is left to kill: the operation is not sent.
Pointless(o) == IF IsNuke(o) THEN LiveCards = {} ELSE Target[o] \notin LiveCards

\* The signature is good: the entry is consumed, then the books are looked at again.
Validated(f) ==
  /\ pc[f] = "verify"
  /\ entry' = [entry EXCEPT ![CallOf[f]] = "gone"]
  /\ IF Pointless(CallOf[f]) THEN Leave(f) ELSE Goto(f, "loop") /\ UNCHANGED busy
  /\ UNCHANGED <<books, onChain, seen, sends, issuing>>

\* The estimate loop throws.
LoopThrows(f) ==
  /\ pc[f] = "loop" /\ Leave(f)
  /\ UNCHANGED <<books, onChain, entry, seen, sends, issuing>>

\* The relayer takes the signed leaf; its answer may be lost.
Send(f) ==
  /\ pc[f] = "loop"
  /\ sends' = [sends EXCEPT ![CallOf[f]] = @ + 1]
  /\ fate' = [fate EXCEPT ![CallOf[f]] = "inflight"]
  /\ (Goto(f, "confirm") /\ UNCHANGED busy) \/ Leave(f)
  /\ UNCHANGED <<books, chainNonce, disabled, entry, seen, issuing>>

\* disableDelegation reverts on a disabled delegation; incrementNonce never does.
Land(o) ==
  /\ fate[o] = "inflight" /\ Target[o] \notin disabled
  /\ fate' = [fate EXCEPT ![o] = "landed"]
  /\ IF IsNuke(o) THEN chainNonce' = chainNonce + 1 /\ UNCHANGED disabled
     ELSE disabled' = disabled \cup {Target[o]} /\ UNCHANGED chainNonce
  /\ UNCHANGED <<books, requests, issuing>>

Drop(o) ==
  /\ fate[o] = "inflight"
  /\ fate' = [fate EXCEPT ![o] = "dropped"]
  /\ UNCHANGED <<books, chainNonce, disabled, requests, issuing>>

\* It reverted, or the wait for it is over: nothing is booked.
NotConfirmed(f) ==
  /\ pc[f] = "confirm" /\ Leave(f)
  /\ UNCHANGED <<books, onChain, entry, seen, sends, issuing>>

\* Mutant of Confirms: an operation still pending counts as confirmed.
ConfirmsPending(o) == fate[o] \in {"inflight", "landed"}

Confirms(o) == fate[o] = "landed"

BookRevoke(f) ==
  /\ pc[f] = "confirm" /\ Confirms(CallOf[f]) /\ ~IsNuke(CallOf[f])
  /\ SetStatus(Subtree(Target[CallOf[f]]), "revoked")
  /\ Leave(f)
  /\ UNCHANGED <<storedNonce, onChain, entry, seen, sends, issuing>>

\* All the user's rows are marked first, then the nonce is read.
BookNuke(f) ==
  /\ pc[f] = "confirm" /\ Confirms(CallOf[f]) /\ IsNuke(CallOf[f])
  /\ SetStatus({c \in Cards : Row(c)}, "nuked")
  /\ Goto(f, "ask")
  /\ UNCHANGED <<storedNonce, onChain, entry, busy, seen, sends, issuing>>

ReadNonce(f) ==
  /\ pc[f] = "ask"
  /\ seen' = [seen EXCEPT ![f] = chainNonce]
  /\ Goto(f, "answer")
  /\ UNCHANGED <<books, onChain, entry, busy, sends, issuing>>

\* A failed read counts the confirmed bump itself.
StoreNonce(f) ==
  /\ pc[f] = "answer"
  /\ storedNonce' = seen[f] \/ (ReadsFail /\ storedNonce' = storedNonce + 1)
  /\ Leave(f)
  /\ UNCHANGED <<status, onChain, entry, seen, sends, issuing>>

-----------------------------------------------------------------------------
Issue(c) ==
  \/ AskNonce(c) \/ PrepareRoot(c) \/ FinalizeRoot(c) \/ ForgetRoot(c)
  \/ StartSub(c) \/ EndSub(c)

Control(c) == Freeze(c) \/ Unfreeze(c) \/ RevokeSub(c) \/ Delete(c)

\* Steps a finalize request takes without its caller.
Proceed(f) ==
  \/ BadSignature(f) \/ Validated(f) \/ LoopThrows(f) \/ Send(f) \/ NotConfirmed(f)
  \/ BookRevoke(f) \/ BookNuke(f) \/ ReadNonce(f) \/ StoreNonce(f)

Next ==
  \/ \E c \in Cards : Issue(c) \/ Control(c)
  \/ \E o \in Ops : PrepareOp(o) \/ ForgetOp(o) \/ Land(o) \/ Drop(o)
  \/ \E f \in Calls : Enter(f) \/ TurnedAway(f) \/ StartDirect(f) \/ Proceed(f)

Spec == Init /\ [][Next]_vars

\* A request that was let in runs to its end: every await of it has a timeout.
FairSpec == Spec /\ \A f \in Calls : WF_vars(Proceed(f))

-----------------------------------------------------------------------------
(* Properties.                                                             *)

TypeOK ==
  /\ status \in [Cards -> Statuses]
  /\ issue \in [Cards -> IssueStates]
  /\ bound \in [Cards -> Nat]
  /\ storedNonce \in Nat /\ chainNonce \in Nat /\ disabled \subseteq Roots
  /\ entry \in [Ops -> EntryStates]
  /\ busy \in [Ops -> BOOLEAN]
  /\ pc \in [Calls -> PcStates]
  /\ seen \in [Calls -> Nat]
  /\ fate \in [Ops -> Fates]
  /\ sends \in [Ops -> Nat]

\* "single-use ... never re-finalizable past that point" (api/routes.ts 94-100): however
\* many requests finalize it, with bad signatures between, the signed leaf of an
\* operation, live authority until it is redeemed, reaches the relayer at most once.
SignedLeafSentOnce == \A o \in Ops \ Direct : sends[o] <= 1

\* "Refuse rather than let the caller mark the tree revoked/nuked in the DB while it's
\* still live on-chain" (ops.ts 217-221): a root the books call revoked is disabled.
RevokedIsDisabled == \A c \in Roots : status[c] = "revoked" => c \in disabled

\* "a dead root implies a dead subtree. Don't TRUST that here" (ops.ts 98-100): a
\* sub-card signed while its root was revoked lives under a dead root, and a deletion
\* never takes it along.
LiveNeverDeleted == [][\A c \in Cards : status'[c] = "deleted" => ~Alive(c)]_vars

\* "a bad signature is retryable until the TTL" (api/routes.ts 605-612): the claim on an
\* entry is let go in the end, whatever the request met.
ClaimReleased == \A o \in Ops : busy[o] ~> ~busy[o]

\* "Pure bookkeeping: the authority is already unredeemable (revoked/nuked on-chain ...)"
\* (ops.ts 77-80) and "NonceEnforcer bump kills them all on-chain" (store.ts 365): a
\* root the books call nuked is bound to a nonce the chain no longer accepts.
NukedIsUnredeemable ==
  \A c \in Roots : status[c] = "nuked" => bound[c] # chainNonce \/ c \in disabled
=============================================================================
