----------------------------- MODULE CardsProofs -----------------------------
(***************************************************************************)
(* What module Cards promises, proved for every card tree, any operations  *)
(* and any number of finalize requests for each of them.                   *)
(***************************************************************************)
EXTENDS Cards, TLAPS

USE CardsAssumption

-----------------------------------------------------------------------------
(* The inductive invariant.                                                *)

\* Request f works on a prepared entry.
Holds(f) == CallOf[f] \notin Direct /\ pc[f] \notin {"idle", "done"}

\* Whoever works on an entry has it to itself.
Exclusive ==
  /\ \A f \in Calls : Holds(f) => busy[CallOf[f]]
  /\ \A f, g \in Calls : Holds(f) /\ Holds(g) /\ CallOf[f] = CallOf[g] => f = g

\* A leaf that may still be sent was never sent, and an entry that is being sent is
\* consumed: nobody enters it again.
ConsumedBeforeSent ==
  /\ \A o \in Ops \ Direct : entry[o] # "gone" => sends[o] = 0
  /\ \A f \in Calls : Holds(f) /\ pc[f] \in {"verify", "loop"} => sends[CallOf[f]] = 0
  /\ \A f \in Calls : Holds(f) /\ pc[f] # "verify" => entry[CallOf[f]] = "gone"

\* A redemption that landed disabled its root.
LandedDisabled == \A o \in Ops : fate[o] = "landed" /\ ~IsNuke(o) => Target[o] \in disabled

IInv ==
  /\ TypeOK /\ Exclusive /\ ConsumedBeforeSent /\ SignedLeafSentOnce
  /\ LandedDisabled /\ RevokedIsDisabled

-----------------------------------------------------------------------------
(* Types.                                                                  *)

\* Writing one status on a set of cards keeps the column's type.
LEMMA StatusTypes ==
  ASSUME TypeOK, NEW cs, NEW s \in Statuses, SetStatus(cs, s)
  PROVE  status' \in [Cards -> Statuses]
  BY DEF TypeOK, SetStatus

\* So do the steps that issue a card.
LEMMA IssueTypes ==
  ASSUME TypeOK, NEW c \in Cards, Issue(c)
  PROVE  TypeOK'
<1> USE DEF books, onChain, requests, issuing, Stage
<1>1. {"active", "frozen", "revoked", "nuked", "deleted"} \subseteq Statuses
  BY DEF Statuses
<1>2. CASE AskNonce(c)
  BY <1>2 DEF AskNonce, TypeOK, IssueStates
<1>3. CASE PrepareRoot(c)
  BY <1>3 DEF PrepareRoot, TypeOK, IssueStates
<1>4. CASE FinalizeRoot(c)
  <2>1. status' \in [Cards -> Statuses]
    BY <1>1, <1>4, StatusTypes DEF FinalizeRoot
  <2> QED BY <1>4, <2>1 DEF FinalizeRoot, TypeOK, IssueStates
<1>5. CASE ForgetRoot(c)
  BY <1>5 DEF ForgetRoot, TypeOK, IssueStates
<1>6. CASE StartSub(c)
  BY <1>6 DEF StartSub, TypeOK, IssueStates
<1>7. CASE EndSub(c)
  <2>1. status' \in [Cards -> Statuses]
    <3>1. CASE Row(ParentOf[c])
      BY <1>1, <1>7, <3>1, StatusTypes DEF EndSub
    <3>2. CASE ~Row(ParentOf[c])
      BY <1>7, <3>2 DEF EndSub, TypeOK
    <3> QED BY <3>1, <3>2
  <2> QED BY <1>7, <2>1 DEF EndSub, TypeOK, IssueStates
<1> QED BY <1>2, <1>3, <1>4, <1>5, <1>6, <1>7 DEF Issue

\* And the owner's controls.
LEMMA ControlTypes ==
  ASSUME TypeOK, NEW c \in Cards, Control(c)
  PROVE  TypeOK'
<1>1. {"active", "frozen", "revoked", "nuked", "deleted"} \subseteq Statuses
  BY DEF Statuses
<1>2. status' \in [Cards -> Statuses]
  BY <1>1, StatusTypes DEF Control, Freeze, Unfreeze, RevokeSub, Delete
<1>3. UNCHANGED <<storedNonce, onChain, requests, issuing>>
  BY DEF Control, Freeze, Unfreeze, RevokeSub, Delete
<1> QED BY <1>2, <1>3 DEF TypeOK, onChain, requests, issuing

\* And what happens to an operation outside of the requests that finalize it.
LEMMA OpTypes ==
  ASSUME TypeOK, NEW o \in Ops, PrepareOp(o) \/ ForgetOp(o) \/ Land(o) \/ Drop(o)
  PROVE  TypeOK'
<1> USE DEF books, onChain, requests, issuing
<1>1. CASE PrepareOp(o)
  BY <1>1 DEF PrepareOp, TypeOK, EntryStates
<1>2. CASE ForgetOp(o)
  BY <1>2 DEF ForgetOp, TypeOK, EntryStates
<1>3. CASE Land(o)
  <2>1. fate' \in [Ops -> Fates]
    BY <1>3 DEF Land, TypeOK, Fates
  <2>2. chainNonce' \in Nat /\ disabled' \subseteq Roots
    BY <1>3 DEF Land, IsNuke, TypeOK
  <2> QED BY <1>3, <2>1, <2>2 DEF Land, TypeOK
<1>4. CASE Drop(o)
  BY <1>4 DEF Drop, TypeOK, Fates
<1> QED BY <1>1, <1>2, <1>3, <1>4

\* Where a finalize request goes, and its claim.
LEMMA GotoTypes ==
  ASSUME TypeOK, NEW f \in Calls, NEW l \in PcStates
  PROVE  /\ Goto(f, l) => pc' \in [Calls -> PcStates]
         /\ Leave(f) => pc' \in [Calls -> PcStates] /\ busy' \in [Ops -> BOOLEAN]
  BY DEF TypeOK, Goto, Leave, PcStates

\* And the finalize requests.
LEMMA RequestTypes ==
  ASSUME TypeOK, NEW f \in Calls, Enter(f) \/ TurnedAway(f) \/ StartDirect(f) \/ Proceed(f)
  PROVE  TypeOK'
<1> USE DEF books, onChain, issuing
<1>1. PcStates = {"idle", "verify", "loop", "confirm", "ask", "answer", "done"}
  BY DEF PcStates
<1>2. CASE Enter(f)
  BY <1>1, <1>2, GotoTypes DEF Enter, TypeOK
<1>3. CASE TurnedAway(f)
  BY <1>1, <1>3, GotoTypes DEF TurnedAway, TypeOK
<1>4. CASE StartDirect(f)
  BY <1>1, <1>4, GotoTypes DEF StartDirect, TypeOK
<1>5. CASE BadSignature(f) \/ LoopThrows(f) \/ NotConfirmed(f)
  BY <1>1, <1>5, GotoTypes DEF BadSignature, LoopThrows, NotConfirmed, TypeOK
<1>6. CASE Validated(f)
  <2>1. pc' \in [Calls -> PcStates] /\ busy' \in [Ops -> BOOLEAN]
    BY <1>1, <1>6, GotoTypes DEF Validated, TypeOK
  <2> QED BY <1>6, <2>1 DEF Validated, TypeOK, EntryStates
<1>7. CASE Send(f)
  <2>1. pc' \in [Calls -> PcStates] /\ busy' \in [Ops -> BOOLEAN]
    BY <1>1, <1>7, GotoTypes DEF Send, TypeOK
  <2>2. sends' \in [Ops -> Nat]
    BY <1>7 DEF Send, TypeOK
  <2>3. fate' \in [Ops -> Fates]
    BY <1>7 DEF Send, TypeOK, Fates
  <2> QED BY <1>7, <2>1, <2>2, <2>3 DEF Send, TypeOK
<1>8. CASE BookRevoke(f)
  <2>1. status' \in [Cards -> Statuses]
    BY <1>8, StatusTypes DEF BookRevoke, Statuses
  <2> QED BY <1>1, <1>8, <2>1, GotoTypes DEF BookRevoke, TypeOK
<1>9. CASE BookNuke(f)
  <2>1. status' \in [Cards -> Statuses]
    BY <1>9, StatusTypes DEF BookNuke, Statuses
  <2> QED BY <1>1, <1>9, <2>1, GotoTypes DEF BookNuke, TypeOK
<1>10. CASE ReadNonce(f)
  BY <1>1, <1>10, GotoTypes DEF ReadNonce, TypeOK
<1>11. CASE StoreNonce(f)
  <2>1. storedNonce' \in Nat
    BY <1>11 DEF StoreNonce, TypeOK
  <2> QED BY <1>1, <1>11, <2>1, GotoTypes DEF StoreNonce, TypeOK
<1> QED BY <1>2, <1>3, <1>4, <1>5, <1>6, <1>7, <1>8, <1>9, <1>10, <1>11 DEF Proceed

\* Every step keeps the types.
LEMMA NextTypes ==
  ASSUME TypeOK, [Next]_vars
  PROVE  TypeOK'
<1>1. CASE UNCHANGED vars
  BY <1>1 DEF vars, books, onChain, requests, issuing, TypeOK
<1>2. CASE Next
  BY <1>2, IssueTypes, ControlTypes, OpTypes, RequestTypes DEF Next
<1> QED BY <1>1, <1>2

-----------------------------------------------------------------------------
(* One request per entry, and one send.                                    *)

\* A step that leaves the requests and the chain alone keeps the claims.
LEMMA QuietClaims ==
  ASSUME Exclusive, ConsumedBeforeSent, SignedLeafSentOnce, UNCHANGED requests
  PROVE  Exclusive' /\ ConsumedBeforeSent' /\ SignedLeafSentOnce'
  BY DEF requests, Exclusive, ConsumedBeforeSent, SignedLeafSentOnce, Holds

\* Preparing an operation, and the end of its entry's two minutes.
LEMMA EntryClaims ==
  ASSUME TypeOK, Exclusive, ConsumedBeforeSent, SignedLeafSentOnce,
         NEW o \in Ops, PrepareOp(o) \/ ForgetOp(o)
  PROVE  Exclusive' /\ ConsumedBeforeSent' /\ SignedLeafSentOnce'
<1>1. UNCHANGED <<busy, pc, sends>>
  BY DEF PrepareOp, ForgetOp
<1>2. \A p \in Ops : entry'[p] # entry[p] => p = o /\ entry[p] # "gone"
  BY DEF PrepareOp, ForgetOp, TypeOK
<1> QED BY <1>1, <1>2 DEF Exclusive, ConsumedBeforeSent, SignedLeafSentOnce, Holds, TypeOK

\* A request that ends lets go of an entry nobody else held.
LEMMA LeaveClaims ==
  ASSUME TypeOK, Exclusive, NEW f \in Calls, pc[f] \notin {"idle", "done"}, Leave(f)
  PROVE  /\ Exclusive'
         /\ \A g \in Calls : Holds(g)' => Holds(g) /\ g # f /\ pc'[g] = pc[g]
<1>1. \A g \in Calls : pc'[g] = IF g = f THEN "done" ELSE pc[g]
  BY DEF Leave, Goto, TypeOK
<1>2. \A o \in Ops : busy'[o] = IF o = CallOf[f] THEN FALSE ELSE busy[o]
  BY DEF Leave, TypeOK
<1>3. \A g \in Calls : Holds(g)' => Holds(g) /\ g # f /\ pc'[g] = pc[g]
  BY <1>1 DEF Holds
<1>4. \A g \in Calls : Holds(g)' => CallOf[g] # CallOf[f]
  BY <1>1, <1>3 DEF Holds, Exclusive
<1> QED BY <1>2, <1>3, <1>4 DEF Exclusive

\* The requests themselves.
LEMMA RequestClaims ==
  ASSUME TypeOK, Exclusive, ConsumedBeforeSent, SignedLeafSentOnce,
         NEW f \in Calls, Enter(f) \/ TurnedAway(f) \/ StartDirect(f) \/ Proceed(f)
  PROVE  Exclusive' /\ ConsumedBeforeSent' /\ SignedLeafSentOnce'
<1> DEFINE Quiet == UNCHANGED <<entry, sends>>
<1>1. ASSUME NEW l \in PcStates, Goto(f, l)
      PROVE  \A g \in Calls : pc'[g] = IF g = f THEN l ELSE pc[g]
  BY <1>1 DEF Goto, TypeOK
<1>2. ASSUME Leave(f), Quiet, pc[f] \notin {"idle", "done"}
      PROVE  Exclusive' /\ ConsumedBeforeSent' /\ SignedLeafSentOnce'
  BY <1>2, LeaveClaims DEF ConsumedBeforeSent, SignedLeafSentOnce
<1>3. ASSUME NEW l \in PcStates, Goto(f, l), Quiet, UNCHANGED busy,
             pc[f] \in {"confirm", "ask"}, l \in {"ask", "answer"}
      PROVE  Exclusive' /\ ConsumedBeforeSent' /\ SignedLeafSentOnce'
  BY <1>1, <1>3 DEF Exclusive, ConsumedBeforeSent, SignedLeafSentOnce, Holds
<1>4. CASE Enter(f)
  <2>1. \A g \in Calls : pc'[g] = IF g = f THEN "verify" ELSE pc[g]
    BY <1>1, <1>4 DEF Enter, PcStates
  <2>2. /\ ~busy[CallOf[f]] /\ entry[CallOf[f]] = "held"
        /\ \A o \in Ops : busy'[o] = IF o = CallOf[f] THEN TRUE ELSE busy[o]
    BY <1>4 DEF Enter, Claimable, TypeOK
  <2>3. Exclusive'
    BY <2>1, <2>2 DEF Exclusive, Holds
  <2> QED BY <1>4, <2>1, <2>2, <2>3 DEF Enter, Exclusive, ConsumedBeforeSent, SignedLeafSentOnce, Holds
<1>5. CASE TurnedAway(f)
  <2>1. \A g \in Calls : pc'[g] = IF g = f THEN "done" ELSE pc[g]
    BY <1>1, <1>5 DEF TurnedAway, PcStates
  <2> QED BY <1>5, <2>1 DEF TurnedAway, Exclusive, ConsumedBeforeSent, SignedLeafSentOnce, Holds
<1>6. CASE StartDirect(f)
  <2>1. \A g \in Calls : Holds(g)' => Holds(g) /\ pc'[g] = pc[g]
    BY <1>1, <1>6 DEF StartDirect, PcStates, Holds
  <2> QED BY <1>6, <2>1 DEF StartDirect, Exclusive, ConsumedBeforeSent, SignedLeafSentOnce
<1>7. CASE BadSignature(f) \/ LoopThrows(f) \/ NotConfirmed(f) \/ BookRevoke(f) \/ StoreNonce(f)
  BY <1>2, <1>7 DEF BadSignature, LoopThrows, NotConfirmed, BookRevoke, StoreNonce
<1>8. CASE Validated(f)
  <2>1. \A o \in Ops : entry'[o] = IF o = CallOf[f] THEN "gone" ELSE entry[o]
    BY <1>8 DEF Validated, TypeOK
  <2>2. pc[f] = "verify" /\ UNCHANGED sends
    BY <1>8 DEF Validated
  <2>3. CASE Leave(f)
    BY <2>1, <2>2, <2>3, LeaveClaims DEF ConsumedBeforeSent, SignedLeafSentOnce
  <2>4. CASE Goto(f, "loop") /\ UNCHANGED busy
    <3>1. \A g \in Calls : pc'[g] = IF g = f THEN "loop" ELSE pc[g]
      BY <1>1, <2>4 DEF PcStates
    <3>2. Exclusive'
      BY <2>2, <2>4, <3>1 DEF Exclusive, Holds
    <3> QED BY <2>1, <2>2, <3>1, <3>2 DEF ConsumedBeforeSent, SignedLeafSentOnce, Holds
  <2> QED BY <1>8, <2>3, <2>4 DEF Validated
<1>9. CASE Send(f)
  <2>1. \A o \in Ops : sends'[o] = IF o = CallOf[f] THEN sends[o] + 1 ELSE sends[o]
    BY <1>9 DEF Send, TypeOK
  <2>2. pc[f] = "loop" /\ UNCHANGED entry
    BY <1>9 DEF Send
  <2>3. CallOf[f] \notin Direct =>
          /\ sends[CallOf[f]] = 0 /\ entry[CallOf[f]] = "gone"
          /\ \A g \in Calls : Holds(g) /\ CallOf[g] = CallOf[f] => g = f
    BY <2>2 DEF Exclusive, ConsumedBeforeSent, Holds
  <2>4. SignedLeafSentOnce'
    BY <2>1, <2>3 DEF SignedLeafSentOnce
  <2>5. CASE Leave(f)
    BY <2>1, <2>2, <2>3, <2>4, <2>5, LeaveClaims DEF ConsumedBeforeSent, Holds
  <2>6. CASE Goto(f, "confirm") /\ UNCHANGED busy
    <3>1. \A g \in Calls : pc'[g] = IF g = f THEN "confirm" ELSE pc[g]
      BY <1>1, <2>6 DEF PcStates
    <3>2. Exclusive'
      BY <2>2, <2>6, <3>1 DEF Exclusive, Holds
    <3> QED BY <2>1, <2>2, <2>3, <2>4, <3>1, <3>2 DEF ConsumedBeforeSent, Holds
  <2> QED BY <1>9, <2>5, <2>6 DEF Send
<1>10. CASE BookNuke(f)
  BY <1>3, <1>10 DEF BookNuke, PcStates
<1>11. CASE ReadNonce(f)
  BY <1>3, <1>11 DEF ReadNonce, PcStates
<1> QED BY <1>4, <1>5, <1>6, <1>7, <1>8, <1>9, <1>10, <1>11 DEF Proceed

-----------------------------------------------------------------------------
(* The books follow the chain.                                             *)

\* Steps that neither revoke a card nor end or start a redemption.
LEMMA QuietChain ==
  ASSUME TypeOK, LandedDisabled, RevokedIsDisabled, disabled \subseteq disabled',
         \A o \in Ops : fate'[o] = "landed" => fate[o] = "landed",
         \A c \in Roots : status'[c] = "revoked" => status[c] = "revoked"
  PROVE  LandedDisabled' /\ RevokedIsDisabled'
  BY DEF LandedDisabled, RevokedIsDisabled, IsNuke

\* Cards are issued and controlled without a root becoming revoked.
LEMMA OwnerChain ==
  ASSUME TypeOK, LandedDisabled, RevokedIsDisabled, NEW c \in Cards, Issue(c) \/ Control(c)
  PROVE  LandedDisabled' /\ RevokedIsDisabled'
<1>1. UNCHANGED <<disabled, fate>>
  BY DEF Issue, Control, AskNonce, PrepareRoot, FinalizeRoot, ForgetRoot, StartSub, EndSub,
         Freeze, Unfreeze, RevokeSub, Delete, onChain
<1>2. CASE RevokeSub(c)
  <2>1. Subtree(c) \cap Roots = {}
    BY <1>2 DEF RevokeSub, Subtree, Roots
  <2> QED BY <1>1, <1>2, <2>1, QuietChain DEF RevokeSub, SetStatus, Roots
<1>3. CASE ~RevokeSub(c)
  <2>1. \A d \in Cards : status'[d] = "revoked" => status[d] = "revoked"
    BY <1>3 DEF Issue, Control, AskNonce, PrepareRoot, FinalizeRoot, ForgetRoot, StartSub,
                EndSub, Freeze, Unfreeze, Delete, SetStatus, books
  <2> QED BY <1>1, <2>1, QuietChain DEF Roots
<1> QED BY <1>2, <1>3

\* Operations on their way.
LEMMA OpChain ==
  ASSUME TypeOK, LandedDisabled, RevokedIsDisabled,
         NEW o \in Ops, PrepareOp(o) \/ ForgetOp(o) \/ Land(o) \/ Drop(o)
  PROVE  LandedDisabled' /\ RevokedIsDisabled'
<1>1. CASE PrepareOp(o) \/ ForgetOp(o)
  BY <1>1, QuietChain DEF PrepareOp, ForgetOp, books, onChain
<1>2. CASE Land(o)
  <2>1. \A p \in Ops : fate'[p] = IF p = o THEN "landed" ELSE fate[p]
    BY <1>2 DEF Land, TypeOK
  <2>2. disabled \subseteq disabled' /\ (~IsNuke(o) => Target[o] \in disabled') /\ UNCHANGED status
    BY <1>2 DEF Land, books
  <2> QED BY <2>1, <2>2 DEF LandedDisabled, RevokedIsDisabled, IsNuke
<1>3. CASE Drop(o)
  <2>1. \A p \in Ops : fate'[p] = IF p = o THEN "dropped" ELSE fate[p]
    BY <1>3 DEF Drop, TypeOK
  <2> QED BY <1>3, <2>1, QuietChain DEF Drop, books
<1> QED BY <1>1, <1>2, <1>3

\* A root is marked revoked by a request whose redemption landed.
LEMMA RequestChain ==
  ASSUME TypeOK, LandedDisabled, RevokedIsDisabled,
         NEW f \in Calls, Enter(f) \/ TurnedAway(f) \/ StartDirect(f) \/ Proceed(f)
  PROVE  LandedDisabled' /\ RevokedIsDisabled'
<1>1. CASE BookRevoke(f)
  <2>1. UNCHANGED <<disabled, fate>> /\ Target[CallOf[f]] \in disabled
    BY <1>1 DEF BookRevoke, Confirms, LandedDisabled, onChain
  <2>2. Subtree(Target[CallOf[f]]) \cap Roots \subseteq {Target[CallOf[f]]}
    BY <1>1 DEF BookRevoke, IsNuke, Subtree, Roots
  <2>3. \A c \in Roots : status'[c] = "revoked" => c = Target[CallOf[f]] \/ status[c] = "revoked"
    BY <1>1, <2>2 DEF BookRevoke, SetStatus, Roots
  <2> QED BY <2>1, <2>3 DEF LandedDisabled, RevokedIsDisabled, IsNuke
<1>2. CASE BookNuke(f)
  BY <1>2, QuietChain DEF BookNuke, SetStatus, onChain, Roots
<1>3. CASE Send(f)
  <2>1. \A p \in Ops : fate'[p] = IF p = CallOf[f] THEN "inflight" ELSE fate[p]
    BY <1>3 DEF Send, TypeOK
  <2> QED BY <1>3, <2>1, QuietChain DEF Send, books
<1>4. CASE ~(BookRevoke(f) \/ BookNuke(f) \/ Send(f))
  <2>1. UNCHANGED <<status, disabled, fate>>
    BY <1>4 DEF Enter, TurnedAway, StartDirect, Proceed, BadSignature, Validated, LoopThrows,
                NotConfirmed, ReadNonce, StoreNonce, books, onChain
  <2> QED BY <2>1, QuietChain
<1> QED BY <1>1, <1>2, <1>3, <1>4

-----------------------------------------------------------------------------
(* The theorems.                                                           *)

\* At the start no card is issued and no operation prepared.
LEMMA InitInvariant == Init => IInv
  BY DEF Init, IInv, TypeOK, Exclusive, ConsumedBeforeSent, SignedLeafSentOnce, LandedDisabled,
         RevokedIsDisabled, Holds, Statuses, IssueStates, EntryStates, PcStates, Fates, Roots

\* Every step keeps the invariant.
LEMMA NextInvariant == IInv /\ [Next]_vars => IInv'
<1> SUFFICES ASSUME IInv, [Next]_vars PROVE IInv'
  OBVIOUS
<1>1. TypeOK /\ TypeOK'
  BY NextTypes DEF IInv
<1>2. CASE UNCHANGED vars
  <2>1. Exclusive' /\ ConsumedBeforeSent' /\ SignedLeafSentOnce'
    BY <1>2, QuietClaims DEF IInv, vars
  <2>2. LandedDisabled' /\ RevokedIsDisabled'
    BY <1>1, <1>2, QuietChain DEF IInv, vars, books, onChain
  <2> QED BY <1>1, <2>1, <2>2 DEF IInv
<1>3. ASSUME NEW c \in Cards, Issue(c) \/ Control(c) PROVE IInv'
  <2>1. UNCHANGED requests
    BY <1>3 DEF Issue, Control, AskNonce, PrepareRoot, FinalizeRoot, ForgetRoot, StartSub, EndSub,
                Freeze, Unfreeze, RevokeSub, Delete
  <2> QED BY <1>1, <1>3, <2>1, QuietClaims, OwnerChain DEF IInv
<1>4. ASSUME NEW o \in Ops, PrepareOp(o) \/ ForgetOp(o) \/ Land(o) \/ Drop(o) PROVE IInv'
  <2>1. CASE PrepareOp(o) \/ ForgetOp(o)
    BY <1>1, <2>1, EntryClaims, OpChain DEF IInv
  <2>2. CASE Land(o) \/ Drop(o)
    <3>1. UNCHANGED requests
      BY <2>2 DEF Land, Drop
    <3> QED BY <1>1, <2>2, <3>1, QuietClaims, OpChain DEF IInv
  <2> QED BY <1>4, <2>1, <2>2
<1>5. ASSUME NEW f \in Calls, Enter(f) \/ TurnedAway(f) \/ StartDirect(f) \/ Proceed(f) PROVE IInv'
  BY <1>1, <1>5, RequestClaims, RequestChain DEF IInv
<1> QED BY <1>2, <1>3, <1>4, <1>5 DEF Next

LEMMA Invariant == Spec => []IInv
  BY InitInvariant, NextInvariant, PTL DEF Spec

\* The state has the shape declared: a card's status, a request's place in its handler,
\* the entry it works on, the fate of a redemption.
THEOREM CardsTypes == Spec => []TypeOK
<1>1. IInv => TypeOK
  BY DEF IInv
<1> QED BY <1>1, Invariant, PTL

\* However many requests finalize an operation, at once or after bad signatures, its
\* signed leaf reaches the relayer at most once.
THEOREM LeafSentOnce == Spec => []SignedLeafSentOnce
<1>1. IInv => SignedLeafSentOnce
  BY DEF IInv
<1> QED BY <1>1, Invariant, PTL

\* A root the books call revoked has its delegation disabled on the chain.
THEOREM RevokedForSure == Spec => []RevokedIsDisabled
<1>1. IInv => RevokedIsDisabled
  BY DEF IInv
<1> QED BY <1>1, Invariant, PTL

\* A deletion takes no card along that can still spend.
THEOREM LiveStay == Spec => LiveNeverDeleted
<1> DEFINE Kept == \A c \in Cards : status'[c] = "deleted" => ~Alive(c)
<1>1. ASSUME TypeOK, [Next]_vars PROVE [Kept]_vars
  <2>1. CASE UNCHANGED vars
    BY <2>1
  <2>2. ASSUME NEW c \in Cards, Delete(c) PROVE Kept
    BY <2>2 DEF Delete, DeletableTree, SetStatus, Subtree, Dead, Alive
  <2>3. ASSUME NEW c \in Cards, Issue(c) \/ Control(c), ~Delete(c) PROVE Kept
    BY <2>3 DEF Issue, Control, AskNonce, PrepareRoot, FinalizeRoot, ForgetRoot, StartSub, EndSub,
                Freeze, Unfreeze, RevokeSub, SetStatus, Alive, books
  <2>4. ASSUME NEW o \in Ops, PrepareOp(o) \/ ForgetOp(o) \/ Land(o) \/ Drop(o) PROVE Kept
    BY <2>4 DEF PrepareOp, ForgetOp, Land, Drop, Alive, books
  <2>5. ASSUME NEW f \in Calls, Enter(f) \/ TurnedAway(f) \/ StartDirect(f) \/ Proceed(f) PROVE Kept
    <3>1. \A c \in Cards : status'[c] \in {status[c], "revoked", "nuked"}
      BY <2>5 DEF Enter, TurnedAway, StartDirect, Proceed, BadSignature, Validated, LoopThrows,
                  NotConfirmed, Send, BookRevoke, BookNuke, ReadNonce, StoreNonce, SetStatus, books
    <3> QED BY <3>1 DEF Alive
  <2> QED BY <1>1, <2>1, <2>2, <2>3, <2>4, <2>5 DEF Next
<1>2. IInv => TypeOK
  BY DEF IInv
<1> QED BY <1>1, <1>2, Invariant, PTL DEF Spec, LiveNeverDeleted
=============================================================================
