-------------------------------- MODULE OAuth --------------------------------
(***************************************************************************)
(* OAuth grants on cards (server/src/oauth/store.ts, oauth/routes.ts, the  *)
(* consent routes of api/routes.ts): a client's request is approved by a   *)
(* user for one card, the code of the approval is redeemed for an access   *)
(* and a refresh token, and a refresh rotates both.                        *)
(*                                                                         *)
(* Every handler is synchronous once its body is read, so each is one      *)
(* step; only the cascade of an owner's kill comes after awaits.  Codes    *)
(* and tokens are bearer values: whoever holds one presents it, as often   *)
(* as he likes.  A request and the code it turns into share a name.        *)
(***************************************************************************)
EXTENDS Integers

CONSTANTS
  Requests,    \* authorization requests
  Tokens,      \* token rows that may be minted
  Users, Cards,
  OwnerOf,     \* OwnerOf[c]: the user whose card c is
  Managers,    \* Managers[c]: that user, and whoever is an admin of c's team at some time
  ParentOf,    \* ParentOf[c]: c's parent card, or None
  RequestTtl, CodeTtl, RefreshTtl,
  Grace,       \* how long elapsed rows and codes are kept
  MaxNow,      \* bound: the clock stops here
  None

CodeType == [card : Cards, until : Nat, used : BOOLEAN]
TokenType == [card : Cards, family : Tokens, code : Requests \cup {None}, revoked : BOOLEAN,
              refreshUntil : Nat]

ASSUME OAuthAssumption ==
  /\ None \notin Users \cup Cards \cup Requests \cup Tokens
  /\ None \notin CodeType /\ None \notin TokenType
  /\ Requests \cap Tokens = {}
  /\ OwnerOf \in [Cards -> Users]
  /\ Managers \in [Cards -> SUBSET Users] /\ \A c \in Cards : OwnerOf[c] \in Managers[c]
  /\ ParentOf \in [Cards -> Cards \cup {None}]
  /\ {RequestTtl, CodeTtl, RefreshTtl, Grace, MaxNow} \subseteq Nat

VARIABLES
  now,
  request,   \* oauth_requests: user bound (or None) and deadline
  code,      \* oauth_codes: card, deadline, used
  token,     \* oauth_tokens
  card,      \* cards.status
  due,       \* cards an owner killed whose tokens are yet to be revoked
  honoured,  \* history: codes and refresh tokens answered with new tokens
  replayed,  \* history: those presented again within their time
  swept      \* history: cards whose cascade has run

grants == <<request, code, token>>
history == <<honoured, replayed>>
controls == <<card, due, swept>>
vars == <<now, grants, controls, history>>

Phases == {"new", "open", "gone"}
Dead == {"revoked", "nuked", "deleted"}

Init ==
  /\ now = 0
  /\ request = [r \in Requests |-> [phase |-> "new", user |-> None, until |-> 0]]
  /\ code = [r \in Requests |-> None]
  /\ token = [t \in Tokens |-> None]
  /\ card = [c \in Cards |-> "active"]
  /\ due = {} /\ honoured = {} /\ replayed = {} /\ swept = {}

Subtree(c) == {d \in Cards : d = c \/ ParentOf[d] = c}
Rows == {t \in Tokens : token[t] # None}
Codes == {r \in Requests : code[r] # None}

-----------------------------------------------------------------------------
(* Consent.                                                                *)

Elapsed(r) == request[r].phase = "open" /\ request[r].until < now

\* GET /authorize; elapsed requests go.
Authorize(r) ==
  /\ request[r].phase = "new"
  /\ request' = [q \in Requests |->
       IF q = r THEN [phase |-> "open", user |-> None, until |-> now + RequestTtl]
       ELSE IF Elapsed(q) THEN [request[q] EXCEPT !.phase = "gone"] ELSE request[q]]
  /\ UNCHANGED <<now, code, token, controls, history>>

\* The first user to load a request has it to himself.
Owned(r, u) ==
  /\ request[r].phase = "open" /\ ~Elapsed(r)
  /\ request[r].user \in {None, u}

\* GET /oauth/request, and an approval refused for its card.
Load(r, u) ==
  /\ Owned(r, u)
  /\ request' = [request EXCEPT ![r].user = u]
  /\ UNCHANGED <<now, code, token, controls, history>>

Close(r, u) == request' = [request EXCEPT ![r].user = u, ![r].phase = "gone"]

\* The card is live and the user's to manage; the request turns into a code, old codes go.
\* Memberships of a team come and go: whether an admin is one when he asks is left open.
Approve(r, u, c) ==
  /\ Owned(r, u) /\ u \in Managers[c] /\ card[c] \notin Dead
  /\ Close(r, u)
  /\ code' = [q \in Requests |->
       IF q = r THEN [card |-> c, until |-> now + CodeTtl, used |-> FALSE]
       ELSE IF q \in Codes /\ code[q].until < now - Grace THEN None ELSE code[q]]
  /\ UNCHANGED <<now, token, controls, history>>

Deny(r, u) ==
  /\ Owned(r, u) /\ Close(r, u)
  /\ UNCHANGED <<now, code, token, controls, history>>

-----------------------------------------------------------------------------
(* The token endpoint.                                                     *)

\* Rows collected at a mint: only those whose refresh window is over.
Reaped == {t \in Rows : token[t].refreshUntil < now - Grace}

NewToken(c, family, from) ==
  [card |-> c, family |-> family, code |-> from, revoked |-> FALSE,
   refreshUntil |-> now + RefreshTtl]

Revoked(rows) ==
  [t \in Tokens |-> IF t \in rows THEN [token[t] EXCEPT !.revoked = TRUE] ELSE token[t]]

\* createToken, with the rows `ended` claimed before it: a name is used for one row only.
Mint(t, row, ended) ==
  token' = [s \in Tokens |-> IF s = t THEN row
                             ELSE IF s \in Reaped THEN None ELSE Revoked(ended)[s]]

Unused(t) == token[t] = None /\ t \notin honoured

OfCode(r) == {t \in Rows : token[t].code = r}
OfFamily(f) == {t \in Rows : token[t].family = f}

\* Mutant of Grantable: the card is not looked at again.
GrantableAlways(c) == TRUE

Grantable(c) == card[c] \notin Dead

\* The code is good and its card still live.
Redeem(r, t) ==
  /\ r \in Codes /\ code[r].until >= now /\ ~code[r].used
  /\ Grantable(code[r].card) /\ Unused(t)
  /\ code' = [code EXCEPT ![r].used = TRUE]
  /\ Mint(t, NewToken(code[r].card, t, r), {})
  /\ honoured' = honoured \cup {r}
  /\ UNCHANGED <<now, request, controls, replayed>>

\* A redeemed code comes back within its time.
ReplayCode(r) ==
  /\ r \in Codes /\ code[r].until >= now /\ code[r].used
  /\ token' = Revoked(OfCode(r))
  /\ replayed' = replayed \cup ({r} \cap honoured)
  /\ UNCHANGED <<now, request, code, controls, honoured>>

\* Mutant of Claimed: the rotated row stays as it was.
ClaimedNot(t) == {}

\* claimForRotation: the row whose refresh token was presented is revoked.
Claimed(t) == {t}

\* Mutant of Successor: the new row does not say which code it comes from.
SuccessorUnlinked(t) == NewToken(token[t].card, token[t].family, None)

Successor(t) == NewToken(token[t].card, token[t].family, token[t].code)

Refresh(t, s) ==
  /\ t \in Rows /\ ~token[t].revoked /\ token[t].refreshUntil >= now
  /\ card[token[t].card] \notin Dead /\ Unused(s)
  /\ Mint(s, Successor(t), Claimed(t))
  /\ honoured' = honoured \cup {t}
  /\ UNCHANGED <<now, request, code, controls, replayed>>

\* A refresh token is presented that was rotated or revoked, or whose card is dead.
ReplayRefresh(t) ==
  /\ t \in Rows
  /\ \/ token[t].revoked
     \/ token[t].refreshUntil >= now /\ card[token[t].card] \in Dead
  /\ token' = Revoked(OfFamily(token[t].family))
  /\ replayed' = replayed \cup ({t} \cap honoured)
  /\ UNCHANGED <<now, request, code, controls, honoured>>

\* POST /revoke with either half of a token.
RevokeGrant(t) ==
  /\ t \in Rows
  /\ token' = Revoked(OfFamily(token[t].family))
  /\ UNCHANGED <<now, request, code, controls, history>>

-----------------------------------------------------------------------------
(* The card and its owner.                                                 *)

MarkCards(cs, s) == card' = [c \in Cards |-> IF c \in cs THEN s ELSE card[c]]
Present(cs) == {c \in cs : card[c] # "deleted"}

Freeze(c) ==
  /\ card[c] = "active" /\ MarkCards({c}, "frozen")
  /\ UNCHANGED <<now, grants, due, swept, history>>

Unfreeze(c) ==
  /\ card[c] = "frozen" /\ MarkCards({c}, "active")
  /\ UNCHANGED <<now, grants, due, swept, history>>

\* An owner's revoke is booked; the cascade comes when the request resumes.
Revoke(c) ==
  /\ card[c] \in {"active", "frozen"}
  /\ MarkCards(Present(Subtree(c)), "revoked")
  /\ due' = due \cup Present(Subtree(c))
  /\ UNCHANGED <<now, grants, swept, history>>

Nuke(u) ==
  /\ LET mine == Present({c \in Cards : OwnerOf[c] = u})
     IN  MarkCards(mine, "nuked") /\ due' = due \cup mine
  /\ UNCHANGED <<now, grants, swept, history>>

\* The revoke_subcard tool: the books only.
AgentRevoke(c) ==
  /\ ParentOf[c] # None /\ card[c] # "deleted"
  /\ MarkCards(Present(Subtree(c)), "revoked")
  /\ UNCHANGED <<now, grants, due, swept, history>>

OfCards(cs) == {t \in Rows : token[t].card \in cs}

\* cascadeRevokeTokens, cascadeRevokeUserTokens.
Cascade ==
  /\ due # {} /\ due' = {}
  /\ token' = Revoked(OfCards(due))
  /\ swept' = swept \cup due
  /\ UNCHANGED <<now, request, code, card, history>>

\* A dead tree is deleted, its tokens with it.
Delete(c) ==
  /\ card[c] # "deleted" /\ \A d \in Subtree(c) : card[d] \in Dead
  /\ MarkCards(Subtree(c), "deleted")
  /\ token' = Revoked(OfCards(Subtree(c)))
  /\ swept' = swept \cup Subtree(c)
  /\ UNCHANGED <<now, request, code, due, history>>

\* The process restarts: the database stays, a cascade still due does not.
Crash ==
  /\ due # {} /\ due' = {}
  /\ UNCHANGED <<now, grants, card, swept, history>>

Tick ==
  /\ now < MaxNow /\ now' = now + 1
  /\ UNCHANGED <<grants, controls, history>>

-----------------------------------------------------------------------------
Consent(r) ==
  \/ Authorize(r)
  \/ \E u \in Users : Load(r, u) \/ Deny(r, u) \/ \E c \in Cards : Approve(r, u, c)

TokenEndpoint ==
  \/ \E r \in Requests : ReplayCode(r) \/ \E t \in Tokens : Redeem(r, t)
  \/ \E t \in Tokens : ReplayRefresh(t) \/ RevokeGrant(t) \/ \E s \in Tokens : Refresh(t, s)

Control ==
  \/ \E c \in Cards : Freeze(c) \/ Unfreeze(c) \/ Revoke(c) \/ AgentRevoke(c) \/ Delete(c)
  \/ \E u \in Users : Nuke(u)
  \/ Cascade \/ Crash

Next == (\E r \in Requests : Consent(r)) \/ TokenEndpoint \/ Control \/ Tick

Spec == Init /\ [][Next]_vars

-----------------------------------------------------------------------------
(* Properties.                                                             *)

RequestType == [phase : Phases, user : Users \cup {None}, until : Nat]

TypeOK ==
  /\ now \in Nat
  /\ request \in [Requests -> RequestType]
  /\ code \in [Requests -> CodeType \cup {None}]
  /\ token \in [Tokens -> TokenType \cup {None}]
  /\ card \in [Cards -> {"active", "frozen"} \cup Dead]
  /\ due \subseteq Cards /\ swept \subseteq Cards
  /\ honoured \subseteq Requests \cup Tokens
  /\ replayed \subseteq honoured

\* "Atomic single-use claim" of the code and "Atomic rotation claim" of the refresh token
\* (oauth/store.ts 260-263, 377-379): however often, and by however many holders, a code
\* and the refresh tokens that follow from it are presented, one approval never has two
\* token rows alive.
OneLiveTokenPerApproval ==
  \A r \in Requests : \A s, t \in OfCode(r) : ~token[s].revoked /\ ~token[t].revoked => s = t

\* "a redeemed code presented again is a theft signal: kill what it minted" and "a
\* rotated-out refresh token coming back = replay; the whole family dies" (oauth/routes.ts
\* 317, 370): once either happened no token of the grant is alive, nor ever will be,
\* whichever of the two holders was quicker.
ReplayKillsGrant ==
  \A s, t \in Rows : (s \in replayed \/ token[s].code \in replayed)
                     /\ token[s].family = token[t].family => token[t].revoked

\* "a card revoked/nuked/expired during the ~120s code TTL must not mint a fresh-looking
\* credential" (oauth/routes.ts 335-336), "no live-looking rows for a dead card"
\* (oauth/store.ts 276-278): after a cascade no row of the card is alive, whatever codes
\* and refresh tokens were still in the air when it ran.
CascadeIsFinal == \A t \in Rows : token[t].card \in swept => token[t].revoked
=============================================================================
