----------------------------- MODULE OAuthProofs -----------------------------
(***************************************************************************)
(* What module OAuth promises, proved for every number of requests, token  *)
(* rows, users and cards, every length of time and every order of          *)
(* presentations, rotations, kills, cascades and restarts.                 *)
(***************************************************************************)
EXTENDS OAuth, TLAPS

USE OAuthAssumption

-----------------------------------------------------------------------------
(* The inductive invariant.                                                *)

\* A request turns into at most one code, and until that code is redeemed no token row
\* and no replay knows of it.
CodesComeOnce ==
  \A r \in Requests :
    /\ request[r].phase # "gone" => code[r] = None
    /\ \/ request[r].phase # "gone"
       \/ code[r] # None /\ ~code[r].used
       => r \notin honoured /\ \A t \in Tokens : token[t] # None => token[t].code # r

\* A family is named for the row that founded it, which was rotated out if others are in
\* it; its rows come from one code, and a code founds one family.
FamiliesFollowCodes ==
  /\ \A t \in Tokens : token[t] # None =>
       /\ token[t].code # None
       /\ token[t].family = t \/ token[t].family \in honoured
  /\ \A s, t \in Tokens : token[s] # None /\ token[t] # None =>
       (token[s].family = token[t].family <=> token[s].code = token[t].code)

\* One live row to a family.
OneLiveRow ==
  \A s, t \in Tokens :
    /\ token[s] # None /\ token[t] # None /\ token[s].family = token[t].family
    /\ ~token[s].revoked /\ ~token[t].revoked
    => s = t

\* A family that a replay touched is dead.
ReplayedIsDead ==
  \A s, t \in Tokens :
    /\ token[s] # None /\ token[t] # None /\ token[s].family = token[t].family
    /\ s \in replayed \/ token[s].code \in replayed
    => token[t].revoked

\* A cascade is for dead cards, and leaves none of their rows alive.
SweptIsDead ==
  /\ \A c \in due \cup swept : card[c] \in Dead
  /\ \A t \in Tokens : token[t] # None /\ token[t].card \in swept => token[t].revoked

IInv ==
  TypeOK /\ CodesComeOnce /\ FamiliesFollowCodes /\ OneLiveRow /\ ReplayedIsDead /\ SweptIsDead

-----------------------------------------------------------------------------
(* What the steps do to the token table.                                   *)

\* A row afterwards: as before but for being revoked, or collected.
Kept(s) ==
  /\ token[s] # None /\ token'[s] # None
  /\ token'[s].card = token[s].card /\ token'[s].family = token[s].family
  /\ token'[s].code = token[s].code
  /\ token[s].revoked => token'[s].revoked

\* Rows are revoked, none is added: the table keeps its type, its families and codes.
LEMMA RevokedRows ==
  ASSUME TypeOK, NEW rows \in SUBSET Rows, token' = Revoked(rows)
  PROVE  /\ token' \in [Tokens -> TokenType \cup {None}]
         /\ \A s \in Tokens : token'[s] # None <=> token[s] # None
         /\ \A s \in Tokens : token'[s] # None => Kept(s)
         /\ \A s \in rows : token'[s].revoked
<1>1. rows \subseteq Tokens
  BY DEF Rows
<1>2. token \in [Tokens -> TokenType \cup {None}]
  BY DEF TypeOK
<1>3. ASSUME NEW s \in rows
      PROVE  /\ token'[s] \in TokenType /\ token'[s].revoked /\ token[s] # None
             /\ token'[s].card = token[s].card /\ token'[s].family = token[s].family
             /\ token'[s].code = token[s].code
  <2>1. token[s] \in TokenType
    BY <1>1, <1>2 DEF Rows
  <2>2. token'[s] = [token[s] EXCEPT !.revoked = TRUE]
    BY <1>1 DEF Revoked
  <2> QED BY <1>1, <2>1, <2>2 DEF TokenType, Rows
<1>4. \A s \in Tokens \ rows : token'[s] = token[s]
  BY DEF Revoked
<1>5. token' = [s \in Tokens |-> token'[s]]
  BY DEF Revoked
<1>6. \A s \in Tokens : token'[s] \in TokenType \cup {None}
  BY <1>2, <1>3, <1>4
<1>7. token' \in [Tokens -> TokenType \cup {None}]
  BY <1>5, <1>6
<1>8. \A s \in Tokens : token'[s] # None <=> token[s] # None
  BY <1>1, <1>3, <1>4
<1>9. \A s \in Tokens : token'[s] # None => Kept(s)
  BY <1>3, <1>4, <1>8 DEF Kept
<1> QED BY <1>3, <1>7, <1>8, <1>9

\* A row is added: the others are kept or collected, those that ended are revoked.
LEMMA MintedRows ==
  ASSUME TypeOK, NEW t \in Tokens, token[t] = None, NEW row \in TokenType,
         NEW ended \in SUBSET Rows, Mint(t, row, ended)
  PROVE  /\ token' \in [Tokens -> TokenType \cup {None}]
         /\ token'[t] = row
         /\ \A s \in Tokens \ {t} : token'[s] # None => Kept(s)
         /\ \A s \in ended : token'[s] # None => token'[s].revoked
<1>1. token \in [Tokens -> TokenType \cup {None}]
  BY DEF TypeOK
<1>2. token'[t] = row
  BY DEF Mint
<1>3. ended \subseteq Tokens /\ t \notin ended
  BY DEF Rows
<1>4. \A s \in Tokens \ {t} : s \in Reaped => token'[s] = None
  BY DEF Mint
<1>5. \A s \in ended : s \notin Reaped => token'[s] = [token[s] EXCEPT !.revoked = TRUE]
  BY <1>3 DEF Mint, Revoked
<1>6. \A s \in Tokens \ {t} : s \notin Reaped /\ s \notin ended => token'[s] = token[s]
  BY DEF Mint, Revoked
<1>7. ASSUME NEW s \in ended, token'[s] # None
      PROVE  token'[s] \in TokenType /\ token'[s].revoked /\ Kept(s)
  <2>1. token[s] \in TokenType /\ token[s] # None /\ s \notin Reaped
    BY <1>1, <1>3, <1>4, <1>7 DEF Rows
  <2>2. token'[s] = [token[s] EXCEPT !.revoked = TRUE]
    BY <1>5, <2>1
  <2> QED BY <1>7, <2>1, <2>2 DEF TokenType, Kept
<1>8. ASSUME NEW s \in Tokens \ {t}, s \notin ended, token'[s] # None
      PROVE  token'[s] \in TokenType /\ Kept(s)
  <2>1. token'[s] = token[s]
    BY <1>4, <1>6, <1>8
  <2> QED BY <1>1, <1>8, <2>1 DEF Kept
<1>9. token' = [s \in Tokens |-> token'[s]]
  BY DEF Mint
<1>10. \A s \in Tokens : token'[s] \in TokenType \cup {None}
  BY <1>2, <1>7, <1>8
<1>11. token' \in [Tokens -> TokenType \cup {None}]
  BY <1>9, <1>10
<1> QED BY <1>2, <1>3, <1>7, <1>8, <1>11

-----------------------------------------------------------------------------
LEMMA InitInvariant == Init => IInv
<1> SUFFICES ASSUME Init PROVE IInv
  OBVIOUS
<1>1. \A t \in Tokens : token[t] = None
  BY DEF Init
<1>2. \A r \in Requests : code[r] = None /\ r \notin honoured
  BY DEF Init
<1>3. TypeOK
  BY DEF Init, TypeOK, RequestType, Phases, Dead
<1>4. due \cup swept = {}
  BY DEF Init
<1> QED
  BY <1>1, <1>2, <1>3, <1>4
     DEF IInv, CodesComeOnce, FamiliesFollowCodes, OneLiveRow, ReplayedIsDead, SweptIsDead

\* A step that leaves tokens and history alone, keeps codes or lets them come once, and
\* brings no card back, keeps everything said of rows and cards.
LEMMA RowsUntouched ==
  ASSUME IInv, TypeOK', CodesComeOnce', UNCHANGED <<token, history, swept>>,
         \A c \in due' \cup swept : card'[c] \in Dead
  PROVE  IInv'
  BY DEF IInv, FamiliesFollowCodes, OneLiveRow, ReplayedIsDead, SweptIsDead, history

\* A step of the consent pages: only requests and codes change.
LEMMA ConsentKeeps ==
  ASSUME IInv, NEW r \in Requests, Consent(r)
  PROVE  IInv'
<1>1. TypeOK /\ CodesComeOnce
  BY DEF IInv
<1>2. \A q \in Requests : request[q] \in RequestType
  BY <1>1 DEF TypeOK
<1>3. \A c \in due \cup swept : card[c] \in Dead
  BY DEF IInv, SweptIsDead
<1>4. CASE Authorize(r)
  <2>1. \A q \in Requests : request'[q] = 
          IF q = r THEN [phase |-> "open", user |-> None, until |-> now + RequestTtl]
          ELSE IF Elapsed(q) THEN [request[q] EXCEPT !.phase = "gone"] ELSE request[q]
    BY <1>4 DEF Authorize
  <2>2. ASSUME NEW q \in Requests PROVE request'[q] \in RequestType
    <3>1. now + RequestTtl \in Nat
      BY <1>1 DEF TypeOK
    <3>2. [phase |-> "open", user |-> None, until |-> now + RequestTtl] \in RequestType
      BY <3>1 DEF RequestType, Phases
    <3>3. [request[q] EXCEPT !.phase = "gone"] \in RequestType
      BY <1>2 DEF RequestType, Phases
    <3> QED BY <1>2, <2>1, <3>2, <3>3
  <2>3. \A q \in Requests : request'[q].phase # "gone" => request[q].phase # "gone"
    BY <1>2, <1>4, <2>1 DEF RequestType, Authorize
  <2>4. request' = [q \in Requests |-> request'[q]]
    BY <1>4 DEF Authorize
  <2>5. TypeOK'
    BY <1>1, <1>4, <2>2, <2>4 DEF Authorize, TypeOK, controls, history
  <2>6. CodesComeOnce'
    BY <1>1, <1>4, <2>3 DEF Authorize, CodesComeOnce, controls, history
  <2> QED BY <1>3, <1>4, <2>5, <2>6, RowsUntouched DEF Authorize, controls
<1>5. ASSUME NEW u \in Users, Load(r, u) PROVE IInv'
  <2>1. \A q \in Requests : request'[q] \in RequestType /\ request'[q].phase = request[q].phase
    BY <1>1, <1>2, <1>5 DEF Load, RequestType, TypeOK
  <2>2. TypeOK'
    BY <1>1, <1>5, <2>1 DEF Load, TypeOK, controls, history
  <2>3. CodesComeOnce'
    BY <1>1, <1>5, <2>1 DEF Load, CodesComeOnce, controls, history
  <2> QED BY <1>3, <1>5, <2>2, <2>3, RowsUntouched DEF Load, controls
<1>6. ASSUME NEW u \in Users, Close(r, u)
      PROVE  /\ request' \in [Requests -> RequestType]
             /\ \A q \in Requests : request'[q].phase # "gone" => q # r /\ request[q].phase # "gone"
  <2>1. request' = [request EXCEPT ![r] = [[request[r] EXCEPT !.user = u] EXCEPT !.phase = "gone"]]
    BY <1>6 DEF Close
  <2>2. [[request[r] EXCEPT !.user = u] EXCEPT !.phase = "gone"] \in RequestType
    BY <1>2 DEF RequestType, Phases
  <2>3. [[request[r] EXCEPT !.user = u] EXCEPT !.phase = "gone"].phase = "gone"
    BY <1>2 DEF RequestType
  <2> QED BY <1>1, <2>1, <2>2, <2>3 DEF TypeOK
<1>7. ASSUME NEW u \in Users, Deny(r, u) PROVE IInv'
  <2>1. TypeOK'
    BY <1>1, <1>6, <1>7 DEF Deny, TypeOK, controls, history
  <2>2. CodesComeOnce'
    BY <1>1, <1>6, <1>7 DEF Deny, CodesComeOnce, controls, history
  <2> QED BY <1>3, <1>7, <2>1, <2>2, RowsUntouched DEF Deny, controls
<1>8. ASSUME NEW u \in Users, NEW c \in Cards, Approve(r, u, c) PROVE IInv'
  <2>1. \A q \in Requests : code'[q] =
          IF q = r THEN [card |-> c, until |-> now + CodeTtl, used |-> FALSE]
          ELSE IF q \in Codes /\ code[q].until < now - Grace THEN None ELSE code[q]
    BY <1>8 DEF Approve
  <2>2. code'[r] \in CodeType /\ ~code'[r].used /\ request[r].phase # "gone"
    BY <1>1, <1>8, <2>1 DEF CodeType, TypeOK, Approve, Owned
  <2>3. \A q \in Requests \ {r} : code'[q] = None \/ code'[q] = code[q]
    BY <2>1
  <2>4. code' = [q \in Requests |-> code'[q]]
    BY <1>8 DEF Approve
  <2>5. code' \in [Requests -> CodeType \cup {None}]
    BY <1>1, <2>2, <2>3, <2>4 DEF TypeOK
  <2>6. TypeOK'
    BY <1>1, <1>6, <1>8, <2>5 DEF Approve, TypeOK, controls, history
  <2>7. CodesComeOnce'
    BY <1>1, <1>6, <1>8, <2>2, <2>3 DEF Approve, CodesComeOnce, controls, history
  <2> QED BY <1>3, <1>8, <2>6, <2>7, RowsUntouched DEF Approve, controls
<1> QED BY <1>4, <1>5, <1>7, <1>8 DEF Consent

-----------------------------------------------------------------------------
\* A code is redeemed: a new row founds a family of its own.
LEMMA RedeemKeeps ==
  ASSUME IInv, NEW r \in Requests, NEW t \in Tokens, Redeem(r, t)
  PROVE  IInv'
<1> DEFINE row == NewToken(code[r].card, t, r)
<1>1. TypeOK /\ r \in Requests /\ t \in Tokens /\ token[t] = None /\ t \notin honoured /\ t \notin replayed
  BY DEF IInv, Redeem, Unused, TypeOK
<1>2. code[r] \in CodeType /\ code[r] # None /\ ~code[r].used /\ code[r].card \in Cards
  BY <1>1 DEF Redeem, Codes, TypeOK, CodeType
<1>3. row \in TokenType /\ row.card = code[r].card /\ row.family = t /\ row.code = r /\ ~row.revoked
  BY <1>1, <1>2 DEF NewToken, TokenType, TypeOK
<1>4. Mint(t, row, {})
  BY DEF Redeem
<1>5. /\ token' \in [Tokens -> TokenType \cup {None}] /\ token'[t] = row
      /\ \A s \in Tokens \ {t} : token'[s] # None => Kept(s)
  <2> HIDE DEF row
  <2> QED BY <1>1, <1>3, <1>4, MintedRows
<1>6. /\ r \notin honoured /\ r \notin replayed
      /\ \A s \in Tokens : token[s] # None => token[s].code # r /\ token[s].family # t
  BY <1>1, <1>2 DEF IInv, CodesComeOnce, FamiliesFollowCodes, TypeOK
<1>7. honoured' = honoured \cup {r} /\ UNCHANGED <<now, request, card, due, swept, replayed>>
  BY DEF Redeem, controls
<1>8. /\ code' \in [Requests -> CodeType \cup {None}] /\ code'[r].used /\ code'[r] # None
      /\ \A q \in Requests \ {r} : code'[q] = code[q]
  BY <1>1, <1>2 DEF Redeem, TypeOK, CodeType
<1>9. token'[t] # None /\ token'[t].card = code[r].card /\ token'[t].family = t
      /\ token'[t].code = r /\ ~token'[t].revoked
  BY <1>3, <1>5
<1> HIDE DEF row
<1>10. TypeOK'
  BY <1>1, <1>5, <1>7, <1>8 DEF TypeOK
<1>11. CodesComeOnce'
  BY <1>2, <1>5, <1>7, <1>8, <1>9 DEF IInv, CodesComeOnce, Kept
<1>12. FamiliesFollowCodes'
  <2>1. \A s \in Tokens : token'[s] # None => token'[s].code # None /\ (token'[s].family = s \/ token'[s].family \in honoured')
    BY <1>5, <1>7, <1>9 DEF IInv, FamiliesFollowCodes, Kept
  <2>2. \A s \in Tokens \ {t} : token'[s] # None => token'[s].family # t /\ token'[s].code # r
    BY <1>5, <1>6 DEF Kept
  <2>3. \A s, u \in Tokens \ {t} : token'[s] # None /\ token'[u] # None =>
          (token'[s].family = token'[u].family <=> token'[s].code = token'[u].code)
    BY <1>5 DEF IInv, FamiliesFollowCodes, Kept
  <2> QED BY <1>9, <2>1, <2>2, <2>3 DEF FamiliesFollowCodes
<1>13. OneLiveRow'
  BY <1>5, <1>6, <1>9 DEF IInv, OneLiveRow, Kept
<1>14. ReplayedIsDead'
  BY <1>1, <1>5, <1>6, <1>7, <1>9 DEF IInv, ReplayedIsDead, Kept
<1>15. SweptIsDead'
  BY <1>5, <1>7, <1>9 DEF IInv, SweptIsDead, Redeem, Grantable, Kept
<1> QED BY <1>10, <1>11, <1>12, <1>13, <1>14, <1>15 DEF IInv

\* A refresh token is rotated: its successor joins its family, it leaves the living.
LEMMA RefreshKeeps ==
  ASSUME IInv, NEW t \in Tokens, NEW s \in Tokens, Refresh(t, s)
  PROVE  IInv'
<1> DEFINE row == Successor(t)
<1>1. TypeOK /\ token[s] = None /\ s \notin honoured /\ s \notin replayed
  BY DEF IInv, Refresh, Unused, TypeOK
<1>2. token[t] \in TokenType /\ token[t] # None /\ ~token[t].revoked /\ s # t
  BY <1>1 DEF Refresh, Rows, TypeOK
<1>3. /\ row \in TokenType /\ row.card = token[t].card /\ row.family = token[t].family
      /\ row.code = token[t].code /\ ~row.revoked
  BY <1>1, <1>2 DEF Successor, NewToken, TokenType, TypeOK
<1>4. Mint(s, row, {t}) /\ {t} \subseteq Rows
  BY <1>2 DEF Refresh, Claimed, Rows
<1>5. /\ token' \in [Tokens -> TokenType \cup {None}] /\ token'[s] = row
      /\ \A u \in Tokens \ {s} : token'[u] # None => Kept(u)
      /\ token'[t] # None => token'[t].revoked
  <2> HIDE DEF row
  <2> QED BY <1>1, <1>3, <1>4, MintedRows
<1>6. honoured' = honoured \cup {t} /\ UNCHANGED <<now, request, code, card, due, swept, replayed>>
  BY DEF Refresh, controls
<1>7. /\ token'[s] # None /\ token'[s].card = token[t].card /\ token'[s].family = token[t].family
      /\ token'[s].code = token[t].code /\ ~token'[s].revoked
  BY <1>3, <1>5
<1> HIDE DEF row
<1>8. TypeOK'
  BY <1>1, <1>5, <1>6 DEF TypeOK
<1>9. CodesComeOnce'
  BY <1>2, <1>5, <1>6, <1>7 DEF IInv, CodesComeOnce, Kept
<1>10. FamiliesFollowCodes'
  BY <1>2, <1>5, <1>6, <1>7 DEF IInv, FamiliesFollowCodes, Kept
<1>11. OneLiveRow'
  <2>1. \A u \in Tokens \ {s} : token'[u] # None /\ token'[u].family = token[t].family => token'[u].revoked
    BY <1>2, <1>5 DEF IInv, OneLiveRow, Kept
  <2>2. \A u, v \in Tokens \ {s} : token'[u] # None /\ token'[v] # None
          /\ token'[u].family = token'[v].family /\ ~token'[u].revoked /\ ~token'[v].revoked => u = v
    BY <1>5 DEF IInv, OneLiveRow, Kept
  <2> QED BY <1>7, <2>1, <2>2 DEF OneLiveRow
<1>12. ReplayedIsDead'
  <2>1. \A u \in Tokens : token[u] # None /\ token[u].family = token[t].family
          => u \notin replayed /\ token[u].code \notin replayed
    BY <1>2 DEF IInv, ReplayedIsDead
  <2> QED BY <1>1, <1>2, <1>5, <1>6, <1>7, <2>1 DEF IInv, ReplayedIsDead, Kept
<1>13. SweptIsDead'
  BY <1>2, <1>5, <1>6, <1>7 DEF IInv, SweptIsDead, Refresh, Kept
<1> QED BY <1>8, <1>9, <1>10, <1>11, <1>12, <1>13 DEF IInv

\* Rows are revoked, nothing else about grants changes; what a replay or a cascade newly
\* touches is among the revoked rows.
LEMMA RevokingKeeps ==
  ASSUME IInv, NEW rows \in SUBSET Rows, token' = Revoked(rows),
         UNCHANGED <<now, request, code, honoured>>,
         card' \in [Cards -> {"active", "frozen"} \cup Dead],
         replayed' \subseteq honoured, due' \subseteq Cards, swept' \subseteq Cards,
         \A s, t \in Tokens :
           /\ token[s] # None /\ token[t] # None /\ token[s].family = token[t].family
           /\ s \in replayed' \/ token[s].code \in replayed'
           => t \in rows \/ s \in replayed \/ token[s].code \in replayed,
         \A c \in due' \cup swept' : card'[c] \in Dead,
         \A t \in Tokens : token[t] # None /\ token[t].card \in swept' => t \in rows \/ token[t].card \in swept
  PROVE  IInv'
<1>1. /\ token' \in [Tokens -> TokenType \cup {None}]
      /\ \A s \in Tokens : token'[s] # None => Kept(s)
      /\ \A s \in rows : token'[s].revoked
  BY RevokedRows DEF IInv
<1>2. rows \subseteq Tokens
  BY DEF Rows
<1>3. TypeOK'
  BY <1>1 DEF IInv, TypeOK
<1>4. CodesComeOnce'
  BY <1>1 DEF IInv, CodesComeOnce, Kept
<1>5. FamiliesFollowCodes'
  BY <1>1 DEF IInv, FamiliesFollowCodes, Kept
<1>6. OneLiveRow'
  BY <1>1 DEF IInv, OneLiveRow, Kept
<1>7. ReplayedIsDead'
  <2> SUFFICES ASSUME NEW s \in Tokens, NEW t \in Tokens, token'[s] # None, token'[t] # None,
                      token'[s].family = token'[t].family,
                      s \in replayed' \/ token'[s].code \in replayed'
               PROVE  token'[t].revoked
    BY DEF ReplayedIsDead
  <2>1. Kept(s) /\ Kept(t)
    BY <1>1
  <2>2. t \in rows \/ s \in replayed \/ token[s].code \in replayed
    BY <2>1 DEF Kept
  <2>3. CASE t \in rows
    BY <1>1, <2>3
  <2>4. CASE s \in replayed \/ token[s].code \in replayed
    <3>1. token[t].revoked
      BY <2>1, <2>4 DEF IInv, ReplayedIsDead, Kept
    <3> QED BY <2>1, <3>1 DEF Kept
  <2> QED BY <2>2, <2>3, <2>4
<1>8. SweptIsDead'
  BY <1>1 DEF IInv, SweptIsDead, Kept
<1> QED BY <1>3, <1>4, <1>5, <1>6, <1>7, <1>8 DEF IInv

\* A redeemed code or a spent refresh token comes back, or a client revokes its grant.
LEMMA ReplayKeeps ==
  ASSUME IInv, \/ \E r \in Requests : ReplayCode(r)
               \/ \E t \in Tokens : ReplayRefresh(t) \/ RevokeGrant(t)
  PROVE  IInv'
<1>1. /\ card \in [Cards -> {"active", "frozen"} \cup Dead] /\ due \subseteq Cards /\ swept \subseteq Cards
      /\ replayed \subseteq honoured
      /\ \A c \in due \cup swept : card[c] \in Dead
  BY DEF IInv, TypeOK, SweptIsDead
<1>2. ASSUME NEW r \in Requests, ReplayCode(r) PROVE IInv'
  <2>1. /\ token' = Revoked(OfCode(r)) /\ replayed' \subseteq replayed \cup {r} /\ replayed' \subseteq honoured
        /\ UNCHANGED <<now, request, code, card, due, swept, honoured>> /\ OfCode(r) \in SUBSET Rows
    BY <1>1, <1>2 DEF ReplayCode, OfCode, controls
  <2>2. ASSUME NEW s \in Tokens, NEW t \in Tokens, token[s] # None, token[t] # None,
               token[s].family = token[t].family, s \in replayed' \/ token[s].code \in replayed'
        PROVE  t \in OfCode(r) \/ s \in replayed \/ token[s].code \in replayed
    <3>1. s # r
      OBVIOUS
    <3>2. token[t].code = token[s].code
      BY <2>2 DEF IInv, FamiliesFollowCodes
    <3> QED BY <2>1, <2>2, <3>1, <3>2 DEF OfCode, Rows
  <2> QED BY <1>1, <2>1, <2>2, RevokingKeeps
<1>3. ASSUME NEW t \in Tokens, ReplayRefresh(t) PROVE IInv'
  <2> DEFINE rows == OfFamily(token[t].family)
  <2>1. /\ token' = Revoked(rows) /\ replayed' \subseteq replayed \cup {t} /\ replayed' \subseteq honoured
        /\ UNCHANGED <<now, request, code, card, due, swept, honoured>> /\ rows \in SUBSET Rows
        /\ token[t] # None
    BY <1>1, <1>3 DEF ReplayRefresh, OfFamily, Rows, controls
  <2>2. ASSUME NEW s \in Tokens, NEW u \in Tokens, token[s] # None, token[u] # None,
               token[s].family = token[u].family, s \in replayed' \/ token[s].code \in replayed'
        PROVE  u \in rows \/ s \in replayed \/ token[s].code \in replayed
    <3>1. token[s].code # t
      BY <2>2 DEF IInv, TypeOK, TokenType
    <3> QED BY <2>1, <2>2, <3>1 DEF OfFamily, Rows
  <2> HIDE DEF rows
  <2> QED BY <1>1, <2>1, <2>2, RevokingKeeps
<1>4. ASSUME NEW t \in Tokens, RevokeGrant(t) PROVE IInv'
  <2> DEFINE rows == OfFamily(token[t].family)
  <2>1. /\ token' = Revoked(rows) /\ rows \in SUBSET Rows
        /\ UNCHANGED <<now, request, code, card, due, swept, honoured, replayed>>
    BY <1>4 DEF RevokeGrant, OfFamily, controls, history
  <2> HIDE DEF rows
  <2> QED BY <1>1, <2>1, RevokingKeeps
<1> QED BY <1>2, <1>3, <1>4

-----------------------------------------------------------------------------
\* The owner, the agent, the cascade and a restart: a dead card stays dead.
LEMMA ControlKeeps ==
  ASSUME IInv, Control \/ Tick
  PROVE  IInv'
<1>1. /\ TypeOK /\ CodesComeOnce /\ replayed \subseteq honoured
      /\ card \in [Cards -> {"active", "frozen"} \cup Dead] /\ due \subseteq Cards /\ swept \subseteq Cards
      /\ \A c \in due \cup swept : card[c] \in Dead
  BY DEF IInv, TypeOK, SweptIsDead
<1>2. ASSUME UNCHANGED <<now, grants, swept, history>>,
             card' \in [Cards -> {"active", "frozen"} \cup Dead], due' \subseteq Cards,
             \A c \in due' \cup swept : card'[c] \in Dead
      PROVE  IInv'
  <2>1. TypeOK'
    BY <1>1, <1>2 DEF TypeOK, grants, history
  <2>2. CodesComeOnce'
    BY <1>1, <1>2 DEF CodesComeOnce, grants, history
  <2> QED BY <1>2, <2>1, <2>2, RowsUntouched DEF grants
<1>3. ASSUME NEW c \in Cards, Freeze(c) \/ Unfreeze(c) PROVE IInv'
  <2>1. \A d \in Cards : card'[d] # card[d] => d = c /\ card[d] \notin Dead
    BY <1>1, <1>3 DEF Freeze, Unfreeze, MarkCards, Dead
  <2>2. card' \in [Cards -> {"active", "frozen"} \cup Dead]
    BY <1>1, <1>3 DEF Freeze, Unfreeze, MarkCards
  <2>3. UNCHANGED <<now, grants, due, swept, history>>
    BY <1>3 DEF Freeze, Unfreeze
  <2>4. \A d \in due' \cup swept : card'[d] \in Dead
    BY <1>1, <2>1, <2>3
  <2> QED BY <1>1, <1>2, <2>2, <2>3, <2>4
<1>4. ASSUME NEW cs \in SUBSET Cards, NEW s \in Dead, MarkCards(cs, s)
      PROVE  /\ card' \in [Cards -> {"active", "frozen"} \cup Dead]
             /\ \A c \in cs : card'[c] \in Dead
             /\ \A c \in Cards : card[c] \in Dead => card'[c] \in Dead
  BY <1>1, <1>4 DEF MarkCards
<1>5. ASSUME NEW cs \in SUBSET Cards, NEW s \in Dead, MarkCards(cs, s), due' \subseteq due \cup cs,
             UNCHANGED <<now, grants, swept, history>>
      PROVE  IInv'
  <2>1. /\ card' \in [Cards -> {"active", "frozen"} \cup Dead] /\ due' \subseteq Cards
        /\ \A c \in due' \cup swept : card'[c] \in Dead
    BY <1>1, <1>4, <1>5
  <2> QED BY <1>2, <1>5, <2>1
<1>6. "revoked" \in Dead /\ "nuked" \in Dead /\ "deleted" \in Dead
  BY DEF Dead
<1>7. ASSUME NEW c \in Cards, Revoke(c) \/ AgentRevoke(c) PROVE IInv'
  BY <1>5, <1>6, <1>7 DEF Revoke, AgentRevoke, Present, Subtree
<1>8. ASSUME NEW u \in Users, Nuke(u) PROVE IInv'
  BY <1>5, <1>6, <1>8 DEF Nuke, Present
<1>9. ASSUME NEW c \in Cards, Delete(c) PROVE IInv'
  <2> DEFINE rows == OfCards(Subtree(c))
  <2>1. /\ token' = Revoked(rows) /\ rows \in SUBSET Rows /\ swept' = swept \cup Subtree(c)
        /\ UNCHANGED <<now, request, code, due, honoured, replayed>> /\ MarkCards(Subtree(c), "deleted")
    BY <1>9 DEF Delete, OfCards, history
  <2>2. Subtree(c) \in SUBSET Cards
    BY DEF Subtree
  <2>3. /\ card' \in [Cards -> {"active", "frozen"} \cup Dead]
        /\ \A d \in due' \cup swept' : card'[d] \in Dead
    BY <1>1, <1>4, <1>6, <2>1, <2>2
  <2>4. \A t \in Tokens : token[t] # None /\ token[t].card \in swept' => t \in rows \/ token[t].card \in swept
    BY <2>1 DEF OfCards, Rows
  <2> HIDE DEF rows
  <2> QED BY <1>1, <2>1, <2>2, <2>3, <2>4, RevokingKeeps
<1>10. CASE Cascade
  <2> DEFINE rows == OfCards(due)
  <2>1. /\ token' = Revoked(rows) /\ rows \in SUBSET Rows /\ swept' = swept \cup due /\ due' = {}
        /\ UNCHANGED <<now, request, code, card, honoured, replayed>>
    BY <1>10 DEF Cascade, OfCards, history
  <2>2. \A t \in Tokens : token[t] # None /\ token[t].card \in swept' => t \in rows \/ token[t].card \in swept
    BY <2>1 DEF OfCards, Rows
  <2> HIDE DEF rows
  <2> QED BY <1>1, <2>1, <2>2, RevokingKeeps
<1>11. CASE Crash
  BY <1>1, <1>2, <1>11 DEF Crash
<1>12. CASE Tick
  <2>1. TypeOK'
    BY <1>1, <1>12 DEF Tick, TypeOK, grants, controls, history
  <2>2. CodesComeOnce'
    BY <1>1, <1>12 DEF Tick, CodesComeOnce, grants, history
  <2> QED BY <1>1, <1>12, <2>1, <2>2, RowsUntouched DEF Tick, grants, controls
<1> QED BY <1>3, <1>7, <1>8, <1>9, <1>10, <1>11, <1>12 DEF Control

LEMMA StepKeeps == IInv /\ [Next]_vars => IInv'
<1> SUFFICES ASSUME IInv, [Next]_vars PROVE IInv'
  OBVIOUS
<1>1. CASE UNCHANGED vars
  <2>1. TypeOK'
    BY <1>1 DEF vars, grants, controls, history, IInv, TypeOK
  <2>2. CodesComeOnce'
    BY <1>1 DEF vars, grants, controls, history, IInv, CodesComeOnce
  <2>3. \A c \in due \cup swept : card[c] \in Dead
    BY DEF IInv, SweptIsDead
  <2> QED BY <1>1, <2>1, <2>2, <2>3, RowsUntouched DEF vars, grants, controls
<1>2. CASE TokenEndpoint
  BY <1>2, RedeemKeeps, RefreshKeeps, ReplayKeeps DEF TokenEndpoint
<1> QED BY <1>1, <1>2, ConsentKeeps, ControlKeeps DEF Next

LEMMA Invariance == Spec => []IInv
  BY InitInvariant, StepKeeps, PTL DEF Spec

-----------------------------------------------------------------------------
(* The theorems.                                                           *)

\* The tables and the history keep their types.
THEOREM OAuthTypes == Spec => []TypeOK
<1>1. IInv => TypeOK
  BY DEF IInv
<1> QED BY <1>1, Invariance, PTL

\* One approval never has two live token rows, however often its code and its refresh
\* tokens are presented (oauth/store.ts 260-263, 377-384).
THEOREM GrantIsOneToken == Spec => []OneLiveTokenPerApproval
<1>1. IInv => OneLiveTokenPerApproval
  BY DEF IInv, FamiliesFollowCodes, OneLiveRow, OneLiveTokenPerApproval, OfCode, Rows
<1> QED BY <1>1, Invariance, PTL

\* After a code or a rotated refresh token came back no token of its grant is alive, nor
\* will be (oauth/routes.ts 316-320, 370-373).
THEOREM ReplayIsFatal == Spec => []ReplayKillsGrant
<1>1. IInv => ReplayKillsGrant
  BY DEF IInv, ReplayedIsDead, ReplayKillsGrant, Rows
<1> QED BY <1>1, Invariance, PTL

\* After a cascade its cards have no live row, whatever was in the air when it ran
\* (oauth/store.ts 276-281, oauth/routes.ts 335-343, api/routes.ts 110-120).
THEOREM DeadCardsMintNothing == Spec => []CascadeIsFinal
<1>1. IInv => CascadeIsFinal
  BY DEF IInv, SweptIsDead, CascadeIsFinal, Rows
<1> QED BY <1>1, Invariance, PTL
=============================================================================
