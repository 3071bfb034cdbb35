------------------------- MODULE AuthSessionsProofs -------------------------
(***************************************************************************)
(* Proofs about AuthSessions, for any set of users, sessions and requests  *)
(* and any bounds.  The inductive invariant IInv has one part per table:   *)
(* what a session row, a reset link and a request under way may look like  *)
(* next to the rows they refer to.                                         *)
(***************************************************************************)
EXTENDS AuthSessions, FiniteSetTheorems, TLAPS

Rows ==
    /\ account \in [Users -> AccountRow]
    /\ session \in [Sessions -> SessionRow]
    /\ link \in [Links -> LinkRow]
    /\ request \in [Requests -> RequestRow]
    /\ granted \in [Sessions -> SUBSET Seconds]
    /\ spent \in [Sessions -> SUBSET Seconds]
    /\ clock \in Seconds

\* A session row belongs to a user from its creation on; its hash is the random
\* one until tokens are handed out, and never a token that was spent.
SessionOf(s) ==
    /\ session[s].status # "none" <=> session[s].user \in Users
    /\ session[s].status = "none" => session[s].hash = NoToken
    /\ session[s].hash = NoToken => granted[s] = {} /\ spent[s] = {}
    /\ session[s].hash \notin spent[s]
    /\ session[s].status = "active" => session[s].born = account[session[s].user].era

LinksInOrder ==
    \A j, k \in Links : j <= k /\ link[k].status # "none" => link[j].status # "none"

LinkInv == (\A k \in Links : OwnedLink(k)) /\ LinksInOrder /\ OnlyLastLinkWorks

\* What a request has read stays true as far as its later steps rely on it: its
\* session is still its user's, and if it still is active, so is the account.
RequestOf(row) ==
    /\ row.kind # "idle" => row.user \in Users
    /\ row.kind \in {"issue", "rotate", "revoke", "change"} =>
         row.session \in Sessions /\ session[row.session].user = row.user
    /\ row.kind = "issue" => session[row.session].hash = NoToken
    /\ row.kind \in {"rotate", "revoke", "change"} =>
         session[row.session].hash # NoToken
    /\ row.kind \in {"rotate", "change"} =>
         /\ row.signed \in Seconds
         /\ session[row.session].status = "active" => account[row.user].active
    /\ row.kind \in {"mail", "reset"} =>
         row.link \in Links /\ link[row.link].user = row.user

\* A session is handed out by the one login that created it.
IssueInv ==
    \A q, r \in Requests :
        /\ request[q].kind = "issue" /\ request[r].kind = "issue"
        /\ request[q].session = request[r].session
        => q = r

IInv ==
    /\ Rows
    /\ \A s \in Sessions : SessionOf(s)
    /\ LinkInv
    /\ \A r \in Requests : RequestOf(request[r])
    /\ IssueInv
    /\ PasswordsAccountedFor

-----------------------------------------------------------------------------
(* Helpers *)

LEMMA TokenFacts == NoToken \notin Seconds /\ NoLink \notin Links
  BY BoundsAssumption DEF NoToken, Seconds, NoLink, Links

LEMMA NullFacts == NoUser \notin Users /\ NoSession \notin Sessions
  BY NullAssumption

LEMMA IdleRow == Idle \in RequestRow /\ RequestOf(Idle)
  BY DEF Idle, RequestRow, Kinds, RequestOf, NoPassword

\* A step that only starts or ends a request keeps the invariant when the row it
\* writes is sound.
LEMMA RequestOnly ==
    ASSUME IInv, NEW r \in Requests, NEW row \in RequestRow,
           request' = [request EXCEPT ![r] = row],
           RequestOf(row), row.kind # "issue",
           UNCHANGED <<account, session, link, granted, spent, clock>>
    PROVE  IInv'
  <1>1. Rows'
    BY DEF IInv, Rows
  <1>2. \A q \in Requests : request'[q] = IF q = r THEN row ELSE request[q]
    BY DEF IInv, Rows
  <1>3. \A s \in Sessions : SessionOf(s)'
    BY DEF IInv, SessionOf
  <1>4. LinkInv'
    BY DEF IInv, LinkInv, OwnedLink, LinksInOrder, OnlyLastLinkWorks
  <1>5. \A q \in Requests : RequestOf(request'[q])
    BY <1>2 DEF IInv
  <1>6. \A q \in Requests : RequestOf(request[q])'
    BY <1>5 DEF RequestOf
  <1>7. IssueInv'
    BY <1>2 DEF IInv, IssueInv
  <1>8. PasswordsAccountedFor'
    BY DEF IInv, PasswordsAccountedFor, UsedLinks
  <1>9. QED
    BY <1>1, <1>3, <1>4, <1>6, <1>7, <1>8 DEF IInv

LEMMA Started ==
    ASSUME IInv, NEW r \in Requests, NEW row \in RequestRow, Begin(r, row),
           RequestOf(row), row.kind # "issue",
           UNCHANGED <<account, session, link, granted, spent, clock>>
    PROVE  IInv'
  BY RequestOnly DEF Begin

LEMMA Ended ==
    ASSUME IInv, NEW r \in Requests, End(r),
           UNCHANGED <<account, session, link, granted, spent, clock>>
    PROVE  IInv'
  BY RequestOnly, IdleRow DEF End, Idle

-----------------------------------------------------------------------------
(* Steps that read *)

LEMMA LoginVerifyInv ==
    ASSUME IInv, NEW r \in Requests, NEW u \in Users,
           LoginVerify(r, u) \/ GoogleVerify(r, u) \/ ForgotRead(r, u)
    PROVE  IInv'
  <1>1. CASE LoginVerify(r, u)
    <2> DEFINE row == [Idle EXCEPT !.kind = "login", !.user = u,
                                   !.password = account[u].password]
    <2>1. account[u].password \in Nat
      BY DEF IInv, Rows, AccountRow
    <2>2. row \in RequestRow /\ RequestOf(row) /\ row.kind # "issue"
      BY <2>1 DEF Idle, RequestRow, Kinds, RequestOf
    <2>3. QED
      BY <1>1, <2>2, Started DEF LoginVerify
  <1>2. CASE GoogleVerify(r, u)
    <2> DEFINE row == [Idle EXCEPT !.kind = "login", !.user = u]
    <2>1. row \in RequestRow /\ RequestOf(row) /\ row.kind # "issue"
      BY DEF Idle, RequestRow, Kinds, RequestOf, NoPassword
    <2>2. QED
      BY <1>2, <2>1, Started DEF GoogleVerify
  <1>3. CASE ForgotRead(r, u)
    <2> DEFINE row == [Idle EXCEPT !.kind = "forgot", !.user = u]
    <2>1. row \in RequestRow /\ RequestOf(row) /\ row.kind # "issue"
      BY DEF Idle, RequestRow, Kinds, RequestOf, NoPassword
    <2>2. QED
      BY <1>3, <2>1, Started DEF ForgotRead
  <1>4. QED
    BY <1>1, <1>2, <1>3

LEMMA RefreshReadInv ==
    ASSUME IInv, NEW r \in Requests, NEW s \in Sessions, NEW t \in Seconds,
           RefreshRead(r, s, t)
    PROVE  IInv'
  <1> DEFINE mayRotate == account[session[s].user].active /\ session[s].hash = t
             row == [Idle EXCEPT !.kind = IF mayRotate THEN "rotate" ELSE "revoke",
                                 !.user = session[s].user, !.session = s, !.token = t,
                                 !.signed = IF mayRotate THEN clock ELSE NoToken]
  <1>1. clock \in Seconds
    BY DEF IInv, Rows
  <1>2. session[s].user \in Users /\ session[s].hash # NoToken
    BY DEF RefreshRead, Live, IInv, SessionOf
  <1>3. row \in RequestRow
    BY <1>1, <1>2 DEF Idle, RequestRow, Kinds, NoPassword
  <1>4. RequestOf(row) /\ row.kind # "issue"
    BY <1>1, <1>2 DEF Idle, RequestOf
  <1>5. QED
    BY <1>3, <1>4, Started DEF RefreshRead

LEMMA ChangeReadInv ==
    ASSUME IInv, NEW r \in Requests, NEW s \in Sessions, ChangeRead(r, s)
    PROVE  IInv'
  <1> DEFINE u == session[s].user
             row == [Idle EXCEPT !.kind = "change", !.user = u, !.session = s,
                                 !.signed = clock, !.password = account[u].password]
  <1>1. clock \in Seconds
    BY DEF IInv, Rows
  <1>2. u \in Users /\ session[s].hash # NoToken
    BY DEF ChangeRead, Live, IInv, SessionOf
  <1>3. account[u].password \in Nat /\ account[u].active
    BY <1>2 DEF IInv, Rows, AccountRow, ChangeRead
  <1>4. row \in RequestRow
    BY <1>1, <1>2, <1>3 DEF Idle, RequestRow, Kinds
  <1>5. RequestOf(row) /\ row.kind # "issue"
    BY <1>1, <1>2, <1>3 DEF Idle, RequestOf
  <1>6. QED
    BY <1>4, <1>5, Started DEF ChangeRead

LEMMA ResetReadInv ==
    ASSUME IInv, NEW r \in Requests, NEW k \in Links, ResetRead(r, k)
    PROVE  IInv'
  <1> DEFINE u == link[k].user
             row == [Idle EXCEPT !.kind = "reset", !.user = u, !.link = k,
                                 !.password = account[u].password]
  <1>1. u \in Users
    BY DEF ResetRead, IInv, LinkInv, OwnedLink
  <1>2. account[u].password \in Nat
    BY <1>1 DEF IInv, Rows, AccountRow
  <1>3. row \in RequestRow
    BY <1>1, <1>2 DEF Idle, RequestRow, Kinds
  <1>4. RequestOf(row) /\ row.kind # "issue"
    BY <1>1 DEF Idle, RequestOf
  <1>5. QED
    BY <1>3, <1>4, Started DEF ResetRead

-----------------------------------------------------------------------------
(* What a step that writes leaves true of the rows it does not write *)

LEMMA RevokedSession ==
    ASSUME NEW row \in SessionRow
    PROVE  /\ Revoked(row) \in SessionRow
           /\ Revoked(row).user = row.user
           /\ Revoked(row).hash = row.hash
           /\ Revoked(row).born = row.born
           /\ Revoked(row).status = IF row.status = "active" THEN "revoked" ELSE row.status
  BY DEF Revoked, SessionRow

LEMMA RevokedLink ==
    ASSUME NEW row \in LinkRow
    PROVE  /\ Revoked(row) \in LinkRow
           /\ Revoked(row).user = row.user
           /\ Revoked(row).status = IF row.status = "active" THEN "revoked" ELSE row.status
  BY DEF Revoked, LinkRow

\* A request that the step leaves alone still names its own rows.
LEMMA RequestKept ==
    ASSUME IInv, NEW r \in Requests, request'[r] = request[r],
           \A s \in Sessions : session[s].user \in Users =>
               /\ session'[s].user = session[s].user
               /\ session[s].hash # NoToken => session'[s].hash # NoToken
               /\ session'[s].status = "active" =>
                    /\ session[s].status = "active"
                    /\ account[session[s].user].active =>
                         account'[session[s].user].active,
           request[r].kind = "issue" =>
               session'[request[r].session].hash = session[request[r].session].hash,
           \A k \in Links : link[k].user \in Users => link'[k].user = link[k].user
    PROVE  RequestOf(request[r])'
  <1>1. RequestOf(request[r])
    BY DEF IInv
  <1>2. QED
    BY <1>1 DEF RequestOf

LEMMA RequestIdle ==
    ASSUME NEW r \in Requests, request'[r] = Idle
    PROVE  RequestOf(request[r])'
  BY DEF RequestOf, Idle

LEMMA IssueKept ==
    ASSUME IInv, \A r \in Requests : request'[r] = request[r] \/ request'[r].kind # "issue"
    PROVE  IssueInv'
  BY DEF IInv, IssueInv

LEMMA LinksKeptInv ==
    ASSUME IInv, link' = link
    PROVE  LinkInv'
  BY DEF IInv, LinkInv, OwnedLink, LinksInOrder, OnlyLastLinkWorks

LEMMA PasswordsKept ==
    ASSUME IInv, \A u \in Users : UsedLinks(u)' = UsedLinks(u),
           \A u \in Users : /\ account'[u].password = account[u].password
                            /\ account'[u].changes = account[u].changes
    PROVE  PasswordsAccountedFor'
  BY DEF IInv, PasswordsAccountedFor

LEMMA UsedLinksSame ==
    ASSUME link' = link
    PROVE  \A u \in Users : UsedLinks(u)' = UsedLinks(u)
  BY DEF UsedLinks

LEMMA EndedRows ==
    ASSUME IInv, NEW r \in Requests, End(r)
    PROVE  /\ request' \in [Requests -> RequestRow]
           /\ \A q \in Requests : request'[q] = IF q = r THEN Idle ELSE request[q]
           /\ IssueInv'
  <1>1. request' \in [Requests -> RequestRow]
    BY IdleRow DEF IInv, Rows, End
  <1>2. \A q \in Requests : request'[q] = IF q = r THEN Idle ELSE request[q]
    BY DEF IInv, Rows, End
  <1>3. Idle.kind # "issue"
    BY DEF Idle
  <1>4. IssueInv'
    BY <1>2, <1>3, IssueKept
  <1>5. QED
    BY <1>1, <1>2, <1>4

-----------------------------------------------------------------------------
(* One session is revoked *)

LEMMA RevokeOneInv ==
    ASSUME IInv, NEW s \in Sessions, session' = [session EXCEPT ![s] = Revoked(@)],
           UNCHANGED <<account, link, granted, spent, clock>>,
           request' = request \/ \E r \in Requests : End(r)
    PROVE  IInv'
  <1>1. session[s] \in SessionRow
    BY DEF IInv, Rows
  <1>2. \A z \in Sessions :
          /\ session'[z].user = session[z].user
          /\ session'[z].hash = session[z].hash
          /\ session'[z].born = session[z].born
          /\ session'[z].status = "active" => session[z].status = "active"
          /\ session'[z].status = "none" <=> session[z].status = "none"
    BY <1>1, RevokedSession DEF IInv, Rows
  <1>3. session' \in [Sessions -> SessionRow]
    BY <1>1, RevokedSession DEF IInv, Rows
  <1>4. /\ request' \in [Requests -> RequestRow]
        /\ \A q \in Requests : request'[q] = request[q] \/ request'[q] = Idle
        /\ IssueInv'
    BY EndedRows, IssueKept DEF IInv, Rows
  <1>5. Rows'
    BY <1>3, <1>4 DEF IInv, Rows
  <1>6. \A z \in Sessions : SessionOf(z)'
    BY <1>2 DEF IInv, SessionOf
  <1>7. \A q \in Requests : RequestOf(request[q])'
    <2>1. TAKE q \in Requests
    <2>2. CASE request'[q] = Idle
      BY <2>2, RequestIdle
    <2>3. CASE request'[q] = request[q]
      <3>1. request[q].kind = "issue" => request[q].session \in Sessions
        BY DEF IInv, RequestOf
      <3>2. QED
        BY <1>2, <2>3, <3>1, RequestKept
    <2>4. QED
      BY <1>4, <2>2, <2>3
  <1>8. LinkInv' /\ PasswordsAccountedFor'
    BY LinksKeptInv, PasswordsKept, UsedLinksSame
  <1>9. QED
    BY <1>4, <1>5, <1>6, <1>7, <1>8 DEF IInv

LEMMA RevokeStepInv ==
    ASSUME IInv, NEW r \in Requests, LoginFail(r) \/ RefreshRevoke(r)
    PROVE  IInv'
  <1>1. request[r].session \in Sessions
    BY DEF LoginFail, RefreshRevoke, IInv, RequestOf
  <1>2. QED
    BY <1>1, RevokeOneInv DEF LoginFail, RefreshRevoke

LEMMA LogoutInv ==
    ASSUME IInv, NEW s \in Sessions, Logout(s)
    PROVE  IInv'
  BY RevokeOneInv DEF Logout

-----------------------------------------------------------------------------
(* Login and rotation *)

LEMMA LoginCreateInv ==
    ASSUME IInv, NEW r \in Requests, NEW s \in Sessions, LoginCreate(r, s)
    PROVE  IInv'
  <1> DEFINE u == request[r].user
  <1>1. u \in Users /\ session[s].status = "none" /\ session[s].hash = NoToken
        /\ session[s].user \notin Users /\ granted[s] = {} /\ spent[s] = {}
    BY DEF LoginCreate, IInv, RequestOf, SessionOf
  <1>2. account[u].era \in Eras
    BY <1>1 DEF IInv, Rows, AccountRow
  <1>3. session'[s] = [user |-> u, status |-> "active", hash |-> NoToken,
                       born |-> account[u].era]
    BY DEF LoginCreate, NewSession, NoSessionRow, IInv, Rows
  <1>4. \A z \in Sessions : z # s => session'[z] = session[z]
    BY DEF LoginCreate, IInv, Rows
  <1>5. session' \in [Sessions -> SessionRow]
    <2>1. NewSession(u) \in SessionRow
      BY <1>1, <1>2 DEF NewSession, NoSessionRow, SessionRow
    <2>2. QED
      BY <2>1 DEF LoginCreate, IInv, Rows
  <1>6. /\ request' \in [Requests -> RequestRow]
        /\ \A q \in Requests : q # r => request'[q] = request[q]
        /\ request'[r].kind = "issue" /\ request'[r].session = s
        /\ request'[r].user = u
    <2> DEFINE row == [request[r] EXCEPT !.kind = "issue", !.session = s]
    <2>1. request[r] \in RequestRow /\ request \in [Requests -> RequestRow]
      BY DEF IInv, Rows
    <2>2. request' = [request EXCEPT ![r] = row]
      BY <2>1 DEF LoginCreate, RequestRow
    <2>3. row \in RequestRow /\ row.kind = "issue" /\ row.session = s /\ row.user = u
      BY <2>1 DEF RequestRow, Kinds
    <2>4. QED
      BY <2>1, <2>2, <2>3
  <1>7. Rows'
    BY <1>5, <1>6 DEF LoginCreate, IInv, Rows
  <1>8. \A z \in Sessions : SessionOf(z)'
    <2>1. SessionOf(s)'
      BY <1>1, <1>3 DEF SessionOf, LoginCreate
    <2>2. ASSUME NEW z \in Sessions, z # s PROVE SessionOf(z)'
      BY <1>4, <2>2 DEF SessionOf, LoginCreate, IInv
    <2>3. QED
      BY <2>1, <2>2
  <1>9. \A q \in Requests : RequestOf(request[q])'
    <2>1. TAKE q \in Requests
    <2>2. CASE q = r
      BY <1>1, <1>3, <1>6, <2>2 DEF RequestOf
    <2>3. CASE q # r
      <3>1. \A z \in Sessions : session[z].user \in Users => session'[z] = session[z]
        BY <1>1, <1>4
      <3>2. request[q].kind = "issue" =>
              request[q].session \in Sessions /\ session[request[q].session].user \in Users
        BY DEF IInv, RequestOf
      <3>3. request'[q] = request[q] /\ account' = account /\ link' = link
        BY <1>6, <2>3 DEF LoginCreate
      <3>4. QED
        BY <3>1, <3>2, <3>3, RequestKept
    <2>4. QED
      BY <2>2, <2>3
  <1>10. IssueInv'
    <2>1. \A q \in Requests : request[q].kind = "issue" => request[q].session # s
      BY <1>1 DEF IInv, RequestOf
    <2>2. QED
      BY <1>6, <2>1 DEF IInv, IssueInv
  <1>11. LinkInv' /\ PasswordsAccountedFor'
    BY LinksKeptInv, PasswordsKept, UsedLinksSame DEF LoginCreate
  <1>12. QED
    BY <1>7, <1>8, <1>9, <1>10, <1>11 DEF IInv

\* A session that exists gets another token: LoginIssue and RefreshRotate.
LEMMA TokenGivenInv ==
    ASSUME IInv, NEW r \in Requests, NEW s \in Sessions, NEW t \in Seconds,
           End(r), request[r].session = s, session[s].user \in Users,
           request[r].kind = "issue" \/ session[s].hash # NoToken,
           session' = [session EXCEPT ![s].hash = t],
           granted' = [granted EXCEPT ![s] = @ \cup {t}],
           spent' \in [Sessions -> SUBSET Seconds],
           \A z \in Sessions : z # s => spent'[z] = spent[z],
           t \notin spent'[s],
           UNCHANGED <<account, link, clock>>
    PROVE  IInv'
  <1>1. /\ session' \in [Sessions -> SessionRow]
        /\ \A z \in Sessions : z # s => session'[z] = session[z] /\ granted'[z] = granted[z]
        /\ session'[s].user = session[s].user /\ session'[s].status = session[s].status
        /\ session'[s].born = session[s].born /\ session'[s].hash = t
    BY DEF IInv, Rows, SessionRow
  <1>2. granted' \in [Sessions -> SUBSET Seconds]
    BY DEF IInv, Rows
  <1>3. Rows'
    BY <1>1, <1>2, EndedRows DEF IInv, Rows
  <1>4. \A z \in Sessions : SessionOf(z)'
    <2>1. t # NoToken
      BY TokenFacts
    <2>2. SessionOf(s)'
      BY <1>1, <2>1 DEF IInv, SessionOf
    <2>3. ASSUME NEW z \in Sessions, z # s PROVE SessionOf(z)'
      BY <1>1, <2>3 DEF IInv, SessionOf
    <2>4. QED
      BY <2>2, <2>3
  <1>5. \A q \in Requests : RequestOf(request[q])'
    <2>1. TAKE q \in Requests
    <2>2. CASE q = r
      BY <2>2, EndedRows, RequestIdle
    <2>3. CASE q # r
      <3>1. request'[q] = request[q]
        BY <2>3, EndedRows
      <3>2. request[q].kind = "issue" =>
              request[q].session \in Sessions /\ request[q].session # s
        BY <2>3 DEF IInv, IssueInv, RequestOf
      <3>3. t # NoToken
        BY TokenFacts
      <3>4. QED
        BY <1>1, <3>1, <3>2, <3>3, RequestKept
    <2>4. QED
      BY <2>2, <2>3
  <1>6. IssueInv'
    BY EndedRows
  <1>7. LinkInv' /\ PasswordsAccountedFor'
    BY LinksKeptInv, PasswordsKept, UsedLinksSame
  <1>8. QED
    BY <1>3, <1>4, <1>5, <1>6, <1>7 DEF IInv

LEMMA LoginIssueInv ==
    ASSUME IInv, NEW r \in Requests, LoginIssue(r)
    PROVE  IInv'
  <1> DEFINE s == request[r].session
  <1>1. request[r].kind = "issue" /\ s \in Sessions /\ session[s].user \in Users
        /\ session[s].hash = NoToken
    BY DEF LoginIssue, IInv, RequestOf
  <1>2. spent[s] = {} /\ spent \in [Sessions -> SUBSET Seconds] /\ clock \in Seconds
    BY <1>1 DEF IInv, Rows, SessionOf
  <1>3. QED
    BY <1>1, <1>2, TokenGivenInv DEF LoginIssue

LEMMA RefreshRotateInv ==
    ASSUME IInv, NEW r \in Requests, RefreshRotate(r)
    PROVE  IInv'
  <1> DEFINE s == request[r].session
             t == request[r].token
             n == request[r].signed
  <1>1. s \in Sessions /\ session[s].user \in Users /\ n \in Seconds
        /\ session[s].hash # NoToken
    BY DEF RefreshRotate, IInv, RequestOf
  <1>2. t \in Seconds
    <2>1. session[s].hash = t /\ session[s].hash \in Seconds \cup {NoToken}
      BY <1>1 DEF RefreshRotate, RotateIfCurrent, IInv, Rows, SessionRow
    <2>2. QED
      BY <1>1, <2>1
  <1>3. /\ spent' \in [Sessions -> SUBSET Seconds]
        /\ \A z \in Sessions : z # s => spent'[z] = spent[z]
        /\ n \notin spent'[s]
    BY <1>1, <1>2 DEF RefreshRotate, IInv, Rows
  <1>4. QED
    BY <1>1, <1>3, TokenGivenInv DEF RefreshRotate

-----------------------------------------------------------------------------
(* Mass revocations *)

LEMMA RevokedRows ==
    ASSUME IInv, NEW u \in Users, NEW kept, NEW z \in Sessions
    PROVE  /\ RevokeSessions(u, kept)[z] \in SessionRow
           /\ RevokeSessions(u, kept)[z].user = session[z].user
           /\ RevokeSessions(u, kept)[z].hash = session[z].hash
           /\ RevokeSessions(u, kept)[z].born = session[z].born
           /\ RevokeSessions(u, kept)[z].status = "none" <=> session[z].status = "none"
           /\ RevokeSessions(u, kept)[z].status = "active" <=>
                /\ session[z].status = "active"
                /\ session[z].user = u => z \in kept
  <1>1. session[z] \in SessionRow
    BY DEF IInv, Rows
  <1>2. QED
    BY <1>1, RevokedSession DEF RevokeSessions

LEMMA AllRevoked ==
    ASSUME IInv, NEW u \in Users, session' = RevokeSessions(u, {}),
           UNCHANGED <<granted, spent>>,
           \A w \in Users : w # u => account'[w] = account[w]
    PROVE  /\ session' \in [Sessions -> SessionRow]
           /\ \A z \in Sessions : SessionOf(z)'
           /\ \A z \in Sessions :
                /\ session'[z].user = session[z].user
                /\ session'[z].hash = session[z].hash
                /\ session'[z].status = "active" =>
                     session[z].status = "active" /\ session[z].user # u
  <1>1. \A z \in Sessions :
          /\ session'[z] \in SessionRow
          /\ session'[z].user = session[z].user
          /\ session'[z].hash = session[z].hash
          /\ session'[z].born = session[z].born
          /\ session'[z].status = "none" <=> session[z].status = "none"
          /\ session'[z].status = "active" =>
               session[z].status = "active" /\ session[z].user # u
    BY RevokedRows
  <1>2. session' \in [Sessions -> SessionRow]
    BY <1>1 DEF RevokeSessions
  <1>3. \A z \in Sessions : SessionOf(z)'
    BY <1>1 DEF IInv, SessionOf
  <1>4. QED
    BY <1>1, <1>2, <1>3

LEMMA ChangeCommitInv ==
    ASSUME IInv, NEW r \in Requests, ChangeCommit(r)
    PROVE  IInv'
  <1> DEFINE u == request[r].user
             s == request[r].session
             n == request[r].signed
             row == NewPassword(account[u], 1)
             rest == RevokeSessions(u, SessionsKept(r))
  <1>1. u \in Users /\ s \in Sessions /\ session[s].user = u /\ n \in Seconds
        /\ session[s].hash # NoToken /\ session[s].status = "active"
    BY DEF ChangeCommit, IInv, RequestOf
  <1>2. account[u] \in AccountRow /\ account[u].era \in Nat /\ account[u].era + 1 \in Eras
    BY <1>1, BoundsAssumption DEF ChangeCommit, IInv, Rows, AccountRow, Eras
  <1>3. /\ row \in AccountRow
        /\ row.active = account[u].active
        /\ row.password = account[u].password + 1
        /\ row.changes = account[u].changes + 1
        /\ row.era = account[u].era + 1
    BY <1>2 DEF AccountRow, NewPassword
  <1>4. account' = [account EXCEPT ![u] = row]
    BY DEF ChangeCommit
  <1>5. /\ account' \in [Users -> AccountRow]
        /\ account'[u] = row
        /\ \A w \in Users : w # u => account'[w] = account[w]
    BY <1>1, <1>3, <1>4 DEF IInv, Rows
  <1>6. n # NoToken
    BY <1>1, TokenFacts
  <1>7. \A z \in Sessions :
          /\ rest[z] \in SessionRow
          /\ rest[z].user = session[z].user
          /\ rest[z].hash = session[z].hash
          /\ rest[z].born = session[z].born
          /\ rest[z].status = "none" <=> session[z].status = "none"
          /\ rest[z].status = "active" <=>
               session[z].status = "active" /\ (session[z].user = u => z = s)
    BY <1>1, RevokedRows DEF SessionsKept
  <1>8. rest \in [Sessions -> SessionRow]
    BY <1>7 DEF RevokeSessions
  <1>9. session' = [rest EXCEPT ![s] = [rest[s] EXCEPT !.hash = n,
                                                       !.born = account[u].era + 1]]
    BY <1>1, <1>8 DEF ChangeCommit, SessionRow
  <1>10. /\ [rest[s] EXCEPT !.hash = n, !.born = account[u].era + 1] \in SessionRow
         /\ [rest[s] EXCEPT !.hash = n, !.born = account[u].era + 1].user = u
         /\ [rest[s] EXCEPT !.hash = n, !.born = account[u].era + 1].hash = n
         /\ [rest[s] EXCEPT !.hash = n, !.born = account[u].era + 1].status = "active"
         /\ [rest[s] EXCEPT !.hash = n, !.born = account[u].era + 1].born
              = account[u].era + 1
    BY <1>1, <1>2, <1>7 DEF SessionRow
  <1>11. /\ session' \in [Sessions -> SessionRow]
         /\ session'[s].user = u /\ session'[s].hash = n
         /\ session'[s].status = "active" /\ session'[s].born = account[u].era + 1
         /\ \A z \in Sessions : z # s => session'[z] = rest[z]
    BY <1>1, <1>8, <1>9, <1>10
  <1>12. /\ granted' \in [Sessions -> SUBSET Seconds]
         /\ spent' \in [Sessions -> SUBSET Seconds]
         /\ \A z \in Sessions : z # s => granted'[z] = granted[z] /\ spent'[z] = spent[z]
         /\ n \notin spent'[s]
    BY <1>1 DEF ChangeCommit, IInv, Rows
  <1>13. End(r) /\ UNCHANGED <<link, clock>>
    BY DEF ChangeCommit
  <1>14. Rows'
    BY <1>5, <1>11, <1>12, <1>13, EndedRows DEF IInv, Rows
  <1>15. \A z \in Sessions : SessionOf(z)'
    <2>0. TAKE z \in Sessions
    <2>1. CASE z = s
      BY <1>1, <1>3, <1>5, <1>6, <1>11, <1>12, <2>1 DEF SessionOf
    <2>2. CASE z # s
      <3>1. SessionOf(z)
        BY DEF IInv
      <3>2. session'[z].status = "active" =>
              account'[session[z].user] = account[session[z].user]
        BY <1>5, <1>7, <1>11, <2>2, <3>1 DEF SessionOf
      <3>3. QED
        BY <1>7, <1>11, <1>12, <2>2, <3>1, <3>2 DEF SessionOf
    <2>3. QED
      BY <2>1, <2>2
  <1>16. \A q \in Requests : RequestOf(request[q])'
    <2>1. TAKE q \in Requests
    <2>2. CASE q = r
      BY <1>13, <2>2, EndedRows, RequestIdle
    <2>3. CASE q # r
      <3>1. request'[q] = request[q]
        BY <1>13, <2>3, EndedRows
      <3>2. request[q].kind = "issue" =>
              request[q].session \in Sessions /\ request[q].session # s
        BY <1>1 DEF IInv, RequestOf
      <3>3. \A w \in Users : account'[w].active = account[w].active
        BY <1>3, <1>5
      <3>4. \A z \in Sessions : session[z].user \in Users =>
               /\ session'[z].user = session[z].user
               /\ session[z].hash # NoToken => session'[z].hash # NoToken
               /\ session'[z].status = "active" => session[z].status = "active"
        BY <1>1, <1>6, <1>7, <1>11
      <3>5. request[q].kind = "issue" =>
               session'[request[q].session].hash = session[request[q].session].hash
        BY <1>7, <1>11, <3>2
      <3>6. QED
        BY <1>13, <3>1, <3>3, <3>4, <3>5, RequestKept
    <2>4. QED
      BY <2>2, <2>3
  <1>17. IssueInv' /\ LinkInv'
    BY <1>13, EndedRows, LinksKeptInv
  <1>18. PasswordsAccountedFor'
    <2>1. \A w \in Users : UsedLinks(w)' = UsedLinks(w)
      BY <1>13, UsedLinksSame
    <2>2. \A w \in Users :
            account[w].password = account[w].changes + Cardinality(UsedLinks(w))
      BY DEF IInv, PasswordsAccountedFor
    <2>3. IsFiniteSet(UsedLinks(u)) /\ Cardinality(UsedLinks(u)) \in Nat
      <3>1. UsedLinks(u) \subseteq Links /\ IsFiniteSet(Links)
        BY BoundsAssumption, FS_Interval DEF UsedLinks, Links
      <3>2. QED
        BY <3>1, FS_Subset, FS_CardinalityType
    <2>4. account'[u].password = account'[u].changes + Cardinality(UsedLinks(u))
      BY <1>1, <1>2, <1>3, <1>5, <2>2, <2>3 DEF AccountRow
    <2>5. \A w \in Users :
            account'[w].password = account'[w].changes + Cardinality(UsedLinks(w))
      BY <1>5, <2>2, <2>4
    <2>6. QED
      BY <2>1, <2>5 DEF PasswordsAccountedFor
  <1>19. QED
    BY <1>14, <1>15, <1>16, <1>17, <1>18 DEF IInv

-----------------------------------------------------------------------------
(* Reset links *)

LEMMA LinkRowsAfter ==
    ASSUME IInv, NEW u \in Users, NEW kept, NEW j \in Links
    PROVE  /\ RevokeLinks(u, kept)[j] \in LinkRow
           /\ RevokeLinks(u, kept)[j].user = link[j].user
           /\ RevokeLinks(u, kept)[j].status =
                IF link[j].status = "active" /\ link[j].user = u /\ j \notin kept
                THEN "revoked" ELSE link[j].status
  <1>1. link[j] \in LinkRow
    BY DEF IInv, Rows
  <1>2. QED
    BY <1>1, RevokedLink DEF RevokeLinks

\* Sessions and accounts are untouched by ForgotCreate and MailFailed.
LEMMA LinkStep ==
    ASSUME IInv, NEW r \in Requests, UNCHANGED <<account, session, granted, spent, clock>>,
           link' \in [Links -> LinkRow], request' \in [Requests -> RequestRow],
           \A q \in Requests : q # r => request'[q] = request[q],
           request'[r].kind # "issue",
           RequestOf(request[r])', LinkInv',
           \A j \in Links : /\ link[j].user \in Users => link'[j].user = link[j].user
                            /\ link'[j].status = "used" <=> link[j].status = "used"
    PROVE  IInv'
  <1>1. Rows'
    BY DEF IInv, Rows
  <1>2. \A z \in Sessions : SessionOf(z)'
    BY DEF IInv, SessionOf
  <1>3. ASSUME NEW q \in Requests, q # r PROVE RequestOf(request[q])'
    BY <1>3, RequestKept
  <1>4. IssueInv'
    BY IssueKept
  <1>5. \A u \in Users : UsedLinks(u)' = UsedLinks(u)
    <2>1. \A j \in Links : link[j].status = "used" => link'[j].user = link[j].user
      BY DEF IInv, LinkInv, OwnedLink
    <2>2. QED
      BY <2>1 DEF UsedLinks
  <1>6. PasswordsAccountedFor'
    BY <1>5, PasswordsKept
  <1>7. QED
    BY <1>1, <1>2, <1>3, <1>4, <1>6 DEF IInv

LEMMA ForgotCreateInv ==
    ASSUME IInv, NEW r \in Requests, NEW k \in Links, ForgotCreate(r, k)
    PROVE  IInv'
  <1> DEFINE u == request[r].user
             rest == RevokeLinks(u, LinksKept(k))
  <1>1. u \in Users /\ link[k].status = "none" /\ link[k].user \notin Users
    BY DEF ForgotCreate, IInv, RequestOf, LinkInv, OwnedLink
  <1>2. \A j \in Links :
          /\ rest[j] \in LinkRow
          /\ rest[j].user = link[j].user
          /\ rest[j].status = IF link[j].status = "active" /\ link[j].user = u /\ j # k
                              THEN "revoked" ELSE link[j].status
    BY <1>1, LinkRowsAfter DEF LinksKept
  <1>3. rest \in [Links -> LinkRow]
    BY <1>2 DEF RevokeLinks
  <1>4. /\ link' \in [Links -> LinkRow]
        /\ link'[k].user = u /\ link'[k].status = "active"
        /\ \A j \in Links : j # k => link'[j] = rest[j]
    <2> DEFINE new == [NoLinkRow EXCEPT !.user = u, !.status = "active"]
    <2>1. new \in LinkRow /\ new.user = u /\ new.status = "active"
      BY <1>1 DEF NoLinkRow, LinkRow
    <2>2. link' = [rest EXCEPT ![k] = new]
      BY DEF ForgotCreate
    <2>3. QED
      BY <1>3, <2>1, <2>2
  <1>5. /\ request' \in [Requests -> RequestRow]
        /\ \A q \in Requests : q # r => request'[q] = request[q]
        /\ request'[r].kind = "mail" /\ request'[r].link = k
        /\ request'[r].user = u
    <2> DEFINE row == [request[r] EXCEPT !.kind = "mail", !.link = k]
    <2>1. request[r] \in RequestRow /\ request \in [Requests -> RequestRow]
      BY DEF IInv, Rows
    <2>2. request' = [request EXCEPT ![r] = row]
      BY <2>1 DEF ForgotCreate, RequestRow
    <2>3. row \in RequestRow /\ row.kind = "mail" /\ row.link = k /\ row.user = u
      BY <2>1 DEF RequestRow, Kinds
    <2>4. QED
      BY <2>1, <2>2, <2>3
  <1>6. RequestOf(request[r])'
    BY <1>1, <1>4, <1>5 DEF RequestOf
  <1>7. LinkInv'
    <2>1. \A j \in Links : OwnedLink(j)'
      <3>1. TAKE j \in Links
      <3>2. CASE j = k
        BY <1>1, <1>4, <3>2 DEF OwnedLink
      <3>3. CASE j # k
        BY <1>2, <1>4, <3>3 DEF OwnedLink, IInv, LinkInv
      <3>4. QED
        BY <3>2, <3>3
    <2>2. \A j \in Links : link[j].status = "none" <=> rest[j].status = "none"
      BY <1>2
    <2>3. \A j \in Links : j < k => link[j].status # "none"
      BY BoundsAssumption DEF ForgotCreate, Links
    <2>4. \A j \in Links : j \in Int
      BY BoundsAssumption DEF Links
    <2>5. LinksInOrder'
      <3>1. SUFFICES ASSUME NEW i \in Links, NEW j \in Links, i <= j,
                            link'[j].status # "none"
                     PROVE  link'[i].status # "none"
        BY DEF LinksInOrder
      <3>2. CASE i = k
        BY <1>4, <3>2
      <3>3. CASE i # k /\ j = k
        BY <1>4, <2>2, <2>3, <2>4, <3>1, <3>3
      <3>4. CASE i # k /\ j # k
        <4>1. link[j].status # "none"
          BY <1>4, <2>2, <3>1, <3>4
        <4>2. link[i].status # "none"
          BY <3>1, <4>1 DEF IInv, LinkInv, LinksInOrder
        <4>3. QED
          BY <1>4, <2>2, <3>4, <4>2
      <3>5. QED
        BY <3>2, <3>3, <3>4
    <2>6. \A j \in Links : link[j].status # "none" => j < k
      <3>1. TAKE j \in Links
      <3>2. k <= j => link[j].status = "none"
        BY <1>1 DEF IInv, LinkInv, LinksInOrder
      <3>3. QED
        BY <2>4, <3>2
    <2>7. OnlyLastLinkWorks'
      <3>1. SUFFICES ASSUME NEW j \in Links, NEW i \in Links,
                            link'[j].status = "active", link'[i].user = link'[j].user
                     PROVE  i <= j
        BY DEF OnlyLastLinkWorks
      <3>2. CASE j = k
        <4>1. i # k => link[i].user \in Users
          BY <1>1, <1>2, <1>4, <3>1, <3>2
        <4>2. i # k => i < k
          BY <2>6, <4>1 DEF IInv, LinkInv, OwnedLink
        <4>3. QED
          BY <2>4, <3>2, <4>2
      <3>3. CASE j # k
        <4>1. link[j].status = "active" /\ link[j].user # u /\ link'[j].user = link[j].user
          BY <1>2, <1>4, <3>1, <3>3
        <4>2. i # k /\ link[i].user = link[j].user
          BY <1>2, <1>4, <3>1, <4>1
        <4>3. QED
          BY <4>1, <4>2 DEF IInv, LinkInv, OnlyLastLinkWorks
      <3>4. QED
        BY <3>2, <3>3
    <2>8. QED
      BY <2>1, <2>5, <2>7 DEF LinkInv
  <1>8. \A j \in Links : /\ link[j].user \in Users => link'[j].user = link[j].user
                         /\ link'[j].status = "used" <=> link[j].status = "used"
    BY <1>1, <1>2, <1>4
  <1>9. UNCHANGED <<account, session, granted, spent, clock>>
    BY DEF ForgotCreate
  <1>10. request'[r].kind # "issue"
    BY <1>5
  <1>11. QED
    BY <1>4, <1>5, <1>6, <1>7, <1>8, <1>9, <1>10, LinkStep

\* Links that only leave the active state stay in order.
LEMMA LinksEnded ==
    ASSUME IInv,
           \A j \in Links : /\ link'[j].user = link[j].user
                            /\ link'[j].status = "none" <=> link[j].status = "none"
                            /\ link'[j].status = "active" => link[j].status = "active"
    PROVE  LinkInv'
  <1>1. \A j \in Links : OwnedLink(j)'
    BY DEF IInv, LinkInv, OwnedLink
  <1>2. LinksInOrder'
    BY DEF IInv, LinkInv, LinksInOrder
  <1>3. OnlyLastLinkWorks'
    BY DEF IInv, LinkInv, OnlyLastLinkWorks
  <1>4. QED
    BY <1>1, <1>2, <1>3 DEF LinkInv

LEMMA MailFailedInv ==
    ASSUME IInv, NEW r \in Requests, MailFailed(r)
    PROVE  IInv'
  <1> DEFINE k == request[r].link
  <1>1. k \in Links /\ End(r) /\ UNCHANGED <<account, session, granted, spent, clock>>
    BY DEF MailFailed, IInv, RequestOf
  <1>2. link \in [Links -> LinkRow] /\ link[k] \in LinkRow
    BY <1>1 DEF IInv, Rows
  <1>3. link' \in [Links -> LinkRow]
    BY <1>1, <1>2, RevokedLink DEF MailFailed
  <1>4. \A j \in Links :
          /\ link'[j].user = link[j].user
          /\ link'[j].status = "none" <=> link[j].status = "none"
          /\ link'[j].status = "active" => link[j].status = "active"
          /\ link'[j].status = "used" <=> link[j].status = "used"
    BY <1>1, <1>2, RevokedLink DEF MailFailed
  <1>5. LinkInv'
    BY <1>4, LinksEnded
  <1>6. Idle.kind # "issue"
    BY DEF Idle
  <1>7. RequestOf(request[r])' /\ request'[r].kind # "issue"
    BY <1>1, <1>6, EndedRows, RequestIdle
  <1>8. request' \in [Requests -> RequestRow]
        /\ \A q \in Requests : q # r => request'[q] = request[q]
    BY <1>1, EndedRows
  <1>9. QED
    BY <1>1, <1>3, <1>4, <1>5, <1>7, <1>8, LinkStep

LEMMA UsedLinksFinite ==
    ASSUME NEW u \in Users
    PROVE  UsedLinks(u) \subseteq Links /\ IsFiniteSet(UsedLinks(u))
           /\ Cardinality(UsedLinks(u)) \in Nat
  <1>1. UsedLinks(u) \subseteq Links /\ IsFiniteSet(Links)
    BY BoundsAssumption, FS_Interval DEF UsedLinks, Links
  <1>2. QED
    BY <1>1, FS_Subset, FS_CardinalityType

LEMMA UsedRow ==
    ASSUME NEW row \in LinkRow
    PROVE  /\ [row EXCEPT !.status = "used"] \in LinkRow
           /\ [row EXCEPT !.status = "used"].user = row.user
           /\ [row EXCEPT !.status = "used"].status = "used"
  BY DEF LinkRow

LEMMA ResetCommitInv ==
    ASSUME IInv, NEW r \in Requests, ResetCommit(r)
    PROVE  IInv'
  <1>1. PICK u \in Users, k \in Links :
          u = request[r].user /\ k = request[r].link /\ link[k].user = u
    BY DEF ResetCommit, IInv, RequestOf
  <1> DEFINE row == NewPassword(account[u], 0)
             rest == RevokeLinks(u, {k})
  <1>2. /\ link[k].status = "active"
        /\ account[u].era < MaxEras
        /\ account' = [account EXCEPT ![u] = row]
        /\ session' = RevokeSessions(u, {})
        /\ link' = [rest EXCEPT ![k].status = "used"]
        /\ End(r)
        /\ UNCHANGED <<granted, spent, clock>>
    BY <1>1 DEF ResetCommit, MayReset
  <1>3. account[u] \in AccountRow /\ account[u].era \in Nat /\ account[u].era + 1 \in Eras
    BY <1>2, BoundsAssumption DEF IInv, Rows, AccountRow, Eras
  <1>4. /\ row \in AccountRow
        /\ row.active = account[u].active
        /\ row.password = account[u].password + 1
        /\ row.changes = account[u].changes
    BY <1>3 DEF AccountRow, NewPassword
  <1>5. /\ account' \in [Users -> AccountRow]
        /\ account'[u] = row
        /\ \A w \in Users : w # u => account'[w] = account[w]
    BY <1>2, <1>4 DEF IInv, Rows
  <1>6. /\ session' \in [Sessions -> SessionRow]
        /\ \A z \in Sessions : SessionOf(z)'
        /\ \A z \in Sessions :
             /\ session'[z].user = session[z].user
             /\ session'[z].hash = session[z].hash
             /\ session'[z].status = "active" =>
                  session[z].status = "active" /\ session[z].user # u
    BY <1>2, <1>5, AllRevoked
  <1>7. \A j \in Links :
          /\ rest[j] \in LinkRow
          /\ rest[j].user = link[j].user
          /\ rest[j].status = IF link[j].status = "active" /\ link[j].user = u /\ j # k
                              THEN "revoked" ELSE link[j].status
    BY LinkRowsAfter
  <1>8. rest \in [Links -> LinkRow]
    BY <1>7 DEF RevokeLinks
  <1>9. /\ link' \in [Links -> LinkRow]
        /\ link'[k].status = "used" /\ link'[k].user = u
        /\ \A j \in Links : j # k => link'[j] = rest[j]
    <2> DEFINE new == [rest[k] EXCEPT !.status = "used"]
    <2>1. new \in LinkRow /\ new.user = u /\ new.status = "used"
      <3>1. rest[k] \in LinkRow /\ rest[k].user = u
        BY <1>1, <1>7
      <3>2. QED
        BY <3>1, UsedRow
    <2>2. link' = [rest EXCEPT ![k] = new]
      BY <1>2
    <2> HIDE DEF new, rest
    <2>3. QED
      BY <1>8, <2>1, <2>2
  <1>10. Rows'
    BY <1>2, <1>5, <1>6, <1>9, EndedRows DEF IInv, Rows
  <1>11. LinkInv'
    <2>1. \A j \in Links : /\ link'[j].user = link[j].user
                           /\ link'[j].status = "none" <=> link[j].status = "none"
                           /\ link'[j].status = "active" => link[j].status = "active"
      <3>1. TAKE j \in Links
      <3>2. CASE j = k
        BY <1>1, <1>2, <1>9, <3>2
      <3>3. CASE j # k
        BY <1>7, <1>9, <3>3
      <3>4. QED
        BY <3>2, <3>3
    <2>2. QED
      BY <2>1, LinksEnded
  <1>12. \A q \in Requests : RequestOf(request[q])'
    <2>1. TAKE q \in Requests
    <2>2. CASE q = r
      BY <1>2, <2>2, EndedRows, RequestIdle
    <2>3. CASE q # r
      <3>1. request'[q] = request[q]
        BY <1>2, <2>3, EndedRows
      <3>2. request[q].kind = "issue" => request[q].session \in Sessions
        BY DEF IInv, RequestOf
      <3>3. \A w \in Users : account'[w].active = account[w].active
        BY <1>4, <1>5
      <3>4. \A j \in Links : link'[j].user = link[j].user
        BY <1>1, <1>7, <1>9
      <3>5. QED
        BY <1>6, <3>1, <3>2, <3>3, <3>4, RequestKept
    <2>4. QED
      BY <2>2, <2>3
  <1>13. IssueInv'
    BY <1>2, EndedRows
  <1>14. PasswordsAccountedFor'
    <2>1. UsedLinks(u)' = UsedLinks(u) \cup {k} /\ k \notin UsedLinks(u)
      <3>1. \A j \in Links : link'[j].user = u /\ link'[j].status = "used" <=>
               (link[j].user = u /\ link[j].status = "used") \/ j = k
        <4>1. \A j \in Links : j # k =>
                 link'[j].user = link[j].user /\ link'[j].status = rest[j].status
          BY <1>7, <1>9
        <4>2. \A j \in Links : rest[j].status = "used" <=> link[j].status = "used"
          BY <1>7
        <4>3. QED
          BY <1>9, <4>1, <4>2
      <3>2. QED
        BY <1>2, <3>1 DEF UsedLinks
    <2>2. ASSUME NEW w \in Users, w # u PROVE UsedLinks(w)' = UsedLinks(w)
      <3>1. ASSUME NEW j \in Links
            PROVE  link'[j].user = w /\ link'[j].status = "used" <=>
                      link[j].user = w /\ link[j].status = "used"
        <4>1. CASE j = k
          BY <1>1, <1>9, <2>2, <4>1
        <4>2. CASE j # k
          <5>1. link'[j].user = link[j].user /\ link'[j].status = rest[j].status
            BY <1>7, <1>9, <4>2
          <5>2. rest[j].status = "used" <=> link[j].status = "used"
            BY <1>7
          <5>3. QED
            BY <5>1, <5>2
        <4>3. QED
          BY <4>1, <4>2
      <3>2. QED
        BY <3>1 DEF UsedLinks
    <2>3. Cardinality(UsedLinks(u)') = Cardinality(UsedLinks(u)) + 1
      BY <2>1, UsedLinksFinite, FS_AddElement
    <2>4. \A w \in Users :
            account[w].password = account[w].changes + Cardinality(UsedLinks(w))
      BY DEF IInv, PasswordsAccountedFor
    <2>5. account[u].changes \in Nat /\ Cardinality(UsedLinks(u)) \in Nat
      BY <1>3, UsedLinksFinite DEF AccountRow
    <2>6. account'[u].password = account'[u].changes + Cardinality(UsedLinks(u)')
      BY <1>4, <1>5, <2>3, <2>4, <2>5
    <2>7. \A w \in Users :
            account'[w].password = account'[w].changes + Cardinality(UsedLinks(w)')
      BY <1>5, <2>2, <2>4, <2>6
    <2>8. QED
      BY <2>7 DEF PasswordsAccountedFor
  <1>15. QED
    BY <1>6, <1>10, <1>11, <1>12, <1>13, <1>14 DEF IInv

-----------------------------------------------------------------------------
(* Accounts and time *)

LEMMA DisableInv ==
    ASSUME IInv, NEW u \in Users, Disable(u)
    PROVE  IInv'
  <1> DEFINE row == [account[u] EXCEPT !.active = FALSE, !.era = @ + 1]
  <1>1. account[u] \in AccountRow /\ account[u].era \in Nat /\ account[u].era + 1 \in Eras
    BY BoundsAssumption DEF Disable, IInv, Rows, AccountRow, Eras
  <1>2. row \in AccountRow /\ row.password = account[u].password
        /\ row.changes = account[u].changes
    BY <1>1 DEF AccountRow
  <1>3. account' = [account EXCEPT ![u] = row]
    BY <1>1 DEF Disable, IInv, Rows, AccountRow
  <1>4. /\ account' \in [Users -> AccountRow]
        /\ account'[u] = row
        /\ \A w \in Users : w # u => account'[w] = account[w]
    BY <1>2, <1>3 DEF IInv, Rows
  <1>5. /\ session' = RevokeSessions(u, {})
        /\ UNCHANGED <<link, request, granted, spent, clock>>
    BY DEF Disable
  <1>6. /\ session' \in [Sessions -> SessionRow]
        /\ \A z \in Sessions : SessionOf(z)'
        /\ \A z \in Sessions :
             /\ session'[z].user = session[z].user
             /\ session'[z].hash = session[z].hash
             /\ session'[z].status = "active" =>
                  session[z].status = "active" /\ session[z].user # u
    BY <1>4, <1>5, AllRevoked
  <1>7. Rows'
    BY <1>4, <1>5, <1>6 DEF IInv, Rows
  <1>8. \A q \in Requests : RequestOf(request[q])'
    <2>1. TAKE q \in Requests
    <2>2. request[q].kind = "issue" => request[q].session \in Sessions
      BY DEF IInv, RequestOf
    <2>3. QED
      BY <1>4, <1>5, <1>6, <2>2, RequestKept
  <1>9. IssueInv' /\ LinkInv' /\ PasswordsAccountedFor'
    BY <1>2, <1>4, <1>5, IssueKept, LinksKeptInv, PasswordsKept, UsedLinksSame
  <1>10. QED
    BY <1>6, <1>7, <1>8, <1>9 DEF IInv

LEMMA ActivateInv ==
    ASSUME IInv, NEW u \in Users, Activate(u)
    PROVE  IInv'
  <1> DEFINE row == [account[u] EXCEPT !.active = TRUE]
  <1>1. /\ row \in AccountRow /\ row.active = TRUE
        /\ row.password = account[u].password
        /\ row.changes = account[u].changes
        /\ row.era = account[u].era
    BY DEF IInv, Rows, AccountRow
  <1>2. account' = [account EXCEPT ![u] = row]
    BY DEF Activate, IInv, Rows, AccountRow
  <1>3. /\ account' \in [Users -> AccountRow]
        /\ account'[u] = row
        /\ \A w \in Users : w # u => account'[w] = account[w]
    BY <1>1, <1>2 DEF IInv, Rows
  <1>4. UNCHANGED <<session, link, request, granted, spent, clock>>
    BY DEF Activate
  <1>5. Rows'
    BY <1>3, <1>4 DEF IInv, Rows
  <1>6. \A z \in Sessions : SessionOf(z)'
    <2>1. TAKE z \in Sessions
    <2>2. session[z].status = "active" =>
            account'[session[z].user].era = account[session[z].user].era
      BY <1>1, <1>3 DEF IInv, SessionOf
    <2>3. QED
      BY <1>4, <2>2 DEF IInv, SessionOf
  <1>7. \A q \in Requests : RequestOf(request[q])'
    BY <1>1, <1>3, <1>4, RequestKept
  <1>8. IssueInv' /\ LinkInv' /\ PasswordsAccountedFor'
    BY <1>1, <1>3, <1>4, IssueKept, LinksKeptInv, PasswordsKept, UsedLinksSame
  <1>9. QED
    BY <1>5, <1>6, <1>7, <1>8 DEF IInv

LEMMA QuietInv ==
    ASSUME IInv, UNCHANGED <<account, session, link, request, granted, spent>>,
           clock' \in Seconds
    PROVE  IInv'
  <1>1. Rows'
    BY DEF IInv, Rows
  <1>2. \A z \in Sessions : SessionOf(z)'
    BY DEF IInv, SessionOf
  <1>3. \A q \in Requests : RequestOf(request[q])'
    BY RequestKept
  <1>4. IssueInv' /\ LinkInv' /\ PasswordsAccountedFor'
    BY IssueKept, LinksKeptInv, PasswordsKept, UsedLinksSame
  <1>5. QED
    BY <1>1, <1>2, <1>3, <1>4 DEF IInv

-----------------------------------------------------------------------------
(* The invariant *)

LEMMA InitInv == Init => IInv
  <1> SUFFICES ASSUME Init PROVE IInv
    OBVIOUS
  <1>1. 0 \in Eras /\ 0 \in Seconds
    BY BoundsAssumption DEF Eras, Seconds
  <1>2. NoSessionRow \in SessionRow /\ NoLinkRow \in LinkRow
        /\ [active |-> TRUE, password |-> 0, changes |-> 0, era |-> 0] \in AccountRow
    BY <1>1 DEF NoSessionRow, SessionRow, NoLinkRow, LinkRow, AccountRow
  <1>3. Rows
    BY <1>1, <1>2, IdleRow DEF Init, Rows
  <1>4. \A s \in Sessions : SessionOf(s)
    BY NullFacts DEF Init, SessionOf, NoSessionRow
  <1>5. LinkInv
    BY NullFacts DEF Init, LinkInv, OwnedLink, LinksInOrder, OnlyLastLinkWorks, NoLinkRow
  <1>6. (\A r \in Requests : RequestOf(request[r])) /\ IssueInv
    BY DEF Init, RequestOf, IssueInv, Idle
  <1>7. PasswordsAccountedFor
    <2>1. \A u \in Users : UsedLinks(u) = {}
      BY DEF Init, UsedLinks, NoLinkRow
    <2>2. \A u \in Users : account[u].password = 0 /\ account[u].changes = 0
      BY DEF Init
    <2>3. Cardinality({}) = 0
      BY FS_EmptySet
    <2>4. QED
      BY <2>1, <2>2, <2>3 DEF PasswordsAccountedFor
  <1>8. QED
    BY <1>3, <1>4, <1>5, <1>6, <1>7 DEF IInv

LEMMA RequestStepInv ==
    ASSUME IInv, NEW r \in Requests, RequestStep(r)
    PROVE  IInv'
  <1>1. CASE \E u \in Users : LoginVerify(r, u) \/ GoogleVerify(r, u) \/ ForgotRead(r, u)
    BY <1>1, LoginVerifyInv
  <1>2. CASE \E s \in Sessions : LoginCreate(r, s) \/ ChangeRead(r, s)
    BY <1>2, LoginCreateInv, ChangeReadInv
  <1>3. CASE \E s \in Sessions : \E t \in Seconds : RefreshRead(r, s, t)
    BY <1>3, RefreshReadInv
  <1>4. CASE LoginIssue(r)
    BY <1>4, LoginIssueInv
  <1>5. CASE LoginFail(r) \/ RefreshRevoke(r)
    BY <1>5, RevokeStepInv
  <1>6. CASE RefreshRotate(r)
    BY <1>6, RefreshRotateInv
  <1>7. CASE RefreshLost(r) \/ RequestEnds(r)
    BY <1>7, Ended DEF RefreshLost, RequestEnds
  <1>8. CASE ChangeCommit(r)
    BY <1>8, ChangeCommitInv
  <1>9. CASE \E k \in Links : ForgotCreate(r, k) \/ ResetRead(r, k)
    BY <1>9, ForgotCreateInv, ResetReadInv
  <1>10. CASE MailFailed(r)
    BY <1>10, MailFailedInv
  <1>11. CASE ResetCommit(r)
    BY <1>11, ResetCommitInv
  <1>12. QED
    BY <1>1, <1>2, <1>3, <1>4, <1>5, <1>6, <1>7, <1>8, <1>9, <1>10, <1>11
    DEF RequestStep

LEMMA NextInv == IInv /\ [Next]_vars => IInv'
  <1> SUFFICES ASSUME IInv, [Next]_vars PROVE IInv'
    OBVIOUS
  <1>1. CASE \E r \in Requests : RequestStep(r)
    BY <1>1, RequestStepInv
  <1>2. CASE \E s \in Sessions : Logout(s)
    BY <1>2, LogoutInv
  <1>3. CASE \E u \in Users : Disable(u) \/ Activate(u)
    BY <1>3, DisableInv, ActivateInv
  <1>4. CASE Tick
    <2>1. clock' \in Seconds
      BY <1>4, BoundsAssumption DEF Tick, IInv, Rows, Seconds
    <2>2. QED
      BY <1>4, <2>1, QuietInv DEF Tick
  <1>5. CASE UNCHANGED vars
    BY <1>5, QuietInv DEF vars, IInv, Rows
  <1>6. QED
    BY <1>1, <1>2, <1>3, <1>4, <1>5 DEF Next

LEMMA Inductive == Spec => []IInv
  BY InitInv, NextInv, PTL DEF Spec

-----------------------------------------------------------------------------
(* Invariants *)

\* Every row has its shape in every reachable state, every session, link and
\* request belongs to a user, and a request names only rows of its user.
THEOREM SessionTypeCorrect == Spec => []TypeOK
  <1>1. IInv => TypeOK
    <2> SUFFICES ASSUME IInv PROVE TypeOK
      OBVIOUS
    <2>1. \A s \in Sessions : OwnedSession(s)
      BY DEF IInv, SessionOf, OwnedSession
    <2>2. \A k \in Links : OwnedLink(k)
      BY DEF IInv, LinkInv
    <2>3. \A r \in Requests : NamesRows(r)
      BY DEF IInv, RequestOf, NamesRows
    <2>4. QED
      BY <2>1, <2>2, <2>3 DEF IInv, Rows, TypeOK
  <1>2. QED
    BY Inductive, <1>1, PTL

\* No session outlives a password reset, a password change made elsewhere or the
\* disabling of its user, however these interleave with logins and refreshes.
THEOREM RevocationCorrect == Spec => []NoSessionOutlivesRevocation
  <1>1. IInv => NoSessionOutlivesRevocation
    BY DEF IInv, SessionOf, NoSessionOutlivesRevocation
  <1>2. QED
    BY Inductive, <1>1, PTL

\* At any time at most the link created last can reset a user's password.
THEOREM LinksCorrect == Spec => []OnlyLastLinkWorks
  <1>1. IInv => OnlyLastLinkWorks
    BY DEF IInv, LinkInv
  <1>2. QED
    BY Inductive, <1>1, PTL

\* Every password ever set is one change or one used link: a reset link sets at
\* most one password.
THEOREM PasswordsCorrect == Spec => []PasswordsAccountedFor
  <1>1. IInv => PasswordsAccountedFor
    BY DEF IInv
  <1>2. QED
    BY Inductive, <1>1, PTL

-----------------------------------------------------------------------------
(* Action properties *)

\* A refresh token that was replaced is never rotated again.
THEOREM RotationCorrect == Spec => SpentTokenBuysNothing
  <1> DEFINE Fresh == \A r \in Requests : RefreshRotate(r) =>
                         request[r].token \notin spent[request[r].session]
  <1>1. IInv => Fresh
    <2> SUFFICES ASSUME IInv, NEW r \in Requests, RefreshRotate(r)
                 PROVE  request[r].token \notin spent[request[r].session]
      OBVIOUS
    <2>1. request[r].session \in Sessions
      BY DEF RefreshRotate, IInv, RequestOf
    <2>2. session[request[r].session].hash = request[r].token
      BY DEF RefreshRotate, RotateIfCurrent
    <2>3. QED
      BY <2>1, <2>2 DEF IInv, SessionOf
  <1>2. IInv /\ [Next]_vars => [Fresh]_vars
    BY <1>1
  <1>3. QED
    BY Inductive, <1>2, PTL DEF Spec, SpentTokenBuysNothing

LEMMA EndedSessionKept ==
    ASSUME NEW row \in SessionRow, row.status # "active"
    PROVE  Revoked(row) = row
  BY DEF Revoked, SessionRow

LEMMA EndedLinkKept ==
    ASSUME NEW row \in LinkRow, row.status # "active"
    PROVE  Revoked(row) = row
  BY DEF Revoked, LinkRow

\* A session revoked after its tokens were handed out keeps its row and gets no
\* further token, in any step.
LEMMA RevokedSessionStep ==
    ASSUME IInv, [Next]_vars, NEW s \in Sessions,
           session[s].status = "revoked", session[s].hash # NoToken
    PROVE  session'[s] = session[s] /\ granted'[s] = granted[s]
  <1>1. session \in [Sessions -> SessionRow] /\ granted \in [Sessions -> SUBSET Seconds]
    BY DEF IInv, Rows
  <1>2. Revoked(session[s]) = session[s]
    BY <1>1, EndedSessionKept
  <1>3. \A u, kept : RevokeSessions(u, kept)[s] = session[s]
    BY <1>2 DEF RevokeSessions
  <1>4. CASE \E r \in Requests : RequestStep(r)
    <2>1. PICK r \in Requests : RequestStep(r)
      BY <1>4
    <2>2. RequestOf(request[r])
      BY DEF IInv
    <2>3. CASE \E u \in Users : LoginVerify(r, u) \/ GoogleVerify(r, u) \/ ForgotRead(r, u)
      BY <2>3 DEF LoginVerify, GoogleVerify, ForgotRead
    <2>4. CASE \E z \in Sessions : LoginCreate(r, z) \/ ChangeRead(r, z)
      BY <1>1, <2>4 DEF LoginCreate, ChangeRead
    <2>5. CASE \E z \in Sessions : \E t \in Seconds : RefreshRead(r, z, t)
      BY <2>5 DEF RefreshRead
    <2>6. CASE LoginIssue(r)
      BY <1>1, <2>2, <2>6 DEF LoginIssue, RequestOf
    <2>7. CASE LoginFail(r) \/ RefreshRevoke(r)
      BY <1>1, <1>2, <2>7 DEF LoginFail, RefreshRevoke
    <2>8. CASE RefreshRotate(r)
      BY <1>1, <2>8 DEF RefreshRotate, RotateIfCurrent
    <2>9. CASE RefreshLost(r) \/ RequestEnds(r)
      BY <2>9 DEF RefreshLost, RequestEnds
    <2>10. CASE ChangeCommit(r)
      <3>1. request[r].session # s
        BY <2>10 DEF ChangeCommit
      <3>2. QED
        BY <1>1, <1>3, <2>10, <3>1 DEF ChangeCommit, RevokeSessions
    <2>11. CASE \E k \in Links : ForgotCreate(r, k) \/ ResetRead(r, k)
      BY <2>11 DEF ForgotCreate, ResetRead
    <2>12. CASE MailFailed(r)
      BY <2>12 DEF MailFailed
    <2>13. CASE ResetCommit(r)
      BY <1>3, <2>13 DEF ResetCommit
    <2>14. QED
      BY <2>1, <2>3, <2>4, <2>5, <2>6, <2>7, <2>8, <2>9, <2>10, <2>11, <2>12, <2>13
      DEF RequestStep
  <1>5. CASE \E z \in Sessions : Logout(z)
    BY <1>1, <1>2, <1>5 DEF Logout
  <1>6. CASE \E u \in Users : Disable(u) \/ Activate(u)
    BY <1>3, <1>6 DEF Disable, Activate
  <1>7. CASE Tick \/ UNCHANGED vars
    BY <1>7 DEF Tick, vars
  <1>8. QED
    BY <1>4, <1>5, <1>6, <1>7 DEF Next

\* A session that was revoked after its login was answered stays dead.
THEOREM DeadCorrect == Spec => RevokedSessionIsDead
  <1> DEFINE Dead == \A s \in Sessions :
               session[s].status = "revoked" /\ session[s].hash # NoToken =>
                   session'[s] = session[s] /\ granted'[s] = granted[s]
  <1>1. IInv /\ [Next]_vars => [Dead]_vars
    BY RevokedSessionStep
  <1>2. QED
    BY Inductive, <1>1, PTL DEF Spec, RevokedSessionIsDead

\* A link that is used or revoked keeps its row in any step.
LEMMA EndedLinkStep ==
    ASSUME IInv, [Next]_vars, NEW k \in Links, link[k].status \in {"used", "revoked"}
    PROVE  link'[k] = link[k]
  <1>1. link \in [Links -> LinkRow]
    BY DEF IInv, Rows
  <1>2. Revoked(link[k]) = link[k]
    BY <1>1, EndedLinkKept
  <1>3. \A u, kept : RevokeLinks(u, kept)[k] = link[k]
    BY <1>2 DEF RevokeLinks
  <1>4. CASE \E r \in Requests : RequestStep(r)
    <2>1. PICK r \in Requests : RequestStep(r)
      BY <1>4
    <2>2. CASE \E j \in Links : ForgotCreate(r, j)
      <3>1. PICK j \in Links : ForgotCreate(r, j)
        BY <2>2
      <3>2. j # k
        BY <3>1 DEF ForgotCreate
      <3>3. QED
        BY <1>3, <3>1, <3>2 DEF ForgotCreate, RevokeLinks
    <2>3. CASE MailFailed(r)
      BY <1>1, <1>2, <2>3 DEF MailFailed
    <2>4. CASE ResetCommit(r)
      <3>1. request[r].link # k
        BY <2>4 DEF ResetCommit, MayReset
      <3>2. QED
        BY <1>3, <2>4, <3>1 DEF ResetCommit, RevokeLinks
    <2>5. CASE UNCHANGED link
      BY <2>5
    <2>6. QED
      BY <2>1, <2>2, <2>3, <2>4, <2>5
      DEF RequestStep, LoginVerify, GoogleVerify, ForgotRead, LoginCreate, ChangeRead,
          RefreshRead, LoginIssue, LoginFail, RefreshRotate, RefreshLost, RefreshRevoke,
          ChangeCommit, ResetRead, RequestEnds
  <1>5. CASE \/ \E s \in Sessions : Logout(s)
             \/ \E u \in Users : Disable(u) \/ Activate(u)
             \/ Tick \/ UNCHANGED vars
    BY <1>5 DEF Logout, Disable, Activate, Tick, vars
  <1>6. QED
    BY <1>4, <1>5 DEF Next

\* A link that was used or replaced, or whose mail failed, never changes again.
THEOREM EndedLinkCorrect == Spec => EndedLinkIsFinal
  <1> DEFINE Final == \A k \in Links :
               link[k].status \in {"used", "revoked"} => link'[k] = link[k]
  <1>1. IInv /\ [Next]_vars => [Final]_vars
    BY EndedLinkStep
  <1>2. QED
    BY Inductive, <1>1, PTL DEF Spec, EndedLinkIsFinal

\* What a step may do to a disabled account: nothing to its password, and nothing
\* to the token of a session that was handed out.
LEMMA DisabledStep ==
    ASSUME IInv, [Next]_vars, NEW u \in Users, ~account[u].active
    PROVE  /\ account'[u].password = account[u].password
           /\ \A s \in Sessions : session[s].user = u /\ session[s].hash # NoToken =>
                                      session'[s].hash = session[s].hash
  <1>1. /\ account \in [Users -> AccountRow]
        /\ session \in [Sessions -> SessionRow]
    BY DEF IInv, Rows
  <1>2. \A z, s \in Sessions : [session EXCEPT ![z] = Revoked(@)][s].hash = session[s].hash
    BY <1>1, RevokedSession
  <1>3. \A w \in Users : \A kept : \A s \in Sessions :
            RevokeSessions(w, kept)[s].hash = session[s].hash
    BY RevokedRows
  <1>4. CASE \E r \in Requests : RequestStep(r)
    <2>1. PICK r \in Requests : RequestStep(r)
      BY <1>4
    <2>2. RequestOf(request[r])
      BY DEF IInv
    <2>3. CASE \E z \in Sessions : LoginCreate(r, z)
      <3>1. PICK z \in Sessions : LoginCreate(r, z)
        BY <2>3
      <3>2. session[z].hash = NoToken
        BY <3>1 DEF LoginCreate, IInv, SessionOf
      <3>3. QED
        BY <1>1, <3>1, <3>2 DEF LoginCreate
    <2>4. CASE LoginIssue(r)
      BY <1>1, <2>2, <2>4 DEF LoginIssue, RequestOf
    <2>5. CASE LoginFail(r) \/ RefreshRevoke(r)
      BY <1>2, <2>2, <2>5 DEF LoginFail, RefreshRevoke, RequestOf
    <2>6. CASE RefreshRotate(r)
      <3>1. session[request[r].session].user # u
        BY <2>2, <2>6 DEF RefreshRotate, RotateIfCurrent, RequestOf
      <3>2. QED
        BY <1>1, <2>6, <3>1 DEF RefreshRotate
    <2>7. CASE ChangeCommit(r)
      <3>1. /\ request[r].user \in Users /\ request[r].user # u
            /\ request[r].session \in Sessions
            /\ session[request[r].session].user = request[r].user
        BY <2>2, <2>7 DEF ChangeCommit, RequestOf
      <3>2. account'[u] = account[u]
        BY <1>1, <2>7, <3>1 DEF ChangeCommit
      <3>3. \A s \in Sessions : s # request[r].session =>
               session'[s].hash = session[s].hash
        BY <1>3, <2>7, <3>1 DEF ChangeCommit, RevokeSessions
      <3>4. QED
        BY <3>1, <3>2, <3>3
    <2>8. CASE ResetCommit(r)
      <3>1. request[r].user \in Users /\ request[r].user # u
        BY <2>2, <2>8 DEF ResetCommit, MayReset, RequestOf
      <3>2. account'[u] = account[u]
        BY <1>1, <2>8, <3>1 DEF ResetCommit
      <3>3. QED
        BY <1>3, <2>8, <3>1, <3>2 DEF ResetCommit
    <2>9. CASE UNCHANGED <<account, session>>
      BY <2>9
    <2>10. QED
      BY <2>1, <2>3, <2>4, <2>5, <2>6, <2>7, <2>8, <2>9
      DEF RequestStep, LoginVerify, GoogleVerify, ForgotRead, ChangeRead, RefreshRead,
          RefreshLost, ForgotCreate, ResetRead, MailFailed, RequestEnds
  <1>5. CASE \E z \in Sessions : Logout(z)
    BY <1>2, <1>5 DEF Logout
  <1>6. CASE \E w \in Users : Disable(w) \/ Activate(w)
    <2>1. PICK w \in Users : Disable(w) \/ Activate(w)
      BY <1>6
    <2>2. account'[u].password = account[u].password
      <3>1. account[w] \in AccountRow
        BY <1>1
      <3>2. \/ account' = [account EXCEPT ![w] = [account[w] EXCEPT !.active = FALSE,
                                                                    !.era = @ + 1]]
            \/ account' = [account EXCEPT ![w] = [account[w] EXCEPT !.active = TRUE]]
        BY <1>1, <2>1, <3>1 DEF Disable, Activate, AccountRow
      <3>3. /\ [account[w] EXCEPT !.active = FALSE, !.era = @ + 1].password
                 = account[w].password
            /\ [account[w] EXCEPT !.active = TRUE].password = account[w].password
        BY <3>1 DEF AccountRow
      <3>4. QED
        BY <1>1, <3>2, <3>3
    <2>3. \A s \in Sessions : session'[s].hash = session[s].hash
      BY <1>3, <2>1 DEF Disable, Activate
    <2>4. QED
      BY <2>2, <2>3
  <1>7. CASE Tick \/ UNCHANGED vars
    BY <1>7 DEF Tick, vars
  <1>8. QED
    BY <1>4, <1>5, <1>6, <1>7 DEF Next

\* While an account is disabled, no request that passed its checks before sets
\* its password or refreshes a session of it.
THEOREM FrozenCorrect == Spec => DisabledAccountIsFrozen
  <1> DEFINE Frozen == \A u \in Users : ~account[u].active =>
               /\ account'[u].password = account[u].password
               /\ \A s \in Sessions :
                    session[s].user = u /\ session[s].hash # NoToken =>
                        session'[s].hash = session[s].hash
  <1>1. IInv /\ [Next]_vars => [Frozen]_vars
    BY DisabledStep
  <1>2. QED
    BY Inductive, <1>1, PTL DEF Spec, DisabledAccountIsFrozen

=============================================================================
