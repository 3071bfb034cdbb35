---------------------------- MODULE AuthSessions ----------------------------
(***************************************************************************)
(* Who is signed in to the bookstore, and with what: login and Google      *)
(* sign-in, refresh-token rotation, logout and password change             *)
(* (auth.service.ts), reset links (password-recovery.service.ts), and the  *)
(* disabling of an account (users.repository.ts).                          *)
(*                                                                         *)
(* Each statement and each Serializable transaction is one action.  A      *)
(* request that checks a password or a token with a read and acts on it    *)
(* with a later write is two actions or three, and the other requests run  *)
(* in between.  The database re-evaluates the condition of an updateMany   *)
(* on the current row, so a conditional update is a guard of its action.   *)
(*                                                                         *)
(* Expiry only ever refuses: a session or a link that has expired behaves  *)
(* as one that nobody uses any more, and is not told apart from it.        *)
(***************************************************************************)
EXTENDS Integers, FiniteSets

CONSTANTS
    Users,           \* customers with a LOCAL account; they may use Google too
    Sessions,        \* the ids of AuthSession rows
    Requests,        \* requests the API may be serving at once
    MaxSecond,       \* bound: seconds of the clock that dates the tokens
    MaxLinks,        \* bound: password reset links created
    MaxEras,         \* bound: mass revocations per user
    NoUser, NoSession

Seconds == 0 .. MaxSecond
Links == 1 .. MaxLinks
Eras == 0 .. MaxEras

NoToken == -1        \* the random hash of a session whose tokens are not signed yet
NoLink == 0
NoPassword == -1

ASSUME BoundsAssumption == MaxSecond \in Nat /\ MaxLinks \in Nat /\ MaxEras \in Nat
ASSUME NullAssumption == NoUser \notin Users /\ NoSession \notin Sessions

VARIABLES
    account,    \* the User rows
    session,    \* the AuthSession rows
    link,       \* the PasswordResetToken rows, in the order of their creation
    request,    \* what a request under way has read
    granted,    \* the refresh tokens of each session that went into cookies
    spent,      \* those that a refresh has replaced by another token
    clock       \* the second a token signed now is dated with

vars == <<account, session, link, request, granted, spent, clock>>

-----------------------------------------------------------------------------
(* Rows.  A refresh token is a JWT over the user, the session and the       *)
(* second of its signature: two tokens of one session signed in the same    *)
(* second are the same token, and the stored hash is that token.            *)

\* passwordHash is a counter: each change writes a new hash.  changes counts the
\* changes made in a session, era every event that revokes the user's sessions.
AccountRow == [active : BOOLEAN, password : Nat, changes : Nat, era : Eras]

SessionRow == [user : Users \cup {NoUser},
               status : {"none", "active", "revoked"},
               hash : Seconds \cup {NoToken},
               born : Eras]      \* the user's era when the row was created

LinkRow == [user : Users \cup {NoUser},
            status : {"none", "active", "used", "revoked"}]

Kinds == {"idle", "login", "issue", "rotate", "revoke", "change", "forgot",
          "mail", "reset"}

RequestRow == [kind : Kinds, user : Users \cup {NoUser},
               session : Sessions \cup {NoSession},
               token : Seconds \cup {NoToken},    \* the token presented
               signed : Seconds \cup {NoToken},   \* the token to be handed out
               link : Links \cup {NoLink},
               password : Nat \cup {NoPassword}]  \* the password hash read

NoSessionRow == [user |-> NoUser, status |-> "none", hash |-> NoToken, born |-> 0]

NoLinkRow == [user |-> NoUser, status |-> "none"]

Idle == [kind |-> "idle", user |-> NoUser, session |-> NoSession,
         token |-> NoToken, signed |-> NoToken, link |-> NoLink,
         password |-> NoPassword]

Init ==
    /\ account = [u \in Users |-> [active |-> TRUE, password |-> 0,
                                   changes |-> 0, era |-> 0]]
    /\ session = [s \in Sessions |-> NoSessionRow]
    /\ link = [k \in Links |-> NoLinkRow]
    /\ request = [r \in Requests |-> Idle]
    /\ granted = [s \in Sessions |-> {}]
    /\ spent = [s \in Sessions |-> {}]
    /\ clock = 0

-----------------------------------------------------------------------------
(* Helpers *)

\* findActiveByIdAndUserIdWithUser
Live(s) == session[s].status = "active"

Begin(r, row) == request[r].kind = "idle" /\ request' = [request EXCEPT ![r] = row]

End(r) == request' = [request EXCEPT ![r] = Idle]

Revoked(row) == [row EXCEPT !.status = IF @ = "active" THEN "revoked" ELSE @]

\* revokeActiveByUserId, except for the sessions in kept
RevokeSessions(u, kept) ==
    [s \in Sessions |-> IF session[s].user = u /\ s \notin kept
                        THEN Revoked(session[s]) ELSE session[s]]

\* The user's unused links, except for the one in kept, stop working.
RevokeLinks(u, kept) ==
    [k \in Links |-> IF link[k].user = u /\ k \notin kept
                     THEN Revoked(link[k]) ELSE link[k]]

\* The row with a new password hash, set by that many changes in a session.
NewPassword(row, changes) ==
    [active |-> row.active, password |-> row.password + 1,
     changes |-> row.changes + changes, era |-> row.era + 1]

-----------------------------------------------------------------------------
(* Login *)

\* login: the password is compared with the hash of the row just read.
LoginVerify(r, u) ==
    /\ account[u].active
    /\ Begin(r, [Idle EXCEPT !.kind = "login", !.user = u,
                             !.password = account[u].password])
    /\ UNCHANGED <<account, session, link, granted, spent, clock>>

\* loginWithGoogle: the row is read, and there is no password to compare.
GoogleVerify(r, u) ==
    /\ account[u].active
    /\ Begin(r, [Idle EXCEPT !.kind = "login", !.user = u])
    /\ UNCHANGED <<account, session, link, granted, spent, clock>>

\* Mutant: the session is not tied to its user.
NewSessionOrphan(u) ==
    [NoSessionRow EXCEPT !.status = "active", !.born = account[u].era]

NewSession(u) ==
    [NoSessionRow EXCEPT !.user = u, !.status = "active", !.born = account[u].era]

\* startSession: the row is created with a random hash ...
LoginCreate(r, s) ==
    /\ request[r].kind = "login"
    /\ session[s].status = "none"
    /\ session' = [session EXCEPT ![s] = NewSession(request[r].user)]
    /\ request' = [request EXCEPT ![r].kind = "issue", ![r].session = s]
    /\ UNCHANGED <<account, link, granted, spent, clock>>

\* ... and updated with the hash of the token that goes into the cookie.
LoginIssue(r) ==
    /\ request[r].kind = "issue"
    /\ LET s == request[r].session IN
         /\ session' = [session EXCEPT ![s].hash = clock]
         /\ granted' = [granted EXCEPT ![s] = @ \cup {clock}]
    /\ End(r)
    /\ UNCHANGED <<account, link, spent, clock>>

\* The catch branch of startSession.
LoginFail(r) ==
    /\ request[r].kind = "issue"
    /\ session' = [session EXCEPT ![request[r].session] = Revoked(@)]
    /\ End(r)
    /\ UNCHANGED <<account, link, granted, spent, clock>>

-----------------------------------------------------------------------------
(* Refresh and logout *)

\* refresh, up to its last check: the session that the presented token names is
\* read with its user.  It is to be revoked if the user is disabled or the token
\* is not the current one, and to be rotated to the token signed now otherwise.
RefreshRead(r, s, t) ==
    /\ t \in granted[s]
    /\ Live(s)
    /\ LET mayRotate == account[session[s].user].active /\ session[s].hash = t IN
         Begin(r, [Idle EXCEPT !.kind = IF mayRotate THEN "rotate" ELSE "revoke",
                               !.user = session[s].user, !.session = s, !.token = t,
                               !.signed = IF mayRotate THEN clock ELSE NoToken])
    /\ UNCHANGED <<account, session, link, granted, spent, clock>>

\* Mutants: the update is not conditional on the hash read, or on the session.
RotateIfActive(s, t) == session[s].status = "active"

RotateIfSameHash(s, t) == session[s].hash = t

\* The condition of rotateIfCurrent.
RotateIfCurrent(s, t) == session[s].status = "active" /\ session[s].hash = t

RefreshRotate(r) ==
    /\ request[r].kind = "rotate"
    /\ LET s == request[r].session
           t == request[r].token IN
         /\ RotateIfCurrent(s, t)
         /\ session' = [session EXCEPT ![s].hash = request[r].signed]
         /\ granted' = [granted EXCEPT ![s] = @ \cup {request[r].signed}]
         /\ spent' = [spent EXCEPT ![s] = (@ \cup {t}) \ {request[r].signed}]
    /\ End(r)
    /\ UNCHANGED <<account, link, clock>>

\* REFRESH_TOKEN_ALREADY_ROTATED
RefreshLost(r) ==
    /\ request[r].kind = "rotate"
    /\ ~RotateIfCurrent(request[r].session, request[r].token)
    /\ End(r)
    /\ UNCHANGED <<account, session, link, granted, spent, clock>>

RefreshRevoke(r) ==
    /\ request[r].kind = "revoke"
    /\ session' = [session EXCEPT ![request[r].session] = Revoked(@)]
    /\ End(r)
    /\ UNCHANGED <<account, link, granted, spent, clock>>

\* Whoever holds a token of the session may end it, live or not.
Logout(s) ==
    /\ granted[s] # {}
    /\ session' = [session EXCEPT ![s] = Revoked(@)]
    /\ UNCHANGED <<account, link, request, granted, spent, clock>>

-----------------------------------------------------------------------------
(* Password change *)

\* The principal is resolved, the current password compared with the row read,
\* and the tokens signed.
ChangeRead(r, s) ==
    /\ granted[s] # {}
    /\ Live(s)
    /\ LET u == session[s].user IN
         /\ account[u].active
         /\ Begin(r, [Idle EXCEPT !.kind = "change", !.user = u, !.session = s,
                                  !.signed = clock, !.password = account[u].password])
    /\ UNCHANGED <<account, session, link, granted, spent, clock>>

\* Mutant: the other sessions are left alone.
SessionsKeptByChange(r) == {s \in Sessions : session[s].status = "active"}

SessionsKept(r) == {request[r].session}

ChangeCommit(r) ==
    /\ request[r].kind = "change"
    /\ LET u == request[r].user
           s == request[r].session IN
         /\ session[s].status = "active"
         /\ account[u].password = request[r].password
         /\ account[u].era < MaxEras
         /\ account' = [account EXCEPT ![u] = NewPassword(@, 1)]
         /\ session' = [RevokeSessions(u, SessionsKept(r)) EXCEPT
                          ![s].hash = request[r].signed, ![s].born = account[u].era + 1]
         /\ granted' = [granted EXCEPT ![s] = @ \cup {request[r].signed}]
         /\ spent' = [spent EXCEPT ![s] = @ \ {request[r].signed}]
    /\ End(r)
    /\ UNCHANGED <<link, clock>>

-----------------------------------------------------------------------------
(* Password reset *)

ForgotRead(r, u) ==
    /\ account[u].active
    /\ Begin(r, [Idle EXCEPT !.kind = "forgot", !.user = u])
    /\ UNCHANGED <<account, session, link, granted, spent, clock>>

\* Mutant: the new link does not replace the ones before it.
AllLinksKept(k) == Links

LinksKept(k) == {k}

\* createReplacingActive, with the first id not used yet.
ForgotCreate(r, k) ==
    /\ request[r].kind = "forgot"
    /\ link[k].status = "none"
    /\ \A j \in 1 .. (k - 1) : link[j].status # "none"
    /\ link' = [RevokeLinks(request[r].user, LinksKept(k)) EXCEPT ![k] =
                  [NoLinkRow EXCEPT !.user = request[r].user, !.status = "active"]]
    /\ request' = [request EXCEPT ![r].kind = "mail", ![r].link = k]
    /\ UNCHANGED <<account, session, granted, spent, clock>>

\* The mail could not be sent, as far as the mail provider tells.
MailFailed(r) ==
    /\ request[r].kind = "mail"
    /\ link' = [link EXCEPT ![request[r].link] = Revoked(@)]
    /\ End(r)
    /\ UNCHANGED <<account, session, granted, spent, clock>>

\* resetPassword, up to its transaction.
ResetRead(r, k) ==
    /\ link[k].status = "active"
    /\ LET u == link[k].user IN
         /\ account[u].active
         /\ Begin(r, [Idle EXCEPT !.kind = "reset", !.user = u, !.link = k,
                                  !.password = account[u].password])
    /\ UNCHANGED <<account, session, link, granted, spent, clock>>

\* Mutants: the transaction trusts the read; the account's state is not looked at.
ResetTrusted(k, u, p) == TRUE

ResetAnyAccount(k, u, p) == link[k].status = "active" /\ account[u].password = p

MayReset(k, u, p) ==
    /\ link[k].status = "active"
    /\ account[u].active
    /\ account[u].password = p

ResetCommit(r) ==
    /\ request[r].kind = "reset"
    /\ LET u == request[r].user
           k == request[r].link IN
         /\ MayReset(k, u, request[r].password)
         /\ account[u].era < MaxEras
         /\ account' = [account EXCEPT ![u] = NewPassword(@, 0)]
         /\ session' = RevokeSessions(u, {})
         /\ link' = [RevokeLinks(u, {k}) EXCEPT ![k].status = "used"]
    /\ End(r)
    /\ UNCHANGED <<granted, spent, clock>>

-----------------------------------------------------------------------------
(* Accounts, time and lost requests *)

\* disableWithSessions
Disable(u) ==
    /\ account[u].era < MaxEras
    /\ account' = [account EXCEPT ![u].active = FALSE, ![u].era = @ + 1]
    /\ session' = RevokeSessions(u, {})
    /\ UNCHANGED <<link, request, granted, spent, clock>>

Activate(u) ==
    /\ ~account[u].active
    /\ account' = [account EXCEPT ![u].active = TRUE]
    /\ UNCHANGED <<session, link, request, granted, spent, clock>>

Tick ==
    /\ clock < MaxSecond
    /\ clock' = clock + 1
    /\ UNCHANGED <<account, session, link, request, granted, spent>>

\* A request that is refused, aborted or answered (the mail was sent), or that
\* dies with its process.
RequestEnds(r) ==
    /\ request[r].kind # "idle"
    /\ End(r)
    /\ UNCHANGED <<account, session, link, granted, spent, clock>>

-----------------------------------------------------------------------------
RequestStep(r) ==
    \/ \E u \in Users : LoginVerify(r, u) \/ GoogleVerify(r, u) \/ ForgotRead(r, u)
    \/ \E s \in Sessions : LoginCreate(r, s) \/ ChangeRead(r, s)
    \/ \E s \in Sessions : \E t \in Seconds : RefreshRead(r, s, t)
    \/ LoginIssue(r) \/ LoginFail(r)
    \/ RefreshRotate(r) \/ RefreshLost(r) \/ RefreshRevoke(r)
    \/ ChangeCommit(r)
    \/ \E k \in Links : ForgotCreate(r, k) \/ ResetRead(r, k)
    \/ MailFailed(r) \/ ResetCommit(r)
    \/ RequestEnds(r)

Next ==
    \/ \E r \in Requests : RequestStep(r)
    \/ \E s \in Sessions : Logout(s)
    \/ \E u \in Users : Disable(u) \/ Activate(u)
    \/ Tick

Spec == Init /\ [][Next]_vars

-----------------------------------------------------------------------------
(* Properties *)

OwnedSession(s) ==
    /\ session[s].status # "none" <=> session[s].user \in Users
    /\ session[s].status = "none" => granted[s] = {}

OwnedLink(k) == link[k].status # "none" <=> link[k].user \in Users

NamesRows(r) ==
    /\ request[r].kind # "idle" => request[r].user \in Users
    /\ request[r].kind \in {"issue", "rotate", "revoke", "change"} =>
         /\ request[r].session \in Sessions
         /\ session[request[r].session].user = request[r].user
    /\ request[r].kind \in {"rotate", "change"} => request[r].signed \in Seconds
    /\ request[r].kind \in {"mail", "reset"} =>
         /\ request[r].link \in Links
         /\ link[request[r].link].user = request[r].user

\* Every row and every request has the shape the code gives it; sessions, links
\* and requests belong to a user, and a request names only rows that exist.
TypeOK ==
    /\ account \in [Users -> AccountRow]
    /\ session \in [Sessions -> SessionRow]
    /\ link \in [Links -> LinkRow]
    /\ request \in [Requests -> RequestRow]
    /\ granted \in [Sessions -> SUBSET Seconds]
    /\ spent \in [Sessions -> SUBSET Seconds]
    /\ clock \in Seconds
    /\ \A s \in Sessions : OwnedSession(s)
    /\ \A k \in Links : OwnedLink(k)
    /\ \A r \in Requests : NamesRows(r)

\* No session outlives a mass revocation: a session that is active was created
\* after the last password reset, password change or disabling of its user, or is
\* the one that changed the password.
NoSessionOutlivesRevocation ==
    \A s \in Sessions : session[s].status = "active" =>
        session[s].born = account[session[s].user].era

\* A refresh token buys at most one successor: once another token has replaced
\* it, it is never rotated again, however many requests had presented it and
\* passed their checks, unless it is issued anew (a token signed in the second of
\* an older one of its session is that token).
SpentTokenBuysNothing ==
    [][\A r \in Requests : RefreshRotate(r) =>
         request[r].token \notin spent[request[r].session]]_vars

\* A session that was revoked after its login was answered is dead: it is never
\* active again and never gets another token.
RevokedSessionIsDead ==
    [][\A s \in Sessions :
         session[s].status = "revoked" /\ session[s].hash # NoToken =>
             session'[s] = session[s] /\ granted'[s] = granted[s]]_vars

\* While an account is disabled its password does not change and no session of
\* it is refreshed, whatever its requests had read before.
DisabledAccountIsFrozen ==
    [][\A u \in Users : ~account[u].active =>
         /\ account'[u].password = account[u].password
         /\ \A s \in Sessions :
              session[s].user = u /\ session[s].hash # NoToken =>
                  session'[s].hash = session[s].hash]_vars

\* Only the link mailed last can reset a password.
OnlyLastLinkWorks ==
    \A j, k \in Links :
        link[j].status = "active" /\ link[k].user = link[j].user => k <= j

\* A link that was used or replaced, or whose mail failed, stays so.
EndedLinkIsFinal ==
    [][\A k \in Links : link[k].status \in {"used", "revoked"} =>
                           link'[k] = link[k]]_vars

UsedLinks(u) == {k \in Links : link[k].user = u /\ link[k].status = "used"}

\* Every new password is accounted for, by a change made in a session or by one
\* reset link of its own: no link sets two passwords, however many requests
\* present it at once.
PasswordsAccountedFor ==
    \A u \in Users :
        account[u].password = account[u].changes + Cardinality(UsedLinks(u))

-----------------------------------------------------------------------------
(* What the documentation says and the code does not keep *)

\* A password reset revokes all sessions, and a password change all but its own,
\* so a session is only handed out for the password that is current then.  A
\* login that compared the old password before the change, and creates its
\* session after it, breaks it.
LoginsUseCurrentPassword ==
    [][\A r \in Requests : LoginIssue(r) =>
         \/ session[request[r].session].status = "revoked"
         \/ request[r].password \in {NoPassword,
                                     account[request[r].user].password}]_vars

=============================================================================
