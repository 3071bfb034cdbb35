---------------------------- MODULE AccessControl ----------------------------
(***************************************************************************)
(* How a request reaches its handler: the guards of the route, one after   *)
(* the other, in the order Nest runs them.  The first that reads a table   *)
(* is JwtAccessGuard: it resolves who the caller is and what every         *)
(* assignment in force gives him; BranchScopeGuard then makes the          *)
(* assignment at the selected branch the one that counts.  Assignments and *)
(* branches may change between two guards.                                 *)
(*                                                                         *)
(* Roles and their permissions are as the seed leaves them; that what is   *)
(* granted later stays harmless is the matter of StaffRequests, and        *)
(* whether the session is alive that of AuthSessions.                      *)
(***************************************************************************)
EXTENDS AccessRoutes, Naturals

CONSTANTS
    Branches,
    PostRoles,      \* the seeded branch roles that the branch user may be given
    NoRole,         \* where there is no assignment in force
    MaxMoves        \* bound on the changes of assignments and branches

ASSUME AccessAssumption ==
    /\ PostRoles \subseteq DOMAIN RoleCodes \ {"CUSTOMER"}
    /\ NoRole \notin PostRoles \cup {"CUSTOMER", "SUPER_ADMIN"}
    /\ Branches \cap {"NONE", "MALFORMED"} = {}
    /\ MaxMoves \in Nat

VARIABLES
    post,       \* user_branches of the branch user, with the role there
    openAt,     \* branches.is_active
    incoming,   \* the request being guarded: at most one
    moves

accessVars == <<post, openAt, incoming, moves>>

Callers == {"NOBODY", "CUSTOMER", "BRANCH_USER", "SUPER_ADMIN"}
Headers == Branches \cup {"NONE", "MALFORMED"}
Outcomes == {"PENDING", "HANDLED", "THROTTLED", "UNAUTHORIZED", "CSRF_INVALID",
             "NOT_SUPER_ADMIN", "BRANCH_SELECTION_REQUIRED", "BRANCH_NOT_FOUND",
             "BRANCH_ACCESS_DENIED", "PERMISSION_DENIED", "NOT_SERVED"}

\* A request: seats and acting are the principal, the roles of the branch user
\* and the one whose permissions count; rightful, whether the caller was entitled
\* when he was authenticated; quiet, that nothing has changed since it came in.
Incoming ==
    [caller: Callers, header: Headers, token: BOOLEAN, route: Routes, passed: 0..5,
     seats: [Branches -> PostRoles \cup {NoRole}],
     acting: PostRoles \cup {NoRole, "CUSTOMER", "SUPER_ADMIN"},
     outcome: Outcomes, rightful: BOOLEAN, quiet: BOOLEAN]

RouteOf(q) == q.route
Left(q) == SubSeq(RouteOf(q).guards, q.passed + 1, Len(RouteOf(q).guards))

AccessTypeOK ==
    /\ post \in [Branches -> PostRoles \cup {NoRole}]
    /\ openAt \in [Branches -> BOOLEAN]
    /\ incoming \in SUBSET Incoming
    /\ moves \in 0..MaxMoves

AccessInit ==
    /\ post \in [Branches -> PostRoles \cup {NoRole}]
    /\ openAt = [b \in Branches |-> TRUE]
    /\ incoming = {}
    /\ moves = 0

-----------------------------------------------------------------------------
(* Who may do what, told from the tables. *)

CodesOfRole(r) ==
    IF r = "SUPER_ADMIN" THEN PermissionCatalog
    ELSE IF r = NoRole THEN {} ELSE RoleCodes[r]

Employed(b) == openAt[b] /\ post[b] # NoRole

\* What the caller may do in this request: a branch user has the permissions of
\* the branch that the request is about, and none in a request about no branch.
Entitlement(q) ==
    IF q.caller = "SUPER_ADMIN" THEN PermissionCatalog
    ELSE IF q.caller = "CUSTOMER" THEN RoleCodes["CUSTOMER"]
    ELSE IF q.caller = "BRANCH_USER" /\ RouteOf(q).scope # "NONE" /\ q.header \in Branches
         THEN CodesOfRole(post[q.header])
    ELSE {}

\* The selection of a branch is well formed, complete, and within reach.
ScopeRespected(q) ==
    RouteOf(q).scope # "NONE" =>
        /\ q.caller \in {"BRANCH_USER", "SUPER_ADMIN"}
        /\ q.header # "MALFORMED"
        /\ RouteOf(q).scope = "REQUIRED" => q.header # "NONE"
        /\ q.header \in Branches =>
               /\ openAt[q.header]
               /\ q.caller = "BRANCH_USER" => Employed(q.header)

AudienceRespected(q) ==
    LET r == RouteOf(q)
    IN  /\ r.super => q.caller = "SUPER_ADMIN"
        /\ r.audience = "STAFF" => q.caller = "BRANCH_USER"
        /\ r.audience \in {"CUSTOMER", "SUPER_ADMIN"} => q.caller = r.audience
        /\ r.all \cup r.any \cup r.asked # {} => q.caller # "NOBODY"

PermissionsHeld(q) ==
    LET r == RouteOf(q)
    IN  /\ r.all \cup r.asked \subseteq Entitlement(q)
        /\ r.any # {} => r.any \cap Entitlement(q) # {}

SignInAsked(route) == \E i \in DOMAIN route.guards : route.guards[i] = "JWT"

Rightful(q) ==
    /\ SignInAsked(RouteOf(q)) => q.caller # "NOBODY"
    /\ ScopeRespected(q) /\ AudienceRespected(q) /\ PermissionsHeld(q)

-----------------------------------------------------------------------------
(* The guards. *)

\* A header is only read where a scope is declared, a token where data is written.
Enter(caller, header, token, route) ==
    /\ route.scope = "NONE" => header = "NONE"
    /\ ~route.write => token
    /\ LET q == [caller |-> caller, header |-> header, token |-> token, route |-> route,
                 passed |-> 0, seats |-> [b \in Branches |-> NoRole],
                 acting |-> NoRole, outcome |-> "PENDING", rightful |-> TRUE, quiet |-> TRUE]
       IN  incoming' = {[q EXCEPT !.rightful = Rightful(q)]}
    /\ UNCHANGED <<post, openAt, moves>>

Due(q, guard) == q.outcome = "PENDING" /\ Left(q) # <<>> /\ Head(Left(q)) = guard

GoOn(q) == incoming' = {[q EXCEPT !.passed = @ + 1]} /\ UNCHANGED <<post, openAt, moves>>
Stop(q, why) == incoming' = {[q EXCEPT !.outcome = why]} /\ UNCHANGED <<post, openAt, moves>>

PassIf(q, condition, why) == (condition /\ GoOn(q)) \/ (~condition /\ Stop(q, why))

\* AuthThrottlerGuard: too many requests of an address are turned away.
Throttle(q) == Due(q, "THROTTLE") /\ (GoOn(q) \/ Stop(q, "THROTTLED"))

\* GoogleOauthGuard lets the callback through, with the profile or a failure.
Google(q) == Due(q, "GOOGLE") /\ GoOn(q)

\* JwtAccessGuard and resolvePrincipal.
SeatsInForce == [b \in Branches |-> IF Employed(b) THEN post[b] ELSE NoRole]

Authenticated(q) ==
    [q EXCEPT !.passed = @ + 1,
              !.seats = IF q.caller = "BRANCH_USER" THEN SeatsInForce ELSE q.seats,
              !.acting = IF q.caller = "BRANCH_USER" THEN NoRole ELSE q.caller,
              !.rightful = Rightful(q)]

Authenticate(q) ==
    /\ Due(q, "JWT")
    /\ \/ q.caller = "NOBODY" /\ Stop(q, "UNAUTHORIZED")
       \/ /\ q.caller # "NOBODY"
          /\ incoming' = {Authenticated(q)}
          /\ UNCHANGED <<post, openAt, moves>>

SuperAdminGuard(q) ==
    /\ Due(q, "SUPER")
    /\ PassIf(q, RouteOf(q).super => q.acting = "SUPER_ADMIN", "NOT_SUPER_ADMIN")

CsrfGuard(q) == Due(q, "CSRF") /\ PassIf(q, RouteOf(q).write => q.token, "CSRF_INVALID")

\* Mutant: permissions of any assignment count at the selected branch.
ActingAnywhere(q) ==
    IF q.seats[q.header] # NoRole /\ \E b \in Branches : q.seats[b] \notin {NoRole, q.seats[q.header]}
    THEN CHOOSE r \in {q.seats[b] : b \in Branches} : r \notin {NoRole, q.seats[q.header]}
    ELSE q.seats[q.header]

\* The assignment at the selected branch replaces what the principal had.
ActingAt(q) == q.seats[q.header]

\* resolveBranchContext, with a branch selected.
SelectBranch(q) ==
    \/ ~openAt[q.header] /\ Stop(q, "BRANCH_NOT_FOUND")
    \/ openAt[q.header] /\ q.acting = "SUPER_ADMIN" /\ GoOn(q)
    \/ /\ openAt[q.header] /\ q.acting # "SUPER_ADMIN" /\ q.seats[q.header] = NoRole
       /\ Stop(q, "BRANCH_ACCESS_DENIED")
    \/ /\ openAt[q.header] /\ q.acting # "SUPER_ADMIN" /\ q.seats[q.header] # NoRole
       /\ incoming' = {[q EXCEPT !.passed = @ + 1, !.acting = ActingAt(q)]}
       /\ UNCHANGED <<post, openAt, moves>>

BranchScopeGuard(q) ==
    /\ Due(q, "BRANCH")
    /\ \/ RouteOf(q).scope = "NONE" /\ GoOn(q)
       \/ /\ RouteOf(q).scope # "NONE"
          /\ \/ q.caller = "CUSTOMER" /\ Stop(q, "BRANCH_ACCESS_DENIED")
             \/ /\ q.caller # "CUSTOMER" /\ q.header = "NONE"
                /\ PassIf(q, RouteOf(q).scope = "OPTIONAL", "BRANCH_SELECTION_REQUIRED")
             \/ /\ q.caller # "CUSTOMER" /\ q.header = "MALFORMED"
                /\ Stop(q, "BRANCH_SELECTION_REQUIRED")
             \/ q.caller # "CUSTOMER" /\ q.header \in Branches /\ SelectBranch(q)

PermissionsGuard(q) ==
    /\ Due(q, "PERMISSIONS")
    /\ PassIf(q, \/ q.acting = "SUPER_ADMIN"
                 \/ /\ RouteOf(q).all \subseteq CodesOfRole(q.acting)
                    /\ RouteOf(q).any # {} => RouteOf(q).any \cap CodesOfRole(q.acting) # {},
              "PERMISSION_DENIED")

\* What the service asks before anything else.
Served(q) ==
    LET r == RouteOf(q)
    IN  /\ r.audience = "STAFF" => q.acting # "SUPER_ADMIN"
        /\ r.audience \in {"CUSTOMER", "SUPER_ADMIN"} => q.acting = r.audience
        /\ q.acting = "SUPER_ADMIN" \/ r.asked \subseteq CodesOfRole(q.acting)

Serve(q) ==
    /\ q.outcome = "PENDING" /\ Left(q) = <<>>
    /\ Stop(q, IF Served(q) THEN "HANDLED" ELSE "NOT_SERVED")

Respond(q) ==
    /\ q.outcome # "PENDING"
    /\ incoming' = {}
    /\ UNCHANGED <<post, openAt, moves>>

\* Meanwhile.
Disturbed == {[q EXCEPT !.quiet = FALSE] : q \in incoming}

MoveUser(b, r) ==
    /\ moves < MaxMoves /\ post[b] # r
    /\ r # NoRole => openAt[b]
    /\ post' = [post EXCEPT ![b] = r]
    /\ moves' = moves + 1 /\ incoming' = Disturbed
    /\ UNCHANGED openAt

\* A branch is closed when nobody has an assignment in force there.
CloseBranch(b) ==
    /\ moves < MaxMoves /\ openAt[b] /\ post[b] = NoRole
    /\ openAt' = [openAt EXCEPT ![b] = FALSE]
    /\ moves' = moves + 1 /\ incoming' = Disturbed
    /\ UNCHANGED post

GuardStep(q) ==
    \/ Throttle(q) \/ Google(q) \/ Authenticate(q) \/ SuperAdminGuard(q) \/ CsrfGuard(q)
    \/ BranchScopeGuard(q) \/ PermissionsGuard(q) \/ Serve(q) \/ Respond(q)

AccessNext ==
    \/ /\ incoming = {}
       /\ \E c \in Callers, h \in Headers, t \in BOOLEAN, r \in Routes : Enter(c, h, t, r)
    \/ \E q \in incoming : GuardStep(q)
    \/ \E b \in Branches, r \in PostRoles \cup {NoRole} : MoveUser(b, r)
    \/ \E b \in Branches : CloseBranch(b)

-----------------------------------------------------------------------------
(* What the guards achieve together. *)

TurnedAway ==
    {"UNAUTHORIZED", "NOT_SUPER_ADMIN", "BRANCH_SELECTION_REQUIRED", "BRANCH_NOT_FOUND",
     "BRANCH_ACCESS_DENIED", "PERMISSION_DENIED", "NOT_SERVED"}

Asked(route) == route.all \cup route.any \cup route.asked

\* Who gets through was entitled when he was authenticated, and nobody who is
\* entitled is turned away.
DecidedByRight(q) ==
    /\ q.outcome = "HANDLED" => q.rightful
    /\ q.outcome \in TurnedAway /\ q.quiet => ~Rightful(q)

\* Nothing is written for a request without the token of its page, and what is
\* dangerous is done by a Super Admin only.
WritesAreMeant(q) ==
    q.outcome = "HANDLED" =>
        /\ RouteOf(q).write => q.token
        /\ Asked(RouteOf(q)) \cap DangerousCodes # {} => q.caller = "SUPER_ADMIN"

\* A route never asks for a permission that the seed does not create: nobody but
\* a Super Admin could ever have it.
AsksWhatExists(q) == Asked(RouteOf(q)) \subseteq PermissionCatalog

RequestsDecided ==
    \A q \in incoming : DecidedByRight(q) /\ WritesAreMeant(q) /\ AsksWhatExists(q)

AccessSpec == AccessInit /\ [][AccessNext]_accessVars
=============================================================================
