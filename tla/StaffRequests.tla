---------------------------- MODULE StaffRequests ----------------------------
(***************************************************************************)
(* Who may give whom which role and which permission.  A request of a      *)
(* branch user is decided by a principal: the level and the permissions    *)
(* that his assignment at the selected branch gives him, read by the       *)
(* guards (AuthorizationService.resolvePrincipal and BranchScopeGuard).    *)
(* The policies of the service judge the request by that principal, and a  *)
(* transaction judges it again when it writes; in between, a Super Admin   *)
(* may change roles, their permissions, the permission catalog and the     *)
(* assignments themselves.                                                 *)
(*                                                                         *)
(* The module shows one selected branch: a seat is the assignment of a     *)
(* user there.  Whether there is a seat at all, and the primary mark, is   *)
(* the matter of StaffAssignments.                                         *)
(***************************************************************************)
EXTENDS StaffRoles

CONSTANTS
    Colleagues,       \* accounts that may work at the branch
    PermIds,          \* rows of permissions, whose codes can change
    Codes,            \* permission codes
    Dangerous,        \* DANGEROUS_PERMISSION_CODES
    Delegatable,      \* STAFF_DELEGATABLE_PERMISSION_CODES
    AdminPerms,       \* what the seed gives the BRANCH_ADMIN role
    SeedCode,         \* the codes of the seeded rows
    NoCode,           \* of a row that is not created yet
    MaxLevel,         \* the highest level a role can be given (99 in UpdateRoleDto)
    MaxChanges        \* bound on the changes to roles and permissions

SeatRoles == CustomRoles \cup {BranchAdmin}
Levels == 1..MaxLevel
SuperLevel == MaxLevel + 1

ASSUME CatalogAssumption ==
    /\ MaxLevel \in Nat /\ MaxLevel > 0
    /\ MaxChanges \in Nat
    /\ NoCode \notin Codes
    /\ Dangerous \subseteq Codes /\ Delegatable \subseteq Codes
    /\ Dangerous \cap Delegatable = {}
    /\ SeedCode \in [PermIds -> Codes \cup {NoCode}]
    /\ AdminPerms \subseteq {p \in PermIds : SeedCode[p] \in Codes \ Dangerous}

VARIABLES
    code,       \* permissions.code
    role,       \* roles with role_permissions
    seat,       \* the assignments at the branch, with roles and direct permissions
    request,    \* the staff request in flight
    changes     \* changes to roles and permissions so far

requestVars == <<code, role, seat, request, changes>>

RoleRow == [type: {"BRANCH", "SYSTEM"}, level: Levels, open: BOOLEAN, perms: SUBSET PermIds]

Effects == {"NONE", "ALLOW", "DENY"}
Seat == [active: BOOLEAN, roles: SUBSET SeatRoles, grant: [PermIds -> Effects]]
Principal == [super: BOOLEAN, level: 0..SuperLevel, perms: SUBSET Codes]

NoPerm == [p \in PermIds |-> "NONE"]
EmptySeat == [active |-> FALSE, roles |-> {}, grant |-> NoPerm]

Operations == {"CREATE", "ADD_ROLE", "DROP_ROLE", "GRANT", "UNGRANT"}
Request == [op: Operations, phase: {"RESOLVED", "CHECKED"}, by: Principal, target: Colleagues,
            roles: SUBSET SeatRoles, perms: SUBSET PermIds]

\* One request at a time is in flight: at most one element.
RequestTypeOK ==
    /\ code \in [PermIds -> Codes \cup {NoCode}]
    /\ role \in [SeatRoles -> RoleRow]
    /\ seat \in [Colleagues -> Seat]
    /\ request \in SUBSET Request
    /\ changes \in 0..MaxChanges

\* The custom roles have been created and given the delegatable permissions.
RequestInit ==
    /\ code = SeedCode
    /\ role = [r \in SeatRoles |-> [type |-> "BRANCH", open |-> TRUE,
                                level |-> IF r = BranchAdmin THEN MaxLevel ELSE 1,
                                perms |-> IF r = BranchAdmin THEN AdminPerms
                                          ELSE {p \in PermIds : SeedCode[p] \in Delegatable}]]
    /\ seat = [u \in Colleagues |-> EmptySeat]
    /\ request = {}
    /\ changes = 0

-----------------------------------------------------------------------------
(* The principal. *)

Created == {p \in PermIds : code[p] # NoCode}
CodesOf(perms) == {code[p] : p \in perms \cap Created}

OpenRoles(s) == {r \in s.roles : role[r].open}

\* The highest level among the active roles, 0 without one.
LevelOf(roles) ==
    IF roles = {} THEN 0
    ELSE CHOOSE n \in {role[r].level : r \in roles} :
             \A r \in roles : role[r].level <= n

SeatLevel(s) == LevelOf(OpenRoles(s))

\* Permissions of the active roles and direct ones; a DENY takes away both.
RolePerms(s) == UNION {role[r].perms : r \in OpenRoles(s)}
Granted(s, effect) == {p \in PermIds : s.grant[p] = effect}
Effective(s) == CodesOf((RolePerms(s) \cup Granted(s, "ALLOW")) \ Granted(s, "DENY"))

PrincipalOf(u) == [super |-> FALSE, level |-> SeatLevel(seat[u]), perms |-> Effective(seat[u])]
SuperAdmin == [super |-> TRUE, level |-> SuperLevel, perms |-> CodesOf(PermIds)]

\* PermissionsGuard, and the same question asked again in the services.
Holds(by, needed) == by.super \/ needed \in by.perms

\* The permission that the controller of each operation requires.
Required(op) ==
    CASE op = "CREATE" -> "staff.create"
      [] op \in {"ADD_ROLE", "DROP_ROLE"} -> "staff.assign_role"
      [] op \in {"GRANT", "UNGRANT"} -> "staff.assign_permission"

-----------------------------------------------------------------------------
(* What the catalog endpoints offer, and what the policies accept. *)

\* The actions of StaffAssignableRoleAction: a role for a new account, or one more
\* role for an account that is there.
RoleActions == {"CREATE", "ASSIGN"}

\* Whom the list of roles answers.
MayListRoles(by, action) ==
    Holds(by, IF action = "CREATE" THEN "staff.create" ELSE "staff.assign_role")

\* Mutant: roles of the caller's own level are offered too.
OfferedRolesOfEquals(by, action) ==
    {r \in SeatRoles \ {BranchAdmin} :
        /\ MayListRoles(by, action)
        /\ role[r].type = "BRANCH" /\ role[r].open /\ role[r].level <= by.level}

\* listAssignableStaffRoles: the same roles for either action.
OfferedRoles(by, action) ==
    {r \in SeatRoles \ {BranchAdmin} :
        /\ MayListRoles(by, action)
        /\ role[r].type = "BRANCH" /\ role[r].open /\ role[r].level < by.level}

\* listAssignableStaffPermissions.
OfferedPerms(by) ==
    {p \in Created : /\ code[p] \in Delegatable \ Dangerous
                     /\ by.super \/ code[p] \in by.perms}

\* RoleLevelPolicy.assertCanAssignRoleToNewBranchUser.
MayAssignRole(by, r) ==
    /\ Holds(by, "staff.assign_role")
    /\ role[r].open /\ role[r].type = "BRANCH"
    /\ role[r].level < by.level
    /\ r # BranchAdmin

\* PermissionDelegationPolicy.assertCanAssignInitialPermission.
MayAssignPerm(by, p) ==
    /\ p \in Created
    /\ code[p] \notin Dangerous
    /\ code[p] \in Delegatable
    /\ by.super \/ {"staff.assign_permission", code[p]} \subseteq by.perms

\* Mutant: the level of the roles is not asked again.
RolesStillOpen(by, roles) ==
    \A r \in roles : role[r].type = "BRANCH" /\ role[r].open /\ r # BranchAdmin

\* What the transaction of createInternalUser counts again.
RolesStillValid(by, roles) ==
    \A r \in roles : /\ role[r].type = "BRANCH" /\ role[r].open
                     /\ role[r].level < by.level
                     /\ r # BranchAdmin

PermsStillValid(by, perms) ==
    \A p \in perms : p \in Created /\ code[p] \in by.perms \ Dangerous

-----------------------------------------------------------------------------
(* Requests. *)

Send(by, op, u, roles, perms) ==
    /\ request = {}
    /\ Holds(by, Required(op))
    /\ request' = {[op |-> op, phase |-> "RESOLVED", by |-> by, target |-> u,
                    roles |-> roles, perms |-> perms]}
    /\ UNCHANGED <<code, role, seat, changes>>

\* The guards: the caller is a Super Admin or sits at the selected branch.  Every
\* role and permission of a request is judged by itself, so one of each will do.
Resolve(by, u) ==
    \/ \E r \in SeatRoles, perms \in {{}} \cup {{p} : p \in PermIds} :
           Send(by, "CREATE", u, {r}, perms)
    \/ \E r \in SeatRoles, op \in {"ADD_ROLE", "DROP_ROLE"} : Send(by, op, u, {r}, {})
    \/ \E p \in PermIds, op \in {"GRANT", "UNGRANT"} : Send(by, op, u, {}, {p})

ResolveUser(u, target) == seat[u].active /\ Resolve(PrincipalOf(u), target)
ResolveSuper(target) == Resolve(SuperAdmin, target)

\* createStaff: the policies, before the transaction.
CreateAllowed(q) ==
    /\ \A r \in q.roles : MayAssignRole(q.by, r)
    /\ \A p \in q.perms : MayAssignPerm(q.by, p)

CheckCreate(q) ==
    /\ q.op = "CREATE" /\ q.phase = "RESOLVED"
    /\ CreateAllowed(q)
    /\ request' = {[q EXCEPT !.phase = "CHECKED"]}
    /\ UNCHANGED <<code, role, seat, changes>>

\* createInternalUser: the transaction.  The new account has no row yet.
CreateCommits(q) ==
    /\ RolesStillValid(q.by, q.roles)
    /\ PermsStillValid(q.by, q.perms)
    /\ seat[q.target] = EmptySeat

CommitCreate(q) ==
    /\ q.op = "CREATE" /\ q.phase = "CHECKED"
    /\ CreateCommits(q)
    /\ seat' = [seat EXCEPT ![q.target] =
                   [active |-> TRUE, roles |-> q.roles,
                    grant |-> [p \in PermIds |-> IF p \in q.perms THEN "ALLOW" ELSE "NONE"]]]
    /\ request' = {}
    /\ UNCHANGED <<code, role, changes>>

\* The target of the other operations: an active assignment of a lower level.
MayManage(by, u) == seat[u].active /\ SeatLevel(seat[u]) < by.level

RoleManageable(by, r) == r # BranchAdmin /\ role[r].type = "BRANCH" /\ role[r].level < by.level

\* assignUserRole.
AddRoleAllowed(q, r) ==
    /\ MayManage(q.by, q.target)
    /\ RoleManageable(q.by, r)
    /\ role[r].open

CommitAddRole(q, r) ==
    /\ q.op = "ADD_ROLE" /\ AddRoleAllowed(q, r)
    /\ seat' = [seat EXCEPT ![q.target].roles = @ \cup {r}]
    /\ request' = {}
    /\ UNCHANGED <<code, role, changes>>

\* removeUserRole: the last role that counts as a staff role stays.
StaffRolesOf(s) == {r \in OpenRoles(s) \ {BranchAdmin} : role[r].type = "BRANCH"}

DropRoleAllowed(q, r) ==
    /\ MayManage(q.by, q.target)
    /\ RoleManageable(q.by, r)
    /\ StaffRolesOf(seat[q.target]) # {r}

CommitDropRole(q, r) ==
    /\ q.op = "DROP_ROLE" /\ DropRoleAllowed(q, r)
    /\ seat' = [seat EXCEPT ![q.target].roles = @ \ {r}]
    /\ request' = {}
    /\ UNCHANGED <<code, role, changes>>

\* upsertUserPermission, with ALLOW or DENY.
GrantAllowed(q, p) ==
    /\ MayManage(q.by, q.target)
    /\ p \in Created
    /\ code[p] \notin Dangerous /\ code[p] \in Delegatable
    /\ q.by.super \/ {"staff.assign_permission", code[p]} \subseteq q.by.perms

CommitGrant(q, p, effect) ==
    /\ q.op = "GRANT" /\ GrantAllowed(q, p)
    /\ seat' = [seat EXCEPT ![q.target].grant[p] = effect]
    /\ request' = {}
    /\ UNCHANGED <<code, role, changes>>

\* removeUserPermission.
UngrantAllowed(q, p) ==
    /\ MayManage(q.by, q.target)
    /\ p \in Created /\ code[p] \notin Dangerous
    /\ q.by.super \/ {"staff.assign_permission", code[p]} \subseteq q.by.perms

CommitUngrant(q, p) ==
    /\ q.op = "UNGRANT" /\ UngrantAllowed(q, p)
    /\ seat' = [seat EXCEPT ![q.target].grant[p] = "NONE"]
    /\ request' = {}
    /\ UNCHANGED <<code, role, changes>>

\* A policy or a transaction refuses, and nothing is written.
Refused(q) ==
    \/ q.op = "CREATE" /\ q.phase = "RESOLVED" /\ ~CreateAllowed(q)
    \/ q.op = "CREATE" /\ q.phase = "CHECKED" /\ ~CreateCommits(q)
    \/ q.op = "ADD_ROLE" /\ \A r \in q.roles : ~AddRoleAllowed(q, r)
    \/ q.op = "DROP_ROLE" /\ \A r \in q.roles : ~DropRoleAllowed(q, r)
    \/ q.op = "GRANT" /\ \A p \in q.perms : ~GrantAllowed(q, p)
    \/ q.op = "UNGRANT" /\ \A p \in q.perms : ~UngrantAllowed(q, p)

Refuse(q) ==
    /\ Refused(q)
    /\ request' = {}
    /\ UNCHANGED <<code, role, seat, changes>>

-----------------------------------------------------------------------------
(* The Super Admin, meanwhile. *)

\* Mutant: the level is raised by one.
RaiseRole(r, level, type) ==
    /\ r = BranchAdmin => type = role[r].type
    /\ role' = [role EXCEPT ![r].level = @ + 1, ![r].type = type]
    /\ UNCHANGED <<code, seat, request>>

\* updateRole: a level, and the type of a role that is not a system role.
UpdateRole(r, level, type) ==
    /\ r = BranchAdmin => type = role[r].type
    /\ role' = [role EXCEPT ![r].level = level, ![r].type = type]
    /\ UNCHANGED <<code, seat, request>>

\* deactivateRole: refused for a system role.
RetireRole(r) ==
    /\ r \in CustomRoles
    /\ role[r].open
    /\ role' = [role EXCEPT ![r].open = FALSE]
    /\ UNCHANGED <<code, seat, request>>

\* assertCanAssignRolePermission, for a Super Admin: never a dangerous code.
RoleMayCarry(r, p) ==
    /\ r \in CustomRoles /\ role[r].open
    /\ p \in Created /\ code[p] \notin Dangerous

AssignRolePermission(r, p) ==
    /\ RoleMayCarry(r, p)
    /\ role' = [role EXCEPT ![r].perms = @ \cup {p}]
    /\ UNCHANGED <<code, seat, request>>

RemoveRolePermission(r, p) ==
    /\ r \in CustomRoles
    /\ p \in role[r].perms
    /\ role' = [role EXCEPT ![r].perms = @ \ {p}]
    /\ UNCHANGED <<code, seat, request>>

Unused(c) == \A p \in PermIds : code[p] # c

\* createPermission: codes are unique.
CreatePermission(p, c) ==
    /\ code[p] = NoCode /\ Unused(c)
    /\ code' = [code EXCEPT ![p] = c]
    /\ UNCHANGED <<role, seat, request>>

\* Mutant: only the old code is asked about.
MayRenameHarmless(p, c) == code[p] \notin Dangerous

\* updatePermission: neither a dangerous code nor one that becomes dangerous.
MayRename(p, c) == code[p] \notin Dangerous /\ c \notin Dangerous

RenamePermission(p, c) ==
    /\ p \in Created /\ Unused(c)
    /\ MayRename(p, c)
    /\ code' = [code EXCEPT ![p] = c]
    /\ UNCHANGED <<role, seat, request>>

\* The operations of StaffAssignments as this branch sees them: a branch
\* administrator takes a seat, a seat is given up, one is deleted.
SeatAdmin(u) ==
    /\ seat' = [seat EXCEPT ![u].active = TRUE, ![u].roles = @ \cup {BranchAdmin}]
    /\ UNCHANGED <<code, role, request, changes>>

Vacate(u) ==
    /\ seat[u].active
    /\ seat' = [seat EXCEPT ![u].active = FALSE]
    /\ UNCHANGED <<code, role, request, changes>>

Unseat(u) ==
    /\ seat[u] # EmptySeat
    /\ seat' = [seat EXCEPT ![u] = EmptySeat]
    /\ UNCHANGED <<code, role, request, changes>>

-----------------------------------------------------------------------------
RequestStep(q) ==
    \/ CheckCreate(q)
    \/ CommitCreate(q)
    \/ \E r \in q.roles : CommitAddRole(q, r) \/ CommitDropRole(q, r)
    \/ \E p \in q.perms : \/ \E effect \in {"ALLOW", "DENY"} : CommitGrant(q, p, effect)
                          \/ CommitUngrant(q, p)
    \/ Refuse(q)

CatalogChange ==
    \/ \E r \in SeatRoles, n \in Levels, t \in {"BRANCH", "SYSTEM"} : UpdateRole(r, n, t)
    \/ \E r \in SeatRoles : RetireRole(r)
    \/ \E r \in SeatRoles, p \in PermIds : AssignRolePermission(r, p) \/ RemoveRolePermission(r, p)
    \/ \E p \in PermIds, c \in Codes : CreatePermission(p, c) \/ RenamePermission(p, c)

CatalogStep == changes < MaxChanges /\ changes' = changes + 1 /\ CatalogChange

SeatStep(u) == SeatAdmin(u) \/ Vacate(u) \/ Unseat(u)

RequestNext ==
    \/ \E t \in Colleagues : ResolveSuper(t)
    \/ \E u, t \in Colleagues : ResolveUser(u, t)
    \/ \E q \in request : RequestStep(q)
    \/ CatalogStep
    \/ \E u \in Colleagues : SeatStep(u)

RequestSpec == RequestInit /\ [][RequestNext]_requestVars

-----------------------------------------------------------------------------
(* Properties. *)

\* A dangerous permission is a Super Admin's alone: no seat gives one, by a role
\* or directly, whatever is granted, mapped to a role or renamed, and in
\* whatever order.  A request that was resolved earlier has none either.
DangerousIsSuperAdminOnly ==
    /\ \A u \in Colleagues : Effective(seat[u]) \cap Dangerous = {}
    /\ \A q \in request : ~q.by.super => q.by.perms \cap Dangerous = {}

\* The roles that a caller can give in a form: the controller's guard admits him,
\* and the policy (of a new account) or the transaction (of another) accepts.
AcceptedRoles(by, action) ==
    {r \in SeatRoles :
        IF action = "CREATE"
        THEN Holds(by, Required("CREATE")) /\ MayAssignRole(by, r)
        ELSE Holds(by, Required("ADD_ROLE")) /\ RoleManageable(by, r) /\ role[r].open}

\* The lists that a form is filled from, the policies that judge the form and
\* the transaction that writes it agree.  For one more role, what is offered is
\* what is accepted.  For a new account the list asks for staff.create alone and
\* the policy for staff.assign_role too: with both, what is offered is what is
\* accepted; with staff.create alone nothing that is offered is, although the
\* endpoint calls the list assignable (authorization-management.controllers.ts:548).
\* A permission that is offered is accepted, and
\* what is accepted is not refused by its own transaction while the tables stay
\* as they are.
OffersMatchPolicies ==
    \A by \in {PrincipalOf(u) : u \in Colleagues} \cup {SuperAdmin} :
        /\ AcceptedRoles(by, "ASSIGN") = OfferedRoles(by, "ASSIGN")
        /\ AcceptedRoles(by, "CREATE") =
               IF Holds(by, "staff.assign_role") THEN OfferedRoles(by, "CREATE") ELSE {}
        /\ Holds(by, "staff.assign_permission") =>
               OfferedPerms(by) = {p \in PermIds : MayAssignPerm(by, p)}
        /\ \A r \in SeatRoles : MayAssignRole(by, r) => RolesStillValid(by, {r})
        /\ \A p \in PermIds : MayAssignPerm(by, p) => PermsStillValid(by, {p})

\* What a write does to the seat of u: the codes that are allowed directly now,
\* the roles it has now, and the codes that it gives now, each as it did not before.
NewlyAllowed(u) == CodesOf(Granted(seat'[u], "ALLOW") \ Granted(seat[u], "ALLOW"))
NewRoles(u) == seat'[u].roles \ seat[u].roles
Gained(u) == Effective(seat'[u]) \ Effective(seat[u])

\* What roles bring along.
CarriedBy(roles) == CodesOf(UNION {role[r].perms : r \in roles})

\* What a staff request gives to its target.  The target ranks below the caller
\* when it is written; it is directly allowed no permission that the caller did
\* not hold when the request was resolved; and a permission that it gains and the
\* caller did not hold comes with a role that the request gives (a role is judged
\* by its level alone, its permissions are not compared with the caller's).  All
\* this also when roles were changed and codes renamed after the policies had
\* judged.
RequestsStayWithinCaller ==
    [][\A q \in request : request' = {} /\ seat' # seat =>
           /\ SeatLevel(seat'[q.target]) < q.by.level
           /\ q.by.super \/ NewlyAllowed(q.target) \subseteq q.by.perms
           /\ q.by.super \/ Gained(q.target) \subseteq
                                q.by.perms \cup CarriedBy(NewRoles(q.target))]_requestVars
=============================================================================
