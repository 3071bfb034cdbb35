--------------------------- MODULE StaffAssignments ---------------------------
(***************************************************************************)
(* Who works where: the accounts of a bookshop's staff and of its branch   *)
(* administrators, their assignments to branches (user_branches with the   *)
(* roles of user_branch_roles), and the branches themselves.               *)
(*                                                                         *)
(* Every write is one serializable transaction (runSerializableTransaction *)
(* retries a conflict), so it is one action here.  The exception is the    *)
(* replacement of a primary branch, which setUserBranchActive resolves     *)
(* before its transaction: ResolveReplacement and DeactivateAssignment.    *)
(* A login is two steps, too: the account is read, and the session opened. *)
(* Every operation can be called by a Super Admin, whose level and scope   *)
(* exceed every check, so the caller is left out; StaffRequests has the    *)
(* checks of the callers, and the direct permissions of an assignment.     *)
(***************************************************************************)
EXTENDS StaffRoles

CONSTANTS
    Users,          \* accounts that are not Super Admins
    Branches,
    NoBranch        \* "no replacement given"

ASSUME BranchesAssumption == NoBranch \notin Branches

StaffRoles == CustomRoles \cup {StaffRole}
Roles == StaffRoles \cup {BranchAdmin}
Kinds == {StaffRole, BranchAdmin}

VARIABLES
    account,       \* users: type, is_active, the global BRANCH_ADMIN mark, open sessions
    assignment,    \* user_branches with their roles; Absent where there is no row
    branchOpen,    \* branches.is_active
    roleOpen,      \* roles.is_active
    pending,       \* deactivations whose replacement is resolved, not yet written
    signingIn      \* logins that have read the account and not yet opened a session

vars == <<account, assignment, branchOpen, roleOpen, pending, signingIn>>

\* Whether the account was enabled when a session was opened.
SessionKinds == {"TIMELY", "LATE"}

AccountRow == [type: {"NONE", "CUSTOMER", "BRANCH"}, active: BOOLEAN,
               marked: BOOLEAN, sessions: SUBSET SessionKinds]

Absent == [present |-> FALSE, active |-> FALSE, primary |-> FALSE, roles |-> {}]

AssignmentRow == [present: BOOLEAN, active: BOOLEAN, primary: BOOLEAN, roles: SUBSET Roles]

Deactivation == [user: Users, branch: Branches, kind: Kinds, to: Branches \cup {NoBranch}]

TypeOK ==
    /\ account \in [Users -> AccountRow]
    /\ assignment \in [Users -> [Branches -> AssignmentRow]]
    /\ branchOpen \in [Branches -> BOOLEAN]
    /\ roleOpen \in [Roles -> BOOLEAN]
    /\ pending \in SUBSET Deactivation
    /\ signingIn \in SUBSET Users

NewAccount(type) == [type |-> type, active |-> TRUE, marked |-> FALSE, sessions |-> {}]

NewAssignment(primary, roles) ==
    [present |-> TRUE, active |-> TRUE, primary |-> primary, roles |-> roles]

Init ==
    /\ account = [u \in Users |-> [NewAccount("NONE") EXCEPT !.active = FALSE]]
    /\ assignment = [u \in Users |-> [b \in Branches |-> Absent]]
    /\ branchOpen = [b \in Branches |-> TRUE]
    /\ roleOpen = [r \in Roles |-> TRUE]
    /\ pending = {}
    /\ signingIn = {}

-----------------------------------------------------------------------------
(* Reading the tables. *)

\* managedAssignmentRoleWhere: the roles that make an assignment one of this kind.
KindRoles(kind) ==
    IF kind = BranchAdmin THEN {BranchAdmin} ELSE {r \in StaffRoles : roleOpen[r]}

OfKind(row, kind) == row.present /\ row.roles \cap KindRoles(kind) # {}

\* The assignments in force: active, at a branch that is active.
InForce(rows) == {b \in Branches : rows[b].active /\ branchOpen[b]}

\* Where another assignment of this kind could become the primary one.
Replacements(rows, b, kind) == {c \in InForce(rows) \ {b} : OfKind(rows[c], kind)}

\* Mutant: the sessions of the disabled account stay open.
DisabledStillSignedIn(acc, rows) ==
    IF InForce(rows) = {} THEN [acc EXCEPT !.active = FALSE] ELSE acc

\* A user of type BRANCH who has lost the last assignment in force is disabled
\* and signed out in the same transaction.
DisabledIfUnplaced(acc, rows) ==
    IF InForce(rows) = {} THEN [acc EXCEPT !.active = FALSE, !.sessions = {}] ELSE acc

\* One row made primary and active, the others as they are: nothing here keeps
\* another primary row from being left.
AlsoPrimary(rows, b) == [rows EXCEPT ![b] = [@ EXCEPT !.primary = TRUE, !.active = TRUE]]

\* Mutant: the other rows keep the mark.
OnePrimaryMore(rows, b) == AlsoPrimary(rows, b)

\* updateMany isPrimary: false for all rows of the user, then one primary row.
OnlyPrimary(rows, b) ==
    AlsoPrimary([c \in Branches |-> [rows[c] EXCEPT !.primary = FALSE]], b)

UsableStaffRoles(roles) == roles # {} /\ roles \subseteq KindRoles(StaffRole)

Write(u, acc, rows) ==
    /\ account' = [account EXCEPT ![u] = acc]
    /\ assignment' = [assignment EXCEPT ![u] = rows]

-----------------------------------------------------------------------------
(* Accounts. *)

\* A customer registers (the auth module).
Register(u) ==
    /\ account[u].type = "NONE"
    /\ Write(u, NewAccount("CUSTOMER"), assignment[u])
    /\ UNCHANGED <<branchOpen, roleOpen, pending, signingIn>>

\* login and loginWithGoogle: an active account is read, and then the password
\* is compared and the counters are reset.
CheckLogin(u) ==
    /\ account[u].active
    /\ signingIn' = signingIn \cup {u}
    /\ UNCHANGED <<account, assignment, branchOpen, roleOpen, pending>>

\* startSession: the account is not read again.
OpenSession(u) ==
    /\ u \in signingIn
    /\ LET session == IF account[u].active THEN "TIMELY" ELSE "LATE" IN
       Write(u, [account[u] EXCEPT !.sessions = @ \cup {session}], assignment[u])
    /\ signingIn' = signingIn \ {u}
    /\ UNCHANGED <<branchOpen, roleOpen, pending>>

\* The password is wrong, a write fails, or the process stops.
FailLogin(u) ==
    /\ u \in signingIn
    /\ signingIn' = signingIn \ {u}
    /\ UNCHANGED <<account, assignment, branchOpen, roleOpen, pending>>

\* createStaff: a new account with one assignment, the primary one.
CreateStaff(u, b, roles) ==
    /\ account[u].type = "NONE"
    /\ branchOpen[b] /\ UsableStaffRoles(roles)
    /\ Write(u, NewAccount("BRANCH"), [assignment[u] EXCEPT ![b] = NewAssignment(TRUE, roles)])
    /\ UNCHANGED <<branchOpen, roleOpen, pending, signingIn>>

\* The assignments of a new branch administrator; the first branch is primary.
AdminAssignments(chosen, first) ==
    [b \in Branches |-> IF b \in chosen THEN NewAssignment(b = first, {BranchAdmin}) ELSE Absent]

\* createBranchAdmin.
CreateBranchAdmin(u, chosen, first) ==
    /\ account[u].type = "NONE"
    /\ \A b \in chosen : branchOpen[b]
    /\ Write(u, [NewAccount("BRANCH") EXCEPT !.marked = TRUE], AdminAssignments(chosen, first))
    /\ UNCHANGED <<branchOpen, roleOpen, pending, signingIn>>

\* convertToBranchAdmin: of a customer, whether or not the account is active.
ConvertToBranchAdmin(u, chosen, first) ==
    /\ account[u].type = "CUSTOMER"
    /\ \A b \in chosen : branchOpen[b]
    /\ Write(u, [account[u] EXCEPT !.type = "BRANCH", !.marked = TRUE],
             AdminAssignments(chosen, first))
    /\ UNCHANGED <<branchOpen, roleOpen, pending, signingIn>>

\* convertToStaff: of an active customer, to any number of branches.
ConvertToStaff(u, rolesAt, first) ==
    /\ account[u].type = "CUSTOMER" /\ account[u].active
    /\ \A b \in DOMAIN rolesAt : branchOpen[b] /\ UsableStaffRoles(rolesAt[b])
    /\ Write(u, [account[u] EXCEPT !.type = "BRANCH"],
             [b \in Branches |-> IF b \in DOMAIN rolesAt
                                 THEN NewAssignment(b = first, rolesAt[b]) ELSE Absent])
    /\ UNCHANGED <<branchOpen, roleOpen, pending, signingIn>>

\* DELETE /users/:id (disableWithSessions).
DisableUser(u) ==
    /\ account[u].type # "NONE"
    /\ Write(u, [account[u] EXCEPT !.active = FALSE, !.sessions = {}], assignment[u])
    /\ UNCHANGED <<branchOpen, roleOpen, pending, signingIn>>

\* What UsersRepository.activate asks of a user of type BRANCH.
MayActivate(u) ==
    /\ InForce(assignment[u]) # {}
    /\ Cardinality({b \in InForce(assignment[u]) : assignment[u][b].primary}) = 1

ActivateUser(u) ==
    /\ account[u].type # "NONE"
    /\ account[u].type = "BRANCH" => MayActivate(u)
    /\ Write(u, [account[u] EXCEPT !.active = TRUE], assignment[u])
    /\ UNCHANGED <<branchOpen, roleOpen, pending, signingIn>>

-----------------------------------------------------------------------------
(* Assignments. *)

\* POST /staff/:id/assign-existing: primary when nothing else is active.
AssignExisting(u, b, roles) ==
    /\ account[u].type = "BRANCH"
    /\ branchOpen[b] /\ UsableStaffRoles(roles)
    /\ ~assignment[u][b].present
    /\ LET primary == \A c \in Branches : ~assignment[u][c].active IN
       Write(u, account[u], [assignment[u] EXCEPT ![b] = NewAssignment(primary, roles)])
    /\ UNCHANGED <<branchOpen, roleOpen, pending, signingIn>>

\* POST /staff/:id/branches/:branchId and its branch-admin twin: an upsert that
\* activates the row and adds the default role of the kind.
AssignBranch(u, b, kind) ==
    /\ account[u].type = "BRANCH"
    /\ kind = BranchAdmin => account[u].marked
    /\ branchOpen[b]
    /\ LET row == assignment[u][b] IN
       Write(u, account[u],
             [assignment[u] EXCEPT ![b] = [row EXCEPT !.present = TRUE, !.active = TRUE,
                                                      !.roles = @ \cup {kind}]])
    /\ UNCHANGED <<branchOpen, roleOpen, pending, signingIn>>

\* DELETE /staff/:id (offboardUserFromBranch): the oldest assignment left in
\* force becomes the primary one; which one that is, is left open.
Offboard(u, b) ==
    /\ OfKind(assignment[u][b], StaffRole) /\ b \in InForce(assignment[u])
    /\ LET row == assignment[u][b]
           left == [assignment[u] EXCEPT ![b] = [row EXCEPT !.active = FALSE, !.primary = FALSE]]
       IN IF row.primary /\ InForce(left) # {}
          THEN \E c \in InForce(left) :
                   Write(u, account[u], [left EXCEPT ![c] = [left[c] EXCEPT !.primary = TRUE]])
          ELSE Write(u, DisabledIfUnplaced(account[u], left), left)
    /\ UNCHANGED <<branchOpen, roleOpen, pending, signingIn>>

\* PUT /staff/:id/roles/:roleId at the selected branch.
AssignRole(u, b, r) ==
    /\ b \in InForce(assignment[u])
    /\ r \in KindRoles(StaffRole)
    /\ LET row == assignment[u][b] IN
       Write(u, account[u], [assignment[u] EXCEPT ![b] = [row EXCEPT !.roles = @ \cup {r}]])
    /\ UNCHANGED <<branchOpen, roleOpen, pending, signingIn>>

\* removeUserRole refuses to take the last role that counts as a staff role.
MayLose(row, r) ==
    r \in KindRoles(StaffRole) => Cardinality(row.roles \cap KindRoles(StaffRole)) > 1

RemoveRole(u, b, r) ==
    /\ b \in InForce(assignment[u])
    /\ r \in assignment[u][b].roles \cap StaffRoles
    /\ MayLose(assignment[u][b], r)
    /\ LET row == assignment[u][b] IN
       Write(u, account[u], [assignment[u] EXCEPT ![b] = [row EXCEPT !.roles = @ \ {r}]])
    /\ UNCHANGED <<branchOpen, roleOpen, pending, signingIn>>

\* transferStaffBranch: what is left, and its own check that one primary
\* assignment in force is left.
Transferred(rows, from, to, roles) ==
    LET moved == [rows EXCEPT ![to] = NewAssignment(FALSE, roles)]
        led == IF rows[from].primary THEN OnlyPrimary(moved, to) ELSE moved
    IN [led EXCEPT ![from] = [@ EXCEPT !.active = FALSE, !.primary = FALSE]]

Transfer(u, from, to, roles) ==
    /\ account[u].type = "BRANCH" /\ account[u].active
    /\ from # to
    /\ from \in InForce(assignment[u]) /\ OfKind(assignment[u][from], StaffRole)
    /\ branchOpen[to] /\ UsableStaffRoles(roles)
    /\ ~assignment[u][to].active
    /\ LET rows == Transferred(assignment[u], from, to, roles) IN
       /\ Cardinality({b \in InForce(rows) : rows[b].primary}) = 1
       /\ Write(u, account[u], rows)
    /\ UNCHANGED <<branchOpen, roleOpen, pending, signingIn>>

\* PATCH .../branches/:branchId/activate.
ActivateAssignment(u, b, kind) ==
    /\ branchOpen[b]
    /\ OfKind(assignment[u][b], kind)
    /\ Write(u, account[u], [assignment[u] EXCEPT ![b] = [@ EXCEPT !.active = TRUE]])
    /\ UNCHANGED <<branchOpen, roleOpen, pending, signingIn>>

\* resolvePrimaryReplacement, before the transaction of a deactivation: it is
\* asked for only if the row is primary and another of its kind is in force, and
\* then may name any row of the kind at an active branch.
MayReplace(rows, b, kind, to) ==
    IF rows[b].primary /\ Replacements(rows, b, kind) # {}
    THEN /\ to \in Branches \ {b}
         /\ OfKind(rows[to], kind) /\ branchOpen[to]
    ELSE to = NoBranch

ResolveReplacement(u, b, kind, to) ==
    /\ pending = {}
    /\ OfKind(assignment[u][b], kind)
    /\ MayReplace(assignment[u], b, kind, to)
    /\ pending' = {[user |-> u, branch |-> b, kind |-> kind, to |-> to]}
    /\ UNCHANGED <<account, assignment, branchOpen, roleOpen, signingIn>>

\* The replacement that a transaction accepts: a row in force of the kind, and
\* no check at all when there is no such row.
ReplacementAccepted(rows, b, kind, to) ==
    rows[b].primary /\ Replacements(rows, b, kind) # {} => to \in Replacements(rows, b, kind)

\* The rows once the primary mark has moved from b to the replacement, if one is
\* given; the caller then deactivates b.
Handed(rows, b, to) ==
    LET off == [rows EXCEPT ![b] = [@ EXCEPT !.primary = FALSE]]
    IN IF ~rows[b].primary THEN rows
       ELSE IF to = NoBranch THEN off ELSE AlsoPrimary(off, to)

\* setUserBranchActive with isActive false; an update of a missing row fails.
DeactivateAssignment(d) ==
    LET u == d.user
        rows == assignment[u]
        handed == Handed(rows, d.branch, d.to)
        left == [handed EXCEPT ![d.branch] = [@ EXCEPT !.active = FALSE]]
    IN /\ OfKind(rows[d.branch], d.kind)
       /\ ReplacementAccepted(rows, d.branch, d.kind, d.to)
       /\ rows[d.branch].primary /\ d.to # NoBranch => rows[d.to].present
       /\ Write(u, DisabledIfUnplaced(account[u], left), left)
       /\ pending' = pending \ {d}
       /\ UNCHANGED <<branchOpen, roleOpen, signingIn>>

\* The transaction refuses: nothing is written.
RefuseDeactivation(d) ==
    /\ \/ ~OfKind(assignment[d.user][d.branch], d.kind)
       \/ ~ReplacementAccepted(assignment[d.user], d.branch, d.kind, d.to)
       \/ /\ assignment[d.user][d.branch].primary
          /\ d.to # NoBranch /\ ~assignment[d.user][d.to].present
    /\ pending' = pending \ {d}
    /\ UNCHANGED <<account, assignment, branchOpen, roleOpen, signingIn>>

\* removeUserBranch: for a branch administrator the role goes first, and the
\* row stays when it has other roles; otherwise the row is deleted, its primary
\* mark handed to a replacement that is taken from the request as it is.
RemoveAssignment(u, b, kind, to) ==
    LET rows == assignment[u]
        others == rows[b].roles \ KindRoles(kind)
        handed == IF rows[b].primary /\ to # NoBranch THEN OnlyPrimary(rows, to) ELSE rows
        left == [handed EXCEPT ![b] = Absent]
    IN /\ OfKind(rows[b], kind)
       /\ IF kind = BranchAdmin /\ others # {}
          THEN Write(u, account[u], [rows EXCEPT ![b] = [@ EXCEPT !.roles = others]])
          ELSE /\ ReplacementAccepted(rows, b, kind, to)
               /\ rows[b].primary /\ to # NoBranch => rows[to].present
               /\ Write(u, DisabledIfUnplaced(account[u], left), left)
       /\ UNCHANGED <<branchOpen, roleOpen, pending, signingIn>>

\* PATCH .../branches/:branchId/primary.
SetPrimary(u, b, kind) ==
    /\ b \in InForce(assignment[u]) /\ OfKind(assignment[u][b], kind)
    /\ Write(u, account[u], OnlyPrimary(assignment[u], b))
    /\ UNCHANGED <<branchOpen, roleOpen, pending, signingIn>>

-----------------------------------------------------------------------------
(* Branches and roles. *)

\* updateBranchInScope: a branch with an active assignment stays open.
CloseBranch(b) ==
    /\ branchOpen[b]
    /\ \A u \in Users : ~assignment[u][b].active
    /\ branchOpen' = [branchOpen EXCEPT ![b] = FALSE]
    /\ UNCHANGED <<account, assignment, roleOpen, pending, signingIn>>

ReopenBranch(b) ==
    /\ ~branchOpen[b]
    /\ branchOpen' = [branchOpen EXCEPT ![b] = TRUE]
    /\ UNCHANGED <<account, assignment, roleOpen, pending, signingIn>>

\* deactivateRole: of a role that is not a system role.  No operation undoes it.
DeactivateRole(r) ==
    /\ r \in CustomRoles /\ roleOpen[r]
    /\ roleOpen' = [roleOpen EXCEPT ![r] = FALSE]
    /\ UNCHANGED <<account, assignment, branchOpen, pending, signingIn>>

-----------------------------------------------------------------------------
AccountStep(u) ==
    \/ Register(u)
    \/ CheckLogin(u)
    \/ OpenSession(u)
    \/ FailLogin(u)
    \/ DisableUser(u)
    \/ ActivateUser(u)
    \/ \E b \in Branches, roles \in SUBSET StaffRoles : CreateStaff(u, b, roles)
    \/ \E chosen \in SUBSET Branches : \E first \in chosen :
           \/ CreateBranchAdmin(u, chosen, first)
           \/ ConvertToBranchAdmin(u, chosen, first)
           \/ \E rolesAt \in [chosen -> SUBSET StaffRoles] : ConvertToStaff(u, rolesAt, first)

AssignmentStep(u, b) ==
    \/ Offboard(u, b)
    \/ \E roles \in SUBSET StaffRoles : AssignExisting(u, b, roles)
    \/ \E r \in StaffRoles : AssignRole(u, b, r) \/ RemoveRole(u, b, r)
    \/ \E to \in Branches, roles \in SUBSET StaffRoles : Transfer(u, b, to, roles)
    \/ \E kind \in Kinds :
           \/ AssignBranch(u, b, kind)
           \/ ActivateAssignment(u, b, kind)
           \/ SetPrimary(u, b, kind)
           \/ \E to \in Branches \cup {NoBranch} :
                  ResolveReplacement(u, b, kind, to) \/ RemoveAssignment(u, b, kind, to)

Next ==
    \/ \E u \in Users : AccountStep(u)
    \/ \E u \in Users, b \in Branches : AssignmentStep(u, b)
    \/ \E d \in pending : DeactivateAssignment(d) \/ RefuseDeactivation(d)
    \/ \E b \in Branches : CloseBranch(b) \/ ReopenBranch(b)
    \/ \E r \in CustomRoles : DeactivateRole(r)

Spec == Init /\ [][Next]_vars

-----------------------------------------------------------------------------
(* Properties. *)

\* The writes respect the two constraints of user_branches on their own: a
\* primary assignment is active and a user has one at most, so that no request
\* ends in a constraint error.  Eight operations move the mark, two of them by a
\* replacement chosen earlier.
PrimaryIsUnique ==
    \A u \in Users, b \in Branches :
        assignment[u][b].primary =>
            /\ assignment[u][b].active
            /\ \A c \in Branches \ {b} : ~assignment[u][c].primary

\* An enabled account of type BRANCH has an assignment in force: whatever takes
\* the last one away disables the account, and closing a branch cannot take one.
\* Whatever disables an account ends its sessions in the same write: a session
\* that is open on a disabled account was opened after the account was disabled,
\* by a login that had read it before.  The code leaves that window open (the
\* guards read the account with every request and refuse it while it is disabled).
EnabledIsPlaced ==
    \A u \in Users :
        /\ account[u].type = "BRANCH" /\ account[u].active => InForce(assignment[u]) # {}
        /\ ~account[u].active => account[u].sessions \subseteq {"LATE"}
=============================================================================
