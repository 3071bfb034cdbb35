------------------------------ MODULE StaffProofs ------------------------------
(***************************************************************************)
(* Proofs about the back office, for any staff, rows, orders and hours:    *)
(* the assignments of staff (StaffAssignments), their requests             *)
(* (StaffRequests), the registers that products and receipts refer to      *)
(* (Registers), the figures (OrderReports), and MCStaff, which composes    *)
(* these four.                                                             *)
(***************************************************************************)
EXTENDS MCStaff, SumTheorems, FiniteSetTheorems, WellFoundedInduction, TLAPS

-----------------------------------------------------------------------------
(* Assignments: the invariant speaks of one account and its rows at a time   *)
(* (Consistent), so every operation on an account is proved by showing what  *)
(* the row it writes looks like (the lemmas on rows) and then by lemma       *)
(* AccountWrite.                                                             *)

\* The rows of a user respect the constraints of user_branches.
RowsOK(rows) ==
    /\ rows \in [Branches -> AssignmentRow]
    /\ \A b \in Branches : rows[b].primary =>
           /\ rows[b].active
           /\ \A c \in Branches \ {b} : ~rows[c].primary

\* An account agrees with its rows, of which only a BRANCH account has any.
Consistent(acc, rows) ==
    /\ acc \in AccountRow
    /\ acc.type = "BRANCH" /\ acc.active => InForce(rows) # {}
    /\ ~acc.active => acc.sessions \subseteq {"LATE"}
    /\ acc.type # "BRANCH" => \A b \in Branches : rows[b] = Absent

TablesOK ==
    /\ branchOpen \in [Branches -> BOOLEAN]
    /\ roleOpen \in [Roles -> BOOLEAN]
    /\ pending \in SUBSET Deactivation
    /\ \A d \in pending : d.to # d.branch
    /\ signingIn \in SUBSET Users

IInv ==
    /\ TablesOK
    /\ account \in [Users -> AccountRow]
    /\ assignment \in [Users -> [Branches -> AssignmentRow]]
    /\ \A u \in Users : RowsOK(assignment[u]) /\ Consistent(account[u], assignment[u])

-----------------------------------------------------------------------------
(* Rows. *)

LEMMA AbsentType == Absent \in AssignmentRow /\ ~Absent.active /\ ~Absent.primary
BY DEF Absent, AssignmentRow

LEMMA NewAssignmentType ==
    ASSUME NEW p \in BOOLEAN, NEW roles \in SUBSET Roles
    PROVE  /\ NewAssignment(p, roles) \in AssignmentRow
           /\ NewAssignment(p, roles).active
           /\ NewAssignment(p, roles).primary = p
BY DEF NewAssignment, AssignmentRow

\* Writing one row keeps the constraints when it is no primary row next to another.
LEMMA OneRow ==
    ASSUME NEW rows, RowsOK(rows), NEW b \in Branches, NEW row \in AssignmentRow,
           row.primary => /\ row.active
                          /\ \A c \in Branches \ {b} : ~rows[c].primary
    PROVE  RowsOK([rows EXCEPT ![b] = row])
BY DEF RowsOK

\* More rows active, more rows in force.
LEMMA InForceGrows ==
    ASSUME NEW rows, NEW more,
           \A b \in Branches : rows[b].active => more[b].active
    PROVE  InForce(rows) \subseteq InForce(more)
BY DEF InForce

\* AlsoPrimary, and OnlyPrimary: the only primary row, and no row less active.
LEMMA AlsoPrimaryRows ==
    ASSUME NEW rows \in [Branches -> AssignmentRow], NEW b \in Branches
    PROVE  /\ AlsoPrimary(rows, b) \in [Branches -> AssignmentRow]
           /\ AlsoPrimary(rows, b)[b].primary /\ AlsoPrimary(rows, b)[b].active
           /\ \A c \in Branches \ {b} : AlsoPrimary(rows, b)[c] = rows[c]
<1> DEFINE row == [rows[b] EXCEPT !.primary = TRUE, !.active = TRUE]
<1>1. rows[b] \in AssignmentRow
  OBVIOUS
<1>2. row \in AssignmentRow /\ row.primary /\ row.active
  BY <1>1 DEF AssignmentRow
<1>3. AlsoPrimary(rows, b) = [rows EXCEPT ![b] = row]
  BY DEF AlsoPrimary
<1> HIDE DEF row
<1> QED
  BY <1>2, <1>3

LEMMA OnlyPrimaryRows ==
    ASSUME NEW rows \in [Branches -> AssignmentRow], NEW b \in Branches
    PROVE  /\ RowsOK(OnlyPrimary(rows, b))
           /\ \A c \in Branches : rows[c].active => OnlyPrimary(rows, b)[c].active
           /\ OnlyPrimary(rows, b)[b].active
           /\ \A c \in Branches \ {b} : OnlyPrimary(rows, b)[c].active = rows[c].active
<1> DEFINE clear == [c \in Branches |-> [rows[c] EXCEPT !.primary = FALSE]]
<1>1. ASSUME NEW c \in Branches
      PROVE  clear[c] \in AssignmentRow /\ ~clear[c].primary /\ clear[c].active = rows[c].active
  <2>1. rows[c] \in AssignmentRow
    OBVIOUS
  <2> QED
    BY <2>1 DEF AssignmentRow
<1>2. clear \in [Branches -> AssignmentRow]
  BY <1>1
<1>3. OnlyPrimary(rows, b) = AlsoPrimary(clear, b)
  BY DEF OnlyPrimary
<1> HIDE DEF clear
<1> DEFINE only == AlsoPrimary(clear, b)
<1>4. /\ only \in [Branches -> AssignmentRow]
      /\ only[b].primary /\ only[b].active
      /\ \A c \in Branches \ {b} : only[c] = clear[c]
  BY <1>2, AlsoPrimaryRows
<1> HIDE DEF only
<1>5. \A c \in Branches \ {b} : ~only[c].primary /\ only[c].active = rows[c].active
  BY <1>1, <1>4
<1>6. RowsOK(only)
  BY <1>4, <1>5 DEF RowsOK
<1>7. OnlyPrimary(rows, b) = only
  BY <1>3 DEF only
<1> QED
  BY <1>4, <1>5, <1>6, <1>7

-----------------------------------------------------------------------------
(* Accounts. *)

LEMMA NewAccountType ==
    ASSUME NEW t \in {"NONE", "CUSTOMER", "BRANCH"}
    PROVE  /\ NewAccount(t) \in AccountRow
           /\ NewAccount(t).type = t /\ NewAccount(t).sessions = {}
BY DEF NewAccount, AccountRow

LEMMA DisabledOK ==
    ASSUME NEW acc, NEW old, Consistent(acc, old), acc.type = "BRANCH", NEW rows
    PROVE  Consistent(DisabledIfUnplaced(acc, rows), rows)
<1> DEFINE off == [acc EXCEPT !.active = FALSE, !.sessions = {}]
<1>1. acc \in AccountRow /\ (~acc.active => acc.sessions \subseteq {"LATE"})
  BY DEF Consistent
<1>2. off \in AccountRow /\ ~off.active /\ off.sessions = {} /\ off.type = acc.type
  BY <1>1 DEF AccountRow
<1>3. DisabledIfUnplaced(acc, rows) = IF InForce(rows) = {} THEN off ELSE acc
  BY DEF DisabledIfUnplaced
<1> HIDE DEF off
<1> QED
  BY <1>1, <1>2, <1>3 DEF Consistent

\* A write to one account, the branches as they are, keeps the invariant.
LEMMA AccountWrite ==
    ASSUME IInv, NEW u \in Users, NEW acc, NEW rows,
           Write(u, acc, rows), RowsOK(rows), Consistent(acc, rows),
           UNCHANGED <<branchOpen, roleOpen>>, pending' \subseteq pending,
           signingIn' \subseteq signingIn
    PROVE  IInv'
<1>1. rows \in [Branches -> AssignmentRow] /\ acc \in AccountRow
  BY DEF RowsOK, Consistent
<1>2. account' \in [Users -> AccountRow] /\ assignment' \in [Users -> [Branches -> AssignmentRow]]
  BY <1>1 DEF IInv, Write
<1>3. TablesOK'
  BY DEF IInv, TablesOK
<1>4. ASSUME NEW v \in Users
      PROVE  (RowsOK(assignment[v]) /\ Consistent(account[v], assignment[v]))'
  <2>1. CASE v = u
    <3>1. account'[v] = acc /\ assignment'[v] = rows
      BY <2>1 DEF IInv, Write
    <3> QED
      BY <3>1 DEF RowsOK, Consistent, InForce
  <2>2. CASE v # u
    <3>1. account'[v] = account[v] /\ assignment'[v] = assignment[v]
      BY <2>2 DEF IInv, Write
    <3>2. RowsOK(assignment[v]) /\ Consistent(account[v], assignment[v])
      BY DEF IInv
    <3> QED
      BY <3>1, <3>2 DEF RowsOK, Consistent, InForce
  <2> QED
    BY <2>1, <2>2
<1> QED
  BY <1>2, <1>3, <1>4 DEF IInv

\* The rows of one user change and no row in force is lost.
LEMMA RowsGrow ==
    ASSUME IInv, NEW u \in Users, NEW rows, account[u].type = "BRANCH",
           Write(u, account[u], rows), RowsOK(rows),
           InForce(assignment[u]) # {} => InForce(rows) # {},
           UNCHANGED <<branchOpen, roleOpen, pending, signingIn>>
    PROVE  IInv'
<1>1. Consistent(account[u], assignment[u])
  BY DEF IInv
<1>2. Consistent(account[u], rows)
  BY <1>1 DEF Consistent
<1> QED
  BY <1>2, AccountWrite

\* An account with a row is of type BRANCH.
LEMMA HasRow ==
    ASSUME IInv, NEW u \in Users, NEW b \in Branches,
           assignment[u][b].active \/ assignment[u][b].present
    PROVE  account[u].type = "BRANCH"
<1>1. Consistent(account[u], assignment[u])
  BY DEF IInv
<1>2. ~Absent.active /\ ~Absent.present
  BY DEF Absent
<1> QED
  BY <1>1, <1>2 DEF Consistent

-----------------------------------------------------------------------------
(* The operations on accounts. *)

LEMMA AccountOnly ==
    ASSUME IInv, NEW u \in Users, NEW acc,
           Write(u, acc, assignment[u]), Consistent(acc, assignment[u]),
           UNCHANGED <<branchOpen, roleOpen, pending, signingIn>>
    PROVE  IInv'
<1>1. RowsOK(assignment[u])
  BY DEF IInv
<1> QED
  BY <1>1, AccountWrite

LEMMA RegisterKeeps ==
    ASSUME IInv, NEW u \in Users, Register(u)
    PROVE  IInv'
<1>1. Consistent(account[u], assignment[u])
  BY DEF IInv
<1>2. Consistent(NewAccount("CUSTOMER"), assignment[u])
  BY <1>1, NewAccountType DEF Consistent, Register
<1> QED
  BY <1>2, AccountOnly DEF Register

\* The first step of a login, and a login that fails: no account is written.
LEMMA LoginStepKeeps ==
    ASSUME IInv, NEW u \in Users, CheckLogin(u) \/ FailLogin(u)
    PROVE  IInv'
<1>1. /\ signingIn' \in SUBSET Users
      /\ UNCHANGED <<account, assignment, branchOpen, roleOpen, pending>>
  BY DEF CheckLogin, FailLogin, IInv, TablesOK
<1>2. TablesOK'
  BY <1>1 DEF IInv, TablesOK
<1> QED
  BY <1>1, <1>2 DEF IInv, RowsOK, Consistent, InForce

LEMMA OpenSessionKeeps ==
    ASSUME IInv, NEW u \in Users, OpenSession(u)
    PROVE  IInv'
<1> DEFINE session == IF account[u].active THEN "TIMELY" ELSE "LATE"
           acc == [account[u] EXCEPT !.sessions = account[u].sessions \cup {session}]
<1>1. Consistent(account[u], assignment[u]) /\ RowsOK(assignment[u])
  BY DEF IInv
<1>2. account[u] \in AccountRow
  BY <1>1 DEF Consistent
<1>3. session \in SessionKinds /\ (~account[u].active => session = "LATE")
  BY DEF SessionKinds
<1>4. Write(u, acc, assignment[u])
  BY <1>2 DEF OpenSession, AccountRow
<1>5. /\ UNCHANGED <<branchOpen, roleOpen, pending>>
      /\ signingIn' \subseteq signingIn
  BY DEF OpenSession
<1> HIDE DEF session
<1>6. /\ acc \in AccountRow /\ acc.type = account[u].type /\ acc.active = account[u].active
      /\ acc.sessions = account[u].sessions \cup {session}
  BY <1>2, <1>3 DEF AccountRow
<1> HIDE DEF acc
<1>7. Consistent(acc, assignment[u])
  BY <1>1, <1>3, <1>6 DEF Consistent
<1> QED
  BY <1>1, <1>4, <1>5, <1>7, AccountWrite

LEMMA DisableUserKeeps ==
    ASSUME IInv, NEW u \in Users, DisableUser(u)
    PROVE  IInv'
<1> DEFINE acc == [account[u] EXCEPT !.active = FALSE, !.sessions = {}]
<1>1. Consistent(account[u], assignment[u])
  BY DEF IInv
<1>2. account[u] \in AccountRow
  BY <1>1 DEF Consistent
<1>3. acc \in AccountRow /\ acc.type = account[u].type /\ ~acc.active /\ acc.sessions = {}
  BY <1>2 DEF AccountRow
<1>4. Write(u, acc, assignment[u]) /\ UNCHANGED <<branchOpen, roleOpen, pending, signingIn>>
  BY DEF DisableUser
<1> HIDE DEF acc
<1>5. Consistent(acc, assignment[u])
  BY <1>1, <1>3 DEF Consistent
<1> QED
  BY <1>4, <1>5, AccountOnly

LEMMA ActivateUserKeeps ==
    ASSUME IInv, NEW u \in Users, ActivateUser(u)
    PROVE  IInv'
<1> DEFINE acc == [account[u] EXCEPT !.active = TRUE]
<1>1. Consistent(account[u], assignment[u])
  BY DEF IInv
<1>2. account[u] \in AccountRow
  BY <1>1 DEF Consistent
<1>3. acc \in AccountRow /\ acc.type = account[u].type /\ acc.active
  BY <1>2 DEF AccountRow
<1>4. Write(u, acc, assignment[u]) /\ UNCHANGED <<branchOpen, roleOpen, pending, signingIn>>
  BY DEF ActivateUser
<1>5. account[u].type = "BRANCH" => InForce(assignment[u]) # {}
  BY DEF ActivateUser, MayActivate
<1> HIDE DEF acc
<1>6. Consistent(acc, assignment[u])
  BY <1>1, <1>3, <1>5 DEF Consistent
<1> QED
  BY <1>4, <1>6, AccountOnly

\* New rows for an account that had none.
LEMMA FirstRows ==
    ASSUME IInv, NEW u \in Users, NEW acc \in AccountRow, NEW rows,
           acc.type = "BRANCH", ~acc.active => acc.sessions \subseteq {"LATE"}, RowsOK(rows),
           InForce(rows) # {}, Write(u, acc, rows),
           UNCHANGED <<branchOpen, roleOpen, pending, signingIn>>
    PROVE  IInv'
<1>1. Consistent(acc, rows)
  BY DEF Consistent
<1> QED
  BY <1>1, AccountWrite

LEMMA CreateStaffKeeps ==
    ASSUME IInv, NEW u \in Users, NEW b \in Branches, NEW roles \in SUBSET StaffRoles,
           CreateStaff(u, b, roles)
    PROVE  IInv'
<1> DEFINE row == NewAssignment(TRUE, roles)
           rows == [assignment[u] EXCEPT ![b] = row]
<1>1. Consistent(account[u], assignment[u]) /\ RowsOK(assignment[u]) /\ branchOpen[b]
  BY DEF IInv, CreateStaff
<1>2. row \in AssignmentRow /\ row.active
  BY NewAssignmentType DEF Roles
<1>3. \A c \in Branches : ~assignment[u][c].primary
  BY <1>1, AbsentType DEF Consistent, CreateStaff
<1>4. Write(u, NewAccount("BRANCH"), rows) /\ UNCHANGED <<branchOpen, roleOpen, pending, signingIn>>
  BY DEF CreateStaff
<1> HIDE DEF row
<1>5. RowsOK(rows)
  BY <1>1, <1>2, <1>3, OneRow
<1>6. b \in InForce(rows)
  BY <1>1, <1>2 DEF InForce, RowsOK
<1> HIDE DEF rows
<1> QED
  BY <1>4, <1>5, <1>6, NewAccountType, FirstRows

\* AdminAssignments is what a branch administrator starts with.
LEMMA AdminAssignmentsOK ==
    ASSUME NEW chosen \in SUBSET Branches, NEW first \in chosen,
           \A b \in chosen : branchOpen[b]
    PROVE  /\ RowsOK(AdminAssignments(chosen, first))
           /\ first \in InForce(AdminAssignments(chosen, first))
<1> DEFINE rows == AdminAssignments(chosen, first)
<1>1. ASSUME NEW b \in Branches
      PROVE  /\ rows[b] \in AssignmentRow
             /\ rows[b].primary <=> b = first
             /\ b = first => rows[b].active
  <2>1. CASE b \in chosen
    <3>1. rows[b] = NewAssignment(b = first, {BranchAdmin})
      BY <2>1 DEF AdminAssignments
    <3>2. {BranchAdmin} \in SUBSET Roles /\ (b = first) \in BOOLEAN
      BY DEF Roles
    <3> QED
      BY <3>1, <3>2, NewAssignmentType
  <2>2. CASE b \notin chosen
    <3>1. rows[b] = Absent /\ b # first
      BY <2>2 DEF AdminAssignments
    <3> QED
      BY <3>1, AbsentType
  <2> QED
    BY <2>1, <2>2
<1>2. rows = [b \in Branches |-> rows[b]]
  BY DEF AdminAssignments
<1> HIDE DEF rows
<1>3. RowsOK(rows)
  BY <1>1, <1>2 DEF RowsOK
<1>4. first \in InForce(rows)
  BY <1>1 DEF InForce
<1> QED
  BY <1>3, <1>4 DEF rows

LEMMA CreateBranchAdminKeeps ==
    ASSUME IInv, NEW u \in Users, NEW chosen \in SUBSET Branches, NEW first \in chosen,
           CreateBranchAdmin(u, chosen, first)
    PROVE  IInv'
<1> DEFINE acc == [NewAccount("BRANCH") EXCEPT !.marked = TRUE]
           rows == AdminAssignments(chosen, first)
<1>1. acc \in AccountRow /\ acc.type = "BRANCH" /\ acc.active
  BY DEF NewAccount, AccountRow
<1>2. RowsOK(rows) /\ first \in InForce(rows)
  BY AdminAssignmentsOK DEF CreateBranchAdmin
<1>3. Write(u, acc, rows) /\ UNCHANGED <<branchOpen, roleOpen, pending, signingIn>>
  BY DEF CreateBranchAdmin
<1> HIDE DEF acc, rows
<1> QED
  BY <1>1, <1>2, <1>3, FirstRows

LEMMA ConvertToBranchAdminKeeps ==
    ASSUME IInv, NEW u \in Users, NEW chosen \in SUBSET Branches, NEW first \in chosen,
           ConvertToBranchAdmin(u, chosen, first)
    PROVE  IInv'
<1> DEFINE acc == [account[u] EXCEPT !.type = "BRANCH", !.marked = TRUE]
           rows == AdminAssignments(chosen, first)
<1>1. Consistent(account[u], assignment[u])
  BY DEF IInv
<1>2. /\ account[u] \in AccountRow
      /\ ~account[u].active => account[u].sessions \subseteq {"LATE"}
  BY <1>1 DEF Consistent
<1>3. /\ acc \in AccountRow /\ acc.type = "BRANCH"
      /\ ~acc.active => acc.sessions \subseteq {"LATE"}
  BY <1>2 DEF AccountRow
<1>4. RowsOK(rows) /\ first \in InForce(rows)
  BY AdminAssignmentsOK DEF ConvertToBranchAdmin
<1>5. Write(u, acc, rows) /\ UNCHANGED <<branchOpen, roleOpen, pending, signingIn>>
  BY DEF ConvertToBranchAdmin
<1> HIDE DEF acc, rows
<1> QED
  BY <1>3, <1>4, <1>5, FirstRows

LEMMA ConvertToStaffKeeps ==
    ASSUME IInv, NEW u \in Users, NEW chosen \in SUBSET Branches, NEW first \in chosen,
           NEW rolesAt \in [chosen -> SUBSET StaffRoles],
           ConvertToStaff(u, rolesAt, first)
    PROVE  IInv'
<1> DEFINE acc == [account[u] EXCEPT !.type = "BRANCH"]
           rows == [b \in Branches |-> IF b \in DOMAIN rolesAt
                                       THEN NewAssignment(b = first, rolesAt[b]) ELSE Absent]
<1>1. Consistent(account[u], assignment[u])
  BY DEF IInv
<1>2. /\ account[u] \in AccountRow
      /\ ~account[u].active => account[u].sessions \subseteq {"LATE"}
  BY <1>1 DEF Consistent
<1>3. /\ acc \in AccountRow /\ acc.type = "BRANCH"
      /\ ~acc.active => acc.sessions \subseteq {"LATE"}
  BY <1>2 DEF AccountRow
<1>4. ASSUME NEW b \in Branches
      PROVE  /\ rows[b] \in AssignmentRow
             /\ rows[b].primary <=> b = first
             /\ b = first => rows[b].active
  <2>1. CASE b \in chosen
    <3>1. rows[b] = NewAssignment(b = first, rolesAt[b])
      BY <2>1
    <3>2. rolesAt[b] \in SUBSET Roles /\ (b = first) \in BOOLEAN
      BY <2>1 DEF Roles
    <3> QED
      BY <3>1, <3>2, NewAssignmentType
  <2>2. CASE b \notin chosen
    <3>1. rows[b] = Absent /\ b # first
      BY <2>2
    <3> QED
      BY <3>1, AbsentType
  <2> QED
    BY <2>1, <2>2
<1>5. Write(u, acc, rows) /\ UNCHANGED <<branchOpen, roleOpen, pending, signingIn>>
  BY DEF ConvertToStaff
<1>6. rows = [b \in Branches |-> rows[b]] /\ first \in Branches /\ branchOpen[first]
  BY DEF ConvertToStaff
<1> HIDE DEF acc, rows
<1>7. RowsOK(rows)
  BY <1>4, <1>6 DEF RowsOK
<1>8. first \in InForce(rows)
  BY <1>4, <1>6 DEF InForce
<1> QED
  BY <1>3, <1>5, <1>7, <1>8, FirstRows

-----------------------------------------------------------------------------
(* The operations on assignments. *)

\* A row of user u is written and the other rows stay.
LEMMA RowWrite ==
    ASSUME IInv, NEW u \in Users, NEW b \in Branches, NEW row \in AssignmentRow,
           account[u].type = "BRANCH",
           row.primary => /\ row.active
                          /\ \A c \in Branches \ {b} : ~assignment[u][c].primary,
           assignment[u][b].active => row.active,
           Write(u, account[u], [assignment[u] EXCEPT ![b] = row]),
           UNCHANGED <<branchOpen, roleOpen, pending, signingIn>>
    PROVE  IInv'
<1> DEFINE rows == [assignment[u] EXCEPT ![b] = row]
<1>1. RowsOK(assignment[u])
  BY DEF IInv
<1>2. RowsOK(rows)
  BY <1>1, OneRow
<1>3. \A c \in Branches : assignment[u][c].active => rows[c].active
  BY <1>1 DEF RowsOK
<1>4. InForce(assignment[u]) \subseteq InForce(rows)
  BY <1>3, InForceGrows
<1>5. Write(u, account[u], rows)
  OBVIOUS
<1> HIDE DEF rows
<1> QED
  BY <1>2, <1>4, <1>5, RowsGrow

\* The row that stays primary is the primary row it was.
LEMMA OldRow ==
    ASSUME IInv, NEW u \in Users, NEW b \in Branches
    PROVE  /\ assignment[u][b] \in AssignmentRow
           /\ assignment[u][b].primary =>
                  /\ assignment[u][b].active
                  /\ \A c \in Branches \ {b} : ~assignment[u][c].primary
BY DEF IInv, RowsOK

LEMMA AssignExistingKeeps ==
    ASSUME IInv, NEW u \in Users, NEW b \in Branches, NEW roles \in SUBSET StaffRoles,
           AssignExisting(u, b, roles)
    PROVE  IInv'
<1> DEFINE primary == \A c \in Branches : ~assignment[u][c].active
           row == NewAssignment(primary, roles)
<1>1. primary \in BOOLEAN /\ roles \in SUBSET Roles
  BY DEF Roles
<1>2. row \in AssignmentRow /\ row.active /\ (row.primary <=> primary)
  BY <1>1, NewAssignmentType
<1>3. /\ account[u].type = "BRANCH"
      /\ Write(u, account[u], [assignment[u] EXCEPT ![b] = row])
      /\ UNCHANGED <<branchOpen, roleOpen, pending, signingIn>>
  BY DEF AssignExisting
<1>4. primary => \A c \in Branches \ {b} : ~assignment[u][c].primary
  BY OldRow
<1> HIDE DEF row, primary
<1> QED
  BY <1>2, <1>3, <1>4, RowWrite

LEMMA AssignBranchKeeps ==
    ASSUME IInv, NEW u \in Users, NEW b \in Branches, NEW post \in Kinds,
           AssignBranch(u, b, post)
    PROVE  IInv'
<1> DEFINE old == assignment[u][b]
           row == [old EXCEPT !.present = TRUE, !.active = TRUE, !.roles = @ \cup {post}]
<1>1. old \in AssignmentRow
  BY OldRow
<1>2. row \in AssignmentRow /\ row.active /\ row.primary = old.primary
  BY <1>1 DEF AssignmentRow, Kinds, Roles, StaffRoles
<1>3. /\ account[u].type = "BRANCH"
      /\ Write(u, account[u], [assignment[u] EXCEPT ![b] = row])
      /\ UNCHANGED <<branchOpen, roleOpen, pending, signingIn>>
  BY DEF AssignBranch
<1>4. row.primary => \A c \in Branches \ {b} : ~assignment[u][c].primary
  BY <1>2, OldRow
<1> HIDE DEF row
<1> QED
  BY <1>2, <1>3, <1>4, RowWrite

\* A row in force is a row of a BRANCH account.
LEMMA InForceRow ==
    ASSUME IInv, NEW u \in Users, NEW b \in Branches, b \in InForce(assignment[u])
    PROVE  account[u].type = "BRANCH" /\ assignment[u][b].active
BY HasRow DEF InForce

LEMMA RolesWriteKeeps ==
    ASSUME IInv, NEW u \in Users, NEW b \in Branches, NEW roles \in SUBSET Roles,
           account[u].type = "BRANCH",
           Write(u, account[u], [assignment[u] EXCEPT
                                     ![b] = [assignment[u][b] EXCEPT !.roles = roles]]),
           UNCHANGED <<branchOpen, roleOpen, pending, signingIn>>
    PROVE  IInv'
<1> DEFINE old == assignment[u][b]
           row == [old EXCEPT !.roles = roles]
<1>1. old \in AssignmentRow
  BY OldRow
<1>2. row \in AssignmentRow /\ row.active = old.active /\ row.primary = old.primary
  BY <1>1 DEF AssignmentRow
<1>3. Write(u, account[u], [assignment[u] EXCEPT ![b] = row])
  OBVIOUS
<1>4. row.primary => row.active /\ \A c \in Branches \ {b} : ~assignment[u][c].primary
  BY <1>2, OldRow
<1> HIDE DEF row
<1> QED
  BY <1>2, <1>3, <1>4, RowWrite

LEMMA AssignRoleKeeps ==
    ASSUME IInv, NEW u \in Users, NEW b \in Branches, NEW r \in StaffRoles, AssignRole(u, b, r)
    PROVE  IInv'
<1>1. account[u].type = "BRANCH"
  BY InForceRow DEF AssignRole
<1>2. assignment[u] \in [Branches -> AssignmentRow] /\ assignment[u][b] \in AssignmentRow
  BY DEF IInv
<1>3. assignment[u][b].roles \cup {r} \in SUBSET Roles
  BY <1>2 DEF AssignmentRow, Roles
<1>4. /\ Write(u, account[u],
               [assignment[u] EXCEPT
                    ![b] = [assignment[u][b] EXCEPT !.roles = assignment[u][b].roles \cup {r}]])
      /\ UNCHANGED <<branchOpen, roleOpen, pending, signingIn>>
  BY <1>2 DEF AssignRole
<1> QED
  BY <1>1, <1>3, <1>4, RolesWriteKeeps

LEMMA RemoveRoleKeeps ==
    ASSUME IInv, NEW u \in Users, NEW b \in Branches, NEW r \in StaffRoles, RemoveRole(u, b, r)
    PROVE  IInv'
<1>1. account[u].type = "BRANCH"
  BY InForceRow DEF RemoveRole
<1>2. assignment[u] \in [Branches -> AssignmentRow] /\ assignment[u][b] \in AssignmentRow
  BY DEF IInv
<1>3. assignment[u][b].roles \ {r} \in SUBSET Roles
  BY <1>2 DEF AssignmentRow
<1>4. /\ Write(u, account[u],
               [assignment[u] EXCEPT
                    ![b] = [assignment[u][b] EXCEPT !.roles = assignment[u][b].roles \ {r}]])
      /\ UNCHANGED <<branchOpen, roleOpen, pending, signingIn>>
  BY <1>2 DEF RemoveRole
<1> QED
  BY <1>1, <1>3, <1>4, RolesWriteKeeps

LEMMA ActivateAssignmentKeeps ==
    ASSUME IInv, NEW u \in Users, NEW b \in Branches, NEW post \in Kinds,
           ActivateAssignment(u, b, post)
    PROVE  IInv'
<1> DEFINE old == assignment[u][b]
           row == [old EXCEPT !.active = TRUE]
<1>1. old \in AssignmentRow
  BY OldRow
<1>2. row \in AssignmentRow /\ row.active /\ row.primary = old.primary
  BY <1>1 DEF AssignmentRow
<1>3. account[u].type = "BRANCH"
  BY HasRow DEF ActivateAssignment, OfKind
<1>4. /\ Write(u, account[u], [assignment[u] EXCEPT ![b] = row])
      /\ UNCHANGED <<branchOpen, roleOpen, pending, signingIn>>
  BY DEF ActivateAssignment
<1>5. row.primary => \A c \in Branches \ {b} : ~assignment[u][c].primary
  BY <1>2, OldRow
<1> HIDE DEF row
<1> QED
  BY <1>2, <1>3, <1>4, <1>5, RowWrite

LEMMA SetPrimaryKeeps ==
    ASSUME IInv, NEW u \in Users, NEW b \in Branches, NEW post \in Kinds, SetPrimary(u, b, post)
    PROVE  IInv'
<1> DEFINE rows == OnlyPrimary(assignment[u], b)
<1>1. account[u].type = "BRANCH"
  BY InForceRow DEF SetPrimary
<1>2. assignment[u] \in [Branches -> AssignmentRow]
  BY DEF IInv
<1>3. RowsOK(rows) /\ \A c \in Branches : assignment[u][c].active => rows[c].active
  BY <1>2, OnlyPrimaryRows
<1>4. Write(u, account[u], rows) /\ UNCHANGED <<branchOpen, roleOpen, pending, signingIn>>
  BY DEF SetPrimary
<1> HIDE DEF rows
<1>5. InForce(assignment[u]) \subseteq InForce(rows)
  BY <1>3, InForceGrows
<1> QED
  BY <1>1, <1>3, <1>4, <1>5, RowsGrow

LEMMA OffboardKeeps ==
    ASSUME IInv, NEW u \in Users, NEW b \in Branches, Offboard(u, b)
    PROVE  IInv'
<1> DEFINE row == assignment[u][b]
           off == [row EXCEPT !.active = FALSE, !.primary = FALSE]
           left == [assignment[u] EXCEPT ![b] = off]
<1>1. account[u].type = "BRANCH"
  BY InForceRow DEF Offboard
<1>2. RowsOK(assignment[u]) /\ Consistent(account[u], assignment[u])
  BY DEF IInv
<1>3. row \in AssignmentRow /\ (row.primary => \A c \in Branches \ {b} : ~assignment[u][c].primary)
  BY OldRow
<1>4. off \in AssignmentRow /\ ~off.active /\ ~off.primary
  BY <1>3 DEF AssignmentRow
<1>5. UNCHANGED <<branchOpen, roleOpen, pending, signingIn>>
  BY DEF Offboard
<1>6. \/ row.primary /\ \E c \in InForce(left) :
             Write(u, account[u], [left EXCEPT ![c] = [left[c] EXCEPT !.primary = TRUE]])
      \/ Write(u, DisabledIfUnplaced(account[u], left), left)
  BY DEF Offboard
<1> HIDE DEF off
<1>7. RowsOK(left)
  BY <1>2, <1>4, OneRow
<1>8. CASE Write(u, DisabledIfUnplaced(account[u], left), left)
  <2>1. Consistent(DisabledIfUnplaced(account[u], left), left)
    BY <1>1, <1>2, DisabledOK
  <2> QED
    BY <1>5, <1>7, <1>8, <2>1, AccountWrite
<1>9. ASSUME row.primary, NEW c \in InForce(left),
             Write(u, account[u], [left EXCEPT ![c] = [left[c] EXCEPT !.primary = TRUE]])
      PROVE  IInv'
  <2> DEFINE lead == [left[c] EXCEPT !.primary = TRUE]
             rows == [left EXCEPT ![c] = lead]
  <2>1. c \in Branches /\ left[c].active /\ branchOpen[c]
    BY <1>9 DEF InForce
  <2>2. \A d \in Branches : ~left[d].primary
    BY <1>2, <1>3, <1>4, <1>9 DEF RowsOK
  <2>3. left[c] \in AssignmentRow
    BY <1>7, <2>1 DEF RowsOK
  <2>4. lead \in AssignmentRow /\ lead.active
    BY <2>1, <2>3 DEF AssignmentRow
  <2>5. Write(u, account[u], rows)
    BY <1>9
  <2> HIDE DEF lead, left
  <2>6. RowsOK(rows)
    BY <1>7, <2>1, <2>2, <2>4, OneRow
  <2>7. c \in InForce(rows)
    BY <1>7, <2>1, <2>4 DEF InForce, RowsOK
  <2> HIDE DEF rows
  <2> QED
    BY <1>1, <1>5, <2>5, <2>6, <2>7, RowsGrow
<1> QED
  BY <1>6, <1>8, <1>9

LEMMA TransferKeeps ==
    ASSUME IInv, NEW u \in Users, NEW from \in Branches, NEW to \in Branches,
           NEW roles \in SUBSET StaffRoles, Transfer(u, from, to, roles)
    PROVE  IInv'
<1> DEFINE new == NewAssignment(FALSE, roles)
           moved == [assignment[u] EXCEPT ![to] = new]
           led == IF assignment[u][from].primary THEN OnlyPrimary(moved, to) ELSE moved
           gone == [led[from] EXCEPT !.active = FALSE, !.primary = FALSE]
           rows == [led EXCEPT ![from] = gone]
<1>1. account[u].type = "BRANCH" /\ UNCHANGED <<branchOpen, roleOpen, pending, signingIn>>
  BY DEF Transfer
<1>2. Transferred(assignment[u], from, to, roles) = rows
  BY DEF Transferred
<1>3. /\ Write(u, account[u], rows)
      /\ Cardinality({b \in InForce(rows) : rows[b].primary}) = 1
  BY <1>2 DEF Transfer
<1>4. RowsOK(assignment[u])
  BY DEF IInv
<1>5. new \in AssignmentRow /\ ~new.primary
  BY NewAssignmentType DEF Roles
<1> HIDE DEF new
<1>6. RowsOK(moved)
  BY <1>4, <1>5, OneRow
<1> HIDE DEF moved
<1>7. RowsOK(led)
  BY <1>6, OnlyPrimaryRows DEF RowsOK
<1> HIDE DEF led
<1>8. led[from] \in AssignmentRow
  BY <1>7 DEF RowsOK
<1>9. gone \in AssignmentRow /\ ~gone.primary
  BY <1>8 DEF AssignmentRow
<1> HIDE DEF gone
<1>10. RowsOK(rows)
  BY <1>7, <1>9, OneRow
<1> HIDE DEF rows
<1>11. InForce(rows) # {}
  <2>1. SUFFICES ASSUME InForce(rows) = {} PROVE FALSE
    OBVIOUS
  <2>2. {b \in InForce(rows) : rows[b].primary} = {}
    BY <2>1
  <2>3. Cardinality({b \in InForce(rows) : rows[b].primary}) = 1
    BY <1>3
  <2>4. Cardinality({}) = 1
    BY <2>2, <2>3
  <2> QED
    BY <2>4, FS_EmptySet
<1>12. Write(u, account[u], rows)
  BY <1>3
<1> QED
  BY <1>1, <1>10, <1>11, <1>12, RowsGrow

-----------------------------------------------------------------------------
(* Deactivation and removal. *)

\* The replacement of a resolved deactivation is another branch.
LEMMA ResolveKeeps ==
    ASSUME IInv, NEW u \in Users, NEW b \in Branches, NEW post \in Kinds,
           NEW to \in Branches \cup {NoBranch}, ResolveReplacement(u, b, post, to)
    PROVE  IInv'
<1> DEFINE d == [user |-> u, branch |-> b, kind |-> post, to |-> to]
<1>1. to # b
  BY BranchesAssumption DEF ResolveReplacement, MayReplace
<1>2. d \in Deactivation /\ d.to # d.branch
  BY <1>1 DEF Deactivation
<1>3. pending' = {d} /\ UNCHANGED <<account, assignment, branchOpen, roleOpen, signingIn>>
  BY DEF ResolveReplacement
<1> HIDE DEF d
<1>4. TablesOK'
  BY <1>2, <1>3 DEF TablesOK, IInv
<1> QED
  BY <1>3, <1>4 DEF IInv, RowsOK, Consistent, InForce

\* A row that is neither active nor primary, written over the handed-over rows.
LEMMA HandedRows ==
    ASSUME NEW rows, RowsOK(rows), NEW b \in Branches, NEW to \in Branches \cup {NoBranch},
           to # b
    PROVE  /\ Handed(rows, b, to) \in [Branches -> AssignmentRow]
           /\ RowsOK(Handed(rows, b, to))
           /\ ~Handed(rows, b, to)[b].primary
<1> DEFINE clear == [rows[b] EXCEPT !.primary = FALSE]
           off == [rows EXCEPT ![b] = clear]
<1>1. rows[b] \in AssignmentRow
  BY DEF RowsOK
<1>2. clear \in AssignmentRow /\ ~clear.primary
  BY <1>1 DEF AssignmentRow
<1>3. Handed(rows, b, to) = IF ~rows[b].primary THEN rows
                            ELSE IF to = NoBranch THEN off ELSE AlsoPrimary(off, to)
  BY DEF Handed
<1> HIDE DEF clear
<1>4. RowsOK(off)
  BY <1>2, OneRow
<1>5. off[b] = clear
  BY DEF RowsOK
<1>6. rows[b].primary => \A c \in Branches : ~off[c].primary
  BY <1>2 DEF RowsOK
<1> HIDE DEF off
<1>7. CASE ~rows[b].primary
  BY <1>3, <1>7 DEF RowsOK
<1>8. CASE rows[b].primary /\ to = NoBranch
  BY <1>2, <1>3, <1>4, <1>5, <1>8 DEF RowsOK
<1>9. CASE rows[b].primary /\ to # NoBranch
  <2> DEFINE next == AlsoPrimary(off, to)
  <2>1. to \in Branches /\ off \in [Branches -> AssignmentRow]
    BY <1>4, <1>9 DEF RowsOK
  <2>2. /\ next \in [Branches -> AssignmentRow]
        /\ next[to].primary /\ next[to].active
        /\ \A c \in Branches \ {to} : next[c] = off[c]
    BY <2>1, AlsoPrimaryRows
  <2>3. Handed(rows, b, to) = next
    BY <1>3, <1>9
  <2> HIDE DEF next
  <2>4. RowsOK(next)
    BY <1>6, <1>9, <2>1, <2>2 DEF RowsOK
  <2>5. ~next[b].primary
    BY <1>6, <1>9, <2>2
  <2> QED
    BY <2>2, <2>3, <2>4, <2>5
<1> QED
  BY <1>7, <1>8, <1>9

LEMMA DeactivateAssignmentKeeps ==
    ASSUME IInv, NEW d \in pending, DeactivateAssignment(d)
    PROVE  IInv'
<1> DEFINE u == d.user
           b == d.branch
           handed == Handed(assignment[u], b, d.to)
           gone == [handed[b] EXCEPT !.active = FALSE]
           left == [handed EXCEPT ![b] = gone]
<1>1. u \in Users /\ b \in Branches /\ d.to \in Branches \cup {NoBranch} /\ d.to # b
  BY DEF IInv, TablesOK, Deactivation
<1>2. RowsOK(assignment[u]) /\ Consistent(account[u], assignment[u])
  BY <1>1 DEF IInv
<1>3. account[u].type = "BRANCH"
  BY <1>1, HasRow DEF DeactivateAssignment, OfKind
<1>4. /\ Write(u, DisabledIfUnplaced(account[u], left), left)
      /\ pending' = pending \ {d} /\ UNCHANGED <<branchOpen, roleOpen, signingIn>>
  BY <1>1 DEF DeactivateAssignment
<1> HIDE DEF u, b
<1>5. /\ handed \in [Branches -> AssignmentRow] /\ RowsOK(handed)
      /\ ~handed[b].primary
  BY <1>1, <1>2, HandedRows
<1> HIDE DEF handed
<1>6. gone \in AssignmentRow /\ ~gone.primary
  BY <1>1, <1>5 DEF AssignmentRow
<1> HIDE DEF gone
<1>7. RowsOK(left)
  BY <1>1, <1>5, <1>6, OneRow
<1> HIDE DEF left
<1>8. Consistent(DisabledIfUnplaced(account[u], left), left)
  BY <1>2, <1>3, DisabledOK
<1> QED
  BY <1>1, <1>4, <1>7, <1>8, AccountWrite

LEMMA RefuseDeactivationKeeps ==
    ASSUME IInv, NEW d \in pending, RefuseDeactivation(d)
    PROVE  IInv'
<1>1. /\ pending' \subseteq pending
      /\ UNCHANGED <<account, assignment, branchOpen, roleOpen, signingIn>>
  BY DEF RefuseDeactivation
<1> QED
  BY <1>1 DEF IInv, TablesOK, RowsOK, Consistent, InForce

LEMMA RemoveAssignmentKeeps ==
    ASSUME IInv, NEW u \in Users, NEW b \in Branches, NEW post \in Kinds,
           NEW to \in Branches \cup {NoBranch}, RemoveAssignment(u, b, post, to)
    PROVE  IInv'
<1> DEFINE rows == assignment[u]
           others == rows[b].roles \ KindRoles(post)
           handed == IF rows[b].primary /\ to # NoBranch THEN OnlyPrimary(rows, to) ELSE rows
           left == [handed EXCEPT ![b] = Absent]
<1>1. RowsOK(rows) /\ Consistent(account[u], rows) /\ rows[b] \in AssignmentRow
  BY OldRow DEF IInv
<1>2. account[u].type = "BRANCH"
  BY HasRow DEF RemoveAssignment, OfKind
<1>3. UNCHANGED <<branchOpen, roleOpen, pending, signingIn>>
  BY DEF RemoveAssignment
<1>4. \/ Write(u, account[u], [rows EXCEPT ![b] = [@ EXCEPT !.roles = others]])
      \/ Write(u, DisabledIfUnplaced(account[u], left), left)
  BY DEF RemoveAssignment
<1>5. CASE Write(u, account[u], [rows EXCEPT ![b] = [@ EXCEPT !.roles = others]])
  <2>1. others \in SUBSET Roles
    BY <1>1 DEF AssignmentRow
  <2>2. Write(u, account[u], [rows EXCEPT ![b] = [rows[b] EXCEPT !.roles = others]])
    BY <1>1, <1>5 DEF RowsOK
  <2> HIDE DEF others
  <2> QED
    BY <1>2, <1>3, <2>1, <2>2, RolesWriteKeeps
<1>6. CASE Write(u, DisabledIfUnplaced(account[u], left), left)
  <2>1. rows \in [Branches -> AssignmentRow]
    BY <1>1 DEF RowsOK
  <2>2. RowsOK(handed)
    BY <1>1, <2>1, OnlyPrimaryRows
  <2> HIDE DEF handed
  <2>3. RowsOK(left)
    BY <2>2, AbsentType, OneRow
  <2> HIDE DEF left
  <2>4. Consistent(DisabledIfUnplaced(account[u], left), left)
    BY <1>1, <1>2, DisabledOK
  <2> QED
    BY <1>3, <1>6, <2>3, <2>4, AccountWrite
<1> QED
  BY <1>4, <1>5, <1>6

-----------------------------------------------------------------------------
(* Branches and roles. *)

LEMMA BranchStepKeeps ==
    ASSUME IInv, NEW b \in Branches, CloseBranch(b) \/ ReopenBranch(b)
    PROVE  IInv'
<1>1. /\ branchOpen' \in [Branches -> BOOLEAN]
      /\ UNCHANGED <<account, assignment, roleOpen, pending, signingIn>>
  BY DEF IInv, TablesOK, CloseBranch, ReopenBranch
<1>2. TablesOK'
  BY <1>1 DEF IInv, TablesOK
<1>3. ASSUME NEW u \in Users, NEW c \in Branches, c \in InForce(assignment[u])
      PROVE  branchOpen'[c]
  BY <1>3 DEF IInv, TablesOK, CloseBranch, ReopenBranch, InForce
<1>4. ASSUME NEW u \in Users
      PROVE  Consistent(account[u], assignment[u])'
  <2>1. Consistent(account[u], assignment[u])
    BY DEF IInv
  <2> QED
    BY <1>1, <1>3, <2>1 DEF Consistent, InForce
<1> QED
  BY <1>1, <1>2, <1>4 DEF IInv, RowsOK

LEMMA DeactivateRoleKeeps ==
    ASSUME IInv, NEW r \in CustomRoles, DeactivateRole(r)
    PROVE  IInv'
<1>1. /\ roleOpen' \in [Roles -> BOOLEAN]
      /\ UNCHANGED <<account, assignment, branchOpen, pending, signingIn>>
  BY DEF DeactivateRole, IInv, TablesOK
<1>2. TablesOK'
  BY <1>1 DEF IInv, TablesOK
<1> QED
  BY <1>1, <1>2 DEF IInv, RowsOK, Consistent, InForce

-----------------------------------------------------------------------------
LEMMA InitHolds == ASSUME Init PROVE IInv
<1> DEFINE nobody == [NewAccount("NONE") EXCEPT !.active = FALSE]
<1>1. nobody \in AccountRow /\ nobody.type = "NONE" /\ nobody.sessions = {}
  BY DEF NewAccount, AccountRow
<1>2. account = [u \in Users |-> nobody]
  BY DEF Init
<1> HIDE DEF nobody
<1>3. TablesOK
  BY DEF Init, TablesOK
<1>4. assignment \in [Users -> [Branches -> AssignmentRow]] /\ account \in [Users -> AccountRow]
  BY <1>1, <1>2, AbsentType DEF Init
<1>5. ASSUME NEW u \in Users PROVE RowsOK(assignment[u]) /\ Consistent(account[u], assignment[u])
  <2>1. assignment[u] = [b \in Branches |-> Absent] /\ account[u] = nobody
    BY <1>2 DEF Init
  <2> QED
    BY <1>1, <2>1, AbsentType DEF RowsOK, Consistent
<1> QED
  BY <1>3, <1>4, <1>5 DEF IInv

LEMMA AccountStepKeeps ==
    ASSUME IInv, NEW u \in Users, AccountStep(u)
    PROVE  IInv'
BY RegisterKeeps, LoginStepKeeps, OpenSessionKeeps, DisableUserKeeps, ActivateUserKeeps,
   CreateStaffKeeps, CreateBranchAdminKeeps, ConvertToBranchAdminKeeps, ConvertToStaffKeeps
   DEF AccountStep

LEMMA AssignmentStepKeeps ==
    ASSUME IInv, NEW u \in Users, NEW b \in Branches, AssignmentStep(u, b)
    PROVE  IInv'
BY OffboardKeeps, AssignExistingKeeps, AssignRoleKeeps, RemoveRoleKeeps, TransferKeeps,
   AssignBranchKeeps, ActivateAssignmentKeeps, SetPrimaryKeeps, ResolveKeeps,
   RemoveAssignmentKeeps DEF AssignmentStep

LEMMA NextKeeps == ASSUME IInv, [Next]_vars PROVE IInv'
<1>1. CASE UNCHANGED vars
  BY <1>1 DEF vars, IInv, TablesOK, RowsOK, Consistent, InForce
<1>2. CASE Next
  BY <1>2, AccountStepKeeps, AssignmentStepKeeps, DeactivateAssignmentKeeps,
     RefuseDeactivationKeeps, BranchStepKeeps, DeactivateRoleKeeps DEF Next
<1> QED
  BY <1>1, <1>2

\* The invariant: the rows of each user, and the account next to them.
THEOREM Invariance == Spec => []IInv
<1> QED
  BY InitHolds, NextKeeps, PTL DEF Spec

\* Every table keeps its type.
THEOREM TypeCorrect == Spec => []TypeOK
<1>1. IInv => TypeOK
  BY DEF IInv, TablesOK, TypeOK
<1> QED
  BY <1>1, Invariance, PTL

\* Whatever operations move the primary mark, in whatever order, with a
\* replacement chosen before the transaction or in it: a user never has two
\* primary assignments, nor one that is inactive.
THEOREM PrimaryStaysUnique == Spec => []PrimaryIsUnique
<1>1. IInv => PrimaryIsUnique
  BY DEF IInv, RowsOK, PrimaryIsUnique
<1> QED
  BY <1>1, Invariance, PTL

\* No enabled account of type BRANCH is left without an assignment in force, and
\* no session that was opened on an enabled account outlives its disabling.
THEOREM EnabledStaysPlaced == Spec => []EnabledIsPlaced
<1>1. IInv => EnabledIsPlaced
  BY DEF IInv, Consistent, EnabledIsPlaced
<1> QED
  BY <1>1, Invariance, PTL

-----------------------------------------------------------------------------
(* Requests: the invariant says why no seat gives a dangerous permission.  A *)
(* permission in use, by a role or directly, is one that exists and is       *)
(* harmless (InUse), so neither a permission that is created under a         *)
(* dangerous code later nor one that is renamed is in use with it.           *)

Harmless(p) == p \in Created /\ code[p] \notin Dangerous

CodesOK == code \in [PermIds -> Codes \cup {NoCode}]

RolesOK ==
    /\ role \in [SeatRoles -> RoleRow]
    /\ \A r \in SeatRoles : \A p \in role[r].perms : Harmless(p)

SeatOK(s) ==
    /\ s \in Seat
    /\ \A p \in PermIds : s.grant[p] # "NONE" => Harmless(p)

SeatsOK ==
    /\ seat \in [Colleagues -> Seat]
    /\ \A u \in Colleagues : SeatOK(seat[u])

RequestOK(q) ==
    /\ q \in Request
    /\ ~q.by.super => q.by.perms \cap Dangerous = {}
    /\ q.op = "CREATE" => q.roles # {}

RequestsOK ==
    /\ \A q \in request : RequestOK(q)
    /\ \A p, q \in request : p = q

RequestInv == CodesOK /\ RolesOK /\ SeatsOK /\ RequestsOK /\ changes \in 0..MaxChanges

-----------------------------------------------------------------------------
(* Fields of the rows. *)

LEMMA SeatRolesField ==
    ASSUME NEW s \in Seat, NEW roles
    PROVE  [s EXCEPT !.roles = roles] = [active |-> s.active, roles |-> roles, grant |-> s.grant]
BY DEF Seat

LEMMA SeatActiveField ==
    ASSUME NEW s \in Seat, NEW active
    PROVE  [s EXCEPT !.active = active] = [active |-> active, roles |-> s.roles, grant |-> s.grant]
BY DEF Seat

LEMMA SeatGrantField ==
    ASSUME NEW s \in Seat, NEW grant
    PROVE  [s EXCEPT !.grant = grant] = [active |-> s.active, roles |-> s.roles, grant |-> grant]
BY DEF Seat

LEMMA SeatTwoFields ==
    ASSUME NEW s \in Seat, NEW active, NEW roles
    PROVE  [s EXCEPT !.active = active, !.roles = roles] =
               [active |-> active, roles |-> roles, grant |-> s.grant]
<1>1. [s EXCEPT !.active = active, !.roles = roles] = [[s EXCEPT !.active = active] EXCEPT !.roles = roles]
  OBVIOUS
<1>2. [[active |-> active, roles |-> s.roles, grant |-> s.grant] EXCEPT !.roles = roles] =
          [active |-> active, roles |-> roles, grant |-> s.grant]
  OBVIOUS
<1> QED
  BY <1>1, <1>2, SeatActiveField, Zenon

LEMMA RoleOpenField ==
    ASSUME NEW r \in RoleRow, NEW open
    PROVE  [r EXCEPT !.open = open] =
               [type |-> r.type, level |-> r.level, open |-> open, perms |-> r.perms]
BY DEF RoleRow

LEMMA RolePermsField ==
    ASSUME NEW r \in RoleRow, NEW perms
    PROVE  [r EXCEPT !.perms = perms] =
               [type |-> r.type, level |-> r.level, open |-> r.open, perms |-> perms]
BY DEF RoleRow

LEMMA RoleTwoFields ==
    ASSUME NEW r \in RoleRow, NEW level, NEW type
    PROVE  [r EXCEPT !.level = level, !.type = type] =
               [type |-> type, level |-> level, open |-> r.open, perms |-> r.perms]
<1>1. [r EXCEPT !.level = level, !.type = type] = [[r EXCEPT !.level = level] EXCEPT !.type = type]
  OBVIOUS
<1>2. [r EXCEPT !.level = level] =
          [type |-> r.type, level |-> level, open |-> r.open, perms |-> r.perms]
  BY DEF RoleRow
<1>3. [[type |-> r.type, level |-> level, open |-> r.open, perms |-> r.perms] EXCEPT !.type = type] =
          [type |-> type, level |-> level, open |-> r.open, perms |-> r.perms]
  OBVIOUS
<1> QED
  BY <1>1, <1>2, <1>3, Zenon

-----------------------------------------------------------------------------
(* The level of a set of roles. *)

\* A nonempty set of levels has a highest one.
LEMMA HighestLevel ==
    ASSUME NEW S \in SUBSET Levels, S # {}
    PROVE  \E n \in S : \A m \in S : m <= n
<1> DEFINE T == {k \in Nat : MaxLevel - k \in S}
<1>1. MaxLevel \in Nat
  BY CatalogAssumption
<1>2. \A m \in S : m \in 1..MaxLevel /\ MaxLevel - m \in T
  BY <1>1 DEF Levels
<1>3. T # {}
  BY <1>2
<1>4. \E k \in T : \A j \in T : <<j, k>> \notin OpToRel(<, Nat)
  BY <1>3, NatLessThanWellFounded, WFMin
<1>5. PICK k \in T : \A j \in T : ~(j < k)
  BY <1>4 DEF OpToRel
<1>6. ASSUME NEW m \in S PROVE m <= MaxLevel - k
  <2>1. MaxLevel - m \in T /\ m \in Nat
    BY <1>1, <1>2
  <2>2. ~(MaxLevel - m < k) /\ MaxLevel - m \in Nat /\ k \in Nat
    BY <1>5, <2>1
  <2> QED
    BY <1>1, <2>1, <2>2
<1>7. MaxLevel - k \in S
  BY <1>5
<1> QED
  BY <1>6, <1>7

\* The level of a set of roles is a bound on theirs, and one of them.
LEMMA LevelOfRoles ==
    ASSUME role \in [SeatRoles -> RoleRow], NEW R \in SUBSET SeatRoles
    PROVE  /\ LevelOf(R) \in 0..MaxLevel
           /\ \A r \in R : role[r].level <= LevelOf(R)
           /\ R # {} => \E r \in R : LevelOf(R) = role[r].level
<1> DEFINE S == {role[r].level : r \in R}
<1>1. S \in SUBSET Levels
  BY DEF RoleRow
<1>2. CASE R = {}
  BY <1>2, CatalogAssumption DEF LevelOf
<1>3. CASE R # {}
  <2>1. \E n \in S : \A m \in S : m <= n
    BY <1>1, <1>3, HighestLevel
  <2>2. \E n \in S : \A r \in R : role[r].level <= n
    BY <2>1
  <2>3. LevelOf(R) = CHOOSE n \in S : \A r \in R : role[r].level <= n
    BY <1>3 DEF LevelOf
  <2>4. LevelOf(R) \in S /\ \A r \in R : role[r].level <= LevelOf(R)
    BY <2>2, <2>3
  <2>5. LevelOf(R) \in 0..MaxLevel
    BY <1>1, <2>4, CatalogAssumption DEF Levels
  <2> QED
    BY <2>4, <2>5
<1> QED
  BY <1>2, <1>3

\* Roles below a level have a level below it.
LEMMA LevelBelow ==
    ASSUME role \in [SeatRoles -> RoleRow], NEW R \in SUBSET SeatRoles,
           NEW n \in Nat, n > 0, \A r \in R : role[r].level < n
    PROVE  LevelOf(R) < n
<1>1. CASE R = {}
  BY <1>1 DEF LevelOf
<1>2. CASE R # {}
  BY <1>2, LevelOfRoles
<1> QED
  BY <1>1, <1>2

-----------------------------------------------------------------------------
(* The principal. *)

LEMMA CodesType ==
    ASSUME CodesOK, NEW P \in SUBSET PermIds
    PROVE  CodesOf(P) \in SUBSET Codes
BY DEF CodesOK, CodesOf, Created

\* A seat of harmless permissions gives harmless codes.
LEMMA EffectiveHarmless ==
    ASSUME CodesOK, RolesOK, NEW s, SeatOK(s)
    PROVE  Effective(s) \in SUBSET Codes /\ Effective(s) \cap Dangerous = {}
<1> DEFINE P == (RolePerms(s) \cup Granted(s, "ALLOW")) \ Granted(s, "DENY")
<1>1. \A p \in RolePerms(s) : p \in PermIds /\ Harmless(p)
  BY DEF RolePerms, OpenRoles, RolesOK, RoleRow, SeatOK, Seat
<1>2. \A p \in Granted(s, "ALLOW") : p \in PermIds /\ Harmless(p)
  BY DEF Granted, SeatOK
<1>3. \A p \in P : p \in PermIds /\ code[p] \notin Dangerous
  BY <1>1, <1>2 DEF Harmless
<1>4. Effective(s) = CodesOf(P)
  BY DEF Effective
<1> HIDE DEF P
<1>5. CodesOf(P) \in SUBSET Codes
  BY <1>3, CodesType
<1>6. CodesOf(P) \cap Dangerous = {}
  BY <1>3 DEF CodesOf
<1> QED
  BY <1>4, <1>5, <1>6

LEMMA PrincipalType ==
    ASSUME RequestInv, NEW u \in Colleagues
    PROVE  PrincipalOf(u) \in Principal /\ PrincipalOf(u).perms \cap Dangerous = {}
<1>1. OpenRoles(seat[u]) \in SUBSET SeatRoles
  BY DEF RequestInv, SeatsOK, Seat, OpenRoles
<1>2. SeatLevel(seat[u]) \in 0..SuperLevel
  BY <1>1, LevelOfRoles, CatalogAssumption DEF RequestInv, RolesOK, SeatLevel, SuperLevel
<1>3. Effective(seat[u]) \in SUBSET Codes /\ Effective(seat[u]) \cap Dangerous = {}
  BY EffectiveHarmless DEF RequestInv, SeatsOK
<1> QED
  BY <1>2, <1>3 DEF PrincipalOf, Principal

LEMMA SuperType == ASSUME CodesOK PROVE SuperAdmin \in Principal /\ SuperAdmin.super
<1>1. CodesOf(PermIds) \in SUBSET Codes
  BY CodesType
<1>2. SuperLevel \in 0..SuperLevel
  BY CatalogAssumption DEF SuperLevel
<1> QED
  BY <1>1, <1>2 DEF SuperAdmin, Principal

-----------------------------------------------------------------------------
(* Requests. *)

LEMMA SendKeeps ==
    ASSUME RequestInv, NEW by \in Principal, ~by.super => by.perms \cap Dangerous = {},
           NEW op \in Operations, NEW u \in Colleagues,
           NEW roles \in SUBSET SeatRoles, NEW perms \in SUBSET PermIds,
           op = "CREATE" => roles # {}, Send(by, op, u, roles, perms)
    PROVE  RequestInv'
<1> DEFINE q == [op |-> op, phase |-> "RESOLVED", by |-> by, target |-> u,
                 roles |-> roles, perms |-> perms]
<1>1. RequestOK(q)
  BY DEF RequestOK, Request
<1>2. request' = {q} /\ UNCHANGED <<code, role, seat, changes>>
  BY DEF Send
<1> HIDE DEF q
<1>3. RequestsOK'
  BY <1>1, <1>2 DEF RequestsOK, RequestOK
<1> QED
  BY <1>2, <1>3 DEF RequestInv, CodesOK, RolesOK, SeatsOK, SeatOK, Harmless, Created

LEMMA RequestResolveKeeps ==
    ASSUME RequestInv, NEW by \in Principal, ~by.super => by.perms \cap Dangerous = {},
           NEW u \in Colleagues, Resolve(by, u)
    PROVE  RequestInv'
<1>1. CASE \E r \in SeatRoles, perms \in {{}} \cup {{p} : p \in PermIds} :
               Send(by, "CREATE", u, {r}, perms)
  BY <1>1, SendKeeps DEF Operations
<1>2. CASE \E r \in SeatRoles, op \in {"ADD_ROLE", "DROP_ROLE"} : Send(by, op, u, {r}, {})
  BY <1>2, SendKeeps DEF Operations
<1>3. CASE \E p \in PermIds, op \in {"GRANT", "UNGRANT"} : Send(by, op, u, {}, {p})
  BY <1>3, SendKeeps DEF Operations
<1> QED
  BY <1>1, <1>2, <1>3 DEF Resolve

LEMMA CheckCreateKeeps ==
    ASSUME RequestInv, NEW q \in request, CheckCreate(q)
    PROVE  RequestInv'
<1> DEFINE checked == [q EXCEPT !.phase = "CHECKED"]
<1>1. RequestOK(q)
  BY DEF RequestInv, RequestsOK
<1>2. RequestOK(checked)
  BY <1>1 DEF RequestOK, Request
<1>3. request' = {checked} /\ UNCHANGED <<code, role, seat, changes>>
  BY DEF CheckCreate
<1> HIDE DEF checked
<1>4. RequestsOK'
  BY <1>2, <1>3 DEF RequestsOK, RequestOK
<1> QED
  BY <1>3, <1>4 DEF RequestInv, CodesOK, RolesOK, SeatsOK, SeatOK, Harmless, Created

\* A seat is written; the requests are done with or stay.
LEMMA SeatWrite ==
    ASSUME RequestInv, NEW u \in Colleagues, NEW s, SeatOK(s), seat' = [seat EXCEPT ![u] = s],
           request' = {} \/ request' = request, UNCHANGED <<code, role, changes>>
    PROVE  RequestInv'
<1>1. s \in Seat
  BY DEF SeatOK
<1>2. seat' \in [Colleagues -> Seat]
  BY <1>1 DEF RequestInv, SeatsOK
<1>3. ASSUME NEW v \in Colleagues PROVE SeatOK(seat[v])'
  <2>1. SeatOK(seat[v]) /\ (seat'[v] = s \/ seat'[v] = seat[v])
    BY DEF RequestInv, SeatsOK
  <2> QED
    BY <2>1 DEF SeatOK, Harmless, Created
<1>4. RequestsOK'
  BY DEF RequestInv, RequestsOK, RequestOK
<1> QED
  BY <1>2, <1>3, <1>4 DEF RequestInv, CodesOK, RolesOK, SeatsOK, Harmless, Created

LEMMA SeatRolesWrite ==
    ASSUME RequestInv, NEW u \in Colleagues, NEW active \in BOOLEAN, NEW roles \in SUBSET SeatRoles
    PROVE  SeatOK([active |-> active, roles |-> roles, grant |-> seat[u].grant])
<1>1. SeatOK(seat[u])
  BY DEF RequestInv, SeatsOK
<1> QED
  BY <1>1 DEF SeatOK, Seat

LEMMA SeatGrantWrite ==
    ASSUME RequestInv, NEW u \in Colleagues, NEW p \in PermIds, NEW effect \in Effects, Harmless(p)
    PROVE  SeatOK([active |-> seat[u].active, roles |-> seat[u].roles,
                   grant |-> [seat[u].grant EXCEPT ![p] = effect]])
<1>1. SeatOK(seat[u])
  BY DEF RequestInv, SeatsOK
<1> QED
  BY <1>1 DEF SeatOK, Seat

LEMMA SeatFields ==
    ASSUME RequestInv, NEW u \in Colleagues
    PROVE  /\ seat[u] \in Seat
           /\ seat[u] = [active |-> seat[u].active, roles |-> seat[u].roles,
                         grant |-> seat[u].grant]
BY DEF RequestInv, SeatsOK, Seat

LEMMA CommitCreateKeeps ==
    ASSUME RequestInv, NEW q \in request, CommitCreate(q)
    PROVE  RequestInv'
<1> DEFINE s == [active |-> TRUE, roles |-> q.roles,
                 grant |-> [p \in PermIds |-> IF p \in q.perms THEN "ALLOW" ELSE "NONE"]]
<1>1. q \in Request
  BY DEF RequestInv, RequestsOK, RequestOK
<1>2. q.roles \in SUBSET SeatRoles /\ q.target \in Colleagues
  BY <1>1 DEF Request
<1>3. s \in Seat
  BY <1>2 DEF Seat, Effects
<1>4. \A p \in q.perms : Harmless(p)
  BY DEF CommitCreate, CreateCommits, PermsStillValid, Harmless
<1>5. SeatOK(s)
  BY <1>3, <1>4 DEF SeatOK
<1>6. seat' = [seat EXCEPT ![q.target] = s] /\ request' = {} /\ UNCHANGED <<code, role, changes>>
  BY DEF CommitCreate
<1> HIDE DEF s
<1> QED
  BY <1>2, <1>5, <1>6, SeatWrite

\* What the four operations on a seat write.
LEMMA AddRoleSeat ==
    ASSUME RequestInv, NEW q \in request, NEW r \in q.roles, CommitAddRole(q, r)
    PROVE  /\ q.target \in Colleagues /\ r \in SeatRoles
           /\ seat' = [seat EXCEPT ![q.target] =
                           [active |-> seat[q.target].active,
                            roles |-> seat[q.target].roles \cup {r},
                            grant |-> seat[q.target].grant]]
<1>1. q.target \in Colleagues /\ r \in SeatRoles
  BY DEF RequestInv, RequestsOK, RequestOK, Request
<1>2. seat[q.target] \in Seat /\ seat \in [Colleagues -> Seat]
  BY <1>1 DEF RequestInv, SeatsOK
<1>3. seat' = [seat EXCEPT ![q.target] = [seat[q.target] EXCEPT !.roles = seat[q.target].roles \cup {r}]]
  BY <1>2 DEF CommitAddRole
<1>4. [seat[q.target] EXCEPT !.roles = seat[q.target].roles \cup {r}] =
          [active |-> seat[q.target].active, roles |-> seat[q.target].roles \cup {r},
           grant |-> seat[q.target].grant]
  BY <1>2, SeatRolesField
<1> QED
  BY <1>1, <1>3, <1>4

LEMMA DropRoleSeat ==
    ASSUME RequestInv, NEW q \in request, NEW r \in q.roles, CommitDropRole(q, r)
    PROVE  /\ q.target \in Colleagues /\ r \in SeatRoles
           /\ seat' = [seat EXCEPT ![q.target] =
                           [active |-> seat[q.target].active,
                            roles |-> seat[q.target].roles \ {r},
                            grant |-> seat[q.target].grant]]
<1>1. q.target \in Colleagues /\ r \in SeatRoles
  BY DEF RequestInv, RequestsOK, RequestOK, Request
<1>2. seat[q.target] \in Seat /\ seat \in [Colleagues -> Seat]
  BY <1>1 DEF RequestInv, SeatsOK
<1>3. seat' = [seat EXCEPT ![q.target] = [seat[q.target] EXCEPT !.roles = seat[q.target].roles \ {r}]]
  BY <1>2 DEF CommitDropRole
<1>4. [seat[q.target] EXCEPT !.roles = seat[q.target].roles \ {r}] =
          [active |-> seat[q.target].active, roles |-> seat[q.target].roles \ {r},
           grant |-> seat[q.target].grant]
  BY <1>2, SeatRolesField
<1> QED
  BY <1>1, <1>3, <1>4

LEMMA GrantSeat ==
    ASSUME RequestInv, NEW q \in request, NEW p \in q.perms, NEW effect \in {"ALLOW", "DENY"},
           CommitGrant(q, p, effect)
    PROVE  /\ q.target \in Colleagues /\ p \in PermIds
           /\ seat' = [seat EXCEPT ![q.target] =
                           [active |-> seat[q.target].active, roles |-> seat[q.target].roles,
                            grant |-> [seat[q.target].grant EXCEPT ![p] = effect]]]
<1>1. q.target \in Colleagues /\ p \in PermIds
  BY DEF RequestInv, RequestsOK, RequestOK, Request
<1>2. seat[q.target] \in Seat /\ seat \in [Colleagues -> Seat]
  BY <1>1 DEF RequestInv, SeatsOK
<1>3. seat' = [seat EXCEPT ![q.target] = [seat[q.target] EXCEPT !.grant = [seat[q.target].grant EXCEPT ![p] = effect]]]
  BY <1>2 DEF CommitGrant
<1>4. [seat[q.target] EXCEPT !.grant = [seat[q.target].grant EXCEPT ![p] = effect]] =
          [active |-> seat[q.target].active, roles |-> seat[q.target].roles,
           grant |-> [seat[q.target].grant EXCEPT ![p] = effect]]
  BY <1>2, SeatGrantField
<1> QED
  BY <1>1, <1>3, <1>4

LEMMA UngrantSeat ==
    ASSUME RequestInv, NEW q \in request, NEW p \in q.perms, CommitUngrant(q, p)
    PROVE  /\ q.target \in Colleagues /\ p \in PermIds
           /\ seat' = [seat EXCEPT ![q.target] =
                           [active |-> seat[q.target].active, roles |-> seat[q.target].roles,
                            grant |-> [seat[q.target].grant EXCEPT ![p] = "NONE"]]]
<1>1. q.target \in Colleagues /\ p \in PermIds
  BY DEF RequestInv, RequestsOK, RequestOK, Request
<1>2. seat[q.target] \in Seat /\ seat \in [Colleagues -> Seat]
  BY <1>1 DEF RequestInv, SeatsOK
<1>3. seat' = [seat EXCEPT ![q.target] = [seat[q.target] EXCEPT !.grant = [seat[q.target].grant EXCEPT ![p] = "NONE"]]]
  BY <1>2 DEF CommitUngrant
<1>4. [seat[q.target] EXCEPT !.grant = [seat[q.target].grant EXCEPT ![p] = "NONE"]] =
          [active |-> seat[q.target].active, roles |-> seat[q.target].roles,
           grant |-> [seat[q.target].grant EXCEPT ![p] = "NONE"]]
  BY <1>2, SeatGrantField
<1> QED
  BY <1>1, <1>3, <1>4

LEMMA SeatTyped ==
    ASSUME RequestInv, NEW u \in Colleagues
    PROVE  /\ seat[u].active \in BOOLEAN /\ seat[u].roles \in SUBSET SeatRoles
           /\ seat[u].grant \in [PermIds -> Effects]
BY DEF RequestInv, SeatsOK, Seat

LEMMA RoleCommitsKeep ==
    ASSUME RequestInv, NEW q \in request, NEW r \in q.roles,
           CommitAddRole(q, r) \/ CommitDropRole(q, r)
    PROVE  RequestInv'
<1>1. request' = {} /\ UNCHANGED <<code, role, changes>>
  BY DEF CommitAddRole, CommitDropRole
<1>2. CASE CommitAddRole(q, r)
  <2>1. q.target \in Colleagues /\ seat[q.target].roles \cup {r} \in SUBSET SeatRoles
    BY <1>2, AddRoleSeat, SeatTyped
  <2>2. SeatOK([active |-> seat[q.target].active, roles |-> seat[q.target].roles \cup {r},
                grant |-> seat[q.target].grant])
    BY <2>1, SeatTyped, SeatRolesWrite
  <2> QED
    BY <1>1, <1>2, <2>1, <2>2, AddRoleSeat, SeatWrite
<1>3. CASE CommitDropRole(q, r)
  <2>1. q.target \in Colleagues /\ seat[q.target].roles \ {r} \in SUBSET SeatRoles
    BY <1>3, DropRoleSeat, SeatTyped
  <2>2. SeatOK([active |-> seat[q.target].active, roles |-> seat[q.target].roles \ {r},
                grant |-> seat[q.target].grant])
    BY <2>1, SeatTyped, SeatRolesWrite
  <2> QED
    BY <1>1, <1>3, <2>1, <2>2, DropRoleSeat, SeatWrite
<1> QED
  BY <1>2, <1>3

LEMMA GrantCommitsKeep ==
    ASSUME RequestInv, NEW q \in request, NEW p \in q.perms,
           \/ \E effect \in {"ALLOW", "DENY"} : CommitGrant(q, p, effect)
           \/ CommitUngrant(q, p)
    PROVE  RequestInv'
<1>1. request' = {} /\ UNCHANGED <<code, role, changes>>
  BY DEF CommitGrant, CommitUngrant
<1>2. Harmless(p)
  BY DEF CommitGrant, CommitUngrant, GrantAllowed, UngrantAllowed, Harmless
<1>3. ASSUME NEW effect \in {"ALLOW", "DENY"}, CommitGrant(q, p, effect)
      PROVE  RequestInv'
  <2> DEFINE s == [active |-> seat[q.target].active, roles |-> seat[q.target].roles,
                   grant |-> [seat[q.target].grant EXCEPT ![p] = effect]]
  <2>1. q.target \in Colleagues /\ p \in PermIds /\ effect \in Effects
    BY <1>3, GrantSeat DEF Effects
  <2>2. SeatOK(s)
    BY <1>2, <2>1, SeatGrantWrite
  <2>3. seat' = [seat EXCEPT ![q.target] = s]
    BY <1>3, GrantSeat
  <2> HIDE DEF s
  <2> QED
    BY <1>1, <2>1, <2>2, <2>3, SeatWrite
<1>4. CASE CommitUngrant(q, p)
  <2>1. q.target \in Colleagues /\ p \in PermIds /\ "NONE" \in Effects
    BY <1>4, UngrantSeat DEF Effects
  <2>2. SeatOK([active |-> seat[q.target].active, roles |-> seat[q.target].roles,
                grant |-> [seat[q.target].grant EXCEPT ![p] = "NONE"]])
    BY <1>2, <2>1, SeatGrantWrite
  <2> QED
    BY <1>1, <1>4, <2>1, <2>2, UngrantSeat, SeatWrite
<1> QED
  BY <1>3, <1>4

LEMMA RefuseKeeps ==
    ASSUME RequestInv, NEW q \in request, Refuse(q)
    PROVE  RequestInv'
<1>1. request' = {} /\ UNCHANGED <<code, role, seat, changes>>
  BY DEF Refuse
<1>2. RequestsOK'
  BY <1>1 DEF RequestsOK
<1> QED
  BY <1>1, <1>2 DEF RequestInv, CodesOK, RolesOK, SeatsOK, SeatOK, Harmless, Created

LEMMA RequestStepKeeps ==
    ASSUME RequestInv, NEW q \in request, RequestStep(q)
    PROVE  RequestInv'
BY CheckCreateKeeps, CommitCreateKeeps, RoleCommitsKeep, GrantCommitsKeep, RefuseKeeps
   DEF RequestStep

-----------------------------------------------------------------------------
(* The Super Admin. *)

LEMMA SeatStepKeeps ==
    ASSUME RequestInv, NEW u \in Colleagues, SeatStep(u)
    PROVE  RequestInv'
<1>1. SeatOK(EmptySeat)
  BY DEF SeatOK, EmptySeat, NoPerm, Seat, Effects
<1>2. request' = request /\ UNCHANGED <<code, role, changes>>
  BY DEF SeatStep, SeatAdmin, Vacate, Unseat
<1>3. seat \in [Colleagues -> Seat] /\ seat[u] \in Seat
  BY DEF RequestInv, SeatsOK
<1>4. CASE SeatAdmin(u)
  <2> DEFINE s == [active |-> TRUE, roles |-> seat[u].roles \cup {BranchAdmin},
                   grant |-> seat[u].grant]
  <2>1. seat' = [seat EXCEPT ![u] = s]
    <3>1. seat' = [seat EXCEPT ![u] = [seat[u] EXCEPT
                       !.active = TRUE, !.roles = seat[u].roles \cup {BranchAdmin}]]
      BY <1>3, <1>4 DEF SeatAdmin
    <3>2. [seat[u] EXCEPT !.active = TRUE, !.roles = seat[u].roles \cup {BranchAdmin}] = s
      BY <1>3, SeatTwoFields
    <3> QED
      BY <3>1, <3>2
  <2>2. SeatOK(s)
    BY SeatTyped, SeatRolesWrite DEF SeatRoles
  <2> QED
    BY <1>2, <2>1, <2>2, SeatWrite
<1>5. CASE Vacate(u)
  <2> DEFINE s == [active |-> FALSE, roles |-> seat[u].roles, grant |-> seat[u].grant]
  <2>1. seat' = [seat EXCEPT ![u] = s]
    <3>1. seat' = [seat EXCEPT ![u] = [seat[u] EXCEPT !.active = FALSE]]
      BY <1>3, <1>5 DEF Vacate
    <3>2. [seat[u] EXCEPT !.active = FALSE] = s
      BY <1>3, SeatActiveField
    <3> QED
      BY <3>1, <3>2
  <2>2. SeatOK(s)
    BY SeatTyped, SeatRolesWrite
  <2> QED
    BY <1>2, <2>1, <2>2, SeatWrite
<1>6. CASE Unseat(u)
  BY <1>1, <1>2, <1>6, SeatWrite DEF Unseat
<1> QED
  BY <1>4, <1>5, <1>6 DEF SeatStep

\* A role is written.
LEMMA RoleWrite ==
    ASSUME RequestInv, NEW r \in SeatRoles, NEW row \in RoleRow, \A p \in row.perms : Harmless(p),
           role' = [role EXCEPT ![r] = row], UNCHANGED <<code, seat, request>>,
           changes' \in 0..MaxChanges
    PROVE  RequestInv'
<1>1. role' \in [SeatRoles -> RoleRow]
  BY DEF RequestInv, RolesOK
<1>2. ASSUME NEW x \in SeatRoles, NEW p \in role'[x].perms PROVE Harmless(p)
  BY DEF RequestInv, RolesOK
<1>3. RolesOK'
  BY <1>1, <1>2 DEF RolesOK, Harmless, Created
<1> QED
  BY <1>3 DEF RequestInv, CodesOK, SeatsOK, SeatOK, RequestsOK, RequestOK, Harmless, Created

LEMMA UpdateRoleKeeps ==
    ASSUME RequestInv, NEW r \in SeatRoles, NEW n \in Levels, NEW t \in {"BRANCH", "SYSTEM"},
           UpdateRole(r, n, t), changes' \in 0..MaxChanges
    PROVE  RequestInv'
<1> DEFINE row == [type |-> t, level |-> n, open |-> role[r].open, perms |-> role[r].perms]
<1>1. role \in [SeatRoles -> RoleRow] /\ role[r] \in RoleRow /\ \A p \in role[r].perms : Harmless(p)
  BY DEF RequestInv, RolesOK
<1>2. row \in RoleRow
  BY <1>1 DEF RoleRow
<1>3. role' = [role EXCEPT ![r] = row]
  <2>1. role' = [role EXCEPT ![r] = [role[r] EXCEPT !.level = n, !.type = t]]
    BY <1>1 DEF UpdateRole
  <2>2. [role[r] EXCEPT !.level = n, !.type = t] = row
    BY <1>1, RoleTwoFields
  <2> QED
    BY <2>1, <2>2
<1> QED
  BY <1>1, <1>2, <1>3, RoleWrite DEF UpdateRole

LEMMA RetireRoleKeeps ==
    ASSUME RequestInv, NEW r \in SeatRoles, RetireRole(r), changes' \in 0..MaxChanges
    PROVE  RequestInv'
<1> DEFINE row == [type |-> role[r].type, level |-> role[r].level, open |-> FALSE,
                   perms |-> role[r].perms]
<1>1. role \in [SeatRoles -> RoleRow] /\ role[r] \in RoleRow /\ \A p \in role[r].perms : Harmless(p)
  BY DEF RequestInv, RolesOK
<1>2. row \in RoleRow
  BY <1>1 DEF RoleRow
<1>3. role' = [role EXCEPT ![r] = row]
  <2>1. role' = [role EXCEPT ![r] = [role[r] EXCEPT !.open = FALSE]]
    BY <1>1 DEF RetireRole
  <2>2. [role[r] EXCEPT !.open = FALSE] = row
    BY <1>1, RoleOpenField
  <2> QED
    BY <2>1, <2>2
<1> QED
  BY <1>1, <1>2, <1>3, RoleWrite DEF RetireRole

LEMMA RolePermissionKeeps ==
    ASSUME RequestInv, NEW r \in SeatRoles, NEW p \in PermIds,
           AssignRolePermission(r, p) \/ RemoveRolePermission(r, p),
           changes' \in 0..MaxChanges
    PROVE  RequestInv'
<1>1. role \in [SeatRoles -> RoleRow] /\ role[r] \in RoleRow /\ \A x \in role[r].perms : Harmless(x)
  BY DEF RequestInv, RolesOK
<1>2. UNCHANGED <<code, seat, request>>
  BY DEF AssignRolePermission, RemoveRolePermission
<1>3. CASE AssignRolePermission(r, p)
  <2> DEFINE row == [type |-> role[r].type, level |-> role[r].level, open |-> role[r].open,
                     perms |-> role[r].perms \cup {p}]
  <2>1. Harmless(p)
    BY <1>3 DEF AssignRolePermission, RoleMayCarry, Harmless
  <2>2. row \in RoleRow /\ \A x \in row.perms : Harmless(x)
    BY <1>1, <2>1 DEF RoleRow
  <2>3. role' = [role EXCEPT ![r] = row]
    <3>1. role' = [role EXCEPT ![r] = [role[r] EXCEPT !.perms = role[r].perms \cup {p}]]
      BY <1>1, <1>3 DEF AssignRolePermission
    <3>2. [role[r] EXCEPT !.perms = role[r].perms \cup {p}] = row
      BY <1>1, RolePermsField
    <3> QED
      BY <3>1, <3>2
  <2> QED
    BY <1>2, <2>2, <2>3, RoleWrite
<1>4. CASE RemoveRolePermission(r, p)
  <2> DEFINE row == [type |-> role[r].type, level |-> role[r].level, open |-> role[r].open,
                     perms |-> role[r].perms \ {p}]
  <2>1. row \in RoleRow /\ \A x \in row.perms : Harmless(x)
    BY <1>1 DEF RoleRow
  <2>2. role' = [role EXCEPT ![r] = row]
    <3>1. role' = [role EXCEPT ![r] = [role[r] EXCEPT !.perms = role[r].perms \ {p}]]
      BY <1>1, <1>4 DEF RemoveRolePermission
    <3>2. [role[r] EXCEPT !.perms = role[r].perms \ {p}] = row
      BY <1>1, RolePermsField
    <3> QED
      BY <3>1, <3>2
  <2> QED
    BY <1>2, <2>1, <2>2, RoleWrite
<1> QED
  BY <1>3, <1>4

\* A code is written that leaves what is harmless harmless.
LEMMA CodeWrite ==
    ASSUME RequestInv, CodesOK', \A p \in PermIds : Harmless(p) => Harmless(p)',
           UNCHANGED <<role, seat, request>>, changes' \in 0..MaxChanges
    PROVE  RequestInv'
<1>1. RolesOK'
  BY DEF RequestInv, RolesOK, RoleRow
<1>2. SeatsOK'
  BY DEF RequestInv, SeatsOK, SeatOK
<1> QED
  BY <1>1, <1>2 DEF RequestInv, RequestsOK, RequestOK

LEMMA PermissionKeeps ==
    ASSUME RequestInv, NEW p \in PermIds, NEW c \in Codes,
           CreatePermission(p, c) \/ RenamePermission(p, c), changes' \in 0..MaxChanges
    PROVE  RequestInv'
<1>1. code' = [code EXCEPT ![p] = c] /\ UNCHANGED <<role, seat, request>>
  BY DEF CreatePermission, RenamePermission
<1>2. CodesOK'
  BY <1>1 DEF RequestInv, CodesOK
<1>3. c # NoCode
  BY CatalogAssumption
<1>4. ASSUME NEW x \in PermIds, Harmless(x) PROVE Harmless(x)'
  <2>1. CASE x = p
    <3>1. c \notin Dangerous
      BY <1>4, <2>1 DEF CreatePermission, RenamePermission, MayRename, Harmless, Created
    <3> QED
      BY <1>1, <1>3, <2>1, <3>1 DEF Harmless, Created, RequestInv, CodesOK
  <2>2. CASE x # p
    BY <1>1, <1>4, <2>2 DEF Harmless, Created, RequestInv, CodesOK
  <2> QED
    BY <2>1, <2>2
<1> QED
  BY <1>1, <1>2, <1>4, CodeWrite

LEMMA CatalogStepKeeps ==
    ASSUME RequestInv, CatalogStep
    PROVE  RequestInv'
<1>1. changes' \in 0..MaxChanges
  BY CatalogAssumption DEF RequestInv, CatalogStep
<1>2. CASE \E r \in SeatRoles, n \in Levels, t \in {"BRANCH", "SYSTEM"} : UpdateRole(r, n, t)
  BY <1>1, <1>2, UpdateRoleKeeps
<1>3. CASE \E r \in SeatRoles : RetireRole(r)
  BY <1>1, <1>3, RetireRoleKeeps
<1>4. CASE \E r \in SeatRoles, p \in PermIds :
               AssignRolePermission(r, p) \/ RemoveRolePermission(r, p)
  BY <1>1, <1>4, RolePermissionKeeps
<1>5. CASE \E p \in PermIds, c \in Codes : CreatePermission(p, c) \/ RenamePermission(p, c)
  BY <1>1, <1>5, PermissionKeeps
<1> QED
  BY <1>2, <1>3, <1>4, <1>5 DEF CatalogStep, CatalogChange

-----------------------------------------------------------------------------
LEMMA RequestInitHolds == ASSUME RequestInit PROVE RequestInv
<1>1. CodesOK
  BY CatalogAssumption DEF RequestInit, CodesOK
<1>2. \A p \in AdminPerms : p \in PermIds /\ Harmless(p)
  BY CatalogAssumption DEF RequestInit, Harmless, Created
<1>3. \A p \in PermIds : SeedCode[p] \in Delegatable => Harmless(p)
  BY CatalogAssumption DEF RequestInit, Harmless, Created
<1>4. RolesOK
  <2>1. ASSUME NEW r \in SeatRoles
        PROVE  role[r] \in RoleRow /\ \A p \in role[r].perms : Harmless(p)
    <3>1. 1 \in Levels /\ MaxLevel \in Levels
      BY CatalogAssumption DEF Levels
    <3> QED
      BY <1>2, <1>3, <3>1 DEF RequestInit, RoleRow
  <2>2. role = [r \in SeatRoles |-> role[r]]
    BY DEF RequestInit
  <2> QED
    BY <2>1, <2>2 DEF RolesOK
<1>5. SeatsOK
  BY DEF RequestInit, SeatsOK, SeatOK, EmptySeat, NoPerm, Seat, Effects
<1> QED
  BY <1>1, <1>4, <1>5, CatalogAssumption DEF RequestInit, RequestInv, RequestsOK

LEMMA RequestNextKeeps == ASSUME RequestInv, [RequestNext]_requestVars PROVE RequestInv'
<1>1. CASE UNCHANGED requestVars
  BY <1>1 DEF requestVars, RequestInv, CodesOK, RolesOK, SeatsOK, SeatOK, RequestsOK, RequestOK,
              Harmless, Created
<1>2. CASE \E t \in Colleagues : ResolveSuper(t)
  BY <1>2, SuperType, RequestResolveKeeps DEF ResolveSuper, RequestInv
<1>3. CASE \E u, t \in Colleagues : ResolveUser(u, t)
  BY <1>3, PrincipalType, RequestResolveKeeps DEF ResolveUser
<1>4. CASE \E q \in request : RequestStep(q)
  BY <1>4, RequestStepKeeps
<1>5. CASE CatalogStep
  BY <1>5, CatalogStepKeeps
<1>6. CASE \E u \in Colleagues : SeatStep(u)
  BY <1>6, SeatStepKeeps
<1> QED
  BY <1>1, <1>2, <1>3, <1>4, <1>5, <1>6 DEF RequestNext

\* The invariant: whatever is in use exists and is harmless.
THEOREM RequestInvariance == RequestSpec => []RequestInv
<1> QED
  BY RequestInitHolds, RequestNextKeeps, PTL DEF RequestSpec

\* Every table keeps its type, the requests in flight too.
THEOREM RequestTypeCorrect == RequestSpec => []RequestTypeOK
<1>1. RequestInv => RequestTypeOK
  BY DEF RequestInv, CodesOK, RolesOK, SeatsOK, RequestsOK, RequestOK, RequestTypeOK
<1> QED
  BY <1>1, RequestInvariance, PTL

\* No seat ever gives a dangerous permission, and no request of a branch user
\* was resolved with one.
THEOREM DangerousStaysWithSuperAdmin == RequestSpec => []DangerousIsSuperAdminOnly
<1>1. RequestInv => DangerousIsSuperAdminOnly
  BY EffectiveHarmless DEF RequestInv, SeatsOK, RequestsOK, RequestOK, DangerousIsSuperAdminOnly
<1> QED
  BY <1>1, RequestInvariance, PTL

-----------------------------------------------------------------------------
(* What a request may do. *)

\* The forms, the policies and the transaction of createStaff agree.
THEOREM OffersStayMatched == RequestSpec => []OffersMatchPolicies
<1>1. ASSUME RequestInv PROVE OffersMatchPolicies
  <2>1. SUFFICES ASSUME NEW by \in {PrincipalOf(u) : u \in Colleagues} \cup {SuperAdmin}
        PROVE  /\ AcceptedRoles(by, "ASSIGN") = OfferedRoles(by, "ASSIGN")
               /\ AcceptedRoles(by, "CREATE") =
                      IF Holds(by, "staff.assign_role") THEN OfferedRoles(by, "CREATE") ELSE {}
               /\ Holds(by, "staff.assign_permission") =>
                      OfferedPerms(by) = {p \in PermIds : MayAssignPerm(by, p)}
               /\ \A r \in SeatRoles : MayAssignRole(by, r) => RolesStillValid(by, {r})
               /\ \A p \in PermIds : MayAssignPerm(by, p) => PermsStillValid(by, {p})
    BY DEF OffersMatchPolicies
  <2>2. AcceptedRoles(by, "ASSIGN") = OfferedRoles(by, "ASSIGN")
    BY DEF AcceptedRoles, OfferedRoles, MayListRoles, Required, RoleManageable
  <2>3. AcceptedRoles(by, "CREATE") =
            IF Holds(by, "staff.assign_role") THEN OfferedRoles(by, "CREATE") ELSE {}
    BY DEF AcceptedRoles, OfferedRoles, MayListRoles, Required, MayAssignRole
  <2>4. Holds(by, "staff.assign_permission") =>
            OfferedPerms(by) = {p \in PermIds : MayAssignPerm(by, p)}
    BY DEF OfferedPerms, MayAssignPerm, Holds, Created
  <2>5. \A r \in SeatRoles : MayAssignRole(by, r) => RolesStillValid(by, {r})
    BY DEF MayAssignRole, RolesStillValid
  <2>6. by.super => \A p \in Created : code[p] \in by.perms
    BY DEF PrincipalOf, SuperAdmin, CodesOf, Created
  <2>7. \A p \in PermIds : MayAssignPerm(by, p) => PermsStillValid(by, {p})
    BY <2>6 DEF MayAssignPerm, PermsStillValid
  <2> QED
    BY <2>2, <2>3, <2>4, <2>5, <2>7
<1> QED
  BY <1>1, RequestInvariance, PTL

\* What a commit gives its target.
WithinCaller(q) ==
    /\ SeatLevel(seat'[q.target]) < q.by.level
    /\ q.by.super \/ NewlyAllowed(q.target) \subseteq q.by.perms
    /\ q.by.super \/ Gained(q.target) \subseteq
                         q.by.perms \cup CarriedBy(NewRoles(q.target))

\* A code that seat t gives and seat s does not is that of a permission which an
\* open role or a direct ALLOW of t gives, and which s denies or has not.
LEMMA GainedCode ==
    ASSUME NEW s, NEW t, NEW c \in Effective(t) \ Effective(s)
    PROVE  \E p \in Created :
               /\ c = code[p]
               /\ p \in RolePerms(t) \cup Granted(t, "ALLOW") /\ p \notin Granted(t, "DENY")
               /\ \/ p \notin RolePerms(s) \cup Granted(s, "ALLOW")
                  \/ p \in Granted(s, "DENY")
BY DEF Effective, CodesOf

\* A permission of an open role is carried by the role, if the role is new.
LEMMA CarriedCode ==
    ASSUME NEW s, NEW t, NEW p \in Created, p \in RolePerms(t), p \notin RolePerms(s)
    PROVE  code[p] \in CarriedBy(t.roles \ s.roles)
<1>1. PICK r \in OpenRoles(t) : p \in role[r].perms
  BY DEF RolePerms
<1>2. r \in t.roles \ s.roles
  BY <1>1 DEF RolePerms, OpenRoles
<1> QED
  BY <1>1, <1>2 DEF CarriedBy, CodesOf

LEMMA CallerLevel ==
    ASSUME RequestInv, NEW q \in request
    PROVE  q.by.level \in Nat /\ q.target \in Colleagues
BY CatalogAssumption DEF RequestInv, RequestsOK, RequestOK, Request, Principal, SuperLevel

LEMMA CreateWithin ==
    ASSUME RequestInv, NEW q \in request, CommitCreate(q)
    PROVE  WithinCaller(q)
<1> DEFINE s == [active |-> TRUE, roles |-> q.roles,
                 grant |-> [p \in PermIds |-> IF p \in q.perms THEN "ALLOW" ELSE "NONE"]]
<1>1. q.by.level \in Nat /\ q.target \in Colleagues /\ q.roles \in SUBSET SeatRoles
  BY CallerLevel DEF RequestInv, RequestsOK, RequestOK, Request
<1>2. seat' = [seat EXCEPT ![q.target] = s] /\ seat \in [Colleagues -> Seat]
  BY DEF CommitCreate, RequestInv, SeatsOK
<1>3. seat'[q.target] = s
  BY <1>1, <1>2
<1>4. \A r \in q.roles : role[r].level < q.by.level
  BY DEF CommitCreate, CreateCommits, RolesStillValid
<1>5. q.by.level > 0
  <2>1. PICK r \in q.roles : TRUE
    BY DEF RequestInv, RequestsOK, RequestOK, CommitCreate
  <2>2. role[r].level \in Nat /\ role[r].level < q.by.level
    BY <1>1, <1>4 DEF RequestInv, RolesOK, RoleRow, Levels
  <2> QED
    BY <1>1, <2>2
<1>6. SeatLevel(s) < q.by.level
  <2>1. OpenRoles(s) \in SUBSET SeatRoles /\ \A r \in OpenRoles(s) : role[r].level < q.by.level
    BY <1>1, <1>4 DEF OpenRoles
  <2> QED
    BY <1>1, <1>5, <2>1, LevelBelow DEF SeatLevel, RequestInv, RolesOK
<1>7. \A p \in Granted(s, "ALLOW") : p \in q.perms
  BY DEF Granted
<1>8. \A p \in q.perms : code[p] \in q.by.perms
  BY DEF CommitCreate, CreateCommits, PermsStillValid
<1> HIDE DEF s
<1>9. NewlyAllowed(q.target) \subseteq q.by.perms
  BY <1>3, <1>7, <1>8 DEF NewlyAllowed, CodesOf
<1>10. ASSUME NEW c \in Gained(q.target)
       PROVE  c \in q.by.perms \cup CarriedBy(NewRoles(q.target))
  <2>1. c \in Effective(s) \ Effective(EmptySeat)
    BY <1>3 DEF Gained, CommitCreate, CreateCommits
  <2>2. PICK p \in Created : c = code[p] /\ p \in RolePerms(s) \cup Granted(s, "ALLOW")
    BY <2>1, GainedCode
  <2>3. RolePerms(EmptySeat) = {} /\ EmptySeat.roles = {}
    BY DEF RolePerms, OpenRoles, EmptySeat
  <2>4. NewRoles(q.target) = s.roles \ EmptySeat.roles
    BY <1>3 DEF NewRoles, CommitCreate, CreateCommits
  <2>5. CASE p \in RolePerms(s)
    BY <2>2, <2>3, <2>4, <2>5, CarriedCode
  <2>6. CASE p \in Granted(s, "ALLOW")
    BY <1>7, <1>8, <2>2, <2>6
  <2> QED
    BY <2>2, <2>5, <2>6
<1> QED
  BY <1>3, <1>6, <1>9, <1>10 DEF WithinCaller

\* The level of the target, before.
LEMMA ManagedLevel ==
    ASSUME RequestInv, NEW q \in request, MayManage(q.by, q.target)
    PROVE  /\ q.by.level \in Nat /\ q.by.level > 0
           /\ \A r \in OpenRoles(seat[q.target]) : role[r].level < q.by.level
<1>1. q.by.level \in Nat /\ q.target \in Colleagues
  BY CallerLevel
<1>2. SeatLevel(seat[q.target]) < q.by.level
  BY DEF MayManage
<1>3. role \in [SeatRoles -> RoleRow] /\ OpenRoles(seat[q.target]) \in SUBSET SeatRoles
  BY <1>1, SeatTyped DEF RequestInv, RolesOK, OpenRoles
<1>4. /\ SeatLevel(seat[q.target]) \in 0..MaxLevel
      /\ \A r \in OpenRoles(seat[q.target]) : role[r].level <= SeatLevel(seat[q.target])
  BY <1>3, LevelOfRoles DEF SeatLevel
<1>5. \A r \in SeatRoles : role[r].level \in Nat
  BY <1>3 DEF RoleRow, Levels
<1> QED
  BY <1>1, <1>2, <1>3, <1>4, <1>5, CatalogAssumption

\* A seat whose open roles were those of the target, or are below the caller.
LEMMA SeatBelow ==
    ASSUME RequestInv, NEW q \in request, MayManage(q.by, q.target), NEW s,
           s.roles \in SUBSET SeatRoles,
           \A r \in s.roles \ seat[q.target].roles : role[r].level < q.by.level
    PROVE  SeatLevel(s) < q.by.level
<1>1. \A r \in OpenRoles(s) : role[r].level < q.by.level
  BY ManagedLevel DEF OpenRoles
<1>2. OpenRoles(s) \in SUBSET SeatRoles
  BY DEF OpenRoles
<1> QED
  BY <1>1, <1>2, ManagedLevel, LevelBelow DEF SeatLevel, RequestInv, RolesOK

LEMMA RolesWithin ==
    ASSUME RequestInv, NEW q \in request, NEW r \in q.roles,
           CommitAddRole(q, r) \/ CommitDropRole(q, r)
    PROVE  WithinCaller(q)
<1>1. MayManage(q.by, q.target) /\ role[r].level < q.by.level
  BY DEF CommitAddRole, CommitDropRole, AddRoleAllowed, DropRoleAllowed, RoleManageable
<1>2. ASSUME NEW roles, roles \in SUBSET SeatRoles, roles \subseteq seat[q.target].roles \cup {r},
             q.target \in Colleagues,
             seat' = [seat EXCEPT ![q.target] = [active |-> seat[q.target].active,
                                                 roles |-> roles,
                                                 grant |-> seat[q.target].grant]]
      PROVE  WithinCaller(q)
  <2> DEFINE s == [active |-> seat[q.target].active, roles |-> roles,
                   grant |-> seat[q.target].grant]
  <2>1. seat'[q.target] = s
    BY <1>2 DEF RequestInv, SeatsOK
  <2>2. s.roles = roles /\ s.grant = seat[q.target].grant
    OBVIOUS
  <2> HIDE DEF s
  <2>3. SeatLevel(s) < q.by.level
    BY <1>1, <1>2, <2>2, SeatBelow
  <2>4. NewlyAllowed(q.target) = {}
    BY <2>1, <2>2 DEF NewlyAllowed, Granted, CodesOf
  <2>5. ASSUME NEW c \in Gained(q.target)
        PROVE  c \in CarriedBy(NewRoles(q.target))
    <3>1. c \in Effective(s) \ Effective(seat[q.target])
      BY <2>1, <2>5 DEF Gained
    <3>2. \A effect : Granted(s, effect) = Granted(seat[q.target], effect)
      BY <2>2 DEF Granted
    <3>3. PICK p \in Created : /\ c = code[p]
                              /\ p \in RolePerms(s) /\ p \notin RolePerms(seat[q.target])
      BY <3>1, <3>2, GainedCode
    <3>4. NewRoles(q.target) = s.roles \ seat[q.target].roles
      BY <2>1 DEF NewRoles
    <3> QED
      BY <3>3, <3>4, CarriedCode
  <2> QED
    BY <2>1, <2>3, <2>4, <2>5 DEF WithinCaller
<1>3. CASE CommitAddRole(q, r)
  <2> DEFINE roles == seat[q.target].roles \cup {r}
  <2>1. /\ q.target \in Colleagues /\ r \in SeatRoles
        /\ seat' = [seat EXCEPT ![q.target] = [active |-> seat[q.target].active,
                                               roles |-> roles,
                                               grant |-> seat[q.target].grant]]
    BY <1>3, AddRoleSeat
  <2>2. roles \in SUBSET SeatRoles /\ roles \subseteq seat[q.target].roles \cup {r}
    BY <2>1, SeatTyped
  <2> HIDE DEF roles
  <2> QED
    BY <1>2, <2>1, <2>2
<1>4. CASE CommitDropRole(q, r)
  <2> DEFINE roles == seat[q.target].roles \ {r}
  <2>1. /\ q.target \in Colleagues /\ r \in SeatRoles
        /\ seat' = [seat EXCEPT ![q.target] = [active |-> seat[q.target].active,
                                               roles |-> roles,
                                               grant |-> seat[q.target].grant]]
    BY <1>4, DropRoleSeat
  <2>2. roles \in SUBSET SeatRoles /\ roles \subseteq seat[q.target].roles \cup {r}
    BY <2>1, SeatTyped
  <2> HIDE DEF roles
  <2> QED
    BY <1>2, <2>1, <2>2
<1> QED
  BY <1>3, <1>4

LEMMA GrantWithin ==
    ASSUME RequestInv, NEW q \in request, NEW p \in q.perms,
           \/ \E effect \in {"ALLOW", "DENY"} : CommitGrant(q, p, effect)
           \/ CommitUngrant(q, p)
    PROVE  WithinCaller(q)
<1>1. MayManage(q.by, q.target) /\ (q.by.super \/ code[p] \in q.by.perms)
  BY DEF CommitGrant, CommitUngrant, GrantAllowed, UngrantAllowed
<1>2. PICK effect \in Effects :
          /\ q.target \in Colleagues /\ p \in PermIds
          /\ seat' = [seat EXCEPT ![q.target] =
                          [active |-> seat[q.target].active, roles |-> seat[q.target].roles,
                           grant |-> [seat[q.target].grant EXCEPT ![p] = effect]]]
  BY GrantSeat, UngrantSeat DEF Effects
<1> DEFINE grant == [seat[q.target].grant EXCEPT ![p] = effect]
           s == [active |-> seat[q.target].active, roles |-> seat[q.target].roles,
                 grant |-> grant]
<1>3. seat'[q.target] = s
  BY <1>2 DEF RequestInv, SeatsOK
<1>4. s.roles = seat[q.target].roles /\ s.roles \in SUBSET SeatRoles
  BY <1>2, SeatTyped
<1>5. \A x \in PermIds \ {p} : s.grant[x] = seat[q.target].grant[x]
  BY <1>2, SeatTyped
<1> HIDE DEF s
<1>6. SeatLevel(s) < q.by.level
  BY <1>1, <1>4, SeatBelow
<1>7. NewlyAllowed(q.target) \subseteq {code[p]}
  BY <1>3, <1>5 DEF NewlyAllowed, Granted, CodesOf
<1>8. ASSUME NEW c \in Gained(q.target)
      PROVE  c = code[p]
  <2>1. c \in Effective(s) \ Effective(seat[q.target])
    BY <1>3, <1>8 DEF Gained
  <2>2. RolePerms(s) = RolePerms(seat[q.target])
    BY <1>4 DEF RolePerms, OpenRoles
  <2>3. PICK x \in Created :
            /\ c = code[x]
            /\ x \in RolePerms(s) \cup Granted(s, "ALLOW") /\ x \notin Granted(s, "DENY")
            /\ \/ x \notin RolePerms(seat[q.target]) \cup Granted(seat[q.target], "ALLOW")
               \/ x \in Granted(seat[q.target], "DENY")
    BY <2>1, GainedCode
  <2>4. x = p
    BY <1>5, <2>2, <2>3 DEF Granted, Created
  <2> QED
    BY <2>3, <2>4
<1> QED
  BY <1>1, <1>3, <1>6, <1>7, <1>8 DEF WithinCaller

\* Whatever changes between the policies and the write, a request leaves its
\* target below the caller, allows it directly nothing that the caller did not
\* hold, and lets it gain nothing else but what comes with a role it gives.
THEOREM RequestsStayWithin == RequestSpec => RequestsStayWithinCaller
<1>1. ASSUME RequestInv, [RequestNext]_requestVars, NEW q \in request,
             request' = {}, seat' # seat
      PROVE  WithinCaller(q)
  <2>1. CASE \E t \in Colleagues : ResolveSuper(t)
    BY <1>1, <2>1 DEF ResolveSuper, Resolve, Send
  <2>2. CASE \E u, t \in Colleagues : ResolveUser(u, t)
    BY <1>1, <2>2 DEF ResolveUser, Resolve, Send
  <2>3. CASE RequestStep(q)
    BY <1>1, <2>3, CreateWithin, RolesWithin, GrantWithin DEF RequestStep, CheckCreate, Refuse
  <2>4. CASE \E x \in request : RequestStep(x)
    BY <1>1, <2>3, <2>4 DEF RequestInv, RequestsOK
  <2>5. CASE CatalogStep
    BY <1>1, <2>5 DEF CatalogStep, CatalogChange, UpdateRole, RetireRole, AssignRolePermission,
                      RemoveRolePermission, CreatePermission, RenamePermission
  <2>6. CASE \E u \in Colleagues : SeatStep(u)
    BY <1>1, <2>6 DEF SeatStep, SeatAdmin, Vacate, Unseat
  <2>7. CASE UNCHANGED requestVars
    BY <1>1, <2>7 DEF requestVars
  <2> QED
    BY <1>1, <2>1, <2>2, <2>4, <2>5, <2>6, <2>7 DEF RequestNext
<1>2. RequestInv /\ [RequestNext]_requestVars =>
          [\A q \in request : request' = {} /\ seat' # seat =>
               /\ SeatLevel(seat'[q.target]) < q.by.level
               /\ q.by.super \/ NewlyAllowed(q.target) \subseteq q.by.perms
               /\ q.by.super \/ Gained(q.target) \subseteq
                                    q.by.perms \cup CarriedBy(NewRoles(q.target))]_requestVars
  BY <1>1 DEF WithinCaller
<1> QED
  BY <1>2, RequestInvariance, PTL DEF RequestSpec, RequestsStayWithinCaller

-----------------------------------------------------------------------------
-----------------------------------------------------------------------------
(* The registers. *)

\* What is stored of a row was stored by what the row says now.
UsesStored ==
    \A a \in Articled : \A use \in article[a].uses :
        /\ use[1] \in Registered
        /\ kind = "ATTRIBUTE" => use[2] = ColumnOf(entry[use[1]].type)

DeliveriesResolve ==
    /\ \A d \in Deliveries : delivery[d] # NoEntry => delivery[d] \in Registered
    /\ kind # "SUPPLIER" => \A d \in Deliveries : delivery[d] = NoEntry

\* The suffix of a slug is the product's own.
SuffixesOwned == \A a \in Articled : article[a].slug[2] \in {a, NoEntry}

RegistersInv ==
    /\ RegistersTypeOK /\ UsesStored /\ DeliveriesResolve
    /\ NamesTellApart /\ PrimariesFit /\ SuffixesOwned

LEMMA ColumnsOfTypes ==
    ASSUME NEW type
    PROVE  /\ ColumnOf(type) \in Columns /\ ColumnOf(type) # NoEntry
           /\ ShownFrom({ColumnOf(type)}) = ColumnOf(type)
BY RegisterParameters DEF ColumnOf, Columns, ShownFrom

LEMMA StoredResolves ==
    ASSUME RegistersInv
    PROVE  UsesResolve
<1>1. ASSUME NEW a \in Articled, NEW use \in article[a].uses, kind = "ATTRIBUTE"
      PROVE  LET columns == {u[2] : u \in {v \in article[a].uses : v[1] = use[1]}} IN
             ReadBack(use[1], columns) # NoEntry /\ ShownFrom(columns) = ReadBack(use[1], columns)
  <2> DEFINE c == ColumnOf(entry[use[1]].type)
             columns == {u[2] : u \in {v \in article[a].uses : v[1] = use[1]}}
  <2>1. columns = {c}
    BY <1>1 DEF RegistersInv, UsesStored
  <2> HIDE DEF columns
  <2>2. ReadBack(use[1], columns) = c
    BY <2>1 DEF ReadBack
  <2>3. c # NoEntry /\ ShownFrom({c}) = c
    BY ColumnsOfTypes
  <2>4. ReadBack(use[1], columns) # NoEntry /\ ShownFrom(columns) = ReadBack(use[1], columns)
    BY <2>1, <2>2, <2>3
  <2> QED
    BY <2>4 DEF columns
<1> QED
  BY <1>1 DEF UsesResolve, RegistersInv, UsesStored, DeliveriesResolve
LEMMA RegisteredRows ==
    ASSUME RegistersInv, NEW e \in Registered
    PROVE  /\ e \in Entries /\ entry[e] \in EntryRow
           /\ entry[e].name \in Labels /\ entry[e].key \in RegisterSlugs \cup AttributeCodes
           /\ entry[e].type \in AttributeTypes \cup {NoEntry}
           /\ kind # "ATTRIBUTE" => entry[e].key = SlugBy[entry[e].name]
<1>1. e \in Entries /\ entry[e] \in EntryRow
  BY DEF RegistersInv, RegistersTypeOK, Registered
<1> QED
  BY <1>1 DEF EntryRow, RegistersInv, NamesTellApart

LEMMA ArticleRows ==
    ASSUME RegistersInv, NEW a \in Articled
    PROVE  /\ a \in Articles /\ article[a] \in ArticleRow
           /\ article[a].name \in Labels /\ article[a].release \in Releases
           /\ article[a].uses \in SUBSET (Entries \X Columns)
           /\ article[a].topics \in SUBSET Topics /\ article[a].primary \in Topics \cup {NoEntry}
           /\ article[a].slug \in RegisterSlugs \X (Articles \cup {NoEntry})
<1>1. a \in Articles /\ article[a] \in ArticleRow
  BY DEF RegistersInv, RegistersTypeOK, Articled
<1> QED
  BY <1>1 DEF ArticleRow

LEMMA SubmitType ==
    ASSUME RegistersTypeOK, Submit
    PROVE  writes' \in 0..MaxWrites /\ kind' = kind /\ kind' \in RegisterKinds
BY RegisterParameters DEF RegistersTypeOK, Submit

\* A row is written that tells itself from the others; one that is in use keeps
\* what its values were stored by.
LEMMA EntryPut ==
    ASSUME RegistersInv, Submit, NEW e \in Entries, NEW row \in EntryRow,
           entry' = [entry EXCEPT ![e] = row], UNCHANGED <<article, delivery>>,
           Unread(Registered \ {e}, row.name),
           \A d \in Registered \ {e} : entry[d].key # row.key,
           kind # "ATTRIBUTE" => row.key = SlugBy[row.name],
           kind = "ATTRIBUTE" /\ InArticles(e) => row.type = entry[e].type
    PROVE  RegistersInv'
<1>1. /\ entry'[e] = row /\ \A d \in Entries : d # e => entry'[d] = entry[d]
      /\ entry' \in [Entries -> EntryRow \cup {NoEntry}] /\ row # NoEntry
  BY RegisterParameters DEF RegistersInv, RegistersTypeOK
<1>2. Registered' = Registered \cup {e} /\ Articled' = Articled
  BY <1>1 DEF Registered, Articled
<1>3. RegistersTypeOK'
  BY <1>1, SubmitType DEF RegistersInv, RegistersTypeOK
<1>4. kind' = kind
  BY DEF Submit
<1>5. UsesStored'
  <2>1. ASSUME NEW a \in Articled, NEW use \in article[a].uses
        PROVE  /\ use[1] \in Registered'
               /\ kind = "ATTRIBUTE" => use[2] = ColumnOf(entry'[use[1]].type)
    <3>1. /\ use[1] \in Registered
          /\ kind = "ATTRIBUTE" => use[2] = ColumnOf(entry[use[1]].type)
      BY <2>1 DEF RegistersInv, UsesStored
    <3>2. CASE use[1] = e
      <4>1. InArticles(e)
        BY <2>1, <3>2 DEF InArticles
      <4> QED
        BY <1>1, <1>2, <3>1, <3>2, <4>1
    <3>3. CASE use[1] # e
      BY <1>1, <1>2, <3>1, <3>3 DEF Registered
    <3> QED
      BY <3>2, <3>3
  <2> QED
    BY <1>2, <1>4, <2>1 DEF UsesStored, ColumnOf
<1>6. DeliveriesResolve'
  BY <1>2, <1>4 DEF RegistersInv, DeliveriesResolve
<1>7. NamesTellApart'
  <2>1. ASSUME NEW c \in Registered', NEW d \in Registered', c # d
        PROVE  Folded[entry'[c].name] # Folded[entry'[d].name] /\ entry'[c].key # entry'[d].key
    BY <1>1, <1>2, <2>1, RegisteredRows DEF RegistersInv, NamesTellApart, Unread
  <2>2. \A d \in Registered' : kind' # "ATTRIBUTE" => entry'[d].key = SlugBy[entry'[d].name]
    BY <1>1, <1>2, <1>4, RegisteredRows
  <2> QED
    BY <1>2, <1>4, <2>1, <2>2 DEF RegistersInv, NamesTellApart, NameFree, Scope
<1>8. PrimariesFit' /\ SuffixesOwned'
  BY <1>2 DEF RegistersInv, PrimariesFit, SuffixesOwned
<1> QED
  BY <1>3, <1>5, <1>6, <1>7, <1>8 DEF RegistersInv

LEMMA EntryRemoved ==
    ASSUME RegistersInv, Submit, NEW e \in Entries,
           entry' = [entry EXCEPT ![e] = NoEntry], UNCHANGED <<article, delivery>>,
           ~InArticles(e), kind = "SUPPLIER" => ~InDeliveries(e)
    PROVE  RegistersInv'
<1>1. /\ entry'[e] = NoEntry /\ \A d \in Entries : d # e => entry'[d] = entry[d]
      /\ entry' \in [Entries -> EntryRow \cup {NoEntry}]
  BY DEF RegistersInv, RegistersTypeOK
<1>2. Registered' = Registered \ {e} /\ Articled' = Articled
  BY <1>1 DEF Registered, Articled
<1>3. RegistersTypeOK'
  BY <1>1, SubmitType DEF RegistersInv, RegistersTypeOK
<1>4. kind' = kind
  BY DEF Submit
<1>5. UsesStored'
  <2>1. ASSUME NEW a \in Articled, NEW use \in article[a].uses
        PROVE  use[1] \in Registered /\ use[1] # e
    BY <2>1 DEF RegistersInv, UsesStored, InArticles
  <2> QED
    BY <1>1, <1>2, <1>4, <2>1 DEF UsesStored, RegistersInv, Registered
<1>6. DeliveriesResolve'
  BY <1>2, <1>4 DEF RegistersInv, DeliveriesResolve, InDeliveries
<1>7. NamesTellApart'
  <2>1. \A d \in Registered' : d \in Registered /\ entry'[d] = entry[d]
    BY <1>1, <1>2 DEF Registered
  <2> QED
    BY <1>2, <1>4, <2>1 DEF RegistersInv, NamesTellApart, NameFree, Scope
<1>8. PrimariesFit' /\ SuffixesOwned'
  BY <1>2 DEF RegistersInv, PrimariesFit, SuffixesOwned
<1> QED
  BY <1>3, <1>5, <1>6, <1>7, <1>8 DEF RegistersInv

LEMMA NamedRow ==
    ASSUME NEW name \in Labels
    PROVE  /\ Named(name) \in EntryRow
           /\ Named(name).name = name /\ Named(name).key = SlugBy[name]
BY DEF Named, EntryRow, RegisterSlugs

LEMMA CreateNamedKeeps ==
    ASSUME RegistersInv, NEW e \in Entries, NEW name \in Labels, CreateNamed(e, name),
           kind # "ATTRIBUTE"
    PROVE  RegistersInv'
<1>1. /\ Submit /\ entry' = [entry EXCEPT ![e] = Named(name)] /\ UNCHANGED <<article, delivery>>
      /\ SlugAvailable(Registered, name)
  BY DEF CreateNamed, Put
<1>2. PICK row \in EntryRow : row = Named(name) /\ row.name = name /\ row.key = SlugBy[name]
  BY NamedRow
<1>3. Unread(Registered \ {e}, row.name) /\ \A d \in Registered \ {e} : entry[d].key # row.key
  BY <1>1, <1>2 DEF SlugAvailable, Unread
<1> QED
  BY <1>1, <1>2, <1>3, EntryPut

LEMMA RenamedKeeps ==
    ASSUME RegistersInv, Submit, NEW e \in Registered, NEW name \in Labels \cup {Omitted},
           kind # "ATTRIBUTE", name # Omitted => SlugAvailable(Registered \ {e}, name),
           Put(e, IF name = Omitted THEN entry[e] ELSE Named(name))
    PROVE  RegistersInv'
<1>1. CASE name = Omitted
  <2>1. entry' = [entry EXCEPT ![e] = entry[e]] /\ UNCHANGED <<article, delivery>>
    BY <1>1 DEF Put
  <2>2. /\ Unread(Registered \ {e}, entry[e].name)
        /\ \A d \in Registered \ {e} : entry[d].key # entry[e].key
    BY DEF RegistersInv, NamesTellApart, Unread
  <2>3. e \in Entries /\ entry[e] \in EntryRow /\ entry[e].key = SlugBy[entry[e].name]
    BY RegisteredRows
  <2> QED
    BY <2>1, <2>2, <2>3, EntryPut
<1>2. CASE name # Omitted
  <2>1. /\ entry' = [entry EXCEPT ![e] = Named(name)] /\ UNCHANGED <<article, delivery>>
        /\ name \in Labels /\ SlugAvailable(Registered \ {e}, name)
    BY <1>2 DEF Put
  <2>2. PICK row \in EntryRow : row = Named(name) /\ row.name = name /\ row.key = SlugBy[name]
    BY <2>1, NamedRow
  <2>3. /\ Unread(Registered \ {e}, row.name) /\ e \in Entries
        /\ \A d \in Registered \ {e} : entry[d].key # row.key
    BY <2>1, <2>2, RegisteredRows DEF SlugAvailable
  <2> QED
    BY <2>1, <2>2, <2>3, EntryPut
<1> QED
  BY <1>1, <1>2

LEMMA CreateAttributeKeeps ==
    ASSUME RegistersInv, NEW e \in Entries, NEW name \in Labels, NEW mark \in AttributeCodes,
           NEW type \in AttributeTypes, CreateAttribute(e, name, mark, type)
    PROVE  RegistersInv'
<1> DEFINE row == [name |-> name, key |-> mark, type |-> type]
<1>1. /\ Submit /\ kind = "ATTRIBUTE" /\ entry[e] = NoEntry
      /\ CodeAvailable(Registered, name, mark)
      /\ entry' = [entry EXCEPT ![e] = row] /\ UNCHANGED <<article, delivery>>
  BY DEF CreateAttribute, Put
<1>2. row \in EntryRow /\ row.name = name /\ row.key = mark /\ row.type = type
  BY DEF EntryRow
<1>3. ~InArticles(e)
  BY <1>1 DEF InArticles, RegistersInv, UsesStored, Registered
<1> HIDE DEF row
<1>4. Unread(Registered \ {e}, row.name) /\ \A d \in Registered \ {e} : entry[d].key # row.key
  BY <1>1, <1>2 DEF CodeAvailable, Unread
<1> QED
  BY <1>1, <1>2, <1>3, <1>4, EntryPut

LEMMA UpdateAttributeKeeps ==
    ASSUME RegistersInv, NEW e \in Entries, NEW name \in Labels \cup {Omitted},
           NEW mark \in AttributeCodes \cup {Omitted}, NEW type \in AttributeTypes \cup {Omitted},
           UpdateAttribute(e, name, mark, type)
    PROVE  RegistersInv'
<1> DEFINE row == [name |-> Kept(name, entry[e].name), key |-> Kept(mark, entry[e].key),
                   type |-> Kept(type, entry[e].type)]
<1>1. /\ Submit /\ kind = "ATTRIBUTE" /\ e \in Registered
      /\ CodeAvailable(Registered \ {e}, row.name, row.key)
      /\ KeepsMeaning(e, row.key, row.type)
      /\ entry' = [entry EXCEPT ![e] = row] /\ UNCHANGED <<article, delivery>>
  BY DEF UpdateAttribute, Put
<1>2. row \in EntryRow
  BY <1>1, RegisteredRows DEF EntryRow, Kept
<1> HIDE DEF row
<1> QED
  BY <1>1, <1>2, EntryPut DEF CodeAvailable, KeepsMeaning

LEMMA RegisterStepKeeps ==
    ASSUME RegistersInv, NEW e \in Entries, RegisterStep(e)
    PROVE  RegistersInv'
<1>1. ASSUME NEW name \in Labels,
             CreateSupplier(e, name) \/ CreatePublisher(e, name) \/ CreateAuthor(e, name)
      PROVE  RegistersInv'
  BY <1>1, CreateNamedKeeps DEF CreateSupplier, CreatePublisher, CreateAuthor
<1>2. ASSUME NEW name \in Labels \cup {Omitted}, UpdateSupplier(e, name)
      PROVE  RegistersInv'
  BY <1>2, RenamedKeeps DEF UpdateSupplier, Kept
<1>3. ASSUME NEW name \in Labels \cup {Omitted},
             UpdatePublisher(e, name) \/ UpdateAuthor(e, name)
      PROVE  RegistersInv'
  BY <1>3, RenamedKeeps DEF UpdatePublisher, UpdateAuthor, Rename
<1>4. ASSUME RemoveSupplier(e) \/ RemovePublisher(e) \/ RemoveAuthor(e) \/ RemoveAttribute(e)
      PROVE  RegistersInv'
  BY <1>4, EntryRemoved
  DEF RemoveSupplier, RemovePublisher, RemoveAuthor, RemoveAttribute, RemoveUnused, Put
<1> QED
  BY <1>1, <1>2, <1>3, <1>4, CreateAttributeKeeps, UpdateAttributeKeeps DEF RegisterStep

\* Two products of one origin that read unalike do so from both sides.
LEMMA NamesFreeBothWays ==
    ASSUME NEW a, NEW b, NameFree({b}, article[a].name, article[a].release, article[a].uses)
    PROVE  NameFree({a}, article[b].name, article[b].release, article[b].uses)
BY DEF NameFree

\* What the checks on a product make sure of before its row is written.
ArticleFits(a, row) ==
    /\ \A use \in row.uses : /\ use[1] \in Registered
                             /\ kind = "ATTRIBUTE" => use[2] = ColumnOf(entry[use[1]].type)
    /\ NameFree(Articled \ {a}, row.name, row.release, row.uses)
    /\ row.slug[1] = SlugBy[row.name] /\ row.slug[2] \in {a, NoEntry}
    /\ \A b \in Articled \ {a} : article[b].slug # row.slug
    /\ PrimaryFits(row.topics, row.primary)

LEMMA ArticlePut ==
    ASSUME RegistersInv, Submit, NEW a \in Articles, NEW row \in ArticleRow,
           article' = [article EXCEPT ![a] = row], UNCHANGED <<entry, delivery>>,
           ArticleFits(a, row)
    PROVE  RegistersInv'
<1>1. /\ article'[a] = row /\ \A b \in Articles : b # a => article'[b] = article[b]
      /\ article' \in [Articles -> ArticleRow \cup {NoEntry}] /\ row # NoEntry
  BY RegisterParameters DEF RegistersInv, RegistersTypeOK
<1>2. Articled' = Articled \cup {a} /\ Registered' = Registered
  BY <1>1 DEF Articled, Registered
<1>3. /\ kind' = kind
      /\ \A b \in Articled' : b = a \/ (b \in Articled \ {a} /\ article'[b] = article[b])
  BY <1>1, <1>2 DEF Submit, Articled
<1>4. RegistersTypeOK'
  BY <1>1, SubmitType DEF RegistersInv, RegistersTypeOK
<1>5. UsesStored'
  <2>1. ASSUME NEW b \in Articled', NEW use \in article'[b].uses
        PROVE  /\ use[1] \in Registered
               /\ kind = "ATTRIBUTE" => use[2] = ColumnOf(entry[use[1]].type)
    <3>1. CASE b = a
      BY <1>1, <2>1, <3>1 DEF ArticleFits
    <3>2. CASE b # a
      <4>1. b \in Articled /\ use \in article[b].uses
        BY <1>3, <2>1, <3>2
      <4> QED
        BY <4>1 DEF RegistersInv, UsesStored
    <3> QED
      BY <3>1, <3>2
  <2> QED
    BY <1>2, <1>3, <2>1 DEF UsesStored, ColumnOf
<1>6. DeliveriesResolve'
  BY <1>2, <1>3 DEF RegistersInv, DeliveriesResolve
<1>7. NamesTellApart'
  <2>1. ASSUME NEW b \in Articled \ {a}
        PROVE  /\ article[b].slug # row.slug
               /\ Folded[article[b].name] = Folded[row.name]
                      => Scope(article[b].release, article[b].uses) # Scope(row.release, row.uses)
    BY DEF NameFree, ArticleFits
  <2>2. ASSUME NEW b \in Articled \ {a}, NEW c \in Articled \ {a}, b # c
        PROVE  /\ article[b].slug # article[c].slug
               /\ Folded[article[c].name] = Folded[article[b].name]
                      => Scope(article[c].release, article[c].uses)
                             # Scope(article[b].release, article[b].uses)
    BY <2>2 DEF RegistersInv, NamesTellApart, NameFree
  <2>3. ASSUME NEW b \in Articled', NEW c \in Articled', b # c
        PROVE  /\ article'[b].slug # article'[c].slug
               /\ Folded[article'[c].name] = Folded[article'[b].name]
                      => Scope(article'[c].release, article'[c].uses)
                             # Scope(article'[b].release, article'[b].uses)
    <3>1. CASE b = a
      <4>1. c \in Articled \ {a} /\ article'[c] = article[c]
        BY <1>3, <2>3, <3>1
      <4> QED
        BY <1>1, <2>1, <3>1, <4>1
    <3>2. CASE c = a
      <4>1. b \in Articled \ {a} /\ article'[b] = article[b]
        BY <1>3, <2>3, <3>2
      <4> QED
        BY <1>1, <2>1, <3>2, <4>1
    <3>3. CASE b # a /\ c # a
      BY <1>3, <2>2, <2>3, <3>3
    <3> QED
      BY <3>1, <3>2, <3>3
  <2>4. \A b, c \in Articled' :
            b # c => /\ article'[b].slug # article'[c].slug
                     /\ NameFree({c}, article[b].name, article[b].release, article[b].uses)'
    BY <1>3, <2>3 DEF NameFree, Scope
  <2>5. \A b \in Articled' : article'[b].slug[1] = SlugBy[article'[b].name]
    BY <1>1, <1>3 DEF RegistersInv, NamesTellApart, ArticleFits
  <2>6. /\ \A c, d \in Registered' :
               c # d => Folded[entry'[c].name] # Folded[entry'[d].name] /\ entry'[c].key # entry'[d].key
        /\ \A c \in Registered' : kind' # "ATTRIBUTE" => entry'[c].key = SlugBy[entry'[c].name]
    BY <1>2, <1>3 DEF RegistersInv, NamesTellApart
  <2> QED
    BY <2>4, <2>5, <2>6 DEF NamesTellApart
<1>8. PrimariesFit' /\ SuffixesOwned'
  BY <1>1, <1>3 DEF RegistersInv, PrimariesFit, SuffixesOwned, PrimaryFits, ArticleFits
<1> QED
  BY <1>4, <1>5, <1>6, <1>7, <1>8 DEF RegistersInv

LEMMA ReferencesType ==
    ASSUME NEW k \in RegisterKinds, NEW given \in References[k]
    PROVE  \A g \in given : g[1] \in Entries
BY DEF References

LEMMA StoredUsesType ==
    ASSUME RegistersInv, NEW given, Acceptable(given)
    PROVE  /\ StoredUses(given) \in SUBSET (Entries \X Columns)
           /\ \A use \in StoredUses(given) :
                  /\ use[1] \in Registered
                  /\ kind = "ATTRIBUTE" => use[2] = ColumnOf(entry[use[1]].type)
<1>1. \A g \in given : g[1] \in Registered /\ g[1] \in Entries
  BY DEF Acceptable, Registered
<1>2. \A use \in StoredUses(given) : \E g \in given :
          use = <<g[1], IF kind = "ATTRIBUTE" THEN ColumnOf(entry[g[1]].type) ELSE "ID">>
  BY DEF StoredUses
<1>3. "ID" \in Columns /\ \A type : ColumnOf(type) \in Columns
  BY ColumnsOfTypes DEF Columns
<1> QED
  BY <1>1, <1>2, <1>3

\* availableSlug gives what no other product has.
LEMMA SlugForFits ==
    ASSUME RegistersInv, NEW a \in Articles, NEW name \in Labels
    PROVE  /\ SlugFor(a, name) \in RegisterSlugs \X (Articles \cup {NoEntry})
           /\ SlugFor(a, name)[1] = SlugBy[name] /\ SlugFor(a, name)[2] \in {a, NoEntry}
           /\ \A b \in Articled \ {a} : article[b].slug # SlugFor(a, name)
<1>1. SlugBy[name] \in RegisterSlugs
  BY DEF RegisterSlugs
<1>2. ASSUME NEW b \in Articled \ {a}
      PROVE  article[b].slug # SlugFor(a, name)
  <2>1. article[b].slug[2] \in {b, NoEntry} /\ b # a /\ a # NoEntry
    BY RegisterParameters DEF RegistersInv, SuffixesOwned
  <2>2. CASE \E c \in Articled \ {a} : article[c].slug = <<SlugBy[name], NoEntry>>
    <3>1. SlugFor(a, name) = <<SlugBy[name], a>>
      BY <2>2 DEF SlugFor
    <3> QED
      BY <2>1, <3>1
  <2>3. CASE ~\E c \in Articled \ {a} : article[c].slug = <<SlugBy[name], NoEntry>>
    <3>1. SlugFor(a, name) = <<SlugBy[name], NoEntry>>
      BY <2>3 DEF SlugFor
    <3> QED
      BY <2>3, <3>1
  <2> QED
    BY <2>2, <2>3
<1> QED
  BY <1>1, <1>2 DEF SlugFor

LEMMA CreateArticleKeeps ==
    ASSUME RegistersInv, NEW a \in Articles, NEW dto \in Creation[kind], CreateArticle(a, dto)
    PROVE  RegistersInv'
<1> DEFINE uses == StoredUses(dto.given)
           slug == SlugFor(a, dto.name)
           row == [name |-> dto.name, release |-> dto.release, uses |-> uses,
                   topics |-> dto.topics, primary |-> dto.primary, slug |-> slug]
<1>1. /\ Submit /\ article' = [article EXCEPT ![a] = row] /\ UNCHANGED <<entry, delivery>>
      /\ PrimaryFits(dto.topics, dto.primary) /\ Acceptable(dto.given)
      /\ NameFree(Articled, dto.name, dto.release, uses)
  BY DEF CreateArticle
<1>2. /\ dto.name \in Labels /\ dto.release \in Releases
      /\ dto.topics \in SUBSET Topics /\ dto.primary \in Topics \cup {NoEntry}
  BY DEF RegistersInv, RegistersTypeOK, Creation
<1>3. /\ uses \in SUBSET (Entries \X Columns)
      /\ \A use \in uses : /\ use[1] \in Registered
                           /\ kind = "ATTRIBUTE" => use[2] = ColumnOf(entry[use[1]].type)
  BY <1>1, StoredUsesType
<1>4. /\ slug \in RegisterSlugs \X (Articles \cup {NoEntry})
      /\ slug[1] = SlugBy[dto.name] /\ slug[2] \in {a, NoEntry}
      /\ \A b \in Articled \ {a} : article[b].slug # slug
  BY <1>2, SlugForFits
<1> HIDE DEF uses, slug
<1>5. /\ row \in ArticleRow /\ row.name = dto.name /\ row.release = dto.release /\ row.uses = uses
      /\ row.topics = dto.topics /\ row.primary = dto.primary /\ row.slug = slug
  BY <1>2, <1>3, <1>4 DEF ArticleRow
<1>6. NameFree(Articled \ {a}, dto.name, dto.release, uses)
  BY <1>1 DEF NameFree
<1> HIDE DEF row
<1>7. ArticleFits(a, row)
  BY <1>1, <1>3, <1>4, <1>5, <1>6 DEF ArticleFits
<1> QED
  BY <1>1, <1>5, <1>7, ArticlePut

LEMMA UpdateArticleKeeps ==
    ASSUME RegistersInv, NEW a \in Articles, NEW dto \in Changes[kind], UpdateArticle(a, dto)
    PROVE  RegistersInv'
<1> DEFINE old == article[a]
           name == Kept(dto.name, old.name)
           release == Kept(dto.release, old.release)
           topics == Kept(dto.topics, old.topics)
           main == IF dto.primary = Omitted /\ dto.topics # Omitted THEN NoEntry
                   ELSE Kept(dto.primary, old.primary)
           primary == IF dto.topics = Omitted THEN old.primary ELSE main
           uses == IF dto.given = Omitted THEN old.uses ELSE StoredUses(dto.given)
           slug == IF name = old.name THEN old.slug ELSE SlugFor(a, name)
           row == [name |-> name, release |-> release, uses |-> uses,
                   topics |-> topics, primary |-> primary, slug |-> slug]
<1>1. /\ Submit /\ article' = [article EXCEPT ![a] = row] /\ UNCHANGED <<entry, delivery>>
      /\ a \in Articled /\ PrimaryFits(topics, main)
      /\ dto.given # Omitted => Acceptable(dto.given)
      /\ NameFree(Articled \ {a}, name, release, uses)
  BY DEF UpdateArticle
<1>2. /\ dto.name \in Labels \cup {Omitted} /\ dto.release \in Releases \cup {Omitted}
      /\ dto.topics \in (SUBSET Topics) \cup {Omitted}
      /\ dto.primary \in Topics \cup {NoEntry, Omitted}
  BY DEF RegistersInv, RegistersTypeOK, Changes
<1>3. /\ name \in Labels /\ release \in Releases /\ topics \in SUBSET Topics
      /\ primary \in Topics \cup {NoEntry}
  BY <1>1, <1>2, ArticleRows DEF Kept
<1>4. PrimaryFits(topics, primary)
  BY <1>1 DEF RegistersInv, PrimariesFit, Kept
<1>5. /\ uses \in SUBSET (Entries \X Columns)
      /\ \A use \in uses : /\ use[1] \in Registered
                           /\ kind = "ATTRIBUTE" => use[2] = ColumnOf(entry[use[1]].type)
  <2>1. CASE dto.given = Omitted
    BY <1>1, <2>1, ArticleRows DEF RegistersInv, UsesStored
  <2>2. CASE dto.given # Omitted
    BY <1>1, <2>2, StoredUsesType
  <2> QED
    BY <2>1, <2>2
<1>6. /\ slug \in RegisterSlugs \X (Articles \cup {NoEntry})
      /\ slug[1] = SlugBy[name] /\ slug[2] \in {a, NoEntry}
      /\ \A b \in Articled \ {a} : article[b].slug # slug
  <2>1. CASE name = old.name
    BY <1>1, <2>1, ArticleRows DEF RegistersInv, NamesTellApart, SuffixesOwned
  <2>2. CASE name # old.name
    <3>1. slug = SlugFor(a, name)
      BY <2>2
    <3> HIDE DEF name, slug
    <3> QED
      BY <1>3, <3>1, SlugForFits
  <2> QED
    BY <2>1, <2>2
<1> HIDE DEF name, release, topics, primary, uses, slug
<1>7. /\ row \in ArticleRow /\ row.name = name /\ row.release = release /\ row.uses = uses
      /\ row.topics = topics /\ row.primary = primary /\ row.slug = slug
  BY <1>3, <1>5, <1>6 DEF ArticleRow
<1> HIDE DEF row
<1>8. ArticleFits(a, row)
  BY <1>1, <1>4, <1>5, <1>6, <1>7 DEF ArticleFits
<1> QED
  BY <1>1, <1>7, <1>8, ArticlePut

LEMMA RemoveArticleKeeps ==
    ASSUME RegistersInv, NEW a \in Articles, RemoveArticle(a)
    PROVE  RegistersInv'
<1>1. /\ Submit /\ article' = [article EXCEPT ![a] = NoEntry] /\ UNCHANGED <<entry, delivery>>
  BY DEF RemoveArticle
<1>2. /\ \A b \in Articled' : b \in Articled /\ article'[b] = article[b]
      /\ article' \in [Articles -> ArticleRow \cup {NoEntry}]
      /\ Registered' = Registered /\ kind' = kind
  BY <1>1 DEF Articled, Registered, Submit, RegistersInv, RegistersTypeOK
<1>3. RegistersTypeOK'
  BY <1>1, <1>2, SubmitType DEF RegistersInv, RegistersTypeOK
<1>4. UsesStored' /\ DeliveriesResolve'
  BY <1>1, <1>2 DEF RegistersInv, UsesStored, DeliveriesResolve, ColumnOf
<1>5. NamesTellApart'
  BY <1>1, <1>2 DEF RegistersInv, NamesTellApart, NameFree, Scope
<1>6. PrimariesFit' /\ SuffixesOwned'
  BY <1>2 DEF RegistersInv, PrimariesFit, SuffixesOwned
<1> QED
  BY <1>3, <1>4, <1>5, <1>6 DEF RegistersInv

LEMMA SupplyReceiptKeeps ==
    ASSUME RegistersInv, NEW d \in Deliveries, NEW e \in Entries \cup {NoEntry}, SupplyReceipt(d, e)
    PROVE  RegistersInv'
<1>1. /\ Submit /\ kind = "SUPPLIER" /\ (e # NoEntry => e \in Registered)
      /\ delivery' = [delivery EXCEPT ![d] = e] /\ UNCHANGED <<entry, article>>
  BY DEF SupplyReceipt
<1>2. Registered' = Registered /\ Articled' = Articled /\ kind' = kind
  BY <1>1 DEF Articled, Registered, Submit
<1>3. RegistersTypeOK'
  BY <1>1, <1>2, SubmitType DEF RegistersInv, RegistersTypeOK
<1>4. DeliveriesResolve'
  BY <1>1, <1>2 DEF RegistersInv, RegistersTypeOK, DeliveriesResolve
<1>5. UsesStored'
  BY <1>1, <1>2 DEF RegistersInv, UsesStored, ColumnOf
<1>6. NamesTellApart'
  BY <1>1, <1>2 DEF RegistersInv, NamesTellApart, NameFree, Scope
<1>7. PrimariesFit' /\ SuffixesOwned'
  BY <1>1, <1>2 DEF RegistersInv, PrimariesFit, SuffixesOwned
<1> QED
  BY <1>3, <1>4, <1>5, <1>6, <1>7 DEF RegistersInv

LEMMA RegistersInvariance == RegistersSpec => []RegistersInv
<1>1. RegistersInit => RegistersInv
  <2> SUFFICES ASSUME RegistersInit
               PROVE  RegistersInv
    OBVIOUS
  <2>1. Registered = {} /\ Articled = {}
    BY DEF RegistersInit, Registered, Articled
  <2>2. RegistersTypeOK
    BY RegisterParameters DEF RegistersInit, RegistersTypeOK
  <2> QED
    BY <2>1, <2>2 DEF RegistersInit, RegistersInv, UsesStored, DeliveriesResolve, NamesTellApart,
                      PrimariesFit, SuffixesOwned
<1>2. RegistersInv /\ [RegistersNext]_registerVars => RegistersInv'
  <2> SUFFICES ASSUME RegistersInv, [RegistersNext]_registerVars
               PROVE  RegistersInv'
    OBVIOUS
  <2>1. CASE UNCHANGED registerVars
    BY <2>1 DEF registerVars, RegistersInv, RegistersTypeOK, UsesStored, DeliveriesResolve,
                NamesTellApart, PrimariesFit, SuffixesOwned, Registered, Articled, NameFree, Scope,
                ColumnOf
  <2>2. CASE RegistersNext
    BY <2>2, RegisterStepKeeps, CreateArticleKeeps, UpdateArticleKeeps, RemoveArticleKeeps,
       SupplyReceiptKeeps DEF RegistersNext
  <2> QED
    BY <2>1, <2>2
<1> QED
  BY <1>1, <1>2, PTL DEF RegistersSpec

\* Registers, products and receipts keep their types, however they are changed.
THEOREM RegistersTypeCorrect == RegistersSpec => []RegistersTypeOK
<1>1. RegistersInv => RegistersTypeOK
  BY DEF RegistersInv
<1> QED
  BY <1>1, RegistersInvariance, PTL

\* Whatever products and receipts have stored refers to a row that is there and is
\* read back as what was stored; names tell the rows of a register apart
\* (AuthorsService, SuppliersService, ProductAttributesService and the others).
THEOREM RegistersAlwaysResolve == RegistersSpec => []RegistersResolve
<1>1. RegistersInv => RegistersResolve
  BY StoredResolves DEF RegistersInv, RegistersResolve
<1> QED
  BY <1>1, RegistersInvariance, PTL

-----------------------------------------------------------------------------
(* The figures. *)

\* A completed order has one row that says so, and no other order has one: an
\* order that is completed stays so.
CompletedRows ==
    /\ \A e \in history : e.to = "COMPLETED" => sale[e.of].status = "COMPLETED"
    /\ \A o \in Sales : sale[o].status = "COMPLETED" =>
           \E e \in history : e.of = o /\ e.to = "COMPLETED"
    /\ \A e, f \in history : e.to = "COMPLETED" /\ f.to = "COMPLETED" /\ e.of = f.of => e = f

ReportInv == ReportTypeOK /\ IsFiniteSet(history) /\ CompletedRows

LEMMA MomentsBounded ==
    /\ FirstMoment \in Moments /\ \A m \in Moments : FirstMoment <= m
    /\ LastMoment \in Moments /\ \A m \in Moments : m <= LastMoment
<1>1. /\ \E m \in Moments : \A n \in Moments : m <= n
      /\ \E m \in Moments : \A n \in Moments : n <= m
  BY ReportParameters
<1> QED
  BY <1>1 DEF FirstMoment, LastMoment

LEMMA StatusField ==
    ASSUME ReportTypeOK, NEW o \in Sales, NEW to \in SaleStatuses
    PROVE  /\ [sale EXCEPT ![o].status = to] \in [Sales -> SaleRow]
           /\ [sale EXCEPT ![o].status = to][o].status = to
           /\ \A p \in Sales \ {o} : [sale EXCEPT ![o].status = to][p] = sale[p]
<1>1. sale[o] \in SaleRow /\ sale \in [Sales -> SaleRow]
  BY DEF ReportTypeOK
<1>2. [sale[o] EXCEPT !.status = to] \in SaleRow
  BY <1>1 DEF SaleRow
<1> QED
  BY <1>1, <1>2

\* The row that a change of status writes, where one is counted.
LEMMA BecomesKeeps ==
    ASSUME ReportInv, NEW o \in Sales, NEW to \in SaleStatuses, Becomes(o, to),
           sale[o].status # "COMPLETED"
    PROVE  ReportInv'
<1> DEFINE row == [of |-> o, to |-> to, at |-> hour]
           new == {row} \cap HistoryRow
<1>1. /\ sale' = [sale EXCEPT ![o].status = to]
      /\ history' = history \cup new /\ hour' = hour
  BY DEF Becomes
<1>2. sale' \in [Sales -> SaleRow] /\ sale'[o].status = to /\ \A p \in Sales \ {o} : sale'[p] = sale[p]
  BY <1>1, StatusField DEF ReportInv
<1>3. ReportTypeOK'
  BY <1>1, <1>2 DEF ReportInv, ReportTypeOK
<1>4. IsFiniteSet(new)
  <2>1. IsFiniteSet({row})
    BY FS_Singleton
  <2> QED
    BY <2>1, FS_Subset
<1>5. IsFiniteSet(history')
  BY <1>1, <1>4, FS_Union DEF ReportInv
<1>6. \A e \in history : e.of \in Sales /\ (e.to = "COMPLETED" => e.of # o)
  BY DEF ReportInv, ReportTypeOK, HistoryRow, CompletedRows
<1>7. to = "COMPLETED" => row \in new
  BY DEF ReportInv, ReportTypeOK, HistoryRow
<1>8. \A e \in new : e = row
  OBVIOUS
<1>9. \A e \in history' : e.to = "COMPLETED" => sale'[e.of].status = "COMPLETED"
  BY <1>1, <1>2, <1>6, <1>8 DEF ReportInv, CompletedRows
<1>10. \A p \in Sales : sale'[p].status = "COMPLETED" =>
           \E e \in history' : e.of = p /\ e.to = "COMPLETED"
  <2> SUFFICES ASSUME NEW p \in Sales, sale'[p].status = "COMPLETED"
               PROVE  \E e \in history' : e.of = p /\ e.to = "COMPLETED"
    OBVIOUS
  <2>1. CASE p = o
    BY <2>1, <1>1, <1>2, <1>7
  <2>2. CASE p # o
    BY <2>2, <1>1, <1>2 DEF ReportInv, CompletedRows
  <2> QED
    BY <2>1, <2>2
<1>11. \A e, f \in history' : e.to = "COMPLETED" /\ f.to = "COMPLETED" /\ e.of = f.of => e = f
  BY <1>1, <1>6, <1>8 DEF ReportInv, CompletedRows
<1> QED
  BY <1>3, <1>5, <1>9, <1>10, <1>11 DEF ReportInv, CompletedRows

LEMMA PlaceSaleKeeps ==
    ASSUME ReportInv, NEW o \in Sales, NEW b \in Outlets, NEW method \in PayMethods,
           NEW goods \in Subtotals, NEW fee \in ShippingFees, NEW n \in Copies,
           PlaceSale(o, b, method, goods, fee, n)
    PROVE  ReportInv'
<1> DEFINE status == IF method = "COD" THEN "PENDING" ELSE "PENDING_PAYMENT"
           row == [status |-> status, outlet |-> b, method |-> method,
                   goods |-> goods, fee |-> fee, copies |-> n, placed |-> hour]
<1>1. /\ sale[o].status = "NONE" /\ sale' = [sale EXCEPT ![o] = row]
      /\ history' = history /\ hour' = hour
  BY DEF PlaceSale
<1>2. status \in SaleStatuses /\ status # "COMPLETED"
  BY DEF SaleStatuses
<1>3. row \in SaleRow
  BY <1>2 DEF ReportInv, ReportTypeOK, SaleRow
<1>4. ReportTypeOK'
  BY <1>1, <1>3 DEF ReportInv, ReportTypeOK
<1>5. \A p \in Sales : (sale'[p].status = "COMPLETED") <=> (sale[p].status = "COMPLETED")
  BY <1>1, <1>2 DEF ReportInv, ReportTypeOK
<1>6. \A e \in history : e.of \in Sales
  BY DEF ReportInv, ReportTypeOK, HistoryRow
<1> QED
  BY <1>1, <1>4, <1>5, <1>6 DEF ReportInv, CompletedRows

LEMMA ReportStepKeeps ==
    ASSUME ReportInv, [ReportNext]_reportVars
    PROVE  ReportInv'
<1>1. CASE UNCHANGED reportVars
  BY <1>1 DEF reportVars, ReportInv, ReportTypeOK, CompletedRows
<1>2. ASSUME NEW o \in Sales, PaySale(o) \/ RetrySale(o) \/ CompleteSale(o) \/ CancelSale(o) \/ FailSale(o)
      PROVE  ReportInv'
  <2>1. sale[o].status # "COMPLETED" /\ \E to \in SaleStatuses : Becomes(o, to)
    BY <1>2 DEF PaySale, RetrySale, CompleteSale, CancelSale, FailSale, SaleStatuses
  <2> QED
    BY <2>1, BecomesKeeps
<1>3. CASE LaterHour
  BY <1>3 DEF LaterHour, ReportInv, ReportTypeOK, CompletedRows
<1>4. CASE \E o \in Sales : \E b \in Outlets, method \in PayMethods, goods \in Subtotals,
               fee \in ShippingFees, n \in Copies : PlaceSale(o, b, method, goods, fee, n)
  BY <1>4, PlaceSaleKeeps
<1> QED
  BY <1>1, <1>2, <1>3, <1>4 DEF ReportNext

LEMMA ReportInvariance == ReportSpec => []ReportInv
<1>1. ReportInit => ReportInv
  <2> SUFFICES ASSUME ReportInit PROVE ReportInv
    OBVIOUS
  <2>1. NoSale \in SaleRow /\ NoSale.status = "NONE"
    BY DEF NoSale, SaleRow, SaleStatuses
  <2>2. ReportTypeOK
    BY <2>1, MomentsBounded DEF ReportInit, ReportTypeOK
  <2>3. CompletedRows
    BY <2>1 DEF ReportInit, CompletedRows
  <2> QED
    BY <2>2, <2>3, FS_EmptySet DEF ReportInit, ReportInv
<1> QED
  BY <1>1, ReportStepKeeps, PTL DEF ReportSpec

\* Orders and histories keep their types, and the hours are ones that are looked at.
THEOREM ReportTypeCorrect == ReportSpec => []ReportTypeOK
<1>1. ReportInv => ReportTypeOK
  BY DEF ReportInv
<1> QED
  BY <1>1, ReportInvariance, PTL

-----------------------------------------------------------------------------
(* Days. *)

\* A moment is in the range of one day, which is its day in Vietnam.
LEMMA DayOfMoment ==
    ASSUME NEW h \in Int, NEW d \in Int
    PROVE  /\ VietnamDay(h) \in Int
           /\ InRange(h, DayRange(d, d)) <=> d = VietnamDay(h)
BY DEF VietnamDay, InRange, DayRange, Midnight, VietnamOffset

LEMMA DaysCover ==
    ASSUME NEW h \in Moments
    PROVE  VietnamDay(h) \in Days
<1>1. /\ h \in Int /\ FirstMoment \in Int /\ LastMoment \in Int
      /\ FirstMoment <= h /\ h <= LastMoment
  BY MomentsBounded, ReportParameters
<1> QED
  BY <1>1 DEF Days, VietnamDay, VietnamOffset

\* What is counted for everybody, whatever the payment.
LEMMA CompletedIn ==
    ASSUME ReportInv, NEW r, NEW o, NEW h
    PROVE  <<o, h>> \in Completed(r, "GLOBAL", "ALL") <=>
               /\ \E e \in history : e.to = "COMPLETED" /\ e.of = o /\ e.at = h
               /\ InRange(h, r)
<1>1. \A e \in history : e.to = "COMPLETED" => sale[e.of].status = "COMPLETED"
  BY DEF ReportInv, CompletedRows
<1> QED
  BY <1>1 DEF Completed, InScope, PaidBy

\* The days on which an order is counted: its own, if it is completed.
LEMMA OneDay ==
    ASSUME ReportInv, NEW o \in Sales
    PROVE  Cardinality({at \in Days \X Moments :
                           <<o, at[2]>> \in Completed(DayRange(at[1], at[1]), "GLOBAL", "ALL")})
               = IF sale[o].status = "COMPLETED" THEN 1 ELSE 0
<1> DEFINE Counted == {at \in Days \X Moments :
                           <<o, at[2]>> \in Completed(DayRange(at[1], at[1]), "GLOBAL", "ALL")}
<1>1. \A d \in Days, h \in Moments : <<d, h>> \in Counted <=>
          /\ \E e \in history : e.to = "COMPLETED" /\ e.of = o /\ e.at = h
          /\ d = VietnamDay(h)
  <2> SUFFICES ASSUME NEW d \in Days, NEW h \in Moments
               PROVE  <<d, h>> \in Counted <=>
                          /\ \E e \in history : e.to = "COMPLETED" /\ e.of = o /\ e.at = h
                          /\ d = VietnamDay(h)
    OBVIOUS
  <2>1. d \in Int /\ h \in Int
    BY ReportParameters DEF Days
  <2>2. <<d, h>> \in Counted <=> <<o, h>> \in Completed(DayRange(d, d), "GLOBAL", "ALL")
    OBVIOUS
  <2> QED
    BY <2>1, <2>2, DayOfMoment, CompletedIn
<1>2. CASE sale[o].status = "COMPLETED"
  <2>1. PICK e \in history : e.of = o /\ e.to = "COMPLETED"
    BY <1>2 DEF ReportInv, CompletedRows
  <2>2. e.at \in Moments
    BY DEF ReportInv, ReportTypeOK, HistoryRow
  <2>3. \A f \in history : f.to = "COMPLETED" /\ f.of = o => f.at = e.at
    BY <2>1 DEF ReportInv, CompletedRows
  <2>4. <<VietnamDay(e.at), e.at>> \in Counted
    BY <1>1, <2>1, <2>2, DaysCover
  <2>5. \A d \in Days, h \in Moments : <<d, h>> \in Counted => <<d, h>> = <<VietnamDay(e.at), e.at>>
    BY <1>1, <2>3
  <2>6. Counted = {<<VietnamDay(e.at), e.at>>}
    BY <2>4, <2>5
  <2> QED
    BY <1>2, <2>6, FS_Singleton
<1>3. CASE sale[o].status # "COMPLETED"
  <2>1. \A e \in history : ~(e.to = "COMPLETED" /\ e.of = o)
    BY <1>3 DEF ReportInv, CompletedRows
  <2>2. \A d \in Days, h \in Moments : <<d, h>> \notin Counted
    BY <1>1, <2>1
  <2>3. Counted = {}
    BY <2>2
  <2> QED
    BY <1>3, <2>3, FS_EmptySet
<1> QED
  BY <1>2, <1>3

\* A preset and the range it is compared with meet at a midnight.
LEMMA ComparisonApart ==
    ASSUME ReportInv, NEW n \in Presets
    PROVE  /\ Completed(PresetRange(n), "GLOBAL", "ALL")
                  \cap Completed(Comparison(PresetRange(n)), "GLOBAL", "ALL") = {}
           /\ Comparison(PresetRange(n)).days = n
           /\ Comparison(PresetRange(n)).until = PresetRange(n).from
<1> DEFINE r == PresetRange(n)
           today == VietnamDay(hour)
<1>1. n \in Int /\ today \in Int
  BY ReportParameters, DayOfMoment DEF ReportInv, ReportTypeOK
<1> HIDE DEF today
<1>2. r.first \in Int /\ r.first = today - (n - 1) /\ r.days = n /\ r.from = Midnight(r.first)
  BY <1>1 DEF PresetRange, DayRange, today
<1>3. Comparison(r).days = n /\ Comparison(r).until = r.from /\ r.from \in Int
  BY <1>1, <1>2 DEF Comparison, DayRange, Midnight, VietnamOffset
<1>4. ASSUME NEW h \in Int, InRange(h, r) PROVE ~InRange(h, Comparison(r))
  BY <1>3, <1>4 DEF InRange
<1>5. \A e \in history : e.at \in Int
  BY ReportParameters DEF ReportInv, ReportTypeOK, HistoryRow
<1>6. \A c \in Completed(r, "GLOBAL", "ALL") : \E e \in history : c = <<e.of, e.at>>
  BY DEF Completed
<1>7. ASSUME NEW c \in Completed(r, "GLOBAL", "ALL") \cap Completed(Comparison(r), "GLOBAL", "ALL")
      PROVE  FALSE
  <2>1. PICK e \in history : c = <<e.of, e.at>>
    BY <1>6, <1>7
  <2>2. InRange(e.at, r) /\ InRange(e.at, Comparison(r))
    BY <1>7, <2>1, CompletedIn
  <2> QED
    BY <1>4, <1>5, <2>2
<1> QED
  BY <1>3, <1>7

\* A completed order is counted on one day of all, whatever happened around the
\* midnights of Vietnam, and a preset and the range it is compared with share no
\* order and leave no hour between them (completedCte, resolveAnalyticsDateRange).
THEOREM CountedOnceAlways == ReportSpec => []CountedOnce
<1>1. ReportInv => CountedOnce
  BY OneDay, ComparisonApart DEF CountedOnce
<1> QED
  BY <1>1, ReportInvariance, PTL

-----------------------------------------------------------------------------
(* The dashboard's count of today goes through the rows of the histories; the *)
(* report's through the orders.                                               *)

LEMMA TodaysOrders ==
    ASSUME ReportInv, NEW scope
    PROVE  EndedToday(scope, "COMPLETED") = Cardinality(Completed(Today, scope, "ALL"))
<1> DEFINE Rows == {e \in history : /\ e.to = "COMPLETED" /\ InRange(e.at, Today)
                                    /\ InScope(e.of, scope)}
           Orders == {e.of : e \in Rows}
           Pairs == {<<e.of, e.at>> : e \in Rows}
           order == [e \in Rows |-> e.of]
           pair == [e \in Rows |-> <<e.of, e.at>>]
<1>1. Completed(Today, scope, "ALL") = Pairs
  <2>1. \A e \in history : e.to = "COMPLETED" => sale[e.of].status = "COMPLETED"
    BY DEF ReportInv, CompletedRows
  <2>2. {e \in history : /\ e.to = "COMPLETED" /\ sale[e.of].status = "COMPLETED"
                         /\ InRange(e.at, Today) /\ InScope(e.of, scope) /\ PaidBy(e.of, "ALL")} = Rows
    BY <2>1 DEF PaidBy
  <2> QED
    BY <2>2 DEF Completed
<1>2. EndedToday(scope, "COMPLETED") = Cardinality(Orders)
  <2>1. {e \in history : e.to = "COMPLETED" /\ InRange(e.at, Today) /\ InScope(e.of, scope)} = Rows
    OBVIOUS
  <2> QED
    BY <2>1 DEF EndedToday
<1>3. IsFiniteSet(Rows)
  BY FS_Subset DEF ReportInv
<1>4. \A e, g \in Rows : e.of = g.of => e = g
  BY DEF ReportInv, CompletedRows
<1> HIDE DEF Rows
<1>5. order \in Bijection(Rows, Orders)
  BY <1>4 DEF Bijection, Injection, Surjection, IsInjective
<1>6. pair \in Bijection(Rows, Pairs)
  BY <1>4 DEF Bijection, Injection, Surjection, IsInjective
<1>7. ExistsBijection(Rows, Orders) /\ ExistsBijection(Rows, Pairs)
  BY <1>5, <1>6 DEF ExistsBijection
<1> HIDE DEF Orders, Pairs
<1>8. Cardinality(Orders) = Cardinality(Rows)
  BY <1>3, <1>7, FS_Bijection
<1>9. Cardinality(Pairs) = Cardinality(Rows)
  BY <1>3, <1>7, FS_Bijection
<1> QED
  BY <1>1, <1>2, <1>8, <1>9

\* Today's completed orders are as many on the dashboard, which only reads the
\* histories, as in the report, which also asks for the status of the order.
THEOREM TodayAgreesAlways == ReportSpec => []TodayAgrees
<1>1. ReportInv => TodayAgrees
  <2> SUFFICES ASSUME ReportInv, NEW scope \in {"GLOBAL"} \cup Outlets
               PROVE  EndedToday(scope, "COMPLETED") = Summary(Today, scope, "ALL").totals.orders
    BY DEF TodayAgrees
  <2>1. Summary(Today, scope, "ALL").totals = Totals(Completed(Today, scope, "ALL"))
    BY DEF Summary
  <2>2. Totals(Completed(Today, scope, "ALL")).orders = Cardinality(Completed(Today, scope, "ALL"))
    BY DEF Totals
  <2> QED
    BY <2>1, <2>2, TodaysOrders
<1> QED
  BY <1>1, ReportInvariance, PTL

-----------------------------------------------------------------------------
(* Figures.  A completed order is at one branch and paid by one method, so   *)
(* the days, branches and methods divide what is counted.                    *)

PlacedRows ==
    \A o \in Sales : sale[o].status # "NONE" =>
        sale[o].outlet \in Outlets /\ sale[o].method \in PayMethods

FiguresInv == ReportInv /\ PlacedRows

LEMMA PlacedStep ==
    ASSUME ReportInv, PlacedRows, [ReportNext]_reportVars
    PROVE  PlacedRows'
<1>1. sale \in [Sales -> SaleRow]
  BY DEF ReportInv, ReportTypeOK
<1>2. CASE UNCHANGED sale
  BY <1>2 DEF PlacedRows
<1>3. ASSUME NEW o \in Sales, PaySale(o) \/ RetrySale(o) \/ CompleteSale(o) \/ CancelSale(o) \/ FailSale(o)
      PROVE  PlacedRows'
  <2>1. PICK to : sale' = [sale EXCEPT ![o].status = to] /\ sale[o].status # "NONE"
    BY <1>3 DEF PaySale, RetrySale, CompleteSale, CancelSale, FailSale, Becomes
  <2>2. /\ sale'[o].outlet = sale[o].outlet /\ sale'[o].method = sale[o].method
        /\ \A p \in Sales \ {o} : sale'[p] = sale[p]
    BY <1>1, <2>1 DEF SaleRow
  <2> QED
    BY <2>1, <2>2 DEF PlacedRows
<1>4. ASSUME NEW o \in Sales, NEW b \in Outlets, NEW method \in PayMethods, NEW goods \in Subtotals,
             NEW fee \in ShippingFees, NEW n \in Copies, PlaceSale(o, b, method, goods, fee, n)
      PROVE  PlacedRows'
  BY <1>1, <1>4 DEF PlaceSale, PlacedRows
<1> QED
  BY <1>2, <1>3, <1>4 DEF ReportNext, LaterHour, reportVars

LEMMA FiguresInvariance == ReportSpec => []FiguresInv
<1>1. ReportInit => PlacedRows
  BY DEF ReportInit, NoSale, PlacedRows
<1> QED
  BY <1>1, PlacedStep, ReportInvariance, PTL DEF ReportSpec, FiguresInv

\* A row that some report counts.
Counts(c) ==
    \E e \in history : /\ c = <<e.of, e.at>> /\ e.to = "COMPLETED"
                       /\ sale[e.of].status = "COMPLETED"

LEMMA CountedIn ==
    ASSUME NEW r, NEW scope, NEW m, NEW c
    PROVE  c \in Completed(r, scope, m) <=>
               Counts(c) /\ InRange(c[2], r) /\ InScope(c[1], scope) /\ PaidBy(c[1], m)
BY DEF Completed, Counts

LEMMA CountedRow ==
    ASSUME FiguresInv, NEW c, Counts(c)
    PROVE  /\ c[1] \in Sales /\ c[2] \in Int
           /\ sale[c[1]].outlet \in Outlets /\ sale[c[1]].method \in PayMethods
<1>1. PICK e \in history : c = <<e.of, e.at>> /\ sale[e.of].status = "COMPLETED"
  BY DEF Counts
<1>2. e.of \in Sales /\ e.at \in Int
  BY ReportParameters DEF FiguresInv, ReportInv, ReportTypeOK, HistoryRow
<1> QED
  BY <1>1, <1>2 DEF FiguresInv, PlacedRows

LEMMA CompletedFinite ==
    ASSUME FiguresInv, NEW r, NEW scope, NEW m
    PROVE  IsFiniteSet(Completed(r, scope, m))
<1> DEFINE Rows == {e \in history :
                       /\ e.to = "COMPLETED" /\ sale[e.of].status = "COMPLETED"
                       /\ InRange(e.at, r) /\ InScope(e.of, scope) /\ PaidBy(e.of, m)}
           Pairs == {<<e.of, e.at>> : e \in Rows}
           pair == [e \in Rows |-> <<e.of, e.at>>]
<1>1. IsFiniteSet(Rows)
  BY FS_Subset DEF FiguresInv, ReportInv
<1>2. Completed(r, scope, m) = Pairs
  BY DEF Completed
<1> HIDE DEF Rows
<1>3. pair \in Surjection(Rows, Pairs)
  BY DEF Surjection
<1> HIDE DEF Pairs, pair
<1> QED
  BY <1>1, <1>2, <1>3, FS_Surjection

Figures == {"orders", "copies", "goods", "fees", "revenue"}

\* What a row adds to a figure.
Adds(row, f) ==
    IF f = "orders" THEN 1 ELSE
    IF f = "copies" THEN row.copies ELSE
    IF f = "goods" THEN row.goods ELSE
    IF f = "fees" THEN row.fee ELSE row.goods + row.fee

Added(S, f) == [c \in S |-> Adds(sale[c[1]], f)]

LEMMA AddsType ==
    ASSUME FiguresInv, NEW f \in Figures, NEW o \in Sales
    PROVE  Adds(sale[o], f) \in Int
<1>1. sale[o] \in SaleRow
  BY DEF FiguresInv, ReportInv, ReportTypeOK
<1>2. /\ sale[o].copies \in Copies \cup {0} /\ sale[o].goods \in Subtotals \cup {0}
      /\ sale[o].fee \in ShippingFees \cup {0}
  BY <1>1 DEF SaleRow
<1>3. Copies \subseteq Int /\ Subtotals \subseteq Int /\ ShippingFees \subseteq Int
  BY ReportParameters
<1>4. sale[o].copies \in Int /\ sale[o].goods \in Int /\ sale[o].fee \in Int
  <2>1. \A T \in SUBSET Int : \A x \in T \cup {0} : x \in Int
    OBVIOUS
  <2> QED
    BY <1>2, <1>3, <2>1, Zenon
<1> QED
  BY <1>4 DEF Adds

LEMMA FigureIs ==
    ASSUME NEW S, IsFiniteSet(S), NEW f \in Figures
    PROVE  Totals(S)[f] = SumFunctionOnSet(Added(S, f), S)
<1>1. CASE f = "orders"
  <2>1. \A c \in S : Added(S, f)[c] = 1
    BY <1>1 DEF Added, Adds
  <2>2. SumFunctionOnSet(Added(S, f), S) = Cardinality(S)
    BY <2>1, SumCounts
  <2> QED
    BY <1>1, <2>2 DEF Totals
<1>2. CASE f = "copies"
  BY <1>2 DEF Totals, SumOf, SumFunction, Added, Adds
<1>3. CASE f = "goods"
  BY <1>3 DEF Totals, SumOf, SumFunction, Added, Adds
<1>4. CASE f = "fees"
  BY <1>4 DEF Totals, SumOf, SumFunction, Added, Adds
<1>5. CASE f = "revenue"
  BY <1>5 DEF Totals, SumOf, SumFunction, Added, Adds
<1> QED
  BY <1>1, <1>2, <1>3, <1>4, <1>5 DEF Figures

\* The figures of the parts add up to the figure.
LEMMA FigureOfParts ==
    ASSUME FiguresInv, NEW S, IsFiniteSet(S), \A c \in S : c[1] \in Sales,
           NEW D, IsFiniteSet(D), NEW parts, Partition(parts, D, S),
           NEW f \in Figures, NEW g, \A d \in D : g[d] = Totals(parts[d])[f]
    PROVE  Totals(S)[f] = SumFunctionOnSet(g, D)
<1>1. \A c \in S : Added(S, f)[c] \in Int
  BY AddsType DEF Added
<1>2. ASSUME NEW d \in D PROVE g[d] = SumFunctionOnSet(Added(S, f), parts[d])
  <2>1. PICK T : T = parts[d]
    OBVIOUS
  <2>2. T \subseteq S /\ IsFiniteSet(T)
    BY <2>1, FS_Subset DEF Partition
  <2>3. g[d] = SumFunctionOnSet(Added(T, f), T)
    BY <2>1, <2>2, FigureIs
  <2>4. \A c \in T : Added(T, f)[c] = Added(S, f)[c]
    BY <2>2 DEF Added
  <2>5. SumFunctionOnSet(Added(T, f), T) = SumFunctionOnSet(Added(S, f), T)
    BY <2>2, <2>4, SumEqual
  <2> QED
    BY <2>1, <2>3, <2>5
<1>3. SumFunctionOnSet(Added(S, f), S) = SumFunctionOnSet(g, D)
  BY <1>1, <1>2, SumOfParts
<1> QED
  BY <1>3, FigureIs

LEMMA RangeIs ==
    ASSUME NEW r \in Ranges
    PROVE  /\ r.first \in Int /\ r.last \in Int /\ IsFiniteSet(r.first..r.last)
           /\ \A h \in Int : InRange(h, r) <=> VietnamDay(h) \in r.first..r.last
<1>1. PICK d \in Days, e \in Days : r = DayRange(d, e)
  BY DEF Ranges
<1>2. d \in Int /\ e \in Int
  BY DEF Days
<1>3. r.first = d /\ r.last = e /\ r.from = 24 * d - 7 /\ r.until = 24 * e - 7 + 24
  BY <1>1 DEF DayRange, Midnight, VietnamOffset
<1>4. \A h \in Int : InRange(h, r) <=> VietnamDay(h) \in d..e
  BY <1>2, <1>3 DEF InRange, VietnamDay, VietnamOffset
<1> QED
  BY <1>2, <1>3, <1>4, FS_Interval

ByDay(r, m) == [d \in r.first..r.last |-> Completed(DayRange(d, d), "GLOBAL", m)]
ByOutlet(r, m) == [b \in Outlets |-> Completed(r, b, m)]
ByRow(r, m) == [b \in OutletRows(r, m) |->
                   {c \in Completed(r, "GLOBAL", m) : sale[c[1]].outlet = b}]
ByMethod(r) == [n \in PayMethods |-> Completed(r, "GLOBAL", n)]

LEMMA DaysDivide ==
    ASSUME FiguresInv, NEW r \in Ranges, NEW m
    PROVE  Partition(ByDay(r, m), r.first..r.last, Completed(r, "GLOBAL", m))
<1> DEFINE D == r.first..r.last
           S == Completed(r, "GLOBAL", m)
<1>1. ASSUME NEW d \in D, NEW c
      PROVE  c \in ByDay(r, m)[d] <=> c \in S /\ d = VietnamDay(c[2])
  <2>1. d \in Int /\ ByDay(r, m)[d] = Completed(DayRange(d, d), "GLOBAL", m)
    BY RangeIs DEF ByDay
  <2>2. CASE ~Counts(c)
    BY <2>1, <2>2, CountedIn
  <2>3. CASE Counts(c)
    <3>1. c[2] \in Int
      BY <2>3, CountedRow
    <3>2. InRange(c[2], DayRange(d, d)) <=> d = VietnamDay(c[2])
      BY <2>1, <3>1, DayOfMoment
    <3>3. InRange(c[2], r) <=> VietnamDay(c[2]) \in D
      BY <3>1, RangeIs
    <3> QED
      BY <2>1, <3>2, <3>3, CountedIn
  <2> QED
    BY <2>2, <2>3
<1>2. \A c \in S : VietnamDay(c[2]) \in D
  BY CountedIn, CountedRow, RangeIs
<1> HIDE DEF D, S
<1>3. Partition(ByDay(r, m), D, S)
  BY <1>1, <1>2 DEF Partition
<1> QED
  BY <1>3 DEF D, S

LEMMA OutletsDivide ==
    ASSUME FiguresInv, NEW r, NEW m
    PROVE  Partition(ByOutlet(r, m), Outlets, Completed(r, "GLOBAL", m))
<1>1. ASSUME NEW b \in Outlets, NEW c
      PROVE  c \in ByOutlet(r, m)[b] <=> c \in Completed(r, "GLOBAL", m) /\ sale[c[1]].outlet = b
  BY <1>1, CountedIn, ReportParameters DEF ByOutlet, InScope
<1>2. \A c \in Completed(r, "GLOBAL", m) : sale[c[1]].outlet \in Outlets
  BY CountedIn, CountedRow
<1> QED
  BY <1>1, <1>2 DEF Partition

LEMMA RowsDivide ==
    ASSUME NEW r, NEW m
    PROVE  Partition(ByRow(r, m), OutletRows(r, m), Completed(r, "GLOBAL", m))
BY DEF Partition, ByRow, OutletRows

LEMMA MethodsDivide ==
    ASSUME FiguresInv, NEW r
    PROVE  Partition(ByMethod(r), PayMethods, Completed(r, "GLOBAL", "ALL"))
<1>1. ASSUME NEW n \in PayMethods, NEW c
      PROVE  c \in ByMethod(r)[n] <=> c \in Completed(r, "GLOBAL", "ALL") /\ sale[c[1]].method = n
  <2>1. n # "ALL"
    BY DEF PayMethods
  <2> QED
    BY <1>1, <2>1, CountedIn DEF ByMethod, PaidBy
<1>2. \A c \in Completed(r, "GLOBAL", "ALL") : sale[c[1]].method \in PayMethods
  BY CountedIn, CountedRow
<1> QED
  BY <1>1, <1>2 DEF Partition
----------------------------------------------------------------------
LEMMA RowsFinite ==
    ASSUME FiguresInv, NEW r, NEW m
    PROVE  OutletRows(r, m) \subseteq Outlets /\ IsFiniteSet(OutletRows(r, m))
<1>1. \A c \in Completed(r, "GLOBAL", m) : sale[c[1]].outlet \in Outlets
  BY CountedIn, CountedRow
<1>2. OutletRows(r, m) \subseteq Outlets
  BY <1>1 DEF OutletRows
<1> QED
  BY <1>2, ReportParameters, FS_Subset

LEMMA SummaryTotals ==
    \A r, scope, m : Summary(r, scope, m).totals = Totals(Completed(r, scope, m))
BY DEF Summary

LEMMA OrdersTotal == \A S : Totals(S).orders = Cardinality(S)
BY DEF Totals

LEMMA FigureAddsUp ==
    ASSUME FiguresInv, NEW r \in Ranges, NEW m, NEW f \in Figures
    PROVE  /\ Totals(Completed(r, "GLOBAL", m))[f]
                = SumFunction([d \in r.first..r.last |->
                                 Summary(DayRange(d, d), "GLOBAL", m).totals[f]])
           /\ Totals(Completed(r, "GLOBAL", m))[f]
                = SumFunction([b \in Outlets |-> Summary(r, b, m).totals[f]])
           /\ Totals(Completed(r, "GLOBAL", m))[f]
                = SumFunction([b \in OutletRows(r, m) |-> OutletTotals(r, m, b)[f]])
           /\ Totals(Completed(r, "GLOBAL", "ALL"))[f]
                = SumFunction([n \in PayMethods |-> Summary(r, "GLOBAL", n).totals[f]])
<1> DEFINE S == Completed(r, "GLOBAL", m)
           All == Completed(r, "GLOBAL", "ALL")
           days == [d \in r.first..r.last |-> Summary(DayRange(d, d), "GLOBAL", m).totals[f]]
           outlets == [b \in Outlets |-> Summary(r, b, m).totals[f]]
           rows == [b \in OutletRows(r, m) |-> OutletTotals(r, m, b)[f]]
           methods == [n \in PayMethods |-> Summary(r, "GLOBAL", n).totals[f]]
<1>1. /\ IsFiniteSet(S) /\ \A c \in S : c[1] \in Sales
      /\ IsFiniteSet(All) /\ \A c \in All : c[1] \in Sales
  BY CompletedFinite, CountedIn, CountedRow
<1>2. /\ IsFiniteSet(r.first..r.last) /\ IsFiniteSet(Outlets)
      /\ IsFiniteSet(OutletRows(r, m)) /\ IsFiniteSet(PayMethods)
  <2>1. IsFiniteSet({"COD"}) /\ IsFiniteSet({"COD"} \cup {"VNPAY"})
    BY FS_Singleton, FS_AddElement
  <2>2. PayMethods = {"COD"} \cup {"VNPAY"}
    BY DEF PayMethods
  <2> QED
    BY <2>1, <2>2, RangeIs, RowsFinite, ReportParameters
<1>3. /\ Partition(ByDay(r, m), r.first..r.last, S)
      /\ Partition(ByOutlet(r, m), Outlets, S)
      /\ Partition(ByRow(r, m), OutletRows(r, m), S)
      /\ Partition(ByMethod(r), PayMethods, All)
  BY DaysDivide, OutletsDivide, RowsDivide, MethodsDivide
<1>4. /\ \A d \in r.first..r.last : days[d] = Totals(ByDay(r, m)[d])[f]
      /\ \A b \in Outlets : outlets[b] = Totals(ByOutlet(r, m)[b])[f]
      /\ \A b \in OutletRows(r, m) : rows[b] = Totals(ByRow(r, m)[b])[f]
      /\ \A n \in PayMethods : methods[n] = Totals(ByMethod(r)[n])[f]
  BY SummaryTotals DEF ByDay, ByOutlet, ByRow, ByMethod, OutletTotals
<1>5. /\ DOMAIN days = r.first..r.last /\ DOMAIN outlets = Outlets
      /\ DOMAIN rows = OutletRows(r, m) /\ DOMAIN methods = PayMethods
  OBVIOUS
<1> HIDE DEF S, All, days, outlets, rows, methods
<1>6. Totals(S)[f] = SumFunctionOnSet(days, r.first..r.last)
  <2>1. PICK D : D = r.first..r.last
    OBVIOUS
  <2>2. IsFiniteSet(D) /\ Partition(ByDay(r, m), D, S)
    BY <1>2, <1>3, <2>1
  <2>3. \A d \in D : days[d] = Totals(ByDay(r, m)[d])[f]
    BY <1>4, <2>1
  <2>4. Totals(S)[f] = SumFunctionOnSet(days, D)
    BY <1>1, <2>2, <2>3, FigureOfParts
  <2> QED
    BY <2>1, <2>4
<1>7. Totals(S)[f] = SumFunctionOnSet(outlets, Outlets)
  BY <1>1, <1>2, <1>3, <1>4, FigureOfParts
<1>8. Totals(S)[f] = SumFunctionOnSet(rows, OutletRows(r, m))
  BY <1>1, <1>2, <1>3, <1>4, FigureOfParts
<1>9. Totals(All)[f] = SumFunctionOnSet(methods, PayMethods)
  BY <1>1, <1>2, <1>3, <1>4, FigureOfParts
<1>10. /\ Totals(S)[f] = SumFunction(days) /\ Totals(S)[f] = SumFunction(outlets)
       /\ Totals(S)[f] = SumFunction(rows) /\ Totals(All)[f] = SumFunction(methods)
  BY <1>5, <1>6, <1>7, <1>8, <1>9 DEF SumFunction
<1> QED
  BY <1>10 DEF S, All, days, outlets, rows, methods

\* The order of the rows has a first one.
LEMMA FirstRow ==
    ASSUME NEW Rows, IsFiniteSet(Rows), Rows # {}, NEW v, \A b \in Rows : v[b] \in Int,
           NEW k, \A b \in Rows : k[b] \in Int,
           \A b, c \in Rows : k[b] = k[c] => b = c
    PROVE  \E b \in Rows : \A c \in Rows \ {b} : v[b] > v[c] \/ (v[b] = v[c] /\ k[b] < k[c])
<1> DEFINE P == {s \in SUBSET Rows : s # {} =>
                    \E b \in s : \A c \in s \ {b} : v[b] > v[c] \/ (v[b] = v[c] /\ k[b] < k[c])}
<1>1. {} \in P
  OBVIOUS
<1>2. ASSUME NEW s \in SUBSET Rows, s # {}, \A x \in s : s \ {x} \in P
      PROVE  s \in P
  <2>1. PICK x \in s : TRUE
    BY <1>2
  <2>2. CASE s = {x}
    BY <2>2
  <2>3. CASE s # {x}
    <3>1. PICK b \in s \ {x} : \A c \in (s \ {x}) \ {b} : v[b] > v[c] \/ (v[b] = v[c] /\ k[b] < k[c])
      BY <1>2, <2>1, <2>3
    <3>2. /\ v[b] \in Int /\ k[b] \in Int /\ v[x] \in Int /\ k[x] \in Int /\ k[b] # k[x]
          /\ \A c \in s : v[c] \in Int /\ k[c] \in Int
      BY <3>1
    <3>3. CASE v[b] > v[x] \/ (v[b] = v[x] /\ k[b] < k[x])
      <4>1. \A c \in s \ {b} : v[b] > v[c] \/ (v[b] = v[c] /\ k[b] < k[c])
        BY <3>1, <3>3
      <4> QED
        BY <4>1
    <3>4. CASE ~(v[b] > v[x] \/ (v[b] = v[x] /\ k[b] < k[x]))
      <4>1. v[x] > v[b] \/ (v[x] = v[b] /\ k[x] < k[b])
        BY <3>2, <3>4
      <4>2. ASSUME NEW c \in s \ {x} PROVE v[x] > v[c] \/ (v[x] = v[c] /\ k[x] < k[c])
        <5>1. CASE c = b
          BY <4>1, <5>1
        <5>2. CASE c # b
          <6>1. v[b] > v[c] \/ (v[b] = v[c] /\ k[b] < k[c])
            BY <3>1, <5>2
          <6>2. v[c] \in Int /\ k[c] \in Int
            BY <3>2
          <6> QED
            BY <3>2, <4>1, <6>1, <6>2
        <5> QED
          BY <5>1, <5>2
      <4> QED
        BY <4>2
    <3> QED
      BY <3>3, <3>4
  <2> QED
    BY <2>2, <2>3
<1>3. \A s \in SUBSET Rows : s \in P
  <2> HIDE DEF P
  <2> QED
    BY <1>1, <1>2, SubsetInduction
<1> QED
  BY <1>3

LEMMA TotalsType ==
    ASSUME FiguresInv, NEW r, NEW m, NEW b
    PROVE  OutletTotals(r, m, b).revenue \in Int
<1> DEFINE S == {c \in Completed(r, "GLOBAL", m) : sale[c[1]].outlet = b}
<1>1. IsFiniteSet(S)
  BY CompletedFinite, FS_Subset
<1>2. \A c \in S : Added(S, "revenue")[c] \in Int
  <2>1. \A c \in S : c[1] \in Sales
    BY CountedIn, CountedRow
  <2>2. "revenue" \in Figures
    BY DEF Figures
  <2> HIDE DEF S
  <2> QED
    BY <2>1, <2>2, AddsType DEF Added
<1>3. OutletTotals(r, m, b).revenue = Totals(S).revenue
  BY DEF OutletTotals
<1> HIDE DEF S
<1>4. Totals(S).revenue = SumFunctionOnSet(Added(S, "revenue"), S)
  BY <1>1, FigureIs DEF Figures
<1> QED
  BY <1>1, <1>2, <1>3, <1>4, SumType

LEMMA LeaderLeads ==
    ASSUME FiguresInv, NEW r, NEW m, NEW b \in Outlets, Summary(r, b, m).totals.orders > 0
    PROVE  OutletTotals(r, m, LeadingBranch(r, m)).revenue >= Summary(r, b, m).totals.revenue
<1> DEFINE rows == OutletRows(r, m)
           v == [c \in rows |-> OutletTotals(r, m, c).revenue]
<1>1. ByOutlet(r, m)[b] = Completed(r, b, m)
      /\ Completed(r, b, m) = {c \in Completed(r, "GLOBAL", m) : sale[c[1]].outlet = b}
  <2>1. \A c : c \in Completed(r, b, m) <=> c \in Completed(r, "GLOBAL", m) /\ sale[c[1]].outlet = b
    BY CountedIn, ReportParameters DEF InScope
  <2> QED
    BY <2>1 DEF ByOutlet
<1>2. Summary(r, b, m).totals = OutletTotals(r, m, b)
  <2>1. Summary(r, b, m).totals = Totals(Completed(r, b, m))
    BY SummaryTotals, Zenon
  <2> QED
    BY <1>1, <2>1 DEF OutletTotals
<1>3. b \in rows
  <2>1. Completed(r, b, m) # {}
    <3>1. Summary(r, b, m).totals = Totals(Completed(r, b, m))
      BY SummaryTotals, Zenon
    <3>2. Summary(r, b, m).totals.orders = Cardinality(Completed(r, b, m))
      BY <3>1, OrdersTotal, Zenon
    <3> QED
      BY <3>2, FS_EmptySet
  <2> QED
    BY <1>1, <2>1 DEF OutletRows
<1>4. /\ IsFiniteSet(rows) /\ rows \subseteq Outlets
      /\ \A c \in rows : v[c] \in Int
      /\ \A c \in rows : OutletRank[c] \in Int
      /\ \A c, d \in rows : OutletRank[c] = OutletRank[d] => c = d
  BY RowsFinite, TotalsType, ReportParameters
<1>5. \A c \in rows, d \in rows : AheadOf(r, m, c, d) <=>
          v[c] > v[d] \/ (v[c] = v[d] /\ OutletRank[c] < OutletRank[d])
  BY DEF AheadOf
<1>6. LeadingBranch(r, m) = CHOOSE c \in rows : \A d \in rows \ {c} : AheadOf(r, m, c, d)
  BY <1>3 DEF LeadingBranch
<1>7. OutletTotals(r, m, b).revenue = v[b]
  BY <1>3
<1>8. \A c \in rows : OutletTotals(r, m, c).revenue = v[c]
  OBVIOUS
<1> HIDE DEF rows, v
<1>9. \E c \in rows : \A d \in rows \ {c} :
          v[c] > v[d] \/ (v[c] = v[d] /\ OutletRank[c] < OutletRank[d])
  BY <1>3, <1>4, FirstRow
<1>10. PICK first \in rows : /\ first = LeadingBranch(r, m)
                             /\ \A d \in rows \ {first} : AheadOf(r, m, first, d)
  BY <1>5, <1>6, <1>9
<1>11. v[first] >= v[b]
  BY <1>3, <1>4, <1>5, <1>10
<1> QED
  BY <1>2, <1>7, <1>8, <1>10, <1>11

LEMMA PartsAlwaysAddUp == FiguresInv => PartsAddUp
<1> SUFFICES ASSUME FiguresInv, NEW r \in Ranges, NEW m \in PayMethods \cup {"ALL"}
             PROVE  LET whole == Summary(r, "GLOBAL", m).totals IN
        /\ \A f \in DOMAIN whole :
               /\ whole[f] = SumFunction([d \in r.first..r.last |->
                                             Summary(DayRange(d, d), "GLOBAL", m).totals[f]])
               /\ whole[f] = SumFunction([b \in Outlets |-> Summary(r, b, m).totals[f]])
               /\ whole[f] = SumFunction([b \in OutletRows(r, m) |-> OutletTotals(r, m, b)[f]])
               /\ m = "ALL" =>
                      whole[f] = SumFunction([n \in PayMethods |-> Summary(r, "GLOBAL", n).totals[f]])
        /\ \A b \in Outlets :
               Summary(r, b, m).totals.orders > 0 =>
                   OutletTotals(r, m, LeadingBranch(r, m)).revenue >= Summary(r, b, m).totals.revenue
  BY DEF PartsAddUp
<1>1. Summary(r, "GLOBAL", m).totals = Totals(Completed(r, "GLOBAL", m))
  BY SummaryTotals
<1>2. DOMAIN Totals(Completed(r, "GLOBAL", m)) = Figures
  BY DEF Totals, Figures
<1>3. ASSUME NEW b \in Outlets, Summary(r, b, m).totals.orders > 0
      PROVE  OutletTotals(r, m, LeadingBranch(r, m)).revenue >= Summary(r, b, m).totals.revenue
  BY <1>3, LeaderLeads
<1> QED
  BY <1>1, <1>2, <1>3, FigureAddsUp

-----------------------------------------------------------------------------
(* The dashboard. *)

LEMMA DashboardAlwaysAgrees == FiguresInv => DashboardAgrees
<1> SUFFICES ASSUME FiguresInv, NEW scope \in {"GLOBAL"} \cup Outlets, NEW r \in Ranges
             PROVE  /\ Metrics(r, scope) = Summary(r, scope, "ALL").totals
                    /\ TotalOrders(r, scope)
                          = SumFunction([s \in SaleStatuses |-> StatusCount(r, scope, s)])
                    /\ TotalOrders(r, scope)
                          = SumFunction([m \in PayMethods |-> MethodCount(r, scope, m)])
                    /\ \A s \in LastWeeks(r) :
                           \E b \in Trend(r, scope, "ALL", "WEEK") :
                               b.from = s /\ b.totals.revenue = RevenueAt(r, scope, "WEEK", s)
  BY DEF DashboardAgrees
<1>1. Metrics(r, scope) = Summary(r, scope, "ALL").totals
  BY SummaryTotals DEF Metrics
<1> DEFINE S == Placed(r, scope)
           statuses == [s \in SaleStatuses |-> {o \in S : sale[o].status = s}]
           methods == [m \in PayMethods |-> {o \in S : sale[o].method = m}]
           counts == [s \in SaleStatuses |-> StatusCount(r, scope, s)]
           sums == [m \in PayMethods |-> MethodCount(r, scope, m)]
<1>2. IsFiniteSet(S) /\ S \subseteq Sales
  BY ReportParameters, FS_Subset DEF Placed
<1>3. \A o \in S : sale[o].status \in SaleStatuses /\ sale[o].method \in PayMethods
  BY DEF Placed, FiguresInv, PlacedRows, ReportInv, ReportTypeOK, SaleRow
<1>4. IsFiniteSet(SaleStatuses) /\ IsFiniteSet(PayMethods)
  <2>1. /\ SaleStatuses = {"NONE"} \cup {"PENDING_PAYMENT"} \cup {"PAYMENT_FAILED"} \cup {"PENDING"}
                              \cup {"COMPLETED"} \cup {"CANCELLED"}
        /\ PayMethods = {"COD"} \cup {"VNPAY"}
    BY DEF SaleStatuses, PayMethods
  <2>2. \A x : IsFiniteSet({x})
    BY FS_Singleton
  <2> QED
    BY <2>1, <2>2, FS_Union
<1>5. Partition(statuses, SaleStatuses, S) /\ Partition(methods, PayMethods, S)
  BY <1>3 DEF Partition
<1>6. /\ \A s \in SaleStatuses : counts[s] = Cardinality(statuses[s])
      /\ \A m \in PayMethods : sums[m] = Cardinality(methods[m])
  BY DEF StatusCount, MethodCount
<1>7. DOMAIN counts = SaleStatuses /\ DOMAIN sums = PayMethods
  OBVIOUS
<1>8. TotalOrders(r, scope) = Cardinality(S)
  BY DEF TotalOrders
<1>9. TotalOrders(r, scope) = SumFunction(counts) /\ TotalOrders(r, scope) = SumFunction(sums)
  <2> HIDE DEF S, statuses, methods, counts, sums
  <2>1. Cardinality(S) = SumFunctionOnSet(counts, SaleStatuses)
    BY <1>2, <1>4, <1>5, <1>6, CountOfParts
  <2>2. Cardinality(S) = SumFunctionOnSet(sums, PayMethods)
    BY <1>2, <1>4, <1>5, <1>6, CountOfParts
  <2> QED
    BY <1>7, <1>8, <2>1, <2>2 DEF SumFunction
<1>10. ASSUME NEW s \in LastWeeks(r)
       PROVE  \E b \in Trend(r, scope, "ALL", "WEEK") :
                  b.from = s /\ b.totals.revenue = RevenueAt(r, scope, "WEEK", s)
  <2>1. s \in Series(r, "WEEK")
    BY DEF LastWeeks
  <2>2. Bucket(r, scope, "ALL", "WEEK", s) \in Trend(r, scope, "ALL", "WEEK")
    BY <2>1 DEF Trend
  <2>3. /\ Bucket(r, scope, "ALL", "WEEK", s).from = s
        /\ Bucket(r, scope, "ALL", "WEEK", s).totals.revenue = RevenueAt(r, scope, "WEEK", s)
    BY DEF Bucket, RevenueAt
  <2> QED
    BY <2>2, <2>3
<1> QED
  BY <1>1, <1>9, <1>10

\* The figures of the back office add up: days, branches, rows and methods to the
\* summary, for every figure of it, whatever the range; placed orders by status and
\* by method to all of them; the leading branch has not less than any other
\* (RevenueReportsRepository, DashboardRepository).
THEOREM ReportsAlwaysAddUp == ReportSpec => []ReportsAddUp
<1>1. FiguresInv => PartsAddUp /\ DashboardAgrees
  BY PartsAlwaysAddUp, DashboardAlwaysAgrees
<1> QED
  BY <1>1, FiguresInvariance, CountedOnceAlways, TodayAgreesAlways, PTL DEF ReportsAddUp

-----------------------------------------------------------------------------
(* The sides of MCStaff.  Each behaves as its own specification says, so    *)
(* what is proved of it holds of the composition.                           *)

\* A step of the composition is a step or a stutter of every side.
LEMMA StaffStep ==
    [StaffNext]_<<side, vars, requestVars, registerVars, reportVars>> =>
        /\ [Next]_vars /\ [RequestNext]_requestVars /\ [RegistersNext]_registerVars
        /\ [ReportNext]_reportVars
BY DEF StaffNext

\* The composition hides no operation of a part and adds none.
THEOREM StaffSidesImplemented ==
    StaffSpec => Spec /\ RequestSpec /\ RegistersSpec /\ ReportSpec
<1>1. StaffInit => Init /\ RequestInit /\ RegistersInit /\ ReportInit
  BY DEF StaffInit
<1> QED
  BY <1>1, StaffStep, PTL DEF StaffSpec, Spec, RequestSpec, RegistersSpec, ReportSpec

\* Accounts, assignments, roles, seats, requests, registers and orders keep
\* their types, whoever works on them.
THEOREM StaffTypeCorrect == StaffSpec => []StaffTypeOK
<1>1. TypeOK /\ RequestTypeOK /\ RegistersTypeOK /\ ReportTypeOK => StaffTypeOK
  BY DEF StaffTypeOK
<1> QED
  BY <1>1, StaffSidesImplemented, TypeCorrect, RequestTypeCorrect, RegistersTypeCorrect,
     ReportTypeCorrect, PTL

\* Products and receipts never refer to a row of a register that is gone or that
\* means something else by now.
THEOREM ReferencesResolveAlways == StaffSpec => []ReferencesResolve
<1>1. RegistersResolve => ReferencesResolve
  BY DEF ReferencesResolve
<1> QED
  BY <1>1, StaffSidesImplemented, RegistersAlwaysResolve, PTL

\* What is proved of assignments, permissions, requests and days holds in every
\* behaviour of the composition too.
THEOREM StaffCorrect ==
    StaffSpec => /\ [](/\ PrimaryIsUnique /\ EnabledIsPlaced /\ DangerousIsSuperAdminOnly
                       /\ OffersMatchPolicies /\ CountedOnce /\ TodayAgrees)
                 /\ RequestsStayWithinCaller
BY StaffSidesImplemented, PrimaryStaysUnique, EnabledStaysPlaced, DangerousStaysWithSuperAdmin,
   OffersStayMatched, RequestsStayWithin, CountedOnceAlways, TodayAgreesAlways, PTL

\* Reports and dashboard add up in the composition.
THEOREM FiguresAlwaysAddUp == StaffSpec => []FiguresAddUp
<1>1. ReportsAddUp => FiguresAddUp
  BY DEF FiguresAddUp
<1> QED
  BY <1>1, StaffSidesImplemented, ReportsAlwaysAddUp, PTL
=============================================================================
