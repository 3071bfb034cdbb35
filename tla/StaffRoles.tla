------------------------------ MODULE StaffRoles ------------------------------
(***************************************************************************)
(* What StaffAssignments and StaffRequests share: the accounts of a branch *)
(* and the roles an assignment can carry (system-roles.constants.ts).      *)
(***************************************************************************)
EXTENDS Naturals, FiniteSets

CONSTANT
    CustomRoles     \* roles that a Super Admin has created

StaffRole == "STAFF"
BranchAdmin == "BRANCH_ADMIN"

ASSUME RolesAssumption == {StaffRole, BranchAdmin} \cap CustomRoles = {}
=============================================================================
