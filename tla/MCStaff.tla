-------------------------------- MODULE MCStaff --------------------------------
(***************************************************************************)
(* One run for the back office: who works where and may do what, the       *)
(* registers that products are described with, and the figures.  They      *)
(* share no table, so `side` picks at the start whose operations a         *)
(* behavior shows and the other tables stay as they are.                   *)
(***************************************************************************)
EXTENDS StaffAssignments, StaffRequests, Registers, OrderReports, TLC

VARIABLE side

Sides == {"ASSIGNMENTS", "REQUESTS", "REGISTERS", "REPORTS"}

StaffInit ==
    /\ side \in Sides
    /\ Init /\ RequestInit /\ RegistersInit /\ ReportInit
    /\ side # "REGISTERS" => kind = "AUTHOR"

StaffNext ==
    /\ side' = side
    /\ \/ side = "ASSIGNMENTS" /\ UNCHANGED <<requestVars, registerVars, reportVars>> /\ Next
       \/ side = "REQUESTS" /\ UNCHANGED <<vars, registerVars, reportVars>> /\ RequestNext
       \/ side = "REGISTERS" /\ UNCHANGED <<vars, requestVars, reportVars>> /\ RegistersNext
       \/ side = "REPORTS" /\ UNCHANGED <<vars, requestVars, registerVars>> /\ ReportNext

StaffSpec == StaffInit /\ [][StaffNext]_<<side, vars, requestVars, registerVars, reportVars>>

\* Every side keeps its types.
StaffTypeOK ==
    /\ TypeOK /\ RequestTypeOK
    /\ side = "REGISTERS" => RegistersTypeOK
    /\ side = "REPORTS" => ReportTypeOK

\* Products and receipts refer to rows that are there and mean what they meant
\* when the values were stored, however the registers are renamed and retyped.
ReferencesResolve == side = "REGISTERS" => RegistersResolve

\* The reports and the dashboard of the back office add up.
FiguresAddUp == side = "REPORTS" => ReportsAddUp

-----------------------------------------------------------------------------
(* Values of the constants. *)

SeedCodes ==
    "p1" :> "staff.create" @@ "p2" :> "staff.assign_role" @@ "p3" :> "staff.assign_permission"
    @@ "p4" :> "orders.read" @@ "p5" :> "branches.assign" @@ "p6" :> NoCode

\* Two labels that read alike, and a third with the same slug.
LabelFold == [nam |-> "nam", NAM |-> "nam", nan |-> "nan"]
LabelSlug == [n \in DOMAIN LabelFold |-> "nam"]

OutletOrder == [b1 |-> 1, b2 |-> 2]

\* Weeks of two days and months of three.
FirstDays == [WEEK |-> {0, 2, 4, 6}, MONTH |-> {0, 3, 6}]

Symmetry == Permutations(Branches) \cup Permutations(Colleagues)
=============================================================================
