\* One account, two branches, one custom role; two colleagues at a branch.
SPECIFICATION StaffSpec
CONSTANTS
    Users = {u1}
    Branches = {b1, b2}
    CustomRoles = {"SALES"}
    NoBranch = NoBranch
    Colleagues = {c1, c2}
    PermIds = {"p1", "p2", "p3", "p4", "p5", "p6"}
    Codes = {"staff.create", "staff.assign_role", "staff.assign_permission",
             "orders.read", "branches.assign", "staff.assign_branch", "reports.read"}
    Dangerous = {"branches.assign", "staff.assign_branch"}
    Delegatable = {"orders.read"}
    AdminPerms = {"p1", "p2", "p3", "p4"}
    SeedCode <- SeedCodes
    NoCode = NoCode
    MaxLevel = 2
    MaxChanges = 1
    Entries = {c1, c2}
    Articles = {b1, b2}
    Deliveries = {d1}
    NoEntry = NoEntry
    Omitted = Omitted
    Labels = {"nam", "NAM", "nan"}
    Folded <- LabelFold
    SlugBy <- LabelSlug
    AttributeCodes = {"LANG", "SIZE"}
    AttributeTypes = {"TEXT", "NUMBER"}
    Releases = {1}
    Topics = {k1}
    Forms = {"WORD", "NUMERAL"}
    MaxFields = 2
    MaxWrites = 4
    Sales = {c1, c2}
    Outlets = {"b1", "b2"}
    OutletRank <- OutletOrder
    Unsold = Unsold
    Subtotals = {100}
    ShippingFees = {20}
    Copies = {2}
    Moments = {20, 41}
    SessionOffset = 0
    PeriodStarts <- FirstDays
    Presets = {1, 2}
    MaxRangeDays = 2
    RecentWeeks = 1
SYMMETRY Symmetry
INVARIANTS
    StaffTypeOK
    PrimaryIsUnique
    EnabledIsPlaced
    DangerousIsSuperAdminOnly
    OffersMatchPolicies
    ReferencesResolve
    FiguresAddUp
PROPERTY
    RequestsStayWithinCaller
CHECK_DEADLOCK FALSE
