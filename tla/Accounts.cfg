\* One account with two sessions and two requests at once; four addresses; two
\* logins that guess; two buyers, orders, books and reviews; one request to any route.
SPECIFICATION AccountsSpec
CONSTANTS
    NoUser = NoUser
    NoSession = NoSession
    Users = {u1}
    Sessions = {s1, s2}
    Requests = {r1, r2}
    MaxSecond = 1
    MaxLinks = 2
    MaxEras = 2
    Attempters = {s1, s2}
    MaxFailures <- Maxima
    MaxLost = 1
    AddressIds = {d1, d2, d3, d4}
    AddressLimit = 3
    Buyers = {s1, s2}
    Nobody = NoUser
    Purchases = {r1, r2}
    Books = {b1, b2}
    ReviewIds = {q1, q2}
    NoReview = NoReview
    Stars = {1, 5}
    MaxRequests = 3
    Branches = {b1, b2}
    PostRoles = {"BRANCH_ADMIN", "CASHIER", "INVENTORY"}
    NoRole = NoRole
    MaxMoves = 2
SYMMETRY Symmetry
INVARIANTS
    AccountsTypeOK
    NoSessionOutlivesRevocation
    OnlyLastLinkWorks
    PasswordsAccountedFor
    GuessesAreBounded
    AccountPagesAgree
    RequestsDecided
PROPERTIES
    SpentTokenBuysNothing
    RevokedSessionIsDead
    DisabledAccountIsFrozen
CHECK_DEADLOCK FALSE
