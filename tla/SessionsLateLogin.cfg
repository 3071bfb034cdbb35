\* A login that a password reset overtakes.
SPECIFICATION Spec
CONSTANTS
    NoUser = NoUser
    NoSession = NoSession
    Users = {u1}
    Sessions = {s1}
    Requests = {r1, r2}
    MaxSecond = 0
    MaxLinks = 1
    MaxEras = 1
PROPERTY
    LoginsUseCurrentPassword
CHECK_DEADLOCK FALSE
