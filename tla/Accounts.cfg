\* The accounts, sessions and memberships of a small organization.
SPECIFICATION UsersSpec
CONSTANTS
    Spellings = {"a@x", "A@x", "b@x"}
    Canonical <- Canonical1
    Slugs = {"s1"}
    Links = {x1, x2}
    AccountRequests = {p1, p2}
    AttemptLimit = 1
    MaxAttempts = 2
    Tokens = {1, 2, 3}
    Families = {1, 2}
    Orgs = {o1}
    Calls = {p1, p2}
    Grace = 10
    TickLength = 11
    MaxTick = 1
    MaxEndings = 1
    MaxFailures = 1
    u1 = u1
    Users = {u1, u2}
    Founder = u1
    Invites = {x1, x2}
    MemberRequests = {p1, p2}
SYMMETRY UsersSymmetry
INVARIANTS UsersTypeOK OnePersonOneAccount ExchangedOnce RevokedStaysRevoked LastAdminKept NoStrayInvitation
PROPERTIES PurgeIsExact
\* It stops when nothing is left to send, issue or end.
CHECK_DEADLOCK FALSE
