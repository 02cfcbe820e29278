SPECIFICATION Spec
CONSTANTS
    Workers = {w1, w2}
    Users = {u1, u2}
    MaxRequests = 5
    MaxRetries = 1
    Clients = {"c1"}
    AllowedScopes <- AccountScopes
    Credentials = {"k1"}
    ServiceScopes = {"users:read", "audit:read"}
    Orgs = {"o1"}
    PolicyCodes = {"org.update"}
    InvitedRoles = {"owner", "admin", "member"}
SYMMETRY Symmetry
CHECK_DEADLOCK FALSE
INVARIANTS
    CodesAreSingleUse
