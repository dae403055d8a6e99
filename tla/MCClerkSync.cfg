SPECIFICATION Spec
CONSTANTS
    u1 = u1
    o1 = o1
    o2 = o2
    Users <- OneUser
    Orgs <- TwoOrgs
    Roles = {"member"}
    MaxVersions = 2
INVARIANT
    TypeOK
PROPERTIES
    MembershipSticks
    MembershipsArrive
CHECK_DEADLOCK FALSE
