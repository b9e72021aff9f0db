SPECIFICATION Spec
CONSTANTS
    r1 = r1
    r2 = r2
    r3 = r3
    u1 = u1
    u2 = u2
    ud = ud
    t1 = t1
    t2 = t2
    s1 = s1
    s2 = s2
    m1 = m1
    None = None
    Zeros = Zeros
    Users = {u1, u2, ud}
    DemoUser = ud
    Tenants = {t1, t2}
    DemoTenant = DemoTenant
    Requests = {r1, r2, r3}
    Old = {s1, s2}
    OldOwner <- BothOwner
    Messages = {m1}
    Plans <- AllPlans
    MaxFaults = 1
SYMMETRY SomeTenant
INVARIANTS
    SessionsExplained
    UsersExplained
    AssignmentsExplained
    
    
CHECK_DEADLOCK FALSE
