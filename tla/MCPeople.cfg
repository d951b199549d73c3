CONSTANTS
    p1 = p1
    p2 = p2
    p3 = p3
    l1 = l1
    l2 = l2
    r1 = r1
    r2 = r2
    node = node
    tenant = tenant
    project = project
    Person <- MCPerson
    Link <- MCLink
    Request <- MCRequest
    Machine = node
    Tenant <- MCTenant
    Project <- MCProject
    HomeOf <- MCHomeOf
    Form <- MCForm
    Nobody = Nobody
    NoLink = NoLink
    NoProject = NoProject
    OwnRules = FALSE
SYMMETRY MCSymmetry
SPECIFICATION PeopleSpec
INVARIANTS
    Invited
    AdministratorRemains
    InTheirProject
CHECK_DEADLOCK FALSE
