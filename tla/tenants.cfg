SPECIFICATION Spec
CONSTANTS
    a1 = a1
    a2 = a2
    ca = ca
    cb = cb
    Operator = Operator
    r1 = r1
    r2 = r2
    Credentials = {a1, a2}
    Corpora = {ca, cb}
    Requests = {r1, r2}
    Tenant <- MCTenant
    Owned <- MCOwned
    Roles = {"read_only", "principal_admin"}
    MaxRequests = 5
SYMMETRY Symmetry
INVARIANTS TypeOK CustomersAreIsolated NothingOutlivesItsCorpus DeletedMeansItWentAway
PROPERTIES ResetKeepsGrants RevocationTakesHold
CHECK_DEADLOCK FALSE
