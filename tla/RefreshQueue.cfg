SPECIFICATION FairSpec
CONSTANTS
    m1 = m1
    o1 = o1
    NoJob = NoJob
    Mutations = {m1, m2}
    Workers = {w1, w2}
    Orgs = {o1}
    OrgOf <- OneOrg
    Forced <- JustM1
    MaxAttempts = 3
    MaxCrashes = 2
INVARIANT RefreshesOwed
PROPERTIES HeadNeverRegresses ImplementsFreshness EventuallyServed
