SPECIFICATION Spec
SYMMETRY Alike
CONSTANTS
    p1 = p1
    p2 = p2
    p3 = p3
    x = x
    y = y
    j1 = j1
    a1 = a1
    a2 = a2
    Posts = {p1, p2, p3}
    People = {x, y}
    Jobs = {j1}
    Applications = {a1, a2}
    CandidateOf <- MCCandidateOf
    JobOf <- MCJobOf
    Rounds = 1
    Starts <- MCStarts
    NoPerson = NoPerson
    NoApplication = NoApplication
    NoPost = NoPost
INVARIANTS
    HistoryFollows
    AcceptedIsApproved
PROPERTIES
    MembersStayTogether
    ReplacementKept
CHECK_DEADLOCK FALSE
