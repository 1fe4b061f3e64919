SPECIFICATION Spec
SYMMETRY Alike
CONSTANTS
    l1 = l1
    l2 = l2
    Lines = {l1, l2}
    Starts <- MCStarts
INVARIANTS
    RevisionStages
    WaitersAreAsked
PROPERTIES
    SentAtCurrentTerms
CHECK_DEADLOCK FALSE
