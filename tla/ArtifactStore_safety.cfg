SPECIFICATION ArtifactSpec
CONSTANTS
    Clients = {k1, k2, k3}
    Artifacts <- MCArtifacts
    Contents = {"X", "Y"}
    Requests <- MCRequests
    Target <- MCTarget
    Purpose <- MCPurpose
    Content <- MCContent
    Replaced <- MCReplaced
    MaxSevered = 1
    None = None
SYMMETRY ClientSymmetry
INVARIANTS LiveIsDeliverable CurrentIsLatest
PROPERTIES DeletionIsFinal
