SPECIFICATION Spec
CONSTANTS
    a = a
    b = b
    ann = ann
    bob = bob
    may = may
    q1 = q1
    q2 = q2
    None = None
    Text <- MCText
    Name <- MCName
    Similarity <- MCSimilarity
    Asked <- MCAsked
    Layout <- MCLayouts
    Proposal <- MCProposal
    MaxVersion = 3
    MaxMishaps = 1
PROPERTIES
    FailureLeavesWorkbook
CHECK_DEADLOCK FALSE
