SPECIFICATION Spec
CONSTANTS
    a = a
    b = b
    ann = ann
    bob = bob
    may = may
    q1 = q1
    q2 = q2
    None = None
    Text <- MCText
    Name <- MCName
    Similarity <- MCSimilarity
    Asked <- MCAsked
    Layout <- MCLayouts
    Proposal <- MCProposals
    MaxVersion = 3
    MaxMishaps = 1
SYMMETRY Symmetry
INVARIANTS
    TypeOK
    BackupsAreGenuine
    SuccessIsVisible
    LeftoversAreMishaps
PROPERTIES
    ProposesTheBestRowItReads
    WritesWhatWasApproved
    OnlyRollbackTears
    ImplementsWorkbook
CHECK_DEADLOCK FALSE
