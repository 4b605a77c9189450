SPECIFICATION DeskSpec
CONSTANTS
    p1 = p1
    p2 = p2
    NoPlan = NoPlan
    Plan <- MCPlan
    MaxMishaps = 2
SYMMETRY Symmetry
INVARIANTS
    DeskTypeOK
    OpenIsOnScreen
    SeenIsOffScreen
PROPERTIES
    AnswersAreTheOperators
CHECK_DEADLOCK FALSE
