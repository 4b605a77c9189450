SPECIFICATION Spec
CONSTANTS
    p1 = p1
    NoPlan = NoPlan
    Plan <- MCOnePlan
    Confidence <- MCConfidence
    Threshold <- MCThreshold
    Lifetime = 1
    MaxTime = 2
    MaxLost = 2
    MaxPolicyChanges = 2
PROPERTIES
    DisabledBlocksMutation
