SPECIFICATION Spec
CONSTANTS
    Requested <- MCStandby
    Hint <- MCHint
    NoHint = NoHint
    Spoken <- MCSpoken
    RebuildLimit = 3
    MaxEvents = 6
    MaxMeetings = 1
    MaxSegments = 1
    MaxFailures = 0
INVARIANTS
    ProjectionSurvivesRestart
CHECK_DEADLOCK FALSE
