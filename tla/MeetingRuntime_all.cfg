SPECIFICATION Spec
CONSTANTS
    Requested <- MCRequested
    Hint <- MCHint
    NoHint = NoHint
    Spoken <- MCSpoken
    RebuildLimit = 40
    MaxEvents = 7
    MaxMeetings = 2
    MaxSegments = 3
    MaxFailures = 1
INVARIANTS
    TypeOK
    MicOffKeepsNothing
    ModeSurvivesRestart
    ProjectionSurvivesRestart
    FactsAreTraceable
    OneMeetingAtATime
    SpeakersAreToldApart
PROPERTIES
    ImplementsRecord
CHECK_DEADLOCK FALSE
