SPECIFICATION Spec
CONSTANTS
    FrameLength <- MCFrame
    MinSpeech = 2
    Window = 3
    CheckGap = 1
    Cooldown = 2
    Patch <- MCPatch
    DefaultBuffer = 4
    MaxClock = 4
    MaxFrames = 4
    MaxMishaps = 1
INVARIANTS
    TypeOK
    KeepsTheLatest
    PreRollIsComplete
    SettingsSurviveRestart
PROPERTIES
    OnePhraseWakesOnce
    DeafOnlyAfterReload
CHECK_DEADLOCK FALSE
