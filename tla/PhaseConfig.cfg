SPECIFICATION Spec
CONSTANTS
    Default <- MCDefault
    Inputs  <- MCInputs
    Toggles <- MCToggles
    Ramp = 2
    NoFile = NoFile
    Malformed = Malformed
INVARIANTS
    DisabledListWellFormed
    RunFollowsActivePlan
    SyncedConfigSurvivesRestart
