SPECIFICATION Spec
CONSTANTS
    Plans <- MCPlans
    MaxClicks = 2
    MaxVersion = 3
    MaxVisits = 2
    MaxTurns = 4
    MaxTrouble = 1
INVARIANTS OneDocumentPerForm OneRequestPerGuard NoStuckButton ScreenCatchesUp
PROPERTIES EditsSurvive SubmittedAsShown
CHECK_DEADLOCK FALSE
