SPECIFICATION LiveSpec
CONSTANTS
    MaxPay = 3
    Total = 2
    Asked = {1, 2}
    Sub = {s1, s2}
    MaxVoid = 1
    MaxFault = 2
    Scenes <- MCScenes
INVARIANTS TypeOK ConfirmedWasCaptured OwnIntent
PROPERTIES FailKeepsConfirmed IntentFollows CapturedCounts
CHECK_DEADLOCK FALSE
