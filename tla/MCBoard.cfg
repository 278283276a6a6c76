CONSTANTS
    GREEN_TICK_TICKCOUNT = 2
    GREEN_BLINK_TICKCOUNT = 4
    YELLOW_TICKCOUNT = 6
    RED_TICK_TICKCOUNT = 8
    MaxCommands = 5
    MaxMatches = 4
    MaxCalls = 4
    Times <- MCTimes
    AlarmBytes <- MCAlarmBytes
    HostTime <- MCHostTime
    MaxTicks = 3
    MaxResets = 1
    GOODIX_MAX_CONTACTS = 2
    Touches <- MCTouches
    MaxTouches = 3
    MaxFails = 1
    App = app
    Others = {other}
    MaxEdges = 5
    MaxReads = 2
SPECIFICATION BoardSpec
INVARIANTS OneLamp ModeAsAsked TimeIsNow ShownIsTouched ReadIsNew
PROPERTIES PhaseOrder StateFollowed AlarmReported TouchShown ChangeTaken
CHECK_DEADLOCK FALSE
