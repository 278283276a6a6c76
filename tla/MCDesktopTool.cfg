CONSTANTS
    Commands = {led, reboot, upload}
    Uploads = {upload}
    Blocks = 1
    MAX_QUEUE = 2
    None = none
SPECIFICATION Spec
INVARIANT AnswerInStep
PROPERTY ImplementsChannel
CHECK_DEADLOCK FALSE
