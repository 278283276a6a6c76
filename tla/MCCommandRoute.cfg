CONSTANTS
    Devices <- MCDevices
    LOGIN_TIMEOUT = 0
    Room = 1
    CommandRoom = 1
    AllowNoPasswd = FALSE
    MaxLines = 3
    WithArguments <- MCWithArguments
    MaxTime = 2
    MaxDeaths = 2
SPECIFICATION RouteSpec
INVARIANT RunAsAllowed
PROPERTY NobodyStuck
CHECK_DEADLOCK FALSE
