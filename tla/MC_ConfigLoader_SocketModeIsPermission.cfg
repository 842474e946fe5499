\* LoadConfig checked against one stated property, which the code violates.
CONSTANTS
    UnsetValue = UnsetValue
    Unset <- UnsetValue
    Ports <- MCPorts
    Durations <- MCDurations
    ModeStrings <- MCModeStrings
    InvalidChoices <- MCInvalidChoices
    DefaultPort = 4750
    DefaultExitTimeout <- MCDefaultExitTimeout
    DefaultConnectTimeout <- MCDefaultConnectTimeout
    DefaultFileMode <- MCDefaultFileMode
    DefaultStatsSocketDir = "default"
SPECIFICATION Spec
CHECK_DEADLOCK FALSE
INVARIANT SocketModeIsPermission
