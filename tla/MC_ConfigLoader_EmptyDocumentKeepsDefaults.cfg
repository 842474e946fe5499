\* LoadConfig on an empty or comment-only config file, against the comment at
\* lines 20-21 that unset keys keep the defaults.  LoadConfig returns, so
\* deadlock is not an error.
CONSTANTS
    UnsetValue = UnsetValue
    Unset <- UnsetValue
    Ports <- MCPorts
    Durations <- MCDurations
    ModeStrings <- MCModeStrings
    InvalidChoices <- MCInvalidChoices
    DefaultPort = 4750
    DefaultExitTimeout <- MCDefaultExitTimeout
    DefaultConnectTimeout <- MCDefaultConnectTimeout
    DefaultFileMode <- MCDefaultFileMode
    DefaultStatsSocketDir = "default"
SPECIFICATION Spec
CHECK_DEADLOCK FALSE
INVARIANT EmptyDocumentKeepsDefaults
