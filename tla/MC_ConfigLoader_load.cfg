\* LoadConfig over every small document.  The decoder stops at "Done": a
\* call of LoadConfig returns, so deadlock is not an error.
CONSTANTS
    UnsetValue = UnsetValue
    Unset <- UnsetValue
    Ports <- MCPorts
    Durations <- MCDurations
    ModeStrings <- MCModeStrings
    InvalidChoices <- MCInvalidChoices
    DefaultPort = 4750
    DefaultExitTimeout <- MCDefaultExitTimeout
    DefaultConnectTimeout <- MCDefaultConnectTimeout
    DefaultFileMode <- MCDefaultFileMode
    DefaultStatsSocketDir = "default"
SPECIFICATION Spec
CHECK_DEADLOCK FALSE
INVARIANT NoConfigWithFailedSetup KeysOverrideDefaults
