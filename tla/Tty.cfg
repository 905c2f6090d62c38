SPECIFICATION TtySpec
CONSTANTS
    Modes <- MCModes
    TTY_BUF_SIZE = 3
    Keys = {"letter", "newline", "eof", "erase", "interrupt"}
    Nested = 2
    Sizes = {1, 2}
    LeftToRead = 1
    LeftToWrite = 1
    Startup = 1
INVARIANTS DataCounts SleepersAreWoken
CHECK_DEADLOCK FALSE
