CONSTANTS
    CntSize = 3
    MaxRetry = 1
    Good <- MCGood
    MaxVer = 2
    MaxCommands = 2
    MaxOutages = 1
SPECIFICATION Spec
INVARIANT JudgesNewServer
