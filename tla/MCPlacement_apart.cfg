SPECIFICATION Spec
CONSTANTS
    Width = 13
    Gap = 32
    Top = 8192
    Objects <- MCObjects
    Mains <- MCMains
    Busy <- MCBusy
    Picks <- MCPicks
    MaxLoads = 3
INVARIANTS TypeOK OwnCodeFixed CodeSeparated CodeIsMapped
CHECK_DEADLOCK FALSE
