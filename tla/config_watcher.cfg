SPECIFICATION ProcessSpec
CONSTANTS
    MaxVersion = 3
    Blank = {2}
    MaxListenErrors = 2
    LocalConf <- MCLocalConf
    EditedConf <- MCEditedConf
    MaxEdits = 1
    RemoteConf <- MCRemoteConf
INVARIANTS
    TypeOK
    Converged
    BuiltFromOne
    CleanExit
    RemoteWins
PROPERTIES
    CurrentWhileUp
    LoopEnds
CHECK_DEADLOCK FALSE
