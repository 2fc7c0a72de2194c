SPECIFICATION ProcessSpec
CONSTANTS
    MaxVersion = 1
    Blank = {}
    MaxListenErrors = 0
    LocalConf <- MCLocalConf
    EditedConf = {}
    MaxEdits = 0
    RemoteConf <- MCRemoteConf
PROPERTIES
    HotReloads
CHECK_DEADLOCK FALSE
