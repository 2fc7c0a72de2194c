SPECIFICATION Spec
CONSTANTS
    MaxVersion = 3
    Blank = {2}
    MaxListenErrors = 0
PROPERTIES
    EventuallyCurrent
CHECK_DEADLOCK FALSE
