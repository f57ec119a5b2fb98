SPECIFICATION Spec
CONSTANTS
    Top = 12
    Limits <- MCLimits
    MaxTable = 16
    Strays = 3
INVARIANTS Confined HonestSpawn
PROPERTIES LaunchEnds
CHECK_DEADLOCK FALSE
