SPECIFICATION SteerSpec
CONSTANTS
    MaxActs = 2
    MaxAsks = 3
    MaxCalls = 3
    MaxSwitches = 1
    MaxCompactions = 1
PROPERTIES
    EndsOnAnAnswer
CHECK_DEADLOCK FALSE
