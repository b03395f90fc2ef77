SPECIFICATION Spec
CONSTANTS
    MaxActs = 2
    MaxAsks = 3
    MaxCalls = 2
    MaxSwitches = 1
    MaxCompactions = 1
INVARIANTS
    TypeOK
    ModelSeesAnsweredCalls
PROPERTIES
    PlanNoticeIsCurrent
    EndsOnAnAnswer
CHECK_DEADLOCK FALSE
