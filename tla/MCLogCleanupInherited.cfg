CONSTANTS
    d1 = d1
    d2 = d2
    p1 = p1
    p2 = p2
    Dispatcher <- MCDispatcher
    Pid <- MCPid
    Free = Free
    Other = Other
    Leftovers <- MCLeftovers
    Old = 1
    StartTimes = {TRUE, FALSE}
    MaxTime = 2
    MaxOthers = 1
SPECIFICATION Spec
SYMMETRY Alike
INVARIANTS
    InheritedLogKept
CHECK_DEADLOCK FALSE
