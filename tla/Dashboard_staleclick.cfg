CONSTANTS
    Workflows = {"w1", "w2"}
    TaskSpec <- MC_TaskSpecStale
    StatusSteps <- MC_StatusSteps
    InitStatus = "progress"
    Codes = {"c1"}
    NoCode = NoCode
    InitList <- MC_InitList
    Queries = {Null}
    PageSize = 1
    MaxWorkflows = 1
    MaxInFlight = 3
    Handles = {1, 2}
    MaxUserSteps = 2
    Null = Null
    NoReq = NoReq
    NoRoute = NoRoute
    NoLabel = NoLabel
SPECIFICATION Spec
INVARIANT SelectedTaskCurrent
CHECK_DEADLOCK FALSE
