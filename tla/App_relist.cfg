CONSTANTS
    Workflows = {"w1"}
    TaskSpec <- MC_TaskSpec
    StatusSteps = {}
    InitStatus = "progress"
    Codes = {"c1", "c2"}
    NoCode = NoCode
    InitList <- MC_InitList
    Queries = {Null}
    PageSize = 1
    MaxWorkflows = 2
    MaxInFlight = 2
    Handles = {1, 2}
    MaxUserSteps = 1
    Null = Null
    NoReq = NoReq
    NoRoute = NoRoute
    NoLabel = NoLabel
    Items = {"c1", "c2"}
    MaxRuns = 1
    NoText = NoText
    Payloads = {""}
    MaxDefsInFlight = 1
SPECIFICATION Spec
PROPERTY RunTriggersRelist
CHECK_DEADLOCK FALSE
