CONSTANTS
    NoLabel = NoLabel
    IdSeq <- MC_IdSeq
    Statuses <- MC_Statuses
    MaxTasks = 3
SPECIFICATION Spec
INVARIANT SettledHooksDrawn
