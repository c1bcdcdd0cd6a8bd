CONSTANTS
    NoLabel = NoLabel
    IdSeq <- MC_IdSeq
    Statuses <- MC_Statuses
    MaxTasks = 3
    PageSize = 2
    MaxCount = 16
    MaxPage = 9
    NoCode = NoCode
    Codes = {"c1", "c2"}
    MaxLen = 4
    Durations <- MC_Durations
SPECIFICATION Spec
INVARIANT DrawnNodesAreRoutedTasks
INVARIANT RenderedEdgesMatchContract
INVARIANT WindowWellFormed
INVARIANT WindowMatchesSpec
INVARIANT LabelsMatchSpec
INVARIANT FormattedTimeExact
