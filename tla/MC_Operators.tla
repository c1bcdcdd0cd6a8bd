---------------------------- MODULE MC_Operators ----------------------------
(***************************************************************************)
(* One run for the pure operators of the dashboard: refreshNetwork and     *)
(* initGraph (TaskGraphCheck), the pagination getters (PageWindowCheck),   *)
(* updateWorkflows' labels (LabelSetCheck) and formattedTime               *)
(* (DurationCheck).  Each state is one input of one operator; every input *)
(* of every check is an initial state.                                     *)
(***************************************************************************)
EXTENDS Naturals, Sequences, SequencesExt, Duration

CONSTANTS NoLabel, IdSeq, Statuses, MaxTasks, PageSize, MaxCount, MaxPage,
          NoCode, Codes, MaxLen, Durations

VARIABLE input

TG == INSTANCE TaskGraphCheck WITH tasks <- input.tasks
PW == INSTANCE PageWindowCheck WITH page <- input.page, count <- input.count
LS == INSTANCE LabelSetCheck WITH ws <- input.ws
DC == INSTANCE DurationCheck WITH n <- input.n

MC_IdSeq == <<"a", "b", "c", "d">>
MC_Statuses == {"progress", "success", "canceled"}

\* Every tenth of a second up to 2 minutes, and the tenths around the hour,
\* the day, two days and 1d 1h 1m 1s.
MC_Durations ==
    (0..1200) \cup
    UNION {(b - 15)..(b + 15) : b \in {Hour, Day, 2 * Day,
                                       Day + Hour + Minute + 10}}

Init ==
    input \in {[k |-> "graph", tasks |-> t] : t \in TG!TaskLists}
              \cup {[k |-> "window", page |-> p, count |-> c] : p \in 1..MaxPage, c \in 0..MaxCount}
              \cup {[k |-> "labels", ws |-> w] : w \in BoundedSeq(Codes \cup {NoCode}, MaxLen)}
              \cup {[k |-> "time", n |-> d] : d \in Durations}

Next == UNCHANGED input

Spec == Init /\ [][Next]_input

(* refreshNetwork draws exactly the tasks the spec's partitioning contract *)
(* routes to each graph, with their status as class, and sets hideHooks    *)
(* exactly when no hook task is drawn.                                     *)
DrawnNodesAreRoutedTasks == input.k = "graph" => TG!DrawnNodesAreRoutedTasks

(* A graph initGraph renders has exactly the contract's edges, from each  *)
(* previous entry to the task naming it.                                  *)
RenderedEdgesMatchContract == input.k = "graph" => TG!RenderedEdgesMatchContract

(* displayPages starts at 1, ends at totalPages, increases strictly and    *)
(* has no two adjacent ellipses, for every page the store can hold.       *)
WindowWellFormed == input.k = "window" => PW!WindowWellFormed

(* For an in-range page, displayPages is the spec's window (4.4).          *)
WindowMatchesSpec == input.k = "window" => PW!WindowMatchesSpec

(* updateWorkflows' workflowNames is the spec's label list (4.5).          *)
LabelsMatchSpec == input.k = "labels" => LS!LabelsMatchSpec

(* formattedTime splits a positive duration into in-range parts that add   *)
(* up to it.                                                               *)
FormattedTimeExact == input.k = "time" => DC!FormattedTimeExact
====
