----------------------------- MODULE TaskGraph -----------------------------
(***************************************************************************)
(* The task-graph builder of the workflow dashboard: the Vuex mutation     *)
(* refreshNetwork (src/workflow/static/script.js) and the initGraph step   *)
(* it schedules with Vue.nextTick.                                         *)
(*                                                                         *)
(* A task record is [celery_task_id, status, is_hook, previous].  The two  *)
(* dagre-d3 graphs are graphlib graphs; a graph is modelled as            *)
(*   [label |-> node id -> node label, edges |-> set of <<from, to>>]      *)
(* and keeps graphlib's semantics: setNode overwrites the label of a node, *)
(* setEdge creates each missing endpoint with an undefined label (NoLabel).*)
(* The html label is abstracted to the CSS class, which is the status.    *)
(***************************************************************************)
EXTENDS Naturals, Sequences, SequencesExt, TLC

CONSTANT NoLabel    \* the undefined label graphlib gives an implicit node

\* terminatedStatus in refreshNetwork.
TerminatedStatus == {"success", "cancel", "error"}

EmptyGraph == [label |-> [v \in {} |-> NoLabel], edges |-> {}]

\* graphlib Graph.setNode(v, label): creates v or overwrites its label.
SetNode(g, v, lbl) == [g EXCEPT !.label = (v :> lbl) @@ @]

\* graphlib Graph.setNode(v) without a label: a no-op on an existing node.
EnsureNode(g, v) == IF v \in DOMAIN g.label THEN g ELSE SetNode(g, v, NoLabel)

\* graphlib Graph.setEdge(v, w): creates missing endpoints, then the edge.
SetEdge(g, v, w) == [EnsureNode(EnsureNode(g, v), w) EXCEPT !.edges = @ \cup {<<v, w>>}]

\* The early `continue`: an unsettled hook task is skipped.
Skipped(t) == t.is_hook /\ t.status \notin TerminatedStatus

\* The graph a task that is not skipped is drawn in.
GraphOf(t) == IF t.is_hook THEN "hook" ELSE "main"

\* Mutant: the `continue` dropped, unsettled hooks drawn like settled ones.
AddTaskNoSkip(acc, t) ==
    LET k == GraphOf(t)
        withNode == SetNode(acc[k], t.celery_task_id, [class |-> t.status])
    IN [acc EXCEPT
          ![k] = FoldLeft(LAMBDA g, p : SetEdge(g, p, t.celery_task_id),
                          withNode, t.previous),
          !.haveHook = @ \/ t.is_hook]

\* Mutant: setEdge with its arguments swapped, edges from the task to its
\* previous entries.
AddTaskEdgeReversed(acc, t) ==
    IF Skipped(t) THEN acc
    ELSE LET k == GraphOf(t)
             withNode == SetNode(acc[k], t.celery_task_id, [class |-> t.status])
         IN [acc EXCEPT
               ![k] = FoldLeft(LAMBDA g, p : SetEdge(g, t.celery_task_id, p),
                               withNode, t.previous),
               !.haveHook = @ \/ t.is_hook]

\* One iteration of the loop over tasks: setNode of the task, then setEdge
\* from each entry of `previous`, in order; haveHook set for a hook task.
AddTask(acc, t) ==
    IF Skipped(t) THEN acc
    ELSE LET k == GraphOf(t)
             withNode == SetNode(acc[k], t.celery_task_id, [class |-> t.status])
         IN [acc EXCEPT
               ![k] = FoldLeft(LAMBDA g, p : SetEdge(g, p, t.celery_task_id),
                               withNode, t.previous),
               !.haveHook = @ \/ t.is_hook]

\* The loop of refreshNetwork over the task list, from two empty graphs.
RefreshNetwork(tasks) ==
    FoldLeft(AddTask, [main |-> EmptyGraph, hook |-> EmptyGraph, haveHook |-> FALSE], tasks)

\* initGraph throws a TypeError at `node.rx = ...` when graph.node(v) is
\* undefined, i.e. when some node was only created by setEdge.
InitGraphFails(g) == \E v \in DOMAIN g.label : g.label[v] = NoLabel

\* The click handler's restyle: the clicked node is emphasised, every
\* other node of the same graph reverts to the plain style.
Restyle(g, clicked) == {v \in DOMAIN g.label : v = clicked}

\* tasks.find((c) => c.celery_task_id == id): the first task with that id.
FindTask(tasks, id) == tasks[SelectInSeq(tasks, LAMBDA c : c.celery_task_id = id)]

-----------------------------------------------------------------------------
(* Reference definitions, from the partitioning contract of the spec.      *)

\* The nodes the code draws with a label (graphlib nodes with a label).
Drawn(g) == {v \in DOMAIN g.label : g.label[v] # NoLabel}

\* Spec 4.1: a hook task is routed once its status is terminal
\* (success, cancel, error); every other task goes to "main".
RoutedTo(t, k) ==
    IF t.is_hook THEN k = "hook" /\ t.status \in {"success", "cancel", "error"}
                 ELSE k = "main"

\* The ids of the tasks the contract routes to graph k.
Routed(tasks, k) ==
    {tasks[i].celery_task_id : i \in {j \in DOMAIN tasks : RoutedTo(tasks[j], k)}}

\* The edges the contract creates in graph k: previous[j] -> id, only when
\* the source was routed to the same graph.
ContractEdges(tasks, k) ==
    UNION {{<<tasks[i].previous[j], tasks[i].celery_task_id>> :
              j \in {n \in DOMAIN tasks[i].previous : tasks[i].previous[n] \in Routed(tasks, k)}} :
           i \in {j \in DOMAIN tasks : RoutedTo(tasks[j], k)}}
=============================================================================
