--------------------------- MODULE TaskGraphCheck ---------------------------
(***************************************************************************)
(* refreshNetwork checked against the partitioning contract over every     *)
(* task list of up to MaxTasks tasks with distinct ids drawn from Ids.      *)
(* The state is the task list a getWorkflow response delivers; it never    *)
(* changes, so every reachable state is one input.                         *)
(***************************************************************************)
EXTENDS TaskGraph, FiniteSets

CONSTANTS
    IdSeq,      \* the celery_task_id values, in list order
    Statuses,   \* task statuses the backend reports
    MaxTasks    \* longest task list

VARIABLE tasks

Ids == ToSet(IdSeq)

\* A task record as the backend serialises it; previous may name any id,
\* including one of a task missing from the list.
TaskRec(id) ==
    [celery_task_id : {id}, status : Statuses, is_hook : BOOLEAN,
     previous : {SelectSeq(IdSeq, LAMBDA x : x \in P) : P \in SUBSET (Ids \ {id})}]

\* Task lists with distinct ids, in id order.
TaskLists ==
    UNION {{f \in [1..n -> UNION {TaskRec(IdSeq[i]) : i \in 1..n}] :
              \A i \in 1..n : f[i].celery_task_id = IdSeq[i]} : n \in 0..MaxTasks}

Init == tasks \in TaskLists

Next == UNCHANGED tasks

Spec == Init /\ [][Next]_tasks

Net == RefreshNetwork(tasks)

(* The nodes refreshNetwork draws with a label are exactly the tasks the    *)
(* contract routes to that graph, each with its status as CSS class, and   *)
(* hideHooks (= !haveHook) is set exactly when no hook task is drawn.      *)
DrawnNodesAreRoutedTasks ==
    /\ \A k \in {"main", "hook"} :
         /\ Drawn(Net[k]) = Routed(tasks, k)
         /\ \A i \in DOMAIN tasks :
              tasks[i].celery_task_id \in Drawn(Net[k]) =>
                  Net[k].label[tasks[i].celery_task_id].class = tasks[i].status
    /\ Net.haveHook <=> Routed(tasks, "hook") # {}

(* Spec 4.1: a graph that initGraph renders without throwing has exactly  *)
(* the contract's edges, each from an entry of `previous` to the task that *)
(* names it, both drawn in that graph.                                     *)
RenderedEdgesMatchContract ==
    \A k \in {"main", "hook"} :
        ~InitGraphFails(Net[k]) => Net[k].edges = ContractEdges(tasks, k)

(* Glossary and data model: a hook task whose status is terminal (the      *)
(* backend's success, error and canceled) is settled and is drawn in the   *)
(* hook graph.                                                             *)
SettledHooksDrawn ==
    \A i \in DOMAIN tasks :
        (tasks[i].is_hook /\ tasks[i].status \in {"success", "error", "canceled"})
            => tasks[i].celery_task_id \in Drawn(Net.hook)
=============================================================================
