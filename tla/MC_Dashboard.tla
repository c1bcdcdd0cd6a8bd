--------------------------- MODULE MC_Dashboard ---------------------------
EXTENDS Dashboard

\* Detail view: w1 has a main task a and a hook task h; w2 has no tasks.
MC_TaskSpecDetail ==
    [w \in {"w1", "w2"} |->
       IF w = "w1"
       THEN <<[celery_task_id |-> "a", is_hook |-> FALSE, previous |-> <<>>],
              [celery_task_id |-> "h", is_hook |-> TRUE, previous |-> <<>>]>>
       ELSE <<>>]

\* Detail view with a main-graph edge: w1 has main tasks a and b, b after
\* a, and a hook task h; w2 has no tasks.
MC_TaskSpecEdge ==
    [w \in {"w1", "w2"} |->
       IF w = "w1"
       THEN <<[celery_task_id |-> "a", is_hook |-> FALSE, previous |-> <<>>],
              [celery_task_id |-> "b", is_hook |-> FALSE, previous |-> <<"a">>],
              [celery_task_id |-> "h", is_hook |-> TRUE, previous |-> <<>>]>>
       ELSE <<>>]

\* Stale click: w1 has a main task a; w2, the workflow a relaunch of w1
\* answers with, has a main task b whose previous names a task "a" that
\* w2 does not have, so initGraph throws on w2's main graph.
MC_TaskSpecStale ==
    [w \in {"w1", "w2"} |->
       IF w = "w1"
       THEN <<[celery_task_id |-> "a", is_hook |-> FALSE, previous |-> <<>>]>>
       ELSE <<[celery_task_id |-> "b", is_hook |-> FALSE, previous |-> <<"a">>]>>]

\* List view: the open workflow's tasks play no part.
MC_TaskSpecList == [w \in {"w1"} |-> <<>>]

MC_InitList == <<"c1">>

\* Detail view: the backend lists no workflow until another user runs one.
MC_InitListEmpty == <<>>

MC_StatusSteps == {<<"progress", "success">>, <<"progress", "canceled">>}
=============================================================================
