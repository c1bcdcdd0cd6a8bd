------------------------------ MODULE MC_App ------------------------------
EXTENDS App

\* The list view of one workflow with no tasks: the detail view plays no
\* part in how the two components interact.
MC_TaskSpec == [w \in {"w1"} |-> <<>>]

MC_InitList == <<"c1">>
=============================================================================
