------------------------------ MODULE LabelSet ------------------------------
(***************************************************************************)
(* The workflow-name filter options: the updateWorkflows mutation of       *)
(* src/workflow/static/script.js.  A workflow record is abstracted to its  *)
(* user_code; NoCode stands for a record whose user_code is falsy.         *)
(***************************************************************************)
EXTENDS Sequences, SequencesExt

CONSTANT NoCode     \* a workflow without user_code

\* Mutant: the `new Set(...)` step dropped, every code kept.
AddDistinctKeepAll(acc, c) == Append(acc, c)

\* new Set(...) adds a value only once, in insertion order.
AddDistinct(acc, c) == IF Contains(acc, c) THEN acc ELSE Append(acc, c)

\* updateWorkflows: the records with a truthy user_code, their codes
\* deduplicated through a Set, after the "All" sentinel.
WorkflowNames(ws) ==
    <<"All">> \o FoldLeft(AddDistinct, <<>>, SelectSeq(ws, LAMBDA c : c # NoCode))
====
