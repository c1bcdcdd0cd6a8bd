--------------------------- MODULE LabelSetCheck ---------------------------
(***************************************************************************)
(* WorkflowNames against the DerivedLabelSet contract of the spec (4.5),   *)
(* for every result page of up to MaxLen workflows.                        *)
(***************************************************************************)
EXTENDS Naturals, LabelSet, FiniteSets

CONSTANTS Codes, MaxLen

VARIABLE ws     \* the results of one listWorkflows response

Init == ws \in BoundedSeq(Codes \cup {NoCode}, MaxLen)
Next == UNCHANGED ws
Spec == Init /\ [][Next]_ws

\* The spec's labels: the distinct truthy user codes, ordered by the
\* position where each first occurs in the page.
FirstAt(c) == SelectInSeq(ws, LAMBDA x : x = c)
SpecLabels ==
    <<"All">> \o SetToSortSeq(ToSet(ws) \ {NoCode}, LAMBDA a, b : FirstAt(a) < FirstAt(b))

\* updateWorkflows offers "All" and then every user code of the page once,
\* in first-seen order, and nothing for records without a user code.
LabelsMatchSpec == WorkflowNames(ws) = SpecLabels
====
