------------------------------ MODULE ListView ------------------------------
(***************************************************************************)
(* The workflow list view as spec 4.3 (step 2), 5 and 7 describe it: the   *)
(* view holds one page response of the backend, replaced wholesale, never *)
(* merged field by field.  The most recently completed fetch wins, so the *)
(* page shown may be one the backend served for an earlier page or query, *)
(* or before workflows were added; a failed fetch leaves the view as it   *)
(* was.  The backend's list only grows, newest first.                      *)
(***************************************************************************)
EXTENDS Naturals, Sequences

CONSTANTS Codes, NoCode, InitList, Queries, PageSize, MaxWorkflows, Null

VARIABLES
    backend,  \* the backend's workflows (user codes), newest first
    view      \* the page shown: [results, count]

Empty == [results |-> <<>>, count |-> 0]

\* Spec 6: page p of the list with the server-side filter q applied.
Served(l, p, q) ==
    LET hits == SelectSeq(l, LAMBDA c : q = Null \/ c = q)
        lo == (p - 1) * PageSize + 1
        hi == IF p * PageSize < Len(hits) THEN p * PageSize ELSE Len(hits)
    IN [results |-> IF lo > Len(hits) THEN <<>> ELSE SubSeq(hits, lo, hi),
        count |-> Len(hits)]

\* Every earlier state of a list that grows at its head.
Earlier(l) == {SubSeq(l, k, Len(l)) : k \in 1..(Len(l) + 1)}

Init == backend = InitList /\ view = Empty

\* A workflow is started.
Add(c) == backend' = <<c>> \o backend /\ UNCHANGED view

\* A fetch completes: the view becomes a page the backend served at some
\* point, for some page and query.
Show ==
    /\ view' \in {Served(l, p, q) : l \in Earlier(backend), p \in 1..MaxWorkflows, q \in Queries}
    /\ UNCHANGED backend

\* The page is loaded afresh.
Clear == view' = Empty /\ UNCHANGED backend

Next == (\E c \in Codes \cup {NoCode} : Add(c)) \/ Show \/ Clear

Spec == Init /\ [][Next]_<<backend, view>>
=============================================================================
