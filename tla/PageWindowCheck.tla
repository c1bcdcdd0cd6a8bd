-------------------------- MODULE PageWindowCheck --------------------------
(***************************************************************************)
(* totalPages and displayPages checked over every store state (page,       *)
(* workflowsCount) with count up to MaxCount and page up to MaxPage.       *)
(* page may exceed totalPages: the store reaches that state when a list    *)
(* response for another query shrinks workflowsCount.                      *)
(***************************************************************************)
EXTENDS PageWindow, FiniteSets

CONSTANTS
    PageSize,   \* state.page_size
    MaxCount,   \* largest workflowsCount
    MaxPage     \* largest state.page

VARIABLES page, count

vars == <<page, count>>

Init == page \in 1..MaxPage /\ count \in 0..MaxCount

Next == UNCHANGED vars

Spec == Init /\ [][Next]_vars

Total == TotalPages(count, PageSize)

Window == DisplayPages(page, Total)

-----------------------------------------------------------------------------
(* Reference definitions, from the PaginationWindow contract (spec 4.4).   *)

\* The number of pages: the least n whose n pages hold count workflows.
SpecTotal(c) == CHOOSE n \in 0..c : n * PageSize >= c /\ (n = 0 \/ (n - 1) * PageSize < c)

\* The candidate pages, ascending.
Candidates(cur, total) ==
    SetToSortSeq({p \in 1..total : p = 1 \/ p = cur \/ p = total \/ (p - cur <= 1 /\ cur - p <= 1)},
                 LAMBDA x, y : x < y)

\* One ellipsis token in each gap between consecutive candidates.
RECURSIVE WithGaps(_)
WithGaps(ks) ==
    IF Len(ks) <= 1 THEN ks
    ELSE <<Head(ks)>> \o (IF ks[2] - ks[1] > 1 THEN <<Ellipsis>> ELSE <<>>) \o WithGaps(Tail(ks))

SpecWindow(cur, total) == WithGaps(Candidates(cur, total))

-----------------------------------------------------------------------------
(* For a current page within 1..totalPages, displayPages (with totalPages  *)
(* computed by Math.ceil) is the spec's window: 1, the last page, the     *)
(* current page and its neighbours, one ellipsis per gap.                 *)
WindowMatchesSpec ==
    page <= SpecTotal(count) => Window = SpecWindow(page, SpecTotal(count))

(* For every page the store can hold, including one past totalPages, the   *)
(* window begins with 1 and ends with totalPages, its page numbers         *)
(* increase strictly, and no two ellipses are adjacent: the second loop   *)
(* of displayPages collapses each run of "..." to one.                    *)
WindowWellFormed ==
    /\ (Total = 0) <=> (Window = <<>>)
    /\ Total > 0 => Window[1] = 1 /\ Window[Len(Window)] = Total
    /\ \A i, j \in DOMAIN Window :
         i < j /\ Window[i] # Ellipsis /\ Window[j] # Ellipsis => Window[i] < Window[j]
    /\ \A i \in 1..(Len(Window) - 1) : ~(Window[i] = Ellipsis /\ Window[i + 1] = Ellipsis)
=============================================================================
