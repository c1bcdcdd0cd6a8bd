----------------------------- MODULE PageWindow -----------------------------
(***************************************************************************)
(* The paginator getters of the Vuex store: totalPages and displayPages.   *)
(* A display token is a page number or the string '...', modelled as 0,   *)
(* which is no page number (pages count from 1).                          *)
(***************************************************************************)
EXTENDS Integers, Sequences, SequencesExt

Ellipsis == 0

\* totalPages: Math.ceil(workflowsCount / page_size).
TotalPages(count, pageSize) == (count + pageSize - 1) \div pageSize

\* Mutant: the window test with `< 1` for `<= 1`, neighbours left out.
KeepNoNeighbours(p, page, total) ==
    p = 1 \/ p = page \/ p = total \/ (p - page < 1 /\ page - p < 1)

\* The test of the first loop: page 1, the current page, the last page and
\* the neighbours of the current page are kept.
Keep(p, page, total) ==
    p = 1 \/ p = page \/ p = total \/ (p - page <= 1 /\ page - p <= 1)

\* The first loop: one token per page, "..." for a page not kept.
RawPages(page, total) ==
    [p \in 1..total |-> IF Keep(p, page, total) THEN p ELSE Ellipsis]

\* Mutant: the second loop keeps every token.
CollapseNone(pages) == pages

\* The second loop: pages[i] is kept when it differs from pages[i + 1];
\* pages[Len + 1] is undefined, so the last token is always kept.
Collapse(pages) ==
    LET kept == SelectSeq([i \in DOMAIN pages |-> i],
                          LAMBDA i : i = Len(pages) \/ pages[i] # pages[i + 1])
    IN [j \in DOMAIN kept |-> pages[kept[j]]]

\* displayPages, as a function of the store's page and totalPages.
DisplayPages(page, total) == Collapse(RawPages(page, total))
=============================================================================
