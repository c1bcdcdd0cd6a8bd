---------------------------- MODULE MC_TaskGraph ----------------------------
EXTENDS TaskGraphCheck

MC_IdSeq == <<"a", "b", "c">>
MC_Statuses == {"progress", "success", "canceled"}
=============================================================================
