---------------------------- MODULE MC_RunDialog ----------------------------
EXTENDS RunDialog

\* Two workflow definitions on the definitions page.
MC_Items == {"d1", "d2"}
====
