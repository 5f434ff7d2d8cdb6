------------------------------ MODULE MCRawStore ------------------------------
\* Two overlapping writers and one batch id offered under two layouts.
EXTENDS RawStore
===============================================================================
