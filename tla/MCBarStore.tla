------------------------------ MODULE MCBarStore ------------------------------
\* Two overlapping writers of one batch over three partitions.
EXTENDS BarStore
===============================================================================
