------------------------------ MODULE MCBarReads ------------------------------
\* A query during two appends of one batch over two partitions.
EXTENDS BarReads
===============================================================================
