------------------------------- MODULE MCCompare -------------------------------
\* Bars on a five-minute grid with off-grid observations around it, daily bars, and
\* actions whose labels may lie within alignment of each other or not.
EXTENDS Compare
===============================================================================
