------------------------------- MODULE MCPaging -------------------------------
\* Series of at most three pages, and enough links to go beyond that.
EXTENDS Paging
===============================================================================
