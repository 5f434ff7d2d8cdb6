------------------------------ MODULE MCPipeline ------------------------------
\* Three attempts at a page of at most two records that may break two rules.
EXTENDS Pipeline
===============================================================================
