------------------------------- MODULE MCPacer -------------------------------
\* A window of three ticks and three credits, a study of four requests.
EXTENDS Pacer
==============================================================================
