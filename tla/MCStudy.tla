-------------------------------- MODULE MCStudy --------------------------------
\* The plan at its real size, with up to MaxOdd odd pages in a run.
EXTENDS Study
===============================================================================
