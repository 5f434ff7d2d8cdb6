------------------------------ MODULE MCRawReplay ------------------------------
\* One artifact of at most two chunks, with two edits or failing reads.
EXTENDS RawReplay
===============================================================================
