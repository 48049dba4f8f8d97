----------------------------- MODULE MCRingQueue -----------------------------
EXTENDS RingQueue
Rows == {"p", "q", "r"}
=============================================================================
