--------------------------- MODULE MCTimerManager ---------------------------
EXTENDS TimerManager
CONSTANTS t1, t2
MCInitialStack == <<t1>>
=============================================================================
