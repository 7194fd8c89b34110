---------------------------- MODULE MCTimerTask ----------------------------
EXTENDS TimerTask, TLC

MCThreads == 1 .. 2
=============================================================================
