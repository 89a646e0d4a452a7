---------------------------- MODULE MCFinalGateRun ----------------------------
EXTENDS FinalGateRun
=============================================================================
