--------------------------- MODULE MCOrchestrator ---------------------------
EXTENDS Orchestrator, TLC
Symmetry == Permutations(Workers)
=============================================================================
