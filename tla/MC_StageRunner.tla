--------------------------- MODULE MC_StageRunner ---------------------------
EXTENDS StageRunner
=============================================================================
