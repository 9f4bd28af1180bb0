--------------------------- MODULE MCSharedRunner ---------------------------
EXTENDS SharedRunner
=============================================================================
