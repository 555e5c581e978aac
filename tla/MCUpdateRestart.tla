--------------------------- MODULE MCUpdateRestart ---------------------------
\* UpdateRestart on a small instance: two workers, so that one can commit while
\* the other has cancelled.
EXTENDS UpdateRestart
=============================================================================
