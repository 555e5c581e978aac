--------------------------- MODULE MCAttachStream ---------------------------
\* AttachStream on a small instance: two sessions, so that one can stream while the
\* other is to be caught up.
EXTENDS AttachStream
CONSTANTS a, b, x
=============================================================================
