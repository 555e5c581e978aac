--------------------------- MODULE MCScheduledJobs ---------------------------
\* ScheduledJobs on a small instance: a heartbeat and a job that runs once share a
\* session and its lane.
EXTENDS ScheduledJobs

CONSTANTS heartbeat, once, root

MCSessionOf == [j \in {heartbeat, once} |-> root]
=============================================================================
