------------------------- MODULE MCHeartbeatReporter -------------------------
\* Application threads that share a path, with a few failing requests and at most
\* one lost session.
EXTENDS HeartbeatReporter
=============================================================================
