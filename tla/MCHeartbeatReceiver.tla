------------------------ MODULE MCHeartbeatReceiver -------------------------
\* A path and one below it, which may be deleted in ZooKeeper.
EXTENDS HeartbeatReceiver, TLC

TopAndSub == ("top" :> {"top", "sub"}) @@ ("sub" :> {"sub"})
=============================================================================
