SPECIFICATION RpcSpec
INVARIANTS FollowersServed
CHECK_DEADLOCK FALSE
