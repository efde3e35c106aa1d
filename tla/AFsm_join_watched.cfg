SPECIFICATION FsmSpec
INVARIANT JoinWatched
CHECK_DEADLOCK FALSE
