CONSTANTS
 N = 2
 Learners = 1
 MaxView = 3
 Tag = {a, b}
 MaxCrashes = 1
 ExecOutcomes = {TRUE}
 Zero = Zero
 Genesis = Genesis
 None = None
ACTION_CONSTRAINT LateLeader
CHECK_DEADLOCK FALSE
INIT Init
NEXT Next
INVARIANT FollowersVoteOnce
