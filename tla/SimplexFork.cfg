CONSTANTS
 N = 2
 Learners = 0
 MaxView = 3
 Tag = {a}
 MaxCrashes = 0
 ExecOutcomes = {TRUE}
 Zero = Zero
 Genesis = Genesis
 None = None
ACTION_CONSTRAINT RunToCompletion
CHECK_DEADLOCK FALSE
SPECIFICATION Spec
INVARIANT FinalizedImmutable
