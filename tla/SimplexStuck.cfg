CONSTANTS
 N = 2
 Learners = 0
 MaxView = 3
 Tag = {a}
 MaxCrashes = 0
 ExecOutcomes = {TRUE}
 Zero = Zero
 Genesis = Genesis
 None = None
ACTION_CONSTRAINT OneEarlyTimer
CHECK_DEADLOCK FALSE
SPECIFICATION TickingSpec
PROPERTY ViewsAdvance
