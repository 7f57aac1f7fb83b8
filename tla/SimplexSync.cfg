CONSTANTS
 N = 1
 Learners = 1
 MaxView = 3
 Tag = {a}
 MaxCrashes = 0
 ExecOutcomes = {TRUE, FALSE}
 Zero = Zero
 Genesis = Genesis
 None = None
ACTION_CONSTRAINT RunToCompletion
CHECK_DEADLOCK FALSE
INIT Init
NEXT TimelyNext
INVARIANTS AncestorsStored CommittedCertified
