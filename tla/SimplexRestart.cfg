CONSTANTS
 N = 2
 Learners = 0
 MaxView = 2
 Tag = {a, b}
 MaxCrashes = 1
 ExecOutcomes = {TRUE}
 Zero = Zero
 Genesis = Genesis
 None = None
ACTION_CONSTRAINT RunToCompletion
CHECK_DEADLOCK FALSE
INIT Init
NEXT RestartNext
INVARIANTS QCBacked PreferredCertified EvidenceSound VotersHoldBlock
PROPERTY NoRollback ImplementsNotary
