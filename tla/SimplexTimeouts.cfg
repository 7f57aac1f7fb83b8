CONSTANTS
 N = 2
 Learners = 0
 MaxView = 2
 Tag = {a}
 MaxCrashes = 0
 ExecOutcomes = {TRUE}
 Zero = Zero
 Genesis = Genesis
 None = None
ACTION_CONSTRAINT RunToCompletion
CHECK_DEADLOCK FALSE
SPECIFICATION Spec
INVARIANTS TypeOK JustifyCertified ViewJustified FinalizedCertified OnlyCrashesAccuse
PROPERTY ImplementsNotary
