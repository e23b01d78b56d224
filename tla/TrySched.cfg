SPECIFICATION FairSpec
INVARIANT TypeOK
INVARIANT SchedIsAProgram
INVARIANT SchedCanBeExecuted
INVARIANT ParamConfHoldsParameters
PROPERTY UploadLeadsToRestart
