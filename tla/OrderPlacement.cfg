SPECIFICATION FairSpec
CONSTANT MaxLookups = 3
INVARIANTS TypeOK  AcceptedExists  CancelOkElsewhere
PROPERTIES LookupFindsOlder SubmissionEnds
CHECK_DEADLOCK FALSE
