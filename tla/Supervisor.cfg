\* The whole of a run, with failures of every process at every moment.
SPECIFICATION FairSpec
INVARIANTS CertificateHolds SuccessIsClean ClosesBottomUp
PROPERTIES FailureStops
CHECK_DEADLOCK FALSE
