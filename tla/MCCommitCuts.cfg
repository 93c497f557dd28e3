SPECIFICATION FairSpec
CONSTANT Scenarios <- Cuts
INVARIANTS RecoveryReady
PROPERTIES Resolves ImplementsDeploy
CHECK_DEADLOCK FALSE
