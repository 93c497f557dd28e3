SPECIFICATION FairSpec
CONSTANT Scenarios <- Deaths
INVARIANTS RecoveryReady SettledAtomic NothingLeftBehind
PROPERTIES ForeignNeverDeleted
CHECK_DEADLOCK FALSE
