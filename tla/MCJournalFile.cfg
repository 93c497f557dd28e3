SPECIFICATION FairSpec
CONSTANTS
  Txn = {t1}
  Op = {o1, o2}
  Identity = {i1, i2}
  Digest = {d1}
  NoIdentity = NoIdentity
  NoJournal = NoJournal
  MaxFaults = 2
INVARIANTS
  LoadNeverRejects
  AckedSurvives
PROPERTIES
  ImplementsRegister
  JournalGoesAway
