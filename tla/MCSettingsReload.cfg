SPECIFICATION FairSpec
CONSTANTS
  r1 = r1
  r2 = r2
  e1 = e1
  NoThread = NoThread
  Readers <- TwoReaders
  Editors <- OneEditor
  Shapes <- FewShapes
  MaxEdits = 2
  MaxCalls = 2
INVARIANTS
  AnnouncedEditSeen
  NoTornSettings
  LoaderExclusive
PROPERTIES
  NeverOlder
  LookupReturns
CHECK_DEADLOCK FALSE
