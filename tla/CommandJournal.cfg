SPECIFICATION JournalSpec
CONSTANTS
  k1 = k1
  k2 = k2
  done = done
  Key <- MCKey
  Response <- MCResponse
  CompactAfter = 4
  MaxErrors = 1
  MaxCrashes = 2
  ShortWrites = FALSE
INVARIANTS
  NeverReplayed
  FileIsBounded
PROPERTIES
  ImplementsEntries
