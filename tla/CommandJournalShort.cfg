SPECIFICATION JournalSpec
CONSTANTS
  k1 = k1
  k2 = k2
  done = done
  Key <- MCKey
  Response <- MCResponse
  CompactAfter = 4
  MaxErrors = 1
  MaxCrashes = 1
  ShortWrites = TRUE
INVARIANT NeverReplayed
