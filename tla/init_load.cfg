SPECIFICATION Spec
CONSTANTS
  Entries <- UpToSixKeys
  Threads <- UpToFourThreads
INVARIANTS
  InsertsInv
  NoKeyTwice
  AllKeysLoaded
