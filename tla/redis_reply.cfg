SPECIFICATION Spec
CONSTANTS
  NrClient = 1
  NrEntry = 2
  Configs <- OneBatching
  Types <- ReadWrite
  Hash <- TwoKeys
  Missing = Missing
  OK = OK
  Refused = Refused
INVARIANTS
  ReplyBufferIsForRead
