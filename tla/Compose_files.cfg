CONSTANTS
  Keys = {"a", "A", "b"}
  Values = {"1", "2", "null", "list"}
  Object = Object
  Params <- SomeParams
  Providers <- SomeProviders
  Replies <- SomeReplies
  VaultText <- VaultConfig
  Contents <- SmallContents
  Entries <- ListEntries
  Extensions = {"json5", "toml", "yml", "env", "properties", "conf"}
  MaxFrom = 3
  Down = Down
  Panics = Panics
  NoReply = NoReply
  None = None
SPECIFICATION Spec
INVARIANT TypeOK
INVARIANT Inv
INVARIANT MergeTakesLatest
INVARIANT MergeIsComplete
INVARIANT FallbackTakesFirst
INVARIANT PanicHasCause
PROPERTY ErrorTextsKeptOut
CHECK_DEADLOCK FALSE
