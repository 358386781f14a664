SPECIFICATION Spec
CONSTANTS
  PrivMsgNames <- MCPrivMsgNames
  OtherNames <- MCOtherNames
  BuiltInWords <- MCBuiltIn
  AddedWords <- MCAdded
  MaxSizeMsg = 11
  Clients = {"ann"}
  Typed <- MCUnpunished
  BufferSize = 12
  MaxTopicSize = 10
  MaxPending = 12
INVARIANT
  BannedWordsPunished
