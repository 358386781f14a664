SPECIFICATION Spec
CONSTANTS
  Sockets <- MCTwoSockets
  MaxClients = 2
  Kinds = {"netcat"}
  Nicks <- MCManyNicks
  ValidNicks <- MCManyValid
  ShortNicks <- MCTwoNicks
  DefaultNick = "nickname"
  NoNick = ""
  ChannelNames = {"#x", "#y", "#z"}
  Modes = {}
  Keys = {}
  Topics = {}
  Limits <- MCLimits
  Words <- MCBannedWords
  NoticeWords = {}
  DefaultBannedWords <- MCBannedWords
  DefaultMaxMembers = 2
  NoKey = ""
  NoTopic = ""
INVARIANTS
  DirectoryInSync
  NickOwnership
  ListTruthful
  MessagesReachOwner
