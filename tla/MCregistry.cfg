SPECIFICATION Spec
CONSTANTS
  Sockets <- MCThreeSockets
  MaxClients = 3
  Kinds = {"netcat", "irssi", "refused", "other"}
  Nicks <- MCTwoNicks
  ValidNicks <- MCTwoNicks
  ShortNicks <- MCTwoNicks
  DefaultNick = "nickname"
  NoNick = ""
  ChannelNames = {"#x"}
  Modes = {"o"}
  Keys = {"key"}
  Topics = {"topic"}
  Limits <- MCLimits
  Words <- MCWords
  NoticeWords <- MCNoticeWords
  DefaultBannedWords <- MCBannedWords
  DefaultMaxMembers = 2
  NoKey = ""
  NoTopic = ""
INVARIANTS
  TypeOK
  NoStaleSocket
  NicknamesInUse
PROPERTIES
  FreshSocketInheritsNothing
  ImplementsConnections
