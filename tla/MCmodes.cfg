SPECIFICATION Spec
CONSTANTS
  Sockets <- MCTwoSockets
  MaxClients = 2
  Kinds = {"netcat", "irssi"}
  Nicks <- MCTwoNicks
  ValidNicks <- MCTwoNicks
  ShortNicks <- MCTwoNicks
  DefaultNick = "nickname"
  NoNick = ""
  ChannelNames = {"#x"}
  Modes = {"i", "t", "k", "o", "l", "b"}
  Keys = {"key"}
  Topics = {"topic"}
  Limits <- MCLimits
  Words <- MCWords
  NoticeWords <- MCNoticeWords
  DefaultBannedWords <- MCBannedWords
  DefaultMaxMembers = 2
  NoKey = ""
  NoTopic = ""
INVARIANTS
  OnlyLockedIsClosed
  EveryEntryRegistered
PROPERTIES
  LockedForever
  GrowthAdmitted
  OnlyOperatorsChangeSettings
  OnlyMembersPromoted
  OnlyKickEmpties
