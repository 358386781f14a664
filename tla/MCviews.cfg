SPECIFICATION ViewsSpec
CONSTANTS
  Sockets <- MCThreeSockets
  MaxClients = 3
  Kinds = {"irssi"}
  ann = ann
  bob = bob
  DefaultNick = nickname
  NoNick = NoNick
  Nicks <- MCNicks
  ValidNicks <- MCNicks
  ShortNicks <- MCNicks
  ChannelNames = {"#x"}
  Modes = {"o"}
  Keys = {}
  Topics = {"topic"}
  Limits = {}
  Words <- MCWords
  NoticeWords = {}
  DefaultBannedWords <- MCWords
  DefaultMaxMembers = 2
  NoKey = ""
  NoTopic = ""
SYMMETRY NickSymmetry
INVARIANTS
  OwnWindows
  TopicShown
PROPERTIES
  GhostsFromDepartures
