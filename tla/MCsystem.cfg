SPECIFICATION Spec
CONSTANTS
  Sockets <- MCTwoSockets
  MaxClients = 2
  Kinds = {"netcat", "irssi", "refused", "other"}
  FdsSize = 4
  MaxBacklog = 1
  Lines = {}
  Nicks = {"ann", "nickname"}
  ValidNicks = {"ann", "nickname"}
  ShortNicks = {"ann", "nickname"}
  DefaultNick = "nickname"
  NoNick = ""
  ChannelNames = {"#x"}
  Modes = {}
  Keys = {}
  Topics = {}
  Limits = {}
  Words = {}
  NoticeWords = {}
  DefaultBannedWords = {}
  DefaultMaxMembers = 1
  NoKey = ""
  NoTopic = ""
VIEW MCView
CHECK_DEADLOCK FALSE
INVARIANTS
  TablesAgree
  NoStaleSocket
  EveryClientPolled
PROPERTIES
  TablesBehave
  OnlyNamesakesFree
