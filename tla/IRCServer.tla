------------------------------ MODULE IRCServer ------------------------------
(***************************************************************************)
(* The state the Server class keeps between two events - _clients,         *)
(* _nicknames, _channels, _channelOrder - and every handler that changes   *)
(* it.  The server is one thread: acceptNewConnection and                  *)
(* handleClientMessage run to completion, so each is one action.           *)
(*                                                                         *)
(* A command that is refused changes none of these variables and is a      *)
(* stuttering step; so are LIST, HELP, PING, TOPIC without a text and a    *)
(* private message to a user.                                              *)
(***************************************************************************)
EXTENDS Channel, Sequences, Functions

CONSTANTS
    Sockets,       \* the descriptors accept may return
    MaxClients,    \* _MAX_CLIENTS
    Kinds,         \* the kinds of connections that are made: see detectClient
    Nicks,         \* every nickname that can be sent
    ValidNicks,    \* those checkName accepts: letters, '_', '-', at most 15
    ShortNicks,    \* those of at most MAX_NAME_SIZE = 9 characters
    DefaultNick,   \* "nickname", the name in a default User
    NoNick,        \* the empty nickname
    ChannelNames,  \* names checkChannelName accepts
    Modes,         \* the letters of the MODE commands that are sent
    Keys,          \* channel keys
    Topics,        \* topics
    Limits,        \* arguments of MODE +l, as atoi reads them
    Words,         \* words of messages
    NoticeWords    \* the words of the "has left the channel" notice

NoSocket == -1     \* _client_socket of a default Client

ASSUME SocketsAssumption    == Sockets \subseteq Nat /\ IsFiniteSet(Sockets)
ASSUME MaxClientsAssumption == MaxClients \in Nat
ASSUME NicksAssumption ==
    /\ ShortNicks \subseteq ValidNicks
    /\ ValidNicks \subseteq Nicks
    /\ DefaultNick \in Nicks
    /\ NoNick \notin Nicks
ASSUME TextsAssumption ==
    /\ NoKey \notin Keys
    /\ NoTopic \notin Topics
    /\ Limits \subseteq Int
    /\ DefaultBannedWords \subseteq Words

VARIABLES
    clients,       \* _clients: descriptor -> what the Client object says
    nicknames,     \* _nicknames: the names that are taken
    channels,      \* _channels: name -> record of module Channel
    channelOrder   \* _channelOrder: channel names, oldest first

vars == <<clients, nicknames, channels, channelOrder>>

ClientRecord == [sock : Sockets \cup {NoSocket}, nick : Nicks \cup {NoNick}]
ChannelRecord ==
    [ members     : SUBSET (Sockets \cup {NoSocket}),
      operators   : SUBSET Sockets,
      invited     : SUBSET Sockets,
      topic       : Topics \cup {NoTopic},
      key         : Keys \cup {NoKey},
      topicRight  : BOOLEAN,
      maxMembers  : Nat \ {0},
      inviteOnly  : BOOLEAN,
      bannedWords : SUBSET Words ]

------------------------------------------------------------------------------
(* std::map.  Reading m[k] with operator[] inserts a default value when k  *)
(* is absent: Touch is what _clients[memberSocket] does for every member   *)
(* a notice is sent to.                                                    *)
Default         == [sock |-> NoSocket, nick |-> DefaultNick]
Put(m, k, v)    == [x \in DOMAIN m \cup {k} |-> IF x = k THEN v ELSE m[x]]
Erase(m, K)     == Restrict(m, DOMAIN m \ K)
Touch(cl, S)    == [x \in DOMAIN cl \cup S |->
                        IF x \in DOMAIN cl THEN cl[x] ELSE Default]

(* The connections: the key NoSocket is an entry operator[] made up.       *)
Connected == DOMAIN clients \ {NoSocket}

inChannel(f, c) == c \in DOMAIN channels /\ isMember(channels[c], clients[f].sock)

(* The tests before MODE i, t, k, l and b: a member and an operator.       *)
mayChangeModeFaulty(f, c) == inChannel(f, c)
mayChangeMode(f, c) == inChannel(f, c) /\ isOperator(channels[c], clients[f].sock)

(* findUserSocket: the socket in the first entry with that name, which may *)
(* be NoSocket.  Its callers take NoSocket for "not found".                *)
findUserSocket(n, s) ==
    \E g \in DOMAIN clients :
        /\ clients[g].nick = n
        /\ clients[g].sock = s
        /\ \A h \in DOMAIN clients : clients[h].nick = n => g <= h

isFoundFaulty(s) == TRUE
isFound(s) == s # NoSocket

------------------------------------------------------------------------------
(* The ways the two channel containers are written.                        *)

removeFromOrderFaulty(C) == channelOrder
removeFromOrder(C) ==
    LET kept[k \in 0..Len(channelOrder)] ==
            IF k = 0 THEN <<>>
            ELSE IF channelOrder[k] \in C THEN kept[k - 1]
            ELSE Append(kept[k - 1], channelOrder[k])
    IN kept[Len(channelOrder)]

(* std::remove(order.begin(), order.end(), order[i]).  The plain text of a *)
(* client reaches the bot with a reference into _channelOrder as channel   *)
(* name, and so does std::remove: it moves each element that differs from  *)
(* the i-th to the front, and the i-th itself may be overwritten meanwhile.*)
removeInPlace(order, i) ==
    LET loop[k \in 0..Len(order)] ==
            IF k = 0 THEN [seq |-> order, kept |-> 0]
            ELSE LET b == loop[k - 1] IN
                 IF b.seq[k] = b.seq[i] THEN b
                 ELSE [seq  |-> [b.seq EXCEPT ![b.kept + 1] = b.seq[k]],
                       kept |-> b.kept + 1]
        last == loop[Len(order)]
    IN SubSeq(last.seq, 1, last.kept)

update(c, ch) ==
    /\ channels' = [channels EXCEPT ![c] = ch]
    /\ UNCHANGED channelOrder

destroy(C, order) ==
    /\ channels' = Erase(channels, C)
    /\ channelOrder' = order

(* PART and the bot take one member out, tell the others, and destroy the  *)
(* channel when nobody is left; order is what std::remove then makes of    *)
(* _channelOrder.                                                          *)
removeMemberFromFaulty(c, s, order) ==
    LET ch == removeMember(channels[c], s) IN
    /\ clients' = Touch(clients, ch.members)
    /\ update(c, ch)
removeMemberFrom(c, s, order) ==
    LET ch == removeMember(channels[c], s) IN
    /\ clients' = Touch(clients, ch.members)
    /\ IF ch.members = {} THEN destroy({c}, order) ELSE update(c, ch)

(* partAllChannels takes the socket out of every list of every channel and *)
(* destroys the channels this empties.  A channel that was empty before is *)
(* kept: only the channels the client was a member of are looked at.       *)
partAllChannels(s) ==
    LET emptied == {c \in DOMAIN channels : channels[c].members = {s}} IN
    /\ channels' = [c \in DOMAIN channels \ emptied |-> forget(channels[c], s)]
    /\ channelOrder' = removeFromOrder(emptied)

(* The entries its leave notice touches: broadcastMessageToChannel looks   *)
(* the members up with find and only the leaver with operator[], and does  *)
(* so only when it has somebody to write to or something to complain of.   *)
noticeTouches(s) ==
    {x \in {s} : \E c \in DOMAIN channels :
        /\ isMember(channels[c], s)
        /\ \/ hasBannedWord(channels[c], NoticeWords)
           \/ (channels[c].members \ {s}) \cap DOMAIN clients # {}}

------------------------------------------------------------------------------
(* Connecting.  accept returns the lowest descriptor that is not open, so  *)
(* the number of a client that left is the next one to be used.            *)

accept(fd) ==
    LET free == Sockets \ DOMAIN clients IN
    /\ fd \in free
    /\ \A g \in free : fd <= g

isNicknameAvailableFaulty(n) == TRUE
isNicknameAvailable(n) == n \notin nicknames

removeNicknameFaulty(n) == nicknames
removeNickname(n) == nicknames \ ({n} \ {NoNick})

addUser(fd, n) ==
    /\ clients' = Put(clients, fd, [sock |-> fd, nick |-> n])
    /\ nicknames' = nicknames \cup {n}

(* Nothing received for 50 ms: the dialogue for netcat, to its end.  It    *)
(* asks for a nickname until it gets one of 1 to 9 characters that passes  *)
(* checkName and is not taken...                                           *)
setNickName(n) == n \in ShortNicks /\ isNicknameAvailable(n)

parsingDataNetcat(fd) == \E n \in Nicks : setNickName(n) /\ addUser(fd, n)

(* ... or until the peer goes away: addUser runs with two empty names, and *)
(* the entry it makes is erased again, but not the empty nickname.         *)
registrationAborted(fd) ==
    /\ nicknames' = nicknames \cup {NoNick}
    /\ UNCHANGED clients

(* "CAP LS" received with the right password: the names of the NICK and    *)
(* USER lines, whatever they are, or empty ones when a line is missing.    *)
parsingDataIrssi(fd) ==
    \E n \in Nicks \cup {NoNick} : addUser(fd, n)

(* Anything else received: detectClient does nothing, and the connection   *)
(* keeps the default Client that acceptNewConnection stored.               *)
leftUnregistered(fd) ==
    /\ clients' = Put(clients, fd, Default)
    /\ UNCHANGED nicknames

(* "CAP LS" with a wrong password or none: closed and erased again.  With  *)
(* a line PASS that has nothing behind it substr throws instead and the    *)
(* process ends: no step follows.                                          *)
refused(fd) == UNCHANGED <<clients, nicknames>>

detectClient(fd) ==
    \/ "netcat" \in Kinds /\ parsingDataNetcat(fd)
    \/ "netcat" \in Kinds /\ registrationAborted(fd)
    \/ "irssi"  \in Kinds /\ parsingDataIrssi(fd)
    \/ "refused" \in Kinds /\ refused(fd)
    \/ "other"  \in Kinds /\ leftUnregistered(fd)

acceptNewConnection(fd) ==
    /\ Cardinality(DOMAIN clients) < MaxClients
    /\ accept(fd)
    /\ detectClient(fd)
    /\ UNCHANGED <<channels, channelOrder>>

------------------------------------------------------------------------------
(* Leaving the server.                                                     *)

(* handleClientMessage when recv returns no data.                          *)
disconnectFaulty(f) ==
    /\ clients' = Erase(clients, {f})
    /\ nicknames' = removeNickname(clients[f].nick)
    /\ UNCHANGED <<channels, channelOrder>>
disconnect(f) ==
    LET me == clients[f] IN
    /\ partAllChannels(me.sock)
    /\ clients' = Erase(Touch(clients, noticeTouches(me.sock)), {f})
    /\ nicknames' = removeNickname(me.nick)

(* QUIT erases the entry of the client's own socket number.  For a default *)
(* Client that is the entry NoSocket, and the connection stays.            *)
quitCmdClientFaulty(f) ==
    /\ clients' = Erase(clients, {clients[f].sock})
    /\ nicknames' = removeNickname(clients[f].nick)
    /\ UNCHANGED <<channels, channelOrder>>
quitCmdClient(f) ==
    LET me == clients[f] IN
    /\ partAllChannels(me.sock)
    /\ clients' = Erase(clients, {me.sock})
    /\ nicknames' = removeNickname(me.nick)

nickCmdClient(f, n) ==
    /\ n \in ValidNicks
    /\ isNicknameAvailable(n)
    /\ clients' = [clients EXCEPT ![f].nick = n]
    /\ nicknames' = removeNickname(clients[f].nick) \cup {n}
    /\ UNCHANGED <<channels, channelOrder>>

------------------------------------------------------------------------------
(* Entering and leaving channels.                                          *)

(* JOIN for one name of its list.  A channel that does not exist is made   *)
(* first and then tested like any other; having no key, no member and no   *)
(* +i it admits its creator, so none is made without being entered.        *)
createdIn(c) == IF c \in DOMAIN channels THEN channels[c] ELSE newChannel

handleChannel(f, c, k) ==
    LET s  == clients[f].sock
        ch == addMember(createdIn(c), s)
    IN
    /\ ~ inChannel(f, c)
    /\ admits(createdIn(c), s, k)
    /\ channels' = Put(channels, c, ch)
    /\ channelOrder' = IF c \in DOMAIN channels THEN channelOrder
                                                ELSE Append(channelOrder, c)
    /\ clients' = Touch(clients, ch.members)
    /\ UNCHANGED nicknames

partCmdClientCommon(f, c) ==
    /\ inChannel(f, c)
    /\ removeMemberFrom(c, clients[f].sock, removeFromOrder({c}))
    /\ UNCHANGED nicknames

(* KICK asks for an operator, who need not be a member any more, and does  *)
(* not look whether anybody is left.                                       *)
kickCmdClient(f, c, n) ==
    \E s \in Sockets \cup {NoSocket} :
        /\ c \in DOMAIN channels
        /\ isOperator(channels[c], clients[f].sock)
        /\ findUserSocket(n, s) /\ isFound(s)
        /\ isMember(channels[c], s)
        /\ update(c, forget(channels[c], s))
        /\ clients' = Touch(clients, channels[c].members \ {s})
        /\ UNCHANGED nicknames

inviteCmdClientFaulty(f, c, n) ==
    \E s \in Sockets \cup {NoSocket} :
        /\ c \in DOMAIN channels
        /\ findUserSocket(n, s) /\ isFound(s)
        /\ ~ isMember(channels[c], s)
        /\ update(c, addInvitedMember(channels[c], s))
        /\ clients' = Touch(clients, channels[c].members)
        /\ UNCHANGED nicknames
inviteCmdClient(f, c, n) ==
    \E s \in Sockets \cup {NoSocket} :
        /\ inChannel(f, c)
        /\ findUserSocket(n, s) /\ isFound(s)
        /\ ~ isMember(channels[c], s)
        /\ update(c, addInvitedMember(channels[c], s))
        /\ clients' = Touch(clients, channels[c].members)
        /\ UNCHANGED nicknames

------------------------------------------------------------------------------
(* MODE.  Every mode but k and b tells the members, which touches their    *)
(* entries; k and b answer the operator alone.                             *)

tellMembers(c) ==
    /\ clients' = Touch(clients, channels[c].members)
    /\ UNCHANGED nicknames

modeICmd(f, c) ==
    /\ "i" \in Modes
    /\ mayChangeMode(f, c)
    /\ \E b \in BOOLEAN : update(c, [channels[c] EXCEPT !.inviteOnly = b])
    /\ tellMembers(c)

modeTCmd(f, c) ==
    /\ "t" \in Modes
    /\ mayChangeMode(f, c)
    /\ \E b \in BOOLEAN : update(c, [channels[c] EXCEPT !.topicRight = b])
    /\ tellMembers(c)

(* +k is refused while a key is set.                                       *)
modeKCmd(f, c) ==
    /\ "k" \in Modes
    /\ mayChangeMode(f, c)
    /\ \/ /\ channels[c].key = NoKey
          /\ \E k \in Keys : update(c, [channels[c] EXCEPT !.key = k])
       \/ update(c, [channels[c] EXCEPT !.key = NoKey])
    /\ UNCHANGED <<clients, nicknames>>

(* +l sets a positive limit.  -l passes the tests and does nothing.        *)
isValidLimitFaulty(l) == l >= 0
isValidLimit(l) == l > 0

modeLCmd(f, c) ==
    /\ "l" \in Modes
    /\ mayChangeMode(f, c)
    /\ \E l \in Limits :
          /\ isValidLimit(l)
          /\ update(c, [channels[c] EXCEPT !.maxMembers = l])
    /\ tellMembers(c)

(* The member MODE +o/-o means: the first one of that name in the channel. *)
(* The search goes through getClientBySocket, so every member's entry it   *)
(* reads exists afterwards; a default entry gives NoSocket, "not found".   *)
namedMemberFaulty(c, n, s) == findUserSocket(n, s)
namedMember(c, n, s) ==
    LET entries == Touch(clients, channels[c].members) IN
    \E m \in channels[c].members :
        entries[m].nick = n /\ entries[m].sock = s

(* Any member may give and take the operator right.                        *)
modeOCmd(f, c, n) ==
    /\ "o" \in Modes
    /\ inChannel(f, c)
    /\ \/ \E s \in Sockets \cup {NoSocket} :
            /\ namedMember(c, n, s) /\ isFound(s)
            /\ \/ update(c, addOperator(channels[c], s))
               \/ update(c, removeOperator(channels[c], s))
       \/ /\ \/ \A s \in Sockets : ~ namedMember(c, n, s)
             \/ namedMember(c, n, NoSocket)
          /\ UNCHANGED <<channels, channelOrder>>
    /\ tellMembers(c)

modeBCmd(f, c) ==
    /\ "b" \in Modes
    /\ mayChangeMode(f, c)
    /\ \E w \in Words :
          \/ update(c, [channels[c] EXCEPT !.bannedWords = @ \cup {w}])
          \/ update(c, [channels[c] EXCEPT !.bannedWords = @ \ {w}])
    /\ UNCHANGED <<clients, nicknames>>

modeCmdClient(f, c) ==
    \/ modeICmd(f, c)
    \/ modeTCmd(f, c)
    \/ modeKCmd(f, c)
    \/ modeLCmd(f, c)
    \/ modeBCmd(f, c)
    \/ \E n \in Nicks : modeOCmd(f, c, n)

------------------------------------------------------------------------------
(* Talking.                                                                *)

(* The topic text ":" is answered "No topic set" and changes nothing.      *)
topicCmdClient(f, c, t) ==
    /\ inChannel(f, c)
    /\ channels[c].topicRight => isOperator(channels[c], clients[f].sock)
    /\ update(c, [channels[c] EXCEPT !.topic = t])
    /\ tellMembers(c)

(* A message for the channel, or the bot's answer to a banned word.        *)
say(f, c, msg, order) ==
    /\ IF hasBannedWord(channels[c], msg)
       THEN removeMemberFrom(c, clients[f].sock, order)
       ELSE /\ clients' = Touch(clients, channels[c].members)
            /\ UNCHANGED <<channels, channelOrder>>
    /\ UNCHANGED nicknames

(* PRIVMSG for one target of its list that is a channel.                   *)
sendMessageToChannel(f, c, msg) ==
    inChannel(f, c) /\ say(f, c, msg, removeFromOrder({c}))

(* Text that is no command goes to the youngest channel of the client.     *)
handleUnknownCommand(f, msg) ==
    \E i \in DOMAIN channelOrder :
        /\ inChannel(f, channelOrder[i])
        /\ \A j \in DOMAIN channelOrder : inChannel(f, channelOrder[j]) => j <= i
        /\ say(f, channelOrder[i], msg, removeInPlace(channelOrder, i))

(* Who gets a message sent to a user: the socket in the first entry with   *)
(* that name, none when it is NoSocket.  Forwarding it changes nothing.    *)
sendMessageToUser(n) == {s \in Sockets : findUserSocket(n, s)}

(* What LIST answers, "user" or "channel"; it changes nothing.  A member   *)
(* without an entry in _clients is left out.                               *)
UserList == nicknames
channelListMembers(c) ==
    {clients[f].nick : f \in channels[c].members \cap DOMAIN clients}
channelList ==
    [i \in DOMAIN channelOrder |-> [name  |-> channelOrder[i],
                                    users |-> channelListMembers(channelOrder[i])]]

------------------------------------------------------------------------------
Init ==
    /\ clients      = <<>>
    /\ nicknames    = {}
    /\ channels     = <<>>
    /\ channelOrder = <<>>

Messages == SUBSET Words \ {{}}

channelCommand(f, c) ==
    \/ \E k \in Keys \cup {NoKey} : handleChannel(f, c, k)
    \/ partCmdClientCommon(f, c)
    \/ \E n \in Nicks : kickCmdClient(f, c, n)
    \/ \E n \in Nicks : inviteCmdClient(f, c, n)
    \/ modeCmdClient(f, c)
    \/ \E t \in Topics : topicCmdClient(f, c, t)
    \/ \E msg \in Messages : sendMessageToChannel(f, c, msg)

handleClientMessage(f) ==
    \/ disconnect(f)
    \/ quitCmdClient(f)
    \/ \E n \in ValidNicks : nickCmdClient(f, n)
    \/ \E c \in ChannelNames : channelCommand(f, c)
    \/ \E msg \in Messages : handleUnknownCommand(f, msg)

Next ==
    \/ \E fd \in Sockets : acceptNewConnection(fd)
    \/ \E f \in Connected : handleClientMessage(f)

Spec == Init /\ [][Next]_vars

------------------------------------------------------------------------------
(* Properties                                                              *)

TypeOK ==
    /\ DOMAIN clients \subseteq Sockets \cup {NoSocket}
    /\ \A f \in DOMAIN clients : clients[f] \in ClientRecord
    /\ nicknames \subseteq Nicks \cup {NoNick}
    /\ DOMAIN channels \subseteq ChannelNames
    /\ \A c \in DOMAIN channels : channels[c] \in ChannelRecord

(* An entry of _clients is filed under its own descriptor or holds the     *)
(* default record: detectClient sets the socket of the entry it got by     *)
(* number, and what operator[] makes up is a default record.               *)
SocketIdentity ==
    /\ \A f \in DOMAIN clients : clients[f].sock \in {f, NoSocket}
    /\ NoSocket \in DOMAIN clients => clients[NoSocket].sock = NoSocket

mentioned(ch) == ch.members \cup ch.operators \cup ch.invited

(* No channel remembers a client that is gone, in any of its three lists.  *)
(* The channels hold bare descriptors and accept hands out the number of a *)
(* closed one again, so a number that QUIT, the end of the connection or a *)
(* KICK left behind would give its member, operator or invited status to   *)
(* the next client.                                                        *)
NoStaleSocket ==
    \A c \in DOMAIN channels :
        mentioned(channels[c]) \subseteq {clients[f].sock : f \in Connected}

(* The consequence for the next client: acceptNewConnection never makes a  *)
(* client whose descriptor some channel already lists.                     *)
FreshSocketInheritsNothing ==
    [][\A f \in (DOMAIN clients)' \ DOMAIN clients : \A c \in DOMAIN channels' :
          f # NoSocket => f \notin mentioned(channels'[c])]_vars

(* The connections behave as module Connections says, whatever commands    *)
(* are issued between a connection's start and end: entries that           *)
(* operator[] makes up never take a descriptor, and QUIT or the end of the *)
(* connection gives up no other client's.                                  *)
Abstract == INSTANCE Connections WITH established <- Connected, running <- TRUE
ImplementsConnections == Abstract!Spec

(* Looking members up with operator[] never makes an entry up, as long as  *)
(* every connection registers: each member a notice is sent to has its     *)
(* entry, so each entry is a registered client and counts once towards     *)
(* _MAX_CLIENTS.                                                           *)
EveryEntryRegistered ==
    \A f \in DOMAIN clients : f # NoSocket /\ clients[f].sock = f

(* _channels and _channelOrder agree: the list used to find the channel of *)
(* a message names exactly the channels of the map, each of them once.     *)
DirectoryInSync ==
    /\ {channelOrder[i] : i \in DOMAIN channelOrder} = DOMAIN channels
    /\ \A i, j \in DOMAIN channelOrder : channelOrder[i] = channelOrder[j] => i = j

(* No name stays taken once nobody has it: a name in _nicknames is the     *)
(* name of a connected client, through every NICK, QUIT and loss of a      *)
(* connection.  The empty name is never offered, so its entry harms nobody.*)
NicknamesInUse ==
    nicknames \ {NoNick} \subseteq {clients[f].nick : f \in Connected}

(* When every client registers through the netcat dialogue, two clients    *)
(* never have one name, and the name of each is taken in _nicknames.       *)
NickOwnership ==
    /\ \A f \in Connected : clients[f].nick \in nicknames
    /\ \A f, g \in Connected : clients[f].nick = clients[g].nick => f = g

(* When every client registers through netcat, a message to a name reaches *)
(* its owner and nobody else, and one to a name nobody has reaches nobody. *)
(* It takes a list of one channel left uncleaned to break this: the next   *)
(* notice makes up an entry called "nickname", which answers to the name.  *)
MessagesReachOwner ==
    \A n \in Nicks :
        sendMessageToUser(n) = {f \in Connected : clients[f].nick = n}

(* When every client registers through netcat, LIST tells the truth: users *)
(* are those connected, and each channel comes with a name for each of its *)
(* members.  Four containers must agree for that, and names be unique.     *)
ListTruthful ==
    /\ UserList \ {NoNick} = {clients[f].nick : f \in Connected}
    /\ DOMAIN channels \subseteq {channelList[i].name : i \in DOMAIN channelList}
    /\ \A i \in DOMAIN channelList :
          Cardinality(channelList[i].users)
              = Cardinality(channels[channelList[i].name].members)

(* A channel that goes on existing without a member lost the last one to a *)
(* KICK: PART, the bot, QUIT and the end of a connection destroy what they *)
(* empty, and a new channel is entered by its creator.                     *)
OnlyKickEmpties ==
    [][\A c \in DOMAIN channels' :
          /\ channels'[c].members = {}
          /\ c \in DOMAIN channels => channels[c].members # {}
          => \E f \in Connected : \E n \in Nicks : kickCmdClient(f, c, n)]_vars

locked(c) ==
    /\ c \in DOMAIN channels
    /\ channels[c].members = {}
    /\ channels[c].inviteOnly
    /\ channels[c].invited = {}

(* What becomes of an invite-only channel emptied that way: nobody can     *)
(* enter it, invite to it, change its modes or make it go away, ever,      *)
(* since INVITE and MODE ask for a member and JOIN for an invitation.      *)
LockedForever == [][\A c \in ChannelNames : locked(c) => locked(c)']_vars

(* Nothing but that closes a channel: while somebody is connected, an      *)
(* emptied channel that is not locked can be entered by some client who    *)
(* knows its key.  Whoever is still on its list of invitations is there    *)
(* to use it, and no limit that MODE accepted shuts everybody out.         *)
OnlyLockedIsClosed ==
    \A c \in DOMAIN channels :
        channels[c].members = {} /\ ~ locked(c) /\ Connected # {} =>
            \E f \in Connected :
                admits(channels[c], clients[f].sock, channels[c].key)

(* A channel grows by one member at a time, only while there is room under *)
(* its limit, and, when it is +i, only by a client somebody invited; the   *)
(* limit may be lowered under the number of members but not outgrown.  An  *)
(* invitation is not used up: one lets its holder in after every PART.     *)
GrowthAdmitted ==
    [][\A c \in DOMAIN channels \cap DOMAIN channels' :
          LET entered == channels'[c].members \ channels[c].members IN
          entered # {} =>
             /\ Cardinality(entered) = 1
             /\ getMembersCount(channels'[c]) <= channels[c].maxMembers
             /\ channels[c].inviteOnly => entered \subseteq channels[c].invited]_vars

settings(ch) ==
    <<ch.key, ch.topicRight, ch.maxMembers, ch.inviteOnly, ch.bannedWords>>

(* The settings of a channel only change while an operator is in it, and   *)
(* under +t so does its topic.  An operator who left with PART keeps the   *)
(* right but cannot use it on the settings.                                *)
OnlyOperatorsChangeSettings ==
    [][\A c \in DOMAIN channels \cap DOMAIN channels' :
          \/ settings(channels[c]) # settings(channels'[c])
          \/ channels[c].topicRight /\ channels[c].topic # channels'[c].topic
          => channels[c].members \cap channels[c].operators # {}]_vars

(* The operator right is only given to a client that is in the channel at  *)
(* that moment, whatever client of that name exists elsewhere.             *)
OnlyMembersPromoted ==
    [][\A c \in DOMAIN channels \cap DOMAIN channels' :
          channels'[c].operators \subseteq
              channels[c].operators \cup channels[c].members]_vars
==============================================================================
