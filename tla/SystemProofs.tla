------------------------------ MODULE SystemProofs ------------------------------
(***************************************************************************)
(* Proofs about System for every value of its constants.  What is proved   *)
(* of the loop and of the tables is used through instances; here is what   *)
(* joins them: every event the loop reads is one the tables expect.        *)
(***************************************************************************)
EXTENDS System, FiniteSetTheorems, TLAPS

TP == INSTANCE IRCServerProofs
LP == INSTANCE PollLoopProofs WITH clients <- served

(* What is assumed of the constants is what both modules assume.           *)
LEMMA TablesAssume ==
    /\ TP!SocketsAssumption /\ TP!MaxClientsAssumption /\ TP!NicksAssumption
    /\ TP!TextsAssumption /\ TP!DefaultMaxMembersAssumption
BY LoopAssumption, TablesAssumption
   DEF TP!SocketsAssumption, TP!MaxClientsAssumption, TP!NicksAssumption,
       TP!TextsAssumption, TP!DefaultMaxMembersAssumption, Loop!Listening,
       IsFiniteSet, TP!IsFiniteSet

LEMMA LoopAssume ==
    /\ LP!SocketsAssumption /\ LP!FdsSizeAssumption
    /\ LP!BoundsAssumption /\ LP!LinesAssumption
BY LoopAssumption
   DEF LP!SocketsAssumption, LP!FdsSizeAssumption, LP!BoundsAssumption,
       LP!LinesAssumption, Loop!Listening, LP!Listening, Loop!NoLine, LP!NoLine

------------------------------------------------------------------------------
(* The actions System is made of are those the theorems are about: each    *)
(* pair has the same definition, from two instances of one module.         *)

LEMMA LoopInit == Loop!Init => LP!Init
BY DEF Loop!Init, LP!Init, Loop!Closed, LP!Closed, Loop!Listening, LP!Listening,
       Loop!Stdin, LP!Stdin, Loop!NoLine, LP!NoLine

LEMMA LoopPeers ==
    ASSUME Loop!connect \/ \E fd \in Sockets : Loop!send(fd) \/ Loop!hangUp(fd)
    PROVE  LP!Environment
BY DEF LP!Environment, Loop!connect, LP!connect, Loop!send, LP!send, Loop!hangUp, LP!hangUp,
       Loop!tables, LP!tables, Loop!Fresh, LP!Fresh

LEMMA LoopPoll == Loop!poll => LP!poll
BY DEF Loop!poll, LP!poll, Loop!ready, LP!ready, Loop!readable, LP!readable,
       Loop!Listening, LP!Listening, Loop!Stdin, LP!Stdin, Loop!NoLine, LP!NoLine

LEMMA LoopEndOfRound == Loop!endOfRound => LP!endOfRound
BY DEF Loop!endOfRound, LP!endOfRound, Loop!tables, LP!tables

LEMMA LoopNewcomer == Loop!newcomer = LP!newcomer
BY DEF Loop!newcomer, LP!newcomer

LEMMA LoopAccept == Loop!acceptNewConnection => LP!acceptNewConnection
BY DEF Loop!acceptNewConnection, LP!acceptNewConnection, Loop!atSlot, LP!atSlot,
       Loop!isServerFull, LP!isServerFull, Loop!madeUpEntry, LP!madeUpEntry,
       Loop!detectClient, LP!detectClient, Loop!tables, LP!tables,
       Loop!detectionAborted, LP!detectionAborted, Loop!abort, LP!abort,
       Loop!Closed, LP!Closed,
       Loop!Listening, LP!Listening, Loop!Fresh, LP!Fresh,
       Loop!Cardinality, LP!Cardinality

LEMMA LoopDialogue ==
    Loop!dialogue => LP!dialogue /\ (LP!answered(LP!newcomer) \/ LP!abandoned(LP!newcomer))
BY DEF Loop!dialogue, LP!dialogue, Loop!answered, LP!answered,
       Loop!abandoned, LP!abandoned, Loop!newcomer, LP!newcomer,
       Loop!tables, LP!tables, Loop!Closed, LP!Closed,
       Loop!shiftOut, LP!shiftOut, Loop!first, LP!first

LEMMA LoopLeave == ASSUME NEW fd PROVE Loop!leave(fd) <=> LP!leave(fd)
BY DEF Loop!leave, LP!leave, Loop!Closed, LP!Closed, Loop!swapOut, LP!swapOut,
       Loop!slotsOf, LP!slotsOf, Loop!first, LP!first, Loop!table, LP!table

LEMMA LoopMessage == Loop!handleClientMessage => LP!handleClientMessage
BY LoopLeave
   DEF Loop!handleClientMessage, LP!handleClientMessage, Loop!atSlot, LP!atSlot,
       Loop!returns, LP!returns, Loop!readable, LP!readable, Loop!tables, LP!tables

(* The tables.                                                             *)
LEMMA TableMaps ==
    /\ \A m, k, v : Tables!Put(m, k, v) = TP!Put(m, k, v)
    /\ \A m, K : Tables!Erase(m, K) = TP!Erase(m, K)
    /\ \A m, S : Tables!Touch(m, S) = TP!Touch(m, S)
    /\ Tables!Default = TP!Default
    /\ Tables!Connected = TP!Connected
    /\ \A n : Tables!removeNickname(n) = TP!removeNickname(n)
    /\ \A s : Tables!noticeTouches(s) = TP!noticeTouches(s)
BY DEF Tables!Put, TP!Put, Tables!Erase, TP!Erase, Tables!Restrict, TP!Restrict,
       Tables!Touch, TP!Touch, Tables!Default, TP!Default, Tables!NoSocket, TP!NoSocket,
       Tables!Connected, TP!Connected, Tables!removeNickname, TP!removeNickname,
       Tables!noticeTouches, TP!noticeTouches, Tables!isMember, TP!isMember,
       Tables!hasBannedWord, TP!hasBannedWord

LEMMA TablePartAll ==
    ASSUME NEW s
    PROVE  Tables!partAllChannels(s) <=> TP!partAllChannels(s)
BY DEF Tables!partAllChannels, TP!partAllChannels, Tables!forget, TP!forget,
       Tables!removeMember, TP!removeMember, Tables!removeOperator, TP!removeOperator,
       Tables!removeInvitedMember, TP!removeInvitedMember,
       Tables!removeFromOrder, TP!removeFromOrder

LEMMA TableLeavers ==
    ASSUME NEW f
    PROVE  /\ Tables!disconnect(f) <=> TP!disconnect(f)
           /\ Tables!quitCmdClient(f) <=> TP!quitCmdClient(f)
BY TableMaps, TablePartAll
   DEF Tables!disconnect, TP!disconnect, Tables!quitCmdClient, TP!quitCmdClient

LEMMA TableNick ==
    ASSUME NEW f, NEW n, Tables!nickCmdClient(f, n)
    PROVE  TP!nickCmdClient(f, n)
BY TableMaps
   DEF Tables!nickCmdClient, TP!nickCmdClient,
       Tables!isNicknameAvailable, TP!isNicknameAvailable

LEMMA TableJoinPart ==
    ASSUME NEW f, NEW c
    PROVE  /\ \A k : Tables!handleChannel(f, c, k) => TP!handleChannel(f, c, k)
           /\ Tables!partCmdClientCommon(f, c) => TP!partCmdClientCommon(f, c)
<1>1. ASSUME NEW k, Tables!handleChannel(f, c, k)
      PROVE  TP!handleChannel(f, c, k)
  BY <1>1
     DEF Tables!handleChannel, TP!handleChannel, Tables!inChannel, TP!inChannel,
         Tables!isMember, TP!isMember, Tables!admits, TP!admits,
         Tables!createdIn, TP!createdIn, Tables!newChannel, TP!newChannel,
         Tables!addMember, TP!addMember, Tables!isFull, TP!isFull,
         Tables!getMembersCount, TP!getMembersCount,
         Tables!isInvitedMember, TP!isInvitedMember, Tables!Put, TP!Put,
         Tables!Touch, TP!Touch, Tables!Default, TP!Default,
         Tables!NoSocket, TP!NoSocket, Tables!Cardinality, TP!Cardinality
<1>2. ASSUME Tables!partCmdClientCommon(f, c)
      PROVE  TP!partCmdClientCommon(f, c)
  BY <1>2
     DEF Tables!partCmdClientCommon, TP!partCmdClientCommon,
         Tables!inChannel, TP!inChannel, Tables!isMember, TP!isMember,
         Tables!removeMemberFrom, TP!removeMemberFrom,
         Tables!removeMember, TP!removeMember, Tables!update, TP!update,
         Tables!destroy, TP!destroy, Tables!Erase, TP!Erase,
         Tables!Restrict, TP!Restrict, Tables!removeFromOrder, TP!removeFromOrder,
         Tables!Touch, TP!Touch, Tables!Default, TP!Default,
         Tables!NoSocket, TP!NoSocket
<1> QED BY <1>1, <1>2

LEMMA TableKickInvite ==
    ASSUME NEW f, NEW c, NEW n
    PROVE  /\ Tables!kickCmdClient(f, c, n) => TP!kickCmdClient(f, c, n)
           /\ Tables!inviteCmdClient(f, c, n) => TP!inviteCmdClient(f, c, n)
BY DEF Tables!kickCmdClient, TP!kickCmdClient, Tables!inviteCmdClient, TP!inviteCmdClient,
       Tables!inChannel, TP!inChannel, Tables!isMember, TP!isMember,
       Tables!isOperator, TP!isOperator, Tables!isFound, TP!isFound,
       Tables!findUserSocket, TP!findUserSocket, Tables!update, TP!update,
       Tables!forget, TP!forget, Tables!removeMember, TP!removeMember,
       Tables!removeOperator, TP!removeOperator,
       Tables!removeInvitedMember, TP!removeInvitedMember,
       Tables!addInvitedMember, TP!addInvitedMember,
       Tables!Touch, TP!Touch, Tables!Default, TP!Default,
       Tables!NoSocket, TP!NoSocket

LEMMA TableMode ==
    ASSUME NEW f, NEW c, Tables!modeCmdClient(f, c)
    PROVE  TP!modeCmdClient(f, c)
<1>1. ASSUME NEW n, Tables!modeOCmd(f, c, n)
      PROVE  TP!modeOCmd(f, c, n)
  BY <1>1
     DEF Tables!modeOCmd, TP!modeOCmd, Tables!inChannel, TP!inChannel,
         Tables!isMember, TP!isMember, Tables!namedMember, TP!namedMember,
         Tables!isFound, TP!isFound, Tables!update, TP!update,
         Tables!addOperator, TP!addOperator, Tables!removeOperator, TP!removeOperator,
         Tables!tellMembers, TP!tellMembers, Tables!Touch, TP!Touch,
         Tables!Default, TP!Default, Tables!NoSocket, TP!NoSocket
<1>2. \/ TP!modeICmd(f, c) \/ TP!modeTCmd(f, c) \/ TP!modeKCmd(f, c)
      \/ TP!modeLCmd(f, c) \/ TP!modeBCmd(f, c)
      \/ \E n \in Nicks : Tables!modeOCmd(f, c, n)
  BY DEF Tables!modeCmdClient, Tables!modeICmd, TP!modeICmd, Tables!modeTCmd, TP!modeTCmd,
         Tables!modeKCmd, TP!modeKCmd, Tables!modeLCmd, TP!modeLCmd,
         Tables!modeBCmd, TP!modeBCmd, Tables!mayChangeMode, TP!mayChangeMode,
         Tables!inChannel, TP!inChannel, Tables!isMember, TP!isMember,
         Tables!isOperator, TP!isOperator, Tables!isValidLimit, TP!isValidLimit,
         Tables!update, TP!update, Tables!tellMembers, TP!tellMembers,
         Tables!Touch, TP!Touch, Tables!Default, TP!Default,
         Tables!NoSocket, TP!NoSocket
<1> QED BY <1>1, <1>2 DEF TP!modeCmdClient

LEMMA TableTalk ==
    ASSUME NEW f, NEW c, NEW msg
    PROVE  /\ Tables!sendMessageToChannel(f, c, msg) => TP!sendMessageToChannel(f, c, msg)
           /\ Tables!handleUnknownCommand(f, msg) => TP!handleUnknownCommand(f, msg)
           /\ \A t : Tables!topicCmdClient(f, c, t) => TP!topicCmdClient(f, c, t)
BY DEF Tables!sendMessageToChannel, TP!sendMessageToChannel,
       Tables!handleUnknownCommand, TP!handleUnknownCommand,
       Tables!topicCmdClient, TP!topicCmdClient,
       Tables!inChannel, TP!inChannel, Tables!isMember, TP!isMember,
       Tables!isOperator, TP!isOperator, Tables!say, TP!say,
       Tables!hasBannedWord, TP!hasBannedWord, Tables!tellMembers, TP!tellMembers,
       Tables!removeMemberFrom, TP!removeMemberFrom,
       Tables!removeMember, TP!removeMember, Tables!update, TP!update,
       Tables!destroy, TP!destroy, Tables!Erase, TP!Erase,
       Tables!Restrict, TP!Restrict, Tables!removeFromOrder, TP!removeFromOrder,
       Tables!removeInPlace, TP!removeInPlace,
       Tables!Touch, TP!Touch, Tables!Default, TP!Default,
       Tables!NoSocket, TP!NoSocket

LEMMA TableCommand ==
    ASSUME NEW f, command(f)
    PROVE  \/ UNCHANGED tableVars
           \/ f \in anonymous /\ TP!quitCmdClient(f)
           \/ \E n \in ValidNicks : TP!nickCmdClient(f, n)
           \/ \E c \in ChannelNames : TP!channelCommand(f, c)
           \/ \E msg \in TP!Messages : TP!handleUnknownCommand(f, msg)
<1>1. ASSUME NEW c \in ChannelNames, Tables!channelCommand(f, c)
      PROVE  TP!channelCommand(f, c)
  BY <1>1, TableJoinPart, TableKickInvite, TableMode, TableTalk
     DEF Tables!channelCommand, TP!channelCommand, Tables!Messages, TP!Messages
<1>2. Tables!Messages = TP!Messages
  BY DEF Tables!Messages, TP!Messages
<1> QED BY <1>1, <1>2, TableNick, TableTalk, TableLeavers DEF command
------------------------------------------------------------------------------
(* The invariant.                                                          *)

AFunction == clients = [f \in DOMAIN clients |-> clients[f]]

Agree ==
    /\ TP!Connected = served
    /\ anonymous = {f \in served : clients[f].sock = TP!NoSocket}

(* While a newcomer is asked its questions nobody else can have entered    *)
(* it in a channel, and the place it takes was free.                       *)
AtDoor ==
    /\ "netcat" \in Kinds
    /\ Cardinality(DOMAIN clients) <= MaxClients
    /\ \A c \in DOMAIN channels : LP!newcomer \notin TP!mentioned(channels[c])

SystemInv ==
    /\ LP!IInv
    /\ TP!IInv
    /\ ~ LP!ended
    /\ AFunction
    /\ \A fd \in Sockets : conn[fd].data => conn[fd].open
    /\ Agree
    /\ pc = "dialogue" => AtDoor

(* When the process is gone the tables and slots are as they were.         *)
Over == LP!ended /\ LP!IInv /\ TP!IInv /\ Agree

LEMMA Basics ==
    ASSUME SystemInv
    PROVE  /\ Sockets \subseteq Nat /\ IsFiniteSet(Sockets)
           /\ TP!NoSocket \notin Sockets
           /\ served \subseteq Sockets /\ anonymous \subseteq served
           /\ served = DOMAIN clients \ {TP!NoSocket}
           /\ DOMAIN clients \subseteq Sockets \cup {TP!NoSocket}
           /\ \A f \in DOMAIN clients :
                 clients[f] \in TP!ClientRecord /\ clients[f].sock \in {f, TP!NoSocket}
           /\ conn \in [Sockets -> LP!ConnRecord]
           /\ {fd \in Sockets : conn[fd].open} = served
<1>1. Sockets \subseteq Nat /\ IsFiniteSet(Sockets) /\ TP!NoSocket \notin Sockets
  BY LoopAssumption DEF TP!NoSocket
<1>2. served \subseteq Sockets /\ {fd \in Sockets : conn[fd].open} = served
      /\ conn \in [Sockets -> LP!ConnRecord]
  BY DEF SystemInv, LP!IInv, LP!TypeOK, LP!noLeak, LP!ConnRecord
<1> QED BY <1>1, <1>2 DEF SystemInv, Agree, TP!Connected, TP!IInv, TP!ClientsOK

------------------------------------------------------------------------------
(* What the handlers do to the tables.                                     *)

(* The clients of S are there afterwards, and those who were there before  *)
(* have the sockets they had.                                              *)
Become(S) ==
    /\ TP!IInv'
    /\ AFunction'
    /\ TP!Connected' = S
    /\ \A f \in S \cap served : clients'[f].sock = clients[f].sock

LEMMA Enters ==
    ASSUME SystemInv, NEW fd \in Sockets \ served, NEW r \in TP!ClientRecord,
           r.sock \in {fd, TP!NoSocket}, clients' = TP!Put(clients, fd, r),
           TP!NamesOK', UNCHANGED channels
    PROVE  Become(served \cup {fd}) /\ clients'[fd] = r
<1>1. fd \notin DOMAIN clients /\ fd # TP!NoSocket
  BY Basics
<1>2. TP!ClientsOK(clients') /\ TP!Live(clients) \subseteq TP!Live(clients')
  BY <1>1, TablesAssume, TP!PutOK DEF SystemInv, TP!IInv
<1>3. TP!ChannelsOK(channels', TP!Live(clients'))
  BY <1>2, TablesAssume, TP!ChannelsGrow DEF SystemInv, TP!IInv
<1>4. TP!IInv'
  BY <1>2, <1>3 DEF TP!IInv
<1>5. /\ DOMAIN clients' = DOMAIN clients \cup {fd}
      /\ clients'[fd] = r
      /\ \A f \in DOMAIN clients : clients'[f] = clients[f]
      /\ AFunction'
  BY <1>1 DEF TP!Put, AFunction
<1>6. TP!Connected' = served \cup {fd}
  BY <1>1, <1>5, Basics DEF TP!Connected
<1> QED BY <1>1, <1>4, <1>5, <1>6, Basics DEF Become

(* The record of the newcomer is written anew when its dialogue ends.      *)
LEMMA Registers ==
    ASSUME SystemInv, NEW fd \in served \ anonymous, NEW r \in TP!ClientRecord,
           r.sock = fd, clients' = TP!Put(clients, fd, r),
           TP!NamesOK', UNCHANGED channels
    PROVE  Become(served)
<1>1. fd \in DOMAIN clients /\ clients[fd].sock = fd
  BY Basics DEF SystemInv, Agree
<1>2. /\ DOMAIN clients' = DOMAIN clients
      /\ clients'[fd] = r
      /\ \A f \in DOMAIN clients : f # fd => clients'[f] = clients[f]
      /\ AFunction'
  BY <1>1 DEF TP!Put, AFunction
<1>3. TP!ClientsOK(clients')
  BY <1>2, Basics DEF TP!ClientsOK
<1>4. \A f \in DOMAIN clients : clients'[f].sock = clients[f].sock
  BY <1>1, <1>2
<1>5. TP!Live(clients') = TP!Live(clients)
  BY <1>2, <1>4 DEF TP!Live
<1>6. TP!IInv'
  BY <1>3, <1>5 DEF SystemInv, TP!IInv
<1>7. TP!Connected' = served
  BY <1>2, Basics DEF TP!Connected
<1> QED BY <1>2, <1>4, <1>6, <1>7, Basics DEF Become

(* A newcomer that goes away in its dialogue is in no channel.             *)
LEMMA GivesUp ==
    ASSUME SystemInv, NEW fd \in served \ anonymous,
           \A c \in DOMAIN channels : fd \notin TP!mentioned(channels[c]),
           clients' = TP!Erase(clients, {fd}), TP!NamesOK', UNCHANGED channels
    PROVE  Become(served \ {fd})
<1>1. /\ DOMAIN clients' = DOMAIN clients \ {fd}
      /\ \A f \in DOMAIN clients \ {fd} : clients'[f] = clients[f]
      /\ AFunction'
  BY DEF TP!Erase, TP!Restrict, AFunction
<1>2. TP!ClientsOK(clients')
  BY TablesAssume, TP!EraseOK DEF SystemInv, TP!IInv
<1>3. TP!Live(clients) \ {fd} \subseteq TP!Live(clients')
  <2>1. clients[fd].sock = fd
    BY Basics DEF SystemInv, Agree
  <2>2. ASSUME NEW f \in DOMAIN clients \ {TP!NoSocket}, clients[f].sock # fd
        PROVE  clients[f].sock \in TP!Live(clients')
    <3>1. f \in DOMAIN clients' \ {TP!NoSocket} /\ clients'[f] = clients[f]
      BY <1>1, <2>1, <2>2
    <3> QED BY <3>1 DEF TP!Live
  <2> QED BY <2>2 DEF TP!Live
<1>4. ASSUME NEW c \in DOMAIN channels
      PROVE  /\ channels[c] \in TP!ChannelRecord
             /\ TP!mentioned(channels[c]) \subseteq TP!Live(clients')
  BY <1>3 DEF SystemInv, TP!IInv, TP!ChannelsOK
<1>5. TP!ChannelsOK(channels', TP!Live(clients'))
  BY <1>4 DEF SystemInv, TP!IInv, TP!ChannelsOK
<1>6. TP!Connected' = served \ {fd}
  BY <1>1, Basics DEF TP!Connected
<1> QED BY <1>1, <1>2, <1>5, <1>6, Basics DEF Become, TP!IInv

(* A client that leaves, and is not one that is left unregistered.         *)
LEMMA Leaves ==
    ASSUME SystemInv, NEW fd \in served,
           TP!disconnect(fd) \/ (fd \notin anonymous /\ TP!quitCmdClient(fd))
    PROVE  Become(served \ {fd})
<1>1. TP!IInv' /\ fd \in TP!Connected
  BY Basics, TablesAssume, TP!DisconnectOK, TP!QuitOK DEF SystemInv, Agree
<1> DEFINE T == TP!noticeTouches(clients[fd].sock)
<1>2. T \subseteq {fd, TP!NoSocket}
  BY Basics DEF TP!noticeTouches
<1>3. PICK cl : /\ cl = clients \/ cl = TP!Touch(clients, T)
                /\ clients' = TP!Erase(cl, {fd})
  <2>1. CASE TP!disconnect(fd)
    BY <2>1 DEF TP!disconnect
  <2>2. CASE fd \notin anonymous /\ TP!quitCmdClient(fd)
    <3>1. clients[fd].sock = fd
      BY <2>2, Basics DEF SystemInv, Agree
    <3> QED BY <2>2, <3>1 DEF TP!quitCmdClient
  <2> QED BY <2>1, <2>2
<1>4. /\ DOMAIN cl = DOMAIN clients \/ DOMAIN cl = DOMAIN clients \cup T
      /\ \A f \in DOMAIN clients : cl[f] = clients[f]
  BY <1>3 DEF TP!Touch
<1>5. /\ DOMAIN clients' = DOMAIN cl \ {fd}
      /\ \A f \in DOMAIN cl \ {fd} : clients'[f] = cl[f]
      /\ AFunction'
  BY <1>3 DEF TP!Erase, TP!Restrict, AFunction
<1>6. TP!Connected' = served \ {fd}
  BY <1>2, <1>4, <1>5, Basics DEF TP!Connected
<1>7. \A f \in served \ {fd} : clients'[f].sock = clients[f].sock
  BY <1>4, <1>5, Basics
<1> QED BY <1>1, <1>5, <1>6, <1>7 DEF Become

(* operator[] makes up entries of no connection.                           *)
LEMMA Touches ==
    ASSUME SystemInv, TP!IInv', NEW S \in SUBSET TP!Live(clients),
           clients' = TP!Touch(clients, S)
    PROVE  Become(served)
<1>1. TP!Connected' = served
  BY TablesAssume, TP!TouchedConnections DEF SystemInv, Agree, TP!Connected
<1>2. /\ \A f \in DOMAIN clients : clients'[f] = clients[f]
      /\ AFunction'
  BY DEF TP!Touch, AFunction
<1> QED BY <1>1, <1>2, Basics DEF Become

(* Every other command leaves the same clients.                            *)
LEMMA Commands ==
    ASSUME SystemInv, NEW fd \in served, command(fd)
    PROVE  Become(served)
<1>1. fd \in TP!Connected /\ TP!IInv
  BY DEF SystemInv, Agree
<1>2. CASE UNCHANGED tableVars
  <2>1. TP!IInv' /\ AFunction'
    BY <1>2 DEF SystemInv, tableVars, AFunction, TP!IInv, TP!NamesOK
  <2> QED BY <1>2, <2>1, Basics DEF Become, tableVars, TP!Connected
<1>3. CASE fd \in anonymous /\ TP!quitCmdClient(fd)
  <2>1. TP!IInv'
    BY <1>1, <1>3, TablesAssume, TP!QuitOK
  <2>2. clients' = TP!Erase(clients, {TP!NoSocket})
    BY <1>3 DEF TP!quitCmdClient, SystemInv, Agree
  <2>3. /\ DOMAIN clients' = DOMAIN clients \ {TP!NoSocket}
        /\ \A f \in DOMAIN clients \ {TP!NoSocket} : clients'[f] = clients[f]
        /\ AFunction'
    BY <2>2 DEF TP!Erase, TP!Restrict, AFunction
  <2> QED BY <2>1, <2>3, Basics DEF Become, TP!Connected
<1>4. ASSUME NEW n \in ValidNicks, TP!nickCmdClient(fd, n)
      PROVE  Become(served)
  <2>1. TP!IInv'
    BY <1>1, <1>4, TablesAssume, TP!NickOK
  <2>2. clients' = [clients EXCEPT ![fd].nick = n]
    BY <1>4 DEF TP!nickCmdClient
  <2>3. DOMAIN clients' = DOMAIN clients /\ AFunction'
    BY <2>2 DEF AFunction
  <2>4. \A f \in DOMAIN clients : clients'[f].sock = clients[f].sock
    BY <2>2, Basics DEF TP!ClientRecord
  <2> QED BY <2>1, <2>3, <2>4, Basics DEF Become, TP!Connected
<1>5. CASE \/ \E c \in ChannelNames : TP!channelCommand(fd, c)
           \/ \E msg \in TP!Messages : TP!handleUnknownCommand(fd, msg)
  <2>1. TP!ChannelStep
    BY <1>1, <1>5, TablesAssume, TP!ChannelCommandOK
  <2>2. TP!IInv'
    BY <1>1, <2>1, TablesAssume, TP!ChannelStepOK
  <2>3. CASE UNCHANGED clients
    BY <2>2, <2>3, Basics DEF Become, AFunction, SystemInv, TP!Connected
  <2>4. ASSUME NEW S \in SUBSET TP!Live(clients), clients' = TP!Touch(clients, S)
        PROVE  Become(served)
    BY <2>2, <2>4, Touches
  <2> QED BY <2>1, <2>3, <2>4 DEF TP!ChannelStep
<1> QED BY <1>2, <1>3, <1>4, <1>5, TableCommand

(* The read of a closed descriptor ends the connection of nobody.          *)
LEMMA ReadsClosed ==
    ASSUME SystemInv, NEW fd, readClosed(fd)
    PROVE  Become(served)
<1>1. /\ TP!partAllChannels(TP!NoSocket)
      /\ clients' = TP!Touch(clients, TP!noticeTouches(TP!NoSocket))
      /\ nicknames' = TP!removeNickname(DefaultNick)
  BY TableMaps, TablePartAll DEF readClosed, Tables!NoSocket, TP!NoSocket
<1>2. TP!noticeTouches(TP!NoSocket) \subseteq TP!Live(clients)
  BY DEF TP!noticeTouches, TP!isMember, TP!mentioned, SystemInv, TP!IInv, TP!ChannelsOK
<1>3. /\ TP!ClientsOK(clients')
      /\ TP!Live(clients) \subseteq TP!Live(clients')
  <2>1. TP!noticeTouches(TP!NoSocket) \in SUBSET (Sockets \cup {TP!NoSocket})
    BY DEF TP!noticeTouches
  <2> QED BY <1>1, <2>1, TablesAssume, TP!TouchOK DEF SystemInv, TP!IInv
<1>4. TP!ChannelsOK(channels', TP!Live(clients'))
  <2>1. TP!Live(clients) \ {TP!NoSocket} \subseteq TP!Live(clients')
    BY <1>3
  <2> QED BY <1>1, <2>1, TablesAssume, TP!PartAllOK DEF SystemInv, TP!IInv
<1>5. TP!NamesOK'
  BY <1>1 DEF SystemInv, TP!IInv, TP!NamesOK, TP!removeNickname
<1>6. TP!IInv'
  BY <1>3, <1>4, <1>5 DEF TP!IInv
<1> QED BY <1>1, <1>2, <1>6, Touches

------------------------------------------------------------------------------
(* Every step keeps the invariant.                                         *)

(* The rest of the invariant, once the tables have followed the loop.      *)
LEMMA KeptBy ==
    ASSUME SystemInv, LP!IInv', Become(served'),
           pc' \notin {"stopped", "aborted", "undefined"},
           anonymous' = {f \in served' : clients'[f].sock = TP!NoSocket},
           \A fd \in Sockets : conn'[fd].data => conn'[fd].open,
           pc' = "dialogue" => AtDoor'
    PROVE  SystemInv'
BY DEF SystemInv, Become, Agree, LP!ended

LEMMA QuietTables ==
    ASSUME SystemInv, UNCHANGED tableVars, UNCHANGED <<served, anonymous>>
    PROVE  /\ Become(served')
           /\ anonymous' = {f \in served' : clients'[f].sock = TP!NoSocket}
<1>1. TP!IInv' /\ AFunction' /\ TP!Connected' = TP!Connected
  BY DEF SystemInv, tableVars, AFunction, TP!IInv, TP!NamesOK, TP!Connected
<1> QED BY <1>1 DEF Become, SystemInv, Agree, tableVars

LEMMA SkipAllOK ==
    ASSUME SystemInv, skipAll
    PROVE  /\ LP!IInv'
           /\ pc' = "walk"
           /\ UNCHANGED <<fds, nfds, served, anonymous, conn>>
<1>1. /\ pc = "walk" /\ pc' = "walk"
      /\ UNCHANGED <<fds, nfds, stage, served, anonymous, shutdown, conn, backlog, line>>
      /\ i' \in i + 1..nfds
  BY DEF skipAll, Loop!atSlot
<1>2. i \in 0..FdsSize /\ nfds \in 2..FdsSize /\ LP!TypeOK
  BY DEF SystemInv, LP!IInv, LP!TypeOK
<1>3. i' \in 0..FdsSize /\ i' # 0
  BY <1>1, <1>2, LoopAssumption
<1>4. LP!TypeOK' /\ LP!noLeak'
  BY <1>1, <1>2, <1>3 DEF LP!TypeOK, LP!noLeak, SystemInv, LP!IInv
<1>5. LP!GoodTable(LP!tbl') /\ LP!IsFiniteSet(served') /\ LP!Covers(LP!tbl', served')
  BY <1>1, LoopAssume, LP!TableUnchanged DEF SystemInv
<1> QED BY <1>1, <1>3, <1>4, <1>5 DEF LP!IInv

LEMMA IdleOK ==
    ASSUME SystemInv, idle
    PROVE  SystemInv' /\ UNCHANGED tableVars /\ UNCHANGED <<served, anonymous>>
<1>1. UNCHANGED tableVars
  BY DEF idle
<1>2. /\ LP!IInv'
      /\ UNCHANGED <<served, anonymous>>
      /\ pc' \notin {"stopped", "aborted", "undefined"}
      /\ pc' = "dialogue" => pc = "dialogue" /\ UNCHANGED <<fds, nfds>>
      /\ \A fd \in Sockets : conn'[fd].data => conn'[fd].open
  <2>1. CASE Loop!connect \/ \E fd \in Sockets : Loop!send(fd) \/ Loop!hangUp(fd)
    <3>1. LP!IInv'
      BY <2>1, LoopAssume, LoopPeers, LP!EnvironmentOK DEF SystemInv
    <3>2. UNCHANGED <<served, anonymous, pc, fds, nfds>>
      BY <2>1 DEF Loop!connect, Loop!send, Loop!hangUp, Loop!tables
    <3>3. \A fd \in Sockets : conn'[fd].data => conn'[fd].open
      <4>1. CASE UNCHANGED conn
        BY <4>1 DEF SystemInv
      <4>2. ASSUME NEW fd \in Sockets, Loop!send(fd) \/ Loop!hangUp(fd)
            PROVE  \A g \in Sockets : conn'[g].data => conn'[g].open
        <5>1. /\ \A g \in Sockets : g # fd => conn'[g] = conn[g]
              /\ conn'[fd].open = conn[fd].open /\ conn[fd].open
          BY <4>2, Basics DEF Loop!send, Loop!hangUp, Loop!Fresh, LP!ConnRecord
        <5> QED BY <5>1 DEF SystemInv
      <4> QED BY <2>1, <4>1, <4>2 DEF Loop!connect
    <3> QED BY <3>1, <3>2, <3>3 DEF SystemInv, LP!ended
  <2>2. CASE Loop!poll
    BY <2>2, LoopAssume, LoopPoll, LP!PollOK DEF SystemInv, Loop!poll
  <2>3. CASE skipAll
    BY <2>3, SkipAllOK DEF SystemInv
  <2>4. CASE Loop!endOfRound
    BY <2>4, LoopAssume, LoopEndOfRound, LP!QuietStepOK
       DEF SystemInv, Loop!endOfRound, Loop!tables
  <2> QED BY <2>1, <2>2, <2>3, <2>4 DEF idle
<1>3. pc' = "dialogue" => AtDoor'
  BY <1>1, <1>2 DEF SystemInv, AtDoor, tableVars, LP!newcomer
<1> QED BY <1>1, <1>2, <1>3, QuietTables, KeptBy

(* What the loop and the tables do together when a connection is accepted: *)
(* it is refused, or it gets a number that no client has.                  *)
Admits(fd) ==
    /\ Cardinality(DOMAIN clients) < MaxClients
    /\ \A g \in Sockets \ served : fd <= g
    /\ \/ /\ "netcat" \in Kinds
          /\ pc' = "dialogue" /\ LP!newcomer' = fd
          /\ served' = served \cup {fd} /\ UNCHANGED <<anonymous, nicknames>>
          /\ clients' = TP!Put(clients, fd, [sock |-> fd, nick |-> DefaultNick])
       \/ /\ "irssi" \in Kinds
          /\ pc' = "walk"
          /\ served' = served \cup {fd} /\ UNCHANGED anonymous
          /\ TP!parsingDataIrssi(fd)
       \/ /\ "other" \in Kinds
          /\ pc' = "walk"
          /\ served' = served \cup {fd} /\ anonymous' = anonymous \cup {fd}
          /\ TP!leftUnregistered(fd)

LEMMA TableArrivals ==
    ASSUME NEW fd
    PROVE  /\ store(fd) =>
                 clients' = TP!Put(clients, fd, [sock |-> fd, nick |-> DefaultNick])
           /\ Tables!parsingDataIrssi(fd) => TP!parsingDataIrssi(fd)
           /\ Tables!parsingDataNetcat(fd) => TP!parsingDataNetcat(fd)
           /\ Tables!leftUnregistered(fd) => TP!leftUnregistered(fd)
BY TableMaps
   DEF store, Tables!parsingDataIrssi, TP!parsingDataIrssi,
       Tables!parsingDataNetcat, TP!parsingDataNetcat, Tables!setNickName, TP!setNickName,
       Tables!isNicknameAvailable, TP!isNicknameAvailable,
       Tables!addUser, TP!addUser, Tables!leftUnregistered, TP!leftUnregistered

LEMMA AcceptCases ==
    ASSUME SystemInv, acceptNewConnection
    PROVE  /\ LP!IInv'
           /\ pc = "walk"
           /\ UNCHANGED <<channels, channelOrder>>
           /\ \A fd \in Sockets : conn'[fd].data => conn'[fd].open
           /\ \/ /\ UNCHANGED <<served, anonymous, clients, nicknames>>
                 /\ pc' = "walk" \/ LP!ended'
              \/ \E fd \in Sockets \ served : Admits(fd)
<1>1. LP!acceptNewConnection
  BY LoopAccept DEF acceptNewConnection
<1>2. LP!IInv' /\ pc = "walk"
  BY <1>1, LoopAssume, LP!AcceptOK, LP!AcceptCases DEF SystemInv
<1>3. UNCHANGED <<channels, channelOrder>>
  BY DEF acceptNewConnection
<1>4. nfds \in Nat /\ nfds + 1 # nfds
  BY LoopAssumption DEF SystemInv, LP!IInv, LP!TypeOK
<1>5. CASE UNCHANGED LP!tables /\ UNCHANGED <<pc, conn>>
  <2>1. isServerFull /\ UNCHANGED <<served, anonymous>>
    BY <1>5 DEF acceptNewConnection, LP!tables
  <2> QED BY <1>2, <1>3, <1>5, <2>1 DEF acceptNewConnection, SystemInv
<1>6. ASSUME NEW fd \in Sockets, LP!Accepted(fd)
      PROVE  /\ \A g \in Sockets : conn'[g].data => conn'[g].open
             /\ \/ /\ UNCHANGED <<served, anonymous, clients, nicknames>>
                   /\ pc' = "walk"
                \/ fd \notin served /\ Admits(fd)
  <2>1. fd \notin served /\ \A g \in Sockets \ served : fd <= g
    BY <1>1, <1>6, LoopAssume, LP!AcceptedOK, LP!AcceptCases DEF SystemInv
  <2>2. fds'[nfds].fd = fd /\ LP!newcomer' = fd
    BY <1>6, LoopAssume, LP!NewSlotOK DEF SystemInv, LP!Accepted
  <2>3. ~ isServerFull /\ newcomerTable(fd)
    BY <1>4, <1>6, <2>2 DEF acceptNewConnection, LP!Accepted
  <2>4. Cardinality(DOMAIN clients) < MaxClients
    <3>1. IsFiniteSet(DOMAIN clients)
      BY Basics, FS_AddElement, FS_Subset
    <3> QED BY <2>3, <3>1, FS_CardinalityType, LoopAssumption DEF isServerFull
  <2>5. conn' = conn \/ conn' = [conn EXCEPT ![fd] = LP!Fresh]
    BY <1>6 DEF LP!Accepted, LP!detectClient
  <2>6. \A g \in Sockets : conn'[g].data => conn'[g].open
    <3>1. LP!Fresh.data = FALSE
      BY DEF LP!Fresh
    <3> QED BY <2>5, <3>1, Basics DEF SystemInv
  <2>7. fd \notin anonymous
    BY <2>1, Basics
  <2>8. CASE /\ "netcat" \in Kinds
             /\ pc' = "dialogue"
             /\ served' = served \cup {fd} /\ UNCHANGED anonymous
    BY <2>1, <2>2, <2>3, <2>4, <2>6, <2>8, TableArrivals DEF Admits, newcomerTable
  <2>9. CASE /\ "irssi" \in Kinds
             /\ pc' = "walk"
             /\ served' = served \cup {fd} /\ UNCHANGED anonymous
    BY <2>1, <2>3, <2>4, <2>6, <2>7, <2>9, TableArrivals DEF Admits, newcomerTable
  <2>10. CASE pc' = "walk" /\ UNCHANGED <<served, anonymous>>
    BY <2>1, <2>3, <2>6, <2>7, <2>10 DEF newcomerTable
  <2>11. CASE /\ "other" \in Kinds
              /\ pc' = "walk"
              /\ served' = served \cup {fd} /\ anonymous' = anonymous \cup {fd}
    BY <2>1, <2>3, <2>4, <2>6, <2>11, TableArrivals DEF Admits, newcomerTable
  <2> QED BY <1>2, <1>6, <2>8, <2>9, <2>10, <2>11 DEF LP!Accepted, LP!detectClient
<1>7. CASE LP!Overrun \/ LP!abort
  <2>1. LP!ended' /\ UNCHANGED <<nfds, served, anonymous>>
    BY <1>7 DEF LP!Overrun, LP!abort, LP!ended, LP!tables
  <2>2. conn' = conn \/ conn' = [fd \in Sockets |-> LP!Closed]
    BY <1>7 DEF LP!Overrun, LP!abort
  <2>3. \A fd \in Sockets : conn'[fd].data => conn'[fd].open
    BY <2>2 DEF SystemInv, LP!Closed
  <2> QED BY <1>2, <1>3, <2>1, <2>3 DEF acceptNewConnection
<1> QED BY <1>1, <1>2, <1>3, <1>5, <1>6, <1>7, LoopAssume, LP!AcceptCases DEF SystemInv

LEMMA AcceptOK ==
    ASSUME SystemInv, acceptNewConnection
    PROVE  SystemInv' \/ Over'
<1>1. /\ LP!IInv'
      /\ pc = "walk"
      /\ UNCHANGED <<channels, channelOrder>>
      /\ \A fd \in Sockets : conn'[fd].data => conn'[fd].open
  BY AcceptCases
<1>2. CASE UNCHANGED <<served, anonymous, clients, nicknames>> /\ pc' = "walk"
  BY <1>1, <1>2, QuietTables, KeptBy DEF tableVars
<1>4. CASE UNCHANGED <<served, anonymous, clients, nicknames>> /\ LP!ended'
  BY <1>1, <1>4, QuietTables DEF tableVars, Become, Agree, Over
<1>3. ASSUME NEW fd \in Sockets \ served, Admits(fd)
      PROVE  SystemInv'
  <2> /\ \A s \in {fd, TP!NoSocket}, n \in Nicks \cup {NoNick} :
            [sock |-> s, nick |-> n] \in TP!ClientRecord
      /\ DefaultNick \in Nicks \cup {NoNick}
    BY TablesAssumption DEF TP!ClientRecord
  <2>2. PICK r \in TP!ClientRecord :
           /\ r.sock \in {fd, TP!NoSocket}
           /\ clients' = TP!Put(clients, fd, r)
           /\ TP!NamesOK'
           /\ served' = served \cup {fd}
           /\ pc' \in {"walk", "dialogue"}
           /\ anonymous' = IF r.sock = fd THEN anonymous ELSE anonymous \cup {fd}
    <3>1. CASE clients' = TP!Put(clients, fd, [sock |-> fd, nick |-> DefaultNick])
               /\ pc' = "dialogue" /\ UNCHANGED <<anonymous, nicknames>>
      <4> WITNESS [sock |-> fd, nick |-> DefaultNick] \in TP!ClientRecord
      <4> QED BY <1>3, <3>1 DEF Admits, SystemInv, TP!IInv, TP!NamesOK
    <3>2. CASE pc' = "walk" /\ UNCHANGED anonymous /\ TP!parsingDataIrssi(fd)
      <4>1. PICK n \in Nicks \cup {NoNick} : TP!addUser(fd, n)
        BY <3>2 DEF TP!parsingDataIrssi
      <4> WITNESS [sock |-> fd, nick |-> n] \in TP!ClientRecord
      <4> QED BY <1>3, <3>2, <4>1 DEF Admits, TP!addUser, SystemInv, TP!IInv, TP!NamesOK
    <3>3. CASE pc' = "walk" /\ anonymous' = anonymous \cup {fd} /\ TP!leftUnregistered(fd)
      <4> TP!Default = [sock |-> TP!NoSocket, nick |-> DefaultNick]
        BY DEF TP!Default
      <4> WITNESS [sock |-> TP!NoSocket, nick |-> DefaultNick] \in TP!ClientRecord
      <4> QED BY <1>3, <3>3, Basics
              DEF Admits, TP!leftUnregistered, SystemInv, TP!IInv, TP!NamesOK
    <3> QED BY <1>3, <3>1, <3>2, <3>3 DEF Admits
  <2>3. Become(served') /\ clients'[fd] = r
    BY <1>1, <1>3, <2>2, Enters
  <2>4. anonymous' = {f \in served' : clients'[f].sock = TP!NoSocket}
    <3>1. \A f \in served : clients'[f].sock = clients[f].sock
      BY <2>2, <2>3 DEF Become
    <3> QED BY <2>2, <2>3, <3>1, Basics DEF SystemInv, Agree
  <2>5. ASSUME pc' = "dialogue"
        PROVE  AtDoor'
    <3>1. "netcat" \in Kinds /\ LP!newcomer' = fd
      BY <1>3, <2>5 DEF Admits
    <3>2. Cardinality(DOMAIN clients') <= MaxClients
      <4>1. DOMAIN clients' = DOMAIN clients \cup {fd}
        BY <2>2 DEF TP!Put
      <4>2. fd \notin DOMAIN clients /\ IsFiniteSet(DOMAIN clients)
        BY <1>3, Basics, FS_AddElement, FS_Subset
      <4>3. Cardinality(DOMAIN clients') = Cardinality(DOMAIN clients) + 1
            /\ Cardinality(DOMAIN clients) \in Nat
        BY <4>1, <4>2, FS_AddElement, FS_CardinalityType
      <4>4. Cardinality(DOMAIN clients) < MaxClients
        BY <1>3 DEF Admits
      <4> QED BY <4>3, <4>4, LoopAssumption
    <3>3. ASSUME NEW c \in DOMAIN channels
          PROVE  fd \notin TP!mentioned(channels[c])
      <4>1. fd \notin TP!Live(clients)
        BY <1>3, Basics DEF TP!Live
      <4> QED BY <4>1 DEF SystemInv, TP!IInv, TP!ChannelsOK
    <3> QED BY <1>1, <3>1, <3>2, <3>3 DEF AtDoor
  <2> QED BY <1>1, <2>2, <2>3, <2>4, <2>5, KeptBy
<1> QED BY <1>2, <1>3, <1>4, AcceptCases

(* The dialogue: an answer, a name, or the end.                            *)
LEMMA DialogueCases ==
    ASSUME SystemInv, dialogue
    PROVE  /\ LP!IInv'
           /\ pc = "dialogue"
           /\ LP!newcomer \in served \ anonymous
           /\ UNCHANGED <<channels, channelOrder, anonymous>>
           /\ \A fd \in Sockets : conn'[fd].data => conn'[fd].open
           /\ \/ /\ pc' = "dialogue" /\ LP!newcomer' = LP!newcomer
                 /\ UNCHANGED <<served, clients, nicknames>>
              \/ /\ pc' = "walk"
                 /\ UNCHANGED served
                 /\ TP!parsingDataNetcat(LP!newcomer)
              \/ /\ pc' = "walk"
                 /\ served' = served \ {LP!newcomer}
                 /\ nicknames' = nicknames \cup {NoNick}
                 /\ clients' = TP!Erase(clients, {LP!newcomer})
<1> DEFINE fd == LP!newcomer
<1>1. LP!dialogue /\ (LP!answered(fd) \/ LP!abandoned(fd))
  BY LoopDialogue DEF dialogue
<1>2. LP!IInv' /\ LP!InDialogue /\ pc = "dialogue"
  BY <1>1, LoopAssume, LP!AnsweredOK, LP!AbandonedOK, LP!NewcomerOK DEF SystemInv
<1>3. fd \in served \ anonymous /\ fd \in Sockets
  BY <1>2, Basics DEF LP!InDialogue
<1>4. /\ UNCHANGED <<channels, channelOrder>>
      /\ IF pc' = "dialogue" THEN UNCHANGED <<clients, nicknames>>
         ELSE IF fd \in served' THEN TP!parsingDataNetcat(fd)
         ELSE /\ nicknames' = nicknames \cup {NoNick}
              /\ clients' = TP!Erase(clients, {fd})
  BY LoopNewcomer, TableArrivals, TableMaps DEF dialogue
<1>5. CASE LP!answered(fd)
  <2>1. /\ UNCHANGED <<fds, nfds, served, anonymous>>
        /\ pc' \in {"dialogue", "walk"}
        /\ conn' = [conn EXCEPT ![fd].data = FALSE]
    BY <1>2, <1>5 DEF LP!answered, LP!tables
  <2>2. \A g \in Sockets : conn'[g].data => conn'[g].open
    <3>1. /\ \A g \in Sockets : g # fd => conn'[g] = conn[g]
          /\ conn'[fd].data = FALSE
      BY <1>3, <2>1, Basics DEF LP!ConnRecord
    <3> QED BY <3>1 DEF SystemInv
  <2> QED BY <1>2, <1>3, <1>4, <2>1, <2>2 DEF LP!newcomer
<1>6. CASE LP!abandoned(fd)
  <2>1. /\ conn' = [conn EXCEPT ![fd] = LP!Closed]
        /\ served' = served \ {fd}
        /\ pc' = "walk"
        /\ UNCHANGED anonymous
    BY <1>6 DEF LP!abandoned
  <2>2. \A g \in Sockets : conn'[g].data => conn'[g].open
    <3>1. LP!Closed.data = FALSE
      BY DEF LP!Closed
    <3> QED BY <2>1, <3>1, Basics DEF SystemInv
  <2> QED BY <1>2, <1>3, <1>4, <2>1, <2>2
<1> QED BY <1>1, <1>5, <1>6

LEMMA DialogueOK ==
    ASSUME SystemInv, dialogue
    PROVE  SystemInv'
<1> DEFINE fd == LP!newcomer
<1>1. /\ LP!IInv'
      /\ fd \in served \ anonymous /\ fd \in Sockets
      /\ AtDoor
      /\ UNCHANGED <<channels, channelOrder, anonymous>>
      /\ \A g \in Sockets : conn'[g].data => conn'[g].open
  BY DialogueCases, Basics DEF SystemInv
<1>2. CASE pc' = "dialogue" /\ LP!newcomer' = fd /\ UNCHANGED <<served, clients, nicknames>>
  <2>1. AtDoor'
    BY <1>1, <1>2 DEF AtDoor
  <2> QED BY <1>1, <1>2, <2>1, QuietTables, KeptBy DEF tableVars
<1>3. CASE pc' = "walk" /\ UNCHANGED served /\ TP!parsingDataNetcat(fd)
  <2>1. PICK n \in Nicks : TP!addUser(fd, n)
    BY <1>3 DEF TP!parsingDataNetcat
  <2>2. [sock |-> fd, nick |-> n] \in TP!ClientRecord
    BY <1>1 DEF TP!ClientRecord
  <2>3. TP!NamesOK' /\ clients' = TP!Put(clients, fd, [sock |-> fd, nick |-> n])
    BY <2>1 DEF TP!addUser, SystemInv, TP!IInv, TP!NamesOK
  <2>4. Become(served)
    BY <1>1, <2>2, <2>3, Registers
  <2>5. anonymous' = {f \in served' : clients'[f].sock = TP!NoSocket}
    BY <1>1, <1>3, <2>4 DEF Become, SystemInv, Agree
  <2> QED BY <1>1, <1>3, <2>4, <2>5, KeptBy
<1>4. CASE /\ pc' = "walk"
           /\ served' = served \ {fd}
           /\ nicknames' = nicknames \cup {NoNick}
           /\ clients' = TP!Erase(clients, {fd})
  <2>1. TP!NamesOK'
    BY <1>4 DEF SystemInv, TP!IInv, TP!NamesOK
  <2>2. Become(served \ {fd})
    BY <1>1, <1>4, <2>1, GivesUp DEF AtDoor
  <2>3. anonymous' = {f \in served' : clients'[f].sock = TP!NoSocket}
    BY <1>1, <1>4, <2>2 DEF Become, SystemInv, Agree
  <2> QED BY <1>1, <1>4, <2>2, <2>3, KeptBy
<1> QED BY <1>2, <1>3, <1>4, DialogueCases

(* A slot is read: a command, the end of a connection, or an error.        *)
LEMMA MessageCases ==
    ASSUME SystemInv, handleClientMessage
    PROVE  \E fd \in Sockets :
              /\ fd = fds[i].fd /\ i \in 2..nfds - 1
              /\ LP!IInv'
              /\ pc = "walk" /\ pc' = "walk"
              /\ \A g \in Sockets : conn'[g].data => conn'[g].open
              /\ \/ /\ fd \in served /\ command(fd)
                    /\ UNCHANGED <<served, anonymous>>
                 \/ /\ fd \in served
                    /\ TP!disconnect(fd) \/ (fd \notin anonymous /\ TP!quitCmdClient(fd))
                    /\ served' = served \ {fd} /\ anonymous' = anonymous \ {fd}
                 \/ /\ fd \notin served /\ readClosed(fd)
                    /\ UNCHANGED <<served, anonymous>>
<1> DEFINE fd == fds[i].fd
<1>1. LP!handleClientMessage
  BY LoopMessage DEF handleClientMessage
<1>2. /\ LP!IInv'
      /\ fd \in Sockets /\ i \in 2..nfds - 1
      /\ pc = "walk" /\ pc' = "walk"
  <2>1. LP!atSlot /\ fd \in Sockets /\ UNCHANGED pc
    BY <1>1 DEF LP!handleClientMessage
  <2> QED BY <1>1, <2>1, LoopAssume, LP!MessageOK, LP!AtOK DEF SystemInv
<1>3. IF ~ conn[fd].data
      THEN IF fd \in DOMAIN clients THEN TP!disconnect(fd) ELSE readClosed(fd)
      ELSE IF fd \in served' THEN command(fd) ELSE TP!quitCmdClient(fd)
  BY TableLeavers DEF handleClientMessage, endOfData
<1>4. CASE conn[fd].data /\ conn' = [conn EXCEPT ![fd].data = FALSE] /\ UNCHANGED LP!tables
  <2>1. fd \in served /\ UNCHANGED <<served, anonymous>>
    BY <1>2, <1>4, Basics DEF SystemInv, LP!tables
  <2>2. \A g \in Sockets : conn'[g].data => conn'[g].open
    <3>1. /\ \A g \in Sockets : g # fd => conn'[g] = conn[g]
          /\ conn'[fd].data = FALSE
      BY <1>2, <1>4, Basics DEF LP!ConnRecord
    <3> QED BY <3>1 DEF SystemInv
  <2> QED BY <1>2, <1>3, <1>4, <2>1, <2>2
<1>5. CASE LP!leave(fd) /\ (conn[fd].data => fd \notin anonymous)
  <2>1. /\ served' = served \ {fd} /\ anonymous' = anonymous \ {fd}
        /\ conn' = [conn EXCEPT ![fd] = LP!Closed]
    BY <1>5 DEF LP!leave
  <2>2. \A g \in Sockets : conn'[g].data => conn'[g].open
    <3>1. LP!Closed.data = FALSE
      BY DEF LP!Closed
    <3> QED BY <2>1, <3>1, Basics DEF SystemInv
  <2>3. fd \in DOMAIN clients <=> fd \in served
    BY <1>2, Basics
  <2>4. CASE conn[fd].data
    <3>1. fd \in served
      BY <1>2, <2>4, Basics DEF SystemInv
    <3> QED BY <1>2, <1>3, <1>5, <2>1, <2>2, <2>4, <3>1
  <2>5. CASE ~ conn[fd].data /\ fd \in served
    BY <1>2, <1>3, <2>1, <2>2, <2>3, <2>5
  <2>6. CASE ~ conn[fd].data /\ fd \notin served
    <3>1. UNCHANGED <<served, anonymous>>
      BY <2>1, <2>6, Basics
    <3> QED BY <1>2, <1>3, <2>2, <2>3, <2>6, <3>1
  <2> QED BY <2>4, <2>5, <2>6
<1> QED BY <1>1, <1>4, <1>5 DEF LP!handleClientMessage

LEMMA MessageOK ==
    ASSUME SystemInv, handleClientMessage
    PROVE  SystemInv'
<1>1. PICK fd \in Sockets :
         /\ LP!IInv' /\ pc' = "walk"
         /\ \A g \in Sockets : conn'[g].data => conn'[g].open
         /\ \/ /\ fd \in served /\ command(fd)
               /\ UNCHANGED <<served, anonymous>>
            \/ /\ fd \in served
               /\ TP!disconnect(fd) \/ (fd \notin anonymous /\ TP!quitCmdClient(fd))
               /\ served' = served \ {fd} /\ anonymous' = anonymous \ {fd}
            \/ /\ fd \notin served /\ readClosed(fd)
               /\ UNCHANGED <<served, anonymous>>
  BY MessageCases
<1>2. /\ Become(served')
      /\ \/ UNCHANGED <<served, anonymous>>
         \/ served' = served \ {fd} /\ anonymous' = anonymous \ {fd}
  BY <1>1, Commands, Leaves, ReadsClosed
<1>3. anonymous' = {f \in served' : clients'[f].sock = TP!NoSocket}
  <2>1. served' \subseteq served /\ \A f \in served' : clients'[f].sock = clients[f].sock
    BY <1>2 DEF Become
  <2> QED BY <1>2, <2>1 DEF SystemInv, Agree
<1> QED BY <1>1, <1>2, <1>3, KeptBy

LEMMA InitOK == Init => SystemInv
<1> SUFFICES ASSUME Init PROVE SystemInv
  OBVIOUS
<1>1. LP!IInv
  BY LoopInit, LoopAssume, LP!InitOK DEF Init
<1>2. /\ clients = <<>> /\ nicknames = {} /\ channels = <<>>
      /\ served = {} /\ anonymous = {} /\ pc = "poll"
      /\ conn = [fd \in Sockets |-> Loop!Closed]
  BY DEF Init, Tables!Init, Loop!Init
<1>3. DOMAIN <<>> = {}
  OBVIOUS
<1>4. TP!IInv
  BY <1>2, <1>3 DEF TP!IInv, TP!ClientsOK, TP!NamesOK, TP!ChannelsOK
<1>5. AFunction
  BY <1>2 DEF AFunction
<1>6. Agree
  BY <1>2, <1>3 DEF Agree, TP!Connected
<1>7. \A fd \in Sockets : conn[fd].data => conn[fd].open
  BY <1>2 DEF Loop!Closed
<1> QED BY <1>1, <1>2, <1>4, <1>5, <1>6, <1>7 DEF SystemInv, LP!ended

(* Nothing more happens when the process is gone.                          *)
LEMMA OverStays ==
    ASSUME Over
    PROVE  ~ Next /\ (UNCHANGED vars => Over')
<1>1. pc \in {"stopped", "aborted", "undefined"}
  BY DEF Over, LP!ended
<1>2. ~ idle
  BY <1>1 DEF idle, Loop!ended
<1>3. ~ acceptNewConnection /\ ~ dialogue /\ ~ handleClientMessage
  BY <1>1 DEF acceptNewConnection, Loop!acceptNewConnection, dialogue, Loop!dialogue,
              handleClientMessage, Loop!handleClientMessage, Loop!atSlot
<1>4. ASSUME UNCHANGED vars PROVE Over'
  <2>1. TP!IInv' /\ Agree'
    BY <1>4 DEF Over, vars, loopVars, tableVars, TP!IInv, TP!NamesOK, Agree, TP!Connected
  <2>2. LP!IInv'
    BY <1>4 DEF Over, vars, loopVars, LP!IInv, LP!TypeOK, LP!GoodTable, LP!Covers,
                LP!tbl, LP!noLeak, LP!ended, LP!InDialogue, LP!newcomer
  <2> QED BY <1>4, <2>1, <2>2 DEF Over, vars, loopVars, LP!ended
<1> QED BY <1>2, <1>3, <1>4 DEF Next

(* The loop and the tables keep the invariant together.                    *)
THEOREM SystemInvariance == Spec => [](SystemInv \/ Over)
<1>1. (SystemInv \/ Over) /\ [Next]_vars => (SystemInv \/ Over)'
  <2> SUFFICES ASSUME SystemInv, [Next]_vars PROVE SystemInv' \/ Over'
    BY OverStays
  <2>1. CASE UNCHANGED vars
    <3>1. UNCHANGED tableVars
          /\ UNCHANGED <<fds, nfds, i, pc, stage, served, anonymous, shutdown,
                         conn, backlog, line>>
      BY <2>1 DEF vars, loopVars
    <3>2. LP!IInv'
      BY <3>1 DEF SystemInv, LP!IInv, LP!TypeOK, LP!GoodTable, LP!Covers, LP!tbl,
                  LP!noLeak, LP!ended, LP!InDialogue, LP!newcomer
    <3>3. pc' = "dialogue" => AtDoor'
      BY <3>1 DEF SystemInv, AtDoor, tableVars, LP!newcomer
    <3> QED BY <3>1, <3>2, <3>3, QuietTables, KeptBy DEF SystemInv, LP!ended
  <2> QED BY <2>1, IdleOK, AcceptOK, DialogueOK, MessageOK DEF Next
<1> QED BY <1>1, InitOK, PTL DEF Spec

(* The loop and the tables agree on who is connected and who is            *)
(* unregistered, and whoever is served has an open descriptor.             *)
THEOREM Agreement == Spec => []TablesAgree
<1>1. SystemInv => TablesAgree
  BY Basics, TableMaps DEF SystemInv, Agree, TablesAgree, Tables!NoSocket, TP!NoSocket
<1>2. Over => TablesAgree
  BY TableMaps
     DEF Over, Agree, TablesAgree, Tables!NoSocket, TP!NoSocket, Loop!ended, LP!ended
<1> QED BY <1>1, <1>2, SystemInvariance, PTL

(* Whatever slot its end was read through, a client that is gone is in no  *)
(* list of any channel.                                                    *)
THEOREM NoStaleSockets == Spec => []NoStaleSocket
<1>1. TP!IInv => NoStaleSocket
  BY TableMaps
     DEF TP!IInv, TP!ChannelsOK, TP!Live, TP!Connected, NoStaleSocket,
         Tables!NoStaleSocket, Tables!mentioned, TP!mentioned
<1>2. SystemInv \/ Over => TP!IInv
  BY DEF SystemInv, Over
<1> QED BY <1>1, <1>2, SystemInvariance, PTL

(* Every client has a slot, and no descriptor is open without a client.    *)
THEOREM ClientsPolled == Spec => []EveryClientPolled
<1>1. LP!IInv => EveryClientPolled
  BY DEF LP!IInv, LP!Covers, LP!tbl, LP!noLeak, LP!ended, EveryClientPolled,
         Loop!EveryClientPolled, Loop!polled, Loop!noLeak, Loop!ended
<1>2. SystemInv \/ Over => LP!IInv
  BY DEF SystemInv, Over
<1> QED BY <1>1, <1>2, SystemInvariance, PTL

------------------------------------------------------------------------------
(* The tables behave as IRCServer says.  Settled is IRCServer with the     *)
(* newcomer of a dialogue taken out of the map of clients.                 *)

LEMMA SettledIs ==
    /\ pc # "dialogue" => settled = clients
    /\ pc = "dialogue" => settled = TP!Erase(clients, {LP!newcomer})
BY TableMaps, LoopNewcomer DEF settled

LEMMA SettledNext ==
    /\ pc' # "dialogue" => settled' = clients'
    /\ pc' = "dialogue" => settled' = TP!Erase(clients', {LP!newcomer'})
BY DEF settled, Tables!Erase, TP!Erase, Tables!Restrict, TP!Restrict,
       Loop!newcomer, LP!newcomer

LEMMA SettledJoinPart ==
    ASSUME NEW f, NEW c, settled = clients, settled' = clients'
    PROVE  /\ \A k : Tables!handleChannel(f, c, k) => Settled!handleChannel(f, c, k)
           /\ Tables!partCmdClientCommon(f, c) => Settled!partCmdClientCommon(f, c)
<1>1. ASSUME NEW k, Tables!handleChannel(f, c, k)
      PROVE  Settled!handleChannel(f, c, k)
  BY <1>1
     DEF Tables!handleChannel, Settled!handleChannel, Tables!inChannel, Settled!inChannel,
         Tables!isMember, Settled!isMember, Tables!admits, Settled!admits,
         Tables!createdIn, Settled!createdIn, Tables!newChannel, Settled!newChannel,
         Tables!addMember, Settled!addMember, Tables!isFull, Settled!isFull,
         Tables!getMembersCount, Settled!getMembersCount,
         Tables!isInvitedMember, Settled!isInvitedMember, Tables!Put, Settled!Put,
         Tables!Touch, Settled!Touch, Tables!Default, Settled!Default,
         Tables!NoSocket, Settled!NoSocket, Tables!Cardinality, Settled!Cardinality
<1>2. ASSUME Tables!partCmdClientCommon(f, c)
      PROVE  Settled!partCmdClientCommon(f, c)
  BY <1>2
     DEF Tables!partCmdClientCommon, Settled!partCmdClientCommon,
         Tables!inChannel, Settled!inChannel, Tables!isMember, Settled!isMember,
         Tables!removeMemberFrom, Settled!removeMemberFrom,
         Tables!removeMember, Settled!removeMember, Tables!update, Settled!update,
         Tables!destroy, Settled!destroy, Tables!Erase, Settled!Erase,
         Tables!Restrict, Settled!Restrict, Tables!removeFromOrder, Settled!removeFromOrder,
         Tables!Touch, Settled!Touch, Tables!Default, Settled!Default,
         Tables!NoSocket, Settled!NoSocket
<1> QED BY <1>1, <1>2

LEMMA SettledKickInvite ==
    ASSUME NEW f, NEW c, NEW n, settled = clients, settled' = clients'
    PROVE  /\ Tables!kickCmdClient(f, c, n) => Settled!kickCmdClient(f, c, n)
           /\ Tables!inviteCmdClient(f, c, n) => Settled!inviteCmdClient(f, c, n)
<1>1. \A s : Tables!findUserSocket(n, s) => Settled!findUserSocket(n, s)
  BY DEF Tables!findUserSocket, Settled!findUserSocket
<1>2. Tables!kickCmdClient(f, c, n) => Settled!kickCmdClient(f, c, n)
  BY <1>1
     DEF Tables!kickCmdClient, Settled!kickCmdClient, Tables!isMember, Settled!isMember,
         Tables!isOperator, Settled!isOperator, Tables!isFound, Settled!isFound,
         Tables!update, Settled!update, Tables!forget, Settled!forget,
         Tables!removeMember, Settled!removeMember, Tables!removeOperator,
         Settled!removeOperator, Tables!removeInvitedMember, Settled!removeInvitedMember,
         Tables!Touch, Settled!Touch, Tables!Default, Settled!Default, Tables!NoSocket,
         Settled!NoSocket
<1>3. Tables!inviteCmdClient(f, c, n) => Settled!inviteCmdClient(f, c, n)
  BY <1>1
     DEF Tables!inviteCmdClient, Settled!inviteCmdClient, Tables!isMember,
         Settled!isMember, Tables!inChannel, Settled!inChannel, Tables!isFound,
         Settled!isFound, Tables!update, Settled!update, Tables!addInvitedMember,
         Settled!addInvitedMember, Tables!Touch, Settled!Touch, Tables!Default,
         Settled!Default, Tables!NoSocket, Settled!NoSocket
<1> QED BY <1>2, <1>3

LEMMA SettledMode ==
    ASSUME NEW f, NEW c, Tables!modeCmdClient(f, c), settled = clients, settled' = clients'
    PROVE  Settled!modeCmdClient(f, c)
<1>1. ASSUME NEW n, Tables!modeOCmd(f, c, n)
      PROVE  Settled!modeOCmd(f, c, n)
  BY <1>1
     DEF Tables!modeOCmd, Settled!modeOCmd, Tables!inChannel, Settled!inChannel,
         Tables!isMember, Settled!isMember, Tables!namedMember, Settled!namedMember,
         Tables!isFound, Settled!isFound, Tables!update, Settled!update,
         Tables!addOperator, Settled!addOperator,
         Tables!removeOperator, Settled!removeOperator,
         Tables!tellMembers, Settled!tellMembers, Tables!Touch, Settled!Touch,
         Tables!Default, Settled!Default, Tables!NoSocket, Settled!NoSocket
<1>2. \/ Settled!modeICmd(f, c) \/ Settled!modeTCmd(f, c) \/ Settled!modeKCmd(f, c)
      \/ Settled!modeLCmd(f, c) \/ Settled!modeBCmd(f, c)
      \/ \E n \in Nicks : Tables!modeOCmd(f, c, n)
  BY
     DEF Tables!modeCmdClient, Tables!modeICmd, Settled!modeICmd, Tables!modeTCmd,
         Settled!modeTCmd,
         Tables!modeKCmd, Settled!modeKCmd, Tables!modeLCmd, Settled!modeLCmd,
         Tables!modeBCmd, Settled!modeBCmd, Tables!mayChangeMode, Settled!mayChangeMode,
         Tables!inChannel, Settled!inChannel, Tables!isMember, Settled!isMember,
         Tables!isOperator, Settled!isOperator, Tables!isValidLimit, Settled!isValidLimit,
         Tables!update, Settled!update, Tables!tellMembers, Settled!tellMembers,
         Tables!Touch, Settled!Touch, Tables!Default, Settled!Default,
         Tables!NoSocket, Settled!NoSocket
<1> QED BY <1>1, <1>2 DEF Settled!modeCmdClient

LEMMA SettledTalk ==
    ASSUME NEW f, NEW c, NEW msg, settled = clients, settled' = clients'
    PROVE  /\ Tables!sendMessageToChannel(f, c, msg) =>
                 Settled!sendMessageToChannel(f, c, msg)
           /\ Tables!handleUnknownCommand(f, msg) => Settled!handleUnknownCommand(f, msg)
           /\ \A t : Tables!topicCmdClient(f, c, t) => Settled!topicCmdClient(f, c, t)
<1>1. \A d, order : Tables!say(f, d, msg, order) => Settled!say(f, d, msg, order)
  <2>1. \A d, order :
           Tables!removeMemberFrom(d, clients[f].sock, order) =>
              Settled!removeMemberFrom(d, settled[f].sock, order)
    BY
       DEF Tables!removeMember, Settled!removeMember, Tables!removeMemberFrom,
           Settled!removeMemberFrom, Tables!update, Settled!update, Tables!destroy,
           Settled!destroy, Tables!Erase, Settled!Erase, Tables!Restrict,
           Settled!Restrict, Tables!Touch, Settled!Touch, Tables!Default,
           Settled!Default, Tables!NoSocket, Settled!NoSocket
  <2> QED BY <2>1
     DEF Tables!say, Settled!say, Tables!hasBannedWord, Settled!hasBannedWord,
         Tables!Touch, Settled!Touch, Tables!Default, Settled!Default, Tables!NoSocket,
         Settled!NoSocket
<1>2. \A d : Tables!inChannel(f, d) <=> Settled!inChannel(f, d)
  BY DEF Tables!inChannel, Settled!inChannel, Tables!isMember, Settled!isMember
<1>3. Tables!sendMessageToChannel(f, c, msg) => Settled!sendMessageToChannel(f, c, msg)
  BY <1>1, <1>2
     DEF Tables!sendMessageToChannel, Settled!sendMessageToChannel,
         Tables!removeFromOrder, Settled!removeFromOrder
<1>4. Tables!handleUnknownCommand(f, msg) => Settled!handleUnknownCommand(f, msg)
  BY <1>1, <1>2
     DEF Tables!handleUnknownCommand, Settled!handleUnknownCommand, Tables!removeInPlace,
         Settled!removeInPlace
<1>5. \A t : Tables!topicCmdClient(f, c, t) => Settled!topicCmdClient(f, c, t)
  BY <1>2
     DEF Tables!topicCmdClient, Settled!topicCmdClient, Tables!isOperator,
         Settled!isOperator, Tables!tellMembers, Settled!tellMembers, Tables!update,
         Settled!update, Tables!Touch, Settled!Touch, Tables!Default, Settled!Default,
         Tables!NoSocket, Settled!NoSocket
<1> QED BY <1>3, <1>4, <1>5

LEMMA SettledNick ==
    ASSUME NEW f, NEW n, Tables!nickCmdClient(f, n), settled = clients, settled' = clients'
    PROVE  Settled!nickCmdClient(f, n)
BY DEF Tables!nickCmdClient, Settled!nickCmdClient,
       Tables!isNicknameAvailable, Settled!isNicknameAvailable,
       Tables!removeNickname, Settled!removeNickname

LEMMA SettledLeavers ==
    ASSUME NEW f, settled = clients, settled' = clients'
    PROVE  /\ TP!disconnect(f) => Settled!disconnect(f)
           /\ TP!quitCmdClient(f) => Settled!quitCmdClient(f)
<1>1. \A s : TP!partAllChannels(s) => Settled!partAllChannels(s)
  BY DEF TP!partAllChannels, Settled!partAllChannels, TP!forget, Settled!forget,
         TP!removeMember, Settled!removeMember, TP!removeOperator, Settled!removeOperator,
         TP!removeInvitedMember, Settled!removeInvitedMember,
         TP!removeFromOrder, Settled!removeFromOrder
<1>2. \A s : TP!noticeTouches(s) = Settled!noticeTouches(s)
  BY DEF TP!noticeTouches, Settled!noticeTouches, TP!isMember, Settled!isMember,
         TP!hasBannedWord, Settled!hasBannedWord
<1>3. TP!disconnect(f) => Settled!disconnect(f)
  BY <1>1, <1>2
     DEF TP!disconnect, Settled!disconnect, TP!Erase, Settled!Erase,
         TP!Restrict, Settled!Restrict, TP!Touch, Settled!Touch,
         TP!Default, Settled!Default, TP!NoSocket, Settled!NoSocket,
         TP!removeNickname, Settled!removeNickname
<1>4. TP!quitCmdClient(f) => Settled!quitCmdClient(f)
  BY <1>1
     DEF TP!quitCmdClient, Settled!quitCmdClient, TP!Erase, Settled!Erase,
         TP!Restrict, Settled!Restrict, TP!removeNickname, Settled!removeNickname
<1> QED BY <1>3, <1>4

LEMMA SettledCommand ==
    ASSUME SystemInv, NEW f \in served, command(f), settled = clients, settled' = clients'
    PROVE  Settled!Next \/ UNCHANGED Settled!vars
<1>1. f \in Settled!Connected
  BY Basics DEF Settled!Connected, Settled!NoSocket, TP!NoSocket
<1>2. ASSUME NEW c \in ChannelNames, Tables!channelCommand(f, c)
      PROVE  Settled!channelCommand(f, c)
  BY <1>2, SettledJoinPart, SettledKickInvite, SettledMode, SettledTalk
     DEF Tables!channelCommand, Settled!channelCommand, Tables!Messages, Settled!Messages
<1>3. CASE UNCHANGED tableVars
  BY <1>3 DEF tableVars, Settled!vars
<1>4. CASE f \in anonymous /\ Tables!quitCmdClient(f)
  BY <1>1, <1>4, TableLeavers, SettledLeavers DEF Settled!Next, Settled!handleClientMessage
<1>5. CASE \E n \in ValidNicks : Tables!nickCmdClient(f, n)
  BY <1>1, <1>5, SettledNick DEF Settled!Next, Settled!handleClientMessage
<1>6. CASE \E c \in ChannelNames : Tables!channelCommand(f, c)
  BY <1>1, <1>2, <1>6 DEF Settled!Next, Settled!handleClientMessage
<1>7. CASE \E msg \in Tables!Messages : Tables!handleUnknownCommand(f, msg)
  BY <1>1, <1>7, SettledTalk
     DEF Settled!Next, Settled!handleClientMessage, Tables!Messages, Settled!Messages
<1> QED BY <1>3, <1>4, <1>5, <1>6, <1>7 DEF command

LEMMA SettledIdle ==
    ASSUME SystemInv, idle
    PROVE  UNCHANGED Settled!vars
<1>1. /\ UNCHANGED clients
      /\ UNCHANGED <<fds, nfds, pc>> \/ (pc # "dialogue" /\ pc' # "dialogue")
  BY DEF idle, tableVars, Loop!connect, Loop!send, Loop!hangUp, Loop!tables, Loop!poll,
         skipAll, Loop!atSlot, Loop!endOfRound
<1>2. UNCHANGED settled
  <2>1. CASE UNCHANGED <<fds, nfds, pc>>
    BY <1>1, <2>1 DEF settled, Loop!newcomer
  <2>2. CASE pc # "dialogue" /\ pc' # "dialogue"
    BY <1>1, <2>2, SettledIs, SettledNext
  <2> QED BY <1>1, <2>1, <2>2
<1> QED BY <1>2 DEF idle, tableVars, Settled!vars

LEMMA SettledAccept ==
    ASSUME SystemInv, acceptNewConnection
    PROVE  Settled!Next \/ UNCHANGED Settled!vars
<1>1. settled = clients /\ UNCHANGED <<channels, channelOrder>>
  BY AcceptCases, SettledIs
<1>2. CASE UNCHANGED <<served, anonymous, clients, nicknames>>
               /\ (pc' = "walk" \/ LP!ended')
  BY <1>1, <1>2, SettledNext DEF Settled!vars, LP!ended
<1>3. ASSUME NEW fd \in Sockets \ served, Admits(fd)
      PROVE  Settled!Next \/ UNCHANGED Settled!vars
  <2>1. fd \notin DOMAIN clients /\ Sockets \ DOMAIN clients = Sockets \ served
    BY Basics
  <2>2. CASE /\ pc' = "dialogue" /\ LP!newcomer' = fd /\ UNCHANGED nicknames
             /\ clients' = TP!Put(clients, fd, [sock |-> fd, nick |-> DefaultNick])
    <3>1. settled' = TP!Erase(clients', {fd})
      BY <2>2, SettledNext
    <3>2. settled' = clients
      BY <2>1, <2>2, <3>1 DEF TP!Erase, TP!Restrict, TP!Put, SystemInv, AFunction
    <3> QED BY <1>1, <2>2, <3>2 DEF Settled!vars
  <2>3. Cardinality(DOMAIN clients) < MaxClients /\ Settled!accept(fd)
    BY <1>1, <1>3, <2>1 DEF Admits, Settled!accept
  <2>4. ASSUME pc' = "walk", Settled!detectClient(fd)
        PROVE  Settled!Next
    BY <1>1, <2>3, <2>4 DEF Settled!Next, Settled!acceptNewConnection,
                            Settled!Cardinality, Cardinality
  <2>5. CASE "irssi" \in Kinds /\ pc' = "walk" /\ TP!parsingDataIrssi(fd)
    <3>1. settled' = clients'
      BY <2>5, SettledNext
    <3>2. Settled!parsingDataIrssi(fd)
      BY <1>1, <2>5, <3>1
         DEF TP!parsingDataIrssi, Settled!parsingDataIrssi, TP!addUser, Settled!addUser,
             TP!Put, Settled!Put
    <3> QED BY <2>4, <2>5, <3>2 DEF Settled!detectClient
  <2>6. CASE "other" \in Kinds /\ pc' = "walk" /\ TP!leftUnregistered(fd)
    <3>1. settled' = clients'
      BY <2>6, SettledNext
    <3>2. Settled!leftUnregistered(fd)
      BY <1>1, <2>6, <3>1
         DEF TP!leftUnregistered, Settled!leftUnregistered, TP!Put, Settled!Put,
             TP!Default, Settled!Default, TP!NoSocket, Settled!NoSocket
    <3> QED BY <2>4, <2>6, <3>2 DEF Settled!detectClient
  <2> QED BY <1>3, <2>2, <2>5, <2>6 DEF Admits
<1> QED BY <1>2, <1>3, AcceptCases

LEMMA SettledDialogue ==
    ASSUME SystemInv, dialogue
    PROVE  Settled!Next \/ UNCHANGED Settled!vars
<1> DEFINE fd == LP!newcomer
<1>1. /\ pc = "dialogue" /\ AtDoor /\ LP!InDialogue
      /\ fd \in served /\ fd \in Sockets /\ fd \in DOMAIN clients
      /\ settled = TP!Erase(clients, {fd})
      /\ UNCHANGED <<channels, channelOrder>>
  BY DialogueCases, SettledIs, Basics DEF SystemInv, LP!IInv
<1>2. CASE pc' = "dialogue" /\ LP!newcomer' = fd /\ UNCHANGED <<served, clients, nicknames>>
  BY <1>1, <1>2, SettledNext DEF Settled!vars
<1>3. DOMAIN settled = DOMAIN clients \ {fd}
  BY <1>1 DEF TP!Erase, TP!Restrict
<1>4. Cardinality(DOMAIN settled) < MaxClients
  <2>1. IsFiniteSet(DOMAIN clients)
    BY Basics, FS_AddElement, FS_Subset
  <2>2. Cardinality(DOMAIN settled) = Cardinality(DOMAIN clients) - 1
        /\ Cardinality(DOMAIN clients) \in Nat
    BY <1>1, <1>3, <2>1, FS_RemoveElement, FS_CardinalityType
  <2> QED BY <1>1, <2>2, LoopAssumption DEF AtDoor
<1>5. Settled!accept(fd)
  <2>1. \A g \in Sockets \ DOMAIN settled : g = fd \/ g \in Sockets \ served
    BY <1>3, Basics
  <2>2. \A g \in Sockets \ served : fd <= g
    BY <1>1 DEF LP!InDialogue
  <2>3. fd <= fd
    BY <1>1, Basics
  <2> QED BY <1>1, <1>3, <2>1, <2>2, <2>3 DEF Settled!accept
<1>6. ASSUME Settled!parsingDataNetcat(fd) \/ Settled!registrationAborted(fd)
      PROVE  Settled!Next
  BY <1>1, <1>4, <1>5, <1>6
     DEF Settled!Next, Settled!acceptNewConnection, Settled!detectClient, AtDoor,
         Settled!Cardinality, Cardinality
<1>7. CASE pc' = "walk" /\ TP!parsingDataNetcat(fd)
  <2>1. PICK n \in Nicks : TP!setNickName(n) /\ TP!addUser(fd, n)
    BY <1>7 DEF TP!parsingDataNetcat
  <2>2. settled' = TP!Put(clients, fd, [sock |-> fd, nick |-> n])
    BY <1>7, <2>1, SettledNext DEF TP!addUser
  <2>3. settled' = Settled!Put(settled, fd, [sock |-> fd, nick |-> n])
    <3>1. \A f \in DOMAIN clients \ {fd} : settled[f] = clients[f]
      BY <1>1 DEF TP!Erase, TP!Restrict
    <3> QED BY <1>1, <1>3, <2>2, <3>1 DEF TP!Put, Settled!Put
  <2>4. Settled!setNickName(n) /\ Settled!addUser(fd, n)
    BY <2>1, <2>3 DEF TP!setNickName, Settled!setNickName, TP!isNicknameAvailable,
                      Settled!isNicknameAvailable, TP!addUser, Settled!addUser
  <2> QED BY <1>6, <2>4 DEF Settled!parsingDataNetcat
<1>8. CASE /\ pc' = "walk"
           /\ nicknames' = nicknames \cup {NoNick}
           /\ clients' = TP!Erase(clients, {fd})
  BY <1>1, <1>6, <1>8, SettledNext DEF Settled!registrationAborted
<1> QED BY <1>2, <1>7, <1>8, DialogueCases

(* A slot that is read and lists no client is one slot too many.           *)
LEMMA LeftoverSlot ==
    ASSUME SystemInv, i \in 2..nfds - 1, fds[i].fd \notin served
    PROVE  leftoverSlot
<1> DEFINE I == 2..nfds - 1
           listed == {fds[j].fd : j \in I}
           fdOf == [j \in I |-> fds[j].fd]
<1>1. nfds \in Nat /\ nfds >= 2
  BY LoopAssumption DEF SystemInv, LP!IInv, LP!TypeOK
<1>2. fdOf \in Surjection(I, listed)
  BY DEF Surjection
<1>3. IsFiniteSet(I) /\ Cardinality(I) = nfds - 2
  BY <1>1, FS_Interval
<1>4. IsFiniteSet(listed) /\ Cardinality(listed) <= Cardinality(I)
  <2> HIDE DEF fdOf, listed, I
  <2> QED BY <1>2, <1>3, FS_Surjection
<1>5. served \cup {fds[i].fd} \in SUBSET listed
  BY DEF SystemInv, LP!IInv, LP!Covers, LP!tbl
<1>6. /\ IsFiniteSet(served) /\ Cardinality(served) \in Nat
      /\ Cardinality(served \cup {fds[i].fd}) = Cardinality(served) + 1
  BY Basics, FS_Subset, FS_AddElement, FS_CardinalityType
<1>7. Cardinality(served \cup {fds[i].fd}) <= Cardinality(listed)
  BY <1>4, <1>5, FS_Subset
<1>8. Cardinality(listed) \in Nat
  BY <1>4, FS_CardinalityType
<1> QED BY <1>1, <1>3, <1>4, <1>6, <1>7, <1>8 DEF leftoverSlot

LEMMA SettledMessage ==
    ASSUME SystemInv, handleClientMessage
    PROVE  \/ Settled!Next \/ UNCHANGED Settled!vars
           \/ leftoverSlot /\ readClosed(fds[i].fd)
<1>1. PICK fd \in Sockets :
         /\ fd = fds[i].fd /\ i \in 2..nfds - 1
         /\ pc = "walk" /\ pc' = "walk"
         /\ \/ fd \in served /\ command(fd)
            \/ /\ fd \in served
               /\ TP!disconnect(fd) \/ TP!quitCmdClient(fd)
            \/ fd \notin served /\ readClosed(fd)
  BY MessageCases
<1>2. settled = clients /\ settled' = clients'
  BY <1>1, SettledIs, SettledNext
<1>3. CASE fd \in served /\ command(fd)
  BY <1>2, <1>3, SettledCommand
<1>4. CASE fd \in served /\ (TP!disconnect(fd) \/ TP!quitCmdClient(fd))
  <2>1. fd \in Settled!Connected
    BY <1>2, <1>4, Basics DEF Settled!Connected, Settled!NoSocket, TP!NoSocket
  <2> QED BY <1>2, <1>4, <2>1, SettledLeavers DEF Settled!Next, Settled!handleClientMessage
<1>5. CASE fd \notin served /\ readClosed(fd)
  BY <1>1, <1>5, LeftoverSlot
<1> QED BY <1>1, <1>3, <1>4, <1>5

(* Whatever the loop does, the tables take steps of IRCServer, or a slot   *)
(* that a refused client left behind is read.                              *)
THEOREM TablesImplemented == Spec => TablesBehave
<1>1. Init => Settled!Init
  <2> SUFFICES ASSUME Init PROVE Settled!Init
    OBVIOUS
  <2>1. pc = "poll" /\ Tables!Init
    BY DEF Init, Loop!Init
  <2> QED BY <2>1, SettledIs DEF Tables!Init, Settled!Init
<1>2. (SystemInv \/ Over) /\ [Next]_vars
      => [Settled!Next \/ (leftoverSlot /\ readClosed(fds[i].fd))]_(Settled!vars)
  <2> SUFFICES ASSUME SystemInv \/ Over, [Next]_vars
               PROVE  \/ Settled!Next \/ UNCHANGED Settled!vars
                      \/ leftoverSlot /\ readClosed(fds[i].fd)
    OBVIOUS
  <2>1. CASE UNCHANGED vars
    BY <2>1 DEF vars, loopVars, tableVars, Settled!vars, settled, Loop!newcomer
  <2> QED BY <2>1, OverStays, SettledIdle, SettledAccept, SettledDialogue, SettledMessage DEF Next
<1> QED BY <1>1, <1>2, SystemInvariance, PTL DEF Spec, TablesBehave

------------------------------------------------------------------------------
(* Whose name a step gives back.                                           *)

Freed(f) ==
    LET n == settled[f].nick IN
    settled'[f].nick = n /\ n \in nicknames /\ n \notin nicknames'

Excused(f) ==
    LET n == settled[f].nick IN
    \/ \E g \in DOMAIN settled \ {f} : settled[g].nick = n
    \/ f \in anonymous /\ fds[i].fd = f
    \/ n = DefaultNick /\ leftoverSlot

FreesNamesakes ==
    \A f \in DOMAIN settled \cap DOMAIN settled' : Freed(f) => Excused(f)

LEMMA NothingFreed ==
    ASSUME nicknames \subseteq nicknames'
    PROVE  FreesNamesakes
BY DEF FreesNamesakes, Freed

(* The name of fd is given back, and fd goes, is renamed, or quits and,    *)
(* unregistered, stays.                                                    *)
LEMMA OwnFreed ==
    ASSUME NEW fd \in DOMAIN settled, fds[i].fd = fd,
           nicknames \ nicknames' \subseteq {settled[fd].nick},
           \/ fd \notin DOMAIN settled'
           \/ settled'[fd].nick # settled[fd].nick
           \/ fd \in anonymous
    PROVE  FreesNamesakes
<1> SUFFICES ASSUME NEW f \in DOMAIN settled \cap DOMAIN settled', Freed(f)
             PROVE  Excused(f)
  BY DEF FreesNamesakes
<1>1. settled[fd].nick = settled[f].nick
  BY DEF Freed
<1>2. CASE f = fd
  BY <1>2 DEF Freed, Excused
<1>3. CASE f # fd
  BY <1>1, <1>3 DEF Excused
<1> QED BY <1>2, <1>3

LEMMA MessageFrees ==
    ASSUME SystemInv, handleClientMessage
    PROVE  FreesNamesakes
<1>1. PICK fd \in Sockets :
         /\ fd = fds[i].fd /\ i \in 2..nfds - 1
         /\ pc = "walk" /\ pc' = "walk"
         /\ \/ fd \in served /\ command(fd)
            \/ /\ fd \in served
               /\ TP!disconnect(fd) \/ (fd \notin anonymous /\ TP!quitCmdClient(fd))
            \/ fd \notin served /\ readClosed(fd)
  BY MessageCases
<1>2. settled = clients /\ settled' = clients'
  BY <1>1, SettledIs, SettledNext
<1>3. CASE fd \in served /\ command(fd)
  <2>1. fd \in DOMAIN clients /\ fd \in TP!Connected /\ TP!IInv
        /\ clients[fd] \in TP!ClientRecord
    BY <1>3, Basics DEF SystemInv, Agree
  <2>2. CASE UNCHANGED tableVars
    BY <2>2, NothingFreed DEF tableVars
  <2>3. CASE fd \in anonymous /\ TP!quitCmdClient(fd)
    <3>1. nicknames \ nicknames' \subseteq {clients[fd].nick}
      BY <2>3 DEF TP!quitCmdClient, TP!removeNickname
    <3> QED BY <1>1, <1>2, <2>1, <2>3, <3>1, OwnFreed
  <2>4. ASSUME NEW n \in ValidNicks, TP!nickCmdClient(fd, n)
        PROVE  FreesNamesakes
    <3>1. /\ clients' = [clients EXCEPT ![fd].nick = n]
          /\ n \notin nicknames
          /\ nicknames \ nicknames' \subseteq {clients[fd].nick}
          /\ n \in nicknames'
      BY <2>4 DEF TP!nickCmdClient, TP!isNicknameAvailable, TP!removeNickname
    <3>2. clients'[fd].nick = n
      BY <2>1, <3>1 DEF TP!ClientRecord
    <3>3. CASE clients[fd].nick = n
      BY <3>1, <3>3, NothingFreed
    <3>4. CASE clients[fd].nick # n
      BY <1>1, <1>2, <2>1, <3>1, <3>2, <3>4, OwnFreed
    <3> QED BY <3>3, <3>4
  <2>5. CASE \/ \E c \in ChannelNames : TP!channelCommand(fd, c)
             \/ \E msg \in TP!Messages : TP!handleUnknownCommand(fd, msg)
    <3>1. TP!ChannelStep
      BY <2>1, <2>5, TablesAssume, TP!ChannelCommandOK
    <3> QED BY <3>1, NothingFreed DEF TP!ChannelStep
  <2> QED BY <1>3, <2>2, <2>3, <2>4, <2>5, TableCommand
<1>4. CASE /\ fd \in served
           /\ TP!disconnect(fd) \/ (fd \notin anonymous /\ TP!quitCmdClient(fd))
  <2>1. fd \in DOMAIN clients /\ fd \notin DOMAIN clients'
    <3>1. TP!Connected' = served \ {fd}
      BY <1>4, Leaves DEF Become
    <3> QED BY <1>4, <3>1, Basics DEF TP!Connected, TP!NoSocket
  <2>2. nicknames \ nicknames' \subseteq {clients[fd].nick}
    BY <1>4 DEF TP!disconnect, TP!quitCmdClient, TP!removeNickname
  <2> QED BY <1>1, <1>2, <2>1, <2>2, OwnFreed
<1>5. CASE fd \notin served /\ readClosed(fd)
  <2>1. leftoverSlot
    BY <1>1, <1>5, LeftoverSlot
  <2>2. nicknames \ nicknames' \subseteq {DefaultNick}
    BY <1>5, TableMaps DEF readClosed, TP!removeNickname
  <2> QED BY <2>1, <2>2 DEF FreesNamesakes, Freed, Excused
<1> QED BY <1>1, <1>3, <1>4, <1>5

(* A client that stays loses its name only to a namesake, to its own QUIT, *)
(* or to a read of a slot that a refused client left behind.               *)
THEOREM NamesakesFree == Spec => OnlyNamesakesFree
<1>1. (SystemInv \/ Over) /\ [Next]_vars =>
         [\A f \in DOMAIN settled \cap DOMAIN settled' :
             LET n == settled[f].nick IN
             /\ settled'[f].nick = n
             /\ n \in nicknames /\ n \notin nicknames'
             => \/ \E g \in DOMAIN settled \ {f} : settled[g].nick = n
                \/ f \in anonymous /\ fds[i].fd = f
                \/ n = DefaultNick /\ leftoverSlot]_vars
  <2> SUFFICES ASSUME SystemInv, Next PROVE FreesNamesakes
    BY OverStays DEF FreesNamesakes, Freed, Excused
  <2>1. CASE idle
    BY <2>1, NothingFreed DEF idle, tableVars
  <2>2. CASE acceptNewConnection
    <3>1. CASE UNCHANGED nicknames
      BY <3>1, NothingFreed
    <3>2. ASSUME NEW fd, Admits(fd)
          PROVE  FreesNamesakes
      BY <3>2, NothingFreed
         DEF Admits, TP!parsingDataIrssi, TP!addUser, TP!leftUnregistered
    <3> QED BY <2>2, <3>1, <3>2, AcceptCases
  <2>3. CASE dialogue
    <3>1. nicknames \subseteq nicknames'
      BY <2>3, DialogueCases DEF TP!parsingDataNetcat, TP!addUser
    <3> QED BY <3>1, NothingFreed
  <2>4. CASE handleClientMessage
    BY <2>4, MessageFrees
  <2> QED BY <2>1, <2>2, <2>3, <2>4 DEF Next
<1> QED BY <1>1, SystemInvariance, PTL DEF Spec, OnlyNamesakesFree
==============================================================================
