--------------------------- MODULE IRCServerProofs ---------------------------
(***************************************************************************)
(* Proofs about IRCServer for every value of its constants.  The inductive *)
(* invariant is split along the two maps: what every entry of _clients is, *)
(* and what every channel is and whom it mentions.                         *)
(***************************************************************************)
EXTENDS IRCServer, FiniteSetTheorems, TLAPS

(* The sockets of the connected clients of a client map.                   *)
Live(cl) == {cl[f].sock : f \in DOMAIN cl \ {NoSocket}}

ClientsOK(cl) ==
    /\ DOMAIN cl \subseteq Sockets \cup {NoSocket}
    /\ \A f \in DOMAIN cl :
          cl[f] \in ClientRecord /\ cl[f].sock \in {f, NoSocket}

ChannelsOK(chs, L) ==
    /\ DOMAIN chs \subseteq ChannelNames
    /\ \A c \in DOMAIN chs :
          chs[c] \in ChannelRecord /\ mentioned(chs[c]) \subseteq L

NamesOK == nicknames \subseteq Nicks \cup {NoNick}

IInv ==
    /\ ClientsOK(clients)
    /\ NamesOK
    /\ ChannelsOK(channels, Live(clients))

------------------------------------------------------------------------------
(* The operators on the two maps.                                          *)

(* operator[] adds only default entries: an entry that exists stays, and   *)
(* no connection is lost.                                                  *)
LEMMA TouchOK ==
    ASSUME NEW cl, ClientsOK(cl), NEW S \in SUBSET (Sockets \cup {NoSocket})
    PROVE  ClientsOK(Touch(cl, S)) /\ Live(cl) \subseteq Live(Touch(cl, S))
<1>1. DOMAIN Touch(cl, S) = DOMAIN cl \cup S
  BY DEF Touch
<1>2. \A f \in DOMAIN cl : Touch(cl, S)[f] = cl[f]
  BY DEF Touch
<1>3. \A f \in S \ DOMAIN cl : Touch(cl, S)[f] = Default
  BY DEF Touch
<1>4. Default \in ClientRecord /\ Default.sock = NoSocket
  BY NicksAssumption DEF Default, ClientRecord
<1>5. ClientsOK(Touch(cl, S))
  BY <1>1, <1>2, <1>3, <1>4 DEF ClientsOK
<1>6. Live(cl) \subseteq Live(Touch(cl, S))
  BY <1>1, <1>2 DEF Live
<1> QED BY <1>5, <1>6

(* Storing a record under a descriptor that was free.                      *)
LEMMA PutOK ==
    ASSUME NEW cl, ClientsOK(cl), NEW fd \in Sockets \ DOMAIN cl,
           NEW r \in ClientRecord, r.sock \in {fd, NoSocket}
    PROVE  ClientsOK(Put(cl, fd, r)) /\ Live(cl) \subseteq Live(Put(cl, fd, r))
<1>1. DOMAIN Put(cl, fd, r) = DOMAIN cl \cup {fd}
  BY DEF Put
<1>2. Put(cl, fd, r)[fd] = r /\ \A f \in DOMAIN cl : Put(cl, fd, r)[f] = cl[f]
  BY DEF Put
<1>3. ClientsOK(Put(cl, fd, r))
  BY <1>1, <1>2 DEF ClientsOK
<1>4. Live(cl) \subseteq Live(Put(cl, fd, r))
  BY <1>1, <1>2 DEF Live
<1> QED BY <1>3, <1>4

(* Erasing the entries K loses the connections K only.                     *)
LEMMA EraseOK ==
    ASSUME NEW cl, ClientsOK(cl), NEW K
    PROVE  /\ ClientsOK(Erase(cl, K))
           /\ \A s \in Live(cl) :
                 (\A f \in (K \cap DOMAIN cl) \ {NoSocket} : cl[f].sock # s)
                     => s \in Live(Erase(cl, K))
<1>1. DOMAIN Erase(cl, K) = DOMAIN cl \ K
  BY DEF Erase, Restrict
<1>2. \A f \in DOMAIN cl \ K : Erase(cl, K)[f] = cl[f]
  BY DEF Erase, Restrict
<1>3. ClientsOK(Erase(cl, K))
  BY <1>1, <1>2 DEF ClientsOK
<1>4. ASSUME NEW s \in Live(cl),
             \A f \in (K \cap DOMAIN cl) \ {NoSocket} : cl[f].sock # s
      PROVE  s \in Live(Erase(cl, K))
  <2>1. PICK f \in DOMAIN cl \ {NoSocket} : cl[f].sock = s
    BY DEF Live
  <2>2. f \notin K
    BY <1>4, <2>1
  <2> QED BY <1>1, <1>2, <2>1, <2>2 DEF Live
<1> QED BY <1>3, <1>4

------------------------------------------------------------------------------
(* The operators on channels.                                              *)

LEMMA ChannelsGrow ==
    ASSUME NEW chs, NEW L, NEW M, ChannelsOK(chs, L), L \subseteq M
    PROVE  ChannelsOK(chs, M)
BY DEF ChannelsOK

(* Writing one good channel keeps all of them good.                        *)
LEMMA ChannelPutOK ==
    ASSUME NEW chs, NEW L, ChannelsOK(chs, L),
           NEW c \in ChannelNames, NEW ch \in ChannelRecord,
           mentioned(ch) \subseteq L
    PROVE  ChannelsOK(Put(chs, c, ch), L)
<1>1. DOMAIN Put(chs, c, ch) = DOMAIN chs \cup {c}
  BY DEF Put
<1>2. Put(chs, c, ch)[c] = ch
  BY DEF Put
<1>3. \A d \in DOMAIN chs : d # c => Put(chs, c, ch)[d] = chs[d]
  BY DEF Put
<1> QED BY <1>1, <1>2, <1>3 DEF ChannelsOK

(* update writes only the channel it names.                                *)
LEMMA UpdateOK ==
    ASSUME NEW L, ChannelsOK(channels, L),
           NEW c \in DOMAIN channels, NEW ch \in ChannelRecord,
           mentioned(ch) \subseteq L,
           update(c, ch)
    PROVE  ChannelsOK(channels', L)
<1>1. /\ DOMAIN channels' = DOMAIN channels
      /\ \A d \in DOMAIN channels : d # c => channels'[d] = channels[d]
      /\ channels'[c] = ch
  BY DEF update
<1> QED BY <1>1 DEF ChannelsOK

LEMMA DestroyOK ==
    ASSUME NEW L, ChannelsOK(channels, L), NEW C, NEW order, destroy(C, order)
    PROVE  ChannelsOK(channels', L)
<1>1. /\ DOMAIN channels' = DOMAIN channels \ C
      /\ \A d \in DOMAIN channels \ C : channels'[d] = channels[d]
  BY DEF destroy, Erase, Restrict
<1> QED BY <1>1 DEF ChannelsOK

(* forget really forgets: the socket is in none of the three lists.        *)
LEMMA ForgetOK ==
    ASSUME NEW ch \in ChannelRecord, NEW s
    PROVE  /\ forget(ch, s) \in ChannelRecord
           /\ mentioned(forget(ch, s)) = mentioned(ch) \ {s}
BY DEF forget, removeMember, removeOperator, removeInvitedMember,
       ChannelRecord, mentioned

LEMMA RemoveMemberOK ==
    ASSUME NEW ch \in ChannelRecord, NEW s
    PROVE  /\ removeMember(ch, s) \in ChannelRecord
           /\ mentioned(removeMember(ch, s)) \subseteq mentioned(ch)
           /\ removeMember(ch, s).members \subseteq ch.members
BY DEF removeMember, ChannelRecord, mentioned

LEMMA AddMemberOK ==
    ASSUME NEW ch \in ChannelRecord, NEW s \in Sockets \cup {NoSocket}
    PROVE  /\ addMember(ch, s) \in ChannelRecord
           /\ mentioned(addMember(ch, s)) = mentioned(ch) \cup {s}
BY DEF addMember, ChannelRecord, mentioned

LEMMA NewChannelOK == newChannel \in ChannelRecord /\ mentioned(newChannel) = {}
BY DefaultMaxMembersAssumption, TextsAssumption
   DEF newChannel, ChannelRecord, mentioned

(* After partAllChannels nobody mentions the socket any more.              *)
LEMMA PartAllOK ==
    ASSUME NEW L, NEW M, ChannelsOK(channels, L), NEW s, L \ {s} \subseteq M,
           partAllChannels(s)
    PROVE  ChannelsOK(channels', M)
<1> DEFINE emptied == {c \in DOMAIN channels : channels[c].members = {s}}
<1>1. /\ DOMAIN channels' = DOMAIN channels \ emptied
      /\ \A c \in DOMAIN channels \ emptied : channels'[c] = forget(channels[c], s)
  BY DEF partAllChannels
<1>2. ASSUME NEW c \in DOMAIN channels \ emptied
      PROVE  channels'[c] \in ChannelRecord /\ mentioned(channels'[c]) \subseteq M
  <2>1. channels[c] \in ChannelRecord /\ mentioned(channels[c]) \subseteq L
    BY DEF ChannelsOK
  <2> QED BY <1>1, <2>1, ForgetOK
<1> QED BY <1>1, <1>2 DEF ChannelsOK

------------------------------------------------------------------------------
(* Facts about a connected client and about a channel in a good state.     *)

LEMMA MeOK ==
    ASSUME IInv, NEW f \in Connected
    PROVE  /\ f \in Sockets
           /\ clients[f] \in ClientRecord
           /\ clients[f].sock \in {f, NoSocket}
           /\ clients[f].sock \in Live(clients)
           /\ clients[f].sock \in Sockets \cup {NoSocket}
           /\ clients[f].nick \in Nicks \cup {NoNick}
BY DEF IInv, ClientsOK, Connected, Live, ClientRecord

LEMMA ChannelOK ==
    ASSUME IInv, NEW c \in DOMAIN channels
    PROVE  /\ channels[c] \in ChannelRecord
           /\ mentioned(channels[c]) \subseteq Live(clients)
           /\ channels[c].members \subseteq Live(clients)
           /\ channels[c].members \subseteq Sockets \cup {NoSocket}
BY DEF IInv, ChannelsOK, ChannelRecord, mentioned

(* What findUserSocket and the search of MODE o find, when it is not       *)
(* NoSocket, is the socket of a connected client.                          *)
LEMMA FoundOK ==
    ASSUME IInv, NEW n, NEW s, findUserSocket(n, s), isFound(s)
    PROVE  s \in Sockets /\ s \in Live(clients)
<1>1. PICK g \in DOMAIN clients : clients[g].sock = s
  BY DEF findUserSocket
<1>2. clients[g].sock \in {g, NoSocket} /\ g \in Sockets \cup {NoSocket}
  BY DEF IInv, ClientsOK
<1>3. g # NoSocket /\ g = s
  BY <1>1, <1>2 DEF isFound
<1> QED BY <1>1, <1>2, <1>3 DEF Live

LEMMA NamedOK ==
    ASSUME IInv, NEW c \in DOMAIN channels, NEW n, NEW s,
           namedMember(c, n, s), isFound(s)
    PROVE  s \in Sockets /\ s \in Live(clients) /\ s \in channels[c].members
<1>1. channels[c].members \in SUBSET (Sockets \cup {NoSocket})
  BY ChannelOK
<1> DEFINE entries == Touch(clients, channels[c].members)
<1>2. PICK m \in channels[c].members : entries[m].sock = s
  BY DEF namedMember
<1>3. ClientsOK(entries)
  BY <1>1, TouchOK DEF IInv
<1>4. m \in DOMAIN entries
  BY DEF Touch
<1>5. m = s
  BY <1>2, <1>3, <1>4 DEF ClientsOK, isFound
<1>6. m \in Sockets
  BY <1>1, <1>5 DEF isFound
<1>7. m \in mentioned(channels[c])
  BY DEF mentioned
<1> QED BY <1>5, <1>6, <1>7, ChannelOK

------------------------------------------------------------------------------
(* The commands about channels.                                            *)

(* What every command but NICK and QUIT does to the two maps.              *)
ChannelStep ==
    /\ ChannelsOK(channels', Live(clients))
    /\ UNCHANGED nicknames
    /\ \/ UNCHANGED clients
       \/ \E S \in SUBSET Live(clients) : clients' = Touch(clients, S)

LEMMA ChannelStepOK ==
    ASSUME IInv, ChannelStep
    PROVE  IInv'
<1>1. Live(clients) \subseteq Sockets \cup {NoSocket}
  BY DEF IInv, ClientsOK, Live
<1>2. ClientsOK(clients') /\ Live(clients) \subseteq Live(clients')
  <2>1. CASE UNCHANGED clients
    BY <2>1 DEF IInv
  <2>2. ASSUME NEW S \in SUBSET Live(clients), clients' = Touch(clients, S)
        PROVE  ClientsOK(clients') /\ Live(clients) \subseteq Live(clients')
    BY <1>1, <2>2, TouchOK DEF IInv
  <2> QED BY <2>1, <2>2 DEF ChannelStep
<1>3. ChannelsOK(channels', Live(clients'))
  BY <1>2, ChannelsGrow DEF ChannelStep
<1>4. NamesOK'
  BY DEF IInv, NamesOK, ChannelStep
<1> QED BY <1>2, <1>3, <1>4 DEF IInv

LEMMA HandleChannelOK ==
    ASSUME IInv, NEW f \in Connected, NEW c \in ChannelNames, NEW k,
           handleChannel(f, c, k)
    PROVE  ChannelStep
<1> DEFINE s == clients[f].sock
           ch == addMember(createdIn(c), s)
<1>1. s \in Sockets \cup {NoSocket} /\ s \in Live(clients)
  BY MeOK
<1>2. createdIn(c) \in ChannelRecord /\ mentioned(createdIn(c)) \subseteq Live(clients)
  BY ChannelOK, NewChannelOK DEF createdIn
<1>3. ch \in ChannelRecord /\ mentioned(ch) \subseteq Live(clients)
  BY <1>1, <1>2, AddMemberOK
<1>4. ChannelsOK(channels', Live(clients))
  BY <1>3, ChannelPutOK DEF handleChannel, IInv
<1>5. ch.members \in SUBSET Live(clients)
  BY <1>3 DEF mentioned
<1> QED BY <1>4, <1>5 DEF handleChannel, ChannelStep

LEMMA RemoveMemberFromOK ==
    ASSUME IInv, NEW c \in DOMAIN channels, NEW s, NEW order,
           removeMemberFrom(c, s, order),
           UNCHANGED nicknames
    PROVE  ChannelStep
<1> DEFINE ch == removeMember(channels[c], s)
<1>1. /\ ch \in ChannelRecord
      /\ mentioned(ch) \subseteq Live(clients)
      /\ ch.members \in SUBSET Live(clients)
  BY ChannelOK, RemoveMemberOK DEF mentioned
<1>2. ChannelsOK(channels', Live(clients))
  <2>1. CASE destroy({c}, order)
    BY <2>1, DestroyOK DEF IInv
  <2>2. CASE update(c, ch)
    BY <1>1, <2>2, UpdateOK DEF IInv
  <2> QED BY <2>1, <2>2 DEF removeMemberFrom
<1> QED BY <1>1, <1>2 DEF removeMemberFrom, ChannelStep

LEMMA KickOK ==
    ASSUME IInv, NEW f \in Connected, NEW c, NEW n, kickCmdClient(f, c, n)
    PROVE  ChannelStep
<1>1. PICK s \in Sockets \cup {NoSocket} :
         /\ c \in DOMAIN channels
         /\ update(c, forget(channels[c], s))
         /\ clients' = Touch(clients, channels[c].members \ {s})
         /\ UNCHANGED nicknames
  BY DEF kickCmdClient
<1>2. /\ forget(channels[c], s) \in ChannelRecord
      /\ mentioned(forget(channels[c], s)) \subseteq Live(clients)
  BY <1>1, ChannelOK, ForgetOK
<1>3. ChannelsOK(channels', Live(clients))
  BY <1>1, <1>2, UpdateOK DEF IInv
<1>4. channels[c].members \ {s} \in SUBSET Live(clients)
  BY <1>1, ChannelOK
<1> QED BY <1>1, <1>3, <1>4 DEF ChannelStep

LEMMA InviteOK ==
    ASSUME IInv, NEW f \in Connected, NEW c, NEW n, inviteCmdClient(f, c, n)
    PROVE  ChannelStep
<1>1. PICK s \in Sockets \cup {NoSocket} :
         /\ inChannel(f, c)
         /\ findUserSocket(n, s) /\ isFound(s)
         /\ update(c, addInvitedMember(channels[c], s))
         /\ clients' = Touch(clients, channels[c].members)
         /\ UNCHANGED nicknames
  BY DEF inviteCmdClient
<1>2. c \in DOMAIN channels /\ s \in Sockets /\ s \in Live(clients)
  BY <1>1, FoundOK DEF inChannel
<1>3. channels[c] \in ChannelRecord /\ mentioned(channels[c]) \subseteq Live(clients)
  BY <1>2, ChannelOK
<1>4. /\ addInvitedMember(channels[c], s) \in ChannelRecord
      /\ mentioned(addInvitedMember(channels[c], s)) \subseteq Live(clients)
  BY <1>2, <1>3 DEF addInvitedMember, ChannelRecord, mentioned
<1>5. ChannelsOK(channels', Live(clients))
  BY <1>1, <1>2, <1>4, UpdateOK DEF IInv
<1>6. channels[c].members \in SUBSET Live(clients)
  BY <1>2, ChannelOK
<1> QED BY <1>1, <1>5, <1>6 DEF ChannelStep

(* A step that rewrites one existing channel, mentioning nobody new but    *)
(* connected clients, and touches the members' entries or none.            *)
LEMMA ChannelUpdateOK ==
    ASSUME IInv, NEW c \in DOMAIN channels, NEW ch \in ChannelRecord,
           mentioned(ch) \subseteq Live(clients), update(c, ch),
           tellMembers(c) \/ UNCHANGED <<clients, nicknames>>
    PROVE  ChannelStep
<1>1. ChannelsOK(channels', Live(clients))
  BY UpdateOK DEF IInv
<1>2. channels[c].members \in SUBSET Live(clients)
  BY ChannelOK
<1> QED BY <1>1, <1>2 DEF tellMembers, ChannelStep

LEMMA ModeOOK ==
    ASSUME IInv, NEW f \in Connected, NEW c, NEW n, modeOCmd(f, c, n)
    PROVE  ChannelStep
<1> USE DEF modeOCmd
<1>1. c \in DOMAIN channels
  BY DEF inChannel
<1>2. channels[c] \in ChannelRecord /\ mentioned(channels[c]) \subseteq Live(clients)
  BY <1>1, ChannelOK
<1>3. ASSUME NEW s, namedMember(c, n, s), isFound(s),
             \/ update(c, addOperator(channels[c], s))
             \/ update(c, removeOperator(channels[c], s))
      PROVE  ChannelStep
  <2>1. s \in Sockets /\ s \in Live(clients)
    BY <1>1, <1>3, NamedOK
  <2>2. /\ addOperator(channels[c], s) \in ChannelRecord
        /\ mentioned(addOperator(channels[c], s)) \subseteq Live(clients)
    BY <1>2, <2>1 DEF addOperator, ChannelRecord, mentioned
  <2>3. /\ removeOperator(channels[c], s) \in ChannelRecord
        /\ mentioned(removeOperator(channels[c], s)) \subseteq Live(clients)
    BY <1>2 DEF removeOperator, ChannelRecord, mentioned
  <2> QED BY <1>1, <1>3, <2>2, <2>3, ChannelUpdateOK
<1>4. CASE UNCHANGED <<channels, channelOrder>>
  <2>1. channels[c].members \in SUBSET Live(clients)
    BY <1>1, ChannelOK
  <2>2. ChannelsOK(channels', Live(clients))
    BY <1>4 DEF IInv
  <2> QED BY <2>1, <2>2 DEF tellMembers, ChannelStep
<1> QED BY <1>3, <1>4

LEMMA ModeOK ==
    ASSUME IInv, NEW f \in Connected, NEW c, modeCmdClient(f, c)
    PROVE  ChannelStep
<1>1. ASSUME mayChangeMode(f, c)
      PROVE  /\ c \in DOMAIN channels
             /\ channels[c] \in ChannelRecord
             /\ mentioned(channels[c]) \subseteq Live(clients)
  BY <1>1, ChannelOK DEF mayChangeMode, inChannel
<1> USE DEF ChannelRecord, mentioned
<1>2. CASE modeICmd(f, c)
  BY <1>1, <1>2, ChannelUpdateOK DEF modeICmd
<1>3. CASE modeTCmd(f, c)
  BY <1>1, <1>3, ChannelUpdateOK DEF modeTCmd
<1>4. CASE modeKCmd(f, c)
  BY <1>1, <1>4, ChannelUpdateOK DEF modeKCmd
<1>5. CASE modeLCmd(f, c)
  BY <1>1, <1>5, ChannelUpdateOK, TextsAssumption DEF modeLCmd, isValidLimit
<1>6. CASE modeBCmd(f, c)
  BY <1>1, <1>6, ChannelUpdateOK DEF modeBCmd
<1>7. CASE \E n \in Nicks : modeOCmd(f, c, n)
  BY <1>7, ModeOOK
<1> QED BY <1>2, <1>3, <1>4, <1>5, <1>6, <1>7 DEF modeCmdClient

LEMMA TopicOK ==
    ASSUME IInv, NEW f \in Connected, NEW c, NEW t \in Topics,
           topicCmdClient(f, c, t)
    PROVE  ChannelStep
<1>1. /\ c \in DOMAIN channels
      /\ channels[c] \in ChannelRecord
      /\ mentioned(channels[c]) \subseteq Live(clients)
  BY ChannelOK DEF topicCmdClient, inChannel
<1>2. /\ [channels[c] EXCEPT !.topic = t] \in ChannelRecord
      /\ mentioned([channels[c] EXCEPT !.topic = t]) \subseteq Live(clients)
  BY <1>1 DEF ChannelRecord, mentioned
<1> QED BY <1>1, <1>2, ChannelUpdateOK DEF topicCmdClient

LEMMA SayOK ==
    ASSUME IInv, NEW f \in Connected, NEW c \in DOMAIN channels, NEW msg,
           NEW order, say(f, c, msg, order)
    PROVE  ChannelStep
<1>1. CASE removeMemberFrom(c, clients[f].sock, order)
  BY <1>1, RemoveMemberFromOK DEF say
<1>2. CASE /\ clients' = Touch(clients, channels[c].members)
           /\ UNCHANGED <<channels, channelOrder>>
  <2>1. channels[c].members \in SUBSET Live(clients)
    BY ChannelOK
  <2>2. ChannelsOK(channels', Live(clients))
    BY <1>2 DEF IInv
  <2> QED BY <1>2, <2>1, <2>2 DEF say, ChannelStep
<1> QED BY <1>1, <1>2 DEF say

------------------------------------------------------------------------------
(* Connecting, leaving and changing one's name.                            *)

LEMMA AcceptOK ==
    ASSUME IInv, NEW fd \in Sockets, acceptNewConnection(fd)
    PROVE  IInv'
<1> USE DEF IInv
<1>1. fd \in Sockets \ DOMAIN clients
  BY DEF acceptNewConnection, accept
<1>2. UNCHANGED channels
  BY DEF acceptNewConnection
<1>3. ASSUME NEW n \in Nicks \cup {NoNick}, addUser(fd, n)
      PROVE  IInv'
  <2>1. [sock |-> fd, nick |-> n] \in ClientRecord
    BY DEF ClientRecord
  <2>2. ClientsOK(clients') /\ Live(clients) \subseteq Live(clients')
    BY <1>1, <1>3, <2>1, PutOK DEF addUser
  <2>3. NamesOK'
    BY <1>3 DEF addUser, NamesOK
  <2> QED BY <1>2, <2>2, <2>3, ChannelsGrow
<1>4. CASE parsingDataNetcat(fd)
  BY <1>3, <1>4 DEF parsingDataNetcat
<1>5. CASE registrationAborted(fd) \/ refused(fd)
  BY <1>2, <1>5 DEF registrationAborted, refused, NamesOK
<1>6. CASE parsingDataIrssi(fd)
  BY <1>3, <1>6 DEF parsingDataIrssi
<1>7. CASE leftUnregistered(fd)
  <2>1. Default \in ClientRecord /\ Default.sock = NoSocket
    BY NicksAssumption DEF Default, ClientRecord
  <2>2. ClientsOK(clients') /\ Live(clients) \subseteq Live(clients')
    BY <1>1, <1>7, <2>1, PutOK DEF leftUnregistered
  <2>3. NamesOK'
    BY <1>7 DEF leftUnregistered, NamesOK
  <2> QED BY <1>2, <2>2, <2>3, ChannelsGrow
<1> QED BY <1>4, <1>5, <1>6, <1>7 DEF acceptNewConnection, detectClient

(* Two connections have one socket only if it is NoSocket, so erasing the  *)
(* entry of a client loses no socket but its own.                          *)
LEMMA LeaveOK ==
    ASSUME IInv, NEW f \in Connected, NEW cl, ClientsOK(cl),
           \A g \in Connected : g \in DOMAIN cl /\ cl[g] = clients[g],
           NEW k \in {f, clients[f].sock}, clients' = Erase(cl, {k}),
           partAllChannels(clients[f].sock),
           nicknames' = removeNickname(clients[f].nick)
    PROVE  IInv'
<1> DEFINE s == clients[f].sock
<1>1. s \in {f, NoSocket}
  BY MeOK
<1>2. ClientsOK(clients')
  BY EraseOK
<1>3. Live(clients) \subseteq Live(cl)
  BY DEF Live, Connected
<1>4. Live(clients) \ {s} \subseteq Live(clients')
  <2> SUFFICES ASSUME NEW t \in Live(clients), t # s
               PROVE  t \in Live(Erase(cl, {k}))
    OBVIOUS
  <2>1. \A g \in ({k} \cap DOMAIN cl) \ {NoSocket} : cl[g].sock # t
    BY <1>1
  <2> QED BY <1>3, <2>1, EraseOK
<1>5. ChannelsOK(channels', Live(clients'))
  BY <1>4, PartAllOK DEF IInv
<1>6. NamesOK'
  BY DEF IInv, NamesOK, removeNickname
<1> QED BY <1>2, <1>5, <1>6 DEF IInv

LEMMA DisconnectOK ==
    ASSUME IInv, NEW f \in Connected, disconnect(f)
    PROVE  IInv'
<1> DEFINE cl == Touch(clients, noticeTouches(clients[f].sock))
<1>1. noticeTouches(clients[f].sock) \in SUBSET (Sockets \cup {NoSocket})
  BY MeOK DEF noticeTouches
<1>2. ClientsOK(cl)
  BY <1>1, TouchOK DEF IInv
<1>3. \A g \in Connected : g \in DOMAIN cl /\ cl[g] = clients[g]
  BY DEF Touch, Connected
<1> QED BY <1>2, <1>3, LeaveOK DEF disconnect

LEMMA QuitOK ==
    ASSUME IInv, NEW f \in Connected, quitCmdClient(f)
    PROVE  IInv'
<1>1. ClientsOK(clients)
  BY DEF IInv
<1>2. \A g \in Connected : g \in DOMAIN clients
  BY DEF Connected
<1> QED BY <1>1, <1>2, LeaveOK DEF quitCmdClient

LEMMA NickOK ==
    ASSUME IInv, NEW f \in Connected, NEW n \in ValidNicks, nickCmdClient(f, n)
    PROVE  IInv'
<1> USE DEF nickCmdClient
<1>1. n \in Nicks
  BY NicksAssumption
<1>2. DOMAIN clients' = DOMAIN clients
  OBVIOUS
<1>3. \A g \in DOMAIN clients :
         clients'[g] \in ClientRecord /\ clients'[g].sock = clients[g].sock
  BY <1>1 DEF IInv, ClientsOK, ClientRecord
<1>4. ClientsOK(clients')
  BY <1>2, <1>3 DEF IInv, ClientsOK
<1>5. Live(clients') = Live(clients)
  BY <1>2, <1>3 DEF Live
<1>6. NamesOK'
  BY <1>1 DEF IInv, NamesOK, removeNickname
<1> QED BY <1>4, <1>5, <1>6 DEF IInv

------------------------------------------------------------------------------
(* The theorems.                                                           *)

(* Every command about a channel and every text is a ChannelStep.          *)
LEMMA ChannelCommandOK ==
    ASSUME IInv, NEW f \in Connected,
           \/ \E c \in ChannelNames : channelCommand(f, c)
           \/ \E msg \in Messages : handleUnknownCommand(f, msg)
    PROVE  ChannelStep
<1>1. ASSUME NEW c \in ChannelNames, channelCommand(f, c)
      PROVE  ChannelStep
  <2>1. CASE \E k \in Keys \cup {NoKey} : handleChannel(f, c, k)
    BY <2>1, HandleChannelOK
  <2>2. CASE partCmdClientCommon(f, c)
    BY <2>2, RemoveMemberFromOK DEF partCmdClientCommon, inChannel
  <2>3. CASE \E n \in Nicks : kickCmdClient(f, c, n)
    BY <2>3, KickOK
  <2>4. CASE \E n \in Nicks : inviteCmdClient(f, c, n)
    BY <2>4, InviteOK
  <2>5. CASE modeCmdClient(f, c)
    BY <2>5, ModeOK
  <2>6. CASE \E t \in Topics : topicCmdClient(f, c, t)
    BY <2>6, TopicOK
  <2>7. CASE \E msg \in Messages : sendMessageToChannel(f, c, msg)
    BY <2>7, SayOK DEF sendMessageToChannel, inChannel
  <2> QED BY <1>1, <2>1, <2>2, <2>3, <2>4, <2>5, <2>6, <2>7 DEF channelCommand
<1>2. ASSUME NEW msg \in Messages, handleUnknownCommand(f, msg)
      PROVE  ChannelStep
  <2>1. PICK i \in DOMAIN channelOrder :
           /\ inChannel(f, channelOrder[i])
           /\ say(f, channelOrder[i], msg, removeInPlace(channelOrder, i))
    BY <1>2 DEF handleUnknownCommand
  <2> QED BY <2>1, SayOK DEF inChannel
<1> QED BY <1>1, <1>2

(* Every message is one of the three commands that change a client, or a   *)
(* ChannelStep.                                                            *)
LEMMA CommandCases ==
    ASSUME IInv, NEW f \in Connected, handleClientMessage(f)
    PROVE  \/ disconnect(f)
           \/ quitCmdClient(f)
           \/ \E n \in ValidNicks : nickCmdClient(f, n)
           \/ ChannelStep
BY ChannelCommandOK DEF handleClientMessage

(* Every step is a stutter, a connection or a message.                     *)
LEMMA StepCases ==
    ASSUME IInv, [Next]_vars
    PROVE  \/ UNCHANGED vars
           \/ \E fd \in Sockets : acceptNewConnection(fd)
           \/ \E f \in Connected : disconnect(f)
           \/ \E f \in Connected : quitCmdClient(f)
           \/ \E f \in Connected : \E n \in ValidNicks : nickCmdClient(f, n)
           \/ ChannelStep
BY CommandCases DEF Next

(* The inductive invariant: every entry of _clients is filed under its own *)
(* descriptor, and every channel only mentions sockets of connections.     *)
THEOREM Invariance == Spec => []IInv
<1>1. Init => IInv
  BY DEF Init, IInv, ClientsOK, ChannelsOK, NamesOK
<1>2. IInv /\ [Next]_vars => IInv'
  <2> SUFFICES ASSUME IInv, [Next]_vars PROVE IInv'
    OBVIOUS
  <2>1. CASE UNCHANGED vars
    BY <2>1 DEF vars, IInv, NamesOK
  <2> QED BY <2>1, StepCases, AcceptOK, DisconnectOK, QuitOK, NickOK, ChannelStepOK
<1> QED BY <1>1, <1>2, PTL DEF Spec

(* Type correctness of the client map, the taken names and the channels.   *)
THEOREM TypeCorrect == Spec => []TypeOK
<1>1. IInv => TypeOK
  BY DEF IInv, ClientsOK, ChannelsOK, NamesOK, TypeOK
<1> QED BY <1>1, Invariance, PTL

(* No channel ever mentions a descriptor whose client is gone.             *)
THEOREM NoStaleSockets == Spec => []NoStaleSocket
<1>1. IInv => NoStaleSocket
  BY DEF IInv, ChannelsOK, NoStaleSocket, Live, Connected
<1> QED BY <1>1, Invariance, PTL

(* A channel a step leaves mentions only clients that were connected       *)
(* before the step, whoever that step connects.                            *)
LEMMA MentionedBefore ==
    ASSUME IInv, [Next]_vars
    PROVE  ChannelsOK(channels', Live(clients))
<1> USE DEF IInv
<1>1. CASE UNCHANGED channels
  BY <1>1
<1>2. ASSUME NEW f \in Connected, partAllChannels(clients[f].sock)
      PROVE  ChannelsOK(channels', Live(clients))
  BY <1>2, PartAllOK
<1> QED BY <1>1, <1>2, StepCases
        DEF vars, acceptNewConnection, disconnect, quitCmdClient,
            nickCmdClient, ChannelStep

(* A new connection finds no rights waiting under its descriptor.          *)
THEOREM FreshSocket == Spec => FreshSocketInheritsNothing
<1>1. ASSUME IInv, [Next]_vars,
             NEW f \in (DOMAIN clients)' \ DOMAIN clients, f # NoSocket,
             NEW c \in DOMAIN channels'
      PROVE  f \notin mentioned(channels'[c])
  <2>1. mentioned(channels'[c]) \subseteq Live(clients)
    BY <1>1, MentionedBefore DEF ChannelsOK
  <2>2. f \notin Live(clients)
    BY <1>1 DEF IInv, ClientsOK, Live
  <2> QED BY <2>1, <2>2
<1>2. IInv /\ [Next]_vars =>
        [\A f \in (DOMAIN clients)' \ DOMAIN clients : \A c \in DOMAIN channels' :
            f # NoSocket => f \notin mentioned(channels'[c])]_vars
  BY <1>1
<1> QED BY <1>2, Invariance, PTL DEF Spec, FreshSocketInheritsNothing

------------------------------------------------------------------------------
(* The abstract specification of the connections.                          *)

(* The Cardinality that Connections extends is the one known here.         *)
LEMMA SameCardinality == \A S : Abstract!Cardinality(S) = Cardinality(S)
BY DEF Abstract!Cardinality, Cardinality

(* There is room for one more connection whenever there is room in the     *)
(* table, whose entries are the connections and perhaps NoSocket.          *)
LEMMA RoomOK ==
    ASSUME IInv, Cardinality(DOMAIN clients) < MaxClients
    PROVE  Cardinality(Connected) < MaxClients
<1>1. IsFiniteSet(DOMAIN clients)
  <2>1. IsFiniteSet(Sockets \cup {NoSocket})
    BY SocketsAssumption, FS_AddElement
  <2> QED BY <2>1, FS_Subset DEF IInv, ClientsOK
<1>2. Connected \in SUBSET DOMAIN clients
  BY DEF Connected
<1>3. IsFiniteSet(Connected) /\ Cardinality(Connected) <= Cardinality(DOMAIN clients)
  BY <1>1, <1>2, FS_Subset
<1>4. Cardinality(DOMAIN clients) \in Nat /\ Cardinality(Connected) \in Nat
  BY <1>1, <1>3, FS_CardinalityType
<1> QED BY <1>3, <1>4, MaxClientsAssumption

(* What operator[] inserts is never a connection: whoever is in Live and   *)
(* not connected is NoSocket.                                              *)
LEMMA TouchedConnections ==
    ASSUME IInv, NEW S \in SUBSET Live(clients)
    PROVE  DOMAIN Touch(clients, S) \ {NoSocket} = Connected
<1>1. \A s \in S : s \in DOMAIN clients \cup {NoSocket}
  BY DEF IInv, ClientsOK, Live
<1> QED BY <1>1 DEF Touch, Connected

LEMMA AcceptConnects ==
    ASSUME IInv, NEW fd \in Sockets, acceptNewConnection(fd)
    PROVE  Abstract!Connect(fd) \/ UNCHANGED Connected
<1>1. fd # NoSocket /\ NoSocket \notin Sockets
  BY SocketsAssumption DEF NoSocket
<1>2. /\ fd \in Sockets \ Connected
      /\ \A g \in Sockets \ Connected : fd <= g
  BY <1>1 DEF acceptNewConnection, accept, Connected
<1>3. Cardinality(Connected) < MaxClients
  BY RoomOK DEF acceptNewConnection
<1>4. ASSUME NEW r, clients' = Put(clients, fd, r)
      PROVE  Connected' = Connected \cup {fd}
  BY <1>1, <1>4 DEF Put, Connected
<1>5. CASE registrationAborted(fd) \/ refused(fd)
  BY <1>5 DEF registrationAborted, refused, Connected
<1>6. CASE ~ (registrationAborted(fd) \/ refused(fd))
  <2>1. Connected' = Connected \cup {fd}
    BY <1>4, <1>6 DEF acceptNewConnection, detectClient, parsingDataNetcat,
                      parsingDataIrssi, leftUnregistered, addUser
  <2> QED BY <1>2, <1>3, <2>1, SameCardinality DEF Abstract!Connect
<1> QED BY <1>5, <1>6

LEMMA LeaverDisconnects ==
    ASSUME IInv, NEW f \in Connected, disconnect(f) \/ quitCmdClient(f)
    PROVE  Abstract!Disconnect(f) \/ UNCHANGED Connected
<1> DEFINE s == clients[f].sock
<1>1. s \in {f, NoSocket} /\ s \in Live(clients)
  BY MeOK
<1>2. CASE disconnect(f)
  <2>1. noticeTouches(s) \in SUBSET Live(clients)
    BY <1>1 DEF noticeTouches
  <2>2. Connected' = (DOMAIN Touch(clients, noticeTouches(s)) \ {NoSocket}) \ {f}
    BY <1>2 DEF disconnect, Erase, Restrict, Connected
  <2> QED BY <2>1, <2>2, TouchedConnections DEF Abstract!Disconnect
<1>3. CASE quitCmdClient(f)
  <2>1. DOMAIN clients' = DOMAIN clients \ {s}
    BY <1>3 DEF quitCmdClient, Erase, Restrict
  <2>2. CASE s = f
    BY <2>1, <2>2 DEF Connected, Abstract!Disconnect
  <2>3. CASE s = NoSocket
    BY <2>1, <2>3 DEF Connected
  <2> QED BY <1>1, <2>2, <2>3
<1> QED BY <1>2, <1>3

(* The table of clients implements module Connections: connections start   *)
(* one at a time under the lowest free descriptor and below the capacity,  *)
(* end one at a time, and no command starts or ends any other.             *)
THEOREM ConnectionsImplemented == Spec => ImplementsConnections
<1>1. Init => Abstract!Init
  BY DEF Init, Abstract!Init, Connected
<1>2. ASSUME IInv, [Next]_vars
      PROVE  [Abstract!Next]_(Abstract!vars)
  <2>1. CASE UNCHANGED vars
    BY <2>1 DEF vars, Connected, Abstract!vars
  <2>2. CASE \E fd \in Sockets : acceptNewConnection(fd)
    BY <1>2, <2>2, AcceptConnects DEF Abstract!Next, Abstract!vars
  <2>3. ASSUME NEW f \in Connected, disconnect(f) \/ quitCmdClient(f)
        PROVE  [Abstract!Next]_(Abstract!vars)
    <3>1. f \in Sockets
      BY <1>2, MeOK
    <3> QED BY <1>2, <2>3, <3>1, LeaverDisconnects DEF Abstract!Next, Abstract!vars
  <2>4. ASSUME NEW f \in Connected, NEW n \in ValidNicks, nickCmdClient(f, n)
        PROVE  UNCHANGED Connected
    BY <2>4 DEF nickCmdClient, Connected
  <2>5. ASSUME ChannelStep
        PROVE  UNCHANGED Connected
    BY <1>2, <2>5, TouchedConnections DEF ChannelStep, Connected
  <2>6. UNCHANGED Connected => UNCHANGED Abstract!vars
    BY DEF Abstract!vars
  <2> QED BY <1>2, <2>1, <2>2, <2>3, <2>4, <2>5, <2>6, StepCases
<1>3. IInv /\ [Next]_vars => [Abstract!Next]_(Abstract!vars)
  BY <1>2
<1> QED BY <1>1, <1>3, Invariance, PTL DEF Spec, ImplementsConnections, Abstract!Spec

------------------------------------------------------------------------------
(* Names.                                                                  *)

(* The client that leaves gives its name back; whoever has another name    *)
(* stays.                                                                  *)
LEMMA LeaverNames ==
    ASSUME IInv, NicknamesInUse, NEW f \in Connected, NEW cl, NEW k \in {f, NoSocket},
           \A g \in Connected : g \in DOMAIN cl /\ cl[g] = clients[g],
           clients' = Erase(cl, {k}),
           nicknames' = removeNickname(clients[f].nick)
    PROVE  NicknamesInUse'
<1>1. DOMAIN clients' = DOMAIN cl \ {k}
  BY DEF Erase, Restrict
<1>2. \A g \in DOMAIN cl \ {k} : clients'[g] = cl[g]
  BY DEF Erase, Restrict
<1> SUFFICES ASSUME NEW n \in nicknames', n # NoNick
             PROVE  \E g \in Connected' : clients'[g].nick = n
  BY DEF NicknamesInUse
<1>3. n \in nicknames /\ n # clients[f].nick
  BY DEF removeNickname
<1>4. PICK g \in Connected : clients[g].nick = n
  BY <1>3 DEF NicknamesInUse
<1>5. g # f /\ g # k
  BY <1>3, <1>4 DEF Connected
<1> QED BY <1>1, <1>2, <1>4, <1>5 DEF Connected

(* Every name that is taken, the empty one apart, is the name of a client  *)
(* that is connected: no history of NICK, QUIT and lost connections leaves *)
(* a name nobody can have any more.                                        *)
THEOREM NamesInUse == Spec => []NicknamesInUse
<1>1. Init => NicknamesInUse
  BY DEF Init, NicknamesInUse
<1>2. ASSUME IInv, NicknamesInUse, [Next]_vars
      PROVE  NicknamesInUse'
  <2>1. CASE UNCHANGED vars
    BY <1>2, <2>1 DEF vars, NicknamesInUse, Connected
  <2>2. ASSUME NEW fd \in Sockets, acceptNewConnection(fd)
        PROVE  NicknamesInUse'
    <3>1. fd \notin DOMAIN clients /\ fd # NoSocket
      BY <2>2, SocketsAssumption DEF acceptNewConnection, accept, NoSocket
    <3>2. ASSUME NEW n, addUser(fd, n)
          PROVE  NicknamesInUse'
      BY <1>2, <3>1, <3>2 DEF addUser, Put, NicknamesInUse, Connected
    <3>3. CASE registrationAborted(fd) \/ refused(fd)
      BY <1>2, <3>3 DEF registrationAborted, refused, NicknamesInUse, Connected
    <3>4. CASE leftUnregistered(fd)
      BY <1>2, <3>1, <3>4 DEF leftUnregistered, Put, NicknamesInUse, Connected
    <3> QED BY <2>2, <3>2, <3>3, <3>4
            DEF acceptNewConnection, detectClient, parsingDataNetcat, parsingDataIrssi
  <2>3. ASSUME NEW f \in Connected, disconnect(f)
        PROVE  NicknamesInUse'
    <3> DEFINE cl == Touch(clients, noticeTouches(clients[f].sock))
    <3>1. \A g \in Connected : g \in DOMAIN cl /\ cl[g] = clients[g]
      BY DEF Touch, Connected
    <3> QED BY <1>2, <2>3, <3>1, LeaverNames DEF disconnect
  <2>4. ASSUME NEW f \in Connected, quitCmdClient(f)
        PROVE  NicknamesInUse'
    <3>1. \A g \in Connected : g \in DOMAIN clients
      BY DEF Connected
    <3>2. clients[f].sock \in {f, NoSocket}
      BY <1>2, MeOK
    <3> QED BY <1>2, <2>4, <3>1, <3>2, LeaverNames DEF quitCmdClient
  <2>5. ASSUME NEW f \in Connected, NEW n \in ValidNicks, nickCmdClient(f, n)
        PROVE  NicknamesInUse'
    <3>1. /\ DOMAIN clients' = DOMAIN clients
          /\ clients'[f].nick = n
          /\ \A g \in DOMAIN clients \ {f} : clients'[g] = clients[g]
      BY <1>2, <2>5 DEF nickCmdClient, IInv, ClientsOK, ClientRecord, Connected
    <3>2. nicknames' = removeNickname(clients[f].nick) \cup {n}
      BY <2>5 DEF nickCmdClient
    <3> SUFFICES ASSUME NEW x \in nicknames', x # NoNick, x # n
                 PROVE  \E g \in Connected' : clients'[g].nick = x
      BY <3>1 DEF NicknamesInUse, Connected
    <3>3. x \in nicknames /\ x # clients[f].nick
      BY <3>2 DEF removeNickname
    <3> QED BY <1>2, <3>1, <3>3 DEF NicknamesInUse, Connected
  <2>6. CASE ChannelStep
    <3>1. \A g \in Connected : g \in Connected' /\ clients'[g] = clients[g]
      <4>1. CASE UNCHANGED clients
        BY <4>1 DEF Connected
      <4>2. ASSUME NEW S \in SUBSET Live(clients), clients' = Touch(clients, S)
            PROVE  \A g \in Connected : g \in Connected' /\ clients'[g] = clients[g]
        BY <4>2 DEF Touch, Connected
      <4> QED BY <2>6, <4>1, <4>2 DEF ChannelStep
    <3>2. nicknames' = nicknames
      BY <2>6 DEF ChannelStep
    <3> QED BY <1>2, <3>1, <3>2 DEF NicknamesInUse
  <2> QED BY <1>2, <2>1, <2>2, <2>3, <2>4, <2>5, <2>6, StepCases
<1>3. IInv /\ NicknamesInUse /\ [Next]_vars => NicknamesInUse'
  BY <1>2
<1> QED BY <1>1, <1>3, Invariance, PTL DEF Spec

------------------------------------------------------------------------------
(* Without connections that detectClient leaves unregistered, looking a    *)
(* member up never inserts an entry.                                       *)

LEMMA LiveIsDomain ==
    ASSUME IInv, EveryEntryRegistered
    PROVE  Live(clients) = DOMAIN clients /\ Connected = DOMAIN clients
BY DEF EveryEntryRegistered, Live, Connected

LEMMA ChannelStepQuiet ==
    ASSUME IInv, EveryEntryRegistered, ChannelStep
    PROVE  /\ DOMAIN clients' = DOMAIN clients
           /\ \A f \in DOMAIN clients : clients'[f] = clients[f]
           /\ UNCHANGED nicknames
<1>1. CASE UNCHANGED clients
  BY <1>1 DEF ChannelStep
<1>2. ASSUME NEW S \in SUBSET Live(clients), clients' = Touch(clients, S)
      PROVE  /\ DOMAIN clients' = DOMAIN clients
             /\ \A f \in DOMAIN clients : clients'[f] = clients[f]
  BY <1>2, LiveIsDomain DEF Touch
<1> QED BY <1>1, <1>2 DEF ChannelStep

LEMMA LeaverQuiet ==
    ASSUME IInv, EveryEntryRegistered, NEW f \in Connected,
           disconnect(f) \/ quitCmdClient(f)
    PROVE  /\ DOMAIN clients' = DOMAIN clients \ {f}
           /\ \A g \in DOMAIN clients \ {f} : clients'[g] = clients[g]
           /\ nicknames' = removeNickname(clients[f].nick)
<1>1. clients[f].sock = f /\ f \in DOMAIN clients
  BY DEF EveryEntryRegistered, Connected
<1>2. CASE disconnect(f)
  <2>1. noticeTouches(clients[f].sock) \subseteq {f}
    BY <1>1 DEF noticeTouches
  <2> DEFINE cl == Touch(clients, noticeTouches(clients[f].sock))
  <2>2. DOMAIN cl = DOMAIN clients /\ \A g \in DOMAIN clients : cl[g] = clients[g]
    BY <1>1, <2>1 DEF Touch
  <2> QED BY <1>2, <2>2 DEF disconnect, Erase, Restrict
<1>3. CASE quitCmdClient(f)
  BY <1>1, <1>3 DEF quitCmdClient, Erase, Restrict
<1> QED BY <1>2, <1>3

(* When every connection registers, through netcat or irssi, each entry of *)
(* _clients is a registered client filed under its own descriptor.         *)
THEOREM EntriesRegistered ==
    ASSUME "other" \notin Kinds
    PROVE  Spec => []EveryEntryRegistered
<1>1. Init => EveryEntryRegistered
  BY DEF Init, EveryEntryRegistered
<1>2. ASSUME IInv, EveryEntryRegistered, [Next]_vars
      PROVE  EveryEntryRegistered'
  <2>1. CASE UNCHANGED vars
    BY <1>2, <2>1 DEF vars, EveryEntryRegistered
  <2>2. ASSUME NEW fd \in Sockets, acceptNewConnection(fd)
        PROVE  EveryEntryRegistered'
    <3>1. fd # NoSocket
      BY SocketsAssumption DEF NoSocket
    <3>2. ASSUME NEW n, addUser(fd, n)
          PROVE  EveryEntryRegistered'
      BY <1>2, <3>1, <3>2 DEF addUser, Put, EveryEntryRegistered
    <3>3. CASE registrationAborted(fd) \/ refused(fd)
      BY <1>2, <3>3 DEF registrationAborted, refused, EveryEntryRegistered
    <3> QED BY <2>2, <3>2, <3>3
            DEF acceptNewConnection, detectClient, parsingDataNetcat, parsingDataIrssi
  <2>3. ASSUME NEW f \in Connected, disconnect(f) \/ quitCmdClient(f)
        PROVE  EveryEntryRegistered'
    BY <1>2, <2>3, LeaverQuiet DEF EveryEntryRegistered
  <2>4. ASSUME NEW f \in Connected, NEW n \in ValidNicks, nickCmdClient(f, n)
        PROVE  EveryEntryRegistered'
    BY <1>2, <2>4 DEF nickCmdClient, EveryEntryRegistered, IInv, ClientsOK, ClientRecord
  <2>5. CASE ChannelStep
    BY <1>2, <2>5, ChannelStepQuiet DEF EveryEntryRegistered
  <2> QED BY <1>2, <2>1, <2>2, <2>3, <2>4, <2>5, StepCases
<1>3. IInv /\ EveryEntryRegistered /\ [Next]_vars => EveryEntryRegistered'
  BY <1>2
<1> QED BY <1>1, <1>3, Invariance, PTL DEF Spec

(* What keeps names apart is that newcomers take a name that is free.      *)
TakesFree ==
    \A fd \in Sockets :
        acceptNewConnection(fd) /\ fd \in DOMAIN clients'
            => clients'[fd].nick \notin nicknames

LEMMA OwnershipStep ==
    ASSUME "other" \notin Kinds,
           IInv, EveryEntryRegistered, NickOwnership, [Next]_vars, TakesFree
    PROVE  NickOwnership'
<1>1. CASE UNCHANGED vars
  BY <1>1 DEF vars, NickOwnership, Connected
<1>2. ASSUME NEW fd \in Sockets, acceptNewConnection(fd)
      PROVE  NickOwnership'
  <2>1. fd \notin DOMAIN clients
    BY <1>2 DEF acceptNewConnection, accept
  <2>2. ASSUME NEW n, addUser(fd, n)
        PROVE  NickOwnership'
    <3>1. /\ DOMAIN clients' = DOMAIN clients \cup {fd}
          /\ clients'[fd].nick = n
          /\ \A g \in DOMAIN clients : clients'[g] = clients[g]
          /\ nicknames' = nicknames \cup {n}
      BY <2>1, <2>2 DEF addUser, Put
    <3>2. \A g \in Connected : clients[g].nick # n
      BY <1>2, <3>1 DEF NickOwnership, TakesFree
    <3> QED BY <3>1, <3>2 DEF NickOwnership, Connected
  <2>3. CASE registrationAborted(fd) \/ refused(fd)
    BY <2>3 DEF registrationAborted, refused, NickOwnership, Connected
  <2> QED BY <1>2, <2>2, <2>3
          DEF acceptNewConnection, detectClient, parsingDataNetcat, parsingDataIrssi
<1>3. ASSUME NEW f \in Connected, disconnect(f) \/ quitCmdClient(f)
      PROVE  NickOwnership'
  <2>1. /\ DOMAIN clients' = DOMAIN clients \ {f}
        /\ \A g \in DOMAIN clients \ {f} : clients'[g] = clients[g]
        /\ nicknames' = removeNickname(clients[f].nick)
    BY <1>3, LeaverQuiet
  <2>2. \A g \in Connected \ {f} : clients[g].nick # clients[f].nick
    BY DEF NickOwnership
  <2> QED BY <2>1, <2>2 DEF NickOwnership, Connected, removeNickname
<1>4. ASSUME NEW f \in Connected, NEW n \in ValidNicks, nickCmdClient(f, n)
      PROVE  NickOwnership'
  <2>1. /\ DOMAIN clients' = DOMAIN clients
        /\ clients'[f].nick = n
        /\ \A g \in DOMAIN clients \ {f} : clients'[g] = clients[g]
    BY <1>4 DEF nickCmdClient, IInv, ClientsOK, ClientRecord, Connected
  <2>2. /\ nicknames' = removeNickname(clients[f].nick) \cup {n}
        /\ n \notin nicknames
    BY <1>4 DEF nickCmdClient, isNicknameAvailable
  <2>3. \A g \in Connected \ {f} :
           clients[g].nick # clients[f].nick /\ clients[g].nick # n
    BY <2>2 DEF NickOwnership
  <2> QED BY <2>1, <2>2, <2>3 DEF NickOwnership, Connected, removeNickname
<1>5. CASE ChannelStep
  BY <1>5, ChannelStepQuiet DEF NickOwnership, Connected
<1> QED BY <1>1, <1>2, <1>3, <1>4, <1>5, StepCases

(* When all of them register through the netcat dialogue, two clients      *)
(* never share a name and every name in use is taken.                      *)
THEOREM NamesOwned ==
    ASSUME Kinds = {"netcat"}
    PROVE  Spec => []NickOwnership
<1>1. Init => NickOwnership
  BY DEF Init, NickOwnership, Connected
<1>2. TakesFree
  <2>1. ASSUME NEW fd \in Sockets, acceptNewConnection(fd), fd \in DOMAIN clients'
        PROVE  clients'[fd].nick \notin nicknames
    BY <2>1 DEF acceptNewConnection, accept, detectClient, parsingDataNetcat,
                registrationAborted, setNickName, isNicknameAvailable, addUser, Put
  <2> QED BY <2>1 DEF TakesFree
<1>3. IInv /\ EveryEntryRegistered /\ NickOwnership /\ [Next]_vars => NickOwnership'
  BY <1>2, OwnershipStep
<1>4. Spec => []EveryEntryRegistered
  BY EntriesRegistered
<1> QED BY <1>1, <1>3, <1>4, Invariance, PTL DEF Spec

(* With one entry to a name, and no entry made up, the search for the      *)
(* recipient of a message has one outcome.                                 *)
THEOREM MessagesDelivered ==
    ASSUME Kinds = {"netcat"}
    PROVE  Spec => []MessagesReachOwner
<1>1. ASSUME IInv, EveryEntryRegistered, NickOwnership
      PROVE  MessagesReachOwner
  <2>1. Connected = DOMAIN clients /\ \A f \in DOMAIN clients : clients[f].sock = f
    BY <1>1, LiveIsDomain DEF EveryEntryRegistered
  <2>2. DOMAIN clients \subseteq Sockets /\ Sockets \subseteq Nat
    BY <1>1, <2>1, SocketsAssumption DEF IInv, ClientsOK, Connected
  <2> SUFFICES ASSUME NEW n \in Nicks
               PROVE  sendMessageToUser(n) = {f \in Connected : clients[f].nick = n}
    BY DEF MessagesReachOwner
  <2>3. ASSUME NEW f \in DOMAIN clients, clients[f].nick = n
        PROVE  f \in sendMessageToUser(n)
    <3>1. \A h \in DOMAIN clients : clients[h].nick = n => h = f
      BY <1>1, <2>1, <2>3 DEF NickOwnership
    <3>2. f \in Nat /\ f \in Sockets
      BY <2>2
    <3> QED BY <2>1, <2>3, <3>1, <3>2 DEF sendMessageToUser, findUserSocket
  <2>4. ASSUME NEW s \in sendMessageToUser(n)
        PROVE  s \in DOMAIN clients /\ clients[s].nick = n
    BY <2>1 DEF sendMessageToUser, findUserSocket
  <2> QED BY <2>1, <2>3, <2>4
<1>2. "other" \notin Kinds
  OBVIOUS
<1> QED BY <1>1, <1>2, Invariance, EntriesRegistered, NamesOwned, PTL
==============================================================================
