----------------------------- MODULE ChannelProofs -----------------------------
(***************************************************************************)
(* Proofs of what a step of IRCServer may do to a channel, for every value *)
(* of the constants.  One lemma names the ways a channel that exists       *)
(* before and after a step can differ; two more say how channels come and  *)
(* go.  The action properties are read off them.                           *)
(***************************************************************************)
EXTENDS IRCServerProofs

(* JOIN lets one client in that was not in and that the tests admit.       *)
Entered(ch, new) ==
    \E s : \E k : s \notin ch.members /\ admits(ch, s, k) /\ new = addMember(ch, s)

(* PART and the bot take one member out of a channel that others are in.   *)
Parted(ch, new) == \E s : new = removeMember(ch, s) /\ new.members # {}

(* QUIT and the end of a connection, for a channel they do not empty.      *)
Forgotten(ch, new) == \E s : new = forget(ch, s) /\ ch.members # {s}

Kicked(c, new) ==
    \E f \in Connected : \E n \in Nicks :
        /\ kickCmdClient(f, c, n)
        /\ \E s \in channels[c].members : new = forget(channels[c], s)

Invited(ch, new) == ch.members # {} /\ \E s : new = addInvitedMember(ch, s)

governed(ch) == ch.members \cap ch.operators # {}

(* MODE i, t, k, l and b.                                                  *)
Reset(ch, new) ==
    /\ governed(ch)
    /\ new.members = ch.members
    /\ new.operators = ch.operators
    /\ new.invited = ch.invited

(* MODE o.                                                                 *)
Promoted(ch, new) ==
    \E s \in ch.members : new = addOperator(ch, s) \/ new = removeOperator(ch, s)

Retitled(ch, new) ==
    /\ ch.members # {}
    /\ ch.topicRight => governed(ch)
    /\ \E t : new = [ch EXCEPT !.topic = t]

Change(c, ch, new) ==
    \/ new = ch
    \/ Entered(ch, new)
    \/ Parted(ch, new)
    \/ Forgotten(ch, new)
    \/ Kicked(c, new)
    \/ Invited(ch, new)
    \/ Reset(ch, new)
    \/ Promoted(ch, new)
    \/ Retitled(ch, new)

(* What a step owes the channels: those that stay change in one of these   *)
(* ways, those that go had a member, and those that come have one.         *)
Changes ==
    /\ \A c \in DOMAIN channels \cap DOMAIN channels' :
          Change(c, channels[c], channels'[c])
    /\ \A c \in DOMAIN channels \ DOMAIN channels' : channels[c].members # {}
    /\ \A c \in DOMAIN channels' \ DOMAIN channels : channels'[c].members # {}

------------------------------------------------------------------------------
(* One lemma per way the channels are written.                             *)

LEMMA UpdateChanges ==
    ASSUME NEW c \in DOMAIN channels, NEW ch, update(c, ch),
           Change(c, channels[c], ch)
    PROVE  Changes
<1>1. /\ DOMAIN channels' = DOMAIN channels
      /\ channels'[c] = ch
      /\ \A d \in DOMAIN channels : d # c => channels'[d] = channels[d]
  BY DEF update
<1>2. \A d \in DOMAIN channels : d # c => Change(d, channels[d], channels'[d])
  BY <1>1 DEF Change
<1> QED BY <1>1, <1>2 DEF Changes

LEMMA UnchangedChanges ==
    ASSUME UNCHANGED channels
    PROVE  Changes
BY DEF Changes, Change

LEMMA PartAllChanges ==
    ASSUME NEW s, partAllChannels(s)
    PROVE  Changes
<1> DEFINE emptied == {c \in DOMAIN channels : channels[c].members = {s}}
<1>1. /\ DOMAIN channels' = DOMAIN channels \ emptied
      /\ \A c \in DOMAIN channels \ emptied : channels'[c] = forget(channels[c], s)
  BY DEF partAllChannels
<1>2. \A c \in DOMAIN channels' : Forgotten(channels[c], channels'[c])
  BY <1>1 DEF Forgotten
<1>3. \A c \in DOMAIN channels \ DOMAIN channels' : channels[c].members # {}
  BY <1>1
<1> QED BY <1>1, <1>2, <1>3 DEF Changes, Change

LEMMA RemoveMemberFromChanges ==
    ASSUME NEW c \in DOMAIN channels, NEW s \in channels[c].members, NEW order,
           removeMemberFrom(c, s, order)
    PROVE  Changes
<1> DEFINE ch == removeMember(channels[c], s)
<1>1. CASE ch.members # {}
  <2>1. update(c, ch)
    BY <1>1 DEF removeMemberFrom
  <2>2. Change(c, channels[c], ch)
    BY <1>1 DEF Change, Parted
  <2> QED BY <2>1, <2>2, UpdateChanges
<1>2. CASE ch.members = {}
  <2>1. /\ DOMAIN channels' = DOMAIN channels \ {c}
        /\ \A d \in DOMAIN channels \ {c} : channels'[d] = channels[d]
    BY <1>2 DEF removeMemberFrom, destroy, Erase, Restrict
  <2> QED BY <2>1 DEF Changes, Change
<1> QED BY <1>1, <1>2

------------------------------------------------------------------------------
(* One lemma per command.                                                  *)

LEMMA JoinChanges ==
    ASSUME IInv, NEW f \in Connected, NEW c \in ChannelNames, NEW k,
           handleChannel(f, c, k)
    PROVE  Changes
<1> DEFINE s == clients[f].sock
           ch == addMember(createdIn(c), s)
<1>1. /\ DOMAIN channels' = DOMAIN channels \cup {c}
      /\ channels'[c] = ch
      /\ \A d \in DOMAIN channels : d # c => channels'[d] = channels[d]
  BY DEF handleChannel, Put
<1>2. s \in channels'[c].members
  <2>1. createdIn(c) \in ChannelRecord
    BY ChannelOK, NewChannelOK DEF createdIn
  <2> QED BY <1>1, <2>1 DEF addMember, ChannelRecord
<1>3. ASSUME c \in DOMAIN channels
      PROVE  Entered(channels[c], channels'[c])
  BY <1>1, <1>3 DEF handleChannel, createdIn, inChannel, isMember, Entered
<1> QED BY <1>1, <1>2, <1>3 DEF Changes, Change

LEMMA KickChanges ==
    ASSUME NEW f \in Connected, NEW c, NEW n \in Nicks, kickCmdClient(f, c, n)
    PROVE  Changes
<1>1. PICK s \in Sockets \cup {NoSocket} :
         /\ c \in DOMAIN channels
         /\ s \in channels[c].members
         /\ update(c, forget(channels[c], s))
  BY DEF kickCmdClient, isMember
<1>2. Change(c, channels[c], forget(channels[c], s))
  BY <1>1 DEF Change, Kicked
<1> QED BY <1>1, <1>2, UpdateChanges

LEMMA InviteChanges ==
    ASSUME NEW f \in Connected, NEW c, NEW n, inviteCmdClient(f, c, n)
    PROVE  Changes
<1>1. PICK s \in Sockets \cup {NoSocket} :
         /\ inChannel(f, c)
         /\ update(c, addInvitedMember(channels[c], s))
  BY DEF inviteCmdClient
<1>2. Change(c, channels[c], addInvitedMember(channels[c], s))
  BY <1>1 DEF inChannel, isMember, Change, Invited
<1> QED BY <1>1, <1>2, UpdateChanges DEF inChannel

LEMMA ModeChanges ==
    ASSUME IInv, NEW f \in Connected, NEW c, modeCmdClient(f, c)
    PROVE  Changes
<1>1. ASSUME mayChangeMode(f, c)
      PROVE  /\ c \in DOMAIN channels
             /\ channels[c] \in ChannelRecord
             /\ governed(channels[c])
  BY <1>1, ChannelOK DEF mayChangeMode, inChannel, isMember, isOperator, governed
<1>2. ASSUME mayChangeMode(f, c), NEW ch, update(c, ch),
             /\ ch.members = channels[c].members
             /\ ch.operators = channels[c].operators
             /\ ch.invited = channels[c].invited
      PROVE  Changes
  BY <1>1, <1>2, UpdateChanges DEF Change, Reset
<1> USE DEF ChannelRecord
<1>3. CASE modeICmd(f, c)
  BY <1>1, <1>2, <1>3 DEF modeICmd
<1>4. CASE modeTCmd(f, c)
  BY <1>1, <1>2, <1>4 DEF modeTCmd
<1>5. CASE modeKCmd(f, c)
  BY <1>1, <1>2, <1>5 DEF modeKCmd
<1>6. CASE modeLCmd(f, c)
  BY <1>1, <1>2, <1>6 DEF modeLCmd
<1>7. CASE modeBCmd(f, c)
  BY <1>1, <1>2, <1>7 DEF modeBCmd
<1>8. ASSUME NEW n \in Nicks, modeOCmd(f, c, n)
      PROVE  Changes
  <2>1. c \in DOMAIN channels
    BY <1>8 DEF modeOCmd, inChannel
  <2>2. ASSUME NEW s, namedMember(c, n, s), isFound(s), NEW ch, update(c, ch),
               ch \in {addOperator(channels[c], s), removeOperator(channels[c], s)}
        PROVE  Changes
    <3>1. s \in channels[c].members
      BY <2>1, <2>2, NamedOK
    <3> QED BY <2>1, <2>2, <3>1, UpdateChanges DEF Change, Promoted
  <2> QED BY <1>8, <2>2, UnchangedChanges DEF modeOCmd
<1> QED BY <1>3, <1>4, <1>5, <1>6, <1>7, <1>8 DEF modeCmdClient

LEMMA TopicChanges ==
    ASSUME NEW f \in Connected, NEW c, NEW t, topicCmdClient(f, c, t)
    PROVE  Changes
<1>1. /\ c \in DOMAIN channels
      /\ clients[f].sock \in channels[c].members
      /\ channels[c].topicRight => clients[f].sock \in channels[c].operators
      /\ update(c, [channels[c] EXCEPT !.topic = t])
  BY DEF topicCmdClient, inChannel, isMember, isOperator
<1>2. Change(c, channels[c], [channels[c] EXCEPT !.topic = t])
  BY <1>1 DEF Change, Retitled, governed
<1> QED BY <1>1, <1>2, UpdateChanges

LEMMA SayChanges ==
    ASSUME NEW f \in Connected, NEW c, inChannel(f, c), NEW msg, NEW order,
           say(f, c, msg, order)
    PROVE  Changes
BY RemoveMemberFromChanges, UnchangedChanges DEF say, inChannel, isMember

(* Every step is one of these.                                             *)
LEMMA StepChanges ==
    ASSUME IInv, [Next]_vars
    PROVE  Changes
<1>1. ASSUME NEW f \in Connected, NEW c \in ChannelNames, channelCommand(f, c)
      PROVE  Changes
  <2>1. CASE \E k \in Keys \cup {NoKey} : handleChannel(f, c, k)
    BY <2>1, JoinChanges
  <2>2. CASE partCmdClientCommon(f, c)
    BY <2>2, RemoveMemberFromChanges DEF partCmdClientCommon, inChannel, isMember
  <2>3. CASE \E n \in Nicks : kickCmdClient(f, c, n)
    BY <2>3, KickChanges
  <2>4. CASE \E n \in Nicks : inviteCmdClient(f, c, n)
    BY <2>4, InviteChanges
  <2>5. CASE modeCmdClient(f, c)
    BY <2>5, ModeChanges
  <2>6. CASE \E t \in Topics : topicCmdClient(f, c, t)
    BY <2>6, TopicChanges
  <2>7. CASE \E msg \in Messages : sendMessageToChannel(f, c, msg)
    BY <2>7, SayChanges DEF sendMessageToChannel
  <2> QED BY <1>1, <2>1, <2>2, <2>3, <2>4, <2>5, <2>6, <2>7 DEF channelCommand
<1>2. ASSUME NEW f \in Connected, handleClientMessage(f)
      PROVE  Changes
  <2>1. CASE disconnect(f)
    BY <2>1, PartAllChanges DEF disconnect
  <2>2. CASE quitCmdClient(f)
    BY <2>2, PartAllChanges DEF quitCmdClient
  <2>3. CASE \E n \in ValidNicks : nickCmdClient(f, n)
    BY <2>3, UnchangedChanges DEF nickCmdClient
  <2>4. CASE \E c \in ChannelNames : channelCommand(f, c)
    BY <1>1, <2>4
  <2>5. CASE \E msg \in Messages : handleUnknownCommand(f, msg)
    BY <2>5, SayChanges DEF handleUnknownCommand
  <2> QED BY <1>2, <2>1, <2>2, <2>3, <2>4, <2>5 DEF handleClientMessage
<1>3. ASSUME NEW fd \in Sockets, acceptNewConnection(fd)
      PROVE  Changes
  BY <1>3, UnchangedChanges DEF acceptNewConnection
<1> QED BY <1>2, <1>3, UnchangedChanges DEF Next, vars

------------------------------------------------------------------------------
(* The theorems.  What the methods do to the sets of a well-typed channel. *)

LEMMA MethodsOK ==
    ASSUME NEW ch \in ChannelRecord, NEW s
    PROVE  /\ addMember(ch, s) = [ch EXCEPT !.members = ch.members \cup {s}]
           /\ addMember(ch, s).members = ch.members \cup {s}
           /\ removeMember(ch, s).members = ch.members \ {s}
           /\ removeMember(ch, s).invited = ch.invited
           /\ forget(ch, s).members = ch.members \ {s}
           /\ forget(ch, s).operators = ch.operators \ {s}
           /\ forget(ch, s).invited = ch.invited \ {s}
           /\ addOperator(ch, s).operators = ch.operators \cup {s}
           /\ addOperator(ch, s).members = ch.members
           /\ removeOperator(ch, s).operators = ch.operators \ {s}
           /\ removeOperator(ch, s).members = ch.members
           /\ addInvitedMember(ch, s).members = ch.members
BY DEF addMember, removeMember, forget, addOperator, removeOperator,
       addInvitedMember, removeInvitedMember, ChannelRecord

(* Only the commands of MODE other than o touch the settings, and only     *)
(* those and TOPIC what settings and topic are taken together.             *)
LEMMA SettingsOK ==
    ASSUME NEW ch \in ChannelRecord, NEW s
    PROVE  \A new \in { addMember(ch, s), removeMember(ch, s), forget(ch, s),
                        addOperator(ch, s), removeOperator(ch, s),
                        addInvitedMember(ch, s) } :
              settings(new) = settings(ch) /\ new.topic = ch.topic
BY DEF addMember, removeMember, forget, addOperator, removeOperator,
       addInvitedMember, removeInvitedMember, settings, ChannelRecord

(* The settings of a channel, and under +t its topic, only change while a  *)
(* client is in it that is an operator of it.                              *)
THEOREM SettingsGoverned == Spec => OnlyOperatorsChangeSettings
<1>1. ASSUME IInv, [Next]_vars, NEW c \in DOMAIN channels \cap DOMAIN channels',
             \/ settings(channels[c]) # settings(channels'[c])
             \/ channels[c].topicRight /\ channels[c].topic # channels'[c].topic
      PROVE  governed(channels[c])
  <2> DEFINE ch == channels[c]
             new == channels'[c]
  <2>1. ch \in ChannelRecord
    BY <1>1, ChannelOK
  <2>2. Change(c, ch, new)
    BY <1>1, StepChanges DEF Changes
  <2>3. \/ Reset(ch, new)
        \/ Retitled(ch, new)
        \/ settings(new) = settings(ch) /\ new.topic = ch.topic
    BY <2>1, <2>2, SettingsOK
       DEF Change, Entered, Parted, Forgotten, Kicked, Invited, Promoted
  <2>4. ASSUME Retitled(ch, new)
        PROVE  governed(ch)
    <3>1. PICK t : new = [ch EXCEPT !.topic = t]
      BY <2>4 DEF Retitled
    <3>2. settings(new) = settings(ch)
      BY <2>1, <3>1 DEF settings, ChannelRecord
    <3> QED BY <1>1, <2>4, <3>2 DEF Retitled
  <2> QED BY <1>1, <2>3, <2>4 DEF Reset
<1>2. IInv /\ [Next]_vars =>
        [\A c \in DOMAIN channels \cap DOMAIN channels' :
            \/ settings(channels[c]) # settings(channels'[c])
            \/ channels[c].topicRight /\ channels[c].topic # channels'[c].topic
            => channels[c].members \cap channels[c].operators # {}]_vars
  BY <1>1 DEF governed
<1> QED BY <1>2, Invariance, PTL DEF Spec, OnlyOperatorsChangeSettings

(* The operator right is only given to a client that is in the channel.    *)
THEOREM MembersPromoted == Spec => OnlyMembersPromoted
<1>1. ASSUME IInv, [Next]_vars, NEW c \in DOMAIN channels \cap DOMAIN channels'
      PROVE  channels'[c].operators \subseteq channels[c].operators \cup channels[c].members
  <2> DEFINE ch == channels[c]
             new == channels'[c]
  <2>1. ch \in ChannelRecord
    BY <1>1, ChannelOK
  <2>2. Change(c, ch, new)
    BY <1>1, StepChanges DEF Changes
  <2>3. CASE Promoted(ch, new)
    BY <2>1, <2>3, MethodsOK DEF Promoted
  <2>4. CASE Forgotten(ch, new) \/ Kicked(c, new)
    BY <2>1, <2>4, MethodsOK DEF Forgotten, Kicked
  <2>5. CASE Entered(ch, new) \/ Parted(ch, new) \/ Invited(ch, new) \/ Retitled(ch, new)
    BY <2>1, <2>5 DEF Entered, Parted, Invited, Retitled,
                      addMember, removeMember, addInvitedMember, ChannelRecord
  <2> QED BY <2>2, <2>3, <2>4, <2>5 DEF Change, Reset
<1>2. IInv /\ [Next]_vars =>
        [\A c \in DOMAIN channels \cap DOMAIN channels' :
            channels'[c].operators \subseteq
                channels[c].operators \cup channels[c].members]_vars
  BY <1>1
<1> QED BY <1>2, Invariance, PTL DEF Spec, OnlyMembersPromoted

(* Only JOIN makes a channel grow.                                         *)
LEMMA OnlyEnteredGrows ==
    ASSUME IInv, NEW c \in DOMAIN channels, NEW new, Change(c, channels[c], new)
    PROVE  new.members \subseteq channels[c].members \/ Entered(channels[c], new)
<1>1. channels[c] \in ChannelRecord
  BY ChannelOK
<1>2. ASSUME Retitled(channels[c], new)
      PROVE  new.members = channels[c].members
  BY <1>1, <1>2 DEF Retitled, ChannelRecord
<1> QED BY <1>1, <1>2, MethodsOK
        DEF Change, Parted, Forgotten, Kicked, Invited, Reset, Promoted

(* A channel grows one member at a time, within its limit, and when it is  *)
(* +i only by somebody invited.                                            *)
THEOREM GrowthIsAdmitted == Spec => GrowthAdmitted
<1>1. ASSUME IInv, [Next]_vars, NEW c \in DOMAIN channels \cap DOMAIN channels',
             channels'[c].members \ channels[c].members # {}
      PROVE  /\ Cardinality(channels'[c].members \ channels[c].members) = 1
             /\ getMembersCount(channels'[c]) <= channels[c].maxMembers
             /\ channels[c].inviteOnly =>
                  channels'[c].members \ channels[c].members \subseteq channels[c].invited
  <2> DEFINE ch == channels[c]
             new == channels'[c]
  <2>1. ch \in ChannelRecord
    BY <1>1, ChannelOK
  <2>2. Change(c, ch, new)
    BY <1>1, StepChanges DEF Changes
  <2>3. PICK s, k : s \notin ch.members /\ admits(ch, s, k) /\ new = addMember(ch, s)
    BY <1>1, <2>2, OnlyEnteredGrows DEF Entered
  <2>4. new.members = ch.members \cup {s} /\ new.members \ ch.members = {s}
    BY <2>1, <2>3, MethodsOK
  <2>5. IsFiniteSet(ch.members)
    <3>1. IsFiniteSet(Sockets \cup {NoSocket})
      BY SocketsAssumption, FS_AddElement
    <3> QED BY <1>1, <3>1, ChannelOK, FS_Subset
  <2>6. /\ Cardinality(new.members) = Cardinality(ch.members) + 1
        /\ Cardinality(ch.members) \in Nat
    BY <2>3, <2>4, <2>5, FS_AddElement, FS_CardinalityType
  <2>7. ch.maxMembers \in Nat
    BY <2>1 DEF ChannelRecord
  <2>8. Cardinality(ch.members) < ch.maxMembers
    BY <2>3, <2>6, <2>7 DEF admits, isFull, getMembersCount
  <2>9. Cardinality(new.members \ ch.members) = 1
    BY <2>4, FS_Singleton
  <2>10. ch.inviteOnly => s \in ch.invited
    BY <2>3 DEF admits, isInvitedMember
  <2> QED BY <2>4, <2>6, <2>7, <2>8, <2>9, <2>10 DEF getMembersCount
<1>2. IInv /\ [Next]_vars =>
        [\A c \in DOMAIN channels \cap DOMAIN channels' :
            LET entered == channels'[c].members \ channels[c].members IN
            entered # {} =>
               /\ Cardinality(entered) = 1
               /\ getMembersCount(channels'[c]) <= channels[c].maxMembers
               /\ channels[c].inviteOnly => entered \subseteq channels[c].invited]_vars
  BY <1>1
<1> QED BY <1>2, Invariance, PTL DEF Spec, GrowthAdmitted

(* Only a KICK leaves a channel behind that nobody is in.                  *)
THEOREM EmptiedByKick == Spec => OnlyKickEmpties
<1>1. ASSUME IInv, [Next]_vars, NEW c \in DOMAIN channels',
             channels'[c].members = {},
             c \in DOMAIN channels => channels[c].members # {}
      PROVE  \E f \in Connected : \E n \in Nicks : kickCmdClient(f, c, n)
  <2> DEFINE ch == channels[c]
             new == channels'[c]
  <2>1. c \in DOMAIN channels /\ Change(c, ch, new)
    BY <1>1, StepChanges DEF Changes
  <2>2. ch \in ChannelRecord /\ ch.members # {}
    BY <1>1, <2>1, ChannelOK
  <2>3. ~ Entered(ch, new) /\ ~ Forgotten(ch, new) /\ ~ Invited(ch, new)
    BY <1>1, <2>2, MethodsOK DEF Entered, Forgotten, Invited
  <2>4. ~ Promoted(ch, new) /\ ~ Reset(ch, new) /\ ~ Parted(ch, new)
    BY <1>1, <2>2, MethodsOK DEF Promoted, Reset, Parted
  <2>5. ~ Retitled(ch, new)
    BY <1>1, <2>2 DEF Retitled, ChannelRecord
  <2> QED BY <1>1, <2>1, <2>2, <2>3, <2>4, <2>5 DEF Change, Kicked
<1>2. IInv /\ [Next]_vars =>
        [\A c \in DOMAIN channels' :
            /\ channels'[c].members = {}
            /\ c \in DOMAIN channels => channels[c].members # {}
            => \E f \in Connected : \E n \in Nicks : kickCmdClient(f, c, n)]_vars
  BY <1>1
<1> QED BY <1>2, Invariance, PTL DEF Spec, OnlyKickEmpties

(* An invite-only channel that a KICK emptied and that nobody is invited   *)
(* to stays as it is for good: no sequence of commands of any clients      *)
(* opens, fills or removes it.                                             *)
THEOREM LockedStaysLocked == Spec => LockedForever
<1>1. ASSUME IInv, [Next]_vars, NEW c \in ChannelNames, locked(c)
      PROVE  locked(c)'
  <2> DEFINE ch == channels[c]
             new == channels'[c]
  <2>1. c \in DOMAIN channels /\ ch.members = {} /\ ch.inviteOnly /\ ch.invited = {}
    BY <1>1 DEF locked
  <2>2. c \in DOMAIN channels' /\ Change(c, ch, new)
    BY <1>1, <2>1, StepChanges DEF Changes
  <2>3. ch \in ChannelRecord
    BY <1>1, <2>1, ChannelOK
  <2>4. new = ch \/ Forgotten(ch, new)
    <3>1. ~ Entered(ch, new)
      BY <2>1 DEF Entered, admits, isInvitedMember
    <3>2. ~ Parted(ch, new)
      BY <2>1, <2>3, MethodsOK DEF Parted
    <3> QED BY <2>1, <2>2, <3>1, <3>2
            DEF Change, Kicked, Invited, Reset, Promoted, Retitled, governed
  <2>5. ASSUME Forgotten(ch, new)
        PROVE  new.members = {} /\ new.inviteOnly /\ new.invited = {}
    <3>1. PICK s : new = forget(ch, s)
      BY <2>5 DEF Forgotten
    <3>2. settings(new) = settings(ch)
      BY <2>3, <3>1, SettingsOK
    <3> QED BY <2>1, <2>3, <3>1, <3>2, MethodsOK DEF settings
  <2> QED BY <2>1, <2>2, <2>4, <2>5 DEF locked
<1>2. IInv /\ [Next]_vars => [\A c \in ChannelNames : locked(c) => locked(c)']_vars
  BY <1>1
<1> QED BY <1>2, Invariance, PTL DEF Spec, LockedForever

(* No other channel is closed for good: the invited are connected, and the *)
(* limit leaves room for one.                                              *)
THEOREM OthersAreOpen == Spec => []OnlyLockedIsClosed
<1>1. ASSUME IInv, NoStaleSocket, NEW c \in DOMAIN channels,
             channels[c].members = {}, ~ locked(c), Connected # {}
      PROVE  \E f \in Connected :
                admits(channels[c], clients[f].sock, channels[c].key)
  <2> DEFINE ch == channels[c]
  <2>1. ch \in ChannelRecord
    BY <1>1, ChannelOK
  <2>2. ~ isFull(ch)
    <3>1. Cardinality(ch.members) = 0
      BY <1>1, FS_EmptySet
    <3> QED BY <2>1, <3>1 DEF isFull, getMembersCount, ChannelRecord
  <2>3. CASE ~ ch.inviteOnly
    BY <1>1, <2>2, <2>3 DEF admits
  <2>4. CASE ch.inviteOnly
    <3>1. PICK s \in ch.invited : TRUE
      BY <1>1, <2>4 DEF locked
    <3>2. PICK f \in Connected : clients[f].sock = s
      BY <1>1, <3>1 DEF NoStaleSocket, mentioned
    <3> QED BY <2>2, <3>1, <3>2 DEF admits, isInvitedMember
  <2> QED BY <2>3, <2>4
<1>2. IInv /\ NoStaleSocket => OnlyLockedIsClosed
  BY <1>1 DEF OnlyLockedIsClosed
<1> QED BY <1>2, Invariance, NoStaleSockets, PTL
==============================================================================
