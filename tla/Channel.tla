------------------------------- MODULE Channel -------------------------------
(***************************************************************************)
(* The Channel class (includes/Channel.hpp): the record the server keeps   *)
(* for a channel and the methods that read and change it.                  *)
(*                                                                         *)
(* The vectors _memberSockets, _membersOperators and _membersIsInvite are  *)
(* sets of sockets here: every add is guarded by the matching is... test,  *)
(* so no vector ever holds an element twice.  The order of the elements is *)
(* the order in which notices are sent; the one place where it decides     *)
(* anything else (MODE +o/-o between two members of one name) is a choice. *)
(*                                                                         *)
(* A definition whose name ends in Faulty is a plausible wrong version of  *)
(* the definition after it.  No specification uses one: they are there to  *)
(* show which property each mistake would break.                           *)
(***************************************************************************)
EXTENDS Integers, FiniteSets

CONSTANTS
    DefaultMaxMembers,   \* _maxMembersChannel of a new channel, 10 in the code
    DefaultBannedWords,  \* the words initializeBannedWords puts in _bannedWords
    NoKey,               \* the empty channel key
    NoTopic              \* the empty topic

ASSUME DefaultMaxMembersAssumption == DefaultMaxMembers \in Nat \ {0}

(* Channel::Channel(const std::string&): what a channel starts with. No    *)
(* operator is appointed, not even the client that causes the creation.    *)
newChannel ==
    [ members     |-> {},
      operators   |-> {},
      invited     |-> {},
      topic       |-> NoTopic,
      key         |-> NoKey,
      topicRight  |-> FALSE,
      maxMembers  |-> DefaultMaxMembers,
      inviteOnly  |-> FALSE,
      bannedWords |-> DefaultBannedWords ]

isMember(ch, s)        == s \in ch.members
isOperator(ch, s)      == s \in ch.operators
isInvitedMember(ch, s) == s \in ch.invited
getMembersCount(ch)    == Cardinality(ch.members)

addMember(ch, s)           == [ch EXCEPT !.members   = @ \cup {s}]
removeMember(ch, s)        == [ch EXCEPT !.members   = @ \ {s}]
addOperator(ch, s)         == [ch EXCEPT !.operators = @ \cup {s}]
removeOperator(ch, s)      == [ch EXCEPT !.operators = @ \ {s}]
addInvitedMember(ch, s)    == [ch EXCEPT !.invited   = @ \cup {s}]
removeInvitedMember(ch, s) == [ch EXCEPT !.invited   = @ \ {s}]

(* The three removals partAllChannels and executeKick make together.  PART *)
(* and the bot only remove the member: the operator right and the          *)
(* invitation of the leaver stay.                                          *)
forgetFaulty(ch, s) == removeMember(ch, s)
forget(ch, s) == removeInvitedMember(removeOperator(removeMember(ch, s), s), s)

(* A message is the set of words operator>> splits it into; one banned     *)
(* word is enough.                                                         *)
hasBannedWord(ch, msg) == msg \cap ch.bannedWords # {}

(* The admission tests of handleChannel, in the order of the code: key,    *)
(* room, invitation.  k is the third token of JOIN, NoKey when it is       *)
(* missing.                                                                *)
isFullFaulty(ch) == getMembersCount(ch) > ch.maxMembers
isFull(ch) == getMembersCount(ch) >= ch.maxMembers

admits(ch, s, k) ==
    /\ ch.key = NoKey \/ k = ch.key
    /\ ~ isFull(ch)
    /\ ch.inviteOnly => isInvitedMember(ch, s)
==============================================================================
