-------------------------------- MODULE Views --------------------------------
(***************************************************************************)
(* What irssi clients make of what the server sends them.  Each action of  *)
(* IRCServer is joined with the replies its handler sends, and each reply  *)
(* with what irssi does on reading it: a window per channel, the names it  *)
(* shows and the topic line.  A netcat client shows text and keeps no      *)
(* state.                                                                  *)
(*                                                                         *)
(* The variables added here restrict nothing: what clients do and what     *)
(* they are told is IRCServer's behaviour, with one assumption about       *)
(* newcomers, takesFreeName: no irssi newcomer brings a name that is in    *)
(* use.  The code does not see to it, and what is stated below of windows, *)
(* topics and names is stated, and holds, only where it is so.             *)
(***************************************************************************)
EXTENDS IRCServer

VARIABLES
    irssi,   \* the descriptors whose Client has isIrssi set
    view     \* descriptor -> channel -> the window irssi has open for it

viewVars == <<irssi, view>>

Window == [names : SUBSET Nicks, topic : Topics \cup {NoTopic}]

------------------------------------------------------------------------------
(* The replies that change a window (RPL.cpp).                             *)
RPL_JOIN(n, c)     == [type |-> "JOIN", nick |-> n, channel |-> c]
RPL_PART(n, c)     == [type |-> "PART", nick |-> n, channel |-> c]
RPL_KICK(n, c)     == [type |-> "KICK", nick |-> n, channel |-> c]
RPL_TOPIC(c, t)    == [type |-> "TOPIC", channel |-> c, topic |-> t]
RPL_NICK(old, new) == [type |-> "NICK", old |-> old, new |-> new]

(* How irssi reads one of them with the windows w and the name own.  It    *)
(* knows itself by its name only.  The list of those who are already in a  *)
(* channel comes as the text of a message and not as a NAMES reply, so a   *)
(* new window shows no names.                                              *)
shows(win, m) ==
    CASE m.type = "JOIN"             -> [win EXCEPT !.names = @ \cup {m.nick}]
      [] m.type \in {"PART", "KICK"} -> [win EXCEPT !.names = @ \ {m.nick}]
      [] m.type = "TOPIC"            -> [win EXCEPT !.topic = m.topic]

read(w, own, m) ==
    CASE m.type = "JOIN" /\ m.nick = own ->
            Put(w, m.channel, [names |-> {}, topic |-> NoTopic])
      [] m.type \in {"PART", "KICK"} /\ m.nick = own -> Erase(w, {m.channel})
      [] m.type = "NICK" ->
            [c \in DOMAIN w |->
                [w[c] EXCEPT !.names = {IF n = m.old THEN m.new ELSE n : n \in @}]]
      [] OTHER ->
            [c \in DOMAIN w |-> IF c = m.channel THEN shows(w[c], m) ELSE w[c]]

hears(f, m) == read(view[f], clients[f].nick, m)

(* The loop over the members of a channel that ends most handlers.         *)
send(S, m) ==
    /\ view' = [f \in irssi |-> IF f \in S THEN hears(f, m) ELSE view[f]]
    /\ UNCHANGED irssi

sendNothing == UNCHANGED viewVars

forgetClient(f) ==
    /\ irssi' = irssi \ {f}
    /\ view' = Restrict(view, irssi')

------------------------------------------------------------------------------
(* Connecting.  isIrssi is set when the NICK and the USER line both had a  *)
(* name; without one of them the client stays what netcat clients are.     *)
detected(fd) ==
    \/ /\ "irssi" \in Kinds
       /\ clients'[fd].sock = fd /\ clients'[fd].nick # NoNick
       /\ irssi' = irssi \cup {fd}
       /\ view' = Put(view, fd, <<>>)
    \/ sendNothing

(* Environment: a newcomer has a name nobody else has.  netcat clients are *)
(* made to; irssi clients are not asked (Parsing.cpp:97), and irssi, which *)
(* knows itself by its name, takes what is told of a namesake as told of   *)
(* itself.                                                                 *)
takesFreeName(fd) == clients'[fd].nick \notin nicknames \cup {NoNick}

connects(fd) ==
    /\ acceptNewConnection(fd)
    /\ IF fd \in DOMAIN clients' THEN takesFreeName(fd) /\ detected(fd)
                                 ELSE sendNothing

(* Leaving.  The other members get the text of a message, if anything.     *)
leaves(f) ==
    \/ disconnect(f) /\ forgetClient(f)
    \/ quitCmdClient(f) /\ forgetClient(clients[f].sock)

(* NICK is told to nobody but the client that changes its name.            *)
renames(f, n) ==
    /\ nickCmdClient(f, n)
    /\ send({f}, RPL_NICK(clients[f].nick, n))

------------------------------------------------------------------------------
(* sendChannelJoinInfo: every irssi member, the newcomer too, reads of the *)
(* JOIN; the topic goes to the newcomer, once for each irssi member.       *)
joinsFaulty(f, c, k) ==
    /\ handleChannel(f, c, k)
    /\ send(channels'[c].members, RPL_JOIN(clients[f].nick, c))
joins(f, c, k) ==
    LET s   == clients[f].sock
        own == clients[f].nick
    IN
    /\ handleChannel(f, c, k)
    /\ view' = [g \in irssi |->
                  IF g = s
                  THEN read(hears(s, RPL_JOIN(own, c)), own,
                            RPL_TOPIC(c, channels'[c].topic))
                  ELSE IF isMember(channels'[c], g)
                       THEN hears(g, RPL_JOIN(own, c)) ELSE view[g]]
    /\ UNCHANGED irssi

(* The members that are left, and the leaver when it is irssi.             *)
parts(f, c) ==
    /\ partCmdClientCommon(f, c)
    /\ send(channels[c].members, RPL_PART(clients[f].nick, c))

(* The members that are left read KICK, the expelled one PART and KICK.    *)
kicksFaulty(f, c, n) ==
    \E s \in Sockets :
        /\ findUserSocket(n, s)
        /\ kickCmdClient(f, c, n)
        /\ send(channels[c].members \ {s}, RPL_KICK(n, c))
kicks(f, c, n) ==
    \E s \in Sockets :
        /\ findUserSocket(n, s)
        /\ kickCmdClient(f, c, n)
        /\ send(channels[c].members, RPL_KICK(n, c))

(* The bot tells the same, with the expelled client's own name as source.  *)
expelsFaulty(f, c) == send({clients[f].sock}, RPL_KICK(clients[f].nick, c))
expels(f, c) == send(channels[c].members, RPL_KICK(clients[f].nick, c))

talks(f, c, msg) ==
    /\ sendMessageToChannel(f, c, msg)
    /\ IF hasBannedWord(channels[c], msg) THEN expels(f, c) ELSE sendNothing

types(f, msg) ==
    \E i \in DOMAIN channelOrder :
        /\ inChannel(f, channelOrder[i])
        /\ \A j \in DOMAIN channelOrder : inChannel(f, channelOrder[j]) => j <= i
        /\ handleUnknownCommand(f, msg)
        /\ IF hasBannedWord(channels[channelOrder[i]], msg)
           THEN expels(f, channelOrder[i]) ELSE sendNothing

setsTopic(f, c, t) ==
    /\ topicCmdClient(f, c, t)
    /\ send(channels[c].members, RPL_TOPIC(c, t))

(* LIST channel names every member of every channel with numeric 353,      *)
(* which irssi adds to the names of the window: the end of a list of names *)
(* (366), after which it would not, is never sent.                         *)
lists(f) ==
    /\ f \in irssi
    /\ view' = [view EXCEPT ![f] =
                  [c \in DOMAIN view[f] |->
                      [view[f][c] EXCEPT !.names = @ \cup channelListMembers(c)]]]
    /\ UNCHANGED <<vars, irssi>>

(* INVITE and MODE send notices that change no window.                     *)
noWindow(f, c) ==
    /\ \/ \E n \in Nicks : inviteCmdClient(f, c, n)
       \/ modeCmdClient(f, c)
    /\ sendNothing

------------------------------------------------------------------------------
ViewsInit == Init /\ irssi = {} /\ view = <<>>

departs(f) == leaves(f) \/ \E n \in ValidNicks : renames(f, n)

commands(f, c) ==
    \/ \E k \in Keys \cup {NoKey} : joins(f, c, k)
    \/ parts(f, c)
    \/ \E n \in Nicks : kicks(f, c, n)
    \/ \E msg \in Messages : talks(f, c, msg)
    \/ \E t \in Topics : setsTopic(f, c, t)
    \/ noWindow(f, c)

ViewsNext ==
    \/ \E fd \in Sockets : connects(fd)
    \/ \E f \in Connected :
          \/ departs(f)
          \/ lists(f)
          \/ \E c \in ChannelNames : commands(f, c)
          \/ \E msg \in Messages : types(f, msg)

ViewsSpec == ViewsInit /\ [][ViewsNext]_<<vars, viewVars>>

------------------------------------------------------------------------------
(* Properties, all of them under the assumption takesFreeName.             *)

(* An irssi client has a window open for exactly the channels it is in:    *)
(* whoever is put out, by KICK, by the bot or by its own PART, gets a line *)
(* that closes the window, and nothing about others opens or closes one.   *)
(* Under takesFreeName: a namesake's PART would close it.                  *)
OwnWindows ==
    \A f \in irssi :
        DOMAIN view[f] = {c \in DOMAIN channels : isMember(channels[c], f)}

(* The topic an irssi member is shown is the topic of the channel, also    *)
(* when it was set before the JOIN, which is told to the newcomer only.    *)
(* Under takesFreeName: a namesake's JOIN would open the window anew.      *)
TopicShown ==
    \A f \in irssi : \A c \in DOMAIN view[f] :
        view[f][c].topic = channels[c].topic

memberNames(c) == {clients[s].nick : s \in channels[c].members}
ghosts(f, c) == view[f][c].names \ memberNames(c)

(* A name stays in a window after its owner is gone only because of QUIT,  *)
(* a lost connection or NICK, of which the others are told in plain text   *)
(* or not at all.  PART, KICK and the bot take it off every window.  Under *)
(* takesFreeName: one name cannot tell two members apart.                  *)
GhostsFromDepartures ==
    [][(\E f \in irssi \cap irssi' :
           \E c \in DOMAIN view[f] \cap DOMAIN view'[f] :
              ghosts(f, c)' \ ghosts(f, c) # {})
       => \E f \in Connected : departs(f)]_<<vars, viewVars>>
==============================================================================
