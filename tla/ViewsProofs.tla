------------------------------ MODULE ViewsProofs ------------------------------
(***************************************************************************)
(* Proofs that the windows of irssi clients follow the channels, for every *)
(* value of the constants with which every client registers.  Each lemma   *)
(* about a command has two halves: whose membership of which channel it    *)
(* changes, and what the lines it sends do to the windows.                 *)
(***************************************************************************)
EXTENDS Views, DirectoryProofs

(* What is known of the tables: entries are registered clients with names  *)
(* of their own.                                                           *)
Named == \A f \in Connected : clients[f].nick \in Nicks

Tables ==
    /\ IInv
    /\ EveryEntryRegistered
    /\ NickOwnership
    /\ Named
    /\ DirInv

rooms(f) == {c \in DOMAIN channels : f \in channels[c].members}

WindowOK(w, c) == w \in Window /\ w.topic = channels[c].topic

ViewOK(f) ==
    /\ DOMAIN view[f] = rooms(f)
    /\ \A c \in rooms(f) : WindowOK(view[f][c], c)

ViewInv ==
    /\ irssi \subseteq Connected
    /\ DOMAIN view = irssi
    /\ \A f \in irssi : ViewOK(f)

(* No name is left in a window that was not there or whose owner left.     *)
NoNewGhosts ==
    \A f \in irssi \cap irssi' : \A c \in DOMAIN view[f] \cap DOMAIN view'[f] :
        ghosts(f, c)' \subseteq ghosts(f, c)

Kept == ViewInv' /\ NoNewGhosts

QuietClients ==
    /\ DOMAIN clients' = DOMAIN clients
    /\ \A f \in DOMAIN clients : clients'[f] = clients[f]

(* The ways memberships change.                                            *)
Topic(c) == channels[c].topic

PutOut(c, s) ==
    /\ \A g \in Sockets : rooms(g)' = IF g = s THEN rooms(g) \ {c} ELSE rooms(g)
    /\ \A d \in DOMAIN channels \cap DOMAIN channels' : Topic(d)' = Topic(d)

Stay ==
    /\ DOMAIN channels' = DOMAIN channels
    /\ \A c \in DOMAIN channels : channels'[c].members = channels[c].members

------------------------------------------------------------------------------
(* The tables.                                                             *)

LEMMA Registered ==
    ASSUME Tables
    PROVE  /\ Connected = DOMAIN clients
           /\ DOMAIN clients \subseteq Sockets
           /\ \A f \in DOMAIN clients :
                 /\ clients[f].sock = f
                 /\ clients[f] \in ClientRecord
                 /\ clients[f].nick \in Nicks
                 /\ f # NoSocket
           /\ \A f, g \in DOMAIN clients : clients[f].nick = clients[g].nick => f = g
           /\ \A c \in DOMAIN channels :
                 channels[c] \in ChannelRecord /\ channels[c].members \subseteq DOMAIN clients
           /\ DOMAIN channels \subseteq ChannelNames
<1>1. Connected = DOMAIN clients /\ Live(clients) = DOMAIN clients
  BY LiveIsDomain DEF Tables
<1>2. \A f \in DOMAIN clients : clients[f].sock = f /\ f # NoSocket
  BY DEF Tables, EveryEntryRegistered
<1>3. \A c \in DOMAIN channels :
         channels[c] \in ChannelRecord /\ channels[c].members \subseteq DOMAIN clients
  BY <1>1, ChannelOK DEF Tables
<1> QED BY <1>1, <1>2, <1>3 DEF Tables, IInv, ClientsOK, ChannelsOK, Connected, NickOwnership, Named

LEMMA QuietStep ==
    ASSUME Tables, ChannelStep
    PROVE  QuietClients
BY ChannelStepQuiet DEF Tables, QuietClients

------------------------------------------------------------------------------
(* What a client makes of a line.                                          *)

(* A line about somebody else, or a topic, changes one window.             *)
updated(w, c, m) == [d \in DOMAIN w |-> IF d = c THEN shows(w[d], m) ELSE w[d]]

Farewell(n, c) == {RPL_PART(n, c), RPL_KICK(n, c)}

LEMMA ReadOwnFarewell ==
    ASSUME NEW w, NEW n, NEW c, NEW m \in Farewell(n, c)
    PROVE  read(w, n, m) = Erase(w, {c})
<1>1. m.nick = n /\ m.channel = c /\ (m.type = "PART" \/ m.type = "KICK")
  BY DEF Farewell, RPL_PART, RPL_KICK
<1> QED BY <1>1 DEF read

LEMMA ReadFarewell ==
    ASSUME NEW w, NEW own, NEW n, n # own, NEW c, NEW m \in Farewell(n, c)
    PROVE  read(w, own, m) = updated(w, c, m)
<1>1. m.nick = n /\ m.channel = c /\ (m.type = "PART" \/ m.type = "KICK")
  BY DEF Farewell, RPL_PART, RPL_KICK
<1> QED BY <1>1 DEF read, updated

LEMMA ShowsFarewell ==
    ASSUME NEW n, NEW c, NEW m \in Farewell(n, c), NEW win \in Window
    PROVE  /\ shows(win, m) \in Window
           /\ shows(win, m).names = win.names \ {n}
           /\ shows(win, m).topic = win.topic
<1>1. m.nick = n /\ (m.type = "PART" \/ m.type = "KICK")
  BY DEF Farewell, RPL_PART, RPL_KICK
<1>2. shows(win, m) = [win EXCEPT !.names = @ \ {n}]
  BY <1>1 DEF shows
<1> QED BY <1>2 DEF Window

LEMMA ReadOwnJoin ==
    ASSUME NEW w, NEW n, NEW c
    PROVE  read(w, n, RPL_JOIN(n, c)) = Put(w, c, [names |-> {}, topic |-> NoTopic])
BY DEF read, RPL_JOIN

LEMMA ReadJoin ==
    ASSUME NEW w, NEW own, NEW n, n # own, NEW c
    PROVE  read(w, own, RPL_JOIN(n, c)) = updated(w, c, RPL_JOIN(n, c))
<1> DEFINE m == RPL_JOIN(n, c)
<1>1. m.nick = n /\ m.channel = c /\ m.type = "JOIN"
  BY DEF RPL_JOIN
<1> HIDE DEF m
<1> QED BY <1>1 DEF read, updated, m

LEMMA ShowsJoin ==
    ASSUME NEW n \in Nicks, NEW c, NEW win \in Window
    PROVE  /\ shows(win, RPL_JOIN(n, c)) \in Window
           /\ shows(win, RPL_JOIN(n, c)).names = win.names \cup {n}
           /\ shows(win, RPL_JOIN(n, c)).topic = win.topic
<1>1. shows(win, RPL_JOIN(n, c)) = [win EXCEPT !.names = @ \cup {n}]
  BY DEF shows, RPL_JOIN
<1> QED BY <1>1 DEF Window

LEMMA ReadTopic ==
    ASSUME NEW w, NEW own, NEW c, NEW t
    PROVE  read(w, own, RPL_TOPIC(c, t)) = updated(w, c, RPL_TOPIC(c, t))
<1> DEFINE m == RPL_TOPIC(c, t)
<1>1. m.channel = c /\ m.type = "TOPIC"
  BY DEF RPL_TOPIC
<1> HIDE DEF m
<1> QED BY <1>1 DEF read, updated, m

LEMMA ShowsTopic ==
    ASSUME NEW c, NEW t \in Topics \cup {NoTopic}, NEW win \in Window
    PROVE  /\ shows(win, RPL_TOPIC(c, t)) \in Window
           /\ shows(win, RPL_TOPIC(c, t)).names = win.names
           /\ shows(win, RPL_TOPIC(c, t)).topic = t
<1>1. shows(win, RPL_TOPIC(c, t)) = [win EXCEPT !.topic = t]
  BY DEF shows, RPL_TOPIC
<1> QED BY <1>1 DEF Window

LEMMA ReadNick ==
    ASSUME NEW w, NEW own, NEW old, NEW new \in Nicks
    PROVE  /\ DOMAIN read(w, own, RPL_NICK(old, new)) = DOMAIN w
           /\ \A d \in DOMAIN w : w[d] \in Window =>
                 /\ read(w, own, RPL_NICK(old, new))[d] \in Window
                 /\ read(w, own, RPL_NICK(old, new))[d].topic = w[d].topic
<1> DEFINE m == RPL_NICK(old, new)
           renamed(win) ==
               [win EXCEPT !.names = {IF n = old THEN new ELSE n : n \in @}]
<1>1. m.type = "NICK" /\ m.old = old /\ m.new = new
  BY DEF RPL_NICK
<1> HIDE DEF m
<1>2. read(w, own, m) = [d \in DOMAIN w |-> renamed(w[d])]
  BY <1>1 DEF read
<1>3. ASSUME NEW win \in Window
      PROVE  renamed(win) \in Window /\ renamed(win).topic = win.topic
  <2>1. {IF n = old THEN new ELSE n : n \in win.names} \in SUBSET Nicks
    BY DEF Window
  <2> QED BY <2>1 DEF Window
<1> HIDE DEF renamed
<1> QED BY <1>2, <1>3 DEF m

------------------------------------------------------------------------------
(* What a change of memberships and the lines about it do to the windows.  *)

(* Windows and members that are what they were show no new ghosts.         *)
LEMMA GhostsKept ==
    ASSUME Tables, QuietClients,
           NEW f \in irssi, NEW c \in DOMAIN channels, NEW n,
           \A x \in channels[c].members : x \in channels'[c].members \/ clients[x].nick = n,
           view'[f][c].names \subseteq view[f][c].names,
           n \notin view'[f][c].names
    PROVE  ghosts(f, c)' \subseteq ghosts(f, c)
<1>1. \A x \in channels[c].members : x \in DOMAIN clients /\ clients'[x] = clients[x]
  BY Registered DEF QuietClients
<1>2. ASSUME NEW x \in view'[f][c].names, x \notin {clients'[s].nick : s \in channels'[c].members}
      PROVE  x \in ghosts(f, c)
  <2>1. x \in view[f][c].names
    OBVIOUS
  <2>2. \A s \in channels[c].members : clients[s].nick # x
    BY <1>1, <1>2
  <2> QED BY <2>1, <2>2 DEF ghosts, memberNames
<1> QED BY <1>2 DEF ghosts, memberNames

LEMMA SameGhosts ==
    ASSUME Tables, QuietClients,
           NEW f \in irssi, NEW c \in DOMAIN channels,
           \A x \in channels[c].members : x \in channels'[c].members,
           view'[f][c].names \subseteq view[f][c].names
    PROVE  ghosts(f, c)' \subseteq ghosts(f, c)
<1>1. \A x \in channels[c].members : x \in DOMAIN clients /\ clients'[x] = clients[x]
  BY Registered DEF QuietClients
<1> QED BY <1>1 DEF ghosts, memberNames

LEMMA PutOutKept ==
    ASSUME Tables, ViewInv, NEW c \in DOMAIN channels, NEW s \in channels[c].members,
           NEW m \in Farewell(clients[s].nick, c),
           send(channels[c].members, m), QuietClients, PutOut(c, s)
    PROVE  Kept
<1> DEFINE nick == clients[s].nick
<1>1. /\ s \in DOMAIN clients
      /\ irssi \subseteq DOMAIN clients
      /\ DOMAIN clients \subseteq Sockets
      /\ \A d \in DOMAIN channels : channels[d].members \subseteq DOMAIN clients
  BY Registered DEF ViewInv
<1>2. /\ irssi' = irssi
      /\ DOMAIN view' = irssi
      /\ \A g \in irssi : view'[g] = IF g \in channels[c].members
                                     THEN read(view[g], clients[g].nick, m) ELSE view[g]
  BY DEF send, hears
<1>3. \A g \in irssi : /\ DOMAIN view[g] = rooms(g)
                       /\ \A d \in rooms(g) :
                             /\ view[g][d] \in Window
                             /\ view[g][d].topic = channels[d].topic
  BY DEF ViewInv, ViewOK, WindowOK
<1>4. ASSUME NEW g \in irssi, g # s
      PROVE  /\ DOMAIN view'[g] = rooms(g)
             /\ \A d \in rooms(g) :
                   /\ view'[g][d] \in Window
                   /\ view'[g][d].topic = view[g][d].topic
                   /\ view'[g][d].names \subseteq view[g][d].names
                   /\ d = c => nick \notin view'[g][d].names
  <2>1. CASE g \in channels[c].members
    <3>1. nick # clients[g].nick
      BY <1>1, <1>4, Registered
    <3>2. view'[g] = updated(view[g], c, m)
      <4>1. view'[g] = read(view[g], clients[g].nick, m)
        BY <1>2, <2>1
      <4> QED BY <3>1, <4>1, ReadFarewell
    <3>3. \A win \in Window : /\ shows(win, m) \in Window
                             /\ shows(win, m).names = win.names \ {nick}
                             /\ shows(win, m).topic = win.topic
      BY ShowsFarewell
    <3> HIDE DEF nick
    <3> QED BY <1>3, <3>2, <3>3 DEF updated
  <2>2. CASE g \notin channels[c].members
    BY <1>2, <1>3, <2>2 DEF rooms
  <2> QED BY <2>1, <2>2
<1>5. ASSUME s \in irssi
      PROVE  /\ DOMAIN view'[s] = rooms(s) \ {c}
             /\ \A d \in rooms(s) \ {c} : view'[s][d] = view[s][d]
  <2>1. view'[s] = Erase(view[s], {c})
    <3>1. view'[s] = read(view[s], nick, m)
      BY <1>2, <1>5
    <3> QED BY <3>1, ReadOwnFarewell
  <2> QED BY <1>3, <1>5, <2>1 DEF Erase, Restrict
<1>6. \A g \in Sockets : rooms(g)' = IF g = s THEN rooms(g) \ {c} ELSE rooms(g)
  BY DEF PutOut
<1>7. \A g \in irssi : \A d \in rooms(g)' :
         /\ d \in rooms(g) /\ d \in DOMAIN channels /\ d \in DOMAIN channels'
         /\ channels'[d].topic = channels[d].topic
  <2>1. \A g \in irssi : \A d \in rooms(g)' : d \in rooms(g) /\ d \in DOMAIN channels'
    BY <1>1, <1>6 DEF rooms
  <2> QED BY <2>1 DEF rooms, PutOut, Topic
<1>8. ViewInv'
  <2>1. ASSUME NEW g \in irssi
        PROVE  ViewOK(g)'
    <3>1. DOMAIN view'[g] = rooms(g)'
      <4>1. g \in Sockets
        BY <1>1
      <4>2. CASE g = s
        BY <1>5, <1>6, <4>1, <4>2
      <4>3. CASE g # s
        BY <1>4, <1>6, <4>1, <4>3
      <4> QED BY <4>2, <4>3
    <3>2. \A d \in rooms(g)' : WindowOK(view[g][d], d)'
      <4>1. CASE g = s
        BY <1>1, <1>3, <1>5, <1>6, <1>7, <4>1 DEF WindowOK
      <4>2. CASE g # s
        BY <1>3, <1>4, <1>7, <4>2 DEF WindowOK
      <4> QED BY <4>1, <4>2
    <3> QED BY <3>1, <3>2 DEF ViewOK
  <2>2. irssi' \subseteq Connected'
    BY <1>2 DEF ViewInv, Connected, QuietClients
  <2> QED BY <1>2, <2>1, <2>2 DEF ViewInv
<1>9. NoNewGhosts
  <2>1. ASSUME NEW g \in irssi, NEW d \in DOMAIN view[g] \cap DOMAIN view'[g]
        PROVE  ghosts(g, d)' \subseteq ghosts(g, d)
    <3>1. d \in rooms(g) /\ d \in rooms(g)' /\ (d = c => g # s)
      BY <1>1, <1>3, <1>4, <1>5, <1>6, <2>1
    <3>2. d \in DOMAIN channels /\ d \in DOMAIN channels'
      BY <1>7, <3>1
    <3>3. \A x \in channels[d].members : x \in channels'[d].members \/ (d = c /\ x = s)
      BY <1>1, <1>6, <3>2 DEF rooms
    <3>4. /\ view'[g][d].names \subseteq view[g][d].names
          /\ d = c => nick \notin view'[g][d].names
      BY <1>4, <1>5, <3>1
    <3>5. CASE d = c
      <4>1. \A x \in channels[d].members : x \in channels'[d].members \/ clients[x].nick = nick
        BY <3>3
      <4> HIDE DEF nick
      <4> QED BY <2>1, <3>2, <3>4, <3>5, <4>1, GhostsKept
    <3>6. CASE d # c
      <4>1. \A x \in channels[d].members : x \in channels'[d].members
        BY <3>3, <3>6
      <4> QED BY <3>2, <3>4, <4>1, SameGhosts
    <3> QED BY <3>5, <3>6
  <2> QED BY <1>2, <2>1 DEF NoNewGhosts
<1> QED BY <1>8, <1>9 DEF Kept

(* Nothing that irssi looks at happens.                                    *)
LEMMA StayKept ==
    ASSUME Tables, ViewInv, QuietClients, Stay, UNCHANGED viewVars,
           \A c \in DOMAIN channels : Topic(c)' = Topic(c)
    PROVE  Kept
<1>1. \A g : rooms(g)' = rooms(g)
  BY DEF rooms, Stay
<1>2. \A g \in irssi : \A c \in rooms(g) : WindowOK(view[g][c], c)'
  BY DEF ViewInv, ViewOK, WindowOK, viewVars, rooms, Topic
<1>3. ViewInv'
  BY <1>1, <1>2 DEF ViewInv, ViewOK, viewVars, Connected, QuietClients
<1>4. NoNewGhosts
  <2>1. ASSUME NEW g \in irssi, NEW c \in DOMAIN view[g]
        PROVE  ghosts(g, c)' \subseteq ghosts(g, c)
    <3>1. c \in DOMAIN channels
      BY DEF ViewInv, ViewOK, rooms
    <3> QED BY <3>1, SameGhosts DEF Stay, viewVars
  <2> QED BY <2>1 DEF NoNewGhosts
<1> QED BY <1>3, <1>4 DEF Kept

(* A new topic that all the members read.                                  *)
LEMMA TopicKept ==
    ASSUME Tables, ViewInv, QuietClients, Stay,
           NEW c \in DOMAIN channels, NEW t \in Topics,
           Topic(c)' = t, \A d \in DOMAIN channels : d # c => Topic(d)' = Topic(d),
           send(channels[c].members, RPL_TOPIC(c, t))
    PROVE  Kept
<1> DEFINE m == RPL_TOPIC(c, t)
<1>1. \A g : rooms(g)' = rooms(g)
  BY DEF rooms, Stay
<1>2. /\ irssi' = irssi
      /\ DOMAIN view' = irssi
      /\ \A g \in irssi : view'[g] = IF g \in channels[c].members
                                     THEN read(view[g], clients[g].nick, m) ELSE view[g]
  BY DEF send, hears
<1>3. \A g \in irssi : /\ DOMAIN view[g] = rooms(g)
                       /\ \A d \in rooms(g) :
                             /\ view[g][d] \in Window
                             /\ view[g][d].topic = Topic(d)
  BY DEF ViewInv, ViewOK, WindowOK, Topic
<1>4. \A win \in Window : /\ shows(win, m) \in Window
                          /\ shows(win, m).names = win.names
                          /\ shows(win, m).topic = t
  BY ShowsTopic
<1>5. \A w, own : read(w, own, m) = updated(w, c, m)
  BY ReadTopic
<1> HIDE DEF m
<1>6. ASSUME NEW g \in irssi
      PROVE  /\ DOMAIN view'[g] = rooms(g)
             /\ \A d \in rooms(g) : /\ view'[g][d] \in Window
                                    /\ view'[g][d].topic = Topic(d)'
                                    /\ view'[g][d].names = view[g][d].names
  <2>1. c \in rooms(g) <=> g \in channels[c].members
    BY DEF rooms
  <2>2. rooms(g) \subseteq DOMAIN channels
    BY DEF rooms
  <2>3. CASE g \in channels[c].members
    <3>1. view'[g] = updated(view[g], c, m)
      BY <1>2, <1>5, <2>3
    <3> QED BY <1>3, <1>4, <2>2, <3>1 DEF updated
  <2>4. CASE g \notin channels[c].members
    BY <1>2, <1>3, <2>1, <2>2, <2>4
  <2> QED BY <2>3, <2>4
<1>7. ViewInv'
  BY <1>1, <1>2, <1>6 DEF ViewInv, ViewOK, WindowOK, Topic, Connected, QuietClients
<1>8. NoNewGhosts
  <2>1. ASSUME NEW g \in irssi, NEW d \in DOMAIN view[g]
        PROVE  ghosts(g, d)' \subseteq ghosts(g, d)
    <3>1. d \in DOMAIN channels /\ d \in rooms(g)
      BY <1>3 DEF rooms
    <3> QED BY <1>6, <3>1, SameGhosts DEF Stay
  <2> QED BY <1>2, <2>1 DEF NoNewGhosts
<1> QED BY <1>7, <1>8 DEF Kept

(* One more member, whose name the others read and who opens a window with *)
(* the topic that is set.                                                  *)
LEMMA JoinKept ==
    ASSUME Tables, ViewInv, NEW f \in Connected, NEW c \in ChannelNames, NEW k,
           joins(f, c, k)
    PROVE  Kept
<1> DEFINE own == clients[f].nick
           jn == RPL_JOIN(own, c)
           t == channels'[c].topic
           tp == RPL_TOPIC(c, t)
           empty == [names |-> {}, topic |-> NoTopic]
<1>1. /\ clients[f].sock = f
      /\ f \in DOMAIN clients
      /\ DOMAIN clients \subseteq Sockets
      /\ irssi \subseteq DOMAIN clients
      /\ own \in Nicks
      /\ \A g \in DOMAIN clients : g # f => own # clients[g].nick
      /\ \A d \in DOMAIN channels : /\ channels[d] \in ChannelRecord
                                    /\ channels[d].members \subseteq DOMAIN clients
  BY Registered DEF ViewInv
<1>2. /\ DOMAIN channels' = DOMAIN channels \cup {c}
      /\ channels'[c] = addMember(createdIn(c), f)
      /\ \A d \in DOMAIN channels : d # c => channels'[d] = channels[d]
      /\ c \notin rooms(f)
  BY <1>1 DEF joins, handleChannel, Put, inChannel, isMember, rooms
<1>3. /\ createdIn(c) \in ChannelRecord
      /\ c \in DOMAIN channels => createdIn(c) = channels[c]
      /\ c \notin DOMAIN channels => createdIn(c).members = {}
  BY <1>1, NewChannelOK DEF createdIn, newChannel
<1>4. /\ channels'[c].members = createdIn(c).members \cup {f}
      /\ t = createdIn(c).topic
      /\ t \in Topics \cup {NoTopic}
  BY <1>2, <1>3 DEF addMember, ChannelRecord
<1>5. \A g : rooms(g)' = IF g = f THEN rooms(g) \cup {c} ELSE rooms(g)
  BY <1>2, <1>3, <1>4 DEF rooms
<1>6. \A d \in DOMAIN channels : d \in DOMAIN channels' /\ channels'[d].topic = channels[d].topic
  BY <1>2, <1>3, <1>4
<1>7. \A g \in irssi : /\ DOMAIN view[g] = rooms(g)
                       /\ rooms(g) \subseteq DOMAIN channels
                       /\ \A d \in rooms(g) :
                             /\ view[g][d] \in Window
                             /\ view[g][d].topic = channels[d].topic
  BY DEF ViewInv, ViewOK, WindowOK, rooms
<1>8. /\ irssi' = irssi
      /\ DOMAIN view' = irssi
      /\ f \in irssi => view'[f] = read(read(view[f], own, jn), own, tp)
      /\ \A g \in irssi : g # f =>
            view'[g] = IF g \in channels'[c].members
                       THEN read(view[g], clients[g].nick, jn) ELSE view[g]
  BY <1>1 DEF joins, hears, isMember
<1>9. \A win \in Window : /\ shows(win, tp) \in Window
                          /\ shows(win, tp).names = win.names
                          /\ shows(win, tp).topic = t
  BY <1>4, ShowsTopic
<1>10. \A win \in Window : /\ shows(win, jn) \in Window
                           /\ shows(win, jn).names = win.names \cup {own}
                           /\ shows(win, jn).topic = win.topic
  BY <1>1, ShowsJoin
<1>11. ASSUME f \in irssi
       PROVE  /\ DOMAIN view'[f] = rooms(f) \cup {c}
              /\ view'[f][c] \in Window
              /\ view'[f][c].topic = t
              /\ \A d \in rooms(f) : view'[f][d] = view[f][d]
  <2>1. view'[f] = updated(Put(view[f], c, empty), c, tp)
    <3>1. read(view[f], own, jn) = Put(view[f], c, empty)
      BY ReadOwnJoin
    <3>2. read(Put(view[f], c, empty), own, tp) = updated(Put(view[f], c, empty), c, tp)
      BY ReadTopic
    <3> HIDE DEF jn, tp, empty
    <3> QED BY <1>8, <1>11, <3>1, <3>2
  <2>2. /\ DOMAIN Put(view[f], c, empty) = rooms(f) \cup {c}
        /\ Put(view[f], c, empty)[c] = empty
        /\ \A d \in rooms(f) : Put(view[f], c, empty)[d] = view[f][d]
    BY <1>2, <1>7, <1>11 DEF Put
  <2>3. empty \in Window
    BY DEF Window
  <2> HIDE DEF empty, tp, t
  <2> QED BY <1>2, <1>9, <2>1, <2>2, <2>3 DEF updated
<1>12. ASSUME NEW g \in irssi, g # f
       PROVE  /\ DOMAIN view'[g] = rooms(g)
              /\ \A d \in rooms(g) :
                    /\ view'[g][d] \in Window
                    /\ view'[g][d].topic = view[g][d].topic
                    /\ view'[g][d].names \subseteq
                          view[g][d].names \cup (IF d = c THEN {own} ELSE {})
  <2>1. CASE g \in channels'[c].members
    <3>1. own # clients[g].nick
      BY <1>1, <1>12
    <3>2. view'[g] = updated(view[g], c, jn)
      <4>1. view'[g] = read(view[g], clients[g].nick, jn)
        BY <1>8, <1>12, <2>1
      <4> QED BY <3>1, <4>1, ReadJoin
    <3> HIDE DEF jn, own
    <3> QED BY <1>7, <1>10, <3>2 DEF updated
  <2>2. CASE g \notin channels'[c].members
    BY <1>7, <1>8, <1>12, <2>2
  <2> QED BY <2>1, <2>2
<1> HIDE DEF own, jn, tp, empty
<1>13. QuietClients
  <2>1. handleChannel(f, c, k)
    BY DEF joins
  <2> QED BY <2>1, HandleChannelOK, QuietStep DEF Tables
<1>14. ViewInv'
  <2>1. ASSUME NEW g \in irssi
        PROVE  ViewOK(g)'
    <3>1. CASE g = f
      <4>1. DOMAIN view'[f] = rooms(f)'
        BY <1>5, <1>11, <2>1, <3>1
      <4>2. view'[f][c] \in Window /\ view'[f][c].topic = channels'[c].topic
        BY <1>2, <1>11, <2>1, <3>1
      <4>3. ASSUME NEW d \in rooms(f)
            PROVE  view'[f][d] \in Window /\ view'[f][d].topic = channels'[d].topic
        BY <1>6, <1>7, <1>11, <2>1, <3>1
      <4> QED BY <1>5, <3>1, <4>1, <4>2, <4>3 DEF ViewOK, WindowOK
    <3>2. CASE g # f
      BY <1>5, <1>6, <1>7, <1>12, <3>2 DEF ViewOK, WindowOK
    <3> QED BY <3>1, <3>2
  <2>2. irssi' \subseteq Connected'
    BY <1>8, <1>13 DEF ViewInv, Connected, QuietClients
  <2> QED BY <1>8, <2>1, <2>2 DEF ViewInv
<1>15. NoNewGhosts
  <2>1. ASSUME NEW g \in irssi, NEW d \in DOMAIN view[g], NEW n \in ghosts(g, d)'
        PROVE  n \in ghosts(g, d)
    <3>1. d \in rooms(g) /\ d \in DOMAIN channels /\ (g = f => d # c)
      BY <1>2, <1>7
    <3>2. \A x \in channels[d].members : /\ x \in channels'[d].members
                                         /\ clients'[x].nick = clients[x].nick
      BY <1>1, <1>2, <1>3, <1>4, <1>13, <3>1 DEF QuietClients
    <3>3. n \in view[g][d].names
      <4>1. CASE g = f
        BY <1>11, <2>1, <3>1, <4>1 DEF ghosts
      <4>2. CASE g # f
        <5>1. ~ (d = c /\ n = own)
          <6>1. f \in channels'[c].members /\ clients'[f].nick = own
            BY <1>1, <1>4, <1>13 DEF own, QuietClients
          <6> QED BY <2>1, <6>1 DEF ghosts, memberNames
        <5> QED BY <1>12, <2>1, <3>1, <4>2, <5>1 DEF ghosts
      <4> QED BY <4>1, <4>2
    <3> QED BY <2>1, <3>2, <3>3 DEF ghosts, memberNames
  <2> QED BY <1>8, <2>1 DEF NoNewGhosts
<1> QED BY <1>14, <1>15 DEF Kept

------------------------------------------------------------------------------
(* The commands.  Those that put a member out change no other membership.  *)

LEMMA RemovalPutsOut ==
    ASSUME Tables, NEW c \in DOMAIN channels, NEW s \in channels[c].members, NEW order,
           removeMemberFrom(c, s, order)
    PROVE  PutOut(c, s)
<1> DEFINE ch == removeMember(channels[c], s)
<1>1. channels[c] \in ChannelRecord
  BY Registered
<1>2. ch.members = channels[c].members \ {s} /\ ch.topic = channels[c].topic
  BY <1>1 DEF removeMember, ChannelRecord
<1> HIDE DEF ch
<1>3. CASE update(c, ch)
  BY <1>2, <1>3 DEF update, PutOut, rooms, Topic
<1>4. CASE ch.members = {} /\ destroy({c}, order)
  BY <1>2, <1>4 DEF destroy, Erase, Restrict, PutOut, rooms, Topic
<1> QED BY <1>3, <1>4 DEF removeMemberFrom, ch

LEMMA ForgettingPutsOut ==
    ASSUME Tables, NEW c \in DOMAIN channels, NEW s \in channels[c].members,
           update(c, forget(channels[c], s))
    PROVE  PutOut(c, s)
<1> DEFINE ch == forget(channels[c], s)
<1>1. channels[c] \in ChannelRecord
  BY Registered
<1>2. ch.members = channels[c].members \ {s} /\ ch.topic = channels[c].topic
  BY <1>1 DEF forget, removeMember, removeOperator, removeInvitedMember, ChannelRecord
<1> HIDE DEF ch
<1> QED BY <1>2 DEF update, PutOut, rooms, Topic, ch

LEMMA PartsKept ==
    ASSUME Tables, ViewInv, NEW f \in Connected, NEW c, parts(f, c)
    PROVE  Kept
<1> DEFINE m == RPL_PART(clients[f].nick, c)
<1>1. /\ clients[f].sock = f
      /\ c \in DOMAIN channels /\ f \in channels[c].members
      /\ removeMemberFrom(c, f, removeFromOrder({c}))
      /\ UNCHANGED nicknames
      /\ send(channels[c].members, m)
  BY Registered DEF parts, partCmdClientCommon, inChannel, isMember
<1>2. PutOut(c, f)
  BY <1>1, RemovalPutsOut
<1>3. QuietClients
  BY <1>1, RemoveMemberFromOK, QuietStep DEF Tables
<1>4. m \in Farewell(clients[f].nick, c)
  BY DEF Farewell
<1> HIDE DEF m
<1> QED BY <1>1, <1>2, <1>3, <1>4, PutOutKept

LEMMA KicksKept ==
    ASSUME Tables, ViewInv, NEW f \in Connected, NEW c, NEW n \in Nicks, kicks(f, c, n)
    PROVE  Kept
<1> DEFINE m == RPL_KICK(n, c)
<1>1. PICK s \in Sockets :
         /\ findUserSocket(n, s)
         /\ kickCmdClient(f, c, n)
         /\ send(channels[c].members, m)
  BY DEF kicks
<1>2. PICK r \in Sockets \cup {NoSocket} :
         /\ c \in DOMAIN channels
         /\ findUserSocket(n, r)
         /\ r \in channels[c].members
         /\ update(c, forget(channels[c], r))
  BY <1>1 DEF kickCmdClient, isMember
<1>3. r \in DOMAIN clients /\ clients[r].nick = n
  BY <1>2, Registered DEF findUserSocket
<1>4. PutOut(c, r)
  BY <1>2, ForgettingPutsOut
<1>5. QuietClients
  BY <1>1, KickOK, QuietStep DEF Tables
<1>6. m \in Farewell(clients[r].nick, c)
  BY <1>3 DEF Farewell
<1> HIDE DEF m
<1> QED BY <1>1, <1>2, <1>4, <1>5, <1>6, PutOutKept

(* The bot, after a PRIVMSG or a plain text.                               *)
LEMMA SayKept ==
    ASSUME Tables, ViewInv, NEW f \in Connected, NEW c, NEW msg, NEW order,
           inChannel(f, c),
           say(f, c, msg, order),
           IF hasBannedWord(channels[c], msg) THEN expels(f, c) ELSE sendNothing
    PROVE  Kept
<1> DEFINE m == RPL_KICK(clients[f].nick, c)
<1>1. /\ clients[f].sock = f
      /\ c \in DOMAIN channels /\ f \in channels[c].members
  BY Registered DEF inChannel, isMember
<1>2. QuietClients
  BY <1>1, SayOK, QuietStep DEF Tables
<1>3. CASE hasBannedWord(channels[c], msg)
  <2>1. removeMemberFrom(c, f, order) /\ send(channels[c].members, m)
    BY <1>1, <1>3 DEF say, expels
  <2>2. PutOut(c, f)
    BY <1>1, <2>1, RemovalPutsOut
  <2>3. m \in Farewell(clients[f].nick, c)
    BY DEF Farewell
  <2> HIDE DEF m
  <2> QED BY <1>1, <1>2, <2>1, <2>2, <2>3, PutOutKept
<1>4. CASE ~ hasBannedWord(channels[c], msg)
  <2>1. UNCHANGED viewVars /\ UNCHANGED channels
    BY <1>4 DEF say, sendNothing
  <2>2. Stay /\ \A d \in DOMAIN channels : Topic(d)' = Topic(d)
    BY <2>1 DEF Stay, Topic
  <2> QED BY <1>2, <2>1, <2>2, StayKept
<1> QED BY <1>3, <1>4

(* The youngest channel of a client is one channel, so what types says of  *)
(* it and what handleUnknownCommand does is about the same.                *)
LEMMA TypesKept ==
    ASSUME Tables, ViewInv, NEW f \in Connected, NEW msg, types(f, msg)
    PROVE  Kept
<1>1. PICK i \in DOMAIN channelOrder :
         /\ inChannel(f, channelOrder[i])
         /\ \A j \in DOMAIN channelOrder : inChannel(f, channelOrder[j]) => j <= i
         /\ handleUnknownCommand(f, msg)
         /\ IF hasBannedWord(channels[channelOrder[i]], msg)
            THEN expels(f, channelOrder[i]) ELSE sendNothing
  BY DEF types
<1>2. PICK k \in DOMAIN channelOrder :
         /\ inChannel(f, channelOrder[k])
         /\ \A j \in DOMAIN channelOrder : inChannel(f, channelOrder[j]) => j <= k
         /\ say(f, channelOrder[k], msg, removeInPlace(channelOrder, k))
  BY <1>1 DEF handleUnknownCommand
<1>3. DOMAIN channelOrder \subseteq Nat
  BY DEF Tables, DirInv, Lists
<1>4. i <= k /\ k <= i /\ i \in Nat /\ k \in Nat
  BY <1>1, <1>2, <1>3
<1>5. i = k
  BY ONLY <1>4
<1> QED BY <1>1, <1>2, <1>5, SayKept

LEMMA SetsTopicKept ==
    ASSUME Tables, ViewInv, NEW f \in Connected, NEW c, NEW t \in Topics,
           setsTopic(f, c, t)
    PROVE  Kept
<1>1. /\ c \in DOMAIN channels
      /\ channels' = [channels EXCEPT ![c] = [channels[c] EXCEPT !.topic = t]]
      /\ topicCmdClient(f, c, t)
      /\ send(channels[c].members, RPL_TOPIC(c, t))
  BY DEF setsTopic, topicCmdClient, inChannel, update
<1>2. channels[c] \in ChannelRecord
  BY <1>1, Registered
<1>3. QuietClients
  BY <1>1, TopicOK, QuietStep DEF Tables
<1>4. /\ channels'[c].members = channels[c].members
      /\ channels'[c].topic = t
  BY <1>1, <1>2 DEF ChannelRecord
<1>5. /\ DOMAIN channels' = DOMAIN channels
      /\ \A d \in DOMAIN channels : d # c => channels'[d] = channels[d]
  BY <1>1
<1>6. /\ Stay
      /\ Topic(c)' = t
      /\ \A d \in DOMAIN channels : d # c => Topic(d)' = Topic(d)
  BY <1>4, <1>5 DEF Stay, Topic
<1> QED BY <1>1, <1>3, <1>6, TopicKept

(* INVITE and MODE change neither a membership nor a topic.                *)
SameRoom(ch, old) == ch.members = old.members /\ ch.topic = old.topic

Undisturbed == Stay /\ \A d \in DOMAIN channels : Topic(d)' = Topic(d)

LEMMA NoWindowKept ==
    ASSUME Tables, ViewInv, NEW f \in Connected, NEW c, noWindow(f, c)
    PROVE  Kept
<1>1. c \in DOMAIN channels
  BY DEF noWindow, modeCmdClient, modeICmd, modeTCmd, modeKCmd, modeLCmd, modeBCmd,
         modeOCmd, mayChangeMode, inviteCmdClient, inChannel
<1>2. channels[c] \in ChannelRecord
  BY <1>1, Registered
<1>3. ASSUME NEW ch, update(c, ch), SameRoom(ch, channels[c])
      PROVE  Undisturbed
  BY <1>1, <1>3 DEF update, Stay, Topic, SameRoom, Undisturbed
<1>4. ASSUME UNCHANGED channels
      PROVE  Undisturbed
  BY <1>4 DEF Stay, Topic, Undisturbed
<1>5. \A s : SameRoom(addInvitedMember(channels[c], s), channels[c])
  BY <1>2 DEF addInvitedMember, ChannelRecord, SameRoom
<1>6. \A s : /\ SameRoom(addOperator(channels[c], s), channels[c])
              /\ SameRoom(removeOperator(channels[c], s), channels[c])
  BY <1>2 DEF addOperator, removeOperator, ChannelRecord, SameRoom
<1>7. /\ \A b : SameRoom([channels[c] EXCEPT !.inviteOnly = b], channels[c])
      /\ \A b : SameRoom([channels[c] EXCEPT !.topicRight = b], channels[c])
      /\ \A b : SameRoom([channels[c] EXCEPT !.key = b], channels[c])
      /\ \A b : SameRoom([channels[c] EXCEPT !.maxMembers = b], channels[c])
      /\ \A b : SameRoom([channels[c] EXCEPT !.bannedWords = b], channels[c])
  BY <1>2 DEF ChannelRecord, SameRoom
<1>8. ASSUME \E n \in Nicks : inviteCmdClient(f, c, n)
      PROVE  Undisturbed
  BY <1>3, <1>5, <1>8 DEF inviteCmdClient
<1>9. ASSUME modeCmdClient(f, c)
      PROVE  Undisturbed
  <2>1. CASE modeICmd(f, c) \/ modeTCmd(f, c)
    BY <1>3, <1>7, <2>1 DEF modeICmd, modeTCmd
  <2>2. CASE modeKCmd(f, c)
    BY <1>3, <1>7, <2>2 DEF modeKCmd
  <2>3. CASE modeLCmd(f, c)
    BY <1>3, <1>7, <2>3 DEF modeLCmd
  <2>4. CASE modeBCmd(f, c)
    BY <1>3, <1>7, <2>4 DEF modeBCmd
  <2>5. CASE \E n \in Nicks : modeOCmd(f, c, n)
    BY <1>3, <1>4, <1>6, <2>5 DEF modeOCmd
  <2> QED BY <1>9, <2>1, <2>2, <2>3, <2>4, <2>5 DEF modeCmdClient
<1>10. QuietClients
  BY <1>8, <1>9, InviteOK, ModeOK, QuietStep DEF Tables, noWindow
<1> QED BY <1>8, <1>9, <1>10, StayKept DEF noWindow, sendNothing, Undisturbed

(* LIST adds names of members to the windows of who asked.                 *)
LEMMA ListsKept ==
    ASSUME Tables, ViewInv, NEW f \in Connected, lists(f)
    PROVE  Kept
<1>1. /\ UNCHANGED vars
      /\ irssi' = irssi /\ f \in irssi
      /\ view' = [view EXCEPT ![f] =
                    [c \in DOMAIN view[f] |->
                        [view[f][c] EXCEPT !.names = @ \cup channelListMembers(c)]]]
  BY DEF lists
<1>2. \A g \in irssi : /\ DOMAIN view[g] = rooms(g)
                       /\ \A d \in rooms(g) :
                             /\ view[g][d] \in Window
                             /\ view[g][d].topic = Topic(d)
  BY DEF ViewInv, ViewOK, WindowOK, Topic
<1>3. ASSUME NEW c \in DOMAIN channels
      PROVE  channelListMembers(c) = memberNames(c) /\ memberNames(c) \subseteq Nicks
  <2>1. channels[c].members \subseteq DOMAIN clients
    BY Registered
  <2>2. \A s \in channels[c].members : clients[s].nick \in Nicks
    BY <2>1, Registered
  <2>3. channels[c].members \cap DOMAIN clients = channels[c].members
    BY <2>1
  <2> QED BY <2>2, <2>3 DEF channelListMembers, memberNames
<1>4. \A g : rooms(g)' = rooms(g)
  BY <1>1 DEF vars, rooms
<1>5. /\ DOMAIN view' = irssi
      /\ \A g \in irssi \ {f} : view'[g] = view[g]
      /\ view'[f] = [c \in DOMAIN view[f] |->
                       [view[f][c] EXCEPT !.names = @ \cup channelListMembers(c)]]
  BY <1>1 DEF ViewInv
<1>6. ASSUME NEW d \in rooms(f)
      PROVE  /\ view'[f][d] \in Window
             /\ view'[f][d].topic = Topic(d)
             /\ view'[f][d].names = view[f][d].names \cup memberNames(d)
  <2>1. d \in DOMAIN view[f] /\ view[f][d] \in Window /\ d \in DOMAIN channels
    BY <1>1, <1>2 DEF rooms
  <2>2. view'[f][d] = [view[f][d] EXCEPT !.names = @ \cup memberNames(d)]
    BY <1>3, <1>5, <2>1
  <2> QED BY <1>1, <1>2, <1>3, <2>1, <2>2 DEF Window
<1>7. ViewInv'
  <2>1. \A d : Topic(d)' = Topic(d)
    BY <1>1 DEF vars, Topic
  <2>2. irssi' \subseteq Connected'
    BY <1>1 DEF vars, ViewInv, Connected
  <2>3. ASSUME NEW g \in irssi
        PROVE  /\ DOMAIN view'[g] = rooms(g)
               /\ \A d \in rooms(g) :
                     view'[g][d] \in Window /\ view'[g][d].topic = Topic(d)
    <3>1. CASE g = f
      <4>1. DOMAIN view'[f] = DOMAIN view[f]
        BY <1>5
      <4> QED BY <1>1, <1>2, <1>6, <3>1, <4>1
    <3>2. CASE g # f
      <4>1. view'[g] = view[g]
        BY <1>5, <3>2
      <4> QED BY <1>2, <4>1
    <3> QED BY <3>1, <3>2
  <2>4. ASSUME NEW g \in irssi
        PROVE  ViewOK(g)'
    <3>1. \A d : d \in rooms(g)' <=> d \in rooms(g)
      BY <1>4
    <3>2. (DOMAIN view[g] = rooms(g))'
      BY <1>4, <2>3
    <3>3. ASSUME NEW d \in rooms(g)
          PROVE  WindowOK(view[g][d], d)'
      BY <2>1, <2>3, <3>3 DEF WindowOK, Topic, Window
    <3> QED BY <3>1, <3>2, <3>3 DEF ViewOK
  <2> QED BY <1>1, <1>5, <2>2, <2>4 DEF ViewInv
<1>8. NoNewGhosts
  <2>1. ASSUME NEW g \in irssi, NEW d \in DOMAIN view[g]
        PROVE  ghosts(g, d)' \subseteq ghosts(g, d)
    <3>1. memberNames(d)' = memberNames(d)
      BY <1>1 DEF vars, memberNames
    <3>2. view'[g][d].names \subseteq view[g][d].names \cup memberNames(d)
      BY <1>2, <1>5, <1>6
    <3> QED BY <3>1, <3>2 DEF ghosts
  <2> QED BY <1>1, <2>1 DEF NoNewGhosts
<1> QED BY <1>7, <1>8 DEF Kept

------------------------------------------------------------------------------
(* Connecting, leaving and renaming.                                       *)

LEMMA ConnectsKept ==
    ASSUME Tables, ViewInv, NEW fd \in Sockets, connects(fd), "other" \notin Kinds
    PROVE  Kept
<1>1. /\ fd \notin DOMAIN clients
      /\ DOMAIN clients' \subseteq DOMAIN clients \cup {fd}
      /\ \A g \in DOMAIN clients : g \in DOMAIN clients' /\ clients'[g] = clients[g]
      /\ UNCHANGED channels
  BY DEF connects, acceptNewConnection, accept, detectClient, parsingDataNetcat,
         parsingDataIrssi, registrationAborted, refused, addUser, Put
<1>2. /\ irssi \subseteq DOMAIN clients
      /\ \A c \in DOMAIN channels : channels[c].members \subseteq DOMAIN clients
      /\ NoSocket \notin DOMAIN clients
      /\ Connected = DOMAIN clients
      /\ fd # NoSocket
  BY Registered, SocketsAssumption DEF ViewInv, NoSocket
<1>3. /\ \A g : rooms(g)' = rooms(g)
      /\ rooms(fd) = {}
  BY <1>1, <1>2 DEF rooms
<1>4. \A g \in irssi : ViewOK(g)
  BY DEF ViewInv
<1>5. /\ irssi' \subseteq Connected'
      /\ DOMAIN view' = irssi'
      /\ \A g \in irssi : view'[g] = view[g]
      /\ \A g \in irssi' \ irssi : g = fd /\ view'[fd] = <<>>
  <2>1. CASE sendNothing
    BY <1>1, <1>2, <2>1 DEF sendNothing, viewVars, ViewInv, Connected
  <2>2. CASE /\ fd \in DOMAIN clients'
             /\ irssi' = irssi \cup {fd}
             /\ view' = Put(view, fd, <<>>)
    <3>1. DOMAIN view = irssi /\ fd \notin irssi
      BY <1>1, <1>2 DEF ViewInv
    <3>2. /\ DOMAIN view' = irssi'
          /\ view'[fd] = <<>>
          /\ \A g \in irssi : view'[g] = view[g]
      BY <2>2, <3>1 DEF Put
    <3>3. irssi' \subseteq Connected'
      BY <1>1, <1>2, <2>2 DEF Connected
    <3> QED BY <2>2, <3>2, <3>3
  <2>3. \/ sendNothing
        \/ /\ fd \in DOMAIN clients'
           /\ irssi' = irssi \cup {fd}
           /\ view' = Put(view, fd, <<>>)
    BY DEF connects, detected
  <2> QED BY <2>1, <2>2, <2>3
<1>6. ASSUME NEW g \in irssi'
      PROVE  ViewOK(g)'
  <2>1. CASE g \in irssi
    BY <1>1, <1>3, <1>4, <1>5, <2>1 DEF ViewOK, WindowOK
  <2>2. CASE g \notin irssi
    <3>1. DOMAIN <<>> = {}
      OBVIOUS
    <3>2. rooms(g)' = {} /\ DOMAIN view'[g] = {}
      BY <1>3, <1>5, <2>2, <3>1
    <3> QED BY <3>2 DEF ViewOK
  <2> QED BY <2>1, <2>2
<1>7. NoNewGhosts
  <2>1. ASSUME NEW g \in irssi, NEW c \in DOMAIN view[g], NEW n \in ghosts(g, c)'
        PROVE  n \in ghosts(g, c)
    <3>1. c \in DOMAIN channels
      BY <1>4 DEF ViewOK, rooms
    <3>2. \A x \in channels[c].members : clients'[x] = clients[x]
      BY <1>1, <1>2, <3>1
    <3> QED BY <1>1, <1>5, <2>1, <3>2 DEF ghosts, memberNames
  <2> QED BY <2>1 DEF NoNewGhosts
<1> QED BY <1>5, <1>6, <1>7 DEF Kept, ViewInv

LEMMA LeavesViews ==
    ASSUME Tables, ViewInv, NEW f \in Connected, leaves(f)
    PROVE  ViewInv'
<1>1. clients[f].sock = f /\ f \in DOMAIN clients /\ Connected = DOMAIN clients
  BY Registered
<1>2. /\ disconnect(f) \/ quitCmdClient(f)
      /\ partAllChannels(f)
      /\ irssi' = irssi \ {f}
      /\ view' = Restrict(view, irssi')
  BY <1>1 DEF leaves, disconnect, quitCmdClient, forgetClient
<1>3. DOMAIN clients' = DOMAIN clients \ {f}
  BY <1>2, LeaverQuiet DEF Tables
<1> DEFINE emptied == {c \in DOMAIN channels : channels[c].members = {f}}
<1>4. /\ DOMAIN channels' = DOMAIN channels \ emptied
      /\ \A c \in DOMAIN channels \ emptied :
            /\ channels'[c].members = channels[c].members \ {f}
            /\ channels'[c].topic = channels[c].topic
  <2>1. /\ DOMAIN channels' = DOMAIN channels \ emptied
        /\ \A c \in DOMAIN channels \ emptied : channels'[c] = forget(channels[c], f)
    BY <1>2 DEF partAllChannels
  <2>2. \A c \in DOMAIN channels : channels[c] \in ChannelRecord
    BY Registered
  <2>3. \A c \in DOMAIN channels :
           /\ forget(channels[c], f).members = channels[c].members \ {f}
           /\ forget(channels[c], f).topic = channels[c].topic
    BY <2>2 DEF forget, removeMember, removeOperator, removeInvitedMember, ChannelRecord
  <2> HIDE DEF emptied
  <2> QED BY <2>1, <2>3
<1>5. \A g : g # f => rooms(g)' = rooms(g)
  BY <1>4 DEF rooms
<1>6. ASSUME NEW g \in irssi'
      PROVE  ViewOK(g)'
  <2>1. /\ g \in irssi /\ g # f
        /\ view'[g] = view[g]
        /\ rooms(g)' = rooms(g)
    BY <1>2, <1>5 DEF Restrict
  <2>2. \A c \in rooms(g) : WindowOK(view[g][c], c)
    BY <2>1 DEF ViewInv, ViewOK
  <2>3. \A c \in rooms(g) : channels'[c].topic = channels[c].topic
    BY <1>4, <2>1 DEF rooms
  <2> QED BY <2>1, <2>2, <2>3 DEF ViewInv, ViewOK, WindowOK
<1>7. irssi' \subseteq Connected' /\ DOMAIN view' = irssi'
  BY <1>1, <1>2, <1>3 DEF ViewInv, Connected, Restrict
<1> QED BY <1>6, <1>7 DEF ViewInv

LEMMA RenamesViews ==
    ASSUME Tables, ViewInv, NEW f \in Connected, NEW n \in ValidNicks, renames(f, n)
    PROVE  ViewInv'
<1> DEFINE old == clients[f].nick
<1>1. /\ irssi' = irssi
      /\ DOMAIN view' = irssi
      /\ \A g \in irssi : view'[g] = IF g \in {f} THEN read(view[g], clients[g].nick, RPL_NICK(old, n))
                                                 ELSE view[g]
      /\ UNCHANGED channels
      /\ DOMAIN clients' = DOMAIN clients
  BY DEF renames, nickCmdClient, send, hears
<1> HIDE DEF old
<1>2. ASSUME NEW g \in irssi
      PROVE  /\ DOMAIN view'[g] = rooms(g)
             /\ \A c \in rooms(g) : WindowOK(view'[g][c], c)
  <2>1. DOMAIN view[g] = rooms(g) /\ \A c \in rooms(g) : WindowOK(view[g][c], c)
    BY DEF ViewInv, ViewOK
  <2>2. n \in Nicks
    BY NicksAssumption
  <2>3. CASE g = f
    BY <1>1, <2>1, <2>2, <2>3, ReadNick DEF WindowOK
  <2>4. CASE g # f
    BY <1>1, <2>1, <2>4
  <2> QED BY <2>3, <2>4
<1>3. \A g \in irssi : ViewOK(g)'
  BY <1>1, <1>2 DEF ViewOK, WindowOK, rooms
<1> QED BY <1>1, <1>3 DEF ViewInv, Connected

------------------------------------------------------------------------------
(* The theorems.                                                           *)

(* What the windows are joined with is the server's own step.              *)
LEMMA ViewsMessages ==
    ASSUME NEW f \in Connected,
           \/ departs(f)
           \/ \E c \in ChannelNames : commands(f, c)
           \/ \E msg \in Messages : types(f, msg)
    PROVE  handleClientMessage(f)
<1>1. ASSUME NEW c \in ChannelNames, commands(f, c)
      PROVE  channelCommand(f, c)
  BY <1>1 DEF commands, joins, parts, kicks, talks, setsTopic, noWindow, channelCommand
<1>2. CASE departs(f)
  BY <1>2 DEF departs, leaves, renames, handleClientMessage
<1>3. CASE \E msg \in Messages : types(f, msg)
  BY <1>3 DEF types, handleClientMessage
<1> QED BY <1>1, <1>2, <1>3 DEF handleClientMessage

LEMMA ViewsStep ==
    ASSUME [ViewsNext]_<<vars, viewVars>>
    PROVE  [Next]_vars
<1>1. ASSUME NEW fd \in Sockets, connects(fd)
      PROVE  acceptNewConnection(fd)
  BY <1>1 DEF connects
<1>2. ASSUME NEW f \in Connected, lists(f)
      PROVE  UNCHANGED vars
  BY <1>2 DEF lists
<1> QED BY <1>1, <1>2, ViewsMessages DEF ViewsNext, Next, vars

LEMMA CommandsKept ==
    ASSUME Tables, ViewInv, NEW f \in Connected, NEW c \in ChannelNames, commands(f, c)
    PROVE  Kept
<1>1. CASE \E msg \in Messages : talks(f, c, msg)
  BY <1>1, SayKept DEF talks, sendMessageToChannel
<1> QED BY <1>1, JoinKept, PartsKept, KicksKept, SetsTopicKept, NoWindowKept DEF commands

(* Windows follow the channels, and only a departure leaves a ghost.       *)
LEMMA ViewInvStep ==
    ASSUME "other" \notin Kinds, Tables, ViewInv, [ViewsNext]_<<vars, viewVars>>
    PROVE  ViewInv' /\ (NoNewGhosts \/ \E f \in Connected : departs(f))
<1>1. CASE UNCHANGED <<vars, viewVars>>
  <2>1. ViewInv'
    BY <1>1 DEF vars, viewVars, ViewInv, ViewOK, WindowOK, rooms, Connected
  <2>2. NoNewGhosts
    BY <1>1 DEF vars, viewVars, NoNewGhosts, ghosts, memberNames
  <2> QED BY <2>1, <2>2
<1>2. ASSUME NEW f \in Connected, departs(f)
      PROVE  ViewInv'
  BY <1>2, LeavesViews, RenamesViews DEF departs
<1>3. ASSUME NEW fd \in Sockets, connects(fd)
      PROVE  Kept
  BY <1>3, ConnectsKept
<1>4. ASSUME NEW f \in Connected, NEW c \in ChannelNames, commands(f, c)
      PROVE  Kept
  BY <1>4, CommandsKept
<1>5. ASSUME NEW f \in Connected, NEW msg \in Messages, types(f, msg)
      PROVE  Kept
  BY <1>5, TypesKept
<1>6. ASSUME NEW f \in Connected, lists(f)
      PROVE  Kept
  BY <1>6, ListsKept
<1> QED BY <1>1, <1>2, <1>3, <1>4, <1>5, <1>6 DEF ViewsNext, Kept

(* Names stay apart and are not empty: newcomers are assumed to take a     *)
(* free one, and NICK tests it.                                            *)
LEMMA NamesStep ==
    ASSUME "other" \notin Kinds, Tables, [ViewsNext]_<<vars, viewVars>>, IInv'
    PROVE  NickOwnership' /\ Named'
<1>1. Connected = DOMAIN clients
  BY Registered
<1>2. \A f \in DOMAIN clients' : clients'[f].nick \in Nicks \cup {NoNick}
  BY DEF IInv, ClientsOK, ClientRecord
<1>3. CASE UNCHANGED vars
  BY <1>3 DEF vars, NickOwnership, Named, Connected, Tables
<1>4. ASSUME NEW fd \in Sockets, connects(fd)
      PROVE  TakesFree /\ Named'
  <2>1. /\ fd \notin DOMAIN clients
        /\ DOMAIN clients' \subseteq DOMAIN clients \cup {fd}
        /\ \A g \in DOMAIN clients : clients'[g] = clients[g]
        /\ fd \in DOMAIN clients' =>
              clients'[fd].nick \notin nicknames \cup {NoNick}
    BY <1>4 DEF connects, acceptNewConnection, accept, detectClient, parsingDataNetcat,
                parsingDataIrssi, registrationAborted, refused, addUser, Put, takesFreeName
  <2>2. \A g \in Sockets : acceptNewConnection(g) => g \notin DOMAIN clients
    BY DEF acceptNewConnection, accept
  <2> QED BY <1>1, <1>2, <2>1, <2>2 DEF TakesFree, Named, Connected, Tables
<1>5. ASSUME NEW f \in Connected, handleClientMessage(f)
      PROVE  TakesFree /\ Named'
  <2>1. /\ DOMAIN clients' \subseteq DOMAIN clients
        /\ \A g \in DOMAIN clients' :
              clients'[g].nick = clients[g].nick \/ clients'[g].nick \in ValidNicks
    <3>1. CASE disconnect(f) \/ quitCmdClient(f)
      BY <3>1, LeaverQuiet DEF Tables
    <3>2. CASE \E n \in ValidNicks : nickCmdClient(f, n)
      BY <1>1, <3>2, Registered DEF nickCmdClient, ClientRecord
    <3>3. CASE ChannelStep
      BY <3>3, QuietStep DEF QuietClients
    <3> QED BY <1>5, <3>1, <3>2, <3>3, CommandCases DEF Tables
  <2>2. TakesFree
    BY <2>1 DEF TakesFree, acceptNewConnection, accept
  <2>3. Named'
    BY <1>1, <2>1, NicksAssumption DEF Named, Connected, Tables
  <2> QED BY <2>2, <2>3
<1>6. \/ UNCHANGED vars
      \/ \E fd \in Sockets : connects(fd)
      \/ \E f \in Connected : handleClientMessage(f)
  BY ViewsMessages DEF ViewsNext, lists
<1> QED BY <1>3, <1>4, <1>5, <1>6, ViewsStep, OwnershipStep DEF Tables

(* What is known of the tables and of the windows, together.               *)
THEOREM ViewsInvariance ==
    ASSUME "other" \notin Kinds
    PROVE  ViewsSpec => [](Tables /\ ViewInv)
<1>1. ViewsSpec => Spec
  <2>1. ViewsInit => Init
    BY DEF ViewsInit
  <2>2. [ViewsNext]_<<vars, viewVars>> => [Next]_vars
    BY ViewsStep
  <2> QED BY <2>1, <2>2, PTL DEF ViewsSpec, Spec
<1>2. Spec => []IInv /\ []EveryEntryRegistered /\ []DirInv
  BY Invariance, EntriesRegistered, DirectoryInvariance, PTL
<1>3. ViewsInit => NickOwnership /\ Named /\ ViewInv
  BY DEF ViewsInit, Init, NickOwnership, Named, ViewInv, Connected
<1>4. /\ IInv /\ EveryEntryRegistered /\ DirInv
      /\ NickOwnership /\ Named /\ ViewInv
      /\ [ViewsNext]_<<vars, viewVars>>
      /\ IInv'
      => NickOwnership' /\ Named' /\ ViewInv'
  BY NamesStep, ViewInvStep DEF Tables
<1>5. Tables <=> IInv /\ EveryEntryRegistered /\ NickOwnership /\ Named /\ DirInv
  BY DEF Tables
<1> QED BY <1>1, <1>2, <1>3, <1>4, <1>5, PTL DEF ViewsSpec

(* A window is open for exactly the channels the client is in.  Here and   *)
(* below ViewsSpec holds the assumption takesFreeName: an irssi newcomer   *)
(* brings a name that nobody has, which the code does not see to.          *)
THEOREM WindowsOwned ==
    ASSUME "other" \notin Kinds
    PROVE  ViewsSpec => []OwnWindows
<1>1. ViewInv => OwnWindows
  BY DEF ViewInv, ViewOK, rooms, isMember, OwnWindows
<1> QED BY <1>1, ViewsInvariance, PTL

(* The topic a window shows is the topic of the channel, no two clients    *)
(* having one name.                                                        *)
THEOREM TopicsShown ==
    ASSUME "other" \notin Kinds
    PROVE  ViewsSpec => []TopicShown
<1>1. ViewInv => TopicShown
  BY DEF ViewInv, ViewOK, WindowOK, TopicShown
<1> QED BY <1>1, ViewsInvariance, PTL

(* A name outlives its owner in a window only when somebody left the       *)
(* server or changed its name, no two clients having one name.             *)
THEOREM GhostsExplained ==
    ASSUME "other" \notin Kinds
    PROVE  ViewsSpec => GhostsFromDepartures
<1>1. ASSUME Tables, ViewInv, [ViewsNext]_<<vars, viewVars>>,
             NEW f \in irssi \cap irssi',
             NEW c \in DOMAIN view[f] \cap DOMAIN view'[f],
             ghosts(f, c)' \ ghosts(f, c) # {}
      PROVE  \E g \in Connected : departs(g)
  BY <1>1, ViewInvStep DEF NoNewGhosts
<1>2. Tables /\ ViewInv /\ [ViewsNext]_<<vars, viewVars>> =>
        [(\E f \in irssi \cap irssi' :
             \E c \in DOMAIN view[f] \cap DOMAIN view'[f] :
                ghosts(f, c)' \ ghosts(f, c) # {})
         => \E f \in Connected : departs(f)]_<<vars, viewVars>>
  BY <1>1
<1> QED BY <1>2, ViewsInvariance, PTL DEF ViewsSpec, GhostsFromDepartures
==============================================================================
