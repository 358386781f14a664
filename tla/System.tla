-------------------------------- MODULE System --------------------------------
(***************************************************************************)
(* The event loop and the tables together: PollLoop with the commands and  *)
(* IRCServer with the slots its messages come through.  Each module keeps  *)
(* its own state (PollLoop's set of clients is called served here), and a  *)
(* step of the loop that calls a handler is also the handler's step on the *)
(* tables.  What joins the two is the event: which descriptor, and what    *)
(* was read from it.  That both sides then go on agreeing is a property.   *)
(*                                                                         *)
(* It adds what neither has alone: a message read through a slot whose     *)
(* descriptor is closed.  The terminal and the signals, SIGPIPE included,  *)
(* are in PollLoop only.                                                   *)
(***************************************************************************)
EXTENDS Integers, FiniteSets, Sequences, Functions

CONSTANTS
    Sockets, MaxClients, Kinds,                                \* both
    FdsSize, MaxBacklog, Lines,                                \* PollLoop
    Nicks, ValidNicks, ShortNicks, DefaultNick, NoNick,        \* IRCServer
    ChannelNames, Modes, Keys, Topics, Limits, Words, NoticeWords,
    DefaultMaxMembers, DefaultBannedWords, NoKey, NoTopic

VARIABLES
    fds, nfds, i, pc, stage, served, anonymous, shutdown, conn, backlog, line,
    clients, nicknames, channels, channelOrder

Loop   == INSTANCE PollLoop WITH clients <- served
Tables == INSTANCE IRCServer

(* What PollLoop and IRCServer assume of their constants, stated here as   *)
(* well: an instance hands no assumptions on.                              *)
ASSUME LoopAssumption ==
    /\ Sockets \subseteq Nat \ 0..Loop!Listening
    /\ IsFiniteSet(Sockets)
    /\ FdsSize \in Nat /\ FdsSize >= 2
    /\ MaxClients \in Nat /\ MaxBacklog \in Nat
    /\ Loop!NoLine \notin Lines
ASSUME TablesAssumption ==
    /\ ShortNicks \subseteq ValidNicks
    /\ ValidNicks \subseteq Nicks
    /\ DefaultNick \in Nicks
    /\ NoNick \notin Nicks
    /\ NoKey \notin Keys
    /\ NoTopic \notin Topics
    /\ Limits \subseteq Int
    /\ DefaultBannedWords \subseteq Words
    /\ DefaultMaxMembers \in Nat \ {0}

loopVars ==
    <<fds, nfds, i, pc, stage, served, anonymous, shutdown, conn, backlog, line>>
tableVars == <<clients, nicknames, channels, channelOrder>>
vars == <<loopVars, tableVars>>

------------------------------------------------------------------------------
(* The loop goes on to the next slot with POLLIN in one step: PollLoop's   *)
(* skip, repeated.  What peers do in between is not looked at.             *)
skipAll ==
    /\ Loop!atSlot /\ ~ fds[i].pollin
    /\ i' \in i + 1..nfds
    /\ \A j \in i..i' - 1 : ~ fds[j].pollin
    /\ i' < nfds => fds[i'].pollin
    /\ UNCHANGED <<fds, nfds, pc, stage, served, anonymous, shutdown, conn, backlog, line>>

(* Steps of the loop and of the peers that call no handler.                *)
idle ==
    /\ ~ Loop!ended
    /\ \/ Loop!connect
       \/ \E fd \in Sockets : Loop!send(fd) \/ Loop!hangUp(fd)
       \/ Loop!poll
       \/ skipAll
       \/ Loop!endOfRound
    /\ UNCHANGED tableVars

(* acceptNewConnection.  It stores a default Client under the descriptor;  *)
(* what detectClient makes of it depends on what the newcomer sends.  When *)
(* the process is gone the tables are not looked at any more.              *)
store(fd) == clients' = Tables!Put(clients, fd, [sock |-> fd, nick |-> DefaultNick])

newcomerTable(fd) ==
    IF pc' = "dialogue" THEN store(fd) /\ UNCHANGED nicknames
    ELSE IF fd \in anonymous' THEN Tables!leftUnregistered(fd)
    ELSE IF fd \in served' THEN Tables!parsingDataIrssi(fd)
    ELSE UNCHANGED <<clients, nicknames>>

isServerFull == Cardinality(DOMAIN clients) >= MaxClients

acceptNewConnection ==
    /\ Loop!acceptNewConnection
    /\ isServerFull <=> UNCHANGED <<nfds, pc>>
    /\ IF nfds' = nfds THEN UNCHANGED <<clients, nicknames>>
                       ELSE newcomerTable(fds'[nfds].fd)
    /\ UNCHANGED <<channels, channelOrder>>

(* The dialogue goes on, ends with a name, or ends with the newcomer gone: *)
(* addUser files it under empty names and detectClient erases it.          *)
dialogue ==
    LET fd == Loop!newcomer IN
    /\ Loop!dialogue
    /\ IF pc' = "dialogue" THEN UNCHANGED <<clients, nicknames>>
       ELSE IF fd \in served' THEN Tables!parsingDataNetcat(fd)
       ELSE /\ nicknames' = nicknames \cup {NoNick}
            /\ clients' = Tables!Erase(clients, {fd})
    /\ UNCHANGED <<channels, channelOrder>>

------------------------------------------------------------------------------
(* handleClientMessage(fds[i].fd, _clients[fds[i].fd]).                    *)

(* Any command but a QUIT that closes the connection.                      *)
commandFaulty(fd) ==
    /\ nicknames' = Tables!removeNickname(clients[fd].nick)
    /\ UNCHANGED <<clients, channels, channelOrder>>
command(fd) ==
    \/ \E n \in ValidNicks : Tables!nickCmdClient(fd, n)
    \/ \E c \in ChannelNames : Tables!channelCommand(fd, c)
    \/ \E msg \in Tables!Messages : Tables!handleUnknownCommand(fd, msg)
    \/ fd \in anonymous /\ Tables!quitCmdClient(fd)
    \/ UNCHANGED tableVars

(* A slot left over lists a closed descriptor that is in no table, or one  *)
(* that an earlier slot closed a moment ago.  operator[] makes a default   *)
(* Client; recv fails; and the end of the connection is done for it, whose *)
(* name is "nickname" and whose socket is -1.                              *)
readClosedFaulty(fd) ==
    /\ Tables!partAllChannels(Tables!NoSocket)
    /\ clients' = Tables!Put(clients, fd, Tables!Default)
    /\ nicknames' = Tables!removeNickname(DefaultNick)
readClosed(fd) ==
    /\ Tables!partAllChannels(Tables!NoSocket)
    /\ clients' = Tables!Touch(clients, Tables!noticeTouches(Tables!NoSocket))
    /\ nicknames' = Tables!removeNickname(DefaultNick)

(* The end of a connection: no data, or an error.                          *)
endOfDataFaulty(fd) == readClosed(fd)
endOfData(fd) ==
    IF fd \in DOMAIN clients THEN Tables!disconnect(fd) ELSE readClosed(fd)

handleClientMessage ==
    LET fd == fds[i].fd IN
    /\ Loop!handleClientMessage
    /\ IF ~ conn[fd].data THEN endOfData(fd)
       ELSE IF fd \in served' THEN command(fd)
       ELSE Tables!quitCmdClient(fd)

------------------------------------------------------------------------------
Init == Loop!Init /\ Tables!Init

Next == idle \/ acceptNewConnection \/ dialogue \/ handleClientMessage

Spec == Init /\ [][Next]_vars

------------------------------------------------------------------------------
(* Properties                                                              *)

(* The loop and the tables agree on who is connected, after any sequence   *)
(* of arrivals, refusals, swapped slots and reads of closed descriptors.   *)
TablesAgree ==
    /\ Tables!Connected = served
    /\ anonymous = {f \in served : clients[f].sock = Tables!NoSocket}
    /\ ~ Loop!ended => \A f \in served : conn[f].open

(* A newcomer is no client before its dialogue has ended.                  *)
settled ==
    IF pc = "dialogue" THEN Tables!Erase(clients, {Loop!newcomer}) ELSE clients
Settled == INSTANCE IRCServer WITH clients <- settled

leftoverSlot == nfds > 2 + Cardinality(served)

(* What the commands do to the tables when they come through the slots is  *)
(* what IRCServer says: a message is from a client that is connected, the  *)
(* newcomer gets the lowest number that is free, and so on.  The exception *)
(* is a closed descriptor read through the slot that a refused client left *)
(* behind, and it only frees the default name and takes -1 from channels.  *)
TablesBehave ==
    /\ Settled!Init
    /\ [][\/ Settled!Next
          \/ leftoverSlot /\ readClosed(fds[i].fd)]_(Settled!vars)

(* A client that stays keeps its name reserved, except against a namesake  *)
(* that leaves or renames itself (irssi clients are not asked for a free   *)
(* name), after its own QUIT when it is unregistered and so not closed,    *)
(* and, if it is called "nickname", against the read of a closed slot.     *)
OnlyNamesakesFree ==
    [][\A f \in DOMAIN settled \cap DOMAIN settled' :
          LET n == settled[f].nick IN
          /\ settled'[f].nick = n
          /\ n \in nicknames /\ n \notin nicknames'
          => \/ \E g \in DOMAIN settled \ {f} : settled[g].nick = n
             \/ f \in anonymous /\ fds[i].fd = f
             \/ n = DefaultNick /\ leftoverSlot]_vars

(* No channel lists the descriptor of a client that is gone, whatever slot *)
(* its end was read through.                                               *)
NoStaleSocket == Tables!NoStaleSocket

(* No client is ever without a slot, and no descriptor stays open without  *)
(* a client, whatever slots refused irssi clients leave behind and others  *)
(* with that number then have twice.                                       *)
EveryClientPolled == Loop!EveryClientPolled
==============================================================================
