# TLA+ models of the ft_irc server

The program is an IRC server in C++98 for two kinds of clients, netcat and
irssi. It is one process and one thread: `Server::startServer` calls `poll`
once a second at most, `handlePollEvents` walks the array `fds[]`, and each
ready descriptor is served by a handler that runs to its end. Nothing is
stored on disk. What is hard about it is not parallelism inside the process but
the order in which clients act on shared tables, descriptors that are closed
and used again, tables that must agree with one another, and blocking reads in
a loop that serves everybody.

## 1. Inventory

### Components

| component | source | state | operations |
|---|---|---|---|
| Channel class | `includes/Channel.hpp`, `Commands/channel.cpp`, parts of `mode_o.cpp`, `invite.cpp`, `bot.cpp` | members, operators, invited (vectors of descriptors), topic, key, `_topicRight`, limit, `_inviteOnly`, banned words | add, remove and test in each list, setters |
| Client directory | `Server::_clients` (descriptor to `Client`), `_nicknames` (set) | who is connected, under which descriptor and name | `acceptNewConnection`, `addUser`, `NICK`, `QUIT`, end of a connection, and every `_clients[fd]`, which inserts a default `Client` when there is none |
| Registration | `Registration/*.cpp`, `Server/irssi.cpp`, `Pass.cpp`, `Client.cpp` | dialogue with the newcomer; writes the directory | `detectClient`, `parsingDataIrssi`, `parsingDataNetcat`, `checkPassword`, `setUserName`, `setNickName` |
| Channel directory | `Server::_channels` (map), `_channelOrder` (names, oldest first) | which channels exist | `createChannel`, four places that destroy |
| Membership commands | `join.cpp`, `part.cpp`, `kick.cpp`, `invite.cpp` | through Channel | `JOIN`, `PART`, `KICK`, `INVITE`, `partAllChannels` |
| Channel modes, topic | `Commands/mode/*.cpp`, `topic.cpp` | through Channel | `MODE +-itklob`, `TOPIC` |
| Bot | `bot.cpp` | the channel's banned words | expels the author of a banned word, destroys the channel this empties |
| Messages | `privMsg.cpp`, `AllCommands.cpp`, `channelMsg.cpp` | none, but a broadcast may insert entries in `_clients` | `PRIVMSG` to channels and users, text that is no command |
| Event loop | `Server/Server.cpp` | `fds[1024]`, `nfds`, `poll_count` | `poll`, `handlePollEvents`, capacity test |
| Shutdown and signals | `Server.cpp`, `Utils.cpp` | `_shutdown_signal` | `/STOP`, SIGINT, SIGQUIT, SIGTSTP |
| Framing and tokenising | `handleClientMessage`, `parseClientMsg`, `Utils.cpp` | none: nothing is kept from one `recv` to the next | `recv`, the tests of the length, `split`, `trim`, `splitComa`, putting a PRIVMSG together again |
| Read-only commands | `list.cpp`, `help.cpp`, `ping.cpp` | none | answer the sender |
| Replies | `RPL.cpp`, `RPL.hpp`, `SendMsg.hpp` | none in the server; an irssi client keeps windows by them | texts |
| Program entry | `main.cpp` | none | argument checks |

### How they interact

* The event loop calls `acceptNewConnection` or `handleClientMessage`.
  Both run to completion; a netcat registration is a whole dialogue inside
  `acceptNewConnection`.
* Channels know their members by descriptor only. Names and descriptors are
  resolved through `_clients`, with `find` in a few places and with
  `operator[]`, which inserts, in the others.
* `_nicknames` repeats the names that are in `_clients`, `_channelOrder` the
  names that are in `_channels`; every command keeps both sides in step by
  hand.
* Whoever leaves is removed from the channels by `partAllChannels` (QUIT, end
  of connection), by `executeKick` (KICK), or as a member only by PART and by
  the bot.

### What is hard, and what makes each part correct

| hazard | property |
|---|---|
| a descriptor is reused by the next client while a channel still lists it | `NoStaleSocket`, `FreshSocketInheritsNothing` |
| `operator[]` makes an entry up, which counts as a client and has a name | `EveryEntryRegistered`, `MessagesReachOwner`, `TypeOK` |
| `_nicknames` and the clients' names drift apart | `NicknamesInUse`, `NickOwnership`, `ListTruthful` |
| a name is given back by somebody else than its owner | `OnlyNamesakesFree` |
| `_channels` and `_channelOrder` drift apart | `DirectoryInSync` |
| a channel without members stays, and with +i stays for ever | `OnlyKickEmpties`, `LockedForever` |
| limit and invitation at their boundary | `GrowthAdmitted`, `OnlyLockedIsClosed` |
| operator rights after PART, between members of one name, without a test in MODE o | `OnlyOperatorsChangeSettings`, `OnlyMembersPromoted` |
| descriptors handed out, given up and counted against `_MAX_CLIENTS` | `ImplementsConnections` |
| a slot of `fds[]` lost, doubled or left over when slots are swapped and shifted under the walk; the array written past its end | `SlotsMatchClients`, `EveryClientPolled`, `NeverOverrun` |
| a slot read with the `revents` of another; a blocking read in the loop | `OnlyLastSlotStale`, `NeverBlocked` |
| a command or an end read through a slot whose descriptor is closed, or is somebody else's by now | `TablesAgree`, `TablesBehave` |
| a client skipped for ever, a signal missed or taken for a failure of `poll` | `Served`, `StopObeyed` |
| one `recv` is one command: half a line, two lines, the limits of 307 and 1023 bytes | `WholeLines`, `ImplementsLines` |
| a text is cut up and put together three times, with irssi's colon on the way | `ContentIntact`, `BotJudges`, `BannedWordsPunished` |
| what members are told differs from what happened to the channel | `OwnWindows`, `TopicShown`, `GhostsFromDepartures` |
| a peer is gone when it is sent something; an exception in the middle of a registration | `NeverKilled`, `NeverAborted` |

The list with lines is `hazards` in `PROJECT.json`.

## 2. The modules

| module | models |
|---|---|
| `Channel` | the Channel class: the record, its methods, the admission tests of JOIN |
| `IRCServer` | `_clients`, `_nicknames`, `_channels`, `_channelOrder` and every handler that changes them, the answers of LIST and the search for the recipient of a message; the properties |
| `Views` | `IRCServer` with the replies of each handler and what irssi clients make of them |
| `Connections` | abstract specification: which descriptors are in use |
| `PollLoop` | `fds[]`, `nfds`, the walk over them, accepting, the netcat dialogue, signals and every way the process ends |
| `System` | `PollLoop` and `IRCServer` together: commands and ends of connections come through slots |
| `Text` | pure operators: tokens, the content of a text, the words the bot looks up |
| `Lines` | abstract specification: what a line protocol promises |
| `Framing` | the byte stream of a client against `recv`, one command per call |
| `Delivery` | the sends of the handlers, one by one, to peers that may be gone |
| `MCIRCServer`, `MCViews`, `MCPollLoop`, `MCSystem`, `MCFraming` | values for the constants |
| `Induction` | lemmas: least elements, induction and recursion on numbers, stated with sets |
| `IRCServerProofs` | theorems about the clients and names of `IRCServer` |
| `ChannelProofs` | theorems about what a step of `IRCServer` may do to a channel |
| `DirectoryProofs` | theorems about the map and the list of channels, and about LIST |
| `PollLoopProofs` | theorems about the slots of `PollLoop` and the clients they are for |
| `ViewsProofs` | theorems about the windows of irssi clients |
| `SystemProofs` | theorems about loop and tables together |
| `FramingProofs` | theorems about texts, what the bot makes of them, and careful clients |

`Channel` has no variables: its operators are functions on a record, as the
methods are on an object. `IRCServer` extends it. `Connections` says what the
server promises about its connections and nothing else; `IRCServer` and
`PollLoop` are both shown to implement it, `IRCServer` with the keys of
`_clients` (the made-up -1 apart) and `PollLoop` with the same keys, less the
newcomer whose dialogue goes on. That is how the two detailed modules fit
together: they agree on who connects and leaves, one has the commands in
between and the other the loop that runs them.

**One handler, one action.** An action of `IRCServer` has the name of the
handler and does everything the handler does to the four tables, the entries
its broadcast inserts included (`Touch`). A command that is refused changes no
table and is a stuttering step, so refusals need no action; a handler's guard
is the conjunction of the tests its early returns make. JOIN and PRIVMSG with a
comma list are one step per name: the handlers loop over the list, one target
is finished before the next begins, and the only state carried from one to the
next is in the tables.

**Connecting.** `detectClient` has four outcomes that matter to the rest of the
server: the netcat dialogue ends with a name (`parsingDataNetcat`) or the peer
goes away in it (`registrationAborted`, which leaves the empty name in
`_nicknames`), irssi registers with whatever its NICK line says
(`parsingDataIrssi`), and a connection whose first bytes are anything else is
left with a default `Client` (`leftUnregistered`): descriptor -1, name
"nickname", all commands available. Two more leave nothing behind: an irssi
client with a wrong password is closed again (`refused`), and one whose line PASS
has nothing behind it ends the process (`detectionAborted` of `PollLoop`).
Nothing else can happen during the dialogue, because the server is blocked in
it; so one step is faithful here. `accept` gives the lowest free
descriptor, as POSIX says. The constant `Kinds`
says which kinds of clients a run has, since some properties hold only when
every client registers, or registers through netcat.

**Unregistered clients.** Such a client is filed under its descriptor `f` but
acts as `clients[f].sock = NoSocket`. What its commands do to the key
`NoSocket` of `_clients` is in the model: its JOIN puts -1 in the members, the
notice for it inserts the entry -1, its QUIT erases that entry and not its own.

**Abstractions.** The vectors of a channel are sets: every `push_back` comes
after the matching membership test, so they never hold an element twice. Their
order shows in one place, MODE +o/-o when two members have one name, where the
model allows either. A message is, outside `Text`, the set of its words; names,
keys and topics are members of small sets with the classes the code tells apart
(`ValidNicks` for `checkName`, `ShortNicks` for the nine characters of
registration). Replies are left out of `IRCServer`; `Views` adds those a client
keeps state by. The limit of MODE +l is what `atoi` returns, in the range of
`int` for the texts considered.

**Removal in place.** The bot's answer to plain text gets the channel's name as
a reference to an element of `_channelOrder` and passes it to `std::remove` on
that very list (`bot.cpp:130`). `std::remove` compares each element with a value
it may have overwritten a moment before; `removeInPlace` does what the usual
implementation does, element by element. `DirectoryInSync` says that the
outcome is the right one as long as no name occurs twice.

**The event loop.** `PollLoop` is the thread with its program counter: `poll`
fills in `pollin` of the slots in use, then the walk takes one action for each
slot (`skip`, `readStdin`, `acceptNewConnection`, `handleClientMessage`), and
`endOfRound` tests the flag. `fds` keeps what the code keeps: a slot beyond
`nfds` still holds what was in it, `swapOut` copies the last slot with its
`revents`, `acceptNewConnection` sets the descriptor of slot `nfds` and not its
`revents`. The loop variable is `i`; a handler that removes a slot does not
change it. The netcat dialogue is the only handler that waits for a peer more
than once, so it has a state of its own (`pc = "dialogue"`, `stage`) in which
nothing but `answered` and `abandoned` of the newcomer can happen. A command is
QUIT or leaves the loop's state alone.

`conn` is the kernel's side: a descriptor is open or not, has data or not, its
peer has hung up or not. Sockets are blocking: a handler whose `recv` would not
return has no enabled action, and then no other action of the server is enabled
either. Peers send, hang up and connect at any time, lines are typed and signals
arrive at any time; `poll` interrupted by a handler returns -1, other calls are
restarted (`signal` of the C library sets SA_RESTART, which `poll` ignores).

The capacity test counts the entries of `_clients`, one that `operator[]` made up
included; `madeUpEntry` says when there can be one. The array is written without
any test: at `nfds >= FdsSize` the step of `acceptNewConnection` leads to
`pc = "undefined"`, of which nothing more is said.

**How the process ends.** In four ways (`ended`): `stopServer` after the loop; an
exception nobody catches (`detectionAborted`: `line.substr(pos + 5)` of
`Pass.cpp:10`, for a line that ends with PASS); SIGPIPE (`brokenPipe`); and the
write behind the last slot. `brokenPipe` has every place where two messages to
one peer that hung up may come: the dialogue, whose answers are all but the last
followed by messages to the newcomer, a command or an end of which others are
told or which is answered, and `stopServer`. It is a possibility there and no
count; counting the sends is what `Delivery` is for. After the end the kernel has
closed the sockets, and the tables are nobody's: `Connections` has the step `Stop`.
`System` has the ends that `acceptNewConnection` brings, but neither SIGPIPE nor
signals nor the terminal.

**Where the two meet.** `System` instantiates both modules and keeps the state of
each (the loop's set of clients is called `served` there). A step of the loop that
calls a handler is one conjunction: the loop's action, and the action of
`IRCServer` the event calls for, with the descriptor of the slot that is read.
That both sides then agree on who is connected is not assumed; it is
`TablesAgree`. Three things exist only here:

* `acceptNewConnection` stores a default `Client` before `detectClient` asks
  anything, so during a netcat dialogue `_clients` holds a newcomer that is no
  client yet. `settled` takes it out, and `TablesBehave` says that with this
  mapping the tables change as `IRCServer` allows.
* A refused irssi client leaves a slot whose descriptor is closed. `poll` reports
  it, `_clients[fd]` makes a default entry, `recv` fails, and the end of the
  connection is done for a client called "nickname" with descriptor -1:
  `readClosed`. `TablesBehave` has it as the one exception to `IRCServer`, and
  only while `fds[]` has more slots than clients (`leftoverSlot`).
* The number of a client can be in two slots, so that an end is read and the
  number is free again while the other slot still has `POLLIN`.

The walk over slots without `POLLIN` is one step (`skipAll`), since nothing looks
at the tables in between. The run uses a `VIEW` that leaves out what no step
reads again: `POLLIN` of the slots that were passed, all of it before `poll`
writes it anew, and the descriptor in a slot beyond `nfds`, which a new client
overwrites.

**What clients see.** `Views` joins every handler with the replies that change a
window of an irssi client: JOIN, PART, KICK, TOPIC and NICK lines. `read` is the
client's side, external to the server: a JOIN under its own name opens a window,
a PART or KICK under its own name closes it, the same lines about others add and
remove a name. The list of those who are already in a channel is sent as the
text of a message (`join.cpp`), so a new window has no names in it. QUIT and a
lost connection are told as text too, and NICK to nobody. An irssi client knows
itself by name only, so the module assumes that a newcomer takes a name nobody
has (`takesFreeName`); netcat clients are made to, irssi clients are not asked
(`Parsing.cpp:97`), and with two irssi clients of one name `OwnWindows`,
`TopicShown` and `GhostsFromDepartures` fail: a PART of the one closes the window
of the other. `LIST channel` names the members of all channels with numeric 353,
which irssi adds to the names of a window (`lists`).

**From bytes to commands.** `Text` has the pure part. A text is a sequence of
characters, and a character may stand for a run of letters that is never looked
into ("bad", "PRIVMSG"), so that lengths are short and every colon, comma, blank
and line end is still there. `reconstructedMessage` and `extractMessageContent`
are the round trip of `parseClientMsg` and `privMsgCmdClient`: the tokens are put
together with one colon behind the target, and cut again at the first colon at
or behind the target. `Framing` has the stream: a client writes lines, `recv`
returns any non-empty beginning of what waits that fits its buffer, and what it
returned is a command, an error or nothing, and then forgotten. A *careful*
client is an assumption about the environment: it writes short lines, waits until
one was received before the next, and the network carries each in one piece. That
is what a person at a terminal on a quiet network amounts to, and for them the
server keeps the promise of `Lines`; for the others `WholeLines` fails.

**Sends to peers that are gone.** `Delivery` splits what is one step elsewhere:
`outbox` is the list of sends the running handler still has to do. The kernel's
side is external: a send to a peer that has closed succeeds and is answered with
a reset, the next send after the reset raises SIGPIPE, which the program neither
ignores nor handles. Clients are registered netcat clients in one channel; the
module serves one question, whether peers can end the server.

**Wrong versions.** A definition whose name ends in `Faulty`, or says what goes
wrong (`swapOutNotCopied`, `leaveUnclosed`, `acceptsAnother`), is a plausible
mistake in the definition after it: a missing test, a removal forgotten, `>` for
`>=`. No specification uses one. They show that every property is broken by some
mistake in the code: `mutants` in `PROJECT.json` pairs them.

## 3. The runs

Run one with `tlc -config MCregistry.cfg MCIRCServer`.

| run | instance | states | shows |
|---|---|---|---|
| `registry` | 3 descriptors, all kinds of clients, 1 channel, MODE o | 140 735 | `TypeOK`, `NoStaleSocket`, `NicknamesInUse`, `FreshSocketInheritsNothing`, `ImplementsConnections` |
| `directory` | 2 netcat clients, 4 names, 3 channels, no modes | 136 178 | `DirectoryInSync`, `NickOwnership`, `ListTruthful`, `MessagesReachOwner` |
| `modes` | 2 registered clients, 1 channel, all modes | 146 637 | `OnlyLockedIsClosed`, `EveryEntryRegistered`, `LockedForever`, `GrowthAdmitted`, `OnlyOperatorsChangeSettings`, `OnlyMembersPromoted`, `OnlyKickEmpties` |
| `views` | 3 irssi clients (or like netcat, without USER), 3 names, 1 channel | 165 051 | `OwnWindows`, `TopicShown`, `GhostsFromDepartures` |
| `loop` | 3 descriptors, places and slots for 2, all kinds but refused, typed lines, fairness | 210 888 | `TypeOK`, `SlotsMatchClients`, `NeverOverrun`, `OnlyLastSlotStale`, `ImplementsConnections`, `Served`, `StopObeyed` of `PollLoop` |
| `system` | 2 descriptors, all kinds, 2 names, 1 channel for one, 4 slots | 455 602 | `TablesAgree`, `NoStaleSocket`, `EveryClientPolled`, `TablesBehave`, `OnlyNamesakesFree` |
| `lines` | 1 client, careful or not, 7 lines, every cut | 51 356 | `ContentIntact`, `BotJudges`, `ImplementsLines` |

* **registry.** With three descriptors one client can leave, another can get its
  number, and a third can have kept the channel alive in between; that is the
  whole story of an inherited right. `MaxClients = 3` with unregistered clients
  lets the made-up entry -1 fill the server, which `TypeOK` and
  `NoStaleSocket` survive.
* **directory.** Four names: one that is the default, one plain, one `checkName`
  accepts and registration does not, one `checkName` refuses. Three channels are
  the least for which a list rewritten in place can go wrong in the middle: the
  name that is removed has one before it and one after. Keys, topics and modes
  are left out; they do not touch these containers.
* **modes.** Limits 0, 1 and 2 against at most two members: refused, reached
  and lowered under the count; `DefaultMaxMembers = 2` instead of 10 is never
  outgrown by two clients unless it is lowered. One key, one topic, two words:
  the code compares them with each other and with nothing else. One word is
  banned from the start, the other is a word of the leave notice, which an
  operator may ban with +b, so that the notice of a QUIT itself contains a
  banned word. A channel that KICK emptied is the boundary case of JOIN:
  `LockedForever` and `OnlyLockedIsClosed` together say that it is closed if and
  only if it is +i with nobody invited.
* **views.** Three clients, so that of two who watch one may watch the other
  leave. `DefaultMaxMembers = 2` puts the limit within reach. Two of the names
  may be exchanged without changing anything, which the run uses (`SYMMETRY`; its
  properties are safety properties).
* **loop.** Two clients: a removal moves the other client's slot under the index
  that was passed, so that it has to wait for the next round, and a newcomer of
  the same round takes over what was left behind the last slot. One descriptor
  more than there are places, so that the test of `_MAX_CLIENTS` decides and not
  the lack of descriptors. `FdsSize = 4` is exactly what two clients need.
* **system.** Four slots are the two fixed ones and two more: two clients, or one
  and a slot that a refused one left behind, or a client listed twice. That is
  enough for an end read through one slot while the other still lists the number,
  and for the client whose number is listed twice to keep a slot when one of them
  goes (`EveryClientPolled`). Each refused client takes a slot for good; when a
  third one would be written behind the last, the process is in the state
  "undefined" and the behaviour ends. A channel for one member is created, entered
  and destroyed; the names are the default one, which reads of closed slots free,
  and one other.
* **lines.** Seven lines: a text command in the form of either client, one with
  two targets and a word added by +b, one whose channel has a colon in its name,
  plain text with an added word and with a phrase of the list, and another
  command. `MaxPending = 12` holds the longest of them with the beginning of the
  next; the limits 10 and 12 stand in the order of the code's 307 and 1024, and
  there is a line of exactly 10. A `MaxSizeMsg` over `MaxTopicSize` is what the
  code has (350 and 307), so the error for it is never sent; `SizesAssumption`
  says so. One client is enough, because nothing passes from the stream of one to
  that of another.

The clients of `IRCServer` can always vanish and connect again, so deadlock is
checked in its runs, in `views` and in `lines`. The event loop ends, so the runs
of `PollLoop` and `System` do not check it; nor does `vanished`, where all may have left.
`MaxBacklog = 1`: the loop accepts one connection in a round and looks at
nothing but whether there is one.

### Where the code does otherwise than its texts say

Each of these runs stops with a counterexample.

| run | statement | what happens |
|---|---|---|
| `blocked` | subject p. 6: several clients at once, without ever blocking | a netcat newcomer says nothing; `checkPassword` waits for it in `recv` (`Authentification.cpp:16`), a registered client that sends is not served, `/STOP` is not read |
| `fragments` | subject p. 7: to process a command, first put it together from the packets received | one `recv` returns the beginning of a line and `parseClientMsg` takes it for a command (`Parsing.cpp:6-57`); the rest is the next command |
| `vanished` | subject p. 3: the program must in no case crash nor stop unexpectedly | one client sends a JOIN and closes; the JOIN is answered with several messages, the first is answered with a reset and a later one raises SIGPIPE (`Client.cpp:50` and the sends of the handlers have no MSG_NOSIGNAL). It takes one client; members that close together do as well, since each end that is read is told to the others. The compiled server does exit with signal 13 |
| `aborted` | the same sentence | an irssi client whose line PASS has nothing behind it: `substr(pos + 5)` throws `out_of_range` (`Pass.cpp:10`), and nothing from `detectClient` (`Parsing.cpp:137`) to `main` catches it |
| `unpunished` | README l. 219-222: if a forbidden word is detected, the user is kicked; +b adds words | three texts with an entry of the lists in them for which nobody is expelled, each a counterexample alone: `:odd` of irssi for the added word `odd`, since only the built-in words are stored with a colon (`channel.cpp:181`); `bad` in a channel `#a:b`, because the text is cut at the name's colon and `b` glued to the word (`privMsg.cpp:15`); `blow job`, which is looked up as two words (`bot.cpp:44`). `BotJudges` says what does hold |

Seen while reading, and in the model as the code has it, without a run of its
own:

* KICK of the last member leaves an empty channel (`kick.cpp:20`), where the bot
  looks (`bot.cpp:77`); `OnlyKickEmpties` and `LockedForever` show what follows.
* irssi registers under a taken name (`Parsing.cpp:97`); KICK, INVITE and
  messages then reach the lower descriptor.
* MODE +o has no operator test (`mode_o.cpp:40`), although the comment at its
  head says operators grant the status: a member promotes itself, also in a
  channel that has an operator. What remains true is `OnlyMembersPromoted`, and
  no property says who grants.
* `fds` is written without a look at its length (`Server.cpp:91`). `NeverOverrun`
  holds for 1024 slots and 20 clients when no irssi client is refused
  (`SlotsSuffice`); refused ones leave their slots, are not counted, and so in the
  end it fails: TLC finds it with `Kinds = {"refused"}` at once.
* A newcomer's slot keeps the `revents` of its predecessor (`Server.cpp:91`), so
  it may be read in the round it came in, and the loop waits for it: a second
  cause for `NeverBlocked` to fail. A send to a peer that does not read would be a
  third; the model's sends never wait.
* QUIT of an unregistered client gives its name back and closes nothing.
* The read of a slot that a refused client left behind gives back the name
  "nickname", whoever has it.
* A netcat client's private message to an irssi client is sent without the colon
  before the text (`privMsg.cpp:45`), so that irssi shows its first word.
* `MODE -l` changes nothing although `mode_l.cpp` and HELP say it removes the
  limit; `TOPIC #c :` does not clear the topic; KICK asks for an operator but not
  for a member; an invitation is not used up by the JOIN it admits.
* NICK accepts names of fifteen characters where registration and `NICKLEN=9`
  (`RPL.cpp:25`) say nine.
* A connection whose first bytes are not `CAP LS` may join channels as
  descriptor -1, where no message reaches it.
* SIGTSTP, which its handler says is ignored (`Utils.cpp:49`), makes `poll`
  return -1 and so ends the server (`Server.cpp:142`).

## 4. Fairness

Only `PollLoop` has fairness; the other modules state safety. `PollLoop` has
`FairSpec == Spec /\ WF_vars(Server)`: the one thread goes on whenever one of its
actions is possible, which is what a process that is scheduled does. Peers, the
terminal and signals are under no obligation: nobody has to send, answer, hang up
or type.

Under that fairness alone the server owes nobody anything, since a newcomer that
is silent stops it for good (`NeverBlocked` is violated). So `Served` and
`StopObeyed` say what remains: *if* the loop goes round again and again
(`[]<>(pc = "poll")`), then whoever has something to be read is read, however
often its slot is moved or skipped, and the loop does not go round for ever after
a stop. Both would fail if a slot were lost (`swapOutNotCopied`) or the flag not
tested (`endOfRoundFaulty`).

## 5. Proofs

`tlapm M.tla` checks module M, for each of the modules with Proofs in their name
and `Induction`. Whatever is proved holds for every number of descriptors, names,
channels and words, every `MaxClients` and every size of `fds[]`.

### From what

The modules name their assumptions and TLC evaluates them in every run.

* `IRCServer`: descriptors are naturals (so none is -1) and finitely many,
  `MaxClients` is a natural number, `ShortNicks` is within `ValidNicks` within
  `Nicks`, the default name is a name and the empty one is not, limits are
  integers, the built-in banned words are words. `Channel`: the default limit is
  positive.
* `PollLoop`: a descriptor is none of the listening socket and the terminal,
  `fds[]` has places for these two (`FdsSizeAssumption`), `MaxClients` and the
  bound on the backlog are natural numbers (`BoundsAssumption`).
* `System`: the assumptions of both (`LoopAssumption`, `TablesAssumption`).
* `Text`: the name PRIVMSG has no colon; the built-in words of the bot are not
  empty and begin with none, as the list in `channel.cpp:160` shows. `Framing`:
  what is typed is a sequence of characters, and MAX_TOPIC_SIZE (307) is less
  than MAX_SIZE_MSG (350) and than what the buffer holds (1023).

Some theorems have a hypothesis on `Kinds`, the kinds of clients that connect.
It is there because without it the property fails: TLC finds the counterexample
when the kind is added to the run that checks it.

| hypothesis | because otherwise |
|---|---|
| every client is a netcat client (`Kinds = {"netcat"}`) | irssi registers under a name that is taken |
| every client registers (`"other" \notin Kinds`) | the unregistered ones are all called "nickname" and act as descriptor -1, which `operator[]` makes an entry for |
| no irssi client is refused (`"refused" \notin Kinds`) | the refused one leaves its slot behind |

`SlotsSuffice` also needs `MaxClients + 2 <= FdsSize`, which is 22 and 1024 in the
code. The theorems about windows also rest on `takesFreeName`, which is part of
the specification `ViewsSpec`, and are about clients that do so: the code asks it
of netcat clients only.

### What

| module | theorem | says | when |
|---|---|---|---|
| `IRCServerProofs` | `Invariance` | `[]IInv` | |
| | `TypeCorrect` | `[]TypeOK` | |
| | `NoStaleSockets` | `[]NoStaleSocket` | |
| | `FreshSocket` | `FreshSocketInheritsNothing` | |
| | `NamesInUse` | `[]NicknamesInUse` | |
| | `ConnectionsImplemented` | `ImplementsConnections` | |
| | `EntriesRegistered` | `[]EveryEntryRegistered` | every client registers |
| | `NamesOwned` | `[]NickOwnership` | netcat only |
| | `MessagesDelivered` | `[]MessagesReachOwner` | netcat only |
| `ChannelProofs` | `SettingsGoverned` | `OnlyOperatorsChangeSettings` | |
| | `MembersPromoted` | `OnlyMembersPromoted` | |
| | `GrowthIsAdmitted` | `GrowthAdmitted` | |
| | `EmptiedByKick` | `OnlyKickEmpties` | |
| | `LockedStaysLocked` | `LockedForever` | |
| | `OthersAreOpen` | `[]OnlyLockedIsClosed` | |
| `DirectoryProofs` | `DirectorySynced` | `[]DirectoryInSync` | |
| | `ListsTruthful` | `[]ListTruthful` | netcat only |
| `PollLoopProofs` | `LoopInvariance` | `[]IInv` | |
| | `ClientsPolled` | `[]EveryClientPolled` | |
| | `LoopImplementsConnections` | `ImplementsConnections` | |
| | `SlotsMatch` | `[]SlotsMatchClients` | none refused |
| | `SlotsSuffice` | `[]NeverOverrun` | none refused, `MaxClients + 2 <= FdsSize` |
| | `OnlyLastStale` | `[]OnlyLastSlotStale` | none refused |
| `ViewsProofs` | `WindowsOwned` | `[]OwnWindows` | every client registers |
| | `TopicsShown` | `[]TopicShown` | every client registers |
| | `GhostsExplained` | `GhostsFromDepartures` | every client registers |
| `SystemProofs` | `SystemInvariance` | `[](SystemInv \/ Over)` | |
| | `Agreement` | `[]TablesAgree` | |
| | `ClientsPolled` | `[]EveryClientPolled` | |
| | `NoStaleSockets` | `[]NoStaleSocket` | |
| | `TablesImplemented` | `TablesBehave` | |
| | `NamesakesFree` | `OnlyNamesakesFree` | |
| `FramingProofs` | `LineInvariance` | `[]LineInv` | |
| | `ContentsIntact` | `[]ContentIntact` | |
| | `BotIsJust` | `[]BotJudges` | |
| | `LinesImplemented` | `ImplementsLines` | |

### How

**Clients and names.** `NoStaleSocket` says that the descriptors in the channels
are the descriptors of clients. It is not inductive: to preserve it across QUIT
one must know that no *other* entry carries the leaver's descriptor, and across a
command that the descriptor `findUserSocket` or the MODE o search returns is one
of a connection. So the invariant `IInv` has three parts:

* `ClientsOK`: the entries are well typed and each is filed under the
  descriptor it holds, or holds the default record; the made-up entry -1 holds
  the default one.
* `NamesOK`: a taken name is one of `Nicks` or the empty name. That it is the name
  of a connection is an invariant on top of `IInv`, the theorem `NamesInUse`.
* `ChannelsOK`: each channel is well typed and its three lists mention only
  descriptors of connections.

The steps fall in three groups. Connecting adds an entry and leaves the
channels alone (`AcceptOK`); a free descriptor is in no channel, which is also
`FreshSocket`. Leaving runs `partAllChannels`, which takes the descriptor out of
every list of every channel and so lets its entry go (`LeaveOK`, with
`PartAllOK`; `DisconnectOK` and `QuitOK` differ in what they erase). The channel
commands all do one of three things to one channel: put a record whose lists
still mention connections only, destroy it, or leave it, and touch entries of
members; this is the predicate `ChannelStep`, and one lemma `ChannelStepOK`
serves fourteen commands. `Touch` inserts nothing but the entry -1, since every
other member has its entry (`TouchOK`).

`NamesInUse`, `EntriesRegistered` and `NamesOwned` are further inductions on top of
`IInv`.
When every connection registers, no member is -1, so `Touch` inserts nothing at
all. When all register through netcat, a new name is taken from outside
`_nicknames`, and the name given back is nobody else's.
`MessagesDelivered` follows from the two: one entry to a name, and none made up.

`ConnectionsImplemented` maps every step of `IRCServer` to a `Connect`, a
`Disconnect` or a stutter of `Connections`. Its two difficulties are what
`operator[]` does to the set of keys: `TouchedConnections` shows that the entries
a broadcast inserts are no connections, which needs `IInv`, and `RoomOK` that a
test on the size of the map, made-up entry included, is a test on the number of
connections.

**What a step may do to a channel.** The five action properties of
`ChannelProofs` need no invariant but a complete list of the ways a channel
changes: `Change` names nine (entered, parted, forgotten, kicked, invited, reset
by MODE, operator given or taken, retitled, the same), each with the guard the
handler tests. `StepChanges` goes through the handlers once and shows that
whatever a step does to a channel is in the list, that a channel that goes had a
member, and that one that comes has one. The properties are then read off the
list: only `Entered` adds a member, and it carries the admission tests; only
`Kicked` leaves none; an empty channel under +i has nobody who could be let in,
invite, or set a mode. `OthersAreOpen` is the other side, and an invariant: an
emptied channel that is not locked has room, since no record has a limit under 1,
and whoever is on its list of invitations is connected, by `NoStaleSocket`; that
is all the tests of JOIN ask of somebody who knows the key.

**The two containers of channels.** `DirInv` says that `_channelOrder` lists the
keys of `_channels`, each once; most steps append a new name or remove one.
The difficulty is the removal: `removeFromOrder` and `removeInPlace` are
recursive functions along the list, and the second reads the name to be removed
from the list while it rewrites it. Their lemmas are inductions over the length
of the list. The induction theorems of the library take an operator as a
parameter and cannot be used; `Induction` states instead that a *set* of numbers
with 0 and closed under the successor has all of them, and that a *function* on
`0..n` can be given by its first value and a step, both from the existence of a
least element. `RemoveInPlaceLists` has the closed form of the list after k
rounds of `std::remove` (the names before the removed one, then the others one
place further on) and shows that as long as no name occurs twice, the value
under the reference is overwritten only after the one element that is equal to
it was passed.

`ListsTruthful` joins five invariants: names are those of clients and each client
has one of its own, so the map from members to names loses none, and the list of
channels is the map of channels.

**The slots.** The loop's `IInv` holds whatever connects: slots 0 and 1 are the
listening socket and the terminal, every client has a slot, every open descriptor
is a client's as long as the process runs, and during a dialogue the newcomer is
in the last slot and has the lowest free descriptor, so that `abandoned`, which
goes by the last slot, takes out the newcomer and nobody else. `ShiftOutOK` and
`SwapOutOK` show that the two ways of taking a slot out (shifting the rest down;
copying the last over it) keep all others. When no irssi client is refused,
`SlotInv` says more: the slots list each client once, and those not passed yet,
the last one apart, are ready if they say so. The last is the exception because a
newcomer takes over the `revents` of whatever slot was there before.
`SlotsSuffice` follows: as many slots as clients and two more, and `isServerFull`
is tested before the write. In the type invariant `nfds <= FdsSize` is no promise
of the code's: where it would fail the behaviour ends in `pc = "undefined"`, so
that `IInv` says what is true up to that moment and `NeverOverrun` that it does
not come.

`LoopImplementsConnections` needs both halves of the dialogue: `accept` alone is a
stutter, the last answer is the `Connect`, and it takes the lowest free descriptor
because nothing else ran in between.

**Windows.** `ViewInv` says that an irssi client has a window for exactly the
channels it is in, with the channel's topic. It stands on what is known of the
tables (`Tables`: entries are registered and have names of their own, each
channel listed once), because a client recognises itself by its name: a KICK of
another client of that name would close the wrong window. That names are unique
is proved here from `takesFreeName`, the assumption `Views` makes of newcomers,
and not from the kinds. Each command's lemma has two halves: whose membership it
changes (`PutOut`, `Stay`, ...) and what the lines it sends do to the windows
(`ShowsFarewell`, `ShowsJoin`, ...). Without the hypothesis the theorems are false,
as TLC shows: an unregistered client joins as -1, and its JOIN line puts its own
name into the windows while the channel lists the made-up entry, whose name is
"nickname". LIST adds to a window only the names of members (`lists`), which are
no ghosts.

**Loop and tables.** `SystemInv` is the conjunction of both invariants and what
joins them (`Agree`: the connections of the tables are the clients the loop
serves, the unregistered ones the same; `AtDoor`: the newcomer of a dialogue is in
no channel, and there was room for it) while the process runs; when it is gone
(`Over`), the tables and slots are as they were and no step is possible. `System`
uses instances of `PollLoop` and `IRCServer`, the theorems are about the modules;
the first part of `SystemProofs` shows action by action that the instances say the
same. A lemma per kind of event then shows that the tables keep their invariant:
`Registers`, `GivesUp`, `Leaves`, `Commands`, and `ReadsClosed` for the read of a
closed descriptor, which no module knows but `System`.

`TablesImplemented` maps `System` to `IRCServer` with the newcomer of a dialogue
taken out (`settled`). Its one step that is no step of `IRCServer` is
`readClosed`, and the theorem says when it can happen: the slot read lists no
client although every client has a slot, so by counting there are more slots than
clients (`LeftoverSlot`). `NamesakesFree` uses the same cases to say what a name
may be lost by.

**Texts and lines.** `pieces` and `joined` of `Text` are recursive functions along
a sequence, so they are proved about with the recursion and induction of
`Induction`, here also over sequences (`SequenceInduction`). All that is needed of
`pieces` is what one character more does to them (`PiecesAppend`): a separator
adds nothing, another character goes to the last piece or starts one. From it
follow that the pieces of a text joined with blanks are the words that were
joined (`PiecesOfJoined`) and that neither pieces nor what is joined from them are
longer than the text they came from (`PiecesShort`, `SaidShort`), so that no
command that passed the test of its length as a message is too long as a content:
the error for MAX_SIZE_MSG is never sent, and `BotIsJust` needs no exception.
`ContentsIntact` adds that the search for the colon (`Extracted`) finds the one
`reconstructedMessage` put in, provided that there is none in the target.

`LineInv` says of each client that its last command is the tokens of one received
message of admitted length, and of a careful client that nothing or one short
line is under way. Without the second part `recv` could begin with the rest of an
earlier line, and a step of `Framing` would not be one of `Lines`.

Each inductive invariant was checked by TLC before it was proved, on the instance
of a run or a larger one (the message of `Received` given as the tokens joined,
since TLC cannot look for one among all texts).

### What stays with TLC

* `Served` and `StopObeyed`: liveness under fairness.
* `WholeLines`, `NeverBlocked`, `NeverKilled`, `NeverAborted` and
  `BannedWordsPunished`, which the code does not keep: TLC finds the counterexample.

## 6. Plan

The components are modelled and every safety property of a passing run is
proved. What is left are abstract specifications that say more: a name service
(claim, rename, release) that `IRCServer` with netcat clients only implements, and
the vectors of `Channel.hpp` as what the sets of `Channel` stand for.

## 7. Not modelled

* HELP and PING, which answer the sender and read no state; the wording of
  replies, beyond those an irssi client keeps windows by.
* `main.cpp`: it checks its two arguments and starts the loop. The set-up of the
  listening socket, whose failures end the program before there is any state.
* `EINTR` as a property: one signal while the loop waits ends it, which
  `SignalHandler` and `TstpSignalHandler` of `PollLoop` have as a step; a
  statement about it would repeat that step.
* A failing `accept` or `poll` for other reasons (no descriptors left), and
  partial sends: the code looks at neither.
* The length of what waits to be sent: a send never waits in the model, whereas a
  blocking send to a peer that does not read would stop the loop.
* More than one channel in `Delivery`, and unregistered members there: its one
  question is answered without them.
* `ChannelMsg` and `addBannedWordCmd`: nothing calls them.
