------------------------------ MODULE PollLoop ------------------------------
(***************************************************************************)
(* The event loop: startServer, handlePollEvents, acceptNewConnection with *)
(* detectClient, and the reads and removals of handleClientMessage and     *)
(* QUIT.  The commands themselves are in IRCServer; here a command is read *)
(* and either is QUIT or leaves the loop's state alone.                    *)
(*                                                                         *)
(* The sockets are blocking.  A handler that reads a descriptor with       *)
(* nothing to read does not return, and nothing else runs: its action is   *)
(* not enabled, and neither is any other action of the server.             *)
(***************************************************************************)
EXTENDS Integers, FiniteSets

CONSTANTS
    Sockets,      \* the descriptors accept may return
    MaxClients,   \* _MAX_CLIENTS
    Kinds,        \* the kinds of connections that are made: see detectClient
    FdsSize,      \* the length of fds, 1024 in the code
    MaxBacklog,   \* bounds the connections waiting to be accepted
    Lines         \* lines typed at the server's terminal

Stdin     == 0
Listening == 3    \* _server_socket
NoLine    == ""

ASSUME SocketsAssumption == Sockets \subseteq Nat \ 0..Listening
ASSUME FdsSizeAssumption == FdsSize \in Nat /\ FdsSize >= 2
ASSUME BoundsAssumption  == MaxClients \in Nat /\ MaxBacklog \in Nat
ASSUME LinesAssumption   == NoLine \notin Lines

VARIABLES
    fds,        \* index -> descriptor and whether revents has POLLIN
    nfds,       \* the number of slots in use
    i,          \* the loop variable of handlePollEvents
    pc,         \* where the one thread is
    stage,      \* what the netcat dialogue waits for
    clients,    \* the keys of _clients
    anonymous,  \* those whose Client is the default one, with socket -1
    shutdown,   \* _shutdown_signal
    conn,       \* the kernel: what each descriptor is connected to
    backlog,    \* connections accept has not returned yet
    line        \* the line waiting at the terminal

table == <<fds, nfds>>
tables == <<fds, nfds, clients, anonymous>>
vars == <<tables, i, pc, stage, shutdown, conn, backlog, line>>

Closed == [open |-> FALSE, data |-> FALSE, hup |-> FALSE]
Fresh  == [open |-> TRUE,  data |-> FALSE, hup |-> FALSE]

(* recv returns at once: with data, or with none since the peer is gone or *)
(* the descriptor is closed.                                               *)
readable(fd) == conn[fd].open /\ (conn[fd].data \/ conn[fd].hup)
returns(fd)  == readable(fd) \/ ~ conn[fd].open

(* The process is gone: it left the loop, it was ended by an exception or  *)
(* a signal, or it wrote past the end of fds and nothing is known of it.   *)
ended == pc \in {"stopped", "aborted", "undefined"}

(* Nothing is caught and SIGPIPE is not ignored.  The kernel closes what   *)
(* the process had open; its tables are nobody's any more.                 *)
abort ==
    /\ pc' = "aborted"
    /\ conn' = [fd \in Sockets |-> Closed]
    /\ UNCHANGED <<tables, i, stage>>

slotsOf(fd) == {j \in 0..nfds - 1 : fds[j].fd = fd}
first(S) == CHOOSE j \in S : \A k \in S : j <= k

------------------------------------------------------------------------------
(* Taking a slot out of fds.  A slot that is left over keeps its contents. *)

(* fds[j] = fds[nfds - 1]; nfds--                                          *)
swapOutNotCopied(fd) ==
    /\ nfds' = IF slotsOf(fd) = {} THEN nfds ELSE nfds - 1
    /\ UNCHANGED fds
swapOut(fd) ==
    IF slotsOf(fd) = {} THEN UNCHANGED table
    ELSE /\ fds' = [fds EXCEPT ![first(slotsOf(fd))] = fds[nfds - 1]]
         /\ nfds' = nfds - 1

(* removeClientFromPoll moves the slots behind it down by one.             *)
shiftOutFaulty(t, fd) == [t EXCEPT !.nfds = @ - 1]
shiftOut(t, fd) ==
    LET S == {j \in 0..t.nfds - 1 : t.fds[j].fd = fd} IN
    IF S = {} THEN t
    ELSE [ fds  |-> [j \in DOMAIN t.fds |->
                        IF j \in first(S)..t.nfds - 2 THEN t.fds[j + 1]
                                                      ELSE t.fds[j]],
           nfds |-> t.nfds - 1 ]

------------------------------------------------------------------------------
(* The peers, the terminal and the signals.                                *)

connect ==
    /\ backlog < MaxBacklog
    /\ backlog' = backlog + 1
    /\ UNCHANGED <<tables, i, pc, stage, shutdown, conn, line>>

send(fd) ==
    /\ conn[fd] = Fresh
    /\ conn' = [conn EXCEPT ![fd].data = TRUE]
    /\ UNCHANGED <<tables, i, pc, stage, shutdown, backlog, line>>

hangUp(fd) ==
    /\ conn[fd].open /\ ~ conn[fd].hup
    /\ conn' = [conn EXCEPT ![fd].hup = TRUE]
    /\ UNCHANGED <<tables, i, pc, stage, shutdown, backlog, line>>

type(l) ==
    /\ line = NoLine
    /\ line' = l
    /\ UNCHANGED <<tables, i, pc, stage, shutdown, conn, backlog>>

(* A signal that arrives in poll makes it return -1, and the loop ends; at *)
(* any other moment a system call is restarted after the handler.          *)
interrupt == pc' \in {pc} \cup (IF pc = "poll" THEN {"stopping"} ELSE {})

SignalHandler ==
    /\ ~ shutdown
    /\ shutdown' = TRUE
    /\ interrupt
    /\ UNCHANGED <<tables, i, stage, conn, backlog, line>>

TstpSignalHandler ==
    /\ interrupt
    /\ UNCHANGED <<tables, i, stage, shutdown, conn, backlog, line>>

Environment ==
    \/ connect
    \/ \E fd \in Sockets : send(fd) \/ hangUp(fd)
    \/ \E l \in Lines : type(l)
    \/ SignalHandler
    \/ TstpSignalHandler

------------------------------------------------------------------------------
(* The loop.                                                               *)

(* poll sets revents of the slots in use.  A closed descriptor gives       *)
(* POLLNVAL, which is not POLLIN.                                          *)
ready(fd) ==
    CASE fd = Listening -> backlog > 0
      [] fd = Stdin     -> line # NoLine
      [] OTHER          -> readable(fd)

poll ==
    /\ pc = "poll"
    /\ fds' = [j \in DOMAIN fds |->
                  IF j < nfds THEN [fds[j] EXCEPT !.pollin = ready(fds[j].fd)]
                              ELSE fds[j]]
    /\ pc' = "walk"
    /\ UNCHANGED <<nfds, clients, anonymous, i, stage, shutdown, conn, backlog, line>>

atSlot == pc = "walk" /\ i < nfds

skip ==
    /\ atSlot /\ ~ fds[i].pollin
    /\ i' = i + 1
    /\ UNCHANGED <<tables, pc, stage, shutdown, conn, backlog, line>>

(* The end of the for loop, where i goes out of scope, and the test of the *)
(* while loop.                                                             *)
endOfRoundFaulty ==
    /\ pc = "walk" /\ i >= nfds
    /\ pc' = "poll"
    /\ i' = 0
    /\ UNCHANGED <<tables, stage, shutdown, conn, backlog, line>>
endOfRound ==
    /\ pc = "walk" /\ i >= nfds
    /\ pc' = IF shutdown THEN "stopping" ELSE "poll"
    /\ i' = 0
    /\ UNCHANGED <<tables, stage, shutdown, conn, backlog, line>>

stopServer ==
    /\ pc = "stopping"
    /\ pc' = "stopped"
    /\ conn' = [fd \in Sockets |-> IF fd \in clients THEN Closed ELSE conn[fd]]
    /\ UNCHANGED <<tables, i, stage, shutdown, backlog, line>>

(* A line at the terminal: /STOP also breaks out of the loop.              *)
readStdin ==
    /\ atSlot /\ fds[i].pollin /\ fds[i].fd = Stdin
    /\ line' = NoLine
    /\ shutdown' = (shutdown \/ line = "/STOP")
    /\ i' = IF line = "/STOP" THEN nfds ELSE i + 1
    /\ UNCHANGED <<tables, pc, stage, conn, backlog>>

------------------------------------------------------------------------------
(* Accepting.  The new slot gets a descriptor and keeps the revents that   *)
(* an earlier slot left at that index.                                     *)

isServerFullFaulty == Cardinality(clients) > MaxClients
isServerFull == Cardinality(clients) >= MaxClients

(* _clients.size() also counts the entry -1, which the commands of a       *)
(* client with socket -1 make and remove (IRCServer): one place may be     *)
(* missing.                                                                *)
madeUpEntry == "other" \in Kinds /\ Cardinality(clients) + 1 = MaxClients

(* What becomes of the connection at once; netcat is asked questions.  For *)
(* one that begins with "CAP LS" detectClient may also not return: see     *)
(* acceptNewConnection.                                                    *)
detectClient(fd) ==
    \/ /\ "netcat" \in Kinds
       /\ pc' = "dialogue"
       /\ conn' = [conn EXCEPT ![fd] = Fresh]
       /\ clients' = clients \cup {fd}
       /\ UNCHANGED <<i, stage, anonymous>>
    \/ /\ "irssi" \in Kinds
       /\ conn' = [conn EXCEPT ![fd] = Fresh]
       /\ clients' = clients \cup {fd}
       /\ i' = i + 1
       /\ UNCHANGED <<pc, stage, anonymous>>
    \* "CAP LS" without the right password: closed, erased, slot left.
    \/ /\ "refused" \in Kinds
       /\ i' = i + 1
       /\ UNCHANGED <<pc, stage, conn, clients, anonymous>>
    \/ /\ "other" \in Kinds
       /\ conn' = [conn EXCEPT ![fd] = Fresh]
       /\ clients' = clients \cup {fd}
       /\ anonymous' = anonymous \cup {fd}
       /\ i' = i + 1
       /\ UNCHANGED <<pc, stage>>

(* A line PASS with nothing behind it makes substr throw.  Or an irssi     *)
(* client has hung up before it is sent its six replies.                   *)
detectionAborted ==
    /\ {"irssi", "refused"} \cap Kinds # {}
    /\ abort

(* The array is written without a look at its length.                      *)
acceptNewConnection ==
    /\ atSlot /\ fds[i].pollin /\ fds[i].fd = Listening
    /\ backlog' = backlog - 1
    /\ \/ /\ isServerFull \/ madeUpEntry
          /\ i' = i + 1
          /\ UNCHANGED <<tables, pc, stage, conn>>
       \/ /\ ~ isServerFull
          /\ nfds >= FdsSize
          /\ pc' = "undefined"
          /\ UNCHANGED <<tables, i, stage, conn>>
       \/ /\ ~ isServerFull
          /\ nfds < FdsSize
          /\ detectionAborted
       \/ /\ ~ isServerFull
          /\ nfds < FdsSize
          /\ \E fd \in Sockets :
                /\ ~ conn[fd].open
                /\ \A g \in Sockets : ~ conn[g].open => fd <= g
                /\ fds' = [fds EXCEPT ![nfds].fd = fd]
                /\ detectClient(fd)
          /\ nfds' = nfds + 1
    /\ UNCHANGED <<shutdown, line>>

(* The netcat dialogue with the newcomer.  An answer is accepted or asked  *)
(* for again.  When the peer is gone while the password is awaited, the    *)
(* name is asked for all the same and the slot is removed a second time.   *)
newcomer == fds[nfds - 1].fd

acceptsAnother(fd) ==
    /\ conn[fd].data
    /\ conn' = [conn EXCEPT ![fd].data = FALSE]
    /\ \/ UNCHANGED <<stage, pc>>
       \/ stage = "password" /\ stage' = "username" /\ UNCHANGED pc
       \/ stage = "username" /\ stage' = "nickname" /\ UNCHANGED pc
       \/ stage = "nickname" /\ stage' = "password" /\ pc' = "walk"
    /\ UNCHANGED <<tables, i>>
answered(fd) ==
    /\ conn[fd].data
    /\ conn' = [conn EXCEPT ![fd].data = FALSE]
    /\ \/ UNCHANGED <<stage, pc, i>>
       \/ stage = "password" /\ stage' = "username" /\ UNCHANGED <<pc, i>>
       \/ stage = "username" /\ stage' = "nickname" /\ UNCHANGED <<pc, i>>
       \/ stage = "nickname" /\ stage' = "password" /\ pc' = "walk" /\ i' = i + 1
    /\ UNCHANGED tables

abandonedFaulty(fd) ==
    /\ conn[fd].hup /\ ~ conn[fd].data
    /\ conn' = [conn EXCEPT ![fd] = Closed]
    /\ clients' = clients \ {fd}
    /\ stage' = "password" /\ pc' = "walk" /\ i' = i + 1
    /\ UNCHANGED <<table, anonymous>>
abandoned(fd) ==
    LET once == shiftOut([fds |-> fds, nfds |-> nfds], fd)
        t == IF stage = "password" THEN shiftOut(once, fd) ELSE once
    IN
    /\ conn[fd].hup /\ ~ conn[fd].data
    /\ conn' = [conn EXCEPT ![fd] = Closed]
    /\ fds' = t.fds /\ nfds' = t.nfds
    /\ clients' = clients \ {fd}
    /\ stage' = "password" /\ pc' = "walk" /\ i' = i + 1
    /\ UNCHANGED anonymous

dialogue ==
    /\ pc = "dialogue"
    /\ answered(newcomer) \/ abandoned(newcomer)
    /\ UNCHANGED <<shutdown, backlog, line>>

------------------------------------------------------------------------------
(* Serving.                                                                *)

leaveUnclosed(fd) ==
    /\ clients' = clients \ {fd}
    /\ anonymous' = anonymous \ {fd}
    /\ swapOut(fd)
    /\ UNCHANGED conn
leave(fd) ==
    /\ conn' = [conn EXCEPT ![fd] = Closed]
    /\ clients' = clients \ {fd}
    /\ anonymous' = anonymous \ {fd}
    /\ swapOut(fd)

(* A message is read, and it is QUIT or it is not; QUIT closes nothing for *)
(* a client with socket -1.  Or recv returns no data: the peer hung up or, *)
(* in a slot whose descriptor an earlier slot closed, an error.            *)
handleClientMessage ==
    LET fd == fds[i].fd IN
    /\ atSlot /\ fds[i].pollin /\ fd \in Sockets
    /\ \/ /\ conn[fd].data
          /\ \/ /\ conn' = [conn EXCEPT ![fd].data = FALSE]
                /\ UNCHANGED tables
             \/ fd \notin anonymous /\ leave(fd)
       \/ ~ conn[fd].data /\ returns(fd) /\ leave(fd)
    /\ i' = i + 1
    /\ UNCHANGED <<pc, stage, shutdown, backlog, line>>

(* The second message to a peer that has closed its end raises SIGPIPE: in *)
(* the dialogue, where all but the last answer is followed by messages to  *)
(* the newcomer; at a command or an end that is told to a member that has  *)
(* hung up, or answered to it, and in stopServer.  A peer that hung up may *)
(* have been sent the first one before; Delivery counts them.              *)
brokenPipe ==
    /\ \/ /\ pc = "dialogue" /\ conn[newcomer].hup
          /\ conn[newcomer].data \/ stage # "nickname"
       \/ /\ atSlot /\ fds[i].pollin /\ fds[i].fd \in Sockets
          /\ returns(fds[i].fd)
          /\ \E fd \in clients : conn[fd].hup
       \/ pc = "stopping" /\ \E fd \in clients : conn[fd].hup
    /\ abort
    /\ UNCHANGED <<shutdown, backlog, line>>

Server ==
    \/ poll
    \/ skip
    \/ readStdin
    \/ acceptNewConnection
    \/ dialogue
    \/ handleClientMessage
    \/ endOfRound
    \/ stopServer
    \/ brokenPipe

Init ==
    /\ fds = [j \in 0..FdsSize - 1 |->
                 [fd |-> IF j = 0 THEN Listening ELSE Stdin, pollin |-> FALSE]]
    /\ nfds = 2
    /\ i = 0
    /\ pc = "poll"
    /\ stage = "password"
    /\ clients = {}
    /\ anonymous = {}
    /\ shutdown = FALSE
    /\ conn = [fd \in Sockets |-> Closed]
    /\ backlog = 0
    /\ line = NoLine

Next == Server \/ (~ ended /\ Environment)

Spec == Init /\ [][Next]_vars

(* The thread runs on as long as it is not waiting for a peer.  Peers,     *)
(* terminal and signals owe nothing.                                       *)
FairSpec == Spec /\ WF_vars(Server)

------------------------------------------------------------------------------
(* Properties                                                              *)

TypeOK ==
    /\ nfds \in 2..FdsSize
    /\ fds \in [0..FdsSize - 1 ->
                   [fd : Sockets \cup {Stdin, Listening}, pollin : BOOLEAN]]
    /\ i \in 0..FdsSize
    /\ pc \in {"poll", "walk", "dialogue", "stopping", "stopped", "aborted", "undefined"}
    /\ stage \in {"password", "username", "nickname"}
    /\ clients \subseteq Sockets
    /\ anonymous \subseteq clients
    /\ shutdown \in BOOLEAN
    /\ conn \in [Sockets -> [open : BOOLEAN, data : BOOLEAN, hup : BOOLEAN]]
    /\ backlog \in 0..MaxBacklog
    /\ line \in Lines \cup {NoLine}

polled == {fds[j].fd : j \in 2..nfds - 1}

noLeak == ~ ended => {fd \in Sockets : conn[fd].open} = clients

(* As long as no irssi client is refused, fds lists every connection once  *)
(* and nothing else, after any sequence of arrivals, swaps and shifts, and *)
(* no descriptor is left open.  IRCServer rests on this: events come from  *)
(* connected clients only.                                                 *)
SlotsMatchClients ==
    /\ polled = clients
    /\ nfds = 2 + Cardinality(clients)
    /\ noLeak

(* fds[nfds] is never written past the end of the array as long as there   *)
(* is a slot for every client and two more, and no irssi client is refused *)
(* (whose slot is left over): the bound on the clients, tested in another  *)
(* variable, bounds the slots.                                             *)
NeverOverrun == pc # "undefined"

(* Even with the slots that refused irssi clients leave behind, which a    *)
(* later client with that number shares, no client is ever without a slot. *)
EveryClientPolled == clients \subseteq polled /\ noLeak

(* The slot that is read although it has nothing to read can only be the   *)
(* last one: what a removal moves or leaves over never makes the loop wait *)
(* for a client that was already there while others are ready.             *)
OnlyLastSlotStale ==
    pc = "walk" => \A j \in 2..nfds - 2 :
        j >= i /\ fds[j].pollin => readable(fds[j].fd)

(* The connections behave as module Connections says; a netcat client is   *)
(* established when its dialogue ends.  When the process is gone, so are   *)
(* all its connections.                                                    *)
established ==
    IF ended THEN {}
    ELSE IF pc = "dialogue" THEN clients \ {newcomer} ELSE clients
Abstract == INSTANCE Connections WITH running <- ~ ended
ImplementsConnections == Abstract!Spec

(* Whoever has something to be read is served, as long as the loop goes    *)
(* round, however slots are swapped and skipped under the walk.            *)
Served ==
    []<>(pc = "poll") =>
        \A fd \in Sockets : readable(fd) ~> ~ readable(fd)

(* A /STOP that was typed and a SIGINT or SIGQUIT are not missed: the loop *)
(* does not go round for ever after one.                                   *)
StopObeyed ==
    []<>(pc = "poll") => (shutdown \/ line = "/STOP") ~> (pc = "stopped")

(***************************************************************************)
(* Statements that the code does not keep.                                 *)
(***************************************************************************)

(* "The server must handle several clients at the same time without ever   *)
(* blocking" (subject, p. 6): whoever has something to be read is served,  *)
(* or the server stops.  Two things block it: a newcomer in its dialogue,  *)
(* and a newcomer whose slot still has the POLLIN of a client that left.   *)
(* A third, a send to a peer that does not read, is not modelled: here a   *)
(* send never waits.                                                       *)
NeverBlocked ==
    \A fd \in Sockets : readable(fd) ~> (~ readable(fd) \/ ended)

(* "Your program must not crash or stop unexpectedly in any circumstances" *)
(* (subject, p. 3): no exception is left uncaught and no signal kills the  *)
(* server.                                                                 *)
NeverAborted == pc # "aborted"
==============================================================================
