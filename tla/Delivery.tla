------------------------------- MODULE Delivery -------------------------------
(***************************************************************************)
(* The sends of the handlers that tell a channel, one by one, to peers     *)
(* that may be gone.  send does not fail when the peer has closed: the     *)
(* peer's host answers with a reset, and the next send after the reset     *)
(* raises SIGPIPE, which nothing ignores or handles.                       *)
(*                                                                         *)
(* The clients are registered netcat clients, and there is one channel.    *)
(* Which descriptor that is ready is looked at first is left open: slots   *)
(* are swapped (PollLoop).                                                 *)
(***************************************************************************)
EXTENDS Sequences, SequencesExt

CONSTANT Sockets

VARIABLES
    clients,   \* the keys of _clients
    members,   \* the members of the channel, in the order of the vector
    outbox,    \* the sends that the running handler has left to do
    killed,    \* the process is gone
    data,      \* those from whom a command waits to be read
    peer       \* the other end: "here", "gone", "refusing" while the reset is
               \* on its way, and "reset" when it arrived

server == <<clients, members, outbox, killed>>
vars == <<server, data, peer>>

------------------------------------------------------------------------------
(* The peers and the network.                                              *)

type(fd) ==
    /\ peer[fd] = "here" /\ fd \in clients \ data
    /\ data' = data \cup {fd}
    /\ UNCHANGED <<server, peer>>

hangUp(fd) ==
    /\ peer[fd] = "here"
    /\ peer' = [peer EXCEPT ![fd] = "gone"]
    /\ UNCHANGED <<server, data>>

reset(fd) ==
    /\ peer[fd] = "refusing"
    /\ peer' = [peer EXCEPT ![fd] = "reset"]
    /\ UNCHANGED <<server, data>>

------------------------------------------------------------------------------
(* The handlers, up to their sends, which follow.                          *)

isMember(fd) == Contains(members, fd)
times(n, fd) == [k \in 1..n |-> fd]

(* Every member, the new one too, gets three messages.                     *)
joins(fd) ==
    /\ ~ isMember(fd)
    /\ members' = Append(members, fd)
    /\ outbox' = FlattenSeq([j \in DOMAIN members' |-> times(3, members'[j])])
                     \o <<fd>>
    /\ UNCHANGED clients

talks(fd) ==
    /\ isMember(fd)
    /\ outbox' = members
    /\ UNCHANGED <<clients, members>>

parts(fd) ==
    /\ isMember(fd)
    /\ members' = Remove(members, fd)
    /\ outbox' = members' \o <<fd>>
    /\ UNCHANGED clients

quits(fd) ==
    /\ members' = Remove(members, fd)
    /\ outbox' = (IF isMember(fd) THEN members' ELSE <<>>) \o <<fd>>
    /\ clients' = clients \ {fd}

disconnects(fd) ==
    /\ members' = Remove(members, fd)
    /\ outbox' = IF isMember(fd) THEN members' ELSE <<>>
    /\ clients' = clients \ {fd}

(* What was written before the peer left is read before its end.           *)
handleClientMessage(fd) ==
    /\ ~ killed /\ outbox = <<>> /\ fd \in clients
    /\ \/ fd \in data /\ (joins(fd) \/ talks(fd) \/ parts(fd) \/ quits(fd))
       \/ fd \notin data /\ peer[fd] # "here" /\ disconnects(fd)
    /\ data' = data \ {fd}
    /\ UNCHANGED <<killed, peer>>

send ==
    /\ ~ killed /\ outbox # <<>>
    /\ LET fd == Head(outbox) IN
          /\ killed' = (peer[fd] = "reset")
          /\ peer' = IF peer[fd] = "gone" THEN [peer EXCEPT ![fd] = "refusing"]
                                          ELSE peer
    /\ outbox' = Tail(outbox)
    /\ UNCHANGED <<clients, members, data>>

Init ==
    /\ clients = Sockets
    /\ members = <<>>
    /\ outbox = <<>>
    /\ killed = FALSE
    /\ data = {}
    /\ peer = [fd \in Sockets |-> "here"]

Next ==
    \/ send
    \/ \E fd \in Sockets :
          type(fd) \/ hangUp(fd) \/ reset(fd) \/ handleClientMessage(fd)

Spec == Init /\ [][Next]_vars

------------------------------------------------------------------------------
(***************************************************************************)
(* A statement that the code does not keep.                                *)
(***************************************************************************)

(* "Your program must in no case crash [...] nor stop unexpectedly"        *)
(* (subject, p. 3): peers that leave do not take the server with them.     *)
NeverKilled == ~ killed
==============================================================================
