----------------------------- MODULE Connections -----------------------------
(***************************************************************************)
(* What the server promises about its connections: at most MaxClients are  *)
(* established at a time, each under the lowest descriptor that is free;   *)
(* each ends on its own, or all of them with the server.                   *)
(***************************************************************************)
EXTENDS Integers, FiniteSets

CONSTANTS
    Sockets,     \* the descriptors accept may return
    MaxClients   \* _MAX_CLIENTS

VARIABLES
    established,
    running      \* whether the server still runs

Connect(fd) ==
    LET free == Sockets \ established IN
    /\ running
    /\ Cardinality(established) < MaxClients
    /\ fd \in free
    /\ \A g \in free : fd <= g
    /\ established' = established \cup {fd}
    /\ UNCHANGED running

Disconnect(fd) ==
    /\ running
    /\ fd \in established
    /\ established' = established \ {fd}
    /\ UNCHANGED running

Stop ==
    /\ running
    /\ running' = FALSE
    /\ established' = {}

vars == <<established, running>>

Init == established = {} /\ running = TRUE
Next == Stop \/ \E fd \in Sockets : Connect(fd) \/ Disconnect(fd)
Spec == Init /\ [][Next]_vars
==============================================================================
