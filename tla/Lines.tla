-------------------------------- MODULE Lines --------------------------------
(***************************************************************************)
(* What a line protocol promises: each line a client writes becomes one    *)
(* command, whole, and the commands of a client are executed in order.     *)
(***************************************************************************)
EXTENDS Sequences

CONSTANTS
    Clients,
    Commands   \* the tokens of the lines that may be written

VARIABLES
    waiting,   \* client -> commands written and not executed yet
    last       \* client -> the command executed last, <<>> before the first

vars == <<waiting, last>>

Write(c, tokens) ==
    /\ waiting' = [waiting EXCEPT ![c] = Append(@, tokens)]
    /\ UNCHANGED last

Execute(c) ==
    /\ waiting[c] # <<>>
    /\ last' = [last EXCEPT ![c] = Head(waiting[c])]
    /\ waiting' = [waiting EXCEPT ![c] = Tail(@)]

Init ==
    /\ waiting = [c \in Clients |-> <<>>]
    /\ last = [c \in Clients |-> <<>>]

Next == \E c \in Clients : Execute(c) \/ \E tokens \in Commands : Write(c, tokens)

Spec == Init /\ [][Next]_vars
==============================================================================
