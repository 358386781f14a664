------------------------------- MODULE Framing -------------------------------
(***************************************************************************)
(* From bytes to commands: handleClientMessage calls recv once, takes what *)
(* it returns for one command, and keeps nothing for the next call.  TCP   *)
(* carries a stream, in which writes may be cut and run together.          *)
(***************************************************************************)
EXTENDS Text

CONSTANTS
    Clients,
    Typed,          \* what is typed on a line
    BufferSize,     \* the length of buffer, 1024 in the code
    MaxTopicSize,   \* MAX_TOPIC_SIZE
    MaxPending      \* bounds what waits to be received

ASSUME SizesAssumption ==
    /\ MaxTopicSize \in Nat /\ BufferSize \in Nat /\ MaxSizeMsg \in Nat
    /\ MaxTopicSize < BufferSize - 1 /\ MaxTopicSize < MaxSizeMsg
ASSUME TypedAssumption == \A l \in Typed : l \in Seq(Range(l))

VARIABLES
    careful,   \* who writes a short line, waits, and has it carried in one piece
    pending,   \* client -> written and not received yet
    command    \* client -> the tokens of its command executed last

vars == <<careful, pending, command>>

line(l) == l \o <<Newline>>
short(l) == Len(line(l)) <= MaxTopicSize

(* A careful client writes its next line when the last one was received.   *)
write(c, l) ==
    /\ Len(pending[c] \o line(l)) <= MaxPending
    /\ c \in careful => pending[c] = <<>> /\ short(l)
    /\ pending' = [pending EXCEPT ![c] = @ \o line(l)]
    /\ UNCHANGED <<careful, command>>

(* recv gives no more than there is room for, and may give less than there *)
(* is to come; a careful client's line comes in one piece.                 *)
recv(c, n) ==
    /\ n \in 1..Len(pending[c])
    /\ n <= BufferSize - 1
    /\ c \in careful => n = Len(pending[c])
    /\ pending' = [pending EXCEPT ![c] = SubSeq(@, n + 1, Len(@))]

isTooLongFaulty(message) == Len(message) >= BufferSize - 1 \/ Len(message) >= MaxTopicSize
isTooLong(message) == Len(message) >= BufferSize - 1 \/ Len(message) > MaxTopicSize

(* What is too long or blank is answered with an error and forgotten.      *)
handleClientMessage(c) ==
    \E n \in 1..Len(pending[c]) :
        LET message == SubSeq(pending[c], 1, n)
            tokens == split(message)
        IN  /\ recv(c, n)
            /\ command' = IF isTooLong(message) \/ tokens = <<>> THEN command
                          ELSE [command EXCEPT ![c] = tokens]
            /\ UNCHANGED careful

Init ==
    /\ careful \in SUBSET Clients
    /\ pending = [c \in Clients |-> <<>>]
    /\ command = [c \in Clients |-> <<>>]

Next == \E c \in Clients : handleClientMessage(c) \/ \E l \in Typed : write(c, l)

Spec == Init /\ [][Next]_vars

------------------------------------------------------------------------------
(* Properties                                                              *)

(* Careful clients have a line protocol: each line that is not blank is    *)
(* executed whole, once and in order.                                      *)
typedBy(c) == IF split(pending[c]) = <<>> THEN <<>> ELSE <<split(pending[c])>>
ofCareful(f) == [c \in Clients |-> IF c \in careful THEN f[c] ELSE <<>>]
Promise == INSTANCE Lines WITH
    Commands <- {split(l) : l \in Typed} \ {<<>>},
    waiting  <- ofCareful([c \in Clients |-> typedBy(c)]),
    last     <- ofCareful(command)
ImplementsLines == Promise!Spec

(* What was said: the tokens behind the target, or all of them.            *)
said(tokens) == IF isPrivMsg(tokens) THEN SubSeq(tokens, 3, Len(tokens)) ELSE tokens

isText(tokens) == isPrivMsg(tokens) \/ isPlainText(tokens)
colonInTarget(tokens) == isPrivMsg(tokens) /\ Contains(tokens[2], Colon)

texts == {t \in {command[c] : c \in Clients} : isText(t) /\ ~ colonInTarget(t)}

(* Between the tokens and the content a text is taken apart and put        *)
(* together three times; no word is lost or glued to another, whatever     *)
(* piece of the stream was taken for a command, unless the target has a    *)
(* colon.                                                                  *)
ContentIntact == \A tokens \in texts : split(content(tokens)) = said(tokens)

(* The bot expels nobody without a word of its lists in the text, and no   *)
(* built-in word gets past it, with the colon irssi puts first or without, *)
(* nor an added word that stands there as it was given; no text is too     *)
(* long for MAX_SIZE_MSG.  What does get past it: BannedWordsPunished.     *)
bare(word) == IF word[1] = Colon THEN Tail(word) ELSE word
BotJudges ==
    \A tokens \in texts : toChannel(tokens) =>
        /\ expels(tokens) =>
              \E word \in ToSet(said(tokens)) :
                  {word, bare(word)} \cap (BuiltInWords \cup AddedWords) # {}
        /\ (\E word \in ToSet(said(tokens)) :
                bare(word) \in BuiltInWords \/ word \in AddedWords)
              => expels(tokens)

(***************************************************************************)
(* Statements that the code does not keep.                                 *)
(***************************************************************************)

(* "In order to process a command, you must first put it together again by *)
(* concatenating the packets received" (subject, p. 7): what is executed   *)
(* is a line that was typed.                                               *)
WholeLines ==
    \A c \in Clients : command[c] # <<>> => \E l \in Typed : command[c] = split(l)

(* "If a forbidden word is detected, the user is kicked from the channel"  *)
(* (README.md:219): whoever sends a channel a text in which an entry of    *)
(* the lists stands, a phrase also, with or without irssi's colon, is      *)
(* expelled.                                                               *)
says(tokens, entry) ==
    LET words  == [k \in DOMAIN said(tokens) |-> bare(said(tokens)[k])]
        phrase == split(entry)
    IN \E k \in 1..Len(words) - Len(phrase) + 1 :
          SubSeq(words, k, k + Len(phrase) - 1) = phrase
BannedWordsPunished ==
    \A tokens \in {command[c] : c \in Clients} :
        /\ isText(tokens) /\ toChannel(tokens)
        /\ \E entry \in BuiltInWords \cup AddedWords : says(tokens, entry)
        => expels(tokens)
==============================================================================
