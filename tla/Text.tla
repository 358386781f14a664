--------------------------------- MODULE Text ---------------------------------
(***************************************************************************)
(* What the server makes of the text of a message: how it is cut into      *)
(* tokens, which part is the content, and which words the bot looks up.    *)
(* A text is a sequence of characters; a character may stand for a whole   *)
(* run of letters that is never looked into.                               *)
(***************************************************************************)
EXTENDS Integers, Sequences, SequencesExt

CONSTANTS
    PrivMsgNames,   \* the tokens that name PRIVMSG
    OtherNames,     \* the tokens that name another command
    BuiltInWords,   \* the entries of defaultBannedWords, phrases included
    AddedWords,     \* words given to the bot with MODE +b
    MaxSizeMsg      \* MAX_SIZE_MSG

Blank   == " "
Newline == "\n"
Colon   == ":"
Comma   == ","
Slash   == "/"
Hash    == "#"

(* The names of commands have no colon; a built-in word is a word, and the *)
(* colon before it is put there by the bot.                                *)
ASSUME NamesAssumption == \A name \in PrivMsgNames : ~ Contains(name, Colon)
ASSUME WordsAssumption ==
    \A w \in BuiltInWords : w \in Seq(Range(w)) /\ w # <<>> /\ w[1] # Colon

(* The maximal runs of s without a separator, from left to right: a        *)
(* character that is none goes to the last piece, or starts a new one.     *)
pieces(s, Separators) ==
    LET plain(k) == k \in DOMAIN s /\ s[k] \notin Separators
        cut[k \in 0..Len(s)] ==
            IF ~ plain(k) THEN (IF k = 0 THEN <<>> ELSE cut[k - 1])
            ELSE IF plain(k - 1)
                 THEN [cut[k - 1] EXCEPT ![Len(cut[k - 1])] = Append(@, s[k])]
                 ELSE Append(cut[k - 1], <<s[k]>>)
    IN cut[Len(s)]

joined(words) ==
    LET text[j \in 0..Len(words)] ==
            IF j = 0 THEN <<>>
            ELSE IF j = 1 THEN words[1]
            ELSE text[j - 1] \o <<Blank>> \o words[j]
    IN text[Len(words)]

(* The stream operator >> reads up to white space, and the end of a line   *)
(* is white space.                                                         *)
splitFaulty(s) == pieces(s, {Blank})
split(s) == pieces(s, {Blank, Newline})

(* A comma at either end or two in a row would give an empty name; none is *)
(* written here.                                                           *)
splitComa(s) == pieces(s, {Comma})

------------------------------------------------------------------------------
(* PRIVMSG.  The message is put together again from the tokens with one    *)
(* colon, behind the targets, and its content is what follows a colon.     *)

reconstructedMessage(tokens) ==
    tokens[1] \o <<Blank>> \o tokens[2] \o <<Colon>>
              \o joined(SubSeq(tokens, 3, Len(tokens)))

(* The first colon at or behind the targets, also if it is one of theirs.  *)
extractMessageContentFaulty(message, targets) ==
    LET pos == CHOOSE k \in DOMAIN message :
                  /\ message[k] = Colon
                  /\ \A j \in 1..k - 1 : message[j] # Colon
    IN SubSeq(message, pos, Len(message))
extractMessageContent(message, targets) ==
    LET at(k) == SubSeq(message, k, k + Len(targets) - 1) = targets
        found == CHOOSE k \in DOMAIN message : at(k) /\ \A j \in 1..k - 1 : ~ at(j)
        pos == CHOOSE k \in DOMAIN message :
                  /\ k >= found /\ message[k] = Colon
                  /\ \A j \in found..k - 1 : message[j] # Colon
    IN SubSeq(message, pos + 1, Len(message))

------------------------------------------------------------------------------
(* Which tokens are text, where it goes, and what it says.                 *)

isPrivMsg(tokens) == Len(tokens) >= 3 /\ tokens[1] \in PrivMsgNames
isPlainText(tokens) ==
    /\ Len(tokens) >= 1
    /\ tokens[1] \notin PrivMsgNames \cup OtherNames
    /\ tokens[1][1] # Slash

content(tokens) ==
    IF isPrivMsg(tokens)
    THEN extractMessageContent(reconstructedMessage(tokens), tokens[2])
    ELSE joined(tokens)

(* Plain text goes to a channel, a PRIVMSG to each target that looks like  *)
(* one.                                                                    *)
toChannel(tokens) ==
    \/ isPlainText(tokens)
    \/ isPrivMsg(tokens) /\ \E j \in DOMAIN splitComa(tokens[2]) :
                               splitComa(tokens[2])[j][1] = Hash

(* The built-in words are stored with and without the colon that irssi     *)
(* puts before the first word, an added word as it was given.  Five of the *)
(* entries are phrases (channel.cpp:164): with a blank inside, one is no   *)
(* token and never found.                                                  *)
initializeBannedWordsFaulty == BuiltInWords
initializeBannedWords == BuiltInWords \cup {<<Colon>> \o w : w \in BuiltInWords}
isBannedWord(word) == word \in initializeBannedWords \cup AddedWords

checkBannedWords(text) == \E j \in DOMAIN split(text) : isBannedWord(split(text)[j])

tooLong(tokens) == isPrivMsg(tokens) /\ Len(content(tokens)) > MaxSizeMsg

(* The bot expels whoever sent this.                                       *)
expels(tokens) ==
    toChannel(tokens) /\ ~ tooLong(tokens) /\ checkBannedWords(content(tokens))
==============================================================================
