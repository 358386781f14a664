------------------------------ MODULE MCFraming ------------------------------
(* Values for the constants of Framing and Text: lines as netcat and as    *)
(* irssi would send them.  A character that stands for several letters     *)
(* counts as one.                                                          *)
EXTENDS Framing, TLC

MCPrivMsgNames == {<<"/msg">>, <<"PRIVMSG">>}
MCOtherNames   == {<<"NICK">>}
MCBuiltIn      == {<<"bad">>, <<"blow", " ", "job">>}
MCAdded        == {<<"odd">>}

MCTyped == {
    <<"/msg", " ", "#", "x", " ", "bad">>,
    <<"PRIVMSG", " ", "#", "x", " ", ":", "bad">>,
    <<"PRIVMSG", " ", "#", "x", ",", "ann", " ", ":", "odd">>,
    <<"/msg", " ", "#", "a", ":", "b", " ", "bad">>,
    <<"odd", " ", "hi">>,
    <<"blow", " ", "job">>,
    <<"NICK", " ", "ann">> }

\* What the bot misses: an added word behind irssi's colon, a word behind a
\* name with a colon, a phrase.  Each is a counterexample alone.
MCUnpunished == {
    <<"PRIVMSG", " ", "#", "x", " ", ":", "odd">>,
    <<"/msg", " ", "#", "a", ":", "b", " ", "bad">>,
    <<"/msg", " ", "#", "x", " ", "blow", " ", "job">> }
==============================================================================
