----------------------------- MODULE MCIRCServer -----------------------------
(* Values for the constants of IRCServer.  Descriptors 0, 1, 2 and 3 are   *)
(* the standard streams and the listening socket, so clients start at 4.   *)
EXTENDS IRCServer, TLC

MCTwoSockets   == {4, 5}
MCThreeSockets == {4, 5, 6}

\* "nickname" is the default; "long_nickname" is valid and over 9 characters;
\* "b0b" has a digit, which checkName rejects and irssi registration does not.
MCTwoNicks    == {"ann", "nickname"}
MCManyNicks   == {"ann", "b0b", "long_nickname", "nickname"}
MCManyValid   == {"ann", "long_nickname", "nickname"}

\* "bad" stands for the words of initializeBannedWords, "left" for a word of
\* the leave notice, which an operator can ban.
MCWords        == {"bad", "left"}
MCBannedWords  == {"bad"}
MCNoticeWords  == {"left"}

\* atoi gives 0 for text that is not a number.
MCLimits == {0, 1, 2}
==============================================================================
