------------------------------- MODULE MCViews -------------------------------
(* Values for the constants of Views.  No client is unregistered here, so  *)
(* the default name is a name like another; the two others are told apart  *)
(* by nothing and may be exchanged.                                        *)
EXTENDS Views, TLC

CONSTANTS ann, bob

MCThreeSockets == {4, 5, 6}
MCNicks        == {ann, bob, DefaultNick}
MCWords        == {"bad"}
NickSymmetry   == Permutations({ann, bob})
==============================================================================
