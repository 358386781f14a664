----------------------------- MODULE MCPollLoop -----------------------------
(* Values for the constants of PollLoop.                                   *)
EXTENDS PollLoop, TLC

MCTwoSockets   == {4, 5}
MCThreeSockets == {4, 5, 6}
==============================================================================
