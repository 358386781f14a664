------------------------------ MODULE MCSystem ------------------------------
(* Values for the constants of System.                                     *)
EXTENDS System, TLC

MCTwoSockets == {4, 5}
MCNicks      == {"ann", "nickname"}

(* poll sets revents of every slot in use, and no step reads it in a slot  *)
(* the walk has passed, nor the descriptor of a slot that is not in use:   *)
(* states that differ only there have the same futures.                    *)
MCView ==
    << [j \in DOMAIN fds |->
          IF j >= nfds THEN fds[j].pollin
          ELSE [fds[j] EXCEPT !.pollin = @ /\ pc # "poll" /\ j >= i]],
       nfds, i, pc, stage, served, anonymous, shutdown, conn, backlog, line, tableVars >>
==============================================================================
