----------------------------- MODULE MCRegistry -----------------------------
(***************************************************************************)
(* Registry for TLC.  The queues of two transports have nothing to do with *)
(* each other, so one transport stands for all that send: the first, which *)
(* is the one that can be reconnected most often.                          *)
(***************************************************************************)
EXTENDS Registry

\* Bound: transports that are given messages to send.
Talkers == {1}

MCNext == Next /\ \A t \in Transports \ Talkers : made'[t] = made[t]

MCSpec == Init /\ [][MCNext]_vars /\ Fairness
=============================================================================
