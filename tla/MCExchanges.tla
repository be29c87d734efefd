----------------------------- MODULE MCExchanges -----------------------------
(***************************************************************************)
(* Exchanges for TLC, with less data: two chunks in one direction or one   *)
(* in each.  A call made in the last session sees no further reconnection, *)
(* and meets nothing of the earlier sessions, as calls are explored one at *)
(* a time; what it does, one of the first session does too, and so it moves *)
(* one chunk only.                                                         *)
(***************************************************************************)
EXTENDS Exchanges

\* Bound: chunks of the request body and of the response, of a call made in s.
Amount(s) == IF s = MaxSessions THEN 1 ELSE MaxChunks

MCNext ==
    /\ Next
    /\ \A id \in Ids, s \in Sessions :
          home[id] = s => sent'[id] + produced'[s][id] <= Amount(s)

\* No step that must go on sends or reads a chunk of its own accord, so that the
\* bound keeps none of them from being taken.
MCSpec == Init /\ [][MCNext]_vars /\ WF_vars(MustGoOn)
=============================================================================
