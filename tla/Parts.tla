-------------------------------- MODULE Parts --------------------------------
(***************************************************************************)
(* Three parts that share no state: the limit on upgrades, the choice of a *)
(* route, the text commands.  A behaviour is about one of them, so that    *)
(* their states add up instead of multiplying.                             *)
(***************************************************************************)
EXTENDS Limits, Routing, Commands, TLC

VARIABLE focus      \* the part a behaviour is about

Init ==
    /\ focus \in {"limits", "routing", "commands"}
    /\ LimitsInit /\ RoutingInit /\ CommandsInit

Next ==
    \/ focus = "limits" /\ LimitsNext /\ UNCHANGED <<routingVars, commandsVars>>
    \/ focus = "routing" /\ RoutingNext /\ UNCHANGED <<limitsVars, commandsVars>>
    \/ focus = "commands" /\ CommandsNext /\ UNCHANGED <<limitsVars, routingVars>>

\* Of these no definition tells one from another.
Alike == Permutations(Clients) \cup Permutations(Hosts) \cup Permutations(Callers)
             \cup Permutations(Addresses \ China)

Spec == Init /\ [][Next /\ UNCHANGED focus]_<<focus, limitsVars, routingVars, commandsVars>>
=============================================================================
