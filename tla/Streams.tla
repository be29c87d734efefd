------------------------------ MODULE Streams ------------------------------
(***************************************************************************)
(* What the tunnel promises the caller of connectTCP, without messages,    *)
(* sessions or timers: a call ends in one of two ways, once; an accepted   *)
(* call delivers what the target produced, in order and without gaps, to   *)
(* the moment it ends; and a stream that ends cleanly has delivered all of *)
(* it, unless the connection to the target was cut short of its end.       *)
(***************************************************************************)
EXTENDS Naturals, FiniteSets

CONSTANTS Calls,      \* the calls
          MaxChunks   \* bound: chunks the target of a call produces

VARIABLES
    phase,      \* phase[c]: where the call is
    made,       \* made[c]: chunks the target has produced
    got,        \* got[c]: chunks the caller has been given
    cut         \* calls whose connection to the target was cut short

vars == <<phase, made, got, cut>>

Over == {"failed", "ended", "broken", "cancelled"}
Phase == {"idle", "calling", "open"} \cup Over

TypeOK ==
    /\ phase \in [Calls -> Phase]
    /\ made \in [Calls -> 0 .. MaxChunks]
    /\ got \in [Calls -> 0 .. MaxChunks]
    /\ cut \subseteq Calls

Init ==
    /\ phase = [c \in Calls |-> "idle"]
    /\ made = [c \in Calls |-> 0]
    /\ got = [c \in Calls |-> 0]
    /\ cut = {}

Move(c, from, to) ==
    /\ phase[c] = from
    /\ phase' = [phase EXCEPT ![c] = to]
    /\ UNCHANGED <<made, got, cut>>

Request(c) == Move(c, "idle", "calling")
Accepted(c) == Move(c, "calling", "open")
Cancelled(c) == Move(c, "open", "cancelled") \/ Move(c, "ended", "cancelled")

\* The target produces: before the client knows that it is connected, and also
\* after the client has lost interest.
Produce(c) ==
    /\ phase[c] # "idle"
    /\ made[c] < MaxChunks
    /\ made' = [made EXCEPT ![c] = @ + 1]
    /\ UNCHANGED <<phase, got, cut>>

Deliver(c) ==
    /\ phase[c] = "open"
    /\ got[c] < made[c]
    /\ got' = [got EXCEPT ![c] = @ + 1]
    /\ UNCHANGED <<phase, made, cut>>

CleanEnd(c) ==
    /\ got[c] = made[c] \/ c \in cut
    /\ Move(c, "open", "ended")

\* The connection to the target is closed under the calls cs.
CutShort(cs) ==
    /\ \A c \in cs : phase[c] # "idle"
    /\ cut' = cut \cup cs
    /\ UNCHANGED <<phase, made, got>>

\* A call, or all that are in progress, fail or break together.
Fail(cs) ==
    /\ \A c \in cs : phase[c] \in {"calling", "open"}
    /\ phase' = [c \in Calls |-> IF c \notin cs THEN phase[c]
                                 ELSE IF phase[c] = "calling" THEN "failed"
                                      ELSE "broken"]
    /\ UNCHANGED <<made, got, cut>>

Next ==
    \/ \E c \in Calls : \/ Request(c) \/ Accepted(c) \/ Cancelled(c)
                        \/ Produce(c) \/ Deliver(c) \/ CleanEnd(c)
    \/ \E cs \in SUBSET Calls : CutShort(cs) \/ Fail(cs)

Spec == Init /\ [][Next]_vars
=============================================================================
