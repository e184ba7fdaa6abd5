----------------------------- MODULE UpdatePolls -----------------------------
(***************************************************************************)
(* What a session relies on when it registers for the next link timeout:   *)
(* once registered it may be polled, that is update() may be called for    *)
(* it, which ends the registration; a session that is not registered is    *)
(* never polled.                                                           *)
(***************************************************************************)
CONSTANT Sessions

VARIABLES
    registered,    \* sessions registered
    polled         \* sessions polled by the last step

pollVars == <<registered, polled>>

Init == registered = {} /\ polled = {}

Register(hs) == registered' = registered \cup {hs} /\ polled' = {}

Unregister(hs) == registered' = registered \ {hs} /\ polled' = {}

Poll ==
    /\ polled' \subseteq registered
    /\ registered' = registered \ polled'

Next ==
    \/ \E hs \in Sessions : Register(hs) \/ Unregister(hs)
    \/ Poll

Spec == Init /\ [][Next]_pollVars
=============================================================================
