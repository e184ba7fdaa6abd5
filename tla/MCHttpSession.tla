---------------------------- MODULE MCHttpSession ----------------------------
(* Instances of HttpSession for TLC.                                          *)
EXTENDS HttpSession

CONSTANTS a, b

Instruct(hold, names, next, timeout, ids, body) ==
    [hold |-> hold, names |-> names, next |-> next, timeout |-> timeout,
     poll |-> next, ids |-> ids, body |-> body]

\* A stream that follows the ids of one channel, and its next links: the same
\* hold, another page, the end, and a hold it must not answer with.
OneChannel == {a}
StreamFirst == {Instruct("stream", {a}, TRUE, TRUE, TRUE, TRUE), Instruct("none", {a}, TRUE, FALSE, TRUE, FALSE)}
StreamNext == {Instruct("stream", {a}, TRUE, TRUE, TRUE, FALSE),
               Instruct("stream", {a}, FALSE, FALSE, TRUE, FALSE),
               Instruct("none", {}, TRUE, FALSE, FALSE, FALSE),
               Instruct("none", {}, FALSE, FALSE, FALSE, FALSE),
               Instruct("response", {a}, TRUE, TRUE, TRUE, FALSE)}

\* A response hold, with and without a timeout and ids.
ResponseFirst == {Instruct("response", {a}, next, timeout, ids, FALSE) :
                     next \in BOOLEAN, timeout \in BOOLEAN, ids \in BOOLEAN}

\* A stream on two channels, one of them also implicit, whose next links change
\* the channels and which of them have ids.
TwoChannels == {a, b}
ImplicitB == {b}
ChangingFirst == {Instruct("stream", {a, b}, TRUE, TRUE, TRUE, FALSE),
                  Instruct("stream", {a}, TRUE, FALSE, FALSE, FALSE)}
ChangingNext == {Instruct("stream", {a}, TRUE, FALSE, TRUE, FALSE),
                 Instruct("stream", {a, b}, TRUE, TRUE, TRUE, FALSE),
                 Instruct("stream", {b}, TRUE, TRUE, FALSE, FALSE)}

\* Both kinds of holds.
HoldsFirst == ResponseFirst \cup ChangingFirst

-----------------------------------------------------------------------------
\* The constants of the configuration are those of a stream on one channel; a
\* behaviour is one of it, of the holds, or of the lasting stream.
Holds == INSTANCE HttpSession WITH
    Channels <- TwoChannels, Implicit <- ImplicitB, FirstInstructs <- HoldsFirst,
    NextInstructs <- ChangingNext, Debug <- TRUE, QueueMax <- 2, RetryMax <- 0,
    LogMax <- 1, BodyMax <- 0

\* A stream that goes on for ever, for the liveness property.
Lasting == {Instruct("stream", {a}, TRUE, TRUE, TRUE, FALSE)}
Live == INSTANCE HttpSession WITH
    FirstInstructs <- Lasting, NextInstructs <- Lasting, GoneLink <- FALSE, BodyMax <- 0,
    Actions <- {"send"}, FilterResults <- {"send", "drop"}

VARIABLE part   \* "stream", "holds" or "live"

MCInit ==
    \/ part = "stream" /\ Init
    \/ part = "holds" /\ Holds!Init
    \/ part = "live" /\ Live!Init

MCNext ==
    \/ part = "stream" /\ Next /\ UNCHANGED part
    \/ part = "holds" /\ Holds!Next /\ UNCHANGED part
    \/ part = "live" /\ Live!Next /\ UNCHANGED part

MCSpec == MCInit /\ [][MCNext]_<<vars, part>>

LiveStep(A) == part = "live" /\ UNCHANGED part /\ A

\* The fairness of HttpSession!FairSpec, of the lasting stream.
MCFair ==
    /\ MCSpec
    /\ WF_<<vars, part>>(LiveStep(Live!Start \/ Live!ProcessQueue \/ Live!ProcessQueueStop))
    /\ SF_<<vars, part>>(LiveStep(Live!FiltersFinished))
    /\ WF_<<vars, part>>(LiveStep(Live!LimiterUpdate \/ Live!PollTimeout))
    /\ WF_<<vars, part>>(LiveStep(Live!OutReqHeaders \/ Live!OutReqBody \/ Live!RetryTimeout))
    /\ WF_<<vars, part>>(LiveStep(Live!ClientCredit \/ Live!ClientDone))

\* A session with a next link timeout ends up giving its client all that was
\* published on the channel it follows, lost publishes and failed next links
\* included, if it does not end (HttpSession).
CatchesUpAll == part = "live" => Live!CatchesUp
=============================================================================
