--------------------------- MODULE MCServerWorker ---------------------------
(***************************************************************************)
(* Instances of ServerWorker for TLC: a worker that runs and stops, with   *)
(* the constants of the configuration, and one that only sends             *)
(* keep-alives, with more connections than the scan comes to.  A behaviour *)
(* is one of either; the invariants hold in both.                          *)
(***************************************************************************)
EXTENDS ServerWorker

KeepAlives == INSTANCE ServerWorker WITH
  AcceptMax <- 3, IdMax <- 3, SendMax <- 0, StopMax <- 0, ReplyTypes <- {"data"}

VARIABLE part   \* "worker" or "keepAlives"

MCInit ==
  \/ part = "worker" /\ Init
  \/ part = "keepAlives" /\ KeepAlives!Init

MCNext ==
  \/ part = "worker" /\ Next /\ UNCHANGED part
  \/ part = "keepAlives" /\ KeepAlives!Next /\ UNCHANGED part

mcvars == <<vars, part>>

\* A step of the first in the one part and of the second in the other.
Step(A, B) ==
  \/ part = "worker" /\ A /\ UNCHANGED part
  \/ part = "keepAlives" /\ B /\ UNCHANGED part

\* ServerWorker!Fairness, of each part.
MCFairness ==
  /\ WF_mcvars(Step(AcceptTask, KeepAlives!AcceptTask))
  /\ WF_mcvars(Step(KeepAlivesTask, KeepAlives!KeepAlivesTask))
  /\ WF_mcvars(Step(Manager, KeepAlives!Manager))
  /\ WF_mcvars(Step(RunStopping \/ (task.run # "run" /\ RunStop), FALSE))
  /\ \A m \in Modes : WF_mcvars(Step(HandleTask(m), KeepAlives!HandleTask(m)))
  /\ \A k \in KeepAlives!Keys :
       WF_mcvars(Step(k \in Keys /\ (ConnMsg(k) \/ ConnStop(k)), KeepAlives!ConnMsg(k) \/ KeepAlives!ConnStop(k)))

MCSpec == MCInit /\ [][MCNext]_mcvars /\ MCFairness

\* A session with a known handler gets its keep-alive, unless it ends, is
\* handed off or the worker stops, if the key of its connection is one of those
\* the scan comes to: however other connections come, go and take keys, there
\* comes again and again a time when no session waits for its keep-alive
\* (keep_alives_task).
KeepAlivesReach == []<>(part = "keepAlives" => \A n \in 0 .. 2 : KeepAlives!KeepAliveDone(n))
=============================================================================
