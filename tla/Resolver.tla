------------------------------ MODULE Resolver ------------------------------
(***************************************************************************)
(* The resolver of src/connmgr/resolver.rs: connections make queries that  *)
(* a pool of threads answers.  A query takes a slot of a slab and an event *)
(* registration of a pool; both are reused by later queries while a thread *)
(* may still be resolving the name of the query that had them, so a query  *)
(* that is dropped invalidates the flag of its thread.  Each step is what  *)
(* is done under one lock.                                                 *)
(***************************************************************************)
EXTENDS Naturals, Sequences, SequencesExt, FiniteSets

CONSTANTS Threads,     \* resolver threads
          Clients,     \* connections, each with at most one query
          Hosts,       \* host names, one of them too long
          TooLong,
          QueriesMax,  \* slots
          QueryMax,    \* bound on the queries made
          None

VARIABLES
    stop, nodes, next, registrations,  \* QueriesInner
    invalidated,  \* the flag of each thread
    tpc, tkey, thost,  \* thread: where it is, the slot and the host it resolves
    query,        \* the clients' futures
    made

vars == <<stop, nodes, next, registrations, invalidated, tpc, tkey, thost, query, made>>
threads == <<tpc, tkey, thost>>

Keys == 1..QueriesMax
Failed == "invalid_input"

Fresh == [st |-> "none", host |-> None, key |-> 0, evented |-> FALSE, ready |-> FALSE,
          event |-> FALSE, early |-> FALSE, answer |-> None]

\* Query states: new, registered, missed (no result found yet), pending,
\* done, dropping (deregistered from the reactor); a registration in the pool
\* may still hold the readiness of an earlier query.
Init ==
    /\ stop = FALSE /\ nodes = [k \in Keys |-> None] /\ next = <<>>
    /\ registrations = [k \in Keys |-> FALSE]
    /\ invalidated = [t \in Threads |-> FALSE]
    /\ tpc = [t \in Threads |-> "idle"] /\ tkey = [t \in Threads |-> 0]
    /\ thost = [t \in Threads |-> None]
    /\ query = [c \in Clients |-> Fresh] /\ made = 0

Free == {k \in Keys : nodes[k] = None}
Live(c) == query[c].st \notin {"none", "refused"}

\* Readiness set on the registration of a slot's query: an event once the
\* registration is with the reactor, else kept in the registration.
SetReadiness(q) == IF q.evented THEN [q EXCEPT !.event = TRUE] ELSE [q EXCEPT !.early = TRUE]

-----------------------------------------------------------------------------
(* Connections                                                             *)

\* notify_one.
Notify ==
    LET waiting == {t \in Threads : tpc[t] = "wait"}
    IN  \/ waiting = {} /\ UNCHANGED tpc
        \/ \E t \in waiting : tpc' = [tpc EXCEPT ![t] = "idle"]

\* Queries::add, through Resolver::resolve.
Resolve(c, host) ==
    /\ query[c].st = "none" /\ made < QueryMax /\ ~stop
    /\ made' = made + 1
    /\ \/ /\ Free = {}
          /\ query' = [query EXCEPT ![c] = [Fresh EXCEPT !.st = "refused"]]
          /\ UNCHANGED <<nodes, next, registrations, tpc>>
       \/ \E k \in Free :
          LET early == registrations[Len(registrations)]
              q == [Fresh EXCEPT !.st = "new", !.host = host, !.key = k, !.early = early]
          IN  /\ registrations' = SubSeq(registrations, 1, Len(registrations) - 1)
              /\ \/ /\ host # TooLong
                    /\ nodes' = [nodes EXCEPT ![k] = [host |-> host, result |-> None, flag |-> None]]
                    /\ next' = Append(next, k)
                    /\ query' = [query EXCEPT ![c] = q]
                    /\ Notify
                 \/ /\ host = TooLong
                    /\ nodes' = [nodes EXCEPT ![k] = [host |-> None, result |-> Failed, flag |-> None]]
                    /\ query' = [query EXCEPT ![c] = SetReadiness(q)]
                    /\ UNCHANGED <<next, tpc>>
    /\ UNCHANGED <<stop, invalidated, tkey, thost>>

Set(c, q) == query' = [query EXCEPT ![c] = q]

\* QueryFuture::poll for the first time: the registration goes to the reactor.
PollRegister(c) ==
    /\ query[c].st = "new"
    /\ Set(c, [query[c] EXCEPT !.st = "registered", !.evented = TRUE, !.ready = TRUE,
                               !.event = query[c].early, !.early = FALSE])
    /\ UNCHANGED <<stop, nodes, next, registrations, invalidated, threads, made>>

\* Query::process.
PollProcess(c) ==
    /\ query[c].st = "registered"
    /\ LET k == query[c].key
       IN  \/ /\ nodes[k].result # None
              /\ Set(c, [query[c] EXCEPT !.st = "done", !.answer = nodes[k].result])
              /\ nodes' = [nodes EXCEPT ![k].result = None]
           \/ /\ nodes[k].result = None
              /\ Set(c, [query[c] EXCEPT !.st = "missed"])
              /\ UNCHANGED nodes
    /\ UNCHANGED <<stop, next, registrations, invalidated, threads, made>>

PollUnready(c) ==
    /\ query[c].st = "missed"
    /\ Set(c, [query[c] EXCEPT !.st = "pending", !.ready = FALSE])
    /\ UNCHANGED <<stop, nodes, next, registrations, invalidated, threads, made>>

\* The reactor delivers the event and the future is polled again.
React(c) ==
    /\ query[c].st = "pending" /\ query[c].event
    /\ Set(c, [query[c] EXCEPT !.st = "registered", !.event = FALSE, !.ready = TRUE])
    /\ UNCHANGED <<stop, nodes, next, registrations, invalidated, threads, made>>

\* QueryFuture::drop, before the query itself is dropped.
Deregister(c) ==
    /\ query[c].st \in {"new", "registered", "missed", "pending", "done"}
    /\ Set(c, [query[c] EXCEPT !.st = "dropping", !.evented = FALSE, !.event = FALSE])
    /\ UNCHANGED <<stop, nodes, next, registrations, invalidated, threads, made>>

\* Mutant: the flag of the thread stays.
RemoveQuery_keeps_flag(c) ==
    /\ query[c].st = "dropping"
    /\ LET k == query[c].key
       IN  /\ next' = RemoveFirst(next, k)
           /\ nodes' = [nodes EXCEPT ![k] = None]
           /\ UNCHANGED invalidated
    /\ registrations' = Append(registrations, query[c].early)
    /\ Set(c, Fresh)
    /\ UNCHANGED <<stop, threads, made>>

\* Queries::remove; the registration goes back to the pool as it is.
RemoveQuery(c) ==
    /\ query[c].st = "dropping"
    /\ LET k == query[c].key
       IN  /\ next' = RemoveFirst(next, k)
           /\ nodes' = [nodes EXCEPT ![k] = None]
           /\ invalidated' = [t \in Threads |-> invalidated[t] \/ nodes[k].flag = t]
    /\ registrations' = Append(registrations, query[c].early)
    /\ Set(c, Fresh)
    /\ UNCHANGED <<stop, threads, made>>

\* The future of a refused query returns OutOfMemory.
Refused(c) ==
    /\ query[c].st = "refused"
    /\ Set(c, Fresh)
    /\ UNCHANGED <<stop, nodes, next, registrations, invalidated, threads, made>>

\* ResolverInner::stop, when the last worker has let go of the resolver.
Stop ==
    /\ ~stop /\ \A c \in Clients : query[c].st = "none"
    /\ stop' = TRUE
    /\ tpc' = [t \in Threads |-> IF tpc[t] = "wait" THEN "idle" ELSE tpc[t]]
    /\ UNCHANGED <<nodes, next, registrations, invalidated, tkey, thost, query, made>>

-----------------------------------------------------------------------------
(* Resolver threads                                                        *)

\* Queries::get_next, from one wait to the next.
GetNext(t) ==
    /\ tpc[t] = "idle"
    /\ \/ /\ stop
          /\ tpc' = [tpc EXCEPT ![t] = "ended"]
          /\ UNCHANGED <<nodes, next, invalidated, tkey, thost>>
       \/ /\ ~stop /\ next # <<>>
          /\ LET k == Head(next)
             IN  /\ next' = Tail(next)
                 /\ nodes' = [nodes EXCEPT ![k].flag = t]
                 /\ invalidated' = [invalidated EXCEPT ![t] = FALSE]
                 /\ tkey' = [tkey EXCEPT ![t] = k]
                 /\ thost' = [thost EXCEPT ![t] = nodes[k].host]
                 /\ tpc' = [tpc EXCEPT ![t] = "resolve"]
       \/ /\ ~stop /\ next = <<>>
          /\ tpc' = [tpc EXCEPT ![t] = "wait"]
          /\ UNCHANGED <<nodes, next, invalidated, tkey, thost>>
    /\ UNCHANGED <<stop, registrations, query, made>>

\* Queries::set_result: the result of a query that is gone is discarded.
SetResult(t) ==
    /\ tpc[t] = "resolve"
    /\ tpc' = [tpc EXCEPT ![t] = "idle"]
    /\ \/ /\ ~invalidated[t] /\ nodes[tkey[t]] # None
          /\ nodes' = [nodes EXCEPT ![tkey[t]].result = thost[t], ![tkey[t]].flag = None]
          /\ query' = [c \in Clients |-> IF Live(c) /\ query[c].key = tkey[t]
                                         THEN SetReadiness(query[c]) ELSE query[c]]
       \/ /\ invalidated[t] \/ nodes[tkey[t]] = None
          /\ UNCHANGED <<nodes, query>>
    /\ tkey' = [tkey EXCEPT ![t] = 0] /\ thost' = [thost EXCEPT ![t] = None]
    /\ UNCHANGED <<stop, next, registrations, invalidated, made>>

Next ==
    \/ \E c \in Clients :
          \/ \E h \in Hosts : Resolve(c, h)
          \/ PollRegister(c) \/ PollProcess(c) \/ PollUnready(c) \/ React(c)
          \/ Deregister(c) \/ RemoveQuery(c) \/ Refused(c)
    \/ Stop
    \/ \E t \in Threads : GetNext(t) \/ SetResult(t)

Spec == Init /\ [][Next]_vars

-----------------------------------------------------------------------------
(* Properties                                                              *)

\* A query gets the addresses of its own host, whatever slots, registrations
\* and threads it took over from queries that were dropped.
AnswersOwnQuery ==
    \A c \in Clients :
        query[c].st = "done" =>
            query[c].answer = (IF query[c].host = TooLong THEN Failed ELSE query[c].host)

\* The assertion at the head of a thread's loop (no query still holds its
\* flag), the slab index in set_result, and the registration that add takes
\* out of the pool without a check.
ResolverSound ==
    /\ \A t \in Threads : tpc[t] = "idle" => \A k \in Keys : nodes[k] # None => nodes[k].flag # t
    /\ \A t \in Threads : tpc[t] = "resolve" /\ ~invalidated[t] => nodes[tkey[t]] # None
    /\ Len(registrations) = Cardinality(Free)

\* No query is forgotten: one that waits for a thread has a thread that is
\* not asleep, one that waits for its answer is resolved or queued, and one
\* whose answer is there has an event on its way.
NoQueryLost ==
    /\ next # <<>> /\ ~stop => \E t \in Threads : tpc[t] # "wait"
    /\ \A c \in Clients :
          query[c].st = "pending" =>
              LET k == query[c].key
              IN  IF nodes[k].result # None THEN query[c].event
                  ELSE \/ \E i \in DOMAIN next : next[i] = k
                       \/ \E t \in Threads : tpc[t] = "resolve" /\ tkey[t] = k /\ ~invalidated[t]

\* The resolver as a whole.
QueriesAnswered == AnswersOwnQuery /\ NoQueryLost /\ ResolverSound
=============================================================================
