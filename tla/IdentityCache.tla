--------------------------- MODULE IdentityCache ---------------------------
(***************************************************************************)
(* IdentityCache and the server name callback of TlsAcceptor               *)
(* (src/connmgr/tls.rs): the certificates of the server are read from      *)
(* files when a handshake asks for them and kept for as long as the files  *)
(* do not change.  The workers share the cache; whoever renews a           *)
(* certificate writes its two files one after the other, at any time.      *)
(*                                                                         *)
(* A file is its version and the time it was modified, which every write   *)
(* advances.  A certificate and a key belong together if they are of the   *)
(* same version.                                                           *)
(***************************************************************************)
EXTENDS Naturals, Sequences

CONSTANTS Names,       \* of the identities there may be files for
          Candidates,  \* what the name of a handshake is looked up as, in order
          Workers, Versions,
          WriteMax, LookupMax,  \* bounds of the writes and of the handshakes
          None

VARIABLES files,    \* the cert and the key of each name
          now,      \* the time of the last write
          data,     \* IdentityCache: the identities that are loaded
          lock,     \* who has the mutex of data
          worker,   \* the handshakes: where they are and what they have read
          touched   \* names whose files were written during a worker's handshake

vars == <<files, now, data, lock, worker, touched>>

Absent == [v |-> None, t |-> 0]
Idle == [pc |-> "idle", i |-> 1, t |-> 0, v |-> None, got |-> None, lookups |-> 0]

Init ==
    /\ \E have \in SUBSET Names :
          LET f(n) == IF n \in have THEN [v |-> 1, t |-> 1] ELSE Absent
          IN  files = [n \in Names |-> [cert |-> f(n), key |-> f(n)]]
    /\ now = 1
    /\ data = [n \in Names |-> None]
    /\ lock = None
    /\ worker = [w \in Workers |-> Idle]
    /\ touched = [w \in Workers |-> {}]

-----------------------------------------------------------------------------
(* The files                                                               *)

\* A file is written or, with the version None, removed.
Write(n, f, v) ==
    /\ now <= WriteMax /\ now' = now + 1
    /\ files' = [files EXCEPT ![n][f] = IF v = None THEN Absent ELSE [v |-> v, t |-> now + 1]]
    /\ touched' = [w \in Workers |-> touched[w] \cup {n}]
    /\ UNCHANGED <<data, lock, worker>>

-----------------------------------------------------------------------------
(* The server name callback: get_by_domain, then the default certificate.  *)

Name(w) == Candidates[worker[w].i]
Cached(w) == data[Name(w)]
File(w, f) == files[Name(w)][f]

Go(w, pc) == worker' = [worker EXCEPT ![w].pc = pc]

servername_callback(w) ==
    /\ worker[w].pc = "idle" /\ worker[w].lookups < LookupMax
    /\ worker' = [worker EXCEPT ![w] = [Idle EXCEPT !.pc = "lock", !.lookups = worker[w].lookups + 1]]
    /\ touched' = [touched EXCEPT ![w] = {}]
    /\ UNCHANGED <<files, now, data, lock>>

\* ensure_updated takes the mutex, and compares the files of an identity it has.
ensure_updated(w) ==
    /\ worker[w].pc = "lock" /\ lock = None
    /\ lock' = w
    /\ Go(w, IF Cached(w) = None THEN "stat_cert" ELSE "check_cert")
    /\ UNCHANGED <<files, now, data, touched>>

\* modified_after, one file after the other; a file that is gone counts as
\* modified ("unwrap_or(true)").
modified_after(w) ==
    /\ worker[w].pc \in {"check_cert", "check_key"}
    /\ LET f == File(w, IF worker[w].pc = "check_cert" THEN "cert" ELSE "key")
       IN  IF f.v = None \/ f.t > Cached(w).t THEN Go(w, "stat_cert") /\ UNCHANGED lock
           ELSE IF worker[w].pc = "check_cert" THEN Go(w, "check_key") /\ UNCHANGED lock
           ELSE Go(w, "get") /\ lock' = None
    /\ UNCHANGED <<files, now, data, touched>>

\* Identity::from_name: the times of both files, then what is in them.
from_name(w) ==
    /\ \/ /\ worker[w].pc = "stat_cert" /\ File(w, "cert").v # None
          /\ worker' = [worker EXCEPT ![w].pc = "stat_key", ![w].t = File(w, "cert").t]
          /\ UNCHANGED <<data, lock>>
       \/ /\ worker[w].pc = "stat_key" /\ File(w, "key").v # None
          /\ worker' = [worker EXCEPT ![w].pc = "load_cert",
                                      ![w].t = IF File(w, "key").t > @ THEN File(w, "key").t ELSE @]
          /\ UNCHANGED <<data, lock>>
       \/ /\ worker[w].pc = "load_cert" /\ File(w, "cert").v # None
          /\ worker' = [worker EXCEPT ![w].pc = "load_key", ![w].v = File(w, "cert").v]
          /\ UNCHANGED <<data, lock>>
       \/ /\ worker[w].pc = "load_key" /\ File(w, "key").v = worker[w].v
          /\ data' = [data EXCEPT ![Name(w)] = [v |-> worker[w].v, t |-> worker[w].t]]
          /\ Go(w, "get") /\ lock' = None
    /\ UNCHANGED <<files, now, touched>>

\* An identity that cannot be loaded is left as it was.
NotLoaded(w) ==
    /\ \/ worker[w].pc \in {"stat_cert", "load_cert"} /\ File(w, "cert").v = None
       \/ worker[w].pc = "stat_key" /\ File(w, "key").v = None
       \/ worker[w].pc = "load_key" /\ File(w, "key").v # worker[w].v
    /\ Go(w, "get") /\ lock' = None
    /\ UNCHANGED <<files, now, data, touched>>

\* get_by_name, with the mutex again, and the next name if there is nothing.
get_by_name(w) ==
    /\ worker[w].pc = "get" /\ lock = None
    /\ \/ /\ Cached(w) # None
          /\ worker' = [worker EXCEPT ![w].pc = "served", ![w].got = Cached(w).v]
       \/ /\ Cached(w) = None /\ worker[w].i < Len(Candidates)
          /\ worker' = [worker EXCEPT ![w].pc = "lock", ![w].i = @ + 1]
       \/ /\ Cached(w) = None /\ worker[w].i = Len(Candidates)
          /\ Go(w, "refused")
    /\ UNCHANGED <<files, now, data, lock, touched>>

\* The handshake goes on with the identity, or with an alert.
Finish(w) ==
    /\ worker[w].pc \in {"served", "refused"} /\ Go(w, "idle")
    /\ UNCHANGED <<files, now, data, lock, touched>>

Next ==
    \/ \E n \in Names, f \in {"cert", "key"}, v \in Versions \cup {None} : Write(n, f, v)
    \/ \E w \in Workers :
          \/ servername_callback(w) \/ ensure_updated(w) \/ modified_after(w)
          \/ from_name(w) \/ NotLoaded(w) \/ get_by_name(w) \/ Finish(w)

Spec == Init /\ [][Next]_vars

-----------------------------------------------------------------------------
(* Properties                                                              *)

TypeOK ==
    /\ lock \in Workers \cup {None}
    /\ \A n \in Names : data[n] # None => data[n].v \in Versions

\* The files of a name are a pair and were left alone during the handshake.
Settled(w, n) ==
    /\ n \notin touched[w]
    /\ files[n].cert.v # None /\ files[n].cert.v = files[n].key.v

\* A handshake is served with what is in the files, and with the first of its
\* candidates that there are files for, unless the files are being written,
\* whatever was loaded before, half written or removed meanwhile.
ServedIsCurrent ==
    \A w \in Workers :
        LET n == Candidates[worker[w].i]
        IN  /\ worker[w].pc = "served" =>
                  /\ Settled(w, n) => worker[w].got = files[n].cert.v
                  /\ \A i \in 1..(worker[w].i - 1) : ~Settled(w, Candidates[i])
            /\ worker[w].pc = "refused" => \A i \in DOMAIN Candidates : ~Settled(w, Candidates[i])
=============================================================================
