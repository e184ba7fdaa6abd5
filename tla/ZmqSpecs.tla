------------------------------ MODULE ZmqSpecs ------------------------------
(***************************************************************************)
(* The endpoints of the socket managers' sockets: apply_specs of           *)
(* src/core/zmq.rs, which moves a socket from the specs it has to the ones *)
(* it is given, and the managers' SetClientStream and SetServerStream      *)
(* requests, which apply specs to three sockets in turn.  A bind, a        *)
(* connect or a change of permissions may fail at any spec.                *)
(*                                                                         *)
(* The specs are IPC ones, so that every bound endpoint has a file.        *)
(***************************************************************************)
EXTENDS Naturals, Sequences, SequencesExt

CONSTANTS Lists,       \* the lists of specs a socket may be given
          Paths,       \* the paths they name
          DefaultMode, \* permissions of a file that ZeroMQ creates
          ApplyMax     \* bound on the requests

VARIABLES
    socks,    \* the sockets, in the order in which the manager applies specs
    asked,    \* the lists of the last request
    outcome,  \* its response: none, ok, err
    applies

vars == <<socks, asked, outcome, applies>>

NoFile == 0
Order == 1..3

\* A socket: the specs it remembers, the endpoints ZeroMQ has, and the
\* permissions of the files they name.
NewSocket == [specs |-> <<>>, active |-> {}, file |-> [p \in Paths |-> NoFile]]

Key(spec) == <<spec.path, spec.bind>>
Keys(list) == {Key(list[i]) : i \in DOMAIN list}

Init ==
    /\ socks = [i \in Order |-> NewSocket]
    /\ asked = [i \in Order |-> <<>>]
    /\ outcome = "none" /\ applies = 0

-----------------------------------------------------------------------------

SetFile(s, spec, mode) ==
    IF spec.bind THEN [s EXCEPT !.file[spec.path] = mode] ELSE s

\* A bind creates the file and gives it the mode, if there is one.
setup_spec(s, spec) ==
    SetFile([s EXCEPT !.active = @ \cup {Key(spec)}], spec,
            IF spec.mode > 0 THEN spec.mode ELSE DefaultMode)

unsetup_spec(s, spec) ==
    SetFile([s EXCEPT !.active = @ \ {Key(spec)}], spec, NoFile)

SetupAll(s, list) == FoldLeft(setup_spec, s, list)
UnsetupAll(s, list) == FoldLeft(unsetup_spec, s, list)

ToRemove(s, new) == SelectSeq(s.specs, LAMBDA c : Key(c) \notin Keys(new))
ToAdd(s, new) == SelectSeq(new, LAMBDA n : Key(n) \notin Keys(s.specs))
ToUpdate(s, new) ==
    SelectSeq(new, LAMBDA n : \E i \in DOMAIN s.specs :
                 Key(s.specs[i]) = Key(n) /\ s.specs[i].mode # n.mode)

\* The specs of a list before the first one that fails.
Before(list, bad) ==
    SubSeq(list, 1, CHOOSE k \in 0..Len(list) :
                        /\ \A i \in 1..k : list[i].path \notin bad
                        /\ k = Len(list) \/ list[k + 1].path \in bad)

\* The mode of an update is set on the path, whichever way the spec goes.
SetMode(s, spec) ==
    IF spec.mode > 0 THEN [s EXCEPT !.file[spec.path] = spec.mode] ELSE s

UpdateFails(s, spec, bad) ==
    spec.mode > 0 /\ (spec.path \in bad \/ s.file[spec.path] = NoFile)

\* Mutant: the additions stay.
undo_adds_none(s, added) == s
undo_adds(s, added) == UnsetupAll(s, Reverse(added))

\* The recomputed list keeps what the socket had for a spec that stays.
Remembered(s, new) ==
    [i \in DOMAIN new |->
        IF Key(new[i]) \in Keys(s.specs)
        THEN s.specs[CHOOSE j \in DOMAIN s.specs :
                        /\ Key(s.specs[j]) = Key(new[i])
                        /\ \A k \in 1..(j - 1) : Key(s.specs[k]) # Key(new[i])]
        ELSE new[i]]

\* apply_specs: add, update, then remove; a failure undoes the additions and
\* the updates, and leaves what the socket remembers alone.
apply_specs(s, new, bad) ==
    LET added == Before(ToAdd(s, new), bad)
        withAdded == SetupAll(s, added)
        updates == ToUpdate(s, new)
        failed == {i \in DOMAIN updates : UpdateFails(withAdded, updates[i], bad)}
        updated == FoldLeft(SetMode, withAdded, updates)
        removed == UnsetupAll(updated, ToRemove(s, new))
    IN  IF added # ToAdd(s, new) \/ failed # {}
        THEN [sock |-> undo_adds(withAdded, added), ok |-> FALSE]
        ELSE [sock |-> [removed EXCEPT !.specs = Remembered(s, new)], ok |-> TRUE]

\* apply_stream_specs: each socket in turn, up to the first failure.
apply_stream_specs(all, new, bad) ==
    LET failing == {i \in Order : ~apply_specs(all[i], new[i], bad[i]).ok}
        first == IF failing = {} THEN 4 ELSE CHOOSE i \in failing : \A j \in failing : i <= j
    IN  [socks |-> [i \in Order |-> IF i <= first THEN apply_specs(all[i], new[i], bad[i]).sock
                                    ELSE all[i]],
         ok |-> failing = {}]

\* SetClientStream and SetServerStream; SetClientReq is the case of one socket.
SetSpecs(new, bad) ==
    /\ applies < ApplyMax
    /\ LET r == apply_stream_specs(socks, new, bad)
       IN  socks' = r.socks /\ outcome' = IF r.ok THEN "ok" ELSE "err"
    /\ asked' = new /\ applies' = applies + 1

\* ZmqSocket::drop: the manager stopped.
Drop ==
    /\ applies > 0
    /\ socks' = [i \in Order |-> [UnsetupAll(socks[i], socks[i].specs) EXCEPT !.specs = <<>>]]
    /\ asked' = [i \in Order |-> <<>>] /\ outcome' = "none" /\ applies' = ApplyMax

Next ==
    \/ \E a, b \in Lists, x, y \in SUBSET Paths :
          SetSpecs(<<a, b, a>>, <<x, y, {}>>)
    \/ Drop

Spec == Init /\ [][Next]_vars

-----------------------------------------------------------------------------
(* Properties                                                              *)

TypeOK ==
    /\ \A i \in Order : /\ \E l \in Lists : Keys(l) = Keys(socks[i].specs)
                        /\ socks[i].active \subseteq Paths \X BOOLEAN
    /\ outcome \in {"none", "ok", "err"} /\ applies \in 0..ApplyMax

\* What a socket remembers is what ZeroMQ has, after failures too: the next
\* request, and the drop, undo exactly the endpoints that exist, and no file
\* is left behind (apply_specs, "On fail, undo them").
SpecsMatch ==
    \A i \in Order :
        /\ socks[i].active = Keys(socks[i].specs)
        /\ \A p \in Paths : socks[i].file[p] # NoFile <=> <<p, TRUE>> \in socks[i].active

\* After a request that succeeds the files have the permissions it asked for.
\* It does not hold: what is remembered of a spec that stays is its old mode.
ModesApplied ==
    outcome = "ok" =>
        \A i \in Order : \A k \in DOMAIN asked[i] :
            LET s == asked[i][k]
            IN  s.bind /\ s.mode > 0 => socks[i].file[s.path] = s.mode
=============================================================================
