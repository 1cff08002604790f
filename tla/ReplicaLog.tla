----------------------------- MODULE ReplicaLog -----------------------------
(***************************************************************************)
(* What a replica promises of the events of one server, whatever the order *)
(* in which they reach it: a log that starts with the server's creation    *)
(* and in which each author's events are one chain, without forks or       *)
(* holes.  ManagedDag implements it; Replication composes several of them. *)
(***************************************************************************)
EXTENDS Integers, Sequences

CONSTANT Event      \* records with author, seq, prev, hash and kind

VARIABLE log        \* the events applied, in order

\* `e' may be the next event of the log l.
Follows(l, e) ==
    /\ e.kind = "CreateServer" <=> l = <<>>
    /\ \A i \in 1 .. Len(l) : l[i].author = e.author => l[i].seq < e.seq
    /\ \/ e.seq = 1 /\ e.prev = 0
       \/ \E i \in 1 .. Len(l) :
            l[i].author = e.author /\ l[i].seq = e.seq - 1 /\ l[i].hash = e.prev

Accept(e) == Follows(log, e) /\ log' = Append(log, e)

Init == log = <<>>

Next == \E e \in Event : Accept(e)

Spec == Init /\ [][Next]_log
=============================================================================
