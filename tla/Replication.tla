---------------------------- MODULE Replication ----------------------------
(***************************************************************************)
(* Several replicas of one server.  Peers create events on top of what     *)
(* their own replica holds (ManagedDag::create_and_insert), gossip them,   *)
(* and answer each other's heads with the events the other lacks           *)
(* (EventDag::events_since).  Gossip loses, repeats and reorders: `sent'   *)
(* only grows, and any event of it may reach any replica at any time.      *)
(* A replica is a log in the sense of ReplicaLog, which ManagedDag         *)
(* implements: its pending buffer is what delays an event's insertion.     *)
(*                                                                         *)
(* The materialised state is cut down to what a permission decides: who    *)
(* may send messages, and which messages are shown.  The owner is the one  *)
(* admin.  A restart loses the replica, as the client's does.              *)
(***************************************************************************)
EXTENDS Integers, Sequences, FiniteSets

CONSTANTS
    Replica,
    Creator,        \* author of the genesis event
    SyncProvider,   \* the peers that answer a SyncRequestV2: holders of SyncProvider
    EventHash,      \* hashes; at most that many events beside genesis
    Limit,          \* the events that fit one answer
    MaxReloads      \* bound on reloads

ASSUME ReplicationAssumption ==
    /\ IsFiniteSet(Replica)
    /\ Creator \in Replica /\ SyncProvider \subseteq Replica /\ EventHash \subseteq Nat \ {0, 1}
    /\ Limit \in Nat \ {0} /\ MaxReloads \in Nat

VARIABLES
    log,            \* per replica: the events inserted and applied, in order
    state,          \* per replica: the state maintained by apply_incremental
    sent,           \* the events ever broadcast
    reloads

replicationVars == <<log, state, sent, reloads>>

Zero == 0

Kind == {"CreateServer", "Grant", "Revoke", "Message"}

GenesisEvent == [hash |-> 1, author |-> Creator, seq |-> 1, prev |-> Zero, deps |-> {},
                 kind |-> "CreateServer", peer |-> Creator]

Signed == [hash : EventHash \cup {1}, author : Replica, seq : Nat, prev : Nat,
           deps : SUBSET Nat, kind : Kind, peer : Replica]

Log(r) == INSTANCE ReplicaLog WITH Event <- Signed, log <- log[r]

-----------------------------------------------------------------------------
(* The state: materialize.rs.                                              *)

\* ServerState::new.
NewState == [senders |-> {}, shown |-> {}]

\* check_permission; the owner is the admin.
Permitted(st, e) ==
    \/ e.author = Creator
    \/ e.kind = "CreateServer"
    \/ e.kind = "Message" /\ e.author \in st.senders

\* apply_event: a rejected event changes nothing.
ApplyEvent(st, e) ==
    CASE ~ Permitted(st, e) -> st
      [] Permitted(st, e) /\ e.kind = "Grant" ->
            [st EXCEPT !.senders = @ \cup {e.peer}]
      [] Permitted(st, e) /\ e.kind = "Revoke" ->
            [st EXCEPT !.senders = @ \ {e.peer}]
      [] Permitted(st, e) /\ e.kind = "Message" ->
            [st EXCEPT !.shown = @ \cup {e.hash}]
      [] OTHER -> st

\* materialize, on the events in their order.
Replay(l) ==
    LET upTo[n \in 0 .. Len(l)] == IF n = 0 THEN NewState ELSE ApplyEvent(upTo[n - 1], l[n])
    IN  upTo

\* causal_parents, of which only those present count.
Parents(e) == ({e.prev} \ {Zero}) \cup e.deps

\* Mutant of Ready: only an author's own chain orders events.
ReadyByChain(es) ==
    {e \in es : e.prev \notin {f.hash : f \in es}}

\* The events whose parents among `es' have all been taken.
Ready(es) == {e \in es : Parents(e) \cap {f.hash : f \in es} = {}}

\* topological_sort: Kahn's algorithm, the least hash first.
TopologicalSort(all) ==
    LET sort[es \in SUBSET all] ==
          IF Ready(es) = {} THEN <<>>
          ELSE LET e == CHOOSE f \in Ready(es) : \A g \in Ready(es) : f.hash <= g.hash
               IN  <<e>> \o sort[es \ {e}]
    IN  sort[all]

Materialize(all) ==
    LET order == TopologicalSort(all)
    IN  Replay(order)[Len(order)]

-----------------------------------------------------------------------------
(* Replicas.                                                               *)

Events(l) == {l[i] : i \in DOMAIN l}

Dag(r) == Events(log[r])

ChainOf(r, a) == {e \in Dag(r) : e.author = a}

LatestSeq(r, a) == Cardinality(ChainOf(r, a))

HeadOf(r, a) ==
    IF ChainOf(r, a) = {} THEN Zero
    ELSE (CHOOSE e \in ChainOf(r, a) : e.seq = LatestSeq(r, a)).hash

ReplicationInit ==
    /\ log = [r \in Replica |-> IF r = Creator THEN <<GenesisEvent>> ELSE <<>>]
    /\ state = [r \in Replica |-> NewState]
    /\ sent = {GenesisEvent}
    /\ reloads = 0

\* What a replica makes of one event: one that does not follow waits or is dropped.
Accept(rep, e) ==
    IF Log(Creator)!Follows(rep.log, e)
    THEN [log |-> Append(rep.log, e), state |-> ApplyEvent(rep.state, e)]
    ELSE rep

Accepted(rep, batch) ==
    LET upTo[n \in 0 .. Len(batch)] == IF n = 0 THEN rep ELSE Accept(upTo[n - 1], batch[n])
    IN  upTo

Insert(r, batch) ==
    LET rep == Accepted([log |-> log[r], state |-> state[r]], batch)[Len(batch)]
    IN  /\ log' = [log EXCEPT ![r] = rep.log]
        /\ state' = [state EXCEPT ![r] = rep.state]

\* Mutant of CausalDeps: an event names no parents but its predecessor.
NoCausalDeps(r) == {}

\* The deps of create_and_insert: the heads of the other authors.
CausalDeps(r) == {HeadOf(r, a) : a \in Replica \ {r}} \ {Zero}

\* Mutant of NewEvent: the sequence number is the last one.
NewEventSameSeq(r, h, kind, peer) ==
    [hash |-> h, author |-> r, seq |-> LatestSeq(r, r), prev |-> HeadOf(r, r),
     deps |-> CausalDeps(r), kind |-> kind, peer |-> peer]

\* create_event on the replica of its author.
NewEvent(r, h, kind, peer) ==
    [hash |-> h, author |-> r, seq |-> LatestSeq(r, r) + 1, prev |-> HeadOf(r, r),
     deps |-> CausalDeps(r), kind |-> kind, peer |-> peer]

\* create_and_insert, then broadcast.  The replica counts as synced once it has
\* genesis, and the author's permission is checked before signing.
Create(r, h, kind, peer) ==
    LET e == NewEvent(r, h, kind, peer)
    IN  /\ log[r] # <<>>
        /\ h \notin {f.hash : f \in sent}
        /\ Permitted(state[r], e)
        /\ Insert(r, <<e>>)
        /\ sent' = sent \cup {e}
        /\ UNCHANGED reloads

\* An event of the gossip reaches a replica and is inserted, at once or from the
\* pending buffer.  GenesisEvent is there before anybody listens: it comes by Sync.
Deliver(r, e) ==
    /\ e # GenesisEvent
    /\ Log(r)!Follows(log[r], e)
    /\ Insert(r, <<e>>)
    /\ UNCHANGED <<sent, reloads>>

\* Mutant of Since: the first event that the requester lacks is skipped.
SinceNext(s, a, seq) ==
    LET last == LatestSeq(s, a)
    IN  [i \in 1 .. IF last <= seq THEN 0 ELSE last - seq - 1 |->
            CHOOSE e \in ChainOf(s, a) : e.seq = seq + 1 + i]

\* The events of a chain but its first seq.
Since(s, a, seq) ==
    LET last == LatestSeq(s, a)
    IN  [i \in 1 .. IF last <= seq THEN 0 ELSE last - seq |->
            CHOOSE e \in ChainOf(s, a) : e.seq = seq + i]

\* Arbitrary orders of the authors, those of a hash map.
Orders == {o \in [1 .. Cardinality(Replica) -> Replica] : \A i, j \in DOMAIN o : o[i] = o[j] => i = j}

\* What r lacks of what s has: chain after chain, from the requester's numbers on.
Walk(s, r, authors) ==
    LET upTo[n \in 0 .. Len(authors)] ==
            IF n = 0 THEN <<>> ELSE upTo[n - 1] \o Since(s, authors[n], LatestSeq(r, authors[n]))
    IN  upTo

\* events_since, as far as it fits one batch.
EventsSince(s, r, authors) ==
    LET all == Walk(s, r, authors)[Len(authors)]
    IN  SubSeq(all, 1, IF Len(all) < Limit THEN Len(all) ELSE Limit)

\* `r' sends its heads to `s', which answers with one batch, and inserts it.
Sync(r, s) ==
    /\ s \in SyncProvider
    /\ \E authors \in Orders : Insert(r, EventsSince(s, r, authors))
    /\ UNCHANGED <<sent, reloads>>

\* The client starts again: the DAG is not persisted.
Restart(r) ==
    /\ reloads < MaxReloads
    /\ reloads' = reloads + 1
    /\ log' = [log EXCEPT ![r] = <<>>]
    /\ state' = [state EXCEPT ![r] = NewState]
    /\ UNCHANGED sent

ReplicationNext ==
    \/ \E r \in Replica, h \in EventHash : Create(r, h, "Message", r)
    \/ \E r \in Replica, peer \in Replica \ {Creator}, h \in EventHash, kind \in {"Grant", "Revoke"} :
          Create(r, h, kind, peer)
    \/ \E r \in Replica, e \in sent : Deliver(r, e)
    \/ \E r, s \in Replica : Sync(r, s)
    \/ \E r \in Replica : Restart(r)

\* A client asks whenever a neighbour comes up, and neighbours come and go.
ReplicationSpec ==
    /\ ReplicationInit /\ [][ReplicationNext]_replicationVars
    /\ \A r \in Replica : \A s \in SyncProvider \ {r} : WF_replicationVars(Sync(r, s))

-----------------------------------------------------------------------------
(* Properties.                                                             *)

\* No author signs two events with one sequence number, so no two replicas can hold
\* different chains of an author.
AuthorsNeverFork ==
    \A e, f \in sent : e.author = f.author /\ e.seq = f.seq => e = f

\* Every replica's events can be sorted, all of them, each after those of its
\* causal parents that are there.
SortIsCausal ==
    \A r \in Replica :
        LET order == TopologicalSort(Dag(r))
        IN  /\ Len(order) = Len(log[r]) /\ Events(order) = Dag(r)
            /\ \A i, j \in DOMAIN order : order[j].hash \in Parents(order[i]) => j < i

\* The parents of all the events are among them.
Closed(es) == \A e \in es : \A h \in Parents(e) : \E f \in es : f.hash = h

\* The causal past of e is there.
PastIn(all, e) == \E es \in SUBSET all : e \in es /\ Closed(es)

\* A message that its author was permitted to send is shown by every full replay
\* that has its causal past, as long as nobody revoked the permission: the parents
\* an event names carry the grant it relies on.
GrantedMessagesShow ==
    \A r \in Replica : \A e \in Dag(r) :
        /\ e.kind = "Message" /\ PastIn(Dag(r), e)
        /\ \A f \in Dag(r) : f.kind = "Revoke" => f.peer # e.author
        => e.hash \in Materialize(Dag(r)).shown

\* Without a restart they do not.
OnlyRestartsFork == reloads = 0 => AuthorsNeverFork

\* Replicas that keep asking each other end up with the same events, whatever gossip
\* lost, however little fits an answer and through reloads, unless an author
\* forked.
DagsConverge ==
    <>[](AuthorsNeverFork => \A r, s \in Replica : Dag(r) = Dag(s))

\* Replicas that hold the same events show the same state.
SameDagSameState ==
    \A r, s \in Replica : Dag(r) = Dag(s) => state[r] = state[s]
=============================================================================
