---------------------------- MODULE HistorySync ----------------------------
(***************************************************************************)
(* How a client that has just joined gets the history of its server over   *)
(* gossip (crates/client/src/listeners.rs, connect.rs, state_actors.rs):   *)
(* it sends SyncRequestV2 with its heads whenever a neighbour comes up, a  *)
(* SyncProvider streams what it lacks in batches that fit an envelope and  *)
(* ends with a HistorySyncComplete marker, and the client announces        *)
(* HistorySynced once per provider and generation.                         *)
(*                                                                         *)
(* Gossip messages are lost, delayed and reordered.  An event is its       *)
(* author and seq; nobody writes while the client syncs, and the pending   *)
(* buffer does not overflow (PendingBuffer is about that), so the DAG is   *)
(* what hangs together of what has arrived.                                *)
(***************************************************************************)
EXTENDS Naturals, Sequences, FiniteSets

CONSTANTS
    Chains,         \* the length of each author's chain
    Owner,          \* the author of the genesis event
    Provider,       \* the peers with the SyncProvider permission
    Grant,          \* the event that grants it to each of them; the genesis for the owner
    BatchSize,      \* the events an envelope holds
    MaxGeneration,  \* bound: the generations there are
    MaxLost,        \* bound: how many messages the network loses
    MaxInFlight     \* bound: the messages under way when the client asks

Writer == DOMAIN Chains
Ev(a, n) == [author |-> a, seq |-> n]
HistoryEvent == UNION {{Ev(a, n) : n \in 1 .. Chains[a]} : a \in Writer}
Genesis == Ev(Owner, 1)
NoHash == [author |-> "none"]

ASSUME HistoryAssumption ==
    /\ IsFiniteSet(Writer) /\ \A a \in Writer : Chains[a] \in Nat
    /\ Owner \in Writer /\ Chains[Owner] > 0
    /\ \A p \in Provider : Grant[p] \in HistoryEvent
    /\ BatchSize \in Nat \ {0}
    /\ MaxGeneration \in Nat \ {0} /\ MaxLost \in Nat /\ MaxInFlight \in Nat

VARIABLES
    arrived,        \* the events that have reached the client
    peers,          \* ChatMeta: peers, as far as they are providers
    seen,           \* NetworkMeta: history_markers_seen
    announced,      \* the HistorySynced events published
    generation,     \* history_stream_generation of each provider
    network,        \* the messages under way
    dropped         \* how many have been lost

historyVars == <<arrived, peers, seen, announced, generation, network, dropped>>

HistoryInit ==
    /\ arrived = {} /\ peers = {} /\ seen = {} /\ announced = {}
    /\ generation = [p \in Provider |-> 1]
    /\ network = {} /\ dropped = 0

\* The events in the client's DAG: genesis first, each after its predecessor.
dag ==
    {e \in arrived : Genesis \in arrived /\ \A n \in 1 .. e.seq : Ev(e.author, n) \in arrived}

\* is_sync_provider in the client's state.  It knows the owner from the invite.
Trusted(p) == Grant[p] = Genesis \/ Grant[p] \in dag

-----------------------------------------------------------------------------
(* The client asks.                                                        *)

\* Mutant of HeadsSummary: events that still wait for others count as well.
HeadsOfReceived == [a \in Writer |-> Cardinality({e \in arrived : e.author = a})]

HeadsSummary == [a \in Writer |-> Cardinality({e \in dag : e.author = a})]

\* A broadcast, which every provider gets for itself.
NeighborUp ==
    /\ Cardinality(network) < MaxInFlight
    /\ network' = network \cup
            {[kind |-> "SyncRequestV2", to |-> p, heads |-> HeadsSummary] : p \in Provider}
    /\ UNCHANGED <<arrived, peers, seen, announced, generation, dropped>>

-----------------------------------------------------------------------------
(* A provider answers.                                                     *)

Orders == {s \in [1 .. Cardinality(Writer) -> Writer] : \A a \in Writer : \E i \in DOMAIN s : s[i] = a}

\* events_since_filtered: chain after chain, the authors in the order of a hash map.
DeltaSince(heads, order) ==
    LET tail(a) == [i \in 1 .. Chains[a] - heads[a] |-> Ev(a, heads[a] + i)]
        upTo[n \in 0 .. Len(order)] == IF n = 0 THEN << >> ELSE upTo[n - 1] \o tail(order[n])
    IN  upTo[Len(order)]

\* pack_sync_batches; no event at all is one empty batch.
Batches(delta) ==
    LET batch(k) == {delta[i] : i \in {i \in DOMAIN delta : (i - 1) \div BatchSize = k}}
    IN  {batch(k) : k \in 0 .. (IF delta = << >> THEN 0 ELSE (Len(delta) - 1) \div BatchSize)}

\* The marker names the last event of the stream.
Marker(p, delta) ==
    [kind |-> "HistorySyncComplete", from |-> p, generation |-> generation[p],
     last |-> IF delta = << >> THEN NoHash ELSE delta[Len(delta)]]

SyncRequestV2(m) ==
    /\ m \in network /\ m.kind = "SyncRequestV2"
    /\ \E order \in Orders :
        LET delta == DeltaSince(m.heads, order)
            answers == {[kind |-> "SyncBatchV2", from |-> m.to, events |-> b] : b \in Batches(delta)}
                         \cup {Marker(m.to, delta)}
        IN  network' = (network \ {m}) \cup answers
    /\ UNCHANGED <<arrived, peers, seen, announced, generation, dropped>>

\* connect() draws a new generation.
Reconnect(p) ==
    /\ \E g \in 1 .. MaxGeneration :
        /\ \A q \in Provider : generation[q] < g
        /\ generation' = [generation EXCEPT ![p] = g]
    /\ UNCHANGED <<arrived, peers, seen, announced, network, dropped>>

-----------------------------------------------------------------------------
(* The client receives.                                                    *)

SyncBatchV2(m) ==
    /\ m \in network /\ m.kind = "SyncBatchV2"
    /\ network' = network \ {m}
    /\ peers' = peers \cup {m.from}
    /\ arrived' = arrived \cup m.events
    /\ UNCHANGED <<seen, announced, generation, dropped>>

\* record_history_marker and pending_history_providers.
Complete(p, g) ==
    LET completed == {s.provider : s \in announced} \cup {p}
    IN  IF <<p, g>> \in seen THEN UNCHANGED <<seen, announced>>
        ELSE /\ seen' = seen \cup {<<p, g>>}
             /\ announced' = announced \cup
                    {[provider |-> p, generation |-> g,
                      still_pending |-> Cardinality({q \in peers : Trusted(q)} \ completed)]}

\* Mutant of HistorySyncComplete: the marker is recorded before it is looked at.
HistorySyncCompleteEarly(m) ==
    /\ m \in network /\ m.kind = "HistorySyncComplete"
    /\ network' = network \ {m}
    /\ seen' = seen \cup {<<m.from, m.generation>>}
    /\ IF Trusted(m.from) /\ (m.last = NoHash \/ m.last \in dag)
       THEN announced' = announced \cup
                {[provider |-> m.from, generation |-> m.generation, still_pending |-> 0] :
                    s \in {<<m.from, m.generation>>} \ seen}
       ELSE UNCHANGED announced
    /\ UNCHANGED <<arrived, peers, generation, dropped>>

HistorySyncComplete(m) ==
    /\ m \in network /\ m.kind = "HistorySyncComplete"
    /\ network' = network \ {m}
    /\ IF Trusted(m.from) /\ (m.last = NoHash \/ m.last \in dag)
       THEN Complete(m.from, m.generation)
       ELSE UNCHANGED <<seen, announced>>
    /\ UNCHANGED <<arrived, peers, generation, dropped>>

Lose(m) ==
    /\ m \in network /\ dropped < MaxLost
    /\ network' = network \ {m}
    /\ dropped' = dropped + 1
    /\ UNCHANGED <<arrived, peers, seen, announced, generation>>

Handle(m) == SyncRequestV2(m) \/ SyncBatchV2(m) \/ HistorySyncComplete(m)

HistoryNext ==
    \/ NeighborUp
    \/ \E m \in network : Handle(m) \/ Lose(m)
    \/ \E p \in Provider : Reconnect(p)

\* What is not lost arrives and is handled, in any order, and neighbours keep coming up.
HistoryFairness ==
    /\ WF_historyVars(NeighborUp)
    /\ WF_historyVars(\E m \in network : Handle(m))

HistorySpec == HistoryInit /\ [][HistoryNext]_historyVars /\ HistoryFairness

-----------------------------------------------------------------------------
(* Properties.                                                             *)

\* A client that asked has the whole history in the end, whichever messages were lost, in
\* whatever order events came and however often streams overlapped: a request is
\* computed from the heads of the DAG, so whatever is missing is asked for again.
HistoryArrives == (network # {}) ~> (dag = HistoryEvent)

\* HistorySynced is published for every provider in the end: a marker that came too
\* early, from a provider the client did not trust yet or ahead of its stream, does
\* not use up the provider's generation.
CompletionIsAnnounced == (network # {}) ~> (\A p \in Provider : \E s \in announced : s.provider = p)
=============================================================================
